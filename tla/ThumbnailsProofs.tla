--------------------------- MODULE ThumbnailsProofs ---------------------------
(***************************************************************************)
(* Proofs about Thumbnails, for any files, requests and versions.          *)
(*                                                                         *)
(* No row, request or scan has read a version older than the one it saw    *)
(* first, nor seen one that the disk does not have yet (RowsNotOlder,      *)
(* RequestsNotOlder, ScansNotOlder).  A row of a video is written by the   *)
(* video's scan alone, and deleted only by a request that found it damaged *)
(* (Blamed), so that it stays what the scan left.                          *)
(***************************************************************************)
EXTENDS Thumbnails, TLAPS

\* ThumbnailsTypeOK, variable by variable.
DiskTyped == disk \in [Files -> [version : Versions, there : BOOLEAN]]

CacheTyped ==
    /\ cache \in [Keys -> SUBSET Rows]
    /\ \A k \in Keys : \A row1, row2 \in cache[k] : row1 = row2

ReqTyped ==
    req \in [Readers -> Progress({"idle", "asked", "missed", "unreadable", "made", "served"})]

ScanTyped ==
    /\ scan \in [Videos -> Progress({"idle", "walked", "missed", "made", "done"})]
    /\ \A f \in Videos : scan[f].key = SmallOf(f)

Typed == DiskTyped /\ CacheTyped /\ ReqTyped /\ ScanTyped /\ spoilt \subseteq Keys

\* What was read of a file is not older than what had been seen of it, and that is not
\* newer than the file.
RowsNotOlder == \A k \in Keys : \A row \in cache[k] : row.content >= row.stamp

RequestsNotOlder ==
    \A r \in Readers :
        /\ req[r].seen <= disk[req[r].key[1]].version
        /\ req[r].stage \in {"made", "served"} => req[r].content >= req[r].seen

ScansNotOlder ==
    \A f \in Videos :
        /\ scan[f].seen <= disk[f].version
        /\ scan[f].stage = "made" => scan[f].content >= scan[f].seen

\* Whatever cannot be decrypted was damaged, and requests make no thumbnails of videos.
Blamed ==
    /\ \A k \in Keys : \A row \in cache[k] : ~ row.sound => k \in spoilt
    /\ \A r \in Readers :
           /\ req[r].stage = "unreadable" => req[r].key \in spoilt
           /\ req[r].stage = "made" => req[r].key[1] \notin Videos

------------------------------------------------------------------------------
\* Types.

\* The files that keys name, and their versions.
LEMMA KeysAndVersions ==
    ASSUME DiskTyped
    PROVE  /\ 1 \in Versions
           /\ \A k \in Keys : k[1] \in Files /\ disk[k[1]].version \in Versions
           /\ \A f \in Videos : f \in Files /\ SmallOf(f) \in Keys /\ SmallOf(f)[1] = f
BY DEF DiskTyped, Keys, Versions, Files, SmallOf

\* A row that is written has its type.
LEMMA WriteTyped ==
    ASSUME CacheTyped, NEW k \in Keys, NEW s \in Versions, NEW c \in Versions, Write(k, s, c)
    PROVE  CacheTyped'
<1>1. [stamp |-> s, content |-> c, sound |-> TRUE] \in Rows
    BY DEF Rows
<1> QED
    BY <1>1 DEF CacheTyped, Write

\* The disk keeps its type.
LEMMA DiskTypedNext ==
    ASSUME DiskTyped, [ThumbnailsNext]_thumbnail_vars
    PROVE  DiskTyped'
<1> USE DEF DiskTyped, Versions
<1>1. ASSUME NEW f \in Files, Change(f) PROVE DiskTyped'
    BY <1>1 DEF Change
<1>2. ASSUME NEW f \in Files, Unlink(f) PROVE DiskTyped'
    BY <1>2 DEF Unlink
<1>3. CASE UNCHANGED disk
    BY <1>3
<1> QED
    BY <1>1, <1>2, <1>3
    DEF ThumbnailsNext, Serve, Scan, thumbnail_vars, Arrive, Load, Discard,
        Generate, Store, End, Walk, Look, Render, Keep, GiveUp, Damage

\* The cache keeps its type.
LEMMA CacheTypedNext ==
    ASSUME Typed, [ThumbnailsNext]_thumbnail_vars
    PROVE  CacheTyped'
<1> USE DEF Typed, CacheTyped, ReqTyped, ScanTyped, Rows, Progress
<1>1. ASSUME NEW r \in Readers, Discard(r) PROVE CacheTyped'
    BY <1>1 DEF Discard, Go
<1>2. ASSUME NEW r \in Readers, Store(r) PROVE CacheTyped'
    BY <1>2, WriteTyped DEF Store, Go
<1>3. ASSUME NEW f \in Videos, Keep(f) PROVE CacheTyped'
    BY <1>3, WriteTyped, KeysAndVersions DEF Keep, ScanGo
<1>4. ASSUME NEW k \in Keys, Damage(k) PROVE CacheTyped'
  <2>1. cache'[k] = {Unsound(row) : row \in cache[k]}
      BY <1>4 DEF Damage
  <2>2. \A row \in cache[k] : Unsound(row) \in Rows
      BY DEF Unsound
  <2>3. cache'[k] \subseteq Rows /\ \A row1, row2 \in cache'[k] : row1 = row2
      BY <2>1, <2>2
  <2>4. DOMAIN cache' = Keys /\ \A j \in Keys \ {k} : cache'[j] = cache[j]
      BY <1>4 DEF Damage
  <2>5. cache' = [j \in Keys |-> cache'[j]]
      BY <1>4 DEF Damage
  <2> QED
      BY <2>3, <2>4, <2>5
<1>5. CASE UNCHANGED cache
    BY <1>5
<1> QED
    BY <1>1, <1>2, <1>3, <1>4, <1>5
    DEF ThumbnailsNext, Serve, Scan, thumbnail_vars, Arrive, Load, Generate,
        End, Walk, Look, Render, GiveUp, Change, Unlink

\* The requests keep their type.
LEMMA ReqTypedNext ==
    ASSUME DiskTyped, CacheTyped, ReqTyped, [ThumbnailsNext]_thumbnail_vars
    PROVE  ReqTyped'
<1> USE DEF CacheTyped, ReqTyped, Rows, Progress
<1>1. ASSUME NEW r \in Readers, NEW k \in Keys, Arrive(r, k) PROVE ReqTyped'
    BY <1>1, KeysAndVersions DEF Arrive
<1>2. ASSUME NEW r \in Readers, Load(r) PROVE ReqTyped'
    BY <1>2, KeysAndVersions DEF Load, Hit, Go
<1>3. ASSUME NEW r \in Readers, Discard(r) PROVE ReqTyped'
    BY <1>3, KeysAndVersions DEF Discard, Go
<1>4. ASSUME NEW r \in Readers, Generate(r) PROVE ReqTyped'
  <2>1. disk[req[r].key[1]].version \in Versions
      BY KeysAndVersions
  <2> QED
      BY <1>4, <2>1 DEF Generate
<1>5. ASSUME NEW r \in Readers, Store(r) PROVE ReqTyped'
    BY <1>5, KeysAndVersions DEF Store, Write, Go
<1>6. ASSUME NEW r \in Readers, End(r) PROVE ReqTyped'
    BY <1>6, KeysAndVersions DEF End, Idle
<1>7. CASE UNCHANGED req
    BY <1>7, KeysAndVersions
<1> QED
    BY <1>1, <1>2, <1>3, <1>4, <1>5, <1>6, <1>7
    DEF ThumbnailsNext, Serve, Scan, thumbnail_vars, Walk, Look, Render, Keep,
        GiveUp, Change, Unlink, Damage

\* The scans keep their type.
LEMMA ScanTypedNext ==
    ASSUME DiskTyped, ScanTyped, [ThumbnailsNext]_thumbnail_vars
    PROVE  ScanTyped'
<1> USE DEF ScanTyped, Progress
<1>1. ASSUME NEW f \in Videos, Walk(f) PROVE ScanTyped'
    BY <1>1, KeysAndVersions DEF Walk
<1>2. ASSUME NEW f \in Videos, Look(f) PROVE ScanTyped'
    BY <1>2, KeysAndVersions DEF Look, Exists, ScanGo
<1>3. ASSUME NEW f \in Videos, Render(f) PROVE ScanTyped'
    BY <1>3, KeysAndVersions DEF Render
<1>4. ASSUME NEW f \in Videos, Keep(f) PROVE ScanTyped'
    BY <1>4, KeysAndVersions DEF Keep, Write, ScanGo
<1>5. ASSUME NEW f \in Videos, GiveUp(f) PROVE ScanTyped'
    BY <1>5, KeysAndVersions DEF GiveUp, Idle
<1>6. CASE UNCHANGED scan
    BY <1>6, KeysAndVersions
<1> QED
    BY <1>1, <1>2, <1>3, <1>4, <1>5, <1>6
    DEF ThumbnailsNext, Serve, Scan, thumbnail_vars, Arrive, Load, Discard,
        Generate, Store, End, Change, Unlink, Damage

\* Typed is ThumbnailsTypeOK, and is kept.
LEMMA TypedNext ==
    ASSUME Typed, [ThumbnailsNext]_thumbnail_vars
    PROVE  Typed'
<1>1. spoilt' \subseteq Keys
    BY DEF Typed, ThumbnailsNext, thumbnail_vars, Serve, Scan, Arrive, Load, Discard, Generate, Store, End, Walk,
           Look, Render, Keep, GiveUp, Change, Unlink, Damage
<1> QED
    BY <1>1, DiskTypedNext, CacheTypedNext, ReqTypedNext, ScanTypedNext DEF Typed

------------------------------------------------------------------------------
\* Order of versions.

\* A row is written with what its writer has read since it saw the stamp.
LEMMA RowsNotOlderNext ==
    ASSUME Typed, RowsNotOlder, RequestsNotOlder, ScansNotOlder, [ThumbnailsNext]_thumbnail_vars
    PROVE  RowsNotOlder'
<1> USE DEF Typed, CacheTyped, ReqTyped, ScanTyped, Rows, Progress, RowsNotOlder, RequestsNotOlder,
        ScansNotOlder
<1>1. ASSUME NEW r \in Readers, Discard(r) PROVE RowsNotOlder'
    BY <1>1 DEF Discard, Go
<1>2. ASSUME NEW r \in Readers, Store(r) PROVE RowsNotOlder'
    BY <1>2 DEF Store, Write, Go
<1>3. ASSUME NEW f \in Videos, Keep(f) PROVE RowsNotOlder'
    BY <1>3 DEF Keep, Write, ScanGo
<1>4. ASSUME NEW k \in Keys, Damage(k) PROVE RowsNotOlder'
    BY <1>4 DEF Damage, Unsound
<1>5. CASE UNCHANGED cache
    BY <1>5
<1> QED
    BY <1>1, <1>2, <1>3, <1>4, <1>5
    DEF ThumbnailsNext, Serve, Scan, thumbnail_vars, Arrive, Load, Generate,
        End, Walk, Look, Render, GiveUp, Change, Unlink

\* A request reads the file, or a row with the stamp that it saw.
LEMMA RequestsNotOlderNext ==
    ASSUME Typed, RowsNotOlder, RequestsNotOlder, [ThumbnailsNext]_thumbnail_vars
    PROVE  RequestsNotOlder'
<1> USE DEF Typed, DiskTyped, CacheTyped, ReqTyped, Rows, Progress, Versions, RowsNotOlder,
        RequestsNotOlder
<1>1. ASSUME NEW r \in Readers, NEW k \in Keys, Arrive(r, k) PROVE RequestsNotOlder'
    BY <1>1, KeysAndVersions DEF Arrive
<1>2. ASSUME NEW r \in Readers, Load(r) PROVE RequestsNotOlder'
    BY <1>2, KeysAndVersions DEF Load, Hit, Go
<1>3. ASSUME NEW r \in Readers, Discard(r) PROVE RequestsNotOlder'
    BY <1>3, KeysAndVersions DEF Discard, Go
<1>4. ASSUME NEW r \in Readers, Generate(r) PROVE RequestsNotOlder'
    BY <1>4, KeysAndVersions DEF Generate
<1>5. ASSUME NEW r \in Readers, Store(r) PROVE RequestsNotOlder'
    BY <1>5, KeysAndVersions DEF Store, Write, Go
<1>6. ASSUME NEW r \in Readers, End(r) PROVE RequestsNotOlder'
    BY <1>6, KeysAndVersions DEF End, Idle
<1>7. ASSUME NEW f \in Files, Change(f) PROVE RequestsNotOlder'
    BY <1>7, KeysAndVersions DEF Change
<1>8. ASSUME NEW f \in Files, Unlink(f) PROVE RequestsNotOlder'
    BY <1>8, KeysAndVersions DEF Unlink
<1>9. CASE UNCHANGED <<disk, req>>
    BY <1>9, KeysAndVersions
<1> QED
    BY <1>1, <1>2, <1>3, <1>4, <1>5, <1>6, <1>7, <1>8, <1>9
    DEF ThumbnailsNext, Serve, Scan, thumbnail_vars, Walk, Look, Render, Keep,
        GiveUp, Damage

\* A scan reads the file that it has walked, or a later version.
LEMMA ScansNotOlderNext ==
    ASSUME Typed, ScansNotOlder, [ThumbnailsNext]_thumbnail_vars
    PROVE  ScansNotOlder'
<1> USE DEF Typed, DiskTyped, ScanTyped, Progress, Versions, ScansNotOlder
<1>1. ASSUME NEW f \in Videos, Walk(f) PROVE ScansNotOlder'
    BY <1>1, KeysAndVersions DEF Walk
<1>2. ASSUME NEW f \in Videos, Look(f) PROVE ScansNotOlder'
    BY <1>2, KeysAndVersions DEF Look, Exists, ScanGo
<1>3. ASSUME NEW f \in Videos, Render(f) PROVE ScansNotOlder'
    BY <1>3, KeysAndVersions DEF Render
<1>4. ASSUME NEW f \in Videos, Keep(f) PROVE ScansNotOlder'
    BY <1>4, KeysAndVersions DEF Keep, Write, ScanGo
<1>5. ASSUME NEW f \in Videos, GiveUp(f) PROVE ScansNotOlder'
    BY <1>5, KeysAndVersions DEF GiveUp, Idle
<1>6. ASSUME NEW f \in Files, Change(f) PROVE ScansNotOlder'
    BY <1>6, KeysAndVersions DEF Change
<1>7. ASSUME NEW f \in Files, Unlink(f) PROVE ScansNotOlder'
    BY <1>7, KeysAndVersions DEF Unlink
<1>8. CASE UNCHANGED <<disk, scan>>
    BY <1>8, KeysAndVersions
<1> QED
    BY <1>1, <1>2, <1>3, <1>4, <1>5, <1>6, <1>7, <1>8
    DEF ThumbnailsNext, Serve, Scan, thumbnail_vars, Arrive, Load, Discard,
        Generate, Store, End, Damage

------------------------------------------------------------------------------
\* Rows of videos.

\* Only Damage makes a row unreadable, and a request that meets a video ends there.
LEMMA BlamedNext ==
    ASSUME Typed, Blamed, [ThumbnailsNext]_thumbnail_vars
    PROVE  Blamed'
<1> USE DEF Typed, CacheTyped, ReqTyped, ScanTyped, Rows, Progress, Blamed
<1>1. ASSUME NEW r \in Readers, NEW k \in Keys, Arrive(r, k) PROVE Blamed'
    BY <1>1 DEF Arrive
<1>2. ASSUME NEW r \in Readers, Load(r) PROVE Blamed'
  <2>1. \A s \in Readers \ {r} : req'[s] = req[s]
      BY <1>2 DEF Load, Go
  <2>2. /\ req'[r].key = req[r].key /\ req'[r].stage /= "made"
        /\ req'[r].stage = "unreadable" => \E row \in cache[req[r].key] : ~ row.sound
      BY <1>2 DEF Load, Hit, Go
  <2> QED
      BY <1>2, <2>1, <2>2 DEF Load
<1>3. ASSUME NEW r \in Readers, Discard(r) PROVE Blamed'
    BY <1>3 DEF Discard, Go
<1>4. ASSUME NEW r \in Readers, Generate(r) PROVE Blamed'
    BY <1>4 DEF Generate
<1>5. ASSUME NEW r \in Readers, Store(r) PROVE Blamed'
    BY <1>5 DEF Store, Write, Go
<1>6. ASSUME NEW r \in Readers, End(r) PROVE Blamed'
    BY <1>6 DEF End, Idle
<1>7. ASSUME NEW f \in Videos, Keep(f) PROVE Blamed'
    BY <1>7 DEF Keep, Write, ScanGo
<1>8. ASSUME NEW k \in Keys, Damage(k) PROVE Blamed'
    BY <1>8 DEF Damage, Unsound
<1>9. CASE UNCHANGED <<cache, spoilt, req>>
    BY <1>9
<1> QED
    BY <1>1, <1>2, <1>3, <1>4, <1>5, <1>6, <1>7, <1>8, <1>9
    DEF ThumbnailsNext, Serve, Scan, thumbnail_vars, Walk, Look, Render, GiveUp,
        Change, Unlink

\* A scan leaves a row of its version, and whoever changes the row spoils it or changes
\* the version.
LEMMA WalkedVideosCachedNext ==
    ASSUME Typed, ScansNotOlder, Blamed, WalkedVideosCached, [ThumbnailsNext]_thumbnail_vars
    PROVE  WalkedVideosCached'
<1> USE DEF Typed, DiskTyped, CacheTyped, ReqTyped, ScanTyped, Progress, Versions, ScansNotOlder,
        Blamed, WalkedVideosCached, Hit
<1>1. ASSUME NEW r \in Readers, Discard(r) PROVE WalkedVideosCached'
    BY <1>1, KeysAndVersions DEF Discard, Go
<1>2. ASSUME NEW r \in Readers, Store(r) PROVE WalkedVideosCached'
    BY <1>2, KeysAndVersions DEF Store, Write, Go
<1>3. ASSUME NEW f \in Videos, Walk(f) PROVE WalkedVideosCached'
    BY <1>3, KeysAndVersions DEF Walk
<1>4. ASSUME NEW f \in Videos, Look(f) PROVE WalkedVideosCached'
    BY <1>4, KeysAndVersions DEF Look, Exists, ScanGo
<1>5. ASSUME NEW f \in Videos, Render(f) PROVE WalkedVideosCached'
    BY <1>5, KeysAndVersions DEF Render
<1>6. ASSUME NEW f \in Videos, Keep(f) PROVE WalkedVideosCached'
  <2>1. \A g \in Videos \ {f} : cache'[SmallOf(g)] = cache[SmallOf(g)] /\ scan'[g] = scan[g]
      BY <1>6, KeysAndVersions DEF Keep, Write, SmallOf, ScanGo
  <2>2. \E row \in cache'[SmallOf(f)] : row.stamp = scan[f].seen
      BY <1>6, KeysAndVersions DEF Keep, Write
  <2>3. scan'[f].seen = scan[f].seen /\ UNCHANGED <<disk, spoilt>>
      BY <1>6 DEF Keep, ScanGo
  <2> QED
      BY <2>1, <2>2, <2>3
<1>7. ASSUME NEW f \in Videos, GiveUp(f) PROVE WalkedVideosCached'
    BY <1>7, KeysAndVersions DEF GiveUp, Idle
<1>8. ASSUME NEW f \in Files, Change(f) PROVE WalkedVideosCached'
    BY <1>8, KeysAndVersions DEF Change
<1>9. ASSUME NEW f \in Files, Unlink(f) PROVE WalkedVideosCached'
    BY <1>9, KeysAndVersions DEF Unlink
<1>10. ASSUME NEW k \in Keys, Damage(k) PROVE WalkedVideosCached'
    BY <1>10, KeysAndVersions DEF Damage, Unsound
<1>11. CASE UNCHANGED <<disk, cache, spoilt, scan>>
    BY <1>11, KeysAndVersions
<1> QED
    BY <1>1, <1>2, <1>3, <1>4, <1>5, <1>6, <1>7, <1>8, <1>9, <1>10, <1>11
    DEF ThumbnailsNext, Serve, Scan, thumbnail_vars, Arrive, Load, Generate, End

------------------------------------------------------------------------------
IInv ==
    /\ Typed
    /\ RowsNotOlder /\ RequestsNotOlder /\ ScansNotOlder
    /\ Blamed /\ WalkedVideosCached

\* The strengthened invariant holds initially and is kept, so it holds always.
LEMMA Invariant == ThumbnailsSpec => []IInv
<1>1. ThumbnailsInit => IInv
  <2> SUFFICES ASSUME ThumbnailsInit PROVE IInv
      OBVIOUS
  <2> USE DEF ThumbnailsInit, Idle, Keys, Files, Versions, SmallOf
  <2>1. Typed
      BY DEF Typed, DiskTyped, CacheTyped, ReqTyped, ScanTyped, Progress, Rows
  <2>2. RowsNotOlder /\ RequestsNotOlder /\ ScansNotOlder
      BY DEF RowsNotOlder, RequestsNotOlder, ScansNotOlder
  <2>3. Blamed /\ WalkedVideosCached
      BY DEF Blamed, WalkedVideosCached
  <2> QED
      BY <2>1, <2>2, <2>3 DEF IInv
<1>2. IInv /\ [ThumbnailsNext]_thumbnail_vars => IInv'
    BY TypedNext, RowsNotOlderNext, RequestsNotOlderNext, ScansNotOlderNext, BlamedNext,
       WalkedVideosCachedNext DEF IInv
<1> QED
    BY <1>1, <1>2, PTL DEF ThumbnailsSpec

\* The cache, the requests and the scans have their types (Thumbnails).
THEOREM TypeCorrect == ThumbnailsSpec => []ThumbnailsTypeOK
<1>1. IInv => ThumbnailsTypeOK
    BY DEF IInv, Typed, DiskTyped, CacheTyped, ReqTyped, ScanTyped, ThumbnailsTypeOK
<1> QED
    BY Invariant, <1>1, PTL

\* No request is served a thumbnail of a version older than the one that it saw, whatever
\* the other requests, the worker and the disk do meanwhile (thumbnail).
THEOREM ServedIsNotOlder == ThumbnailsSpec => []ServedNotOlder
<1>1. IInv => ServedNotOlder
    BY DEF IInv, RequestsNotOlder, ServedNotOlder
<1> QED
    BY Invariant, <1>1, PTL

\* A video that the worker is done with, and that has not changed since its walk, has a
\* row of its version, unless one was damaged (ensureVideoThumbnail, loadThumbnail).
THEOREM WalkedVideosStayCached == ThumbnailsSpec => []WalkedVideosCached
<1>1. IInv => WalkedVideosCached
    BY DEF IInv
<1> QED
    BY Invariant, <1>1, PTL
==============================================================================
