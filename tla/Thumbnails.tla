------------------------------ MODULE Thumbnails ------------------------------
(***************************************************************************)
(* The thumbnail cache.  The API fills it for pictures, when one is asked  *)
(* for; the index worker fills it for videos, after a walk.  A row is      *)
(* keyed by path and variant and carries the stamp (size and time of       *)
(* modification) that was seen before the file was read; a row with        *)
(* another stamp than the file's is no hit.                                *)
(*                                                                         *)
(* A file's versions are counted; a stamp stands for a version, which      *)
(* supposes that no two versions of a file have the same size and time.    *)
(***************************************************************************)
EXTENDS Naturals

CONSTANTS
    Pictures, Videos,  \* paths of media files
    Readers,           \* requests of the API that may be under way at the same time
    MaxVersion         \* bound: versions of a file

VARIABLES
    disk,     \* the version of each file, and whether the file is there
    cache,    \* thumbnail_cache: a set of at most one row for each key, with its stamp,
              \* the version of its content, and whether it decrypts
    spoilt,   \* keys whose row was damaged at some time
    req,      \* the requests of the API
    scan      \* how far the worker is with each video

thumbnail_vars == <<disk, cache, spoilt, req, scan>>

Files == Pictures \cup Videos
Versions == Nat \ {0}
Keys == Files \X {"small", "large"}
SmallOf(f) == <<f, "small">>
Rows == [stamp : Versions, content : Versions, sound : BOOLEAN]

\* What a request, or the worker, knows: the version it saw at its stat, and the
\* version that it read the thumbnail from.
Progress(stages) == [stage : stages, key : Keys, seen : Versions, content : Versions]

\* Nothing is under way for key k.
Idle(k) == [stage |-> "idle", key |-> k, seen |-> 1, content |-> 1]

ThumbnailsInit ==
    /\ disk = [f \in Files |-> [version |-> 1, there |-> TRUE]]
    /\ cache = [k \in Keys |-> {}]
    /\ spoilt = {}
    /\ \E k \in Keys : req = [r \in Readers |-> Idle(k)]
    /\ scan = [f \in Videos |-> Idle(SmallOf(f))]

Go(r, stage) == req' = [req EXCEPT ![r].stage = stage]

ScanGo(f, stage) == scan' = [scan EXCEPT ![f].stage = stage]

\* The row written under key k by one that saw version s and read version c.
Write(k, s, c) ==
    cache' = [cache EXCEPT ![k] = {[stamp |-> s, content |-> c, sound |-> TRUE]}]

------------------------------------------------------------------------------
\* The API: thumbnail.

\* existingPath has looked at the file.
Arrive(r, k) ==
    /\ req[r].stage = "idle"
    /\ disk[k[1]].there
    /\ req' = [req EXCEPT ![r] = [stage |-> "asked", key |-> k,
                                  seen |-> disk[k[1]].version, content |-> 1]]
    /\ UNCHANGED <<disk, cache, spoilt, scan>>

\* Bug: a row is a hit whatever its stamp is.
HitAnyStamp(k, s) == cache[k]

\* The row under key k, if it has the stamp that was seen (loadThumbnail).
Hit(k, s) == {row \in cache[k] : row.stamp = s}

Load(r) ==
    LET hit == Hit(req[r].key, req[r].seen) IN
    /\ req[r].stage = "asked"
    /\ \/ hit = {} /\ Go(r, "missed")
       \/ \E row \in hit :
              IF row.sound
              THEN req' = [req EXCEPT ![r].stage = "served", ![r].content = row.content]
              ELSE Go(r, "unreadable")
    /\ UNCHANGED <<disk, cache, spoilt, scan>>

\* The DELETE does not look which row it finds.
Discard(r) ==
    /\ req[r].stage = "unreadable"
    /\ cache' = [cache EXCEPT ![req[r].key] = {}]
    /\ Go(r, "missed")
    /\ UNCHANGED <<disk, spoilt, scan>>

\* generateThumbnail opens the file again; a video is left to the worker.
Generate(r) ==
    LET f == req[r].key[1] IN
    /\ req[r].stage = "missed"
    /\ f \notin Videos /\ disk[f].there
    /\ req' = [req EXCEPT ![r].stage = "made", ![r].content = disk[f].version]
    /\ UNCHANGED <<disk, cache, spoilt, scan>>

Store(r) ==
    /\ req[r].stage = "made"
    /\ Write(req[r].key, req[r].seen, req[r].content)
    /\ Go(r, "served")
    /\ UNCHANGED <<disk, spoilt, scan>>

\* The request ends: served, or with an error (not indexed, a refused statement, no
\* thumbnail yet, a file that cannot be decoded).
End(r) ==
    /\ req[r].stage # "idle"
    /\ req' = [req EXCEPT ![r] = Idle(@.key)]
    /\ UNCHANGED <<disk, cache, spoilt, scan>>

------------------------------------------------------------------------------
\* The index worker: upsertBatch and ensureVideoThumbnail.

\* The walk takes the video's size and time.
Walk(f) ==
    /\ scan[f].stage \in {"idle", "done"}
    /\ disk[f].there
    /\ scan' = [scan EXCEPT ![f] = [stage |-> "walked", key |-> SmallOf(f),
                                   seen |-> disk[f].version, content |-> 1]]
    /\ UNCHANGED <<disk, cache, spoilt, req>>

\* Bug: the thumbnail of an earlier version counts.
ExistsAnyStamp(f) == cache[SmallOf(f)] # {}

\* The thumbnail of the version that was walked exists already.
Exists(f) == Hit(SmallOf(f), scan[f].seen) # {}

Look(f) ==
    /\ scan[f].stage = "walked"
    /\ ScanGo(f, IF Exists(f) THEN "done" ELSE "missed")
    /\ UNCHANGED <<disk, cache, spoilt, req>>

\* generateVideoThumbnail reads the file by its path.
Render(f) ==
    /\ scan[f].stage = "missed"
    /\ disk[f].there
    /\ scan' = [scan EXCEPT ![f].stage = "made", ![f].content = disk[f].version]
    /\ UNCHANGED <<disk, cache, spoilt, req>>

Keep(f) ==
    /\ scan[f].stage = "made"
    /\ Write(SmallOf(f), scan[f].seen, scan[f].content)
    /\ ScanGo(f, "done")
    /\ UNCHANGED <<disk, spoilt, req>>

\* A lost lease, a crash, a refused statement, or no frames: a warning at most.
GiveUp(f) ==
    /\ scan[f].stage \in {"walked", "missed", "made"}
    /\ scan' = [scan EXCEPT ![f] = Idle(SmallOf(f))]
    /\ UNCHANGED <<disk, cache, spoilt, req>>

------------------------------------------------------------------------------
\* The disk, and damage to the table.

Change(f) ==
    /\ disk[f].version < MaxVersion
    /\ disk' = [disk EXCEPT ![f] = [version |-> @.version + 1, there |-> TRUE]]
    /\ UNCHANGED <<cache, spoilt, req, scan>>

Unlink(f) ==
    /\ disk' = [disk EXCEPT ![f].there = FALSE]
    /\ UNCHANGED <<cache, spoilt, req, scan>>

Unsound(row) == [stamp |-> row.stamp, content |-> row.content, sound |-> FALSE]

\* decryptThumbnail will refuse the row.
Damage(k) ==
    /\ cache[k] # {}
    /\ cache' = [cache EXCEPT ![k] = {Unsound(row) : row \in @}]
    /\ spoilt' = spoilt \cup {k}
    /\ UNCHANGED <<disk, req, scan>>

Serve(r) ==
    (\E k \in Keys : Arrive(r, k)) \/ Load(r) \/ Discard(r) \/ Generate(r) \/ Store(r) \/ End(r)

Scan(f) == Walk(f) \/ Look(f) \/ Render(f) \/ Keep(f) \/ GiveUp(f)

ThumbnailsNext ==
    \/ \E r \in Readers : Serve(r)
    \/ \E f \in Videos : Scan(f)
    \/ \E f \in Files : Change(f) \/ Unlink(f)
    \/ \E k \in Keys : Damage(k)

ThumbnailsSpec == ThumbnailsInit /\ [][ThumbnailsNext]_thumbnail_vars

------------------------------------------------------------------------------
\* Properties.

\* The cache, the requests and the scans have the shape their variables allow.
ThumbnailsTypeOK ==
    /\ disk \in [Files -> [version : Versions, there : BOOLEAN]]
    /\ cache \in [Keys -> SUBSET Rows]
    /\ \A k \in Keys : \A row1, row2 \in cache[k] : row1 = row2
    /\ spoilt \subseteq Keys
    /\ req \in [Readers -> Progress({"idle", "asked", "missed", "unreadable", "made", "served"})]
    /\ scan \in [Videos -> Progress({"idle", "walked", "missed", "made", "done"})]
    /\ \A f \in Videos : scan[f].key = SmallOf(f)

\* Whoever is served a thumbnail gets one of the version that the file had when the
\* request looked at it, or of a later one, although files change between a stat, the
\* generation and the write, and writers overwrite each other (thumbnail).
ServedNotOlder == \A r \in Readers : req[r].stage = "served" => req[r].content >= req[r].seen

\* A video that the worker is done with, and that has not changed since its walk, has
\* a row that requests hit, unless its row was damaged: then a request that found it
\* unreadable may delete the new one (ensureVideoThumbnail, loadThumbnail).
WalkedVideosCached ==
    \A f \in Videos :
        /\ scan[f].stage = "done"
        /\ scan[f].seen = disk[f].version
        /\ SmallOf(f) \notin spoilt
        => Hit(SmallOf(f), disk[f].version) # {}
==============================================================================
