-------------------------- MODULE AnnotationsProofs --------------------------
(***************************************************************************)
(* Proofs about Annotations, for any images, tags, requests and depth of   *)
(* threads.                                                                *)
(*                                                                         *)
(* A message is numbered after its parent, so the numbers of ancestors are *)
(* well defined and do not change (Founded, AncestorsKept); while          *)
(* addComment climbs, what it has counted and what is left to be counted   *)
(* are the ancestors of its parent (Counted).  A link that a transaction   *)
(* found gone never comes back, because links carry the request that       *)
(* inserted them (LinksDone), so an update whose image has the same links  *)
(* at its commit as at its DELETE has deleted them all (Replaces).         *)
(***************************************************************************)
EXTENDS Annotations, FiniteSetTheorems, WellFoundedInduction, TLAPS

Points == {"none", "done", "failed"} \cup Open

\* The requests that have been served.
Served == {r \in Requests : at[r] = "done"}

\* A request posts one message and marks one job.
Bounded ==
    /\ used <= Earlier + Cardinality(Served)
    /\ \A i \in Images : revision[i] <= Cardinality(Served)

\* Tags are deleted and linked by updates that have tags.
Tagged ==
    \A r \in Requests :
        /\ at[r] \in {"clearing", "deleting", "upserting", "linking"} => order[r].tags # Nothing
        /\ at[r] \in {"upserting", "linking"} => tag[r] # Nothing

TypeInv == TypeOK /\ Bounded /\ Tagged

------------------------------------------------------------------------------
\* What is asked for has the shape of Asks.
LEMMA OrderOf ==
    ASSUME TypeOK, NEW r \in Requests
    PROVE  /\ order[r] \in Asks /\ Image(r) \in Images
           /\ order[r].tags # Nothing => order[r].tags \in SUBSET Tags
           /\ order[r].parent \in Messages \cup {0}
<1>1. order[r] \in Asks
  BY OrderAssumption DEF TypeOK
<1>2. /\ order[r].image \in Images
      /\ order[r].tags \in (SUBSET Tags) \cup {Nothing}
      /\ order[r].parent \in Messages \cup {0}
  BY <1>1 DEF Asks
<1> QED
  BY <1>1, <1>2 DEF Image

\* The constants that are counted with, and those that number messages.
LEMMA Numbers ==
    /\ Cardinality(Requests) \in Nat /\ Earlier \in Nat /\ MaxDepth \in Nat \ {0}
    /\ Messages \subseteq Nat \ {0}
BY AnnotationAssumption, FS_CardinalityType DEF Messages

\* A request that goes to another point.
LEMMA Moves ==
    ASSUME TypeOK, NEW r \in Requests, NEW point \in Points, GoTo(r, point), at[r] # "done"
    PROVE  /\ at' \in [Requests -> Points]
           /\ at'[r] = point /\ \A s \in Requests \ {r} : at'[s] = at[s]
           /\ point # "done" => Served' = Served
           /\ point = "done" => /\ Cardinality(Served') = Cardinality(Served) + 1
                                /\ Cardinality(Served') <= Cardinality(Requests)
           /\ Cardinality(Served) \in Nat /\ Cardinality(Served) < Cardinality(Requests)
<1>1. /\ at' \in [Requests -> Points]
      /\ at'[r] = point /\ \A s \in Requests \ {r} : at'[s] = at[s]
  BY DEF TypeOK, GoTo, Points
<1>2. point # "done" => Served' = Served
  BY <1>1 DEF Served
<1>3. point = "done" => Served' = Served \cup {r}
  BY <1>1 DEF Served
<1>4. /\ r \notin Served /\ Served \subseteq Requests /\ Served # Requests
      /\ Served \cup {r} \subseteq Requests
  BY DEF Served
<1>5. /\ IsFiniteSet(Served)
      /\ Cardinality(Served \cup {r}) = Cardinality(Served) + 1
      /\ Cardinality(Served \cup {r}) <= Cardinality(Requests)
  BY <1>4, AnnotationAssumption, FS_Subset, FS_AddElement
<1>6. Cardinality(Served) \in Nat
  BY <1>5, FS_CardinalityType
<1> QED
  BY <1>1, <1>2, <1>3, <1>5, <1>6, Numbers

\* What is left of a list of tags, and the comment.
LEMMA ProceedTypes ==
    ASSUME TypeOK, NEW r \in Requests, NEW rest \in SUBSET Tags, Proceed(r, rest)
    PROVE  /\ tag' \in [Requests -> Tags \cup {Nothing}]
           /\ todo' \in [Requests -> SUBSET Tags]
           /\ \E point \in {"upserting", "commenting", "committing"} : GoTo(r, point)
           /\ at'[r] = "upserting" => tag'[r] # Nothing
           /\ \A s \in Requests \ {r} : tag'[s] = tag[s] /\ todo'[s] = todo[s]
<1>1. CASE \E t \in rest :
          /\ tag' = [tag EXCEPT ![r] = t]
          /\ todo' = [todo EXCEPT ![r] = rest \ {t}]
          /\ GoTo(r, "upserting")
  <2>1. PICK t \in rest :
          /\ tag' = [tag EXCEPT ![r] = t]
          /\ todo' = [todo EXCEPT ![r] = rest \ {t}]
          /\ GoTo(r, "upserting")
    BY <1>1
  <2> QED
    BY <2>1, AnnotationAssumption DEF TypeOK
<1>2. CASE /\ rest = {}
           /\ GoTo(r, IF order[r].comment THEN "commenting" ELSE "committing")
           /\ UNCHANGED <<tag, todo>>
  BY <1>2 DEF TypeOK, GoTo
<1> QED
  BY <1>1, <1>2 DEF Proceed

\* A new message has a number left.
LEMMA PostTypes ==
    ASSUME TypeInv, NEW r \in Requests, NEW reply \in Messages \cup {0},
           GoTo(r, "done"), at[r] # "done", Post(Image(r), reply)
    PROVE  /\ used + 1 \in Messages /\ used' = used + 1
           /\ on' \in [Messages -> Images \cup {Nothing}]
           /\ parent' \in [Messages -> Messages \cup {0}]
           /\ used' \in 0 .. Earlier + Cardinality(Requests)
           /\ used' <= Earlier + Cardinality(Served')
<1>1. "done" \in Points
  BY DEF Points
<1>2. used + 1 \in Messages /\ used' <= Earlier + Cardinality(Served')
  BY <1>1, Moves, Numbers DEF TypeInv, TypeOK, Bounded, Messages, Post
<1> QED
  BY <1>2, OrderOf, Numbers DEF TypeInv, TypeOK, Post, Messages

\* A mark raises the revision of one image.
LEMMA DirtyTypes ==
    ASSUME TypeInv, NEW r \in Requests,
           GoTo(r, "done"), at[r] # "done", Dirty(Image(r)) \/ UNCHANGED revision
    PROVE  /\ revision' \in [Images -> 0 .. Cardinality(Requests)]
           /\ \A i \in Images : revision'[i] <= Cardinality(Served')
<1>1. "done" \in Points
  BY DEF Points
<1>2. /\ Cardinality(Served') = Cardinality(Served) + 1
      /\ Cardinality(Served) \in Nat /\ Cardinality(Served') <= Cardinality(Requests)
  BY <1>1, Moves DEF TypeInv
<1>3. /\ revision \in [Images -> 0 .. Cardinality(Requests)]
      /\ \A i \in Images : revision[i] <= Cardinality(Served)
  BY DEF TypeInv, TypeOK, Bounded
<1>4. ASSUME NEW i \in Images
      PROVE  (IF i = Image(r) THEN revision[i] + 1 ELSE revision[i])
                \in 0 .. Cardinality(Served')
  BY <1>2, <1>3
<1>5. CASE Dirty(Image(r))
  <2>1. revision' = [i \in Images |-> IF i = Image(r) THEN revision[i] + 1 ELSE revision[i]]
    BY <1>5, <1>3, OrderOf DEF Dirty, TypeInv
  <2> QED
    BY <2>1, <1>2, <1>4, Numbers
<1>6. CASE UNCHANGED revision
  BY <1>6, <1>2, <1>3, Numbers
<1> QED
  BY <1>5, <1>6

------------------------------------------------------------------------------
\* Types

\* A step that leaves the rows alone, and moves one request.
LEMMA MoveKeepsRows ==
    ASSUME TypeInv, NEW r \in Requests, NEW point \in Points, GoTo(r, point),
           at[r] # "done", UNCHANGED rows
    PROVE  /\ present' \in SUBSET Images
           /\ links' \in [Images -> SUBSET (Tags \X (Requests \cup {Nothing}))]
           /\ on' \in [Messages -> Images \cup {Nothing}]
           /\ parent' \in [Messages -> Messages \cup {0}]
           /\ used' \in 0 .. Earlier + Cardinality(Requests)
           /\ revision' \in [Images -> 0 .. Cardinality(Requests)]
           /\ at' \in [Requests -> Points]
           /\ Bounded'
<1>1. Cardinality(Served) <= Cardinality(Served') /\ Cardinality(Served') \in Nat
  BY Moves DEF TypeInv
<1>2. Cardinality(Served) \in Nat
  BY Moves DEF TypeInv
<1>3. Bounded'
  BY <1>1, <1>2, Numbers DEF rows, Bounded, TypeInv, TypeOK
<1> QED
  BY <1>3, Moves DEF rows, TypeInv, TypeOK

\* The requests that have not moved are tagged as they were.
LEMMA TaggedKept ==
    ASSUME TypeInv, NEW r \in Requests, NEW point \in Points, GoTo(r, point), at[r] # "done",
           UNCHANGED order, \A s \in Requests \ {r} : tag'[s] = tag[s],
           point \in {"clearing", "deleting", "upserting", "linking"} => order[r].tags # Nothing,
           point \in {"upserting", "linking"} => tag'[r] # Nothing
    PROVE  Tagged'
BY Moves DEF TypeInv, Tagged

\* A statement that leaves the rows and its lists of tags alone.
LEMMA QuietTypes ==
    ASSUME TypeInv, NEW r \in Requests, NEW point \in Points, GoTo(r, point),
           at[r] # "done", UNCHANGED <<rows, order, todo, tag>>,
           point \in {"clearing", "deleting", "upserting", "linking"} => order[r].tags # Nothing,
           point \in {"upserting", "linking"} => tag[r] # Nothing,
           seen' \in [Requests -> SUBSET (Tags \X (Requests \cup {Nothing}))],
           removed' \in [Requests -> SUBSET (Tags \X (Requests \cup {Nothing}))],
           added' \in [Requests -> SUBSET Tags],
           named' \in [Requests -> SUBSET Tags],
           marking' \in SUBSET Requests, sharing' \in SUBSET Requests,
           cursor' \in [Requests -> Messages \cup {0}],
           depth' \in [Requests -> 0 .. MaxDepth]
    PROVE  TypeInv'
<1>1. Tagged'
  BY TaggedKept DEF TypeInv, TypeOK
<1> QED
  BY <1>1, MoveKeepsRows DEF TypeInv, TypeOK, Points

\* The transaction ends without a trace.
LEMMA AbortTypes ==
    ASSUME TypeInv, NEW r \in Requests, at[r] # "done", Abort(r), UNCHANGED order
    PROVE  TypeInv'
<1>1. /\ "failed" \in Points
      /\ named' \in [Requests -> SUBSET Tags]
      /\ marking' \in SUBSET Requests /\ sharing' \in SUBSET Requests
  BY DEF Points, Abort, Release, TypeInv, TypeOK
<1> QED
  BY <1>1, QuietTypes DEF Abort, work, climb, TypeInv, TypeOK

\* A transaction that goes on with the tags that are left.
LEMMA ProceedingTypes ==
    ASSUME TypeInv, NEW r \in Requests, NEW rest \in SUBSET Tags, Proceed(r, rest),
           at[r] # "done", order[r].tags # Nothing, UNCHANGED <<rows, order, seen, named, climb>>,
           removed' \in [Requests -> SUBSET (Tags \X (Requests \cup {Nothing}))],
           added' \in [Requests -> SUBSET Tags],
           marking' \in SUBSET Requests, sharing' \in SUBSET Requests
    PROVE  TypeInv'
<1>1. PICK point \in {"upserting", "commenting", "committing"} : GoTo(r, point)
  BY ProceedTypes DEF TypeInv
<1>2. point \in Points
  BY DEF Points, Open
<1>3. at'[r] = point
  BY <1>1, <1>2, Moves DEF TypeInv
<1>4. Tagged'
  BY <1>1, <1>2, <1>3, ProceedTypes, TaggedKept DEF TypeInv
<1> QED
  BY <1>1, <1>2, <1>4, ProceedTypes, MoveKeepsRows DEF TypeInv, TypeOK, climb, Points

\* Init establishes the types.
LEMMA InitTypes == Init => TypeInv
<1> SUFFICES ASSUME Init PROVE TypeInv
  OBVIOUS
<1>1. Served = {}
  BY DEF Init, Served
<1>2. Bounded
  BY <1>1, FS_EmptySet, Numbers DEF Init, Bounded
<1>3. Tagged
  BY DEF Init, Tagged
<1>4. /\ links \in [Images -> SUBSET (Tags \X (Requests \cup {Nothing}))]
      /\ revision \in [Images -> 0 .. Cardinality(Requests)]
      /\ used \in 0 .. Earlier + Cardinality(Requests)
  BY Numbers DEF Init
<1>5. /\ on \in [Messages -> Images \cup {Nothing}]
      /\ parent \in [Messages -> Messages \cup {0}]
  BY Numbers DEF Init, Messages
<1>6. /\ at \in [Requests -> Points] /\ tag \in [Requests -> Tags \cup {Nothing}]
      /\ cursor \in [Requests -> Messages \cup {0}]
      /\ depth \in [Requests -> 0 .. MaxDepth]
  BY Numbers DEF Init, Points
<1>7. /\ seen \in [Requests -> SUBSET (Tags \X (Requests \cup {Nothing}))]
      /\ added \in [Requests -> SUBSET Tags] /\ named \in [Requests -> SUBSET Tags]
      /\ marking \in SUBSET Requests /\ sharing \in SUBSET Requests
      /\ removed = seen /\ todo = added
  BY DEF Init
<1> QED
  BY <1>2, <1>3, <1>4, <1>5, <1>6, <1>7 DEF Init, TypeInv, TypeOK, Points

\* The transaction of contextUpdate keeps the types.
LEMMA ContextTypes ==
    ASSUME TypeInv, NEW r \in Requests,
           Begin(r) \/ StartDelete(r) \/ Delete(r) \/ Upsert(r) \/ Link(r) \/ Comment(r) \/ Commit(r)
    PROVE  TypeInv'
<1> USE DEF Points, Open
<1>1. CASE Begin(r)
  <2>1. CASE Abort(r)
    BY <2>1, <1>1, AbortTypes DEF Begin
  <2>2. CASE ~ Abort(r)
    <3>1. PICK point \in {"commenting", "clearing"} :
             GoTo(r, point) /\ (point = "clearing" => order[r].tags # Nothing)
      BY <2>2, <1>1 DEF Begin
    <3> QED
      BY <3>1, <2>2, <1>1, QuietTypes DEF Begin, rows, work, locks, climb, TypeInv, TypeOK
  <2> QED
    BY <2>1, <2>2
<1>2. CASE StartDelete(r)
  <2>1. order[r].tags # Nothing
    BY <1>2 DEF StartDelete, TypeInv, Tagged
  <2>2. seen' \in [Requests -> SUBSET (Tags \X (Requests \cup {Nothing}))]
    BY <1>2, OrderOf DEF StartDelete, TypeInv, TypeOK
  <2> QED
    BY <2>1, <2>2, <1>2, QuietTypes DEF StartDelete, rows, locks, climb, TypeInv, TypeOK
<1>3. CASE Delete(r)
  <2>1. order[r].tags # Nothing /\ order[r].tags \in SUBSET Tags
    BY <1>3, OrderOf DEF Delete, TypeInv, Tagged
  <2>2. removed' \in [Requests -> SUBSET (Tags \X (Requests \cup {Nothing}))]
    BY <1>3 DEF Delete, Found, TypeInv, TypeOK
  <2>3. marking' \in SUBSET Requests
    BY <1>3 DEF Delete, Marks, TypeInv, TypeOK
  <2> QED
    BY <2>1, <2>2, <2>3, <1>3, ProceedingTypes DEF Delete, rows, climb, TypeInv, TypeOK
<1>4. CASE Upsert(r)
  <2>1. order[r].tags # Nothing /\ tag[r] # Nothing
    BY <1>4 DEF Upsert, TypeInv, Tagged
  <2>2. named' \in [Requests -> SUBSET Tags]
    BY <2>1, <1>4 DEF Upsert, TypeInv, TypeOK
  <2> QED
    BY <2>1, <2>2, <1>4, QuietTypes DEF Upsert, rows, work, climb, TypeInv, TypeOK
<1>5. CASE Link(r)
  <2>1. order[r].tags # Nothing /\ tag[r] # Nothing
    BY <1>5 DEF Link, TypeInv, Tagged
  <2>2. CASE Abort(r)
    BY <2>2, <1>5, AbortTypes DEF Link
  <2>3. CASE ~ Abort(r)
    <3>1. /\ added' = [added EXCEPT ![r] = @ \cup {tag[r]}]
          /\ Marks(r) /\ Shares(r)
          /\ Proceed(r, todo[r])
          /\ UNCHANGED <<rows, seen, removed, named, climb>> /\ UNCHANGED order
      BY <2>3, <1>5 DEF Link
    <3>2. added' \in [Requests -> SUBSET Tags] /\ todo[r] \in SUBSET Tags
      BY <3>1, <2>1 DEF TypeInv, TypeOK
    <3>3. marking' \in SUBSET Requests /\ sharing' \in SUBSET Requests
      BY <3>1 DEF Marks, Shares, TypeInv, TypeOK
    <3> QED
      BY <3>1, <3>2, <3>3, <2>1, <1>5, ProceedingTypes DEF Link, TypeInv, TypeOK
  <2> QED
    BY <2>2, <2>3
<1>6. CASE Comment(r)
  <2>1. CASE Abort(r)
    BY <2>1, <1>6, AbortTypes DEF Comment
  <2>2. CASE ~ Abort(r)
    <3>1. marking' \in SUBSET Requests /\ sharing' \in SUBSET Requests
      BY <2>2, <1>6 DEF Comment, Marks, Shares, TypeInv, TypeOK
    <3> QED
      BY <3>1, <2>2, <1>6, QuietTypes DEF Comment, rows, work, climb, TypeInv, TypeOK
  <2> QED
    BY <2>1, <2>2
<1>7. CASE Commit(r)
  <2>1. GoTo(r, "done") /\ at[r] # "done" /\ "done" \in Points
    BY <1>7 DEF Commit
  <2>2. /\ revision' \in [Images -> 0 .. Cardinality(Requests)]
        /\ \A i \in Images : revision'[i] <= Cardinality(Served')
    BY <2>1, <1>7, DirtyTypes DEF Commit
  <2>3. /\ on' \in [Messages -> Images \cup {Nothing}]
        /\ parent' \in [Messages -> Messages \cup {0}]
        /\ used' \in 0 .. Earlier + Cardinality(Requests)
        /\ used' <= Earlier + Cardinality(Served')
    <3>1. CASE order[r].comment
      BY <3>1, <2>1, <1>7, PostTypes DEF Commit
    <3>2. CASE ~ order[r].comment
      BY <3>2, <2>1, <1>7, Moves, Numbers DEF Commit, TypeInv, TypeOK, Bounded
    <3> QED
      BY <3>1, <3>2
  <2>4. links' \in [Images -> SUBSET (Tags \X (Requests \cup {Nothing}))]
    BY <1>7, OrderOf DEF Commit, TypeInv, TypeOK
  <2>5. /\ named' \in [Requests -> SUBSET Tags]
        /\ marking' \in SUBSET Requests /\ sharing' \in SUBSET Requests
    BY <1>7 DEF Commit, Release, TypeInv, TypeOK
  <2>6. Tagged'
    BY <2>1, <1>7, TaggedKept DEF Commit, work
  <2> QED
    BY <2>1, <2>2, <2>3, <2>4, <2>5, <2>6, <1>7, Moves
    DEF Commit, work, climb, TypeInv, TypeOK, Bounded
<1> QED
  BY <1>1, <1>2, <1>3, <1>4, <1>5, <1>6, <1>7

\* The statements of addComment keep the types.
LEMMA ReplyTypes ==
    ASSUME TypeInv, NEW r \in Requests, Reply(r) \/ Climb(r) \/ Insert(r)
    PROVE  TypeInv'
<1> USE DEF Points, Open
<1>1. CASE Reply(r)
  <2>1. PICK point \in {"inserting", "climbing", "failed"} : GoTo(r, point)
    BY <1>1 DEF Reply
  <2>2. /\ cursor' \in [Requests -> Messages \cup {0}]
        /\ depth' \in [Requests -> 0 .. MaxDepth]
    <3>1. CASE UNCHANGED climb
      BY <3>1 DEF climb, TypeInv, TypeOK
    <3>2. CASE ~ UNCHANGED climb
      <4>1. /\ order[r].parent \in Messages /\ 1 \in 0 .. MaxDepth
            /\ cursor' = [cursor EXCEPT ![r] = parent[order[r].parent]]
            /\ depth' = [depth EXCEPT ![r] = 1]
        BY <3>2, <1>1, OrderOf, Numbers DEF Reply, TypeInv
      <4> QED
        BY <4>1 DEF TypeInv, TypeOK
    <3> QED
      BY <3>1, <3>2
  <2> QED
    BY <2>1, <2>2, <1>1, QuietTypes DEF Reply, rows, work, locks, TypeInv, TypeOK
<1>2. CASE Climb(r)
  <2>1. PICK point \in {"inserting", "climbing", "failed"} : GoTo(r, point)
    BY <1>2 DEF Climb, GoTo, TypeInv, TypeOK
  <2>2. /\ cursor' \in [Requests -> Messages \cup {0}]
        /\ depth' \in [Requests -> 0 .. MaxDepth]
    <3>1. CASE UNCHANGED climb
      BY <3>1 DEF climb, TypeInv, TypeOK
    <3>2. CASE ~ UNCHANGED climb
      <4>1. /\ cursor[r] # 0 /\ ~ TooDeep(r)
            /\ cursor' = [cursor EXCEPT ![r] = parent[@]]
            /\ depth' = [depth EXCEPT ![r] = @ + 1]
        BY <3>2, <1>2 DEF Climb
      <4>2. cursor[r] \in Messages /\ depth[r] + 1 \in 0 .. MaxDepth
        BY <4>1, Numbers DEF TooDeep, TypeInv, TypeOK
      <4> QED
        BY <4>1, <4>2 DEF TypeInv, TypeOK
    <3> QED
      BY <3>1, <3>2
  <2> QED
    BY <2>1, <2>2, <1>2, QuietTypes DEF Climb, rows, work, locks, TypeInv, TypeOK
<1>3. CASE Insert(r)
  <2>1. CASE GoTo(r, "failed") /\ UNCHANGED rows
    BY <2>1, <1>3, QuietTypes DEF Insert, work, locks, climb, TypeInv, TypeOK
  <2>2. CASE /\ Post(Image(r), order[r].parent) /\ Dirty(Image(r))
             /\ GoTo(r, "done")
             /\ UNCHANGED <<present, links>>
    <3>1. at[r] # "done" /\ "done" \in Points /\ order[r].parent \in Messages \cup {0}
      BY <1>3, OrderOf DEF Insert, TypeInv
    <3>2. Tagged'
      BY <3>1, <2>2, <1>3, TaggedKept DEF Insert, work
    <3> QED
      BY <3>1, <3>2, <2>2, <1>3, PostTypes, DirtyTypes, Moves
      DEF Insert, work, locks, climb, TypeInv, TypeOK, Bounded
  <2> QED
    BY <2>1, <2>2, <1>3 DEF Insert
<1> QED
  BY <1>1, <1>2, <1>3

\* The deletion of an image keeps the types.
LEMMA DeindexTypes ==
    ASSUME TypeInv, NEW r \in Requests, Deindex(r) \/ Cascade(r)
    PROVE  TypeInv'
<1> USE DEF Points, Open
<1>1. CASE Deindex(r)
  <2>1. PICK point \in {"cascading", "done"} : GoTo(r, point)
    BY <1>1 DEF Deindex
  <2> QED
    BY <2>1, <1>1, QuietTypes DEF Deindex, rows, work, locks, climb, TypeInv, TypeOK
<1>2. CASE Cascade(r)
  <2>1. GoTo(r, "done") /\ at[r] # "done" /\ "done" \in Points
    BY <1>2 DEF Cascade
  <2>2. Tagged'
    BY <2>1, <1>2, TaggedKept DEF Cascade, work
  <2>3. /\ links' \in [Images -> SUBSET (Tags \X (Requests \cup {Nothing}))]
        /\ on' \in [Messages -> Images \cup {Nothing}]
    BY <1>2 DEF Cascade, TypeInv, TypeOK
  <2>4. Bounded'
    BY <2>1, <1>2, Moves, Numbers DEF Cascade, TypeInv, TypeOK, Bounded
  <2> QED
    BY <2>1, <2>2, <2>3, <2>4, <1>2, Moves DEF Cascade, work, locks, climb, TypeInv, TypeOK
<1> QED
  BY <1>1, <1>2

\* Every step keeps the types.
LEMMA TypeStep ==
    ASSUME TypeInv, [Next]_vars
    PROVE  TypeInv'
<1>1. CASE UNCHANGED vars
  BY <1>1 DEF vars, rows, work, locks, climb, TypeInv, TypeOK, Bounded, Tagged, Served
<1>2. ASSUME NEW r \in Requests, Fail(r) \/ Detect(r)
      PROVE  TypeInv'
  BY <1>2, AbortTypes DEF Fail, Detect, Open
<1> QED
  BY <1>1, <1>2, ContextTypes, ReplyTypes, DeindexTypes DEF Next, Handle

\* Every reachable state has the shape of its tables and variables (TypeOK): requests that
\* post a message or mark a job do so once, and climbing stops at the limit.
THEOREM TypeCorrect == Spec => []TypeOK
<1>1. Init => TypeInv
  BY InitTypes
<1>2. TypeInv /\ [Next]_vars => TypeInv'
  BY TypeStep
<1>3. TypeInv => TypeOK
  BY DEF TypeInv
<1> QED
  BY <1>1, <1>2, <1>3, PTL DEF Spec

------------------------------------------------------------------------------
\* Threads

\* Messages are numbered in the order in which they come; those to come are nowhere.
Founded ==
    \A c \in Messages :
        /\ parent[c] # 0 => parent[c] < c
        /\ used < c => on[c] = Nothing /\ parent[c] = 0

\* f counts the ancestors that p gives.
Numbered(p, f) ==
    f = [c \in Messages \cup {0} |-> IF c = 0 \/ p[c] = 0 THEN 0 ELSE 1 + f[p[c]]]

Lengths == Numbered(parent, Ancestors) /\ Ancestors \in [Messages \cup {0} -> Nat]

\* A message that r replies to, or may reply to, was found on the image of r.
Replied(r) == order[r].parent <= used /\ on[order[r].parent] \in {Image(r), Nothing}

\* What has been counted, and what is still above, are all the ancestors.
Counted ==
    \A r \in Requests :
        /\ at[r] = "climbing" =>
              /\ order[r].parent # 0 /\ Replied(r)
              /\ cursor[r] <= used /\ 1 <= depth[r]
              /\ Ancestors[order[r].parent] =
                    depth[r] - 1 + (IF cursor[r] = 0 THEN 0 ELSE 1 + Ancestors[cursor[r]])
        /\ at[r] = "inserting" /\ order[r].parent # 0 =>
              Replied(r) /\ Ancestors[order[r].parent] < MaxDepth

\* The image of a request that refers to it stays.
Shared ==
    /\ \A r \in sharing :
          /\ at[r] \in {"upserting", "linking", "commenting", "committing"}
          /\ Image(r) \in present /\ Deleters(r) = {}
    /\ \A r \in Requests : at[r] = "committing" /\ order[r].comment => r \in sharing

ThreadInv == TypeInv /\ Founded /\ Lengths /\ Counted /\ Shared /\ ThreadsWhole

\* Two counts agree as far as the parents do.
LEMMA CountsAgree ==
    ASSUME NEW p \in [Messages -> Messages \cup {0}], NEW q \in [Messages -> Messages \cup {0}],
           NEW f, NEW g, Numbered(p, f), Numbered(q, g), NEW n \in Nat,
           \A c \in Messages : c <= n => q[c] = p[c] /\ (p[c] # 0 => p[c] < c)
    PROVE  \A c \in Messages \cup {0} : c <= n => f[c] = g[c]
<1> DEFINE T == {c \in Messages \cup {0} : c <= n /\ f[c] # g[c]}
<1>1. SUFFICES ASSUME T # {} PROVE FALSE
  OBVIOUS
<1>2. T \subseteq Messages \cup {0} /\ Messages \cup {0} \subseteq Nat
  BY Numbers
<1> DEFINE Below == {s \in Nat \X Nat : s[1] < s[2]}
<1>10. IsWellFoundedOn(Below, Nat)
  BY NatLessThanWellFounded DEF OpToRel
<1>3. PICK x \in T : \A y \in T : ~ (<<y, x>> \in Below)
  <2> HIDE DEF T, Below
  <2> QED
    BY <1>1, <1>2, <1>10, WFMin
<1>4. \A y \in T : ~ (y < x)
  BY <1>2, <1>3
<1>5. f[0] = 0 /\ g[0] = 0
  BY DEF Numbered
<1>6. x \in Messages /\ x <= n /\ f[x] # g[x]
  BY <1>5
<1>7. /\ f[x] = IF p[x] = 0 THEN 0 ELSE 1 + f[p[x]]
      /\ g[x] = IF p[x] = 0 THEN 0 ELSE 1 + g[p[x]]
  BY <1>6, Numbers DEF Numbered
<1>8. p[x] # 0 /\ p[x] \in Messages /\ p[x] < x
  BY <1>6, <1>7
<1>9. p[x] <= n /\ p[x] \notin T
  <2>1. x \in Nat /\ p[x] \in Nat
    BY <1>6, <1>8, Numbers
  <2>2. p[x] <= n
    BY <2>1, <1>6, <1>8
  <2>3. p[x] \notin T
    <3> HIDE DEF T
    <3> QED
      BY <1>4, <1>8
  <2> QED
    BY <2>2, <2>3
<1> QED
  BY <1>6, <1>7, <1>8, <1>9

\* As long as no message is posted the ancestors are the same.
LEMMA AncestorsSame ==
    ASSUME UNCHANGED parent
    PROVE  Ancestors' = Ancestors
BY DEF Ancestors

\* The next message counts one more ancestor than the one that it replies to, and the
\* counts of the others stay.
LEMMA AncestorsKept ==
    ASSUME TypeOK, TypeOK', Founded, Lengths, NEW reply \in Messages \cup {0}, reply <= used,
           used + 1 \in Messages, parent' = [parent EXCEPT ![used + 1] = reply]
    PROVE  /\ Lengths'
           /\ \A c \in Messages \cup {0} : c <= used => Ancestors'[c] = Ancestors[c]
           /\ Ancestors'[used + 1] = IF reply = 0 THEN 0 ELSE 1 + Ancestors[reply]
<1> DEFINE g == [c \in Messages \cup {0} |->
                    IF c = used + 1 THEN IF reply = 0 THEN 0 ELSE 1 + Ancestors[reply]
                    ELSE Ancestors[c]]
<1>1. used \in Nat /\ Messages \cup {0} \subseteq Nat
  BY Numbers DEF TypeOK
<1>2. g \in [Messages \cup {0} -> Nat]
  BY DEF Lengths
<1>3. Numbered(parent', g)
  <2>1. ASSUME NEW c \in Messages \cup {0}
        PROVE  g[c] = IF c = 0 \/ parent'[c] = 0 THEN 0 ELSE 1 + g[parent'[c]]
    <3>1. CASE c = 0
      BY <3>1, <1>1 DEF Lengths, Numbered
    <3>2. CASE c = used + 1
      <4>1. parent'[c] = reply /\ c # 0
        BY <3>2, <1>1 DEF TypeOK
      <4>2. reply # used + 1
        BY <1>1
      <4> QED
        BY <3>2, <4>1, <4>2
    <3>3. CASE c \in Messages /\ c # used + 1
      <4>1. parent'[c] = parent[c] /\ parent[c] \in Messages \cup {0}
        BY <3>3 DEF TypeOK
      <4>2. parent[c] # 0 => parent[c] # used + 1
        BY <3>3, <4>1, <1>1 DEF Founded
      <4>3. Ancestors[c] = IF parent[c] = 0 THEN 0 ELSE 1 + Ancestors[parent[c]]
        BY <3>3, <1>1, Numbers DEF Lengths, Numbered
      <4> QED
        BY <3>3, <4>1, <4>2, <4>3, <1>1, Numbers
    <3> QED
      BY <3>1, <3>2, <3>3
  <2> HIDE DEF g
  <2> QED
    BY <2>1, <1>2 DEF Numbered
<1>4. Numbered(parent', Ancestors')
  <2> HIDE DEF g
  <2> QED
    BY <1>3 DEF Numbered, Ancestors
<1>5. \A c \in Messages : parent'[c] # 0 => parent'[c] < c
  BY <1>1 DEF Founded, TypeOK
<1>6. \A c \in Messages \cup {0} : Ancestors'[c] = g[c]
  <2> DEFINE n == Earlier + Cardinality(Requests)
  <2>1. n \in Nat /\ \A c \in Messages \cup {0} : c <= n
    BY Numbers DEF Messages
  <2>2. parent' \in [Messages -> Messages \cup {0}]
    BY DEF TypeOK
  <2> HIDE DEF g, n
  <2>3. \A c \in Messages \cup {0} : c <= n => Ancestors'[c] = g[c]
    <3>1. ASSUME NEW p \in [Messages -> Messages \cup {0}], NEW f, Numbered(p, f), Numbered(p, g),
                 \A c \in Messages : p[c] # 0 => p[c] < c
          PROVE  \A c \in Messages \cup {0} : c <= n => f[c] = g[c]
      BY <3>1, <2>1, CountsAgree
    <3> QED
      BY <3>1, <2>2, <1>3, <1>4, <1>5
  <2> QED
    BY <2>1, <2>3
<1>7. Lengths'
  <2>1. DOMAIN Ancestors' = Messages \cup {0}
        /\ Ancestors' = [c \in Messages \cup {0} |-> Ancestors'[c]]
    BY <1>4 DEF Numbered
  <2>2. Ancestors' \in [Messages \cup {0} -> Nat]
    <3>1. \A c \in Messages \cup {0} : Ancestors'[c] \in Nat
      BY <1>2, <1>6
    <3> QED
      BY <2>1, <3>1
  <2> QED
    BY <2>2, <1>4 DEF Lengths
<1>8. \A c \in Messages \cup {0} : c <= used => c # used + 1
  BY <1>1
<1> QED
  BY <1>1, <1>6, <1>7, <1>8

\* A step that posts no message and deletes no image, and leaves the points of r and of
\* its messages alone, or stops.
LEMMA ThreadsKept ==
    ASSUME ThreadInv, TypeInv', UNCHANGED <<present, on, parent, used, order>>, Counted', Shared'
    PROVE  ThreadInv'
BY AncestorsSame DEF ThreadInv, Founded, Lengths, ThreadsWhole

\* A request that does not reply is not counted.
LEMMA CountedKept ==
    ASSUME ThreadInv, UNCHANGED <<on, parent, used, order>>, NEW r \in Requests,
           NEW point \in Points \ {"climbing", "inserting"}, GoTo(r, point),
           \A s \in Requests \ {r} : cursor'[s] = cursor[s] /\ depth'[s] = depth[s]
    PROVE  Counted'
<1>1. at'[r] = point /\ \A s \in Requests \ {r} : at'[s] = at[s]
  BY DEF GoTo, ThreadInv, TypeInv, TypeOK
<1> QED
  BY <1>1, AncestorsSame DEF ThreadInv, Counted, Replied, Image

\* The locks on images stay good when a request moves that deletes none.
LEMMA SharedKept ==
    ASSUME ThreadInv, UNCHANGED <<present, order>>, NEW r \in Requests,
           NEW point \in Points \ {"cascading"}, GoTo(r, point),
           \/ /\ sharing' = sharing \ {r} /\ point # "committing"
           \/ /\ sharing' = sharing
              /\ r \in sharing => point \in {"upserting", "linking", "commenting", "committing"}
              /\ point = "committing" /\ order[r].comment => r \in sharing
           \/ /\ sharing' = sharing \cup {r} /\ Image(r) \in present /\ Deleters(r) = {}
              /\ point \in {"upserting", "linking", "commenting", "committing"}
    PROVE  Shared'
<1>1. at'[r] = point /\ \A s \in Requests \ {r} : at'[s] = at[s]
  BY DEF GoTo, ThreadInv, TypeInv, TypeOK
<1>2. \A s \in Requests : Deleters(s)' \subseteq Deleters(s)
  BY <1>1 DEF Deleters, Rivals, Image
<1>3. sharing \subseteq Requests
  BY DEF ThreadInv, TypeInv, TypeOK
<1> QED
  BY <1>1, <1>2, <1>3 DEF Shared, ThreadInv, Image

\* A message that is posted under one with few enough ancestors leaves the threads whole.
LEMMA PostKeeps ==
    ASSUME ThreadInv, TypeInv', NEW r \in Requests, GoTo(r, "done"), at[r] # "done",
           NEW reply \in Messages \cup {0}, reply <= used, Post(Image(r), reply),
           Image(r) \in present, UNCHANGED <<present, order, climb>>, Shared',
           reply # 0 => on[reply] = Image(r) /\ Ancestors[reply] < MaxDepth
    PROVE  ThreadInv'
<1>1. /\ used + 1 \in Messages /\ used' = used + 1 /\ used \in Nat
      /\ Messages \cup {0} \subseteq Nat /\ Image(r) # Nothing
  BY PostTypes, Numbers, OrderOf, AnnotationAssumption DEF ThreadInv, TypeInv, TypeOK
<1>2. /\ parent' = [parent EXCEPT ![used + 1] = reply]
      /\ on' = [on EXCEPT ![used + 1] = Image(r)]
  BY DEF Post
<1>3. /\ \A c \in Messages \ {used + 1} : parent'[c] = parent[c] /\ on'[c] = on[c]
      /\ parent'[used + 1] = reply /\ on'[used + 1] = Image(r)
  BY <1>1, <1>2 DEF ThreadInv, TypeInv, TypeOK
<1>4. /\ Lengths'
      /\ \A c \in Messages \cup {0} : c <= used => Ancestors'[c] = Ancestors[c]
      /\ Ancestors'[used + 1] = IF reply = 0 THEN 0 ELSE 1 + Ancestors[reply]
  BY <1>1, <1>2, AncestorsKept DEF ThreadInv, TypeInv
<1>5. Founded'
  BY <1>1, <1>3 DEF Founded, ThreadInv
<1>6. Counted'
  <2>1. at'[r] = "done" /\ \A s \in Requests \ {r} : at'[s] = at[s]
    BY DEF GoTo, ThreadInv, TypeInv, TypeOK
  <2>2. \A s \in Requests : order[s].parent \in Messages \cup {0} /\ cursor[s] \in Messages \cup {0}
    BY OrderOf DEF ThreadInv, TypeInv, TypeOK
  <2>3. \A s \in Requests : order[s].parent # 0 /\ Replied(s) => Replied(s)'
    BY <2>2, <1>1, <1>3 DEF Replied, Image
  <2>4. \A c \in Messages \cup {0} : c <= used => Ancestors'[c] = Ancestors[c]
    BY <1>4
  <2>5. ASSUME NEW s \in Requests, at'[s] = "climbing"
        PROVE  /\ order'[s].parent # 0 /\ Replied(s)'
               /\ cursor'[s] <= used' /\ 1 <= depth'[s]
               /\ Ancestors'[order'[s].parent] = depth'[s] - 1 +
                     (IF cursor'[s] = 0 THEN 0 ELSE 1 + Ancestors'[cursor'[s]])
    <3>1. /\ order[s].parent # 0 /\ Replied(s)
          /\ cursor[s] <= used /\ 1 <= depth[s]
          /\ Ancestors[order[s].parent] =
                depth[s] - 1 + (IF cursor[s] = 0 THEN 0 ELSE 1 + Ancestors[cursor[s]])
      BY <2>1, <2>5 DEF ThreadInv, Counted
    <3>2. /\ Ancestors'[order[s].parent] = Ancestors[order[s].parent]
          /\ Ancestors'[cursor[s]] = Ancestors[cursor[s]]
      BY <3>1, <2>2, <2>4 DEF Replied
    <3>3. cursor' = cursor /\ depth' = depth /\ order' = order /\ cursor[s] <= used'
      BY <3>1, <2>2, <1>1 DEF climb
    <3> QED
      BY <3>1, <3>2, <3>3, <2>3
  <2>6. ASSUME NEW s \in Requests, at'[s] = "inserting", order'[s].parent # 0
        PROVE  Replied(s)' /\ Ancestors'[order'[s].parent] < MaxDepth
    <3>1. order[s].parent # 0 /\ Replied(s) /\ Ancestors[order[s].parent] < MaxDepth
      BY <2>1, <2>6 DEF ThreadInv, Counted
    <3> QED
      BY <3>1, <2>2, <2>3, <2>4 DEF Replied
  <2> QED
    BY <2>5, <2>6 DEF Counted
<1>7. ThreadsWhole'
  <2>1. ASSUME NEW c \in Messages, on'[c] # Nothing, c # used + 1
        PROVE  /\ on'[c] \in present'
               /\ parent'[c] # 0 => parent'[c] < c /\ on'[parent'[c]] = on'[c]
               /\ Ancestors'[c] <= MaxDepth
    <3>1. on[c] # Nothing /\ c <= used /\ parent[c] \in Messages \cup {0}
      BY <2>1, <1>1, <1>3 DEF ThreadInv, Founded, TypeInv, TypeOK
    <3>2. /\ on[c] \in present
          /\ parent[c] # 0 => parent[c] < c /\ on[parent[c]] = on[c]
          /\ Ancestors[c] <= MaxDepth
      BY <3>1 DEF ThreadInv, ThreadsWhole
    <3>3. parent[c] # 0 => parent[c] # used + 1
      BY <3>1, <3>2, <1>1
    <3> QED
      BY <2>1, <3>1, <3>2, <3>3, <1>3, <1>4
  <2>2. /\ on'[used + 1] \in present'
        /\ reply # 0 => reply < used + 1 /\ on'[reply] = Image(r)
        /\ Ancestors'[used + 1] <= MaxDepth
    <3>1. reply # 0 => Ancestors[reply] \in Nat
      BY DEF ThreadInv, Lengths
    <3>2. reply # 0 => reply < used + 1 /\ reply \in Messages \ {used + 1}
      BY <1>1
    <3> QED
      BY <3>1, <3>2, <1>1, <1>3, <1>4, Numbers
  <2> QED
    BY <2>1, <2>2, <1>3 DEF ThreadsWhole
<1> QED
  BY <1>4, <1>5, <1>6, <1>7 DEF ThreadInv

\* A request is never in the way of its own locks on an image.
LEMMA NotSharing ==
    ASSUME ThreadInv, NEW r \in Requests,
           at[r] \notin {"upserting", "linking", "commenting", "committing"}
    PROVE  r \notin sharing
BY DEF ThreadInv, Shared

\* What is left of a transaction that goes on.
LEMMA ProceedPoint ==
    ASSUME TypeOK, NEW r \in Requests, NEW rest \in SUBSET Tags, Proceed(r, rest)
    PROVE  \E point \in {"upserting", "commenting", "committing"} :
              GoTo(r, point) /\ (point = "committing" => ~ order[r].comment)
BY DEF Proceed

\* The statements of contextUpdate keep the threads.
LEMMA ContextThreads ==
    ASSUME ThreadInv, TypeInv', NEW r \in Requests,
           \/ Begin(r) \/ StartDelete(r) \/ Delete(r) \/ Upsert(r) \/ Link(r) \/ Comment(r)
           \/ Commit(r) \/ Fail(r) \/ Detect(r)
    PROVE  ThreadInv'
<1> USE DEF Points, Open
<1>1. CASE Commit(r)
  <2>1. GoTo(r, "done") /\ at[r] # "done" /\ UNCHANGED <<present, order, climb>>
    BY <1>1 DEF Commit
  <2>2. Shared'
    BY <1>1, <2>1, SharedKept DEF Commit, Release
  <2>3. CASE order[r].comment
    <3>1. Image(r) \in present
      BY <1>1, <2>3 DEF Commit, ThreadInv, Shared
    <3>2. 0 <= used
      BY Numbers DEF ThreadInv, TypeInv, TypeOK
    <3> QED
      BY <1>1, <2>1, <2>2, <2>3, <3>1, <3>2, PostKeeps DEF Commit
  <2>4. CASE ~ order[r].comment
    BY <1>1, <2>1, <2>2, <2>4, CountedKept, ThreadsKept DEF Commit, climb
  <2> QED
    BY <2>3, <2>4
<1>2. CASE ~ Commit(r)
  <2>1. UNCHANGED <<present, on, parent, used, order, cursor, depth>>
    BY <1>2 DEF Begin, StartDelete, Delete, Upsert, Link, Comment, Fail, Detect, Abort, rows, climb
  <2>2. ASSUME NEW point \in Points \ {"climbing", "inserting"}, GoTo(r, point), Shared'
        PROVE  ThreadInv'
    BY <2>1, <2>2, CountedKept, ThreadsKept
  <2>3. ASSUME Abort(r)
        PROVE  ThreadInv'
    <3>1. GoTo(r, "failed") /\ sharing' = sharing \ {r}
      BY <2>3 DEF Abort, Release
    <3>2. Shared'
      BY <3>1, <2>1, SharedKept
    <3> QED
      BY <3>1, <3>2, <2>2
  <2>4. CASE Begin(r)
    <3>1. CASE ~ Abort(r)
      <4>1. PICK point \in {"commenting", "clearing"} : GoTo(r, point)
        BY <3>1, <2>4 DEF Begin
      <4>2. sharing' = sharing /\ r \notin sharing
        BY <3>1, <2>4, NotSharing DEF Begin, locks
      <4>3. Shared'
        BY <4>1, <4>2, <2>1, SharedKept
      <4> QED
        BY <4>1, <4>3, <2>2
    <3> QED
      BY <3>1, <2>3
  <2>5. CASE StartDelete(r)
    <3>1. GoTo(r, "deleting") /\ sharing' = sharing /\ r \notin sharing
      BY <2>5, NotSharing DEF StartDelete, locks
    <3>2. Shared'
      BY <3>1, <2>1, SharedKept
    <3> QED
      BY <3>1, <3>2, <2>2
  <2>6. CASE Delete(r)
    <3>1. order[r].tags \in SUBSET Tags
      BY <2>6, OrderOf DEF Delete, ThreadInv, TypeInv, Tagged
    <3>2. PICK point \in {"upserting", "commenting", "committing"} :
             GoTo(r, point) /\ (point = "committing" => ~ order[r].comment)
      BY <2>6, <3>1, ProceedPoint DEF Delete, ThreadInv, TypeInv
    <3>3. sharing' = sharing /\ r \notin sharing
      BY <2>6, NotSharing DEF Delete
    <3>4. Shared'
      BY <3>2, <3>3, <2>1, SharedKept
    <3> QED
      BY <3>2, <3>4, <2>2
  <2>7. CASE Upsert(r)
    <3>1. GoTo(r, "linking") /\ sharing' = sharing
      BY <2>7 DEF Upsert
    <3>2. Shared'
      BY <3>1, <2>1, SharedKept
    <3> QED
      BY <3>1, <3>2, <2>2
  <2>8. ASSUME Link(r) \/ Comment(r), ~ Abort(r)
        PROVE  ThreadInv'
    <3>1. /\ Image(r) \in present /\ sharing' = sharing \cup {r}
          /\ Blockers(r) = {} /\ at[r] \in {"linking", "commenting"}
      BY <2>8 DEF Link, Comment, Shares
    <3>2. Deleters(r) = {}
      BY <3>1 DEF Blockers, Deleters, Rivals
    <3>3. \E point \in {"upserting", "commenting", "committing"} : GoTo(r, point)
      BY <2>8, ProceedPoint DEF Link, Comment, ThreadInv, TypeInv, TypeOK
    <3>4. Shared'
      BY <3>1, <3>2, <3>3, <2>1, SharedKept
    <3> QED
      BY <3>3, <3>4, <2>2
  <2>9. CASE Fail(r) \/ Detect(r)
    BY <2>9, <2>3 DEF Fail, Detect
  <2> QED
    BY <1>2, <2>3, <2>4, <2>5, <2>6, <2>7, <2>8, <2>9
<1> QED
  BY <1>1, <1>2

\* The statements of addComment count the ancestors, and keep the threads.
LEMMA ReplyThreads ==
    ASSUME ThreadInv, TypeInv', NEW r \in Requests, Reply(r) \/ Climb(r) \/ Insert(r)
    PROVE  ThreadInv'
<1> USE DEF Points, Open
<1> DEFINE top == order[r].parent
<1>1. /\ top \in Messages \cup {0} /\ cursor[r] \in Messages \cup {0} /\ used \in Nat
      /\ Messages \cup {0} \subseteq Nat /\ Nothing \notin Images /\ Image(r) \in Images
      /\ depth[r] \in Nat /\ MaxDepth \in Nat \ {0} /\ depth[r] <= MaxDepth
  BY OrderOf, Numbers, AnnotationAssumption DEF ThreadInv, TypeInv, TypeOK
<1>2. \A c \in Messages :
         /\ parent[c] \in Messages \cup {0}
         /\ Ancestors[c] = IF parent[c] = 0 THEN 0 ELSE 1 + Ancestors[parent[c]]
         /\ parent[c] # 0 => parent[c] < c
         /\ used < c => on[c] = Nothing
         /\ Ancestors[c] \in Nat
  BY Numbers DEF ThreadInv, Lengths, Numbered, Founded, TypeInv, TypeOK
<1>3. r \notin sharing
  BY NotSharing DEF Reply, Climb, Insert
<1>4. ASSUME Reply(r) \/ Climb(r)
      PROVE  ThreadInv'
  <2>1. /\ UNCHANGED <<present, links, on, parent, used, order>> /\ sharing' = sharing
        /\ Ancestors' = Ancestors
    BY <1>4, AncestorsSame DEF Reply, Climb, rows, locks
  <2>2. PICK point \in {"inserting", "climbing", "failed"} : GoTo(r, point)
    BY <1>4 DEF Reply, Climb, GoTo, ThreadInv, TypeInv, TypeOK
  <2>3. /\ at'[r] = point /\ \A s \in Requests \ {r} : at'[s] = at[s]
        /\ \A s \in Requests \ {r} : cursor'[s] = cursor[s] /\ depth'[s] = depth[s]
    BY <1>4, <2>2 DEF Reply, Climb, climb, GoTo, ThreadInv, TypeInv, TypeOK
  <2>4. Shared'
    BY <2>1, <2>2, <1>3, SharedKept
  <2>5. point = "climbing" =>
           /\ top # 0 /\ top <= used /\ on[top] \in {Image(r), Nothing}
           /\ cursor'[r] <= used /\ 1 <= depth'[r]
           /\ Ancestors[top] =
                 depth'[r] - 1 + (IF cursor'[r] = 0 THEN 0 ELSE 1 + Ancestors[cursor'[r]])
    <3>1. CASE Reply(r) /\ point = "climbing"
      <4>1. /\ top # 0 /\ on[top] = Image(r)
            /\ cursor'[r] = parent[top] /\ depth'[r] = 1
        BY <3>1, <2>3 DEF Reply, GoTo, ExistsHere, ThreadInv, TypeInv, TypeOK
      <4>2. top \in Messages /\ top <= used
        BY <4>1, <1>1, <1>2
      <4>3. parent[top] <= used
        BY <4>2, <1>1, <1>2
      <4> QED
        BY <4>1, <4>2, <4>3, <1>1, <1>2
    <3>2. CASE Climb(r) /\ point = "climbing"
      <4>1. /\ cursor[r] # 0 /\ on[cursor[r]] = Image(r)
            /\ cursor'[r] = parent[cursor[r]] /\ depth'[r] = depth[r] + 1
        BY <3>2, <2>3 DEF Climb, GoTo, ExistsHere, ThreadInv, TypeInv, TypeOK
      <4>2. /\ top # 0 /\ top <= used /\ on[top] \in {Image(r), Nothing}
            /\ cursor[r] <= used /\ 1 <= depth[r]
            /\ Ancestors[top] = depth[r] - 1 + (1 + Ancestors[cursor[r]])
        <5>1. at[r] = "climbing"
          BY <3>2 DEF Climb
        <5> QED
          BY <4>1, <5>1 DEF ThreadInv, Counted, Replied
      <4>3. parent[cursor[r]] <= used
        BY <4>1, <4>2, <1>1, <1>2
      <4>4. Ancestors[cursor[r]] =
               IF cursor'[r] = 0 THEN 0 ELSE 1 + Ancestors[cursor'[r]]
        BY <4>1, <1>1, <1>2
      <4>5. Ancestors[cursor[r]] \in Nat
        BY <4>1, <1>1, <1>2
      <4> QED
        BY <4>1, <4>2, <4>3, <4>4, <4>5, <1>1
    <3> QED
      BY <3>1, <3>2, <1>4
  <2>6. point = "inserting" /\ top # 0 =>
           /\ top <= used /\ on[top] \in {Image(r), Nothing} /\ Ancestors[top] < MaxDepth
    <3>1. CASE Reply(r) /\ point = "inserting" /\ top # 0
      BY <3>1, <2>3 DEF Reply, GoTo, ThreadInv, TypeInv, TypeOK
    <3>2. CASE Climb(r) /\ point = "inserting" /\ top # 0
      <4>1. at[r] = "climbing" /\ cursor[r] = 0
        BY <3>2, <2>3 DEF Climb, GoTo, ThreadInv, TypeInv, TypeOK
      <4> QED
        BY <4>1, <1>1 DEF ThreadInv, Counted, Replied
    <3> QED
      BY <3>1, <3>2, <1>4
  <2>7. Counted'
    BY <2>1, <2>3, <2>5, <2>6 DEF ThreadInv, Counted, Replied, Image
  <2> QED
    BY <2>1, <2>4, <2>7, ThreadsKept
<1>5. CASE Insert(r)
  <2>1. CASE GoTo(r, "failed") /\ UNCHANGED rows
    <3>1. UNCHANGED <<present, on, parent, used, order, cursor, depth>> /\ sharing' = sharing
      BY <2>1, <1>5 DEF Insert, rows, climb, locks
    <3>2. Shared'
      BY <2>1, <3>1, <1>3, SharedKept
    <3> QED
      BY <2>1, <3>1, <3>2, CountedKept, ThreadsKept
  <2>2. CASE /\ Image(r) \in present /\ (top = 0 \/ on[top] # Nothing)
             /\ Post(Image(r), top) /\ GoTo(r, "done") /\ UNCHANGED present
    <3>1. at[r] = "inserting" /\ UNCHANGED <<order, climb>> /\ sharing' = sharing
      BY <1>5 DEF Insert, locks
    <3>2. Shared'
      BY <2>2, <3>1, <1>3, SharedKept
    <3>3. top # 0 => top <= used /\ on[top] = Image(r) /\ Ancestors[top] < MaxDepth
      BY <2>2, <3>1 DEF ThreadInv, Counted, Replied
    <3>4. top <= used
      BY <3>3, <1>1
    <3> HIDE DEF top
    <3> QED
      BY <2>2, <3>1, <3>2, <3>3, <3>4, <1>1, PostKeeps
  <2> QED
    BY <2>1, <2>2, <1>5 DEF Insert
<1> QED
  BY <1>4, <1>5

\* An image is deleted with its whole threads, and while nobody refers to it.
LEMMA DeindexThreads ==
    ASSUME ThreadInv, TypeInv', NEW r \in Requests, Deindex(r) \/ Cascade(r)
    PROVE  ThreadInv'
<1> USE DEF Points, Open
<1>1. r \notin sharing
  BY NotSharing DEF Deindex, Cascade
<1>2. CASE Deindex(r)
  <2>1. UNCHANGED <<present, on, parent, used, order, cursor, depth>> /\ sharing' = sharing
    BY <1>2 DEF Deindex, rows, locks, climb
  <2>2. PICK point \in {"cascading", "done"} : GoTo(r, point)
    BY <1>2 DEF Deindex
  <2>3. at'[r] = point /\ \A s \in Requests \ {r} : at'[s] = at[s]
    BY <2>2 DEF GoTo, ThreadInv, TypeInv, TypeOK
  <2>4. \A s \in sharing : Image(s) # Image(r)
    BY <1>1, <1>2 DEF Deindex, Blockers, Rivals, ThreadInv, TypeInv, TypeOK
  <2>5. \A s \in sharing : Deleters(s)' = Deleters(s)
    BY <2>1, <2>3, <2>4 DEF Deleters, Rivals, Image
  <2>6. Shared'
    BY <1>1, <2>1, <2>3, <2>5 DEF Shared, ThreadInv, TypeInv, TypeOK, Image
  <2> QED
    BY <2>1, <2>2, <2>6, CountedKept, ThreadsKept
<1>3. CASE Cascade(r)
  <2>1. /\ UNCHANGED <<parent, used, order, cursor, depth, sharing>> /\ Ancestors' = Ancestors
        /\ GoTo(r, "done") /\ at[r] = "cascading"
        /\ present' = present \ {Image(r)}
        /\ on' = [c \in Messages |-> IF on[c] = Image(r) THEN Nothing ELSE on[c]]
    BY <1>3, AncestorsSame DEF Cascade, locks, climb
  <2>2. at'[r] = "done" /\ \A s \in Requests \ {r} : at'[s] = at[s]
    BY <2>1 DEF GoTo, ThreadInv, TypeInv, TypeOK
  <2>3. \A s \in sharing : Image(s) # Image(r)
    BY <1>1, <2>1 DEF Deleters, Rivals, Shared, ThreadInv, TypeInv, TypeOK
  <2>4. Shared'
    BY <1>1, <2>1, <2>2, <2>3 DEF Shared, ThreadInv, TypeInv, TypeOK, Image, Deleters, Rivals
  <2>5. \A c \in Messages : on'[c] \in {on[c], Nothing}
    BY <2>1
  <2>6. Counted'
    <3>1. \A s \in Requests : order[s].parent \in Messages \cup {0}
      BY OrderOf DEF ThreadInv, TypeInv
    <3>2. \A s \in Requests : order[s].parent # 0 /\ Replied(s) => Replied(s)'
      BY <3>1, <2>1, <2>5 DEF Replied, Image
    <3> QED
      BY <3>2, <2>1, <2>2 DEF Counted, ThreadInv
  <2>7. Founded' /\ Lengths'
    BY <2>1, <2>5 DEF Founded, Lengths, ThreadInv
  <2>8. ThreadsWhole'
    <3> SUFFICES ASSUME NEW c \in Messages, on'[c] # Nothing
                 PROVE  /\ on'[c] \in present'
                        /\ parent[c] # 0 => parent[c] < c /\ on'[parent[c]] = on'[c]
                        /\ Ancestors[c] <= MaxDepth
      BY <2>1 DEF ThreadsWhole
    <3>1. on[c] # Nothing /\ on[c] # Image(r) /\ on'[c] = on[c] /\ parent[c] \in Messages \cup {0}
      BY <2>1 DEF ThreadInv, TypeInv, TypeOK
    <3>2. /\ on[c] \in present
          /\ parent[c] # 0 => parent[c] < c /\ on[parent[c]] = on[c]
          /\ Ancestors[c] <= MaxDepth
      BY <3>1 DEF ThreadInv, ThreadsWhole
    <3> QED
      BY <2>1, <3>1, <3>2
  <2> QED
    BY <2>4, <2>6, <2>7, <2>8 DEF ThreadInv
<1> QED
  BY <1>2, <1>3

\* At first there is one thread, of which each message replies to the one before.
LEMMA InitThreads == Init => ThreadInv
<1> SUFFICES ASSUME Init PROVE ThreadInv
  OBVIOUS
<1>1. TypeInv
  BY InitTypes
<1>2. PICK i \in Images : on = [c \in Messages |-> IF c <= Earlier THEN i ELSE Nothing]
  BY DEF Init
<1>3. /\ parent = [c \in Messages |-> IF c <= Earlier THEN c - 1 ELSE 0] /\ used = Earlier
      /\ present = Images
  BY DEF Init
<1>4. /\ Messages \cup {0} \subseteq Nat /\ Earlier \in Nat /\ Earlier <= MaxDepth + 1
      /\ \A c \in Messages : c <= Earlier => c - 1 \in Messages \cup {0} /\ c - 1 < c
      /\ 0 \notin Messages
  BY Numbers, AnnotationAssumption DEF Messages
<1> DEFINE f == [c \in Messages \cup {0} |-> IF c = 0 \/ Earlier < c THEN 0 ELSE c - 1]
<1>5. f \in [Messages \cup {0} -> Nat]
  BY <1>4
<1>6. Numbered(parent, f)
  <2>1. ASSUME NEW c \in Messages \cup {0}
        PROVE  f[c] = IF c = 0 \/ parent[c] = 0 THEN 0 ELSE 1 + f[parent[c]]
    BY <1>3, <1>4
  <2> HIDE DEF f
  <2> QED
    BY <2>1, <1>5 DEF Numbered
<1>7. Numbered(parent, Ancestors)
  <2> HIDE DEF f
  <2> QED
    BY <1>6 DEF Numbered, Ancestors
<1>8. Founded
  BY <1>2, <1>3, <1>4 DEF Founded
<1>9. \A c \in Messages \cup {0} : Ancestors[c] = f[c]
  <2> DEFINE n == Earlier + Cardinality(Requests)
  <2>1. n \in Nat /\ \A c \in Messages \cup {0} : c <= n
    BY Numbers DEF Messages
  <2> HIDE DEF f, n
  <2>2. ASSUME NEW p \in [Messages -> Messages \cup {0}], NEW g, Numbered(p, g), Numbered(p, f),
               \A c \in Messages : p[c] # 0 => p[c] < c
        PROVE  \A c \in Messages \cup {0} : c <= n => g[c] = f[c]
    BY <2>1, <2>2, CountsAgree
  <2> QED
    BY <2>1, <2>2, <1>1, <1>6, <1>7, <1>8 DEF Founded, TypeInv, TypeOK
<1>10. Lengths
  <2>1. Ancestors = [c \in Messages \cup {0} |-> Ancestors[c]]
    BY <1>7 DEF Numbered
  <2>2. \A c \in Messages \cup {0} : Ancestors[c] \in Nat
    BY <1>5, <1>9
  <2> QED
    BY <2>1, <2>2, <1>7 DEF Lengths
<1>11. Counted /\ Shared
  BY DEF Init, Counted, Shared
<1>12. ThreadsWhole
  <2>1. ASSUME NEW c \in Messages, on[c] # Nothing
        PROVE  /\ on[c] \in present
               /\ parent[c] # 0 => parent[c] < c /\ on[parent[c]] = on[c]
               /\ Ancestors[c] <= MaxDepth
    <3>1. c <= Earlier /\ c \in Nat /\ c # 0 /\ parent[c] = c - 1
      BY <2>1, <1>2, <1>3, <1>4
    <3>2. Ancestors[c] = c - 1
      <4>1. ~ (Earlier < c) /\ c \in Messages \cup {0}
        BY <3>1, <1>4
      <4>2. f[c] = c - 1
        BY <3>1, <4>1
      <4> HIDE DEF f
      <4> QED
        BY <4>1, <4>2, <1>9
    <3>3. parent[c] # 0 => parent[c] \in Messages /\ parent[c] <= Earlier
      BY <3>1, <1>4
    <3>4. /\ on[c] \in present
          /\ parent[c] # 0 => parent[c] < c /\ on[parent[c]] = on[c]
      <4>1. on[c] = i /\ (parent[c] # 0 => on[parent[c]] = i)
        BY <3>1, <3>3, <1>2
      <4>2. parent[c] < c
        BY <3>1
      <4> QED
        BY <4>1, <4>2, <1>3
    <3>5. Ancestors[c] <= MaxDepth
      BY <3>1, <3>2, <1>4, Numbers
    <3> QED
      BY <3>4, <3>5
  <2> QED
    BY <2>1 DEF ThreadsWhole
<1> QED
  BY <1>1, <1>8, <1>10, <1>11, <1>12 DEF ThreadInv

\* Every step keeps the threads.
LEMMA ThreadStep ==
    ASSUME ThreadInv, [Next]_vars
    PROVE  ThreadInv'
<1>1. TypeInv'
  BY TypeStep DEF ThreadInv
<1>2. CASE UNCHANGED vars
  <2>1. Counted' /\ Shared'
    BY <1>2, AncestorsSame
    DEF vars, rows, locks, climb, ThreadInv, Counted, Replied, Shared, Deleters, Rivals, Image
  <2> QED
    BY <1>1, <1>2, <2>1, ThreadsKept DEF vars, rows
<1> QED
  BY <1>1, <1>2, ContextThreads, ReplyThreads, DeindexThreads DEF Next, Handle

\* Threads are whole (ThreadsWhole): whatever replies and deletions run at the same time, a
\* reply is on the image of the comment that it replies to, which is there, and no comment
\* has more ancestors than addComment allows.
THEOREM ThreadsStayWhole == Spec => []ThreadsWhole
<1>1. Init => ThreadInv
  BY InitThreads
<1>2. ThreadInv /\ [Next]_vars => ThreadInv'
  BY ThreadStep
<1>3. ThreadInv => ThreadsWhole
  BY DEF ThreadInv
<1> QED
  BY <1>1, <1>2, <1>3, PTL DEF Spec

------------------------------------------------------------------------------
\* Tags

\* A transaction that will change something has the mark of its image's job.
Marked ==
    \A r \in Requests :
        /\ at[r] \in {"none", "clearing", "deleting"} => removed[r] = {} /\ added[r] = {}
        /\ at[r] \in Open /\ (removed[r] # {} \/ added[r] # {}) => r \in marking
        /\ at[r] = "committing" /\ order[r].comment => r \in marking

\* A link is there from the start, or from a request that has committed.
Old(l) == l[2] = Nothing \/ (l[2] \in Requests /\ at[l[2]] = "done")

LinksDone ==
    /\ \A i \in Images : \A l \in links[i] : Old(l)
    /\ \A r \in Requests : \A l \in seen[r] : Old(l)

\* What was seen has been deleted or is gone; the tags are linked, at hand, or left.
Replaces ==
    \A r \in Requests :
        /\ at[r] \in {"upserting", "linking", "commenting", "committing"} =>
              (seen[r] \ removed[r]) \cap links[Image(r)] = {}
        /\ at[r] \in {"upserting", "linking"} => added[r] \cup todo[r] \cup {tag[r]} = order[r].tags
        /\ at[r] \in {"commenting", "committing"} /\ order[r].tags # Nothing =>
              added[r] = order[r].tags
        /\ at[r] \in {"none", "clearing"} => seen[r] = {}

TagInv == ThreadInv /\ Marked /\ LinksDone /\ Replaces

\* Links that were there stay old.
LEMMA OldStays ==
    ASSUME TypeOK, NEW r \in Requests, NEW point \in Points, GoTo(r, point), at[r] # "done",
           NEW l, Old(l)
    PROVE  Old(l)'
BY Moves DEF Old

\* A step of one request changes nothing that the others rely on.
LEMMA TagKept ==
    ASSUME TagInv, NEW r \in Requests, NEW point \in Points, GoTo(r, point), at[r] # "done",
           UNCHANGED order,
           \A i \in Images : \A l \in links'[i] : Old(l)',
           \A i \in Images : \A l \in links'[i] : l \in links[i] \/ ~ Old(l),
           \A s \in Requests \ {r} :
               /\ seen'[s] = seen[s] /\ removed'[s] = removed[s] /\ added'[s] = added[s]
               /\ todo'[s] = todo[s] /\ tag'[s] = tag[s]
               /\ s \in marking => s \in marking',
           \A l \in seen'[r] : Old(l)',
           point \notin {"none", "clearing", "deleting"} \/ (removed'[r] = {} /\ added'[r] = {}),
           point \in Open /\ (removed'[r] # {} \/ added'[r] # {}) => r \in marking',
           point = "committing" /\ order[r].comment => r \in marking',
           point \in {"upserting", "linking", "commenting", "committing"} =>
               (seen'[r] \ removed'[r]) \cap links'[Image(r)] = {},
           point \in {"upserting", "linking"} =>
               added'[r] \cup todo'[r] \cup {tag'[r]} = order[r].tags,
           point \in {"commenting", "committing"} /\ order[r].tags # Nothing =>
               added'[r] = order[r].tags,
           point \notin {"none", "clearing"} \/ seen'[r] = {}
    PROVE  Marked' /\ LinksDone' /\ Replaces'
<1>1. at'[r] = point /\ \A s \in Requests \ {r} : at'[s] = at[s]
  BY Moves DEF TagInv, ThreadInv, TypeInv
<1>2. Marked'
  BY <1>1 DEF Marked, TagInv
<1>3. LinksDone'
  <2>1. ASSUME NEW s \in Requests \ {r}, NEW l \in seen'[s]
        PROVE  Old(l)'
    BY <2>1, OldStays DEF TagInv, LinksDone, ThreadInv, TypeInv
  <2> QED
    BY <2>1 DEF LinksDone
<1>4. Replaces'
  <2>1. ASSUME NEW s \in Requests \ {r},
               at'[s] \in {"upserting", "linking", "commenting", "committing"}
        PROVE  (seen'[s] \ removed'[s]) \cap links'[Image(s)] = {}
    <3>1. (seen[s] \ removed[s]) \cap links[Image(s)] = {}
      BY <2>1, <1>1 DEF TagInv, Replaces
    <3>2. Image(s) \in Images /\ \A l \in seen[s] : Old(l)
      BY OrderOf DEF TagInv, LinksDone, ThreadInv, TypeInv
    <3> QED
      BY <3>1, <3>2
  <2> QED
    BY <2>1, <1>1 DEF Replaces, TagInv, Image
<1> QED
  BY <1>2, <1>3, <1>4

\* A step of r that changes no links.
LEMMA LinksKept ==
    ASSUME TagInv, NEW r \in Requests, NEW point \in Points, GoTo(r, point), at[r] # "done",
           UNCHANGED links
    PROVE  /\ \A i \in Images : \A l \in links'[i] : Old(l)'
           /\ \A i \in Images : \A l \in links'[i] : l \in links[i] \/ ~ Old(l)
           /\ \A l \in seen[r] : Old(l)'
           /\ \A i \in Images : \A l \in links[i] : Old(l)'
BY OldStays DEF TagInv, LinksDone, ThreadInv, TypeInv

\* The statements between the DELETE of links and the commit of contextUpdate.
LEMMA ContextTags ==
    ASSUME TagInv, NEW r \in Requests,
           StartDelete(r) \/ Delete(r) \/ Upsert(r) \/ Link(r) \/ Comment(r) \/ Commit(r),
           ~ Abort(r)
    PROVE  Marked' /\ LinksDone' /\ Replaces'
<1> USE DEF Points, Open
<1>1. TypeOK /\ r \in Requests /\ Marked /\ LinksDone /\ Replaces /\ Tagged
  BY DEF TagInv, ThreadInv, TypeInv
<1>2. CASE StartDelete(r)
  <2>1. /\ GoTo(r, "deleting") /\ at[r] = "clearing" /\ UNCHANGED <<links, order, marking>>
        /\ seen'[r] = links[Image(r)] /\ \A s \in Requests \ {r} : seen'[s] = seen[s]
        /\ removed' = removed /\ added' = added /\ todo' = todo /\ tag' = tag
    BY <1>1, <1>2 DEF StartDelete, rows, locks, TypeOK
  <2>2. /\ \A l \in seen'[r] : Old(l)'
        /\ removed'[r] = {} /\ added'[r] = {}
    BY <2>1, <1>1, LinksKept, OrderOf DEF Marked
  <2> QED
    BY <2>1, <2>2, LinksKept, TagKept
<1>3. CASE Delete(r)
  <2>1. order[r].tags \in SUBSET Tags /\ order[r].tags # Nothing
    BY <1>1, <1>3, OrderOf DEF Delete, Tagged
  <2>2. /\ at[r] = "deleting" /\ UNCHANGED <<links, order, seen, added>>
        /\ removed'[r] = seen[r] \cap links[Image(r)]
        /\ \A s \in Requests \ {r} : removed'[s] = removed[s] /\ (s \in marking => s \in marking')
        /\ removed'[r] # {} => r \in marking'
        /\ added[r] = {} /\ Proceed(r, order[r].tags)
    BY <1>1, <1>3 DEF Delete, Found, Marks, Marked, rows, TypeOK
  <2>3. \A s \in Requests \ {r} : tag'[s] = tag[s] /\ todo'[s] = todo[s]
    BY <1>1, <2>1, <2>2, ProceedTypes
  <2>4. CASE \E t \in order[r].tags :
                /\ tag' = [tag EXCEPT ![r] = t]
                /\ todo' = [todo EXCEPT ![r] = order[r].tags \ {t}]
                /\ GoTo(r, "upserting")
    <3>1. added'[r] \cup todo'[r] \cup {tag'[r]} = order[r].tags
      BY <1>1, <2>2, <2>4 DEF TypeOK
    <3> QED
      BY <2>2, <2>3, <2>4, <3>1, LinksKept, TagKept
  <2>5. CASE /\ order[r].tags = {} /\ UNCHANGED <<tag, todo>>
             /\ GoTo(r, IF order[r].comment THEN "commenting" ELSE "committing")
    BY <2>2, <2>3, <2>5, LinksKept, TagKept
  <2> QED
    BY <2>2, <2>4, <2>5 DEF Proceed
<1>4. CASE Upsert(r)
  <2>1. /\ GoTo(r, "linking") /\ at[r] = "upserting"
        /\ UNCHANGED <<links, order, seen, removed, added, todo, tag, marking>>
    BY <1>4 DEF Upsert, rows, work
  <2>2. /\ removed[r] # {} \/ added[r] # {} => r \in marking
        /\ (seen[r] \ removed[r]) \cap links[Image(r)] = {}
        /\ added[r] \cup todo[r] \cup {tag[r]} = order[r].tags
    BY <1>1, <2>1 DEF Marked, Replaces
  <2> QED
    BY <2>1, <2>2, LinksKept, TagKept
<1>5. CASE Link(r)
  <2>1. /\ at[r] = "linking" /\ UNCHANGED <<links, order, seen, removed>>
        /\ added'[r] = added[r] \cup {tag[r]}
        /\ \A s \in Requests \ {r} : added'[s] = added[s] /\ (s \in marking => s \in marking')
        /\ r \in marking' /\ Proceed(r, todo[r]) /\ todo[r] \in SUBSET Tags
    BY <1>1, <1>5 DEF Link, Marks, rows, TypeOK
  <2>2. /\ (seen[r] \ removed[r]) \cap links[Image(r)] = {}
        /\ added[r] \cup todo[r] \cup {tag[r]} = order[r].tags
    BY <1>1, <2>1 DEF Replaces
  <2>3. \A s \in Requests \ {r} : tag'[s] = tag[s] /\ todo'[s] = todo[s]
    BY <1>1, <2>1, ProceedTypes
  <2>4. CASE \E t \in todo[r] :
                /\ tag' = [tag EXCEPT ![r] = t]
                /\ todo' = [todo EXCEPT ![r] = todo[r] \ {t}]
                /\ GoTo(r, "upserting")
    <3>1. added'[r] \cup todo'[r] \cup {tag'[r]} = order[r].tags
      BY <1>1, <2>1, <2>2, <2>4 DEF TypeOK
    <3> QED
      BY <2>1, <2>2, <2>3, <2>4, <3>1, LinksKept, TagKept
  <2>5. CASE /\ todo[r] = {} /\ UNCHANGED <<tag, todo>>
             /\ GoTo(r, IF order[r].comment THEN "commenting" ELSE "committing")
    <3>1. added'[r] = order[r].tags
      BY <2>1, <2>2, <2>5
    <3> QED
      BY <2>1, <2>2, <2>3, <2>5, <3>1, LinksKept, TagKept
  <2> QED
    BY <2>1, <2>4, <2>5 DEF Proceed
<1>6. CASE Comment(r)
  <2>1. /\ GoTo(r, "committing") /\ at[r] = "commenting"
        /\ UNCHANGED <<links, order, seen, removed, added, todo, tag>>
        /\ r \in marking' /\ marking \subseteq marking'
    BY <1>6 DEF Comment, Marks, rows, work
  <2>2. /\ (seen[r] \ removed[r]) \cap links[Image(r)] = {}
        /\ order[r].tags # Nothing => added[r] = order[r].tags
    BY <1>1, <2>1 DEF Replaces
  <2> QED
    BY <2>1, <2>2, LinksKept, TagKept
<1>7. CASE Commit(r)
  <2>1. /\ GoTo(r, "done") /\ at[r] = "committing"
        /\ UNCHANGED <<order, seen, removed, added, todo, tag>>
        /\ marking' = marking \ {r}
        /\ links' = [links EXCEPT ![Image(r)] = (@ \ removed[r]) \cup (added[r] \X {r})]
    BY <1>7 DEF Commit, Release, work
  <2>2. at'[r] = "done"
    BY <1>1, <2>1 DEF GoTo, TypeOK
  <2>3. ASSUME NEW i \in Images, NEW l \in links'[i]
        PROVE  l \in links[i] \/ l \in added[r] \X {r}
    BY <1>1, <2>1, <2>3 DEF TypeOK
  <2>4. \A l \in added[r] \X {r} : Old(l)' /\ ~ Old(l)
    BY <2>1, <2>2, AnnotationAssumption DEF Old
  <2>5. \A i \in Images : \A l \in links[i] : Old(l)'
    BY <1>1, <2>1, OldStays DEF LinksDone
  <2>6. \A l \in seen[r] : Old(l)'
    BY <1>1, <2>1, OldStays DEF LinksDone
  <2> QED
    BY <2>1, <2>3, <2>4, <2>5, <2>6, TagKept
<1> QED
  BY <1>2, <1>3, <1>4, <1>5, <1>6, <1>7

\* The other statements touch no list of tags.
LEMMA OtherTags ==
    ASSUME TagInv, NEW r \in Requests,
           \/ at[r] \in Open /\ Abort(r) /\ UNCHANGED order
           \/ Begin(r) \/ Reply(r) \/ Climb(r) \/ Insert(r) \/ Deindex(r) \/ Cascade(r)
    PROVE  Marked' /\ LinksDone' /\ Replaces'
<1> USE DEF Points, Open
<1>1. TypeOK /\ Marked /\ LinksDone /\ Replaces
  BY DEF TagInv, ThreadInv, TypeInv
<1>2. UNCHANGED <<order, seen, removed, added, todo, tag>> /\ at[r] # "done"
  BY DEF Abort, Begin, Reply, Climb, Insert, Deindex, Cascade, work
<1>3. \A s \in Requests \ {r} : s \in marking => s \in marking'
  BY DEF Abort, Release, Begin, Reply, Climb, Insert, Deindex, Cascade, locks
<1>4. CASE Begin(r) /\ ~ Abort(r)
  <2>1. PICK point \in {"commenting", "clearing"} :
           GoTo(r, point) /\ (point = "commenting" => order[r].tags = Nothing)
    BY <1>4 DEF Begin
  <2>2. UNCHANGED links /\ at[r] = "none"
    BY <1>4 DEF Begin, rows
  <2>3. removed[r] = {} /\ added[r] = {} /\ seen[r] = {}
    BY <1>1, <2>2 DEF Marked, Replaces
  <2> QED
    BY <1>2, <1>3, <2>1, <2>2, <2>3, LinksKept, TagKept
<1>5. ASSUME NEW point \in {"failed", "done", "inserting", "climbing", "cascading"},
             GoTo(r, point), UNCHANGED links,
             point \in Open /\ (removed[r] # {} \/ added[r] # {}) => r \in marking'
      PROVE  Marked' /\ LinksDone' /\ Replaces'
  BY <1>2, <1>3, <1>5, LinksKept, TagKept
<1>6. CASE Abort(r)
  BY <1>6, <1>5 DEF Abort, rows
<1>7. CASE Reply(r) \/ Deindex(r)
  <2>1. removed[r] = {} /\ added[r] = {} /\ UNCHANGED links
    BY <1>1, <1>7 DEF Reply, Deindex, Marked, rows
  <2>2. \E point \in {"failed", "done", "inserting", "climbing", "cascading"} : GoTo(r, point)
    BY <1>7 DEF Reply, Deindex
  <2> QED
    BY <2>1, <2>2, <1>5
<1>8. CASE Climb(r)
  <2>1. at[r] = "climbing" /\ UNCHANGED <<links, marking>>
    BY <1>8 DEF Climb, rows, locks
  <2>2. removed[r] # {} \/ added[r] # {} => r \in marking
    BY <1>1, <2>1 DEF Marked
  <2>3. \E point \in {"failed", "inserting", "climbing"} : GoTo(r, point)
    BY <1>1, <1>8 DEF Climb, GoTo, TypeOK
  <2> QED
    BY <2>1, <2>2, <2>3, <1>5
<1>9. CASE Insert(r)
  <2>1. UNCHANGED links /\ (GoTo(r, "done") \/ GoTo(r, "failed"))
    BY <1>9 DEF Insert, rows
  <2> QED
    BY <2>1, <1>5
<1>10. CASE Cascade(r)
  <2>1. GoTo(r, "done") /\ links' = [links EXCEPT ![Image(r)] = {}]
    BY <1>10 DEF Cascade
  <2>2. \A i \in Images : \A l \in links'[i] : l \in links[i]
    BY <1>1, <2>1 DEF TypeOK
  <2>3. \A i \in Images : \A l \in links[i] : Old(l)'
    BY <1>1, <1>2, <2>1, OldStays DEF LinksDone
  <2>4. \A l \in seen[r] : Old(l)'
    BY <1>1, <1>2, <2>1, OldStays DEF LinksDone
  <2> QED
    BY <1>2, <1>3, <2>1, <2>2, <2>3, <2>4, TagKept
<1> QED
  BY <1>4, <1>6, <1>7, <1>8, <1>9, <1>10

\* Every step keeps what is known of tags.
LEMMA TagStep ==
    ASSUME TagInv, [Next]_vars
    PROVE  TagInv'
<1>1. ThreadInv'
  BY ThreadStep DEF TagInv
<1>2. CASE UNCHANGED vars
  <2>1. Marked' /\ LinksDone' /\ Replaces'
    BY <1>2 DEF vars, rows, work, locks, TagInv, Marked, LinksDone, Replaces, Old, Image
  <2> QED
    BY <1>1, <2>1 DEF TagInv
<1>3. ASSUME NEW r \in Requests, Fail(r) \/ Detect(r) \/ (Handle(r) /\ Abort(r))
      PROVE  Marked' /\ LinksDone' /\ Replaces'
  <2>1. at[r] \in Open /\ Abort(r) /\ UNCHANGED order
    BY <1>3
    DEF Fail, Detect, Handle, Open, StartDelete, Delete, Upsert, Link, Comment, Commit, Climb,
        Insert, Cascade
  <2> QED
    BY <2>1, OtherTags
<1>4. ASSUME NEW r \in Requests, Begin(r) \/ Reply(r) \/ Deindex(r) \/ (Handle(r) /\ ~ Abort(r))
      PROVE  Marked' /\ LinksDone' /\ Replaces'
  BY <1>4, ContextTags, OtherTags DEF Handle
<1>5. ASSUME Next PROVE TagInv'
  BY <1>1, <1>3, <1>4, <1>5 DEF Next, TagInv
<1> QED
  BY <1>2, <1>5

\* At first no request has changed a tag.
LEMMA InitTags == Init => TagInv
<1>1. Init => Marked /\ LinksDone /\ Replaces
  BY DEF Init, Marked, LinksDone, Replaces, Old, Open
<1> QED
  BY <1>1, InitThreads DEF TagInv

\* A change of an image's tags or comments comes with a change of its job's revision.
LEMMA ChangeStep ==
    ASSUME TagInv, [Next]_vars, NEW i \in present \cap present'
    PROVE  (\/ Names(links'[i]) # Names(links[i])
            \/ {c \in Messages : on'[c] = i} # {c \in Messages : on[c] = i})
               => revision'[i] # revision[i]
<1>1. TypeInv /\ TypeOK /\ Founded /\ Marked /\ i \in Images
  BY DEF TagInv, ThreadInv, TypeInv, TypeOK
<1>2. CASE UNCHANGED <<links, on>>
  BY <1>2
<1>3. ASSUME NEW r \in Requests, Dirty(Image(r)), i = Image(r)
      PROVE  revision'[i] # revision[i]
  <2>1. revision[i] \in Nat /\ revision'[i] = revision[i] + 1
    BY <1>1, <1>3, Numbers DEF Dirty, TypeOK
  <2> QED
    BY <2>1
<1>4. ASSUME NEW r \in Requests, NEW reply, Post(Image(r), reply), i # Image(r),
             GoTo(r, "done"), at[r] # "done", reply \in Messages \cup {0}
      PROVE  {c \in Messages : on'[c] = i} = {c \in Messages : on[c] = i}
  <2>1. used + 1 \in Messages /\ used < used + 1
    BY <1>1, <1>4, PostTypes, Numbers DEF TypeOK
  <2>2. on[used + 1] = Nothing /\ i # Nothing
    BY <1>1, <2>1, AnnotationAssumption DEF Founded
  <2>3. on' = [on EXCEPT ![used + 1] = Image(r)]
    BY <1>4 DEF Post
  <2> QED
    BY <1>1, <1>4, <2>1, <2>2, <2>3 DEF TypeOK
<1>5. ASSUME NEW r \in Requests, Commit(r)
      PROVE  (\/ Names(links'[i]) # Names(links[i])
              \/ {c \in Messages : on'[c] = i} # {c \in Messages : on[c] = i})
                 => revision'[i] # revision[i]
  <2>1. /\ at[r] = "committing" /\ GoTo(r, "done")
        /\ links' = [links EXCEPT ![Image(r)] = (@ \ removed[r]) \cup (added[r] \X {r})]
        /\ IF order[r].comment THEN Post(Image(r), 0) ELSE UNCHANGED <<used, on, parent>>
        /\ IF r \in marking THEN Dirty(Image(r)) ELSE UNCHANGED revision
    BY <1>5 DEF Commit
  <2>2. CASE i # Image(r)
    <3>1. links'[i] = links[i]
      BY <1>1, <2>1, <2>2 DEF TypeOK
    <3>2. {c \in Messages : on'[c] = i} = {c \in Messages : on[c] = i}
      BY <2>1, <2>2, <1>4
    <3> QED
      BY <3>1, <3>2
  <2>3. CASE i = Image(r) /\ r \in marking
    BY <2>1, <2>3, <1>3
  <2>4. CASE i = Image(r) /\ r \notin marking
    <3>1. removed[r] = {} /\ added[r] = {} /\ ~ order[r].comment
      BY <1>1, <2>1, <2>4 DEF Marked, Open
    <3>2. links'[i] = links[i]
      BY <1>1, <2>1, <2>4, <3>1 DEF TypeOK
    <3> QED
      BY <2>1, <3>1, <3>2
  <2> QED
    BY <2>2, <2>3, <2>4
<1>6. ASSUME NEW r \in Requests, Insert(r)
      PROVE  {c \in Messages : on'[c] = i} # {c \in Messages : on[c] = i}
                => revision'[i] # revision[i]
  <2>1. CASE UNCHANGED rows
    BY <2>1 DEF rows
  <2>2. CASE ~ UNCHANGED rows
    <3>1. /\ Post(Image(r), order[r].parent) /\ Dirty(Image(r)) /\ GoTo(r, "done")
          /\ at[r] # "done" /\ order[r].parent \in Messages \cup {0}
      BY <1>1, <1>6, <2>2, OrderOf DEF Insert
    <3>2. i # Image(r) => {c \in Messages : on'[c] = i} = {c \in Messages : on[c] = i}
      BY <3>1, <1>4
    <3> QED
      BY <3>1, <3>2, <1>3
  <2> QED
    BY <2>1, <2>2
<1>7. ASSUME NEW r \in Requests, Cascade(r)
      PROVE  /\ links'[i] = links[i]
             /\ {c \in Messages : on'[c] = i} = {c \in Messages : on[c] = i}
  <2>1. i # Image(r) /\ i # Nothing
    BY <1>1, <1>7, AnnotationAssumption DEF Cascade
  <2> QED
    BY <1>1, <1>7, <2>1 DEF Cascade, TypeOK
<1>8. ASSUME NEW r \in Requests, Insert(r)
      PROVE  links' = links
  BY <1>8 DEF Insert, rows
<1>9. ASSUME NEW r \in Requests, ~ Commit(r), ~ Insert(r), ~ Cascade(r),
             \/ Begin(r) \/ Reply(r) \/ Deindex(r) \/ Handle(r) \/ Fail(r) \/ Detect(r)
      PROVE  UNCHANGED <<links, on>>
  BY <1>9
  DEF Begin, Reply, Deindex, Handle, Fail, Detect, Abort, StartDelete, Delete, Upsert, Link,
      Comment, Climb, rows
<1>10. CASE UNCHANGED vars
  BY <1>10, <1>2 DEF vars, rows
<1> QED
  BY <1>2, <1>5, <1>6, <1>7, <1>8, <1>9, <1>10 DEF Next

\* What annotates an image never changes without its job (ChangesAreMarked): a transaction
\* that deletes, links or comments has made its mark before it commits.
THEOREM EveryChangeMarked == Spec => ChangesAreMarked
<1>1. TagInv /\ [Next]_vars =>
         [\A i \in present \cap present' :
             (\/ Names(links'[i]) # Names(links[i])
              \/ {c \in Messages : on'[c] = i} # {c \in Messages : on[c] = i})
                => revision'[i] # revision[i]]_vars
  BY ChangeStep
<1>2. Init => TagInv
  BY InitTags
<1>3. TagInv /\ [Next]_vars => TagInv'
  BY TagStep
<1> QED
  BY <1>1, <1>2, <1>3, PTL DEF Spec, ChangesAreMarked

\* The tags of an update replace those of its image, unless another change of the links
\* came between its DELETE and its commit (UndisturbedReplace).
THEOREM UndisturbedReplaces == Spec => UndisturbedReplace
<1>1. ASSUME TagInv, [Next]_vars, NEW r \in Requests, at[r] = "committing", at'[r] = "done",
             order[r].tags # Nothing, links[Image(r)] = seen[r]
      PROVE  Names(links'[Image(r)]) = order[r].tags
  <2>1. TypeOK /\ Replaces /\ Image(r) \in Images
    BY <1>1, OrderOf DEF TagInv, ThreadInv, TypeInv
  <2>2. Commit(r)
    <3>1. PICK s \in Requests : \/ Begin(s) \/ Reply(s) \/ Deindex(s)
                                \/ Handle(s) \/ Fail(s) \/ Detect(s)
      BY <1>1 DEF Next, vars
    <3>2. at'[r] # at[r]
      BY <1>1
    <3>3. s = r
      BY <2>1, <3>1, <3>2
      DEF Begin, Reply, Deindex, Handle, Fail, Detect, Abort, StartDelete, Delete, Upsert, Link,
          Comment, Commit, Climb, Insert, Cascade, Proceed, GoTo, TypeOK
    <3>4. ~ Fail(r) /\ ~ Detect(r)
      BY <1>1, <2>1 DEF Fail, Detect, Abort, GoTo, TypeOK
    <3> QED
      BY <1>1, <3>1, <3>3, <3>4
      DEF Begin, Reply, Deindex, Handle, StartDelete, Delete, Upsert, Link, Comment, Climb,
          Insert, Cascade
  <2>3. links'[Image(r)] = (seen[r] \ removed[r]) \cup (added[r] \X {r})
    BY <1>1, <2>1, <2>2 DEF Commit, TypeOK
  <2>4. (seen[r] \ removed[r]) = {} /\ added[r] = order[r].tags
    BY <1>1, <2>1 DEF Replaces
  <2>5. links'[Image(r)] = order[r].tags \X {r}
    BY <2>3, <2>4
  <2>6. {l[1] : l \in order[r].tags \X {r}} = order[r].tags
    <3>1. \A t \in order[r].tags : <<t, r>> \in order[r].tags \X {r} /\ <<t, r>>[1] = t
      OBVIOUS
    <3>2. \A l \in order[r].tags \X {r} : l[1] \in order[r].tags
      OBVIOUS
    <3> QED
      BY <3>1, <3>2
  <2> QED
    BY <2>5, <2>6 DEF Names
<1>2. TagInv /\ [Next]_vars =>
         [\A r \in Requests :
             (/\ at[r] = "committing" /\ at'[r] = "done" /\ order[r].tags # Nothing
              /\ links[Image(r)] = seen[r])
                => Names(links'[Image(r)]) = order[r].tags]_vars
  BY <1>1
<1>3. Init => TagInv
  BY InitTags
<1>4. TagInv /\ [Next]_vars => TagInv'
  BY TagStep
<1> QED
  BY <1>2, <1>3, <1>4, PTL DEF Spec, UndisturbedReplace
==============================================================================
