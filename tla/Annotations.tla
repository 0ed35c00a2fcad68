------------------------------ MODULE Annotations ------------------------------
(***************************************************************************)
(* Tags and comments of images: the transaction of contextUpdate, the      *)
(* statements of addComment, and the DELETE of an image by the index       *)
(* worker, under PostgreSQL's row locks at READ COMMITTED.                 *)
(*                                                                         *)
(* One action is one statement.  A statement that meets a lock of another  *)
(* transaction waits until that one has ended; a cycle of waiting          *)
(* transactions is broken by aborting one of them.                         *)
(***************************************************************************)
EXTENDS Naturals, FiniteSets

CONSTANTS
    Images,
    Tags,     \* names of tags
    Nothing,  \* no tag, no image, no list of tags
    Requests,
    Orders,   \* what a request may ask for
    MaxDepth, \* the number of ancestors that addComment counts to: 8
    Earlier   \* bound: the comments there are at first, each a reply to the one before

Kinds == {"context", "reply", "deindex"}

\* A message has a number; 0 stands for no message.
Messages == 1 .. Earlier + Cardinality(Requests)

\* The fields tags and comment count for "context" (Nothing: the body has no tags),
\* parent for "reply" (0: a comment that replies to none).
Asks == [kind : Kinds, image : Images, tags : (SUBSET Tags) \cup {Nothing},
         comment : BOOLEAN, parent : Messages \cup {0}]

ASSUME OrderAssumption == Orders \subseteq Asks

ASSUME AnnotationAssumption ==
    /\ MaxDepth \in Nat \ {0} /\ Earlier \in 0 .. MaxDepth + 1
    /\ IsFiniteSet(Requests)
    /\ Nothing \notin Tags /\ Nothing \notin Images /\ Nothing \notin Requests

VARIABLES
    present,  \* the images that have a row
    links,    \* rows of tag_image of an image: the tag, and the request that inserted it
    on, parent, \* rows of message: the image, and reply_to
    used,     \* messages numbered so far
    revision, \* of the image's job of embedding
    at,       \* the point a request has reached
    order,    \* what it asks for
    seen,     \* the links that its DELETE found
    removed, added, \* the links that it has deleted, the tags that it has linked
    todo, tag, \* the tags that are left, and the one it is at
    named,    \* the tags whose rows it holds
    marking,  \* the requests that hold the job's row of their image
    sharing,  \* the requests that keep the row of their image from being deleted
    cursor, depth \* where addComment is in the thread

rows == <<present, links, on, parent, used, revision>>
work == <<seen, removed, added, todo, tag>>
locks == <<named, marking, sharing>>
climb == <<cursor, depth>>
vars == <<rows, at, order, work, locks, climb>>

\* The points at which a request waits for, or executes, a statement.
Open == {"clearing", "deleting", "upserting", "linking", "commenting", "committing",
         "climbing", "inserting", "cascading"}

Init ==
    /\ present = Images
    /\ links \in [Images -> {{}} \cup {{<<t, Nothing>>} : t \in Tags}]
    /\ \E i \in Images : on = [c \in Messages |-> IF c <= Earlier THEN i ELSE Nothing]
    /\ parent = [c \in Messages |-> IF c <= Earlier THEN c - 1 ELSE 0]
    /\ used = Earlier
    /\ revision = [i \in Images |-> 0]
    /\ at = [r \in Requests |-> "none"]
    /\ order \in [Requests -> Orders]
    /\ seen = [r \in Requests |-> {}] /\ removed = seen /\ added = seen /\ todo = seen
    /\ tag = [r \in Requests |-> Nothing]
    /\ named = [r \in Requests |-> {}] /\ marking = {} /\ sharing = {}
    /\ cursor = [r \in Requests |-> 0] /\ depth = cursor

------------------------------------------------------------------------------
\* State formulae.

Image(r) == order[r].image

\* The names of a set of links.
Names(L) == {l[1] : l \in L}

\* The other requests for the same image.
Rivals(r) == {s \in Requests \ {r} : Image(s) = Image(r)}

\* Those that hold the job's row, which every change of an annotation marks.
Markers(r) == Rivals(r) \cap marking

\* Those that are deleting the image.
Deleters(r) == {s \in Rivals(r) : at[s] = "cascading"}

\* Bug: an empty list of tags is taken for none.
FoundUnlessEmpty(r) ==
    IF order[r].tags = {} THEN {} ELSE seen[r] \cap links[Image(r)]

\* The links that its DELETE saw and that are still there.
Found(r) == seen[r] \cap links[Image(r)]

\* Bug: any comment may be replied to.
ExistsAnywhere(r, c) == on[c] # Nothing

\* The message c is on the image of r.
ExistsHere(r, c) == on[c] = Image(r)

\* Bug: one ancestor too many is let pass.
DeeperThanAllowed(r) == depth[r] > MaxDepth

\* There are more ancestors than a reply may have.
TooDeep(r) == depth[r] >= MaxDepth

\* The requests that the next statement of r waits for.
Blockers(r) == {s \in Requests \ {r} :
    \/ at[r] = "deleting" /\ Found(r) # {} /\ s \in Markers(r)
    \/ at[r] = "upserting" /\ tag[r] \in named[s]
    \/ at[r] \in {"linking", "commenting", "inserting"} /\ s \in Markers(r) \cup Deleters(r)
    \/ at[r] = "none" /\ order[r].kind = "deindex" /\ s \in (Rivals(r) \cap sharing) \cup Deleters(r)
    \/ at[r] = "cascading" /\ s \in Markers(r)}

\* r is one of a cycle of requests that wait for each other.
Deadlocked(r) ==
    \E S \in SUBSET Requests :
        /\ r \in S
        /\ \A s \in S : /\ Blockers(s) \cap S # {}
                        /\ \E q \in S : s \in Blockers(q)

------------------------------------------------------------------------------
\* Next-state formulae.

GoTo(r, point) == at' = [at EXCEPT ![r] = point]

\* Bug: there is no trigger for a deletion.
MarksInserted(r) == marking' = IF at[r] = "deleting" THEN marking ELSE marking \cup {r}

\* A trigger marks the job of its image, and keeps the job's row locked.
Marks(r) == marking' = marking \cup {r}

\* A row that refers to the image keeps it from being deleted.
Shares(r) == sharing' = sharing \cup {r}

\* The transaction ends, and gives back what it locked.
Release(r) ==
    /\ named' = [named EXCEPT ![r] = {}]
    /\ marking' = marking \ {r}
    /\ sharing' = sharing \ {r}

\* Bug: an error leaves the transaction open.
AbortOpen(r) ==
    /\ GoTo(r, "failed")
    /\ UNCHANGED <<rows, work, locks, climb>>

\* The transaction is rolled back.
Abort(r) ==
    /\ GoTo(r, "failed") /\ Release(r)
    /\ UNCHANGED <<rows, work, climb>>

\* On with the tags that are left, in any order, or with the comment.
Proceed(r, rest) ==
    \/ \E t \in rest :
          /\ tag' = [tag EXCEPT ![r] = t]
          /\ todo' = [todo EXCEPT ![r] = rest \ {t}]
          /\ GoTo(r, "upserting")
    \/ /\ rest = {}
       /\ GoTo(r, IF order[r].comment THEN "commenting" ELSE "committing")
       /\ UNCHANGED <<tag, todo>>

\* A new row of message.
Post(i, reply) ==
    /\ used' = used + 1
    /\ on' = [on EXCEPT ![used + 1] = i]
    /\ parent' = [parent EXCEPT ![used + 1] = reply]

\* mark_image_embedding_dirty: once in a transaction.
Dirty(i) == revision' = [revision EXCEPT ![i] = @ + 1]

------------------------------------------------------------------------------
\* contextUpdate

Begin(r) ==
    /\ at[r] = "none" /\ order[r].kind = "context"
    /\ IF Image(r) \notin present \/ ~ (order[r].comment \/ order[r].tags # Nothing)
       THEN Abort(r)
       ELSE /\ GoTo(r, IF order[r].tags = Nothing THEN "commenting" ELSE "clearing")
            /\ UNCHANGED <<rows, work, locks, climb>>
    /\ UNCHANGED order

\* The DELETE of the image's links begins: it deletes among the links that it sees now.
StartDelete(r) ==
    /\ at[r] = "clearing"
    /\ seen' = [seen EXCEPT ![r] = links[Image(r)]]
    /\ GoTo(r, "deleting")
    /\ UNCHANGED <<rows, order, removed, added, todo, tag, locks, climb>>

\* Those of them that are still there are deleted, each of which marks the job.
Delete(r) ==
    /\ at[r] = "deleting" /\ Blockers(r) = {}
    /\ removed' = [removed EXCEPT ![r] = Found(r)]
    /\ IF Found(r) = {} THEN UNCHANGED marking ELSE Marks(r)
    /\ Proceed(r, order[r].tags)
    /\ UNCHANGED <<rows, order, seen, added, named, sharing, climb>>

\* INSERT INTO tag ... ON CONFLICT DO UPDATE locks the row of the tag.
Upsert(r) ==
    /\ at[r] = "upserting" /\ Blockers(r) = {}
    /\ named' = [named EXCEPT ![r] = @ \cup {tag[r]}]
    /\ GoTo(r, "linking")
    /\ UNCHANGED <<rows, order, work, marking, sharing, climb>>

\* INSERT INTO tag_image: the image must exist, and not have the tag.
Link(r) ==
    /\ at[r] = "linking" /\ Blockers(r) = {}
    /\ IF Image(r) \notin present \/ tag[r] \in Names(links[Image(r)] \ removed[r])
       THEN Abort(r)
       ELSE /\ added' = [added EXCEPT ![r] = @ \cup {tag[r]}]
            /\ Marks(r) /\ Shares(r)
            /\ Proceed(r, todo[r])
            /\ UNCHANGED <<rows, seen, removed, named, climb>>
    /\ UNCHANGED order

\* INSERT INTO message
Comment(r) ==
    /\ at[r] = "commenting" /\ Blockers(r) = {}
    /\ IF Image(r) \notin present THEN Abort(r)
       ELSE /\ Marks(r) /\ Shares(r)
            /\ GoTo(r, "committing")
            /\ UNCHANGED <<rows, work, named, climb>>
    /\ UNCHANGED order

Commit(r) ==
    /\ at[r] = "committing"
    /\ links' = [links EXCEPT ![Image(r)] = (@ \ removed[r]) \cup (added[r] \X {r})]
    /\ IF order[r].comment THEN Post(Image(r), 0) ELSE UNCHANGED <<used, on, parent>>
    /\ IF r \in marking THEN Dirty(Image(r)) ELSE UNCHANGED revision
    /\ GoTo(r, "done") /\ Release(r)
    /\ UNCHANGED <<present, order, work, climb>>

------------------------------------------------------------------------------
\* addComment, every statement of which is a transaction of its own.

\* The comment that is replied to is read.
Reply(r) ==
    /\ at[r] = "none" /\ order[r].kind = "reply"
    /\ IF order[r].parent = 0
       THEN GoTo(r, "inserting") /\ UNCHANGED climb
       ELSE IF ExistsHere(r, order[r].parent)
       THEN /\ cursor' = [cursor EXCEPT ![r] = parent[order[r].parent]]
            /\ depth' = [depth EXCEPT ![r] = 1]
            /\ GoTo(r, "climbing")
       ELSE GoTo(r, "failed") /\ UNCHANGED climb
    /\ UNCHANGED <<rows, order, work, locks>>

\* Each of its ancestors is read and counted.
Climb(r) ==
    /\ at[r] = "climbing"
    /\ IF cursor[r] = 0
       THEN GoTo(r, "inserting") /\ UNCHANGED climb
       ELSE IF ~ TooDeep(r) /\ ExistsHere(r, cursor[r])
       THEN /\ cursor' = [cursor EXCEPT ![r] = parent[@]]
            /\ depth' = [depth EXCEPT ![r] = @ + 1]
            /\ UNCHANGED at
       ELSE GoTo(r, "failed") /\ UNCHANGED climb
    /\ UNCHANGED <<rows, order, work, locks>>

\* INSERT INTO message, which needs the image and the comment that is replied to.
Insert(r) ==
    /\ at[r] = "inserting" /\ Blockers(r) = {}
    /\ LET reply == order[r].parent IN
       IF Image(r) \in present /\ (reply = 0 \/ on[reply] # Nothing)
       THEN /\ Post(Image(r), reply) /\ Dirty(Image(r))
            /\ GoTo(r, "done")
            /\ UNCHANGED <<present, links>>
       ELSE GoTo(r, "failed") /\ UNCHANGED rows
    /\ UNCHANGED <<order, work, locks, climb>>

------------------------------------------------------------------------------
\* The DELETE of an image: its row is locked, then what refers to it is deleted.

Deindex(r) ==
    /\ at[r] = "none" /\ order[r].kind = "deindex" /\ Blockers(r) = {}
    /\ GoTo(r, IF Image(r) \in present THEN "cascading" ELSE "done")
    /\ UNCHANGED <<rows, order, work, locks, climb>>

Cascade(r) ==
    /\ at[r] = "cascading" /\ Blockers(r) = {}
    /\ present' = present \ {Image(r)}
    /\ links' = [links EXCEPT ![Image(r)] = {}]
    /\ on' = [c \in Messages |-> IF on[c] = Image(r) THEN Nothing ELSE on[c]]
    /\ GoTo(r, "done")
    /\ UNCHANGED <<parent, used, revision, order, work, locks, climb>>

------------------------------------------------------------------------------
\* A statement fails, or the client has gone, and the deferred Rollback runs.
Fail(r) ==
    /\ at[r] \in Open
    /\ Abort(r)
    /\ UNCHANGED order

\* PostgreSQL finds the cycle and aborts one of it.
Detect(r) ==
    /\ at[r] \in Open /\ Deadlocked(r)
    /\ Abort(r)
    /\ UNCHANGED order

Handle(r) ==
    \/ StartDelete(r) \/ Delete(r) \/ Upsert(r) \/ Link(r) \/ Comment(r) \/ Commit(r)
    \/ Climb(r) \/ Insert(r)
    \/ Cascade(r)

Next == \E r \in Requests :
    \/ Begin(r) \/ Reply(r) \/ Deindex(r)
    \/ Handle(r)
    \/ Fail(r) \/ Detect(r)

Spec == Init /\ [][Next]_vars

\* Requests that wait for nobody go on, and the detector of deadlocks runs.
Fairness == \A r \in Requests : WF_vars(Handle(r)) /\ WF_vars(Detect(r))

FairSpec == Spec /\ Fairness

------------------------------------------------------------------------------
\* Properties.

\* The rows and the requests have the shape their types allow.
TypeOK ==
    /\ present \in SUBSET Images
    /\ links \in [Images -> SUBSET (Tags \X (Requests \cup {Nothing}))]
    /\ on \in [Messages -> Images \cup {Nothing}]
    /\ parent \in [Messages -> Messages \cup {0}]
    /\ used \in 0 .. Earlier + Cardinality(Requests)
    /\ revision \in [Images -> 0 .. Cardinality(Requests)]
    /\ at \in [Requests -> {"none", "done", "failed"} \cup Open]
    /\ order \in [Requests -> Orders]
    /\ seen \in [Requests -> SUBSET (Tags \X (Requests \cup {Nothing}))]
    /\ removed \in [Requests -> SUBSET (Tags \X (Requests \cup {Nothing}))]
    /\ added \in [Requests -> SUBSET Tags]
    /\ todo \in [Requests -> SUBSET Tags]
    /\ tag \in [Requests -> Tags \cup {Nothing}]
    /\ named \in [Requests -> SUBSET Tags]
    /\ marking \in SUBSET Requests /\ sharing \in SUBSET Requests
    /\ cursor \in [Requests -> Messages \cup {0}]
    /\ depth \in [Requests -> 0 .. MaxDepth]

\* The number of ancestors of a message; a message is numbered after its parent.
Ancestors[c \in Messages \cup {0}] ==
    IF c = 0 \/ parent[c] = 0 THEN 0 ELSE 1 + Ancestors[parent[c]]

\* A thread is whole: who replies, replies to a message on the same image, that is there
\* as long as the image is, below no more ancestors than addComment allows.
ThreadsWhole ==
    \A c \in Messages : on[c] # Nothing =>
        /\ on[c] \in present
        /\ parent[c] # 0 => parent[c] < c /\ on[parent[c]] = on[c]
        /\ Ancestors[c] <= MaxDepth

\* Whatever annotations of an image change, in whatever order its transactions wait for
\* each other, its job is marked in the same commit (the triggers; what EmbeddingQueue
\* takes as one action).
ChangesAreMarked ==
    [][\A i \in present \cap present' :
          (\/ Names(links'[i]) # Names(links[i])
           \/ {c \in Messages : on'[c] = i} # {c \in Messages : on[c] = i})
             => revision'[i] # revision[i]]_vars

\* An update with tags that no other change of its image's links came between leaves the
\* image with these tags and no others (contextUpdate).
UndisturbedReplace ==
    [][\A r \in Requests :
          (/\ at[r] = "committing" /\ at'[r] = "done" /\ order[r].tags # Nothing
           /\ links[Image(r)] = seen[r])
             => Names(links'[Image(r)]) = order[r].tags]_vars

\* Transactions that wait for the rows of images, tags and jobs never wait for ever
\* (contextUpdate, addComment, deindexStale).
RequestsEnd == \A r \in Requests : at[r] \in Open ~> at[r] \in {"done", "failed"}
===============================================================================
