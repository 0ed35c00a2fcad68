---------------------------- MODULE EmbeddingQueue ----------------------------
(***************************************************************************)
(* The queue of embedding jobs: the triggers that mark an image dirty, the *)
(* embedding-worker that claims a job, reads the image's annotations and   *)
(* publishes a vector, and the rule by which the API serves one.           *)
(*                                                                         *)
(* One action is one transaction, or the part of one between two points at *)
(* which another transaction can come in between.  An annotation           *)
(* transaction holds the lock of the job row from its first write to its   *)
(* commit and shows its text at the commit, so it is one action.           *)
(***************************************************************************)
EXTENDS Naturals

CONSTANTS
    Images,
    Processes,  \* embedding-worker processes; a restart is another process
    Contents,   \* the annotations an image can have, as one value
    Silent,     \* the contents whose vector has no terms
    Blank,      \* no annotation at all
    VersionOf,  \* the encoder version each process is configured with
    NoVersion,  \* embedding_setting has no row
    Overlap,    \* may two processes be alive at the same time?
    MaxEdits,   \* bound: annotation transactions
    MaxFaults,  \* bound: refused statements and stalls longer than a lease
    Nobody,     \* a NULL lease_token, and the image of an idle process
    Gone,       \* the image was de-indexed
    Unserved    \* no vector is served

ASSUME ContentAssumption ==
    /\ Blank \in Silent /\ Silent \subseteq Contents
    /\ Gone \notin Contents /\ Unserved \notin Contents

ASSUME WorkerAssumption ==
    /\ Nobody \notin Processes \cup Images
    /\ \A w \in Processes : VersionOf[w] # NoVersion
    /\ Overlap \in BOOLEAN /\ MaxEdits \in Nat /\ MaxFaults \in Nat

VARIABLES
    content,    \* the committed tags and comments of each image
    \* The row of image_embedding_job; state is "none" when there is no row.
    \* A token is the process it was drawn by: a process uses one at a time.
    revision, state, urgent, due, token, lapsed,
    \* The row of image_embedding: built_revision (0 without a row), the content
    \* the terms were made from, and version.
    built, vector, stamp,
    setting,    \* embedding_setting.version
    \* A process: its program point, its job's image and revision, the content it
    \* read, and the job rows its Configure statement saw.
    at, image, jobRevision, source, snapshot,
    edits,      \* annotation transactions so far
    faults      \* refused statements and stalls so far

row == <<revision, state, urgent, due, token, lapsed>>
embedding == <<built, vector, stamp>>
job == <<image, jobRevision, source>>
memory == <<at, job, snapshot>>
vars == <<content, row, embedding, setting, memory, edits, faults>>

\* Program points of a process between Claim and the end of Process and Fail.
Busy == {"claimed", "sourced", "publishing", "failing"}
Alive == {"starting", "configuring", "idle"} \cup Busy

\* Every annotated image has been queued by the migration.
Init ==
    /\ content \in [Images -> Contents]
    /\ revision = [i \in Images |-> IF content[i] = Blank THEN 0 ELSE 1]
    /\ state = [i \in Images |-> IF content[i] = Blank THEN "none" ELSE "pending"]
    /\ urgent = [i \in Images |-> FALSE]
    /\ due = [i \in Images |-> TRUE]
    /\ token = [i \in Images |-> Nobody]
    /\ lapsed = [i \in Images |-> FALSE]
    /\ built = [i \in Images |-> 0]
    /\ vector = [i \in Images |-> Unserved]
    /\ stamp = [i \in Images |-> NoVersion]
    /\ setting = NoVersion
    /\ at = [w \in Processes |-> "off"]
    /\ image = [w \in Processes |-> Nobody]
    /\ jobRevision = [w \in Processes |-> 0]
    /\ source = [w \in Processes |-> Unserved]
    /\ snapshot = [w \in Processes |-> {}]
    /\ edits = 0
    /\ faults = 0

------------------------------------------------------------------------------
\* State formulae.

\* The job row of i is locked by a transaction that publishes.
Locked(i) == \E w \in Processes : at[w] = "publishing" /\ image[w] = i

\* Bug: the statements find their row by the image alone.
MatchesImage(w) == TRUE

\* The row guard "revision = $2 AND lease_token = $3" of w's statements.
Matches(w) ==
    /\ state[image[w]] # "none"
    /\ revision[image[w]] = jobRevision[w]
    /\ token[image[w]] = w

\* Bug: a running job is never claimed again.
ClaimableOnce(i) == state[i] \in {"pending", "failed"} /\ due[i] /\ ~ Locked(i)

\* The rows Claim chooses from.
Claimable(i) ==
    /\ \/ state[i] \in {"pending", "failed"} /\ due[i]
       \/ state[i] = "running" /\ lapsed[i]
    /\ ~ Locked(i)

\* Bug: the queue is served in the order of available_at.
FirstDue(i) == Claimable(i)

\* Claim's ORDER BY, of which the priority is modelled.
First(i) == \A k \in Images : Claimable(k) /\ urgent[k] => urgent[i]

\* similarImages: the vector of i may be compared.
Valid(i) == state[i] = "ready" /\ built[i] = revision[i] /\ stamp[i] = setting

\* The database refuses a statement, or a process stalls.
Fault == faults < MaxFaults /\ faults' = faults + 1

------------------------------------------------------------------------------
\* Next-state formulae.

GoTo(w, point) == at' = [at EXCEPT ![w] = point]

\* w forgets its job.
Leave(w, point) ==
    /\ GoTo(w, point)
    /\ image' = [image EXCEPT ![w] = Nobody]
    /\ jobRevision' = [jobRevision EXCEPT ![w] = 0]
    /\ source' = [source EXCEPT ![w] = Unserved]
    /\ snapshot' = [snapshot EXCEPT ![w] = {}]

\* Bug: a job that runs already is left to its process.
DirtyUnlessRunning(S, priority) ==
    LET T == {i \in S : state[i] # "running"}
    IN  /\ revision' = [i \in Images |-> IF i \in T THEN revision[i] + 1 ELSE revision[i]]
        /\ state' = [i \in Images |-> IF i \in T THEN "pending" ELSE state[i]]
        /\ urgent' = [i \in Images |-> IF i \in T THEN priority[i] ELSE urgent[i]]
        /\ due' = [i \in Images |-> IF i \in T THEN TRUE ELSE due[i]]
        /\ UNCHANGED <<token, lapsed>>

\* The rows of S become pending under a new revision.
Dirty(S, priority) ==
    /\ revision' = [i \in Images |-> IF i \in S THEN revision[i] + 1 ELSE revision[i]]
    /\ state' = [i \in Images |-> IF i \in S THEN "pending" ELSE state[i]]
    /\ urgent' = [i \in Images |-> IF i \in S THEN priority[i] ELSE urgent[i]]
    /\ due' = [i \in Images |-> IF i \in S THEN TRUE ELSE due[i]]
    /\ token' = [i \in Images |-> IF i \in S THEN Nobody ELSE token[i]]
    /\ lapsed' = [i \in Images |-> IF i \in S THEN FALSE ELSE lapsed[i]]

------------------------------------------------------------------------------
\* The annotations, and the triggers that mark an image dirty.

\* A transaction of the API changes the tags or comments of i, once or several times;
\* mark_image_embedding_dirty changes the job row at the first of them.
Annotate(i, text) ==
    /\ edits < MaxEdits /\ edits' = edits + 1
    /\ content[i] # Gone /\ ~ Locked(i)
    /\ content' = [content EXCEPT ![i] = text]
    /\ Dirty({i}, [k \in Images |-> TRUE])
    /\ UNCHANGED <<embedding, setting, memory, faults>>

\* The index-worker de-indexes i, and every row that refers to it goes.
DeleteImage(i) ==
    /\ content[i] # Gone /\ ~ Locked(i)
    /\ content' = [content EXCEPT ![i] = Gone]
    /\ revision' = [revision EXCEPT ![i] = 0]
    /\ state' = [state EXCEPT ![i] = "none"]
    /\ urgent' = [urgent EXCEPT ![i] = FALSE]
    /\ due' = [due EXCEPT ![i] = TRUE]
    /\ token' = [token EXCEPT ![i] = Nobody]
    /\ lapsed' = [lapsed EXCEPT ![i] = FALSE]
    /\ built' = [built EXCEPT ![i] = 0]
    /\ vector' = [vector EXCEPT ![i] = Unserved]
    /\ stamp' = [stamp EXCEPT ![i] = NoVersion]
    /\ UNCHANGED <<setting, memory, edits, faults>>

------------------------------------------------------------------------------
\* The worker process: Configure.

Start(w) ==
    /\ at[w] = "off"
    /\ Overlap \/ \A v \in Processes : at[v] \notin Alive
    /\ GoTo(w, "starting")
    /\ UNCHANGED <<content, row, embedding, setting, job, snapshot, edits, faults>>

\* Bug: the version is read after it has been overwritten, so it never differs.
ConfigureBeginLate(w) ==
    /\ at[w] = "starting"
    /\ \A v \in Processes : at[v] # "configuring"
    /\ GoTo(w, "configuring")
    /\ UNCHANGED <<content, row, embedding, setting, job, snapshot, edits, faults>>

\* The setting row is locked and its version read.  A different version starts the
\* UPDATE of the job rows that are committed at this moment.
ConfigureBegin(w) ==
    /\ at[w] = "starting"
    /\ \A v \in Processes : at[v] # "configuring"
    /\ GoTo(w, "configuring")
    /\ snapshot' = [snapshot EXCEPT ![w] =
          IF setting \in {NoVersion, VersionOf[w]} THEN {}
          ELSE {i \in Images : state[i] # "none"}]
    /\ UNCHANGED <<content, row, embedding, setting, job, edits, faults>>

\* The annotated images that have no job row.
Unqueued == {i \in Images : content[i] \notin {Blank, Gone} /\ state[i] = "none"}

\* The UPDATE has got every row it waited for; the transaction ends.
ConfigureCommit(w) ==
    /\ at[w] = "configuring"
    /\ \A i \in snapshot[w] : ~ Locked(i)
    /\ Dirty({i \in snapshot[w] : state[i] # "none"} \cup Unqueued, urgent)
    /\ setting' = VersionOf[w]
    /\ GoTo(w, "idle")
    /\ snapshot' = [snapshot EXCEPT ![w] = {}]
    /\ UNCHANGED <<content, embedding, job, edits, faults>>

\* The transaction is rolled back; main tries again later.
ConfigureFails(w) ==
    /\ at[w] = "configuring"
    /\ Fault
    /\ GoTo(w, "starting")
    /\ snapshot' = [snapshot EXCEPT ![w] = {}]
    /\ UNCHANGED <<content, row, embedding, setting, job, edits>>

------------------------------------------------------------------------------
\* The worker process: Run, Process, Publish and Fail.

Claim(w, i) ==
    /\ at[w] = "idle"
    /\ Claimable(i)
    /\ First(i)
    /\ state' = [state EXCEPT ![i] = "running"]
    /\ token' = [token EXCEPT ![i] = w]
    /\ lapsed' = [lapsed EXCEPT ![i] = FALSE]
    /\ GoTo(w, "claimed")
    /\ image' = [image EXCEPT ![w] = i]
    /\ jobRevision' = [jobRevision EXCEPT ![w] = revision[i]]
    /\ UNCHANGED <<content, revision, urgent, due, embedding, setting, source, snapshot,
                   edits, faults>>

\* source: one snapshot holds the check of the job row and the annotations.
ReadSource(w) ==
    /\ at[w] = "claimed"
    /\ \/ /\ Matches(w)
          /\ GoTo(w, "sourced")
          /\ source' = [source EXCEPT ![w] = content[image[w]]]
          /\ UNCHANGED faults
       \/ /\ (~ Matches(w) /\ UNCHANGED faults) \/ Fault
          /\ GoTo(w, "failing")
          /\ UNCHANGED source
    /\ UNCHANGED <<content, row, embedding, setting, image, jobRevision, snapshot, edits>>

\* Publish up to its reading of the setting.  A lost lease or another version ends
\* Process without an error, and without giving the job back.
PublishBegin(w) ==
    /\ at[w] = "sourced"
    /\ ~ Locked(image[w])
    /\ IF Matches(w) /\ state[image[w]] = "running" /\ ~ lapsed[image[w]]
              /\ setting = VersionOf[w]
       THEN GoTo(w, "publishing") /\ UNCHANGED <<job, snapshot>>
       ELSE Leave(w, "idle")
    /\ UNCHANGED <<content, row, embedding, setting, edits, faults>>

\* The rest of Publish: the embedding and its terms are replaced, or removed when
\* there are none, and the job is settled.
PublishCommit(w) ==
    LET i == image[w]
        silent == source[w] \in Silent
    IN
    /\ at[w] = "publishing"
    /\ built' = [built EXCEPT ![i] = IF silent THEN 0 ELSE jobRevision[w]]
    /\ vector' = [vector EXCEPT ![i] = IF silent THEN Unserved ELSE source[w]]
    /\ stamp' = [stamp EXCEPT ![i] = IF silent THEN NoVersion ELSE VersionOf[w]]
    /\ state' = [state EXCEPT ![i] = IF silent THEN "empty" ELSE "ready"]
    /\ token' = [token EXCEPT ![i] = Nobody]
    /\ lapsed' = [lapsed EXCEPT ![i] = FALSE]
    /\ Leave(w, "idle")
    /\ UNCHANGED <<content, revision, urgent, due, setting, edits, faults>>

\* A statement of Publish is refused, or a deadlock with the deletion of the image
\* is broken; the transaction is rolled back.
PublishFails(w) ==
    /\ at[w] \in {"sourced", "publishing"}
    /\ Fault
    /\ GoTo(w, "failing")
    /\ UNCHANGED <<content, row, embedding, setting, job, snapshot, edits>>

\* The heartbeat: it extends the lease, even one that lapsed, or cancels the job.
Renew(w) ==
    /\ at[w] \in {"claimed", "sourced"}
    /\ ~ Locked(image[w])
    /\ \/ /\ Matches(w) /\ state[image[w]] = "running"
          /\ lapsed' = [lapsed EXCEPT ![image[w]] = FALSE]
          /\ UNCHANGED <<at, faults>>
       \/ /\ \/ ~ (Matches(w) /\ state[image[w]] = "running") /\ UNCHANGED faults
             \/ Fault
          /\ GoTo(w, "failing")
          /\ UNCHANGED lapsed
    /\ UNCHANGED <<content, revision, state, urgent, due, token, embedding, setting,
                   job, snapshot, edits>>

Fail(w) ==
    /\ at[w] = "failing"
    /\ \/ /\ ~ Locked(image[w])
          /\ Matches(w)
          /\ state' = [state EXCEPT ![image[w]] = "failed"]
          /\ due' = [due EXCEPT ![image[w]] = FALSE]
          /\ token' = [token EXCEPT ![image[w]] = Nobody]
          /\ lapsed' = [lapsed EXCEPT ![image[w]] = FALSE]
          /\ UNCHANGED faults
       \/ /\ (~ Matches(w) /\ UNCHANGED faults) \/ Fault
          /\ UNCHANGED <<state, due, token, lapsed>>
    /\ Leave(w, "idle")
    /\ UNCHANGED <<content, revision, urgent, embedding, setting, edits>>

Work(w) ==
    \/ ConfigureBegin(w) \/ ConfigureCommit(w) \/ ConfigureFails(w)
    \/ \E i \in Images : Claim(w, i)
    \/ ReadSource(w) \/ PublishBegin(w) \/ PublishCommit(w) \/ PublishFails(w) \/ Fail(w)

------------------------------------------------------------------------------
\* What happens from outside.

\* Another process is left, so that the container can restart.
Crash(w) ==
    /\ at[w] \in Alive
    /\ \E v \in Processes : at[v] = "off"
    /\ Leave(w, "dead")
    /\ UNCHANGED <<content, row, embedding, setting, edits, faults>>

\* Two minutes pass without a heartbeat: the process is gone, or it stalls.
LeaseLapses(i) ==
    /\ state[i] = "running" /\ ~ lapsed[i]
    /\ \/ (\A w \in Processes : image[w] # i) /\ UNCHANGED faults
       \/ (\E w \in Processes : image[w] = i) /\ Fault
    /\ lapsed' = [lapsed EXCEPT ![i] = TRUE]
    /\ UNCHANGED <<content, revision, state, urgent, due, token, embedding, setting,
                   memory, edits>>

\* The retry delay of Fail passes.
BackoffElapses(i) ==
    /\ ~ due[i]
    /\ due' = [due EXCEPT ![i] = TRUE]
    /\ UNCHANGED <<content, revision, state, urgent, token, lapsed, embedding, setting,
                   memory, edits, faults>>

Next ==
    \/ \E i \in Images : \/ \E text \in Contents : Annotate(i, text)
                         \/ DeleteImage(i) \/ LeaseLapses(i) \/ BackoffElapses(i)
    \/ \E w \in Processes : Start(w) \/ Work(w) \/ Renew(w) \/ Crash(w)

Spec == Init /\ [][Next]_vars

\* A live process takes its next step, delays and unheld leases run out, and the
\* container restarts a worker that is gone.
Fairness ==
    /\ \A w \in Processes : WF_vars(Work(w))
    /\ WF_vars(\E w \in Processes : Start(w))
    /\ \A i \in Images : /\ WF_vars(BackoffElapses(i))
                         /\ WF_vars(LeaseLapses(i) /\ UNCHANGED faults)

FairSpec == Spec /\ Fairness

------------------------------------------------------------------------------
\* What the API serves.

Index == INSTANCE VectorIndex
            WITH served <- [i \in Images |-> IF Valid(i) THEN vector[i] ELSE Unserved]

------------------------------------------------------------------------------
\* Properties.

\* The rows and the memories of the processes have the shape their columns allow.
RowOK ==
    /\ revision \in [Images -> Nat]
    /\ state \in [Images -> {"none", "pending", "running", "ready", "empty", "failed"}]
    /\ urgent \in [Images -> BOOLEAN]
    /\ due \in [Images -> BOOLEAN]
    /\ token \in [Images -> Processes \cup {Nobody}]
    /\ lapsed \in [Images -> BOOLEAN]

EmbeddingOK ==
    /\ built \in [Images -> Nat]
    /\ vector \in [Images -> Contents \cup {Unserved}]
    /\ stamp \in [Images -> {VersionOf[w] : w \in Processes} \cup {NoVersion}]

MemoryOK ==
    /\ at \in [Processes -> {"off", "dead"} \cup Alive]
    /\ image \in [Processes -> Images \cup {Nobody}]
    /\ jobRevision \in [Processes -> Nat]
    /\ source \in [Processes -> Contents \cup {Unserved}]
    /\ snapshot \in [Processes -> SUBSET Images]

TypeOK ==
    /\ content \in [Images -> Contents \cup {Gone}]
    /\ RowOK
    /\ EmbeddingOK
    /\ setting \in {VersionOf[w] : w \in Processes} \cup {NoVersion}
    /\ MemoryOK
    /\ edits \in 0 .. MaxEdits
    /\ faults \in 0 .. MaxFaults

\* A vector that similarImages may use was built from the annotations the image has
\* now, however edits, lapsed leases, second claims and restarts interleave with the
\* process that built it (source, Publish, mark_image_embedding_dirty).
ServedVectorsAreCurrent == \A i \in Images : Valid(i) => vector[i] = content[i]

\* An image is reported as having no context only while its annotations have no terms
\* (the status 'empty' of Publish, or no job row at all).
NoContextIsTrue ==
    \A i \in Images : state[i] \in {"none", "empty"} => content[i] \in Silent \cup {Gone}

\* While one process is alive at a time, a job that counts as ready is served: its
\* vector has the job's revision and the version of the setting, also after a restart
\* with another version (Configure).
ReadyIsServed == \A i \in Images : state[i] = "ready" => Valid(i)

\* An edit has made the vector of i obsolete and it is not rebuilt yet.
Outdated(i) == built[i] # 0 /\ vector[i] # content[i]

\* While the job of an edited image is claimable, whatever happened to it since the
\* edit (a failure, a second claim, a new version), no process takes a job of the
\* backfill (Claim, priority, Configure, Fail).
EditsGoFirst ==
    [][\A w \in Processes, i, k \in Images :
          (image[w] = Nobody /\ image'[w] = i /\ Claimable(k) /\ Outdated(k)) => urgent[i]]_vars

\* The API's view implements VectorIndex.
ImplementsVectorIndex == Index!Spec

\* An image whose annotations changed gets a vector for them, or is found to have no
\* terms, or goes away, although processes crash and statements are refused.
DirtyImagesSettle ==
    \A i \in Images : state[i] \in {"pending", "running", "failed"}
                         ~> state[i] \in {"ready", "empty", "none"}

===============================================================================
