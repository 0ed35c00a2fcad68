------------------------- MODULE EmbeddingQueueProofs -------------------------
(***************************************************************************)
(* What holds of the embedding queue with any number of processes alive:   *)
(* the types, that a served vector is current, that an image without       *)
(* context has none, and that edits go first.  The argument is that the    *)
(* revision and the token of a job row change with the annotations, and    *)
(* that Publish checks both under the lock of that row.  The second part   *)
(* is about processes with different versions of the encoder.              *)
(***************************************************************************)
EXTENDS EmbeddingQueue, TLAPS

------------------------------------------------------------------------------
\* The inductive invariant.

\* A process has an image in hand while it is busy.
InHand ==
    \A w \in Processes : /\ at[w] \in Busy => image[w] \in Images
                         /\ at[w] \notin Busy => image[w] = Nobody

\* A queued image exists, and a job with a token is running.
RowsRefer ==
    \A i \in Images : /\ state[i] # "none" => content[i] # Gone
                      /\ token[i] # Nobody => state[i] = "running"

\* A process that publishes still has the job it checked, since the row is locked, and
\* what it publishes is the content of an image that existed.
PublisherOwns ==
    \A w \in Processes : /\ at[w] = "publishing" => Matches(w)
                         /\ at[w] \in {"sourced", "publishing"} => source[w] \in Contents

\* While a process's token and revision are still the row's, what it read is current.
SourceIsCurrent ==
    \A w \in Processes :
        at[w] \in {"sourced", "publishing"} /\ Matches(w) => source[w] = content[image[w]]

\* What the status of a settled job says of the image.
StatusTells ==
    \A i \in Images :
        /\ state[i] = "ready" =>
              /\ built[i] = revision[i] /\ vector[i] = content[i]
              /\ content[i] \in Contents \ Silent
        /\ state[i] = "empty" => content[i] \in Silent
        /\ state[i] = "none" => content[i] \in {Blank, Gone}

Inv == TypeOK /\ InHand /\ RowsRefer /\ PublisherOwns /\ SourceIsCurrent /\ StatusTells

------------------------------------------------------------------------------
\* Each part of the invariant is preserved.

\* The rows that Dirty leaves have the types of the columns.
LEMMA DirtyType ==
    ASSUME RowOK, NEW S \in SUBSET Images, NEW priority \in [Images -> BOOLEAN],
           Dirty(S, priority)
    PROVE  RowOK'
<1> USE WorkerAssumption DEF RowOK, Dirty
<1>1. revision' \in [Images -> Nat]
    OBVIOUS
<1>2. state' \in [Images -> {"none", "pending", "running", "ready", "empty", "failed"}]
    OBVIOUS
<1>3. urgent' \in [Images -> BOOLEAN] /\ due' \in [Images -> BOOLEAN]
    BY Zenon
<1>4. token' \in [Images -> Processes \cup {Nobody}]
    OBVIOUS
<1>5. lapsed' \in [Images -> BOOLEAN]
    BY Zenon
<1> QED
    BY <1>1, <1>2, <1>3, <1>4, <1>5

\* Types are preserved: one step per action.
LEMMA TypeNext ==
    ASSUME TypeOK, InHand, RowsRefer, [Next]_vars
    PROVE  TypeOK'
<1> USE ContentAssumption, WorkerAssumption DEF TypeOK, EmbeddingOK, MemoryOK, InHand,
        row, embedding, job, memory, Busy, Alive
<1>1. ASSUME NEW i \in Images, NEW text \in Contents, Annotate(i, text) PROVE TypeOK'
  <2>1. RowOK'
    BY <1>1, DirtyType DEF Annotate
  <2> QED
    BY <1>1, <2>1 DEF Annotate
<1>2. ASSUME NEW i \in Images, DeleteImage(i) PROVE TypeOK'
    BY <1>2 DEF DeleteImage, RowOK
<1>3. ASSUME NEW i \in Images, LeaseLapses(i) PROVE TypeOK'
    BY <1>3 DEF LeaseLapses, Fault, RowOK
<1>4. ASSUME NEW i \in Images, BackoffElapses(i) PROVE TypeOK'
    BY <1>4 DEF BackoffElapses, RowOK
<1>5. ASSUME NEW w \in Processes, Start(w) PROVE TypeOK'
    BY <1>5 DEF Start, GoTo, RowOK
<1>6. ASSUME NEW w \in Processes, ConfigureBegin(w) PROVE TypeOK'
    BY <1>6 DEF ConfigureBegin, GoTo, RowOK
<1>7. ASSUME NEW w \in Processes, ConfigureCommit(w) PROVE TypeOK'
  <2>1. RowOK'
    BY <1>7, DirtyType DEF ConfigureCommit, Unqueued, RowOK
  <2> QED
    BY <1>7, <2>1 DEF ConfigureCommit, GoTo
<1>8. ASSUME NEW w \in Processes, ConfigureFails(w) PROVE TypeOK'
    BY <1>8 DEF ConfigureFails, GoTo, Fault, RowOK
<1>9. ASSUME NEW w \in Processes, NEW i \in Images, Claim(w, i) PROVE TypeOK'
    BY <1>9 DEF Claim, Claimable, GoTo, RowOK
<1>10. ASSUME NEW w \in Processes, ReadSource(w) PROVE TypeOK'
  <2>1. CASE GoTo(w, "sourced")
    <3>1. image[w] \in Images /\ Matches(w)
      BY <1>10, <2>1 DEF ReadSource, GoTo
    <3>2. content[image[w]] \in Contents
      BY <3>1 DEF RowsRefer, Matches
    <3> QED
      BY <1>10, <2>1, <3>2 DEF ReadSource, GoTo, Fault, RowOK
  <2>2. CASE GoTo(w, "failing")
    BY <1>10, <2>2 DEF ReadSource, GoTo, Fault, RowOK
  <2> QED
    BY <1>10, <2>1, <2>2 DEF ReadSource
<1>11. ASSUME NEW w \in Processes, PublishBegin(w) PROVE TypeOK'
  <2>1. CASE Leave(w, "idle")
    BY <1>11, <2>1 DEF PublishBegin, GoTo, Leave, RowOK
  <2>2. CASE GoTo(w, "publishing") /\ UNCHANGED <<job, snapshot>>
    BY <1>11, <2>2 DEF PublishBegin, GoTo, RowOK
  <2> QED
    BY <1>11, <2>1, <2>2 DEF PublishBegin
<1>12. ASSUME NEW w \in Processes, PublishCommit(w) PROVE TypeOK'
    BY <1>12 DEF PublishCommit, GoTo, Leave, RowOK
<1>13. ASSUME NEW w \in Processes, PublishFails(w) PROVE TypeOK'
    BY <1>13 DEF PublishFails, GoTo, Fault, RowOK
<1>14. ASSUME NEW w \in Processes, Renew(w) PROVE TypeOK'
  <2>1. CASE GoTo(w, "failing")
    BY <1>14, <2>1 DEF Renew, GoTo, Fault, RowOK
  <2>2. CASE ~ GoTo(w, "failing")
    BY <1>14, <2>2 DEF Renew, RowOK
  <2> QED
    BY <2>1, <2>2
<1>15. ASSUME NEW w \in Processes, Fail(w) PROVE TypeOK'
  <2>1. MemoryOK'
    BY <1>15 DEF Fail, GoTo, Leave
  <2>2. RowOK'
    BY <1>15 DEF Fail, RowOK
  <2>3. faults' \in 0 .. MaxFaults
    BY <1>15 DEF Fail, Fault
  <2> QED
    BY <1>15, <2>1, <2>2, <2>3 DEF Fail
<1>16. ASSUME NEW w \in Processes, Crash(w) PROVE TypeOK'
    BY <1>16 DEF Crash, GoTo, Leave, RowOK
<1>17. CASE UNCHANGED vars
    BY <1>17 DEF vars, RowOK
<1> HIDE DEF TypeOK, EmbeddingOK, MemoryOK, InHand,
        row, embedding, job, memory, Busy, Alive
<1>18. QED
    BY <1>1, <1>2, <1>3, <1>4, <1>5, <1>6, <1>7, <1>8, <1>9,
       <1>10, <1>11, <1>12, <1>13, <1>14, <1>15, <1>16, <1>17 DEF Next, Work

\* A process has an image in hand exactly from Claim to the end of Process and Fail.
LEMMA HandNext ==
    ASSUME TypeOK, InHand, [Next]_vars
    PROVE  InHand'
<1> USE WorkerAssumption DEF TypeOK, MemoryOK, InHand, job, memory, Busy
<1>1. ASSUME NEW i \in Images, NEW text \in Contents, Annotate(i, text) PROVE InHand'
    BY <1>1 DEF Annotate, Dirty
<1>2. ASSUME NEW i \in Images, DeleteImage(i) PROVE InHand'
    BY <1>2 DEF DeleteImage
<1>3. ASSUME NEW i \in Images, LeaseLapses(i) PROVE InHand'
    BY <1>3 DEF LeaseLapses, Fault
<1>4. ASSUME NEW i \in Images, BackoffElapses(i) PROVE InHand'
    BY <1>4 DEF BackoffElapses
<1>5. ASSUME NEW w \in Processes, Start(w) PROVE InHand'
    BY <1>5 DEF Start, GoTo
<1>6. ASSUME NEW w \in Processes, ConfigureBegin(w) PROVE InHand'
    BY <1>6 DEF ConfigureBegin, GoTo
<1>7. ASSUME NEW w \in Processes, ConfigureCommit(w) PROVE InHand'
    BY <1>7 DEF ConfigureCommit, Dirty, Unqueued, GoTo
<1>8. ASSUME NEW w \in Processes, ConfigureFails(w) PROVE InHand'
    BY <1>8 DEF ConfigureFails, GoTo, Fault
<1>9. ASSUME NEW w \in Processes, NEW i \in Images, Claim(w, i) PROVE InHand'
    BY <1>9 DEF Claim, Claimable, GoTo
<1>10. ASSUME NEW w \in Processes, ReadSource(w) PROVE InHand'
    BY <1>10 DEF ReadSource, GoTo, Fault
<1>11. ASSUME NEW w \in Processes, PublishBegin(w) PROVE InHand'
    BY <1>11 DEF PublishBegin, GoTo, Leave, Locked
<1>12. ASSUME NEW w \in Processes, PublishCommit(w) PROVE InHand'
    BY <1>12 DEF PublishCommit, GoTo, Leave
<1>13. ASSUME NEW w \in Processes, PublishFails(w) PROVE InHand'
    BY <1>13 DEF PublishFails, GoTo, Fault
<1>14. ASSUME NEW w \in Processes, Renew(w) PROVE InHand'
    BY <1>14 DEF Renew, GoTo, Fault, Locked
<1>15. ASSUME NEW w \in Processes, Fail(w) PROVE InHand'
    BY <1>15 DEF Fail, GoTo, Leave, Fault, Locked
<1>16. ASSUME NEW w \in Processes, Crash(w) PROVE InHand'
    BY <1>16 DEF Crash, GoTo, Leave
<1>17. CASE UNCHANGED vars
    BY <1>17 DEF vars
<1> HIDE DEF TypeOK, MemoryOK, InHand, job, memory, Busy
<1>18. QED
    BY <1>1, <1>2, <1>3, <1>4, <1>5, <1>6, <1>7, <1>8, <1>9,
       <1>10, <1>11, <1>12, <1>13, <1>14, <1>15, <1>16, <1>17 DEF Next, Work

\* Deletion takes the row with the image, and every statement that ends a run clears the
\* token.
LEMMA ReferNext ==
    ASSUME TypeOK, InHand, RowsRefer, PublisherOwns, [Next]_vars
    PROVE  RowsRefer'
<1> USE ContentAssumption, WorkerAssumption DEF TypeOK, RowOK, MemoryOK, InHand, RowsRefer,
                                                Busy,
        row, job, memory
<1>1. ASSUME NEW i \in Images, NEW text \in Contents, Annotate(i, text) PROVE RowsRefer'
    BY <1>1 DEF Annotate, Dirty
<1>2. ASSUME NEW i \in Images, DeleteImage(i) PROVE RowsRefer'
    BY <1>2 DEF DeleteImage
<1>3. ASSUME NEW i \in Images, LeaseLapses(i) PROVE RowsRefer'
    BY <1>3 DEF LeaseLapses, Fault
<1>4. ASSUME NEW i \in Images, BackoffElapses(i) PROVE RowsRefer'
    BY <1>4 DEF BackoffElapses
<1>5. ASSUME NEW w \in Processes, Start(w) PROVE RowsRefer'
    BY <1>5 DEF Start, GoTo
<1>6. ASSUME NEW w \in Processes, ConfigureBegin(w) PROVE RowsRefer'
    BY <1>6 DEF ConfigureBegin, GoTo
<1>7. ASSUME NEW w \in Processes, ConfigureCommit(w) PROVE RowsRefer'
    BY <1>7 DEF ConfigureCommit, Dirty, Unqueued, GoTo
<1>8. ASSUME NEW w \in Processes, ConfigureFails(w) PROVE RowsRefer'
    BY <1>8 DEF ConfigureFails, GoTo, Fault
<1>9. ASSUME NEW w \in Processes, NEW i \in Images, Claim(w, i) PROVE RowsRefer'
    BY <1>9 DEF Claim, Claimable, GoTo
<1>10. ASSUME NEW w \in Processes, ReadSource(w) PROVE RowsRefer'
    BY <1>10 DEF ReadSource, GoTo, Fault
<1>11. ASSUME NEW w \in Processes, PublishBegin(w) PROVE RowsRefer'
    BY <1>11 DEF PublishBegin, GoTo, Leave, Locked
<1>12. ASSUME NEW w \in Processes, PublishCommit(w) PROVE RowsRefer'
    BY <1>12 DEF PublishCommit, GoTo, Leave, PublisherOwns, Matches
<1>13. ASSUME NEW w \in Processes, PublishFails(w) PROVE RowsRefer'
    BY <1>13 DEF PublishFails, GoTo, Fault
<1>14. ASSUME NEW w \in Processes, Renew(w) PROVE RowsRefer'
    BY <1>14 DEF Renew, GoTo, Fault, Locked, Matches
<1>15. ASSUME NEW w \in Processes, Fail(w) PROVE RowsRefer'
    BY <1>15 DEF Fail, GoTo, Leave, Fault, Locked, Matches
<1>16. ASSUME NEW w \in Processes, Crash(w) PROVE RowsRefer'
    BY <1>16 DEF Crash, GoTo, Leave
<1>17. CASE UNCHANGED vars
    BY <1>17 DEF vars
<1> HIDE DEF TypeOK, RowOK, MemoryOK, InHand, RowsRefer, Busy,
        row, job, memory
<1>18. QED
    BY <1>1, <1>2, <1>3, <1>4, <1>5, <1>6, <1>7, <1>8, <1>9,
       <1>10, <1>11, <1>12, <1>13, <1>14, <1>15, <1>16, <1>17 DEF Next, Work

\* The row lock that Publish takes keeps every other statement off the row it checked.
LEMMA OwnsNext ==
    ASSUME TypeOK, InHand, RowsRefer, PublisherOwns, [Next]_vars
    PROVE  PublisherOwns'
<1> USE ContentAssumption, WorkerAssumption DEF TypeOK, RowOK, MemoryOK, InHand, RowsRefer,
                                                Busy,
        row, job, memory
<1>1. ASSUME NEW i \in Images, NEW text \in Contents, Annotate(i, text) PROVE PublisherOwns'
    BY <1>1 DEF Annotate, Dirty, PublisherOwns, Matches, Locked
<1>2. ASSUME NEW i \in Images, DeleteImage(i) PROVE PublisherOwns'
    BY <1>2 DEF DeleteImage, PublisherOwns, Matches, Locked
<1>3. ASSUME NEW i \in Images, LeaseLapses(i) PROVE PublisherOwns'
    BY <1>3 DEF LeaseLapses, Fault, PublisherOwns, Matches
<1>4. ASSUME NEW i \in Images, BackoffElapses(i) PROVE PublisherOwns'
    BY <1>4 DEF BackoffElapses, PublisherOwns, Matches
<1>5. ASSUME NEW w \in Processes, Start(w) PROVE PublisherOwns'
    BY <1>5 DEF Start, GoTo, PublisherOwns, Matches
<1>6. ASSUME NEW w \in Processes, ConfigureBegin(w) PROVE PublisherOwns'
    BY <1>6 DEF ConfigureBegin, GoTo, PublisherOwns, Matches
<1>7. ASSUME NEW w \in Processes, ConfigureCommit(w) PROVE PublisherOwns'
    BY <1>7 DEF ConfigureCommit, Dirty, Unqueued, GoTo, PublisherOwns, Matches, Locked
<1>8. ASSUME NEW w \in Processes, ConfigureFails(w) PROVE PublisherOwns'
    BY <1>8 DEF ConfigureFails, GoTo, Fault, PublisherOwns, Matches
<1>9. ASSUME NEW w \in Processes, NEW i \in Images, Claim(w, i) PROVE PublisherOwns'
    BY <1>9 DEF Claim, Claimable, GoTo, PublisherOwns, Matches, Locked
<1>10. ASSUME NEW w \in Processes, ReadSource(w) PROVE PublisherOwns'
    BY <1>10 DEF ReadSource, GoTo, Fault, PublisherOwns, Matches
<1>11. ASSUME NEW w \in Processes, PublishBegin(w) PROVE PublisherOwns'
    BY <1>11 DEF PublishBegin, GoTo, Leave, Locked, PublisherOwns, Matches
<1>12. ASSUME NEW w \in Processes, PublishCommit(w) PROVE PublisherOwns'
    BY <1>12 DEF PublishCommit, GoTo, Leave, PublisherOwns, Matches
<1>13. ASSUME NEW w \in Processes, PublishFails(w) PROVE PublisherOwns'
    BY <1>13 DEF PublishFails, GoTo, Fault, PublisherOwns, Matches
<1>14. ASSUME NEW w \in Processes, Renew(w) PROVE PublisherOwns'
    BY <1>14 DEF Renew, GoTo, Fault, Locked, PublisherOwns, Matches
<1>15. ASSUME NEW w \in Processes, Fail(w) PROVE PublisherOwns'
    BY <1>15 DEF Fail, GoTo, Leave, Fault, Locked, PublisherOwns, Matches
<1>16. ASSUME NEW w \in Processes, Crash(w) PROVE PublisherOwns'
    BY <1>16 DEF Crash, GoTo, Leave, PublisherOwns, Matches
<1>17. CASE UNCHANGED vars
    BY <1>17 DEF vars, PublisherOwns, Matches
<1> HIDE DEF TypeOK, RowOK, MemoryOK, InHand, RowsRefer, Busy,
        row, job, memory
<1>18. QED
    BY <1>1, <1>2, <1>3, <1>4, <1>5, <1>6, <1>7, <1>8, <1>9,
       <1>10, <1>11, <1>12, <1>13, <1>14, <1>15, <1>16, <1>17 DEF Next, Work

\* Whatever changes the annotations changes the revision and the token in the same step.
LEMMA SourceNext ==
    ASSUME TypeOK, InHand, RowsRefer, PublisherOwns, SourceIsCurrent, [Next]_vars
    PROVE  SourceIsCurrent'
<1> USE ContentAssumption, WorkerAssumption DEF TypeOK, RowOK, MemoryOK, InHand, RowsRefer,
                                                Busy,
        row, job, memory
<1>1. ASSUME NEW i \in Images, NEW text \in Contents, Annotate(i, text)
      PROVE  SourceIsCurrent'
    BY <1>1 DEF Annotate, Dirty, SourceIsCurrent, Matches
<1>2. ASSUME NEW i \in Images, DeleteImage(i) PROVE SourceIsCurrent'
    BY <1>2 DEF DeleteImage, SourceIsCurrent, Matches
<1>3. ASSUME NEW i \in Images, LeaseLapses(i) PROVE SourceIsCurrent'
    BY <1>3 DEF LeaseLapses, Fault, SourceIsCurrent, Matches
<1>4. ASSUME NEW i \in Images, BackoffElapses(i) PROVE SourceIsCurrent'
    BY <1>4 DEF BackoffElapses, SourceIsCurrent, Matches
<1>5. ASSUME NEW w \in Processes, Start(w) PROVE SourceIsCurrent'
    BY <1>5 DEF Start, GoTo, SourceIsCurrent, Matches
<1>6. ASSUME NEW w \in Processes, ConfigureBegin(w) PROVE SourceIsCurrent'
    BY <1>6 DEF ConfigureBegin, GoTo, SourceIsCurrent, Matches
<1>7. ASSUME NEW w \in Processes, ConfigureCommit(w) PROVE SourceIsCurrent'
    BY <1>7 DEF ConfigureCommit, Dirty, Unqueued, GoTo, SourceIsCurrent, Matches
<1>8. ASSUME NEW w \in Processes, ConfigureFails(w) PROVE SourceIsCurrent'
    BY <1>8 DEF ConfigureFails, GoTo, Fault, SourceIsCurrent, Matches
<1>9. ASSUME NEW w \in Processes, NEW i \in Images, Claim(w, i) PROVE SourceIsCurrent'
    BY <1>9 DEF Claim, Claimable, GoTo, SourceIsCurrent, Matches
<1>10. ASSUME NEW w \in Processes, ReadSource(w) PROVE SourceIsCurrent'
    BY <1>10 DEF ReadSource, GoTo, Fault, SourceIsCurrent, Matches
<1>11. ASSUME NEW w \in Processes, PublishBegin(w) PROVE SourceIsCurrent'
    BY <1>11 DEF PublishBegin, GoTo, Leave, Locked, SourceIsCurrent, Matches
<1>12. ASSUME NEW w \in Processes, PublishCommit(w) PROVE SourceIsCurrent'
    BY <1>12 DEF PublishCommit, GoTo, Leave, SourceIsCurrent, Matches
<1>13. ASSUME NEW w \in Processes, PublishFails(w) PROVE SourceIsCurrent'
    BY <1>13 DEF PublishFails, GoTo, Fault, SourceIsCurrent, Matches
<1>14. ASSUME NEW w \in Processes, Renew(w) PROVE SourceIsCurrent'
    BY <1>14 DEF Renew, GoTo, Fault, Locked, SourceIsCurrent, Matches
<1>15. ASSUME NEW w \in Processes, Fail(w) PROVE SourceIsCurrent'
    BY <1>15 DEF Fail, GoTo, Leave, Fault, Locked, SourceIsCurrent, Matches
<1>16. ASSUME NEW w \in Processes, Crash(w) PROVE SourceIsCurrent'
    BY <1>16 DEF Crash, GoTo, Leave, SourceIsCurrent, Matches
<1>17. CASE UNCHANGED vars
    BY <1>17 DEF vars, SourceIsCurrent, Matches
<1> HIDE DEF TypeOK, RowOK, MemoryOK, InHand, RowsRefer, Busy,
        row, job, memory
<1>18. QED
    BY <1>1, <1>2, <1>3, <1>4, <1>5, <1>6, <1>7, <1>8, <1>9,
       <1>10, <1>11, <1>12, <1>13, <1>14, <1>15, <1>16, <1>17 DEF Next, Work

\* Only Publish settles a job, and only with the content the image still has.
LEMMA StatusNext ==
    ASSUME TypeOK, InHand, RowsRefer, PublisherOwns, SourceIsCurrent, StatusTells, [Next]_vars
    PROVE  StatusTells'
<1> USE ContentAssumption, WorkerAssumption DEF TypeOK, RowOK, MemoryOK, InHand, RowsRefer,
                                                Busy,
        row, embedding, job, memory
<1>1. ASSUME NEW i \in Images, NEW text \in Contents, Annotate(i, text) PROVE StatusTells'
    BY <1>1 DEF Annotate, Dirty, StatusTells
<1>2. ASSUME NEW i \in Images, DeleteImage(i) PROVE StatusTells'
    BY <1>2 DEF DeleteImage, StatusTells
<1>3. ASSUME NEW i \in Images, LeaseLapses(i) PROVE StatusTells'
    BY <1>3 DEF LeaseLapses, Fault, StatusTells
<1>4. ASSUME NEW i \in Images, BackoffElapses(i) PROVE StatusTells'
    BY <1>4 DEF BackoffElapses, StatusTells
<1>5. ASSUME NEW w \in Processes, Start(w) PROVE StatusTells'
    BY <1>5 DEF Start, GoTo, StatusTells
<1>6. ASSUME NEW w \in Processes, ConfigureBegin(w) PROVE StatusTells'
    BY <1>6 DEF ConfigureBegin, GoTo, StatusTells
<1>7. ASSUME NEW w \in Processes, ConfigureCommit(w) PROVE StatusTells'
    BY <1>7 DEF ConfigureCommit, Dirty, Unqueued, GoTo, StatusTells
<1>8. ASSUME NEW w \in Processes, ConfigureFails(w) PROVE StatusTells'
    BY <1>8 DEF ConfigureFails, GoTo, Fault, StatusTells
<1>9. ASSUME NEW w \in Processes, NEW i \in Images, Claim(w, i) PROVE StatusTells'
    BY <1>9 DEF Claim, Claimable, GoTo, StatusTells
<1>10. ASSUME NEW w \in Processes, ReadSource(w) PROVE StatusTells'
    BY <1>10 DEF ReadSource, GoTo, Fault, StatusTells
<1>11. ASSUME NEW w \in Processes, PublishBegin(w) PROVE StatusTells'
    BY <1>11 DEF PublishBegin, GoTo, Leave, Locked, StatusTells
<1>12. ASSUME NEW w \in Processes, PublishCommit(w) PROVE StatusTells'
  <2>1. image[w] \in Images /\ revision[image[w]] = jobRevision[w]
        /\ source[w] = content[image[w]] /\ source[w] \in Contents
        /\ state[image[w]] # "none"
    BY <1>12 DEF PublishCommit, PublisherOwns, SourceIsCurrent, Matches
  <2>2. CASE source[w] \in Silent
    BY <1>12, <2>1, <2>2 DEF PublishCommit, StatusTells
  <2>3. CASE source[w] \notin Silent
    <3>1. state'[image[w]] = "ready" /\ built'[image[w]] = revision[image[w]]
          /\ vector'[image[w]] = content[image[w]]
      BY <1>12, <2>1, <2>3 DEF PublishCommit, EmbeddingOK
    <3>2. \A k \in Images \ {image[w]} : state'[k] = state[k] /\ built'[k] = built[k]
                                          /\ vector'[k] = vector[k]
      BY <1>12, <2>1, <2>3 DEF PublishCommit, EmbeddingOK
    <3>3. UNCHANGED <<content, revision>>
      BY <1>12 DEF PublishCommit
    <3> QED
      BY <2>1, <2>3, <3>1, <3>2, <3>3 DEF StatusTells
  <2> QED
    BY <2>2, <2>3
<1>13. ASSUME NEW w \in Processes, PublishFails(w) PROVE StatusTells'
    BY <1>13 DEF PublishFails, GoTo, Fault, StatusTells
<1>14. ASSUME NEW w \in Processes, Renew(w) PROVE StatusTells'
    BY <1>14 DEF Renew, GoTo, Fault, Locked, StatusTells
<1>15. ASSUME NEW w \in Processes, Fail(w) PROVE StatusTells'
    BY <1>15 DEF Fail, GoTo, Leave, Fault, Locked, StatusTells, Matches
<1>16. ASSUME NEW w \in Processes, Crash(w) PROVE StatusTells'
    BY <1>16 DEF Crash, GoTo, Leave, StatusTells
<1>17. CASE UNCHANGED vars
    BY <1>17 DEF vars, StatusTells
<1> HIDE DEF TypeOK, RowOK, MemoryOK, InHand, RowsRefer, Busy,
        row, embedding, job, memory
<1>18. QED
    BY <1>1, <1>2, <1>3, <1>4, <1>5, <1>6, <1>7, <1>8, <1>9,
       <1>10, <1>11, <1>12, <1>13, <1>14, <1>15, <1>16, <1>17 DEF Next, Work

\* The state after the migration satisfies the invariant.
LEMMA InvInit == Init => Inv
<1> SUFFICES ASSUME Init PROVE Inv
    OBVIOUS
<1> USE ContentAssumption, WorkerAssumption DEF Init
<1>1. TypeOK
    BY DEF TypeOK, RowOK, EmbeddingOK, MemoryOK
<1>2. InHand
    BY DEF InHand, Busy
<1>3. RowsRefer
    BY DEF RowsRefer
<1>4. PublisherOwns /\ SourceIsCurrent
    BY DEF PublisherOwns, SourceIsCurrent
<1>5. StatusTells
    BY DEF StatusTells
<1> QED
    BY <1>1, <1>2, <1>3, <1>4, <1>5 DEF Inv

\* Every step preserves the invariant.
LEMMA InvNext == Inv /\ [Next]_vars => Inv'
    BY TypeNext, HandNext, ReferNext, OwnsNext, SourceNext, StatusNext DEF Inv

\* The invariant holds in every behaviour.
LEMMA Invariance == Spec => []Inv
    BY InvInit, InvNext, PTL DEF Spec

------------------------------------------------------------------------------
\* The theorems.

\* The job rows, the embeddings and the processes' memories always have their types.
THEOREM TypeCorrect == Spec => []TypeOK
<1>1. Inv => TypeOK
    BY DEF Inv
<1> QED
    BY <1>1, Invariance, PTL

\* A vector that may be served is the one of the image's present annotations, for any
\* number of images and of workers, whatever versions they have.
THEOREM ServedCurrent == Spec => []ServedVectorsAreCurrent
<1>1. Inv => ServedVectorsAreCurrent
    BY DEF Inv, StatusTells, ServedVectorsAreCurrent, Valid
<1> QED
    BY <1>1, Invariance, PTL

\* An image without a job, or with an empty one, has no annotations with terms.
THEOREM NoContextTrue == Spec => []NoContextIsTrue
<1>1. Inv => NoContextIsTrue
    BY ContentAssumption DEF Inv, StatusTells, NoContextIsTrue
<1> QED
    BY <1>1, Invariance, PTL

------------------------------------------------------------------------------
\* Priority.

\* Only an edit makes a vector obsolete, and no statement takes its priority back.
EditsUrgent == \A i \in Images : Outdated(i) => urgent[i]

\* An edit makes its job urgent; only a deletion makes one less urgent.
LEMMA UrgentNext ==
    ASSUME Inv, EditsUrgent, [Next]_vars
    PROVE  EditsUrgent'
<1> USE ContentAssumption, WorkerAssumption DEF Inv, TypeOK, RowOK, EmbeddingOK, MemoryOK,
                                                InHand,
        Busy, row, embedding, job, memory
<1>1. ASSUME NEW i \in Images, NEW text \in Contents, Annotate(i, text) PROVE EditsUrgent'
    BY <1>1 DEF Annotate, Dirty, EditsUrgent, Outdated
<1>2. ASSUME NEW i \in Images, DeleteImage(i) PROVE EditsUrgent'
    BY <1>2 DEF DeleteImage, EditsUrgent, Outdated
<1>3. ASSUME NEW i \in Images, LeaseLapses(i) PROVE EditsUrgent'
    BY <1>3 DEF LeaseLapses, Fault, EditsUrgent, Outdated
<1>4. ASSUME NEW i \in Images, BackoffElapses(i) PROVE EditsUrgent'
    BY <1>4 DEF BackoffElapses, EditsUrgent, Outdated
<1>5. ASSUME NEW w \in Processes, Start(w) PROVE EditsUrgent'
    BY <1>5 DEF Start, GoTo, EditsUrgent, Outdated
<1>6. ASSUME NEW w \in Processes, ConfigureBegin(w) PROVE EditsUrgent'
    BY <1>6 DEF ConfigureBegin, GoTo, EditsUrgent, Outdated
<1>7. ASSUME NEW w \in Processes, ConfigureCommit(w) PROVE EditsUrgent'
    BY <1>7 DEF ConfigureCommit, Dirty, Unqueued, GoTo, EditsUrgent, Outdated
<1>8. ASSUME NEW w \in Processes, ConfigureFails(w) PROVE EditsUrgent'
    BY <1>8 DEF ConfigureFails, GoTo, Fault, EditsUrgent, Outdated
<1>9. ASSUME NEW w \in Processes, NEW i \in Images, Claim(w, i) PROVE EditsUrgent'
    BY <1>9 DEF Claim, Claimable, GoTo, EditsUrgent, Outdated
<1>10. ASSUME NEW w \in Processes, ReadSource(w) PROVE EditsUrgent'
    BY <1>10 DEF ReadSource, GoTo, Fault, EditsUrgent, Outdated
<1>11. ASSUME NEW w \in Processes, PublishBegin(w) PROVE EditsUrgent'
    BY <1>11 DEF PublishBegin, GoTo, Leave, Locked, EditsUrgent, Outdated
<1>12. ASSUME NEW w \in Processes, PublishCommit(w) PROVE EditsUrgent'
  <2>1. PICK i \in Images : i = image[w] /\ source[w] = content[i]
    BY <1>12 DEF PublishCommit, PublisherOwns, SourceIsCurrent
  <2>2. ~ Outdated(i)'
    BY <1>12, <2>1 DEF PublishCommit, Outdated
  <2>3. \A k \in Images \ {i} : Outdated(k)' => Outdated(k)
    BY <1>12, <2>1 DEF PublishCommit, Outdated
  <2>4. UNCHANGED urgent
    BY <1>12 DEF PublishCommit
  <2> QED
    BY <2>2, <2>3, <2>4 DEF EditsUrgent
<1>13. ASSUME NEW w \in Processes, PublishFails(w) PROVE EditsUrgent'
    BY <1>13 DEF PublishFails, GoTo, Fault, EditsUrgent, Outdated
<1>14. ASSUME NEW w \in Processes, Renew(w) PROVE EditsUrgent'
    BY <1>14 DEF Renew, GoTo, Fault, Locked, EditsUrgent, Outdated
<1>15. ASSUME NEW w \in Processes, Fail(w) PROVE EditsUrgent'
    BY <1>15 DEF Fail, GoTo, Leave, Fault, Locked, EditsUrgent, Outdated
<1>16. ASSUME NEW w \in Processes, Crash(w) PROVE EditsUrgent'
    BY <1>16 DEF Crash, GoTo, Leave, EditsUrgent, Outdated
<1>17. CASE UNCHANGED vars
    BY <1>17 DEF vars, EditsUrgent, Outdated
<1> HIDE DEF Inv, TypeOK, RowOK, EmbeddingOK, MemoryOK, InHand,
        Busy, row, embedding, job, memory
<1>18. QED
    BY <1>1, <1>2, <1>3, <1>4, <1>5, <1>6, <1>7, <1>8, <1>9,
       <1>10, <1>11, <1>12, <1>13, <1>14, <1>15, <1>16, <1>17 DEF Next, Work

\* A process that takes a job of the backfill leaves no edited image waiting.
THEOREM EditsFirst == Spec => EditsGoFirst
<1>1. Init => EditsUrgent
    BY DEF Init, EditsUrgent, Outdated
<1>2. Inv /\ EditsUrgent /\ [Next]_vars => EditsUrgent'
    BY UrgentNext
<1>3. ASSUME Inv, EditsUrgent, [Next]_vars
      PROVE  [\A w \in Processes, i, k \in Images :
                 (image[w] = Nobody /\ image'[w] = i /\ Claimable(k) /\ Outdated(k))
                     => urgent[i]]_vars
  <2> SUFFICES ASSUME NEW w \in Processes, NEW i \in Images, NEW k \in Images,
                      image[w] = Nobody, image'[w] = i, Claimable(k), Outdated(k), Next
               PROVE  urgent[i]
    BY <1>3 DEF vars
  <2>1. Claim(w, i)
    <3> USE <1>3, WorkerAssumption DEF Inv, TypeOK, MemoryOK, memory, job
    <3>1. ASSUME NEW v \in Processes, Start(v) \/ ConfigureBegin(v) \/ ConfigureCommit(v)
                   \/ ConfigureFails(v) \/ ReadSource(v) \/ PublishFails(v) \/ Renew(v)
          PROVE  FALSE
      BY <3>1 DEF Start, ConfigureBegin, ConfigureCommit, ConfigureFails, ReadSource,
                  PublishFails, Renew
    <3>2. ASSUME NEW v \in Processes,
                 PublishBegin(v) \/ PublishCommit(v) \/ Fail(v) \/ Crash(v)
          PROVE  FALSE
      BY <3>2 DEF PublishBegin, PublishCommit, Fail, Crash, Leave
    <3>3. ASSUME NEW k1 \in Images, (\E text \in Contents : Annotate(k1, text))
                   \/ DeleteImage(k1) \/ LeaseLapses(k1) \/ BackoffElapses(k1)
          PROVE  FALSE
      BY <3>3 DEF Annotate, DeleteImage, LeaseLapses, BackoffElapses
    <3>4. ASSUME NEW v \in Processes, NEW k1 \in Images, Claim(v, k1)
          PROVE  v = w /\ k1 = i
      BY <3>4 DEF Claim
    <3> HIDE DEF Inv, TypeOK, MemoryOK, memory, job
    <3> QED
      BY <3>1, <3>2, <3>3, <3>4 DEF Next, Work
  <2>2. urgent[k]
    BY <1>3 DEF EditsUrgent
  <2> QED
    BY <2>1, <2>2 DEF Claim, First
<1> QED
    BY <1>1, <1>2, <1>3, Invariance, PTL DEF Spec, EditsGoFirst

------------------------------------------------------------------------------
\* The versions of the encoder: that the API's view of the vectors implements
\* VectorIndex, and that a job that counts as ready is served while one process is alive
\* at a time.  Both need to know which rows a process that is configuring will find.

\* The setting's row is locked by one process, and nothing is published before it has
\* a version.
SettingLocked ==
    /\ \A v, w \in Processes : at[v] = "configuring" /\ at[w] = "configuring" => v = w
    /\ setting = NoVersion => /\ \A i \in Images : state[i] # "ready"
                              /\ \A w \in Processes : at[w] # "publishing"

\* A process that changes the setting will find every row that already has, or is about
\* to have, a vector of the version it changes the setting to.
SnapshotFinds ==
    \A w \in Processes : (at[w] = "configuring" /\ setting # VersionOf[w]) =>
        /\ \A i \in Images :
              state[i] = "ready" /\ stamp[i] = VersionOf[w] => i \in snapshot[w]
        /\ \A v \in Processes :
              at[v] = "publishing" /\ VersionOf[v] = VersionOf[w] => image[v] \in snapshot[w]

\* The lock of the setting's row is taken by Configure alone.
LEMMA LockedNext ==
    ASSUME Inv, SettingLocked, [Next]_vars
    PROVE  SettingLocked'
<1> USE ContentAssumption, WorkerAssumption DEF Inv, TypeOK, RowOK, EmbeddingOK, MemoryOK,
                                                InHand,
        Busy, row, embedding, job, memory
<1>1. ASSUME NEW i \in Images, NEW text \in Contents, Annotate(i, text) PROVE SettingLocked'
    BY <1>1 DEF Annotate, Dirty, SettingLocked
<1>2. ASSUME NEW i \in Images, DeleteImage(i) PROVE SettingLocked'
    BY <1>2 DEF DeleteImage, SettingLocked
<1>3. ASSUME NEW i \in Images, LeaseLapses(i) PROVE SettingLocked'
    BY <1>3 DEF LeaseLapses, Fault, SettingLocked
<1>4. ASSUME NEW i \in Images, BackoffElapses(i) PROVE SettingLocked'
    BY <1>4 DEF BackoffElapses, SettingLocked
<1>5. ASSUME NEW w \in Processes, Start(w) PROVE SettingLocked'
    BY <1>5 DEF Start, GoTo, SettingLocked
<1>6. ASSUME NEW w \in Processes, ConfigureBegin(w) PROVE SettingLocked'
    BY <1>6 DEF ConfigureBegin, GoTo, SettingLocked
<1>7. ASSUME NEW w \in Processes, ConfigureCommit(w) PROVE SettingLocked'
    BY <1>7 DEF ConfigureCommit, Dirty, Unqueued, GoTo, SettingLocked
<1>8. ASSUME NEW w \in Processes, ConfigureFails(w) PROVE SettingLocked'
    BY <1>8 DEF ConfigureFails, GoTo, Fault, SettingLocked
<1>9. ASSUME NEW w \in Processes, NEW i \in Images, Claim(w, i) PROVE SettingLocked'
    BY <1>9 DEF Claim, Claimable, GoTo, SettingLocked
<1>10. ASSUME NEW w \in Processes, ReadSource(w) PROVE SettingLocked'
    BY <1>10 DEF ReadSource, GoTo, Fault, SettingLocked
<1>11. ASSUME NEW w \in Processes, PublishBegin(w) PROVE SettingLocked'
    BY <1>11 DEF PublishBegin, GoTo, Leave, Locked, SettingLocked
<1>12. ASSUME NEW w \in Processes, PublishCommit(w) PROVE SettingLocked'
    BY <1>12 DEF PublishCommit, GoTo, Leave, SettingLocked
<1>13. ASSUME NEW w \in Processes, PublishFails(w) PROVE SettingLocked'
    BY <1>13 DEF PublishFails, GoTo, Fault, SettingLocked
<1>14. ASSUME NEW w \in Processes, Renew(w) PROVE SettingLocked'
    BY <1>14 DEF Renew, GoTo, Fault, Locked, SettingLocked
<1>15. ASSUME NEW w \in Processes, Fail(w) PROVE SettingLocked'
    BY <1>15 DEF Fail, GoTo, Leave, Fault, Locked, SettingLocked
<1>16. ASSUME NEW w \in Processes, Crash(w) PROVE SettingLocked'
    BY <1>16 DEF Crash, GoTo, Leave, SettingLocked
<1>17. CASE UNCHANGED vars
    BY <1>17 DEF vars, SettingLocked
<1> HIDE DEF Inv, TypeOK, RowOK, EmbeddingOK, MemoryOK, InHand,
        Busy, row, embedding, job, memory
<1>18. QED
    BY <1>1, <1>2, <1>3, <1>4, <1>5, <1>6, <1>7, <1>8, <1>9,
       <1>10, <1>11, <1>12, <1>13, <1>14, <1>15, <1>16, <1>17 DEF Next, Work

\* A row that Configure did not see cannot be published by a process of its version.
LEMMA FindsNext ==
    ASSUME Inv, SettingLocked, SnapshotFinds, [Next]_vars
    PROVE  SnapshotFinds'
<1> USE ContentAssumption, WorkerAssumption DEF Inv, TypeOK, RowOK, EmbeddingOK, MemoryOK,
                                                InHand,
        Busy, row, embedding, job, memory
<1>1. ASSUME NEW i \in Images, NEW text \in Contents, Annotate(i, text) PROVE SnapshotFinds'
    BY <1>1 DEF Annotate, Dirty, SettingLocked, SnapshotFinds
<1>2. ASSUME NEW i \in Images, DeleteImage(i) PROVE SnapshotFinds'
    BY <1>2 DEF DeleteImage, SettingLocked, SnapshotFinds
<1>3. ASSUME NEW i \in Images, LeaseLapses(i) PROVE SnapshotFinds'
    BY <1>3 DEF LeaseLapses, Fault, SettingLocked, SnapshotFinds
<1>4. ASSUME NEW i \in Images, BackoffElapses(i) PROVE SnapshotFinds'
    BY <1>4 DEF BackoffElapses, SettingLocked, SnapshotFinds
<1>5. ASSUME NEW w \in Processes, Start(w) PROVE SnapshotFinds'
    BY <1>5 DEF Start, GoTo, SettingLocked, SnapshotFinds
<1>6. ASSUME NEW w \in Processes, ConfigureBegin(w) PROVE SnapshotFinds'
  <2>1. ASSUME NEW v \in Processes, at'[v] = "publishing"
        PROVE  at[v] = "publishing" /\ image[v] \in Images /\ state[image[v]] # "none"
    BY <1>6, <2>1 DEF ConfigureBegin, GoTo, PublisherOwns, Matches
  <2>2. ASSUME NEW v \in Processes, at'[v] = "configuring" PROVE v = w
    BY <1>6, <2>2 DEF ConfigureBegin, GoTo
  <2>3. CASE setting = NoVersion
    BY <1>6, <2>1, <2>2, <2>3 DEF ConfigureBegin, SettingLocked, SnapshotFinds
  <2>4. CASE setting = VersionOf[w]
    BY <1>6, <2>2, <2>4 DEF ConfigureBegin, SnapshotFinds
  <2>5. CASE setting \notin {NoVersion, VersionOf[w]}
    <3>1. snapshot'[w] = {i \in Images : state[i] # "none"}
      BY <1>6, <2>5 DEF ConfigureBegin
    <3>2. UNCHANGED <<state, stamp, setting, image>>
      BY <1>6 DEF ConfigureBegin
    <3> QED
      BY <2>1, <2>2, <3>1, <3>2 DEF SnapshotFinds
  <2> QED
    BY <2>3, <2>4, <2>5
<1>7. ASSUME NEW w \in Processes, ConfigureCommit(w) PROVE SnapshotFinds'
    BY <1>7 DEF ConfigureCommit, Dirty, Unqueued, GoTo, SettingLocked, SnapshotFinds
<1>8. ASSUME NEW w \in Processes, ConfigureFails(w) PROVE SnapshotFinds'
    BY <1>8 DEF ConfigureFails, GoTo, Fault, SettingLocked, SnapshotFinds
<1>9. ASSUME NEW w \in Processes, NEW i \in Images, Claim(w, i) PROVE SnapshotFinds'
    BY <1>9 DEF Claim, Claimable, GoTo, SettingLocked, SnapshotFinds
<1>10. ASSUME NEW w \in Processes, ReadSource(w) PROVE SnapshotFinds'
    BY <1>10 DEF ReadSource, GoTo, Fault, SettingLocked, SnapshotFinds
<1>11. ASSUME NEW w \in Processes, PublishBegin(w) PROVE SnapshotFinds'
    BY <1>11 DEF PublishBegin, GoTo, Leave, Locked, SettingLocked, SnapshotFinds
<1>12. ASSUME NEW w \in Processes, PublishCommit(w) PROVE SnapshotFinds'
    BY <1>12 DEF PublishCommit, GoTo, Leave, SettingLocked, SnapshotFinds
<1>13. ASSUME NEW w \in Processes, PublishFails(w) PROVE SnapshotFinds'
    BY <1>13 DEF PublishFails, GoTo, Fault, SettingLocked, SnapshotFinds
<1>14. ASSUME NEW w \in Processes, Renew(w) PROVE SnapshotFinds'
    BY <1>14 DEF Renew, GoTo, Fault, Locked, SettingLocked, SnapshotFinds
<1>15. ASSUME NEW w \in Processes, Fail(w) PROVE SnapshotFinds'
    BY <1>15 DEF Fail, GoTo, Leave, Fault, Locked, SettingLocked, SnapshotFinds
<1>16. ASSUME NEW w \in Processes, Crash(w) PROVE SnapshotFinds'
    BY <1>16 DEF Crash, GoTo, Leave, SettingLocked, SnapshotFinds
<1>17. CASE UNCHANGED vars
    BY <1>17 DEF vars, SnapshotFinds
<1> HIDE DEF Inv, TypeOK, RowOK, EmbeddingOK, MemoryOK, InHand,
        Busy, row, embedding, job, memory
<1>18. QED
    BY <1>1, <1>2, <1>3, <1>4, <1>5, <1>6, <1>7, <1>8, <1>9,
       <1>10, <1>11, <1>12, <1>13, <1>14, <1>15, <1>16, <1>17 DEF Next, Work

\* What is known of versions holds in every behaviour.
LEMMA VersionInvariance == Spec => [](Inv /\ SettingLocked /\ SnapshotFinds)
<1>1. Init => SettingLocked /\ SnapshotFinds
    BY DEF Init, SettingLocked, SnapshotFinds
<1> QED
    BY <1>1, InvInit, InvNext, LockedNext, FindsNext, PTL DEF Spec

------------------------------------------------------------------------------
\* The API's view.

Served == [i \in Images |-> IF Valid(i) THEN vector[i] ELSE Unserved]

\* The view depends on these columns alone.
LEMMA ViewKept ==
    ASSUME UNCHANGED <<content, vector, built, revision, stamp, setting>>,
           \A i \in Images : state'[i] = "ready" <=> state[i] = "ready"
    PROVE  Served' = Served /\ content' = content
    BY DEF Served, Valid

\* An annotation transaction is an edit.
LEMMA AnnotateView ==
    ASSUME Inv, NEW i \in Images, NEW text \in Contents, Annotate(i, text)
    PROVE  Index!Edit(i)
<1>1. content[i] # Gone /\ content' = [content EXCEPT ![i] = text]
    BY DEF Annotate
<1>2. Served' = [Served EXCEPT ![i] = Unserved]
  <2>1. ~ Valid(i)'
    BY DEF Annotate, Dirty, Valid
  <2>2. \A k \in Images \ {i} : (Valid(k)' <=> Valid(k)) /\ vector'[k] = vector[k]
    BY DEF Annotate, Dirty, Valid, embedding
  <2> QED
    BY <2>1, <2>2 DEF Served
<1> QED
    BY <1>1, <1>2 DEF Index!Edit, Served

\* A deletion is an edit.
LEMMA DeleteView ==
    ASSUME Inv, NEW i \in Images, DeleteImage(i)
    PROVE  Index!Edit(i)
<1> USE DEF Inv, TypeOK, RowOK, EmbeddingOK
<1>1. content[i] # Gone /\ content' = [content EXCEPT ![i] = Gone]
    BY DEF DeleteImage
<1>2. Served' = [Served EXCEPT ![i] = Unserved]
  <2>1. ~ Valid(i)'
    BY DEF DeleteImage, Valid
  <2>2. \A k \in Images \ {i} : (Valid(k)' <=> Valid(k)) /\ vector'[k] = vector[k]
    BY DEF DeleteImage, Valid
  <2> QED
    BY <2>1, <2>2 DEF Served
<1> QED
    BY <1>1, <1>2 DEF Index!Edit, Served

\* A new version takes vectors out of service and puts none into it.
LEMMA ConfigureView ==
    ASSUME Inv, SettingLocked, SnapshotFinds, NEW w \in Processes, ConfigureCommit(w)
    PROVE  \E S \in SUBSET Images : Index!Withdraw(S)
<1> USE DEF Inv, TypeOK, RowOK, EmbeddingOK, MemoryOK
<1>1. UNCHANGED <<content, vector, built, stamp>>
    BY DEF ConfigureCommit, embedding
<1>2. ASSUME NEW i \in Images, Valid(i)' PROVE Valid(i)
  <2>1. /\ state[i] = "ready" /\ revision'[i] = revision[i]
        /\ ~ (i \in snapshot[w] /\ state[i] # "none")
    BY <1>2 DEF ConfigureCommit, Dirty, Valid
  <2>2. built[i] = revision[i] /\ stamp[i] = VersionOf[w]
    BY <1>1, <1>2, <2>1 DEF ConfigureCommit, Valid
  <2>3. setting = VersionOf[w]
    BY <2>1, <2>2 DEF ConfigureCommit, SnapshotFinds
  <2> QED
    BY <2>1, <2>2, <2>3 DEF Valid
<1>3. PICK S \in SUBSET Images : \A i \in Images : i \in S <=> ~ Valid(i)'
  <2>1. \E S \in SUBSET Images : S = {i \in Images : ~ Valid(i)'}
    OBVIOUS
  <2> QED
    BY <2>1
<1>4. Served' = [i \in Images |-> IF i \in S THEN Unserved ELSE Served[i]]
    BY <1>1, <1>2, <1>3 DEF Served
<1> QED
    BY <1>1, <1>4 DEF Index!Withdraw, Served

\* Publishing serves the image's content, or takes its vector out of service, or, by a
\* process of another version, leaves it out of service.
LEMMA PublishView ==
    ASSUME Inv, NEW w \in Processes, PublishCommit(w)
    PROVE  \/ \E i \in Images : Index!Serve(i)
           \/ \E S \in SUBSET Images : Index!Withdraw(S)
<1> USE DEF Inv, TypeOK, RowOK, EmbeddingOK, MemoryOK
<1>1. PICK i \in Images : i = image[w] /\ source[w] = content[i] /\ source[w] \in Contents
    BY DEF PublishCommit, InHand, Busy, PublisherOwns, SourceIsCurrent
<1>2. \A k \in Images \ {i} : (Valid(k)' <=> Valid(k)) /\ vector'[k] = vector[k]
    BY <1>1 DEF PublishCommit, Valid
<1>3. content' = content
    BY DEF PublishCommit
<1>4. CASE Valid(i)'
  <2>1. source[w] \notin Silent /\ vector'[i] = content[i]
    BY <1>1, <1>4 DEF PublishCommit, Valid
  <2>2. Served' = [Served EXCEPT ![i] = content[i]]
    BY <1>2, <1>4, <2>1 DEF Served
  <2> QED
    BY <1>1, <1>3, <2>1, <2>2 DEF Index!Serve, Served
<1>5. CASE ~ Valid(i)'
  <2>1. Served' = [k \in Images |-> IF k \in {i} THEN Unserved ELSE Served[k]]
    BY <1>2, <1>5 DEF Served
  <2>2. Index!Withdraw({i})
    BY <1>3, <2>1 DEF Index!Withdraw, Served
  <2> QED
    BY <2>2
<1> QED
    BY <1>4, <1>5

\* Every step of the queue is a step of VectorIndex or leaves the view as it is.
LEMMA ViewStep ==
    ASSUME Inv, SettingLocked, SnapshotFinds, [Next]_vars
    PROVE  [Index!Next]_<<content, Served>>
<1> USE DEF Inv, TypeOK, RowOK, EmbeddingOK, MemoryOK, InHand, Busy, row, embedding,
            job, memory
<1>1. ASSUME NEW i \in Images, NEW text \in Contents, Annotate(i, text) PROVE Index!Next
    BY <1>1, AnnotateView DEF Index!Next
<1>2. ASSUME NEW i \in Images, DeleteImage(i) PROVE Index!Next
    BY <1>2, DeleteView DEF Index!Next
<1>3. ASSUME NEW i \in Images, LeaseLapses(i) \/ BackoffElapses(i)
      PROVE  UNCHANGED <<content, Served>>
    BY <1>3, ViewKept DEF LeaseLapses, BackoffElapses
<1>4. ASSUME NEW w \in Processes, Start(w) \/ ConfigureBegin(w) \/ ConfigureFails(w)
                   \/ ReadSource(w) \/ PublishBegin(w) \/ PublishFails(w) \/ Renew(w)
                   \/ Crash(w)
      PROVE  UNCHANGED <<content, Served>>
  <2>1. UNCHANGED <<content, vector, built, revision, state, stamp, setting>>
    BY <1>4 DEF Start, ConfigureBegin, ConfigureFails, ReadSource, PublishBegin,
                PublishFails, Renew, Crash
  <2> QED
    BY <2>1, ViewKept
<1>5. ASSUME NEW w \in Processes, ConfigureCommit(w) PROVE Index!Next
    BY <1>5, ConfigureView DEF Index!Next
<1>6. ASSUME NEW w \in Processes, NEW i \in Images, Claim(w, i)
      PROVE  UNCHANGED <<content, Served>>
    BY <1>6, ViewKept DEF Claim, Claimable
<1>7. ASSUME NEW w \in Processes, PublishCommit(w) PROVE Index!Next
    BY <1>7, PublishView DEF Index!Next
<1>8. ASSUME NEW w \in Processes, Fail(w) PROVE UNCHANGED <<content, Served>>
    BY <1>8, WorkerAssumption, ViewKept DEF Fail, Matches, RowsRefer
<1>9. CASE UNCHANGED vars
    BY <1>9, ViewKept DEF vars
<1> HIDE DEF Inv, TypeOK, RowOK, EmbeddingOK, MemoryOK, InHand, Busy, row, embedding,
             job, memory
<1> QED
    BY <1>1, <1>2, <1>3, <1>4, <1>5, <1>6, <1>7, <1>8, <1>9 DEF Next, Work

\* What the API may use of the vectors behaves as VectorIndex says: an edit takes the
\* vector out of service in the same step, and only the present content comes back.
THEOREM VectorIndexImplemented == Spec => ImplementsVectorIndex
<1>1. Init => Index!Init
  <2>1. Init => Served = [i \in Images |-> Unserved]
    BY DEF Init, Served, Valid
  <2> QED
    BY <2>1 DEF Init, Index!Init, Served
<1>2. Inv /\ SettingLocked /\ SnapshotFinds /\ [Next]_vars
        => [Index!Next]_<<content, Served>>
    BY ViewStep
<1> QED
    BY <1>1, <1>2, VersionInvariance, PTL DEF Spec, ImplementsVectorIndex, Index!Spec,
                                              Served

------------------------------------------------------------------------------
\* One process at a time.

OneAlive == \A v, w \in Processes : at[v] \in Alive /\ at[w] \in Alive => v = w

\* A ready job has a vector of the setting's version, which is also the version of the
\* process that publishes; a process that changes the version will find every ready job.
ReadyStamped ==
    /\ \A i \in Images : state[i] = "ready" => stamp[i] = setting
    /\ \A w \in Processes :
          /\ at[w] = "publishing" => setting = VersionOf[w]
          /\ at[w] = "configuring" /\ setting # VersionOf[w] =>
                \A i \in Images : state[i] = "ready" => i \in snapshot[w]

\* Without overlap a process starts only when no other is alive.
LEMMA OneNext ==
    ASSUME ~ Overlap, Inv, OneAlive, [Next]_vars
    PROVE  OneAlive'
<1> USE WorkerAssumption DEF Inv, TypeOK, MemoryOK, InHand, Alive, Busy, job, memory
<1>1. ASSUME NEW i \in Images, NEW text \in Contents, Annotate(i, text) PROVE OneAlive'
    BY <1>1 DEF Annotate, Dirty, OneAlive
<1>2. ASSUME NEW i \in Images, DeleteImage(i) PROVE OneAlive'
    BY <1>2 DEF DeleteImage, OneAlive
<1>3. ASSUME NEW i \in Images, LeaseLapses(i) PROVE OneAlive'
    BY <1>3 DEF LeaseLapses, Fault, OneAlive
<1>4. ASSUME NEW i \in Images, BackoffElapses(i) PROVE OneAlive'
    BY <1>4 DEF BackoffElapses, OneAlive
<1>5. ASSUME NEW w \in Processes, Start(w) PROVE OneAlive'
    BY <1>5 DEF Start, GoTo, OneAlive
<1>6. ASSUME NEW w \in Processes, ConfigureBegin(w) PROVE OneAlive'
    BY <1>6 DEF ConfigureBegin, GoTo, OneAlive
<1>7. ASSUME NEW w \in Processes, ConfigureCommit(w) PROVE OneAlive'
    BY <1>7 DEF ConfigureCommit, Dirty, Unqueued, GoTo, OneAlive
<1>8. ASSUME NEW w \in Processes, ConfigureFails(w) PROVE OneAlive'
    BY <1>8 DEF ConfigureFails, GoTo, Fault, OneAlive
<1>9. ASSUME NEW w \in Processes, NEW i \in Images, Claim(w, i) PROVE OneAlive'
    BY <1>9 DEF Claim, Claimable, GoTo, OneAlive
<1>10. ASSUME NEW w \in Processes, ReadSource(w) PROVE OneAlive'
    BY <1>10 DEF ReadSource, GoTo, Fault, OneAlive
<1>11. ASSUME NEW w \in Processes, PublishBegin(w) PROVE OneAlive'
    BY <1>11 DEF PublishBegin, GoTo, Leave, Locked, OneAlive
<1>12. ASSUME NEW w \in Processes, PublishCommit(w) PROVE OneAlive'
    BY <1>12 DEF PublishCommit, GoTo, Leave, OneAlive
<1>13. ASSUME NEW w \in Processes, PublishFails(w) PROVE OneAlive'
    BY <1>13 DEF PublishFails, GoTo, Fault, OneAlive
<1>14. ASSUME NEW w \in Processes, Renew(w) PROVE OneAlive'
    BY <1>14 DEF Renew, GoTo, Fault, Locked, OneAlive
<1>15. ASSUME NEW w \in Processes, Fail(w) PROVE OneAlive'
    BY <1>15 DEF Fail, GoTo, Leave, Fault, Locked, OneAlive
<1>16. ASSUME NEW w \in Processes, Crash(w) PROVE OneAlive'
    BY <1>16 DEF Crash, GoTo, Leave, OneAlive
<1>17. CASE UNCHANGED vars
    BY <1>17 DEF vars, OneAlive
<1> HIDE DEF Inv, TypeOK, MemoryOK, InHand, Alive, Busy, job, memory
<1>18. QED
    BY <1>1, <1>2, <1>3, <1>4, <1>5, <1>6, <1>7, <1>8, <1>9,
       <1>10, <1>11, <1>12, <1>13, <1>14, <1>15, <1>16, <1>17 DEF Next, Work

\* The sole process finds every ready job when it changes the version.
LEMMA StampedNext ==
    ASSUME ~ Overlap, Inv, OneAlive, SettingLocked, ReadyStamped, [Next]_vars
    PROVE  ReadyStamped'
<1> USE ContentAssumption, WorkerAssumption DEF Inv, TypeOK, RowOK, EmbeddingOK, MemoryOK,
                                                InHand,
        Alive, Busy, row, embedding, job, memory
<1>1. ASSUME NEW i \in Images, NEW text \in Contents, Annotate(i, text) PROVE ReadyStamped'
    BY <1>1 DEF Annotate, Dirty, OneAlive, SettingLocked, ReadyStamped
<1>2. ASSUME NEW i \in Images, DeleteImage(i) PROVE ReadyStamped'
    BY <1>2 DEF DeleteImage, OneAlive, SettingLocked, ReadyStamped
<1>3. ASSUME NEW i \in Images, LeaseLapses(i) PROVE ReadyStamped'
    BY <1>3 DEF LeaseLapses, Fault, OneAlive, SettingLocked, ReadyStamped
<1>4. ASSUME NEW i \in Images, BackoffElapses(i) PROVE ReadyStamped'
    BY <1>4 DEF BackoffElapses, OneAlive, SettingLocked, ReadyStamped
<1>5. ASSUME NEW w \in Processes, Start(w) PROVE ReadyStamped'
    BY <1>5 DEF Start, GoTo, OneAlive, SettingLocked, ReadyStamped
<1>6. ASSUME NEW w \in Processes, ConfigureBegin(w) PROVE ReadyStamped'
    BY <1>6 DEF ConfigureBegin, GoTo, OneAlive, SettingLocked, ReadyStamped
<1>7. ASSUME NEW w \in Processes, ConfigureCommit(w) PROVE ReadyStamped'
    BY <1>7 DEF ConfigureCommit, Dirty, Unqueued, GoTo, OneAlive, SettingLocked,
                ReadyStamped
<1>8. ASSUME NEW w \in Processes, ConfigureFails(w) PROVE ReadyStamped'
    BY <1>8 DEF ConfigureFails, GoTo, Fault, OneAlive, SettingLocked, ReadyStamped
<1>9. ASSUME NEW w \in Processes, NEW i \in Images, Claim(w, i) PROVE ReadyStamped'
    BY <1>9 DEF Claim, Claimable, GoTo, OneAlive, SettingLocked, ReadyStamped
<1>10. ASSUME NEW w \in Processes, ReadSource(w) PROVE ReadyStamped'
    BY <1>10 DEF ReadSource, GoTo, Fault, OneAlive, SettingLocked, ReadyStamped
<1>11. ASSUME NEW w \in Processes, PublishBegin(w) PROVE ReadyStamped'
    BY <1>11 DEF PublishBegin, GoTo, Leave, Locked, OneAlive, SettingLocked, ReadyStamped
<1>12. ASSUME NEW w \in Processes, PublishCommit(w) PROVE ReadyStamped'
    BY <1>12 DEF PublishCommit, GoTo, Leave, OneAlive, SettingLocked, ReadyStamped
<1>13. ASSUME NEW w \in Processes, PublishFails(w) PROVE ReadyStamped'
    BY <1>13 DEF PublishFails, GoTo, Fault, OneAlive, SettingLocked, ReadyStamped
<1>14. ASSUME NEW w \in Processes, Renew(w) PROVE ReadyStamped'
    BY <1>14 DEF Renew, GoTo, Fault, Locked, OneAlive, SettingLocked, ReadyStamped
<1>15. ASSUME NEW w \in Processes, Fail(w) PROVE ReadyStamped'
    BY <1>15 DEF Fail, GoTo, Leave, Fault, Locked, OneAlive, SettingLocked, ReadyStamped
<1>16. ASSUME NEW w \in Processes, Crash(w) PROVE ReadyStamped'
    BY <1>16 DEF Crash, GoTo, Leave, OneAlive, SettingLocked, ReadyStamped
<1>17. CASE UNCHANGED vars
    BY <1>17 DEF vars, ReadyStamped
<1> HIDE DEF Inv, TypeOK, RowOK, EmbeddingOK, MemoryOK, InHand,
        Alive, Busy, row, embedding, job, memory
<1>18. QED
    BY <1>1, <1>2, <1>3, <1>4, <1>5, <1>6, <1>7, <1>8, <1>9,
       <1>10, <1>11, <1>12, <1>13, <1>14, <1>15, <1>16, <1>17 DEF Next, Work

\* While one process is alive at a time, a ready job is served: no restart, with
\* whatever version, leaves a vector behind that is counted as ready but not served.
THEOREM ReadyServed == ASSUME ~ Overlap PROVE Spec => []ReadyIsServed
<1>1. Init => OneAlive /\ ReadyStamped
    BY DEF Init, OneAlive, ReadyStamped, Alive, Busy
<1>2. (Inv /\ SettingLocked /\ SnapshotFinds) /\ OneAlive /\ ReadyStamped /\ [Next]_vars
        => (OneAlive /\ ReadyStamped)'
    BY OneNext, StampedNext
<1>3. Inv /\ ReadyStamped => ReadyIsServed
    BY DEF Inv, StatusTells, ReadyStamped, ReadyIsServed, Valid
<1> QED
    BY <1>1, <1>2, <1>3, VersionInvariance, PTL DEF Spec

===============================================================================
