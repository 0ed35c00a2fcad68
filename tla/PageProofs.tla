------------------------------ MODULE PageProofs ------------------------------
(***************************************************************************)
(* Proofs about what a page asks for and shows: index jobs, for any number *)
(* of pages, helpers and folders (IndexRequests), and a user's comments,   *)
(* with pages of any length and any number of comments (History).          *)
(*                                                                         *)
(* The cursor is the last comment shown (CursorIsLast), so that what comes *)
(* next is older.  Of the comments that were there at the first page, all  *)
(* that are not older than the cursor have been shown (ShownSoFar): a page *)
(* takes the newest of the rest, and whatever is newer than a comment      *)
(* among the newest is among them too (NewestClosed).                      *)
(***************************************************************************)
EXTENDS IndexRequests, History, FiniteSetTheorems, FunctionTheorems, SequenceTheorems,
        WellFoundedInduction, TLAPS

------------------------------------------------------------------------------
\* Index requests.

\* A request is answered with a job that exists, and no other is watched.
AnswersKnown ==
    /\ \A r \in Requests :
          stage[r] = "answered" => answer[r] \in Jobs /\ status[answer[r]] # "absent"
    /\ \A b \in Browsers : \A j \in watched[b] : status[j] # "absent"

Inv == TypeOK /\ AnswersKnown /\ OneLoopPerJob /\ ShownResultsHold

\* Types, answers and loops are preserved: one step per action.
LEMMA InvNext ==
    ASSUME Inv, [Next]_vars
    PROVE  Inv'
<1> USE RequestAssumption DEF Inv, TypeOK, AnswersKnown, OneLoopPerJob, ShownResultsHold,
        Table!TypeOK, Table!Active, Table!Results, Active, Requests, Clients, page, table
<1>1. ASSUME NEW r \in Requests, NEW j \in Jobs, Insert(r, j) PROVE Inv'
    BY <1>1 DEF Insert, Table!Submit, GoTo
<1>2. ASSUME NEW r \in Requests, Conflict(r) PROVE Inv'
    BY <1>2 DEF Conflict, GoTo
<1>3. ASSUME NEW r \in Requests, ReadActive(r) PROVE Inv'
  <2>1. TypeOK'
    BY <1>3 DEF ReadActive, GoTo
  <2>2. AnswersKnown'
    BY <1>3 DEF ReadActive, GoTo
  <2>3. OneLoopPerJob'
    BY <1>3 DEF ReadActive, GoTo
  <2>4. ShownResultsHold'
    BY <1>3 DEF ReadActive, GoTo
  <2> QED
    BY <2>1, <2>2, <2>3, <2>4
<1>4. ASSUME NEW r \in Requests, Lose(r) PROVE Inv'
    BY <1>4 DEF Lose, Fault, GoTo
<1>5. ASSUME NEW b \in Browsers, NEW s \in Scopes, Open(b, s) PROVE Inv'
    BY <1>5 DEF Open, GoTo
<1>6. ASSUME NEW b \in Browsers, NEW s \in Scopes, Receive(b, s) PROVE Inv'
  <2>1. PICK j \in Jobs : j = answer[<<b, s>>] /\ status[j] # "absent"
    BY <1>6 DEF Receive
  <2>2. CASE j \in watched[b]
    BY <1>6, <2>1, <2>2 DEF Receive, GoTo
  <2>3. CASE j \notin watched[b]
    <3>1. /\ watched' = [watched EXCEPT ![b] = @ \cup {j}]
          /\ loops' = [loops EXCEPT ![<<b, j>>] = @ + 1]
          /\ UNCHANGED <<status, root, answer, indexed, shown, faults>>
          /\ stage' = [stage EXCEPT ![<<b, s>>] = "none"]
      BY <1>6, <2>1, <2>3 DEF Receive, GoTo
    <3>2. TypeOK'
      BY <3>1
    <3>3. OneLoopPerJob'
      <4>1. ASSUME NEW c \in Browsers, NEW k \in Jobs
            PROVE  loops'[<<c, k>>] = IF k \in watched'[c] THEN 1 ELSE 0
        BY <2>3, <3>1
      <4> QED
        BY <4>1
    <3>4. AnswersKnown' /\ ShownResultsHold'
      BY <2>1, <3>1
    <3> QED
      BY <3>2, <3>3, <3>4
  <2> QED
    BY <2>2, <2>3
<1>7. ASSUME NEW b \in Browsers, NEW s \in Scopes, Reject(b, s) PROVE Inv'
    BY <1>7 DEF Reject, GoTo
<1>8. ASSUME NEW b \in Browsers, NEW j \in Jobs, Poll(b, j) PROVE Inv'
  <2>1. loops[<<b, j>>] = 1 /\ j \in watched[b] /\ status[j] \in Table!Results
    BY <1>8 DEF Poll, Settled
  <2>2. TypeOK'
    BY <1>8, <2>1 DEF Poll, Unwatch
  <2>3. OneLoopPerJob'
    <3>1. ASSUME NEW c \in Browsers, NEW k \in Jobs
          PROVE  loops'[<<c, k>>] = IF k \in watched'[c] THEN 1 ELSE 0
      BY <1>8, <2>1 DEF Poll, Unwatch
    <3> QED
      BY <3>1
  <2>4. AnswersKnown' /\ ShownResultsHold'
    BY <1>8 DEF Poll, Unwatch
  <2> QED
    BY <2>2, <2>3, <2>4
<1>9. ASSUME NEW b \in Browsers, NEW j \in Jobs, PollFails(b, j) PROVE Inv'
    BY <1>9 DEF PollFails, Fault, Unwatch
<1>10. ASSUME NEW h \in Helpers, Ask(h) PROVE Inv'
    BY <1>10 DEF Ask, GoTo
<1>11. ASSUME NEW h \in Helpers, Report(h) PROVE Inv'
  <2>1. PICK j \in Jobs : j = answer[<<h, Top>>] /\ status[j] \in Table!Results
    BY <1>11 DEF Report, Settled
  <2>2. TypeOK'
    BY <1>11, <2>1 DEF Report, GoTo
  <2>3. AnswersKnown' /\ OneLoopPerJob' /\ ShownResultsHold'
    BY <1>11, <2>1 DEF Report, GoTo
  <2> QED
    BY <2>2, <2>3
<1>12. ASSUME NEW j \in Jobs, Cancel(j) PROVE Inv'
    BY <1>12 DEF Cancel, Table!Withdraw
<1>13. ASSUME NEW j \in Jobs, Run(j) PROVE Inv'
  <2>1. TypeOK'
    BY <1>13 DEF Run, Table!Take, Table!Settle
  <2>2. AnswersKnown'
    BY <1>13 DEF Run, Table!Take, Table!Settle
  <2>3. OneLoopPerJob'
    BY <1>13 DEF Run, Table!Take, Table!Settle
  <2>4. ShownResultsHold'
    BY <1>13 DEF Run, Table!Take, Table!Settle
  <2> QED
    BY <2>1, <2>2, <2>3, <2>4
<1>14. CASE UNCHANGED vars
    BY <1>14 DEF vars
<1> QED
    BY <1>1, <1>2, <1>3, <1>4, <1>5, <1>6, <1>7, <1>8, <1>9, <1>10, <1>11, <1>12, <1>13,
       <1>14 DEF Next, Api

\* The invariant holds of the empty table.
LEMMA InvInit == Init => Inv
    BY RequestAssumption DEF Init, Inv, TypeOK, AnswersKnown, OneLoopPerJob, ShownResultsHold,
       Table!TypeOK, Table!Init, Requests, Clients

\* The invariant holds in every behaviour.
LEMMA Invariance == Spec => []Inv
    BY InvInit, InvNext, PTL DEF Spec

\* The rows, requests and pages always have their types; in particular nothing but a
\* result is ever shown as one.
THEOREM TypeCorrect == Spec => []TypeOK
<1>1. Inv => TypeOK
    BY DEF Inv
<1> QED
    BY <1>1, Invariance, PTL

\* However many folders share a job and however late their answers are, a page polls the
\* job in one loop.
THEOREM OneLoop == Spec => []OneLoopPerJob
<1>1. Inv => OneLoopPerJob
    BY DEF Inv
<1> QED
    BY <1>1, Invariance, PTL

\* No page and no helper ever showed a success or a failure that the table took back.
THEOREM ShownHold == Spec => []ShownResultsHold
<1>1. Inv => ShownResultsHold
    BY DEF Inv
<1> QED
    BY <1>1, Invariance, PTL

------------------------------------------------------------------------------
\* The pages of a user's comments.

\* A set of natural numbers has a least element.
LEMMA LeastNumber ==
    ASSUME NEW T, T \subseteq Nat, T # {}
    PROVE  \E n \in T : \A k \in T : n <= k
<1> DEFINE Below == {s \in Nat \X Nat : s[1] < s[2]}
<1>1. IsWellFoundedOn(Below, Nat)
  BY NatLessThanWellFounded DEF OpToRel
<1>2. PICK n \in T : \A k \in T : ~ (<<k, n>> \in Below)
  <2> HIDE DEF Below
  <2> QED
    BY <1>1, WFMin
<1>3. \A k \in T : ~ (k < n)
  BY <1>2
<1> QED
  BY <1>3

\* Dates and ids order comments strictly and totally.
LEMMA OlderOrder ==
    /\ \A a \in Comments : ~ Older(a, a)
    /\ \A a, b \in Comments : a # b => Older(a, b) \/ Older(b, a)
    /\ \A a, b, c \in Comments : Older(a, b) /\ Older(b, c) => Older(a, c)
    /\ \A a, b \in Comments : ~ (Older(a, b) /\ Older(b, a))
<1>1. \A a \in Comments : a.date \in Nat /\ a.id \in Nat /\ a = [date |-> a.date, id |-> a.id]
  BY HistoryAssumption DEF Comments, Dates, Ids
<1> QED
  BY <1>1 DEF Older

\* A listing shows every comment of its set.
LEMMA ListingCovers ==
    ASSUME NEW S \in SUBSET Comments, IsFiniteSet(S), NEW s \in Listings(S)
    PROVE  /\ Cardinality(S) \in Nat /\ s \in Seq(S) /\ Len(s) = Cardinality(S)
           /\ \A c \in S : \E i \in 1 .. Len(s) : s[i] = c
<1> DEFINE n == Cardinality(S)
<1>1. n \in Nat
  BY FS_CardinalityType
<1>2. s \in [1 .. n -> S] /\ \A i, j \in 1 .. n : i < j => Older(s[j], s[i])
  BY DEF Listings
<1>3. ASSUME NEW i \in 1 .. n, NEW j \in 1 .. n, s[i] = s[j] PROVE i = j
  <2>1. s[i] \in Comments /\ i \in Nat /\ j \in Nat
    BY <1>2
  <2> QED
    BY <2>1, <1>2, <1>3, OlderOrder
<1>4. s \in Injection(1 .. n, S)
  BY <1>2, <1>3, Fun_IsInj
<1>5. Cardinality(1 .. n) = n
  BY <1>1, FS_Interval
<1>6. s \in Surjection(1 .. n, S)
  BY <1>4, <1>5, FS_Injection
<1>7. \A c \in S : \E i \in 1 .. n : s[i] = c
  BY <1>6 DEF Surjection
<1> QED
  BY <1>1, <1>2, <1>7

\* The n newest include whatever is newer than one of them.
LEMMA NewestClosed ==
    ASSUME NEW S \in SUBSET Comments, IsFiniteSet(S), NEW n \in Nat,
           NEW a \in Newest(S, n), NEW b \in S, Older(a, b)
    PROVE  b \in Newest(S, n)
<1> DEFINE A == {d \in S : Older(a, d)}
           B == {d \in S : Older(b, d)}
<1>1. B \in SUBSET A
  BY OlderOrder DEF Newest
<1>2. IsFiniteSet(A) /\ Cardinality(A) \in Nat /\ Cardinality(B) \in Nat /\ Cardinality(B) <= Cardinality(A)
  <2>1. IsFiniteSet(A)
    BY FS_Subset
  <2>2. IsFiniteSet(B) /\ Cardinality(B) <= Cardinality(A)
    BY <1>1, <2>1, FS_Subset
  <2> QED
    BY <2>1, <2>2, FS_CardinalityType
<1>3. Cardinality(A) < n
  BY DEF Newest
<1>4. Cardinality(B) < n
  BY <1>2, <1>3
<1> QED
  BY <1>4 DEF Newest

\* Fewer than n newest are all there are.
LEMMA NewestAll ==
    ASSUME NEW S \in SUBSET Comments, IsFiniteSet(S), NEW n \in Nat,
           Cardinality(Newest(S, n)) < n
    PROVE  Newest(S, n) = S
<1> DEFINE Newer(c) == {d \in S : Older(c, d)}
           N == Newest(S, n)
           Numbers == {Cardinality(Newer(c)) : c \in S \ N}
<1>1. \A c \in S : IsFiniteSet(Newer(c)) /\ Cardinality(Newer(c)) \in Nat
  BY FS_Subset, FS_CardinalityType
<1>2. SUFFICES ASSUME S \ N # {} PROVE FALSE
  BY DEF Newest
<1>3. Numbers \subseteq Nat /\ Numbers # {}
  BY <1>1, <1>2
<1>4. PICK c \in S \ N : \A e \in S \ N : Cardinality(Newer(c)) <= Cardinality(Newer(e))
  <2>1. PICK k \in Numbers : \A m \in Numbers : k <= m
    <3> HIDE DEF Numbers
    <3> QED
      BY <1>3, LeastNumber
  <2> QED
    BY <2>1
<1>5. ASSUME NEW e \in Newer(c) PROVE e \in N
  <2>1. SUFFICES ASSUME e \notin N PROVE FALSE
    OBVIOUS
  <2>2. Newer(e) \in SUBSET Newer(c) /\ e \notin Newer(e) /\ e \in Newer(c)
    BY OlderOrder
  <2>3. Cardinality(Newer(e)) <= Cardinality(Newer(c)) /\ Cardinality(Newer(e)) # Cardinality(Newer(c))
    <3> HIDE DEF Newer
    <3> QED
      BY <1>1, <2>2, FS_Subset
  <2>4. Cardinality(Newer(c)) <= Cardinality(Newer(e))
    BY <1>4, <1>5, <2>1
  <2> QED
    BY <1>1, <1>5, <2>3, <2>4
<1>6. IsFiniteSet(N) /\ Cardinality(N) \in Nat
  BY FS_Subset, FS_CardinalityType DEF Newest
<1>7. Cardinality(Newer(c)) <= Cardinality(N)
  <2> HIDE DEF Newer, N
  <2> QED
    BY <1>5, <1>6, FS_Subset
<1>8. ~ (Cardinality(Newer(c)) < n)
  BY <1>4 DEF Newest
<1> QED
  BY <1>1, <1>6, <1>7, <1>8

------------------------------------------------------------------------------
\* The inductive invariant.

HistoryTypes ==
    /\ uncommitted \in SUBSET Comments /\ comments \in SUBSET Comments
    /\ atFirst \in SUBSET Comments /\ cursor \in SUBSET Comments
    /\ IsFiniteSet(comments)
    /\ written \in Nat /\ ended \in BOOLEAN /\ listed \in Seq(Comments)

\* Ids are drawn in their order, and a comment that was once seen is not committed again.
Drawn ==
    /\ \A c \in uncommitted \cup comments \cup atFirst : c.id <= written
    /\ uncommitted \cap (comments \cup atFirst) = {}

\* The cursor is the last comment shown.
CursorIsLast ==
    ~ ended => IF listed = <<>> THEN cursor = {} ELSE cursor = {listed[Len(listed)]}

Descending == \A i, j \in DOMAIN listed : i < j => Older(listed[j], listed[i])

\* What was there at first, still is, and is not older than the cursor, has been shown.
ShownSoFar ==
    \A c \in atFirst \cap comments :
        ended \/ (\E d \in cursor : ~ Older(c, d)) => \E i \in DOMAIN listed : listed[i] = c

HistoryInv == HistoryTypes /\ Drawn /\ CursorIsLast /\ Descending /\ ShownSoFar

\* Before the first comment it holds.
LEMMA HistoryInvInit == HistoryInit => HistoryInv
<1> SUFFICES ASSUME HistoryInit PROVE HistoryInv
  OBVIOUS
<1>1. /\ uncommitted = {} /\ comments = {} /\ written = 0 /\ cursor = {}
      /\ ended = FALSE /\ listed = <<>> /\ atFirst = {}
  BY DEF HistoryInit
<1>2. HistoryTypes
  <2>1. IsFiniteSet(comments)
    BY <1>1, FS_EmptySet
  <2>2. listed \in Seq(Comments)
    BY <1>1
  <2> QED
    BY <1>1, <2>1, <2>2 DEF HistoryTypes
<1>3. Drawn /\ CursorIsLast /\ Descending /\ ShownSoFar
  BY <1>1 DEF Drawn, CursorIsLast, Descending, ShownSoFar
<1> QED
  BY <1>2, <1>3 DEF HistoryInv

\* Writing, committing and deleting comments.
LEMMA WritersKeep ==
    ASSUME HistoryInv,
           \/ \E d \in Dates : InsertComment(d)
           \/ \E c \in Comments : CommitComment(c) \/ DeleteComment(c)
    PROVE  HistoryInv'
<1> USE DEF HistoryInv, HistoryTypes, Drawn, CursorIsLast, Descending, ShownSoFar
<1>1. ASSUME NEW d \in Dates, InsertComment(d) PROVE HistoryInv'
  <2>1. written + 1 \in Ids
    BY <1>1, HistoryAssumption DEF InsertComment, Ids
  <2>2. [date |-> d, id |-> written + 1] \in Comments
    BY <2>1 DEF Comments
  <2>3. \A c \in Comments : c.id \in Nat
    BY HistoryAssumption DEF Comments, Ids
  <2> QED
    BY <1>1, <2>1, <2>2, <2>3 DEF InsertComment
<1>2. ASSUME NEW c \in Comments, CommitComment(c) PROVE HistoryInv'
  BY <1>2, FS_AddElement DEF CommitComment
<1>3. ASSUME NEW c \in Comments, DeleteComment(c) PROVE HistoryInv'
  BY <1>3, FS_RemoveElement DEF DeleteComment
<1> QED
  BY <1>1, <1>2, <1>3

\* A page that another follows.
LEMMA ReadPageKeeps ==
    ASSUME HistoryInv, ReadPage
    PROVE  HistoryInv'
<1> DEFINE rows == {c \in comments : \A d \in cursor : Older(c, d)}
           top == Newest(rows, Limit + 1)
<1>1. PICK sorted \in Listings(top) :
        LET more == Len(sorted) > Limit IN
        /\ ~ ended
        /\ ended' = ~ more
        /\ listed' = listed \o IF more THEN SubSeq(sorted, 1, Limit) ELSE sorted
        /\ cursor' = IF more THEN {CursorOf(sorted)} ELSE cursor
        /\ atFirst' = IF cursor = {} THEN comments ELSE atFirst
        /\ UNCHANGED <<uncommitted, comments, written>>
  BY DEF ReadPage
<1> DEFINE n == IF Len(sorted) > Limit THEN Limit ELSE Len(sorted)
           part == IF Len(sorted) > Limit THEN SubSeq(sorted, 1, Limit) ELSE sorted
<1>2. /\ rows \in SUBSET Comments /\ IsFiniteSet(rows)
      /\ top \in SUBSET rows /\ IsFiniteSet(top)
  <2>1. rows \in SUBSET comments
    OBVIOUS
  <2>2. rows \in SUBSET Comments /\ IsFiniteSet(rows)
    BY <2>1, FS_Subset DEF HistoryInv, HistoryTypes
  <2> QED
    BY <2>2, FS_Subset DEF Newest
<1>3. /\ sorted \in Seq(top) /\ sorted \in Seq(Comments) /\ Len(sorted) \in Nat
      /\ Len(sorted) = Cardinality(top)
      /\ \A c \in top : \E i \in 1 .. Len(sorted) : sorted[i] = c
      /\ \A i \in 1 .. Len(sorted) : sorted[i] \in top
  <2> HIDE DEF top
  <2> QED
    BY <1>2, ListingCovers
<1>4. \A i, j \in 1 .. Len(sorted) : i < j => Older(sorted[j], sorted[i])
  BY <1>3 DEF Listings
<1>5. /\ n \in Nat /\ n <= Len(sorted) /\ part \in Seq(Comments) /\ Len(part) = n
      /\ \A i \in 1 .. n : part[i] = sorted[i]
  <2>1. Limit \in Nat \ {0}
    BY HistoryAssumption
  <2>2. CASE Len(sorted) > Limit
    <3>1. \A i \in 1 .. Limit : sorted[i] \in Comments
      BY <1>3, <2>1, <2>2
    <3>2. /\ SubSeq(sorted, 1, Limit) \in Seq(Comments)
          /\ Len(SubSeq(sorted, 1, Limit)) = Limit
          /\ \A i \in 1 .. Limit : SubSeq(sorted, 1, Limit)[i] = sorted[i]
      BY <3>1, <2>1, <2>2, <1>3
    <3> QED
      BY <3>2, <2>1, <2>2, <1>3
  <2>3. CASE ~ (Len(sorted) > Limit)
    BY <2>3, <1>3
  <2> QED
    BY <2>2, <2>3
<1>6. /\ listed' \in Seq(Comments) /\ Len(listed') = Len(listed) + n /\ Len(listed) \in Nat
      /\ \A i \in 1 .. Len(listed) : listed'[i] = listed[i] /\ listed[i] \in Comments
      /\ \A i \in 1 .. n : listed'[Len(listed) + i] = sorted[i]
      /\ \A i \in 1 .. Len(listed) + n : i > Len(listed) => listed'[i] = sorted[i - Len(listed)]
  <2> HIDE DEF part
  <2>1. listed' = listed \o part
    BY <1>1 DEF part
  <2>2. listed \in Seq(Comments) /\ Len(listed) \in Nat
    BY DEF HistoryInv, HistoryTypes
  <2>3. /\ listed' \in Seq(Comments) /\ Len(listed') = Len(listed) + n
        /\ \A i \in 1 .. Len(listed) + n :
              listed'[i] = IF i <= Len(listed) THEN listed[i] ELSE part[i - Len(listed)]
    <3> HIDE DEF n
    <3> QED
      BY <2>1, <2>2, <1>5, ConcatProperties
  <2>4. \A i \in 1 .. Len(listed) : listed[i] \in Comments
    BY <2>2
  <2> HIDE DEF n
  <2>5. ASSUME NEW i \in 1 .. n PROVE listed'[Len(listed) + i] = sorted[i]
    BY <2>2, <2>3, <1>5
  <2>6. ASSUME NEW i \in 1 .. Len(listed) + n, i > Len(listed) PROVE listed'[i] = sorted[i - Len(listed)]
    <3>1. i - Len(listed) \in 1 .. n
      BY <2>2, <2>6, <1>5
    <3> QED
      BY <3>1, <2>3, <2>6, <1>5
  <2> QED
    BY <2>2, <2>3, <2>4, <2>5, <2>6, <1>5
<1>7. comments' = comments /\ uncommitted' = uncommitted /\ written' = written /\ ~ ended
  BY <1>1
<1>8. /\ \A c \in rows : c \in comments /\ (\A d \in cursor : Older(c, d))
      /\ \A c \in comments \ rows : \E d \in cursor : ~ Older(c, d)
      /\ \A i \in 1 .. Len(sorted) : sorted[i] \in rows
  BY <1>2, <1>3
<1>9. IF Len(sorted) > Limit
      THEN n = Limit /\ ~ ended' /\ cursor' = {sorted[Limit]}
      ELSE n = Len(sorted) /\ ended' /\ cursor' = cursor
  BY <1>1 DEF CursorOf
<1>10. atFirst' = IF cursor = {} THEN comments ELSE atFirst
  BY <1>1
<1>11. ~ (Len(sorted) > Limit) => top = rows
  <2> HIDE DEF rows
  <2> QED
    BY <1>2, <1>3, NewestAll, HistoryAssumption
<1>12. \A a \in top, b \in rows : Older(a, b) => b \in top
  <2> HIDE DEF rows
  <2> QED
    BY <1>2, NewestClosed, HistoryAssumption
<1>13. Limit \in 1 .. Limit /\ Limit \in Nat
  BY HistoryAssumption
<1> HIDE DEF rows, top, n, part
<1>14. HistoryTypes'
  <2>1. ended' \in BOOLEAN
    <3>1. ended' = ~ (Len(sorted) > Limit)
      BY <1>1
    <3> QED
      BY <3>1, Zenon
  <2>2. cursor' \in SUBSET Comments
    BY <1>9, <1>13, <1>3 DEF HistoryInv, HistoryTypes
  <2> QED
    BY <2>1, <2>2, <1>6, <1>7, <1>10 DEF HistoryInv, HistoryTypes
<1>15. Drawn'
  BY <1>7, <1>10 DEF HistoryInv, Drawn
<1>16. CursorIsLast'
  <2> SUFFICES ASSUME ~ ended' PROVE IF listed' = <<>> THEN cursor' = {} ELSE cursor' = {listed'[Len(listed')]}
    BY DEF CursorIsLast
  <2>1. n = Limit /\ cursor' = {sorted[Limit]}
    BY <1>9
  <2>2. listed'[Len(listed) + Limit] = sorted[Limit] /\ Len(listed') = Len(listed) + Limit
    BY <2>1, <1>6, <1>13
  <2>3. listed' # <<>>
    BY <2>2, <1>6, <1>13, HistoryAssumption
  <2> QED
    BY <2>1, <2>2, <2>3
<1>17. Descending'
  <2> SUFFICES ASSUME NEW i \in 1 .. Len(listed) + n, NEW j \in 1 .. Len(listed) + n, i < j
               PROVE  Older(listed'[j], listed'[i])
    BY <1>6 DEF Descending
  <2>1. CASE j <= Len(listed)
    <3>1. i \in DOMAIN listed /\ j \in DOMAIN listed /\ i \in 1 .. Len(listed) /\ j \in 1 .. Len(listed)
      BY <2>1, <1>5, <1>6 DEF HistoryInv, HistoryTypes
    <3> QED
      BY <3>1, <1>6 DEF HistoryInv, Descending
  <2>2. CASE i > Len(listed)
    <3>1. j > Len(listed) /\ i - Len(listed) \in 1 .. Len(sorted) /\ j - Len(listed) \in 1 .. Len(sorted)
          /\ i - Len(listed) < j - Len(listed)
      BY <2>2, <1>5, <1>6, <1>3
    <3> QED
      BY <3>1, <2>2, <1>4, <1>6
  <2>3. CASE i <= Len(listed) /\ j > Len(listed)
    <3>1. i \in 1 .. Len(listed) /\ j - Len(listed) \in 1 .. Len(sorted)
      BY <2>3, <1>5, <1>6, <1>3
    <3>2. listed # <<>> /\ Len(listed) \in 1 .. Len(listed)
      BY <3>1, <1>6
    <3>3. cursor = {listed[Len(listed)]}
      BY <3>2, <1>7 DEF HistoryInv, CursorIsLast
    <3>4. Older(sorted[j - Len(listed)], listed[Len(listed)])
      BY <3>1, <3>3, <1>8
    <3>5. i = Len(listed) \/ Older(listed[Len(listed)], listed[i])
      BY <3>1, <3>2, <1>6 DEF HistoryInv, HistoryTypes, Descending
    <3>6. listed'[j] = sorted[j - Len(listed)] /\ listed'[i] = listed[i]
      BY <3>1, <2>3, <1>6
    <3>7. sorted[j - Len(listed)] \in Comments /\ listed[Len(listed)] \in Comments /\ listed[i] \in Comments
      BY <3>1, <3>2, <1>3, <1>6
    <3> QED
      BY <3>4, <3>5, <3>6, <3>7, OlderOrder
  <2> QED
    BY <2>1, <2>2, <2>3, <1>5, <1>6
<1>18. ShownSoFar'
  <2> SUFFICES ASSUME NEW c \in atFirst' \cap comments',
                      ended' \/ (\E d \in cursor' : ~ Older(c, d))
               PROVE  \E i \in DOMAIN listed' : listed'[i] = c
    BY DEF ShownSoFar
  <2>1. c \in comments /\ c \in Comments
    BY <1>7 DEF HistoryInv, HistoryTypes
  <2>2. CASE c \notin rows
    <3>1. cursor # {} /\ \E d \in cursor : ~ Older(c, d)
      BY <2>1, <2>2, <1>8
    <3>2. c \in atFirst
      BY <3>1, <1>10
    <3>3. PICK i \in DOMAIN listed : listed[i] = c
      BY <3>1, <3>2, <2>1 DEF HistoryInv, ShownSoFar
    <3>4. i \in 1 .. Len(listed) /\ i \in DOMAIN listed' /\ listed'[i] = listed[i]
      BY <3>3, <1>5, <1>6 DEF HistoryInv, HistoryTypes
    <3> QED
      BY <3>3, <3>4
  <2>3. ASSUME c \in rows PROVE \E i \in 1 .. n : sorted[i] = c
    <3>1. CASE ~ (Len(sorted) > Limit)
      BY <2>3, <3>1, <1>3, <1>9, <1>11
    <3>2. CASE Len(sorted) > Limit
      <4>1. n = Limit /\ ~ Older(c, sorted[Limit])
        BY <3>2, <1>9
      <4>2. Limit \in 1 .. Len(sorted) /\ sorted[Limit] \in top /\ sorted[Limit] \in Comments
        BY <3>2, <1>3, <1>13
      <4>3. c = sorted[Limit] \/ Older(sorted[Limit], c)
        BY <4>1, <4>2, <2>1, OlderOrder
      <4>4. c \in top
        BY <4>2, <4>3, <2>3, <1>12
      <4>5. PICK i \in 1 .. Len(sorted) : sorted[i] = c
        BY <4>4, <1>3
      <4>6. i <= Limit
        <5>1. SUFFICES ASSUME Limit < i PROVE FALSE
          BY <4>5, <1>13, <1>3
        <5>2. Older(c, sorted[Limit])
          BY <5>1, <4>2, <4>5, <1>4
        <5> QED
          BY <5>2, <4>1
      <4> QED
        BY <4>1, <4>5, <4>6, <1>13, <1>3
    <3> QED
      BY <3>1, <3>2
  <2>4. CASE c \in rows
    <3>1. PICK i \in 1 .. n : sorted[i] = c
      BY <2>3, <2>4
    <3>2. Len(listed) + i \in 1 .. Len(listed')
      BY <1>5, <1>6
    <3> QED
      BY <3>1, <3>2, <1>6
  <2> QED
    BY <2>2, <2>4
<1> QED
  BY <1>14, <1>15, <1>16, <1>17, <1>18 DEF HistoryInv

\* Every page shows the comments newest first, and nothing is left out.
THEOREM Pages == HistorySpec => []HistoryComplete
<1>1. HistoryInit => HistoryInv
  BY HistoryInvInit
<1>2. HistoryInv /\ [HistoryNext]_history_vars => HistoryInv'
  <2> SUFFICES ASSUME HistoryInv, [HistoryNext]_history_vars PROVE HistoryInv'
    OBVIOUS
  <2>1. CASE UNCHANGED history_vars
    BY <2>1 DEF history_vars, HistoryInv, HistoryTypes, Drawn, CursorIsLast, Descending, ShownSoFar
  <2> QED
    BY <2>1, WritersKeep, ReadPageKeeps DEF HistoryNext
<1>3. HistoryInv => HistoryComplete
  BY DEF HistoryInv, HistoryTypes, Descending, ShownSoFar, HistoryComplete, ToSet
<1> QED
  BY <1>1, <1>2, <1>3, PTL DEF HistorySpec
==============================================================================
