--------------------------- MODULE IndexJobsProofs ---------------------------
(***************************************************************************)
(* First, what holds of the job table whatever number of worker processes  *)
(* are alive: the types, the finality of results, the implementation of    *)
(* JobTable, and that a process without its lease leaves the table alone.  *)
(* The argument is that a process that is still working and whose job      *)
(* nobody has claimed since finds that job running or cancelled, so that   *)
(* the one statement without a status guard, finish's UPDATE, never        *)
(* reaches a settled row.                                                  *)
(***************************************************************************)
EXTENDS IndexJobs, TLAPS

------------------------------------------------------------------------------
\* The inductive invariant.

\* Program points at which a process has a job in hand.
Holding == Working \cup {"auditing"}

\* A working process knows which job it works on, and finish gets a result.
InHand ==
    \A w \in Processes :
        /\ at[w] \in Holding => task[w] \in Jobs
        /\ at[w] \notin Holding => task[w] = Nobody
        /\ at[w] = "finishing" => verdict[w] \in Results

\* While a process works and still owns its job, the job has no result of finish yet.
OwnedUnfinished ==
    \A w \in Processes :
        at[w] \in Working /\ owner[task[w]] = w => status[task[w]] \in {"running", "cancelled"}

Inv == TypeOK /\ InHand /\ OwnedUnfinished

------------------------------------------------------------------------------
\* What the next-state formulae leave in a process's memory.

\* A process that is handed its result keeps a memory of its types.
LEMMA GiveType ==
    ASSUME MemoryOK, NEW w \in Processes, NEW result \in Results, Give(w, result)
    PROVE  MemoryOK'
    BY DEF MemoryOK, Give, GoTo, walk, Alive, Working, Scanning

\* So does one that leaves its job or dies.
LEMMA LeaveType ==
    ASSUME MemoryOK, HistoryOK, NEW w \in Processes, NEW point \in {"idle", "dead"},
           Leave(w, point)
    PROVE  MemoryOK' /\ churn' \in [Processes -> SUBSET Paths]
    BY ValueAssumption DEF MemoryOK, HistoryOK, Leave, GoTo, Alive, Working, Scanning

\* A step to another point of the program leads to a point.
LEMMA GoToType ==
    ASSUME MemoryOK, NEW w \in Processes, NEW point \in Alive, GoTo(w, point)
    PROVE  at' \in [Processes -> {"off", "dead"} \cup Alive]
    BY DEF MemoryOK, GoTo

\* A refused statement stays within the bound of faults.
LEMMA RefusedType ==
    ASSUME TypeOK, Refused
    PROVE  faults' \in 0 .. MaxFaults
    BY ValueAssumption DEF TypeOK, Refused

------------------------------------------------------------------------------
\* Types are preserved: one step per action.

\* Every action gives its variables values of their types.
LEMMA TypeNext ==
    ASSUME TypeOK, InHand, [Next]_vars
    PROVE  TypeOK'
<1> USE ValueAssumption, ScopeAssumption DEF TypeOK, TableOK, HistoryOK,
        table, lease, request, memory, walk, history, world
<1>1. ASSUME NEW j \in Jobs, NEW scope \in Scopes, NEW cut \in BOOLEAN, Enqueue(j, scope, cut)
      PROVE  TypeOK'
    BY <1>1 DEF Enqueue, Active, MemoryOK
<1>2. ASSUME NEW j \in Jobs, Cancel(j) PROVE TypeOK'
    BY <1>2 DEF Cancel, Results, MemoryOK
<1>3. ASSUME NEW j \in Jobs, LeaseLapses(j) PROVE TypeOK'
    BY <1>3 DEF LeaseLapses, MemoryOK
<1>4. ASSUME NEW w \in Processes, Start(w) PROVE TypeOK'
    BY <1>4, GoToType DEF Start, MemoryOK, Alive
<1>5. ASSUME NEW w \in Processes, NEW j \in Jobs, Claim(w, j) PROVE TypeOK'
    BY <1>5, GoToType DEF Claim, Claimable, MemoryOK, Active, Alive, Working
<1>6. ASSUME NEW w \in Processes, RefuseRoot(w) PROVE TypeOK'
    BY <1>6, GiveType DEF RefuseRoot, Results
<1>7. ASSUME NEW w \in Processes, MissingRoot(w) PROVE TypeOK'
    BY <1>7, GoToType DEF MissingRoot, MemoryOK, Alive, Working
<1>8. ASSUME NEW w \in Processes, WalkRoot(w) PROVE TypeOK'
  <2>1. task[w] \in Jobs
    BY <1>8 DEF WalkRoot, InHand, Holding, Working
  <2>2. Reach(w) \in SUBSET Paths
    BY <2>1 DEF Reach, Root
  <2> QED
    BY <1>8, <2>2, GoToType DEF WalkRoot, MemoryOK, Alive, Working, Scanning
<1>9. ASSUME NEW w \in Processes, FileRoot(w) PROVE TypeOK'
  <2>1. task[w] \in Jobs
    BY <1>9 DEF FileRoot, InHand, Holding, Working
  <2>2. Below[Root(w)] \in SUBSET Paths
    BY <2>1 DEF Root
  <2> QED
    BY <1>9, <2>2, GoToType DEF FileRoot, MemoryOK, Alive, Working, Scanning
<1>10. ASSUME NEW w \in Processes, OddRoot(w) PROVE TypeOK'
    BY <1>10, GoToType DEF OddRoot, MemoryOK, Alive, Working, Scanning
<1>11. ASSUME NEW w \in Processes, Clear(w) PROVE TypeOK'
  <2>1. MemoryOK'
    BY <1>11, GiveType DEF Clear, Results
  <2>2. faults' \in 0 .. MaxFaults
    BY <1>11, RefusedType DEF Clear
  <2>3. catalog' \in [Paths -> {Gone, Unstamped} \cup Jobs]
    BY <1>11 DEF Clear
  <2> QED
    BY <1>11, <2>1, <2>2, <2>3 DEF Clear
<1>12. ASSUME NEW w \in Processes, NEW p \in Paths, Visit(w, p) PROVE TypeOK'
  <2>1. todo' \in [Processes -> SUBSET Paths]
    BY <1>12 DEF Visit, MemoryOK
  <2>2. batch' \in [Processes -> SUBSET Paths]
    BY <1>12 DEF Visit, MemoryOK
  <2>3. whole' \in [Processes -> BOOLEAN]
    BY <1>12 DEF Visit, MemoryOK
  <2> QED
    BY <1>12, <2>1, <2>2, <2>3 DEF Visit, MemoryOK
<1>13. ASSUME NEW w \in Processes, Upsert(w) PROVE TypeOK'
  <2>1. task[w] \in Jobs
    BY <1>13 DEF Upsert, InHand, Holding, Working, Scanning
  <2>2. catalog' \in [Paths -> {Gone, Unstamped} \cup Jobs]
    BY <1>13, <2>1 DEF Upsert
  <2>3. faults' \in 0 .. MaxFaults
    BY <1>13, RefusedType DEF Upsert
  <2>4. CASE Give(w, "failed")
    BY <1>13, <2>2, <2>3, <2>4, GiveType DEF Upsert, Results
  <2>5. CASE ~ Give(w, "failed")
    <3>1. /\ GoTo(w, "renewing") /\ UNCHANGED <<task, todo, whole, verdict>>
          /\ batch' = [batch EXCEPT ![w] = {}]
          /\ clips' = [clips EXCEPT ![w] = batch[w] \cap Videos]
      BY <1>13, <2>5 DEF Upsert
    <3>2. batch' \in [Processes -> SUBSET Paths] /\ clips' \in [Processes -> SUBSET Paths]
      BY <3>1 DEF MemoryOK
    <3> QED
      BY <1>13, <2>2, <2>3, <3>1, <3>2, GoToType DEF Upsert, MemoryOK, Alive, Working, Scanning
  <2> QED
    BY <2>4, <2>5
<1>14. ASSUME NEW w \in Processes, Renew(w) PROVE TypeOK'
  <2>1. faults' \in 0 .. MaxFaults
    BY <1>14, RefusedType DEF Renew
  <2>2. lapsed' \in [Jobs -> BOOLEAN]
    BY <1>14 DEF Renew
  <2>3. CASE Give(w, "failed")
    BY <1>14, <2>1, <2>2, <2>3, GiveType DEF Renew, Results
  <2>4. CASE ~ Give(w, "failed")
    BY <1>14, <2>1, <2>2, <2>4 DEF Renew, MemoryOK
  <2> QED
    BY <2>3, <2>4
<1>15. ASSUME NEW w \in Processes, Progress(w) PROVE TypeOK'
  <2>1. faults' \in 0 .. MaxFaults
    BY <1>15, RefusedType DEF Progress
  <2>2. lapsed' \in [Jobs -> BOOLEAN]
    BY <1>15 DEF Progress
  <2>3. MemoryOK' /\ churn' \in [Processes -> SUBSET Paths]
    <3>1. CASE Leave(w, "idle")
      BY <3>1, LeaveType
    <3>2. CASE ~ Leave(w, "idle")
      BY <1>15, <3>2, GoToType DEF Progress, MemoryOK, Alive, Working, Scanning
    <3> QED
      BY <3>1, <3>2
  <2> QED
    BY <1>15, <2>1, <2>2, <2>3 DEF Progress
<1>16. ASSUME NEW w \in Processes, WalkEnds(w) PROVE TypeOK'
    BY <1>16, GoToType DEF WalkEnds, MemoryOK, Alive, Working, Scanning
<1>17. ASSUME NEW w \in Processes, Check(w) PROVE TypeOK'
  <2>1. faults' \in 0 .. MaxFaults
    BY <1>17, RefusedType DEF Check, Cancelled
  <2>2. MemoryOK'
    <3>1. CASE \E result \in Results : Give(w, result)
      BY <3>1, GiveType
    <3>2. CASE ~ \E result \in Results : Give(w, result)
      BY <1>17, <3>2, GoToType DEF Check, Results, MemoryOK, Alive, Working, Scanning
    <3> QED
      BY <3>1, <3>2
  <2> QED
    BY <1>17, <2>1, <2>2 DEF Check
<1>18. ASSUME NEW w \in Processes, Sweep(w) PROVE TypeOK'
  <2>1. MemoryOK'
    BY <1>18, GiveType DEF Sweep, Results
  <2>2. faults' \in 0 .. MaxFaults
    BY <1>18, RefusedType DEF Sweep
  <2>3. catalog' \in [Paths -> {Gone, Unstamped} \cup Jobs]
    BY <1>18 DEF Sweep
  <2> QED
    BY <1>18, <2>1, <2>2, <2>3 DEF Sweep
<1>19. ASSUME NEW w \in Processes, Finish(w) PROVE TypeOK'
  <2>1. faults' \in 0 .. MaxFaults
    BY <1>19, RefusedType DEF Finish
  <2>2. verdict[w] \in Results
    BY <1>19 DEF Finish, InHand
  <2>3. /\ status' \in [Jobs -> {"absent"} \cup Active \cup Results]
        /\ lapsed' \in [Jobs -> BOOLEAN]
        /\ moved' \in [Jobs -> SUBSET Paths]
    <3>1. CASE Record(w)
      BY <2>2, <3>1 DEF Record
    <3>2. CASE ~ Record(w)
      BY <1>19, <3>2 DEF Finish
    <3> QED
      BY <3>1, <3>2
  <2>4. MemoryOK' /\ churn' \in [Processes -> SUBSET Paths]
    <3>1. CASE Leave(w, "idle")
      BY <3>1, LeaveType
    <3>2. CASE ~ Leave(w, "idle")
      BY <1>19, <3>2, GoToType DEF Finish, MemoryOK, Alive
    <3> QED
      BY <3>1, <3>2
  <2> QED
    BY <1>19, <2>1, <2>3, <2>4 DEF Finish
<1>20. ASSUME NEW w \in Processes, Audit(w) PROVE TypeOK'
  <2>1. task[w] \in Jobs
    BY <1>20 DEF Audit, InHand, Holding
  <2>2. faults' \in 0 .. MaxFaults
    BY <1>20, RefusedType DEF Audit
  <2> QED
    BY <1>20, <2>1, <2>2, LeaveType DEF Audit
<1>21. ASSUME NEW w \in Processes, Crash(w) PROVE TypeOK'
    BY <1>21, LeaveType DEF Crash
<1>22. ASSUME NEW p \in Paths, DiskChange(p) PROVE TypeOK'
    BY <1>22 DEF DiskChange, MemoryOK
<1>23. CASE UNCHANGED vars
    BY <1>23 DEF vars, MemoryOK
<1> QED
    BY <1>1, <1>2, <1>3, <1>4, <1>5, <1>6, <1>7, <1>8, <1>9, <1>10, <1>11, <1>12, <1>13,
       <1>14, <1>15, <1>16, <1>17, <1>18, <1>19, <1>20, <1>21, <1>22, <1>23
    DEF Next, Work

------------------------------------------------------------------------------
\* The rest of the invariant is preserved.

\* Only claim gives a process a job, and leaving it forgets the job.
LEMMA InHandNext ==
    ASSUME TypeOK, InHand, [Next]_vars
    PROVE  InHand'
<1> USE ValueAssumption DEF TypeOK, MemoryOK, InHand, Holding, Results, Working, Scanning,
        GoTo, Give, Leave, memory, walk
<1>1. ASSUME NEW j \in Jobs, NEW scope \in Scopes, NEW cut \in BOOLEAN,
             Enqueue(j, scope, cut) PROVE InHand'
    BY <1>1 DEF Enqueue
<1>2. ASSUME NEW j \in Jobs, Cancel(j) PROVE InHand'
    BY <1>2 DEF Cancel
<1>3. ASSUME NEW j \in Jobs, LeaseLapses(j) PROVE InHand'
    BY <1>3 DEF LeaseLapses
<1>4. ASSUME NEW w \in Processes, Start(w) PROVE InHand'
    BY <1>4 DEF Start
<1>5. ASSUME NEW w \in Processes, NEW j \in Jobs, Claim(w, j) PROVE InHand'
    BY <1>5 DEF Claim, Claimable
<1>6. ASSUME NEW w \in Processes, RefuseRoot(w) PROVE InHand'
    BY <1>6 DEF RefuseRoot
<1>7. ASSUME NEW w \in Processes, MissingRoot(w) PROVE InHand'
    BY <1>7 DEF MissingRoot
<1>8. ASSUME NEW w \in Processes, WalkRoot(w) PROVE InHand'
    BY <1>8 DEF WalkRoot
<1>9. ASSUME NEW w \in Processes, FileRoot(w) PROVE InHand'
    BY <1>9 DEF FileRoot
<1>10. ASSUME NEW w \in Processes, OddRoot(w) PROVE InHand'
    BY <1>10 DEF OddRoot
<1>11. ASSUME NEW w \in Processes, Clear(w) PROVE InHand'
    BY <1>11 DEF Clear
<1>12. ASSUME NEW w \in Processes, NEW p \in Paths, Visit(w, p) PROVE InHand'
    BY <1>12 DEF Visit
<1>13. ASSUME NEW w \in Processes, Upsert(w) PROVE InHand'
    BY <1>13 DEF Upsert
<1>14. ASSUME NEW w \in Processes, Renew(w) PROVE InHand'
    BY <1>14 DEF Renew
<1>15. ASSUME NEW w \in Processes, Progress(w) PROVE InHand'
    BY <1>15 DEF Progress
<1>16. ASSUME NEW w \in Processes, WalkEnds(w) PROVE InHand'
    BY <1>16 DEF WalkEnds
<1>17. ASSUME NEW w \in Processes, Check(w) PROVE InHand'
    BY <1>17 DEF Check, Cancelled
<1>18. ASSUME NEW w \in Processes, Sweep(w) PROVE InHand'
    BY <1>18 DEF Sweep
<1>19. ASSUME NEW w \in Processes, Finish(w) PROVE InHand'
    BY <1>19 DEF Finish, Record
<1>20. ASSUME NEW w \in Processes, Audit(w) PROVE InHand'
    BY <1>20 DEF Audit
<1>21. ASSUME NEW w \in Processes, Crash(w) PROVE InHand'
    BY <1>21 DEF Crash
<1>22. ASSUME NEW p \in Paths, DiskChange(p) PROVE InHand'
    BY <1>22 DEF DiskChange
<1>23. CASE UNCHANGED vars
    BY <1>23 DEF vars
<1> QED
    BY <1>1, <1>2, <1>3, <1>4, <1>5, <1>6, <1>7, <1>8, <1>9, <1>10, <1>11, <1>12, <1>13,
       <1>14, <1>15, <1>16, <1>17, <1>18, <1>19, <1>20, <1>21, <1>22, <1>23
    DEF Next, Work

\* The one step that settles a job a process may still own is that process's own
\* finish, and it stops working with it.
LEMMA OwnedNext ==
    ASSUME TypeOK, InHand, OwnedUnfinished, [Next]_vars
    PROVE  OwnedUnfinished'
<1> USE ValueAssumption DEF TypeOK, TableOK, MemoryOK, InHand, Holding, OwnedUnfinished,
        Active, Working, Scanning, GoTo, Give, Leave, memory, walk, table, lease
<1>1. ASSUME NEW j \in Jobs, NEW scope \in Scopes, NEW cut \in BOOLEAN,
             Enqueue(j, scope, cut) PROVE OwnedUnfinished'
    BY <1>1 DEF Enqueue
<1>2. ASSUME NEW j \in Jobs, Cancel(j) PROVE OwnedUnfinished'
    BY <1>2 DEF Cancel
<1>3. ASSUME NEW j \in Jobs, LeaseLapses(j) PROVE OwnedUnfinished'
    BY <1>3 DEF LeaseLapses
<1>4. ASSUME NEW w \in Processes, Start(w) PROVE OwnedUnfinished'
    BY <1>4 DEF Start
<1>5. ASSUME NEW w \in Processes, NEW j \in Jobs, Claim(w, j) PROVE OwnedUnfinished'
    BY <1>5 DEF Claim, Claimable
<1>6. ASSUME NEW w \in Processes, RefuseRoot(w) PROVE OwnedUnfinished'
    BY <1>6 DEF RefuseRoot
<1>7. ASSUME NEW w \in Processes, MissingRoot(w) PROVE OwnedUnfinished'
    BY <1>7 DEF MissingRoot
<1>8. ASSUME NEW w \in Processes, WalkRoot(w) PROVE OwnedUnfinished'
    BY <1>8 DEF WalkRoot
<1>9. ASSUME NEW w \in Processes, FileRoot(w) PROVE OwnedUnfinished'
    BY <1>9 DEF FileRoot
<1>10. ASSUME NEW w \in Processes, OddRoot(w) PROVE OwnedUnfinished'
    BY <1>10 DEF OddRoot
<1>11. ASSUME NEW w \in Processes, Clear(w) PROVE OwnedUnfinished'
    BY <1>11 DEF Clear
<1>12. ASSUME NEW w \in Processes, NEW p \in Paths, Visit(w, p) PROVE OwnedUnfinished'
    BY <1>12 DEF Visit
<1>13. ASSUME NEW w \in Processes, Upsert(w) PROVE OwnedUnfinished'
    BY <1>13 DEF Upsert
<1>14. ASSUME NEW w \in Processes, Renew(w) PROVE OwnedUnfinished'
    BY <1>14 DEF Renew
<1>15. ASSUME NEW w \in Processes, Progress(w) PROVE OwnedUnfinished'
    BY <1>15 DEF Progress
<1>16. ASSUME NEW w \in Processes, WalkEnds(w) PROVE OwnedUnfinished'
    BY <1>16 DEF WalkEnds
<1>17. ASSUME NEW w \in Processes, Check(w) PROVE OwnedUnfinished'
    BY <1>17 DEF Check, Cancelled
<1>18. ASSUME NEW w \in Processes, Sweep(w) PROVE OwnedUnfinished'
    BY <1>18 DEF Sweep
<1>19. ASSUME NEW w \in Processes, Finish(w) PROVE OwnedUnfinished'
    BY <1>19 DEF Finish, Record
<1>20. ASSUME NEW w \in Processes, Audit(w) PROVE OwnedUnfinished'
    BY <1>20 DEF Audit
<1>21. ASSUME NEW w \in Processes, Crash(w) PROVE OwnedUnfinished'
    BY <1>21 DEF Crash
<1>22. ASSUME NEW p \in Paths, DiskChange(p) PROVE OwnedUnfinished'
    BY <1>22 DEF DiskChange
<1>23. CASE UNCHANGED vars
    BY <1>23 DEF vars
<1> QED
    BY <1>1, <1>2, <1>3, <1>4, <1>5, <1>6, <1>7, <1>8, <1>9, <1>10, <1>11, <1>12, <1>13,
       <1>14, <1>15, <1>16, <1>17, <1>18, <1>19, <1>20, <1>21, <1>22, <1>23
    DEF Next, Work

\* At first no process works.
LEMMA InvInit == Init => Inv
    BY ValueAssumption, ScopeAssumption
    DEF Init, Inv, TypeOK, TableOK, MemoryOK, HistoryOK, InHand, OwnedUnfinished,
        Holding, Working, Scanning, Alive

\* The three parts together are inductive.
LEMMA InvNext == Inv /\ [Next]_vars => Inv'
    BY TypeNext, InHandNext, OwnedNext DEF Inv

\* So that they hold always.
LEMMA Invariance == Spec => []Inv
    BY InvInit, InvNext, PTL DEF Spec

------------------------------------------------------------------------------
\* Theorems.

\* The tables and the memories of the processes keep their types, with any number
\* of processes, crashes, refused statements and changes of the disk.
THEOREM TypeCorrect == Spec => []TypeOK
    BY Invariance, PTL DEF Inv

\* What each step does to the status column.
LEMMA StatusStep ==
    ASSUME Inv, [Next]_vars
    PROVE  [Table!Next]_status
<1> USE ValueAssumption DEF Inv, TypeOK, TableOK, table, lease, request, Active, Results,
        Table!Active, Table!Results, Table!Next
<1>1. ASSUME NEW j \in Jobs, NEW scope \in Scopes, NEW cut \in BOOLEAN, Enqueue(j, scope, cut)
      PROVE  Table!Submit(j)
    BY <1>1 DEF Enqueue, Table!Submit
<1>2. ASSUME NEW j \in Jobs, Cancel(j) PROVE Table!Withdraw(j)
    BY <1>2 DEF Cancel, Table!Withdraw
<1>3. ASSUME NEW w \in Processes, NEW j \in Jobs, Claim(w, j) PROVE Table!Take(j)
    BY <1>3 DEF Claim, Claimable, Table!Take
<1>4. ASSUME NEW w \in Processes, Finish(w) PROVE [Table!Next]_status
  <2>1. task[w] \in Jobs /\ verdict[w] \in Results
    BY <1>4 DEF Finish, InHand, Holding, Working
  <2>2. CASE Record(w) /\ owner[task[w]] = w
    <3>1. status[task[w]] \in {"running", "cancelled"}
      BY <1>4, <2>2 DEF Finish, OwnedUnfinished, Working
    <3>2. Table!Settle(task[w])
      BY <2>1, <2>2, <3>1 DEF Record, Table!Settle
    <3> QED
      BY <2>1, <3>2
  <2>3. CASE ~ (Record(w) /\ owner[task[w]] = w)
    BY <1>4, <2>3 DEF Finish, Record
  <2> QED
    BY <2>2, <2>3
<1>5. ASSUME NEW j \in Jobs, LeaseLapses(j) PROVE UNCHANGED status
    BY <1>5 DEF LeaseLapses
<1>6. ASSUME NEW w \in Processes, Start(w) \/ Crash(w) PROVE UNCHANGED status
    BY <1>6 DEF Start, Crash
<1>7. ASSUME NEW w \in Processes,
             \/ RefuseRoot(w) \/ MissingRoot(w) \/ WalkRoot(w) \/ FileRoot(w) \/ OddRoot(w)
             \/ Clear(w) \/ (\E p \in Paths : Visit(w, p)) \/ Upsert(w) \/ Renew(w)
             \/ Progress(w) \/ WalkEnds(w) \/ Check(w) \/ Sweep(w) \/ Audit(w)
      PROVE  UNCHANGED status
    BY <1>7 DEF RefuseRoot, MissingRoot, WalkRoot, FileRoot, OddRoot, Clear, Visit, Upsert,
                Renew, Progress, WalkEnds, Check, Sweep, Audit
<1>8. ASSUME NEW p \in Paths, DiskChange(p) PROVE UNCHANGED status
    BY <1>8 DEF DiskChange
<1>9. CASE UNCHANGED vars
    BY <1>9 DEF vars
<1> QED
    BY <1>1, <1>2, <1>3, <1>4, <1>5, <1>6, <1>7, <1>8, <1>9 DEF Next, Work

\* However the processes, the cancellations and the leases interleave, the job table
\* behaves as JobTable says: one active job, taken before it is settled, final results.
THEOREM JobTableImplemented == Spec => ImplementsJobTable
<1>1. Init => Table!Init
    BY DEF Init, Table!Init
<1>2. Inv /\ [Next]_vars => [Table!Next]_status
    BY StatusStep
<1> QED
    BY <1>1, <1>2, Invariance, PTL DEF Spec, ImplementsJobTable, Table!Spec

\* No step replaces a success or a failure.
THEOREM FinalResults == Spec => ResultsAreFinal
<1>1. ASSUME Inv, [Next]_vars
      PROVE  [\A j \in Jobs : status[j] \in {"succeeded",
         "failed"} => status'[j] = status[j]]_vars
  <2> SUFFICES ASSUME NEW j \in Jobs, status[j] \in {"succeeded", "failed"}
               PROVE  status'[j] = status[j]
    OBVIOUS
  <2>1. [Table!Next]_status
    BY <1>1, StatusStep
  <2>2. status \in [Jobs -> {"absent"} \cup Active \cup Results]
    BY <1>1 DEF Inv, TypeOK, TableOK
  <2> QED
    BY <2>1, <2>2 DEF Table!Next, Table!Submit, Table!Withdraw, Table!Take, Table!Settle,
                      Table!Active, Active
<1> QED
    BY <1>1, Invariance, PTL DEF Spec, ResultsAreFinal

\* A process whose job another has claimed since neither extends a lease nor settles a
\* job, although finish looks at the worker_id alone.
THEOREM DisownedLeave == Spec => DisownedProcessLeavesJobs
<1> DEFINE Leaves == \A w \in Processes :
                        (/\ task[w] \in Jobs /\ owner[task[w]] # w
                         /\ <<at[w], clips[w]>>' # <<at[w], clips[w]>>) => table' = table
<1>1. ASSUME Inv, [Next]_vars PROVE [Leaves]_vars
  <2> SUFFICES ASSUME NEW w \in Processes, task[w] \in Jobs, owner[task[w]] # w,
                      <<at[w], clips[w]>>' # <<at[w], clips[w]>>
               PROVE  table' = table
    OBVIOUS
  <2> USE DEF table, lease, request, memory, walk
  <2>1. at[w] # "idle"
    BY <1>1, ValueAssumption DEF Inv, InHand, Holding, Working, Scanning
  <2>2. at \in [Processes -> {"off", "dead"} \cup Alive] /\ clips \in [Processes -> SUBSET Paths]
    BY <1>1 DEF Inv, TypeOK, MemoryOK
  <2>3. ASSUME NEW v \in Processes, Work(v) PROVE v = w
    <3>1. at' = [at EXCEPT ![v] = at'[v]] /\ clips' = [clips EXCEPT ![v] = clips'[v]]
      BY <2>2, <2>3 DEF Work, Claim, RefuseRoot, MissingRoot, WalkRoot, FileRoot, OddRoot, Clear,
                  Visit, Upsert, Renew, Progress, WalkEnds, Check, Sweep, Finish, Audit, GoTo,
                  Give, Leave
    <3> QED
      BY <2>2, <3>1
  <2>4. CASE Work(w)
    <3>1. CASE Renew(w)
      BY <3>1 DEF Renew, HoldsLease
    <3>2. CASE Progress(w)
      BY <3>2 DEF Progress, HoldsLease
    <3>3. CASE Finish(w)
      BY <3>3 DEF Finish, Record
    <3> QED
      BY <2>1, <2>4, <3>1, <3>2, <3>3
      DEF Work, Claim, RefuseRoot, MissingRoot, WalkRoot, FileRoot, OddRoot, Clear, Visit,
          Upsert, WalkEnds, Check, Sweep, Audit
  <2>5. ASSUME NEW v \in Processes, Start(v) \/ Crash(v) PROVE table' = table
    BY <2>5 DEF Start, Crash
  <2>6. ~ (\E j \in Jobs : Cancel(j) \/ LeaseLapses(j)
                          \/ \E scope \in Scopes, cut \in BOOLEAN : Enqueue(j, scope, cut))
    BY DEF Cancel, LeaseLapses, Enqueue
  <2>7. ASSUME NEW p \in Paths, DiskChange(p) PROVE table' = table
    BY <2>7 DEF DiskChange
  <2>8. CASE UNCHANGED vars
    BY <2>8 DEF vars
  <2> QED
    BY <1>1, <2>3, <2>4, <2>5, <2>6, <2>7, <2>8 DEF Next
<1> QED
  BY <1>1, Invariance, PTL DEF Spec, DisownedProcessLeavesJobs

------------------------------------------------------------------------------
(***************************************************************************)
(* What a scan does to the image table while one worker process is alive   *)
(* at a time, which is how the index-worker service is deployed.  Then the *)
(* process that works on a job owns it, so that nobody else stamps or      *)
(* deletes rows under its scan; and every file of the scope that was there *)
(* throughout the scan is still to be walked, in the batch, or stamped.    *)
(***************************************************************************)

------------------------------------------------------------------------------
\* One process.

OneAlive == \A v, w \in Processes : at[v] \in Alive /\ at[w] \in Alive => v = w

Owns == \A w \in Processes : at[w] \in Working => owner[task[w]] = w

\* A process waits to write the audit event of a job that it saw succeed.
AuditsSuccess == \A w \in Processes : at[w] = "auditing" => status[task[w]] = "succeeded"

Solo == OneAlive /\ Owns /\ AuditsSuccess /\ AuditedSucceeded

\* A process starts only when no other is alive.
LEMMA OneAliveNext ==
    ASSUME ~ Overlap, TypeOK, OneAlive, [Next]_vars
    PROVE  OneAlive'
<1> USE DEF TypeOK, MemoryOK, OneAlive, Alive, Working, Scanning, GoTo, Give, Leave, memory,
        walk
<1>1. ASSUME NEW j \in Jobs, NEW scope \in Scopes, NEW cut \in BOOLEAN,
             Enqueue(j, scope, cut) PROVE OneAlive'
    BY <1>1 DEF Enqueue
<1>2. ASSUME NEW j \in Jobs, Cancel(j) PROVE OneAlive'
    BY <1>2 DEF Cancel
<1>3. ASSUME NEW j \in Jobs, LeaseLapses(j) PROVE OneAlive'
    BY <1>3 DEF LeaseLapses
<1>4. ASSUME NEW w \in Processes, Start(w) PROVE OneAlive'
    BY <1>4 DEF Start
<1>5. ASSUME NEW w \in Processes, NEW j \in Jobs, Claim(w, j) PROVE OneAlive'
    BY <1>5 DEF Claim, Claimable
<1>6. ASSUME NEW w \in Processes, RefuseRoot(w) PROVE OneAlive'
    BY <1>6 DEF RefuseRoot
<1>7. ASSUME NEW w \in Processes, MissingRoot(w) PROVE OneAlive'
    BY <1>7 DEF MissingRoot
<1>8. ASSUME NEW w \in Processes, WalkRoot(w) PROVE OneAlive'
    BY <1>8 DEF WalkRoot
<1>9. ASSUME NEW w \in Processes, FileRoot(w) PROVE OneAlive'
    BY <1>9 DEF FileRoot
<1>10. ASSUME NEW w \in Processes, OddRoot(w) PROVE OneAlive'
    BY <1>10 DEF OddRoot
<1>11. ASSUME NEW w \in Processes, Clear(w) PROVE OneAlive'
    BY <1>11 DEF Clear
<1>12. ASSUME NEW w \in Processes, NEW p \in Paths, Visit(w, p) PROVE OneAlive'
    BY <1>12 DEF Visit
<1>13. ASSUME NEW w \in Processes, Upsert(w) PROVE OneAlive'
    BY <1>13 DEF Upsert
<1>14. ASSUME NEW w \in Processes, Renew(w) PROVE OneAlive'
    BY <1>14 DEF Renew
<1>15. ASSUME NEW w \in Processes, Progress(w) PROVE OneAlive'
    BY <1>15 DEF Progress
<1>16. ASSUME NEW w \in Processes, WalkEnds(w) PROVE OneAlive'
    BY <1>16 DEF WalkEnds
<1>17. ASSUME NEW w \in Processes, Check(w) PROVE OneAlive'
    BY <1>17 DEF Check, Cancelled
<1>18. ASSUME NEW w \in Processes, Sweep(w) PROVE OneAlive'
    BY <1>18 DEF Sweep
<1>19. ASSUME NEW w \in Processes, Finish(w) PROVE OneAlive'
    BY <1>19 DEF Finish, Record
<1>20. ASSUME NEW w \in Processes, Audit(w) PROVE OneAlive'
    BY <1>20 DEF Audit
<1>21. ASSUME NEW w \in Processes, Crash(w) PROVE OneAlive'
    BY <1>21 DEF Crash
<1>22. ASSUME NEW p \in Paths, DiskChange(p) PROVE OneAlive'
    BY <1>22 DEF DiskChange, Abandoned
<1>23. CASE UNCHANGED vars
    BY <1>23 DEF vars
<1> QED
    BY <1>1, <1>2, <1>3, <1>4, <1>5, <1>6, <1>7, <1>8, <1>9, <1>10, <1>11, <1>12, <1>13,
       <1>14, <1>15, <1>16, <1>17, <1>18, <1>19, <1>20, <1>21, <1>22, <1>23
    DEF Next, Work

\* Only a claim changes the owner of a job, and only the live process claims.
LEMMA OwnsNext ==
    ASSUME Inv, OneAlive, Owns, [Next]_vars
    PROVE  Owns'
<1> USE ValueAssumption DEF Inv, TypeOK, TableOK, MemoryOK, InHand, Holding, OneAlive, Owns,
        Alive, Working, Scanning,
        GoTo, Give, Leave, memory, walk, table, lease
<1>1. ASSUME NEW j \in Jobs, NEW scope \in Scopes, NEW cut \in BOOLEAN,
             Enqueue(j, scope, cut) PROVE Owns'
    BY <1>1 DEF Enqueue
<1>2. ASSUME NEW j \in Jobs, Cancel(j) PROVE Owns'
    BY <1>2 DEF Cancel
<1>3. ASSUME NEW j \in Jobs, LeaseLapses(j) PROVE Owns'
    BY <1>3 DEF LeaseLapses
<1>4. ASSUME NEW w \in Processes, Start(w) PROVE Owns'
    BY <1>4 DEF Start
<1>5. ASSUME NEW w \in Processes, NEW j \in Jobs, Claim(w, j) PROVE Owns'
    BY <1>5 DEF Claim, Claimable
<1>6. ASSUME NEW w \in Processes, RefuseRoot(w) PROVE Owns'
    BY <1>6 DEF RefuseRoot
<1>7. ASSUME NEW w \in Processes, MissingRoot(w) PROVE Owns'
    BY <1>7 DEF MissingRoot
<1>8. ASSUME NEW w \in Processes, WalkRoot(w) PROVE Owns'
    BY <1>8 DEF WalkRoot
<1>9. ASSUME NEW w \in Processes, FileRoot(w) PROVE Owns'
    BY <1>9 DEF FileRoot
<1>10. ASSUME NEW w \in Processes, OddRoot(w) PROVE Owns'
    BY <1>10 DEF OddRoot
<1>11. ASSUME NEW w \in Processes, Clear(w) PROVE Owns'
    BY <1>11 DEF Clear
<1>12. ASSUME NEW w \in Processes, NEW p \in Paths, Visit(w, p) PROVE Owns'
    BY <1>12 DEF Visit
<1>13. ASSUME NEW w \in Processes, Upsert(w) PROVE Owns'
    BY <1>13 DEF Upsert
<1>14. ASSUME NEW w \in Processes, Renew(w) PROVE Owns'
    BY <1>14 DEF Renew
<1>15. ASSUME NEW w \in Processes, Progress(w) PROVE Owns'
    BY <1>15 DEF Progress
<1>16. ASSUME NEW w \in Processes, WalkEnds(w) PROVE Owns'
    BY <1>16 DEF WalkEnds
<1>17. ASSUME NEW w \in Processes, Check(w) PROVE Owns'
    BY <1>17 DEF Check, Cancelled
<1>18. ASSUME NEW w \in Processes, Sweep(w) PROVE Owns'
    BY <1>18 DEF Sweep
<1>19. ASSUME NEW w \in Processes, Finish(w) PROVE Owns'
    BY <1>19 DEF Finish, Record
<1>20. ASSUME NEW w \in Processes, Audit(w) PROVE Owns'
    BY <1>20 DEF Audit
<1>21. ASSUME NEW w \in Processes, Crash(w) PROVE Owns'
    BY <1>21 DEF Crash
<1>22. ASSUME NEW p \in Paths, DiskChange(p) PROVE Owns'
    BY <1>22 DEF DiskChange, Abandoned
<1>23. CASE UNCHANGED vars
    BY <1>23 DEF vars
<1> QED
    BY <1>1, <1>2, <1>3, <1>4, <1>5, <1>6, <1>7, <1>8, <1>9, <1>10, <1>11, <1>12, <1>13,
       <1>14, <1>15, <1>16, <1>17, <1>18, <1>19, <1>20, <1>21, <1>22, <1>23
    DEF Next, Work

\* finish finds the row it owns, and the result it writes is final.
LEMMA AuditsNext ==
    ASSUME Inv, Owns, AuditsSuccess, AuditedSucceeded, [Next]_vars
    PROVE  AuditsSuccess' /\ AuditedSucceeded'
<1> USE ValueAssumption DEF Inv, TypeOK, TableOK, MemoryOK, InHand, Holding, OwnedUnfinished,
        Owns, AuditsSuccess,
        AuditedSucceeded, Active, Working, Scanning, GoTo, Give, Leave, memory, walk, table,
            lease
<1>1. ASSUME NEW j \in Jobs, NEW scope \in Scopes, NEW cut \in BOOLEAN,
             Enqueue(j, scope, cut) PROVE AuditsSuccess' /\ AuditedSucceeded'
    BY <1>1 DEF Enqueue
<1>2. ASSUME NEW j \in Jobs, Cancel(j) PROVE AuditsSuccess' /\ AuditedSucceeded'
    BY <1>2 DEF Cancel
<1>3. ASSUME NEW j \in Jobs, LeaseLapses(j) PROVE AuditsSuccess' /\ AuditedSucceeded'
    BY <1>3 DEF LeaseLapses
<1>4. ASSUME NEW w \in Processes, Start(w) PROVE AuditsSuccess' /\ AuditedSucceeded'
    BY <1>4 DEF Start
<1>5. ASSUME NEW w \in Processes, NEW j \in Jobs, Claim(w, j)
      PROVE  AuditsSuccess' /\ AuditedSucceeded'
    BY <1>5 DEF Claim, Claimable
<1>6. ASSUME NEW w \in Processes, RefuseRoot(w) PROVE AuditsSuccess' /\ AuditedSucceeded'
    BY <1>6 DEF RefuseRoot
<1>7. ASSUME NEW w \in Processes, MissingRoot(w) PROVE AuditsSuccess' /\ AuditedSucceeded'
    BY <1>7 DEF MissingRoot
<1>8. ASSUME NEW w \in Processes, WalkRoot(w) PROVE AuditsSuccess' /\ AuditedSucceeded'
    BY <1>8 DEF WalkRoot
<1>9. ASSUME NEW w \in Processes, FileRoot(w) PROVE AuditsSuccess' /\ AuditedSucceeded'
    BY <1>9 DEF FileRoot
<1>10. ASSUME NEW w \in Processes, OddRoot(w) PROVE AuditsSuccess' /\ AuditedSucceeded'
    BY <1>10 DEF OddRoot
<1>11. ASSUME NEW w \in Processes, Clear(w) PROVE AuditsSuccess' /\ AuditedSucceeded'
    BY <1>11 DEF Clear
<1>12. ASSUME NEW w \in Processes, NEW p \in Paths, Visit(w, p)
      PROVE  AuditsSuccess' /\ AuditedSucceeded'
    BY <1>12 DEF Visit
<1>13. ASSUME NEW w \in Processes, Upsert(w) PROVE AuditsSuccess' /\ AuditedSucceeded'
    BY <1>13 DEF Upsert
<1>14. ASSUME NEW w \in Processes, Renew(w) PROVE AuditsSuccess' /\ AuditedSucceeded'
    BY <1>14 DEF Renew
<1>15. ASSUME NEW w \in Processes, Progress(w) PROVE AuditsSuccess' /\ AuditedSucceeded'
    BY <1>15 DEF Progress
<1>16. ASSUME NEW w \in Processes, WalkEnds(w) PROVE AuditsSuccess' /\ AuditedSucceeded'
    BY <1>16 DEF WalkEnds
<1>17. ASSUME NEW w \in Processes, Check(w) PROVE AuditsSuccess' /\ AuditedSucceeded'
    BY <1>17 DEF Check, Cancelled
<1>18. ASSUME NEW w \in Processes, Sweep(w) PROVE AuditsSuccess' /\ AuditedSucceeded'
    BY <1>18 DEF Sweep
<1>19. ASSUME NEW w \in Processes, Finish(w) PROVE AuditsSuccess' /\ AuditedSucceeded'
    BY <1>19 DEF Finish, Record
<1>20. ASSUME NEW w \in Processes, Audit(w) PROVE AuditsSuccess' /\ AuditedSucceeded'
    BY <1>20 DEF Audit
<1>21. ASSUME NEW w \in Processes, Crash(w) PROVE AuditsSuccess' /\ AuditedSucceeded'
    BY <1>21 DEF Crash
<1>22. ASSUME NEW p \in Paths, DiskChange(p) PROVE AuditsSuccess' /\ AuditedSucceeded'
    BY <1>22 DEF DiskChange, Abandoned
<1>23. CASE UNCHANGED vars
    BY <1>23 DEF vars
<1> QED
    BY <1>1, <1>2, <1>3, <1>4, <1>5, <1>6, <1>7, <1>8, <1>9, <1>10, <1>11, <1>12, <1>13,
       <1>14, <1>15, <1>16, <1>17, <1>18, <1>19, <1>20, <1>21, <1>22, <1>23
    DEF Next, Work

------------------------------------------------------------------------------
\* What a scan has seen.

\* The shape of a process's memory at each program point.
Shape ==
    \A w \in Processes :
        /\ at[w] = "renewing" => batch[w] = {}
        /\ at[w] \in {"checking", "sweeping"} => todo[w] = {} /\ batch[w] = {}
        /\ at[w] = "sweeping" => whole[w] /\ ~ limited[task[w]]
        /\ at[w] \notin Holding => churn[w] = {} /\ batch[w] = {}

\* The root was missing: the files of its scope appeared since.
MissedScope ==
    \A w \in Processes : at[w] = "clearing" =>
        \A p \in Below[Root(w)] : Elusive(w, p)

\* A file of the scope that was there all along is still to be walked, is in the
\* batch, or carries the stamp of the job.
Accounted(w, p) ==
    Elusive(w, p) \/ p \in todo[w] \/ p \in batch[w] \/ catalog[p] = task[w]

NothingSkipped ==
    \A w \in Processes : at[w] \in Scanning /\ whole[w] /\ ~ limited[task[w]] =>
        \A p \in Below[Root(w)] : Accounted(w, p)

\* Each program point is entered with the memory it needs.
LEMMA ShapeNext ==
    ASSUME Inv, Owns, Shape, [Next]_vars
    PROVE  Shape'
<1> USE ValueAssumption DEF Inv, TypeOK, TableOK, MemoryOK, HistoryOK, InHand, Holding,
        OwnedUnfinished, Owns, Shape, Working, Scanning,
        GoTo, Give, Leave, memory, walk, table, request, history
<1>1. ASSUME NEW j \in Jobs, NEW scope \in Scopes, NEW cut \in BOOLEAN,
             Enqueue(j, scope, cut) PROVE Shape'
    BY <1>1 DEF Enqueue
<1>2. ASSUME NEW j \in Jobs, Cancel(j) PROVE Shape'
    BY <1>2 DEF Cancel
<1>3. ASSUME NEW j \in Jobs, LeaseLapses(j) PROVE Shape'
    BY <1>3 DEF LeaseLapses
<1>4. ASSUME NEW w \in Processes, Start(w) PROVE Shape'
    BY <1>4 DEF Start
<1>5. ASSUME NEW w \in Processes, NEW j \in Jobs, Claim(w, j) PROVE Shape'
    BY <1>5 DEF Claim, Claimable
<1>6. ASSUME NEW w \in Processes, RefuseRoot(w) PROVE Shape'
    BY <1>6 DEF RefuseRoot
<1>7. ASSUME NEW w \in Processes, MissingRoot(w) PROVE Shape'
    BY <1>7 DEF MissingRoot
<1>8. ASSUME NEW w \in Processes, WalkRoot(w) PROVE Shape'
    BY <1>8 DEF WalkRoot
<1>9. ASSUME NEW w \in Processes, FileRoot(w) PROVE Shape'
    BY <1>9 DEF FileRoot
<1>10. ASSUME NEW w \in Processes, OddRoot(w) PROVE Shape'
    BY <1>10 DEF OddRoot
<1>11. ASSUME NEW w \in Processes, Clear(w) PROVE Shape'
    BY <1>11 DEF Clear
<1>12. ASSUME NEW w \in Processes, NEW p \in Paths, Visit(w, p) PROVE Shape'
    BY <1>12 DEF Visit
<1>13. ASSUME NEW w \in Processes, Upsert(w) PROVE Shape'
    BY <1>13 DEF Upsert
<1>14. ASSUME NEW w \in Processes, Renew(w) PROVE Shape'
    BY <1>14 DEF Renew
<1>15. ASSUME NEW w \in Processes, Progress(w) PROVE Shape'
    BY <1>15 DEF Progress
<1>16. ASSUME NEW w \in Processes, WalkEnds(w) PROVE Shape'
    BY <1>16 DEF WalkEnds
<1>17. ASSUME NEW w \in Processes, Check(w) PROVE Shape'
    BY <1>17 DEF Check, Cancelled
<1>18. ASSUME NEW w \in Processes, Sweep(w) PROVE Shape'
    BY <1>18 DEF Sweep
<1>19. ASSUME NEW w \in Processes, Finish(w) PROVE Shape'
    BY <1>19 DEF Finish, Record
<1>20. ASSUME NEW w \in Processes, Audit(w) PROVE Shape'
    BY <1>20 DEF Audit
<1>21. ASSUME NEW w \in Processes, Crash(w) PROVE Shape'
    BY <1>21 DEF Crash
<1>22. ASSUME NEW p \in Paths, DiskChange(p) PROVE Shape'
    BY <1>22 DEF DiskChange, Abandoned
<1>23. CASE UNCHANGED vars
    BY <1>23 DEF vars
<1> QED
    BY <1>1, <1>2, <1>3, <1>4, <1>5, <1>6, <1>7, <1>8, <1>9, <1>10, <1>11, <1>12, <1>13,
       <1>14, <1>15, <1>16, <1>17, <1>18, <1>19, <1>20, <1>21, <1>22, <1>23
    DEF Next, Work

\* A file that appears below a missing root does so during the scan.
LEMMA MissedNext ==
    ASSUME Inv, Owns, MissedScope, [Next]_vars
    PROVE  MissedScope'
<1> USE ValueAssumption, ScopeAssumption DEF Inv, TypeOK, TableOK, MemoryOK, HistoryOK,
        InHand, Holding, OwnedUnfinished, Owns, MissedScope, Elusive, Root, Working, Scanning,
        Active,
        GoTo, Give, Leave, memory, walk, table, request, lease, history, world
<1>1. ASSUME NEW j \in Jobs, NEW scope \in Scopes, NEW cut \in BOOLEAN,
             Enqueue(j, scope, cut) PROVE MissedScope'
    BY <1>1 DEF Enqueue
<1>2. ASSUME NEW j \in Jobs, Cancel(j) PROVE MissedScope'
    BY <1>2 DEF Cancel
<1>3. ASSUME NEW j \in Jobs, LeaseLapses(j) PROVE MissedScope'
    BY <1>3 DEF LeaseLapses
<1>4. ASSUME NEW w \in Processes, Start(w) PROVE MissedScope'
    BY <1>4 DEF Start
<1>5. ASSUME NEW w \in Processes, NEW j \in Jobs, Claim(w, j) PROVE MissedScope'
    BY <1>5 DEF Claim, Claimable
<1>6. ASSUME NEW w \in Processes, RefuseRoot(w) PROVE MissedScope'
    BY <1>6 DEF RefuseRoot
<1>7. ASSUME NEW w \in Processes, MissingRoot(w) PROVE MissedScope'
    BY <1>7 DEF MissingRoot
<1>8. ASSUME NEW w \in Processes, WalkRoot(w) PROVE MissedScope'
    BY <1>8 DEF WalkRoot
<1>9. ASSUME NEW w \in Processes, FileRoot(w) PROVE MissedScope'
    BY <1>9 DEF FileRoot
<1>10. ASSUME NEW w \in Processes, OddRoot(w) PROVE MissedScope'
    BY <1>10 DEF OddRoot
<1>11. ASSUME NEW w \in Processes, Clear(w) PROVE MissedScope'
    BY <1>11 DEF Clear
<1>12. ASSUME NEW w \in Processes, NEW p \in Paths, Visit(w, p) PROVE MissedScope'
    BY <1>12 DEF Visit
<1>13. ASSUME NEW w \in Processes, Upsert(w) PROVE MissedScope'
    BY <1>13 DEF Upsert
<1>14. ASSUME NEW w \in Processes, Renew(w) PROVE MissedScope'
    BY <1>14 DEF Renew
<1>15. ASSUME NEW w \in Processes, Progress(w) PROVE MissedScope'
    BY <1>15 DEF Progress
<1>16. ASSUME NEW w \in Processes, WalkEnds(w) PROVE MissedScope'
    BY <1>16 DEF WalkEnds
<1>17. ASSUME NEW w \in Processes, Check(w) PROVE MissedScope'
    BY <1>17 DEF Check, Cancelled
<1>18. ASSUME NEW w \in Processes, Sweep(w) PROVE MissedScope'
    BY <1>18 DEF Sweep
<1>19. ASSUME NEW w \in Processes, Finish(w) PROVE MissedScope'
    BY <1>19 DEF Finish, Record
<1>20. ASSUME NEW w \in Processes, Audit(w) PROVE MissedScope'
    BY <1>20 DEF Audit
<1>21. ASSUME NEW w \in Processes, Crash(w) PROVE MissedScope'
    BY <1>21 DEF Crash
<1>22. ASSUME NEW p \in Paths, DiskChange(p) PROVE MissedScope'
    BY <1>22 DEF DiskChange, Abandoned
<1>23. CASE UNCHANGED vars
    BY <1>23 DEF vars
<1> QED
    BY <1>1, <1>2, <1>3, <1>4, <1>5, <1>6, <1>7, <1>8, <1>9, <1>10, <1>11, <1>12, <1>13,
       <1>14, <1>15, <1>16, <1>17, <1>18, <1>19, <1>20, <1>21, <1>22, <1>23
    DEF Next, Work

\* A walk drops a file only as absent or by giving up completeness; a batch is
\* dropped only by stamping it; nobody else removes a stamp.
LEMMA SkippedNext ==
    ASSUME Inv, OneAlive, Owns, Shape, NothingSkipped, [Next]_vars
    PROVE  NothingSkipped'
<1> USE ValueAssumption, ScopeAssumption DEF Inv, TypeOK, TableOK, MemoryOK, HistoryOK,
        InHand, Holding, OwnedUnfinished, OneAlive, Alive, Owns, Shape, NothingSkipped,
        Accounted, Elusive, Root, Working, Scanning, Active,
        GoTo, Give, Leave, memory, walk, table, request, lease, history, world
<1>1. ASSUME NEW j \in Jobs, NEW scope \in Scopes, NEW cut \in BOOLEAN,
             Enqueue(j, scope, cut) PROVE NothingSkipped'
    BY <1>1 DEF Enqueue
<1>2. ASSUME NEW j \in Jobs, Cancel(j) PROVE NothingSkipped'
    BY <1>2 DEF Cancel
<1>3. ASSUME NEW j \in Jobs, LeaseLapses(j) PROVE NothingSkipped'
    BY <1>3 DEF LeaseLapses
<1>4. ASSUME NEW w \in Processes, Start(w) PROVE NothingSkipped'
    BY <1>4 DEF Start
<1>5. ASSUME NEW w \in Processes, NEW j \in Jobs, Claim(w, j) PROVE NothingSkipped'
    BY <1>5 DEF Claim, Claimable
<1>6. ASSUME NEW w \in Processes, RefuseRoot(w) PROVE NothingSkipped'
    BY <1>6 DEF RefuseRoot
<1>7. ASSUME NEW w \in Processes, MissingRoot(w) PROVE NothingSkipped'
    BY <1>7 DEF MissingRoot
<1>8. ASSUME NEW w \in Processes, WalkRoot(w) PROVE NothingSkipped'
    BY <1>8 DEF WalkRoot, Reach
<1>9. ASSUME NEW w \in Processes, FileRoot(w) PROVE NothingSkipped'
    BY <1>9 DEF FileRoot
<1>10. ASSUME NEW w \in Processes, OddRoot(w) PROVE NothingSkipped'
    BY <1>10 DEF OddRoot
<1>11. ASSUME NEW w \in Processes, Clear(w) PROVE NothingSkipped'
    BY <1>11 DEF Clear
<1>12. ASSUME NEW w \in Processes, NEW p \in Paths, Visit(w, p) PROVE NothingSkipped'
    BY <1>12 DEF Visit
<1>13. ASSUME NEW w \in Processes, Upsert(w) PROVE NothingSkipped'
    BY <1>13 DEF Upsert
<1>14. ASSUME NEW w \in Processes, Renew(w) PROVE NothingSkipped'
    BY <1>14 DEF Renew
<1>15. ASSUME NEW w \in Processes, Progress(w) PROVE NothingSkipped'
    BY <1>15 DEF Progress
<1>16. ASSUME NEW w \in Processes, WalkEnds(w) PROVE NothingSkipped'
    BY <1>16 DEF WalkEnds
<1>17. ASSUME NEW w \in Processes, Check(w) PROVE NothingSkipped'
    BY <1>17 DEF Check, Cancelled
<1>18. ASSUME NEW w \in Processes, Sweep(w) PROVE NothingSkipped'
    BY <1>18 DEF Sweep
<1>19. ASSUME NEW w \in Processes, Finish(w) PROVE NothingSkipped'
    BY <1>19 DEF Finish, Record
<1>20. ASSUME NEW w \in Processes, Audit(w) PROVE NothingSkipped'
    BY <1>20 DEF Audit
<1>21. ASSUME NEW w \in Processes, Crash(w) PROVE NothingSkipped'
    BY <1>21 DEF Crash
<1>22. ASSUME NEW p \in Paths, DiskChange(p) PROVE NothingSkipped'
    BY <1>22 DEF DiskChange, Abandoned
<1>23. CASE UNCHANGED vars
    BY <1>23 DEF vars
<1> QED
    BY <1>1, <1>2, <1>3, <1>4, <1>5, <1>6, <1>7, <1>8, <1>9, <1>10, <1>11, <1>12, <1>13,
       <1>14, <1>15, <1>16, <1>17, <1>18, <1>19, <1>20, <1>21, <1>22, <1>23
    DEF Next, Work

------------------------------------------------------------------------------
\* What a stamp means.

\* The files a process took were there when it saw them, and what changed during
\* its scan changed since the job was first taken.
TakenFromDisk ==
    \A w \in Processes : at[w] \in Working =>
        /\ churn[w] \subseteq moved[task[w]]
        /\ batch[w] \subseteq disk \cup churn[w]

\* j is running, or a process still works on it.
Underway(j) == status[j] = "running" \/ \E w \in Processes : task[w] = j /\ at[w] \in Working

\* A row stamped by a job under way has its file, unless the file came or went
\* since the job was first taken; a job not yet taken has stamped nothing.
StampsTrue ==
    \A p \in Paths, j \in Jobs : catalog[p] = j =>
        /\ status[j] \notin {"absent", "pending"}
        /\ Underway(j) => p \in disk \cup moved[j]

\* A file taken into a batch was there, and may have gone during the scan since.
LEMMA TakenNext ==
    ASSUME Inv, OneAlive, Owns, Shape, TakenFromDisk, [Next]_vars
    PROVE  TakenFromDisk'
<1> USE ValueAssumption, ScopeAssumption DEF Inv, TypeOK, TableOK, MemoryOK, HistoryOK,
        InHand, Holding, OwnedUnfinished, OneAlive, Alive, Owns, Shape, TakenFromDisk, Root,
        Working, Scanning, Active,
        GoTo, Give, Leave, memory, walk, table, request, lease, history, world
<1>1. ASSUME NEW j \in Jobs, NEW scope \in Scopes, NEW cut \in BOOLEAN,
             Enqueue(j, scope, cut) PROVE TakenFromDisk'
    BY <1>1 DEF Enqueue
<1>2. ASSUME NEW j \in Jobs, Cancel(j) PROVE TakenFromDisk'
    BY <1>2 DEF Cancel
<1>3. ASSUME NEW j \in Jobs, LeaseLapses(j) PROVE TakenFromDisk'
    BY <1>3 DEF LeaseLapses
<1>4. ASSUME NEW w \in Processes, Start(w) PROVE TakenFromDisk'
    BY <1>4 DEF Start
<1>5. ASSUME NEW w \in Processes, NEW j \in Jobs, Claim(w, j) PROVE TakenFromDisk'
    BY <1>5 DEF Claim, Claimable
<1>6. ASSUME NEW w \in Processes, RefuseRoot(w) PROVE TakenFromDisk'
    BY <1>6 DEF RefuseRoot
<1>7. ASSUME NEW w \in Processes, MissingRoot(w) PROVE TakenFromDisk'
    BY <1>7 DEF MissingRoot
<1>8. ASSUME NEW w \in Processes, WalkRoot(w) PROVE TakenFromDisk'
    BY <1>8 DEF WalkRoot
<1>9. ASSUME NEW w \in Processes, FileRoot(w) PROVE TakenFromDisk'
    BY <1>9 DEF FileRoot
<1>10. ASSUME NEW w \in Processes, OddRoot(w) PROVE TakenFromDisk'
    BY <1>10 DEF OddRoot
<1>11. ASSUME NEW w \in Processes, Clear(w) PROVE TakenFromDisk'
    BY <1>11 DEF Clear
<1>12. ASSUME NEW w \in Processes, NEW p \in Paths, Visit(w, p) PROVE TakenFromDisk'
    BY <1>12 DEF Visit
<1>13. ASSUME NEW w \in Processes, Upsert(w) PROVE TakenFromDisk'
    BY <1>13 DEF Upsert
<1>14. ASSUME NEW w \in Processes, Renew(w) PROVE TakenFromDisk'
    BY <1>14 DEF Renew
<1>15. ASSUME NEW w \in Processes, Progress(w) PROVE TakenFromDisk'
    BY <1>15 DEF Progress
<1>16. ASSUME NEW w \in Processes, WalkEnds(w) PROVE TakenFromDisk'
    BY <1>16 DEF WalkEnds
<1>17. ASSUME NEW w \in Processes, Check(w) PROVE TakenFromDisk'
    BY <1>17 DEF Check, Cancelled
<1>18. ASSUME NEW w \in Processes, Sweep(w) PROVE TakenFromDisk'
    BY <1>18 DEF Sweep
<1>19. ASSUME NEW w \in Processes, Finish(w) PROVE TakenFromDisk'
    BY <1>19 DEF Finish, Record
<1>20. ASSUME NEW w \in Processes, Audit(w) PROVE TakenFromDisk'
    BY <1>20 DEF Audit
<1>21. ASSUME NEW w \in Processes, Crash(w) PROVE TakenFromDisk'
    BY <1>21 DEF Crash
<1>22. ASSUME NEW p \in Paths, DiskChange(p) PROVE TakenFromDisk'
    BY <1>22 DEF DiskChange, Abandoned
<1>23. CASE UNCHANGED vars
    BY <1>23 DEF vars
<1> QED
    BY <1>1, <1>2, <1>3, <1>4, <1>5, <1>6, <1>7, <1>8, <1>9, <1>10, <1>11, <1>12, <1>13,
       <1>14, <1>15, <1>16, <1>17, <1>18, <1>19, <1>20, <1>21, <1>22, <1>23
    DEF Next, Work

\* A stamp comes from a batch of the one process at work, and a settled or
\* cancelled job that nobody works on is not taken again.
LEMMA StampsNext ==
    ASSUME Inv, OneAlive, Owns, TakenFromDisk, StampsTrue, [Next]_vars
    PROVE  StampsTrue'
<1> USE ValueAssumption, ScopeAssumption DEF Inv, TypeOK, TableOK, MemoryOK, HistoryOK,
        InHand, Holding, OwnedUnfinished, OneAlive, Alive, Owns, TakenFromDisk, StampsTrue,
        Underway, Results, Root, Working, Scanning, Active,
        GoTo, Give, Leave, memory, walk, table, request, lease, history, world
<1>1. ASSUME NEW j \in Jobs, NEW scope \in Scopes, NEW cut \in BOOLEAN,
             Enqueue(j, scope, cut) PROVE StampsTrue'
    BY <1>1 DEF Enqueue
<1>2. ASSUME NEW j \in Jobs, Cancel(j) PROVE StampsTrue'
    BY <1>2 DEF Cancel
<1>3. ASSUME NEW j \in Jobs, LeaseLapses(j) PROVE StampsTrue'
    BY <1>3 DEF LeaseLapses
<1>4. ASSUME NEW w \in Processes, Start(w) PROVE StampsTrue'
    BY <1>4 DEF Start
<1>5. ASSUME NEW w \in Processes, NEW j \in Jobs, Claim(w, j) PROVE StampsTrue'
    BY <1>5 DEF Claim, Claimable
<1>6. ASSUME NEW w \in Processes, RefuseRoot(w) PROVE StampsTrue'
    BY <1>6 DEF RefuseRoot
<1>7. ASSUME NEW w \in Processes, MissingRoot(w) PROVE StampsTrue'
    BY <1>7 DEF MissingRoot
<1>8. ASSUME NEW w \in Processes, WalkRoot(w) PROVE StampsTrue'
    BY <1>8 DEF WalkRoot
<1>9. ASSUME NEW w \in Processes, FileRoot(w) PROVE StampsTrue'
    BY <1>9 DEF FileRoot
<1>10. ASSUME NEW w \in Processes, OddRoot(w) PROVE StampsTrue'
    BY <1>10 DEF OddRoot
<1>11. ASSUME NEW w \in Processes, Clear(w) PROVE StampsTrue'
    BY <1>11 DEF Clear
<1>12. ASSUME NEW w \in Processes, NEW p \in Paths, Visit(w, p) PROVE StampsTrue'
    BY <1>12 DEF Visit
<1>13. ASSUME NEW w \in Processes, Upsert(w) PROVE StampsTrue'
  <2> SUFFICES ASSUME NEW p \in Paths, NEW j \in Jobs, catalog'[p] = j
               PROVE  /\ status'[j] \notin {"absent", "pending"}
                      /\ Underway(j)' => p \in disk' \cup moved'[j]
    OBVIOUS
  <2>1. UNCHANGED <<status, disk, moved>> /\ (Underway(j)' => Underway(j))
    BY <1>13 DEF Upsert
  <2>2. CASE catalog[p] = j
    BY <2>1, <2>2
  <2>3. CASE catalog[p] # j
    <3>1. j = task[w] /\ p \in batch[w]
      BY <1>13, <2>3 DEF Upsert
    <3>2. status[j] \notin {"absent", "pending"} /\ p \in disk \cup moved[j]
      BY <1>13, <3>1 DEF Upsert
    <3> QED
      BY <2>1, <3>2
  <2> QED
    BY <2>2, <2>3
<1>14. ASSUME NEW w \in Processes, Renew(w) PROVE StampsTrue'
    BY <1>14 DEF Renew
<1>15. ASSUME NEW w \in Processes, Progress(w) PROVE StampsTrue'
    BY <1>15 DEF Progress
<1>16. ASSUME NEW w \in Processes, WalkEnds(w) PROVE StampsTrue'
    BY <1>16 DEF WalkEnds
<1>17. ASSUME NEW w \in Processes, Check(w) PROVE StampsTrue'
    BY <1>17 DEF Check, Cancelled
<1>18. ASSUME NEW w \in Processes, Sweep(w) PROVE StampsTrue'
    BY <1>18 DEF Sweep
<1>19. ASSUME NEW w \in Processes, Finish(w) PROVE StampsTrue'
  <2> SUFFICES ASSUME NEW p \in Paths, NEW j \in Jobs, catalog'[p] = j
               PROVE  /\ status'[j] \notin {"absent", "pending"}
                      /\ Underway(j)' => p \in disk' \cup moved'[j]
    OBVIOUS
  <2>1. UNCHANGED <<catalog, disk>> /\ task[w] \in Jobs /\ verdict[w] \in Results
    BY <1>19 DEF Finish
  <2>2. owner[task[w]] = w /\ \A v \in Processes : at[v] \in Working => v = w
    BY <1>19 DEF Finish
  <2>3. at'[w] \notin Working /\ \A v \in Processes \ {w} : at'[v] = at[v] /\ task'[v] = task[v]
    BY <1>19 DEF Finish
  <2>4. \A v \in Processes : at'[v] \notin Working
    BY <2>2, <2>3
  <2>5. CASE j # task[w]
    <3>1. status'[j] = status[j] /\ moved'[j] = moved[j]
      BY <1>19, <2>1, <2>5 DEF Finish, Record
    <3> QED
      BY <2>1, <2>4, <3>1
  <2>6. CASE j = task[w] /\ Record(w)
    <3>1. status'[j] = verdict[w]
      BY <2>1, <2>2, <2>6 DEF Record
    <3> QED
      BY <2>1, <2>4, <3>1
  <2>7. CASE j = task[w] /\ ~ Record(w)
    <3>1. UNCHANGED <<status, moved>> /\ Underway(j)
      BY <1>19, <2>1, <2>7 DEF Finish
    <3> QED
      BY <2>1, <3>1
  <2> QED
    BY <2>5, <2>6, <2>7
<1>20. ASSUME NEW w \in Processes, Audit(w) PROVE StampsTrue'
    BY <1>20 DEF Audit
<1>21. ASSUME NEW w \in Processes, Crash(w) PROVE StampsTrue'
    BY <1>21 DEF Crash
<1>22. ASSUME NEW p \in Paths, DiskChange(p) PROVE StampsTrue'
    BY <1>22 DEF DiskChange, Abandoned
<1>23. CASE UNCHANGED vars
    BY <1>23 DEF vars
<1> HIDE DEF Inv, StampsTrue
<1> QED
    BY <1>1, <1>2, <1>3, <1>4, <1>5, <1>6, <1>7, <1>8, <1>9, <1>10, <1>11, <1>12, <1>13,
       <1>14, <1>15, <1>16, <1>17, <1>18, <1>19, <1>20, <1>21, <1>22, <1>23
    DEF Next, Work

\* A deletion that succeeds leaves stamped rows only, and those have their files.
LEMMA ReconciledNext ==
    ASSUME Inv, OneAlive, Owns, Shape, MissedScope, NothingSkipped, TakenFromDisk, StampsTrue,
        Reconciled, [Next]_vars
    PROVE  Reconciled'
<1> USE ValueAssumption, ScopeAssumption DEF Inv, TypeOK, TableOK, MemoryOK, HistoryOK,
        InHand, Holding, OwnedUnfinished, OneAlive, Alive, Owns, Shape, MissedScope,
        NothingSkipped, Accounted, Elusive, TakenFromDisk, StampsTrue, Underway, Reconciled,
        JustReconciled, Root, Working, Scanning, Active,
        GoTo, Give, Leave, memory, walk, table, request, lease, history, world
<1>1. ASSUME NEW j \in Jobs, NEW scope \in Scopes, NEW cut \in BOOLEAN,
             Enqueue(j, scope, cut) PROVE Reconciled'
    BY <1>1 DEF Enqueue
<1>2. ASSUME NEW j \in Jobs, Cancel(j) PROVE Reconciled'
    BY <1>2 DEF Cancel
<1>3. ASSUME NEW j \in Jobs, LeaseLapses(j) PROVE Reconciled'
    BY <1>3 DEF LeaseLapses
<1>4. ASSUME NEW w \in Processes, Start(w) PROVE Reconciled'
    BY <1>4 DEF Start
<1>5. ASSUME NEW w \in Processes, NEW j \in Jobs, Claim(w, j) PROVE Reconciled'
    BY <1>5 DEF Claim, Claimable
<1>6. ASSUME NEW w \in Processes, RefuseRoot(w) PROVE Reconciled'
    BY <1>6 DEF RefuseRoot
<1>7. ASSUME NEW w \in Processes, MissingRoot(w) PROVE Reconciled'
    BY <1>7 DEF MissingRoot
<1>8. ASSUME NEW w \in Processes, WalkRoot(w) PROVE Reconciled'
    BY <1>8 DEF WalkRoot
<1>9. ASSUME NEW w \in Processes, FileRoot(w) PROVE Reconciled'
    BY <1>9 DEF FileRoot
<1>10. ASSUME NEW w \in Processes, OddRoot(w) PROVE Reconciled'
    BY <1>10 DEF OddRoot
<1>11. ASSUME NEW w \in Processes, Clear(w) PROVE Reconciled'
    BY <1>11 DEF Clear, InScope
<1>12. ASSUME NEW w \in Processes, NEW p \in Paths, Visit(w, p) PROVE Reconciled'
    BY <1>12 DEF Visit
<1>13. ASSUME NEW w \in Processes, Upsert(w) PROVE Reconciled'
    BY <1>13 DEF Upsert
<1>14. ASSUME NEW w \in Processes, Renew(w) PROVE Reconciled'
    BY <1>14 DEF Renew
<1>15. ASSUME NEW w \in Processes, Progress(w) PROVE Reconciled'
    BY <1>15 DEF Progress
<1>16. ASSUME NEW w \in Processes, WalkEnds(w) PROVE Reconciled'
    BY <1>16 DEF WalkEnds
<1>17. ASSUME NEW w \in Processes, Check(w) PROVE Reconciled'
    BY <1>17 DEF Check, Cancelled
<1>18. ASSUME NEW w \in Processes, Sweep(w) PROVE Reconciled'
    BY <1>18 DEF Sweep, InScope
<1>19. ASSUME NEW w \in Processes, Finish(w) PROVE Reconciled'
    BY <1>19 DEF Finish, Record
<1>20. ASSUME NEW w \in Processes, Audit(w) PROVE Reconciled'
    BY <1>20 DEF Audit
<1>21. ASSUME NEW w \in Processes, Crash(w) PROVE Reconciled'
    BY <1>21 DEF Crash
<1>22. ASSUME NEW p \in Paths, DiskChange(p) PROVE Reconciled'
    BY <1>22 DEF DiskChange, Abandoned
<1>23. CASE UNCHANGED vars
    BY <1>23 DEF vars
<1> QED
    BY <1>1, <1>2, <1>3, <1>4, <1>5, <1>6, <1>7, <1>8, <1>9, <1>10, <1>11, <1>12, <1>13,
       <1>14, <1>15, <1>16, <1>17, <1>18, <1>19, <1>20, <1>21, <1>22, <1>23
    DEF Next, Work

------------------------------------------------------------------------------
\* Theorems.

ScanInv ==
    /\ Solo /\ Shape /\ MissedScope /\ NothingSkipped
    /\ TakenFromDisk /\ StampsTrue /\ Reconciled

\* At first nothing is alive and no row is stamped.
LEMMA ScanInit == Init => ScanInv
    BY ValueAssumption, ScopeAssumption
    DEF Init, ScanInv, Solo, OneAlive, Owns, AuditsSuccess, AuditedSucceeded, Shape,
        MissedScope,
        NothingSkipped, TakenFromDisk, StampsTrue, Reconciled, JustReconciled,
        Alive, Working, Scanning, Holding

\* The conjuncts of the invariant are preserved together.
LEMMA ScanNext ==
    ASSUME ~ Overlap, Inv, ScanInv, [Next]_vars
    PROVE  ScanInv'
<1>1. OneAlive' /\ Owns'
    BY OneAliveNext, OwnsNext DEF ScanInv, Solo, Inv
<1>2. AuditsSuccess' /\ AuditedSucceeded'
    BY AuditsNext DEF ScanInv, Solo
<1>3. Shape' /\ MissedScope' /\ NothingSkipped'
    BY ShapeNext, MissedNext, SkippedNext DEF ScanInv, Solo
<1>4. TakenFromDisk' /\ StampsTrue'
    BY TakenNext, StampsNext DEF ScanInv, Solo
<1>5. Reconciled'
    BY ReconciledNext DEF ScanInv, Solo
<1> QED
    BY <1>1, <1>2, <1>3, <1>4, <1>5 DEF ScanInv, Solo

\* With one process alive at a time the invariant always holds.
LEMMA ScanInvariance == ASSUME ~ Overlap PROVE Spec => [](Inv /\ ScanInv)
<1>1. Init => Inv /\ ScanInv
    BY InvInit, ScanInit
<1>2. Inv /\ ScanInv /\ [Next]_vars => (Inv /\ ScanInv)'
    BY InvNext, ScanNext
<1> QED
    BY <1>1, <1>2, PTL DEF Spec

\* With one process alive at a time, the success of an unlimited and fully readable
\* scan leaves exactly the rows of the files of its scope, for every media tree, every
\* batch size and every number of crashes, except for files that came or went since the
\* job was first claimed.
THEOREM SuccessReconciles == ASSUME ~ Overlap PROVE Spec => []Reconciled
    BY ScanInvariance, PTL DEF ScanInv

\* With one process alive at a time, only a job that succeeded is audited.
THEOREM AuditsAreTrue == ASSUME ~ Overlap PROVE Spec => []AuditedSucceeded
    BY ScanInvariance, PTL DEF ScanInv, Solo

\* The DELETE of a scope selects the paths below it and no other: true of the SQL
\* pattern when the root has no wildcard character in its name.
ExactScopes == \A s \in Scopes : Matched[s] = Below[s]

\* With one process alive at a time and exact scopes, no row is deleted whose file the
\* scan could have seen: neither unreadable entries, nor limited walks, nor crashes
\* in the middle of a scan de-index a file that is there.
THEOREM LiveFilesKept ==
    ASSUME ~ Overlap, ExactScopes
    PROVE  Spec => OnlyAbsentFilesDeindexed
<1> DEFINE Kept == \A p \in Paths : (catalog[p] # Gone /\ catalog'[p] = Gone)
                       => \E w \in Processes : /\ at[w] \in {"clearing", "sweeping"}
                                               /\ p \in Below[Root(w)]
                                               /\ Elusive(w, p)
<1>1. ASSUME Inv, ScanInv, [Next]_vars PROVE [Kept]_vars
  <2> SUFFICES ASSUME NEW p \in Paths, catalog[p] # Gone, catalog'[p] = Gone
               PROVE  \E w \in Processes : /\ at[w] \in {"clearing", "sweeping"}
                                           /\ p \in Below[Root(w)]
                                           /\ Elusive(w, p)
    OBVIOUS
  <2>1. \E w \in Processes : Clear(w) \/ Upsert(w) \/ Sweep(w)
    BY <1>1 DEF Next, Work, vars, Enqueue, Cancel, LeaseLapses, Start, Claim, Claimable,
                RefuseRoot,
                MissingRoot, WalkRoot, FileRoot, OddRoot, Visit, Renew, Progress, WalkEnds,
                Check, Finish, Audit, Crash, DiskChange
  <2>2. PICK w \in Processes : Clear(w) \/ Upsert(w) \/ Sweep(w)
    BY <2>1
  <2>3. task[w] \in Jobs /\ Root(w) \in Scopes
    BY <1>1, <2>2 DEF Clear, Upsert, Sweep, Inv, InHand, Holding, Working, Scanning, Root,
                      TypeOK, TableOK
  <2>4. CASE Clear(w)
    <3>1. at[w] = "clearing" /\ p \in Below[Root(w)]
      BY <2>3, <2>4 DEF Clear, InScope, ExactScopes
    <3> QED
      BY <1>1, <3>1 DEF ScanInv, MissedScope
  <2>5. CASE Sweep(w)
    <3>1. at[w] = "sweeping" /\ p \in Below[Root(w)] /\ catalog[p] # task[w]
      BY <2>3, <2>5 DEF Sweep, InScope, ExactScopes
    <3>2. todo[w] = {} /\ batch[w] = {} /\ whole[w] /\ ~ limited[task[w]]
      BY <1>1, <3>1 DEF ScanInv, Shape
    <3> QED
      BY <1>1, <3>1, <3>2 DEF ScanInv, NothingSkipped, Accounted, Scanning
  <2>6. ~ Upsert(w)
    BY <2>3, ValueAssumption DEF Upsert
  <2> QED
    BY <2>2, <2>4, <2>5, <2>6
<1> QED
    BY <1>1, ScanInvariance, PTL DEF Spec, OnlyAbsentFilesDeindexed

==============================================================================
