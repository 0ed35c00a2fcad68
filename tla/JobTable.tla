------------------------------- MODULE JobTable -------------------------------
(***************************************************************************)
(* What the index_job table promises to those who queue and watch jobs:    *)
(* at most one job is queued or running, a job is taken before it gets a   *)
(* result, and a success or a failure is final.  A cancellation is not: the*)
(* process that has the job in hand may still record a result over it.     *)
(***************************************************************************)
CONSTANT Jobs

VARIABLE status

Active == {"pending", "running"}
Results == {"succeeded", "failed", "cancelled"}

Init == status = [j \in Jobs |-> "absent"]

\* enqueueJob, held back by index_job_active_unique
Submit(j) ==
    /\ status[j] = "absent"
    /\ \A k \in Jobs : status[k] \notin Active
    /\ status' = [status EXCEPT ![j] = "pending"]

\* cancelJob
Withdraw(j) ==
    /\ status[j] \in Active
    /\ status' = [status EXCEPT ![j] = "cancelled"]

\* claim, of a queued job or of a running job whose lease lapsed
Take(j) ==
    /\ status[j] \in Active
    /\ status' = [status EXCEPT ![j] = "running"]

\* Bug: a job that has a result gets another one.
SettleAgain(j) ==
    /\ status[j] \notin {"absent", "pending"}
    /\ \E result \in Results : status' = [status EXCEPT ![j] = result]

\* finish, by the process that has the job in hand
Settle(j) ==
    /\ status[j] \in {"running", "cancelled"}
    /\ \E result \in Results : status' = [status EXCEPT ![j] = result]

Next == \E j \in Jobs : Submit(j) \/ Withdraw(j) \/ Take(j) \/ Settle(j)

Spec == Init /\ [][Next]_status

\* Every job has a status of the table's CHECK constraint, or is not there yet.
TypeOK == status \in [Jobs -> {"absent"} \cup Active \cup Results]
===============================================================================
