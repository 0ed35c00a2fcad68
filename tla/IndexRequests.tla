---------------------------- MODULE IndexRequests ----------------------------
(***************************************************************************)
(* Those who ask for index jobs and watch them: the browsers, where app.js *)
(* queues a job for every folder that is opened, and the helper            *)
(* index_all.py, which asks for the whole tree.  The API answers a request *)
(* with a new job, or, while another job is active, with that one.  What   *)
(* the worker does to a job is what JobTable says of it.                   *)
(*                                                                         *)
(* A request is a pair of the one who asks and the scope.  An action of    *)
(* the API is one statement; an answer is received some time after it.     *)
(***************************************************************************)
EXTENDS Naturals

CONSTANTS
    Browsers,   \* pages of administrators, with their state in memory
    Helpers,    \* runs of index_all.py
    Jobs,       \* ids of index_job rows
    Scopes,     \* the values root_path takes
    Top,        \* root_path = '', the whole media tree
    NoJob,      \* no answer yet
    MaxFaults   \* bound: requests and polls that fail on their way

ASSUME RequestAssumption ==
    /\ Top \in Scopes /\ NoJob \notin Jobs
    /\ Browsers \cap Helpers = {}
    /\ MaxFaults \in Nat

VARIABLES
    status, root, \* the columns of index_job that matter here
    stage,    \* how far each request has come
    answer,   \* the job each request was answered with
    indexed,  \* state.indexedFolders of each browser
    watched,  \* state.indexJobs of each browser
    loops,    \* the calls of watchIndexJob that are running
    shown,    \* the result each browser, or helper, last showed of each job
    faults    \* requests and polls that failed so far

Clients == Browsers \cup Helpers
Requests == (Browsers \X Scopes) \cup (Helpers \X {Top})

\* Memory of the page; a helper keeps only its request.
page == <<indexed, watched, loops>>
table == <<status, root>>
vars == <<table, stage, answer, page, shown, faults>>

Table == INSTANCE JobTable

Active == {"pending", "running"}

Init ==
    /\ Table!Init
    /\ root = [j \in Jobs |-> Top]
    /\ stage = [r \in Requests |-> "none"]
    /\ answer = [r \in Requests |-> NoJob]
    /\ indexed = [b \in Browsers |-> {}]
    /\ watched = [b \in Browsers |-> {}]
    /\ loops = [l \in Browsers \X Jobs |-> 0]
    /\ shown = [l \in Clients \X Jobs |-> "nothing"]
    /\ faults = 0

\* A connection breaks, or the database refuses a statement.
Fault == faults < MaxFaults /\ faults' = faults + 1

GoTo(r, step) == stage' = [stage EXCEPT ![r] = step]

------------------------------------------------------------------------------
\* The API: createJob, enqueueTree and enqueueJob.

\* The INSERT creates a job.
Insert(r, j) ==
    /\ stage[r] = "posted"
    /\ Table!Submit(j)
    /\ root' = [root EXCEPT ![j] = r[2]]
    /\ answer' = [answer EXCEPT ![r] = j]
    /\ GoTo(r, "answered")
    /\ UNCHANGED <<page, shown, faults>>

\* The INSERT violates index_job_active_unique.
Conflict(r) ==
    /\ stage[r] = "posted"
    /\ \E j \in Jobs : status[j] \in Active
    /\ GoTo(r, "conflicted")
    /\ UNCHANGED <<table, answer, page, shown, faults>>

\* activeJob, a statement of its own, finds the active job, or none any more.
ReadActive(r) ==
    /\ stage[r] = "conflicted"
    /\ \/ \E j \in Jobs : /\ status[j] \in Active
                          /\ answer' = [answer EXCEPT ![r] = j]
                          /\ GoTo(r, "answered")
       \/ /\ \A j \in Jobs : status[j] \notin Active
          /\ GoTo(r, "refused")
          /\ UNCHANGED answer
    /\ UNCHANGED <<table, page, shown, faults>>

\* The request or its answer is lost; a job may have been created all the same.
Lose(r) ==
    /\ stage[r] \in {"posted", "conflicted", "answered"}
    /\ Fault
    /\ GoTo(r, "refused")
    /\ UNCHANGED <<table, answer, page, shown>>

------------------------------------------------------------------------------
\* A browser: queueFolderIndex and watchIndexJob.

\* A folder is opened for the first time.
Open(b, s) ==
    /\ s \notin indexed[b]
    /\ stage[<<b, s>>] = "none"
    /\ indexed' = [indexed EXCEPT ![b] = @ \cup {s}]
    /\ answer' = [answer EXCEPT ![<<b, s>>] = NoJob]
    /\ GoTo(<<b, s>>, "posted")
    /\ UNCHANGED <<table, watched, loops, shown, faults>>

\* Bug: the page does not look whether it watches the job already.
ReceiveAlways(b, s) ==
    LET j == answer[<<b, s>>] IN
    /\ stage[<<b, s>>] = "answered"
    /\ GoTo(<<b, s>>, "none")
    /\ watched' = [watched EXCEPT ![b] = @ \cup {j}]
    /\ loops' = [loops EXCEPT ![<<b, j>>] = @ + 1]
    /\ UNCHANGED <<table, answer, indexed, shown, faults>>

\* The answer arrives; a job that is not watched yet gets a loop.
Receive(b, s) ==
    LET j == answer[<<b, s>>] IN
    /\ stage[<<b, s>>] = "answered"
    /\ GoTo(<<b, s>>, "none")
    /\ IF j \in watched[b]
       THEN UNCHANGED <<watched, loops>>
       ELSE /\ watched' = [watched EXCEPT ![b] = @ \cup {j}]
            /\ loops' = [loops EXCEPT ![<<b, j>>] = @ + 1]
    /\ UNCHANGED <<table, answer, indexed, shown, faults>>

\* The folder may be queued again.
Reject(b, s) ==
    /\ stage[<<b, s>>] = "refused"
    /\ GoTo(<<b, s>>, "none")
    /\ indexed' = [indexed EXCEPT ![b] = @ \ {s}]
    /\ UNCHANGED <<table, answer, watched, loops, shown, faults>>

\* The loop of j ends.
Unwatch(b, j) ==
    /\ watched' = [watched EXCEPT ![b] = @ \ {j}]
    /\ loops' = [loops EXCEPT ![<<b, j>>] = @ - 1]

\* Bug: every status but "running" counts as a result.
SettledStatus(j) == status[j] # "running"

\* Bug: a cancelled job is polled on.
SettledResult(j) == status[j] \in {"succeeded", "failed"}

\* The loop goes on while the job is pending or running.
Settled(j) == status[j] \notin Active

Poll(b, j) ==
    /\ loops[<<b, j>>] > 0
    /\ Settled(j)
    /\ shown' = [shown EXCEPT ![<<b, j>>] = status[j]]
    /\ Unwatch(b, j)
    /\ UNCHANGED <<table, stage, answer, indexed, faults>>

PollFails(b, j) ==
    /\ loops[<<b, j>>] > 0
    /\ Fault
    /\ Unwatch(b, j)
    /\ UNCHANGED <<table, stage, answer, indexed, shown>>

------------------------------------------------------------------------------
\* The helper: main of index_all.py.

Ask(h) ==
    /\ stage[<<h, Top>>] = "none"
    /\ GoTo(<<h, Top>>, "posted")
    /\ UNCHANGED <<table, answer, page, shown, faults>>

\* The loop of main ends, and the job is printed.
Report(h) ==
    LET j == answer[<<h, Top>>] IN
    /\ stage[<<h, Top>>] = "answered"
    /\ Settled(j)
    /\ shown' = [shown EXCEPT ![<<h, j>>] = status[j]]
    /\ GoTo(<<h, Top>>, "ended")
    /\ UNCHANGED <<table, answer, page, faults>>

------------------------------------------------------------------------------
\* cancelJob, and the worker.

Cancel(j) ==
    /\ Table!Withdraw(j)
    /\ UNCHANGED <<root, stage, answer, page, shown, faults>>

Run(j) ==
    /\ Table!Take(j) \/ Table!Settle(j)
    /\ UNCHANGED <<root, stage, answer, page, shown, faults>>

Api(r) == (\E j \in Jobs : Insert(r, j)) \/ Conflict(r) \/ ReadActive(r)

Next ==
    \/ \E r \in Requests : Api(r) \/ Lose(r)
    \/ \E b \in Browsers, s \in Scopes : Open(b, s) \/ Receive(b, s) \/ Reject(b, s)
    \/ \E b \in Browsers, j \in Jobs : Poll(b, j) \/ PollFails(b, j)
    \/ \E h \in Helpers : Ask(h) \/ Report(h)
    \/ \E j \in Jobs : Cancel(j) \/ Run(j)

Spec == Init /\ [][Next]_vars

\* Requests are served, answers arrive, loops go on, and the worker settles what is
\* queued or running.
Fairness ==
    /\ \A r \in Requests : WF_vars(Api(r))
    /\ \A b \in Browsers, s \in Scopes : WF_vars(Receive(b, s) \/ Reject(b, s))
    /\ \A b \in Browsers, j \in Jobs : WF_vars(Poll(b, j))
    /\ \A h \in Helpers : WF_vars(Report(h))
    /\ \A j \in Jobs : WF_vars(status[j] \in Active /\ Run(j) /\ status'[j] # status[j])

FairSpec == Spec /\ Fairness

------------------------------------------------------------------------------
\* Properties.

\* The rows, the requests and the pages have the shape their variables allow.
TypeOK ==
    /\ Table!TypeOK
    /\ root \in [Jobs -> Scopes]
    /\ stage \in [Requests ->
           {"none", "posted", "conflicted", "answered", "refused", "ended"}]
    /\ answer \in [Requests -> Jobs \cup {NoJob}]
    /\ indexed \in [Browsers -> SUBSET Scopes]
    /\ watched \in [Browsers -> SUBSET Jobs]
    /\ loops \in [Browsers \X Jobs -> Nat]
    /\ shown \in [Clients \X Jobs -> {"nothing"} \cup Table!Results]
    /\ faults \in 0 .. MaxFaults

\* A page polls a job in one loop at a time, although several folders may be answered
\* with the same job and an answer may arrive after the job has settled
\* (queueFolderIndex, watchIndexJob).
OneLoopPerJob ==
    \A b \in Browsers, j \in Jobs :
        loops[<<b, j>>] = IF j \in watched[b] THEN 1 ELSE 0

\* A success or a failure that was shown to someone is what the table says ever after
\* (watchIndexJob, main of index_all.py, finish).
ShownResultsHold ==
    \A c \in Clients, j \in Jobs :
        shown[<<c, j>>] \in {"succeeded", "failed"} => status[j] = shown[<<c, j>>]

\* Every job that a page watches is settled one day, and the page stops polling it.
LoopsEnd ==
    \A b \in Browsers, j \in Jobs : j \in watched[b] ~> j \notin watched[b]

\* When the helper reports success, the job that succeeded was one of the whole tree.
HelperIndexedAll ==
    \A h \in Helpers, j \in Jobs :
        shown[<<h, j>>] = "succeeded" => root[j] = Top
==============================================================================
