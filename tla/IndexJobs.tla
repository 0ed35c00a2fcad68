------------------------------ MODULE IndexJobs ------------------------------
(***************************************************************************)
(* The durable index jobs of src/index_worker and the part of the API that *)
(* creates and cancels them.  index_job rows live in PostgreSQL; a worker  *)
(* process claims one, walks the media tree in batches, stamps the rows of *)
(* the image table with the job's id, and at the end deletes the rows of   *)
(* the scanned scope that do not carry its stamp.                          *)
(*                                                                         *)
(* One action is one database statement (or one transaction) or one        *)
(* look at the file system.  The file system changes at any time, leases   *)
(* lapse at any time, processes crash, and the database can refuse a       *)
(* statement MaxFaults times.                                              *)
(***************************************************************************)
EXTENDS Naturals, FiniteSets

CONSTANTS
    Processes,  \* worker identities; a restarted process draws a new one
    Jobs,       \* ids of index_job rows
    Paths,      \* safe paths of regular, supported media files
    Scopes,     \* the values root_path takes
    Top,        \* root_path = '', the whole media tree
    Files,      \* the scopes that name one media file, not a directory
    Below,      \* Below[s]: the paths inside scope s
    Matched,    \* Matched[s]: the paths the scope predicate of a DELETE selects
    Shallow,    \* Shallow[s]: the paths of s a depth-limited walk reaches
    Videos,     \* the paths whose stamp is followed by a lease renewal
    BatchSize,  \* INDEX_BATCH_SIZE
    Overlap,    \* may two worker processes be alive at the same time?
    MaxFaults,  \* bound: statements the database refuses
    MaxChanges, \* bound: media files that appear or disappear
    Nobody,     \* a NULL worker_id, and the job of an idle process
    Gone,       \* the path has no image row
    Unstamped   \* the path has an image row whose last_index_job is NULL

ASSUME ScopeAssumption ==
    /\ Top \in Scopes /\ Files \subseteq Scopes \ {Top}
    /\ Below \in [Scopes -> SUBSET Paths]
    /\ Matched \in [Scopes -> SUBSET Paths]
    /\ Shallow \in [Scopes -> SUBSET Paths]
    /\ \A s \in Scopes : Shallow[s] \subseteq Below[s] /\ Below[s] \subseteq Matched[s]
    /\ Videos \subseteq Paths

ASSUME ValueAssumption ==
    /\ Nobody \notin Processes \cup Jobs
    /\ Gone \notin Jobs /\ Unstamped \notin Jobs /\ Gone # Unstamped
    /\ BatchSize \in Nat \ {0} /\ Overlap \in BOOLEAN
    /\ MaxFaults \in Nat /\ MaxChanges \in Nat

VARIABLES
    \* The columns of the index_job table; a row is absent until it is inserted.
    status, owner, lapsed, root, limited,
    \* What a worker process holds in memory: its program point, the job in hand,
    \* the paths not yet walked, the batch of files not yet written, the videos
    \* whose lease renewal is due, the flag complete, and the result for finish.
    at, task, todo, batch, clips, whole, verdict,
    catalog,  \* the image table: per path Gone, Unstamped or the stamping job
    audited,  \* the jobs with an 'index_tree' audit event
    disk,     \* the media files that exist
    \* History: the paths whose presence changed since a process took its job
    \* (churn), and since a job was first taken until it is settled (moved).
    churn, moved,
    faults,   \* statements refused so far
    changes   \* changes of the disk so far

lease == <<owner, lapsed>>
request == <<root, limited>>
table == <<status, lease, request>>
walk == <<todo, batch, clips, whole>>
memory == <<at, task, walk, verdict>>
history == <<churn, moved>>
world == <<disk, changes>>
vars == <<table, memory, catalog, audited, world, history, faults>>

Active == {"pending", "running"}
Results == {"succeeded", "failed", "cancelled"}

\* Program points of a worker process.
Scanning == {"walking", "renewing", "checking", "sweeping"}
Working == {"rooting", "clearing", "finishing"} \cup Scanning
Alive == {"idle", "auditing"} \cup Working

Init ==
    /\ status = [j \in Jobs |-> "absent"]
    /\ owner = [j \in Jobs |-> Nobody]
    /\ lapsed = [j \in Jobs |-> FALSE]
    /\ root = [j \in Jobs |-> Top]
    /\ limited = [j \in Jobs |-> FALSE]
    /\ at = [w \in Processes |-> "off"]
    /\ task = [w \in Processes |-> Nobody]
    /\ todo = [w \in Processes |-> {}]
    /\ batch = [w \in Processes |-> {}]
    /\ clips = [w \in Processes |-> {}]
    /\ whole = [w \in Processes |-> TRUE]
    /\ verdict = [w \in Processes |-> "none"]
    /\ catalog \in [Paths -> {Gone, Unstamped}]
    /\ audited = {}
    /\ disk \in SUBSET Paths
    /\ churn = [w \in Processes |-> {}]
    /\ moved = [j \in Jobs |-> {}]
    /\ faults = 0
    /\ changes = 0

------------------------------------------------------------------------------
\* State formulae.

\* The root of the job that w has in hand, and the paths a walk of it visits.
Root(w) == root[task[w]]
Reach(w) == IF limited[task[w]] THEN Shallow[Root(w)] ELSE Below[Root(w)]

\* No process has j in hand.
Abandoned(j) == \A w \in Processes : task[w] # j

\* Bug: renewLease and progress forget the worker_id.
HoldsAnyLease(w) == status[task[w]] = "running"

\* The row guard "status = 'running' AND worker_id = w" of the lease statements.
HoldsLease(w) == status[task[w]] = "running" /\ owner[task[w]] = w

\* A file of w's scope may have been seen absent by w: it is absent now, or its
\* presence changed since the scan began (a directory is read before its entries).
Elusive(w, p) == p \notin disk \/ p \in churn[w]

\* Bug: the DELETE is not limited to the scope.
InAnyScope(w) == {p \in Paths : catalog[p] # Gone}

\* The image rows that a DELETE in the scope of w's job selects.
InScope(w) == {p \in Matched[Root(w)] : catalog[p] # Gone}

\* Bug: a running job is never claimed again.
ClaimableOnce(j) == status[j] = "pending"

\* The rows claim chooses from.
Claimable(j) == status[j] = "pending" \/ (status[j] = "running" /\ lapsed[j])

\* The database refuses the statement.
Refused == faults < MaxFaults /\ faults' = faults + 1

------------------------------------------------------------------------------
\* Next-state formulae.

GoTo(w, point) == at' = [at EXCEPT ![w] = point]

\* Bug: finish is called without a result.
GiveNothing(w, result) ==
    /\ GoTo(w, "finishing")
    /\ UNCHANGED <<verdict, task, walk>>

\* w goes on to finish() with this result.
Give(w, result) ==
    /\ GoTo(w, "finishing")
    /\ verdict' = [verdict EXCEPT ![w] = result]
    /\ UNCHANGED <<task, walk>>

\* w drops its job and everything it held for it.
Leave(w, point) ==
    /\ GoTo(w, point)
    /\ task' = [task EXCEPT ![w] = Nobody]
    /\ todo' = [todo EXCEPT ![w] = {}]
    /\ batch' = [batch EXCEPT ![w] = {}]
    /\ clips' = [clips EXCEPT ![w] = {}]
    /\ whole' = [whole EXCEPT ![w] = TRUE]
    /\ verdict' = [verdict EXCEPT ![w] = "none"]
    /\ churn' = [churn EXCEPT ![w] = {}]

------------------------------------------------------------------------------
\* The API: enqueueJob's INSERT, cancelJob's UPDATE.

\* The INSERT succeeds only while index_job_active_unique has no row.
Enqueue(j, scope, cut) ==
    /\ status[j] = "absent"
    /\ \A k \in Jobs : status[k] \notin Active
    /\ status' = [status EXCEPT ![j] = "pending"]
    /\ root' = [root EXCEPT ![j] = scope]
    /\ limited' = [limited EXCEPT ![j] = cut]
    /\ UNCHANGED <<lease, memory, catalog, audited, world, history, faults>>

Cancel(j) ==
    /\ status[j] \in Active
    /\ status' = [status EXCEPT ![j] = "cancelled"]
    /\ UNCHANGED <<lease, request, memory, catalog, audited, world, history, faults>>

------------------------------------------------------------------------------
\* The worker process.

Start(w) ==
    /\ at[w] = "off"
    /\ Overlap \/ \A v \in Processes : at[v] \notin Alive
    /\ GoTo(w, "idle")
    /\ UNCHANGED <<table, task, walk, verdict, catalog, audited, world, history, faults>>

\* claim: one UPDATE over the oldest pending job or running job with a lapsed lease.
Claim(w, j) ==
    /\ at[w] = "idle"
    /\ Claimable(j)
    /\ status' = [status EXCEPT ![j] = "running"]
    /\ owner' = [owner EXCEPT ![j] = w]
    /\ lapsed' = [lapsed EXCEPT ![j] = FALSE]
    /\ GoTo(w, "rooting")
    /\ task' = [task EXCEPT ![w] = j]
    /\ UNCHANGED <<request, walk, verdict, catalog, audited, world, history, faults>>

\* process, before the walk: jobRoot or Lstat fails for another reason than absence,
\* the root is a symbolic link, or the media root itself is missing.
RefuseRoot(w) ==
    /\ at[w] = "rooting"
    /\ Give(w, "failed")
    /\ UNCHANGED <<table, catalog, audited, world, history, faults>>

\* Lstat finds nothing at the root.
MissingRoot(w) ==
    /\ at[w] = "rooting"
    /\ Root(w) # Top
    /\ Below[Root(w)] \cap disk = {}
    /\ GoTo(w, "clearing")
    /\ UNCHANGED <<table, task, walk, verdict, catalog, audited, world, history, faults>>

\* The root is a directory.
WalkRoot(w) ==
    /\ at[w] = "rooting"
    /\ Root(w) \notin Files
    /\ GoTo(w, "walking")
    /\ todo' = [todo EXCEPT ![w] = Reach(w)]
    /\ UNCHANGED <<table, task, batch, clips, whole, verdict,
                   catalog, audited, world, history, faults>>

\* The root is one media file, taken into the batch as Lstat saw it.
FileRoot(w) ==
    /\ at[w] = "rooting"
    /\ Root(w) \in Files
    /\ Below[Root(w)] \subseteq disk
    /\ GoTo(w, "walking")
    /\ batch' = [batch EXCEPT ![w] = Below[Root(w)]]
    /\ UNCHANGED <<table, task, todo, clips, whole, verdict,
                   catalog, audited, world, history, faults>>

\* The root is neither a directory nor a media file.
OddRoot(w) ==
    /\ at[w] = "rooting"
    /\ Root(w) # Top
    /\ Below[Root(w)] \cap disk = {}
    /\ GoTo(w, "walking")
    /\ whole' = [whole EXCEPT ![w] = FALSE]
    /\ UNCHANGED <<table, task, todo, batch, clips, verdict,
                   catalog, audited, world, history, faults>>

\* deindexMissingScope
Clear(w) ==
    /\ at[w] = "clearing"
    /\ \/ /\ catalog' = [p \in Paths |-> IF p \in InScope(w) THEN Gone ELSE catalog[p]]
          /\ Give(w, "succeeded")
          /\ UNCHANGED faults
       \/ /\ Refused
          /\ Give(w, "failed")
          /\ UNCHANGED catalog
    /\ UNCHANGED <<table, audited, world, history>>

\* One step of the walk: p is taken, or not listed, or cannot be read.
Visit(w, p) ==
    /\ at[w] = "walking"
    /\ p \in todo[w]
    /\ Cardinality(batch[w]) < BatchSize
    /\ todo' = [todo EXCEPT ![w] = @ \ {p}]
    /\ \/ /\ p \in disk
          /\ batch' = [batch EXCEPT ![w] = @ \cup {p}]
          /\ UNCHANGED whole
       \/ /\ Elusive(w, p)
          /\ UNCHANGED <<batch, whole>>
       \/ /\ whole' = [whole EXCEPT ![w] = FALSE]
          /\ UNCHANGED batch
    /\ UNCHANGED <<table, at, task, clips, verdict,
                   catalog, audited, world, history, faults>>

\* flush has something to write: a full batch, or the rest of it after the walk.
Due(w) ==
    /\ batch[w] # {}
    /\ todo[w] = {} \/ Cardinality(batch[w]) >= BatchSize

\* upsertBatch up to its commit; the job row is neither read nor locked.
Upsert(w) ==
    /\ at[w] = "walking"
    /\ Due(w)
    /\ \/ /\ catalog' = [p \in Paths |-> IF p \in batch[w] THEN task[w] ELSE catalog[p]]
          /\ GoTo(w, "renewing")
          /\ batch' = [batch EXCEPT ![w] = {}]
          /\ clips' = [clips EXCEPT ![w] = batch[w] \cap Videos]
          /\ UNCHANGED <<task, todo, whole, verdict, faults>>
       \/ /\ Refused
          /\ Give(w, "failed")
          /\ UNCHANGED catalog
    /\ UNCHANGED <<table, audited, world, history>>

\* renewLease before each video's thumbnail; a lost lease fails the job.
Renew(w) ==
    /\ at[w] = "renewing"
    /\ \E p \in clips[w] :
        \/ /\ HoldsLease(w)
           /\ lapsed' = [lapsed EXCEPT ![task[w]] = FALSE]
           /\ clips' = [clips EXCEPT ![w] = @ \ {p}]
           /\ UNCHANGED <<at, task, todo, batch, whole, verdict, faults>>
        \/ /\ (~ HoldsLease(w) /\ UNCHANGED faults) \/ Refused
           /\ Give(w, "failed")
           /\ UNCHANGED lapsed
    /\ UNCHANGED <<status, owner, request, catalog, audited, world, history>>

\* progress: on a lost lease the process drops the job without finishing it.
Progress(w) ==
    /\ at[w] = "renewing"
    /\ clips[w] = {}
    /\ \/ /\ HoldsLease(w)
          /\ lapsed' = [lapsed EXCEPT ![task[w]] = FALSE]
          /\ GoTo(w, "walking")
          /\ UNCHANGED <<task, walk, verdict, churn, faults>>
       \/ /\ (~ HoldsLease(w) /\ UNCHANGED faults) \/ Refused
          /\ Leave(w, "idle")
          /\ UNCHANGED lapsed
    /\ UNCHANGED <<status, owner, request, catalog, audited, world, moved>>

\* Bug: the files since the last full batch are not flushed.
WalkEndsEarly(w) ==
    /\ at[w] = "walking"
    /\ todo[w] = {}
    /\ GoTo(w, "checking")
    /\ UNCHANGED <<table, task, walk, verdict, catalog, audited, world, history, faults>>

\* The last flush of process has nothing left to write.
WalkEnds(w) ==
    /\ at[w] = "walking"
    /\ todo[w] = {} /\ batch[w] = {}
    /\ GoTo(w, "checking")
    /\ UNCHANGED <<table, task, walk, verdict, catalog, audited, world, history, faults>>

\* cancelled, whose query counts as a cancellation when it is refused.
Cancelled(w) ==
    \/ status[task[w]] = "cancelled" /\ UNCHANGED faults
    \/ Refused

Check(w) ==
    /\ at[w] = "checking"
    /\ \/ Cancelled(w) /\ Give(w, "cancelled")
       \/ /\ status[task[w]] # "cancelled"
          /\ IF whole[w] /\ ~ limited[task[w]]
             THEN GoTo(w, "sweeping") /\ UNCHANGED <<task, walk, verdict>>
             ELSE Give(w, "succeeded")
          /\ UNCHANGED faults
    /\ UNCHANGED <<table, catalog, audited, world, history>>

\* deindexStale
Sweep(w) ==
    /\ at[w] = "sweeping"
    /\ \/ /\ catalog' = [p \in Paths |->
                IF p \in InScope(w) /\ catalog[p] # task[w] THEN Gone ELSE catalog[p]]
          /\ Give(w, "succeeded")
          /\ UNCHANGED faults
       \/ /\ Refused
          /\ Give(w, "failed")
          /\ UNCHANGED catalog
    /\ UNCHANGED <<table, audited, world, history>>

\* Bug: finish forgets the worker_id.
RecordUnowned(w) ==
    /\ status' = [status EXCEPT ![task[w]] = verdict[w]]
    /\ lapsed' = [lapsed EXCEPT ![task[w]] = FALSE]
    /\ moved' = [moved EXCEPT ![task[w]] = {}]

\* Bug: finish spares a cancelled job, but its caller does not learn of it.
RecordUncancelled(w) ==
    IF owner[task[w]] = w /\ status[task[w]] = "running"
    THEN RecordUnowned(w)
    ELSE UNCHANGED <<status, lapsed, moved>>

\* finish's UPDATE, which is guarded by worker_id alone and may match no row.
Record(w) ==
    IF owner[task[w]] = w
    THEN /\ status' = [status EXCEPT ![task[w]] = verdict[w]]
         /\ lapsed' = [lapsed EXCEPT ![task[w]] = FALSE]
         /\ moved' = [moved EXCEPT ![task[w]] = {}]
    ELSE UNCHANGED <<status, lapsed, moved>>

Finish(w) ==
    /\ at[w] = "finishing"
    /\ \/ /\ verdict[w] = "succeeded"
          /\ Record(w)
          /\ GoTo(w, "auditing")
          /\ UNCHANGED <<task, walk, verdict, churn, faults>>
       \/ /\ verdict[w] # "succeeded"
          /\ Record(w)
          /\ Leave(w, "idle")
          /\ UNCHANGED faults
       \/ /\ Refused
          /\ Leave(w, "idle")
          /\ UNCHANGED <<status, lapsed, moved>>
    /\ UNCHANGED <<owner, request, catalog, audited, world>>

Audit(w) ==
    /\ at[w] = "auditing"
    /\ \/ audited' = audited \cup {task[w]} /\ UNCHANGED faults
       \/ Refused /\ UNCHANGED audited
    /\ Leave(w, "idle")
    /\ UNCHANGED <<table, catalog, world, moved>>

Work(w) ==
    \/ \E j \in Jobs : Claim(w, j)
    \/ RefuseRoot(w) \/ MissingRoot(w) \/ WalkRoot(w) \/ FileRoot(w) \/ OddRoot(w)
    \/ Clear(w)
    \/ \E p \in Paths : Visit(w, p)
    \/ Upsert(w) \/ Renew(w) \/ Progress(w)
    \/ WalkEnds(w) \/ Check(w) \/ Sweep(w)
    \/ Finish(w) \/ Audit(w)

------------------------------------------------------------------------------
\* What happens to the worker from outside.

\* Another identity is left, so that the container can restart.
Crash(w) ==
    /\ at[w] \in Alive
    /\ \E v \in Processes : at[v] = "off"
    /\ Leave(w, "dead")
    /\ UNCHANGED <<table, catalog, audited, world, moved, faults>>

\* A minute passes since the lease of j was last extended.
LeaseLapses(j) ==
    /\ status[j] = "running"
    /\ ~ lapsed[j]
    /\ lapsed' = [lapsed EXCEPT ![j] = TRUE]
    /\ UNCHANGED <<status, owner, request, memory, catalog, audited, world, history, faults>>

\* A media file appears or disappears.
DiskChange(p) ==
    /\ changes < MaxChanges
    /\ changes' = changes + 1
    /\ disk' = IF p \in disk THEN disk \ {p} ELSE disk \cup {p}
    /\ churn' = [w \in Processes |->
                    IF at[w] \in Working THEN churn[w] \cup {p} ELSE churn[w]]
    /\ moved' = [j \in Jobs |-> IF status[j] = "running" \/ ~ Abandoned(j)
                                THEN moved[j] \cup {p} ELSE moved[j]]
    /\ UNCHANGED <<table, memory, catalog, audited, faults>>

Next ==
    \/ \E j \in Jobs, scope \in Scopes, cut \in BOOLEAN : Enqueue(j, scope, cut)
    \/ \E j \in Jobs : Cancel(j) \/ LeaseLapses(j)
    \/ \E w \in Processes : Start(w) \/ Work(w) \/ Crash(w)
    \/ \E p \in Paths : DiskChange(p)

Spec == Init /\ [][Next]_vars

\* A lease that no process works under lapses; the container restarts the worker.
Fairness ==
    /\ \A w \in Processes : WF_vars(Work(w))
    /\ WF_vars(\E w \in Processes : Start(w))
    /\ \A j \in Jobs : WF_vars(Abandoned(j) /\ LeaseLapses(j))

FairSpec == Spec /\ Fairness

------------------------------------------------------------------------------
\* The job table alone, as the clients of the API see it.

Table == INSTANCE JobTable

------------------------------------------------------------------------------
\* Properties.

\* The tables and the processes' memories have the shape their columns and variables allow.
TableOK ==
    /\ status \in [Jobs -> {"absent"} \cup Active \cup Results]
    /\ owner \in [Jobs -> Processes \cup {Nobody}]
    /\ lapsed \in [Jobs -> BOOLEAN]
    /\ root \in [Jobs -> Scopes]
    /\ limited \in [Jobs -> BOOLEAN]

MemoryOK ==
    /\ at \in [Processes -> {"off", "dead"} \cup Alive]
    /\ task \in [Processes -> Jobs \cup {Nobody}]
    /\ todo \in [Processes -> SUBSET Paths]
    /\ batch \in [Processes -> SUBSET Paths]
    /\ clips \in [Processes -> SUBSET Paths]
    /\ whole \in [Processes -> BOOLEAN]
    /\ verdict \in [Processes -> Results \cup {"none"}]

HistoryOK ==
    /\ churn \in [Processes -> SUBSET Paths]
    /\ moved \in [Jobs -> SUBSET Paths]

TypeOK ==
    /\ TableOK
    /\ MemoryOK
    /\ catalog \in [Paths -> {Gone, Unstamped} \cup Jobs]
    /\ audited \in SUBSET Jobs
    /\ disk \in SUBSET Paths
    /\ HistoryOK
    /\ faults \in 0 .. MaxFaults
    /\ changes \in 0 .. MaxChanges

\* A job that succeeded or failed keeps its result, whatever a cancellation, a
\* second claim or a process that was late to finish does (cancelJob, claim, finish).
ResultsAreFinal ==
    [][\A j \in Jobs : status[j] \in {"succeeded", "failed"} => status'[j] = status[j]]_vars

\* A process whose job another process has claimed since changes nothing in the
\* job table by a step of its own: it neither extends the lease nor settles the job
\* (renewLease, progress, finish).
DisownedProcessLeavesJobs ==
    [][\A w \in Processes :
          (/\ task[w] \in Jobs /\ owner[task[w]] # w
           /\ <<at[w], clips[w]>>' # <<at[w], clips[w]>>) => table' = table]_vars

\* An image row is deleted only for a path inside the scope of the job being
\* processed whose file that scan could not have seen: never because an entry was
\* unreadable, the walk was limited or cut short, or the scan was taken over
\* (process, deindexStale, deindexMissingScope).
OnlyAbsentFilesDeindexed ==
    [][\A p \in Paths : (catalog[p] # Gone /\ catalog'[p] = Gone)
          => \E w \in Processes : /\ at[w] \in {"clearing", "sweeping"}
                                  /\ p \in Below[Root(w)]
                                  /\ Elusive(w, p)]_vars

\* w has de-indexed and is about to record the success of an unlimited scan that
\* read every entry.
JustReconciled(w) ==
    /\ at[w] = "finishing" /\ verdict[w] = "succeeded"
    /\ whole[w] /\ ~ limited[task[w]]

\* When an unlimited, fully readable scan succeeds, the scope's rows are exactly
\* its files, except for files that came or went since the job was first claimed.
Reconciled ==
    \A w \in Processes : JustReconciled(w) =>
        \A p \in Below[Root(w)] \ moved[task[w]] : (catalog[p] # Gone) <=> (p \in disk)

\* The same, except only for files that came or went during the scan that succeeds:
\* what the documentation promises of a successful scan.
ScanReconciles ==
    \A w \in Processes : JustReconciled(w) =>
        \A p \in Below[Root(w)] \ churn[w] : (catalog[p] # Gone) <=> (p \in disk)

\* Only a job that succeeded has an audit event, although the event is written by
\* a statement of its own after finish's UPDATE.
AuditedSucceeded == \A j \in audited : status[j] = "succeeded"

\* The table of jobs, and the processes that race for them, implement the promise
\* of JobTable (claim, finish and cancelJob take no lock that outlives a statement).
ImplementsJobTable == Table!Spec

\* A queued or running job, which keeps every other job from being queued, settles,
\* although its process may crash, lose its lease or be refused by the database.
EveryJobSettles ==
    \A j \in Jobs : status[j] \in Active ~> status[j] \notin Active

==============================================================================
