--------------------------- MODULE WorkflowJobsRQ ---------------------------
(***************************************************************************)
(* Test agent workflow jobs on Redis/RQ and MySQL: the queue object of the *)
(* API, MySQLTestAgentWorkflowJobStore, run_test_agent_workflow_job, and   *)
(* the operator's check_test_agent_workflow_queue.  The test plan          *)
(* execution jobs have the same queue object, store, worker and check, for *)
(* a table of their own.                                                   *)
(*                                                                         *)
(* Both differ from the generation jobs in their recovery, which runs      *)
(* wherever a queue object or a worker starts and takes queued rows too,   *)
(* also those whose id Redis still has: a job may be given up and run all  *)
(* the same.                                                               *)
(*                                                                         *)
(* A statement of the store is one transaction, but for the recovery: its  *)
(* SELECT is not a locking read, so another transaction may commit before  *)
(* its UPDATE.  Redis and RQ are external; they deliver an id once.        *)
(* Faults: processes that die at any point and answers that are lost.  A   *)
(* queued or running row is fresh or old: time may take it past the stale  *)
(* threshold at any moment, and nothing is assumed of how long runs and    *)
(* waits last.  A row with a finish time may have passed its retention at  *)
(* any cleanup.  A threshold of 0 turns the recovery off.                  *)
(***************************************************************************)
EXTENDS Integers, Sequences, FiniteSets

CONSTANTS
    Jobs,           \* job ids (uuid4: never used twice)
    Workers,        \* RQ worker processes
    NoJob,          \* "holds no job"
    MaxQueueSize,   \* generation_job_max_queue_size
    Recovers        \* generation_job_stale_after_seconds > 0

ASSUME WorkflowAssumption ==
    /\ NoJob \notin Jobs
    /\ MaxQueueSize \in Nat \ {0}
    /\ Recovers \in BOOLEAN
    /\ IsFiniteSet(Jobs) /\ IsFiniteSet(Workers)

VARIABLES
    rows,       \* the table test_agent_workflow_jobs
    redis,      \* ids in the RQ queue, oldest first
    started,    \* ids in RQ's started registry
    givenUp,    \* history: ids a recovery or a failed submission has failed
    apc, ajob,  \* where the API is in __init__ or submit, and its job
    wpc, wjob,  \* where each worker is, and its job
    selected,   \* the ids a recovery has selected and not updated yet
    probe       \* the operator's check: Idle, Raised, or the rows it has counted

api == <<apc, ajob>>
workers == <<wpc, wjob>>
vars == <<rows, redis, started, givenUp, api, workers, selected, probe>>

Idle == -1
Raised == -2

Active == {"queued", "running"}
Finished == {"succeeded", "failed"}
Processes == Workers \cup {"api"}

\* age: since created_epoch while queued, since started_epoch while running;
\* the recovery looks at no other, and at none of a finished row.
\* fin: whether finished_epoch is set.
Ages == {"fresh", "old"}
Row == [status : Active \cup Finished \cup {"none", "deleted"},
        age : Ages, fin : BOOLEAN]
NoRow == [status |-> "none", age |-> "fresh", fin |-> FALSE]
Gone == [NoRow EXCEPT !.status = "deleted"]
Absent(row) == row.status \in {"none", "deleted"}

TypeOK ==
    /\ rows \in [Jobs -> Row]
    /\ redis \in Seq(Jobs)
    /\ started \in SUBSET Jobs /\ givenUp \in SUBSET Jobs
    /\ apc \in {"down", "recover", "idle", "create", "enqueue", "refuse", "reply"}
    /\ ajob \in Jobs \cup {NoJob}
    /\ wpc \in [Workers -> {"down", "recover", "idle", "load", "mark", "run", "ok", "err"}]
    /\ wjob \in [Workers -> Jobs \cup {NoJob}]
    /\ selected \in [Processes -> SUBSET Jobs]
    /\ probe \in {Idle, Raised} \cup 0 .. Cardinality(Jobs)

Init ==
    /\ rows = [j \in Jobs |-> NoRow]
    /\ redis = <<>>
    /\ started = {} /\ givenUp = {}
    /\ apc = "down" /\ ajob = NoJob
    /\ wpc = [w \in Workers |-> "down"]
    /\ wjob = [w \in Workers |-> NoJob]
    /\ selected = [p \in Processes |-> {}]
    /\ probe = Idle
-----------------------------------------------------------------------------
\* The statements of MySQLTestAgentWorkflowJobStore.

\* A faulty variant: a row without a finish time counts as expired too.
CleanedAnyTables ==
    {[j \in Jobs |-> IF j \in expired THEN Gone ELSE rows[j]] :
        expired \in SUBSET {j \in Jobs : rows[j].status # "none"}}

\* _cleanup_expired, in the transaction of every statement that reads, and of
\* the INSERT: what it may leave of the table.  The finish time alone decides,
\* whatever the status says.
CleanedTables ==
    {[j \in Jobs |-> IF j \in expired THEN Gone ELSE rows[j]] :
        expired \in SUBSET {j \in Jobs : rows[j].fin}}

ActiveRows(table) == {j \in Jobs : table[j].status \in Active}

Created(table, j) == [table EXCEPT ![j] = [NoRow EXCEPT !.status = "queued"]]

Update(j, row) == IF Absent(rows[j]) THEN rows ELSE [rows EXCEPT ![j] = row]

\* No id is started twice, so COALESCE(started_epoch, now) is now.
MarkedRunning(j) == Update(j, [rows[j] EXCEPT !.status = "running", !.age = "fresh"])

MarkedSucceeded(j) ==
    Update(j, [rows[j] EXCEPT !.status = "succeeded", !.age = "fresh", !.fin = TRUE])

MarkedFailed(j) ==
    Update(j, [rows[j] EXCEPT !.status = "failed", !.age = "fresh", !.fin = TRUE])

\* A faulty variant: the recovery looks at running rows only.
StaleRunning ==
    {j \in Jobs : Recovers /\ rows[j].status = "running" /\ rows[j].age = "old"}

\* The SELECT of fail_stale_active_jobs, which a threshold of 0 leaves out.
StaleIds == {j \in Jobs : Recovers /\ rows[j].status \in Active /\ rows[j].age = "old"}

\* Its UPDATE ... WHERE id IN (...), whatever has become of the rows.
FailedStale(ids) ==
    [j \in Jobs |-> IF j \in ids /\ ~Absent(rows[j])
                    THEN [rows[j] EXCEPT !.status = "failed", !.age = "fresh", !.fin = TRUE]
                    ELSE rows[j]]
-----------------------------------------------------------------------------
\* The API: the queue object's __init__, then submit.

ApiStart ==
    /\ apc = "down"
    /\ apc' = "recover"
    /\ selected' = [selected EXCEPT !["api"] = StaleIds]
    /\ UNCHANGED <<rows, redis, started, givenUp, ajob, workers, probe>>

GivenUp(ids) == givenUp \cup {j \in ids : ~Absent(rows[j])}

ApiRecover ==
    /\ apc = "recover"
    /\ rows' = FailedStale(selected["api"])
    /\ givenUp' = GivenUp(selected["api"])
    /\ selected' = [selected EXCEPT !["api"] = {}]
    /\ apc' = "idle"
    /\ UNCHANGED <<redis, started, ajob, workers, probe>>

SubmitCheck ==
    /\ apc = "idle"
    /\ rows' \in CleanedTables
    /\ apc' = IF Cardinality(ActiveRows(rows')) >= MaxQueueSize THEN "idle" ELSE "create"
    /\ UNCHANGED <<redis, started, givenUp, ajob, workers, selected, probe>>

SubmitCreate(j) ==
    /\ apc = "create"
    /\ rows[j].status = "none"
    /\ \E table \in CleanedTables : rows' = Created(table, j)
    /\ ajob' = j
    /\ apc' = "enqueue"
    /\ UNCHANGED <<redis, started, givenUp, workers, selected, probe>>

SubmitEnqueue ==
    /\ apc = "enqueue"
    /\ redis' = Append(redis, ajob)
    /\ apc' = "reply"
    /\ UNCHANGED <<rows, started, givenUp, ajob, workers, selected, probe>>

\* enqueue_call raises, although Redis may have taken the job.
SubmitEnqueueError ==
    /\ apc = "enqueue"
    /\ redis' \in {redis, Append(redis, ajob)}
    /\ apc' = "refuse"
    /\ UNCHANGED <<rows, started, givenUp, ajob, workers, selected, probe>>

SubmitMarkFailed ==
    /\ apc = "refuse"
    /\ rows' = MarkedFailed(ajob)
    /\ givenUp' = GivenUp({ajob})
    /\ apc' = "idle" /\ ajob' = NoJob
    /\ UNCHANGED <<redis, started, workers, selected, probe>>

\* get_job, with its cleanup: what a client sees of its new job.
SubmitReply ==
    /\ apc = "reply"
    /\ rows' \in CleanedTables
    /\ apc' = "idle" /\ ajob' = NoJob
    /\ UNCHANGED <<redis, started, givenUp, workers, selected, probe>>

\* The API process ends and is started again.
ApiDies ==
    /\ apc # "down"
    /\ apc' = "down" /\ ajob' = NoJob
    /\ selected' = [selected EXCEPT !["api"] = {}]
    /\ UNCHANGED <<rows, redis, started, givenUp, workers, probe>>

\* get_job, list_jobs and count_jobs_by_status.
ReadJobs ==
    /\ rows' \in CleanedTables
    /\ UNCHANGED <<redis, started, givenUp, api, workers, selected, probe>>
-----------------------------------------------------------------------------
\* A worker: run_generation_worker.main, then run_test_agent_workflow_job.

WorkerAt(w, from, to) ==
    /\ wpc[w] = from
    /\ wpc' = [wpc EXCEPT ![w] = to]

WorkerStart(w) ==
    /\ WorkerAt(w, "down", "recover")
    /\ selected' = [selected EXCEPT ![w] = StaleIds]
    /\ UNCHANGED <<rows, redis, started, givenUp, api, wjob, probe>>

\* recover_stale_test_agent_workflow_jobs.
WorkerRecover(w) ==
    /\ WorkerAt(w, "recover", "idle")
    /\ rows' = FailedStale(selected[w])
    /\ givenUp' = GivenUp(selected[w])
    /\ selected' = [selected EXCEPT ![w] = {}]
    /\ UNCHANGED <<redis, started, api, wjob, probe>>

\* RQ moves the id to the started registry.
Dequeue(w) ==
    /\ redis # <<>>
    /\ WorkerAt(w, "idle", "load")
    /\ wjob' = [wjob EXCEPT ![w] = Head(redis)]
    /\ started' = started \cup {Head(redis)}
    /\ redis' = Tail(redis)
    /\ UNCHANGED <<rows, givenUp, api, selected, probe>>

\* RQ takes the job out of the started registry when it returns.
Returns(w) ==
    /\ wjob' = [wjob EXCEPT ![w] = NoJob]
    /\ started' = started \ {wjob[w]}

\* get_request: a job whose row is gone is not run.
LoadRequest(w) ==
    /\ wpc[w] = "load"
    /\ rows' \in CleanedTables
    /\ IF Absent(rows'[wjob[w]])
       THEN WorkerAt(w, "load", "idle") /\ Returns(w)
       ELSE WorkerAt(w, "load", "mark") /\ UNCHANGED <<wjob, started>>
    /\ UNCHANGED <<redis, givenUp, api, selected, probe>>

\* mark_running takes any row, also one that was given up.
MarkRunning(w) ==
    /\ WorkerAt(w, "mark", "run")
    /\ rows' = MarkedRunning(wjob[w])
    /\ UNCHANGED <<redis, started, givenUp, api, wjob, selected, probe>>

\* execute_test_agent_workflow_request returns or raises, whatever it raises.
Execute(w) ==
    /\ \E outcome \in {"ok", "err"} : WorkerAt(w, "run", outcome)
    /\ UNCHANGED <<rows, redis, started, givenUp, api, wjob, selected, probe>>

MarkSucceeded(w) ==
    /\ WorkerAt(w, "ok", "idle")
    /\ rows' = MarkedSucceeded(wjob[w])
    /\ Returns(w)
    /\ UNCHANGED <<redis, givenUp, api, selected, probe>>

MarkFailed(w) ==
    /\ WorkerAt(w, "err", "idle")
    /\ rows' = MarkedFailed(wjob[w])
    /\ Returns(w)
    /\ UNCHANGED <<redis, givenUp, api, selected, probe>>

\* The worker process ends, with whatever it holds; RQ's registry keeps the id.
WorkerDies(w) ==
    /\ wpc[w] # "down"
    /\ wpc' = [wpc EXCEPT ![w] = "down"]
    /\ wjob' = [wjob EXCEPT ![w] = NoJob]
    /\ selected' = [selected EXCEPT ![w] = {}]
    /\ UNCHANGED <<rows, redis, started, givenUp, api, probe>>

\* RQ: a started job without a heartbeat goes to the failed registry, as does
\* one whose work horse died.  No Retry is configured.
Abandon(j) ==
    /\ j \in started /\ \A w \in Workers : wjob[w] # j
    /\ started' = started \ {j}
    /\ UNCHANGED <<rows, redis, givenUp, api, workers, selected, probe>>
-----------------------------------------------------------------------------
\* check_test_agent_workflow_queue, again and again: the table is counted
\* first, then RQ's queue and started registry.

\* A faulty variant: the comparison is the wrong way round.
AlarmSwapped(db, rq) == rq > db

\* evaluate_health: errors, which make --fail-on-mismatch exit with 1.
Alarm(db, rq) == db > rq \/ (db = 0 /\ rq > 0)

ProbeDatabase ==
    /\ probe \in {Idle, Raised}
    /\ rows' \in CleanedTables
    /\ probe' = Cardinality(ActiveRows(rows'))
    /\ UNCHANGED <<redis, started, givenUp, api, workers, selected>>

ProbeQueue ==
    /\ probe \notin {Idle, Raised}
    /\ probe' = IF Alarm(probe, Len(redis) + Cardinality(started)) THEN Raised ELSE Idle
    /\ UNCHANGED <<rows, redis, started, givenUp, api, workers, selected>>

Probe == ProbeDatabase \/ ProbeQueue
-----------------------------------------------------------------------------
\* Time: a row passes generation_job_stale_after_seconds.
Tick(j) ==
    /\ rows[j].status \in Active
    /\ rows' = [rows EXCEPT ![j].age = "old"]
    /\ UNCHANGED <<redis, started, givenUp, api, workers, selected, probe>>

Serve ==
    \/ ApiStart \/ ApiRecover
    \/ SubmitEnqueue \/ SubmitEnqueueError \/ SubmitMarkFailed \/ SubmitReply

Work(w) ==
    \/ WorkerStart(w) \/ WorkerRecover(w)
    \/ Dequeue(w) \/ LoadRequest(w) \/ MarkRunning(w) \/ Execute(w)
    \/ MarkSucceeded(w) \/ MarkFailed(w)

Next ==
    \/ Serve \/ SubmitCheck \/ \E j \in Jobs : SubmitCreate(j)
    \/ ApiDies \/ ReadJobs
    \/ \E w \in Workers : Work(w) \/ WorkerDies(w)
    \/ \E j \in Jobs : Abandon(j) \/ Tick(j)
    \/ Probe

Spec == Init /\ [][Next]_vars

\* What has been begun goes on: a process that is down is started again, the
\* API finishes what it has begun, workers work, RQ tidies its started, time
\* passes, and the operator's check is run periodically.
Fairness ==
    /\ WF_vars(Serve) /\ WF_vars(Probe)
    /\ \A w \in Workers : WF_vars(Work(w))
    /\ \A j \in Jobs : WF_vars(Abandon(j)) /\ WF_vars(Tick(j))

FairSpec == Spec /\ Fairness
-----------------------------------------------------------------------------
InRedis(j) == \E i \in 1 .. Len(redis) : redis[i] = j
RunBy(w, j) == wjob[w] = j /\ wpc[w] \in {"run", "ok", "err"}

\* An id is in one place of Redis at most, and in one pair of hands.
DeliveredOnce ==
    \A j \in Jobs :
        /\ \A i, k \in 1 .. Len(redis) : redis[i] = j /\ redis[k] = j => i = k
        /\ \A v, w \in Workers : wjob[v] = j /\ wjob[w] = j => v = w
        /\ InRedis(j) => j \notin started

\* The row of a job that nobody gave up tells one story, and while it is run
\* it says so: recoveries, cleanups and refused submissions of other jobs do
\* not touch it.  A job that was given up may be run, and its row says
\* running, or what the recovery made of it, or nothing.
RowsTellStory ==
    \A j \in Jobs :
        LET row == rows[j] IN
        /\ j \notin givenUp =>
            /\ row.fin <=> row.status \in Finished
            /\ \A w \in Workers : RunBy(w, j) => row.status = "running"
        /\ \A w \in Workers : RunBy(w, j) =>
            row.status \in {"running", "failed", "deleted"}

Story == TypeOK /\ DeliveredOnce /\ RowsTellStory

\* With a threshold above 0, and as long as some process gets through its start
\* now and then, no row stays queued or running: not one whose submitter died
\* before it reached Redis, nor one whose worker died.
RestartsResolveActive ==
    /\ Recovers
    /\ []<><<ApiRecover \/ \E w \in Workers : WorkerRecover(w)>>_vars
    => \A j \in Jobs : []<>(rows[j].status \notin Active)

\* A row that nobody will ever come to.
Lost(j) ==
    /\ rows[j].status \in Active
    /\ ~InRedis(j) /\ ajob # j
    /\ \A w \in Workers : wjob[w] # j

\* While the workers stay up, the operator's check finds every lost job in the
\* end, although it compares two counts, taken one after the other, and an id
\* that Redis has of a job given up can stand in for the one it lost.  It leans
\* on there being finitely many ids: jobs that reach Redis between the two counts,
\* run after run, could hide a lost one for ever.
LostJobsAreReported ==
    <>[](\A w \in Workers : wpc[w] # "down")
        => \A j \in Jobs : Lost(j) ~> (rows[j].status \notin Active \/ probe = Raised)
=============================================================================
