--------------------------- MODULE StoredJobQueue ---------------------------
(***************************************************************************)
(* InMemoryTestPlanExecutionJobQueue over TestPlanExecutionJobStore, and   *)
(* InMemoryTestAgentWorkflowJobQueue over TestAgentWorkflowJobStore, which *)
(* has the same methods and statements for other columns of results: a     *)
(* queue and threads that live in the API process, and a table that does   *)
(* not.                                                                    *)
(*                                                                         *)
(* A method is one step where it holds _lock: nothing else reads _jobs,    *)
(* and nothing a reader of the table does in between tells the difference. *)
(* The fault model: the process may die at any step and lose its memory    *)
(* (Crash); with StoreErrors a statement of the store may raise, before it *)
(* has changed the table.  A thread that such an error reaches ends, as    *)
(* _worker_loop catches nothing.                                           *)
(***************************************************************************)
EXTENDS Integers, Sequences, FiniteSets

CONSTANTS
    Jobs,           \* job ids (uuid4: never used twice)
    Workers,        \* the worker threads of a process
    Pill,           \* None in the queue: the worker that takes it ends
    NoJob,          \* "holds no job"
    MaxQueueSize,   \* generation_job_max_queue_size, the queue's maxsize
    StaleAfter,     \* generation_job_stale_after_seconds, in ticks; 0 disables
    Retention,      \* generation_job_retention_seconds, in ticks; 0 disables
    StoreErrors     \* whether a statement of the store may raise

ASSUME StoredAssumption ==
    /\ Pill \notin Jobs /\ NoJob \notin Jobs /\ Pill # NoJob
    /\ MaxQueueSize \in Nat \ {0}
    /\ StaleAfter \in Nat /\ Retention \in Nat
    /\ StoreErrors \in BOOLEAN
    /\ IsFiniteSet(Workers) /\ Workers # {}

VARIABLES
    rows,       \* the table: status of each row, age of its last change
    jobs,       \* _jobs: status of each record, age since finished_epoch
    queue,      \* _queue
    up,         \* the process has built its queue
    pills,      \* Unset before shutdown, then the pills it has still to put
    wpc,        \* where each worker thread is
    wjob        \* the id it has taken; a dead thread keeps the one it died of

memory == <<jobs, queue, up, pills, wpc, wjob>>
vars == <<rows, memory>>

Unset == -1
AgeCap == (IF StaleAfter > Retention THEN StaleAfter ELSE Retention) + 1

Active == {"queued", "running"}
Finished == {"succeeded", "failed"}

\* "none": never inserted; "deleted": inserted and cleaned up.
Row == [status : Active \cup Finished \cup {"none", "deleted"}, age : 0 .. AgeCap]
Record == [status : Active \cup Finished \cup {"none"}, fin : Unset .. Retention + 1]
NoRow == [status |-> "none", age |-> 0]
NoRecord == [status |-> "none", fin |-> Unset]

WorkerStates == {"idle", "taken", "running", "ok", "err", "exited", "dead"}

TypeOK ==
    /\ rows \in [Jobs -> Row]
    /\ jobs \in [Jobs -> Record]
    /\ queue \in Seq(Jobs \cup {Pill})
    /\ up \in BOOLEAN
    /\ pills \in Unset .. Cardinality(Workers)
    /\ wpc \in [Workers -> WorkerStates]
    /\ wjob \in [Workers -> Jobs \cup {NoJob}]

EmptyMemory ==
    /\ jobs' = [j \in Jobs |-> NoRecord]
    /\ queue' = <<>>
    /\ pills' = Unset
    /\ wpc' = [w \in Workers |-> "idle"]
    /\ wjob' = [w \in Workers |-> NoJob]

Init ==
    /\ rows = [j \in Jobs |-> NoRow]
    /\ jobs = [j \in Jobs |-> NoRecord]
    /\ queue = <<>>
    /\ up = FALSE
    /\ pills = Unset
    /\ wpc = [w \in Workers |-> "idle"]
    /\ wjob = [w \in Workers |-> NoJob]
-----------------------------------------------------------------------------
\* The statements of TestPlanExecutionJobStore.

\* A row whose last change is now.
Now(status) == [status |-> status, age |-> 0]

\* A faulty variant: the age of any row counts.
ExpiredAny(row) == Retention > 0 /\ row.status # "none" /\ row.age > Retention

\* _cleanup_expired_locked, part of every read and of create_job.
Expired(row) == Retention > 0 /\ row.status \in Finished /\ row.age > Retention

Cleaned == [j \in Jobs |->
    IF Expired(rows[j]) THEN [status |-> "deleted", age |-> 0] ELSE rows[j]]

\* The condition of fail_stale_active_jobs: a queued row has its creation for
\* its last change, a running one its start.
Stale(row) == StaleAfter > 0 /\ row.status \in Active /\ row.age > StaleAfter

FailedStale == [j \in Jobs |->
    IF Stale(rows[j]) THEN [status |-> "failed", age |-> 0] ELSE rows[j]]

\* mark_running, mark_succeeded, mark_failed: by id, whatever the status.  A
\* row that is gone stays so.
Marked(j, status) ==
    IF rows[j].status \in {"none", "deleted"} THEN rows
    ELSE [rows EXCEPT ![j] = Now(status)]
-----------------------------------------------------------------------------
\* The life of the process.

\* A faulty variant: a new process does not look at the table.
StartOnly ==
    /\ ~up
    /\ up' = TRUE
    /\ UNCHANGED <<rows, jobs, queue, pills, wpc, wjob>>

\* __init__, on the first request that needs the queue.  If the store raises
\* there is no queue, and the next request tries again.
Start ==
    /\ ~up
    /\ rows' = FailedStale
    /\ up' = TRUE
    /\ UNCHANGED <<jobs, queue, pills, wpc, wjob>>

\* The process dies, at whatever point; only the table is left.
Crash ==
    /\ up
    /\ up' = FALSE
    /\ EmptyMemory
    /\ UNCHANGED rows

CleanedRecords == [j \in Jobs |->
    IF Retention > 0 /\ jobs[j].fin > Retention THEN NoRecord ELSE jobs[j]]

Full == Len(queue) >= MaxQueueSize

Inserted(j, status) == [Cleaned EXCEPT ![j] = Now(status)]

\* A faulty variant: the record goes in before the row, and stays there when
\* the store raises.
SubmitRecordFirst(j) ==
    /\ up /\ pills = Unset
    /\ rows[j].status = "none" /\ jobs[j].status = "none"
    /\ \/ /\ ~Full
          /\ rows' = Inserted(j, "queued")
          /\ jobs' = [CleanedRecords EXCEPT ![j].status = "queued"]
          /\ queue' = Append(queue, j)
       \/ /\ Full
          /\ rows' = Inserted(j, "failed")
          /\ jobs' = CleanedRecords
          /\ UNCHANGED queue
       \/ /\ StoreErrors
          /\ rows' = Cleaned
          /\ jobs' = [CleanedRecords EXCEPT ![j].status = "queued"]
          /\ UNCHANGED queue
    /\ UNCHANGED <<up, pills, wpc, wjob>>

\* submit, under _lock; after the shutdown flag it raises and changes nothing.
\* The third case is the store raising: in the INSERT, or after it (the get_job
\* of create_job, or the mark_failed of a job that found no room), which
\* leaves a queued row that no thread knows of.
Submit(j) ==
    /\ up /\ pills = Unset
    /\ rows[j].status = "none"
    /\ \/ /\ ~Full
          /\ rows' = Inserted(j, "queued")
          /\ jobs' = [CleanedRecords EXCEPT ![j].status = "queued"]
          /\ queue' = Append(queue, j)
       \/ /\ Full
          /\ rows' = Inserted(j, "failed")
          /\ jobs' = CleanedRecords
          /\ UNCHANGED queue
       \/ /\ StoreErrors
          /\ rows' \in {rows, Cleaned, Inserted(j, "queued")}
          /\ jobs' = CleanedRecords
          /\ UNCHANGED queue
    /\ UNCHANGED <<up, pills, wpc, wjob>>

\* get_job and list_jobs ask the table only.
ReadJobs ==
    /\ up
    /\ rows' = Cleaned
    /\ UNCHANGED memory

ShutdownBegin ==
    /\ up /\ pills = Unset
    /\ pills' = Cardinality(Workers)
    /\ UNCHANGED <<rows, jobs, queue, up, wpc, wjob>>

\* A faulty variant: one pill, whatever the number of workers.
ShutdownPutOne ==
    /\ pills > 0
    /\ ~Full
    /\ queue' = Append(queue, Pill)
    /\ pills' = 0
    /\ UNCHANGED <<rows, jobs, up, wpc, wjob>>

\* put(None) without _lock: it waits for as long as the queue is full.
ShutdownPut ==
    /\ pills > 0
    /\ ~Full
    /\ queue' = Append(queue, Pill)
    /\ pills' = pills - 1
    /\ UNCHANGED <<rows, jobs, up, wpc, wjob>>
-----------------------------------------------------------------------------
\* _worker_loop and _run_job.

WorkerAt(w, from, to) ==
    /\ wpc[w] = from
    /\ wpc' = [wpc EXCEPT ![w] = to]

\* _queue.get; the loop ends at a pill.
Take(w) ==
    /\ up /\ queue # <<>>
    /\ queue' = Tail(queue)
    /\ IF Head(queue) = Pill
       THEN WorkerAt(w, "idle", "exited") /\ UNCHANGED wjob
       ELSE WorkerAt(w, "idle", "taken") /\ wjob' = [wjob EXCEPT ![w] = Head(queue)]
    /\ UNCHANGED <<rows, jobs, up, pills>>

\* A mark changes the record and then the row; when the store raises, the
\* record is changed and the thread ends.
Mark(w, status, fin, from, to, job) ==
    /\ jobs' = [jobs EXCEPT ![wjob[w]] = [status |-> status, fin |-> fin]]
    /\ \/ /\ rows' = Marked(wjob[w], status)
          /\ WorkerAt(w, from, to)
          /\ wjob' = [wjob EXCEPT ![w] = job]
       \/ /\ StoreErrors
          /\ WorkerAt(w, from, "dead")
          /\ UNCHANGED <<rows, wjob>>
    /\ UNCHANGED <<queue, up, pills>>

\* A faulty variant: the row is marked before the record, so that a thread
\* that dies in between leaves the row ahead.
MarkRunningRowFirst(w) ==
    /\ wpc[w] = "taken"
    /\ rows' = Marked(wjob[w], "running")
    /\ \/ /\ jobs' = [jobs EXCEPT ![wjob[w]].status = "running"]
          /\ WorkerAt(w, "taken", "running")
       \/ /\ StoreErrors
          /\ WorkerAt(w, "taken", "dead")
          /\ UNCHANGED jobs
    /\ UNCHANGED <<queue, up, pills, wjob>>

\* The record is there: a cleanup takes finished ones only.
MarkRunning(w) ==
    /\ wpc[w] = "taken"
    /\ Mark(w, "running", Unset, "taken", "running", wjob[w])

\* _runner returns or raises.
Execute(w) ==
    /\ \E outcome \in {"ok", "err"} : WorkerAt(w, "running", outcome)
    /\ UNCHANGED <<rows, jobs, queue, up, pills, wjob>>

MarkSucceeded(w) == wpc[w] = "ok" /\ Mark(w, "succeeded", 0, "ok", "idle", NoJob)
MarkFailed(w) == wpc[w] = "err" /\ Mark(w, "failed", 0, "err", "idle", NoJob)
-----------------------------------------------------------------------------
Aged(age, cap) == IF age = Unset \/ age = cap THEN age ELSE age + 1

Tick ==
    /\ rows' = [j \in Jobs |-> [rows[j] EXCEPT
                    !.age = IF rows[j].status \in Active \cup Finished
                            THEN Aged(@, AgeCap) ELSE @]]
    /\ jobs' = [j \in Jobs |-> [jobs[j] EXCEPT !.fin = Aged(@, Retention + 1)]]
    /\ UNCHANGED <<queue, up, pills, wpc, wjob>>

Work(w) ==
    \/ Take(w) \/ MarkRunning(w) \/ Execute(w)
    \/ MarkSucceeded(w) \/ MarkFailed(w)

Next ==
    \/ Start \/ Crash
    \/ \E j \in Jobs : Submit(j)
    \/ ReadJobs
    \/ ShutdownBegin \/ ShutdownPut
    \/ \E w \in Workers : Work(w)
    \/ Tick

Spec == Init /\ [][Next]_vars

\* A process that is down is started again and asked for its queue, time
\* passes, and threads that can go on go on (the calls of a runner have
\* timeouts).  Nobody has to submit, and nothing has to fail.
Fairness ==
    /\ WF_vars(Start) /\ WF_vars(Tick) /\ WF_vars(ShutdownPut)
    /\ \A w \in Workers : WF_vars(Work(w))

FairSpec == Spec /\ Fairness
-----------------------------------------------------------------------------
InQueue(j) == \E i \in 1 .. Len(queue) : queue[i] = j
At(w, j, places) == wjob[w] = j /\ wpc[w] \in places

\* A record says queued exactly as long as one thread may still come to it, and
\* running exactly as long as one thread has it or died of marking it; no job
\* is run by two threads.
RecordsMatchThreads ==
    \A j \in Jobs :
        /\ jobs[j].status = "queued" <=>
                InQueue(j) \/ \E w \in Workers : At(w, j, {"taken"})
        /\ jobs[j].status = "running" =>
                \E w \in Workers : At(w, j, {"running", "ok", "err", "dead"})
        /\ \A w \in Workers : At(w, j, {"running", "ok", "err"}) =>
                jobs[j].status = "running"
        /\ \A v, w \in Workers :
                wjob[v] = j /\ wjob[w] = j /\ wpc[v] # "dead" => v = w
        /\ \A i, k \in 1 .. Len(queue) : queue[i] = j /\ queue[k] = j => i = k
        /\ InQueue(j) => \A w \in Workers : wjob[w] # j

\* The table is never ahead of the process, and behind it only by the one step
\* that a thread died of: no job looks finished that is not, and no job that a
\* thread can still come to looks anything but what it is.
RowsFollowRecords ==
    \A j \in Jobs : jobs[j].status # "none" =>
        \/ rows[j].status = jobs[j].status
        \/ rows[j].status = "deleted" /\ jobs[j].status \in Finished
        \/ /\ \E w \in Workers : At(w, j, {"dead"})
           /\ \/ rows[j].status = "queued" /\ jobs[j].status = "running"
              \/ rows[j].status = "running" /\ jobs[j].status \in Finished

\* Why these hold.
ThreadsInv ==
    /\ \A w \in Workers : wjob[w] = NoJob <=> wpc[w] \in {"idle", "exited"}
    /\ ~up => /\ pills = Unset /\ queue = <<>>
              /\ \A w \in Workers : wpc[w] = "idle"
              /\ \A j \in Jobs : jobs[j].status = "none"

AgesInv ==
    \A j \in Jobs : jobs[j].status \in {"none", "queued", "running"} => jobs[j].fin = Unset

\* A job without a row has no record, and no thread has died of it.
KnownInv ==
    \A j \in Jobs : rows[j].status = "none" =>
        jobs[j].status = "none" /\ \A w \in Workers : wjob[w] # j

InductiveInv ==
    TypeOK /\ ThreadsInv /\ AgesInv /\ KnownInv /\ RecordsMatchThreads /\ RowsFollowRecords

\* What the table shows of a job goes forward only, through crashes, restarts
\* and store errors.
TableView == [j \in Jobs |-> IF rows[j].status = "deleted" THEN "expired" ELSE rows[j].status]

Promise == INSTANCE StoredJobPromise WITH view <- TableView

KeepsPromise == Promise!StoredSpec

\* One thread that is left is enough: an accepted job is taken up, unless the
\* process dies or every thread has died of a store error.
SurvivorsTakeJobs ==
    \A j \in Jobs :
        jobs[j].status = "queued" ~>
            \/ jobs[j].status # "queued"
            \/ \A w \in Workers : wpc[w] = "dead"

\* A process that starts again and again leaves no job of an earlier one
\* waiting: what was queued or running when it died is failed in the end,
\* whatever the store did to it.
RestartsResolveRows ==
    StaleAfter > 0 /\ []<>(~up) => \A j \in Jobs : []<>(rows[j].status \notin Active)

\* After shutdown every thread ends, although it may find the queue full of
\* jobs, unless a thread that should have made room has died.
ShutdownCompletes ==
    pills # Unset ~> \/ pills = Unset
                     \/ \A w \in Workers : wpc[w] = "exited"
                     \/ \E w \in Workers : wpc[w] = "dead"
=============================================================================
