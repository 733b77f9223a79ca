------------------------- MODULE RQGenerationJobs -------------------------
(***************************************************************************)
(* Generation jobs on the Redis/RQ backend: API threads submit            *)
(* (RedisRQGenerationJobQueue.submit), worker processes run               *)
(* (scripts/run_generation_worker.py, app/workers/generation_rq.py), and    *)
(* both share the generation_jobs table.  Every call to the table or to     *)
(* Redis is a step of its own; anything may happen between two of them.     *)
(***************************************************************************)
EXTENDS GenerationJobStore, Sequences

CONSTANTS
    Submitters,     \* API threads handling POST /test-cases/generation-jobs
    Workers,        \* RQ worker processes
    NoJob,          \* "holds no job"
    MaxQueueSize,   \* generation_job_max_queue_size
    RunLimit,       \* rq_job_timeout_seconds, in ticks
    Faults          \* whether processes may die and store calls may raise

ASSUME SystemAssumption ==
    /\ NoJob \notin Jobs
    /\ MaxQueueSize \in Nat \ {0}
    /\ RunLimit \in Nat
    /\ Faults \in BOOLEAN
    /\ IsFiniteSet(Submitters) /\ Submitters # {}
    /\ IsFiniteSet(Jobs)

VARIABLES
    rows,    \* the generation_jobs table
    rq,      \* the RQ queue in Redis: a sequence of job ids
    spc,     \* where each submitter is in submit
    sjob,    \* the job it is submitting
    wpc,     \* where each worker is
    wjob,    \* the job its work horse holds
    wage,    \* ticks since its run began (RQ's death penalty timer)
    stale,   \* the ids a starting worker's recovery has selected
    fate     \* history: what became of the submission of each id

storeVars == <<rows>>
submitVars == <<spc, sjob>>
workerVars == <<wpc, wjob, wage, stale>>
vars == <<rows, rq, spc, sjob, wpc, wjob, wage, stale, fate>>

SubmitStates == {"idle", "checked", "created", "refused", "enqueued", "stored"}
WorkerStates == {"down", "recovering", "idle", "dequeued", "loaded",
                 "running", "ok", "err"}
RunStates == {"running", "ok", "err"}
HoldStates == {"dequeued", "loaded"} \cup RunStates

\* An id is unused, then created (a row, not yet offered to Redis), then
\* refused (enqueue_call raised: the client gets a 503) or promised (it did
\* not).  uuid4 never repeats an id, so no id comes back to unused.
Fates == {"unused", "created", "refused", "promised"}

TypeOK ==
    /\ rows \in Table
    /\ rq \in Seq(Jobs)
    /\ spc \in [Submitters -> SubmitStates]
    /\ sjob \in [Submitters -> Jobs \cup {NoJob}]
    /\ wpc \in [Workers -> WorkerStates]
    /\ wjob \in [Workers -> Jobs \cup {NoJob}]
    /\ wage \in [Workers -> 0 .. RunLimit]
    /\ stale \in [Workers -> SUBSET Jobs]
    /\ fate \in [Jobs -> Fates]

Init ==
    /\ rows = EmptyTable
    /\ rq = <<>>
    /\ spc = [s \in Submitters |-> "idle"]
    /\ sjob = [s \in Submitters |-> NoJob]
    /\ wpc = [w \in Workers |-> "down"]
    /\ wjob = [w \in Workers |-> NoJob]
    /\ wage = [w \in Workers |-> 0]
    /\ stale = [w \in Workers |-> {}]
    /\ fate = [j \in Jobs |-> "unused"]
-----------------------------------------------------------------------------
\* POST /test-cases/generation-jobs.

SubmitAt(s, from, to, j) ==
    /\ spc[s] = from
    /\ spc' = [spc EXCEPT ![s] = to]
    /\ sjob' = [sjob EXCEPT ![s] = j]

\* count_active_jobs, which cleans up first; at the limit submit raises
\* GenerationJobQueueFullError and nothing else changes.
SubmitCheck(s) ==
    /\ LET table == Cleaned(rows) IN
        /\ rows' = table
        /\ IF CountActive(table) >= MaxQueueSize
           THEN SubmitAt(s, "idle", "idle", NoJob)
           ELSE SubmitAt(s, "idle", "checked", NoJob)
    /\ UNCHANGED <<rq, workerVars, fate>>

\* create_job.  It reads the row back in a second transaction; no statement
\* of this table can remove or change a queued row before it is enqueued, so
\* the read back finds it.
SubmitCreate(s) ==
    /\ \E j \in Jobs :
        /\ fate[j] = "unused"
        /\ fate' = [fate EXCEPT ![j] = "created"]
        /\ rows' = Created(rows, j)
        /\ SubmitAt(s, "checked", "created", j)
    /\ UNCHANGED <<rq, workerVars>>

\* A faulty variant: an enqueue whose answer was lost is tried again.
SubmitEnqueueTwice(s) ==
    /\ SubmitAt(s, "created", "enqueued", sjob[s])
    /\ rq' = rq \o <<sjob[s], sjob[s]>>
    /\ fate' = [fate EXCEPT ![sjob[s]] = "promised"]
    /\ UNCHANGED <<rows, workerVars>>

\* enqueue_call returns.
SubmitEnqueue(s) ==
    /\ SubmitAt(s, "created", "enqueued", sjob[s])
    /\ rq' = Append(rq, sjob[s])
    /\ fate' = [fate EXCEPT ![sjob[s]] = "promised"]
    /\ UNCHANGED <<rows, workerVars>>

\* enqueue_call raises: before Redis has the job, or after, when only the
\* answer was lost.
SubmitEnqueueError(s) ==
    /\ SubmitAt(s, "created", "refused", sjob[s])
    /\ fate' = [fate EXCEPT ![sjob[s]] = "refused"]
    /\ \/ rq' = rq
       \/ rq' = Append(rq, sjob[s])
    /\ UNCHANGED <<rows, workerVars>>

\* Both except branches: mark_failed, then raise (503 to the client).
SubmitMarkFailed(s) ==
    /\ SubmitAt(s, "refused", "idle", NoJob)
    /\ rows' = MarkedFailed(rows, sjob[s], "queue")
    /\ UNCHANGED <<rq, workerVars, fate>>

\* A faulty variant: set_queue_job_id inside the try, so that when it raises
\* the job is marked failed although Redis has it.
SubmitSetQueueJobIdInTry(s) ==
    /\ \/ /\ SubmitAt(s, "enqueued", "stored", sjob[s])
          /\ rows' = WithQueueJobId(rows, sjob[s])
       \/ /\ SubmitAt(s, "enqueued", "idle", NoJob)
          /\ rows' = MarkedFailed(rows, sjob[s], "queue")
    /\ UNCHANGED <<rq, workerVars, fate>>

\* set_queue_job_id.
SubmitSetQueueJobId(s) ==
    /\ SubmitAt(s, "enqueued", "stored", sjob[s])
    /\ rows' = WithQueueJobId(rows, sjob[s])
    /\ UNCHANGED <<rq, workerVars, fate>>

\* get_job (with its cleanup) and the answer; the row may be gone by now,
\* then the answer is the job as create_job returned it.
SubmitReply(s) ==
    /\ SubmitAt(s, "stored", "idle", NoJob)
    /\ rows' = Cleaned(rows)
    /\ UNCHANGED <<rq, workerVars, fate>>

\* The API process dies, or a store call raises ("database is locked"): the
\* request ends wherever it is.
SubmitAborts(s) ==
    /\ Faults
    /\ spc[s] # "idle"
    /\ spc' = [spc EXCEPT ![s] = "idle"]
    /\ sjob' = [sjob EXCEPT ![s] = NoJob]
    /\ UNCHANGED <<rows, rq, workerVars, fate>>

\* get_job, list_jobs and count_jobs_by_status from any other request.
ReadJobs ==
    /\ rows' = Cleaned(rows)
    /\ UNCHANGED <<rq, submitVars, workerVars, fate>>
-----------------------------------------------------------------------------
\* A worker process: scripts/run_generation_worker.py, then RQ's work loop.

WorkerAt(w, from, to) ==
    /\ wpc[w] \in from
    /\ wpc' = [wpc EXCEPT ![w] = to]

Holding(w) == wpc[w] \in HoldStates

\* recover_stale_generation_jobs, the SELECT.
RecoverSelect(w) ==
    /\ WorkerAt(w, {"down"}, "recovering")
    /\ stale' = [stale EXCEPT ![w] = StaleRunning(rows)]
    /\ UNCHANGED <<storeVars, rq, submitVars, wjob, wage, fate>>

\* The UPDATE of what was selected; then worker.work().
RecoverUpdate(w) ==
    /\ WorkerAt(w, {"recovering"}, "idle")
    /\ rows' = FailedStale(rows, stale[w])
    /\ stale' = [stale EXCEPT ![w] = {}]
    /\ UNCHANGED <<rq, submitVars, wjob, wage, fate>>

\* RQ hands the oldest job to one worker, once: no Retry is configured, and a
\* job whose work horse dies goes to the failed registry, not back to the queue.
Dequeue(w) ==
    /\ WorkerAt(w, {"idle"}, "dequeued")
    /\ rq # <<>>
    /\ wjob' = [wjob EXCEPT ![w] = Head(rq)]
    /\ rq' = Tail(rq)
    /\ UNCHANGED <<rows, submitVars, wage, stale, fate>>

\* get_request: with no row run_generation_job returns at once.
LoadRequest(w) ==
    /\ wpc[w] = "dequeued"
    /\ IF Present(rows, wjob[w])
       THEN WorkerAt(w, {"dequeued"}, "loaded") /\ UNCHANGED wjob
       ELSE WorkerAt(w, {"dequeued"}, "idle") /\ wjob' = [wjob EXCEPT ![w] = NoJob]
    /\ UNCHANGED <<rows, rq, submitVars, wage, stale, fate>>

\* mark_running; the timer starts with it.
MarkRunning(w) ==
    /\ WorkerAt(w, {"loaded"}, "running")
    /\ rows' = MarkedRunning(rows, wjob[w])
    /\ wage' = [wage EXCEPT ![w] = 0]
    /\ UNCHANGED <<rq, submitVars, wjob, stale, fate>>

\* A faulty variant: what execute_generation raises is not caught.
ExecuteUncaught(w) ==
    /\ \/ WorkerAt(w, {"running"}, "ok") /\ UNCHANGED <<wjob, wage>>
       \/ /\ WorkerAt(w, {"running"}, "idle")
          /\ wjob' = [wjob EXCEPT ![w] = NoJob]
          /\ wage' = [wage EXCEPT ![w] = 0]
    /\ UNCHANGED <<rows, rq, submitVars, stale, fate>>

\* execute_generation returns, or raises (a gate, the LLM, an invalid output,
\* RQ's JobTimeoutException, anything).
Execute(w) ==
    /\ \E outcome \in {"ok", "err"} : WorkerAt(w, {"running"}, outcome)
    /\ UNCHANGED <<rows, rq, submitVars, wjob, wage, stale, fate>>

Release(w) ==
    /\ wjob' = [wjob EXCEPT ![w] = NoJob]
    /\ wage' = [wage EXCEPT ![w] = 0]

MarkSucceeded(w) ==
    /\ WorkerAt(w, {"ok"}, "idle")
    /\ rows' = MarkedSucceeded(rows, wjob[w])
    /\ Release(w)
    /\ UNCHANGED <<rq, submitVars, stale, fate>>

MarkFailed(w) ==
    /\ WorkerAt(w, {"err"}, "idle")
    /\ rows' = MarkedFailed(rows, wjob[w], "run")
    /\ Release(w)
    /\ UNCHANGED <<rq, submitVars, stale, fate>>

\* The work horse is killed, or a store call of run_generation_job raises:
\* the job is given up with its row as it is, and the worker goes on.
HorseDies(w) ==
    /\ Faults
    /\ WorkerAt(w, HoldStates, "idle")
    /\ Release(w)
    /\ UNCHANGED <<rows, rq, submitVars, stale, fate>>

\* The worker process stops or is killed, its work horse with it; the
\* container starts it again (restart: unless-stopped).
WorkerDies(w) ==
    /\ Faults
    /\ WorkerAt(w, WorkerStates \ {"down"}, "down")
    /\ Release(w)
    /\ stale' = [stale EXCEPT ![w] = {}]
    /\ UNCHANGED <<rows, rq, submitVars, fate>>
-----------------------------------------------------------------------------
Running(w) == wpc[w] \in RunStates

\* Time passes for the timestamps and for the timers.  A run that has used up
\* RunLimit ends (in success, failure or death) before time goes on.
Tick ==
    /\ \A w \in Workers : Running(w) => wage[w] < RunLimit
    /\ rows' = Aged(rows)
    /\ wage' = [w \in Workers |-> IF Running(w) THEN wage[w] + 1 ELSE wage[w]]
    /\ UNCHANGED <<rq, submitVars, wpc, wjob, stale, fate>>

Submit(s) ==
    \/ SubmitCheck(s) \/ SubmitCreate(s)
    \/ SubmitEnqueue(s) \/ SubmitEnqueueError(s)
    \/ SubmitMarkFailed(s) \/ SubmitSetQueueJobId(s) \/ SubmitReply(s)

Recover(w) == RecoverSelect(w) \/ RecoverUpdate(w)

Work(w) ==
    \/ Dequeue(w) \/ LoadRequest(w) \/ MarkRunning(w)
    \/ Execute(w) \/ MarkSucceeded(w) \/ MarkFailed(w)

Next ==
    \/ \E s \in Submitters : Submit(s) \/ SubmitAborts(s)
    \/ \E w \in Workers : Recover(w) \/ Work(w) \/ HorseDies(w) \/ WorkerDies(w)
    \/ ReadJobs
    \/ Tick

Spec == Init /\ [][Next]_vars

\* Time passes, a worker that may go on goes on, and one that is down is
\* started.  Clients need not submit and nothing need fail.
Fairness ==
    /\ WF_vars(Tick)
    /\ \A w \in Workers : WF_vars(Recover(w)) /\ WF_vars(Work(w))

FairSpec == Spec /\ Fairness
-----------------------------------------------------------------------------
Promised(j) == fate[j] = "promised"

\* The row of a job whose submission was not refused tells one story: a
\* queued row has no run, error or result, a running one has only a start, a
\* finished one has either a result or an error and did not finish before it
\* started.  (With the UPDATEs unguarded this rests on who may write when.)
Coherent(row) ==
    /\ row.status = "queued" =>
            row.start = Unset /\ row.fin = Unset /\ row.err = "none" /\ ~row.resp
    /\ row.status = "running" =>
            row.start # Unset /\ row.fin = Unset /\ row.err = "none" /\ ~row.resp
    /\ row.status = "succeeded" =>
            row.fin # Unset /\ row.fin <= row.start /\ row.err = "none" /\ row.resp
    /\ row.status = "failed" =>
            row.fin # Unset /\ row.fin <= row.start /\ row.err # "none" /\ ~row.resp

PromisedRowsCoherent == \A j \in Jobs : Promised(j) => Coherent(rows[j])

\* While a worker runs a promised job the row says running: neither the
\* recovery of another worker, nor a cleanup, nor the submitter touches it.
\* It takes a stale threshold no run can reach (RunLimit <= StaleAfter).
LiveJobsShowRunning ==
    \A w \in Workers :
        Running(w) /\ Promised(wjob[w]) => rows[wjob[w]].status = "running"

\* The limit is checked in one transaction and the row created in another, so
\* it can be overrun, by the other submitters at most.  Jobs refused after
\* Redis had accepted them run without having been counted, and are excepted.
Counted == {j \in Jobs : rows[j].status \in ActiveStatuses /\ rows[j].err = "none"}

Backpressure == Cardinality(Counted) <= MaxQueueSize + Cardinality(Submitters) - 1

\* No job is started twice, however submissions, faults and recoveries
\* interleave: attempts never passes 1 and no two work horses share a job.
StartedOnce ==
    /\ \A j \in Jobs : rows[j].attempts <= 1
    /\ \A v, w \in Workers :
        Holding(v) /\ Holding(w) /\ wjob[v] = wjob[w] => v = w

\* Why the above hold: the inductive invariant, in parts.

\* A submitter's job is where the submitter's place in submit says, and no two
\* submitters are about to enqueue the same id.
SubmissionInv ==
    \A s \in Submitters :
        /\ spc[s] = "created" => sjob[s] \in Jobs /\ fate[sjob[s]] = "created"
        /\ spc[s] = "refused" => sjob[s] \in Jobs /\ fate[sjob[s]] = "refused"
        /\ spc[s] \in {"enqueued", "stored"} =>
                sjob[s] \in Jobs /\ fate[sjob[s]] = "promised"
        /\ \A r \in Submitters :
                spc[s] = "created" /\ spc[r] = "created" /\ sjob[s] = sjob[r]
                    => s = r

Offered == {"refused", "promised"}

\* Redis delivers at most once: an id is in the queue or in one pair of hands.
DeliveryInv ==
    /\ \A i \in 1 .. Len(rq) : fate[rq[i]] \in Offered
    /\ \A i, k \in 1 .. Len(rq) : rq[i] = rq[k] => i = k
    /\ \A w \in Workers : Holding(w) =>
            /\ wjob[w] \in Jobs
            /\ fate[wjob[w]] \in Offered
            /\ \A i \in 1 .. Len(rq) : rq[i] # wjob[w]
            /\ \A v \in Workers : Holding(v) /\ wjob[v] = wjob[w] => v = w

\* Before its first run a row has no trace of one.
Fresh(j) ==
    /\ rows[j].attempts = 0
    /\ rows[j].start = Unset
    /\ rows[j].status \in {"absent", "queued", "failed"}
    /\ rows[j].status = "failed" => rows[j].err # "none"
    /\ Promised(j) => rows[j].status = "queued"

FreshInv ==
    /\ \A j \in Jobs : fate[j] = "unused" => rows[j] = NoRow
    /\ \A j \in Jobs : fate[j] = "created" =>
            /\ rows[j].status = "queued"
            /\ Coherent(rows[j])
            /\ Fresh(j)
    /\ \A i \in 1 .. Len(rq) : Fresh(rq[i])
    /\ \A w \in Workers : wpc[w] \in {"dequeued", "loaded"} => Fresh(wjob[w])

\* A row in running is no older than the run that a worker holds for it, and
\* is the row of a promised job for as long as the run lasts.
RunInv ==
    \A w \in Workers : Running(w) =>
        /\ rows[wjob[w]].status = "running" => rows[wjob[w]].start <= wage[w]
        /\ Promised(wjob[w]) => rows[wjob[w]].status = "running"

\* What a recovery has selected is in nobody's hands and will not be again.
RecoveryInv ==
    \A w \in Workers : \A j \in stale[w] :
        /\ wpc[w] = "recovering"
        /\ fate[j] \in Offered
        /\ \A i \in 1 .. Len(rq) : rq[i] # j
        /\ \A v \in Workers : Holding(v) => wjob[v] # j
        /\ Promised(j) => rows[j].status \in {"running", "failed", "absent"}

BaseInv == TypeOK /\ SubmissionInv /\ DeliveryInv

LifeInv ==
    /\ FreshInv
    /\ RunInv
    /\ RecoveryInv
    /\ \A j \in Jobs : rows[j].attempts <= 1
    /\ PromisedRowsCoherent

InductiveInv == BaseInv /\ LifeInv

\* Who has passed the check may still add a job.
Checked == {s \in Submitters : spc[s] = "checked"}

LimitInv ==
    Cardinality(Counted) + Cardinality(Checked)
        <= MaxQueueSize + Cardinality(Submitters) - 1

\* The client's view of the jobs it was promised.
ClientView ==
    [j \in Jobs |-> IF ~Promised(j) THEN "none"
                    ELSE IF Present(rows, j) THEN rows[j].status ELSE "expired"]

Promise == INSTANCE JobPromise WITH view <- ClientView

\* The visible life of a promised job goes one way, queued to running to
\* succeeded or failed to expired, with no step skipped or taken back.
KeepsPromise == Promise!Spec

\* Without faults every promised job is finished (or was, and has expired).
PromisedJobsFinish ==
    \A j \in Jobs :
        Promised(j) ~> rows[j].status \in {"succeeded", "failed", "absent"}

\* With faults a dead worker may leave a promised job in running.  As long as
\* worker starts complete their recovery again and again it does not stay so.
RestartsResolveRunning ==
    []<><<\E w \in Workers : RecoverUpdate(w)>>_vars
        => \A j \in Jobs :
            (Promised(j) /\ rows[j].status = "running")
                ~> rows[j].status # "running"
=============================================================================
