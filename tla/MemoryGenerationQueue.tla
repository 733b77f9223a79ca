----------------------- MODULE MemoryGenerationQueue -----------------------
(***************************************************************************)
(* Generation jobs inside one API process: InMemoryGenerationJobQueue.     *)
(* The dict of jobs is touched only under _lock, so whatever one method    *)
(* does under it is one step; the queue.Queue has a lock of its own, so a  *)
(* worker's get and its _mark_running are two steps, and so are the        *)
(* shutdown flag and each of the pills that follow it.                     *)
(***************************************************************************)
EXTENDS Integers, Sequences, FiniteSets

CONSTANTS
    Jobs,           \* job ids (uuid4: never used twice)
    Workers,        \* the worker threads, all started by __init__
    Closers,        \* threads that call shutdown
    Pill,           \* None in the queue: the worker that takes it ends
    NoJob,          \* "holds no job"
    MaxQueueSize,   \* generation_job_max_queue_size, the queue's maxsize
    Retention       \* generation_job_retention_seconds, in ticks; 0 disables

ASSUME MemoryAssumption ==
    /\ Pill \notin Jobs /\ NoJob \notin Jobs
    /\ MaxQueueSize \in Nat \ {0}
    /\ Retention \in Nat
    /\ IsFiniteSet(Workers) /\ Workers # {}

VARIABLES
    jobs,       \* _jobs: status and age since finished_epoch of each record
    queue,      \* _queue
    shutdown,   \* _shutdown
    wpc,        \* where each worker thread is
    wjob,       \* the id it has taken
    cpc,        \* where each closer is in shutdown
    pills       \* the pills it has still to put

workerVars == <<wpc, wjob>>
closerVars == <<cpc, pills>>
vars == <<jobs, queue, shutdown, wpc, wjob, cpc, pills>>

Unset == -1
AgeCap == Retention + 1

\* "none": not submitted yet, or refused; "deleted": accepted and cleaned up.
\* To the code both are ids that are not in _jobs.
Stored == {"queued", "running", "succeeded", "failed"}
Record == [status : Stored \cup {"none", "deleted"}, fin : Unset .. AgeCap]
NoRecord == [status |-> "none", fin |-> Unset]

WorkerStates == {"idle", "taken", "running", "ok", "err", "exited"}
CloserStates == {"out", "putting", "joining", "returned"}

TypeOK ==
    /\ jobs \in [Jobs -> Record]
    /\ queue \in Seq(Jobs \cup {Pill})
    /\ shutdown \in BOOLEAN
    /\ wpc \in [Workers -> WorkerStates]
    /\ wjob \in [Workers -> Jobs \cup {NoJob}]
    /\ cpc \in [Closers -> CloserStates]
    /\ pills \in [Closers -> 0 .. Cardinality(Workers)]

Init ==
    /\ jobs = [j \in Jobs |-> NoRecord]
    /\ queue = <<>>
    /\ shutdown = FALSE
    /\ wpc = [w \in Workers |-> "idle"]
    /\ wjob = [w \in Workers |-> NoJob]
    /\ cpc = [c \in Closers |-> "out"]
    /\ pills = [c \in Closers |-> 0]
-----------------------------------------------------------------------------
\* A faulty variant: jobs expire whether or not they are finished.
ExpiredUnfinished(job) == Retention > 0 /\ job.status \in Stored

\* _cleanup_expired_locked.
Expired(job) == Retention > 0 /\ job.fin > Retention

Cleaned == [j \in Jobs |->
    IF Expired(jobs[j]) THEN [status |-> "deleted", fin |-> Unset] ELSE jobs[j]]

Full == Len(queue) >= MaxQueueSize

\* A faulty variant: the flag is not looked at.
SubmitAlways ==
    /\ \E j \in Jobs :
        /\ jobs[j].status = "none"
        /\ IF Full
           THEN jobs' = Cleaned /\ UNCHANGED queue
           ELSE /\ jobs' = [Cleaned EXCEPT ![j].status = "queued"]
                /\ queue' = Append(queue, j)
    /\ UNCHANGED <<shutdown, workerVars, closerVars>>

\* A faulty variant: the record of a job that found no room is left behind.
SubmitKeepsRefused ==
    /\ ~shutdown
    /\ \E j \in Jobs :
        /\ jobs[j].status = "none"
        /\ jobs' = [Cleaned EXCEPT ![j].status = "queued"]
        /\ queue' = IF Full THEN queue ELSE Append(queue, j)
    /\ UNCHANGED <<shutdown, workerVars, closerVars>>

\* A faulty variant: the queue takes any number of jobs.
SubmitUnbounded ==
    /\ ~shutdown
    /\ \E j \in Jobs :
        /\ jobs[j].status = "none"
        /\ jobs' = [Cleaned EXCEPT ![j].status = "queued"]
        /\ queue' = Append(queue, j)
    /\ UNCHANGED <<shutdown, workerVars, closerVars>>

\* submit, all of it under _lock.  After the flag it raises and changes
\* nothing.  The record goes in before put_nowait and comes out again if that
\* raises Full, which nobody can see.
Submit ==
    /\ ~shutdown
    /\ \E j \in Jobs :
        /\ jobs[j].status = "none"
        /\ IF Full
           THEN jobs' = Cleaned /\ UNCHANGED queue
           ELSE /\ jobs' = [Cleaned EXCEPT ![j].status = "queued"]
                /\ queue' = Append(queue, j)
    /\ UNCHANGED <<shutdown, workerVars, closerVars>>

\* get_job and list_jobs.
ReadJobs ==
    /\ jobs' = Cleaned
    /\ UNCHANGED <<queue, shutdown, workerVars, closerVars>>
-----------------------------------------------------------------------------
\* shutdown.

\* Under _lock: a second caller returns at once.
ShutdownBegin(c) ==
    /\ cpc[c] = "out"
    /\ IF shutdown
       THEN cpc' = [cpc EXCEPT ![c] = "returned"] /\ UNCHANGED <<shutdown, pills>>
       ELSE /\ shutdown' = TRUE
            /\ cpc' = [cpc EXCEPT ![c] = "putting"]
            /\ pills' = [pills EXCEPT ![c] = Cardinality(Workers)]
    /\ UNCHANGED <<jobs, queue, workerVars>>

\* A faulty variant: one pill, whatever the number of workers.
ShutdownPutOne(c) ==
    /\ cpc[c] = "putting"
    /\ ~Full
    /\ queue' = Append(queue, Pill)
    /\ pills' = [pills EXCEPT ![c] = 0]
    /\ cpc' = [cpc EXCEPT ![c] = "joining"]
    /\ UNCHANGED <<jobs, shutdown, workerVars>>

\* put(None) without _lock: it waits for as long as the queue is full.
ShutdownPut(c) ==
    /\ cpc[c] = "putting"
    /\ ~Full
    /\ queue' = Append(queue, Pill)
    /\ pills' = [pills EXCEPT ![c] = @ - 1]
    /\ cpc' = [cpc EXCEPT ![c] = IF pills[c] = 1 THEN "joining" ELSE @]
    /\ UNCHANGED <<jobs, shutdown, workerVars>>

\* The joins have a timeout: shutdown returns whether or not the workers ended.
ShutdownJoin(c) ==
    /\ cpc[c] = "joining"
    /\ cpc' = [cpc EXCEPT ![c] = "returned"]
    /\ UNCHANGED <<jobs, queue, shutdown, workerVars, pills>>
-----------------------------------------------------------------------------
\* _worker_loop.

WorkerAt(w, from, to) ==
    /\ wpc[w] = from
    /\ wpc' = [wpc EXCEPT ![w] = to]

\* _queue.get; the loop ends at a pill.
Take(w) ==
    /\ queue # <<>>
    /\ queue' = Tail(queue)
    /\ IF Head(queue) = Pill
       THEN WorkerAt(w, "idle", "exited") /\ UNCHANGED wjob
       ELSE WorkerAt(w, "idle", "taken") /\ wjob' = [wjob EXCEPT ![w] = Head(queue)]
    /\ UNCHANGED <<jobs, shutdown, closerVars>>

Kept(j) == jobs[j].status \in Stored

Release(w) == wjob' = [wjob EXCEPT ![w] = NoJob]

\* _mark_running; the job is skipped if its record is gone.
MarkRunning(w) ==
    /\ wpc[w] = "taken"
    /\ IF Kept(wjob[w])
       THEN /\ WorkerAt(w, "taken", "running")
            /\ jobs' = [jobs EXCEPT ![wjob[w]].status = "running"]
            /\ UNCHANGED wjob
       ELSE WorkerAt(w, "taken", "idle") /\ Release(w) /\ UNCHANGED jobs
    /\ UNCHANGED <<queue, shutdown, closerVars>>

\* A faulty variant: what the runner raises ends the thread.
ExecuteUncaught(w) ==
    /\ \/ WorkerAt(w, "running", "ok") /\ UNCHANGED wjob
       \/ WorkerAt(w, "running", "exited") /\ Release(w)
    /\ UNCHANGED <<jobs, queue, shutdown, closerVars>>

\* _runner returns or raises.
Execute(w) ==
    /\ \E outcome \in {"ok", "err"} : WorkerAt(w, "running", outcome)
    /\ UNCHANGED <<jobs, queue, shutdown, wjob, closerVars>>

\* _mark_succeeded and _mark_failed.
Finish(w, from, status) ==
    /\ WorkerAt(w, from, "idle")
    /\ Release(w)
    /\ jobs' = IF Kept(wjob[w])
               THEN [jobs EXCEPT ![wjob[w]] = [status |-> status, fin |-> 0]]
               ELSE jobs
    /\ UNCHANGED <<queue, shutdown, closerVars>>

MarkSucceeded(w) == Finish(w, "ok", "succeeded")
MarkFailed(w) == Finish(w, "err", "failed")
-----------------------------------------------------------------------------
Older(age) == IF age = Unset \/ age = AgeCap THEN age ELSE age + 1

Tick ==
    /\ jobs' = [j \in Jobs |-> [jobs[j] EXCEPT !.fin = Older(@)]]
    /\ UNCHANGED <<queue, shutdown, workerVars, closerVars>>

Work(w) ==
    \/ Take(w) \/ MarkRunning(w) \/ Execute(w)
    \/ MarkSucceeded(w) \/ MarkFailed(w)

Close(c) == ShutdownPut(c) \/ ShutdownJoin(c)

Next ==
    \/ Submit
    \/ ReadJobs
    \/ \E c \in Closers : ShutdownBegin(c) \/ Close(c)
    \/ \E w \in Workers : Work(w)
    \/ Tick

Spec == Init /\ [][Next]_vars

\* Threads that can go on go on: the runner returns (its calls have timeouts),
\* and room in the queue is a closer's alone once it has set the flag.  Nobody
\* has to submit or to call shutdown.
Fairness ==
    /\ \A w \in Workers : WF_vars(Work(w))
    /\ \A c \in Closers : WF_vars(Close(c))

FairSpec == Spec /\ Fairness
-----------------------------------------------------------------------------
InQueue(j) == \E i \in 1 .. Len(queue) : queue[i] = j
HeldBy(w, j) == wjob[w] = j

\* A record says queued exactly as long as one worker may still come to it,
\* and running exactly as long as one worker has it: no job is lost, and none
\* is run by two.
RecordsMatchThreads ==
    \A j \in Jobs :
        /\ jobs[j].status = "queued" <=>
                InQueue(j) \/ \E w \in Workers : HeldBy(w, j) /\ wpc[w] = "taken"
        /\ jobs[j].status = "running" <=>
                \E w \in Workers : HeldBy(w, j) /\ wpc[w] \in {"running", "ok", "err"}
        /\ \A v, w \in Workers : HeldBy(v, j) /\ HeldBy(w, j) => v = w
        /\ \A i, k \in 1 .. Len(queue) : queue[i] = j /\ queue[k] = j => i = k
        /\ InQueue(j) => \A w \in Workers : ~HeldBy(w, j)

\* What was accepted is run before the threads are gone: no job is accepted
\* behind a pill.
DrainedBeforeExit ==
    (\A w \in Workers : wpc[w] = "exited") =>
        \A j \in Jobs : jobs[j].status \notin {"queued", "running"}

\* Why these hold: the inductive invariant, in parts.

\* A thread has a job exactly between its get and the end of the run; a closer
\* has raised the flag and pills left while it is putting them.
ThreadsInv ==
    /\ \A w \in Workers : wjob[w] = NoJob <=> wpc[w] \in {"idle", "exited"}
    /\ \A c \in Closers : cpc[c] = "putting" => shutdown /\ pills[c] > 0

\* Only a finished record has a finish time.
AgesInv ==
    \A j \in Jobs :
        jobs[j].status \in {"none", "queued", "running"} => jobs[j].fin = Unset

\* No pill before the flag, no job behind a pill, and nothing but pills once a
\* thread has taken one.
PillsInv ==
    /\ ~shutdown => /\ \A i \in 1 .. Len(queue) : queue[i] # Pill
                    /\ \A w \in Workers : wpc[w] # "exited"
    /\ \A i, k \in 1 .. Len(queue) : i < k /\ queue[i] = Pill => queue[k] = Pill
    /\ (\E w \in Workers : wpc[w] = "exited") =>
            \A i \in 1 .. Len(queue) : queue[i] = Pill

InductiveInv == TypeOK /\ ThreadsInv /\ AgesInv /\ RecordsMatchThreads /\ PillsInv

\* maxsize bounds the waiting jobs, the threads the ones at work.
ActiveBounded ==
    Cardinality({j \in Jobs : jobs[j].status \in {"queued", "running"}})
        <= MaxQueueSize + Cardinality(Workers)

\* The same promise as the RQ backend makes.
ClientView ==
    [j \in Jobs |-> IF jobs[j].status = "deleted" THEN "expired" ELSE jobs[j].status]

Promise == INSTANCE JobPromise WITH view <- ClientView

KeepsPromise == Promise!Spec

\* An accepted job is finished, shutdown or not.
AcceptedJobsFinish ==
    \A j \in Jobs :
        jobs[j].status \in {"queued", "running"}
            ~> jobs[j].status \in {"succeeded", "failed", "deleted"}

\* A call of shutdown returns, although it may find the queue full of jobs,
\* and all the threads end.
ShutdownCompletes ==
    /\ \A c \in Closers : cpc[c] = "putting" ~> cpc[c] = "returned"
    /\ shutdown ~> \A w \in Workers : wpc[w] = "exited"
=============================================================================
