------------------------ MODULE GenerationJobStore ------------------------
(***************************************************************************)
(* The generation_jobs table and the statements that                       *)
(* app/services/generation_job_store.py runs against it, or, with the same *)
(* conditions and assignments, MySQLGenerationJobStore.  Each operator     *)
(* takes the table before a statement and returns the table after it; the  *)
(* statements are atomic, the sequences of statements are not, so the      *)
(* modules that use the table give every store call a step of its own.     *)
(*                                                                         *)
(* Timestamps are modelled by their age in ticks of a clock.  The code     *)
(* only ever compares them with "now minus a threshold", so an age may     *)
(* stop growing once it exceeds both thresholds, and no horizon has to be  *)
(* put on time.  A column that is NULL has the age Unset, and fails every  *)
(* comparison, as NULL does in SQL.                                        *)
(***************************************************************************)
EXTENDS Integers, FiniteSets

CONSTANTS
    Jobs,        \* job ids (uuid4 in the code: never used twice)
    Retention,   \* generation_job_retention_seconds, in ticks; 0 disables
    StaleAfter   \* generation_job_stale_after_seconds, in ticks; 0 disables

ASSUME StoreAssumption ==
    /\ Retention \in Nat
    /\ StaleAfter \in Nat

Unset == -1
AgeCap == 1 + (IF Retention > StaleAfter THEN Retention ELSE StaleAfter)
Ages == Unset .. AgeCap

Statuses == {"absent", "queued", "running", "succeeded", "failed"}
ActiveStatuses == {"queued", "running"}

\* error_json by its code: queue_unavailable and queue_submit_failed are
\* "queue", generation_job_stale is "stale", all that a run raises is "run".
Errors == {"none", "queue", "stale", "run"}

\* The columns a property can tell apart.  queue_backend, request_json,
\* record_id, worker_id, created_* and updated_at are left out: the first
\* five are written and displayed and never tested, and updated_at is tested
\* only for running rows without started_epoch, of which there are none.
Row == [status   : Statuses,
        err      : Errors,
        resp     : BOOLEAN,      \* response_json is set
        qid      : BOOLEAN,      \* queue_job_id is set
        start    : Ages,         \* started_epoch
        fin      : Ages,         \* finished_epoch
        attempts : Nat]

NoRow == [status |-> "absent", err |-> "none", resp |-> FALSE, qid |-> FALSE,
          start |-> Unset, fin |-> Unset, attempts |-> 0]

Table == [Jobs -> Row]

EmptyTable == [j \in Jobs |-> NoRow]

Present(t, j) == t[j].status # "absent"

\* UPDATE ... WHERE id = ?: nothing happens when there is no such row.
Update(t, j, row) == IF Present(t, j) THEN [t EXCEPT ![j] = row] ELSE t

Coalesce(age, default) == IF age = Unset THEN default ELSE age
-----------------------------------------------------------------------------
\* A faulty variant: the retention measured from the wrong column.
ExpiredByStart(row) == Retention > 0 /\ row.start > Retention

\* _cleanup_expired_locked: DELETE by finished_epoch alone, whatever status.
Expired(row) == Retention > 0 /\ row.fin > Retention

Cleaned(t) == [j \in Jobs |-> IF Expired(t[j]) THEN NoRow ELSE t[j]]

\* A faulty variant: jobs a worker has picked up are not counted.
CountQueuedOnly(t) == Cardinality({j \in Jobs : t[j].status = "queued"})

\* count_active_jobs, after its cleanup.
CountActive(t) == Cardinality({j \in Jobs : t[j].status \in ActiveStatuses})

\* create_job: cleanup, then INSERT.
Created(t, j) == [Cleaned(t) EXCEPT ![j] = [NoRow EXCEPT !.status = "queued"]]

WithQueueJobId(t, j) == Update(t, j, [t[j] EXCEPT !.qid = TRUE])

\* UPDATE has no test of the status: any row becomes running.
MarkedRunning(t, j) ==
    Update(t, j, [t[j] EXCEPT !.status = "running",
                              !.start = Coalesce(@, 0),
                              !.attempts = @ + 1])

\* response and finish time are overwritten; error_json is left as it was.
MarkedSucceeded(t, j) ==
    Update(t, j, [t[j] EXCEPT !.status = "succeeded", !.resp = TRUE, !.fin = 0])

\* the first finish time is kept; response_json is left as it was.
MarkedFailed(t, j, code) ==
    Update(t, j, [t[j] EXCEPT !.status = "failed", !.err = code,
                              !.fin = Coalesce(@, 0)])
-----------------------------------------------------------------------------
\* Faulty variants: the threshold ignored, and compared the wrong way round.
AllRunning(t) == {j \in Jobs : t[j].status = "running"}
FreshRunning(t) == {j \in Jobs : t[j].status = "running" /\ t[j].start < StaleAfter}

\* fail_stale_running_jobs is a SELECT and then an UPDATE by id, with no test
\* of the status in the UPDATE: two operators, two steps.
StaleRunning(t) ==
    IF StaleAfter = 0 THEN {}
    ELSE {j \in Jobs : t[j].status = "running" /\ t[j].start > StaleAfter}

FailedStale(t, js) ==
    [j \in Jobs |->
        IF j \in js /\ Present(t, j)
        THEN [t[j] EXCEPT !.status = "failed", !.err = "stale", !.fin = 0]
        ELSE t[j]]
-----------------------------------------------------------------------------
Older(age) == IF age = Unset \/ age = AgeCap THEN age ELSE age + 1

\* One tick of the clock, seen by the timestamps of the table.
Aged(t) == [j \in Jobs |-> [t[j] EXCEPT !.start = Older(@), !.fin = Older(@)]]
=============================================================================
