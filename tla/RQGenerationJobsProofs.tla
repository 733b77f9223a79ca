----------------------- MODULE RQGenerationJobsProofs -----------------------
(***************************************************************************)
(* Proofs about RQGenerationJobs, for any number of jobs, submitters and   *)
(* workers and any thresholds.                                             *)
(*                                                                         *)
(* BaseInv (types, who holds which id, at most one delivery) is inductive  *)
(* by itself.  The other parts of InductiveInv rest on it and on           *)
(* NoOverrun: no run reaches the age at which a recovery takes it for      *)
(* abandoned.                                                              *)
(***************************************************************************)
EXTENDS RQGenerationJobs, TLAPS, FiniteSetTheorems

\* rq_job_timeout_seconds does not exceed generation_job_stale_after_seconds
\* (900 and 1800 by default), or recovery is off.
NoOverrun == StaleAfter = 0 \/ RunLimit <= StaleAfter
-----------------------------------------------------------------------------
\* What each statement of GenerationJobStore does to a table, row by row: it
\* keeps the type and changes the rows it names in the columns it names.  The
\* proofs about the system use these facts and never open the definitions.

\* AgeCap lies above both thresholds.
LEMMA AgeCapAbove ==
    /\ AgeCap \in Nat
    /\ AgeCap > StaleAfter
    /\ AgeCap > Retention
BY StoreAssumption DEF AgeCap

\* An age that is set now is an age.
LEMMA AgeNow ==
    /\ 0 \in Ages
    /\ Unset \in Ages
    /\ \A a \in Ages : Coalesce(a, 0) \in Ages /\ Coalesce(a, 0) # Unset
BY AgeCapAbove DEF Ages, Unset, Coalesce

\* The absent row is a row, and so is a fresh one; the table starts empty.
LEMMA NoRowType ==
    /\ NoRow \in Row
    /\ [NoRow EXCEPT !.status = "queued"] \in Row
    /\ EmptyTable \in Table
<1>1. Unset \in Ages /\ 0 \in Nat
  BY AgeNow
<1>2. NoRow \in Row
  BY <1>1 DEF NoRow, Row, Statuses, Errors
<1>3. [NoRow EXCEPT !.status = "queued"] \in Row
  BY <1>2 DEF Row, Statuses
<1> QED BY <1>2, <1>3 DEF EmptyTable, Table

\* A cleanup removes expired rows and leaves the others alone.
LEMMA CleanedRows ==
    ASSUME NEW t \in Table
    PROVE  /\ Cleaned(t) \in Table
           /\ \A j \in Jobs : Cleaned(t)[j] \in {t[j], NoRow}
           /\ \A j \in Jobs : t[j].fin = Unset => Cleaned(t)[j] = t[j]
<1>1. NoRow \in Row
  BY NoRowType
<1>2. ASSUME NEW j \in Jobs, t[j].fin = Unset PROVE ~Expired(t[j])
  BY <1>2, StoreAssumption DEF Expired, Unset
<1> QED BY <1>1, <1>2 DEF Cleaned, Table

\* create_job adds one queued row to the cleaned table.
LEMMA CreatedRows ==
    ASSUME NEW t \in Table, NEW j \in Jobs
    PROVE  /\ Created(t, j) \in Table
           /\ Created(t, j)[j] = [NoRow EXCEPT !.status = "queued"]
           /\ \A k \in Jobs \ {j} : Created(t, j)[k] = Cleaned(t)[k]
<1>1. [NoRow EXCEPT !.status = "queued"] \in Row
  BY NoRowType
<1>2. Cleaned(t) \in [Jobs -> Row]
  BY CleanedRows DEF Table
<1> QED BY <1>1, <1>2 DEF Created, Table

\* Update changes one row, and only if it is there.
LEMMA UpdateRows ==
    ASSUME NEW t \in Table, NEW j \in Jobs, NEW row \in Row
    PROVE  /\ Update(t, j, row) \in Table
           /\ t[j].status = "absent" => Update(t, j, row)[j] = t[j]
           /\ t[j].status # "absent" => Update(t, j, row)[j] = row
           /\ \A k \in Jobs \ {j} : Update(t, j, row)[k] = t[k]
BY DEF Update, Present, Table

\* set_queue_job_id sets qid and nothing else.
LEMMA WithQueueJobIdRows ==
    ASSUME NEW t \in Table, NEW j \in Jobs
    PROVE  /\ WithQueueJobId(t, j) \in Table
           /\ \A k \in Jobs \ {j} : WithQueueJobId(t, j)[k] = t[k]
           /\ WithQueueJobId(t, j)[j].status = t[j].status
           /\ WithQueueJobId(t, j)[j].err = t[j].err
           /\ WithQueueJobId(t, j)[j].resp = t[j].resp
           /\ WithQueueJobId(t, j)[j].start = t[j].start
           /\ WithQueueJobId(t, j)[j].fin = t[j].fin
           /\ WithQueueJobId(t, j)[j].attempts = t[j].attempts
<1> DEFINE r == [t[j] EXCEPT !.qid = TRUE]
<1>1. r \in Row /\ t[j] \in Row
  BY DEF Table, Row
<1>2. /\ r.status = t[j].status /\ r.err = t[j].err /\ r.resp = t[j].resp
      /\ r.start = t[j].start /\ r.fin = t[j].fin /\ r.attempts = t[j].attempts
  BY <1>1 DEF Row
<1> HIDE DEF r
<1>3. WithQueueJobId(t, j) = Update(t, j, r)
  BY DEF WithQueueJobId, r
<1> QED BY <1>1, <1>2, <1>3, UpdateRows

\* mark_running.
LEMMA MarkedRunningRows ==
    ASSUME NEW t \in Table, NEW j \in Jobs
    PROVE  /\ MarkedRunning(t, j) \in Table
           /\ \A k \in Jobs \ {j} : MarkedRunning(t, j)[k] = t[k]
           /\ t[j].status = "absent" => MarkedRunning(t, j)[j] = t[j]
           /\ t[j].status # "absent" =>
                /\ MarkedRunning(t, j)[j].status = "running"
                /\ MarkedRunning(t, j)[j].start = Coalesce(t[j].start, 0)
                /\ MarkedRunning(t, j)[j].attempts = t[j].attempts + 1
                /\ MarkedRunning(t, j)[j].err = t[j].err
                /\ MarkedRunning(t, j)[j].resp = t[j].resp
                /\ MarkedRunning(t, j)[j].fin = t[j].fin
<1> DEFINE n == t[j].attempts + 1
           a == Coalesce(t[j].start, 0)
           r == [t[j] EXCEPT !.status = "running", !.start = a, !.attempts = n]
<1>1. t[j] \in Row
  BY DEF Table
<1>2. n \in Nat /\ a \in Ages
  BY <1>1, AgeNow DEF Row
<1>3. MarkedRunning(t, j) = Update(t, j, r)
  BY <1>1 DEF MarkedRunning, Row
<1>4. /\ r \in Row
      /\ r.status = "running" /\ r.start = a /\ r.attempts = n
      /\ r.err = t[j].err /\ r.resp = t[j].resp /\ r.fin = t[j].fin
  <2> HIDE DEF n, a
  <2> QED BY <1>1, <1>2 DEF Row, Statuses
<1> HIDE DEF r
<1> QED BY <1>3, <1>4, UpdateRows

\* mark_succeeded.
LEMMA MarkedSucceededRows ==
    ASSUME NEW t \in Table, NEW j \in Jobs
    PROVE  /\ MarkedSucceeded(t, j) \in Table
           /\ \A k \in Jobs \ {j} : MarkedSucceeded(t, j)[k] = t[k]
           /\ t[j].status = "absent" => MarkedSucceeded(t, j)[j] = t[j]
           /\ t[j].status # "absent" =>
                /\ MarkedSucceeded(t, j)[j].status = "succeeded"
                /\ MarkedSucceeded(t, j)[j].resp
                /\ MarkedSucceeded(t, j)[j].fin = 0
                /\ MarkedSucceeded(t, j)[j].err = t[j].err
                /\ MarkedSucceeded(t, j)[j].start = t[j].start
                /\ MarkedSucceeded(t, j)[j].attempts = t[j].attempts
<1> DEFINE r == [t[j] EXCEPT !.status = "succeeded", !.resp = TRUE, !.fin = 0]
<1>1. t[j] \in Row
  BY DEF Table
<1>2. /\ r \in Row
      /\ r.status = "succeeded" /\ r.resp = TRUE /\ r.fin = 0
      /\ r.err = t[j].err /\ r.start = t[j].start /\ r.attempts = t[j].attempts
  BY <1>1, AgeNow DEF Row, Statuses
<1> HIDE DEF r
<1>3. MarkedSucceeded(t, j) = Update(t, j, r)
  BY DEF MarkedSucceeded, r
<1> QED BY <1>2, <1>3, UpdateRows

\* mark_failed.
LEMMA MarkedFailedRows ==
    ASSUME NEW t \in Table, NEW j \in Jobs, NEW code \in Errors
    PROVE  /\ MarkedFailed(t, j, code) \in Table
           /\ \A k \in Jobs \ {j} : MarkedFailed(t, j, code)[k] = t[k]
           /\ t[j].status = "absent" => MarkedFailed(t, j, code)[j] = t[j]
           /\ t[j].status # "absent" =>
                /\ MarkedFailed(t, j, code)[j].status = "failed"
                /\ MarkedFailed(t, j, code)[j].err = code
                /\ MarkedFailed(t, j, code)[j].fin = Coalesce(t[j].fin, 0)
                /\ MarkedFailed(t, j, code)[j].resp = t[j].resp
                /\ MarkedFailed(t, j, code)[j].start = t[j].start
                /\ MarkedFailed(t, j, code)[j].attempts = t[j].attempts
<1> DEFINE a == Coalesce(t[j].fin, 0)
           r == [t[j] EXCEPT !.status = "failed", !.err = code, !.fin = a]
<1>1. t[j] \in Row
  BY DEF Table
<1>2. a \in Ages
  BY <1>1, AgeNow DEF Row
<1>3. MarkedFailed(t, j, code) = Update(t, j, r)
  BY <1>1 DEF MarkedFailed, Row
<1>4. /\ r \in Row
      /\ r.status = "failed" /\ r.err = code /\ r.fin = a
      /\ r.resp = t[j].resp /\ r.start = t[j].start /\ r.attempts = t[j].attempts
  <2> HIDE DEF a
  <2> QED BY <1>1, <1>2 DEF Row, Statuses
<1> HIDE DEF r
<1> QED BY <1>3, <1>4, UpdateRows

\* The UPDATE of fail_stale_running_jobs fails the rows it was given.
LEMMA FailedStaleRows ==
    ASSUME NEW t \in Table, NEW js, js \subseteq Jobs
    PROVE  /\ FailedStale(t, js) \in Table
           /\ \A j \in Jobs :
                \/ FailedStale(t, js)[j] = t[j]
                \/ /\ j \in js
                   /\ t[j].status # "absent"
                   /\ FailedStale(t, js)[j].status = "failed"
                   /\ FailedStale(t, js)[j].err = "stale"
                   /\ FailedStale(t, js)[j].fin = 0
                   /\ FailedStale(t, js)[j].resp = t[j].resp
                   /\ FailedStale(t, js)[j].start = t[j].start
                   /\ FailedStale(t, js)[j].attempts = t[j].attempts
<1> DEFINE r(j) == [t[j] EXCEPT !.status = "failed", !.err = "stale", !.fin = 0]
<1>1. ASSUME NEW j \in Jobs
      PROVE  /\ r(j) \in Row
             /\ r(j).status = "failed" /\ r(j).err = "stale" /\ r(j).fin = 0
             /\ r(j).resp = t[j].resp /\ r(j).start = t[j].start
             /\ r(j).attempts = t[j].attempts
  BY AgeNow DEF Table, Row, Statuses, Errors
<1>2. FailedStale(t, js) =
        [j \in Jobs |-> IF j \in js /\ t[j].status # "absent" THEN r(j) ELSE t[j]]
  BY DEF FailedStale, Present
<1> HIDE DEF r
<1> QED BY <1>1, <1>2 DEF Table

\* A tick makes the timestamps older and keeps their order.
LEMMA AgedRows ==
    ASSUME NEW t \in Table
    PROVE  /\ Aged(t) \in Table
           /\ \A j \in Jobs :
                Aged(t)[j] = [t[j] EXCEPT !.start = Older(t[j].start),
                                          !.fin = Older(t[j].fin)]
<1>1. ASSUME NEW a \in Ages PROVE Older(a) \in Ages
  BY AgeCapAbove DEF Older, Ages, Unset
<1>2. ASSUME NEW j \in Jobs
      PROVE  /\ [t[j] EXCEPT !.start = Older(@), !.fin = Older(@)]
                  = [t[j] EXCEPT !.start = Older(t[j].start),
                                 !.fin = Older(t[j].fin)]
             /\ [t[j] EXCEPT !.start = Older(@), !.fin = Older(@)] \in Row
  BY <1>1 DEF Table, Row
<1> QED BY <1>2 DEF Aged, Table

LEMMA OlderAge ==
    ASSUME NEW a \in Ages, NEW b \in Ages
    PROVE  /\ Older(a) \in Ages
           /\ Older(a) = Unset <=> a = Unset
           /\ a <= b => Older(a) <= Older(b)
           /\ Older(a) <= a + 1
           /\ a <= Older(a)
BY AgeCapAbove DEF Older, Ages, Unset
-----------------------------------------------------------------------------

\* The initial state satisfies the base invariant.
LEMMA BaseInit == Init => BaseInv
<1> SUFFICES ASSUME Init PROVE BaseInv
  OBVIOUS
<1> USE DEF Init
<1>1. TypeOK
  BY SystemAssumption, NoRowType
  DEF TypeOK, SubmitStates, WorkerStates, RunStates, Fates
<1>2. SubmissionInv
  BY DEF SubmissionInv
<1>3. DeliveryInv
  BY DEF DeliveryInv, Holding, HoldStates, RunStates
<1> QED BY <1>1, <1>2, <1>3 DEF BaseInv

\* A submitter's steps keep the types.
LEMMA TypeSubmit ==
    ASSUME BaseInv, NEW s \in Submitters, Submit(s) \/ SubmitAborts(s)
    PROVE  TypeOK'
<1> USE DEF BaseInv, TypeOK, SubmitAt, SubmitStates, workerVars, SubmissionInv
<1>1. CASE SubmitCheck(s)
  BY <1>1, CleanedRows DEF SubmitCheck
<1>2. CASE SubmitCreate(s)
  <2>1. PICK j \in Jobs : /\ fate' = [fate EXCEPT ![j] = "created"]
                          /\ rows' = Created(rows, j)
                          /\ SubmitAt(s, "checked", "created", j)
    BY <1>2 DEF SubmitCreate
  <2> QED BY <1>2, <2>1, CreatedRows DEF SubmitCreate, Fates
<1>3. CASE SubmitEnqueue(s)
  BY <1>3 DEF SubmitEnqueue, Fates
<1>4. CASE SubmitEnqueueError(s)
  <2>1. sjob[s] \in Jobs
    BY <1>4 DEF SubmitEnqueueError
  <2>2. rq \in Seq(Jobs) /\ Append(rq, sjob[s]) \in Seq(Jobs)
    BY <2>1
  <2>3. rq' = rq \/ rq' = Append(rq, sjob[s])
    BY <1>4 DEF SubmitEnqueueError
  <2>4. rq' \in Seq(Jobs)
    BY <2>2, <2>3
  <2> QED BY <1>4, <2>4 DEF SubmitEnqueueError, Fates
<1>5. CASE SubmitMarkFailed(s)
  <2>1. sjob[s] \in Jobs /\ rows' = MarkedFailed(rows, sjob[s], "queue")
    BY <1>5 DEF SubmitMarkFailed
  <2>2. rows' \in Table
    BY <2>1, MarkedFailedRows DEF Errors
  <2> QED BY <1>5, <2>2 DEF SubmitMarkFailed
<1>6. CASE SubmitSetQueueJobId(s)
  BY <1>6, WithQueueJobIdRows DEF SubmitSetQueueJobId
<1>7. CASE SubmitReply(s)
  BY <1>7, CleanedRows DEF SubmitReply
<1>8. CASE SubmitAborts(s)
  BY <1>8 DEF SubmitAborts
<1> QED BY <1>1, <1>2, <1>3, <1>4, <1>5, <1>6, <1>7, <1>8 DEF Submit

\* A worker's steps keep the types.
LEMMA TypeWork ==
    ASSUME BaseInv, NEW w \in Workers,
           Recover(w) \/ Work(w) \/ HorseDies(w) \/ WorkerDies(w)
    PROVE  TypeOK'
<1> USE DEF BaseInv, TypeOK, WorkerAt, WorkerStates, RunStates, HoldStates,
            submitVars, storeVars, Holding, Release
<1>0. Holding(w) => wjob[w] \in Jobs
  BY DEF DeliveryInv
<1>1. CASE RecoverSelect(w)
  BY <1>1 DEF RecoverSelect, StaleRunning
<1>2. CASE RecoverUpdate(w)
  BY <1>2, FailedStaleRows DEF RecoverUpdate
<1>3. CASE Dequeue(w)
  <2>1. Head(rq) \in Jobs /\ Tail(rq) \in Seq(Jobs)
    BY <1>3 DEF Dequeue
  <2> QED BY <1>3, <2>1 DEF Dequeue
<1>4. CASE LoadRequest(w)
  BY <1>4 DEF LoadRequest
<1>5. CASE MarkRunning(w)
  <2>1. wjob[w] \in Jobs /\ rows' = MarkedRunning(rows, wjob[w])
    BY <1>0, <1>5 DEF MarkRunning
  <2>2. rows' \in Table
    BY <2>1, MarkedRunningRows
  <2> QED BY <1>5, <2>2, SystemAssumption DEF MarkRunning
<1>6. CASE Execute(w)
  BY <1>6 DEF Execute
<1>7. CASE MarkSucceeded(w)
  <2>1. wjob[w] \in Jobs /\ rows' = MarkedSucceeded(rows, wjob[w])
    BY <1>0, <1>7 DEF MarkSucceeded
  <2>2. rows' \in Table
    BY <2>1, MarkedSucceededRows
  <2> QED BY <1>7, <2>2, SystemAssumption DEF MarkSucceeded
<1>8. CASE MarkFailed(w)
  <2>1. wjob[w] \in Jobs /\ rows' = MarkedFailed(rows, wjob[w], "run")
    BY <1>0, <1>8 DEF MarkFailed
  <2>2. rows' \in Table
    BY <2>1, MarkedFailedRows DEF Errors
  <2> QED BY <1>8, <2>2, SystemAssumption DEF MarkFailed
<1>9. CASE HorseDies(w)
  BY <1>9, SystemAssumption DEF HorseDies
<1>10. CASE WorkerDies(w)
  BY <1>10, SystemAssumption DEF WorkerDies
<1> QED BY <1>1, <1>2, <1>3, <1>4, <1>5, <1>6, <1>7, <1>8, <1>9, <1>10
        DEF Recover, Work

\* Every step keeps the types.
LEMMA TypeStep == BaseInv /\ [Next]_vars => TypeOK'
<1> SUFFICES ASSUME BaseInv, [Next]_vars PROVE TypeOK'
  OBVIOUS
<1>1. CASE ReadJobs
  BY <1>1, CleanedRows DEF ReadJobs, BaseInv, TypeOK, submitVars, workerVars
<1>2. CASE Tick
  <2>1. \A w \in Workers : (IF Running(w) THEN wage[w] + 1 ELSE wage[w]) \in 0 .. RunLimit
    BY <1>2, SystemAssumption DEF Tick, BaseInv, TypeOK
  <2> QED BY <1>2, <2>1, AgedRows DEF Tick, BaseInv, TypeOK, submitVars
<1>3. CASE UNCHANGED vars
  BY <1>3 DEF vars, BaseInv, TypeOK
<1> QED BY <1>1, <1>2, <1>3, TypeSubmit, TypeWork DEF Next
-----------------------------------------------------------------------------
\* Every step keeps the submitters in step with what became of their ids.
LEMMA SubmissionStep == BaseInv /\ [Next]_vars => SubmissionInv'
<1> SUFFICES ASSUME BaseInv, [Next]_vars PROVE SubmissionInv'
  OBVIOUS
<1> USE DEF BaseInv, TypeOK, SubmissionInv
<1>1. ASSUME UNCHANGED <<spc, sjob, fate>> PROVE SubmissionInv'
  BY <1>1
<1>2. ASSUME NEW s \in Submitters, Submit(s) \/ SubmitAborts(s)
      PROVE  SubmissionInv'
  <2> USE DEF SubmitAt, SubmitStates, Fates
  <2>1. CASE SubmitCheck(s)
    <3>1. /\ fate' = fate
          /\ sjob' = [sjob EXCEPT ![s] = NoJob]
          /\ \E to \in {"idle", "checked"} : spc' = [spc EXCEPT ![s] = to]
      BY <2>1 DEF SubmitCheck, workerVars
    <3> QED BY <3>1
  <2>2. CASE SubmitCreate(s)
    BY <2>2 DEF SubmitCreate
  <2>3. CASE SubmitEnqueue(s)
    BY <2>3 DEF SubmitEnqueue
  <2>4. CASE SubmitEnqueueError(s)
    BY <2>4 DEF SubmitEnqueueError
  <2>5. CASE SubmitMarkFailed(s)
    BY <2>5 DEF SubmitMarkFailed
  <2>6. CASE SubmitSetQueueJobId(s)
    BY <2>6 DEF SubmitSetQueueJobId
  <2>7. CASE SubmitReply(s)
    BY <2>7 DEF SubmitReply
  <2>8. CASE SubmitAborts(s)
    BY <2>8 DEF SubmitAborts
  <2> QED BY <1>2, <2>1, <2>2, <2>3, <2>4, <2>5, <2>6, <2>7, <2>8 DEF Submit
<1>3. ASSUME NEW w \in Workers,
             Recover(w) \/ Work(w) \/ HorseDies(w) \/ WorkerDies(w)
      PROVE  UNCHANGED <<spc, sjob, fate>>
  BY <1>3 DEF Recover, RecoverSelect, RecoverUpdate, Work, Dequeue, LoadRequest,
              MarkRunning, Execute, MarkSucceeded, MarkFailed, HorseDies,
              WorkerDies, submitVars
<1>4. ReadJobs \/ Tick \/ UNCHANGED vars => UNCHANGED <<spc, sjob, fate>>
  BY DEF ReadJobs, Tick, vars, submitVars
<1> QED BY <1>1, <1>2, <1>3, <1>4 DEF Next

\* Appending a new id keeps the deliveries apart.
LEMMA DeliveryAppend ==
    ASSUME BaseInv, NEW s \in Submitters, spc[s] = "created",
           UNCHANGED workerVars,
           rq' = Append(rq, sjob[s]),
           NEW f \in Offered, fate' = [fate EXCEPT ![sjob[s]] = f]
    PROVE  DeliveryInv'
<1> DEFINE j == sjob[s]
<1>1. j \in Jobs /\ fate[j] = "created"
  BY DEF BaseInv, SubmissionInv
<1>2. /\ \A i \in 1 .. Len(rq) : rq[i] # j
      /\ \A w \in Workers : Holding(w) => wjob[w] # j
  BY <1>1 DEF BaseInv, DeliveryInv, Offered
<1>3. /\ Len(rq') = Len(rq) + 1
      /\ \A i \in 1 .. Len(rq) : rq'[i] = rq[i] /\ rq[i] \in Jobs
      /\ rq'[Len(rq) + 1] = j
      /\ Len(rq) \in Nat
  BY <1>1 DEF BaseInv, TypeOK
<1>4. \A i \in 1 .. Len(rq') : i \in 1 .. Len(rq) \/ i = Len(rq) + 1
  BY <1>3
<1>5. \A i \in 1 .. Len(rq') : fate'[rq'[i]] \in Offered
  BY <1>1, <1>3, <1>4 DEF BaseInv, DeliveryInv, TypeOK, Offered
<1>6. \A i, k \in 1 .. Len(rq') : rq'[i] = rq'[k] => i = k
  BY <1>2, <1>3, <1>4 DEF BaseInv, DeliveryInv
<1>7. \A w \in Workers : Holding(w)' <=> Holding(w)
  BY DEF Holding, workerVars
<1>8. ASSUME NEW w \in Workers, Holding(w)
      PROVE  /\ wjob'[w] \in Jobs
             /\ fate'[wjob'[w]] \in Offered
             /\ \A i \in 1 .. Len(rq') : rq'[i] # wjob'[w]
             /\ \A v \in Workers : Holding(v) /\ wjob'[v] = wjob'[w] => v = w
  BY <1>1, <1>2, <1>3, <1>4, <1>8
  DEF BaseInv, DeliveryInv, TypeOK, Offered, workerVars
<1> QED BY <1>5, <1>6, <1>7, <1>8 DEF DeliveryInv

\* Steps that touch neither the queue nor anybody's hands.
LEMMA DeliveryUnchanged ==
    ASSUME BaseInv, UNCHANGED <<rq, wjob>>,
           \A w \in Workers : Holding(w)' => Holding(w),
           \A j \in Jobs : fate[j] \in Offered => fate'[j] \in Offered
    PROVE  DeliveryInv'
<1>1. \A i \in 1 .. Len(rq) : rq[i] \in Jobs
  BY DEF BaseInv, TypeOK
<1> QED BY <1>1 DEF BaseInv, DeliveryInv

\* Letting go of a job keeps the deliveries apart.
LEMMA DeliveryRelease ==
    ASSUME BaseInv, NEW w \in Workers,
           UNCHANGED <<rq, fate>>,
           wjob' = [wjob EXCEPT ![w] = NoJob],
           NEW state \in {"idle", "down"}, wpc' = [wpc EXCEPT ![w] = state]
    PROVE  DeliveryInv'
<1>1. ~Holding(w)'
  BY DEF BaseInv, TypeOK, Holding, HoldStates, RunStates
<1>2. \A v \in Workers \ {w} : (Holding(v)' <=> Holding(v)) /\ wjob'[v] = wjob[v]
  BY DEF BaseInv, TypeOK, Holding
<1> QED BY <1>1, <1>2 DEF BaseInv, DeliveryInv

\* Every step keeps the deliveries apart.
LEMMA DeliveryStep == BaseInv /\ [Next]_vars => DeliveryInv'
<1> SUFFICES ASSUME BaseInv, [Next]_vars PROVE DeliveryInv'
  OBVIOUS
<1>1. ASSUME NEW s \in Submitters, Submit(s) \/ SubmitAborts(s)
      PROVE  DeliveryInv'
  <2>1. CASE SubmitEnqueue(s)
    BY <2>1, DeliveryAppend DEF SubmitEnqueue, SubmitAt, Offered
  <2>2. CASE SubmitEnqueueError(s) /\ rq' # rq
    BY <2>2, DeliveryAppend DEF SubmitEnqueueError, SubmitAt, Offered
  <2>3. CASE ~SubmitEnqueue(s) /\ (SubmitEnqueueError(s) => rq' = rq)
    <3>1. UNCHANGED <<rq, wpc, wjob>>
      BY <1>1, <2>3 DEF Submit, SubmitCheck, SubmitCreate, SubmitEnqueueError,
          SubmitMarkFailed, SubmitSetQueueJobId, SubmitReply, SubmitAborts,
          workerVars
    <3>2. \/ UNCHANGED fate
          \/ \E j \in Jobs : fate[j] = "unused" /\ fate' = [fate EXCEPT ![j] = "created"]
          \/ fate' = [fate EXCEPT ![sjob[s]] = "refused"]
      BY <1>1, <2>3 DEF Submit, SubmitCheck, SubmitCreate, SubmitEnqueueError,
          SubmitMarkFailed, SubmitSetQueueJobId, SubmitReply, SubmitAborts
    <3>3. \A j \in Jobs : fate[j] \in Offered => fate'[j] \in Offered
      BY <3>2 DEF BaseInv, TypeOK, Offered
    <3> QED BY <3>1, <3>3, DeliveryUnchanged DEF Holding
  <2> QED BY <1>1, <2>1, <2>2, <2>3 DEF Submit
<1>2. ASSUME NEW w \in Workers,
             Recover(w) \/ Work(w) \/ HorseDies(w) \/ WorkerDies(w)
      PROVE  DeliveryInv'
  <2> USE DEF WorkerAt, submitVars, storeVars
  <2>1. CASE Recover(w) \/ MarkRunning(w) \/ Execute(w)
    <3>1. UNCHANGED <<rq, wjob, fate>>
      BY <2>1 DEF Recover, RecoverSelect, RecoverUpdate, MarkRunning, Execute
    <3>2. \A v \in Workers : Holding(v)' => Holding(v)
      BY <2>1 DEF Recover, RecoverSelect, RecoverUpdate, MarkRunning, Execute,
          Holding, HoldStates, RunStates, BaseInv, TypeOK
    <3> QED BY <3>1, <3>2, DeliveryUnchanged
  <2>2. CASE MarkSucceeded(w) \/ MarkFailed(w) \/ HorseDies(w) \/ WorkerDies(w)
    <3>1. \E state \in {"idle", "down"} : wpc' = [wpc EXCEPT ![w] = state]
      BY <2>2 DEF MarkSucceeded, MarkFailed, HorseDies, WorkerDies
    <3>2. UNCHANGED <<rq, fate>> /\ wjob' = [wjob EXCEPT ![w] = NoJob]
      BY <2>2 DEF MarkSucceeded, MarkFailed, HorseDies, WorkerDies, Release
    <3> QED BY <3>1, <3>2, DeliveryRelease
  <2>3. CASE LoadRequest(w)
    <3>1. CASE wpc' = [wpc EXCEPT ![w] = "idle"] /\ wjob' = [wjob EXCEPT ![w] = NoJob]
      BY <2>3, <3>1, DeliveryRelease DEF LoadRequest
    <3>2. CASE wpc' = [wpc EXCEPT ![w] = "loaded"] /\ wjob' = wjob
      <4>1. \A v \in Workers : Holding(v)' => Holding(v)
        BY <2>3, <3>2 DEF LoadRequest, Holding, HoldStates, RunStates, BaseInv, TypeOK
      <4> QED BY <2>3, <3>2, <4>1, DeliveryUnchanged DEF LoadRequest
    <3> QED BY <2>3, <3>1, <3>2 DEF LoadRequest
  <2>4. CASE Dequeue(w)
    <3>1. /\ Len(rq) \in Nat
          /\ Len(rq) > 0
          /\ wjob' = [wjob EXCEPT ![w] = rq[1]]
          /\ wpc' = [wpc EXCEPT ![w] = "dequeued"]
          /\ fate' = fate
          /\ rq[1] \in Jobs
          /\ 1 \in 1 .. Len(rq)
      BY <2>4 DEF Dequeue, BaseInv, TypeOK
    <3>2. /\ Len(rq') = Len(rq) - 1
          /\ \A i \in 1 .. Len(rq') : rq'[i] = rq[i + 1] /\ i + 1 \in 1 .. Len(rq)
      BY <2>4, <3>1 DEF Dequeue, BaseInv, TypeOK
    <3>3. \A v \in Workers \ {w} : (Holding(v)' <=> Holding(v)) /\ wjob'[v] = wjob[v]
      BY <3>1 DEF BaseInv, TypeOK, Holding
    <3>4. wjob'[w] = rq[1]
      BY <3>1 DEF BaseInv, TypeOK
    <3>5. /\ \A i \in 1 .. Len(rq') : fate'[rq'[i]] \in Offered
          /\ \A i, k \in 1 .. Len(rq') : rq'[i] = rq'[k] => i = k
      <4>1. \A i \in 1 .. Len(rq) : fate[rq[i]] \in Offered
        BY DEF BaseInv, DeliveryInv
      <4>2. \A i, k \in 1 .. Len(rq) : rq[i] = rq[k] => i = k
        BY DEF BaseInv, DeliveryInv
      <4>3. \A i \in 1 .. Len(rq') : fate'[rq'[i]] \in Offered
        BY <3>1, <3>2, <4>1
      <4>4. ASSUME NEW i \in 1 .. Len(rq'), NEW k \in 1 .. Len(rq'), rq'[i] = rq'[k]
            PROVE  i = k
        <5>1. i + 1 = k + 1
          BY <3>2, <4>2, <4>4
        <5> QED BY <5>1
      <4> QED BY <4>3, <4>4
    <3>6. ASSUME NEW v \in Workers, Holding(v)'
          PROVE  /\ wjob'[v] \in Jobs
                 /\ fate'[wjob'[v]] \in Offered
                 /\ \A i \in 1 .. Len(rq') : rq'[i] # wjob'[v]
      <4>1. CASE v = w
        BY <3>1, <3>2, <3>4, <4>1 DEF BaseInv, DeliveryInv
      <4>2. CASE v # w
        BY <3>1, <3>2, <3>3, <3>6, <4>2 DEF BaseInv, DeliveryInv
      <4> QED BY <4>1, <4>2
    <3>7. ASSUME NEW u \in Workers, NEW v \in Workers,
                 Holding(u)', Holding(v)', wjob'[u] = wjob'[v]
          PROVE  u = v
      BY <3>1, <3>3, <3>4, <3>7 DEF BaseInv, DeliveryInv
    <3> QED BY <3>5, <3>6, <3>7 DEF DeliveryInv
  <2> QED BY <1>2, <2>1, <2>2, <2>3, <2>4 DEF Work
<1>3. CASE ReadJobs \/ Tick \/ UNCHANGED vars
  BY <1>3, DeliveryUnchanged
  DEF ReadJobs, Tick, vars, workerVars, Holding
<1> QED BY <1>1, <1>2, <1>3 DEF Next

\* In every reachable state the types are right, every submitter's id is where
\* the submitter is, and Redis and the work horses share no id.
THEOREM BaseInvariant == Spec => []BaseInv
<1>1. BaseInv /\ [Next]_vars => BaseInv'
  BY TypeStep, SubmissionStep, DeliveryStep DEF BaseInv
<1> QED BY BaseInit, <1>1, PTL DEF Spec

\* Type correctness, from the base invariant.
THEOREM TypeCorrect == Spec => []TypeOK
<1>1. BaseInv => TypeOK
  BY DEF BaseInv
<1> QED BY BaseInvariant, <1>1, PTL
-----------------------------------------------------------------------------
\* The columns of a row, for the proofs below.
LEMMA RowColumns ==
    ASSUME BaseInv, NEW j \in Jobs
    PROVE  /\ rows[j].status \in Statuses
           /\ rows[j].err \in Errors
           /\ rows[j].resp \in BOOLEAN
           /\ rows[j].start \in Ages
           /\ rows[j].fin \in Ages
           /\ rows[j].attempts \in Nat
BY DEF BaseInv, TypeOK, Table, Row

\* A cleanup takes nothing from a job that is promised and not finished, and
\* what it takes from others hurts no part of the invariant.
LEMMA LifeClean ==
    ASSUME InductiveInv, rows' = Cleaned(rows), UNCHANGED <<rq, workerVars, fate>>
    PROVE  LifeInv'
<1> USE DEF InductiveInv, LifeInv, BaseInv, TypeOK, workerVars
<1>1. \A j \in Jobs : /\ rows'[j] \in {rows[j], NoRow}
                      /\ rows[j].fin = Unset => rows'[j] = rows[j]
  BY CleanedRows
<1>2. /\ NoRow.status = "absent" /\ NoRow.attempts = 0 /\ NoRow.start = Unset
  BY DEF NoRow
<1>3. \A j \in Jobs : Promised(j) /\ rows[j].status \in {"queued", "running"}
                        => rows'[j] = rows[j]
  BY <1>1 DEF PromisedRowsCoherent, Coherent
<1>4. ASSUME NEW j \in Jobs, Fresh(j) PROVE Fresh(j)'
  BY <1>1, <1>2, <1>3, <1>4 DEF Fresh, Promised
<1>5. FreshInv'
  <2>1. ASSUME NEW j \in Jobs, fate[j] = "unused" PROVE rows'[j] = NoRow
    BY <1>1, <2>1 DEF FreshInv
  <2>2. ASSUME NEW j \in Jobs, fate[j] = "created" PROVE rows'[j] = rows[j]
    BY <1>1, <2>2 DEF FreshInv, Coherent
  <2>3. \A i \in 1 .. Len(rq) : rq[i] \in Jobs
    OBVIOUS
  <2>4. \A w \in Workers : wpc[w] \in {"dequeued", "loaded"} => wjob[w] \in Jobs
    BY DEF DeliveryInv, Holding, HoldStates
  <2> QED BY <1>4, <2>1, <2>2, <2>3, <2>4 DEF FreshInv, Coherent
<1>6. RunInv'
  <2>1. \A w \in Workers : Running(w) => wjob[w] \in Jobs
    BY DEF DeliveryInv, Holding, HoldStates, Running
  <2> QED BY <1>1, <1>2, <1>3, <2>1 DEF RunInv, Running, Promised
<1>7. RecoveryInv'
  <2>1. ASSUME NEW w \in Workers, NEW j \in stale[w], Promised(j)
        PROVE  rows'[j].status \in {"running", "failed", "absent"}
    <3>1. j \in Jobs /\ rows[j].status \in {"running", "failed", "absent"}
      BY <2>1 DEF RecoveryInv
    <3>2. rows'[j] \in {rows[j], NoRow}
      BY <1>1, <3>1
    <3> QED BY <1>2, <3>1, <3>2, Zenon
  <2>2. RecoveryInv /\ UNCHANGED <<rq, wpc, wjob, stale, fate>>
    OBVIOUS
  <2> HIDE DEF InductiveInv, LifeInv, BaseInv, TypeOK, workerVars
  <2> QED BY <2>1, <2>2 DEF RecoveryInv, Holding, Promised
<1>8. \A j \in Jobs : rows'[j].attempts <= 1
  BY <1>1, <1>2
<1>9. PromisedRowsCoherent'
  BY <1>1, <1>2 DEF PromisedRowsCoherent, Promised, Coherent
<1> QED BY <1>5, <1>6, <1>7, <1>8, <1>9

\* Who holds a job, has it selected or has it in the queue: ids in Jobs.
LEMMA HeldJobs ==
    ASSUME BaseInv
    PROVE  /\ \A w \in Workers : Holding(w) => wjob[w] \in Jobs
           /\ \A w \in Workers : Running(w) => Holding(w)
           /\ \A w \in Workers : wpc[w] \in {"dequeued", "loaded"} => Holding(w)
           /\ \A w \in Workers : stale[w] \subseteq Jobs
           /\ \A i \in 1 .. Len(rq) : rq[i] \in Jobs
BY DEF BaseInv, TypeOK, DeliveryInv, Holding, HoldStates, Running

\* create_job: the new row is fresh, and its id in nobody's hands.
LEMMA LifeCreate ==
    ASSUME InductiveInv, NEW s \in Submitters, SubmitCreate(s)
    PROVE  LifeInv'
<1> USE DEF InductiveInv, LifeInv, BaseInv
<1>1. PICK j \in Jobs : /\ fate[j] = "unused"
                        /\ fate' = [fate EXCEPT ![j] = "created"]
                        /\ rows' = Created(rows, j)
  BY DEF SubmitCreate
<1>2. UNCHANGED <<rq, wpc, wjob, wage, stale>>
  BY DEF SubmitCreate, workerVars
<1>3. rows \in Table /\ fate \in [Jobs -> Fates]
  BY DEF TypeOK
<1>4. \A k \in Jobs \ {j} :
        /\ rows'[k] \in {rows[k], NoRow}
        /\ rows[k].fin = Unset => rows'[k] = rows[k]
        /\ fate'[k] = fate[k]
  BY <1>1, <1>3, CreatedRows, CleanedRows
<1>5. /\ rows'[j].status = "queued" /\ rows'[j].err = "none" /\ ~rows'[j].resp
      /\ rows'[j].start = Unset /\ rows'[j].fin = Unset /\ rows'[j].attempts = 0
      /\ fate'[j] = "created"
  BY <1>1, <1>3, CreatedRows DEF NoRow
<1>6. /\ \A i \in 1 .. Len(rq) : rq[i] # j
      /\ \A w \in Workers : Holding(w) => wjob[w] # j
      /\ \A w \in Workers : j \notin stale[w]
  BY <1>1 DEF DeliveryInv, RecoveryInv, Offered
<1>7. NoRow.status = "absent" /\ NoRow.attempts = 0 /\ NoRow.start = Unset
  BY DEF NoRow
<1>8. \A k \in Jobs \ {j} :
        Promised(k) /\ rows[k].status \in {"queued", "running"} => rows'[k] = rows[k]
  BY <1>4 DEF PromisedRowsCoherent, Coherent
<1>9. ASSUME NEW k \in Jobs \ {j}, Fresh(k) PROVE Fresh(k)'
  BY <1>4, <1>7, <1>8, <1>9 DEF Fresh, Promised
<1>10. FreshInv'
  <2>1. ASSUME NEW k \in Jobs, fate'[k] = "unused" PROVE rows'[k] = NoRow
    BY <1>4, <1>5, <2>1 DEF FreshInv
  <2>2. ASSUME NEW k \in Jobs, fate'[k] = "created"
        PROVE  (rows[k].status = "queued" /\ Coherent(rows[k]) /\ Fresh(k))'
    <3>1. CASE k = j
      BY <1>5, <3>1 DEF Coherent, Fresh, Promised
    <3>2. CASE k # j
      <4>1. rows'[k] = rows[k] /\ fate[k] = "created"
        BY <1>4, <2>2, <3>2 DEF FreshInv, Coherent
      <4> QED BY <1>9, <3>2, <4>1 DEF FreshInv
    <3> QED BY <3>1, <3>2
  <2>3. \A i \in 1 .. Len(rq') : Fresh(rq[i])'
    BY <1>2, <1>6, <1>9, HeldJobs DEF FreshInv
  <2>4. \A w \in Workers : wpc'[w] \in {"dequeued", "loaded"} => Fresh(wjob[w])'
    BY <1>2, <1>6, <1>9, HeldJobs DEF FreshInv
  <2> QED BY <2>1, <2>2, <2>3, <2>4 DEF FreshInv
<1>11. RunInv'
  BY <1>2, <1>4, <1>6, <1>7, <1>8, HeldJobs DEF RunInv, Running, Promised
<1>12. RecoveryInv'
  BY <1>2, <1>4, <1>6, <1>7, HeldJobs DEF RecoveryInv, Holding, Promised
<1>13. \A k \in Jobs : rows'[k].attempts <= 1
  BY <1>4, <1>5, <1>7
<1>14. PromisedRowsCoherent'
  BY <1>4, <1>5, <1>7 DEF PromisedRowsCoherent, Promised, Coherent
<1> QED BY <1>10, <1>11, <1>12, <1>13, <1>14

\* enqueue_call: a created id becomes promised or refused, its row untouched.
LEMMA LifeOffer ==
    ASSUME InductiveInv, NEW s \in Submitters,
           SubmitEnqueue(s) \/ SubmitEnqueueError(s)
    PROVE  LifeInv'
<1> USE DEF InductiveInv, LifeInv, BaseInv
<1> DEFINE j == sjob[s]
<1>1. /\ j \in Jobs
      /\ fate[j] = "created"
      /\ \E f \in Offered : fate' = [fate EXCEPT ![j] = f]
      /\ rq' = rq \/ rq' = Append(rq, j)
      /\ UNCHANGED <<rows, wpc, wjob, wage, stale>>
  BY DEF SubmitEnqueue, SubmitEnqueueError, SubmitAt, SubmissionInv, workerVars,
         Offered
<1>2. fate \in [Jobs -> Fates] /\ rq \in Seq(Jobs)
  BY DEF TypeOK
<1>3. fate'[j] \in Offered /\ \A k \in Jobs \ {j} : fate'[k] = fate[k]
  BY <1>1, <1>2
<1>4. rows[j].status = "queued" /\ Coherent(rows[j]) /\ Fresh(j)
  BY <1>1 DEF FreshInv
<1>5. \A i \in 1 .. Len(rq') : rq'[i] = j \/ \E k \in 1 .. Len(rq) : rq'[i] = rq[k]
  BY <1>1, <1>2
<1>6. ASSUME NEW k \in Jobs, Fresh(k) PROVE Fresh(k)'
  BY <1>1, <1>3, <1>4, <1>6 DEF Fresh, Promised
<1>7. \A w \in Workers : j \notin stale[w] /\ (Holding(w) => wjob[w] # j)
  BY <1>1 DEF RecoveryInv, DeliveryInv, Offered
<1>8. FreshInv'
  <2>1. ASSUME NEW k \in Jobs, fate'[k] \in {"unused", "created"}
        PROVE  k # j /\ fate'[k] = fate[k] /\ rows'[k] = rows[k]
    BY <1>1, <1>3, <2>1 DEF Offered
  <2>2. \A i \in 1 .. Len(rq') : Fresh(rq[i])'
    BY <1>1, <1>4, <1>5, <1>6, HeldJobs DEF FreshInv
  <2>3. \A w \in Workers : wpc'[w] \in {"dequeued", "loaded"} => Fresh(wjob[w])'
    BY <1>1, <1>6, HeldJobs DEF FreshInv
  <2> QED BY <1>6, <2>1, <2>2, <2>3 DEF FreshInv
<1>9. RunInv'
  BY <1>1, <1>3, <1>7, HeldJobs DEF RunInv, Running, Promised
<1>10. RecoveryInv'
  BY <1>1, <1>3, <1>5, <1>7, HeldJobs DEF RecoveryInv, Holding, Promised
<1>11. PromisedRowsCoherent'
  BY <1>1, <1>3, <1>4 DEF PromisedRowsCoherent, Promised
<1> QED BY <1>1, <1>8, <1>9, <1>10, <1>11

\* The submitter's own UPDATEs: mark_failed of a refused job, and
\* set_queue_job_id, which changes no column that the invariant reads.
LEMMA LifeSubmitUpdate ==
    ASSUME InductiveInv, NEW s \in Submitters,
           SubmitMarkFailed(s) \/ SubmitSetQueueJobId(s)
    PROVE  LifeInv'
<1> USE DEF InductiveInv, LifeInv, BaseInv
<1> DEFINE j == sjob[s]
<1>1. UNCHANGED <<rq, wpc, wjob, wage, stale, fate>> /\ j \in Jobs
  BY DEF SubmitMarkFailed, SubmitSetQueueJobId, SubmitAt, workerVars, SubmissionInv
<1>2. rows \in Table /\ rows[j] \in Row
  BY <1>1 DEF TypeOK, Table
<1>3. \A k \in Jobs \ {j} : rows'[k] = rows[k]
  <2>1. CASE rows' = WithQueueJobId(rows, j)
    BY <1>1, <1>2, <2>1, WithQueueJobIdRows
  <2>2. CASE rows' = MarkedFailed(rows, j, "queue")
    <3>1. "queue" \in Errors
      BY DEF Errors
    <3> HIDE DEF InductiveInv, LifeInv, BaseInv, j
    <3>2. \A k \in Jobs \ {j} : MarkedFailed(rows, j, "queue")[k] = rows[k]
      BY <1>1, <1>2, <3>1, MarkedFailedRows
    <3> QED BY <2>2, <3>2
  <2> QED BY <2>1, <2>2 DEF SubmitMarkFailed, SubmitSetQueueJobId
<1>4. fate[j] \in Offered
  BY DEF SubmitMarkFailed, SubmitSetQueueJobId, SubmitAt, SubmissionInv, Offered
<1>5. \/ /\ rows'[j].status = rows[j].status
         /\ rows'[j].err = rows[j].err
         /\ rows'[j].resp = rows[j].resp
         /\ rows'[j].start = rows[j].start
         /\ rows'[j].fin = rows[j].fin
         /\ rows'[j].attempts = rows[j].attempts
      \/ /\ ~Promised(j)
         /\ rows'[j].status = "failed"
         /\ rows'[j].err = "queue"
         /\ rows'[j].start = rows[j].start
         /\ rows'[j].attempts = rows[j].attempts
  <2>1. CASE SubmitSetQueueJobId(s)
    BY <1>1, <1>2, <2>1, WithQueueJobIdRows DEF SubmitSetQueueJobId
  <2>2. CASE SubmitMarkFailed(s)
    <3>1. ~Promised(j) /\ rows' = MarkedFailed(rows, j, "queue")
      BY <2>2 DEF SubmitMarkFailed, SubmitAt, SubmissionInv, Promised
    <3>2. "queue" \in Errors
      BY DEF Errors
    <3> HIDE DEF InductiveInv, LifeInv, BaseInv, j
    <3> QED BY <1>1, <1>2, <3>1, <3>2, MarkedFailedRows
  <2> QED BY <2>1, <2>2
<1>6. ASSUME NEW k \in Jobs, Fresh(k) PROVE Fresh(k)'
  BY <1>1, <1>3, <1>5, <1>6 DEF Fresh, Promised
<1>7. FreshInv'
  <2>1. \A k \in Jobs : fate[k] \in {"unused", "created"} => rows'[k] = rows[k]
    BY <1>3, <1>4 DEF Offered
  <2> QED BY <1>1, <1>6, <2>1, HeldJobs DEF FreshInv, Coherent
<1>8. RunInv'
  BY <1>1, <1>3, <1>5, HeldJobs DEF RunInv, Running, Promised
<1>9. RecoveryInv'
  BY <1>1, <1>3, <1>5, HeldJobs DEF RecoveryInv, Holding, Promised
<1>10. \A k \in Jobs : rows'[k].attempts <= 1
  BY <1>3, <1>5
<1>11. PromisedRowsCoherent'
  BY <1>1, <1>3, <1>5 DEF PromisedRowsCoherent, Promised, Coherent
<1> QED BY <1>7, <1>8, <1>9, <1>10, <1>11

\* The SELECT of a recovery: no run is old enough to be selected.
LEMMA LifeSelect ==
    ASSUME NoOverrun, InductiveInv, NEW w \in Workers, RecoverSelect(w)
    PROVE  LifeInv'
<1> USE DEF InductiveInv, LifeInv, BaseInv
<1>1. /\ wpc[w] = "down"
      /\ wpc' = [wpc EXCEPT ![w] = "recovering"]
      /\ stale' = [stale EXCEPT ![w] = StaleRunning(rows)]
      /\ UNCHANGED <<rows, rq, wjob, wage, fate>>
  BY DEF RecoverSelect, WorkerAt, storeVars
<1>2. /\ wpc \in [Workers -> WorkerStates]
      /\ stale \in [Workers -> SUBSET Jobs]
      /\ wage \in [Workers -> 0 .. RunLimit]
      /\ fate \in [Jobs -> Fates]
  BY DEF TypeOK
<1>3. /\ wpc'[w] = "recovering" /\ stale'[w] = StaleRunning(rows)
      /\ \A v \in Workers \ {w} : wpc'[v] = wpc[v] /\ stale'[v] = stale[v]
  BY <1>1, <1>2
<1>4. \A v \in Workers :
        /\ Holding(v)' <=> Holding(v)
        /\ Running(v)' <=> Running(v)
        /\ wpc'[v] \in {"dequeued", "loaded"} <=> wpc[v] \in {"dequeued", "loaded"}
  BY <1>1, <1>3 DEF Holding, HoldStates, Running, RunStates
<1>5. ASSUME NEW j \in StaleRunning(rows)
      PROVE  /\ fate[j] \in Offered
             /\ \A i \in 1 .. Len(rq) : rq[i] # j
             /\ \A v \in Workers : Holding(v) => wjob[v] # j
             /\ rows[j].status = "running"
  <2>1. /\ j \in Jobs /\ rows[j].status = "running" /\ rows[j].start > StaleAfter
        /\ RunLimit <= StaleAfter
    BY DEF StaleRunning, NoOverrun
  <2>2. fate[j] \in Offered
    BY <1>2, <2>1 DEF FreshInv, NoRow, Fates, Offered
  <2>3. ~Fresh(j)
    BY <2>1 DEF Fresh
  <2>4. ASSUME NEW v \in Workers, Holding(v), wjob[v] = j PROVE FALSE
    <3>1. Running(v)
      BY <2>3, <2>4 DEF FreshInv, Holding, HoldStates, Running
    <3>2. rows[j].start <= wage[v]
      BY <2>1, <2>4, <3>1 DEF RunInv
    <3>3. rows[j].start \in Int /\ wage[v] \in Int /\ wage[v] <= RunLimit
      BY <1>2, <2>1, RowColumns, AgeCapAbove, SystemAssumption DEF Ages, Unset
    <3> QED BY <2>1, <3>2, <3>3, StoreAssumption, SystemAssumption
  <2> QED BY <2>1, <2>2, <2>3, <2>4 DEF FreshInv
<1>6. FreshInv'
  BY <1>1, <1>4 DEF FreshInv, Fresh, Promised, Coherent
<1>7. RunInv'
  BY <1>1, <1>4 DEF RunInv, Promised
<1>8. RecoveryInv'
  <2>1. ASSUME NEW v \in Workers, NEW j \in stale'[v]
        PROVE  /\ wpc'[v] = "recovering"
               /\ fate[j] \in Offered
               /\ \A i \in 1 .. Len(rq) : rq[i] # j
               /\ \A u \in Workers : Holding(u) => wjob[u] # j
               /\ Promised(j) => rows[j].status \in {"running", "failed", "absent"}
    <3>1. CASE v = w
      BY <1>3, <1>5, <2>1, <3>1
    <3>2. CASE v # w
      BY <1>3, <2>1, <3>2 DEF RecoveryInv
    <3> QED BY <3>1, <3>2
  <2> QED BY <1>1, <1>4, <2>1 DEF RecoveryInv, Promised
<1>9. PromisedRowsCoherent'
  BY <1>1 DEF PromisedRowsCoherent, Promised
<1> QED BY <1>1, <1>6, <1>7, <1>8, <1>9

\* The UPDATE of a recovery: what it fails is in nobody's hands.
LEMMA LifeFailStale ==
    ASSUME InductiveInv, NEW w \in Workers, RecoverUpdate(w)
    PROVE  LifeInv'
<1> USE DEF InductiveInv, LifeInv, BaseInv
<1>1. /\ wpc[w] = "recovering"
      /\ wpc' = [wpc EXCEPT ![w] = "idle"]
      /\ rows' = FailedStale(rows, stale[w])
      /\ stale' = [stale EXCEPT ![w] = {}]
      /\ UNCHANGED <<rq, wjob, wage, fate>>
  BY DEF RecoverUpdate, WorkerAt
<1>2. /\ rows \in Table
      /\ wpc \in [Workers -> WorkerStates]
      /\ stale \in [Workers -> SUBSET Jobs]
  BY DEF TypeOK
<1>3. /\ wpc'[w] = "idle" /\ stale'[w] = {}
      /\ \A v \in Workers \ {w} : wpc'[v] = wpc[v] /\ stale'[v] = stale[v]
  BY <1>1, <1>2
<1>4. \A v \in Workers :
        /\ Holding(v)' <=> Holding(v)
        /\ Running(v)' <=> Running(v)
        /\ wpc'[v] \in {"dequeued", "loaded"} <=> wpc[v] \in {"dequeued", "loaded"}
  BY <1>1, <1>3 DEF Holding, HoldStates, Running, RunStates
<1>5. \A k \in Jobs :
        \/ rows'[k] = rows[k]
        \/ /\ k \in stale[w]
           /\ rows'[k].status = "failed" /\ rows'[k].err = "stale"
           /\ rows'[k].fin = 0
           /\ rows'[k].resp = rows[k].resp
           /\ rows'[k].start = rows[k].start
           /\ rows'[k].attempts = rows[k].attempts
           /\ rows[k].status # "absent"
  BY <1>1, <1>2, FailedStaleRows
<1>6. \A k \in stale[w] :
        /\ fate[k] \in Offered
        /\ \A i \in 1 .. Len(rq) : rq[i] # k
        /\ \A v \in Workers : Holding(v) => wjob[v] # k
        /\ Promised(k) => rows[k].status \in {"running", "failed", "absent"}
  BY DEF RecoveryInv
<1>7. ASSUME NEW k \in Jobs \ stale[w], Fresh(k) PROVE Fresh(k)'
  BY <1>1, <1>5, <1>7 DEF Fresh, Promised
<1>8. FreshInv'
  <2>1. \A k \in Jobs : fate[k] \in {"unused", "created"} =>
            rows'[k] = rows[k] /\ k \notin stale[w]
    BY <1>5, <1>6 DEF Offered
  <2>2. \A i \in 1 .. Len(rq') : Fresh(rq[i])'
    BY <1>1, <1>6, <1>7, HeldJobs DEF FreshInv
  <2>3. \A v \in Workers : wpc'[v] \in {"dequeued", "loaded"} => Fresh(wjob[v])'
    BY <1>1, <1>4, <1>6, <1>7, HeldJobs DEF FreshInv
  <2> QED BY <1>1, <1>7, <2>1, <2>2, <2>3 DEF FreshInv, Coherent
<1>9. RunInv'
  BY <1>1, <1>4, <1>5, <1>6, HeldJobs DEF RunInv, Promised
<1>10. RecoveryInv'
  BY <1>1, <1>2, <1>3, <1>4, <1>5 DEF RecoveryInv, Promised
<1>11. \A k \in Jobs : rows'[k].attempts <= 1
  BY <1>5
<1>12. PromisedRowsCoherent'
  <2>1. ASSUME NEW k \in Jobs, Promised(k), rows'[k] # rows[k]
        PROVE  Coherent(rows'[k])
    <3>1. rows[k].status \in {"running", "failed"} /\ Coherent(rows[k])
      BY <1>5, <1>6, <2>1 DEF PromisedRowsCoherent
    <3>2. rows[k].start \in Int /\ rows[k].start >= 0
      <4>1. rows[k].start \in Ages /\ rows[k].fin \in Ages
        BY RowColumns
      <4> QED BY <3>1, <4>1, AgeCapAbove DEF Coherent, Ages, Unset
    <3> QED BY <1>5, <2>1, <3>1, <3>2 DEF Coherent, Unset
  <2> QED BY <1>1, <2>1 DEF PromisedRowsCoherent, Promised, Coherent
<1> QED BY <1>8, <1>9, <1>10, <1>11, <1>12

\* Steps that change no row: ids only move from the queue to a worker's hands
\* and out of them, and recoveries only end.
LEMMA LifeHands ==
    ASSUME InductiveInv, UNCHANGED <<rows, fate>>,
           \A i \in 1 .. Len(rq') : \E k \in 1 .. Len(rq) : rq'[i] = rq[k],
           \A v \in Workers : \A j \in stale'[v] :
                j \in stale[v] /\ wpc'[v] = "recovering",
           \A v \in Workers : wpc'[v] \in {"dequeued", "loaded"} => Fresh(wjob'[v]),
           \A v \in Workers : Running(v)' =>
                Running(v) /\ wjob'[v] = wjob[v] /\ wage'[v] = wage[v],
           \A v \in Workers : Holding(v)' =>
                \A u \in Workers : wjob'[v] \notin stale[u]
    PROVE  LifeInv'
<1>1. FreshInv'
  <2>1. \A i \in 1 .. Len(rq') : Fresh(rq'[i])
    BY DEF InductiveInv, LifeInv, FreshInv
  <2> QED BY <2>1 DEF InductiveInv, LifeInv, FreshInv, Fresh, Promised, Coherent
<1>2. RunInv'
  BY DEF InductiveInv, LifeInv, RunInv, Promised
<1>3. RecoveryInv'
  <2> HIDE DEF Holding
  <2> QED BY DEF InductiveInv, LifeInv, RecoveryInv, Promised
<1>4. PromisedRowsCoherent'
  BY DEF InductiveInv, LifeInv, PromisedRowsCoherent, Promised
<1> QED BY <1>1, <1>2, <1>3, <1>4 DEF InductiveInv, LifeInv

\* A worker's UPDATE of the row of the job it holds.
LEMMA LifeUpdate ==
    ASSUME InductiveInv, NEW w \in Workers, Holding(w),
           NEW j \in Jobs, wjob[w] = j,
           UNCHANGED <<rq, fate, stale>>,
           \A k \in Jobs \ {j} : rows'[k] = rows[k],
           \A v \in Workers \ {w} :
                wpc'[v] = wpc[v] /\ wjob'[v] = wjob[v] /\ wage'[v] = wage[v],
           wpc'[w] \in {"idle", "running"},
           wpc'[w] = "running" =>
                /\ wjob'[w] = j
                /\ rows'[j].status = "running" => rows'[j].start <= wage'[w]
                /\ Promised(j) => rows'[j].status = "running",
           rows'[j].attempts <= 1,
           Promised(j) => Coherent(rows'[j])
    PROVE  LifeInv'
<1>1. /\ fate[j] \in Offered
      /\ \A i \in 1 .. Len(rq) : rq[i] # j
      /\ \A v \in Workers \ {w} : Holding(v) => wjob[v] # j
      /\ \A v \in Workers : j \notin stale[v]
  BY DEF InductiveInv, BaseInv, LifeInv, DeliveryInv, RecoveryInv
<1>2. ASSUME NEW k \in Jobs \ {j}, Fresh(k) PROVE Fresh(k)'
  BY <1>2 DEF Fresh, Promised
<1>3. /\ \A v \in Workers \ {w} : Holding(v)' <=> Holding(v)
      /\ \A v \in Workers \ {w} : Running(v)' <=> Running(v)
      /\ Holding(w)' => wpc'[w] = "running"
      /\ wpc[w] # "recovering"
  BY DEF Holding, HoldStates, Running, RunStates
<1>4. /\ \A v \in Workers : Running(v) => Holding(v)
      /\ \A v \in Workers : Holding(v) => wjob[v] \in Jobs
      /\ \A v \in Workers : wpc[v] \in {"dequeued", "loaded"} => Holding(v)
      /\ \A i \in 1 .. Len(rq) : rq[i] \in Jobs
  BY HeldJobs DEF InductiveInv
<1>5. FreshInv'
  <2>1. \A k \in Jobs : fate[k] \in {"unused", "created"} => k # j
    BY <1>1 DEF Offered
  <2>2. \A i \in 1 .. Len(rq) : Fresh(rq[i])'
    BY <1>1, <1>2, <1>4 DEF InductiveInv, LifeInv, FreshInv
  <2>3. ASSUME NEW v \in Workers, wpc'[v] \in {"dequeued", "loaded"}
        PROVE  Fresh(wjob[v])'
    <3>1. v # w /\ wpc[v] = wpc'[v] /\ wjob'[v] = wjob[v]
      BY <2>3
    <3>2. Fresh(wjob[v]) /\ wjob[v] \in Jobs \ {j}
      BY <1>1, <1>4, <2>3, <3>1 DEF InductiveInv, LifeInv, FreshInv
    <3>3. ASSUME NEW k \in Jobs \ {j}, k = wjob'[v], Fresh(k) PROVE Fresh(wjob[v])'
      BY <3>3 DEF Fresh, Promised
    <3> QED BY <3>1, <3>2, <3>3
  <2> QED BY <1>2, <2>1, <2>2, <2>3
          DEF InductiveInv, LifeInv, FreshInv, Coherent
<1>6. RunInv'
  <2>1. ASSUME NEW v \in Workers, Running(v)'
        PROVE  /\ rows'[wjob'[v]].status = "running" =>
                        rows'[wjob'[v]].start <= wage'[v]
               /\ Promised(wjob'[v]) => rows'[wjob'[v]].status = "running"
    <3>1. CASE v = w
      BY <1>3, <2>1, <3>1 DEF Running, RunStates
    <3>2. CASE v # w
      BY <1>1, <1>3, <1>4, <2>1, <3>2 DEF InductiveInv, LifeInv, RunInv
    <3> QED BY <3>1, <3>2
  <2> QED BY <2>1 DEF RunInv, Promised
<1>7. RecoveryInv'
  <2>1. ASSUME NEW v \in Workers, NEW k \in stale[v]
        PROVE  /\ wpc'[v] = "recovering"
               /\ fate[k] \in Offered
               /\ \A i \in 1 .. Len(rq) : rq[i] # k
               /\ \A u \in Workers : Holding(u)' => wjob'[u] # k
               /\ Promised(k) => rows'[k].status \in {"running", "failed", "absent"}
    <3>1. k # j /\ k \in Jobs /\ wpc[v] = "recovering" /\ v # w
      BY <1>1, <1>3, HeldJobs DEF InductiveInv, LifeInv, RecoveryInv
    <3>2. ASSUME NEW u \in Workers, Holding(u)' PROVE wjob'[u] # k
      BY <1>3, <3>1, <3>2 DEF InductiveInv, LifeInv, RecoveryInv
    <3> QED BY <3>1, <3>2 DEF InductiveInv, LifeInv, RecoveryInv
  <2> QED BY <2>1 DEF RecoveryInv, Promised
<1>8. \A k \in Jobs : rows'[k].attempts <= 1
  BY DEF InductiveInv, LifeInv
<1>9. PromisedRowsCoherent'
  <2>1. ASSUME NEW k \in Jobs, Promised(k) PROVE Coherent(rows'[k])
    BY <2>1 DEF InductiveInv, LifeInv, PromisedRowsCoherent
  <2> QED BY <2>1 DEF PromisedRowsCoherent, Promised, Coherent
<1> QED BY <1>5, <1>6, <1>7, <1>8, <1>9 DEF LifeInv

\* The worker's steps between its UPDATEs.
LEMMA LifeWork ==
    ASSUME InductiveInv, NEW w \in Workers,
           \/ Dequeue(w) \/ LoadRequest(w) \/ Execute(w)
           \/ HorseDies(w) \/ WorkerDies(w)
    PROVE  LifeInv'
<1> USE DEF WorkerAt
<1>1. /\ wpc \in [Workers -> WorkerStates]
      /\ wjob \in [Workers -> Jobs \cup {NoJob}]
      /\ wage \in [Workers -> 0 .. RunLimit]
      /\ stale \in [Workers -> SUBSET Jobs]
      /\ rq \in Seq(Jobs)
  BY DEF InductiveInv, BaseInv, TypeOK
<1>2. \A v \in Workers : Holding(v) => \A u \in Workers : wjob[v] \notin stale[u]
  BY DEF InductiveInv, LifeInv, RecoveryInv
<1>3. \A v \in Workers : wpc[v] \in {"dequeued", "loaded"} => Fresh(wjob[v])
  BY DEF InductiveInv, LifeInv, FreshInv
<1>4. \A v \in Workers : \A k \in stale[v] : wpc[v] = "recovering"
  BY DEF InductiveInv, LifeInv, RecoveryInv
<1>5. CASE Dequeue(w)
  <2>1. /\ UNCHANGED <<rows, fate, wage, stale>>
        /\ wpc[w] = "idle" /\ wpc' = [wpc EXCEPT ![w] = "dequeued"]
        /\ wjob' = [wjob EXCEPT ![w] = rq[1]]
        /\ 1 \in 1 .. Len(rq)
        /\ rq' = Tail(rq)
    BY <1>1, <1>5 DEF Dequeue
  <2>2. Fresh(rq[1]) /\ \A u \in Workers : rq[1] \notin stale[u]
    BY <2>1 DEF InductiveInv, LifeInv, FreshInv, RecoveryInv
  <2>3. \A i \in 1 .. Len(rq') : \E k \in 1 .. Len(rq) : rq'[i] = rq[k]
    <3>1. ASSUME NEW i \in 1 .. Len(rq')
          PROVE  rq'[i] = rq[i + 1] /\ i + 1 \in 1 .. Len(rq)
      BY <1>1, <2>1, <3>1
    <3> QED BY <3>1
  <2>4. \A v \in Workers : \A k \in stale'[v] : k \in stale[v] /\ wpc'[v] = "recovering"
    BY <1>1, <1>4, <2>1
  <2>5. \A v \in Workers : wpc'[v] \in {"dequeued", "loaded"} => Fresh(wjob'[v])
    BY <1>1, <1>3, <2>1, <2>2
  <2>6. \A v \in Workers : Running(v)' =>
            Running(v) /\ wjob'[v] = wjob[v] /\ wage'[v] = wage[v]
    BY <1>1, <2>1 DEF Running, RunStates
  <2>7. \A v \in Workers : Holding(v)' => \A u \in Workers : wjob'[v] \notin stale[u]
    BY <1>1, <1>2, <2>1, <2>2 DEF Holding
  <2> QED BY <2>1, <2>3, <2>4, <2>5, <2>6, <2>7, LifeHands
<1>6. CASE LoadRequest(w) \/ Execute(w)
  <2>1. /\ UNCHANGED <<rows, rq, fate, wage, stale>>
        /\ wpc[w] \in {"dequeued", "running"}
        /\ \/ wpc' = [wpc EXCEPT ![w] = "idle"] /\ wjob' = [wjob EXCEPT ![w] = NoJob]
           \/ /\ wpc[w] = "dequeued" /\ wjob' = wjob
              /\ wpc' = [wpc EXCEPT ![w] = "loaded"]
           \/ /\ wpc[w] = "running" /\ wjob' = wjob
              /\ \E to \in {"ok", "err"} : wpc' = [wpc EXCEPT ![w] = to]
    BY <1>6 DEF LoadRequest, Execute
  <2>2. \A v \in Workers : \A k \in stale'[v] : k \in stale[v] /\ wpc'[v] = "recovering"
    BY <1>1, <1>4, <2>1
  <2>3. \A v \in Workers : wpc'[v] \in {"dequeued", "loaded"} => Fresh(wjob'[v])
    BY <1>1, <1>3, <2>1
  <2>4. \A v \in Workers : Running(v)' =>
            Running(v) /\ wjob'[v] = wjob[v] /\ wage'[v] = wage[v]
    BY <1>1, <2>1 DEF Running, RunStates
  <2>5. \A v \in Workers : Holding(v)' => \A u \in Workers : wjob'[v] \notin stale[u]
    BY <1>1, <1>2, <2>1 DEF Holding, HoldStates, RunStates
  <2>6. \A i \in 1 .. Len(rq') : \E k \in 1 .. Len(rq) : rq'[i] = rq[k]
    BY <2>1
  <2> QED BY <2>1, <2>2, <2>3, <2>4, <2>5, <2>6, LifeHands
<1>7. CASE HorseDies(w) \/ WorkerDies(w)
  <2>1. /\ UNCHANGED <<rows, rq, fate>>
        /\ \E to \in {"idle", "down"} : wpc' = [wpc EXCEPT ![w] = to]
        /\ wjob' = [wjob EXCEPT ![w] = NoJob]
        /\ wage' = [wage EXCEPT ![w] = 0]
        /\ \/ stale' = stale /\ wpc[w] # "recovering"
           \/ stale' = [stale EXCEPT ![w] = {}]
    BY <1>7 DEF HorseDies, WorkerDies, Release, HoldStates, RunStates
  <2>2. \A v \in Workers : \A k \in stale'[v] : k \in stale[v] /\ wpc'[v] = "recovering"
    BY <1>1, <1>4, <2>1
  <2>3. \A v \in Workers : wpc'[v] \in {"dequeued", "loaded"} => Fresh(wjob'[v])
    BY <1>1, <1>3, <2>1
  <2>4. \A v \in Workers : Running(v)' =>
            Running(v) /\ wjob'[v] = wjob[v] /\ wage'[v] = wage[v]
    BY <1>1, <2>1 DEF Running, RunStates
  <2>5. \A v \in Workers : Holding(v)' => \A u \in Workers : wjob'[v] \notin stale[u]
    BY <1>1, <1>2, <2>1 DEF Holding, HoldStates, RunStates
  <2>6. \A i \in 1 .. Len(rq') : \E k \in 1 .. Len(rq) : rq'[i] = rq[k]
    BY <2>1
  <2> QED BY <2>1, <2>2, <2>3, <2>4, <2>5, <2>6, LifeHands
<1> QED BY <1>5, <1>6, <1>7

\* The worker's UPDATEs.  None tests the status in the code; each finds the
\* row as it expects it because nobody else may have written it.
LEMMA LifeMark ==
    ASSUME InductiveInv, NEW w \in Workers,
           MarkRunning(w) \/ MarkSucceeded(w) \/ MarkFailed(w)
    PROVE  LifeInv'
<1>1. /\ wpc \in [Workers -> WorkerStates]
      /\ wjob \in [Workers -> Jobs \cup {NoJob}]
      /\ wage \in [Workers -> 0 .. RunLimit]
      /\ rows \in Table
  BY DEF InductiveInv, BaseInv, TypeOK
<1>2. Holding(w)
  BY DEF MarkRunning, MarkSucceeded, MarkFailed, WorkerAt, Holding, HoldStates, RunStates
<1>3. PICK j \in Jobs : j = wjob[w]
  BY <1>2, HeldJobs DEF InductiveInv
<1>4. /\ rows[j].status \in Statuses
      /\ rows[j].start \in Ages
      /\ rows[j].fin \in Ages
      /\ rows[j].attempts \in Nat
      /\ rows[j].attempts <= 1
      /\ Promised(j) => Coherent(rows[j])
  BY RowColumns DEF InductiveInv, LifeInv, PromisedRowsCoherent
<1>5. /\ UNCHANGED <<rq, fate, stale>>
      /\ \A v \in Workers \ {w} :
            wpc'[v] = wpc[v] /\ wjob'[v] = wjob[v] /\ wage'[v] = wage[v]
  BY <1>1 DEF MarkRunning, MarkSucceeded, MarkFailed, WorkerAt, Release
<1>6. CASE MarkRunning(w)
  <2>1. /\ rows' = MarkedRunning(rows, j)
        /\ wpc'[w] = "running" /\ wjob'[w] = j /\ wage'[w] = 0
        /\ Fresh(j)
    BY <1>1, <1>3, <1>6 DEF MarkRunning, WorkerAt, InductiveInv, LifeInv, FreshInv
  <2>2. \A k \in Jobs \ {j} : rows'[k] = rows[k]
    BY <1>1, <2>1, MarkedRunningRows
  <2>3. \/ rows[j].status = "absent" /\ rows'[j] = rows[j]
        \/ /\ rows'[j].status = "running" /\ rows'[j].start = 0
           /\ rows'[j].attempts = 1
           /\ rows'[j].err = rows[j].err /\ rows'[j].resp = rows[j].resp
           /\ rows'[j].fin = rows[j].fin
    <3>1. Coalesce(Unset, 0) = 0
      BY DEF Coalesce
    <3> QED BY <1>1, <2>1, <3>1, MarkedRunningRows DEF Fresh
  <2>4. /\ rows'[j].attempts <= 1
        /\ rows'[j].status = "running" => rows'[j].start <= wage'[w]
        /\ Promised(j) => rows'[j].status = "running" /\ Coherent(rows'[j])
    BY <1>4, <2>1, <2>3 DEF Fresh, Coherent, Unset
  <2> QED BY <1>2, <1>3, <1>5, <2>1, <2>2, <2>4, LifeUpdate
<1>7. CASE MarkSucceeded(w) \/ MarkFailed(w)
  <2>1. Running(w) /\ wpc'[w] = "idle"
    BY <1>1, <1>7 DEF MarkSucceeded, MarkFailed, WorkerAt, Running, RunStates
  <2>2. Promised(j) => rows[j].status = "running" /\ Coherent(rows[j])
    BY <1>3, <1>4, <2>1 DEF InductiveInv, LifeInv, RunInv
  <2>3. \/ rows' = MarkedSucceeded(rows, j)
        \/ rows' = MarkedFailed(rows, j, "run")
    BY <1>3, <1>7 DEF MarkSucceeded, MarkFailed
  <2>4. "run" \in Errors /\ Coalesce(Unset, 0) = 0
    BY DEF Errors, Coalesce
  <2>5. /\ \A k \in Jobs \ {j} : rows'[k] = rows[k]
        /\ rows'[j] = rows[j] \/ rows'[j].attempts = rows[j].attempts
    <3>1. CASE rows' = MarkedSucceeded(rows, j)
      BY <1>1, <3>1, MarkedSucceededRows
    <3>2. CASE rows' = MarkedFailed(rows, j, "run")
      BY <1>1, <2>4, <3>2, MarkedFailedRows
    <3> QED BY <2>3, <3>1, <3>2
  <2>6. rows'[j].attempts <= 1
    BY <1>4, <2>5
  <2>7. ASSUME Promised(j) PROVE Coherent(rows'[j])
    <3>1. /\ rows[j].status = "running" /\ rows[j].fin = Unset
          /\ rows[j].err = "none" /\ ~rows[j].resp
          /\ rows[j].start \in Int /\ 0 <= rows[j].start
      BY <1>4, <2>2, <2>7, AgeCapAbove DEF Coherent, Ages, Unset
    <3>2. /\ rows'[j].fin = 0 /\ rows'[j].start = rows[j].start
          /\ \/ /\ rows'[j].status = "succeeded"
                /\ rows'[j].err = "none" /\ rows'[j].resp
             \/ /\ rows'[j].status = "failed"
                /\ rows'[j].err = "run" /\ ~rows'[j].resp
      <4>1. CASE rows' = MarkedSucceeded(rows, j)
        BY <1>1, <3>1, <4>1, MarkedSucceededRows
      <4>2. CASE rows' = MarkedFailed(rows, j, "run")
        BY <1>1, <2>4, <3>1, <4>2, MarkedFailedRows
      <4> QED BY <2>3, <4>1, <4>2
    <3> QED BY <3>1, <3>2 DEF Coherent, Unset
  <2> QED BY <1>2, <1>3, <1>5, <2>1, <2>5, <2>6, <2>7, LifeUpdate
<1> QED BY <1>6, <1>7

\* A tick: rows and runs grow older together.
LEMMA LifeTick == InductiveInv /\ Tick => LifeInv'
<1> SUFFICES ASSUME InductiveInv, Tick PROVE LifeInv'
  OBVIOUS
<1>1. /\ rows \in Table
      /\ wage \in [Workers -> 0 .. RunLimit]
  BY DEF InductiveInv, BaseInv, TypeOK
<1>2. /\ rows' = Aged(rows)
      /\ UNCHANGED <<rq, wpc, wjob, stale, fate>>
      /\ \A w \in Workers : Running(w) => wage'[w] = wage[w] + 1
  BY DEF Tick
<1>3. \A k \in Jobs : /\ rows[k] \in Row
                      /\ rows[k].start \in Ages
                      /\ rows[k].fin \in Ages
  BY <1>1 DEF Table, Row
<1>4. \A k \in Jobs : /\ rows'[k].status = rows[k].status
                      /\ rows'[k].err = rows[k].err
                      /\ rows'[k].resp = rows[k].resp
                      /\ rows'[k].attempts = rows[k].attempts
                      /\ rows'[k].start = Older(rows[k].start)
                      /\ rows'[k].fin = Older(rows[k].fin)
  <2>1. \A k \in Jobs :
          rows'[k] = [rows[k] EXCEPT !.start = Older(rows[k].start),
                                     !.fin = Older(rows[k].fin)]
    BY <1>1, <1>2, AgedRows
  <2> QED BY <1>3, <2>1 DEF Row
<1>5. \A k \in Jobs : /\ rows'[k].start = Unset <=> rows[k].start = Unset
                      /\ rows'[k].fin = Unset <=> rows[k].fin = Unset
                      /\ rows[k].fin <= rows[k].start => rows'[k].fin <= rows'[k].start
                      /\ rows'[k].start <= rows[k].start + 1
  BY <1>3, <1>4, OlderAge
<1>6. ASSUME NEW k \in Jobs, Fresh(k) PROVE Fresh(k)'
  BY <1>2, <1>4, <1>5, <1>6 DEF Fresh, Promised
<1>7. ASSUME NEW k \in Jobs, Coherent(rows[k]) PROVE Coherent(rows'[k])
  BY <1>4, <1>5, <1>7 DEF Coherent
<1>8. FreshInv'
  <2>1. ASSUME NEW k \in Jobs, fate[k] = "unused" PROVE rows'[k] = NoRow
    <3>1. rows[k] = NoRow
      BY <2>1 DEF InductiveInv, LifeInv, FreshInv
    <3>2. rows'[k] = [NoRow EXCEPT !.start = Older(Unset), !.fin = Older(Unset)]
      <4>1. rows'[k] = [rows[k] EXCEPT !.start = Older(rows[k].start),
                                      !.fin = Older(rows[k].fin)]
        BY <1>1, <1>2, AgedRows
      <4>2. rows[k].start = Unset /\ rows[k].fin = Unset
        BY <3>1 DEF NoRow
      <4> QED BY <3>1, <4>1, <4>2
    <3>3. Older(Unset) = Unset
      BY DEF Older
    <3> QED BY <3>2, <3>3 DEF NoRow
  <2>2. ASSUME NEW k \in Jobs, fate[k] = "created"
        PROVE  rows'[k].status = "queued" /\ Coherent(rows'[k]) /\ Fresh(k)'
    BY <1>4, <1>6, <1>7, <2>2 DEF InductiveInv, LifeInv, FreshInv
  <2>3. \A i \in 1 .. Len(rq) : Fresh(rq[i])'
    BY <1>2, <1>6, HeldJobs DEF InductiveInv, LifeInv, FreshInv
  <2>4. \A w \in Workers : wpc[w] \in {"dequeued", "loaded"} => Fresh(wjob[w])'
    BY <1>2, <1>6, HeldJobs DEF InductiveInv, LifeInv, FreshInv
  <2> QED BY <1>2, <2>1, <2>2, <2>3, <2>4 DEF FreshInv, Coherent
<1>9. RunInv'
  <2>1. ASSUME NEW w \in Workers, Running(w), rows'[wjob[w]].status = "running"
        PROVE  rows'[wjob[w]].start <= wage'[w]
    <3>1. wjob[w] \in Jobs
      BY <2>1, HeldJobs DEF InductiveInv
    <3>2. rows[wjob[w]].start <= wage[w]
      BY <1>4, <2>1, <3>1 DEF InductiveInv, LifeInv, RunInv
    <3>3. /\ rows'[wjob[w]].start <= rows[wjob[w]].start + 1
          /\ rows'[wjob[w]].start \in Int /\ rows[wjob[w]].start \in Int
          /\ wage[w] \in Int
      BY <1>1, <1>3, <1>4, <1>5, <3>1, OlderAge, AgeCapAbove, SystemAssumption
      DEF Ages, Unset
    <3> QED BY <1>2, <2>1, <3>2, <3>3
  <2> QED BY <1>2, <1>4, <2>1, HeldJobs
          DEF InductiveInv, LifeInv, RunInv, Running, Promised
<1>10. RecoveryInv'
  BY <1>2, <1>4, HeldJobs
  DEF InductiveInv, LifeInv, RecoveryInv, Holding, Promised
<1>11. PromisedRowsCoherent'
  BY <1>2, <1>7 DEF InductiveInv, LifeInv, PromisedRowsCoherent, Promised, Coherent
<1> QED BY <1>4, <1>8, <1>9, <1>10, <1>11 DEF InductiveInv, LifeInv

\* The initial state: no job, no row, no worker up.
LEMMA LifeInit == Init => LifeInv
<1> SUFFICES ASSUME Init PROVE LifeInv
  OBVIOUS
<1>1. /\ \A j \in Jobs : rows[j] = NoRow /\ fate[j] = "unused"
      /\ rq = <<>>
      /\ \A w \in Workers : wpc[w] = "down" /\ stale[w] = {}
  BY DEF Init, EmptyTable
<1>2. FreshInv
  BY <1>1 DEF FreshInv
<1>3. RunInv /\ RecoveryInv /\ PromisedRowsCoherent
  BY <1>1 DEF RunInv, Running, RunStates, RecoveryInv, PromisedRowsCoherent, Promised
<1>4. \A j \in Jobs : rows[j].attempts <= 1
  BY <1>1 DEF NoRow
<1> QED BY <1>2, <1>3, <1>4 DEF LifeInv

\* Every step keeps the rows in step with what is done about their jobs.
LEMMA LifeStep ==
    ASSUME NoOverrun, InductiveInv, [Next]_vars
    PROVE  LifeInv'
<1>1. ASSUME NEW s \in Submitters, Submit(s) PROVE LifeInv'
  <2>1. CASE SubmitCheck(s) \/ SubmitReply(s)
    <3>1. rows' = Cleaned(rows) /\ UNCHANGED <<rq, workerVars, fate>>
      BY <2>1 DEF SubmitCheck, SubmitReply
    <3> QED BY <3>1, LifeClean
  <2>2. CASE SubmitCreate(s)
    BY <2>2, LifeCreate
  <2>3. CASE SubmitEnqueue(s) \/ SubmitEnqueueError(s)
    BY <2>3, LifeOffer
  <2>4. CASE SubmitMarkFailed(s) \/ SubmitSetQueueJobId(s)
    BY <2>4, LifeSubmitUpdate
  <2> QED BY <1>1, <2>1, <2>2, <2>3, <2>4 DEF Submit
<1>2. ASSUME NEW w \in Workers,
             Recover(w) \/ Work(w) \/ HorseDies(w) \/ WorkerDies(w)
      PROVE  LifeInv'
  BY <1>2, LifeSelect, LifeFailStale, LifeWork, LifeMark DEF Recover, Work
<1>3. CASE ReadJobs
  BY <1>3, LifeClean DEF ReadJobs
<1>4. CASE Tick
  BY <1>4, LifeTick
<1>5. ASSUME UNCHANGED <<rows, rq, wpc, wjob, wage, stale, fate>> PROVE LifeInv'
  <2>1. /\ \A v \in Workers : \A j \in stale[v] : wpc[v] = "recovering"
        /\ \A v \in Workers : wpc[v] \in {"dequeued", "loaded"} => Fresh(wjob[v])
        /\ \A v \in Workers : Holding(v) => \A u \in Workers : wjob[v] \notin stale[u]
    BY DEF InductiveInv, LifeInv, FreshInv, RecoveryInv
  <2>2. \A v \in Workers : (Running(v)' => Running(v)) /\ (Holding(v)' => Holding(v))
    BY <1>5 DEF Running, Holding
  <2> QED BY <1>5, <2>1, <2>2, LifeHands
<1>6. ASSUME NEW s \in Submitters, SubmitAborts(s) PROVE LifeInv'
  BY <1>5, <1>6 DEF SubmitAborts, workerVars
<1>7. CASE UNCHANGED vars
  BY <1>5, <1>7 DEF vars
<1> QED BY <1>1, <1>2, <1>3, <1>4, <1>6, <1>7 DEF Next

\* As long as no run can reach the stale threshold, InductiveInv is invariant.
THEOREM InductiveInvariant ==
    ASSUME NoOverrun
    PROVE  Spec => []InductiveInv
<1>1. Init => InductiveInv
  BY BaseInit, LifeInit DEF InductiveInv
<1>2. InductiveInv /\ [Next]_vars => InductiveInv'
  <2> SUFFICES ASSUME InductiveInv, [Next]_vars PROVE InductiveInv'
    OBVIOUS
  <2>1. BaseInv'
    BY TypeStep, SubmissionStep, DeliveryStep DEF InductiveInv, BaseInv
  <2>2. LifeInv'
    BY LifeStep
  <2> QED BY <2>1, <2>2 DEF InductiveInv
<1> QED BY <1>1, <1>2, PTL DEF Spec

\* The row of a promised job tells one story, although no UPDATE tests what it
\* overwrites.
THEOREM RowsAreCoherent ==
    ASSUME NoOverrun
    PROVE  Spec => []PromisedRowsCoherent
<1>1. InductiveInv => PromisedRowsCoherent
  BY DEF InductiveInv, LifeInv
<1> QED BY InductiveInvariant, <1>1, PTL

\* A promised job in a worker's hands shows as running until the worker itself
\* ends it, whatever recoveries and cleanups go on meanwhile.
THEOREM LiveJobsAreShown ==
    ASSUME NoOverrun
    PROVE  Spec => []LiveJobsShowRunning
<1>1. InductiveInv => LiveJobsShowRunning
  BY DEF InductiveInv, LifeInv, RunInv, LiveJobsShowRunning
<1> QED BY InductiveInvariant, <1>1, PTL

\* No job is started twice.
THEOREM JobsStartOnce ==
    ASSUME NoOverrun
    PROVE  Spec => []StartedOnce
<1>1. InductiveInv => StartedOnce
  BY DEF InductiveInv, BaseInv, LifeInv, DeliveryInv, StartedOnce
<1> QED BY InductiveInvariant, <1>1, PTL
-----------------------------------------------------------------------------
\* What the client sees of one job, before and after a step.
LEMMA ViewOfJob ==
    ASSUME NEW j \in Jobs
    PROVE  /\ ClientView[j] = IF fate[j] # "promised" THEN "none"
                              ELSE IF rows[j].status # "absent"
                              THEN rows[j].status ELSE "expired"
           /\ ClientView'[j] = IF fate'[j] # "promised" THEN "none"
                               ELSE IF rows'[j].status # "absent"
                               THEN rows'[j].status ELSE "expired"
BY DEF ClientView, Promised, Present

\* A step that leaves status and promise of every job alone is not seen.
LEMMA UnseenStep ==
    ASSUME \A j \in Jobs :
              /\ fate'[j] = "promised" <=> fate[j] = "promised"
              /\ fate[j] = "promised" => rows'[j].status = rows[j].status
    PROVE  ClientView' = ClientView
BY DEF ClientView, Promised, Present

\* A cleanup, whatever else it comes with, lets finished jobs expire.
LEMMA ExpireStep ==
    ASSUME InductiveInv,
           \A j \in Jobs : fate'[j] = "promised" <=> fate[j] = "promised",
           \A j \in Jobs : fate[j] = "promised" =>
                /\ rows'[j] \in {rows[j], NoRow}
                /\ rows[j].fin = Unset => rows'[j] = rows[j]
    PROVE  Promise!Next
<1> DEFINE S == {j \in Jobs : /\ fate[j] = "promised"
                              /\ rows[j].status # "absent"
                              /\ rows'[j] # rows[j]}
<1>1. NoRow.status = "absent"
  BY DEF NoRow
<1>2. ASSUME NEW j \in S
      PROVE  /\ ClientView[j] \in {"succeeded", "failed"}
             /\ ClientView'[j] = "expired"
  <2>1. /\ rows[j].status \in Statuses \ {"absent"}
        /\ Coherent(rows[j])
        /\ rows[j].fin # Unset
        /\ rows'[j] = NoRow
    BY RowColumns DEF InductiveInv, LifeInv, PromisedRowsCoherent, Promised
  <2> QED BY <1>1, <2>1, ViewOfJob DEF Statuses, Coherent
<1>3. ASSUME NEW j \in Jobs \ S PROVE ClientView'[j] = ClientView[j]
  <2>1. CASE fate[j] = "promised"
    <3>1. rows'[j].status = rows[j].status
      BY <1>1, <1>3, <2>1
    <3> QED BY <2>1, <3>1, ViewOfJob
  <2>2. CASE fate[j] # "promised"
    BY <2>2, ViewOfJob
  <2> QED BY <2>1, <2>2
<1>4. ClientView' = [j \in Jobs |-> IF j \in S THEN "expired" ELSE ClientView[j]]
  <2> DEFINE V == [j \in Jobs |-> IF j \in S THEN "expired" ELSE ClientView[j]]
  <2>1. ClientView' = [j \in Jobs |-> ClientView'[j]]
    BY DEF ClientView
  <2> HIDE DEF S
  <2> QED BY <1>2, <1>3, <2>1
<1>5. S \in SUBSET Jobs
  OBVIOUS
<1>6. Promise!Expire(S)
  <2> HIDE DEF S
  <2> QED BY <1>2, <1>4 DEF Promise!Expire, Promise!MoveAll
<1> HIDE DEF S
<1> QED BY <1>5, <1>6 DEF Promise!Next

\* One promised job moves and no other.
LEMMA MoveStep ==
    ASSUME NEW j \in Jobs, NEW from, NEW to,
           ClientView[j] = from, ClientView'[j] = to,
           \A k \in Jobs \ {j} : ClientView'[k] = ClientView[k]
    PROVE  Promise!Move(j, {from}, to)
<1>1. /\ ClientView' = [k \in Jobs |-> ClientView'[k]]
      /\ ClientView = [k \in Jobs |-> ClientView[k]]
  BY DEF ClientView
<1>2. ClientView' = [ClientView EXCEPT ![j] = to]
  BY <1>1
<1> QED BY <1>2 DEF Promise!Move

\* What a submitter does is seen as an acceptance, an expiry or nothing.
LEMMA SubmitSeen ==
    ASSUME InductiveInv, NEW s \in Submitters, Submit(s) \/ SubmitAborts(s)
    PROVE  Promise!Next \/ ClientView' = ClientView
<1>1. /\ rows \in Table
      /\ fate \in [Jobs -> Fates]
  BY DEF InductiveInv, BaseInv, TypeOK
<1>2. CASE SubmitCheck(s) \/ SubmitReply(s)
  <2>1. rows' = Cleaned(rows) /\ fate' = fate
    BY <1>2 DEF SubmitCheck, SubmitReply
  <2> QED BY <1>1, <2>1, CleanedRows, ExpireStep
<1>3. CASE SubmitCreate(s)
  <2>1. PICK j \in Jobs : /\ fate[j] = "unused"
                          /\ fate' = [fate EXCEPT ![j] = "created"]
                          /\ rows' = Created(rows, j)
    BY <1>3 DEF SubmitCreate
  <2>2. \A k \in Jobs : fate'[k] = "promised" <=> fate[k] = "promised"
    BY <1>1, <2>1
  <2>3. \A k \in Jobs : fate[k] = "promised" =>
            /\ rows'[k] \in {rows[k], NoRow}
            /\ rows[k].fin = Unset => rows'[k] = rows[k]
    <3>1. \A k \in Jobs \ {j} : rows'[k] = Cleaned(rows)[k]
      BY <1>1, <2>1, CreatedRows
    <3> QED BY <1>1, <2>1, <3>1, CleanedRows
  <2> QED BY <2>2, <2>3, ExpireStep
<1>4. CASE SubmitEnqueue(s)
  <2>1. PICK j \in Jobs : /\ fate[j] = "created"
                          /\ fate' = [fate EXCEPT ![j] = "promised"]
                          /\ rows' = rows
    BY <1>4 DEF SubmitEnqueue, SubmitAt, InductiveInv, BaseInv, SubmissionInv
  <2>2. rows[j].status = "queued"
    BY <2>1 DEF InductiveInv, LifeInv, FreshInv
  <2>3. ClientView[j] = "none" /\ ClientView'[j] = "queued"
    BY <1>1, <2>1, <2>2, ViewOfJob
  <2>4. \A k \in Jobs \ {j} : ClientView'[k] = ClientView[k]
    BY <1>1, <2>1, ViewOfJob
  <2>5. ClientView' = [k \in Jobs |-> IF k = j THEN "queued"
                                     ELSE IF k \in {} THEN "expired"
                                     ELSE ClientView[k]]
    <3>1. ClientView' = [k \in Jobs |-> ClientView'[k]]
      BY DEF ClientView
    <3> QED BY <2>3, <2>4, <3>1
  <2>6. Promise!Accept(j, {})
    BY <2>3, <2>5 DEF Promise!Accept
  <2>7. {} \in SUBSET Jobs
    OBVIOUS
  <2> QED BY <2>6, <2>7 DEF Promise!Next
<1>5. CASE SubmitEnqueueError(s)
  <2>1. PICK j \in Jobs : /\ fate[j] = "created"
                          /\ fate' = [fate EXCEPT ![j] = "refused"]
                          /\ rows' = rows
    BY <1>5 DEF SubmitEnqueueError, SubmitAt, InductiveInv, BaseInv, SubmissionInv
  <2>2. \A k \in Jobs : fate'[k] = "promised" <=> fate[k] = "promised"
    BY <1>1, <2>1
  <2> QED BY <2>1, <2>2, UnseenStep
<1>6. CASE SubmitMarkFailed(s)
  <2>1. PICK j \in Jobs : /\ fate[j] = "refused"
                          /\ rows' = MarkedFailed(rows, j, "queue")
                          /\ fate' = fate
    BY <1>6 DEF SubmitMarkFailed, SubmitAt, InductiveInv, BaseInv, SubmissionInv
  <2>2. "queue" \in Errors
    BY DEF Errors
  <2>3. \A k \in Jobs \ {j} : rows'[k] = rows[k]
    BY <1>1, <2>1, <2>2, MarkedFailedRows
  <2> QED BY <2>1, <2>3, UnseenStep
<1>7. CASE SubmitSetQueueJobId(s)
  <2>1. PICK j \in Jobs : rows' = WithQueueJobId(rows, j) /\ fate' = fate
    BY <1>7 DEF SubmitSetQueueJobId, SubmitAt, InductiveInv, BaseInv, SubmissionInv
  <2>2. \A k \in Jobs : rows'[k].status = rows[k].status
    BY <1>1, <2>1, WithQueueJobIdRows
  <2> QED BY <2>1, <2>2, UnseenStep
<1>8. CASE SubmitAborts(s)
  BY <1>8, UnseenStep DEF SubmitAborts
<1> QED BY <1>2, <1>3, <1>4, <1>5, <1>6, <1>7, <1>8 DEF Submit

\* A recovery is seen as the failure of the running jobs it had selected.
LEMMA RecoverySeen ==
    ASSUME InductiveInv, NEW w \in Workers, RecoverUpdate(w)
    PROVE  Promise!Next
<1> DEFINE S == {j \in stale[w] : fate[j] = "promised" /\ rows'[j] # rows[j]
                                   /\ rows[j].status = "running"}
<1>1. /\ rows \in Table
      /\ stale[w] \subseteq Jobs
      /\ rows' = FailedStale(rows, stale[w])
      /\ fate' = fate
  BY DEF RecoverUpdate, InductiveInv, BaseInv, TypeOK
<1>2. \A j \in Jobs :
        \/ rows'[j] = rows[j]
        \/ /\ j \in stale[w]
           /\ rows[j].status # "absent"
           /\ rows'[j].status = "failed"
  BY <1>1, FailedStaleRows
<1>3. ASSUME NEW j \in S
      PROVE  ClientView[j] = "running" /\ ClientView'[j] = "failed"
  BY <1>1, <1>2, ViewOfJob
<1>4. ASSUME NEW j \in Jobs \ S PROVE ClientView'[j] = ClientView[j]
  <2>1. CASE fate[j] = "promised"
    <3>1. rows'[j].status = rows[j].status
      BY <1>2, <1>4, <2>1 DEF InductiveInv, LifeInv, RecoveryInv, Promised
    <3> QED BY <1>1, <2>1, <3>1, ViewOfJob
  <2>2. CASE fate[j] # "promised"
    BY <1>1, <2>2, ViewOfJob
  <2> QED BY <2>1, <2>2
<1>5. S \in SUBSET Jobs
  BY <1>1
<1>6. Promise!Fail(S)
  <2>1. ClientView' = [j \in Jobs |-> ClientView'[j]]
    BY DEF ClientView
  <2> HIDE DEF S
  <2>2. ClientView' = [j \in Jobs |-> IF j \in S THEN "failed" ELSE ClientView[j]]
    BY <1>3, <1>4, <2>1
  <2> QED BY <1>3, <2>2 DEF Promise!Fail, Promise!MoveAll
<1> HIDE DEF S
<1> QED BY <1>5, <1>6 DEF Promise!Next

\* A worker's UPDATE is seen as one move of the job it holds.
LEMMA MarkSeen ==
    ASSUME InductiveInv, NEW w \in Workers,
           MarkRunning(w) \/ MarkSucceeded(w) \/ MarkFailed(w)
    PROVE  Promise!Next \/ ClientView' = ClientView
<1>1. rows \in Table /\ fate' = fate
  BY DEF InductiveInv, BaseInv, TypeOK, MarkRunning, MarkSucceeded, MarkFailed
<1>2. PICK j \in Jobs : j = wjob[w]
  <2>1. Holding(w)
    BY DEF MarkRunning, MarkSucceeded, MarkFailed, WorkerAt, Holding, HoldStates,
           RunStates
  <2> QED BY <2>1, HeldJobs DEF InductiveInv
<1>3. "run" \in Errors
  BY DEF Errors
<1>4. PICK to \in {"running", "succeeded", "failed"} :
        /\ rows[j].status = "absent" => rows'[j] = rows[j]
        /\ rows[j].status # "absent" => rows'[j].status = to
        /\ \A k \in Jobs \ {j} : rows'[k] = rows[k]
        /\ to = "running" => wpc[w] = "loaded"
        /\ to # "running" => wpc[w] \in {"ok", "err"}
  <2>1. CASE MarkRunning(w)
    <3>1. rows' = MarkedRunning(rows, j) /\ wpc[w] = "loaded"
      BY <1>2, <2>1 DEF MarkRunning, WorkerAt
    <3>2. /\ rows[j].status = "absent" => rows'[j] = rows[j]
          /\ rows[j].status # "absent" => rows'[j].status = "running"
          /\ \A k \in Jobs \ {j} : rows'[k] = rows[k]
      BY <1>1, <3>1, MarkedRunningRows
    <3> QED BY <3>1, <3>2
  <2>2. CASE MarkSucceeded(w)
    <3>1. rows' = MarkedSucceeded(rows, j) /\ wpc[w] = "ok"
      BY <1>2, <2>2 DEF MarkSucceeded, WorkerAt
    <3>2. /\ rows[j].status = "absent" => rows'[j] = rows[j]
          /\ rows[j].status # "absent" => rows'[j].status = "succeeded"
      BY <1>1, <3>1, MarkedSucceededRows
    <3>3. ASSUME NEW k \in Jobs \ {j} PROVE rows'[k] = rows[k]
      <4>1. MarkedSucceeded(rows, j)[k] = rows[k]
        BY <1>1, MarkedSucceededRows
      <4> QED BY <3>1, <4>1
    <3> QED BY <3>1, <3>2, <3>3
  <2>3. CASE MarkFailed(w)
    <3>1. rows' = MarkedFailed(rows, j, "run") /\ wpc[w] = "err"
      BY <1>2, <2>3 DEF MarkFailed, WorkerAt
    <3>2. /\ rows[j].status = "absent" => rows'[j] = rows[j]
          /\ rows[j].status # "absent" => rows'[j].status = "failed"
          /\ \A k \in Jobs \ {j} : rows'[k] = rows[k]
      BY <1>1, <1>3, <3>1, MarkedFailedRows
    <3> QED BY <3>1, <3>2
  <2> QED BY <2>1, <2>2, <2>3
<1>5. CASE fate[j] # "promised"
  BY <1>1, <1>4, <1>5, UnseenStep
<1>6. CASE fate[j] = "promised"
  <2>1. rows[j].status = IF to = "running" THEN "queued" ELSE "running"
    <3>1. wpc[w] = "loaded" => rows[j].status = "queued"
      BY <1>2, <1>6 DEF InductiveInv, LifeInv, FreshInv, Fresh, Promised
    <3>2. wpc[w] \in {"ok", "err"} => rows[j].status = "running"
      BY <1>2, <1>6 DEF InductiveInv, LifeInv, RunInv, Running, RunStates, Promised
    <3> QED BY <1>4, <3>1, <3>2
  <2>2. ClientView[j] = rows[j].status /\ ClientView'[j] = to
    BY <1>1, <1>4, <1>6, <2>1, ViewOfJob
  <2>3. \A k \in Jobs \ {j} : ClientView'[k] = ClientView[k]
    BY <1>1, <1>4, ViewOfJob
  <2>4. Promise!Move(j, {rows[j].status}, to)
    BY <2>2, <2>3, MoveStep
  <2>5. CASE to = "running"
    BY <2>1, <2>4, <2>5 DEF Promise!Start, Promise!Next
  <2>6. CASE to = "succeeded"
    BY <2>1, <2>4, <2>6 DEF Promise!Succeed, Promise!Next
  <2>7. CASE to = "failed"
    <3>1. ClientView' = [k \in Jobs |-> IF k \in {j} THEN "failed" ELSE ClientView[k]]
      <4>1. ClientView' = [k \in Jobs |-> ClientView'[k]]
        BY DEF ClientView
      <4>2. ClientView'[j] = "failed"
        BY <2>2, <2>7
      <4> QED BY <2>3, <4>1, <4>2
    <3>2. Promise!Fail({j})
      BY <2>1, <2>2, <2>7, <3>1 DEF Promise!Fail, Promise!MoveAll
    <3> QED BY <3>2 DEF Promise!Next
  <2> QED BY <2>5, <2>6, <2>7
<1> QED BY <1>5, <1>6

\* The life a client sees a job it was promised lead is the promised one: the
\* system implements JobPromise under ClientView.
THEOREM PromiseIsKept ==
    ASSUME NoOverrun
    PROVE  Spec => KeepsPromise
<1>1. Init => Promise!Init
  BY DEF Init, Promise!Init, ClientView, Promised
<1>2. InductiveInv /\ [Next]_vars => [Promise!Next]_ClientView
  <2> SUFFICES ASSUME InductiveInv, [Next]_vars
               PROVE  Promise!Next \/ ClientView' = ClientView
    OBVIOUS
  <2>1. ASSUME NEW w \in Workers,
               \/ RecoverSelect(w) \/ Dequeue(w) \/ LoadRequest(w) \/ Execute(w)
               \/ HorseDies(w) \/ WorkerDies(w)
        PROVE  ClientView' = ClientView
    <3>1. rows' = rows /\ fate' = fate
      BY <2>1 DEF RecoverSelect, Dequeue, LoadRequest, Execute, HorseDies,
                  WorkerDies, storeVars
    <3> QED BY <3>1, UnseenStep
  <2>2. ASSUME NEW w \in Workers,
               Recover(w) \/ Work(w) \/ HorseDies(w) \/ WorkerDies(w)
        PROVE  Promise!Next \/ ClientView' = ClientView
    BY <2>1, <2>2, RecoverySeen, MarkSeen DEF Recover, Work
  <2>3. CASE ReadJobs
    <3>1. rows \in Table /\ rows' = Cleaned(rows) /\ fate' = fate
      BY <2>3 DEF ReadJobs, InductiveInv, BaseInv, TypeOK
    <3> QED BY <3>1, CleanedRows, ExpireStep
  <2>4. CASE Tick
    <3>1. rows \in Table /\ rows' = Aged(rows) /\ fate' = fate
      BY <2>4 DEF Tick, InductiveInv, BaseInv, TypeOK
    <3>2. ASSUME NEW j \in Jobs PROVE rows'[j].status = rows[j].status
      <4>1. rows[j] \in Row
        BY <3>1 DEF Table
      <4>2. rows'[j] = [rows[j] EXCEPT !.start = Older(rows[j].start),
                                       !.fin = Older(rows[j].fin)]
        BY <3>1, AgedRows
      <4> QED BY <4>1, <4>2 DEF Row
    <3> QED BY <3>1, <3>2, UnseenStep
  <2>5. CASE UNCHANGED vars
    BY <2>5, UnseenStep DEF vars
  <2> QED BY <2>2, <2>3, <2>4, <2>5, SubmitSeen DEF Next
<1> QED BY <1>1, <1>2, InductiveInvariant, PTL DEF Spec, KeepsPromise, Promise!Spec
-----------------------------------------------------------------------------
\* The sets of LimitInv are finite.
LEMMA LimitSets ==
    /\ IsFiniteSet(Counted) /\ Cardinality(Counted) \in Nat
    /\ IsFiniteSet(Checked) /\ Cardinality(Checked) \in Nat
    /\ IsFiniteSet(Counted') /\ Cardinality(Counted') \in Nat
    /\ IsFiniteSet(Checked') /\ Cardinality(Checked') \in Nat
    /\ Cardinality(Checked') <= Cardinality(Submitters)
    /\ Cardinality(Submitters) \in Nat \ {0}
<1>1. /\ Counted \subseteq Jobs /\ Counted' \subseteq Jobs
      /\ Checked \subseteq Submitters /\ Checked' \subseteq Submitters
  BY DEF Counted, Checked
<1>2. IsFiniteSet(Jobs) /\ IsFiniteSet(Submitters) /\ Submitters # {}
  BY SystemAssumption
<1>3. /\ IsFiniteSet(Counted) /\ IsFiniteSet(Counted')
      /\ IsFiniteSet(Checked) /\ IsFiniteSet(Checked')
      /\ Cardinality(Checked') <= Cardinality(Submitters)
  BY <1>1, <1>2, FS_Subset
<1>4. Cardinality(Submitters) # 0
  BY <1>2, FS_EmptySet
<1> QED BY <1>2, <1>3, <1>4, FS_CardinalityType

\* Fewer counted jobs and fewer checked submitters do no harm.
LEMMA LimitShrinks ==
    ASSUME LimitInv, Counted' \subseteq Counted, Checked' \subseteq Checked
    PROVE  LimitInv'
<1>1. Cardinality(Counted') <= Cardinality(Counted)
  BY LimitSets, FS_Subset
<1>2. Cardinality(Checked') <= Cardinality(Checked)
  BY LimitSets, FS_Subset
<1> QED BY <1>1, <1>2, LimitSets, SystemAssumption DEF LimitInv

\* Every step keeps the limit.
LEMMA LimitStep ==
    ASSUME InductiveInv, LimitInv, [Next]_vars
    PROVE  LimitInv'
<1>1. /\ rows \in Table /\ spc \in [Submitters -> SubmitStates]
      /\ NoRow.status = "absent"
  BY DEF InductiveInv, BaseInv, TypeOK, NoRow
<1>2. ASSUME rows' = Cleaned(rows)
      PROVE  Counted' \subseteq Counted
  BY <1>1, <1>2, CleanedRows DEF Counted, ActiveStatuses
<1>3. ASSUME NEW s \in Submitters, SubmitCheck(s) PROVE LimitInv'
  <2>1. rows' = Cleaned(rows)
    BY <1>3 DEF SubmitCheck
  <2>2. CASE CountActive(rows') < MaxQueueSize
    <3>1. Cardinality(Counted') <= CountActive(rows')
      <4>1. IsFiniteSet({j \in Jobs : rows'[j].status \in ActiveStatuses})
        BY SystemAssumption, FS_Subset
      <4>2. Counted' \subseteq {j \in Jobs : rows'[j].status \in ActiveStatuses}
        BY DEF Counted
      <4> QED BY <4>1, <4>2, FS_Subset DEF CountActive
    <3>2. CountActive(rows') \in Nat
      <4>1. IsFiniteSet({j \in Jobs : rows'[j].status \in ActiveStatuses})
        BY SystemAssumption, FS_Subset
      <4> QED BY <4>1, FS_CardinalityType DEF CountActive
    <3> QED BY <2>2, <3>1, <3>2, LimitSets, SystemAssumption DEF LimitInv
  <2>3. CASE ~(CountActive(rows') < MaxQueueSize)
    <3>1. CountActive(rows') \in Nat
      <4>1. IsFiniteSet({j \in Jobs : rows'[j].status \in ActiveStatuses})
        BY SystemAssumption, FS_Subset
      <4> QED BY <4>1, FS_CardinalityType DEF CountActive
    <3>2. spc' = [spc EXCEPT ![s] = "idle"]
      BY <1>3, <2>3, <3>1, SystemAssumption DEF SubmitCheck, SubmitAt
    <3>3. Checked' \subseteq Checked
      BY <1>1, <3>2 DEF Checked
    <3> QED BY <1>2, <2>1, <3>3, LimitShrinks
  <2> QED BY <2>2, <2>3
<1>4. ASSUME NEW s \in Submitters, SubmitCreate(s) PROVE LimitInv'
  <2>1. PICK j \in Jobs : rows' = Created(rows, j)
    BY <1>4 DEF SubmitCreate
  <2>2. spc[s] = "checked" /\ spc' = [spc EXCEPT ![s] = "created"]
    BY <1>4 DEF SubmitCreate, SubmitAt
  <2>3. Checked' = Checked \ {s} /\ s \in Checked
    BY <1>1, <2>2 DEF Checked
  <2>4. Cardinality(Checked') = Cardinality(Checked) - 1
    BY <2>3, LimitSets, FS_RemoveElement
  <2>5. Counted' \subseteq Counted \cup {j}
    <3>1. \A k \in Jobs \ {j} : rows'[k] \in {rows[k], NoRow}
      BY <1>1, <2>1, CreatedRows, CleanedRows
    <3> QED BY <1>1, <3>1 DEF Counted, ActiveStatuses
  <2>6. Cardinality(Counted') <= Cardinality(Counted) + 1
    <3>1. /\ IsFiniteSet(Counted \cup {j})
          /\ Cardinality(Counted \cup {j}) <= Cardinality(Counted) + 1
      <4>1. /\ IsFiniteSet(Counted \cup {j})
            /\ \/ Cardinality(Counted \cup {j}) = Cardinality(Counted)
               \/ Cardinality(Counted \cup {j}) = Cardinality(Counted) + 1
        <5>1. IsFiniteSet(Counted)
          BY LimitSets
        <5> QED BY <5>1, FS_AddElement, Zenon
      <4> QED BY <4>1, LimitSets
    <3>2. /\ Cardinality(Counted') <= Cardinality(Counted \cup {j})
          /\ Cardinality(Counted \cup {j}) \in Nat
      BY <2>5, <3>1, FS_Subset, FS_CardinalityType
    <3> QED BY <3>1, <3>2, LimitSets
  <2> QED BY <2>4, <2>6, LimitSets, SystemAssumption DEF LimitInv
<1>5. ASSUME NEW s \in Submitters, Submit(s) \/ SubmitAborts(s),
             ~SubmitCheck(s), ~SubmitCreate(s)
      PROVE  LimitInv'
  <2>1. Checked' \subseteq Checked
    BY <1>1, <1>5 DEF Submit, SubmitEnqueue, SubmitEnqueueError, SubmitMarkFailed,
        SubmitSetQueueJobId, SubmitReply, SubmitAborts, SubmitAt, Checked
  <2>2. CASE SubmitReply(s)
    BY <1>2, <2>1, <2>2, LimitShrinks DEF SubmitReply
  <2>3. CASE SubmitMarkFailed(s) \/ SubmitSetQueueJobId(s)
    <3>1. PICK j \in Jobs : \/ rows' = MarkedFailed(rows, j, "queue")
                            \/ rows' = WithQueueJobId(rows, j)
      BY <2>3 DEF SubmitMarkFailed, SubmitSetQueueJobId, SubmitAt, InductiveInv,
                  BaseInv, SubmissionInv
    <3>2. "queue" \in Errors
      BY DEF Errors
    <3>3. \A k \in Jobs \ {j} : rows'[k] = rows[k]
      BY <1>1, <3>1, <3>2, MarkedFailedRows, WithQueueJobIdRows
    <3>4. \/ rows'[j] = rows[j]
          \/ rows'[j].status = "failed"
          \/ rows'[j].status = rows[j].status /\ rows'[j].err = rows[j].err
      BY <1>1, <3>1, <3>2, MarkedFailedRows, WithQueueJobIdRows
    <3>5. Counted' \subseteq Counted
      BY <3>3, <3>4 DEF Counted, ActiveStatuses
    <3> QED BY <2>1, <3>5, LimitShrinks
  <2>4. CASE rows' = rows
    <3>1. Counted' = Counted
      BY <2>4 DEF Counted
    <3> QED BY <2>1, <3>1, LimitShrinks
  <2> QED BY <1>5, <2>2, <2>3, <2>4
          DEF Submit, SubmitEnqueue, SubmitEnqueueError, SubmitAborts
<1>6. ASSUME spc' = spc, Counted' \subseteq Counted PROVE LimitInv'
  <2>1. Checked' = Checked
    BY <1>6 DEF Checked
  <2> QED BY <1>6, <2>1, LimitShrinks
<1>7. ASSUME NEW w \in Workers,
             Recover(w) \/ Work(w) \/ HorseDies(w) \/ WorkerDies(w)
      PROVE  LimitInv'
  <2>1. spc' = spc
    BY <1>7 DEF Recover, RecoverSelect, RecoverUpdate, Work, Dequeue, LoadRequest,
        MarkRunning, Execute, MarkSucceeded, MarkFailed, HorseDies, WorkerDies,
        submitVars
  <2>2. CASE rows' = rows
    BY <1>6, <2>1, <2>2 DEF Counted
  <2>3. CASE RecoverUpdate(w)
    <3>1. rows' = FailedStale(rows, stale[w]) /\ stale[w] \subseteq Jobs
      BY <2>3 DEF RecoverUpdate, InductiveInv, BaseInv, TypeOK
    <3>2. \A k \in Jobs : rows'[k] = rows[k] \/ rows'[k].status = "failed"
      BY <1>1, <3>1, FailedStaleRows
    <3> QED BY <1>6, <2>1, <3>2 DEF Counted, ActiveStatuses
  <2>4. CASE MarkRunning(w) \/ MarkSucceeded(w) \/ MarkFailed(w)
    <3>1. PICK j \in Jobs : j = wjob[w]
      <4>1. Holding(w)
        BY <2>4 DEF MarkRunning, MarkSucceeded, MarkFailed, WorkerAt, Holding,
                    HoldStates, RunStates
      <4> QED BY <4>1, HeldJobs DEF InductiveInv
    <3>2. "run" \in Errors
      BY DEF Errors
    <3>3. \/ rows' = MarkedRunning(rows, j) /\ Fresh(j)
          \/ rows' = MarkedSucceeded(rows, j)
          \/ rows' = MarkedFailed(rows, j, "run")
      BY <2>4, <3>1 DEF MarkRunning, MarkSucceeded, MarkFailed, WorkerAt,
                        InductiveInv, LifeInv, FreshInv
    <3>4. \A k \in Jobs \ {j} : rows'[k] = rows[k]
      <4>1. CASE rows' = MarkedRunning(rows, j)
        BY <1>1, <4>1, MarkedRunningRows
      <4>2. CASE rows' = MarkedSucceeded(rows, j)
        <5>1. ASSUME NEW k \in Jobs \ {j} PROVE MarkedSucceeded(rows, j)[k] = rows[k]
          BY <1>1, MarkedSucceededRows
        <5> QED BY <4>2, <5>1
      <4>3. CASE rows' = MarkedFailed(rows, j, "run")
        BY <1>1, <3>2, <4>3, MarkedFailedRows
      <4> QED BY <3>3, <4>1, <4>2, <4>3
    <3>5. \/ rows'[j] = rows[j]
          \/ rows'[j].status \in {"succeeded", "failed"}
          \/ rows'[j].err = rows[j].err /\ Fresh(j) /\ rows[j].status # "absent"
      <4>1. CASE rows' = MarkedRunning(rows, j) /\ Fresh(j)
        BY <1>1, <4>1, MarkedRunningRows
      <4>2. CASE rows' = MarkedSucceeded(rows, j)
        BY <1>1, <4>2, MarkedSucceededRows
      <4>3. CASE rows' = MarkedFailed(rows, j, "run")
        BY <1>1, <3>2, <4>3, MarkedFailedRows
      <4> QED BY <3>3, <4>1, <4>2, <4>3
    <3>6. Counted' \subseteq Counted
      BY <3>4, <3>5 DEF Counted, ActiveStatuses, Fresh
    <3> QED BY <1>6, <2>1, <3>6
  <2> QED BY <1>7, <2>2, <2>3, <2>4
          DEF Recover, RecoverSelect, Work, Dequeue, LoadRequest, Execute,
              HorseDies, WorkerDies, storeVars
<1>8. CASE ReadJobs
  BY <1>2, <1>6, <1>8 DEF ReadJobs, submitVars
<1>9. CASE Tick
  <2>1. rows' = Aged(rows) /\ spc' = spc
    BY <1>9 DEF Tick, submitVars
  <2>2. ASSUME NEW j \in Jobs
        PROVE  rows'[j].status = rows[j].status /\ rows'[j].err = rows[j].err
    <3>1. rows[j] \in Row
      BY <1>1 DEF Table
    <3>2. rows'[j] = [rows[j] EXCEPT !.start = Older(rows[j].start),
                                     !.fin = Older(rows[j].fin)]
      BY <1>1, <2>1, AgedRows
    <3> QED BY <3>1, <3>2 DEF Row
  <2>3. Counted' \subseteq Counted
    BY <2>2 DEF Counted
  <2> QED BY <1>6, <2>1, <2>3
<1>10. CASE UNCHANGED vars
  BY <1>6, <1>10 DEF vars, Counted
<1> QED BY <1>3, <1>4, <1>5, <1>7, <1>8, <1>9, <1>10 DEF Next

\* The check and the creation are two transactions: the limit is overrun by
\* less than the number of submitters, and by no more.
THEOREM LimitHolds ==
    ASSUME NoOverrun
    PROVE  Spec => []Backpressure
<1>1. Init => LimitInv
  <2> SUFFICES ASSUME Init PROVE LimitInv
    OBVIOUS
  <2>1. Counted = {} /\ Checked = {}
    BY DEF Init, Counted, Checked, EmptyTable, NoRow, ActiveStatuses
  <2> QED BY <2>1, FS_EmptySet, LimitSets, SystemAssumption DEF LimitInv
<1>2. InductiveInv /\ LimitInv /\ [Next]_vars => LimitInv'
  BY LimitStep
<1>3. LimitInv => Backpressure
  BY LimitSets, SystemAssumption DEF LimitInv, Backpressure
<1> QED BY <1>1, <1>2, <1>3, InductiveInvariant, PTL DEF Spec
=============================================================================
