------------------------ MODULE StoredJobQueueProofs ------------------------
(***************************************************************************)
(* Proofs about StoredJobQueue: whatever dies or raises, and for any       *)
(* number of ids and threads, any queue size and thresholds, the table is  *)
(* what the records say, or one step of a dead thread behind it.           *)
(*                                                                         *)
(* Everything but the types and the threads is said of one job at a time,  *)
(* so a step is proved by what it does to its own job and by one lemma     *)
(* about all the others.                                                   *)
(***************************************************************************)
EXTENDS StoredJobQueue, TLAPS, FiniteSetTheorems

\* A thread may still take the job from the queue.
Listed(j) == \E i \in 1 .. Len(queue) : queue[i] = j

\* Only one thread will.
Once(j) == \A i, k \in 1 .. Len(queue) : queue[i] = j /\ queue[k] = j => i = k

\* The invariant, but for types and threads, as it is said of one job.
JobInv(j) ==
    /\ jobs[j].status \in {"none", "queued", "running"} => jobs[j].fin = Unset
    /\ rows[j].status = "none" => jobs[j].status = "none" /\ \A w \in Workers : wjob[w] # j
    /\ jobs[j].status = "queued" <=>
            Listed(j) \/ \E w \in Workers : At(w, j, {"taken"})
    /\ jobs[j].status = "running" =>
            \E w \in Workers : At(w, j, {"running", "ok", "err", "dead"})
    /\ \A w \in Workers : At(w, j, {"running", "ok", "err"}) => jobs[j].status = "running"
    /\ \A v, w \in Workers : wjob[v] = j /\ wjob[w] = j /\ wpc[v] # "dead" => v = w
    /\ Once(j)
    /\ Listed(j) => \A w \in Workers : wjob[w] # j
    /\ jobs[j].status # "none" =>
            \/ rows[j].status = jobs[j].status
            \/ rows[j].status = "deleted" /\ jobs[j].status \in Finished
            \/ /\ \E w \in Workers : At(w, j, {"dead"})
               /\ \/ rows[j].status = "queued" /\ jobs[j].status = "running"
                  \/ rows[j].status = "running" /\ jobs[j].status \in Finished

\* The same invariant, job by job.
LEMMA ByJob == InductiveInv <=> TypeOK /\ ThreadsInv /\ \A j \in Jobs : JobInv(j)
<1> USE DEF JobInv, Listed, Once, InQueue
<1>1. ASSUME InductiveInv PROVE \A j \in Jobs : JobInv(j)
  BY <1>1 DEF InductiveInv, AgesInv, KnownInv, RecordsMatchThreads, RowsFollowRecords
<1>2. ASSUME \A j \in Jobs : JobInv(j)
      PROVE  AgesInv /\ KnownInv /\ RecordsMatchThreads /\ RowsFollowRecords
  BY <1>2 DEF AgesInv, KnownInv, RecordsMatchThreads, RowsFollowRecords
<1> QED BY <1>1, <1>2 DEF InductiveInv

\* The same after a step.
LEMMA ByJobNext ==
    ASSUME TypeOK', ThreadsInv', \A j \in Jobs : JobInv(j)'
    PROVE  InductiveInv'
<1> USE DEF JobInv, Listed, Once, InQueue
<1>1. AgesInv' /\ KnownInv'
  BY DEF AgesInv, KnownInv
<1>2. RecordsMatchThreads'
  BY DEF RecordsMatchThreads, At
<1>3. RowsFollowRecords'
  BY DEF RowsFollowRecords, At
<1> QED BY <1>1, <1>2, <1>3 DEF InductiveInv

\* There are finitely many threads, and ages have a bound.
LEMMA Numbers ==
    /\ Cardinality(Workers) \in Nat
    /\ AgeCap \in Nat \ {0} /\ Retention + 1 \in Nat
BY StoredAssumption, FS_CardinalityType DEF AgeCap

\* What a cleanup of the table leaves.
LEMMA RowsCleaned ==
    ASSUME TypeOK
    PROVE  /\ Cleaned \in [Jobs -> Row]
           /\ \A k \in Jobs : \/ Cleaned[k] = rows[k]
                              \/ rows[k].status \in Finished /\ Cleaned[k].status = "deleted"
<1>1. [status |-> "deleted", age |-> 0] \in Row
  BY Numbers DEF Row
<1> QED BY <1>1 DEF Cleaned, Expired, TypeOK

\* What a cleanup of the records leaves.
LEMMA RecordsCleaned ==
    ASSUME TypeOK, AgesInv
    PROVE  /\ CleanedRecords \in [Jobs -> Record]
           /\ \A k \in Jobs :
                \/ CleanedRecords[k] = jobs[k]
                \/ jobs[k].status \in Finished /\ CleanedRecords[k] = NoRecord
<1>1. NoRecord \in Record
  BY Numbers DEF NoRecord, Record, Unset
<1>2. \A k \in Jobs : jobs[k] \in Record
  BY DEF TypeOK
<1>3. \A k \in Jobs : jobs[k].fin > Retention => jobs[k].status \in Finished
  BY <1>2, StoredAssumption DEF AgesInv, Record, Active, Finished, Unset
<1> QED BY <1>1, <1>2, <1>3 DEF CleanedRecords

\* A job that a step touches no more than a cleanup, a restart or time would.
Undisturbed(k) ==
    /\ \/ rows'[k].status = rows[k].status
       \/ rows[k].status \in Finished /\ rows'[k].status = "deleted"
       \/ rows[k].status # "none" /\ jobs[k].status = "none" /\ rows'[k].status = "failed"
    /\ \/ jobs'[k].status = jobs[k].status /\ (jobs[k].fin = Unset => jobs'[k].fin = Unset)
       \/ jobs[k].status \in Finished /\ jobs'[k] = NoRecord
    /\ Listed(k)' <=> Listed(k)
    /\ Once(k)'
    /\ \A w \in Workers : /\ wjob'[w] = k <=> wjob[w] = k
                          /\ wjob[w] = k => wpc'[w] = wpc[w]

\* Such a job keeps its part of the invariant.
LEMMA OtherJob ==
    ASSUME NEW k \in Jobs, JobInv(k), Undisturbed(k) PROVE JobInv(k)'
<1>1. \A w \in Workers : \A places : At(w, k, places)' <=> At(w, k, places)
  BY DEF At, Undisturbed
<1>2. CASE jobs'[k].status = jobs[k].status
  <2>1. /\ jobs'[k].status \in {"none", "queued", "running"} => jobs'[k].fin = Unset
        /\ rows'[k].status = "none" =>
              jobs'[k].status = "none" /\ \A w \in Workers : wjob'[w] # k
    BY <1>2 DEF Undisturbed, JobInv, NoRecord, Finished
  <2>2. jobs'[k].status # "none" =>
            \/ rows'[k].status = jobs'[k].status
            \/ rows'[k].status = "deleted" /\ jobs'[k].status \in Finished
            \/ /\ \E w \in Workers : At(w, k, {"dead"})'
               /\ \/ rows'[k].status = "queued" /\ jobs'[k].status = "running"
                  \/ rows'[k].status = "running" /\ jobs'[k].status \in Finished
    BY <1>1, <1>2 DEF Undisturbed, JobInv, Finished
  <2> QED BY <1>1, <1>2, <2>1, <2>2 DEF Undisturbed, JobInv
<1>3. CASE jobs[k].status \in Finished /\ jobs'[k] = NoRecord
  <2>1. jobs'[k].status = "none" /\ jobs'[k].fin = Unset
    BY <1>3 DEF NoRecord
  <2>2. rows'[k].status = "none" => \A w \in Workers : wjob'[w] # k
    BY <1>3 DEF Undisturbed, JobInv, Finished
  <2>3. ~Listed(k)' /\ \A w \in Workers : ~At(w, k, {"taken"})'
          /\ ~At(w, k, {"running", "ok", "err"})'
    BY <1>1, <1>3 DEF Undisturbed, JobInv, Finished
  <2> QED BY <1>1, <2>1, <2>2, <2>3 DEF Undisturbed, JobInv
<1> QED BY <1>2, <1>3 DEF Undisturbed
-----------------------------------------------------------------------------
\* Nothing has been submitted at the start.
LEMMA InitInv == Init => InductiveInv
<1> SUFFICES ASSUME Init PROVE InductiveInv
  OBVIOUS
<1>1. TypeOK
  <2>1. NoRow \in Row /\ NoRecord \in Record
    BY Numbers DEF NoRow, Row, NoRecord, Record, Unset
  <2>2. queue \in Seq(Jobs \cup {Pill}) /\ pills \in Unset .. Cardinality(Workers)
    BY Numbers DEF Init, Unset
  <2> QED BY <2>1, <2>2 DEF Init, TypeOK, WorkerStates
<1>2. ThreadsInv
  BY DEF Init, ThreadsInv, NoRecord
<1>3. ASSUME NEW j \in Jobs PROVE JobInv(j)
  <2>1. /\ jobs[j].status = "none" /\ jobs[j].fin = Unset /\ ~Listed(j) /\ Once(j)
        /\ \A w \in Workers : wjob[w] # j
    BY StoredAssumption DEF Init, NoRecord, Listed, Once
  <2> QED BY <2>1 DEF JobInv, At
<1> QED BY <1>1, <1>2, <1>3, ByJob

\* A step that leaves queue and threads alone.
LEMMA TableStep ==
    ASSUME InductiveInv, UNCHANGED <<queue, wpc, wjob>>,
           \A k \in Jobs :
              /\ \/ rows'[k].status = rows[k].status
                 \/ rows[k].status \in Finished /\ rows'[k].status = "deleted"
                 \/ /\ rows[k].status # "none" /\ jobs[k].status = "none"
                    /\ rows'[k].status = "failed"
              /\ \/ jobs'[k].status = jobs[k].status
                      /\ (jobs[k].fin = Unset => jobs'[k].fin = Unset)
                 \/ jobs[k].status \in Finished /\ jobs'[k] = NoRecord
    PROVE  \A k \in Jobs : JobInv(k)'
<1>1. ASSUME NEW k \in Jobs PROVE JobInv(k)'
  <2>1. JobInv(k)
    BY ByJob
  <2>2. Undisturbed(k)
    BY <2>1 DEF Undisturbed, Listed, Once, JobInv
  <2> QED BY <2>1, <2>2, OtherJob
<1> QED BY <1>1

\* A restart judges the rows of jobs that have no record.
LEMMA StartInv == ASSUME InductiveInv, Start PROVE InductiveInv'
<1>1. /\ rows' = FailedStale /\ up' = TRUE /\ ~up
      /\ UNCHANGED <<jobs, queue, pills, wpc, wjob>>
  BY DEF Start
<1>2. \A k \in Jobs : jobs[k].status = "none"
  BY <1>1 DEF InductiveInv, ThreadsInv
<1>3. [status |-> "failed", age |-> 0] \in Row
  BY Numbers DEF Row, Finished
<1>4. TypeOK'
  BY <1>1, <1>3 DEF InductiveInv, TypeOK, FailedStale
<1>5. ThreadsInv'
  BY <1>1 DEF InductiveInv, ThreadsInv
<1>6. \A k \in Jobs :
        \/ rows'[k].status = rows[k].status
        \/ rows[k].status # "none" /\ rows'[k].status = "failed"
  BY <1>1 DEF FailedStale, Stale, Active
<1>7. \A k \in Jobs : JobInv(k)'
  BY <1>1, <1>2, <1>6, TableStep
<1> QED BY <1>4, <1>5, <1>7, ByJobNext

\* A crash takes records, queue and threads.
LEMMA CrashInv == ASSUME InductiveInv, Crash PROVE InductiveInv'
<1>1. /\ up' = FALSE /\ UNCHANGED rows
      /\ jobs' = [j \in Jobs |-> NoRecord] /\ queue' = <<>> /\ pills' = Unset
      /\ wpc' = [w \in Workers |-> "idle"] /\ wjob' = [w \in Workers |-> NoJob]
  BY DEF Crash, EmptyMemory
<1>2. TypeOK'
  <2>1. NoRecord \in Record
    BY Numbers DEF NoRecord, Record, Unset
  <2>2. queue' \in Seq(Jobs \cup {Pill}) /\ pills' \in Unset .. Cardinality(Workers)
    BY <1>1, Numbers DEF Unset
  <2> QED BY <1>1, <2>1, <2>2 DEF InductiveInv, TypeOK, WorkerStates
<1>3. ThreadsInv'
  BY <1>1 DEF ThreadsInv, NoRecord
<1>4. ASSUME NEW j \in Jobs PROVE JobInv(j)'
  <2>1. /\ jobs'[j].status = "none" /\ jobs'[j].fin = Unset /\ ~Listed(j)' /\ Once(j)'
        /\ \A w \in Workers : wjob'[w] # j
    BY <1>1, StoredAssumption DEF NoRecord, Listed, Once
  <2> QED BY <2>1 DEF JobInv, At
<1> QED BY <1>2, <1>3, <1>4, ByJobNext

\* A read cleans the table.
LEMMA ReadInv == ASSUME InductiveInv, ReadJobs PROVE InductiveInv'
<1>1. up /\ rows' = Cleaned /\ UNCHANGED <<jobs, queue, up, pills, wpc, wjob>>
  BY DEF ReadJobs, memory
<1>2. TypeOK'
  BY <1>1, RowsCleaned DEF InductiveInv, TypeOK
<1>3. ThreadsInv'
  BY <1>1 DEF InductiveInv, ThreadsInv
<1>4. \A k \in Jobs : JobInv(k)'
  BY <1>1, RowsCleaned, TableStep DEF InductiveInv
<1> QED BY <1>2, <1>3, <1>4, ByJobNext

\* Time changes no status, and no finish time that is not there.
LEMMA TickInv == ASSUME InductiveInv, Tick PROVE InductiveInv'
<1>1. UNCHANGED <<queue, up, pills, wpc, wjob>>
  BY DEF Tick
<1>2. ASSUME NEW k \in Jobs
      PROVE  /\ rows'[k] \in Row /\ rows'[k].status = rows[k].status
             /\ jobs'[k] \in Record /\ jobs'[k].status = jobs[k].status
             /\ jobs[k].fin = Unset => jobs'[k].fin = Unset
  <2>1. rows[k] \in Row /\ jobs[k] \in Record
    BY DEF InductiveInv, TypeOK
  <2>2. \A a \in 0 .. AgeCap : Aged(a, AgeCap) \in 0 .. AgeCap
    BY Numbers DEF Aged, Unset
  <2>3. \A a \in Unset .. Retention + 1 : Aged(a, Retention + 1) \in Unset .. Retention + 1
    BY Numbers DEF Aged, Unset
  <2>4. /\ rows'[k] = [rows[k] EXCEPT !.age = IF rows[k].status \in Active \cup Finished
                            THEN Aged(rows[k].age, AgeCap) ELSE rows[k].age]
        /\ jobs'[k] = [jobs[k] EXCEPT !.fin = Aged(jobs[k].fin, Retention + 1)]
    BY DEF Tick
  <2>5. Aged(Unset, Retention + 1) = Unset
    BY DEF Aged
  <2> QED BY <2>1, <2>2, <2>3, <2>4, <2>5 DEF Row, Record
<1>3. TypeOK'
  <2>1. rows' \in [Jobs -> Row] /\ jobs' \in [Jobs -> Record]
    BY <1>2 DEF Tick
  <2> QED BY <1>1, <2>1 DEF InductiveInv, TypeOK
<1>4. ThreadsInv'
  BY <1>1, <1>2 DEF InductiveInv, ThreadsInv
<1>5. \A k \in Jobs : JobInv(k)'
  BY <1>1, <1>2, TableStep
<1> QED BY <1>3, <1>4, <1>5, ByJobNext

\* An append seen element by element, and job by job.
LEMMA Appended ==
    ASSUME TypeOK, NEW e \in Jobs \cup {Pill}, queue' = Append(queue, e)
    PROVE  /\ queue' \in Seq(Jobs \cup {Pill})
           /\ \A k \in Jobs : k # e => (Listed(k)' <=> Listed(k)) /\ (Once(k) => Once(k)')
           /\ ~Listed(e) => Listed(e)' /\ Once(e)'
<1>1. /\ queue' \in Seq(Jobs \cup {Pill})
      /\ Len(queue) \in Nat
      /\ Len(queue') = Len(queue) + 1
      /\ \A i \in 1 .. Len(queue) : i \in 1 .. Len(queue') /\ queue'[i] = queue[i]
      /\ Len(queue) + 1 \in 1 .. Len(queue')
      /\ queue'[Len(queue) + 1] = e
      /\ \A i \in 1 .. Len(queue') : i \in 1 .. Len(queue) \/ i = Len(queue) + 1
  BY DEF TypeOK
<1>2. ASSUME NEW k \in Jobs, k # e PROVE (Listed(k)' <=> Listed(k)) /\ (Once(k) => Once(k)')
  <2>1. Listed(k)' <=> Listed(k)
    BY <1>1, <1>2 DEF Listed
  <2>2. \A i \in 1 .. Len(queue') : queue'[i] = k => i \in 1 .. Len(queue) /\ queue[i] = k
    BY <1>1, <1>2
  <2>3. Once(k) => Once(k)'
    BY <2>2 DEF Once
  <2> QED BY <2>1, <2>3
<1>3. ASSUME ~Listed(e) PROVE Listed(e)' /\ Once(e)'
  <2>1. Listed(e)'
    BY <1>1 DEF Listed
  <2>2. \A i \in 1 .. Len(queue') : queue'[i] = e => i = Len(queue) + 1
    BY <1>1, <1>3 DEF Listed
  <2>3. Once(e)'
    BY <2>2 DEF Once
  <2> QED BY <2>1, <2>3
<1> QED BY <1>1, <1>2, <1>3

\* A submit gives the job a row and, if it is accepted, a record and a place in
\* the queue; no thread has had it.
LEMMA SubmitInv == ASSUME InductiveInv, NEW j \in Jobs, Submit(j) PROVE InductiveInv'
<1>1. /\ up /\ rows[j].status = "none" /\ UNCHANGED <<up, pills, wpc, wjob>>
  BY DEF Submit
<1>2. TypeOK /\ AgesInv /\ \A k \in Jobs : JobInv(k)
  BY ByJob DEF InductiveInv
<1>3. /\ jobs[j].status = "none" /\ jobs[j].fin = Unset
      /\ ~Listed(j) /\ Once(j) /\ \A w \in Workers : wjob[w] # j
  BY <1>1, <1>2 DEF JobInv
<1>4. CleanedRecords \in [Jobs -> Record] /\ CleanedRecords[j] = jobs[j]
  BY <1>2, <1>3, RecordsCleaned DEF Finished
<1>5. Cleaned \in [Jobs -> Row] /\ Cleaned[j] = rows[j]
  BY <1>1, <1>2, RowsCleaned DEF Finished
<1>6. \A st \in Active \cup Finished : Now(st) \in Row /\ Now(st).status = st
  BY Numbers DEF Now, Row
<1>7. ThreadsInv'
  BY <1>1 DEF InductiveInv, ThreadsInv
<1>8. CASE ~Full /\ rows' = Inserted(j, "queued") /\ queue' = Append(queue, j)
           /\ jobs' = [CleanedRecords EXCEPT ![j].status = "queued"]
  <2>1. /\ rows' \in [Jobs -> Row] /\ rows'[j].status = "queued"
        /\ \A k \in Jobs \ {j} : rows'[k] = Cleaned[k]
    BY <1>5, <1>6, <1>8 DEF Inserted, Active
  <2>2. /\ jobs' \in [Jobs -> Record] /\ jobs'[j].status = "queued" /\ jobs'[j].fin = Unset
        /\ \A k \in Jobs \ {j} : jobs'[k] = CleanedRecords[k]
    BY <1>3, <1>4, <1>8 DEF Record, Active
  <2>3. /\ queue' \in Seq(Jobs \cup {Pill}) /\ Listed(j)' /\ Once(j)'
        /\ \A k \in Jobs \ {j} : (Listed(k)' <=> Listed(k)) /\ (Once(k) => Once(k)')
    BY <1>2, <1>3, <1>8, Appended
  <2>4. TypeOK'
    BY <1>1, <1>2, <2>1, <2>2, <2>3 DEF TypeOK
  <2>5. ASSUME NEW k \in Jobs \ {j} PROVE JobInv(k)'
    <3>1. Undisturbed(k)
      BY <1>1, <1>2, <2>1, <2>2, <2>3, RowsCleaned, RecordsCleaned DEF Undisturbed, JobInv
    <3> QED BY <1>2, <3>1, OtherJob
  <2>6. JobInv(j)'
    <3>1. \A w \in Workers : wjob'[w] # j
      BY <1>1, <1>3
    <3> QED BY <2>1, <2>2, <2>3, <3>1 DEF JobInv, At
  <2> QED BY <1>7, <2>4, <2>5, <2>6, ByJobNext
<1>9. CASE jobs' = CleanedRecords /\ UNCHANGED queue
           /\ rows' \in {rows, Cleaned, Inserted(j, "queued"), Inserted(j, "failed")}
  <2>1. /\ rows' \in [Jobs -> Row]
        /\ \A k \in Jobs \ {j} : rows'[k] = rows[k] \/ rows'[k] = Cleaned[k]
    BY <1>2, <1>5, <1>6, <1>9 DEF Inserted, Active, Finished, TypeOK
  <2>2. TypeOK'
    BY <1>1, <1>2, <1>4, <1>9, <2>1 DEF TypeOK
  <2>3. ASSUME NEW k \in Jobs \ {j} PROVE JobInv(k)'
    <3>1. Listed(k)' <=> Listed(k)
      BY <1>9 DEF Listed
    <3>2. Once(k)'
      BY <1>2, <1>9 DEF Once, JobInv
    <3>3. Undisturbed(k)
      BY <1>1, <1>2, <1>9, <2>1, <3>1, <3>2, RowsCleaned, RecordsCleaned
         DEF Undisturbed, JobInv
    <3> QED BY <1>2, <3>3, OtherJob
  <2>4. JobInv(j)'
    <3>1. /\ jobs'[j].status = "none" /\ jobs'[j].fin = Unset
          /\ \A w \in Workers : wjob'[w] # j
      BY <1>1, <1>3, <1>4, <1>9
    <3>2. ~Listed(j)' /\ Once(j)'
      BY <1>3, <1>9 DEF Listed, Once
    <3> QED BY <3>1, <3>2 DEF JobInv, At
  <2> QED BY <1>7, <2>2, <2>3, <2>4, ByJobNext
<1> QED BY <1>8, <1>9 DEF Submit

\* Pills are not jobs.
LEMMA ShutdownInv ==
    ASSUME InductiveInv, ShutdownBegin \/ ShutdownPut PROVE InductiveInv'
<1>1. UNCHANGED <<rows, jobs, up, wpc, wjob>> /\ up
  BY Numbers DEF ShutdownBegin, ShutdownPut, InductiveInv, ThreadsInv, Unset
<1>2. TypeOK /\ \A k \in Jobs : JobInv(k)
  BY ByJob DEF InductiveInv
<1>3. ThreadsInv'
  BY <1>1 DEF InductiveInv, ThreadsInv
<1>4. /\ queue' \in Seq(Jobs \cup {Pill}) /\ pills' \in Unset .. Cardinality(Workers)
      /\ \A k \in Jobs : (Listed(k)' <=> Listed(k)) /\ Once(k)'
  <2>1. CASE ShutdownBegin
    BY <1>2, <2>1, Numbers DEF ShutdownBegin, TypeOK, Listed, Once, JobInv, Unset
  <2>2. CASE ShutdownPut
    <3>1. queue' = Append(queue, Pill) /\ pills' = pills - 1 /\ pills > 0
      BY <2>2 DEF ShutdownPut
    <3>2. pills' \in Unset .. Cardinality(Workers)
      BY <1>2, <3>1, Numbers DEF TypeOK, Unset
    <3>3. \A k \in Jobs : k # Pill /\ Once(k)
      BY <1>2, StoredAssumption DEF JobInv
    <3> QED BY <1>2, <3>1, <3>2, <3>3, Appended
  <2> QED BY <2>1, <2>2
<1>5. TypeOK'
  BY <1>1, <1>2, <1>4 DEF TypeOK
<1>6. \A k \in Jobs : JobInv(k)'
  BY <1>1, <1>2, <1>4, OtherJob DEF Undisturbed
<1> QED BY <1>3, <1>5, <1>6, ByJobNext

\* A get takes the head of the queue: a pill, or a job into one thread's hands.
LEMMA TakeInv == ASSUME InductiveInv, NEW w \in Workers, Take(w) PROVE InductiveInv'
<1>1. /\ Len(queue) \in Nat /\ Len(queue) > 0 /\ 1 \in 1 .. Len(queue)
      /\ queue[1] \in Jobs \cup {Pill} /\ Head(queue) = queue[1]
      /\ queue' \in Seq(Jobs \cup {Pill})
      /\ \A i \in 1 .. Len(queue') : queue'[i] = queue[i + 1] /\ i + 1 \in 1 .. Len(queue)
                                     /\ i + 1 # 1
      /\ \A i \in 1 .. Len(queue) : i # 1 =>
            i - 1 \in 1 .. Len(queue') /\ queue'[i - 1] = queue[i]
  BY DEF Take, InductiveInv, TypeOK
<1>2. /\ up /\ UNCHANGED <<rows, jobs, up, pills>>
      /\ wpc[w] = "idle" /\ wjob[w] = NoJob
  BY DEF Take, WorkerAt, InductiveInv, ThreadsInv
<1>3. TypeOK /\ ThreadsInv /\ \A k \in Jobs : JobInv(k)
  BY ByJob DEF InductiveInv
<1>4. \A k \in Jobs : Once(k)'
  <2>1. ASSUME NEW k \in Jobs, NEW m \in 1 .. Len(queue'), NEW n \in 1 .. Len(queue'),
               queue'[m] = k, queue'[n] = k
        PROVE  m = n
    <3>1. Once(k)
      BY <1>3, <2>1 DEF JobInv
    <3>2. /\ m + 1 \in 1 .. Len(queue) /\ n + 1 \in 1 .. Len(queue)
          /\ queue[m + 1] = k /\ queue[n + 1] = k
      BY <1>1, <2>1
    <3>3. m + 1 = n + 1
      BY <3>1, <3>2 DEF Once
    <3> QED BY <3>3
  <2> QED BY <2>1 DEF Once
<1>5. \A k \in Jobs : k # queue[1] => (Listed(k)' <=> Listed(k))
  <2>1. ASSUME NEW k \in Jobs, k # queue[1], Listed(k) PROVE Listed(k)'
    <3>1. PICK i \in 1 .. Len(queue) : queue[i] = k
      BY <2>1 DEF Listed
    <3>2. i - 1 \in 1 .. Len(queue') /\ queue'[i - 1] = k
      BY <1>1, <2>1, <3>1
    <3> QED BY <3>2 DEF Listed
  <2>2. ASSUME NEW k \in Jobs, Listed(k)' PROVE Listed(k)
    BY <1>1, <2>2 DEF Listed
  <2> QED BY <2>1, <2>2
<1>6. CASE queue[1] = Pill
  <2>1. wjob' = wjob /\ wpc' = [wpc EXCEPT ![w] = "exited"]
    BY <1>1, <1>6 DEF Take, WorkerAt
  <2>2. TypeOK'
    BY <1>1, <1>2, <1>3, <2>1 DEF TypeOK, WorkerStates
  <2>3. ThreadsInv'
    BY <1>2, <1>3, <2>1 DEF TypeOK, ThreadsInv
  <2>4. ASSUME NEW k \in Jobs PROVE JobInv(k)'
    <3>1. k # queue[1] /\ k # NoJob
      BY <1>6, StoredAssumption
    <3>2. Undisturbed(k)
      BY <1>2, <1>3, <1>4, <1>5, <2>1, <3>1 DEF Undisturbed, TypeOK
    <3> QED BY <1>3, <3>2, OtherJob
  <2> QED BY <2>2, <2>3, <2>4, ByJobNext
<1>7. CASE queue[1] # Pill
  <2>1. PICK j \in Jobs : j = queue[1]
    BY <1>1, <1>7
  <2>2. /\ wpc' = [wpc EXCEPT ![w] = "taken"]
        /\ wjob' = [wjob EXCEPT ![w] = j]
    BY <1>1, <1>7, <2>1 DEF Take, WorkerAt
  <2>3. /\ wpc'[w] = "taken" /\ wjob'[w] = j /\ j # NoJob
        /\ \A v \in Workers \ {w} : wpc'[v] = wpc[v] /\ wjob'[v] = wjob[v]
    BY <1>3, <2>2, StoredAssumption DEF TypeOK
  <2>4. TypeOK'
    BY <1>1, <1>2, <1>3, <2>2 DEF TypeOK, WorkerStates
  <2>5. ThreadsInv'
    BY <1>2, <1>3, <2>3 DEF ThreadsInv
  <2>6. ASSUME NEW k \in Jobs \ {j} PROVE JobInv(k)'
    <3>1. k # NoJob
      BY StoredAssumption
    <3>2. Undisturbed(k)
      BY <1>2, <1>4, <1>5, <2>1, <2>3, <3>1 DEF Undisturbed
    <3> QED BY <1>3, <3>2, OtherJob
  <2>7. JobInv(j)'
    <3>1. Listed(j) /\ ~Listed(j)'
      <4>1. Listed(j)
        BY <1>1, <2>1 DEF Listed
      <4>2. ASSUME NEW i \in 1 .. Len(queue'), queue'[i] = j PROVE FALSE
        BY <1>1, <1>3, <2>1, <4>2 DEF JobInv, Once
      <4> QED BY <4>1, <4>2 DEF Listed
    <3>2. \A v \in Workers : wjob[v] # j
      BY <1>3, <3>1 DEF JobInv
    <3>3. jobs[j].status = "queued" /\ jobs[j].fin = Unset
      BY <1>3, <3>1 DEF JobInv
    <3>4. rows[j].status = "queued"
      BY <1>3, <3>2, <3>3 DEF JobInv, At, Finished
    <3>5. \A v \in Workers : wjob'[v] = j <=> v = w
      BY <2>3, <3>2
    <3> QED BY <1>2, <1>4, <2>3, <3>1, <3>3, <3>4, <3>5 DEF JobInv, At
  <2> QED BY <2>4, <2>5, <2>6, <2>7, ByJobNext
<1> QED BY <1>6, <1>7

\* What a thread that has a job knows of it: nobody else has it, and the row is
\* what the record says.
LEMMA Held ==
    ASSUME InductiveInv, NEW w \in Workers, wpc[w] \in {"taken", "running", "ok", "err"}
    PROVE  /\ up /\ wjob[w] \in Jobs /\ wjob[w] # NoJob
           /\ \A v \in Workers \ {w} : wjob[v] # wjob[w]
           /\ ~Listed(wjob[w]) /\ Once(wjob[w])
           /\ jobs[wjob[w]].status = IF wpc[w] = "taken" THEN "queued" ELSE "running"
           /\ jobs[wjob[w]].fin = Unset
           /\ rows[wjob[w]].status = jobs[wjob[w]].status
<1>1. TypeOK /\ ThreadsInv /\ \A k \in Jobs : JobInv(k)
  BY ByJob DEF InductiveInv
<1>2. up /\ wjob[w] \in Jobs /\ wjob[w] # NoJob
  BY <1>1 DEF TypeOK, ThreadsInv
<1>3. PICK j \in Jobs : j = wjob[w]
  BY <1>2
<1>4. /\ \A v \in Workers \ {w} : wjob[v] # j
      /\ ~Listed(j) /\ Once(j)
      /\ jobs[j].status = IF wpc[w] = "taken" THEN "queued" ELSE "running"
  BY <1>1, <1>3 DEF JobInv, At
<1>5. jobs[j].fin = Unset
  BY <1>1, <1>4 DEF JobInv
<1>6. rows[j].status = jobs[j].status
  BY <1>1, <1>3, <1>4 DEF JobInv, At, Finished
<1> QED BY <1>2, <1>3, <1>4, <1>5, <1>6

\* The jobs that a thread's step is not about.
LEMMA HeldStep ==
    ASSUME InductiveInv, NEW w \in Workers, NEW k \in Jobs,
           k # wjob[w], wjob'[w] # k,
           UNCHANGED queue,
           rows'[k] = rows[k], jobs'[k] = jobs[k],
           \A v \in Workers \ {w} : wpc'[v] = wpc[v] /\ wjob'[v] = wjob[v]
    PROVE  JobInv(k)'
<1>1. JobInv(k)
  BY ByJob
<1>2. Undisturbed(k)
  BY <1>1 DEF Undisturbed, Listed, Once, JobInv
<1> QED BY <1>1, <1>2, OtherJob

\* The runner's answer changes the place of the thread only.
LEMMA ExecuteInv == ASSUME InductiveInv, NEW w \in Workers, Execute(w) PROVE InductiveInv'
<1>1. /\ wpc[w] = "running" /\ UNCHANGED <<rows, jobs, queue, up, pills, wjob>>
      /\ \E to \in {"ok", "err"} : wpc' = [wpc EXCEPT ![w] = to]
  BY DEF Execute, WorkerAt
<1>2. PICK to \in {"ok", "err"} : wpc' = [wpc EXCEPT ![w] = to]
  BY <1>1
<1>3. /\ wpc'[w] = to /\ \A v \in Workers \ {w} : wpc'[v] = wpc[v]
      /\ wpc' \in [Workers -> WorkerStates]
  BY <1>2 DEF InductiveInv, TypeOK, WorkerStates
<1>4. TypeOK' /\ ThreadsInv'
  BY <1>1, <1>3 DEF InductiveInv, TypeOK, ThreadsInv
<1>5. PICK j \in Jobs : j = wjob[w]
  BY <1>1, Held
<1>6. \A k \in Jobs \ {j} : JobInv(k)'
  BY <1>1, <1>3, <1>5, HeldStep
<1>7. JobInv(j)'
  <2>1. /\ \A v \in Workers : wjob'[v] = j <=> v = w
        /\ ~Listed(j)' /\ Once(j)'
        /\ jobs'[j].status = "running" /\ jobs'[j].fin = Unset /\ rows'[j].status = "running"
    BY <1>1, <1>5, Held DEF Listed, Once
  <2> QED BY <1>3, <1>5, <2>1 DEF JobInv, At
<1> QED BY <1>4, <1>6, <1>7, ByJobNext

\* A mark takes record and row one step on, or the record only when its thread
\* dies.
LEMMA MarkInv ==
    ASSUME InductiveInv, NEW w \in Workers,
           MarkRunning(w) \/ MarkSucceeded(w) \/ MarkFailed(w)
    PROVE  InductiveInv'
<1>1. wpc[w] \in {"taken", "ok", "err"} /\ UNCHANGED <<queue, up, pills>>
  BY DEF MarkRunning, MarkSucceeded, MarkFailed, Mark
<1>2. PICK j \in Jobs : j = wjob[w]
  BY <1>1, Held
<1>3. PICK st \in {"running"} \cup Finished, fin \in {Unset, 0}, to \in {"running", "idle"} :
        /\ IF wpc[w] = "taken" THEN st = "running" /\ fin = Unset /\ to = "running"
                               ELSE st \in Finished /\ to = "idle"
        /\ jobs' = [jobs EXCEPT ![j] = [status |-> st, fin |-> fin]]
        /\ \/ /\ rows' = Marked(j, st)
              /\ wpc' = [wpc EXCEPT ![w] = to]
              /\ wjob' = [wjob EXCEPT ![w] = IF to = "idle" THEN NoJob ELSE j]
           \/ /\ wpc' = [wpc EXCEPT ![w] = "dead"]
              /\ UNCHANGED <<rows, wjob>>
  <2>1. CASE MarkRunning(w)
    BY <1>2, <2>1 DEF MarkRunning, Mark, WorkerAt
  <2>2. CASE MarkSucceeded(w)
    BY <1>2, <2>2 DEF MarkSucceeded, Mark, WorkerAt, Finished
  <2>3. CASE MarkFailed(w)
    BY <1>2, <2>3 DEF MarkFailed, Mark, WorkerAt, Finished
  <2> QED BY <2>1, <2>2, <2>3
<1>4. TypeOK /\ ThreadsInv
  BY DEF InductiveInv
<1>5. /\ jobs' \in [Jobs -> Record] /\ jobs'[j].status = st /\ jobs'[j].fin = fin
      /\ \A k \in Jobs \ {j} : jobs'[k] = jobs[k]
  <2>1. [status |-> st, fin |-> fin] \in Record
    BY Numbers DEF Record, Active, Unset
  <2> QED BY <1>3, <1>4, <2>1 DEF TypeOK
<1>6. \A k \in Jobs \ {j} : rows'[k] = rows[k]
  BY <1>3, <1>4 DEF TypeOK, Marked
<1>7. rows' \in [Jobs -> Row]
  <2>1. Now(st) \in Row
    BY Numbers DEF Now, Row, Active
  <2> QED BY <1>3, <1>4, <2>1 DEF TypeOK, Marked
<1>8. /\ up /\ j # NoJob /\ \A v \in Workers \ {w} : wjob[v] # j
      /\ ~Listed(j) /\ Once(j)
      /\ rows[j].status = IF wpc[w] = "taken" THEN "queued" ELSE "running"
  BY <1>1, <1>2, Held
<1>9. \A v \in Workers \ {w} : wpc'[v] = wpc[v] /\ wjob'[v] = wjob[v]
  BY <1>3, <1>4 DEF TypeOK
<1>10. wpc' \in [Workers -> WorkerStates] /\ wjob' \in [Workers -> Jobs \cup {NoJob}]
  BY <1>3, <1>4 DEF TypeOK, WorkerStates
<1>11. \/ /\ rows'[j].status = st /\ wpc'[w] = to
          /\ wjob'[w] = IF to = "idle" THEN NoJob ELSE j
       \/ rows'[j] = rows[j] /\ wpc'[w] = "dead" /\ wjob'[w] = j
  BY <1>2, <1>3, <1>4, <1>8 DEF TypeOK, Marked, Now
<1>12. TypeOK'
  BY <1>1, <1>4, <1>5, <1>7, <1>10 DEF TypeOK
<1>13. ThreadsInv'
  BY <1>1, <1>4, <1>8, <1>9, <1>11 DEF ThreadsInv
<1>14. ASSUME NEW k \in Jobs \ {j} PROVE JobInv(k)'
  <2>1. wjob'[w] # k /\ k # wjob[w]
    BY <1>2, <1>11, StoredAssumption
  <2> QED BY <1>1, <1>5, <1>6, <1>9, <2>1, HeldStep
<1>15. JobInv(j)'
  <2>1. ~Listed(j)' /\ Once(j)' /\ \A v \in Workers \ {w} : wjob'[v] # j
    BY <1>1, <1>8, <1>9 DEF Listed, Once
  <2>2. /\ st \notin {"none", "queued"}
        /\ st = "running" <=> wpc[w] = "taken"
        /\ st = "running" => fin = Unset
        /\ st # "running" => st \in Finished
    BY <1>3 DEF Finished
  <2>3. CASE /\ rows'[j].status = st /\ wpc'[w] = to
             /\ wjob'[w] = IF to = "idle" THEN NoJob ELSE j
    BY <1>3, <1>5, <1>8, <2>1, <2>2, <2>3 DEF JobInv, At, Finished
  <2>4. CASE rows'[j] = rows[j] /\ wpc'[w] = "dead" /\ wjob'[w] = j
    BY <1>3, <1>5, <1>8, <2>1, <2>2, <2>4 DEF JobInv, At
  <2> QED BY <1>11, <2>3, <2>4
<1> QED BY <1>12, <1>13, <1>14, <1>15, ByJobNext
-----------------------------------------------------------------------------
\* Whatever dies or raises: every step keeps all of the invariant.
THEOREM InductiveInvariant == Spec => []InductiveInv
<1>1. InductiveInv /\ [Next]_vars => InductiveInv'
  <2> SUFFICES ASSUME InductiveInv, [Next]_vars PROVE InductiveInv'
    OBVIOUS
  <2>1. CASE UNCHANGED vars
    <3>1. UNCHANGED <<rows, jobs, queue, up, pills, wpc, wjob>>
      BY <2>1 DEF vars, memory
    <3> QED BY <3>1 DEF InductiveInv, TypeOK, ThreadsInv, AgesInv, KnownInv,
                        RecordsMatchThreads, RowsFollowRecords, InQueue, At
  <2>2. ASSUME NEW j \in Jobs, Submit(j) PROVE InductiveInv'
    BY <2>2, SubmitInv
  <2>3. ASSUME NEW w \in Workers, Work(w) PROVE InductiveInv'
    BY <2>3, TakeInv, ExecuteInv, MarkInv DEF Work
  <2> QED BY <2>1, <2>2, <2>3, StartInv, CrashInv, ReadInv, ShutdownInv, TickInv DEF Next
<1> QED BY InitInv, <1>1, PTL DEF Spec

\* The table is never ahead of the process, and behind it only by the one step
\* that a thread died of, for every number of jobs and threads.
THEOREM RowsFollow == Spec => []RowsFollowRecords
<1>1. InductiveInv => RowsFollowRecords
  BY DEF InductiveInv
<1> QED BY InductiveInvariant, <1>1, PTL
-----------------------------------------------------------------------------
\* What the table shows of one job.
Shown(row) == IF row.status = "deleted" THEN "expired" ELSE row.status

\* The same of all of them.
LEMMA ViewOfRow ==
    /\ TableView = [j \in Jobs |-> TableView[j]]
    /\ TableView' = [j \in Jobs |-> TableView'[j]]
    /\ \A j \in Jobs : TableView[j] = Shown(rows[j]) /\ TableView'[j] = Shown(rows'[j])
BY DEF TableView, Shown

\* The rows a cleanup takes are finished ones; the others look the same.
LEMMA CleanupSeen ==
    ASSUME TypeOK
    PROVE  \E S \in SUBSET Jobs :
              /\ \A j \in S : TableView[j] \in {"succeeded", "failed"}
              /\ \A j \in Jobs : Shown(Cleaned[j])
                                    = IF j \in S THEN "expired" ELSE TableView[j]
              /\ \A j \in Jobs : rows[j].status = "none" => j \notin S
<1> DEFINE S == {j \in Jobs : Cleaned[j] # rows[j]}
<1>1. \A j \in Jobs : \/ Cleaned[j] = rows[j]
                      \/ rows[j].status \in Finished /\ Cleaned[j].status = "deleted"
  BY RowsCleaned
<1>2. \A j \in S : TableView[j] \in {"succeeded", "failed"}
  BY <1>1, ViewOfRow DEF Shown, Finished
<1>3. \A j \in Jobs : Shown(Cleaned[j]) = IF j \in S THEN "expired" ELSE TableView[j]
  BY <1>1, ViewOfRow DEF Shown
<1>4. \A j \in Jobs : rows[j].status = "none" => j \notin S
  BY <1>1 DEF Finished
<1>5. S \in SUBSET Jobs
  OBVIOUS
<1> HIDE DEF S
<1> QED BY <1>2, <1>3, <1>4, <1>5

\* A read is seen as an expiry.
LEMMA ReadSeen == ASSUME TypeOK, rows' = Cleaned PROVE Promise!StoredNext
<1>1. PICK S \in SUBSET Jobs :
        /\ \A j \in S : TableView[j] \in {"succeeded", "failed"}
        /\ \A j \in Jobs : Shown(Cleaned[j]) = IF j \in S THEN "expired" ELSE TableView[j]
  BY CleanupSeen
<1>2. TableView' = [j \in Jobs |-> IF j \in S THEN "expired" ELSE TableView[j]]
  BY <1>1, ViewOfRow
<1>3. Promise!Expire(S)
  BY <1>1, <1>2 DEF Promise!Expire, Promise!MoveAll
<1> QED BY <1>3 DEF Promise!StoredNext, Promise!Next

\* A submit is seen as an acceptance, as a refusal, or as a mere cleanup.
LEMMA SubmitSeen ==
    ASSUME TypeOK, NEW j \in Jobs, Submit(j)
    PROVE  Promise!StoredNext \/ TableView' = TableView
<1>1. /\ rows[j].status = "none"
      /\ \/ rows' = rows \/ rows' = Cleaned
         \/ \E st \in {"queued", "failed"} : rows' = Inserted(j, st)
  BY DEF Submit
<1>2. ASSUME NEW st \in {"queued", "failed"}, rows' = Inserted(j, st)
      PROVE  Promise!StoredNext
  <2>1. Cleaned \in [Jobs -> Row]
    BY RowsCleaned
  <2>2. rows'[j] = Now(st) /\ \A k \in Jobs \ {j} : rows'[k] = Cleaned[k]
    BY <1>2, <2>1 DEF Inserted
  <2>3. TableView[j] = "none" /\ TableView'[j] = st
    BY <1>1, <2>2, ViewOfRow DEF Shown, Now
  <2>4. PICK S \in SUBSET Jobs :
          /\ \A k \in S : TableView[k] \in {"succeeded", "failed"}
          /\ \A k \in Jobs : Shown(Cleaned[k]) = IF k \in S THEN "expired" ELSE TableView[k]
    BY CleanupSeen
  <2>5. TableView' = [k \in Jobs |-> IF k = j THEN st
                                    ELSE IF k \in S THEN "expired" ELSE TableView[k]]
    BY <2>2, <2>3, <2>4, ViewOfRow
  <2>6. CASE st = "queued"
    <3>1. Promise!Accept(j, S)
      BY <2>3, <2>4, <2>5, <2>6 DEF Promise!Accept
    <3> QED BY <3>1 DEF Promise!StoredNext, Promise!Next
  <2>7. CASE st = "failed"
    <3>1. Promise!Refuse(j, S)
      BY <2>3, <2>4, <2>5, <2>7 DEF Promise!Refuse, Promise!Finished
    <3> QED BY <3>1 DEF Promise!StoredNext
  <2> QED BY <2>6, <2>7
<1>3. CASE rows' = rows
  BY <1>3 DEF TableView
<1> QED BY <1>1, <1>2, <1>3, ReadSeen

\* A restart gives up what is waiting or running, and nothing else.
LEMMA StartSeen == ASSUME TypeOK, Start PROVE Promise!StoredNext
<1> DEFINE S == {j \in Jobs : Stale(rows[j])}
<1>1. rows' = FailedStale
  BY DEF Start
<1>2. \A j \in S : TableView[j] \in {"queued", "running"}
  BY ViewOfRow DEF Shown, Stale, Active
<1>3. \A j \in Jobs : TableView'[j] = IF j \in S THEN "failed" ELSE TableView[j]
  BY <1>1, ViewOfRow DEF FailedStale, Shown
<1>4. S \in SUBSET Jobs
  OBVIOUS
<1> HIDE DEF S
<1>5. TableView' = [j \in Jobs |-> IF j \in S THEN "failed" ELSE TableView[j]]
  BY <1>3, ViewOfRow
<1>6. Promise!GiveUp(S)
  BY <1>2, <1>5 DEF Promise!GiveUp, Promise!MoveAll
<1> QED BY <1>4, <1>6 DEF Promise!StoredNext

\* A thread's mark is seen as one move of the job it holds, if the store takes
\* it.
LEMMA MarkSeen ==
    ASSUME InductiveInv, NEW w \in Workers,
           MarkRunning(w) \/ MarkSucceeded(w) \/ MarkFailed(w)
    PROVE  Promise!StoredNext \/ TableView' = TableView
<1>1. wpc[w] \in {"taken", "ok", "err"}
  BY DEF MarkRunning, MarkSucceeded, MarkFailed
<1>2. PICK j \in Jobs : j = wjob[w]
  BY <1>1, Held
<1>3. rows[j].status = IF wpc[w] = "taken" THEN "queued" ELSE "running"
  BY <1>1, <1>2, Held
<1>4. CASE rows' = rows
  BY <1>4 DEF TableView
<1>5. ASSUME NEW st \in {"running", "succeeded", "failed"}, rows' = Marked(j, st),
             (st = "running") <=> (wpc[w] = "taken")
      PROVE  Promise!StoredNext
  <2>1. rows \in [Jobs -> Row]
    BY DEF InductiveInv, TypeOK
  <2>2. rows' = [rows EXCEPT ![j] = Now(st)]
    BY <1>3, <1>5 DEF Marked
  <2>3. /\ TableView[j] = IF st = "running" THEN "queued" ELSE "running"
        /\ TableView'[j] = st
        /\ \A k \in Jobs \ {j} : TableView'[k] = TableView[k]
    BY <1>3, <1>5, <2>1, <2>2, ViewOfRow DEF Shown, Now
  <2>4. TableView' = [TableView EXCEPT ![j] = st]
    BY <2>3, ViewOfRow
  <2>5. CASE st = "running"
    <3>1. Promise!Start(j)
      BY <2>3, <2>4, <2>5 DEF Promise!Start, Promise!Move
    <3> QED BY <3>1 DEF Promise!StoredNext, Promise!Next
  <2>6. CASE st = "succeeded"
    <3>1. Promise!Succeed(j)
      BY <2>3, <2>4, <2>6 DEF Promise!Succeed, Promise!Move
    <3> QED BY <3>1 DEF Promise!StoredNext, Promise!Next
  <2>7. CASE st = "failed"
    <3>1. TableView' = [k \in Jobs |-> IF k \in {j} THEN "failed" ELSE TableView[k]]
      BY <2>3, <2>7, ViewOfRow
    <3>2. Promise!Fail({j})
      BY <2>3, <2>7, <3>1 DEF Promise!Fail, Promise!MoveAll
    <3> QED BY <3>2 DEF Promise!StoredNext, Promise!Next
  <2> QED BY <2>5, <2>6, <2>7
<1>6. CASE MarkRunning(w)
  <2>1. wpc[w] = "taken" /\ (rows' = rows \/ rows' = Marked(j, "running"))
    BY <1>2, <1>6 DEF MarkRunning, Mark
  <2> QED BY <1>4, <1>5, <2>1
<1>7. CASE MarkSucceeded(w)
  <2>1. wpc[w] = "ok" /\ (rows' = rows \/ rows' = Marked(j, "succeeded"))
    BY <1>2, <1>7 DEF MarkSucceeded, Mark
  <2> QED BY <1>4, <1>5, <2>1
<1>8. CASE MarkFailed(w)
  <2>1. wpc[w] = "err" /\ (rows' = rows \/ rows' = Marked(j, "failed"))
    BY <1>2, <1>8 DEF MarkFailed, Mark
  <2> QED BY <1>4, <1>5, <2>1
<1> QED BY <1>6, <1>7, <1>8

\* Crashes, restarts and store errors included, the table shows every job
\* lead the promised life: the system implements StoredJobPromise.
THEOREM PromiseIsKept == Spec => KeepsPromise
<1>1. Init => Promise!Init
  BY DEF Init, Promise!Init, TableView, NoRow
<1>2. InductiveInv /\ [Next]_vars => [Promise!StoredNext]_TableView
  <2> SUFFICES ASSUME InductiveInv, [Next]_vars
               PROVE  Promise!StoredNext \/ TableView' = TableView
    OBVIOUS
  <2>1. TypeOK
    BY DEF InductiveInv
  <2>2. CASE Crash \/ ShutdownBegin \/ ShutdownPut \/ UNCHANGED vars
    <3>1. rows' = rows
      BY <2>2 DEF Crash, ShutdownBegin, ShutdownPut, vars
    <3> QED BY <3>1 DEF TableView
  <2>3. CASE Tick
    <3>1. \A j \in Jobs : rows'[j].status = rows[j].status
      BY <2>1, <2>3 DEF Tick, TypeOK, Row
    <3> QED BY <3>1 DEF TableView
  <2>4. ASSUME NEW w \in Workers, Work(w)
        PROVE  Promise!StoredNext \/ TableView' = TableView
    <3>1. CASE Take(w) \/ Execute(w)
      <4>1. rows' = rows
        BY <3>1 DEF Take, Execute
      <4> QED BY <4>1 DEF TableView
    <3> QED BY <2>4, <3>1, MarkSeen DEF Work
  <2>5. ReadJobs => rows' = Cleaned
    BY DEF ReadJobs
  <2> QED BY <2>1, <2>2, <2>3, <2>4, <2>5, StartSeen, SubmitSeen, ReadSeen DEF Next
<1> QED BY <1>1, <1>2, InductiveInvariant, PTL
        DEF Spec, KeepsPromise, Promise!StoredSpec
=============================================================================
