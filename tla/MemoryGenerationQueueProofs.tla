-------------------- MODULE MemoryGenerationQueueProofs --------------------
(***************************************************************************)
(* Proofs about MemoryGenerationQueue, for any number of ids, threads and  *)
(* callers of shutdown, any queue size and retention.                      *)
(***************************************************************************)
EXTENDS MemoryGenerationQueue, TLAPS, FiniteSetTheorems

\* There is at least one worker thread.
LEMMA WorkerCount == Cardinality(Workers) \in Nat \ {0}
BY MemoryAssumption, FS_CardinalityType, FS_EmptySet

\* What a cleanup leaves of a table of records.
LEMMA CleanedRecords ==
    ASSUME TypeOK, AgesInv
    PROVE  /\ Cleaned \in [Jobs -> Record]
           /\ \A j \in Jobs :
                \/ Cleaned[j] = jobs[j]
                \/ /\ jobs[j].status \notin {"none", "queued", "running"}
                   /\ Cleaned[j].status = "deleted"
                   /\ Cleaned[j].fin = Unset
<1>1. \A j \in Jobs : jobs[j] \in Record
  BY DEF TypeOK
<1>2. [status |-> "deleted", fin |-> Unset] \in Record
  BY MemoryAssumption DEF Record, Stored, Unset, AgeCap
<1>3. \A j \in Jobs : Expired(jobs[j]) =>
            jobs[j].status \notin {"none", "queued", "running"}
  BY MemoryAssumption DEF Expired, AgesInv, Unset
<1> QED BY <1>1, <1>2, <1>3 DEF Cleaned

\* The initial state.
LEMMA InitInv == Init => InductiveInv
<1> SUFFICES ASSUME Init PROVE InductiveInv
  OBVIOUS
<1> USE DEF Init
<1>1. TypeOK
  <2>1. NoRecord \in Record
    BY MemoryAssumption DEF NoRecord, Record, Unset, AgeCap
  <2>2. 0 \in 0 .. Cardinality(Workers)
    BY WorkerCount
  <2>3. queue \in Seq(Jobs \cup {Pill})
    OBVIOUS
  <2> QED BY <2>1, <2>2, <2>3 DEF TypeOK, WorkerStates, CloserStates
<1>2. ThreadsInv /\ AgesInv /\ PillsInv
  BY DEF ThreadsInv, AgesInv, PillsInv, NoRecord
<1>3. RecordsMatchThreads
  BY MemoryAssumption DEF RecordsMatchThreads, InQueue, HeldBy, NoRecord
<1> QED BY <1>1, <1>2, <1>3 DEF InductiveInv

\* An append seen element by element.
LEMMA Appended ==
    ASSUME TypeOK, NEW e \in Jobs \cup {Pill}, queue' = Append(queue, e)
    PROVE  /\ queue' \in Seq(Jobs \cup {Pill})
           /\ Len(queue) \in Nat
           /\ Len(queue') = Len(queue) + 1
           /\ \A i \in 1 .. Len(queue) : queue'[i] = queue[i]
           /\ queue'[Len(queue) + 1] = e
           /\ \A i \in 1 .. Len(queue') : i \in 1 .. Len(queue) \/ i = Len(queue) + 1
BY DEF TypeOK

\* Submit puts a new id at the end of a queue without pills.
LEMMA SubmitInv == InductiveInv /\ Submit => InductiveInv'
<1> SUFFICES ASSUME InductiveInv, Submit PROVE InductiveInv'
  OBVIOUS
<1> USE DEF InductiveInv
<1>1. PICK j \in Jobs :
        /\ jobs[j].status = "none"
        /\ IF Full
           THEN jobs' = Cleaned /\ UNCHANGED queue
           ELSE /\ jobs' = [Cleaned EXCEPT ![j].status = "queued"]
                /\ queue' = Append(queue, j)
  BY DEF Submit
<1>2. ~shutdown /\ UNCHANGED <<shutdown, wpc, wjob, cpc, pills>>
  BY DEF Submit, workerVars, closerVars
<1>3. Cleaned \in [Jobs -> Record] /\ Cleaned[j] = jobs[j]
  BY <1>1, CleanedRecords
<1>4. \A k \in Jobs \ {j} :
        \/ jobs'[k] = jobs[k]
        \/ /\ jobs[k].status \notin {"none", "queued", "running"}
           /\ jobs'[k].status = "deleted" /\ jobs'[k].fin = Unset
  BY <1>1, <1>3, CleanedRecords
<1>5. ~InQueue(j) /\ \A w \in Workers : ~HeldBy(w, j)
  <2>1. ~InQueue(j)
    BY <1>1 DEF RecordsMatchThreads
  <2>2. ASSUME NEW w \in Workers, HeldBy(w, j) PROVE FALSE
    <3>1. wpc[w] \in {"taken", "running", "ok", "err"}
      BY <2>2, MemoryAssumption DEF HeldBy, ThreadsInv, TypeOK, WorkerStates
    <3> QED BY <1>1, <2>2, <3>1 DEF RecordsMatchThreads
  <2> QED BY <2>1, <2>2
<1>6. CASE Full
  <2>1. jobs' = Cleaned /\ queue' = queue
    BY <1>1, <1>6
  <2>2. TypeOK' /\ ThreadsInv' /\ PillsInv'
    BY <1>2, <1>3, <2>1 DEF TypeOK, ThreadsInv, PillsInv
  <2>3. AgesInv' /\ RecordsMatchThreads'
    BY <1>2, <1>3, <1>4, <2>1 DEF AgesInv, RecordsMatchThreads, InQueue, HeldBy
  <2> QED BY <2>2, <2>3
<1>7. CASE ~Full
  <2>1. jobs' = [Cleaned EXCEPT ![j].status = "queued"] /\ queue' = Append(queue, j)
    BY <1>1, <1>7
  <2>2. jobs' \in [Jobs -> Record] /\ jobs'[j].status = "queued" /\ jobs'[j].fin = Unset
    BY <1>1, <1>3, <2>1 DEF Record, Stored, AgesInv
  <2>3. /\ queue' \in Seq(Jobs \cup {Pill})
        /\ Len(queue) \in Nat
        /\ Len(queue') = Len(queue) + 1
        /\ \A i \in 1 .. Len(queue) : queue'[i] = queue[i]
        /\ queue'[Len(queue) + 1] = j
        /\ \A i \in 1 .. Len(queue') : i \in 1 .. Len(queue) \/ i = Len(queue) + 1
    BY <2>1, Appended
  <2>4. TypeOK' /\ ThreadsInv' /\ AgesInv'
    BY <1>2, <1>4, <2>2, <2>3 DEF TypeOK, ThreadsInv, AgesInv
  <2>5. PillsInv'
    BY <1>2, <2>3, MemoryAssumption DEF PillsInv
  <2>6. RecordsMatchThreads'
    <3>1. \A k \in Jobs : InQueue(k)' <=> InQueue(k) \/ k = j
      BY <2>3 DEF InQueue
    <3>2. \A k \in Jobs : \A w \in Workers : HeldBy(w, k)' <=> HeldBy(w, k)
      BY <1>2 DEF HeldBy
    <3>3. \A k \in Jobs \ {j} : \A st \in {"queued", "running"} :
            jobs'[k].status = st <=> jobs[k].status = st
      BY <1>4
    <3>4. ASSUME NEW k \in Jobs
          PROVE  \A m, n \in 1 .. Len(queue') : queue'[m] = k /\ queue'[n] = k => m = n
      BY <1>5, <2>3 DEF RecordsMatchThreads, InQueue
    <3>5. ASSUME NEW k \in Jobs
          PROVE  /\ jobs'[k].status = "queued" <=>
                        InQueue(k)' \/ \E w \in Workers : HeldBy(w, k)' /\ wpc'[w] = "taken"
                 /\ jobs'[k].status = "running" <=>
                        \E w \in Workers : HeldBy(w, k)' /\ wpc'[w] \in {"running", "ok", "err"}
                 /\ \A v, w \in Workers : HeldBy(v, k)' /\ HeldBy(w, k)' => v = w
                 /\ InQueue(k)' => \A w \in Workers : ~HeldBy(w, k)'
      <4>1. CASE k = j
        BY <1>2, <1>5, <2>2, <3>1, <3>2, <4>1 DEF RecordsMatchThreads
      <4>2. CASE k # j
        BY <1>2, <3>1, <3>2, <3>3, <4>2 DEF RecordsMatchThreads
      <4> QED BY <4>1, <4>2
    <3> QED BY <3>4, <3>5 DEF RecordsMatchThreads
  <2> QED BY <2>4, <2>5, <2>6
<1> QED BY <1>6, <1>7

\* A cleanup alone.
LEMMA ReadInv == InductiveInv /\ ReadJobs => InductiveInv'
<1> SUFFICES ASSUME InductiveInv, ReadJobs PROVE InductiveInv'
  OBVIOUS
<1> USE DEF InductiveInv
<1>1. jobs' = Cleaned /\ UNCHANGED <<queue, shutdown, wpc, wjob, cpc, pills>>
  BY DEF ReadJobs, workerVars, closerVars
<1>2. /\ Cleaned \in [Jobs -> Record]
      /\ \A k \in Jobs :
            \/ jobs'[k] = jobs[k]
            \/ /\ jobs[k].status \notin {"none", "queued", "running"}
               /\ jobs'[k].status = "deleted" /\ jobs'[k].fin = Unset
  BY <1>1, CleanedRecords
<1>3. TypeOK' /\ ThreadsInv' /\ PillsInv'
  BY <1>1, <1>2 DEF TypeOK, ThreadsInv, PillsInv
<1>4. AgesInv' /\ RecordsMatchThreads'
  BY <1>1, <1>2 DEF AgesInv, RecordsMatchThreads, InQueue, HeldBy
<1> QED BY <1>3, <1>4

\* The steps of shutdown: pills go behind every job.
LEMMA CloseInv ==
    ASSUME InductiveInv, NEW c \in Closers, ShutdownBegin(c) \/ Close(c)
    PROVE  InductiveInv'
<1> USE DEF InductiveInv
<1>1. CASE ShutdownPut(c)
  <2>1. /\ queue' = Append(queue, Pill)
        /\ cpc[c] = "putting" /\ shutdown
        /\ pills' = [pills EXCEPT ![c] = pills[c] - 1]
        /\ cpc' = [cpc EXCEPT ![c] = IF pills[c] = 1 THEN "joining" ELSE "putting"]
        /\ UNCHANGED <<jobs, shutdown, wpc, wjob>>
    BY <1>1 DEF ShutdownPut, workerVars, ThreadsInv
  <2>2. /\ queue' \in Seq(Jobs \cup {Pill})
        /\ Len(queue) \in Nat
        /\ Len(queue') = Len(queue) + 1
        /\ \A i \in 1 .. Len(queue) : queue'[i] = queue[i]
        /\ queue'[Len(queue) + 1] = Pill
        /\ \A i \in 1 .. Len(queue') : i \in 1 .. Len(queue) \/ i = Len(queue) + 1
    BY <2>1, Appended
  <2>3. pills[c] \in 1 .. Cardinality(Workers)
    BY <2>1, WorkerCount DEF TypeOK, ThreadsInv
  <2>4. TypeOK'
    BY <2>1, <2>2, <2>3, WorkerCount DEF TypeOK, CloserStates
  <2>5. ThreadsInv' /\ AgesInv'
    BY <2>1, <2>3, WorkerCount DEF TypeOK, ThreadsInv, AgesInv
  <2>6. PillsInv'
    BY <2>1, <2>2 DEF PillsInv
  <2>7. RecordsMatchThreads'
    <3>1. \A k \in Jobs : \A i \in 1 .. Len(queue') :
            queue'[i] = k => i \in 1 .. Len(queue) /\ queue[i] = k
      BY <2>2, MemoryAssumption
    <3>2. \A k \in Jobs : InQueue(k)' <=> InQueue(k)
      BY <2>2, <3>1 DEF InQueue
    <3> QED BY <2>1, <3>1, <3>2 DEF RecordsMatchThreads, HeldBy
  <2> QED BY <2>4, <2>5, <2>6, <2>7
<1>2. CASE ShutdownBegin(c) \/ ShutdownJoin(c)
  <2> DEFINE n == Cardinality(Workers)
  <2>1. UNCHANGED <<jobs, queue, wpc, wjob>> /\ shutdown' \in BOOLEAN
    BY <1>2 DEF ShutdownBegin, ShutdownJoin, workerVars, TypeOK
  <2>2. PICK to \in {"returned", "putting"} :
          /\ cpc' = [cpc EXCEPT ![c] = to]
          /\ to = "returned" => pills' = pills
          /\ to = "putting" => shutdown' /\ pills' = [pills EXCEPT ![c] = n]
          /\ shutdown => shutdown'
    <3>1. CASE ShutdownBegin(c) /\ ~shutdown
      BY <3>1 DEF ShutdownBegin
    <3>2. CASE ShutdownJoin(c) \/ (ShutdownBegin(c) /\ shutdown)
      BY <3>2 DEF ShutdownBegin, ShutdownJoin
    <3> QED BY <1>2, <3>1, <3>2
  <2>3. n \in Nat /\ n > 0
    BY WorkerCount
  <2>4. TypeOK'
    <3>1. cpc' \in [Closers -> CloserStates]
      BY <2>2 DEF TypeOK, CloserStates
    <3>2. pills' \in [Closers -> 0 .. n]
      <4> HIDE DEF n
      <4>1. pills \in [Closers -> 0 .. n]
        BY DEF TypeOK, n
      <4> QED BY <2>2, <2>3, <4>1
    <3> QED BY <2>1, <3>1, <3>2 DEF TypeOK
  <2>5. ThreadsInv'
    <3> HIDE DEF n
    <3>1. pills \in [Closers -> 0 .. n] /\ cpc \in [Closers -> CloserStates]
      BY DEF TypeOK, n
    <3>2. ASSUME NEW d \in Closers, cpc'[d] = "putting"
          PROVE  shutdown' /\ pills'[d] > 0
      BY <2>2, <2>3, <3>1, <3>2 DEF ThreadsInv
    <3> QED BY <2>1, <3>2 DEF ThreadsInv
  <2>6. AgesInv' /\ RecordsMatchThreads'
    BY <2>1 DEF AgesInv, RecordsMatchThreads, InQueue, HeldBy
  <2>7. PillsInv'
    BY <2>1, <2>2 DEF PillsInv, TypeOK
  <2> QED BY <2>4, <2>5, <2>6, <2>7
<1> QED BY <1>1, <1>2 DEF Close

\* A get takes the head: a job into one thread's hands, or a pill, behind
\* which there are only pills.
LEMMA TakeInv ==
    ASSUME InductiveInv, NEW w \in Workers, Take(w)
    PROVE  InductiveInv'
<1> USE DEF InductiveInv
<1>1. /\ Len(queue) \in Nat /\ Len(queue) > 0 /\ 1 \in 1 .. Len(queue)
      /\ queue[1] \in Jobs \cup {Pill}
      /\ Head(queue) = queue[1]
      /\ queue' \in Seq(Jobs \cup {Pill})
      /\ Len(queue') = Len(queue) - 1
      /\ \A i \in 1 .. Len(queue') : queue'[i] = queue[i + 1] /\ i + 1 \in 1 .. Len(queue)
      /\ \A i \in 1 .. Len(queue) : i # 1 =>
            i - 1 \in 1 .. Len(queue') /\ queue'[i - 1] = queue[i]
  BY DEF Take, TypeOK
<1>2. /\ UNCHANGED <<jobs, shutdown, cpc, pills>>
      /\ wpc[w] = "idle" /\ wjob[w] = NoJob
  BY DEF Take, closerVars, WorkerAt, ThreadsInv
<1>3. CASE queue[1] = Pill
  <2>1. /\ wjob' = wjob /\ wpc' = [wpc EXCEPT ![w] = "exited"]
        /\ shutdown
    BY <1>1, <1>3 DEF Take, WorkerAt, PillsInv
  <2>2. \A i \in 1 .. Len(queue) : queue[i] = Pill
    BY <1>1, <1>3 DEF PillsInv
  <2>3. TypeOK' /\ ThreadsInv' /\ AgesInv'
    BY <1>1, <1>2, <2>1 DEF TypeOK, WorkerStates, ThreadsInv, AgesInv
  <2>4. PillsInv'
    BY <1>1, <1>2, <2>1, <2>2 DEF PillsInv
  <2>5. RecordsMatchThreads'
    <3>1. \A k \in Jobs : ~InQueue(k) /\ ~InQueue(k)'
      BY <1>1, <2>2, MemoryAssumption DEF InQueue
    <3>2. \A k \in Jobs : ~HeldBy(w, k)
      BY <1>2, MemoryAssumption DEF HeldBy
    <3>3. \A k \in Jobs : \A i \in 1 .. Len(queue') : queue'[i] # k
      BY <1>1, <2>2, MemoryAssumption
    <3>4. \A v \in Workers \ {w} : wpc'[v] = wpc[v]
      BY <2>1 DEF TypeOK
    <3> QED BY <1>2, <2>1, <3>1, <3>2, <3>3, <3>4 DEF RecordsMatchThreads, HeldBy
  <2> QED BY <2>3, <2>4, <2>5
<1>4. CASE queue[1] # Pill
  <2>1. PICK j \in Jobs : j = queue[1]
    BY <1>1, <1>4
  <2>2. /\ wpc' = [wpc EXCEPT ![w] = "taken"]
        /\ wjob' = [wjob EXCEPT ![w] = j]
    BY <1>1, <1>4, <2>1 DEF Take, WorkerAt
  <2>3. TypeOK' /\ ThreadsInv' /\ AgesInv'
    <3>1. TypeOK'
      BY <1>1, <1>2, <2>2 DEF TypeOK, WorkerStates
    <3>2. \A v \in Workers : wjob'[v] = NoJob <=> wpc'[v] \in {"idle", "exited"}
      BY <2>2, MemoryAssumption DEF TypeOK, ThreadsInv
    <3> QED BY <1>2, <3>1, <3>2 DEF ThreadsInv, AgesInv
  <2>4. PillsInv'
    <3>1. \A v \in Workers : wpc[v] # "exited"
      BY <1>1, <1>4 DEF PillsInv
    <3>2. \A v \in Workers : wpc'[v] # "exited"
      BY <2>2, <3>1 DEF TypeOK
    <3>3. ASSUME NEW i \in 1 .. Len(queue'), NEW k \in 1 .. Len(queue'),
                 i < k, queue'[i] = Pill
          PROVE  queue'[k] = Pill
      <4>1. /\ i + 1 \in 1 .. Len(queue) /\ k + 1 \in 1 .. Len(queue)
            /\ i + 1 < k + 1 /\ queue[i + 1] = Pill
        BY <1>1, <3>3
      <4> QED BY <1>1, <4>1 DEF PillsInv
    <3>4. ~shutdown => \A i \in 1 .. Len(queue') : queue'[i] # Pill
      BY <1>1 DEF PillsInv
    <3> QED BY <1>2, <3>2, <3>3, <3>4 DEF PillsInv
  <2>5. RecordsMatchThreads'
    <3>1. ASSUME NEW k \in Jobs \ {j} PROVE InQueue(k)' <=> InQueue(k)
      <4>1. ASSUME InQueue(k) PROVE InQueue(k)'
        <5>1. PICK i \in 1 .. Len(queue) : queue[i] = k
          BY <4>1 DEF InQueue
        <5>2. i - 1 \in 1 .. Len(queue') /\ queue'[i - 1] = k
          BY <1>1, <2>1, <5>1
        <5> QED BY <5>2 DEF InQueue
      <4>2. ASSUME InQueue(k)' PROVE InQueue(k)
        BY <1>1, <4>2 DEF InQueue
      <4> QED BY <4>1, <4>2
    <3>2. InQueue(j) /\ ~InQueue(j)'
      BY <1>1, <2>1 DEF InQueue, RecordsMatchThreads
    <3>3. \A k \in Jobs : \A v \in Workers :
            HeldBy(v, k)' <=> (v # w /\ HeldBy(v, k)) \/ (v = w /\ k = j)
      BY <1>2, <2>2, MemoryAssumption DEF HeldBy, TypeOK
    <3>4. \A v \in Workers \ {w} : wpc'[v] = wpc[v]
      BY <2>2 DEF TypeOK
    <3>5. wpc'[w] = "taken" /\ \A k \in Jobs : ~HeldBy(w, k)
      BY <1>2, <2>2, MemoryAssumption DEF TypeOK, HeldBy
    <3>6. ASSUME NEW k \in Jobs
          PROVE  \A m, n \in 1 .. Len(queue') : queue'[m] = k /\ queue'[n] = k => m = n
      BY <1>1 DEF RecordsMatchThreads
    <3>7. ASSUME NEW k \in Jobs
          PROVE  /\ jobs'[k].status = "queued" <=>
                        InQueue(k)' \/ \E v \in Workers : HeldBy(v, k)' /\ wpc'[v] = "taken"
                 /\ jobs'[k].status = "running" <=>
                        \E v \in Workers : HeldBy(v, k)' /\ wpc'[v] \in {"running", "ok", "err"}
                 /\ \A u, v \in Workers : HeldBy(u, k)' /\ HeldBy(v, k)' => u = v
                 /\ InQueue(k)' => \A v \in Workers : ~HeldBy(v, k)'
      <4>1. CASE k = j
        <5>1. /\ jobs[j].status = "queued"
              /\ \A v \in Workers : ~HeldBy(v, j)
          BY <3>2 DEF RecordsMatchThreads
        <5> QED BY <1>2, <3>2, <3>3, <3>4, <3>5, <4>1, <5>1
      <4>2. CASE k # j
        <5>1. \A v \in Workers : HeldBy(v, k)' <=> HeldBy(v, k)
          BY <3>3, <3>5, <4>2
        <5>2. \A v \in Workers : HeldBy(v, k) => wpc'[v] = wpc[v]
          BY <3>4, <3>5
        <5> QED BY <1>2, <3>1, <4>2, <5>1, <5>2 DEF RecordsMatchThreads
      <4> QED BY <4>1, <4>2
    <3> QED BY <3>6, <3>7 DEF RecordsMatchThreads
  <2> QED BY <2>3, <2>4, <2>5
<1> QED BY <1>3, <1>4

\* What a thread does with the job it has: the record follows the thread.
LEMMA RunInv ==
    ASSUME InductiveInv, NEW w \in Workers,
           MarkRunning(w) \/ Execute(w) \/ MarkSucceeded(w) \/ MarkFailed(w)
    PROVE  InductiveInv'
<1> USE DEF InductiveInv
<1>1. /\ UNCHANGED <<queue, shutdown, cpc, pills>>
      /\ wpc[w] \in {"taken", "running", "ok", "err"}
  BY DEF MarkRunning, Execute, MarkSucceeded, MarkFailed, Finish, WorkerAt, closerVars
<1>2. PICK j \in Jobs : j = wjob[w]
  BY <1>1 DEF TypeOK, ThreadsInv
<1>3. /\ ~InQueue(j)
      /\ \A v \in Workers \ {w} : wjob[v] # j
      /\ jobs[j].status = IF wpc[w] = "taken" THEN "queued" ELSE "running"
      /\ jobs[j].fin = Unset
      /\ jobs[j] \in Record
      /\ Kept(j)
  BY <1>1, <1>2 DEF RecordsMatchThreads, HeldBy, AgesInv, TypeOK, Kept, Stored
<1>4. PICK to \in {"running", "ok", "err", "idle"}, new \in Record :
        /\ wpc' = [wpc EXCEPT ![w] = to]
        /\ wjob' = IF to = "idle" THEN [wjob EXCEPT ![w] = NoJob] ELSE wjob
        /\ jobs' = [jobs EXCEPT ![j] = new]
        /\ IF to = "idle" THEN new.status \in {"succeeded", "failed"}
                           ELSE new.status = "running" /\ new.fin = Unset
  <2>1. CASE MarkRunning(w)
    <3>1. [jobs[j] EXCEPT !.status = "running"] \in Record
      BY <1>3 DEF Record, Stored
    <3>2. /\ wpc' = [wpc EXCEPT ![w] = "running"]
          /\ jobs' = [jobs EXCEPT ![j] = [jobs[j] EXCEPT !.status = "running"]]
          /\ wjob' = wjob
      BY <1>2, <1>3, <2>1 DEF MarkRunning, WorkerAt, TypeOK
    <3>3. /\ [jobs[j] EXCEPT !.status = "running"].status = "running"
          /\ [jobs[j] EXCEPT !.status = "running"].fin = Unset
      BY <1>3 DEF Record
    <3> QED BY <3>1, <3>2, <3>3
  <2>2. CASE Execute(w)
    <3>1. /\ \E to \in {"ok", "err"} : wpc' = [wpc EXCEPT ![w] = to]
          /\ wjob' = wjob /\ jobs' = jobs /\ wpc[w] = "running"
      BY <2>2 DEF Execute, WorkerAt
    <3>2. jobs' = [jobs EXCEPT ![j] = jobs[j]] /\ jobs[j].status = "running"
      BY <1>3, <3>1 DEF TypeOK
    <3> QED BY <1>3, <3>1, <3>2
  <2>3. ASSUME NEW st \in {"succeeded", "failed"},
               \/ MarkSucceeded(w) /\ st = "succeeded"
               \/ MarkFailed(w) /\ st = "failed"
        PROVE  /\ wpc' = [wpc EXCEPT ![w] = "idle"]
               /\ wjob' = [wjob EXCEPT ![w] = NoJob]
               /\ jobs' = [jobs EXCEPT ![j] = [status |-> st, fin |-> 0]]
               /\ [status |-> st, fin |-> 0] \in Record
    <3>1. 0 \in Unset .. AgeCap
      BY MemoryAssumption DEF Unset, AgeCap
    <3>2. [status |-> st, fin |-> 0] \in Record
      BY <3>1 DEF Record, Stored
    <3> QED BY <1>2, <1>3, <2>3, <3>2
            DEF MarkSucceeded, MarkFailed, Finish, WorkerAt, Release
  <2>4. CASE MarkSucceeded(w)
    BY <2>3, <2>4
  <2>5. CASE MarkFailed(w)
    BY <2>3, <2>5
  <2> QED BY <2>1, <2>2, <2>4, <2>5
<1>5. /\ wpc'[w] = to
      /\ \A v \in Workers \ {w} : wpc'[v] = wpc[v] /\ wjob'[v] = wjob[v]
      /\ wjob'[w] = IF to = "idle" THEN NoJob ELSE j
      /\ jobs'[j] = new
      /\ \A k \in Jobs \ {j} : jobs'[k] = jobs[k]
  BY <1>2, <1>4 DEF TypeOK
<1>6. TypeOK'
  BY <1>1, <1>4 DEF TypeOK, WorkerStates
<1>7. ThreadsInv'
  BY <1>1, <1>5, MemoryAssumption DEF ThreadsInv
<1>8. AgesInv'
  BY <1>4, <1>5 DEF AgesInv
<1>9. PillsInv'
  <2>1. \A v \in Workers : wpc'[v] = "exited" => wpc[v] = "exited"
    BY <1>5
  <2> QED BY <1>1, <2>1 DEF PillsInv
<1>10. RecordsMatchThreads'
  <2>1. \A k \in Jobs : InQueue(k)' <=> InQueue(k)
    BY <1>1 DEF InQueue
  <2>2. ASSUME NEW k \in Jobs \ {j}
        PROVE  \A v \in Workers : (HeldBy(v, k)' <=> HeldBy(v, k))
                                   /\ (HeldBy(v, k) => wpc'[v] = wpc[v])
    BY <1>2, <1>5, MemoryAssumption DEF HeldBy
  <2>3. /\ ~InQueue(j)'
        /\ \A v \in Workers \ {w} : ~HeldBy(v, j)'
        /\ HeldBy(w, j)' <=> to # "idle"
        /\ jobs'[j].status # "queued"
        /\ jobs'[j].status = "running" <=> to # "idle"
    BY <1>3, <1>4, <1>5, <2>1, MemoryAssumption DEF HeldBy
  <2>4. ASSUME NEW k \in Jobs
        PROVE  /\ jobs'[k].status = "queued" <=>
                      InQueue(k)' \/ \E v \in Workers : HeldBy(v, k)' /\ wpc'[v] = "taken"
               /\ jobs'[k].status = "running" <=>
                      \E v \in Workers : HeldBy(v, k)' /\ wpc'[v] \in {"running", "ok", "err"}
               /\ \A u, v \in Workers : HeldBy(u, k)' /\ HeldBy(v, k)' => u = v
               /\ InQueue(k)' => \A v \in Workers : ~HeldBy(v, k)'
    <3>1. CASE k = j
      BY <1>5, <2>3, <3>1
    <3>2. CASE k # j
      BY <1>5, <2>1, <2>2, <3>2 DEF RecordsMatchThreads
    <3> QED BY <3>1, <3>2
  <2>5. \A k \in Jobs : \A m, n \in 1 .. Len(queue') :
          queue'[m] = k /\ queue'[n] = k => m = n
    BY <1>1 DEF RecordsMatchThreads
  <2> QED BY <2>4, <2>5 DEF RecordsMatchThreads
<1> QED BY <1>6, <1>7, <1>8, <1>9, <1>10

\* Time passes.
LEMMA TickInv == InductiveInv /\ Tick => InductiveInv'
<1> SUFFICES ASSUME InductiveInv, Tick PROVE InductiveInv'
  OBVIOUS
<1> USE DEF InductiveInv
<1>1. UNCHANGED <<queue, shutdown, wpc, wjob, cpc, pills>>
  BY DEF Tick, workerVars, closerVars
<1>2. \A j \in Jobs : /\ jobs'[j] \in Record
                      /\ jobs'[j].status = jobs[j].status
                      /\ jobs[j].fin = Unset => jobs'[j].fin = Unset
  <2>1. \A a \in Unset .. AgeCap : Older(a) \in Unset .. AgeCap
    BY MemoryAssumption DEF Older, Unset, AgeCap
  <2>2. Older(Unset) = Unset
    BY DEF Older
  <2> QED BY <2>1, <2>2 DEF Tick, TypeOK, Record
<1>3. jobs' \in [Jobs -> Record]
  BY <1>2 DEF Tick
<1> QED BY <1>1, <1>2, <1>3
        DEF TypeOK, ThreadsInv, AgesInv, PillsInv, RecordsMatchThreads, InQueue, HeldBy

\* InductiveInv is what its name says.
THEOREM InductiveInvariant == Spec => []InductiveInv
<1>1. InductiveInv /\ [Next]_vars => InductiveInv'
  <2> SUFFICES ASSUME InductiveInv, [Next]_vars PROVE InductiveInv'
    OBVIOUS
  <2>1. CASE UNCHANGED vars
    BY <2>1 DEF vars, InductiveInv, TypeOK, ThreadsInv, AgesInv, PillsInv,
                RecordsMatchThreads, InQueue, HeldBy
  <2>2. ASSUME NEW w \in Workers, Work(w) PROVE InductiveInv'
    BY <2>2, TakeInv, RunInv DEF Work
  <2> QED BY <2>1, <2>2, SubmitInv, ReadInv, CloseInv, TickInv DEF Next
<1> QED BY InitInv, <1>1, PTL DEF Spec

\* No accepted job is lost, or run by two threads.
THEOREM RecordsMatch == Spec => []RecordsMatchThreads
<1>1. InductiveInv => RecordsMatchThreads
  BY DEF InductiveInv
<1> QED BY InductiveInvariant, <1>1, PTL

\* Whatever was accepted has been run when the threads are gone.
THEOREM AcceptedJobsAreRun == Spec => []DrainedBeforeExit
<1>1. InductiveInv => DrainedBeforeExit
  <2> SUFFICES ASSUME InductiveInv, \A w \in Workers : wpc[w] = "exited",
                      NEW j \in Jobs
               PROVE  jobs[j].status \notin {"queued", "running"}
    BY DEF DrainedBeforeExit
  <2>1. \A w \in Workers : ~HeldBy(w, j)
    BY MemoryAssumption DEF InductiveInv, ThreadsInv, HeldBy
  <2>2. ~InQueue(j)
    BY MemoryAssumption DEF InductiveInv, PillsInv, InQueue
  <2> QED BY <2>1, <2>2 DEF InductiveInv, RecordsMatchThreads
<1> QED BY InductiveInvariant, <1>1, PTL
-----------------------------------------------------------------------------
\* The jobs and the pills are put only while there is room.
QueueBounded == Len(queue) <= MaxQueueSize

\* The queue never holds more than its maxsize.
LEMMA QueueHasRoom == Spec => []QueueBounded
<1>1. Init => QueueBounded
  BY MemoryAssumption DEF Init, QueueBounded
<1>2. InductiveInv /\ QueueBounded /\ [Next]_vars => QueueBounded'
  <2> SUFFICES ASSUME InductiveInv, Len(queue) <= MaxQueueSize, [Next]_vars
               PROVE  Len(queue') <= MaxQueueSize
    BY DEF QueueBounded
  <2>1. ASSUME NEW e \in Jobs \cup {Pill}, queue' = Append(queue, e), ~Full
        PROVE  Len(queue') <= MaxQueueSize
    BY <2>1, Appended, MemoryAssumption DEF Full, InductiveInv
  <2>2. CASE Submit
    <3>1. \/ queue' = queue
          \/ ~Full /\ \E j \in Jobs : queue' = Append(queue, j)
      BY <2>2 DEF Submit
    <3> QED BY <2>1, <3>1
  <2>3. ASSUME NEW c \in Closers, ShutdownBegin(c) \/ Close(c)
        PROVE  Len(queue') <= MaxQueueSize
    <3>1. \/ queue' = queue
          \/ ~Full /\ queue' = Append(queue, Pill)
      BY <2>3 DEF ShutdownBegin, Close, ShutdownPut, ShutdownJoin
    <3> QED BY <2>1, <3>1
  <2>4. ASSUME NEW w \in Workers, Take(w)
        PROVE  Len(queue') <= MaxQueueSize
    <3>1. queue \in Seq(Jobs \cup {Pill}) /\ queue # <<>> /\ queue' = Tail(queue)
      BY <2>4 DEF Take, InductiveInv, TypeOK
    <3>2. Len(queue') = Len(queue) - 1 /\ Len(queue) \in Nat
      BY <3>1
    <3> QED BY <3>2, MemoryAssumption
  <2>5. ASSUME NEW w \in Workers, Work(w)
        PROVE  Len(queue') <= MaxQueueSize
    <3>1. Take(w) \/ queue' = queue
      BY <2>5 DEF Work, MarkRunning, Execute, MarkSucceeded, MarkFailed, Finish
    <3> QED BY <2>4, <3>1
  <2>6. CASE ReadJobs \/ Tick \/ UNCHANGED vars
    BY <2>6 DEF ReadJobs, Tick, vars
  <2> QED BY <2>2, <2>3, <2>5, <2>6 DEF Next
<1> QED BY <1>1, <1>2, InductiveInvariant, PTL DEF Spec

\* The jobs not yet finished are bounded by the places of the queue and the
\* threads: each of them is in one or with one.
THEOREM JobsAreBounded == Spec => []ActiveBounded
<1>1. InductiveInv /\ QueueBounded => ActiveBounded
  <2> SUFFICES ASSUME InductiveInv, Len(queue) <= MaxQueueSize PROVE ActiveBounded
    BY DEF QueueBounded
  <2> DEFINE Active == {j \in Jobs : jobs[j].status \in {"queued", "running"}}
             Waiting == {queue[i] : i \in 1 .. Len(queue)}
             Held == {wjob[w] : w \in Workers}
  <2>1. Len(queue) \in Nat /\ MaxQueueSize \in Nat
    BY MemoryAssumption DEF InductiveInv, TypeOK
  <2>2. IsFiniteSet(Waiting) /\ Cardinality(Waiting) <= Len(queue)
    <3> DEFINE f == [i \in 1 .. Len(queue) |-> queue[i]]
    <3>1. f \in Surjection(1 .. Len(queue), Waiting)
      BY DEF Surjection
    <3>2. IsFiniteSet(1 .. Len(queue)) /\ Cardinality(1 .. Len(queue)) = Len(queue)
      <4> HIDE DEF f, Waiting
      <4>1. 1 \in Int /\ Len(queue) \in Int
        BY <2>1
      <4>2. /\ IsFiniteSet(1 .. Len(queue))
            /\ Cardinality(1 .. Len(queue)) = IF 1 > Len(queue) THEN 0
                                               ELSE Len(queue) - 1 + 1
        BY <4>1, FS_Interval, Zenon
      <4> QED BY <2>1, <4>2
    <3> HIDE DEF f, Waiting
    <3> QED BY <3>1, <3>2, FS_Surjection
  <2>3. IsFiniteSet(Held) /\ Cardinality(Held) <= Cardinality(Workers)
    <3> DEFINE f == [w \in Workers |-> wjob[w]]
    <3>1. f \in Surjection(Workers, Held)
      BY DEF Surjection
    <3> HIDE DEF f, Held
    <3> QED BY <3>1, MemoryAssumption, FS_Surjection
  <2>4. Active \subseteq Waiting \cup Held
    <3> SUFFICES ASSUME NEW j \in Jobs, jobs[j].status \in {"queued", "running"}
                 PROVE  j \in Waiting \cup Held
      OBVIOUS
    <3> QED BY DEF InductiveInv, RecordsMatchThreads, InQueue, HeldBy
  <2> HIDE DEF Active, Waiting, Held
  <2>5. /\ IsFiniteSet(Waiting \cup Held)
        /\ Cardinality(Waiting \cup Held) <= Cardinality(Waiting) + Cardinality(Held)
    <3>1. IsFiniteSet(Waiting \cap Held)
      BY <2>2, FS_Subset
    <3>2. Cardinality(Waiting \cap Held) \in Nat
      BY <3>1, FS_CardinalityType
    <3>3. Cardinality(Waiting) \in Nat /\ Cardinality(Held) \in Nat
      BY <2>2, <2>3, FS_CardinalityType
    <3>4. /\ IsFiniteSet(Waiting \cup Held)
          /\ Cardinality(Waiting \cup Held)
               = Cardinality(Waiting) + Cardinality(Held) - Cardinality(Waiting \cap Held)
      BY <2>2, <2>3, FS_Union, Zenon
    <3> QED BY <3>2, <3>3, <3>4
  <2>6. Cardinality(Active) <= Cardinality(Waiting \cup Held)
    BY <2>4, <2>5, FS_Subset
  <2>7. /\ Cardinality(Active) \in Nat
        /\ Cardinality(Waiting) \in Nat
        /\ Cardinality(Held) \in Nat
        /\ Cardinality(Waiting \cup Held) \in Nat
        /\ Cardinality(Workers) \in Nat
    <3>1. IsFiniteSet(Active)
      BY <2>4, <2>5, FS_Subset
    <3> QED BY <3>1, <2>2, <2>3, <2>5, MemoryAssumption, FS_CardinalityType
  <2>8. Cardinality(Active) <= MaxQueueSize + Cardinality(Workers)
    BY <2>1, <2>2, <2>3, <2>5, <2>6, <2>7
  <2> QED BY <2>8 DEF ActiveBounded, Active
<1> QED BY <1>1, InductiveInvariant, QueueHasRoom, PTL
-----------------------------------------------------------------------------
\* What a client sees of one job.
LEMMA ViewOfRecord ==
    /\ ClientView = [j \in Jobs |-> ClientView[j]]
    /\ ClientView' = [j \in Jobs |-> ClientView'[j]]
    /\ \A j \in Jobs :
         /\ ClientView[j] = IF jobs[j].status = "deleted" THEN "expired"
                                                          ELSE jobs[j].status
         /\ ClientView'[j] = IF jobs'[j].status = "deleted" THEN "expired"
                                                            ELSE jobs'[j].status
BY DEF ClientView

\* A cleanup, alone or with the acceptance of a new job, is seen as an expiry
\* of finished jobs.
LEMMA CleanupSeen ==
    ASSUME InductiveInv, Submit \/ ReadJobs
    PROVE  Promise!Next
<1> DEFINE S == {j \in Jobs : /\ jobs[j].status \in {"succeeded", "failed"}
                              /\ Cleaned[j].status = "deleted"}
<1>1. /\ Cleaned \in [Jobs -> Record]
      /\ \A j \in Jobs :
            \/ Cleaned[j] = jobs[j]
            \/ /\ jobs[j].status \notin {"none", "queued", "running"}
               /\ Cleaned[j].status = "deleted"
  BY CleanedRecords DEF InductiveInv
<1>2. \A j \in Jobs : jobs[j].status \in Stored \cup {"none", "deleted"}
  BY DEF InductiveInv, TypeOK, Record
<1>3. \A j \in S : ClientView[j] \in {"succeeded", "failed"}
  BY ViewOfRecord
<1>4. \A j \in Jobs : (IF Cleaned[j].status = "deleted" THEN "expired"
                                                       ELSE Cleaned[j].status)
                        = IF j \in S THEN "expired" ELSE ClientView[j]
  BY <1>1, <1>2, ViewOfRecord DEF Stored
<1>5. S \in SUBSET Jobs
  OBVIOUS
<1>6. CASE jobs' = Cleaned
  <2> HIDE DEF S
  <2>1. ClientView' = [j \in Jobs |-> IF j \in S THEN "expired" ELSE ClientView[j]]
    BY <1>4, <1>6, ViewOfRecord
  <2>2. Promise!Expire(S)
    BY <1>3, <2>1 DEF Promise!Expire, Promise!MoveAll
  <2> QED BY <1>5, <2>2 DEF Promise!Next
<1>7. ASSUME NEW j \in Jobs, jobs[j].status = "none",
             jobs' = [Cleaned EXCEPT ![j].status = "queued"]
      PROVE  Promise!Next
  <2>1. jobs'[j].status = "queued" /\ \A k \in Jobs \ {j} : jobs'[k] = Cleaned[k]
    BY <1>1, <1>7 DEF Record
  <2>2. ClientView[j] = "none" /\ ClientView'[j] = "queued"
    BY <1>7, <2>1, ViewOfRecord
  <2> HIDE DEF S
  <2>3. \A k \in Jobs \ {j} : ClientView'[k] = IF k \in S THEN "expired"
                                                          ELSE ClientView[k]
    BY <1>4, <2>1, ViewOfRecord
  <2>4. ClientView' = [k \in Jobs |-> IF k = j THEN "queued"
                                     ELSE IF k \in S THEN "expired"
                                     ELSE ClientView[k]]
    BY <2>2, <2>3, ViewOfRecord
  <2>5. Promise!Accept(j, S)
    BY <1>3, <2>2, <2>4 DEF Promise!Accept
  <2> QED BY <1>5, <2>5 DEF Promise!Next
<1>8. \/ jobs' = Cleaned
      \/ \E j \in Jobs : /\ jobs[j].status = "none"
                         /\ jobs' = [Cleaned EXCEPT ![j].status = "queued"]
  BY DEF Submit, ReadJobs
<1> QED BY <1>6, <1>7, <1>8

\* A thread's marks are seen as the moves of the job it holds.
LEMMA ThreadSeen ==
    ASSUME InductiveInv, NEW w \in Workers, Work(w)
    PROVE  Promise!Next \/ ClientView' = ClientView
<1>1. CASE Take(w) \/ Execute(w)
  BY <1>1 DEF Take, Execute, ClientView
<1>2. CASE MarkRunning(w) \/ MarkSucceeded(w) \/ MarkFailed(w)
  <2>1. wpc[w] \in {"taken", "running", "ok", "err"}
    BY <1>2 DEF MarkRunning, MarkSucceeded, MarkFailed, Finish, WorkerAt
  <2>2. PICK j \in Jobs : j = wjob[w]
    BY <2>1 DEF InductiveInv, TypeOK, ThreadsInv
  <2>3. /\ jobs[j].status = IF wpc[w] = "taken" THEN "queued" ELSE "running"
        /\ jobs[j] \in Record
        /\ Kept(j)
    BY <2>1, <2>2 DEF InductiveInv, RecordsMatchThreads, HeldBy, TypeOK, Kept, Stored
  <2>4. PICK to \in {"running", "succeeded", "failed"} :
          /\ jobs'[j].status = to
          /\ \A k \in Jobs \ {j} : jobs'[k] = jobs[k]
          /\ jobs[j].status = IF to = "running" THEN "queued" ELSE "running"
    <3>1. jobs \in [Jobs -> Record]
      BY DEF InductiveInv, TypeOK
    <3>2. CASE MarkRunning(w)
      <4>1. jobs' = [jobs EXCEPT ![j].status = "running"] /\ wpc[w] = "taken"
        BY <2>2, <2>3, <3>2 DEF MarkRunning
      <4>2. jobs'[j].status = "running" /\ \A k \in Jobs \ {j} : jobs'[k] = jobs[k]
        BY <2>3, <3>1, <4>1 DEF Record
      <4> QED BY <2>3, <4>1, <4>2
    <3>3. CASE MarkSucceeded(w)
      <4>1. /\ jobs' = [jobs EXCEPT ![j] = [status |-> "succeeded", fin |-> 0]]
            /\ wpc[w] = "ok"
        BY <2>2, <2>3, <3>3 DEF MarkSucceeded, Finish, WorkerAt
      <4> QED BY <2>3, <3>1, <4>1
    <3>4. CASE MarkFailed(w)
      <4>1. /\ jobs' = [jobs EXCEPT ![j] = [status |-> "failed", fin |-> 0]]
            /\ wpc[w] = "err"
        BY <2>2, <2>3, <3>4 DEF MarkFailed, Finish, WorkerAt
      <4> QED BY <2>3, <3>1, <4>1
    <3> QED BY <1>2, <3>2, <3>3, <3>4
  <2>5. /\ ClientView[j] = IF to = "running" THEN "queued" ELSE "running"
        /\ ClientView'[j] = to
        /\ \A k \in Jobs \ {j} : ClientView'[k] = ClientView[k]
    BY <2>4, ViewOfRecord
  <2>6. ClientView' = [ClientView EXCEPT ![j] = to]
    BY <2>5, ViewOfRecord
  <2>7. CASE to = "running"
    BY <2>5, <2>6, <2>7 DEF Promise!Next, Promise!Start, Promise!Move
  <2>8. CASE to = "succeeded"
    BY <2>5, <2>6, <2>8 DEF Promise!Next, Promise!Succeed, Promise!Move
  <2>9. CASE to = "failed"
    <3>1. ClientView' = [k \in Jobs |-> IF k \in {j} THEN "failed" ELSE ClientView[k]]
      BY <2>5, <2>9, ViewOfRecord
    <3>2. Promise!Fail({j})
      BY <2>5, <2>9, <3>1 DEF Promise!Fail, Promise!MoveAll
    <3> QED BY <3>2 DEF Promise!Next
  <2> QED BY <2>7, <2>8, <2>9
<1> QED BY <1>1, <1>2 DEF Work

\* The backend without Redis keeps the promise of the one with it: the system
\* implements JobPromise under ClientView.
THEOREM PromiseIsKept == Spec => KeepsPromise
<1>1. Init => Promise!Init
  BY DEF Init, Promise!Init, ClientView, NoRecord
<1>2. InductiveInv /\ [Next]_vars => [Promise!Next]_ClientView
  <2> SUFFICES ASSUME InductiveInv, [Next]_vars
               PROVE  Promise!Next \/ ClientView' = ClientView
    OBVIOUS
  <2>1. ASSUME NEW c \in Closers, ShutdownBegin(c) \/ Close(c)
        PROVE  ClientView' = ClientView
    BY <2>1 DEF ShutdownBegin, Close, ShutdownPut, ShutdownJoin, ClientView
  <2>2. CASE Tick
    <3>1. \A j \in Jobs : jobs'[j].status = jobs[j].status
      BY <2>2 DEF Tick, InductiveInv, TypeOK, Record
    <3> QED BY <3>1 DEF ClientView
  <2>3. CASE UNCHANGED vars
    BY <2>3 DEF vars, ClientView
  <2> QED BY <2>1, <2>2, <2>3, CleanupSeen, ThreadSeen DEF Next
<1> QED BY <1>1, <1>2, InductiveInvariant, PTL DEF Spec, KeepsPromise, Promise!Spec
=============================================================================
