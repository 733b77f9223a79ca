------------------------- MODULE WorkflowJobsRQProofs -------------------------
(***************************************************************************)
(* Proofs about WorkflowJobsRQ: for any number of jobs and workers, and    *)
(* any recoveries, cleanups, deaths and lost answers between their steps,  *)
(* the row of a job that nobody gave up tells one story.                   *)
(*                                                                         *)
(* The invariant is said of one job at a time.  Most steps leave a job as  *)
(* it is, or do to it what a recovery, a cleanup or a death may do at any  *)
(* moment (Undisturbed); the others are its own submission and its run.    *)
(***************************************************************************)
EXTENDS WorkflowJobsRQ, TLAPS, FiniteSetTheorems

\* Redis has the id in one place at most.
Once(j) == \A i, k \in 1 .. Len(redis) : redis[i] = j /\ redis[k] = j => i = k

\* The places where a job is waiting to be run.
Waiting(j) ==
    \/ InRedis(j)
    \/ apc = "enqueue" /\ ajob = j
    \/ \E w \in Workers : wjob[w] = j /\ wpc[w] \in {"load", "mark"}

\* An id goes from its submitter to Redis, to a worker and into the registry
\* that remembers it.
Delivery(j) ==
    /\ Once(j)
    /\ \A v, w \in Workers : wjob[v] = j /\ wjob[w] = j => v = w
    /\ \A w \in Workers : wjob[w] = j => j \in started
    /\ InRedis(j) => j \notin started
    /\ apc = "enqueue" /\ ajob = j => ~InRedis(j) /\ j \notin started
    /\ rows[j].status = "none" => ~InRedis(j) /\ j \notin started /\ ajob # j

\* What its row says on the way.
RowTells(j) ==
    /\ j \notin givenUp =>
        /\ rows[j].fin <=> rows[j].status \in Finished
        /\ Waiting(j) => rows[j].status = "queued"
        /\ \A w \in Workers : RunBy(w, j) => rows[j].status = "running"
    /\ \A w \in Workers : RunBy(w, j) =>
        rows[j].status \in {"running", "failed", "deleted"}

\* Who is at work has a job.
Hands ==
    /\ \A w \in Workers : wjob[w] = NoJob <=> wpc[w] \in {"down", "recover", "idle"}
    /\ ajob = NoJob <=> apc \in {"down", "recover", "idle", "create"}

WInv == TypeOK /\ Hands /\ \A j \in Jobs : Delivery(j) /\ RowTells(j)

\* A job that a step touches no more than a recovery, a cleanup or a death
\* would.
Undisturbed(k) ==
    /\ \/ rows'[k].status = rows[k].status /\ rows'[k].fin = rows[k].fin
       \/ rows[k].fin /\ rows'[k] = Gone
       \/ /\ ~Absent(rows[k]) /\ k \in givenUp'
          /\ rows'[k].status = "failed" /\ rows'[k].fin
    /\ k \in givenUp => k \in givenUp'
    /\ InRedis(k)' => InRedis(k)
    /\ Once(k)'
    /\ k \in started' => k \in started
    /\ \A w \in Workers : wjob'[w] = k =>
        /\ wjob[w] = k /\ k \in started'
        /\ \/ wpc'[w] = wpc[w]
           \/ wpc[w] = "load" /\ wpc'[w] = "mark"
           \/ wpc[w] = "run" /\ wpc'[w] \in {"ok", "err"}
    /\ ajob' = k => ajob = k /\ (apc' = "enqueue" => apc = "enqueue")

\* Such a job keeps its part of the invariant.
LEMMA OtherJob ==
    ASSUME NEW k \in Jobs, Delivery(k), RowTells(k), Undisturbed(k)
    PROVE  Delivery(k)' /\ RowTells(k)'
<1>1. Waiting(k)' => Waiting(k)
  BY DEF Waiting, Undisturbed
<1>2. \A w \in Workers : RunBy(w, k)' => RunBy(w, k)
  BY DEF RunBy, Undisturbed
<1>3. rows'[k].status = "none" => rows[k].status = "none"
  BY DEF Undisturbed, Gone, NoRow
<1>4. Delivery(k)'
  <2>1. /\ Once(k)'
        /\ \A v, w \in Workers : wjob'[v] = k /\ wjob'[w] = k => v = w
        /\ \A w \in Workers : wjob'[w] = k => k \in started'
    BY DEF Delivery, Undisturbed
  <2>2. InRedis(k)' => k \notin started'
    BY DEF Delivery, Undisturbed
  <2>3. apc' = "enqueue" /\ ajob' = k => ~InRedis(k)' /\ k \notin started'
    BY DEF Delivery, Undisturbed
  <2>4. rows'[k].status = "none" => ~InRedis(k)' /\ k \notin started' /\ ajob' # k
    BY <1>3 DEF Delivery, Undisturbed
  <2> QED BY <2>1, <2>2, <2>3, <2>4 DEF Delivery
<1>5. CASE rows'[k].status = rows[k].status /\ rows'[k].fin = rows[k].fin
  BY <1>1, <1>2, <1>4, <1>5 DEF RowTells, Undisturbed
<1>6. CASE rows[k].fin /\ rows'[k] = Gone
  <2>1. rows'[k].status = "deleted" /\ rows'[k].fin = FALSE
    BY <1>6 DEF Gone, NoRow
  <2> QED BY <1>1, <1>2, <1>4, <1>6, <2>1 DEF RowTells, Undisturbed, Finished
<1>7. CASE /\ ~Absent(rows[k]) /\ k \in givenUp'
           /\ rows'[k].status = "failed" /\ rows'[k].fin
  BY <1>4, <1>7 DEF RowTells
<1> QED BY <1>5, <1>6, <1>7 DEF Undisturbed
-----------------------------------------------------------------------------
\* Nothing has been submitted at the start.
LEMMA InitInv == Init => WInv
<1> SUFFICES ASSUME Init PROVE WInv
  OBVIOUS
<1>1. TypeOK
  <2>1. NoRow \in Row
    BY DEF NoRow, Row, Ages
  <2>2. redis \in Seq(Jobs)
    BY DEF Init
  <2> QED BY <2>1, <2>2 DEF Init, TypeOK, Processes
<1>2. Hands
  BY DEF Init, Hands
<1>3. ASSUME NEW j \in Jobs PROVE Delivery(j) /\ RowTells(j)
  <2>1. /\ ~InRedis(j) /\ Once(j) /\ ajob # j /\ j \notin started
        /\ \A w \in Workers : wjob[w] # j
        /\ rows[j].status = "none" /\ rows[j].fin = FALSE
    BY WorkflowAssumption DEF Init, InRedis, Once, NoRow
  <2> QED BY <2>1 DEF Delivery, RowTells, Waiting, RunBy, Finished
<1> QED BY <1>1, <1>2, <1>3 DEF WInv

\* What a cleanup leaves.
LEMMA TablesCleaned ==
    ASSUME TypeOK, NEW table \in CleanedTables
    PROVE  /\ table \in [Jobs -> Row]
           /\ \A k \in Jobs : table[k] = rows[k] \/ (rows[k].fin /\ table[k] = Gone)
<1>1. Gone \in Row
  BY DEF Gone, NoRow, Row, Ages
<1> QED BY <1>1 DEF CleanedTables, TypeOK

\* A queue that only gets shorter, or keeps as it is.
LEMMA SameRedis ==
    ASSUME UNCHANGED redis, NEW k \in Jobs, Delivery(k)
    PROVE  (InRedis(k)' <=> InRedis(k)) /\ Once(k)'
BY DEF InRedis, Once, Delivery

\* A read, or any other cleanup that comes with a step of nobody.
LEMMA CleanupStep ==
    ASSUME WInv, rows' \in CleanedTables,
           UNCHANGED <<redis, started, givenUp, ajob, wpc, wjob, selected>>,
           apc' = "enqueue" => apc = "enqueue"
    PROVE  rows' \in [Jobs -> Row] /\ \A k \in Jobs : Delivery(k)' /\ RowTells(k)'
<1>1. rows' \in [Jobs -> Row]
  BY TablesCleaned DEF WInv
<1>2. ASSUME NEW k \in Jobs PROVE Delivery(k)' /\ RowTells(k)'
  <2>1. Delivery(k) /\ RowTells(k)
    BY DEF WInv
  <2>2. rows'[k] = rows[k] \/ (rows[k].fin /\ rows'[k] = Gone)
    BY TablesCleaned DEF WInv
  <2>3. Undisturbed(k)
    BY <2>1, <2>2, SameRedis DEF Undisturbed, Delivery
  <2> QED BY <2>1, <2>3, OtherJob
<1> QED BY <1>1, <1>2

\* What a recovery leaves.
LEMMA StaleFailed ==
    ASSUME TypeOK, NEW ids \in SUBSET Jobs, rows' = FailedStale(ids), givenUp' = GivenUp(ids)
    PROVE  /\ rows' \in [Jobs -> Row] /\ givenUp' \in SUBSET Jobs
           /\ \A k \in Jobs :
                /\ k \in givenUp => k \in givenUp'
                /\ \/ rows'[k] = rows[k]
                   \/ /\ ~Absent(rows[k]) /\ k \in givenUp'
                      /\ rows'[k].status = "failed" /\ rows'[k].fin
<1>1. ASSUME NEW k \in Jobs
      PROVE  /\ rows'[k] \in Row
             /\ k \in givenUp => k \in givenUp'
             /\ \/ rows'[k] = rows[k]
                \/ /\ ~Absent(rows[k]) /\ k \in givenUp'
                   /\ rows'[k].status = "failed" /\ rows'[k].fin
  <2>1. rows[k] \in Row
    BY DEF TypeOK
  <2>2. CASE k \in ids /\ ~Absent(rows[k])
    <3>1. rows'[k] = [rows[k] EXCEPT !.status = "failed", !.age = "fresh", !.fin = TRUE]
      BY <2>2 DEF FailedStale
    <3>2. k \in givenUp'
      BY <2>2 DEF GivenUp
    <3> QED BY <2>1, <2>2, <3>1, <3>2 DEF Row, Ages, Finished
  <2>3. CASE ~(k \in ids /\ ~Absent(rows[k]))
    BY <2>1, <2>3 DEF FailedStale, GivenUp
  <2> QED BY <2>2, <2>3
<1>2. DOMAIN rows' = Jobs /\ rows' = [k \in Jobs |-> rows'[k]]
  BY DEF FailedStale
<1>3. rows' \in [Jobs -> Row]
  BY ONLY <1>1, <1>2
<1>4. givenUp' \in SUBSET Jobs
  BY DEF GivenUp, TypeOK
<1> QED BY <1>1, <1>3, <1>4

\* A recovery, in whichever process, or the end of a refused submission.
LEMMA GiveUpStep ==
    ASSUME WInv, NEW ids \in SUBSET Jobs, rows' = FailedStale(ids),
           givenUp' = GivenUp(ids),
           UNCHANGED <<redis, started, wjob>>,
           \A w \in Workers : wjob[w] # NoJob => wpc'[w] = wpc[w],
           ajob' \in {ajob, NoJob}, apc' = "enqueue" => apc = "enqueue"
    PROVE  \A k \in Jobs : Delivery(k)' /\ RowTells(k)'
<1>1. ASSUME NEW k \in Jobs PROVE Delivery(k)' /\ RowTells(k)'
  <2>1. Delivery(k) /\ RowTells(k) /\ k # NoJob
    BY WorkflowAssumption DEF WInv
  <2>2. /\ k \in givenUp => k \in givenUp'
        /\ \/ rows'[k] = rows[k]
           \/ /\ ~Absent(rows[k]) /\ k \in givenUp'
              /\ rows'[k].status = "failed" /\ rows'[k].fin
    BY StaleFailed DEF WInv
  <2>3. Undisturbed(k)
    BY <2>1, <2>2, SameRedis DEF Undisturbed, Delivery
  <2> QED BY <2>1, <2>3, OtherJob
<1> QED BY <1>1

\* The steps of the API that no job of its own is part of.
LEMMA ApiInv ==
    ASSUME WInv, \/ ApiStart \/ ApiRecover \/ SubmitCheck \/ SubmitMarkFailed
                 \/ SubmitReply \/ ApiDies \/ ReadJobs
    PROVE  WInv'
<1> USE DEF api, workers
<1>1. CASE ApiStart \/ ApiDies
  <2>1. /\ UNCHANGED <<rows, redis, started, givenUp, wpc, wjob, probe>>
        /\ ajob' \in {ajob, NoJob} /\ apc' \in {"recover", "down"}
        /\ (ajob' = NoJob <=> apc' \in {"down", "recover", "idle", "create"})
    BY <1>1 DEF ApiStart, ApiDies, WInv, Hands
  <2>2. selected' \in [Processes -> SUBSET Jobs]
    BY <1>1 DEF ApiStart, ApiDies, WInv, TypeOK, StaleIds, Processes
  <2>3. TypeOK' /\ Hands'
    BY <2>1, <2>2 DEF WInv, TypeOK, Hands
  <2>4. ASSUME NEW k \in Jobs PROVE Delivery(k)' /\ RowTells(k)'
    <3>1. Delivery(k) /\ RowTells(k) /\ k # NoJob
      BY WorkflowAssumption DEF WInv
    <3>2. Undisturbed(k)
      BY <2>1, <3>1, SameRedis DEF Undisturbed, Delivery
    <3> QED BY <3>1, <3>2, OtherJob
  <2> QED BY <2>3, <2>4 DEF WInv
<1>2. CASE ApiRecover
  <2>1. /\ apc = "recover" /\ apc' = "idle" /\ rows' = FailedStale(selected["api"])
        /\ givenUp' = GivenUp(selected["api"])
        /\ selected' = [selected EXCEPT !["api"] = {}]
        /\ UNCHANGED <<redis, started, ajob, wpc, wjob, probe>>
    BY <1>2 DEF ApiRecover
  <2>2. selected["api"] \in SUBSET Jobs
    BY DEF WInv, TypeOK, Processes
  <2>3. rows' \in [Jobs -> Row] /\ givenUp' \in SUBSET Jobs
    BY <2>1, <2>2, StaleFailed DEF WInv
  <2>4. TypeOK' /\ Hands'
    BY <2>1, <2>3 DEF WInv, TypeOK, Hands
  <2>5. \A k \in Jobs : Delivery(k)' /\ RowTells(k)'
    BY <2>1, <2>2, GiveUpStep
  <2> QED BY <2>4, <2>5 DEF WInv
<1>3. CASE SubmitMarkFailed
  <2>1. /\ apc = "refuse" /\ apc' = "idle" /\ ajob' = NoJob
        /\ rows' = MarkedFailed(ajob) /\ givenUp' = GivenUp({ajob})
        /\ UNCHANGED <<redis, started, wpc, wjob, selected, probe>>
    BY <1>3 DEF SubmitMarkFailed
  <2>2. ajob \in Jobs
    BY <2>1 DEF WInv, TypeOK, Hands
  <2>3. rows' = FailedStale({ajob})
    BY <2>1, <2>2 DEF MarkedFailed, Update, FailedStale, WInv, TypeOK
  <2>4. rows' \in [Jobs -> Row] /\ givenUp' \in SUBSET Jobs
    BY <2>1, <2>2, <2>3, StaleFailed DEF WInv
  <2>5. TypeOK' /\ Hands'
    BY <2>1, <2>4 DEF WInv, TypeOK, Hands
  <2>6. \A k \in Jobs : Delivery(k)' /\ RowTells(k)'
    BY <2>1, <2>2, <2>3, GiveUpStep
  <2> QED BY <2>5, <2>6 DEF WInv
<1>4. CASE SubmitCheck \/ ReadJobs
  <2>1. /\ rows' \in CleanedTables
        /\ UNCHANGED <<redis, started, givenUp, ajob, wpc, wjob, selected, probe>>
        /\ apc' = apc \/ (apc = "idle" /\ apc' \in {"idle", "create"})
    BY <1>4 DEF SubmitCheck, ReadJobs
  <2>2. TypeOK' /\ Hands'
    BY <2>1, CleanupStep DEF WInv, TypeOK, Hands
  <2>3. \A k \in Jobs : Delivery(k)' /\ RowTells(k)'
    BY <2>1, CleanupStep
  <2> QED BY <2>2, <2>3 DEF WInv
<1>5. CASE SubmitReply
  <2>1. /\ rows' \in CleanedTables /\ apc' = "idle" /\ ajob' = NoJob
        /\ UNCHANGED <<redis, started, givenUp, wpc, wjob, selected, probe>>
    BY <1>5 DEF SubmitReply
  <2>2. rows' \in [Jobs -> Row]
    BY <2>1, TablesCleaned DEF WInv
  <2>3. TypeOK' /\ Hands'
    BY <2>1, <2>2 DEF WInv, TypeOK, Hands
  <2>4. ASSUME NEW k \in Jobs PROVE Delivery(k)' /\ RowTells(k)'
    <3>1. Delivery(k) /\ RowTells(k) /\ k # NoJob
      BY WorkflowAssumption DEF WInv
    <3>2. rows'[k] = rows[k] \/ (rows[k].fin /\ rows'[k] = Gone)
      BY <2>1, TablesCleaned DEF WInv
    <3>3. Undisturbed(k)
      BY <2>1, <3>1, <3>2, SameRedis DEF Undisturbed, Delivery
    <3> QED BY <3>1, <3>3, OtherJob
  <2> QED BY <2>3, <2>4 DEF WInv
<1> QED BY <1>1, <1>2, <1>3, <1>4, <1>5

\* A job gets its row, before Redis or a worker knows of it.
LEMMA CreateInv == ASSUME WInv, NEW j \in Jobs, SubmitCreate(j) PROVE WInv'
<1>1. PICK table \in CleanedTables : rows' = Created(table, j)
  BY DEF SubmitCreate
<1>2. /\ apc = "create" /\ apc' = "enqueue" /\ ajob' = j /\ rows[j].status = "none"
      /\ UNCHANGED <<redis, started, givenUp, wpc, wjob, selected, probe>>
  BY DEF SubmitCreate, workers
<1>3. table \in [Jobs -> Row]
      /\ \A k \in Jobs : table[k] = rows[k] \/ (rows[k].fin /\ table[k] = Gone)
  BY TablesCleaned DEF WInv
<1>4. /\ rows' \in [Jobs -> Row]
      /\ rows'[j].status = "queued" /\ rows'[j].fin = FALSE
      /\ \A k \in Jobs \ {j} : rows'[k] = table[k]
  BY <1>1, <1>3 DEF Created, NoRow, Row, Ages, Active
<1>5. TypeOK' /\ Hands'
  BY <1>2, <1>4, WorkflowAssumption DEF WInv, TypeOK, Hands
<1>6. ASSUME NEW k \in Jobs \ {j} PROVE Delivery(k)' /\ RowTells(k)'
  <2>1. Delivery(k) /\ RowTells(k)
    BY DEF WInv
  <2>2. Undisturbed(k)
    BY <1>2, <1>3, <1>4, <2>1, SameRedis DEF Undisturbed, Delivery
  <2> QED BY <2>1, <2>2, OtherJob
<1>7. Delivery(j)' /\ RowTells(j)'
  <2>1. Delivery(j)
    BY DEF WInv
  <2>2. ~InRedis(j)' /\ Once(j)' /\ j \notin started' /\ \A w \in Workers : wjob'[w] # j
    BY <1>2, <2>1, SameRedis DEF Delivery
  <2> QED BY <1>4, <2>2 DEF Delivery, RowTells, RunBy, Finished
<1> QED BY <1>5, <1>6, <1>7 DEF WInv

\* Redis takes the job, or it may not have: it has not had it before.
LEMMA EnqueueInv == ASSUME WInv, SubmitEnqueue \/ SubmitEnqueueError PROVE WInv'
<1>1. /\ apc = "enqueue" /\ apc' \in {"reply", "refuse"}
      /\ redis' \in {redis, Append(redis, ajob)}
      /\ UNCHANGED <<rows, started, givenUp, ajob, wpc, wjob, selected, probe>>
  BY DEF SubmitEnqueue, SubmitEnqueueError, workers
<1>2. PICK j \in Jobs : j = ajob
  BY <1>1 DEF WInv, TypeOK, Hands
<1>3. /\ redis' \in Seq(Jobs) /\ Len(redis) \in Nat
      /\ \/ redis' = redis
         \/ /\ Len(redis') = Len(redis) + 1
            /\ \A i \in 1 .. Len(redis) : redis'[i] = redis[i]
            /\ redis'[Len(redis) + 1] = j
            /\ \A i \in 1 .. Len(redis') : i \in 1 .. Len(redis) \/ i = Len(redis) + 1
  <2>1. redis \in Seq(Jobs) /\ Len(redis) \in Nat
    BY DEF WInv, TypeOK
  <2>2. CASE redis' = redis
    BY <2>1, <2>2
  <2>3. CASE redis' = Append(redis, j)
    BY <2>1, <2>3
  <2> QED BY <1>1, <1>2, <2>2, <2>3
<1>4. TypeOK' /\ Hands'
  BY <1>1, <1>3 DEF WInv, TypeOK, Hands
<1>5. ASSUME NEW k \in Jobs \ {j} PROVE Delivery(k)' /\ RowTells(k)'
  <2>1. Delivery(k) /\ RowTells(k)
    BY DEF WInv
  <2>2. \A i \in 1 .. Len(redis') : redis'[i] = k => i \in 1 .. Len(redis) /\ redis[i] = k
    BY <1>3
  <2>3. (InRedis(k)' => InRedis(k)) /\ Once(k)'
    BY <2>1, <2>2 DEF InRedis, Once, Delivery
  <2>4. Undisturbed(k)
    BY <1>1, <2>1, <2>3 DEF Undisturbed, Delivery
  <2> QED BY <2>1, <2>4, OtherJob
<1>6. Delivery(j)' /\ RowTells(j)'
  <2>1. Delivery(j) /\ RowTells(j)
    BY DEF WInv
  <2>2. ~InRedis(j) /\ j \notin started /\ \A w \in Workers : wjob[w] # j
    BY <1>1, <1>2, <2>1 DEF Delivery
  <2>3. Once(j)'
    <3>1. \A i \in 1 .. Len(redis') : redis'[i] = j => i = Len(redis) + 1
      BY <1>3, <2>2 DEF InRedis
    <3> QED BY <3>1 DEF Once
  <2>4. /\ rows[j].status # "none"
        /\ j \notin givenUp => rows[j].status = "queued" /\ rows[j].fin = FALSE
    BY <1>1, <1>2, <2>1 DEF Delivery, RowTells, Waiting, Finished, WInv, TypeOK, Row
  <2>5. Delivery(j)'
    BY <1>1, <2>2, <2>3, <2>4 DEF Delivery
  <2>6. RowTells(j)'
    BY <1>1, <2>2, <2>4 DEF RowTells, RunBy, Finished
  <2> QED BY <2>5, <2>6
<1> QED BY <1>4, <1>5, <1>6 DEF WInv
-----------------------------------------------------------------------------
\* Starts, deaths and recoveries of workers, and RQ's tidying: no job is begun
\* or ended by them.
LEMMA WorkerLifeInv ==
    ASSUME WInv, \/ \E w \in Workers : \/ WorkerStart(w) \/ WorkerRecover(w)
                                       \/ Execute(w) \/ WorkerDies(w)
                 \/ \E j \in Jobs : Abandon(j) \/ Tick(j)
    PROVE  WInv'
<1> USE DEF api, workers, WorkerAt
<1>1. ASSUME NEW w \in Workers, WorkerStart(w) \/ Execute(w) \/ WorkerDies(w) PROVE WInv'
  <2>1. UNCHANGED <<rows, redis, started, givenUp, apc, ajob, probe>>
    BY <1>1 DEF WorkerStart, Execute, WorkerDies
  <2>2. selected' \in [Processes -> SUBSET Jobs]
    BY <1>1 DEF WorkerStart, Execute, WorkerDies, WInv, TypeOK, StaleIds, Processes
  <2>3. \/ /\ wjob' = wjob
           /\ \/ wpc[w] = "down" /\ wpc' = [wpc EXCEPT ![w] = "recover"]
              \/ wpc[w] = "run" /\ \E to \in {"ok", "err"} : wpc' = [wpc EXCEPT ![w] = to]
        \/ wjob' = [wjob EXCEPT ![w] = NoJob] /\ wpc' = [wpc EXCEPT ![w] = "down"]
    BY <1>1 DEF WorkerStart, Execute, WorkerDies
  <2>4. /\ \A v \in Workers \ {w} : wpc'[v] = wpc[v] /\ wjob'[v] = wjob[v]
        /\ \/ /\ wjob'[w] = wjob[w]
              /\ \/ wpc[w] = "down" /\ wpc'[w] = "recover"
                 \/ wpc[w] = "run" /\ wpc'[w] \in {"ok", "err"}
           \/ wjob'[w] = NoJob /\ wpc'[w] = "down"
    BY <2>3 DEF WInv, TypeOK
  <2>5. TypeOK'
    BY <2>1, <2>2, <2>3 DEF WInv, TypeOK
  <2>6. Hands'
    BY <2>1, <2>4 DEF WInv, Hands
  <2>7. ASSUME NEW k \in Jobs PROVE Delivery(k)' /\ RowTells(k)'
    <3>1. Delivery(k) /\ RowTells(k) /\ k # NoJob
      BY WorkflowAssumption DEF WInv
    <3>2. \A v \in Workers : wjob'[v] = k =>
             /\ wjob[v] = k /\ k \in started
             /\ wpc'[v] = wpc[v] \/ (wpc[v] = "run" /\ wpc'[v] \in {"ok", "err"})
      BY <2>4, <3>1 DEF WInv, Hands, Delivery
    <3>3. Undisturbed(k)
      BY <2>1, <3>1, <3>2, SameRedis DEF Undisturbed
    <3> QED BY <3>1, <3>3, OtherJob
  <2> QED BY <2>5, <2>6, <2>7 DEF WInv
<1>2. ASSUME NEW w \in Workers, WorkerRecover(w) PROVE WInv'
  <2>1. /\ wpc[w] = "recover" /\ wpc' = [wpc EXCEPT ![w] = "idle"]
        /\ rows' = FailedStale(selected[w]) /\ givenUp' = GivenUp(selected[w])
        /\ selected' = [selected EXCEPT ![w] = {}]
        /\ UNCHANGED <<redis, started, apc, ajob, wjob, probe>>
    BY <1>2 DEF WorkerRecover
  <2>2. selected[w] \in SUBSET Jobs
    BY DEF WInv, TypeOK, Processes
  <2>3. rows' \in [Jobs -> Row] /\ givenUp' \in SUBSET Jobs
    BY <2>1, <2>2, StaleFailed DEF WInv
  <2>4. TypeOK' /\ Hands'
    BY <2>1, <2>3 DEF WInv, TypeOK, Hands
  <2>5. \A v \in Workers : wjob[v] # NoJob => wpc'[v] = wpc[v]
    BY <2>1 DEF WInv, TypeOK, Hands
  <2>6. \A k \in Jobs : Delivery(k)' /\ RowTells(k)'
    BY <2>1, <2>2, <2>5, GiveUpStep
  <2> QED BY <2>4, <2>6 DEF WInv
<1>3. ASSUME NEW j \in Jobs, Abandon(j) PROVE WInv'
  <2>1. /\ started' = started \ {j} /\ \A w \in Workers : wjob[w] # j
        /\ UNCHANGED <<rows, redis, givenUp, apc, ajob, wpc, wjob, selected, probe>>
    BY <1>3 DEF Abandon
  <2>2. TypeOK' /\ Hands'
    BY <2>1 DEF WInv, TypeOK, Hands
  <2>3. ASSUME NEW k \in Jobs PROVE Delivery(k)' /\ RowTells(k)'
    <3>1. Delivery(k) /\ RowTells(k)
      BY DEF WInv
    <3>2. Undisturbed(k)
      BY <2>1, <3>1, SameRedis DEF Undisturbed, Delivery
    <3> QED BY <3>1, <3>2, OtherJob
  <2> QED BY <2>2, <2>3 DEF WInv
<1>4. ASSUME NEW j \in Jobs, Tick(j) PROVE WInv'
  <2>1. /\ rows' = [rows EXCEPT ![j].age = "old"]
        /\ UNCHANGED <<redis, started, givenUp, apc, ajob, wpc, wjob, selected, probe>>
    BY <1>4 DEF Tick
  <2>2. /\ rows' \in [Jobs -> Row]
        /\ \A k \in Jobs : rows'[k].status = rows[k].status /\ rows'[k].fin = rows[k].fin
    BY <2>1 DEF WInv, TypeOK, Row, Ages
  <2>3. TypeOK' /\ Hands'
    BY <2>1, <2>2 DEF WInv, TypeOK, Hands
  <2>4. ASSUME NEW k \in Jobs PROVE Delivery(k)' /\ RowTells(k)'
    <3>1. Delivery(k) /\ RowTells(k)
      BY DEF WInv
    <3>2. Undisturbed(k)
      BY <2>1, <2>2, <3>1, SameRedis DEF Undisturbed, Delivery
    <3> QED BY <3>1, <3>2, OtherJob
  <2> QED BY <2>3, <2>4 DEF WInv
<1> QED BY <1>1, <1>2, <1>3, <1>4

\* RQ hands the oldest id to a worker.
LEMMA DequeueInv == ASSUME WInv, NEW w \in Workers, Dequeue(w) PROVE WInv'
<1>1. /\ Len(redis) \in Nat /\ Len(redis) > 0 /\ 1 \in 1 .. Len(redis)
      /\ redis[1] \in Jobs /\ Head(redis) = redis[1]
      /\ redis' = Tail(redis) /\ redis' \in Seq(Jobs)
      /\ \A i \in 1 .. Len(redis') : redis'[i] = redis[i + 1] /\ i + 1 \in 1 .. Len(redis)
                                     /\ i + 1 # 1
  BY DEF Dequeue, WInv, TypeOK
<1>2. PICK j \in Jobs : j = redis[1]
  BY <1>1
<1>3. /\ wpc[w] = "idle" /\ wpc' = [wpc EXCEPT ![w] = "load"]
      /\ wjob' = [wjob EXCEPT ![w] = j] /\ started' = started \cup {j}
      /\ UNCHANGED <<rows, givenUp, apc, ajob, selected, probe>>
  BY <1>1, <1>2 DEF Dequeue, WorkerAt, api
<1>4. /\ wpc'[w] = "load" /\ wjob'[w] = j /\ j # NoJob
      /\ \A v \in Workers \ {w} : wpc'[v] = wpc[v] /\ wjob'[v] = wjob[v]
  BY <1>3, WorkflowAssumption DEF WInv, TypeOK
<1>5. TypeOK' /\ Hands'
  BY <1>1, <1>3, <1>4 DEF WInv, TypeOK, Hands
<1>6. ASSUME NEW k \in Jobs PROVE (InRedis(k)' => InRedis(k)) /\ Once(k)'
  <2>1. InRedis(k)' => InRedis(k)
    BY <1>1 DEF InRedis
  <2>2. ASSUME NEW m \in 1 .. Len(redis'), NEW n \in 1 .. Len(redis'),
               redis'[m] = k, redis'[n] = k
        PROVE  m = n
    <3>1. Once(k)
      BY DEF WInv, Delivery
    <3>2. /\ m + 1 \in 1 .. Len(redis) /\ n + 1 \in 1 .. Len(redis)
          /\ redis[m + 1] = k /\ redis[n + 1] = k
      BY <1>1, <2>2
    <3>3. m + 1 = n + 1
      BY <3>1, <3>2 DEF Once
    <3> QED BY <3>3
  <2> QED BY <2>1, <2>2 DEF Once
<1>7. ASSUME NEW k \in Jobs \ {j} PROVE Delivery(k)' /\ RowTells(k)'
  <2>1. Delivery(k) /\ RowTells(k)
    BY DEF WInv
  <2>2. Undisturbed(k)
    BY <1>3, <1>4, <1>6, <2>1 DEF Undisturbed, Delivery
  <2> QED BY <2>1, <2>2, OtherJob
<1>8. Delivery(j)' /\ RowTells(j)'
  <2>1. Delivery(j) /\ RowTells(j)
    BY DEF WInv
  <2>2. InRedis(j) /\ ~InRedis(j)'
    <3>1. InRedis(j)
      BY <1>1, <1>2 DEF InRedis
    <3>2. ASSUME NEW i \in 1 .. Len(redis'), redis'[i] = j PROVE FALSE
      BY <1>1, <1>2, <2>1, <3>2 DEF Delivery, Once
    <3> QED BY <3>1, <3>2 DEF InRedis
  <2>3. /\ j \notin started /\ \A v \in Workers : wjob[v] # j
        /\ ~(apc = "enqueue" /\ ajob = j) /\ rows[j].status # "none"
        /\ j \notin givenUp => rows[j].status = "queued"
    BY <2>1, <2>2 DEF Delivery, RowTells, Waiting
  <2>4. \A v \in Workers : wjob'[v] = j <=> v = w
    BY <1>4, <2>3
  <2>5. Delivery(j)'
    BY <1>3, <1>6, <2>2, <2>3, <2>4 DEF Delivery
  <2>6. RowTells(j)'
    BY <1>3, <1>4, <2>1, <2>3, <2>4 DEF RowTells, RunBy
  <2> QED BY <2>5, <2>6
<1> QED BY <1>5, <1>7, <1>8 DEF WInv

\* A worker finds the row of the id it was given, or leaves the job alone.
LEMMA LoadInv == ASSUME WInv, NEW w \in Workers, LoadRequest(w) PROVE WInv'
<1>1. /\ wpc[w] = "load" /\ rows' \in CleanedTables
      /\ UNCHANGED <<redis, givenUp, apc, ajob, selected, probe>>
      /\ \/ /\ wpc' = [wpc EXCEPT ![w] = "idle"]
            /\ wjob' = [wjob EXCEPT ![w] = NoJob] /\ started' = started \ {wjob[w]}
         \/ wpc' = [wpc EXCEPT ![w] = "mark"] /\ UNCHANGED <<wjob, started>>
  BY DEF LoadRequest, WorkerAt, Returns, api
<1>2. /\ \A v \in Workers \ {w} : wpc'[v] = wpc[v] /\ wjob'[v] = wjob[v]
      /\ \/ wpc'[w] = "idle" /\ wjob'[w] = NoJob /\ started' = started \ {wjob[w]}
         \/ wpc'[w] = "mark" /\ wjob'[w] = wjob[w] /\ started' = started
  BY <1>1 DEF WInv, TypeOK
<1>3. /\ rows' \in [Jobs -> Row]
      /\ \A k \in Jobs : rows'[k] = rows[k] \/ (rows[k].fin /\ rows'[k] = Gone)
  BY <1>1, TablesCleaned DEF WInv
<1>4. TypeOK'
  BY <1>1, <1>3 DEF WInv, TypeOK
<1>5. Hands'
  BY <1>1, <1>2 DEF WInv, Hands
<1>6. ASSUME NEW k \in Jobs PROVE Delivery(k)' /\ RowTells(k)'
  <2>1. Delivery(k) /\ RowTells(k) /\ k # NoJob
    BY WorkflowAssumption DEF WInv
  <2>2. \A v \in Workers : wjob'[v] = k =>
           /\ wjob[v] = k /\ k \in started'
           /\ wpc'[v] = wpc[v] \/ (wpc[v] = "load" /\ wpc'[v] = "mark")
    BY <1>1, <1>2, <2>1 DEF Delivery
  <2>3. k \in started' => k \in started
    BY <1>2
  <2>4. Undisturbed(k)
    BY <1>1, <1>3, <2>1, <2>2, <2>3, SameRedis DEF Undisturbed
  <2> QED BY <2>1, <2>4, OtherJob
<1> QED BY <1>4, <1>5, <1>6 DEF WInv

\* A worker says that the job runs, whatever its row said.
LEMMA MarkRunningInv == ASSUME WInv, NEW w \in Workers, MarkRunning(w) PROVE WInv'
<1>1. /\ wpc[w] = "mark" /\ wpc' = [wpc EXCEPT ![w] = "run"]
      /\ rows' = MarkedRunning(wjob[w])
      /\ UNCHANGED <<redis, started, givenUp, apc, ajob, wjob, selected, probe>>
  BY DEF MarkRunning, WorkerAt, api
<1>2. PICK j \in Jobs : j = wjob[w]
  BY <1>1 DEF WInv, TypeOK, Hands
<1>3. wpc'[w] = "run" /\ \A v \in Workers \ {w} : wpc'[v] = wpc[v]
  BY <1>1 DEF WInv, TypeOK
<1>4. rows[j] \in Row
  BY DEF WInv, TypeOK
<1>5. /\ rows' \in [Jobs -> Row]
      /\ \A k \in Jobs \ {j} : rows'[k] = rows[k]
      /\ \/ Absent(rows[j]) /\ rows' = rows
         \/ ~Absent(rows[j]) /\ rows'[j].status = "running" /\ rows'[j].fin = rows[j].fin
  <2>1. CASE Absent(rows[j])
    BY <1>1, <1>2, <2>1 DEF MarkedRunning, Update, WInv, TypeOK
  <2>2. CASE ~Absent(rows[j])
    <3>1. rows' = [rows EXCEPT ![j] = [rows[j] EXCEPT !.status = "running", !.age = "fresh"]]
      BY <1>1, <1>2, <2>2 DEF MarkedRunning, Update
    <3>2. [rows[j] EXCEPT !.status = "running", !.age = "fresh"] \in Row
      BY <1>4 DEF Row, Ages, Active
    <3> QED BY <2>2, <3>1, <3>2 DEF WInv, TypeOK
  <2> QED BY <2>1, <2>2
<1>6. TypeOK' /\ Hands'
  BY <1>1, <1>3, <1>5 DEF WInv, TypeOK, Hands
<1>7. ASSUME NEW k \in Jobs \ {j} PROVE Delivery(k)' /\ RowTells(k)'
  <2>1. Delivery(k) /\ RowTells(k)
    BY DEF WInv
  <2>2. \A v \in Workers : wjob[v] = k => v # w
    BY <1>2
  <2>3. Undisturbed(k)
    BY <1>1, <1>3, <1>5, <2>1, <2>2, SameRedis DEF Undisturbed, Delivery
  <2> QED BY <2>1, <2>3, OtherJob
<1>8. Delivery(j)' /\ RowTells(j)'
  <2>1. Delivery(j) /\ RowTells(j)
    BY DEF WInv
  <2>2. /\ j \in started /\ ~InRedis(j) /\ rows[j].status # "none"
        /\ ~(apc = "enqueue" /\ ajob = j)
        /\ \A v \in Workers : wjob[v] = j => v = w
        /\ j \notin givenUp => rows[j].status = "queued" /\ rows[j].fin = FALSE
    BY <1>1, <1>2, <1>4, <2>1 DEF Delivery, RowTells, Waiting, Finished, Row
  <2>3. (InRedis(j)' <=> InRedis(j)) /\ Once(j)'
    BY <1>1, <2>1, SameRedis
  <2>4. rows'[j].status # "none"
    BY <1>5, <2>2
  <2>5. Delivery(j)'
    BY <1>1, <2>1, <2>2, <2>3, <2>4 DEF Delivery
  <2>6. ~Waiting(j)'
    BY <1>1, <1>3, <2>2, <2>3 DEF Waiting
  <2>7. CASE Absent(rows[j])
    <3>1. j \in givenUp /\ rows'[j].status = "deleted"
      BY <1>5, <2>2, <2>7 DEF Absent
    <3> QED BY <1>1, <2>5, <2>6, <3>1 DEF RowTells
  <2>8. CASE ~Absent(rows[j])
    <3>1. rows'[j].status = "running" /\ rows'[j].fin = rows[j].fin
      BY <1>5, <2>8
    <3> QED BY <1>1, <2>2, <2>5, <2>6, <3>1 DEF RowTells, Finished
  <2> QED BY <2>5, <2>7, <2>8
<1> QED BY <1>6, <1>7, <1>8 DEF WInv

\* A worker tells how the run ended, and returns to RQ.
LEMMA MarkEndInv ==
    ASSUME WInv, NEW w \in Workers, MarkSucceeded(w) \/ MarkFailed(w)
    PROVE  WInv'
<1>1. /\ wpc[w] \in {"ok", "err"} /\ wpc' = [wpc EXCEPT ![w] = "idle"]
      /\ wjob' = [wjob EXCEPT ![w] = NoJob] /\ started' = started \ {wjob[w]}
      /\ rows' \in {MarkedSucceeded(wjob[w]), MarkedFailed(wjob[w])}
      /\ UNCHANGED <<redis, givenUp, apc, ajob, selected, probe>>
  BY DEF MarkSucceeded, MarkFailed, WorkerAt, Returns, api
<1>2. PICK j \in Jobs : j = wjob[w]
  BY <1>1 DEF WInv, TypeOK, Hands
<1>3. /\ wpc'[w] = "idle" /\ wjob'[w] = NoJob /\ j # NoJob
      /\ \A v \in Workers \ {w} : wpc'[v] = wpc[v] /\ wjob'[v] = wjob[v]
  BY <1>1, WorkflowAssumption DEF WInv, TypeOK
<1>4. rows[j] \in Row
  BY DEF WInv, TypeOK
<1>5. /\ rows' \in [Jobs -> Row]
      /\ \A k \in Jobs \ {j} : rows'[k] = rows[k]
      /\ \/ Absent(rows[j]) /\ rows' = rows
         \/ ~Absent(rows[j]) /\ rows'[j].status \in Finished /\ rows'[j].fin
  <2>1. CASE Absent(rows[j])
    BY <1>1, <1>2, <2>1 DEF MarkedSucceeded, MarkedFailed, Update, WInv, TypeOK
  <2>2. CASE ~Absent(rows[j])
    <3>1. PICK to \in Finished :
             rows' = [rows EXCEPT ![j] =
                        [rows[j] EXCEPT !.status = to, !.age = "fresh", !.fin = TRUE]]
      BY <1>1, <1>2, <2>2 DEF MarkedSucceeded, MarkedFailed, Update, Finished
    <3>2. [rows[j] EXCEPT !.status = to, !.age = "fresh", !.fin = TRUE] \in Row
      BY <1>4 DEF Row, Ages
    <3>3. rows'[j] = [rows[j] EXCEPT !.status = to, !.age = "fresh", !.fin = TRUE]
      BY <3>1 DEF WInv, TypeOK
    <3>4. rows'[j].status = to /\ rows'[j].fin
      BY <1>4, <3>3 DEF Row
    <3> QED BY <2>2, <3>1, <3>2, <3>4 DEF WInv, TypeOK
  <2> QED BY <2>1, <2>2
<1>6. TypeOK' /\ Hands'
  <2>1. TypeOK'
    BY <1>1, <1>5 DEF WInv, TypeOK
  <2> QED BY <1>1, <1>3, <2>1 DEF WInv, Hands
<1>7. ASSUME NEW k \in Jobs \ {j} PROVE Delivery(k)' /\ RowTells(k)'
  <2>1. Delivery(k) /\ RowTells(k) /\ k # NoJob
    BY WorkflowAssumption DEF WInv
  <2>2. \A v \in Workers : wjob'[v] = k =>
           wjob[v] = k /\ k \in started' /\ wpc'[v] = wpc[v]
    BY <1>1, <1>2, <1>3, <2>1 DEF Delivery
  <2>3. Undisturbed(k)
    BY <1>1, <1>5, <2>1, <2>2, SameRedis DEF Undisturbed
  <2> QED BY <2>1, <2>3, OtherJob
<1>8. Delivery(j)' /\ RowTells(j)'
  <2>1. Delivery(j) /\ RowTells(j)
    BY DEF WInv
  <2>2. /\ j \in started /\ ~InRedis(j) /\ rows[j].status # "none"
        /\ ~(apc = "enqueue" /\ ajob = j)
        /\ \A v \in Workers : wjob'[v] # j
        /\ j \notin givenUp => rows[j].status = "running"
    BY <1>1, <1>2, <1>3, <2>1 DEF Delivery, RowTells, RunBy
  <2>3. (InRedis(j)' <=> InRedis(j)) /\ Once(j)'
    BY <1>1, <2>1, SameRedis
  <2>4. rows'[j].status # "none"
    BY <1>5, <2>2 DEF Finished
  <2>5. Delivery(j)'
    BY <1>1, <2>2, <2>3, <2>4 DEF Delivery
  <2>6. ~Waiting(j)' /\ \A v \in Workers : ~RunBy(v, j)'
    BY <1>1, <2>2, <2>3 DEF Waiting, RunBy
  <2>7. j \notin givenUp => rows'[j].fin /\ rows'[j].status \in Finished
    BY <1>5, <2>2 DEF Absent
  <2>8. RowTells(j)'
    BY <1>1, <2>6, <2>7 DEF RowTells
  <2> QED BY <2>5, <2>8
<1> QED BY <1>6, <1>7, <1>8 DEF WInv

\* The operator's check reads, and remembers a number.
LEMMA ProbeInv == ASSUME WInv, Probe PROVE WInv'
<1> USE DEF api, workers
<1>1. CASE ProbeDatabase
  <2>1. /\ rows' \in CleanedTables /\ probe' = Cardinality(ActiveRows(rows'))
        /\ UNCHANGED <<redis, started, givenUp, apc, ajob, wpc, wjob, selected>>
    BY <1>1 DEF ProbeDatabase
  <2>2. Cardinality(ActiveRows(rows')) \in 0 .. Cardinality(Jobs)
    <3>1. ActiveRows(rows') \subseteq Jobs
      BY DEF ActiveRows
    <3>2. /\ IsFiniteSet(ActiveRows(rows'))
          /\ Cardinality(ActiveRows(rows')) <= Cardinality(Jobs)
      BY <3>1, FS_Subset, WorkflowAssumption
    <3>3. Cardinality(ActiveRows(rows')) \in Nat /\ Cardinality(Jobs) \in Nat
      BY <3>2, FS_CardinalityType, WorkflowAssumption
    <3> QED BY <3>2, <3>3
  <2>3. rows' \in [Jobs -> Row] /\ \A k \in Jobs : Delivery(k)' /\ RowTells(k)'
    BY <2>1, CleanupStep
  <2>4. TypeOK' /\ Hands'
    BY <2>1, <2>2, <2>3 DEF WInv, TypeOK, Hands
  <2> QED BY <2>3, <2>4 DEF WInv
<1>2. CASE ProbeQueue
  <2>1. /\ probe' \in {Raised, Idle}
        /\ UNCHANGED <<rows, redis, started, givenUp, apc, ajob, wpc, wjob, selected>>
    BY <1>2 DEF ProbeQueue
  <2>2. TypeOK' /\ Hands'
    BY <2>1 DEF WInv, TypeOK, Hands
  <2>3. ASSUME NEW k \in Jobs PROVE Delivery(k)' /\ RowTells(k)'
    <3>1. Delivery(k) /\ RowTells(k)
      BY DEF WInv
    <3>2. Undisturbed(k)
      BY <2>1, <3>1, SameRedis DEF Undisturbed, Delivery
    <3> QED BY <3>1, <3>2, OtherJob
  <2> QED BY <2>2, <2>3 DEF WInv
<1> QED BY <1>1, <1>2 DEF Probe

\* A stutter.
LEMMA StutterInv == ASSUME WInv, UNCHANGED vars PROVE WInv'
BY DEF WInv, TypeOK, Hands, Delivery, RowTells, Waiting, Once, InRedis, RunBy,
       vars, api, workers

\* Every step keeps the invariant.
LEMMA NextInv == ASSUME WInv, [Next]_vars PROVE WInv'
<1>1. CASE Serve
  BY <1>1, ApiInv, EnqueueInv DEF Serve
<1>2. CASE SubmitCheck \/ ApiDies \/ ReadJobs
  BY <1>2, ApiInv
<1>3. ASSUME NEW j \in Jobs, SubmitCreate(j) PROVE WInv'
  BY <1>3, CreateInv
<1>4. ASSUME NEW w \in Workers, Work(w) \/ WorkerDies(w) PROVE WInv'
  <2>1. CASE WorkerStart(w) \/ WorkerRecover(w) \/ Execute(w) \/ WorkerDies(w)
    BY <2>1, WorkerLifeInv
  <2>2. CASE Dequeue(w)
    BY <2>2, DequeueInv
  <2>3. CASE LoadRequest(w)
    BY <2>3, LoadInv
  <2>4. CASE MarkRunning(w)
    BY <2>4, MarkRunningInv
  <2>5. CASE MarkSucceeded(w) \/ MarkFailed(w)
    BY <2>5, MarkEndInv
  <2> QED BY <1>4, <2>1, <2>2, <2>3, <2>4, <2>5 DEF Work
<1>5. ASSUME NEW j \in Jobs, Abandon(j) \/ Tick(j) PROVE WInv'
  BY <1>5, WorkerLifeInv
<1>6. CASE Probe
  BY <1>6, ProbeInv
<1>7. CASE UNCHANGED vars
  BY <1>7, StutterInv
<1> QED BY <1>1, <1>2, <1>3, <1>4, <1>5, <1>6, <1>7 DEF Next

\* What the properties say is part of it.
LEMMA InvStory == ASSUME WInv PROVE Story
<1>1. TypeOK
  BY DEF WInv
<1>2. DeliveredOnce
  BY DEF WInv, Delivery, Once, DeliveredOnce
<1>3. RowsTellStory
  BY DEF WInv, RowTells, RowsTellStory
<1> QED BY <1>1, <1>2, <1>3 DEF Story

\* An id is delivered once, and the row of a job that no recovery and no failed
\* submission gave up says where it is: through any recovery that runs between
\* somebody else's steps, any death, and any answer that Redis did not give.
THEOREM StoryHolds == Spec => []Story
<1>1. Init => WInv
  BY InitInv
<1>2. WInv /\ [Next]_vars => WInv'
  BY NextInv
<1>3. WInv => Story
  BY InvStory
<1> QED BY <1>1, <1>2, <1>3, PTL DEF Spec
===============================================================================
