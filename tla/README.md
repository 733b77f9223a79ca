# TLA+ models of the AI test-case generation service

This directory holds TLA+ specifications of the service under `src/app` and of
the scripts its operators run (`src/scripts`): what the code does, model-checked
with TLC on small instances, and the main results proved with TLAPS for every
value of the constants. Every definition that models code is listed with its source lines
in `PROJECT.json` ("map"); paths below are relative to `src/`.

- [The system](#the-system): inventory, interactions, hard behaviours
- [Modules](#modules): what models what
- [Runs](#runs): what TLC checks, the bounds, the fairness
- [Proofs](#proofs): what TLAPS proves, from what, and how
- [Findings](#findings)
- [What is left out, and the plan](#plan)

## The system

A FastAPI process serves `/api/v1/*`; RQ worker processes take jobs from
Redis; a SQLite file or a MySQL database holds the tables; Chroma holds the
knowledge base; an LLM provider is called over HTTP.

| Part | Source | State | Operations | Should hold |
| --- | --- | --- | --- | --- |
| Generation job table | `app/services/generation_job_store.py` | one row per job | create, set queue id, get, list, count, mark running / succeeded / failed, fail stale, clean up | a row tells one story; only finished rows are deleted |
| Generation jobs, RQ | `app/services/generation_jobs.py` (`RedisRQ...`), `app/workers/generation_rq.py`, `scripts/run_generation_worker.py` | the table, the Redis queue, work horses | submit, read, worker start with recovery, run | a job runs once, is never lost while nothing dies, its visible life goes forward, the queue limit |
| Generation jobs, in memory | `app/services/generation_jobs.py` (`InMemory...`) | dict of records, bounded `queue.Queue`, threads, shutdown flag | submit, read, work, shutdown | no job lost, none run twice, shutdown drains and ends |
| Test plan execution jobs | `app/services/test_plan_execution_{jobs,store}.py`, `app/workers/test_plan_execution_rq.py`, `mysql_stores.py` | in memory with a table behind it, or table, Redis and workers | as above, recovery wherever a queue or a worker starts, also of queued rows | the table follows the process, restarts resolve what crashes left |
| Test agent workflow jobs | `app/services/test_agent_workflow_{jobs,store}.py`, `app/workers/test_agent_workflow_rq.py`, `mysql_stores.py` | the same | the same | the same |
| Queue checks | `scripts/check_*_queue.py`, `scripts/check_queue_alerts.py` | none | count the table, then Redis, and compare | a lost job is found |
| Generation history and gates | `app/services/history.py`, `mysql_stores.py` | one record per run, gate status | record, list, resolve gate | a gate is decided once |
| Generation execution | `app/services/generation_execution.py` | none | run, then record | a record that cannot be written does not fail the run |
| Generation workflow | `app/services/generator.py`, `agent_workflow.py`, `reviewer.py` | state of one run | analyse, retrieve, prompt, budget gate, LLM, validate, review, quality gate | attempts and node runs bounded, gates before the call and before the answer, both runners agree |
| Test agent workflow | `app/services/test_agent_workflow.py`, `tool_execution.py`, `test_report.py` | state of one run | plan, execute tools, report | the error names the stage that failed |
| Test plan generation | `app/services/test_plan_generator.py` | none | plan from rules or from the LLM | every requirement is covered, step ids unique |
| Knowledge base | `app/services/rag.py` | chunks with source and version | ingest, upsert, delete, search | later requests win, nothing is lost without a cause |
| LLM client | `app/services/llm.py` | metrics of the last call | call with retries | attempts bounded, only retryable errors retried |
| Rate limiter | `app/core/middleware.py` | times of requests per client | check | at most n requests in a window |
| Drills | `scripts/smoke_*.py` | docker commands to run, what they have started | stop and restart a service, start and remove workers, submit rounds of jobs | a drill that passes has done its work; what stays behind has a cause |
| Evaluations | `scripts/evaluate_test_agent_workflow.py`, `evaluate_test_report.py`, `evaluate_test_execution.py` | results of the cases, a cache of the model's answers, a line of history | evaluate cases in threads, compare plan, runs and report with what is expected | a case is told what is its own, a run is not taken for another, exit code 0 means what it says |
| Release checks | `scripts/run_release_checks.py` | what has failed so far, two collections, a server | run the checks, drills and evaluations, the smoke with the model | no failure is forgotten, the checks use what this release made |
| Cached factories | `app/api/routes.py` | `lru_cache` of stores and queues | build on first use | one object per process |
| Metrics, readiness, redaction, exporters | `app/services/*metrics.py`, `readiness.py`, ... | counters | count, format | none across parts |

**Interactions.** API threads call the job queues and stores directly; the RQ
backend hands a job id to Redis and everything else travels through the
table, so the submitter, the worker, the recovery of another worker, and every
reader (reads clean up) write the same row with no transaction around them.
The in-memory backend shares a dict under one lock and a `queue.Queue` with a
lock of its own. The execution and workflow jobs keep a table behind that
queue, which readers ask instead of the dict. Stores and queues reach the
routes through `lru_cache`d factories. The middleware runs on the event loop in
front of handlers that run in threads; the knowledge base has no lock at all.
The generation jobs run `execute_generation`, the other two families the test
agent; for the queues a run is one step with any result, and how it comes
about is the matter of `GenerationWorkflow` and `TestAgentRun`.

**Hard behaviours.** Two-step operations (count then create, create then
enqueue, SELECT then UPDATE), unguarded `UPDATE ... WHERE id = ?`, answers of
Redis that are lost, processes that die between two statements, a recovery
that judges by age whether a run is dead, a job timeout racing that age, a
bounded queue that also carries the shutdown pills, cleanup inside reads,
factories called twice; threads that die of a store error; a read of a
collection and a delete by the ids it returned; two counters of retries that
multiply, under the node limit of a library; checks that compare two snapshots;
commands that time out and go on; threads that share one client and its cache;
a release that is killed and leaves its server to the next one. Each is listed at its line under "hazards" in
`PROJECT.json`, with the properties that watch it.

## Modules

| Module | Models | Kind |
| --- | --- | --- |
| `GenerationJobStore` | the `generation_jobs` table and its statements | operators on a table |
| `RQGenerationJobs` | submitters, Redis, workers, recovery, clock, over that table | state machine |
| `MemoryGenerationQueue` | the in-memory queue | state machine |
| `JobPromise` | the life of an accepted job as a client may rely on it | abstract specification |
| `GateHistory` | gate records, their resolution on SQLite and MySQL, the cached store | state machine |
| `StoredJobQueue` | the in-memory queue with a table, of the execution and the workflow jobs | state machine |
| `StoredJobPromise` | `JobPromise`, weakened by what restarts and refusals add | abstract specification |
| `WorkflowJobsRQ` | the same families on Redis/RQ and MySQL, with the operator's queue check | state machine |
| `GenerationWorkflow` | one generation: the graph, the LLM client, the local runner, the history record | state machine, with the local runner as an operator |
| `TestAgentRun` | plan, tools and report of one test agent run | state machine |
| `KnowledgeApi` | the rate limiter, and the knowledge base behind it | state machine |
| `ReportEvaluation` | the rest of a report, and what the evaluation scripts check of it, over `TestAgentRun` | operators and an invariant |
| `OperatorDrills` | the four drills, their submitter and their workers | state machine |
| `WorkflowEvaluation` | the workflow evaluation with its threads, its cache and its exit code | state machine |
| `ReleaseChecks` | the checks of a release and its smoke | state machine |
| `OperatorScripts` | the three of them together: a release calls drills and evaluations | composition |
| `MC...` | instances for TLC; the constants are in the `.cfg` files | model checking |
| `RQGenerationJobsProofs`, `MemoryGenerationQueueProofs`, `StoredJobQueueProofs`, `WorkflowJobsRQProofs`, `KnowledgeApiProofs` | the theorems about the module each is named for | proofs |
| `GenerationProofs` | the theorems about `GenerationWorkflow` and `GateHistory` | proofs |
| `TestAgentRunProofs` | the theorems about `TestAgentRun` and `ReportEvaluation` | proofs |
| `OperatorScriptsProofs` | the theorems about `OperatorScripts`, with the drills, evaluations and releases of which it is composed | proofs |

Definitions preceded by "A faulty variant" are not part of a specification:
they are the plausible mistakes that show each property can fail (`PROJECT.json`,
"mutants", names the definition each one stands in for).

### GenerationJobStore and RQGenerationJobs

`rows` is the table. A statement of the store is an operator from table to
table (`Created`, `MarkedRunning`, `FailedStale`, ...), because one statement
is one transaction; a sequence of statements is not, so every call of the
store or of Redis is an action of its own:

- `submit`: `SubmitCheck` (count, with its cleanup), `SubmitCreate`,
  `SubmitEnqueue` / `SubmitEnqueueError`, `SubmitMarkFailed`,
  `SubmitSetQueueJobId`, `SubmitReply`. Both `except` branches of the code do
  the same to the state. `SubmitEnqueueError` is the call raising, with or
  without Redis having taken the job.
- a worker process: `RecoverSelect`, `RecoverUpdate` (the two statements of
  `fail_stale_running_jobs`), then `Dequeue`, `LoadRequest`, `MarkRunning`,
  `Execute`, `MarkSucceeded` / `MarkFailed`.
- `SubmitAborts`, `HorseDies`, `WorkerDies`: a process that dies, or a store
  call that raises, at any of these points (constant `Faults`).
- `Tick`: time. Timestamps are ages in ticks and stop growing one beyond the
  larger threshold, where no comparison of the code can tell them apart; so
  time has no horizon and no bound of its own. RQ's job timeout is the guard
  of `Tick`: a run that has used up `RunLimit` ends before time goes on. The
  timer starts in the work horse a little before `mark_running`, which makes
  the real limit the tighter one; marking the end after a timeout is taken to
  happen within the tick.

`fate` is a history variable: whether the submission of an id was refused (the
client has a 503) or the id is *promised*. Refused jobs may run all the same,
so what concerns clients is stated for promised jobs.

RQ itself is external: it delivers each id at most once, as no `Retry` is
configured and a job whose work horse dies goes to the failed registry.

### MemoryGenerationQueue

`_jobs`, `_queue` and `_shutdown` are `jobs`, `queue` and `shutdown`. A method
is one step where it holds `_lock`; `Take` (`_queue.get`) and `MarkRunning`
are two, as are `ShutdownBegin` and each `ShutdownPut`, whose guard is the
blocking `put` of a bounded queue. `_mark_running` and the other marks skip a
record that is gone, and so do the actions.

### GateHistory

A request calls the cached factory (`Arrive`, and `Build` on a miss), then
resolves: on SQLite `Acquire`, `Select`, `Update` under the lock of the store
object it was given, on MySQL the one conditional `UpdateIfOpen`; `Reply` is
`get_record`. `Raise` is a statement that raises at any point. A store is named
by the request that built it, so two stores have two locks. `deployment` is
chosen from the constant `Deployments` and then stays: the database, and whether
the store has been built by an earlier request (`warm`).

### StoredJobQueue and StoredJobPromise

The queue, threads and shutdown of `MemoryGenerationQueue`, in a process that
may die (`Crash`) and build its queue again (`Start`, which fails stale rows),
over a table that stays. `Mark` is the order of `_mark_running`,
`_mark_succeeded` and `_mark_failed`: the record first, then the row; if the
store raises in between, the thread ends (`dead`), as `_worker_loop` catches
nothing. `Submit` has the INSERT, the refusal of a full queue, and the store
error that leaves a queued row behind. Both families have these methods and
statements, for other columns; the map names those of the workflow jobs
and the execution store's `create_job`.

### WorkflowJobsRQ

The API's queue object, RQ workers and the MySQL store. What differs from
`RQGenerationJobs` is the recovery: it runs at every start of the API's queue
and of a worker, takes queued rows as well as running ones, and its SELECT is
not a locking read, so its two statements are two steps (`ApiStart` and
`ApiRecover`, `WorkerStart` and `WorkerRecover`). A job whose id Redis still has
may be given up and run all the same; `givenUp` is the history of that. Time is
coarser than there: a row is fresh or old, and `Tick` makes it old at any
moment, so no assumption on how long runs take is needed. `Probe` is
`check_test_agent_workflow_queue`, which counts the table and then Redis.
`Recovers` says that the staleness threshold is above 0: `config.py` allows 0, where
`_fail_stale_jobs` returns at once and no start ever resolves a row
(`mysql_stores.py:1274`). `RestartsResolveActive` has it as its premise;
`Story` and `LostJobsAreReported` hold either way.

### GenerationWorkflow

Each node of `LangGraphGenerationWorkflowRunner` is an action, each edge a value
of `node'`, and `call_llm` is taken apart into the posts of
`LLMClient.generate_json`. The code keeps a local runner as the reference for
the graph; it is the operator `LocalRun`: `LocalAfter` takes one turn of its
loop (`LocalTurn`) for each result that the graph has heard, so that
`RunnersAgree` compares the two on the same retrievals and answers. `OutOfSteps` is
LangGraph (external) giving up at its recursion limit; the local runner has none, so
that `RunnersAgree` leaves such runs out, and what guards against them is the bound
on node runs in `InductiveInv` alone. The arithmetic of the review's score, of the
token estimate and of the budget is the code's, scaled to integers.
`Execute` is `execute_generation` writing the history record, or not.

### TestAgentRun

The stages of `execute_test_agent_workflow_request` and
`execute_test_plan_request`: a plan by rules, by the model (with the selection
of its steps, the contract check and the fallback) or from the client; one
action per way a tool can end; the report from the runs. What an HTTP target or
pytest answers is a choice, evidence files that cannot be written included. A
client may send a plan whose requirements or steps repeat an id; what a report
says of such a plan is the code's, and the properties say where distinct ids are
needed.

Of a requirement's text the model knows what the rules take from it: the tool,
whether there is an endpoint, the statuses and whether there are fields to compare,
and whether a tool refuses what was taken (`refused`: `GET //x`, a path of more than
300 characters, a field `a..b`). `RuleStep` puts that into a step as it is:
`TestPlanGenerator.generate` validates no arguments, so a plan of the rules may have
"wrong" ones, and the step is then blocked. The model's arguments have `faults`, by
the part of them that is wrong; `Replaced` is what `_normalize_llm_tool_args` puts
something else in the place of, and `LlmArgs` what the contract check then finds.
Headers are not among the faults, since `_allowed_llm_http_headers` keeps only those
that pass. In `BuildReport` the id of a client's plan may be too long for the report
made of it (74 to 80 characters): a failure of that stage.

### KnowledgeApi

A check of the limiter is one step, since it is called on the event loop without
an `await`; ages count up to the window, so time has no horizon. A handler is as
many steps as it has calls to the Chroma collection (external), each of which
may raise. A record of `stored` stands for the chunks of one document, with the
bounds of each chunk computed as `_chunk_text` does, before it strips the chunk and
drops a blank one: that no text is lost is meant up to blanks. The limiter's deque of a
client is `bucket`, oldest first, and `Popped` is how far its loop gets that drops
what has left the window; `recent` and `told` are history.

### OperatorDrills

A drill is the list of commands it has still to run (`todo`); a command ends
with 0, with another code or with its timeout, and may have had its effect in
any case. `Finally` replaces the list when something is raised. The submitter
and the worker containers are processes of their own and outlive the client that
started them. A round fails on a job that failed (`Wait`), and also on jobs that all
succeeded with other numbers of reports, runs or artifacts than expected or
with too little throughput: losses named "unexpected" and "slow".

`Passed` is exit code 0, which is what a release goes by: nothing was raised. It is
not `result["ok"]`. `main` of the two worker drills prints PASS and returns 0 without a
look at it (`smoke_rq_mysql_worker_stability.py:726-741`,
`smoke_test_agent_workflow_rq_mysql.py:951-967`), so a `docker rm -f` that ends with
another code leaves a container behind a drill that has passed. `clean` is that part
of `result["ok"]`. `PassedMeansDone` promises that no container stays only where `clean`
holds; otherwise those may stay whose own removal did not end with 0.

### ReportEvaluation

What `TestAgentRun` leaves out of a report: its summary, its recommendations, of
which the words count that a script looks for (each stands at the place of its run), and
how a run's evidence looks in the markdown. Each of the three scripts is an operator that says whether a case
passes (`ReportCasePasses`, `ExecutionCasePasses`, `WorkflowCasePasses`), from
one operator per check; what two scripts do alike is written once, and their
difference (the normalisation of blanks in evidence) is a parameter. The
invariant compares every run that `TestAgentRun` can come to with the case that
was written from it, and with every case that differs from it in one step's end.
Expected test types, risk keywords, header values and quoted fragments of output
are left out: they compare texts.

### WorkflowEvaluation

`main` is `StartEvaluation` (with what the parser refuses), then `FinishEvaluation` or
`EvaluationRaises`. A thread of the pool takes a case (`BeginCase`), asks the
cache (`Look`), the model (`Post`), writes the answer (`WriteTemp`, `Replace`,
with the lock of the cache held between them) and judges what it has
(`EvaluateCase`). `local` has the thread-local values of the client, the cache
and the generator; they stay from one case of a thread to the next, which is the
point. An answer is an object with a plan or without, or JSON that is no object
("scalar"): the cache keeps that, too, but `_read_cached_response` takes its file for
none, so the prompt is sent again (`Usable`). Without an API key (`key`)
nothing is posted and there are no metrics (`MissKey`), though the cache still answers.
The checks of a case are those of `ReportEvaluation`; here an answer
passes them or not, chosen freely. Rates are rounded to four digits as in the code
(`Scale`). Of the thresholds the floor of the case pass rate is kept, the others
are a choice.

### ReleaseChecks and OperatorScripts

`SelectedChecks` is the list that `build_default_commands` returns for `asked`. A check
ends with any exit code, but for what its collection forbids; `CollectionAfter`
is what an ingest leaves. The smoke is one action for each request. Servers of
an older release and other programs hold the port, and answer in the place of
this release's server. `OperatorScripts` starts one of the three scripts; a
release waits for the drill or the evaluation that it has called
(`waitsFor`) and goes by its exit code. `MayCall` is a bound: the first release
calls other scripts, and is then the last one. A second release is there for
what the first leaves behind, which is its collections and its server.

## Runs

| Run | Instance | Shows |
| --- | --- | --- |
| `rq_safety` | 2 ids, 2 submitters, 2 workers, limit 1, thresholds 1, faults | `PromisedRowsCoherent`, `LiveJobsShowRunning`, `StartedOnce`, and that the backend implements `JobPromise` |
| `rq_limit_live` | 3 ids, 2 submitters, 1 worker, limit 1, no faults, fair | `Backpressure` (2 submitters do overrun a limit of 1, by no more than 1), `PromisedJobsFinish` |
| `rq_restart` | 2 ids, 1 submitter, 2 workers, faults, fair | `RestartsResolveRunning` |
| `memory` | 4 ids, 2 threads, 1 place, 1 caller of shutdown, fair | `RecordsMatchThreads`, `DrainedBeforeExit`, `ActiveBounded`, `JobPromise`, `AcceptedJobsFinish`, `ShutdownCompletes` |
| `stored` | 2 ids, 2 threads, 1 place, crashes, restarts and store errors, fair | `RowsFollowRecords`, `StoredJobPromise`, `SurvivorsTakeJobs`, `RestartsResolveRows`, `ShutdownCompletes` |
| `workflow_rq` | 2 ids, the API, 1 worker, both of which die, fair | `Story`, `RestartsResolveActive`, `LostJobsAreReported` |
| `gate` | 1 record, 3 requests, SQLite with a store built before and MySQL, fair | `WinnerIsShown`, `ConflictsHaveWinner`, `DecisionsAreFinal`, `RequestsAreAnswered` |
| `gate_sqlite_cold` | 1 record, 2 requests, SQLite, first requests of the process | `DecisionsAreFinal` is violated, see [Findings](#findings) |
| `generation_workflow` | 7 configurations, 3 requests, 5 answers, 3 attempts of 3 posts, 31 node runs | the inductive invariant (attempts, posts, node runs, budget), `GatesHold`, `RunnersAgree` |
| `test_agent_run` | 9 requests, 4 model answers, 4 client plans, 3 configurations | `PlanServesRequirements`, `ReportTellsRuns`, `FailuresNameTheirStage`, `EvaluationTellsRuns` |
| `knowledge_api` | 3 writing requests, 1 identity, 2 requests in a window of 2 s, half seconds | `LimitHolds`, `LaterRequestsWin`, `LossHasCause`, `ChunksCoverTexts` |
| `operator_scripts` | 4 drills, 2 workers, 1 or 2 rounds of 2 jobs; 3 cases, 2 threads, 2 evaluations of 17 command lines; 2 releases of 7 command lines | `ScriptsPassHonestly`, `LeftoversHaveCause`, `UntroubledDrillsPass`, `ObservationsAreOwn` |

**Why these bounds suffice.** Each hazard needs at most two actors and one
shared job, and one more job for the queue to be full or for a cleanup to come
with the other's submission; a third request in `GateHistory` lets one lose
while another waits, and in `KnowledgeApi` lets one come after another's end
while a third is at work. Thresholds of one tick separate "before", "at" and
"beyond" (ages 0, 1, 2). Three attempts let one fail for its answer and one for
its review before the last; 31 node runs are one short of what the longest
generation of three attempts takes, so that `OutOfSteps` happens. Two rounds of
which one fits into the kept output show both sides of that limit. Two of three
cases have one prompt, so that two threads meet in one file of the cache and a
second evaluation finds it there; the command lines have each refusal of the
parser, each kind of cache, one without a key, and the three that a release uses, with a key
and without; a case of the
rules passes, one fails and one raises. Where a
result is proved it holds without these bounds.
Ids are never reused (`uuid4`), so a run ends when the ids are used up; time and
reads go on, and the job models never deadlock. Requests to resolve a gate come
once each and a script ends, which is why the gate and script runs do not check
for deadlock; in `GenerationWorkflow` and `TestAgentRun` a finished run
stutters in `Done`.

**Fairness.** `RQGenerationJobs`: weak fairness of `Tick` (time passes), and
of each worker's recovery and work. A worker that is down is started again
(`restart: unless-stopped` in `docker-compose.yml`), RQ's loop runs for ever,
and a run ends: the LLM and tool calls have timeouts and RQ kills what outlasts
`rq_job_timeout_seconds`. Submitters, deaths and errors are never fair.
`MemoryGenerationQueue`: each worker thread, and a closer once it is inside
`shutdown`. `GateHistory`: a thread of the pool that may go on.
`StoredJobQueue`: a process that is down is started again, time, each thread,
and a `shutdown` that has begun. `WorkflowJobsRQ`: the API finishes what it has
begun and is started again (`Serve`), each worker works, RQ drops ids nobody
works on from its started registry (`Abandon`), time passes, and the operator's
check is run periodically (`Probe`), which is what it is for. The other modules
state no liveness and no fairness.

`RestartsResolveRunning` has a premise of its own, that workers are started
again and again: the recovery runs only when a worker starts, so without a
restart a row in `running` stays so. Rows left in `queued` by a submitter that
died before `enqueue`, or by a work horse that died before `mark_running`, are
in nobody's reach at all; no property says they are, and the hazard list does.
The two other families do not have that gap, as their recovery takes queued
rows: `RestartsResolveRows` and `RestartsResolveActive` say so, under the same
kind of premise. `LostJobsAreReported` is about the time between two restarts
and has the premise that the workers stay up. It also leans on submissions ending, as
ids are finite: jobs that reach Redis between the two counts of every check could hide a
lost row for ever.

## Proofs

Everything is proved with the SMT solver, Zenon and the PTL decision procedure,
from the named assumptions on the constants (`StoreAssumption`,
`SystemAssumption`, `MemoryAssumption`, `GatesAssumption`, `StoredAssumption`,
`WorkflowAssumption`, `AgentAssumption`, `KnowledgeAssumption`,
`EvaluationAssumption`, `DrillsAssumption`, `ReleaseAssumption`; `config.py`, the
request models and the parsers of the scripts enforce the ranges they name, and
TLC checks them in every run). What a theorem assumes beyond them is in its
statement: `NoOverrun`, `OneStore` and `FewCases`, each explained below.

**RQ backend** (`RQGenerationJobsProofs`). `TypeCorrect` and `BaseInvariant`
need nothing else. The others assume `NoOverrun == StaleAfter = 0 \/ RunLimit
<= StaleAfter`: the defaults satisfy it (900 s and 1800 s), but `config.py` does
not enforce it, and without it a recovery fails a job that is still running.
The safety properties are not inductive; `InductiveInv` adds why they hold:

- `SubmissionInv`: an id stays with its submitter until it is offered;
- `DeliveryInv`: an id is in Redis once, or in one pair of hands;
- `FreshInv`: a row that has not been run has no trace of a run;
- `RunInv`: a running row is no older than the run that a worker holds;
- `RecoveryInv`: what a recovery has selected is in nobody's hands and never
  will be again. With `RunInv` and `NoOverrun` a row past the threshold has no
  live run, which is what makes the SELECT-then-UPDATE safe.

There is a lemma per action and part; the lemmas at the head of the module turn
each statement of the store into facts about single columns, so that the action
lemmas need not open the table. `PromiseIsKept` is the refinement: each action
maps to a step of `JobPromise` or to a stutter under `ClientView`.
`LimitHolds` counts: active rows plus submitters past the check never exceed
the limit plus the other submitters (`LimitInv`).

**In-memory queue** (`MemoryGenerationQueueProofs`). `InductiveInv` is
`RecordsMatchThreads` with `ThreadsInv` (who holds a job), `AgesInv` (only
finished records have a finish time, so the cleanup takes no other) and
`PillsInv` (no job behind a pill). `AcceptedJobsAreRun` follows: when the last
thread has left, the queue holds only pills. `JobsAreBounded` counts: a job that
is active is in the queue or in one thread's hands, the queue has its places, and
so has the pool. `PromiseIsKept` maps each step to one of `JobPromise`, with the
record of a job, or its absence, as the client's view.

**Gates** (`GenerationProofs`, second part), under `OneStore` (every
deployment is MySQL or has its store built before). `GatesInv`:
`LockInv` and `StoreInv` give mutual exclusion, `ReadInv` says that what was
read under the lock is still so, and `RecordInv` that a decided gate has its
decider. `StepInv` proves with each step that decided records do not change,
which yields `DecisionsStand` as an action property. Without `OneStore` it is
false, as the next section says.

**In-memory queue with a table** (`StoredJobQueueProofs`). `InductiveInv` is
`RecordsMatchThreads` and `RowsFollowRecords` with `ThreadsInv` (who holds a
job, and that a process that is down holds nothing), `AgesInv` and `KnownInv` (a
job without a row is nowhere else). It is said and proved job by job: most steps
leave a job as it is, and one lemma settles those. `RowsFollow` is the part a
client depends on, since reads go to the table. `PromiseIsKept` is the refinement
of `StoredJobPromise`: a job's row only moves forward, where a restart or a full
queue may fail it, because `RowsFollowRecords` leaves no step that could move it
back.

**Jobs on Redis/RQ and MySQL** (`WorkflowJobsRQProofs`). `StoryHolds` is proved
from `WInv`, again one job at a time: `Delivery` (submitter, Redis, worker,
registry: one place) and `RowTells` (a job that is waiting anywhere has a queued
row, one that is run a running one, unless it was given up). `Undisturbed(k)` is
all that a recovery, a cleanup or a death may do to a job; `OtherJob` shows that
such a job keeps its part, so a step needs an argument for its own job only. No
assumption on times is made, which is why the story is told of jobs not given up: a
live job whose id a recovery has selected is failed by its UPDATE, and `Story` says
only that other rows are left alone.

**Generation** (`GenerationProofs`, first part). `InductiveInv` bounds the attempts
by `llm_max_retries + 1`, the posts by that number for each call, the node runs
by six before the first attempt and eight an attempt, and keeps what is sent
within the budget; for every configuration, retrieval and answer.
`RoomForEveryAttempt`: with a recursion limit of at least `16 + 8 * MaxRetries`
a generation is never ended by it. `generator.py:580` passes no limit and takes
the library's default; a default of 25, which LangGraph has had, is less than
the 32 that three attempts (`llm_max_retries = 2`) with reviews and a rewritten
query may need, and `requirements.txt` does not pin a version.

`AnswersPassGates` and `GraphAgreesWithLocal` rest on three more invariants, one
for each thing a node may rely on. `RetrievalInv`: every path to an attempt has
searched as often as the local runner would, and the contexts are those of the
last search. `GateInv`: from validation on, the cases are those of the last
answer, validated, then post-processed, and the review beside them is none or
their own. `AgreeInv` says at each node where the local runner is after the
results so far: before a call it is one attempt behind and lacks only the prompt,
after a call it has already judged the answer that the graph has still to
validate, post-process and review, and at the end it is where the graph is.
`TurnOverBudget`, `TurnRaises`, `TurnInvalid` and `TurnJudges` say what a turn of
its loop does, and `LocalAfterMore` that one result more is one turn more.

**Test agent** (`TestAgentRunProofs`). `InductiveInv` says what each stage may
find (`GoingOn`), the four ways a run ends (`Ending`), that there is one run of
each step so far, in order (`RunsFollowPlan`), and that a plan the workflow has
made serves its request (`MadePlanServes`: of the model's plans also that no tool refuses
their arguments, which rests on what `_validate_generated_plan` rejects and not on what
the rules write). `PlansServe`, `ReportsTellRuns` and
`FailuresAreTold` follow, the first two with lemmas about the loops that select
the model's steps, fill up from the rules and count a report. Requirements with
the same id, which a client may send, are why the part about each requirement's
own step is stated for distinct ids.

`EvaluationsTellRuns` is about a report that is done: the lemmas `WordsAgree` and
`RecommendationsHold` compare the words a recommendation is made of with the words
that the scripts look for, reason by reason; `OwnLast` and `OwnRun` say that, with
distinct ids, what a script finds under a step's id is that step's run, and
`OtherRunsDiffer` that a case with another end of one step differs in the counts,
the statuses or the defects that all three scripts compare. A plan whose ids repeat
may be judged by another step's run, which is why the invariant and the proof ask
for distinct ids.

**Knowledge base and limiter** (`KnowledgeApiProofs`). `InductiveInv` has
`ClientInv` (a client's bucket is what of its last admitted requests is in the
window, in order and no more than the limit, and `Retry-After` is when its oldest
leaves), and of the handlers `RequestInv` (where a request is and what it has
read), `RecordInv` (a stored record is what an ended request added), `OrderInv`
(a request deletes all that earlier ones stored and writes higher versions) and
`LossInv`. `LimitIsKept` is about every window, not only those that end with a
request. `LaterRequestsPrevail` rests on `OrderInv`: what a request has not read
was written by one that overlaps it. `ChunksAreComplete` is about every text
length and chunk size.

**Evaluations** (`OperatorScriptsProofs`, first part). `ObservationsAreOwn` speaks of
results; that they are a case's own has to be known while threads share a client,
a cache and thread-local values that outlive a case. `EvaluationInv` says so:
`ThreadsApart` (two threads have two cases, and none has one that is ended or not
begun), `ValuesAreOwn` (at each step of a thread, what its values may still be of an
earlier case and what they must be of this one), `ResultsAreOwn` and `CacheHolds`
(a file, also one a killed evaluation has left, is an answer that the model gave to
its prompt). That a prompt is not sent again holds for those whose file held an object
when the evaluation started (`kept`), and with the cache in use such a file goes on
holding one. `EvaluationsExitHonestly` adds `ExitHolds`, which computes the rate
and the line of history from the results. It assumes `FewCases`: no command line
selects 20000 cases or more. Rates are rounded to four digits, so that 19999 passes
of 20000 are a rate of 1.0 and would satisfy a floor of 1.0; the bound is exact.

**Drills** (same module, second part). `DrillInv` takes a program as what it is, a
list of which a part is done. `Follows` is the order of its commands (a stop is
followed by its outage and that by its restart), `OfWorkers` and `OfProbing` are
the two kinds of programs counted from their ends, since `Finally` cuts them
there. `ServicesReturn` and `ContainersGo` say of each service and each container
that it is in order, or that trouble is to blame, or that its command is still to
come; with nothing left to come that is `LeftoversCaused`. `ContainersGo` says also
that as long as nothing is raised the only trouble a container can stay for is its own
removal. `TroubleTells` (what is raised or unclean has its trouble) yields
`UntroubledPass`; `OutagesSeen`, `ContainersGo` and `RoundsDone` (each round's jobs have
succeeded before the next begins) yield `PassedDone`. The programs of any number of workers and rounds are shown to have
that form by `JoinPieces` and `WorkerProgramIs`. The number of rounds is at least 1
and has a largest value (`DrillsAssumption`), since
`_validate_stability_parameters` refuses others, and since the numbers of jobs go up to
the most rounds.

**Releases** (same module, third part). `ReleaseInv` has `FailuresTell` (a failure
is remembered and ends what `--fail-fast` is to end), `CollectionsOwn` (the list of
checks begins with the two that write the collections, so that a later one reads
what this release wrote or something has failed) and `SmokeTells` (who can have
answered). `CallsTell` relates a release to the scripts it has called: as long as
it has not failed, a called script that is over came to 0. `ScriptsHonest` puts the
three parts together; it inherits `FewCases`.

**Induction over data.** Post-processing, the local runner's loop, the selection
of steps and the chunks are recursive functions over a sequence or a number. That
such a function is defined, and what holds of its values, is proved by the least
counterexample: `AllNat` derives it from `WFMin`, which has no operator
parameter, for a set given by what is to be shown.

Only model-checked: the liveness properties (`PromisedJobsFinish`,
`RestartsResolveRunning`, `AcceptedJobsFinish`, `ShutdownCompletes`,
`SurvivorsTakeJobs`, `RestartsResolveRows`, `RestartsResolveActive`,
`LostJobsAreReported`, `RequestsAreAnswered`), as fairness is out of the provers'
reach. Every invariant and every action property that a run checks is stated by a
theorem. The inductive invariants were checked by TLC before they were proved, on
the instances of the runs; the runs check what follows from them.

## Findings

`gate_sqlite_cold`: `docs/agent-architecture.md:199` and
`tests/test_history.py:194` say that a resolved gate is not resolved again. On
SQLite, two resolve requests that are the first to use the history store of a
process can each build a store (`lru_cache` runs the factory in every thread
that asks before the first call has returned). With two locks both read
`pending`, both are answered 200, and the later decision overwrites the
earlier one. The same would follow from two API processes on one SQLite file,
which the deployment guide advises against. The condition that MySQL's UPDATE
has would close it.

Met while modelling, without a run of its own:

- The drills parse the JSON that their submitter prints from the last 4000
  characters `_run_compose` keeps of it
  (`scripts/smoke_rq_mysql_worker_stability.py:481` and `:538`,
  `scripts/smoke_test_agent_workflow_rq_mysql.py:639` and `:727`).
  `docs/deployment.md:175` and `docs/release-checklist.md:219` tell operators to
  run 5 rounds of 6 jobs, whose answer is longer: the drill then ends with "did
  not return JSON" although all rounds passed. `RoundsKept` is that limit, and
  `UntroubledDrillsPass` holds only up to it.
- The alert check of a round comes right after the last row has ended, when RQ
  may still have that job in its started registry; the drill then fails on an
  alert that would be gone a moment later. The model notes it as trouble of its
  own (`Alert`).
- A summary of a run's output that has a "|" is not found by the report and
  workflow evaluations unless the run failed, since the markdown table writes
  it as "\|", and one of several lines is not found by the report evaluation;
  a case with such evidence fails though its run is reported right
  (`EvaluationTellsRuns` says exactly when).
- Both worker drills exit with 0, and a release passes them, although
  `result["ok"]` is false because `docker rm -f` of a worker ended with another code:
  the container goes on and takes jobs. No doc says otherwise of the exit code;
  `PassedMeansDone` says exactly which containers may stay.
- What the rules take from a requirement's text is validated by nothing: a text with
  `GET //x` makes a plan whose step the HTTP adapter refuses, so it is blocked and not
  run. When the same text makes a plan of the model fail its validation, the
  fallback repeats it.
- A model's answer that is JSON and no object is written into the cache of the workflow
  evaluation and never read: each evaluation sends its prompt again.
- A client's plan with an id of 74 to 80 characters is executed whole, and then
  no report can be made of it: the error comes after the tools have run.
- A server that an earlier, killed release has left on the port answers the smoke
  of the next one, whose own server cannot start; the smoke passes on the older
  code (`ReleaseExitTells` says that only a program that held the port before can
  do so).
- A drill's commands have 240 s, and one round of the submitter may wait 180 s:
  two slow rounds run into the timeout of the command (`NotAnswered`).

<a name="plan"></a>
## What is left out, and the plan

Abstracted everywhere: contents of requests and responses, wording, logging,
the columns nothing tests. Twins are modelled once: the execution and the
workflow jobs (queue object, store, worker and check are the same but for names
and result columns), and the MySQL store of the generation jobs, which has the
conditions and assignments of the SQLite one.

Not modelled:

- metrics, readiness, exporters, redaction: counters under one lock each, reads
  and text; no state another part depends on;
- configuration, request models and routes: values and plumbing. The ranges they
  enforce are the assumptions on the constants and the sets of inputs;
- embeddings and the ranking of a search, the wording of prompts, the rewriting
  of a query: what they return is a choice of the model;
- coverage summaries and the rendering of reports beyond where evidence stands
  in it: formatting;
- the factories of the job queues, which `lru_cache` may run twice as it does
  the history store's. A second in-memory queue keeps jobs of its own that no
  later request finds;
- the evaluations of retrieval and of plans alone, and the load script: sequential
  programs that call the service and count; for a release they are a check that
  passes or fails;
- the frontend and what lies outside the process: LLM provider, Chroma, Redis,
  RQ, MySQL and docker are external and modelled by what the code relies on.

Next, in this order:

1. That a search of `GenerationWorkflow` sees what `KnowledgeApi` stores, in one
   composed module.
2. The queue factories' race in `MemoryGenerationQueue` and `StoredJobQueue`.
