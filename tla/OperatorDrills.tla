---------------------------- MODULE OperatorDrills ----------------------------
(***************************************************************************)
(* The drills an operator runs against the compose stack.  Two of them     *)
(* stop Redis and MySQL and watch the checks fail and recover: "outage"    *)
(* (smoke_runtime_dependency_outage.py) and "jitter"                       *)
(* (smoke_service_mode_dependency_jitter.py).  Two start worker containers *)
(* and have a submitter container send them rounds of jobs: "stability"    *)
(* (smoke_rq_mysql_worker_stability.py) and "workflow"                     *)
(* (smoke_test_agent_workflow_rq_mysql.py).                                *)
(*                                                                         *)
(* A drill is a list of docker commands, each with a timeout: todo.  A     *)
(* command ends with exit code 0, with another, or with the timeout, which *)
(* kills the client and not what it has started; one that did not end with *)
(* 0 may have had its effect.  What the scripts do in finally is the list  *)
(* that replaces todo when something is raised.                            *)
(***************************************************************************)
EXTENDS Integers, Sequences, FiniteSets, FiniteSetsExt, Functions

CONSTANTS
    WorkerNames,     \* _worker_names: the names of the worker containers
    RoundCounts,     \* the values of --rounds
    JobsPerRound,    \* --jobs-per-round
    RoundsKept,      \* the most rounds whose answer has no more characters than
                     \* _run_compose keeps of its output: 4000
    RecoverRetries   \* recover_retries

ASSUME DrillsAssumption ==
    /\ WorkerNames \in Seq(STRING) /\ WorkerNames # <<>> /\ IsInjective(WorkerNames)
    /\ JobsPerRound \in Nat \ {0}
    /\ RecoverRetries \in Nat \ {0} /\ RoundsKept \in Nat
    /\ RoundCounts \subseteq Nat \ {0}
    /\ \E most \in RoundCounts : \A r \in RoundCounts : r <= most

Services == {"redis", "mysql"}
Workers == Range(WorkerNames)

VARIABLES
    script,      \* which drill
    probes,      \* the services it probes, in order
    rounds,      \* --rounds
    todo,        \* the commands it has still to run
    tries,       \* failed attempts of the check it is at
    begun,       \* how many names started_worker_names has
    raised,      \* whether an exception is on its way out
    clean,       \* all(step.ok for step in steps)
    up,          \* the services that run
    containers,  \* the worker containers that exist
    doing,       \* the job of a worker, or 0
    job,         \* the rows of the jobs, numbered as submitted
    registry,    \* the started registry of RQ
    submitter,   \* the submitter container: "none", "submitting", "waiting",
                 \* "alert", "done", "failed" or "dead"
    round,       \* its round
    seen,        \* history: the services whose outage was checked while down
    trouble      \* history: the commands that did not end with 0, and what else
                 \* went wrong that the drill is there to find

drillArgs == <<script, probes, rounds>>
control == <<todo, tries, begun, raised, clean>>
jobs == <<doing, job, registry>>
submission == <<submitter, round>>
history == <<seen, trouble>>
drillVars == <<drillArgs, control, up, containers, jobs, submission, history>>

Command(do, on) == [do |-> do, on |-> on]
Numbers == 1 .. Max(RoundCounts) * JobsPerRound
OfRound(r) == (r - 1) * JobsPerRound + 1 .. r * JobsPerRound

Outcomes == {"ok", "failed", "timeout"}
StartsWorkers == script \in {"stability", "workflow"}
At(do) == todo # <<>> /\ Head(todo).do = do
On == Head(todo).on
Over == todo = <<>>

\* PASS and exit code 0.  The worker drills do not look at result["ok"] for it, in
\* which clean is; of the others no step is in the result that did not succeed.
Passed == Over /\ ~raised

-----------------------------------------------------------------------------
(* What the scripts run, in order *)

\* The checks of the baseline and after a recovery.
Checks(s) ==
    IF s = "outage" THEN <<Command("check", "queue")>>
    ELSE <<Command("check", "readiness"), Command("check", "alerts"),
           Command("check", "load")>>

Probe(s, service) ==
    <<Command("stop", service), Command("outage", service),
      Command("restart", service)>> \o Checks(s)

OutageProgram(s, services) ==
    Checks(s)
      \o (IF Len(services) = 2 THEN Probe(s, services[1]) \o Probe(s, services[2])
          ELSE Probe(s, services[1]))
      \o (IF s = "jitter" THEN <<Command("check", "alerts")>> ELSE <<>>)

Removal(n) == [i \in 1 .. n |-> Command("remove", WorkerNames[i])]

WorkerProgram ==
    [i \in DOMAIN WorkerNames |-> Command("run", WorkerNames[i])]
      \o <<Command("submit", "jobs")>> \o Removal(Len(WorkerNames))

\* start_services and initialize_mysql are options.
Setups(s) ==
    LET start == <<Command("start", "all")>>
        init == <<Command("setup", "init")>>
        api == <<Command("setup", "api")>>
    IN  CASE s \in {"outage", "jitter"} -> {<<>>, start}
          [] s = "stability" -> {<<>>, start, init, start \o init}
          [] s = "workflow" -> {<<>>, start \o api, init, start \o api \o init}

\* Who does not have the drill start the services has started them.
DrillsInit ==
    /\ script \in {"outage", "jitter", "stability", "workflow"}
    /\ rounds \in RoundCounts
    /\ \E setup \in Setups(script) :
          /\ up \in IF setup # <<>> /\ setup[1].do = "start" THEN SUBSET Services
                    ELSE {Services}
          /\ IF StartsWorkers
             THEN probes = <<>> /\ todo = setup \o WorkerProgram
             ELSE /\ probes \in {<<"redis">>, <<"mysql">>, <<"redis", "mysql">>}
                  /\ todo = setup \o OutageProgram(script, probes)
    /\ tries = 0 /\ begun = 0 /\ raised = FALSE /\ clean = TRUE
    /\ containers = {} /\ doing = [w \in Workers |-> 0]
    /\ job = [n \in Numbers |-> "none"] /\ registry = {}
    /\ submitter = "none" /\ round = 1
    /\ seen = {} /\ trouble = {}

-----------------------------------------------------------------------------
(* One command after the other *)

CommandDone == todo' = Tail(todo) /\ UNCHANGED raised

\* A faulty variant: the workers are removed after a submission only.
FinallyNothing(then) == todo' = <<>> /\ raised' = TRUE

\* What is left to run once something is raised: the commands in finally.
Finally(then) == todo' = then /\ raised' = TRUE

Noted(outcome) ==
    trouble' = IF outcome = "ok" THEN trouble
               ELSE trouble \cup {<<Head(todo).do, On>>}

\* up -d of the services, and what is run in a container before the workers.
Setup ==
    /\ At("start") \/ At("setup")
    /\ \E outcome \in Outcomes :
          /\ IF outcome = "ok" THEN CommandDone ELSE Finally(<<>>)
          /\ Noted(outcome)
          /\ IF At("setup") THEN UNCHANGED up
             ELSE IF outcome = "ok" THEN up' = Services
             ELSE \E some \in SUBSET Services : up' = up \cup some
    /\ UNCHANGED <<drillArgs, tries, begun, clean, containers, jobs, submission, seen>>

\* A check that has to succeed.  An exit code is tried again, but for the load's;
\* a timeout, which is not the script's own error, is not.
Check ==
    /\ At("check")
    /\ \E outcome \in Outcomes :
          /\ outcome = "ok" => up = Services
          /\ IF outcome = "failed" /\ On # "load" /\ tries + 1 < RecoverRetries
             THEN tries' = tries + 1 /\ UNCHANGED <<todo, raised, trouble>>
             ELSE /\ tries' = 0 /\ Noted(outcome)
                  /\ IF outcome = "ok" THEN CommandDone ELSE Finally(<<>>)
    /\ UNCHANGED <<drillArgs, begun, clean, up, containers, jobs, submission, seen>>

\* Before the try: what it raises does not restart the service.
Stop ==
    /\ At("stop")
    /\ \E outcome \in Outcomes :
          /\ IF outcome = "ok" THEN CommandDone ELSE Finally(<<>>)
          /\ Noted(outcome)
          /\ up' \in IF outcome = "ok" THEN {up \ {On}} ELSE {up, up \ {On}}
    /\ UNCHANGED <<drillArgs, tries, begun, clean, containers, jobs, submission, seen>>

\* In the try: the check has to fail, with a word for the service in its output,
\* which other errors have as well ("redis", "mysql").
Outage ==
    /\ At("outage")
    /\ \E outcome \in Outcomes :
          /\ IF outcome = "ok" THEN CommandDone ELSE Finally(<<Command("restart", On)>>)
          /\ Noted(outcome)
          /\ seen' = IF outcome = "ok" THEN seen \cup ({On} \ up) ELSE seen
    /\ UNCHANGED <<drillArgs, tries, begun, clean, up, containers, jobs, submission>>

Restart ==
    /\ At("restart")
    /\ \E outcome \in Outcomes :
          /\ IF outcome = "ok" THEN CommandDone ELSE Finally(<<>>)
          /\ Noted(outcome)
          /\ up' \in IF outcome = "ok" THEN {up \cup {On}} ELSE {up, up \cup {On}}
    /\ UNCHANGED <<drillArgs, tries, begun, clean, containers, jobs, submission, seen>>

\* run -d --name; the name is kept for the removal once the command has returned.
RunWorker ==
    /\ At("run")
    /\ \E outcome \in Outcomes :
          /\ IF outcome = "ok" THEN CommandDone /\ begun' = begun + 1
             ELSE Finally(Removal(begun)) /\ UNCHANGED begun
          /\ Noted(outcome)
          /\ containers' \in IF outcome = "ok" THEN {containers \cup {On}}
                             ELSE {containers, containers \cup {On}}
    /\ UNCHANGED <<drillArgs, tries, clean, up, jobs, submission, seen>>

\* rm -f in the finally: an exit code is kept for the result, a timeout leaves
\* the loop.
RemoveWorker ==
    /\ At("remove")
    /\ \E outcome \in Outcomes :
          /\ IF outcome = "timeout" THEN Finally(<<>>) ELSE CommandDone
          /\ clean' = (clean /\ outcome # "failed")
          /\ Noted(outcome)
          /\ containers' \in IF outcome = "ok" THEN {containers \ {On}}
                             ELSE {containers, containers \ {On}}
    /\ UNCHANGED <<drillArgs, tries, begun, up, jobs, submission, seen>>

\* run of the submitter container.
Submit ==
    /\ At("submit") /\ submitter = "none"
    /\ submitter' = "submitting"
    /\ UNCHANGED <<drillArgs, control, up, containers, jobs, round, history>>

\* The answer is the JSON text that the submitter has printed, if it is all kept.
Answered ==
    /\ At("submit") /\ submitter \in {"done", "failed"}
    /\ IF submitter = "done" /\ rounds <= RoundsKept THEN CommandDone
       ELSE Finally(Removal(begun))
    /\ UNCHANGED <<drillArgs, tries, begun, clean, up, containers, jobs, submission, history>>

\* Docker fails, or the time is over: the container may go on.
NotAnswered ==
    /\ At("submit") /\ submitter # "none"
    /\ Finally(Removal(begun)) /\ Noted("timeout")
    /\ submitter' \in {submitter, "dead"}
    /\ UNCHANGED <<drillArgs, tries, begun, clean, up, containers, jobs, round, seen>>

Drill ==
    \/ Setup \/ Check \/ Stop \/ Outage \/ Restart
    \/ RunWorker \/ RemoveWorker \/ Submit \/ Answered \/ NotAnswered

-----------------------------------------------------------------------------
(* run_submitter_smoke, in its container *)

Lose(what, how) == submitter' = "failed" /\ trouble' = trouble \cup {<<what, how>>}

\* One job of the round after the other; a store or Redis may raise.
SubmitJob ==
    /\ submitter = "submitting"
    /\ LET n == Min({m \in OfRound(round) : job[m] = "none"})
       IN  \/ /\ job' = [job EXCEPT ![n] = "queued"]
              /\ submitter' = IF n = round * JobsPerRound THEN "waiting" ELSE submitter
              /\ UNCHANGED trouble
           \/ Lose("submit", "raises") /\ UNCHANGED job
    /\ UNCHANGED <<drillArgs, control, up, containers, doing, registry, round, seen>>

Ended(n) == job[n] \in {"succeeded", "failed"}

\* A faulty variant: the jobs are read once.
WaitOnce ==
    /\ submitter = "waiting"
    /\ IF \A n \in OfRound(round) : Ended(n)
       THEN submitter' = IF \A n \in OfRound(round) : job[n] = "succeeded" THEN "alert"
                         ELSE "failed"
       ELSE submitter' = "failed"
    /\ UNCHANGED <<drillArgs, control, up, containers, jobs, round, history>>

\* Until all have ended; a job that failed fails the round.  The deadline raises,
\* and of jobs that all succeeded so do reports, tool runs, artifacts or covered
\* requirements that are not as many as expected.
Wait ==
    /\ submitter = "waiting"
    /\ \/ /\ \A n \in OfRound(round) : Ended(n)
          /\ submitter' = IF \A n \in OfRound(round) : job[n] = "succeeded" THEN "alert"
                          ELSE "failed"
          /\ UNCHANGED trouble
       \/ Lose("jobs", "unexpected")
    /\ UNCHANGED <<drillArgs, control, up, containers, jobs, round, seen>>

\* The thresholds of the drills: no active row, nothing queued or started in RQ,
\* and a worker.
AlertsClean ==
    /\ \A n \in Numbers : job[n] \notin {"queued", "running"}
    /\ registry = {} /\ containers # {}

\* Asked once, as soon as the rows have ended.  RQ takes a job out of its started
\* registry after run_..._job has written the row and returned.  After the last
\* round of the workflow drill its throughput may be below the thresholds.
Alert ==
    /\ submitter = "alert"
    /\ \/ ~AlertsClean /\ Lose("jobs", "started") /\ UNCHANGED round
       \/ AlertsClean /\ round < rounds /\ round' = round + 1 /\ submitter' = "submitting"
            /\ UNCHANGED trouble
       \/ AlertsClean /\ round = rounds /\ submitter' = "done" /\ UNCHANGED <<round, trouble>>
       \/ AlertsClean /\ round = rounds /\ script = "workflow"
            /\ Lose("jobs", "slow") /\ UNCHANGED round
    /\ UNCHANGED <<drillArgs, control, up, containers, jobs, seen>>

Submitter == SubmitJob \/ Wait \/ Alert

-----------------------------------------------------------------------------
(* The workers of the drill *)

Take(w) ==
    /\ w \in containers /\ doing[w] = 0
    /\ LET queued == {n \in Numbers : job[n] = "queued"}
       IN  /\ queued # {}
           /\ doing' = [doing EXCEPT ![w] = Min(queued)]
           /\ job' = [job EXCEPT ![Min(queued)] = "running"]
           /\ registry' = registry \cup {Min(queued)}
    /\ UNCHANGED <<drillArgs, control, up, containers, submission, history>>

Finish(w) ==
    /\ w \in containers /\ doing[w] # 0 /\ job[doing[w]] = "running"
    /\ \E status \in {"succeeded", "failed"} :
          /\ job' = [job EXCEPT ![doing[w]] = status]
          /\ trouble' = IF status = "failed" THEN trouble \cup {<<"job", "failed">>} ELSE trouble
    /\ UNCHANGED <<drillArgs, control, up, containers, doing, registry, submission, seen>>

Return(w) ==
    /\ w \in containers /\ doing[w] # 0 /\ Ended(doing[w])
    /\ registry' = registry \ {doing[w]}
    /\ doing' = [doing EXCEPT ![w] = 0]
    /\ UNCHANGED <<drillArgs, control, up, containers, job, submission, history>>

DrillsNext ==
    \/ Drill
    \/ Submitter
    \/ \E w \in Workers : Take(w) \/ Finish(w) \/ Return(w)

DrillsSpec == DrillsInit /\ [][DrillsNext]_drillVars

-----------------------------------------------------------------------------
\* A drill that leaves with 0 has done what it is for: every probed service was
\* seen to be down and runs again, and every job of every round succeeded and left
\* RQ.  That no worker container remains is not part of it: one does where its
\* own removal ended with another code, and only the result's "ok" tells (main).
PassedMeansDone ==
    Passed =>
        /\ up = Services /\ seen = {probes[i] : i \in DOMAIN probes}
        /\ registry = {}
        /\ clean => containers = {}
        /\ \A w \in containers : <<"remove", w>> \in trouble
        /\ StartsWorkers => \A n \in 1 .. rounds * JobsPerRound : job[n] = "succeeded"

\* Whichever command fails, a service stays down only if a command on it did not
\* end with 0, and a worker container stays only if its own run or removal did
\* not, or an earlier removal ran out of time (the finally of the drills).
LeftoversHaveCause ==
    Over =>
        /\ \A s \in Services \ up :
              <<"start", "all">> \in trouble \/ <<"stop", s>> \in trouble
                \/ <<"restart", s>> \in trouble
        /\ \A i \in DOMAIN WorkerNames : WorkerNames[i] \in containers =>
              \/ <<"run", WorkerNames[i]>> \in trouble
              \/ \E k \in 1 .. i : <<"remove", WorkerNames[k]>> \in trouble

\* A drill in which every command ended with 0 and every job succeeded in time,
\* with the reports and the throughput that are expected of them, passes, and its
\* result is ok, unless its alert check came before RQ had seen the last job out,
\* or its submitter's answer is longer than what is kept of it: then it is not JSON.
UntroubledDrillsPass ==
    Over /\ trouble = {} /\ (StartsWorkers => rounds <= RoundsKept) => Passed /\ clean
=============================================================================
