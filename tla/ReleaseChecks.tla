----------------------------- MODULE ReleaseChecks -----------------------------
(***************************************************************************)
(* scripts/run_release_checks.py: the checks before a release, each a      *)
(* command of its own, and at the end, if that is asked for, the smoke     *)
(* with the language model: a server is started, has to refuse one request *)
(* and to answer another, and is stopped.  Releases follow each other in   *)
(* one checkout: the collections in its data directory and a server that   *)
(* was not stopped outlive them.                                           *)
(*                                                                         *)
(* How a check ends is a choice, but a retrieval evaluation, whose cases   *)
(* expect sources, cannot pass on a collection without documents.          *)
(***************************************************************************)
EXTENDS Integers, Sequences, FiniteSets

CONSTANTS
    ReleaseLines, \* what the script is started with
    Releases      \* how often

\* What is done unless it is to be skipped, and what only if it is asked for.
Skips ==
    {"skip_rag_eval", "skip_pytest", "skip_type_check", "skip_test_plan_eval",
     "skip_test_report_eval", "skip_test_execution_eval",
     "skip_test_agent_workflow_eval", "skip_recovery_smoke",
     "skip_monitoring_check", "skip_readiness_check", "skip_queue_check",
     "skip_secret_scan", "skip_diff_check"}
Includes ==
    {"include_frontend_check", "include_llm_test_plan_eval",
     "include_llm_workflow_eval", "include_llm_workflow_benchmark",
     "include_runtime_outage_smoke", "include_rq_mysql_worker_stability_smoke",
     "include_test_agent_workflow_rq_mysql_smoke", "include_queue_alert_check",
     "include_monitoring_stack_smoke", "include_monitoring_rollout_check",
     "include_deployment_security_check", "include_llm_smoke"}
Options == Skips \cup Includes \cup {"fail_fast", "dry_run"}

ASSUME ReleaseAssumption ==
    (\A line \in ReleaseLines : line \subseteq Options) /\ Releases \in Nat

VARIABLES
    asked,       \* args
    at,          \* the check to run next
    failed,      \* as in main
    releaseCode, \* "unused" before the first release, "running", "0", "1" or "killed"
    collections, \* the documents of a collection: "none", "part" of them, all of an
                 \* "older" release, or all of this "own" one
    smoke,       \* "none", "health", "refusal", "answer", "stop" or "over"
    verdict,     \* of the smoke: "none", "passed", "failed" or "raised"
    server,      \* this release's server: "none", "starting", "serving" or "exited"
    port,        \* who serves the port: nobody, "own", a server "left" by an
                 \* older release, or some "other" program
    releases,    \* how often the script was started
    firstFailed, \* history: the first check that failed, or 0
    readers,     \* history: who passed on a collection that is not this release's
    answered     \* history: who gave the answers of the smoke that passed

progress == <<asked, at, failed, releaseCode>>
serving == <<smoke, verdict, server, port, answered>>
past == <<releases, firstFailed, readers>>
releaseVars == <<progress, collections, serving, past>>

-----------------------------------------------------------------------------
(* build_default_commands *)

Unless(option, names) == IF option \in asked THEN <<>> ELSE names
IfAsked(option, names) == IF option \in asked THEN names ELSE <<>>

CodeChecks ==
    Unless("skip_rag_eval", <<"login-rag-ingest", "refund-rag-ingest",
                              "login-rag-eval", "refund-rag-eval">>)
    \o Unless("skip_pytest", <<"pytest-core">>)
    \o Unless("skip_type_check", <<"type-check-test-agent">>)
    \o IfAsked("include_frontend_check", <<"frontend-test", "frontend-build">>)

PlanChecks ==
    Unless("skip_test_plan_eval", <<"test-plan-eval">>)
    \o IfAsked("include_llm_test_plan_eval", <<"llm-test-plan-eval">>)
    \o Unless("skip_test_report_eval", <<"test-report-eval">>)
    \o Unless("skip_test_execution_eval", <<"test-execution-eval">>)

WorkflowChecks ==
    Unless("skip_test_agent_workflow_eval", <<"test-agent-workflow-eval">>)
    \o IfAsked("include_llm_workflow_eval", <<"llm-test-agent-workflow-eval">>)
    \o IfAsked("include_llm_workflow_benchmark", <<"llm-test-agent-workflow-benchmark">>)

SmokeChecks ==
    Unless("skip_recovery_smoke",
           <<"generation-recovery-smoke", "test-plan-execution-worker-smoke",
             "test-plan-execution-runtime-smoke">>)
    \o IfAsked("include_runtime_outage_smoke", <<"runtime-dependency-outage-smoke">>)
    \o IfAsked("include_rq_mysql_worker_stability_smoke", <<"rq-mysql-worker-stability-smoke">>)
    \o IfAsked("include_test_agent_workflow_rq_mysql_smoke",
               <<"test-agent-workflow-rq-mysql-smoke">>)

DeploymentChecks ==
    IfAsked("include_queue_alert_check", <<"queue-alert-check">>)
    \o IfAsked("include_monitoring_stack_smoke", <<"monitoring-stack-smoke">>)
    \o IfAsked("include_monitoring_rollout_check", <<"monitoring-rollout-check">>)
    \o IfAsked("include_deployment_security_check", <<"deployment-security-check">>)
    \o Unless("skip_monitoring_check", <<"monitoring-metrics-check">>)
    \o Unless("skip_readiness_check", <<"readiness-check">>)
    \o Unless("skip_queue_check",
              <<"generation-queue-check", "test-plan-execution-queue-check",
                "test-agent-workflow-queue-check">>)
    \o Unless("skip_secret_scan", <<"secret-scan">>)
    \o Unless("skip_diff_check", <<"git-diff-check">>)

SelectedChecks == CodeChecks \o PlanChecks \o WorkflowChecks \o SmokeChecks \o DeploymentChecks

\* The collections that the checks write and read, by their environment.
Ingests == [login |-> "login-rag-ingest", refund |-> "refund-rag-ingest"]
Reads == [login |-> "login-rag-eval", refund |-> "refund-rag-eval"]
Collections == {"login", "refund"}

-----------------------------------------------------------------------------
(* main, up to the smoke *)

Releasing == releaseCode = "running"
Dry == "dry_run" \in asked
AtCheck == Releasing /\ at <= Len(SelectedChecks)
ChecksOver == Releasing /\ at > Len(SelectedChecks)

ReleaseInit ==
    /\ asked = {} /\ at = 1 /\ failed = FALSE /\ releaseCode = "unused"
    /\ collections = [c \in Collections |-> "none"]
    /\ smoke = "none" /\ verdict = "none" /\ server = "none"
    /\ port \in {"free", "other"} /\ answered = "nobody"
    /\ releases = 0 /\ firstFailed = 0 /\ readers = {}

StartRelease ==
    /\ ~Releasing /\ releases < Releases /\ releases' = releases + 1
    /\ asked' \in ReleaseLines
    /\ at' = 1 /\ failed' = FALSE /\ releaseCode' = "running"
    /\ collections' = [c \in Collections |->
                          IF collections[c] = "own" THEN "older" ELSE collections[c]]
    /\ smoke' = "none" /\ verdict' = "none" /\ server' = "none" /\ answered' = "nobody"
    /\ port' = IF port = "own" THEN "left" ELSE port
    /\ firstFailed' = 0 /\ readers' = {}

\* An ingest that fails may have deleted the collection, and come to some of its
\* documents.
CollectionAfter(c, name, ok) ==
    IF name # Ingests[c] THEN {collections[c]}
    ELSE IF ok THEN {"own"} ELSE {collections[c], "none", "part"}

\* A faulty variant: the last check decides.
FailedAtLast(ok) == ~ok

FailedAfter(ok) == failed \/ ~ok

\* run_check: the next check exits with 0, or not; a failed ingest does not keep
\* the evaluations after it from being run.
CheckEnds(ok) ==
    LET name == SelectedChecks[at]
    IN  /\ AtCheck /\ ~Dry
        /\ \A c \in Collections : ok /\ name = Reads[c] => collections[c] # "none"
        /\ collections' \in {now \in [Collections -> {"none", "part", "older", "own"}] :
               \A c \in Collections : now[c] \in CollectionAfter(c, name, ok)}
        /\ readers' = readers \cup {name : c \in {d \in Collections :
               ok /\ name = Reads[d] /\ collections[d] # "own"}}
        /\ at' = at + 1 /\ failed' = FailedAfter(ok)
        /\ firstFailed' = IF ~ok /\ firstFailed = 0 THEN at ELSE firstFailed
        /\ releaseCode' = IF ~ok /\ "fail_fast" \in asked THEN "1" ELSE "running"
        /\ UNCHANGED <<asked, serving, releases>>

\* Its program is not found: the exception ends the release.
CheckRaises ==
    /\ AtCheck /\ ~Dry
    /\ releaseCode' = "1"
    /\ firstFailed' = IF firstFailed = 0 THEN at ELSE firstFailed
    /\ UNCHANGED <<asked, at, failed, collections, serving, releases, readers>>

CheckIsPrinted ==
    /\ AtCheck /\ Dry
    /\ at' = at + 1
    /\ UNCHANGED <<asked, failed, releaseCode, collections, serving, past>>

-----------------------------------------------------------------------------
(* run_llm_smoke *)

SmokeDue == "include_llm_smoke" \in asked /\ ~Dry

StartSmoke ==
    /\ ChecksOver /\ SmokeDue /\ smoke = "none"
    /\ smoke' = "health" /\ server' = "starting"
    /\ UNCHANGED <<progress, collections, verdict, port, answered, past>>

\* The server takes the port, or ends since it cannot.
ServerStarts ==
    /\ Releasing /\ server = "starting"
    /\ \/ port = "free" /\ port' = "own" /\ server' = "serving"
       \/ server' = "exited" /\ UNCHANGED port
    /\ UNCHANGED <<progress, collections, smoke, verdict, answered, past>>

ServerDies ==
    /\ Releasing /\ server = "serving"
    /\ server' = "exited" /\ port' = "free"
    /\ UNCHANGED <<progress, collections, smoke, verdict, answered, past>>

\* What the requests of the smoke come to; whoever serves the port answers them.
\* Nobody does, or not in time: that is raised.
SmokeGoesOn(from, to) ==
    /\ Releasing /\ smoke = from
    /\ \/ port # "free" /\ smoke' = to /\ UNCHANGED verdict
       \/ smoke' = "stop" /\ verdict' = "raised"
       \/ from # "health" /\ port # "free" /\ smoke' = "stop" /\ verdict' = "failed"
    /\ UNCHANGED <<progress, collections, server, port, answered, past>>

WaitForHealth == SmokeGoesOn("health", "refusal")

\* 409 with the code of the quality gate.
PostSmall == SmokeGoesOn("refusal", "answer")

\* 200 with a review that passed.
PostFull ==
    \/ SmokeGoesOn("answer", "stop") /\ verdict' # "none"
    \/ /\ Releasing /\ smoke = "answer" /\ port # "free"
       /\ smoke' = "stop" /\ verdict' = "passed" /\ answered' = port
       /\ readers' = IF port = "own" /\ collections["login"] # "own"
                     THEN readers \cup {"llm-smoke"} ELSE readers
       /\ UNCHANGED <<progress, collections, server, port, releases, firstFailed>>

\* The finally: terminate, and kill after a while.  Where the server outlives
\* that as well, the second wait raises.
StopServer ==
    /\ Releasing /\ smoke = "stop" /\ smoke' = "over"
    /\ \/ /\ server' = "none" /\ port' = IF port = "own" THEN "free" ELSE port
          /\ UNCHANGED verdict
       \/ /\ server # "exited" /\ verdict' = "raised"
          /\ UNCHANGED <<server, port>>
    /\ UNCHANGED <<progress, collections, answered, past>>

-----------------------------------------------------------------------------
(* The end *)

FinishRelease ==
    /\ ChecksOver /\ (SmokeDue => smoke = "over")
    /\ releaseCode' = IF failed \/ verdict \in {"failed", "raised"} THEN "1" ELSE "0"
    /\ UNCHANGED <<asked, at, failed, collections, serving, past>>

\* A signal that python does not turn into an exception: the finally is not run.
KillRelease ==
    /\ Releasing /\ releaseCode' = "killed"
    /\ server' = "none"
    /\ port' \in CASE server = "serving" -> {"left"}
                   [] server = "starting" /\ port = "free" -> {"left", "free"}
                   [] OTHER -> {port}
    /\ UNCHANGED <<asked, at, failed, collections, smoke, verdict, answered, past>>

Smoke ==
    \/ StartSmoke \/ ServerStarts \/ ServerDies
    \/ WaitForHealth \/ PostSmall \/ PostFull \/ StopServer

-----------------------------------------------------------------------------
\* Exit code 0 of a release that was not only printed says that every check that
\* was not to be skipped exited with 0, that the retrieval evaluations and the
\* smoke used the documents that this release ingested, unless that was skipped,
\* and that the smoke passed and its server is gone; only a program that held the
\* port before can have answered in its place, and then holds it still.  After a
\* failure under --fail-fast no check and no server is started (main).
ReleaseExitTells ==
    /\ releaseCode = "0" /\ ~Dry =>
          /\ firstFailed = 0 /\ at = Len(SelectedChecks) + 1
          /\ "skip_rag_eval" \notin asked => readers = {}
          /\ "include_llm_smoke" \in asked =>
                /\ verdict = "passed" /\ server = "none"
                /\ answered = "own" \/ (answered = port /\ port \in {"left", "other"})
    /\ firstFailed # 0 /\ "fail_fast" \in asked =>
          /\ releaseCode \in {"1", "killed"} /\ smoke = "none"
          /\ at <= firstFailed + 1
=============================================================================
