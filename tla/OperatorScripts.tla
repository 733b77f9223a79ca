---------------------------- MODULE OperatorScripts ----------------------------
(***************************************************************************)
(* The scripts that operators start: a drill, evaluations, or the checks   *)
(* of a release, which start drills and evaluations of their own and go by *)
(* their exit codes.                                                       *)
(***************************************************************************)
EXTENDS OperatorDrills, WorkflowEvaluation, ReleaseChecks

VARIABLES
    operator, \* what the operator starts: "drill", "evaluation" or "release"
    waitsFor, \* what the release waits for: "none", "drill" or "evaluation"
    calledBy  \* the release that called the "drill" and the last "evaluation", or 0

calling == <<operator, waitsFor, calledBy>>
scriptVars == <<drillVars, evaluationVars, releaseVars, calling>>

-----------------------------------------------------------------------------
(* How a release starts the others *)

DrillOf ==
    [outage |-> "runtime-dependency-outage-smoke",
     stability |-> "rq-mysql-worker-stability-smoke",
     workflow |-> "test-agent-workflow-rq-mysql-smoke"]

\* Their defaults: both services, which they start themselves, and one round.
DrillOfRelease ==
    /\ script \in DOMAIN DrillOf /\ rounds = 1
    /\ Head(todo) = Command("start", "all")
    /\ script = "outage" => probes = <<"redis", "mysql">>
    /\ StartsWorkers => Command("setup", "init") \in Range(todo)

EvaluationOf ==
    LET default == [ids |-> <<>>, from |-> 0, to |-> Len(CaseFile), llm |-> FALSE,
                    fallback |-> FALSE, key |-> TRUE, cache |-> "none", concurrency |-> 1,
                    delayed |-> FALSE, floor |-> Scale, others |-> FALSE, history |-> FALSE]
        asking == [default EXCEPT !.llm = TRUE, !.delayed = TRUE]
    IN  [name \in Range(<<"test-agent-workflow-eval", "llm-test-agent-workflow-eval",
                          "llm-test-agent-workflow-benchmark">>) |->
            CASE name = "test-agent-workflow-eval" -> default
              [] name = "llm-test-agent-workflow-eval" -> asking
              [] OTHER -> [asking EXCEPT !.floor = 0, !.others = TRUE, !.history = TRUE]]

ScriptsInit ==
    /\ DrillsInit /\ EvaluationInit /\ ReleaseInit
    /\ operator \in {"drill", "evaluation", "release"}
    \* A drill that nobody starts is any one of them.
    /\ operator = "evaluation" => script = "outage"
    /\ operator # "drill" => DrillOfRelease /\ up = {}
    /\ operator # "release" => port = "free"
    /\ waitsFor = "none" /\ calledBy = [drill |-> 0, evaluation |-> 0]

\* A bound: only the first release calls other scripts, and is then the last one.
MayCall == releases = 1
Called == calledBy.drill # 0 \/ calledBy.evaluation # 0

DrillIsNext ==
    /\ AtCheck /\ ~Dry /\ waitsFor = "none" /\ MayCall /\ calledBy.drill = 0
    /\ script \in DOMAIN DrillOf /\ SelectedChecks[at] = DrillOf[script]

EvaluationIsNext ==
    /\ AtCheck /\ ~Dry /\ waitsFor = "none" /\ MayCall /\ ~Running /\ started < Evaluations
    /\ SelectedChecks[at] \in DOMAIN EvaluationOf

\* subprocess.run of a drill, and of an evaluation, with the release's environment.
CallDrill ==
    /\ DrillIsNext
    /\ waitsFor' = "drill" /\ calledBy' = [calledBy EXCEPT !.drill = releases]
    /\ UNCHANGED <<drillVars, evaluationVars, releaseVars, operator>>

DrillReturns ==
    /\ waitsFor = "drill" /\ Over /\ CheckEnds(Passed) /\ waitsFor' = "none"
    /\ UNCHANGED <<drillVars, evaluationVars, operator, calledBy>>

CallEvaluation ==
    /\ EvaluationIsNext
    /\ StartEvaluation
    /\ \E key \in BOOLEAN : command' = [EvaluationOf[SelectedChecks[at]] EXCEPT !.key = key]
    /\ waitsFor' = "evaluation" /\ calledBy' = [calledBy EXCEPT !.evaluation = releases]
    /\ UNCHANGED <<drillVars, releaseVars, operator>>

EvaluationReturns ==
    /\ waitsFor = "evaluation" /\ ~Running /\ CheckEnds(exitCode = "0")
    /\ waitsFor' = "none"
    /\ UNCHANGED <<drillVars, evaluationVars, operator, calledBy>>

\* Any other check, and one whose script has no run left in these bounds.
OtherCheck ==
    /\ waitsFor = "none" /\ ~DrillIsNext /\ ~EvaluationIsNext
    /\ \E ok \in BOOLEAN : CheckEnds(ok)
    /\ UNCHANGED <<drillVars, evaluationVars, calling>>

\* What a killed release has called goes on.
ReleaseSteps ==
    /\ operator = "release"
    /\ \/ CallDrill \/ DrillReturns \/ CallEvaluation \/ EvaluationReturns \/ OtherCheck
       \/ /\ \/ StartRelease /\ ~Called
             \/ FinishRelease \/ Smoke
             \/ waitsFor = "none" /\ (CheckRaises \/ CheckIsPrinted)
          /\ UNCHANGED <<drillVars, evaluationVars, calling>>
       \/ /\ KillRelease /\ waitsFor' = "none"
          /\ UNCHANGED <<drillVars, evaluationVars, operator, calledBy>>

DrillSteps ==
    /\ operator = "drill" \/ calledBy.drill # 0
    /\ DrillsNext /\ UNCHANGED <<evaluationVars, releaseVars, calling>>

EvaluationSteps ==
    /\ operator = "evaluation" \/ (calledBy.evaluation # 0 /\ Running)
    /\ EvaluationNext /\ UNCHANGED <<drillVars, releaseVars, calling>>

ScriptsNext == ReleaseSteps \/ DrillSteps \/ EvaluationSteps

ScriptsSpec == ScriptsInit /\ [][ScriptsNext]_scriptVars

-----------------------------------------------------------------------------
\* Exit code 0 of any of the scripts means what operators take it for: a drill did
\* what it is for (but for a container that its removal left), an evaluation has
\* all its results, the checks of a release all left with 0, and the drill and the
\* evaluation among them, too.  So a release that has asked for the model's
\* evaluation leaves with 0 only if the model's plans passed every case of the
\* file (main of the scripts, run_check).
ScriptsPassHonestly ==
    /\ PassedMeansDone /\ EvaluationExitTells /\ ReleaseExitTells
    /\ releaseCode = "0" =>
          /\ calledBy.drill = releases => Passed
          /\ calledBy.evaluation = releases => exitCode = "0"
=============================================================================
