---------------------------- MODULE TestAgentRun ----------------------------
(***************************************************************************)
(* One run of the test agent: a plan from the rules or from the language   *)
(* model, its steps executed by the tool adapters, the report about them.  *)
(* The same with a plan that the client sends (execute_test_plan_request). *)
(*                                                                         *)
(* A requirement is its id, the tool its text suggests, whether its text   *)
(* is too long for a step, names an endpoint, a status to expect ({} if it *)
(* does not) and fields to assert, and whether the tool's schema refuses   *)
(* the arguments that are taken from it.  The arguments of a step are "ok" *)
(* or "wrong" (they fail the schema of the tool), those of the model's     *)
(* answer are what is wrong with them; of a tool's summary only the words  *)
(* and codes count that the report's rules look for.                       *)
(***************************************************************************)
EXTENDS Integers, Sequences, FiniteSets, SequencesExt

CONSTANTS
    PlanRequests,   \* [requirements, described, maxSteps, useLlm, fallback]
    Payloads,       \* what the model may answer: [object, steps]
    ClientPlans,    \* plans a client may send: sequences of steps
    Configs,        \* [allowed, pytest]: base URL allowed, pytest enabled
    HttpStatuses,   \* status codes a target may answer with
    NoRequirement   \* a step of a request without requirements

VARIABLES
    kind,      \* "workflow" or "plan": which function runs
    config, request,
    stage,     \* what runs next
    plan,      \* its steps
    answer,    \* the steps the model answered with
    fellBack,  \* last_used_fallback
    runs,      \* tool runs so far
    artifacts, \* number of evidence files written
    timings,   \* stages that ended: [name, status]
    failure,   \* the exception that left the function
    report

inputs == <<kind, config, request>>
vars == <<inputs, stage, plan, answer, fellBack, runs, artifacts, timings, failure, report>>

Tools == {"http", "pytest", "playwright", "sql", "manual"}
Args == {"ok", "wrong"}
Faults == {"no_target", "target", "status", "assertions", "rest"}
Words == {"manual", "adapter", "assert", "json assertion failed", "token", "timeout"}
Stages == {"plan_generation", "tool_execution", "report_build"}

NoFailure == [stage |-> "none", code |-> "none"]
NoReport == [status |-> "none"]

Smaller(m, n) == IF m < n THEN m ELSE n

\* Requirements and plans of clients name themselves: ids may be repeated.
Requirements == [id : STRING, tool : Tools, long : BOOLEAN, endpoint : BOOLEAN,
                 expected : SUBSET Nat, asserts : BOOLEAN, refused : BOOLEAN]
Steps == [id : STRING, requirements : SUBSET STRING, tool : Tools, named : BOOLEAN,
          args : Args, expected : SUBSET Nat, asserts : BOOLEAN]
AnsweredSteps == [requirements : SUBSET STRING, tool : Tools, faults : SUBSET Faults,
                  expected : SUBSET Nat, asserts : BOOLEAN]

ASSUME AgentAssumption ==
    /\ PlanRequests # {}
    /\ PlanRequests \subseteq [requirements : Seq(Requirements), described : Requirements,
                               maxSteps : Nat \ {0}, useLlm : BOOLEAN, fallback : BOOLEAN]
    /\ Payloads \subseteq [object : BOOLEAN, steps : Seq(AnsweredSteps)]
    /\ ClientPlans \subseteq Seq(Steps)
    /\ Configs \subseteq [allowed : BOOLEAN, pytest : BOOLEAN]
    /\ HttpStatuses \subseteq Nat \ {0}
    /\ NoRequirement \notin Requirements

StepIds == IF kind = "workflow" THEN Nat ELSE STRING
PlannedSteps ==
    [id : StepIds, requirements : SUBSET STRING, tool : Tools, named : BOOLEAN,
     args : Args, expected : SUBSET Nat, asserts : BOOLEAN]
ToolRuns ==
    [step : StepIds, status : {"passed", "failed", "blocked", "skipped"},
     words : SUBSET Words, actual : Nat, expected : SUBSET Nat]

TypeOK ==
    /\ kind \in {"workflow", "plan"} /\ config \in Configs /\ request \in PlanRequests
    /\ stage \in Stages \cup {"build_service", "done"}
    /\ plan \in Seq(PlannedSteps)
    /\ answer \in Seq(AnsweredSteps) /\ fellBack \in BOOLEAN
    /\ runs \in Seq(ToolRuns) /\ artifacts \in Nat
    /\ timings \in Seq([name : Stages, status : {"succeeded", "failed"}])
    /\ failure \in [stage : Stages \cup {"none"},
                    code : {"none", "failed", "timeout", "raised", "workflow_failed"}]
    /\ report.status \in {"none", "passed", "failed", "blocked", "incomplete"}

-----------------------------------------------------------------------------
(* The plan. *)

\* request.requirements or [_requirement_from_description(request)]
Planned(req) ==
    IF req.requirements = <<>> THEN <<req.described>> ELSE req.requirements

FirstOf(seq, max) == SubSeq(seq, 1, Smaller(Len(seq), max))

\* A step for each of the first maxSteps requirements; an objective or a title
\* that is too long fails TestPlanStep's validation.
RulePlanFails(req) ==
    \E i \in 1 .. Smaller(req.maxSteps, Len(Planned(req))) : Planned(req)[i].long

\* _http_tool_args_for_requirement takes status and assertions from a text only
\* with an endpoint; without one it has a hint, the requirement's id.
FromText(req, tool) == req # NoRequirement /\ tool = "http" /\ req.endpoint

ExpectedOf(req, tool, default) ==
    IF FromText(req, tool) /\ req.expected # {} THEN req.expected ELSE default

Checked == {"http", "pytest"}

\* Nothing validates what the rules take from a text.
RuleStep(req, i) ==
    [id |-> i, requirements |-> {req.id}, tool |-> req.tool, named |-> TRUE,
     args |-> IF req.tool \in Checked /\ req.refused THEN "wrong" ELSE "ok",
     expected |-> ExpectedOf(req, req.tool, {200}),
     asserts |-> FromText(req, req.tool) /\ req.asserts]

RulePlan(req) ==
    LET chosen == FirstOf(Planned(req), req.maxSteps)
    IN  [i \in DOMAIN chosen |-> RuleStep(chosen[i], i)]

\* _find_llm_step_for_requirement: the first remaining step that names it, else
\* the first remaining step.
Choice(remaining, req) ==
    LET Names(i) == req.id \in remaining[i].requirements
    IN  IF \E i \in DOMAIN remaining : Names(i)
        THEN CHOOSE i \in DOMAIN remaining :
                Names(i) /\ \A k \in 1 .. i - 1 : ~Names(k)
        ELSE 1

\* A requirement takes its step out of those that remain.
TakeStep(acc, req) ==
    IF acc.remaining = <<>> THEN acc
    ELSE LET i == Choice(acc.remaining, req)
         IN  [remaining |-> RemoveAt(acc.remaining, i),
              selected |-> Append(acc.selected, [raw |-> acc.remaining[i], for |-> req])]

\* A faulty variant: the steps are taken in the model's order.
SelectedInOrder(raw, req) ==
    LET chosen == FirstOf(req.requirements, req.maxSteps)
    IN  [i \in 1 .. Smaller(Len(raw), Len(chosen)) |->
            [raw |-> raw[i], for |-> chosen[i]]]

\* Where the request has requirements, each takes its step in turn.
Selected(raw, req) ==
    IF req.requirements = <<>>
    THEN [i \in 1 .. Smaller(Len(raw), req.maxSteps) |->
             [raw |-> raw[i], for |-> NoRequirement]]
    ELSE LET wanted == FirstOf(req.requirements, req.maxSteps)
             taken[n \in 0 .. Len(wanted)] ==
                 IF n = 0 THEN [remaining |-> raw, selected |-> <<>>]
                 ELSE TakeStep(taken[n - 1], wanted[n])
         IN  taken[Len(wanted)].selected

\* The tool the requirement's text suggests, unless it suggests none.
LlmTool(raw, req) ==
    IF req # NoRequirement /\ req.tool # "manual" THEN req.tool ELSE raw.tool

\* The faults of the model's arguments that do not last: those of keys the tool
\* has not, and of what the requirement's text gives instead.  An endpoint comes
\* with its method, and with the status and the assertions that the text states;
\* a text without one gives a hint, or a test path, where the model gave none.
Replaced(req, tool) ==
    (IF tool = "pytest" THEN {"status", "assertions"} ELSE {})
        \cup (IF req = NoRequirement THEN {} ELSE {"no_target"})
        \cup (IF ~FromText(req, tool) THEN {}
              ELSE {"target"} \cup (IF req.expected = {} THEN {} ELSE {"status"})
                              \cup (IF req.asserts THEN {"assertions"} ELSE {}))

LlmArgs(raw, req) ==
    LET tool == LlmTool(raw, req)
        taken == req # NoRequirement
                    /\ (FromText(req, tool) \/ "no_target" \in raw.faults)
    IN  IF tool \in Checked
              /\ (raw.faults \ Replaced(req, tool) # {} \/ (taken /\ req.refused))
        THEN "wrong" ELSE "ok"

LlmPlan(payload, req) ==
    LET chosen == Selected(payload.steps, req)
    IN  [i \in DOMAIN chosen |->
            LET raw == chosen[i].raw
                owner == chosen[i].for
            IN  [id |-> i,
                 requirements |-> IF owner = NoRequirement THEN raw.requirements
                                  ELSE {owner.id},
                 named |-> owner # NoRequirement /\ owner.id \in raw.requirements,
                 tool |-> LlmTool(raw, owner), args |-> LlmArgs(raw, owner),
                 expected |-> ExpectedOf(owner, LlmTool(raw, owner), raw.expected),
                 asserts |-> raw.asserts
                                \/ (FromText(owner, LlmTool(raw, owner)) /\ owner.asserts)]]

\* _plan_from_llm_payload and _validate_generated_plan: no steps, a requirement
\* without a step, or arguments the tool would refuse.
LlmPlanFails(payload, req) ==
    LET steps == LlmPlan(payload, req)
        covered == UNION {steps[i].requirements : i \in DOMAIN steps}
    IN  \/ ~payload.object
        \/ steps = <<>>
        \/ \E i \in DOMAIN FirstOf(req.requirements, req.maxSteps) :
              req.requirements[i].id \notin covered
        \/ \E i \in DOMAIN steps : steps[i].args # "ok"

-----------------------------------------------------------------------------
(* The report. *)

\* summarize_report_status; no run is left queued or running.
StatusOf(statuses) ==
    IF "failed" \in statuses THEN "failed"
    ELSE IF "blocked" \in statuses THEN "blocked"
    ELSE IF "passed" \in statuses THEN "passed" ELSE "incomplete"

\* run_by_step_id: the last run of a step id stands for all of them.
RunOfStep(rs, id) == rs[CHOOSE i \in DOMAIN rs :
    rs[i].step = id /\ \A k \in i + 1 .. Len(rs) : rs[k].step # id]

\* A faulty variant: the last step of a requirement decides.
CoverageByLastStep(steps, rs) ==
    [r \in UNION {steps[i].requirements : i \in DOMAIN steps} |->
        LET last == CHOOSE i \in DOMAIN steps :
                /\ r \in steps[i].requirements
                /\ \A k \in i + 1 .. Len(steps) : r \notin steps[k].requirements
        IN  RunOfStep(rs, steps[last].id).status = "passed"]

\* A requirement of the plan's steps is covered by any step that passed.
RequirementCoverage(steps, rs) ==
    [r \in UNION {steps[i].requirements : i \in DOMAIN steps} |->
        \E i \in DOMAIN steps : /\ r \in steps[i].requirements
                                /\ RunOfStep(rs, steps[i].id).status = "passed"]

\* _reason_classification, by the words and codes in a run's summary.
Reason(run) ==
    LET Has(word) == word \in run.words
        http == run.actual # 0
    IN  CASE run.status = "blocked" ->
                IF Has("adapter") THEN "adapter_missing" ELSE "blocked_environment"
          [] run.status = "skipped" -> "manual_confirmation_required"
          [] OTHER ->
                IF Has("json assertion failed") THEN "response_assertion_mismatch"
                ELSE IF Has("assert") THEN "assertion_mismatch"
                ELSE IF run.actual = 504 \/ Has("timeout") THEN "timeout"
                ELSE IF run.actual = 401 \/ Has("token") THEN "auth_failure"
                ELSE IF run.actual = 403 THEN "permission_denied"
                ELSE IF run.actual = 409 THEN "conflict"
                ELSE IF run.actual = 422 \/ Has("validation") THEN "validation_error"
                ELSE IF run.actual >= 500 THEN "upstream_unavailable"
                ELSE IF http /\ 403 \in run.expected /\ run.actual \in 200 .. 299
                     THEN "permission_not_enforced"
                ELSE IF http THEN "http_status_mismatch" ELSE "tool_execution_error"

Explained == {"failed", "blocked", "skipped"}

\* The reasons are kept by step id as well: the last run of an id wins.
Reasons(rs) ==
    [id \in {rs[i].step : i \in {k \in DOMAIN rs : rs[k].status \in Explained}} |->
        LET last == CHOOSE i \in DOMAIN rs :
                /\ rs[i].step = id /\ rs[i].status \in Explained
                /\ \A k \in i + 1 .. Len(rs) :
                      ~(rs[k].step = id /\ rs[k].status \in Explained)
        IN  Reason(rs[last])]

Report(steps, rs) ==
    [status |-> StatusOf({rs[i].status : i \in DOMAIN rs}),
     coverage |-> RequirementCoverage(steps, rs),
     defects |-> [i \in DOMAIN rs |-> rs[i].status = "failed"],
     reasons |-> Reasons(rs)]

-----------------------------------------------------------------------------
EmptyRequest == CHOOSE r \in PlanRequests : TRUE

Init ==
    /\ config \in Configs
    /\ \/ /\ kind = "workflow" /\ request \in PlanRequests
          /\ plan = <<>> /\ stage = "plan_generation"
       \/ /\ kind = "plan" /\ request = EmptyRequest
          /\ plan \in ClientPlans /\ stage = "build_service"
    /\ answer = <<>> /\ fellBack = FALSE /\ runs = <<>> /\ artifacts = 0
    /\ timings = <<>> /\ failure = NoFailure /\ report = NoReport

\* _run_stage around an operation that succeeds, and the stage after it.
StageDone(name, next) ==
    /\ timings' = Append(timings, [name |-> name, status |-> "succeeded"])
    /\ stage' = next /\ UNCHANGED failure

\* A faulty variant: the failed stage is recorded and its exception swallowed.
StageFailsSilently(name, code) ==
    /\ timings' = Append(timings, [name |-> name, status |-> "failed"])
    /\ stage' = "done" /\ UNCHANGED failure

\* The operation raises: in the workflow the error names its stage and whether
\* it was a timeout; execute_test_plan_request lets the exception through.
StageFails(name, code) ==
    /\ timings' = Append(timings, [name |-> name, status |-> "failed"])
    /\ failure' = IF kind = "workflow" THEN [stage |-> name, code |-> code]
                  ELSE [stage |-> "none", code |-> "raised"]
    /\ stage' = "done"

(* Plan generation. *)

RulesGenerate ==
    \/ /\ ~RulePlanFails(request)
       /\ plan' = RulePlan(request)
       /\ StageDone("plan_generation", "build_service")
    \/ /\ RulePlanFails(request) /\ UNCHANGED plan
       /\ StageFails("plan_generation", "failed")

GenerateByRules ==
    /\ stage = "plan_generation" /\ ~request.useLlm
    /\ RulesGenerate
    /\ UNCHANGED <<inputs, answer, fellBack, runs, artifacts, report>>

\* The rules take over where the request allows it.
FallBack(code) ==
    IF request.fallback
    THEN fellBack' = TRUE /\ RulesGenerate
    ELSE UNCHANGED <<fellBack, plan>> /\ StageFails("plan_generation", code)

GenerateByLlm ==
    /\ stage = "plan_generation" /\ request.useLlm
    /\ \/ \E payload \in Payloads :
             /\ answer' = payload.steps
             /\ IF LlmPlanFails(payload, request) THEN FallBack("failed")
                ELSE /\ plan' = LlmPlan(payload, request) /\ UNCHANGED fellBack
                     /\ StageDone("plan_generation", "build_service")
       \/ /\ UNCHANGED answer                                     \* LLMError
          /\ \E code \in {"timeout", "failed"} : FallBack(code)
       \/ /\ UNCHANGED <<plan, answer, fellBack>>                         \* any other
          /\ StageFails("plan_generation", "failed")
    /\ UNCHANGED <<inputs, runs, artifacts, report>>

\* build_tool_execution_service: in the workflow it is called between two
\* stages, so its error names none.
BuildService ==
    /\ stage = "build_service"
    /\ IF config.allowed
       THEN stage' = "tool_execution" /\ UNCHANGED <<timings, failure>>
       ELSE IF kind = "plan" THEN StageFails("tool_execution", "failed")
       ELSE /\ failure' = [stage |-> "none", code |-> "workflow_failed"]
            /\ stage' = "done" /\ UNCHANGED timings
    /\ UNCHANGED <<inputs, plan, answer, fellBack, runs, artifacts, report>>

(* Tool execution, one step of the plan after the other. *)

Step == plan[Len(runs) + 1]
Executing(tools) ==
    stage = "tool_execution" /\ Len(runs) < Len(plan) /\ Step.tool \in tools

Run(status, words, actual) ==
    [step |-> Step.id, status |-> status, words |-> words, actual |-> actual,
     expected |-> Step.expected]

Ran(run, written) ==
    /\ runs' = Append(runs, run)
    /\ artifacts' = artifacts + written
    /\ UNCHANGED <<inputs, stage, plan, answer, fellBack, timings, failure, report>>

SkipManual == Executing({"manual"}) /\ Ran(Run("skipped", {"manual"}, 0), 0)

NoAdapter ==
    /\ Executing({"playwright", "sql"} \cup (IF config.pytest THEN {} ELSE {"pytest"}))
    /\ Ran(Run("blocked", {"adapter"}, 0), 0)

\* HTTPToolAdapter.run: arguments or headers refused (the summary then holds the
\* name of the exception, ToolAdapterValidationError), or httpx.HTTPError.
HttpBlocked ==
    /\ Executing({"http"})
    /\ \/ Ran(Run("blocked", {"adapter"}, 0), 0)
       \/ Step.args = "ok" /\ Ran(Run("blocked", {}, 0), 0)

\* An answer: the status and the JSON assertions decide, the evidence is kept,
\* and the summary speaks of assertions that passed as of those that failed;
\* a path may hold a word the report looks for.
HttpAnswered ==
    /\ Executing({"http"}) /\ Step.args = "ok"
    /\ \E actual \in HttpStatuses, holds \in (IF Step.asserts THEN BOOLEAN ELSE {TRUE}),
          path \in {{}, {"token"}} :
          Ran(Run(IF actual \in Step.expected /\ holds THEN "passed" ELSE "failed",
                  path \cup (IF Step.asserts THEN {"assert"} ELSE {})
                       \cup (IF holds THEN {} ELSE {"json assertion failed"}),
                  actual), 1)

\* PytestToolAdapter.run: a path that is refused, a timeout, an OSError.
PytestBlocked ==
    /\ Executing({"pytest"}) /\ config.pytest
    /\ \/ Ran(Run("blocked", {"adapter"}, 0), 0)
       \/ Step.args = "ok" /\ Ran(Run("blocked", {}, 0), 0)

PytestRan ==
    /\ Executing({"pytest"}) /\ config.pytest /\ Step.args = "ok"
    /\ \E status \in {"passed", "failed"}, words \in {{}, {"assert"}, {"timeout"}, {"token"}} :
          Ran(Run(status, words, 0), 1)

\* The HTTP adapter does not catch the OSError of its evidence file: the stage
\* fails and with it every run before this one is lost.
EvidenceFails ==
    /\ Executing({"http"}) /\ Step.args = "ok"
    /\ StageFails("tool_execution", "failed")
    /\ UNCHANGED <<inputs, plan, answer, fellBack, runs, artifacts, report>>

ExecuteStep ==
    \/ SkipManual \/ NoAdapter \/ HttpBlocked \/ HttpAnswered
    \/ PytestBlocked \/ PytestRan \/ EvidenceFails

ExecutePlanDone ==
    /\ stage = "tool_execution" /\ Len(runs) = Len(plan)
    /\ StageDone("tool_execution", "report_build")
    /\ UNCHANGED <<inputs, plan, answer, fellBack, runs, artifacts, report>>

\* The report's id is the plan's with a prefix: that of a client's plan may be
\* too long for it (the error of that stage is not among its timings).
BuildReport ==
    /\ stage = "report_build"
    /\ \/ /\ report' = Report(plan, runs)
          /\ StageDone("report_build", "done")
       \/ /\ kind = "plan"
          /\ failure' = [stage |-> "none", code |-> "raised"]
          /\ stage' = "done" /\ UNCHANGED <<timings, report>>
    /\ UNCHANGED <<inputs, plan, answer, fellBack, runs, artifacts>>

Done == stage = "done" /\ UNCHANGED vars

Next ==
    \/ GenerateByRules \/ GenerateByLlm \/ BuildService
    \/ ExecuteStep \/ ExecutePlanDone \/ BuildReport \/ Done

Spec == Init /\ [][Next]_vars

-----------------------------------------------------------------------------
DistinctIds == \A i, j \in DOMAIN plan : plan[i].id = plan[j].id => i = j

\* A plan of the model has no arguments that a tool would refuse, also where a
\* requirement's text goes into them (those of the rules are not validated), and
\* in any plan each of the first max_steps requirements is named by a step.  Where
\* their ids are distinct, each has one step of its own, in their order, which
\* expects the status that the text states with its endpoint, whatever the model
\* says, and it gets the step that the model wrote for it, if the model wrote one
\* for each of the requirements up to it: only a requirement without a step of its
\* own can take the step of a later one (_select_llm_step_payloads,
\* _normalize_llm_http_tool_args, _validate_generated_plan).
PlanServesRequirements ==
    kind = "workflow" /\ plan # <<>> =>
        LET wanted == FirstOf(request.requirements, request.maxSteps)
        IN  /\ DistinctIds /\ Len(plan) <= request.maxSteps
            /\ request.useLlm /\ ~fellBack => \A i \in DOMAIN plan : plan[i].args = "ok"
            /\ \A i \in DOMAIN wanted : \E k \in DOMAIN plan :
                  plan[k].requirements = {wanted[i].id}
            /\ wanted # <<>> /\ IsInjective([i \in DOMAIN wanted |-> wanted[i].id]) =>
                  /\ Len(plan) = Len(wanted)
                  /\ \A i \in DOMAIN wanted :
                        /\ plan[i].requirements = {wanted[i].id}
                        /\ FromText(wanted[i], plan[i].tool) =>
                              wanted[i].expected \in {{}, plan[i].expected}
                  /\ \A i \in DOMAIN wanted :
                        (\A k \in 1 .. i : \E j \in DOMAIN answer :
                            answer[j].requirements = {wanted[k].id}) => plan[i].named

\* A report is about the whole plan: one run of each step, in order.  A green
\* report has no failed or blocked step, and where step ids are distinct a
\* requirement counts as covered exactly if a step of its own passed, every step
\* that did not pass has its reason, and only those (build_execution_report).
ReportTellsRuns ==
    report # NoReport =>
        /\ [i \in DOMAIN runs |-> runs[i].step] = [i \in DOMAIN plan |-> plan[i].id]
        /\ report.status = "passed" =>
              /\ \A i \in DOMAIN runs : runs[i].status \in {"passed", "skipped"}
              /\ \E i \in DOMAIN runs : runs[i].status = "passed"
        /\ DistinctIds =>
              /\ \A i \in DOMAIN plan : \A r \in plan[i].requirements :
                    report.coverage[r] <=> \E k \in DOMAIN plan :
                        r \in plan[k].requirements /\ runs[k].status = "passed"
              /\ \A i \in DOMAIN plan :
                    plan[i].id \in DOMAIN report.reasons <=> runs[i].status # "passed"

\* How a run ended is told by its stages: they are in order, only the last of
\* them can have failed, a failure names the stage that failed last, and there
\* is a report or a failure and not both.  A failure without a stage can only be
\* the configuration's, between two stages (execute_test_agent_workflow_request).
FailuresNameTheirStage ==
    stage = "done" =>
        /\ (report = NoReport) <=> (failure # NoFailure)
        /\ \A i \in DOMAIN timings : timings[i].status = "failed" => i = Len(timings)
        /\ kind = "workflow" =>
              IF failure.code = "workflow_failed"
              THEN ~config.allowed /\ Len(timings) = 1 /\ runs = <<>>
              ELSE failure # NoFailure =>
                      Last(timings) = [name |-> failure.stage, status |-> "failed"]
=============================================================================
