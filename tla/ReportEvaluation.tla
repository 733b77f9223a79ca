--------------------------- MODULE ReportEvaluation ---------------------------
(***************************************************************************)
(* What the evaluation scripts check of a run of the test agent: three     *)
(* scripts compare plan, runs and report with what a case of their file    *)
(* expects.  evaluate_test_report.py takes the runs from the case,         *)
(* evaluate_test_execution.py the plan, and                                *)
(* evaluate_test_agent_workflow.py the requirements.                       *)
(*                                                                         *)
(* Of a recommendation only the words count that the scripts look for, and *)
(* of a run's evidence how it looks in the markdown: an artifact's path,   *)
(* or its summary, which may have several lines or hold a "|".  Step ids   *)
(* are compared whole, where the scripts look for them in texts.           *)
(***************************************************************************)
EXTENDS TestAgentRun, FiniteSetsExt

Evidence == {"artifact", "plain", "lines", "bar"}

-----------------------------------------------------------------------------
(* The rest of the report *)

\* _summary
SummaryOf(steps, rs) ==
    LET covered == RequirementCoverage(steps, rs)
    IN  [status |-> StatusOf({rs[i].status : i \in DOMAIN rs}),
         executed |-> <<Len(rs), Len(steps)>>,
         coverage |-> <<Cardinality({r \in DOMAIN covered : covered[r]}),
                        Cardinality(DOMAIN covered)>>,
         counts |-> [status \in Explained \cup {"passed"} |->
                        Cardinality({i \in DOMAIN rs : rs[i].status = status})]]

\* A faulty variant: a blocked step is told to be set up, whatever the reason.
RecommendationWithoutReason(status, reason) ==
    CASE status = "blocked" -> {"handle", "configure", "dependency", "parameters"}
      [] status = "skipped" -> {"manual", "confirm", "add", "adapter"}
      [] OTHER -> {"recheck", "assertion", "business rule"}

\* _recommendation_for_run
Recommendation(status, reason) ==
    CASE status = "blocked" ->
            {"handle", "configure"} \cup
            IF reason = "adapter_missing" THEN {"adapter", "enable"}
            ELSE {"dependency", "parameters"}
      [] status = "skipped" ->
            {"confirm", "add", "adapter"} \cup
            IF reason = "manual_confirmation_required" THEN {"manual"} ELSE {}
      [] reason = "timeout" -> {"recheck", "timeout", "retry", "upstream", "configure"}
      [] reason = "conflict" -> {"recheck", "idempotent", "conflict", "handle"}
      [] reason = "permission_denied" -> {"recheck", "permission", "configure", "identity"}
      [] reason = "permission_not_enforced" ->
            {"fix", "permission", "permission check", "check", "confirm", "overreach"}
      [] reason = "upstream_unavailable" -> {"recheck", "upstream", "dependency"}
      [] reason = "auth_failure" ->
            {"recheck", "authentication", "token", "handle", "configure"}
      [] reason = "validation_error" -> {"recheck", "parameters", "check"}
      [] reason = "response_assertion_mismatch" ->
            {"recheck", "response field", "JSON assertion", "assertion"}
      [] OTHER -> {"recheck", "assertion", "business rule"}

ExplainedRuns(rs) == {i \in DOMAIN rs : rs[i].status \in Explained}

\* _recommendations, each at the place of its run; an empty report has one more,
\* of no step.
Recommendations(rs) ==
    LET reasons == Reasons(rs)
    IN  [i \in ExplainedRuns(rs) |->
            [step |-> rs[i].step,
             words |-> Recommendation(rs[i].status, reasons[rs[i].step])]]

\* The table of the runs, where "|" is written "\|" and a line's end a blank; a
\* defect stands once more in a list of its own, "|" and all.
InMarkdown(run, evidence, normalized) ==
    CASE evidence \in {"artifact", "plain"} -> TRUE
      [] evidence = "lines" -> normalized
      [] OTHER -> run.status = "failed"

-----------------------------------------------------------------------------
(* The checks *)

StepsOf(rs, statuses) == {rs[i].step : i \in {k \in DOMAIN rs : rs[k].status \in statuses}}

SummaryMatches(summary, steps, rs, rep) ==
    /\ summary.status = rep.status
    /\ summary.executed = <<Len(rs), Len(steps)>>
    /\ summary.coverage = <<Cardinality({r \in DOMAIN rep.coverage : rep.coverage[r]}),
                            Cardinality(DOMAIN rep.coverage)>>
    /\ \A status \in Explained \cup {"passed"} :
          summary.counts[status] = Quantify(DOMAIN rs, LAMBDA i : rs[i].status = status)

CoverageMatches(rep, expected) ==
    /\ \A r \in expected.covered : r \in DOMAIN rep.coverage /\ rep.coverage[r]
    /\ \A r \in expected.uncovered : r \in DOMAIN rep.coverage /\ ~rep.coverage[r]

DefectsMatch(rs, rep, expected) ==
    LET defects == {rs[i].step : i \in {k \in DOMAIN rs : rep.defects[k]}}
    IN  defects = expected.defects /\ defects \subseteq StepsOf(rs, {"failed"})

\* Where a case does not say which steps are to be recommended, shown and told
\* how to go on, it is those that did not pass.
RecommendationsGround(rs) ==
    \A id \in StepsOf(rs, Explained) :
        \E i \in DOMAIN Recommendations(rs) : Recommendations(rs)[i].step = id

ReasonWords ==
    [timeout |-> {"timeout", "retry"}, conflict |-> {"idempotent", "conflict"},
     permission_denied |-> {"permission", "identity"},
     permission_not_enforced |-> {"permission check", "overreach"},
     upstream_unavailable |-> {"upstream", "dependency"},
     auth_failure |-> {"authentication", "token"},
     validation_error |-> {"parameters", "check"},
     response_assertion_mismatch |-> {"response field", "JSON assertion"},
     adapter_missing |-> {"adapter", "enable"},
     manual_confirmation_required |-> {"manual", "confirm"},
     assertion_mismatch |-> {"assertion", "business rule"}]

\* By the reasons the case expects, not those of the report.
RecommendationsGiveReasons(rs, expected) ==
    \A id \in DOMAIN expected.reasons : expected.reasons[id] \in DOMAIN ReasonWords =>
        \E i \in DOMAIN Recommendations(rs) :
            /\ Recommendations(rs)[i].step = id
            /\ ReasonWords[expected.reasons[id]] \subseteq Recommendations(rs)[i].words

ActionWords == [failed |-> {"recheck", "inspect", "locate", "fix"},
                blocked |-> {"handle", "configure", "fix", "restore"},
                skipped |-> {"confirm", "add"}]

\* Of the runs of a step id that did not pass the last one counts.
LastExplained(rs, id) == CHOOSE i \in ExplainedRuns(rs) :
    /\ rs[i].step = id
    /\ \A k \in ExplainedRuns(rs) : k > i => rs[k].step # id

RecommendationsSayNext(rs) ==
    \A id \in StepsOf(rs, Explained) :
        \E i \in DOMAIN Recommendations(rs) :
            /\ Recommendations(rs)[i].step = id
            /\ Recommendations(rs)[i].words
                  \cap ActionWords[rs[LastExplained(rs, id)].status] # {}

EvidenceShown(rs, evidence, normalized) ==
    \A id \in StepsOf(rs, Explained) :
        LET last == LastExplained(rs, id)
        IN  InMarkdown(rs[last], evidence[last], normalized)

-----------------------------------------------------------------------------
(* The cases *)

StatusesOf(rs) ==
    [id \in {rs[i].step : i \in DOMAIN rs} |-> RunOfStep(rs, id).status]

\* What a case expects that was written from these runs of these steps.
Expected(steps, rs) ==
    LET rep == Report(steps, rs)
    IN  [tools |-> {steps[i].tool : i \in DOMAIN steps}, count |-> Len(steps),
         status |-> rep.status, statuses |-> StatusesOf(rs), reasons |-> rep.reasons,
         covered |-> {r \in DOMAIN rep.coverage : rep.coverage[r]},
         uncovered |-> {r \in DOMAIN rep.coverage : ~rep.coverage[r]},
         defects |-> StepsOf(rs, {"failed"}), blocked |-> StepsOf(rs, {"blocked"})]

\* evaluate_test_report.py
ReportCasePasses(steps, rs, rep, expected, evidence) ==
    /\ rep.status = expected.status
    /\ SummaryMatches(SummaryOf(steps, rs), steps, rs, rep)
    /\ CoverageMatches(rep, expected) /\ DefectsMatch(rs, rep, expected)
    /\ rep.reasons = expected.reasons
    /\ RecommendationsGround(rs) /\ RecommendationsGiveReasons(rs, expected)
    /\ RecommendationsSayNext(rs) /\ EvidenceShown(rs, evidence, FALSE)

\* evaluate_test_execution.py
ExecutionCasePasses(steps, rs, rep, expected) ==
    /\ rep.status = expected.status
    /\ SummaryMatches(SummaryOf(steps, rs), steps, rs, rep)
    /\ StatusesOf(rs) = expected.statuses
    /\ CoverageMatches(rep, expected) /\ DefectsMatch(rs, rep, expected)
    /\ StepsOf(rs, {"blocked"}) = expected.blocked

\* evaluate_test_agent_workflow.py: first the plan, which no schema may refuse
\* and which may use other tools as well unless that is forbidden.
PlanMatches(steps, expected, strict) ==
    LET tools == {steps[i].tool : i \in DOMAIN steps}
    IN  /\ \A i \in DOMAIN steps : steps[i].tool \in {"http", "pytest"} => steps[i].args = "ok"
        /\ IF strict THEN tools = expected.tools ELSE expected.tools \subseteq tools
        /\ Len(steps) = expected.count

WorkflowCasePasses(steps, rs, rep, expected, evidence) ==
    /\ PlanMatches(steps, expected, TRUE)
    /\ rep.status = expected.status
    /\ SummaryMatches(SummaryOf(steps, rs), steps, rs, rep)
    /\ StatusesOf(rs) = expected.statuses
    /\ CoverageMatches(rep, expected) /\ DefectsMatch(rs, rep, expected)
    /\ rep.reasons = expected.reasons
    /\ RecommendationsGround(rs) /\ RecommendationsGiveReasons(rs, expected)
    /\ RecommendationsSayNext(rs) /\ EvidenceShown(rs, evidence, TRUE)

-----------------------------------------------------------------------------
\* A case written from what was run passes in all three scripts, if its evidence
\* can be found: the tables of words and reasons of the scripts agree with those
\* of the report for every run there is.  A summary with a "|" is not found
\* unless its run failed, and the script for reports does not find one of
\* several lines (evaluate_case, _evidence_artifacts_cover_expected_steps).
OwnCasePasses ==
    LET own == Expected(plan, runs)
        told == {i \in DOMAIN runs : runs[i].status \in Explained}
    IN  \A evidence \in [DOMAIN runs -> Evidence] :
           LET lost == {i \in told : evidence[i] = "bar" /\ runs[i].status # "failed"}
               long == {i \in told : evidence[i] = "lines"}
           IN  DistinctIds =>
                 /\ ReportCasePasses(plan, runs, report, own, evidence)
                        <=> lost \cup long = {}
                 /\ WorkflowCasePasses(plan, runs, report, own, evidence)
                        <=> lost = {} /\ PlanMatches(plan, own, TRUE)

\* A case that expects another end of one step fails in all three scripts: none
\* of them takes a run for another (where step ids are distinct).
OtherCaseFails ==
    LET plain == [i \in DOMAIN runs |-> "plain"]
    IN  \A i \in DOMAIN runs, status \in Explained \cup {"passed"} :
           LET other == Expected(plan, [runs EXCEPT ![i].status = status])
               same == status = runs[i].status
           IN  /\ ReportCasePasses(plan, runs, report, other, plain) <=> same
               /\ ExecutionCasePasses(plan, runs, report, other) <=> same
               /\ WorkflowCasePasses(plan, runs, report, other, plain)
                      <=> same /\ PlanMatches(plan, other, TRUE)

EvaluationTellsRuns ==
    report # NoReport => OwnCasePasses /\ (DistinctIds => OtherCaseFails)
=============================================================================
