------------------------- MODULE GenerationWorkflow -------------------------
(***************************************************************************)
(* One generation: the graph that LangGraphGenerationWorkflowRunner builds *)
(* out of the workflow's nodes, the calls LLMClient makes for it, and what *)
(* execute_generation writes to the history at the end.                    *)
(*                                                                         *)
(* A node of the graph is an action, the edges out of it are its value of  *)
(* node'.  The local runner, which the documentation keeps as the          *)
(* reference for the graph, is the operator LocalRun: what it makes of the *)
(* same retrievals and the same answers.  A test case is its title, type,  *)
(* number of steps and the acceptance keywords it mentions; texts count by *)
(* their length.                                                           *)
(***************************************************************************)
EXTENDS Integers, Sequences, FiniteSets, SequencesExt, FiniteSetsExt

CONSTANTS
    Settings,        \* the configurations, records of the settings used here
    Requests,        \* the requests: top_k, max_cases, targets, keywords
    Answers,         \* what the model may answer: [key, cases]
    Contexts,        \* what a search may find: [chunks, sourced]
    ChunkKeywords,   \* acceptance keywords that retrieved chunks add
    MaxRetries,      \* llm_max_retries
    RecursionLimit,  \* node runs graph.invoke allows, by the LangGraph version
    PromptChars, CorrectionChars, AnswerChars,  \* length of the texts
    Blank            \* the empty title

NoContext == [chunks |-> 0, sourced |-> FALSE]

Cases == [title : STRING, type : STRING, steps : Nat, keywords : SUBSET STRING]

ASSUME WorkflowAssumption ==
    /\ MaxRetries \in Nat /\ RecursionLimit \in Nat
    /\ PromptChars \in Nat /\ CorrectionChars \in Nat /\ AnswerChars \in Nat
    /\ NoContext \in Contexts
    /\ Answers \subseteq [key : {"cases", "alias", "other"}, cases : Seq(Cases)]
    /\ \A r \in Requests : r.top_k \in Nat /\ r.max_cases \in Nat \ {0}
    /\ \A s \in Settings : /\ s.rewrite \in BOOLEAN /\ s.review \in BOOLEAN
                           /\ s.retry \in BOOLEAN /\ s.requirePass \in BOOLEAN
                           /\ s.hasKey \in BOOLEAN

MaxAttempts == MaxRetries + 1

\* What a call leaves that raises.
NoAnswer(kind) == [key |-> kind, cases |-> <<>>]

VARIABLES
    settings, request,   \* chosen at the start
    node,                \* the node to run next
    steps,               \* node runs so far
    contexts, rewritten, retryRetrieval,
    attempt, correction, \* what the next prompt has to correct
    promptChars, completionChars,
    answered,            \* state.payload, normalized
    cases, review, retryRequested,
    tries,               \* posts of the current LLM call
    posts,               \* posts of the generation
    found, heard,        \* history: results of the searches, of the LLM calls
    outcome,             \* how generate() ended
    record               \* the history row

inputs == <<settings, request>>
retrieval == <<contexts, rewritten, retryRetrieval, found>>
texts == <<promptChars, completionChars>>
calls == <<tries, posts, heard>>
judged == <<cases, review, retryRequested>>
ended == <<outcome, record>>
vars == <<inputs, node, steps, retrieval, attempt, correction, texts, answered,
          judged, calls, ended>>

(* Validation and post-processing of an answer. *)

\* _normalize_payload: an answer without a known key keeps no cases.
Normalized(answer) == IF answer.key = "other" THEN <<>> ELSE answer.cases

\* TestCaseCollection: at least one case, each with a title.
Valid(payload) == payload # <<>> /\ \A i \in DOMAIN payload : payload[i].title # Blank

\* A faulty variant: cut before the repeated titles are dropped.
CutOnly(payload, max) ==
    SubSeq(payload, 1, IF Len(payload) < max THEN Len(payload) ELSE max)

\* A case is kept unless its title has been seen or there are enough.
Keep(unique, one, max) ==
    IF Len(unique) >= max \/ \E i \in DOMAIN unique : unique[i].title = one.title
    THEN unique ELSE Append(unique, one)

\* The first case of every title, in order, until there are max_cases.
PostProcessed(payload, max) ==
    LET unique[n \in 0 .. Len(payload)] ==
            IF n = 0 THEN <<>> ELSE Keep(unique[n - 1], payload[n], max)
    IN  unique[Len(payload)]

(* score_generation_quality, times 2 n t for n cases and t target types. *)

Missing(req, cs) == req.targets \ {cs[i].type : i \in DOMAIN cs}
Required(req, ctx) == req.keywords \cup (IF ctx.chunks > 0 THEN ChunkKeywords ELSE {})
Gaps(req, ctx, cs) == Required(req, ctx) \ UNION {cs[i].keywords : i \in DOMAIN cs}

KnowledgeScore(req, ctx) ==
    IF req.top_k <= 0 \/ (ctx.chunks > 0 /\ ctx.sourced) THEN 20
    ELSE IF ctx.chunks > 0 THEN 12 ELSE 0

\* 2.5 points for each step beyond the first, on average, at most 5; times 2 n.
DepthScore(cs) ==
    LET n == Len(cs)
        total == FoldSeq(LAMBDA c, sum : c.steps + sum, 0, cs)
        depth == 5 * (total - n)
    IN  IF depth > 10 * n THEN 10 * n ELSE depth

ScoreTimes(req, ctx, cs) ==
    LET n == Len(cs)
        t == Cardinality(req.targets)
        count == IF 4 * n > 20 THEN 20 ELSE 4 * n
        gaps == 3 * Cardinality(Gaps(req, ctx, cs))
        penalty == IF gaps > 15 THEN 15 ELSE gaps
    IN  2 * n * t * (count + 15 + KnowledgeScore(req, ctx) + 15 - penalty)
        + 2 * n * 25 * (t - Cardinality(Missing(req, cs)))
        + t * DepthScore(cs)

\* round(score) >= minimum, where round takes a half to the even neighbour.
ScoreReaches(req, ctx, cs, minimum) ==
    LET unit == 2 * Len(cs) * Cardinality(req.targets)
        twice == 2 * ScoreTimes(req, ctx, cs)
        bound == (2 * minimum - 1) * unit
    IN  IF minimum % 2 = 0 THEN twice >= bound ELSE twice > bound

\* review_generated_cases; duplicate titles and missing expectations, the other
\* blocking warnings, cannot be left at this point.
Reviewed(req, ctx, cs, minimum) ==
    IF /\ ScoreReaches(req, ctx, cs, minimum)
       /\ Missing(req, cs) = {} /\ Gaps(req, ctx, cs) = {}
    THEN "passed" ELSE "failed"

(* estimate_generation_usage and the budget. *)

Tokens(chars) == (chars + 1) \div 2

\* No price, no cost.
Cost(s, prompt, completion) ==
    IF s.promptPrice <= 0 /\ s.completionPrice <= 0 THEN 0
    ELSE Tokens(prompt) * s.promptPrice + Tokens(completion) * s.completionPrice

OverBudget(s, prompt, completion) ==
    \/ s.maxPromptTokens > 0 /\ Tokens(prompt) > s.maxPromptTokens
    \/ s.maxCost > 0 /\ Cost(s, prompt, completion) > s.maxCost

\* build_generation_messages
Prompt(corr) == PromptChars + (IF corr = "none" THEN 0 ELSE CorrectionChars)

WantsRewrite(s, req, ctx, rewrote) ==
    s.rewrite /\ req.top_k > 0 /\ ctx.chunks < s.minChunks /\ ~rewrote

-----------------------------------------------------------------------------
(* LocalGenerationWorkflowRunner.generate over the results it would get. *)

Ran(kind, n, corr, prompt, completion, cs, verdict) ==
    [kind |-> kind, attempt |-> n, correction |-> corr, prompt |-> prompt,
     completion |-> completion, cases |-> cs, review |-> verdict]

LocalStart == Ran("running", 0, "none", 0, 0, <<>>, "none")

\* What its attempt n makes of the cases of a valid answer.
Judgement(s, req, ctx, n, corr, prompt, completion, cs) ==
    LET verdict == IF s.review THEN Reviewed(req, ctx, cs, s.minScore) ELSE "none"
    IN  IF verdict = "failed" /\ s.retry /\ n # MaxAttempts
        THEN Ran("running", n, "review", prompt, completion, cs, verdict)
        ELSE Ran(IF verdict = "failed" /\ s.requirePass THEN "quality" ELSE "answer",
                 n, corr, prompt, completion, cs, verdict)

\* One turn of its for loop; result is what generate_json did: an answer, or the
\* kind of the exception it raised.
LocalTurn(s, req, ctx, run, result) ==
    LET n == run.attempt + 1
        corr == run.correction
        prompt == run.prompt + Prompt(corr)
        completion == run.completion + AnswerChars
        payload == Normalized(result)
    IN  IF run.kind # "running" THEN run
        ELSE IF OverBudget(s, prompt, run.completion)
             THEN Ran("budget", n, corr, prompt, run.completion, run.cases, "none")
        ELSE IF result.key \in {"llm_error", "missing_key", "crash"}
             THEN Ran(result.key, n, corr, prompt, run.completion, run.cases, "none")
        ELSE IF ~Valid(payload)
             THEN Ran(IF n = MaxAttempts THEN "invalid" ELSE "running", n, "schema",
                      prompt, completion, run.cases, "none")
        ELSE Judgement(s, req, ctx, n, corr, prompt, completion,
                       PostProcessed(payload, req.max_cases))

\* Its turns over the results so far.
LocalAfter(s, req, ctx, results) ==
    LET run[n \in 0 .. Len(results)] ==
            IF n = 0 THEN LocalStart
            ELSE LocalTurn(s, req, ctx, run[n - 1], results[n])
    IN  run[Len(results)]

\* generate up to and with its last result; the turn after that can only stop
\* at the budget.
LocalRun(s, req, searches, results) ==
    LET ctx == IF searches = <<>> THEN NoContext ELSE Last(searches)
        run == LocalAfter(s, req, ctx, results)
    IN  IF run.kind = "running" THEN LocalTurn(s, req, ctx, run, NoAnswer("none"))
        ELSE run

\* It searches again under the same condition.
LocalSearches(s, req, searches) ==
    IF req.top_k <= 0 THEN 0
    ELSE IF WantsRewrite(s, req, searches[1], FALSE) THEN 2 ELSE 1

-----------------------------------------------------------------------------
Nodes == {"analyze_requirement", "retrieve_knowledge", "route_after_retrieval",
          "rewrite_query", "retrieve_rewritten_knowledge", "plan_test_strategy",
          "start_attempt", "build_prompt", "check_budget", "call_llm",
          "validate_output", "post_process_cases", "review_cases",
          "route_after_review", "check_quality_gate", "estimate_usage",
          "output_validation_failed"}

\* GenerationWorkflowState, and a graph at its entry point.
Init ==
    /\ settings \in Settings /\ request \in Requests
    /\ node = "analyze_requirement" /\ steps = 0
    /\ contexts = NoContext /\ rewritten = FALSE /\ retryRetrieval = FALSE
    /\ attempt = 0 /\ correction = "none"
    /\ promptChars = 0 /\ completionChars = 0
    /\ answered = <<>> /\ cases = <<>> /\ review = "none" /\ retryRequested = FALSE
    /\ tries = 0 /\ posts = 0 /\ found = <<>> /\ heard = <<>>
    /\ outcome = "running" /\ record = "none"

At(n) == node = n /\ steps < RecursionLimit

\* The node is done and the graph goes on with n.
Goto(n) == node' = n /\ steps' = steps + 1 /\ UNCHANGED ended

\* The node raises, or the graph ends: generate() is over.
End(kind) ==
    /\ node' = "record" /\ steps' = steps + 1
    /\ outcome' = kind /\ UNCHANGED record

\* graph.invoke gives up before a node run beyond its limit (LangGraph).
OutOfSteps ==
    /\ node \in Nodes /\ steps >= RecursionLimit
    /\ node' = "record" /\ outcome' = "recursion"
    /\ UNCHANGED <<inputs, steps, retrieval, attempt, correction, texts, answered,
                   judged, calls, record>>

AnalyzeRequirement ==
    /\ At("analyze_requirement") /\ Goto("retrieve_knowledge")
    /\ UNCHANGED <<inputs, retrieval, attempt, correction, texts, answered, judged,
                   calls>>

\* _retrieve_knowledge_node: no search for top_k = 0; the search may raise.
Retrieve(next) ==
    /\ \/ request.top_k <= 0 /\ contexts' = NoContext /\ UNCHANGED found /\ Goto(next)
       \/ \E ctx \in Contexts :
             /\ request.top_k > 0 /\ ctx.chunks <= request.top_k
             /\ contexts' = ctx /\ found' = Append(found, ctx) /\ Goto(next)
       \/ request.top_k > 0 /\ UNCHANGED <<contexts, found>> /\ End("crash")
    /\ UNCHANGED <<inputs, rewritten, attempt, correction, texts, answered, judged,
                   calls>>

RetrieveKnowledge ==
    At("retrieve_knowledge") /\ Retrieve("route_after_retrieval")
    /\ UNCHANGED retryRetrieval

RouteAfterRetrieval ==
    /\ At("route_after_retrieval")
    /\ retryRetrieval' = WantsRewrite(settings, request, contexts, rewritten)
    /\ Goto(IF retryRetrieval' THEN "rewrite_query" ELSE "plan_test_strategy")
    /\ UNCHANGED <<inputs, contexts, rewritten, found, attempt, correction, texts,
                   answered, judged, calls>>

RewriteQuery ==
    /\ At("rewrite_query") /\ Goto("retrieve_rewritten_knowledge")
    /\ rewritten' = TRUE
    /\ UNCHANGED <<inputs, contexts, retryRetrieval, found, attempt, correction,
                   texts, answered, judged, calls>>

RetrieveRewritten ==
    /\ At("retrieve_rewritten_knowledge") /\ Retrieve("plan_test_strategy")
    /\ retryRetrieval' = (retryRetrieval /\ outcome' # "running")

PlanTestStrategy ==
    /\ At("plan_test_strategy") /\ Goto("start_attempt")
    /\ UNCHANGED <<inputs, retrieval, attempt, correction, texts, answered, judged,
                   calls>>

\* A faulty variant: the review of the attempt before stays.
StartKeepsReview ==
    /\ At("start_attempt") /\ Goto("build_prompt")
    /\ attempt' = attempt + 1
    /\ UNCHANGED <<inputs, retrieval, correction, texts, answered, judged, calls>>

StartAttempt ==
    /\ At("start_attempt") /\ Goto("build_prompt")
    /\ attempt' = attempt + 1
    /\ retryRequested' = FALSE /\ review' = "none"
    /\ UNCHANGED <<inputs, retrieval, correction, texts, answered, cases, calls>>

BuildPrompt ==
    /\ At("build_prompt") /\ Goto("check_budget")
    /\ promptChars' = promptChars + Prompt(correction)
    /\ UNCHANGED <<inputs, retrieval, attempt, correction, completionChars, answered,
                   judged, calls>>

CheckBudget ==
    /\ At("check_budget")
    /\ IF OverBudget(settings, promptChars, completionChars)
       THEN End("budget") ELSE Goto("call_llm")
    /\ UNCHANGED <<inputs, retrieval, attempt, correction, texts, answered, judged,
                   calls>>

(* call_llm: LLMClient.generate_json, post by post. *)

Heard(kind) == heard' = Append(heard, NoAnswer(kind))

MissingKey ==
    /\ At("call_llm") /\ ~settings.hasKey
    /\ End("missing_key") /\ Heard("missing_key")
    /\ UNCHANGED <<inputs, retrieval, attempt, correction, texts, answered, judged,
                   tries, posts>>

PostAnswered ==
    /\ At("call_llm") /\ settings.hasKey
    /\ \E answer \in Answers :
          /\ answered' = Normalized(answer)
          /\ heard' = Append(heard, answer)
    /\ posts' = posts + 1 /\ tries' = 0
    /\ completionChars' = completionChars + AnswerChars
    /\ Goto("validate_output")
    /\ UNCHANGED <<inputs, retrieval, attempt, correction, promptChars, judged>>

\* A timeout, 429, 5xx, broken JSON or a missing field, before the last try.
PostRetries ==
    /\ At("call_llm") /\ settings.hasKey /\ tries + 1 < MaxAttempts
    /\ posts' = posts + 1 /\ tries' = tries + 1
    /\ UNCHANGED <<inputs, node, steps, retrieval, attempt, correction, texts,
                   answered, judged, heard, ended>>

\* The last try failed, or the error (4xx) is not worth another.
PostFails ==
    /\ At("call_llm") /\ settings.hasKey
    /\ posts' = posts + 1 /\ tries' = 0
    /\ End("llm_error") /\ Heard("llm_error")
    /\ UNCHANGED <<inputs, retrieval, attempt, correction, texts, answered, judged>>

\* A content that is not a string: AttributeError, which nothing catches.
PostCrashes ==
    /\ At("call_llm") /\ settings.hasKey
    /\ posts' = posts + 1 /\ tries' = 0
    /\ End("crash") /\ Heard("crash")
    /\ UNCHANGED <<inputs, retrieval, attempt, correction, texts, answered, judged>>

CallLlm == MissingKey \/ PostAnswered \/ PostRetries \/ PostFails \/ PostCrashes

\* A faulty variant: an invalid last answer is tried once more.
ValidateOnceMore ==
    /\ At("validate_output")
    /\ IF Valid(answered)
       THEN /\ cases' = answered /\ UNCHANGED correction
            /\ Goto("post_process_cases")
       ELSE /\ correction' = "schema" /\ UNCHANGED cases
            /\ Goto(IF attempt <= MaxAttempts THEN "start_attempt"
                    ELSE "output_validation_failed")
    /\ UNCHANGED <<inputs, retrieval, attempt, texts, answered, review,
                   retryRequested, calls>>

\* _validate_output_graph_node and _route_after_validation
ValidateOutput ==
    /\ At("validate_output")
    /\ IF Valid(answered)
       THEN /\ cases' = answered /\ UNCHANGED correction
            /\ Goto("post_process_cases")
       ELSE /\ correction' = "schema" /\ UNCHANGED cases
            /\ Goto(IF attempt < MaxAttempts THEN "start_attempt"
                    ELSE "output_validation_failed")
    /\ UNCHANGED <<inputs, retrieval, attempt, texts, answered, review,
                   retryRequested, calls>>

\* and _route_after_post_process
PostProcess ==
    /\ At("post_process_cases")
    /\ cases' = PostProcessed(cases, request.max_cases)
    /\ Goto(IF settings.review THEN "review_cases" ELSE "estimate_usage")
    /\ UNCHANGED <<inputs, retrieval, attempt, correction, texts, answered, review,
                   retryRequested, calls>>

ReviewCases ==
    /\ At("review_cases") /\ Goto("route_after_review")
    /\ review' = Reviewed(request, contexts, cases, settings.minScore)
    /\ UNCHANGED <<inputs, retrieval, attempt, correction, texts, answered, cases,
                   retryRequested, calls>>

\* _route_after_review_node and the edges of _route_after_review
RouteAfterReview ==
    /\ At("route_after_review")
    /\ retryRequested' = (settings.retry /\ review = "failed" /\ attempt < MaxAttempts)
    /\ correction' = IF retryRequested' THEN "review" ELSE correction
    /\ Goto(IF retryRequested' THEN "start_attempt"
            ELSE IF settings.requirePass THEN "check_quality_gate"
            ELSE "estimate_usage")
    /\ UNCHANGED <<inputs, retrieval, attempt, texts, answered, cases, review, calls>>

CheckQualityGate ==
    /\ At("check_quality_gate")
    /\ IF review = "passed" THEN Goto("estimate_usage") ELSE End("quality")
    /\ UNCHANGED <<inputs, retrieval, attempt, correction, texts, answered, judged,
                   calls>>

EstimateUsage ==
    /\ At("estimate_usage") /\ End("answer")
    /\ UNCHANGED <<inputs, retrieval, attempt, correction, texts, answered, judged,
                   calls>>

OutputValidationFailed ==
    /\ At("output_validation_failed") /\ End("invalid")
    /\ UNCHANGED <<inputs, retrieval, attempt, correction, texts, answered, judged,
                   calls>>

Workflow ==
    \/ AnalyzeRequirement \/ RetrieveKnowledge \/ RouteAfterRetrieval
    \/ RewriteQuery \/ RetrieveRewritten \/ PlanTestStrategy
    \/ StartAttempt \/ BuildPrompt \/ CheckBudget \/ CallLlm
    \/ ValidateOutput \/ PostProcess \/ ReviewCases \/ RouteAfterReview
    \/ CheckQualityGate \/ EstimateUsage \/ OutputValidationFailed

(* execute_generation *)

Gates == {"budget", "quality"}
Reported == Gates \cup {"missing_key", "llm_error", "invalid"}

\* Exceptions outside Reported pass execute_generation without a record.
RecordOf(kind) ==
    CASE kind = "answer" -> "success"
      [] kind \in Gates -> "pending"
      [] kind \in Reported \ Gates -> "failed"
      [] OTHER -> "none"

\* An error of the store is logged, and there is no record.
Execute ==
    /\ node = "record" /\ node' = "done"
    /\ record' \in {RecordOf(outcome), "none"}
    /\ UNCHANGED <<inputs, steps, retrieval, attempt, correction, texts, answered,
                   judged, calls, outcome>>

Done == node = "done" /\ UNCHANGED vars

Next == Workflow \/ OutOfSteps \/ Execute \/ Done

Spec == Init /\ [][Next]_vars

-----------------------------------------------------------------------------
Outcomes == Reported \cup {"running", "answer", "crash", "recursion"}

TypeOK ==
    /\ settings \in Settings /\ request \in Requests
    /\ node \in Nodes \cup {"record", "done"}
    /\ {steps, attempt, tries, posts, promptChars, completionChars} \subseteq Nat
    /\ contexts \in Contexts /\ rewritten \in BOOLEAN /\ retryRetrieval \in BOOLEAN
    /\ correction \in {"none", "schema", "review"}
    /\ review \in {"none", "passed", "failed"} /\ retryRequested \in BOOLEAN
    /\ heard \in Seq(Answers \cup {NoAnswer(kind) : kind \in Outcomes})
    /\ outcome \in Outcomes
    /\ record \in {"none", "success", "pending", "failed"}

Over == {"record", "done"}
BeforeAttempts == {"analyze_requirement", "retrieve_knowledge",
                   "route_after_retrieval", "rewrite_query",
                   "retrieve_rewritten_knowledge", "plan_test_strategy"}
BeforeAnswer == {"build_prompt", "check_budget", "call_llm"}
AfterAnswer == {"validate_output", "post_process_cases", "review_cases",
                "route_after_review", "check_quality_gate", "estimate_usage",
                "output_validation_failed"}

\* Node runs at most, before a node of an attempt, since the attempt's start.
Position(n) ==
    CASE n = "build_prompt" -> 1 [] n = "check_budget" -> 2
      [] n = "call_llm" -> 3 [] n = "validate_output" -> 4
      [] n = "post_process_cases" -> 5 [] n = "output_validation_failed" -> 5
      [] n = "review_cases" -> 6 [] n = "route_after_review" -> 7
      [] n = "check_quality_gate" -> 8 [] n = "estimate_usage" -> 9
      [] OTHER -> 10

\* Six node runs before the first attempt, with the second search, then eight an
\* attempt that is reviewed and retried: what a recursion limit has to leave.
StepsBounded ==
    /\ node \in BeforeAttempts =>
          steps <= CASE node = "analyze_requirement" -> 0
                     [] node = "retrieve_knowledge" -> 1
                     [] node = "route_after_retrieval" -> 2
                     [] node = "rewrite_query" -> 3
                     [] node = "retrieve_rewritten_knowledge" -> 4
                     [] OTHER -> 5
    /\ node = "start_attempt" => steps <= 6 + 8 * attempt
    /\ node \in Over \cup BeforeAnswer \cup AfterAnswer =>
          \/ steps <= 6 + 8 * (attempt - 1) + Position(node)
          \/ attempt = 0 /\ steps <= 6

\* An attempt in progress is one of those the setting allows, and its call is
\* made once.
AttemptsBounded ==
    /\ node \in Nodes <=> outcome = "running"
    /\ attempt <= MaxAttempts
    /\ node \in BeforeAttempts => attempt = 0
    /\ node = "start_attempt" => attempt < MaxAttempts /\ Len(heard) = attempt
    /\ node \in BeforeAnswer => Len(heard) = attempt - 1
    /\ node \in AfterAnswer => Len(heard) = attempt
    /\ Len(heard) <= attempt
    /\ node \in BeforeAnswer \cup AfterAnswer => attempt >= 1
    /\ tries < MaxAttempts /\ (node # "call_llm" /\ outcome # "recursion" => tries = 0)
    /\ ~settings.hasKey => tries = 0

\* A call makes at most MaxAttempts posts.
PostsBounded == posts <= Len(heard) * MaxAttempts + tries

\* A prompt that is sent fits into the budget together with all that was sent
\* and answered before it, and the prompt that does not is never sent.
BudgetHolds ==
    /\ node \in {"call_llm"} \cup AfterAnswer =>
          ~OverBudget(settings, promptChars,
                      completionChars - (IF node = "call_llm" THEN 0 ELSE AnswerChars))
    /\ outcome = "budget" => Len(heard) = attempt - 1

\* The attempts, node runs and calls of a generation stay within what llm_max_retries
\* allows, whatever the answers are, and no call exceeds the budget
\* (range(1, llm_max_retries + 2), _route_after_validation, _check_budget_node).
InductiveInv ==
    /\ TypeOK /\ AttemptsBounded /\ PostsBounded /\ StepsBounded /\ BudgetHolds

\* An answer that leaves the service went through its gates: its cases are those
\* of the last answer, valid, without a title twice, no more than asked for, the
\* review beside them is their own and not of an earlier attempt, and it passed
\* where the configuration requires that (post_process_cases to estimate_usage).
GatesHold ==
    outcome = "answer" =>
        /\ Valid(answered) /\ cases # <<>> /\ Len(cases) <= request.max_cases
        /\ \A i, j \in DOMAIN cases : cases[i].title = cases[j].title => i = j
        /\ ToSet(cases) \subseteq ToSet(answered)
        /\ review = IF settings.review
                    THEN Reviewed(request, contexts, cases, settings.minScore)
                    ELSE "none"
        /\ settings.review /\ settings.requirePass => review = "passed"

\* The graph ends as the local runner does on the same retrievals and answers:
\* the same outcome after the same attempts, prompts and corrections, with the
\* same cases and review, unless LangGraph stops it first.
RunnersAgree ==
    node \in Over /\ outcome # "recursion" /\ (outcome = "crash" => heard # <<>>) =>
        LET run == LocalRun(settings, request, found, heard)
        IN  /\ run = Ran(outcome, attempt, correction, promptChars, completionChars,
                         cases, review)
            /\ Len(found) = LocalSearches(settings, request, found)
=============================================================================
