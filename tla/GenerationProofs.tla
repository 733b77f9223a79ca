--------------------------- MODULE GenerationProofs ---------------------------
(***************************************************************************)
(* Proofs about a generation and about the gates its history may leave.    *)
(*                                                                         *)
(* GenerationWorkflow: for every configuration, every number of retries,   *)
(* every recursion limit and whatever is retrieved and answered, a         *)
(* generation stays within its attempts, calls, node runs and budget; an   *)
(* answer has passed every gate; and the graph ends as the local runner    *)
(* does.                                                                   *)
(*                                                                         *)
(* GateHistory: with one store object, or on MySQL, a gate is decided      *)
(* once, for any number of records and requests.                           *)
(***************************************************************************)
EXTENDS GenerationWorkflow, GateHistory, TLAPS, SequenceTheorems, WellFoundedInduction,
        FiniteSetTheorems

\* The answers heard, or what a call raised instead.
Results == Answers \cup {NoAnswer(kind) : kind \in Outcomes}

\* Attempts are counted from one.
LEMMA Attempts == MaxAttempts \in Nat \ {0}
BY WorkflowAssumption DEF MaxAttempts

\* One more result.
LEMMA Hearing ==
    ASSUME heard \in Seq(Results), NEW result \in Results, heard' = Append(heard, result)
    PROVE  heard' \in Seq(Results) /\ Len(heard) \in Nat /\ Len(heard') = Len(heard) + 1
OBVIOUS

\* What posts may be made for one result more.
LEMMA OneMoreCall ==
    ASSUME NEW n \in Nat, NEW m \in Nat PROVE (n + 1) * m = n * m + m
OBVIOUS

\* A graph at its entry point.
LEMMA InitInv == Init => InductiveInv
<1> SUFFICES ASSUME Init PROVE InductiveInv
  OBVIOUS
<1>1. TypeOK
  <2>1. heard \in Seq(Answers \cup {NoAnswer(kind) : kind \in Outcomes})
    BY DEF Init
  <2>2. {steps, attempt, tries, posts, promptChars, completionChars} \subseteq Nat
    BY DEF Init
  <2>3. node \in Nodes /\ outcome \in Outcomes /\ contexts \in Contexts
    BY WorkflowAssumption DEF Init, Nodes, Outcomes
  <2> QED BY <2>1, <2>2, <2>3 DEF Init, TypeOK
<1>2. AttemptsBounded /\ PostsBounded
  BY Attempts DEF Init, AttemptsBounded, PostsBounded, Nodes, BeforeAttempts,
                  BeforeAnswer, AfterAnswer
<1>3. StepsBounded /\ BudgetHolds
  BY DEF Init, StepsBounded, BudgetHolds, Over, BeforeAttempts, BeforeAnswer, AfterAnswer
<1> QED BY <1>1, <1>2, <1>3 DEF InductiveInv

\* The steps before the first attempt call nobody.
LEMMA BeforeInv ==
    ASSUME InductiveInv,
           \/ AnalyzeRequirement \/ RetrieveKnowledge \/ RouteAfterRetrieval
           \/ RewriteQuery \/ RetrieveRewritten \/ PlanTestStrategy
    PROVE  InductiveInv'
<1> DEFINE next ==
       CASE node = "analyze_requirement" -> {"retrieve_knowledge"}
         [] node = "retrieve_knowledge" -> {"route_after_retrieval"}
         [] node = "route_after_retrieval" -> {"rewrite_query", "plan_test_strategy"}
         [] node = "rewrite_query" -> {"retrieve_rewritten_knowledge"}
         [] node = "retrieve_rewritten_knowledge" -> {"plan_test_strategy"}
         [] OTHER -> {"start_attempt"}
<1>1. /\ node \in BeforeAttempts
      /\ steps' = steps + 1
      /\ \/ node' \in next /\ outcome' = outcome
         \/ node' = "record" /\ outcome' = "crash"
      /\ UNCHANGED <<settings, request, attempt, correction, promptChars, completionChars,
                     answered, cases, review, retryRequested, tries, posts, heard, record>>
  BY DEF AnalyzeRequirement, RetrieveKnowledge, RouteAfterRetrieval, RewriteQuery,
         RetrieveRewritten, PlanTestStrategy, Retrieve, At, Goto, End, BeforeAttempts,
         inputs, retrieval, texts, calls, judged, ended
<1>2. contexts' \in Contexts /\ rewritten' \in BOOLEAN /\ retryRetrieval' \in BOOLEAN
  <2>1. contexts' \in Contexts
    BY WorkflowAssumption
       DEF AnalyzeRequirement, RetrieveKnowledge, RouteAfterRetrieval, RewriteQuery,
           RetrieveRewritten, PlanTestStrategy, Retrieve, retrieval, InductiveInv, TypeOK
  <2>2. rewritten' \in BOOLEAN
    BY DEF AnalyzeRequirement, RetrieveKnowledge, RouteAfterRetrieval, RewriteQuery,
           RetrieveRewritten, PlanTestStrategy, Retrieve, retrieval, InductiveInv, TypeOK
  <2>3. retryRetrieval' \in BOOLEAN
    BY DEF AnalyzeRequirement, RetrieveKnowledge, RouteAfterRetrieval, RewriteQuery,
           RetrieveRewritten, PlanTestStrategy, Retrieve, retrieval, WantsRewrite,
           InductiveInv, TypeOK
  <2> QED BY <2>1, <2>2, <2>3
<1>3. TypeOK'
  BY <1>1, <1>2 DEF InductiveInv, TypeOK, Nodes, Outcomes, BeforeAttempts
<1>4. AttemptsBounded'
  BY <1>1, Attempts DEF InductiveInv, TypeOK, AttemptsBounded, Nodes, BeforeAttempts,
                        BeforeAnswer, AfterAnswer
<1>5. StepsBounded'
  BY <1>1 DEF InductiveInv, TypeOK, AttemptsBounded, StepsBounded, Over, BeforeAttempts,
              BeforeAnswer, AfterAnswer
<1>6. BudgetHolds' /\ PostsBounded'
  BY <1>1 DEF InductiveInv, AttemptsBounded, PostsBounded, BudgetHolds, Nodes,
              BeforeAttempts, AfterAnswer
<1> QED BY <1>3, <1>4, <1>5, <1>6 DEF InductiveInv

\* Where a node stands in its attempt.
LEMMA Positions ==
    /\ Position("build_prompt") = 1 /\ Position("check_budget") = 2
    /\ Position("call_llm") = 3 /\ Position("validate_output") = 4
    /\ Position("post_process_cases") = 5 /\ Position("output_validation_failed") = 5
    /\ Position("review_cases") = 6 /\ Position("route_after_review") = 7
    /\ Position("check_quality_gate") = 8 /\ Position("estimate_usage") = 9
    /\ Position("record") = 10 /\ Position("done") = 10
BY DEF Position

\* The node runs so far, in numbers.
LEMMA StepsNow ==
    ASSUME InductiveInv
    PROVE  /\ steps \in Nat /\ attempt \in Nat
           /\ node \in BeforeAttempts => attempt = 0 /\ steps <= 5
           /\ node = "start_attempt" => steps <= 6 + 8 * attempt
           /\ node \in BeforeAnswer \cup AfterAnswer =>
                 attempt >= 1 /\ steps <= 6 + 8 * (attempt - 1) + Position(node)
           /\ node \in Over => \/ steps <= 6 + 8 * (attempt - 1) + 10
                               \/ attempt = 0 /\ steps <= 6
<1>1. steps \in Nat /\ attempt \in Nat
  BY DEF InductiveInv, TypeOK
<1>2. node \in BeforeAttempts => attempt = 0 /\ steps <= 5
  BY <1>1 DEF InductiveInv, AttemptsBounded, StepsBounded, BeforeAttempts
<1>3. node \in BeforeAnswer \cup AfterAnswer =>
         attempt >= 1 /\ steps <= 6 + 8 * (attempt - 1) + Position(node)
  BY <1>1 DEF InductiveInv, AttemptsBounded, StepsBounded
<1>4. node \in Over => \/ steps <= 6 + 8 * (attempt - 1) + 10
                       \/ attempt = 0 /\ steps <= 6
  BY Positions DEF InductiveInv, StepsBounded, Over
<1> QED BY <1>1, <1>2, <1>3, <1>4 DEF InductiveInv, StepsBounded

\* What has to be shown of them once attempts have begun, or the run is over.
LEMMA StepsNext ==
    ASSUME node' \notin BeforeAttempts,
           node' = "start_attempt" => steps' <= 6 + 8 * attempt',
           node' \in Over \cup BeforeAnswer \cup AfterAnswer =>
              \/ steps' <= 6 + 8 * (attempt' - 1) + Position(node')
              \/ attempt' = 0 /\ steps' <= 6
    PROVE  StepsBounded'
BY DEF StepsBounded

\* An attempt starts, and its prompt is written and priced.
LEMMA AttemptInv ==
    ASSUME InductiveInv, StartAttempt \/ BuildPrompt \/ CheckBudget
    PROVE  InductiveInv'
<1> USE DEF At, Goto, End, inputs, retrieval, texts, calls, judged, ended
<1>1. /\ node \in {"start_attempt", "build_prompt", "check_budget"}
      /\ steps' = steps + 1
      /\ UNCHANGED <<settings, request, contexts, rewritten, retryRetrieval, correction,
                     completionChars, tries, posts, heard, record>>
  BY DEF StartAttempt, BuildPrompt, CheckBudget
<1>2. \/ /\ node = "start_attempt" /\ node' = "build_prompt"
         /\ attempt' = attempt + 1 /\ UNCHANGED <<promptChars, outcome>>
      \/ /\ node = "build_prompt" /\ node' = "check_budget"
         /\ promptChars' = promptChars + Prompt(correction) /\ UNCHANGED <<attempt, outcome>>
      \/ /\ node = "check_budget" /\ node' = "call_llm"
         /\ ~OverBudget(settings, promptChars, completionChars)
         /\ UNCHANGED <<attempt, promptChars, outcome>>
      \/ /\ node = "check_budget" /\ node' = "record" /\ outcome' = "budget"
         /\ UNCHANGED <<attempt, promptChars>>
  BY DEF StartAttempt, BuildPrompt, CheckBudget
<1>3. review' \in {"none", "passed", "failed"} /\ retryRequested' \in BOOLEAN
  BY DEF StartAttempt, BuildPrompt, CheckBudget, InductiveInv, TypeOK
<1>4. TypeOK'
  <2>1. Prompt(correction) \in Nat
    BY WorkflowAssumption DEF Prompt
  <2>2. node' \in Nodes \cup {"record", "done"} /\ outcome' \in Outcomes
    BY <1>2 DEF InductiveInv, TypeOK, Nodes, Outcomes, Reported, Gates
  <2>3. {steps, attempt, tries, posts, promptChars, completionChars}' \subseteq Nat
    <3>1. {steps, attempt, tries, posts, promptChars, completionChars} \subseteq Nat
      BY DEF InductiveInv, TypeOK
    <3>2. steps' \in Nat /\ UNCHANGED <<completionChars, tries, posts>>
      BY <1>1, <3>1
    <3>3. attempt' \in Nat /\ promptChars' \in Nat
      BY <1>2, <2>1, <3>1
    <3> QED BY <3>1, <3>2, <3>3
  <2> QED BY <1>1, <1>3, <2>2, <2>3 DEF InductiveInv, TypeOK
<1>5. AttemptsBounded'
  <2>1. /\ node \notin BeforeAttempts \cup AfterAnswer
        /\ node' \in {"build_prompt", "check_budget", "call_llm", "record"}
        /\ node' \notin BeforeAttempts \cup AfterAnswer \cup {"start_attempt"}
        /\ node' = "record" <=> node' \notin BeforeAnswer
        /\ node' \in Nodes <=> node' # "record"
    BY <1>1, <1>2 DEF Nodes, BeforeAttempts, BeforeAnswer, AfterAnswer
  <2>2. /\ outcome = "running"
        /\ node' = "record" => outcome' = "budget"
        /\ node' # "record" => outcome' = outcome
    BY <1>1, <1>2 DEF InductiveInv, AttemptsBounded, Nodes
  <2>3. /\ Len(heard) = IF node = "start_attempt" THEN attempt ELSE attempt - 1
        /\ attempt \in Nat /\ (node = "start_attempt" => attempt < MaxAttempts)
        /\ attempt <= MaxAttempts /\ (node # "start_attempt" => attempt >= 1)
    BY <1>1 DEF InductiveInv, TypeOK, AttemptsBounded, BeforeAnswer
  <2>4. attempt' = IF node = "start_attempt" THEN attempt + 1 ELSE attempt
    BY <1>2
  <2>5. attempt' \in Nat /\ attempt' <= MaxAttempts /\ attempt' >= 1 /\ Len(heard') = attempt' - 1
    <3>1. Len(heard') = Len(heard)
      BY <1>1
    <3> QED BY <2>3, <2>4, <3>1, Attempts
  <2>6. tries' = 0 /\ 0 < MaxAttempts
    <3>1. tries = 0
      BY <1>1, <2>2 DEF InductiveInv, AttemptsBounded
    <3> QED BY <1>1, <3>1, Attempts
  <2>7. node' \in Nodes <=> outcome' = "running"
    BY <2>1, <2>2
  <2>8. /\ node' \in BeforeAttempts => attempt' = 0
        /\ node' = "start_attempt" => attempt' < MaxAttempts /\ Len(heard') = attempt'
        /\ node' \in AfterAnswer => Len(heard') = attempt'
    BY <2>1
  <2>9. Len(heard') <= attempt'
    <3> DEFINE k == attempt'
               m == Len(heard')
    <3>1. k \in Nat /\ m = k - 1
      BY <2>5
    <3> HIDE DEF k, m
    <3>2. m <= k
      BY <3>1
    <3> QED BY <3>2 DEF k, m
  <2> HIDE DEF At, Goto, End, inputs, retrieval, texts, calls, judged, ended
  <2> QED BY <2>5, <2>6, <2>7, <2>8, <2>9 DEF AttemptsBounded
<1>6. PostsBounded'
  BY <1>1 DEF InductiveInv, PostsBounded
<1>7. StepsBounded'
  <2>1. /\ node' \in {"build_prompt", "check_budget", "call_llm", "record"}
        /\ steps' <= 6 + 8 * (attempt' - 1) + Position(node')
    BY <1>1, <1>2, StepsNow, Positions DEF BeforeAnswer
  <2> QED BY <2>1, StepsNext DEF BeforeAttempts
<1>8. BudgetHolds'
  BY <1>1, <1>2 DEF InductiveInv, TypeOK, AttemptsBounded, BudgetHolds, Nodes,
                    BeforeAnswer, AfterAnswer
<1> QED BY <1>4, <1>5, <1>6, <1>7, <1>8 DEF InductiveInv

\* A call ends with one result, after at most MaxAttempts posts, or posts again.
LEMMA CallInv == ASSUME InductiveInv, CallLlm PROVE InductiveInv'
<1> USE DEF At, Goto, End, inputs, retrieval, texts, calls, judged, ended
<1>1. /\ node = "call_llm"
      /\ UNCHANGED <<settings, request, contexts, rewritten, retryRetrieval, attempt,
                     correction, promptChars, review, retryRequested, record>>
  BY DEF CallLlm, MissingKey, PostAnswered, PostRetries, PostFails, PostCrashes
<1>2. CASE PostRetries
  <2>1. /\ UNCHANGED <<node, steps, completionChars, heard, outcome>> /\ settings.hasKey
        /\ posts' = posts + 1 /\ tries' = tries + 1 /\ tries + 1 < MaxAttempts
    BY <1>2 DEF PostRetries
  <2>2. TypeOK'
    BY <1>1, <2>1 DEF InductiveInv, TypeOK
  <2>3. AttemptsBounded'
    BY <1>1, <2>1, Attempts DEF InductiveInv, TypeOK, AttemptsBounded
  <2>4. PostsBounded'
    <3> DEFINE most == Len(heard) * MaxAttempts
    <3>1. most \in Int
      BY Attempts DEF InductiveInv, TypeOK
    <3>2. posts <= most + tries /\ posts \in Nat /\ tries \in Nat
      BY DEF InductiveInv, TypeOK, PostsBounded
    <3> HIDE DEF most
    <3>3. posts' <= most + tries'
      BY <2>1, <3>1, <3>2
    <3> QED BY <2>1, <3>3 DEF PostsBounded, most
  <2>5. StepsBounded' /\ BudgetHolds'
    BY <1>1, <2>1 DEF InductiveInv, StepsBounded, BudgetHolds
  <2> QED BY <2>2, <2>3, <2>4, <2>5 DEF InductiveInv
<1>3. CASE MissingKey \/ PostAnswered \/ PostFails \/ PostCrashes
  <2>1. PICK result \in Results :
          /\ heard' = Append(heard, result) /\ steps' = steps + 1 /\ tries' = 0
          /\ posts' \in {posts, posts + 1}
          /\ \/ /\ node' = "validate_output" /\ outcome' = outcome
                /\ completionChars' = completionChars + AnswerChars
             \/ /\ node' = "record" /\ outcome' \in {"missing_key", "llm_error", "crash"}
                /\ UNCHANGED completionChars
    <3>1. CASE MissingKey
      <4>1. NoAnswer("missing_key") \in Results /\ tries = 0
        BY <3>1 DEF MissingKey, Results, Outcomes, Reported, InductiveInv, AttemptsBounded
      <4> QED BY <3>1, <4>1 DEF MissingKey, Heard
    <3>2. CASE PostAnswered
      BY <3>2 DEF PostAnswered, Results
    <3>3. CASE PostFails
      <4>1. NoAnswer("llm_error") \in Results
        BY DEF Results, Outcomes, Reported
      <4> QED BY <3>3, <4>1 DEF PostFails, Heard
    <3>4. CASE PostCrashes
      <4>1. NoAnswer("crash") \in Results
        BY DEF Results, Outcomes
      <4> QED BY <3>4, <4>1 DEF PostCrashes, Heard
    <3> QED BY <1>3, <3>1, <3>2, <3>3, <3>4
  <2>2. heard' \in Seq(Results) /\ Len(heard) \in Nat /\ Len(heard') = Len(heard) + 1
    BY <2>1, Hearing DEF InductiveInv, TypeOK, Results
  <2>3. TypeOK'
    <3>1. node' \in Nodes \cup {"record", "done"} /\ outcome' \in Outcomes
      BY <2>1 DEF InductiveInv, TypeOK, Nodes, Outcomes, Reported
    <3>2. {steps, attempt, tries, posts, promptChars, completionChars}' \subseteq Nat
      BY <1>1, <2>1, WorkflowAssumption DEF InductiveInv, TypeOK
    <3> QED BY <1>1, <2>2, <3>1, <3>2 DEF InductiveInv, TypeOK, Results
  <2>4. AttemptsBounded'
    BY <1>1, <2>1, <2>2, Attempts
       DEF InductiveInv, TypeOK, AttemptsBounded, Nodes, BeforeAttempts, BeforeAnswer,
           AfterAnswer
  <2>5. PostsBounded'
    <3> DEFINE most == Len(heard) * MaxAttempts
    <3>1. most \in Int /\ Len(heard') * MaxAttempts = most + MaxAttempts
      BY <2>2, Attempts, OneMoreCall
    <3>2. posts <= most + tries /\ posts \in Nat /\ tries \in Nat /\ tries < MaxAttempts
      BY DEF InductiveInv, TypeOK, PostsBounded, AttemptsBounded
    <3> HIDE DEF most
    <3>3. posts' <= most + MaxAttempts
      BY <2>1, <3>1, <3>2, Attempts
    <3> QED BY <2>1, <2>2, <3>1, <3>3, Attempts DEF PostsBounded
  <2>6. StepsBounded'
    <3>1. /\ node' \in {"validate_output", "record"}
          /\ steps' <= 6 + 8 * (attempt' - 1) + Position(node')
      BY <1>1, <2>1, StepsNow, Positions DEF BeforeAnswer
    <3> QED BY <3>1, StepsNext DEF BeforeAttempts
  <2>7. BudgetHolds'
    <3>1. completionChars' - AnswerChars = completionChars \/ node' = "record"
      BY <2>1, WorkflowAssumption DEF InductiveInv, TypeOK
    <3>2. ~OverBudget(settings, promptChars, completionChars - 0)
      BY <1>1 DEF InductiveInv, BudgetHolds
    <3>3. completionChars - 0 = completionChars
      BY DEF InductiveInv, TypeOK
    <3> QED BY <1>1, <2>1, <3>1, <3>2, <3>3
            DEF InductiveInv, AttemptsBounded, BudgetHolds, Nodes, AfterAnswer
  <2> QED BY <2>3, <2>4, <2>5, <2>6, <2>7 DEF InductiveInv
<1> QED BY <1>2, <1>3 DEF CallLlm

\* What is done with an answer makes no call.
LEMMA AfterInv ==
    ASSUME InductiveInv,
           \/ ValidateOutput \/ PostProcess \/ ReviewCases \/ RouteAfterReview
           \/ CheckQualityGate \/ EstimateUsage \/ OutputValidationFailed
    PROVE  InductiveInv'
<1> USE DEF At, Goto, End, inputs, retrieval, texts, calls, judged, ended
<1>1. /\ node \in AfterAnswer /\ steps' = steps + 1
      /\ UNCHANGED <<settings, request, contexts, rewritten, retryRetrieval, attempt,
                     promptChars, completionChars, tries, posts, heard, record>>
  BY DEF ValidateOutput, PostProcess, ReviewCases, RouteAfterReview, CheckQualityGate,
         EstimateUsage, OutputValidationFailed, AfterAnswer
<1>2. \/ node' = "record" /\ outcome' \in {"answer", "quality", "invalid"}
      \/ /\ outcome' = outcome
         /\ \/ /\ node' = "start_attempt" /\ attempt < MaxAttempts
               /\ node \in {"validate_output", "route_after_review"}
            \/ node = "validate_output"
                  /\ node' \in {"post_process_cases", "output_validation_failed"}
            \/ node = "post_process_cases" /\ node' \in {"review_cases", "estimate_usage"}
            \/ node = "review_cases" /\ node' = "route_after_review"
            \/ node = "route_after_review"
                  /\ node' \in {"check_quality_gate", "estimate_usage"}
            \/ node = "check_quality_gate" /\ node' = "estimate_usage"
  BY DEF ValidateOutput, PostProcess, ReviewCases, RouteAfterReview, CheckQualityGate,
         EstimateUsage, OutputValidationFailed
<1>3. /\ correction' \in {"none", "schema", "review"}
      /\ review' \in {"none", "passed", "failed"} /\ retryRequested' \in BOOLEAN
  BY WorkflowAssumption
     DEF ValidateOutput, PostProcess, ReviewCases, RouteAfterReview, CheckQualityGate,
         EstimateUsage, OutputValidationFailed, Reviewed, InductiveInv, TypeOK
<1>4. TypeOK'
  BY <1>1, <1>2, <1>3 DEF InductiveInv, TypeOK, Nodes, Outcomes, Reported, Gates
<1>5. AttemptsBounded' /\ PostsBounded'
  BY <1>1, <1>2, Attempts
     DEF InductiveInv, TypeOK, AttemptsBounded, PostsBounded, Nodes, BeforeAttempts,
         BeforeAnswer, AfterAnswer
<1>6. StepsBounded'
  <2>1. node' \notin BeforeAttempts
    BY <1>1, <1>2 DEF BeforeAttempts, AfterAnswer
  <2>2. node' = "start_attempt" => steps' <= 6 + 8 * attempt'
    BY <1>1, <1>2, StepsNow, Positions
  <2>3. node' # "start_attempt" => steps' <= 6 + 8 * (attempt' - 1) + Position(node')
    BY <1>1, <1>2, StepsNow, Positions DEF AfterAnswer
  <2> QED BY <2>1, <2>2, <2>3, StepsNext DEF Over, BeforeAnswer, AfterAnswer
<1>7. BudgetHolds'
  BY <1>1, <1>2 DEF InductiveInv, AttemptsBounded, BudgetHolds, Nodes, AfterAnswer
<1> QED BY <1>4, <1>5, <1>6, <1>7 DEF InductiveInv

\* The graph is stopped, or the end of the run is recorded.
LEMMA EndInv == ASSUME InductiveInv, OutOfSteps \/ Execute PROVE InductiveInv'
<1> USE DEF inputs, retrieval, texts, calls, judged
<1>1. /\ UNCHANGED <<settings, request, steps, contexts, rewritten, retryRetrieval, attempt,
                     correction, promptChars, completionChars, review, retryRequested,
                     tries, posts, heard>>
      /\ \/ /\ node \in Nodes /\ node' = "record" /\ outcome' = "recursion"
            /\ UNCHANGED record
         \/ /\ node = "record" /\ node' = "done" /\ outcome' = outcome
            /\ record' \in {"none", "success", "pending", "failed"}
  BY DEF OutOfSteps, Execute, RecordOf
<1>2. TypeOK'
  BY <1>1 DEF InductiveInv, TypeOK, Outcomes
<1>3. AttemptsBounded' /\ PostsBounded'
  BY <1>1, Attempts
     DEF InductiveInv, TypeOK, AttemptsBounded, PostsBounded, Nodes, BeforeAttempts,
         BeforeAnswer, AfterAnswer
<1>4. StepsBounded'
  <2>1. node' \in Over /\ Position(node') = 10 /\ steps' = steps /\ attempt' = attempt
    BY <1>1, Positions DEF Over
  <2>2. \/ steps <= 6 + 8 * (attempt - 1) + 10
        \/ attempt = 0 /\ steps <= 6
    <3>1. \/ node \in BeforeAttempts
          \/ node = "start_attempt"
          \/ node \in Over
          \/ node \in BeforeAnswer \cup AfterAnswer /\ Position(node) \in 1 .. 10
      BY <1>1, Positions DEF Nodes, Over, BeforeAttempts, BeforeAnswer, AfterAnswer
    <3>2. CASE node = "start_attempt"
      BY <3>2, StepsNow
    <3>3. CASE node # "start_attempt"
      BY <3>1, <3>3, StepsNow
    <3> QED BY <3>2, <3>3
  <2> QED BY <2>1, <2>2, StepsNext DEF Over, BeforeAttempts
<1>5. BudgetHolds'
  BY <1>1 DEF InductiveInv, BudgetHolds, AfterAnswer
<1> QED BY <1>2, <1>3, <1>4, <1>5 DEF InductiveInv
-----------------------------------------------------------------------------
\* Attempts, posts, node runs and budget, for every configuration.
THEOREM InductiveInvariant == Spec => []InductiveInv
<1>1. InductiveInv /\ [Next]_vars => InductiveInv'
  <2> SUFFICES ASSUME InductiveInv, [Next]_vars PROVE InductiveInv'
    OBVIOUS
  <2>1. CASE UNCHANGED vars
    BY <2>1 DEF vars, inputs, retrieval, texts, calls, judged, ended, InductiveInv, TypeOK,
                AttemptsBounded, PostsBounded, StepsBounded, BudgetHolds
  <2>2. CASE Workflow
    BY <2>2, BeforeInv, AttemptInv, CallInv, AfterInv DEF Workflow
  <2> QED BY <2>1, <2>2, EndInv DEF Next, Done
<1> QED BY InitInv, <1>1, PTL DEF Spec

\* A recursion limit that leaves room for the longest attempts is never what
\* ends a generation.
THEOREM RoomForEveryAttempt ==
    ASSUME RecursionLimit >= 16 + 8 * MaxRetries
    PROVE  Spec => [](node \in Nodes => steps < RecursionLimit)
<1>1. InductiveInv => (node \in Nodes => steps < RecursionLimit)
  <2> SUFFICES ASSUME InductiveInv, node \in Nodes PROVE steps < RecursionLimit
    OBVIOUS
  <2>1. attempt <= MaxRetries + 1 /\ (node = "start_attempt" => attempt < MaxRetries + 1)
    BY DEF InductiveInv, AttemptsBounded, MaxAttempts
  <2>2. \/ node \in BeforeAttempts
        \/ node = "start_attempt"
        \/ node \in BeforeAnswer \cup AfterAnswer /\ Position(node) <= 9
    BY Positions DEF Nodes, BeforeAttempts, BeforeAnswer, AfterAnswer
  <2>3. steps <= 15 + 8 * MaxRetries
    <3>1. MaxRetries \in Nat
      BY WorkflowAssumption
    <3>2. CASE node \in BeforeAttempts \/ node = "start_attempt"
      BY <2>1, <3>1, <3>2, StepsNow
    <3>3. CASE node \in BeforeAnswer \cup AfterAnswer /\ Position(node) <= 9
      <4>1. /\ attempt \in Nat /\ steps \in Nat
            /\ steps <= 6 + 8 * (attempt - 1) + Position(node)
        BY <3>3, StepsNow
      <4>2. Position(node) \in Nat
        BY <3>3, Positions DEF BeforeAnswer, AfterAnswer
      <4> QED BY <2>1, <3>1, <3>3, <4>1, <4>2
    <3> QED BY <2>2, <3>2, <3>3
  <2> QED BY <2>3, StepsNow, WorkflowAssumption
<1> QED BY InductiveInvariant, <1>1, PTL
-----------------------------------------------------------------------------
\* A set of naturals that is not empty has a least element.
LEMMA LeastNat ==
    ASSUME NEW T \in SUBSET Nat, T # {}
    PROVE  \E n \in T : \A m \in T : n <= m
<1> DEFINE R == {ss \in Nat \X Nat : ss[1] < ss[2]}
<1>1. IsWellFoundedOn(R, Nat)
  BY NatLessThanWellFounded DEF OpToRel
<1>2. PICK n \in T : \A m \in T : ~(<<m, n>> \in R)
  <2> HIDE DEF R
  <2> QED BY <1>1, WFMin
<1>3. \A m \in T : ~(m < n)
  BY <1>2
<1> QED BY <1>3

\* A set of naturals with 0 that has the successors of its members is all of
\* them.
LEMMA AllNat ==
    ASSUME NEW T \in SUBSET Nat, 0 \in T, \A n \in T : n + 1 \in T
    PROVE  \A n \in Nat : n \in T
<1> SUFFICES ASSUME Nat \ T # {} PROVE FALSE
  OBVIOUS
<1>1. PICK n \in Nat \ T : \A m \in Nat \ T : n <= m
  <2>1. Nat \ T \in SUBSET Nat
    OBVIOUS
  <2> QED BY <2>1, LeastNat
<1>2. n # 0 /\ n - 1 \in Nat /\ n - 1 \notin Nat \ T
  BY <1>1
<1>3. (n - 1) + 1 \in T
  BY <1>2
<1> QED BY <1>1, <1>2, <1>3
-----------------------------------------------------------------------------
(* _post_process_cases *)

Dedup(unique, payload, max) ==
    unique = [n \in 0 .. Len(payload) |->
                 IF n = 0 THEN <<>> ELSE Keep(unique[n - 1], payload[n], max)]

\* The loop over the cases is defined.
LEMMA DedupDefined ==
    ASSUME NEW payload, NEW max, Len(payload) \in Nat
    PROVE  \E unique : Dedup(unique, payload, max)
<1> DEFINE Body(g, n) == IF n = 0 THEN <<>> ELSE Keep(g[n - 1], payload[n], max)
           Defined(k) == \E g : g = [n \in 0 .. k |-> Body(g, n)]
           T == {k \in Nat : Defined(k)}
<1>1. 0 \in T
  <2> DEFINE g == [n \in 0 .. 0 |-> <<>>]
  <2>1. g = [n \in 0 .. 0 |-> Body(g, n)]
    <3>1. \A n \in 0 .. 0 : Body(g, n) = <<>>
      OBVIOUS
    <3> QED BY <3>1
  <2> QED BY <2>1
<1>2. ASSUME NEW k \in T PROVE k + 1 \in T
  <2>1. PICK h : h = [n \in 0 .. k |-> Body(h, n)]
    OBVIOUS
  <2>2. k \in Nat
    OBVIOUS
  <2> DEFINE g == [n \in 0 .. k + 1 |->
                      IF n = k + 1 THEN Keep(h[k], payload[k + 1], max) ELSE h[n]]
  <2>3. ASSUME NEW n \in 0 .. k + 1 PROVE g[n] = Body(g, n)
    <3>1. CASE n = k + 1
      <4>1. n # 0 /\ n - 1 = k /\ k \in 0 .. k + 1 /\ k # k + 1
        BY <2>2, <3>1
      <4>2. g[n - 1] = h[k]
        BY <4>1
      <4> QED BY <3>1, <4>1, <4>2
    <3>2. CASE n # k + 1
      <4>1. n \in 0 .. k /\ (n # 0 => n - 1 \in 0 .. k + 1 /\ n - 1 # k + 1)
        BY <2>2, <3>2
      <4>2. n # 0 => g[n - 1] = h[n - 1]
        BY <4>1
      <4>3. Body(g, n) = Body(h, n)
        <5> HIDE DEF g
        <5> QED BY <4>2
      <4>4. h[n] = Body(h, n)
        <5> HIDE DEF Body
        <5> QED BY <2>1, <4>1
      <4> HIDE DEF Body
      <4> QED BY <3>2, <4>3, <4>4
    <3> QED BY <3>1, <3>2
  <2>4. g = [n \in 0 .. k + 1 |-> Body(g, n)]
    <3>1. g = [n \in 0 .. k + 1 |-> g[n]]
      OBVIOUS
    <3> HIDE DEF g, Body
    <3> QED BY <2>3, <3>1
  <2>5. k + 1 \in Nat
    BY <2>2
  <2> HIDE DEF g, Body
  <2> QED BY <2>4, <2>5
<1>3. Len(payload) \in T
  <2>1. T \in SUBSET Nat
    OBVIOUS
  <2> HIDE DEF T
  <2> QED BY <1>1, <1>2, <2>1, AllNat
<1> QED BY <1>3 DEF Dedup

\* What is kept so far: no title twice, no more than wanted, only what was there.
Kept(unique, payload, max, n) ==
    /\ unique \in Seq(Cases) /\ Len(unique) <= max
    /\ n > 0 => Len(unique) > 0
    /\ \A i, j \in 1 .. Len(unique) : unique[i].title = unique[j].title => i = j
    /\ \A i \in 1 .. Len(unique) : \E j \in 1 .. Len(payload) : unique[i] = payload[j]

\* One case more.
LEMMA KeepKeeps ==
    ASSUME NEW payload \in Seq(Cases), NEW max \in Nat \ {0}, NEW unique,
           NEW n \in Nat, n + 1 <= Len(payload), Kept(unique, payload, max, n)
    PROVE  Kept(Keep(unique, payload[n + 1], max), payload, max, n + 1)
<1> DEFINE one == payload[n + 1]
           m == Len(unique)
           more == Keep(unique, one, max)
<1>1. /\ unique \in Seq(Cases) /\ m <= max /\ m \in Nat /\ DOMAIN unique = 1 .. m
      /\ \A i, j \in 1 .. m : unique[i].title = unique[j].title => i = j
      /\ \A i \in 1 .. m : \E j \in 1 .. Len(payload) : unique[i] = payload[j]
  BY DEF Kept
<1>2. n + 1 \in 1 .. Len(payload)
  OBVIOUS
<1>3. one \in Cases
  BY <1>2, ElementOfSeq
<1>4. CASE m >= max \/ \E i \in DOMAIN unique : unique[i].title = one.title
  <2>1. more = unique
    BY <1>4 DEF Keep
  <2>2. m > 0
    BY <1>1, <1>4
  <2> HIDE DEF more
  <2> QED BY <1>1, <2>1, <2>2 DEF Kept, more
<1>5. CASE ~(m >= max \/ \E i \in DOMAIN unique : unique[i].title = one.title)
  <2>1. more = Append(unique, one)
    BY <1>5 DEF Keep
  <2> HIDE DEF one, more
  <2>2. /\ more \in Seq(Cases) /\ Len(more) = m + 1 /\ more[m + 1] = one
        /\ \A i \in 1 .. m : more[i] = unique[i]
    BY <1>1, <1>3, <2>1
  <2> HIDE DEF m
  <2>3. m + 1 <= max /\ m + 1 > 0
    BY <1>1, <1>5 DEF m
  <2>4. \A i \in 1 .. m + 1 : i \in 1 .. m \/ i = m + 1
    BY <1>1
  <2>5. ASSUME NEW i \in 1 .. m + 1, NEW j \in 1 .. m + 1, more[i].title = more[j].title
        PROVE  i = j
    <3>1. \A k \in 1 .. m : unique[k].title # one.title
      BY <1>1, <1>5 DEF m
    <3> QED BY <1>1, <2>2, <2>4, <2>5, <3>1
  <2>6. ASSUME NEW i \in 1 .. m + 1 PROVE \E j \in 1 .. Len(payload) : more[i] = payload[j]
    BY <1>1, <1>2, <2>2, <2>4 DEF one
  <2> QED BY <2>2, <2>3, <2>5, <2>6 DEF Kept, more, one
<1> QED BY <1>4, <1>5

\* What is kept of an answer that is valid.
LEMMA PostProcessedIs ==
    ASSUME NEW payload \in Seq(Cases), NEW max \in Nat \ {0}
    PROVE  LET kept == PostProcessed(payload, max)
           IN  /\ kept \in Seq(Cases) /\ Len(kept) <= max
               /\ payload # <<>> => kept # <<>>
               /\ \A i, j \in DOMAIN kept : kept[i].title = kept[j].title => i = j
               /\ ToSet(kept) \subseteq ToSet(payload)
<1> DEFINE unique == CHOOSE u : Dedup(u, payload, max)
           N == Len(payload)
           T == {n \in Nat : n <= N => Kept(unique[n], payload, max, n)}
           kept == PostProcessed(payload, max)
<1>1. N \in Nat /\ DOMAIN payload = 1 .. N
  OBVIOUS
<1>2. Dedup(unique, payload, max)
  <2> HIDE DEF unique
  <2> QED BY <1>1, DedupDefined DEF unique
<1>3. kept = unique[N]
  BY DEF PostProcessed, Dedup
<1> HIDE DEF unique, N, kept
<1>4. \A n \in 0 .. N :
         unique[n] = IF n = 0 THEN <<>> ELSE Keep(unique[n - 1], payload[n], max)
  BY <1>2 DEF Dedup, N
<1>5. 0 \in T
  <2>1. unique[0] = <<>>
    BY <1>1, <1>4
  <2>2. Kept(<<>>, payload, max, 0)
    BY DEF Kept
  <2> QED BY <2>1, <2>2
<1>6. ASSUME NEW n \in T PROVE n + 1 \in T
  <2> SUFFICES ASSUME n + 1 <= N PROVE Kept(unique[n + 1], payload, max, n + 1)
    OBVIOUS
  <2>1. n \in Nat /\ n <= N /\ n + 1 \in 0 .. N /\ n + 1 # 0 /\ (n + 1) - 1 = n
    BY <1>1
  <2>2. Kept(unique[n], payload, max, n)
    BY <2>1
  <2>3. unique[n + 1] = Keep(unique[n], payload[n + 1], max)
    BY <1>4, <2>1
  <2> QED BY <2>1, <2>2, <2>3, KeepKeeps DEF N
<1>7. Kept(kept, payload, max, N)
  <2>1. T \in SUBSET Nat
    OBVIOUS
  <2>2. \A n \in T : n + 1 \in T
    <3> HIDE DEF T
    <3> QED BY <1>6
  <2>3. N \in T
    <3> HIDE DEF T
    <3> QED BY <1>1, <1>5, <2>1, <2>2, AllNat
  <2> QED BY <1>1, <1>3, <2>3
<1>8. DOMAIN kept = 1 .. Len(kept) /\ kept \in Seq(Cases)
  BY <1>7 DEF Kept
<1>9. payload # <<>> => kept # <<>>
  <2>1. payload # <<>> => N > 0
    BY <1>1, EmptySeq DEF N
  <2>2. kept = <<>> => Len(kept) = 0
    OBVIOUS
  <2> QED BY <1>1, <1>7, <2>1, <2>2 DEF Kept
<1>10. ToSet(kept) \subseteq ToSet(payload)
  BY <1>1, <1>7, <1>8 DEF Kept, ToSet, N
<1> QED BY <1>7, <1>8, <1>9, <1>10 DEF Kept, kept
-----------------------------------------------------------------------------
(* LocalGenerationWorkflowRunner.generate *)

Turns(run, s, req, ctx, results) ==
    run = [n \in 0 .. Len(results) |->
              IF n = 0 THEN LocalStart
              ELSE LocalTurn(s, req, ctx, run[n - 1], results[n])]

\* The loop over the attempts is defined.
LEMMA TurnsDefined ==
    ASSUME NEW s, NEW req, NEW ctx, NEW results, Len(results) \in Nat
    PROVE  \E run : Turns(run, s, req, ctx, results)
<1> DEFINE Body(g, n) == IF n = 0 THEN LocalStart
                          ELSE LocalTurn(s, req, ctx, g[n - 1], results[n])
           Defined(k) == \E g : g = [n \in 0 .. k |-> Body(g, n)]
           T == {k \in Nat : Defined(k)}
<1>1. 0 \in T
  <2> DEFINE g == [n \in 0 .. 0 |-> LocalStart]
  <2>1. g = [n \in 0 .. 0 |-> Body(g, n)]
    <3>1. \A n \in 0 .. 0 : Body(g, n) = LocalStart
      OBVIOUS
    <3> QED BY <3>1
  <2> QED BY <2>1
<1>2. ASSUME NEW k \in T PROVE k + 1 \in T
  <2>1. PICK h : h = [n \in 0 .. k |-> Body(h, n)]
    OBVIOUS
  <2>2. k \in Nat
    OBVIOUS
  <2> DEFINE g == [n \in 0 .. k + 1 |->
                      IF n = k + 1 THEN LocalTurn(s, req, ctx, h[k], results[k + 1])
                      ELSE h[n]]
  <2>3. ASSUME NEW n \in 0 .. k + 1 PROVE g[n] = Body(g, n)
    <3>1. CASE n = k + 1
      <4>1. n # 0 /\ n - 1 = k /\ k \in 0 .. k + 1 /\ k # k + 1
        BY <2>2, <3>1
      <4>2. g[n - 1] = h[k]
        BY <4>1
      <4> QED BY <3>1, <4>1, <4>2
    <3>2. CASE n # k + 1
      <4>1. n \in 0 .. k /\ (n # 0 => n - 1 \in 0 .. k + 1 /\ n - 1 # k + 1)
        BY <2>2, <3>2
      <4>2. n # 0 => g[n - 1] = h[n - 1]
        BY <4>1
      <4>3. Body(g, n) = Body(h, n)
        <5> HIDE DEF g
        <5> QED BY <4>2
      <4>4. h[n] = Body(h, n)
        <5> HIDE DEF Body
        <5> QED BY <2>1, <4>1
      <4> HIDE DEF Body
      <4> QED BY <3>2, <4>3, <4>4
    <3> QED BY <3>1, <3>2
  <2>4. g = [n \in 0 .. k + 1 |-> Body(g, n)]
    <3>1. g = [n \in 0 .. k + 1 |-> g[n]]
      OBVIOUS
    <3> HIDE DEF g, Body
    <3> QED BY <2>3, <3>1
  <2>5. k + 1 \in Nat
    BY <2>2
  <2> HIDE DEF g, Body
  <2> QED BY <2>4, <2>5
<1>3. Len(results) \in T
  <2>1. T \in SUBSET Nat
    OBVIOUS
  <2> HIDE DEF T
  <2> QED BY <1>1, <1>2, <2>1, AllNat
<1> QED BY <1>3 DEF Turns

\* Before the first attempt.
LEMMA LocalAfterNone ==
    ASSUME NEW s, NEW req, NEW ctx
    PROVE  LocalAfter(s, req, ctx, <<>>) = LocalStart
<1> DEFINE run == CHOOSE r : Turns(r, s, req, ctx, <<>>)
<1>1. Len(<<>>) = 0
  OBVIOUS
<1>2. Turns(run, s, req, ctx, <<>>)
  BY <1>1, TurnsDefined
<1>3. LocalAfter(s, req, ctx, <<>>) = run[0]
  BY <1>1 DEF LocalAfter, Turns
<1> HIDE DEF run
<1>4. run[0] = LocalStart
  BY <1>1, <1>2 DEF Turns
<1> QED BY <1>3, <1>4

\* One result more is one turn more.
LEMMA LocalAfterMore ==
    ASSUME NEW s, NEW req, NEW ctx, NEW S, NEW results \in Seq(S), NEW result \in S
    PROVE  LocalAfter(s, req, ctx, Append(results, result))
             = LocalTurn(s, req, ctx, LocalAfter(s, req, ctx, results), result)
<1> DEFINE N == Len(results)
           more == Append(results, result)
           f == CHOOSE r : Turns(r, s, req, ctx, results)
           g == CHOOSE r : Turns(r, s, req, ctx, more)
           T == {n \in Nat : n <= N => f[n] = g[n]}
<1>1. /\ N \in Nat /\ Len(more) = N + 1 /\ more[N + 1] = result
      /\ \A n \in 1 .. N : more[n] = results[n]
  OBVIOUS
<1>2. /\ LocalAfter(s, req, ctx, results) = f[N]
      /\ LocalAfter(s, req, ctx, more) = g[Len(more)]
  BY DEF LocalAfter, Turns
<1> HIDE DEF more, N
<1>3. Turns(f, s, req, ctx, results) /\ Turns(g, s, req, ctx, more)
  <2> HIDE DEF f, g
  <2>1. Len(results) \in Nat /\ Len(more) \in Nat
    BY <1>1 DEF N
  <2> QED BY <2>1, TurnsDefined DEF f, g
<1> HIDE DEF f, g
<1>4. \A n \in 0 .. N :
         f[n] = IF n = 0 THEN LocalStart ELSE LocalTurn(s, req, ctx, f[n - 1], results[n])
  BY <1>3 DEF Turns, N
<1>5. \A n \in 0 .. N + 1 :
         g[n] = IF n = 0 THEN LocalStart ELSE LocalTurn(s, req, ctx, g[n - 1], more[n])
  BY <1>1, <1>3 DEF Turns
<1>6. 0 \in T
  <2>1. 0 \in 0 .. N /\ 0 \in 0 .. N + 1
    BY <1>1
  <2> QED BY <1>4, <1>5, <2>1
<1>7. ASSUME NEW n \in T PROVE n + 1 \in T
  <2> SUFFICES ASSUME n + 1 <= N PROVE f[n + 1] = g[n + 1]
    OBVIOUS
  <2>1. /\ n \in Nat /\ n <= N /\ n + 1 \in 0 .. N /\ n + 1 \in 0 .. N + 1 /\ n + 1 # 0
        /\ (n + 1) - 1 = n /\ n + 1 \in 1 .. N
    BY <1>1
  <2>2. f[n] = g[n]
    BY <2>1
  <2>3. f[n + 1] = LocalTurn(s, req, ctx, f[n], results[n + 1])
    BY <1>4, <2>1
  <2>4. g[n + 1] = LocalTurn(s, req, ctx, g[n], more[n + 1])
    BY <1>5, <2>1
  <2>5. more[n + 1] = results[n + 1]
    BY <1>1, <2>1
  <2> QED BY <2>2, <2>3, <2>4, <2>5
<1>8. f[N] = g[N]
  <2>1. T \in SUBSET Nat
    OBVIOUS
  <2>2. \A n \in T : n + 1 \in T
    <3> HIDE DEF T
    <3> QED BY <1>7
  <2>3. N \in T
    <3> HIDE DEF T
    <3> QED BY <1>1, <1>6, <2>1, <2>2, AllNat
  <2> QED BY <1>1, <2>3
<1>9. N + 1 \in 0 .. N + 1 /\ N + 1 # 0 /\ (N + 1) - 1 = N
  BY <1>1
<1>10. g[N + 1] = LocalTurn(s, req, ctx, g[N], more[N + 1])
  BY <1>5, <1>9
<1> QED BY <1>1, <1>2, <1>8, <1>10 DEF more

\* A turn that is not paid for.
LEMMA TurnOverBudget ==
    ASSUME NEW s, NEW req, NEW ctx, NEW result, NEW n, NEW corr, NEW p, NEW c, NEW cs, NEW rev,
           OverBudget(s, p + Prompt(corr), c)
    PROVE  LocalTurn(s, req, ctx, Ran("running", n, corr, p, c, cs, rev), result)
             = Ran("budget", n + 1, corr, p + Prompt(corr), c, cs, "none")
BY DEF LocalTurn, Ran

\* A turn whose call raises.
LEMMA TurnRaises ==
    ASSUME NEW s, NEW req, NEW ctx, NEW result, NEW n, NEW corr, NEW p, NEW c, NEW cs, NEW rev,
           ~OverBudget(s, p + Prompt(corr), c),
           result.key \in {"llm_error", "missing_key", "crash"}
    PROVE  LocalTurn(s, req, ctx, Ran("running", n, corr, p, c, cs, rev), result)
             = Ran(result.key, n + 1, corr, p + Prompt(corr), c, cs, "none")
BY DEF LocalTurn, Ran

\* A turn whose answer is not valid.
LEMMA TurnInvalid ==
    ASSUME NEW s, NEW req, NEW ctx, NEW result, NEW n, NEW corr, NEW p, NEW c, NEW cs, NEW rev,
           ~OverBudget(s, p + Prompt(corr), c),
           result.key \notin {"llm_error", "missing_key", "crash"}, ~Valid(Normalized(result))
    PROVE  LocalTurn(s, req, ctx, Ran("running", n, corr, p, c, cs, rev), result)
             = Ran(IF n + 1 = MaxAttempts THEN "invalid" ELSE "running", n + 1, "schema",
                   p + Prompt(corr), c + AnswerChars, cs, "none")
BY DEF LocalTurn, Ran

\* A turn whose answer is valid.
LEMMA TurnJudges ==
    ASSUME NEW s, NEW req, NEW ctx, NEW result, NEW n, NEW corr, NEW p, NEW c, NEW cs, NEW rev,
           ~OverBudget(s, p + Prompt(corr), c),
           result.key \notin {"llm_error", "missing_key", "crash"}, Valid(Normalized(result))
    PROVE  LocalTurn(s, req, ctx, Ran("running", n, corr, p, c, cs, rev), result)
             = Judgement(s, req, ctx, n + 1, corr, p + Prompt(corr), c + AnswerChars,
                         PostProcessed(Normalized(result), req.max_cases))
BY DEF LocalTurn, Ran
-----------------------------------------------------------------------------
(* What the nodes hold, in terms of the searches and answers so far. *)

\* The local runner over the results so far, and one that has what the graph has.
After == LocalAfter(settings, request, contexts, heard)
Now(kind) ==
    Ran(kind, attempt, correction, promptChars, completionChars, cases, review)
Judged(cs) ==
    Judgement(settings, request, contexts, attempt, correction, promptChars,
              completionChars, cs)

\* Every path to an attempt has searched as often as the local runner.
RetrievalInv ==
    /\ found \in Seq(Contexts)
    /\ contexts = IF found = <<>> THEN NoContext ELSE Last(found)
    /\ node \in {"analyze_requirement", "retrieve_knowledge"} => found = <<>> /\ ~rewritten
    /\ node = "route_after_retrieval" =>
          Len(found) = (IF request.top_k = 0 THEN 0 ELSE 1) /\ ~rewritten
    /\ node \in {"rewrite_query", "retrieve_rewritten_knowledge"} =>
          Len(found) = 1 /\ WantsRewrite(settings, request, found[1], FALSE)
    /\ \/ node \in {"plan_test_strategy", "start_attempt"} \cup BeforeAnswer \cup AfterAnswer
       \/ node \in Over /\ (outcome = "crash" => heard # <<>>) /\ outcome # "recursion"
       => Len(found) = LocalSearches(settings, request, found)

Postprocessed ==
    {"review_cases", "route_after_review", "check_quality_gate", "estimate_usage"}
ReviewNow == Reviewed(request, contexts, cases, settings.minScore)

\* What each node after the answer may rely on.
GateInv ==
    /\ answered \in Seq(Cases)
    /\ node = "post_process_cases" => Valid(answered) /\ cases = answered
    /\ node \in Postprocessed \/ outcome = "answer" =>
          Valid(answered) /\ cases = PostProcessed(answered, request.max_cases)
    /\ node \in BeforeAnswer \cup {"validate_output", "post_process_cases", "review_cases"}
          => review = "none"
    /\ node \in {"review_cases", "route_after_review", "check_quality_gate"} => settings.review
    /\ node \in {"route_after_review", "check_quality_gate"} => review = ReviewNow
    /\ node = "check_quality_gate" => settings.requirePass
    /\ node = "estimate_usage" \/ outcome = "answer" =>
          /\ review = IF settings.review THEN ReviewNow ELSE "none"
          /\ settings.review /\ settings.requirePass => review = "passed"

\* Where the local runner is when the graph is at a node.
AgreeInv ==
    /\ node \in BeforeAttempts => heard = <<>> /\ Now("running") = LocalStart
    /\ node = "start_attempt" => After = Now("running")
    /\ node = "build_prompt" =>
          \E rev \in {"none", "passed", "failed"} :
             After = Ran("running", attempt - 1, correction, promptChars, completionChars,
                         cases, rev)
    /\ node \in {"check_budget", "call_llm"} =>
          \E rev \in {"none", "passed", "failed"} :
             After = Ran("running", attempt - 1, correction, promptChars - Prompt(correction),
                         completionChars, cases, rev)
    /\ node = "validate_output" =>
          After = IF Valid(answered) THEN Judged(PostProcessed(answered, request.max_cases))
                  ELSE Ran(IF attempt = MaxAttempts THEN "invalid" ELSE "running", attempt,
                           "schema", promptChars, completionChars, cases, "none")
    /\ node = "post_process_cases" => After = Judged(PostProcessed(cases, request.max_cases))
    /\ node \in {"review_cases", "route_after_review"} => After = Judged(cases)
    /\ node = "check_quality_gate" =>
          After = Now(IF review = "passed" THEN "answer" ELSE "quality")
    /\ node = "estimate_usage" => After = Now("answer")
    /\ node = "output_validation_failed" => After = Now("invalid")
    /\ node \in Over /\ outcome # "recursion" /\ (outcome = "crash" => heard # <<>>) =>
          LocalRun(settings, request, found, heard) = Now(outcome)

-----------------------------------------------------------------------------
\* An answer's cases are cases.
LEMMA NormalizedIs == ASSUME NEW said \in Answers PROVE Normalized(said) \in Seq(Cases)
BY WorkflowAssumption DEF Normalized

\* Each step leaves the nodes what they rely on.
LEMMA GateStep == ASSUME InductiveInv, GateInv, [Next]_vars PROVE GateInv'
<1> USE DEF GateInv, ReviewNow, Postprocessed, BeforeAnswer, At, Goto, End, inputs, retrieval,
            texts, judged, calls, ended
<1>0. node \in Nodes => outcome = "running"
  BY DEF InductiveInv, AttemptsBounded
<1>1. CASE AnalyzeRequirement
  BY <1>0, <1>1 DEF AnalyzeRequirement, Nodes
<1>2. CASE RetrieveKnowledge
  BY <1>0, <1>2 DEF RetrieveKnowledge, Retrieve, Nodes
<1>3. CASE RouteAfterRetrieval
  BY <1>0, <1>3 DEF RouteAfterRetrieval, Nodes
<1>4. CASE RewriteQuery
  BY <1>0, <1>4 DEF RewriteQuery, Nodes
<1>5. CASE RetrieveRewritten
  BY <1>0, <1>5 DEF RetrieveRewritten, Retrieve, Nodes
<1>6. CASE PlanTestStrategy
  BY <1>0, <1>6 DEF PlanTestStrategy, Nodes
<1>7. CASE StartAttempt
  BY <1>0, <1>7 DEF StartAttempt, Nodes
<1>8. CASE BuildPrompt
  BY <1>0, <1>8 DEF BuildPrompt, Nodes
<1>9. CASE CheckBudget
  BY <1>0, <1>9 DEF CheckBudget, Nodes
<1>10. CASE MissingKey
  BY <1>0, <1>10 DEF MissingKey, Nodes
<1>11. CASE PostAnswered
  BY <1>0, <1>11, NormalizedIs DEF PostAnswered, Nodes
<1>12. CASE PostRetries
  BY <1>0, <1>12 DEF PostRetries, Nodes
<1>13. CASE PostFails
  BY <1>0, <1>13 DEF PostFails, Nodes
<1>14. CASE PostCrashes
  BY <1>0, <1>14 DEF PostCrashes, Nodes
<1>15. CASE ValidateOutput
  BY <1>0, <1>15 DEF ValidateOutput, Nodes
<1>16. CASE PostProcess
  BY <1>0, <1>16 DEF PostProcess, Nodes
<1>17. CASE ReviewCases
  BY <1>0, <1>17 DEF ReviewCases, Nodes
<1>18. CASE RouteAfterReview
  BY <1>0, <1>18 DEF RouteAfterReview, Nodes
<1>19. CASE CheckQualityGate
  BY <1>0, <1>19 DEF CheckQualityGate, Nodes
<1>20. CASE EstimateUsage
  BY <1>0, <1>20 DEF EstimateUsage, Nodes
<1>21. CASE OutputValidationFailed
  BY <1>0, <1>21 DEF OutputValidationFailed, Nodes
<1>22. CASE OutOfSteps
  BY <1>0, <1>22 DEF OutOfSteps, Nodes
<1>23. CASE Execute
  BY <1>0, <1>23 DEF Execute, Nodes
<1>24. CASE UNCHANGED vars
  BY <1>24 DEF vars
<1> QED BY <1>1, <1>2, <1>3, <1>4, <1>5, <1>6, <1>7, <1>8, <1>9, <1>10, <1>11, <1>12,
           <1>13, <1>14, <1>15, <1>16, <1>17, <1>18, <1>19, <1>20, <1>21, <1>22, <1>23,
           <1>24 DEF Next, Workflow, CallLlm, Done

\* One search, and one search more.
LEMMA OneSearch ==
    ASSUME NEW S, NEW f \in Seq(S), Len(f) = 1 PROVE f # <<>> /\ Last(f) = f[1]
BY DEF Last

\* One more result of a search.
LEMMA Searched ==
    ASSUME NEW S, NEW f \in Seq(S), NEW one \in S
    PROVE  LET more == Append(f, one)
           IN  /\ more \in Seq(S) /\ Len(more) = Len(f) + 1 /\ Last(more) = one
               /\ more # <<>> /\ (Len(f) = 1 => more[1] = f[1])
               /\ (f = <<>> => Len(more) = 1)
<1>1. Len(f) \in Nat
  OBVIOUS
<1> QED BY <1>1 DEF Last

\* Each step searches as the local runner does.
LEMMA RetrievalStep == ASSUME InductiveInv, RetrievalInv, [Next]_vars PROVE RetrievalInv'
<1> USE DEF RetrievalInv, BeforeAnswer, AfterAnswer, Over, At, Goto, End, inputs, retrieval,
            texts, judged, calls, ended
<1>0. /\ node \in Nodes => outcome = "running"
      /\ node \in BeforeAttempts => heard = <<>>
      /\ request.top_k \in Nat
  <2>1. node \in BeforeAttempts => Len(heard) <= 0 /\ heard \in Seq(Results)
    BY DEF InductiveInv, AttemptsBounded, TypeOK, Results
  <2>2. \A h \in Seq(Results) : Len(h) <= 0 => h = <<>>
    OBVIOUS
  <2> QED BY <2>1, <2>2, WorkflowAssumption DEF InductiveInv, AttemptsBounded, TypeOK
<1>1. CASE AnalyzeRequirement
  BY <1>0, <1>1 DEF AnalyzeRequirement, Nodes, LocalSearches
<1>2. CASE RetrieveKnowledge
  <2>1. /\ node = "retrieve_knowledge" /\ found = <<>> /\ ~rewritten /\ UNCHANGED <<inputs, rewritten, heard>>
        /\ heard = <<>>
    BY <1>0, <1>2 DEF RetrieveKnowledge, Retrieve, BeforeAttempts
  <2>2. CASE /\ request.top_k <= 0 /\ contexts' = NoContext /\ UNCHANGED found
             /\ Goto("route_after_retrieval")
    <3>1. request.top_k = 0
      BY <1>0, <2>2
    <3> QED BY <1>0, <2>1, <2>2, <3>1 DEF Nodes
  <2>3. ASSUME NEW ctx \in Contexts, request.top_k > 0, contexts' = ctx,
               found' = Append(found, ctx), Goto("route_after_retrieval")
        PROVE  RetrievalInv'
    <3>1. /\ found' \in Seq(Contexts) /\ Len(found') = 1 /\ Last(found') = ctx
          /\ found' # <<>>
      <4> HIDE DEF RetrievalInv
      <4>1. found \in Seq(Contexts) /\ found = <<>>
        BY <2>1 DEF RetrievalInv
      <4> QED BY <2>3, <4>1, Searched
    <3>2. request.top_k # 0
      BY <2>3
    <3> QED BY <1>0, <2>1, <2>3, <3>1, <3>2 DEF Nodes
  <2>4. CASE UNCHANGED <<contexts, found>> /\ End("crash")
    BY <1>0, <2>1, <2>4
  <2> QED BY <1>2, <2>2, <2>3, <2>4 DEF RetrieveKnowledge, Retrieve
<1>3. CASE RouteAfterRetrieval
  <2>1. /\ node = "route_after_retrieval" /\ ~rewritten /\ UNCHANGED <<inputs, contexts, found, rewritten>>
        /\ Len(found) = (IF request.top_k = 0 THEN 0 ELSE 1) /\ found \in Seq(Contexts)
        /\ contexts = (IF found = <<>> THEN NoContext ELSE Last(found))
        /\ (retryRetrieval' <=> WantsRewrite(settings, request, contexts, FALSE))
        /\ outcome' = "running"
        /\ node' = IF retryRetrieval' THEN "rewrite_query" ELSE "plan_test_strategy"
    <3>1. retryRetrieval' = WantsRewrite(settings, request, contexts, rewritten)
      BY <1>3 DEF RouteAfterRetrieval
    <3>2. node = "route_after_retrieval" /\ ~rewritten
      BY <1>3 DEF RouteAfterRetrieval
    <3>3. retryRetrieval' <=> WantsRewrite(settings, request, contexts, FALSE)
      BY <3>1, <3>2 DEF WantsRewrite
    <3> QED BY <1>0, <1>3, <3>3 DEF RouteAfterRetrieval, Nodes
  <2>2. CASE request.top_k = 0
    <3>1. ~retryRetrieval'
      BY <1>0, <2>1, <2>2 DEF WantsRewrite
    <3>2. LocalSearches(settings, request, found) = 0
      BY <2>2 DEF LocalSearches
    <3> QED BY <2>1, <2>2, <3>1, <3>2
  <2>3. CASE request.top_k # 0
    <3>1. contexts = found[1]
      BY <2>1, <2>3, OneSearch
    <3>2. ~(request.top_k <= 0)
      BY <1>0, <2>3
    <3>3. LocalSearches(settings, request, found) = IF retryRetrieval' THEN 2 ELSE 1
      BY <2>1, <3>1, <3>2 DEF LocalSearches
    <3> QED BY <2>1, <2>3, <3>1, <3>3
  <2> QED BY <2>2, <2>3
<1>4. CASE RewriteQuery
  BY <1>0, <1>4 DEF RewriteQuery, Nodes, LocalSearches
<1>5. CASE RetrieveRewritten
  <2>1. /\ node = "retrieve_rewritten_knowledge" /\ Len(found) = 1 /\ heard = <<>>
        /\ WantsRewrite(settings, request, found[1], FALSE) /\ UNCHANGED <<inputs, heard>>
    BY <1>0, <1>5 DEF RetrieveRewritten, Retrieve, BeforeAttempts
  <2>2. ~(request.top_k <= 0)
    BY <1>0, <2>1 DEF WantsRewrite
  <2>3. ASSUME NEW ctx \in Contexts, contexts' = ctx,
               found' = Append(found, ctx), Goto("plan_test_strategy")
        PROVE  RetrievalInv'
    <3>1. /\ found' \in Seq(Contexts) /\ Len(found') = 2 /\ Last(found') = ctx
          /\ found' # <<>> /\ found'[1] = found[1]
      <4> HIDE DEF RetrievalInv
      <4>1. found \in Seq(Contexts)
        BY DEF RetrievalInv
      <4>2. LET more == Append(found, ctx)
            IN  /\ more \in Seq(Contexts) /\ Len(more) = Len(found) + 1 /\ Last(more) = ctx
                /\ more # <<>> /\ (Len(found) = 1 => more[1] = found[1])
        BY <4>1, Searched
      <4> QED BY <2>1, <2>3, <4>2
    <3>2. LocalSearches(settings, request, found)' = 2
      BY <2>1, <2>2, <3>1 DEF LocalSearches
    <3> QED BY <2>3, <3>1, <3>2
  <2>4. CASE UNCHANGED <<contexts, found>> /\ End("crash")
    BY <1>0, <2>1, <2>4
  <2> QED BY <1>5, <2>2, <2>3, <2>4 DEF RetrieveRewritten, Retrieve
<1>6. CASE PlanTestStrategy
  BY <1>0, <1>6 DEF PlanTestStrategy, Nodes, LocalSearches
<1>7. CASE StartAttempt
  BY <1>0, <1>7 DEF StartAttempt, Nodes, LocalSearches
<1>8. CASE BuildPrompt
  BY <1>0, <1>8 DEF BuildPrompt, Nodes, LocalSearches
<1>9. CASE CheckBudget
  BY <1>0, <1>9 DEF CheckBudget, Nodes, LocalSearches
<1>10. CASE MissingKey
  BY <1>0, <1>10 DEF MissingKey, Nodes, LocalSearches
<1>11. CASE PostAnswered
  BY <1>0, <1>11 DEF PostAnswered, Nodes, LocalSearches, Heard
<1>12. CASE PostRetries
  BY <1>0, <1>12 DEF PostRetries, Nodes, LocalSearches
<1>13. CASE PostFails
  BY <1>0, <1>13 DEF PostFails, Nodes, LocalSearches
<1>14. CASE PostCrashes
  BY <1>0, <1>14 DEF PostCrashes, Nodes, LocalSearches
<1>15. CASE ValidateOutput
  BY <1>0, <1>15 DEF ValidateOutput, Nodes, LocalSearches
<1>16. CASE PostProcess
  BY <1>0, <1>16 DEF PostProcess, Nodes, LocalSearches
<1>17. CASE ReviewCases
  BY <1>0, <1>17 DEF ReviewCases, Nodes, LocalSearches
<1>18. CASE RouteAfterReview
  BY <1>0, <1>18 DEF RouteAfterReview, Nodes, LocalSearches
<1>19. CASE CheckQualityGate
  BY <1>0, <1>19 DEF CheckQualityGate, Nodes, LocalSearches
<1>20. CASE EstimateUsage
  BY <1>0, <1>20 DEF EstimateUsage, Nodes, LocalSearches
<1>21. CASE OutputValidationFailed
  BY <1>0, <1>21 DEF OutputValidationFailed, Nodes, LocalSearches
<1>22. CASE OutOfSteps
  BY <1>0, <1>22 DEF OutOfSteps, Nodes, LocalSearches
<1>23. CASE Execute
  BY <1>0, <1>23 DEF Execute, Nodes, LocalSearches
<1>24. CASE UNCHANGED vars
  BY <1>24 DEF vars, LocalSearches
<1> QED BY <1>1, <1>2, <1>3, <1>4, <1>5, <1>6, <1>7, <1>8, <1>9, <1>10, <1>11, <1>12,
           <1>13, <1>14, <1>15, <1>16, <1>17, <1>18, <1>19, <1>20, <1>21, <1>22, <1>23,
           <1>24 DEF Next, Workflow, CallLlm, Done

\* The local runner over the graph's searches and results has the graph's contexts.
LEMMA LocalRunIs ==
    ASSUME NEW s, NEW req, NEW searches, NEW results, NEW ctx,
           ctx = IF searches = <<>> THEN NoContext ELSE Last(searches)
    PROVE  LET run == LocalAfter(s, req, ctx, results)
           IN  LocalRun(s, req, searches, results)
                 = IF run.kind = "running" THEN LocalTurn(s, req, ctx, run, NoAnswer("none"))
                   ELSE run
BY DEF LocalRun

\* It has ended with its last result.
LEMMA LocalRunEnds ==
    ASSUME NEW s, NEW req, NEW searches, NEW results, NEW ctx,
           ctx = IF searches = <<>> THEN NoContext ELSE Last(searches),
           NEW kind, NEW n, NEW corr, NEW p, NEW c, NEW cs, NEW rev, kind # "running",
           LocalAfter(s, req, ctx, results) = Ran(kind, n, corr, p, c, cs, rev)
    PROVE  LocalRun(s, req, searches, results) = Ran(kind, n, corr, p, c, cs, rev)
<1>1. Ran(kind, n, corr, p, c, cs, rev).kind = kind
  BY DEF Ran
<1> QED BY <1>1, LocalRunIs

\* It ends at the budget.
LEMMA LocalRunStops ==
    ASSUME NEW s, NEW req, NEW searches, NEW results, NEW ctx,
           ctx = IF searches = <<>> THEN NoContext ELSE Last(searches),
           NEW n, NEW corr, NEW p, NEW c, NEW cs, NEW rev,
           LocalAfter(s, req, ctx, results) = Ran("running", n, corr, p, c, cs, rev),
           OverBudget(s, p + Prompt(corr), c)
    PROVE  LocalRun(s, req, searches, results)
             = Ran("budget", n + 1, corr, p + Prompt(corr), c, cs, "none")
<1>1. Ran("running", n, corr, p, c, cs, rev).kind = "running"
  BY DEF Ran
<1> QED BY <1>1, LocalRunIs, TurnOverBudget

\* What a paid call leaves, for the local runner.
LEMMA CallTurn ==
    ASSUME InductiveInv, AgreeInv, node = "call_llm", NEW result \in Results
    PROVE  LET local == LocalAfter(settings, request, contexts, Append(heard, result))
               completion == completionChars + AnswerChars
               payload == Normalized(result)
           IN  IF result.key \in {"llm_error", "missing_key", "crash"}
               THEN local = Ran(result.key, attempt, correction, promptChars,
                                completionChars, cases, "none")
               ELSE local =
                      IF Valid(payload)
                      THEN Judgement(settings, request, contexts, attempt, correction,
                                     promptChars, completion,
                                     PostProcessed(payload, request.max_cases))
                      ELSE Ran(IF attempt = MaxAttempts THEN "invalid" ELSE "running", attempt,
                               "schema", promptChars, completion, cases, "none")
<1> DEFINE p == promptChars - Prompt(correction)
<1>1. PICK rev \in {"none", "passed", "failed"} :
         After = Ran("running", attempt - 1, correction, p, completionChars, cases, rev)
  BY DEF AgreeInv
<1>2. /\ heard \in Seq(Results) /\ (attempt - 1) + 1 = attempt
      /\ p + Prompt(correction) = promptChars
  BY WorkflowAssumption DEF InductiveInv, TypeOK, Results, Prompt
<1>3. ~OverBudget(settings, promptChars, completionChars)
  <2>1. completionChars - 0 = completionChars
    BY DEF InductiveInv, TypeOK
  <2> QED BY <2>1 DEF InductiveInv, BudgetHolds
<1> HIDE DEF p
<1>4. LocalAfter(settings, request, contexts, Append(heard, result))
        = LocalTurn(settings, request, contexts,
                    Ran("running", attempt - 1, correction, p, completionChars, cases, rev),
                    result)
  BY <1>1, <1>2, LocalAfterMore DEF After
<1>5. ~OverBudget(settings, p + Prompt(correction), completionChars)
  BY <1>2, <1>3
<1>6. CASE result.key \in {"llm_error", "missing_key", "crash"}
  BY <1>2, <1>4, <1>5, <1>6, TurnRaises
<1>7. CASE result.key \notin {"llm_error", "missing_key", "crash"} /\ Valid(Normalized(result))
  BY <1>2, <1>4, <1>5, <1>7, TurnJudges
<1>8. CASE result.key \notin {"llm_error", "missing_key", "crash"} /\ ~Valid(Normalized(result))
  BY <1>2, <1>4, <1>5, <1>8, TurnInvalid
<1> QED BY <1>6, <1>7, <1>8

\* Each step keeps the two together.
LEMMA AgreeStep ==
    ASSUME InductiveInv, RetrievalInv, GateInv, AgreeInv, [Next]_vars PROVE AgreeInv'
<1> USE DEF AgreeInv, After, Now, BeforeAnswer, Over, At, Goto, End, inputs, retrieval,
            texts, judged, calls, ended
<1>0. /\ node \in Nodes => outcome = "running"
      /\ contexts = (IF found = <<>> THEN NoContext ELSE Last(found))
      /\ promptChars \in Nat /\ attempt \in Nat /\ Prompt(correction) \in Nat
  BY WorkflowAssumption DEF InductiveInv, AttemptsBounded, TypeOK, Prompt, RetrievalInv
<1>1. CASE AnalyzeRequirement
  BY <1>0, <1>1 DEF AnalyzeRequirement, Nodes, BeforeAttempts
<1>2. CASE RetrieveKnowledge
  BY <1>0, <1>2 DEF RetrieveKnowledge, Retrieve, Nodes, BeforeAttempts
<1>3. CASE RouteAfterRetrieval
  BY <1>0, <1>3 DEF RouteAfterRetrieval, Nodes, BeforeAttempts
<1>4. CASE RewriteQuery
  BY <1>0, <1>4 DEF RewriteQuery, Nodes, BeforeAttempts
<1>5. CASE RetrieveRewritten
  BY <1>0, <1>5 DEF RetrieveRewritten, Retrieve, Nodes, BeforeAttempts
<1>6. CASE PlanTestStrategy
  <2>1. After' = LocalStart
    BY <1>0, <1>6, LocalAfterNone DEF PlanTestStrategy, BeforeAttempts
  <2> QED BY <1>0, <1>6, <2>1 DEF PlanTestStrategy, BeforeAttempts
<1>7. CASE StartAttempt
  <2>1. After' = Ran("running", attempt' - 1, correction', promptChars', completionChars',
                     cases', review)
    <3>1. attempt' - 1 = attempt
      BY <1>0, <1>7 DEF StartAttempt
    <3> QED BY <1>7, <3>1 DEF StartAttempt
  <2>2. review \in {"none", "passed", "failed"}
    BY DEF InductiveInv, TypeOK
  <2> HIDE DEF Now, After
  <2> QED BY <1>7, <2>1, <2>2 DEF StartAttempt, BeforeAttempts
<1>8. CASE BuildPrompt
  <2>1. promptChars' - Prompt(correction') = promptChars
    BY <1>0, <1>8 DEF BuildPrompt
  <2>2. PICK rev \in {"none", "passed", "failed"} :
           After = Ran("running", attempt - 1, correction, promptChars, completionChars,
                       cases, rev)
    BY <1>8 DEF BuildPrompt
  <2>3. After' = Ran("running", attempt' - 1, correction', promptChars' - Prompt(correction'),
                     completionChars', cases', rev)
    BY <1>8, <2>1, <2>2 DEF BuildPrompt
  <2> HIDE DEF Now, After
  <2> QED BY <1>8, <2>3 DEF BuildPrompt, BeforeAttempts
<1>9. CASE CheckBudget
  <2>1. PICK rev \in {"none", "passed", "failed"} :
           After = Ran("running", attempt - 1, correction, promptChars - Prompt(correction),
                       completionChars, cases, rev)
    BY <1>9 DEF CheckBudget
  <2>2. CASE OverBudget(settings, promptChars, completionChars)
    <3> DEFINE p == promptChars - Prompt(correction)
               n == attempt - 1
    <3>1. p + Prompt(correction) = promptChars /\ n + 1 = attempt
      BY <1>0
    <3>2. review = "none"
      BY <1>9 DEF CheckBudget, GateInv, BeforeAnswer
    <3>3. LocalAfter(settings, request, contexts, heard)
            = Ran("running", n, correction, p, completionChars, cases, rev)
      BY <2>1
    <3> HIDE DEF p, n
    <3>4. LocalRun(settings, request, found, heard)
            = Ran("budget", n + 1, correction, p + Prompt(correction), completionChars,
                  cases, "none")
      BY <1>0, <2>2, <3>1, <3>3, LocalRunStops
    <3>5. LocalRun(settings, request, found, heard)' = Now("budget")'
      BY <1>9, <2>2, <3>1, <3>2, <3>4 DEF CheckBudget
    <3> HIDE DEF Now, After
    <3> QED BY <1>9, <2>2, <3>5 DEF CheckBudget, BeforeAttempts
  <2>3. CASE ~OverBudget(settings, promptChars, completionChars)
    BY <1>9, <2>1, <2>3 DEF CheckBudget, BeforeAttempts
  <2> QED BY <2>2, <2>3
<1>10. CASE MissingKey
  <2>1. NoAnswer("missing_key") \in Results /\ NoAnswer("missing_key").key = "missing_key"
    BY DEF Results, NoAnswer, Outcomes, Reported, Gates
  <2>2. /\ node = "call_llm" /\ heard' = Append(heard, NoAnswer("missing_key"))
        /\ node' = "record" /\ outcome' = "missing_key" /\ review = "none"
        /\ UNCHANGED <<inputs, retrieval, attempt, correction, texts, judged>>
    BY <1>10 DEF MissingKey, Heard, GateInv, BeforeAnswer
  <2>3. LocalAfter(settings, request, contexts, Append(heard, NoAnswer("missing_key")))
          = Ran("missing_key", attempt, correction, promptChars, completionChars, cases, "none")
    <3> HIDE DEF AgreeInv
    <3> QED BY <2>1, <2>2, CallTurn
  <2>4. LocalRun(settings, request, found, Append(heard, NoAnswer("missing_key")))
          = Ran("missing_key", attempt, correction, promptChars, completionChars, cases, "none")
    BY <1>0, <2>3, LocalRunEnds
  <2>5. LocalRun(settings, request, found, heard)' = Now("missing_key")'
    BY <2>2, <2>4
  <2> HIDE DEF Now, After
  <2> QED BY <2>2, <2>5 DEF BeforeAttempts
<1>11. CASE PostAnswered
  <2>1. PICK said \in Answers :
           answered' = Normalized(said) /\ heard' = Append(heard, said)
    BY <1>11 DEF PostAnswered
  <2>2. said \in Results /\ said.key \notin {"llm_error", "missing_key", "crash"}
    BY WorkflowAssumption DEF Results
  <2>3. /\ node = "call_llm" /\ node' = "validate_output"
        /\ completionChars' = completionChars + AnswerChars
        /\ UNCHANGED <<inputs, retrieval, attempt, correction, promptChars, judged>>
    BY <1>11 DEF PostAnswered
  <2>4. LocalAfter(settings, request, contexts, Append(heard, said)) =
          IF Valid(answered')
          THEN Judgement(settings, request, contexts, attempt, correction,
                         promptChars, completionChars + AnswerChars,
                         PostProcessed(answered', request.max_cases))
          ELSE Ran(IF attempt = MaxAttempts THEN "invalid" ELSE "running", attempt,
                   "schema", promptChars, completionChars + AnswerChars, cases, "none")
    <3> HIDE DEF AgreeInv
    <3> QED BY <2>1, <2>2, <2>3, CallTurn
  <2>5. After' = IF Valid(answered') THEN Judged(PostProcessed(answered, request.max_cases))'
                 ELSE Ran(IF attempt' = MaxAttempts THEN "invalid" ELSE "running", attempt',
                          "schema", promptChars', completionChars', cases', "none")
    BY <2>1, <2>3, <2>4 DEF Judged
  <2> HIDE DEF Now, After
  <2> QED BY <2>3, <2>5 DEF BeforeAttempts
<1>12. CASE PostRetries
  BY <1>0, <1>12 DEF PostRetries, Nodes, BeforeAttempts
<1>13. CASE PostFails
  <2>1. NoAnswer("llm_error") \in Results /\ NoAnswer("llm_error").key = "llm_error"
    BY DEF Results, NoAnswer, Outcomes, Reported, Gates
  <2>2. /\ node = "call_llm" /\ heard' = Append(heard, NoAnswer("llm_error"))
        /\ node' = "record" /\ outcome' = "llm_error" /\ review = "none"
        /\ UNCHANGED <<inputs, retrieval, attempt, correction, texts, judged>>
    BY <1>13 DEF PostFails, Heard, GateInv, BeforeAnswer
  <2>3. LocalAfter(settings, request, contexts, Append(heard, NoAnswer("llm_error")))
          = Ran("llm_error", attempt, correction, promptChars, completionChars, cases, "none")
    <3> HIDE DEF AgreeInv
    <3> QED BY <2>1, <2>2, CallTurn
  <2>4. LocalRun(settings, request, found, Append(heard, NoAnswer("llm_error")))
          = Ran("llm_error", attempt, correction, promptChars, completionChars, cases, "none")
    BY <1>0, <2>3, LocalRunEnds
  <2>5. LocalRun(settings, request, found, heard)' = Now("llm_error")'
    BY <2>2, <2>4
  <2> HIDE DEF Now, After
  <2> QED BY <2>2, <2>5 DEF BeforeAttempts
<1>14. CASE PostCrashes
  <2>1. NoAnswer("crash") \in Results /\ NoAnswer("crash").key = "crash"
    BY DEF Results, NoAnswer, Outcomes, Reported, Gates
  <2>2. /\ node = "call_llm" /\ heard' = Append(heard, NoAnswer("crash"))
        /\ node' = "record" /\ outcome' = "crash" /\ review = "none"
        /\ UNCHANGED <<inputs, retrieval, attempt, correction, texts, judged>>
    BY <1>14 DEF PostCrashes, Heard, GateInv, BeforeAnswer
  <2>3. LocalAfter(settings, request, contexts, Append(heard, NoAnswer("crash")))
          = Ran("crash", attempt, correction, promptChars, completionChars, cases, "none")
    <3> HIDE DEF AgreeInv
    <3> QED BY <2>1, <2>2, CallTurn
  <2>4. LocalRun(settings, request, found, Append(heard, NoAnswer("crash")))
          = Ran("crash", attempt, correction, promptChars, completionChars, cases, "none")
    BY <1>0, <2>3, LocalRunEnds
  <2>5. LocalRun(settings, request, found, heard)' = Now("crash")'
    BY <2>2, <2>4
  <2> HIDE DEF Now, After
  <2> QED BY <2>2, <2>5 DEF BeforeAttempts
<1>15. CASE ValidateOutput
  <2>1. /\ node = "validate_output" /\ review = "none" /\ UNCHANGED After
        /\ attempt \in Nat /\ MaxAttempts \in Nat /\ attempt <= MaxAttempts
    BY <1>15, WorkflowAssumption DEF ValidateOutput, GateInv, InductiveInv, AttemptsBounded,
                                     MaxAttempts, TypeOK
  <2>2. CASE Valid(answered)
    <3>1. /\ node' = "post_process_cases" /\ cases' = answered
          /\ UNCHANGED <<inputs, retrieval, attempt, correction, texts>>
      BY <1>15, <2>2 DEF ValidateOutput
    <3>2. After' = Judged(PostProcessed(cases, request.max_cases))'
      BY <2>1, <2>2, <3>1 DEF Judged
    <3> HIDE DEF Now, After
    <3> QED BY <3>1, <3>2 DEF BeforeAttempts
  <2>3. CASE ~Valid(answered)
    <3>1. /\ node' = (IF attempt < MaxAttempts THEN "start_attempt"
                      ELSE "output_validation_failed")
          /\ correction' = "schema" /\ UNCHANGED <<attempt, texts, judged>>
      BY <1>15, <2>3 DEF ValidateOutput
    <3>2. attempt < MaxAttempts <=> attempt # MaxAttempts
      BY <2>1
    <3>3. After' = Now(IF attempt = MaxAttempts THEN "invalid" ELSE "running")'
      BY <2>1, <2>3, <3>1
    <3> HIDE DEF Now, After
    <3>4. attempt < MaxAttempts => After' = Now("running")'
      BY <3>1, <3>2, <3>3 DEF Now
    <3>5. ~(attempt < MaxAttempts) => After' = Now("invalid")'
      BY <3>1, <3>2, <3>3 DEF Now
    <3> QED BY <3>1, <3>4, <3>5 DEF BeforeAttempts
  <2> QED BY <2>2, <2>3
<1>16. CASE PostProcess
  <2>1. /\ node = "post_process_cases" /\ review = "none"
        /\ cases' = PostProcessed(cases, request.max_cases)
        /\ UNCHANGED <<inputs, retrieval, attempt, correction, texts, review, heard>>
        /\ node' = IF settings.review THEN "review_cases" ELSE "estimate_usage"
    BY <1>16 DEF PostProcess, GateInv
  <2>2. After' = Judged(cases)'
    BY <2>1 DEF Judged
  <2>3. ~settings.review => Judged(cases)' = Now("answer")'
    BY <2>1 DEF Judged, Judgement
  <2> HIDE DEF Now, After
  <2> QED BY <2>1, <2>2, <2>3 DEF BeforeAttempts
<1>17. CASE ReviewCases
  <2>1. UNCHANGED After /\ Judged(cases)' = Judged(cases)
    BY <1>17 DEF ReviewCases, Judged
  <2> HIDE DEF Now, After
  <2> QED BY <1>17, <2>1 DEF ReviewCases, BeforeAttempts
<1>18. CASE RouteAfterReview
  <2>1. /\ node = "route_after_review" /\ settings.review /\ review = ReviewNow
        /\ UNCHANGED <<inputs, retrieval, attempt, texts, cases, review, heard>>
        /\ attempt \in Nat /\ MaxAttempts \in Nat /\ attempt <= MaxAttempts
    BY <1>18, WorkflowAssumption DEF RouteAfterReview, GateInv, InductiveInv, AttemptsBounded,
                                     MaxAttempts, TypeOK
  <2>2. After' = IF review = "failed" /\ settings.retry /\ attempt # MaxAttempts
                 THEN Ran("running", attempt, "review", promptChars, completionChars, cases,
                          review)
                 ELSE Ran(IF review = "failed" /\ settings.requirePass THEN "quality"
                          ELSE "answer", attempt, correction, promptChars, completionChars,
                          cases, review)
    BY <2>1 DEF Judged, Judgement, ReviewNow
  <2>3. review = "passed" \/ review = "failed"
    BY <2>1 DEF ReviewNow, Reviewed
  <2>4. attempt < MaxAttempts <=> attempt # MaxAttempts
    BY <2>1
  <2> DEFINE again == settings.retry /\ review = "failed" /\ attempt < MaxAttempts
  <2>5. /\ correction' = (IF again THEN "review" ELSE correction)
        /\ node' = (IF again THEN "start_attempt"
                    ELSE IF settings.requirePass THEN "check_quality_gate"
                    ELSE "estimate_usage")
    BY <1>18 DEF RouteAfterReview
  <2>6. again => After' = Now("running")'
    BY <2>1, <2>2, <2>4, <2>5
  <2>7. ~again =>
           After' = Now(IF review = "failed" /\ settings.requirePass THEN "quality"
                        ELSE "answer")'
    BY <2>1, <2>2, <2>4, <2>5
  <2> HIDE DEF Now, After, again
  <2>8. ~again /\ ~settings.requirePass => After' = Now("answer")'
    BY <2>1, <2>7 DEF Now
  <2>9. ~again /\ settings.requirePass =>
           After' = Now(IF review = "passed" THEN "answer" ELSE "quality")'
    BY <2>1, <2>3, <2>7 DEF Now
  <2> QED BY <2>5, <2>6, <2>8, <2>9 DEF BeforeAttempts
<1>19. CASE CheckQualityGate
  <2>1. UNCHANGED <<After, inputs, retrieval, heard>>
        /\ \A kind : Now(kind)' = Now(kind)
    BY <1>19 DEF CheckQualityGate
  <2>2. CASE review = "passed"
    <3>1. After = Now("answer")
      BY <1>19, <2>2 DEF CheckQualityGate
    <3> HIDE DEF Now, After
    <3> QED BY <1>19, <2>1, <2>2, <3>1 DEF CheckQualityGate, BeforeAttempts
  <2>3. CASE review # "passed"
    <3>1. After = Now("quality")
      BY <1>19, <2>3 DEF CheckQualityGate
    <3>2. LocalRun(settings, request, found, heard) = Now("quality")
      BY <1>0, <3>1, LocalRunEnds
    <3> HIDE DEF Now, After
    <3> QED BY <1>19, <2>1, <2>3, <3>2 DEF CheckQualityGate, BeforeAttempts
  <2> QED BY <2>2, <2>3
<1>20. CASE EstimateUsage
  <2>1. UNCHANGED <<inputs, retrieval, heard>> /\ \A kind : Now(kind)' = Now(kind)
    BY <1>20 DEF EstimateUsage
  <2>2. LocalRun(settings, request, found, heard) = Now("answer")
    BY <1>0, <1>20, LocalRunEnds DEF EstimateUsage
  <2> HIDE DEF Now, After
  <2> QED BY <1>20, <2>1, <2>2 DEF EstimateUsage, BeforeAttempts
<1>21. CASE OutputValidationFailed
  <2>1. UNCHANGED <<inputs, retrieval, heard>> /\ \A kind : Now(kind)' = Now(kind)
    BY <1>21 DEF OutputValidationFailed
  <2>2. LocalRun(settings, request, found, heard) = Now("invalid")
    BY <1>0, <1>21, LocalRunEnds DEF OutputValidationFailed
  <2> HIDE DEF Now, After
  <2> QED BY <1>21, <2>1, <2>2 DEF OutputValidationFailed, BeforeAttempts
<1>22. CASE OutOfSteps
  BY <1>0, <1>22 DEF OutOfSteps, Nodes, BeforeAttempts
<1>23. CASE Execute
  BY <1>0, <1>23 DEF Execute, Nodes, BeforeAttempts
<1>24. CASE UNCHANGED vars
  BY <1>24 DEF vars, Judged
<1> QED BY <1>1, <1>2, <1>3, <1>4, <1>5, <1>6, <1>7, <1>8, <1>9, <1>10, <1>11, <1>12,
           <1>13, <1>14, <1>15, <1>16, <1>17, <1>18, <1>19, <1>20, <1>21, <1>22, <1>23,
           <1>24 DEF Next, Workflow, CallLlm, Done

\* Before the first search.
LEMMA AgreeInit == Init => RetrievalInv /\ GateInv /\ AgreeInv
<1> SUFFICES ASSUME Init PROVE RetrievalInv /\ GateInv /\ AgreeInv
  OBVIOUS
<1>1. RetrievalInv
  BY DEF Init, RetrievalInv, BeforeAnswer, AfterAnswer, Over
<1>2. GateInv
  BY DEF Init, GateInv, BeforeAnswer, Postprocessed
<1>3. AgreeInv
  BY DEF Init, AgreeInv, Now, LocalStart, BeforeAttempts, Over
<1> QED BY <1>1, <1>2, <1>3

\* All of it together, in every state.
AllInv == InductiveInv /\ RetrievalInv /\ GateInv /\ AgreeInv

\* So it holds of every generation.
LEMMA AllInvariant == Spec => []AllInv
<1>1. Init => AllInv
  BY InitInv, AgreeInit DEF AllInv
<1>2. AllInv /\ InductiveInv' /\ [Next]_vars => AllInv'
  BY GateStep, RetrievalStep, AgreeStep DEF AllInv
<1> QED BY InductiveInvariant, <1>1, <1>2, PTL DEF Spec

\* An answer that leaves the service went through validation, post-processing
\* and, where it is configured, its review and the quality gate: for every
\* configuration, number of retries and sequence of answers.
THEOREM AnswersPassGates == Spec => []GatesHold
<1>1. AllInv => GatesHold
  <2> SUFFICES ASSUME AllInv, outcome = "answer"
               PROVE  /\ Valid(answered) /\ cases # <<>> /\ Len(cases) <= request.max_cases
                      /\ \A i, j \in DOMAIN cases : cases[i].title = cases[j].title => i = j
                      /\ ToSet(cases) \subseteq ToSet(answered)
                      /\ review = (IF settings.review THEN ReviewNow ELSE "none")
                      /\ settings.review /\ settings.requirePass => review = "passed"
    BY DEF GatesHold, ReviewNow
  <2>1. /\ Valid(answered) /\ cases = PostProcessed(answered, request.max_cases)
        /\ answered \in Seq(Cases)
        /\ review = (IF settings.review THEN ReviewNow ELSE "none")
        /\ settings.review /\ settings.requirePass => review = "passed"
    BY DEF AllInv, GateInv
  <2>2. answered # <<>> /\ request.max_cases \in Nat \ {0}
    BY <2>1, WorkflowAssumption DEF Valid, AllInv, InductiveInv, TypeOK
  <2>3. /\ cases # <<>> /\ Len(cases) <= request.max_cases
        /\ \A i, j \in DOMAIN cases : cases[i].title = cases[j].title => i = j
        /\ ToSet(cases) \subseteq ToSet(answered)
    BY <2>1, <2>2, PostProcessedIs
  <2> QED BY <2>1, <2>3
<1> QED BY AllInvariant, <1>1, PTL

\* The graph ends as the local runner's loop does on the same searches and the
\* same answers, however many attempts that takes, unless LangGraph stops it
\* first (LocalGenerationWorkflowRunner.generate, _build_graph).
THEOREM GraphAgreesWithLocal == Spec => []RunnersAgree
<1>1. AllInv => RunnersAgree
  BY DEF AllInv, RetrievalInv, AgreeInv, RunnersAgree, Now
<1> QED BY AllInvariant, <1>1, PTL

-----------------------------------------------------------------------------
(* The gates of the history *)

\* The first results of a factory: none, or one.
LEMMA CacheSize ==
    /\ Cardinality({}) <= 1
    /\ \A q : Cardinality({q}) <= 1
BY FS_EmptySet, FS_Singleton

\* Nothing has been read, written or answered at the start.
LEMMA GatesInitHolds == ASSUME OneStore, GatesInit PROVE GatesInv
<1> USE GatesAssumption DEF Backend, Warm
<1>1. GateTypes
  <2>1. cached \in SUBSET (Resolvers \cup {Nobody}) /\ Cardinality(cached) <= 1
    BY CacheSize DEF GatesInit
  <2>2. rec \in [Records -> Rows]
    <3>1. Row("absent", "null") \in Rows /\ OldGate \in Rows
      BY DEF Row, Rows, OldGate
    <3> QED BY <3>1 DEF GatesInit
  <2> QED BY <2>1, <2>2 DEF GateTypes, GatesInit, Places, GateAnswers
<1>2. LockInv /\ StoreInv /\ ReadInv
  BY DEF GatesInit, LockInv, InLock, StoreInv, ReadInv, OneStore
<1>3. RecordInv
  <2>1. \A r \in Records : rec[r] = Row("absent", "null") \/ rec[r] = OldGate
    BY DEF GatesInit
  <2>2. \A q \in Resolvers : target[q] = {}
    BY DEF GatesInit
  <2> QED BY <2>1, <2>2 DEF RecordInv, Row, OldGate, Open
<1>4. WinnerIsShown /\ ConflictsHaveWinner /\ UnansweredInv
  BY DEF GatesInit, WinnerIsShown, ConflictsHaveWinner, UnansweredInv
<1> QED BY <1>1, <1>2, <1>3, <1>4 DEF GatesInv
-----------------------------------------------------------------------------
\* What no step does to a record that someone has decided.
DecisionsKept == \A r \in Records : rec[r].status \in Decisions => rec'[r] = rec[r]

\* Inserting, migrating and answering leave every decision where it is, and
\* with it what the requests were told.
LEMMA RecordRunInv ==
  ASSUME OneStore, GatesInv, NEW r \in Records, RecordRun(r)
  PROVE  GatesInv' /\ DecisionsKept
<1> USE GatesAssumption DEF GatesInv, Backend, Warm
<1>0. deployment' = deployment
  BY DEF RecordRun
<1> USE <1>0
<1>1. PICK row \in {Row("plain", "null"), Row("gate", "pending")} :
        rec' = [rec EXCEPT ![r] = row]
  BY DEF RecordRun
<1>2. row \in Rows /\ row.status \in {"null", "pending"} /\ (row.kind = "plain" => row.status = "null")
        /\ (row.kind = "gate" => row.status = "pending") /\ row.kind \in {"plain", "gate"}
  BY DEF Row, Rows
<1>3. rec[r].kind = "absent" /\ rec \in [Records -> Rows] /\ rec[r].status = "null"
  BY DEF RecordRun, GateTypes, RecordInv
<1>4. \A s \in Records : s # r => rec'[s] = rec[s]
  BY <1>1, <1>3
<1>5. rec'[r] = row
  BY <1>1, <1>3
<1>6. DecisionsKept
  BY <1>3, <1>4 DEF DecisionsKept, Decisions
<1>7. \A q \in Resolvers : target[q] \subseteq Records
  BY DEF GateTypes
<1>8. GateTypes'
  BY <1>1, <1>2 DEF GateTypes, RecordRun, requestVars
<1>9. LockInv' /\ StoreInv' /\ UnansweredInv'
  BY DEF LockInv, StoreInv, InLock, UnansweredInv, RecordRun, requestVars
<1>10. ReadInv'
  BY <1>3, <1>4, <1>7 DEF ReadInv, Open, RecordRun, requestVars
<1>11. RecordInv'
  BY <1>2, <1>4, <1>5 DEF RecordInv, Open, RecordRun, requestVars
<1>12. WinnerIsShown' /\ ConflictsHaveWinner'
  BY <1>3, <1>4, <1>7 DEF WinnerIsShown, ConflictsHaveWinner, RecordRun, requestVars, Decisions, GateTypes
<1> QED BY <1>6, <1>8, <1>9, <1>10, <1>11, <1>12

\* A request that arrives has not been answered.
LEMMA ArriveInv ==
  ASSUME OneStore, GatesInv, NEW q \in Resolvers, Arrive(q)
  PROVE  GatesInv' /\ DecisionsKept
<1> USE GatesAssumption DEF GatesInv, Backend, Warm
<1>0. deployment' = deployment
  BY DEF Arrive
<1> USE <1>0
<1>1. pc[q] = "out" /\ pc'[q] \in {"building", "ready"} /\ rec' = rec /\ answer' = answer
        /\ \A p \in Resolvers : p # q => pc'[p] = pc[p] /\ store'[p] = store[p] /\ target'[p] = target[p]
  BY DEF Arrive, Moves, GateTypes
<1>2. GateTypes'
  <2>1. pc' \in [Resolvers -> Places]
    BY DEF Arrive, Moves, GateTypes, Places
  <2>2. target' \in [Resolvers -> SUBSET Records]
    BY DEF Arrive, GateTypes
  <2>3. store' \in [Resolvers -> Resolvers \cup {Nobody}]
    BY DEF Arrive, GateTypes
  <2> QED BY <2>1, <2>2, <2>3 DEF Arrive, GateTypes
<1>3. LockInv' /\ ReadInv'
  BY <1>1 DEF LockInv, ReadInv, InLock, Arrive
<1>4. StoreInv'
  BY <1>1 DEF StoreInv, Arrive, Moves, GateTypes
<1>5. answer[q] = "none"
  BY <1>1 DEF UnansweredInv
<1>6. RecordInv'
  <2>1. \A r, s \in target'[q] : r = s
    BY DEF Arrive, GateTypes, RecordInv
  <2> QED BY <1>1, <2>1 DEF RecordInv, Open
<1>7. WinnerIsShown' /\ ConflictsHaveWinner'
  BY <1>1, <1>5 DEF WinnerIsShown, ConflictsHaveWinner, Arrive
<1>8. UnansweredInv'
  BY <1>1, <1>5 DEF UnansweredInv
<1> QED BY <1>1, <1>2, <1>3, <1>4, <1>6, <1>7, <1>8 DEF DecisionsKept

\* A request that builds a store: on MySQL alone, where there is no lock.
LEMMA BuildInv ==
  ASSUME OneStore, GatesInv, NEW q \in Resolvers, Build(q)
  PROVE  GatesInv' /\ DecisionsKept
<1> USE GatesAssumption DEF GatesInv, Backend, Warm
<1>0. deployment' = deployment
  BY DEF Build
<1> USE <1>0
<1>1. pc[q] = "building" /\ pc' = [pc EXCEPT ![q] = "ready"] /\ Backend = "mysql"
  <2>1. Backend = "sqlite" \/ Backend = "mysql"
    BY DEF GateTypes
  <2> QED BY <2>1 DEF Build, Moves, StoreInv
<1>2. rec' = rec
  BY <1>1 DEF Build, Migrates, GateTypes
<1>3. GateTypes'
  <2>1. cached' \in SUBSET (Resolvers \cup {Nobody}) /\ Cardinality(cached') <= 1
    BY CacheSize DEF Build, GateTypes
  <2>2. pc' \in [Resolvers -> Places] /\ store' \in [Resolvers -> Resolvers \cup {Nobody}]
    BY <1>1 DEF Build, GateTypes, Places
  <2> QED BY <1>2, <2>1, <2>2 DEF GateTypes, Build
<1>4. \A p \in Resolvers : p # q => pc'[p] = pc[p]
  BY <1>1 DEF GateTypes
<1>5. pc'[q] = "ready"
  BY <1>1 DEF GateTypes
<1>6. LockInv' /\ StoreInv' /\ ReadInv'
  BY <1>1, <1>2, <1>4, <1>5 DEF LockInv, StoreInv, ReadInv, InLock, Build
<1>7. RecordInv' /\ UnansweredInv' /\ WinnerIsShown' /\ ConflictsHaveWinner'
  <2>1. UNCHANGED <<target, choice, answer, shown>>
    BY DEF Build
  <2>2. RecordInv'
    BY <1>2, <2>1 DEF RecordInv, Open
  <2>3. UnansweredInv'
    BY <1>1, <1>4, <2>1 DEF UnansweredInv
  <2>4. WinnerIsShown' /\ ConflictsHaveWinner'
    BY <1>2, <1>4, <1>5, <2>1 DEF WinnerIsShown, ConflictsHaveWinner
  <2> QED BY <2>2, <2>3, <2>4
<1> QED BY <1>2, <1>3, <1>6, <1>7 DEF DecisionsKept

\* The lock is given to one request at a time.
LEMMA AcquireInv ==
  ASSUME OneStore, GatesInv, NEW q \in Resolvers, Acquire(q)
  PROVE  GatesInv' /\ DecisionsKept
<1> USE GatesAssumption DEF GatesInv, Backend, Warm
<1>0. deployment' = deployment
  BY DEF Acquire
<1> USE <1>0
<1>1. pc[q] = "ready" /\ pc' = [pc EXCEPT ![q] = "locked"] /\ Backend = "sqlite"
        /\ rec' = rec /\ lock[store[q]] = Nobody
  BY DEF Acquire, Moves
<1>2. GateTypes'
  BY <1>1 DEF Acquire, GateTypes, Places
<1>3. pc'[q] = "locked" /\ lock'[Nobody] = q /\ lock[Nobody] = Nobody
  BY <1>1 DEF Acquire, GateTypes, StoreInv
<1>4. \A p \in Resolvers : p # q => pc'[p] = pc[p]
  BY <1>1 DEF GateTypes
<1>5. \A p \in Resolvers : ~InLock(p)
  BY <1>1, <1>3 DEF LockInv, StoreInv
<1>6. LockInv' /\ StoreInv' /\ ReadInv'
  BY <1>1, <1>3, <1>4, <1>5 DEF LockInv, StoreInv, ReadInv, InLock, Acquire
<1>7. RecordInv' /\ UnansweredInv' /\ WinnerIsShown' /\ ConflictsHaveWinner'
  BY <1>1, <1>3, <1>4
     DEF RecordInv, Open, UnansweredInv, WinnerIsShown, ConflictsHaveWinner, Acquire
<1> QED BY <1>1, <1>2, <1>6, <1>7 DEF DecisionsKept

\* A refusal says why: what it answers is so.
LEMMA RefusedInv ==
  ASSUME OneStore, GatesInv, NEW q \in Resolvers,
         NEW from \in {"locked", "ready"}, Refused(q, from),
         rec' = rec, UNCHANGED <<deployment, cached, store, target, choice, shown>>,
         \/ from = "ready" /\ lock' = lock
         \/ from = "locked" /\ Unlock(q)
  PROVE  GatesInv' /\ DecisionsKept
<1> USE GatesAssumption DEF GatesInv, Backend, Warm
<1>0. deployment' = deployment
  OBVIOUS
<1> USE <1>0
<1>1. /\ pc[q] = from /\ pc' = [pc EXCEPT ![q] = "done"]
      /\ \/ answer' = [answer EXCEPT ![q] = "not_found"]
         \/ /\ answer' = [answer EXCEPT ![q] = "conflict"]
            /\ \E r \in target[q] : rec[r].kind = "gate" /\ ~Open(rec[r])
  BY DEF Refused, Answered, Moves
<1>2. GateTypes'
  <2>1. lock' \in [Resolvers \cup {Nobody} -> Resolvers \cup {Nobody}]
    BY DEF Unlock, GateTypes
  <2> QED BY <1>1, <2>1 DEF GateTypes, Places, GateAnswers
<1>3. /\ pc'[q] = "done"
      /\ answer'[q] # "ok"
      /\ answer'[q] = "conflict" => \E r \in target[q] : rec[r].kind = "gate" /\ ~Open(rec[r])
  BY <1>1 DEF GateTypes
<1>4. \A p \in Resolvers : p # q => pc'[p] = pc[p] /\ answer'[p] = answer[p]
  BY <1>1 DEF GateTypes
<1>5. LockInv'
  <2>1. CASE from = "ready"
    BY <2>1, <1>3, <1>4 DEF LockInv, InLock
  <2>2. CASE from = "locked"
    <3>1. \A p \in Resolvers : p # q => ~InLock(p)
      BY <1>1, <2>2 DEF LockInv, InLock, StoreInv
    <3> QED BY <3>1, <1>3, <1>4 DEF LockInv, InLock
  <2> QED BY <2>1, <2>2
<1>6. StoreInv' /\ ReadInv' /\ RecordInv' /\ UnansweredInv'
  BY <1>3, <1>4 DEF StoreInv, ReadInv, RecordInv, Open, UnansweredInv
<1>7. WinnerIsShown'
  BY <1>3, <1>4 DEF WinnerIsShown
<1>8. ConflictsHaveWinner'
  <2>1. \A r \in Records : rec[r].kind = "gate" /\ ~Open(rec[r]) =>
            rec[r].status \in Decisions /\ rec[r].by # Nobody
    BY DEF RecordInv, Open, GateTypes, Rows
  <2>2. target[q] \subseteq Records
    BY DEF GateTypes
  <2> QED BY <2>1, <2>2, <1>3, <1>4 DEF ConflictsHaveWinner
<1> QED BY <1>2, <1>5, <1>6, <1>7, <1>8 DEF DecisionsKept

\* The record is open when its holder reads it.
LEMMA SelectInv ==
  ASSUME OneStore, GatesInv, NEW q \in Resolvers, Select(q)
  PROVE  GatesInv' /\ DecisionsKept
<1>1. CASE Refused(q, "locked") /\ Unlock(q)
  BY <1>1, RefusedInv DEF Select
<1>2. CASE /\ \E r \in target[q] : Open(rec[r])
           /\ Moves(q, "locked", "selected")
           /\ UNCHANGED <<answer, lock>>
  <2> USE GatesAssumption DEF GatesInv, Backend, Warm
  <2>0. deployment' = deployment
    BY DEF Select
  <2> USE <2>0
  <2>1. pc[q] = "locked" /\ pc' = [pc EXCEPT ![q] = "selected"] /\ rec' = rec
          /\ UNCHANGED <<cached, lock, store, target, choice, answer, shown>>
    BY <1>2 DEF Moves, Select
  <2>2. pc'[q] = "selected" /\ \A p \in Resolvers : p # q => pc'[p] = pc[p]
    BY <2>1 DEF GateTypes
  <2>3. GateTypes'
    BY <2>1 DEF GateTypes, Places
  <2>4. LockInv' /\ StoreInv' /\ ReadInv'
    BY <1>2, <2>1, <2>2 DEF LockInv, StoreInv, ReadInv, InLock
  <2>5. RecordInv' /\ UnansweredInv' /\ WinnerIsShown' /\ ConflictsHaveWinner'
    BY <2>1, <2>2 DEF RecordInv, Open, UnansweredInv, WinnerIsShown, ConflictsHaveWinner
  <2> QED BY <2>1, <2>3, <2>4, <2>5 DEF DecisionsKept
<1> QED BY <1>1, <1>2 DEF Select

\* A decision of an open record takes nothing from anyone.
LEMMA DecideInv ==
  ASSUME OneStore, GatesInv, NEW q \in Resolvers,
         NEW from \in {"selected", "ready"}, Moves(q, from, "resolved"), Decide(q),
         \E r \in target[q] : Open(rec[r]),
         UNCHANGED <<deployment, cached, store, target, choice, answer, shown>>,
         \/ from = "ready" /\ Backend = "mysql" /\ lock' = lock
         \/ from = "selected" /\ Unlock(q)
  PROVE  GatesInv' /\ DecisionsKept
<1> USE GatesAssumption DEF GatesInv, Backend, Warm
<1>0. deployment' = deployment
  OBVIOUS
<1> USE <1>0
<1>1. pc[q] = from /\ pc' = [pc EXCEPT ![q] = "resolved"]
  BY DEF Moves
<1>2. PICK r \in target[q] : Open(rec[r])
  OBVIOUS
<1>3. r \in Records /\ target[q] = {r} /\ choice[q] \in Decisions /\ rec[r] \in Rows
  BY <1>2 DEF GateTypes, RecordInv
<1>4. rec' = [rec EXCEPT ![r].status = choice[q], ![r].by = q]
  BY <1>3 DEF Decide, GateTypes
<1>5. /\ \A s \in Records : s # r => rec'[s] = rec[s]
      /\ rec'[r].status = choice[q] /\ rec'[r].by = q /\ rec'[r].kind = "gate"
  BY <1>2, <1>3, <1>4 DEF GateTypes, Rows, Open
<1>6. DecisionsKept
  BY <1>2, <1>5 DEF DecisionsKept, Open, Decisions
<1>7. GateTypes'
  <2>1. lock' \in [Resolvers \cup {Nobody} -> Resolvers \cup {Nobody}]
    BY DEF Unlock, GateTypes
  <2>2. rec' \in [Records -> Rows]
    BY <1>3, <1>4 DEF GateTypes, Rows
  <2> QED BY <1>1, <2>1, <2>2 DEF GateTypes, Places
<1>8. pc'[q] = "resolved" /\ \A p \in Resolvers : p # q => pc'[p] = pc[p]
  BY <1>1 DEF GateTypes
<1>9. \A p \in Resolvers : p # q => ~InLock(p)
  BY <1>1 DEF LockInv, InLock, StoreInv
<1>10. LockInv' /\ StoreInv' /\ ReadInv'
  BY <1>8, <1>9 DEF LockInv, StoreInv, ReadInv, InLock
<1>11. RecordInv'
  BY <1>3, <1>5 DEF RecordInv, Open, Decisions
<1>12. UnansweredInv'
  BY <1>1, <1>8 DEF UnansweredInv
<1>13. answer[q] = "none"
  BY <1>1 DEF UnansweredInv
<1>14. \A p \in Resolvers : target[p] \subseteq Records
  BY DEF GateTypes
<1>15. WinnerIsShown'
  <2>1. \A p \in Resolvers : p # q /\ (pc[p] = "resolved" \/ answer[p] = "ok") =>
            \E s \in target[p] : s # r /\ rec[s].by = p /\ rec[s].status = choice[p]
    BY <1>2 DEF WinnerIsShown, Open, Decisions, GateTypes
  <2> QED BY <2>1, <1>3, <1>5, <1>8, <1>13, <1>14 DEF WinnerIsShown
<1>16. ConflictsHaveWinner'
  BY <1>3, <1>5, <1>13, <1>14 DEF ConflictsHaveWinner
<1> QED BY <1>6, <1>7, <1>10, <1>11, <1>12, <1>15, <1>16

\* The answer shows the record as the winner left it.
LEMMA ReplyInv ==
  ASSUME OneStore, GatesInv, NEW q \in Resolvers, Reply(q)
  PROVE  GatesInv' /\ DecisionsKept
<1> USE GatesAssumption DEF GatesInv, Backend, Warm
<1>0. deployment' = deployment
  BY DEF Reply
<1> USE <1>0
<1>1. /\ pc[q] = "resolved" /\ pc' = [pc EXCEPT ![q] = "done"]
      /\ answer' = [answer EXCEPT ![q] = "ok"]
      /\ UNCHANGED <<rec, cached, lock, store, target, choice>>
  BY DEF Reply, Answered, Moves
<1>2. PICK r \in target[q] : shown' = [shown EXCEPT ![q] = rec[r].by]
  BY DEF Reply
<1>3. r \in Records /\ rec[r].by = q /\ rec[r].status = choice[q]
  BY <1>1, <1>2 DEF WinnerIsShown, RecordInv, GateTypes
<1>4. pc'[q] = "done" /\ answer'[q] = "ok" /\ shown'[q] = q
  BY <1>1, <1>2, <1>3 DEF GateTypes
<1>5. \A p \in Resolvers : p # q =>
        pc'[p] = pc[p] /\ answer'[p] = answer[p] /\ shown'[p] = shown[p]
  BY <1>1, <1>2 DEF GateTypes
<1>6. GateTypes'
  BY <1>1, <1>2, <1>3 DEF GateTypes, Places, GateAnswers
<1>7. LockInv' /\ StoreInv' /\ ReadInv' /\ RecordInv' /\ UnansweredInv'
  BY <1>1, <1>4, <1>5 DEF LockInv, StoreInv, ReadInv, InLock, RecordInv, Open, UnansweredInv
<1>8. WinnerIsShown' /\ ConflictsHaveWinner'
  BY <1>1, <1>2, <1>3, <1>4, <1>5 DEF WinnerIsShown, ConflictsHaveWinner
<1> QED BY <1>1, <1>6, <1>7, <1>8 DEF DecisionsKept

\* An error ends the request and gives back the lock it holds.
LEMMA RaiseInv ==
  ASSUME OneStore, GatesInv, NEW q \in Resolvers, Raise(q)
  PROVE  GatesInv' /\ DecisionsKept
<1> USE GatesAssumption DEF GatesInv, Backend, Warm
<1>0. deployment' = deployment
  BY DEF Raise
<1> USE <1>0
<1>1. /\ pc[q] \in Places \ {"out", "done"} /\ pc' = [pc EXCEPT ![q] = "done"]
      /\ answer' = [answer EXCEPT ![q] = "error"]
      /\ lock' = [s \in DOMAIN lock |-> IF lock[s] = q THEN Nobody ELSE lock[s]]
      /\ UNCHANGED <<rec, cached, store, target, choice, shown>>
  BY DEF Raise, Answered, Moves
<1>2. GateTypes'
  BY <1>1 DEF GateTypes, Places, GateAnswers
<1>3. pc'[q] = "done" /\ answer'[q] = "error"
  BY <1>1 DEF GateTypes
<1>4. \A p \in Resolvers : p # q => pc'[p] = pc[p] /\ answer'[p] = answer[p]
  BY <1>1 DEF GateTypes
<1>5. LockInv'
  <2>1. \A p \in Resolvers : p # q /\ InLock(p) => lock'[store[p]] = p
    BY <1>1 DEF LockInv, GateTypes
  <2> QED BY <1>1, <1>3, <1>4, <2>1 DEF LockInv, InLock
<1>6. StoreInv' /\ ReadInv' /\ RecordInv' /\ UnansweredInv'
  BY <1>1, <1>3, <1>4 DEF StoreInv, ReadInv, RecordInv, Open, UnansweredInv
<1>7. WinnerIsShown' /\ ConflictsHaveWinner'
  BY <1>1, <1>3, <1>4 DEF WinnerIsShown, ConflictsHaveWinner
<1> QED BY <1>1, <1>2, <1>5, <1>6, <1>7 DEF DecisionsKept
-----------------------------------------------------------------------------
\* Every step keeps the invariant and every decision.
LEMMA StepInv == ASSUME OneStore, GatesInv, [GatesNext]_gateVars PROVE GatesInv' /\ DecisionsKept
<1>1. CASE UNCHANGED gateVars
  BY <1>1 DEF gateVars, GatesInv, Backend, GateTypes, LockInv, InLock, StoreInv, ReadInv, Open,
     RecordInv, UnansweredInv, WinnerIsShown, ConflictsHaveWinner, DecisionsKept
<1>2. ASSUME NEW r \in Records, RecordRun(r) PROVE GatesInv' /\ DecisionsKept
  BY <1>2, RecordRunInv
<1>3. ASSUME NEW q \in Resolvers, Arrive(q) PROVE GatesInv' /\ DecisionsKept
  BY <1>3, ArriveInv
<1>4. ASSUME NEW q \in Resolvers, Resolve(q) PROVE GatesInv' /\ DecisionsKept
  <2>1. CASE Build(q) \/ Acquire(q) \/ Select(q) \/ Reply(q)
    BY <2>1, BuildInv, AcquireInv, SelectInv, ReplyInv
  <2>2. CASE Update(q)
    <3>1. \E r \in target[q] : Open(rec[r])
      BY <2>2 DEF Update, Moves, GatesInv, ReadInv
    <3> QED BY <2>2, <3>1, DecideInv DEF Update
  <2>3. CASE UpdateIfOpen(q)
    BY <2>3, DecideInv, RefusedInv DEF UpdateIfOpen
  <2> QED BY <1>4, <2>1, <2>2, <2>3 DEF Resolve
<1>5. ASSUME NEW q \in Resolvers, Raise(q) PROVE GatesInv' /\ DecisionsKept
  BY <1>5, RaiseInv
<1> QED BY <1>1, <1>2, <1>3, <1>4, <1>5 DEF GatesNext

\* One store object, or MySQL: the parts named in GateHistory hold together.
THEOREM GatesInvariant == ASSUME OneStore PROVE GatesSpec => []GatesInv
<1>1. GatesInv /\ [GatesNext]_gateVars => GatesInv'
  BY StepInv
<1> QED BY GatesInitHolds, <1>1, PTL DEF GatesSpec

\* Who is told "resolved" finds his own decision in the record.
THEOREM WinnersAreShown == ASSUME OneStore PROVE GatesSpec => []WinnerIsShown
<1>1. GatesInv => WinnerIsShown
  BY DEF GatesInv
<1> QED BY GatesInvariant, <1>1, PTL

\* Who is told "already resolved" was told the truth.
THEOREM ConflictsAreReal == ASSUME OneStore PROVE GatesSpec => []ConflictsHaveWinner
<1>1. GatesInv => ConflictsHaveWinner
  BY DEF GatesInv
<1> QED BY GatesInvariant, <1>1, PTL

\* A decided gate is never decided again.
THEOREM DecisionsStand == ASSUME OneStore PROVE GatesSpec => DecisionsAreFinal
<1>1. GatesInv /\ [GatesNext]_gateVars =>
        [\A r \in Records : rec[r].status \in Decisions => rec'[r] = rec[r]]_gateVars
  BY StepInv DEF DecisionsKept
<1> QED BY GatesInvariant, <1>1, PTL DEF GatesSpec, DecisionsAreFinal
=============================================================================
