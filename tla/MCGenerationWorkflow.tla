------------------------ MODULE MCGenerationWorkflow ------------------------
\* A small instance of GenerationWorkflow for TLC: answers that are unusable,
\* repeat a title, miss a type or a keyword, or are complete; the configurations
\* that differ in their gates; a recursion limit the longest generation exceeds.
EXTENDS GenerationWorkflow

Case(title, type, depth, keywords) ==
    [title |-> title, type |-> type, steps |-> depth, keywords |-> keywords]

f1 == Case("login", "functional", 2, {})
f2 == Case("login", "boundary", 1, {"lock"})
b1 == Case("limit", "boundary", 3, {"lock"})
empty == Case("", "functional", 1, {})

MCAnswers ==
    {[key |-> "cases", cases |-> <<f1, b1>>],
     [key |-> "alias", cases |-> <<f1, f2, b1>>],
     [key |-> "cases", cases |-> <<f1, f2>>],
     [key |-> "cases", cases |-> <<f1, empty>>],
     [key |-> "other", cases |-> <<f1>>]}

MCContexts == {NoContext, [chunks |-> 1, sourced |-> TRUE],
               [chunks |-> 1, sourced |-> FALSE]}

Base == [rewrite |-> TRUE, minChunks |-> 1, review |-> TRUE, retry |-> TRUE,
         requirePass |-> TRUE, minScore |-> 70, maxPromptTokens |-> 0, maxCost |-> 0,
         promptPrice |-> 0, completionPrice |-> 0, hasKey |-> TRUE]

MCSettings ==
    {Base,
     [Base EXCEPT !.retry = FALSE],
     [Base EXCEPT !.requirePass = FALSE, !.minScore = 85],
     [Base EXCEPT !.review = FALSE, !.rewrite = FALSE],
     [Base EXCEPT !.maxPromptTokens = 12],
     [Base EXCEPT !.maxCost = 20, !.promptPrice = 1, !.completionPrice = 2],
     [Base EXCEPT !.hasKey = FALSE]}

Request(k, max, targets, keywords) ==
    [top_k |-> k, max_cases |-> max, targets |-> targets, keywords |-> keywords]

MCRequests ==
    {Request(1, 3, {"functional", "boundary"}, {"lock"}),
     Request(0, 2, {"functional"}, {}),
     Request(1, 1, {"functional", "boundary"}, {})}
=============================================================================
