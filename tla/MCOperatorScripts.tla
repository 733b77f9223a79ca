-------------------------- MODULE MCOperatorScripts ---------------------------
\* A small instance of OperatorScripts for TLC: drills with 2 workers; 3 cases, of
\* which two have the same prompt, for the rules one of each kind; command lines of
\* an evaluation that the script refuses, and releases.
EXTENDS OperatorScripts

MCWorkerNames == <<"w1", "w2">>

Case(id, prompt, byRules) == [id |-> id, prompt |-> prompt, byRules |-> byRules]
MCCaseFile == <<Case("a", "p", "passes"), Case("b", "q", "fails"), Case("c", "q", "raises")>>

Plain == [ids |-> <<>>, from |-> 0, to |-> 3, llm |-> FALSE, fallback |-> FALSE, key |-> TRUE,
          cache |-> "none", concurrency |-> 1, delayed |-> FALSE, floor |-> 0,
          others |-> FALSE, history |-> FALSE]
Asking == [Plain EXCEPT !.llm = TRUE, !.floor = Scale]

MCCommandLines ==
    {[Asking EXCEPT !.ids = <<"a", "b", "a">>, !.cache = "use", !.fallback = TRUE,
                    !.concurrency = 2],
     [Asking EXCEPT !.ids = <<"a", "b">>, !.cache = "refresh", !.concurrency = 2],
     [Plain EXCEPT !.to = 2, !.concurrency = 2, !.floor = Scale],
     [Asking EXCEPT !.to = 2, !.fallback = TRUE, !.floor = 0, !.cache = "use",
                    !.others = TRUE, !.history = TRUE],
     [Asking EXCEPT !.to = 2, !.fallback = TRUE, !.floor = 0, !.cache = "use",
                    !.key = FALSE, !.history = TRUE],
     Plain,
     [Plain EXCEPT !.ids = <<"x">>], [Plain EXCEPT !.from = 2, !.to = 1],
     [Plain EXCEPT !.delayed = TRUE, !.concurrency = 2],
     [Plain EXCEPT !.cache = "use"], [Asking EXCEPT !.concurrency = 0]}
    \cup {[EvaluationOf[name] EXCEPT !.key = hasKey] :
              name \in DOMAIN EvaluationOf, hasKey \in BOOLEAN}

MCReleaseLines ==
    {{"skip_test_agent_workflow_eval", "include_llm_smoke"},
     {"fail_fast", "include_llm_smoke", "include_frontend_check"}
        \cup (Skips \ {"skip_pytest", "skip_diff_check"}),
     {"dry_run", "include_llm_smoke", "skip_rag_eval"},
     Skips \cup {"include_runtime_outage_smoke", "include_rq_mysql_worker_stability_smoke",
                   "include_test_agent_workflow_rq_mysql_smoke", "include_queue_alert_check"},
     Skips \cup {"include_llm_workflow_eval"},
     Skips \cup {"include_llm_workflow_benchmark"},
     Skips \ {"skip_test_agent_workflow_eval"}}
=============================================================================
