--------------------------- MODULE MCTestAgentRun ---------------------------
\* A small instance of TestAgentRun for TLC: requests with and without
\* requirements, with more of them than steps and with one of them twice;
\* payloads that name their requirements, swap them, leave one out or are
\* unusable; texts whose endpoint is refused (E) or with a status and fields (F);
\* client plans with distinct and with repeated step ids.
EXTENDS ReportEvaluation

Requirement(id, tool, endpoint, long) ==
    [id |-> id, tool |-> tool, endpoint |-> endpoint, long |-> long,
     expected |-> {}, asserts |-> FALSE, refused |-> FALSE]
Asked(ids, tool, faults, asserts) ==
    [requirements |-> ids, tool |-> tool, faults |-> faults, asserts |-> asserts,
     expected |-> {200}]
Sent(id, ids, tool, args, expected) ==
    [id |-> id, requirements |-> ids, tool |-> tool, args |-> args,
     expected |-> expected, asserts |-> FALSE, named |-> TRUE]
Request(reqs, max, llm, fallback) ==
    [requirements |-> reqs, described |-> Requirement("D", "http", FALSE, FALSE),
     maxSteps |-> max, useLlm |-> llm, fallback |-> fallback]

rA == Requirement("A", "http", FALSE, FALSE)
rB == Requirement("B", "manual", FALSE, FALSE)
rC == Requirement("C", "pytest", FALSE, FALSE)
rL == Requirement("L", "http", TRUE, TRUE)
rE == [Requirement("E", "http", TRUE, FALSE) EXCEPT !.refused = TRUE]
rF == [Requirement("F", "http", TRUE, FALSE) EXCEPT !.expected = {403}, !.asserts = TRUE]

MCPlanRequests ==
    {Request(<<>>, 2, FALSE, TRUE), Request(<<rA, rB, rC>>, 2, FALSE, TRUE),
     Request(<<>>, 2, TRUE, FALSE), Request(<<rA, rB>>, 2, TRUE, FALSE),
     Request(<<rA, rB, rC>>, 3, TRUE, TRUE), Request(<<rL>>, 1, TRUE, TRUE),
     Request(<<rA, rA>>, 2, TRUE, FALSE), Request(<<rE>>, 1, TRUE, TRUE),
     Request(<<rF>>, 1, TRUE, TRUE)}

MCPayloads ==
    {[object |-> TRUE, steps |-> <<Asked({"B"}, "sql", {}, FALSE),
                                   Asked({"A"}, "manual", {"no_target"}, TRUE)>>],
     [object |-> TRUE, steps |-> <<Asked({"C"}, "playwright", {}, FALSE),
                                   Asked({"B"}, "http", {}, TRUE),
                                   Asked({}, "http", {"target", "status"}, TRUE)>>],
     [object |-> TRUE, steps |-> <<Asked({"A"}, "pytest", {"no_target", "status"}, TRUE)>>],
     [object |-> FALSE, steps |-> <<>>]}

MCClientPlans ==
    {<<>>,
     <<Sent("s", {"A"}, "http", "ok", {403}), Sent("t", {"A", "B"}, "pytest", "ok", {200})>>,
     <<Sent("s", {"A"}, "http", "ok", {200}), Sent("s", {"B"}, "pytest", "ok", {200})>>,
     <<Sent("s", {"A"}, "http", "wrong", {200}), Sent("t", {"B"}, "manual", "ok", {200})>>}

MCConfigs == {[allowed |-> TRUE, pytest |-> TRUE], [allowed |-> TRUE, pytest |-> FALSE],
              [allowed |-> FALSE, pytest |-> TRUE]}
=============================================================================
