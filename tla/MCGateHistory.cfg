\* Both databases: one record, 3 requests for it or for an id that is not there.
SPECIFICATION FairGatesSpec
CONSTANTS
    Records = {r1}
    Resolvers = {q1, q2, q3}
    Nobody = Nobody
    Deployments <- MCOneStore
\* Requests come once each, so the system really comes to rest.
CHECK_DEADLOCK FALSE
INVARIANTS
    WinnerIsShown
    ConflictsHaveWinner
PROPERTIES
    DecisionsAreFinal
    RequestsAreAnswered
