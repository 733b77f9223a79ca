\* SQLite, the first requests of a process: two stores, two locks.
SPECIFICATION GatesSpec
CONSTANTS
    Records = {r1}
    Resolvers = {q1, q2}
    Nobody = Nobody
    Deployments <- MCCold
\* Requests come once each, so the system really comes to rest.
CHECK_DEADLOCK FALSE
PROPERTY
    DecisionsAreFinal
