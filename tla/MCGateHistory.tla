--------------------------- MODULE MCGateHistory ---------------------------
\* Small instances of GateHistory for TLC.
EXTENDS GateHistory

Deployed(backend, warm) == [backend |-> backend, warm |-> warm]

\* SQLite with its store built before, and MySQL at its first requests.
MCOneStore == {Deployed("sqlite", TRUE), Deployed("mysql", FALSE)}

\* SQLite at the first requests of a process.
MCCold == {Deployed("sqlite", FALSE)}
=============================================================================
