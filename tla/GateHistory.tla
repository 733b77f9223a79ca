---------------------------- MODULE GateHistory ----------------------------
(***************************************************************************)
(* The human gates of the generation history: a run that a budget or a     *)
(* quality gate stopped leaves a pending record, and requests of           *)
(* POST /generation-gates/<id>/resolve approve or reject it, in the        *)
(* threads of one API process.                                             *)
(*                                                                         *)
(* The SQLite store reads the record and then updates it, under a lock of  *)
(* the store object; the MySQL store has one conditional UPDATE.  Which    *)
(* store object a request uses is part of the story: routes.py takes it    *)
(* from an lru_cache'd factory, and lru_cache calls the factory again in   *)
(* every thread that asks before the first call has returned.              *)
(***************************************************************************)
EXTENDS Integers, FiniteSets

CONSTANTS
    Records,    \* ids of generation_records
    Resolvers,  \* resolve requests, each of a thread and a client of its own
    Nobody,     \* no request; also the builder of a store built beforehand
    Deployments \* how the process may run: database_backend, and whether
                \* _history_store() has been called before (warm)

ASSUME GatesAssumption ==
    /\ Nobody \notin Resolvers
    /\ Deployments \subseteq [backend : {"sqlite", "mysql"}, warm : BOOLEAN]

VARIABLES
    deployment, \* how it does
    rec,       \* the table: detail, gate_status and gate_resolved_by
    cached,    \* what lru_cache holds: {} or {the store}
    lock,      \* lock[s]: the request that holds _lock of the store s built
    pc,        \* where each request is
    store,     \* the store it uses, named by its builder
    target,    \* the record it is to resolve; {} for an id that has none
    choice,    \* the decision it carries
    answer,    \* its answer
    shown      \* gate_resolved_by in the record it was answered with

requestVars == <<pc, store, target, choice, answer, shown>>
gateVars == <<deployment, rec, cached, lock, pc, store, target, choice, answer, shown>>

Backend == deployment.backend
Warm == deployment.warm

Decisions == {"approved", "rejected"}

\* No row; a row without gate_detail_json; a gate.  "null" is gate_status in a
\* row older than that column.
Rows == [kind : {"absent", "plain", "gate"},
         status : {"null", "pending"} \cup Decisions,
         by : Resolvers \cup {Nobody}]

Row(kind, status) == [kind |-> kind, status |-> status, by |-> Nobody]

Places == {"out", "building", "ready", "locked", "selected", "resolved", "done"}
GateAnswers == {"none", "ok", "not_found", "conflict", "error"}

GateTypes ==
    /\ deployment \in Deployments
    /\ rec \in [Records -> Rows]
    /\ cached \in SUBSET (Resolvers \cup {Nobody}) /\ Cardinality(cached) <= 1
    /\ lock \in [Resolvers \cup {Nobody} -> Resolvers \cup {Nobody}]
    /\ pc \in [Resolvers -> Places]
    /\ store \in [Resolvers -> Resolvers \cup {Nobody}]
    /\ target \in [Resolvers -> SUBSET Records]
    /\ choice \in [Resolvers -> Decisions]
    /\ answer \in [Resolvers -> GateAnswers]
    /\ shown \in [Resolvers -> Resolvers \cup {Nobody}]

\* A gate recorded before the process started: by a version without the
\* column, unless the store that is already built has migrated it.
OldGate == Row("gate", IF Backend = "sqlite" /\ Warm THEN "pending" ELSE "null")

GatesInit ==
    /\ deployment \in Deployments
    /\ cached = IF Warm THEN {Nobody} ELSE {}
    /\ rec \in [Records -> {Row("absent", "null"), OldGate}]
    /\ lock = [s \in Resolvers \cup {Nobody} |-> Nobody]
    /\ pc = [q \in Resolvers |-> "out"]
    /\ store = [q \in Resolvers |-> Nobody]
    /\ target = [q \in Resolvers |-> {}]
    /\ choice \in [Resolvers -> Decisions]
    /\ answer = [q \in Resolvers |-> "none"]
    /\ shown = [q \in Resolvers |-> Nobody]
-----------------------------------------------------------------------------
\* record_success and record_failure: one INSERT under a new id.  With a gate
\* the record is pending from the start.
RecordRun(r) ==
    /\ cached # {}
    /\ rec[r].kind = "absent"
    /\ \E row \in {Row("plain", "null"), Row("gate", "pending")} :
        rec' = [rec EXCEPT ![r] = row]
    /\ UNCHANGED <<deployment, cached, lock, requestVars>>

Moves(q, from, to) == pc[q] = from /\ pc' = [pc EXCEPT ![q] = to]

\* The request arrives, for an id it has seen in a listing or for none, and
\* calls _history_store(): a hit, or a miss.
Arrive(q) ==
    /\ \/ \E r \in Records : rec[r].kind # "absent" /\ target' = [target EXCEPT ![q] = {r}]
       \/ UNCHANGED target
    /\ \/ cached = {} /\ Moves(q, "out", "building") /\ UNCHANGED store
       \/ \E s \in cached : Moves(q, "out", "ready") /\ store' = [store EXCEPT ![q] = s]
    /\ UNCHANGED <<deployment, rec, cached, lock, choice, answer, shown>>

\* The UPDATE of _initialize; the MySQL schema is migrated by scripts.
Migrates(row) == Backend = "sqlite" /\ row = Row("gate", "null")

\* GenerationHistoryStore.__init__ with _initialize and its migration of old
\* rows, then lru_cache: the first result is kept, but each caller goes on
\* with the store it has built itself.
Build(q) ==
    /\ Moves(q, "building", "ready")
    /\ rec' = [r \in Records |-> IF Migrates(rec[r]) THEN Row("gate", "pending")
                                                   ELSE rec[r]]
    /\ store' = [store EXCEPT ![q] = q]
    /\ cached' = IF cached = {} THEN {q} ELSE cached
    /\ UNCHANGED <<deployment, lock, target, choice, answer, shown>>

Open(row) == row.kind = "gate" /\ row.status \in {"null", "pending"}

Answered(q, from, what) == Moves(q, from, "done") /\ answer' = [answer EXCEPT ![q] = what]

Unlock(q) == lock' = [lock EXCEPT ![store[q]] = Nobody]

Decide(q) ==
    rec' = [r \in Records |->
        IF r \in target[q] THEN [rec[r] EXCEPT !.status = choice[q], !.by = q]
                           ELSE rec[r]]

\* How a request for a record that is not open is answered.
Refused(q, from) ==
    \/ /\ \A r \in target[q] : rec[r].kind # "gate"
       /\ Answered(q, from, "not_found")
    \/ /\ \E r \in target[q] : rec[r].kind = "gate" /\ ~Open(rec[r])
       /\ Answered(q, from, "conflict")

\* "with self._lock".
Acquire(q) ==
    /\ Backend = "sqlite"
    /\ lock[store[q]] = Nobody
    /\ Moves(q, "ready", "locked")
    /\ lock' = [lock EXCEPT ![store[q]] = q]
    /\ UNCHANGED <<deployment, rec, cached, store, target, choice, answer, shown>>

\* A faulty variant: a refusal leaves without the lock being given back.
SelectKeepsLock(q) ==
    /\ \/ /\ \E r \in target[q] : Open(rec[r])
          /\ Moves(q, "locked", "selected")
          /\ UNCHANGED answer
       \/ Refused(q, "locked")
    /\ UNCHANGED <<deployment, rec, cached, lock, store, target, choice, shown>>

\* A faulty variant: the status that was read is not looked at.
SelectAny(q) ==
    /\ Moves(q, "locked", "selected")
    /\ UNCHANGED <<deployment, rec, cached, lock, store, target, choice, answer, shown>>

\* SELECT, and the two ways out of resolve_gate_record that it may show.
Select(q) ==
    /\ \/ /\ \E r \in target[q] : Open(rec[r])
          /\ Moves(q, "locked", "selected")
          /\ UNCHANGED <<answer, lock>>
       \/ Refused(q, "locked") /\ Unlock(q)
    /\ UNCHANGED <<deployment, rec, cached, store, target, choice, shown>>

\* UPDATE ... WHERE id = ?, commit, and the end of the locked part.
Update(q) ==
    /\ Moves(q, "selected", "resolved")
    /\ Decide(q)
    /\ Unlock(q)
    /\ UNCHANGED <<deployment, cached, store, target, choice, answer, shown>>

\* A faulty variant: the UPDATE has only the id in its condition.
UpdateById(q) ==
    /\ Backend = "mysql"
    /\ \/ /\ \E r \in target[q] : rec[r].kind = "gate"
          /\ Moves(q, "ready", "resolved")
          /\ Decide(q)
          /\ UNCHANGED answer
       \/ Refused(q, "ready") /\ UNCHANGED rec
    /\ UNCHANGED <<deployment, cached, lock, store, target, choice, shown>>

\* A faulty variant: no COALESCE, an old row without a status counts as decided.
UpdateIfPending(q) ==
    /\ Backend = "mysql"
    /\ \/ /\ \E r \in target[q] : rec[r].kind = "gate" /\ rec[r].status = "pending"
          /\ Moves(q, "ready", "resolved")
          /\ Decide(q)
          /\ UNCHANGED answer
       \/ /\ \E r \in target[q] : rec[r].kind = "gate" /\ rec[r].status # "pending"
          /\ Answered(q, "ready", "conflict")
          /\ UNCHANGED rec
    /\ UNCHANGED <<deployment, cached, lock, store, target, choice, shown>>

\* MySQL: UPDATE ... WHERE id = %s AND gate_status is pending; when it has
\* changed no row, a SELECT in the same transaction says why.
UpdateIfOpen(q) ==
    /\ Backend = "mysql"
    /\ \/ /\ \E r \in target[q] : Open(rec[r])
          /\ Moves(q, "ready", "resolved")
          /\ Decide(q)
          /\ UNCHANGED answer
       \/ Refused(q, "ready") /\ UNCHANGED rec
    /\ UNCHANGED <<deployment, cached, lock, store, target, choice, shown>>

\* get_record, after the lock or the transaction: 200 with the record.
Reply(q) ==
    /\ Answered(q, "resolved", "ok")
    /\ \E r \in target[q] : shown' = [shown EXCEPT ![q] = rec[r].by]
    /\ UNCHANGED <<deployment, rec, cached, lock, store, target, choice>>

\* A statement raises ("database is locked", a lost connection): 500, the with
\* blocks give the lock back and nothing uncommitted stays.
Raise(q) ==
    /\ \E from \in Places \ {"out", "done"} : Answered(q, from, "error")
    /\ lock' = [s \in DOMAIN lock |-> IF lock[s] = q THEN Nobody ELSE lock[s]]
    /\ UNCHANGED <<deployment, rec, cached, store, target, choice, shown>>

Resolve(q) ==
    \/ Build(q) \/ Acquire(q) \/ Select(q) \/ Update(q) \/ UpdateIfOpen(q) \/ Reply(q)

GatesNext ==
    \/ \E r \in Records : RecordRun(r)
    \/ \E q \in Resolvers : Arrive(q) \/ Resolve(q) \/ Raise(q)

GatesSpec == GatesInit /\ [][GatesNext]_gateVars

\* A thread of the pool that may go on goes on.
FairGatesSpec == GatesSpec /\ \A q \in Resolvers : WF_gateVars(Resolve(q))
-----------------------------------------------------------------------------
\* A gate that has been decided stays decided, with the same decision by the
\* same person, whoever else was looking at it when it was.
DecisionsAreFinal ==
    [][\A r \in Records : rec[r].status \in Decisions => rec'[r] = rec[r]]_gateVars

\* Everyone who was told "resolved" was told of his own decision, the record
\* says so, and so there is at most one of them for each record.
WinnerIsShown ==
    \A q \in Resolvers : pc[q] = "resolved" \/ answer[q] = "ok" =>
        /\ \E r \in target[q] : rec[r].by = q /\ rec[r].status = choice[q]
        /\ answer[q] = "ok" => shown[q] = q

\* A 409 is given only for a record that someone has decided.
ConflictsHaveWinner ==
    \A q \in Resolvers : answer[q] = "conflict" =>
        \E r \in target[q] : rec[r].status \in Decisions /\ rec[r].by # Nobody

\* Every request is answered: no way out of resolve_gate_record keeps the lock.
RequestsAreAnswered ==
    \A q \in Resolvers : pc[q] # "out" ~> pc[q] = "done"
-----------------------------------------------------------------------------
\* Why they hold with one store, or with MySQL.

OneStore == \A d \in Deployments : d.backend = "mysql" \/ d.warm

InLock(q) == pc[q] \in {"locked", "selected"}

LockInv ==
    \A q \in Resolvers : InLock(q) => Backend = "sqlite" /\ lock[store[q]] = q

StoreInv ==
    Backend = "sqlite" =>
        /\ cached = {Nobody}
        /\ \A q \in Resolvers : pc[q] # "building" /\ store[q] = Nobody

\* What a request has read under the lock is still so when it writes.
ReadInv ==
    \A q \in Resolvers : pc[q] = "selected" => \E r \in target[q] : Open(rec[r])

\* A request has no answer before it is done.
UnansweredInv == \A q \in Resolvers : pc[q] # "done" => answer[q] = "none"

RecordInv ==
    /\ \A q \in Resolvers : \A r, s \in target[q] : r = s
    /\ \A r \in Records : rec[r].kind = "gate" /\ ~Open(rec[r]) => rec[r].by # Nobody
    /\ \A r \in Records : rec[r].kind # "gate" => rec[r].status = "null"

GatesInv ==
    /\ GateTypes /\ LockInv /\ StoreInv /\ ReadInv /\ RecordInv /\ UnansweredInv
    /\ WinnerIsShown /\ ConflictsHaveWinner
=============================================================================
