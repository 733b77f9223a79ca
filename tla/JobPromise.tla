---------------------------- MODULE JobPromise ----------------------------
(***************************************************************************)
(* What a client that was given a job id may rely on: the life of an       *)
(* accepted job as GET /test-cases/generation-jobs/<id> shows it.  Nothing *)
(* here says how: no store, no queue, no worker.                           *)
(***************************************************************************)
CONSTANT Jobs

VARIABLE view   \* view[j]: "none" until j is accepted, then its visible state

Views == {"none", "queued", "running", "succeeded", "failed", "expired"}

PromiseTypeOK == view \in [Jobs -> Views]

Init == view = [j \in Jobs |-> "none"]

Move(j, from, to) == view[j] \in from /\ view' = [view EXCEPT ![j] = to]

Start(j) == Move(j, {"queued"}, "running")
Succeed(j) == Move(j, {"running"}, "succeeded")

MoveAll(S, from, to) ==
    /\ \A j \in S : view[j] \in from
    /\ view' = [j \in Jobs |-> IF j \in S THEN to ELSE view[j]]

\* One run that raised, or the recovery of several abandoned runs at once.
Fail(S) == MoveAll(S, {"running"}, "failed")

\* One cleanup drops every job whose retention has passed.
Expire(S) == MoveAll(S, {"succeeded", "failed"}, "expired")

\* A job is accepted, and a cleanup may come with it.
Accept(j, S) ==
    /\ view[j] = "none"
    /\ \A k \in S : view[k] \in {"succeeded", "failed"}
    /\ view' = [k \in Jobs |-> IF k = j THEN "queued"
                              ELSE IF k \in S THEN "expired" ELSE view[k]]

Next ==
    \/ \E j \in Jobs : Start(j) \/ Succeed(j)
    \/ \E S \in SUBSET Jobs : Fail(S) \/ Expire(S) \/ \E j \in Jobs : Accept(j, S)

Spec == Init /\ [][Next]_view
=============================================================================
