------------------------- MODULE StoredJobPromise --------------------------
(***************************************************************************)
(* What a row of test_plan_execution_jobs or test_agent_workflow_jobs      *)
(* shows when the queue lives in the memory of the API process: JobPromise,*)
(* weakened by what a table behind a queue that is not persistent has to   *)
(* add.  A refused job leaves a failed row, and a new process gives up the *)
(* jobs of the one before it.                                              *)
(***************************************************************************)
EXTENDS JobPromise

Finished == {"succeeded", "failed"}

\* A job found no room: its row says so.  A cleanup may come with it.
Refuse(j, S) ==
    /\ view[j] = "none"
    /\ \A k \in S : view[k] \in Finished
    /\ view' = [k \in Jobs |-> IF k = j THEN "failed"
                              ELSE IF k \in S THEN "expired" ELSE view[k]]

\* fail_stale_active_jobs at the start of a process.
GiveUp(S) == MoveAll(S, {"queued", "running"}, "failed")

StoredNext ==
    \/ Next
    \/ \E S \in SUBSET Jobs : GiveUp(S) \/ \E j \in Jobs : Refuse(j, S)

StoredSpec == Init /\ [][StoredNext]_view
=============================================================================
