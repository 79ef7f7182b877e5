-------------------------- MODULE MCTaskLifecycle --------------------------
(***************************************************************************)
(* TaskLifecycle and Recovery on three tasks.  Task b is complete by       *)
(* default, the node {a, b} carries a repeat.  All tasks need cpu, which   *)
(* has room for two of them; b and c need disk, which has room for one.    *)
(* `focus` picks the bounds:                                               *)
(*   limits      the three tasks compete, with one attempt each;           *)
(*   lifecycle   a and b run, twice each, so that runs are replaced; they  *)
(*               fit into the Limits, so every mix of their runs occurs;   *)
(*   restarts    a runs; one attempt is saved or undone by a restart, and  *)
(*               another one drawn after it.                               *)
(***************************************************************************)
EXTENDS Recovery, TLC

CONSTANTS a, b, c, cpu, disk

MCInLimits == a :> {cpu} @@ b :> {cpu, disk} @@ c :> {cpu, disk}
MCTokens == [t \in Task |-> [l \in Limit |-> IF t = c /\ l = disk THEN 2 ELSE 1]]
MCCapacity == [l \in Limit |-> 2]
MCSubtree == {{t} : t \in Task} \cup {{a, b}, Task}
MCDefaultComplete == {{b}}
MCRepeating == {{a, b}}

VARIABLE focus

MCInit ==
  /\ focus \in {"limits", "lifecycle", "restarts"}
  /\ RecoveryInit
  /\ focus # "lifecycle" => causes = {}

\* A task that takes part in nothing but the begin of the flow
Idle(t) ==
  /\ task'[t].attempt = 0
  /\ task'[t].status = IF begun' THEN DefaultStatus(Task, t) ELSE "unknown"

MCNext ==
  /\ UNCHANGED focus
  /\ \/ /\ focus = "limits" /\ Next
        /\ \A t \in Task : issued'[t] <= 1
        /\ UNCHANGED <<causes, stopping, saved, lost>>
     \/ focus = "lifecycle" /\ Next /\ Idle(c) /\ UNCHANGED <<saved, lost>>
     \/ focus = "restarts" /\ RecoveryNext /\ Idle(b) /\ Idle(c) /\ causes' \subseteq {"recovery"}

MCSpec == MCInit /\ [][MCNext]_<<focus, recoveryVars>>
=============================================================================
