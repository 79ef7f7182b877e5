---------------------------- MODULE MCSubmission ----------------------------
(***************************************************************************)
(* ShellSubmission on one task, which carries a repeat and is submitted to *)
(* an external scheduler.  Of three attempts the second has to wait for a  *)
(* process slot and the third can find the budget full.                    *)
(***************************************************************************)
EXTENDS ShellSubmission

MCInLimits == [t \in Task |-> Limit]
MCTokens == [t \in Task |-> [l \in Limit |-> 1]]
MCCapacity == [l \in Limit |-> 1]
MCSubtree == {{t} : t \in Task}

\* Bound: one halt cause at a time
MCNext == ShellNext /\ Cardinality(causes') <= 1

MCSpec == ShellInit /\ [][MCNext]_allVars
=============================================================================
