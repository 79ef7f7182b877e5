------------------------------- MODULE MCTree -------------------------------
(***************************************************************************)
(* The tree of MCNodeTree twice: `focus` picks the scan with dependencies, *)
(* a full Limit, a trigger that cannot be evaluated and commands that fall *)
(* between its visits, or the commands that write statuses all over a tree *)
(* with a repeat and no dependencies.                                      *)
(***************************************************************************)
EXTENDS MCNodeTree

VARIABLE focus

Statuses ==
  INSTANCE NodeTree
  WITH DefaultComplete <- {b}, RepeatEnd <- RepeatTwice, Trigger <- None, CompleteTrigger <- None,
       EventTrigger <- None, Timed <- {}, Refused <- {}, Broken <- {}, Failing <- Task,
       Commands <- StatusCommands

MCInit ==
  \/ focus = "scan" /\ Init
  \/ focus = "statuses" /\ Statuses!Init

MCNext ==
  \/ focus = "scan" /\ UNCHANGED focus /\ Next
  \/ focus = "statuses" /\ UNCHANGED focus /\ Statuses!Next

MCSpec == MCInit /\ [][MCNext]_<<focus, vars>>

\* Without requeues a container has the greatest status of its children after
\* every handler that scans, reports, suspends, frees or forces, and one that is
\* complete is done with all its tasks and the last value of its repeat.
CompleteMeansDone == focus = "scan" => CompleteIsFinished /\ AggregateExact

\* A repeat that advances throws no run away, whatever command led to it.
RepeatKeepsRuns == [][focus = "statuses" => Statuses!DiscardsNoRun]_vars
=============================================================================
