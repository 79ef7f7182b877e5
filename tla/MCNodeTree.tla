----------------------------- MODULE MCNodeTree -----------------------------
(***************************************************************************)
(* A flow f with a container g of two tasks and a task c after it:         *)
(* f = (g = (a, b), c).  The task b waits for a, and c for g.              *)
(***************************************************************************)
EXTENDS NodeTree, TLC

CONSTANTS a, b, c, g, f

MCChildren == (f :> <<g, c>>) @@ (g :> <<a, b>>)

NoRepeat == [n \in Node |-> 0]
RepeatInner == [n \in Node |-> IF n = g THEN 1 ELSE 0]
RepeatTwice == [n \in Node |-> IF n = g THEN 2 ELSE 0]
RepeatNested == [n \in Node |-> IF n \in {f, g, c} THEN 1 ELSE 0]

None == [n \in Node |-> {}]
Chain ==
  [n \in Node |-> CASE n = b -> {<<a, {"complete"}>>}
                    [] n = c -> {<<g, {"complete"}>>}
                    [] OTHER -> {}]
SkipTask == [n \in Node |-> IF n = b THEN {<<c, {"complete"}>>} ELSE {}]
SkipGroup == [n \in Node |-> IF n = g THEN {<<c, {"complete"}>>} ELSE {}]
EventOfA == [n \in Node |-> IF n = c THEN {a} ELSE {}]

StatusCommands ==
  {<<"begin --force", f>>} \cup ({"requeue", "run"} \X Node) \cup ({"force"} \X {a, b, c, f})
ManualRun == {"run"} \X Task
Requeuing == {"requeue"} \X Node
ScanCommands ==
  {<<"halt", f>>, <<"force", a>>, <<"force", g>>} \cup ({"suspend"} \X {g, b}) \cup ({"free-dep"} \X {b, c})
=============================================================================
