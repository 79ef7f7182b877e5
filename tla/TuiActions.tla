----------------------------- MODULE TuiActions -----------------------------
(***************************************************************************)
(* Control operations from the terminal interface (tui/app.py,             *)
(* tui/menu.py): a key, or a menu opened on a node, picks an operation;    *)
(* some ask first; a thread sends it.  Meanwhile refreshes arrive.         *)
(*                                                                         *)
(* Moving the tree's cursor is told to the application by a message that   *)
(* is handled later.  A modal screen takes the keys and the mouse.         *)
(***************************************************************************)
EXTENDS Integers, Sequences, FiniteSets, TLC

CONSTANTS
  ActTasks, ActContainers,   \* the nodes of the tree
  NoPick,                    \* no node is selected
  MaxRefreshes, MaxGestures  \* bounds: refreshes, things the user does

VARIABLES
  picked,      \* _selected_path
  cursorAt,    \* the path under the tree's cursor
  moved,       \* NodeHighlighted messages not handled yet
  inTree,      \* the nodes of the view
  screen,      \* the modal screen on top, if any
  orders,      \* the operations that were sent, with the node the user saw
  gestures, arrivals

actVars == <<picked, cursorAt, moved, inTree, screen, orders, gestures, arrivals>>

ActNodes == ActTasks \union ActContainers
NoScreen == [kind |-> "none"]
\* NODE_ACTIONS
Confirmed == {"force_complete"}
PerNode == {"run", "requeue", "force_complete", "force"}
\* applicable_actions, _task_only
ApplicableActions(p) == IF p \in inTree \ ActTasks THEN PerNode \ {"run"} ELSE PerNode

\* NodeTree.select_path: the cursor's watcher posts a message when it moves.
MoveCursor(at, queue, p) ==
  [at |-> p, queue |-> IF at = p THEN queue ELSE Append(queue, p)]

TuiActionsInit ==
  /\ picked = NoPick /\ cursorAt = NoPick /\ moved = <<>>
  /\ inTree = ActNodes /\ screen = NoScreen /\ orders = {}
  /\ gestures = 0 /\ arrivals = 0

\* What the user does is handled behind the messages that were posted before.
Gesture == moved = <<>> /\ gestures < MaxGestures /\ gestures' = gestures + 1

\* The user moves the cursor in the tree.
CursorKey(p) ==
  /\ Gesture /\ screen = NoScreen /\ p \in inTree /\ p # cursorAt
  /\ cursorAt' = p /\ moved' = Append(moved, p)
  /\ UNCHANGED <<picked, inTree, screen, orders, arrivals>>

\* TaklerTuiApp.on_tree_node_highlighted
Highlighted ==
  /\ moved # <<>> /\ moved' = Tail(moved)
  /\ picked' = Head(moved)
  /\ UNCHANGED <<cursorAt, inTree, screen, orders, gestures, arrivals>>

\* TaklerTuiApp._control_worker, _force_state_worker: `seen` is the node the
\* user was last told of.
Send(op, seen, path) == orders' = orders \union {[op |-> op, seen |-> seen, path |-> path]}

\* Mutant: nothing is confirmed.
RunControlUnasked(op, seen) ==
  IF picked = NoPick THEN screen' = NoScreen /\ UNCHANGED orders
  ELSE screen' = NoScreen /\ Send(op, seen, picked)

\* TaklerTuiApp._run_control: the node is the selected one, the prompt names it.
RunControl(op, seen) ==
  IF picked = NoPick THEN screen' = NoScreen /\ UNCHANGED orders
  ELSE IF op \in Confirmed
  THEN screen' = [kind |-> "prompt", op |-> op, path |-> picked] /\ UNCHANGED orders
  ELSE screen' = NoScreen /\ Send(op, seen, picked)

\* action_run_now; action_force_menu; the other actions
Perform(op, seen) ==
  CASE op = "run" /\ picked \in inTree \ ActTasks -> screen' = NoScreen /\ UNCHANGED orders
    [] op = "force" /\ picked # NoPick -> screen' = [kind |-> "force", path |-> picked] /\ UNCHANGED orders
    [] OTHER -> RunControl(op, seen)

\* _build_bindings: a key works on the selected node.
Key(op) ==
  /\ Gesture /\ screen = NoScreen /\ op # "force"
  /\ Perform(op, picked)
  /\ UNCHANGED <<picked, cursorAt, moved, inTree, arrivals>>

\* TaklerTuiApp.action_open_menu
OpenMenu ==
  /\ Gesture /\ screen = NoScreen /\ picked # NoPick
  /\ screen' = [kind |-> "menu", path |-> picked, actions |-> ApplicableActions(picked)]
  /\ UNCHANGED <<picked, cursorAt, moved, inTree, orders, arrivals>>

\* TaklerTuiApp.on_click with the right button
RightClick(p) ==
  /\ Gesture /\ screen = NoScreen /\ p \in inTree
  /\ LET m == MoveCursor(cursorAt, moved, p) IN cursorAt' = m.at /\ moved' = m.queue
  /\ screen' = [kind |-> "menu", path |-> p, actions |-> ApplicableActions(p)]
  /\ UNCHANGED <<picked, inTree, orders, arrivals>>

\* TaklerTuiApp._on_menu_dismissed
MenuChooses(op) ==
  /\ moved = <<>>
  /\ screen.kind = "menu" /\ op \in screen.actions
  /\ Perform(op, screen.path)
  /\ UNCHANGED <<picked, cursorAt, moved, inTree, gestures, arrivals>>

\* TaklerTuiApp._on_force_menu_dismissed: every forced state is confirmed.
ForceChooses ==
  /\ screen.kind = "force"
  /\ screen' = IF picked = NoPick THEN NoScreen ELSE [kind |-> "prompt", op |-> "force", path |-> picked]
  /\ UNCHANGED <<picked, cursorAt, moved, inTree, orders, gestures, arrivals>>

\* confirm: the answer runs the closure that holds the path.
Answered(yes) ==
  /\ screen.kind = "prompt" /\ screen' = NoScreen
  /\ IF yes THEN Send(screen.op, screen.path, screen.path) ELSE UNCHANGED orders
  /\ UNCHANGED <<picked, cursorAt, moved, inTree, gestures, arrivals>>

\* The menu or the prompt is left (escape, a click outside).
Dismissed ==
  /\ screen.kind \in {"menu", "force"} /\ screen' = NoScreen
  /\ UNCHANGED <<picked, cursorAt, moved, inTree, orders, gestures, arrivals>>

\* TaklerTuiApp._apply_snapshot: the tree is rebuilt with its cursor, and the
\* selected node is revealed, which moves the cursor to it.
RefreshArrives(view) ==
  /\ arrivals < MaxRefreshes /\ arrivals' = arrivals + 1
  /\ inTree' = view
  /\ LET restored == IF cursorAt \in view THEN cursorAt ELSE NoPick
         m == MoveCursor(restored, moved, picked)
     IN  IF picked \in view THEN cursorAt' = m.at /\ moved' = m.queue /\ UNCHANGED picked
         ELSE cursorAt' = restored /\ picked' = NoPick /\ UNCHANGED moved
  /\ UNCHANGED <<screen, orders, gestures>>

TuiActionsNext ==
  \/ \E p \in ActNodes : CursorKey(p)
  \/ Highlighted
  \/ \E op \in PerNode : Key(op)
  \/ OpenMenu
  \/ \E p \in ActNodes : RightClick(p)
  \/ \E op \in PerNode : MenuChooses(op)
  \/ ForceChooses
  \/ \E yes \in BOOLEAN : Answered(yes)
  \/ Dismissed
  \/ \E view \in (SUBSET ActNodes) \ {{}} : RefreshArrives(view)

TuiActionsSpec == TuiActionsInit /\ [][TuiActionsNext]_actVars

-----------------------------------------------------------------------------
(* Properties *)

\* Whatever refreshes and cursor messages arrive while a menu or a prompt is
\* open, a state is forced only on the node the prompt named.
ForcedIsConfirmed == \A o \in orders : o.op \in {"force", "force_complete"} => o.seen = o.path

\* An operation chosen in the menu of a node is done to that node.
\* It does not hold: README, "Also observed".
MenuActsOnItsNode == \A o \in orders : o.seen = o.path
=============================================================================
