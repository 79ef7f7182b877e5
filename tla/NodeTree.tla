------------------------------ MODULE NodeTree ------------------------------
(***************************************************************************)
(* The node tree of one flow: statuses of tasks and containers, how a      *)
(* change swims up and advances repeats, and the scan that walks down the  *)
(* tree and runs the tasks whose dependencies are met.                     *)
(*                                                                         *)
(* The scan is a generator that gives way to other handlers between two    *)
(* nodes, so suspensions, reports and commands fall between its visits.    *)
(* Run identity, Limits and the guards of a report are the subject of      *)
(* module TaskLifecycle; here a report is one of the current attempt and a *)
(* Limit may always refuse a task.                                         *)
(***************************************************************************)
EXTENDS Naturals, Sequences, Functions

CONSTANTS
  Task, Container,
  Root,             \* the flow
  Children,         \* Children[c]: sequence of the nodes directly below c
  DefaultComplete,  \* nodes whose default_node_status is complete
  RepeatEnd,        \* RepeatEnd[n]: number of increments a repeat allows; 0: no repeat
  Trigger,          \* Trigger[n]: conditions <<node, statuses>>, all of them needed
  CompleteTrigger,  \* same; {} is no complete trigger
  EventTrigger,     \* EventTrigger[n]: tasks whose event the trigger needs as well
  Timed,            \* nodes with a time attribute
  Refused,          \* tasks that a full Limit may hold back
  Broken,           \* nodes whose trigger cannot be evaluated
  Failing,          \* bound: tasks whose submission or job may fail
  Commands          \* bound: the commands <<name, node>> operators give

Node == Task \cup Container
Status == <<"unknown", "complete", "queued", "submitted", "active", "aborted">>
InFlight == {"submitted", "active"}
Rank(s) == CHOOSE i \in DOMAIN Status : Status[i] = s

ASSUME TreeAssumption ==
  /\ Root \in Container /\ Task \cap Container = {}
  /\ Children \in [Container -> Seq(Node)] /\ RepeatEnd \in [Node -> Nat]
  /\ \A n \in Node : \A c, d \in Container :
       n \in Range(Children[c]) /\ n \in Range(Children[d]) => c = d
  /\ \A n \in Node : n = Root <=> \A c \in Container : n \notin Range(Children[c])

\* The nodes from n up to the flow, and those at or below n.
Parent(n) == CHOOSE c \in Container : n \in Range(Children[c])
Up[n \in Node] == IF n = Root THEN <<n>> ELSE <<n>> \o Up[Parent(n)]
Below(n) == {m \in Node : n \in Range(Up[m])}
TasksBelow(n) == Below(n) \cap Task

\* The parents of every node lead up to the flow, so that Up is defined for it.
ASSUME UpAssumption ==
  /\ Up \in [Node -> Seq(Node)]
  /\ \A n \in Node : Up[n] = IF n = Root THEN <<n>> ELSE <<n>> \o Up[Parent(n)]

VARIABLES
  tree,       \* what a handler may change all over the tree (see TreeState)
  suspended,  \* State.suspended
  now,        \* nodes whose time is the calendar's minute
  begun,      \* Flow.begun
  running,    \* the service is neither halted nor stopping
  scan,       \* the generator's stack of child iterators; <<>>: no scan
  held        \* history: nodes suspended without a break since the scan began

vars == <<tree, suspended, now, begun, running, scan, held>>

\* rep counts the increments since the repeat's start; freed and onTime are the
\* free flags of triggers and time attributes; events are the events set.
TreeState ==
  [status : [Node -> Range(Status)], rep : [Node -> Nat], freed : SUBSET Node,
   onTime : SUBSET Timed, events : SUBSET Task]

TypeOK ==
  /\ tree \in TreeState /\ \A n \in Node : tree.rep[n] <= RepeatEnd[n]
  /\ suspended \subseteq Node /\ now \subseteq Timed
  /\ begun \in BOOLEAN /\ running \in BOOLEAN
  /\ scan \in Seq(Seq(Node)) /\ held \subseteq suspended

Init ==
  /\ tree = [status |-> [n \in Node |-> "unknown"], rep |-> [n \in Node |-> 0],
             freed |-> {}, onTime |-> {}, events |-> {}]
  /\ suspended = {} /\ now = {}
  /\ begun = FALSE /\ running = TRUE
  /\ scan = <<>> /\ held = {}

-----------------------------------------------------------------------------
(* Status changes: functions from a tree to a tree *)

\* compute_most_significant_status
MostSignificant(statuses) == CHOOSE s \in statuses : \A q \in statuses : Rank(q) <= Rank(s)

\* Mutant: one complete child completes the container.
ComputedStatusAnyComplete(tr, n) ==
  IF n \in Task \/ Children[n] = <<>> THEN tr.status[n]
  ELSE LET statuses == {tr.status[c] : c \in Range(Children[n])}
       IN  IF "complete" \in statuses THEN "complete" ELSE MostSignificant(statuses)

\* NodeContainer.computed_status and Task.computed_status
ComputedStatus(tr, n) ==
  IF n \in Task \/ Children[n] = <<>> THEN tr.status[n]
  ELSE MostSignificant({tr.status[c] : c \in Range(Children[n])})

SetOnly(tr, n, s) == [tr EXCEPT !.status[n] = s]

\* Mutant: the node itself is requeued, its children are not.
RequeueTreeNodeOnly(tr, n, resetRepeat) ==
  [tr EXCEPT !.status[n] = IF n \in DefaultComplete THEN "complete" ELSE "queued",
             !.rep[n] = IF resetRepeat THEN 0 ELSE @]

\* NodeContainer.requeue and Node.requeue: every node below n takes its default;
\* a container with default complete sinks it to all that is below it.
RequeueTree(tr, n, resetRepeat) ==
  LET all == Below(n)
      default(m) == IF \E g \in DefaultComplete \cap all : m \in Below(g)
                      THEN "complete" ELSE "queued"
  IN  [status |-> [m \in Node |-> IF m \in all THEN default(m) ELSE tr.status[m]],
       rep |-> [m \in Node |-> IF m \in all /\ resetRepeat THEN 0 ELSE tr.rep[m]],
       freed |-> tr.freed \ all, onTime |-> tr.onTime \ all, events |-> tr.events \ all]

\* One node of Node.swim_status_change ("swim") or of swim_status_change_only
\* ("only").  A task that advances its repeat swims its parent with "only".
SwimOne(acc, n) ==
  LET s == ComputedStatus(acc.tr, n)
      advances == acc.mode = "swim" /\ s = "complete" /\ acc.tr.rep[n] < RepeatEnd[n]
      next == RequeueTree([acc.tr EXCEPT !.rep[n] = @ + 1], n, FALSE)
  IN  IF ~advances THEN [tr |-> SetOnly(acc.tr, n, s), mode |-> "swim"]
      ELSE [tr |-> SetOnly(next, n, ComputedStatus(next, n)),
            mode |-> IF n \in Task THEN "only" ELSE "swim"]

SwimAlong(tr, path) ==
  LET swum[i \in 0..Len(path)] ==
        IF i = 0 THEN [tr |-> tr, mode |-> "swim"] ELSE SwimOne(swum[i - 1], path[i])
  IN  swum[Len(path)].tr

\* Mutant: the status does not swim up to the flow.
SwimBelowRoot(tr, n) == SwimAlong(tr, SubSeq(Up[n], 1, Len(Up[n]) - 1))

\* Node.swim_status_change from n to the flow
Swim(tr, n) == SwimAlong(tr, Up[n])

\* Mutant: the change is not handled.
SetStatusOnly(tr, n, s) == SetOnly(tr, n, s)

\* Node.set_node_status
SetStatus(tr, n, s) == IF tr.status[n] = s THEN tr ELSE Swim(SetOnly(tr, n, s), n)

\* Task.init, complete, abort and after_run: the status is set, and the change
\* is handled once more.
Report(tr, t, s) == Swim(SetStatus(tr, t, s), t)

-----------------------------------------------------------------------------
(* Dependencies and the scan *)

Holds(conditions) == \A c \in conditions : tree.status[c[1]] \in c[2]

CompleteHolds(n) == CompleteTrigger[n] # {} /\ Holds(CompleteTrigger[n])

\* Node.evaluate_trigger
TriggerHolds(n) ==
  n \in tree.freed \/ (Holds(Trigger[n]) /\ EventTrigger[n] \subseteq tree.events)

\* Node.resolve_time_dependencies
TimeHolds(n) == n \in Timed => n \in tree.onTime \cup now

\* Mutant: only a task looks at its suspension.
ReachedTaskSuspended(n) ==
  /\ n \in Task => n \notin suspended /\ tree.status[n] \in {"queued", "aborted"}
  /\ TimeHolds(n)

\* The part of Node.check_dependencies before the complete trigger
Reached(n) ==
  /\ n \notin suspended /\ TimeHolds(n)
  /\ n \in Task => tree.status[n] \in {"queued", "aborted"}

\* Running a task (Task.run): accepted, or failed at once and aborted.
Outcome(t) == {"submitted"} \cup (IF t \in Failing THEN {"aborted"} ELSE {})

\* A stack with one more iterator over nodes, unless it is exhausted
Iterators(nodes, rest) == IF nodes = <<>> THEN rest ELSE <<nodes>> \o rest

\* The visit of n: Task.resolve_dependencies for a task, check_dependencies for
\* a container, whose children are next then; rest is the stack without n.
Visit(n, rest) ==
  \/ /\ Reached(n) /\ CompleteHolds(n)
     /\ tree' = SetStatus(tree, n, "complete") /\ scan' = rest
  \/ /\ Reached(n) /\ ~CompleteHolds(n) /\ n \in Broken   \* an exception
     /\ UNCHANGED tree /\ scan' = <<>>
  \/ /\ Reached(n) /\ ~CompleteHolds(n) /\ n \in Container \ Broken /\ TriggerHolds(n)
     /\ UNCHANGED tree /\ scan' = Iterators(Children[n], rest)
  \/ /\ Reached(n) /\ ~CompleteHolds(n) /\ n \in Task \ Broken /\ TriggerHolds(n)
     /\ tree.status[n] = "queued"
     /\ \E s \in Outcome(n) : tree' = Report(tree, n, s)
     /\ scan' = rest
  \/ /\ ~Reached(n) \/ (~CompleteHolds(n) /\ n \notin Broken /\
         (~TriggerHolds(n) \/ (n \in Task /\ tree.status[n] = "aborted") \/ n \in Refused))
     /\ UNCHANGED tree /\ scan' = rest

\* Scheduler._flow_work up to the check of the flow itself
ScanBegin ==
  /\ scan = <<>> /\ begun /\ running
  /\ \E minute \in SUBSET Timed :
       now' = minute /\ tree' = [tree EXCEPT !.onTime = @ \cup minute]
  /\ scan' = <<<<Root>>>> /\ held' = suspended
  /\ UNCHANGED <<suspended, begun, running>>

\* One node of the scan
ScanStep ==
  /\ scan # <<>> /\ running
  /\ Visit(scan[1][1], Iterators(Tail(scan[1]), Tail(scan)))
  /\ UNCHANGED <<suspended, now, begun, running, held>>

\* Scheduler.main_loop gives up the scans of a halted service.
ScanDropped ==
  /\ scan # <<>> /\ ~running
  /\ scan' = <<>>
  /\ UNCHANGED <<tree, suspended, now, begun, running, held>>

\* The first slice of a scan, from its start to the first node below the flow, is
\* one step of the event loop; every other handler waits for it.
GivesWay == scan \notin {<<<<Root>>>>, <<Children[Root]>>}

-----------------------------------------------------------------------------
(* Reports of the job of task t *)

Changes(tr) ==
  GivesWay /\ tree' = tr /\ UNCHANGED <<suspended, now, begun, running, scan, held>>

ChildInit(t) == tree.status[t] = "submitted" /\ Changes(Report(tree, t, "active"))

ChildComplete(t) == tree.status[t] \in InFlight /\ Changes(Report(tree, t, "complete"))

\* Also the late failure of a submission (on_job_failure).
ChildAbort(t) ==
  t \in Failing /\ tree.status[t] \in InFlight /\ Changes(Report(tree, t, "aborted"))

\* Scheduler.run_command_event
ChildEvent(t) ==
  /\ \E n \in Node : t \in EventTrigger[n]
  /\ tree.status[t] \in InFlight
  /\ Changes([tree EXCEPT !.events = @ \cup {t}])

-----------------------------------------------------------------------------
(* Operator commands *)

\* Flow.begin
Begin(force) ==
  /\ GivesWay
  /\ begun => force /\ <<"begin --force", Root>> \in Commands
  /\ tree' = RequeueTree(tree, Root, TRUE)
  /\ begun' = TRUE
  /\ UNCHANGED <<suspended, now, running, scan, held>>

\* Scheduler.run_command_requeue
Requeue(n) == begun /\ <<"requeue", n>> \in Commands /\ Changes(RequeueTree(tree, n, TRUE))

\* Scheduler.run_command_run
RunCommand(t, force) ==
  /\ begun /\ running /\ <<"run", t>> \in Commands
  /\ force \/ tree.status[t] \notin InFlight
  /\ \E s \in Outcome(t) : Changes(Report(tree, t, s))

\* Scheduler._force_path, not recursive
ForceNode(n, s) ==
  /\ begun /\ <<"force", n>> \in Commands
  /\ s \in InFlight /\ n \in Task => tree.status[n] \in InFlight
  /\ Changes(SetStatus(tree, n, s))

\* Scheduler._force_path, recursive: NodeContainer.sink_status_change
ForceTree(c, s) ==
  /\ begun /\ <<"force", c>> \in Commands
  /\ s \in InFlight => \A t \in TasksBelow(c) : tree.status[t] \in InFlight
  /\ Changes(Swim([tree EXCEPT !.status =
       [n \in Node |-> IF n \in Below(c) THEN s ELSE @[n]]], c))

Triggered == {n \in Node : Trigger[n] # {} \/ EventTrigger[n] # {}}

\* Node.free_dependencies
FreeDep(n, type) ==
  /\ begun /\ <<"free-dep", n>> \in Commands
  /\ Changes([tree EXCEPT
       !.freed = IF type = "time" THEN @ ELSE @ \cup ({n} \cap Triggered),
       !.onTime = IF type = "trigger" THEN @ ELSE @ \cup ({n} \cap Timed)])

\* Node.suspend
Suspend(n) ==
  /\ GivesWay /\ <<"suspend", n>> \in Commands
  /\ suspended' = suspended \cup {n}
  /\ UNCHANGED <<tree, now, begun, running, scan, held>>

\* Node.resume
Resume(n) ==
  /\ GivesWay
  /\ suspended' = suspended \ {n} /\ held' = held \ {n}
  /\ UNCHANGED <<tree, now, begun, running, scan>>

\* Halt or resume of the service
Toggle ==
  /\ GivesWay /\ <<"halt", Root>> \in Commands
  /\ running' = ~running
  /\ UNCHANGED <<tree, suspended, now, begun, scan, held>>

-----------------------------------------------------------------------------
Next ==
  \/ ScanBegin \/ ScanStep \/ ScanDropped
  \/ \E t \in Task :
       \/ ChildInit(t) \/ ChildComplete(t) \/ ChildAbort(t) \/ ChildEvent(t)
       \/ \E force \in BOOLEAN : RunCommand(t, force)
  \/ \E force \in BOOLEAN : Begin(force)
  \/ \E n \in Node :
       \/ Requeue(n)
       \/ \E s \in Range(Status) : ForceNode(n, s)
       \/ \E type \in {"all", "time", "trigger"} : FreeDep(n, type)
       \/ Suspend(n) \/ Resume(n)
  \/ \E c \in Container, s \in Range(Status) : ForceTree(c, s)
  \/ Toggle

Spec == Init /\ [][Next]_vars

\* Scheduler.main_loop starts a scan again and again and resumes each one until
\* it ends; no job runs for ever.
FairSpec ==
  /\ Spec
  /\ WF_vars(ScanBegin)
  /\ []<>(scan = <<>>)
  /\ \A t \in Task : []<>(tree.status[t] \notin InFlight)

-----------------------------------------------------------------------------
(* Properties *)

Visible == InFlight \cup {"aborted"}

\* Work in progress and failures are visible from above: every container over
\* a submitted, active or aborted task shows at least that status, although
\* requeue and repeat write statuses without swimming them up.
RunningIsVisible ==
  \A t \in Task : tree.status[t] \in Visible =>
    \A n \in Range(Up[t]) : Rank(tree.status[n]) >= Rank(tree.status[t])

\* A repeat that advances throws no run away: of the tasks below it none is in
\* flight or aborted but the one whose own completion or force led to it, or
\* those of a container forced as a whole.
DiscardsNoRun ==
  \A n \in Node : tree'.rep[n] > tree.rep[n] =>
    LET lost == {t \in TasksBelow(n) : tree.status[t] \in Visible}
    IN  \/ lost = {}
        \/ \E t \in Task :
             /\ lost = {t}
             /\ \/ ChildComplete(t)
                \/ ScanStep /\ scan[1][1] = t
                \/ \E s \in Range(Status) : ForceNode(t, s)
        \/ \E c \in Container, s \in Range(Status) :
             lost \subseteq TasksBelow(c) /\ ForceTree(c, s)
RepeatDiscardsNoRun == [][DiscardsNoRun]_vars

\* One handler moves a repeat to its next value, back to its start, or not at
\* all (Node.swim_status_change, which most handlers call twice).
RepeatAdvancesOnce ==
  [][\A n \in Node : tree'.rep[n] \in {0, tree.rep[n], tree.rep[n] + 1}]_vars

\* The status of a container is the greatest status of its children
\* (NodeStatus, node-status.rst).
AggregateExact ==
  \A c \in Container : begun => tree.status[c] = ComputedStatus(tree, c)

\* A complete container means what a trigger on it relies on: all tasks below
\* are done and every repeat in it has reached its end.
CompleteIsFinished ==
  \A c \in Container : begun /\ tree.status[c] = "complete" =>
    /\ \A t \in TasksBelow(c) : tree.status[t] \in {"complete", "unknown"}
    /\ tree.rep[c] = RepeatEnd[c]

\* Without operators and failures a flow that has begun goes through all values
\* of its repeats and stays complete.
FlowCompletes ==
  begun ~> [](tree.status[Root] = "complete" /\ tree.rep = RepeatEnd)

ScanRuns(t) ==
  tree.status[t] = "queued" /\ tree'.status[t] \in InFlight \cup {"aborted"} /\ ScanStep

\* A suspension holds from the next scan on: a scan runs no task below a node
\* that was suspended when the scan began and has been since.
HoldsFromNextScan == \A t \in Task : ScanRuns(t) => held \cap Range(Up[t]) = {}
SuspendHoldsFromNextScan == [][HoldsFromNextScan]_vars

\* complete-triggers.rst: a node, task or container, whose complete trigger holds
\* when it is checked is complete then, unless its repeat takes it on.
CompleteTriggerCompletes ==
  [][\A n \in Node :
       ScanStep /\ scan[1][1] = n /\ Reached(n) /\ CompleteHolds(n) =>
         tree'.status[n] = "complete" \/ tree'.rep[n] > tree.rep[n]]_vars

-----------------------------------------------------------------------------
(* The inductive invariant *)

\* A submitted, active or aborted node shows in its parent.
ShowsAbove(tr, n) == tr.status[n] \in Visible => Rank(tr.status[Parent(n)]) >= Rank(tr.status[n])
EdgesVisible == \A n \in Node \ {Root} : ShowsAbove(tree, n)

\* The scan has only nodes ahead of it that have no held node above them.
Clear(n) == Range(Up[n]) \cap held \subseteq {n}
ScanIsClear ==
  \A i \in DOMAIN scan : scan[i] # <<>> /\ \A n \in Range(scan[i]) : Clear(n)

TreeInv == TypeOK /\ EdgesVisible /\ ScanIsClear
=============================================================================
