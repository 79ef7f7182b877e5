---------------------------- MODULE FlowCalendar ----------------------------
(***************************************************************************)
(* The logical clock of a flow (core/calendar.py) and the time attributes  *)
(* of its nodes (core/time_attr.py).  The main loop reads the wall clock   *)
(* once per pass and hands that time to every flow it processes, so a      *)
(* command that runs between two flows of a pass, a halt, a stall or the   *)
(* time the server is down stand between what the clock says and what the  *)
(* flow's calendar says.                                                   *)
(*                                                                         *)
(* Time is counted in minutes since some midnight; a day has Day minutes.  *)
(* The flow is one of several that a pass visits.                          *)
(***************************************************************************)
EXTENDS Integers, FiniteSets

CONSTANTS
  Timed,     \* the tasks of the flow that carry time attributes
  TimesOf,   \* TimesOf[n]: their times, as minutes of the day
  Day,       \* minutes in a day
  MaxClock   \* bound: the wall clock

CalendarAssumption ==
  Day \in Nat \ {0} /\ TimesOf \in [Timed -> SUBSET (0 .. Day - 1)] /\ MaxClock \in Nat

VARIABLES
  clock,      \* datetime.now()
  passTime,   \* time_now of the pass under way, -1 between passes
  serving,    \* the server process runs
  paused,     \* the service is halted
  flow,       \* what a checkpoint keeps of the flow
  savedFlow   \* the flow in the last checkpoint

calendarVars == <<clock, passTime, serving, paused, flow, savedFlow>>

Times == UNION {{<<n, t>> : t \in TimesOf[n]} : n \in Timed}

\* The flow before Flow.begin; waiting are its queued tasks, free the time
\* attributes whose free flag is set, and since[n] is, for the properties, the
\* earliest time a pass could still show n after n was last reset.
NewFlow ==
  [begun |-> FALSE, flowTime |-> 0, lastReal |-> 0,
   waiting |-> {}, free |-> {}, since |-> [n \in Timed |-> 0], byHand |-> {}]

-----------------------------------------------------------------------------
(* Calendar and TimeAttribute *)

\* Mutant: a late pass never moves the logical clock back.
UpdateForward(f, t) ==
  [f EXCEPT !.flowTime = IF t > f.lastReal THEN @ + t - f.lastReal ELSE @, !.lastReal = t]

\* Calendar.update; what it derives for display (duration) is left out.
Update(f, t) == [f EXCEPT !.flowTime = @ + t - f.lastReal, !.lastReal = t]

\* Calendar.begin
BeginCalendar(f) == [f EXCEPT !.flowTime = clock, !.lastReal = clock]

\* TimeAttribute.is_free: the hour and the minute are compared, not the order.
IsFree(f, x) == x \in f.free \/ f.flowTime % Day = x[2]

\* TimeAttribute.calendar_changed, for every timed node of the flow
CalendarChanged(f) == [f EXCEPT !.free = {x \in Times : IsFree(f, x)}]

\* Flow.update_calendar
UpdateCalendar(f, t) == CalendarChanged(Update(f, t))

\* Node.resolve_time_dependencies: one of the times is enough.
TimeResolved(f, n) == TimesOf[n] = {} \/ \E t \in TimesOf[n] : IsFree(f, <<n, t>>)

Earliest == IF passTime >= 0 THEN passTime ELSE clock

\* Mutant: the free flag outlives the requeue.
ResetKeepsFree(f, ns) ==
  [f EXCEPT !.waiting = @ \cup ns, !.byHand = {n \in @ : n \notin ns},
            !.since = [n \in Timed |-> IF n \in ns THEN Earliest ELSE @[n]]]

\* Node.requeue
Reset(f, ns) ==
  [f EXCEPT !.waiting = @ \cup ns, !.byHand = {n \in @ : n \notin ns},
            !.free = {x \in @ : x[1] \notin ns},
            !.since = [n \in Timed |-> IF n \in ns THEN Earliest ELSE @[n]]]

-----------------------------------------------------------------------------
(* The server *)

CalendarInit ==
  /\ clock = 0 /\ passTime = -1 /\ serving = TRUE /\ paused = FALSE
  /\ flow = NewFlow /\ savedFlow = NewFlow

Tick ==
  /\ clock < MaxClock
  /\ clock' = clock + 1
  /\ UNCHANGED <<passTime, serving, paused, flow, savedFlow>>

\* Scheduler.main_loop reads the clock at the head of the pass.
StartPass ==
  /\ serving /\ passTime = -1
  /\ passTime' = clock
  /\ UNCHANGED <<clock, serving, paused, flow, savedFlow>>

\* _flow_work: the calendar first, then the dependencies; the other flows of
\* the pass come before or after.  Other conditions of a task may hold it back.
VisitFlow(held) ==
  /\ serving /\ passTime >= 0
  /\ ~paused /\ flow.begun
  /\ LET f == UpdateCalendar(flow, passTime)
     IN  flow' = [f EXCEPT !.waiting = {n \in @ : n \in held \/ ~TimeResolved(f, n)}]
  /\ UNCHANGED <<clock, passTime, serving, paused, savedFlow>>

EndPass ==
  /\ passTime >= 0
  /\ passTime' = -1
  /\ UNCHANGED <<clock, serving, paused, flow, savedFlow>>

\* Flow.begin, also with force
BeginFlow ==
  /\ serving
  /\ flow' = [BeginCalendar(Reset(flow, Timed)) EXCEPT !.begun = TRUE]
  /\ UNCHANGED <<clock, passTime, serving, paused, savedFlow>>

\* Scheduler.run_command_requeue: the calendar is left alone.
RequeueTask(n) ==
  /\ serving /\ flow.begun
  /\ flow' = Reset(flow, {n})
  /\ UNCHANGED <<clock, passTime, serving, paused, savedFlow>>

\* Scheduler.run_command_free_dep
FreeTime(n) ==
  /\ serving /\ flow.begun
  /\ flow' = [flow EXCEPT !.free = @ \cup {x \in Times : x[1] = n}, !.byHand = @ \cup {n}]
  /\ UNCHANGED <<clock, passTime, serving, paused, savedFlow>>

Pause ==
  /\ serving
  /\ paused' = ~paused
  /\ UNCHANGED <<clock, passTime, serving, flow, savedFlow>>

\* _capture_calendar and the free flags, in a checkpoint
SaveFlow ==
  /\ serving
  /\ savedFlow' = flow
  /\ UNCHANGED <<clock, passTime, serving, paused, flow>>

Down ==
  /\ serving
  /\ serving' = FALSE /\ passTime' = -1
  /\ UNCHANGED <<clock, paused, flow, savedFlow>>

\* _restore_calendar; a restored service is halted.
Up ==
  /\ ~serving
  /\ serving' = TRUE /\ paused' = TRUE
  /\ flow' = savedFlow
  /\ UNCHANGED <<clock, passTime, savedFlow>>

CalendarNext ==
  \/ Tick
  \/ StartPass
  \/ \E held \in SUBSET Timed : VisitFlow(held)
  \/ EndPass
  \/ BeginFlow
  \/ \E n \in Timed : RequeueTask(n)
  \/ \E n \in Timed : FreeTime(n)
  \/ Pause
  \/ SaveFlow
  \/ Down
  \/ Up

CalendarSpec == CalendarInit /\ [][CalendarNext]_calendarVars

-----------------------------------------------------------------------------
(* Properties *)

\* The logical clock does not drift: whatever passes were late, skipped by a
\* halt or lost in a crash, the flow's time is the time of its last update.
NoDrift == flow.begun => flow.flowTime = flow.lastReal /\ flow.lastReal <= clock

\* A task that a pass releases was freed by hand, or one of its minutes has
\* come between its last reset and now; a pass that was under way at the reset
\* still shows the minute it began in (Scheduler.main_loop reads it once).
DueRelease ==
  \A n \in flow.waiting \ flow'.waiting :
    serving /\ serving' =>
      \/ n \in flow.byHand
      \/ TimesOf[n] = {}
      \/ \E m \in flow.since[n] .. clock : m % Day \in TimesOf[n]
ReleaseIsDue == [][DueRelease]_calendarVars

\* Once the logical time has come to a time of a task, that time dependency is
\* satisfied: an update that moves the clock over the minute frees it.
\* It does not hold: README, "Also observed".
NoMinuteIsMissed ==
  [][(\E held \in SUBSET Timed : VisitFlow(held)) =>
       \A n \in flow'.waiting : \A m \in flow.flowTime + 1 .. flow'.flowTime :
         m % Day \in TimesOf[n] => <<n, m % Day>> \in flow'.free]_calendarVars
=============================================================================
