----------------------------- MODULE NodeState -----------------------------
(***************************************************************************)
(* One node (the root bunch, a flow or a task) with its attributes, the    *)
(* operations that change them, and the codecs that write a node down and  *)
(* read it back: Node.to_dict with fill_from_dict, export_runtime with     *)
(* restore_runtime, and the root's share of a checkpoint.  A batch command *)
(* compares two to_dict values to say whether a failed target had an       *)
(* effect.  Names, expressions and identities are strings, "" is None, a   *)
(* date is its day number, a calendar the number of its updates.           *)
(***************************************************************************)
EXTENDS Integers, FiniteSets, TLC

CONSTANTS Loaded,     \* the nodes under study, as a definition builds them
          Holders,    \* paths of tasks below a node with a limit
          MaxTry, MaxClock

NodeStateAssumption ==
  /\ MaxTry \in Nat /\ MaxClock \in Nat /\ IsFiniteSet(Loaded)
  /\ \A n \in Loaded : n.kind \in {"bunch", "flow", "task"}

VARIABLES node, loaded

nodeVars == <<node, loaded>>

Running == {"submitted", "active"}
When(condition, names) == IF condition THEN names ELSE {}
Only(record, names) == [k \in names |-> record[k]]
Get(d, key, default) == IF key \in DOMAIN d THEN d[key] ELSE default

\* ServerState.from_causes: the gravest cause gives the reason.
Reason(causes) ==
  CASE "checkpoint_failure" \in causes -> "checkpoint failure"
    [] "recovery" \in causes -> "recovery pending"
    [] "manual" \in causes -> "manual pause"
    [] OTHER -> ""
FromCauses(causes) ==
  [status |-> IF causes = {} THEN "running" ELSE "halted",
   reason |-> Reason(causes), causes |-> causes]

TaskFields == {"task_id", "aborted_reason", "try_no"}
OptionalTaskFields ==
  {"definition_generation", "attempt_id", "submitted_at", "started_at", "ended_at"}

-----------------------------------------------------------------------------
(* Writing a node down *)

\* Node.to_dict: an attribute a node does not have leaves no key.
NodeToDict(n) ==
  LET all == [state |-> n.state, type_id |-> n.kind, default_node_status |-> n.default,
              trigger |-> n.trigger.text, trigger_free |-> TRUE,
              complete_trigger |-> n.complete.text, complete_trigger_free |-> TRUE,
              is_complete_triggered |-> TRUE, events |-> n.events, meters |-> n.meters,
              limits |-> n.limits, repeat |-> n.repeat, times |-> n.times]
  IN  Only(all, {"state", "type_id"}
        \cup When(n.default # "queued", {"default_node_status"})
        \cup When(n.trigger.text # "", {"trigger"} \cup When(n.trigger.free, {"trigger_free"}))
        \cup When(n.complete.text # "",
                  {"complete_trigger"} \cup When(n.complete.free, {"complete_trigger_free"}))
        \cup When(n.triggered, {"is_complete_triggered"})
        \cup {k \in {"events", "meters", "limits", "times"} : DOMAIN all[k] # {}}
        \cup When(n.repeat # {}, {"repeat"}))

FlowToDict(n) ==
  [begun |-> n.begun, calendar |-> n.calendar]
    @@ Only(n.task, When(n.task.definition_generation # "", {"definition_generation"}))

\* Mutant: the dictionary says that the outcome is unknown in no way.
TaskToDictSilent(n) ==
  Only(n.task, TaskFields \cup {k \in OptionalTaskFields : n.task[k] # ""})

\* Task.to_dict: None leaves no key, but for the first three fields.
TaskToDict(n) ==
  Only(n.task, TaskFields
    \cup {k \in OptionalTaskFields \cup {"submission_unknown_reason"} : n.task[k] # ""})

ToDict(n) ==
  NodeToDict(n) @@ (CASE n.kind = "flow" -> FlowToDict(n)
                      [] n.kind = "task" -> TaskToDict(n)
                      [] OTHER -> [server_state |-> n.halt])

\* export_runtime: the flags are always written, a task's fields too, but
\* never the reason of an unknown submission.
ExportRuntime(n) ==
  [trigger_free |-> n.trigger.text # "" /\ n.trigger.free,
   complete_trigger_free |-> n.complete.text # "" /\ n.complete.free,
   is_complete_triggered |-> n.triggered]
    @@ (CASE n.kind = "flow" ->
               [begun |-> n.begun, calendar |-> n.calendar]
                 @@ Only(n.task, {"definition_generation"})
          [] n.kind = "task" -> Only(n.task, TaskFields \cup OptionalTaskFields)
          [] OTHER -> [server_state |-> n.halt])
    @@ NodeToDict(n)

\* _capture_node of the root: values by name
CaptureRoot(n) ==
  [state |-> n.state, is_complete_triggered |-> n.triggered,
   trigger_free |-> n.trigger.text # "" /\ n.trigger.free,
   complete_trigger_free |-> n.complete.text # "" /\ n.complete.free,
   event_values |-> [e \in DOMAIN n.events |-> n.events[e].value],
   meter_values |-> [m \in DOMAIN n.meters |-> n.meters[m].value],
   limit_usage |-> [l \in DOMAIN n.limits |->
                      [value |-> n.limits[l].value, paths |-> n.limits[l].paths]],
   repeat_value |-> {r.value : r \in n.repeat}, time_free |-> n.times]

\* _root_attributes: what a definition document cannot say of the root
RootAttributes(n) ==
  [default |-> n.default, trigger |-> n.trigger.text, complete |-> n.complete.text,
   events |-> [e \in DOMAIN n.events |-> n.events[e].initial],
   meters |-> [m \in DOMAIN n.meters |-> [min |-> n.meters[m].min, max |-> n.meters[m].max]],
   limits |-> [l \in DOMAIN n.limits |-> n.limits[l].limit],
   repeat |-> {[start |-> r.start, end |-> r.end, step |-> r.step] : r \in n.repeat},
   times |-> DOMAIN n.times]

-----------------------------------------------------------------------------
(* Reading a node back; method is a SerializationType *)

EventFromDict(d, method) ==
  [d EXCEPT !.value = IF method = "Status" THEN d.value ELSE d.initial]
MeterFromDict(d, method) ==
  [d EXCEPT !.value = IF method = "Status" THEN d.value ELSE d.min]
LimitFromDict(d, method) ==
  IF method = "Status" THEN d ELSE [d EXCEPT !.value = 0, !.paths = {}]
RepeatFromDict(d, method) ==
  [d EXCEPT !.value = IF method = "Status" THEN d.value ELSE d.start]
TimeFromDict(free, method) == method = "Status" /\ free

NoTask ==
  [k \in TaskFields \cup OptionalTaskFields \cup {"submission_unknown_reason", "job_password"}
     |-> IF k = "try_no" THEN 0 ELSE ""]

\* Node.__init__ of each class
NewNode(kind) ==
  [kind |-> kind, state |-> [status |-> "unknown", suspended |-> FALSE],
   default |-> "queued", trigger |-> [text |-> "", free |-> FALSE],
   complete |-> [text |-> "", free |-> FALSE], triggered |-> FALSE,
   events |-> <<>>, meters |-> <<>>, limits |-> <<>>, repeat |-> {}, times |-> <<>>,
   begun |-> FALSE, calendar |-> 0, task |-> NoTask, halt |-> FromCauses({})]

Each(f, Read(_, _), method) == [k \in DOMAIN f |-> Read(f[k], method)]

\* Node.fill_from_dict: what belongs to a run is read for "Status" only.
FillFromDict(d, blank, method) ==
  LET free(key) == method = "Status" /\ Get(d, key, FALSE)
  IN  [blank EXCEPT
         !.state = IF method = "Status" THEN d.state ELSE @,
         !.default = Get(d, "default_node_status", "queued"),
         !.trigger = [text |-> Get(d, "trigger", ""), free |-> free("trigger_free")],
         !.complete = [text |-> Get(d, "complete_trigger", ""),
                       free |-> free("complete_trigger_free")],
         !.triggered = free("is_complete_triggered"),
         !.events = Each(Get(d, "events", <<>>), EventFromDict, method),
         !.meters = Each(Get(d, "meters", <<>>), MeterFromDict, method),
         !.limits = Each(Get(d, "limits", <<>>), LimitFromDict, method),
         !.repeat = {RepeatFromDict(r, method) : r \in Get(d, "repeat", {})},
         !.times = Each(Get(d, "times", <<>>), TimeFromDict, method)]

FlowFillFromDict(d, n, method) ==
  IF method # "Status" THEN n
  ELSE [n EXCEPT !.begun = Get(d, "begun", FALSE), !.calendar = Get(d, "calendar", 0),
                 !.task.definition_generation = Get(d, "definition_generation", "")]

TaskFillFromDict(d, n, method) ==
  IF method # "Status" THEN n
  ELSE [n EXCEPT !.task = [k \in DOMAIN @ |->
          IF k \in TaskFields THEN d[k] ELSE Get(d, k, "")]]

\* restore_node
RestoreNode(d, method) ==
  LET n == FillFromDict(d, NewNode(d.type_id), method)
  IN  CASE d.type_id = "flow" -> FlowFillFromDict(d, n, method)
        [] d.type_id = "task" -> TaskFillFromDict(d, n, method)
        [] OTHER -> [n EXCEPT !.halt = d.server_state]

MeterValid(m) == m.min <= m.value /\ m.value <= m.max
LimitValid(l) == l.value <= l.limit
RepeatValid(r) ==
  r.start <= r.value /\ r.value <= r.end /\ (r.value - r.start) % r.step = 0

\* ServerState.consistent
ServerStateValid(h) ==
  IF h.status = "running" THEN h.causes = {} /\ h.reason = "" ELSE h.reason = Reason(h.causes)

\* RuntimeNode and its field models
RuntimeValid(d) ==
  /\ d.trigger_free => "trigger" \in DOMAIN d
  /\ d.complete_trigger_free => "complete_trigger" \in DOMAIN d
  /\ \A m \in DOMAIN Get(d, "meters", <<>>) : MeterValid(d.meters[m])
  /\ \A l \in DOMAIN Get(d, "limits", <<>>) : LimitValid(d.limits[l])
  /\ \A r \in Get(d, "repeat", {}) : RepeatValid(r)
  /\ d.type_id = "bunch" => ServerStateValid(d.server_state)
  /\ d.type_id \in {"flow", "task"} => d.definition_generation # ""
  /\ d.type_id = "task" => /\ d.try_no = 0 => d.attempt_id = ""
                           /\ d.state.status \in Running => d.attempt_id # ""

\* restore_runtime: a refused document leaves nothing.
RestoreRuntime(d) ==
  IF RuntimeValid(d) THEN RestoreNode(d, "Status") ELSE NewNode("refused")

\* _apply_root with Bunch.restore_root_attributes: the saved parts are put
\* together into one dictionary, and read as one.
ApplyRoot(attributes, runtime) ==
  LET data ==
        [state |-> runtime.state, type_id |-> "bunch",
         default_node_status |-> attributes.default,
         trigger_free |-> runtime.trigger_free,
         complete_trigger_free |-> runtime.complete_trigger_free,
         is_complete_triggered |-> runtime.is_complete_triggered,
         events |-> [e \in DOMAIN attributes.events |->
                       [initial |-> attributes.events[e], value |-> runtime.event_values[e]]],
         meters |-> [m \in DOMAIN attributes.meters |->
                       attributes.meters[m] @@ [value |-> runtime.meter_values[m]]],
         limits |-> [l \in DOMAIN attributes.limits |->
                       [limit |-> attributes.limits[l]] @@ runtime.limit_usage[l]],
         times |-> [t \in attributes.times |-> runtime.time_free[t]]]
        @@ Only([trigger |-> attributes.trigger], When(attributes.trigger # "", {"trigger"}))
        @@ Only([complete_trigger |-> attributes.complete],
                When(attributes.complete # "", {"complete_trigger"}))
        @@ Only([repeat |-> {[start |-> r.start, end |-> r.end, step |-> r.step, value |-> v] :
                               r \in attributes.repeat, v \in runtime.repeat_value}],
                When(attributes.repeat # {}, {"repeat"}))
  IN  IF /\ \A m \in DOMAIN data.meters : MeterValid(data.meters[m])
         /\ \A l \in DOMAIN data.limits : LimitValid(data.limits[l])
         /\ \A r \in Get(data, "repeat", {}) : RepeatValid(r)
      THEN FillFromDict(data, NewNode("bunch"), "Status")
      ELSE NewNode("refused")

-----------------------------------------------------------------------------
(* What changes a node *)

NodeStateInit == loaded \in Loaded /\ node = loaded

Set(n) == node' = n /\ UNCHANGED loaded

\* Node.set_event
SetEvent(e, v) == e \in DOMAIN node.events /\ Set([node EXCEPT !.events[e].value = v])

\* Mutant: the bounds of a meter are not looked at.
SetMeterUnbounded(m, v) == m \in DOMAIN node.meters /\ Set([node EXCEPT !.meters[m].value = v])

\* Node.set_meter: the setter refuses a value out of bounds.
SetMeter(m, v) ==
  /\ m \in DOMAIN node.meters
  /\ node.meters[m].min <= v /\ v <= node.meters[m].max
  /\ Set([node EXCEPT !.meters[m].value = v])

\* Repeat.change: a value between the ends, a whole number of steps away
ChangeRepeat(v) ==
  \E r \in node.repeat :
    /\ r.start <= v /\ v <= r.end /\ (v - r.start) % r.step = 0
    /\ Set([node EXCEPT !.repeat = {[r EXCEPT !.value = v]}])

\* Repeat.increment: the last step stays at the last value.
IncrementRepeat ==
  \E r \in node.repeat :
    /\ r.value + r.step <= r.end
    /\ Set([node EXCEPT !.repeat = {[r EXCEPT !.value = @ + r.step]}])

\* Node.suspend, Node.resume
Suspend(v) == Set([node EXCEPT !.state.suspended = v])

\* Node.free_dependencies
FreeDependencies(kind) ==
  Set([node EXCEPT
         !.times = IF kind \in {"all", "time"} THEN [t \in DOMAIN @ |-> TRUE] ELSE @,
         !.trigger.free = (@ \/ kind \in {"all", "trigger"}) /\ node.trigger.text # ""])

\* Node.calendar_changed, and Flow.update_calendar of the flow's own
CalendarChanged(due) ==
  /\ node.kind # "bunch" /\ node.calendar < MaxClock
  /\ Set([node EXCEPT !.times = [t \in DOMAIN @ |-> @[t] \/ t \in due],
                      !.calendar = IF node.kind = "flow" THEN @ + 1 ELSE @])

\* The complete trigger holds, in Node.check_dependencies.
CompleteTriggered ==
  /\ node.kind # "bunch" /\ node.complete.text # "" /\ ~node.state.suspended
  /\ node.kind = "task" => node.state.status \in {"queued", "aborted"}
  /\ Set([node EXCEPT !.triggered = TRUE, !.state.status = "complete"])

\* Limit.increment and Limit.decrement, of one token
Occupy(l, path) ==
  /\ l \in DOMAIN node.limits
  /\ path \notin node.limits[l].paths /\ node.limits[l].value < node.limits[l].limit
  /\ Set([node EXCEPT !.limits[l].value = @ + 1, !.limits[l].paths = @ \cup {path}])
Release(l, path) ==
  /\ l \in DOMAIN node.limits /\ path \in node.limits[l].paths
  /\ Set([node EXCEPT !.limits[l].value = @ - 1, !.limits[l].paths = @ \ {path}])

\* Node.requeue
Requeued(n) ==
  [n EXCEPT !.state.status = n.default, !.triggered = FALSE, !.trigger.free = FALSE,
            !.times = [t \in DOMAIN @ |-> FALSE],
            !.events = [e \in DOMAIN @ |-> [n.events[e] EXCEPT !.value = n.events[e].initial]],
            !.meters = [m \in DOMAIN @ |-> [n.meters[m] EXCEPT !.value = n.meters[m].min]],
            !.repeat = {[r EXCEPT !.value = r.start] : r \in @}]

\* Task.requeue and Task.clear_current_attempt keep the generation only.
Requeue ==
  /\ node.task.submission_unknown_reason = ""
  /\ Set([Requeued(node) EXCEPT !.task =
            [NoTask EXCEPT !.definition_generation = node.task.definition_generation]])

\* Flow.begin
Begin ==
  /\ node.kind = "flow" /\ node.calendar < MaxClock
  /\ Set([Requeued(node) EXCEPT !.begun = TRUE, !.calendar = @ + 1])

\* Task.run: increment_try_no, and after_run
Run ==
  /\ node.kind = "task" /\ node.task.try_no < MaxTry
  /\ node.state.status \notin Running
  /\ Set([node EXCEPT !.state.status = "submitted",
            !.task = [NoTask EXCEPT !.try_no = node.task.try_no + 1,
                        !.definition_generation = node.task.definition_generation,
                        !.attempt_id = "attempt", !.job_password = "secret",
                        !.submitted_at = "now"]])

\* Task.mark_submission_unknown
MarkSubmissionUnknown ==
  /\ node.kind = "task" /\ node.state.status = "submitted" /\ node.task.attempt_id # ""
  /\ Set([node EXCEPT !.task.submission_unknown_reason = "lost"])

\* Task.init
InitTask ==
  /\ node.kind = "task" /\ node.state.status = "submitted"
  /\ Set([node EXCEPT !.state.status = "active", !.task.task_id = "1",
            !.task.started_at = "now", !.task.submission_unknown_reason = ""])

\* Task.complete, Task.abort
EndTask(status) ==
  /\ node.kind = "task" /\ node.state.status \in Running
  /\ Set([node EXCEPT !.state.status = status, !.task.ended_at = "now",
            !.task.aborted_reason = IF status = "aborted" THEN "trap" ELSE @,
            !.task.submission_unknown_reason = ""])

\* ServerState.from_causes for one cause more or less
HaltFor(causes) == node.kind = "bunch" /\ Set([node EXCEPT !.halt = FromCauses(causes)])

NodeStateNext ==
  \/ \E e \in DOMAIN node.events, v \in BOOLEAN : SetEvent(e, v)
  \/ \E m \in DOMAIN node.meters : \E v \in node.meters[m].min - 1 .. node.meters[m].max + 1 :
       SetMeter(m, v)
  \/ \E r \in node.repeat : \E v \in r.start .. r.end : ChangeRepeat(v)
  \/ IncrementRepeat
  \/ \E v \in BOOLEAN : Suspend(v)
  \/ \E kind \in {"all", "time", "trigger"} : FreeDependencies(kind)
  \/ \E due \in SUBSET DOMAIN node.times : CalendarChanged(due)
  \/ CompleteTriggered
  \/ \E l \in DOMAIN node.limits, path \in Holders : Occupy(l, path) \/ Release(l, path)
  \/ Requeue
  \/ Begin
  \/ Run
  \/ MarkSubmissionUnknown
  \/ InitTask
  \/ \E status \in {"complete", "aborted"} : EndTask(status)
  \/ \E causes \in SUBSET {"manual", "recovery", "checkpoint_failure"} : HaltFor(causes)

NodeStateSpec == NodeStateInit /\ [][NodeStateNext]_nodeVars

-----------------------------------------------------------------------------
(* Properties *)

\* In whatever state the operations leave a node, it can be written down and
\* read back by each codec, and what is read is what was written: only the
\* job password never leaves the process this way, and export_runtime drops
\* the reason of an unknown submission.  Read for its structure alone the
\* node is as it was loaded (test_bunch_restores_all_stored_root_attributes).
ReadIsWritten ==
  LET public == [node EXCEPT !.task.job_password = ""]
  IN  /\ RestoreNode(ToDict(node), "Status") = public
      /\ RestoreRuntime(ExportRuntime(node))
           = [public EXCEPT !.task.submission_unknown_reason = ""]
      /\ node.kind = "bunch" =>
           [ApplyRoot(RootAttributes(node), CaptureRoot(node)) EXCEPT !.halt = node.halt] = node
      /\ node.kind # "bunch" =>
           RestoreNode(ToDict(node), "Tree") = [loaded EXCEPT !.task = NoTask]

\* A batch tells a failed target without effect from one with effect by
\* comparing Bunch.to_dict before and after: no operation changes a node and
\* leaves its dictionary as it was (server/batch.py, _snapshot).
Told == node' # node => ToDict(node') # ToDict(node)
NoSilentChange == [][Told]_nodeVars
=============================================================================
