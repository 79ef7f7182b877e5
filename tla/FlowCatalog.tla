---------------------------- MODULE FlowCatalog ----------------------------
(***************************************************************************)
(* The flows of the running service as objects: definitions are loaded     *)
(* (server/scheduler.py) and replaced (server/flow_replace.py) while tasks *)
(* run, and the whole tree is captured into a checkpoint document and      *)
(* built again from it after a restart (serialization/checkpoint.py).      *)
(*                                                                         *)
(* A trigger or an in-limit may name another flow.  The name is resolved   *)
(* once, when the definition is built, and the object found is kept in the *)
(* expression (AstNodePath._reference_node) or the in-limit                *)
(* (InLimit.limit).  The code that replaces a flow must therefore bind     *)
(* again whatever held an object of the old one.                           *)
(*                                                                         *)
(* A flow object is its number in the sequence object; what a restart or a *)
(* replacement leaves behind stays there, out of Bunch.flows.  Identities  *)
(* of runs are module TaskLifecycle's subject, the file is Checkpoint's.   *)
(***************************************************************************)
EXTENDS Integers, Sequences, FiniteSets, FiniteSetsExt, Functions, TLC

CONSTANTS
  Definition,   \* the flow documents that clients send
  Reported,     \* the meter values that jobs report
  MaxObjects,   \* bound: flow objects ever built
  MaxTokens     \* the largest token count of an in-limit

\* A document: its name, its tasks and the events they set, the capacity of
\* its Limits, its meter's range, its repeat (start, end, step) and the
\* references its tasks make.
Reference ==
  [task : STRING, kind : {"limit", "node", "event"}, flow : STRING,
   item : STRING, tokens : 0..MaxTokens]

VARIABLES
  object,    \* the flow objects built so far
  flows      \* Bunch.flows: name |-> the object the name stands for

catalogVars == <<object, flows>>

InFlightStatus == {"submitted", "active"}
Live == DOMAIN flows
Of(n) == object[flows[n]]
Path(n, t) == <<n, t>>

-----------------------------------------------------------------------------
(* Building a definition: schema/definition.py and builder.py *)

\* parse_definition: the models' own conditions.  Of the in-limits of a task
\* only the nearest on each Limit counts (module TaskLifecycle), so a document
\* has one.
WellFormed(d) ==
  /\ d.refs \subseteq Reference
  /\ d.meter[1] <= d.meter[2]
  /\ d.repeat[1] <= d.repeat[2] /\ d.repeat[3] > 0
  /\ \A r \in d.refs : r.task \in d.tasks /\ (r.kind = "limit" => r.tokens > 0)
  /\ \A r, s \in d.refs :
       r.kind = "limit" /\ s.kind = "limit" /\ r.task = s.task /\ r.flow = s.flow
         /\ r.item = s.item => r = s

\* validate_references and bind_expressions: what r names exists in document d
Offers(d, r) ==
  CASE r.kind = "limit" -> r.item \in DOMAIN d.capacity /\ r.tokens <= d.capacity[r.item]
    [] r.kind = "node" -> r.item \in d.tasks
    [] r.kind = "event" -> r.item \in d.events

\* A name of the candidate's own flow is never looked up in the running tree.
Resolves(d, r) ==
  IF r.flow = d.name THEN Offers(d, r)
  ELSE r.flow \in Live /\ Offers(Of(r.flow).doc, r)

\* build_definition
Builds(d) == WellFormed(d) /\ \A r \in d.refs : Resolves(d, r)

\* _construct; the object will have number i, begun tells Flow.begin has run.
Construct(d, i, begun, bind) ==
  [doc |-> d, begun |-> begun, suspended |-> FALSE,
   status |-> [t \in d.tasks |-> IF begun THEN "queued" ELSE "unknown"],
   set |-> {}, meter |-> d.meter[1], repeat |-> d.repeat[1],
   held |-> [l \in DOMAIN d.capacity |-> {}],
   value |-> [l \in DOMAIN d.capacity |-> 0],
   bound |-> [r \in d.refs |-> IF r.flow = d.name THEN i ELSE bind[r.flow]]]

\* Bunch.add_flow
AddFlow(n, i) == flows' = (n :> i) @@ flows

\* Scheduler.run_command_load
Load(d) ==
  /\ Len(object) < MaxObjects
  /\ Builds(d)
  /\ d.name \notin Live
  /\ object' = Append(object, Construct(d, Len(object) + 1, FALSE, flows))
  /\ AddFlow(d.name, Len(object) + 1)

-----------------------------------------------------------------------------
(* Replacing a flow: flow_replace.py *)

\* _target: the path of the command names a flow of the tree.
Target(d) == d.name \in Live

\* Mutant: only the flow's own nodes are looked at.
CheckIdleInside(n) == \A t \in Of(n).doc.tasks : Of(n).status[t] \notin InFlightStatus

\* _check_idle: nothing of n runs, nobody holds its Limits, it holds nobody's.
CheckIdle(n) ==
  /\ \A t \in Of(n).doc.tasks : Of(n).status[t] \notin InFlightStatus
  /\ \A l \in DOMAIN Of(n).held : Of(n).held[l] = {} /\ Of(n).value[l] = 0
  /\ \A m \in Live : \A l \in DOMAIN Of(m).held : \A p \in Of(m).held[l] : p[1] # n

\* The references of the other live flows that lead into n
Affected(n) ==
  UNION {{<<m, r>> : r \in {x \in Of(m).doc.refs : x.flow = n}} : m \in Live \ {n}}

\* Mutant: only the expressions are bound again.
RebindExpressions(n, i) ==
  [j \in DOMAIN object |->
     [object[j] EXCEPT !.bound = [r \in DOMAIN @ |->
        IF r.kind # "limit" /\ \E m \in Live : flows[m] = j /\ <<m, r>> \in Affected(n)
        THEN i ELSE @[r]]]]

\* _reference_updates: the expressions and in-limits outside n are bound to
\* object i, which takes its place.
ReferenceUpdates(n, i) ==
  [j \in DOMAIN object |->
     [object[j] EXCEPT !.bound = [r \in DOMAIN @ |->
        IF \E m \in Live : flows[m] = j /\ <<m, r>> \in Affected(n) THEN i ELSE @[r]]]]

\* replace_flow: the candidate is built and begun away from the tree, and
\* takes over nothing of the old flow but its suspension.
Replace(d) ==
  /\ Len(object) < MaxObjects
  /\ Target(d)
  /\ Builds(d)
  /\ \A x \in Affected(d.name) : Offers(d, x[2])
  /\ CheckIdle(d.name)
  /\ LET i == Len(object) + 1
         new == [Construct(d, i, TRUE, flows) EXCEPT !.suspended = Of(d.name).suspended]
     IN  /\ object' = Append(ReferenceUpdates(d.name, i), new)
         /\ flows' = [flows EXCEPT ![d.name] = i]

-----------------------------------------------------------------------------
(* The tasks of the live flows *)

Needs(o, t) == {r \in o.doc.refs : r.task = t /\ r.kind = "limit"}
Watches(o, t) == {r \in o.doc.refs : r.task = t /\ r.kind # "limit"}

\* Expression.evaluate, a conjunction of `path == complete` and `path:event`
Holds(o, r) ==
  LET target == object[o.bound[r]]
  IN  IF r.kind = "node" THEN target.status[r.item] = "complete" ELSE r.item \in target.set

\* Node.check_in_limit_up
HasRoom(o, r) ==
  LET target == object[o.bound[r]]
  IN  target.value[r.item] + r.tokens <= target.doc.capacity[r.item]

\* Limit.increment and Limit.decrement of what the tasks ts of flow n refer to
Counted(objects, n, ts, sign) ==
  LET o == objects[flows[n]]
      On(j, l) == {r \in o.doc.refs : /\ r.kind = "limit" /\ r.task \in ts
                                      /\ o.bound[r] = j /\ r.item = l
                                      /\ (Path(n, r.task) \in objects[j].held[l]) = (sign = -1)}
      Sum(S) == FoldSet(LAMBDA r, s : r.tokens + s, 0, S)
  IN  [j \in DOMAIN objects |->
         [objects[j] EXCEPT
            !.held = [l \in DOMAIN @ |->
               LET paths == {Path(n, r.task) : r \in On(j, l)}
               IN  IF sign = 1 THEN @[l] \cup paths ELSE @[l] \ paths],
            !.value = [l \in DOMAIN @ |-> @[l] + sign * Sum(On(j, l))]]]

WithStatus(n, ts, s) ==
  [object EXCEPT ![flows[n]].status = [t \in DOMAIN @ |-> IF t \in ts THEN s ELSE @[t]]]

\* The scan runs a queued task whose dependencies hold: Task.resolve_dependencies
Submit(n, t) ==
  /\ Of(n).begun /\ ~Of(n).suspended
  /\ Of(n).status[t] = "queued"
  /\ \A r \in Watches(Of(n), t) : Holds(Of(n), r)
  /\ \A r \in Needs(Of(n), t) : HasRoom(Of(n), r)
  /\ object' = Counted(WithStatus(n, {t}, "submitted"), n, {t}, 1)
  /\ UNCHANGED flows

Started(n, t) ==
  /\ Of(n).status[t] = "submitted"
  /\ object' = WithStatus(n, {t}, "active")
  /\ UNCHANGED flows

\* RepeatDate.increment advances when the next value is still in the range.
Advances(o) == o.repeat + o.doc.repeat[3] <= o.doc.repeat[2]

\* Node.requeue of a whole flow: statuses, events and the meter start again.
Requeued(objects, n, resetRepeat) ==
  LET i == flows[n]
      free == Counted(objects, n, {t \in DOMAIN objects[i].status : objects[i].status[t] \in InFlightStatus}, -1)
  IN  [free EXCEPT ![i].status = [t \in DOMAIN @ |-> "queued"],
                   ![i].set = {}, ![i].meter = objects[i].doc.meter[1],
                   ![i].repeat = IF resetRepeat THEN objects[i].doc.repeat[1] ELSE @]

\* A final report of the job: the Limits are released, and a flow that has
\* completed advances its repeat (Node.swim_status_change).
Ended(n, t, s) ==
  /\ Of(n).status[t] \in InFlightStatus
  /\ LET done == Counted(WithStatus(n, {t}, s), n, {t}, -1)
         o == done[flows[n]]
         complete == \A u \in DOMAIN o.status : o.status[u] = "complete"
     IN  object' = IF complete /\ Advances(o)
                   THEN Requeued([done EXCEPT ![flows[n]].repeat = @ + o.doc.repeat[3]], n, FALSE)
                   ELSE done
  /\ UNCHANGED flows

\* Node.set_event, by the job or by the operator's force
SetEvent(n, e) ==
  /\ e \notin Of(n).set
  /\ object' = [object EXCEPT ![flows[n]].set = @ \cup {e}]
  /\ UNCHANGED flows

\* Meter.is_invalid: a value outside the range raises and changes nothing.
MeterIsValid(d, v) == d.meter[1] <= v /\ v <= d.meter[2]

SetMeter(n, v) ==
  /\ MeterIsValid(Of(n).doc, v)
  /\ object' = [object EXCEPT ![flows[n]].meter = v]
  /\ UNCHANGED flows

\* Scheduler.run_command_begin and run_command_requeue, on a flow
Begin(n) ==
  /\ ~Of(n).begun
  /\ object' = [Requeued(object, n, TRUE) EXCEPT ![flows[n]].begun = TRUE]
  /\ UNCHANGED flows

Requeue(n) ==
  /\ Of(n).begun
  /\ object' = Requeued(object, n, TRUE)
  /\ UNCHANGED flows

Suspend(n) ==
  /\ object' = [object EXCEPT ![flows[n]].suspended = ~@]
  /\ UNCHANGED flows

-----------------------------------------------------------------------------
(* Checkpoint documents *)

\* _capture_node: the values of a flow's nodes, and no object
CaptureNode(o) == Restrict(o, DOMAIN o \ {"bound"})

\* capture_checkpoint
Document == [n \in Live |-> CaptureNode(Of(n))]

\* RuntimeMeter, RuntimeLimit and RuntimeRepeat: values inside their ranges
FieldsValid(o) ==
  /\ o.doc.meter[1] <= o.meter /\ o.meter <= o.doc.meter[2]
  /\ o.doc.repeat[1] <= o.repeat /\ o.repeat <= o.doc.repeat[2]
  /\ (o.repeat - o.doc.repeat[1]) % o.doc.repeat[3] = 0
  /\ \A l \in DOMAIN o.held : 0 <= o.value[l] /\ o.value[l] <= o.doc.capacity[l]

\* The tasks in flight that a document's own references put on Limit l of n
Holders(doc, n, l) ==
  UNION {{[from |-> m, task |-> r.task, tokens |-> r.tokens] :
            r \in {x \in doc[m].doc.refs : /\ x.kind = "limit" /\ x.flow = n /\ x.item = l
                                           /\ doc[m].status[x.task] \in InFlightStatus}} :
         m \in DOMAIN doc}

\* validate_occupancy
OccupancyValid(doc, n) ==
  \A l \in DOMAIN doc[n].held :
    /\ doc[n].held[l] = {Path(r.from, r.task) : r \in Holders(doc, n, l)}
    /\ doc[n].value[l] = FoldSet(LAMBDA r, s : r.tokens + s, 0, Holders(doc, n, l))

\* _validate_checkpoint_nodes, run when a document is captured and again when
\* it is restored
Valid(doc) ==
  \A n \in DOMAIN doc :
    /\ WellFormed(doc[n].doc)
    /\ \A r \in doc[n].doc.refs : r.flow \in DOMAIN doc /\ Offers(doc[r.flow].doc, r)
    /\ FieldsValid(doc[n])
    /\ OccupancyValid(doc, n)

\* _apply_node on a newly built flow whose references lead to the new objects
ApplyNode(saved, order) ==
  saved @@ ("bound" :> [r \in saved.doc.refs |-> order[r.flow]])

\* The server is stopped and started again: the tree is captured,
\* restore_checkpoint builds every flow anew and binds every reference to the
\* new objects; the memory of the old process is gone.  A crash later than the
\* capture restores the same document, so the two are one step here.
Restart ==
  /\ Live # {} /\ Valid(Document)
  /\ \E order \in Bijection(Live, 1..Cardinality(Live)) :
       /\ flows' = order
       /\ object' = [k \in 1..Cardinality(Live) |->
                       ApplyNode(Document[CHOOSE m \in Live : order[m] = k], order)]

-----------------------------------------------------------------------------
CatalogInit == object = <<>> /\ flows = <<>>

CatalogNext ==
  \/ \E d \in Definition : Load(d)
  \/ \E d \in Definition : Replace(d)
  \/ \E n \in Live : \E t \in Of(n).doc.tasks : Submit(n, t)
  \/ \E n \in Live : \E t \in Of(n).doc.tasks : Started(n, t)
  \/ \E n \in Live : \E t \in Of(n).doc.tasks, s \in {"complete", "aborted"} : Ended(n, t, s)
  \/ \E n \in Live : \E e \in Of(n).doc.events : SetEvent(n, e)
  \/ \E n \in Live, v \in Reported : SetMeter(n, v)
  \/ \E n \in Live : Begin(n)
  \/ \E n \in Live : Requeue(n)
  \/ \E n \in Live : Suspend(n)
  \/ Restart

CatalogSpec == CatalogInit /\ [][CatalogNext]_catalogVars

-----------------------------------------------------------------------------
(* Properties *)

\* Whatever was loaded, replaced, run, requeued or restored, the tree can be
\* captured: every reference leads to something that exists, and each Limit
\* holds exactly the tasks in flight that refer to it.  Otherwise the service
\* halts at its next checkpoint (capture_checkpoint) or refuses to start.
AlwaysCapturable == Valid(Document)

\* A reference of a live flow leads to an object that the tree still shows
\* under the name written in the definition: no trigger watches, and no
\* in-limit counts in, a flow that was replaced (_reference_updates).
ReferencesAreLive ==
  \A n \in Live : \A r \in Of(n).doc.refs : r.flow \in Live /\ Of(n).bound[r] = flows[r.flow]
=============================================================================
