---------------------------- MODULE VersionStore ----------------------------
(***************************************************************************)
(* The live node tree, its change tracker and the store of fixed versions  *)
(* (serialization/version.py): every mutation marks what it touched, and   *)
(* the store brings its copy of the tree up to date from those marks       *)
(* before a reader pins it.                                                *)
(*                                                                         *)
(* A node is its object identity, its state (one value stands for all the  *)
(* fields of a row) and the ordered names of its children.                 *)
(***************************************************************************)
EXTENDS QueryLog, Functions, TLC

CONSTANTS
  FlowName, ChildName,
  Value,         \* node states
  Unfit,         \* the states no row can hold (a field that is too large)
  Shapes,        \* the child name sequences a new flow or container can have
  Mutations,     \* the kinds of mutation in the instance
  MaxPending,    \* MAX_PENDING_BYTES, in paths
  MaxRevision,   \* bound: revisions
  MaxId          \* bound: node objects

VARIABLES tree, log, store, depth, nextId

treeVars == <<tree, log, store, depth, nextId>>

Parent(p) == Front(p)
Row(id, v, children) == [id |-> id, value |-> v, children |-> children]
Paths(t, p) == {q \in DOMAIN t : Under(q, p)}

\* t with the subtree at p taken out, and with a new subtree at p in its place
Without(t, p) == Restrict(t, DOMAIN t \ Paths(t, p))
Planted(t, p, shape, v, id) ==
  LET new == {p} \cup {Append(p, n) : n \in ToSet(shape)}
  IN  [q \in (DOMAIN t \ Paths(t, p)) \cup new |->
         IF q = p THEN Row(id, v, shape)
         ELSE IF q \in new THEN Row(id + 1, v, <<>>)
         ELSE t[q]]

NoError == "none"
EmptyStore == [rows |-> <<>>, revision |-> 0, pending |-> <<>>, rebuild |-> FALSE, error |-> "not_ready"]

-----------------------------------------------------------------------------
(* The store *)

\* VersionStore.note
Note(s, path, invalidate) ==
  LET known == {i \in DOMAIN s.pending : s.pending[i].path = path}
  IN  IF s.rebuild THEN s
      ELSE IF known # {}
      THEN [s EXCEPT !.pending = [i \in DOMAIN @ |->
              IF i \in known THEN [@[i] EXCEPT !.invalidate = @ \/ invalidate] ELSE @[i]]]
      ELSE IF Len(s.pending) >= MaxPending
      THEN [s EXCEPT !.pending = <<>>, !.rebuild = TRUE]
      ELSE [s EXCEPT !.pending = Append(@, [path |-> path, invalidate |-> invalidate])]

\* VersionStore.ready
Ready(s) == s.revision > 0 /\ s.error = NoError

\* VersionStore._capture raises for a field that is too large.
Fits(rows) == \A p \in DOMAIN rows : rows[p].value \notin Unfit

\* VersionStore.rebuild
Rebuild(s, t, revision) ==
  IF Fits(t)
  THEN [rows |-> t, revision |-> revision, pending |-> <<>>, rebuild |-> FALSE, error |-> NoError]
  ELSE [s EXCEPT !.error = "field_too_large"]

Changes(x, rows, gone) ==
  [x EXCEPT !.updates = rows @@ @, !.removed = @ \cup gone, !.structural = @ \/ gone # {}]

ChildPaths(row, p) == {Append(p, n) : n \in ToSet(row.children)}
Subtrees(t, ps) == Restrict(t, {q \in DOMAIN t : \E p \in ps : Under(q, p)})

\* Mutant: the parent of a new or removed node keeps its row.
RefreshParentNot(t, p) == Restrict(t, {})

\* The row of the parent, captured again
RefreshParent(t, p) == Restrict(t, IF p = Root THEN {} ELSE {Parent(p)} \cap DOMAIN t)

\* One pending path in VersionStore._incremental: what is captured again and
\* which rows go.  A change of the child names does not look at the children
\* that stay.
Hint(old, t, x, hint) ==
  LET p == hint.path
  IN  IF p \notin DOMAIN t
      THEN IF p \in DOMAIN old THEN Changes(x, RefreshParent(t, p), Paths(old, p)) ELSE x
      ELSE IF p \notin DOMAIN old
      THEN [Changes(x, RefreshParent(t, p) @@ Subtrees(t, {p}), {}) EXCEPT !.structural = TRUE]
      ELSE IF t[p].id # old[p].id
      THEN Changes(x, Subtrees(t, {p}), Paths(old, p))
      ELSE IF t[p].children # old[p].children
      THEN LET added == ChildPaths(t[p], p) \ ChildPaths(old[p], p)
               gone  == ChildPaths(old[p], p) \ ChildPaths(t[p], p)
           IN  [Changes(x, Restrict(t, {p}) @@ Subtrees(t, added), DOMAIN Subtrees(old, gone))
                  EXCEPT !.structural = TRUE]
      ELSE IF hint.invalidate
      THEN LET replaced == {q \in ChildPaths(t[p], p) : t[q].id # old[q].id}
           IN  Changes(x, Restrict(t, {p}) @@ Subtrees(t, replaced), DOMAIN Subtrees(old, replaced))
      ELSE Changes(x, Restrict(t, {p}), {})

\* The walk over the kept rows finds all of them and nothing else.
WellFormed(rows) ==
  /\ Root \in DOMAIN rows
  /\ \A p \in DOMAIN rows : ChildPaths(rows[p], p) \subseteq DOMAIN rows
  /\ \A p \in DOMAIN rows \ {Root} :
       Parent(p) \in DOMAIN rows /\ p \in ChildPaths(rows[Parent(p)], Parent(p))

\* VersionStore._incremental with the outcome VersionStore.flush stores
Incremental(s, t, revision) ==
  LET x    == FoldLeft(LAMBDA y, hint : Hint(s.rows, t, y, hint),
                       [updates |-> Restrict(t, {}), removed |-> {}, structural |-> FALSE], s.pending)
      rows == x.updates @@ Restrict(s.rows, DOMAIN s.rows \ x.removed)
  IN  IF ~Fits(x.updates) THEN [s EXCEPT !.error = "field_too_large"]
      ELSE IF x.structural /\ ~WellFormed(rows) THEN [s EXCEPT !.error = "invalid_structure"]
      ELSE [s EXCEPT !.rows = rows, !.revision = revision, !.pending = <<>>, !.error = NoError]

\* VersionStore.flush outside a transaction
Flush(s, t, revision) ==
  IF (s.pending = <<>> /\ ~s.rebuild) \/ ~Ready(s) THEN s
  ELSE IF s.rebuild THEN Rebuild(s, t, revision)
  ELSE Incremental(s, t, revision)

-----------------------------------------------------------------------------
(* Mutations: the new tree and the changes it marks, in order *)

\* Mutant: a writer that marks nothing.
SetValueUnmarked(t, p, v) == [tree |-> [t EXCEPT ![p].value = v], marks |-> <<>>]

\* Node.set_node_status_only and the other writers of a node's state
SetValue(t, p, v) == [tree |-> [t EXCEPT ![p].value = v], marks |-> <<Change(p, {"summary"}, FALSE)>>]

\* A writer of something the summary does not show: a definition (a trigger,
\* a repeat) or the state of the service
Edit(t, p, group) == [tree |-> t, marks |-> <<Change(p, {group}, FALSE)>>]

\* Scheduler.run_command_load, Bunch.add_flow
Load(t, name, shape, v, id) ==
  LET p == <<name>>
  IN  [tree  |-> [Planted(t, p, shape, v, id) EXCEPT ![Root].children = Append(@, name)],
       marks |-> <<Change(p, {}, TRUE)>>]

\* Scheduler.run_command_replace
Replace(t, name, shape, v, id) ==
  [tree |-> Planted(t, <<name>>, shape, v, id), marks |-> <<Change(<<name>>, {}, TRUE)>>]

\* Node.add_child, Node.update_child and Node.delete_child
AddChild(t, p, name, v, id) ==
  [tree  |-> [Planted(t, Append(p, name), <<>>, v, id) EXCEPT ![p].children = Append(@, name)],
   marks |-> <<Change(p, {}, TRUE)>>]
UpdateChild(t, p, name, v, id) ==
  [tree |-> Planted(t, Append(p, name), <<>>, v, id), marks |-> <<Change(p, {}, TRUE)>>]
DeleteChild(t, p, name) ==
  [tree  |-> [Without(t, Append(p, name)) EXCEPT ![p].children = SelectSeq(@, LAMBDA n : n # name)],
   marks |-> (IF t[Append(p, name)].children = <<>> THEN <<>>
              ELSE <<Change(Append(p, name), {}, TRUE)>>) \o <<Change(p, {}, TRUE)>>]

\* The mutations of a kind that tree t allows; id names the new objects.
Possible(t, id, kind) ==
  LET flows    == {p \in DOMAIN t : Len(p) = 1}
      children == {x \in flows \X ChildName : Append(x[1], x[2]) \in DOMAIN t}
  IN  CASE kind = "set" ->
             {SetValue(t, p, v) : p \in DOMAIN t, v \in Value}
        [] kind = "edit" ->
             {Edit(t, p, "definition") : p \in DOMAIN t \ {Root}}
        [] kind = "service" ->
             {Edit(t, Root, "service")}
        [] kind = "load" ->
             {Load(t, n, shape, v, id) :
                n \in {n \in FlowName : <<n>> \notin flows}, shape \in Shapes, v \in Value}
        [] kind = "replace" ->
             {Replace(t, n, shape, v, id) :
                n \in {n \in FlowName : <<n>> \in flows}, shape \in Shapes, v \in Value}
        [] kind = "add" ->
             {AddChild(t, x[1], x[2], v, id) : x \in (flows \X ChildName) \ children, v \in Value}
        [] kind = "update" ->
             {UpdateChild(t, x[1], x[2], v, id) : x \in children, v \in Value}
        [] kind = "delete" ->
             {DeleteChild(t, x[1], x[2]) : x \in children}

NewId(kind) == IF kind \in {"set", "edit", "service", "delete"} THEN nextId ELSE nextId + 2

-----------------------------------------------------------------------------
(* Steps *)

\* A server with no flow or with one, after Scheduler.__init__
Start == CHOOSE v \in Value : v \notin Unfit
Bare == Root :> Row(0, Start, <<>>)

TreeInit ==
  /\ tree \in {Bare} \cup {Load(Bare, n, shape, Start, 1).tree : n \in FlowName, shape \in Shapes}
  /\ log = EmptyLog
  /\ store = Rebuild(EmptyStore, tree, 1)
  /\ depth = 0 /\ nextId = 3

\* QueryChanges.mark for every change of a mutation: outside a transaction
\* each one commits by itself.
Marked(marks) ==
  /\ log' = FoldLeft(LAMBDA l, change : IF depth > 0 THEN Mark(l, change) ELSE Commit(Mark(l, change)), log, marks)
  /\ log'.revision <= MaxRevision
  /\ store' = FoldLeft(LAMBDA s, change : Note(s, change.path, change.invalidate), store, marks)

Mutate(kind) ==
  /\ \E m \in Possible(tree, nextId, kind) :
       /\ m.tree # tree
       /\ tree' = m.tree
       /\ Marked(m.marks)
  /\ nextId' = NewId(kind) /\ nextId' <= MaxId
  /\ UNCHANGED depth

\* QueryChanges.begin and end around a command or a slice of the scan; end
\* commits and the store is flushed.
BeginTransaction ==
  /\ depth = 0 /\ depth' = 1
  /\ UNCHANGED <<tree, log, store, nextId>>
EndTransaction ==
  /\ depth = 1 /\ depth' = 0
  /\ log' = Commit(log) /\ log'.revision <= MaxRevision
  /\ store' = Flush(store, tree, log'.revision)
  /\ UNCHANGED <<tree, nextId>>

\* VersionStore.pin
Pin ==
  /\ depth = 0
  /\ store' = Flush(store, tree, log.revision)
  /\ UNCHANGED <<tree, log, depth, nextId>>

TreeNext ==
  \/ \E kind \in Mutations : Mutate(kind)
  \/ BeginTransaction
  \/ EndTransaction
  \/ Pin

-----------------------------------------------------------------------------
(* Properties *)

\* A reader that pins a version gets the live tree at the revision the
\* tracker shows: "a new reader must never mistake it [the old root] for the
\* current live state" (version.py, flush).
PinIsLive ==
  LET pinned == Flush(store, tree, log.revision)
  IN  depth = 0 /\ Ready(pinned) => pinned.rows = tree /\ pinned.revision = log.revision

\* Only a field that does not fit makes the store unusable; no sequence of
\* mutations leaves rows the walk of _incremental refuses.
StoreStaysUsable == store.error \in {NoError, "field_too_large"}
=============================================================================
