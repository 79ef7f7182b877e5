------------------------------ MODULE QueryView -----------------------------
(***************************************************************************)
(* A client that keeps a view of the node tree: it reads a snapshot page   *)
(* by page and then asks for what changed since (client/query_client.py),  *)
(* while the server (server/query_service.py) writes, forgets leases, pages*)
(* and old changes, and restarts.                                          *)
(*                                                                         *)
(* A row sent to the client is the node's state; the generation of a flow  *)
(* is the identity of its object.  Pages hold PageNodes rows.              *)
(***************************************************************************)
EXTENDS VersionStore

CONSTANTS
  Selections,   \* the scopes and depths a client may ask for
  PageNodes,    \* rows or operations per page
  NoView, NoCall,
  MaxSession    \* bound: server starts

VARIABLES
  selection,  \* the scope and depth of the client's query
  past,       \* past[s][r]: the values of the nodes in session s at revision r
  lease,      \* the server remembers the query of the client
  held,       \* the pages the server keeps for the reading under way, if any
  call,       \* the request of the client that is under way
  reading,    \* what the client has read of the snapshot or the changes
  view        \* QueryClient.current

viewVars == <<treeVars, selection, past, lease, held, call, reading, view>>

Session == Len(past)
Scope == selection.scope

\* QueryService._visible_path, QueryClient._in_view
Shows(sel, p) == Under(p, sel.scope) /\ Len(p) - Len(sel.scope) <= sel.depth
Visible(p) == Shows(selection, p)

\* _iter_fixed_summaries: the rows of the scope, and the generation of each
\* flow among them
Values(t) == [p \in DOMAIN t |-> t[p].value]
Summaries(t) == [p \in {p \in DOMAIN t : Visible(p)} |-> t[p].value]
Generations(t, ps) == [f \in {SubSeq(p, 1, 1) : p \in ps \ {Root}} |-> t[f].id]

\* A set cut into pages
Pages(items) ==
  LET seq == SetToSeq(items)
      n   == IF seq = <<>> THEN 1 ELSE (Len(seq) + PageNodes - 1) \div PageNodes
  IN  [i \in 1..n |-> ToSet(SubSeq(seq, (i - 1) * PageNodes + 1,
                                   IF i = n THEN Len(seq) ELSE i * PageNodes))]

ViewInit ==
  /\ TreeInit
  /\ selection \in Selections
  /\ past = <<<<Values(tree)>>>>
  /\ lease = FALSE /\ held = {}
  /\ call = NoCall /\ reading = NoCall /\ view = NoView

-----------------------------------------------------------------------------
(* The server *)

\* A command or a slice of the scan: one or two mutations in a transaction,
\* of which the first may make new nodes.
Write(kinds) ==
  /\ log.revision + Session <= MaxRevision /\ NewId(kinds[1]) <= MaxId
  /\ \E m \in Possible(tree, nextId, kinds[1]) :
     \E n \in IF Len(kinds) = 1 THEN {[tree |-> m.tree, marks |-> <<>>]}
              ELSE Possible(m.tree, nextId, kinds[2]) :
       /\ n.tree # tree \/ kinds[1] \in {"edit", "service"}
       /\ tree' = n.tree
       /\ log' = Commit(FoldLeft(Mark, log, m.marks \o n.marks))
       /\ store' = Flush(FoldLeft(LAMBDA s, c : Note(s, c.path, c.invalidate), store, m.marks \o n.marks),
                         n.tree, log'.revision)
  /\ past' = [past EXCEPT ![Session] = Append(@, Values(tree'))]
  /\ nextId' = NewId(kinds[1])
  /\ UNCHANGED <<depth, selection, lease, held, call, reading, view>>

\* QueryChanges._expire, when the oldest batch is too old
Age ==
  /\ log.batches # <<>>
  /\ log' = Expire(log, 1)
  /\ UNCHANGED <<tree, store, depth, nextId, selection, past, lease, held, call, reading, view>>

\* QueryService._purge: a lease, a snapshot or a batch runs out, or makes room.
Forget ==
  /\ \/ lease /\ lease' = FALSE /\ UNCHANGED held
     \/ \E h \in held : held' = held \ {h} /\ UNCHANGED lease
  /\ UNCHANGED <<treeVars, selection, past, call, reading, view>>

\* A restart: a new session with an empty change window.  What the server was
\* working on fails; a request under way reaches the new server.
Restart ==
  /\ Session < MaxSession
  /\ past' = Append(past, <<Values(tree)>>)
  /\ log' = EmptyLog /\ store' = Rebuild(EmptyStore, tree, 1)
  /\ lease' = FALSE /\ held' = {}
  /\ IF call # NoCall /\ call.state \in {"waiting", "building"}
     THEN call' = NoCall /\ reading' = NoCall
     ELSE UNCHANGED <<call, reading>>
  /\ UNCHANGED <<tree, depth, nextId, selection, view>>

Reply(r) == call' = [state |-> "replied", reply |-> r]
Failure == [kind |-> "error"]
\* QueryService._reset
Reset == [kind |-> "reset"]

PageReply(h, i) ==
  [kind |-> h.kind, session |-> Session, from |-> h.from, revision |-> h.revision,
   index |-> i, last |-> i = Len(h.pages), items |-> h.pages[i], generations |-> h.generations]

\* QueryService._page without a cursor: the version is pinned with its
\* revision; the pages are built in a thread.
ServeSnapshot ==
  /\ call # NoCall /\ call.state = "sent" /\ call.kind = "snapshot" /\ call.index = 1
  /\ IF ~Ready(store) \/ Scope \notin DOMAIN store.rows
     THEN Reply(Failure)
     ELSE call' = [state |-> "building", kind |-> "snapshot", from |-> 0, revision |-> log.revision,
                   pages |-> Pages({<<p, Summaries(store.rows)[p]>> : p \in DOMAIN Summaries(store.rows)}),
                   generations |-> Generations(store.rows, DOMAIN Summaries(store.rows))]
  /\ UNCHANGED <<treeVars, selection, past, lease, held, reading, view>>

Held(c) == [kind |-> c.kind, from |-> c.from, revision |-> c.revision, pages |-> c.pages,
            generations |-> c.generations]

\* QueryService._publish_snapshot; there may be no room for it
PublishSnapshot ==
  /\ call # NoCall /\ call.state = "building" /\ call.kind = "snapshot"
  /\ \/ /\ Reaches(log, call.revision)
        /\ held' = {Held(call)} /\ lease' = TRUE /\ Reply(PageReply(call, 1))
     \/ UNCHANGED <<held, lease>> /\ Reply(Failure)
  /\ UNCHANGED <<treeVars, selection, past, reading, view>>

\* QueryService._page and since with a cursor
ServeNextPage ==
  /\ call # NoCall /\ call.state = "sent" /\ call.index > 1
  /\ LET known == {h \in held : h.kind = call.kind /\ h.from = call.from /\ h.revision = call.revision}
     IN  IF call.kind = "since" /\ ~lease THEN Reply(Reset)
         ELSE IF known = {} THEN Reply(IF call.kind = "since" THEN Reset ELSE Failure)
         ELSE \E h \in known : Reply(PageReply(h, call.index))
  /\ UNCHANGED <<treeVars, selection, past, lease, held, reading, view>>

\* QueryService._delta_paths: nothing when the scope itself is invalid
Touched(batches) == UNION {b.changes : b \in batches}
Invalid(change) == change.invalidate \/ change.groups \cap {"definition", "parameters"} # {}
ScopeInvalid(batches) == \E x \in Touched(batches) : Invalid(x) /\ Under(Scope, x.path)
Invalidations(batches) == {x.path : x \in {x \in Touched(batches) : Invalid(x) /\ Visible(x.path)}}
ChangedPaths(batches) ==
  {p \in {x.path : x \in {x \in Touched(batches) : "summary" \in x.groups}} :
     Visible(p) /\ ~\E q \in Invalidations(batches) : Under(p, q)}

\* QueryService._delta_selection: what stands against answering with changes
Refused(from) == ~Reaches(log, from) \/ ScopeInvalid(Since(log, from))

\* QueryService._project_delta, from the pinned version
Operations(batches) ==
  {[op |-> "invalidate", path |-> p] : p \in Invalidations(batches)} \cup
  {[op |-> "upsert", path |-> p, value |-> store.rows[p].value, generation |-> Generations(store.rows, {p})] :
     p \in ChangedPaths(batches)}

\* QueryService._build_delta_pages, _delta_pages
DeltaPages(batches) == Pages(Operations(batches))

Unchanged(from) ==
  [kind |-> "since", from |-> from, revision |-> log.revision, pages |-> <<{}>>, generations |-> <<>>]

\* QueryService.since without a cursor, up to the first await
ServeSince ==
  /\ call # NoCall /\ call.state = "sent" /\ call.kind = "since" /\ call.index = 1
  /\ IF call.session # Session \/ ~lease THEN Reply(Reset)
     ELSE IF ~Ready(store) THEN Reply(Failure)
     ELSE IF Refused(call.from) THEN Reply(Reset)
     ELSE LET batches == Since(log, call.from)
          IN  IF Invalidations(batches) = {} /\ ChangedPaths(batches) = {}
              THEN Reply(PageReply(Unchanged(call.from), 1))
              ELSE call' = [call EXCEPT !.state = "waiting"]
  /\ UNCHANGED <<treeVars, selection, past, lease, held, reading, view>>

\* Mutant: the changes are those found before the wait for a worker, the
\* revision is the one found after it.
StartDeltaLate ==
  /\ call # NoCall /\ call.state = "waiting"
  /\ IF ~lease \/ Refused(call.from) THEN Reply(Reset)
     ELSE LET batches == {b \in Since(log, call.from) : b.revision <= call.from + 1}
          IN  IF ~(ChangedPaths(batches) \subseteq DOMAIN store.rows) THEN Reply(Reset)
              ELSE call' = [state |-> "building", kind |-> "since", from |-> call.from, revision |-> log.revision,
                            pages |-> DeltaPages(batches), generations |-> <<>>]
  /\ UNCHANGED <<treeVars, selection, past, lease, held, reading, view>>

\* QueryService._changed_delta once a worker is free: the lease, the version
\* and the selection are looked at again.
StartDelta ==
  /\ call # NoCall /\ call.state = "waiting"
  /\ IF ~lease THEN Reply(Reset)
     ELSE IF ~Ready(store) THEN Reply(Failure)
     ELSE IF Refused(call.from) THEN Reply(Reset)
     ELSE LET batches == Since(log, call.from)
          IN  IF ~(ChangedPaths(batches) \subseteq DOMAIN store.rows) THEN Reply(Reset)
              ELSE call' = [state |-> "building", kind |-> "since", from |-> call.from, revision |-> log.revision,
                            pages |-> DeltaPages(batches), generations |-> <<>>]
  /\ UNCHANGED <<treeVars, selection, past, lease, held, reading, view>>

\* QueryService.since after the pages are built; there may be no room for them
PublishDelta ==
  /\ call # NoCall /\ call.state = "building" /\ call.kind = "since"
  /\ \/ /\ lease
        /\ held' = IF Len(call.pages) > 1 THEN {Held(call)} ELSE held
        /\ Reply(PageReply(call, 1))
     \/ UNCHANGED held /\ Reply(Reset)
  /\ UNCHANGED <<treeVars, selection, past, lease, reading, view>>

-----------------------------------------------------------------------------
(* The client *)

Ask(kind, session, from, revision, index) ==
  call' = [state |-> "sent", kind |-> kind, session |-> session, from |-> from,
           revision |-> revision, index |-> index]

Stale(v, scope) == [v EXCEPT !.stale = @ \cup {scope}]
RootStale(v) == \E scope \in v.stale : Under(Scope, scope)

\* QueryClient.read_snapshot
ReadSnapshot ==
  /\ reading = NoCall
  /\ reading' = [kind |-> "snapshot", rows |-> <<>>, index |-> 1]
  /\ Ask("snapshot", 0, 0, 0, 1)
  /\ UNCHANGED <<treeVars, selection, past, lease, held, view>>

\* QueryClient.read_since
ReadSince ==
  /\ reading = NoCall /\ view # NoView /\ ~RootStale(view)
  /\ reading' = [kind |-> "since", rows |-> view.rows, stale |-> view.stale, index |-> 1]
  /\ Ask("since", view.session, view.revision, 0, 1)
  /\ UNCHANGED <<treeVars, selection, past, lease, held, view>>

\* The end of a reading: no cursor names its pages any more.
Done == reading' = NoCall /\ call' = NoCall /\ held' = {}

\* A TransportError, or a reader that was superseded: the view stays.
GiveUp ==
  /\ reading # NoCall /\ Done
  /\ UNCHANGED <<treeVars, selection, past, lease, view>>

\* An upsert the client refuses: a node it does not know or of another flow
Unknown(op) ==
  op.op = "upsert" /\ (op.path \notin DOMAIN view.rows
                       \/ \E f \in DOMAIN op.generation : op.generation[f] # view.generations[f])

\* The operations of a page of changes
Apply(r, items) ==
  LET upserts == {op \in items : op.op = "upsert"}
  IN  [r EXCEPT !.rows = [p \in {op.path : op \in upserts} |->
                            (CHOOSE op \in upserts : op.path = p).value] @@ @,
                !.stale = @ \cup {op.path : op \in items \ upserts}]

Collect(r, items) ==
  [r EXCEPT !.rows = [p \in {x[1] : x \in items} |-> (CHOOSE x \in items : x[1] = p)[2]] @@ @]

\* A page of the snapshot: the view is replaced with the last one.
TakeSnapshotPage ==
  /\ call # NoCall /\ call.state = "replied" /\ reading.kind = "snapshot"
  /\ LET r    == call.reply
         next == Collect(reading, r.items)
     IN  IF r.kind = "error"
         THEN Done /\ UNCHANGED view
         ELSE IF r.last
         THEN /\ view' = [session |-> r.session, revision |-> r.revision, rows |-> next.rows,
                          generations |-> r.generations, stale |-> {}]
              /\ Done
         ELSE /\ reading' = [next EXCEPT !.index = r.index + 1]
              /\ Ask("snapshot", r.session, 0, r.revision, r.index + 1)
              /\ UNCHANGED <<view, held>>
  /\ UNCHANGED <<treeVars, selection, past, lease>>

\* A page of the changes: they are merged with the last one; a reset, an error
\* or an operation that does not fit leaves the view with a stale root.
TakeChangesPage ==
  /\ call # NoCall /\ call.state = "replied" /\ reading.kind = "since"
  /\ LET r == call.reply
     IN  IF r.kind \in {"error", "reset"} \/ \E op \in r.items : Unknown(op)
         THEN view' = Stale(view, Scope) /\ Done
         ELSE LET next == Apply(reading, r.items)
              IN  IF r.last
                  THEN /\ view' = IF r.revision = view.revision THEN view
                                  ELSE [view EXCEPT !.revision = r.revision, !.rows = next.rows,
                                                    !.stale = next.stale]
                       /\ Done
                  ELSE /\ reading' = [next EXCEPT !.index = r.index + 1]
                       /\ Ask("since", view.session, view.revision, r.revision, r.index + 1)
                       /\ UNCHANGED <<view, held>>
  /\ UNCHANGED <<treeVars, selection, past, lease>>

ViewNext ==
  \/ \E kinds \in Mutations : Write(kinds)
  \/ Age
  \/ Forget
  \/ Restart
  \/ ServeSnapshot
  \/ PublishSnapshot
  \/ ServeNextPage
  \/ ServeSince
  \/ StartDelta
  \/ PublishDelta
  \/ ReadSnapshot
  \/ ReadSince
  \/ GiveUp
  \/ TakeSnapshotPage
  \/ TakeChangesPage

ViewSpec == ViewInit /\ [][ViewNext]_viewVars

-----------------------------------------------------------------------------
(* Properties *)

Contract == INSTANCE ViewContract WITH Visible <- Shows

\* The query service and its client implement the contract: the view is the
\* tree of one revision outside its stale scopes, and it never goes back.
ImplementsContract == Contract!ContractSpec

=============================================================================
