----------------------------- MODULE TuiRefresh -----------------------------
(***************************************************************************)
(* The refresh of the terminal interface (tui/app.py): worker threads read *)
(* snapshots, changes and details through one locked client, and hand what *)
(* they got to the main thread, which may have moved on.                   *)
(*                                                                         *)
(* A row is the attempt of a task.  A query view is the scope, revision    *)
(* and rows the client got, with a serial that stands for its identity.    *)
(* A thread is not stopped by the worker that supersedes it.               *)
(***************************************************************************)
EXTENDS Integers, FiniteSets, TLC

CONSTANTS
  Task, Scope,
  NoQuery, NoPath,
  MaxRefresh,    \* bound: refreshes
  MaxDetail,     \* bound: detail requests for selections
  MaxAttempt     \* bound: attempts of all tasks

VARIABLES
  live,       \* the server's revision and the attempt of each task
  current,    \* QueryClient.current
  serial,     \* how many views the client has built
  shown,      \* _snapshot: its identity and its query view
  scope,      \* _scope_path
  selected,   \* _selected_path
  refreshSeq, detailSeq,
  refresh,    \* the refresh worker of each sequence number
  detail,     \* the detail worker of each sequence number
  tabs,       \* the detail the tabs show
  stale       \* the status bar says the view is stale

tuiVars == <<live, current, serial, shown, scope, selected, refreshSeq, detailSeq, refresh, detail, tabs, stale>>

Absent == [state |-> "none"]
NewView(l, sc, n) == [serial |-> n, scope |-> sc, revision |-> l.revision, rows |-> l.attempt, stale |-> FALSE]

TuiInit ==
  /\ live = [revision |-> 1, attempt |-> [t \in Task |-> 1]]
  /\ current = NoQuery /\ serial = 0 /\ shown = NoQuery
  /\ scope \in Scope /\ selected = NoPath
  /\ refreshSeq = 0 /\ detailSeq = 0
  /\ refresh = [n \in 1..MaxRefresh |-> Absent]
  /\ detail = [n \in 1..MaxDetail + MaxRefresh |-> Absent]
  /\ tabs = NoPath /\ stale = FALSE

\* The server runs a task again.
ServerMoves ==
  /\ \E t \in Task : live' = [revision |-> live.revision + 1, attempt |-> [live.attempt EXCEPT ![t] = @ + 1]]
  /\ live.revision < MaxAttempt
  /\ UNCHANGED <<current, serial, shown, scope, selected, refreshSeq, detailSeq, refresh, detail, tabs, stale>>

-----------------------------------------------------------------------------
(* The main thread *)

\* TaklerTuiApp.action_refresh
ActionRefresh(sc, force) ==
  /\ refreshSeq < MaxRefresh
  /\ refreshSeq' = refreshSeq + 1
  /\ refresh' = [refresh EXCEPT ![refreshSeq + 1] = [state |-> "started", scope |-> sc, force |-> force]]

\* The key, the timer and the end of a control command
Refresh ==
  /\ ActionRefresh(scope, FALSE)
  /\ UNCHANGED <<live, current, serial, shown, scope, selected, detailSeq, detail, tabs, stale>>

\* action_scope_selected, action_scope_parent
ChangeScope ==
  /\ \E sc \in Scope \ {scope} : scope' = sc /\ ActionRefresh(sc, FALSE)
  /\ UNCHANGED <<live, current, serial, shown, selected, detailSeq, detail, tabs, stale>>

\* _request_detail for a path of the view v
RequestDetail(v, t) ==
  /\ detailSeq' = detailSeq + 1
  /\ detail' = [detail EXCEPT ![detailSeq + 1] = [state |-> "started", view |-> v.id, query |-> v.query, path |-> t]]

\* on_tree_node_selected, on_tree_node_highlighted
Select(t) ==
  /\ shown # NoQuery /\ detailSeq < MaxDetail
  /\ selected' = t /\ tabs' = NoPath
  /\ RequestDetail(shown, t)
  /\ UNCHANGED <<live, current, serial, shown, scope, refreshSeq, refresh, stale>>
Highlight(t) ==
  /\ selected # t /\ selected' = t
  /\ UNCHANGED <<live, current, serial, shown, scope, refreshSeq, detailSeq, refresh, detail, tabs, stale>>

End(n) == refresh' = [refresh EXCEPT ![n] = [state |-> "ended"]]

\* _apply_unchanged
ApplyUnchanged(n) ==
  /\ refresh[n].state = "unchanged" /\ End(n)
  /\ IF n = refreshSeq /\ shown # NoQuery /\ shown.id = refresh[n].view THEN stale' = FALSE ELSE UNCHANGED stale
  /\ UNCHANGED <<live, current, serial, shown, scope, selected, refreshSeq, detailSeq, detail, tabs>>

\* _apply_delta: the rows that changed are taken over, and the details of a
\* selected one are asked for again.
ApplyDelta(n) ==
  /\ refresh[n].state = "delta" /\ End(n)
  /\ LET new     == refresh[n].query
         changed == {t \in Task : new.rows[t] # shown.query.rows[t]}
     IN  IF n # refreshSeq \/ shown = NoQuery \/ shown.id # refresh[n].view
         THEN UNCHANGED <<shown, detailSeq, detail, tabs, stale>>
         ELSE /\ shown' = [shown EXCEPT !.query = new]
              /\ stale' = FALSE
              /\ IF selected \in changed
                 THEN tabs' = NoPath /\ RequestDetail(shown', selected)
                 ELSE UNCHANGED <<detailSeq, detail, tabs>>
  /\ UNCHANGED <<live, current, serial, scope, selected, refreshSeq>>

\* Mutant: a snapshot is shown whoever read it.
ApplySnapshotAny(n) ==
  /\ refresh[n].state = "snapshot" /\ End(n)
  /\ shown' = [id |-> n, query |-> refresh[n].query] /\ stale' = FALSE /\ tabs' = NoPath
  /\ IF selected = NoPath THEN UNCHANGED <<detailSeq, detail>> ELSE RequestDetail(shown', selected)
  /\ UNCHANGED <<live, current, serial, scope, selected, refreshSeq>>

\* _apply_snapshot
ApplySnapshot(n) ==
  /\ refresh[n].state = "snapshot" /\ End(n)
  /\ IF n # refreshSeq THEN UNCHANGED <<shown, detailSeq, detail, tabs, stale>>
     ELSE /\ shown' = [id |-> n, query |-> refresh[n].query] /\ stale' = FALSE /\ tabs' = NoPath
          /\ IF selected = NoPath THEN UNCHANGED <<detailSeq, detail>> ELSE RequestDetail(shown', selected)
  /\ UNCHANGED <<live, current, serial, scope, selected, refreshSeq>>

\* _refresh_failed
RefreshFailed(n) ==
  /\ refresh[n].state = "failed" /\ End(n)
  /\ stale' = (stale \/ n = refreshSeq)
  /\ UNCHANGED <<live, current, serial, shown, scope, selected, refreshSeq, detailSeq, detail, tabs>>

IsCurrent(d) == shown # NoQuery /\ shown.id = detail[d].view /\ detail[d].path = selected /\ d = detailSeq
EndDetail(d) == detail' = [detail EXCEPT ![d] = [state |-> "ended"]]

\* _apply_detail, _detail_failed
ApplyDetail(d) ==
  /\ detail[d].state = "read" /\ EndDetail(d)
  /\ IF IsCurrent(d)
     THEN tabs' = [path |-> detail[d].path, attempt |-> detail[d].attempt] ELSE UNCHANGED tabs
  /\ UNCHANGED <<live, current, serial, shown, scope, selected, refreshSeq, detailSeq, refresh, stale>>

\* _detail_lease_expired: read everything again
DetailLeaseExpired(d) ==
  /\ detail[d].state = "expired" /\ EndDetail(d)
  /\ IF IsCurrent(d) THEN stale' = TRUE /\ ActionRefresh(scope, TRUE)
     ELSE UNCHANGED <<stale, refreshSeq, refresh>>
  /\ UNCHANGED <<live, current, serial, shown, scope, selected, detailSeq, tabs>>

-----------------------------------------------------------------------------
(* The worker threads; each reads under the lock of TaklerTuiService. *)

\* _refresh_worker: changes if the view has the scope, else a snapshot
StartRefresh(n) ==
  /\ refresh[n].state = "started"
  /\ refresh' = [refresh EXCEPT ![n] =
       IF ~@.force /\ shown # NoQuery /\ shown.query.scope = @.scope
       THEN [state |-> "since", scope |-> @.scope, view |-> shown.id, query |-> shown.query]
       ELSE [state |-> "reading", scope |-> @.scope]]
  /\ UNCHANGED <<live, current, serial, shown, scope, selected, refreshSeq, detailSeq, detail, tabs, stale>>

ReadAll(n) == [state |-> "reading", scope |-> refresh[n].scope]

\* TaklerTuiService.read_since
ReadSince(n) ==
  /\ refresh[n].state = "since"
  /\ IF n # refreshSeq THEN End(n) /\ UNCHANGED <<current, serial>>
     ELSE \/ /\ current # refresh[n].query \/ current.stale
             /\ refresh' = [refresh EXCEPT ![n] = ReadAll(n)] /\ UNCHANGED <<current, serial>>
          \/ /\ current = refresh[n].query /\ ~current.stale
             /\ \/ /\ live.revision = current.revision
                   /\ refresh' = [refresh EXCEPT ![n].state = "unchanged"] /\ UNCHANGED <<current, serial>>
                \/ /\ live.revision > current.revision
                   /\ current' = NewView(live, current.scope, serial + 1) /\ serial' = serial + 1
                   /\ refresh' = [refresh EXCEPT ![n].state = "delta", ![n].query = current']
                \* reset, or scopes of the view are stale
                \/ /\ current' = [current EXCEPT !.stale = TRUE] /\ UNCHANGED serial
                   /\ refresh' = [refresh EXCEPT ![n] = ReadAll(n)]
                \/ /\ refresh' = [refresh EXCEPT ![n] = [state |-> "failed"]] /\ UNCHANGED <<current, serial>>
  /\ UNCHANGED <<live, shown, scope, selected, refreshSeq, detailSeq, detail, tabs, stale>>

\* TaklerTuiService.read_snapshot and the detail of the root
ReadSnapshotOf(n) ==
  /\ refresh[n].state = "reading"
  /\ IF n # refreshSeq THEN End(n) /\ UNCHANGED <<current, serial>>
     ELSE \/ /\ current' = NewView(live, refresh[n].scope, serial + 1) /\ serial' = serial + 1
             /\ \/ refresh' = [refresh EXCEPT ![n] = [state |-> "snapshot", query |-> current']]
                \/ refresh' = [refresh EXCEPT ![n] = [state |-> "failed"]]
          \/ refresh' = [refresh EXCEPT ![n] = [state |-> "failed"]] /\ UNCHANGED <<current, serial>>
  /\ UNCHANGED <<live, shown, scope, selected, refreshSeq, detailSeq, detail, tabs, stale>>

\* _detail_worker: the server answers for the attempt of the row or not at all.
ReadDetail(d) ==
  /\ detail[d].state = "started"
  /\ \/ ~IsCurrent(d) /\ EndDetail(d) /\ UNCHANGED current
     \/ /\ IsCurrent(d)
        /\ LET attempt == detail[d].query.rows[detail[d].path]
           IN  \/ /\ attempt = live.attempt[detail[d].path] /\ ~detail[d].query.stale
                  /\ detail' = [detail EXCEPT ![d] = [state |-> "read", view |-> @.view, path |-> @.path, attempt |-> attempt]]
                  /\ UNCHANGED current
               \/ EndDetail(d) /\ UNCHANGED current
               \/ /\ detail' = [detail EXCEPT ![d].state = "expired"]
                  /\ current' = IF current # NoQuery /\ current = detail[d].query
                                THEN [current EXCEPT !.stale = TRUE] ELSE current
  /\ UNCHANGED <<live, serial, shown, scope, selected, refreshSeq, detailSeq, refresh, tabs, stale>>

RefreshStep(n) ==
  \/ StartRefresh(n) \/ ReadSince(n) \/ ReadSnapshotOf(n)
  \/ ApplyUnchanged(n) \/ ApplyDelta(n) \/ ApplySnapshot(n) \/ RefreshFailed(n)

TuiNext ==
  \/ ServerMoves
  \/ Refresh
  \/ ChangeScope
  \/ \E t \in Task : Select(t)
  \/ \E t \in Task : Highlight(t)
  \/ \E n \in 1..MaxRefresh : StartRefresh(n)
  \/ \E n \in 1..MaxRefresh : ReadSince(n)
  \/ \E n \in 1..MaxRefresh : ReadSnapshotOf(n)
  \/ \E n \in 1..MaxRefresh : ApplyUnchanged(n)
  \/ \E n \in 1..MaxRefresh : ApplyDelta(n)
  \/ \E n \in 1..MaxRefresh : ApplySnapshot(n)
  \/ \E n \in 1..MaxRefresh : RefreshFailed(n)
  \/ \E d \in DOMAIN detail : ReadDetail(d)
  \/ \E d \in DOMAIN detail : ApplyDetail(d)
  \/ \E d \in DOMAIN detail : DetailLeaseExpired(d)

\* The thread of the newest refresh runs, and the main thread takes what it is
\* handed.  A superseded worker may never start.
TuiFairness == \A n \in 1..MaxRefresh : WF_tuiVars(n = refreshSeq /\ RefreshStep(n))

TuiSpec == TuiInit /\ [][TuiNext]_tuiVars /\ TuiFairness

-----------------------------------------------------------------------------
(* Properties *)

\* What is shown never goes back to an older revision and has the scope asked
\* for last, whatever threads are late (_refresh_seq).
ShowsNewer ==
  shown' # shown =>
    /\ shown'.query.scope = scope
    /\ shown # NoQuery => shown'.query.revision >= shown.query.revision
ShownFollows == [][ShowsNewer]_tuiVars

\* The newest refresh ends with what the server had when it was asked for, or
\* with the stale mark, unless the user asks again: none ends unseen.
RefreshSettles ==
  \A n \in 1..MaxRefresh, r \in 1..MaxAttempt :
    (refreshSeq = n /\ refresh[n].state = "started" /\ live.revision = r)
      ~> (refreshSeq > n \/ stale \/ (shown # NoQuery /\ shown.query.revision >= r))
=============================================================================
