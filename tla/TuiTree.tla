------------------------------- MODULE TuiTree -------------------------------
(***************************************************************************)
(* The node tree of the terminal interface (tui/widgets/node_tree.py): it  *)
(* shows a query view lazily, in batches of child rows with a "more" row   *)
(* behind them, while refreshes replace the view or change it in place.    *)
(*                                                                         *)
(* A view gives every path its children in order; a path that is not in it *)
(* has none.  An unfolding is told to the widget by a message that is      *)
(* handled later.  The cursor and the labels are left out.                 *)
(***************************************************************************)
EXTENDS Integers, Sequences, SequencesExt, FiniteSets, TLC

CONSTANTS
  Top,          \* the hidden root row
  Paths,        \* every path that may be in a view
  Parent,       \* the parent of each path
  Views,        \* the views a snapshot may bring
  Attributed,   \* the paths with a trigger, a repeat, an event...
  ChildBatch,        \* QUERY_CHILD_BATCH
  MaxSnapshots, MaxDeltas   \* bounds: refreshes of each kind

VARIABLES
  treeView,     \* _query_view
  tree,         \* the rows and what the widget remembers of them
  chosen,       \* _selected_path, or Top
  refreshes     \* how many refreshes of each kind there were

treeVars == <<treeView, tree, chosen, refreshes>>

TuiTreeAssumption == ChildBatch \in Nat \ {0} /\ Top \notin Paths

InView(v) == UNION {ToSet(v[p]) : p \in {Top} \union Paths}
RECURSIVE Below(_, _)
Below(v, p) == {p} \union UNION {Below(v, c) : c \in ToSet(v[p])}
RECURSIVE Preorder(_, _)
Preorder(v, p) == <<p>> \o FlattenSeq([i \in 1..Len(v[p]) |-> Preorder(v, v[p][i])])

\* NodeTree.__init__ and clear: no row but the root, which is always open.
EmptyTree ==
  [rows |-> [p \in {Top} \union Paths |-> <<>>],   \* the rows under each row
   loaded |-> [p \in {Top} \union Paths |-> IF p = Top THEN 0 ELSE -1],  \* -1: not in _query_loaded
   nodes |-> {},          \* _path_nodes
   open |-> {},           \* the rows that are unfolded
   foldable |-> {},       \* allow_expand
   told |-> {}]           \* NodeExpanded messages not handled yet

NodeRow(p) == [kind |-> "node", path |-> p]
MoreRow == [kind |-> "more", path |-> Top]
AttributeRow(p) == [kind |-> "attribute", path |-> p]
IsNode(r) == r.kind = "node"
Without(rs, kind) == SelectSeq(rs, LAMBDA r : r.kind # kind)

\* NodeTree._add_query_node
AddQueryNode(t, v, p, c) ==
  [t EXCEPT !.rows = [@ EXCEPT ![p] = Append(@, NodeRow(c)), ![c] = <<>>],
            !.nodes = @ \union {c},
            !.foldable = IF v[c] # <<>> THEN @ \union {c} ELSE @ \ {c},
            !.open = @ \ {c}]

\* One more batch under p, and the row for what is left.  A "more" row that
\* was there goes away, unless no child is loaded.
AddBatch(t, v, p) ==
  LET start == IF t.loaded[p] = -1 THEN 0 ELSE t.loaded[p]
      end == IF start + ChildBatch < Len(v[p]) THEN start + ChildBatch ELSE Len(v[p])
      bare == IF start > 0 THEN [t EXCEPT !.rows[p] = Without(@, "more")] ELSE t
      filled == FoldLeft(LAMBDA acc, c : AddQueryNode(acc, v, p, c), bare, SubSeq(v[p], start + 1, end))
  IN  [filled EXCEPT !.loaded[p] = end,
                     !.rows[p] = IF end < Len(v[p]) THEN Append(@, MoreRow) ELSE @]

\* NodeTree._load_query_roots
LoadQueryRoots(t, v) == AddBatch(t, v, Top)
\* NodeTree._load_query_children
LoadQueryChildren(t, v, p) == IF p \in t.nodes THEN AddBatch(t, v, p) ELSE t
LoadUnder(t, v, p) == IF p = Top THEN LoadQueryRoots(t, v) ELSE LoadQueryChildren(t, v, p)

\* The loops that load batches until `target` rows are there.
RECURSIVE LoadUntil(_, _, _, _)
LoadUntil(t, v, p, target) ==
  IF t.loaded[p] >= target \/ (t.loaded[p] = -1 /\ target = 0) THEN t
  ELSE LoadUntil(LoadUnder(t, v, p), v, p, target)

\* TreeNode.expand
Expand(t, p) == [t EXCEPT !.open = @ \union {p}, !.told = @ \union {p}]

\* NodeTree.rebuild_query: what was unfolded and loaded is so again.
RebuildQuery(t, v) ==
  LET Least(a, b) == IF a < b THEN a ELSE b
      Most(a, b) == IF a > b THEN a ELSE b
      clear == [EmptyTree EXCEPT !.told = t.told]
      roots == LoadUntil(clear, v, Top, Least(Most(t.loaded[Top], ChildBatch), Len(v[Top])))
      Reopen(acc, p) ==
        IF p \in (t.open \intersect t.nodes) /\ p \in acc.nodes
        THEN Expand(LoadUntil(acc, v, p, Least(IF t.loaded[p] = -1 THEN ChildBatch ELSE t.loaded[p], Len(v[p]))), p)
        ELSE acc
  IN  FoldLeft(Reopen, roots, Tail(Preorder(v, Top)))

-----------------------------------------------------------------------------
(* The rows follow the selection and the changes *)

RECURSIVE LoadUntilShown(_, _, _, _)
LoadUntilShown(t, v, p, c) ==
  IF c \in t.nodes \/ t.loaded[p] >= Len(v[p]) THEN t ELSE LoadUntilShown(LoadUnder(t, v, p), v, p, c)

\* NodeTree.reveal_query_path: the ancestors, from the top, load batches
\* until the next one is there, and are unfolded.
RECURSIVE RevealQueryPath(_, _, _)
RevealQueryPath(t, v, p) ==
  IF Parent[p] = Top THEN LoadUntilShown(t, v, Top, p)
  ELSE LET above == RevealQueryPath(t, v, Parent[p])
       IN  Expand(LoadUntilShown(above, v, Parent[p], p), Parent[p])

\* Mutant: the row that was removed is counted twice.
RefreshQueryMoreShort(rs, loaded, total) ==
  IF loaded + 1 < total THEN Append(Without(rs, "more"), MoreRow) ELSE Without(rs, "more")

\* NodeTree._refresh_query_more
RefreshQueryMore(rs, loaded, total) ==
  IF loaded < total THEN Append(Without(rs, "more"), MoreRow) ELSE Without(rs, "more")

\* NodeTree.apply_query_delta: `gone` is a subtree that was removed from the
\* view, `changed` are rows whose attributes are no longer known.
ApplyQueryDelta(t, v, root, gone, changed) ==
  LET p == Parent[root]
      less == t.loaded[p] - 1
      pruned ==
        IF root \notin t.nodes THEN t
        ELSE [t EXCEPT !.rows[p] = RefreshQueryMore(SelectSeq(@, LAMBDA r : r # NodeRow(root)), less, Len(v[p])),
                       !.loaded[p] = less,
                       !.foldable = IF p # Top /\ v[p] = <<>> /\ AttributeRow(p) \notin ToSet(t.rows[p])
                                    THEN @ \ {p} ELSE @ \union ({p} \ {Top})]
      dropped ==
        [pruned EXCEPT !.nodes = @ \ gone, !.open = @ \ gone, !.foldable = @ \ gone,
                       !.loaded = [q \in DOMAIN @ |-> IF q \in gone THEN -1 ELSE @[q]],
                       !.rows = [q \in DOMAIN @ |-> IF q \in gone THEN <<>> ELSE @[q]]]
      shownChanged == changed \intersect dropped.nodes
  IN  [dropped EXCEPT !.rows = [q \in DOMAIN @ |-> IF q \in shownChanged THEN Without(@[q], "attribute") ELSE @[q]],
                      !.foldable = {q \in Paths : IF q \in shownChanged THEN v[q] # <<>> ELSE q \in @}]

\* NodeTree.update_query_detail
UpdateQueryDetail(t, v, p) ==
  LET hasAttributes == p \in Attributed
      bare == [t EXCEPT !.rows[p] = Without(@, "attribute")]
      told == [bare EXCEPT !.foldable = IF hasAttributes \/ v[p] # <<>> THEN @ \union {p} ELSE @ \ {p}]
  IN  IF p \notin t.nodes THEN t
      ELSE IF hasAttributes THEN Expand([told EXCEPT !.rows[p] = Append(@, AttributeRow(p))], p)
      ELSE told

-----------------------------------------------------------------------------
(* What happens to the widget *)

TuiTreeInit ==
  /\ treeView \in Views /\ tree = RebuildQuery(EmptyTree, treeView)
  /\ chosen = Top
  /\ refreshes = [snapshot |-> 0, delta |-> 0]

\* The user folds or unfolds a row (action_toggle_node, a double click).
ToggleNode(p) ==
  /\ p \in tree.nodes \intersect tree.foldable
  /\ tree' = IF p \in tree.open THEN [tree EXCEPT !.open = @ \ {p}] ELSE Expand(tree, p)
  /\ UNCHANGED <<treeView, chosen, refreshes>>

\* NodeTree.on_tree_node_expanded
NodeExpanded(p) ==
  /\ p \in tree.told
  /\ LET heard == [tree EXCEPT !.told = @ \ {p}]
     IN  tree' = IF tree.loaded[p] = -1 THEN LoadQueryChildren(heard, treeView, p) ELSE heard
  /\ UNCHANGED <<treeView, chosen, refreshes>>

\* NodeTree.on_tree_node_selected on a "more" row
MoreSelected(p) ==
  /\ MoreRow \in ToSet(tree.rows[p])
  /\ tree' = LoadUnder(tree, treeView, p)
  /\ UNCHANGED <<treeView, chosen, refreshes>>

\* on_tree_node_selected on a node row; the detail that was asked for arrives.
NodeChosen(p) ==
  /\ p \in tree.nodes
  /\ chosen' = p
  /\ UNCHANGED <<treeView, tree, refreshes>>
DetailArrives ==
  /\ chosen # Top
  /\ tree' = UpdateQueryDetail(tree, treeView, chosen)
  /\ UNCHANGED <<treeView, chosen, refreshes>>

\* TaklerTuiApp._apply_snapshot
SnapshotApplied(v) ==
  /\ refreshes.snapshot < MaxSnapshots
  /\ treeView' = v
  /\ LET rebuilt == RebuildQuery(tree, v)
     IN  IF chosen \in InView(v)
         THEN tree' = RevealQueryPath(rebuilt, v, chosen) /\ UNCHANGED chosen
         ELSE tree' = rebuilt /\ chosen' = Top
  /\ refreshes' = [refreshes EXCEPT !.snapshot = @ + 1]

\* QueryTuiView.apply_delta: a subtree is cut out of the view.
CutView(v, root, gone) ==
  [p \in DOMAIN v |-> IF p \in gone THEN <<>> ELSE SelectSeq(v[p], LAMBDA c : c # root)]

\* TaklerTuiApp._apply_delta with a removal, and with changed rows
DeltaApplied(root, changed) ==
  /\ refreshes.delta < MaxDeltas
  /\ root \in InView(treeView)
  /\ LET gone == Below(treeView, root)
         cut == CutView(treeView, root, gone)
     IN  /\ changed \intersect gone = {}
         /\ treeView' = cut
         /\ tree' = ApplyQueryDelta(tree, cut, root, gone, changed)
         /\ chosen' = IF chosen \in gone THEN Top ELSE chosen
  /\ refreshes' = [refreshes EXCEPT !.delta = @ + 1]

TuiTreeNext ==
  \/ \E p \in Paths : ToggleNode(p)
  \/ \E p \in Paths : NodeExpanded(p)
  \/ \E p \in {Top} \union Paths : MoreSelected(p)
  \/ \E p \in Paths : NodeChosen(p)
  \/ DetailArrives
  \/ \E v \in Views : SnapshotApplied(v)
  \/ \E p \in Paths, changed \in SUBSET Paths : Cardinality(changed) < 2 /\ DeltaApplied(p, changed)

TuiTreeSpec == TuiTreeInit /\ [][TuiTreeNext]_treeVars

-----------------------------------------------------------------------------
(* Properties *)

NodesUnder(p) == [i \in 1..Len(SelectSeq(tree.rows[p], IsNode)) |-> SelectSeq(tree.rows[p], IsNode)[i].path]

\* However batches, unfoldings and the two kinds of refresh follow one
\* another, the rows under a loaded row are the first `loaded` children the
\* view gives it, in order and once each; a child that is not shown can be
\* loaded through a "more" row; no other row has an entry in _path_nodes; and
\* the chosen node has a row, folded in or not.
TreeShowsView ==
  /\ \A p \in {Top} \union tree.nodes :
       IF tree.loaded[p] = -1 THEN NodesUnder(p) = <<>>
       ELSE /\ NodesUnder(p) = SubSeq(treeView[p], 1, tree.loaded[p])
            /\ tree.loaded[p] < Len(treeView[p]) => MoreRow \in ToSet(tree.rows[p])
  /\ tree.nodes = UNION {ToSet(NodesUnder(p)) : p \in {Top} \union tree.nodes}
  /\ chosen = Top \/ chosen \in tree.nodes

\* A "more" row is there only while there are more (the label counts them).
\* It does not hold: README, "Also observed".
MoreMeansMore ==
  \A p \in {Top} \union tree.nodes :
    Len(SelectSeq(tree.rows[p], LAMBDA r : r.kind = "more")) <= (IF tree.loaded[p] < Len(treeView[p]) THEN 1 ELSE 0)
=============================================================================
