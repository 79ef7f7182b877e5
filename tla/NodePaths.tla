----------------------------- MODULE NodePaths -----------------------------
(***************************************************************************)
(* References by path.  A trigger or an in-limit of a flow names another   *)
(* node; the name is resolved four times by three algorithms:              *)
(*   - loading the flow binds it (serialization/builder.py), inside the    *)
(*     candidate by its text, outside by walking the tree;                 *)
(*   - a checkpoint checks it by normalising its text                      *)
(*     (serialization/checkpoint.py);                                      *)
(*   - a restart builds the whole tree from the checkpoint and binds it    *)
(*     again, now with every flow in the candidate.                        *)
(*                                                                         *)
(* A path is a sequence of names and the empty sequence stands for None.   *)
(***************************************************************************)
EXTENDS Integers, Sequences, SequencesExt

CONSTANTS
  Nodes,       \* the paths of the tree
  Candidate,   \* the name of the flow that is being loaded
  HasLimit,    \* nodes with the limit
  HasEvent,    \* nodes with the variable
  Name,        \* the words of a reference
  MaxWords     \* bound: words of a reference

VARIABLES owner, reference, stage, bound

pathVars == <<owner, reference, stage, bound>>

None == <<>>

InFlow(f) == {n \in Nodes : n[1] = f}

\* What a definition can write: a path from the root or from the owner's parent,
\* in an expression (with or without a variable) or in an in-limit, and an
\* in-limit without a path.
References ==
  [kind : {"node", "variable", "limit"}, absolute : BOOLEAN,
   words : UNION {[1 .. k -> Name] : k \in 1 .. MaxWords}]
  \cup {[kind |-> "limit", absolute |-> FALSE, words |-> None]}

-----------------------------------------------------------------------------
(* Looking a node up *)

\* One token of the loop in Node.find_node
Step(at, word) ==
  IF at = None THEN None
  ELSE IF word = ".." THEN Front(at)
  ELSE IF Append(at, word) \in Nodes THEN Append(at, word)
  ELSE None

\* Node.find_node: pathlib has dropped the "." when the parts are taken.
FindNode(n, r) ==
  LET parts == SelectSeq(IF r.absolute THEN r.words ELSE Front(n) \o r.words,
                         LAMBDA w : w /= ".")
  IN  IF parts = <<>> \/ parts[1] /= n[1] THEN None
      ELSE FoldLeft(Step, <<n[1]>>, Tail(parts))

\* Bunch.find_node
BunchFindNode(r) ==
  IF <<r.words[1]>> \in Nodes THEN FindNode(<<r.words[1]>>, r) ELSE None

\* Node.find_limit_up: up to the flow.
FindLimitUp(n) ==
  LET up == {k \in 1 .. Len(n) : SubSeq(n, 1, k) \in HasLimit}
  IN  IF up = {} THEN None ELSE SubSeq(n, 1, Max(up))

\* The attribute the reference needs is there.
Offers(n, r) ==
  CASE r.kind = "node"     -> n \in Nodes
    [] r.kind = "variable" -> n \in HasEvent
    [] r.kind = "limit"    -> n \in HasLimit

\* bind and validate_references: a path from the root is first a key of the
\* candidate; only another flow is searched in the existing tree.
Bind(n, r, candidate, existing) ==
  LET found ==
        IF r.words = None THEN FindLimitUp(n)
        ELSE IF ~r.absolute THEN FindNode(n, r)
        ELSE IF r.words \in candidate THEN r.words
        ELSE IF existing /\ \A c \in candidate : c[1] /= r.words[1] THEN BunchFindNode(r)
        ELSE None
  IN  IF Offers(found, r) THEN found ELSE None

\* posixpath.normpath of a path from the root
Normal(words) ==
  FoldLeft(LAMBDA at, w : IF w = "." THEN at
                          ELSE IF w = ".." THEN (IF at = <<>> THEN at ELSE Front(at))
                          ELSE Append(at, w), <<>>, words)

\* Mutant: relative to the owner, not to its parent.
ReferencedFromOwner(n, r) ==
  IF r.absolute THEN Normal(r.words)
  ELSE IF Len(n) = 1 THEN None ELSE Normal(n \o r.words)

\* referenced_path.  The parent of a flow is "/", and "/" + "/" + the text
\* keeps its two slashes: no path of the tree has them.
Referenced(n, r) ==
  IF r.absolute THEN Normal(r.words)
  ELSE IF Len(n) = 1 THEN None ELSE Normal(Front(n) \o r.words)

\* _validate_checkpoint_nodes: what the checkpoint takes the reference for; a
\* relative one is also looked up in the live tree.
Captured(n, r) ==
  IF r.words = None THEN FindLimitUp(n)
  ELSE LET target == Referenced(n, r)
       IN  IF Offers(target, r) /\ (r.absolute \/ FindNode(n, r) = target) THEN target ELSE None

-----------------------------------------------------------------------------
(* The life of a reference *)

PathInit ==
  /\ owner \in InFlow(Candidate)
  /\ reference \in References
  /\ stage = "offered" /\ bound = None

\* run_command_load: build_definition with the existing tree
LoadReference ==
  /\ stage = "offered"
  /\ bound' = Bind(owner, reference, InFlow(Candidate), TRUE)
  /\ stage' = IF bound' = None THEN "refused" ELSE "loaded"
  /\ UNCHANGED <<owner, reference>>

\* capture_checkpoint
SaveReference ==
  /\ stage \in {"loaded", "restored"}
  /\ stage' = IF Captured(owner, reference) = None THEN "unsaved" ELSE "saved"
  /\ UNCHANGED <<owner, reference, bound>>

\* restore_checkpoint: the view is validated without a live tree, and every
\* flow is part of the candidate.
RestoreReference ==
  /\ stage = "saved"
  /\ bound' = Bind(owner, reference, Nodes, FALSE)
  /\ stage' = IF bound' = None THEN "lost" ELSE "restored"
  /\ UNCHANGED <<owner, reference>>

PathNext == LoadReference \/ SaveReference \/ RestoreReference

PathSpec == PathInit /\ [][PathNext]_pathVars

-----------------------------------------------------------------------------
(* Properties *)

\* A reference that was loaded can be saved, and the checkpoint takes it for the
\* node it is bound to; only a relative path on the flow itself cannot be.
LoadedIsSaved ==
  /\ stage = "saved" => Captured(owner, reference) = bound
  /\ stage = "unsaved" => Len(owner) = 1 /\ ~reference.absolute

\* What a checkpoint accepts, a restart accepts: a state that could not be
\* restored is refused when it is saved.
\* It does not hold: README, "Also observed".
SavedIsRestored == stage /= "lost"
=============================================================================
