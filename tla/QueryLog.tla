------------------------------ MODULE QueryLog ------------------------------
(***************************************************************************)
(* The change tracker of the query interface (server/query_changes.py): a  *)
(* revision, the changes marked in the open transaction and the window of  *)
(* batches a reader can still ask for.                                     *)
(*                                                                         *)
(* A path is the sequence of names below the root <<>>; a change is a      *)
(* path, the field groups that changed and whether the whole scope is      *)
(* invalid.  Sizes are counted in changes instead of bytes.                *)
(***************************************************************************)
EXTENDS Integers, Sequences, FiniteSets, SequencesExt

CONSTANTS
  MaxChanges,    \* MAX_CHANGES_PER_BATCH
  MaxBatches,    \* MAX_CHANGE_BATCHES
  MaxRetained    \* MAX_RETAINED_CHANGES

Root == <<>>

\* p is q or a descendant of q
Under(p, q) == IsPrefix(q, p)

Change(path, groups, invalidate) == [path |-> path, groups |-> groups, invalidate |-> invalidate]

EmptyLog == [revision |-> 1, oldest |-> 1, batches |-> <<>>, pending |-> {}]

Pending(log, path) == {change \in log.pending : change.path = path}

\* QueryChanges.mark, without the commit: a batch with too many paths becomes
\* one invalidation of the root, which then covers every later mark.
Mark(log, change) ==
  LET old == Pending(log, change.path)
  IN  IF Cardinality(log.pending) >= MaxChanges /\ old = {}
      THEN [log EXCEPT !.pending = {Change(Root, {}, TRUE)}]
      ELSE IF \E x \in Pending(log, Root) : x.invalidate THEN log
      ELSE [log EXCEPT !.pending = (@ \ old) \cup
             {[change EXCEPT !.groups = UNION {x.groups : x \in old \cup {change}},
                             !.invalidate = \E x \in old \cup {change} : x.invalidate]}]

Retained(batches) == FoldLeft(LAMBDA n, b : n + Cardinality(b.changes), 0, batches)

\* QueryChanges._expire: the batches in excess go, and the first `aged` ones
\* with them.
Expire(log, aged) ==
  LET tooMany(n) == LET kept == SubSeq(log.batches, n + 1, Len(log.batches))
                    IN  Len(kept) > MaxBatches \/ Retained(kept) > MaxRetained
      dropped    == CHOOSE n \in 0..Len(log.batches) :
                      /\ n >= aged /\ ~tooMany(n)
                      /\ \A m \in aged..n - 1 : tooMany(m)
  IN  IF dropped = 0 THEN log
      ELSE [log EXCEPT !.oldest = log.batches[dropped].revision,
                       !.batches = SubSeq(@, dropped + 1, Len(@))]

\* QueryChanges._commit
Commit(log) ==
  IF log.pending = {} THEN log
  ELSE Expire([log EXCEPT !.revision = @ + 1,
                          !.batches = Append(@, [revision |-> log.revision + 1,
                                                 changes |-> log.pending]),
                          !.pending = {}], 0)

\* QueryChanges.since, after the expiry: the batches a reader at a revision
\* has not seen, or nothing when the window does not reach that far back.
Reaches(log, revision) == log.oldest <= revision /\ revision <= log.revision
Since(log, revision) == {b \in ToSet(log.batches) : b.revision > revision}
=============================================================================
