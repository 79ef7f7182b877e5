----------------------------- MODULE LimitEdit -----------------------------
(***************************************************************************)
(* A flow, a container and its tasks whose in-limits are taken away while  *)
(* tasks hold them (InLimitManager.delete_in_limit), with the reservations *)
(* that running tasks take and give back (core/limit.py and the in-limit   *)
(* part of core/node.py).  An in-limit is its name, the reference it is    *)
(* written with, the Limit that resolves to, and its tokens; the nearest   *)
(* in-limit of a Limit, from the task upwards, decides how much it takes.  *)
(***************************************************************************)
EXTENDS Integers, Sequences, SequencesExt, FiniteSets, FiniteSetsExt

CONSTANTS Leaves,       \* the tasks, all below the container
          Limits,       \* the Limits
          LimitSize,    \* how many tokens each has
          InLimitItems, \* the in-limits a node may carry
          MaxItems      \* in-limits on one node, at most

LimitEditAssumption ==
  /\ IsFiniteSet(Leaves) /\ LimitSize \in [Limits -> Nat] /\ MaxItems \in Nat
  /\ \A i \in InLimitItems : i.limit \in Limits /\ i.tokens \in 1 .. LimitSize[i.limit]

VARIABLES lists,     \* the in-limits of every node, in order
          running,   \* the tasks in flight
          holders, used

limitVars == <<lists, running, holders, used>>

Above == {"flow", "container"}
\* The node and its ancestors, nearest first
Upwards(n) ==
  CASE n = "flow" -> <<"flow">>
    [] n = "container" -> <<"container", "flow">>
    [] OTHER -> <<n, "container", "flow">>
LeavesBelow(n) == IF n \in Above THEN Leaves ELSE {}

\* InLimitManager.has_in_limit: the same name written with the same reference
HasInLimit(list, i) ==
  \E k \in DOMAIN list : list[k].name = i.name /\ list[k].reference = i.reference

\* add_in_limit refuses a duplicate.
InLimitLists ==
  {s \in UNION {[1..k -> InLimitItems] : k \in 0..MaxItems} :
     \A k \in DOMAIN s : ~HasInLimit(SubSeq(s, 1, k - 1), s[k])}

LimitEditInit ==
  /\ lists \in [Leaves \cup Above -> InLimitLists]
  /\ running = {}
  /\ holders = [l \in Limits |-> {}]
  /\ used = [l \in Limits |-> 0]

\* The in-limits that count for a task, nearest first
Walk(ls, n) == FlattenSeq([k \in DOMAIN Upwards(n) |-> ls[Upwards(n)[k]]])

\* effective_tokens: those of the nearest in-limit of l, 0 for none
EffectiveTokens(walk, l) ==
  LET own == SelectSeq(walk, LAMBDA i : i.limit = l)
  IN  IF own = <<>> THEN 0 ELSE Head(own).tokens

\* Node.check_in_limit_up, Node.increment_in_limit
Start(t) ==
  LET need(l) == EffectiveTokens(Walk(lists, t), l)
  IN  /\ t \notin running
      /\ \A l \in Limits : used[l] + need(l) <= LimitSize[l]
      /\ running' = running \cup {t}
      /\ holders' = [l \in Limits |-> IF need(l) > 0 THEN holders[l] \cup {t} ELSE holders[l]]
      /\ used' = [l \in Limits |-> used[l] + need(l)]
      /\ UNCHANGED lists

\* Node.decrement_in_limit: only for a path the Limit knows
End(t) ==
  LET gives(l) == IF t \in holders[l] THEN EffectiveTokens(Walk(lists, t), l) ELSE 0
  IN  /\ t \in running
      /\ running' = running \ {t}
      /\ holders' = [l \in Limits |-> IF gives(l) > 0 THEN holders[l] \ {t} ELSE holders[l]]
      /\ used' = [l \in Limits |-> used[l] - gives(l)]
      /\ UNCHANGED lists

\* Mutant: what was reserved is given back whole, and nothing taken anew.
ReconcileGivesBack(n, l, old, new) ==
  /\ holders' = [holders EXCEPT ![l] = IF old > 0 THEN @ \ {n} ELSE @]
  /\ used' = [used EXCEPT ![l] = @ - old]

\* The holder of the deleted in-limit keeps what the next one asks for.
Reconcile(n, l, old, new) ==
  /\ holders' = [holders EXCEPT ![l] = IF old > 0 /\ new = 0 THEN @ \ {n} ELSE @]
  /\ used' = [used EXCEPT ![l] = @ - old + new]

\* InLimitManager.delete_in_limit: the first in-limit of that name
DeleteInLimit(n, name) ==
  \E k \in DOMAIN lists[n] :
    LET l == lists[n][k].limit
        shorter == [lists EXCEPT ![n] = RemoveAt(@, k)]
        holds == n \in holders[l]
        old == IF holds THEN EffectiveTokens(Walk(lists, n), l) ELSE 0
        new == IF holds THEN EffectiveTokens(Walk(shorter, n), l) ELSE 0
    IN  /\ lists[n][k].name = name
        /\ \A j \in 1 .. k - 1 : lists[n][j].name # name
        /\ LeavesBelow(n) \cap (running \cup holders[l]) = {}
        /\ used[l] >= old
        /\ used[l] - old + new <= LimitSize[l]
        /\ lists' = shorter
        /\ Reconcile(n, l, old, new)
        /\ UNCHANGED running

LimitEditNext ==
  \/ \E t \in Leaves : Start(t)
  \/ \E t \in Leaves : End(t)
  \/ \E n \in Leaves \cup Above, i \in InLimitItems : DeleteInLimit(n, i.name)

LimitEditSpec == LimitEditInit /\ [][LimitEditNext]_limitVars

\* Whatever in-limits are deleted and whoever runs meanwhile, a Limit is held
\* by exactly the running tasks that an in-limit still binds to it, for
\* exactly their tokens, and never beyond its size: otherwise the next
\* checkpoint is refused (validate_occupancy, serialization/runtime.py).
ReservationsExact ==
  \A l \in Limits :
    LET bound == {t \in running : EffectiveTokens(Walk(lists, t), l) > 0}
    IN  /\ holders[l] = bound
        /\ used[l] = MapThenSumSet(LAMBDA t : EffectiveTokens(Walk(lists, t), l), bound)
        /\ used[l] <= LimitSize[l]
=============================================================================
