------------------------ MODULE TaskLifecycleProofs ------------------------
(***************************************************************************)
(* Theorems about TaskLifecycle, for every set of tasks, Limits, in-limits *)
(* and nodes.  IInv is inductive; every invariant the model checker tries  *)
(* on small instances follows from it, and so do the action properties.    *)
(***************************************************************************)
EXTENDS TaskLifecycle, FiniteSetTheorems, TLAPS

-----------------------------------------------------------------------------
(* Sums of tokens *)

\* The tokens of a set of tasks in one Limit are finitely many.
LEMMA TokensFinite ==
  ASSUME NEW S \in SUBSET Task, NEW l \in Limit
  PROVE  IsFiniteSet(TokenSlots(S, l)) /\ TokensOf(S, l) \in Nat
<1>1. IsFiniteSet(S)
  BY TaskAssumption, FS_Subset
<1>2. IsFiniteSet(1..MaxTokens)
  BY LimitAssumption, FS_Interval
<1>3. IsFiniteSet(S \X (1..MaxTokens))
  BY <1>1, <1>2, FS_Product, Zenon
<1>4. TokenSlots(S, l) \in SUBSET (S \X (1..MaxTokens))
  BY DEF TokenSlots
<1>5. IsFiniteSet(TokenSlots(S, l))
  BY <1>3, <1>4, FS_Subset
<1> QED
  BY <1>5, FS_CardinalityType DEF TokensOf

\* The sum over the union of two disjoint sets of tasks.
LEMMA TokensUnion ==
  ASSUME NEW A \in SUBSET Task, NEW B \in SUBSET Task, A \cap B = {}, NEW l \in Limit
  PROVE  TokensOf(A \cup B, l) = TokensOf(A, l) + TokensOf(B, l)
<1>1. TokenSlots(A \cup B, l) = TokenSlots(A, l) \cup TokenSlots(B, l)
  BY DEF TokenSlots
<1>2. TokenSlots(A, l) \cap TokenSlots(B, l) = {}
  BY DEF TokenSlots
<1>3. IsFiniteSet(TokenSlots(A, l)) /\ IsFiniteSet(TokenSlots(B, l))
  BY TokensFinite
<1>4. Cardinality(TokenSlots(A, l) \cup TokenSlots(B, l)) =
        Cardinality(TokenSlots(A, l)) + Cardinality(TokenSlots(B, l))
          - Cardinality({})
  BY <1>2, <1>3, FS_Union
<1>5. Cardinality({}) = 0
  BY FS_EmptySet
<1>6. TokensOf(A, l) \in Nat /\ TokensOf(B, l) \in Nat
  BY TokensFinite
<1>7. TokensOf(A \cup B, l) = Cardinality(TokenSlots(A, l) \cup TokenSlots(B, l))
  BY <1>1, Zenon DEF TokensOf
<1>8. TokensOf(A \cup B, l) = TokensOf(A, l) + TokensOf(B, l) - 0
  BY <1>4, <1>5, <1>7 DEF TokensOf
<1> QED
  BY <1>6, <1>8

\* The sum over one task is the token count of its in-limit.
LEMMA TokensSingle ==
  ASSUME NEW t \in Task, NEW l \in Limit
  PROVE  TokensOf({t}, l) = Tokens[t][l]
<1> DEFINE n == Tokens[t][l]
           g == [i \in 1..n |-> <<t, i>>]
<1>1. n \in 0..MaxTokens /\ MaxTokens \in Nat /\ n \in Nat
  BY LimitAssumption
<1>2. TokenSlots({t}, l) = {<<t, i>> : i \in 1..n}
  BY <1>1 DEF TokenSlots
<1>3. g \in Bijection(1..n, TokenSlots({t}, l))
  <2>1. g \in [1..n -> TokenSlots({t}, l)]
    BY <1>2
  <2>2. \A i, j \in 1..n : g[i] = g[j] => i = j
    OBVIOUS
  <2>3. \A x \in TokenSlots({t}, l) : \E i \in 1..n : g[i] = x
    BY <1>2
  <2> QED
    BY <2>1, <2>2, <2>3, Zenon DEF Bijection, Injection, Surjection, IsInjective
<1>4. ExistsBijection(1..n, TokenSlots({t}, l))
  BY <1>3, Zenon DEF ExistsBijection
<1>5. IsFiniteSet(1..n) /\ Cardinality(1..n) = n
  <2> HIDE DEF n
  <2>1. n \in Nat
    BY <1>1
  <2>2. /\ IsFiniteSet(1..n)
        /\ Cardinality(1..n) = IF 1 > n THEN 0 ELSE n - 1 + 1
    BY <2>1, FS_Interval
  <2> QED
    BY <2>1, <2>2
<1> QED
  BY <1>4, <1>5, FS_Bijection DEF TokensOf

-----------------------------------------------------------------------------
(* Writing task records *)

\* What the code does to a Limit keeps it exact: Task.update_limits for the
\* tasks of U, after they took the records f, makes the Limit's occupants
\* again the tasks in flight and its value the sum of their tokens.  The
\* reset in Limit.decrement is never taken.
LEMMA LimitsStayExact ==
  ASSUME TypeOK, LimitAccounting,
         NEW U \in SUBSET Task, NEW f, \A t \in U : f[t].status \in Status,
         \A t \in U : f[t].status \in InFlight => t \notin Unresolved,
         Write(U, f), NEW l \in Limit
  PROVE  /\ held'[l] = Users(l)'
         /\ value'[l] = TokensOf(held'[l], l)
         /\ Entering(U, f, l) = {} => value'[l] <= value[l]
         /\ Remaining(U, f, l) = TokensOf(held[l] \ Leaving(U, f, l), l)
<1> DEFINE H == held[l]
           L == Leaving(U, f, l)
           E == Entering(U, f, l)
<1>1. H \in SUBSET Task /\ L \in SUBSET H /\ E \in SUBSET Task /\ E \cap H = {}
  BY DEF TypeOK, Leaving, Entering
<1>2. H = Users(l) /\ value[l] = TokensOf(H, l)
  BY DEF LimitAccounting
<1>3. TokensOf(H, l) = TokensOf(H \ L, l) + TokensOf(L, l)
  <2>1. (H \ L) \cup L = H /\ (H \ L) \cap L = {}
    BY <1>1
  <2>2. TokensOf((H \ L) \cup L, l) = TokensOf(H \ L, l) + TokensOf(L, l)
    BY <1>1, <2>1, TokensUnion
  <2> QED
    BY <2>1, <2>2, Zenon
<1>4. /\ TokensOf(H, l) \in Nat /\ TokensOf(H \ L, l) \in Nat
      /\ TokensOf(L, l) \in Nat /\ TokensOf(E, l) \in Nat
  BY <1>1, TokensFinite
<1>5. Remaining(U, f, l) = TokensOf(H \ L, l)
  BY <1>2, <1>3, <1>4 DEF Remaining
<1>6. ~(Remaining(U, f, l) < 0)
  BY <1>4, <1>5
<1>7. held'[l] = (H \ L) \cup E
  BY <1>6 DEF Write, UpdateLimits
<1>8. value'[l] = TokensOf(H \ L, l) + TokensOf(E, l)
  BY <1>5, <1>6 DEF Write, UpdateLimits
<1>9. TokensOf((H \ L) \cup E, l) = TokensOf(H \ L, l) + TokensOf(E, l)
  BY <1>1, TokensUnion
<1>10. value'[l] = TokensOf(held'[l], l)
  BY <1>7, <1>8, <1>9, Zenon
<1>11. held'[l] = Users(l)'
  <2>1. \A t \in Task : task'[t] = IF t \in U THEN f[t] ELSE task[t]
    BY DEF Write
  <2>2. \A t \in Task : t \in (H \ L) \cup E <=>
          l \in InLimits[t] /\ task'[t].status \in InFlight
    BY <1>2, <2>1 DEF Users, Leaving, Entering
  <2> QED
    BY <1>1, <1>7, <2>2 DEF Users
<1>12. E = {} => value'[l] <= value[l]
  <2> SUFFICES ASSUME E = {} PROVE value'[l] <= value[l]
    OBVIOUS
  <2>1. TokensOf(E, l) = 0
    <3>1. TokenSlots({}, l) = {}
      BY DEF TokenSlots
    <3> QED
      BY <3>1, FS_EmptySet, Zenon DEF TokensOf
  <2> QED
    BY <1>2, <1>3, <1>4, <1>8, <2>1
<1> QED
  BY <1>5, <1>10, <1>11, <1>12

\* A write that brings no task into flight keeps the invariant, provided the
\* new records are consistent.
LEMMA WriteKeepsIInv ==
  ASSUME IInv, NEW U \in SUBSET Task, NEW f, Write(U, f),
         UNCHANGED issued, begun' \in BOOLEAN, causes' \subseteq Causes,
         stopping' \in BOOLEAN,
         \A t \in U : /\ RecordOK(t, f[t], issued[t])
                      /\ f[t].status \in InFlight => task[t].status \in InFlight
  PROVE  IInv'
<1>1. \A t \in U : f[t].status \in Status
  BY DEF RecordOK, TaskState
<1>2. \A t \in U : f[t].status \in InFlight => t \notin Unresolved
  BY DEF RecordOK
<1>3. ASSUME NEW l \in Limit
      PROVE  /\ held'[l] = Users(l)' /\ value'[l] = TokensOf(held'[l], l)
             /\ value'[l] <= Capacity[l]
  <2>1. /\ held'[l] = Users(l)' /\ value'[l] = TokensOf(held'[l], l)
        /\ Entering(U, f, l) = {} => value'[l] <= value[l]
    BY <1>1, <1>2, LimitsStayExact, Zenon DEF IInv
  <2>2. Entering(U, f, l) = {}
    BY DEF IInv, LimitAccounting, Users, Entering
  <2>3. held'[l] \in SUBSET Task
    BY <2>1 DEF Users
  <2>4. value[l] \in Int /\ value'[l] \in Int /\ value[l] <= Capacity[l] /\ Capacity[l] \in Nat
    BY <2>1, <2>3, TokensFinite, LimitAssumption DEF IInv, TypeOK, LimitAccounting
  <2> QED
    BY <2>1, <2>2, <2>4
<1>4. LimitAccounting'
  BY <1>3 DEF LimitAccounting
<1>5. \A t \in Task : task'[t] = IF t \in U THEN f[t] ELSE task[t]
  BY DEF Write
<1>6. \A t \in Task : RecordOK(t, task'[t], issued'[t])
  BY <1>5 DEF IInv
<1>7. TypeOK'
  <2>1. task' \in [Task -> TaskState]
    BY <1>5, <1>6 DEF Write, RecordOK
  <2>2. held' \in [Limit -> SUBSET Task] /\ value' \in [Limit -> Int]
    <3>1. \A l \in Limit : held'[l] \in SUBSET Task
      BY <1>3 DEF Users
    <3>2. \A l \in Limit : value'[l] \in Int
      BY <1>3, <3>1, TokensFinite
    <3> QED
      BY <3>1, <3>2 DEF Write, UpdateLimits
  <2> QED
    BY <2>1, <2>2 DEF TypeOK, IInv
<1> QED
  BY <1>4, <1>6, <1>7 DEF IInv

-----------------------------------------------------------------------------
(* The records the handlers write are consistent *)

\* Outside flight a record needs no identity; the handlers keep the rest.
LEMMA EndedOK ==
  ASSUME NEW t \in Task, NEW r \in TaskState, NEW n \in Nat, r.attempt <= n,
         r.tryNo = 0 => r.attempt = 0, NEW s \in Status \ InFlight
  PROVE  /\ RecordOK(t, SetStatus(r, s), n)
         /\ RecordOK(t, [r EXCEPT !.status = s, !.unknown = FALSE], n)
         /\ SetStatus(r, s).status = s
         /\ [r EXCEPT !.status = s, !.unknown = FALSE].status = s
  BY Zenon DEF RecordOK, SetStatus, TaskState, InFlight

\* The same for the records a report, a callback or a complete trigger writes.
LEMMA StatusOK ==
  ASSUME IInv, NEW t \in Task, NEW s \in {"complete", "aborted"}
  PROVE  /\ RecordOK(t, SetStatus(task[t], s), issued[t])
         /\ SetStatus(task[t], s).status \notin InFlight
         /\ RecordOK(t, Reported(t, s), issued[t])
         /\ Reported(t, s).status \notin InFlight
<1>1. /\ task[t] \in TaskState /\ issued[t] \in Nat /\ task[t].attempt <= issued[t]
      /\ task[t].tryNo = 0 => task[t].attempt = 0
  BY DEF IInv, TypeOK, RecordOK
<1>2. s \in Status \ InFlight
  BY DEF Status, InFlight
<1> QED
  BY <1>1, <1>2, EndedOK, Zenon DEF Reported

\* A requeued task is consistent and not in flight.
LEMMA RequeuedOK ==
  ASSUME NEW S, NEW t \in Task, NEW r \in TaskState, NEW n \in Nat
  PROVE  /\ RecordOK(t, Requeued(S, t, r), n)
         /\ Requeued(S, t, r).status \notin InFlight
         /\ Requeued(S, t, r).attempt = 0
<1>1. DefaultStatus(S, t) \in {"complete", "queued"}
  BY DEF DefaultStatus
<1> DEFINE c == ClearAttempt(r)
<1>2. c \in TaskState /\ c.attempt = 0 /\ c.unknown = FALSE
  BY Zenon DEF ClearAttempt, TaskState
<1>3. Requeued(S, t, r) = [c EXCEPT !.tryNo = 0, !.status = DefaultStatus(S, t)]
  BY DEF Requeued
<1> HIDE DEF c
<1> DEFINE q == [c EXCEPT !.tryNo = 0, !.status = DefaultStatus(S, t)]
<1>4. q \in TaskState
  BY <1>1, <1>2, Zenon DEF TaskState, Status
<1>5. q.status \in {"complete", "queued"} /\ q.attempt = 0 /\ q.unknown = FALSE
  BY <1>1, <1>2 DEF TaskState
<1>6. q = Requeued(S, t, r)
  BY <1>3
<1> HIDE DEF q
<1> QED
  BY <1>4, <1>5, <1>6 DEF RecordOK, InFlight

\* Tasks of U that leave or stay out of flight, and a repeat that may follow.
LEMMA WriteAndRepeatKeepsIInv ==
  ASSUME IInv, NEW U \in SUBSET Task, NEW f, WriteAndRepeat(U, f),
         UNCHANGED <<issued, begun, causes, stopping>>,
         \A t \in U : RecordOK(t, f[t], issued[t]) /\ f[t].status \notin InFlight
  PROVE  IInv'
<1>1. CASE Write(U, f)
  BY <1>1, WriteKeepsIInv, Zenon DEF IInv, TypeOK
<1>2. ASSUME NEW R \in Repeating,
             Write(R, [t \in R |-> Requeued(R, t, IF t \in U THEN f[t] ELSE task[t])])
      PROVE  IInv'
  <2> DEFINE g == [t \in R |-> Requeued(R, t, IF t \in U THEN f[t] ELSE task[t])]
  <2>1. R \in SUBSET Task
    BY NodeAssumption
  <2>2. \A t \in R : (IF t \in U THEN f[t] ELSE task[t]) \in TaskState /\ issued[t] \in Nat
    BY <2>1 DEF IInv, RecordOK, TypeOK
  <2>3. \A t \in R : RecordOK(t, g[t], issued[t]) /\ g[t].status \notin InFlight
    BY <2>1, <2>2, RequeuedOK
  <2>4. Write(R, g)
    BY <1>2
  <2> HIDE DEF g
  <2> QED
    BY <2>1, <2>3, <2>4, WriteKeepsIInv, Zenon DEF IInv, TypeOK
<1> QED
  BY <1>1, <1>2, Zenon DEF WriteAndRepeat

\* The record after Task.increment_try_no and the outcome of do_run.
LEMMA NewAttemptOK ==
  ASSUME IInv, NEW t \in Task, NEW s \in {"submitted", "aborted"}, t \notin Unresolved
  PROVE  RecordOK(t, SetStatus(NewAttempt(t), s), issued[t] + 1)
<1>1. task[t] \in TaskState /\ issued[t] \in Nat
  BY DEF IInv, TypeOK
<1> DEFINE a == NewAttempt(t)
<1>2. /\ a \in TaskState /\ a.attempt = issued[t] + 1 /\ a.password = a.attempt
      /\ a.tryNo # 0 /\ a.unknown = FALSE
  <2>1. task[t].tryNo \in Nat /\ task[t].tryNo + 1 \in Nat /\ task[t].tryNo + 1 # 0
    BY <1>1 DEF TaskState
  <2>2. issued[t] + 1 \in Nat
    BY <1>1
  <2>3. a \in TaskState
    BY <1>1, <2>1, <2>2, Zenon DEF NewAttempt, TaskState
  <2>4. /\ a.attempt = issued[t] + 1 /\ a.password = issued[t] + 1
        /\ a.tryNo = task[t].tryNo + 1 /\ a.unknown = FALSE
    BY <1>1 DEF NewAttempt, TaskState
  <2> QED
    BY <2>1, <2>3, <2>4
<1> HIDE DEF a
<1>3. RecordOK(t, SetStatus(a, s), issued[t] + 1)
  <2> DEFINE b == SetStatus(a, s)
  <2>1. b \in TaskState
    BY <1>2, Zenon DEF SetStatus, TaskState, Status, InFlight
  <2>2. /\ b.attempt = a.attempt /\ b.password = a.password /\ b.tryNo = a.tryNo
        /\ b.unknown = FALSE
    BY <1>2 DEF SetStatus, TaskState
  <2> HIDE DEF b
  <2>3. RecordOK(t, b, issued[t] + 1)
    BY <1>1, <1>2, <2>1, <2>2 DEF RecordOK
  <2> QED
    BY <2>3 DEF b
<1> QED
  BY <1>3 DEF a

\* Task.run: the capacity is checked against the tokens the task adds.
LEMMA RunKeepsIInv ==
  ASSUME IInv, NEW t \in Task, Run(t)
  PROVE  IInv'
<1>1. PICK s \in {"submitted", "aborted"} :
        Write({t}, [u \in {t} |-> SetStatus(NewAttempt(t), s)])
  BY DEF Run
<1> DEFINE f == [u \in {t} |-> SetStatus(NewAttempt(t), s)]
<1>2. t \notin Unresolved /\ issued' = [issued EXCEPT ![t] = @ + 1]
  BY DEF Run, CheckInLimitUp
<1>3. RecordOK(t, f[t], issued[t] + 1)
  BY <1>2, NewAttemptOK
<1>4. Write({t}, f)
  BY <1>1
<1>5. \A u \in {t} : f[u].status \in Status /\ u \notin Unresolved
  BY <1>2, <1>3 DEF RecordOK, TaskState
<1> HIDE DEF f
<1>6. ASSUME NEW l \in Limit
      PROVE  /\ held'[l] = Users(l)' /\ value'[l] = TokensOf(held'[l], l)
             /\ value'[l] <= Capacity[l] /\ value'[l] \in Int
  <2>1. /\ held'[l] = Users(l)' /\ value'[l] = TokensOf(held'[l], l)
        /\ Entering({t}, f, l) = {} => value'[l] <= value[l]
        /\ Remaining({t}, f, l) = TokensOf(held[l] \ Leaving({t}, f, l), l)
    BY <1>4, <1>5, LimitsStayExact, Zenon DEF IInv
  <2>2. held'[l] \in SUBSET Task
    BY <2>1 DEF Users
  <2>3. value[l] \in Int /\ value'[l] \in Int /\ value[l] <= Capacity[l] /\ Capacity[l] \in Nat
    BY <2>1, <2>2, TokensFinite, LimitAssumption DEF IInv, TypeOK, LimitAccounting
  <2>4. CASE Entering({t}, f, l) = {}
    BY <2>1, <2>3, <2>4
  <2>5. CASE Entering({t}, f, l) # {}
    <3>1. Entering({t}, f, l) = {t} /\ l \in InLimits[t] /\ t \notin held[l]
      BY <2>5 DEF Entering
    <3>2. Leaving({t}, f, l) = {}
      BY <3>1 DEF Leaving
    <3>3. value[l] + Tokens[t][l] <= Capacity[l] /\ Tokens[t][l] \in Nat
      BY <3>1, LimitAssumption DEF Run, CheckInLimitUp
    <3>4. held'[l] = held[l] \cup {t} \/ held'[l] = {t}
      <4>1. held'[l] = (IF Remaining({t}, f, l) < 0 THEN {} ELSE held[l] \ {}) \cup {t}
        BY <1>4, <3>1, <3>2, Zenon DEF Write, UpdateLimits
      <4> QED
        BY <4>1
    <3>5. held[l] \in SUBSET Task /\ held[l] \cap {t} = {} /\ value[l] = TokensOf(held[l], l)
      BY <3>1 DEF IInv, TypeOK, LimitAccounting
    <3>6. TokensOf(held[l] \cup {t}, l) = value[l] + Tokens[t][l]
      <4>1. TokensOf(held[l] \cup {t}, l) = TokensOf(held[l], l) + TokensOf({t}, l)
        BY <3>5, TokensUnion
      <4> QED
        BY <3>5, <4>1, TokensSingle
    <3>7. TokensOf({t}, l) = Tokens[t][l] /\ value[l] >= 0
      BY <3>5, TokensSingle, TokensFinite
    <3>8. value'[l] = value[l] + Tokens[t][l] \/ value'[l] = Tokens[t][l]
      BY <2>1, <3>4, <3>6, <3>7, Zenon
    <3> QED
      BY <2>1, <2>3, <3>3, <3>7, <3>8
  <2> QED
    BY <2>1, <2>3, <2>4, <2>5
<1>7. LimitAccounting'
  BY <1>6 DEF LimitAccounting
<1>8. \A u \in Task : RecordOK(u, task'[u], issued'[u])
  BY <1>2, <1>3, <1>4 DEF Write, IInv, TypeOK
<1>9. TypeOK'
  <2>1. task' \in [Task -> TaskState]
    BY <1>4, <1>8 DEF Write, RecordOK
  <2>2. issued' \in [Task -> Nat]
    BY <1>2 DEF IInv, TypeOK
  <2>3. \A l \in Limit : held'[l] \in SUBSET Task
    BY <1>6 DEF Users
  <2>4. held' \in [Limit -> SUBSET Task] /\ value' \in [Limit -> Int]
    BY <1>4, <1>6, <2>3, Zenon DEF Write, UpdateLimits
  <2> QED
    BY <2>1, <2>2, <2>4 DEF Run, TypeOK, IInv
<1> QED
  BY <1>7, <1>8, <1>9 DEF IInv

\* Scheduler._force_path: an in-flight status is only given to a task that is
\* in flight with a complete identity.
LEMMA ForcedOK ==
  ASSUME IInv, NEW t \in Task, NEW s \in Status, ForceAllowed(t, s),
         task[t].unknown => s \notin InFlight
  PROVE  /\ RecordOK(t, Forced(t, s), issued[t])
         /\ Forced(t, s).status = s
         /\ s \in InFlight => task[t].status \in InFlight
<1>1. task[t] \in TaskState /\ issued[t] \in Nat /\ RecordOK(t, task[t], issued[t])
  BY DEF IInv, TypeOK
<1>2. CASE s \notin InFlight
  <2> DEFINE c == IF s = "queued" THEN ClearAttempt(task[t]) ELSE task[t]
  <2>1. c \in TaskState /\ c.attempt <= issued[t] /\ (c.tryNo = 0 => c.attempt = 0)
    <3>1. ClearAttempt(task[t]) \in TaskState /\ ClearAttempt(task[t]).attempt = 0
      BY <1>1, Zenon DEF ClearAttempt, TaskState
    <3> QED
      BY <1>1, <3>1 DEF RecordOK
  <2>2. Forced(t, s) = SetStatus(c, s)
    BY DEF Forced
  <2> HIDE DEF c
  <2>3. s \in Status \ InFlight
    BY <1>2
  <2>4. RecordOK(t, SetStatus(c, s), issued[t]) /\ SetStatus(c, s).status = s
    BY <1>1, <2>1, <2>3, EndedOK, Zenon
  <2> QED
    BY <1>2, <2>2, <2>4
<1>3. CASE s \in InFlight
  <2>1. task[t].status \in InFlight /\ task[t].unknown = FALSE
    BY <1>1, <1>3 DEF ForceAllowed, TaskState
  <2>2. Forced(t, s) = SetStatus(task[t], s)
    BY <1>3 DEF Forced, InFlight
  <2>3. /\ SetStatus(task[t], s) \in TaskState
        /\ SetStatus(task[t], s).status = s /\ SetStatus(task[t], s).unknown = FALSE
        /\ SetStatus(task[t], s).attempt = task[t].attempt
        /\ SetStatus(task[t], s).password = task[t].password
        /\ SetStatus(task[t], s).tryNo = task[t].tryNo
    BY <1>1, <2>1, Zenon DEF SetStatus, TaskState
  <2> QED
    BY <1>1, <2>1, <2>2, <2>3 DEF RecordOK
<1> QED
  BY <1>2, <1>3

-----------------------------------------------------------------------------
(* The invariant is inductive *)

\* A newly loaded flow satisfies the invariant.
LEMMA InitIInv == Init => IInv
<1> SUFFICES ASSUME Init PROVE IInv
  OBVIOUS
<1>1. Fresh \in TaskState
  BY DEF Fresh, TaskState, Status
<1>2. TypeOK
  <2>1. causes \subseteq Causes
    BY DEF Init
  <2>2. task \in [Task -> TaskState] /\ issued \in [Task -> Nat]
    BY <1>1 DEF Init
  <2>3. held \in [Limit -> SUBSET Task] /\ value \in [Limit -> Int]
    BY DEF Init
  <2>4. begun \in BOOLEAN /\ stopping \in BOOLEAN
    BY Zenon DEF Init
  <2> QED
    BY <2>1, <2>2, <2>3, <2>4 DEF TypeOK
<1>3. \A t \in Task : RecordOK(t, task[t], issued[t])
  BY <1>1 DEF Init, RecordOK, Fresh, InFlight
<1>4. ASSUME NEW l \in Limit
      PROVE  held[l] = Users(l) /\ value[l] = TokensOf(held[l], l) /\ value[l] <= Capacity[l]
  <2>1. Users(l) = {} /\ held[l] = {} /\ value[l] = 0
    BY DEF Init, Users, Fresh, InFlight
  <2>2. TokenSlots({}, l) = {}
    BY DEF TokenSlots
  <2>3. TokensOf({}, l) = 0
    BY <2>2, FS_EmptySet, Zenon DEF TokensOf
  <2> QED
    BY <2>1, <2>3, LimitAssumption
<1> QED
  BY <1>2, <1>3, <1>4 DEF IInv, LimitAccounting

\* Only fields the accounting does not read change.
LEMMA SubmissionUnknownKeepsIInv ==
  ASSUME IInv, NEW t \in Task, SubmissionUnknown(t)
  PROVE  IInv'
<1> DEFINE r == [task[t] EXCEPT !.unknown = TRUE]
<1>1. task[t] \in TaskState /\ RecordOK(t, task[t], issued[t]) /\ task[t].status = "submitted"
  BY DEF IInv, TypeOK, SubmissionUnknown
<1>2. /\ r \in TaskState /\ r.status = task[t].status /\ r.attempt = task[t].attempt
      /\ r.password = task[t].password /\ r.tryNo = task[t].tryNo
  BY <1>1, Zenon DEF TaskState
<1>3. \A u \in Task : task'[u] = IF u = t THEN r ELSE task[u]
  BY DEF SubmissionUnknown, IInv, TypeOK
<1> HIDE DEF r
<1>4. \A u \in Task : RecordOK(u, task'[u], issued'[u])
  <2>1. RecordOK(t, r, issued[t])
    BY <1>1, <1>2 DEF RecordOK, InFlight
  <2>2. \A u \in Task : RecordOK(u, task[u], issued[u])
    BY DEF IInv
  <2> QED
    BY <1>3, <2>1, <2>2, Zenon DEF SubmissionUnknown
<1>5. TypeOK'
  <2>1. task' \in [Task -> TaskState]
    BY <1>4, Zenon DEF RecordOK, SubmissionUnknown, IInv, TypeOK
  <2> QED
    BY <2>1 DEF SubmissionUnknown, IInv, TypeOK
<1>6. LimitAccounting'
  <2>1. \A l \in Limit : Users(l)' = Users(l)
    BY <1>2, <1>3 DEF Users
  <2> QED
    BY <2>1 DEF LimitAccounting, IInv, SubmissionUnknown
<1> QED
  BY <1>4, <1>5, <1>6 DEF IInv

\* Every handler preserves the invariant.
LEMMA NextIInv == IInv /\ [Next]_vars => IInv'
<1> SUFFICES ASSUME IInv, [Next]_vars PROVE IInv'
  OBVIOUS
<1>a. /\ \A t \in Task : /\ task[t] \in TaskState /\ issued[t] \in Nat
                         /\ task[t].attempt <= issued[t]
      /\ begun \in BOOLEAN /\ stopping \in BOOLEAN /\ causes \subseteq Causes
      /\ \A S \in Subtree : S \in SUBSET Task
  BY NodeAssumption DEF IInv, TypeOK, RecordOK
<1>1. ASSUME NEW t \in Task, ScanRun(t) \/ \E force \in BOOLEAN : RunCommand(t, force)
      PROVE  IInv'
  BY <1>1, RunKeepsIInv DEF ScanRun, RunCommand
<1>2. ASSUME NEW t \in Task, ScanComplete(t)
      PROVE  IInv'
  <2> DEFINE f == [u \in {t} |-> SetStatus(task[u], "complete")]
  <2>1. \A u \in {t} : RecordOK(u, f[u], issued[u]) /\ f[u].status \notin InFlight
    BY StatusOK
  <2>2. WriteAndRepeat({t}, f) /\ UNCHANGED <<issued, begun, causes, stopping>>
    BY <1>2 DEF ScanComplete
  <2> HIDE DEF f
  <2> QED
    BY <2>1, <2>2, WriteAndRepeatKeepsIInv
<1>3. ASSUME NEW t \in Task, NEW n, NEW r \in Rid, ChildInit(t, n, r)
      PROVE  IInv'
  <2> DEFINE f == [u \in {t} |-> [Reported(t, "active") EXCEPT !.rid = r]]
  <2>1. RecordOK(t, task[t], issued[t]) /\ task[t].status \in InFlight
    BY <1>3 DEF IInv, ChildInit, GuardAttempt
  <2>2. /\ f[t] \in TaskState /\ f[t].status = "active" /\ f[t].unknown = FALSE
        /\ f[t].attempt = task[t].attempt /\ f[t].password = task[t].password
        /\ f[t].tryNo = task[t].tryNo
    <3>0. task[t] \in TaskState
      BY <1>a
    <3> DEFINE b == Reported(t, "active")
    <3>1. /\ b \in TaskState /\ b.status = "active" /\ b.unknown = FALSE
          /\ b.attempt = task[t].attempt /\ b.password = task[t].password
          /\ b.tryNo = task[t].tryNo
      BY <3>0, Zenon DEF Reported, TaskState, Status, InFlight
    <3>2. f[t] = [b EXCEPT !.rid = r]
      OBVIOUS
    <3> HIDE DEF b, f
    <3> QED
      BY <3>1, <3>2 DEF TaskState
  <2>3. Write({t}, f) /\ UNCHANGED <<issued, begun, causes, stopping>>
    BY <1>3 DEF ChildInit
  <2> HIDE DEF f
  <2>4. \A u \in {t} : RecordOK(u, f[u], issued[u]) /\ task[u].status \in InFlight
    BY <2>1, <2>2 DEF RecordOK
  <2> QED
    BY <1>a, <2>3, <2>4, WriteKeepsIInv
<1>4. ASSUME NEW t \in Task, NEW n, ChildComplete(t, n)
      PROVE  IInv'
  <2> DEFINE f == [u \in {t} |-> Reported(t, "complete")]
  <2>1. \A u \in {t} : RecordOK(u, f[u], issued[u]) /\ f[u].status \notin InFlight
    BY StatusOK
  <2>2. WriteAndRepeat({t}, f) /\ UNCHANGED <<issued, begun, causes, stopping>>
    BY <1>4 DEF ChildComplete
  <2> HIDE DEF f
  <2> QED
    BY <2>1, <2>2, WriteAndRepeatKeepsIInv
<1>5. ASSUME NEW U \in SUBSET Task, Write(U, [t \in U |-> Reported(t, "aborted")]),
             UNCHANGED <<issued, begun>>, causes' \subseteq Causes, stopping' \in BOOLEAN
      PROVE  IInv'
  <2> DEFINE f == [t \in U |-> Reported(t, "aborted")]
  <2>1. \A t \in U : RecordOK(t, f[t], issued[t]) /\ f[t].status \notin InFlight
    BY StatusOK
  <2>2. Write(U, f)
    BY <1>5
  <2> HIDE DEF f
  <2> QED
    BY <1>5, <1>a, <2>1, <2>2, WriteKeepsIInv
<1>6. ASSUME NEW t \in Task, SubmissionFails(t) \/ \E n \in 1..issued[t] : ChildAbort(t, n)
      PROVE  IInv'
  <2>1. /\ Write({t}, [u \in {t} |-> Reported(t, "aborted")])
        /\ UNCHANGED <<issued, begun, causes, stopping>>
    BY <1>6 DEF SubmissionFails, ChildAbort
  <2>2. [u \in {t} |-> Reported(t, "aborted")] = [u \in {t} |-> Reported(u, "aborted")]
    OBVIOUS
  <2>3. Write({t}, [u \in {t} |-> Reported(u, "aborted")])
    BY <2>1, <2>2, Zenon
  <2>4. {t} \in SUBSET Task /\ causes' \subseteq Causes /\ stopping' \in BOOLEAN
    BY <1>a, <2>1
  <2> QED
    BY <1>5, <2>1, <2>3, <2>4, Zenon
<1>7. ASSUME NEW t \in Task, NEW s \in Status, ForceTask(t, s)
      PROVE  IInv'
  <2> DEFINE f == [u \in {t} |-> Forced(u, s)]
  <2>1. /\ RecordOK(t, Forced(t, s), issued[t]) /\ Forced(t, s).status = s
        /\ s \in InFlight => task[t].status \in InFlight
    BY <1>7, ForcedOK DEF ForceTask, InFlight
  <2>2. \A u \in {t} : /\ RecordOK(u, f[u], issued[u]) /\ f[u].status = s
                       /\ f[u].status \in InFlight => task[u].status \in InFlight
    BY <2>1
  <2>3. /\ Write({t}, f) \/ (s \in {"complete", "unknown"} /\ WriteAndRepeat({t}, f))
        /\ UNCHANGED <<issued, begun, causes, stopping>>
    BY <1>7 DEF ForceTask
  <2> HIDE DEF f
  <2>4. CASE Write({t}, f)
    BY <1>a, <2>2, <2>3, <2>4, WriteKeepsIInv
  <2>5. CASE s \in {"complete", "unknown"} /\ WriteAndRepeat({t}, f)
    <3>1. \A u \in {t} : f[u].status \notin InFlight
      BY <2>2, <2>5 DEF InFlight
    <3> QED
      BY <2>2, <2>3, <2>5, <3>1, WriteAndRepeatKeepsIInv
  <2> QED
    BY <2>3, <2>4, <2>5
<1>8. ASSUME NEW S \in Subtree, NEW s \in Status, ForceTree(S, s)
      PROVE  IInv'
  <2> DEFINE f == [t \in S |-> Forced(t, s)]
  <2>1. \A t \in S : /\ RecordOK(t, Forced(t, s), issued[t]) /\ Forced(t, s).status = s
                     /\ s \in InFlight => task[t].status \in InFlight
    BY <1>8, <1>a, ForcedOK DEF ForceTree
  <2>2. \A t \in S : /\ RecordOK(t, f[t], issued[t]) /\ f[t].status = s
                     /\ f[t].status \in InFlight => task[t].status \in InFlight
    BY <2>1
  <2>3. /\ Write(S, f) \/ (s \in {"complete", "unknown"} /\ WriteAndRepeat(S, f))
        /\ UNCHANGED <<issued, begun, causes, stopping>>
    BY <1>8 DEF ForceTree
  <2> HIDE DEF f
  <2>4. CASE Write(S, f)
    BY <1>a, <2>2, <2>3, <2>4, WriteKeepsIInv
  <2>5. CASE s \in {"complete", "unknown"} /\ WriteAndRepeat(S, f)
    <3>1. \A t \in S : f[t].status \notin InFlight
      BY <2>2, <2>5 DEF InFlight
    <3> QED
      BY <1>a, <2>2, <2>3, <2>5, <3>1, WriteAndRepeatKeepsIInv
  <2> QED
    BY <2>3, <2>4, <2>5
<1>9. ASSUME NEW S \in Subtree, Write(S, [t \in S |-> Requeued(S, t, task[t])]),
             UNCHANGED <<issued, causes, stopping>>, begun' \in BOOLEAN
      PROVE  IInv'
  <2> DEFINE f == [t \in S |-> Requeued(S, t, task[t])]
  <2>1. \A t \in S : RecordOK(t, f[t], issued[t]) /\ f[t].status \notin InFlight
    BY <1>a, RequeuedOK
  <2>2. Write(S, f)
    BY <1>9
  <2> HIDE DEF f
  <2> QED
    BY <1>9, <1>a, <2>1, <2>2, WriteKeepsIInv
<1>10. ASSUME NEW force \in BOOLEAN, Begin(force) PROVE IInv'
  BY <1>9, <1>10, NodeAssumption DEF Begin
<1>11. ASSUME NEW S \in Subtree, Requeue(S) PROVE IInv'
  BY <1>9, <1>11, <1>a DEF Requeue
<1>12. ASSUME NEW S \in SUBSET Task, ServerHalt(S) \/ BeginShutdown(S) PROVE IInv'
  <2>1. /\ Write(S, [t \in S |-> Reported(t, "aborted")])
        /\ UNCHANGED <<issued, begun>> /\ causes' \subseteq Causes /\ stopping' \in BOOLEAN
    BY <1>12, <1>a, Zenon DEF ServerHalt, BeginShutdown, SkipPending
  <2> QED
    BY <1>5, <2>1
<1>13. ASSUME UNCHANGED <<task, issued, held, value, begun, stopping>>, causes' \subseteq Causes
       PROVE  IInv'
  BY <1>13 DEF IInv, TypeOK, LimitAccounting, Users
<1>14. CASE ServerResume \/ \E success \in BOOLEAN : CheckpointOutcome(success)
  <2>1. causes' \subseteq Causes
    BY <1>14, <1>a DEF ServerResume, CheckpointOutcome
  <2> QED
    BY <1>13, <1>14, <2>1 DEF ServerResume, CheckpointOutcome
<1>15. CASE UNCHANGED vars
  BY <1>13, <1>15, <1>a DEF vars
<1> QED
  BY <1>1, <1>2, <1>3, <1>4, <1>6, <1>7, <1>8, <1>10, <1>11, <1>12, <1>14, <1>15,
     SubmissionUnknownKeepsIInv DEF Next

-----------------------------------------------------------------------------
(* Theorems *)

\* The invariant holds in every state of every behaviour.
THEOREM Invariance == Spec => []IInv
<1>1. Init => IInv
  BY InitIInv
<1>2. IInv /\ [Next]_vars => IInv'
  BY NextIInv
<1> QED
  BY <1>1, <1>2, PTL DEF Spec

\* Type correctness of the task records, the Limits and the service state.
THEOREM TypeCorrect == Spec => []TypeOK
<1>1. IInv => TypeOK
  BY DEF IInv
<1> QED
  BY <1>1, Invariance, PTL

\* A Limit is occupied by exactly the tasks in flight that need it, its value
\* is the sum of their tokens and never exceeds the limit.
THEOREM LimitsExact == Spec => []LimitAccounting
<1>1. IInv => LimitAccounting
  BY DEF IInv
<1> QED
  BY <1>1, Invariance, PTL

\* Whatever commands, reports and failures a task has been through, a
\* checkpoint accepts it (NodeRuntime.conditional_fields).
THEOREM AlwaysRestorable == Spec => []RunsAreRestorable
<1>1. IInv => RunsAreRestorable
  BY DEF IInv, RecordOK, ConditionalFields, RunsAreRestorable
<1> QED
  BY <1>1, Invariance, PTL

-----------------------------------------------------------------------------
(* What one step can do to a task *)

\* A change of a record that starts no run: the attempt stays or is dropped, the
\* task does not come into flight, and a mark is settled.
RecordStep(r, q) ==
  /\ q.attempt \in {0, r.attempt}
  /\ q.status \in InFlight => r.status \in InFlight
  /\ r.unknown => \/ q = r
                  \/ q.attempt = r.attempt /\ q.status \in {"active", "complete", "aborted"}

\* The task was reset by a repeat.
Repeated(t) ==
  \E R \in Repeating : t \in R /\ \A u \in R : /\ task'[u].attempt = 0
                                            /\ task'[u].status \notin InFlight

\* The task was run.
Started(t) == ~task[t].unknown /\ task'[t].attempt = issued[t] + 1

\* A step as all tasks see it.
Kinds == \A t \in Task : RecordStep(task[t], task'[t]) \/ Repeated(t) \/ Started(t)

\* A write is such a change for every task if it is one for the tasks written.
LEMMA WriteStep ==
  ASSUME NEW U \in SUBSET Task, NEW f, Write(U, f),
         \A t \in U : RecordStep(task[t], f[t])
  PROVE  \A t \in Task : RecordStep(task[t], task'[t])
  BY DEF Write, RecordStep

\* The same when the write may set off a repeat.
LEMMA WriteAndRepeatStep ==
  ASSUME IInv, NEW U \in SUBSET Task, NEW f, WriteAndRepeat(U, f),
         \A t \in U : RecordStep(task[t], f[t]) /\ RecordOK(t, f[t], issued[t])
  PROVE  \A t \in Task : RecordStep(task[t], task'[t]) \/ Repeated(t)
<1>1. CASE Write(U, f)
  BY <1>1, WriteStep
<1>2. ASSUME NEW R \in Repeating,
             Write(R, [t \in R |-> Requeued(R, t, IF t \in U THEN f[t] ELSE task[t])])
      PROVE  \A t \in Task : RecordStep(task[t], task'[t]) \/ Repeated(t)
  <2> DEFINE g == [t \in R |-> Requeued(R, t, IF t \in U THEN f[t] ELSE task[t])]
  <2>1. R \in SUBSET Task
    BY NodeAssumption
  <2>2. \A t \in R : (IF t \in U THEN f[t] ELSE task[t]) \in TaskState /\ issued[t] \in Nat
    BY <2>1 DEF IInv, RecordOK, TypeOK
  <2>3. \A t \in R : g[t].attempt = 0 /\ g[t].status \notin InFlight
    BY <2>1, <2>2, RequeuedOK, Zenon
  <2>4. Write(R, g)
    BY <1>2
  <2> HIDE DEF g
  <2>5. \A t \in Task : task'[t] = IF t \in R THEN g[t] ELSE task[t]
    BY <2>4 DEF Write
  <2>6. \A t \in R : Repeated(t)
    BY <2>1, <2>3, <2>5 DEF Repeated
  <2>7. \A t \in Task \ R : RecordStep(task[t], task'[t])
    BY <2>5 DEF RecordStep
  <2> QED
    BY <2>6, <2>7
<1> QED
  BY <1>1, <1>2, Zenon DEF WriteAndRepeat

\* Reports, callbacks, complete triggers and forces are such changes.
LEMMA HandlerSteps ==
  ASSUME IInv, NEW t \in Task
  PROVE  /\ \A s \in {"complete", "aborted"} :
              /\ RecordStep(task[t], Reported(t, s))
              /\ RecordStep(task[t], SetStatus(task[t], s))
         /\ \A s \in Status :
              /\ s \in InFlight => task[t].status \in InFlight
              /\ task[t].unknown => s \in {"complete", "aborted"}
              => RecordStep(task[t], Forced(t, s))
         /\ ~task[t].unknown => \A S : RecordStep(task[t], Requeued(S, t, task[t]))
<1>1. task[t] \in TaskState /\ issued[t] \in Nat
  BY DEF IInv, TypeOK
<1>2. ASSUME NEW s \in {"complete", "aborted"}
      PROVE  /\ RecordStep(task[t], Reported(t, s))
             /\ RecordStep(task[t], SetStatus(task[t], s))
  <2>1. /\ Reported(t, s).attempt = task[t].attempt /\ Reported(t, s).status = s
        /\ SetStatus(task[t], s).attempt = task[t].attempt /\ SetStatus(task[t], s).status = s
    BY <1>1 DEF Reported, SetStatus, TaskState
  <2> QED
    BY <2>1 DEF RecordStep, InFlight
<1>3. ASSUME NEW s \in Status,
             s \in InFlight => task[t].status \in InFlight,
             task[t].unknown => s \in {"complete", "aborted"}
      PROVE  RecordStep(task[t], Forced(t, s))
  <2>1. ClearAttempt(task[t]) \in TaskState /\ ClearAttempt(task[t]).attempt = 0
    BY <1>1, Zenon DEF ClearAttempt, TaskState
  <2>2. \A r \in TaskState : SetStatus(r, s).attempt = r.attempt /\ SetStatus(r, s).status = s
    BY DEF SetStatus, TaskState
  <2>3. /\ Forced(t, s).status = s /\ Forced(t, s).attempt \in {0, task[t].attempt}
        /\ s # "queued" => Forced(t, s).attempt = task[t].attempt
    BY <1>1, <2>1, <2>2 DEF Forced
  <2> QED
    BY <1>3, <2>3 DEF RecordStep
<1>4. ASSUME ~task[t].unknown, NEW S PROVE RecordStep(task[t], Requeued(S, t, task[t]))
  BY <1>1, <1>4, RequeuedOK, Zenon DEF RecordStep
<1> QED
  BY <1>2, <1>3, <1>4

\* Every step is of one of the three kinds for every task.
LEMMA StepKinds ==
  ASSUME IInv, [Next]_vars
  PROVE  Kinds
<1>a. \A S \in Subtree : S \in SUBSET Task
  BY NodeAssumption
<1>1. ASSUME NEW t \in Task, Run(t) PROVE Kinds
  <2>1. PICK s \in {"submitted", "aborted"} :
          Write({t}, [u \in {t} |-> SetStatus(NewAttempt(t), s)])
    BY <1>1 DEF Run
  <2>2. task[t] \in TaskState /\ issued[t] \in Nat
    BY DEF IInv, TypeOK
  <2>3. SetStatus(NewAttempt(t), s).attempt = issued[t] + 1
    BY <2>2 DEF SetStatus, NewAttempt, TaskState
  <2>4. task'[t].attempt = issued[t] + 1 /\ \A u \in Task \ {t} : task'[u] = task[u]
    BY <2>1, <2>3 DEF Write
  <2> QED
    BY <1>1, <2>4 DEF Kinds, Started, Run, RecordStep
<1>2. ASSUME NEW t \in Task, ScanComplete(t) PROVE Kinds
  <2> DEFINE f == [u \in {t} |-> SetStatus(task[u], "complete")]
  <2>1. \A u \in {t} : RecordStep(task[u], f[u]) /\ RecordOK(u, f[u], issued[u])
    BY HandlerSteps, StatusOK
  <2>2. WriteAndRepeat({t}, f)
    BY <1>2 DEF ScanComplete
  <2> HIDE DEF f
  <2> QED
    BY <2>1, <2>2, WriteAndRepeatStep DEF Kinds
<1>3. ASSUME NEW t \in Task, NEW n, ChildComplete(t, n) PROVE Kinds
  <2> DEFINE f == [u \in {t} |-> Reported(t, "complete")]
  <2>1. \A u \in {t} : RecordStep(task[u], f[u]) /\ RecordOK(u, f[u], issued[u])
    BY HandlerSteps, StatusOK
  <2>2. WriteAndRepeat({t}, f)
    BY <1>3 DEF ChildComplete
  <2> HIDE DEF f
  <2> QED
    BY <2>1, <2>2, WriteAndRepeatStep DEF Kinds
<1>4. ASSUME NEW t \in Task, NEW n, NEW r \in Rid, ChildInit(t, n, r) PROVE Kinds
  <2> DEFINE b == Reported(t, "active")
             f == [u \in {t} |-> [b EXCEPT !.rid = r]]
  <2>1. task[t] \in TaskState /\ task[t].status \in InFlight
    BY <1>4 DEF IInv, TypeOK, ChildInit, GuardAttempt
  <2>2. b \in TaskState /\ b.attempt = task[t].attempt /\ b.status = "active"
    BY <2>1, Zenon DEF Reported, TaskState, Status, InFlight
  <2>3. Write({t}, f)
    BY <1>4 DEF ChildInit
  <2> HIDE DEF b
  <2>4. f[t].attempt = task[t].attempt /\ f[t].status = "active"
    BY <2>2 DEF TaskState
  <2> HIDE DEF f
  <2>5. \A u \in {t} : RecordStep(task[u], f[u])
    BY <2>1, <2>4 DEF RecordStep
  <2> QED
    BY <2>3, <2>5, WriteStep DEF Kinds
<1>6. ASSUME NEW t \in Task, SubmissionFails(t) \/ \E n \in 1..issued[t] : ChildAbort(t, n)
      PROVE  Kinds
  <2> DEFINE f == [u \in {t} |-> Reported(t, "aborted")]
  <2>1. \A u \in {t} : RecordStep(task[u], f[u])
    BY HandlerSteps
  <2>2. Write({t}, f)
    BY <1>6 DEF SubmissionFails, ChildAbort
  <2> HIDE DEF f
  <2> QED
    BY <2>1, <2>2, WriteStep DEF Kinds
<1>7. ASSUME NEW t \in Task, SubmissionUnknown(t) PROVE Kinds
  <2> DEFINE r == [task[t] EXCEPT !.unknown = TRUE]
  <2>1. task[t] \in TaskState
    BY DEF IInv, TypeOK
  <2>2. r.attempt = task[t].attempt /\ r.status = task[t].status /\ (task[t].unknown => r = task[t])
    BY <2>1, Zenon DEF TaskState
  <2>3. \A u \in Task : task'[u] = IF u = t THEN r ELSE task[u]
    BY <1>7 DEF SubmissionUnknown, IInv, TypeOK
  <2> HIDE DEF r
  <2> QED
    BY <2>2, <2>3 DEF Kinds, RecordStep
<1>8. ASSUME NEW t \in Task, NEW s \in Status, ForceTask(t, s) PROVE Kinds
  <2> DEFINE f == [u \in {t} |-> Forced(u, s)]
  <2>1. \A u \in {t} : RecordStep(task[u], f[u]) /\ RecordOK(u, f[u], issued[u])
    <3>1. RecordStep(task[t], Forced(t, s))
      BY <1>8, HandlerSteps DEF ForceTask, ForceAllowed
    <3>2. RecordOK(t, Forced(t, s), issued[t])
      BY <1>8, ForcedOK DEF ForceTask, InFlight
    <3> QED
      BY <3>1, <3>2
  <2>2. Write({t}, f) \/ WriteAndRepeat({t}, f)
    BY <1>8 DEF ForceTask
  <2> HIDE DEF f
  <2> QED
    BY <2>1, <2>2, WriteStep, WriteAndRepeatStep DEF Kinds
<1>9. ASSUME NEW S \in Subtree, NEW s \in Status, ForceTree(S, s) PROVE Kinds
  <2> DEFINE f == [t \in S |-> Forced(t, s)]
  <2>1. \A t \in S : RecordStep(task[t], f[t]) /\ RecordOK(t, f[t], issued[t])
    <3>1. ASSUME NEW t \in S PROVE RecordStep(task[t], Forced(t, s)) /\ RecordOK(t, Forced(t, s), issued[t])
      BY <1>9, <1>a, HandlerSteps, ForcedOK DEF ForceTree, ForceAllowed
    <3> QED
      BY <3>1
  <2>2. Write(S, f) \/ WriteAndRepeat(S, f)
    BY <1>9 DEF ForceTree
  <2> HIDE DEF f
  <2> QED
    BY <1>a, <2>1, <2>2, WriteStep, WriteAndRepeatStep DEF Kinds
<1>10. ASSUME NEW S \in Subtree, \A t \in S : ~task[t].unknown,
              Write(S, [t \in S |-> Requeued(S, t, task[t])])
       PROVE  Kinds
  <2> DEFINE f == [t \in S |-> Requeued(S, t, task[t])]
  <2>1. \A t \in S : RecordStep(task[t], f[t])
    BY <1>10, <1>a, HandlerSteps
  <2>2. Write(S, f)
    BY <1>10
  <2> HIDE DEF f
  <2> QED
    BY <1>a, <2>1, <2>2, WriteStep DEF Kinds
<1>11. ASSUME NEW S \in SUBSET Task, ServerHalt(S) \/ BeginShutdown(S) PROVE Kinds
  <2> DEFINE f == [t \in S |-> Reported(t, "aborted")]
  <2>1. \A t \in S : RecordStep(task[t], f[t])
    BY HandlerSteps
  <2>2. Write(S, f)
    BY <1>11 DEF ServerHalt, BeginShutdown, SkipPending
  <2> HIDE DEF f
  <2> QED
    BY <2>1, <2>2, WriteStep DEF Kinds
<1>12. ASSUME UNCHANGED task PROVE Kinds
  BY <1>12 DEF Kinds, RecordStep
<1>13. ASSUME NEW force \in BOOLEAN, Begin(force) PROVE Kinds
  BY <1>10, <1>13, NodeAssumption DEF Begin
<1>14. ASSUME NEW S \in Subtree, Requeue(S) PROVE Kinds
  BY <1>10, <1>14 DEF Requeue
<1>15. CASE ServerResume \/ (\E success \in BOOLEAN : CheckpointOutcome(success)) \/ UNCHANGED vars
  BY <1>12, <1>15 DEF ServerResume, CheckpointOutcome, vars
<1> QED
  BY <1>1, <1>2, <1>3, <1>4, <1>6, <1>7, <1>8, <1>9, <1>11, <1>13, <1>14, <1>15
     DEF Next, ScanRun, RunCommand

\* A finished attempt never runs again.
THEOREM FinishedForGood == Spec => FinishedStaysFinished
<1>1. IInv /\ [Next]_vars =>
        [\A t \in Task :
           /\ task[t].status \notin InFlight
           /\ task'[t].status \in InFlight
           => task'[t].attempt > issued[t]]_vars
  BY StepKinds DEF Kinds, RecordStep, Repeated, Started, IInv, TypeOK
<1> QED
  BY <1>1, Invariance, PTL DEF Spec, FinishedStaysFinished

\* An attempt that stops being current never is current again.
THEOREM AttemptsFresh == Spec => AttemptsNeverReturn
<1>1. IInv /\ [Next]_vars =>
        [\A t \in Task : task'[t].attempt # task[t].attempt =>
           task'[t].attempt = 0 \/ task'[t].attempt > issued[t]]_vars
  BY StepKinds DEF Kinds, RecordStep, Repeated, Started, IInv, TypeOK
<1> QED
  BY <1>1, Invariance, PTL DEF Spec, AttemptsNeverReturn

\* A marked submission is settled before its attempt is replaced or reset.
THEOREM MarkSettledFirst == Spec => UnknownIsSettledFirst
<1>1. IInv /\ [Next]_vars =>
        [\A t \in Task : task[t].unknown =>
           \/ task'[t] = task[t]
           \/ /\ task'[t].attempt = task[t].attempt
              /\ task'[t].status \in {"active", "complete", "aborted"}
           \/ \E R \in Repeating : t \in R /\ \A u \in R : task'[u].attempt = 0]_vars
  BY StepKinds DEF Kinds, RecordStep, Repeated, Started
<1> QED
  BY <1>1, Invariance, PTL DEF Spec, UnknownIsSettledFirst

\* A halted or stopping service starts no run.
THEOREM HaltedStartsNothing == Spec => NoNewAttemptWhenHalted
<1>1. [Next]_vars => [~IsRunning => issued' = issued]_vars
  BY Zenon DEF Next, ScanRun, RunCommand, Run, ScanComplete, ChildInit, ChildComplete, ChildAbort,
     SubmissionFails, SubmissionUnknown, ForceTask, Begin, Requeue, ForceTree, ServerHalt,
     BeginShutdown, ServerResume, CheckpointOutcome, vars
<1> QED
  BY <1>1, PTL DEF Spec, NoNewAttemptWhenHalted
=============================================================================
