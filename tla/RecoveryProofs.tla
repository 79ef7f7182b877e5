--------------------------- MODULE RecoveryProofs ---------------------------
(***************************************************************************)
(* What holds of TaskLifecycle holds across restarts, for every set of     *)
(* tasks and Limits, every number of files and any order of saves, kills   *)
(* and restarts; and every state can be saved.                             *)
(***************************************************************************)
EXTENDS Recovery, TaskLifecycleProofs

\* An attempt number is drawn once: the count never falls, and an attempt that
\* becomes current is new.
LEMMA DrawsGrow ==
  ASSUME IInv, [Next]_vars
  PROVE  \A t \in Task : /\ issued[t] <= issued'[t]
                         /\ \/ task'[t].attempt \in {0, task[t].attempt}
                            \/ task'[t].attempt > issued[t]
<1>1. \A t \in Task : issued[t] <= issued'[t]
  <2>1. \/ issued' = issued
        \/ \E t \in Task : issued' = [issued EXCEPT ![t] = @ + 1]
    BY Zenon DEF Next, ScanRun, RunCommand, Run, ScanComplete, ChildInit, ChildComplete, ChildAbort,
       SubmissionFails, SubmissionUnknown, ForceTask, Begin, Requeue, ForceTree, ServerHalt,
       BeginShutdown, ServerResume, CheckpointOutcome, vars
  <2>2. issued \in [Task -> Nat]
    BY DEF IInv, TypeOK
  <2> QED
    BY <2>1, <2>2
<1> QED
  BY <1>1, StepKinds DEF Kinds, RecordStep, Repeated, Started, IInv, TypeOK

\* The files go on being those of earlier states while attempts are drawn.
LEMMA SnapshotStaysOK ==
  ASSUME NEW s, SnapshotOK(s), IInv, IInv', \A t \in Task : issued[t] <= issued'[t]
  PROVE  SnapshotOK(s)'
<1>1. \A t \in Task : issued[t] \in Nat /\ issued'[t] \in Nat
  BY DEF IInv, TypeOK
<1>2. \A t \in Task : s.issued[t] \in Nat /\ s.issued[t] <= issued[t]
  BY DEF SnapshotOK
<1>3. \A t \in Task : s.issued[t] <= issued'[t]
  BY <1>1, <1>2
<1> QED
  BY <1>3 DEF SnapshotOK

\* A step of the running service.
LEMMA HandlerKeepsRecovery ==
  ASSUME RecoveryInv, [Next]_vars, UNCHANGED <<saved, lost>>
  PROVE  RecoveryInv'
<1>1. IInv'
  BY NextIInv DEF RecoveryInv
<1>2. \A t \in Task : /\ issued[t] <= issued'[t] /\ issued[t] \in Nat /\ issued'[t] \in Nat
                      /\ \/ task'[t].attempt \in {0, task[t].attempt}
                         \/ task'[t].attempt > issued[t]
  BY <1>1, DrawsGrow DEF RecoveryInv, IInv, TypeOK
<1>3. \A s \in saved' : SnapshotOK(s)'
  BY <1>1, <1>2, SnapshotStaysOK DEF RecoveryInv
<1>4. \A t \in Task : lost'[t] \subseteq 1..issued'[t] /\ task'[t].attempt \notin lost'[t]
  BY <1>2 DEF RecoveryInv
<1> QED
  BY <1>1, <1>3, <1>4 DEF RecoveryInv

\* A captured state is a good snapshot, because the invariant holds in it.
LEMMA CaptureKeepsRecovery ==
  ASSUME RecoveryInv, Capture
  PROVE  RecoveryInv'
<1>1. UNCHANGED <<vars, lost>>
  BY DEF Capture
<1>2. IInv'
  BY <1>1, NextIInv DEF RecoveryInv, vars
<1>3. SnapshotOK(Snapshot)
  BY DEF RecoveryInv, SnapshotOK, Snapshot, IInv, TypeOK, LimitAccounting, Users
<1>4. \A s \in saved' : SnapshotOK(s)
  BY <1>3 DEF Capture, RecoveryInv
<1>5. \A s \in saved' : SnapshotOK(s)'
  BY <1>1, <1>2, <1>4, SnapshotStaysOK DEF RecoveryInv, IInv, TypeOK, vars
<1> QED
  BY <1>1, <1>2, <1>5 DEF RecoveryInv, vars

\* A task that is put back is consistent.
LEMMA RestoredOK ==
  ASSUME NEW t \in Task, NEW r \in TaskState, NEW n \in Nat, NEW m \in Nat, n <= m,
         RecordOK(t, r, n)
  PROVE  /\ RecordOK(t, Restored(r), m)
         /\ Restored(r).status = r.status /\ Restored(r).attempt = r.attempt
  BY DEF Restored, RecordOK, TaskState, InFlight

\* A restart from a file.
LEMMA RestartFromKeepsRecovery ==
  ASSUME RecoveryInv, NEW s \in saved, RestartFrom(s), stopping' = FALSE,
         UNCHANGED <<issued, saved>>
  PROVE  RecoveryInv'
<1>1. SnapshotOK(s) /\ \A t \in Task : issued[t] \in Nat
  BY DEF RecoveryInv, IInv, TypeOK
<1>2. \A t \in Task : /\ s.task[t] \in TaskState /\ s.issued[t] \in Nat
                      /\ s.issued[t] <= issued[t] /\ RecordOK(t, s.task[t], s.issued[t])
  BY <1>1 DEF SnapshotOK
<1>3. \A t \in Task : /\ RecordOK(t, task'[t], issued'[t])
                      /\ task'[t].status = s.task[t].status
                      /\ task'[t].attempt = s.task[t].attempt
  BY <1>1, <1>2, RestoredOK DEF RestartFrom
<1>4. TypeOK'
  <2>1. task' \in [Task -> TaskState]
    BY <1>3 DEF RecordOK, RestartFrom
  <2> QED
    BY <1>1, <2>1, Zenon DEF RestartFrom, SnapshotOK, TypeOK, RecoveryInv, IInv
<1>5. LimitAccounting'
  BY <1>1, <1>3 DEF RestartFrom, SnapshotOK, LimitAccounting, Users
<1>6. IInv'
  BY <1>3, <1>4, <1>5 DEF IInv
<1>7. \A q \in saved' : SnapshotOK(q)'
  BY <1>6, <1>1, SnapshotStaysOK DEF RecoveryInv
<1>8. \A t \in Task : lost'[t] \subseteq 1..issued'[t] /\ task'[t].attempt \notin lost'[t]
  <2> SUFFICES ASSUME NEW t \in Task
               PROVE  lost'[t] \subseteq 1..issued'[t] /\ task'[t].attempt \notin lost'[t]
    OBVIOUS
  <2>1. lost'[t] = s.lost[t] \cup (s.issued[t] + 1 .. issued[t]) /\ issued'[t] = issued[t]
    BY DEF RestartFrom
  <2>2. /\ s.lost[t] \subseteq 1..s.issued[t] /\ s.task[t].attempt \notin s.lost[t]
        /\ s.task[t].attempt <= s.issued[t] /\ s.task[t].attempt \in Nat
    BY <1>1, <1>2 DEF SnapshotOK, RecordOK, TaskState
  <2> QED
    BY <1>1, <1>2, <1>3, <2>1, <2>2
<1> QED
  BY <1>6, <1>7, <1>8 DEF RecoveryInv

\* A restart without any file.
LEMMA RestartFreshKeepsRecovery ==
  ASSUME RecoveryInv, RestartFresh, stopping' = FALSE, UNCHANGED <<issued, saved>>
  PROVE  RecoveryInv'
<1>1. \A t \in Task : issued[t] \in Nat
  BY DEF RecoveryInv, IInv, TypeOK
<1>2. Fresh \in TaskState /\ Fresh.status \notin InFlight /\ Fresh.attempt = 0
  BY DEF Fresh, TaskState, Status, InFlight
<1>3. \A t \in Task : /\ RecordOK(t, task'[t], issued'[t])
                      /\ task'[t].status \notin InFlight /\ task'[t].attempt = 0
  BY <1>1, <1>2 DEF RestartFresh, RecordOK, Fresh
<1>4. TypeOK'
  <2>1. task' \in [Task -> TaskState]
    BY <1>2 DEF RestartFresh
  <2>2. held' \in [Limit -> SUBSET Task] /\ value' \in [Limit -> Int]
    BY DEF RestartFresh
  <2>3. issued' \in [Task -> Nat] /\ begun' \in BOOLEAN /\ causes' \subseteq Causes
    BY Zenon DEF RestartFresh, RecoveryInv, IInv, TypeOK
  <2> QED
    BY <2>1, <2>2, <2>3, Zenon DEF TypeOK
<1>5. LimitAccounting'
  <2>1. \A l \in Limit : TokensOf({}, l) = 0
    <3>1. \A l \in Limit : TokenSlots({}, l) = {}
      BY DEF TokenSlots
    <3> QED
      BY <3>1, FS_EmptySet DEF TokensOf
  <2>2. \A l \in Limit : held'[l] = {} /\ value'[l] = 0 /\ Users(l)' = {}
    BY <1>3 DEF RestartFresh, Users
  <2>3. \A l \in Limit : 0 <= Capacity[l]
    BY LimitAssumption
  <2>4. \A l \in Limit : value'[l] = TokensOf(held'[l], l)
    BY <2>1, <2>2
  <2> QED
    BY <2>2, <2>3, <2>4 DEF LimitAccounting, TokensOf, TokenSlots
<1>6. IInv'
  BY <1>3, <1>4, <1>5 DEF IInv
<1>7. \A t \in Task : lost'[t] \subseteq 1..issued'[t] /\ task'[t].attempt \notin lost'[t]
  BY <1>1, <1>3 DEF RestartFresh
<1> QED
  BY <1>6, <1>7 DEF RecoveryInv, RestartFresh

\* The inductive invariant holds across restarts.
THEOREM RecoveryInvariance == RecoverySpec => []RecoveryInv
<1>1. RecoveryInit => RecoveryInv
  <2> SUFFICES ASSUME RecoveryInit PROVE RecoveryInv
    OBVIOUS
  <2>1. IInv
    BY InitIInv DEF RecoveryInit
  <2> QED
    BY <2>1 DEF RecoveryInit, RecoveryInv
<1>2. RecoveryInv /\ [RecoveryNext]_recoveryVars => RecoveryInv'
  <2> SUFFICES ASSUME RecoveryInv, [RecoveryNext]_recoveryVars PROVE RecoveryInv'
    OBVIOUS
  <2>1. CASE Next /\ UNCHANGED <<saved, lost>>
    BY <2>1, HandlerKeepsRecovery
  <2>2. CASE Capture
    BY <2>2, CaptureKeepsRecovery
  <2>3. CASE Restart
    BY <2>3, RestartFromKeepsRecovery, RestartFreshKeepsRecovery, Zenon DEF Restart
  <2>4. CASE UNCHANGED recoveryVars
    BY <2>4, HandlerKeepsRecovery DEF recoveryVars, vars
  <2> QED
    BY <2>1, <2>2, <2>3, <2>4 DEF RecoveryNext
<1> QED
  BY <1>1, <1>2, PTL DEF RecoverySpec

\* Whatever is saved, killed and restarted, every state of a well-formed flow
\* can be saved, a task in flight has its job's password, and no attempt that a
\* restart has undone is ever current again.
THEOREM RestartsAreConsistent == RecoverySpec => []RecoveryIsConsistent
<1>1. RecoveryInv => RecoveryIsConsistent
  <2> SUFFICES ASSUME RecoveryInv PROVE RecoveryIsConsistent
    OBVIOUS
  <2>1. \A t \in Task : /\ ConditionalFields(task[t])
                        /\ task[t].status \in InFlight =>
                             task[t].tryNo # 0 /\ task[t].password = task[t].attempt
                               /\ task[t].password # 0
    BY DEF RecoveryInv, IInv, RecordOK, ConditionalFields
  <2>2. LimitAccounting
    BY DEF RecoveryInv, IInv
  <2>3. DefinitionFits => Accepted
    BY <2>1, <2>2 DEF Accepted, LimitAccounting
  <2> QED
    BY <2>1, <2>3 DEF RecoveryIsConsistent, RecoveryInv
<1> QED
  BY <1>1, RecoveryInvariance, PTL

\* The Limits stay exact across restarts.
THEOREM LimitsExactAcrossRestarts == RecoverySpec => []LimitAccounting
<1>1. RecoveryInv => LimitAccounting
  BY DEF RecoveryInv, IInv
<1> QED
  BY <1>1, RecoveryInvariance, PTL
=============================================================================
