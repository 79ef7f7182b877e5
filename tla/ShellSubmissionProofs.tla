----------------------- MODULE ShellSubmissionProofs -----------------------
(***************************************************************************)
(* ShellSubmission implements TaskLifecycle: every step of the runner's    *)
(* coroutines and of the shell task's handlers is a step of TaskLifecycle  *)
(* or leaves its variables alone.  So the theorems of TaskLifecycle hold   *)
(* of shell tasks.  ShellInv is inductive; it has a part about the budget  *)
(* (BudgetInv) and one about the tasks in flight (CarrierInv), which every *)
(* step keeps separately.  All results hold for any tasks and budgets.     *)
(***************************************************************************)
EXTENDS ShellSubmission, TaskLifecycleProofs

\* A step of a submit command is invisible, or a failure of the submission of
\* its task, or the mark of an unknown one.
LEMMA CommandStepRefines ==
  ASSUME NEW t \in Task, NEW n, CommandStep(t, n)
  PROVE  SubmissionFails(t) \/ SubmissionUnknown(t) \/ UNCHANGED vars
<1>1. CASE FirstStep(t, n)
  BY <1>1 DEF FirstStep, Skip
<1>2. CASE SlotGranted(t, n)
  BY <1>2 DEF SlotGranted, Skip
<1>3. CASE QueueTimeout(t, n)
  BY <1>3 DEF QueueTimeout
<1>4. CASE JobLaunched(t, n)
  BY <1>4 DEF JobLaunched
<1>5. CASE ProcessEnds(t, n)
  BY <1>5 DEF ProcessEnds
<1>6. CASE JobDone(t, n)
  BY <1>6 DEF JobDone
<1> QED
  BY <1>1, <1>2, <1>3, <1>4, <1>5, <1>6 DEF CommandStep

\* Step simulation.  The attempt a report carries was issued, by the invariant
\* of TaskLifecycle.
LEMMA ShellStepRefines == IInv /\ [ShellNext]_allVars => [Next]_vars
<1> SUFFICES ASSUME IInv, [ShellNext]_allVars PROVE Next \/ UNCHANGED vars
  BY DEF vars
<1>1. ASSUME NEW t \in Task, ShellScanRun(t) PROVE Next
  BY <1>1 DEF ShellScanRun, Next
<1>2. ASSUME NEW t \in Task, ShellScanComplete(t) PROVE Next
  BY <1>2 DEF ShellScanComplete, Next
<1>3. ASSUME NEW t \in Task, NEW force \in BOOLEAN, ShellRunCommand(t, force) PROVE Next
  BY <1>3 DEF ShellRunCommand, Next
<1>4. ASSUME NEW t \in Task, NEW n \in 1..MaxAttempts, CommandStep(t, n)
      PROVE  Next \/ UNCHANGED vars
  BY <1>4, CommandStepRefines DEF Next
<1>5. ASSUME NEW t \in Task, NEW n \in 1..MaxAttempts, GuardAttempt(t, n)
      PROVE  n \in 1..issued[t]
  <2>1. task[t].attempt = n /\ task[t].attempt <= issued[t] /\ issued[t] \in Nat
    BY <1>5 DEF GuardAttempt, IInv, RecordOK, TypeOK
  <2> QED
    BY <2>1, BoundAssumption
<1>6. ASSUME NEW t \in Task, NEW n \in 1..MaxAttempts, NEW r \in Rid, ShellChildInit(t, n, r)
      PROVE  Next
  <2>1. ChildInit(t, n, r) /\ n \in 1..issued[t]
    BY <1>5, <1>6 DEF ShellChildInit, ChildInit
  <2> QED
    BY <2>1 DEF Next
<1>7. ASSUME NEW t \in Task, NEW n \in 1..MaxAttempts,
             ShellChildComplete(t, n) \/ ShellChildAbort(t, n)
      PROVE  Next
  <2>1. (ChildComplete(t, n) \/ ChildAbort(t, n)) /\ n \in 1..issued[t]
    BY <1>5, <1>7 DEF ShellChildComplete, ShellChildAbort, ChildComplete, ChildAbort
  <2> QED
    BY <2>1 DEF Next
<1>8. ASSUME NEW t \in Task, NEW s \in Status, ShellForceTask(t, s) PROVE Next
  BY <1>8 DEF ShellForceTask, Next
<1>9. ASSUME NEW S \in Subtree, ShellRequeue(S) PROVE Next
  BY <1>9 DEF ShellRequeue, Next
<1>10. ASSUME NEW S \in Subtree, NEW s \in Status, ShellForceTree(S, s) PROVE Next
  BY <1>10 DEF ShellForceTree, Next
<1>11. ASSUME NEW force \in BOOLEAN, ShellBegin(force) PROVE Next
  BY <1>11 DEF ShellBegin, Next
<1>12. CASE ShellServerHalt \/ ShellBeginShutdown
  <2>1. Skipped \in SUBSET Task
    BY DEF Skipped
  <2>2. ServerHalt(Skipped) \/ BeginShutdown(Skipped)
    BY <1>12 DEF ShellServerHalt, ShellBeginShutdown
  <2> QED
    BY <2>1, <2>2 DEF Next
<1>13. CASE ShellServerResume \/ \E success \in BOOLEAN : ShellCheckpointOutcome(success)
  BY <1>13 DEF ShellServerResume, ShellCheckpointOutcome, Next
<1>14. CASE UNCHANGED allVars
  BY <1>14 DEF allVars
<1> QED
  BY <1>1, <1>2, <1>3, <1>4, <1>6, <1>7, <1>8, <1>9, <1>10, <1>11, <1>12, <1>13, <1>14
     DEF ShellNext

\* The shell submission implements the task lifecycle.
THEOREM ShellImplementsLifecycle == ShellSpec => Spec
<1>1. ShellInit => Init
  BY DEF ShellInit
<1>2. Init => IInv
  BY InitIInv
<1>3. IInv /\ [ShellNext]_allVars => [Next]_vars
  BY ShellStepRefines
<1>4. IInv /\ [Next]_vars => IInv'
  BY NextIInv
<1> QED
  BY <1>1, <1>2, <1>3, <1>4, PTL DEF ShellSpec, Spec
-----------------------------------------------------------------------------
(* Counting commands *)

\* The commands in the phases P, in a table c of commands.
InPhases(c, P) == {x \in Task \X (1..MaxAttempts) : c[x[1]][x[2]] \in P}

\* The phases in which a command has its place in the budget, and its slot.
Placed == Live \cup Ended
Running == {"running"}

\* 1 for a command in a phase of P, else 0.
Counts(phase, P) == IF phase \in P THEN 1 ELSE 0

\* The table d is c but for the command n of t, which is in phase p.
Moved(c, d, t, n, p) ==
  \A u \in Task, m \in 1..MaxAttempts : d[u][m] = IF u = t /\ m = n THEN p ELSE c[u][m]

\* The commands are finitely many.
LEMMA CommandsFinite ==
  ASSUME NEW c, NEW P
  PROVE  IsFiniteSet(InPhases(c, P)) /\ Cardinality(InPhases(c, P)) \in Nat
<1>1. IsFiniteSet(Task \X (1..MaxAttempts))
  <2>1. IsFiniteSet(1..MaxAttempts)
    BY BoundAssumption, FS_Interval
  <2> QED
    BY <2>1, TaskAssumption, FS_Product, Zenon
<1>2. InPhases(c, P) \in SUBSET (Task \X (1..MaxAttempts))
  BY DEF InPhases
<1> QED
  BY <1>1, <1>2, FS_Subset, FS_CardinalityType

\* A command that takes phase p leaves the count of its old phase and joins
\* that of p.
LEMMA OneMoves ==
  ASSUME NEW c, NEW t \in Task, NEW n \in 1..MaxAttempts, NEW p, NEW P, NEW d,
         Moved(c, d, t, n, p)
  PROVE  /\ Cardinality(InPhases(d, P)) =
              Cardinality(InPhases(c, P)) + Counts(p, P) - Counts(c[t][n], P)
         /\ Counts(p, P) \in Nat /\ Counts(c[t][n], P) \in Nat
<1> DEFINE x == <<t, n>>
           A == InPhases(c, P)
           B == InPhases(d, P)
<1>2. x \in A <=> c[t][n] \in P
  BY DEF InPhases
<1>3. x \in B <=> p \in P
  BY DEF InPhases, Moved
<1>4. A \ {x} = B \ {x}
  BY DEF InPhases, Moved
<1>5. /\ IsFiniteSet(A) /\ Cardinality(A) \in Nat
      /\ IsFiniteSet(B) /\ Cardinality(B) \in Nat
  BY CommandsFinite
<1> HIDE DEF A, B, x
<1>6. /\ Cardinality(A \ {x}) = IF x \in A THEN Cardinality(A) - 1 ELSE Cardinality(A)
      /\ Cardinality(B \ {x}) = IF x \in B THEN Cardinality(B) - 1 ELSE Cardinality(B)
  BY <1>5, FS_RemoveElement, Zenon
<1>7. /\ Counts(p, P) = IF x \in B THEN 1 ELSE 0
      /\ Counts(c[t][n], P) = IF x \in A THEN 1 ELSE 0
  BY <1>2, <1>3 DEF Counts
<1>8. Cardinality(A \ {x}) = Cardinality(B \ {x})
  BY <1>4, Zenon
<1>9. /\ Cardinality(B) = Cardinality(A) + Counts(p, P) - Counts(c[t][n], P)
      /\ Counts(p, P) \in Nat /\ Counts(c[t][n], P) \in Nat
  <2>1. /\ Cardinality(B) - Counts(p, P) = Cardinality(A) - Counts(c[t][n], P)
        /\ Counts(p, P) \in Nat /\ Counts(c[t][n], P) \in Nat
    BY <1>5, <1>6, <1>7, <1>8
  <2> QED
    BY <2>1, <1>5
<1> QED
  BY <1>9 DEF A, B

-----------------------------------------------------------------------------
(* The budget *)

\* The part of the invariant about the commands and what they occupy.
BudgetInv ==
  /\ command \in [Task -> [1..MaxAttempts -> Phase]]
  /\ pending \in Nat /\ slots \in Int
  /\ BudgetExact /\ AttemptsInOrder

\* It survives a step that leaves commands and budget alone.
LEMMA RestKeepsBudget ==
  ASSUME BudgetInv, command' = command, pending' = pending, slots' = slots,
         \A t \in Task : issued[t] \in Nat /\ issued'[t] \in Nat
                         /\ issued'[t] >= issued[t] /\ issued'[t] <= MaxAttempts
  PROVE  BudgetInv'
<1>1. BudgetExact'
  BY DEF BudgetInv, BudgetExact, CommandsIn
<1>2. AttemptsInOrder'
  BY BoundAssumption DEF BudgetInv, AttemptsInOrder
<1> QED
  BY <1>1, <1>2 DEF BudgetInv

\* It survives the step of one command that takes and gives back what its
\* phases say.
LEMMA StepKeepsBudget ==
  ASSUME BudgetInv, NEW t \in Task, NEW n \in 1..MaxAttempts,
         NEW p \in Phase, Step(t, n, p),
         pending' = pending + Counts(p, Placed) - Counts(command[t][n], Placed),
         slots' = slots - Counts(p, Running) + Counts(command[t][n], Running),
         pending' <= MaxPending, slots' >= 0,
         n <= issued'[t],
         \A u \in Task : issued[u] \in Nat /\ issued'[u] \in Nat
                         /\ issued'[u] >= issued[u] /\ issued'[u] <= MaxAttempts
  PROVE  BudgetInv'
<1>1. /\ command' = [command EXCEPT ![t][n] = p]
      /\ command \in [Task -> [1..MaxAttempts -> Phase]]
      /\ pending \in Nat /\ slots \in Int
  BY DEF Step, BudgetInv
<1>2. command' \in [Task -> [1..MaxAttempts -> Phase]]
  BY <1>1
<1>3. \A P : CommandsIn(P) = InPhases(command, P) /\ CommandsIn(P)' = InPhases(command', P)
  BY DEF CommandsIn, InPhases
<1>4. \A P : /\ Cardinality(InPhases(command, P)) \in Nat
             /\ Cardinality(InPhases(command', P)) \in Nat
  BY CommandsFinite
<1>5. \A P : /\ Cardinality(InPhases(command', P)) =
                  Cardinality(InPhases(command, P)) + Counts(p, P) - Counts(command[t][n], P)
             /\ Counts(p, P) \in Nat /\ Counts(command[t][n], P) \in Nat
  <2>1. Moved(command, command', t, n, p)
    BY <1>1, Zenon DEF Moved
  <2> QED
    BY <2>1, OneMoves
<1>6. /\ pending = Cardinality(InPhases(command, Placed))
      /\ slots = MaxRunning - Cardinality(InPhases(command, Running))
  BY <1>3 DEF BudgetInv, BudgetExact, Placed, Running
<1>7. pending' = Cardinality(InPhases(command', Placed)) /\ pending' \in Nat
  BY <1>4, <1>5, <1>6
<1>8. slots' = MaxRunning - Cardinality(InPhases(command', Running)) /\ slots' \in Int
  <2>1. /\ Cardinality(InPhases(command', Running)) = Cardinality(InPhases(command, Running))
             + Counts(p, Running) - Counts(command[t][n], Running)
        /\ Counts(p, Running) \in Nat /\ Counts(command[t][n], Running) \in Nat
        /\ Cardinality(InPhases(command, Running)) \in Nat
    BY <1>4, <1>5
  <2>2. slots' = slots - Counts(p, Running) + Counts(command[t][n], Running)
    OBVIOUS
  <2> QED
    BY <1>6, <2>1, <2>2, BudgetAssumption
<1>9. BudgetExact'
  BY <1>3, <1>7, <1>8 DEF BudgetExact, Placed, Running
<1>10. AttemptsInOrder'
  <2> SUFFICES ASSUME NEW u \in Task, NEW m \in 1..MaxAttempts, m > issued'[u]
               PROVE  command'[u][m] = "none"
    BY DEF AttemptsInOrder
  <2>1. m > issued[u] /\ ~(u = t /\ m = n)
    BY BoundAssumption
  <2>2. command[u][m] = "none"
    BY <2>1 DEF BudgetInv, AttemptsInOrder
  <2> QED
    BY <1>1, <2>1, <2>2
<1> QED
  BY <1>2, <1>7, <1>8, <1>9, <1>10, <1>1 DEF BudgetInv

\* It survives the cancellation of the waiting commands, which keep their
\* places until their callbacks have run.
LEMMA CancelKeepsBudget ==
  ASSUME BudgetInv, CancelWaiting, UNCHANGED issued
  PROVE  BudgetInv'
<1>1. /\ command' = [t \in Task |-> [n \in 1..MaxAttempts |->
           IF command[t][n] = "waiting" THEN "cancelled" ELSE command[t][n]]]
      /\ command \in [Task -> [1..MaxAttempts -> Phase]]
      /\ pending' = pending /\ slots' = slots
  BY DEF CancelWaiting, BudgetInv
<1>2. command' \in [Task -> [1..MaxAttempts -> Phase]]
  BY <1>1, Zenon DEF Phase, Ended
<1>3. CommandsIn(Live \cup Ended)' = CommandsIn(Live \cup Ended)
  BY <1>1 DEF CommandsIn, Live, Ended
<1>4. CommandsIn({"running"})' = CommandsIn({"running"})
  BY <1>1 DEF CommandsIn
<1>5. BudgetExact'
  BY <1>1, <1>3, <1>4 DEF BudgetExact, BudgetInv
<1>6. AttemptsInOrder'
  BY <1>1 DEF AttemptsInOrder, BudgetInv
<1> QED
  BY <1>1, <1>2, <1>5, <1>6 DEF BudgetInv
-----------------------------------------------------------------------------
(* Carriers and tokens *)

\* The phases of a command that still decides about its task.
Reports == Live \cup {"rejected", "failed"}

\* The part of the invariant about the tasks in flight.
CarrierInv ==
  /\ token \in [Task -> 0..MaxAttempts]
  /\ launched \subseteq Task \X (1..MaxAttempts)
  /\ forced \subseteq Task
  /\ InFlightHasCarrier /\ TokenIsCurrent

\* The command of a submitted task goes on deciding, or the job was launched.
Decided(u) ==
  LET n == task[u].attempt
  IN  task[u].status = "submitted" /\ command[u][n] \in Reports =>
        command'[u][n] \in Reports \/ <<u, n>> \in launched'

\* It survives a step that leaves the tasks that are in flight after it alone.
LEMMA CarrierKept ==
  ASSUME CarrierInv, launched \subseteq launched',
         launched' \subseteq Task \X (1..MaxAttempts),
         token' \in [Task -> 0..MaxAttempts], forced' \subseteq Task,
         \A u \in Task : task'[u].status \in InFlight =>
           /\ task'[u] = task[u] /\ token'[u] = token[u]
           /\ u \in forced => u \in forced'
           /\ Decided(u)
  PROVE  CarrierInv'
<1>1. InFlightHasCarrier'
  <2> SUFFICES ASSUME NEW u \in Task, task'[u].status \in InFlight
               PROVE  \/ u \in forced' \/ <<u, task'[u].attempt>> \in launched'
                      \/ /\ task'[u].status = "submitted"
                         /\ task'[u].unknown \/ command'[u][task'[u].attempt] \in Reports
    BY DEF InFlightHasCarrier, Reports
  <2>1. \/ u \in forced \/ <<u, task[u].attempt>> \in launched
        \/ /\ task[u].status = "submitted"
           /\ task[u].unknown \/ command[u][task[u].attempt] \in Reports
    BY DEF CarrierInv, InFlightHasCarrier, Reports
  <2> QED
    BY <2>1 DEF Decided
<1>2. TokenIsCurrent'
  BY DEF CarrierInv, TokenIsCurrent
<1> QED
  BY <1>1, <1>2 DEF CarrierInv

\* The tasks in flight after the step were left alone by it; none is in U.
Quiet(U) == \A u \in Task : task'[u].status \in InFlight => task'[u] = task[u] /\ u \notin U

\* A quiet step that drops the tokens of U keeps those of the tasks in flight.
LEMMA QuietKeeps ==
  ASSUME CarrierInv, IInv', NEW U, Quiet(U), DropTokens(U), launched' = launched,
         \A u \in Task : task'[u].status \in InFlight => Decided(u)
  PROVE  CarrierInv'
<1>1. \A u \in Task : task'[u].status \in InFlight => task'[u].attempt # 0
  BY DEF IInv, RecordOK
<1>2. \A u \in Task : task'[u].status \in InFlight =>
        /\ task'[u] = task[u] /\ token'[u] = token[u] /\ (u \in forced => u \in forced')
  BY <1>1 DEF Quiet, DropTokens
<1>3. token' \in [Task -> 0..MaxAttempts] /\ forced' \subseteq Task
  BY BoundAssumption DEF DropTokens, CarrierInv
<1>4. launched' \subseteq Task \X (1..MaxAttempts) /\ launched \subseteq launched'
  BY DEF CarrierInv
<1> QED
  BY <1>2, <1>3, <1>4, CarrierKept

\* A write that takes its tasks out of flight is quiet.
LEMMA WriteQuiet ==
  ASSUME NEW U \in SUBSET Task, NEW f, Write(U, f), \A t \in U : f[t].status \notin InFlight
  PROVE  Quiet(U)
  BY DEF Write, Quiet

\* The same when it may set off a repeat.
LEMMA WriteAndRepeatQuiet ==
  ASSUME IInv, NEW U \in SUBSET Task, NEW f, WriteAndRepeat(U, f),
         \A t \in U : RecordOK(t, f[t], issued[t]) /\ f[t].status \notin InFlight
  PROVE  Quiet(U)
<1>1. CASE Write(U, f)
  BY <1>1, WriteQuiet
<1>2. ASSUME NEW R \in Repeating, U \subseteq R,
             Write(R, [t \in R |-> Requeued(R, t, IF t \in U THEN f[t] ELSE task[t])])
      PROVE  Quiet(U)
  <2> DEFINE g == [t \in R |-> Requeued(R, t, IF t \in U THEN f[t] ELSE task[t])]
  <2>1. R \in SUBSET Task
    BY NodeAssumption
  <2>2. \A t \in R : (IF t \in U THEN f[t] ELSE task[t]) \in TaskState /\ issued[t] \in Nat
    BY <2>1 DEF IInv, RecordOK, TypeOK
  <2>3. \A t \in R : g[t].status \notin InFlight
    BY <2>1, <2>2, RequeuedOK, Zenon
  <2>4. Write(R, g)
    BY <1>2
  <2> HIDE DEF g
  <2>5. Quiet(R)
    BY <2>1, <2>3, <2>4, WriteQuiet
  <2> QED
    BY <1>2, <2>5 DEF Quiet
<1> QED
  BY <1>1, <1>2, Zenon DEF WriteAndRepeat

\* Every handler that takes tasks out of flight is quiet.
LEMMA HandlersQuiet ==
  ASSUME IInv
  PROVE  /\ \A t \in Task : SubmissionFails(t) \/ ScanComplete(t) => Quiet({t})
         /\ \A t \in Task : \A n : ChildComplete(t, n) \/ ChildAbort(t, n) => Quiet({t})
         /\ \A force : Begin(force) => Quiet(Task)
         /\ \A S \in Subtree : Requeue(S) => Quiet(S)
         /\ \A S \in SUBSET Task : SkipPending(S) => Quiet(S)
<1>1. ASSUME NEW t \in Task, SubmissionFails(t) PROVE Quiet({t})
  <2> DEFINE f == [u \in {t} |-> Reported(t, "aborted")]
  <2>1. \A u \in {t} : f[u].status \notin InFlight
    BY StatusOK
  <2>2. Write({t}, f)
    BY <1>1 DEF SubmissionFails
  <2> HIDE DEF f
  <2> QED
    BY <2>1, <2>2, WriteQuiet
<1>2. ASSUME NEW t \in Task, ScanComplete(t) PROVE Quiet({t})
  <2> DEFINE f == [u \in {t} |-> SetStatus(task[u], "complete")]
  <2>1. \A u \in {t} : RecordOK(u, f[u], issued[u]) /\ f[u].status \notin InFlight
    BY StatusOK
  <2>2. WriteAndRepeat({t}, f)
    BY <1>2 DEF ScanComplete
  <2> HIDE DEF f
  <2> QED
    BY <2>1, <2>2, WriteAndRepeatQuiet
<1>3. ASSUME NEW t \in Task, NEW n, ChildComplete(t, n) PROVE Quiet({t})
  <2> DEFINE f == [u \in {t} |-> Reported(t, "complete")]
  <2>1. \A u \in {t} : RecordOK(u, f[u], issued[u]) /\ f[u].status \notin InFlight
    BY StatusOK
  <2>2. WriteAndRepeat({t}, f)
    BY <1>3 DEF ChildComplete
  <2> HIDE DEF f
  <2> QED
    BY <2>1, <2>2, WriteAndRepeatQuiet
<1>4. ASSUME NEW t \in Task, NEW n, ChildAbort(t, n) PROVE Quiet({t})
  <2> DEFINE f == [u \in {t} |-> Reported(t, "aborted")]
  <2>1. \A u \in {t} : f[u].status \notin InFlight
    BY StatusOK
  <2>2. Write({t}, f)
    BY <1>4 DEF ChildAbort
  <2> HIDE DEF f
  <2> QED
    BY <2>1, <2>2, WriteQuiet
<1>a. \A S, t : t \in Task => Requeued(S, t, task[t]).status \notin InFlight
  <2>1. \A t \in Task : task[t] \in TaskState /\ issued[t] \in Nat
    BY DEF IInv, TypeOK
  <2> QED
    BY <2>1, RequeuedOK
<1>5. ASSUME NEW force, Begin(force) PROVE Quiet(Task)
  <2> DEFINE f == [t \in Task |-> Requeued(Task, t, task[t])]
  <2>1. \A t \in Task : f[t].status \notin InFlight
    BY <1>a
  <2>2. Write(Task, f)
    BY <1>5 DEF Begin
  <2> HIDE DEF f
  <2> QED
    BY <2>1, <2>2, WriteQuiet
<1>6. ASSUME NEW S \in Subtree, Requeue(S) PROVE Quiet(S)
  <2> DEFINE f == [t \in S |-> Requeued(S, t, task[t])]
  <2>0. S \in SUBSET Task
    BY NodeAssumption
  <2>1. \A t \in S : f[t].status \notin InFlight
    BY <1>a, <2>0
  <2>2. Write(S, f)
    BY <1>6 DEF Requeue
  <2> HIDE DEF f
  <2> QED
    BY <2>0, <2>1, <2>2, WriteQuiet
<1>7. ASSUME NEW S \in SUBSET Task, SkipPending(S) PROVE Quiet(S)
  <2> DEFINE f == [t \in S |-> Reported(t, "aborted")]
  <2>1. \A t \in S : f[t].status \notin InFlight
    BY StatusOK
  <2>2. Write(S, f)
    BY <1>7 DEF SkipPending
  <2> HIDE DEF f
  <2> QED
    BY <2>1, <2>2, WriteQuiet
<1> QED
  BY <1>1, <1>2, <1>3, <1>4, <1>5, <1>6, <1>7
-----------------------------------------------------------------------------
(* The steps *)

\* The invariant is that of TaskLifecycle with the two parts.
LEMMA Parts == ShellInv <=> IInv /\ BudgetInv /\ CarrierInv
<1>1. IInv => TypeOK
  BY DEF IInv
<1> QED
  BY <1>1 DEF ShellInv, ShellTypeOK, SubmissionsAccounted, BudgetInv, CarrierInv

\* The attempts drawn are numbers within the bound, and a command belongs to an
\* attempt that was drawn.
LEMMA AttemptFields ==
  ASSUME IInv, BudgetInv
  PROVE  \A t \in Task :
           /\ issued[t] \in Nat /\ issued[t] <= MaxAttempts
           /\ task[t].attempt \in Nat /\ task[t].attempt <= issued[t]
           /\ \A n \in 1..MaxAttempts : command[t][n] # "none" => n <= issued[t]
<1>1. \A t \in Task : issued[t] \in Nat /\ task[t].attempt \in Nat /\ task[t].attempt <= issued[t]
  BY DEF IInv, TypeOK, RecordOK, TaskState
<1>2. \A t \in Task : /\ issued[t] <= MaxAttempts
                      /\ \A n \in 1..MaxAttempts : n > issued[t] => command[t][n] = "none"
  BY DEF BudgetInv, AttemptsInOrder
<1> QED
  BY <1>1, <1>2, BoundAssumption

\* What Task.run does to the tasks.
LEMMA RunEffect ==
  ASSUME IInv, NEW t \in Task, Run(t)
  PROVE  /\ issued[t] \in Nat /\ issued[t] < MaxAttempts
         /\ issued' = [issued EXCEPT ![t] = @ + 1]
         /\ task'[t].attempt = issued[t] + 1
         /\ \A u \in Task \ {t} : task'[u] = task[u]
<1>1. PICK s \in {"submitted", "aborted"} :
        Write({t}, [u \in {t} |-> SetStatus(NewAttempt(t), s)])
  BY DEF Run
<1>2. task[t] \in TaskState /\ issued[t] \in Nat
  BY DEF IInv, TypeOK
<1>3. SetStatus(NewAttempt(t), s).attempt = issued[t] + 1
  BY <1>2 DEF SetStatus, NewAttempt, TaskState
<1>4. task'[t].attempt = issued[t] + 1 /\ \A u \in Task \ {t} : task'[u] = task[u]
  BY <1>1, <1>3 DEF Write
<1> QED
  BY <1>2, <1>4 DEF Run

\* An accepted submission takes a place and the token, a refused one leaves an
\* aborted task.
LEMMA SubmitKeeps ==
  ASSUME IInv, BudgetInv, CarrierInv, NEW t \in Task, Run(t), Submit(t)
  PROVE  BudgetInv' /\ CarrierInv'
<1>a. PICK n : n = task'[t].attempt
  OBVIOUS
<1>0. /\ n \in 1..MaxAttempts /\ issued[t] < n /\ issued' = [issued EXCEPT ![t] = @ + 1]
      /\ n = issued[t] + 1
      /\ \A u \in Task \ {t} : task'[u] = task[u]
  BY <1>a, RunEffect, BoundAssumption
<1>b. \A u \in Task : /\ issued[u] \in Nat /\ issued'[u] \in Nat
                      /\ issued'[u] >= issued[u] /\ issued'[u] <= MaxAttempts
  <2>1. \A u \in Task : issued[u] \in Nat /\ issued[u] <= MaxAttempts
    BY AttemptFields
  <2>2. issued \in [Task -> Nat]
    BY DEF IInv, TypeOK
  <2>3. \A u \in Task : issued'[u] = IF u = t THEN issued[t] + 1 ELSE issued[u]
    BY <1>0, <2>2
  <2> QED
    BY <1>0, <2>1, <2>3, BoundAssumption
<1>c. n <= issued'[t]
  <2>1. issued \in [Task -> Nat]
    BY DEF IInv, TypeOK
  <2> QED
    BY <1>0, <2>1
<1>d. /\ slots' = slots /\ launched' = launched /\ forced' = forced \ {t}
      /\ command \in [Task -> [1..MaxAttempts -> Phase]] /\ token \in [Task -> 0..MaxAttempts]
      /\ launched \subseteq Task \X (1..MaxAttempts) /\ forced \subseteq Task
      /\ pending \in Nat /\ slots \in Int
  BY DEF Submit, BudgetInv, CarrierInv
<1>1. CASE /\ task'[t].status = "submitted" /\ pending < MaxPending /\ pending' = pending + 1
           /\ token' = [token EXCEPT ![t] = n] /\ Step(t, n, "created")
  <2>1. command[t][n] = "none"
    BY <1>0 DEF BudgetInv, AttemptsInOrder
  <2>2. /\ Counts("created", Placed) = 1 /\ Counts(command[t][n], Placed) = 0
        /\ Counts("created", Running) = 0 /\ Counts(command[t][n], Running) = 0
    BY <2>1 DEF Counts, Placed, Running, Live, Ended
  <2>3. /\ pending' = pending + Counts("created", Placed)
                              - Counts(command[t][n], Placed)
        /\ slots' = slots - Counts("created", Running) + Counts(command[t][n], Running)
    BY <1>1, <1>d, <2>2
  <2>4. pending' <= MaxPending /\ slots' >= 0
    BY <1>1, <1>d, BudgetAssumption DEF BudgetInv, BudgetExact
  <2>5. BudgetInv'
    BY <1>0, <1>1, <1>b, <1>c, <2>3, <2>4, StepKeepsBudget DEF Phase, Live
  <2>6. /\ command' = [command EXCEPT ![t][n] = "created"]
        /\ token' \in [Task -> 0..MaxAttempts] /\ token'[t] = n
        /\ \A u \in Task \ {t} : token'[u] = token[u] /\ command'[u] = command[u]
        /\ command'[t][n] = "created"
    BY <1>0, <1>1, <1>d, BoundAssumption DEF Step
  <2>7. InFlightHasCarrier'
    <3> SUFFICES ASSUME NEW u \in Task, task'[u].status \in InFlight
                 PROVE  \/ u \in forced' \/ <<u, task'[u].attempt>> \in launched'
                        \/ /\ task'[u].status = "submitted"
                           /\ task'[u].unknown \/ command'[u][task'[u].attempt] \in Reports
      BY DEF InFlightHasCarrier, Reports
    <3>1. CASE u = t
      BY <1>1, <1>a, <2>6, <3>1 DEF Reports, Live
    <3>2. CASE u # t
      BY <1>0, <1>d, <2>6, <3>2, Zenon DEF CarrierInv, InFlightHasCarrier, Reports
    <3> QED
      BY <3>1, <3>2
  <2>8. TokenIsCurrent'
    BY <1>0, <1>a, <2>6 DEF CarrierInv, TokenIsCurrent
  <2> QED
    BY <1>d, <2>5, <2>6, <2>7, <2>8 DEF CarrierInv
<1>2. CASE /\ task'[t].status = "aborted"
           /\ token' = [token EXCEPT ![t] = IF task[t].status = "aborted" THEN n ELSE 0]
           /\ UNCHANGED <<command, pending>>
  <2>1. command' = command /\ pending' = pending
    BY <1>2
  <2>2. BudgetInv'
    BY <1>b, <1>d, <2>1, RestKeepsBudget
  <2>3. /\ token' \in [Task -> 0..MaxAttempts]
        /\ \A u \in Task \ {t} : token'[u] = token[u]
    BY <1>0, <1>2, <1>d, BoundAssumption
  <2>4. task'[t].status \notin InFlight
    BY <1>2 DEF InFlight
  <2>5. \A u \in Task : task'[u].status \in InFlight =>
          /\ task'[u] = task[u] /\ token'[u] = token[u] /\ (u \in forced => u \in forced')
          /\ Decided(u)
    BY <1>0, <1>d, <2>1, <2>3, <2>4 DEF Decided
  <2>6. CarrierInv'
    BY <1>d, <2>3, <2>5, CarrierKept
  <2> QED
    BY <2>2, <2>6
<1> QED
  BY <1>1, <1>2, <1>a DEF Submit
\* The step of a command of an attempt that was drawn keeps the budget.
LEMMA MoveKeepsBudget ==
  ASSUME IInv, BudgetInv, NEW t \in Task, NEW n \in 1..MaxAttempts, NEW p \in Phase,
         command[t][n] # "none", Step(t, n, p), issued' = issued,
         pending' = pending + Counts(p, Placed) - Counts(command[t][n], Placed),
         slots' = slots - Counts(p, Running) + Counts(command[t][n], Running),
         pending' <= pending, slots' >= 0
  PROVE  BudgetInv'
<1>1. \A u \in Task : issued[u] \in Nat /\ issued[u] <= MaxAttempts
  BY AttemptFields
<1>2. n <= issued[t]
  BY AttemptFields
<1>3. pending' <= MaxPending
  <2>1. pending \in Nat /\ pending <= MaxPending /\ MaxPending \in Nat
    BY BudgetAssumption DEF BudgetInv, BudgetExact
  <2>2. Counts(p, Placed) \in Nat /\ Counts(command[t][n], Placed) \in Nat
    BY DEF Counts
  <2> QED
    BY <2>1, <2>2
<1> QED
  BY <1>1, <1>2, <1>3, StepKeepsBudget

\* A step of one command leaves the others as they are.  If it ends the wait
\* of a submitted task, the command was not the one of its attempt, or its job
\* was launched.
LEMMA StepDecides ==
  ASSUME IInv, BudgetInv, NEW t \in Task, NEW n \in 1..MaxAttempts, NEW p, Step(t, n, p),
         task[t].status = "submitted" /\ task[t].attempt = n =>
           p \in Reports \/ <<t, n>> \in launched' \/ command[t][n] \notin Reports
  PROVE  \A u \in Task : task[u].status \in InFlight => Decided(u)
<1> SUFFICES ASSUME NEW u \in Task, task[u].status \in InFlight PROVE Decided(u)
  OBVIOUS
<1>1. task[u].attempt \in 1..MaxAttempts
  <2>1. task[u].attempt # 0
    BY DEF IInv, RecordOK
  <2>2. /\ task[u].attempt \in Nat /\ task[u].attempt <= issued[u]
        /\ issued[u] \in Nat /\ issued[u] <= MaxAttempts
    BY AttemptFields
  <2> QED
    BY <2>1, <2>2, BoundAssumption
<1>2. /\ command \in [Task -> [1..MaxAttempts -> Phase]]
      /\ command' = [command EXCEPT ![t][n] = p]
  BY DEF BudgetInv, Step
<1>3. CASE u = t /\ task[u].attempt = n
  BY <1>2, <1>3 DEF Decided
<1>4. CASE ~(u = t /\ task[u].attempt = n)
  <2>1. command'[u][task[u].attempt] = command[u][task[u].attempt]
    BY <1>1, <1>2, <1>4
  <2> QED
    BY <2>1 DEF Decided
<1> QED
  BY <1>3, <1>4

\* A step that leaves the tasks and their tokens alone.
LEMMA SilentKeeps ==
  ASSUME CarrierInv, task' = task, token' = token, forced' = forced,
         launched \subseteq launched', launched' \subseteq Task \X (1..MaxAttempts),
         \A u \in Task : task[u].status \in InFlight => Decided(u)
  PROVE  CarrierInv'
<1>1. token' \in [Task -> 0..MaxAttempts] /\ forced' \subseteq Task
  BY DEF CarrierInv
<1> QED
  BY <1>1, CarrierKept

\* A submission that fails drops the token with the status.
LEMMA FailureDrops ==
  ASSUME IInv, BudgetInv, CarrierInv, IInv', NEW t \in Task, NEW n \in 1..MaxAttempts, NEW p,
         Step(t, n, p), SubmissionFails(t), DropTokens({t}), launched' = launched
  PROVE  CarrierInv'
<1>1. Quiet({t})
  BY HandlersQuiet
<1>2. \A u \in Task \ {t} : command'[u] = command[u]
  BY DEF Step, BudgetInv
<1>3. \A u \in Task : task'[u].status \in InFlight => Decided(u)
  BY <1>1, <1>2 DEF Quiet, Decided
<1> QED
  BY <1>1, <1>3, QuietKeeps

\* on_skipped aborts the attempt that waits for the command and no other.
LEMMA SkipKeeps ==
  ASSUME IInv, BudgetInv, CarrierInv, IInv', NEW t \in Task, NEW n \in 1..MaxAttempts,
         command[t][n] \in {"created", "waiting"}, Skip(t, n),
         slots' = slots, pending' = pending, launched' = launched
  PROVE  BudgetInv' /\ CarrierInv'
<1>1. Step(t, n, "ok") /\ issued' = issued
  BY DEF Skip, SubmissionFails, vars
<1>2. BudgetInv'
  <2>1. /\ Counts("ok", Placed) = 1 /\ Counts(command[t][n], Placed) = 1
        /\ Counts("ok", Running) = 0 /\ Counts(command[t][n], Running) = 0
    BY DEF Counts, Placed, Running, Live, Ended
  <2>2. pending \in Nat /\ slots \in Int /\ slots >= 0
    BY DEF BudgetInv, BudgetExact
  <2>3. command[t][n] # "none" /\ "ok" \in Phase
    BY DEF Phase, Ended
  <2> QED
    BY <1>1, <2>1, <2>2, <2>3, MoveKeepsBudget
<1>3. CarrierInv'
  <2>1. CASE SkipAborts(t, n)
    <3>1. SubmissionFails(t) /\ DropTokens({t})
      BY <2>1 DEF Skip
    <3> QED
      BY <1>1, <3>1, FailureDrops
  <2>2. CASE ~SkipAborts(t, n)
    <3>1. task' = task /\ token' = token /\ forced' = forced
      BY <2>2 DEF Skip, vars
    <3>2. ~(task[t].status = "submitted" /\ task[t].attempt = n)
      BY <2>2 DEF SkipAborts, IsCurrent, CarrierInv, TokenIsCurrent, InFlight
    <3>3. \A u \in Task : task[u].status \in InFlight => Decided(u)
      BY <1>1, <3>2, StepDecides, Zenon
    <3>4. launched \subseteq launched' /\ launched' \subseteq Task \X (1..MaxAttempts)
      BY DEF CarrierInv
    <3> QED
      BY <3>1, <3>3, <3>4, SilentKeeps
  <2> QED
    BY <2>1, <2>2
<1> QED
  BY <1>2, <1>3

\* A command that goes on to wait or to run.
LEMMA AdvanceKeeps ==
  ASSUME IInv, BudgetInv, CarrierInv, NEW t \in Task, NEW n \in 1..MaxAttempts,
         command[t][n] \in {"created", "waiting"},
         \/ Step(t, n, "running") /\ slots > 0 /\ slots' = slots - 1
         \/ Step(t, n, "waiting") /\ slots' = slots,
         UNCHANGED <<vars, token, forced>>, pending' = pending, launched' = launched
  PROVE  BudgetInv' /\ CarrierInv'
<1>1. /\ issued' = issued /\ task' = task /\ token' = token /\ forced' = forced
      /\ launched \subseteq launched' /\ launched' \subseteq Task \X (1..MaxAttempts)
  BY DEF vars, CarrierInv
<1>2. pending \in Nat /\ slots \in Int /\ slots >= 0
  BY DEF BudgetInv, BudgetExact
<1>3. PICK p \in {"running", "waiting"} :
        Step(t, n, p) /\ slots' = slots - Counts(p, Running) /\ slots' >= 0
  BY <1>2 DEF Counts, Placed, Running
<1>4. /\ Counts(p, Placed) = 1 /\ Counts(command[t][n], Placed) = 1
      /\ Counts(command[t][n], Running) = 0
  BY DEF Counts, Placed, Running, Live, Ended
<1>5. p \in Phase /\ p \in Reports /\ command[t][n] # "none"
  BY DEF Phase, Live, Reports
<1>6. BudgetInv'
  <2>1. slots' = slots - Counts(p, Running) + Counts(command[t][n], Running)
    BY <1>2, <1>3, <1>4 DEF Counts, Placed, Running
  <2> QED
    BY <1>1, <1>2, <1>3, <1>4, <1>5, <2>1, MoveKeepsBudget
<1>7. \A u \in Task : task[u].status \in InFlight => Decided(u)
  BY <1>3, <1>5, StepDecides, Zenon
<1> QED
  BY <1>1, <1>6, <1>7, SilentKeeps

\* Steps of the coroutine and its done callback.
LEMMA CommandKeeps ==
  ASSUME IInv, BudgetInv, CarrierInv, IInv', NEW t \in Task, NEW n \in 1..MaxAttempts,
         CommandStep(t, n)
  PROVE  BudgetInv' /\ CarrierInv'
<1>a. pending \in Nat /\ slots \in Int /\ slots >= 0 /\ launched \subseteq Task \X (1..MaxAttempts)
  BY DEF BudgetInv, BudgetExact, CarrierInv
<1>1. CASE FirstStep(t, n)
  <2>1. command[t][n] = "created" /\ pending' = pending /\ launched' = launched
    BY <1>1 DEF FirstStep
  <2>2. CASE BeforeStart(t, n)
    BY <1>1, <2>1, <2>2, AdvanceKeeps DEF FirstStep
  <2>3. CASE ~BeforeStart(t, n)
    BY <1>1, <2>1, <2>3, SkipKeeps DEF FirstStep
  <2> QED
    BY <2>2, <2>3
<1>2. CASE SlotGranted(t, n)
  <2>1. command[t][n] = "waiting" /\ pending' = pending /\ launched' = launched /\ slots > 0
    BY <1>2 DEF SlotGranted
  <2>2. CASE BeforeStart(t, n)
    BY <1>2, <2>1, <2>2, AdvanceKeeps DEF SlotGranted
  <2>3. CASE ~BeforeStart(t, n)
    BY <1>2, <2>1, <2>3, SkipKeeps DEF SlotGranted
  <2> QED
    BY <2>2, <2>3
<1>3. CASE QueueTimeout(t, n)
  <2>1. /\ command[t][n] = "waiting" /\ Step(t, n, "rejected")
        /\ pending' = pending /\ slots' = slots /\ launched' = launched
        /\ issued' = issued /\ task' = task /\ token' = token /\ forced' = forced
    BY <1>3 DEF QueueTimeout, vars
  <2>2. /\ Counts("rejected", Placed) = 1 /\ Counts(command[t][n], Placed) = 1
        /\ Counts("rejected", Running) = 0 /\ Counts(command[t][n], Running) = 0
        /\ "rejected" \in Phase /\ "rejected" \in Reports /\ command[t][n] # "none"
    BY <2>1 DEF Counts, Placed, Running, Live, Ended, Phase, Reports
  <2>3. BudgetInv'
    BY <1>a, <2>1, <2>2, MoveKeepsBudget
  <2>4. \A u \in Task : task[u].status \in InFlight => Decided(u)
    BY <2>1, <2>2, StepDecides, Zenon
  <2> QED
    BY <1>a, <2>1, <2>3, <2>4, SilentKeeps
<1>4. CASE JobLaunched(t, n)
  <2>1. /\ launched' = launched \cup {<<t, n>>} /\ command' = command
        /\ pending' = pending /\ slots' = slots
        /\ issued' = issued /\ task' = task /\ token' = token /\ forced' = forced
    BY <1>4 DEF JobLaunched, vars
  <2>2. BudgetInv'
    BY <2>1, AttemptFields, RestKeepsBudget
  <2>3. launched \subseteq launched' /\ launched' \subseteq Task \X (1..MaxAttempts)
    BY <1>a, <2>1
  <2>4. \A u \in Task : task[u].status \in InFlight => Decided(u)
    BY <2>1 DEF Decided
  <2> QED
    BY <2>1, <2>2, <2>3, <2>4, SilentKeeps
<1>5. CASE ProcessEnds(t, n)
  <2>1. PICK p \in {"ok", "failed"} :
          Step(t, n, p) /\ (p = "ok" => <<t, n>> \in launched)
    BY <1>5 DEF ProcessEnds
  <2>2. /\ command[t][n] = "running"
        /\ pending' = pending /\ slots' = slots + 1 /\ launched' = launched
        /\ issued' = issued /\ task' = task /\ token' = token /\ forced' = forced
    BY <1>5 DEF ProcessEnds, vars
  <2>3. /\ Counts(p, Placed) = 1 /\ Counts(command[t][n], Placed) = 1
        /\ Counts(p, Running) = 0 /\ Counts(command[t][n], Running) = 1
        /\ p \in Phase /\ command[t][n] # "none"
    BY <2>2 DEF Counts, Placed, Running, Live, Ended, Phase
  <2>4. BudgetInv'
    BY <1>a, <2>1, <2>2, <2>3, MoveKeepsBudget
  <2>5. p \in Reports \/ <<t, n>> \in launched'
    BY <2>1, <2>2 DEF Reports
  <2>6. \A u \in Task : task[u].status \in InFlight => Decided(u)
    BY <2>1, <2>5, StepDecides
  <2> QED
    BY <1>a, <2>2, <2>4, <2>6, SilentKeeps, Zenon
<1>6. CASE JobDone(t, n)
  <2>1. /\ command[t][n] \in Ended /\ Step(t, n, "done")
        /\ pending' = pending - 1 /\ slots' = slots /\ launched' = launched
        /\ launched \subseteq launched'
    BY <1>6, Zenon DEF JobDone
  <2>2. /\ Counts("done", Placed) = 0 /\ Counts(command[t][n], Placed) = 1
        /\ Counts("done", Running) = 0 /\ Counts(command[t][n], Running) = 0
        /\ "done" \in Phase /\ command[t][n] # "none"
    BY <2>1 DEF Counts, Placed, Running, Live, Ended, Phase
  <2>3. issued' = issued
    BY <1>6 DEF JobDone, SubmissionFails, SubmissionUnknown, vars
  <2>4. BudgetInv'
    BY <1>a, <2>1, <2>2, <2>3, MoveKeepsBudget
  <2> DEFINE owns == /\ command[t][n] \in {"failed", "rejected"} /\ IsCurrent(t, n)
                     /\ task[t].status \in InFlight
             unsure == t \in External /\ command[t][n] = "failed"
  <2>5. CASE owns /\ ~unsure
    <3>1. SubmissionFails(t) /\ DropTokens({t})
      BY <1>6, <2>5, Zenon DEF JobDone
    <3> QED
      BY <2>1, <2>4, <3>1, FailureDrops, Zenon
  <2>6. CASE owns /\ unsure /\ task[t].status # "active"
    <3>1. SubmissionUnknown(t) /\ token' = token /\ forced' = forced
      BY <1>6, <2>6, Zenon DEF JobDone
    <3>2. task[t] \in TaskState /\ task \in [Task -> TaskState]
      BY DEF IInv, TypeOK
    <3>3. /\ task[t].status = "submitted" /\ task' = [task EXCEPT ![t].unknown = TRUE]
          /\ task[t].attempt = n
      BY <2>6, <3>1 DEF SubmissionUnknown, IsCurrent
    <3>4. /\ task'[t].status = "submitted" /\ task'[t].unknown = TRUE /\ task'[t].attempt = n
          /\ \A u \in Task \ {t} : task'[u] = task[u] /\ command'[u] = command[u]
      BY <2>1, <3>2, <3>3 DEF TaskState, Step, BudgetInv
    <3>5. InFlightHasCarrier'
      <4> SUFFICES ASSUME NEW u \in Task, task'[u].status \in InFlight
                   PROVE  \/ u \in forced' \/ <<u, task'[u].attempt>> \in launched'
                          \/ /\ task'[u].status = "submitted"
                             /\ task'[u].unknown \/ command'[u][task'[u].attempt] \in Reports
        BY DEF InFlightHasCarrier, Reports
      <4>1. CASE u = t
        BY <3>4, <4>1
      <4>2. CASE u # t
        BY <2>1, <3>1, <3>4, <4>2, Zenon DEF CarrierInv, InFlightHasCarrier, Reports
      <4> QED
        BY <4>1, <4>2
    <3>6. TokenIsCurrent'
      BY <2>6, <3>1, <3>4 DEF CarrierInv, TokenIsCurrent, IsCurrent
    <3> QED
      BY <1>a, <2>1, <2>4, <3>1, <3>5, <3>6, Zenon DEF CarrierInv
  <2>7. CASE ~owns \/ (unsure /\ task[t].status = "active")
    <3>1. task' = task /\ token' = token /\ forced' = forced
      BY <1>6, <2>7 DEF JobDone, vars
    <3>2. task[t].status = "submitted" /\ task[t].attempt = n => command[t][n] \notin Reports
      <4> SUFFICES ASSUME task[t].status = "submitted", task[t].attempt = n,
                          command[t][n] \in Reports
                   PROVE  FALSE
        OBVIOUS
      <4>1. task[t].status \in InFlight /\ token[t] = n /\ task[t].status # "active"
        BY DEF CarrierInv, TokenIsCurrent, InFlight
      <4>2. command[t][n] \in {"failed", "rejected"}
        BY <2>1 DEF Ended, Reports, Live
      <4> QED
        BY <2>7, <4>1, <4>2 DEF IsCurrent
    <3>3. \A u \in Task : task[u].status \in InFlight => Decided(u)
      BY <2>1, <3>2, StepDecides, Zenon
    <3> QED
      BY <1>a, <2>1, <2>4, <3>1, <3>3, SilentKeeps
  <2> QED
    BY <2>5, <2>6, <2>7, Zenon
<1> QED
  BY <1>1, <1>2, <1>3, <1>4, <1>5, <1>6 DEF CommandStep
\* A handler that takes the tasks of U out of flight and drops their tokens.
LEMMA HandlerKeeps ==
  ASSUME IInv, BudgetInv, CarrierInv, IInv', NEW U, Quiet(U), DropTokens(U),
         issued' = issued, UNCHANGED <<command, pending, slots, launched>>
  PROVE  BudgetInv' /\ CarrierInv'
<1>1. command' = command /\ pending' = pending /\ slots' = slots /\ launched' = launched
  OBVIOUS
<1>2. BudgetInv'
  BY <1>1, AttemptFields, RestKeepsBudget
<1>3. \A u \in Task : Decided(u)
  BY <1>1 DEF Decided
<1> QED
  BY <1>1, <1>2, <1>3, QuietKeeps

\* A report of init comes from a job, which was launched.
LEMMA InitKeeps ==
  ASSUME IInv, BudgetInv, CarrierInv, NEW t \in Task, NEW n, NEW r, ShellChildInit(t, n, r)
  PROVE  BudgetInv' /\ CarrierInv'
<1>1. /\ command' = command /\ pending' = pending /\ slots' = slots /\ launched' = launched
      /\ token' = token /\ forced' = forced /\ issued' = issued
      /\ <<t, n>> \in launched /\ task[t].attempt = n /\ task[t].status \in InFlight
  BY DEF ShellChildInit, ChildInit, GuardAttempt, shellVars
<1>2. BudgetInv'
  BY <1>1, AttemptFields, RestKeepsBudget
<1>3. task[t] \in TaskState
  BY DEF IInv, TypeOK
<1>4. [Reported(t, "active") EXCEPT !.rid = r].attempt = n
  BY <1>1, <1>3 DEF Reported, TaskState
<1>5. task'[t].attempt = n /\ \A u \in Task \ {t} : task'[u] = task[u]
  BY <1>4, Zenon DEF ShellChildInit, ChildInit, Write
<1>6. InFlightHasCarrier'
  <2> SUFFICES ASSUME NEW u \in Task, task'[u].status \in InFlight
               PROVE  \/ u \in forced' \/ <<u, task'[u].attempt>> \in launched'
                      \/ /\ task'[u].status = "submitted"
                         /\ task'[u].unknown \/ command'[u][task'[u].attempt] \in Reports
    BY DEF InFlightHasCarrier, Reports
  <2>1. CASE u = t
    BY <1>1, <1>5, <2>1
  <2>2. CASE u # t
    BY <1>1, <1>5, <2>2 DEF CarrierInv, InFlightHasCarrier, Reports
  <2> QED
    BY <2>1, <2>2
<1>7. TokenIsCurrent'
  BY <1>1, <1>5 DEF CarrierInv, TokenIsCurrent
<1> QED
  BY <1>1, <1>2, <1>6, <1>7 DEF CarrierInv

\* A forced in-flight status is for tasks in flight, whose attempt and token
\* stay.
LEMMA OverrideKeeps ==
  ASSUME IInv, BudgetInv, CarrierInv, NEW U \in SUBSET Task, NEW s \in InFlight,
         Write(U, [t \in U |-> Forced(t, s)]), \A t \in U : ForceAllowed(t, s),
         issued' = issued, NEW D, Override(U, s, D)
  PROVE  BudgetInv' /\ CarrierInv'
<1>1. /\ command' = command /\ pending' = pending /\ slots' = slots /\ launched' = launched
      /\ token' = token /\ forced' = forced \cup U
  BY DEF Override
<1>2. BudgetInv'
  <2>1. \A t \in Task : issued[t] \in Nat /\ issued[t] <= MaxAttempts
    BY AttemptFields, Zenon
  <2>2. \A t \in Task : issued[t] \in Nat /\ issued'[t] \in Nat
                         /\ issued'[t] >= issued[t] /\ issued'[t] <= MaxAttempts
    BY <2>1
  <2> QED
    BY <1>1, <2>2, RestKeepsBudget
<1>3. ASSUME NEW u \in U
      PROVE  task[u].status \in InFlight /\ task'[u].attempt = task[u].attempt
  <2>1. task[u] \in TaskState
    BY DEF IInv, TypeOK
  <2>2. SetStatus(task[u], s).attempt = task[u].attempt
    BY <2>1 DEF SetStatus, TaskState
  <2>3. Forced(u, s) = SetStatus(task[u], s)
    BY DEF Forced, InFlight
  <2>4. task'[u] = Forced(u, s)
    BY DEF Write
  <2> QED
    BY <2>2, <2>3, <2>4, Zenon DEF ForceAllowed
<1>4. \A u \in Task \ U : task'[u] = task[u]
  BY DEF Write
<1>5. InFlightHasCarrier'
  <2> SUFFICES ASSUME NEW u \in Task \ U, task'[u].status \in InFlight
               PROVE  \/ u \in forced' \/ <<u, task'[u].attempt>> \in launched'
                      \/ /\ task'[u].status = "submitted"
                         /\ task'[u].unknown \/ command'[u][task'[u].attempt] \in Reports
    BY <1>1, Zenon DEF InFlightHasCarrier, Reports
  <2> QED
    BY <1>1, <1>4, Zenon DEF CarrierInv, InFlightHasCarrier, Reports
<1>6. TokenIsCurrent'
  BY <1>1, <1>3, <1>4, Zenon DEF CarrierInv, TokenIsCurrent
<1> QED
  BY <1>1, <1>2, <1>5, <1>6 DEF CarrierInv

\* force of one task.
LEMMA ForceTaskKeeps ==
  ASSUME IInv, BudgetInv, CarrierInv, IInv', NEW t \in Task, NEW s \in Status,
         ShellForceTask(t, s)
  PROVE  BudgetInv' /\ CarrierInv'
<1> DEFINE f == [u \in {t} |-> Forced(u, s)]
           D == {u \in {t} : s # task[u].status}
<1>1. /\ ForceAllowed(t, s) /\ issued' = issued /\ Override({t}, s, D)
      /\ task[t].unknown => s \notin InFlight
  BY Zenon DEF ShellForceTask, ForceTask, InFlight
<1>2. CASE s \in InFlight
  <2>1. Write({t}, f)
    BY <1>2 DEF ShellForceTask, ForceTask, InFlight
  <2> QED
    BY <1>1, <1>2, <2>1, OverrideKeeps
<1>3. CASE s \notin InFlight
  <2>1. \A u \in {t} : RecordOK(u, f[u], issued[u]) /\ f[u].status \notin InFlight
    BY <1>1, <1>3, ForcedOK, Zenon
  <2>2. WriteAndRepeat({t}, f)
    BY Zenon DEF ShellForceTask, ForceTask, WriteAndRepeat
  <2>3. DropTokens(D) /\ UNCHANGED <<command, pending, slots, launched>>
    BY <1>1, <1>3 DEF Override
  <2>4. D \subseteq {t}
    OBVIOUS
  <2> HIDE DEF f, D
  <2>5. Quiet({t})
    BY <2>1, <2>2, WriteAndRepeatQuiet, Zenon
  <2>6. Quiet(D)
    BY <2>4, <2>5 DEF Quiet
  <2> QED
    BY <1>1, <2>3, <2>6, HandlerKeeps
<1> QED
  BY <1>2, <1>3

\* force of a node and all that is below it.
LEMMA ForceTreeKeeps ==
  ASSUME IInv, BudgetInv, CarrierInv, IInv', NEW S \in Subtree, NEW s \in Status,
         ShellForceTree(S, s)
  PROVE  BudgetInv' /\ CarrierInv'
<1> DEFINE f == [t \in S |-> Forced(t, s)]
<1>0. S \in SUBSET Task
  BY NodeAssumption
<1>1. /\ \A t \in S : ForceAllowed(t, s) /\ ~task[t].unknown
      /\ issued' = issued /\ Override(S, s, S)
  BY DEF ShellForceTree, ForceTree
<1>2. CASE s \in InFlight
  <2>1. Write(S, f)
    BY <1>2 DEF ShellForceTree, ForceTree, InFlight
  <2> QED
    BY <1>0, <1>1, <1>2, <2>1, OverrideKeeps
<1>3. CASE s \notin InFlight
  <2>1. \A u \in S : RecordOK(u, f[u], issued[u]) /\ f[u].status \notin InFlight
    BY <1>0, <1>1, <1>3, ForcedOK, Zenon
  <2>2. WriteAndRepeat(S, f)
    BY Zenon DEF ShellForceTree, ForceTree, WriteAndRepeat
  <2>3. DropTokens(S) /\ UNCHANGED <<command, pending, slots, launched>>
    BY <1>1, <1>3 DEF Override
  <2> HIDE DEF f
  <2>4. Quiet(S)
    BY <1>0, <2>1, <2>2, WriteAndRepeatQuiet, Zenon
  <2> QED
    BY <1>1, <2>3, <2>4, HandlerKeeps
<1> QED
  BY <1>2, <1>3

\* skip_pending_commands aborts every task whose command it cancels.
LEMMA CancelKeeps ==
  ASSUME IInv, BudgetInv, CarrierInv, IInv', SkipPending(Skipped), CancelWaiting,
         issued' = issued
  PROVE  BudgetInv' /\ CarrierInv'
<1>1. BudgetInv'
  BY CancelKeepsBudget
<1>2. Quiet(Skipped)
  <2>1. Skipped \in SUBSET Task
    BY DEF Skipped
  <2> QED
    BY <2>1, HandlersQuiet
<1>3. DropTokens(Skipped) /\ launched' = launched
  BY DEF CancelWaiting
<1>4. ASSUME NEW u \in Task, task'[u].status \in InFlight PROVE Decided(u)
  <2> SUFFICES ASSUME task[u].status = "submitted", command[u][task[u].attempt] \in Reports
               PROVE  command'[u][task[u].attempt] \in Reports
    BY DEF Decided
  <2>1. task[u].attempt \in 1..MaxAttempts
    <3>1. task[u].attempt # 0
      BY Zenon DEF IInv, RecordOK, InFlight
    <3>2. /\ task[u].attempt \in Nat /\ task[u].attempt <= issued[u]
          /\ issued[u] \in Nat /\ issued[u] <= MaxAttempts
      BY AttemptFields
    <3> QED
      BY <3>1, <3>2, BoundAssumption
  <2>2. command[u][task[u].attempt] # "waiting"
    <3>1. token[u] = task[u].attempt
      BY DEF CarrierInv, TokenIsCurrent, InFlight
    <3>2. u \notin Skipped
      BY <1>2, <1>4 DEF Quiet
    <3> QED
      BY <2>1, <3>1, <3>2 DEF Skipped, SkipAborts, IsCurrent
  <2> QED
    BY <2>1, <2>2 DEF CancelWaiting
<1>5. CarrierInv'
  BY <1>2, <1>3, <1>4, QuietKeeps
<1> QED
  BY <1>1, <1>5
-----------------------------------------------------------------------------
(* The theorems *)

\* The invariant holds before anything was submitted.
LEMMA InitShellInv == ShellInit => ShellInv
<1> SUFFICES ASSUME ShellInit PROVE ShellInv
  OBVIOUS
<1>1. IInv
  BY InitIInv DEF ShellInit
<1>2. /\ command = [t \in Task |-> [n \in 1..MaxAttempts |-> "none"]]
      /\ token = [t \in Task |-> 0] /\ pending = 0 /\ slots = MaxRunning
      /\ launched = {} /\ forced = {} /\ issued = [t \in Task |-> 0]
      /\ \A t \in Task : task[t].status = "unknown"
  BY DEF ShellInit, Init, Fresh
<1>3. CommandsIn(Live \cup Ended) = {} /\ CommandsIn({"running"}) = {}
  BY <1>2 DEF CommandsIn, Live, Ended
<1>4. BudgetExact
  <2>1. /\ Cardinality(CommandsIn(Live \cup Ended)) = 0
        /\ Cardinality(CommandsIn({"running"})) = 0
    BY <1>3, FS_EmptySet, Zenon
  <2> QED
    BY <1>2, <2>1, BudgetAssumption DEF BudgetExact
<1>5. AttemptsInOrder
  BY <1>2, BoundAssumption DEF AttemptsInOrder
<1>6. BudgetInv
  BY <1>2, <1>4, <1>5, BudgetAssumption DEF BudgetInv, Phase
<1>7. CarrierInv
  BY <1>2, BoundAssumption DEF CarrierInv, InFlightHasCarrier, TokenIsCurrent, InFlight
<1> QED
  BY <1>1, <1>6, <1>7, Parts

\* ShellInv is inductive.
LEMMA NextShellInv == ShellInv /\ [ShellNext]_allVars => ShellInv'
<1>a. IInv' /\ BudgetInv' /\ CarrierInv' => ShellInv'
  BY DEF IInv, ShellInv, ShellTypeOK, SubmissionsAccounted, BudgetInv, CarrierInv
<1> SUFFICES ASSUME IInv, BudgetInv, CarrierInv, [ShellNext]_allVars
             PROVE  IInv' /\ BudgetInv' /\ CarrierInv'
  BY <1>a, Parts
<1>0. IInv'
  BY ShellStepRefines, NextIInv
<1>1. ASSUME NEW t \in Task, ShellScanRun(t) \/ \E force \in BOOLEAN : ShellRunCommand(t, force)
      PROVE  BudgetInv' /\ CarrierInv'
  <2>1. Run(t) /\ Submit(t)
    BY <1>1 DEF ShellScanRun, ShellRunCommand, ScanRun, RunCommand
  <2> QED
    BY <2>1, SubmitKeeps
<1>2. ASSUME NEW t \in Task, ShellScanComplete(t) PROVE BudgetInv' /\ CarrierInv'
  <2>1. Quiet({t})
    BY <1>2, HandlersQuiet DEF ShellScanComplete
  <2>2. /\ DropTokens({t}) /\ issued' = issued
        /\ UNCHANGED <<command, pending, slots, launched>>
    BY <1>2 DEF ShellScanComplete, ScanComplete
  <2> QED
    BY <1>0, <2>1, <2>2, HandlerKeeps
<1>3. ASSUME NEW t \in Task, NEW n \in 1..MaxAttempts, CommandStep(t, n)
      PROVE  BudgetInv' /\ CarrierInv'
  BY <1>0, <1>3, CommandKeeps
<1>4. ASSUME NEW t \in Task, NEW n \in 1..MaxAttempts, NEW r \in Rid, ShellChildInit(t, n, r)
      PROVE  BudgetInv' /\ CarrierInv'
  BY <1>4, InitKeeps
<1>5. ASSUME NEW t \in Task, NEW n \in 1..MaxAttempts,
             ShellChildComplete(t, n) \/ ShellChildAbort(t, n)
      PROVE  BudgetInv' /\ CarrierInv'
  <2>1. Quiet({t})
    BY <1>5, HandlersQuiet DEF ShellChildComplete, ShellChildAbort
  <2>2. /\ DropTokens({t}) /\ issued' = issued
        /\ UNCHANGED <<command, pending, slots, launched>>
    BY <1>5 DEF ShellChildComplete, ShellChildAbort, ChildComplete, ChildAbort
  <2> QED
    BY <1>0, <2>1, <2>2, HandlerKeeps
<1>6. ASSUME NEW t \in Task, NEW s \in Status, ShellForceTask(t, s)
      PROVE  BudgetInv' /\ CarrierInv'
  BY <1>0, <1>6, ForceTaskKeeps
<1>7. ASSUME NEW S \in Subtree, NEW s \in Status, ShellForceTree(S, s)
      PROVE  BudgetInv' /\ CarrierInv'
  BY <1>0, <1>7, ForceTreeKeeps
<1>8. ASSUME NEW S \in Subtree, ShellRequeue(S) PROVE BudgetInv' /\ CarrierInv'
  <2>1. Quiet(S)
    BY <1>8, HandlersQuiet DEF ShellRequeue
  <2>2. DropTokens(S) /\ issued' = issued /\ UNCHANGED <<command, pending, slots, launched>>
    BY <1>8 DEF ShellRequeue, Requeue
  <2> QED
    BY <1>0, <2>1, <2>2, HandlerKeeps
<1>9. ASSUME NEW force \in BOOLEAN, ShellBegin(force) PROVE BudgetInv' /\ CarrierInv'
  <2>1. Quiet(Task)
    BY <1>9, HandlersQuiet DEF ShellBegin
  <2>2. DropTokens(Task) /\ issued' = issued /\ UNCHANGED <<command, pending, slots, launched>>
    BY <1>9 DEF ShellBegin, Begin
  <2> QED
    BY <1>0, <2>1, <2>2, HandlerKeeps
<1>10. CASE ShellServerHalt \/ ShellBeginShutdown
  <2>1. SkipPending(Skipped) /\ CancelWaiting /\ issued' = issued
    BY <1>10 DEF ShellServerHalt, ShellBeginShutdown, ServerHalt, BeginShutdown
  <2> QED
    BY <1>0, <2>1, CancelKeeps
<1>11. CASE \/ ShellServerResume \/ \E success \in BOOLEAN : ShellCheckpointOutcome(success)
            \/ UNCHANGED allVars
  <2>1. /\ command' = command /\ pending' = pending /\ slots' = slots /\ launched' = launched
        /\ task' = task /\ token' = token /\ forced' = forced /\ issued' = issued
    BY <1>11 DEF ShellServerResume, ShellCheckpointOutcome, ServerResume, CheckpointOutcome,
       allVars, vars, shellVars
  <2>2. BudgetInv'
    BY <2>1, AttemptFields, RestKeepsBudget
  <2>3. \A u \in Task : Decided(u)
    BY <2>1 DEF Decided
  <2>4. launched \subseteq launched' /\ launched' \subseteq Task \X (1..MaxAttempts)
    BY <2>1 DEF CarrierInv
  <2> QED
    BY <1>0, <2>1, <2>2, <2>3, <2>4, SilentKeeps
<1>12. CASE ShellNext
  <2>1. ASSUME NEW t \in Task,
               \/ ShellScanRun(t)
               \/ ShellScanComplete(t)
               \/ \E force \in BOOLEAN : ShellRunCommand(t, force)
               \/ \E n \in 1..MaxAttempts :
                    \/ CommandStep(t, n)
                    \/ \E r \in Rid : ShellChildInit(t, n, r)
                    \/ ShellChildComplete(t, n)
                    \/ ShellChildAbort(t, n)
               \/ \E s \in Status : ShellForceTask(t, s)
        PROVE  BudgetInv' /\ CarrierInv'
    BY <1>1, <1>2, <1>3, <1>4, <1>5, <1>6, <2>1
  <2> QED
    BY <1>0, <1>7, <1>8, <1>9, <1>10, <1>11, <1>12, <2>1 DEF ShellNext
<1> QED
  BY <1>0, <1>11, <1>12

\* The invariant of the shell submission, for any tasks and budgets.
THEOREM ShellInvariance == ShellSpec => []ShellInv
<1>1. ShellInit => ShellInv
  BY InitShellInv
<1>2. ShellInv /\ [ShellNext]_allVars => ShellInv'
  BY NextShellInv
<1> QED
  BY <1>1, <1>2, PTL DEF ShellSpec

\* The budget of commands and process slots is exact and within its bounds,
\* and no task in flight is stranded, however submit commands, reports of jobs,
\* operator commands and halts interleave (ShellRunner, ShellScriptTask).
THEOREM AccountsHold == ShellSpec => []SubmissionsAccounted
<1>1. ShellInv => SubmissionsAccounted
  BY DEF ShellInv
<1> QED
  BY <1>1, ShellInvariance, PTL

\* A step that leaves the commands alone starts and ends none.
LEMMA NoCommandActs ==
  ASSUME command' = command
  PROVE  CurrentStart /\ OwnCallback
  BY DEF CurrentStart, OwnCallback

\* The step of one command that starts no process writes its own task only
\* when the command is the one of the current attempt.
LEMMA OneCommandActs ==
  ASSUME BudgetInv, NEW t \in Task, NEW n \in 1..MaxAttempts, NEW p, Step(t, n, p),
         command[t][n] # p,
         p = "running" => BeforeStart(t, n),
         task'[t] # task[t] => task'[t].attempt = n
  PROVE  CurrentStart /\ OwnCallback
<1>1. /\ command' = [command EXCEPT ![t][n] = p]
      /\ command \in [Task -> [1..MaxAttempts -> Phase]]
  BY Zenon DEF Step, BudgetInv
<1>2. /\ \A u \in Task \ {t} : command'[u] = command[u]
      /\ \A m \in 1..MaxAttempts : command'[t][m] = IF m = n THEN p ELSE command[t][m]
  BY <1>1, Zenon
<1>3. CurrentStart
  BY <1>2, Zenon DEF CurrentStart, BeforeStart, IsCurrent
<1>4. OwnCallback
  <2> SUFFICES ASSUME NEW u \in Task, command'[u] # command[u], task'[u] # task[u]
               PROVE  command'[u][task'[u].attempt] # command[u][task'[u].attempt]
    BY Zenon DEF OwnCallback
  <2>1. u = t
    BY <1>2
  <2> QED
    BY <1>2, <2>1, Zenon
<1> QED
  BY <1>3, <1>4

\* Every step of a command acts for its own attempt.
LEMMA CommandActs ==
  ASSUME IInv, BudgetInv, NEW t \in Task, NEW n \in 1..MaxAttempts, CommandStep(t, n)
  PROVE  CurrentStart /\ OwnCallback
<1>a. ASSUME SubmissionFails(t) \/ SubmissionUnknown(t)
      PROVE  task'[t].attempt = task[t].attempt
  <2>1. task[t] \in TaskState /\ task \in [Task -> TaskState]
    BY DEF IInv, TypeOK
  <2>2. Reported(t, "aborted").attempt = task[t].attempt
    BY <2>1 DEF Reported, TaskState
  <2>3. CASE SubmissionFails(t)
    BY <2>2, <2>3 DEF SubmissionFails, Write
  <2>4. CASE SubmissionUnknown(t)
    BY <2>1, <2>4 DEF SubmissionUnknown, TaskState
  <2> QED
    BY <1>a, <2>3, <2>4
<1>b. ASSUME Skip(t, n), command[t][n] \in {"created", "waiting"}
      PROVE  CurrentStart /\ OwnCallback
  <2>1. Step(t, n, "ok") /\ command[t][n] # "ok"
    BY <1>b DEF Skip
  <2>2. task'[t] # task[t] => task'[t].attempt = n
    BY <1>a, <1>b, Zenon DEF Skip, SkipAborts, IsCurrent, vars
  <2> QED
    BY <2>1, <2>2, OneCommandActs
<1>1. CASE FirstStep(t, n)
  <2>1. command[t][n] = "created"
    BY <1>1, Zenon DEF FirstStep
  <2>2. CASE BeforeStart(t, n)
    <3>1. PICK p \in {"running", "waiting"} : Step(t, n, p)
      BY <1>1, <2>2 DEF FirstStep
    <3>2. task' = task
      BY <1>1, <2>2 DEF FirstStep, vars
    <3> QED
      BY <2>1, <2>2, <3>1, <3>2, OneCommandActs
  <2>3. CASE ~BeforeStart(t, n)
    BY <1>1, <1>b, <2>1, <2>3 DEF FirstStep
  <2> QED
    BY <2>2, <2>3
<1>2. CASE SlotGranted(t, n)
  <2>1. command[t][n] = "waiting"
    BY <1>2 DEF SlotGranted
  <2>2. CASE BeforeStart(t, n)
    <3>1. Step(t, n, "running") /\ task' = task
      BY <1>2, <2>2 DEF SlotGranted, vars
    <3> QED
      BY <2>1, <2>2, <3>1, OneCommandActs
  <2>3. CASE ~BeforeStart(t, n)
    BY <1>2, <1>b, <2>1, <2>3, Zenon DEF SlotGranted
  <2> QED
    BY <2>2, <2>3
<1>3. CASE QueueTimeout(t, n)
  <2>1. command[t][n] = "waiting" /\ Step(t, n, "rejected") /\ task' = task
    BY <1>3 DEF QueueTimeout, vars
  <2> QED
    BY <2>1, OneCommandActs
<1>4. CASE JobLaunched(t, n)
  BY <1>4, NoCommandActs DEF JobLaunched
<1>5. CASE ProcessEnds(t, n)
  <2>1. PICK p \in {"ok", "failed"} : Step(t, n, p)
    BY <1>5 DEF ProcessEnds
  <2>2. command[t][n] = "running" /\ task' = task
    BY <1>5, Zenon DEF ProcessEnds, vars
  <2> QED
    BY <2>1, <2>2, OneCommandActs
<1>6. CASE JobDone(t, n)
  <2>1. command[t][n] # "done" /\ Step(t, n, "done")
    BY <1>6 DEF JobDone, Ended
  <2>2. task'[t] # task[t] => task'[t].attempt = n
    BY <1>6, <1>a DEF JobDone, IsCurrent, vars
  <2> QED
    BY <2>1, <2>2, OneCommandActs
<1> QED
  BY <1>1, <1>2, <1>3, <1>4, <1>5, <1>6 DEF CommandStep

\* A new submission creates the command of the attempt it draws.
LEMMA SubmitActs ==
  ASSUME IInv, BudgetInv, NEW t \in Task, Run(t), Submit(t)
  PROVE  CurrentStart /\ OwnCallback
<1>a. PICK n : n = task'[t].attempt
  OBVIOUS
<1>1. n \in 1..MaxAttempts /\ issued[t] < n
  <2>1. n = issued[t] + 1 /\ issued[t] \in Nat /\ issued[t] < MaxAttempts
    BY <1>a, RunEffect
  <2> QED
    BY <2>1, BoundAssumption
<1>2. command[t][n] = "none"
  BY <1>1 DEF BudgetInv, AttemptsInOrder
<1>3. CASE Step(t, n, "created")
  BY <1>1, <1>2, <1>3, <1>a, OneCommandActs
<1>4. CASE command' = command
  BY <1>4, NoCommandActs
<1> QED
  BY <1>3, <1>4, <1>a DEF Submit

\* A halt writes the tasks whose current command it cancels.
LEMMA CancelActs ==
  ASSUME IInv, BudgetInv, SkipPending(Skipped), CancelWaiting
  PROVE  CurrentStart /\ OwnCallback
<1>1. /\ command' = [t \in Task |-> [n \in 1..MaxAttempts |->
           IF command[t][n] = "waiting" THEN "cancelled" ELSE command[t][n]]]
      /\ command \in [Task -> [1..MaxAttempts -> Phase]]
  BY DEF CancelWaiting, BudgetInv
<1>2. CurrentStart
  BY <1>1 DEF CurrentStart
<1>3. OwnCallback
  <2> SUFFICES ASSUME NEW t \in Task, task'[t] # task[t]
               PROVE  command'[t][task'[t].attempt] # command[t][task'[t].attempt]
    BY DEF OwnCallback
  <2>1. t \in Skipped /\ task'[t] = Reported(t, "aborted")
    BY DEF SkipPending, Write
  <2>2. PICK n \in 1..MaxAttempts : command[t][n] = "waiting" /\ SkipAborts(t, n)
    BY <2>1 DEF Skipped
  <2>3. task[t] \in TaskState
    BY DEF IInv, TypeOK
  <2>4. Reported(t, "aborted").attempt = task[t].attempt
    BY <2>3 DEF Reported, TaskState
  <2>5. task'[t].attempt = n
    BY <2>1, <2>2, <2>4 DEF SkipAborts, IsCurrent
  <2> QED
    BY <1>1, <2>2, <2>5
<1> QED
  BY <1>2, <1>3

\* A process starts only for the attempt the server waits for, in a begun flow
\* of a running service, and the end of a command changes no run but its own
\* (before_start, on_skipped, _on_job_done).
THEOREM CurrentOnly == ShellSpec => OnlyCurrentActs
<1>1. ShellInv /\ [ShellNext]_allVars => [CurrentStart /\ OwnCallback]_allVars
  <2> SUFFICES ASSUME IInv, BudgetInv, ShellNext PROVE CurrentStart /\ OwnCallback
    BY Parts
  <2>1. ASSUME NEW t \in Task, ShellScanRun(t) \/ \E force \in BOOLEAN : ShellRunCommand(t, force)
        PROVE  CurrentStart /\ OwnCallback
    <3>1. Run(t) /\ Submit(t)
      BY <2>1 DEF ShellScanRun, ShellRunCommand, ScanRun, RunCommand
    <3> QED
      BY <3>1, SubmitActs
  <2>2. ASSUME NEW t \in Task, NEW n \in 1..MaxAttempts, CommandStep(t, n)
        PROVE  CurrentStart /\ OwnCallback
    BY <2>2, CommandActs
  <2>3. CASE ShellServerHalt \/ ShellBeginShutdown
    <3>1. SkipPending(Skipped) /\ CancelWaiting
      BY <2>3 DEF ShellServerHalt, ShellBeginShutdown, ServerHalt, BeginShutdown
    <3> QED
      BY <3>1, CancelActs
  <2>4. ASSUME \/ \E t \in Task : \/ ShellScanComplete(t)
                                  \/ \E n \in 1..MaxAttempts :
                                       \/ \E r \in Rid : ShellChildInit(t, n, r)
                                       \/ ShellChildComplete(t, n) \/ ShellChildAbort(t, n)
                                  \/ \E s \in Status : ShellForceTask(t, s)
               \/ \E force \in BOOLEAN : ShellBegin(force)
               \/ \E S \in Subtree : ShellRequeue(S) \/ \E s \in Status : ShellForceTree(S, s)
               \/ ShellServerResume \/ \E success \in BOOLEAN : ShellCheckpointOutcome(success)
        PROVE  CurrentStart /\ OwnCallback
    <3>1. command' = command
      BY <2>4, Zenon DEF ShellScanComplete, ShellChildInit, ShellChildComplete, ShellChildAbort,
         ShellForceTask, ShellBegin, ShellRequeue, ShellForceTree, ShellServerResume,
         ShellCheckpointOutcome, Override, shellVars
    <3> QED
      BY <3>1, NoCommandActs
  <2> QED
    BY <2>1, <2>2, <2>3, <2>4 DEF ShellNext
<1> QED
  BY <1>1, ShellInvariance, PTL DEF ShellSpec, OnlyCurrentActs
=============================================================================
