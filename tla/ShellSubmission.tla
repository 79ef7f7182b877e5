-------------------------- MODULE ShellSubmission --------------------------
(***************************************************************************)
(* ShellScriptTask and ShellRunner: how the submission of a task proceeds. *)
(* Every accepted run leaves a coroutine, the submit command, that waits   *)
(* for one of a bounded number of process slots, starts /bin/sh, and calls *)
(* back into the task when it ends.  Between its steps everything else in  *)
(* the server may happen: reports of the job, forced runs, requeues, a     *)
(* halt.  The module extends TaskLifecycle and implements it.              *)
(***************************************************************************)
EXTENDS TaskLifecycle

CONSTANTS
  External,     \* tasks whose submit command is "orvix submit"
  MaxPending,   \* MAX_PENDING_COMMANDS
  MaxRunning    \* MAX_RUNNING_COMMANDS

ASSUME BudgetAssumption ==
  External \subseteq Task /\ MaxPending \in Nat /\ MaxRunning \in Nat \ {0}

VARIABLES
  command,   \* command[t][n]: phase of the submit command of attempt n of t
  token,     \* token[t]: _submission_token, as the attempt that made it; 0 is None
  pending,   \* _CommandBudget.pending
  slots,     \* value of the semaphore _CommandBudget.processes
  launched,  \* <<t, n>>: the job of attempt n of t exists or has existed
  forced     \* history: tasks in flight whose present status was forced

shellVars == <<command, token, pending, slots, launched, forced>>
allVars == <<vars, shellVars>>

\* created: the coroutine has not run yet; waiting: registered in
\* _CommandBudget.waiting; running: inside run_process.  The next four have
\* ended and their done callback is due; done: the callback has run.
Live == {"created", "waiting", "running"}
Ended == {"ok", "failed", "rejected", "cancelled"}
Phase == Live \cup Ended \cup {"none", "done"}

ShellTypeOK ==
  /\ TypeOK
  /\ command \in [Task -> [1..MaxAttempts -> Phase]]
  /\ token \in [Task -> 0..MaxAttempts]
  /\ pending \in Nat /\ slots \in Int
  /\ launched \subseteq Task \X (1..MaxAttempts)
  /\ forced \subseteq Task

ShellInit ==
  /\ Init
  /\ command = [t \in Task |-> [n \in 1..MaxAttempts |-> "none"]]
  /\ token = [t \in Task |-> 0]
  /\ pending = 0
  /\ slots = MaxRunning
  /\ launched = {} /\ forced = {}

-----------------------------------------------------------------------------
(* The submission's view of its task *)

\* Mutant: only the presence of a token is tested, not whose it is.
IsCurrentAnyToken(t, n) == token[t] # 0

\* is_current_submission; the task stays in its flow here, so generation,
\* flow, bunch and path are the same as at submission.
IsCurrent(t, n) == token[t] = n /\ task[t].attempt = n

\* Mutant: the service state is not part of the check.
BeforeStartWhenHalted(t, n) == IsCurrent(t, n) /\ task[t].status = "submitted" /\ begun

\* before_start
BeforeStart(t, n) ==
  IsCurrent(t, n) /\ task[t].status = "submitted" /\ begun /\ IsRunning

\* Mutant: a skipped submission is dropped silently.
SkipAbortsNever(t, n) == FALSE

\* on_skipped aborts under this condition
SkipAborts(t, n) == IsCurrent(t, n) /\ task[t].status = "submitted"

\* The token is dropped with the attempt, and for the tasks of U, whose status
\* is set to one that is not in flight (ShellScriptTask.set_node_status_only).
DropTokens(U) ==
  LET dropped == U \cup {t \in Task : task'[t].attempt = 0}
  IN  /\ token' = [t \in Task |-> IF t \in dropped THEN 0 ELSE token[t]]
      /\ forced' = forced \ dropped

Step(t, n, phase) == command' = [command EXCEPT ![t][n] = phase]

-----------------------------------------------------------------------------
(* Submitting *)

\* ShellScriptTask.submit and ShellRunner.spawn.  A render error, or a full
\* budget, is a JobSubmissionError.  abort does not reach
\* set_node_status_only when the task was aborted already, so the token of
\* the failed submission stays.
Submit(t) ==
  /\ \/ /\ task'[t].status = "submitted"
        /\ pending < MaxPending
        /\ pending' = pending + 1
        /\ token' = [token EXCEPT ![t] = task'[t].attempt]
        /\ Step(t, task'[t].attempt, "created")
     \/ /\ task'[t].status = "aborted"
        /\ token' = [token EXCEPT ![t] =
             IF task[t].status = "aborted" THEN task'[t].attempt ELSE 0]
        /\ UNCHANGED <<command, pending>>
  /\ forced' = forced \ {t}
  /\ UNCHANGED <<slots, launched>>

ShellScanRun(t) == ScanRun(t) /\ Submit(t)

ShellRunCommand(t, force) == RunCommand(t, force) /\ Submit(t)

-----------------------------------------------------------------------------
(* Steps of the coroutine run_shell_command *)

\* on_skipped, then the coroutine returns.
Skip(t, n) ==
  /\ Step(t, n, "ok")
  /\ IF SkipAborts(t, n)
       THEN SubmissionFails(t) /\ DropTokens({t})
       ELSE UNCHANGED <<vars, token, forced>>

\* From its creation to the first await: the check, then a slot or a place
\* in the queue (a newcomer queues behind the commands that wait already).
FirstStep(t, n) ==
  /\ command[t][n] = "created"
  /\ IF BeforeStart(t, n)
       THEN /\ IF slots > 0 /\ \A u \in Task, m \in 1..MaxAttempts : command[u][m] # "waiting"
                 THEN Step(t, n, "running") /\ slots' = slots - 1
                 ELSE Step(t, n, "waiting") /\ UNCHANGED slots
            /\ UNCHANGED <<vars, token, forced>>
       ELSE Skip(t, n) /\ UNCHANGED slots
  /\ UNCHANGED <<pending, launched>>

\* A slot is granted: the check is repeated before the process starts.
SlotGranted(t, n) ==
  /\ command[t][n] = "waiting" /\ slots > 0
  /\ IF BeforeStart(t, n)
       THEN /\ Step(t, n, "running") /\ slots' = slots - 1
            /\ UNCHANGED <<vars, token, forced>>
       ELSE Skip(t, n) /\ UNCHANGED slots
  /\ UNCHANGED <<pending, launched>>

\* QUEUE_WAIT_TIMEOUT_SECONDS: a JobSubmissionError, definitely not started.
QueueTimeout(t, n) ==
  /\ command[t][n] = "waiting"
  /\ Step(t, n, "rejected")
  /\ UNCHANGED <<vars, token, pending, slots, launched, forced>>

\* The job comes into being: the process itself, or the external scheduler
\* accepts it while the submit process runs.
JobLaunched(t, n) ==
  /\ command[t][n] = "running" /\ <<t, n>> \notin launched
  /\ launched' = launched \cup {<<t, n>>}
  /\ UNCHANGED <<vars, command, token, pending, slots, forced>>

\* Mutant: the slot is released on success only.
ProcessEndsLeaks(t, n) ==
  /\ command[t][n] = "running"
  /\ \E phase \in {"ok", "failed"} :
       /\ phase = "ok" => <<t, n>> \in launched
       /\ Step(t, n, phase)
       /\ slots' = IF phase = "ok" THEN slots + 1 ELSE slots
  /\ UNCHANGED <<vars, token, pending, launched, forced>>

\* run_process ends: exit code 0 (the job was launched), or an error exit, an
\* OSError or COMMAND_TIMEOUT_SECONDS, which leave open whether it was.
ProcessEnds(t, n) ==
  /\ command[t][n] = "running"
  /\ \E phase \in {"ok", "failed"} :
       /\ phase = "ok" => <<t, n>> \in launched
       /\ Step(t, n, phase)
  /\ slots' = slots + 1
  /\ UNCHANGED <<vars, token, pending, launched, forced>>

\* ShellRunner._on_job_done with on_failure and on_job_failure.
JobDone(t, n) ==
  /\ command[t][n] \in Ended
  /\ Step(t, n, "done")
  /\ pending' = pending - 1
  /\ IF command[t][n] \in {"failed", "rejected"} /\ IsCurrent(t, n)
          /\ task[t].status \in InFlight
       THEN IF t \in External /\ command[t][n] = "failed"
              THEN /\ IF task[t].status = "active" THEN UNCHANGED vars
                                                   ELSE SubmissionUnknown(t)
                   /\ UNCHANGED <<token, forced>>
              ELSE SubmissionFails(t) /\ DropTokens({t})
       ELSE UNCHANGED <<vars, token, forced>>
  /\ UNCHANGED <<slots, launched>>

-----------------------------------------------------------------------------
(* Handlers of TaskLifecycle that also end the association with a command *)

ShellScanComplete(t) ==
  ScanComplete(t) /\ DropTokens({t}) /\ UNCHANGED <<command, pending, slots, launched>>

ShellChildInit(t, n, r) ==
  /\ <<t, n>> \in launched
  /\ ChildInit(t, n, r)
  /\ UNCHANGED shellVars

ShellChildComplete(t, n) ==
  /\ <<t, n>> \in launched
  /\ ChildComplete(t, n)
  /\ DropTokens({t})
  /\ UNCHANGED <<command, pending, slots, launched>>

ShellChildAbort(t, n) ==
  /\ <<t, n>> \in launched
  /\ ChildAbort(t, n)
  /\ DropTokens({t})
  /\ UNCHANGED <<command, pending, slots, launched>>

ShellBegin(force) ==
  Begin(force) /\ DropTokens(Task) /\ UNCHANGED <<command, pending, slots, launched>>

ShellRequeue(S) ==
  Requeue(S) /\ DropTokens(S) /\ UNCHANGED <<command, pending, slots, launched>>

\* A forced in-flight status keeps the token, as does force of the same status.
Override(U, s, dropped) ==
  /\ IF s \in InFlight THEN forced' = forced \cup U /\ UNCHANGED token
                       ELSE DropTokens(dropped)
  /\ UNCHANGED <<command, pending, slots, launched>>

ShellForceTask(t, s) == ForceTask(t, s) /\ Override({t}, s, {u \in {t} : s # task[u].status})

\* S stands for a container here; a task alone is ShellForceTask.
ShellForceTree(S, s) == ForceTree(S, s) /\ Override(S, s, S)

\* skip_pending_commands: every waiting command is cancelled; its on_skipped
\* runs at once.
Skipped ==
  {t \in Task : \E n \in 1..MaxAttempts : command[t][n] = "waiting" /\ SkipAborts(t, n)}

CancelWaiting ==
  /\ command' = [t \in Task |-> [n \in 1..MaxAttempts |->
       IF command[t][n] = "waiting" THEN "cancelled" ELSE command[t][n]]]
  /\ DropTokens(Skipped)
  /\ UNCHANGED <<pending, slots, launched>>

ShellServerHalt == ServerHalt(Skipped) /\ CancelWaiting

ShellBeginShutdown == BeginShutdown(Skipped) /\ CancelWaiting

ShellServerResume == ServerResume /\ UNCHANGED shellVars

ShellCheckpointOutcome(success) == CheckpointOutcome(success) /\ UNCHANGED shellVars

-----------------------------------------------------------------------------
CommandStep(t, n) ==
  \/ FirstStep(t, n)
  \/ SlotGranted(t, n)
  \/ QueueTimeout(t, n)
  \/ JobLaunched(t, n)
  \/ ProcessEnds(t, n)
  \/ JobDone(t, n)

ShellNext ==
  \/ \E t \in Task :
       \/ ShellScanRun(t)
       \/ ShellScanComplete(t)
       \/ \E force \in BOOLEAN : ShellRunCommand(t, force)
       \/ \E n \in 1..MaxAttempts :
            \/ CommandStep(t, n)
            \/ \E r \in Rid : ShellChildInit(t, n, r)
            \/ ShellChildComplete(t, n)
            \/ ShellChildAbort(t, n)
       \/ \E s \in Status : ShellForceTask(t, s)
  \/ \E force \in BOOLEAN : ShellBegin(force)
  \/ \E S \in Subtree :
       \/ ShellRequeue(S)
       \/ \E s \in Status : ShellForceTree(S, s)
  \/ ShellServerHalt \/ ShellBeginShutdown \/ ShellServerResume
  \/ \E success \in BOOLEAN : ShellCheckpointOutcome(success)

\* The event loop resumes every coroutine that can run, both timeouts fire,
\* and a done callback is called.
ShellFairness ==
  \A t \in Task, n \in 1..MaxAttempts :
    /\ WF_allVars(FirstStep(t, n))
    /\ WF_allVars(SlotGranted(t, n) \/ QueueTimeout(t, n))
    /\ WF_allVars(ProcessEnds(t, n))
    /\ WF_allVars(JobDone(t, n))

ShellSpec == ShellInit /\ [][ShellNext]_allVars

FairShellSpec == ShellSpec /\ ShellFairness

-----------------------------------------------------------------------------
(* Properties *)

CommandsIn(phases) ==
  {x \in Task \X (1..MaxAttempts) : command[x[1]][x[2]] \in phases}

\* The budget is exact: pending counts the commands whose callback is due, a
\* slot is out for each command inside run_process, and neither bound is ever
\* exceeded, whichever way a command ends (spawn, run_shell_command,
\* skip_pending_commands, _on_job_done).
BudgetExact ==
  /\ pending = Cardinality(CommandsIn(Live \cup Ended)) /\ pending <= MaxPending
  /\ slots = MaxRunning - Cardinality(CommandsIn({"running"})) /\ slots >= 0

\* No task in flight is stranded: its job was launched, or its submit command
\* is still to report, or the result is marked unknown.  A definite non-start
\* aborts the attempt it belongs to (on_skipped, on_failure).  Exempt are the
\* attempts an operator forced to submitted or active, since a status override
\* starts no job and silences the command of a task it makes active.
InFlightHasCarrier ==
  \A t \in Task : task[t].status \in InFlight =>
    \/ t \in forced \/ <<t, task[t].attempt>> \in launched
    \/ /\ task[t].status = "submitted"
       /\ task[t].unknown \/ command[t][task[t].attempt] \in Live \cup {"rejected", "failed"}

\* Places and process slots are counted exactly, and no task in flight is left
\* without a job, a command that will report or an unknown mark.
SubmissionsAccounted == BudgetExact /\ InFlightHasCarrier

\* The token of a task in flight is the one of its current attempt.
TokenIsCurrent ==
  \A t \in Task : task[t].status \in InFlight => token[t] = task[t].attempt

\* A process starts only for the attempt the server waits for, in a begun flow
\* of a running service, however long the command was queued (before_start).
CurrentStart ==
  \A t \in Task, n \in 1..MaxAttempts :
    command[t][n] # "running" /\ command'[t][n] = "running" =>
      /\ task[t].status = "submitted" /\ task[t].attempt = n
      /\ begun /\ IsRunning

\* The end of a command changes no run but its own: a task is written in a
\* step of its commands only when the command of its current attempt steps, so
\* a late callback of a replaced attempt is without effect.
OwnCallback ==
  \A t \in Task :
    command'[t] # command[t] /\ task'[t] # task[t] =>
      LET n == task'[t].attempt IN command'[t][n] # command[t][n]

\* A process starts only for the attempt the server waits for, and the late
\* callback of a replaced attempt has no effect (before_start, _on_job_done).
OnlyCurrentActs == [][CurrentStart /\ OwnCallback]_allVars

\* Every submit command ends and gives its place in the budget back.
CommandsFinish ==
  \A t \in Task, n \in 1..MaxAttempts :
    command[t][n] \in Live \cup Ended ~> command[t][n] = "done"

\* A submission settles: an attempt does not stay submitted for ever unless its
\* job was launched, its result is unknown, or an operator forced the status.
SubmissionSettles ==
  \A t \in Task, n \in 1..MaxAttempts :
    task[t].status = "submitted" /\ task[t].attempt = n ~>
      \/ <<t, n>> \in launched
      \/ task[t].unknown \/ t \in forced
      \/ task[t].attempt # n
      \/ task[t].status # "submitted"

\* Attempt ids are drawn in order, and an attempt that was not drawn has no
\* command.
AttemptsInOrder ==
  \A t \in Task :
    /\ issued[t] <= MaxAttempts
    /\ \A n \in 1..MaxAttempts : n > issued[t] => command[t][n] = "none"

\* The inductive invariant of the specification.
ShellInv ==
  IInv /\ ShellTypeOK /\ SubmissionsAccounted /\ TokenIsCurrent /\ AttemptsInOrder
=============================================================================
