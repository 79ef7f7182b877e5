--------------------------- MODULE TaskLifecycle ---------------------------
(***************************************************************************)
(* The life of the tasks of one flow, as the server records it: status,    *)
(* run identity (attempt_id, job_password, try_no, task_id), the mark of   *)
(* an unknown external submission, and the tokens the tasks occupy in the  *)
(* Limits.  The actions are the handlers that change this record: the      *)
(* scan's automatic run, the child commands of the jobs, the operator's    *)
(* commands and the callbacks of a submission.                             *)
(*                                                                         *)
(* A node of the flow is represented by the set of tasks at or below it.   *)
(* Triggers, times and suspension only decide WHETHER the scan runs a      *)
(* task; here that is nondeterministic (module NodeTree decides it).       *)
(* How a submission proceeds is the subject of module ShellSubmission,     *)
(* which implements this one.                                              *)
(***************************************************************************)
EXTENDS Integers, FiniteSets

CONSTANTS
  Task,             \* the tasks of the flow
  Limit,            \* the Limits some in-limit refers to
  InLimits,         \* InLimits[t]: the Limits t needs (its own and its ancestors' in-limits)
  Tokens,           \* Tokens[t][l]: tokens of the in-limit on l nearest to t
  MaxTokens,        \* the largest token count of an in-limit
  Capacity,         \* Capacity[l]: Limit.limit
  Unresolved,       \* tasks with an in-limit whose Limit cannot be found
  Subtree,          \* the nodes of the flow, each as its set of tasks
  DefaultComplete,  \* the nodes whose default_node_status is complete
  Repeating,        \* the nodes that carry a repeat
  Rid,              \* task ids (TAKLER_RID) the jobs may report
  NoRid,            \* task_id is None
  MaxAttempts,      \* bound: attempts issued to one task
  Causes            \* bound: the halt causes that occur in the instance

ASSUME TaskAssumption == IsFiniteSet(Task) /\ Unresolved \subseteq Task

ASSUME LimitAssumption ==
  /\ MaxTokens \in Nat
  /\ InLimits \in [Task -> SUBSET Limit]
  /\ Tokens \in [Task -> [Limit -> 0..MaxTokens]]
  /\ Capacity \in [Limit -> Nat]

ASSUME NodeAssumption ==
  /\ Subtree \subseteq SUBSET Task
  /\ Task \in Subtree /\ \A t \in Task : {t} \in Subtree
  /\ DefaultComplete \subseteq Subtree /\ Repeating \subseteq Subtree

HaltCause == {"manual", "recovery", "checkpoint_failure"}

ASSUME BoundAssumption ==
  NoRid \notin Rid /\ MaxAttempts \in Nat /\ Causes \subseteq HaltCause

VARIABLES
  task,      \* task[t]: the fields of the Task object that follow its runs
  issued,    \* issued[t]: attempt ids drawn for t so far; every uuid4 is new
  held,      \* held[l]: Limit.node_paths
  value,     \* value[l]: Limit.value
  begun,     \* Flow.begun
  causes,    \* ServerState.halt_causes; the service is halted iff not empty
  stopping   \* Bunch._service_stopping

vars == <<task, issued, held, value, begun, causes, stopping>>

InFlight == {"submitted", "active"}
Status == InFlight \cup {"unknown", "complete", "queued", "aborted"}

\* attempt and password are the ordinal of the draw they come from, 0 is None.
TaskState ==
  [status : Status, attempt : Nat, password : Nat, tryNo : Nat,
   rid : Rid \cup {NoRid}, unknown : BOOLEAN]

TypeOK ==
  /\ task \in [Task -> TaskState]
  /\ issued \in [Task -> Nat]
  /\ held \in [Limit -> SUBSET Task]
  /\ value \in [Limit -> Int]
  /\ begun \in BOOLEAN
  /\ causes \subseteq Causes
  /\ stopping \in BOOLEAN

Fresh ==
  [status |-> "unknown", attempt |-> 0, password |-> 0, tryNo |-> 0,
   rid |-> NoRid, unknown |-> FALSE]

\* A newly loaded flow; the recovery cause is there after a restored start.
Init ==
  /\ task = [t \in Task |-> Fresh]
  /\ issued = [t \in Task |-> 0]
  /\ held = [l \in Limit |-> {}]
  /\ value = [l \in Limit |-> 0]
  /\ begun = FALSE
  /\ causes \in {{}, {"recovery"} \cap Causes}
  /\ stopping = FALSE

-----------------------------------------------------------------------------
(* Limits *)

\* The sum of the tokens of the tasks S in limit l, counted token by token.
TokenSlots(S, l) == {x \in S \X (1..MaxTokens) : x[2] <= Tokens[x[1]][l]}
TokensOf(S, l) == Cardinality(TokenSlots(S, l))

\* Mutant: the tokens the task would add are not counted.
CheckInLimitUpNoTokens(t) ==
  t \notin Unresolved /\ \A l \in InLimits[t] : t \in held[l] \/ value[l] < Capacity[l]

\* Node.check_in_limit_up: a task that holds the Limit needs nothing more.
CheckInLimitUp(t) ==
  /\ t \notin Unresolved
  /\ \A l \in InLimits[t] :
       value[l] + (IF t \in held[l] THEN 0 ELSE Tokens[t][l]) <= Capacity[l]

\* Node.increment_in_limit and Limit.increment, for the tasks of U that are
\* in flight in f: a path is counted once, nothing is taken when one of the
\* references is missing.
Entering(U, f, l) ==
  {t \in U \ held[l] : /\ l \in InLimits[t] /\ t \notin Unresolved
                       /\ f[t].status \in InFlight}

\* Node.decrement_in_limit and Limit.decrement, for those that are not.
Leaving(U, f, l) ==
  {t \in U \cap held[l] : l \in InLimits[t] /\ f[t].status \notin InFlight}

\* Limit.decrement resets the whole Limit when its value would fall below 0.
Remaining(U, f, l) == value[l] - TokensOf(Leaving(U, f, l), l)

UpdateLimits(U, f) ==
  /\ held' = [l \in Limit |->
       (IF Remaining(U, f, l) < 0 THEN {} ELSE held[l] \ Leaving(U, f, l))
         \cup Entering(U, f, l)]
  /\ value' = [l \in Limit |->
       (IF Remaining(U, f, l) < 0 THEN 0 ELSE Remaining(U, f, l))
         + TokensOf(Entering(U, f, l), l)]

-----------------------------------------------------------------------------
(* Writing the record of a task *)

\* Task.set_node_status_only: leaving submitted/active forgets the mark.
SetStatus(r, s) == [r EXCEPT !.status = s, !.unknown = @ /\ s \in InFlight]

\* Task.clear_current_attempt
ClearAttempt(r) ==
  [r EXCEPT !.attempt = 0, !.password = 0, !.rid = NoRid, !.unknown = FALSE]

\* Mutant: the attempt is named by the try number.
NewAttemptFromTryNo(t) ==
  [task[t] EXCEPT !.tryNo = @ + 1, !.attempt = task[t].tryNo + 1,
                  !.password = task[t].tryNo + 1, !.rid = NoRid, !.unknown = FALSE]

\* Task.increment_try_no
NewAttempt(t) ==
  [task[t] EXCEPT !.tryNo = @ + 1, !.attempt = issued[t] + 1,
                  !.password = issued[t] + 1, !.rid = NoRid, !.unknown = FALSE]

\* Task.init, Task.complete and Task.abort write these fields.
Reported(t, s) == [task[t] EXCEPT !.status = s, !.unknown = FALSE]

\* The status a task below node S takes when S is requeued: its own default,
\* unless a node on the way has default complete and sinks it.
DefaultStatus(S, t) ==
  IF \E g \in DefaultComplete : t \in g /\ g \subseteq S THEN "complete" ELSE "queued"

\* Task.requeue
Requeued(S, t, r) ==
  [ClearAttempt(r) EXCEPT !.tryNo = 0, !.status = DefaultStatus(S, t)]

\* The tasks of U take the records f; their reservations follow.
Write(U, f) ==
  /\ task' = [t \in Task |-> IF t \in U THEN f[t] ELSE task[t]]
  /\ UpdateLimits(U, f)

\* The tasks of U take the records f, and the change swims up to a node that
\* carries a repeat and is complete now: it may advance, and then its whole
\* subtree R is requeued in the same step.  No task below a complete node is
\* in flight or aborted.
WriteAndRepeat(U, f) ==
  \/ Write(U, f)
  \/ \E R \in Repeating :
       LET after(t) == IF t \in U THEN f[t] ELSE task[t]
       IN  /\ U \subseteq R
           /\ \A t \in R : after(t).status \in {"complete", "queued", "unknown"}
           /\ Write(R, [t \in R |-> Requeued(R, t, after(t))])

-----------------------------------------------------------------------------
(* Running a task *)

\* Bunch.require_running
IsRunning == causes = {} /\ ~stopping

\* Mutant: run does not ask whether the service is running.
RunWhenHalted(t) ==
  /\ ~task[t].unknown
  /\ CheckInLimitUp(t)
  /\ issued[t] < MaxAttempts
  /\ issued' = [issued EXCEPT ![t] = @ + 1]
  /\ \E s \in {"submitted", "aborted"} :
       Write({t}, [u \in {t} |-> SetStatus(NewAttempt(t), s)])
  /\ UNCHANGED <<begun, causes, stopping>>

\* Mutant: a forced run replaces an attempt whose submission is unknown.
RunUnsettled(t) ==
  /\ IsRunning
  /\ CheckInLimitUp(t)
  /\ issued[t] < MaxAttempts
  /\ issued' = [issued EXCEPT ![t] = @ + 1]
  /\ \E s \in {"submitted", "aborted"} :
       Write({t}, [u \in {t} |-> SetStatus(NewAttempt(t), s)])
  /\ UNCHANGED <<begun, causes, stopping>>

\* Task.run with ShellScriptTask.do_run: the submission is accepted, or it
\* fails synchronously (JobSubmissionError) and the new attempt is aborted.
Run(t) ==
  /\ IsRunning
  /\ ~task[t].unknown
  /\ CheckInLimitUp(t)
  /\ issued[t] < MaxAttempts
  /\ issued' = [issued EXCEPT ![t] = @ + 1]
  /\ \E s \in {"submitted", "aborted"} :
       Write({t}, [u \in {t} |-> SetStatus(NewAttempt(t), s)])
  /\ UNCHANGED <<begun, causes, stopping>>

\* Task.resolve_dependencies in a scan: only a queued task is run.
ScanRun(t) == begun /\ task[t].status = "queued" /\ Run(t)

\* Node.check_dependencies in a scan: a complete trigger that holds completes
\* a queued or an aborted task.
ScanComplete(t) ==
  /\ begun /\ IsRunning
  /\ task[t].status \in {"queued", "aborted"}
  /\ WriteAndRepeat({t}, [u \in {t} |-> SetStatus(task[u], "complete")])
  /\ UNCHANGED <<issued, begun, causes, stopping>>

\* Scheduler.run_command_run
RunCommand(t, force) ==
  /\ begun
  /\ force \/ task[t].status \notin InFlight
  /\ Run(t)

-----------------------------------------------------------------------------
(* Reports of jobs: n is the attempt id the report carries *)

\* Mutant: a report for a finished task passes the gate.
GuardAttemptAnyStatus(t, n) == task[t].attempt = n

\* Scheduler._guard_attempt
GuardAttempt(t, n) == task[t].attempt = n /\ task[t].status \in InFlight

\* Scheduler.run_command_init; a duplicate for an active task changes nothing
\* and a conflicting task id is refused.
ChildInit(t, n, r) ==
  /\ GuardAttempt(t, n)
  /\ task[t].status # "active"
  /\ Write({t}, [u \in {t} |-> [Reported(t, "active") EXCEPT !.rid = r]])
  /\ UNCHANGED <<issued, begun, causes, stopping>>

\* Scheduler.run_command_complete
ChildComplete(t, n) ==
  /\ GuardAttempt(t, n)
  /\ WriteAndRepeat({t}, [u \in {t} |-> Reported(t, "complete")])
  /\ UNCHANGED <<issued, begun, causes, stopping>>

\* Scheduler.run_command_abort
ChildAbort(t, n) ==
  /\ GuardAttempt(t, n)
  /\ Write({t}, [u \in {t} |-> Reported(t, "aborted")])
  /\ UNCHANGED <<issued, begun, causes, stopping>>

-----------------------------------------------------------------------------
(* Outcome of a submission, learnt after Run has returned *)

\* ShellScriptTask.on_job_failure of a definite failure
SubmissionFails(t) ==
  /\ task[t].status \in InFlight
  /\ Write({t}, [u \in {t} |-> Reported(t, "aborted")])
  /\ UNCHANGED <<issued, begun, causes, stopping>>

\* ShellScriptTask.on_job_failure when the external scheduler may have
\* accepted the job: Task.mark_submission_unknown
SubmissionUnknown(t) ==
  /\ task[t].status = "submitted"
  /\ task' = [task EXCEPT ![t].unknown = TRUE]
  /\ UNCHANGED <<issued, held, value, begun, causes, stopping>>

-----------------------------------------------------------------------------
(* Operator commands on nodes *)

\* Scheduler.run_command_begin and Flow.begin
Begin(force) ==
  /\ begun => force
  /\ \A t \in Task : ~task[t].unknown
  /\ Write(Task, [t \in Task |-> Requeued(Task, t, task[t])])
  /\ begun' = TRUE
  /\ UNCHANGED <<issued, causes, stopping>>

\* Scheduler.run_command_requeue; a container that advances its repeat after a
\* force or its own complete trigger resets its tasks in the same way.
Requeue(S) ==
  /\ begun
  /\ \A t \in S : ~task[t].unknown
  /\ Write(S, [t \in S |-> Requeued(S, t, task[t])])
  /\ UNCHANGED <<issued, begun, causes, stopping>>

\* Mutant: any task may be forced into flight when its Limits have room.
ForceAllowedAnyTask(t, s) == s \in InFlight => CheckInLimitUp(t)

\* A forced in-flight status needs a current attempt; force queued drops it.
ForceAllowed(t, s) ==
  s \in InFlight =>
    /\ task[t].status \in InFlight
    /\ task[t].tryNo # 0 /\ task[t].attempt # 0 /\ task[t].password # 0
    /\ CheckInLimitUp(t)

Forced(t, s) ==
  SetStatus(IF s = "queued" THEN ClearAttempt(task[t]) ELSE task[t], s)

\* Scheduler._force_path of a task, not recursive
ForceTask(t, s) ==
  /\ begun
  /\ task[t].unknown => s \in {"complete", "aborted"}
  /\ ForceAllowed(t, s)
  /\ IF s # task[t].status /\ s \in {"complete", "unknown"}
       THEN WriteAndRepeat({t}, [u \in {t} |-> Forced(u, s)])
       ELSE Write({t}, [u \in {t} |-> Forced(u, s)])
  /\ UNCHANGED <<issued, begun, causes, stopping>>

\* Scheduler._force_path of a node and all that is below it
ForceTree(S, s) ==
  /\ begun
  /\ \A t \in S : ~task[t].unknown /\ ForceAllowed(t, s)
  /\ IF s \in {"complete", "unknown"}
       THEN WriteAndRepeat(S, [t \in S |-> Forced(t, s)])
       ELSE Write(S, [t \in S |-> Forced(t, s)])
  /\ UNCHANGED <<issued, begun, causes, stopping>>

-----------------------------------------------------------------------------
(* Service state *)

\* skip_pending_commands aborts the submitted tasks of S, whose submit
\* commands are still waiting for a process slot.
SkipPending(S) ==
  /\ \A t \in S : task[t].status = "submitted"
  /\ Write(S, [t \in S |-> Reported(t, "aborted")])

\* Scheduler.run_command_server_halt
ServerHalt(S) ==
  /\ "manual" \in Causes
  /\ causes' = causes \cup {"manual"}
  /\ SkipPending(S)
  /\ UNCHANGED <<issued, begun, stopping>>

\* Scheduler.run_command_server_resume
ServerResume ==
  /\ causes' = causes \ {"manual", "recovery"}
  /\ UNCHANGED <<task, issued, held, value, begun, stopping>>

\* CheckpointManager._apply_outcome of a resolved save
CheckpointOutcome(success) ==
  /\ "checkpoint_failure" \in Causes
  /\ causes' = IF success THEN causes \ {"checkpoint_failure"}
                          ELSE causes \cup {"checkpoint_failure"}
  /\ UNCHANGED <<task, issued, held, value, begun, stopping>>

\* Scheduler.begin_shutdown
BeginShutdown(S) ==
  /\ stopping' = TRUE
  /\ SkipPending(S)
  /\ UNCHANGED <<issued, begun, causes>>

-----------------------------------------------------------------------------
Next ==
  \/ \E t \in Task :
       \/ ScanRun(t)
       \/ ScanComplete(t)
       \/ \E force \in BOOLEAN : RunCommand(t, force)
       \/ \E n \in 1..issued[t] :
            \/ \E r \in Rid : ChildInit(t, n, r)
            \/ ChildComplete(t, n)
            \/ ChildAbort(t, n)
       \/ SubmissionFails(t)
       \/ SubmissionUnknown(t)
       \/ \E s \in Status : ForceTask(t, s)
  \/ \E force \in BOOLEAN : Begin(force)
  \/ \E S \in Subtree :
       \/ Requeue(S)
       \/ \E s \in Status : ForceTree(S, s)
  \/ \E S \in SUBSET Task : ServerHalt(S) \/ BeginShutdown(S)
  \/ ServerResume
  \/ \E success \in BOOLEAN : CheckpointOutcome(success)

Spec == Init /\ [][Next]_vars

-----------------------------------------------------------------------------
(* Properties *)

Users(l) == {t \in Task : l \in InLimits[t] /\ task[t].status \in InFlight}

\* Limit accounting: a Limit is occupied by exactly the submitted and active
\* tasks that need it, its value is the sum of their tokens, and it never
\* exceeds the limit, whatever mix of duplicate handlers, forced runs,
\* requeues, repeats and failed submissions led here (Task.update_limits,
\* Limit.increment, Limit.decrement).
LimitAccounting ==
  \A l \in Limit :
    /\ held[l] = Users(l)
    /\ value[l] = TokensOf(held[l], l)
    /\ value[l] <= Capacity[l]

\* NodeRuntime.conditional_fields: what a checkpoint accepts of a task, when it
\* is captured and when it is restored.
ConditionalFields(r) ==
  /\ r.tryNo = 0 => r.attempt = 0
  /\ r.status \in InFlight => r.attempt # 0
  /\ r.unknown => r.status = "submitted" /\ r.attempt # 0

\* After every handler each task can be stored and restored: its fields pass
\* the checks of a checkpoint, whose failure would halt the service at the next
\* save and refuse the file at the next start, and a task in flight has the
\* password of its current attempt, so that its job can report after a restart.
RunsAreRestorable ==
  \A t \in Task :
    /\ ConditionalFields(task[t])
    /\ task[t].status \in InFlight => task[t].password = task[t].attempt

\* What a marked submission may become: nothing replaces or resets its attempt
\* before a child report or a direct force settles it as active, complete or
\* aborted (the refusals in run, requeue, begin and force).  A repeat may reset
\* it in the step in which it completes.
UnknownIsSettledFirst ==
  [][\A t \in Task : task[t].unknown =>
       \/ task'[t] = task[t]
       \/ /\ task'[t].attempt = task[t].attempt
          /\ task'[t].status \in {"active", "complete", "aborted"}
       \/ \E R \in Repeating : t \in R /\ \A u \in R : task'[u].attempt = 0]_vars

\* A finished attempt never runs again: a task enters submitted/active only
\* with an attempt id that has never been current before, so no late init, no
\* force and no callback revives an earlier run.
FinishedStaysFinished ==
  [][\A t \in Task :
       /\ task[t].status \notin InFlight
       /\ task'[t].status \in InFlight
       => task'[t].attempt > issued[t]]_vars

\* An attempt that stops being current never is current again (uuid4 identity,
\* Task.increment_try_no and clear_current_attempt).
AttemptsNeverReturn ==
  [][\A t \in Task : task'[t].attempt # task[t].attempt =>
       task'[t].attempt = 0 \/ task'[t].attempt > issued[t]]_vars

\* A halted or stopping service draws no attempt, whoever asks: scan, run and
\* run --force (Bunch.require_running).
NoNewAttemptWhenHalted == [][~IsRunning => issued' = issued]_vars

\* The record of a task is consistent: identity and Limits of a task in flight
\* are resolved, a mark is on a submitted attempt, the attempt was issued.
RecordOK(t, r, n) ==
  /\ r \in TaskState
  /\ r.status \in InFlight => t \notin Unresolved /\ r.password = r.attempt
  /\ r.tryNo = 0 => r.attempt = 0
  /\ r.status \in InFlight => r.attempt # 0
  /\ r.unknown => r.status = "submitted" /\ r.attempt # 0
  /\ r.attempt <= n

\* The inductive invariant of the specification.
IInv ==
  /\ TypeOK
  /\ LimitAccounting
  /\ \A t \in Task : RecordOK(t, task[t], issued[t])
=============================================================================
