------------------------------ MODULE Commands ------------------------------
(***************************************************************************)
(* A command on its way from the command line client to the task it is     *)
(* about and back: the call and its retries, the transport that loses,     *)
(* delays and refuses, the credential gate, the handler boundary, the      *)
(* attempt and zombie checks of a child command, the batch of a control    *)
(* command, and the exit code.                                             *)
(*                                                                         *)
(* Both transports (gRPC and HTTP) behave alike here; a status is named by *)
(* its gRPC code.  Time is counted in units of the single-attempt timeout. *)
(* A lost request is one the server never takes up, a lost answer one the  *)
(* client never receives.                                                  *)
(***************************************************************************)
EXTENDS Integers, Sequences

CONSTANTS
  Caller,       \* the invocations of the client
  Task,         \* tasks the commands are about
  Reporting,    \* the tasks with jobs that report
  Started,      \* Started[t]: the status of t when the model starts
  Missing,      \* a target that names no node
  Rid,          \* task ids (TAKLER_RID) of the jobs
  NoRid,
  Window,       \* Window[k]: resolve_retry_window of a kind of command
  MaxBackoff,   \* MAX_BACKOFF_SECONDS
  Configs,      \* the server configurations: auth, policy, failFast
  Requests,     \* the kinds of command that occur in the instance
  Batches,      \* the target lists of the run commands
  MaxAttempts   \* bound: attempts issued to one task

ASSUME ConfigAssumption ==
  \A k \in Configs : k.policy \in {"fail", "fob", "adopt"}
ASSUME TargetAssumption ==
  Reporting \subseteq Task /\ Batches \subseteq Seq(Task \cup {Missing})
ASSUME WindowAssumption ==
  Window["query"] \in Nat /\ MaxBackoff \in Nat

VARIABLES
  conf,    \* the configuration the server was started with
  up,      \* the server is serving
  task,    \* task[t]: status, attempt, password, rid and event of the Task
  issued,  \* issued[t]: attempts drawn for t
  call,    \* call[c]: the state of run_with_retry in invocation c
  net,     \* the requests and answers on the way
  effects, \* effects[c]: how often a request of c took effect on a task
  items    \* items[c]: the results of the batch c asked for

vars == <<conf, up, task, issued, call, net, effects, items>>

InFlight == {"submitted", "active"}
Child == {"init", "complete", "abort", "event"}
ReadOnly == {"ping"}
KindOf(kind) == IF kind \in Child THEN "child" ELSE IF kind \in ReadOnly THEN "query" ELSE "control"

\* Passwords and secrets: attempt n was given password n; 0 is none.
NoRequest == [kind |-> "none"]
Idle == [pc |-> "idle", req |-> NoRequest, tries |-> 0, elapsed |-> 0, flag |-> 0]

\* Every task is in its second attempt; a job of the first may still be alive.
Init ==
  /\ conf \in Configs
  /\ up = TRUE
  /\ task = [t \in Task |-> [status |-> Started[t], attempt |-> 2, password |-> 2,
                             rid |-> NoRid, event |-> FALSE]]
  /\ issued = [t \in Task |-> 2]
  /\ call = [c \in Caller |-> Idle]
  /\ net = [requests |-> {}, answers |-> {}]
  /\ effects = [c \in Caller |-> 0]
  /\ items = [c \in Caller |-> <<>>]

-----------------------------------------------------------------------------
(* Codes *)

\* Mutant: an unreachable server counts as a refused request.
ExitCodeRefused(flag) ==
  CASE flag = 0 -> 0
    [] flag \in {30, 31, 42, 99} -> 3
    [] OTHER -> 1

\* EXIT_CODE_BY_ERROR_CODE: 0 success, 1 the request, 3 the server, 4 unreachable
ExitCode(flag) ==
  CASE flag = 0 -> 0
    [] flag \in {40, 41} -> 4
    [] flag \in {30, 31, 42, 99} -> 3
    [] OTHER -> 1

\* classify_grpc_error and classify_http_error
Category(status) ==
  CASE status \in {"UNAUTHENTICATED", "PERMISSION_DENIED", "INVALID_ARGUMENT", "TLS"} -> "non_retryable"
    [] status \in {"UNAVAILABLE", "DEADLINE_EXCEEDED", "RESOURCE_EXHAUSTED", "UNKNOWN"} -> "retryable"
    [] OTHER -> "fatal"

\* ERROR_CODE_BY_TYPE of the exception a status that is not retried raises
FlagOf(status) ==
  CASE status \in {"UNAUTHENTICATED", "PERMISSION_DENIED"} -> 43
    [] status \in {"INVALID_ARGUMENT", "TLS"} -> 15
    [] OTHER -> 40

-----------------------------------------------------------------------------
(* The client *)

\* What an invocation can ask for.  A job has the identity its attempt was
\* given; its environment may lack the attempt id or the password, or hold the
\* password of another attempt.  An operator has the secret (1) or not (0).
ChildRequests ==
  {[kind |-> k, task |-> t, att |-> n, pass |-> p, rid |-> r] :
     k \in Child \cap Requests, t \in Reporting, n \in 0..MaxAttempts, p \in 0..MaxAttempts,
     r \in Rid \cup {NoRid}}
OperatorRequests ==
  {[kind |-> k, pass |-> p, targets |-> s] : k \in Requests \ Child, p \in 0..1, s \in Batches \cup {<<>>}}
Possible(r) ==
  IF r.kind \in Child
  THEN /\ r.att <= issued[r.task] /\ r.pass \in {0, 1, r.att}
       /\ r.kind = "init" <=> r.rid # NoRid
  ELSE r.kind \in ReadOnly => r.pass = 0 /\ r.targets = <<>>

Ends(c, flag) == call' = [call EXCEPT ![c].pc = "done", ![c].flag = flag]

\* The child commands of the CLI with NO_TAKLER in the environment
CallIgnored(c) ==
  /\ call[c].pc = "idle"
  /\ \E k \in Child \cap Requests :
       call' = [call EXCEPT ![c] = [@ EXCEPT !.pc = "done", !.req = [kind |-> k]]]
  /\ UNCHANGED <<conf, up, task, issued, net, effects, items>>

\* TaklerServiceClient._check_attempt_id refuses before anything is sent.
CallInvalid(c) ==
  /\ call[c].pc = "idle"
  /\ \E r \in ChildRequests :
       /\ Possible(r) /\ r.att = 0
       /\ call' = [call EXCEPT ![c] = [@ EXCEPT !.pc = "done", !.req = r, !.flag = 15]]
  /\ UNCHANGED <<conf, up, task, issued, net, effects, items>>

\* _guarded opens the transport; call sends the first request.
Call(c) ==
  /\ call[c].pc = "idle"
  /\ \E r \in ChildRequests \cup OperatorRequests :
       /\ Possible(r) /\ (r.kind \in Child => r.att # 0)
       /\ call' = [call EXCEPT ![c] = [@ EXCEPT !.pc = "waiting", !.req = r, !.tries = 1]]
  /\ net' = [net EXCEPT !.requests = @ \cup {<<c, 1>>}]
  /\ UNCHANGED <<conf, up, task, issued, effects, items>>

\* Mutant: a command that changes the server keeps its own window.
RetryWindowAlways(kind) == Window[KindOf(kind)]

\* GrpcTransport._call and HttpTransport._call: what changes the server is sent once.
RetryWindow(kind) == IF kind \in ReadOnly THEN Window[KindOf(kind)] ELSE 0

\* backoff_seconds
Backoff(n) == IF n >= 7 \/ 2^(n - 1) > MaxBackoff THEN MaxBackoff ELSE 2^(n - 1)

Least(m, n) == IF m < n THEN m ELSE n

\* RetryPolicy.next_delay; -1 is None.
NextDelay(kind, n, elapsed) ==
  IF RetryWindow(kind) - elapsed <= 0 THEN -1
  ELSE Least(Backoff(n), RetryWindow(kind) - elapsed)

\* run_with_retry after a failed attempt: give up, or sleep.
AttemptFailed(c, status, took) ==
  LET elapsed == call[c].elapsed + took
      delay   == NextDelay(call[c].req.kind, call[c].tries, elapsed)
  IN  call' = [call EXCEPT ![c] =
        IF Category(status) # "retryable"
        THEN [@ EXCEPT !.pc = "done", !.elapsed = elapsed, !.flag = FlagOf(status)]
        ELSE IF delay = -1
        THEN [@ EXCEPT !.pc = "done", !.elapsed = elapsed, !.flag = 41]
        ELSE [@ EXCEPT !.pc = "sleeping", !.elapsed = elapsed + delay]]

\* Mutant: an attempt has no timeout of its own.
NoAnswerNoTimeout(c, status) ==
  /\ call[c].pc = "waiting" /\ ~up
  /\ AttemptFailed(c, status, IF status = "DEADLINE_EXCEEDED" THEN 1 ELSE 0)
  /\ net' = [net EXCEPT !.answers = {a \in @ : a.c # c}]
  /\ UNCHANGED <<conf, up, task, issued, effects, items>>

\* No answer: the connection breaks, the deadline passes, or the transport
\* reports something else.  The request may still reach the server.
NoAnswer(c, status) ==
  /\ call[c].pc = "waiting"
  /\ AttemptFailed(c, status, IF status = "DEADLINE_EXCEEDED" THEN 1 ELSE 0)
  /\ net' = [net EXCEPT !.answers = {a \in @ : a.c # c}]
  /\ UNCHANGED <<conf, up, task, issued, effects, items>>

\* The TLS handshake fails and nothing is sent.
NotTrusted(c) ==
  /\ call[c].pc = "waiting" /\ <<c, call[c].tries>> \in net.requests
  /\ AttemptFailed(c, "TLS", 0)
  /\ net' = [net EXCEPT !.requests = @ \ {<<c, call[c].tries>>}]
  /\ UNCHANGED <<conf, up, task, issued, effects, items>>

Resend(c) ==
  /\ call[c].pc = "sleeping"
  /\ call' = [call EXCEPT ![c].pc = "waiting", ![c].tries = @ + 1]
  /\ net' = [net EXCEPT !.requests = @ \cup {<<c, call[c].tries + 1>>}]
  /\ UNCHANGED <<conf, up, task, issued, effects, items>>

\* The answer of the attempt that waits: _check_response, or the exception of
\* a refusal.
Receive(c) ==
  /\ call[c].pc = "waiting"
  /\ \E a \in net.answers :
       /\ a.c = c /\ a.n = call[c].tries
       /\ IF a.status = "OK" THEN Ends(c, a.flag) ELSE AttemptFailed(c, a.status, 0)
       /\ net' = [net EXCEPT !.answers = @ \ {a}]
  /\ UNCHANGED <<conf, up, task, issued, effects, items>>

-----------------------------------------------------------------------------
(* The server's boundary *)

\* PRIVILEGE_BY_METHOD
Privilege(kind) ==
  IF kind \in Child THEN "child" ELSE IF kind \in ReadOnly THEN "public" ELSE "operator"

\* AuthGate.authorize: a child command needs a job password of any value, an
\* operator the secret.
GateStatus(r) ==
  IF conf.auth /\ Privilege(r.kind) # "public" /\ r.pass = 0 THEN "UNAUTHENTICATED" ELSE "OK"

\* TaklerHandlers._handle_command: under fail_fast every exception, a refusal
\* included, ends the server after the answer.
Boundary(failed) == up' = ~(failed /\ conf.failFast)

Answer(c, n, status, flag) ==
  net' = [requests |-> net.requests \ {<<c, n>>},
          answers  |-> net.answers \cup {[c |-> c, n |-> n, status |-> status, flag |-> flag]}]

\* AuthInterceptor.intercept_service, authorize of the HTTP routes
Refuse(c, n) ==
  /\ up /\ <<c, n>> \in net.requests
  /\ GateStatus(call[c].req) # "OK"
  /\ Answer(c, n, GateStatus(call[c].req), 0)
  /\ UNCHANGED <<conf, up, task, issued, call, effects, items>>

HandlePing(c, n) ==
  /\ up /\ <<c, n>> \in net.requests
  /\ call[c].req.kind \in ReadOnly
  /\ Answer(c, n, "OK", 0)
  /\ UNCHANGED <<conf, up, task, issued, call, effects, items>>

-----------------------------------------------------------------------------
(* Child commands *)

\* Scheduler._guard_attempt
GuardAttempt(r) == task[r.task].attempt = r.att /\ task[r.task].status \in InFlight

HitsZ1(r) == r.pass = 0 \/ r.pass # task[r.task].password
HitsZ2(r) == task[r.task].status \notin InFlight
HitsZ3(r) == r.kind = "init" /\ task[r.task].status = "active" /\ r.rid # task[r.task].rid

\* detect_zombie_condition: the password (Z1) counts only with authentication.
Zombie(r) == (conf.auth /\ HitsZ1(r)) \/ HitsZ2(r) \/ HitsZ3(r)

\* Mutant: ignoring a zombie takes over its password.
DisposedTakesOver(r) ==
  CASE conf.policy = "fail"  -> [act |-> "refuse", password |-> task[r.task].password]
    [] conf.policy = "fob"   -> [act |-> "skip", password |-> IF r.pass = 0 THEN task[r.task].password ELSE r.pass]
    [] conf.policy = "adopt" -> [act |-> "proceed", password |-> IF r.pass = 0 THEN task[r.task].password ELSE r.pass]

\* dispose_zombie
Disposed(r) ==
  CASE conf.policy = "fail"  -> [act |-> "refuse", password |-> task[r.task].password]
    [] conf.policy = "fob"   -> [act |-> "skip", password |-> task[r.task].password]
    [] conf.policy = "adopt" -> [act |-> "proceed", password |-> IF r.pass = 0 THEN task[r.task].password ELSE r.pass]

\* ZombieDetector.guard, for the reports that are checked by it
Guarded(r) ==
  IF Zombie(r) THEN Disposed(r) ELSE [act |-> "proceed", password |-> task[r.task].password]

\* What Scheduler.run_command_init, _complete, _abort and _event decide: the
\* flag of the answer, what is done and the password that is left.
Decision(r) ==
  LET refuse(flag) == [flag |-> flag, act |-> "refuse", password |-> task[r.task].password]
      guard        == Guarded(r)
  IN  CASE ~GuardAttempt(r) -> refuse(32)
        [] GuardAttempt(r) /\ r.kind = "init" /\ task[r.task].status = "active" ->
             IF r.rid # task[r.task].rid \/ Zombie(r) THEN refuse(31)
             ELSE [flag |-> 0, act |-> "skip", password |-> task[r.task].password]
        [] OTHER ->
             [flag |-> IF guard.act = "refuse" THEN 31 ELSE 0,
              act |-> guard.act, password |-> guard.password]

\* Task.init, Task.complete, Task.abort and Node.set_event
Written(t, r) ==
  CASE r.kind = "init"     -> [t EXCEPT !.status = "active", !.rid = r.rid]
    [] r.kind = "complete" -> [t EXCEPT !.status = "complete"]
    [] r.kind = "abort"    -> [t EXCEPT !.status = "aborted"]
    [] r.kind = "event"    -> [t EXCEPT !.event = TRUE]

HandleChild(c, n) ==
  LET r == call[c].req
      d == Decision(r)
      t == [task[r.task] EXCEPT !.password = d.password]
  IN  /\ up /\ <<c, n>> \in net.requests
      /\ r.kind \in Child /\ GateStatus(r) = "OK"
      /\ task' = [task EXCEPT ![r.task] = IF d.act = "proceed" THEN Written(t, r) ELSE t]
      /\ effects' = [effects EXCEPT ![c] = @ + (IF d.act = "proceed" THEN 1 ELSE 0)]
      /\ Boundary(d.act = "refuse")
      /\ Answer(c, n, "OK", d.flag)
      /\ UNCHANGED <<conf, issued, call, items>>

-----------------------------------------------------------------------------
(* Batch commands: run, target by target *)

\* How the run of a target that is not refused ends: accepted, a submission
\* that fails (JobSubmissionError), or an exception no one expects.
Luck == {"accepted", "failed", "crashed"}

\* Task.increment_try_no with the status the run leaves
Attempted(x, t, status) ==
  [x EXCEPT !.task[t] = [@ EXCEPT !.status = status, !.attempt = x.issued[t] + 1,
                                  !.password = x.issued[t] + 1, !.rid = NoRid],
            !.issued[t] = @ + 1]

\* The effect of a failed item, from what can be compared (RunEffect.effect or
\* the two snapshots): nothing can after an internal error (99) or when no
\* snapshot could be taken (seen).
FailureEffect(flag, seen, changed) ==
  IF flag = 99 \/ ~seen THEN "unknown" ELSE IF changed THEN "partial" ELSE "none"

Item(x, y, flag, effect) ==
  [y EXCEPT !.results = Append(@, [flag |-> flag, effect |-> effect, changed |-> x.task # y.task])]

\* Mutant: what an item changed is told from the state before the batch.
RunTargetSinceStart(x, target, luck, seen) ==
  CASE target = Missing -> Item(x, x, 11, "none")
    [] target # Missing /\ x.task[target].status \in InFlight ->
         Item(x, x, 14, FailureEffect(14, seen, x.task # task))
    [] OTHER ->
         LET y == Attempted(x, target, IF luck = "accepted" THEN "submitted" ELSE "aborted")
         IN  CASE luck = "accepted" -> Item(x, y, 0, "applied")
               [] luck = "failed"   -> Item(x, y, 30, FailureEffect(30, seen, TRUE))
               [] luck = "crashed"  -> Item(x, y, 99, FailureEffect(99, seen, TRUE))

\* The loop body of batch_targets around Scheduler.run_command_run; x holds
\* the tasks, the attempts drawn and the results so far.
RunTarget(x, target, luck, seen) ==
  CASE target = Missing -> Item(x, x, 11, "none")
    [] target # Missing /\ x.task[target].status \in InFlight ->
         Item(x, x, 14, FailureEffect(14, seen, FALSE))
    [] OTHER ->
         LET y == Attempted(x, target, IF luck = "accepted" THEN "submitted" ELSE "aborted")
         IN  CASE luck = "accepted" -> Item(x, y, 0, "applied")
               [] luck = "failed"   -> Item(x, y, 30, FailureEffect(30, seen, TRUE))
               [] luck = "crashed"  -> Item(x, y, 99, FailureEffect(99, seen, TRUE))

\* batch_targets: every target is tried, whatever became of the ones before.
Batch(targets, luck, seen) ==
  LET after[i \in 0..Len(targets)] ==
        IF i = 0 THEN [task |-> task, issued |-> issued, results |-> <<>>]
                 ELSE RunTarget(after[i - 1], targets[i], luck[i], seen)
  IN  after[Len(targets)]

Failed(results) == \E i \in DOMAIN results : results[i].flag # 0

HandleRun(c, n) ==
  LET targets == call[c].req.targets
  IN  /\ up /\ <<c, n>> \in net.requests
      /\ call[c].req.kind = "run" /\ GateStatus(call[c].req) = "OK"
      /\ \E luck \in [1..Len(targets) -> Luck], seen \in BOOLEAN :
           LET x == Batch(targets, luck, seen)
           IN  /\ \A t \in Task : x.issued[t] <= MaxAttempts
               /\ task' = x.task /\ issued' = x.issued
               /\ items' = [items EXCEPT ![c] = x.results]
               /\ effects' = [effects EXCEPT ![c] = @ + (IF x.task # task THEN 1 ELSE 0)]
               /\ Boundary(Failed(x.results))
               /\ Answer(c, n, "OK", IF Len(targets) = 0 THEN 15 ELSE IF Failed(x.results) THEN 16 ELSE 0)
      /\ UNCHANGED <<conf, call>>

-----------------------------------------------------------------------------
(* The world around *)

\* A server that ended is started again from its final checkpoint.
Start == ~up /\ up' = TRUE /\ UNCHANGED <<conf, task, issued, call, net, effects, items>>

NoAnswerStatus == {"UNAVAILABLE", "DEADLINE_EXCEEDED", "INTERNAL"}

Next ==
  \/ \E c \in Caller :
       \/ CallIgnored(c)
       \/ CallInvalid(c)
       \/ Call(c)
       \/ \E status \in NoAnswerStatus : NoAnswer(c, status)
       \/ NotTrusted(c)
       \/ Resend(c)
       \/ Receive(c)
       \/ \E n \in 1..call[c].tries :
            \/ Refuse(c, n)
            \/ HandlePing(c, n)
            \/ HandleChild(c, n)
            \/ HandleRun(c, n)
  \/ Start

\* The client is never stuck: an attempt has a timeout and a sleep an end.
ClientStep(c) ==
  Resend(c) \/ Receive(c) \/ \E status \in NoAnswerStatus : NoAnswer(c, status)

Spec == Init /\ [][Next]_vars
FairSpec == Spec /\ \A c \in Caller : WF_vars(ClientStep(c))

-----------------------------------------------------------------------------
(* Properties *)

Done(c) == call[c].pc = "done"
Exit(c) == ExitCode(call[c].flag)

\* One invocation changes the server at most once, however many answers are
\* lost: only what changes nothing is sent again (the retry_window = 0 of the
\* two transports).
AppliedAtMostOnce == \A c \in Caller : effects[c] <= 1

\* What a job or an operator may conclude from the exit code of a report: with
\* 0 it took effect, or the server ignored it on purpose (a duplicate init, a
\* zombie under fob), or NO_TAKLER was set; with 1 or 3 it had no effect and
\* will have none.  Only 4 leaves it open.
ExitTellsTruth ==
  \A c \in Caller : Done(c) /\ call[c].req.kind \in Child =>
    /\ Exit(c) \in {1, 3} =>
         effects[c] = 0 /\ \A n \in 1..call[c].tries : <<c, n>> \notin net.requests
    /\ Exit(c) = 0 =>
         \/ effects[c] = 1
         \/ call[c].tries = 0
         \/ call[c].req.kind = "init"
         \/ conf.policy = "fob"

\* A read gives up as unreachable only when its window is used up, and it does
\* not stay longer than one more attempt (RetryPolicy.next_delay).
WindowHonoured ==
  \A c \in Caller : Done(c) /\ call[c].req.kind \in ReadOnly /\ call[c].flag = 41 =>
    call[c].elapsed \in Window["query"]..(Window["query"] + 1)

\* The report of the job that owns the current attempt, with its own password,
\* takes effect whatever was adopted, ignored or refused before it: no zombie
\* locks the real job out.
OwnReportTakesEffect ==
  [][\A c \in Caller : \A n \in 1..call[c].tries :
       LET r == call[c].req IN
       /\ <<c, n>> \in net.requests /\ HandleChild(c, n)
       /\ r.pass = r.att /\ GuardAttempt(r)
       /\ r.kind = "init" => task[r.task].status = "submitted"
       => task'[r.task] = [Written(task[r.task], r) EXCEPT !.password = task'[r.task].password]]_vars

\* What the results of a batch say of each target is so: "none" left the tree
\* as it was, "applied" and "partial" did not, and a target that succeeded or
\* was never tried is never "unknown".
EffectIsTrue ==
  \A c \in Caller : \A i \in DOMAIN items[c] :
    LET item == items[c][i] IN
    /\ item.effect = "none" => ~item.changed
    /\ item.effect \in {"applied", "partial"} => item.changed
    /\ item.effect = "unknown" => item.flag \notin {0, 11}

\* Every invocation of the client ends, with a server that is down, slow or
\* forgets to answer.
CallEnds == \A c \in Caller : call[c].pc # "idle" ~> Done(c)

\* What the description of CommandKind says of the child commands: a job that
\* gives up on an unreachable server has tried for its whole window.
\* It does not hold: README, "Also observed".
ChildKeepsTrying ==
  \A c \in Caller : Done(c) /\ call[c].req.kind \in Child /\ call[c].flag = 41 =>
    call[c].elapsed >= Window["child"]

-----------------------------------------------------------------------------
(* The inductive invariant *)

\* What the state of an invocation says of its effect: what changes the server
\* is sent once and never again, what only reads has no effect.
CallOK(c) ==
  /\ call[c].tries \in Nat /\ effects[c] \in 0..1
  /\ call[c].pc = "idle" => call[c] = Idle
  /\ call[c].tries = 0 => effects[c] = 0
  /\ IF call[c].req.kind \in ReadOnly
     THEN effects[c] = 0
     ELSE call[c].tries <= 1 /\ call[c].pc # "sleeping" /\ call[c].elapsed \in Nat

\* A request on the way was sent and has not had its effect.
RequestOK(c, n) ==
  <<c, n>> \in net.requests => n \in 1..call[c].tries /\ effects[c] = 0

\* An answer is the only trace of its request and tells its effect.
AnswerOK(a) ==
  /\ a.c \in Caller /\ a.n \in 1..call[a.c].tries /\ <<a.c, a.n>> \notin net.requests
  /\ a.status \in {"OK", "UNAUTHENTICATED"}
  /\ call[a.c].req.kind \in Child =>
       IF a.status = "OK" /\ a.flag = 0
       THEN effects[a.c] = 1 \/ call[a.c].req.kind = "init" \/ conf.policy = "fob"
       ELSE effects[a.c] = 0 /\ (a.status = "OK" => a.flag \in {31, 32})

CallShape(x) ==
  x = [pc |-> x.pc, req |-> x.req, tries |-> x.tries, elapsed |-> x.elapsed, flag |-> x.flag]

CommandsInv ==
  /\ conf \in Configs
  /\ DOMAIN call = Caller /\ DOMAIN effects = Caller
  /\ net = [requests |-> net.requests, answers |-> net.answers]
  /\ \A c \in Caller : CallShape(call[c]) /\ CallOK(c) /\ \A n \in Nat : RequestOK(c, n)
  /\ \A a \in net.answers : AnswerOK(a)
  /\ ExitTellsTruth

\* A request that was sent names tasks that exist, and an attempt.
SentOK(c) ==
  call[c].tries > 0 \/ call[c].pc \in {"waiting", "sleeping"} =>
    IF call[c].req.kind \in Child
    THEN call[c].req.task \in Task /\ call[c].req.att # 0
    ELSE call[c].req.targets \in Seq(Task \cup {Missing})

\* A task is in the last attempt drawn for it and waits for the password of
\* that attempt, or of a zombie it was told to adopt.
TaskOK(x, last) ==
  /\ x = [status |-> x.status, attempt |-> x.attempt, password |-> x.password,
          rid |-> x.rid, event |-> x.event]
  /\ x.attempt = last /\ last \in Nat
  /\ x.password = last \/ conf.policy = "adopt"

\* The items that tell the truth, as EffectIsTrue has it.
TrueItem ==
  {item \in [flag : {0, 11, 14, 30, 99}, effect : {"none", "applied", "partial", "unknown"},
             changed : BOOLEAN] :
     /\ item.effect = "none" => ~item.changed
     /\ item.effect \in {"applied", "partial"} => item.changed
     /\ item.effect = "unknown" => item.flag \notin {0, 11}}

\* What a batch works on.
WorkOK(x) ==
  /\ x = [task |-> x.task, issued |-> x.issued, results |-> x.results]
  /\ x.task = [t \in Task |-> x.task[t]] /\ x.issued = [t \in Task |-> x.issued[t]]
  /\ \A t \in Task : TaskOK(x.task[t], x.issued[t])
  /\ x.results \in Seq(TrueItem)

ServerInv ==
  /\ WorkOK([task |-> task, issued |-> issued, results |-> <<>>])
  /\ DOMAIN items = Caller /\ \A c \in Caller : items[c] \in Seq(TrueItem)
  /\ \A c \in Caller : SentOK(c)

\* A read stays within its window until it ends.
WindowOK(c) ==
  call[c].req.kind \in ReadOnly =>
    /\ call[c].elapsed \in Int /\ call[c].tries >= 1
    /\ call[c].pc # "done" => call[c].elapsed <= Window["query"]
    /\ call[c].pc = "done" /\ call[c].flag = 41 =>
         call[c].elapsed >= Window["query"] /\ call[c].elapsed <= Window["query"] + 1

WindowInv ==
  /\ \A c \in Caller : WindowOK(c)
  /\ \A a \in net.answers : call[a.c].req.kind \in ReadOnly => a.flag = 0
=============================================================================
