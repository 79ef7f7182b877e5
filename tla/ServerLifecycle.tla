--------------------------- MODULE ServerLifecycle ---------------------------
(***************************************************************************)
(* The life of one takler_server process: the deployment it is given (the  *)
(* command line, the environment and the connection file), the start-up    *)
(* sequence of TaklerServer.start, the services that then share one event  *)
(* loop (gRPC, HTTP, the scheduler loop, the periodic checkpoint), and the *)
(* shutdown that a signal, a fatal error or the end of the flows begins.   *)
(* A step of this module runs from one await of the code to the next.      *)
(***************************************************************************)
EXTENDS Naturals, Sequences

CONSTANTS
  Deployment,     \* the deployments a process may be started with (records)
  RpcCall,        \* the commands clients send over gRPC
  WebCall,        \* the commands clients send over HTTP
  DefaultPort,    \* DEFAULT_PORT of the command line
  Blank           \* a setting that is absent, empty or white space

VARIABLES
  deployment,     \* what this process was started with
  policy,         \* TaklerServer.exception_policy
  listener,       \* per transport: is its listener open, is it encrypted
  mainAt,         \* where the coroutine of the process is
  stopAt,         \* where _shutdown_once is, "none" when nobody asked
  loopAt,         \* the task of Scheduler.run
  shouldStop,     \* Scheduler.should_stop
  fatal,          \* TaklerServer._fatal_error_event
  webExit,        \* uvicorn's should_exit
  writing,        \* a periodic snapshot is in the worker thread
  callAt,         \* per command: "idle", "inside", "answered", "failed", "cancelled"
  changed,        \* the changes the bunch holds
  saved,          \* the changes the last final snapshot holds
  exitCode        \* 99 while the process lives

serverVars == <<deployment, policy, listener, mainAt, stopAt, loopAt, shouldStop,
                fatal, webExit, writing, callAt, changed, saved, exitCode>>

Alive == 99
Transport == {"grpc", "http"}
SendsTo(c) == IF c \in RpcCall THEN "grpc" ELSE "http"
Closed == [open |-> FALSE, tls |-> FALSE, port |-> Blank]

---------------------------------------------------------------------------
(* What a deployment asks for *)

(* The first of the sources, in order of precedence, that gives a value.    *)
FirstGiven(sources, default) ==
  LET given == {i \in DOMAIN sources : sources[i] # Blank}
  IN IF given = {} THEN default
     ELSE sources[CHOOSE i \in given : \A j \in given : i <= j]

(* from_str of the policy enumerations: an unknown word becomes the default. *)
FromStr(word, members, default) == IF word \in members THEN word ELSE default

EmptyConf == [port |-> Blank, auth |-> Blank, cert |-> Blank, key |-> Blank,
              http |-> FALSE, httpCert |-> Blank, httpKey |-> Blank]

(* A connection file named on the command line has to load; one named by   *)
(* the environment is ignored when it does not.                            *)
ConnectFileFails(d) == d.confFrom = "argument" /\ ~d.confLoads
ConnectConfig(d) ==
  IF d.confFrom = "none" \/ ~d.confLoads THEN EmptyConf ELSE d.conf

(* An argument that is given decides, blank or not; the environment only    *)
(* when it is not blank.                                                    *)
ExceptionPolicy(d) ==
  LET word == IF d.policyArg # "absent" THEN d.policyArg
              ELSE FirstGiven(<<d.policyEnv>>, "RESILIENT")
  IN FromStr(word, {"RESILIENT", "FAIL_FAST"}, "RESILIENT")

Address(d) == FirstGiven(<<d.portArg, ConnectConfig(d).port>>, DefaultPort)

AuthMode(d) ==
  LET word == FirstGiven(<<d.authEnv, ConnectConfig(d).auth>>, "DISABLED")
  IN FromStr(word, {"ENABLED", "DISABLED"}, "DISABLED")

TlsPaths(d) ==
  [cert |-> FirstGiven(<<d.certArg, ConnectConfig(d).cert>>, Blank),
   key  |-> FirstGiven(<<d.keyArg, ConnectConfig(d).key>>, Blank)]

(* Mutant: half a pair of TLS files is let pass.                            *)
HalfConfiguredNever(pair) == FALSE
HalfConfigured(pair) == (pair.cert = Blank) # (pair.key = Blank)

(* The HTTP listener has a pair of its own or inherits the one of gRPC.     *)
OwnHttpPair(d) == [cert |-> ConnectConfig(d).httpCert, key |-> ConnectConfig(d).httpKey]
HttpTlsPaths(d) ==
  IF OwnHttpPair(d).cert = Blank THEN TlsPaths(d) ELSE OwnHttpPair(d)

(* The secret file is usable: configured, readable, at least one secret.    *)
ValidAtStartup(d) == AuthMode(d) = "ENABLED" => d.secrets = "some"

HasHttp(d) == ConnectConfig(d).http

(* The whole of _start_security, up to files that cannot be loaded.         *)
SecurityAccepts(d) ==
  /\ ValidAtStartup(d)
  /\ ~HalfConfigured(TlsPaths(d))
  /\ HasHttp(d) => ~HalfConfigured(OwnHttpPair(d))

Encrypted(pair) == pair.cert # Blank /\ pair.key # Blank

---------------------------------------------------------------------------
(* Start-up *)

ServerInit ==
  /\ deployment \in Deployment
  /\ policy = "RESILIENT"
  /\ listener = [t \in Transport |-> Closed]
  /\ mainAt = "boot" /\ stopAt = "none" /\ loopAt = "absent"
  /\ shouldStop = FALSE /\ fatal = FALSE /\ webExit = FALSE /\ writing = FALSE
  /\ callAt = [c \in RpcCall \cup WebCall |-> "idle"]
  /\ changed = {} /\ saved = {} /\ exitCode = Alive

(* The process ends with an error before it serves, or while it starts.     *)
Dies ==
  /\ mainAt' = "exited" /\ exitCode' = 1
  /\ listener' = [t \in Transport |-> Closed]

(* serve, TaklerServer(...) and the part of start that never suspends: the  *)
(* asynchronous-task check, logging, the umask check, security, restore and *)
(* the first version.  A file, the HTTP packages or both checkpoints may    *)
(* turn out to be unusable, which \E usable stands for.                     *)
StartSync ==
  /\ mainAt = "boot"
  /\ policy' = ExceptionPolicy(deployment)
  /\ \E usable \in BOOLEAN :
       IF usable /\ ~ConnectFileFails(deployment) /\ SecurityAccepts(deployment)
       THEN /\ mainAt' = "grpc"
            /\ listener' = [grpc |-> [open |-> FALSE, port |-> Address(deployment),
                                      tls |-> Encrypted(TlsPaths(deployment))],
                            http |-> [open |-> FALSE, port |-> Blank,
                                      tls |-> Encrypted(HttpTlsPaths(deployment))]]
            /\ UNCHANGED exitCode
       ELSE Dies
  /\ UNCHANGED <<deployment, stopAt, loopAt, shouldStop, fatal, webExit, writing,
                 callAt, changed, saved>>

(* run() creates the scheduler task; checkpoint_manager.start has just      *)
(* created the periodic task.                                               *)
Serving == mainAt' = "serving" /\ loopAt' = "looping"

(* GrpcTransport.start returns.  A shutdown that began meanwhile has        *)
(* stopped the same grpc server.                                            *)
StartGrpc ==
  /\ mainAt = "grpc"
  /\ \/ /\ listener' = [listener EXCEPT !.grpc.open = (stopAt = "none")]
        /\ IF HasHttp(deployment)
           THEN mainAt' = "http" /\ UNCHANGED loopAt
           ELSE Serving
        /\ UNCHANGED exitCode
     \/ Dies /\ UNCHANGED loopAt
  /\ UNCHANGED <<deployment, policy, stopAt, shouldStop, fatal, webExit, writing,
                 callAt, changed, saved>>

(* HttpTransport.start returns.  A stop() that came while gRPC was starting *)
(* found no uvicorn server to flag: webExit stays as it is.                 *)
StartHttp ==
  /\ mainAt = "http"
  /\ \/ listener' = [listener EXCEPT !.http.open = TRUE] /\ Serving /\ UNCHANGED exitCode
     \/ Dies /\ UNCHANGED loopAt
  /\ UNCHANGED <<deployment, policy, stopAt, shouldStop, fatal, webExit, writing,
                 callAt, changed, saved>>

---------------------------------------------------------------------------
(* Serving *)

Running == mainAt \notin {"boot", "exited"}

Arrive(c) ==
  /\ Running /\ callAt[c] = "idle" /\ listener[SendsTo(c)].open
  /\ callAt' = [callAt EXCEPT ![c] = "inside"]
  /\ UNCHANGED <<deployment, policy, listener, mainAt, stopAt, loopAt, shouldStop,
                 fatal, webExit, writing, changed, saved, exitCode>>

(* The handler runs the command to its end and answers.                     *)
Handle(c) ==
  /\ Running /\ callAt[c] = "inside"
  /\ callAt' = [callAt EXCEPT ![c] = "answered"]
  /\ changed' = changed \cup {c}
  /\ UNCHANGED <<deployment, policy, listener, mainAt, stopAt, loopAt, shouldStop,
                 fatal, webExit, writing, saved, exitCode>>

(* The handler raises something unexpected: fail-fast sets the fatal event. *)
HandlerFails(c) ==
  /\ Running /\ callAt[c] = "inside"
  /\ callAt' = [callAt EXCEPT ![c] = "failed"]
  /\ fatal' = (fatal \/ policy = "FAIL_FAST")
  /\ UNCHANGED <<deployment, policy, listener, mainAt, stopAt, loopAt, shouldStop,
                 webExit, writing, changed, saved, exitCode>>

(* One pass of main_loop over the flows changes the bunch.                  *)
Pass ==
  /\ Running /\ loopAt = "looping" /\ ~shouldStop /\ "scan" \notin changed
  /\ changed' = changed \cup {"scan"}
  /\ UNCHANGED <<deployment, policy, listener, mainAt, stopAt, loopAt, shouldStop,
                 fatal, webExit, writing, callAt, saved, exitCode>>

(* A flow raises under fail-fast: the loop sets the fatal event and leaves, *)
(* and run() ends with shutdown(), which clears should_stop.                *)
PassFails ==
  /\ Running /\ loopAt = "looping" /\ ~shouldStop /\ policy = "FAIL_FAST"
  /\ fatal' = TRUE /\ loopAt' = "failed" /\ shouldStop' = FALSE
  /\ UNCHANGED <<deployment, policy, listener, mainAt, stopAt, webExit, writing,
                 callAt, changed, saved, exitCode>>

(* Mutant: run() does not clear should_stop.                                *)
LoopEndsUncleared ==
  /\ Running /\ loopAt = "looping" /\ shouldStop
  /\ loopAt' = "ended"
  /\ UNCHANGED <<deployment, policy, listener, mainAt, stopAt, shouldStop, fatal, webExit,
                 writing, callAt, changed, saved, exitCode>>
(* The loop sees should_stop and run() clears it.                           *)
LoopEnds ==
  /\ Running /\ loopAt = "looping" /\ shouldStop
  /\ loopAt' = "ended" /\ shouldStop' = FALSE
  /\ UNCHANGED <<deployment, policy, listener, mainAt, stopAt, fatal, webExit,
                 writing, callAt, changed, saved, exitCode>>

WriteStarts ==
  /\ mainAt \in {"serving", "stopping"} /\ stopAt \in {"none", "grpc", "scheduler"}
  /\ ~writing /\ writing' = TRUE
  /\ UNCHANGED <<deployment, policy, listener, mainAt, stopAt, loopAt, shouldStop,
                 fatal, webExit, callAt, changed, saved, exitCode>>

WriteEnds ==
  /\ Running /\ writing /\ writing' = FALSE
  /\ UNCHANGED <<deployment, policy, listener, mainAt, stopAt, loopAt, shouldStop,
                 fatal, webExit, callAt, changed, saved, exitCode>>

(* uvicorn's loop sees should_exit and closes its listener; the requests    *)
(* inside go on.                                                            *)
HttpCloses ==
  /\ Running /\ webExit /\ listener.http.open
  /\ listener' = [listener EXCEPT !.http.open = FALSE]
  /\ UNCHANGED <<deployment, policy, mainAt, stopAt, loopAt, shouldStop, fatal,
                 webExit, writing, callAt, changed, saved, exitCode>>

---------------------------------------------------------------------------
(* Shutdown *)

(* _shutdown: the first caller creates the one task, whose first step is    *)
(* to stop the gRPC server from taking new calls.                           *)
Shutdown ==
  /\ stopAt' = IF stopAt = "none" THEN "grpc" ELSE stopAt
  /\ listener' = IF stopAt = "none" THEN [listener EXCEPT !.grpc.open = FALSE] ELSE listener

(* SIGINT or SIGTERM.                                                       *)
Signal ==
  /\ mainAt \in {"grpc", "http", "serving"} /\ stopAt = "none"
  /\ Shutdown
  /\ UNCHANGED <<deployment, policy, mainAt, loopAt, shouldStop, fatal, webExit,
                 writing, callAt, changed, saved, exitCode>>

(* run() wakes up from its wait for the loop or the fatal event.  Under     *)
(* serve the process waits in run(), an embedding program does not.         *)
RunWakes ==
  /\ mainAt = "serving" /\ (loopAt # "looping" \/ fatal)
  /\ deployment.entry = "serve" \/ stopAt = "none"
  /\ Shutdown
  /\ mainAt' = IF deployment.entry = "serve" THEN "stopping" ELSE mainAt
  /\ UNCHANGED <<deployment, policy, loopAt, shouldStop, fatal, webExit, writing,
                 callAt, changed, saved, exitCode>>

(* run_server_until_complete: the bunch is complete, the program stops the  *)
(* server it embeds.                                                        *)
BunchCompletes ==
  /\ mainAt = "serving" /\ deployment.entry = "embed"
  /\ Shutdown /\ mainAt' = "stopping"
  /\ UNCHANGED <<deployment, policy, loopAt, shouldStop, fatal, webExit, writing,
                 callAt, changed, saved, exitCode>>

Inside(t) == {c \in DOMAIN callAt : SendsTo(c) = t /\ callAt[c] = "inside"}

(* Mutant: the handlers that are inside are not waited for.                 *)
GrpcStoppedAtOnce ==
  /\ Running /\ stopAt = "grpc"
  /\ webExit' = (mainAt = "http" \/ listener.http.open)
  /\ shouldStop' = TRUE /\ stopAt' = "scheduler"
  /\ UNCHANGED <<deployment, policy, listener, mainAt, loopAt, fatal, writing,
                 callAt, changed, saved, exitCode>>
(* grpc stop(5) returns: the calls inside have ended or are cancelled.      *)
(* HTTP is asked to stop and not waited for; scheduler.stop sets its flag.  *)
GrpcStopped ==
  /\ Running /\ stopAt = "grpc"
  /\ callAt' = [c \in DOMAIN callAt |-> IF c \in Inside("grpc") THEN "cancelled" ELSE callAt[c]]
  /\ webExit' = (mainAt = "http" \/ listener.http.open)
  /\ shouldStop' = TRUE /\ stopAt' = "scheduler"
  /\ UNCHANGED <<deployment, policy, listener, mainAt, loopAt, fatal, writing,
                 changed, saved, exitCode>>
(* scheduler.stop has polled until the flag is down; the periodic task is   *)
(* cancelled and its write drained.                                         *)
SchedulerStopped ==
  /\ Running /\ stopAt = "scheduler" /\ ~shouldStop
  /\ stopAt' = "checkpoint"
  /\ UNCHANGED <<deployment, policy, listener, mainAt, loopAt, shouldStop, fatal,
                 webExit, writing, callAt, changed, saved, exitCode>>

(* The final snapshot, written synchronously; exitCode is decided by it.    *)
FinalCheckpoint ==
  /\ Running /\ stopAt = "checkpoint" /\ ~writing
  /\ \/ saved' = changed /\ stopAt' = "done"
     \/ saved' = saved /\ stopAt' = "unsaved"
  /\ UNCHANGED <<deployment, policy, listener, mainAt, loopAt, shouldStop, fatal,
                 webExit, writing, callAt, changed, exitCode>>

(* _serve and serve_forever return; asyncio.run cancels what is left.       *)
Exit ==
  /\ mainAt = "stopping" /\ stopAt \in {"done", "unsaved"}
  /\ mainAt' = "exited"
  /\ exitCode' = IF stopAt = "done" THEN 0 ELSE 1
  /\ listener' = [t \in Transport |-> Closed]
  /\ UNCHANGED <<deployment, policy, stopAt, loopAt, shouldStop, fatal, webExit,
                 writing, callAt, changed, saved>>

ServerNext ==
  \/ StartSync \/ StartGrpc \/ StartHttp
  \/ \E c \in RpcCall \cup WebCall : Arrive(c) \/ Handle(c) \/ HandlerFails(c)
  \/ Pass \/ PassFails \/ LoopEnds \/ WriteStarts \/ WriteEnds \/ HttpCloses
  \/ Signal \/ RunWakes \/ BunchCompletes
  \/ GrpcStopped \/ SchedulerStopped \/ FinalCheckpoint \/ Exit

(* The event loop runs every ready task, a thread's write ends, and the     *)
(* start of a listener returns or raises.  Nothing is assumed of clients,   *)
(* signals, flows or the periodic timer.                                    *)
ServerFairness ==
  /\ WF_serverVars(StartSync) /\ WF_serverVars(StartGrpc) /\ WF_serverVars(StartHttp)
  /\ WF_serverVars(LoopEnds) /\ WF_serverVars(WriteEnds) /\ WF_serverVars(RunWakes)
  /\ WF_serverVars(GrpcStopped) /\ WF_serverVars(SchedulerStopped)
  /\ WF_serverVars(FinalCheckpoint) /\ WF_serverVars(Exit)

ServerSpec == ServerInit /\ [][ServerNext]_serverVars /\ ServerFairness

---------------------------------------------------------------------------
(* Properties *)

Answered == {c \in DOMAIN callAt : callAt[c] = "answered"}

(* An open listener is encrypted as soon as any TLS file was given for it,  *)
(* on the command line or in the connection file that was read: a           *)
(* half-configured pair stops the start-up and never serves plain text.     *)
(* With authentication enabled nothing is served without operator secrets.  *)
ServesAsConfigured ==
  LET conf == ConnectConfig(deployment)
      given == {deployment.certArg, deployment.keyArg, conf.cert, conf.key}
      givenHttp == given \cup {conf.httpCert, conf.httpKey}
  IN /\ listener.grpc.open /\ given # {Blank} => listener.grpc.tls
     /\ listener.grpc.open /\ deployment.portArg # Blank => listener.grpc.port = deployment.portArg
     /\ listener.http.open /\ givenHttp # {Blank} => listener.http.tls
     /\ (\E t \in Transport : listener[t].open) /\ AuthMode(deployment) = "ENABLED"
          => deployment.secrets = "some"

(* A process that exits with status 0 has saved every change it confirmed   *)
(* over gRPC and every change its scheduler made: _shutdown_once takes the  *)
(* final snapshot after the last of both.                                   *)
ConfirmedIsSaved ==
  exitCode = 0 => (changed \ WebCall) \subseteq saved

(* The same of all commands, HTTP included: "by then no RPC handler and no  *)
(* scheduler pass can still change the bunch".                              *)
(* It does not hold: README, "Also observed".                             *)
FinalSeesAll ==
  exitCode = 0 => Answered \subseteq saved

(* A shutdown that has begun reaches its final snapshot, or the process     *)
(* has died of a start-up error; the case of a scheduler loop that has      *)
(* failed by itself is left to FatalStopEnds.                               *)
StopEnds ==
  stopAt # "none" ~> (stopAt \in {"done", "unsaved"} \/ exitCode # Alive \/ loopAt = "failed")

(* After a fatal error the server goes through its clean shutdown path.     *)
FatalStopEnds ==
  fatal ~> (stopAt \in {"done", "unsaved"} \/ exitCode # Alive)

---------------------------------------------------------------------------
(* The inductive invariant *)

(* What start-up accepted is what the listeners have; HTTP listens only    *)
(* when it was asked for.                                                   *)
StartedAsAsked ==
  /\ listener = [grpc |-> [open |-> listener.grpc.open, tls |-> listener.grpc.tls,
                           port |-> listener.grpc.port],
                 http |-> [open |-> listener.http.open, tls |-> listener.http.tls,
                           port |-> listener.http.port]]
  /\ IF Running
     THEN /\ SecurityAccepts(deployment)
          /\ listener.grpc.tls = Encrypted(TlsPaths(deployment))
          /\ listener.grpc.port = Address(deployment)
          /\ listener.http.tls = Encrypted(HttpTlsPaths(deployment))
          /\ mainAt = "http" \/ listener.http.open => HasHttp(deployment)
     ELSE ~listener.grpc.open /\ ~listener.http.open

(* The order of _shutdown_once: no gRPC call is inside once gRPC has        *)
(* stopped, and no pass follows once the scheduler has.                     *)
StopsInOrder ==
  /\ DOMAIN callAt = RpcCall \cup WebCall
  /\ mainAt = "boot" => stopAt = "none"
  /\ stopAt \in {"none", "grpc", "scheduler", "checkpoint", "done", "unsaved"}
  /\ stopAt # "none" => ~listener.grpc.open
  /\ stopAt \notin {"none", "grpc"} => \A c \in RpcCall : callAt[c] # "inside"
  /\ stopAt = "scheduler" /\ ~shouldStop => loopAt = "ended"
  /\ mainAt \in {"boot", "grpc", "http"} => loopAt = "absent"
  /\ stopAt \in {"checkpoint", "done", "unsaved"} => loopAt = "ended"
  /\ stopAt = "done" => (changed \ WebCall) \subseteq saved
  /\ exitCode = 0 => stopAt = "done" /\ mainAt = "exited"

ServiceInv == StartedAsAsked /\ StopsInOrder
=============================================================================
