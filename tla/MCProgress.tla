---------------------------- MODULE MCProgress ----------------------------
(***************************************************************************)
(* What must eventually happen: submissions settle, a flow runs to its     *)
(* end, a shutdown ends, readers and the terminal get their answers and a  *)
(* client invocation returns.  The parts share no state; `focus` picks the *)
(* part that moves, and fairness is asked of that part only.               *)
(***************************************************************************)
EXTENDS ShellSubmission, TLC

CONSTANTS Blank, NoQuery, NoPath, Missing

MCInLimits == [t \in Task |-> Limit]
MCTokens == [t \in Task |-> [l \in Limit |-> 1]]
MCCapacity == [l \in Limit |-> 2]
MCSubtree == {{t} : t \in Task}

VARIABLES
  focus,
  tree, suspended, now, flowBegun, serving, scan, heldBack,
  deployment, policy, listener, mainAt, stopAt, loopAt, shouldStop, fatal,
  webExit, writing, callAt, changed, saved, exitCode,
  live, current, serial, shown, scope, selected, refreshSeq, detailSeq,
  refresh, detail, tabs, stale,
  version, reader, captures, builds, snapshots, leases, reserved,
  ownerReserved, captureReaders, closed,
  conf, up, reported, drawn, call, net, effects, items

flowVars == <<tree, suspended, now, flowBegun, serving, scan, heldBack>>
serverVars == <<deployment, policy, listener, mainAt, stopAt, loopAt, shouldStop,
                fatal, webExit, writing, callAt, changed, saved, exitCode>>
refreshVars == <<live, current, serial, shown, scope, selected, refreshSeq, detailSeq,
                 refresh, detail, tabs, stale>>
captureVars == <<version, reader, captures, builds, snapshots, leases, reserved,
                 ownerReserved, captureReaders, closed>>
callVars == <<conf, up, reported, drawn, call, net, effects, items>>

-----------------------------------------------------------------------------
(* The parts *)

\* f = (g = (a, b), c) with a repeat on f, on g and on c; b waits for a, c for g
FlowTasks == {"a", "b", "c"}
FlowNodes == FlowTasks \cup {"f", "g"}
Nothing == [n \in FlowNodes |-> {}]
Flow ==
  INSTANCE NodeTree
  WITH Task <- FlowTasks, Container <- {"f", "g"}, Root <- "f",
       Children <- ("f" :> <<"g", "c">>) @@ ("g" :> <<"a", "b">>), DefaultComplete <- {},
       RepeatEnd <- [n \in FlowNodes |-> IF n \in {"f", "g", "c"} THEN 1 ELSE 0],
       Trigger <- [n \in FlowNodes |-> CASE n = "b" -> {<<"a", {"complete"}>>}
                                          [] n = "c" -> {<<"g", {"complete"}>>}
                                          [] OTHER -> {}],
       CompleteTrigger <- Nothing, EventTrigger <- Nothing, Timed <- {}, Refused <- {}, Broken <- {},
       Failing <- {}, Commands <- {}, begun <- flowBegun, running <- serving, held <- heldBack

\* A bare server, and one with all listeners that stops at its first failure
NoConf == [port |-> Blank, auth |-> Blank, cert |-> Blank, key |-> Blank,
           http |-> FALSE, httpCert |-> Blank, httpKey |-> Blank]
Bare == [entry |-> "serve", confFrom |-> "none", confLoads |-> TRUE, conf |-> NoConf,
         policyArg |-> "absent", policyEnv |-> Blank, authEnv |-> Blank, portArg |-> Blank,
         certArg |-> Blank, keyArg |-> Blank, secrets |-> "none"]
Server ==
  INSTANCE ServerLifecycle
  WITH Deployment <- {Bare, [Bare EXCEPT !.entry = "embed"],
                      [Bare EXCEPT !.confFrom = "argument", !.conf.http = TRUE, !.policyArg = "FAIL_FAST"]},
       RpcCall <- {"r"}, WebCall <- {"w"}, DefaultPort <- "p1"

Refresh ==
  INSTANCE TuiRefresh
  WITH Task <- {"a", "b"}, Scope <- {"root", "flow"}, MaxRefresh <- 2, MaxDetail <- 1, MaxAttempt <- 2

Captures ==
  INSTANCE SummaryCapture
  WITH Reader <- {"r1", "r2"}, Owner <- {"a", "b"}, OwnerOf <- "r1" :> "a" @@ "r2" :> "b", Scopes <- {"s"},
       MaxSnapshots <- 2, MaxOwnerSnapshots <- 1, MaxReaders <- 2, MaxRoots <- 1, MaxWorkers <- 1,
       MaxLeases <- 1, MaxOwnerLeases <- 1, MaxVersion <- 1

\* One invocation of the client against a server that may stop or be slow
Callers == {"c"}
Calls ==
  INSTANCE Commands
  WITH Caller <- Callers, Task <- {"x"}, Reporting <- {"x"}, Started <- "x" :> "submitted",
       Window <- "child" :> 3 @@ "control" :> 2 @@ "query" :> 2, MaxBackoff <- 2,
       Configs <- {[auth |-> TRUE, policy |-> "fob", failFast |-> FALSE]},
       Requests <- {"init", "complete", "run", "ping"}, Batches <- {<<"x">>}, MaxAttempts <- 4,
       task <- reported, issued <- drawn

-----------------------------------------------------------------------------
(* One part moves *)

Parts == {"shell", "flow", "server", "refresh", "captures", "calls"}

\* The parts out of focus rest in an initial state.
MCInit ==
  /\ focus \in Parts /\ ShellInit /\ Flow!Init /\ Server!ServerInit /\ Refresh!TuiInit
  /\ Captures!CaptureInit /\ Calls!Init
  /\ focus # "server" => deployment = Bare

\* A step of part: focus stays and the variables of the others do not change.
Only(part) ==
  /\ focus = part /\ UNCHANGED focus
  /\ part # "shell" => UNCHANGED allVars
  /\ part # "flow" => UNCHANGED flowVars
  /\ part # "server" => UNCHANGED serverVars
  /\ part # "refresh" => UNCHANGED refreshVars
  /\ part # "captures" => UNCHANGED captureVars
  /\ part # "calls" => UNCHANGED callVars

MCNext ==
  \/ Only("shell") /\ ShellNext
  \/ Only("flow") /\ Flow!Next
  \/ Only("server") /\ Server!ServerNext
  \/ Only("refresh") /\ Refresh!TuiNext
  \/ Only("captures") /\ Captures!CaptureNext
  \/ Only("calls") /\ Calls!Next

MCVars == <<focus, allVars, flowVars, serverVars, refreshVars, captureVars, callVars>>

\* The scheduler scans again and again and resumes every scan until it ends,
\* and no job runs for ever.
FlowFairness ==
  /\ WF_flowVars(focus = "flow" /\ Flow!ScanBegin)
  /\ []<>(focus = "flow" => scan = <<>>)
  /\ \A t \in FlowTasks : []<>(focus = "flow" => tree.status[t] \notin Flow!InFlight)

\* The steps of the process by itself; signals and calls may never come.
ServerFairness ==
  /\ WF_serverVars(focus = "server" /\ Server!StartSync)
  /\ WF_serverVars(focus = "server" /\ Server!StartGrpc)
  /\ WF_serverVars(focus = "server" /\ Server!StartHttp)
  /\ WF_serverVars(focus = "server" /\ Server!LoopEnds)
  /\ WF_serverVars(focus = "server" /\ Server!WriteEnds)
  /\ WF_serverVars(focus = "server" /\ Server!RunWakes)
  /\ WF_serverVars(focus = "server" /\ Server!GrpcStopped)
  /\ WF_serverVars(focus = "server" /\ Server!SchedulerStopped)
  /\ WF_serverVars(focus = "server" /\ Server!FinalCheckpoint)
  /\ WF_serverVars(focus = "server" /\ Server!Exit)

\* Threads and worker tasks that can go on do; only the newest refresh must.
ReaderFairness ==
  /\ \A n \in 1..2 : WF_refreshVars(focus = "refresh" /\ n = refreshSeq /\ Refresh!RefreshStep(n))
  /\ \A s \in Captures!AllSelections :
       /\ WF_captureVars(focus = "captures" /\ Captures!StartBuild(s))
       /\ WF_captureVars(focus = "captures" /\ Captures!EndBuild(s))
  /\ \A key \in Captures!Keys : WF_captureVars(focus = "captures" /\ Captures!EndCapture(key))

\* A client goes on by itself; the server and the network need not.
CallFairness == \A c \in Callers : WF_callVars(focus = "calls" /\ Calls!ClientStep(c))

ShellGoesOn ==
  \A t \in Task, n \in 1..MaxAttempts :
    /\ WF_allVars(focus = "shell" /\ FirstStep(t, n))
    /\ WF_allVars(focus = "shell" /\ (SlotGranted(t, n) \/ QueueTimeout(t, n)))
    /\ WF_allVars(focus = "shell" /\ ProcessEnds(t, n))
    /\ WF_allVars(focus = "shell" /\ JobDone(t, n))

MCSpec ==
  /\ MCInit /\ [][MCNext]_MCVars
  /\ ShellGoesOn /\ FlowFairness /\ ServerFairness /\ ReaderFairness /\ CallFairness

-----------------------------------------------------------------------------
(* Properties; those of the submissions stand in ShellSubmission *)

\* A flow that has begun goes through its repeats and stays complete.
FlowCompletes == Flow!FlowCompletes

\* A shutdown that has begun comes to its final snapshot.
StopEnds == Server!StopEnds

\* Every reader of a summary is answered, and the newest refresh of the
\* terminal ends with what the server had or with the stale mark.
AnswersCome == Captures!ReadersAnswered /\ Refresh!RefreshSettles

\* Every invocation of the client ends, whatever the server and the network do.
CallEnds == Calls!CallEnds
=============================================================================
