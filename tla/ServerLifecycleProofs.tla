------------------------ MODULE ServerLifecycleProofs ------------------------
(***************************************************************************)
(* What a takler_server process keeps whatever deployment it is given and  *)
(* however many clients call it: its listeners are the ones that were      *)
(* asked for, and a clean exit loses nothing that was confirmed over gRPC. *)
(***************************************************************************)
EXTENDS ServerLifecycle, TLAPS

---------------------------------------------------------------------------
(* Settings *)

(* Of two sources the first that is not blank decides (the `or` chains of  *)
(* server/__main__.py).                                                    *)
LEMMA FirstOfTwo ==
  ASSUME NEW a, NEW b, NEW default
  PROVE  FirstGiven(<<a, b>>, default)
           = IF a # Blank THEN a ELSE IF b # Blank THEN b ELSE default
<1> DEFINE given == {i \in DOMAIN <<a, b>> : <<a, b>>[i] # Blank}
<1>1. given = {i \in {1, 2} : <<a, b>>[i] # Blank}
  OBVIOUS
<1>2. FirstGiven(<<a, b>>, default)
        = IF given = {} THEN default
          ELSE <<a, b>>[CHOOSE i \in given : \A j \in given : i <= j]
  BY DEF FirstGiven
<1>3. CASE a # Blank
  <2>1. 1 \in given /\ given \subseteq {1, 2}
    BY <1>1, <1>3
  <2>2. (CHOOSE i \in given : \A j \in given : i <= j) = 1
    <3> HIDE DEF given
    <3>1. \A i \in given : (\A j \in given : i <= j) <=> i = 1
      BY <2>1
    <3> QED
      BY <2>1, <3>1, Zenon
  <2> QED
    BY <1>2, <1>3, <2>1, <2>2
<1>4. CASE a = Blank /\ b # Blank
  <2>1. given = {2}
    BY <1>1, <1>4
  <2>2. (CHOOSE i \in given : \A j \in given : i <= j) = 2
    BY <2>1
  <2> QED
    BY <1>2, <1>4, <2>1, <2>2
<1>5. CASE a = Blank /\ b = Blank
  <2>1. given = {}
    BY <1>1, <1>5
  <2> QED
    BY <1>2, <1>5, <2>1
<1> QED
  BY <1>3, <1>4, <1>5

(* Once start-up has accepted a deployment, one TLS file given for gRPC    *)
(* means an encrypted listener (_resolve_tls_paths, _start_security).      *)
LEMMA GivenIsEncrypted ==
  ASSUME NEW d, SecurityAccepts(d),
         {d.certArg, d.keyArg, ConnectConfig(d).cert, ConnectConfig(d).key} # {Blank}
  PROVE  Encrypted(TlsPaths(d))
<1> DEFINE c == ConnectConfig(d)
<1>1. /\ TlsPaths(d).cert = (IF d.certArg # Blank THEN d.certArg
                             ELSE IF c.cert # Blank THEN c.cert ELSE Blank)
      /\ TlsPaths(d).key = (IF d.keyArg # Blank THEN d.keyArg
                            ELSE IF c.key # Blank THEN c.key ELSE Blank)
  BY FirstOfTwo DEF TlsPaths
<1>2. ~HalfConfigured(TlsPaths(d))
  BY DEF SecurityAccepts
<1> HIDE DEF c
<1>3. d.certArg # Blank \/ d.keyArg # Blank \/ c.cert # Blank \/ c.key # Blank
  BY DEF c
<1> QED
  BY <1>1, <1>2, <1>3 DEF HalfConfigured, Encrypted

(* The same of the HTTP listener, which has a pair of its own or inherits  *)
(* the one of gRPC.                                                        *)
LEMMA GivenHttpIsEncrypted ==
  ASSUME NEW d, SecurityAccepts(d), HasHttp(d),
         {d.certArg, d.keyArg, ConnectConfig(d).cert, ConnectConfig(d).key}
           \cup {ConnectConfig(d).httpCert, ConnectConfig(d).httpKey} # {Blank}
  PROVE  Encrypted(HttpTlsPaths(d))
<1> DEFINE c == ConnectConfig(d)
<1>1. ~HalfConfigured(OwnHttpPair(d))
  BY DEF SecurityAccepts
<1>2. OwnHttpPair(d).cert = c.httpCert /\ OwnHttpPair(d).key = c.httpKey
  BY DEF OwnHttpPair
<1>3. CASE c.httpCert = Blank
  <2>1. c.httpKey = Blank
    BY <1>1, <1>2, <1>3 DEF HalfConfigured
  <2>2. {d.certArg, d.keyArg, c.cert, c.key} # {Blank}
    BY <1>3, <2>1
  <2>3. Encrypted(TlsPaths(d))
    BY <2>2, GivenIsEncrypted
  <2> QED
    BY <1>2, <1>3, <2>3 DEF HttpTlsPaths
<1>4. CASE c.httpCert # Blank
  <2>1. c.httpKey # Blank
    BY <1>1, <1>2, <1>4 DEF HalfConfigured
  <2> QED
    BY <1>2, <1>4, <2>1 DEF HttpTlsPaths, Encrypted
<1> QED
  BY <1>3, <1>4

(* The invariant gives the listeners what they were configured with.       *)
LEMMA InvServesAsConfigured ==
  ASSUME StartedAsAsked
  PROVE  ServesAsConfigured
<1> DEFINE d == deployment
           conf == ConnectConfig(d)
           given == {d.certArg, d.keyArg, conf.cert, conf.key}
<1>1. ASSUME \E t \in Transport : listener[t].open
      PROVE  Running
  BY <1>1 DEF StartedAsAsked, Transport
<1>2. ASSUME listener.grpc.open, given # {Blank}
      PROVE  listener.grpc.tls
  <2>1. Running
    BY <1>1, <1>2 DEF Transport
  <2>2. SecurityAccepts(d) /\ listener.grpc.tls = Encrypted(TlsPaths(d))
    BY <2>1 DEF StartedAsAsked
  <2> QED
    BY <1>2, <2>2, GivenIsEncrypted
<1>3. ASSUME listener.grpc.open, d.portArg # Blank
      PROVE  listener.grpc.port = d.portArg
  <2>1. Running
    BY <1>1, <1>3 DEF Transport
  <2>2. listener.grpc.port = Address(d)
    BY <2>1 DEF StartedAsAsked
  <2>3. Address(d) = d.portArg
    BY <1>3, FirstOfTwo DEF Address
  <2> QED
    BY <2>2, <2>3
<1>4. ASSUME listener.http.open, given \cup {conf.httpCert, conf.httpKey} # {Blank}
      PROVE  listener.http.tls
  <2>1. Running
    BY <1>1, <1>4 DEF Transport
  <2>2. /\ SecurityAccepts(d) /\ HasHttp(d)
        /\ listener.http.tls = Encrypted(HttpTlsPaths(d))
    BY <1>4, <2>1 DEF StartedAsAsked
  <2> QED
    BY <1>4, <2>2, GivenHttpIsEncrypted
<1>5. ASSUME \E t \in Transport : listener[t].open, AuthMode(d) = "ENABLED"
      PROVE  d.secrets = "some"
  <2>1. SecurityAccepts(d)
    BY <1>1, <1>5 DEF StartedAsAsked
  <2> QED
    BY <1>5, <2>1 DEF SecurityAccepts, ValidAtStartup
<1> QED
  BY <1>2, <1>3, <1>4, <1>5 DEF ServesAsConfigured
---------------------------------------------------------------------------
(* The steps *)

(* Neither the listeners nor the main coroutine move: what start-up        *)
(* accepted stands.                                                        *)
LEMMA ListenersUntouched ==
  ASSUME StartedAsAsked, UNCHANGED <<deployment, listener, mainAt>>
  PROVE  StartedAsAsked'
<1> QED
  BY DEF StartedAsAsked, Running

(* A process that is gone listens to nothing.                              *)
LEMMA DeadListensToNothing ==
  ASSUME mainAt' = "exited", listener' = [t \in Transport |-> Closed]
  PROVE  StartedAsAsked'
<1>1. listener'.grpc = Closed /\ listener'.http = Closed
      /\ listener' = [grpc |-> Closed, http |-> Closed]
  BY DEF Transport
<1>2. ~Running'
  BY DEF Running
<1>3. listener' = [grpc |-> [open |-> listener.grpc.open, tls |-> listener.grpc.tls,
                             port |-> listener.grpc.port],
                   http |-> [open |-> listener.http.open, tls |-> listener.http.tls,
                             port |-> listener.http.port]]'
  BY <1>1, Zenon DEF Closed
<1> QED
  BY <1>1, <1>2, <1>3 DEF StartedAsAsked, Closed

(* Opening or closing a listener leaves its encryption and its port; one   *)
(* that opens does so in a process whose start-up has accepted it.         *)
LEMMA ListenerMoves ==
  ASSUME StartedAsAsked, Running, Running', UNCHANGED deployment,
         NEW g, NEW h,
         listener' = [grpc |-> [open |-> g, tls |-> listener.grpc.tls,
                                port |-> listener.grpc.port],
                      http |-> [open |-> h, tls |-> listener.http.tls,
                                port |-> listener.http.port]],
         mainAt' = "http" \/ h => HasHttp(deployment)
  PROVE  StartedAsAsked'
<1>1. /\ listener'.grpc.open = g /\ listener'.http.open = h
      /\ listener'.grpc.tls = listener.grpc.tls /\ listener'.http.tls = listener.http.tls
      /\ listener'.grpc.port = listener.grpc.port /\ listener'.http.port = listener.http.port
  OBVIOUS
<1> QED
  BY <1>1 DEF StartedAsAsked

(* listener EXCEPT !.grpc.open and !.http.open, written out.               *)
LEMMA OneListenerMoves ==
  ASSUME StartedAsAsked, NEW v
  PROVE  /\ [listener EXCEPT !.grpc.open = v]
              = [grpc |-> [open |-> v, tls |-> listener.grpc.tls, port |-> listener.grpc.port],
                 http |-> [open |-> listener.http.open, tls |-> listener.http.tls,
                           port |-> listener.http.port]]
         /\ [listener EXCEPT !.http.open = v]
              = [grpc |-> [open |-> listener.grpc.open, tls |-> listener.grpc.tls,
                           port |-> listener.grpc.port],
                 http |-> [open |-> v, tls |-> listener.http.tls, port |-> listener.http.port]]
<1> PICK go, gt, gp, ho, ht, hp :
      /\ go = listener.grpc.open /\ gt = listener.grpc.tls /\ gp = listener.grpc.port
      /\ ho = listener.http.open /\ ht = listener.http.tls /\ hp = listener.http.port
  OBVIOUS
<1>1. listener = [grpc |-> [open |-> go, tls |-> gt, port |-> gp],
                  http |-> [open |-> ho, tls |-> ht, port |-> hp]]
  BY DEF StartedAsAsked
<1> QED
  BY <1>1

(* Every step keeps the listeners as they were asked for.                  *)
LEMMA StartedStep ==
  ASSUME StartedAsAsked, [ServerNext]_serverVars
  PROVE  StartedAsAsked'
<1>1. CASE StartSync
  <2>1. CASE Dies
    BY <2>1, DeadListensToNothing DEF Dies
  <2>2. CASE ~Dies
    <3>1. /\ SecurityAccepts(deployment) /\ mainAt' = "grpc" /\ deployment' = deployment
          /\ listener' = [grpc |-> [open |-> FALSE, port |-> Address(deployment),
                                    tls |-> Encrypted(TlsPaths(deployment))],
                          http |-> [open |-> FALSE, port |-> Blank,
                                    tls |-> Encrypted(HttpTlsPaths(deployment))]]
      BY <1>1, <2>2 DEF StartSync
    <3> DEFINE gt == Encrypted(TlsPaths(deployment))
               ht == Encrypted(HttpTlsPaths(deployment))
               gp == Address(deployment)
    <3>2. /\ listener' = [grpc |-> [open |-> FALSE, tls |-> gt, port |-> gp],
                          http |-> [open |-> FALSE, tls |-> ht, port |-> Blank]]
          /\ gt' = gt /\ ht' = ht /\ gp' = gp
      BY <3>1
    <3>3. /\ listener'.grpc = [open |-> FALSE, tls |-> gt, port |-> gp]
          /\ listener'.http = [open |-> FALSE, tls |-> ht, port |-> Blank]
      BY <3>2
    <3>4. Running' /\ SecurityAccepts(deployment)'
      BY <3>1 DEF Running
    <3>5. /\ listener'.grpc.open = FALSE /\ listener'.grpc.tls = gt /\ listener'.grpc.port = gp
          /\ listener'.http.open = FALSE /\ listener'.http.tls = ht /\ listener'.http.port = Blank
      BY <3>3
    <3>6. mainAt' # "http"
      BY <3>1
    <3> HIDE DEF gt, ht, gp
    <3>7. listener' = [grpc |-> [open |-> listener.grpc.open, tls |-> listener.grpc.tls,
                                 port |-> listener.grpc.port],
                       http |-> [open |-> listener.http.open, tls |-> listener.http.tls,
                                 port |-> listener.http.port]]'
      BY <3>2, <3>5, Zenon
    <3>8. /\ (listener.grpc.tls = Encrypted(TlsPaths(deployment)))'
          /\ (listener.grpc.port = Address(deployment))'
          /\ (listener.http.tls = Encrypted(HttpTlsPaths(deployment)))'
      BY <3>1, <3>5 DEF gt, ht, gp
    <3> QED
      BY <3>4, <3>5, <3>6, <3>7, <3>8 DEF StartedAsAsked
  <2> QED
    BY <2>1, <2>2
<1>2. CASE StartGrpc
  <2>1. CASE Dies
    BY <2>1, DeadListensToNothing DEF Dies
  <2>2. CASE ~Dies
    <3>1. /\ Running /\ Running' /\ deployment' = deployment
          /\ listener' = [listener EXCEPT !.grpc.open = (stopAt = "none")]
          /\ mainAt' = "http" => HasHttp(deployment)
      BY <1>2, <2>2 DEF StartGrpc, Serving, Running
    <3>2. listener.http.open => HasHttp(deployment)
      BY <3>1 DEF StartedAsAsked
    <3> PICK g : g = (stopAt = "none")
      OBVIOUS
    <3> PICK h : h = listener.http.open
      OBVIOUS
    <3>3. listener' = [grpc |-> [open |-> g, tls |-> listener.grpc.tls,
                                 port |-> listener.grpc.port],
                       http |-> [open |-> h, tls |-> listener.http.tls,
                                 port |-> listener.http.port]]
      BY <3>1, OneListenerMoves, Zenon
    <3>4. mainAt' = "http" \/ h => HasHttp(deployment)
      BY <3>1, <3>2
    <3>5. Running /\ Running' /\ UNCHANGED deployment
      BY <3>1
    <3> QED
      BY <3>3, <3>4, <3>5, ListenerMoves
  <2> QED
    BY <2>1, <2>2
<1>3. CASE StartHttp
  <2>1. CASE Dies
    BY <2>1, DeadListensToNothing DEF Dies
  <2>2. CASE ~Dies
    <3>1. /\ Running /\ Running' /\ deployment' = deployment
          /\ listener' = [listener EXCEPT !.http.open = TRUE] /\ mainAt = "http"
      BY <1>3, <2>2 DEF StartHttp, Serving, Running
    <3>2. HasHttp(deployment)
      BY <3>1 DEF StartedAsAsked
    <3> PICK h : h = TRUE
      OBVIOUS
    <3>3. listener' = [grpc |-> [open |-> listener.grpc.open, tls |-> listener.grpc.tls,
                                 port |-> listener.grpc.port],
                       http |-> [open |-> h, tls |-> listener.http.tls,
                                 port |-> listener.http.port]]
      BY <3>1, OneListenerMoves, Zenon
    <3> QED
      BY <3>1, <3>2, <3>3, ListenerMoves, Zenon
  <2> QED
    BY <2>1, <2>2
<1>4. ASSUME NEW c \in RpcCall \cup WebCall, Arrive(c) \/ Handle(c) \/ HandlerFails(c)
      PROVE  StartedAsAsked'
  BY <1>4, ListenersUntouched DEF Arrive, Handle, HandlerFails
<1>5. CASE Pass \/ PassFails \/ LoopEnds \/ WriteStarts \/ WriteEnds
  BY <1>5, ListenersUntouched DEF Pass, PassFails, LoopEnds, WriteStarts, WriteEnds
<1>6. CASE GrpcStopped \/ SchedulerStopped \/ FinalCheckpoint
  BY <1>6, ListenersUntouched DEF GrpcStopped, SchedulerStopped, FinalCheckpoint
<1>7. CASE HttpCloses
  <2>1. /\ Running /\ Running' /\ deployment' = deployment /\ mainAt' = mainAt
        /\ listener' = [listener EXCEPT !.http.open = FALSE]
    BY <1>7 DEF HttpCloses, Running
  <2>2. mainAt = "http" => HasHttp(deployment)
    BY <2>1 DEF StartedAsAsked
  <2> PICK h : h = FALSE
    BY Zenon
  <2>3. listener' = [grpc |-> [open |-> listener.grpc.open, tls |-> listener.grpc.tls,
                               port |-> listener.grpc.port],
                     http |-> [open |-> h, tls |-> listener.http.tls,
                               port |-> listener.http.port]]
    BY <2>1, OneListenerMoves, Zenon
  <2> QED
    BY <2>1, <2>2, <2>3, ListenerMoves, Zenon
<1>8. CASE Signal \/ RunWakes \/ BunchCompletes
  <2>1. /\ Running /\ Running' /\ deployment' = deployment
        /\ mainAt' = "http" => mainAt = "http"
        /\ \/ listener' = listener
           \/ listener' = [listener EXCEPT !.grpc.open = FALSE]
    BY <1>8 DEF Signal, RunWakes, BunchCompletes, Shutdown, Running
  <2>2. mainAt' = "http" \/ listener.http.open => HasHttp(deployment)
    BY <2>1 DEF StartedAsAsked
  <2>3. CASE listener' = listener
    BY <2>1, <2>2, <2>3, ListenerMoves DEF StartedAsAsked
  <2>4. CASE listener' = [listener EXCEPT !.grpc.open = FALSE]
    <3> PICK g : g = FALSE
      BY Zenon
    <3>1. listener' = [grpc |-> [open |-> g, tls |-> listener.grpc.tls,
                                 port |-> listener.grpc.port],
                       http |-> [open |-> listener.http.open, tls |-> listener.http.tls,
                                 port |-> listener.http.port]]
      BY <2>4, OneListenerMoves, Zenon
    <3> QED
      BY <2>1, <2>2, <3>1, ListenerMoves
  <2> QED
    BY <2>1, <2>3, <2>4
<1>9. CASE Exit
  BY <1>9, DeadListensToNothing DEF Exit
<1>10. CASE UNCHANGED serverVars
  BY <1>10, ListenersUntouched DEF serverVars
<1> QED
  BY <1>1, <1>2, <1>3, <1>4, <1>5, <1>6, <1>7, <1>8, <1>9, <1>10 DEF ServerNext
---------------------------------------------------------------------------
(* The order of the shutdown *)

(* Initially nothing listens and nothing has been asked to stop.           *)
LEMMA ServiceInit ==
  ASSUME ServerInit
  PROVE  ServiceInv
<1>1. StartedAsAsked
  <2>1. /\ listener = [grpc |-> Closed, http |-> Closed]
        /\ listener.grpc = Closed /\ listener.http = Closed
    BY DEF ServerInit, Transport
  <2>2. ~Running
    BY DEF ServerInit, Running
  <2> QED
    BY <2>1, <2>2, Zenon DEF StartedAsAsked, Closed
<1>2. StopsInOrder
  <2>1. ~listener.grpc.open
    BY DEF ServerInit, Transport, Closed
  <2> QED
    BY <2>1 DEF ServerInit, StopsInOrder, Alive
<1> QED
  BY <1>1, <1>2 DEF ServiceInv

(* A call that enters, is answered or fails: a gRPC call enters only       *)
(* through its listener, which closes before the shutdown waits for the    *)
(* calls inside, so that what is confirmed later came over HTTP.           *)
LEMMA CallsInOrder ==
  ASSUME StopsInOrder, NEW c \in RpcCall \cup WebCall,
         Arrive(c) \/ Handle(c) \/ HandlerFails(c)
  PROVE  StopsInOrder'
<1>1. /\ UNCHANGED <<listener, mainAt, stopAt, loopAt, shouldStop, saved, exitCode>>
      /\ Running
  BY DEF Arrive, Handle, HandlerFails
<1>2. PICK v \in {"inside", "answered", "failed"} :
        /\ callAt' = [callAt EXCEPT ![c] = v]
        /\ v = "inside" => listener[SendsTo(c)].open
  BY DEF Arrive, Handle, HandlerFails
<1>3. DOMAIN callAt' = RpcCall \cup WebCall
  BY <1>2 DEF StopsInOrder
<1>4. ASSUME stopAt \notin {"none", "grpc"}, NEW r \in RpcCall
      PROVE  callAt'[r] # "inside"
  <2>1. callAt[r] # "inside" /\ ~listener.grpc.open
    BY <1>4 DEF StopsInOrder
  <2>2. CASE r = c
    <3>1. SendsTo(c) = "grpc"
      BY <2>2 DEF SendsTo
    <3>2. v # "inside"
      BY <1>2, <2>1, <3>1
    <3> QED
      BY <1>2, <2>2, <3>2 DEF StopsInOrder
  <2>3. CASE r # c
    BY <1>2, <2>1, <2>3 DEF StopsInOrder
  <2> QED
    BY <2>2, <2>3
<1>5. ASSUME stopAt = "done"
      PROVE  (changed' \ WebCall) \subseteq saved
  <2>1. (changed \ WebCall) \subseteq saved
    BY <1>5 DEF StopsInOrder
  <2>2. CASE changed' = changed
    BY <2>1, <2>2
  <2>3. CASE Handle(c)
    <3>1. c \in WebCall
      BY <1>5, <2>3 DEF Handle, StopsInOrder
    <3> QED
      BY <2>1, <2>3, <3>1 DEF Handle
  <2> QED
    BY <2>2, <2>3 DEF Arrive, HandlerFails
<1> QED
  BY <1>1, <1>3, <1>4, <1>5 DEF StopsInOrder

(* No step undoes the order of _shutdown_once: gRPC closed and drained,    *)
(* then the loop ended, then the snapshot, then the exit.                  *)
LEMMA StopStep ==
  ASSUME ServiceInv, [ServerNext]_serverVars
  PROVE  StopsInOrder'
<1> USE DEF ServiceInv
<1>1. CASE StartSync
  <2>1. ~listener'.grpc.open
    BY <1>1 DEF StartSync, Dies, Transport, Closed
  <2>2. exitCode' # 0
    BY <1>1 DEF StartSync, Dies, StopsInOrder
  <2>3. /\ UNCHANGED <<stopAt, loopAt, shouldStop, callAt, changed, saved>>
        /\ mainAt' \in {"grpc", "exited"} /\ mainAt = "boot"
    BY <1>1 DEF StartSync, Dies
  <2> QED
    BY <2>1, <2>2, <2>3 DEF StopsInOrder
<1>2. CASE StartGrpc
  <2>1. stopAt # "none" => ~listener'.grpc.open
    <3>1. CASE Dies
      BY <3>1 DEF Dies, Transport, Closed
    <3>2. CASE ~Dies
      <4>1. listener' = [listener EXCEPT !.grpc.open = (stopAt = "none")]
        BY <1>2, <3>2 DEF StartGrpc
      <4>2. listener'.grpc.open = (stopAt = "none")
        BY <4>1, OneListenerMoves, Zenon
      <4> QED
        BY <4>2, Zenon
    <3> QED
      BY <3>1, <3>2
  <2>2. exitCode' # 0
    BY <1>2 DEF StartGrpc, Dies, StopsInOrder
  <2>3. /\ UNCHANGED <<stopAt, shouldStop, callAt, changed, saved>>
        /\ mainAt = "grpc"
        /\ mainAt' \in {"http", "serving", "exited"}
        /\ loopAt' = loopAt \/ (loopAt' = "looping" /\ mainAt' = "serving")
    BY <1>2 DEF StartGrpc, Dies, Serving
  <2>4. /\ loopAt = "absent"
        /\ stopAt \notin {"checkpoint", "done", "unsaved"}
        /\ ~(stopAt = "scheduler" /\ ~shouldStop)
    BY <2>3 DEF StopsInOrder
  <2> QED
    BY <2>1, <2>2, <2>3, <2>4 DEF StopsInOrder
<1>3. CASE StartHttp
  <2>1. stopAt # "none" => ~listener'.grpc.open
    <3>1. CASE Dies
      BY <3>1 DEF Dies, Transport, Closed
    <3>2. CASE ~Dies
      <4>1. listener' = [listener EXCEPT !.http.open = TRUE]
        BY <1>3, <3>2 DEF StartHttp
      <4>2. listener'.grpc.open = listener.grpc.open
        BY <4>1, OneListenerMoves
      <4> QED
        BY <4>2 DEF StopsInOrder
    <3> QED
      BY <3>1, <3>2
  <2>2. exitCode' # 0
    BY <1>3 DEF StartHttp, Dies, StopsInOrder
  <2>3. /\ UNCHANGED <<stopAt, shouldStop, callAt, changed, saved>>
        /\ mainAt = "http"
        /\ mainAt' \in {"serving", "exited"}
    BY <1>3 DEF StartHttp, Dies, Serving
  <2>4. /\ loopAt = "absent"
        /\ stopAt \notin {"checkpoint", "done", "unsaved"}
        /\ ~(stopAt = "scheduler" /\ ~shouldStop)
    BY <2>3 DEF StopsInOrder
  <2> QED
    BY <2>1, <2>2, <2>3, <2>4 DEF StopsInOrder
<1>4. ASSUME NEW c \in RpcCall \cup WebCall, Arrive(c) \/ Handle(c) \/ HandlerFails(c)
      PROVE  StopsInOrder'
  BY <1>4, CallsInOrder
<1>5. CASE Pass
  BY <1>5 DEF Pass, StopsInOrder
<1>6. CASE PassFails
  BY <1>6 DEF PassFails, StopsInOrder
<1>7. CASE LoopEnds
  BY <1>7 DEF LoopEnds, StopsInOrder
<1>8. CASE WriteStarts \/ WriteEnds
  BY <1>8 DEF WriteStarts, WriteEnds, StopsInOrder
<1>9. CASE HttpCloses
  <2>1. listener'.grpc.open = listener.grpc.open
    BY <1>9, OneListenerMoves DEF HttpCloses
  <2> QED
    BY <1>9, <2>1 DEF HttpCloses, StopsInOrder
<1>10. CASE Signal \/ RunWakes \/ BunchCompletes
  <2>1. /\ UNCHANGED <<loopAt, shouldStop, callAt, changed, saved, exitCode>>
        /\ mainAt' = mainAt \/ (mainAt = "serving" /\ mainAt' = "stopping")
        /\ mainAt \in {"grpc", "http", "serving"}
        /\ Shutdown
    BY <1>10 DEF Signal, RunWakes, BunchCompletes
  <2>2. CASE stopAt = "none"
    <3>1. stopAt' = "grpc" /\ ~listener'.grpc.open
      BY <2>1, <2>2, OneListenerMoves, Zenon DEF Shutdown
    <3> QED
      BY <2>1, <2>2, <3>1 DEF StopsInOrder
  <2>3. CASE stopAt # "none"
    BY <2>1, <2>3 DEF Shutdown, StopsInOrder
  <2> QED
    BY <2>2, <2>3
<1>11. CASE GrpcStopped
  <2>1. \A r \in RpcCall : callAt'[r] # "inside"
    <3> TAKE r \in RpcCall
    <3>1. callAt'[r] = IF r \in Inside("grpc") THEN "cancelled" ELSE callAt[r]
      BY <1>11 DEF GrpcStopped, StopsInOrder
    <3>2. callAt[r] = "inside" => r \in Inside("grpc")
      BY DEF Inside, SendsTo, StopsInOrder
    <3> QED
      BY <3>1, <3>2
  <2>2. DOMAIN callAt' = RpcCall \cup WebCall
    BY <1>11 DEF GrpcStopped, StopsInOrder
  <2> QED
    BY <1>11, <2>1, <2>2 DEF GrpcStopped, StopsInOrder, Running
<1>12. CASE SchedulerStopped
  BY <1>12 DEF SchedulerStopped, StopsInOrder, Running
<1>13. CASE FinalCheckpoint
  BY <1>13 DEF FinalCheckpoint, StopsInOrder, Running
<1>14. CASE Exit
  <2>1. ~listener'.grpc.open
    BY <1>14 DEF Exit, Transport, Closed
  <2> QED
    BY <1>14, <2>1 DEF Exit, StopsInOrder
<1>15. CASE UNCHANGED serverVars
  BY <1>15 DEF serverVars, StopsInOrder
<1> QED
  BY <1>1, <1>2, <1>3, <1>4, <1>5, <1>6, <1>7, <1>8, <1>9, <1>10, <1>11, <1>12,
     <1>13, <1>14, <1>15 DEF ServerNext

---------------------------------------------------------------------------
(* The results *)

(* The listeners are the ones that start-up accepted and the shutdown      *)
(* keeps its order, in every state of every process.                       *)
THEOREM ServiceInvariance == ServerSpec => []ServiceInv
<1>1. ServerInit => ServiceInv
  BY ServiceInit
<1>2. ServiceInv /\ [ServerNext]_serverVars => ServiceInv'
  BY StartedStep, StopStep DEF ServiceInv
<1> QED
  BY <1>1, <1>2, PTL DEF ServerSpec

(* Whatever mix of arguments, environment and connection file: an open     *)
(* listener is encrypted once any TLS file was given for it, has the port  *)
(* of the command line, and serves no enabled authentication without       *)
(* secrets (TaklerServer.start, _start_security).                          *)
THEOREM ListenersAsConfigured == ServerSpec => []ServesAsConfigured
<1>1. ServiceInv => ServesAsConfigured
  BY InvServesAsConfigured DEF ServiceInv
<1> QED
  BY <1>1, ServiceInvariance, PTL

(* However signals, calls, passes, failures and writes interleave, and     *)
(* with any number of clients: a process that exits with status 0 has      *)
(* saved what it confirmed over gRPC and what its scheduler changed.       *)
THEOREM CleanExitLosesNothing == ServerSpec => []ConfirmedIsSaved
<1>1. ServiceInv => ConfirmedIsSaved
  BY DEF ServiceInv, StopsInOrder, ConfirmedIsSaved
<1> QED
  BY <1>1, ServiceInvariance, PTL

=============================================================================
