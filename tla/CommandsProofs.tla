-------------------------- MODULE CommandsProofs --------------------------
(***************************************************************************)
(* Theorems about Commands, for any invocations, tasks, windows and target *)
(* lists.  CommandsInv is inductive: it says of every request and answer   *)
(* on the way what its effect was or can still be.                         *)
(***************************************************************************)
EXTENDS Commands, WellFoundedInduction, TLAPS

\* The conjuncts of the invariant that follow one invocation.
CallerOK(c) == CallShape(call[c]) /\ CallOK(c) /\ \A n \in Nat : RequestOK(c, n)

\* ExitTellsTruth of one invocation.
ExitOK(c) ==
  Done(c) /\ call[c].req.kind \in Child =>
    /\ Exit(c) \in {1, 3} =>
         effects[c] = 0 /\ \A n \in 1..call[c].tries : <<c, n>> \notin net.requests
    /\ Exit(c) = 0 =>
         \/ effects[c] = 1
         \/ call[c].tries = 0
         \/ call[c].req.kind = "init"
         \/ conf.policy = "fob"

Shapes ==
  /\ conf \in Configs
  /\ DOMAIN call = Caller /\ DOMAIN effects = Caller
  /\ net = [requests |-> net.requests, answers |-> net.answers]

\* The invariant, one invocation and one answer at a time.
LEMMA Parts ==
  CommandsInv <=> /\ Shapes
                  /\ \A c \in Caller : CallerOK(c) /\ ExitOK(c)
                  /\ \A a \in net.answers : AnswerOK(a)
  BY DEF CommandsInv, Shapes, CallerOK, ExitOK, ExitTellsTruth

\* The same of the next state.
LEMMA PartsNext ==
  CommandsInv' <=> /\ Shapes'
                   /\ \A c \in Caller : CallerOK(c)' /\ ExitOK(c)'
                   /\ \A a \in net'.answers : AnswerOK(a)'
  BY DEF CommandsInv, Shapes, CallerOK, ExitOK, ExitTellsTruth

\* The invariant before the first call.
LEMMA InitCommandsInv == Init => CommandsInv
<1> SUFFICES ASSUME Init PROVE CommandsInv
  OBVIOUS
<1>1. /\ conf \in Configs /\ call = [c \in Caller |-> Idle]
      /\ net = [requests |-> {}, answers |-> {}] /\ effects = [c \in Caller |-> 0]
  BY DEF Init
<1>2. Shapes
  BY <1>1 DEF Shapes
<1>3. ASSUME NEW c \in Caller PROVE CallerOK(c) /\ ExitOK(c)
  <2>1. /\ call[c] = Idle /\ effects[c] = 0 /\ net.requests = {}
        /\ Idle.pc = "idle" /\ Idle.tries = 0 /\ Idle.elapsed = 0
    BY <1>1 DEF Idle
  <2>2. CallShape(Idle)
    BY DEF CallShape, Idle
  <2>3. CallOK(c)
    BY <2>1 DEF CallOK
  <2> QED
    BY <2>1, <2>2, <2>3 DEF CallerOK, ExitOK, RequestOK, Done
<1>4. \A a \in net.answers : AnswerOK(a)
  BY <1>1
<1> QED
  BY <1>2, <1>3, <1>4, Parts

-----------------------------------------------------------------------------
(* Steps of the client *)

\* A step of the client in which only invocation c moves and no request but
\* one of c appears.
ClientMoves(c) ==
  /\ conf' = conf /\ effects' = effects
  /\ net' = [requests |-> net'.requests, answers |-> net'.answers]
  /\ DOMAIN call' = Caller
  /\ CallShape(call'[c]) /\ call'[c].tries \in Nat
  /\ \A d \in Caller \ {c} : call'[d] = call[d]
  /\ \A d \in Caller \ {c}, n \in Nat : <<d, n>> \in net'.requests <=> <<d, n>> \in net.requests
  /\ net'.answers \subseteq net.answers

\* It keeps what is said of the others.
LEMMA OthersKept ==
  ASSUME CommandsInv, NEW c \in Caller, ClientMoves(c)
  PROVE  /\ Shapes'
         /\ \A d \in Caller \ {c} : CallerOK(d)' /\ ExitOK(d)'
         /\ \A a \in net'.answers : a.c # c => AnswerOK(a)'
<1>1. Shapes'
  BY Parts DEF Shapes, ClientMoves
<1>2. ASSUME NEW d \in Caller \ {c} PROVE CallerOK(d)' /\ ExitOK(d)'
  <2>1. /\ call'[d] = call[d] /\ effects'[d] = effects[d] /\ conf' = conf
        /\ \A n \in Nat : <<d, n>> \in net'.requests <=> <<d, n>> \in net.requests
    BY <1>2 DEF ClientMoves
  <2>2. CallerOK(d) /\ ExitOK(d)
    BY <1>2, Parts
  <2>3. CallerOK(d)'
    BY <2>1, <2>2 DEF CallerOK, CallOK, RequestOK
  <2>4. ExitOK(d)'
    <3>1. call[d].tries \in Nat /\ 1..call[d].tries \subseteq Nat
      BY <2>2 DEF CallerOK, CallOK
    <3> QED
      BY <2>1, <2>2, <3>1 DEF ExitOK, Done, Exit
  <2> QED
    BY <2>3, <2>4
<1>3. ASSUME NEW a \in net'.answers, a.c # c PROVE AnswerOK(a)'
  <2>1. AnswerOK(a) /\ a.c \in Caller \ {c}
    BY <1>3, Parts DEF ClientMoves, AnswerOK
  <2>2. a.n \in Nat
    BY <2>1, Parts DEF AnswerOK, CallerOK, CallOK
  <2>3. /\ call'[a.c] = call[a.c] /\ effects'[a.c] = effects[a.c] /\ conf' = conf
        /\ <<a.c, a.n>> \in net'.requests <=> <<a.c, a.n>> \in net.requests
    BY <2>1, <2>2 DEF ClientMoves
  <2> QED
    BY <2>1, <2>3 DEF AnswerOK
<1> QED
  BY <1>1, <1>2, <1>3
\* What is left to show of a step of invocation c.
OwnOK(c) ==
  /\ ClientMoves(c) /\ CallerOK(c)' /\ ExitOK(c)'
  /\ \A a \in net'.answers : a.c = c => AnswerOK(a)'

\* That is all there is to show of it: the other invocations are not touched.
LEMMA OwnSuffices ==
  ASSUME CommandsInv, NEW c \in Caller, OwnOK(c)
  PROVE  CommandsInv'
<1>1. \A d \in Caller : CallerOK(d)' /\ ExitOK(d)'
  BY OthersKept DEF OwnOK
<1>2. \A a \in net'.answers : AnswerOK(a)'
  BY OthersKept DEF OwnOK
<1> QED
  BY <1>1, <1>2, OthersKept, PartsNext DEF OwnOK

\* What the invariant says of one invocation, field by field.
LEMMA Fields ==
  ASSUME CommandsInv, NEW c \in Caller
  PROVE  /\ call[c] = [pc |-> call[c].pc, req |-> call[c].req, tries |-> call[c].tries,
                       elapsed |-> call[c].elapsed, flag |-> call[c].flag]
         /\ DOMAIN call = Caller /\ DOMAIN effects = Caller
         /\ net = [requests |-> net.requests, answers |-> net.answers]
         /\ call[c].tries \in Nat /\ effects[c] \in Nat /\ effects[c] <= 1
         /\ call[c].tries = 0 => effects[c] = 0
         /\ call[c].req.kind \in ReadOnly => effects[c] = 0
         /\ call[c].req.kind \notin ReadOnly =>
              call[c].tries <= 1 /\ call[c].pc # "sleeping" /\ call[c].elapsed \in Nat
         /\ \A n \in Nat : <<c, n>> \in net.requests =>
              1 <= n /\ n <= call[c].tries /\ effects[c] = 0
         /\ \A a \in net.answers : a.c = c =>
              a.n \in Nat /\ 1 <= a.n /\ a.n <= call[c].tries /\ <<c, a.n>> \notin net.requests
  BY Parts DEF Shapes, CallerOK, CallShape, CallOK, RequestOK, AnswerOK

\* An invocation that has not called has left no trace.
LEMMA IdleFields ==
  ASSUME CommandsInv, NEW c \in Caller, call[c].pc = "idle"
  PROVE  /\ call[c] = Idle /\ effects[c] = 0
         /\ \A n \in Nat : <<c, n>> \notin net.requests
         /\ \A a \in net.answers : a.c # c
<1>1. call[c] = Idle
  BY Parts DEF CallerOK, CallOK
<1>2. call[c].tries = 0
  BY <1>1 DEF Idle
<1>3. effects[c] = 0
  BY <1>2, Fields, Zenon
<1>4. ASSUME NEW n \in Nat PROVE <<c, n>> \notin net.requests
  <2>1. <<c, n>> \in net.requests => 1 <= n /\ n <= call[c].tries
    BY <1>4, Fields, Zenon
  <2> QED
    BY <1>2, <1>4, <2>1
<1>5. ASSUME NEW a \in net.answers PROVE a.c # c
  <2>1. a.c = c => a.n \in Nat /\ 1 <= a.n /\ a.n <= call[c].tries
    BY <1>5, Fields, Zenon
  <2> QED
    BY <1>2, <2>1
<1> QED
  BY <1>1, <1>3, <1>4, <1>5

\* NO_TAKLER, or an attempt id that is missing: nothing is sent.
LEMMA UnsentKeeps ==
  ASSUME CommandsInv, NEW c \in Caller, CallIgnored(c) \/ CallInvalid(c)
  PROVE  CommandsInv'
<1>0. /\ call[c] = Idle /\ effects[c] = 0 /\ DOMAIN call = Caller
      /\ \A n \in Nat : <<c, n>> \notin net.requests
      /\ \A a \in net.answers : a.c # c
  BY IdleFields, Fields, Zenon DEF CallIgnored, CallInvalid
<1>1. /\ conf' = conf /\ effects' = effects /\ net' = net
  BY Zenon DEF CallIgnored, CallInvalid
<1>4. /\ DOMAIN call' = Caller /\ \A d \in Caller \ {c} : call'[d] = call[d]
      /\ call'[c].pc = "done" /\ call'[c].tries = 0 /\ call'[c].elapsed = 0
      /\ call'[c].flag \in {0, 15} /\ CallShape(call'[c])
  <2>1. CASE CallIgnored(c)
    <3>1. PICK k : call' = [call EXCEPT ![c] = [@ EXCEPT !.pc = "done", !.req = [kind |-> k]]]
      BY <2>1, Zenon DEF CallIgnored
    <3>2. call'[c] = [Idle EXCEPT !.pc = "done", !.req = [kind |-> k]]
      BY <1>0, <3>1
    <3> QED
      BY <1>0, <3>1, <3>2, Zenon DEF Idle, CallShape
  <2>2. CASE CallInvalid(c)
    <3>1. PICK r : call' = [call EXCEPT ![c] = [@ EXCEPT !.pc = "done", !.req = r, !.flag = 15]]
      BY <2>2, Zenon DEF CallInvalid
    <3>2. call'[c] = [Idle EXCEPT !.pc = "done", !.req = r, !.flag = 15]
      BY <1>0, <3>1
    <3> QED
      BY <1>0, <3>1, <3>2, Zenon DEF Idle, CallShape
  <2> QED
    BY <2>1, <2>2
<1>5. ClientMoves(c)
  <2>1. net = [requests |-> net.requests, answers |-> net.answers]
    BY Fields, Zenon
  <2> QED
    BY <1>1, <1>4, <2>1 DEF ClientMoves
<1>6. CallerOK(c)'
  <2>1. CallShape(call[c])'
    BY <1>5 DEF ClientMoves
  <2>2. CallOK(c)'
    BY <1>0, <1>1, <1>4 DEF CallOK
  <2> QED
    BY <1>0, <1>1, <2>1, <2>2 DEF CallerOK, RequestOK
<1>7. ExitOK(c)'
  BY <1>0, <1>1, <1>4 DEF ExitOK, Exit, ExitCode
<1>8. \A a \in net'.answers : a.c # c
  BY <1>0, <1>1
<1> QED
  BY <1>5, <1>6, <1>7, <1>8, OwnSuffices DEF OwnOK

\* The first request.
LEMMA CallKeeps ==
  ASSUME CommandsInv, NEW c \in Caller, Call(c)
  PROVE  CommandsInv'
<1>0. /\ call[c] = Idle /\ effects[c] = 0 /\ DOMAIN call = Caller
      /\ \A n \in Nat : <<c, n>> \notin net.requests
      /\ \A a \in net.answers : a.c # c
      /\ net = [requests |-> net.requests, answers |-> net.answers]
  BY IdleFields, Fields, Zenon DEF Call
<1>1. /\ conf' = conf /\ effects' = effects
      /\ net' = [net EXCEPT !.requests = @ \cup {<<c, 1>>}]
  BY DEF Call
<1>2. /\ net' = [requests |-> net'.requests, answers |-> net'.answers]
      /\ net'.requests = net.requests \cup {<<c, 1>>} /\ net'.answers = net.answers
  BY <1>0, <1>1, Zenon
<1>3. PICK r : call' = [call EXCEPT ![c] = [@ EXCEPT !.pc = "waiting", !.req = r, !.tries = 1]]
  BY Zenon DEF Call
<1>4. call'[c] = [Idle EXCEPT !.pc = "waiting", !.req = r, !.tries = 1]
  BY <1>0, <1>3
<1>5. /\ DOMAIN call' = Caller /\ \A d \in Caller \ {c} : call'[d] = call[d]
      /\ call'[c].pc = "waiting" /\ call'[c].tries = 1 /\ call'[c].elapsed = 0
      /\ CallShape(call'[c])
  BY <1>0, <1>3, <1>4, Zenon DEF Idle, CallShape
<1>6. ClientMoves(c)
  BY <1>1, <1>2, <1>5 DEF ClientMoves
<1>7. CallerOK(c)'
  <2>1. CallShape(call[c])'
    BY <1>6 DEF ClientMoves
  <2>2. CallOK(c)'
    BY <1>0, <1>1, <1>5 DEF CallOK
  <2>3. \A n \in Nat : RequestOK(c, n)'
    BY <1>0, <1>1, <1>2, <1>5 DEF RequestOK
  <2> QED
    BY <2>1, <2>2, <2>3 DEF CallerOK
<1>8. ExitOK(c)'
  BY <1>5 DEF ExitOK, Done
<1>9. \A a \in net'.answers : a.c # c
  BY <1>0, <1>2
<1> QED
  BY <1>6, <1>7, <1>8, <1>9, OwnSuffices DEF OwnOK
\* A failed attempt leaves the request as it was, and ends the invocation when
\* it may have changed the server.
LEMMA FailedFields ==
  ASSUME CommandsInv, NEW c \in Caller, NEW status, NEW took \in {0, 1},
         AttemptFailed(c, status, took)
  PROVE  /\ DOMAIN call' = Caller /\ \A d \in Caller \ {c} : call'[d] = call[d]
         /\ CallShape(call'[c])
         /\ call'[c].tries = call[c].tries /\ call'[c].req = call[c].req
         /\ call'[c].pc # "idle"
         /\ call[c].req.kind \notin ReadOnly =>
              /\ call'[c].pc = "done" /\ call'[c].elapsed \in Nat
              /\ call'[c].flag = IF Category(status) # "retryable" THEN FlagOf(status) ELSE 41
<1> DEFINE elapsed == call[c].elapsed + took
           delay   == NextDelay(call[c].req.kind, call[c].tries, elapsed)
           new     == IF Category(status) # "retryable"
                      THEN [call[c] EXCEPT !.pc = "done", !.elapsed = elapsed, !.flag = FlagOf(status)]
                      ELSE IF delay = -1
                      THEN [call[c] EXCEPT !.pc = "done", !.elapsed = elapsed, !.flag = 41]
                      ELSE [call[c] EXCEPT !.pc = "sleeping", !.elapsed = elapsed + delay]
<1>1. call' = [call EXCEPT ![c] = new]
  BY DEF AttemptFailed
<1>2. /\ DOMAIN call = Caller
      /\ call[c] = [pc |-> call[c].pc, req |-> call[c].req, tries |-> call[c].tries,
                    elapsed |-> call[c].elapsed, flag |-> call[c].flag]
      /\ call[c].req.kind \notin ReadOnly => call[c].elapsed \in Nat
  BY Fields
<1>3. call[c].req.kind \notin ReadOnly => elapsed \in Nat /\ delay = -1
  BY <1>2 DEF NextDelay, RetryWindow
<1> HIDE DEF elapsed, delay
<1>4. CASE Category(status) # "retryable"
  <2>1. new = [call[c] EXCEPT !.pc = "done", !.elapsed = elapsed, !.flag = FlagOf(status)]
    BY <1>4
  <2> HIDE DEF new
  <2> QED
    BY <1>1, <1>2, <1>3, <1>4, <2>1, Zenon DEF CallShape
<1>5. CASE Category(status) = "retryable" /\ delay = -1
  <2>1. new = [call[c] EXCEPT !.pc = "done", !.elapsed = elapsed, !.flag = 41]
    BY <1>5
  <2> HIDE DEF new
  <2> QED
    BY <1>1, <1>2, <1>3, <1>5, <2>1, Zenon DEF CallShape
<1>6. CASE Category(status) = "retryable" /\ delay # -1
  <2>1. new = [call[c] EXCEPT !.pc = "sleeping", !.elapsed = elapsed + delay]
    BY <1>6
  <2> HIDE DEF new
  <2> QED
    BY <1>1, <1>2, <1>3, <1>6, <2>1, Zenon DEF CallShape
<1> QED
  BY <1>4, <1>5, <1>6

\* The attempt of an invocation that may change the server fails and its
\* request is where it was: the exit code leaves the effect open.
LEMMA NoAnswerKeeps ==
  ASSUME CommandsInv, NEW c \in Caller, NEW status \in NoAnswerStatus, NoAnswer(c, status)
  PROVE  CommandsInv'
<1>1. PICK took \in {0, 1} : AttemptFailed(c, status, took)
  <2>1. CASE status = "DEADLINE_EXCEEDED"
    <3>1. AttemptFailed(c, status, 1)
      BY <2>1 DEF NoAnswer
    <3> QED
      BY <3>1
  <2>2. CASE status # "DEADLINE_EXCEEDED"
    <3>1. AttemptFailed(c, status, 0)
      BY <2>2 DEF NoAnswer
    <3> QED
      BY <3>1
  <2> QED
    BY <2>1, <2>2
<1>2. /\ DOMAIN call' = Caller /\ \A d \in Caller \ {c} : call'[d] = call[d]
      /\ CallShape(call'[c]) /\ call'[c].pc # "idle"
      /\ call'[c].tries = call[c].tries /\ call'[c].req = call[c].req
      /\ call[c].req.kind \notin ReadOnly =>
           /\ call'[c].pc = "done" /\ call'[c].elapsed \in Nat
           /\ call'[c].flag = IF Category(status) # "retryable" THEN FlagOf(status) ELSE 41
  BY <1>1, FailedFields
<1>3. /\ conf' = conf /\ effects' = effects
      /\ net' = [net EXCEPT !.answers = {a \in @ : a.c # c}]
  BY DEF NoAnswer
<1>4. CallerOK(c) /\ net = [requests |-> net.requests, answers |-> net.answers]
  BY Parts, Fields, Zenon
<1>5. /\ net' = [requests |-> net'.requests, answers |-> net'.answers]
      /\ net'.requests = net.requests /\ net'.answers = {a \in net.answers : a.c # c}
  BY <1>3, <1>4, Zenon
<1>6. ClientMoves(c)
  BY <1>2, <1>3, <1>4, <1>5 DEF ClientMoves, CallerOK, CallOK
<1>7. CallerOK(c)'
  <2>1. CallOK(c)'
    BY <1>2, <1>3, <1>4 DEF CallerOK, CallOK
  <2>2. \A n \in Nat : RequestOK(c, n)'
    BY <1>2, <1>3, <1>4, <1>5 DEF CallerOK, RequestOK
  <2> QED
    BY <1>2, <2>1, <2>2 DEF CallerOK
<1>8. ExitOK(c)'
  <2>1. call[c].req.kind \in Child => call[c].req.kind \notin ReadOnly
    BY DEF Child, ReadOnly
  <2>2. call[c].req.kind \in Child => call'[c].flag \in {40, 41}
    BY <1>2, <2>1 DEF NoAnswerStatus, FlagOf, Category
  <2>3. call[c].req.kind \in Child => Exit(c)' = 4
    BY <2>2 DEF Exit, ExitCode
  <2> QED
    BY <1>2, <2>3 DEF ExitOK
<1>9. \A a \in net'.answers : a.c # c
  BY <1>5
<1> QED
  BY <1>6, <1>7, <1>8, <1>9, OwnSuffices DEF OwnOK

\* A handshake that fails: the request was never sent.
LEMMA NotTrustedKeeps ==
  ASSUME CommandsInv, NEW c \in Caller, NotTrusted(c)
  PROVE  CommandsInv'
<1>2. /\ DOMAIN call' = Caller /\ \A d \in Caller \ {c} : call'[d] = call[d]
      /\ CallShape(call'[c]) /\ call'[c].pc # "idle"
      /\ call'[c].tries = call[c].tries /\ call'[c].req = call[c].req
      /\ call[c].req.kind \notin ReadOnly =>
           /\ call'[c].pc = "done" /\ call'[c].elapsed \in Nat
  BY FailedFields DEF NotTrusted
<1>3. /\ conf' = conf /\ effects' = effects /\ <<c, call[c].tries>> \in net.requests
      /\ net' = [net EXCEPT !.requests = @ \ {<<c, call[c].tries>>}]
  BY DEF NotTrusted
<1>4. CallerOK(c) /\ net = [requests |-> net.requests, answers |-> net.answers]
  BY Parts, Fields, Zenon
<1>5. /\ net' = [requests |-> net'.requests, answers |-> net'.answers]
      /\ net'.requests = net.requests \ {<<c, call[c].tries>>} /\ net'.answers = net.answers
  BY <1>3, <1>4, Zenon
<1>6. ClientMoves(c)
  BY <1>2, <1>3, <1>4, <1>5 DEF ClientMoves, CallerOK, CallOK
<1>7. CallerOK(c)'
  <2>1. CallOK(c)'
    BY <1>2, <1>3, <1>4 DEF CallerOK, CallOK
  <2>2. \A n \in Nat : RequestOK(c, n)'
    BY <1>2, <1>3, <1>4, <1>5 DEF CallerOK, RequestOK
  <2> QED
    BY <1>2, <2>1, <2>2 DEF CallerOK
<1>8. ExitOK(c)'
  <2>1. call[c].req.kind \in Child => call[c].req.kind \notin ReadOnly
    BY DEF Child, ReadOnly
  <2>2. call[c].req.kind \in Child => call'[c].flag = 15
    <3>1. Category("TLS") # "retryable" /\ FlagOf("TLS") = 15
      BY DEF Category, FlagOf
    <3> QED
      BY <2>1, <3>1, FailedFields DEF NotTrusted
  <2>3. call[c].req.kind \in Child => Exit(c)' = 1
    BY <2>2 DEF Exit, ExitCode
  <2>4. call[c].tries \in Nat /\ effects[c] = 0
    BY <1>3, <1>4 DEF CallerOK, CallOK, RequestOK
  <2>5. call[c].req.kind \in Child => \A n \in 1..call[c].tries : n = call[c].tries
    BY <2>1, <2>4, <1>4 DEF CallerOK, CallOK
  <2>6. call[c].req.kind \in Child => \A n \in 1..call[c].tries : <<c, n>> \notin net'.requests
    BY <2>5, <1>5
  <2> QED
    BY <1>2, <1>3, <2>3, <2>4, <2>6 DEF ExitOK
<1>9. ASSUME NEW a \in net'.answers, a.c = c PROVE AnswerOK(a)'
  <2>1. AnswerOK(a)
    BY <1>5, <1>9, Parts
  <2> QED
    BY <1>2, <1>3, <1>5, <1>9, <2>1 DEF AnswerOK
<1> QED
  BY <1>6, <1>7, <1>8, <1>9, OwnSuffices DEF OwnOK
\* Only what reads is sent again.
LEMMA ResendKeeps ==
  ASSUME CommandsInv, NEW c \in Caller, Resend(c)
  PROVE  CommandsInv'
<1>1. /\ call[c] = [pc |-> call[c].pc, req |-> call[c].req, tries |-> call[c].tries,
                    elapsed |-> call[c].elapsed, flag |-> call[c].flag]
      /\ DOMAIN call = Caller /\ net = [requests |-> net.requests, answers |-> net.answers]
      /\ call[c].tries \in Nat /\ CallerOK(c)
  BY Fields, Parts
<1>2. /\ call[c].req.kind \in ReadOnly /\ effects[c] = 0
  BY <1>1 DEF Resend, CallerOK, CallOK
<1>3. /\ conf' = conf /\ effects' = effects
      /\ net' = [net EXCEPT !.requests = @ \cup {<<c, call[c].tries + 1>>}]
      /\ call' = [call EXCEPT ![c].pc = "waiting", ![c].tries = @ + 1]
  BY DEF Resend
<1>4. /\ DOMAIN call' = Caller /\ \A d \in Caller \ {c} : call'[d] = call[d]
      /\ CallShape(call'[c]) /\ call'[c].pc = "waiting"
      /\ call'[c].tries = call[c].tries + 1 /\ call'[c].req = call[c].req
  BY <1>1, <1>3 DEF CallShape
<1>5. /\ net' = [requests |-> net'.requests, answers |-> net'.answers]
      /\ net'.requests = net.requests \cup {<<c, call[c].tries + 1>>} /\ net'.answers = net.answers
  BY <1>1, <1>3
<1>6. ClientMoves(c)
  BY <1>1, <1>3, <1>4, <1>5 DEF ClientMoves
<1>7. CallerOK(c)'
  <2>1. CallOK(c)'
    BY <1>1, <1>2, <1>3, <1>4 DEF CallOK
  <2>2. ASSUME NEW n \in Nat, <<c, n>> \in net'.requests
        PROVE  n \in 1..call'[c].tries
    <3>1. CASE n = call[c].tries + 1
      BY <1>1, <1>4, <3>1
    <3>2. CASE <<c, n>> \in net.requests
      <4>1. n \in 1..call[c].tries
        BY <1>1, <2>2, <3>2 DEF CallerOK, RequestOK
      <4> QED
        BY <1>1, <1>4, <4>1
    <3> QED
      BY <1>5, <2>2, <3>1, <3>2
  <2>3. \A n \in Nat : RequestOK(c, n)'
    BY <1>2, <1>3, <2>2, Zenon DEF RequestOK
  <2> QED
    BY <1>4, <2>1, <2>3 DEF CallerOK
<1>8. ExitOK(c)'
  BY <1>4 DEF ExitOK, Done
<1>9. ASSUME NEW a \in net'.answers, a.c = c PROVE AnswerOK(a)'
  <2>1. AnswerOK(a)
    BY <1>5, <1>9, Parts
  <2>2. a.n \in 1..call[c].tries
    BY <1>9, <2>1 DEF AnswerOK
  <2>3. a.n # call[c].tries + 1 /\ a.n \in 1..call'[c].tries
    BY <1>1, <1>4, <2>2
  <2>4. <<c, a.n>> \notin net'.requests
    BY <1>5, <1>9, <2>1, <2>3 DEF AnswerOK
  <2>5. call[c].req.kind \notin Child
    BY <1>2 DEF ReadOnly, Child
  <2> QED
    BY <1>3, <1>4, <1>9, <2>1, <2>3, <2>4, <2>5 DEF AnswerOK
<1> QED
  BY <1>6, <1>7, <1>8, <1>9, OwnSuffices DEF OwnOK

\* The answer of the attempt that waits ends the invocation with what it says.
LEMMA ReceivedFields ==
  ASSUME CommandsInv, NEW c \in Caller, NEW a \in net.answers, AnswerOK(a),
         IF a.status = "OK" THEN Ends(c, a.flag) ELSE AttemptFailed(c, a.status, 0)
  PROVE  /\ DOMAIN call' = Caller /\ \A d \in Caller \ {c} : call'[d] = call[d]
         /\ CallShape(call'[c]) /\ call'[c].pc # "idle"
         /\ call'[c].tries = call[c].tries /\ call'[c].req = call[c].req
         /\ call[c].req.kind \notin ReadOnly =>
              /\ call'[c].pc = "done" /\ call'[c].elapsed \in Nat
              /\ call'[c].flag = IF a.status = "OK" THEN a.flag ELSE 43
<1>1. CASE a.status = "OK"
  <2>1. /\ call[c] = [pc |-> call[c].pc, req |-> call[c].req, tries |-> call[c].tries,
                      elapsed |-> call[c].elapsed, flag |-> call[c].flag]
        /\ DOMAIN call = Caller
        /\ call[c].req.kind \notin ReadOnly => call[c].elapsed \in Nat
    BY Fields
  <2>2. call' = [call EXCEPT ![c].pc = "done", ![c].flag = a.flag]
    BY <1>1 DEF Ends
  <2> QED
    BY <1>1, <2>1, <2>2, Zenon DEF CallShape
<1>2. CASE a.status # "OK"
  <2>1. a.status = "UNAUTHENTICATED" /\ AttemptFailed(c, a.status, 0)
    BY <1>2 DEF AnswerOK
  <2>2. Category("UNAUTHENTICATED") # "retryable" /\ FlagOf("UNAUTHENTICATED") = 43
    BY DEF Category, FlagOf
  <2> QED
    BY <1>2, <2>1, <2>2, FailedFields
<1> QED
  BY <1>1, <1>2

\* An answer of the current attempt ends the invocation or leads to a retry.
LEMMA ReceiveKeeps ==
  ASSUME CommandsInv, NEW c \in Caller, Receive(c)
  PROVE  CommandsInv'
<1>1. PICK a \in net.answers :
        /\ a.c = c /\ a.n = call[c].tries
        /\ IF a.status = "OK" THEN Ends(c, a.flag) ELSE AttemptFailed(c, a.status, 0)
        /\ net' = [net EXCEPT !.answers = @ \ {a}]
  BY Zenon DEF Receive
<1>a. AnswerOK(a)
  BY Parts
<1>2. /\ DOMAIN call' = Caller /\ \A d \in Caller \ {c} : call'[d] = call[d]
      /\ CallShape(call'[c]) /\ call'[c].pc # "idle"
      /\ call'[c].tries = call[c].tries /\ call'[c].req = call[c].req
      /\ call[c].req.kind \notin ReadOnly =>
           /\ call'[c].pc = "done" /\ call'[c].elapsed \in Nat
           /\ call'[c].flag = IF a.status = "OK" THEN a.flag ELSE 43
  BY <1>1, <1>a, ReceivedFields
<1>3. conf' = conf /\ effects' = effects
  BY DEF Receive
<1>4. CallerOK(c) /\ net = [requests |-> net.requests, answers |-> net.answers]
  BY Parts, Fields, Zenon
<1>5. /\ net' = [requests |-> net'.requests, answers |-> net'.answers]
      /\ net'.requests = net.requests /\ net'.answers = net.answers \ {a}
  BY <1>1, <1>4
<1>6. ClientMoves(c)
  BY <1>2, <1>3, <1>4, <1>5 DEF ClientMoves, CallerOK, CallOK
<1>7. CallerOK(c)'
  <2>1. CallOK(c)'
    BY <1>2, <1>3, <1>4 DEF CallerOK, CallOK
  <2>2. \A n \in Nat : RequestOK(c, n)'
    BY <1>2, <1>3, <1>4, <1>5 DEF CallerOK, RequestOK
  <2> QED
    BY <1>2, <2>1, <2>2 DEF CallerOK
<1>8. ExitOK(c)'
  <2> SUFFICES ASSUME call[c].req.kind \in Child PROVE ExitOK(c)'
    BY <1>2 DEF ExitOK
  <2>1. call[c].req.kind \notin ReadOnly
    BY DEF Child, ReadOnly
  <2>2. call'[c].flag = IF a.status = "OK" THEN a.flag ELSE 43
    BY <1>2, <2>1
  <2>3. IF a.status = "OK" /\ a.flag = 0
        THEN effects[c] = 1 \/ call[c].req.kind = "init" \/ conf.policy = "fob"
        ELSE effects[c] = 0 /\ (a.status = "OK" => a.flag \in {31, 32})
    BY <1>1, <1>a DEF AnswerOK
  <2>4. call[c].tries \in Nat /\ call[c].tries <= 1 /\ <<c, call[c].tries>> \notin net.requests
    BY <1>1, <1>a, <1>4, <2>1 DEF CallerOK, CallOK, AnswerOK
  <2>5. \A n \in 1..call[c].tries : n = call[c].tries
    BY <2>4
  <2>6. \A n \in 1..call[c].tries : <<c, n>> \notin net'.requests
    BY <2>4, <2>5, <1>5
  <2>7. CASE a.status = "OK" /\ a.flag = 0
    <3>1. Exit(c)' = 0
      BY <2>2, <2>7 DEF Exit, ExitCode
    <3> QED
      BY <1>2, <1>3, <2>3, <2>7, <3>1 DEF ExitOK
  <2>8. CASE ~(a.status = "OK" /\ a.flag = 0)
    <3>1. effects[c] = 0 /\ call'[c].flag \in {31, 32, 43}
      BY <2>2, <2>3, <2>8
    <3>2. Exit(c)' # 0
      BY <3>1 DEF Exit, ExitCode
    <3> QED
      BY <1>2, <1>3, <2>6, <3>1, <3>2 DEF ExitOK
  <2> QED
    BY <2>7, <2>8
<1>9. ASSUME NEW b \in net'.answers, b.c = c PROVE AnswerOK(b)'
  <2>1. AnswerOK(b)
    BY <1>5, <1>9, Parts
  <2> QED
    BY <1>2, <1>3, <1>5, <1>9, <2>1 DEF AnswerOK
<1> QED
  BY <1>6, <1>7, <1>8, <1>9, OwnSuffices DEF OwnOK
-----------------------------------------------------------------------------
(* Steps of the server *)

\* What the server does with a request of c: one answer, and k effects.
Answered(c, n, status, flag, k) ==
  /\ <<c, n>> \in net.requests /\ k \in {0, 1}
  /\ conf' = conf /\ call' = call /\ Answer(c, n, status, flag)
  /\ DOMAIN effects' = DOMAIN effects /\ effects'[c] = effects[c] + k
  /\ \A d \in Caller \ {c} : effects'[d] = effects[d]
  /\ status \in {"OK", "UNAUTHENTICATED"}
  /\ call[c].req.kind \in ReadOnly => k = 0
  /\ call[c].req.kind \in Child =>
       IF status = "OK" /\ flag = 0
       THEN k = 1 \/ call[c].req.kind = "init" \/ conf.policy = "fob"
       ELSE k = 0 /\ (status = "OK" => flag \in {31, 32})

\* A request on the way is the first trace of its invocation: answering it
\* keeps the invariant.
LEMMA AnsweredKeeps ==
  ASSUME CommandsInv, NEW c \in Caller, NEW n \in Nat, NEW status, NEW flag, NEW k,
         Answered(c, n, status, flag, k)
  PROVE  CommandsInv'
<1>1. /\ <<c, n>> \in net.requests /\ k \in {0, 1} /\ conf' = conf /\ call' = call
      /\ call[c].req.kind \in ReadOnly => k = 0
  BY DEF Answered
<1> DEFINE new == [c |-> c, n |-> n, status |-> status, flag |-> flag]
<1>2. /\ net' = [requests |-> net'.requests, answers |-> net'.answers]
      /\ net'.requests = net.requests \ {<<c, n>>} /\ net'.answers = net.answers \cup {new}
  BY DEF Answered, Answer
<1>3. /\ DOMAIN call = Caller /\ DOMAIN effects = Caller /\ effects[c] = 0
      /\ call[c].tries \in Nat /\ 1 <= n /\ n <= call[c].tries
  BY <1>1, Fields, Zenon
<1>4. DOMAIN effects' = Caller /\ effects'[c] = k /\ \A d \in Caller \ {c} : effects'[d] = effects[d]
  BY <1>3, <1>1 DEF Answered
<1>5. Shapes'
  BY <1>1, <1>2, <1>3, <1>4, Parts DEF Shapes
<1>6. call[c].req.kind \notin ReadOnly => call[c].tries = 1 /\ n = 1
  BY <1>3, Fields
<1>7. ASSUME NEW d \in Caller, d # c PROVE CallerOK(d)' /\ ExitOK(d)'
  <2>1. effects'[d] = effects[d] /\ \A m : <<d, m>> \in net'.requests <=> <<d, m>> \in net.requests
    BY <1>2, <1>4, <1>7
  <2>2. CallerOK(d) /\ ExitOK(d)
    BY Parts
  <2>3. CallerOK(d)'
    BY <1>1, <2>1, <2>2 DEF CallerOK, CallOK, RequestOK
  <2>4. ExitOK(d)'
    BY <1>1, <2>1, <2>2 DEF ExitOK, Done, Exit
  <2> QED
    BY <2>3, <2>4
<1>8. CallerOK(c)'
  <2>1. CallerOK(c)
    BY Parts
  <2>2. CallOK(c)'
    BY <1>1, <1>3, <1>4, <2>1 DEF CallerOK, CallOK
  <2>3. ASSUME NEW m \in Nat, <<c, m>> \in net'.requests PROVE m \in 1..call[c].tries /\ k = 0
    <3>1. <<c, m>> \in net.requests /\ m # n
      BY <1>2, <2>3
    <3>2. 1 <= m /\ m <= call[c].tries
      BY <3>1, Fields, Zenon
    <3>3. call[c].req.kind \in ReadOnly
      BY <1>6, <3>1, <3>2
    <3> QED
      BY <1>1, <1>3, <3>2, <3>3
  <2>4. \A m \in Nat : RequestOK(c, m)'
    BY <1>1, <1>4, <2>3 DEF RequestOK
  <2> QED
    BY <1>1, <2>1, <2>2, <2>4 DEF CallerOK
<1>9. ExitOK(c)'
  <2>1. ExitOK(c) /\ n \in 1..call[c].tries
    BY <1>3, Parts
  <2>2. Done(c) /\ call[c].req.kind \in Child => Exit(c) \notin {1, 3}
    BY <1>1, <2>1 DEF ExitOK
  <2>3. Done(c) /\ call[c].req.kind \in Child /\ Exit(c) = 0 =>
          call[c].req.kind = "init" \/ conf.policy = "fob"
    BY <1>3, <2>1 DEF ExitOK
  <2> QED
    BY <1>1, <2>2, <2>3 DEF ExitOK, Done, Exit
<1>10. ASSUME NEW a \in net'.answers PROVE AnswerOK(a)'
  <2>1. CASE a = new
    <3>1. a.c = c /\ a.n = n /\ a.status = status /\ a.flag = flag
      BY <2>1
    <3> HIDE DEF new
    <3>2. a.n \in 1..call[c].tries /\ <<c, n>> \notin net'.requests
      BY <1>2, <1>3, <3>1
    <3> QED
      BY <1>1, <1>4, <3>1, <3>2 DEF AnswerOK, Answered
  <2>2. CASE a \in net.answers /\ a.c # c
    <3>1. AnswerOK(a) /\ a.c \in Caller
      BY <2>2, Parts DEF AnswerOK
    <3>2. effects'[a.c] = effects[a.c] /\ <<a.c, a.n>> \notin net'.requests
      BY <1>2, <1>4, <2>2, <3>1 DEF AnswerOK
    <3> QED
      BY <1>1, <3>1, <3>2 DEF AnswerOK
  <2>3. CASE a \in net.answers /\ a.c = c
    <3>1. AnswerOK(a)
      BY <2>3, Parts
    <3>2. a.n \in 1..call[c].tries /\ <<c, a.n>> \notin net.requests
      BY <2>3, <3>1 DEF AnswerOK
    <3>3. a.n # n
      BY <1>1, <3>2
    <3>4. call[c].req.kind \in ReadOnly
      BY <1>3, <1>6, <3>2, <3>3
    <3>5. k = 0 /\ call[c].req.kind \notin Child
      BY <1>1, <3>4 DEF ReadOnly, Child
    <3>6. <<c, a.n>> \notin net'.requests
      BY <1>2, <3>2
    <3> QED
      BY <1>1, <2>3, <3>1, <3>5, <3>6 DEF AnswerOK
  <2> QED
    BY <1>2, <2>1, <2>2, <2>3
<1> QED
  BY <1>5, <1>7, <1>8, <1>9, <1>10, PartsNext

\* What a decision on a report says is what it does.
LEMMA DecisionTells ==
  ASSUME NEW r, conf.policy \in {"fail", "fob", "adopt"}
  PROVE  /\ Decision(r).act = "proceed" => Decision(r).flag = 0
         /\ Decision(r).act # "proceed" /\ Decision(r).flag = 0 => r.kind = "init" \/ conf.policy = "fob"
         /\ Decision(r).flag \in {0, 31, 32}
<1>1. Guarded(r).act = "skip" => conf.policy = "fob"
  BY DEF Guarded, Disposed
<1>2. Guarded(r).act \in {"proceed", "refuse", "skip"}
  BY DEF Guarded, Disposed
<1> QED
  BY <1>1, <1>2 DEF Decision
\* The configuration does not change and its policy is one of three.
LEMMA PolicyKnown == CommandsInv => conf.policy \in {"fail", "fob", "adopt"}
  BY Parts, ConfigAssumption DEF Shapes

\* The server refuses or handles a request, each at most once.
LEMMA ServerKeeps ==
  ASSUME CommandsInv, NEW c \in Caller, NEW n \in Nat,
         Refuse(c, n) \/ HandlePing(c, n) \/ HandleChild(c, n) \/ HandleRun(c, n)
  PROVE  CommandsInv'
<1>0. /\ DOMAIN effects = Caller /\ effects[c] \in Nat
      /\ effects' = effects =>
           /\ DOMAIN effects' = DOMAIN effects /\ effects'[c] = effects[c] + 0
           /\ \A d \in Caller \ {c} : effects'[d] = effects[d]
  <2>1. DOMAIN effects = Caller /\ effects[c] \in Nat
    BY Fields, Zenon
  <2>2. effects[c] + 0 = effects[c]
    BY <2>1
  <2> QED
    BY <2>1, <2>2, Zenon
<1>1. CASE Refuse(c, n)
  <2>1. call[c].req.kind \notin ReadOnly
    BY <1>1 DEF Refuse, GateStatus, Privilege, ReadOnly, Child
  <2>2. GateStatus(call[c].req) = "UNAUTHENTICATED"
    BY <1>1 DEF Refuse, GateStatus
  <2>3. Answered(c, n, "UNAUTHENTICATED", 0, 0)
    BY <1>0, <1>1, <2>2 DEF Refuse, Answered
  <2> QED
    BY <2>3, AnsweredKeeps
<1>2. CASE HandlePing(c, n)
  <2>1. call[c].req.kind \notin Child
    BY <1>2 DEF HandlePing, ReadOnly, Child
  <2>2. Answered(c, n, "OK", 0, 0)
    BY <1>0, <1>2, <2>1 DEF HandlePing, Answered
  <2> QED
    BY <2>2, AnsweredKeeps
<1>3. CASE HandleChild(c, n)
  <2> DEFINE r == call[c].req
             d == Decision(r)
             k == IF d.act = "proceed" THEN 1 ELSE 0
  <2>1. /\ <<c, n>> \in net.requests /\ r.kind \in Child /\ conf' = conf /\ call' = call
        /\ effects' = [effects EXCEPT ![c] = @ + k] /\ Answer(c, n, "OK", d.flag)
    BY <1>3 DEF HandleChild
  <2>2. /\ d.act = "proceed" => d.flag = 0
        /\ d.act # "proceed" /\ d.flag = 0 => r.kind = "init" \/ conf.policy = "fob"
        /\ d.flag \in {0, 31, 32}
    BY DecisionTells, PolicyKnown
  <2>3. r.kind \notin ReadOnly
    BY <2>1 DEF ReadOnly, Child
  <2>4. k \in {0, 1} /\ (k = 1 <=> d.act = "proceed")
    OBVIOUS
  <2> HIDE DEF r, d, k
  <2>5. Answered(c, n, "OK", d.flag, k)
    BY <1>0, <2>1, <2>2, <2>3, <2>4 DEF Answered, r
  <2> QED
    BY <2>5, AnsweredKeeps
<1>4. CASE HandleRun(c, n)
  <2>1. PICK x, flag :
          /\ effects' = [effects EXCEPT ![c] = @ + (IF x.task # task THEN 1 ELSE 0)]
          /\ Answer(c, n, "OK", flag)
    BY <1>4, Zenon DEF HandleRun
  <2> DEFINE k == IF x.task # task THEN 1 ELSE 0
  <2>2. k \in {0, 1} /\ effects' = [effects EXCEPT ![c] = @ + k]
    BY <2>1
  <2> HIDE DEF k
  <2>3. /\ <<c, n>> \in net.requests /\ conf' = conf /\ call' = call
        /\ call[c].req.kind \notin ReadOnly /\ call[c].req.kind \notin Child
    BY <1>4, Zenon DEF HandleRun, ReadOnly, Child
  <2>4. Answered(c, n, "OK", flag, k)
    BY <1>0, <2>1, <2>2, <2>3 DEF Answered
  <2> QED
    BY <2>4, AnsweredKeeps
<1> QED
  BY <1>1, <1>2, <1>3, <1>4

\* CommandsInv is inductive.
LEMMA NextCommandsInv == CommandsInv /\ [Next]_vars => CommandsInv'
<1> SUFFICES ASSUME CommandsInv, [Next]_vars PROVE CommandsInv'
  OBVIOUS
<1>1. CASE UNCHANGED vars \/ Start
  <2>1. conf' = conf /\ call' = call /\ net' = net /\ effects' = effects
    BY <1>1 DEF vars, Start
  <2> QED
    BY <2>1 DEF CommandsInv, CallShape, CallOK, RequestOK, AnswerOK, ExitTellsTruth, Done, Exit
<1>2. CASE \E c \in Caller : CallIgnored(c) \/ CallInvalid(c)
  BY <1>2, UnsentKeeps
<1>3. CASE \E c \in Caller : Call(c)
  BY <1>3, CallKeeps
<1>4. CASE \E c \in Caller : \E status \in NoAnswerStatus : NoAnswer(c, status)
  BY <1>4, NoAnswerKeeps
<1>5. CASE \E c \in Caller : NotTrusted(c)
  BY <1>5, NotTrustedKeeps
<1>6. CASE \E c \in Caller : Resend(c)
  BY <1>6, ResendKeeps
<1>7. CASE \E c \in Caller : Receive(c)
  BY <1>7, ReceiveKeeps
<1>8. CASE \E c \in Caller : \E n \in 1..call[c].tries :
             Refuse(c, n) \/ HandlePing(c, n) \/ HandleChild(c, n) \/ HandleRun(c, n)
  <2>1. PICK c \in Caller : \E n \in 1..call[c].tries :
             Refuse(c, n) \/ HandlePing(c, n) \/ HandleChild(c, n) \/ HandleRun(c, n)
    BY <1>8
  <2>2. 1..call[c].tries \subseteq Nat
    BY Fields
  <2> QED
    BY <2>1, <2>2, ServerKeeps
<1> QED
  BY <1>1, <1>2, <1>3, <1>4, <1>5, <1>6, <1>7, <1>8 DEF Next

-----------------------------------------------------------------------------
(* The theorems *)

\* Of every request and answer on the way it is known what its effect was or
\* can still be, for any invocations, tasks, windows and configurations.
THEOREM CommandsInvariance == Spec => []CommandsInv
<1>1. Init => CommandsInv
  BY InitCommandsInv
<1>2. CommandsInv /\ [Next]_vars => CommandsInv'
  BY NextCommandsInv
<1> QED
  BY <1>1, <1>2, PTL DEF Spec

\* One invocation of the client changes the server at most once, whatever is
\* lost, delayed or refused on the way (retry_window = 0 in both transports).
THEOREM AtMostOnce == Spec => []AppliedAtMostOnce
<1>1. CommandsInv => AppliedAtMostOnce
  <2> SUFFICES ASSUME CommandsInv PROVE AppliedAtMostOnce
    OBVIOUS
  <2> QED
    BY Fields, Zenon DEF AppliedAtMostOnce
<1> QED
  BY <1>1, CommandsInvariance, PTL

\* The exit code of a report tells the job what became of it: 0 that it was
\* taken or ignored on purpose, 1 and 3 that it had and will have no effect.
THEOREM ExitCodeTellsTruth == Spec => []ExitTellsTruth
<1>1. CommandsInv => ExitTellsTruth
  BY DEF CommandsInv
<1> QED
  BY <1>1, CommandsInvariance, PTL
-----------------------------------------------------------------------------
(* Batches *)

\* A set of numbers that is not empty has a least one.
LEMMA LeastNumber ==
  ASSUME NEW T, T \subseteq Nat, T # {}
  PROVE  \E x \in T : \A y \in T : x <= y
<1> DEFINE R == OpToRel(<, Nat)
<1>1. IsWellFoundedOn(R, Nat)
  BY NatLessThanWellFounded, Zenon
<1>2. R = {ss \in Nat \X Nat : ss[1] < ss[2]}
  BY DEF OpToRel
<1> HIDE DEF R
<1>3. PICK x \in T : \A y \in T : ~ (<<y, x>> \in R)
  BY <1>1, WFMin, Zenon
<1>4. ASSUME NEW y \in T PROVE x <= y
  <2>1. x \in Nat /\ y \in Nat /\ <<y, x>> \notin R
    BY <1>3
  <2> QED
    BY <2>1, <1>2
<1> QED
  BY <1>4

\* An item that tells the truth keeps what a batch works on.
LEMMA ItemKeeps ==
  ASSUME NEW x, NEW y, NEW flag \in {0, 11, 14, 30, 99}, WorkOK(y),
         NEW effect \in {"none", "applied", "partial", "unknown"},
         effect = "none" => x.task = y.task,
         effect \in {"applied", "partial"} => x.task # y.task,
         effect = "unknown" => flag \notin {0, 11}
  PROVE  WorkOK(Item(x, y, flag, effect))
<1> DEFINE item == [flag |-> flag, effect |-> effect, changed |-> x.task # y.task]
           z == Item(x, y, flag, effect)
<1>1. item \in TrueItem
  BY Zenon DEF TrueItem
<1>2. z = [y EXCEPT !.results = Append(@, item)]
  BY DEF Item
<1> HIDE DEF item
<1>3. Append(y.results, item) \in Seq(TrueItem)
  BY <1>1 DEF WorkOK
<1>4. /\ z = [task |-> z.task, issued |-> z.issued, results |-> z.results]
      /\ z.task = y.task /\ z.issued = y.issued /\ z.results = Append(y.results, item)
  BY <1>2, Zenon DEF WorkOK
<1> HIDE DEF z
<1>5. WorkOK(z)
  BY <1>3, <1>4 DEF WorkOK
<1> QED
  BY <1>5 DEF z

\* Task.increment_try_no of one task.
LEMMA NewAttempt ==
  ASSUME NEW old, NEW last, TaskOK(old, last), NEW status, NEW new,
         new = [old EXCEPT !.status = status, !.attempt = last + 1,
                           !.password = last + 1, !.rid = NoRid]
  PROVE  TaskOK(new, last + 1) /\ new.attempt # old.attempt
<1>1. /\ old = [status |-> old.status, attempt |-> old.attempt, password |-> old.password,
                rid |-> old.rid, event |-> old.event]
      /\ old.attempt = last /\ last \in Nat
  BY DEF TaskOK
<1>2. new = [status |-> status, attempt |-> last + 1, password |-> last + 1, rid |-> NoRid,
             event |-> old.event]
  BY <1>1, Zenon
<1>3. last + 1 \in Nat /\ last + 1 # last
  BY <1>1
<1> QED
  BY <1>1, <1>2, <1>3, Zenon DEF TaskOK

\* A new attempt of a target changes the tasks, and leaves the target in the
\* last attempt drawn for it.
LEMMA AttemptedKeeps ==
  ASSUME NEW x, WorkOK(x), NEW t \in Task, NEW status
  PROVE  WorkOK(Attempted(x, t, status)) /\ Attempted(x, t, status).task # x.task
<1> DEFINE y == Attempted(x, t, status)
           new == [x.task[t] EXCEPT !.status = status, !.attempt = x.issued[t] + 1,
                                    !.password = x.issued[t] + 1, !.rid = NoRid]
<1>1. /\ x = [task |-> x.task, issued |-> x.issued, results |-> x.results]
      /\ x.task = [u \in Task |-> x.task[u]] /\ x.issued = [u \in Task |-> x.issued[u]]
      /\ \A u \in Task : TaskOK(x.task[u], x.issued[u])
      /\ x.results \in Seq(TrueItem)
  BY DEF WorkOK
<1>2. y = [x EXCEPT !.task[t] = new, !.issued[t] = @ + 1]
  BY DEF Attempted
<1>3. TaskOK(new, x.issued[t] + 1) /\ new.attempt # x.task[t].attempt
  <2>1. TaskOK(x.task[t], x.issued[t])
    BY <1>1
  <2> QED
    BY <2>1, NewAttempt, Zenon
<1> HIDE DEF new
<1>4. /\ y = [task |-> y.task, issued |-> y.issued, results |-> y.results]
      /\ y.results = x.results
      /\ y.task = [x.task EXCEPT ![t] = new] /\ y.issued = [x.issued EXCEPT ![t] = @ + 1]
  BY <1>1, <1>2, Zenon
<1> HIDE DEF y
<1>5. /\ y.task = [u \in Task |-> y.task[u]] /\ y.issued = [u \in Task |-> y.issued[u]]
      /\ y.task[t] = new /\ y.issued[t] = x.issued[t] + 1
      /\ \A u \in Task \ {t} : y.task[u] = x.task[u] /\ y.issued[u] = x.issued[u]
  BY <1>1, <1>4
<1>6. WorkOK(y)
  <2>1. \A u \in Task : TaskOK(y.task[u], y.issued[u])
    BY <1>1, <1>3, <1>5
  <2> QED
    BY <1>1, <1>4, <1>5, <2>1 DEF WorkOK
<1>7. y.task # x.task
  BY <1>3, <1>5
<1> QED
  BY <1>6, <1>7 DEF y

\* One target of a batch.
LEMMA RunTargetKeeps ==
  ASSUME NEW x, WorkOK(x), NEW target \in Task \cup {Missing}, NEW luck \in Luck,
         NEW seen \in BOOLEAN
  PROVE  WorkOK(RunTarget(x, target, luck, seen))
<1>1. CASE target = Missing
  <2>1. WorkOK(Item(x, x, 11, "none"))
    BY ItemKeeps
  <2> QED
    BY <1>1, <2>1 DEF RunTarget
<1>2. CASE target # Missing /\ x.task[target].status \in InFlight
  <2>1. FailureEffect(14, seen, FALSE) = "none" \/ FailureEffect(14, seen, FALSE) = "unknown"
    BY DEF FailureEffect
  <2>2. WorkOK(Item(x, x, 14, "none")) /\ WorkOK(Item(x, x, 14, "unknown"))
    BY ItemKeeps
  <2> QED
    BY <1>2, <2>1, <2>2, Zenon DEF RunTarget
<1>3. CASE target # Missing /\ x.task[target].status \notin InFlight
  <2> DEFINE y == Attempted(x, target, IF luck = "accepted" THEN "submitted" ELSE "aborted")
  <2>1. WorkOK(y) /\ x.task # y.task
    BY <1>3, AttemptedKeeps
  <2>2. RunTarget(x, target, luck, seen) =
          CASE luck = "accepted" -> Item(x, y, 0, "applied")
            [] luck = "failed"   -> Item(x, y, 30, FailureEffect(30, seen, TRUE))
            [] luck = "crashed"  -> Item(x, y, 99, FailureEffect(99, seen, TRUE))
    BY <1>3, Zenon DEF RunTarget
  <2> HIDE DEF y
  <2>3. CASE luck = "accepted"
    <3>1. WorkOK(Item(x, y, 0, "applied"))
      BY <2>1, ItemKeeps
    <3> QED
      BY <2>2, <2>3, <3>1
  <2>4. CASE luck = "failed"
    <3>1. FailureEffect(30, seen, TRUE) = "partial" \/ FailureEffect(30, seen, TRUE) = "unknown"
      BY DEF FailureEffect
    <3>2. WorkOK(Item(x, y, 30, "partial")) /\ WorkOK(Item(x, y, 30, "unknown"))
      BY <2>1, ItemKeeps
    <3> QED
      BY <2>2, <2>4, <3>1, <3>2, Zenon
  <2>5. CASE luck = "crashed"
    <3>1. FailureEffect(99, seen, TRUE) = "unknown"
      BY DEF FailureEffect
    <3>2. WorkOK(Item(x, y, 99, "unknown"))
      BY <2>1, ItemKeeps
    <3> QED
      BY <2>2, <2>5, <3>1, <3>2, Zenon
  <2> QED
    BY <2>3, <2>4, <2>5 DEF Luck
<1> QED
  BY <1>1, <1>2, <1>3
\* One turn of the loop of batch_targets, and a run of m turns.
Turn(targets, luck, seen, x, i) == RunTarget(x, targets[i], luck[i], seen)
BatchStart == [task |-> task, issued |-> issued, results |-> <<>>]
Turns(targets, luck, seen, f, m) ==
  f = [i \in 0..m |-> IF i = 0 THEN BatchStart ELSE Turn(targets, luck, seen, f[i - 1], i)]

\* The loop has a result for any number of turns.
LEMMA TurnsExist ==
  ASSUME NEW targets, NEW luck, NEW seen, NEW m \in Nat
  PROVE  \E f : Turns(targets, luck, seen, f, m)
<1> DEFINE T == {k \in Nat : ~ \E f : Turns(targets, luck, seen, f, k)}
<1> SUFFICES ASSUME T # {} PROVE FALSE
  OBVIOUS
<1>1. PICK k \in T : \A j \in T : k <= j
  BY LeastNumber, Zenon
<1>2. k \in Nat /\ ~ \E f : Turns(targets, luck, seen, f, k)
  OBVIOUS
<1>3. CASE k = 0
  <2> DEFINE f == [i \in 0..0 |-> BatchStart]
  <2>1. f = [i \in 0..0 |-> IF i = 0 THEN BatchStart ELSE Turn(targets, luck, seen, f[i - 1], i)]
    OBVIOUS
  <2>2. Turns(targets, luck, seen, f, 0)
    BY <2>1, Zenon DEF Turns
  <2> QED
    BY <1>2, <1>3, <2>2
<1>4. CASE k # 0
  <2>1. k - 1 \in Nat /\ k - 1 \notin T
    BY <1>1, <1>2, <1>4
  <2>2. PICK g : Turns(targets, luck, seen, g, k - 1)
    BY <2>1
  <2>3. /\ DOMAIN g = 0..(k - 1)
        /\ \A i \in 0..(k - 1) :
             g[i] = IF i = 0 THEN BatchStart ELSE Turn(targets, luck, seen, g[i - 1], i)
    <3>1. g = [i \in 0..(k - 1) |->
                 IF i = 0 THEN BatchStart ELSE Turn(targets, luck, seen, g[i - 1], i)]
      BY <2>2 DEF Turns
    <3> QED
      BY <3>1, Zenon
  <2> DEFINE f == [i \in 0..k |-> IF i = k THEN Turn(targets, luck, seen, g[k - 1], k) ELSE g[i]]
  <2>4. ASSUME NEW i \in 0..k
        PROVE  f[i] = IF i = 0 THEN BatchStart ELSE Turn(targets, luck, seen, f[i - 1], i)
    <3>1. CASE i = 0
      BY <1>2, <1>4, <2>3, <2>4, <3>1
    <3>2. CASE i # 0
      <4>1. i - 1 \in 0..k /\ i - 1 # k /\ i - 1 \in 0..(k - 1)
        BY <1>2, <2>4, <3>2
      <4>2. f[i - 1] = g[i - 1]
        BY <4>1
      <4>3. CASE i = k
        <5>1. f[i] = Turn(targets, luck, seen, g[k - 1], k)
          BY <2>4, <4>3
        <5>2. f[i] = Turn(targets, luck, seen, f[i - 1], i)
          BY <4>2, <4>3, <5>1
        <5> HIDE DEF f
        <5> QED
          BY <3>2, <5>2
      <4>4. CASE i # k
        <5>1. f[i] = g[i] /\ i \in 0..(k - 1)
          BY <1>2, <2>4, <4>4
        <5>2. g[i] = Turn(targets, luck, seen, g[i - 1], i)
          BY <2>3, <3>2, <5>1
        <5>3. f[i] = Turn(targets, luck, seen, f[i - 1], i)
          BY <4>2, <5>1, <5>2, Zenon
        <5> HIDE DEF f
        <5> QED
          BY <3>2, <5>3
      <4> QED
        BY <4>3, <4>4
    <3> QED
      BY <3>1, <3>2
  <2>5. Turns(targets, luck, seen, f, k)
    <3>1. f = [i \in 0..k |-> f[i]]
      OBVIOUS
    <3> HIDE DEF f
    <3> QED
      BY <2>4, <3>1, Zenon DEF Turns
  <2> QED
    BY <1>2, <2>5
<1> QED
  BY <1>3, <1>4

\* batch_targets keeps what it works on, whatever becomes of its targets.
LEMMA BatchKeeps ==
  ASSUME WorkOK(BatchStart), NEW targets \in Seq(Task \cup {Missing}),
         NEW luck \in [1..Len(targets) -> Luck], NEW seen \in BOOLEAN
  PROVE  WorkOK(Batch(targets, luck, seen))
<1> DEFINE L == Len(targets)
           f == CHOOSE g : Turns(targets, luck, seen, g, L)
<1>1. L \in Nat
  OBVIOUS
<1>2. Batch(targets, luck, seen) = f[L]
  BY DEF Batch, Turns, Turn, BatchStart
<1>3. Turns(targets, luck, seen, f, L)
  BY <1>1, TurnsExist
<1> HIDE DEF f
<1>4. \A i \in 0..L : f[i] = IF i = 0 THEN BatchStart ELSE Turn(targets, luck, seen, f[i - 1], i)
  <2>1. f = [i \in 0..L |-> IF i = 0 THEN BatchStart ELSE Turn(targets, luck, seen, f[i - 1], i)]
    BY <1>3 DEF Turns
  <2> QED
    BY <2>1, Zenon
<1> DEFINE T == {i \in 0..L : ~WorkOK(f[i])}
<1>5. ASSUME T # {} PROVE FALSE
  <2>1. PICK i \in T : \A j \in T : i <= j
    <3>1. T \subseteq Nat
      BY <1>1
    <3> HIDE DEF T
    <3> QED
      BY <1>5, <3>1, LeastNumber, Zenon
  <2>2. i \in 0..L /\ ~WorkOK(f[i])
    OBVIOUS
  <2>3. i # 0
    BY <1>4, <2>2
  <2>4. i - 1 \in 0..L /\ i \in 1..L /\ WorkOK(f[i - 1])
    BY <1>1, <2>1, <2>2, <2>3
  <2>5. targets[i] \in Task \cup {Missing} /\ luck[i] \in Luck
    BY <2>4
  <2>6. WorkOK(Turn(targets, luck, seen, f[i - 1], i))
    BY <2>4, <2>5, RunTargetKeeps, Zenon DEF Turn
  <2> QED
    BY <1>4, <2>2, <2>3, <2>6
<1>6. L \in 0..L
  BY <1>1
<1> QED
  BY <1>2, <1>5, <1>6
-----------------------------------------------------------------------------
(* The tasks and the results of batches *)

\* Tasks are in their second attempt, and no batch has a result yet.
LEMMA InitServerInv == Init => ServerInv
<1> SUFFICES ASSUME Init PROVE ServerInv
  OBVIOUS
<1>1. /\ task = [t \in Task |-> [status |-> Started[t], attempt |-> 2, password |-> 2,
                                 rid |-> NoRid, event |-> FALSE]]
      /\ issued = [t \in Task |-> 2] /\ items = [c \in Caller |-> <<>>]
      /\ call = [c \in Caller |-> Idle]
  BY DEF Init
<1>2. \A t \in Task : TaskOK(task[t], issued[t])
  BY <1>1 DEF TaskOK
<1>3. WorkOK([task |-> task, issued |-> issued, results |-> <<>>])
  BY <1>1, <1>2 DEF WorkOK
<1>4. \A c \in Caller : SentOK(c)
  BY <1>1 DEF SentOK, Idle
<1> QED
  BY <1>1, <1>3, <1>4 DEF ServerInv

\* A step that leaves the tasks and the results alone.
LEMMA OutsideServer ==
  ASSUME ServerInv, conf' = conf, task' = task, issued' = issued, items' = items,
         \A c \in Caller : SentOK(c)'
  PROVE  ServerInv'
<1>1. \A t \in Task : TaskOK(task[t], issued[t])'
  BY DEF ServerInv, WorkOK, TaskOK
<1>2. WorkOK([task |-> task, issued |-> issued, results |-> <<>>])'
  BY <1>1 DEF ServerInv, WorkOK
<1> QED
  BY <1>2 DEF ServerInv

\* A step of invocation c that keeps its request.
LEMMA SameRequest ==
  ASSUME ServerInv, NEW c \in Caller, call'[c].req = call[c].req,
         call[c].pc \in {"waiting", "sleeping"},
         \A d \in Caller \ {c} : call'[d] = call[d]
  PROVE  \A d \in Caller : SentOK(d)'
  BY Zenon DEF ServerInv, SentOK

\* A step of a client leaves tasks and results alone.
LEMMA ClientKeepsServer ==
  ASSUME CommandsInv, ServerInv, NEW c \in Caller,
         \/ CallIgnored(c) \/ CallInvalid(c) \/ Call(c) \/ NotTrusted(c) \/ Resend(c) \/ Receive(c)
         \/ \E status \in NoAnswerStatus : NoAnswer(c, status)
  PROVE  ServerInv'
<1>0. /\ DOMAIN call = Caller
      /\ call[c] = [pc |-> call[c].pc, req |-> call[c].req, tries |-> call[c].tries,
                    elapsed |-> call[c].elapsed, flag |-> call[c].flag]
  BY Fields
<1>1. conf' = conf /\ task' = task /\ issued' = issued /\ items' = items
  BY Zenon DEF CallIgnored, CallInvalid, Call, NotTrusted, Resend, Receive, NoAnswer
<1>2. CASE CallIgnored(c) \/ CallInvalid(c)
  <2>1. call[c].tries = 0
    <3>1. call[c].pc = "idle"
      BY <1>2, Zenon DEF CallIgnored, CallInvalid
    <3>2. call[c] = Idle
      BY <3>1, IdleFields
    <3> QED
      BY <3>2 DEF Idle
  <2>2. /\ \A d \in Caller \ {c} : call'[d] = call[d]
        /\ call'[c].tries = 0 /\ call'[c].pc = "done"
    BY <1>0, <1>2, <2>1, Zenon DEF CallIgnored, CallInvalid
  <2>3. ASSUME NEW d \in Caller PROVE SentOK(d)'
    <3>1. CASE d = c
      BY <2>2, <3>1 DEF SentOK
    <3>2. CASE d # c
      <4>1. SentOK(d) /\ call'[d] = call[d]
        BY <2>2, <3>2 DEF ServerInv
      <4> QED
        BY <4>1 DEF SentOK
    <3> QED
      BY <3>1, <3>2
  <2> QED
    BY <1>1, <2>3, OutsideServer
<1>3. CASE Call(c)
  <2>1. PICK r \in ChildRequests \cup OperatorRequests :
          /\ r.kind \in Child => r.att # 0
          /\ call' = [call EXCEPT ![c] = [@ EXCEPT !.pc = "waiting", !.req = r, !.tries = 1]]
    BY <1>3, Zenon DEF Call
  <2>2. call'[c].req = r /\ \A d \in Caller \ {c} : call'[d] = call[d]
    BY <1>0, <2>1
  <2>3. CASE r \in ChildRequests
    <3>1. r.kind \in Child /\ r.task \in Task
      BY <2>3, TargetAssumption DEF ChildRequests
    <3> QED
      <4>1. \A d \in Caller : SentOK(d)'
        BY <2>1, <2>2, <3>1 DEF ServerInv, SentOK
      <4> QED
        BY <1>1, <4>1, OutsideServer
  <2>4. CASE r \in OperatorRequests
    <3>1. r.kind \notin Child /\ r.targets \in Batches \cup {<<>>}
      BY <2>4 DEF OperatorRequests
    <3>2. r.targets \in Seq(Task \cup {Missing})
      <4>1. <<>> \in Seq(Task \cup {Missing}) /\ Batches \subseteq Seq(Task \cup {Missing})
        BY TargetAssumption
      <4> QED
        BY <3>1, <4>1, Zenon
    <3>3. \A d \in Caller : SentOK(d)'
      BY <2>2, <3>1, <3>2 DEF ServerInv, SentOK
    <3> QED
      BY <1>1, <3>3, OutsideServer
  <2> QED
    BY <2>1, <2>3, <2>4
<1>4. CASE NotTrusted(c) \/ Resend(c) \/ Receive(c)
           \/ \E status \in NoAnswerStatus : NoAnswer(c, status)
  <2>1. call[c].pc \in {"waiting", "sleeping"}
    BY <1>4 DEF NotTrusted, Resend, Receive, NoAnswer
  <2>2. call'[c].req = call[c].req /\ \A d \in Caller \ {c} : call'[d] = call[d]
    <3>1. CASE \E status, took : AttemptFailed(c, status, took)
      BY <1>0, <3>1 DEF AttemptFailed
    <3>2. CASE \E flag : Ends(c, flag)
      BY <1>0, <3>2 DEF Ends
    <3>3. CASE Resend(c)
      BY <1>0, <3>3 DEF Resend
    <3> QED
      BY <1>4, <3>1, <3>2, <3>3 DEF NotTrusted, Receive, NoAnswer
  <2>3. \A d \in Caller : SentOK(d)'
    BY <2>1, <2>2, SameRequest
  <2> QED
    BY <1>1, <2>3, OutsideServer
<1> QED
  BY <1>2, <1>3, <1>4
\* A report leaves the attempt of its task alone; its password changes only
\* when a zombie is adopted.
LEMMA WrittenKeeps ==
  ASSUME NEW x, NEW last, TaskOK(x, last), NEW r, NEW p, p = x.password \/ conf.policy = "adopt",
         NEW t, t = [x EXCEPT !.password = p]
  PROVE  TaskOK(t, last) /\ (r.kind \in Child => TaskOK(Written(t, r), last))
<1>1. /\ t = [status |-> x.status, attempt |-> x.attempt, password |-> p, rid |-> x.rid,
              event |-> x.event]
      /\ x.attempt = last /\ last \in Nat /\ (p = last \/ conf.policy = "adopt")
  BY DEF TaskOK
<1>2. TaskOK(t, last)
  BY <1>1 DEF TaskOK
<1>3. CASE r.kind = "init"
  <2>1. Written(t, r) = [status |-> "active", attempt |-> x.attempt, password |-> p,
                         rid |-> r.rid, event |-> x.event]
    BY <1>1, <1>3, Zenon DEF Written
  <2> QED
    BY <1>1, <1>2, <2>1 DEF TaskOK
<1>4. CASE r.kind = "complete"
  <2>1. Written(t, r) = [status |-> "complete", attempt |-> x.attempt, password |-> p,
                         rid |-> x.rid, event |-> x.event]
    BY <1>1, <1>4, Zenon DEF Written
  <2> QED
    BY <1>1, <1>2, <2>1 DEF TaskOK
<1>5. CASE r.kind = "abort"
  <2>1. Written(t, r) = [status |-> "aborted", attempt |-> x.attempt, password |-> p,
                         rid |-> x.rid, event |-> x.event]
    BY <1>1, <1>5, Zenon DEF Written
  <2> QED
    BY <1>1, <1>2, <2>1 DEF TaskOK
<1>6. CASE r.kind = "event"
  <2>1. Written(t, r) = [status |-> x.status, attempt |-> x.attempt, password |-> p,
                         rid |-> x.rid, event |-> TRUE]
    BY <1>1, <1>6, Zenon DEF Written
  <2> QED
    BY <1>1, <1>2, <2>1 DEF TaskOK
<1> QED
  BY <1>2, <1>3, <1>4, <1>5, <1>6 DEF Child

\* The password a decision leaves.
LEMMA DecisionPassword ==
  ASSUME NEW r, conf.policy \in {"fail", "fob", "adopt"}
  PROVE  Decision(r).password = task[r.task].password \/ conf.policy = "adopt"
<1>1. Guarded(r).password = task[r.task].password \/ conf.policy = "adopt"
  BY DEF Guarded, Disposed
<1> QED
  BY <1>1 DEF Decision

\* A child command is decided and written by the guard.
LEMMA ChildKeepsServer ==
  ASSUME CommandsInv, ServerInv, NEW c \in Caller, NEW n \in 1..call[c].tries, HandleChild(c, n)
  PROVE  ServerInv'
<1> DEFINE r == call[c].req
           d == Decision(r)
           t == [task[r.task] EXCEPT !.password = d.password]
           new == IF d.act = "proceed" THEN Written(t, r) ELSE t
<1>1. /\ conf' = conf /\ issued' = issued /\ call' = call /\ items' = items
      /\ task' = [task EXCEPT ![r.task] = new] /\ r.kind \in Child
  BY DEF HandleChild
<1>2. r.task \in Task
  <2>1. call[c].tries > 0
    <3>1. call[c].tries \in Nat
      BY Fields, Zenon
    <3> QED
      BY <3>1
  <2> QED
    BY <1>1, <2>1 DEF ServerInv, SentOK
<1>3. /\ task = [u \in Task |-> task[u]] /\ issued = [u \in Task |-> issued[u]]
      /\ \A u \in Task : TaskOK(task[u], issued[u])
  BY DEF ServerInv, WorkOK
<1>4. TaskOK(new, issued[r.task])
  <2>1. d.password = task[r.task].password \/ conf.policy = "adopt"
    BY DecisionPassword, PolicyKnown
  <2>2. TaskOK(t, issued[r.task]) /\ TaskOK(Written(t, r), issued[r.task])
    <3>1. TaskOK(task[r.task], issued[r.task])
      BY <1>2, <1>3
    <3> HIDE DEF d, r
    <3> QED
      BY <1>1, <2>1, <3>1, WrittenKeeps
  <2> QED
    BY <2>2
<1> HIDE DEF new, r
<1>5. /\ task' = [u \in Task |-> task'[u]] /\ task'[r.task] = new
      /\ \A u \in Task \ {r.task} : task'[u] = task[u]
  BY <1>1, <1>2, <1>3
<1>6. \A u \in Task : TaskOK(task[u], issued[u])'
  BY <1>1, <1>3, <1>4, <1>5 DEF TaskOK
<1>7. WorkOK([task |-> task, issued |-> issued, results |-> <<>>])'
  BY <1>1, <1>3, <1>5, <1>6 DEF ServerInv, WorkOK
<1>8. \A e \in Caller : SentOK(e)'
  BY <1>1 DEF ServerInv, SentOK
<1> QED
  BY <1>1, <1>7, <1>8 DEF ServerInv

\* A batch works through its targets in order.
LEMMA RunKeepsServer ==
  ASSUME CommandsInv, ServerInv, NEW c \in Caller, NEW n \in 1..call[c].tries, HandleRun(c, n)
  PROVE  ServerInv'
<1> DEFINE targets == call[c].req.targets
<1>1. targets \in Seq(Task \cup {Missing})
  <2>1. call[c].tries > 0
    <3>1. call[c].tries \in Nat
      BY Fields, Zenon
    <3> QED
      BY <3>1
  <2> QED
    BY <2>1, Zenon DEF ServerInv, SentOK, HandleRun, Child
<1>2. PICK luck \in [1..Len(targets) -> Luck], seen \in BOOLEAN :
        /\ task' = Batch(targets, luck, seen).task /\ issued' = Batch(targets, luck, seen).issued
        /\ items' = [items EXCEPT ![c] = Batch(targets, luck, seen).results]
  BY Zenon DEF HandleRun
<1>3. PICK x : x = Batch(targets, luck, seen)
  OBVIOUS
<1>4. WorkOK(x)
  <2>1. WorkOK(BatchStart)
    BY DEF ServerInv, BatchStart
  <2> HIDE DEF targets
  <2> QED
    BY <1>1, <1>3, <2>1, BatchKeeps
<1>5. /\ task' = x.task /\ issued' = x.issued /\ items' = [items EXCEPT ![c] = x.results]
      /\ conf' = conf /\ call' = call
  BY <1>2, <1>3, Zenon DEF HandleRun
<1>6. \A u \in Task : TaskOK(task[u], issued[u])'
  BY <1>4, <1>5 DEF WorkOK, TaskOK
<1>7. WorkOK([task |-> task, issued |-> issued, results |-> <<>>])'
  BY <1>4, <1>5, <1>6 DEF ServerInv, WorkOK
<1>8. DOMAIN items' = Caller /\ \A e \in Caller : items'[e] \in Seq(TrueItem)
  BY <1>4, <1>5 DEF ServerInv, WorkOK
<1>9. \A e \in Caller : SentOK(e)'
  BY <1>5, Zenon DEF ServerInv, SentOK
<1> QED
  BY <1>7, <1>8, <1>9, Zenon DEF ServerInv, TrueItem

\* With CommandsInv, ServerInv is inductive.
LEMMA NextServerInv == CommandsInv /\ ServerInv /\ [Next]_vars => ServerInv'
<1> SUFFICES ASSUME CommandsInv, ServerInv, [Next]_vars PROVE ServerInv'
  OBVIOUS
<1>1. CASE \/ UNCHANGED vars \/ Start
           \/ \E c \in Caller, n \in Nat : Refuse(c, n) \/ HandlePing(c, n)
  <2>1. conf' = conf /\ task' = task /\ issued' = issued /\ call' = call /\ items' = items
    BY <1>1, Zenon DEF vars, Start, Refuse, HandlePing
  <2>2. \A c \in Caller : SentOK(c)'
    BY <2>1 DEF ServerInv, SentOK
  <2> QED
    BY <2>1, <2>2, OutsideServer
<1>2. CASE \E c \in Caller :
             \/ CallIgnored(c) \/ CallInvalid(c) \/ Call(c) \/ NotTrusted(c) \/ Resend(c) \/ Receive(c)
             \/ \E status \in NoAnswerStatus : NoAnswer(c, status)
  BY <1>2, ClientKeepsServer
<1>3. CASE \E c \in Caller : \E n \in 1..call[c].tries : HandleChild(c, n)
  BY <1>3, ChildKeepsServer
<1>4. CASE \E c \in Caller : \E n \in 1..call[c].tries : HandleRun(c, n)
  BY <1>4, RunKeepsServer
<1>5. \A c \in Caller : 1..call[c].tries \subseteq Nat
  BY Fields
<1> QED
  BY <1>1, <1>2, <1>3, <1>4, <1>5 DEF Next

\* The tasks are in the last attempts drawn for them and the results of a
\* batch are true, for any tasks and target lists.
THEOREM ServerInvariance == Spec => [](CommandsInv /\ ServerInv)
<1>1. Init => CommandsInv /\ ServerInv
  BY InitCommandsInv, InitServerInv
<1>2. (CommandsInv /\ ServerInv) /\ [Next]_vars => (CommandsInv /\ ServerInv)'
  BY NextCommandsInv, NextServerInv
<1> QED
  BY <1>1, <1>2, PTL DEF Spec

\* What the results of a batch say of each target is so, however long the
\* batch and whatever became of the targets before it.
THEOREM EffectsAreTrue == Spec => []EffectIsTrue
<1>1. ServerInv => EffectIsTrue
  <2> SUFFICES ASSUME ServerInv, NEW c \in Caller, NEW i \in DOMAIN items[c]
               PROVE  /\ items[c][i].effect = "none" => ~items[c][i].changed
                      /\ items[c][i].effect \in {"applied", "partial"} => items[c][i].changed
                      /\ items[c][i].effect = "unknown" => items[c][i].flag \notin {0, 11}
    BY DEF EffectIsTrue
  <2>1. items[c] \in Seq(TrueItem)
    BY DEF ServerInv
  <2>2. items[c][i] \in TrueItem
    BY <2>1
  <2> QED
    BY <2>2 DEF TrueItem
<1> QED
  BY <1>1, ServerInvariance, PTL

\* The report of the job that owns the current attempt is not refused.
LEMMA OwnReportProceeds ==
  ASSUME CommandsInv, ServerInv, NEW c \in Caller, NEW n \in 1..call[c].tries,
         call[c].req.kind \in Child, call[c].req.pass = call[c].req.att,
         GuardAttempt(call[c].req),
         call[c].req.kind = "init" => task[call[c].req.task].status = "submitted"
  PROVE  Decision(call[c].req).act = "proceed" /\ call[c].req.task \in Task
<1> DEFINE r == call[c].req
           t == task[r.task]
<1>1. r.task \in Task /\ r.att # 0
  <2>1. call[c].tries > 0
    <3>1. call[c].tries \in Nat
      BY Fields, Zenon
    <3> QED
      BY <3>1
  <2> QED
    BY <2>1 DEF ServerInv, SentOK
<1>2. t.attempt = r.att /\ t.status \in InFlight
  BY DEF GuardAttempt
<1>3. t.password = t.attempt \/ conf.policy = "adopt"
  <2>1. TaskOK(t, issued[r.task])
    BY <1>1 DEF ServerInv, WorkOK
  <2> QED
    BY <2>1, Zenon DEF TaskOK
<1>4. ~HitsZ2(r) /\ ~HitsZ3(r)
  BY <1>2 DEF HitsZ2, HitsZ3
<1>5. Guarded(r).act = "proceed"
  <2>1. CASE conf.policy = "adopt"
    BY <2>1 DEF Guarded, Disposed
  <2>2. CASE conf.policy # "adopt"
    <3>1. ~HitsZ1(r)
      BY <1>1, <1>2, <1>3, <2>2 DEF HitsZ1
    <3> QED
      BY <1>4, <3>1 DEF Guarded, Zombie
  <2> QED
    BY <2>1, <2>2
<1>6. ~(r.kind = "init" /\ t.status = "active")
  OBVIOUS
<1>7. GuardAttempt(r)
  OBVIOUS
<1> HIDE DEF r
<1> QED
  BY <1>1, <1>5, <1>6, <1>7 DEF Decision, r

\* The report of the job that owns the current attempt takes effect, whatever
\* zombies were adopted, ignored or refused before it.
THEOREM OwnReports == Spec => OwnReportTakesEffect
<1> DEFINE own(c, n) ==
      LET r == call[c].req IN
      /\ <<c, n>> \in net.requests /\ HandleChild(c, n)
      /\ r.pass = r.att /\ GuardAttempt(r)
      /\ r.kind = "init" => task[r.task].status = "submitted"
      => task'[r.task] = [Written(task[r.task], r) EXCEPT !.password = task'[r.task].password]
<1>1. CommandsInv /\ ServerInv => \A c \in Caller : \A n \in 1..call[c].tries : own(c, n)
  <2> SUFFICES ASSUME CommandsInv, ServerInv, NEW c \in Caller, NEW n \in 1..call[c].tries,
                      HandleChild(c, n), call[c].req.pass = call[c].req.att,
                      GuardAttempt(call[c].req),
                      call[c].req.kind = "init" => task[call[c].req.task].status = "submitted"
               PROVE  task'[call[c].req.task] =
                        [Written(task[call[c].req.task], call[c].req) EXCEPT
                           !.password = task'[call[c].req.task].password]
    OBVIOUS
  <2> DEFINE r == call[c].req
             d == Decision(r)
             x == task[r.task]
             t == [x EXCEPT !.password = d.password]
  <2>1. r.kind \in Child /\ task' = [task EXCEPT ![r.task] = IF d.act = "proceed" THEN Written(t, r) ELSE t]
    BY DEF HandleChild
  <2>2. d.act = "proceed" /\ r.task \in Task
    BY <2>1, OwnReportProceeds
  <2>3. DOMAIN task = Task
    BY DEF ServerInv, WorkOK
  <2>4. task'[r.task] = Written(t, r)
    BY <2>1, <2>2, <2>3
  <2>5. x = [status |-> x.status, attempt |-> x.attempt, password |-> x.password,
             rid |-> x.rid, event |-> x.event]
    <3>1. TaskOK(x, issued[r.task])
      BY <2>2 DEF ServerInv, WorkOK
    <3> QED
      BY <3>1, Zenon DEF TaskOK
  <2>6. PICK p : p = d.password
    OBVIOUS
  <2>a. t = [x EXCEPT !.password = p]
    BY <2>6
  <2> HIDE DEF t, x, d, r
  <2>7. t = [status |-> x.status, attempt |-> x.attempt, password |-> p,
             rid |-> x.rid, event |-> x.event]
    BY <2>5, <2>a
  <2>8. Written(t, r).password = p /\ Written(t, r) = [Written(x, r) EXCEPT !.password = p]
    <3>1. CASE r.kind = "init"
      <4>1. Written(x, r) = [status |-> "active", attempt |-> x.attempt, password |-> x.password,
                           rid |-> r.rid, event |-> x.event]
        BY <2>5, <3>1, Zenon DEF Written
      <4>2. Written(t, r) = [status |-> "active", attempt |-> x.attempt, password |-> p,
                           rid |-> r.rid, event |-> x.event]
        BY <2>7, <3>1, Zenon DEF Written
      <4> QED
        BY <4>1, <4>2
    <3>2. CASE r.kind = "complete"
      <4>1. Written(x, r) = [status |-> "complete", attempt |-> x.attempt, password |-> x.password,
                           rid |-> x.rid, event |-> x.event]
        BY <2>5, <3>2 DEF Written
      <4>2. Written(t, r) = [status |-> "complete", attempt |-> x.attempt, password |-> p,
                           rid |-> x.rid, event |-> x.event]
        BY <2>7, <3>2 DEF Written
      <4> QED
        BY <4>1, <4>2
    <3>3. CASE r.kind = "abort"
      <4>1. Written(x, r) = [status |-> "aborted", attempt |-> x.attempt, password |-> x.password,
                           rid |-> x.rid, event |-> x.event]
        BY <2>5, <3>3 DEF Written
      <4>2. Written(t, r) = [status |-> "aborted", attempt |-> x.attempt, password |-> p,
                           rid |-> x.rid, event |-> x.event]
        BY <2>7, <3>3 DEF Written
      <4> QED
        BY <4>1, <4>2
    <3>4. CASE r.kind = "event"
      <4>0. PICK e : e = TRUE
        OBVIOUS
      <4>1. Written(x, r) = [status |-> x.status, attempt |-> x.attempt, password |-> x.password,
                           rid |-> x.rid, event |-> e]
        BY <4>0, <2>5, <3>4, Zenon DEF Written
      <4>2. Written(t, r) = [status |-> x.status, attempt |-> x.attempt, password |-> p,
                           rid |-> x.rid, event |-> e]
        BY <4>0, <2>7, <3>4, Zenon DEF Written
      <4> QED
        BY <4>1, <4>2
    <3> QED
      BY <2>1, <3>1, <3>2, <3>3, <3>4 DEF Child
  <2>9. task'[r.task] = [Written(x, r) EXCEPT !.password = task'[r.task].password]
    BY <2>4, <2>8
  <2> QED
    BY <2>9 DEF r, x
<1> QED
  BY <1>1, ServerInvariance, PTL DEF OwnReportTakesEffect
-----------------------------------------------------------------------------
(* The window of a read *)

\* backoff_seconds is a number of units.
LEMMA BackoffNat ==
  ASSUME NEW n \in Nat, n >= 1
  PROVE  Backoff(n) \in Nat
<1>0. MaxBackoff \in Nat
  BY WindowAssumption
<1>1. CASE n >= 7
  BY <1>0, <1>1 DEF Backoff
<1>2. CASE n = 1
  BY <1>0, <1>2 DEF Backoff
<1>3. CASE n = 2
  BY <1>0, <1>3 DEF Backoff
<1>4. CASE n = 3
  BY <1>0, <1>4 DEF Backoff
<1>5. CASE n = 4
  BY <1>0, <1>5 DEF Backoff
<1>6. CASE n = 5
  BY <1>0, <1>6 DEF Backoff
<1>7. CASE n = 6
  BY <1>0, <1>7 DEF Backoff
<1> QED
  BY <1>1, <1>2, <1>3, <1>4, <1>5, <1>6, <1>7

\* RetryPolicy.next_delay of a read: none once the window is used up, else one
\* that ends within it.
LEMMA DelayOfRead ==
  ASSUME NEW kind \in ReadOnly, NEW n \in Nat, n >= 1, NEW e \in Int
  PROVE  /\ NextDelay(kind, n, e) \in Int
         /\ NextDelay(kind, n, e) = -1 => e >= Window["query"]
         /\ NextDelay(kind, n, e) # -1 => e + NextDelay(kind, n, e) <= Window["query"]
<1>1. RetryWindow(kind) = Window["query"]
  BY DEF RetryWindow, KindOf, ReadOnly, Child
<1>2. PICK w : w = Window["query"] /\ w \in Nat
  BY WindowAssumption
<1>3. PICK m : m = Backoff(n) /\ m \in Nat
  BY BackoffNat
<1>4. NextDelay(kind, n, e) = IF w - e <= 0 THEN -1 ELSE IF m < w - e THEN m ELSE w - e
  BY <1>1, <1>2, <1>3 DEF NextDelay, Least
<1> QED
  BY <1>2, <1>3, <1>4

\* A failed attempt of a read.
LEMMA FailedWindow ==
  ASSUME CommandsInv, NEW c \in Caller, WindowOK(c), call[c].pc = "waiting",
         NEW status, NEW took \in {0, 1}, AttemptFailed(c, status, took)
  PROVE  WindowOK(c)'
<1>0. call'[c].req = call[c].req
  BY FailedFields
<1> SUFFICES ASSUME call[c].req.kind \in ReadOnly PROVE WindowOK(c)'
  BY <1>0 DEF WindowOK
<1>1. /\ call[c].elapsed \in Int /\ call[c].tries \in Nat /\ call[c].tries >= 1
      /\ call[c].elapsed <= Window["query"] /\ Window["query"] \in Nat
  BY Fields, WindowAssumption, Zenon DEF WindowOK
<1>2. PICK e : e = call[c].elapsed + took /\ e \in Int /\ e <= Window["query"] + 1
  BY <1>1
<1>3. PICK delay : /\ delay = NextDelay(call[c].req.kind, call[c].tries, e) /\ delay \in Int
                   /\ delay = -1 => e >= Window["query"]
                   /\ delay # -1 => e + delay <= Window["query"]
  BY <1>1, <1>2, DelayOfRead
<1>4. /\ DOMAIN call = Caller
      /\ call[c] = [pc |-> call[c].pc, req |-> call[c].req, tries |-> call[c].tries,
                    elapsed |-> call[c].elapsed, flag |-> call[c].flag]
  BY Fields
<1>5. call'[c] =
        IF Category(status) # "retryable"
        THEN [call[c] EXCEPT !.pc = "done", !.elapsed = e, !.flag = FlagOf(status)]
        ELSE IF delay = -1
        THEN [call[c] EXCEPT !.pc = "done", !.elapsed = e, !.flag = 41]
        ELSE [call[c] EXCEPT !.pc = "sleeping", !.elapsed = e + delay]
  BY <1>2, <1>3, <1>4 DEF AttemptFailed
<1>6. FlagOf(status) # 41
  BY DEF FlagOf
<1>7. CASE Category(status) # "retryable"
  <2>1. call'[c].pc = "done" /\ call'[c].elapsed = e /\ call'[c].flag # 41 /\ call'[c].tries = call[c].tries
    BY <1>4, <1>5, <1>6, <1>7
  <2> QED
    BY <1>1, <1>2, <2>1 DEF WindowOK
<1>8. CASE Category(status) = "retryable" /\ delay = -1
  <2>1. call'[c].pc = "done" /\ call'[c].elapsed = e /\ call'[c].tries = call[c].tries
    BY <1>4, <1>5, <1>8
  <2> QED
    BY <1>1, <1>2, <1>3, <1>8, <2>1 DEF WindowOK
<1>9. CASE Category(status) = "retryable" /\ delay # -1
  <2>1. call'[c].pc = "sleeping" /\ call'[c].elapsed = e + delay /\ call'[c].tries = call[c].tries
    BY <1>4, <1>5, <1>9
  <2> QED
    BY <1>1, <1>2, <1>3, <1>9, <2>1 DEF WindowOK
<1> QED
  BY <1>7, <1>8, <1>9

\* A step of invocation c, which keeps its request or has no answer yet.
LEMMA WindowOwn ==
  ASSUME WindowInv, NEW c \in Caller, WindowOK(c)',
         \A d \in Caller \ {c} : call'[d] = call[d], net'.answers \subseteq net.answers,
         \A a \in net.answers : a.c \in Caller /\ (a.c # c \/ call'[c].req = call[c].req)
  PROVE  WindowInv'
<1>1. ASSUME NEW d \in Caller, d # c PROVE WindowOK(d)'
  <2>1. WindowOK(d) /\ call'[d] = call[d]
    BY <1>1 DEF WindowInv
  <2> QED
    BY <2>1 DEF WindowOK
<1>2. ASSUME NEW a \in net'.answers PROVE call'[a.c].req.kind \in ReadOnly => a.flag = 0
  <2>1. a \in net.answers /\ a.c \in Caller /\ call'[a.c].req = call[a.c].req
    BY <1>2
  <2> QED
    BY <2>1 DEF WindowInv
<1> QED
  BY <1>1, <1>2 DEF WindowInv

\* A step of a client keeps a read within its window.
LEMMA ClientKeepsWindow ==
  ASSUME CommandsInv, WindowInv, NEW c \in Caller,
         \/ CallIgnored(c) \/ CallInvalid(c) \/ Call(c) \/ NotTrusted(c) \/ Resend(c) \/ Receive(c)
         \/ \E status \in NoAnswerStatus : NoAnswer(c, status)
  PROVE  WindowInv'
<1>0. /\ DOMAIN call = Caller /\ WindowOK(c)
      /\ net = [requests |-> net.requests, answers |-> net.answers]
      /\ call[c] = [pc |-> call[c].pc, req |-> call[c].req, tries |-> call[c].tries,
                    elapsed |-> call[c].elapsed, flag |-> call[c].flag]
      /\ \A a \in net.answers : a.c \in Caller
  BY Fields, Parts, Zenon DEF WindowInv, AnswerOK
<1>1. net'.answers \subseteq net.answers
  BY <1>0, Zenon DEF CallIgnored, CallInvalid, Call, NotTrusted, Resend, Receive, NoAnswer
<1>2. CASE CallIgnored(c) \/ CallInvalid(c)
  <2>1. /\ \A d \in Caller \ {c} : call'[d] = call[d]
        /\ \A a \in net.answers : a.c # c
    BY <1>0, <1>2, IdleFields, Zenon DEF CallIgnored, CallInvalid
  <2>2. call'[c].req.kind \in Child
    <3>1. CASE CallIgnored(c)
      <4>1. PICK k \in Child :
              call' = [call EXCEPT ![c] = [@ EXCEPT !.pc = "done", !.req = [kind |-> k]]]
        BY <3>1, Zenon DEF CallIgnored
      <4>2. call'[c].req = [kind |-> k]
        BY <1>0, <4>1
      <4> QED
        BY <4>2
    <3>2. CASE CallInvalid(c)
      <4>1. PICK r \in ChildRequests :
              call' = [call EXCEPT ![c] = [@ EXCEPT !.pc = "done", !.req = r, !.flag = 15]]
        BY <3>2, Zenon DEF CallInvalid
      <4>2. call'[c].req = r /\ r.kind \in Child
        BY <1>0, <4>1 DEF ChildRequests
      <4> QED
        BY <4>2
    <3> QED
      BY <1>2, <3>1, <3>2
  <2>3. WindowOK(c)'
    BY <2>2 DEF WindowOK, ReadOnly, Child
  <2> QED
    BY <1>0, <1>1, <2>1, <2>3, WindowOwn
<1>3. CASE Call(c)
  <2>1. PICK r :
          call' = [call EXCEPT ![c] = [@ EXCEPT !.pc = "waiting", !.req = r, !.tries = 1]]
    BY <1>3, Zenon DEF Call
  <2>2. call[c] = Idle /\ \A a \in net.answers : a.c # c
    BY <1>3, IdleFields, Zenon DEF Call
  <2>3. \A d \in Caller \ {c} : call'[d] = call[d]
    BY <1>0, <2>1
  <2>4. call'[c].pc = "waiting" /\ call'[c].tries = 1 /\ call'[c].elapsed = 0
    BY <1>0, <2>1, <2>2 DEF Idle
  <2>5. WindowOK(c)'
    BY <2>4, WindowAssumption DEF WindowOK
  <2> QED
    BY <1>0, <1>1, <2>2, <2>3, <2>5, WindowOwn
<1>4. ASSUME call'[c].req = call[c].req, WindowOK(c)', \A d \in Caller \ {c} : call'[d] = call[d]
      PROVE  WindowInv'
  BY <1>0, <1>1, <1>4, WindowOwn
<1>5. CASE NotTrusted(c)
  <2>1. AttemptFailed(c, "TLS", 0) /\ call[c].pc = "waiting"
    BY <1>5 DEF NotTrusted
  <2>2. WindowOK(c)'
    BY <1>0, <2>1, FailedWindow
  <2> QED
    BY <1>4, <2>1, <2>2, FailedFields
<1>6. CASE \E status \in NoAnswerStatus : NoAnswer(c, status)
  <2>1. PICK status, took :
          took \in {0, 1} /\ AttemptFailed(c, status, took) /\ call[c].pc = "waiting"
    <3>1. PICK status : /\ AttemptFailed(c, status, IF status = "DEADLINE_EXCEEDED" THEN 1 ELSE 0)
                        /\ call[c].pc = "waiting"
      BY <1>6 DEF NoAnswer
    <3>2. PICK took : took = (IF status = "DEADLINE_EXCEEDED" THEN 1 ELSE 0) /\ took \in {0, 1}
      OBVIOUS
    <3> QED
      BY <3>1, <3>2
  <2>2. WindowOK(c)'
    BY <1>0, <2>1, FailedWindow
  <2> QED
    BY <1>4, <2>1, <2>2, FailedFields, Zenon
<1>7. CASE Resend(c)
  <2>1. /\ call'[c].req = call[c].req /\ call'[c].elapsed = call[c].elapsed
        /\ call'[c].pc = "waiting" /\ call'[c].tries = call[c].tries + 1
        /\ \A d \in Caller \ {c} : call'[d] = call[d]
    BY <1>0, <1>7 DEF Resend
  <2>2. call[c].tries \in Nat /\ call[c].pc = "sleeping"
    BY <1>7, Fields, Zenon DEF Resend
  <2>3. WindowOK(c)'
    BY <1>0, <2>1, <2>2 DEF WindowOK
  <2> QED
    BY <1>4, <2>1, <2>3
<1>8. CASE Receive(c)
  <2>1. PICK a \in net.answers :
          /\ a.c = c /\ call[c].pc = "waiting"
          /\ IF a.status = "OK" THEN Ends(c, a.flag) ELSE AttemptFailed(c, a.status, 0)
    BY <1>8 DEF Receive
  <2>2. CASE a.status = "OK"
    <3>1. call' = [call EXCEPT ![c].pc = "done", ![c].flag = a.flag]
      BY <2>1, <2>2 DEF Ends
    <3>2. /\ call'[c].req = call[c].req /\ call'[c].elapsed = call[c].elapsed
          /\ call'[c].tries = call[c].tries /\ call'[c].flag = a.flag
          /\ \A d \in Caller \ {c} : call'[d] = call[d]
      BY <1>0, <3>1
    <3>3. call[c].req.kind \in ReadOnly => a.flag = 0
      BY <2>1 DEF WindowInv
    <3>4. WindowOK(c)'
      BY <1>0, <2>1, <3>1, <3>2, <3>3 DEF WindowOK
    <3> QED
      BY <1>4, <3>2, <3>4
  <2>3. CASE a.status # "OK"
    <3>1. AttemptFailed(c, a.status, 0)
      BY <2>1, <2>3, Zenon
    <3>2. WindowOK(c)'
      BY <1>0, <2>1, <3>1, FailedWindow
    <3> QED
      BY <1>4, <3>1, <3>2, FailedFields, Zenon
  <2> QED
    BY <2>2, <2>3
<1> QED
  BY <1>2, <1>3, <1>5, <1>6, <1>7, <1>8

\* With CommandsInv, WindowInv is inductive.
LEMMA NextWindowInv == CommandsInv /\ WindowInv /\ [Next]_vars => WindowInv'
<1> SUFFICES ASSUME CommandsInv, WindowInv, [Next]_vars PROVE WindowInv'
  OBVIOUS
<1>0. ASSUME call' = call,
             \A a \in net'.answers : a \in net.answers \/ (call[a.c].req.kind \in ReadOnly => a.flag = 0)
      PROVE  WindowInv'
  BY <1>0 DEF WindowInv, WindowOK
<1>1. CASE UNCHANGED vars \/ Start
  BY <1>0, <1>1 DEF vars, Start
<1>2. CASE \E c \in Caller, n \in Nat : Refuse(c, n) \/ HandlePing(c, n)
  <2>1. PICK c, n, status : Answer(c, n, status, 0) /\ call' = call
    BY <1>2 DEF Refuse, HandlePing
  <2>2. \A a \in net'.answers : a \in net.answers \/ a.flag = 0
    BY <2>1 DEF Answer
  <2> QED
    BY <1>0, <2>1, <2>2
<1>3. CASE \E c \in Caller, n \in Nat : HandleChild(c, n) \/ HandleRun(c, n)
  <2>0. PICK c \in Caller, n \in Nat : HandleChild(c, n) \/ HandleRun(c, n)
    BY <1>3
  <2>1. PICK flag : Answer(c, n, "OK", flag) /\ call' = call /\ call[c].req.kind \notin ReadOnly
    <3>1. CASE HandleChild(c, n)
      BY <3>1 DEF HandleChild, ReadOnly, Child
    <3>2. CASE HandleRun(c, n)
      BY <3>2, Zenon DEF HandleRun, ReadOnly, Child
    <3> QED
      BY <2>0, <3>1, <3>2
  <2>2. \A a \in net'.answers : a \in net.answers \/ a.c = c
    BY <2>1 DEF Answer
  <2>3. \A a \in net'.answers :
          a \in net.answers \/ (call[a.c].req.kind \in ReadOnly => a.flag = 0)
    BY <2>1, <2>2, Zenon
  <2> QED
    BY <1>0, <2>1, <2>3, Zenon
<1>4. CASE \E c \in Caller :
             \/ CallIgnored(c) \/ CallInvalid(c) \/ Call(c) \/ NotTrusted(c) \/ Resend(c) \/ Receive(c)
             \/ \E status \in NoAnswerStatus : NoAnswer(c, status)
  BY <1>4, ClientKeepsWindow
<1>5. \A c \in Caller : 1..call[c].tries \subseteq Nat
  BY Fields
<1> QED
  BY <1>1, <1>2, <1>3, <1>4, <1>5 DEF Next

\* A read gives up as unreachable only when its window is used up, and no
\* later than one more attempt, for any window and backoff.
THEOREM WindowsHonoured == Spec => []WindowHonoured
<1>1. Init => CommandsInv /\ WindowInv
  <2>1. Init => WindowInv
    BY DEF Init, WindowInv, WindowOK, Idle, NoRequest, ReadOnly
  <2> QED
    BY <2>1, InitCommandsInv
<1>2. (CommandsInv /\ WindowInv) /\ [Next]_vars => (CommandsInv /\ WindowInv)'
  BY NextCommandsInv, NextWindowInv
<1>3. WindowInv => WindowHonoured
  BY WindowAssumption DEF WindowInv, WindowOK, WindowHonoured, Done
<1> QED
  BY <1>1, <1>2, <1>3, PTL DEF Spec
=============================================================================
