-------------------------------- MODULE Wire --------------------------------
(***************************************************************************)
(* One command on its way from the client's arguments to the handler and   *)
(* back, over gRPC (server/protocol/adapter.py) or HTTP                     *)
(* (protocol/envelope.py, protocol/wire.py).  The two encodings have little *)
(* in common: proto3 leaves zero values out of a message and counts its     *)
(* enumerations, the envelope is JSON with every field of a schema, bytes   *)
(* in base64 and integers in decimal.                                      *)
(*                                                                         *)
(* Request and response are functions from field names to values.          *)
(***************************************************************************)
EXTENDS Integers, Sequences, FiniteSets, FiniteSetsExt, TLC

CONSTANTS
  Word,        \* texts other than the empty one
  Number,      \* the integer of each canonical decimal; other texts are not in its domain
  NotDecimal,  \* texts a user may give for a meter that are no canonical decimal
  Width        \* integers are -Width .. Width - 1

WireAssumption == "" \notin Word /\ NotDecimal \cap DOMAIN Number = {}

VARIABLES request, transport, step, message, received, reply, answer

wireVars == <<request, transport, step, message, received, reply, answer>>

Text == Word \cup {""}
Texts == {<<>>} \cup {<<t>> : t \in Word}
Absent == "absent"

\* SCHEMA["request"], and the request models of protocol/commands.py
Fields(c) ==
  CASE c = "init"     -> {"node_path", "attempt_id", "task_id"}
    [] c = "complete" -> {"node_path", "attempt_id"}
    [] c = "abort"    -> {"node_path", "attempt_id", "reason"}
    [] c = "event"    -> {"node_path", "attempt_id", "source_task_path", "event_name"}
    [] c = "meter"    -> {"node_path", "attempt_id", "source_task_path", "meter_name", "meter_value"}
    [] c \in {"requeue", "suspend", "resume"} -> {"node_paths"}
    [] c = "run"      -> {"node_paths", "force"}
    [] c = "force"    -> {"paths", "state", "recursive"}
    [] c = "free-dep" -> {"paths", "dep_type"}
    [] c = "load"     -> {"flow_type", "flow_bytes"}
    [] c = "replace"  -> {"target_path", "flow_bytes"}
    [] c = "begin"    -> {"flow_name", "force"}
    [] OTHER          -> {}

Command ==
  {"init", "complete", "abort", "event", "meter", "requeue", "suspend", "resume", "run", "force",
   "free-dep", "load", "replace", "begin", "ping", "coroutine", "server-status", "server-halt",
   "server-resume"}

\* The enumerations, in the order the proto file counts them
States == <<"unknown", "complete", "queued", "submitted", "active", "aborted", "clear", "set">>
DepTypes == <<"all", "trigger", "time">>

Kind(f) ==
  CASE f \in {"node_paths", "paths"}   -> "texts"
    [] f \in {"force", "recursive"}    -> "flag"
    [] f = "state"                     -> "state"
    [] f = "dep_type"                  -> "dep"
    [] f = "flow_bytes"                -> "bytes"
    [] f = "meter_value"               -> "decimal"
    [] OTHER                           -> "text"

\* What the command line can give for a field, and for all fields of a command
Values(f) ==
  CASE Kind(f) = "texts"   -> Texts
    [] Kind(f) = "flag"    -> BOOLEAN
    [] Kind(f) = "state"   -> {States[i] : i \in DOMAIN States}
    [] Kind(f) = "dep"     -> {DepTypes[i] : i \in DOMAIN DepTypes}
    [] Kind(f) = "bytes"   -> Text
    [] Kind(f) = "decimal" -> DOMAIN Number \cup NotDecimal
    [] f \in {"node_path", "attempt_id"} -> Word
    [] OTHER               -> Text

Arguments(c) ==
  FoldSet(LAMBDA f, gs : {g @@ (f :> v) : g \in gs, v \in Values(f)}, {<<>>}, Fields(c))

\* The run_command_ methods of TaklerServiceClient: without a source the node is it.
Payload(r) ==
  [f \in DOMAIN r.fields |->
     IF f = "source_task_path" /\ r.fields[f] = "" THEN r.fields["node_path"] ELSE r.fields[f]]

\* wire.decimal
IsDecimal(t) == t \in DOMAIN Number /\ Number[t] \in -Width .. Width - 1

\* What the handler is meant to see: the model of the command with its fields.
Meant(p) == [f \in DOMAIN p |-> IF Kind(f) = "decimal" THEN Number[p[f]] ELSE p[f]]

Index(s, v) == (CHOOSE i \in DOMAIN s : s[i] = v) - 1

-----------------------------------------------------------------------------
(* gRPC *)

PbEncode(f, v) ==
  CASE Kind(f) = "state" -> Index(States, v)
    [] Kind(f) = "dep"   -> Index(DepTypes, v)
    [] OTHER             -> v

PbZero(f) ==
  CASE Kind(f) = "texts"           -> <<>>
    [] Kind(f) = "flag"            -> FALSE
    [] Kind(f) \in {"state", "dep"} -> 0
    [] OTHER                       -> ""

\* request_to_pb2, serialized: a field with its zero value is not in the message.
ToPb(p) ==
  LET coded == [f \in DOMAIN p |-> PbEncode(f, p[f])]
  IN  [f \in {g \in DOMAIN p : coded[g] /= PbZero(g)} |-> coded[f]]

PbRead(f, m) == IF f \in DOMAIN m THEN m[f] ELSE PbZero(f)

PbDecode(f, v) ==
  CASE Kind(f) = "state"   -> States[v + 1]
    [] Kind(f) = "dep"     -> DepTypes[v + 1]
    [] Kind(f) = "decimal" -> Number[v]
    [] OTHER               -> v

\* The parts of request_from_pb2 that can refuse
PbAccepts(c, m) == c = "meter" => IsDecimal(PbRead("meter_value", m))

\* Mutant: a flag that is not in the message takes the default of the model.
FromPbDefaults(c, m) ==
  [f \in Fields(c) |-> IF f = "recursive" /\ f \notin DOMAIN m THEN TRUE ELSE PbDecode(f, PbRead(f, m))]

FromPb(c, m) == [f \in Fields(c) |-> PbDecode(f, PbRead(f, m))]

-----------------------------------------------------------------------------
(* HTTP *)

\* _json_payload: bytes become base64, marked here so that they are not text.
ToJson(p) == [f \in DOMAIN p |-> IF Kind(f) = "bytes" THEN <<"base64", p[f]>> ELSE p[f]]

\* decode_envelope with validate_object: exactly the fields of the schema.
JsonAccepts(c, m) ==
  /\ DOMAIN m = Fields(c)
  /\ \A f \in Fields(c) : Kind(f) = "decimal" => IsDecimal(m[f])

\* Envelope.parse_request
FromJson(c, m) ==
  [f \in Fields(c) |->
     CASE Kind(f) = "bytes"   -> m[f][2]
       [] Kind(f) = "decimal" -> Number[m[f]]
       [] OTHER               -> m[f]]

-----------------------------------------------------------------------------
(* Answers *)

Batch == {"requeue", "suspend", "resume", "run", "force", "free-dep", "begin"}
Status == {"server-status", "server-halt", "server-resume"}
Plain == Command \ (Batch \cup Status \cup {"ping", "coroutine"})

\* The lists of targets that fit a request: begin without a name takes any flows.
Targets(c, p) ==
  IF c = "begin" THEN IF p["flow_name"] = "" THEN {<<>>} \cup {<<"/" \o t>> : t \in Word}
                      ELSE {<<"/" \o p["flow_name"]>>}
  ELSE {IF c \in {"force", "free-dep"} THEN p["paths"] ELSE p["node_paths"]}

\* What a handler answers: the aggregate flag of a batch follows its items, and
\* only begin may do without a target.
Replies(c, p) ==
  CASE c \in Batch /\ c /= "begin" /\ <<>> \in Targets(c, p) ->
         {[kind |-> "batch", flag |-> 15, results |-> <<>>]}
    [] c \in Batch ->
         {[kind |-> "batch", flag |-> IF \E i \in DOMAIN fs : fs[i] /= 0 THEN 16 ELSE 0,
           results |-> [i \in DOMAIN ts |-> [index |-> i - 1, target |-> ts[i], flag |-> fs[i]]]]
          : <<ts, fs>> \in UNION {{us} \X [DOMAIN us -> {0, 14}] : us \in Targets(c, p)}}
    [] c \in Status ->
         [kind : {"status"}, flag : {0, 33}, reason : Text \cup {Absent}, summary : {"", "counts", Absent}]
    [] c \in Plain  -> [kind : {"service"}, flag : {0, 10, 31}]
    [] OTHER        -> [kind : {"empty"}]

LeftOut(a) == {f \in DOMAIN a \cap {"reason", "summary"} : a[f] = Absent}

\* response_to_pb2 and response_from_pb2: optional fields keep their presence,
\* a summary (a Struct) also when it is empty.
OverPb(a) ==
  LET sent == [f \in DOMAIN a \ LeftOut(a) |-> a[f]]
  IN  [f \in DOMAIN a |-> IF f \in DOMAIN sent THEN sent[f] ELSE Absent]

\* Envelope.for_response, decode_envelope: None is null.
OverJson(a) ==
  LET sent == [f \in DOMAIN a |-> IF f \in LeftOut(a) THEN "null" ELSE a[f]]
  IN  [f \in DOMAIN a |-> IF f \in LeftOut(a) THEN Absent ELSE sent[f]]

\* validate_batch_response
BatchFits(c, p, a) ==
  \/ a.results = <<>> /\ a.flag \notin {0, 16}
  \/ /\ [i \in DOMAIN a.results |-> a.results[i].target] \in Targets(c, p)
     /\ \A i \in DOMAIN a.results : a.results[i].index = i - 1
     /\ a.flag = IF \E i \in DOMAIN a.results : a.results[i].flag /= 0 THEN 16 ELSE 0

\* Over gRPC an argument the model refuses is an error inside the boundary of
\* the handlers: "invalid request" for a batch, an internal error otherwise.
PbRefusal(c) ==
  IF c \in Batch THEN [kind |-> "batch", flag |-> 15, results |-> <<>>]
  ELSE [kind |-> "service", flag |-> 99]

\* Over HTTP it is status 422, which the client raises as InvalidRequestError.
JsonRefusal == [kind |-> "error", flag |-> 15]

-----------------------------------------------------------------------------
(* The call *)

WireInit ==
  /\ request \in UNION {{[command |-> c, fields |-> v] : v \in Arguments(c)} : c \in Command}
  /\ transport \in {"grpc", "http"}
  /\ step = "ready" /\ message = <<>> /\ received = <<>>
  /\ reply = [kind |-> "none"] /\ answer = [kind |-> "none"]

\* GrpcTransport.call and HttpTransport.call, up to the network
SendRequest ==
  /\ step = "ready"
  /\ step' = "sent"
  /\ message' = IF transport = "grpc" THEN ToPb(Payload(request)) ELSE ToJson(Payload(request))
  /\ UNCHANGED <<request, transport, received, reply, answer>>

Accepts ==
  IF transport = "grpc" THEN PbAccepts(request.command, message) ELSE JsonAccepts(request.command, message)

\* The servicer method or the command route: parse, then run the handler.
HandleRequest ==
  /\ step = "sent" /\ Accepts
  /\ received' = IF transport = "grpc" THEN FromPb(request.command, message)
                 ELSE FromJson(request.command, message)
  /\ reply' \in Replies(request.command, received')
  /\ step' = "handled"
  /\ UNCHANGED <<request, transport, message, answer>>

RefuseRequest ==
  /\ step = "sent" /\ ~Accepts
  /\ reply' = IF transport = "grpc" THEN PbRefusal(request.command) ELSE JsonRefusal
  /\ step' = "refused"
  /\ UNCHANGED <<request, transport, message, received, answer>>

\* The response in the client: a batch that does not fit the request is an error.
ReceiveReply ==
  /\ step \in {"handled", "refused"}
  /\ LET back == IF reply.kind = "error" THEN reply
                 ELSE IF transport = "grpc" THEN OverPb(reply) ELSE OverJson(reply)
     IN  answer' = IF back.kind = "batch" /\ ~BatchFits(request.command, Payload(request), back)
                   THEN [kind |-> "error", flag |-> 42] ELSE back
  /\ step' = IF step = "handled" THEN "answered" ELSE "rejected"
  /\ UNCHANGED <<request, transport, message, received, reply>>

WireNext == SendRequest \/ HandleRequest \/ RefuseRequest \/ ReceiveReply

WireSpec == WireInit /\ [][WireNext]_wireVars

-----------------------------------------------------------------------------
(* Properties *)

\* Over either transport the handler sees exactly what the caller gave, and the
\* caller exactly what the handler answered; only a meter value that is no
\* integer of the wire's width is turned away.
TransportIsTransparent ==
  /\ step \in {"handled", "answered"} => received = Meant(Payload(request))
  /\ step = "answered" => answer = reply
  /\ step \in {"refused", "rejected"} =>
       request.command = "meter" /\ ~IsDecimal(request.fields["meter_value"])

\* A meter value that is not an integer is answered with the same internal_error
\* flag whichever transport carried it.
\* It does not hold: README, "Also observed".
SameRefusal == step = "rejected" => answer.flag = 99
=============================================================================
