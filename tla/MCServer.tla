------------------------------ MODULE MCServer ------------------------------
(***************************************************************************)
(* The parts of the server and of the definitions it serves that share no  *)
(* state, each on an instance of its own: `focus` picks the part that      *)
(* moves, and the variables of the others rest.                            *)
(*                                                                         *)
(* Checkpoint has room for one waiting and one running background write.   *)
(***************************************************************************)
EXTENDS Checkpoint, ServerLifecycle, TLC

CONSTANTS NoFile, Gone, LockedFile, Nothing, Resting

VARIABLES
  focus,
  text, stamp, cached, gate, ever, always, callState, audited, auditFile,
  object, flows,
  clock, passTime, serving, suspended, flow, savedFlow,
  formula, phrases,
  owner, reference, stage, bound,
  node, loaded,
  lists, running, holders, used

accessVars == <<text, stamp, cached, gate, ever, always, callState, audited, auditFile>>
catalogVars == <<object, flows>>
calendarVars == <<clock, passTime, serving, suspended, flow, savedFlow>>
expressionVars == <<formula, phrases>>
pathVars == <<owner, reference, stage, bound>>
attributeVars == <<node, loaded>>
limitVars == <<lists, running, holders, used>>

-----------------------------------------------------------------------------
(* Deployments: from no setting at all to each way of half a TLS pair *)

NoConf == [port |-> Blank, auth |-> Blank, cert |-> Blank, key |-> Blank,
           http |-> FALSE, httpCert |-> Blank, httpKey |-> Blank]
Bare == [entry |-> "serve", confFrom |-> "none", confLoads |-> TRUE, conf |-> NoConf,
         policyArg |-> "absent", policyEnv |-> Blank, authEnv |-> Blank, portArg |-> Blank,
         certArg |-> Blank, keyArg |-> Blank, secrets |-> "none"]
Embedded == [Bare EXCEPT !.entry = "embed", !.policyEnv = "typo", !.portArg = "p2"]
Secured == [Bare EXCEPT !.confFrom = "argument", !.conf.http = TRUE, !.conf.auth = "ENABLED",
            !.secrets = "some", !.conf.httpCert = "h", !.conf.httpKey = "h",
            !.certArg = "c", !.keyArg = "c"]
HalfPair == [Bare EXCEPT !.confFrom = "env", !.conf.cert = "c", !.policyArg = "FAIL_FAST"]
PlainHttp == [Secured EXCEPT !.policyArg = "FAIL_FAST", !.authEnv = "ENABLED",
              !.conf.httpCert = Blank, !.conf.httpKey = Blank]
Deployments ==
  {Bare, Embedded, Secured, HalfPair, PlainHttp, [HalfPair EXCEPT !.confLoads = FALSE],
   [Secured EXCEPT !.conf.httpKey = Blank], [Secured EXCEPT !.secrets = "none"]}

\* Two operator calls, one of them without a secret of its own, and a report
AuthCalls == {"o1", "o2", "k"}
Access ==
  INSTANCE Auth
  WITH AuthCall <- AuthCalls,
       MethodLevel <- [c \in AuthCalls |-> IF c = "k" THEN "child" ELSE "operator"],
       ClientFile <- [c \in AuthCalls |-> IF c = "o1" THEN <<"#", "s1", "s2">> ELSE Gone],
       Named <- [c \in AuthCalls |-> IF c = "k" THEN Nothing ELSE "u1"],
       Secret <- {"s1", "s2"}, User <- {"u1", "u2"},
       SecretTexts <- {<<"s1">>, <<"s2">>, <<"s1", "s2">>, Gone},
       UserTexts <- {<<"u1">>, <<"u1", "u2">>, <<"u2">>, LockedFile, NoFile},
       Password <- {"k"}, Locked <- LockedFile, MaxEdits <- 1

-----------------------------------------------------------------------------
(* Flow documents: flow A with a Limit and an event, B with references to A *)

Ref(t, kind, item, k) == [task |-> t, kind |-> kind, flow |-> "A", item |-> item, tokens |-> k]
Doc(n, t, events, capacity, meter, repeat, refs) ==
  [name |-> n, tasks |-> {t}, events |-> events, capacity |-> capacity, meter |-> meter,
   repeat |-> repeat, refs |-> refs]
Documents ==
  {Doc("A", "x", {"e"}, "l" :> 2, <<0, 0>>, <<1, 3, 2>>, {Ref("x", "limit", "l", 2)}),
   Doc("A", "x", {}, "l" :> 1, <<0, 1>>, <<1, 1, 1>>, {}),
   Doc("B", "z", {}, <<>>, <<0, 0>>, <<1, 1, 1>>, {Ref("z", "limit", "l", 1), Ref("z", "node", "x", 1)}),
   Doc("B", "z", {}, <<>>, <<0, 0>>, <<1, 1, 1>>, {Ref("z", "event", "e", 1)}),
   Doc("B", "z", {}, <<>>, <<1, 0>>, <<1, 1, 1>>, {})}

Catalog ==
  INSTANCE FlowCatalog
  WITH Definition <- Documents, Reported <- {1, 2}, MaxObjects <- 3, MaxTokens <- 2

Calendar ==
  INSTANCE FlowCalendar
  WITH Timed <- {"a"}, TimesOf <- "a" :> {0, 2}, Day <- 4, MaxClock <- 5, paused <- suspended
ASSUME Calendar!CalendarAssumption

\* Texts of up to five phrases over a status, a meter and all the operators
Expression ==
  INSTANCE TriggerExpression
  WITH PathValue <- ("./t" :> <<"status", 2>>) @@ ("./t:m" :> <<"int", 1>>),
       LitValue <- ("complete" :> <<"status", 2>>) @@ ("1" :> <<"int", 1>>),
       Phrase <- {<<"./t", "==", "complete">>, <<"./t:m", "<", "1">>, <<"and">>, <<"or">>,
                  <<"(">>, <<")">>, <<"./t:m">>, <<"+">>, <<">=">>, <<"1">>},
       MaxPhrases <- 5, text <- formula

\* Two flows of the same shape, where relative and absolute paths may meet
Paths ==
  INSTANCE NodePaths
  WITH Nodes <- {<<"F">>, <<"F", "a">>, <<"F", "a", "b">>,
                 <<"G">>, <<"G", "a">>, <<"G", "a", "b">>, <<"G", "b">>},
       HasLimit <- {<<"F">>, <<"F", "a">>, <<"G", "a">>},
       HasEvent <- {<<"F", "a", "b">>, <<"G", "b">>},
       Candidate <- "F", Name <- {"F", "G", "a", "b", ".", ".."}, MaxWords <- 4

-----------------------------------------------------------------------------
(* A bunch, a flow and a task with an attribute of every kind between them *)

Blanks == INSTANCE NodeState WITH Loaded <- {}, Holders <- {}, MaxTry <- 0, MaxClock <- 0
Expr(e) == [text |-> e, free |-> FALSE]
Lim == "lim" :> [limit |-> 1, value |-> 0, paths |-> {}]
Rep(end) == {[start |-> 0, end |-> end, step |-> 2, value |-> 0]}
Nodes ==
  {[Blanks!NewNode("bunch") EXCEPT !.default = "complete", !.trigger = Expr("e"), !.limits = Lim,
      !.events = "ev" :> [initial |-> TRUE, value |-> TRUE], !.times = "10:00" :> FALSE,
      !.repeat = Rep(3)],
   [Blanks!NewNode("flow") EXCEPT !.complete = Expr("e"), !.task.definition_generation = "g",
      !.limits = Lim, !.repeat = Rep(4)],
   [Blanks!NewNode("task") EXCEPT !.trigger = Expr("e"), !.complete = Expr("c"),
      !.task.definition_generation = "g", !.meters = "m" :> [min |-> 0, max |-> 2, value |-> 0],
      !.events = "ev" :> [initial |-> FALSE, value |-> FALSE], !.times = "10:00" :> FALSE]}
Attributes ==
  INSTANCE NodeState
  WITH Loaded <- Nodes, Holders <- {"/f/a", "/f/b"}, MaxTry <- 2, MaxClock <- 2
ASSUME Attributes!NodeStateAssumption

Item(name, at, l, k) == [name |-> name, reference |-> at, limit |-> l, tokens |-> k]
Limits ==
  INSTANCE LimitEdit
  WITH Leaves <- {"a", "b"}, Limits <- {"X", "Y"}, LimitSize <- ("X" :> 3) @@ ("Y" :> 1), MaxItems <- 2,
       InLimitItems <- {Item("x", "", "X", 1), Item("x", "./up", "X", 2), Item("x", "/g", "Y", 1)}
ASSUME Limits!LimitEditAssumption

-----------------------------------------------------------------------------
(* One part moves *)

Parts == {"checkpoint", "server", "access", "catalog", "calendar", "expression", "paths", "attributes", "limits"}

MCInit ==
  /\ focus \in Parts /\ Init
  /\ ServerInit /\ (focus # "server" => deployment = Bare)
  /\ IF focus = "access" THEN Access!AuthInit
     ELSE /\ text = Resting /\ stamp = Resting /\ cached = Resting /\ gate = Resting
          /\ ever = Resting /\ always = Resting /\ callState = Resting /\ audited = Resting
          /\ auditFile = Resting
  /\ IF focus = "catalog" THEN Catalog!CatalogInit
     ELSE /\ object = Resting /\ flows = Resting
  /\ IF focus = "calendar" THEN Calendar!CalendarInit
     ELSE /\ clock = Resting /\ passTime = Resting /\ serving = Resting
          /\ suspended = Resting /\ flow = Resting /\ savedFlow = Resting
  /\ IF focus = "expression" THEN Expression!ExpressionInit
     ELSE /\ formula = Resting /\ phrases = Resting
  /\ IF focus = "paths" THEN Paths!PathInit
     ELSE /\ owner = Resting /\ reference = Resting /\ stage = Resting /\ bound = Resting
  /\ IF focus = "attributes" THEN Attributes!NodeStateInit
     ELSE /\ node = Resting /\ loaded = Resting
  /\ IF focus = "limits" THEN Limits!LimitEditInit
     ELSE /\ lists = Resting /\ running = Resting /\ holders = Resting /\ used = Resting

\* A step of part: focus stays and the variables of the others do not change.
Only(part) ==
  /\ focus = part /\ UNCHANGED focus
  /\ part # "checkpoint" => UNCHANGED vars
  /\ part # "server" => UNCHANGED serverVars
  /\ part # "access" => UNCHANGED accessVars
  /\ part # "catalog" => UNCHANGED catalogVars
  /\ part # "calendar" => UNCHANGED calendarVars
  /\ part # "expression" => UNCHANGED expressionVars
  /\ part # "paths" => UNCHANGED pathVars
  /\ part # "attributes" => UNCHANGED attributeVars
  /\ part # "limits" => UNCHANGED limitVars

MCNext ==
  \/ Only("checkpoint") /\ Next
  \/ Only("server") /\ ServerNext
  \/ Only("access") /\ Access!AuthNext
  \/ Only("catalog") /\ Catalog!CatalogNext
  \/ Only("calendar") /\ Calendar!CalendarNext
  \/ Only("expression") /\ Expression!ExpressionNext
  \/ Only("paths") /\ Paths!PathNext
  \/ Only("attributes") /\ Attributes!NodeStateNext
  \/ Only("limits") /\ Limits!LimitEditNext

MCVars == <<focus, vars, serverVars, accessVars, catalogVars, calendarVars, expressionVars, pathVars, attributeVars, limitVars>>
MCSpec == MCInit /\ [][MCNext]_MCVars

-----------------------------------------------------------------------------
(* Properties of the parts; those of Checkpoint and ServerLifecycle stand in *)
(* their modules                                                            *)

\* An edit of the secret or the whitelist file decides the calls that follow
\* it, whatever the credential cache holds (server/auth.py), and every operator
\* call that was refused or run is in the audit trail once (server/audit.py).
VerdictMatchesFiles ==
  [][focus = "access" => Access!TrueVerdict /\ Access!DecisionsAreAudited']_accessVars

\* After any load, replacement, run, requeue, restore or edit of in-limits the
\* tree can be captured, so that the next save is not refused and the service
\* not halted by it; every reference leads to a flow of the live tree; and the
\* state of a node that is stored is read back by each of its codecs.
NextSaveSucceeds ==
  /\ focus = "catalog" => Catalog!AlwaysCapturable /\ Catalog!ReferencesAreLive
  /\ focus = "limits" => Limits!ReservationsExact
  /\ focus = "attributes" => Attributes!ReadIsWritten

\* The logical clock does not drift, and a timed task is released only by
\* hand or by one of its minutes (calendar.py, time_attr.py).
ReleaseIsDue ==
  [][focus = "calendar" => Calendar!DueRelease /\ Calendar!NoDrift]_calendarVars

\* A trigger means one thing: its two parsers agree with each other and with
\* the precedence of the operators, and a checkpoint stores each reference in
\* it as it was bound.
TriggersMeanOneThing ==
  /\ focus = "expression" => Expression!OneReading
  /\ focus = "paths" => Paths!LoadedIsSaved

\* A batch sees every change of a node in its dictionary (server/batch.py).
EveryChangeShows == [][focus = "attributes" => Attributes!Told]_attributeVars
=============================================================================
