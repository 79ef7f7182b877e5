----------------------------- MODULE MCClients -----------------------------
(***************************************************************************)
(* The client side: the calls of the command line with their retries, how  *)
(* a client is set up and its requests are encoded, and the terminal user  *)
(* interface.  The parts share no state; `focus` picks the part that moves *)
(* and the variables of the others rest.                                   *)
(*                                                                         *)
(* Commands has two tasks in their second attempt, one submitted and one   *)
(* aborted.                                                                *)
(***************************************************************************)
EXTENDS Commands, TLC

CONSTANTS a, b, NoQuery, NoPath, Resting

MCWindow == "child" :> 9 @@ "control" :> 2 @@ "query" :> 2
MCConfigs ==
  {[auth |-> TRUE, policy |-> p, failFast |-> p = "fail"] : p \in {"fail", "fob", "adopt"}}
MCStarted == a :> "submitted" @@ b :> "aborted"
MCBatches == {<<b, a>>, <<Missing, b>>}

VARIABLES
  focus,
  published, secretText, caText, edits, environment, client, sent,
  request, transport, step, message, received, reply, answer,
  live, current, serial, shown, scope, selected, refreshSeq, detailSeq,
  refresh, detail, tabs, stale,
  treeView, tree, chosen, refreshes,
  tries, known, drawn, activeTab, dirty, activated, asked, body, readers,
  selections,
  picked, cursorAt, moved, inTree, screen, orders, gestures, arrivals

setupVars == <<published, secretText, caText, edits, environment, client, sent>>
wireVars == <<request, transport, step, message, received, reply, answer>>
refreshVars == <<live, current, serial, shown, scope, selected, refreshSeq, detailSeq,
                 refresh, detail, tabs, stale>>
treeVars == <<treeView, tree, chosen, refreshes>>
tabVars == <<tries, known, drawn, activeTab, dirty, activated, asked, body, readers,
             selections>>
actionVars == <<picked, cursorAt, moved, inTree, screen, orders, gestures, arrivals>>

-----------------------------------------------------------------------------
(* Settings of a client: four connect files and every mix of overrides *)

File(transp, http, ca, secret) ==
  [host |-> "h", port |-> "1", http |-> http, transport |-> transp, ca |-> ca, secret |-> secret]
Env(file, transp, port, ca, secret) ==
  [file |-> file, host |-> "eh", port |-> port, transport |-> transp, ca |-> ca, secret |-> secret,
   pass |-> "pw", user |-> "u"]
Setup ==
  INSTANCE ClientSetup
  WITH Configs <- {File("", "", "", "s1"), File("http", "2", "ca", ""), File("ftp", "2", "", "s2"),
                   File("grpc", "2", "ca", "s1")},
       Environments <- {Env(f, t, p, ca, s) : f \in BOOLEAN, t \in {"", "http"}, p \in {"", "9"},
                                              ca \in {"", "ca"}, s \in {"", "s2"}},
       Flags <- {[host |-> "", port |-> ""], [host |-> "fh", port |-> "7"]},
       SecretFiles <- {"s1", "s2"}, CaFiles <- {"ca"}, MaxEdits <- 1
ASSUME Setup!ClientSetupAssumption

\* Four-bit integers: the least and the greatest and one beyond each
OnTheWire ==
  INSTANCE Wire
  WITH Number <- ("0" :> 0) @@ ("7" :> 7) @@ ("8" :> 8) @@ ("-8" :> -8) @@ ("-9" :> -9),
       Word <- {"w"}, NotDecimal <- {"", "abc", "007"}, Width <- 8
ASSUME OnTheWire!WireAssumption

-----------------------------------------------------------------------------
(* The terminal user interface *)

Refresh ==
  INSTANCE TuiRefresh
  WITH Task <- {"a", "b"}, Scope <- {"root", "flow"}, MaxRefresh <- 3, MaxDetail <- 1, MaxAttempt <- 2

\* The flow f of a and the container c of x, with and without a; and a flow g
ShownPaths == {"f", "g", "a", "c", "x"}
ShownTree(top, inF) ==
  [p \in {"/"} \union ShownPaths |->
     CASE p = "/" -> top [] p = "f" -> inF [] p = "c" -> <<"x">> [] OTHER -> <<>>]
Tree ==
  INSTANCE TuiTree
  WITH Top <- "/", Paths <- ShownPaths,
       Parent <- [p \in ShownPaths |-> CASE p \in {"f", "g"} -> "/" [] p = "x" -> "c" [] OTHER -> "f"],
       Views <- {ShownTree(<<"f", "g">>, <<"a", "c">>), ShownTree(<<"g", "f">>, <<"c">>)},
       Attributed <- {"f"}, ChildBatch <- 1, MaxSnapshots <- 1, MaxDeltas <- 2
ASSUME Tree!TuiTreeAssumption

Tabs ==
  INSTANCE TuiTabs
  WITH TabTasks <- {"t"}, TabContainers <- {"f"}, Nobody <- "nobody", LeftOver <- {"t"}, Redacted <- {},
       HomeIsVisible <- TRUE, MaxTries <- 1, MaxSelections <- 2, MaxFileThreads <- 1

Actions ==
  INSTANCE TuiActions
  WITH ActTasks <- {"t", "u"}, ActContainers <- {"f"}, NoPick <- "nobody", MaxRefreshes <- 1, MaxGestures <- 3

\* Nothing tells two invocations apart but what they were asked to do.
Callers == Permutations(Caller)

-----------------------------------------------------------------------------
(* One part moves *)

Parts == {"calls", "setup", "wire", "refresh", "tree", "tabs", "actions"}

MCInit ==
  /\ focus \in Parts /\ Init
  /\ focus # "calls" => conf = CHOOSE c \in Configs : TRUE
  /\ IF focus = "setup" THEN Setup!ClientSetupInit
     ELSE /\ published = Resting /\ secretText = Resting /\ caText = Resting
          /\ edits = Resting /\ environment = Resting /\ client = Resting /\ sent = Resting
  /\ IF focus = "wire" THEN OnTheWire!WireInit
     ELSE /\ request = Resting /\ transport = Resting /\ step = Resting /\ message = Resting
          /\ received = Resting /\ reply = Resting /\ answer = Resting
  /\ IF focus = "refresh" THEN Refresh!TuiInit
     ELSE /\ live = Resting /\ current = Resting /\ serial = Resting /\ shown = Resting
          /\ scope = Resting /\ selected = Resting /\ refreshSeq = Resting
          /\ detailSeq = Resting /\ refresh = Resting /\ detail = Resting /\ tabs = Resting
          /\ stale = Resting
  /\ IF focus = "tree" THEN Tree!TuiTreeInit
     ELSE /\ treeView = Resting /\ tree = Resting /\ chosen = Resting /\ refreshes = Resting
  /\ IF focus = "tabs" THEN Tabs!TuiTabsInit
     ELSE /\ tries = Resting /\ known = Resting /\ drawn = Resting /\ activeTab = Resting
          /\ dirty = Resting /\ activated = Resting /\ asked = Resting /\ body = Resting
          /\ readers = Resting /\ selections = Resting
  /\ IF focus = "actions" THEN Actions!TuiActionsInit
     ELSE /\ picked = Resting /\ cursorAt = Resting /\ moved = Resting /\ inTree = Resting
          /\ screen = Resting /\ orders = Resting /\ gestures = Resting /\ arrivals = Resting

\* A step of part: focus stays and the variables of the others do not change.
Only(part) ==
  /\ focus = part /\ UNCHANGED focus
  /\ part # "calls" => UNCHANGED vars
  /\ part # "setup" => UNCHANGED setupVars
  /\ part # "wire" => UNCHANGED wireVars
  /\ part # "refresh" => UNCHANGED refreshVars
  /\ part # "tree" => UNCHANGED treeVars
  /\ part # "tabs" => UNCHANGED tabVars
  /\ part # "actions" => UNCHANGED actionVars

MCNext ==
  \/ Only("calls") /\ Next
  \/ Only("setup") /\ Setup!ClientSetupNext
  \/ Only("wire") /\ OnTheWire!WireNext
  \/ Only("refresh") /\ Refresh!TuiNext
  \/ Only("tree") /\ Tree!TuiTreeNext
  \/ Only("tabs") /\ Tabs!TuiTabsNext
  \/ Only("actions") /\ Actions!TuiActionsNext

MCVars == <<focus, vars, setupVars, wireVars, refreshVars, treeVars, tabVars, actionVars>>
MCSpec == MCInit /\ [][MCNext]_MCVars

-----------------------------------------------------------------------------
(* Properties of the parts; those of the calls stand in Commands *)

\* A client speaks to a listener of the server its connect file describes, a
\* call carries the credentials of its own kind, and over either transport
\* the handler gets what the caller gave and the caller what it answered.
CallsArriveAsMeant ==
  /\ focus = "setup" => Setup!DialsAListener /\ Setup!CredentialsFit
  /\ focus = "wire" => OnTheWire!TransportIsTransparent

\* What is shown never goes back to an older revision or another scope,
\* whatever threads are late (tui/app.py, _refresh_seq).
ShownFollows == [][focus = "refresh" => Refresh!ShowsNewer]_refreshVars

\* What the user sees is what they act on: the rows of the tree are those of
\* the view whatever batches and refreshes follow one another, no tab is left
\* with an older node or detail, and a state is forced only on the node that the
\* prompt named.
ScreenShowsView ==
  /\ focus = "tree" => Tree!TreeShowsView
  /\ focus = "tabs" => Tabs!TabsAreAsked
  /\ focus = "actions" => Actions!ForcedIsConfirmed
=============================================================================
