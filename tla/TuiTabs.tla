------------------------------- MODULE TuiTabs -------------------------------
(***************************************************************************)
(* The tabs of the terminal interface (tui/app.py, tui/tabs): only the     *)
(* active one is drawn, the others when they are opened; the script, job   *)
(* and output tabs read files on threads and draw what they got later.     *)
(*                                                                         *)
(* A file of a task is the number of the attempt that wrote it (its name   *)
(* ends in the attempt's identity), 0 is one whose name ends in ".0".      *)
(* What the detail of a task says of its job or output file is a number,   *)
(* Unset, or Blocked when the parameter is null or redacted.             *)
(***************************************************************************)
EXTENDS Integers, Sequences, FiniteSets, TLC

CONSTANTS
  TabTasks, TabContainers,  \* the nodes that can be shown
  Nobody,                   \* no node
  LeftOver,                 \* the tasks with a file whose name ends in ".0"
  Redacted,                 \* the tasks whose file parameters are redacted
  HomeIsVisible,            \* TAKLER_HOME resolves and is readable here
  MaxTries, MaxSelections,  \* bounds: tries of each task, selections
  MaxFileThreads            \* bound: file threads at a time

VARIABLES
  tries,       \* how many tries of each task have written their files
  known,       \* what the view knows of each task's files
  drawn,       \* _current_node, with what was known of it
  activeTab,   \* TabbedContent.active
  dirty,       \* _dirty_panes
  activated,   \* a TabActivated message is on its way
  asked,       \* what show_node of each tab was last called with
  body,        \* what each tab shows
  readers,     \* file threads that have not handed over their result
  selections

tabVars == <<tries, known, drawn, activeTab, dirty, activated, asked, body, readers, selections>>

Unset == -1
Blocked == -2
Message == -3     \* the tab says that there is no file
Loading == -4
TaskTabs == {"script", "job", "output"}
Tabs == {"info"} \union TaskTabs
TabNodes == TabTasks \union TabContainers
Undrawn == [node |-> Nobody, file |-> Unset]

\* A job file and an output file of one attempt stand for one number.
Written(n) ==
  IF n \in TabTasks THEN 1..tries[n] \union (IF n \in LeftOver THEN {0} ELSE {}) ELSE {}

\* JobTab._pick_job, OutputTab._pick_output with _collect_files: the file of
\* try 0, or the newest whose name ends in digits, which that of an attempt
\* does not.
PickJob(n) == IF 0 \in Written(n) THEN 0 ELSE Message
PickOutput(n) == IF 0 \in Written(n) THEN 0 ELSE Message
\* _tail_lines, _FileViewTab._read_file: the file, or an error
ReadFile(n, f) == IF f \in Written(n) THEN f ELSE Message

\* artifact_prefix
HasPrefix(n) == n # Nobody /\ HomeIsVisible

Reader(tab, n, f) == [tab |-> tab, node |-> n, file |-> f, found |-> Loading]
NoReader == {}

\* What a tab shows at once, and the thread it starts.
\* ScriptTab.show_node, _resolve_script: the script of a task never changes.
ShowScript(d) ==
  IF d.node \notin TabTasks THEN [shows |-> Message, starts |-> NoReader]
  ELSE [shows |-> Loading, starts |-> {Reader("script", d.node, 0)}]

\* JobTab.show_node
ShowJob(d) ==
  IF d.file = Blocked \/ (d.file = Unset /\ ~HasPrefix(d.node)) THEN [shows |-> Message, starts |-> NoReader]
  ELSE [shows |-> Loading, starts |-> {Reader("job", d.node, d.file)}]

\* OutputTab.show_node
ShowOutput(d) ==
  IF d.file = Blocked \/ (d.file = Unset /\ ~HasPrefix(d.node)) THEN [shows |-> Message, starts |-> NoReader]
  ELSE [shows |-> Loading, starts |-> {Reader("output", d.node, d.file)}]

\* InfoTab.show_node, ParametersTab.show_node: no thread
ShowInfo(d) == [shows |-> d.file, starts |-> NoReader]

ShowNode(tab, d) ==
  CASE tab = "info" -> ShowInfo(d)
    [] d.node = Nobody -> [shows |-> Message, starts |-> NoReader]
    [] tab = "script" -> ShowScript(d)
    [] tab = "job" -> ShowJob(d)
    [] OTHER -> ShowOutput(d)

TuiTabsInit ==
  /\ tries = [n \in TabTasks |-> 0]
  /\ known = [n \in TabNodes |-> Unset]
  /\ drawn = Undrawn /\ activeTab = "info" /\ dirty = {} /\ activated = FALSE
  /\ asked = [t \in Tabs |-> Undrawn]
  /\ body = [t \in Tabs |-> [node |-> Nobody, file |-> Message]]
  /\ readers = {} /\ selections = 0

\* TaklerTuiApp._render_active_tab
RenderActiveTab(tab, d, unseen) ==
  IF tab \in unseen
  THEN LET s == ShowNode(tab, d) IN
       /\ Cardinality(readers \union s.starts) <= MaxFileThreads
       /\ asked' = [asked EXCEPT ![tab] = d]
       /\ body' = [body EXCEPT ![tab] = [node |-> d.node, file |-> s.shows]]
       /\ readers' = readers \union s.starts
       /\ dirty' = unseen \ {tab}
  ELSE dirty' = unseen /\ UNCHANGED <<asked, body, readers>>

\* TaklerTuiApp._update_tab_visibility: a tab of tasks only is left, by a
\* change of the active tab that is also told by a message.
VisibleTab(n) == IF n \notin TabTasks /\ activeTab \in TaskTabs THEN "info" ELSE activeTab

\* Mutant: the tabs that were drawn are taken to be up to date.
RenderTabsLazily(d) ==
  /\ drawn' = d
  /\ activeTab' = VisibleTab(d.node)
  /\ activated' = (activated \/ activeTab' # activeTab)
  /\ RenderActiveTab(activeTab', d, dirty \union {activeTab'})

\* TaklerTuiApp._render_tabs
RenderTabs(d) ==
  /\ drawn' = d
  /\ activeTab' = VisibleTab(d.node)
  /\ activated' = (activated \/ activeTab' # activeTab)
  /\ RenderActiveTab(activeTab', d, Tabs)

SelectNode(n) ==
  /\ selections < MaxSelections
  /\ selections' = selections + 1
  /\ RenderTabs([node |-> n, file |-> IF n = Nobody THEN Unset ELSE known[n]])
  /\ UNCHANGED <<tries, known>>

\* QueryTuiView.apply_detail, TaklerTuiApp._apply_detail: the detail that the
\* selection asked for arrives.
DetailOf(n) == IF n \notin TabTasks \/ tries[n] = 0 THEN Unset ELSE IF n \in Redacted THEN Blocked ELSE tries[n]
ApplyDetailToTabs ==
  /\ drawn.node # Nobody /\ known[drawn.node] # DetailOf(drawn.node)
  /\ known' = [known EXCEPT ![drawn.node] = DetailOf(drawn.node)]
  /\ RenderTabs([node |-> drawn.node, file |-> DetailOf(drawn.node)])
  /\ UNCHANGED <<tries, selections>>

\* A task of the server runs once more, and writes its files.  The refresh
\* that brings the change forgets the detail (QueryTuiView.apply_delta).
Attempt(n) ==
  /\ tries[n] < MaxTries
  /\ tries' = [tries EXCEPT ![n] = @ + 1]
  /\ UNCHANGED <<known, drawn, activeTab, dirty, activated, asked, body, readers, selections>>
DeltaForgets(n) ==
  /\ known[n] # Unset
  /\ known' = [known EXCEPT ![n] = Unset]
  /\ IF drawn.node = n THEN RenderTabs([node |-> n, file |-> Unset])
     ELSE UNCHANGED <<drawn, activeTab, dirty, activated, asked, body, readers>>
  /\ UNCHANGED <<tries, selections>>

\* The user opens a tab that is visible.
OpenTab(tab) ==
  /\ tab # activeTab /\ (tab \in TaskTabs => drawn.node \in TabTasks)
  /\ activeTab' = tab /\ activated' = TRUE
  /\ UNCHANGED <<tries, known, drawn, dirty, asked, body, readers, selections>>

\* TaklerTuiApp.on_tabbed_content_tab_activated
TabActivated ==
  /\ activated /\ activated' = FALSE
  /\ RenderActiveTab(activeTab, drawn, dirty)
  /\ UNCHANGED <<tries, known, drawn, activeTab, selections>>

\* OutputTab._load_output, JobTab._load_job, _FileViewTab._read_file on a thread
ReaderReads(r) ==
  /\ r.found = Loading
  /\ LET file == IF r.file # Unset THEN r.file ELSE IF r.tab = "job" THEN PickJob(r.node) ELSE PickOutput(r.node)
         found == IF r.tab = "script" THEN 0 ELSE ReadFile(r.node, file)
     IN  readers' = (readers \ {r}) \union {[r EXCEPT !.found = found]}
  /\ UNCHANGED <<tries, known, drawn, activeTab, dirty, activated, asked, body, selections>>

\* _apply_output, _apply_job, _apply_file: on the main thread, whatever the
\* tab was asked for since.
ReaderApplies(r) ==
  /\ r.found # Loading
  /\ readers' = readers \ {r}
  /\ body' = [body EXCEPT ![r.tab] = [node |-> r.node, file |-> r.found]]
  /\ UNCHANGED <<tries, known, drawn, activeTab, dirty, activated, asked, selections>>

\* OutputTab.on_data_table_row_selected, _tail_file: another file of the list.
RowSelected(f) ==
  /\ Cardinality(readers) < MaxFileThreads
  /\ activeTab = "output" /\ body["output"].file >= 0 /\ f \in Written(body["output"].node)
  /\ f # body["output"].file
  /\ readers' = readers \union {Reader("output", body["output"].node, f)}
  /\ body' = [body EXCEPT !["output"].file = Loading]
  /\ UNCHANGED <<tries, known, drawn, activeTab, dirty, activated, asked, selections>>

TuiTabsNext ==
  \/ \E n \in TabNodes \union {Nobody} : SelectNode(n)
  \/ ApplyDetailToTabs
  \/ \E n \in TabTasks : Attempt(n)
  \/ \E n \in TabNodes : DeltaForgets(n)
  \/ \E tab \in Tabs : OpenTab(tab)
  \/ TabActivated
  \/ \E r \in readers : ReaderReads(r)
  \/ \E r \in readers : ReaderApplies(r)
  \/ \E f \in 0..MaxTries : RowSelected(f)

TuiTabsSpec == TuiTabsInit /\ [][TuiTabsNext]_tabVars

-----------------------------------------------------------------------------
(* Properties *)

\* Lazy drawing loses nothing.  A tab that is not marked dirty was last asked
\* to draw the node of the panel with what is known of it; the active tab is
\* dirty only while the message that will draw it is on its way; and a tab
\* for tasks is not active on another node.
TabsAreAsked ==
  /\ \A t \in Tabs \ dirty : asked[t] = drawn
  /\ activeTab \in dirty => activated
  /\ activeTab \in TaskTabs => drawn.node \in TabTasks

\* The tab that is looked at shows the file it was last asked for once every
\* thread has handed over its result (it prefers the file of the view).
\* It does not hold: README, "Also observed".
TabShowsAsked ==
  (readers = {} /\ ~activated /\ activeTab = "job" /\ drawn.file > 0)
    => body["job"] = [node |-> drawn.node, file |-> drawn.file]
=============================================================================
