--------------------------- MODULE SummaryCapture ---------------------------
(***************************************************************************)
(* How the query service shares the work of a snapshot (query_service.py): *)
(* readers of one query share a capture, captures of one selection share   *)
(* the pages a worker builds, and every reader may go away at any time.    *)
(*                                                                         *)
(* An owner is a set of credentials; a query is an owner and a scope, a    *)
(* capture a query at a version, a selection a scope at a version.  Sizes  *)
(* in bytes are left out: a build or a publication may fail for them.      *)
(***************************************************************************)
EXTENDS Integers, Sequences, FiniteSets, Functions

CONSTANTS
  Reader, Owner,
  OwnerOf,             \* the owner of each reader
  Scopes,
  MaxSnapshots, MaxOwnerSnapshots, MaxReaders, MaxRoots, MaxWorkers,
  MaxLeases, MaxOwnerLeases,
  MaxVersion           \* bound: versions of the tree

\* Requests are finitely many and have an owner; the limits are module
\* constants of query_service.py that leave room for one.
ASSUME CaptureAssumption ==
  /\ IsFiniteSet(Reader) /\ OwnerOf \in [Reader -> Owner]
  /\ {MaxSnapshots, MaxOwnerSnapshots, MaxLeases, MaxOwnerLeases, MaxVersion} \subseteq Nat \ {0}
  /\ {MaxReaders, MaxRoots, MaxWorkers} \subseteq Nat

VARIABLES
  version,     \* VersionStore.current
  reader,      \* the request of each reader
  captures,    \* _captures: the live readers of each
  builds,      \* _content_captures
  snapshots,   \* _snapshots, in the order of publication
  leases,      \* _query_leases, in the order of renewal
  reserved, ownerReserved, captureReaders, closed

captureVars == <<version, reader, captures, builds, snapshots, leases, reserved, ownerReserved,
                 captureReaders, closed>>

Idle == [state |-> "idle"]
Answered(r, reply) == [reader EXCEPT ![r] = [state |-> "answered", shared |-> FALSE, reply |-> reply]]
Waits(r, key, shared) == [reader EXCEPT ![r] = [state |-> "waiting", key |-> key, shared |-> shared]]
Cancelled(r) == [reader EXCEPT ![r].state = "cancelled"]
Key(r, scope) == [owner |-> OwnerOf[r], scope |-> scope, version |-> version]
Selection(key) == [scope |-> key.scope, version |-> key.version]
Query(key) == [owner |-> key.owner, scope |-> key.scope]
With(f, x, y) == [z \in DOMAIN f \cup {x} |-> IF z = x THEN y ELSE f[z]]
Less(f, x) == Restrict(f, DOMAIN f \ {x})
Running == {s \in DOMAIN builds : builds[s].state = "running"}

CaptureInit ==
  /\ version = 1 /\ reader = [r \in Reader |-> Idle]
  /\ captures = <<>> /\ builds = <<>> /\ snapshots = <<>> /\ leases = <<>>
  /\ reserved = 0 /\ ownerReserved = [o \in Owner |-> 0] /\ captureReaders = 0 /\ closed = FALSE

\* The entries of an ordered table that belong to o, and the table without the
\* oldest of some entries, if there are any
OwnedBy(s, o) == {i \in DOMAIN s : s[i].owner = o}
Removed(s, i) == [j \in 1..Len(s) - 1 |-> IF j < i THEN s[j] ELSE s[j + 1]]
Spared(s, entries) ==
  IF entries = {} THEN s ELSE Removed(s, CHOOSE i \in entries : \A j \in entries : i <= j)

\* QueryService._replaceable_snapshot: those of an owner with all it may have,
\* of which the oldest gives way
ReplaceableSnapshot(o) ==
  LET owned == OwnedBy(snapshots, o) IN IF Cardinality(owned) >= MaxOwnerSnapshots THEN owned ELSE {}

\* QueryService._renew_lease
RenewLease(query) ==
  LET kept   == Spared(leases, {i \in DOMAIN leases : leases[i] = query})
      owned  == OwnedBy(kept, query.owner)
      spared == Spared(kept, IF Cardinality(owned) >= MaxOwnerLeases THEN owned ELSE {})
  IN  Append(Spared(spared, IF Len(spared) >= MaxLeases THEN DOMAIN spared ELSE {}), query)

\* QueryService._publish_snapshot: the pages are kept, or there is no room
Room(key) == Len(Spared(snapshots, ReplaceableSnapshot(key.owner))) < MaxSnapshots
Publish(key) ==
  /\ snapshots' = Append(Spared(snapshots, ReplaceableSnapshot(key.owner)), key)
  /\ leases' = RenewLease(Query(key))

Unpublished == UNCHANGED <<snapshots, leases>>

\* The pages of this version that are kept and fresh enough
Fresh(key) == {i \in DOMAIN snapshots : Selection(snapshots[i]) = Selection(key)}

Refuse(r, reason) ==
  /\ reader' = Answered(r, reason)
  /\ UNCHANGED <<captures, builds, snapshots, leases, reserved, ownerReserved, captureReaders>>

\* QueryService._page for a query whose pages are kept
Reuse(r, key) ==
  /\ Fresh(key) # {}
  /\ IF \E i \in Fresh(key) : snapshots[i] = key
     THEN /\ snapshots' = snapshots /\ leases' = RenewLease(Query(key))
          /\ reader' = Answered(r, "pages")
     ELSE /\ key \notin DOMAIN captures
          /\ ownerReserved[key.owner] < MaxOwnerSnapshots
          /\ Len(snapshots) + reserved < MaxSnapshots \/ ReplaceableSnapshot(key.owner) # {}
          /\ IF Room(key) THEN Publish(key) /\ reader' = Answered(r, "pages")
             ELSE Unpublished /\ reader' = Answered(r, "exhausted")
  /\ UNCHANGED <<captures, builds, reserved, ownerReserved, captureReaders>>

\* ... and for one whose pages are not, or are too old
Capture(r, key) ==
  IF key \in DOMAIN captures
  THEN IF reserved + captureReaders >= MaxReaders THEN Refuse(r, "exhausted")
       ELSE /\ reader' = Waits(r, key, TRUE)
            /\ captures' = [captures EXCEPT ![key] = @ + 1]
            /\ captureReaders' = captureReaders + 1
            /\ UNCHANGED <<builds, snapshots, leases, reserved, ownerReserved>>
  ELSE LET selection == Selection(key)
           roots     == {s.version : s \in DOMAIN builds}
       IN  IF \/ ownerReserved[key.owner] >= MaxOwnerSnapshots
              \/ Len(snapshots) + reserved >= MaxSnapshots /\ ReplaceableSnapshot(key.owner) = {}
              \/ reserved + captureReaders >= MaxReaders
              \/ selection \notin DOMAIN builds /\ version \notin roots /\ Cardinality(roots) >= MaxRoots
           THEN Refuse(r, "exhausted")
           ELSE /\ reader' = Waits(r, key, FALSE)
                /\ captures' = With(captures, key, 1)
                /\ builds' = IF selection \in DOMAIN builds
                             THEN [builds EXCEPT ![selection].readers = @ + 1]
                             ELSE With(builds, selection, [readers |-> 1, state |-> "queued", result |-> "none"])
                /\ reserved' = reserved + 1
                /\ ownerReserved' = [ownerReserved EXCEPT ![key.owner] = @ + 1]
                /\ UNCHANGED <<snapshots, leases, captureReaders>>

\* QueryService._page up to its await
Page(r) ==
  /\ reader[r] = Idle
  /\ \E scope \in Scopes :
       LET key == Key(r, scope)
       IN  IF closed THEN Refuse(r, "closed")
           ELSE Reuse(r, key) \/ Capture(r, key)
  /\ UNCHANGED <<version, closed>>

\* The request of r is cancelled: it still waits for the worker.
Cancel(r) ==
  /\ reader[r].state = "waiting"
  /\ captures' = [captures EXCEPT ![reader[r].key] = @ - 1]
  /\ reader' = Cancelled(r)
  /\ UNCHANGED <<version, builds, snapshots, leases, reserved, ownerReserved, captureReaders, closed>>

\* _page after its await, or after a second cancellation
Leave(r) ==
  /\ reader[r].state \in {"answered", "cancelled"}
  /\ captureReaders' = captureReaders - (IF reader[r].shared THEN 1 ELSE 0)
  /\ reader' = [reader EXCEPT ![r] = Idle]
  /\ UNCHANGED <<version, captures, builds, snapshots, leases, reserved, ownerReserved, closed>>

\* QueryService._build_content with a free worker
StartBuild(s) ==
  /\ s \in DOMAIN builds /\ builds[s].state = "queued" /\ Cardinality(Running) < MaxWorkers
  /\ IF closed \/ ~\E key \in DOMAIN captures : Selection(key) = s /\ captures[key] > 0
     THEN builds' = [builds EXCEPT ![s].state = "built", ![s].result = "abandoned"]
     ELSE builds' = [builds EXCEPT ![s].state = "running"]
  /\ UNCHANGED <<version, reader, captures, snapshots, leases, reserved, ownerReserved, captureReaders, closed>>

\* Mutant: the error of a worker that fails is lost.
EndBuildSilent(s) ==
  /\ s \in DOMAIN builds /\ builds[s].state = "running" /\ ~closed
  /\ builds' = [builds EXCEPT ![s].state = "built", ![s].result = "pages"]
  /\ UNCHANGED <<version, reader, captures, snapshots, leases, reserved, ownerReserved, captureReaders, closed>>

\* ... and when the worker is done, with pages or without
EndBuild(s) ==
  /\ s \in DOMAIN builds /\ builds[s].state = "running"
  /\ \E result \in {"pages", "failed"} :
       /\ closed => result = "failed"
       /\ builds' = [builds EXCEPT ![s].state = "built", ![s].result = result]
  /\ UNCHANGED <<version, reader, captures, snapshots, leases, reserved, ownerReserved, captureReaders, closed>>

\* Mutant: a capture nobody waits for any more keeps its reservation.
FinishLeaks(key) ==
  LET s == Selection(key)
  IN  /\ builds' = IF builds[s].readers = 1 THEN Less(builds, s) ELSE [builds EXCEPT ![s].readers = @ - 1]
      /\ captures' = Less(captures, key)
      /\ reserved' = reserved - (IF captures[key] = 0 THEN 0 ELSE 1)
      /\ ownerReserved' = [ownerReserved EXCEPT ![key.owner] = @ - 1]

\* The cleanup of QueryService._capture_snapshot
Finish(key) ==
  LET s == Selection(key)
  IN  /\ builds' = IF builds[s].readers = 1 THEN Less(builds, s) ELSE [builds EXCEPT ![s].readers = @ - 1]
      /\ captures' = Less(captures, key)
      /\ reserved' = reserved - 1
      /\ ownerReserved' = [ownerReserved EXCEPT ![key.owner] = @ - 1]

Answers(key, reply) ==
  reader' = [r \in Reader |-> IF reader[r].state \in {"waiting", "cancelled"} /\ reader[r].key = key
                              THEN [state |-> "answered", shared |-> reader[r].shared,
                                    reply |-> IF reader[r].state = "cancelled" THEN "cancelled" ELSE reply]
                              ELSE reader[r]]

\* QueryService._capture_snapshot once the pages are there
EndCapture(key) ==
  /\ key \in DOMAIN captures /\ builds[Selection(key)].state = "built"
  /\ LET result == builds[Selection(key)].result
     IN  \/ /\ closed \/ captures[key] = 0
            /\ Unpublished /\ Answers(key, "abandoned")
         \/ /\ ~closed /\ captures[key] > 0 /\ result # "pages"
            /\ Unpublished /\ Answers(key, result)
         \/ /\ ~closed /\ captures[key] > 0 /\ result = "pages"
            /\ \/ Room(key) /\ Publish(key) /\ Answers(key, "pages")
               \/ Unpublished /\ Answers(key, "failed")
  /\ Finish(key)
  /\ UNCHANGED <<version, captureReaders, closed>>

\* QueryService._purge
DropSnapshot ==
  /\ \E i \in DOMAIN snapshots : snapshots' = Removed(snapshots, i)
  /\ UNCHANGED <<version, reader, captures, builds, leases, reserved, ownerReserved, captureReaders, closed>>
DropLease ==
  /\ \E i \in DOMAIN leases : leases' = Removed(leases, i)
  /\ UNCHANGED <<version, reader, captures, builds, snapshots, reserved, ownerReserved, captureReaders, closed>>

\* The tree changes.
NewVersion ==
  /\ version < MaxVersion /\ version' = version + 1
  /\ UNCHANGED <<reader, captures, builds, snapshots, leases, reserved, ownerReserved, captureReaders, closed>>

\* QueryService.close
CloseQueries ==
  /\ ~closed /\ closed' = TRUE /\ snapshots' = <<>> /\ leases' = <<>>
  /\ UNCHANGED <<version, reader, captures, builds, reserved, ownerReserved, captureReaders>>

Keys == [owner : Owner, scope : Scopes, version : 1..MaxVersion]
AllSelections == [scope : Scopes, version : 1..MaxVersion]

CaptureNext ==
  \/ \E r \in Reader : Page(r)
  \/ \E r \in Reader : Cancel(r)
  \/ \E r \in Reader : Leave(r)
  \/ \E s \in AllSelections : StartBuild(s)
  \/ \E s \in AllSelections : EndBuild(s)
  \/ \E key \in Keys : EndCapture(key)
  \/ DropSnapshot
  \/ DropLease
  \/ NewVersion
  \/ CloseQueries

\* The event loop runs every task that is ready, and a worker ends.
CaptureFairness ==
  /\ \A s \in AllSelections : WF_captureVars(StartBuild(s)) /\ WF_captureVars(EndBuild(s))
  /\ \A key \in Keys : WF_captureVars(EndCapture(key))

CaptureSpec == CaptureInit /\ [][CaptureNext]_captureVars /\ CaptureFairness

-----------------------------------------------------------------------------
(* Properties *)

Waiting(key) == {r \in Reader : reader[r].state = "waiting" /\ reader[r].key = key}

\* The counters the limits are checked against are exact, whatever readers
\* are cancelled and whenever: nothing a reader reserved is lost or released
\* twice, and no limit is exceeded.
SharingIsExact ==
  /\ \A key \in DOMAIN captures : captures[key] = Cardinality(Waiting(key))
  /\ \A s \in DOMAIN builds :
       /\ builds[s].readers = Cardinality({key \in DOMAIN captures : Selection(key) = s})
       /\ builds[s].readers > 0
  /\ reserved = Cardinality(DOMAIN captures)
  /\ \A o \in Owner : ownerReserved[o] = Cardinality({key \in DOMAIN captures : key.owner = o})
  /\ captureReaders = Cardinality({r \in Reader : reader[r] # Idle /\ reader[r].shared})
  /\ reserved + captureReaders <= MaxReaders
  /\ Len(snapshots) <= MaxSnapshots
  /\ \A o \in Owner : Cardinality(OwnedBy(snapshots, o)) <= MaxOwnerSnapshots
  /\ Len(leases) <= MaxLeases
  /\ \A o \in Owner : Cardinality(OwnedBy(leases, o)) <= MaxOwnerLeases

\* "A caller cannot cancel another reader's shared capture"
\* (query_service.py, _page): a reader that waits on is not told that its
\* capture was abandoned, unless the service closes.
\* It does not hold: README, "Also observed".
OthersMayCancel ==
  \A r \in Reader : reader[r].state = "answered" /\ reader[r].reply = "abandoned" => closed

\* Every reader gets an answer.
ReadersAnswered == \A r \in Reader : (reader[r].state = "waiting") ~> (reader[r].state # "waiting")
=============================================================================
