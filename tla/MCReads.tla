------------------------------ MODULE MCReads ------------------------------
(***************************************************************************)
(* What readers of the server get: views and their changes, the version    *)
(* store below them, shared captures, full snapshots and details.  The     *)
(* parts share no state; `focus` picks the part that moves and the         *)
(* variables of the others rest.                                           *)
(*                                                                         *)
(* QueryView has one flow with one task, two starts of the server, and a   *)
(* client that shows the whole tree or the flow; SummaryCapture two        *)
(* readers of one owner and one of another, with room for one of each      *)
(* kind.                                                                   *)
(***************************************************************************)
EXTENDS QueryView, SummaryCapture

CONSTANTS NoPage, NoReply, Resting

OneTask == {<<"t">>}
Writes == {<<"set">>, <<"service", "edit">>, <<"load">>, <<"replace">>}
TwoOwners == "r1" :> "a" @@ "r2" :> "a" @@ "r3" :> "b"
TreeAndFlow == {[scope |-> Root, depth |-> 2], [scope |-> <<"f">>, depth |-> 1]}

VARIABLES
  focus,
  liveTree, liveLog, rowStore, nesting, objects,
  history, leaseOf, leaseCount, handlers, waitingFor, cache, cacheLimit,
  tuneUsers, ended, copy,
  live, session, detailLease, blobs, changes, phase, detailView, next,
  partial, shown, why

storeVars == <<liveTree, liveLog, rowStore, nesting, objects>>
copyVars == <<history, leaseOf, leaseCount, handlers, waitingFor, cache, cacheLimit,
              tuneUsers, ended, copy>>
showVars == <<live, session, detailLease, blobs, changes, phase, detailView, next,
              partial, shown, why>>

-----------------------------------------------------------------------------
(* The parts *)

Store ==
  INSTANCE VersionStore
  WITH ChildName <- {"t", "u"}, Mutations <- {"set", "service", "load", "replace", "add"},
       tree <- liveTree, log <- liveLog, store <- rowStore, depth <- nesting, nextId <- objects

\* Two clients of one owner that copy a root and one node
InScope(p, s) == s = "/" \/ p = s
Copies ==
  INSTANCE FullSnapshot
  WITH Client <- {"c1", "c2"}, Principal <- [c \in {"c1", "c2"} |-> "o"], NodePath <- <<"/", "a">>,
       Leaf <- {"a"}, FirstTree <- {[p \in {"/", "a"} |-> "x"]}, Under <- InScope,
       Wanted <- {[scope |-> "/", groups |-> "all"]}, Plain <- {"x", "y"}, Large <- {"big"},
       Absent <- "absent", MaxLease <- 2, MaxOwnerLease <- 2, MaxWorker <- 2, MaxBacklog <- 0,
       RetainedUnits <- 3, CacheUnits <- 1, PageRows <- 1, Chunks <- 1, TuneRows <- 2,
       MaxTree <- 2, MaxLeaseId <- 2, MaxSend <- 3, MaxAtOnce <- 2

\* The same with one request at a time, and one more of them
InTurn ==
  INSTANCE FullSnapshot
  WITH Client <- {"c1", "c2"}, Principal <- [c \in {"c1", "c2"} |-> "o"], NodePath <- <<"/", "a">>,
       Leaf <- {"a"}, FirstTree <- {[p \in {"/", "a"} |-> "x"]}, Under <- InScope,
       Wanted <- {[scope |-> "/", groups |-> "all"]}, Plain <- {"x", "y"}, Large <- {"big"},
       Absent <- "absent", MaxLease <- 2, MaxOwnerLease <- 2, MaxWorker <- 2, MaxBacklog <- 0,
       RetainedUnits <- 3, CacheUnits <- 1, PageRows <- 1, Chunks <- 1, TuneRows <- 2,
       MaxTree <- 2, MaxLeaseId <- 2, MaxSend <- 4, MaxAtOnce <- 1

\* Fields inside one another, each of them large enough for a blob
UserField == <<"parameters", "user">>
ValueField == UserField \o <<"0", "value">>
InheritedField == <<"parameters", "ancestors">>
FieldSize ==
  (UserField :> 3) @@ ((UserField \o <<"0">>) :> 2) @@ (ValueField :> 4) @@ (InheritedField :> 5)
Details ==
  INSTANCE QueryDetail
  WITH Rows <- <<"a", "b">>, Fields <- DOMAIN FieldSize, Own <- FieldSize,
       Replaceable <- {UserField, ValueField, InheritedField}, MinBlob <- 2, MaxField <- 9,
       MaxBlobs <- 28, MaxDocument <- 4, ChunkSize <- 4, MaxChanges <- 3,
       lease <- detailLease, view <- detailView
ASSUME Details!DetailAssumption

-----------------------------------------------------------------------------
(* One part moves *)

Parts == {"views", "store", "captures", "copies", "copies in turn", "details"}

MCInit ==
  /\ focus \in Parts /\ ViewInit /\ CaptureInit
  /\ focus # "views" => DOMAIN tree = {Root} /\ selection.scope = Root
  /\ IF focus = "store" THEN Store!TreeInit
     ELSE /\ liveTree = Resting /\ liveLog = Resting /\ rowStore = Resting
          /\ nesting = Resting /\ objects = Resting
  /\ IF focus \in {"copies", "copies in turn"} THEN Copies!FullInit
     ELSE /\ history = Resting /\ leaseOf = Resting /\ leaseCount = Resting
          /\ handlers = Resting /\ waitingFor = Resting /\ cache = Resting
          /\ cacheLimit = Resting /\ tuneUsers = Resting /\ ended = Resting /\ copy = Resting
  /\ IF focus = "details" THEN Details!DetailInit
     ELSE /\ live = Resting /\ session = Resting /\ detailLease = Resting /\ blobs = Resting
          /\ changes = Resting /\ phase = Resting /\ detailView = Resting /\ next = Resting
          /\ partial = Resting /\ shown = Resting /\ why = Resting

\* A step of part: focus stays and the variables of the others do not change.
Only(part) ==
  /\ focus = part /\ UNCHANGED focus
  /\ part # "views" => UNCHANGED viewVars
  /\ part # "store" => UNCHANGED storeVars
  /\ part # "captures" => UNCHANGED captureVars
  /\ part \notin {"copies", "copies in turn"} => UNCHANGED copyVars
  /\ part # "details" => UNCHANGED showVars

MCNext ==
  \/ Only("views") /\ ViewNext
  \/ Only("store") /\ Store!TreeNext
  \/ Only("captures") /\ CaptureNext
  \/ Only("copies") /\ Copies!FullNext
  \/ Only("copies in turn") /\ InTurn!FullNext
  \/ Only("details") /\ Details!DetailNext

MCVars == <<focus, viewVars, storeVars, captureVars, copyVars, showVars>>
MCSpec == MCInit /\ [][MCNext]_MCVars

-----------------------------------------------------------------------------
(* Properties of the parts; ImplementsContract stands in QueryView and     *)
(* SharingIsExact in SummaryCapture                                        *)

\* What a reader is given is the tree of one moment: a pinned version is the
\* live tree, and no sequence of mutations leaves the store unusable
\* (serialization/version.py); a copy the client calls complete is one version
\* (client/full_snapshot.py).
ReadsAreOfOneMoment ==
  /\ focus = "store" => Store!PinIsLive /\ Store!StoreStaysUsable
  /\ focus \in {"copies", "copies in turn"} => Copies!CopyIsWhole

\* What the limits of the full snapshots are checked against is exact, whoever
\* is cancelled, expired or failed at any point.
RetentionIsExact == focus \in {"copies", "copies in turn"} => Copies!RetentionIsExact

\* What show prints is whole, and a detail is of the attempt that is current
\* when its last chunk arrives.
DeliveredIsCurrent ==
  [][focus = "details" => Details!CurrentDelivery /\ Details!ShowIsWhole']_showVars
=============================================================================
