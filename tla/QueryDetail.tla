----------------------------- MODULE QueryDetail -----------------------------
(***************************************************************************)
(* The live half of a query: after a summary the client reads the detail   *)
(* of its rows (client/query_client.py read_detail, print_query_show), the  *)
(* server samples a node (server/query_service.py detail), cuts a detail    *)
(* that does not fit one document into blobs (_chunked_detail) and hands    *)
(* the blobs out in chunks (chunk).  The nodes change all the while.        *)
(*                                                                         *)
(* The groups of a detail are a tree of fields; a field is the sequence of  *)
(* keys that leads to it.  A blob takes a field with all that is below it   *)
(* and leaves a hole.  Time is left out: a lease or a blob expires when it   *)
(* likes, so the renewal of a lease changes nothing here.                   *)
(***************************************************************************)
EXTENDS Integers, Sequences, SequencesExt, FiniteSets, FiniteSetsExt, TLC

CONSTANTS
  Rows,          \* the paths of the view, in order
  Fields,        \* the fields of a detail, prefix closed down to length 2
  Own,           \* size of a field without the fields below it
  Replaceable,   \* the fields whose model accepts an empty value
  MinBlob,       \* 1024 bytes
  MaxField,      \* MAX_FIELD_BYTES
  MaxBlobs,      \* MAX_BLOB_BYTES
  MaxDocument,   \* what one reply can hold
  ChunkSize,     \* CHUNK_BYTES
  MaxChanges     \* bound: changes of the nodes and restarts

DetailAssumption ==
  /\ \A f \in Fields : Own[f] \in Nat \ {0} /\ Len(f) >= 2
  /\ Replaceable \subseteq Fields /\ ChunkSize > 0

VARIABLES
  live,      \* of each row: is it there, generation, attempt, version of its values
  session, lease, blobs,
  changes,
  phase,     \* of the client: idle, rows, blobs, printed, failed
  view,      \* identity of each row in the summary, and the session
  next,      \* the row to read
  partial,   \* the detail being put together
  shown,     \* what has been read for each row
  why        \* the reason of a failure

detailVars == <<live, session, lease, blobs, changes, phase, view, next, partial, shown, why>>
serverVars == <<live, session, lease, blobs, changes>>

Identity(p) == <<live[p].generation, live[p].attempt>>

-----------------------------------------------------------------------------
(* Cutting a detail into blobs *)

\* The field is there: no field from which it hangs, and not itself, is a hole.
Stands(f, holes) == \A h \in holes : ~IsPrefix(h, f)

Size(f, holes) == MapThenSumSet(LAMBDA g : Own[g], {g \in Fields : IsPrefix(f, g) /\ Stands(g, holes)})

Total(holes) == Size(<<>>, holes)

\* One round of _chunked_detail takes the largest field that a blob can hold and
\* whose model accepts the hole.
Eligible(holes) ==
  {f \in Replaceable : Stands(f, holes) /\ Size(f, holes) \in MinBlob .. MaxField}

Largest(holes) ==
  CHOOSE f \in Eligible(holes) : \A g \in Eligible(holes) : Size(g, holes) <= Size(f, holes)

\* The holes in the order they are made, until the rest fits; <<>> if it never does.
RECURSIVE Cuts(_)
Cuts(cuts) ==
  LET holes == ToSet(cuts) IN
  IF cuts /= <<>> /\ Total(holes) <= MaxDocument THEN cuts
  ELSE IF Eligible(holes) = {} THEN <<>>
  ELSE Cuts(Append(cuts, Largest(holes)))

\* Mutant: the blob is taken after the hole is made.
HeldTooLate(cuts, i) ==
  {g \in Fields : IsPrefix(cuts[i], g) /\ Stands(g, {cuts[j] : j \in 1 .. i})}

\* What blob i of the cuts holds: the field as it stood, earlier holes included.
Held(cuts, i) ==
  LET earlier == {cuts[j] : j \in 1 .. i - 1}
  IN  {g \in Fields : IsPrefix(cuts[i], g) /\ Stands(g, earlier)}

Bytes(cuts, i) == Size(cuts[i], {cuts[j] : j \in 1 .. i - 1})

-----------------------------------------------------------------------------
(* The server *)

Refusal(code) == [kind |-> "error", code |-> code]

\* QueryService.detail up to the projection
Guard(p) ==
  IF view.session /= session \/ ~lease THEN "snapshot_expired"
  ELSE IF ~live[p].there \/ Identity(p) /= view.rows[p] THEN "stale_identity"
  ELSE "ok"

Retained == MapThenSumSet(LAMBDA b : b.size, blobs)

\* The answers to a detail request.  Pages and blobs of other readers share the
\* budget, so a detail that needs blobs can be refused at any time.
Details(p) ==
  LET sample == [kind |-> "detail", identity |-> Identity(p), version |-> live[p].version]
      cuts   == Cuts(<<>>)
  IN  IF Guard(p) /= "ok" THEN {Refusal(Guard(p))}
      ELSE IF Total({}) <= MaxDocument THEN {sample @@ [cuts |-> <<>>]}
      ELSE {Refusal("resource_exhausted")}
           \cup IF Total({}) > MaxBlobs THEN {}
                ELSE IF cuts = <<>> THEN {Refusal("field_too_large")}
                ELSE {d \in {sample @@ [cuts |-> cuts]} :
                        Retained + MapThenSumSet(LAMBDA i : Bytes(cuts, i), DOMAIN cuts) <= MaxBlobs}

\* The blobs a reply leaves behind; a new sample has new blob ids.
BlobsOf(p, d) ==
  {[path |-> p, identity |-> d.identity, version |-> d.version, index |-> i, size |-> Bytes(d.cuts, i)]
     : i \in DOMAIN d.cuts}

\* Mutant: the chunk is handed out whatever became of the node.
HandsOutAny(b) == b \in blobs

\* QueryService.chunk
HandsOut(b) == b \in blobs /\ live[b.path].there /\ Identity(b.path) = b.identity

Change(p) ==
  /\ changes < MaxChanges /\ live[p].there
  /\ changes' = changes + 1
  /\ live' = [live EXCEPT ![p].version = changes']
  /\ UNCHANGED <<session, lease, blobs, phase, view, next, partial, shown, why>>

\* A new attempt of a task
Rerun(p) ==
  /\ changes < MaxChanges /\ live[p].there
  /\ changes' = changes + 1
  /\ live' = [live EXCEPT ![p].version = changes', ![p].attempt = changes']
  /\ UNCHANGED <<session, lease, blobs, phase, view, next, partial, shown, why>>

\* The flow of the rows is replaced: nodes may go or come, all are new.
ReplaceFlow(kept) ==
  /\ changes < MaxChanges
  /\ changes' = changes + 1
  /\ live' = [p \in ToSet(Rows) |->
               [there |-> p \in kept, generation |-> changes', attempt |-> 0, version |-> changes']]
  /\ UNCHANGED <<session, lease, blobs, phase, view, next, partial, shown, why>>

\* The process restarts from a checkpoint: a new session, nothing of the queries.
RestartQuery ==
  /\ changes < MaxChanges
  /\ changes' = changes + 1
  /\ session' = session + 1 /\ lease' = FALSE /\ blobs' = {}
  /\ UNCHANGED <<live, phase, view, next, partial, shown, why>>

ExpireLease ==
  /\ lease /\ lease' = FALSE
  /\ UNCHANGED <<live, session, blobs, changes, phase, view, next, partial, shown, why>>

ExpireBlobs ==
  /\ blobs /= {} /\ blobs' = {}
  /\ UNCHANGED <<live, session, lease, changes, phase, view, next, partial, shown, why>>

-----------------------------------------------------------------------------
(* The client *)

NoDetail == [identity |-> <<0, 0>>, version |-> 0, cuts |-> <<>>, done |-> 0, read |-> 0, fields |-> {}]

DetailInit ==
  /\ live = [p \in ToSet(Rows) |-> [there |-> TRUE, generation |-> 0, attempt |-> 0, version |-> 0]]
  /\ session = 0 /\ lease = FALSE /\ blobs = {} /\ changes = 0
  /\ phase = "idle" /\ next = 0 /\ partial = NoDetail /\ shown = <<>> /\ why = "none"
  /\ view = [session |-> 0, rows |-> <<>>]

\* run_query_snapshot: the summary, whose last page establishes the lease
ReadSummary ==
  /\ phase = "idle"
  /\ phase' = "rows" /\ next' = 1 /\ lease' = TRUE
  /\ view' = [session |-> session, rows |-> [p \in {q \in ToSet(Rows) : live[q].there} |-> Identity(p)]]
  /\ UNCHANGED <<live, session, blobs, changes, partial, shown, why>>

Listed == SelectSeq(Rows, LAMBDA p : p \in DOMAIN view.rows)

Fail(reason) == phase' = "failed" /\ why' = reason /\ UNCHANGED <<next, partial, shown>>

\* The detail of the row is complete: on to the next one.
Deliver(d) ==
  /\ shown' = Append(shown, [path |-> Listed[next], identity |-> d.identity, version |-> d.version,
                             fields |-> d.fields])
  /\ next' = next + 1 /\ partial' = NoDetail /\ phase' = "rows" /\ UNCHANGED why

\* read_detail up to the first blob.  The view of a show has no stale scope.
AskDetail ==
  /\ phase = "rows" /\ next <= Len(Listed)
  /\ \E d \in Details(Listed[next]) :
       IF d.kind = "error" THEN Fail(d.code) /\ UNCHANGED blobs
       ELSE /\ blobs' = blobs \cup BlobsOf(Listed[next], d)
            /\ LET got == [NoDetail EXCEPT !.identity = d.identity, !.version = d.version, !.cuts = d.cuts,
                                           !.fields = {f \in Fields : Stands(f, ToSet(d.cuts))}]
               IN  IF d.identity /= view.rows[Listed[next]] THEN Fail("identity changed")
                   ELSE IF d.cuts = <<>> THEN Deliver(got)
                   ELSE partial' = got /\ phase' = "blobs" /\ UNCHANGED <<next, shown, why>>
  /\ UNCHANGED <<live, session, lease, changes, view>>

\* _pointer_parent finds the place of the blob: what it hangs from is there.
Reachable(d, i) ==
  \A j \in d.done + 1 .. Len(d.cuts) : ~IsStrictPrefix(d.cuts[j], d.cuts[i])

\* One chunk of _read_blob, and the field in its place after the last one
AskChunk ==
  /\ phase = "blobs"
  /\ LET i    == partial.done + 1
         p    == Listed[next]
         b    == [path |-> p, identity |-> partial.identity, version |-> partial.version,
                  index |-> i, size |-> Bytes(partial.cuts, i)]
         read == partial.read + ChunkSize
         got  == [partial EXCEPT !.done = i, !.read = 0, !.fields = @ \cup Held(partial.cuts, i)]
     IN  IF ~Reachable(partial, i) THEN Fail("pointer")
         ELSE IF ~HandsOut(b) THEN Fail("gone")
         ELSE IF read < b.size THEN partial' = [partial EXCEPT !.read = read] /\ UNCHANGED <<phase, next, shown, why>>
         ELSE IF i = Len(partial.cuts) THEN Deliver(got)
         ELSE partial' = got /\ UNCHANGED <<phase, next, shown, why>>
  /\ UNCHANGED <<live, session, lease, blobs, changes, view>>

\* run_query_show copies the spooled text out when all rows are there.
PrintShow ==
  /\ phase = "rows" /\ next > Len(Listed)
  /\ phase' = "printed"
  /\ UNCHANGED <<live, session, lease, blobs, changes, view, next, partial, shown, why>>

DetailNext ==
  \/ \E p \in ToSet(Rows) : Change(p) \/ Rerun(p)
  \/ \E kept \in SUBSET ToSet(Rows) : ReplaceFlow(kept)
  \/ RestartQuery \/ ExpireLease \/ ExpireBlobs
  \/ ReadSummary \/ AskDetail \/ AskChunk \/ PrintShow

DetailSpec == DetailInit /\ [][DetailNext]_detailVars

-----------------------------------------------------------------------------
(* Properties *)

\* What show prints has every row of the summary once and in order, each with
\* all its fields and under the identity the summary gave.
ShowIsWhole ==
  phase = "printed" =>
    /\ [i \in DOMAIN shown |-> shown[i].path] = Listed
    /\ \A i \in DOMAIN shown : shown[i].fields = Fields /\ shown[i].identity = view.rows[shown[i].path]

\* A detail that took several chunks is still of the present attempt when its
\* last chunk arrives: a rerun or a replacement in between is noticed.
CurrentDelivery ==
  shown' /= shown =>
    LET d == shown'[Len(shown')] IN live[d.path].there /\ d.identity = Identity(d.path)
DeliveredIsCurrent == [][CurrentDelivery]_detailVars

\* A detail the server answers with blobs can be put together by the client.
\* It does not hold: README, "Also observed".
BlobsFitTogether == why /= "pointer"
=============================================================================
