---------------------------- MODULE FullSnapshot ----------------------------
(***************************************************************************)
(* The full snapshot: a copy of the tree, page by page, under a lease that *)
(* pins one version (server/full_snapshot.py, client/full_snapshot.py).    *)
(*                                                                         *)
(* A page is rendered by a worker thread while the tree moves on, rows are *)
(* taken from a cache shared by the leases of an owner, a large field is   *)
(* replaced by a reference and read in chunks, a request may be repeated   *)
(* by the transport or cancelled half way, and a lease may be dropped at   *)
(* any time.  Sizes are counted in rows: a page has PageRows of them, a    *)
(* lease and a cached row take one unit of the retention budget.           *)
(***************************************************************************)
EXTENDS Integers, Sequences, FiniteSets, Functions, SequencesExt

CONSTANTS
  Client,
  Principal,            \* the owner of each client
  NodePath,             \* every path, parents first
  Leaf,                 \* the paths of nodes without children
  Under(_, _),          \* Under(p, scope): p is shown in the scope
  Wanted,               \* selections a client may ask for: [scope, groups]
  Plain, Large,         \* values of a node: in the row, or too large for it
  Absent,               \* the value of a path without a node
  MaxLease, MaxOwnerLease, MaxWorker, MaxBacklog, RetainedUnits, CacheUnits,  \* MaxBacklog: see Bounded
  PageRows, Chunks,
  TuneRows,             \* GC_TUNE_MIN_PATHS
  NoPage, NoReply,
  FirstTree,            \* the trees to begin with
  MaxTree, MaxSend, MaxAtOnce, MaxLeaseId  \* bounds: versions, requests in all and at once, leases made

VARIABLES
  history,     \* the versions of the tree, each a function from NodePath
  leaseOf,     \* _leases
  leaseCount,  \* ids given out (secrets.token_urlsafe)
  handlers,    \* the requests being served
  waitingFor,  \* _waiting
  cache,       \* _NodeCache.entries, the oldest first
  cacheLimit,
  tuneUsers,   \* _gc_tune_users
  ended,       \* the service is closed
  copy         \* the client's reading

fullVars == <<history, leaseOf, leaseCount, handlers, waitingFor, cache, cacheLimit, tuneUsers, ended, copy>>

Smaller(a, b) == IF a < b THEN a ELSE b
Tree == history[Len(history)]
\* _paths: the nodes of a version a selection shows, parents first
ShownPaths(tree, scope) == SelectSeq(NodePath, LAMBDA p : tree[p] # Absent /\ Under(p, scope))

\* _full_node: the fields of a node the groups select
FullNode(tree, p, groups) == [path |-> p, value |-> tree[p], groups |-> groups, ref |-> FALSE]
\* _blobify: a field too large for the row becomes a reference, with the digest
\* of the value
Blobify(row) == [row EXCEPT !.ref = row.value \in Large]

NewCopy == [state |-> "idle", want |-> NoPage, lease |-> 0, version |-> 0, page |-> 0, rows |-> <<>>, offset |-> 0,
            last |-> FALSE, send |-> 0, request |-> NoReply, reply |-> NoReply]

FullInit ==
  /\ \E t \in FirstTree : history = <<t>>
  /\ leaseOf = <<>> /\ leaseCount = 0 /\ handlers = {} /\ waitingFor = 0
  /\ cache = <<>> /\ cacheLimit = CacheUnits /\ tuneUsers = 0 /\ ended = FALSE
  /\ copy = [c \in Client |-> NewCopy]

-----------------------------------------------------------------------------
(* The node cache *)

\* _NodeCache._trim
Trimmed(entries, limit) ==
  LET keep == Smaller(Len(entries), limit) IN SubSeq(entries, Len(entries) - keep + 1, Len(entries))

\* FullSnapshotService._cache_budget and _NodeCache.resize for n leases
CacheBudget(n) ==
  LET limit == IF ended THEN 0 ELSE Smaller(CacheUnits, IF RetainedUnits > n THEN RetainedUnits - n ELSE 0)
  IN  cacheLimit' = limit /\ cache' = Trimmed(cache, limit)

\* Mutant: the key names the node and the fields, and not what the node holds.
CacheKeyByPath(lease, p) == <<lease.owner, lease.want.groups, p>>

\* _node_cache_key
CacheKey(lease, p) == <<lease.owner, lease.want.groups, p, lease.tree[p]>>

Cached(entries, key) == {i \in DOMAIN entries : entries[i].key = key}

\* One row of _render_page: from the cache, or rendered and perhaps cached.
\* The first row of a snapshot is never cached: it carries the context.
RenderRow(lease, p, first, entries) ==
  LET key  == CacheKey(lease, p)
      hit  == Cached(entries, key)
      raw  == Blobify(FullNode(lease.tree, p, lease.want.groups))
      mayCache == cacheLimit > 0 /\ ~first /\ p \in Leaf /\ lease.tree[p] \notin Large
  IN  IF ~mayCache THEN [row |-> raw, entries |-> entries]
      ELSE IF hit # {}
           THEN LET i == CHOOSE i \in hit : TRUE
                IN  [row |-> entries[i].raw, entries |-> Append(RemoveAt(entries, i), entries[i])]
           ELSE [row |-> raw, entries |-> Trimmed(Append(entries, [key |-> key, raw |-> raw]), cacheLimit)]

\* The rows of the next page, and the cache after it
RenderRows(lease) ==
  LET last == Smaller(lease.offset + PageRows, Len(lease.paths))
      Step(acc, i) == LET r == RenderRow(lease, lease.paths[i], i = 1, acc.entries)
                      IN  [rows |-> Append(acc.rows, r.row), entries |-> r.entries]
  IN  FoldLeftDomain(LAMBDA acc, i : IF lease.offset < i /\ i <= last THEN Step(acc, i) ELSE acc,
                     [rows |-> <<>>, entries |-> cache], lease.paths)

-----------------------------------------------------------------------------
(* The server *)

Error(code) == [kind |-> "error", code |-> code]
\* The answer of a request reaches its caller, unless it has sent another one.
Reply(h, reply) ==
  /\ handlers' = handlers \ {h}
  /\ copy' = IF copy[h.client].send = h.send /\ copy[h.client].state = "asking"
             THEN [copy EXCEPT ![h.client].reply = reply] ELSE copy
Becomes(h, g) == handlers' = (handlers \ {h}) \cup {g} /\ copy' = copy

Owned(leases, o) == {id \in DOMAIN leases : leases[id].owner = o}
TunedIn(leases) == Cardinality({id \in DOMAIN leases : leases[id].tuned})
NoRoom(leases, o) ==
  \/ Cardinality(Owned(leases, o)) >= MaxOwnerLease
  \/ Cardinality(DOMAIN leases) >= MaxLease
  \/ Cardinality(DOMAIN leases) + 1 > RetainedUnits

\* Mutant: a lease takes its user of the collector's setting with it.
DropStaysTuned(ids) ==
  /\ leaseOf' = Restrict(leaseOf, DOMAIN leaseOf \ ids)
  /\ tuneUsers' = tuneUsers
  /\ CacheBudget(Cardinality(DOMAIN leaseOf \ ids))

\* FullSnapshotService._drop of some leases
Drop(ids) ==
  /\ leaseOf' = Restrict(leaseOf, DOMAIN leaseOf \ ids)
  /\ tuneUsers' = tuneUsers - Cardinality({id \in ids \cap DOMAIN leaseOf : leaseOf[id].tuned})
  /\ CacheBudget(Cardinality(DOMAIN leaseOf \ ids))
LeasesStay == UNCHANGED <<leaseOf, tuneUsers, cache, cacheLimit>>

\* _bounded: the queue of the workers is full.  Whoever is in it may be the
\* next to finish.
Bounded == waitingFor < MaxWorker + MaxBacklog

\* A lease nobody has a page of gives way to a new one.
Yielding(o) ==
  LET fresh == {id \in DOMAIN leaseOf : leaseOf[id].page = 0}
  IN  IF fresh # {} /\ (Cardinality(Owned(leaseOf, o)) >= MaxOwnerLease \/ Cardinality(DOMAIN leaseOf) >= MaxLease)
      THEN {CHOOSE id \in fresh : \A other \in fresh : id <= other} ELSE {}

\* FullSnapshotService._page of a new reading, up to the worker
ServeFirst(h) ==
  /\ h.phase = "new" /\ h.request.kind = "page" /\ h.request.lease = 0
  /\ LET o == Principal[h.client]
         kept == Restrict(leaseOf, DOMAIN leaseOf \ Yielding(o))
     IN  /\ Drop(Yielding(o))
         /\ IF NoRoom(kept, o) \/ ~Bounded
            THEN Reply(h, Error("exhausted")) /\ UNCHANGED waitingFor
            ELSE Becomes(h, [h EXCEPT !.phase = "paths", !.version = Len(history)]) /\ waitingFor' = waitingFor + 1
  /\ UNCHANGED <<history, leaseCount, ended>>

\* ... and once the paths are listed: the lease is made and its first page begun.
MakeLease(h) ==
  /\ h.phase = "paths"
  /\ LET o     == Principal[h.client]
         tree  == history[h.version]
         paths == ShownPaths(tree, h.request.want.scope)
         lease == [owner |-> o, want |-> h.request.want, version |-> h.version, tree |-> tree, paths |-> paths,
                   offset |-> 0, page |-> 0, sent |-> <<>>, last |-> NoPage, blobs |-> {},
                   tuned |-> Len(paths) >= TuneRows]
     IN  IF paths = <<>> \/ NoRoom(leaseOf, o)
         THEN /\ Reply(h, Error(IF paths = <<>> THEN "invalid" ELSE "exhausted")) /\ waitingFor' = waitingFor - 1
              /\ LeasesStay /\ UNCHANGED leaseCount
         ELSE /\ leaseCount < MaxLeaseId /\ leaseCount' = leaseCount + 1
              /\ leaseOf' = [id \in DOMAIN leaseOf \cup {leaseCount + 1} |->
                               IF id = leaseCount + 1 THEN lease ELSE leaseOf[id]]
              /\ CacheBudget(Cardinality(DOMAIN leaseOf) + 1)
              /\ tuneUsers' = tuneUsers + (IF lease.tuned THEN 1 ELSE 0)
              /\ Becomes(h, [h EXCEPT !.phase = "render", !.id = leaseCount + 1, !.lease = lease])
              /\ UNCHANGED waitingFor
  /\ UNCHANGED <<history, ended>>

\* FullSnapshotService._page of a further page, once the lock of its lease is free
ServeNextFull(h) ==
  /\ h.phase = "new" /\ h.request.kind = "page" /\ h.request.lease # 0
  /\ LET id == h.request.lease
     IN  \/ /\ id \notin DOMAIN leaseOf
            /\ Reply(h, Error("expired")) /\ LeasesStay /\ UNCHANGED waitingFor
         \/ /\ id \in DOMAIN leaseOf /\ ~\E g \in handlers : g.phase = "render" /\ g.id = id
            /\ LET lease == leaseOf[id]
               IN  IF h.request.cursor # lease.page
                   THEN /\ Reply(h, IF lease.last # NoPage /\ h.request.cursor = lease.page - 1
                                    THEN lease.last ELSE Error("invalid"))
                        /\ LeasesStay /\ UNCHANGED waitingFor
                   ELSE IF ~Bounded
                        THEN Reply(h, Error("exhausted")) /\ Drop({id}) /\ UNCHANGED waitingFor
                        ELSE /\ Becomes(h, [h EXCEPT !.phase = "render", !.id = id, !.lease = lease])
                             /\ waitingFor' = waitingFor + 1 /\ LeasesStay
  /\ UNCHANGED <<history, leaseCount, ended>>

\* FullSnapshotService._render_page: the page, and the lease after it
Rendered(h) ==
  LET r    == RenderRows(h.lease)
      sent == h.lease.sent \o r.rows
      done == Len(sent) = Len(h.lease.paths)
  IN  [page |-> [kind |-> "page", lease |-> h.id, version |-> h.lease.version, index |-> h.lease.page,
                 rows |-> r.rows, complete |-> done, digest |-> IF done THEN sent ELSE <<>>],
       sent |-> sent, entries |-> r.entries,
       blobs |-> h.lease.blobs \cup {r.rows[i].path : i \in {j \in DOMAIN r.rows : r.rows[j].ref}}]

\* ... when the worker is done: the page is kept for a repeated request.
EndRender(h) ==
  /\ h.phase = "render" /\ waitingFor' = waitingFor - 1
  /\ LET r == Rendered(h)
     IN  IF h.id \notin DOMAIN leaseOf
         THEN /\ Reply(h, Error("expired")) /\ cache' = r.entries /\ UNCHANGED <<leaseOf, tuneUsers, cacheLimit>>
         ELSE /\ cache' = r.entries /\ UNCHANGED cacheLimit
              /\ leaseOf' = [leaseOf EXCEPT ![h.id] =
                    [@ EXCEPT !.offset = Len(r.sent), !.page = @ + 1, !.sent = r.sent, !.last = r.page,
                              !.blobs = r.blobs, !.tuned = @ /\ ~r.page.complete]]
              /\ tuneUsers' = tuneUsers - (IF leaseOf[h.id].tuned /\ r.page.complete THEN 1 ELSE 0)
              /\ Reply(h, r.page)
  /\ UNCHANGED <<history, leaseCount, ended>>

\* ... or fails: a field or a page too large, a plugin without a public form
FailRender(h) ==
  /\ h.phase = "render" /\ waitingFor' = waitingFor - 1
  /\ Drop({h.id}) /\ Reply(h, Error("too large"))
  /\ UNCHANGED <<history, leaseCount, ended>>

\* FullSnapshotService.chunk up to the worker
StartChunk(h) ==
  /\ h.phase = "new" /\ h.request.kind = "chunk"
  /\ LET id == h.request.lease
     IN  IF id \notin DOMAIN leaseOf \/ ~Bounded
         THEN Reply(h, Error(IF id \in DOMAIN leaseOf THEN "exhausted" ELSE "expired")) /\ UNCHANGED waitingFor
         ELSE IF h.request.path \notin leaseOf[id].blobs
         THEN Reply(h, Error("invalid")) /\ UNCHANGED waitingFor
         ELSE /\ Becomes(h, [h EXCEPT !.phase = "chunk", !.id = id, !.lease = leaseOf[id]])
              /\ waitingFor' = waitingFor + 1
  /\ LeasesStay /\ UNCHANGED <<history, leaseCount, ended>>

\* ... and after it
EndChunk(h) ==
  /\ h.phase = "chunk" /\ waitingFor' = waitingFor - 1
  /\ Reply(h, IF h.id \notin DOMAIN leaseOf THEN Error("expired")
              ELSE [kind |-> "chunk", lease |-> h.id, version |-> h.lease.version, path |-> h.request.path,
                    offset |-> h.request.offset, value |-> h.lease.tree[h.request.path],
                    complete |-> h.request.offset + 1 = Chunks])
  /\ LeasesStay /\ UNCHANGED <<history, leaseCount, ended>>

\* The transport cancels a request.  A worker is waited for, and a page half
\* way ends its lease.
CancelHandler(h) ==
  /\ handlers' = handlers \ {h}
  /\ waitingFor' = waitingFor - (IF h.phase = "new" THEN 0 ELSE 1)
  /\ IF h.phase = "render" THEN Drop({h.id}) ELSE LeasesStay
  /\ UNCHANGED <<history, leaseCount, ended, copy>>

\* FullSnapshotService._purge, by its timer or in a request
PurgeLease ==
  /\ \E id \in DOMAIN leaseOf : Drop({id})
  /\ UNCHANGED <<history, leaseCount, handlers, waitingFor, ended, copy>>

\* FullSnapshotService.close
CloseFull ==
  /\ ~ended /\ ended' = TRUE
  /\ leaseOf' = <<>> /\ tuneUsers' = tuneUsers - TunedIn(leaseOf)
  /\ cache' = <<>> /\ cacheLimit' = 0
  /\ UNCHANGED <<history, leaseCount, handlers, waitingFor, copy>>

\* A command changes a node, or removes one.
TreeMoves ==
  /\ Len(history) < MaxTree
  /\ \E p \in Leaf, v \in Plain \cup Large \cup {Absent} :
       /\ v # Tree[p]
       /\ history' = Append(history, [Tree EXCEPT ![p] = v])
  /\ UNCHANGED <<leaseOf, leaseCount, handlers, waitingFor, cache, cacheLimit, tuneUsers, ended, copy>>

-----------------------------------------------------------------------------
(* The client: FullSnapshotClient.iter_full_snapshot *)

ServerStays == UNCHANGED <<history, leaseOf, leaseCount, waitingFor, cache, cacheLimit, tuneUsers, ended>>
NewHandler(c, send, request) ==
  [client |-> c, send |-> send, request |-> request, phase |-> "new", version |-> 0, id |-> 0, lease |-> NoPage]

Send(c, next, request) ==
  /\ FoldFunction(LAMBDA reading, sum : reading.send + sum, 0, copy) < MaxSend /\ Cardinality(handlers) < MaxAtOnce
  /\ copy' = [copy EXCEPT ![c] = [next EXCEPT !.state = "asking", !.send = @ + 1, !.request = request, !.reply = NoReply]]
  /\ handlers' = handlers \cup {NewHandler(c, next.send + 1, request)}

PageRequest(next) == [kind |-> "page", want |-> next.want, lease |-> next.lease, cursor |-> next.page]

\* The answer is final: the lease, if there is one, is given back.
Over(c, next, outcome) ==
  /\ copy' = [copy EXCEPT ![c] = [next EXCEPT !.state = outcome, !.request = NoReply, !.reply = NoReply]]
  /\ handlers' = handlers

StartCopy(c) ==
  /\ copy[c].state = "idle"
  /\ \E w \in Wanted : LET next == [copy[c] EXCEPT !.want = w] IN Send(c, next, PageRequest(next))
  /\ ServerStays

\* No answer came: the transport sends the request again ...
ResendFull(c) ==
  /\ copy[c].state = "asking" /\ copy[c].reply = NoReply
  /\ Send(c, copy[c], copy[c].request) /\ ServerStays

\* ... or the client gives up, or the reading is cancelled.
AbandonCopy(c) == copy[c].state = "asking" /\ Over(c, copy[c], "failed") /\ ServerStays

\* The references still to be read, and what follows the last of them
Unread(next) == {i \in DOMAIN next.rows : next.rows[i].ref}
Proceed(c, next) ==
  IF Unread(next) # {}
  THEN LET i == CHOOSE i \in Unread(next) : \A j \in Unread(next) : i <= j
       IN  Send(c, next, [kind |-> "chunk", lease |-> next.lease, path |-> next.rows[i].path, offset |-> next.offset])
  ELSE IF next.last THEN Over(c, next, "complete") ELSE Send(c, next, PageRequest(next))

\* The checks on a page, in iter_full_snapshot
GoodPage(next, page) ==
  /\ page.kind = "page" /\ page.index = next.page
  /\ next.lease # 0 => page.lease = next.lease /\ page.version = next.version
  /\ \A i \in DOMAIN page.rows, j \in DOMAIN next.rows : page.rows[i].path # next.rows[j].path
  /\ page.complete => Len(page.digest) = Len(next.rows \o page.rows)
                      /\ \A i \in DOMAIN next.rows : page.digest[i].value = next.rows[i].value
  /\ ~page.complete => page.rows # <<>>

TakePage(c) ==
  /\ copy[c].state = "asking" /\ copy[c].request.kind = "page" /\ copy[c].reply # NoReply
  /\ LET page == copy[c].reply
     IN  IF ~GoodPage(copy[c], page) THEN Over(c, copy[c], "failed")
         ELSE Proceed(c, [copy[c] EXCEPT !.lease = page.lease, !.version = page.version, !.page = @ + 1,
                                         !.rows = @ \o page.rows, !.last = page.complete])
  /\ ServerStays

\* FullSnapshotClient._blob
TakeChunk(c) ==
  /\ copy[c].state = "asking" /\ copy[c].request.kind = "chunk" /\ copy[c].reply # NoReply
  /\ LET reply == copy[c].reply
         i == CHOOSE i \in Unread(copy[c]) : copy[c].rows[i].path = copy[c].request.path
     IN  IF \/ reply.kind # "chunk" \/ reply.lease # copy[c].lease \/ reply.version # copy[c].version
            \/ reply.offset # copy[c].offset \/ reply.value # copy[c].rows[i].value
            \/ reply.complete # (copy[c].offset + 1 = Chunks)
         THEN Over(c, copy[c], "failed")
         ELSE Proceed(c, IF reply.complete THEN [copy[c] EXCEPT !.rows[i].ref = FALSE, !.offset = 0]
                         ELSE [copy[c] EXCEPT !.offset = @ + 1])
  /\ ServerStays

\* FullSnapshotService.cancel, at the client's end of a reading; the call may
\* be lost.
CancelFull(c) ==
  /\ copy[c].state \in {"complete", "failed"} /\ copy[c].lease \in DOMAIN leaseOf
  /\ Drop({copy[c].lease})
  /\ UNCHANGED <<history, leaseCount, handlers, waitingFor, ended, copy>>

FullNext ==
  \/ \E h \in handlers : ServeFirst(h)
  \/ \E h \in handlers : MakeLease(h)
  \/ \E h \in handlers : ServeNextFull(h)
  \/ \E h \in handlers : EndRender(h)
  \/ \E h \in handlers : FailRender(h)
  \/ \E h \in handlers : StartChunk(h)
  \/ \E h \in handlers : EndChunk(h)
  \/ \E h \in handlers : CancelHandler(h)
  \/ PurgeLease
  \/ CloseFull
  \/ TreeMoves
  \/ \E c \in Client : StartCopy(c)
  \/ \E c \in Client : ResendFull(c)
  \/ \E c \in Client : AbandonCopy(c)
  \/ \E c \in Client : TakePage(c)
  \/ \E c \in Client : TakeChunk(c)
  \/ \E c \in Client : CancelFull(c)

FullSpec == FullInit /\ [][FullNext]_fullVars

-----------------------------------------------------------------------------
(* Properties *)

\* A copy the client calls complete is the selected part of the tree as it
\* was at one moment: every node of it once, in order, with the fields it had
\* then, whatever the tree, the cache, repeated requests and dropped leases
\* did meanwhile (iter_full_snapshot, FullSnapshotComplete).
CopyIsWhole ==
  \A c \in Client :
    copy[c].state = "complete" =>
      LET tree  == history[copy[c].version]
          paths == ShownPaths(tree, copy[c].want.scope)
      IN  copy[c].rows = [i \in DOMAIN paths |-> FullNode(tree, paths[i], copy[c].want.groups)]

\* What the limits are checked against is exact, whoever is cancelled,
\* expired or failed at whatever point: the queue of the workers, the users
\* of the collector's setting, the leases and the room left to the cache.
RetentionIsExact ==
  /\ waitingFor = Cardinality({h \in handlers : h.phase # "new"})
  /\ tuneUsers = TunedIn(leaseOf)
  /\ Cardinality(DOMAIN leaseOf) <= MaxLease
  /\ \A c \in Client : Cardinality(Owned(leaseOf, Principal[c])) <= MaxOwnerLease
  /\ Len(cache) <= cacheLimit
  /\ cacheLimit + Cardinality(DOMAIN leaseOf) <= RetainedUnits
=============================================================================
