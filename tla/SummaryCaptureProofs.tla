------------------------ MODULE SummaryCaptureProofs ------------------------
(***************************************************************************)
(* The counters of the query service are exact and its limits hold, for    *)
(* any readers, owners and scopes and any limits (query_service.py).       *)
(***************************************************************************)
EXTENDS SummaryCapture, FiniteSetTheorems, TLAPS

-----------------------------------------------------------------------------
(* The inductive invariant *)

Results == {"none", "pages", "failed", "abandoned"}
Replies == Results \cup {"exhausted", "closed", "cancelled"}
Queries == [owner : Owner, scope : Scopes]
Waiters == [state : {"waiting", "cancelled"}, key : Keys, shared : BOOLEAN]
Leavers == [state : {"answered"}, shared : BOOLEAN, reply : Replies]
Requests == {Idle} \cup Waiters \cup Leavers
Builds == [readers : Nat, state : {"queued", "running", "built"}, result : Results]

TypeOK ==
  /\ version \in 1..MaxVersion
  /\ reader \in [Reader -> Requests]
  /\ IsFiniteSet(DOMAIN captures) /\ DOMAIN captures \subseteq Keys
  /\ captures \in [DOMAIN captures -> Nat]
  /\ DOMAIN builds \subseteq AllSelections /\ builds \in [DOMAIN builds -> Builds]
  /\ snapshots \in Seq(Keys) /\ leases \in Seq(Queries)
  /\ reserved \in Nat /\ ownerReserved \in [Owner -> Nat] /\ captureReaders \in Nat
  /\ closed \in BOOLEAN

\* Who waits for a capture that is under way, and a capture for a build that is
Linked ==
  /\ \A r \in Reader : reader[r].state = "waiting" => reader[r].key \in DOMAIN captures
  /\ \A key \in DOMAIN captures : Selection(key) \in DOMAIN builds

\* No entry of the table is there twice: _query_leases is keyed by the query.
Distinct(s) == \A i, j \in DOMAIN s : s[i] = s[j] => i = j
LeasesDiffer == Distinct(leases)

Building(s) == {key \in DOMAIN captures : Selection(key) = s}
Reserving(o) == {key \in DOMAIN captures : key.owner = o}
Sharing == {r \in Reader : reader[r] # Idle /\ reader[r].shared}

ReadersCounted == \A key \in DOMAIN captures : captures[key] = Cardinality(Waiting(key))
BuildsCounted ==
  \A s \in DOMAIN builds : builds[s].readers = Cardinality(Building(s)) /\ builds[s].readers > 0
ReservationsCounted ==
  /\ reserved = Cardinality(DOMAIN captures)
  /\ \A o \in Owner : ownerReserved[o] = Cardinality(Reserving(o))
SharersCounted ==
  captureReaders = Cardinality(Sharing) /\ reserved + captureReaders <= MaxReaders
ViewsBounded ==
  /\ Len(snapshots) <= MaxSnapshots
  /\ \A o \in Owner : Cardinality(OwnedBy(snapshots, o)) <= MaxOwnerSnapshots
LeasesBounded ==
  /\ Len(leases) <= MaxLeases
  /\ \A o \in Owner : Cardinality(OwnedBy(leases, o)) <= MaxOwnerLeases

CaptureInv ==
  /\ TypeOK /\ Linked /\ LeasesDiffer
  /\ ReadersCounted /\ BuildsCounted /\ ReservationsCounted /\ SharersCounted
  /\ ViewsBounded /\ LeasesBounded
-----------------------------------------------------------------------------
(* Ordered tables *)

\* A set of numbers that is not empty has a least member.
LEMMA LeastEntry ==
  ASSUME NEW S \in SUBSET Nat, S # {}
  PROVE  (CHOOSE i \in S : \A j \in S : i <= j) \in S
<1> DEFINE R == OpToRel(<, Nat)
<1>1. IsWellFoundedOn(R, Nat)
  BY NatLessThanWellFounded, Zenon
<1>2. R = {ss \in Nat \X Nat : ss[1] < ss[2]}
  BY DEF OpToRel
<1> HIDE DEF R
<1>3. PICK x \in S : \A y \in S : <<y, x>> \notin R
  BY <1>1, WFMin, Zenon
<1>4. ASSUME NEW y \in S PROVE x <= y
  <2>1. x \in Nat /\ y \in Nat /\ <<y, x>> \notin R
    BY <1>3
  <2>2. QED
    BY <2>1, <1>2
<1>5. QED
  BY <1>4, Zenon

\* A finite set has no more members without one of them.
LEMMA NoMore ==
  ASSUME NEW S, IsFiniteSet(S), NEW x
  PROVE  Cardinality(S \ {x}) \in Nat /\ Cardinality(S \ {x}) <= Cardinality(S)
<1>1. S \ {x} \in SUBSET S
  OBVIOUS
<1>2. IsFiniteSet(S \ {x}) /\ Cardinality(S \ {x}) <= Cardinality(S)
  BY <1>1, FS_Subset, Zenon
<1>3. QED
  BY <1>2, FS_CardinalityType, Zenon

\* The entries of an owner are finitely many.
LEMMA OwnedFinite ==
  ASSUME NEW R, NEW s \in Seq(R), NEW o
  PROVE  /\ IsFiniteSet(OwnedBy(s, o)) /\ Cardinality(OwnedBy(s, o)) \in Nat
         /\ OwnedBy(s, o) \in SUBSET DOMAIN s
<1>1. DOMAIN s = 1..Len(s) /\ Len(s) \in Nat
  OBVIOUS
<1>2. IsFiniteSet(DOMAIN s)
  BY <1>1, FS_Interval
<1>3. OwnedBy(s, o) \in SUBSET DOMAIN s
  BY DEF OwnedBy
<1>4. IsFiniteSet(OwnedBy(s, o))
  BY <1>2, <1>3, FS_Subset, Zenon
<1>5. QED
  BY <1>3, <1>4, FS_CardinalityType, Zenon

\* A table without one of its entries is shorter and has no more entries of any
\* owner, and fewer of the owner of the entry.
LEMMA RemovedIs ==
  ASSUME NEW R, NEW s \in Seq(R), NEW i \in DOMAIN s
  PROVE  /\ Removed(s, i) \in Seq(R) /\ Len(Removed(s, i)) = Len(s) - 1
         /\ \A j \in DOMAIN Removed(s, i) : Removed(s, i)[j] = IF j < i THEN s[j] ELSE s[j + 1]
         /\ \A o : Cardinality(OwnedBy(Removed(s, i), o)) <= Cardinality(OwnedBy(s, o) \ {i})
<1> DEFINE t == Removed(s, i)
<1>1. DOMAIN s = 1..Len(s) /\ Len(s) \in Nat
  OBVIOUS
<1>2. Len(s) - 1 \in Nat
  BY <1>1
<1>3. \A j \in 1..Len(s) - 1 : j \in 1..Len(s) /\ j + 1 \in 1..Len(s)
  BY <1>1
<1>4. t \in [1..Len(s) - 1 -> R]
  BY <1>1, <1>3 DEF Removed
<1>5. t \in Seq(R) /\ Len(t) = Len(s) - 1 /\ DOMAIN t = 1..Len(s) - 1
  BY <1>2, <1>4
<1>6. \A j \in DOMAIN t : t[j] = IF j < i THEN s[j] ELSE s[j + 1]
  BY <1>5 DEF Removed
<1>7. ASSUME NEW o
      PROVE  Cardinality(OwnedBy(t, o)) <= Cardinality(OwnedBy(s, o) \ {i})
  <2> DEFINE A == OwnedBy(t, o)
             B == OwnedBy(s, o) \ {i}
             f == [j \in A |-> IF j < i THEN j ELSE j + 1]
  <2>1. IsFiniteSet(B)
    BY OwnedFinite, FS_RemoveElement, Zenon
  <2>2. ASSUME NEW j \in A PROVE f[j] \in B /\ j \in Nat
    <3>1. j \in 1..Len(s) - 1 /\ t[j].owner = o
      BY <1>5 DEF OwnedBy
    <3>2. (IF j < i THEN j ELSE j + 1) \in DOMAIN s /\ (IF j < i THEN j ELSE j + 1) # i
      BY <1>1, <1>3, <3>1
    <3>3. s[IF j < i THEN j ELSE j + 1].owner = o
      BY <1>5, <1>6, <3>1
    <3>4. QED
      BY <3>1, <3>2, <3>3 DEF OwnedBy
  <2>3. ASSUME NEW j \in A, NEW k \in A, f[j] = f[k] PROVE j = k
    BY <2>2, <2>3, <1>1
  <2>4. f \in [A -> B]
    BY <2>2
  <2>5. f \in Injection(A, B)
    BY <2>3, <2>4 DEF Injection, IsInjective
  <2>6. QED
    BY <2>1, <2>5, FS_Injection, Zenon
<1>8. QED
  BY <1>5, <1>6, <1>7

\* The oldest of some entries gives way: the table stays a table, is shorter
\* by one if there is such an entry, and if the entries are those of an owner it
\* has fewer of that owner.
LEMMA SparedIs ==
  ASSUME NEW R, NEW s \in Seq(R), NEW entries \in SUBSET DOMAIN s
  PROVE  /\ Spared(s, entries) \in Seq(R)
         /\ Len(Spared(s, entries)) = IF entries = {} THEN Len(s) ELSE Len(s) - 1
         /\ \A o : Cardinality(OwnedBy(Spared(s, entries), o)) <= Cardinality(OwnedBy(s, o))
         /\ \A o : entries = OwnedBy(s, o) /\ entries # {} =>
                     Cardinality(OwnedBy(Spared(s, entries), o)) <= Cardinality(OwnedBy(s, o)) - 1
<1>1. CASE entries = {}
  <2>1. Spared(s, entries) = s
    BY <1>1 DEF Spared
  <2>2. \A o : Cardinality(OwnedBy(s, o)) \in Nat
    BY OwnedFinite, Zenon
  <2>3. QED
    BY <1>1, <2>1, <2>2
<1>2. CASE entries # {}
  <2>1. PICK i \in entries : Spared(s, entries) = Removed(s, i)
    <3>1. entries \in SUBSET Nat
      OBVIOUS
    <3>2. QED
      BY <1>2, <3>1, LeastEntry, Zenon DEF Spared
  <2>2. /\ Removed(s, i) \in Seq(R) /\ Len(Removed(s, i)) = Len(s) - 1
        /\ \A o : Cardinality(OwnedBy(Removed(s, i), o)) <= Cardinality(OwnedBy(s, o) \ {i})
    BY RemovedIs, Zenon
  <2>3. ASSUME NEW o
        PROVE  /\ Cardinality(OwnedBy(s, o) \ {i}) \in Nat /\ Cardinality(OwnedBy(s, o)) \in Nat
               /\ Cardinality(OwnedBy(Removed(s, i), o)) \in Nat
               /\ Cardinality(OwnedBy(s, o) \ {i}) =
                    IF i \in OwnedBy(s, o) THEN Cardinality(OwnedBy(s, o)) - 1
                    ELSE Cardinality(OwnedBy(s, o))
    <3>1. IsFiniteSet(OwnedBy(s, o)) /\ Cardinality(OwnedBy(s, o)) \in Nat
      BY OwnedFinite, Zenon
    <3>2. IsFiniteSet(OwnedBy(s, o) \ {i})
      BY <3>1, FS_RemoveElement, Zenon
    <3>3. Cardinality(OwnedBy(s, o) \ {i}) \in Nat
      BY <3>2, FS_CardinalityType, Zenon
    <3>4. Cardinality(OwnedBy(s, o) \ {i}) =
            IF i \in OwnedBy(s, o) THEN Cardinality(OwnedBy(s, o)) - 1 ELSE Cardinality(OwnedBy(s, o))
      BY <3>1, FS_RemoveElement, Zenon
    <3>5. Cardinality(OwnedBy(Removed(s, i), o)) \in Nat
      BY <2>2, OwnedFinite, Zenon
    <3>6. QED
      BY <3>1, <3>3, <3>4, <3>5, Zenon
  <2>4. ASSUME NEW o
        PROVE  /\ Cardinality(OwnedBy(Removed(s, i), o)) <= Cardinality(OwnedBy(s, o))
               /\ i \in OwnedBy(s, o) =>
                    Cardinality(OwnedBy(Removed(s, i), o)) <= Cardinality(OwnedBy(s, o)) - 1
    <3>1. PICK a \in Nat, b \in Nat, c \in Nat :
            /\ a = Cardinality(OwnedBy(Removed(s, i), o)) /\ b = Cardinality(OwnedBy(s, o) \ {i})
            /\ c = Cardinality(OwnedBy(s, o))
      BY <2>3, Zenon
    <3>2. a <= b
      BY <3>1, <2>2, Zenon
    <3>3. b = IF i \in OwnedBy(s, o) THEN c - 1 ELSE c
      BY <3>1, <2>3, Zenon
    <3>4. a <= c /\ (i \in OwnedBy(s, o) => a <= c - 1)
      BY <3>2, <3>3
    <3>5. QED
      BY <3>1, <3>4, Zenon
  <2>5. QED
    BY <1>2, <2>1, <2>2, <2>4, Zenon
<1>3. QED
  BY <1>1, <1>2, Zenon

\* A new entry at the end counts for its owner only.
LEMMA AppendedIs ==
  ASSUME NEW R, NEW s \in Seq(R), NEW x \in R, NEW o
  PROVE  Cardinality(OwnedBy(Append(s, x), o)) =
           IF x.owner = o THEN Cardinality(OwnedBy(s, o)) + 1 ELSE Cardinality(OwnedBy(s, o))
<1> DEFINE n == Len(s) + 1
<1>1. Len(s) \in Nat /\ DOMAIN s = 1..Len(s)
  OBVIOUS
<1>2. /\ DOMAIN Append(s, x) = DOMAIN s \cup {n} /\ n \notin DOMAIN s
      /\ Append(s, x)[n] = x /\ \A i \in DOMAIN s : Append(s, x)[i] = s[i]
  BY <1>1
<1>3. n \notin OwnedBy(s, o)
  BY <1>2 DEF OwnedBy
<1>4. OwnedBy(Append(s, x), o) = IF x.owner = o THEN OwnedBy(s, o) \cup {n} ELSE OwnedBy(s, o)
  BY <1>2 DEF OwnedBy
<1>5. IsFiniteSet(OwnedBy(s, o))
  BY OwnedFinite, Zenon
<1>6. Cardinality(OwnedBy(s, o) \cup {n}) = Cardinality(OwnedBy(s, o)) + 1
  BY <1>3, <1>5, FS_AddElement, Zenon
<1>7. QED
  BY <1>4, <1>6, Zenon

\* What is left of a table whose entries differ has different entries, without
\* the one that was removed.
LEMMA RemovedDiffer ==
  ASSUME NEW R, NEW s \in Seq(R), NEW i \in DOMAIN s, Distinct(s)
  PROVE  /\ Distinct(Removed(s, i))
         /\ \A j \in DOMAIN Removed(s, i) :
              \E k \in DOMAIN s : k # i /\ Removed(s, i)[j] = s[k]
<1> DEFINE t == Removed(s, i)
           at(j) == IF j < i THEN j ELSE j + 1
<1>1. DOMAIN s = 1..Len(s) /\ Len(s) \in Nat
  OBVIOUS
<1>2. DOMAIN t = 1..Len(s) - 1 /\ \A j \in DOMAIN t : t[j] = s[at(j)]
  BY DEF Removed
<1>3. \A j \in DOMAIN t : at(j) \in DOMAIN s /\ at(j) # i
  BY <1>1, <1>2
<1>4. \A j, k \in DOMAIN t : at(j) = at(k) => j = k
  BY <1>1, <1>2
<1> HIDE DEF t, at
<1>5. Distinct(t)
  BY <1>2, <1>3, <1>4 DEF Distinct
<1>6. \A j \in DOMAIN t : \E k \in DOMAIN s : k # i /\ t[j] = s[k]
  BY <1>2, <1>3
<1>7. QED
  BY <1>5, <1>6 DEF t

\* A table without its oldest entry still has no entry twice, and a query that
\* is taken out is not in it.
LEMMA SparedDiffer ==
  ASSUME NEW R, NEW s \in Seq(R), NEW entries \in SUBSET DOMAIN s, Distinct(s)
  PROVE  /\ Distinct(Spared(s, entries))
         /\ \A j \in DOMAIN Spared(s, entries) : \E k \in DOMAIN s : Spared(s, entries)[j] = s[k]
         /\ \A q : entries = {i \in DOMAIN s : s[i] = q} =>
                     \A j \in DOMAIN Spared(s, entries) : Spared(s, entries)[j] # q
<1>1. CASE entries = {}
  <2>1. Spared(s, entries) = s
    BY <1>1 DEF Spared
  <2>2. QED
    BY <1>1, <2>1
<1>2. CASE entries # {}
  <2>1. PICK i \in entries : Spared(s, entries) = Removed(s, i)
    <3>1. entries \in SUBSET Nat
      OBVIOUS
    <3>2. QED
      BY <1>2, <3>1, LeastEntry, Zenon DEF Spared
  <2>2. /\ Distinct(Removed(s, i))
        /\ \A j \in DOMAIN Removed(s, i) : \E k \in DOMAIN s : k # i /\ Removed(s, i)[j] = s[k]
    <3>1. i \in DOMAIN s
      OBVIOUS
    <3>2. QED
      BY <3>1, RemovedDiffer
  <2>3. ASSUME NEW q, entries = {j \in DOMAIN s : s[j] = q}, NEW j \in DOMAIN Removed(s, i)
        PROVE  Removed(s, i)[j] # q
    <3>1. PICK k \in DOMAIN s : k # i /\ Removed(s, i)[j] = s[k]
      BY <2>2, Zenon
    <3>2. s[i] = q /\ s[k] # s[i]
      BY <2>3, <3>1, Zenon DEF Distinct
    <3>3. QED
      BY <3>1, <3>2, Zenon
  <2>4. QED
    BY <2>1, <2>2, <2>3, Zenon
<1>3. QED
  BY <1>1, <1>2, Zenon

-----------------------------------------------------------------------------
(* What is kept stays within its limits *)

\* A view that is published makes room for itself: neither all owners nor one
\* have more than they may.
LEMMA PublishKeeps ==
  ASSUME CaptureAssumption, TypeOK, ViewsBounded, NEW key \in Keys, Room(key),
         snapshots' = Append(Spared(snapshots, ReplaceableSnapshot(key.owner)), key)
  PROVE  snapshots' \in Seq(Keys) /\ ViewsBounded'
<1> DEFINE owned == OwnedBy(snapshots, key.owner)
           R == ReplaceableSnapshot(key.owner)
           left == Spared(snapshots, R)
<1>1. /\ snapshots \in Seq(Keys) /\ MaxSnapshots \in Nat /\ MaxOwnerSnapshots \in Nat
      /\ MaxOwnerSnapshots >= 1
  BY DEF TypeOK, CaptureAssumption
<1>2. owned \in SUBSET DOMAIN snapshots /\ IsFiniteSet(owned) /\ Cardinality(owned) \in Nat
  BY <1>1, OwnedFinite, Zenon
<1>3. R = IF Cardinality(owned) >= MaxOwnerSnapshots THEN owned ELSE {}
  BY DEF ReplaceableSnapshot
<1>4. R \in SUBSET DOMAIN snapshots
  BY <1>2, <1>3, Zenon
<1> HIDE DEF R
<1>5. /\ left \in Seq(Keys)
      /\ \A o : Cardinality(OwnedBy(left, o)) <= Cardinality(OwnedBy(snapshots, o))
      /\ R = owned /\ R # {} =>
           Cardinality(OwnedBy(left, key.owner)) <= Cardinality(owned) - 1
  BY <1>1, <1>4, SparedIs, Zenon
<1>6. Len(left) < MaxSnapshots
  BY DEF Room, R
<1> HIDE DEF left
<1>7. snapshots' = Append(left, key)
  BY DEF left, R
<1>8. snapshots' \in Seq(Keys) /\ Len(snapshots') <= MaxSnapshots
  BY <1>1, <1>5, <1>6, <1>7
<1>9. ASSUME NEW o \in Owner PROVE Cardinality(OwnedBy(snapshots', o)) <= MaxOwnerSnapshots
  <2>1. Cardinality(OwnedBy(snapshots', o)) =
          IF key.owner = o THEN Cardinality(OwnedBy(left, o)) + 1 ELSE Cardinality(OwnedBy(left, o))
    <3>1. Cardinality(OwnedBy(Append(left, key), o)) =
            IF key.owner = o THEN Cardinality(OwnedBy(left, o)) + 1
            ELSE Cardinality(OwnedBy(left, o))
      BY <1>5, AppendedIs, Zenon
    <3>2. QED
      BY <1>7, <3>1, Zenon
  <2>2. PICK a \in Nat, b \in Nat :
          a = Cardinality(OwnedBy(left, o)) /\ b = Cardinality(OwnedBy(snapshots, o))
    BY <1>1, <1>5, OwnedFinite, Zenon
  <2>3. a <= b /\ b <= MaxOwnerSnapshots
    BY <1>5, <2>2, Zenon DEF ViewsBounded
  <2>4. CASE key.owner # o
    BY <2>1, <2>2, <2>3, <2>4, <1>1
  <2>5. CASE key.owner = o
    <3>1. CASE b < MaxOwnerSnapshots
      BY <2>1, <2>2, <2>3, <2>5, <3>1, <1>1
    <3>2. CASE b >= MaxOwnerSnapshots
      <4>1. R = owned /\ owned # {}
        <5>1. Cardinality(owned) >= MaxOwnerSnapshots
          BY <2>2, <2>5, <3>2
        <5>2. Cardinality(owned) # 0
          BY <5>1, <1>1, <1>2
        <5>3. QED
          BY <1>2, <1>3, <5>1, <5>2, FS_EmptySet, Zenon
      <4>2. a <= b - 1
        BY <1>5, <2>2, <2>5, <4>1, Zenon
      <4>3. QED
        BY <2>1, <2>2, <2>3, <2>5, <4>2, <1>1
    <3>3. QED
      BY <2>2, <3>1, <3>2, <1>1
  <2>6. QED
    BY <2>4, <2>5, Zenon
<1>10. QED
  BY <1>8, <1>9 DEF ViewsBounded
\* An entry the table does not hold can be added.
LEMMA AppendDiffers ==
  ASSUME NEW R, NEW s \in Seq(R), NEW q \in R, Distinct(s), \A j \in DOMAIN s : s[j] # q
  PROVE  Distinct(Append(s, q))
<1> DEFINE n == Len(s) + 1
<1>1. Len(s) \in Nat /\ DOMAIN s = 1..Len(s)
  OBVIOUS
<1>2. /\ DOMAIN Append(s, q) = DOMAIN s \cup {n}
      /\ Append(s, q)[n] = q /\ \A i \in DOMAIN s : Append(s, q)[i] = s[i]
  BY <1>1
<1>3. QED
  BY <1>2 DEF Distinct

\* A lease that is renewed makes room for itself in the same way, and no query
\* has two of them.
LEMMA RenewKeeps ==
  ASSUME CaptureAssumption, TypeOK, LeasesBounded, LeasesDiffer, NEW q \in Queries,
         leases' = RenewLease(q)
  PROVE  leases' \in Seq(Queries) /\ LeasesBounded' /\ LeasesDiffer'
<1> DEFINE E1 == {i \in DOMAIN leases : leases[i] = q}
           kept == Spared(leases, E1)
           owned == OwnedBy(kept, q.owner)
           E2 == IF Cardinality(owned) >= MaxOwnerLeases THEN owned ELSE {}
           spared == Spared(kept, E2)
           E3 == IF Len(spared) >= MaxLeases THEN DOMAIN spared ELSE {}
           left == Spared(spared, E3)
<1>1. /\ leases \in Seq(Queries) /\ MaxLeases \in Nat /\ MaxOwnerLeases \in Nat
      /\ MaxLeases >= 1 /\ MaxOwnerLeases >= 1
  BY DEF TypeOK, CaptureAssumption
<1>2. leases' = Append(left, q)
  BY DEF RenewLease
<1>3. E1 \in SUBSET DOMAIN leases
  OBVIOUS
<1>4. /\ kept \in Seq(Queries) /\ Len(kept) = IF E1 = {} THEN Len(leases) ELSE Len(leases) - 1
      /\ \A o : Cardinality(OwnedBy(kept, o)) <= Cardinality(OwnedBy(leases, o))
  <2> HIDE DEF E1
  <2>1. QED
    BY <1>1, <1>3, SparedIs, Zenon
<1>5. Distinct(kept) /\ \A j \in DOMAIN kept : kept[j] # q
  BY <1>1, <1>3, SparedDiffer DEF LeasesDiffer
<1> HIDE DEF E1, kept
<1>6. owned \in SUBSET DOMAIN kept /\ IsFiniteSet(owned) /\ Cardinality(owned) \in Nat
  BY <1>4, OwnedFinite, Zenon
<1>7. E2 \in SUBSET DOMAIN kept
  BY <1>6, Zenon
<1>8. (Cardinality(owned) >= MaxOwnerLeases => E2 = owned /\ E2 # {})
  <2>1. SUFFICES ASSUME Cardinality(owned) >= MaxOwnerLeases PROVE E2 = owned /\ owned # {}
    BY Zenon
  <2>2. Cardinality(owned) # 0
    BY <2>1, <1>1, <1>6
  <2>3. QED
    BY <2>1, <2>2, <1>6, FS_EmptySet, Zenon
<1> HIDE DEF E2
<1>9. /\ spared \in Seq(Queries) /\ Len(spared) = IF E2 = {} THEN Len(kept) ELSE Len(kept) - 1
      /\ \A o : Cardinality(OwnedBy(spared, o)) <= Cardinality(OwnedBy(kept, o))
      /\ E2 = owned /\ E2 # {} =>
           Cardinality(OwnedBy(spared, q.owner)) <= Cardinality(owned) - 1
  BY <1>4, <1>7, SparedIs, Zenon
<1>10. Distinct(spared) /\ \A j \in DOMAIN spared : spared[j] # q
  BY <1>4, <1>5, <1>7, SparedDiffer
<1> HIDE DEF spared
<1>11. E3 \in SUBSET DOMAIN spared
  BY Zenon
<1>12. Len(spared) >= MaxLeases => E3 # {}
  <2>1. DOMAIN spared = 1..Len(spared) /\ Len(spared) \in Nat
    BY <1>9
  <2>2. Len(spared) >= MaxLeases => 1 \in DOMAIN spared
    BY <1>1, <2>1
  <2>3. QED
    BY <2>2, Zenon
<1> HIDE DEF E3
<1>13. /\ left \in Seq(Queries) /\ Len(left) = IF E3 = {} THEN Len(spared) ELSE Len(spared) - 1
       /\ \A o : Cardinality(OwnedBy(left, o)) <= Cardinality(OwnedBy(spared, o))
  BY <1>9, <1>11, SparedIs, Zenon
<1>14. Distinct(left) /\ \A j \in DOMAIN left : left[j] # q
  BY <1>9, <1>10, <1>11, SparedDiffer
<1> HIDE DEF left
<1>15. leases' \in Seq(Queries) /\ Len(leases') = Len(left) + 1
  BY <1>2, <1>13
<1>16. Len(leases') <= MaxLeases
  <2>1. PICK a \in Nat, b \in Nat, c \in Nat, d \in Nat :
          a = Len(leases) /\ b = Len(kept) /\ c = Len(spared) /\ d = Len(left)
    <3>1. \A s \in Seq(Queries) : Len(s) \in Nat
      OBVIOUS
    <3>2. QED
      BY <3>1, <1>1, <1>4, <1>9, <1>13, Zenon
  <2>2. a <= MaxLeases
    BY <2>1 DEF LeasesBounded
  <2>3. b <= a /\ c <= b
    BY <2>1, <1>4, <1>9
  <2>4. d < MaxLeases
    BY <2>1, <2>2, <2>3, <1>1, <1>12, <1>13
  <2>5. QED
    BY <2>1, <2>4, <1>1, <1>15
<1>17. ASSUME NEW o \in Owner PROVE Cardinality(OwnedBy(leases', o)) <= MaxOwnerLeases
  <2>1. Cardinality(OwnedBy(Append(left, q), o)) =
          IF q.owner = o THEN Cardinality(OwnedBy(left, o)) + 1 ELSE Cardinality(OwnedBy(left, o))
    BY <1>13, AppendedIs, Zenon
  <2>2. PICK a \in Nat, b \in Nat, c \in Nat, d \in Nat :
          /\ a = Cardinality(OwnedBy(leases, o)) /\ b = Cardinality(OwnedBy(kept, o))
          /\ c = Cardinality(OwnedBy(spared, o)) /\ d = Cardinality(OwnedBy(left, o))
    BY <1>1, <1>4, <1>9, <1>13, OwnedFinite, Zenon
  <2>3. a <= MaxOwnerLeases
    BY <2>2, Zenon DEF LeasesBounded
  <2>4. b <= a /\ c <= b /\ d <= c
    BY <2>2, <1>4, <1>9, <1>13, Zenon
  <2>5. Cardinality(OwnedBy(leases', o)) = IF q.owner = o THEN d + 1 ELSE d
    BY <2>1, <2>2, <1>2, Zenon
  <2>6. q.owner = o => d < MaxOwnerLeases
    <3>1. SUFFICES ASSUME q.owner = o PROVE d < MaxOwnerLeases
      BY Zenon
    <3>2. CASE b < MaxOwnerLeases
      BY <2>4, <3>2, <1>1
    <3>3. CASE b >= MaxOwnerLeases
      <4>1. Cardinality(owned) = b
        BY <2>2, <3>1, Zenon
      <4>2. c <= b - 1
        BY <4>1, <3>3, <3>1, <2>2, <1>8, <1>9, Zenon
      <4>3. QED
        BY <4>2, <2>3, <2>4, <1>1
    <3>4. QED
      BY <3>2, <3>3, <1>1
  <2>7. QED
    BY <2>3, <2>4, <2>5, <2>6, <1>1
<1>18. Distinct(leases')
  <2>1. Distinct(Append(left, q))
    BY <1>13, <1>14, AppendDiffers
  <2>2. QED
    BY <2>1, <1>2, Zenon
<1>19. QED
  BY <1>15, <1>16, <1>17, <1>18 DEF LeasesBounded, LeasesDiffer

\* An entry that expires leaves the tables within their limits.
LEMMA DropViewKeeps ==
  ASSUME TypeOK, ViewsBounded, CaptureAssumption, NEW i \in DOMAIN snapshots,
         snapshots' = Removed(snapshots, i)
  PROVE  snapshots' \in Seq(Keys) /\ ViewsBounded'
<1>1. snapshots \in Seq(Keys) /\ MaxSnapshots \in Nat /\ MaxOwnerSnapshots \in Nat
  BY DEF TypeOK, CaptureAssumption
<1>2. /\ Removed(snapshots, i) \in Seq(Keys) /\ Len(Removed(snapshots, i)) = Len(snapshots) - 1
      /\ \A o : Cardinality(OwnedBy(Removed(snapshots, i), o))
                  <= Cardinality(OwnedBy(snapshots, o) \ {i})
  BY <1>1, RemovedIs, Zenon
<1>3. Len(snapshots') <= MaxSnapshots
  BY <1>1, <1>2 DEF ViewsBounded
<1>4. ASSUME NEW o \in Owner PROVE Cardinality(OwnedBy(snapshots', o)) <= MaxOwnerSnapshots
  <2>1. IsFiniteSet(OwnedBy(snapshots, o))
    BY <1>1, OwnedFinite, Zenon
  <2>2. /\ Cardinality(OwnedBy(snapshots, o) \ {i}) \in Nat
        /\ Cardinality(OwnedBy(snapshots, o) \ {i}) <= Cardinality(OwnedBy(snapshots, o))
    BY <2>1, NoMore, Zenon
  <2>3. Cardinality(OwnedBy(snapshots', o)) <= Cardinality(OwnedBy(snapshots, o) \ {i})
    BY <1>2, Zenon
  <2>4. Cardinality(OwnedBy(snapshots', o)) \in Nat /\ Cardinality(OwnedBy(snapshots, o)) \in Nat
    BY <1>1, <1>2, OwnedFinite, Zenon
  <2>5. Cardinality(OwnedBy(snapshots, o)) <= MaxOwnerSnapshots
    BY DEF ViewsBounded
  <2>6. QED
    BY <2>2, <2>3, <2>4, <2>5, <1>1
<1>5. QED
  BY <1>2, <1>3, <1>4 DEF ViewsBounded

\* A lease that is forgotten leaves the leases within their limits.
LEMMA DropLeaseKeeps ==
  ASSUME TypeOK, LeasesBounded, LeasesDiffer, CaptureAssumption, NEW i \in DOMAIN leases,
         leases' = Removed(leases, i)
  PROVE  leases' \in Seq(Queries) /\ LeasesBounded' /\ LeasesDiffer'
<1>1. leases \in Seq(Queries) /\ MaxLeases \in Nat /\ MaxOwnerLeases \in Nat
  BY DEF TypeOK, CaptureAssumption
<1>2. /\ Removed(leases, i) \in Seq(Queries) /\ Len(Removed(leases, i)) = Len(leases) - 1
      /\ \A o : Cardinality(OwnedBy(Removed(leases, i), o)) <= Cardinality(OwnedBy(leases, o) \ {i})
  BY <1>1, RemovedIs, Zenon
<1>3. Len(leases') <= MaxLeases
  BY <1>1, <1>2 DEF LeasesBounded
<1>4. ASSUME NEW o \in Owner PROVE Cardinality(OwnedBy(leases', o)) <= MaxOwnerLeases
  <2>1. IsFiniteSet(OwnedBy(leases, o))
    BY <1>1, OwnedFinite, Zenon
  <2>2. /\ Cardinality(OwnedBy(leases, o) \ {i}) \in Nat
        /\ Cardinality(OwnedBy(leases, o) \ {i}) <= Cardinality(OwnedBy(leases, o))
    BY <2>1, NoMore, Zenon
  <2>3. Cardinality(OwnedBy(leases', o)) <= Cardinality(OwnedBy(leases, o) \ {i})
    BY <1>2, Zenon
  <2>4. Cardinality(OwnedBy(leases', o)) \in Nat /\ Cardinality(OwnedBy(leases, o)) \in Nat
    BY <1>1, <1>2, OwnedFinite, Zenon
  <2>5. Cardinality(OwnedBy(leases, o)) <= MaxOwnerLeases
    BY DEF LeasesBounded
  <2>6. QED
    BY <2>2, <2>3, <2>4, <2>5, <1>1
<1>5. Distinct(leases')
  <2>1. Distinct(Removed(leases, i))
    BY <1>1, RemovedDiffer DEF LeasesDiffer
  <2>2. QED
    BY <2>1, Zenon
<1>6. QED
  BY <1>2, <1>3, <1>4, <1>5 DEF LeasesBounded, LeasesDiffer
-----------------------------------------------------------------------------
(* Readers *)

\* The states of a request, and what a request has in each.
LEMMA RequestIs ==
  ASSUME NEW q \in Requests
  PROVE  /\ q.state \in {"idle", "waiting", "cancelled", "answered"}
         /\ q = Idle <=> q.state = "idle"
         /\ q # Idle => q.shared \in BOOLEAN
         /\ q.state \in {"waiting", "cancelled"} => q \in Waiters /\ q.key \in Keys
BY DEF Requests, Idle, Waiters, Leavers

\* Readers are finitely many, and so are those who wait or share.
LEMMA ReadersFinite ==
  ASSUME CaptureAssumption, NEW key
  PROVE  /\ IsFiniteSet(Waiting(key)) /\ Cardinality(Waiting(key)) \in Nat
         /\ IsFiniteSet(Sharing) /\ Cardinality(Sharing) \in Nat
<1>1. IsFiniteSet(Reader)
  BY DEF CaptureAssumption
<1>2. Waiting(key) \in SUBSET Reader /\ Sharing \in SUBSET Reader
  BY DEF Waiting, Sharing
<1>3. IsFiniteSet(Waiting(key)) /\ IsFiniteSet(Sharing)
  BY <1>1, <1>2, FS_Subset, Zenon
<1>4. QED
  BY <1>3, FS_CardinalityType, Zenon

\* A request that moves on changes the readers of its own capture only, and the
\* readers who share only by itself.
LEMMA OneReaderMoves ==
  ASSUME TypeOK, NEW r \in Reader, NEW q \in Requests, reader' = [reader EXCEPT ![r] = q]
  PROVE  /\ reader' \in [Reader -> Requests]
         /\ reader'[r] = q /\ \A other \in Reader \ {r} : reader'[other] = reader[other]
         /\ \A key : Waiting(key)' = IF q.state = "waiting" /\ q.key = key
                                     THEN Waiting(key) \cup {r} ELSE Waiting(key) \ {r}
         /\ Sharing' = IF q # Idle /\ q.shared THEN Sharing \cup {r} ELSE Sharing \ {r}
<1>1. /\ reader' \in [Reader -> Requests]
      /\ reader'[r] = q /\ \A other \in Reader \ {r} : reader'[other] = reader[other]
  BY DEF TypeOK
<1>2. ASSUME NEW key
      PROVE  Waiting(key)' = IF q.state = "waiting" /\ q.key = key
                             THEN Waiting(key) \cup {r} ELSE Waiting(key) \ {r}
  BY <1>1, Zenon DEF Waiting
<1>3. Sharing' = IF q # Idle /\ q.shared THEN Sharing \cup {r} ELSE Sharing \ {r}
  BY <1>1, Zenon DEF Sharing
<1>4. QED
  BY <1>1, <1>2, <1>3, Zenon

\* A set without what is not in it is the set.
LEMMA Unaffected ==
  ASSUME NEW S, NEW x, x \notin S
  PROVE  S \ {x} = S
OBVIOUS

\* A request that begins to wait does so for its own capture.
LEMMA ReaderWaits ==
  ASSUME TypeOK, NEW r \in Reader, reader[r] = Idle, NEW key \in Keys, NEW shared \in BOOLEAN,
         reader' = Waits(r, key, shared)
  PROVE  /\ reader' \in [Reader -> Requests]
         /\ reader'[r].key = key /\ \A other \in Reader \ {r} : reader'[other] = reader[other]
         /\ r \notin Waiting(key) /\ Waiting(key)' = Waiting(key) \cup {r}
         /\ \A k : k # key => Waiting(k)' = Waiting(k)
         /\ r \notin Sharing /\ Sharing' = IF shared THEN Sharing \cup {r} ELSE Sharing
<1> DEFINE q == [state |-> "waiting", key |-> key, shared |-> shared]
<1>1. q \in Requests /\ q.state = "waiting" /\ q.key = key /\ q.shared = shared /\ q # Idle
  BY DEF Requests, Waiters, Idle
<1>2. reader' = [reader EXCEPT ![r] = q]
  BY Zenon DEF Waits
<1> HIDE DEF q
<1>3. /\ reader' \in [Reader -> Requests]
      /\ reader'[r] = q /\ \A other \in Reader \ {r} : reader'[other] = reader[other]
      /\ \A k : Waiting(k)' = IF q.state = "waiting" /\ q.key = k
                              THEN Waiting(k) \cup {r} ELSE Waiting(k) \ {r}
      /\ Sharing' = IF q # Idle /\ q.shared THEN Sharing \cup {r} ELSE Sharing \ {r}
  BY <1>1, <1>2, OneReaderMoves, Zenon
<1>4. r \notin Sharing /\ \A k : r \notin Waiting(k)
  BY DEF Sharing, Waiting, Idle
<1>5. ASSUME NEW k, k # key PROVE Waiting(k)' = Waiting(k)
  <2>1. Waiting(k)' = Waiting(k) \ {r}
    BY <1>1, <1>3, <1>5, Zenon
  <2>2. QED
    BY <2>1, <1>4, Unaffected, Zenon
<1>6. Waiting(key)' = Waiting(key) \cup {r} /\ reader'[r].key = key
  BY <1>1, <1>3, Zenon
<1>7. Sharing' = IF shared THEN Sharing \cup {r} ELSE Sharing
  <2>1. Sharing \ {r} = Sharing
    BY <1>4, Unaffected, Zenon
  <2>2. QED
    BY <2>1, <1>1, <1>3, Zenon
<1>8. QED
  BY <1>3, <1>4, <1>5, <1>6, <1>7, Zenon

\* A counter of a table is set.
LEMMA CounterSet ==
  ASSUME NEW D, NEW f \in [D -> Nat], NEW k \in D, NEW n \in Nat
  PROVE  /\ [f EXCEPT ![k] = n] \in [D -> Nat] /\ DOMAIN [f EXCEPT ![k] = n] = D
         /\ [f EXCEPT ![k] = n][k] = n
         /\ \A other \in D : other # k => [f EXCEPT ![k] = n][other] = f[other]
OBVIOUS

\* The counters and what they count, without the tables of what is kept
Counted == Linked /\ ReadersCounted /\ BuildsCounted /\ ReservationsCounted /\ SharersCounted

\* A request that is answered at once counts nowhere.
LEMMA AnswerKeeps ==
  ASSUME TypeOK, Counted, NEW r \in Reader, reader[r] = Idle, NEW x \in Replies,
         reader' = Answered(r, x),
         UNCHANGED <<captures, builds, reserved, ownerReserved, captureReaders>>
  PROVE  reader' \in [Reader -> Requests] /\ Counted'
<1> DEFINE q == [state |-> "answered", shared |-> FALSE, reply |-> x]
<1>1. q \in Requests
  BY DEF Requests, Leavers
<1>2. q.state = "answered" /\ ~q.shared /\ reader' = [reader EXCEPT ![r] = q]
  BY DEF Answered
<1> HIDE DEF q
<1>3. /\ reader' \in [Reader -> Requests]
      /\ reader'[r] = q /\ \A other \in Reader \ {r} : reader'[other] = reader[other]
      /\ \A key : Waiting(key)' = Waiting(key) \ {r}
      /\ Sharing' = Sharing \ {r}
  <2>1. /\ reader' \in [Reader -> Requests]
        /\ reader'[r] = q /\ \A other \in Reader \ {r} : reader'[other] = reader[other]
        /\ \A key : Waiting(key)' = IF q.state = "waiting" /\ q.key = key
                                    THEN Waiting(key) \cup {r} ELSE Waiting(key) \ {r}
        /\ Sharing' = IF q # Idle /\ q.shared THEN Sharing \cup {r} ELSE Sharing \ {r}
    BY <1>1, <1>2, OneReaderMoves, Zenon
  <2>2. q.state # "waiting"
    BY <1>2
  <2>3. QED
    BY <1>2, <2>1, <2>2, Zenon
<1>4. r \notin Sharing /\ \A key : r \notin Waiting(key)
  BY DEF Sharing, Waiting, Idle
<1>5. Sharing' = Sharing /\ \A key : Waiting(key)' = Waiting(key)
  BY <1>3, <1>4
<1>6. ReadersCounted' /\ BuildsCounted' /\ ReservationsCounted' /\ SharersCounted'
  BY <1>5 DEF Counted, ReadersCounted, BuildsCounted, ReservationsCounted, SharersCounted,
              Building, Reserving
<1>7. Linked'
  <2>1. ASSUME NEW o \in Reader, reader'[o].state = "waiting"
        PROVE  reader'[o].key \in DOMAIN captures
    <3>1. o # r
      BY <2>1, <1>2, <1>3
    <3>2. reader'[o] = reader[o]
      BY <3>1, <1>3
    <3>3. QED
      BY <2>1, <3>2 DEF Counted, Linked
  <2>2. QED
    BY <2>1 DEF Counted, Linked
<1>8. QED
  BY <1>3, <1>6, <1>7 DEF Counted
-----------------------------------------------------------------------------
(* Captures *)

\* What a capture counts for is finite.
LEMMA CapturesFinite ==
  ASSUME TypeOK, NEW x
  PROVE  /\ IsFiniteSet(Building(x)) /\ Cardinality(Building(x)) \in Nat
         /\ IsFiniteSet(Reserving(x)) /\ Cardinality(Reserving(x)) \in Nat
         /\ IsFiniteSet(DOMAIN captures) /\ Cardinality(DOMAIN captures) \in Nat
<1>1. IsFiniteSet(DOMAIN captures)
  BY DEF TypeOK
<1>2. Building(x) \in SUBSET DOMAIN captures /\ Reserving(x) \in SUBSET DOMAIN captures
  BY DEF Building, Reserving
<1>3. IsFiniteSet(Building(x)) /\ IsFiniteSet(Reserving(x))
  BY <1>1, <1>2, FS_Subset, Zenon
<1>4. QED
  BY <1>1, <1>3, FS_CardinalityType, Zenon

\* A new capture counts for its build and for its owner.
LEMMA CaptureCounts ==
  ASSUME TypeOK, NEW key, key \notin DOMAIN captures,
         DOMAIN captures' = DOMAIN captures \cup {key}
  PROVE  /\ IsFiniteSet(DOMAIN captures')
         /\ Cardinality(DOMAIN captures') = Cardinality(DOMAIN captures) + 1
         /\ \A o : Cardinality(Reserving(o)') = IF key.owner = o THEN Cardinality(Reserving(o)) + 1
                                                ELSE Cardinality(Reserving(o))
         /\ \A s : Cardinality(Building(s)') = IF Selection(key) = s THEN Cardinality(Building(s)) + 1
                                               ELSE Cardinality(Building(s))
<1>1. IsFiniteSet(DOMAIN captures)
  BY DEF TypeOK
<1>2. /\ IsFiniteSet(DOMAIN captures')
      /\ Cardinality(DOMAIN captures') = Cardinality(DOMAIN captures) + 1
  <2>1. /\ IsFiniteSet(DOMAIN captures \cup {key})
        /\ Cardinality(DOMAIN captures \cup {key}) = Cardinality(DOMAIN captures) + 1
    BY <1>1, FS_AddElement, Zenon
  <2>2. QED
    BY <2>1, Zenon
<1>3. ASSUME NEW o
      PROVE  Cardinality(Reserving(o)') = IF key.owner = o THEN Cardinality(Reserving(o)) + 1
                                          ELSE Cardinality(Reserving(o))
  <2>1. IsFiniteSet(Reserving(o)) /\ key \notin Reserving(o)
    BY CapturesFinite, Zenon DEF Reserving
  <2>2. Cardinality(Reserving(o) \cup {key}) = Cardinality(Reserving(o)) + 1
    BY <2>1, FS_AddElement, Zenon
  <2>3. Reserving(o)' = IF key.owner = o THEN Reserving(o) \cup {key} ELSE Reserving(o)
    BY DEF Reserving
  <2>4. QED
    BY <2>2, <2>3, Zenon
<1>4. ASSUME NEW s
      PROVE  Cardinality(Building(s)') = IF Selection(key) = s THEN Cardinality(Building(s)) + 1
                                         ELSE Cardinality(Building(s))
  <2>1. IsFiniteSet(Building(s)) /\ key \notin Building(s)
    BY CapturesFinite, Zenon DEF Building
  <2>2. Cardinality(Building(s) \cup {key}) = Cardinality(Building(s)) + 1
    BY <2>1, FS_AddElement, Zenon
  <2>3. Building(s)' = IF Selection(key) = s THEN Building(s) \cup {key} ELSE Building(s)
    BY DEF Building
  <2>4. QED
    BY <2>2, <2>3, Zenon
<1>5. QED
  BY <1>2, <1>3, <1>4, Zenon

\* One that has ended counts no more.
LEMMA CaptureEnds ==
  ASSUME TypeOK, NEW key \in DOMAIN captures, DOMAIN captures' = DOMAIN captures \ {key}
  PROVE  /\ IsFiniteSet(DOMAIN captures')
         /\ Cardinality(DOMAIN captures') = Cardinality(DOMAIN captures) - 1
         /\ \A o : Cardinality(Reserving(o)') = IF key.owner = o THEN Cardinality(Reserving(o)) - 1
                                                ELSE Cardinality(Reserving(o))
         /\ \A s : Cardinality(Building(s)') = IF Selection(key) = s THEN Cardinality(Building(s)) - 1
                                               ELSE Cardinality(Building(s))
<1>1. IsFiniteSet(DOMAIN captures)
  BY DEF TypeOK
<1>2. /\ IsFiniteSet(DOMAIN captures')
      /\ Cardinality(DOMAIN captures') = Cardinality(DOMAIN captures) - 1
  <2>1. /\ IsFiniteSet(DOMAIN captures \ {key})
        /\ Cardinality(DOMAIN captures \ {key}) = Cardinality(DOMAIN captures) - 1
    BY <1>1, FS_RemoveElement, Zenon
  <2>2. QED
    BY <2>1, Zenon
<1>3. ASSUME NEW o
      PROVE  Cardinality(Reserving(o)') = IF key.owner = o THEN Cardinality(Reserving(o)) - 1
                                          ELSE Cardinality(Reserving(o))
  <2>1. IsFiniteSet(Reserving(o)) /\ (key.owner = o => key \in Reserving(o))
    BY CapturesFinite, Zenon DEF Reserving
  <2>2. key.owner = o => Cardinality(Reserving(o) \ {key}) = Cardinality(Reserving(o)) - 1
    BY <2>1, FS_RemoveElement, Zenon
  <2>3. Reserving(o)' = IF key.owner = o THEN Reserving(o) \ {key} ELSE Reserving(o)
    BY DEF Reserving
  <2>4. QED
    BY <2>2, <2>3, Zenon
<1>4. ASSUME NEW s
      PROVE  Cardinality(Building(s)') = IF Selection(key) = s THEN Cardinality(Building(s)) - 1
                                         ELSE Cardinality(Building(s))
  <2>1. IsFiniteSet(Building(s)) /\ (Selection(key) = s => key \in Building(s))
    BY CapturesFinite, Zenon DEF Building
  <2>2. Selection(key) = s => Cardinality(Building(s) \ {key}) = Cardinality(Building(s)) - 1
    BY <2>1, FS_RemoveElement, Zenon
  <2>3. Building(s)' = IF Selection(key) = s THEN Building(s) \ {key} ELSE Building(s)
    BY DEF Building
  <2>4. QED
    BY <2>2, <2>3, Zenon
<1>5. QED
  BY <1>2, <1>3, <1>4, Zenon
\* A reader joins a capture that is under way, if the limit of readers allows.
LEMMA JoinKeeps ==
  ASSUME CaptureAssumption, TypeOK, Counted, NEW r \in Reader, reader[r] = Idle,
         NEW key \in DOMAIN captures, reserved + captureReaders < MaxReaders,
         reader' = Waits(r, key, TRUE),
         captures' = [captures EXCEPT ![key] = @ + 1],
         captureReaders' = captureReaders + 1,
         UNCHANGED <<builds, reserved, ownerReserved>>
  PROVE  /\ reader' \in [Reader -> Requests] /\ captures' \in [DOMAIN captures -> Nat]
         /\ captureReaders' \in Nat /\ Counted'
<1>1. key \in Keys
  BY DEF TypeOK
<1>2. /\ reader' \in [Reader -> Requests]
      /\ reader'[r].key = key /\ \A other \in Reader \ {r} : reader'[other] = reader[other]
      /\ r \notin Waiting(key) /\ Waiting(key)' = Waiting(key) \cup {r}
      /\ \A k : k # key => Waiting(k)' = Waiting(k)
      /\ r \notin Sharing /\ Sharing' = Sharing \cup {r}
  BY <1>1, ReaderWaits, Zenon
<1>3. /\ captures' \in [DOMAIN captures -> Nat] /\ DOMAIN captures' = DOMAIN captures
      /\ captures'[key] = captures[key] + 1
      /\ \A k \in DOMAIN captures : k # key => captures'[k] = captures[k]
  <2>1. captures \in [DOMAIN captures -> Nat] /\ captures[key] + 1 \in Nat
    <3>1. captures \in [DOMAIN captures -> Nat]
      BY DEF TypeOK
    <3>2. PICK n \in Nat : n = captures[key]
      BY <3>1, Zenon
    <3>3. QED
      BY <3>1, <3>2
  <2>2. QED
    BY <2>1, CounterSet, Zenon
<1>4. ReadersCounted'
  <2>1. Cardinality(Waiting(key) \cup {r}) = Cardinality(Waiting(key)) + 1
    BY <1>2, ReadersFinite, FS_AddElement, Zenon
  <2>2. ASSUME NEW k \in DOMAIN captures PROVE captures'[k] = Cardinality(Waiting(k)')
    <3>1. captures[k] = Cardinality(Waiting(k))
      BY DEF Counted, ReadersCounted
    <3>2. CASE k = key
      BY <3>1, <3>2, <2>1, <1>2, <1>3, Zenon
    <3>3. CASE k # key
      BY <3>1, <3>3, <1>2, <1>3, Zenon
    <3>4. QED
      BY <3>2, <3>3, Zenon
  <2>3. QED
    BY <2>2, <1>3, Zenon DEF ReadersCounted
<1>5. BuildsCounted' /\ ReservationsCounted'
  BY <1>3, Zenon DEF Counted, BuildsCounted, ReservationsCounted, Building, Reserving
<1>6. SharersCounted' /\ captureReaders' \in Nat
  <2>1. Cardinality(Sharing \cup {r}) = Cardinality(Sharing) + 1
    BY <1>2, ReadersFinite, FS_AddElement, Zenon
  <2>2. captureReaders' = Cardinality(Sharing')
    BY <2>1, <1>2, Zenon DEF Counted, SharersCounted
  <2>3. reserved \in Nat /\ captureReaders \in Nat /\ MaxReaders \in Nat /\ reserved' = reserved
    BY DEF TypeOK, CaptureAssumption
  <2>4. reserved' + captureReaders' <= MaxReaders /\ captureReaders' \in Nat
    BY <2>3
  <2>5. QED
    BY <2>2, <2>4 DEF SharersCounted
<1>7. Linked'
  <2>1. ASSUME NEW o \in Reader, reader'[o].state = "waiting"
        PROVE  reader'[o].key \in DOMAIN captures
    <3>1. CASE o = r
      BY <3>1, <1>2, Zenon
    <3>2. CASE o # r
      <4>1. reader'[o] = reader[o]
        BY <3>2, <1>2, Zenon
      <4>2. QED
        BY <2>1, <4>1, Zenon DEF Counted, Linked
    <3>3. QED
      BY <3>1, <3>2, Zenon
  <2>2. QED
    BY <2>1, <1>3, Zenon DEF Counted, Linked
<1>8. QED
  BY <1>2, <1>3, <1>4, <1>5, <1>6, <1>7, Zenon DEF Counted

\* A reader is cancelled: its capture has one reader less, and goes on.
LEMMA CancelKeeps ==
  ASSUME CaptureAssumption, TypeOK, Counted, NEW r \in Reader, reader[r].state = "waiting",
         NEW key, key = reader[r].key,
         captures' = [captures EXCEPT ![key] = @ - 1],
         reader' = Cancelled(r),
         UNCHANGED <<builds, reserved, ownerReserved, captureReaders>>
  PROVE  /\ reader' \in [Reader -> Requests] /\ captures' \in [DOMAIN captures -> Nat]
         /\ Counted'
<1>1. PICK p : p = reader[r] /\ p \in Waiters /\ p # Idle /\ key \in DOMAIN captures
  <2>1. reader[r] \in Requests /\ key \in DOMAIN captures
    BY DEF TypeOK, Counted, Linked
  <2>2. reader[r] \in Waiters /\ reader[r] # Idle
    BY <2>1, RequestIs
  <2>3. QED
    BY <2>1, <2>2, Zenon
<1> DEFINE q == [p EXCEPT !.state = "cancelled"]
<1>2. q \in Waiters /\ q.state = "cancelled" /\ q.shared = p.shared
  BY <1>1 DEF Waiters
<1>3. q \in Requests /\ q # Idle
  BY <1>2 DEF Requests, Idle
<1>4. reader' = [reader EXCEPT ![r] = q]
  BY <1>1, Zenon DEF Cancelled
<1> HIDE DEF q
<1>5. /\ reader' \in [Reader -> Requests]
      /\ reader'[r] = q /\ \A other \in Reader \ {r} : reader'[other] = reader[other]
      /\ \A k : Waiting(k)' = IF q.state = "waiting" /\ q.key = k
                              THEN Waiting(k) \cup {r} ELSE Waiting(k) \ {r}
      /\ Sharing' = IF q # Idle /\ q.shared THEN Sharing \cup {r} ELSE Sharing \ {r}
  BY <1>3, <1>4, OneReaderMoves, Zenon
<1>6. r \in Waiting(key) /\ \A k : k # key => r \notin Waiting(k)
  BY Zenon DEF Waiting
<1>7. Sharing' = Sharing
  <2>1. r \in Sharing <=> q.shared
    BY <1>1, <1>2, Zenon DEF Sharing
  <2>2. QED
    BY <2>1, <1>3, <1>5, Zenon
<1>8. Waiting(key)' = Waiting(key) \ {r} /\ \A k : k # key => Waiting(k)' = Waiting(k)
  <2>1. q.state # "waiting"
    BY <1>2
  <2>2. \A k : Waiting(k)' = Waiting(k) \ {r}
    BY <2>1, <1>5, Zenon
  <2>3. QED
    BY <2>2, <1>6, Unaffected, Zenon
<1>9. Cardinality(Waiting(key) \ {r}) = Cardinality(Waiting(key)) - 1
  BY <1>6, ReadersFinite, FS_RemoveElement, Zenon
<1>10. captures[key] = Cardinality(Waiting(key)) /\ Cardinality(Waiting(key) \ {r}) \in Nat
  BY <1>1, ReadersFinite, NoMore, Zenon DEF Counted, ReadersCounted
<1>11. captures[key] - 1 \in Nat
  BY <1>9, <1>10
<1>12. /\ captures' \in [DOMAIN captures -> Nat] /\ DOMAIN captures' = DOMAIN captures
       /\ captures'[key] = captures[key] - 1
       /\ \A k \in DOMAIN captures : k # key => captures'[k] = captures[k]
  <2>1. captures \in [DOMAIN captures -> Nat]
    BY DEF TypeOK
  <2>2. QED
    BY <2>1, <1>1, <1>11, CounterSet, Zenon
<1>13. ReadersCounted'
  <2>1. ASSUME NEW k \in DOMAIN captures PROVE captures'[k] = Cardinality(Waiting(k)')
    <3>1. captures[k] = Cardinality(Waiting(k))
      BY DEF Counted, ReadersCounted
    <3>2. CASE k = key
      BY <3>1, <3>2, <1>8, <1>9, <1>12, Zenon
    <3>3. CASE k # key
      BY <3>1, <3>3, <1>8, <1>12, Zenon
    <3>4. QED
      BY <3>2, <3>3, Zenon
  <2>2. QED
    BY <2>1, <1>12, Zenon DEF ReadersCounted
<1>14. BuildsCounted' /\ ReservationsCounted' /\ SharersCounted'
  BY <1>7, <1>12, Zenon DEF Counted, BuildsCounted, ReservationsCounted, SharersCounted, Building, Reserving
<1>15. Linked'
  <2>1. ASSUME NEW o \in Reader, reader'[o].state = "waiting"
        PROVE  reader'[o].key \in DOMAIN captures
    <3>1. o # r
      BY <2>1, <1>2, <1>5
    <3>2. reader'[o] = reader[o]
      BY <3>1, <1>5
    <3>3. QED
      BY <2>1, <3>2 DEF Counted, Linked
  <2>2. QED
    BY <2>1, <1>12 DEF Counted, Linked
<1>16. QED
  BY <1>5, <1>12, <1>13, <1>14, <1>15 DEF Counted

\* A request ends, and gives back its place if it shared.
LEMMA LeaveKeeps ==
  ASSUME CaptureAssumption, TypeOK, Counted, NEW r \in Reader,
         reader[r].state \in {"answered", "cancelled"},
         captureReaders' = captureReaders - (IF reader[r].shared THEN 1 ELSE 0),
         reader' = [reader EXCEPT ![r] = Idle],
         UNCHANGED <<captures, builds, reserved, ownerReserved>>
  PROVE  reader' \in [Reader -> Requests] /\ captureReaders' \in Nat /\ Counted'
<1>1. Idle \in Requests /\ Idle.state = "idle" /\ reader[r] # Idle /\ reader[r] \in Requests
  BY DEF Requests, Idle, TypeOK
<1>2. /\ reader' \in [Reader -> Requests]
      /\ reader'[r] = Idle /\ \A other \in Reader \ {r} : reader'[other] = reader[other]
      /\ \A k : Waiting(k)' = Waiting(k) \ {r}
      /\ Sharing' = Sharing \ {r}
  <2>1. /\ reader' \in [Reader -> Requests]
        /\ reader'[r] = Idle /\ \A other \in Reader \ {r} : reader'[other] = reader[other]
        /\ \A k : Waiting(k)' = IF Idle.state = "waiting" /\ Idle.key = k
                                THEN Waiting(k) \cup {r} ELSE Waiting(k) \ {r}
        /\ Sharing' = IF Idle # Idle /\ Idle.shared THEN Sharing \cup {r} ELSE Sharing \ {r}
    BY <1>1, OneReaderMoves, Zenon
  <2>2. Idle.state # "waiting"
    BY <1>1
  <2>3. QED
    BY <2>1, <2>2, Zenon
<1>3. \A k : r \notin Waiting(k)
  BY DEF Waiting
<1>4. \A k : Waiting(k)' = Waiting(k)
  BY <1>2, <1>3
<1>5. ReadersCounted' /\ BuildsCounted' /\ ReservationsCounted'
  BY <1>4, Zenon DEF Counted, ReadersCounted, BuildsCounted, ReservationsCounted, Building, Reserving
<1>6. captureReaders' = Cardinality(Sharing') /\ captureReaders' \in Nat
  <2>1. reader[r].shared \in BOOLEAN /\ (r \in Sharing <=> reader[r].shared)
    BY <1>1, RequestIs DEF Sharing
  <2>2. Cardinality(Sharing \ {r}) = IF r \in Sharing THEN Cardinality(Sharing) - 1
                                     ELSE Cardinality(Sharing)
    BY ReadersFinite, FS_RemoveElement, Zenon
  <2>3. Cardinality(Sharing \ {r}) \in Nat
    BY ReadersFinite, NoMore, Zenon
  <2>4. captureReaders = Cardinality(Sharing) /\ captureReaders \in Nat
    BY DEF Counted, SharersCounted, TypeOK
  <2>5. captureReaders' = Cardinality(Sharing \ {r})
    BY <2>1, <2>2, <2>4
  <2>6. QED
    BY <2>3, <2>5, <1>2, Zenon
<1>7. SharersCounted'
  <2>1. captureReaders' <= captureReaders /\ captureReaders \in Nat /\ reserved \in Nat
    BY DEF TypeOK
  <2>2. reserved' + captureReaders' <= MaxReaders
    BY <2>1, <1>6 DEF Counted, SharersCounted, CaptureAssumption
  <2>3. QED
    BY <2>2, <1>6 DEF SharersCounted
<1>8. Linked'
  <2>1. ASSUME NEW o \in Reader, reader'[o].state = "waiting"
        PROVE  reader'[o].key \in DOMAIN captures
    <3>1. o # r
      BY <2>1, <1>1, <1>2
    <3>2. reader'[o] = reader[o]
      BY <3>1, <1>2
    <3>3. QED
      BY <2>1, <3>2 DEF Counted, Linked
  <2>2. QED
    BY <2>1 DEF Counted, Linked
<1>9. QED
  BY <1>2, <1>5, <1>6, <1>7, <1>8 DEF Counted
\* A reader starts a capture, and with it the build of its pages unless one is
\* under way: one reservation is made, and counted for the owner and the build.
LEMMA NewCaptureKeeps ==
  ASSUME CaptureAssumption, TypeOK, Counted, NEW r \in Reader, reader[r] = Idle,
         NEW key \in Keys, key \notin DOMAIN captures, reserved + captureReaders < MaxReaders,
         NEW s \in AllSelections, s = Selection(key),
         reader' = Waits(r, key, FALSE),
         captures' = With(captures, key, 1),
         builds' = IF s \in DOMAIN builds THEN [builds EXCEPT ![s].readers = @ + 1]
                   ELSE With(builds, s, [readers |-> 1, state |-> "queued", result |-> "none"]),
         reserved' = reserved + 1,
         ownerReserved' = [ownerReserved EXCEPT ![key.owner] = @ + 1],
         UNCHANGED captureReaders
  PROVE  /\ reader' \in [Reader -> Requests]
         /\ IsFiniteSet(DOMAIN captures') /\ DOMAIN captures' \subseteq Keys
         /\ captures' \in [DOMAIN captures' -> Nat]
         /\ DOMAIN builds' \subseteq AllSelections /\ builds' \in [DOMAIN builds' -> Builds]
         /\ reserved' \in Nat /\ ownerReserved' \in [Owner -> Nat]
         /\ Counted'
<1>1. /\ reader' \in [Reader -> Requests]
      /\ reader'[r].key = key /\ \A other \in Reader \ {r} : reader'[other] = reader[other]
      /\ Waiting(key)' = Waiting(key) \cup {r}
      /\ \A k : k # key => Waiting(k)' = Waiting(k)
      /\ Sharing' = Sharing
  BY ReaderWaits, Zenon
<1>2. Waiting(key) = {}
  BY DEF Waiting, Counted, Linked
<1>3. /\ DOMAIN captures' = DOMAIN captures \cup {key}
      /\ captures'[key] = 1 /\ \A k \in DOMAIN captures : captures'[k] = captures[k]
      /\ captures' \in [DOMAIN captures' -> Nat]
  <2>1. /\ DOMAIN captures' = DOMAIN captures \cup {key} /\ captures'[key] = 1
        /\ \A k \in DOMAIN captures : captures'[k] = captures[k]
        /\ captures' = [k \in DOMAIN captures' |-> captures'[k]]
    BY Zenon DEF With
  <2>2. \A k \in DOMAIN captures : captures[k] \in Nat
    BY DEF TypeOK
  <2>3. \A k \in DOMAIN captures' : captures'[k] \in Nat
    BY <2>1, <2>2
  <2>4. QED
    BY <2>1, <2>3, Zenon
<1>4. /\ IsFiniteSet(DOMAIN captures')
      /\ Cardinality(DOMAIN captures') = Cardinality(DOMAIN captures) + 1
      /\ \A o : Cardinality(Reserving(o)') = IF key.owner = o THEN Cardinality(Reserving(o)) + 1
                                             ELSE Cardinality(Reserving(o))
      /\ \A t : Cardinality(Building(t)') = IF Selection(key) = t THEN Cardinality(Building(t)) + 1
                                            ELSE Cardinality(Building(t))
  BY <1>3, CaptureCounts, Zenon
<1>5. ReadersCounted'
  <2>1. Cardinality({r}) = 1 /\ Waiting(key)' = {r}
    BY <1>1, <1>2, FS_Singleton, Zenon
  <2>2. ASSUME NEW k \in DOMAIN captures PROVE captures'[k] = Cardinality(Waiting(k)')
    BY <1>1, <1>3, Zenon DEF Counted, ReadersCounted
  <2>3. QED
    BY <2>1, <2>2, <1>3, Zenon DEF ReadersCounted
<1>6. /\ DOMAIN builds' = DOMAIN builds \cup {s} /\ builds' \in [DOMAIN builds' -> Builds]
      /\ \A t \in DOMAIN builds : t # s => builds'[t] = builds[t]
      /\ s \in DOMAIN builds => builds'[s].readers = builds[s].readers + 1
      /\ s \notin DOMAIN builds => builds'[s].readers = 1
  <2>1. \A t \in DOMAIN builds : builds[t] \in Builds
    BY DEF TypeOK
  <2>2. CASE s \in DOMAIN builds
    <3> DEFINE b == [builds[s] EXCEPT !.readers = @ + 1]
    <3>1. b \in Builds /\ b.readers = builds[s].readers + 1
      BY <2>1, <2>2 DEF Builds
    <3>2. builds' = [builds EXCEPT ![s] = b]
      BY <2>2, Zenon
    <3> HIDE DEF b
    <3>3. /\ DOMAIN builds' = DOMAIN builds /\ builds'[s] = b
          /\ \A t \in DOMAIN builds : t # s => builds'[t] = builds[t]
          /\ builds' = [t \in DOMAIN builds' |-> builds'[t]]
      BY <2>2, <3>2, Zenon
    <3>4. \A t \in DOMAIN builds' : builds'[t] \in Builds
      BY <2>1, <3>1, <3>3, Zenon
    <3>5. DOMAIN builds = DOMAIN builds \cup {s}
      BY <2>2
    <3>6. QED
      BY <2>2, <3>1, <3>3, <3>4, <3>5, Zenon
  <2>3. CASE s \notin DOMAIN builds
    <3> DEFINE b == [readers |-> 1, state |-> "queued", result |-> "none"]
    <3>1. b \in Builds /\ b.readers = 1
      BY DEF Builds, Results
    <3>2. builds' = With(builds, s, b)
      BY <2>3, Zenon
    <3> HIDE DEF b
    <3>3. /\ DOMAIN builds' = DOMAIN builds \cup {s} /\ builds'[s] = b
          /\ \A t \in DOMAIN builds : t # s => builds'[t] = builds[t]
          /\ builds' = [t \in DOMAIN builds' |-> builds'[t]]
      BY <3>2, Zenon DEF With
    <3>4. \A t \in DOMAIN builds' : builds'[t] \in Builds
      BY <2>1, <3>1, <3>3, Zenon
    <3>5. QED
      BY <2>3, <3>1, <3>3, <3>4, Zenon
  <2>4. QED
    BY <2>2, <2>3, Zenon
<1>7. BuildsCounted'
  <2>1. Cardinality(Building(s)') = Cardinality(Building(s)) + 1
    BY <1>4, Zenon
  <2>2. Cardinality(Building(s)) \in Nat
    BY CapturesFinite, Zenon
  <2>3. s \notin DOMAIN builds => Cardinality(Building(s)) = 0
    <3>1. s \notin DOMAIN builds => Building(s) = {}
      BY DEF Building, Counted, Linked
    <3>2. QED
      BY <3>1, FS_EmptySet, Zenon
  <2>4. s \in DOMAIN builds => builds[s].readers = Cardinality(Building(s))
    BY DEF Counted, BuildsCounted
  <2>5. builds'[s].readers = Cardinality(Building(s)') /\ builds'[s].readers > 0
    <3>1. PICK a \in Nat : a = Cardinality(Building(s))
      BY <2>2, Zenon
    <3>2. CASE s \in DOMAIN builds
      <4>1. builds'[s].readers = a + 1
        BY <3>1, <3>2, <2>4, <1>6, Zenon
      <4>2. a + 1 > 0
        OBVIOUS
      <4>3. QED
        BY <4>1, <4>2, <3>1, <2>1, Zenon
    <3>3. CASE s \notin DOMAIN builds
      <4>1. builds'[s].readers = 1 /\ a = 0
        BY <3>1, <3>3, <2>3, <1>6, Zenon
      <4>2. 1 = a + 1 /\ 1 > 0
        BY <4>1
      <4>3. QED
        BY <4>1, <4>2, <3>1, <2>1, Zenon
    <3>4. QED
      BY <3>2, <3>3, Zenon
  <2>6. ASSUME NEW t \in DOMAIN builds, t # s
        PROVE  builds'[t].readers = Cardinality(Building(t)') /\ builds'[t].readers > 0
    <3>1. Cardinality(Building(t)') = Cardinality(Building(t)) /\ builds'[t] = builds[t]
      BY <2>6, <1>4, <1>6, Zenon
    <3>2. builds[t].readers = Cardinality(Building(t)) /\ builds[t].readers > 0
      BY DEF Counted, BuildsCounted
    <3>3. QED
      BY <3>1, <3>2, Zenon
  <2>7. QED
    BY <2>5, <2>6, <1>6, Zenon DEF BuildsCounted
<1>8. ReservationsCounted' /\ reserved' \in Nat /\ ownerReserved' \in [Owner -> Nat]
  <2>1. ownerReserved \in [Owner -> Nat] /\ key.owner \in Owner /\ reserved \in Nat
    BY DEF TypeOK, Keys
  <2>2. PICK n \in Nat, p \in Owner : n = ownerReserved[key.owner] /\ p = key.owner
    BY <2>1, Zenon
  <2>3. n + 1 \in Nat /\ reserved' \in Nat
    BY <2>1
  <2>4. ownerReserved' = [ownerReserved EXCEPT ![p] = n + 1]
    BY <2>2, Zenon
  <2>5. /\ ownerReserved' \in [Owner -> Nat] /\ ownerReserved'[p] = n + 1
        /\ \A o \in Owner : o # p => ownerReserved'[o] = ownerReserved[o]
    <3>1. /\ [ownerReserved EXCEPT ![p] = n + 1] \in [Owner -> Nat]
          /\ [ownerReserved EXCEPT ![p] = n + 1][p] = n + 1
          /\ \A o \in Owner : o # p => [ownerReserved EXCEPT ![p] = n + 1][o] = ownerReserved[o]
      BY <2>1, <2>3, CounterSet, Zenon
    <3>2. QED
      BY <3>1, <2>4, Zenon
  <2>6. ASSUME NEW o \in Owner PROVE ownerReserved'[o] = Cardinality(Reserving(o)')
    <3>1. ownerReserved[o] = Cardinality(Reserving(o))
      BY DEF Counted, ReservationsCounted
    <3>2. CASE o = p
      BY <3>1, <3>2, <2>2, <2>5, <1>4, Zenon
    <3>3. CASE o # p
      BY <3>1, <3>3, <2>2, <2>5, <1>4, Zenon
    <3>4. QED
      BY <3>2, <3>3, Zenon
  <2>7. reserved' = Cardinality(DOMAIN captures')
    BY <1>4, Zenon DEF Counted, ReservationsCounted
  <2>8. QED
    BY <2>3, <2>5, <2>6, <2>7, Zenon DEF ReservationsCounted
<1>9. SharersCounted'
  <2>1. reserved \in Nat /\ captureReaders \in Nat /\ MaxReaders \in Nat
    BY DEF TypeOK, CaptureAssumption
  <2>2. reserved' + captureReaders' <= MaxReaders
    BY <2>1
  <2>3. QED
    BY <2>2, <1>1, Zenon DEF Counted, SharersCounted
<1>10. Linked'
  <2>1. ASSUME NEW o \in Reader, reader'[o].state = "waiting"
        PROVE  reader'[o].key \in DOMAIN captures'
    <3>1. CASE o = r
      BY <3>1, <1>1, <1>3, Zenon
    <3>2. CASE o # r
      <4>1. reader'[o] = reader[o]
        BY <3>2, <1>1, Zenon
      <4>2. QED
        BY <2>1, <4>1, <1>3, Zenon DEF Counted, Linked
    <3>3. QED
      BY <3>1, <3>2, Zenon
  <2>2. ASSUME NEW k \in DOMAIN captures' PROVE Selection(k) \in DOMAIN builds'
    BY <1>3, <1>6 DEF Counted, Linked
  <2>3. QED
    BY <2>1, <2>2, Zenon DEF Linked
<1>11. DOMAIN captures' \subseteq Keys /\ DOMAIN builds' \subseteq AllSelections
  BY <1>3, <1>6, Zenon DEF TypeOK
<1>12. QED
  BY <1>1, <1>3, <1>4, <1>5, <1>6, <1>7, <1>8, <1>9, <1>10, <1>11, Zenon DEF Counted
\* A capture ends: who waited for it is answered, and the reservation is given
\* back, with the build if nobody else has it.
LEMMA EndCaptureKeeps ==
  ASSUME CaptureAssumption, TypeOK, Counted, NEW key \in DOMAIN captures, NEW x \in Replies,
         Answers(key, x), Finish(key), UNCHANGED captureReaders
  PROVE  /\ reader' \in [Reader -> Requests]
         /\ IsFiniteSet(DOMAIN captures') /\ DOMAIN captures' \subseteq Keys
         /\ captures' \in [DOMAIN captures' -> Nat]
         /\ DOMAIN builds' \subseteq AllSelections /\ builds' \in [DOMAIN builds' -> Builds]
         /\ reserved' \in Nat /\ ownerReserved' \in [Owner -> Nat]
         /\ Counted'
<1>1. PICK s : s = Selection(key) /\ s \in DOMAIN builds
  BY DEF Counted, Linked
<1>2. /\ builds' = IF builds[s].readers = 1 THEN Less(builds, s) ELSE [builds EXCEPT ![s].readers = @ - 1]
      /\ captures' = Less(captures, key)
      /\ reserved' = reserved - 1
      /\ ownerReserved' = [ownerReserved EXCEPT ![key.owner] = @ - 1]
  BY <1>1, Zenon DEF Finish
<1>3. ASSUME NEW r \in Reader
      PROVE  /\ reader'[r] \in Requests
             /\ (reader'[r] # Idle) <=> (reader[r] # Idle)
             /\ reader[r] # Idle => reader'[r].shared = reader[r].shared
             /\ reader'[r].state = "waiting" => reader'[r] = reader[r] /\ reader[r].key # key
             /\ reader[r].state = "waiting" /\ reader[r].key # key => reader'[r] = reader[r]
  <2>1. PICK p \in Requests : p = reader[r]
    BY Zenon DEF TypeOK
  <2> DEFINE a == [state |-> "answered", shared |-> p.shared,
                   reply |-> IF p.state = "cancelled" THEN "cancelled" ELSE x]
  <2>2. reader'[r] = IF p.state \in {"waiting", "cancelled"} /\ p.key = key THEN a ELSE p
    BY <2>1, Zenon DEF Answers
  <2>3. p.state \in {"waiting", "cancelled"} => p # Idle /\ p.shared \in BOOLEAN
    BY RequestIs
  <2>4. p.state \in {"waiting", "cancelled"} => a \in Requests
    BY <2>3 DEF Requests, Leavers, Replies
  <2>5. a.state = "answered" /\ a.shared = p.shared /\ a # Idle
    BY DEF Idle
  <2> HIDE DEF a
  <2>6. a.state # "waiting"
    BY <2>5
  <2>7. CASE p.state \in {"waiting", "cancelled"} /\ p.key = key
    BY <2>1, <2>2, <2>3, <2>4, <2>5, <2>6, <2>7, Zenon
  <2>8. CASE ~(p.state \in {"waiting", "cancelled"} /\ p.key = key)
    <3>1. reader'[r] = p
      BY <2>2, <2>8, Zenon
    <3>2. p.state = "waiting" => p.key # key
      BY <2>8
    <3>3. QED
      BY <2>1, <3>1, <3>2, Zenon
  <2>9. QED
    BY <2>7, <2>8, Zenon
<1>4. reader' \in [Reader -> Requests]
  <2>1. reader' = [r \in Reader |-> reader'[r]]
    BY Zenon DEF Answers
  <2>2. QED
    BY <2>1, <1>3, Zenon
<1>5. Sharing' = Sharing
  BY <1>3, Zenon DEF Sharing
<1>6. ASSUME NEW k, k # key PROVE Waiting(k)' = Waiting(k)
  <2>1. ASSUME NEW r \in Reader
        PROVE  (reader'[r].state = "waiting" /\ reader'[r].key = k)
                 <=> (reader[r].state = "waiting" /\ reader[r].key = k)
    BY <1>3, <1>6, Zenon
  <2>2. QED
    BY <2>1, Zenon DEF Waiting
<1>7. /\ DOMAIN captures' = DOMAIN captures \ {key}
      /\ \A k \in DOMAIN captures' : captures'[k] = captures[k]
      /\ captures' \in [DOMAIN captures' -> Nat]
  <2>1. /\ DOMAIN captures' = DOMAIN captures \ {key}
        /\ \A k \in DOMAIN captures' : captures'[k] = captures[k]
        /\ captures' = [k \in DOMAIN captures' |-> captures'[k]]
    BY <1>2, Zenon DEF Less, Restrict
  <2>2. \A k \in DOMAIN captures : captures[k] \in Nat
    BY DEF TypeOK
  <2>3. \A k \in DOMAIN captures' : captures'[k] \in Nat
    BY <2>1, <2>2
  <2>4. QED
    BY <2>1, <2>3, Zenon
<1>8. /\ IsFiniteSet(DOMAIN captures')
      /\ Cardinality(DOMAIN captures') = Cardinality(DOMAIN captures) - 1
      /\ \A o : Cardinality(Reserving(o)') = IF key.owner = o THEN Cardinality(Reserving(o)) - 1
                                             ELSE Cardinality(Reserving(o))
      /\ \A t : Cardinality(Building(t)') = IF Selection(key) = t THEN Cardinality(Building(t)) - 1
                                            ELSE Cardinality(Building(t))
  BY <1>7, CaptureEnds, Zenon
<1>9. ReadersCounted'
  <2>1. ASSUME NEW k \in DOMAIN captures' PROVE captures'[k] = Cardinality(Waiting(k)')
    <3>1. k \in DOMAIN captures /\ k # key /\ captures'[k] = captures[k]
      BY <1>7
    <3>2. QED
      BY <3>1, <1>6, Zenon DEF Counted, ReadersCounted
  <2>2. QED
    BY <2>1, Zenon DEF ReadersCounted
<1>10. PICK n \in Nat : n = builds[s].readers /\ n = Cardinality(Building(s)) /\ n > 0
  BY <1>1, CapturesFinite, Zenon DEF Counted, BuildsCounted
<1>11. \A t \in DOMAIN builds : builds[t] \in Builds
  BY DEF TypeOK
<1>14. /\ BuildsCounted' /\ \A k \in DOMAIN captures' : Selection(k) \in DOMAIN builds'
       /\ DOMAIN builds' \subseteq AllSelections /\ builds' \in [DOMAIN builds' -> Builds]
  <2>1. CASE n = 1
    <3>1. /\ DOMAIN builds' = DOMAIN builds \ {s}
          /\ \A t \in DOMAIN builds' : builds'[t] = builds[t]
          /\ builds' = [t \in DOMAIN builds' |-> builds'[t]]
      BY <1>2, <1>10, <2>1, Zenon DEF Less, Restrict
    <3>2. Building(s)' = {}
      <4>1. Cardinality(Building(s)') = 0
        <5>1. Cardinality(Building(s)') = n - 1
          BY <1>1, <1>8, <1>10, Zenon
        <5>2. QED
          BY <5>1, <2>1
      <4>2. IsFiniteSet(Building(s)')
        <5>1. Building(s)' \in SUBSET DOMAIN captures'
          BY DEF Building
        <5>2. QED
          BY <5>1, <1>8, FS_Subset, Zenon
      <4>3. QED
        BY <4>1, <4>2, FS_EmptySet, Zenon
    <3>3. ASSUME NEW k \in DOMAIN captures' PROVE Selection(k) \in DOMAIN builds'
      <4>1. Selection(k) # s
        BY <3>2, Zenon DEF Building
      <4>2. Selection(k) \in DOMAIN builds
        BY <1>7 DEF Counted, Linked
      <4>3. QED
        BY <3>1, <4>1, <4>2
    <3>4. ASSUME NEW t \in DOMAIN builds'
          PROVE  builds'[t].readers = Cardinality(Building(t)') /\ builds'[t].readers > 0
      <4>1. t \in DOMAIN builds /\ t # s /\ builds'[t] = builds[t]
        BY <3>1
      <4>2. Cardinality(Building(t)') = Cardinality(Building(t))
        BY <4>1, <1>1, <1>8, Zenon
      <4>3. builds[t].readers = Cardinality(Building(t)) /\ builds[t].readers > 0
        BY <4>1 DEF Counted, BuildsCounted
      <4>4. QED
        BY <4>1, <4>2, <4>3, Zenon
    <3>5. DOMAIN builds' \subseteq AllSelections /\ builds' \in [DOMAIN builds' -> Builds]
      <4>1. DOMAIN builds' \subseteq DOMAIN builds
        BY <3>1
      <4>2. \A t \in DOMAIN builds' : builds'[t] \in Builds
        BY <3>1, <4>1, <1>11
      <4>3. DOMAIN builds \subseteq AllSelections
        BY DEF TypeOK
      <4>4. DOMAIN builds' \subseteq AllSelections
        BY <4>1, <4>3
      <4>5. QED
        BY <3>1, <4>2, <4>4, Zenon
    <3>6. QED
      BY <3>3, <3>4, <3>5, Zenon DEF BuildsCounted
  <2>2. CASE n # 1
    <3> DEFINE b == [builds[s] EXCEPT !.readers = @ - 1]
    <3>1. n - 1 \in Nat /\ n - 1 > 0
      BY <1>10, <2>2
    <3>2. b \in Builds /\ b.readers = n - 1
      BY <1>1, <1>10, <1>11, <3>1 DEF Builds
    <3>3. builds' = [builds EXCEPT ![s] = b]
      BY <1>2, <1>10, <2>2, Zenon
    <3> HIDE DEF b
    <3>4. /\ DOMAIN builds' = DOMAIN builds /\ builds'[s] = b
          /\ \A t \in DOMAIN builds : t # s => builds'[t] = builds[t]
          /\ builds' = [t \in DOMAIN builds' |-> builds'[t]]
      BY <1>1, <3>3, Zenon
    <3>5. ASSUME NEW t \in DOMAIN builds'
          PROVE  builds'[t].readers = Cardinality(Building(t)') /\ builds'[t].readers > 0
      <4>1. CASE t = s
        <5>1. Cardinality(Building(s)') = n - 1
          BY <1>1, <1>8, <1>10, Zenon
        <5>2. QED
          BY <5>1, <4>1, <3>1, <3>2, <3>4, Zenon
      <4>2. CASE t # s
        <5>1. t \in DOMAIN builds /\ builds'[t] = builds[t]
          BY <3>4, <4>2, Zenon
        <5>2. Cardinality(Building(t)') = Cardinality(Building(t))
          BY <4>2, <1>1, <1>8, Zenon
        <5>3. builds[t].readers = Cardinality(Building(t)) /\ builds[t].readers > 0
          BY <5>1 DEF Counted, BuildsCounted
        <5>4. QED
          BY <5>1, <5>2, <5>3, Zenon
      <4>3. QED
        BY <4>1, <4>2, Zenon
    <3>6. ASSUME NEW k \in DOMAIN captures' PROVE Selection(k) \in DOMAIN builds'
      BY <1>7, <3>4 DEF Counted, Linked
    <3>7. DOMAIN builds' \subseteq AllSelections /\ builds' \in [DOMAIN builds' -> Builds]
      <4>1. \A t \in DOMAIN builds' : builds'[t] \in Builds
        BY <3>2, <3>4, <1>11, Zenon
      <4>2. DOMAIN builds' \subseteq AllSelections
        BY <3>4 DEF TypeOK
      <4>3. QED
        BY <3>4, <4>1, <4>2, Zenon
    <3>8. QED
      BY <3>5, <3>6, <3>7, Zenon DEF BuildsCounted
  <2>3. QED
    BY <2>1, <2>2, Zenon
<1>15. ReservationsCounted' /\ reserved' \in Nat /\ ownerReserved' \in [Owner -> Nat]
  <2>1. ownerReserved \in [Owner -> Nat] /\ key \in Keys /\ reserved \in Nat
    BY DEF TypeOK
  <2>2. PICK p \in Owner : p = key.owner
    BY <2>1 DEF Keys
  <2>3. PICK c \in Nat : c = ownerReserved[p] /\ c = Cardinality(Reserving(p))
    BY <2>1, CapturesFinite, Zenon DEF Counted, ReservationsCounted
  <2>4. c - 1 \in Nat
    <3>1. key \in Reserving(p) /\ IsFiniteSet(Reserving(p))
      BY <2>2, CapturesFinite, Zenon DEF Reserving
    <3>2. c # 0
      BY <3>1, <2>3, FS_EmptySet, Zenon
    <3>3. QED
      BY <3>2
  <2>5. ownerReserved' = [ownerReserved EXCEPT ![p] = c - 1]
    BY <1>2, <2>2, <2>3, Zenon
  <2>6. /\ ownerReserved' \in [Owner -> Nat] /\ ownerReserved'[p] = c - 1
        /\ \A o \in Owner : o # p => ownerReserved'[o] = ownerReserved[o]
    <3>1. /\ [ownerReserved EXCEPT ![p] = c - 1] \in [Owner -> Nat]
          /\ [ownerReserved EXCEPT ![p] = c - 1][p] = c - 1
          /\ \A o \in Owner : o # p => [ownerReserved EXCEPT ![p] = c - 1][o] = ownerReserved[o]
      BY <2>1, <2>4, CounterSet, Zenon
    <3>2. QED
      BY <3>1, <2>5, Zenon
  <2>7. ASSUME NEW o \in Owner PROVE ownerReserved'[o] = Cardinality(Reserving(o)')
    <3>1. ownerReserved[o] = Cardinality(Reserving(o))
      BY DEF Counted, ReservationsCounted
    <3>2. CASE o = p
      BY <3>2, <2>2, <2>3, <2>6, <1>8, Zenon
    <3>3. CASE o # p
      BY <3>1, <3>3, <2>2, <2>6, <1>8, Zenon
    <3>4. QED
      BY <3>2, <3>3, Zenon
  <2>8. reserved' = Cardinality(DOMAIN captures')
    BY <1>2, <1>8, Zenon DEF Counted, ReservationsCounted
  <2>9. reserved' \in Nat
    BY <2>8, <1>8, FS_CardinalityType, Zenon
  <2>10. QED
    BY <2>6, <2>7, <2>8, <2>9, Zenon DEF ReservationsCounted
<1>16. SharersCounted'
  <2>1. reserved \in Nat /\ captureReaders \in Nat /\ MaxReaders \in Nat
    BY DEF TypeOK, CaptureAssumption
  <2>2. reserved + captureReaders <= MaxReaders
    BY DEF Counted, SharersCounted
  <2>3. reserved' + captureReaders' <= MaxReaders
    BY <1>2, <2>1, <2>2
  <2>4. QED
    BY <2>3, <1>5, Zenon DEF Counted, SharersCounted
<1>17. Linked'
  <2>1. ASSUME NEW o \in Reader, reader'[o].state = "waiting"
        PROVE  reader'[o].key \in DOMAIN captures'
    <3>1. reader'[o] = reader[o] /\ reader[o].key # key
      BY <2>1, <1>3, Zenon
    <3>2. reader[o].key \in DOMAIN captures
      BY <2>1, <3>1 DEF Counted, Linked
    <3>3. QED
      BY <3>1, <3>2, <1>7
  <2>2. QED
    BY <2>1, <1>14, Zenon DEF Linked
<1>18. DOMAIN captures' \subseteq Keys
  BY <1>7 DEF TypeOK
<1>19. QED
  BY <1>4, <1>7, <1>8, <1>9, <1>14, <1>15, <1>16, <1>17, <1>18, Zenon DEF Counted
-----------------------------------------------------------------------------
(* The steps *)

\* The part of the invariant about the pages that are kept, and the part about
\* the work that is shared
Kept ==
  /\ snapshots \in Seq(Keys) /\ leases \in Seq(Queries)
  /\ ViewsBounded /\ LeasesBounded /\ LeasesDiffer
Shared ==
  /\ reader \in [Reader -> Requests]
  /\ IsFiniteSet(DOMAIN captures) /\ DOMAIN captures \subseteq Keys
  /\ captures \in [DOMAIN captures -> Nat]
  /\ DOMAIN builds \subseteq AllSelections /\ builds \in [DOMAIN builds -> Builds]
  /\ reserved \in Nat /\ ownerReserved \in [Owner -> Nat] /\ captureReaders \in Nat
  /\ Counted

\* The invariant is these two parts and the types of the rest.
LEMMA InvariantParts ==
  CaptureInv <=> version \in 1..MaxVersion /\ closed \in BOOLEAN /\ Kept /\ Shared
BY Zenon DEF CaptureInv, TypeOK, Kept, Shared, Counted

\* What a step leaves alone stays as it should be.
LEMMA KeptStutters ==
  ASSUME Kept, UNCHANGED <<snapshots, leases>>
  PROVE  Kept'
<1>1. snapshots' = snapshots /\ leases' = leases
  OBVIOUS
<1>2. QED
  BY <1>1, Zenon DEF Kept, ViewsBounded, LeasesBounded, LeasesDiffer, Distinct, OwnedBy

\* ... and so do the counters, when neither they nor what they count change.
LEMMA SharedStutters ==
  ASSUME Shared, UNCHANGED <<reader, captures, builds, reserved, ownerReserved, captureReaders>>
  PROVE  Shared'
<1>1. /\ reader' = reader /\ captures' = captures /\ builds' = builds /\ reserved' = reserved
      /\ ownerReserved' = ownerReserved /\ captureReaders' = captureReaders
  OBVIOUS
<1>2. Counted'
  <2>1. ASSUME NEW x
        PROVE  /\ Waiting(x)' = Waiting(x) /\ Building(x)' = Building(x)
               /\ Reserving(x)' = Reserving(x) /\ Sharing' = Sharing
    BY <1>1, Zenon DEF Waiting, Building, Reserving, Sharing
  <2>2. Counted
    BY Zenon DEF Shared
  <2>3. ReadersCounted' /\ BuildsCounted'
    BY <1>1, <2>1, <2>2, Zenon DEF Counted, ReadersCounted, BuildsCounted
  <2>4. ReservationsCounted' /\ SharersCounted'
    BY <1>1, <2>1, <2>2, Zenon DEF Counted, ReservationsCounted, SharersCounted
  <2>5. Linked'
    BY <1>1, <2>2, Zenon DEF Counted, Linked
  <2>6. QED
    BY <2>3, <2>4, <2>5, Zenon DEF Counted
<1>3. QED
  BY <1>1, <1>2, Zenon DEF Shared

\* The query of a request, its capture and its selection are of the right kind.
LEMMA KeyIs ==
  ASSUME CaptureAssumption, version \in 1..MaxVersion, NEW r \in Reader, NEW scope \in Scopes
  PROVE  Key(r, scope) \in Keys
<1>1. OwnerOf[r] \in Owner
  BY DEF CaptureAssumption
<1>2. QED
  BY <1>1 DEF Key, Keys

\* ... and so are the selection and the query of a capture.
LEMMA SelectionIs ==
  ASSUME NEW key \in Keys
  PROVE  Selection(key) \in AllSelections /\ Query(key) \in Queries
BY DEF Keys, Selection, AllSelections, Query, Queries

\* Pages that are published, and leases that are renewed
LEMMA PublishSteps ==
  ASSUME CaptureAssumption, CaptureInv, NEW key \in Keys, Room(key), Publish(key)
  PROVE  Kept'
<1>1. TypeOK /\ ViewsBounded /\ LeasesBounded /\ LeasesDiffer
  BY Zenon DEF CaptureInv
<1>2. /\ snapshots' = Append(Spared(snapshots, ReplaceableSnapshot(key.owner)), key)
      /\ leases' = RenewLease(Query(key))
  BY Zenon DEF Publish
<1>3. Query(key) \in Queries
  BY SelectionIs, Zenon
<1>4. snapshots' \in Seq(Keys) /\ ViewsBounded'
  BY <1>1, <1>2, PublishKeeps, Zenon
<1>5. leases' \in Seq(Queries) /\ LeasesBounded' /\ LeasesDiffer'
  BY <1>1, <1>2, <1>3, RenewKeeps, Zenon
<1>6. QED
  BY <1>4, <1>5, Zenon DEF Kept

\* _page of pages that are kept renews their lease.
LEMMA RenewSteps ==
  ASSUME CaptureAssumption, CaptureInv, NEW key \in Keys, snapshots' = snapshots,
         leases' = RenewLease(Query(key))
  PROVE  Kept'
<1>1. TypeOK /\ ViewsBounded /\ LeasesBounded /\ LeasesDiffer
  BY Zenon DEF CaptureInv
<1>2. Query(key) \in Queries
  BY SelectionIs, Zenon
<1>3. leases' \in Seq(Queries) /\ LeasesBounded' /\ LeasesDiffer'
  BY <1>1, <1>2, RenewKeeps, Zenon
<1>4. snapshots' \in Seq(Keys) /\ ViewsBounded'
  BY <1>1, Zenon DEF TypeOK, ViewsBounded, OwnedBy
<1>5. QED
  BY <1>3, <1>4, Zenon DEF Kept

\* A request that is answered at once shares nothing.
LEMMA AnswerSteps ==
  ASSUME CaptureInv, NEW r \in Reader, reader[r] = Idle, NEW x \in Replies, reader' = Answered(r, x),
         UNCHANGED <<captures, builds, reserved, ownerReserved, captureReaders>>
  PROVE  Shared'
<1>1. TypeOK /\ Shared
  BY InvariantParts, Zenon DEF CaptureInv
<1>2. Counted
  BY <1>1, Zenon DEF Shared
<1>3. reader' \in [Reader -> Requests] /\ Counted'
  BY <1>1, <1>2, AnswerKeeps, Zenon
<1>4. /\ captures' = captures /\ builds' = builds /\ reserved' = reserved
      /\ ownerReserved' = ownerReserved /\ captureReaders' = captureReaders
  OBVIOUS
<1>5. QED
  BY <1>1, <1>3, <1>4, Zenon DEF Shared

\* _page for a query whose pages are kept
LEMMA ReuseSteps ==
  ASSUME CaptureAssumption, CaptureInv, NEW r \in Reader, reader[r] = Idle, NEW key \in Keys,
         Reuse(r, key)
  PROVE  Kept' /\ Shared'
<1>1. "pages" \in Replies /\ "exhausted" \in Replies
  BY DEF Replies, Results
<1>2. UNCHANGED <<captures, builds, reserved, ownerReserved, captureReaders>>
  BY Zenon DEF Reuse
<1>3. reader' = Answered(r, "pages") \/ reader' = Answered(r, "exhausted")
  BY Zenon DEF Reuse
<1>4. Shared'
  BY <1>1, <1>2, <1>3, AnswerSteps, Zenon
<1>5. \/ snapshots' = snapshots /\ leases' = RenewLease(Query(key))
      \/ Room(key) /\ Publish(key)
      \/ Unpublished
  BY Zenon DEF Reuse
<1>6. Kept
  BY InvariantParts, Zenon
<1>7. Kept'
  <2>1. CASE snapshots' = snapshots /\ leases' = RenewLease(Query(key))
    BY <2>1, RenewSteps, Zenon
  <2>2. CASE Room(key) /\ Publish(key)
    BY <2>2, PublishSteps, Zenon
  <2>3. CASE Unpublished
    BY <2>3, <1>6, KeptStutters, Zenon DEF Unpublished
  <2>4. QED
    BY <1>5, <2>1, <2>2, <2>3, Zenon
<1>8. QED
  BY <1>4, <1>7, Zenon

\* A request that is refused
LEMMA RefuseSteps ==
  ASSUME CaptureInv, NEW r \in Reader, reader[r] = Idle, NEW x \in Replies, Refuse(r, x)
  PROVE  Kept' /\ Shared'
<1>1. /\ reader' = Answered(r, x)
      /\ UNCHANGED <<captures, builds, reserved, ownerReserved, captureReaders>>
      /\ UNCHANGED <<snapshots, leases>>
  BY Zenon DEF Refuse
<1>2. Kept
  BY InvariantParts, Zenon
<1>3. QED
  BY <1>1, <1>2, AnswerSteps, KeptStutters, Zenon
\* _page for a query whose pages are not kept: it joins the capture that is
\* under way, begins one, or is refused.
LEMMA CaptureSteps ==
  ASSUME CaptureAssumption, CaptureInv, NEW r \in Reader, reader[r] = Idle, NEW key \in Keys,
         Capture(r, key)
  PROVE  Kept' /\ Shared'
<1>1. TypeOK /\ Counted /\ Kept /\ Shared
  BY InvariantParts, Zenon DEF CaptureInv, Counted
<1>2. reserved \in Nat /\ captureReaders \in Nat /\ MaxReaders \in Nat
  BY <1>1 DEF TypeOK, CaptureAssumption
<1>3. "exhausted" \in Replies
  BY DEF Replies
<1>4. CASE Refuse(r, "exhausted")
  BY <1>3, <1>4, RefuseSteps, Zenon
<1>5. CASE key \in DOMAIN captures /\ ~Refuse(r, "exhausted")
  <2>1. /\ ~(reserved + captureReaders >= MaxReaders)
        /\ reader' = Waits(r, key, TRUE)
        /\ captures' = [captures EXCEPT ![key] = @ + 1]
        /\ captureReaders' = captureReaders + 1
        /\ UNCHANGED <<builds, reserved, ownerReserved>> /\ UNCHANGED <<snapshots, leases>>
    BY <1>5, Zenon DEF Capture
  <2>2. reserved + captureReaders < MaxReaders
    BY <1>2, <2>1
  <2>3. /\ reader' \in [Reader -> Requests] /\ captures' \in [DOMAIN captures -> Nat]
        /\ captureReaders' \in Nat /\ Counted'
    BY <1>1, <1>5, <2>1, <2>2, JoinKeeps, Zenon
  <2>4. /\ DOMAIN captures' = DOMAIN captures /\ builds' = builds /\ reserved' = reserved
        /\ ownerReserved' = ownerReserved
    BY <2>1, Zenon
  <2>5. captures' \in [DOMAIN captures' -> Nat]
    BY <2>3, <2>4, Zenon
  <2>6. Shared'
    BY <1>1, <2>3, <2>4, <2>5, Zenon DEF Shared
  <2>7. QED
    BY <1>1, <2>1, <2>6, KeptStutters, Zenon
<1>6. CASE key \notin DOMAIN captures /\ ~Refuse(r, "exhausted")
  <2>1. PICK s \in AllSelections : s = Selection(key)
    BY SelectionIs, Zenon
  <2>2. /\ ~(reserved + captureReaders >= MaxReaders)
        /\ reader' = Waits(r, key, FALSE)
        /\ captures' = With(captures, key, 1)
        /\ builds' = IF s \in DOMAIN builds THEN [builds EXCEPT ![s].readers = @ + 1]
                     ELSE With(builds, s, [readers |-> 1, state |-> "queued", result |-> "none"])
        /\ reserved' = reserved + 1
        /\ ownerReserved' = [ownerReserved EXCEPT ![key.owner] = @ + 1]
        /\ UNCHANGED captureReaders /\ UNCHANGED <<snapshots, leases>>
    BY <1>6, <2>1, Zenon DEF Capture
  <2>3. reserved + captureReaders < MaxReaders
    BY <1>2, <2>2
  <2>4. /\ reader' \in [Reader -> Requests]
        /\ IsFiniteSet(DOMAIN captures') /\ DOMAIN captures' \subseteq Keys
        /\ captures' \in [DOMAIN captures' -> Nat]
        /\ DOMAIN builds' \subseteq AllSelections /\ builds' \in [DOMAIN builds' -> Builds]
        /\ reserved' \in Nat /\ ownerReserved' \in [Owner -> Nat]
        /\ Counted'
    BY <1>1, <1>6, <2>1, <2>2, <2>3, NewCaptureKeeps, Zenon
  <2>5. captureReaders' \in Nat
    BY <1>2, <2>2
  <2>6. Shared'
    BY <2>4, <2>5, Zenon DEF Shared
  <2>7. QED
    BY <1>1, <2>2, <2>6, KeptStutters, Zenon
<1>7. QED
  BY <1>4, <1>5, <1>6, Zenon

\* _page up to its await
LEMMA PageSteps ==
  ASSUME CaptureAssumption, CaptureInv, NEW r \in Reader, Page(r)
  PROVE  Kept' /\ Shared'
<1>1. version \in 1..MaxVersion
  BY InvariantParts, Zenon
<1>2. PICK scope \in Scopes : IF closed THEN Refuse(r, "closed")
                              ELSE Reuse(r, Key(r, scope)) \/ Capture(r, Key(r, scope))
  BY Zenon DEF Page
<1>3. reader[r] = Idle
  BY Zenon DEF Page
<1>4. Key(r, scope) \in Keys
  BY <1>1, KeyIs, Zenon
<1>5. CASE Refuse(r, "closed")
  <2>1. "closed" \in Replies
    BY DEF Replies
  <2>2. QED
    BY <1>3, <1>5, <2>1, RefuseSteps, Zenon
<1>6. CASE Reuse(r, Key(r, scope))
  BY <1>3, <1>4, <1>6, ReuseSteps, Zenon
<1>7. CASE Capture(r, Key(r, scope))
  BY <1>3, <1>4, <1>7, CaptureSteps, Zenon
<1>8. QED
  BY <1>2, <1>5, <1>6, <1>7, Zenon

\* A request that waits is cancelled.
LEMMA CancelSteps ==
  ASSUME CaptureAssumption, CaptureInv, NEW r \in Reader, Cancel(r)
  PROVE  Kept' /\ Shared'
<1>1. TypeOK /\ Counted /\ Kept /\ Shared
  BY InvariantParts, Zenon DEF CaptureInv, Counted
<1>2. PICK key : key = reader[r].key
  OBVIOUS
<1>3. /\ reader[r].state = "waiting" /\ captures' = [captures EXCEPT ![key] = @ - 1]
      /\ reader' = Cancelled(r)
      /\ UNCHANGED <<builds, reserved, ownerReserved, captureReaders>> /\ UNCHANGED <<snapshots, leases>>
  BY <1>2, Zenon DEF Cancel
<1>4. /\ reader' \in [Reader -> Requests] /\ captures' \in [DOMAIN captures -> Nat]
      /\ Counted'
  BY <1>1, <1>2, <1>3, CancelKeeps, Zenon
<1>5. /\ DOMAIN captures' = DOMAIN captures /\ builds' = builds /\ reserved' = reserved
      /\ ownerReserved' = ownerReserved /\ captureReaders' = captureReaders
  BY <1>3, Zenon
<1>6. captures' \in [DOMAIN captures' -> Nat]
  BY <1>4, <1>5, Zenon
<1>7. Shared'
  BY <1>1, <1>4, <1>5, <1>6, Zenon DEF Shared
<1>8. QED
  BY <1>1, <1>3, <1>7, KeptStutters, Zenon

\* A request that was answered leaves, and no longer counts as a reader.
LEMMA LeaveSteps ==
  ASSUME CaptureAssumption, CaptureInv, NEW r \in Reader, Leave(r)
  PROVE  Kept' /\ Shared'
<1>1. TypeOK /\ Counted /\ Kept /\ Shared
  BY InvariantParts, Zenon DEF CaptureInv, Counted
<1>2. /\ reader[r].state \in {"answered", "cancelled"}
      /\ captureReaders' = captureReaders - (IF reader[r].shared THEN 1 ELSE 0)
      /\ reader' = [reader EXCEPT ![r] = Idle]
      /\ UNCHANGED <<captures, builds, reserved, ownerReserved>> /\ UNCHANGED <<snapshots, leases>>
  BY Zenon DEF Leave
<1>3. reader' \in [Reader -> Requests] /\ captureReaders' \in Nat /\ Counted'
  BY <1>1, <1>2, LeaveKeeps, Zenon
<1>4. /\ captures' = captures /\ builds' = builds /\ reserved' = reserved
      /\ ownerReserved' = ownerReserved
  BY <1>2, Zenon
<1>5. Shared'
  BY <1>1, <1>3, <1>4, Zenon DEF Shared
<1>6. QED
  BY <1>1, <1>2, <1>5, KeptStutters, Zenon
\* The worker of a build changes neither who has it nor what is built.
LEMMA BuildSteps ==
  ASSUME CaptureInv, NEW s \in DOMAIN builds, NEW b \in Builds, b.readers = builds[s].readers,
         builds' = [builds EXCEPT ![s] = b],
         UNCHANGED <<reader, captures, reserved, ownerReserved, captureReaders>>
  PROVE  Shared'
<1>1. Shared /\ Counted
  BY InvariantParts, Zenon DEF Shared
<1>2. /\ reader' = reader /\ captures' = captures /\ reserved' = reserved
      /\ ownerReserved' = ownerReserved /\ captureReaders' = captureReaders
  OBVIOUS
<1>3. \A t \in DOMAIN builds : builds[t] \in Builds
  BY <1>1, Zenon DEF Shared
<1>4. /\ DOMAIN builds' = DOMAIN builds
      /\ \A t \in DOMAIN builds : builds'[t] = IF t = s THEN b ELSE builds[t]
      /\ builds' = [t \in DOMAIN builds' |-> builds'[t]]
  BY Zenon
<1>5. /\ \A t \in DOMAIN builds' : builds'[t] \in Builds
      /\ \A t \in DOMAIN builds : builds'[t].readers = builds[t].readers
  BY <1>3, <1>4, Zenon
<1>6. builds' \in [DOMAIN builds' -> Builds]
  BY <1>4, <1>5, Zenon
<1>7. Counted'
  <2>1. ASSUME NEW x
        PROVE  /\ Waiting(x)' = Waiting(x) /\ Building(x)' = Building(x)
               /\ Reserving(x)' = Reserving(x) /\ Sharing' = Sharing
    BY <1>2, Zenon DEF Waiting, Building, Reserving, Sharing
  <2>2. ReadersCounted'
    BY <1>1, <1>2, <2>1, Zenon DEF Counted, ReadersCounted
  <2>3. BuildsCounted'
    <3>1. ASSUME NEW t \in DOMAIN builds'
          PROVE  builds'[t].readers = Cardinality(Building(t)') /\ builds'[t].readers > 0
      <4>1. t \in DOMAIN builds /\ builds'[t].readers = builds[t].readers
        BY <1>4, <1>5, Zenon
      <4>2. builds[t].readers = Cardinality(Building(t)) /\ builds[t].readers > 0
        BY <1>1, <4>1, Zenon DEF Counted, BuildsCounted
      <4>3. QED
        BY <4>1, <4>2, <2>1, Zenon
    <3>2. QED
      BY <3>1, Zenon DEF BuildsCounted
  <2>4. ReservationsCounted' /\ SharersCounted'
    BY <1>1, <1>2, <2>1, Zenon DEF Counted, ReservationsCounted, SharersCounted
  <2>5. Linked'
    BY <1>1, <1>2, <1>4, Zenon DEF Counted, Linked
  <2>6. QED
    BY <2>2, <2>3, <2>4, <2>5, Zenon DEF Counted
<1>8. QED
  BY <1>1, <1>2, <1>4, <1>6, <1>7, Zenon DEF Shared

\* A worker begins a build, or finds that nobody waits for it.
LEMMA StartBuildSteps ==
  ASSUME CaptureInv, NEW s, StartBuild(s)
  PROVE  Kept' /\ Shared'
<1>1. Kept /\ Shared
  BY InvariantParts, Zenon
<1>2. /\ s \in DOMAIN builds /\ UNCHANGED <<snapshots, leases>>
      /\ UNCHANGED <<reader, captures, reserved, ownerReserved, captureReaders>>
  BY Zenon DEF StartBuild
<1>3. PICK c \in Builds : c = builds[s]
  BY <1>1, <1>2, Zenon DEF Shared
<1>4. \/ builds' = [builds EXCEPT ![s] = [c EXCEPT !.state = "built", !.result = "abandoned"]]
      \/ builds' = [builds EXCEPT ![s] = [c EXCEPT !.state = "running"]]
  BY <1>2, <1>3 DEF StartBuild
<1>5. /\ [c EXCEPT !.state = "built", !.result = "abandoned"] \in Builds
      /\ [c EXCEPT !.state = "built", !.result = "abandoned"].readers = c.readers
      /\ [c EXCEPT !.state = "running"] \in Builds
      /\ [c EXCEPT !.state = "running"].readers = c.readers
  BY Zenon DEF Builds, Results
<1>6. PICK b \in Builds : builds' = [builds EXCEPT ![s] = b] /\ b.readers = builds[s].readers
  BY <1>3, <1>4, <1>5, Zenon
<1>7. Shared'
  BY <1>2, <1>6, BuildSteps, Zenon
<1>8. QED
  BY <1>1, <1>2, <1>7, KeptStutters, Zenon

\* A worker ends its build, with pages or without.
LEMMA EndBuildSteps ==
  ASSUME CaptureInv, NEW s, EndBuild(s)
  PROVE  Kept' /\ Shared'
<1>1. Kept /\ Shared
  BY InvariantParts, Zenon
<1>2. /\ s \in DOMAIN builds /\ UNCHANGED <<snapshots, leases>>
      /\ UNCHANGED <<reader, captures, reserved, ownerReserved, captureReaders>>
  BY Zenon DEF EndBuild
<1>3. PICK c \in Builds : c = builds[s]
  BY <1>1, <1>2, Zenon DEF Shared
<1>4. PICK x \in {"pages", "failed"} :
        builds' = [builds EXCEPT ![s] = [c EXCEPT !.state = "built", !.result = x]]
  BY <1>2, <1>3, Zenon DEF EndBuild
<1>5. /\ [c EXCEPT !.state = "built", !.result = x] \in Builds
      /\ [c EXCEPT !.state = "built", !.result = x].readers = c.readers
  BY Zenon DEF Builds, Results
<1>6. PICK b \in Builds : builds' = [builds EXCEPT ![s] = b] /\ b.readers = builds[s].readers
  BY <1>3, <1>4, <1>5, Zenon
<1>7. Shared'
  BY <1>2, <1>6, BuildSteps, Zenon
<1>8. QED
  BY <1>1, <1>2, <1>7, KeptStutters, Zenon

\* A capture ends, with pages that are published or without.
LEMMA EndCaptureSteps ==
  ASSUME CaptureAssumption, CaptureInv, NEW key \in Keys, EndCapture(key)
  PROVE  Kept' /\ Shared'
<1>1. TypeOK /\ Counted /\ Kept /\ Shared
  BY InvariantParts, Zenon DEF CaptureInv, Counted
<1>2. key \in DOMAIN captures /\ Finish(key) /\ UNCHANGED captureReaders
  BY Zenon DEF EndCapture
<1>3. PICK x : x = builds[Selection(key)].result
  OBVIOUS
<1>4. x \in Results
  <2>1. PICK c \in Builds : c = builds[Selection(key)]
    BY <1>1, <1>2, Zenon DEF Shared, Counted, Linked
  <2>2. c.result \in Results
    BY DEF Builds
  <2>3. QED
    BY <1>3, <2>1, <2>2, Zenon
<1>5. x \in Replies /\ {"abandoned", "pages", "failed"} \subseteq Replies
  BY <1>4 DEF Replies, Results
<1>6. \E y \in {"abandoned", "pages", "failed", x} : Answers(key, y)
  BY <1>3, Zenon DEF EndCapture
<1>7. PICK y \in Replies : Answers(key, y)
  BY <1>5, <1>6
<1>8. /\ reader' \in [Reader -> Requests]
      /\ IsFiniteSet(DOMAIN captures') /\ DOMAIN captures' \subseteq Keys
      /\ captures' \in [DOMAIN captures' -> Nat]
      /\ DOMAIN builds' \subseteq AllSelections /\ builds' \in [DOMAIN builds' -> Builds]
      /\ reserved' \in Nat /\ ownerReserved' \in [Owner -> Nat]
      /\ Counted'
  BY <1>1, <1>2, <1>7, EndCaptureKeeps, Zenon
<1>9. captureReaders' \in Nat
  BY <1>1, <1>2, Zenon DEF Shared
<1>10. Shared'
  BY <1>8, <1>9, Zenon DEF Shared
<1>11. Unpublished \/ (Room(key) /\ Publish(key))
  BY Zenon DEF EndCapture
<1>12. CASE Unpublished
  BY <1>1, <1>10, <1>12, KeptStutters, Zenon DEF Unpublished
<1>13. CASE Room(key) /\ Publish(key)
  BY <1>10, <1>13, PublishSteps, Zenon
<1>14. QED
  BY <1>11, <1>12, <1>13, Zenon

\* _purge forgets pages, or a lease.
LEMMA DropSteps ==
  ASSUME CaptureAssumption, CaptureInv, DropSnapshot \/ DropLease
  PROVE  Kept' /\ Shared'
<1>1. TypeOK /\ Kept /\ Shared /\ ViewsBounded /\ LeasesBounded /\ LeasesDiffer
  BY InvariantParts, Zenon DEF CaptureInv
<1>2. UNCHANGED <<reader, captures, builds, reserved, ownerReserved, captureReaders>>
  BY Zenon DEF DropSnapshot, DropLease
<1>3. Shared'
  BY <1>1, <1>2, SharedStutters, Zenon
<1>4. CASE DropSnapshot
  <2>1. PICK i \in DOMAIN snapshots : snapshots' = Removed(snapshots, i)
    BY <1>4, Zenon DEF DropSnapshot
  <2>2. snapshots' \in Seq(Keys) /\ ViewsBounded'
    BY <1>1, <2>1, DropViewKeeps, Zenon
  <2>3. leases' = leases
    BY <1>4, Zenon DEF DropSnapshot
  <2>4. leases' \in Seq(Queries) /\ LeasesBounded' /\ LeasesDiffer'
    BY <1>1, <2>3, Zenon DEF TypeOK, LeasesBounded, LeasesDiffer, Distinct, OwnedBy
  <2>5. QED
    BY <1>3, <2>2, <2>4, Zenon DEF Kept
<1>5. CASE DropLease
  <2>1. PICK i \in DOMAIN leases : leases' = Removed(leases, i)
    BY <1>5, Zenon DEF DropLease
  <2>2. leases' \in Seq(Queries) /\ LeasesBounded' /\ LeasesDiffer'
    BY <1>1, <2>1, DropLeaseKeeps, Zenon
  <2>3. snapshots' = snapshots
    BY <1>5, Zenon DEF DropLease
  <2>4. snapshots' \in Seq(Keys) /\ ViewsBounded'
    BY <1>1, <2>3, Zenon DEF TypeOK, ViewsBounded, OwnedBy
  <2>5. QED
    BY <1>3, <2>2, <2>4, Zenon DEF Kept
<1>6. QED
  BY <1>4, <1>5, Zenon

\* Tables without an entry are within their limits.
LEMMA EmptyTables ==
  ASSUME CaptureAssumption
  PROVE  /\ <<>> \in Seq(Keys) /\ <<>> \in Seq(Queries) /\ Distinct(<<>>)
         /\ Len(<<>>) <= MaxSnapshots /\ Len(<<>>) <= MaxLeases
         /\ \A o : /\ Cardinality(OwnedBy(<<>>, o)) <= MaxOwnerSnapshots
                   /\ Cardinality(OwnedBy(<<>>, o)) <= MaxOwnerLeases
<1>1. \A o : OwnedBy(<<>>, o) = {}
  BY DEF OwnedBy
<1>2. Cardinality({}) = 0
  BY FS_EmptySet, Zenon
<1>3. /\ 0 <= MaxSnapshots /\ 0 <= MaxOwnerSnapshots /\ 0 <= MaxLeases /\ 0 <= MaxOwnerLeases
  BY DEF CaptureAssumption
<1>4. <<>> \in Seq(Keys) /\ <<>> \in Seq(Queries) /\ Len(<<>>) = 0 /\ Distinct(<<>>)
  BY DEF Distinct
<1>5. QED
  BY <1>1, <1>2, <1>3, <1>4, Zenon

\* close() forgets all that is kept; who is served still is.
LEMMA CloseSteps ==
  ASSUME CaptureAssumption, CaptureInv, CloseQueries
  PROVE  Kept' /\ Shared'
<1>1. /\ snapshots' = <<>> /\ leases' = <<>>
      /\ UNCHANGED <<reader, captures, builds, reserved, ownerReserved, captureReaders>>
  BY Zenon DEF CloseQueries
<1>2. Kept'
  BY <1>1, EmptyTables, Zenon DEF Kept, ViewsBounded, LeasesBounded, LeasesDiffer
<1>3. QED
  BY <1>1, <1>2, InvariantParts, SharedStutters, Zenon

\* Nobody is served, nothing is kept and nothing is reserved at the start.
LEMMA CaptureStarts ==
  ASSUME CaptureAssumption, CaptureInit
  PROVE  CaptureInv
<1>1. /\ version = 1 /\ closed = FALSE /\ snapshots = <<>> /\ leases = <<>>
      /\ captures = <<>> /\ builds = <<>> /\ reserved = 0 /\ captureReaders = 0
      /\ reader = [r \in Reader |-> Idle] /\ ownerReserved = [o \in Owner |-> 0]
  BY Zenon DEF CaptureInit
<1>2. version \in 1..MaxVersion /\ closed \in BOOLEAN
  <2>1. MaxVersion \in Nat \ {0}
    BY DEF CaptureAssumption
  <2>2. version \in 1..MaxVersion
    BY <1>1, <2>1
  <2>3. QED
    BY <1>1, <2>2, Zenon
<1>3. Kept
  BY <1>1, EmptyTables, Zenon DEF Kept, ViewsBounded, LeasesBounded, LeasesDiffer
<1>4. DOMAIN captures = {} /\ DOMAIN builds = {} /\ Cardinality({}) = 0 /\ IsFiniteSet({})
  BY <1>1, FS_EmptySet
<1>5. captures \in [DOMAIN captures -> Nat] /\ builds \in [DOMAIN builds -> Builds]
  BY <1>1
<1>6. \A r \in Reader : reader[r] = Idle /\ Idle.state # "waiting"
  BY <1>1 DEF Idle
<1>7. Sharing = {} /\ (\A x : Building(x) = {} /\ Reserving(x) = {})
  BY <1>4, <1>6 DEF Sharing, Building, Reserving
<1>8. Counted
  <2>1. Linked /\ ReadersCounted /\ BuildsCounted
    BY <1>4, <1>6 DEF Linked, ReadersCounted, BuildsCounted
  <2>2. ReservationsCounted
    BY <1>1, <1>4, <1>7, Zenon DEF ReservationsCounted
  <2>3. 0 + 0 <= MaxReaders
    BY DEF CaptureAssumption
  <2>4. SharersCounted
    BY <1>1, <1>4, <1>7, <2>3, Zenon DEF SharersCounted
  <2>5. QED
    BY <2>1, <2>2, <2>4, Zenon DEF Counted
<1>9. reader \in [Reader -> Requests]
  BY <1>1 DEF Requests
<1>10. reserved \in Nat /\ ownerReserved \in [Owner -> Nat] /\ captureReaders \in Nat
  BY <1>1
<1>11. DOMAIN captures \subseteq Keys /\ DOMAIN builds \subseteq AllSelections /\ IsFiniteSet(DOMAIN captures)
  BY <1>4
<1>12. Shared
  BY <1>5, <1>8, <1>9, <1>10, <1>11, Zenon DEF Shared
<1>13. QED
  BY <1>2, <1>3, <1>12, InvariantParts, Zenon

\* Every step of the service keeps the invariant.
LEMMA CaptureKeeps ==
  ASSUME CaptureAssumption, CaptureInv, [CaptureNext]_captureVars
  PROVE  CaptureInv'
<1>1. Kept /\ Shared /\ version \in 1..MaxVersion /\ closed \in BOOLEAN
  BY InvariantParts, Zenon
<1>2. version' \in 1..MaxVersion /\ closed' \in BOOLEAN
  <2>1. version' = version \/ NewVersion
    BY Zenon DEF CaptureNext, captureVars, Page, Cancel, Leave, StartBuild, EndBuild, EndCapture,
                 DropSnapshot, DropLease, CloseQueries
  <2>2. NewVersion => version' \in 1..MaxVersion
    BY <1>1 DEF NewVersion, CaptureAssumption
  <2>3. closed' = closed \/ closed' = TRUE
    BY Zenon DEF CaptureNext, captureVars, Page, Cancel, Leave, StartBuild, EndBuild, EndCapture,
                 DropSnapshot, DropLease, CloseQueries, NewVersion
  <2>4. QED
    BY <1>1, <2>1, <2>2, <2>3, Zenon
<1>3. ASSUME NEW r \in Reader, Page(r) PROVE Kept' /\ Shared'
  BY <1>3, PageSteps, Zenon
<1>4. ASSUME NEW r \in Reader, Cancel(r) PROVE Kept' /\ Shared'
  BY <1>4, CancelSteps, Zenon
<1>5. ASSUME NEW r \in Reader, Leave(r) PROVE Kept' /\ Shared'
  BY <1>5, LeaveSteps, Zenon
<1>6. ASSUME NEW s \in AllSelections, StartBuild(s) PROVE Kept' /\ Shared'
  BY <1>6, StartBuildSteps, Zenon
<1>7. ASSUME NEW s \in AllSelections, EndBuild(s) PROVE Kept' /\ Shared'
  BY <1>7, EndBuildSteps, Zenon
<1>8. ASSUME NEW key \in Keys, EndCapture(key) PROVE Kept' /\ Shared'
  BY <1>8, EndCaptureSteps, Zenon
<1>9. ASSUME DropSnapshot \/ DropLease PROVE Kept' /\ Shared'
  BY <1>9, DropSteps, Zenon
<1>10. ASSUME NewVersion PROVE Kept' /\ Shared'
  <2>1. /\ UNCHANGED <<snapshots, leases>>
        /\ UNCHANGED <<reader, captures, builds, reserved, ownerReserved, captureReaders>>
    BY <1>10, Zenon DEF NewVersion
  <2>2. QED
    BY <1>1, <2>1, KeptStutters, SharedStutters, Zenon
<1>11. ASSUME CloseQueries PROVE Kept' /\ Shared'
  BY <1>11, CloseSteps, Zenon
<1>12. ASSUME UNCHANGED captureVars PROVE Kept' /\ Shared'
  <2>1. /\ UNCHANGED <<snapshots, leases>>
        /\ UNCHANGED <<reader, captures, builds, reserved, ownerReserved, captureReaders>>
    BY <1>12, Zenon DEF captureVars
  <2>2. QED
    BY <1>1, <2>1, KeptStutters, SharedStutters, Zenon
<1>13. Kept' /\ Shared'
  BY <1>3, <1>4, <1>5, <1>6, <1>7, <1>8, <1>9, <1>10, <1>11, <1>12, Zenon DEF CaptureNext
<1>14. (version \in 1..MaxVersion /\ closed \in BOOLEAN /\ Kept /\ Shared)' => CaptureInv'
  BY Zenon DEF CaptureInv, TypeOK, Kept, Shared, Counted
<1>15. QED
  BY <1>2, <1>13, <1>14, Zenon

-----------------------------------------------------------------------------
(* The theorems *)

\* The inductive invariant of the query service: the request of every reader,
\* the captures and the builds under way belong together, and every counter of
\* QueryService counts what it is meant to.
THEOREM CaptureInvariance == CaptureSpec => []CaptureInv
<1>1. CaptureInit => CaptureInv
  BY CaptureAssumption, CaptureStarts, Zenon
<1>2. CaptureInv /\ [CaptureNext]_captureVars => CaptureInv'
  BY CaptureAssumption, CaptureKeeps, Zenon
<1>3. QED
  BY <1>1, <1>2, PTL DEF CaptureSpec

\* Whoever shares a capture, is cancelled, or leaves, and whenever: what
\* QueryService counts against its limits is exactly what is in use, so nothing
\* that was reserved is lost or released twice, and no limit on the snapshots,
\* the leases or the readers is exceeded.
THEOREM SharingHolds == CaptureSpec => []SharingIsExact
<1>1. CaptureInv => SharingIsExact
  BY Zenon DEF CaptureInv, SharingIsExact, ReadersCounted, BuildsCounted, ReservationsCounted,
               SharersCounted, ViewsBounded, LeasesBounded, Building, Reserving, Sharing
<1>2. QED
  BY <1>1, CaptureInvariance, PTL
=============================================================================
