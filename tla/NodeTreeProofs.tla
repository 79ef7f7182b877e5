--------------------------- MODULE NodeTreeProofs ---------------------------
(***************************************************************************)
(* What the tree of a flow keeps whatever its shape, its repeats and its   *)
(* dependencies, and however scans, reports and commands interleave: work  *)
(* in progress is visible from above, a suspension holds from the next     *)
(* scan on, and a repeat that advances throws no run away.                 *)
(***************************************************************************)
EXTENDS NodeTree, SequenceTheorems, WellFoundedInduction, TLAPS

-----------------------------------------------------------------------------
(* Statuses *)

AnyStatus == {"unknown", "complete", "queued", "submitted", "active", "aborted"}

\* The statuses in the order of their significance.
LEMMA RankOf ==
  /\ Range(Status) = AnyStatus
  /\ Rank("unknown") = 1 /\ Rank("complete") = 2 /\ Rank("queued") = 3
  /\ Rank("submitted") = 4 /\ Rank("active") = 5 /\ Rank("aborted") = 6
<1>1. /\ DOMAIN Status = 1..6
      /\ Status[1] = "unknown" /\ Status[2] = "complete" /\ Status[3] = "queued"
      /\ Status[4] = "submitted" /\ Status[5] = "active" /\ Status[6] = "aborted"
  BY DEF Status
<1>2. 1..6 = {1, 2, 3, 4, 5, 6}
  OBVIOUS
<1>3. Range(Status) = AnyStatus
  BY <1>1, <1>2 DEF Range, AnyStatus
<1>4. \A k \in 1..6 : \A i \in DOMAIN Status : Status[i] = Status[k] <=> i = k
  BY <1>1, <1>2
<1>5. \A k \in 1..6 : Rank(Status[k]) = k
  <2> TAKE k \in 1..6
  <2>1. (CHOOSE i \in DOMAIN Status : Status[i] = Status[k])
          = (CHOOSE i \in DOMAIN Status : i = k)
    BY <1>4
  <2>2. k \in DOMAIN Status
    BY <1>1
  <2> QED
    BY <2>1, <2>2 DEF Rank
<1> QED
  BY <1>1, <1>2, <1>3, <1>5

\* The visible statuses are the most significant ones.
LEMMA VisibleRank ==
  ASSUME NEW s \in AnyStatus
  PROVE  Rank(s) \in 1..6 /\ (s \in Visible <=> Rank(s) >= 4)
<1> QED
  BY RankOf DEF AnyStatus, Visible, InFlight

\* compute_most_significant_status returns one of the statuses, and none of
\* the others is more significant.
LEMMA MostSignificantIs ==
  ASSUME NEW S, S \subseteq AnyStatus, S # {}
  PROVE  /\ MostSignificant(S) \in S
         /\ \A q \in S : Rank(q) <= Rank(MostSignificant(S))
<1>1. \E s \in S : \A q \in S : Rank(q) <= Rank(s)
  <2>1. \A q \in S : q \in AnyStatus
    OBVIOUS
  <2>2. CASE "aborted" \in S
    BY <2>1, <2>2, RankOf DEF AnyStatus
  <2>3. CASE "aborted" \notin S /\ "active" \in S
    BY <2>1, <2>3, RankOf DEF AnyStatus
  <2>4. CASE S \cap {"aborted", "active"} = {} /\ "submitted" \in S
    BY <2>1, <2>4, RankOf DEF AnyStatus
  <2>5. CASE S \cap {"aborted", "active", "submitted"} = {} /\ "queued" \in S
    BY <2>1, <2>5, RankOf DEF AnyStatus
  <2>6. CASE S \cap {"aborted", "active", "submitted", "queued"} = {} /\ "complete" \in S
    BY <2>1, <2>6, RankOf DEF AnyStatus
  <2>7. CASE S = {"unknown"}
    BY <2>7, RankOf
  <2> QED
    BY <2>1, <2>2, <2>3, <2>4, <2>5, <2>6, <2>7, Zenon DEF AnyStatus
<1> QED
  BY <1>1 DEF MostSignificant

-----------------------------------------------------------------------------
(* The tree *)

\* Every node but the flow is a child of its parent and of no other container.
LEMMA ParentIs ==
  ASSUME NEW n \in Node
  PROVE  /\ n # Root => Parent(n) \in Container /\ n \in Range(Children[Parent(n)])
         /\ \A c \in Container : n \in Range(Children[c]) <=> n # Root /\ c = Parent(n)
<1>1. n # Root => \E c \in Container : n \in Range(Children[c])
  BY TreeAssumption
<1>2. n # Root => Parent(n) \in Container /\ n \in Range(Children[Parent(n)])
  BY <1>1 DEF Parent
<1>3. \A c \in Container : n \in Range(Children[c]) => n # Root
  BY TreeAssumption
<1> QED
  BY <1>2, <1>3, TreeAssumption

\* The path of a node starts at the node, goes on with the path of its parent
\* and so ends at the flow.
LEMMA UpIs ==
  ASSUME NEW n \in Node
  PROVE  /\ Up[n] \in Seq(Node) /\ Len(Up[n]) >= 1 /\ Up[n][1] = n
         /\ n = Root => Up[n] = <<n>> /\ Len(Up[n]) = 1
         /\ n # Root => /\ Parent(n) \in Node
                        /\ Len(Up[n]) = Len(Up[Parent(n)]) + 1
                        /\ \A j \in 1..Len(Up[Parent(n)]) : Up[n][j + 1] = Up[Parent(n)][j]
<1>1. CASE n = Root
  <2>1. Up[n] = <<n>>
    BY <1>1, UpAssumption, Zenon
  <2> QED
    BY <1>1, <2>1
<1>2. CASE n # Root
  <2>1. Parent(n) \in Node
    BY <1>2, ParentIs DEF Node
  <2>2. PICK p : p = Up[Parent(n)]
    OBVIOUS
  <2>3. p \in Seq(Node) /\ Up[n] = <<n>> \o p
    BY <1>2, <2>1, <2>2, UpAssumption
  <2>4. /\ <<n>> \o p \in Seq(Node) /\ Len(<<n>> \o p) = Len(p) + 1
        /\ (<<n>> \o p)[1] = n
        /\ \A j \in 1..Len(p) : (<<n>> \o p)[j + 1] = p[j]
    BY <2>3
  <2> QED
    BY <1>2, <2>1, <2>2, <2>3, <2>4
<1> QED
  BY <1>1, <1>2

\* A set of numbers that is not empty has a least one.
LEMMA LeastOf ==
  ASSUME NEW T, T \subseteq Nat, T # {}
  PROVE  \E x \in T : \A y \in T : x <= y
<1> DEFINE R == OpToRel(<, Nat)
<1>1. IsWellFoundedOn(R, Nat)
  BY NatLessThanWellFounded, Zenon
<1>2. R = {ss \in Nat \X Nat : ss[1] < ss[2]}
  BY DEF OpToRel
<1> HIDE DEF R
<1>3. PICK x \in T : \A y \in T : ~ (<<y, x>> \in R)
  BY <1>1, WFMin, Zenon
<1>4. ASSUME NEW y \in T PROVE x <= y
  <2>1. x \in Nat /\ y \in Nat /\ <<y, x>> \notin R
    BY <1>3
  <2> QED
    BY <2>1, <1>2
<1> QED
  BY <1>4

\* From the i-th node of a path on, the path is the path of that node.
Suffix(path, i, p) ==
  /\ p \in Seq(Node) /\ Len(p) = Len(path) - i + 1
  /\ \A j \in 1..Len(p) : p[j] = path[i + j - 1]

\* That holds of every node of the way up to the flow.
LEMMA PathSuffix ==
  ASSUME NEW n \in Node, NEW i \in 1..Len(Up[n])
  PROVE  Up[n][i] \in Node /\ Suffix(Up[n], i, Up[Up[n][i]])
<1> DEFINE path == Up[n]
           T == {k \in Nat : k \in 1..Len(path) /\ ~ Suffix(path, k, Up[path[k]])}
<1>1. path \in Seq(Node) /\ Len(path) \in Nat /\ path[1] = n
  BY UpIs
<1>2. \A k \in 1..Len(path) : path[k] \in Node
  BY <1>1
<1>3. ASSUME T # {} PROVE FALSE
  <2>1. PICK k \in T : \A j \in T : k <= j
    BY <1>3, LeastOf, Zenon
  <2>2. k \in 1..Len(path) /\ ~ Suffix(path, k, Up[path[k]]) /\ k \in Nat
    OBVIOUS
  <2>3. CASE k = 1
    <3>1. Up[path[1]] = path
      BY <1>1
    <3>2. Suffix(path, 1, path)
      BY <1>1 DEF Suffix
    <3> QED
      BY <2>2, <2>3, <3>1, <3>2
  <2>4. CASE k # 1
    <3>1. k - 1 \in Nat /\ k - 1 \in 1..Len(path) /\ k - 1 \notin T
      BY <2>1, <2>2, <2>4, <1>1
    <3>2. PICK m \in Node : m = path[k - 1]
      BY <1>2, <3>1
    <3>3. Suffix(path, k - 1, Up[m])
      BY <3>1, <3>2
    <3>4. PICK p : p = Up[m]
      OBVIOUS
    <3>5. /\ p \in Seq(Node) /\ Len(p) = Len(path) - k + 2
          /\ \A j \in 1..Len(p) : p[j] = path[k + j - 2]
      BY <3>1, <3>3, <3>4, <1>1, <2>2 DEF Suffix
    <3>6. Len(p) >= 2
      BY <3>5, <2>2, <1>1
    <3>7. m # Root
      <4> SUFFICES ASSUME m = Root PROVE FALSE
        OBVIOUS
      <4>1. Len(Up[m]) = 1
        BY UpIs
      <4>2. Len(p) = 1
        BY <3>4, <4>1
      <4> QED
        BY <3>6, <4>2
    <3>8. PICK q : q = Up[Parent(m)]
      OBVIOUS
    <3>9. /\ Parent(m) \in Node /\ q \in Seq(Node) /\ q[1] = Parent(m)
          /\ Len(q) \in Nat /\ Len(p) = Len(q) + 1 /\ \A j \in 1..Len(q) : p[j + 1] = q[j]
      <4>1. Parent(m) \in Node
        BY <3>7, UpIs
      <4> QED
        BY <3>4, <3>7, <3>8, <4>1, UpIs
    <3>10. \A j \in 1..Len(q) : q[j] = path[k + j - 1]
      <4> TAKE j \in 1..Len(q)
      <4>1. j + 1 \in 1..Len(p) /\ q[j] = p[j + 1]
        BY <3>9
      <4>2. p[j + 1] = path[k + (j + 1) - 2]
        BY <3>5, <4>1
      <4>3. k + (j + 1) - 2 = k + j - 1
        BY <2>2
      <4> QED
        BY <4>1, <4>2, <4>3
    <3>11. path[k] = Parent(m)
      <4>1. 1 \in 1..Len(q)
        BY <3>6, <3>9
      <4>2. q[1] = path[k + 1 - 1]
        BY <3>10, <4>1
      <4>3. k + 1 - 1 = k
        BY <2>2
      <4> QED
        BY <3>9, <4>2, <4>3
    <3>12. Suffix(path, k, q)
      <4>a. Len(q) \in Nat /\ Len(p) \in Nat /\ Len(path) \in Nat
        BY <3>5, <3>9, <1>1
      <4>1. PICK lq, lp, l \in Nat : lq = Len(q) /\ lp = Len(p) /\ l = Len(path)
        BY <4>a, Zenon
      <4>2. lp = l - k + 2 /\ lp = lq + 1
        BY <3>5, <3>9, <4>1, Zenon
      <4>3. lq = l - k + 1
        BY <2>2, <4>2
      <4> QED
        BY <3>9, <3>10, <4>1, <4>3 DEF Suffix
    <3> QED
      BY <2>2, <3>8, <3>11, <3>12
  <2> QED
    BY <2>3, <2>4
<1>4. i \in Nat /\ i \notin T
  BY <1>1, <1>3
<1> QED
  BY <1>2, <1>4

\* Each node of a path is followed by its parent, and the last is the flow.
LEMMA PathNext ==
  ASSUME NEW n \in Node, NEW i \in 1..Len(Up[n])
  PROVE  /\ i < Len(Up[n]) => Up[n][i] # Root /\ Up[n][i + 1] = Parent(Up[n][i])
         /\ i = Len(Up[n]) => Up[n][i] = Root
<1>1. PICK path : path = Up[n]
  OBVIOUS
<1>2. path \in Seq(Node) /\ Len(path) \in Nat /\ i \in 1..Len(path)
  BY <1>1, UpIs
<1>3. PICK m \in Node : m = path[i]
  BY <1>2
<1>4. PICK p : p = Up[m]
  OBVIOUS
<1>5. /\ p \in Seq(Node) /\ Len(p) = Len(path) - i + 1
      /\ \A j \in 1..Len(p) : p[j] = path[i + j - 1]
  <2>1. Suffix(Up[n], i, Up[Up[n][i]])
    BY PathSuffix
  <2>2. Suffix(path, i, p)
    BY <1>1, <1>3, <1>4, <2>1
  <2> QED
    BY <2>2 DEF Suffix
<1>6. m = Root => Len(p) = 1
  BY <1>4, UpIs
<1>7. m # Root => /\ Len(p) >= 2 /\ p[2] = Parent(m)
  <2> SUFFICES ASSUME m # Root PROVE Len(p) >= 2 /\ p[2] = Parent(m)
    OBVIOUS
  <2>1. PICK q : q = Up[Parent(m)]
    OBVIOUS
  <2>2. Parent(m) \in Node /\ Len(p) = Len(q) + 1 /\ \A j \in 1..Len(q) : p[j + 1] = q[j]
    BY <1>4, <2>1, UpIs
  <2>3. q \in Seq(Node) /\ Len(q) >= 1 /\ q[1] = Parent(m)
    BY <2>1, <2>2, UpIs
  <2>4. Len(q) \in Nat /\ 1 \in 1..Len(q)
    BY <2>3
  <2>5. p[1 + 1] = q[1]
    BY <2>2, <2>4
  <2> QED
    BY <2>2, <2>3, <2>4, <2>5
<1>8. ASSUME i < Len(path)
      PROVE  m # Root /\ path[i + 1] = Parent(m)
  <2>1. Len(p) \in Nat /\ Len(p) >= 2 /\ 2 \in 1..Len(p)
    BY <1>2, <1>5, <1>8
  <2>a. Len(p) # 1
    BY <1>5, <2>1
  <2>2. m # Root
    BY <1>6, <2>a, Zenon
  <2>3. p[2] = path[i + 2 - 1]
    BY <1>5, <2>1
  <2>4. i + 2 - 1 = i + 1
    BY <1>2
  <2> QED
    BY <1>7, <2>2, <2>3, <2>4
<1>9. ASSUME i = Len(path)
      PROVE  m = Root
  BY <1>2, <1>5, <1>7, <1>9
<1> QED
  BY <1>1, <1>3, <1>8, <1>9

\* Above a node are its parent and what is above that.
LEMMA AboveIs ==
  ASSUME NEW n \in Node
  PROVE  Range(Up[n]) = {n} \cup (IF n = Root THEN {} ELSE Range(Up[Parent(n)]))
<1>1. PICK p : p = Up[n]
  OBVIOUS
<1>2. p \in Seq(Node) /\ Len(p) >= 1 /\ p[1] = n
  BY <1>1, UpIs
<1>3. CASE n = Root
  <2>1. p = <<n>>
    BY <1>1, <1>3, UpIs
  <2> QED
    BY <1>1, <1>3, <2>1 DEF Range
<1>4. CASE n # Root
  <2>1. PICK q : q = Up[Parent(n)]
    OBVIOUS
  <2>2. Parent(n) \in Node /\ Len(p) = Len(q) + 1 /\ \A j \in 1..Len(q) : p[j + 1] = q[j]
    BY <1>1, <1>4, <2>1, UpIs
  <2>3. q \in Seq(Node) /\ Len(q) \in Nat
    BY <2>1, <2>2, UpIs
  <2>4. ASSUME NEW x \in Range(p) PROVE x \in {n} \cup Range(q)
    <3>1. PICK j \in 1..Len(p) : x = p[j]
      BY <1>2 DEF Range
    <3>2. CASE j = 1
      BY <1>2, <3>1, <3>2
    <3>3. CASE j # 1
      <4>1. j - 1 \in 1..Len(q) /\ (j - 1) + 1 = j
        BY <2>2, <2>3, <3>1, <3>3
      <4>2. p[(j - 1) + 1] = q[j - 1]
        BY <2>2, <4>1
      <4>3. x = q[j - 1]
        BY <3>1, <4>1, <4>2
      <4> QED
        BY <2>3, <4>1, <4>3 DEF Range
    <3> QED
      BY <3>2, <3>3
  <2>5. ASSUME NEW x \in Range(q) PROVE x \in Range(p)
    <3>1. PICK j \in 1..Len(q) : x = q[j]
      BY <2>3 DEF Range
    <3>2. j + 1 \in 1..Len(p) /\ x = p[j + 1]
      BY <2>2, <2>3, <3>1
    <3> QED
      BY <1>2, <3>2 DEF Range
  <2>6. n \in Range(p)
    BY <1>2 DEF Range
  <2> QED
    BY <1>1, <1>4, <2>1, <2>4, <2>5, <2>6
<1> QED
  BY <1>3, <1>4

\* Below a node are the node and the children of what is below it.
LEMMA BelowIs ==
  ASSUME NEW n \in Node
  PROVE  /\ n \in Below(n) /\ Below(n) \subseteq Node
         /\ \A m \in Node \ {Root} : m \in Below(n) <=> m = n \/ Parent(m) \in Below(n)
         /\ Root \in Below(n) => n = Root
<1>1. n \in Below(n) /\ Below(n) \subseteq Node
  BY AboveIs DEF Below
<1>2. ASSUME NEW m \in Node \ {Root}
      PROVE  m \in Below(n) <=> m = n \/ Parent(m) \in Below(n)
  <2>1. Parent(m) \in Node
    BY UpIs
  <2>2. Range(Up[m]) = {m} \cup Range(Up[Parent(m)])
    BY AboveIs
  <2> QED
    BY <2>1, <2>2 DEF Below
<1>3. Root \in Below(n) => n = Root
  <2>1. Root \in Node
    BY TreeAssumption DEF Node
  <2>2. Range(Up[Root]) = {Root}
    BY <2>1, AboveIs
  <2> QED
    BY <2>2 DEF Below
<1> QED
  BY <1>1, <1>2, <1>3

-----------------------------------------------------------------------------
(* Functions from a tree to a tree *)

TreeOK(tr) == tr \in TreeState /\ \A n \in Node : tr.rep[n] <= RepeatEnd[n]

\* Every visible node shows in its parent: all of them, all but n, and all but
\* n and its children.
Shown(tr) == \A m \in Node \ {Root} : ShowsAbove(tr, m)
ShownBut(tr, n) == \A m \in Node \ {Root} : m # n => ShowsAbove(tr, m)
ShownAround(tr, n) == \A m \in Node \ {Root} : m # n /\ Parent(m) # n => ShowsAbove(tr, m)

\* From tr to next no task that is visible changes and none becomes visible,
\* and a repeat advances only over tasks that are not.
Calm(tr, next) ==
  /\ \A t \in Task : /\ next.status[t] \in {tr.status[t], "queued", "complete"}
                     /\ tr.status[t] \in Visible => next.status[t] = tr.status[t]
  /\ \A m \in Node : next.rep[m] > tr.rep[m] =>
       \A t \in TasksBelow(m) : tr.status[t] \notin Visible

\* The parts of a tree.
LEMMA TreeParts ==
  ASSUME NEW tr \in TreeState
  PROVE  /\ tr.status \in [Node -> AnyStatus] /\ tr.rep \in [Node -> Nat]
         /\ tr.freed \in SUBSET Node /\ tr.onTime \in SUBSET Timed /\ tr.events \in SUBSET Task
         /\ tr = [status |-> tr.status, rep |-> tr.rep, freed |-> tr.freed,
                  onTime |-> tr.onTime, events |-> tr.events]
<1> QED
  BY RankOf DEF TreeState

\* A tree made of such parts.
LEMMA TreeOf ==
  ASSUME NEW status \in [Node -> AnyStatus], NEW rep \in [Node -> Nat],
         NEW freed \in SUBSET Node, NEW onTime \in SUBSET Timed, NEW events \in SUBSET Task
  PROVE  [status |-> status, rep |-> rep, freed |-> freed, onTime |-> onTime,
          events |-> events] \in TreeState
<1> QED
  BY RankOf DEF TreeState

\* Node.set_node_status_only changes one status.
LEMMA SetOnlyIs ==
  ASSUME NEW tr \in TreeState, NEW n \in Node, NEW s \in AnyStatus
  PROVE  /\ SetOnly(tr, n, s) \in TreeState
         /\ SetOnly(tr, n, s).rep = tr.rep
         /\ \A m \in Node : SetOnly(tr, n, s).status[m] = IF m = n THEN s ELSE tr.status[m]
<1>1. PICK st, re, fr, on, ev :
        /\ st = tr.status /\ re = tr.rep /\ fr = tr.freed /\ on = tr.onTime /\ ev = tr.events
  OBVIOUS
<1>2. /\ st \in [Node -> AnyStatus] /\ re \in [Node -> Nat]
      /\ fr \in SUBSET Node /\ on \in SUBSET Timed /\ ev \in SUBSET Task
      /\ tr = [status |-> st, rep |-> re, freed |-> fr, onTime |-> on, events |-> ev]
  BY <1>1, TreeParts
<1>3. SetOnly(tr, n, s)
        = [status |-> [st EXCEPT ![n] = s], rep |-> re, freed |-> fr, onTime |-> on, events |-> ev]
  BY <1>2 DEF SetOnly
<1>4. [st EXCEPT ![n] = s] \in [Node -> AnyStatus]
  BY <1>2
<1>5. SetOnly(tr, n, s) \in TreeState
  BY <1>2, <1>3, <1>4, TreeOf
<1>6. SetOnly(tr, n, s).status = [st EXCEPT ![n] = s] /\ SetOnly(tr, n, s).rep = re
  BY <1>3
<1> QED
  BY <1>1, <1>2, <1>5, <1>6

\* A repeat that is moved on changes nothing else.
LEMMA RepeatIs ==
  ASSUME NEW tr \in TreeState, NEW n \in Node
  PROVE  /\ [tr EXCEPT !.rep[n] = @ + 1] \in TreeState
         /\ [tr EXCEPT !.rep[n] = @ + 1].status = tr.status
         /\ \A m \in Node : [tr EXCEPT !.rep[n] = @ + 1].rep[m]
                              = IF m = n THEN tr.rep[m] + 1 ELSE tr.rep[m]
<1>1. PICK st, re, fr, on, ev :
        /\ st = tr.status /\ re = tr.rep /\ fr = tr.freed /\ on = tr.onTime /\ ev = tr.events
  OBVIOUS
<1>2. /\ st \in [Node -> AnyStatus] /\ re \in [Node -> Nat]
      /\ fr \in SUBSET Node /\ on \in SUBSET Timed /\ ev \in SUBSET Task
      /\ tr = [status |-> st, rep |-> re, freed |-> fr, onTime |-> on, events |-> ev]
  BY <1>1, TreeParts
<1>3. [tr EXCEPT !.rep[n] = @ + 1]
        = [status |-> st, rep |-> [re EXCEPT ![n] = re[n] + 1], freed |-> fr, onTime |-> on,
           events |-> ev]
  BY <1>2
<1>4. [re EXCEPT ![n] = re[n] + 1] \in [Node -> Nat]
  BY <1>2
<1>5. [tr EXCEPT !.rep[n] = @ + 1] \in TreeState
  BY <1>2, <1>3, <1>4, TreeOf
<1>6. /\ [tr EXCEPT !.rep[n] = @ + 1].status = st
      /\ [tr EXCEPT !.rep[n] = @ + 1].rep = [re EXCEPT ![n] = re[n] + 1]
  BY <1>3, Zenon
<1> QED
  BY <1>1, <1>2, <1>5, <1>6

\* Node.requeue leaves nothing visible below n and nothing changed elsewhere.
LEMMA RequeueIs ==
  ASSUME NEW tr \in TreeState, NEW n \in Node, NEW reset \in BOOLEAN
  PROVE  /\ RequeueTree(tr, n, reset) \in TreeState
         /\ \A m \in Node : IF m \in Below(n)
                            THEN RequeueTree(tr, n, reset).status[m] \in {"queued", "complete"}
                            ELSE RequeueTree(tr, n, reset).status[m] = tr.status[m]
         /\ \A m \in Node : RequeueTree(tr, n, reset).rep[m]
                              = IF m \in Below(n) /\ reset THEN 0 ELSE tr.rep[m]
<1> DEFINE all == Below(n)
           default(m) == IF \E g \in DefaultComplete \cap all : m \in Below(g)
                           THEN "complete" ELSE "queued"
           st == [m \in Node |-> IF m \in all THEN default(m) ELSE tr.status[m]]
           re == [m \in Node |-> IF m \in all /\ reset THEN 0 ELSE tr.rep[m]]
           r == RequeueTree(tr, n, reset)
<1>1. r = [status |-> st, rep |-> re, freed |-> tr.freed \ all, onTime |-> tr.onTime \ all,
           events |-> tr.events \ all]
  BY DEF RequeueTree
<1>2. \A m \in Node : default(m) \in {"queued", "complete"}
  OBVIOUS
<1>3. /\ tr.status \in [Node -> AnyStatus] /\ tr.rep \in [Node -> Nat]
      /\ tr.freed \in SUBSET Node /\ tr.onTime \in SUBSET Timed /\ tr.events \in SUBSET Task
  BY TreeParts
<1>4. st \in [Node -> AnyStatus] /\ re \in [Node -> Nat]
  <2> HIDE DEF default
  <2> QED
    BY <1>2, <1>3 DEF AnyStatus
<1>5. /\ \A m \in Node : st[m] = IF m \in all THEN default(m) ELSE tr.status[m]
      /\ \A m \in Node : re[m] = IF m \in all /\ reset THEN 0 ELSE tr.rep[m]
  OBVIOUS
<1>6. /\ tr.freed \ all \in SUBSET Node /\ tr.onTime \ all \in SUBSET Timed
      /\ tr.events \ all \in SUBSET Task
  BY <1>3
<1> HIDE DEF default, st, re, all
<1>7. r \in TreeState
  BY <1>1, <1>4, <1>6, TreeOf
<1>8. r.status = st /\ r.rep = re
  BY <1>1
<1> QED
  BY <1>2, <1>5, <1>7, <1>8 DEF all

\* The computed status of a node is its own or that of a child, and no child
\* is more significant.
LEMMA ComputedIs ==
  ASSUME NEW tr \in TreeState, NEW n \in Node
  PROVE  /\ ComputedStatus(tr, n) \in AnyStatus
         /\ n \in Task => ComputedStatus(tr, n) = tr.status[n]
         /\ \A m \in Node \ {Root} :
              Parent(m) = n => Rank(tr.status[m]) <= Rank(ComputedStatus(tr, n))
         /\ \/ ComputedStatus(tr, n) = tr.status[n]
            \/ \E m \in Node \ {Root} : Parent(m) = n /\ ComputedStatus(tr, n) = tr.status[m]
<1>1. tr.status \in [Node -> AnyStatus]
  BY TreeParts
<1>2. CASE n \in Task \/ Children[n] = <<>>
  <2>1. ComputedStatus(tr, n) = tr.status[n]
    BY <1>2 DEF ComputedStatus
  <2>2. ASSUME NEW m \in Node \ {Root}, Parent(m) = n PROVE FALSE
    <3>1. n \in Container /\ m \in Range(Children[n])
      BY <2>2, ParentIs
    <3>2. n \notin Task
      BY <3>1, TreeAssumption
    <3>3. Children[n] = <<>>
      BY <1>2, <3>2
    <3> QED
      BY <3>1, <3>3 DEF Range
  <2> QED
    BY <1>1, <2>1, <2>2
<1>3. CASE ~(n \in Task \/ Children[n] = <<>>)
  <2> DEFINE S == {tr.status[c] : c \in Range(Children[n])}
  <2>1. ComputedStatus(tr, n) = MostSignificant(S)
    BY <1>3 DEF ComputedStatus
  <2>2. n \in Container /\ Children[n] \in Seq(Node) /\ Children[n] # <<>>
    BY <1>3, TreeAssumption DEF Node
  <2>3. Range(Children[n]) \subseteq Node /\ Range(Children[n]) # {}
    <3>1. PICK cs : cs = Children[n]
      OBVIOUS
    <3>2. cs \in Seq(Node) /\ cs # <<>>
      BY <2>2, <3>1
    <3>3. Len(cs) \in Nat /\ Len(cs) # 0 /\ \A i \in 1..Len(cs) : cs[i] \in Node
      BY <3>2
    <3>4. 1 \in DOMAIN cs /\ DOMAIN cs = 1..Len(cs)
      BY <3>2, <3>3
    <3> QED
      BY <3>1, <3>3, <3>4, Zenon DEF Range
  <2>4. \A m \in Node : m \in Range(Children[n]) <=> m # Root /\ Parent(m) = n
    BY <2>2, ParentIs
  <2>5. S \subseteq AnyStatus /\ S # {}
    BY <1>1, <2>3
  <2>6. MostSignificant(S) \in S /\ \A q \in S : Rank(q) <= Rank(MostSignificant(S))
    BY <2>5, MostSignificantIs, Zenon
  <2>7. PICK m \in Range(Children[n]) : MostSignificant(S) = tr.status[m]
    BY <2>6, Zenon
  <2>8. \A c \in Range(Children[n]) : Rank(tr.status[c]) <= Rank(MostSignificant(S))
    BY <2>6
  <2> HIDE DEF S
  <2> QED
    BY <1>3, <2>1, <2>3, <2>4, <2>5, <2>6, <2>7, <2>8
<1> QED
  BY <1>2, <1>3

\* What is visible at a node shows along its path as far as each node of it
\* shows in its parent.
LEMMA VisibleClimbs ==
  ASSUME NEW tr \in TreeState, NEW t \in Node, tr.status[t] \in Visible,
         NEW k \in 1..Len(Up[t]),
         \A i \in 1..Len(Up[t]) : i < k => ShowsAbove(tr, Up[t][i])
  PROVE  Rank(tr.status[Up[t][k]]) >= Rank(tr.status[t])
<1>1. PICK path : path = Up[t]
  OBVIOUS
<1>2. path \in Seq(Node) /\ Len(path) \in Nat /\ Len(path) >= 1 /\ path[1] = t
  BY <1>1, UpIs
<1>3. tr.status \in [Node -> AnyStatus]
  BY TreeParts
<1>4. \A i \in 1..Len(path) : path[i] \in Node /\ Rank(tr.status[path[i]]) \in 1..6
  <2> TAKE i \in 1..Len(path)
  <2>1. path[i] \in Node
    BY <1>2
  <2> QED
    BY <1>3, <2>1, VisibleRank
<1>5. Rank(tr.status[t]) >= 4 /\ Rank(tr.status[t]) \in 1..6
  BY <1>3, VisibleRank
<1> DEFINE T == {i \in Nat : i \in 1..k /\ ~(Rank(tr.status[path[i]]) >= Rank(tr.status[t]))}
<1>6. k \in Nat /\ k \in 1..Len(path)
  BY <1>1, <1>2
<1>7. ASSUME T # {} PROVE FALSE
  <2>1. PICK i \in T : \A j \in T : i <= j
    BY <1>7, LeastOf, Zenon
  <2>2. i \in Nat /\ i \in 1..k /\ ~(Rank(tr.status[path[i]]) >= Rank(tr.status[t]))
    OBVIOUS
  <2>3. i # 1
    BY <1>2, <1>5, <2>2
  <2>4. PICK j \in Nat : j = i - 1
    BY <2>2, <2>3
  <2>5. j \in 1..Len(path) /\ i \in 1..Len(path) /\ j < Len(path) /\ j < k /\ j + 1 = i /\ j \in 1..k
    BY <1>2, <1>6, <2>2, <2>3, <2>4
  <2>6. j \notin T
    BY <2>1, <2>2, <2>4
  <2>7. Rank(tr.status[path[j]]) >= Rank(tr.status[t])
    BY <2>5, <2>6
  <2>8. path[i] = Parent(path[j])
    BY <1>1, <2>5, PathNext
  <2>9. ShowsAbove(tr, path[j])
    BY <1>1, <2>5
  <2>10. path[j] \in Node /\ tr.status[path[j]] \in AnyStatus
    BY <1>3, <1>4, <2>5
  <2>11. Rank(tr.status[path[j]]) \in 1..6 /\ Rank(tr.status[path[i]]) \in 1..6
    BY <1>4, <2>5
  <2>12. tr.status[path[j]] \in Visible
    BY <1>5, <2>7, <2>10, <2>11, VisibleRank
  <2>13. Rank(tr.status[path[i]]) >= Rank(tr.status[path[j]])
    BY <2>8, <2>9, <2>12 DEF ShowsAbove
  <2> QED
    BY <1>5, <2>2, <2>7, <2>11, <2>13
<1>8. k \notin T
  BY <1>7
<1> QED
  BY <1>1, <1>6, <1>8

\* A node that computes to complete has no visible task below it.
LEMMA CompleteHidesNothing ==
  ASSUME NEW tr \in TreeState, NEW n \in Node, ShownAround(tr, n),
         ComputedStatus(tr, n) = "complete"
  PROVE  \A t \in TasksBelow(n) : tr.status[t] \notin Visible
<1> SUFFICES ASSUME NEW t \in TasksBelow(n), tr.status[t] \in Visible
             PROVE  FALSE
  OBVIOUS
<1>1. t \in Node /\ t \in Task /\ n \in Range(Up[t])
  BY DEF TasksBelow, Below
<1>2. PICK path : path = Up[t]
  OBVIOUS
<1>3. path \in Seq(Node) /\ Len(path) \in Nat /\ path[1] = t
  BY <1>1, <1>2, UpIs
<1>4. t # n
  <2>1. t = n => tr.status[t] = "complete"
    BY <1>1, ComputedIs
  <2> QED
    BY <2>1 DEF Visible, InFlight
<1> DEFINE K == {k \in Nat : k \in 1..Len(path) /\ path[k] = n}
<1>5. PICK k \in K : \A j \in K : k <= j
  <2>1. K # {}
    BY <1>1, <1>2, <1>3 DEF Range
  <2> QED
    BY <2>1, LeastOf, Zenon
<1>6. k \in Nat /\ k \in 1..Len(path) /\ path[k] = n
  OBVIOUS
<1>7. \A j \in 1..Len(path) : j < k => path[j] # n
  BY <1>3, <1>5, <1>6
<1>8. PICK c \in Nat : c = k - 1
  BY <1>3, <1>4, <1>6
<1>9. c \in 1..Len(path) /\ c < Len(path) /\ c + 1 = k
  BY <1>3, <1>4, <1>6, <1>8
<1>10. ASSUME NEW i \in 1..Len(path), i < c
       PROVE  ShowsAbove(tr, path[i])
  <2>1. /\ i + 1 \in 1..Len(path) /\ i < Len(path) /\ i < k /\ i + 1 < k
    BY <1>3, <1>6, <1>9, <1>10
  <2>2. path[i] # Root /\ path[i + 1] = Parent(path[i]) /\ path[i] \in Node
    BY <1>1, <1>2, <1>3, <2>1, PathNext
  <2>3. path[i] # n /\ path[i + 1] # n
    BY <1>7, <2>1
  <2> QED
    BY <2>2, <2>3 DEF ShownAround
<1>11. Rank(tr.status[path[c]]) >= Rank(tr.status[t])
  BY <1>1, <1>2, <1>9, <1>10, VisibleClimbs
<1>12. path[c] \in Node /\ path[c] # Root /\ Parent(path[c]) = n
  <2>1. path[c] # Root /\ path[c + 1] = Parent(path[c])
    BY <1>1, <1>2, <1>9, PathNext
  <2> QED
    BY <1>3, <1>6, <1>9, <2>1
<1>13. Rank(tr.status[path[c]]) <= Rank("complete")
  BY <1>12, ComputedIs
<1>14. /\ tr.status[t] \in AnyStatus /\ tr.status[path[c]] \in AnyStatus
  BY <1>1, <1>12, TreeParts
<1>15. Rank(tr.status[t]) >= 4 /\ Rank(tr.status[t]) \in 1..6 /\ Rank(tr.status[path[c]]) \in 1..6
  BY <1>14, VisibleRank
<1> QED
  BY <1>11, <1>13, <1>15, RankOf

\* A status set to the computed one is shown below the node.
LEMMA SettledIs ==
  ASSUME NEW tr, TreeOK(tr), NEW n \in Node, ShownAround(tr, n),
         NEW r, r = SetOnly(tr, n, ComputedStatus(tr, n))
  PROVE  TreeOK(r) /\ ShownBut(r, n) /\ Calm(tr, r)
<1>1. PICK s : s = ComputedStatus(tr, n)
  OBVIOUS
<1>2. /\ s \in AnyStatus /\ (n \in Task => s = tr.status[n])
      /\ \A m \in Node \ {Root} : Parent(m) = n => Rank(tr.status[m]) <= Rank(s)
  BY <1>1, ComputedIs DEF TreeOK
<1>3. /\ r \in TreeState /\ r.rep = tr.rep
      /\ \A m \in Node : r.status[m] = IF m = n THEN s ELSE tr.status[m]
  BY <1>1, <1>2, SetOnlyIs DEF TreeOK
<1>4. TreeOK(r)
  BY <1>3 DEF TreeOK
<1>5. ShownBut(r, n)
  <2> SUFFICES ASSUME NEW m \in Node \ {Root}, m # n PROVE ShowsAbove(r, m)
    BY DEF ShownBut
  <2>1. Parent(m) \in Node /\ r.status[m] = tr.status[m]
    BY <1>3, UpIs
  <2>2. CASE Parent(m) = n
    <3>1. Rank(tr.status[m]) <= Rank(s) /\ r.status[Parent(m)] = s
      BY <1>2, <1>3, <2>2
    <3>2. tr.status[m] \in AnyStatus
      BY TreeParts DEF TreeOK
    <3>3. Rank(tr.status[m]) \in 1..6 /\ Rank(s) \in 1..6
      BY <1>2, <3>2, VisibleRank
    <3>4. Rank(s) >= Rank(tr.status[m])
      BY <3>1, <3>3
    <3> QED
      BY <2>1, <3>1, <3>4 DEF ShowsAbove
  <2>3. CASE Parent(m) # n
    <3>1. r.status[Parent(m)] = tr.status[Parent(m)]
      BY <1>3, <2>1, <2>3
    <3>2. ShowsAbove(tr, m)
      BY <2>3 DEF ShownAround
    <3> QED
      BY <2>1, <3>1, <3>2 DEF ShowsAbove
  <2> QED
    BY <2>2, <2>3
<1>6. Calm(tr, r)
  <2>1. \A t \in Task : r.status[t] = tr.status[t]
    BY <1>2, <1>3 DEF Node
  <2>2. \A m \in Node : ~(r.rep[m] > tr.rep[m])
    <3> TAKE m \in Node
    <3>1. tr.rep[m] \in Nat /\ r.rep[m] = tr.rep[m]
      BY <1>3, TreeParts DEF TreeOK
    <3> QED
      BY <3>1
  <2> QED
    BY <2>1, <2>2 DEF Calm
<1> QED
  BY <1>4, <1>5, <1>6

\* The repeat of n moved on
MovedOn(tr, n) == [tr EXCEPT !.rep[n] = @ + 1]

\* The repeat of n has moved on and what is below n is requeued.
Advanced(tr, n, next) ==
  /\ next \in TreeState
  /\ \A m \in Node : IF m \in Below(n) THEN next.status[m] \in {"queued", "complete"}
                     ELSE next.status[m] = tr.status[m]
  /\ \A m \in Node : next.rep[m] = IF m = n THEN tr.rep[m] + 1 ELSE tr.rep[m]

\* What a repeat does when it advances
LEMMA MovedOnIs ==
  ASSUME NEW tr \in TreeState, NEW n \in Node
  PROVE  Advanced(tr, n, RequeueTree(MovedOn(tr, n), n, FALSE))
<1>1. PICK moved : moved = MovedOn(tr, n)
  OBVIOUS
<1>2. /\ moved \in TreeState /\ moved.status = tr.status
      /\ \A m \in Node : moved.rep[m] = IF m = n THEN tr.rep[m] + 1 ELSE tr.rep[m]
  BY <1>1, RepeatIs DEF MovedOn
<1>3. PICK reset \in BOOLEAN : reset = FALSE
  BY Zenon
<1>4. moved \in TreeState
  BY <1>2
<1>5. /\ RequeueTree(moved, n, reset) \in TreeState
      /\ \A m \in Node : IF m \in Below(n)
                         THEN RequeueTree(moved, n, reset).status[m] \in {"queued", "complete"}
                         ELSE RequeueTree(moved, n, reset).status[m] = moved.status[m]
      /\ \A m \in Node : RequeueTree(moved, n, reset).rep[m]
                           = IF m \in Below(n) /\ reset THEN 0 ELSE moved.rep[m]
  BY <1>4, RequeueIs
<1>6. PICK next : next = RequeueTree(moved, n, reset)
  OBVIOUS
<1>7. Advanced(tr, n, next)
  BY <1>2, <1>3, <1>5, <1>6 DEF Advanced
<1> QED
  BY <1>1, <1>3, <1>6, <1>7, Zenon

\* A repeat that advances requeues what is below it, where nothing is visible.
LEMMA AdvancedIs ==
  ASSUME NEW tr, TreeOK(tr), NEW n \in Node, ShownAround(tr, n),
         ComputedStatus(tr, n) = "complete", tr.rep[n] < RepeatEnd[n],
         NEW next, Advanced(tr, n, next), NEW s, s = ComputedStatus(next, n)
  PROVE  LET r == SetOnly(next, n, s)
         IN  TreeOK(r) /\ ShownBut(r, n) /\ Calm(tr, r)
<1>1. PICK r : r = SetOnly(next, n, s)
  OBVIOUS
<1>2. /\ next \in TreeState
      /\ \A m \in Node : IF m \in Below(n) THEN next.status[m] \in {"queued", "complete"}
                         ELSE next.status[m] = tr.status[m]
      /\ \A m \in Node : next.rep[m] = IF m = n THEN tr.rep[m] + 1 ELSE tr.rep[m]
  BY DEF Advanced
<1>3. /\ n \in Below(n)
      /\ \A m \in Node \ {Root} : m \in Below(n) <=> m = n \/ Parent(m) \in Below(n)
  BY BelowIs
<1>4. s \in AnyStatus /\ s \in {"queued", "complete"}
  <2>1. \A m \in Node \ {Root} : Parent(m) = n => m \in Below(n)
    BY <1>3
  <2>2. \/ s = next.status[n]
        \/ \E m \in Node \ {Root} : Parent(m) = n /\ s = next.status[m]
    BY <1>2, ComputedIs
  <2>3. s \in {"queued", "complete"}
    BY <1>2, <1>3, <2>1, <2>2
  <2> QED
    BY <2>3 DEF AnyStatus
<1>5. /\ r \in TreeState /\ r.rep = next.rep
      /\ \A m \in Node : r.status[m] = IF m = n THEN s ELSE next.status[m]
  BY <1>1, <1>2, <1>4, SetOnlyIs
<1>6. \A m \in Node : IF m \in Below(n) THEN r.status[m] \in {"queued", "complete"}
                      ELSE r.status[m] = tr.status[m]
  BY <1>2, <1>3, <1>4, <1>5
<1>7. \A m \in Node : r.rep[m] = IF m = n THEN tr.rep[m] + 1 ELSE tr.rep[m]
  BY <1>2, <1>5
<1>8. \A m \in Node : tr.rep[m] \in Nat /\ RepeatEnd[m] \in Nat
  BY TreeParts, TreeAssumption DEF TreeOK
<1>9. TreeOK(r)
  <2> SUFFICES ASSUME NEW m \in Node PROVE r.rep[m] <= RepeatEnd[m]
    BY <1>5 DEF TreeOK
  <2>1. tr.rep[m] <= RepeatEnd[m] /\ (m = n => tr.rep[m] < RepeatEnd[m])
    BY DEF TreeOK
  <2>2. PICK i \in Nat, e \in Nat : i = tr.rep[m] /\ e = RepeatEnd[m]
    BY <1>8
  <2>3. r.rep[m] = IF m = n THEN i + 1 ELSE i
    BY <1>7, <2>2
  <2>4. i <= e /\ (m = n => i < e)
    BY <2>1, <2>2
  <2>5. (IF m = n THEN i + 1 ELSE i) <= e
    BY <2>4
  <2> QED
    BY <2>2, <2>3, <2>5
<1>10. ShownBut(r, n)
  <2> SUFFICES ASSUME NEW m \in Node \ {Root}, m # n PROVE ShowsAbove(r, m)
    BY DEF ShownBut
  <2>1. CASE m \in Below(n)
    BY <1>6, <2>1 DEF ShowsAbove, Visible, InFlight
  <2>2. CASE m \notin Below(n)
    <3>1. Parent(m) \in Node /\ Parent(m) \notin Below(n) /\ Parent(m) # n
      BY <1>3, <2>2, UpIs
    <3>2. ShowsAbove(tr, m)
      BY <3>1 DEF ShownAround
    <3>3. r.status[m] = tr.status[m] /\ r.status[Parent(m)] = tr.status[Parent(m)]
      BY <1>6, <2>2, <3>1
    <3> QED
      BY <3>2, <3>3 DEF ShowsAbove
  <2> QED
    BY <2>1, <2>2
<1>11. \A t \in TasksBelow(n) : tr.status[t] \notin Visible
  BY CompleteHidesNothing DEF TreeOK
<1>12. Calm(tr, r)
  <2>1. ASSUME NEW t \in Task
        PROVE  /\ r.status[t] \in {tr.status[t], "queued", "complete"}
               /\ tr.status[t] \in Visible => r.status[t] = tr.status[t]
    <3>1. t \in Node
      BY DEF Node
    <3>2. t \in Below(n) => tr.status[t] \notin Visible
      BY <1>11 DEF TasksBelow
    <3> QED
      BY <1>6, <3>1, <3>2
  <2>2. ASSUME NEW m \in Node, r.rep[m] > tr.rep[m]
        PROVE  \A t \in TasksBelow(m) : tr.status[t] \notin Visible
    <3>1. m = n
      <4>1. PICK i \in Nat : i = tr.rep[m]
        BY <1>8
      <4>2. ~(i > i)
        OBVIOUS
      <4> QED
        BY <1>7, <2>2, <4>1, <4>2
    <3> QED
      BY <1>11, <3>1
  <2> QED
    BY <2>1, <2>2 DEF Calm
<1> QED
  BY <1>1, <1>9, <1>10, <1>12

\* One node of swim_status_change: its status is the computed one, what is
\* below it shows, and no task that is visible changes.
LEMMA SwimOneIs ==
  ASSUME NEW acc, TreeOK(acc.tr), NEW n \in Node, ShownAround(acc.tr, n)
  PROVE  /\ TreeOK(SwimOne(acc, n).tr) /\ ShownBut(SwimOne(acc, n).tr, n)
         /\ Calm(acc.tr, SwimOne(acc, n).tr)
<1>1. PICK tr : tr = acc.tr
  OBVIOUS
<1>2. PICK next : next = RequeueTree(MovedOn(tr, n), n, FALSE)
  BY Zenon
<1> DEFINE advances == /\ acc.mode = "swim" /\ ComputedStatus(tr, n) = "complete"
                       /\ tr.rep[n] < RepeatEnd[n]
<1>3. CASE ~advances
  <2>1. SwimOne(acc, n).tr = SetOnly(tr, n, ComputedStatus(tr, n))
    BY <1>1, <1>3 DEF SwimOne
  <2> QED
    BY <1>1, <2>1, SettledIs
<1>4. CASE advances
  <2>1. SwimOne(acc, n).tr = SetOnly(next, n, ComputedStatus(next, n))
    BY <1>1, <1>2, <1>4 DEF SwimOne, MovedOn
  <2>2. Advanced(tr, n, next)
    BY <1>1, <1>2, MovedOnIs, Zenon DEF TreeOK
  <2> QED
    BY <1>1, <1>4, <2>1, <2>2, AdvancedIs
<1> QED
  BY <1>3, <1>4

\* What is calm twice is calm.
LEMMA CalmTwice ==
  ASSUME NEW a, NEW b, NEW c, TreeOK(a), TreeOK(b), TreeOK(c), Calm(a, b), Calm(b, c)
  PROVE  Calm(a, c)
<1>1. ASSUME NEW t \in Task
      PROVE  /\ c.status[t] \in {a.status[t], "queued", "complete"}
             /\ a.status[t] \in Visible => c.status[t] = a.status[t]
  BY DEF Calm
<1>2. ASSUME NEW m \in Node, c.rep[m] > a.rep[m]
      PROVE  \A t \in TasksBelow(m) : a.status[t] \notin Visible
  <2> SUFFICES ASSUME NEW t \in TasksBelow(m) PROVE a.status[t] \notin Visible
    OBVIOUS
  <2>1. a.rep[m] \in Nat /\ b.rep[m] \in Nat /\ c.rep[m] \in Nat
    BY TreeParts DEF TreeOK
  <2>2. c.rep[m] > b.rep[m] \/ b.rep[m] > a.rep[m]
    BY <1>2, <2>1
  <2>3. t \in Task
    BY DEF TasksBelow
  <2>4. CASE b.rep[m] > a.rep[m]
    BY <2>4 DEF Calm
  <2>5. CASE c.rep[m] > b.rep[m]
    <3>1. b.status[t] \notin Visible
      BY <2>5 DEF Calm
    <3> QED
      BY <2>3, <3>1 DEF Calm
  <2> QED
    BY <2>2, <2>4, <2>5
<1> QED
  BY <1>1, <1>2 DEF Calm

\* One node of the way up, and the way up to its m-th node.
SwimAt(path, acc, i) == SwimOne(acc, path[i])
SwimStart(tr) == [tr |-> tr, mode |-> "swim"]
Swum(tr, path, f, m) ==
  f = [i \in 0..m |-> IF i = 0 THEN SwimStart(tr) ELSE SwimAt(path, f[i - 1], i)]

\* The way up has a result for every length.
LEMMA SwumExists ==
  ASSUME NEW tr, NEW path, NEW m \in Nat
  PROVE  \E f : Swum(tr, path, f, m)
<1> DEFINE T == {k \in Nat : ~ \E f : Swum(tr, path, f, k)}
<1> SUFFICES ASSUME T # {} PROVE FALSE
  OBVIOUS
<1>1. PICK k \in T : \A j \in T : k <= j
  BY LeastOf, Zenon
<1>2. k \in Nat /\ ~ \E f : Swum(tr, path, f, k)
  OBVIOUS
<1>3. CASE k = 0
  <2> DEFINE f == [i \in 0..0 |-> SwimStart(tr)]
  <2>1. f = [i \in 0..0 |-> IF i = 0 THEN SwimStart(tr) ELSE SwimAt(path, f[i - 1], i)]
    OBVIOUS
  <2>2. Swum(tr, path, f, 0)
    BY <2>1, Zenon DEF Swum
  <2> QED
    BY <1>2, <1>3, <2>2
<1>4. CASE k # 0
  <2>1. k - 1 \in Nat /\ k - 1 \notin T
    BY <1>1, <1>2, <1>4
  <2>2. PICK g : Swum(tr, path, g, k - 1)
    BY <2>1
  <2>3. /\ DOMAIN g = 0..(k - 1)
        /\ \A i \in 0..(k - 1) :
             g[i] = IF i = 0 THEN SwimStart(tr) ELSE SwimAt(path, g[i - 1], i)
    <3>1. g = [i \in 0..(k - 1) |->
                 IF i = 0 THEN SwimStart(tr) ELSE SwimAt(path, g[i - 1], i)]
      BY <2>2 DEF Swum
    <3> QED
      BY <3>1, Zenon
  <2> DEFINE f == [i \in 0..k |-> IF i = k THEN SwimAt(path, g[k - 1], k) ELSE g[i]]
  <2>4. ASSUME NEW i \in 0..k
        PROVE  f[i] = IF i = 0 THEN SwimStart(tr) ELSE SwimAt(path, f[i - 1], i)
    <3>1. CASE i = 0
      BY <1>2, <1>4, <2>3, <2>4, <3>1
    <3>2. CASE i # 0
      <4>1. i - 1 \in 0..k /\ i - 1 # k /\ i - 1 \in 0..(k - 1)
        BY <1>2, <2>4, <3>2
      <4>2. f[i - 1] = g[i - 1]
        BY <4>1
      <4>3. CASE i = k
        <5>1. f[i] = SwimAt(path, g[k - 1], k)
          BY <2>4, <4>3
        <5>2. f[i] = SwimAt(path, f[i - 1], i)
          BY <4>2, <4>3, <5>1
        <5> HIDE DEF f
        <5> QED
          BY <3>2, <5>2
      <4>4. CASE i # k
        <5>1. f[i] = g[i] /\ i \in 0..(k - 1)
          BY <1>2, <2>4, <4>4
        <5>2. g[i] = SwimAt(path, g[i - 1], i)
          BY <2>3, <3>2, <5>1
        <5>3. f[i] = SwimAt(path, f[i - 1], i)
          BY <4>2, <5>1, <5>2, Zenon
        <5> HIDE DEF f
        <5> QED
          BY <3>2, <5>3
      <4> QED
        BY <4>3, <4>4
    <3> QED
      BY <3>1, <3>2
  <2>5. Swum(tr, path, f, k)
    <3>1. f = [i \in 0..k |-> f[i]]
      OBVIOUS
    <3> HIDE DEF f
    <3> QED
      BY <2>4, <3>1, Zenon DEF Swum
  <2> QED
    BY <1>2, <2>5
<1> QED
  BY <1>3, <1>4


\* What does not change is calm.
LEMMA CalmSame ==
  ASSUME NEW tr, TreeOK(tr)
  PROVE  Calm(tr, tr)
<1>1. \A m \in Node : tr.rep[m] \in Nat
  BY TreeParts DEF TreeOK
<1>2. \A m \in Node : ~(tr.rep[m] > tr.rep[m])
  BY <1>1
<1> QED
  BY <1>2 DEF Calm

\* Node.swim_status_change: when all shows but the node itself and its
\* children, then all shows in the end, and no task that is visible changes.
LEMMA SwimIs ==
  ASSUME NEW tr, TreeOK(tr), NEW n \in Node, ShownAround(tr, n)
  PROVE  TreeOK(Swim(tr, n)) /\ Shown(Swim(tr, n)) /\ Calm(tr, Swim(tr, n))
<1>1. PICK path : path = Up[n]
  OBVIOUS
<1>2. path \in Seq(Node) /\ Len(path) \in Nat /\ Len(path) >= 1 /\ path[1] = n
  BY <1>1, UpIs
<1> DEFINE f == CHOOSE g : Swum(tr, path, g, Len(path))
<1>3. Swim(tr, n) = f[Len(path)].tr
  BY <1>1 DEF Swim, SwimAlong, Swum, SwimAt, SwimStart
<1>4. Swum(tr, path, f, Len(path))
  BY <1>2, SwumExists, Zenon
<1> HIDE DEF f
<1>5. \A i \in 0..Len(path) : f[i] = IF i = 0 THEN SwimStart(tr) ELSE SwimAt(path, f[i - 1], i)
  <2>1. f = [i \in 0..Len(path) |-> IF i = 0 THEN SwimStart(tr) ELSE SwimAt(path, f[i - 1], i)]
    BY <1>4 DEF Swum
  <2> QED
    BY <2>1, Zenon
<1>6. PICK L \in Nat : L = Len(path)
  BY <1>2
<1> DEFINE Good(i) == /\ TreeOK(f[i].tr) /\ Calm(tr, f[i].tr)
                      /\ i # 0 => ShownBut(f[i].tr, path[i])
           T == {i \in 0..L : ~Good(i)}
<1>7. Good(0)
  <2>1. f[0] = SwimStart(tr)
    BY <1>2, <1>5
  <2>2. f[0].tr = tr
    BY <2>1 DEF SwimStart
  <2> QED
    BY <2>2, CalmSame
<1>8. ASSUME NEW i \in 1..L, Good(i - 1) PROVE Good(i)
  <2>1. path[i] \in Node /\ i \in 0..L
    BY <1>2, <1>6, <1>8
  <2>2. f[i] = SwimOne(f[i - 1], path[i])
    BY <1>5, <1>6, <2>1, <1>8 DEF SwimAt
  <2>3. ShownAround(f[i - 1].tr, path[i])
    <3>1. CASE i = 1
      <4>1. f[0] = SwimStart(tr)
        BY <1>2, <1>5
      <4>2. f[i - 1].tr = tr /\ path[i] = n
        BY <1>2, <3>1, <4>1 DEF SwimStart
      <4> QED
        BY <4>2
    <3>2. CASE i # 1
      <4>1. PICK j \in 1..L : j = i - 1
        BY <1>8, <3>2
      <4>2. j \in 1..Len(Up[n]) /\ j < Len(Up[n]) /\ j + 1 = i /\ j # 0
        BY <1>1, <1>6, <1>8, <4>1
      <4>3. path[j + 1] = Parent(path[j])
        BY <1>1, <4>2, PathNext
      <4>4. path[i] = Parent(path[j])
        BY <4>2, <4>3
      <4>5. ShownBut(f[j].tr, path[j])
        BY <1>8, <4>1, <4>2
      <4>6. ShownAround(f[j].tr, path[i])
        <5> SUFFICES ASSUME NEW m \in Node \ {Root}, Parent(m) # path[i]
                     PROVE  ShowsAbove(f[j].tr, m)
          BY DEF ShownAround
        <5> QED
          BY <4>4, <4>5 DEF ShownBut
      <4> QED
        BY <4>1, <4>6
    <3> QED
      BY <3>1, <3>2
  <2>4. PICK acc : acc = f[i - 1]
    OBVIOUS
  <2>5. TreeOK(acc.tr) /\ Calm(tr, acc.tr) /\ ShownAround(acc.tr, path[i])
    BY <1>8, <2>3, <2>4
  <2>6. /\ TreeOK(SwimOne(acc, path[i]).tr) /\ ShownBut(SwimOne(acc, path[i]).tr, path[i])
        /\ Calm(acc.tr, SwimOne(acc, path[i]).tr)
    BY <2>1, <2>5, SwimOneIs
  <2>7. Calm(tr, SwimOne(acc, path[i]).tr)
    BY <2>5, <2>6, CalmTwice
  <2> QED
    BY <2>2, <2>4, <2>6, <2>7
<1>9. ASSUME T # {} PROVE FALSE
  <2>1. PICK i \in T : \A j \in T : i <= j
    <3>1. T \subseteq Nat
      OBVIOUS
    <3> HIDE DEF T
    <3> QED
      BY <1>9, <3>1, LeastOf, Zenon
  <2>2. i \in 0..L /\ ~Good(i)
    OBVIOUS
  <2> HIDE DEF Good
  <2>3. i \in 1..L /\ i - 1 \in 0..L /\ ~(i <= i - 1)
    BY <1>7, <2>2
  <2>4. Good(i - 1)
    BY <2>1, <2>3
  <2> QED
    BY <1>8, <2>2, <2>3, <2>4
<1>10. Good(L)
  <2> HIDE DEF Good
  <2> QED
    BY <1>9
<1>11. path[L] = Root /\ L # 0
  BY <1>1, <1>2, <1>6, PathNext
<1>12. ShownBut(f[L].tr, Root)
  BY <1>10, <1>11
<1>13. Shown(f[L].tr)
  BY <1>12 DEF ShownBut, Shown
<1> QED
  BY <1>3, <1>6, <1>10, <1>13

-----------------------------------------------------------------------------
(* What the handlers do to the tree *)

\* As Calm, but for the nodes S whose status the handler itself sets.
CalmBut(tr, next, S) ==
  /\ \A t \in Task \ S : /\ next.status[t] \in {tr.status[t], "queued", "complete"}
                         /\ tr.status[t] \in Visible => next.status[t] = tr.status[t]
  /\ \A m \in Node : next.rep[m] > tr.rep[m] =>
       \A t \in TasksBelow(m) \ S : tr.status[t] \notin Visible

\* No repeat over t advances.
PassesBy(tr, next, t) == \A m \in Node : next.rep[m] > tr.rep[m] => t \notin TasksBelow(m)

\* Statuses that are set outside of S leave it calm.
LEMMA CalmSet ==
  ASSUME NEW a, TreeOK(a), NEW b, b.rep = a.rep, NEW S,
         \A m \in Node \ S : b.status[m] = a.status[m]
  PROVE  CalmBut(a, b, S)
<1>1. \A m \in Node : a.rep[m] \in Nat
  BY TreeParts DEF TreeOK
<1>2. \A m \in Node : ~(b.rep[m] > a.rep[m])
  BY <1>1
<1>3. \A t \in Task \ S : b.status[t] = a.status[t]
  BY DEF Node
<1> QED
  BY <1>2, <1>3 DEF CalmBut

\* A calm change after the statuses are set
LEMMA CalmAfter ==
  ASSUME NEW a, NEW b, NEW c, TreeOK(a), TreeOK(b), TreeOK(c), NEW S,
         CalmBut(a, b, S), Calm(b, c)
  PROVE  CalmBut(a, c, S)
<1>1. ASSUME NEW t \in Task \ S
      PROVE  /\ c.status[t] \in {a.status[t], "queued", "complete"}
             /\ a.status[t] \in Visible => c.status[t] = a.status[t]
  BY DEF Calm, CalmBut
<1>2. ASSUME NEW m \in Node, c.rep[m] > a.rep[m]
      PROVE  \A t \in TasksBelow(m) \ S : a.status[t] \notin Visible
  <2> SUFFICES ASSUME NEW t \in TasksBelow(m) \ S PROVE a.status[t] \notin Visible
    OBVIOUS
  <2>1. a.rep[m] \in Nat /\ b.rep[m] \in Nat /\ c.rep[m] \in Nat
    BY TreeParts DEF TreeOK
  <2>2. c.rep[m] > b.rep[m] \/ b.rep[m] > a.rep[m]
    BY <1>2, <2>1
  <2>3. t \in Task \ S
    BY DEF TasksBelow
  <2>4. CASE b.rep[m] > a.rep[m]
    BY <2>4 DEF CalmBut
  <2>5. CASE c.rep[m] > b.rep[m]
    <3>1. b.status[t] \notin Visible
      BY <2>5 DEF Calm
    <3> QED
      BY <2>3, <3>1 DEF CalmBut
  <2> QED
    BY <2>2, <2>4, <2>5
<1> QED
  BY <1>1, <1>2 DEF CalmBut

\* A calm change passes a visible task by, also after another change did.
LEMMA PassesTwice ==
  ASSUME NEW a, NEW b, NEW c, TreeOK(a), TreeOK(b), TreeOK(c), NEW t \in Task,
         PassesBy(a, b, t), Calm(b, c), b.status[t] \in Visible
  PROVE  PassesBy(a, c, t) /\ c.status[t] = b.status[t]
<1>1. ASSUME NEW m \in Node, c.rep[m] > a.rep[m] PROVE t \notin TasksBelow(m)
  <2>1. a.rep[m] \in Nat /\ b.rep[m] \in Nat /\ c.rep[m] \in Nat
    BY TreeParts DEF TreeOK
  <2>2. c.rep[m] > b.rep[m] \/ b.rep[m] > a.rep[m]
    BY <1>1, <2>1
  <2> QED
    BY <2>2 DEF Calm, PassesBy
<1> QED
  BY <1>1 DEF PassesBy, Calm

\* Node.set_node_status
LEMMA SetStatusIs ==
  ASSUME NEW tr, TreeOK(tr), Shown(tr), NEW n \in Node, NEW s \in AnyStatus
  PROVE  LET r == SetStatus(tr, n, s)
         IN  /\ TreeOK(r) /\ Shown(r) /\ CalmBut(tr, r, {n})
             /\ n \in Task /\ s \in Visible => PassesBy(tr, r, n) /\ r.status[n] = s
<1>1. \A m \in Node : ~(tr.rep[m] > tr.rep[m])
  <2>1. \A m \in Node : tr.rep[m] \in Nat
    BY TreeParts DEF TreeOK
  <2> QED
    BY <2>1
<1>2. CASE tr.status[n] = s
  <2>1. SetStatus(tr, n, s) = tr
    BY <1>2 DEF SetStatus
  <2>2. CalmBut(tr, tr, {n}) /\ PassesBy(tr, tr, n)
    BY <1>1 DEF CalmBut, PassesBy
  <2> QED
    BY <1>2, <2>1, <2>2
<1>3. CASE tr.status[n] # s
  <2>1. PICK q : q = SetOnly(tr, n, s)
    OBVIOUS
  <2>2. /\ q \in TreeState /\ q.rep = tr.rep
        /\ \A m \in Node : q.status[m] = IF m = n THEN s ELSE tr.status[m]
    <3>1. tr \in TreeState
      BY DEF TreeOK
    <3> QED
      BY <2>1, <3>1, SetOnlyIs
  <2>3. TreeOK(q)
    BY <2>2 DEF TreeOK
  <2>4. CalmBut(tr, q, {n}) /\ PassesBy(tr, q, n)
    BY <1>1, <2>2, CalmSet DEF PassesBy
  <2>5. ShownAround(q, n)
    <3> SUFFICES ASSUME NEW m \in Node \ {Root}, m # n, Parent(m) # n
                 PROVE  ShowsAbove(q, m)
      BY DEF ShownAround
    <3>1. Parent(m) \in Node /\ ShowsAbove(tr, m)
      BY UpIs DEF Shown
    <3>2. q.status[m] = tr.status[m] /\ q.status[Parent(m)] = tr.status[Parent(m)]
      BY <2>2, <3>1
    <3> QED
      BY <3>1, <3>2 DEF ShowsAbove
  <2>6. PICK r : r = Swim(q, n)
    OBVIOUS
  <2>7. TreeOK(r) /\ Shown(r) /\ Calm(q, r)
    BY <2>3, <2>5, <2>6, SwimIs
  <2>8. CalmBut(tr, r, {n})
    BY <2>3, <2>4, <2>7, CalmAfter
  <2>9. ASSUME n \in Task, s \in Visible PROVE PassesBy(tr, r, n) /\ r.status[n] = s
    <3>1. q.status[n] = s
      BY <2>2
    <3> QED
      BY <2>3, <2>4, <2>7, <2>9, <3>1, PassesTwice
  <2>10. SetStatus(tr, n, s) = r
    BY <1>3, <2>1, <2>6 DEF SetStatus
  <2> QED
    BY <2>7, <2>8, <2>9, <2>10
<1> QED
  BY <1>2, <1>3

\* Task.init, complete, abort and after_run
LEMMA ReportIs ==
  ASSUME NEW tr, TreeOK(tr), Shown(tr), NEW t \in Task, NEW s \in AnyStatus
  PROVE  LET r == Report(tr, t, s)
         IN  /\ TreeOK(r) /\ Shown(r) /\ CalmBut(tr, r, {t})
             /\ s \in Visible => PassesBy(tr, r, t)
<1>1. t \in Node
  BY DEF Node
<1>2. PICK q : q = SetStatus(tr, t, s)
  OBVIOUS
<1>3. /\ TreeOK(q) /\ Shown(q) /\ CalmBut(tr, q, {t})
      /\ s \in Visible => PassesBy(tr, q, t) /\ q.status[t] = s
  BY <1>1, <1>2, SetStatusIs
<1>4. ShownAround(q, t)
  BY <1>3 DEF Shown, ShownAround
<1>5. PICK r : r = Swim(q, t)
  OBVIOUS
<1>6. TreeOK(r) /\ Shown(r) /\ Calm(q, r)
  BY <1>1, <1>3, <1>4, <1>5, SwimIs
<1>7. CalmBut(tr, r, {t})
  BY <1>3, <1>6, CalmAfter
<1>8. s \in Visible => PassesBy(tr, r, t)
  BY <1>3, <1>6, PassesTwice
<1>9. Report(tr, t, s) = r
  BY <1>2, <1>5 DEF Report
<1> QED
  BY <1>6, <1>7, <1>8, <1>9

\* Node.requeue: what is below n is not visible then, and no repeat advances.
LEMMA RequeueKeeps ==
  ASSUME NEW tr, TreeOK(tr), Shown(tr), NEW n \in Node
  PROVE  LET r == RequeueTree(tr, n, TRUE)
         IN  TreeOK(r) /\ Shown(r) /\ \A m \in Node : ~(r.rep[m] > tr.rep[m])
<1>1. PICK reset \in BOOLEAN : reset = TRUE
  BY Zenon
<1>2. PICK r : r = RequeueTree(tr, n, reset)
  OBVIOUS
<1>3. /\ r \in TreeState
      /\ \A m \in Node : IF m \in Below(n) THEN r.status[m] \in {"queued", "complete"}
                         ELSE r.status[m] = tr.status[m]
      /\ \A m \in Node : r.rep[m] = IF m \in Below(n) /\ reset THEN 0 ELSE tr.rep[m]
  BY <1>2, RequeueIs DEF TreeOK
<1>4. ASSUME NEW m \in Node PROVE r.rep[m] <= RepeatEnd[m] /\ ~(r.rep[m] > tr.rep[m])
  <2>1. tr.rep[m] \in Nat /\ RepeatEnd[m] \in Nat /\ tr.rep[m] <= RepeatEnd[m]
    BY TreeParts, TreeAssumption DEF TreeOK
  <2>2. r.rep[m] = 0 \/ r.rep[m] = tr.rep[m]
    BY <1>3
  <2> QED
    BY <2>1, <2>2
<1>5. TreeOK(r)
  BY <1>3, <1>4 DEF TreeOK
<1>6. Shown(r)
  <2> SUFFICES ASSUME NEW m \in Node \ {Root} PROVE ShowsAbove(r, m)
    BY DEF Shown
  <2>1. CASE m \in Below(n)
    BY <1>3, <2>1 DEF ShowsAbove, Visible, InFlight
  <2>2. CASE m \notin Below(n)
    <3>1. Parent(m) \in Node /\ Parent(m) \notin Below(n)
      BY <2>2, BelowIs, UpIs
    <3>2. ShowsAbove(tr, m)
      BY DEF Shown
    <3>3. r.status[m] = tr.status[m] /\ r.status[Parent(m)] = tr.status[Parent(m)]
      BY <1>3, <2>2, <3>1
    <3> QED
      BY <3>2, <3>3 DEF ShowsAbove
  <2> QED
    BY <2>1, <2>2
<1> QED
  BY <1>1, <1>2, <1>4, <1>5, <1>6, Zenon

\* The statuses below c all set to s
Sunk(tr, c, s) == [tr EXCEPT !.status = [n \in Node |-> IF n \in Below(c) THEN s ELSE @[n]]]

\* What sinks changes nothing else.
LEMMA SunkIs ==
  ASSUME NEW tr \in TreeState, NEW c \in Node, NEW s \in AnyStatus
  PROVE  /\ Sunk(tr, c, s) \in TreeState /\ Sunk(tr, c, s).rep = tr.rep
         /\ \A m \in Node : Sunk(tr, c, s).status[m]
                              = IF m \in Below(c) THEN s ELSE tr.status[m]
<1>1. PICK st, re, fr, on, ev :
        /\ st = tr.status /\ re = tr.rep /\ fr = tr.freed /\ on = tr.onTime /\ ev = tr.events
  OBVIOUS
<1>2. /\ st \in [Node -> AnyStatus] /\ re \in [Node -> Nat]
      /\ fr \in SUBSET Node /\ on \in SUBSET Timed /\ ev \in SUBSET Task
      /\ tr = [status |-> st, rep |-> re, freed |-> fr, onTime |-> on, events |-> ev]
  BY <1>1, TreeParts
<1> DEFINE sunk == [n \in Node |-> IF n \in Below(c) THEN s ELSE st[n]]
<1>3. Sunk(tr, c, s)
        = [status |-> sunk, rep |-> re, freed |-> fr, onTime |-> on, events |-> ev]
  BY <1>2 DEF Sunk
<1>4. sunk \in [Node -> AnyStatus]
  BY <1>2
<1>5. Sunk(tr, c, s) \in TreeState
  <2> HIDE DEF sunk
  <2> QED
    BY <1>2, <1>3, <1>4, TreeOf
<1>6. Sunk(tr, c, s).status = sunk /\ Sunk(tr, c, s).rep = re
  BY <1>3
<1> QED
  BY <1>1, <1>5, <1>6

\* A container forced with all that is below it
LEMMA ForceTreeIs ==
  ASSUME NEW tr, TreeOK(tr), Shown(tr), NEW c \in Node, NEW s \in AnyStatus
  PROVE  LET r == Swim(Sunk(tr, c, s), c)
         IN  TreeOK(r) /\ Shown(r) /\ CalmBut(tr, r, Below(c))
<1>1. PICK q : q = Sunk(tr, c, s)
  OBVIOUS
<1>2. /\ q \in TreeState /\ q.rep = tr.rep
      /\ \A m \in Node : q.status[m] = IF m \in Below(c) THEN s ELSE tr.status[m]
  <2>1. tr \in TreeState
    BY DEF TreeOK
  <2> QED
    BY <1>1, <2>1, SunkIs
<1>3. TreeOK(q)
  BY <1>2 DEF TreeOK
<1>4. CalmBut(tr, q, Below(c))
  BY <1>2, CalmSet
<1>5. ShownAround(q, c)
  <2> SUFFICES ASSUME NEW m \in Node \ {Root}, m # c PROVE ShowsAbove(q, m)
    BY DEF ShownAround
  <2>1. Parent(m) \in Node /\ (m \in Below(c) <=> Parent(m) \in Below(c))
    BY BelowIs, UpIs
  <2>2. CASE m \in Below(c)
    <3>1. q.status[m] = s /\ q.status[Parent(m)] = s
      BY <1>2, <2>1, <2>2
    <3>2. Rank(s) \in 1..6
      BY VisibleRank
    <3>3. Rank(s) >= Rank(s)
      BY <3>2
    <3> QED
      BY <3>1, <3>3 DEF ShowsAbove
  <2>3. CASE m \notin Below(c)
    <3>1. ShowsAbove(tr, m)
      BY DEF Shown
    <3>2. q.status[m] = tr.status[m] /\ q.status[Parent(m)] = tr.status[Parent(m)]
      BY <1>2, <2>1, <2>3
    <3> QED
      BY <3>1, <3>2 DEF ShowsAbove
  <2> QED
    BY <2>2, <2>3
<1>6. PICK r : r = Swim(q, c)
  OBVIOUS
<1>7. TreeOK(r) /\ Shown(r) /\ Calm(q, r)
  BY <1>3, <1>5, <1>6, SwimIs
<1>8. CalmBut(tr, r, Below(c))
  BY <1>3, <1>4, <1>7, CalmAfter
<1> QED
  BY <1>1, <1>6, <1>7, <1>8

\* Flags of triggers, time attributes and events: no status changes.
SameStatuses(tr, next) == next \in TreeState /\ next.status = tr.status /\ next.rep = tr.rep

\* Setting the flags, the events or both kinds of flags
LEMMA FlagsKeep ==
  ASSUME NEW tr, TreeOK(tr), NEW fr, fr \in SUBSET Node, NEW on, on \in SUBSET Timed,
         NEW ev, ev \in SUBSET Task
  PROVE  /\ SameStatuses(tr, [tr EXCEPT !.onTime = on])
         /\ SameStatuses(tr, [tr EXCEPT !.events = ev])
         /\ SameStatuses(tr, [tr EXCEPT !.freed = fr, !.onTime = on])
<1>1. PICK st, re, f0, o0, e0 :
        /\ st = tr.status /\ re = tr.rep /\ f0 = tr.freed /\ o0 = tr.onTime /\ e0 = tr.events
  OBVIOUS
<1>2. /\ st \in [Node -> AnyStatus] /\ re \in [Node -> Nat]
      /\ f0 \in SUBSET Node /\ o0 \in SUBSET Timed /\ e0 \in SUBSET Task
      /\ tr = [status |-> st, rep |-> re, freed |-> f0, onTime |-> o0, events |-> e0]
  BY <1>1, TreeParts DEF TreeOK
<1>3. ASSUME NEW a \in SUBSET Node, NEW b \in SUBSET Timed, NEW c \in SUBSET Task
      PROVE  SameStatuses(tr, [status |-> st, rep |-> re, freed |-> a, onTime |-> b, events |-> c])
  <2>1. [status |-> st, rep |-> re, freed |-> a, onTime |-> b, events |-> c] \in TreeState
    BY <1>2, <1>3, TreeOf
  <2> QED
    BY <1>1, <2>1 DEF SameStatuses
<1>4. tr = [status |-> st, rep |-> re, freed |-> f0, onTime |-> o0, events |-> e0]
  BY <1>2
<1>5. [tr EXCEPT !.onTime = on]
        = [status |-> st, rep |-> re, freed |-> f0, onTime |-> on, events |-> e0]
  BY <1>4
<1>6. [tr EXCEPT !.events = ev]
        = [status |-> st, rep |-> re, freed |-> f0, onTime |-> o0, events |-> ev]
  BY <1>4
<1>7. [tr EXCEPT !.freed = fr, !.onTime = on]
        = [status |-> st, rep |-> re, freed |-> fr, onTime |-> on, events |-> e0]
  <2>1. [tr EXCEPT !.freed = fr, !.onTime = on]
          = [x \in {"status", "rep", "freed", "onTime", "events"} |->
               IF x = "onTime" THEN on ELSE IF x = "freed" THEN fr ELSE tr[x]]
    BY <1>4, Zenon
  <2> QED
    BY <1>4, <2>1
<1> QED
  BY <1>2, <1>3, <1>5, <1>6, <1>7

\* Then all shows as before, and no repeat advances.
LEMMA SameShows ==
  ASSUME NEW tr, TreeOK(tr), Shown(tr), NEW next, SameStatuses(tr, next)
  PROVE  TreeOK(next) /\ Shown(next) /\ \A m \in Node : ~(next.rep[m] > tr.rep[m])
<1>1. \A m \in Node : tr.rep[m] \in Nat
  BY TreeParts DEF TreeOK
<1>2. \A m \in Node : ~(next.rep[m] > tr.rep[m])
  BY <1>1 DEF SameStatuses
<1>3. TreeOK(next)
  BY DEF TreeOK, SameStatuses
<1>4. Shown(next)
  BY DEF Shown, ShowsAbove, SameStatuses
<1> QED
  BY <1>2, <1>3, <1>4

-----------------------------------------------------------------------------
(* The stack of the scan *)

\* All nodes of the stack have none of h above them.
ClearNodes(h, nodes) == \A n \in Range(nodes) : Range(Up[n]) \cap h \subseteq {n}
ClearStack(h, stack) == \A i \in DOMAIN stack : stack[i] # <<>> /\ ClearNodes(h, stack[i])

\* An iterator is put on a clear stack.
LEMMA IteratorsClear ==
  ASSUME NEW h, NEW nodes \in Seq(Node), NEW rest \in Seq(Seq(Node)), ClearStack(h, rest),
         ClearNodes(h, nodes)
  PROVE  Iterators(nodes, rest) \in Seq(Seq(Node)) /\ ClearStack(h, Iterators(nodes, rest))
<1>1. CASE nodes = <<>>
  BY <1>1 DEF Iterators
<1>2. CASE nodes # <<>>
  <2>1. PICK s : s = <<nodes>> \o rest
    BY Zenon
  <2>2. /\ s \in Seq(Seq(Node)) /\ Len(s) = Len(rest) + 1 /\ s[1] = nodes
        /\ \A i \in 1..Len(s) : i # 1 => s[i] = rest[i - 1]
    BY <2>1
  <2>3. ClearStack(h, s)
    <3> SUFFICES ASSUME NEW i \in 1..Len(s)
                 PROVE  s[i] # <<>> /\ ClearNodes(h, s[i])
      BY <2>2 DEF ClearStack
    <3>1. CASE i = 1
      BY <1>2, <2>2, <3>1
    <3>2. CASE i # 1
      <4>1. s[i] = rest[i - 1]
        BY <2>2, <3>2
      <4>2. DOMAIN rest = 1..Len(rest) /\ Len(rest) \in Nat
        OBVIOUS
      <4>3. i - 1 \in DOMAIN rest
        BY <2>2, <3>2, <4>2
      <4> QED
        BY <4>1, <4>3 DEF ClearStack
    <3> QED
      BY <3>1, <3>2
  <2> QED
    BY <1>2, <2>1, <2>2, <2>3 DEF Iterators
<1> QED
  BY <1>1, <1>2

\* What is left of a clear stack once its first node is taken
LEMMA RestClear ==
  ASSUME NEW h, NEW stack \in Seq(Seq(Node)), ClearStack(h, stack), stack # <<>>
  PROVE  LET rest == Iterators(Tail(stack[1]), Tail(stack))
         IN  /\ stack[1][1] \in Node /\ Range(Up[stack[1][1]]) \cap h \subseteq {stack[1][1]}
             /\ rest \in Seq(Seq(Node)) /\ ClearStack(h, rest)
<1>1. 1 \in DOMAIN stack /\ Len(stack) \in Nat
  OBVIOUS
<1>2. PICK top \in Seq(Node) : top = stack[1]
  BY <1>1
<1>3. top # <<>> /\ ClearNodes(h, top)
  BY <1>1, <1>2 DEF ClearStack
<1>4. 1 \in DOMAIN top /\ top[1] \in Node /\ top[1] \in Range(top)
  BY <1>3 DEF Range
<1>5. PICK nodes \in Seq(Node) :
        /\ nodes = Tail(top) /\ Len(nodes) = Len(top) - 1
        /\ \A i \in 1..Len(nodes) : nodes[i] = top[i + 1]
  BY <1>3, HeadTailProperties, Zenon
<1>6. ClearNodes(h, nodes)
  <2>1. ASSUME NEW i \in 1..Len(nodes) PROVE nodes[i] \in Range(top)
    <3>1. i + 1 \in DOMAIN top /\ nodes[i] = top[i + 1]
      BY <1>5
    <3> QED
      BY <3>1 DEF Range
  <2>2. DOMAIN nodes = 1..Len(nodes)
    OBVIOUS
  <2> QED
    <3>1. \A n \in Range(nodes) : n \in Range(top)
      BY <2>1, <2>2 DEF Range
    <3> QED
      BY <1>3, <3>1 DEF ClearNodes
<1>7. PICK below \in Seq(Seq(Node)) :
        /\ below = Tail(stack) /\ Len(below) = Len(stack) - 1
        /\ \A i \in 1..Len(below) : below[i] = stack[i + 1]
  BY HeadTailProperties, Zenon
<1>8. ClearStack(h, below)
  <2>1. DOMAIN below = 1..Len(below)
    OBVIOUS
  <2>2. ASSUME NEW i \in 1..Len(below)
        PROVE  below[i] # <<>> /\ ClearNodes(h, below[i])
    <3>1. i + 1 \in DOMAIN stack /\ below[i] = stack[i + 1]
      BY <1>7
    <3> QED
      BY <3>1 DEF ClearStack
  <2> QED
    BY <2>1, <2>2 DEF ClearStack
<1>9. Iterators(nodes, below) \in Seq(Seq(Node)) /\ ClearStack(h, Iterators(nodes, below))
  BY <1>6, <1>8, IteratorsClear
<1> QED
  BY <1>2, <1>3, <1>4, <1>5, <1>7, <1>9, Zenon DEF ClearNodes

\* The children of a node that is clear and not held are clear.
LEMMA ChildrenClear ==
  ASSUME NEW h, NEW n \in Container, Range(Up[n]) \cap h \subseteq {n}, n \notin h
  PROVE  Children[n] \in Seq(Node) /\ ClearNodes(h, Children[n])
<1>1. Children[n] \in Seq(Node)
  BY TreeAssumption
<1>2. ASSUME NEW m \in Range(Children[n]) PROVE Range(Up[m]) \cap h \subseteq {m}
  <2>1. m \in Node
    BY <1>1 DEF Range
  <2>2. m # Root /\ Parent(m) = n
    BY <2>1, ParentIs
  <2>3. Range(Up[m]) = {m} \cup Range(Up[n])
    BY <2>1, <2>2, AboveIs
  <2> QED
    BY <2>3
<1> QED
  BY <1>1, <1>2 DEF ClearNodes

-----------------------------------------------------------------------------
(* The invariant *)

\* The three parts of the invariant
LEMMA InvParts ==
  TreeInv <=> /\ TreeOK(tree) /\ Shown(tree) /\ ClearStack(held, scan)
              /\ suspended \subseteq Node /\ now \subseteq Timed
              /\ begun \in BOOLEAN /\ running \in BOOLEAN
              /\ scan \in Seq(Seq(Node)) /\ held \subseteq suspended
<1> QED
  BY DEF TreeInv, TypeOK, EdgesVisible, ScanIsClear, Clear, TreeOK, Shown, ClearStack, ClearNodes

\* And after a step
LEMMA InvPartsNext ==
  TreeInv' <=> /\ TreeOK(tree') /\ Shown(tree') /\ ClearStack(held', scan')
               /\ suspended' \subseteq Node /\ now' \subseteq Timed
               /\ begun' \in BOOLEAN /\ running' \in BOOLEAN
               /\ scan' \in Seq(Seq(Node)) /\ held' \subseteq suspended'
<1> QED
  BY DEF TreeInv, TypeOK, EdgesVisible, ScanIsClear, Clear, TreeOK, Shown, ClearStack, ClearNodes

\* The flow is loaded with all nodes unknown.
LEMMA InitTreeInv == Init => TreeInv
<1> SUFFICES ASSUME Init PROVE TreeInv
  OBVIOUS
<1>1. PICK st, re : st = [n \in Node |-> "unknown"] /\ re = [n \in Node |-> 0]
  BY Zenon
<1>2. st \in [Node -> AnyStatus] /\ re \in [Node -> Nat]
  BY <1>1 DEF AnyStatus
<1>3. tree = [status |-> st, rep |-> re, freed |-> {}, onTime |-> {}, events |-> {}]
  BY <1>1 DEF Init
<1>4. tree \in TreeState
  BY <1>2, <1>3, TreeOf
<1>5. TreeOK(tree)
  <2>1. \A n \in Node : tree.rep[n] = 0 /\ RepeatEnd[n] \in Nat
    BY <1>1, <1>3, TreeAssumption
  <2>2. \A n \in Node : tree.rep[n] <= RepeatEnd[n]
    BY <2>1
  <2> QED
    BY <1>4, <2>2 DEF TreeOK
<1>6. Shown(tree)
  BY <1>1, <1>3 DEF Shown, ShowsAbove, Visible, InFlight
<1>7. ClearStack(held, scan) /\ scan \in Seq(Seq(Node))
  BY DEF Init, ClearStack
<1> QED
  BY <1>5, <1>6, <1>7, InvParts, Zenon DEF Init

\* A handler that changes only the tree
LEMMA ChangesKeep ==
  ASSUME TreeInv, NEW tr, TreeOK(tr), Shown(tr), Changes(tr)
  PROVE  TreeInv'
<1> QED
  BY InvParts, InvPartsNext DEF Changes

\* Scheduler._flow_work begins with the flow itself.
LEMMA ScanBeginKeeps ==
  ASSUME TreeInv, ScanBegin
  PROVE  TreeInv'
<1>1. PICK minute \in SUBSET Timed : now' = minute /\ tree' = [tree EXCEPT !.onTime = @ \cup minute]
  BY Zenon DEF ScanBegin
<1>2. TreeOK(tree) /\ Shown(tree)
  BY InvParts
<1>3. PICK on : on = tree.onTime \cup minute
  BY Zenon
<1>4. on \in SUBSET Timed
  BY <1>2, <1>3, TreeParts DEF TreeOK
<1>5. tree' = [tree EXCEPT !.onTime = on]
  BY <1>1, <1>3
<1>6. SameStatuses(tree, tree')
  BY <1>2, <1>4, <1>5, FlagsKeep, Zenon
<1>7. TreeOK(tree') /\ Shown(tree')
  BY <1>2, <1>6, SameShows
<1>8. Root \in Node
  BY TreeAssumption DEF Node
<1>9. PICK h : h = held'
  OBVIOUS
<1>10. Range(Up[Root]) = {Root}
  BY <1>8, AboveIs
<1>11. PICK stack : stack = <<<<Root>>>>
  BY Zenon
<1>12. ClearStack(h, stack) /\ stack \in Seq(Seq(Node))
  <2>1. DOMAIN stack = {1} /\ stack[1] = <<Root>> /\ stack \in Seq(Seq(Node))
    BY <1>8, <1>11
  <2>2. Range(<<Root>>) = {Root}
    BY DEF Range
  <2>3. <<Root>> # <<>>
    OBVIOUS
  <2> QED
    BY <1>10, <2>1, <2>2, <2>3, Zenon DEF ClearStack, ClearNodes
<1>13. scan' = stack /\ held' = suspended
  BY <1>11 DEF ScanBegin
<1> QED
  BY <1>1, <1>7, <1>9, <1>12, <1>13, InvParts, InvPartsNext DEF ScanBegin

\* One visit of the scan sets the status of no node but the visited one, and
\* only when that is not suspended.
LEMMA ScanStepIs ==
  ASSUME TreeInv, ScanStep, NEW n, n = scan[1][1]
  PROVE  /\ TreeInv' /\ n \in Node /\ Range(Up[n]) \cap held \subseteq {n}
         /\ CalmBut(tree, tree', {n})
         /\ tree' = tree \/ n \notin suspended
<1>1. PICK rest : rest = Iterators(Tail(scan[1]), Tail(scan))
  OBVIOUS
<1>2. /\ Visit(n, rest) /\ scan # <<>>
      /\ suspended' = suspended /\ now' = now /\ begun' = begun /\ running' = running /\ held' = held
  BY <1>1 DEF ScanStep
<1>3. TreeOK(tree) /\ Shown(tree) /\ ClearStack(held, scan) /\ scan \in Seq(Seq(Node))
  BY InvParts
<1>4. /\ n \in Node /\ Range(Up[n]) \cap held \subseteq {n}
      /\ rest \in Seq(Seq(Node)) /\ ClearStack(held, rest)
  BY <1>1, <1>2, <1>3, RestClear
<1>5. <<>> \in Seq(Seq(Node)) /\ ClearStack(held, <<>>)
  BY DEF ClearStack
<1>6. CalmBut(tree, tree, {n})
  BY <1>3, CalmSet
<1>7. /\ TreeOK(tree') /\ Shown(tree') /\ CalmBut(tree, tree', {n})
      /\ tree' = tree \/ n \notin suspended
      /\ scan' \in Seq(Seq(Node)) /\ ClearStack(held, scan')
  <2>1. CASE Reached(n) /\ tree' = SetStatus(tree, n, "complete") /\ scan' = rest
    <3>1. PICK s \in AnyStatus : s = "complete"
      BY DEF AnyStatus
    <3>2. tree' = SetStatus(tree, n, s)
      BY <2>1, <3>1, Zenon
    <3>3. TreeOK(tree') /\ Shown(tree') /\ CalmBut(tree, tree', {n})
      BY <1>3, <1>4, <3>2, SetStatusIs, Zenon
    <3> QED
      BY <1>4, <2>1, <3>3, Zenon DEF Reached
  <2>2. CASE tree' = tree /\ scan' = <<>>
    BY <1>3, <1>5, <1>6, <2>2
  <2>3. CASE Reached(n) /\ n \in Container /\ tree' = tree /\ scan' = Iterators(Children[n], rest)
    <3>1. n \notin held
      BY <2>3, InvParts DEF Reached
    <3>2. PICK h : h = held
      OBVIOUS
    <3>3. Children[n] \in Seq(Node) /\ ClearNodes(h, Children[n])
      <4>1. n \in Container /\ Range(Up[n]) \cap h \subseteq {n} /\ n \notin h
        BY <1>4, <2>3, <3>1, <3>2
      <4> QED
        BY <4>1, ChildrenClear
    <3>4. PICK nodes \in Seq(Node) : nodes = Children[n]
      BY <3>3
    <3>5. /\ Iterators(nodes, rest) \in Seq(Seq(Node))
          /\ ClearStack(h, Iterators(nodes, rest))
      BY <1>4, <3>2, <3>3, <3>4, IteratorsClear, Zenon
    <3> QED
      BY <1>3, <1>6, <2>3, <3>2, <3>4, <3>5, Zenon
  <2>4. CASE /\ Reached(n) /\ n \in Task /\ scan' = rest
             /\ \E s \in Outcome(n) : tree' = Report(tree, n, s)
    <3>1. PICK s \in AnyStatus : tree' = Report(tree, n, s)
      BY <2>4 DEF Outcome, AnyStatus
    <3>2. TreeOK(tree') /\ Shown(tree') /\ CalmBut(tree, tree', {n})
      BY <1>3, <2>4, <3>1, ReportIs, Zenon
    <3> QED
      BY <1>4, <2>4, <3>2 DEF Reached
  <2>5. CASE tree' = tree /\ scan' = rest
    BY <1>3, <1>4, <1>6, <2>5
  <2> QED
    BY <1>2, <2>1, <2>2, <2>3, <2>4, <2>5, Zenon DEF Visit
<1>8. TreeInv'
  BY <1>2, <1>7, InvParts, InvPartsNext
<1> QED
  BY <1>4, <1>7, <1>8

\* Commands and reports that change the tree: the tree they leave is in order,
\* and what they do to repeats is a calm change but for the nodes they set.
LEMMA ReportKeeps ==
  ASSUME TreeInv, NEW t \in Task, NEW s \in AnyStatus, Changes(Report(tree, t, s))
  PROVE  /\ TreeInv' /\ CalmBut(tree, tree', {t})
         /\ s \in Visible => PassesBy(tree, tree', t)
<1>1. PICK r : r = Report(tree, t, s)
  OBVIOUS
<1>2. TreeOK(tree) /\ Shown(tree)
  BY InvParts
<1>3. /\ TreeOK(r) /\ Shown(r) /\ CalmBut(tree, r, {t})
      /\ s \in Visible => PassesBy(tree, r, t)
  BY <1>1, <1>2, ReportIs
<1>4. tree' = r /\ Changes(r)
  BY <1>1 DEF Changes
<1>5. TreeInv'
  BY <1>3, <1>4, ChangesKeep
<1> QED
  BY <1>3, <1>4, <1>5

\* No repeat advances.
NoAdvance(tr, next) == \A m \in Node : ~(next.rep[m] > tr.rep[m])

\* A handler that changes flags only
LEMMA QuietKeeps ==
  ASSUME TreeInv, NEW next, SameStatuses(tree, next), Changes(next)
  PROVE  TreeInv' /\ NoAdvance(tree, tree')
<1>1. TreeOK(tree) /\ Shown(tree)
  BY InvParts
<1>2. TreeOK(next) /\ Shown(next) /\ NoAdvance(tree, next)
  BY <1>1, SameShows DEF NoAdvance
<1>3. TreeInv'
  BY <1>2, ChangesKeep
<1> QED
  BY <1>2, <1>3 DEF Changes

\* Scheduler.run_command_event and Node.free_dependencies
LEMMA FlagActionsKeep ==
  ASSUME TreeInv,
         \/ \E t \in Task : ChildEvent(t)
         \/ \E n \in Node, type \in {"all", "time", "trigger"} : FreeDep(n, type)
  PROVE  TreeInv' /\ NoAdvance(tree, tree')
<1>1. TreeOK(tree)
  BY InvParts
<1>2. tree.freed \in SUBSET Node /\ tree.onTime \in SUBSET Timed /\ tree.events \in SUBSET Task
  BY <1>1, TreeParts DEF TreeOK
<1>3. CASE \E t \in Task : ChildEvent(t)
  <2>1. PICK t \in Task : Changes([tree EXCEPT !.events = @ \cup {t}])
    BY <1>3, Zenon DEF ChildEvent
  <2>2. PICK ev : ev = tree.events \cup {t}
    BY Zenon
  <2>3. ev \in SUBSET Task /\ Changes([tree EXCEPT !.events = ev])
    BY <1>2, <2>1, <2>2
  <2>4. PICK next : next = [tree EXCEPT !.events = ev]
    BY Zenon
  <2>5. SameStatuses(tree, next) /\ Changes(next)
    BY <1>1, <1>2, <2>3, <2>4, FlagsKeep, Zenon
  <2> QED
    BY <2>5, QuietKeeps
<1>4. CASE \E n \in Node, type \in {"all", "time", "trigger"} : FreeDep(n, type)
  <2>1. PICK n \in Node, type \in {"all", "time", "trigger"} : FreeDep(n, type)
    BY <1>4
  <2>2. PICK fr, on :
          /\ fr = IF type = "time" THEN tree.freed ELSE tree.freed \cup ({n} \cap Triggered)
          /\ on = IF type = "trigger" THEN tree.onTime ELSE tree.onTime \cup ({n} \cap Timed)
    BY Zenon
  <2>3. fr \in SUBSET Node /\ on \in SUBSET Timed
    BY <1>2, <2>2
  <2>4. Changes([tree EXCEPT !.freed = fr, !.onTime = on])
    BY <2>1, <2>2, Zenon DEF FreeDep
  <2>5. PICK next : next = [tree EXCEPT !.freed = fr, !.onTime = on]
    OBVIOUS
  <2>6. SameStatuses(tree, next) /\ Changes(next)
    BY <1>1, <1>2, <2>3, <2>4, <2>5, FlagsKeep, Zenon
  <2> QED
    BY <2>6, QuietKeeps
<1> QED
  BY <1>3, <1>4

\* Flow.begin and Scheduler.run_command_requeue
LEMMA RequeueActionsKeep ==
  ASSUME TreeInv, (\E force \in BOOLEAN : Begin(force)) \/ (\E n \in Node : Requeue(n))
  PROVE  TreeInv' /\ NoAdvance(tree, tree')
<1>1. TreeOK(tree) /\ Shown(tree)
  BY InvParts
<1>2. PICK n \in Node :
        /\ tree' = RequeueTree(tree, n, TRUE)
        /\ begun' \in BOOLEAN /\ UNCHANGED <<suspended, now, running, scan, held>>
  <2>1. Root \in Node
    BY TreeAssumption DEF Node
  <2>2. begun \in BOOLEAN
    BY InvParts
  <2> QED
    BY <2>1, <2>2, Zenon DEF Begin, Requeue, Changes
<1>3. PICK r : r = RequeueTree(tree, n, TRUE)
  BY Zenon
<1>4. TreeOK(r) /\ Shown(r) /\ NoAdvance(tree, r)
  BY <1>1, <1>3, RequeueKeeps, Zenon DEF NoAdvance
<1> QED
  BY <1>2, <1>3, <1>4, InvParts, InvPartsNext, Zenon

\* Scheduler._force_path
LEMMA ForceNodeKeeps ==
  ASSUME TreeInv, NEW n \in Node, NEW s \in AnyStatus, ForceNode(n, s)
  PROVE  TreeInv' /\ CalmBut(tree, tree', {n})
<1>1. PICK r : r = SetStatus(tree, n, s)
  OBVIOUS
<1>2. TreeOK(tree) /\ Shown(tree)
  BY InvParts
<1>3. TreeOK(r) /\ Shown(r) /\ CalmBut(tree, r, {n})
  BY <1>1, <1>2, SetStatusIs
<1>4. tree' = r /\ Changes(r)
  BY <1>1 DEF Changes, ForceNode
<1>5. TreeInv'
  BY <1>3, <1>4, ChangesKeep
<1> QED
  BY <1>3, <1>4, <1>5

\* Scheduler._force_path, recursive
LEMMA ForceTreeKeeps ==
  ASSUME TreeInv, NEW c \in Container, NEW s \in AnyStatus, ForceTree(c, s)
  PROVE  TreeInv' /\ CalmBut(tree, tree', Below(c))
<1>1. PICK r : r = Swim(Sunk(tree, c, s), c)
  OBVIOUS
<1>2. TreeOK(tree) /\ Shown(tree) /\ c \in Node
  BY InvParts DEF Node
<1>3. TreeOK(r) /\ Shown(r) /\ CalmBut(tree, r, Below(c))
  BY <1>1, <1>2, ForceTreeIs
<1>4. tree' = r /\ Changes(r)
  BY <1>1 DEF Changes, ForceTree, Sunk
<1>5. TreeInv'
  BY <1>3, <1>4, ChangesKeep
<1> QED
  BY <1>3, <1>4, <1>5

\* The steps that leave the tree alone
LEMMA RestKeeps ==
  ASSUME TreeInv,
         ScanDropped \/ Toggle \/ (\E n \in Node : Suspend(n) \/ Resume(n)) \/ UNCHANGED vars
  PROVE  TreeInv' /\ tree' = tree
<1>1. /\ TreeOK(tree) /\ Shown(tree) /\ ClearStack(held, scan)
      /\ suspended \subseteq Node /\ now \subseteq Timed
      /\ begun \in BOOLEAN /\ running \in BOOLEAN
      /\ scan \in Seq(Seq(Node)) /\ held \subseteq suspended
  BY InvParts
<1>2. CASE ScanDropped
  <2>1. <<>> \in Seq(Seq(Node)) /\ ClearStack(held, <<>>)
    BY DEF ClearStack
  <2> QED
    BY <1>1, <1>2, <2>1, InvPartsNext DEF ScanDropped
<1>3. CASE Toggle
  BY <1>1, <1>3, InvPartsNext DEF Toggle
<1>4. CASE \E n \in Node : Suspend(n)
  BY <1>1, <1>4, InvPartsNext DEF Suspend
<1>5. CASE \E n \in Node : Resume(n)
  <2>1. PICK n \in Node : Resume(n)
    BY <1>5
  <2>2. held' \subseteq held /\ scan' = scan /\ tree' = tree
    BY <2>1 DEF Resume
  <2>3. ClearStack(held', scan')
    BY <1>1, <2>2 DEF ClearStack, ClearNodes
  <2>4. /\ suspended' \subseteq Node /\ held' \subseteq suspended'
        /\ now' = now /\ begun' = begun /\ running' = running
    BY <1>1, <2>1 DEF Resume
  <2> QED
    BY <1>1, <2>2, <2>3, <2>4, InvPartsNext
<1>6. CASE UNCHANGED vars
  BY <1>1, <1>6, InvPartsNext DEF vars
<1> QED
  BY <1>2, <1>3, <1>4, <1>5, <1>6

-----------------------------------------------------------------------------
(* What a repeat that advances may discard *)

\* The handler sets the status of n itself.
Causes(n) ==
  \/ ChildComplete(n)
  \/ ScanStep /\ scan[1][1] = n
  \/ \E s \in Range(Status) : ForceNode(n, s)

\* When no repeat advances none throws a run away.
LEMMA StillDiscards ==
  ASSUME NoAdvance(tree, tree')
  PROVE  DiscardsNoRun
<1> QED
  BY DEF NoAdvance, DiscardsNoRun

\* A calm change but for n, that passes n by or sets it, loses at most n.
LEMMA OneDiscards ==
  ASSUME NEW n \in Node, CalmBut(tree, tree', {n}),
         n \in Task => PassesBy(tree, tree', n) \/ Causes(n)
  PROVE  DiscardsNoRun
<1> SUFFICES ASSUME NEW m \in Node, tree'.rep[m] > tree.rep[m],
                    NEW lost, lost = {t \in TasksBelow(m) : tree.status[t] \in Visible},
                    lost # {}
             PROVE  \E t \in Task : lost = {t} /\ Causes(t)
  BY Zenon DEF DiscardsNoRun, Causes
<1>1. \A t \in TasksBelow(m) : t # n => tree.status[t] \notin Visible
  BY DEF CalmBut
<1>2. lost = {n} /\ n \in TasksBelow(m)
  BY <1>1
<1>3. n \in Task /\ ~PassesBy(tree, tree', n)
  BY <1>2 DEF PassesBy, TasksBelow
<1> QED
  BY <1>2, <1>3

\* A forced container loses at most what is below it.
LEMMA TreeDiscards ==
  ASSUME NEW c \in Container, NEW s \in Range(Status), ForceTree(c, s),
         CalmBut(tree, tree', Below(c))
  PROVE  DiscardsNoRun
<1> SUFFICES ASSUME NEW m \in Node, tree'.rep[m] > tree.rep[m],
                    NEW lost, lost = {t \in TasksBelow(m) : tree.status[t] \in Visible}
             PROVE  lost \subseteq TasksBelow(c)
  BY Zenon DEF DiscardsNoRun
<1> QED
  BY DEF CalmBut, TasksBelow

-----------------------------------------------------------------------------
(* The theorems *)

\* Every step keeps the invariant and discards no run.
LEMMA NextTreeInv == TreeInv /\ [Next]_vars => TreeInv' /\ (Next => DiscardsNoRun)
<1> SUFFICES ASSUME TreeInv, [Next]_vars PROVE TreeInv' /\ (Next => DiscardsNoRun)
  OBVIOUS
<1> USE DEF Causes
<1>1. TreeOK(tree)
  BY InvParts
<1>2. NoAdvance(tree, tree)
  <2>1. \A m \in Node : tree.rep[m] \in Nat
    BY <1>1, TreeParts DEF TreeOK
  <2> QED
    BY <2>1 DEF NoAdvance
<1>3. CASE ScanBegin
  <2>1. TreeInv'
    BY <1>3, ScanBeginKeeps
  <2>2. tree'.rep = tree.rep
    BY <1>1, <1>3, TreeParts DEF ScanBegin, TreeOK
  <2> QED
    BY <1>2, <2>1, <2>2, StillDiscards DEF NoAdvance
<1>4. CASE ScanStep
  <2>1. PICK n : n = scan[1][1]
    OBVIOUS
  <2>2. TreeInv' /\ n \in Node /\ CalmBut(tree, tree', {n})
    BY <1>4, <2>1, ScanStepIs
  <2>3. DiscardsNoRun
    BY <1>4, <2>1, <2>2, OneDiscards
  <2> QED
    BY <2>2, <2>3
<1>5. CASE \/ ScanDropped \/ Toggle \/ (\E n \in Node : Suspend(n) \/ Resume(n))
           \/ UNCHANGED vars
  <2>1. TreeInv' /\ tree' = tree
    BY <1>5, RestKeeps
  <2> QED
    BY <1>2, <2>1, StillDiscards
<1>6. ASSUME NEW t \in Task, NEW s \in AnyStatus, s \in Visible, Changes(Report(tree, t, s))
      PROVE  TreeInv' /\ DiscardsNoRun
  <2>1. TreeInv' /\ CalmBut(tree, tree', {t}) /\ PassesBy(tree, tree', t)
    BY <1>6, ReportKeeps
  <2>2. t \in Node
    BY DEF Node
  <2> QED
    BY <2>1, <2>2, OneDiscards, Zenon
<1>7. ASSUME NEW t \in Task,
             ChildInit(t) \/ ChildAbort(t) \/ \E force \in BOOLEAN : RunCommand(t, force)
      PROVE  TreeInv' /\ DiscardsNoRun
  <2>1. PICK s \in AnyStatus : s \in Visible /\ Changes(Report(tree, t, s))
    BY <1>7 DEF ChildInit, ChildAbort, RunCommand, Outcome, AnyStatus, Visible, InFlight
  <2> QED
    BY <1>6, <2>1
<1>8. ASSUME NEW t \in Task, ChildComplete(t) PROVE TreeInv' /\ DiscardsNoRun
  <2>1. PICK s \in AnyStatus : Changes(Report(tree, t, s))
    BY <1>8 DEF ChildComplete, AnyStatus
  <2>2. TreeInv' /\ CalmBut(tree, tree', {t})
    BY <2>1, ReportKeeps
  <2>3. t \in Node
    BY DEF Node
  <2> QED
    BY <1>8, <2>2, <2>3, OneDiscards
<1>9. CASE \/ \E t \in Task : ChildEvent(t)
           \/ \E n \in Node, type \in {"all", "time", "trigger"} : FreeDep(n, type)
  BY <1>9, FlagActionsKeep, StillDiscards
<1>10. CASE (\E force \in BOOLEAN : Begin(force)) \/ (\E n \in Node : Requeue(n))
  BY <1>10, RequeueActionsKeep, StillDiscards
<1>11. ASSUME NEW n \in Node, NEW s \in Range(Status), ForceNode(n, s)
       PROVE  TreeInv' /\ DiscardsNoRun
  <2>1. TreeInv' /\ CalmBut(tree, tree', {n})
    BY <1>11, ForceNodeKeeps, RankOf
  <2> QED
    BY <1>11, <2>1, OneDiscards
<1>12. ASSUME NEW c \in Container, NEW s \in Range(Status), ForceTree(c, s)
       PROVE  TreeInv' /\ DiscardsNoRun
  <2>1. TreeInv' /\ CalmBut(tree, tree', Below(c))
    BY <1>12, ForceTreeKeeps, RankOf
  <2> QED
    BY <1>12, <2>1, TreeDiscards
<1> QED
  BY <1>3, <1>4, <1>5, <1>7, <1>8, <1>9, <1>10, <1>11, <1>12, Zenon DEF Next

\* The invariant of the tree: every visible node shows in its parent, and the
\* scan has only nodes ahead that have no held node above them.
THEOREM TreeInvariance == Spec => []TreeInv
<1>1. TreeInv /\ [Next]_vars => TreeInv'
  BY NextTreeInv
<1> QED
  BY <1>1, InitTreeInv, PTL DEF Spec

\* Work in progress and failures are visible from above whatever requeues,
\* repeats and forces write (Node.swim_status_change).
THEOREM WorkIsVisible == Spec => []RunningIsVisible
<1>1. TreeInv => RunningIsVisible
  <2> SUFFICES ASSUME TreeInv, NEW t \in Task, tree.status[t] \in Visible
               PROVE  \A n \in Range(Up[t]) : Rank(tree.status[n]) >= Rank(tree.status[t])
    BY DEF RunningIsVisible
  <2>1. TreeOK(tree) /\ Shown(tree) /\ t \in Node
    BY InvParts DEF Node
  <2>2. PICK path : path = Up[t]
    OBVIOUS
  <2>3. path \in Seq(Node) /\ Len(path) \in Nat
    BY <2>1, <2>2, UpIs
  <2> SUFFICES ASSUME NEW k \in 1..Len(path)
               PROVE  Rank(tree.status[path[k]]) >= Rank(tree.status[t])
    <3>1. Range(path) = {path[k] : k \in 1..Len(path)}
      BY <2>3 DEF Range
    <3> QED
      BY <2>2, <3>1
  <2>4. ASSUME NEW i \in 1..Len(path), i < k PROVE ShowsAbove(tree, path[i])
    <3>1. i \in 1..Len(Up[t]) /\ i < Len(Up[t])
      BY <2>2, <2>3, <2>4
    <3>2. path[i] # Root /\ path[i] \in Node
      BY <2>1, <2>2, <2>3, <3>1, PathNext
    <3> QED
      BY <2>1, <3>2 DEF Shown
  <2>5. k \in 1..Len(Up[t]) /\ \A i \in 1..Len(Up[t]) : i < k => ShowsAbove(tree, Up[t][i])
    BY <2>2, <2>4
  <2>6. tree \in TreeState
    BY <2>1 DEF TreeOK
  <2>7. Rank(tree.status[Up[t][k]]) >= Rank(tree.status[t])
    BY <2>1, <2>5, <2>6, VisibleClimbs
  <2> QED
    BY <2>2, <2>7
<1> QED
  BY <1>1, TreeInvariance, PTL

\* A suspension holds from the next scan on (Node.check_dependencies).
THEOREM SuspensionHolds == Spec => SuspendHoldsFromNextScan
<1>1. TreeInv /\ [Next]_vars => [HoldsFromNextScan]_vars
  <2> SUFFICES ASSUME TreeInv, NEW t \in Task, ScanRuns(t)
               PROVE  held \cap Range(Up[t]) = {}
    BY DEF HoldsFromNextScan
  <2>1. ScanStep /\ tree.status[t] = "queued" /\ tree'.status[t] \in Visible
    BY DEF ScanRuns, Visible
  <2>2. PICK n : n = scan[1][1]
    OBVIOUS
  <2>3. /\ Range(Up[n]) \cap held \subseteq {n} /\ CalmBut(tree, tree', {n})
        /\ tree' = tree \/ n \notin suspended
    BY <2>1, <2>2, ScanStepIs
  <2>4. t = n
    BY <2>1, <2>3 DEF CalmBut, Visible, InFlight
  <2>5. tree' # tree
    BY <2>1 DEF Visible, InFlight
  <2>6. n \notin held
    BY <2>3, <2>5, InvParts
  <2> QED
    BY <2>3, <2>4, <2>6
<1> QED
  BY <1>1, TreeInvariance, PTL DEF Spec, SuspendHoldsFromNextScan

\* A repeat that advances throws no run away (Node.swim_status_change).
THEOREM RepeatKeepsWork == Spec => RepeatDiscardsNoRun
<1>1. TreeInv /\ [Next]_vars => [DiscardsNoRun]_vars
  BY NextTreeInv
<1> QED
  BY <1>1, TreeInvariance, PTL DEF Spec, RepeatDiscardsNoRun
=============================================================================
