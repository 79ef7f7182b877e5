---------------------------- MODULE ViewContract ----------------------------
(***************************************************************************)
(* What the query interface promises a client: the view it holds is the    *)
(* server's tree at one revision of one session, except below the scopes   *)
(* it is told to be stale, and it never goes back.                         *)
(***************************************************************************)
EXTENDS Integers, Sequences, SequencesExt

CONSTANTS NoView, Visible(_, _)

VARIABLES
  past,      \* past[s][r]: the values of the nodes in session s at revision r
  view,      \* the client's view
  selection  \* what the client asked to see

Covered(p, v) == \E scope \in v.stale : IsPrefix(scope, p)

\* Every node the selection shows is in the view as it was, and nothing else
\* is, where the view is not stale.
Correct(v) ==
  /\ v.session \in 1..Len(past) /\ v.revision \in 1..Len(past[v.session])
  /\ LET truth == past[v.session][v.revision]
     IN  \A p \in DOMAIN truth \cup DOMAIN v.rows :
           Covered(p, v) \/ ~Visible(selection, p) \/ (p \in DOMAIN truth /\ p \in DOMAIN v.rows /\ truth[p] = v.rows[p])

NotOlder(v, w) == v.session > w.session \/ (v.session = w.session /\ v.revision >= w.revision)

ContractInit == Len(past) = 1 /\ view = NoView

\* The server publishes new revisions.
Publish ==
  /\ Len(past') = Len(past)
  /\ \A s \in DOMAIN past : IsPrefix(past[s], past'[s])
  /\ UNCHANGED <<view, selection>>

\* The server starts again.
NewSession ==
  /\ Len(past') = Len(past) + 1 /\ IsPrefix(past, past')
  /\ UNCHANGED <<view, selection>>

\* The client takes over a view, whole or with scopes marked stale.
Adopt ==
  /\ view' # NoView /\ Correct(view')
  /\ view # NoView => NotOlder(view', view)
  /\ UNCHANGED <<past, selection>>

ContractNext == Publish \/ NewSession \/ Adopt
ContractSpec == ContractInit /\ [][ContractNext]_<<past, view, selection>>
=============================================================================
