------------------------------ MODULE Recovery ------------------------------
(***************************************************************************)
(* TaskLifecycle with what a restart puts back (serialization/checkpoint,  *)
(* CheckpointManager.restore).  The files hold whole snapshots of earlier  *)
(* states (Checkpoint shows that); a process can be killed at any time, the *)
(* next one starts from one of them, and what was done since is undone in  *)
(* the server but not outside: the jobs of undone runs still report.       *)
(***************************************************************************)
EXTENDS TaskLifecycle

CONSTANT MaxFiles    \* bound: snapshots a restart may find; the code has two

VARIABLES
  saved,   \* the snapshots in the checkpoint file and its backup
  lost     \* history: lost[t] are the attempts of t that a restart has undone

recoveryVars == <<task, issued, held, value, begun, causes, stopping, saved, lost>>

RecoveryInit ==
  /\ Init
  /\ saved = {}
  /\ lost = [t \in Task |-> {}]

-----------------------------------------------------------------------------
(* Capturing *)

\* What the definition itself has to satisfy: every in-limit finds a Limit
\* that is large enough (resolve in _validate_checkpoint_nodes).
DefinitionFits ==
  Unresolved = {} /\ \A t \in Task : \A l \in InLimits[t] : Tokens[t][l] <= Capacity[l]

\* capture_checkpoint and _validate_checkpoint_nodes: the occupancy of each
\* Limit is recomputed, and each task in flight needs its identity and password.
Accepted ==
  /\ DefinitionFits
  /\ \A t \in Task :
       /\ ConditionalFields(task[t])
       /\ task[t].status \in InFlight => task[t].tryNo # 0 /\ task[t].password # 0
  /\ \A l \in Limit :
       /\ held[l] = Users(l)
       /\ value[l] = TokensOf(Users(l), l) /\ value[l] <= Capacity[l]

\* The document, with the draws made so far to tell what a restart undoes
Snapshot ==
  [task |-> task, held |-> held, value |-> value, begun |-> begun, causes |-> causes,
   issued |-> issued, lost |-> lost]

\* A save is captured and installed; the backup may keep an earlier one.
Capture ==
  /\ Accepted
  /\ \E kept \in SUBSET saved :
       /\ saved' = kept \cup {Snapshot}
       /\ Cardinality(saved') <= MaxFiles
  /\ UNCHANGED <<vars, lost>>

-----------------------------------------------------------------------------
(* Restarting *)

\* Mutant: no password is put back.
RestoredNoSecrets(r) == [r EXCEPT !.password = 0]

\* _apply_node, and the passwords, which are stored for tasks in flight only
Restored(r) == [r EXCEPT !.password = IF r.status \in InFlight THEN @ ELSE 0]

\* CheckpointManager.restore from one of the files: a recovered service waits
\* for the operator.
RestartFrom(s) ==
  /\ task' = [t \in Task |-> Restored(s.task[t])]
  /\ held' = s.held /\ value' = s.value /\ begun' = s.begun
  /\ causes' = s.causes \cup ({"recovery"} \cap Causes)
  /\ lost' = [t \in Task |-> s.lost[t] \cup (s.issued[t] + 1 .. issued[t])]

\* restore without any file: the flow is loaded anew.
RestartFresh ==
  /\ saved = {}
  /\ task' = [t \in Task |-> Fresh]
  /\ held' = [l \in Limit |-> {}] /\ value' = [l \in Limit |-> 0]
  /\ begun' = FALSE /\ causes' = {}
  /\ lost' = [t \in Task |-> 1 .. issued[t]]

\* The process is killed or stopped, and started again.
Restart ==
  /\ RestartFresh \/ \E s \in saved : RestartFrom(s)
  /\ stopping' = FALSE
  /\ UNCHANGED <<issued, saved>>

-----------------------------------------------------------------------------
RecoveryNext ==
  \/ Next /\ UNCHANGED <<saved, lost>>
  \/ Capture
  \/ Restart

RecoverySpec == RecoveryInit /\ [][RecoveryNext]_recoveryVars

-----------------------------------------------------------------------------
(* Properties *)

\* Restarts change nothing of what holds without them.  Every state can be
\* saved, so no sequence of handlers and restarts makes the next save fail and
\* halt the service (_validate_checkpoint_nodes).  A task in flight has the
\* password its job was given.  And no attempt that a restart has undone is
\* ever current again, though the try number counts again from the snapshot:
\* the report of a job the server has forgotten is never taken for another's.
RecoveryIsConsistent ==
  /\ DefinitionFits => Accepted
  /\ \A t \in Task : task[t].status \in InFlight => task[t].password = task[t].attempt
  /\ \A t \in Task : task[t].attempt \notin lost[t]

\* A snapshot is a state in which the inductive invariant of TaskLifecycle held.
SnapshotOK(s) ==
  /\ s.task \in [Task -> TaskState]
  /\ s.held \in [Limit -> SUBSET Task] /\ s.value \in [Limit -> Int]
  /\ s.begun \in BOOLEAN /\ s.causes \subseteq Causes
  /\ \A l \in Limit :
       /\ s.held[l] = {t \in Task : l \in InLimits[t] /\ s.task[t].status \in InFlight}
       /\ s.value[l] = TokensOf(s.held[l], l) /\ s.value[l] <= Capacity[l]
  /\ \A t \in Task :
       /\ s.issued[t] \in Nat /\ s.issued[t] <= issued[t]
       /\ RecordOK(t, s.task[t], s.issued[t])
       /\ s.lost[t] \subseteq 1..s.issued[t] /\ s.task[t].attempt \notin s.lost[t]

\* The inductive invariant: that of TaskLifecycle, the files, and that every
\* undone attempt was issued, so that a new one is none of them.
RecoveryInv ==
  /\ IInv
  /\ \A s \in saved : SnapshotOK(s)
  /\ \A t \in Task : lost[t] \subseteq 1..issued[t] /\ task[t].attempt \notin lost[t]
=============================================================================
