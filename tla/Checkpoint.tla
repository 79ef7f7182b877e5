---------------------------- MODULE Checkpoint ----------------------------
(***************************************************************************)
(* CheckpointManager (server/checkpoint.py) on a server: fixed versions    *)
(* are pinned on the event loop, validated and encoded in the background,  *)
(* and published by a worker thread that rotates the backup file and       *)
(* installs the checkpoint file, while the loop goes on.  The process may  *)
(* be killed between any two file operations, and started again.           *)
(*                                                                         *)
(* A snapshot is named by the sequence number of its capture.  The code    *)
(* starts to count again in a new process; here the numbers go on, so that *)
(* snapshots of different processes are told apart.  The comparisons of    *)
(* the code are between numbers of one process only.                       *)
(***************************************************************************)
EXTENDS Integers, Sequences, FiniteSets

CONSTANTS
  MAX_BACKGROUND_WRITES,
  MaxSequence,   \* bound: captures in a behaviour
  Faults         \* bound: the rare circumstances of the instance

Absent == 0      \* no such file
Broken == -1     \* a file that is not a complete snapshot

ASSUME CheckpointAssumption ==
  /\ MAX_BACKGROUND_WRITES \in Nat \ {0} /\ MaxSequence \in Nat
  /\ Faults \subseteq {"pid_reused", "cleanup_fails"}

VARIABLES
  disk,       \* the files; linked, shared: temp or backup is a hard link to main
  mgr,        \* the counters of the CheckpointManager
  writes,     \* the snapshot writes of this process, by sequence number
  failing,    \* checkpoint_failure is one of the halt causes
  mode,       \* the process: running, stopping, final (write), stopped, dead, refused
  paused,     \* history: the snapshots taken while failing
  installed   \* history: the snapshots that became the checkpoint file, in order

vars == <<disk, mgr, writes, failing, mode, paused, installed>>

Sequence == 1 .. MaxSequence
Locked == {"locked", "copied", "rotated", "installed"}
Phase == {"none", "waiting", "ready", "done"} \cup Locked
File == Sequence \cup {Absent, Broken}
NoWrite == [phase |-> "none", sync |-> FALSE, success |-> FALSE, published |-> FALSE]

Files == [main : File, backup : File, temp : File, linked : BOOLEAN, shared : BOOLEAN]
Counters ==
  [next : 0 .. MaxSequence, lastAttempted : 0 .. MaxSequence, attemptOk : BOOLEAN,
   canLink : BOOLEAN, lastOutcome : 0 .. MaxSequence, newerFailed : 0 .. MaxSequence,
   savedAt : 0 .. MaxSequence, finalOk : BOOLEAN]
Write == [phase : Phase, sync : BOOLEAN, success : BOOLEAN, published : BOOLEAN]

TypeOK ==
  /\ disk \in Files
  /\ mgr \in Counters
  /\ writes \in [Sequence -> Write]
  /\ failing \in BOOLEAN
  /\ mode \in {"running", "stopping", "final", "stopped", "dead", "refused"}
  /\ paused \subseteq Sequence
  /\ installed \in Seq(Sequence)

\* A manager that has written nothing; savedAt is last_checkpoint_at
NewManager(next, savedAt) ==
  [next |-> next, lastAttempted |-> 0, attemptOk |-> FALSE, canLink |-> FALSE,
   lastOutcome |-> 0, newerFailed |-> 0, savedAt |-> savedAt, finalOk |-> FALSE]

Init ==
  /\ disk = [main |-> Absent, backup |-> Absent, temp |-> Absent,
             linked |-> FALSE, shared |-> FALSE]
  /\ mgr = NewManager(0, Absent)
  /\ writes = [s \in Sequence |-> NoWrite]
  /\ failing = FALSE /\ mode = "running" /\ paused = {} /\ installed = <<>>

Larger(a, b) == IF a > b THEN a ELSE b
In(phases) == {s \in Sequence : writes[s].phase \in phases}
Background == {s \in In(Phase \ {"none"}) : ~writes[s].sync}

\* write_checkpoint runs on the event loop, which does nothing else meanwhile
LoopFree == In(Phase \ {"none"}) = Background

-----------------------------------------------------------------------------
(* Outcomes *)

\* Mutant: any outcome is recorded, newer ones are forgotten.
RecordedAlways(m, s, success, published) ==
  [mgr |-> [m EXCEPT !.lastOutcome = s, !.savedAt = IF success /\ published THEN s ELSE @],
   failing |-> ~success]

\* _apply_outcome
Recorded(m, s, success, published) ==
  LET saved == IF success /\ published /\ s > m.savedAt THEN [m EXCEPT !.savedAt = s] ELSE m
      counts == s >= m.lastOutcome /\ ~(success /\ ~published)
  IN  [mgr |-> IF counts THEN [saved EXCEPT !.lastOutcome = s] ELSE saved,
       failing |-> IF counts THEN ~success ELSE failing]

Record(m, s, success, published) ==
  LET r == Recorded(m, s, success, published)
  IN  mgr' = r.mgr /\ failing' = r.failing

\* The sequence number is taken first: _pin_fixed_for_write
Pinned(s) == [mgr EXCEPT !.next = s]

\* _fixed_failure: no version, or no room for its background write
FixedFailure(s) ==
  Record([Pinned(s) EXCEPT !.newerFailed = Larger(@, s)], s, FALSE, FALSE)

-----------------------------------------------------------------------------
(* Taking a snapshot *)

CanCapture == LoopFree /\ mgr.next < MaxSequence
NextSequence == mgr.next + 1

\* A transaction is open (state_changing): the number is used, nothing reported
PinSkipped ==
  /\ mode = "running" /\ CanCapture
  /\ mgr' = Pinned(NextSequence)
  /\ UNCHANGED <<disk, writes, failing, mode, paused, installed>>

\* No version can be pinned, or its bytes exceed the budget of the background
PinFailed ==
  /\ mode = "running" /\ CanCapture
  /\ FixedFailure(NextSequence)
  /\ UNCHANGED <<disk, writes, mode, paused, installed>>

Capture(s, sync) ==
  /\ writes' = [writes EXCEPT ![s] = [NoWrite EXCEPT
                  !.phase = IF sync THEN "ready" ELSE "waiting", !.sync = sync]]
  /\ paused' = IF failing THEN paused \cup {s} ELSE paused

\* write_checkpoint_async, called by the periodic loop
WriteAsync ==
  /\ mode = "running" /\ CanCapture
  /\ IF Cardinality(Background) >= MAX_BACKGROUND_WRITES
     THEN FixedFailure(NextSequence) /\ UNCHANGED <<writes, paused>>
     ELSE /\ Capture(NextSequence, FALSE)
          /\ mgr' = Pinned(NextSequence)
          /\ UNCHANGED failing
  /\ UNCHANGED <<disk, mode, installed>>

\* write_checkpoint up to its publication; the pinned version is validated
\* and written to its own file within the call
WriteSync ==
  /\ mode = "running" /\ CanCapture
  /\ Capture(NextSequence, TRUE)
  /\ mgr' = Pinned(NextSequence)
  /\ UNCHANGED <<disk, failing, mode, installed>>

\* _prepare_fixed_version in the background, one write at a time in their order
Prepare(s, valid) ==
  /\ LoopFree /\ writes[s].phase = "waiting"
  /\ \A o \in Background : o = s \/ (o > s /\ writes[o].phase = "waiting")
  /\ writes' = [writes EXCEPT ![s].phase = IF valid THEN "ready" ELSE "done"]
  /\ mgr' = IF valid THEN mgr ELSE [mgr EXCEPT !.newerFailed = Larger(@, s)]
  /\ UNCHANGED <<disk, failing, mode, paused, installed>>

-----------------------------------------------------------------------------
(* Publishing: _publish_prepared, on a worker thread or within write_checkpoint *)

Finished(s, success, published) ==
  [writes EXCEPT ![s] = [@ EXCEPT !.phase = "done", !.success = success,
                                  !.published = published]]

\* Mutant: an older view may be published after a newer one.
EnterAnyOrder(s) ==
  /\ writes[s].phase = "ready" /\ In(Locked) = {}
  /\ mgr' = [mgr EXCEPT !.lastAttempted = s]
  /\ writes' = [writes EXCEPT ![s].phase = "locked"]
  /\ UNCHANGED <<disk, failing, mode, paused, installed>>

\* The publication lock is taken and a view that was overtaken given up
Enter(s) ==
  /\ writes[s].phase = "ready" /\ In(Locked) = {}
  /\ LET behindFailure == s <= mgr.newerFailed /\ mgr.newerFailed > mgr.lastAttempted
         stale == s <= mgr.lastAttempted
     IN  /\ writes' = IF behindFailure THEN Finished(s, FALSE, FALSE)
                      ELSE IF stale THEN Finished(s, mgr.attemptOk, FALSE)
                      ELSE [writes EXCEPT ![s].phase = "locked"]
         /\ mgr' = IF behindFailure \/ stale THEN mgr
                   ELSE [mgr EXCEPT !.lastAttempted = s]
  /\ UNCHANGED <<disk, failing, mode, paused, installed>>

\* _copy_to_backup_temp.  A hard link needs a file that this process wrote and
\* that has no other name; not every file system has them.  The copy truncates
\* whatever file has the name of the temporary file, even if it is main itself.
LinkedBackup == [disk EXCEPT !.temp = disk.main, !.linked = TRUE]
CopiedBackup ==
  IF disk.linked
  THEN [disk EXCEPT !.main = Broken, !.temp = Broken,
                    !.backup = IF disk.shared THEN Broken ELSE @]
  ELSE [disk EXCEPT !.temp = disk.main]

CopyBackup(s, link) ==
  /\ writes[s].phase = "locked"
  /\ link => disk.main # Absent /\ mgr.canLink /\ disk.temp = Absent /\ ~disk.shared
  /\ disk' = IF disk.main = Absent THEN disk
             ELSE IF link THEN LinkedBackup
             ELSE CopiedBackup
  /\ writes' = [writes EXCEPT ![s].phase = "copied"]
  /\ UNCHANGED <<mgr, failing, mode, paused, installed>>

\* Mutant: the backup is the file of the new save.
ReplaceBackupNow(s) ==
  /\ writes[s].phase = "copied"
  /\ disk' = [disk EXCEPT !.backup = s]
  /\ writes' = [writes EXCEPT ![s].phase = "rotated"]
  /\ UNCHANGED <<mgr, failing, mode, paused, installed>>

\* _replace_backup
ReplaceBackup(s) ==
  /\ writes[s].phase = "copied"
  /\ disk' = IF disk.temp = Absent THEN disk
             ELSE [disk EXCEPT !.backup = disk.temp, !.temp = Absent,
                               !.shared = disk.linked, !.linked = FALSE]
  /\ writes' = [writes EXCEPT ![s].phase = "rotated"]
  /\ UNCHANGED <<mgr, failing, mode, paused, installed>>

\* _replace_checkpoint
ReplaceCheckpoint(s) ==
  /\ writes[s].phase = "rotated"
  /\ disk' = [disk EXCEPT !.main = s, !.shared = FALSE, !.linked = FALSE]
  /\ installed' = Append(installed, s)
  /\ writes' = [writes EXCEPT ![s].phase = "installed"]
  /\ UNCHANGED <<mgr, failing, mode, paused>>

\* The directory is on disk as well: the write has succeeded
Publish(s) ==
  /\ writes[s].phase = "installed"
  /\ mgr' = [mgr EXCEPT !.attemptOk = TRUE, !.canLink = TRUE]
  /\ writes' = Finished(s, TRUE, TRUE)
  /\ UNCHANGED <<disk, failing, mode, paused, installed>>

\* _cleanup_temp_files
CleanedUp(d) == [d EXCEPT !.temp = Absent, !.linked = FALSE]

\* A file operation raises; removing the temporary files may fail as well
PublishFails(s, cleaned) ==
  /\ writes[s].phase \in Locked
  /\ cleaned \/ "cleanup_fails" \in Faults
  /\ disk' = IF cleaned THEN CleanedUp(disk) ELSE disk
  /\ mgr' = [mgr EXCEPT !.attemptOk = FALSE]
  /\ writes' = Finished(s, FALSE, FALSE)
  /\ UNCHANGED <<failing, mode, paused, installed>>

\* The outcome reaches the loop: _finish_async_write, or write_checkpoint goes
\* on, and with it stop when this was the final write
Resolve(s) ==
  /\ writes[s].phase = "done" /\ (LoopFree \/ writes[s].sync)
  /\ LET w == writes[s]
         final == mode = "final" /\ w.sync
     IN  /\ Record([mgr EXCEPT !.finalOk = final /\ w.success], s, w.success, w.published)
         /\ mode' = IF final THEN "stopped" ELSE mode
  /\ writes' = [writes EXCEPT ![s] = NoWrite]
  /\ UNCHANGED <<disk, paused, installed>>

-----------------------------------------------------------------------------
(* The life of the process *)

\* stop: no new write from here on
StopBegin ==
  /\ mode = "running" /\ LoopFree
  /\ mode' = "stopping"
  /\ UNCHANGED <<disk, mgr, writes, failing, paused, installed>>

\* Mutant: the final save does not wait for the writes under way.
StopFinalUndrained ==
  /\ mode = "stopping" /\ CanCapture
  /\ Capture(NextSequence, TRUE)
  /\ mgr' = Pinned(NextSequence)
  /\ mode' = "final"
  /\ UNCHANGED <<disk, failing, installed>>

\* stop, after _drain_in_flight_write: the final snapshot is taken
StopFinal ==
  /\ mode = "stopping" /\ CanCapture /\ Background = {}
  /\ Capture(NextSequence, TRUE)
  /\ mgr' = Pinned(NextSequence)
  /\ mode' = "final"
  /\ UNCHANGED <<disk, failing, installed>>

\* The final snapshot cannot be taken or validated
StopFinalFailed ==
  /\ mode = "stopping" /\ CanCapture /\ Background = {}
  /\ FixedFailure(NextSequence)
  /\ mode' = "stopped"
  /\ UNCHANGED <<disk, writes, paused, installed>>

\* The process is killed between any two of its steps
Crash ==
  /\ mode \in {"running", "stopping", "final"}
  /\ mode' = "dead"
  /\ writes' = [s \in Sequence |-> NoWrite]
  /\ UNCHANGED <<disk, mgr, failing, paused, installed>>

\* A new process: restore tries the checkpoint file, then the backup.  Another
\* process id means other temporary file names: those left behind do not matter
Restart(samePid) ==
  /\ mode \in {"dead", "stopped"}
  /\ samePid => "pid_reused" \in Faults
  /\ disk' = IF samePid THEN disk ELSE CleanedUp(disk)
  /\ LET usable == {f \in {"main", "backup"} : disk[f] \in Sequence}
         source == IF "main" \in usable THEN disk.main ELSE disk.backup
     IN  IF usable # {}
         THEN /\ mode' = "running"
              /\ failing' = (source \in paused)
              /\ mgr' = NewManager(mgr.next, source)
         ELSE /\ mode' = IF disk.main = Absent /\ disk.backup = Absent
                         THEN "running" ELSE "refused"
              /\ failing' = FALSE
              /\ mgr' = NewManager(mgr.next, Absent)
  /\ UNCHANGED <<writes, paused, installed>>

Next ==
  \/ PinSkipped \/ PinFailed \/ WriteAsync \/ WriteSync
  \/ \E s \in Sequence :
       \/ \E valid \in BOOLEAN : Prepare(s, valid)
       \/ Enter(s)
       \/ \E link \in BOOLEAN : CopyBackup(s, link)
       \/ ReplaceBackup(s) \/ ReplaceCheckpoint(s) \/ Publish(s)
       \/ \E cleaned \in BOOLEAN : PublishFails(s, cleaned)
       \/ Resolve(s)
  \/ StopBegin \/ StopFinal \/ StopFinalFailed \/ Crash
  \/ \E samePid \in BOOLEAN : Restart(samePid)

Spec == Init /\ [][Next]_vars

-----------------------------------------------------------------------------
(* Properties *)

\* Saves are numbered when they are captured and may overtake each other, be
\* given up or fail: the checkpoint file is never replaced by an older view.
NeverOlder ==
  [][disk'.main # disk.main => disk'.main > disk.main]_vars

\* Whatever write failed or was killed halfway, the two files hold the last
\* snapshot that was installed and it or the one before it.
BackupIsRecent ==
  LET n == Len(installed)
  IN  IF n = 0 THEN disk.main = Absent /\ disk.backup = Absent
      ELSE /\ disk.main = installed[n]
           /\ disk.backup \in {installed[n], IF n = 1 THEN Absent ELSE installed[n - 1]}

\* "At any time the checkpoint file is absent or one complete snapshot"
\* (operation/checkpoint.rst): no write changes the file it is copied from.
MainIsComplete == disk.main # Broken

\* What server-status reports: with no write under way and no checkpoint
\* failure, last_checkpoint_at is the time of the snapshot in the file.
StatusIsHonest ==
  mode \in {"running", "stopping"} /\ In(Phase \ {"none"}) = {} /\ ~failing
    => mgr.savedAt = disk.main

\* A stop that reports success leaves the view that it took last in the file,
\* and no background write that could still change it.
FinalIsLast ==
  mode = "stopped" /\ mgr.finalOk
    => disk.main = mgr.next /\ In(Phase \ {"none"}) = {}
=============================================================================
