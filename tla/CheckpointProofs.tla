-------------------------- MODULE CheckpointProofs --------------------------
(***************************************************************************)
(* The checkpoint file, its backup and the reported status, for any number *)
(* of snapshots, background writes, failures, kills and restarts.          *)
(*                                                                         *)
(* The theorems assume Faults = {}: with a temporary file left behind under *)
(* a name that is used again, a rotation does damage the checkpoint file   *)
(* (run checkpoint_link).                                                  *)
(***************************************************************************)
EXTENDS Checkpoint, TLAPS

-----------------------------------------------------------------------------
(* The inductive invariant *)

Alive == {"running", "stopping", "final", "stopped"}
Unwritten == {"waiting", "ready", "locked", "copied", "rotated"}

\* The backup can only be replaced by what the checkpoint file holds
FilesOK ==
  /\ disk.main # Broken /\ disk.backup # Broken /\ disk.temp # Broken
  /\ disk.temp = Absent => ~disk.linked
  /\ BackupIsRecent
  /\ mode \in Alive /\ (\A s \in Sequence : writes[s].phase # "copied") => disk.temp = Absent
  /\ \A s \in Sequence :
       /\ writes[s].phase = "copied" => disk.temp = disk.main
       /\ writes[s].phase = "rotated" => disk.backup = disk.main

\* The number of a write tells whether it is the one that holds the lock; a
\* write that has not installed its snapshot is newer than the checkpoint file
\* or will be given up
WriteOrder(s) ==
  /\ writes[s].phase # "none" => s <= mgr.next
  /\ writes[s].phase \in Locked => s = mgr.lastAttempted
  /\ writes[s].phase \in Unwritten =>
       s # disk.main /\ (s <= mgr.lastAttempted \/ s > disk.main)
  /\ writes[s].phase \in {"locked", "copied", "rotated"} => s > disk.main
  /\ writes[s].phase \in {"waiting", "ready"} => s # mgr.lastAttempted
  /\ writes[s].phase = "installed" => disk.main = s

OrderOK ==
  /\ disk.main <= mgr.next /\ mgr.savedAt <= disk.main
  /\ mgr.lastAttempted <= mgr.next /\ mgr.lastOutcome <= mgr.next
  /\ \A s \in Sequence : WriteOrder(s)

\* A write that reports success has installed its snapshot, or was overtaken
\* by one that did
WriteOutcome(s) ==
  /\ writes[s].success => writes[s].phase = "done"
  /\ writes[s].published => writes[s].success /\ s <= disk.main
  /\ writes[s].success /\ ~writes[s].published => s < mgr.lastAttempted /\ s # disk.main

\* When the file is not the one of last_checkpoint_at, the write that installed
\* it is not accounted for yet, or an outcome that counts says failure
Accounted ==
  mode \in Alive /\ mgr.savedAt # disk.main =>
    \/ \E s \in Sequence : s = disk.main /\ writes[s].phase \in {"installed", "done"}
    \/ failing /\ mgr.lastOutcome >= disk.main

OutcomesOK ==
  /\ \A s \in Sequence : WriteOutcome(s)
  /\ mgr.lastOutcome > disk.main => failing
  /\ Accounted

\* The final write is alone, and nothing is written after it
FinalOK ==
  /\ mode = "final" =>
       \A s \in Sequence : writes[s].phase # "none" => s = mgr.next /\ writes[s].sync
  /\ mode \in {"stopped", "dead", "refused"} => \A s \in Sequence : writes[s].phase = "none"
  /\ mgr.finalOk => mode = "stopped" /\ disk.main = mgr.next

CheckpointInv == TypeOK /\ FilesOK /\ OrderOK /\ OutcomesOK /\ FinalOK

-----------------------------------------------------------------------------
(* Numbers, and what a step does to one write *)

\* Sequence numbers are positive; a file holds one, is absent or is broken
LEMMA Numbers ==
  ASSUME CheckpointAssumption
  PROVE  /\ Sequence \subseteq 0 .. MaxSequence /\ 0 .. MaxSequence \subseteq Nat
         /\ 0 \in 0 .. MaxSequence /\ 0 \notin Sequence
         /\ \A n \in 0 .. MaxSequence : n < MaxSequence => n + 1 \in Sequence
         /\ File = Sequence \cup {Absent, Broken} /\ File \subseteq Int
         /\ Absent = 0 /\ Broken = -1 /\ Broken \notin Sequence
BY CheckpointAssumption DEF Sequence, File, Absent, Broken

\* The named phases are the phases of a write
LEMMA Phases ==
  /\ Phase = {"none", "waiting", "ready", "locked", "copied", "rotated", "installed", "done"}
  /\ Locked = {"locked", "copied", "rotated", "installed"}
BY DEF Phase, Locked

\* A write moves to another phase
LEMMA PhaseChange ==
  ASSUME writes \in [Sequence -> Write], NEW s \in Sequence, NEW p \in Phase,
         writes' = [writes EXCEPT ![s].phase = p]
  PROVE  /\ writes' \in [Sequence -> Write]
         /\ writes'[s].phase = p /\ writes'[s].sync = writes[s].sync
         /\ writes'[s].success = writes[s].success /\ writes'[s].published = writes[s].published
         /\ \A o \in Sequence \ {s} : writes'[o] = writes[o]
<1> DEFINE w == [writes[s] EXCEPT !.phase = p]
<1>1. writes[s] \in Write /\ w \in Write
  BY DEF Write
<1>2. writes' = [writes EXCEPT ![s] = w] /\ writes'[s] = w
  OBVIOUS
<1>3. /\ w.phase = p /\ w.sync = writes[s].sync
      /\ w.success = writes[s].success /\ w.published = writes[s].published
  BY <1>1 DEF Write
<1> HIDE DEF w
<1>4. QED
  BY <1>1, <1>2, <1>3

\* A write has its result
LEMMA FinishChange ==
  ASSUME writes \in [Sequence -> Write], NEW s \in Sequence,
         NEW success \in BOOLEAN, NEW published \in BOOLEAN,
         writes' = Finished(s, success, published)
  PROVE  /\ writes' \in [Sequence -> Write]
         /\ writes'[s].phase = "done" /\ writes'[s].sync = writes[s].sync
         /\ writes'[s].success = success /\ writes'[s].published = published
         /\ \A o \in Sequence \ {s} : writes'[o] = writes[o]
<1> DEFINE w == [writes[s] EXCEPT !.phase = "done", !.success = success, !.published = published]
<1>1. writes[s] \in Write /\ w \in Write
  BY Phases, Zenon DEF Write
<1>2. writes' = [writes EXCEPT ![s] = w] /\ writes'[s] = w
  BY DEF Finished
<1>3. /\ w.phase = "done" /\ w.sync = writes[s].sync
      /\ w.success = success /\ w.published = published
  BY <1>1 DEF Write
<1> HIDE DEF w
<1>4. QED
  BY <1>1, <1>2, <1>3

\* A write begins
LEMMA CaptureChange ==
  ASSUME writes \in [Sequence -> Write], paused \subseteq Sequence,
         NEW s \in Sequence, NEW sync \in BOOLEAN, Capture(s, sync)
  PROVE  /\ writes' \in [Sequence -> Write] /\ paused' \subseteq Sequence
         /\ writes'[s].phase \in {"waiting", "ready"} /\ writes'[s].sync = sync
         /\ writes'[s].success = FALSE /\ writes'[s].published = FALSE
         /\ \A o \in Sequence \ {s} : writes'[o] = writes[o]
<1> DEFINE w == [NoWrite EXCEPT !.phase = IF sync THEN "ready" ELSE "waiting", !.sync = sync]
<1>1. w \in Write
  BY Phases, Zenon DEF Write, NoWrite
<1>2. writes' = [writes EXCEPT ![s] = w] /\ writes'[s] = w
  BY DEF Capture
<1>3. /\ w.phase \in {"waiting", "ready"} /\ w.sync = sync
      /\ w.success = FALSE /\ w.published = FALSE
  BY DEF NoWrite
<1>4. paused' \subseteq Sequence
  BY DEF Capture
<1> HIDE DEF w
<1>5. QED
  BY <1>1, <1>2, <1>3, <1>4

\* The entry of no write
LEMMA NoWriteFields ==
  /\ NoWrite \in Write
  /\ NoWrite.phase = "none" /\ NoWrite.success = FALSE /\ NoWrite.published = FALSE
BY Phases DEF NoWrite, Write

\* The event loop waits for no write, and none is in the background
LEMMA Drained ==
  ASSUME writes \in [Sequence -> Write], LoopFree, Background = {}
  PROVE  \A s \in Sequence : writes[s].phase = "none"
BY DEF LoopFree, Background, In, Write

\* What the type invariant says, field by field
LEMMA Fields ==
  ASSUME CheckpointAssumption, TypeOK
  PROVE  /\ disk.main \in File /\ disk.main \in Int /\ disk.backup \in File /\ disk.temp \in File
         /\ mgr.next \in Int /\ mgr.lastAttempted \in Int /\ mgr.lastOutcome \in Int
         /\ mgr.newerFailed \in Int /\ mgr.savedAt \in Int
         /\ \A s \in Sequence : s \in Int /\ s > 0 /\ writes[s].phase \in Phase
<1>1. disk.main \in File /\ disk.backup \in File /\ disk.temp \in File
  BY DEF TypeOK, Files
<1>2. /\ mgr.next \in 0 .. MaxSequence /\ mgr.lastAttempted \in 0 .. MaxSequence
      /\ mgr.lastOutcome \in 0 .. MaxSequence
      /\ mgr.newerFailed \in 0 .. MaxSequence /\ mgr.savedAt \in 0 .. MaxSequence
  BY DEF TypeOK, Counters
<1>3. \A s \in Sequence : writes[s].phase \in Phase
  BY DEF TypeOK, Write
<1>4. File \subseteq Int /\ \A s \in Sequence : s \in Int /\ s > 0
  BY Numbers DEF Sequence
<1>5. disk.main \in Int
  BY <1>1, <1>4, Zenon
<1>6. /\ mgr.next \in Int /\ mgr.lastAttempted \in Int /\ mgr.lastOutcome \in Int
      /\ mgr.newerFailed \in Int /\ mgr.savedAt \in Int
  BY <1>2
<1>7. QED
  BY <1>1, <1>3, <1>4, <1>5, <1>6

\* Without a checkpoint file there is no backup
LEMMA NoMainNoBackup ==
  ASSUME CheckpointAssumption, TypeOK, BackupIsRecent, disk.main = Absent
  PROVE  disk.backup = Absent
<1>1. CASE Len(installed) = 0
  BY <1>1 DEF BackupIsRecent
<1>2. CASE Len(installed) # 0
  <2>1. installed[Len(installed)] \in Sequence
    BY <1>2 DEF TypeOK
  <2>2. QED
    BY <1>2, <2>1, Numbers DEF BackupIsRecent
<1>3. QED
  BY <1>1, <1>2

\* One write at a time is past the publication lock
LEMMA OneLocked ==
  ASSUME OrderOK, NEW s \in Sequence, writes[s].phase \in Locked
  PROVE  \A o \in Sequence \ {s} : writes[o].phase \notin Locked
BY DEF OrderOK, WriteOrder

-----------------------------------------------------------------------------
(* Every step keeps the invariant *)

\* A failure is recorded: no version could be pinned, or no room for its write
LEMMA FailureRecorded ==
  ASSUME CheckpointAssumption, TypeOK, OrderOK, CanCapture, FixedFailure(NextSequence)
  PROVE  /\ mgr' \in Counters /\ failing' = TRUE
         /\ mgr'.next = mgr.next + 1 /\ mgr'.lastOutcome = mgr.next + 1
         /\ mgr'.lastAttempted = mgr.lastAttempted
         /\ mgr'.savedAt = mgr.savedAt /\ mgr'.finalOk = mgr.finalOk
<1> DEFINE n == mgr.next + 1
<1>1. n \in 0 .. MaxSequence /\ n >= mgr.lastOutcome /\ mgr \in Counters
  BY Numbers, Fields DEF CanCapture, TypeOK, Counters, OrderOK
<1>2. Larger(mgr.newerFailed, n) \in 0 .. MaxSequence
  BY <1>1 DEF Larger, Counters
<1>3. /\ mgr' = [mgr EXCEPT !.next = n, !.newerFailed = Larger(mgr.newerFailed, n),
                            !.lastOutcome = n]
      /\ failing' = TRUE
  BY <1>1, Zenon DEF FixedFailure, Record, Recorded, Pinned, NextSequence, Counters
<1> HIDE DEF n
<1>4. QED
  BY <1>1, <1>2, <1>3, Zenon DEF Counters, n

\* A failure that is only recorded: PinFailed, a full background, a failed stop
LEMMA FailureKeeps ==
  ASSUME CheckpointAssumption, CheckpointInv, CanCapture, FixedFailure(NextSequence),
         mode \in Alive, mode' \in {"running", "stopped"},
         UNCHANGED <<disk, writes, paused, installed>>
  PROVE  TypeOK' /\ FilesOK' /\ OrderOK' /\ OutcomesOK'
<1> USE DEF CheckpointInv
<1>1. /\ mgr' \in Counters /\ failing' = TRUE
      /\ mgr'.next = mgr.next + 1 /\ mgr'.lastOutcome = mgr.next + 1
      /\ mgr'.lastAttempted = mgr.lastAttempted /\ mgr'.savedAt = mgr.savedAt
  BY FailureRecorded, Zenon
<1>2. TypeOK'
  BY <1>1 DEF TypeOK
<1>3. FilesOK'
  BY DEF FilesOK, BackupIsRecent
<1>4. OrderOK'
  BY <1>1, Fields DEF OrderOK, WriteOrder
<1>5. OutcomesOK'
  BY <1>1, Fields DEF OrderOK, OutcomesOK, WriteOutcome, Accounted
<1>6. QED
  BY <1>2, <1>3, <1>4, <1>5

\* A snapshot is taken for a write of its own: WriteAsync, WriteSync, StopFinal
LEMMA CaptureKeeps ==
  ASSUME CheckpointAssumption, CheckpointInv, CanCapture, NEW sync \in BOOLEAN,
         Capture(NextSequence, sync), mgr' = Pinned(NextSequence),
         mode \in Alive, mode' \in Alive,
         UNCHANGED <<disk, failing, installed>>
  PROVE  TypeOK' /\ FilesOK' /\ OrderOK' /\ OutcomesOK'
<1> USE DEF CheckpointInv
<1>0. PICK n \in Sequence : n = mgr.next + 1
  BY Numbers DEF CanCapture, TypeOK, Counters
<1>1. n \in 0 .. MaxSequence
  BY Numbers
<1>2. /\ mgr' \in Counters /\ mgr'.next = n
      /\ mgr'.lastAttempted = mgr.lastAttempted /\ mgr'.savedAt = mgr.savedAt
      /\ mgr'.lastOutcome = mgr.lastOutcome /\ mgr'.finalOk = mgr.finalOk
  BY <1>0, <1>1 DEF Pinned, NextSequence, TypeOK, Counters
<1>3. /\ writes' \in [Sequence -> Write] /\ paused' \subseteq Sequence
      /\ writes'[n].phase \in {"waiting", "ready"} /\ writes'[n].sync = sync
      /\ writes'[n].success = FALSE /\ writes'[n].published = FALSE
      /\ \A o \in Sequence \ {n} : writes'[o] = writes[o]
  BY <1>0, <1>1, CaptureChange, Zenon DEF NextSequence, TypeOK
<1>4. writes[n].phase = "none" /\ n > mgr.next
  BY <1>0, <1>1, Fields DEF OrderOK, WriteOrder
<1>5. TypeOK'
  BY <1>2, <1>3 DEF TypeOK, Alive
<1>6. FilesOK'
  <2>1. \A o \in Sequence : writes'[o].phase \in {"copied", "rotated"} => writes'[o] = writes[o]
    BY <1>0, <1>1, <1>3, Zenon
  <2>2. (\A o \in Sequence : writes'[o].phase # "copied") => \A o \in Sequence : writes[o].phase # "copied"
    BY <1>0, <1>1, <1>3, <1>4, Zenon
  <2>3. QED
    BY <2>1, <2>2 DEF FilesOK, BackupIsRecent
<1>7. OrderOK'
  <2>1. \A o \in Sequence : WriteOrder(o)'
    <3>1. WriteOrder(n)'
      BY <1>0, <1>1, <1>2, <1>3, <1>4, Fields, Phases DEF OrderOK, WriteOrder
    <3>2. ASSUME NEW o \in Sequence, o # n
          PROVE  WriteOrder(o)'
      BY <3>2, <1>0, <1>2, <1>3, Fields DEF OrderOK, WriteOrder
    <3>3. QED
      BY <3>1, <3>2
  <2>2. QED
    BY <1>2, <1>4, <2>1, <1>1, Fields DEF OrderOK
<1>8. OutcomesOK'
  <2>1. \A o \in Sequence : WriteOutcome(o)'
    <3>1. WriteOutcome(n)'
      BY <1>3 DEF WriteOutcome
    <3>2. ASSUME NEW o \in Sequence, o # n
          PROVE  WriteOutcome(o)'
      BY <3>2, <1>2, <1>3 DEF OutcomesOK, WriteOutcome
    <3>3. QED
      BY <3>1, <3>2
  <2>2. Accounted'
    BY <1>2, <1>3, <1>4 DEF OutcomesOK, Accounted
  <2>3. QED
    BY <1>2, <2>1, <2>2 DEF OutcomesOK
<1>9. QED
  BY <1>5, <1>6, <1>7, <1>8

\* A snapshot is encoded in the background, or is invalid
LEMMA PrepareKeeps ==
  ASSUME CheckpointAssumption, CheckpointInv, NEW s \in Sequence, NEW valid \in BOOLEAN,
         Prepare(s, valid)
  PROVE  CheckpointInv'
<1> USE DEF CheckpointInv
<1>1. /\ writes' \in [Sequence -> Write] /\ writes[s].phase = "waiting"
      /\ writes'[s].phase \in {"ready", "done"} /\ writes'[s].sync = writes[s].sync
      /\ writes'[s].success = writes[s].success /\ writes'[s].published = writes[s].published
      /\ \A o \in Sequence \ {s} : writes'[o] = writes[o]
  <2>1. PICK p \in {"ready", "done"} : writes' = [writes EXCEPT ![s].phase = p]
    BY Zenon DEF Prepare
  <2>2. QED
    BY <2>1, PhaseChange, Phases, Zenon DEF Prepare, TypeOK
<1>2. /\ mgr' \in Counters /\ mgr'.next = mgr.next /\ mgr'.lastAttempted = mgr.lastAttempted
      /\ mgr'.savedAt = mgr.savedAt /\ mgr'.lastOutcome = mgr.lastOutcome
      /\ mgr'.finalOk = mgr.finalOk
  <2>1. Larger(mgr.newerFailed, s) \in 0 .. MaxSequence
    BY Numbers DEF TypeOK, Counters, Larger
  <2>2. QED
    BY <2>1, Zenon DEF Prepare, TypeOK, Counters
<1>3. disk' = disk /\ failing' = failing /\ mode' = mode /\ paused' = paused /\ installed' = installed
  BY DEF Prepare
<1>4. TypeOK'
  BY <1>1, <1>2, <1>3 DEF TypeOK
<1>5. FilesOK'
  <2>1. \A o \in Sequence : writes'[o].phase \in {"copied", "rotated"} => writes'[o] = writes[o]
    BY <1>1
  <2>2. (\A o \in Sequence : writes'[o].phase # "copied") => \A o \in Sequence : writes[o].phase # "copied"
    BY <1>1
  <2>3. QED
    BY <1>3, <2>1, <2>2 DEF FilesOK, BackupIsRecent
<1>6. OrderOK'
  <2>1. ASSUME NEW o \in Sequence PROVE WriteOrder(o)'
    BY <1>1, <1>2, <1>3, Phases DEF OrderOK, WriteOrder, Unwritten
  <2>2. QED
    BY <1>2, <1>3, <2>1 DEF OrderOK
<1>7. OutcomesOK'
  <2>1. ASSUME NEW o \in Sequence PROVE WriteOutcome(o)'
    BY <1>1, <1>2, <1>3 DEF OutcomesOK, WriteOutcome
  <2>2. Accounted'
    BY <1>1, <1>2, <1>3 DEF OutcomesOK, Accounted
  <2>3. QED
    BY <1>2, <1>3, <2>1, <2>2 DEF OutcomesOK
<1>8. FinalOK'
  BY <1>1, <1>2, <1>3 DEF FinalOK
<1>9. QED
  BY <1>4, <1>5, <1>6, <1>7, <1>8

\* A write takes the publication lock: one that was overtaken ends here, any
\* other one is newer than the checkpoint file
LEMMA EnterKeeps ==
  ASSUME CheckpointAssumption, CheckpointInv, NEW s \in Sequence, Enter(s)
  PROVE  CheckpointInv'
<1> USE DEF CheckpointInv
<1>1. disk' = disk /\ failing' = failing /\ mode' = mode /\ paused' = paused /\ installed' = installed
  BY DEF Enter
<1>2. writes[s].phase = "ready" /\ \A o \in Sequence : writes[o].phase \notin Locked
  BY DEF Enter, In
<1>3. s <= mgr.next /\ s # disk.main /\ s # mgr.lastAttempted
  BY <1>2 DEF OrderOK, WriteOrder, Unwritten
<1>4. CASE \E success \in BOOLEAN :
             /\ writes' = Finished(s, success, FALSE) /\ mgr' = mgr
             /\ success => s < mgr.lastAttempted
  <2>1. PICK success \in BOOLEAN : /\ writes' = Finished(s, success, FALSE) /\ mgr' = mgr
                                   /\ success => s < mgr.lastAttempted
    BY <1>4, Zenon
  <2>2. /\ writes' \in [Sequence -> Write]
        /\ writes'[s].phase = "done" /\ writes'[s].sync = writes[s].sync
        /\ writes'[s].success = success /\ writes'[s].published = FALSE
        /\ \A o \in Sequence \ {s} : writes'[o] = writes[o]
    BY <2>1, FinishChange, Zenon DEF TypeOK
  <2>a. mgr' = mgr
    BY <2>1
  <2>3. TypeOK'
    BY <1>1, <2>1, <2>2, Zenon DEF TypeOK
  <2>4. FilesOK'
    BY <1>1, <1>2, <2>2 DEF FilesOK, BackupIsRecent
  <2>5. OrderOK'
    <3>1. WriteOrder(s)'
      <4>1. WriteOrder(s)
        BY DEF OrderOK
      <4>2. QED
        BY <1>1, <1>2, <2>2, <2>a, <4>1, Phases DEF WriteOrder, Unwritten
    <3>2. ASSUME NEW o \in Sequence, o # s PROVE WriteOrder(o)'
      <4>1. WriteOrder(o) /\ writes'[o] = writes[o]
        BY <2>2, <3>2 DEF OrderOK
      <4>2. QED
        BY <1>1, <2>a, <4>1 DEF WriteOrder, Unwritten
    <3>3. QED
      BY <1>1, <2>a, <3>1, <3>2 DEF OrderOK
  <2>6. OutcomesOK'
    <3>1. WriteOutcome(s)'
      BY <1>1, <1>3, <2>1, <2>2, Zenon DEF WriteOutcome
    <3>2. ASSUME NEW o \in Sequence, o # s PROVE WriteOutcome(o)'
      <4>1. WriteOutcome(o) /\ writes'[o] = writes[o]
        BY <2>2, <3>2 DEF OutcomesOK
      <4>2. QED
        BY <1>1, <2>a, <4>1 DEF WriteOutcome
    <3>3. Accounted'
      BY <1>1, <1>2, <2>1, <2>2, Zenon DEF OutcomesOK, Accounted
    <3>4. QED
      BY <1>1, <2>1, <3>1, <3>2, <3>3 DEF OutcomesOK
  <2>7. FinalOK'
    BY <1>1, <1>2, <2>1, <2>2, Zenon DEF FinalOK
  <2>8. QED
    BY <2>3, <2>4, <2>5, <2>6, <2>7
<1>5. CASE /\ s > mgr.lastAttempted
           /\ writes' = [writes EXCEPT ![s].phase = "locked"]
           /\ mgr' = [mgr EXCEPT !.lastAttempted = s]
  <2>1. /\ writes' \in [Sequence -> Write]
        /\ writes'[s].phase = "locked" /\ writes'[s].sync = writes[s].sync
        /\ writes'[s].success = writes[s].success /\ writes'[s].published = writes[s].published
        /\ \A o \in Sequence \ {s} : writes'[o] = writes[o]
    BY <1>5, PhaseChange, Phases, Zenon DEF TypeOK
  <2>2. /\ mgr' \in Counters /\ mgr'.next = mgr.next /\ mgr'.lastAttempted = s
        /\ mgr'.savedAt = mgr.savedAt /\ mgr'.lastOutcome = mgr.lastOutcome
        /\ mgr'.finalOk = mgr.finalOk
    BY <1>5, Numbers, Zenon DEF TypeOK, Counters
  <2>3. s > disk.main
    BY <1>2, <1>5, Fields DEF OrderOK, WriteOrder, Unwritten
  <2>4. TypeOK'
    BY <1>1, <2>1, <2>2 DEF TypeOK
  <2>5. FilesOK'
    BY <1>1, <1>2, <2>1 DEF FilesOK, BackupIsRecent
  <2>6. OrderOK'
    <3>1. WriteOrder(s)'
      BY <1>1, <1>3, <2>1, <2>2, <2>3, Fields, Phases DEF WriteOrder
    <3>2. ASSUME NEW o \in Sequence, o # s PROVE WriteOrder(o)'
      BY <3>2, <1>1, <1>2, <1>5, <2>1, <2>2, Fields, Phases DEF OrderOK, WriteOrder, Unwritten
    <3>3. QED
      BY <1>1, <1>3, <2>2, <3>1, <3>2 DEF OrderOK
  <2>7. OutcomesOK'
    <3>1. ASSUME NEW o \in Sequence PROVE WriteOutcome(o)'
      <4>1. writes'[o].success = writes[o].success /\ writes'[o].published = writes[o].published
        BY <2>1
      <4>2. writes[o].success => writes'[o].phase = "done"
        BY <1>2, <2>1 DEF OutcomesOK, WriteOutcome
      <4>3. o < mgr.lastAttempted => o < mgr'.lastAttempted
        BY <1>5, <2>2, Fields
      <4>4. QED
        BY <1>1, <4>1, <4>2, <4>3 DEF OutcomesOK, WriteOutcome
    <3>2. Accounted'
      BY <1>1, <1>2, <2>1, <2>2 DEF OutcomesOK, Accounted
    <3>3. QED
      BY <1>1, <2>2, <3>1, <3>2 DEF OutcomesOK
  <2>8. FinalOK'
    BY <1>1, <1>2, <2>1, <2>2 DEF FinalOK
  <2>a. QED
    BY <2>4, <2>5, <2>6, <2>7, <2>8
<1>6. QED
  <2>1. mgr.attemptOk \in BOOLEAN
    BY DEF TypeOK, Counters
  <2>2. CASE s <= mgr.newerFailed /\ mgr.newerFailed > mgr.lastAttempted
    BY <2>2, <1>4, Zenon DEF Enter
  <2>3. CASE ~(s <= mgr.newerFailed /\ mgr.newerFailed > mgr.lastAttempted)
             /\ s <= mgr.lastAttempted
    <3>1. s < mgr.lastAttempted
      BY <2>3, <1>3, Fields
    <3>2. writes' = Finished(s, mgr.attemptOk, FALSE) /\ mgr' = mgr
      BY <2>3, Zenon DEF Enter
    <3>3. QED
      BY <2>1, <3>1, <3>2, <1>4, Zenon
  <2>4. CASE ~(s <= mgr.newerFailed /\ mgr.newerFailed > mgr.lastAttempted)
             /\ ~(s <= mgr.lastAttempted)
    <3>1. s > mgr.lastAttempted
      BY <2>4, Fields
    <3>2. QED
      BY <2>4, <3>1, <1>5, Zenon DEF Enter
  <2>5. QED
    BY <2>2, <2>3, <2>4

\* The temporary copy is made of an intact checkpoint file: no temporary file
\* of this process is there, so that nothing is written through a link
LEMMA CopyBackupKeeps ==
  ASSUME CheckpointAssumption, CheckpointInv, NEW s \in Sequence, NEW link \in BOOLEAN,
         CopyBackup(s, link)
  PROVE  CheckpointInv' /\ disk'.main = disk.main
<1> USE DEF CheckpointInv
<1>1. /\ mgr' = mgr /\ failing' = failing /\ mode' = mode /\ paused' = paused
      /\ installed' = installed /\ writes[s].phase = "locked"
  BY DEF CopyBackup
<1>2. /\ writes' \in [Sequence -> Write]
      /\ writes'[s].phase = "copied" /\ writes'[s].sync = writes[s].sync
      /\ writes'[s].success = writes[s].success /\ writes'[s].published = writes[s].published
      /\ \A o \in Sequence \ {s} : writes'[o] = writes[o]
  BY PhaseChange, Phases, Zenon DEF CopyBackup, TypeOK
<1>3. \A o \in Sequence \ {s} : writes[o].phase \notin Locked
  BY <1>1, OneLocked, Phases
<1>4. disk.temp = Absent /\ ~disk.linked
  <2>1. \A o \in Sequence : writes[o].phase # "copied"
    BY <1>1, <1>3, Phases
  <2>2. mode \in Alive
    BY <1>1 DEF FinalOK, TypeOK, Alive
  <2>3. QED
    BY <2>1, <2>2 DEF FilesOK
<1>5. /\ disk' \in Files /\ disk'.main = disk.main /\ disk'.backup = disk.backup
      /\ disk'.temp = disk.main /\ (disk'.temp = Absent => ~disk'.linked)
  BY <1>4, Zenon DEF CopyBackup, LinkedBackup, CopiedBackup, TypeOK, Files
<1>6. TypeOK'
  BY <1>1, <1>2, <1>5 DEF TypeOK
<1>7. FilesOK'
  <2>1. BackupIsRecent'
    BY <1>1, <1>5 DEF FilesOK, BackupIsRecent
  <2>2. \A o \in Sequence : writes'[o].phase # "rotated"
    BY <1>2, <1>3, Phases
  <2>3. QED
    BY <1>2, <1>5, <2>1, <2>2 DEF FilesOK
<1>8. OrderOK'
  <2>1. ASSUME NEW o \in Sequence PROVE WriteOrder(o)'
    BY <1>1, <1>2, <1>5, Phases DEF OrderOK, WriteOrder, Unwritten
  <2>2. QED
    BY <1>1, <1>5, <2>1 DEF OrderOK
<1>9. OutcomesOK'
  <2>1. ASSUME NEW o \in Sequence PROVE WriteOutcome(o)'
    BY <1>1, <1>2, <1>5 DEF OutcomesOK, WriteOutcome
  <2>2. Accounted'
    BY <1>1, <1>2, <1>5 DEF OutcomesOK, Accounted
  <2>3. QED
    BY <1>1, <1>5, <2>1, <2>2 DEF OutcomesOK
<1>10. FinalOK'
  BY <1>1, <1>2, <1>5 DEF FinalOK
<1>11. QED
  BY <1>5, <1>6, <1>7, <1>8, <1>9, <1>10

\* The backup becomes a copy of the checkpoint file
LEMMA ReplaceBackupKeeps ==
  ASSUME CheckpointAssumption, CheckpointInv, NEW s \in Sequence, ReplaceBackup(s)
  PROVE  CheckpointInv'
<1> USE DEF CheckpointInv
<1>1. /\ mgr' = mgr /\ failing' = failing /\ mode' = mode /\ paused' = paused
      /\ installed' = installed /\ writes[s].phase = "copied"
  BY DEF ReplaceBackup
<1>2. /\ writes' \in [Sequence -> Write]
      /\ writes'[s].phase = "rotated" /\ writes'[s].sync = writes[s].sync
      /\ writes'[s].success = writes[s].success /\ writes'[s].published = writes[s].published
      /\ \A o \in Sequence \ {s} : writes'[o] = writes[o]
  BY PhaseChange, Phases, Zenon DEF ReplaceBackup, TypeOK
<1>3. \A o \in Sequence \ {s} : writes[o].phase \notin Locked
  BY <1>1, OneLocked, Phases
<1>4. disk.temp = disk.main
  BY <1>1 DEF FilesOK
<1>5. /\ disk' \in Files /\ disk'.main = disk.main /\ disk'.backup = disk.main
      /\ disk'.temp = Absent /\ ~disk'.linked
  <2>1. CASE disk.temp = Absent
    <3>1. disk.backup = Absent
      BY <1>4, <2>1, NoMainNoBackup DEF FilesOK
    <3>2. QED
      BY <1>4, <2>1, <3>1, Zenon DEF ReplaceBackup, FilesOK, TypeOK
  <2>2. CASE disk.temp # Absent
    BY <1>4, <2>2, Numbers, Zenon DEF ReplaceBackup, TypeOK, Files
  <2>3. QED
    BY <2>1, <2>2
<1>6. TypeOK'
  BY <1>1, <1>2, <1>5 DEF TypeOK
<1>7. FilesOK'
  <2>1. BackupIsRecent'
    BY <1>1, <1>5 DEF FilesOK, BackupIsRecent
  <2>2. \A o \in Sequence : writes'[o].phase # "copied"
    BY <1>2, <1>3, Phases
  <2>3. Absent # Broken
    BY DEF Absent, Broken
  <2>4. QED
    BY <1>5, <2>1, <2>2, <2>3 DEF FilesOK
<1>8. OrderOK'
  <2>1. ASSUME NEW o \in Sequence PROVE WriteOrder(o)'
    BY <1>1, <1>2, <1>5, Phases DEF OrderOK, WriteOrder, Unwritten
  <2>2. QED
    BY <1>1, <1>5, <2>1 DEF OrderOK
<1>9. OutcomesOK'
  <2>1. ASSUME NEW o \in Sequence PROVE WriteOutcome(o)'
    BY <1>1, <1>2, <1>5 DEF OutcomesOK, WriteOutcome
  <2>2. Accounted'
    BY <1>1, <1>2, <1>5 DEF OutcomesOK, Accounted
  <2>3. QED
    BY <1>1, <1>5, <2>1, <2>2 DEF OutcomesOK
<1>10. FinalOK'
  BY <1>1, <1>2, <1>5 DEF FinalOK
<1>11. QED
  BY <1>6, <1>7, <1>8, <1>9, <1>10

\* The checkpoint file is replaced by a newer snapshot, and what it held is the
\* backup
LEMMA ReplaceCheckpointKeeps ==
  ASSUME CheckpointAssumption, CheckpointInv, NEW s \in Sequence, ReplaceCheckpoint(s)
  PROVE  CheckpointInv' /\ disk'.main > disk.main
<1> USE DEF CheckpointInv
<1>1. /\ mgr' = mgr /\ failing' = failing /\ mode' = mode /\ paused' = paused
      /\ installed' = Append(installed, s) /\ installed' \in Seq(Sequence)
      /\ writes[s].phase = "rotated"
  BY DEF ReplaceCheckpoint, TypeOK
<1>2. /\ writes' \in [Sequence -> Write]
      /\ writes'[s].phase = "installed" /\ writes'[s].sync = writes[s].sync
      /\ writes'[s].success = writes[s].success /\ writes'[s].published = writes[s].published
      /\ \A o \in Sequence \ {s} : writes'[o] = writes[o]
  BY PhaseChange, Phases, Zenon DEF ReplaceCheckpoint, TypeOK
<1>3. \A o \in Sequence \ {s} : writes[o].phase \notin Locked
  BY <1>1, OneLocked, Phases
<1>4. s = mgr.lastAttempted /\ s <= mgr.next /\ s > disk.main /\ disk.backup = disk.main
  BY <1>1, Phases DEF OrderOK, WriteOrder, FilesOK
<1>5. /\ disk' \in Files /\ disk'.main = s /\ disk'.backup = disk.backup
      /\ disk'.temp = disk.temp /\ ~disk'.linked
  BY Numbers, Zenon DEF ReplaceCheckpoint, TypeOK, Files
<1>6. TypeOK'
  BY <1>1, <1>2, <1>5 DEF TypeOK
<1>7. BackupIsRecent'
  <2>1. CASE Len(installed) = 0
    <3>1. installed' = <<s>>
      BY <1>1, <2>1 DEF TypeOK
    <3>2. QED
      BY <1>5, <2>1, <3>1 DEF FilesOK, BackupIsRecent
  <2>2. CASE Len(installed) > 0
    <3>1. /\ Len(installed') = Len(installed) + 1 /\ installed'[Len(installed) + 1] = s
          /\ installed'[Len(installed)] = installed[Len(installed)] /\ Len(installed) \in Nat
      BY <2>2, <1>1 DEF TypeOK
    <3>2. disk.backup = installed[Len(installed)]
      BY <1>4, <2>2 DEF FilesOK, BackupIsRecent
    <3>3. disk'.main = installed'[Len(installed')] /\ Len(installed') # 0
      BY <3>1, <1>5
    <3>4. Len(installed') # 1 /\ disk'.backup = installed'[Len(installed') - 1]
      BY <3>1, <3>2, <1>5, <2>2
    <3>5. QED
      BY <3>3, <3>4 DEF BackupIsRecent
  <2>3. QED
    BY <2>1, <2>2 DEF TypeOK
<1>8. FilesOK'
  <2>1. \A o \in Sequence : /\ writes[o].phase # "copied"
                            /\ writes'[o].phase \notin {"copied", "rotated"}
    BY <1>1, <1>2, <1>3, Phases
  <2>2. s # Broken
    BY Numbers
  <2>3. QED
    BY <1>1, <1>5, <1>7, <2>1, <2>2 DEF FilesOK
<1>9. OrderOK'
  <2>1. WriteOrder(s)'
    BY <1>1, <1>2, <1>4, <1>5, Phases DEF WriteOrder, Unwritten
  <2>2. ASSUME NEW o \in Sequence, o # s PROVE WriteOrder(o)'
    <3>1. writes'[o] = writes[o] /\ writes[o].phase \notin Locked
      BY <2>2, <1>2, <1>3
    <3>2. WriteOrder(o)
      BY DEF OrderOK
    <3>3. /\ mgr.lastAttempted \in Int /\ disk.main \in Int /\ o \in Int
          /\ s \in Int
      BY Fields
    <3>4. QED
      BY <2>2, <1>1, <1>4, <1>5, <3>1, <3>2, <3>3, Phases DEF WriteOrder, Unwritten
  <2>3. QED
    BY <1>1, <1>4, <1>5, <2>1, <2>2, Fields DEF OrderOK
<1>10. OutcomesOK'
  <2>1. ASSUME NEW o \in Sequence PROVE WriteOutcome(o)'
    <3>1. CASE o = s
      <4>1. ~writes[s].success /\ ~writes[s].published
        BY <1>1 DEF OutcomesOK, WriteOutcome
      <4>2. QED
        BY <3>1, <4>1, <1>2 DEF WriteOutcome
    <3>2. CASE o # s
      <4>1. (o <= disk.main => o <= disk'.main) /\ o # disk'.main
        BY <3>2, <1>4, <1>5, Fields
      <4>2. writes'[o] = writes[o]
        BY <3>2, <1>2
      <4>3. QED
        BY <1>1, <4>1, <4>2 DEF OutcomesOK, WriteOutcome
    <3>3. QED
      BY <3>1, <3>2
  <2>2. Accounted'
    BY <1>2, <1>5 DEF Accounted
  <2>3. mgr'.lastOutcome > disk'.main => failing'
    BY <1>1, <1>4, <1>5, Fields DEF OutcomesOK
  <2>4. QED
    BY <2>1, <2>2, <2>3 DEF OutcomesOK
<1>11. FinalOK'
  BY <1>1, <1>2 DEF FinalOK
<1>12. QED
  BY <1>4, <1>5, <1>6, <1>8, <1>9, <1>10, <1>11

\* A write that installed its snapshot reports it
LEMMA PublishKeeps ==
  ASSUME CheckpointAssumption, CheckpointInv, NEW s \in Sequence, Publish(s)
  PROVE  CheckpointInv'
<1> USE DEF CheckpointInv
<1>1. /\ disk' = disk /\ failing' = failing /\ mode' = mode /\ paused' = paused
      /\ installed' = installed /\ writes[s].phase = "installed"
  BY DEF Publish
<1>2. /\ writes' \in [Sequence -> Write]
      /\ writes'[s].phase = "done" /\ writes'[s].sync = writes[s].sync
      /\ writes'[s].success = TRUE /\ writes'[s].published = TRUE
      /\ \A o \in Sequence \ {s} : writes'[o] = writes[o]
  BY FinishChange, Zenon DEF Publish, TypeOK
<1>3. /\ mgr' \in Counters /\ mgr'.next = mgr.next /\ mgr'.lastAttempted = mgr.lastAttempted
      /\ mgr'.savedAt = mgr.savedAt /\ mgr'.lastOutcome = mgr.lastOutcome
      /\ mgr'.finalOk = mgr.finalOk
  BY Zenon DEF Publish, TypeOK, Counters
<1>4. disk.main = s /\ s <= mgr.next
  BY <1>1 DEF OrderOK, WriteOrder
<1>5. TypeOK'
  BY <1>1, <1>2, <1>3 DEF TypeOK
<1>6. FilesOK'
  BY <1>1, <1>2 DEF FilesOK, BackupIsRecent
<1>7. OrderOK'
  <2>1. ASSUME NEW o \in Sequence PROVE WriteOrder(o)'
    BY <1>1, <1>2, <1>3, <1>4, Phases DEF OrderOK, WriteOrder, Unwritten
  <2>2. QED
    BY <1>1, <1>3, <2>1 DEF OrderOK
<1>8. OutcomesOK'
  <2>1. WriteOutcome(s)'
    BY <1>1, <1>2, <1>4, Fields DEF WriteOutcome
  <2>2. ASSUME NEW o \in Sequence, o # s PROVE WriteOutcome(o)'
    BY <2>2, <1>1, <1>2, <1>3 DEF OutcomesOK, WriteOutcome
  <2>3. Accounted'
    BY <1>1, <1>2, <1>4 DEF Accounted
  <2>4. QED
    BY <1>1, <1>3, <2>1, <2>2, <2>3 DEF OutcomesOK
<1>9. FinalOK'
  BY <1>1, <1>2, <1>3 DEF FinalOK
<1>10. QED
  BY <1>5, <1>6, <1>7, <1>8, <1>9

\* A write that fails at any point leaves both files as they are
LEMMA PublishFailsKeeps ==
  ASSUME CheckpointAssumption, Faults = {}, CheckpointInv, NEW s \in Sequence,
         NEW cleaned \in BOOLEAN, PublishFails(s, cleaned)
  PROVE  CheckpointInv'
<1> USE DEF CheckpointInv
<1>1. /\ failing' = failing /\ mode' = mode /\ paused' = paused
      /\ installed' = installed /\ writes[s].phase \in Locked /\ disk' = CleanedUp(disk)
  BY DEF PublishFails
<1>2. /\ writes' \in [Sequence -> Write]
      /\ writes'[s].phase = "done" /\ writes'[s].sync = writes[s].sync
      /\ writes'[s].success = FALSE /\ writes'[s].published = FALSE
      /\ \A o \in Sequence \ {s} : writes'[o] = writes[o]
  BY FinishChange, Zenon DEF PublishFails, TypeOK
<1>3. /\ mgr' \in Counters /\ mgr'.next = mgr.next /\ mgr'.lastAttempted = mgr.lastAttempted
      /\ mgr'.savedAt = mgr.savedAt /\ mgr'.lastOutcome = mgr.lastOutcome
      /\ mgr'.finalOk = mgr.finalOk
  BY Zenon DEF PublishFails, TypeOK, Counters
<1>4. /\ disk' \in Files /\ disk'.main = disk.main /\ disk'.backup = disk.backup
      /\ disk'.temp = Absent /\ ~disk'.linked
  BY <1>1, Numbers, Zenon DEF CleanedUp, TypeOK, Files
<1>5. \A o \in Sequence : writes'[o].phase \notin Locked
  BY <1>1, <1>2, OneLocked, Phases
<1>6. s <= mgr.next
  BY <1>1, Phases DEF OrderOK, WriteOrder
<1>7. TypeOK'
  BY <1>1, <1>2, <1>3, <1>4 DEF TypeOK
<1>8. FilesOK'
  <2>1. BackupIsRecent'
    BY <1>1, <1>4 DEF FilesOK, BackupIsRecent
  <2>2. Absent # Broken
    BY DEF Absent, Broken
  <2>3. QED
    BY <1>4, <1>5, <2>1, <2>2, Phases DEF FilesOK
<1>9. OrderOK'
  <2>1. ASSUME NEW o \in Sequence PROVE WriteOrder(o)'
    BY <1>2, <1>3, <1>4, <1>6, Phases DEF OrderOK, WriteOrder, Unwritten
  <2>2. QED
    BY <1>3, <1>4, <2>1 DEF OrderOK
<1>10. OutcomesOK'
  <2>1. WriteOutcome(s)'
    BY <1>2 DEF WriteOutcome
  <2>2. ASSUME NEW o \in Sequence, o # s PROVE WriteOutcome(o)'
    BY <2>2, <1>2, <1>3, <1>4 DEF OutcomesOK, WriteOutcome
  <2>3. Accounted'
    BY <1>1, <1>2, <1>3, <1>4 DEF OutcomesOK, Accounted
  <2>4. QED
    BY <1>1, <1>3, <1>4, <2>1, <2>2, <2>3 DEF OutcomesOK
<1>11. FinalOK'
  <2>1. writes[s].phase # "none"
    BY <1>1, Phases
  <2>2. QED
    BY <1>1, <1>2, <1>3, <1>4, <2>1 DEF FinalOK
<1>12. QED
  BY <1>7, <1>8, <1>9, <1>10, <1>11

\* The outcome of a write is recorded: an older outcome does not hide a newer
\* one, whatever the order in which they arrive
LEMMA ResolveKeeps ==
  ASSUME CheckpointAssumption, CheckpointInv, NEW s \in Sequence, Resolve(s)
  PROVE  CheckpointInv'
<1> USE DEF CheckpointInv
<1> DEFINE success == writes[s].success
           published == writes[s].published
           final == mode = "final" /\ writes[s].sync
           counts == s >= mgr.lastOutcome /\ ~(success /\ ~published)
<1>1. /\ disk' = disk /\ paused' = paused /\ installed' = installed
      /\ writes[s].phase = "done" /\ mode' = IF final THEN "stopped" ELSE mode
  BY DEF Resolve
<1>2. /\ writes' \in [Sequence -> Write] /\ writes'[s] = NoWrite
      /\ \A o \in Sequence \ {s} : writes'[o] = writes[o]
  BY NoWriteFields DEF Resolve, TypeOK
<1>3. /\ mgr' \in Counters /\ failing' \in BOOLEAN
      /\ mgr'.next = mgr.next /\ mgr'.lastAttempted = mgr.lastAttempted
      /\ mgr'.savedAt = (IF success /\ published /\ s > mgr.savedAt THEN s ELSE mgr.savedAt)
      /\ mgr'.lastOutcome = (IF counts THEN s ELSE mgr.lastOutcome)
      /\ failing' = (IF counts THEN ~success ELSE failing)
      /\ mgr'.finalOk = (final /\ success)
  <2> DEFINE m == [mgr EXCEPT !.finalOk = final /\ success]
             saved == IF success /\ published /\ s > m.savedAt THEN [m EXCEPT !.savedAt = s] ELSE m
  <2>1. /\ m \in Counters /\ m.next = mgr.next /\ m.lastAttempted = mgr.lastAttempted
        /\ m.savedAt = mgr.savedAt /\ m.lastOutcome = mgr.lastOutcome
        /\ m.finalOk = (final /\ success)
    BY Zenon DEF TypeOK, Counters
  <2>2. /\ mgr' = IF counts THEN [saved EXCEPT !.lastOutcome = s] ELSE saved
        /\ failing' = IF counts THEN ~success ELSE failing
    BY <2>1 DEF Resolve, Record, Recorded
  <2> HIDE DEF m
  <2>3. /\ saved \in Counters /\ saved.next = mgr.next /\ saved.lastAttempted = mgr.lastAttempted
        /\ saved.savedAt = (IF success /\ published /\ s > mgr.savedAt THEN s ELSE mgr.savedAt)
        /\ saved.lastOutcome = mgr.lastOutcome /\ saved.finalOk = (final /\ success)
    BY <2>1, Numbers DEF Counters
  <2> HIDE DEF saved
  <2>4. mgr' \in Counters
    BY <2>2, <2>3, Numbers DEF Counters
  <2>5. /\ mgr'.next = mgr.next /\ mgr'.lastAttempted = mgr.lastAttempted
        /\ mgr'.savedAt = saved.savedAt /\ mgr'.finalOk = saved.finalOk
        /\ mgr'.lastOutcome = (IF counts THEN s ELSE mgr.lastOutcome)
    BY <2>2, <2>3 DEF Counters
  <2>6. failing' \in BOOLEAN
    BY <2>2, Zenon DEF TypeOK
  <2>7. QED
    BY <2>2, <2>3, <2>4, <2>5, <2>6
<1>4. /\ success => s <= disk.main \/ (~published /\ s < mgr.lastAttempted)
      /\ published => success /\ s <= disk.main
      /\ success /\ ~published => s < mgr.lastAttempted /\ s # disk.main
      /\ s <= mgr.next /\ mode \in Alive
  <2>1. WriteOutcome(s) /\ s <= mgr.next
    BY <1>1 DEF OutcomesOK, OrderOK, WriteOrder
  <2>2. mode \in Alive
    BY <1>1 DEF FinalOK, TypeOK, Alive
  <2>3. QED
    BY <2>1, <2>2 DEF WriteOutcome
<1>5. TypeOK'
  BY <1>1, <1>2, <1>3 DEF TypeOK
<1>6. FilesOK'
  <2>1. \A o \in Sequence : /\ writes'[o].phase # "none" => writes'[o] = writes[o]
                            /\ writes[o].phase = "copied" => writes'[o] = writes[o]
    BY <1>1, <1>2, NoWriteFields
  <2>2. QED
    BY <1>1, <1>4, <2>1 DEF FilesOK, BackupIsRecent
<1>7. OrderOK'
  <2>1. ASSUME NEW o \in Sequence PROVE WriteOrder(o)'
    BY <1>1, <1>2, <1>3, NoWriteFields, Phases DEF OrderOK, WriteOrder, Unwritten
  <2>2. mgr'.savedAt <= disk.main
    BY <1>3, <1>4, Fields DEF OrderOK
  <2>3. mgr'.lastOutcome <= mgr'.next
    BY <1>3, <1>4, Fields DEF OrderOK
  <2>4. QED
    BY <1>1, <1>3, <2>1, <2>2, <2>3 DEF OrderOK
<1>8. OutcomesOK'
  <2>1. WriteOutcome(s)'
    BY <1>2, NoWriteFields DEF WriteOutcome
  <2>2. ASSUME NEW o \in Sequence, o # s PROVE WriteOutcome(o)'
    BY <2>2, <1>1, <1>2, <1>3 DEF OutcomesOK, WriteOutcome
  <2>3. mgr'.lastOutcome > disk.main => failing'
    <3>1. CASE counts
      <4>1. success => s <= disk.main
        BY <3>1, <1>4
      <4>2. QED
        BY <3>1, <4>1, <1>3, Fields
    <3>2. CASE ~counts
      BY <3>2, <1>3 DEF OutcomesOK
    <3>3. QED
      BY <3>1, <3>2
  <2>4. Accounted'
    <3>1. SUFFICES ASSUME mgr'.savedAt # disk.main,
                          ~\E o \in Sequence : o = disk.main /\ writes'[o].phase \in {"installed", "done"}
                   PROVE  failing' /\ mgr'.lastOutcome >= disk.main
      BY <1>1 DEF Accounted
    <3>2. mgr.savedAt # disk.main
      BY <3>1, <1>3, <1>4, Fields
    <3>3. ~(success /\ published /\ s = disk.main)
      BY <3>1, <1>3, <3>2, Fields DEF OrderOK
    <3>4. CASE s = disk.main
      <4>1. ~success
        BY <3>3, <3>4, <1>4
      <4>2. CASE s >= mgr.lastOutcome
        BY <4>1, <4>2, <3>4, <1>3, Fields
      <4>3. CASE ~(s >= mgr.lastOutcome)
        BY <4>3, <3>4, <1>3, Fields DEF OutcomesOK
      <4>4. QED
        BY <4>2, <4>3
    <3>5. CASE s # disk.main
      <4>1. failing /\ mgr.lastOutcome >= disk.main
        BY <3>1, <3>2, <3>5, <1>2, <1>4 DEF OutcomesOK, Accounted
      <4>2. CASE counts
        <5>1. s > disk.main
          BY <4>1, <4>2, <3>5, Fields
        <5>2. ~success
          BY <5>1, <4>2, <1>4, Fields
        <5>3. QED
          BY <4>2, <5>1, <5>2, <1>3, Fields
      <4>3. CASE ~counts
        BY <4>1, <4>3, <1>3
      <4>4. QED
        BY <4>2, <4>3
    <3>6. QED
      BY <3>4, <3>5
  <2>5. QED
    BY <1>1, <2>1, <2>2, <2>3, <2>4 DEF OutcomesOK
<1>9. FinalOK'
  <2>1. CASE final
    <3>1. s = mgr.next /\ \A o \in Sequence : writes[o].phase # "none" => o = s
      BY <2>1, <1>1 DEF FinalOK
    <3>2. \A o \in Sequence : writes'[o].phase = "none"
      BY <3>1, <1>2, NoWriteFields
    <3>3. success => disk.main = mgr.next
      BY <3>1, <1>4, Fields DEF OrderOK
    <3>4. QED
      BY <2>1, <3>2, <3>3, <1>1, <1>3, Zenon DEF FinalOK
  <2>2. CASE ~final
    <3>1. mode # "stopped" /\ mode' = mode
      BY <2>2, <1>1 DEF FinalOK
    <3>2. \A o \in Sequence : writes'[o].phase # "none" => writes'[o] = writes[o]
      BY <1>2, NoWriteFields
    <3>3. ~mgr'.finalOk
      BY <2>2, <1>3, Zenon
    <3>4. QED
      BY <3>1, <3>2, <3>3, <1>1, <1>3, <1>4 DEF FinalOK, Alive
  <2>3. QED
    BY <2>1, <2>2
<1>10. QED
  BY <1>5, <1>6, <1>7, <1>8, <1>9

\* A new process reads the checkpoint file itself and agrees with it
LEMMA RestartKeeps ==
  ASSUME CheckpointAssumption, Faults = {}, CheckpointInv, NEW samePid \in BOOLEAN,
         Restart(samePid)
  PROVE  CheckpointInv'
<1> USE DEF CheckpointInv
<1>1. disk' = CleanedUp(disk) /\ writes' = writes /\ paused' = paused /\ installed' = installed
  BY DEF Restart
<1>2. /\ disk' \in Files /\ disk'.main = disk.main /\ disk'.backup = disk.backup
      /\ disk'.temp = Absent /\ ~disk'.linked
  BY <1>1, Numbers, Zenon DEF CleanedUp, TypeOK, Files
<1>3. disk.main \in 0 .. MaxSequence
  BY Fields, Numbers DEF FilesOK
<1>4. mgr' = NewManager(mgr.next, disk.main) /\ failing' \in BOOLEAN /\ mode' = "running"
  <2>1. CASE disk.main \in Sequence
    <3> DEFINE usable == {f \in {"main", "backup"} : disk[f] \in Sequence}
    <3>1. "main" \in usable
      BY <2>1
    <3>2. /\ mgr' = NewManager(mgr.next, disk.main) /\ mode' = "running"
          /\ failing' = (disk.main \in paused)
      BY <3>1 DEF Restart
    <3>3. QED
      BY <3>2
  <2>2. CASE disk.main \notin Sequence
    <3>1. disk.main = Absent
      BY <2>2, Fields, Numbers DEF FilesOK
    <3>2. disk.backup = Absent /\ Absent \notin Sequence
      BY <3>1, NoMainNoBackup, Numbers DEF FilesOK
    <3>3. QED
      BY <3>1, <3>2, Zenon DEF Restart
  <2>3. QED
    BY <2>1, <2>2
<1>5. /\ mgr' \in Counters /\ mgr'.next = mgr.next /\ mgr'.lastAttempted = 0
      /\ mgr'.savedAt = disk.main /\ mgr'.lastOutcome = 0 /\ mgr'.finalOk = FALSE
  BY <1>3, <1>4, Numbers DEF NewManager, TypeOK, Counters
<1>6. \A s \in Sequence : writes[s].phase = "none" /\ ~writes[s].success /\ ~writes[s].published
  BY DEF Restart, FinalOK, OutcomesOK, WriteOutcome
<1>7. mgr.next >= 0 /\ disk.main >= 0
  BY <1>3 DEF TypeOK, Counters
<1>8. TypeOK'
  BY <1>1, <1>2, <1>4, <1>5 DEF TypeOK
<1>9. FilesOK'
  <2>1. BackupIsRecent'
    BY <1>1, <1>2 DEF FilesOK, BackupIsRecent
  <2>2. Absent # Broken
    BY DEF Absent, Broken
  <2>3. QED
    BY <1>1, <1>2, <1>6, <2>1, <2>2 DEF FilesOK
<1>10. OrderOK'
  <2>1. \A s \in Sequence : WriteOrder(s)'
    BY <1>1, <1>6, Phases DEF WriteOrder, Unwritten
  <2>2. QED
    BY <1>2, <1>5, <1>7, <2>1, Fields DEF OrderOK
<1>11. OutcomesOK'
  <2>1. \A s \in Sequence : WriteOutcome(s)'
    BY <1>1, <1>6 DEF WriteOutcome
  <2>2. Accounted'
    BY <1>2, <1>5 DEF Accounted
  <2>3. ~(mgr'.lastOutcome > disk'.main)
    BY <1>2, <1>5, <1>7, Fields
  <2>4. QED
    BY <2>1, <2>2, <2>3 DEF OutcomesOK
<1>12. FinalOK'
  BY <1>4, <1>5 DEF FinalOK
<1>13. QED
  BY <1>8, <1>9, <1>10, <1>11, <1>12

\* The steps of the event loop: a snapshot is taken or cannot be taken, the
\* server stops, the process is killed
LEMMA LoopStepsKeep ==
  ASSUME CheckpointAssumption, CheckpointInv,
         PinSkipped \/ PinFailed \/ WriteAsync \/ WriteSync
           \/ StopBegin \/ StopFinal \/ StopFinalFailed \/ Crash
  PROVE  CheckpointInv'
<1> USE DEF CheckpointInv
<1>1. CASE PinSkipped
  <2>1. /\ mgr' \in Counters /\ mgr'.next = mgr.next + 1
        /\ mgr'.lastAttempted = mgr.lastAttempted /\ mgr'.savedAt = mgr.savedAt
        /\ mgr'.lastOutcome = mgr.lastOutcome /\ mgr'.finalOk = mgr.finalOk
    BY <1>1, Numbers, Zenon DEF PinSkipped, CanCapture, Pinned, NextSequence, TypeOK, Counters
  <2>2. /\ disk' = disk /\ writes' = writes /\ failing' = failing /\ mode' = mode
        /\ paused' = paused /\ installed' = installed /\ mode = "running"
    BY <1>1 DEF PinSkipped
  <2>3. TypeOK'
    BY <2>1, <2>2 DEF TypeOK
  <2>4. FilesOK'
    BY <2>2 DEF FilesOK, BackupIsRecent
  <2>5. OrderOK'
    BY <2>1, <2>2, Fields DEF OrderOK, WriteOrder
  <2>6. OutcomesOK'
    BY <2>1, <2>2 DEF OutcomesOK, WriteOutcome, Accounted
  <2>7. FinalOK'
    BY <2>1, <2>2 DEF FinalOK
  <2>8. QED
    BY <2>3, <2>4, <2>5, <2>6, <2>7
<1>2. CASE PinFailed
  <2>1. mode = "running" /\ mode' = "running" /\ ~mgr.finalOk
    BY <1>2 DEF PinFailed, FinalOK
  <2>2. TypeOK' /\ FilesOK' /\ OrderOK' /\ OutcomesOK'
    BY <1>2, <2>1, FailureKeeps DEF PinFailed, Alive
  <2>3. FinalOK'
    BY <1>2, <2>1, FailureRecorded, Zenon DEF PinFailed, FinalOK
  <2>4. QED
    BY <2>2, <2>3
<1>3. CASE WriteAsync
  <2>1. mode = "running" /\ mode' = "running" /\ ~mgr.finalOk /\ CanCapture
    BY <1>3 DEF WriteAsync, FinalOK
  <2>2. CASE Cardinality(Background) >= MAX_BACKGROUND_WRITES
    <3>1. FixedFailure(NextSequence) /\ UNCHANGED <<disk, writes, paused, installed>>
      BY <1>3, <2>2 DEF WriteAsync
    <3>2. TypeOK' /\ FilesOK' /\ OrderOK' /\ OutcomesOK'
      BY <2>1, <3>1, FailureKeeps DEF Alive
    <3>3. FinalOK'
      BY <2>1, <3>1, FailureRecorded, Zenon DEF FinalOK
    <3>4. QED
      BY <3>2, <3>3
  <2>3. CASE ~(Cardinality(Background) >= MAX_BACKGROUND_WRITES)
    <3>1. /\ Capture(NextSequence, FALSE) /\ mgr' = Pinned(NextSequence)
          /\ UNCHANGED <<disk, failing, installed>>
      BY <1>3, <2>3, Zenon DEF WriteAsync
    <3>2. TypeOK' /\ FilesOK' /\ OrderOK' /\ OutcomesOK'
      BY <2>1, <3>1, CaptureKeeps, Zenon DEF Alive
    <3>3. mgr'.finalOk = mgr.finalOk
      BY <3>1 DEF Pinned, TypeOK, Counters
    <3>4. FinalOK'
      BY <2>1, <3>3 DEF FinalOK
    <3>5. QED
      BY <3>2, <3>4
  <2>4. QED
    BY <2>2, <2>3
<1>4. CASE WriteSync
  <2>1. mode = "running" /\ mode' = "running" /\ ~mgr.finalOk
    BY <1>4 DEF WriteSync, FinalOK
  <2>2. TypeOK' /\ FilesOK' /\ OrderOK' /\ OutcomesOK'
    BY <1>4, <2>1, CaptureKeeps, Zenon DEF WriteSync, Alive
  <2>3. mgr'.finalOk = mgr.finalOk
    BY <1>4 DEF WriteSync, Pinned, TypeOK, Counters
  <2>4. QED
    BY <2>1, <2>2, <2>3 DEF FinalOK
<1>5. CASE StopBegin
  <2>1. /\ disk' = disk /\ mgr' = mgr /\ writes' = writes /\ failing' = failing
        /\ paused' = paused /\ installed' = installed /\ mode = "running" /\ mode' = "stopping"
    BY <1>5 DEF StopBegin
  <2>2. TypeOK'
    BY <2>1 DEF TypeOK
  <2>3. FilesOK' /\ OrderOK'
    BY <2>1 DEF FilesOK, BackupIsRecent, OrderOK, WriteOrder, Alive
  <2>4. OutcomesOK' /\ FinalOK'
    BY <2>1 DEF OutcomesOK, WriteOutcome, Accounted, Alive, FinalOK
  <2>5. QED
    BY <2>2, <2>3, <2>4
<1>6. CASE StopFinal
  <2>1. /\ mode = "stopping" /\ mode' = "final" /\ ~mgr.finalOk
        /\ CanCapture /\ Capture(NextSequence, TRUE) /\ mgr' = Pinned(NextSequence)
        /\ \A s \in Sequence : writes[s].phase = "none"
    BY <1>6, Drained, Zenon DEF StopFinal, CanCapture, FinalOK, TypeOK
  <2>2. TypeOK' /\ FilesOK' /\ OrderOK' /\ OutcomesOK'
    BY <1>6, <2>1, CaptureKeeps, Zenon DEF StopFinal, Alive
  <2>3. mgr'.finalOk = mgr.finalOk /\ mgr'.next = NextSequence
    BY <2>1 DEF Pinned, TypeOK, Counters
  <2>4. NextSequence \in Sequence
    BY <2>1, Numbers DEF CanCapture, NextSequence, TypeOK, Counters
  <2>5. /\ writes'[NextSequence].sync = TRUE
        /\ \A o \in Sequence \ {NextSequence} : writes'[o] = writes[o]
    BY <2>1, <2>4, CaptureChange, Zenon DEF TypeOK
  <2>6. FinalOK'
    BY <2>1, <2>3, <2>5 DEF FinalOK
  <2>7. QED
    BY <2>2, <2>6
<1>7. CASE StopFinalFailed
  <2>1. /\ mode = "stopping" /\ mode' = "stopped" /\ ~mgr.finalOk /\ writes' = writes
        /\ CanCapture /\ FixedFailure(NextSequence)
        /\ \A s \in Sequence : writes[s].phase = "none"
    BY <1>7, Drained DEF StopFinalFailed, CanCapture, FinalOK, TypeOK
  <2>2. TypeOK' /\ FilesOK' /\ OrderOK' /\ OutcomesOK'
    BY <1>7, <2>1, FailureKeeps DEF StopFinalFailed, Alive
  <2>3. FinalOK'
    BY <2>1, FailureRecorded, Zenon DEF FinalOK
  <2>4. QED
    BY <2>2, <2>3
<1>8. CASE Crash
  <2>1. /\ disk' = disk /\ mgr' = mgr /\ failing' = failing /\ paused' = paused
        /\ installed' = installed /\ mode' = "dead" /\ ~mgr.finalOk
        /\ writes' = [s \in Sequence |-> NoWrite]
    BY <1>8 DEF Crash, FinalOK
  <2>2. /\ writes' \in [Sequence -> Write]
        /\ \A s \in Sequence : /\ writes'[s].phase = "none" /\ writes'[s].success = FALSE
                               /\ writes'[s].published = FALSE
    BY <2>1, NoWriteFields
  <2>3. TypeOK'
    BY <2>1, <2>2 DEF TypeOK
  <2>4. FilesOK'
    BY <2>1, <2>2 DEF FilesOK, BackupIsRecent, Alive
  <2>5. OrderOK'
    BY <2>1, <2>2, Phases DEF OrderOK, WriteOrder, Unwritten
  <2>6. OutcomesOK'
    BY <2>1, <2>2 DEF OutcomesOK, WriteOutcome, Accounted, Alive
  <2>7. FinalOK'
    BY <2>1, <2>2 DEF FinalOK
  <2>8. QED
    BY <2>3, <2>4, <2>5, <2>6, <2>7
<1>9. QED
  BY <1>1, <1>2, <1>3, <1>4, <1>5, <1>6, <1>7, <1>8

\* A new server satisfies the invariant
LEMMA InitKeeps ==
  ASSUME CheckpointAssumption, Init
  PROVE  CheckpointInv
<1>1. /\ disk \in Files /\ disk.main = Absent /\ disk.backup = Absent /\ disk.temp = Absent
      /\ ~disk.linked
  BY Numbers DEF Init, Files
<1>2. /\ mgr \in Counters /\ mgr.next = 0 /\ mgr.lastAttempted = 0 /\ mgr.savedAt = 0
      /\ mgr.lastOutcome = 0 /\ ~mgr.finalOk
  BY Numbers DEF Init, NewManager, Counters
<1>3. /\ writes \in [Sequence -> Write]
      /\ \A s \in Sequence : /\ writes[s].phase = "none" /\ writes[s].success = FALSE
                             /\ writes[s].published = FALSE
  BY NoWriteFields DEF Init
<1>4. failing = FALSE /\ mode = "running" /\ paused = {} /\ installed = <<>>
  BY DEF Init
<1>5. TypeOK
  <2>1. installed \in Seq(Sequence)
    BY <1>4
  <2>2. QED
    BY <1>1, <1>2, <1>3, <1>4, <2>1, Zenon DEF TypeOK
<1>6. FilesOK
  BY <1>1, <1>3, <1>4 DEF FilesOK, BackupIsRecent, Absent, Broken
<1>7. OrderOK
  BY <1>1, <1>2, <1>3, Phases DEF OrderOK, WriteOrder, Unwritten, Absent
<1>8. OutcomesOK
  BY <1>1, <1>2, <1>3 DEF OutcomesOK, WriteOutcome, Accounted, Absent
<1>9. FinalOK
  BY <1>2, <1>3, <1>4 DEF FinalOK
<1>10. QED
  BY <1>5, <1>6, <1>7, <1>8, <1>9 DEF CheckpointInv

\* Every step keeps the invariant, and only ReplaceCheckpoint changes the file
LEMMA NextKeeps ==
  ASSUME CheckpointAssumption, Faults = {}, CheckpointInv, [Next]_vars
  PROVE  CheckpointInv' /\ (disk'.main # disk.main => disk'.main > disk.main)
<1>1. ASSUME PinSkipped \/ PinFailed \/ WriteAsync \/ WriteSync
               \/ StopBegin \/ StopFinal \/ StopFinalFailed \/ Crash
      PROVE  CheckpointInv' /\ disk' = disk
  BY <1>1, LoopStepsKeep, Zenon DEF PinSkipped, PinFailed, WriteAsync, WriteSync, StopBegin,
                             StopFinal, StopFinalFailed, Crash
<1>2. ASSUME NEW s \in Sequence, NEW valid \in BOOLEAN, Prepare(s, valid)
      PROVE  CheckpointInv' /\ disk' = disk
  BY <1>2, PrepareKeeps, Zenon DEF Prepare
<1>3. ASSUME NEW s \in Sequence, Enter(s) \/ Publish(s) \/ Resolve(s)
      PROVE  CheckpointInv' /\ disk' = disk
  BY <1>3, EnterKeeps, PublishKeeps, ResolveKeeps, Zenon DEF Enter, Publish, Resolve
<1>4. ASSUME NEW s \in Sequence, NEW link \in BOOLEAN, CopyBackup(s, link)
      PROVE  CheckpointInv' /\ disk'.main = disk.main
  BY <1>4, CopyBackupKeeps
<1>5. ASSUME NEW s \in Sequence, ReplaceBackup(s)
      PROVE  CheckpointInv' /\ disk'.main = disk.main
  BY <1>5, ReplaceBackupKeeps, Zenon DEF ReplaceBackup, CheckpointInv, TypeOK, Files
<1>6. ASSUME NEW s \in Sequence, ReplaceCheckpoint(s)
      PROVE  CheckpointInv' /\ disk'.main > disk.main
  BY <1>6, ReplaceCheckpointKeeps
<1>7. ASSUME NEW s \in Sequence, NEW cleaned \in BOOLEAN, PublishFails(s, cleaned)
      PROVE  CheckpointInv' /\ disk'.main = disk.main
  BY <1>7, PublishFailsKeeps, Zenon DEF PublishFails, CleanedUp, CheckpointInv, TypeOK, Files
<1>8. ASSUME NEW samePid \in BOOLEAN, Restart(samePid)
      PROVE  CheckpointInv' /\ disk'.main = disk.main
  BY <1>8, RestartKeeps, Zenon DEF Restart, CleanedUp, CheckpointInv, TypeOK, Files
<1>9. CASE UNCHANGED vars
  <2>1. TypeOK' /\ FilesOK' /\ FinalOK'
    BY <1>9 DEF vars, CheckpointInv, TypeOK, FilesOK, BackupIsRecent, FinalOK
  <2>2. OrderOK' /\ OutcomesOK'
    BY <1>9 DEF vars, CheckpointInv, OrderOK, WriteOrder, OutcomesOK, WriteOutcome, Accounted
  <2>3. QED
    BY <1>9, <2>1, <2>2 DEF vars, CheckpointInv
<1>10. QED
  BY <1>1, <1>2, <1>3, <1>4, <1>5, <1>6, <1>7, <1>8, <1>9 DEF Next

-----------------------------------------------------------------------------
(* The results *)

\* The inductive invariant holds in every behaviour of the checkpoint manager
THEOREM CheckpointIsInvariant ==
  ASSUME Faults = {}
  PROVE  Spec => []CheckpointInv
<1>1. Init => CheckpointInv
  BY CheckpointAssumption, InitKeeps
<1>2. CheckpointInv /\ [Next]_vars => CheckpointInv'
  BY CheckpointAssumption, NextKeeps
<1>3. QED
  BY <1>1, <1>2, PTL DEF Spec

\* Saves overtake each other, are given up, fail or are killed, and the process
\* is started again: the checkpoint file is never replaced by an older view
THEOREM CheckpointNeverOlder ==
  ASSUME Faults = {}
  PROVE  Spec => NeverOlder
<1>1. CheckpointInv /\ [Next]_vars => [disk'.main # disk.main => disk'.main > disk.main]_vars
  BY CheckpointAssumption, NextKeeps
<1>2. QED
  BY <1>1, CheckpointIsInvariant, PTL DEF Spec, NeverOlder

\* Whatever write failed or was killed halfway, the checkpoint file is the last
\* snapshot installed, and the backup is it or the one before it
THEOREM CheckpointBackupIsRecent ==
  ASSUME Faults = {}
  PROVE  Spec => []BackupIsRecent
<1>1. CheckpointInv => BackupIsRecent
  BY DEF CheckpointInv, FilesOK
<1>2. QED
  BY <1>1, CheckpointIsInvariant, PTL

\* With no write under way and no checkpoint failure, last_checkpoint_at of
\* server-status is the time of the snapshot in the checkpoint file
THEOREM CheckpointStatusIsHonest ==
  ASSUME Faults = {}
  PROVE  Spec => []StatusIsHonest
<1>1. CheckpointInv => StatusIsHonest
  <2>1. SUFFICES ASSUME CheckpointInv, mode \in {"running", "stopping"},
                        In(Phase \ {"none"}) = {}, ~failing
                 PROVE  mgr.savedAt = disk.main
    BY DEF StatusIsHonest
  <2>2. \A s \in Sequence : writes[s].phase \notin {"installed", "done"}
    BY <2>1, Phases DEF In
  <2>3. QED
    BY <2>1, <2>2 DEF CheckpointInv, OutcomesOK, Accounted, Alive
<1>2. QED
  BY <1>1, CheckpointIsInvariant, PTL

\* A stop that reports success leaves the view it took last in the checkpoint
\* file, and no write that could still change it
THEOREM CheckpointFinalIsLast ==
  ASSUME Faults = {}
  PROVE  Spec => []FinalIsLast
<1>1. CheckpointInv => FinalIsLast
  BY DEF CheckpointInv, FinalOK, FinalIsLast, In
<1>2. QED
  BY <1>1, CheckpointIsInvariant, PTL
=============================================================================
