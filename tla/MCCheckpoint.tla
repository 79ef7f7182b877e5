--------------------------- MODULE MCCheckpoint ---------------------------
(***************************************************************************)
(* Checkpoint with room for one waiting and one running background write   *)
(* and four captures: enough for a write that is overtaken, one that finds *)
(* no room, a final one and one after a restart.                           *)
(***************************************************************************)
EXTENDS Checkpoint
=============================================================================
