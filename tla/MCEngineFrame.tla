---------------------------- MODULE MCEngineFrame ----------------------------
(***************************************************************************)
(* Three frames, two objects to update and two assets that rendering may   *)
(* ask for: a load can still be queued or running one and two frames later *)
(* and when the shutdown begins.                                           *)
(***************************************************************************)
EXTENDS EngineFrame
=============================================================================
