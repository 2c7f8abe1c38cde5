------------------------------ MODULE MCUploads ------------------------------
(***************************************************************************)
(* The render thread and two loading jobs; any of them may upload again.   *)
(***************************************************************************)
EXTENDS Uploads
=============================================================================
