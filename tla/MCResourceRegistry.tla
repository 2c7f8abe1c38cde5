------------------------- MODULE MCResourceRegistry -------------------------
(***************************************************************************)
(* Two callers, two meshes and a texture: two misses of one mesh, of two   *)
(* meshes behind one lock, and of assets behind different locks.           *)
(***************************************************************************)
EXTENDS ResourceRegistry
=============================================================================
