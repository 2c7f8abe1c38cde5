--------------------------- MODULE MCPipelineBlit ---------------------------
(***************************************************************************)
(* The smallest instance with a blit: a section, an image, a depth image.  *)
(***************************************************************************)
EXTENDS PipelineState

MCSectionOf == [s \in Srv |-> 0]
=============================================================================
