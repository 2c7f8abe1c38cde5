---------------------------- MODULE MCRenderNodes ----------------------------
(***************************************************************************)
(* Two lights; a proxy with a physical material and one with a plain one,  *)
(* which is cut out by an alpha map.                                       *)
(***************************************************************************)
EXTENDS RenderNodes

MCMaps == <<{"normal", "metalness", "roughness"}, {"alpha"}>>
=============================================================================
