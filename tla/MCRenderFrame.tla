---------------------------- MODULE MCRenderFrame ----------------------------
(* One size of constants, one kind of shadow map, one temporary.           *)
EXTENDS RenderFrame
CONSTANTS t, l, s, d
MCTemp == {t}
MCList == {l}
MCSize == {s}
MCDesc == {d}
MCSlot == {"constants", "section"}
MCResource == MCTemp \cup ((MCSize \cup MCDesc) \X (1 .. MaxMade))
=============================================================================
