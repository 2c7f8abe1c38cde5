------------------------- MODULE MCPipelineTargets --------------------------
(***************************************************************************)
(* One of each kind: a shader, the depth test, the constants as a table,   *)
(* two back buffers, a section in which the depth target and two buffers   *)
(* may be sampled.  Back buffers are alike, and so are the buffers.        *)
(***************************************************************************)
EXTENDS PipelineState, TLC

MCSectionOf == [s \in Srv |-> 0]

MCSymmetry == Permutations(BackBuffer) \cup Permutations(Item)

(* Forgotten is what no action and no property reads before it is replaced: a
   descriptor that the next commit makes (only a render target can be unbound
   before that), a flag in need that it adds, and what the list has where the
   next draw sets it again. *)
Wanted == need \cup (dirty \cap Committed)
Marked(x, flags) == FlagOf(x) \in flags /\ (x \in Srv => SectionOf[x] \in stale)
Committing(x) == x \in Table \cup {"DepthBuffers"} /\ Marked(x, dirty) /\ bound[x] # Null
SetAgain(x) == IF x \in Targets THEN Wanted \cap Targets # {} ELSE Marked(x, Wanted)

MCView ==
  <<dirty, Wanted, stale, desc, numRt, bound, root, resourceVars,
    [x \in Slot |-> IF Committing(x) THEN Unset ELSE cpu[x]],
    [x \in Slot |-> IF SetAgain(x) THEN Unset ELSE list[x]],
    IF IsPsoDirty(dirty) THEN Unset ELSE pso>>
=============================================================================
