---------------------------- MODULE MCDescriptors ----------------------------
(***************************************************************************)
(* A section of two slots and constants of one; a buffer of constants and  *)
(* two shadow maps; one descriptor less than there are views in a heap.    *)
(***************************************************************************)
EXTENDS Descriptors, TLC

CONSTANTS c1, z1, z2

MCViewsOf == [r \in Made |-> IF r = c1 THEN {"cbv"} ELSE {"srv", "dsv"}]
MCHeapSize == [h \in Heap |-> IF h = "dsv" THEN 1 ELSE 2]
MCWidth == <<2, 1>>
MCSymmetry == Permutations({z1, z2})

(* What a descriptor describes does not matter while it is in the free list,
   nor a place of the ring that no table of the frame has. *)
MCView ==
  <<free, [h \in Heap |-> [d \in Descriptor(h) |-> IF free[h][d] > 0 THEN None ELSE view[h][d]]],
    status, handle, rebuilds, bound, dirty, drawing, top,
    [p \in Position |->
       IF \E e \in tables : p \in e.start .. e.start + Width[e.table] - 1 THEN ring[p] ELSE None],
    used, tables>>
=============================================================================
