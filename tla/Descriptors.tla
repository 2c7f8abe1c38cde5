----------------------------- MODULE Descriptors -----------------------------
(***************************************************************************)
(* Descriptors: the CPU heaps of the context, which hand single            *)
(* descriptors to resources and take them back, and the ring of shader-    *)
(* visible descriptors, into which each draw copies its changed tables.    *)
(*                                                                         *)
(* A descriptor does not know its resource, a resource is not told when    *)
(* its descriptor goes to another, and the ring does not know what the GPU *)
(* still reads: it is the free lists and the lengths that must work out.   *)
(***************************************************************************)
EXTENDS Naturals, FiniteSets

CONSTANTS
  Made,        \* images and buffers that the program creates
  ViewsOf,     \* the views their creators register for each of them
  NumFrames,   \* back buffers
  HeapSize,    \* of each CPU heap
  NumTables,   \* the sections of shader resources, and the constants (the last)
  Width,       \* of each table, in descriptors
  MaxWidth,    \* the widest
  RingSize,    \* maxGpuBufferDescriptors
  None,        \* no resource, no descriptor
  MaxUsed,     \* bound: no draw in a frame that has used more of the ring
  MaxRebuilds  \* bound: rebuilds of the swap chain

Heap == {"buffer", "rtv", "dsv"}
View == {"srv", "cbv", "rtv", "dsv"}
HeapOf(v) == IF v \in {"srv", "cbv"} THEN "buffer" ELSE v
Descriptor(h) == 0 .. HeapSize[h] - 1

Frame == 0 .. NumFrames - 1
BackBuffer(f, n) == <<f, n>>       \* _backBuffers[f] after n rebuilds
Resource == Made \cup {BackBuffer(f, n) : f \in Frame, n \in 0 .. MaxRebuilds}

Table == 1 .. NumTables
Slot(t) == 0 .. Width[t] - 1
ViewOf(t) == IF t = NumTables THEN "cbv" ELSE "srv"
Position == 0 .. RingSize - 1

ASSUME DescriptorAssumption ==
  /\ NumFrames \in Nat \ {0} /\ MaxRebuilds \in Nat
  /\ HeapSize \in [Heap -> Nat] /\ HeapSize["rtv"] >= NumFrames
  /\ NumTables \in Nat \ {0} /\ RingSize \in Nat /\ MaxWidth \in 1 .. RingSize
  /\ Width \in [Table -> 1 .. MaxWidth]
  /\ ViewsOf \in [Made -> SUBSET View]
  /\ Made \cap (Nat \X Nat) = {}
  /\ None \notin Resource \cup Nat \cup (Resource \X View)

VARIABLES
  free,      \* _freeIndices of each heap: how often it holds an index
  view,      \* what each descriptor of a heap describes
  status,    \* of a resource: new, held, dropped (no caller has it), gone
  handle,    \* _srvDescriptor, _cbvDescriptor, ... of each resource
  rebuilds,  \* how often the swap chain was rebuilt (history)
  bound,     \* the resource bound in each slot of each table
  dirty,     \* the tables to copy
  drawing,   \* in bind_shader_resources
  top,       \* _currentTop of the ring
  ring,      \* the resource each descriptor of the ring describes
  used,      \* _frameCount of the ring's allocator
  tables     \* the tables the frame's command list has set

heaps == <<free, view, status, handle, rebuilds>>
recording == <<bound, dirty, drawing, top, ring, used, tables>>
vars == <<free, view, status, handle, rebuilds, bound, dirty, drawing, top, ring,
          used, tables>>

TypeOK ==
  /\ DOMAIN free = Heap /\ DOMAIN view = Heap /\ DOMAIN bound = Table
  /\ \A h \in Heap : free[h] \in [Descriptor(h) -> Nat]
  /\ \A h \in Heap : view[h] \in [Descriptor(h) -> (Resource \X View) \cup {None}]
  /\ status \in [Made -> {"new", "held", "dropped", "gone"}]
  /\ handle \in [Resource -> [View -> Nat \cup {None}]]
  /\ rebuilds \in 0 .. MaxRebuilds
  /\ \A t \in Table : bound[t] \in [Slot(t) -> Made \cup {None}]
  /\ dirty \subseteq Table /\ drawing \in BOOLEAN
  /\ top \in 0 .. RingSize /\ used \in Nat
  /\ ring \in [Position -> Resource \cup {None}]
  /\ \A e \in tables : /\ e.table \in Table /\ e.start \in Position
                        /\ e.start + Width[e.table] <= RingSize
                        /\ e.shows \in [Slot(e.table) -> Made \cup {None}]

IsFirst(r) == \E f \in Frame : r = BackBuffer(f, 0)

Init ==
  /\ free = [h \in Heap |-> [d \in Descriptor(h) |->
               IF h = "rtv" /\ d \in Frame THEN 0 ELSE 1]]
  /\ view = [h \in Heap |-> [d \in Descriptor(h) |->
               IF h = "rtv" /\ d \in Frame THEN <<BackBuffer(d, 0), "rtv">> ELSE None]]
  /\ status = [r \in Made |-> "new"]
  /\ handle = [r \in Resource |-> [v \in View |->
               IF v = "rtv" /\ IsFirst(r) THEN r[1] ELSE None]]
  /\ rebuilds = 0
  /\ bound = [t \in Table |-> [i \in Slot(t) |-> None]]
  /\ dirty = {} /\ drawing = FALSE
  /\ top = 0 /\ ring = [p \in Position |-> None] /\ used = 0 /\ tables = {}

-----------------------------------------------------------------------------
(* Resources.  Loading jobs and the render thread create and drop them; the
   queue of a heap is concurrent and keeps no order among its producers. *)

Create(r) ==
  /\ status[r] = "new"
  /\ status' = [status EXCEPT ![r] = "held"]
  /\ UNCHANGED <<free, view, handle, rebuilds, recording>>

(* register_..._view: allocate() throws when the heap is empty. *)
Register(r, v) ==
  /\ status[r] = "held" /\ v \in ViewsOf[r] /\ handle[r][v] = None
  /\ \E d \in Descriptor(HeapOf(v)) :
       /\ free[HeapOf(v)][d] > 0
       /\ free' = [free EXCEPT ![HeapOf(v)][d] = @ - 1]
       /\ view' = [view EXCEPT ![HeapOf(v)][d] = <<r, v>>]
       /\ handle' = [handle EXCEPT ![r][v] = d]
  /\ UNCHANGED <<status, rebuilds, recording>>

(* No caller has it any more; what is bound keeps it. *)
Drop(r) ==
  /\ status[r] = "held"
  /\ status' = [status EXCEPT ![r] = "dropped"]
  /\ UNCHANGED <<free, view, handle, rebuilds, recording>>

IsBound(r) == \E t \in Table : \E i \in Slot(t) : bound[t][i] = r

(* A defect: a view of constants is not given back. *)
FreedButConstants(r) ==
  [h \in Heap |-> [d \in Descriptor(h) |->
    free[h][d] + Cardinality({v \in View \ {"cbv"} : HeapOf(v) = h /\ handle[r][v] = d})]]

(* free_descriptors *)
Freed(r) ==
  [h \in Heap |-> [d \in Descriptor(h) |->
    free[h][d] + Cardinality({v \in View : HeapOf(v) = h /\ handle[r][v] = d})]]

(* ~D3D12_VoidResource, at any time after the last pointer outside has gone:
   the locks of a frame may put it off. *)
Release(r) ==
  /\ status[r] = "dropped" /\ ~IsBound(r)
  /\ status' = [status EXCEPT ![r] = "gone"]
  /\ free' = Freed(r)
  /\ handle' = [handle EXCEPT ![r] = [v \in View |-> None]]
  /\ UNCHANGED <<view, rebuilds, recording>>

-----------------------------------------------------------------------------
(* Recording. *)

(* bind_resource, bind_constant *)
BindResource(t, i, r) ==
  /\ ~drawing
  /\ status[r] = "held" /\ handle[r][ViewOf(t)] # None
  /\ bound' = [bound EXCEPT ![t][i] = r]
  /\ dirty' = dirty \cup {t}
  /\ UNCHANGED <<heaps, drawing, top, ring, used, tables>>

(* pre_draw *)
PreDraw ==
  /\ ~drawing /\ dirty # {} /\ used <= MaxUsed
  /\ drawing' = TRUE
  /\ UNCHANGED <<heaps, bound, dirty, top, ring, used, tables>>

(* Two defects: it never wraps; the range at the start is not marked as taken. *)
RingRangeUnbounded(w) == [start |-> top, top |-> top + w]
RingRangeTopLost(w) == IF top + w > RingSize THEN [start |-> 0, top |-> 0]
                                         ELSE [start |-> top, top |-> top + w]

(* DescriptorRingBuffer::allocate: where the range starts, and _currentTop. *)
RingRange(w) == IF top + w > RingSize THEN [start |-> 0, top |-> w]
                                  ELSE [start |-> top, top |-> top + w]

(* What the descriptor of a slot describes: the default one, which nobody
   frees, where nothing was ever bound. *)
Describes(t, i) ==
  IF bound[t][i] = None THEN None
                        ELSE view["buffer"][handle[bound[t][i]][ViewOf(t)]][1]

(* bind_shader_resources: the handles of the bound resources, a range of the
   ring, a copy of the descriptors, the root table; table by table. *)
CopyTable(t) ==
  /\ drawing /\ t \in dirty /\ \A s \in dirty : t <= s
  /\ LET range == RingRange(Width[t]) IN
       /\ top' = range.top
       /\ used' = used + Width[t]
       /\ ring' = [p \in Position |->
                    IF p >= range.start /\ p < range.start + Width[t]
                      THEN Describes(t, p - range.start) ELSE ring[p]]
       /\ tables' = tables \cup {[table |-> t, start |-> range.start, shows |-> bound[t]]}
  /\ dirty' = dirty \ {t}
  /\ drawing' = (dirty' # {})
  /\ UNCHANGED <<heaps, bound>>

(* build_swapchain, when there is one: it frees the descriptors of the back
   buffers, and frees them again where it replaces the buffers one by one.
   Two buffers may so be given the same descriptor. *)
Rebuild ==
  LET Old(f) == handle[BackBuffer(f, rebuilds)]["rtv"]
      Times(to, d) == Cardinality({f \in Frame : to[f] = d})
      old == [f \in Frame |-> Old(f)]
  IN /\ rebuilds < MaxRebuilds
     /\ rebuilds' = rebuilds + 1
     /\ \E new \in [Frame -> Descriptor("rtv")] :
          /\ \A d \in Descriptor("rtv") :
               free["rtv"][d] + 2 * Times(old, d) >= Times(new, d)
          /\ free' = [free EXCEPT !["rtv"] = [d \in Descriptor("rtv") |->
                        free["rtv"][d] + 2 * Times(old, d) - Times(new, d)]]
          /\ view' = [view EXCEPT !["rtv"] = [d \in Descriptor("rtv") |->
                        IF \E f \in Frame : new[f] = d
                          THEN <<BackBuffer(CHOOSE f \in Frame : new[f] = d, rebuilds'), "rtv">>
                          ELSE view["rtv"][d]]]
          /\ handle' = [r \in Resource |->
                        IF \E f \in Frame : r = BackBuffer(f, rebuilds')
                          THEN [handle[r] EXCEPT !["rtv"] = new[r[1]]]
                          ELSE handle[r]]
     /\ UNCHANGED status

(* present waits until the GPU has executed the list; begin_new_frame may
   rebuild the swap chain; frame_ended sets every flag, but not those of the
   sections. *)
Present ==
  /\ ~drawing
  /\ tables' = {} /\ used' = 0
  /\ dirty' = dirty \cup {NumTables}
  /\ Rebuild \/ UNCHANGED heaps
  /\ UNCHANGED <<bound, drawing, top, ring>>

Next ==
  \/ \E r \in Made : Create(r) \/ Drop(r) \/ Release(r)
  \/ \E r \in Made : \E v \in View : Register(r, v)
  \/ \E t \in Table : \E i \in Slot(t) : \E r \in Made : BindResource(t, i, r)
  \/ PreDraw
  \/ \E t \in Table : CopyTable(t)
  \/ Present

Spec == Init /\ [][Next]_vars

-----------------------------------------------------------------------------
(* Properties. *)

Exists(r) == \/ r \in Made /\ status[r] \in {"held", "dropped"}
             \/ \E f \in Frame : r = BackBuffer(f, rebuilds)

Owners(h, d) ==
  {o \in Resource \X View : Exists(o[1]) /\ HeapOf(o[2]) = h /\ handle[o[1]][o[2]] = d}

(* Whatever order resources are created and dropped in, from any thread, a
   descriptor is in the free list of its heap once and describes nothing that
   exists, or is not in it and is that of the one view it describes: none is
   lost, none given twice.  Only the double free of a rebuild breaks it, and
   only for render targets. *)
OneOwner ==
  \A h \in Heap : (h = "rtv" => rebuilds = 0) =>
    \A d \in Descriptor(h) :
      \/ free[h][d] = 1 /\ Owners(h, d) = {}
      \/ free[h][d] = 0 /\ Owners(h, d) = {view[h][d]}

(* The largest use of the ring by one frame that is safe wherever it starts:
   a wrap leaves up to MaxWidth - 1 descriptors behind. *)
FrameFits == used + MaxWidth - 1 <= RingSize

(* The GPU reads the tables of a list after the whole frame is recorded.  As
   long as the frame fits in the ring, each of them still describes the
   resources that were bound at its draw, although the ring wraps without
   asking, and bindings and resources have come and gone since. *)
TablesIntact ==
  FrameFits => \A e \in tables : \A i \in Slot(e.table) :
                 ring[e.start + i] = e.shows[i]
=============================================================================
