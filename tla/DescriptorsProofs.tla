--------------------------- MODULE DescriptorsProofs ---------------------------
(***************************************************************************)
(* OneOwner and TablesIntact of Descriptors, for any number of resources,  *)
(* heaps of any size, tables of any width and a ring of any length.        *)
(***************************************************************************)
EXTENDS Descriptors, FiniteSetTheorems, TLAPS

-----------------------------------------------------------------------------
(* The inductive invariant. *)

(* A handle is a descriptor of its heap, and what does not exist has none. *)
HandleInv ==
  \A r \in Resource, v \in View :
    /\ handle[r][v] \in Descriptor(HeapOf(v)) \cup {None}
    /\ r \in Made /\ ~Exists(r) => handle[r][v] = None

(* A back buffer is a render target and nothing else. *)
BackInv ==
  \A r \in Resource \ Made, v \in View : v # "rtv" => handle[r][v] = None

(* What is bound exists and has the view its table needs. *)
BoundInv ==
  \A t \in Table : \A i \in Slot(t) :
    bound[t][i] # None => /\ Exists(bound[t][i])
                          /\ handle[bound[t][i]][ViewOf(t)] # None

(* The tables of a frame that has begun at base lie from there to the top or,
   after a wrap at high, from base to high and from 0 to the top. *)
End(e) == e.start + Width[e.table]

Unwrapped(base) ==
  /\ top = base + used
  /\ \A e \in tables : base <= e.start /\ End(e) <= top

Wrapped(base, high) ==
  /\ high > RingSize - MaxWidth
  /\ top = used - (high - base)
  /\ \A e \in tables : (base <= e.start /\ End(e) <= high) \/ End(e) <= top

ArcInv ==
  FrameFits => \E base \in 0 .. RingSize :
                 \/ Unwrapped(base)
                 \/ \E high \in base .. RingSize : Wrapped(base, high)

IInv == TypeOK /\ HandleInv /\ BackInv /\ OneOwner /\ BoundInv /\ ArcInv /\ TablesIntact

-----------------------------------------------------------------------------
(* Finite sets the free lists count with. *)

(* There are four views. *)
LEMMA ViewFinite == IsFiniteSet(View)
<1>1. IsFiniteSet({}) BY FS_EmptySet
<1>2. IsFiniteSet({} \cup {"srv"}) BY <1>1, FS_AddElement
<1>3. IsFiniteSet(({} \cup {"srv"}) \cup {"cbv"}) BY <1>2, FS_AddElement
<1>4. IsFiniteSet((({} \cup {"srv"}) \cup {"cbv"}) \cup {"rtv"}) BY <1>3, FS_AddElement
<1>5. IsFiniteSet(((({} \cup {"srv"}) \cup {"cbv"}) \cup {"rtv"}) \cup {"dsv"})
  BY <1>4, FS_AddElement
<1>6. ((({} \cup {"srv"}) \cup {"cbv"}) \cup {"rtv"}) \cup {"dsv"} = View BY DEF View
<1> QED BY <1>5, <1>6

(* There are finitely many back buffers. *)
LEMMA FrameFinite == IsFiniteSet(Frame)
<1>1. NumFrames - 1 \in Int /\ 0 \in Int BY DescriptorAssumption DEF DescriptorAssumption
<1> QED BY <1>1, FS_Interval DEF Frame

(* How often a frame's buffer is at a descriptor is a number. *)
LEMMA TimesNat ==
  ASSUME NEW S, S \subseteq Frame
  PROVE  Cardinality(S) \in Nat
BY FrameFinite, FS_Subset, FS_CardinalityType

(* Each view has a heap. *)
LEMMA HeapOfView == \A v \in View : HeapOf(v) \in Heap
BY DEF View, HeapOf, Heap

(* A back buffer is not created by the program. *)
LEMMA BackIsNotMade ==
  \A f \in Frame, n \in Nat : BackBuffer(f, n) \notin Made
BY DescriptorAssumption DEF DescriptorAssumption, BackBuffer, Frame

(* What heaps and recording say where nothing of them changes. *)
LEMMA HeapsKept ==
  ASSUME UNCHANGED heaps
  PROVE  /\ \A r : Exists(r)' <=> Exists(r)
         /\ \A h, d : Owners(h, d)' = Owners(h, d)
         /\ HandleInv => HandleInv'
         /\ BackInv => BackInv'
         /\ OneOwner => OneOwner'
<1>1. \A r : Exists(r)' <=> Exists(r) BY DEF heaps, Exists
<1>2. \A h, d : Owners(h, d)' = Owners(h, d) BY <1>1 DEF heaps, Owners
<1>3. HandleInv => HandleInv' BY <1>1 DEF heaps, HandleInv
<1>4. OneOwner => OneOwner' BY <1>2 DEF heaps, OneOwner
<1>5. BackInv => BackInv' BY DEF heaps, BackInv
<1> QED BY <1>1, <1>2, <1>3, <1>4, <1>5

-----------------------------------------------------------------------------
(* The invariant holds at first. *)
LEMMA InitInv == Init => IInv
<1> SUFFICES ASSUME Init PROVE IInv OBVIOUS
<1> USE DescriptorAssumption DEF DescriptorAssumption
<1>0. 0 \in 0 .. MaxRebuilds /\ 0 \in 0 .. RingSize OBVIOUS
<1>1. \A r \in Resource : IsFirst(r) => r[1] \in Frame /\ r = BackBuffer(r[1], 0)
  BY DEF IsFirst, BackBuffer
<1>2. \A f \in Frame : BackBuffer(f, 0) \in Resource BY <1>0 DEF Resource
<1>3. TypeOK
  <2>1. /\ DOMAIN free = Heap /\ \A h \in Heap : free[h] \in [Descriptor(h) -> Nat]
    BY DEF Init
  <2>2. /\ DOMAIN view = Heap
        /\ \A h \in Heap : view[h] \in [Descriptor(h) -> (Resource \X View) \cup {None}]
    BY <1>2 DEF Init, View
  <2>3. handle \in [Resource -> [View -> Nat \cup {None}]]
    BY <1>1 DEF Init, Frame
  <2>4. DOMAIN bound = Table /\ \A t \in Table : bound[t] \in [Slot(t) -> Made \cup {None}]
    BY DEF Init
  <2> QED BY <1>0, <2>1, <2>2, <2>3, <2>4 DEF TypeOK, Init
<1>4. HandleInv
  <2>1. \A r \in Made : ~IsFirst(r) BY BackIsNotMade DEF IsFirst
  <2>2. \A f \in Frame : f \in Descriptor("rtv") BY DEF Frame, Descriptor, Heap
  <2> QED BY <1>1, <2>1, <2>2 DEF HandleInv, Init, HeapOf
<1>5. OneOwner
  <2> SUFFICES ASSUME NEW h \in Heap, NEW d \in Descriptor(h)
               PROVE  \/ free[h][d] = 1 /\ Owners(h, d) = {}
                      \/ free[h][d] = 0 /\ Owners(h, d) = {view[h][d]}
    BY DEF OneOwner
  <2>1. \A o \in Resource \X View :
          o \in Owners(h, d) <=> /\ o[2] = "rtv" /\ h = "rtv"
                                 /\ IsFirst(o[1]) /\ o[1][1] = d
    <3>1. \A r \in Resource : IsFirst(r) => Exists(r) BY DEF IsFirst, Exists, Init
    <3>2. \A r \in Resource, v \in View :
            handle[r][v] = IF v = "rtv" /\ IsFirst(r) THEN r[1] ELSE None
      BY DEF Init
    <3>3. None # d BY DEF Descriptor, Heap
    <3> QED BY <3>1, <3>2, <3>3 DEF Owners, HeapOf
  <2>2. CASE h = "rtv" /\ d \in Frame
    <3>1. free[h][d] = 0 /\ view[h][d] = <<BackBuffer(d, 0), "rtv">> BY <2>2 DEF Init, Heap
    <3>2. BackBuffer(d, 0) \in Resource /\ IsFirst(BackBuffer(d, 0)) /\ BackBuffer(d, 0)[1] = d
      BY <1>2, <2>2 DEF IsFirst, BackBuffer
    <3>3. \A r \in Resource : IsFirst(r) /\ r[1] = d => r = BackBuffer(d, 0) BY <1>1
    <3>4. "rtv" \in View BY DEF View
    <3>5. <<BackBuffer(d, 0), "rtv">> \in Owners(h, d) BY <2>1, <2>2, <3>2, <3>4
    <3>6. \A o \in Owners(h, d) : o = <<BackBuffer(d, 0), "rtv">>
      BY <2>1, <3>3 DEF Owners
    <3> QED BY <3>1, <3>5, <3>6
  <2>3. CASE ~(h = "rtv" /\ d \in Frame)
    <3>1. free[h][d] = 1 BY <2>3 DEF Init, Heap
    <3>2. \A o \in Resource \X View : o \notin Owners(h, d)
      BY <1>1, <2>1, <2>3
    <3>3. Owners(h, d) = {} BY <3>2 DEF Owners
    <3> QED BY <3>1, <3>3
  <2> QED BY <2>2, <2>3
<1>6. BoundInv BY DEF BoundInv, Init
<1>7. ArcInv
  <2>1. Unwrapped(0) BY DEF Unwrapped, Init
  <2> QED BY <1>0, <2>1 DEF ArcInv
<1>8. TablesIntact BY DEF TablesIntact, Init
<1>9. BackInv BY DEF BackInv, Init
<1> QED BY <1>3, <1>4, <1>5, <1>6, <1>7, <1>8, <1>9 DEF IInv

-----------------------------------------------------------------------------
(* Resources. *)

(* A step that leaves the ring alone. *)
LEMMA RingKept ==
  ASSUME ArcInv, TablesIntact, UNCHANGED <<top, ring, used, tables>>
  PROVE  ArcInv' /\ TablesIntact'
<1>1. FrameFits' <=> FrameFits BY DEF FrameFits
<1>2. ArcInv' BY <1>1 DEF ArcInv, Unwrapped, Wrapped, End
<1>3. TablesIntact' BY <1>1 DEF TablesIntact
<1> QED BY <1>2, <1>3

(* A new resource has no descriptor yet. *)
LEMMA CreateInv ==
  ASSUME IInv, NEW r \in Made, Create(r)
  PROVE  IInv'
<1> USE DEF IInv
<1>1. TypeOK' BY DEF TypeOK, Create, recording
<1>2. \A s \in Resource : Exists(s)' <=> Exists(s) \/ s = r
  BY DEF Create, Exists, TypeOK
<1>3. ~Exists(r) /\ r \in Resource
  BY BackIsNotMade, DescriptorAssumption DEF Create, Exists, Resource, TypeOK
<1>4. \A v \in View : handle[r][v] = None BY <1>3 DEF HandleInv
<1>5. HandleInv' BY <1>2 DEF HandleInv, Create
<1>6. OneOwner'
  <2>1. \A h \in Heap : \A d \in Descriptor(h) : Owners(h, d)' = Owners(h, d)
    <3> SUFFICES ASSUME NEW h \in Heap, NEW d \in Descriptor(h)
                 PROVE  Owners(h, d)' = Owners(h, d)
      OBVIOUS
    <3>1. None # d BY DescriptorAssumption DEF DescriptorAssumption, Descriptor
    <3> QED BY <1>2, <1>4, <3>1 DEF Owners, Create
  <2> QED BY <2>1 DEF OneOwner, Create
<1>7. BoundInv' BY <1>2 DEF BoundInv, Create, recording, TypeOK, Resource
<1>8. ArcInv' /\ TablesIntact' BY RingKept DEF Create, recording
<1>9. BackInv' BY DEF BackInv, Create
<1> QED BY <1>1, <1>5, <1>6, <1>7, <1>8, <1>9

(* A dropped resource keeps its descriptors. *)
LEMMA DropInv ==
  ASSUME IInv, NEW r \in Made, Drop(r)
  PROVE  IInv'
<1> USE DEF IInv
<1>1. TypeOK' BY DEF TypeOK, Drop, recording
<1>2. \A s : Exists(s)' <=> Exists(s) BY DEF Drop, Exists, TypeOK
<1>3. HandleInv' BY <1>2 DEF HandleInv, Drop
<1>4. \A h, d : Owners(h, d)' = Owners(h, d) BY <1>2 DEF Owners, Drop
<1>5. OneOwner' BY <1>4 DEF OneOwner, Drop
<1>6. BoundInv' BY <1>2 DEF BoundInv, Drop, recording
<1>7. ArcInv' /\ TablesIntact' BY RingKept DEF Drop, recording
<1>8. BackInv' BY DEF BackInv, Drop
<1> QED BY <1>1, <1>3, <1>5, <1>6, <1>7, <1>8

(* The descriptor a view is given was nobody's. *)
LEMMA RegisterInv ==
  ASSUME IInv, NEW r \in Made, NEW v \in View, Register(r, v)
  PROVE  IInv'
<1> USE DEF IInv
<1> DEFINE h0 == HeapOf(v)
<1>0. PICK d0 \in Descriptor(h0) :
        /\ free[h0][d0] > 0
        /\ free' = [free EXCEPT ![h0][d0] = @ - 1]
        /\ view' = [view EXCEPT ![h0][d0] = <<r, v>>]
        /\ handle' = [handle EXCEPT ![r][v] = d0]
  BY DEF Register
<1>1. h0 \in Heap /\ r \in Resource /\ d0 \in Nat /\ d0 # None
  BY HeapOfView, DescriptorAssumption DEF DescriptorAssumption, Descriptor, Resource
<1>2. /\ \A h \in Heap : \A d \in Descriptor(h) :
           free'[h][d] = IF h = h0 /\ d = d0 THEN free[h][d] - 1 ELSE free[h][d]
      /\ \A h \in Heap : \A d \in Descriptor(h) :
           view'[h][d] = IF h = h0 /\ d = d0 THEN <<r, v>> ELSE view[h][d]
      /\ \A s \in Resource : \A w \in View :
           handle'[s][w] = IF s = r /\ w = v THEN d0 ELSE handle[s][w]
  BY <1>0, <1>1 DEF TypeOK
<1>3. TypeOK'
  <2>1. free'[h0] \in [Descriptor(h0) -> Nat] /\ \A h \in Heap \ {h0} : free'[h] = free[h]
    BY <1>0, <1>1 DEF TypeOK
  <2>2. /\ view'[h0] \in [Descriptor(h0) -> (Resource \X View) \cup {None}]
        /\ \A h \in Heap \ {h0} : view'[h] = view[h]
    BY <1>0, <1>1 DEF TypeOK
  <2>3. handle' \in [Resource -> [View -> Nat \cup {None}]] BY <1>0, <1>1 DEF TypeOK
  <2>4. DOMAIN free' = Heap /\ DOMAIN view' = Heap BY <1>0 DEF TypeOK
  <2> QED BY <2>1, <2>2, <2>3, <2>4 DEF TypeOK, Register, recording
<1>4. \A s : Exists(s)' <=> Exists(s) BY DEF Register, Exists
<1>5. Exists(r) /\ handle[r][v] = None BY DEF Register, Exists
<1>6. HandleInv' BY <1>2, <1>4, <1>5 DEF HandleInv
<1>7. OneOwner'
  <2>1. \A h \in Heap : \A d \in Descriptor(h) :
          Owners(h, d)' = IF h = h0 /\ d = d0 THEN Owners(h, d) \cup {<<r, v>>}
                                              ELSE Owners(h, d)
    <3> SUFFICES ASSUME NEW h \in Heap, NEW d \in Descriptor(h), NEW o \in Resource \X View
                 PROVE  o \in Owners(h, d)' <=> \/ o \in Owners(h, d)
                                                \/ h = h0 /\ d = d0 /\ o = <<r, v>>
      BY <1>1 DEF Owners
    <3>1. o[1] \in Resource /\ o[2] \in View /\ o = <<o[1], o[2]>> /\ None # d
      BY DescriptorAssumption DEF DescriptorAssumption, Descriptor
    <3> QED BY <1>1, <1>2, <1>4, <1>5, <3>1 DEF Owners
  <2> SUFFICES ASSUME NEW h \in Heap, h = "rtv" => rebuilds = 0, NEW d \in Descriptor(h)
               PROVE  \/ free'[h][d] = 1 /\ Owners(h, d)' = {}
                      \/ free'[h][d] = 0 /\ Owners(h, d)' = {view'[h][d]}
    BY DEF OneOwner, Register
  <2>2. \/ free[h][d] = 1 /\ Owners(h, d) = {}
        \/ free[h][d] = 0 /\ Owners(h, d) = {view[h][d]}
    BY DEF OneOwner
  <2>3. CASE h = h0 /\ d = d0
    <3>1. free[h][d] = 1 /\ Owners(h, d) = {} BY <1>0, <2>2, <2>3
    <3> QED BY <1>2, <2>1, <2>3, <3>1
  <2>4. CASE ~(h = h0 /\ d = d0) BY <1>2, <2>1, <2>2, <2>4
  <2> QED BY <2>3, <2>4
<1>8. BoundInv'
  <2> SUFFICES ASSUME NEW t \in Table, NEW i \in Slot(t), bound[t][i] # None
               PROVE  Exists(bound[t][i])' /\ handle'[bound[t][i]][ViewOf(t)] # None
    BY DEF BoundInv, Register, recording
  <2>1. bound[t][i] \in Resource /\ ViewOf(t) \in View
    BY DEF TypeOK, Resource, ViewOf, View
  <2>2. Exists(bound[t][i]) /\ handle[bound[t][i]][ViewOf(t)] # None BY DEF BoundInv
  <2>3. bound' = bound BY DEF Register, recording
  <2> QED BY <1>1, <1>2, <1>4, <2>1, <2>2, <2>3
<1>9. ArcInv' /\ TablesIntact' BY RingKept DEF Register, recording
<1>10. BackInv' BY <1>2 DEF BackInv
<1> QED BY <1>3, <1>6, <1>7, <1>8, <1>9, <1>10

(* A resource that is destroyed gives each of its descriptors back once. *)
LEMMA ReleaseInv ==
  ASSUME IInv, NEW r \in Made, Release(r)
  PROVE  IInv'
<1> USE DEF IInv
<1> DEFINE Its(h, d) == {v \in View : HeapOf(v) = h /\ handle[r][v] = d}
<1>0. r \in Resource BY DEF Resource
<1>1. /\ \A h \in Heap : \A d \in Descriptor(h) :
           free'[h][d] = free[h][d] + Cardinality(Its(h, d))
      /\ \A h \in Heap : free'[h] = [d \in Descriptor(h) |-> free[h][d] + Cardinality(Its(h, d))]
      /\ DOMAIN free' = Heap
  BY DEF Release, Freed
<1>2. \A h, d : Cardinality(Its(h, d)) \in Nat
  BY ViewFinite, FS_Subset, FS_CardinalityType
<1>3. TypeOK'
  <2>1. ASSUME NEW h \in Heap PROVE free'[h] \in [Descriptor(h) -> Nat]
    <3>1. \A d \in Descriptor(h) : free[h][d] + Cardinality(Its(h, d)) \in Nat
      <4> HIDE DEF Its
      <4> QED BY <1>2 DEF TypeOK
    <3> QED BY <1>1, <3>1
  <2>2. status' \in [Made -> {"new", "held", "dropped", "gone"}] BY DEF TypeOK, Release
  <2>3. handle' \in [Resource -> [View -> Nat \cup {None}]] BY DEF TypeOK, Release
  <2> QED BY <1>1, <2>1, <2>2, <2>3 DEF TypeOK, Release, recording
<1>4. \A s \in Resource : Exists(s)' <=> Exists(s) /\ s # r
  BY BackIsNotMade, DescriptorAssumption DEF Release, Exists, TypeOK, DescriptorAssumption
<1>5. \A s \in Resource, v \in View : handle'[s][v] = IF s = r THEN None ELSE handle[s][v]
  BY DEF Release, TypeOK
<1>6. HandleInv' BY <1>4, <1>5 DEF HandleInv
<1>7. OneOwner'
  <2> SUFFICES ASSUME NEW h \in Heap, h = "rtv" => rebuilds = 0, NEW d \in Descriptor(h)
               PROVE  \/ free'[h][d] = 1 /\ Owners(h, d)' = {}
                      \/ free'[h][d] = 0 /\ Owners(h, d)' = {view[h][d]}
    BY DEF OneOwner, Release
  <2>1. \/ free[h][d] = 1 /\ Owners(h, d) = {}
        \/ free[h][d] = 0 /\ Owners(h, d) = {view[h][d]}
    BY DEF OneOwner
  <2>2. Exists(r) BY DEF Release, Exists
  <2>3. Owners(h, d)' = {o \in Owners(h, d) : o[1] # r}
    BY <1>4, <1>5 DEF Owners
  <2>4. \A v \in View : v \in Its(h, d) <=> <<r, v>> \in Owners(h, d)
    BY <1>0, <2>2 DEF Owners
  <2>5. CASE \E v \in Its(h, d) : TRUE
    <3>1. PICK v \in Its(h, d) : TRUE BY <2>5
    <3>2. Owners(h, d) = {<<r, v>>} /\ free[h][d] = 0 BY <2>1, <2>4, <3>1
    <3>3. Its(h, d) = {v} BY <2>4, <3>1, <3>2
    <3>4. Cardinality(Its(h, d)) = 1 BY <3>3, FS_Singleton
    <3>5. free'[h][d] = 1
      <4> HIDE DEF Its
      <4> QED BY <1>1, <3>2, <3>4
    <3>6. Owners(h, d)' = {} BY <2>3, <3>2
    <3> QED BY <3>5, <3>6
  <2>6. CASE ~\E v \in Its(h, d) : TRUE
    <3>1. Its(h, d) = {} BY <2>6
    <3>2. free'[h][d] = free[h][d] BY <1>1, <3>1, FS_EmptySet DEF TypeOK
    <3>3. \A o \in Owners(h, d) : o[1] # r
      <4> SUFFICES ASSUME NEW o \in Owners(h, d), o[1] = r PROVE FALSE OBVIOUS
      <4>1. o = <<r, o[2]>> /\ o[2] \in View BY DEF Owners
      <4> QED BY <2>4, <3>1, <4>1
    <3>4. Owners(h, d)' = Owners(h, d) BY <2>3, <3>3
    <3> QED BY <2>1, <3>2, <3>4
  <2> QED BY <2>5, <2>6
<1>8. BoundInv'
  <2> SUFFICES ASSUME NEW t \in Table, NEW i \in Slot(t), bound[t][i] # None
               PROVE  Exists(bound[t][i])' /\ handle'[bound[t][i]][ViewOf(t)] # None
    BY DEF BoundInv, Release, recording
  <2>1. bound[t][i] \in Resource /\ ViewOf(t) \in View
    BY DEF TypeOK, Resource, ViewOf, View
  <2>2. bound[t][i] # r BY DEF Release, IsBound
  <2>3. Exists(bound[t][i]) /\ handle[bound[t][i]][ViewOf(t)] # None BY DEF BoundInv
  <2>4. bound' = bound BY DEF Release, recording
  <2> QED BY <1>4, <1>5, <2>1, <2>2, <2>3, <2>4
<1>9. ArcInv' /\ TablesIntact' BY RingKept DEF Release, recording
<1>10. BackInv' BY <1>5 DEF BackInv
<1> QED BY <1>3, <1>6, <1>7, <1>8, <1>9, <1>10

-----------------------------------------------------------------------------
(* Recording. *)

(* Binding marks a table and copies nothing. *)
LEMMA BindInv ==
  ASSUME IInv, NEW t \in Table, NEW i \in Slot(t), NEW r \in Made, BindResource(t, i, r)
  PROVE  IInv'
<1> USE DEF IInv
<1>1. HandleInv' /\ BackInv' /\ OneOwner' /\ \A s : Exists(s)' <=> Exists(s)
  BY HeapsKept DEF BindResource
<1>2. \A u \in Table : \A j \in Slot(u) :
        bound'[u][j] = IF u = t /\ j = i THEN r ELSE bound[u][j]
  BY DEF BindResource, TypeOK
<1>3. TypeOK'
  <2>1. DOMAIN bound' = Table /\ \A u \in Table : bound'[u] \in [Slot(u) -> Made \cup {None}]
    BY DEF BindResource, TypeOK
  <2> QED BY <2>1 DEF TypeOK, BindResource, heaps
<1>4. BoundInv'
  <2>1. Exists(r) /\ handle[r][ViewOf(t)] # None BY DEF BindResource, Exists
  <2>2. handle' = handle BY DEF BindResource, heaps
  <2> QED BY <1>1, <1>2, <2>1, <2>2 DEF BoundInv
<1>5. ArcInv' /\ TablesIntact' BY RingKept DEF BindResource
<1> QED BY <1>1, <1>3, <1>4, <1>5

(* A draw begins. *)
LEMMA PreDrawInv ==
  ASSUME IInv, PreDraw
  PROVE  IInv'
<1> USE DEF IInv
<1>1. HandleInv' /\ BackInv' /\ OneOwner' /\ \A s : Exists(s)' <=> Exists(s)
  BY HeapsKept DEF PreDraw
<1>2. TypeOK' BY DEF TypeOK, PreDraw, heaps
<1>3. BoundInv' BY <1>1 DEF BoundInv, PreDraw, heaps
<1>4. ArcInv' /\ TablesIntact' BY RingKept DEF PreDraw
<1> QED BY <1>1, <1>2, <1>3, <1>4

(* The descriptor of what is bound describes what is bound. *)
LEMMA DescribesBound ==
  ASSUME TypeOK, HandleInv, OneOwner, BoundInv, NEW t \in Table, NEW i \in Slot(t)
  PROVE  Describes(t, i) = bound[t][i]
<1>1. CASE bound[t][i] = None BY <1>1 DEF Describes
<1>2. CASE bound[t][i] # None
  <2> DEFINE r == bound[t][i]
             v == ViewOf(t)
             d == handle[r][v]
  <2>1. r \in Resource /\ v \in View /\ HeapOf(v) = "buffer" /\ "buffer" \in Heap
    BY <1>2 DEF TypeOK, Resource, ViewOf, View, HeapOf, Heap
  <2>2. Exists(r) /\ d # None BY <1>2 DEF BoundInv
  <2>3. d \in Descriptor("buffer") BY <2>1, <2>2 DEF HandleInv
  <2>4. <<r, v>> \in Owners("buffer", d) BY <2>1, <2>2 DEF Owners
  <2>5. Owners("buffer", d) = {view["buffer"][d]} BY <2>1, <2>3, <2>4 DEF OneOwner
  <2>6. view["buffer"][d] = <<r, v>> BY <2>4, <2>5
  <2> QED BY <1>2, <2>6 DEF Describes
<1> QED BY <1>1, <1>2

(* A range of the ring overwrites none of the frame's tables as long as the
   frame fits, and lies where the next one expects it. *)
LEMMA RangeIsFree ==
  ASSUME TypeOK, ArcInv, NEW w \in 1 .. MaxWidth, used + w + MaxWidth - 1 <= RingSize
  PROVE  /\ RingRange(w).start \in Nat /\ RingRange(w).start + w <= RingSize
         /\ RingRange(w).top \in 0 .. RingSize
         /\ \A e \in tables : End(e) <= RingRange(w).start \/ RingRange(w).start + w <= e.start
         /\ \E base \in 0 .. RingSize :
              \/ /\ RingRange(w).top = base + used + w
                 /\ base <= RingRange(w).start /\ RingRange(w).start + w <= RingRange(w).top
                 /\ \A e \in tables : base <= e.start /\ End(e) <= RingRange(w).top
              \/ \E high \in base .. RingSize :
                   /\ high > RingSize - MaxWidth
                   /\ RingRange(w).top = used + w - (high - base)
                   /\ RingRange(w).start + w <= RingRange(w).top
                   /\ \A e \in tables : \/ base <= e.start /\ End(e) <= high
                                        \/ End(e) <= RingRange(w).top
<1> USE DescriptorAssumption DEF DescriptorAssumption
<1>0. /\ top \in 0 .. RingSize /\ used \in Nat /\ RingSize \in Nat
      /\ MaxWidth \in 1 .. RingSize /\ w \in 1 .. MaxWidth
      /\ used + w + MaxWidth - 1 <= RingSize
  BY DEF TypeOK
<1>1. \A e \in tables : e.start \in Nat /\ End(e) \in Nat /\ e.start <= End(e)
  <2> SUFFICES ASSUME NEW e \in tables
               PROVE  e.start \in Nat /\ End(e) \in Nat /\ e.start <= End(e)
    OBVIOUS
  <2>1. e.table \in Table /\ e.start \in Nat BY <1>0 DEF TypeOK, Position
  <2>2. Width[e.table] \in 1 .. MaxWidth BY <2>1
  <2> QED BY <1>0, <2>1, <2>2 DEF End
<1>2. FrameFits BY <1>0 DEF FrameFits
<1>3. PICK base \in 0 .. RingSize :
        Unwrapped(base) \/ \E high \in base .. RingSize : Wrapped(base, high)
  BY <1>2 DEF ArcInv
<1>4. CASE Unwrapped(base) /\ top + w <= RingSize
  <2>1. RingRange(w) = [start |-> top, top |-> top + w] BY <1>0, <1>4 DEF RingRange
  <2>2. top = base + used /\ \A e \in tables : base <= e.start /\ End(e) <= top
    BY <1>4 DEF Unwrapped
  <2>3. \A e \in tables : End(e) <= top + w BY <1>0, <1>1, <2>2
  <2> QED BY <1>0, <1>1, <1>3, <1>4, <2>1, <2>2, <2>3
<1>5. CASE Unwrapped(base) /\ top + w > RingSize
  <2>1. RingRange(w) = [start |-> 0, top |-> w] BY <1>0, <1>5 DEF RingRange
  <2>2. top = base + used /\ \A e \in tables : base <= e.start /\ End(e) <= top
    BY <1>5 DEF Unwrapped
  <2>3. w <= base BY <1>0, <1>3, <1>5, <2>2
  <2>4. \A e \in tables : w <= e.start BY <1>0, <1>1, <1>3, <2>2, <2>3
  <2>5. w \in 0 .. RingSize /\ w = used + w - (top - base) BY <1>0, <1>3, <2>2
  <2>6. top \in base .. RingSize /\ top > RingSize - MaxWidth BY <1>0, <1>3, <1>5, <2>2
  <2> QED BY <1>0, <1>3, <2>1, <2>2, <2>4, <2>5, <2>6
<1>6. CASE \E high \in base .. RingSize : Wrapped(base, high)
  <2>1. PICK high \in base .. RingSize : Wrapped(base, high) BY <1>6
  <2>2. /\ high > RingSize - MaxWidth /\ top = used - (high - base)
        /\ \A e \in tables : (base <= e.start /\ End(e) <= high) \/ End(e) <= top
    BY <2>1 DEF Wrapped
  <2>3. top + w <= base /\ top + w <= RingSize BY <1>0, <1>3, <2>1, <2>2
  <2>4. RingRange(w) = [start |-> top, top |-> top + w] BY <1>0, <2>3 DEF RingRange
  <2>5. \A e \in tables : End(e) <= top \/ top + w <= e.start
    BY <1>0, <1>1, <1>3, <2>2, <2>3
  <2>6. \A e \in tables : (base <= e.start /\ End(e) <= high) \/ End(e) <= top + w
    BY <1>0, <1>1, <2>2
  <2>7. top + w = used + w - (high - base) BY <1>0, <1>3, <2>1, <2>2
  <2> QED BY <1>0, <1>3, <2>1, <2>2, <2>3, <2>4, <2>5, <2>6, <2>7
<1> QED BY <1>0, <1>3, <1>4, <1>5, <1>6

(* The copy of one table: the arc grows at its top, or wraps. *)
LEMMA CopyTableInv ==
  ASSUME IInv, NEW t \in Table, CopyTable(t)
  PROVE  IInv'
<1> USE DEF IInv
<1> DEFINE w == Width[t]
           start == RingRange(w).start
           new == [table |-> t, start |-> start, shows |-> bound[t]]
<1>0. w \in 1 .. MaxWidth /\ MaxWidth \in 1 .. RingSize /\ RingSize \in Nat /\ used \in Nat
  BY DescriptorAssumption DEF DescriptorAssumption, TypeOK
<1>1. /\ top' = RingRange(w).top /\ used' = used + w /\ tables' = tables \cup {new}
      /\ ring' = [p \in Position |-> IF p >= start /\ p < start + w
                                       THEN Describes(t, p - start) ELSE ring[p]]
      /\ UNCHANGED <<heaps, bound>>
  BY DEF CopyTable
<1>2. HandleInv' /\ BackInv' /\ OneOwner' /\ \A s : Exists(s)' <=> Exists(s)
  BY <1>1, HeapsKept
<1>3. BoundInv' BY <1>1, <1>2 DEF BoundInv, heaps
<1>4. \A i \in Slot(t) : Describes(t, i) = bound[t][i] BY DescribesBound
<1>5. /\ start \in Nat /\ start + w <= RingSize /\ RingRange(w).top \in 0 .. RingSize
  BY <1>0 DEF RingRange, TypeOK
<1>6. Slot(t) = 0 .. w - 1 BY DEF Slot
<1>7. TypeOK'
  <2>1. ring' \in [Position -> Resource \cup {None}]
    <3> SUFFICES ASSUME NEW p \in Position, p >= start, p < start + w
                 PROVE  Describes(t, p - start) \in Resource \cup {None}
      BY <1>1 DEF TypeOK
    <3>1. p - start \in Slot(t) BY <1>0, <1>5, <1>6 DEF Position
    <3> QED BY <1>4, <3>1 DEF TypeOK, Resource
  <2>2. /\ new.table \in Table /\ new.start \in Position
        /\ new.start + Width[new.table] <= RingSize
        /\ new.shows \in [Slot(t) -> Made \cup {None}]
    BY <1>0, <1>5 DEF TypeOK, Position
  <2>3. dirty' \subseteq Table /\ drawing' \in BOOLEAN BY DEF CopyTable, TypeOK
  <2>4. used' \in Nat BY <1>0, <1>1
  <2> QED BY <1>1, <1>5, <2>1, <2>2, <2>3, <2>4 DEF TypeOK, heaps
<1>8. CASE ~FrameFits'
  BY <1>2, <1>3, <1>7, <1>8 DEF ArcInv, TablesIntact
<1>9. CASE FrameFits'
  <2>1. used + w + MaxWidth - 1 <= RingSize BY <1>9, <1>1 DEF FrameFits
  <2>2. FrameFits BY <1>0, <2>1 DEF FrameFits
  <2> HIDE DEF IInv
  <2>3. TypeOK /\ ArcInv /\ TablesIntact BY DEF IInv
  <2>4. /\ \A e \in tables : End(e) <= start \/ start + w <= e.start
        /\ \E base \in 0 .. RingSize :
             \/ /\ RingRange(w).top = base + used + w
                /\ base <= start /\ start + w <= RingRange(w).top
                /\ \A e \in tables : base <= e.start /\ End(e) <= RingRange(w).top
             \/ \E high \in base .. RingSize :
                  /\ high > RingSize - MaxWidth
                  /\ RingRange(w).top = used + w - (high - base)
                  /\ start + w <= RingRange(w).top
                  /\ \A e \in tables : \/ base <= e.start /\ End(e) <= high
                                       \/ End(e) <= RingRange(w).top
    BY <1>0, <2>1, <2>3, RangeIsFree
  <2>5. \A e : End(e)' = End(e) BY DEF End
  <2>6. End(new) = start + w /\ new.start = start /\ new.table = t /\ new.shows = bound[t]
    BY DEF End
  <2> HIDE DEF new
  <2>7. ArcInv'
    <3>1. PICK base \in 0 .. RingSize :
             \/ /\ RingRange(w).top = base + used + w
                /\ base <= start /\ start + w <= RingRange(w).top
                /\ \A e \in tables : base <= e.start /\ End(e) <= RingRange(w).top
             \/ \E high \in base .. RingSize :
                  /\ high > RingSize - MaxWidth
                  /\ RingRange(w).top = used + w - (high - base)
                  /\ start + w <= RingRange(w).top
                  /\ \A e \in tables : \/ base <= e.start /\ End(e) <= high
                                       \/ End(e) <= RingRange(w).top
      BY <2>4
    <3>2. CASE /\ RingRange(w).top = base + used + w
               /\ base <= start /\ start + w <= RingRange(w).top
               /\ \A e \in tables : base <= e.start /\ End(e) <= RingRange(w).top
      <4>1. \A e \in tables' : base <= e.start /\ End(e) <= top' BY <1>1, <2>6, <3>2
      <4>2. top' = base + used' BY <1>0, <1>1, <3>2
      <4>3. Unwrapped(base)' BY <4>1, <4>2, <2>5 DEF Unwrapped
      <4> QED BY <4>3 DEF ArcInv
    <3>3. CASE \E high \in base .. RingSize :
                  /\ high > RingSize - MaxWidth
                  /\ RingRange(w).top = used + w - (high - base)
                  /\ start + w <= RingRange(w).top
                  /\ \A e \in tables : \/ base <= e.start /\ End(e) <= high
                                       \/ End(e) <= RingRange(w).top
      <4>1. PICK high \in base .. RingSize :
                  /\ high > RingSize - MaxWidth
                  /\ RingRange(w).top = used + w - (high - base)
                  /\ start + w <= RingRange(w).top
                  /\ \A e \in tables : \/ base <= e.start /\ End(e) <= high
                                       \/ End(e) <= RingRange(w).top
        BY <3>3
      <4>2. \A e \in tables' : (base <= e.start /\ End(e) <= high) \/ End(e) <= top'
        BY <1>1, <2>6, <4>1
      <4>3. top' = used' - (high - base) BY <1>0, <1>1, <3>1, <4>1
      <4>4. Wrapped(base, high)' BY <4>1, <4>2, <4>3, <2>5 DEF Wrapped
      <4> QED BY <4>4 DEF ArcInv
    <3> QED BY <3>1, <3>2, <3>3
  <2>8. TablesIntact'
    <3> SUFFICES ASSUME NEW e \in tables', NEW i \in Slot(e.table)
                 PROVE  ring'[e.start + i] = e.shows[i]
      BY DEF TablesIntact, Slot
    <3>1. CASE e = new
      <4>1. i \in 0 .. w - 1 BY <1>6, <2>6, <3>1
      <4>2. start + i \in Position /\ start + i >= start /\ start + i < start + w
            /\ (start + i) - start = i
        BY <1>0, <1>5, <4>1 DEF Position
      <4>3. ring'[start + i] = Describes(t, i) BY <1>1, <4>2
      <4> QED BY <1>4, <1>6, <2>6, <3>1, <4>1, <4>3
    <3>2. CASE e \in tables
      <4>1. e.table \in Table /\ e.start \in Nat BY <2>3, <3>2, <1>0 DEF TypeOK, Position
      <4>2. Width[e.table] \in 1 .. MaxWidth
        BY <4>1, DescriptorAssumption DEF DescriptorAssumption
      <4>3. i \in 0 .. Width[e.table] - 1 BY DEF Slot
      <4>4. e.start + i < End(e) /\ e.start + i >= e.start /\ e.start + i \in Nat
            /\ End(e) \in Nat
        BY <1>0, <4>1, <4>2, <4>3 DEF End
      <4>5. ~(e.start + i >= start /\ e.start + i < start + w)
        BY <1>0, <1>5, <2>4, <3>2, <4>1, <4>4
      <4>6. End(e) <= RingSize BY <2>3, <3>2 DEF TypeOK, End
      <4>7. e.start + i \in Position BY <1>0, <4>4, <4>6 DEF Position
      <4>8. ring'[e.start + i] = ring[e.start + i] BY <1>1, <4>5, <4>7
      <4> QED BY <2>2, <2>3, <3>2, <4>8 DEF TablesIntact
    <3> QED BY <1>1, <3>1, <3>2
  <2> QED BY <1>2, <1>3, <1>7, <2>7, <2>8 DEF IInv
<1> QED BY <1>8, <1>9

-----------------------------------------------------------------------------
(* A frame ends. *)

(* A rebuild touches the descriptors of render targets only. *)
LEMMA RebuildInv ==
  ASSUME IInv, Rebuild, bound' = bound
  PROVE  /\ DOMAIN free' = Heap /\ \A h \in Heap : free'[h] \in [Descriptor(h) -> Nat]
         /\ DOMAIN view' = Heap
         /\ \A h \in Heap : view'[h] \in [Descriptor(h) -> (Resource \X View) \cup {None}]
         /\ handle' \in [Resource -> [View -> Nat \cup {None}]]
         /\ rebuilds' \in 0 .. MaxRebuilds /\ status' = status
         /\ HandleInv' /\ BackInv' /\ OneOwner' /\ BoundInv'
<1> USE DEF IInv
<1> DEFINE Times(to, d) == Cardinality({f \in Frame : to[f] = d})
           old == [f \in Frame |-> handle[BackBuffer(f, rebuilds)]["rtv"]]
<1>1. /\ rebuilds < MaxRebuilds /\ rebuilds' = rebuilds + 1 /\ status' = status
      /\ rebuilds \in Nat /\ rebuilds' \in 1 .. MaxRebuilds
  BY DescriptorAssumption DEF DescriptorAssumption, Rebuild, TypeOK
<1>2. PICK new \in [Frame -> Descriptor("rtv")] :
        /\ \A d \in Descriptor("rtv") : free["rtv"][d] + 2 * Times(old, d) >= Times(new, d)
        /\ free' = [free EXCEPT !["rtv"] = [d \in Descriptor("rtv") |->
                      free["rtv"][d] + 2 * Times(old, d) - Times(new, d)]]
        /\ view' = [view EXCEPT !["rtv"] = [d \in Descriptor("rtv") |->
                      IF \E f \in Frame : new[f] = d
                        THEN <<BackBuffer(CHOOSE f \in Frame : new[f] = d, rebuilds'), "rtv">>
                        ELSE view["rtv"][d]]]
        /\ handle' = [r \in Resource |->
                      IF \E f \in Frame : r = BackBuffer(f, rebuilds')
                        THEN [handle[r] EXCEPT !["rtv"] = new[r[1]]]
                        ELSE handle[r]]
  BY DEF Rebuild
<1>3. \A to, d : Times(to, d) \in Nat BY TimesNat
<1> HIDE DEF Times, old
<1>4. "rtv" \in Heap /\ "rtv" \in View /\ HeapOf("rtv") = "rtv"
      /\ \A v \in View : HeapOf(v) = "rtv" => v = "rtv"
  BY DEF Heap, View, HeapOf
<1>5. \A h \in Heap \ {"rtv"} : free'[h] = free[h] /\ view'[h] = view[h]
  BY <1>2 DEF TypeOK
<1>6. DOMAIN free' = Heap /\ \A h \in Heap : free'[h] \in [Descriptor(h) -> Nat]
  <2>1. ASSUME NEW d \in Descriptor("rtv")
        PROVE  free["rtv"][d] + 2 * Times(old, d) - Times(new, d) \in Nat
    <3>1. free["rtv"][d] \in Nat BY <1>4 DEF TypeOK
    <3> QED BY <1>2, <1>3, <3>1
  <2>2. free'["rtv"] \in [Descriptor("rtv") -> Nat] BY <1>2, <1>4, <2>1 DEF TypeOK
  <2> QED BY <1>2, <1>5, <2>2 DEF TypeOK
<1>7. /\ DOMAIN view' = Heap
      /\ \A h \in Heap : view'[h] \in [Descriptor(h) -> (Resource \X View) \cup {None}]
  <2>1. \A f \in Frame : BackBuffer(f, rebuilds') \in Resource BY <1>1 DEF Resource
  <2>2. view'["rtv"] \in [Descriptor("rtv") -> (Resource \X View) \cup {None}]
    BY <1>2, <1>4, <2>1 DEF TypeOK
  <2> QED BY <1>2, <1>5, <2>2 DEF TypeOK
<1>8. \A r \in Resource, v \in View :
        handle'[r][v] = IF v = "rtv" /\ \E f \in Frame : r = BackBuffer(f, rebuilds')
                          THEN new[r[1]] ELSE handle[r][v]
  BY <1>2 DEF TypeOK
<1>9. \A r \in Resource : (\E f \in Frame : r = BackBuffer(f, rebuilds')) =>
        /\ r \notin Made /\ r[1] \in Frame
        /\ new[r[1]] \in Descriptor("rtv")
  BY <1>1, <1>2, BackIsNotMade DEF BackBuffer
<1>10. handle' \in [Resource -> [View -> Nat \cup {None}]]
  <2>1. \A d \in Descriptor("rtv") : d \in Nat BY DEF Descriptor
  <2> QED BY <1>2, <1>9, <2>1 DEF TypeOK
<1>11. \A r \in Made : (Exists(r)' <=> Exists(r)) /\ r \in Resource
                       /\ \A v \in View : handle'[r][v] = handle[r][v]
  <2>1. \A r \in Made : r \in Resource BY DEF Resource
  <2>2. \A r \in Made : \A f \in Frame : r # BackBuffer(f, rebuilds) /\ r # BackBuffer(f, rebuilds')
    BY <1>1, BackIsNotMade
  <2> QED BY <1>1, <1>8, <2>1, <2>2 DEF Exists
<1>12. HandleInv' BY <1>4, <1>8, <1>9, <1>11 DEF HandleInv
<1>13. OneOwner'
  <2> SUFFICES ASSUME NEW h \in Heap \ {"rtv"}, NEW d \in Descriptor(h)
               PROVE  \/ free'[h][d] = 1 /\ Owners(h, d)' = {}
                      \/ free'[h][d] = 0 /\ Owners(h, d)' = {view'[h][d]}
    BY <1>1 DEF OneOwner
  <2>1. \A r \in Resource, v \in View : HeapOf(v) = h => handle'[r][v] = handle[r][v]
    BY <1>4, <1>8
  <2>2. \A r \in Resource, v \in View : HeapOf(v) = h /\ handle[r][v] = d => r \in Made
    <3> SUFFICES ASSUME NEW r \in Resource \ Made, NEW v \in View, HeapOf(v) = h,
                        handle[r][v] = d
                 PROVE  FALSE
      OBVIOUS
    <3>1. handle[r][v] = None BY <1>4 DEF BackInv
    <3>2. None # d BY DescriptorAssumption DEF DescriptorAssumption, Descriptor
    <3> QED BY <3>1, <3>2
  <2>3. Owners(h, d)' = Owners(h, d) BY <1>11, <2>1, <2>2 DEF Owners
  <2> QED BY <1>5, <2>3 DEF OneOwner
<1>14. BoundInv'
  <2> SUFFICES ASSUME NEW t \in Table, NEW i \in Slot(t), bound[t][i] # None
               PROVE  Exists(bound[t][i])' /\ handle'[bound[t][i]][ViewOf(t)] # None
    BY DEF BoundInv
  <2>1. bound[t][i] \in Made /\ ViewOf(t) \in View BY DEF TypeOK, ViewOf, View
  <2>2. Exists(bound[t][i]) /\ handle[bound[t][i]][ViewOf(t)] # None BY DEF BoundInv
  <2> QED BY <1>11, <2>1, <2>2
<1>15. BackInv' BY <1>8 DEF BackInv
<1> QED BY <1>1, <1>6, <1>7, <1>10, <1>12, <1>13, <1>14, <1>15

(* The frame's tables are gone; the arc begins at the top. *)
LEMMA PresentInv ==
  ASSUME IInv, Present
  PROVE  IInv'
<1> USE DEF IInv
<1>1. bound' = bound /\ top' = top /\ ring' = ring /\ tables' = {} /\ used' = 0
      /\ drawing' = drawing /\ dirty' \subseteq Table
  BY DescriptorAssumption DEF DescriptorAssumption, Present, TypeOK, Table
<1>2. ArcInv' /\ TablesIntact'
  <2>1. PICK base \in 0 .. RingSize : base = top BY DEF TypeOK
  <2>2. Unwrapped(base)' BY <1>1, <2>1 DEF Unwrapped
  <2>3. ArcInv' BY <2>1, <2>2 DEF ArcInv
  <2>4. TablesIntact' BY <1>1 DEF TablesIntact
  <2> QED BY <2>3, <2>4
<1>3. CASE UNCHANGED heaps
  <2>1. HandleInv' /\ BackInv' /\ OneOwner' /\ \A s : Exists(s)' <=> Exists(s)
    BY <1>3, HeapsKept
  <2>2. BoundInv' BY <1>1, <1>3, <2>1 DEF BoundInv, heaps
  <2>3. TypeOK' BY <1>1, <1>3 DEF TypeOK, heaps
  <2> QED BY <1>2, <2>1, <2>2, <2>3
<1>4. CASE Rebuild
  <2>1. TypeOK' BY <1>1, <1>4, RebuildInv DEF TypeOK
  <2>2. HandleInv' /\ BackInv' /\ OneOwner' /\ BoundInv' BY <1>1, <1>4, RebuildInv
  <2> QED BY <1>2, <2>1, <2>2
<1> QED BY <1>3, <1>4 DEF Present

(* Every step preserves the invariant. *)
LEMMA NextInv == IInv /\ [Next]_vars => IInv'
<1> SUFFICES ASSUME IInv, [Next]_vars PROVE IInv' OBVIOUS
<1>1. ASSUME NEW r \in Made, Create(r) PROVE IInv' BY <1>1, CreateInv
<1>2. ASSUME NEW r \in Made, Drop(r) PROVE IInv' BY <1>2, DropInv
<1>3. ASSUME NEW r \in Made, Release(r) PROVE IInv' BY <1>3, ReleaseInv
<1>4. ASSUME NEW r \in Made, NEW v \in View, Register(r, v) PROVE IInv'
  BY <1>4, RegisterInv
<1>5. ASSUME NEW t \in Table, NEW i \in Slot(t), NEW r \in Made, BindResource(t, i, r)
      PROVE  IInv'
  BY <1>5, BindInv
<1>6. CASE PreDraw BY <1>6, PreDrawInv
<1>7. ASSUME NEW t \in Table, CopyTable(t) PROVE IInv' BY <1>7, CopyTableInv
<1>8. CASE Present BY <1>8, PresentInv
<1>9. CASE UNCHANGED vars
  <2>1. UNCHANGED heaps /\ UNCHANGED recording BY <1>9 DEF vars, heaps, recording
  <2>2. HandleInv' /\ BackInv' /\ OneOwner' /\ \A s : Exists(s)' <=> Exists(s)
    BY <2>1, HeapsKept DEF IInv
  <2>3. BoundInv' BY <2>1, <2>2 DEF BoundInv, heaps, recording, IInv
  <2>4. TypeOK' BY <2>1 DEF TypeOK, heaps, recording, IInv
  <2>5. ArcInv' /\ TablesIntact' BY <2>1, RingKept DEF recording, IInv
  <2> QED BY <2>2, <2>3, <2>4, <2>5 DEF IInv
<1> QED
  BY <1>1, <1>2, <1>3, <1>4, <1>5, <1>6, <1>7, <1>8, <1>9 DEF Next

(* It holds in every reachable state. *)
LEMMA Invariance == Spec => []IInv
<1>1. Init => IInv BY InitInv
<1>2. IInv /\ [Next]_vars => IInv' BY NextInv
<1> QED BY <1>1, <1>2, PTL DEF Spec

-----------------------------------------------------------------------------
(* The variables of the heaps, of the recorder and of the ring have their
   types; a handle is a number, a table lies in the ring. *)
THEOREM DescriptorsType == Spec => []TypeOK
<1>1. IInv => TypeOK BY DEF IInv
<1> QED BY <1>1, Invariance, PTL

(* register_..._view and free_descriptors, from any thread and in any order:
   a descriptor is free or the one of the view it describes, until a rebuild
   of the swap chain, and for the other heaps also after it. *)
THEOREM DescriptorsOwned == Spec => []OneOwner
<1>1. IInv => OneOwner BY DEF IInv
<1> QED BY <1>1, Invariance, PTL

(* bind_shader_resources and DescriptorRingBuffer::allocate: in a frame that
   fits in the ring, from wherever it starts, each table the list has set
   describes what was bound at its draw until the list has been executed. *)
THEOREM TablesAreIntact == Spec => []TablesIntact
<1>1. IInv => TablesIntact BY DEF IInv
<1> QED BY <1>1, Invariance, PTL
=============================================================================
