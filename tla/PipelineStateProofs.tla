------------------------ MODULE PipelineStateProofs ------------------------
(***************************************************************************)
(* The dirty flags are flipped with exclusive ors, and a flag is up again  *)
(* that nobody raised.  These proofs show that no flag that is needed goes *)
(* down: what a draw records is what is bound, for any number of sections, *)
(* tables, settings and shaders.                                           *)
(***************************************************************************)
EXTENDS PipelineState, TLAPS

Inv == TypeOK /\ FlagsInv

(* clean_pso raises flags, but it lowers none of those that are read later. *)
LEMMA FlagKinds ==
  /\ AnyState \cap AnyResource = {}
  /\ "DrawExtent" \notin AnyState \cup AnyResource
  /\ Table \subseteq AnyResource /\ Targets \subseteq AnyState
  /\ "InputPrimitive" \in AnyState \ Committed
  /\ \A x \in Input : x \in {"IndexBuffer", "InputPrimitive", "DrawExtent"}
  /\ AnyState \cup AnyResource \subseteq Flag /\ Committed \subseteq Flag
BY PipelineAssumption DEF AnyState, AnyResource, Targets, Committed, Flag, InputFlag

(* The kinds of slot and of flag do not overlap. *)
LEMMA SlotKinds ==
  /\ Srv \cap Flag = {}
  /\ Table \cap Targets = {} /\ Table \cap Input = {} /\ Input \cap Targets = {}
  /\ Table \cup Targets \cup Input \subseteq Flag
  /\ Slot = Srv \cup Table \cup Targets \cup Input
  /\ \A x \in Slot : x \notin Srv => FlagOf(x) = x
  /\ \A x \in Srv : FlagOf(x) = "StructuredBuffers"
BY PipelineAssumption DEF Slot, FlagOf, AnyState, AnyResource, Targets, Flag, InputFlag

(* The flips of clean_pso lower no flag of a resource, and put the targets back. *)
LEMMA AfterPsoKeeps ==
  ASSUME NEW d \in SUBSET Flag
  PROVE  /\ AfterPso(d) \subseteq Flag
         /\ \A x \in AnyResource \cup {"DrawExtent"} : x \in AfterPso(d) <=> x \in d
         /\ \A x \in Targets \cup {"InputPrimitive"} : x \in d => x \in AfterPso(d)
<1>1. CASE ~IsPsoDirty(d)
  BY <1>1 DEF AfterPso
<1>2. CASE IsPsoDirty(d)
  <2>1. AfterPso(d) = SymDiff(d, AnyState) \cup (d \cap (Targets \cup {"InputPrimitive", "DrawExtent"}))
    BY <1>2 DEF AfterPso, CleanPso
  <2>2. SymDiff(d, AnyState) = (d \ AnyState) \cup (AnyState \ d)
    BY DEF SymDiff
  <2>. QED BY <2>1, <2>2, FlagKinds
<1>. QED BY <1>1, <1>2

-----------------------------------------------------------------------------
(***************************************************************************)
(* commit_bound_to_cpu leaves a current descriptor for all that is bound.  *)
(***************************************************************************)
LEMMA CommitIsCurrent ==
  ASSUME Inv, NEW d \in SUBSET Flag, dirty \subseteq d,
         NEW b \in [Slot -> Value \cup {Null}],
         b = bound \/ ("RenderTargets" \in d /\ \E r \in Image : b = [bound EXCEPT !["RenderTargets"] = r])
  PROVE  LET c == CommitBound(AfterPso(d), b) IN
           /\ c \in [Slot -> Descriptor]
           /\ \A x \in Srv \cup Table \cup Targets : b[x] # Null => c[x] = b[x]
<1>. DEFINE c == CommitBound(AfterPso(d), b)
<1>1. \A x \in Slot : x # "RenderTargets" => b[x] = bound[x]
  BY DEF Inv, TypeOK
<1>2. \A x \in Slot :
        c[x] = IF FlagOf(x) \in AfterPso(d) \cap Committed /\ (x \in Srv => SectionOf[x] \in stale) /\ b[x] # Null
               THEN b[x] ELSE cpu[x]
  BY DEF CommitBound
<1>3. c \in [Slot -> Descriptor]
  BY <1>2 DEF CommitBound, Inv, TypeOK, Descriptor
<1>4. ASSUME NEW x \in Srv, b[x] # Null PROVE c[x] = b[x]
  <2>1. x \in Slot /\ FlagOf(x) = "StructuredBuffers" /\ x # "RenderTargets"
    BY SlotKinds DEF Targets
  <2>2. CASE SectionOf[x] \notin stale
    BY <1>1, <1>2, <1>4, <2>1, <2>2 DEF Inv, FlagsInv, CpuInv
  <2>3. CASE SectionOf[x] \in stale
    <3>1. "StructuredBuffers" \in d
      BY <2>3 DEF Inv, FlagsInv, SectionInv
    <3>2. "StructuredBuffers" \in AfterPso(d) \cap Committed
      BY <3>1, AfterPsoKeeps DEF AnyResource, Committed
    <3>. QED BY <1>2, <1>4, <2>1, <2>3, <3>2
  <2>. QED BY <2>2, <2>3
<1>5. ASSUME NEW x \in Table \cup Targets, b[x] # Null PROVE c[x] = b[x]
  <2>1. x \in Slot /\ FlagOf(x) = x /\ x \notin Srv /\ x \in Committed
    BY SlotKinds DEF Committed, AnyResource
  <2>2. x \in d => x \in AfterPso(d)
    BY AfterPsoKeeps, FlagKinds
  <2>3. CASE x \in d
    BY <1>2, <1>5, <2>1, <2>2, <2>3
  <2>4. CASE x \notin d
    <3>1. x \notin dirty /\ b[x] = bound[x]
      BY <1>1, <2>1, <2>4
    <3>2. cpu[x] = bound[x]
      BY <1>5, <3>1 DEF Inv, FlagsInv, CpuInv
    <3>. QED BY <1>2, <2>1, <3>1, <3>2
  <2>. QED BY <2>3, <2>4
<1>. QED BY <1>3, <1>4, <1>5
-----------------------------------------------------------------------------
(***************************************************************************)
(* A flush, whatever it starts from, serves what is to be committed.       *)
(***************************************************************************)
LEMMA FlushFlags ==
  ASSUME Inv, NEW d \in SUBSET Flag, dirty \subseteq d
  PROVE  LET m == NeedAfterCommit(AfterPso(d)) IN
           /\ m \subseteq Committed
           /\ NeedAfterBind(m) \subseteq Committed
           /\ \A x \in Committed : x \in d \cup need => x \in m
           /\ stale # {} => "StructuredBuffers" \in m
<1>. DEFINE m == NeedAfterCommit(AfterPso(d))
<1>1. m = need \cup (AfterPso(d) \cap Committed)
  BY DEF NeedAfterCommit
<1>2. need \subseteq Committed
  BY DEF Inv, TypeOK
<1>3. \A x \in Committed : x \in d => x \in AfterPso(d)
  BY AfterPsoKeeps DEF Committed
<1>4. NeedAfterBind(m) \subseteq Committed
  BY <1>1, <1>2 DEF NeedAfterBind, SymDiff, Committed
<1>5. stale # {} => "StructuredBuffers" \in d /\ "StructuredBuffers" \in Committed
  BY DEF Inv, FlagsInv, SectionInv, Committed, AnyResource
<1>. QED BY <1>1, <1>2, <1>3, <1>4, <1>5

(* Types of the resource states, recorded and real. *)
LEMMA TransitionedType ==
  ASSUME TypeOK, NEW m, NEW b, NEW n, NEW e
  PROVE  Transitioned(m, b, n, e) \in [Resource -> ResourceState]
<1>1. \A r \in Resource : rstate[r] \in ResourceState
  BY DEF TypeOK
<1>2. {"RENDER_TARGET", "DEPTH_WRITE", "GENERIC_READ"} \subseteq ResourceState
  BY DEF ResourceState
<1>3. \A r \in Resource :
        Transitioned(m, b, n, e)[r] \in {"RENDER_TARGET", "DEPTH_WRITE", "GENERIC_READ", rstate[r]}
  BY DEF Transitioned
<1>4. \A r \in Resource : Transitioned(m, b, n, e)[r] \in ResourceState
  BY <1>1, <1>2, <1>3
<1>5. Transitioned(m, b, n, e) = [r \in Resource |-> Transitioned(m, b, n, e)[r]]
  BY DEF Transitioned
<1>. QED BY <1>4, <1>5

LEMMA BarriersType ==
  ASSUME TypeOK, NEW s \in [Resource -> ResourceState]
  PROVE  AfterBarriers(s) \in [Resource -> ResourceState]
BY DEF TypeOK, AfterBarriers

(* What is sampled, drawn to or cleared was in the recorded state before: only
   a back buffer is not, and nobody moves it from RENDER_TARGET. *)
LEMMA BarriersReal ==
  ASSUME Inv, NEW s \in [Resource -> ResourceState],
         \A b \in BackBuffer : s[b] = "RENDER_TARGET"
  PROVE  \A r \in Resource : AfterBarriers(s)[r] = IF r \in Presented THEN "PRESENT" ELSE s[r]
<1>1. \A r \in Presented : s[r] = rstate[r]
  BY DEF Inv, FlagsInv, RealInv, Presented
<1>. QED BY <1>1 DEF Inv, FlagsInv, RealInv, AfterBarriers

(* The flush of a draw or of a present leaves a back buffer in RENDER_TARGET. *)
LEMMA TransitionedBack ==
  ASSUME Inv, NEW m, NEW n, NEW e,
         NEW b \in [Slot -> Value \cup {Null}],
         \A x \in Slot : x # "RenderTargets" => b[x] = bound[x]
  PROVE  \A r \in BackBuffer : Transitioned(m, b, n, e)[r] = "RENDER_TARGET"
<1>. SUFFICES ASSUME NEW r \in BackBuffer PROVE Transitioned(m, b, n, e)[r] = "RENDER_TARGET"
  OBVIOUS
<1>1. r \in Resource /\ r \in Image /\ r \notin DepthImage /\ r # Null
  BY PipelineAssumption DEF Resource, Value
<1>2. rstate[r] = "RENDER_TARGET"
  BY DEF Inv, FlagsInv, RealInv
<1>3. r \notin Sampled(m, b)
  <2>1. \A s \in Srv : s \in Slot /\ s # "RenderTargets"
    BY SlotKinds DEF Targets
  <2>2. \A s \in Srv : b[s] \notin BackBuffer
    BY <2>1 DEF Inv, FlagsInv, RealInv
  <2>. QED BY <2>2 DEF Sampled
<1>4. r \notin DepthOf(m, b, e)
  <2>1. "DepthBuffers" \in Slot
    BY SlotKinds DEF Targets
  <2>2. b["DepthBuffers"] \in DepthImage \cup {Null}
    BY <2>1 DEF Inv, TypeOK
  <2>. QED BY <1>1, <2>2 DEF DepthOf
<1>. QED BY <1>1, <1>2, <1>3, <1>4 DEF Transitioned

(* So a draw leaves the real states where the recorded ones are. *)
LEMMA FlushReal ==
  ASSUME Inv, NEW m, rstate' = Transitioned(m, bound, numRt, desc), real' = AfterBarriers(rstate'),
         bound' = bound, back' = back
  PROVE  RealInv'
<1>1. rstate' \in [Resource -> ResourceState]
  BY TransitionedType DEF Inv
<1>2. \A b \in BackBuffer : rstate'[b] = "RENDER_TARGET"
  BY TransitionedBack DEF Inv, TypeOK
<1>3. \A r \in Resource : real'[r] = IF r \in Presented THEN "PRESENT" ELSE rstate'[r]
  BY <1>1, <1>2, BarriersReal
<1>. QED BY <1>2, <1>3 DEF RealInv, Presented, Inv, FlagsInv

(* A draw: what it leaves on the list is what is bound. *)
LEMMA DrawFacts ==
  ASSUME Inv, Draw
  PROVE  /\ TypeOK'
         /\ FlagsInv'
         /\ Current'
         /\ SectionsCurrent'
         /\ \A s \in Srv : SectionOf[s] \in stale /\ bound[s] # Null => list'[s] = bound[s]
<1>. DEFINE d1 == AfterPso(dirty)
            m == NeedAfterCommit(d1)
            l == AfterRoot(dirty)
<1>1. dirty \in SUBSET Flag /\ bound \in [Slot -> Value \cup {Null}]
  BY DEF Inv, TypeOK
<1>2. /\ d1 \subseteq Flag
      /\ \A x \in AnyResource \cup {"DrawExtent"} : x \in d1 <=> x \in dirty
      /\ \A x \in Targets \cup {"InputPrimitive"} : x \in dirty => x \in d1
  BY <1>1, AfterPsoKeeps
<1>3. /\ m \subseteq Committed /\ NeedAfterBind(m) \subseteq Committed
      /\ \A x \in Committed : x \in dirty \cup need => x \in m
      /\ stale # {} => "StructuredBuffers" \in m
  BY <1>1, FlushFlags
<1>4. /\ dirty' = d1 \ (Committed \cup {"DrawExtent", "InputPrimitive"})
      /\ need' = NeedAfterBind(m)
      /\ cpu' = CommitBound(d1, bound)
      /\ stale' = IF "StructuredBuffers" \in m THEN {} ELSE stale
      /\ root' = IF IsPsoDirty(dirty) THEN "own" ELSE root
      /\ list' = [x \in Slot |-> Recorded(x, d1, m, bound, numRt, cpu'[x], l[x])]
      /\ rstate' = Transitioned(m, bound, numRt, desc) /\ real' = AfterBarriers(rstate')
      /\ pso' = IF IsPsoDirty(dirty) THEN desc ELSE pso
      /\ desc' = desc /\ numRt' = numRt /\ bound' = bound /\ back' = back
  BY DEF Draw, Flush
<1>5. /\ cpu' \in [Slot -> Descriptor]
      /\ \A x \in Srv \cup Table \cup Targets : bound[x] # Null => cpu'[x] = bound[x]
  BY <1>1, <1>4, CommitIsCurrent
<1>6. pso' = desc /\ root' = "own"
  <2>1. CASE IsPsoDirty(dirty)
    BY <1>4, <2>1
  <2>2. CASE ~IsPsoDirty(dirty)
    <3>1. pso = desc
      BY <2>2 DEF Inv, FlagsInv, PsoInv
    <3>2. root = "own"
      BY <2>2, FlagKinds DEF Inv, FlagsInv, PsoInv, IsPsoDirty, AnyState
    <3>. QED BY <1>4, <2>2, <3>1, <3>2
  <2>. QED BY <2>1, <2>2
<1>7. /\ l \in [Slot -> Descriptor \cup {Unset, Foreign}]
      /\ \A x \in Slot : x \notin Srv \cup Table => l[x] = list[x]
      /\ \A x \in Srv : l[x] \in {list[x], Unset}
      /\ \A x \in Table : x \notin dirty => l[x] = list[x]
  <2>1. CASE IsPsoDirty(dirty) /\ root # "own"
    <3>1. l = [x \in Slot |-> IF x \in Srv \cup Table THEN Unset ELSE list[x]]
      BY <2>1 DEF AfterRoot
    <3>2. Table \subseteq dirty
      BY <2>1 DEF Inv, FlagsInv, PsoInv
    <3>. QED BY <3>1, <3>2, SlotKinds DEF Inv, TypeOK
  <2>2. CASE ~(IsPsoDirty(dirty) /\ root # "own")
    <3>1. l = list
      BY <2>2 DEF AfterRoot
    <3>. QED BY <3>1, SlotKinds DEF Inv, TypeOK
  <2>. QED BY <2>1, <2>2
<1>8. \A x \in Slot : list'[x] = Recorded(x, d1, m, bound, numRt, cpu'[x], l[x])
  BY <1>4
<1>9. stale' = {}
  <2>1. stale \subseteq Section
    BY DEF Inv, TypeOK
  <2>. QED BY <1>3, <1>4, <2>1
<1>10. \A s \in Srv : bound[s] # Null =>
         list'[s] \in {bound[s], Unset} /\ (SectionOf[s] \in stale => list'[s] = bound[s])
  <2>. SUFFICES ASSUME NEW s \in Srv, bound[s] # Null
                PROVE  list'[s] \in {bound[s], Unset} /\ (SectionOf[s] \in stale => list'[s] = bound[s])
    OBVIOUS
  <2>1. list'[s] = IF "StructuredBuffers" \in m /\ SectionOf[s] \in stale THEN cpu'[s] ELSE l[s]
    <3>1. s \in Slot /\ s \notin Table \cup Targets /\ s # "IndexBuffer"
      BY SlotKinds DEF Flag, AnyResource
    <3>. QED BY <1>8, <3>1 DEF Recorded, Targets
  <2>2. SectionOf[s] \notin stale => list[s] \in {bound[s], Unset}
    BY DEF Inv, FlagsInv, SectionInv
  <2>. QED BY <1>3, <1>5, <1>7, <2>1, <2>2
<1>11. \A x \in Table : bound[x] # Null => list'[x] = bound[x]
  <2>. SUFFICES ASSUME NEW x \in Table, bound[x] # Null PROVE list'[x] = bound[x]
    OBVIOUS
  <2>1. x \in Slot /\ x \notin Srv /\ x \in Committed /\ x \notin Targets /\ x # "IndexBuffer"
    BY PipelineAssumption, SlotKinds DEF Committed, AnyResource
  <2>2. list'[x] = IF x \in m THEN cpu'[x] ELSE l[x]
    BY <1>8, <2>1 DEF Recorded, Targets
  <2>3. x \notin m => x \notin dirty \cup need
    BY <1>3, <2>1
  <2>4. x \notin dirty \cup need => list[x] = bound[x]
    BY DEF Inv, FlagsInv, ListInv
  <2>. QED BY <1>5, <1>7, <2>2, <2>3, <2>4
<1>12. TargetsCurrent'
  <2>1. {"RenderTargets", "DepthBuffers"} \subseteq Slot \ (Srv \cup Table)
    BY SlotKinds DEF Targets
  <2>2. /\ list'["RenderTargets"] = IF m \cap Targets = {} THEN list["RenderTargets"]
                                    ELSE IF numRt = 0 THEN Null ELSE cpu'["RenderTargets"]
        /\ list'["DepthBuffers"] = IF m \cap Targets = {} THEN list["DepthBuffers"]
                                   ELSE IF bound["DepthBuffers"] = Null THEN Null ELSE cpu'["DepthBuffers"]
    BY <1>7, <1>8, <2>1 DEF Recorded
  <2>3. m \cap Targets = {} => TargetsCurrent
    BY <1>3 DEF Inv, FlagsInv, ListInv, Committed
  <2>4. numRt \in {0, 1}
    BY DEF Inv, TypeOK
  <2>. QED BY <1>4, <1>5, <2>2, <2>3, <2>4 DEF TargetsCurrent, Targets
<1>13. \A x \in Input : bound[x] # Null => list'[x] = bound[x]
  <2>. SUFFICES ASSUME NEW x \in Input, bound[x] # Null PROVE list'[x] = bound[x]
    OBVIOUS
  <2>1. x \in Slot /\ x \notin Srv \cup Table \cup Targets
    BY SlotKinds
  <2>2. x \notin dirty \cup need => list[x] = bound[x]
    BY DEF Inv, FlagsInv, ListInv
  <2>3. CASE x = "IndexBuffer"
    <3>1. list'[x] = IF x \in m THEN bound[x] ELSE l[x]
      BY <1>8, <2>1, <2>3 DEF Recorded, Targets
    <3>2. x \notin m => x \notin dirty \cup need
      BY <1>3, <2>3 DEF Committed, AnyResource
    <3>. QED BY <1>7, <2>1, <2>2, <3>1, <3>2
  <2>4. CASE x \in {"InputPrimitive", "DrawExtent"}
    <3>1. list'[x] = IF x \in d1 THEN bound[x] ELSE l[x]
      BY <1>8, <2>1, <2>4 DEF Recorded, Targets
    <3>2. x \notin need
      BY <2>4, FlagKinds DEF Inv, TypeOK, Committed
    <3>3. x \in dirty => x \in d1
      BY <1>2, <2>4
    <3>. QED BY <1>7, <2>1, <2>2, <3>1, <3>2, <3>3
  <2>. QED BY <2>3, <2>4, FlagKinds
<1>14. Current'
  BY <1>4, <1>6, <1>11, <1>12, <1>13 DEF Current
<1>15. FlagsInv'
  <2>1. CpuInv'
    BY <1>4, <1>5 DEF CpuInv
  <2>2. PsoInv'
    BY <1>4, <1>6 DEF PsoInv
  <2>3. ListInv'
    BY <1>14 DEF Current, ListInv
  <2>4. SectionInv'
    BY <1>4, <1>9, <1>10 DEF SectionInv
  <2>5. RealInv'
    BY <1>4, FlushReal
  <2>. QED BY <2>1, <2>2, <2>3, <2>4, <2>5 DEF FlagsInv
<1>16. TypeOK'
  <2>1. list' \in [Slot -> Descriptor \cup {Unset, Foreign}]
    <3>1. \A x \in Slot : Recorded(x, d1, m, bound, numRt, cpu'[x], l[x]) \in {Null, bound[x], cpu'[x], l[x]}
      BY DEF Recorded
    <3>2. \A x \in Slot : {Null, bound[x], cpu'[x], l[x]} \subseteq Descriptor \cup {Unset, Foreign}
      BY <1>1, <1>5, <1>7 DEF Descriptor
    <3>. QED BY <1>4, <3>1, <3>2
  <2>2. rstate' \in [Resource -> ResourceState] /\ real' \in [Resource -> ResourceState]
    BY <1>4, TransitionedType, BarriersType DEF Inv
  <2>3. dirty' \subseteq Flag /\ need' \subseteq Committed /\ stale' \subseteq Section
    BY <1>2, <1>3, <1>4, <1>9
  <2>. QED BY <1>4, <1>5, <1>6, <2>1, <2>2, <2>3 DEF Inv, TypeOK
<1>17. stale \subseteq Section
  BY DEF Inv, TypeOK
<1>. QED BY <1>4, <1>10, <1>14, <1>15, <1>16, <1>17 DEF SectionsCurrent
-----------------------------------------------------------------------------
(***************************************************************************)
(* The other actions.                                                      *)
(***************************************************************************)
LEMMA InitInv == Init => Inv
<1>. SUFFICES ASSUME Init PROVE Inv
  OBVIOUS
<1>. PICK extent \in Item, topology \in Item, setting \in Option, memory \in [Slot -> Memory],
          first \in BackBuffer : InitWith(extent, topology, setting, memory, first)
  BY DEF Init
<1>. USE DEF InitWith
<1>1. /\ Targets \subseteq Slot /\ "DrawExtent" \notin Srv \cup Table \cup Targets
      /\ "InputPrimitive" \notin Srv \cup Table \cup Targets
  BY PipelineAssumption, SlotKinds DEF Flag, Targets, AnyState
<1>2. \A x \in Slot : bound[x] \in {extent, topology, Null}
  OBVIOUS
<1>3. bound["RenderTargets"] = Null /\ bound["DepthBuffers"] = Null
  BY <1>1 DEF Targets
<1>4. TypeOK
  <2>1. dirty \subseteq Flag
    BY FlagKinds
  <2>2. desc \in Desc
    BY DEF Desc
  <2>3. bound \in [Slot -> Value \cup {Null}]
    BY DEF Value
  <2>4. list \in [Slot -> Descriptor \cup {Unset, Foreign}] /\ cpu \in [Slot -> Descriptor]
    BY DEF Value, Descriptor
  <2>5. rstate \in [Resource -> ResourceState] /\ real \in [Resource -> ResourceState]
    BY DEF ResourceState
  <2>. QED BY <1>3, <2>1, <2>2, <2>3, <2>4, <2>5 DEF TypeOK
<1>0. \A x \in Srv \cup Table \cup Targets : x \in Slot /\ bound[x] = Null
  BY <1>1, SlotKinds
<1>5. CpuInv
  BY <1>0 DEF CpuInv
<1>6. PsoInv
  <2>1. IsPsoDirty(dirty)
    BY DEF IsPsoDirty, AnyState
  <2>. QED BY <2>1, FlagKinds DEF PsoInv, AnyResource
<1>7. ListInv
  <2>1. \A x \in Input : x \notin dirty => x = "DrawExtent"
    BY FlagKinds DEF AnyState, AnyResource
  <2>2. \A x \in Input : x = "DrawExtent" => list[x] = bound[x]
    BY SlotKinds
  <2>3. Table \cup Targets \subseteq dirty
    BY FlagKinds
  <2>. QED BY <2>1, <2>2, <2>3 DEF ListInv, Targets
<1>8. SectionInv
  BY SlotKinds DEF SectionInv
<1>9. RealInv
  <2>1. BackBuffer \subseteq Resource /\ Null \notin BackBuffer
    BY PipelineAssumption DEF Resource, Value
  <2>. QED BY <1>0, <2>1 DEF RealInv, Presented
<1>. QED BY <1>4, <1>5, <1>6, <1>7, <1>8, <1>9 DEF Inv, FlagsInv

(* A setter marks what it changes. *)
LEMMA SetterInv ==
  ASSUME Inv, NEW f \in AnyState, dirty' = dirty \cup {f},
         desc' \in Desc, numRt' \in 0 .. 1, f = "RenderTargets" \/ numRt' = numRt,
         UNCHANGED <<need, stale, bound, cpu, listVars>>
  PROVE  Inv'
<1>1. TypeOK'
  BY FlagKinds DEF Inv, TypeOK, listVars, resourceVars
<1>2. CpuInv'
  BY DEF Inv, FlagsInv, CpuInv
<1>3. PsoInv'
  <2>1. IsPsoDirty(dirty')
    BY DEF IsPsoDirty
  <2>. QED BY <2>1 DEF Inv, FlagsInv, PsoInv, listVars, resourceVars
<1>4. ListInv'
  <2>1. f = "RenderTargets" => (dirty' \cup need') \cap Targets # {}
    BY DEF Targets
  <2>2. f # "RenderTargets" => numRt' = numRt
    OBVIOUS
  <2>. QED BY <2>1, <2>2 DEF Inv, FlagsInv, ListInv, TargetsCurrent, listVars, resourceVars
<1>5. SectionInv'
  BY DEF Inv, FlagsInv, SectionInv, listVars, resourceVars
<1>6. RealInv'
  BY DEF Inv, FlagsInv, RealInv, Presented, listVars, resourceVars
<1>. QED BY <1>1, <1>2, <1>3, <1>4, <1>5, <1>6 DEF Inv, FlagsInv

(* A binding: the flag goes up, so nothing is said of the slot any more. *)
LEMMA BindInv ==
  ASSUME Inv, NEW x \in Table \cup Input \cup Targets, NEW v \in Value \cup {Null},
         x = "RenderTargets" => v \in Image \cup {Null},
         x = "DepthBuffers" => v \in DepthImage,
         x # "RenderTargets" => v # Null,
         bound' = [bound EXCEPT ![x] = v], dirty' = dirty \cup {x},
         desc' = desc \/ (x = "DepthBuffers" /\ desc' \in Desc),
         UNCHANGED <<need, stale, numRt, cpu, listVars>>
  PROVE  Inv'
<1>1. x \in Slot /\ x \in Flag /\ x \notin Srv
  BY SlotKinds
<1>2. bound' \in [Slot -> Value \cup {Null}] /\ bound'[x] = v /\ \A y \in Slot : y # x => bound'[y] = bound[y]
  BY <1>1 DEF Inv, TypeOK
<1>3. Srv \cup Table \cup Targets \cup Input \subseteq Slot
  BY SlotKinds
<1>4. TypeOK'
  <2>1. bound'["RenderTargets"] \in Image \cup {Null} /\ bound'["DepthBuffers"] \in DepthImage \cup {Null}
    BY <1>2, <1>3 DEF Inv, TypeOK, Targets
  <2>2. dirty' \subseteq Flag /\ desc' \in Desc
    BY <1>1 DEF Inv, TypeOK
  <2>. QED BY <1>2, <2>1, <2>2 DEF Inv, TypeOK, listVars, resourceVars
<1>5. CpuInv'
  <2>1. \A y \in Table \cup Targets : y \notin dirty' => y \notin dirty /\ bound'[y] = bound[y]
    BY <1>2, <1>3
  <2>2. \A s \in Srv : bound'[s] = bound[s]
    BY <1>1, <1>2, <1>3
  <2>. QED BY <2>1, <2>2 DEF Inv, FlagsInv, CpuInv
<1>6. PsoInv'
  <2>1. ~IsPsoDirty(dirty') => ~IsPsoDirty(dirty) /\ x # "DepthBuffers"
    BY FlagKinds DEF IsPsoDirty, Targets
  <2>. QED BY <2>1 DEF Inv, FlagsInv, PsoInv, listVars, resourceVars
<1>7. ListInv'
  <2>1. \A y \in Table \cup Input : y \notin dirty' \cup need' => y \notin dirty \cup need /\ bound'[y] = bound[y]
    BY <1>2, <1>3
  <2>2. (dirty' \cup need') \cap Targets = {} => TargetsCurrent'
    <3>. SUFFICES ASSUME (dirty' \cup need') \cap Targets = {} PROVE TargetsCurrent'
      OBVIOUS
    <3>1. TargetsCurrent
      BY DEF Inv, FlagsInv, ListInv
    <3>2. bound'["RenderTargets"] = bound["RenderTargets"] /\ bound'["DepthBuffers"] = bound["DepthBuffers"]
      BY <1>2, <1>3 DEF Targets
    <3>. QED BY <3>1, <3>2 DEF TargetsCurrent, listVars, resourceVars
  <2>. QED BY <2>1, <2>2 DEF Inv, FlagsInv, ListInv, listVars, resourceVars
<1>8. SectionInv'
  <2>1. \A s \in Srv : bound'[s] = bound[s]
    BY <1>1, <1>2, <1>3
  <2>. QED BY <2>1 DEF Inv, FlagsInv, SectionInv, listVars, resourceVars
<1>9. RealInv'
  <2>1. \A s \in Srv : bound'[s] = bound[s]
    BY <1>1, <1>2, <1>3
  <2>. QED BY <2>1 DEF Inv, FlagsInv, RealInv, Presented, listVars, resourceVars
<1>. QED BY <1>4, <1>5, <1>6, <1>7, <1>8, <1>9 DEF Inv, FlagsInv

(* bind_resource marks the section as well. *)
LEMMA BindResourceInv ==
  ASSUME Inv, NEW s \in Srv, NEW r \in Value \ BackBuffer, BindResource(s, r)
  PROVE  Inv'
<1>1. /\ s \in Slot /\ s \notin Table \cup Targets \cup Input
      /\ "StructuredBuffers" \in Flag /\ Table \cup Targets \cup Input \subseteq Slot
  BY SlotKinds DEF Flag, AnyResource
<1>2. /\ bound' \in [Slot -> Value \cup {Null}] /\ bound'[s] = r
      /\ \A y \in Slot : y # s => bound'[y] = bound[y]
  BY <1>1 DEF BindResource, Inv, TypeOK, Value
<1>3. \A y \in Table \cup Targets \cup Input : bound'[y] = bound[y]
  BY <1>1, <1>2
<1>4. /\ stale' = stale \cup {SectionOf[s]} /\ dirty' = dirty \cup {"StructuredBuffers"}
      /\ UNCHANGED <<need, desc, numRt, cpu, listVars>>
  BY DEF BindResource
<1>5. TypeOK'
  <2>1. SectionOf[s] \in Section
    BY PipelineAssumption
  <2>. QED BY <1>1, <1>2, <1>3, <1>4, <2>1 DEF Inv, TypeOK, listVars, resourceVars, Targets
<1>6. CpuInv'
  <2>1. \A t \in Srv : SectionOf[t] \notin stale' => t # s /\ t \in Slot
    BY <1>4, SlotKinds
  <2>. QED BY <1>2, <1>3, <1>4, <2>1 DEF Inv, FlagsInv, CpuInv
<1>7. PsoInv'
  BY <1>4 DEF Inv, FlagsInv, PsoInv, IsPsoDirty, listVars, resourceVars
<1>8. ListInv'
  <2>1. TargetsCurrent' <=> TargetsCurrent
    BY <1>3, <1>4 DEF TargetsCurrent, Targets, listVars, resourceVars
  <2>. QED BY <1>3, <1>4, <2>1 DEF Inv, FlagsInv, ListInv, listVars, resourceVars
<1>9. SectionInv'
  <2>1. \A t \in Srv : SectionOf[t] \notin stale' => t # s /\ t \in Slot
    BY <1>4, SlotKinds
  <2>. QED BY <1>2, <1>4, <2>1 DEF Inv, FlagsInv, SectionInv, listVars, resourceVars
<1>10. RealInv'
  <2>1. \A t \in Srv : bound'[t] = r \/ bound'[t] = bound[t]
    BY <1>2, SlotKinds
  <2>. QED BY <1>4, <2>1 DEF Inv, FlagsInv, RealInv, Presented, listVars, resourceVars
<1>. QED BY <1>5, <1>6, <1>7, <1>8, <1>9, <1>10 DEF Inv, FlagsInv

(* A new list: every flag is up, only the extent and the sections are said
   to be anything. *)
LEMMA NewListInv ==
  ASSUME TypeOK', CpuInv', RealInv', dirty' = AnyState \cup AnyResource,
         "DrawExtent" \in Slot => list'["DrawExtent"] = bound'["DrawExtent"],
         \A s \in Srv : list'[s] = Unset
  PROVE  Inv'
<1>1. PsoInv'
  <2>1. IsPsoDirty(dirty')
    BY DEF IsPsoDirty, AnyState
  <2>. QED BY <2>1, FlagKinds DEF PsoInv, AnyResource
<1>2. ListInv'
  <2>1. \A x \in Input : x \notin dirty' => x = "DrawExtent" /\ x \in Slot
    BY FlagKinds, SlotKinds DEF AnyState, AnyResource
  <2>2. Table \cup Targets \subseteq dirty'
    BY FlagKinds
  <2>. QED BY <2>1, <2>2 DEF ListInv, Targets
<1>3. SectionInv'
  BY DEF SectionInv, AnyResource
<1>. QED BY <1>1, <1>2, <1>3 DEF Inv, FlagsInv

(* What a new list starts with. *)
LEMMA ResetListFacts ==
  ASSUME NEW b \in [Slot -> Value \cup {Null}], ResetList(b)
  PROVE  /\ list' \in [Slot -> Descriptor \cup {Unset, Foreign}]
         /\ "DrawExtent" \in Slot => list'["DrawExtent"] = b["DrawExtent"]
         /\ \A s \in Srv : list'[s] = Unset
         /\ pso' = Unset /\ root' = Unset
<1>1. \A s \in Srv : s \in Slot /\ s # "DrawExtent"
  BY SlotKinds DEF Flag
<1>2. \A x \in Slot : b[x] \in Descriptor
  BY DEF Descriptor
<1>. QED BY <1>1, <1>2 DEF ResetList

(* A reset raises every flag. *)
LEMMA ResetInv == ASSUME Inv, Reset PROVE Inv'
<1>1. /\ ResetList(bound) /\ dirty' = AnyState \cup AnyResource
      /\ UNCHANGED <<need, stale, desc, numRt, bound, cpu, rstate, real, back>>
  BY DEF Reset, resourceVars
<1>2. bound \in [Slot -> Value \cup {Null}]
  BY DEF Inv, TypeOK
<1>3. TypeOK'
  BY <1>1, <1>2, ResetListFacts, FlagKinds DEF Inv, TypeOK
<1>4. CpuInv'
  BY <1>1, FlagKinds DEF Inv, FlagsInv, CpuInv, Targets
<1>5. RealInv'
  BY <1>1 DEF Inv, FlagsInv, RealInv, Presented
<1>. QED BY <1>1, <1>2, <1>3, <1>4, <1>5, ResetListFacts, NewListInv

(* So does a new frame, with its own back buffer; what was presented is now one
   of those that are not in the recorded state. *)
LEMMA PresentInv == ASSUME Inv, NEW next \in BackBuffer, Present(next) PROVE Inv'
<1>. DEFINE b == [bound EXCEPT !["RenderTargets"] = back]
            e == [desc EXCEPT !["RenderTargets"] = Captured(1, b)]
            d == dirty \cup {"RenderTargets"}
            m == NeedAfterCommit(AfterPso(d))
            t == Transitioned(m, b, 1, e)
<1>1. /\ bound' = b /\ numRt' = 1 /\ desc' = e
      /\ dirty' = AnyState \cup AnyResource
      /\ need' = NeedAfterBind(m)
      /\ cpu' = CommitBound(AfterPso(d), b)
      /\ stale' = IF "StructuredBuffers" \in m THEN {} ELSE stale
      /\ rstate' = t
      /\ real' = [AfterBarriers(t) EXCEPT ![back] = "PRESENT", ![next] = "RENDER_TARGET"]
      /\ back' = next
      /\ ResetList(b)
  BY DEF Present
<1>2. "RenderTargets" \in Slot /\ "DepthBuffers" \in Slot /\ d \in SUBSET Flag /\ dirty \subseteq d
  BY SlotKinds, FlagKinds DEF Inv, TypeOK, Targets
<1>3. back \in BackBuffer /\ back \in Image /\ BackBuffer \subseteq Image
  BY PipelineAssumption DEF Inv, TypeOK
<1>4. /\ b \in [Slot -> Value \cup {Null}] /\ b["RenderTargets"] = back
      /\ \A x \in Slot : x # "RenderTargets" => b[x] = bound[x]
  BY <1>2, <1>3 DEF Inv, TypeOK, Value, Resource
<1>5. /\ cpu' \in [Slot -> Descriptor]
      /\ \A x \in Srv \cup Table \cup Targets : b[x] # Null => cpu'[x] = b[x]
  <2>1. b = bound \/ ("RenderTargets" \in d /\ \E r \in Image : b = [bound EXCEPT !["RenderTargets"] = r])
    BY <1>3
  <2>. HIDE DEF b, d
  <2>. QED BY <1>1, <1>2, <1>4, <2>1, CommitIsCurrent
<1>6. CpuInv'
  BY <1>1, <1>5 DEF CpuInv
<1>7. t \in [Resource -> ResourceState] /\ AfterBarriers(t) \in [Resource -> ResourceState]
  BY TransitionedType, BarriersType DEF Inv
<1>8. TypeOK'
  <2>1. need' \subseteq Committed /\ stale' \subseteq Section
    BY <1>1, <1>2, FlushFlags DEF Inv, TypeOK
  <2>2. desc' \in Desc
    BY <1>1, <1>3, <1>4 DEF Inv, TypeOK, Captured, Desc, Resource
  <2>3. rstate' \in [Resource -> ResourceState] /\ real' \in [Resource -> ResourceState]
    <3>. HIDE DEF t
    <3>. QED BY <1>1, <1>7 DEF ResourceState
  <2>4. list' \in [Slot -> Descriptor \cup {Unset, Foreign}] /\ pso' = Unset /\ root' = Unset
    BY <1>1, <1>4, ResetListFacts
  <2>5. bound'["RenderTargets"] \in Image \cup {Null} /\ bound'["DepthBuffers"] \in DepthImage \cup {Null}
    BY <1>1, <1>2, <1>3, <1>4 DEF Inv, TypeOK
  <2>6. dirty' \subseteq Flag /\ numRt' \in 0 .. 1 /\ bound' \in [Slot -> Value \cup {Null}] /\ back' \in BackBuffer
    BY <1>1, <1>4, FlagKinds
  <2>. HIDE DEF b, e, d, m, t
  <2>. QED BY <1>5, <2>1, <2>2, <2>3, <2>4, <2>5, <2>6 DEF TypeOK
<1>9. RealInv'
  <2>1. \A r \in BackBuffer : t[r] = "RENDER_TARGET"
    <3>. HIDE DEF b, e, d, m
    <3>. QED BY <1>4, TransitionedBack
  <2>2. \A r \in Resource : AfterBarriers(t)[r] = IF r \in Presented THEN "PRESENT" ELSE t[r]
    BY <1>7, <2>1, BarriersReal
  <2>3. \A s \in Srv : bound'[s] \notin BackBuffer
    <3>1. \A s \in Srv : s \in Slot /\ s # "RenderTargets"
      BY SlotKinds DEF Targets
    <3>. QED BY <1>1, <1>4, <3>1 DEF Inv, FlagsInv, RealInv
  <2>4. \A r \in Resource : real'[r] = IF r \in BackBuffer \ {next} THEN "PRESENT" ELSE t[r]
    <3>. HIDE DEF t
    <3>. QED BY <1>1, <1>3, <1>7, <2>1, <2>2 DEF Presented
  <2>. HIDE DEF b, e, d, m, t
  <2>. QED BY <1>1, <2>1, <2>3, <2>4 DEF RealInv, Presented
<1>10. "DrawExtent" \in Slot => list'["DrawExtent"] = bound'["DrawExtent"]
  BY <1>1, <1>4, ResetListFacts
<1>11. \A s \in Srv : list'[s] = Unset
  BY <1>1, <1>4, ResetListFacts
<1>. QED BY <1>1, <1>6, <1>8, <1>9, <1>10, <1>11, NewListInv

(* So does a blit, which unsets what its root signature does not have. *)
LEMMA BlitInv ==
  ASSUME Inv, NEW src \in Resource \ BackBuffer, NEW dst \in Image, Blit(src, dst)
  PROVE  Inv'
<1>1. /\ pso' = Foreign /\ root' = Foreign
      /\ list' = [x \in Slot |-> CASE x \in Srv \cup Table -> Unset
                                   [] x = "RenderTargets" -> dst
                                   [] x = "DepthBuffers" -> Null
                                   [] x = "DrawExtent" -> bound[x]
                                   [] OTHER -> list[x]]
      /\ rstate' = [rstate EXCEPT ![src] = "PIXEL_SHADER_RESOURCE", ![dst] = "RENDER_TARGET"]
      /\ real' = AfterBarriers(rstate')
      /\ dirty' = AnyState \cup AnyResource
      /\ src # dst
      /\ UNCHANGED <<need, stale, desc, numRt, bound, cpu, back>>
  BY DEF Blit
<1>2. \A x \in Srv \cup Table : x \notin {"RenderTargets", "DepthBuffers", "DrawExtent"}
  BY PipelineAssumption, SlotKinds DEF Flag, Targets, AnyState
<1>3. TypeOK'
  <2>1. list' \in [Slot -> Descriptor \cup {Unset, Foreign}]
    <3>1. \A x \in Slot : list'[x] \in {Unset, dst, Null, bound[x], list[x]}
      BY <1>1, <1>2
    <3>2. \A x \in Slot : {Unset, dst, Null, bound[x], list[x]} \subseteq Descriptor \cup {Unset, Foreign}
      BY DEF Inv, TypeOK, Descriptor, Value, Resource
    <3>. QED BY <1>1, <3>1, <3>2
  <2>2. rstate' \in [Resource -> ResourceState]
    BY <1>1 DEF Inv, TypeOK, ResourceState
  <2>3. real' \in [Resource -> ResourceState]
    BY <1>1, <2>2, BarriersType DEF Inv
  <2>. QED BY <1>1, <2>1, <2>2, <2>3, FlagKinds DEF Inv, TypeOK
<1>4. CpuInv'
  BY <1>1, FlagKinds DEF Inv, FlagsInv, CpuInv, Targets
<1>5. \A s \in Srv : list'[s] = Unset
  BY <1>1, <1>2, SlotKinds
<1>6. "DrawExtent" \in Slot => list'["DrawExtent"] = bound'["DrawExtent"]
  BY <1>1, <1>2
<1>7. RealInv'
  <2>1. \A b \in BackBuffer : b \in Resource /\ rstate'[b] = "RENDER_TARGET"
    BY <1>1, PipelineAssumption DEF Inv, TypeOK, FlagsInv, RealInv, Resource
  <2>2. \A r \in Resource : real'[r] = IF r \in Presented THEN "PRESENT" ELSE rstate'[r]
    BY <1>1, <1>3, <2>1, BarriersReal DEF TypeOK
  <2>. QED BY <1>1, <2>1, <2>2 DEF Inv, FlagsInv, RealInv, Presented
<1>. QED BY <1>1, <1>3, <1>4, <1>5, <1>6, <1>7, NewListInv

(* A clear moves a resource's state alone. *)
LEMMA ClearInv == ASSUME Inv, NEW r \in Resource, Clear(r) PROVE Inv'
<1>1. /\ rstate' = [rstate EXCEPT ![r] = IF r \in Image THEN "RENDER_TARGET" ELSE "DEPTH_WRITE"]
      /\ real' = AfterBarriers(rstate')
      /\ UNCHANGED <<dirty, need, stale, desc, numRt, bound, cpu, pso, root, list, back>>
  BY DEF Clear, stateVars
<1>2. rstate' \in [Resource -> ResourceState]
  BY <1>1 DEF Inv, TypeOK, ResourceState
<1>3. TypeOK'
  <2>1. real' \in [Resource -> ResourceState]
    BY <1>1, <1>2, BarriersType DEF Inv
  <2>. QED BY <1>1, <1>2, <2>1 DEF Inv, TypeOK
<1>4. CpuInv' /\ PsoInv' /\ ListInv' /\ SectionInv'
  BY <1>1 DEF Inv, FlagsInv, CpuInv, PsoInv, ListInv, SectionInv, TargetsCurrent
<1>5. RealInv'
  <2>1. \A b \in BackBuffer : rstate'[b] = "RENDER_TARGET"
    BY <1>1, PipelineAssumption DEF Inv, TypeOK, FlagsInv, RealInv, Resource
  <2>2. \A q \in Resource : real'[q] = IF q \in Presented THEN "PRESENT" ELSE rstate'[q]
    BY <1>1, <1>2, <2>1, BarriersReal
  <2>. QED BY <1>1, <2>1, <2>2 DEF Inv, FlagsInv, RealInv, Presented
<1>. QED BY <1>3, <1>4, <1>5 DEF Inv, FlagsInv

-----------------------------------------------------------------------------
(* Every step preserves the invariant. *)
LEMMA NextInv == Inv /\ [Next]_vars => Inv'
<1>. SUFFICES ASSUME Inv, [Next]_vars PROVE Inv'
  OBVIOUS
<1>1. ASSUME NEW f \in Shader, NEW v \in Option \cup {Null}, SetShader(f, v) PROVE Inv'
  <2>1. f \in AnyState /\ desc' \in Desc /\ numRt \in 0 .. 1
    BY <1>1 DEF SetShader, AnyState, Inv, TypeOK, Desc
  <2>. QED BY <1>1, <2>1, SetterInv DEF SetShader
<1>2. ASSUME NEW f \in Setting, NEW v \in Option, Set(f, v) PROVE Inv'
  <2>1. f \in AnyState /\ desc' \in Desc /\ numRt \in 0 .. 1
    BY <1>2 DEF Set, AnyState, Inv, TypeOK, Desc
  <2>. QED BY <1>2, <2>1, SetterInv DEF Set
<1>3. ASSUME NEW s \in Srv, NEW r \in Value \ BackBuffer, BindResource(s, r) PROVE Inv'
  BY <1>3, BindResourceInv
<1>4. ASSUME NEW x \in Table \cup Input, NEW v \in Item, Bind(x, v) PROVE Inv'
  <2>1. v \in Value /\ v # Null /\ x \notin Targets
    BY PipelineAssumption, SlotKinds DEF Value
  <2>. QED BY <1>4, <2>1, BindInv DEF Bind, Targets
<1>5. ASSUME NEW r \in Image \cup {Null}, Bind("RenderTargets", r) PROVE Inv'
  <2>1. r \in Value \cup {Null} /\ "RenderTargets" \in Targets
    BY DEF Value, Resource, Targets
  <2>. QED BY <1>5, <2>1, BindInv DEF Bind
<1>6. ASSUME NEW r \in DepthImage, BindDepthTarget(r) PROVE Inv'
  <2>1. r \in Value /\ r # Null /\ "DepthBuffers" \in Targets
    BY PipelineAssumption DEF Value, Resource, Targets
  <2>2. desc' \in Desc
    BY <1>6 DEF BindDepthTarget, Inv, TypeOK, Desc, Resource, Targets
  <2>. QED BY <1>6, <2>1, <2>2, BindInv DEF BindDepthTarget
<1>7. ASSUME NEW n \in 0 .. 1, SetNumRt(n) PROVE Inv'
  <2>1. "RenderTargets" \in AnyState
    BY DEF AnyState, Targets
  <2>2. Captured(n, bound) \in Resource \cup {Null}
    BY DEF Captured, Inv, TypeOK, Resource
  <2>3. desc' \in Desc
    BY <1>7, <2>2 DEF SetNumRt, Inv, TypeOK, Desc
  <2>. QED BY <1>7, <2>1, <2>3, SetterInv DEF SetNumRt
<1>8. ASSUME Draw PROVE Inv'
  BY <1>8, DrawFacts DEF Inv
<1>9. ASSUME Reset PROVE Inv'
  BY <1>9, ResetInv
<1>10. ASSUME NEW next \in BackBuffer, Present(next) PROVE Inv'
  BY <1>10, PresentInv
<1>11. ASSUME NEW src \in Resource \ BackBuffer, NEW dst \in Image, Blit(src, dst) PROVE Inv'
  BY <1>11, BlitInv
<1>12. ASSUME NEW r \in Resource, Clear(r) PROVE Inv'
  BY <1>12, ClearInv
<1>13. CASE UNCHANGED vars
  <2>1. UNCHANGED <<dirty, need, stale, desc, numRt, bound, cpu, pso, root, list, rstate, real, back>>
    BY <1>13 DEF vars, stateVars, listVars, resourceVars
  <2>. QED BY <2>1 DEF Inv, TypeOK, FlagsInv, CpuInv, PsoInv, ListInv, SectionInv, RealInv,
              Presented, TargetsCurrent
<1>. QED
  BY <1>1, <1>2, <1>3, <1>4, <1>5, <1>6, <1>7, <1>8, <1>9, <1>10, <1>11, <1>12, <1>13 DEF Next

(* It holds in every reachable state. *)
LEMMA SpecInv == Spec => []Inv
BY InitInv, NextInv, PTL DEF Spec

(***************************************************************************)
(* The types, and what the flags say: whatever the absence of a flag       *)
(* promises of the descriptors and of the list holds of every slot in      *)
(* which something is bound, although clean_pso and bind_shader_resources  *)
(* flip flags with exclusive ors and the descriptors start with whatever   *)
(* the memory held; and a resource is in its recorded state unless it is a *)
(* back buffer of another frame, which is in PRESENT.                      *)
(***************************************************************************)
THEOREM FlagsHold == Spec => []TypeOK /\ []FlagsInv
<1>1. Inv => TypeOK /\ FlagsInv
  BY DEF Inv
<1>. QED BY <1>1, SpecInv, PTL

(***************************************************************************)
(* pre_draw: at every draw the pipeline object, the tables, the targets    *)
(* and the buffers on the list are those that were set last, wherever      *)
(* something is bound.                                                     *)
(***************************************************************************)
THEOREM DrawCurrent == Spec => DrawIsCurrent
<1>1. Inv /\ [Next]_vars => [Draw => Current']_vars
  BY DrawFacts
<1>. QED BY <1>1, SpecInv, PTL DEF Spec, DrawIsCurrent

(***************************************************************************)
(* pre_draw: in a slot where something is bound a draw samples that, or    *)
(* its section was not set since the list was reset; what was bound since  *)
(* the last draw is always set.  Of the slots beside it in the section, in *)
(* which nothing is bound, nothing is claimed.                             *)
(***************************************************************************)
THEOREM DrawSamples == Spec => DrawSamplesBound
<1>1. Inv /\ [Next]_vars => [Draw => SectionsCurrent' /\ \A s \in Srv : SectionOf[s] \in stale /\ bound[s] # Null => list'[s] = bound[s]]_vars
  BY DrawFacts
<1>. QED BY <1>1, SpecInv, PTL DEF Spec, DrawSamplesBound

(***************************************************************************)
(* ensure_resource_states: at every draw the targets are really in the     *)
(* state to be written in, even when the same resource is bound for        *)
(* sampling, and although a present moves a back buffer and records        *)
(* nothing: the current back buffer is in the state that is recorded.  The *)
(* other back buffers are left out.                                        *)
(***************************************************************************)
THEOREM DrawWrites == Spec => DrawWritesTargets
<1>1. ASSUME Inv, Draw PROVE TargetsWritable'
  <2>. DEFINE m == NeedAfterCommit(AfterPso(dirty))
  <2>1. rstate' = Transitioned(m, bound, numRt, desc) /\ UNCHANGED <<desc, numRt, bound, back>>
    BY <1>1 DEF Draw, Flush
  <2>2. /\ bound["RenderTargets"] \in Image \cup {Null}
        /\ bound["DepthBuffers"] \in DepthImage \cup {Null}
    BY <1>1 DEF Inv, TypeOK
  <2>3. numRt = 1 /\ bound["RenderTargets"] # Null => rstate'[bound["RenderTargets"]] = "RENDER_TARGET"
    BY <2>1, <2>2 DEF Transitioned, DrawnTo, Resource
  <2>4. bound["DepthBuffers"] # Null /\ desc["DepthTest"] = Enabled =>
          rstate'[bound["DepthBuffers"]] = "DEPTH_WRITE"
    <3>. SUFFICES ASSUME bound["DepthBuffers"] # Null, desc["DepthTest"] = Enabled
                  PROVE  rstate'[bound["DepthBuffers"]] = "DEPTH_WRITE"
      OBVIOUS
    <3>1. bound["DepthBuffers"] \in Resource /\ bound["DepthBuffers"] \in DepthOf(m, bound, desc)
      BY <2>2 DEF Resource, DepthOf
    <3>2. bound["DepthBuffers"] \notin DrawnTo(bound, numRt)
      <4>1. bound["DepthBuffers"] \notin Image
        BY <2>2, PipelineAssumption
      <4>2. bound["DepthBuffers"] # bound["RenderTargets"]
        BY <2>2, <4>1
      <4>. QED BY <4>2 DEF DrawnTo
    <3>. QED BY <2>1, <3>1, <3>2 DEF Transitioned
  <2>5. \A r \in Resource : real'[r] = IF r \in Presented THEN "PRESENT" ELSE rstate'[r]
    BY <1>1, <2>1, DrawFacts DEF FlagsInv, RealInv, Presented
  <2>6. /\ bound["RenderTargets"] # Null => bound["RenderTargets"] \in Resource
        /\ bound["DepthBuffers"] # Null =>
             bound["DepthBuffers"] \in Resource /\ bound["DepthBuffers"] \notin Presented
    BY <2>2, PipelineAssumption DEF Resource, Presented
  <2>. HIDE DEF m
  <2>. QED BY <2>1, <2>3, <2>4, <2>5, <2>6 DEF TargetsWritable, Presented
<1>2. Inv /\ [Next]_vars => [Draw => TargetsWritable']_vars
  BY <1>1
<1>. QED BY <1>2, SpecInv, PTL DEF Spec, DrawWritesTargets
=============================================================================
