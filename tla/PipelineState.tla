---------------------------- MODULE PipelineState ----------------------------
(***************************************************************************)
(* Void3D/D3D12_PipelineState.cpp: what the renderer has set and bound is  *)
(* remembered with dirty flags, and only a draw records on the command     *)
(* list what the flags say has changed (pre_draw).  A resource goes from   *)
(* bound to a CPU descriptor (commit_bound_to_cpu) and from there to the   *)
(* list, each stage with flags of its own.                                 *)
(*                                                                         *)
(* A flag is named as in PSODirtyFlags and names what it guards.  The      *)
(* sixteen slots of a table and the eight render targets stand for one slot*)
(* each: a stage copies them all under one flag.  The slots of the shader  *)
(* resource views keep their sections, each with a mark of its own.        *)
(*                                                                         *)
(* A resource has the state the program has recorded (rstate) and the one  *)
(* it is in (real): present and begin_new_frame move a back buffer without *)
(* recording it.                                                           *)
(***************************************************************************)
EXTENDS Naturals

CONSTANTS
  Shader,      \* flags of the shader stages a run sets: subset of ANY_SHADER_DIRTY
  Setting,     \* flags of the fixed-function settings, "DepthTest" among them
  Section,     \* _boundSrvSections
  Srv,         \* the slots in them
  SectionOf,   \* the section of a slot: eight slots each
  Table,       \* flags of the tables bound as a whole: constants, samplers
  Input,       \* flags of the other things that are bound: see InputFlag
  Image, DepthImage,  \* resources with a state: render targets, depth targets
  BackBuffer,  \* the images of the swap chain, which have no view to sample
  Option,      \* values of a setting, shaders
  Item,        \* buffers, samplers, topologies, extents
  Enabled,     \* the value of DepthTest that enables it
  Null,        \* nothing bound: a null pointer, a default descriptor
  Memory,      \* what a descriptor may hold that nobody has written; Null is 0
  Unset,       \* a list that was reset has nothing set
  Foreign      \* what the blit (or ImGui) sets on the list in passing

Targets == {"RenderTargets", "DepthBuffers"}
InputFlag == {"IndexBuffer", "InputPrimitive", "DrawExtent"}

(* ANY_STATE_DIRTY; DrawExtent is in neither mask. *)
AnyState == Shader \cup Setting \cup Targets \cup {"InputPrimitive"}
(* ANY_RESOURCE_DIRTY *)
AnyResource == Table \cup {"StructuredBuffers", "IndexBuffer"}
Flag == AnyState \cup AnyResource \cup {"DrawExtent"}

(* The flags that commit_bound_to_cpu hands on in _needGpuCommit. *)
Committed == AnyResource \cup Targets

(* What can be bound, beside the description of the pipeline object. *)
Slot == Srv \cup Table \cup Targets \cup Input
FlagOf(x) == IF x \in Srv THEN "StructuredBuffers" ELSE x

Resource == Image \cup DepthImage
Value == Resource \cup Item
Descriptor == Value \cup {Null} \cup Memory
Desc == [Shader \cup Setting \cup Targets -> Option \cup Resource \cup {Null}]

ASSUME PipelineAssumption ==
  /\ Srv \cap Flag = {} /\ SectionOf \in [Srv -> Section]
  /\ Shader \subseteq {"VertexShader", "PixelShader", "GeoShader", "MeshShader", "AmpShader"}
  /\ "DepthTest" \in Setting
  /\ Setting \subseteq {"DepthTest", "Stencil", "Topology", "CullMode", "FillMode"}
  /\ Table \subseteq {"ConstantBuffers", "SamplerBuffers"}
  /\ Input \subseteq InputFlag
  /\ BackBuffer \subseteq Image
  /\ Image \cap DepthImage = {} /\ Resource \cap Item = {}
  /\ Enabled \in Option
  /\ {Null, Unset, Foreign} \cap (Value \cup Option) = {}
  /\ Null # Unset /\ Null # Foreign /\ Unset # Foreign

VARIABLES
  dirty,       \* _dirtyFlags
  need,        \* _needGpuCommit
  stale,       \* the sections whose DescriptorSection::dirty is set
  desc,        \* _stateDesc, a field per flag; of the targets, what was captured
  numRt,       \* _stateDesc.numRenderTargets
  bound,       \* _boundRtvs, _boundDsv, section.resources, ..., _viewport
  cpu,         \* _boundRtvDescs, section.handles, ...: the CPU descriptors
  pso, root,   \* the list's pipeline object (by its description), root signature
  list,        \* what else is set on the list, per slot
  rstate,      \* D3D12_VoidResource::_currentState
  real,        \* the state the resource is in by then
  back         \* the current back buffer: get_current_frame_index()

stateVars == <<dirty, need, stale, desc, numRt, bound, cpu>>
resourceVars == <<rstate, real, back>>
listVars == <<pso, root, list, resourceVars>>
vars == <<stateVars, listVars>>

ResourceState == {"GENERIC_READ", "RENDER_TARGET", "DEPTH_WRITE", "PIXEL_SHADER_RESOURCE", "PRESENT"}

TypeOK ==
  /\ dirty \subseteq Flag
  /\ need \subseteq Committed
  /\ stale \subseteq Section
  /\ desc \in Desc
  /\ numRt \in 0 .. 1
  /\ bound \in [Slot -> Value \cup {Null}]
  /\ bound["RenderTargets"] \in Image \cup {Null} /\ bound["DepthBuffers"] \in DepthImage \cup {Null}
  /\ cpu \in [Slot -> Descriptor]
  /\ pso \in Desc \cup {Unset, Foreign}
  /\ root \in {"own", Unset, Foreign}
  /\ list \in [Slot -> Descriptor \cup {Unset, Foreign}]
  /\ rstate \in [Resource -> ResourceState] /\ real \in [Resource -> ResourceState]
  /\ back \in BackBuffer

-----------------------------------------------------------------------------
(* init and the first frame_ended.  The constructor leaves _needGpuCommit and
   the arrays of CPU descriptors as the memory was: any bits, any addresses.
   The prologue of the first frame has moved the first back buffer. *)
InitWith(extent, topology, setting, memory, first) ==
  /\ dirty = AnyState \cup AnyResource
  /\ need \in SUBSET Committed
  /\ stale = {}
  /\ desc = [f \in Shader \cup Setting \cup Targets |->
              IF f \in Setting THEN setting ELSE Null]
  /\ numRt = 0
  /\ bound = [x \in Slot |-> CASE x = "DrawExtent" -> extent
                               [] x = "InputPrimitive" -> topology
                               [] OTHER -> Null]
  /\ cpu = memory
  /\ pso = Unset
  /\ root = Unset
  /\ list = [x \in Slot |-> IF x = "DrawExtent" THEN extent ELSE Unset]
  /\ back = first
  /\ rstate = [r \in Resource |-> IF r \in BackBuffer THEN "RENDER_TARGET" ELSE "GENERIC_READ"]
  /\ real = [r \in Resource |-> IF r \in BackBuffer \ {first} THEN "PRESENT" ELSE rstate[r]]

Init ==
  \E extent, topology \in Item, setting \in Option, memory \in [Slot -> Memory], first \in BackBuffer :
    InitWith(extent, topology, setting, memory, first)

-----------------------------------------------------------------------------
(***************************************************************************)
(* Setters: they touch the flags and what is bound, never the list.        *)
(***************************************************************************)
(* bind_vertex_shader, ...: nothing to do for the shader that is set. *)
SetShader(f, v) ==
  /\ desc[f] # v
  /\ desc' = [desc EXCEPT ![f] = v]
  /\ dirty' = dirty \cup {f}
  /\ UNCHANGED <<need, stale, numRt, bound, cpu, listVars>>

(* set_enable_depth, set_depth_clip, set_cull_mode, ... *)
Set(f, v) ==
  /\ desc' = [desc EXCEPT ![f] = v]
  /\ dirty' = dirty \cup {f}
  /\ UNCHANGED <<need, stale, numRt, bound, cpu, listVars>>

(* bind_resource of an image or a structured buffer: the section is marked. *)
BindResource(s, r) ==
  /\ bound' = [bound EXCEPT ![s] = r]
  /\ stale' = stale \cup {SectionOf[s]}
  /\ dirty' = dirty \cup {"StructuredBuffers"}
  /\ UNCHANGED <<need, desc, numRt, cpu, listVars>>

(* bind_constant, bind_resource of a sampler, bind_index_buffer,
   set_input_topology, set_draw_extent, and bind_render_target. *)
Bind(x, v) ==
  /\ bound' = [bound EXCEPT ![x] = v]
  /\ dirty' = dirty \cup {x}
  /\ UNCHANGED <<need, stale, desc, numRt, cpu, listVars>>

(* bind_depth_target also takes over the target's format. *)
BindDepthTarget(d) ==
  /\ bound' = [bound EXCEPT !["DepthBuffers"] = d]
  /\ desc' = [desc EXCEPT !["DepthBuffers"] = d]
  /\ dirty' = dirty \cup {"DepthBuffers"}
  /\ UNCHANGED <<need, stale, numRt, cpu, listVars>>

(* set_num_rt captures the render targets bound at this moment. *)
Captured(n, b) == IF n = 0 THEN Null ELSE b["RenderTargets"]

SetNumRt(n) ==
  /\ numRt' = n
  /\ desc' = [desc EXCEPT !["RenderTargets"] = Captured(n, bound)]
  /\ dirty' = dirty \cup {"RenderTargets"}
  /\ UNCHANGED <<need, stale, bound, cpu, listVars>>

-----------------------------------------------------------------------------
(***************************************************************************)
(* The stages of a draw, as functions of the flags d, the bindings b and   *)
(* the number n of render targets it starts from.                          *)
(***************************************************************************)
SymDiff(A, B) == (A \ B) \cup (B \ A)

(* A defect: nothing is put back after the exclusive or. *)
CleanPsoForgets(d) == SymDiff(d, AnyState)

(* clean_pso: an exclusive or, then four flags are put back. *)
CleanPso(d) ==
  SymDiff(d, AnyState) \cup (d \cap (Targets \cup {"InputPrimitive", "DrawExtent"}))

IsPsoDirty(d) == d \cap AnyState # {}
AfterPso(d) == IF IsPsoDirty(d) THEN CleanPso(d) ELSE d

(* A defect: a descriptor that is there is kept. *)
CommitBoundOnce(d, b) ==
  [x \in Slot |->
     IF FlagOf(x) \in d \cap Committed /\ (x \in Srv => SectionOf[x] \in stale) /\ cpu[x] = Null
     THEN b[x] ELSE cpu[x]]

(* commit_bound_to_cpu: what is dirty is copied, but never a null pointer, so
   that a slot in which nothing was ever bound keeps what the memory held. *)
CommitBound(d, b) ==
  [x \in Slot |->
     IF FlagOf(x) \in d \cap Committed /\ (x \in Srv => SectionOf[x] \in stale) /\ b[x] # Null
     THEN b[x] ELSE cpu[x]]
NeedAfterCommit(d) == need \cup (d \cap Committed)

(* bind_shader_resources clears each flag it served; the flags of the two
   kinds of target are served together and flipped together. *)
NeedAfterBind(m) ==
  (IF m \cap Targets # {} THEN SymDiff(m, Targets) ELSE m) \ AnyResource

(* SetGraphicsRootSignature: a change of signature unsets the tables. *)
AfterRoot(d) ==
  IF IsPsoDirty(d) /\ root # "own"
  THEN [x \in Slot |-> IF x \in Srv \cup Table THEN Unset ELSE list[x]]
  ELSE list

(* What bind_shader_resources records; d are the flags after clean_pso.  Where
   a descriptor is 0 it takes the default, but copies any other. *)
Recorded(x, d, m, b, n, c, l) ==
  CASE x \in Srv -> IF "StructuredBuffers" \in m /\ SectionOf[x] \in stale THEN c ELSE l
    [] x \in Table -> IF x \in m THEN c ELSE l
    [] x = "RenderTargets" -> IF m \cap Targets = {} THEN l ELSE IF n = 0 THEN Null ELSE c
    [] x = "DepthBuffers" -> IF m \cap Targets = {} THEN l ELSE IF b[x] = Null THEN Null ELSE c
    [] x = "IndexBuffer" -> IF x \in m /\ b[x] # Null THEN b[x] ELSE l
    [] OTHER -> IF x \in d THEN b[x] ELSE l

(* A defect: what the table showed before is taken to be readable still. *)
SampledNew(m, b) ==
  IF "StructuredBuffers" \in m
  THEN {b[s] : s \in {t \in Srv : SectionOf[t] \in stale /\ cpu[t] # b[t]}} \cap Resource
  ELSE {}

(* transition_resource in the order of the code: first what is sampled, then
   the targets, and the targets again in ensure_resource_states. *)
Sampled(m, b) ==
  IF "StructuredBuffers" \in m
  THEN {b[s] : s \in {t \in Srv : SectionOf[t] \in stale}} \cap Resource
  ELSE {}
DrawnTo(b, n) == IF n = 0 THEN {} ELSE {b["RenderTargets"]} \cap Resource
DepthOf(m, b, e) ==
  IF m \cap Targets # {} \/ e["DepthTest"] = Enabled THEN {b["DepthBuffers"]} \cap Resource ELSE {}

(* A defect: without ensure_resource_states what is sampled stays readable. *)
TransitionedOnce(m, b, n, e) ==
  [r \in Resource |-> IF r \in Sampled(m, b) THEN "GENERIC_READ"
                      ELSE IF r \in DrawnTo(b, n) THEN "RENDER_TARGET"
                      ELSE IF r \in DepthOf(m, b, e) THEN "DEPTH_WRITE"
                      ELSE rstate[r]]

Transitioned(m, b, n, e) ==
  [r \in Resource |-> IF r \in DrawnTo(b, n) THEN "RENDER_TARGET"
                      ELSE IF r \in DepthOf(m, b, e) THEN "DEPTH_WRITE"
                      ELSE IF r \in Sampled(m, b) THEN "GENERIC_READ"
                      ELSE rstate[r]]

(* A barrier is recorded only where the recorded state is another. *)
AfterBarriers(s) == [r \in Resource |-> IF s[r] = rstate[r] THEN real[r] ELSE s[r]]

(* bind_pso_if_invalid, bind_shader_resources, ensure_resource_states. *)
Flush(d, b, n, e) ==
  LET d1 == AfterPso(d)
      m  == NeedAfterCommit(d1)
  IN /\ dirty' = d1 \ (Committed \cup {"DrawExtent", "InputPrimitive"})
     /\ need' = NeedAfterBind(m)
     /\ cpu' = CommitBound(d1, b)
     /\ stale' = IF "StructuredBuffers" \in m THEN {} ELSE stale
     /\ root' = IF IsPsoDirty(d) THEN "own" ELSE root
     /\ list' = [x \in Slot |-> Recorded(x, d1, m, b, n, cpu'[x], AfterRoot(d)[x])]
     /\ rstate' = Transitioned(m, b, n, e)
     /\ real' = AfterBarriers(rstate')

(* pre_draw and the draw.  To build a pipeline object create_state reads the
   formats of the captured targets: there must be one. *)
Draw ==
  /\ IsPsoDirty(dirty) /\ numRt = 1 => desc["RenderTargets"] # Null
  /\ Flush(dirty, bound, numRt, desc)
  /\ pso' = IF IsPsoDirty(dirty) THEN desc ELSE pso
  /\ UNCHANGED <<desc, numRt, bound, back>>

-----------------------------------------------------------------------------
(***************************************************************************)
(* A list is reset: reset_list, or present and begin_new_frame.            *)
(***************************************************************************)
(* bind_view_scissor and the flags of frame_ended; the sections' own marks
   and _needGpuCommit are not touched. *)
ResetList(b) ==
  /\ pso' = Unset
  /\ root' = Unset
  /\ list' = [x \in Slot |-> IF x = "DrawExtent" THEN b[x] ELSE Unset]

Reset ==
  /\ ResetList(bound)
  /\ dirty' = AnyState \cup AnyResource
  /\ UNCHANGED <<need, stale, desc, numRt, bound, cpu, resourceVars>>

(* present binds the back buffer for ImGui, flushes with onlyRoot, which takes
   the flags for the pipeline object but does not set it, and closes the list;
   begin_new_frame resets it for the next back buffer.  Their own barriers are
   not recorded: what was presented stays bound, as a RENDER_TARGET. *)
Present(next) ==
  LET b == [bound EXCEPT !["RenderTargets"] = back]
      e == [desc EXCEPT !["RenderTargets"] = Captured(1, b)]
      d1 == AfterPso(dirty \cup {"RenderTargets"})
      m == NeedAfterCommit(d1)
  IN /\ bound' = b
     /\ numRt' = 1
     /\ desc' = e
     /\ dirty' = AnyState \cup AnyResource
     /\ need' = NeedAfterBind(m)
     /\ cpu' = CommitBound(d1, b)
     /\ stale' = IF "StructuredBuffers" \in m THEN {} ELSE stale
     /\ rstate' = Transitioned(m, b, 1, e)
     /\ real' = [AfterBarriers(rstate') EXCEPT ![back] = "PRESENT", ![next] = "RENDER_TARGET"]
     /\ back' = next
     /\ ResetList(b)

(* blit_to_render_target and force_bind_state: the root signature, the pipeline
   object and the targets are others now, the viewport is put back. *)
Blit(src, dst) ==
  /\ src # dst
  /\ pso' = Foreign
  /\ root' = Foreign
  /\ list' = [x \in Slot |-> CASE x \in Srv \cup Table -> Unset
                               [] x = "RenderTargets" -> dst
                               [] x = "DepthBuffers" -> Null
                               [] x = "DrawExtent" -> bound[x]
                               [] OTHER -> list[x]]
  /\ rstate' = [rstate EXCEPT ![src] = "PIXEL_SHADER_RESOURCE", ![dst] = "RENDER_TARGET"]
  /\ real' = AfterBarriers(rstate')
  /\ dirty' = AnyState \cup AnyResource
  /\ UNCHANGED <<need, stale, desc, numRt, bound, cpu, back>>

(* clear_image and clear_depth. *)
Clear(r) ==
  /\ rstate' = [rstate EXCEPT ![r] = IF r \in Image THEN "RENDER_TARGET" ELSE "DEPTH_WRITE"]
  /\ real' = AfterBarriers(rstate')
  /\ UNCHANGED <<stateVars, pso, root, list, back>>

(* Only what has a view of its own is sampled: get_d3d12_srv throws. *)
Next ==
  \/ \E f \in Shader, v \in Option \cup {Null} : SetShader(f, v)
  \/ \E f \in Setting, v \in Option : Set(f, v)
  \/ \E s \in Srv, r \in Value \ BackBuffer : BindResource(s, r)
  \/ \E x \in Table \cup Input, v \in Item : Bind(x, v)
  \/ \E r \in Image \cup {Null} : Bind("RenderTargets", r)
  \/ \E r \in DepthImage : BindDepthTarget(r)
  \/ \E n \in 0 .. 1 : SetNumRt(n)
  \/ Draw
  \/ Reset
  \/ \E next \in BackBuffer : Present(next)
  \/ \E src \in Resource \ BackBuffer, dst \in Image : Blit(src, dst)
  \/ \E r \in Resource : Clear(r)

Spec == Init /\ [][Next]_vars
-----------------------------------------------------------------------------
(***************************************************************************)
(* A draw uses what was set last: whatever calls came since the previous   *)
(* draw, however the flags were flipped and whatever the memory held in    *)
(* which the descriptors were made, the pipeline object is that of the     *)
(* description, and tables, targets, buffers, topology and extent on the   *)
(* list are those bound now.  Nothing is claimed of a slot in which        *)
(* nothing is bound: what the list has there may come from that memory.    *)
(***************************************************************************)
TargetsCurrent ==
  /\ list["DepthBuffers"] = bound["DepthBuffers"]
  /\ numRt = 0 => list["RenderTargets"] = Null
  /\ numRt = 1 /\ bound["RenderTargets"] # Null => list["RenderTargets"] = bound["RenderTargets"]

Current ==
  /\ pso = desc /\ root = "own"
  /\ TargetsCurrent
  /\ \A x \in Table \cup Input : bound[x] # Null => list[x] = bound[x]

DrawIsCurrent == [][Draw => Current']_vars

(***************************************************************************)
(* A draw never samples what was bound before: where something is bound,   *)
(* the table of the section has that or, since the list was reset, is not  *)
(* set; and a section bound since the last draw is always set.             *)
(***************************************************************************)
SectionsCurrent == \A s \in Srv : bound[s] # Null => list[s] \in {bound[s], Unset}

DrawSamplesBound ==
  [][Draw => /\ SectionsCurrent'
             /\ \A s \in Srv : SectionOf[s] \in stale /\ bound[s] # Null => list'[s] = bound[s]]_vars

(***************************************************************************)
(* A draw never writes to a resource that is really in another state,      *)
(* although the same resource may be bound for sampling, cleared, blitted  *)
(* to or, as a back buffer, presented in between.  Left out are the back   *)
(* buffers that are not the current one: after a present, the one that was *)
(* presented is still bound, and a draw before another target is bound     *)
(* writes to it without a barrier.                                         *)
(***************************************************************************)
Presented == BackBuffer \ {back}

TargetsWritable ==
  /\ numRt = 1 /\ bound["RenderTargets"] \notin Presented \cup {Null} =>
       real[bound["RenderTargets"]] = "RENDER_TARGET"
  /\ bound["DepthBuffers"] # Null /\ desc["DepthTest"] = Enabled =>
       real[bound["DepthBuffers"]] = "DEPTH_WRITE"

DrawWritesTargets == [][Draw => TargetsWritable']_vars

(***************************************************************************)
(* Why the above holds: what the absence of a flag says, and where the     *)
(* recorded state of a resource is not its own, an inductive invariant.    *)
(***************************************************************************)
(* Where the descriptor of what is bound is that no commit replaces. *)
CpuInv ==
  /\ \A x \in Table \cup Targets : x \notin dirty /\ bound[x] # Null => cpu[x] = bound[x]
  /\ \A s \in Srv : SectionOf[s] \notin stale /\ bound[s] # Null => cpu[s] = bound[s]

PsoInv ==
  /\ ~IsPsoDirty(dirty) => pso = desc
  /\ root # "own" => Table \cup {"IndexBuffer"} \cup AnyState \subseteq dirty

ListInv ==
  /\ \A x \in Table \cup Input : x \notin dirty \cup need /\ bound[x] # Null => list[x] = bound[x]
  /\ (dirty \cup need) \cap Targets = {} => TargetsCurrent

SectionInv ==
  /\ stale # {} => "StructuredBuffers" \in dirty
  /\ \A s \in Srv : SectionOf[s] \notin stale /\ bound[s] # Null => list[s] \in {bound[s], Unset}

(* Only the back buffers that are not the current one are in a state the
   program does not know of. *)
RealInv ==
  /\ \A s \in Srv : bound[s] \notin BackBuffer
  /\ \A b \in BackBuffer : rstate[b] = "RENDER_TARGET"
  /\ \A r \in Resource : real[r] = IF r \in Presented THEN "PRESENT" ELSE rstate[r]

FlagsInv == CpuInv /\ PsoInv /\ ListInv /\ SectionInv /\ RealInv

(***************************************************************************)
(* What the comment in blit_to_render_target says: the blit disturbs the   *)
(* list, the normal state will be bound again.  So whatever is bound and   *)
(* no longer set on the list is marked for the next draw.                  *)
(***************************************************************************)
WillBeSet(x) == FlagOf(x) \in dirty /\ (x \in Srv => SectionOf[x] \in stale)

BlitRebinds ==
  [][\A src \in Resource \ BackBuffer, dst \in Image : Blit(src, dst) =>
       \A x \in Srv \cup Table : bound'[x] # Null /\ list'[x] = Unset => WillBeSet(x)']_vars

=============================================================================
