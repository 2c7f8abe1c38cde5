----------------------------- MODULE RenderNodes -----------------------------
(***************************************************************************)
(* Renderer::Render: the nodes of a frame, one after the other, drive one  *)
(* pipeline state (PipelineState).  Nobody unbinds anything: what a node   *)
(* leaves bound, set or dirty is there for the next node and for the next  *)
(* frame, and each node sets only what it thinks is different.             *)
(*                                                                         *)
(* A node is the sequence of its calls (calls), executed one by one.  The  *)
(* loops over lights and over proxies add the calls of an iteration; what  *)
(* an iteration does depends on which assets the registry has by then.     *)
(***************************************************************************)
EXTENDS Naturals, Sequences

CONSTANTS
  NumLights, NumProxies,
  Maps,        \* the optional textures of a proxy's material
  MaxFrame,    \* bound: frames rendered
  On, Off, CullNone, CullBack, Solid, Triangle,
  ShadowMeshShader, ShadowAmpShader, ShadowPixel, MeshShader, PixelShader,
  PBRPixel, BlitVertShader, BlitPixelShader,
  Null, Unset, Foreign,
  Wild         \* what memory nobody wrote may hold beside 0

Light == 1 .. NumLights
Proxy == 1 .. NumProxies
Map == {"normal", "metalness", "roughness", "alpha"}

(* Resources.  Dynamic buffers are made for a frame; a light is handed the same
   shadow map in each frame, the caches being refilled in order. *)
DrawBuffer == <<"mainDrawBuffer">>
DepthBuffer == <<"mainDepthBuffer">>
ShadowMap(l) == <<"shadow map", l>>
SceneConstants(f) == <<"sceneConstants", f>>
Lights(f) == <<"lights", f>>
Cascades(f, l) == <<"cascades", f, l>>
OfProxy(k, p) == <<k, p>>

MapExtent == <<"map extent">>
WindowExtent == <<"window extent">>
TriangleList == <<"TriangleList">>

(* The registers of GlobalBindings.hlsli, in sections of eight. *)
ShadowSlot(l) == IF l = 1 THEN "t32" ELSE "t33"
Srv == {"t0", "t1", "t2", "t3", "t4", "t10", "t11", "t12", "t13", "t14", "t32", "t33"}
SectionOf == [s \in Srv |-> CASE s \in {"t32", "t33"} -> 4
                              [] s \in {"t10", "t11", "t12", "t13", "t14"} -> 1
                              [] OTHER -> 0]
Section == 0 .. 7
Shader == {"VertexShader", "PixelShader", "MeshShader", "AmpShader"}
Setting == {"DepthTest", "Topology", "CullMode", "FillMode"}
Table == {"ConstantBuffers"}
Input == {"InputPrimitive", "DrawExtent"}
FirstBackBuffer == <<"back", 0>>
BackBuffer == {FirstBackBuffer, <<"back", 1>>}
Image == {DrawBuffer} \cup BackBuffer
DepthImage == {DepthBuffer} \cup {ShadowMap(l) : l \in Light}
Option == {On, Off, CullNone, CullBack, Solid, Triangle, ShadowMeshShader, ShadowAmpShader,
           ShadowPixel, MeshShader, PixelShader, PBRPixel, BlitVertShader, BlitPixelShader}
Item ==
  {MapExtent, WindowExtent, TriangleList}
    \cup {SceneConstants(f) : f \in 1 .. MaxFrame} \cup {Lights(f) : f \in 1 .. MaxFrame}
    \cup {Cascades(f, l) : f \in 1 .. MaxFrame, l \in Light}
    \cup {OfProxy(k, p) : k \in Map \cup {"albedo", "meshlets", "vertices", "constants"}, p \in Proxy}
Enabled == On
Memory == {Null, Wild}

VARIABLES
  dirty, need, stale, desc, numRt, bound, cpu, pso, root, list, rstate, real, back,
  node,        \* the node that executes
  calls,       \* its calls to come
  frame,       \* the frame, from 1
  light,       \* the light the shadow pass is at
  proxy,       \* the proxy the pass is at
  mode,        \* the renderer's check boxes: wireframe, forced normal shading
  ready,       \* the assets the registry has loaded
  has          \* the optional textures the forward pass found for the proxy

P == INSTANCE PipelineState

pipelineVars == <<dirty, need, stale, desc, numRt, bound, cpu, pso, root, list, rstate, real, back>>
frameVars == <<node, frame, light, proxy, mode, ready, has>>
vars == <<pipelineVars, calls, frameVars>>

Asset(p) == {OfProxy(k, p) : k \in {"mesh", "albedo"} \cup Maps[p]}

(* FreeCache refills the free list in order, so that Light's map is a function;
   one section holds the shadow maps of at most two lights here. *)
ASSUME NodesAssumption ==
  /\ P!PipelineAssumption
  /\ NumLights \in 1 .. 2 /\ NumProxies \in Nat /\ MaxFrame \in Nat \ {0}
  /\ Maps \in [Proxy -> SUBSET Map]

-----------------------------------------------------------------------------
(***************************************************************************)
(* The calls.                                                              *)
(***************************************************************************)
Set(f, v) == [op |-> "set", on |-> f, to |-> v]
Bind(x, v) == [op |-> "bind", on |-> x, to |-> v]
SetNumRt(n) == [op |-> "set_num_render_targets", on |-> n, to |-> Null]
Clear(r) == [op |-> "clear", on |-> r, to |-> Null]
Draw == [op |-> "draw", on |-> Null, to |-> Null]

(* Executes a call on the pipeline state; a shader that is set already is left
   alone. *)
Do(c) ==
  \/ /\ c.op = "set" /\ c.on \in Shader
     /\ IF desc[c.on] = c.to THEN UNCHANGED pipelineVars ELSE P!SetShader(c.on, c.to)
  \/ c.op = "set" /\ c.on \in Setting /\ P!Set(c.on, c.to)
  \/ c.op = "bind" /\ c.on \in Srv /\ P!BindResource(c.on, c.to)
  \/ c.op = "bind" /\ c.on = "DepthBuffers" /\ P!BindDepthTarget(c.to)
  \/ c.op = "bind" /\ c.on \notin Srv \cup {"DepthBuffers"} /\ P!Bind(c.on, c.to)
  \/ c.op = "set_num_render_targets" /\ P!SetNumRt(c.on)
  \/ c.op = "clear" /\ P!Clear(c.on)
  \/ c.op = "draw" /\ P!Draw

ShadowSetup ==
  << Set("MeshShader", ShadowMeshShader), Set("PixelShader", ShadowPixel),
     Set("AmpShader", ShadowAmpShader), Bind("InputPrimitive", TriangleList),
     Set("Topology", Triangle), Bind("DrawExtent", MapExtent), Set("FillMode", Solid),
     Set("CullMode", CullNone), Set("DepthTest", On),
     Bind("RenderTargets", Null), SetNumRt(0) >>

ShadowLight(l) ==
  << Bind("t4", Cascades(frame, l)), Bind("DepthBuffers", ShadowMap(l)), Clear(ShadowMap(l)) >>

BindProxy(p) ==
  << Bind("t10", OfProxy("albedo", p)), Bind("t0", OfProxy("meshlets", p)),
     Bind("t1", OfProxy("vertices", p)), Bind("ConstantBuffers", OfProxy("constants", p)), Draw >>

BindShadowMaps == [l \in Light |-> Bind(ShadowSlot(l), ShadowMap(l))]

(* BindSharedResourcesNode, BindShadowMapsNode, ClearDepthNode, ClearTargetNode. *)
Shared ==
  << Bind("t2", SceneConstants(frame)), Bind("t3", Lights(frame)) >>
    \o BindShadowMaps \o << Clear(DepthBuffer), Clear(DrawBuffer) >>

ForwardSetup ==
  << Set("AmpShader", Null), Set("MeshShader", MeshShader), Set("PixelShader", PixelShader),
     Bind("InputPrimitive", TriangleList), Set("Topology", Triangle),
     Bind("DrawExtent", WindowExtent), Set("FillMode", Solid), Set("CullMode", CullBack),
     Set("DepthTest", On), Bind("RenderTargets", DrawBuffer), SetNumRt(1),
     Bind("DepthBuffers", DepthBuffer) >>

IsPbr(found) == {"metalness", "roughness"} \subseteq found /\ mode # "forced"

(* A defect: two registers are taken for each other. *)
TextureSlotSwapped(k) ==
  CASE k = "normal" -> "t11" [] k = "metalness" -> "t13" [] k = "roughness" -> "t12" [] k = "alpha" -> "t14"

TextureSlot(k) ==
  CASE k = "normal" -> "t11" [] k = "metalness" -> "t12" [] k = "roughness" -> "t13" [] k = "alpha" -> "t14"

ForwardProxy(p, found) ==
  LET WasFound(k) == k \in found
      maps == SelectSeq(<<"normal", "metalness", "roughness", "alpha">>, WasFound)
  IN [i \in 1 .. Len(maps) |-> Bind(TextureSlot(maps[i]), OfProxy(maps[i], p))]
       \o << Set("PixelShader", IF IsPbr(found) THEN PBRPixel ELSE PixelShader) >>
       \o BindProxy(p)

(* A defect: the number of targets is set before the target is bound. *)
BlitCounted ==
  << Set("PixelShader", BlitPixelShader), Set("VertexShader", BlitVertShader),
     Set("MeshShader", Null), Set("DepthTest", Off), Set("CullMode", CullNone),
     SetNumRt(1), Bind("RenderTargets", back), Bind("t0", DrawBuffer), Draw >>

Blit ==
  << Set("PixelShader", BlitPixelShader), Set("VertexShader", BlitVertShader),
     Set("MeshShader", Null), Set("DepthTest", Off), Set("CullMode", CullNone),
     Bind("RenderTargets", back), SetNumRt(1), Bind("t0", DrawBuffer), Draw >>

-----------------------------------------------------------------------------
(* The memory of the pipeline state is all 0 or all something else. *)
Init ==
  /\ \E w \in Memory : P!InitWith(WindowExtent, TriangleList, Off, [x \in P!Slot |-> w], FirstBackBuffer)
  /\ node = "start" /\ calls = <<>>
  /\ frame = 0 /\ light = 0 /\ proxy = 0
  /\ mode = "normal"
  /\ ready = {} /\ has = {}

Call ==
  /\ calls # <<>>
  /\ Do(Head(calls))
  /\ calls' = Tail(calls)
  /\ UNCHANGED frameVars

(* The node's calls are done: the next iteration or node queues its own. *)
Queue(cs) ==
  /\ calls = <<>>
  /\ calls' = cs
  /\ UNCHANGED pipelineVars

(* Some load jobs have finished when the pass asks for the assets of p. *)
LooksAt(p) == \E loaded \in SUBSET (Asset(p) \ ready) : ready' = ready \cup loaded
Loaded(p) == {OfProxy("mesh", p), OfProxy("albedo", p)} \subseteq ready'

(* The check boxes are drawn in each frame; CullWorld and PrepareRender make the
   frame's proxies and constants and bind nothing. *)
BeginRender ==
  /\ node = "start" /\ frame < MaxFrame
  /\ Queue(ShadowSetup)
  /\ node' = "shadows" /\ frame' = frame + 1
  /\ mode' \in {"normal", "forced", "wireframe"}
  /\ light' = 0 /\ proxy' = NumProxies
  /\ UNCHANGED <<ready, has>>

NextLight ==
  /\ node = "shadows" /\ proxy = NumProxies /\ light < NumLights
  /\ Queue(ShadowLight(light + 1))
  /\ light' = light + 1 /\ proxy' = 0
  /\ UNCHANGED <<node, frame, mode, ready, has>>

(* Only a material with both maps of a physical one casts a shadow. *)
DrawShadow ==
  /\ node = "shadows" /\ proxy < NumProxies
  /\ LooksAt(proxy + 1)
  /\ Queue(IF Loaded(proxy + 1) /\ {"roughness", "metalness"} \subseteq Maps[proxy + 1]
           THEN BindProxy(proxy + 1) ELSE <<>>)
  /\ proxy' = proxy + 1
  /\ UNCHANGED <<node, frame, light, mode, has>>

ShareResources ==
  /\ node = "shadows" /\ proxy = NumProxies /\ light = NumLights
  /\ Queue(Shared)
  /\ node' = "shared"
  /\ UNCHANGED <<frame, light, proxy, mode, ready, has>>

(* The wireframe node returns at once. *)
Forward ==
  /\ node = "shared"
  /\ Queue(IF mode = "wireframe" THEN <<>> ELSE ForwardSetup)
  /\ node' = "forward"
  /\ proxy' = IF mode = "wireframe" THEN NumProxies ELSE 0
  /\ UNCHANGED <<frame, light, mode, ready, has>>

DrawForward ==
  LET p == proxy + 1
      found == {k \in Maps[p] : OfProxy(k, p) \in ready'}
  IN /\ node = "forward" /\ proxy < NumProxies
     /\ LooksAt(p)
     /\ Queue(IF Loaded(p) THEN ForwardProxy(p, found) ELSE <<>>)
     /\ has' = found
     /\ proxy' = p
     /\ UNCHANGED <<node, frame, light, mode>>

BlitToBackBuffer ==
  /\ node = "forward" /\ proxy = NumProxies
  /\ Queue(Blit)
  /\ node' = "blit"
  /\ UNCHANGED <<frame, light, proxy, mode, ready, has>>

(* The swap chain goes on to its other back buffer. *)
Present ==
  /\ node = "blit" /\ calls = <<>>
  /\ \E next \in BackBuffer \ {back} : P!Present(next)
  /\ node' = "start" /\ light' = 0 /\ proxy' = 0 /\ has' = {}
  /\ UNCHANGED <<calls, frame, mode, ready>>

(* The bound is reached.  Anywhere else a frame that cannot go on is an error:
   a draw waits for nothing but needs targets to build a pipeline object for. *)
Stop == node = "start" /\ frame = MaxFrame /\ UNCHANGED vars

Next ==
  \/ Call \/ BeginRender \/ NextLight \/ DrawShadow \/ ShareResources
  \/ Forward \/ DrawForward \/ BlitToBackBuffer \/ Present \/ Stop

Spec == Init /\ [][Next]_vars

-----------------------------------------------------------------------------
Drawing == calls # <<>> /\ Head(calls) = Draw

(* What the shaders of a pipeline object read, with the textures that the draw
   constants say are there. *)
Lit(found) ==
  {"t2", "t3", "t10"} \cup {ShadowSlot(l) : l \in Light} \cup (IF "normal" \in found THEN {"t11"} ELSE {})
ReadBy(shader, found) ==
  CASE shader = ShadowMeshShader -> {"ConstantBuffers", "t0", "t1", "t4"}
    [] shader = MeshShader -> {"ConstantBuffers", "t0", "t1", "t2"}
    [] shader = ShadowPixel -> {"t10"}
    [] shader = PixelShader -> Lit(found) \cup (IF "alpha" \in found THEN {"t14"} ELSE {})
    [] shader = PBRPixel -> Lit(found) \cup {"t12", "t13"}
    [] shader = BlitPixelShader -> {"t0"}
    [] OTHER -> {}
Reads(object, found) ==
  ReadBy(object["PixelShader"], found) \cup
  ReadBy(IF object["MeshShader"] = Null THEN object["VertexShader"] ELSE object["MeshShader"], found)

(* What the draw that the node is at has to read there. *)
Own(x) ==
  CASE x = "t0" /\ node = "blit" -> DrawBuffer
    [] x = "t0" /\ node # "blit" -> OfProxy("meshlets", proxy)
    [] x = "t1" -> OfProxy("vertices", proxy)
    [] x = "t2" -> SceneConstants(frame)
    [] x = "t3" -> Lights(frame)
    [] x = "t4" -> Cascades(frame, light)
    [] x = "t10" -> OfProxy("albedo", proxy)
    [] x = "t11" -> OfProxy("normal", proxy)
    [] x = "t12" -> OfProxy("metalness", proxy)
    [] x = "t13" -> OfProxy("roughness", proxy)
    [] x = "t14" -> OfProxy("alpha", proxy)
    [] x = "t32" -> ShadowMap(1)
    [] x = "t33" -> ShadowMap(2)
    [] x = "ConstantBuffers" -> OfProxy("constants", proxy)

(***************************************************************************)
(* Renderer::Render: whatever earlier draws, passes and frames left bound, *)
(* each slot that a draw's shaders read holds what this draw's proxy,      *)
(* light and frame have put there.                                         *)
(***************************************************************************)
DrawReadsItsOwn ==
  [][Drawing => \A x \in Reads(pso', has) : list'[x] = Own(x)]_vars

(***************************************************************************)
(* bind_shader_resources transitions what a section samples only when the  *)
(* section is marked: the draw buffer and the shadow maps, which earlier   *)
(* passes write and the clears touch, are readable whenever a draw reads   *)
(* them.                                                                   *)
(***************************************************************************)
SampledReadable ==
  [][Drawing => \A x \in Reads(pso', has) :
       list'[x] \in Image \cup DepthImage => real'[list'[x]] = "GENERIC_READ"]_vars

(***************************************************************************)
(* The passes: the pipeline object of a draw was built for the targets on  *)
(* the list (set_num_rt captures what was bound before), these are the     *)
(* pass's own, really in a state to be written, and the viewport is        *)
(* theirs.  The back buffer is the current one, which the prologue has     *)
(* brought back, never the one that is still bound after a present.  In    *)
(* wireframe mode nobody sets the extent for the blit.                     *)
(***************************************************************************)
TargetsOf(n) ==
  CASE n = "shadows" -> [colour |-> Null, depth |-> ShadowMap(light), extent |-> MapExtent]
    [] n = "forward" -> [colour |-> DrawBuffer, depth |-> DepthBuffer, extent |-> WindowExtent]
    [] n = "blit" -> [colour |-> back,
                      depth |-> IF mode = "wireframe" THEN ShadowMap(light) ELSE DepthBuffer,
                      extent |-> IF mode = "wireframe" THEN MapExtent ELSE WindowExtent]

TargetsFit ==
  [][Drawing =>
       LET t == TargetsOf(node)
       IN /\ pso'["RenderTargets"] = t.colour /\ pso'["DepthBuffers"] = t.depth
          /\ list'["RenderTargets"] = t.colour /\ list'["DepthBuffers"] = t.depth
          /\ list'["DrawExtent"] = t.extent
          /\ t.colour # Null => real'[t.colour] = "RENDER_TARGET"
          /\ node # "blit" => real'[t.depth] = "DEPTH_WRITE"]_vars
=============================================================================
