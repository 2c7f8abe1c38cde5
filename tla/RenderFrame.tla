----------------------------- MODULE RenderFrame -----------------------------
(***************************************************************************)
(* Renderer::Render on the frames of FrameSync.  What a frame's draws read *)
(* comes from two caches that hand out the same buffers and images again   *)
(* in the next frame, or is created for the frame and dropped by the node  *)
(* that recorded it.  Neither waits for the GPU: that present has waited   *)
(* is all that keeps a frame's constants from being overwritten and its    *)
(* temporaries from being destroyed while the GPU reads them.              *)
(***************************************************************************)
EXTENDS FrameSync

CONSTANTS
  Size,       \* sizes asked of ConstantsCache
  Desc,       \* descriptors asked of RenderResources
  MaxMade,    \* bound: buffers of a size, images of a descriptor
  Temp        \* what ToBuffer creates, textures, meshes: not cached

Kind == Size \cup Desc
Cached == Kind \X (1 .. MaxMade)

ASSUME RenderAssumption ==
  /\ MaxMade \in Nat
  /\ Size \cap Desc = {} /\ Temp \cap Cached = {}
  /\ Resource = Temp \cup Cached
  /\ Slot = {"constants", "section"}

VARIABLES
  rendering,  \* inside Render
  made,       \* of each kind, how many the cache holds
  handed,     \* of each kind, how many it has handed out since it was reset
  proxies,    \* the constants of frameData.render_proxies
  set,        \* the slots the nodes have bound in this frame (history)
  content     \* the frame that last wrote a buffer of constants

caches == <<made, handed, proxies, content>>
allVars == <<queue, fence, awaits, event, index, backBuffer, pc, turn, fenceValue,
             frameFence, locks, listLocks, bound, recorded, needResize, held,
             rendering, made, handed, proxies, set, content>>

TypeOK ==
  /\ fence \in Nat /\ awaits \in Nat \cup {None} /\ event \in BOOLEAN
  /\ index \in Frame /\ backBuffer \in [Frame -> {"present", "target"}]
  /\ pc \in {"record", "wait", "begin", "resize", "stop", "stopwait", "down"}
  /\ turn \in 0 .. NumFrames
  /\ fenceValue \in Nat /\ frameFence \in [Frame -> Nat]
  /\ locks \in [Frame -> SUBSET Resource] /\ listLocks \in [Frame -> SUBSET List]
  /\ bound \in [Slot -> Resource \cup {None}] /\ recorded \subseteq Resource
  /\ needResize \in BOOLEAN /\ held \subseteq Resource
  /\ rendering \in BOOLEAN
  /\ made \in [Kind -> 0 .. MaxMade] /\ handed \in [Kind -> 0 .. MaxMade]
  /\ proxies \subseteq Cached /\ set \subseteq Slot /\ content \in [Cached -> Nat]

Init ==
  /\ FrameInit
  /\ rendering = FALSE
  /\ made = [k \in Kind |-> 0] /\ handed = [k \in Kind |-> 0]
  /\ proxies = {} /\ set = {} /\ content = [c \in Cached |-> 0]

-----------------------------------------------------------------------------
(* Render begins: ConstantsCache::Reset, RenderResources::FreeCache. *)
BeginRender ==
  /\ At("record") /\ ~rendering
  /\ rendering' = TRUE
  /\ handed' = [k \in Kind |-> 0]
  /\ UNCHANGED <<vars, made, proxies, set, content>>

(* A cache hands out the next of its kind, and makes it if there is none. *)
HandOut(k) ==
  /\ At("record") /\ rendering
  /\ handed[k] < MaxMade
  /\ handed' = [handed EXCEPT ![k] = @ + 1]
  /\ IF made[k] > handed[k]
       THEN UNCHANGED <<made, held>>
       ELSE /\ made' = [made EXCEPT ![k] = @ + 1]
            /\ held' = held \cup {<<k, made[k] + 1>>}
  /\ UNCHANGED <<device, pc, turn, fences, locks, listLocks, bound, recorded,
                 needResize, rendering, set, content>>

(* ConstantsCache::GetBuffer, for a proxy of CullWorldNode *)
GetBuffer(s) ==
  /\ HandOut(s)
  /\ proxies' = proxies \cup {<<s, handed'[s]>>}

(* RenderResources::Get(ImageDescriptor): its list of free images is that of
   the images beyond handed, first to last, since FreeCache lists them all. *)
GetImage(d) == HandOut(d) /\ UNCHANGED proxies

(* What is at hand in this frame: a temporary, or an image handed out. *)
AtHand(r) == \/ r \in Temp
             \/ r \in Cached /\ r[1] \in Desc /\ r[2] <= handed[r[1]]

(* A node writes the constants of a proxy and binds them for the draw. *)
BindConstants(c) ==
  /\ rendering /\ c \in proxies
  /\ content' = [content EXCEPT ![c] = fenceValue]
  /\ set' = set \cup {"constants"}
  /\ Bind(c, "constants")
  /\ UNCHANGED <<rendering, made, handed, proxies>>

BindSection(r) ==
  /\ rendering /\ AtHand(r)
  /\ set' = set \cup {"section"}
  /\ Bind(r, "section")
  /\ UNCHANGED <<rendering, caches>>

(* The other calls.  Shaders read what was bound in this frame. *)
Call ==
  /\ rendering
  /\ \/ \E slots \in SUBSET set : Draw(slots)
     \/ \E src, dest \in Resource : AtHand(src) /\ AtHand(dest) /\ Blit(src, dest)
     \/ \E c \in Cached : AtHand(c) /\ Clear(c)
     \/ \E l \in List : SubmitList(l)
  /\ UNCHANGED <<rendering, set, caches>>

(* ToBuffer creates; the node returns, or its caller forgets the old one. *)
ToBuffer ==
  /\ rendering
  /\ \E x \in Temp : Create(x) \/ Drop(x)
  /\ UNCHANGED <<rendering, set, caches>>

(* Render ends with present; the frame's data is gone. *)
EndRender ==
  /\ rendering /\ rendering' = FALSE
  /\ proxies' = {} /\ set' = {}
  /\ Present
  /\ UNCHANGED <<made, handed, content>>

OnItsOwn(step) == step /\ UNCHANGED <<rendering, set, caches>>

Next ==
  \/ BeginRender
  \/ \E s \in Size : GetBuffer(s)
  \/ \E d \in Desc : GetImage(d)
  \/ \E c \in Cached : BindConstants(c)
  \/ \E r \in Resource : BindSection(r)
  \/ Call
  \/ ToBuffer
  \/ EndRender
  \/ (WindowResized \/ Shutdown) /\ ~rendering /\ UNCHANGED <<rendering, set, caches>>
  \/ OnItsOwn(Between) \/ OnItsOwn(Device)

Spec == Init /\ [][Next]_allVars
FairSpec == Spec /\ WF_allVars(OnItsOwn(Between)) /\ WF_allVars(OnItsOwn(Device))

-----------------------------------------------------------------------------
(* Properties. *)

(* The wait in present is for the frame itself: when begin_new_frame releases
   locks and resets allocators, when ResizeBuffers needs the back buffers
   back, and after shutdown, the GPU has no list left to execute.  A rebuild
   moves the fence back and leaves signals of old values behind it. *)
NothingExecuting ==
  (At("begin") \/ At("resize") \/ pc = "down") => Executing = {}

(* What the open list or a submitted one uses is not released: the locks that
   bind, blit and submit_graphics_list push outlive the caller's pointer and
   a later bind in the same slot, until the GPU is done with the frame. *)
UsedIsAlive ==
  pc # "down" => \A x \in recorded \cup Queued : Alive(x)

(* A barrier finds the back buffer in the state it names, although the index
   moves in present and starts again at 0 when the swap chain is rebuilt. *)
BarriersMatch ==
  queue # <<>> /\ Head(queue).op = "exec" =>
    \A b \in Head(queue).barriers : backBuffer[b.buffer] = b.before

(* Constants are never written while a submitted list reads them. *)
WritesWhenIdle ==
  [][\A c \in Cached : content'[c] # content[c] => c \notin Queued]_allVars

(* present, a rebuild and shutdown come back: every value they wait for is
   signalled, also after the fence has moved back. *)
EveryWaitEnds == (pc # "record") ~> (pc \in {"record", "down"})
=============================================================================
