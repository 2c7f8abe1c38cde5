------------------------------ MODULE FrameSync ------------------------------
(***************************************************************************)
(* Frames in Void3D/VoidRenderContext_D3D12.cpp.  A frame is recorded on   *)
(* one command list; present hands it to the GPU, signals a fence behind   *)
(* it and waits; begin_new_frame then releases what the frame had locked,  *)
(* resets its allocators and, when the window has a new size, rebuilds the *)
(* swap chain, which signals the same fence with older values.             *)
(*                                                                         *)
(* The GPU takes the commands of its queue one by one.  A value of the     *)
(* swap chain's index, of the fence, and the state of a back buffer belong *)
(* to the device, not to the program.                                      *)
(***************************************************************************)
EXTENDS Naturals, Sequences

CONSTANTS
  NumFrames,   \* _numFrames: back buffers, allocators, lock queues
  Resource,    \* images and buffers, each counted by its shared_ptrs
  List,        \* command lists of allocate_graphics_list, counted likewise
  Slot,        \* where a resource can be bound in the pipeline state
  None,        \* nothing bound, no value awaited
  MaxFence     \* bound: no frame is presented beyond this value of the fence

ASSUME FrameAssumption ==
  /\ NumFrames \in Nat \ {0, 1}
  /\ MaxFence \in Nat
  /\ Resource \cap List = {}
  /\ None \notin Resource \cup Nat

Frame == 0 .. NumFrames - 1

VARIABLES
  (* the device *)
  queue,       \* what _directCommandQueue has still to do, or is doing
  fence,       \* the completed value of _fenceDirect
  awaits,      \* the value that sets _fenceEvent, or None
  event,       \* _fenceEvent is set (auto-reset)
  index,       \* get_current_frame_index(): the swap chain's
  backBuffer,  \* the state each back buffer is really in
  (* the context *)
  pc,          \* where present, begin_new_frame or shutdown is
  turn,        \* i of the loops over the frames
  fenceValue,  \* _fenceValue
  frameFence,  \* _frameFenceValues
  locks,       \* _resourceLocks
  listLocks,   \* _listLocks
  bound,       \* the shared_ptrs of _pipelineState
  recorded,    \* what the open command list uses
  needResize,  \* _needResize
  (* its callers *)
  held         \* what somebody outside the context has a shared_ptr of

device == <<queue, fence, awaits, event, index, backBuffer>>
holders == <<locks, listLocks, bound, recorded, held>>
fences == <<fenceValue, frameFence>>
vars == <<queue, fence, awaits, event, index, backBuffer, pc, turn, fenceValue,
          frameFence, locks, listLocks, bound, recorded, needResize, held>>

(* A list to execute: what it uses, and a barrier on a back buffer or none. *)
Exec(uses, barriers) == [op |-> "exec", uses |-> uses, barriers |-> barriers]
Signal(v) == [op |-> "signal", value |-> v]
Barrier(b, before, after) == [buffer |-> b, before |-> before, after |-> after]

Executing == {i \in DOMAIN queue : queue[i].op = "exec"}
Queued == UNION {queue[i].uses : i \in Executing}

(* The last shared_ptr keeps it; ~D3D12_VoidResource then releases it. *)
Alive(x) ==
  \/ x \in held
  \/ \E f \in Frame : x \in locks[f] \cup listLocks[f]
  \/ \E s \in Slot : x = bound[s]

(* The thread is in WaitForSingleObject. *)
Blocked == awaits # None \/ event
At(l) == pc = l /\ ~Blocked

FrameInit ==
  /\ fence = 0 /\ awaits = None /\ event = FALSE /\ index = 0
  /\ backBuffer = [f \in Frame |-> "present"]
  /\ queue = << Exec({}, {Barrier(0, "present", "target")}) >>
  /\ pc = "record" /\ turn = 0
  /\ fenceValue = 0 /\ frameFence = [f \in Frame |-> 0]
  /\ locks = [f \in Frame |-> {}] /\ listLocks = [f \in Frame |-> {}]
  /\ bound = [s \in Slot |-> None] /\ recorded = {}
  /\ needResize = FALSE
  /\ held = {}

-----------------------------------------------------------------------------
(* The device. *)

Execute ==
  /\ queue # <<>> /\ Head(queue).op = "exec"
  /\ queue' = Tail(queue)
  /\ backBuffer' = [f \in Frame |->
       IF \E b \in Head(queue).barriers : b.buffer = f
         THEN (CHOOSE b \in Head(queue).barriers : b.buffer = f).after
         ELSE backBuffer[f]]
  /\ UNCHANGED <<fence, awaits, event, index, pc, turn, fences, holders, needResize>>

(* A fence takes any value it is given, a smaller one too. *)
SetFence ==
  /\ queue # <<>> /\ Head(queue).op = "signal"
  /\ queue' = Tail(queue)
  /\ fence' = Head(queue).value
  /\ IF awaits # None /\ Head(queue).value >= awaits
       THEN awaits' = None /\ event' = TRUE
       ELSE UNCHANGED <<awaits, event>>
  /\ UNCHANGED <<index, backBuffer, pc, turn, fences, holders, needResize>>

Device == Execute \/ SetFence

(* SetEventOnCompletion: at once for a value that was reached. *)
SetEventOnCompletion(v) ==
  IF fence >= v THEN event' = TRUE /\ UNCHANGED awaits
                ELSE awaits' = v /\ UNCHANGED event

Woken ==
  /\ event /\ event' = FALSE
  /\ UNCHANGED <<queue, fence, awaits, index, backBuffer, pc, turn, fences,
                 holders, needResize>>

-----------------------------------------------------------------------------
(* Recording a frame. *)

(* A defect: the caller's pointer and the slot alone keep the resource. *)
BindUnlocked(r, s) ==
  /\ At("record") /\ r \in held
  /\ bound' = [bound EXCEPT ![s] = r]
  /\ UNCHANGED <<device, pc, turn, fences, locks, listLocks, recorded, needResize, held>>

(* bind_resource, bind_constant, bind_render_target, ... *)
Bind(r, s) ==
  /\ At("record") /\ r \in held
  /\ locks' = [locks EXCEPT ![index] = @ \cup {r}]
  /\ bound' = [bound EXCEPT ![s] = r]
  /\ UNCHANGED <<device, pc, turn, fences, listLocks, recorded, needResize, held>>

(* draw_indexed, draw_instanced, dispatch_mesh: the shaders read some slots. *)
Draw(slots) ==
  /\ At("record")
  /\ recorded' = recorded \cup ({bound[s] : s \in slots} \ {None})
  /\ UNCHANGED <<device, pc, turn, fences, locks, listLocks, bound, needResize, held>>

(* blit_to_render_target *)
Blit(src, dest) ==
  /\ At("record") /\ {src, dest} \subseteq held
  /\ locks' = [locks EXCEPT ![index] = @ \cup {src, dest}]
  /\ recorded' = recorded \cup {src, dest}
  /\ UNCHANGED <<device, pc, turn, fences, listLocks, bound, needResize, held>>

(* clear_depth, clear_image: the image is not locked. *)
Clear(r) ==
  /\ At("record") /\ r \in held
  /\ recorded' = recorded \cup {r}
  /\ UNCHANGED <<device, pc, turn, fences, locks, listLocks, bound, needResize, held>>

(* A list of allocate_graphics_list, submitted ahead of the frame's own list;
   only the lock of submit_graphics_list(shared_ptr) is left to keep it. *)
SubmitList(l) ==
  /\ At("record") /\ ~Alive(l)
  /\ listLocks' = [listLocks EXCEPT ![index] = @ \cup {l}]
  /\ queue' = Append(queue, Exec({l}, {}))
  /\ UNCHANGED <<fence, awaits, event, index, backBuffer, pc, turn, fences, locks,
                 bound, recorded, needResize, held>>

(* window_resized *)
WindowResized ==
  /\ At("record") /\ ~needResize
  /\ needResize' = TRUE
  /\ UNCHANGED <<device, pc, turn, fences, holders>>

(* A caller creates a resource, or lets go of one. *)
Create(x) ==
  /\ At("record") /\ ~Alive(x)
  /\ held' = held \cup {x}
  /\ UNCHANGED <<device, pc, turn, fences, locks, listLocks, bound, recorded, needResize>>

Drop(x) ==
  /\ At("record") /\ x \in held
  /\ held' = held \ {x}
  /\ UNCHANGED <<device, pc, turn, fences, locks, listLocks, bound, recorded, needResize>>

-----------------------------------------------------------------------------
(* From one frame to the next. *)

(* signal_fence for a frame *)
SignalFence(f, before) ==
  /\ fenceValue' = fenceValue + 1
  /\ frameFence' = [frameFence EXCEPT ![f] = fenceValue + 1]
  /\ queue' = queue \o before \o << Signal(fenceValue + 1) >>

(* A defect: it takes the value before for good enough. *)
WaitForValueBefore(v, l) ==
  /\ pc' = l
  /\ IF fence + 1 < v THEN SetEventOnCompletion(v) ELSE UNCHANGED <<awaits, event>>

(* wait_for_fence_value, then on to l *)
WaitForFenceValue(v, l) ==
  /\ pc' = l
  /\ IF fence < v THEN SetEventOnCompletion(v) ELSE UNCHANGED <<awaits, event>>

(* A defect: it takes the index before Present for the one after. *)
PresentOldIndex ==
  /\ At("record") /\ fenceValue < MaxFence
  /\ index' = (index + 1) % NumFrames
  /\ SignalFence(index, << Exec(recorded, {Barrier(index, "target", "present")}) >>)
  /\ recorded' = {}
  /\ pc' = "wait"
  /\ UNCHANGED <<fence, awaits, event, backBuffer, turn, locks, listLocks, bound,
                 needResize, held>>

(* A defect: it counts frames, not back buffers. *)
PresentCounts ==
  /\ At("record") /\ fenceValue < MaxFence
  /\ index' = index + 1
  /\ SignalFence(index', << Exec(recorded, {Barrier(index, "target", "present")}) >>)
  /\ recorded' = {}
  /\ pc' = "wait"
  /\ UNCHANGED <<fence, awaits, event, backBuffer, turn, locks, listLocks, bound,
                 needResize, held>>

(* present, up to the wait: the barrier is on the buffer the frame began with,
   the fence value is kept for the buffer that comes next. *)
Present ==
  /\ At("record") /\ fenceValue < MaxFence
  /\ index' = (index + 1) % NumFrames
  /\ SignalFence(index', << Exec(recorded, {Barrier(index, "target", "present")}) >>)
  /\ recorded' = {}
  /\ pc' = "wait"
  /\ UNCHANGED <<fence, awaits, event, backBuffer, turn, locks, listLocks, bound,
                 needResize, held>>

Wait ==
  /\ At("wait")
  /\ WaitForFenceValue(frameFence[index], "begin")
  /\ UNCHANGED <<queue, fence, index, backBuffer, turn, fences, holders, needResize>>

(* The prologue list makes the back buffer of the new frame a render target. *)
Prologue(f) == Append(queue, Exec({}, {Barrier(f, "present", "target")}))

(* begin_new_frame: releases, resets, and the prologue unless it must rebuild. *)
BeginNewFrame ==
  /\ At("begin")
  /\ locks' = [locks EXCEPT ![index] = {}]
  /\ listLocks' = [listLocks EXCEPT ![index] = {}]
  /\ IF needResize
       THEN pc' = "resize" /\ turn' = 0 /\ UNCHANGED queue
       ELSE pc' = "record" /\ queue' = Prologue(index) /\ UNCHANGED turn
  /\ UNCHANGED <<fence, awaits, event, index, backBuffer, fences, bound, recorded,
                 needResize, held>>

(* A defect: it counts on before it waits. *)
SignalOldAwaitNext ==
  /\ At("resize") /\ turn < NumFrames
  /\ queue' = Append(queue, Signal(frameFence[turn]))
  /\ SetEventOnCompletion(frameFence[turn] + 1)
  /\ frameFence' = [frameFence EXCEPT ![turn] = @ + 1]
  /\ turn' = turn + 1
  /\ UNCHANGED <<fence, index, backBuffer, pc, fenceValue, holders, needResize>>

(* build_swapchain: signals and awaits each frame's old value. *)
SignalOld ==
  /\ At("resize") /\ turn < NumFrames
  /\ queue' = Append(queue, Signal(frameFence[turn]))
  /\ SetEventOnCompletion(frameFence[turn])
  /\ frameFence' = [frameFence EXCEPT ![turn] = @ + 1]
  /\ turn' = turn + 1
  /\ UNCHANGED <<fence, index, backBuffer, pc, fenceValue, holders, needResize>>

(* A defect: the prologue is for the buffer that was current before. *)
ResizeKeepsBuffer ==
  /\ At("resize") /\ turn = NumFrames
  /\ index' = 0
  /\ backBuffer' = [f \in Frame |-> "present"]
  /\ locks' = [f \in Frame |-> {}]
  /\ needResize' = FALSE
  /\ queue' = Prologue(index)
  /\ pc' = "record"
  /\ UNCHANGED <<fence, awaits, event, turn, fences, listLocks, bound, recorded, held>>

(* build_swapchain: ResizeBuffers starts again at the first buffer.  Then the
   rest of begin_new_frame. *)
ResizeBuffers ==
  /\ At("resize") /\ turn = NumFrames
  /\ index' = 0
  /\ backBuffer' = [f \in Frame |-> "present"]
  /\ locks' = [f \in Frame |-> {}]
  /\ needResize' = FALSE
  /\ queue' = Prologue(index')
  /\ pc' = "record"
  /\ UNCHANGED <<fence, awaits, event, turn, fences, listLocks, bound, recorded, held>>

-----------------------------------------------------------------------------
(* shutdown: the engine has deleted the registry and the renderer before. *)

Shutdown ==
  /\ At("record")
  /\ pc' = "stop" /\ turn' = 0 /\ held' = {}
  /\ UNCHANGED <<device, fences, locks, listLocks, bound, recorded, needResize>>

StopSignal ==
  /\ At("stop") /\ turn < NumFrames
  /\ SignalFence(turn, <<>>)
  /\ pc' = "stopwait"
  /\ UNCHANGED <<fence, awaits, event, index, backBuffer, turn, holders, needResize>>

StopWait ==
  /\ At("stopwait")
  /\ WaitForFenceValue(frameFence[turn], "stop")
  /\ turn' = turn + 1
  /\ UNCHANGED <<queue, fence, index, backBuffer, fences, holders, needResize>>

ReleaseAll ==
  /\ At("stop") /\ turn = NumFrames
  /\ locks' = [f \in Frame |-> {}] /\ listLocks' = [f \in Frame |-> {}]
  /\ bound' = [s \in Slot |-> None]
  /\ pc' = "down"
  /\ UNCHANGED <<device, turn, fences, recorded, needResize, held>>

-----------------------------------------------------------------------------
(* What the context does without being called. *)
Between ==
  \/ Woken \/ Wait \/ BeginNewFrame \/ SignalOld \/ ResizeBuffers
  \/ StopSignal \/ StopWait \/ ReleaseAll
=============================================================================
