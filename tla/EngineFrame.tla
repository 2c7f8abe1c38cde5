----------------------------- MODULE EngineFrame -----------------------------
(***************************************************************************)
(* VoidStarEngine::Run and Shutdown: the main thread's loop over frames,   *)
(* composed with the builders of JobBuilder.  In a frame it polls input,   *)
(* dispatches one update job per object (UpdateObjectsJob), chains the     *)
(* render job behind their counter, waits for it, and then writes the      *)
(* camera itself.  The render job asks the ResourceRegistry for assets,    *)
(* whose load jobs nobody waits for: they may run over the next frames and *)
(* into the shutdown.                                                      *)
(***************************************************************************)
EXTENDS Integers, FiniteSets

CONSTANTS
  Object,      \* the objects of the world that get an update job
  Asset,       \* the meshes and textures the render job may ask for
  MaxFrames,   \* bound: no frame is started after this many
  NoCounter

Frame == 1 .. MaxFrames
UpdateJob(f) == {<<"update", f, o>> : o \in Object}
RenderJob(f) == <<"render", f>>
LoadJob(m) == <<"load", m>>

Job == (UNION {UpdateJob(f) : f \in Frame}) \cup {RenderJob(f) : f \in Frame}
         \cup {LoadJob(m) : m \in Asset}
FrameBuilder(f) == <<"frame", f>>
UpdateBuilder(f) == <<"update", f>>
Builder == {FrameBuilder(f) : f \in Frame} \cup {UpdateBuilder(f) : f \in Frame}
             \cup {LoadJob(m) : m \in Asset}

\* A frame makes four counters in its builder and three in the update builder, a load three.
MaxCounter == 7 * MaxFrames + 3 * Cardinality(Asset)
Counter == 1 .. MaxCounter

ASSUME EngineAssumption ==
  /\ MaxFrames \in Nat /\ IsFiniteSet(Object) /\ IsFiniteSet(Asset)
  /\ NoCounter \notin Counter

VARIABLES
  status, dep, acc, counter, accumulator, zero, phase, made, stands,   \* of JobBuilder
  pc,        \* where the main thread is
  frame,     \* how many frames have been started
  todo,      \* the objects UpdateObject has not reached yet
  buttons,   \* InputSystem::_inputState, the two buttons the loop tests
  alive      \* the parts of the engine that have not been deleted

jobVars == <<status, dep, acc, counter, accumulator, zero, phase, made, stands>>
vars == <<jobVars, pc, frame, todo, buttons, alive>>

JB == INSTANCE JobBuilder

PC == {"test", "events", "update", "extract", "chain", "render", "wait", "spin", "stats",
       "delete pool", "delete registry", "delete input", "delete renderer", "delete context",
       "gone"}
Part == {"pool", "registry", "input", "renderer", "context"}

TypeOK ==
  /\ JB!TypeOK
  /\ pc \in PC
  /\ frame \in 0 .. MaxFrames
  /\ todo \subseteq Object
  /\ buttons \in [{"Quit", "Escape"} -> {"Up", "Down"}]
  /\ alive \subseteq Part

(* Init has run: the world is loaded, every part exists. *)
Init ==
  /\ JB!Init
  /\ pc = "test"
  /\ frame = 0
  /\ todo = {}
  /\ buttons = [b \in {"Quit", "Escape"} |-> "Up"]
  /\ alive = Part

-----------------------------------------------------------------------------
Goto(to) == pc' = to

(* while (Is(Quit, Up) && Is(Escape, Up)) { auto builder = JobBuilder(); *)
BeginFrame ==
  /\ pc = "test"
  /\ buttons["Quit"] = "Up" /\ buttons["Escape"] = "Up"
  /\ frame < MaxFrames
  /\ frame' = frame + 1
  /\ JB!New(FrameBuilder(frame + 1))
  /\ Goto("events")
  /\ UNCHANGED <<todo, buttons, alive>>

(* A defect: the loop goes on while either button is up, and hangs without a frame. *)
LeaveLoopOnBoth ==
  /\ pc = "test"
  /\ buttons["Quit"] = "Down" /\ buttons["Escape"] = "Down"
  /\ Goto("delete pool")
  /\ UNCHANGED <<jobVars, frame, todo, buttons, alive>>

LeaveLoop ==
  /\ pc = "test"
  /\ buttons["Quit"] = "Down" \/ buttons["Escape"] = "Down"
  /\ Goto("delete pool")
  /\ UNCHANGED <<jobVars, frame, todo, buttons, alive>>

(* One event of ProcessEvents: SDL_QUIT is never taken back, a key is. *)
PollEvent ==
  /\ pc = "events"
  /\ \/ buttons' = [buttons EXCEPT !["Quit"] = "Down"]
     \/ \E s \in {"Up", "Down"} : buttons' = [buttons EXCEPT !["Escape"] = s]
  /\ UNCHANGED <<jobVars, pc, frame, todo, alive>>

(* SDL_PollEvent returns 0; UpdateObjectsJob::Execute makes its builder. *)
EventsDone ==
  /\ pc = "events"
  /\ JB!New(UpdateBuilder(frame))
  /\ todo' = Object
  /\ Goto("update")
  /\ UNCHANGED <<frame, buttons, alive>>

(* UpdateObject for one object of the tree: DispatchNow. *)
UpdateObject(o) ==
  /\ pc = "update"
  /\ o \in todo
  /\ JB!DispatchNow(UpdateBuilder(frame), <<"update", frame, o>>)
  /\ todo' = todo \ {o}
  /\ UNCHANGED <<pc, frame, buttons, alive>>

(* A defect: the counter that is extracted is not that of the updates. *)
FenceForgotten ==
  /\ pc = "update"
  /\ todo = {}
  /\ Goto("extract")
  /\ UNCHANGED <<jobVars, frame, todo, buttons, alive>>

(* Execute: DispatchWait, which closes the group of updates. *)
FenceUpdates ==
  /\ pc = "update"
  /\ todo = {}
  /\ JB!DispatchWait(UpdateBuilder(frame))
  /\ Goto("extract")
  /\ UNCHANGED <<frame, todo, buttons, alive>>

(* Execute: return builder.ExtractCounter(). *)
ReturnCounter ==
  /\ pc = "extract"
  /\ JB!ExtractCounter(UpdateBuilder(frame))
  /\ Goto("chain")
  /\ UNCHANGED <<frame, todo, buttons, alive>>

(* builder.DispatchWait(that counter). *)
ChainFrame ==
  /\ pc = "chain"
  /\ JB!DispatchWaitOn(FrameBuilder(frame), UpdateBuilder(frame))
  /\ Goto("render")
  /\ UNCHANGED <<frame, todo, buttons, alive>>

(* A defect: the render job is dispatched without a fence after it. *)
DispatchRenderNow ==
  /\ pc = "render"
  /\ JB!DispatchNow(FrameBuilder(frame), RenderJob(frame))
  /\ Goto("wait")
  /\ UNCHANGED <<frame, todo, buttons, alive>>

DispatchRender ==
  /\ pc = "render"
  /\ JB!Dispatch(FrameBuilder(frame), RenderJob(frame))
  /\ Goto("wait")
  /\ UNCHANGED <<frame, todo, buttons, alive>>

WaitAll ==
  /\ pc = "wait"
  /\ JB!WaitAll(FrameBuilder(frame))
  /\ Goto("spin")
  /\ UNCHANGED <<frame, todo, buttons, alive>>

WaitAllReturn ==
  /\ pc = "spin"
  /\ JB!WaitAllReturn(FrameBuilder(frame))
  /\ Goto("stats")
  /\ UNCHANGED <<frame, todo, buttons, alive>>

(* The memory statistics and the camera, read and written by the main thread. *)
EndFrame ==
  /\ pc = "stats"
  /\ Goto("test")
  /\ UNCHANGED <<jobVars, frame, todo, buttons, alive>>

-----------------------------------------------------------------------------
(***************************************************************************)
(* Shutdown deletes the parts in order; ~TaskSystem returns when no job is *)
(* left (TaskSystem's NothingStranded).                                    *)
(***************************************************************************)
Delete(part, from, to) ==
  /\ pc = from
  /\ alive' = alive \ {part}
  /\ Goto(to)
  /\ UNCHANGED <<jobVars, frame, todo, buttons>>

(* A defect: the threads are detached, not joined. *)
DeletePoolDetaching == Delete("pool", "delete pool", "delete registry")

DeletePool == JB!Pending = {} /\ Delete("pool", "delete pool", "delete registry")
DeleteRegistry == Delete("registry", "delete registry", "delete input")
DeleteInput == Delete("input", "delete input", "delete renderer")
DeleteRenderer == Delete("renderer", "delete renderer", "delete context")
DeleteContext == Delete("context", "delete context", "gone")

Main ==
  \/ BeginFrame \/ LeaveLoop \/ EventsDone \/ FenceUpdates \/ ReturnCounter
  \/ ChainFrame \/ DispatchRender \/ WaitAll \/ WaitAllReturn \/ EndFrame
  \/ DeletePool \/ DeleteRegistry \/ DeleteInput \/ DeleteRenderer \/ DeleteContext
  \/ \E o \in Object : UpdateObject(o)

-----------------------------------------------------------------------------
mainVars == <<pc, frame, todo, buttons, alive>>
Rendering == status[RenderJob(frame)] = "running"

(* The running render job asks for an asset nobody has asked for: a builder... *)
RequestLoad(m) ==
  /\ frame > 0 /\ Rendering
  /\ JB!New(LoadJob(m))
  /\ UNCHANGED mainVars

(* ... and the dispatch of the load. *)
DispatchLoad(m) ==
  /\ status[LoadJob(m)] = "idle"
  /\ JB!Dispatch(LoadJob(m), LoadJob(m))
  /\ UNCHANGED mainVars

(* A defect: the workers stop at _done, with jobs still in the queues. *)
StartUntilDone(j) ==
  /\ pc # "delete pool"
  /\ JB!Start(j)
  /\ UNCHANGED <<mainVars, accumulator, zero, phase, made, stands>>

Start(j) ==
  /\ JB!Start(j)
  /\ UNCHANGED <<mainVars, accumulator, zero, phase, made, stands>>

(* A render job returns when the requests it has begun are made. *)
Finish(j) ==
  /\ \A m \in Asset : j \in {RenderJob(f) : f \in Frame} /\ phase[LoadJob(m)] # "none" =>
                        status[LoadJob(m)] # "idle"
  /\ JB!Finish(j)
  /\ UNCHANGED <<mainVars, accumulator, zero, phase, made, stands>>

Next ==
  \/ Main
  \/ PollEvent
  \/ \E m \in Asset : RequestLoad(m) \/ DispatchLoad(m)
  \/ \E j \in Job : Start(j) \/ Finish(j)

Spec == Init /\ [][Next]_vars

(* Every thread is scheduled, the event queue runs dry; nobody has to ask for an asset. *)
FairSpec ==
  /\ Spec
  /\ WF_vars(Main)
  /\ \A m \in Asset : WF_vars(DispatchLoad(m))
  /\ \A j \in Job : WF_vars(Start(j)) /\ WF_vars(Finish(j))

-----------------------------------------------------------------------------
Updates == UNION {UpdateJob(f) : f \in Frame}
Renders == {RenderJob(f) : f \in Frame}
Running(js) == \E j \in js : status[j] = "running"
WorldJobs == Updates \cup Renders

(***************************************************************************)
(* The world, the input state and ImGui have no lock: the update jobs of a *)
(* frame never run beside a render job, and while the main thread polls    *)
(* events or writes the camera no update or render job is left.            *)
(***************************************************************************)
WorldExclusive ==
  /\ ~(Running(Updates) /\ Running(Renders))
  /\ pc \in {"test", "events", "stats"} => WorldJobs \cap JB!Pending = {}

(***************************************************************************)
(* A frame is drawn from a world that all of its objects have updated, and *)
(* after every earlier frame has been drawn.                               *)
(***************************************************************************)
DrawnAfterUpdates ==
  \A f \in Frame : status[RenderJob(f)] \in {"running", "finished"} =>
    /\ UpdateJob(f) \subseteq JB!Finished
    /\ \A g \in 1 .. f - 1 : RenderJob(g) \in JB!Finished

Uses(j) ==
  CASE j \in Updates -> {"input"}
    [] j \in Renders -> {"registry", "renderer", "context", "pool"}
    [] OTHER -> {"registry", "context"}

(***************************************************************************)
(* No job runs, or waits to run, on a part of the engine that Shutdown has *)
(* deleted: in particular the loads that no frame has waited for.          *)
(***************************************************************************)
UsesAlive == \A j \in JB!Pending : Uses(j) \subseteq alive

(***************************************************************************)
(* A quit event, once polled, ends the engine: the frame under way         *)
(* completes, no frame is started, the loads are joined, all is deleted.   *)
(***************************************************************************)
QuitEnds == buttons["Quit"] = "Down" ~> pc = "gone"

(* An asset the render job asked for is loaded, whatever the main thread does. *)
LoadsFinish == \A m \in Asset : phase[LoadJob(m)] = "open" ~> status[LoadJob(m)] = "finished"

=============================================================================
