# A verification project for RenderingEngine

TLA+ models, TLC runs and TLAPS proofs about the parts of this engine where
several threads, or several flags, have to agree: the task system, the job
builders, the main loop and its shutdown, the resource registry, the render
nodes, and, in the D3D12 back end, the pipeline state, the frames with their
fences, the descriptors and the uploads.  Line numbers refer to `src/`.

## 1. The system

| Component | State it keeps | Operations | What makes it correct |
|---|---|---|---|
| Task system: `VoidStarCore/TaskSystem.h`, `SyncCounter.h` | per worker a `NotificationQueue` (deque, mutex, condition variable, `_done`); `_index`; counters | `async_`, `PushAny`, `TryPush`, `Push`, `TryPop`, `Pop`, `Done`, `Run`, destructor | no job lost or duplicated; a job starts only when its counter is zero; no lost wakeup; the destructor leaves no job behind and returns |
| Job builder: `VoidStarCore/JobSystem.cpp` | accumulator, zero counter, extracted | `DispatchNow`, `Dispatch`, both `DispatchWait`, `WaitAll`, `ExtractCounter`, `ExplicitFence` | groups run in order, a zero counter stands for the whole chain, no chain waits for itself |
| Main loop: `VoidStar/VoidStarEngine.cpp`, `VoidStarJobs/UpdateObjectsJob.cpp` | the frame's builders, the input state, the parts of the engine | `Run`, `Shutdown`, `UpdateObject` | the unlocked world has one user at a time, nothing is used after its deletion, quit ends the program |
| Input: `VoidStarSystem/InputSystem.cpp` | button and mouse state | `ProcessEvents` | a quit is never taken back |
| Resource registry: `VoidStarResources/ResourceRegistry.cpp` | vectors of assets with two atomic flags each, two locks | `Register...`, `TryGet...Data`, `LoadMesh`, `LoadImage` | an asset is loaded once, never seen half loaded, and loaded in the end |
| Renderer and nodes: `VoidStarRenderer/` | per-frame resources, constants cache, shaders | `Render`, the nodes' `Execute` | each draw reads what its own object, light and frame bound; a frame's constants are not overwritten while it uses them |
| Pipeline state: `Void3D/D3D12_PipelineState.cpp` | dirty flags, bound resources, CPU descriptors, description of the pipeline object | setters, `bind_...`, `bind_pso_if_invalid`, `bind_shader_resources`, `ensure_resource_states`, `frame_ended`, `force_bind_state` | a draw uses what was set last, and resources in the right state |
| D3D12 context: `Void3D/VoidRenderContext_D3D12.cpp` | fences, per-frame locks and allocators, back buffers | `present`, `begin_new_frame`, `build_swapchain`, `immediate_submit`, creation of resources | nothing is reused before the GPU is done with it; an upload returns, and not before its copy was executed |
| Command lists: `Void3D/VoidGraphicsCommandList_D3D12.cpp` | a list, an allocator, a pipeline state, resource locks | `reset_list`, draws, clears, uploads | as above, per list |
| Descriptors: `Void3D/DescriptorAllocator.h`, `DescriptorRingBuffer.h` | free lists, a ring | `allocate`, `free`, registration of views, copies of tables | a descriptor has one owner; a draw's table is not overwritten within its frame |
| World and cameras: `VoidStarGame/`, `FoundationObjects/` | the tree of objects, transforms | `Update`, matrices | numeric code |
| Asset baker: `AssetBaker/` | none between calls | `Bake`, `Convert` | offline tool |
| Render pass builder, spin lock | | | no user in the program |

**Interactions.** `VoidStarEngine::Run` (main thread) polls input, calls
`UpdateObjectsJob::Execute`, which dispatches a job per object and returns a
counter, and chains the render job behind that counter through a `JobBuilder`.
Builders push closures on the global `TaskSystem` with the counter the closure
waits for; a worker that pops one whose counter is not zero pushes it on any
queue again.  The render job walks the nodes; they ask the `ResourceRegistry`,
which dispatches load jobs that nobody waits for, and drive the context, which
records on a command list through the pipeline state.

**What is hard.** Threads: requeuing, `try_lock`, sleeping and the destructor
in the pool; the two unlocked flags per asset; load jobs that outlive their
frame and meet the shutdown.  Sequences: builders whose groups and extracted
counters are combined in any order; dirty flags that are *flipped* with
exclusive ors rather than cleared, over any sequence of setters, draws, resets,
presents and blits.  GPU: one fence whose values are counted in two places and
which a rebuild of the swap chain moves back; an index that changes inside
`present`; caches that hand out last frame's buffers; descriptors that are
reused; a second fence whose counter several threads increment without a lock.
Nodes: nobody unbinds anything, so each relies on what the ones before it left
set, and on which assets happen to be loaded.  `PROJECT.json`
lists every hazard at its line with the properties that cover it.

## 2. Modules

    JobPool ........ what the pool promises: submit, start at zero, finish
      ^ implemented by TaskSystem (PoolStatus, IfSubmitted: refinement mapping)
      | extended by  JobBuilder
                       ^ instantiated by EngineFrame (JB)
    PipelineState <- instantiated by RenderNodes (P)
    FrameSync <- extended by RenderFrame
    ResourceRegistry      Descriptors      Uploads

Each of `TaskSystem`, `JobBuilder`, `EngineFrame`, `ResourceRegistry`,
`PipelineState`, `RenderFrame`, `Descriptors` and `Uploads` has a module of
theorems, `...Proofs`; `EngineFrameProofs` instantiates `JobBuilderProofs` as
`EngineFrame` does `JobBuilder`.

| Module | Models | State and actions against the code |
|---|---|---|
| `JobPool` | the promise of the pool, abstract | `status`, `dep`, `acc` of a job, `counter`; `Submit`, `Start`, `Finish` |
| `TaskSystem` | `TaskSystem.h`, `SyncCounter.h` | one variable per member of `NotificationQueue`; `pc`, `slot`, `tries`, `hand` are the threads' locals. Every critical section is an acquire and a release step, so `TryPush` and `TryPop` can miss: a `try_lock` fails exactly when another thread holds the mutex. `notify_one` is a step after the release. `Destroy` to `Join` are the destructor |
| `JobBuilder` | `JobSystem.cpp` | each of the seven calls is an action; a builder belongs to one thread. `stands` is a history variable: the jobs a counter at zero stands for |
| `EngineFrame` | `VoidStarEngine::Run`, `Shutdown`, `UpdateObjectsJob`, the two buttons of the input system | `pc` of the main thread goes through the statements of the loop; jobs and counters are those of `JobBuilder` (`JB`). `RequestLoad`/`DispatchLoad` are what the render job does in the registry |
| `ResourceRegistry` | `TryGetMeshData`, `TryGetTextureData`, their load jobs | each read and write of a flag and each store of a resource is a step |
| `PipelineState` | `D3D12_PipelineState.cpp`, and what `present`, `pre_draw`, blits, clears and `reset_list` do to it | `dirty`, `need`, `stale` are `_dirtyFlags`, `_needGpuCommit` and the sections' marks; `bound`, `cpu`, `list` are a binding's three places. A flush is `AfterPso`, `CommitBound`, `Recorded`, `Transitioned`, `AfterBarriers` in the order of the code. `rstate` is the state the program has recorded for a resource (`_currentState`), `real` the one it is in, `back` the current back buffer |
| `RenderNodes` | `Renderer::Render` and the `Execute` of each node, over `PipelineState` | a node is the sequence of its calls (`calls`), executed one by one by `Call`; an iteration of a loop over lights or proxies adds its calls when it begins, and which they are depends on the assets loaded by then. What each shader reads is the table `Reads` |
| `FrameSync` | `present`, `begin_new_frame`, `build_swapchain`, `shutdown`, the locks of the calls that record, the fence | `index`, `fence`, `queue`, `awaits`, `event`, `backBuffer` belong to the device; `pc` and `turn` are where the context's thread is. `SetFence` and `Execute` are the GPU taking the next command |
| `RenderFrame` | `Renderer::Render`, `RenderResources`, `ConstantsCache`, what the nodes bind | `made` and `handed` are a cache's list and its cursor; `proxies`, `set` are what a frame's nodes have; `content` is history: which frame wrote a buffer last |
| `Descriptors` | `DescriptorAllocator.h`, `DescriptorRingBuffer.h`, registration and disposal of resources, the copy of a table before a draw | `free` counts how often a descriptor is in its free list; `handle` is what a resource believes it owns; `top` and `ring` are the ring, `tables` where the open frame's draws have theirs |
| `Uploads` | `immediate_submit` | every access to `_immediateFenceValue` is a step; `register` is the value a caller may still have in one; `torn` and `back` are history: an increment was lost, a signal was overtaken by a larger one |

Operators commented "A defect" are variants of the definition after them, with
a plausible mistake; no specification uses them.  Each property of a passing
run is known to fail when one of them takes the place of the definition it
varies, so that no property holds by the shape of its model.

### Abstractions

- *Jobs* are model values; a job's body is the list of jobs it submits.  The
  closures' pairing of counters (increment before the push, decrement after the
  body) is kept.  A job that throws ends the process and is not modelled.
- *Registry*: the vectors are full from `Init` on, as in the program.
- *Pipeline state*: a section keeps its slots (`Srv`, `SectionOf`); a table's
  sixteen and the eight render targets stand for one each, since a stage copies
  all of them under one flag.  What is bound is never null, except a render target: no
  caller unbinds anything else, and unbinding would keep the old descriptor
  (`commit_bound_to_cpu` skips null).  A pipeline object is its
  description: the hash of the cache covers every field.
  `_needGpuCommit` and the arrays of CPU descriptors have no initialiser (the
  comment "init descriptors" at `D3D12_PipelineState.cpp:200` stands before
  nothing): they start with any bits and any of `Memory`, which has 0 and
  addresses nobody wrote.  The tests for 0 (`:506`, `:545`, `:567`) replace only
  a 0, so nothing is claimed of a slot in which nothing is bound.  A draw
  requires captured targets when it has to build a pipeline object.  `present`
  and the prologue move a back buffer by barriers that do not store
  `_currentState` (`VoidRenderContext_D3D12.cpp:225`, `:1526`): what is recorded
  of a back buffer stays `RENDER_TARGET` while `real` goes to `PRESENT` and back
  when its turn comes.  Back buffers have no view to sample (`get_d3d12_srv`
  throws).  In `RenderNodes` the memory is all 0 or all `Wild`, and the two back
  buffers take turns.
- *Frames*: a `shared_ptr`'s count is the set of its holders (`Alive`).  A
  reset of an allocator has no state of its own: it is legal when nothing is
  executing, which is what is checked.  The seven slots of a pipeline state are
  two, one for constants and one for the rest; the nodes bind, draw, blit and
  clear in any order, and their shaders read what was bound in the same frame.
  A submitted list is kept by its lock alone.  `wait_for_fence_value` passes a
  duration that casts to `INFINITE`, so no wait times out.  The fence is the
  direct queue's.
- *Nodes*: textures are members of the sections' slots without a state of their
  own.  An asset may be ready at any look, and stays so.  The switch of the
  depth clip raises the flag of the depth test and is folded into it.  Each
  light is handed the same shadow map in each frame, as its cache is refilled
  in order.  Culling and matrices decide nothing that is modelled.
- *Descriptors*: the locks of a frame only delay a release (`Release` may come
  at any time after `Drop`).  A resource's views are registered once, by its
  creator.  The null descriptors a pipeline state copies for empty slots live in
  a heap of its own.  The sampler heap is left out.
- *Uploads*: each mention of the counter finds the value in memory or the one
  this caller stored; which, is the compiler's choice.  The comparison of line 1039 is
  one look.  The fence's event is null, so that line 1041 blocks in the call.
- What the API does on its own is taken from how the code uses it and marked
  external in the map: spurious wakeups, what resetting a list and setting
  another root signature unset.

## 3. Runs

| Run | Bounds | What it shows |
|---|---|---|
| `task_system` | 2 workers, `K` = 1, `_index` modulo 2, 3 jobs: one dispatched by a job's body, one that waits for another | conservation of jobs, no lost wakeup, nothing stranded by the destructor, and that `TaskSystem` implements `JobPool` |
| `task_system_live` | 2 workers, 2 jobs, one waiting for the other | each dispatched job runs; the destructor returns |
| `job_builder` | 2 builders, 3 jobs, 7 counters | a zero counter stands for its whole chain; jobs start in order; a closed counter only falls |
| `job_builder_live` | 2 builders, 2 jobs, 6 counters | no combination of calls waits for itself |
| `engine_frame` | 3 frames, 2 objects, 2 assets | the world has one user; nothing used after deletion; quit ends the engine; loads finish |
| `resource_registry` | 2 callers, 2 meshes, 1 texture | one load per asset, never half loaded, and asking once is enough |
| `pipeline_targets` | 1 shader, the depth test, the constants, 2 back buffers, a depth target, a section that may sample it or one of 2 buffers, memory that is 0 or not | wherever something is bound, a draw uses what was set last and samples what is bound; it writes to targets really in the right state |
| `render_nodes` | 2 lights, 2 proxies (one physical, one plain with an alpha map), 3 frames | each draw reads what its proxy, light and frame bound, in a state to be read, and its targets are those its pipeline object was made for |
| `render_frame` | 2 back buffers, 3 frames, a constants buffer, a cached image, a temporary, a list | nothing is reset, resized, overwritten or released while the GPU uses it; barriers match the back buffers; every wait ends |
| `descriptors` | a constants buffer, 2 shadow maps, a section of two slots and constants of one, ring of 4, 1 rebuild | a descriptor has one owner; the tables of a frame that fits in the ring stay intact |
| `uploads` | 3 callers, 3 uploads | without a lost increment no upload returns before its copy; without an overtaken signal each returns |
| `pipeline_blit` | the smallest instance | the finding below |

**Why the bounds are enough.** Two workers are the least with stealing, a
missed `try_lock`, and an exited worker beside one that still runs; `_index`
modulo 2 makes the counter wrap.  Three jobs give a job that waits, the one it
waits for, and a dispatch from a body.  Seven counters allow two builders and
three fences: a chain of three groups, and one across builders.  Three frames
let a load started in one still run two frames later.  For the pipeline state
each *kind* of flag that one mask or the other flips has a member, and each
value an old and a new one, beside what the memory held; a second back buffer
is enough for one that was presented and is still bound.  The theorems cover
the flags left out (the index buffer, the topology, the extent).
`MCPipelineTargets` exchanges the back buffers, and the two buffers, by symmetry
and forgets, by a view, what the next commit or draw replaces before any action
or property reads it.  The nodes use all of them: two lights and
two proxies give every loop a first and a second iteration with the other's
bindings still there, the two materials take both branches of each material
test, and three frames make the back buffer come round.  In `render_frame` three presents (`MaxFence`) use each back buffer, come
back to the first, and allow a rebuild after each, so that the fence moves back
more than once and the next frames count on from there; shutdown may come after
any of them.  One member of each cache is enough for reuse in the next frame.
The ring of 4 against tables of 2 and 1
is wrapped at each of its places; heaps with fewer descriptors than there are
views make the free lists run dry.  Three uploads are the least in which a lost
increment makes one return early while two others signal.  `MCDescriptors`
reduces states by a view and by symmetry: it forgets what a free descriptor
describes and the places of the ring that belong to no table of the frame,
which no action and no property reads, and it exchanges the shadow maps.  The
theorems of section 5 lift most of these bounds.

`CHECK_DEADLOCK FALSE` is set for the builders, whose users may stop calling
and which run out of counters (`MaxCounter`), for `EngineFrame`, which ends
(`MaxFrames`, or `gone`), for `RenderFrame`, which shuts down or presents
no more (`MaxFence`), and for `Uploads`, whose callers stop at `MaxUploads`.

**Fairness.** Every thread is scheduled (weak fairness of its next step).  A
thread blocked in `lock()` gets a mutex that is free again and again (strong
fairness of the acquire steps): with weak fairness alone the other workers,
requeuing a job that is not ready, could take it for ever.  `Wake` is strongly
fair for the same reason; nothing is assumed of spurious wakeups, of the main
thread ever deleting the pool, of a caller asking, of an event arriving.  The
event queue is assumed to run dry (weak fairness of the main loop).  In
`RenderFrame` the GPU works through its queue (`Device`) and the thread inside
`present` or `shutdown` is scheduled (`Between`); nobody has to draw or present.  In
`Uploads` the GPU works through its queue and a thread inside `immediate_submit`
is scheduled; nobody has to upload.

## 4. Findings

`pipeline_blit`: `VoidRenderContext_D3D12.cpp:891` says of a blit that the
"normal pipeline state will need to be rebound".  `force_bind_state`
(`D3D12_PipelineState.cpp:332`) raises all flags, but the descriptor sections
have marks of their own and only marked sections are set again (`:499`).  Bind
a resource, draw, blit, draw: the second draw has no table there.  It never has
an *old* table (`DrawSamplesBound`).  The function has no caller at present;
`frame_ended` has the same gap, which the renderer does not see because it
binds everything again for each list (`DrawReadsItsOwn`).

Noted without a run, being harmless, without a caller, or contradicted by no
text in the repository:

- *Builders*: `DispatchWait` on an empty group closes it and loses the fence
  before it; `WaitAll` does not wait for `DispatchNow` jobs after the last
  fence.
- *Input*: Escape pressed and released in one batch of events is never seen.
- *Pipeline state*: `clean_pso` (`:666`) flips the flags, so that a setter of
  anything raises the flags of the targets, against the comment at `:668`: work
  is repeated, but no draw is wrong (`DrawIsCurrent`).  A slot in which nothing
  was ever bound is copied to the list with whatever its descriptor's memory
  held, unless that is 0; no shader of the renderer reads one
  (`DrawReadsItsOwn`).  After a present the old back buffer is still bound and
  still recorded as `RENDER_TARGET`: a draw before another target is bound would
  write to it in `PRESENT` without a barrier.  `DrawWritesTargets` leaves out the
  back buffers that are not the current one, and `TargetsFit` shows that the
  renderer never draws to one.  `~D3D12_PipelineState` frees the static default
  descriptors once per state (`:181`); that heap is not modelled.
- *Nodes*: with the wire frame box checked, the blit draws with the shadow
  map's extent and depth target still set.  The depth clip stays off after the
  shadow pass.  A frame without a light asks for a buffer of size 0
  (`BindSharedResourcesNode.cpp:12`).  The shadow and the forward pass write the
  same buffer of a proxy, before the GPU reads either.  A binding left from the
  frame before is not locked in the new one; none of the nodes' shaders reads
  one.
- *Frames*: `build_swapchain` waits for values the fence has long reached, so
  its signals may still be queued when it goes on (the comment at
  `VoidRenderContext_D3D12.cpp:157` says it waits for them), and the fence then
  moves back; `present` has already waited for the frame, so `NothingExecuting`
  holds all the same.
- *Descriptors*: `build_swapchain` frees the back buffers' descriptors twice
  (`:171`, `:194`), and the free list then hands one to two resources: `OneOwner`
  exempts render targets after a rebuild.  Nothing calls `window_resized`.
- *Uploads*: `_immediateFenceValue++` (`:1032`) is not atomic.  When an increment
  is lost, an upload may return before its copy was executed; when a smaller
  signal follows a larger one, a caller may wait until another thread uploads.
  `UploadExecuted` and `UploadReturns` say that nothing else makes it so.

## 5. Proofs

Checked by TLAPS for every value of the constants, from the named assumptions
only: `TaskAssumption` (at least one worker, as `hardware_concurrency() > 0`),
`ProgramAssumption` (each dispatch hands over a function object of its own),
`BuilderAssumption` and `EngineAssumption` (finitely many jobs, counters from 1),
`RegistryAssumption` and `PipelineAssumption` (names do not overlap),
`FrameAssumption` (two back buffers or more) and `RenderAssumption`,
`DescriptorAssumption` (no table wider than the ring, a heap that holds the back
buffers), `UploadAssumption`.

- `TaskSystemProofs`: `TypeCorrect`, `ShutdownSafe`, `NoJobStranded`.  The
  inductive invariant is `ShutdownInv`: mutual exclusion, where each thread can
  be, that queues close in order, and `ScanInv` - every queue with a job has a
  worker that will still look into it.  `NothingStranded` alone is not
  inductive: it says nothing before all workers have left.
  `OnePlaceEach` adds `PlaceInv`: no job is twice in the queues, nor in two of
  queue, hand and body (`UniqueInv`, `ApartInv`), and what was submitted is what
  these places and the finished jobs hold.  It rests on `ProgramAssumption`, and
  gives `Conserved` (`JobConservation` counts; `PlaceInv` says where, which is
  what a step can preserve) and `PoolImplemented`: by the status a job has in
  `JobPool`, each action is a submission, a start, a return, or a stutter.
  `WakeupsReach` holds because a thread that fills or closes a queue notifies
  before it does anything else.  `PoolNeverDeadlocks` spells out the guards of a
  thread's steps (`CanMove`), since `ENABLED` is out of the prover's reach.  If
  no thread could move, no lock would be held and every worker be asleep or
  gone; by `NoLostWakeup` and `ScanInv` no queue would then have a job, by
  `PlaceInv` every job be finished, and the destructor, which joins only workers
  whose queues it has closed, would wait for no sleeper.
- `JobBuilderProofs`: `BuilderInv`, `ZeroIsDone`, `ClosedCountersFall`.
  `OrderInv` adds to the properties who owns an accumulator (`OwnerInv`), that
  jobs wait for closed counters only (`DepInv`), and the exact count.  The order of
  a chain follows: a zero counter has no pending job, and each finished job
  started when its own chain was done.  `JobsInOrder` is the same for the start
  of a body.  `NoCircularWait` is the part of `EveryJobFinishes` that is not
  about fairness.  Counters are numbered as they are made, and `RankInv` says that a
  job waits for a counter older than the one it counts on, or for one that no
  job counts on.  The pending job of the oldest accumulator therefore waits for
  nothing (`LeastNumber` is the well-foundedness of the numbers,
  `OldestCanRun`).
- `EngineFrameProofs`: `EngineType`, `DrawnInOrder`, `OneUserOfTheWorld`,
  `PartsOutliveJobs`.  Every step of the engine is a step of the builders or
  leaves them alone, so their invariant holds here too (`JP!Inv`, through the
  instance of `JobBuilderProofs`).  On top of it, `ChainInv` says at each
  statement of `Run` which counter covers the frame's updates: the builder's
  accumulator, its zero counter, then the frame builder's and what the render
  job waits for.  `PastInv` has the earlier frames done, so that only loads
  cross frames; `LoadInv` gives each load asked for and not yet dispatched to a
  render job that runs, so that none appears once the pool is gone.
  `MainNeverWaitsInVain` carries `NoCircularWait` to the two places where the
  main thread waits, `WaitAll` and the destructor of the pool.
- `ResourceRegistryProofs`: `RegistrySafe`, `NeverHalf`, `LoadedByOne`,
  `InitiatedIsPending`.  `RegistryInv` names the one caller responsible for each
  asset.  The last one is the converse: the flag that makes every later caller
  turn away has a caller or a job behind it that will set the other
  (`LoadsPending`), and a lock that is taken a holder (`LocksHeld`).
- `PipelineStateProofs`: `FlagsHold`, `DrawCurrent`, `DrawSamples`,
  `DrawWrites`.  `FlagsInv` says what the *absence* of a flag promises of the
  descriptor and of the list.  The argument is monotone: an exclusive or with
  the state mask may raise flags, and of those it lowers the ones that later
  stages read are put back (`AfterPsoKeeps`); `CommitIsCurrent` then has the
  descriptor of everything bound current, `DrawFacts` the list.  All of this is
  said of slots in which something is bound, and holds for any contents of
  `Memory`: what is bound raised its flag when it was bound, so the commit has
  replaced what the memory held.  `RealInv` is what the barriers need: the
  recorded state is the real one except for the back buffers that are not the
  current one, which are in `PRESENT`; no barrier of the program's own can be
  wrong about those, for they are recorded as `RENDER_TARGET` and nothing asks
  for another state of a back buffer.
- `RenderFrameProofs`: `RenderType`, `GPUIsIdle`, `UsedStaysAlive`,
  `BarriersAlwaysMatch`, `WritesOnlyWhenIdle`, `AwaitedSignalled`.  The values
  matter: no list is queued behind a signal of the value that is awaited or of
  more, and although a rebuild signals old values and adds one to its own copy,
  no signal exceeds `_fenceValue` and no copy exceeds it by more than one
  (`ValuesInv`, `SyncInv`).  `BarrierInv` has the two barriers of a frame in
  order.  `Kept` is the reason a resource in use lives:
  the lock of its frame, or the cache.  For `AwaitedSignalled`, the signal of
  the value `present` or `shutdown` has counted is the last command of the queue
  when they look at the fence, or the queue is empty (`LastInv`): no smaller
  signal can come between.
- `DescriptorsProofs`: `DescriptorsType`, `DescriptorsOwned`, `TablesAreIntact`.
  A descriptor is in the free list once and with no owner, or not there and
  with one.  `ArcInv` is what the ring needs: the tables of a frame lie on one
  arc that starts somewhere (`Unwrapped`) and may go on at zero (`Wrapped`),
  where the rest of the ring at the top is too short for the widest table; the
  arc is as long as what was used, so the next table does not reach its start.
- `UploadsProofs`: `UploadsType`, `UploadsAreExecuted`, `AwaitedValueComes`,
  `UploadsNeverStuck`.  Unless an increment was lost, no value signalled or held
  by a caller exceeds the counter (`Counted`), and all that precedes a list in the queue signals less than its caller waits
  for (`Ahead`).  Unless, besides, a signal was overtaken, the queued signals
  ascend from the fence (`InOrder`), hence the fence never moves back and the
  counter's own value always comes (`OrderInv`); no caller waits for more.

Of what the passing runs check, every invariant, every action property and the
refinement is proved, but for the action properties of `RenderNodes`: these
follow the calls of a frame one by one, and the run goes through three frames in
each mode, with every order in which assets may be loaded.  Liveness is only model-checked, since it depends on fairness
and `ENABLED`, which the prover does not handle: `EveryJobRuns`,
`ShutdownReturns`, `EveryJobFinishes`, `WaitAllReturns`, `QuitEnds`,
`LoadsFinish`, `AskedIsLoaded`, `EveryWaitEnds`, `UploadReturns`.  What of them
is a matter of safety is proved: nobody waits for what nobody will do
(`WakeupsReach`, `PoolNeverDeadlocks`, `NoCircularWait`, `MainNeverWaitsInVain`,
`InitiatedIsPending`, `AwaitedSignalled`, `AwaitedValueComes`,
`UploadsNeverStuck`).

## 6. Plan

Built in this order: `TaskSystem` with `JobPool`, `JobBuilder`, `EngineFrame`,
`ResourceRegistry`, `PipelineState`, `FrameSync` with `RenderFrame`,
`RenderNodes`, `Descriptors`, `Uploads`, and a module of theorems for each but
`RenderNodes`.  What could still be added: proofs of the properties of
`RenderNodes`, from an invariant that says of each slot a draw reads that it
holds the draw's own value or that a call to come binds it, and from the
invariant of `PipelineState` (`FlagsInv`); the rest of the input system
(movement keys, mouse delta), which is translated straight into camera movement.

Not modelled, and why:

- `VoidSpinLock` and the render pass builder: nothing uses them.
- The asset baker, file and model import: run before the first frame, keep no
  state between calls, and convert data.
- Matrices, cascades, culling, cameras, the transforms of objects: floating
  point arithmetic without control.
- Shaders: what each reads is a table of `RenderNodes`; what they compute is
  numeric.
- `generate_mips`, compute dispatch, the sampler heap: no caller, or nothing the
  engine binds.
- Device and window creation: a straight line that ends the program when it
  fails.
- imgui, tracy, meshoptimizer, D3D12MemoryAllocator, concurrentqueue, stb_image:
  vendored, and by far the larger part of the lines of the tree.
