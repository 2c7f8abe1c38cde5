-------------------------- MODULE EngineFrameProofs --------------------------
(***************************************************************************)
(* The safety properties of EngineFrame for any number of objects, assets  *)
(* and frames.  The jobs are those of JobBuilder, whose invariant holds    *)
(* here too (JobsKeep); on top of it stands where the counters are that    *)
(* cover a frame's updates and its render job.                             *)
(***************************************************************************)
EXTENDS EngineFrame, FiniteSetTheorems, TLAPS

JP == INSTANCE JobBuilderProofs

-----------------------------------------------------------------------------
(* The inductive invariant. *)

World(f) == UpdateJob(f) \cup {RenderJob(f)}
Idle(js) == \A j \in js : status[j] = "idle"
Done(js) == \A j \in js : status[j] = "finished"

(* A zero of counter c says that the jobs are done. *)
Covers(c, js) == c \in Counter /\ js \subseteq stands[c]

Deleting == {"delete registry", "delete input", "delete renderer", "delete context", "gone"}
Settled == {"test", "stats", "delete pool"} \cup Deleting

MainType ==
  /\ pc \in PC
  /\ frame \in 0 .. MaxFrames
  /\ todo \subseteq Object
  /\ buttons \in [{"Quit", "Escape"} -> {"Up", "Down"}]
  /\ alive \subseteq Part

(* The frames before this one are done, those after it have not begun. *)
PastInv ==
  \A f \in Frame : /\ f < frame => Done(World(f))
                   /\ f > frame => Idle(World(f))

(* How far this one is. *)
FrameInv ==
  /\ pc \notin Settled => frame \in Frame
  /\ pc \in Settled /\ frame \in Frame => Done(World(frame))
  /\ pc = "events" => Idle(World(frame))
  /\ pc \in {"update", "extract", "chain", "render"} => status[RenderJob(frame)] = "idle"
  /\ pc \in {"wait", "spin"} => status[RenderJob(frame)] # "idle"

(* The counter that covers its updates: the update builder's accumulator, then
   its zero counter, the frame builder's, and what the render job waits for. *)
ChainInv ==
  /\ pc = "update" =>
       Covers(accumulator[UpdateBuilder(frame)], {<<"update", frame, o>> : o \in Object \ todo})
  /\ pc \in {"extract", "chain"} => Covers(zero[UpdateBuilder(frame)], UpdateJob(frame))
  /\ pc = "render" => Covers(zero[FrameBuilder(frame)], UpdateJob(frame))
  /\ pc \in {"wait", "spin"} =>
       /\ Covers(dep[RenderJob(frame)], UpdateJob(frame))
       /\ Covers(zero[FrameBuilder(frame)], World(frame))

(* A load that was asked for and not dispatched belongs to a render job that
   still runs. *)
LoadInv ==
  \A m \in Asset :
    phase[LoadJob(m)] # "none" /\ status[LoadJob(m)] = "idle" => frame \in Frame /\ Rendering

DeletedInv ==
  IF pc \in Deleting THEN \A j \in Job : status[j] \notin {"queued", "running"}
                     ELSE alive = Part

IInv ==
  JP!Inv /\ MainType /\ PastInv /\ FrameInv /\ ChainInv /\ LoadInv /\ DeletedInv

-----------------------------------------------------------------------------
(* The constants. *)

(* The instance has its own name for a finite set. *)
LEMMA SameFinite == \A S : IsFiniteSet(S) => JP!IsFiniteSet(S)
BY DEF IsFiniteSet, JP!IsFiniteSet

(* The bound on the counters is a number. *)
LEMMA FramesFinite == IsFiniteSet(Frame) /\ MaxCounter \in Nat
<1>1. IsFiniteSet(Frame)
  BY FS_Interval, EngineAssumption DEF Frame
<1>2. Cardinality(Asset) \in Nat
  BY FS_CardinalityType, EngineAssumption
<1> QED
  BY <1>1, <1>2, EngineAssumption DEF MaxCounter

(* A frame has as many updates as there are objects. *)
LEMMA UpdatesFinite == ASSUME NEW f \in Frame PROVE IsFiniteSet(UpdateJob(f))
<1> DEFINE g == [o \in Object |-> <<"update", f, o>>]
<1>1. g \in Surjection(Object, UpdateJob(f))
  BY DEF Surjection, UpdateJob
<1> QED
  BY <1>1, FS_Surjection, EngineAssumption

(* There are finitely many jobs. *)
LEMMA JobFinite == IsFiniteSet(Job)
<1> DEFINE updates == {UpdateJob(f) : f \in Frame}
           renders == {RenderJob(f) : f \in Frame}
           loads == {LoadJob(m) : m \in Asset}
<1>1. IsFiniteSet(updates)
  <2> DEFINE g == [f \in Frame |-> UpdateJob(f)]
  <2>1. g \in Surjection(Frame, updates)
    BY DEF Surjection
  <2> QED
    BY <2>1, FS_Surjection, FramesFinite
<1>2. IsFiniteSet(UNION updates)
  <2>1. ASSUME NEW T \in updates PROVE IsFiniteSet(T)
    <3>1. PICK f \in Frame : T = UpdateJob(f)
      OBVIOUS
    <3> QED
      BY <3>1, UpdatesFinite
  <2> HIDE DEF updates
  <2> QED
    BY <1>1, <2>1, FS_UNION
<1>3. IsFiniteSet(renders)
  <2> DEFINE g == [f \in Frame |-> RenderJob(f)]
  <2>1. g \in Surjection(Frame, renders)
    BY DEF Surjection
  <2> QED
    BY <2>1, FS_Surjection, FramesFinite
<1>4. IsFiniteSet(loads)
  <2> DEFINE g == [m \in Asset |-> LoadJob(m)]
  <2>1. g \in Surjection(Asset, loads)
    BY DEF Surjection
  <2> QED
    BY <2>1, FS_Surjection, EngineAssumption
<1>5. Job = (UNION updates) \cup renders \cup loads
  BY DEF Job
<1> HIDE DEF updates, renders, loads
<1>6. IsFiniteSet((UNION updates) \cup renders)
  BY <1>2, <1>3, FS_Union
<1>7. IsFiniteSet(((UNION updates) \cup renders) \cup loads)
  BY <1>4, <1>6, FS_Union
<1> QED
  BY <1>5, <1>7

(* What JobBuilder assumes of its constants. *)
LEMMA BuilderAssumptions == JP!PoolAssumption /\ JP!BuilderAssumption
BY EngineAssumption, SameFinite, JobFinite, FramesFinite
   DEF JP!PoolAssumption, JP!BuilderAssumption, Counter

(* The names of jobs and builders do not overlap. *)
LEMMA Names ==
  /\ \A f, g \in Frame : RenderJob(f) = RenderJob(g) => f = g
  /\ \A f, g \in Frame : RenderJob(f) \notin UpdateJob(g)
  /\ \A f \in Frame, m \in Asset : LoadJob(m) \notin World(f)
  /\ \A m, n \in Asset : LoadJob(m) = LoadJob(n) => m = n
  /\ \A f, g \in Frame : f # g => World(f) \cap World(g) = {}
  /\ \A f, g \in Frame : FrameBuilder(f) # UpdateBuilder(g)
  /\ \A f \in Frame, m \in Asset : LoadJob(m) # FrameBuilder(f) /\ LoadJob(m) # UpdateBuilder(f)
BY DEF RenderJob, LoadJob, UpdateJob, FrameBuilder, UpdateBuilder, World

(* They are jobs and builders. *)
LEMMA Members ==
  /\ \A f \in Frame : World(f) \subseteq Job /\ UpdateJob(f) \subseteq World(f)
                      /\ RenderJob(f) \in World(f)
  /\ \A f \in Frame, o \in Object : <<"update", f, o>> \in UpdateJob(f)
  /\ \A f \in Frame : FrameBuilder(f) \in Builder /\ UpdateBuilder(f) \in Builder
  /\ \A m \in Asset : LoadJob(m) \in Job /\ LoadJob(m) \in Builder
BY DEF World, Job, Builder, UpdateJob

-----------------------------------------------------------------------------
(* Every step is one of JobBuilder's, or none. *)
LEMMA JobStep == MainType /\ FrameInv /\ [Next]_vars => [JP!Next]_JP!vars
<1> SUFFICES ASSUME MainType, FrameInv, [Next]_vars PROVE [JP!Next]_JP!vars
  OBVIOUS
<1>1. ASSUME NEW b \in Builder, JB!New(b) PROVE JP!Next
  BY <1>1 DEF JB!New, JP!New, JP!Next, JB!poolVars, JP!poolVars
<1>2. ASSUME NEW b \in Builder, JB!DispatchWait(b) PROVE JP!Next
  BY <1>2 DEF JB!DispatchWait, JP!DispatchWait, JB!ExplicitFence, JP!ExplicitFence,
     JB!OpenGroup, JP!OpenGroup, JP!Next, JB!poolVars, JP!poolVars
<1>3. ASSUME NEW b \in Builder, JB!ExtractCounter(b) PROVE JP!Next
  BY <1>3 DEF JB!ExtractCounter, JP!ExtractCounter, JP!Next, JB!poolVars, JP!poolVars
<1>4. ASSUME NEW b \in Builder, JB!WaitAll(b) PROVE JP!Next
  BY <1>4 DEF JB!WaitAll, JP!WaitAll, JP!Next, JB!poolVars, JP!poolVars
<1>5. ASSUME NEW b \in Builder, JB!WaitAllReturn(b) PROVE JP!Next
  BY <1>5 DEF JB!WaitAllReturn, JP!WaitAllReturn, JP!Next, JB!poolVars, JP!poolVars
<1>6. ASSUME NEW b \in Builder, NEW x \in Builder, JB!DispatchWaitOn(b, x) PROVE JP!Next
  BY <1>6 DEF JB!DispatchWaitOn, JP!DispatchWaitOn, JB!OpenGroup, JP!OpenGroup, JP!Next,
     JB!poolVars, JP!poolVars
<1>7. ASSUME NEW b \in Builder, NEW j \in Job, JB!DispatchNow(b, j) PROVE JP!Next
  BY <1>7 DEF JB!DispatchNow, JP!DispatchNow, JB!SubmitTo, JP!SubmitTo, JB!Submit, JP!Submit,
     JB!builderVars, JP!builderVars, JP!Next
<1>8. ASSUME NEW b \in Builder, NEW j \in Job, JB!Dispatch(b, j) PROVE JP!Next
  BY <1>8 DEF JB!Dispatch, JP!Dispatch, JB!SubmitTo, JP!SubmitTo, JB!Submit, JP!Submit,
     JB!ExplicitFence, JP!ExplicitFence, JB!OpenGroup, JP!OpenGroup, JP!Next
<1>9. ASSUME NEW j \in Job, Start(j) \/ Finish(j) PROVE JP!Next
  BY <1>9 DEF Start, Finish, JB!Start, JP!Start, JB!Finish, JP!Finish, JP!Work, JP!PoolStep,
     JP!builderVars, JP!Next
<1>10. ASSUME UNCHANGED jobVars PROVE UNCHANGED JP!vars
  BY <1>10 DEF jobVars, JP!vars, JP!poolVars, JP!builderVars
<1>11. pc \notin Settled => FrameBuilder(frame) \in Builder /\ UpdateBuilder(frame) \in Builder
  BY Members DEF FrameInv
<1>12. BeginFrame => FrameBuilder(frame + 1) \in Builder
  <2>1. BeginFrame => frame + 1 \in Frame
    BY EngineAssumption DEF BeginFrame, Frame, MainType
  <2> QED
    BY <2>1, Members
<1>13. CASE UNCHANGED vars
  BY <1>10, <1>13 DEF vars
<1>14. CASE BeginFrame
  BY <1>1, <1>12, <1>14 DEF BeginFrame
<1>15. CASE LeaveLoop
  BY <1>10, <1>15 DEF LeaveLoop
<1>16. CASE EventsDone
  BY <1>1, <1>11, <1>16 DEF EventsDone, Settled, Deleting
<1>17. CASE FenceUpdates
  BY <1>2, <1>11, <1>17 DEF FenceUpdates, Settled, Deleting
<1>18. CASE ReturnCounter
  BY <1>3, <1>11, <1>18 DEF ReturnCounter, Settled, Deleting
<1>19. CASE ChainFrame
  BY <1>6, <1>11, <1>19 DEF ChainFrame, Settled, Deleting
<1>20. CASE DispatchRender
  <2>1. RenderJob(frame) \in Job
    BY <1>20, Members DEF DispatchRender, Settled, Deleting, FrameInv
  <2> QED
    BY <1>8, <1>11, <1>20, <2>1 DEF DispatchRender, Settled, Deleting
<1>21. CASE WaitAll
  BY <1>4, <1>11, <1>21 DEF WaitAll, Settled, Deleting
<1>22. CASE WaitAllReturn
  BY <1>5, <1>11, <1>22 DEF WaitAllReturn, Settled, Deleting
<1>23. CASE EndFrame
  BY <1>10, <1>23 DEF EndFrame
<1>24. CASE DeletePool \/ DeleteRegistry \/ DeleteInput \/ DeleteRenderer \/ DeleteContext
  BY <1>10, <1>24 DEF DeletePool, DeleteRegistry, DeleteInput, DeleteRenderer, DeleteContext, Delete
<1>25. ASSUME NEW o \in Object, UpdateObject(o) PROVE [JP!Next]_JP!vars
  <2>1. <<"update", frame, o>> \in Job
    BY <1>25, Members DEF UpdateObject, Settled, Deleting, FrameInv
  <2> QED
    BY <1>7, <1>11, <1>25, <2>1 DEF UpdateObject, Settled, Deleting
<1>26. CASE PollEvent
  BY <1>10, <1>26 DEF PollEvent
<1>27. ASSUME NEW m \in Asset, RequestLoad(m) \/ DispatchLoad(m) PROVE [JP!Next]_JP!vars
  BY <1>1, <1>8, <1>27, Members DEF RequestLoad, DispatchLoad
<1>28. ASSUME NEW j \in Job, Start(j) \/ Finish(j) PROVE [JP!Next]_JP!vars
  BY <1>9, <1>28
<1> QED
  BY <1>13, <1>14, <1>15, <1>16, <1>17, <1>18, <1>19, <1>20, <1>21, <1>22, <1>23, <1>24,
     <1>25, <1>26, <1>27, <1>28 DEF Next, Main

(* The invariant of JobBuilder is preserved. *)
LEMMA JobsKeep == JP!Inv /\ MainType /\ FrameInv /\ [Next]_vars => JP!Inv'
BY JobStep, BuilderAssumptions, JP!StepKeeps

-----------------------------------------------------------------------------
(* Steps beside the main thread: the status of a world job moves on, what a
   counter covers grows, the frame's builders stay. *)
Steady ==
  /\ UNCHANGED <<pc, frame, todo, alive>>
  /\ \A f \in Frame : \A j \in World(f) :
       /\ status[j] = "idle" <=> status'[j] = "idle"
       /\ status[j] = "finished" => status'[j] = "finished"
       /\ status[j] # "idle" => dep'[j] = dep[j]
  /\ \A f \in Frame :
       /\ accumulator'[UpdateBuilder(f)] = accumulator[UpdateBuilder(f)]
       /\ zero'[UpdateBuilder(f)] = zero[UpdateBuilder(f)]
       /\ zero'[FrameBuilder(f)] = zero[FrameBuilder(f)]
  /\ \A c \in Counter : stands[c] \subseteq stands'[c]

(* They keep what is said of the frames. *)
LEMMA SteadyKeeps ==
  ASSUME MainType, PastInv, FrameInv, ChainInv, Steady
  PROVE  PastInv' /\ FrameInv' /\ ChainInv'
<1>1. \A f \in Frame : /\ Done(World(f)) => Done(World(f))'
                       /\ Idle(World(f)) => Idle(World(f))'
  BY DEF Steady, Done, Idle, World
<1>2. \A f \in Frame : status[RenderJob(f)] = "idle" <=> status'[RenderJob(f)] = "idle"
  BY Members DEF Steady
<1>3. PastInv'
  BY <1>1 DEF Steady, PastInv
<1>4. FrameInv'
  <2>1. pc' = pc /\ frame' = frame
    BY DEF Steady
  <2>2. /\ pc \in Settled /\ frame \in Frame => Done(World(frame))'
        /\ pc = "events" => Idle(World(frame))'
    BY <1>1, <2>1 DEF FrameInv, Settled, Deleting
  <2>3. pc \notin Settled => (status[RenderJob(frame)] = "idle" <=> status'[RenderJob(frame)] = "idle")
    BY <1>2 DEF FrameInv
  <2> QED
    BY <2>1, <2>2, <2>3 DEF FrameInv, Settled, Deleting
<1>5. \A c, js : Covers(c, js) => Covers(c, js)'
  BY DEF Steady, Covers
<1>6. ChainInv'
  <2>1. CASE pc \in Settled \/ pc = "events"
    BY <2>1 DEF Steady, ChainInv, Settled, Deleting
  <2>2. CASE pc \notin Settled
    <3>1. frame \in Frame /\ RenderJob(frame) \in World(frame)
      BY <2>2, Members DEF FrameInv
    <3>2. pc \in {"wait", "spin"} => dep'[RenderJob(frame)] = dep[RenderJob(frame)]
      BY <3>1 DEF Steady, FrameInv
    <3>3. CASE pc = "update"
      BY <3>1, <3>3, <1>5 DEF Steady, ChainInv
    <3>4. CASE pc \in {"extract", "chain"}
      BY <3>1, <3>4, <1>5 DEF Steady, ChainInv
    <3>5. CASE pc = "render"
      BY <3>1, <3>5, <1>5 DEF Steady, ChainInv
    <3>6. CASE pc \in {"wait", "spin"}
      BY <3>1, <3>2, <3>6, <1>5 DEF Steady, ChainInv
    <3> QED
      BY <2>2, <3>3, <3>4, <3>5, <3>6 DEF Steady, ChainInv
  <2> QED
    BY <2>1, <2>2
<1> QED
  BY <1>3, <1>4, <1>6

(* What JobBuilder's invariant says here. *)
LEMMA JobFacts ==
  ASSUME JP!Inv
  PROVE  /\ status \in [Job -> {"idle", "queued", "running", "finished"}]
         /\ dep \in [Job -> Counter \cup {NoCounter}] /\ acc \in [Job -> Counter \cup {NoCounter}]
         /\ accumulator \in [Builder -> Counter \cup {NoCounter}]
         /\ zero \in [Builder -> Counter \cup {NoCounter}]
         /\ phase \in [Builder -> {"none", "open", "waiting", "extracted"}]
         /\ stands \in [Counter -> SUBSET Job]
         /\ made \in Nat
         /\ \A b \in Builder : phase[b] # "none" => accumulator[b] \in Counter /\ zero[b] \in Counter
         /\ \A c \in Counter : counter[c] = 0 => \A j \in stands[c] : status[j] = "finished"
         /\ \A j \in Job : status[j] \in {"running", "finished"} =>
              \A i \in stands[dep[j]] : status[i] = "finished"
<1>1. JP!TypeOK /\ JP!OwnerInv /\ JP!StartsInOrder
  BY DEF JP!Inv, JP!OrderInv
<1>2. JP!ZeroMeansDone
  BY BuilderAssumptions, JP!ZeroInInv
<1>3. made \in Nat /\ 1 .. made \subseteq Counter
  BY <1>1, FramesFinite DEF JP!TypeOK, Counter
<1>4. \A b \in Builder : phase[b] # "none" => accumulator[b] \in Counter /\ zero[b] \in Counter
  BY <1>1, <1>3 DEF JP!OwnerInv
<1> QED
  BY <1>1, <1>2, <1>3, <1>4 DEF JP!TypeOK, JP!PoolTypeOK, JP!Status, JP!Phase, JP!ZeroMeansDone,
     JP!StartsInOrder, JP!Finished

-----------------------------------------------------------------------------
(* The steps beside the main thread. *)

(* No job is pending once the parts are deleted, and none becomes so. *)
LEMMA NothingLeft ==
  ASSUME MainType, FrameInv, LoadInv, DeletedInv, pc \in Deleting
  PROVE  /\ \A j \in Job : status[j] \notin {"queued", "running"}
         /\ ~(frame \in Frame /\ Rendering)
         /\ \A m \in Asset : phase[LoadJob(m)] # "none" => status[LoadJob(m)] # "idle"
<1>1. ~(frame \in Frame /\ Rendering)
  BY Members DEF FrameInv, Settled, Done, Rendering
<1> QED
  BY <1>1 DEF LoadInv, DeletedInv

(* A load is asked for, or dispatched. *)
LEMMA LoadStep ==
  ASSUME IInv, NEW m \in Asset, RequestLoad(m) \/ DispatchLoad(m)
  PROVE  Steady /\ LoadInv' /\ DeletedInv' /\ MainType'
<1>1. UNCHANGED <<pc, frame, todo, buttons, alive>> /\ LoadJob(m) \in Builder /\ LoadJob(m) \in Job
  BY Members DEF RequestLoad, DispatchLoad, mainVars
<1>2. MainType'
  BY <1>1 DEF IInv, MainType
<1>3. CASE RequestLoad(m)
  <2>1. /\ phase[LoadJob(m)] = "none" /\ phase' = [phase EXCEPT ![LoadJob(m)] = "open"]
        /\ accumulator' = [accumulator EXCEPT ![LoadJob(m)] = made + 1]
        /\ zero' = [zero EXCEPT ![LoadJob(m)] = made + 2]
        /\ status' = status /\ dep' = dep /\ stands' = stands
        /\ frame > 0 /\ Rendering
    BY <1>3 DEF RequestLoad, JB!New, JB!poolVars
  <2>2. Steady
    BY <1>1, <2>1, Names, Members DEF Steady
  <2>3. frame \in Frame
    BY <2>1, EngineAssumption DEF IInv, MainType, Frame
  <2>4. LoadInv'
    BY <1>1, <2>1, <2>3 DEF LoadInv, Rendering
  <2>5. pc \notin Deleting
    BY <2>1, <2>3, NothingLeft DEF IInv
  <2> QED
    BY <1>1, <1>2, <2>2, <2>4, <2>5 DEF IInv, DeletedInv
<1>4. CASE DispatchLoad(m)
  <2> DEFINE b == LoadJob(m)
  <2>1. /\ status[b] = "idle" /\ status' = [status EXCEPT ![b] = "queued"]
        /\ phase[b] = "open" /\ phase' = phase
        /\ dep' = [dep EXCEPT ![b] = zero[b]]
        /\ stands' = [stands EXCEPT ![accumulator[b]] = @ \cup {b} \cup stands[zero[b]]]
        /\ zero' = [zero EXCEPT ![b] = accumulator[b]]
        /\ accumulator' = [accumulator EXCEPT ![b] = made + 1]
    BY <1>4 DEF DispatchLoad, JB!Dispatch, JB!SubmitTo, JB!Submit, JB!ExplicitFence, JB!OpenGroup
  <2>2. \A f \in Frame : b \notin World(f) /\ b # FrameBuilder(f) /\ b # UpdateBuilder(f)
    BY Names
  <2> HIDE DEF b
  <2>3. \A f \in Frame : \A j \in World(f) : status'[j] = status[j] /\ dep'[j] = dep[j]
    BY <2>1, <2>2, Members, JobFacts DEF IInv
  <2>4. \A f \in Frame :
          /\ accumulator'[UpdateBuilder(f)] = accumulator[UpdateBuilder(f)]
          /\ zero'[UpdateBuilder(f)] = zero[UpdateBuilder(f)]
          /\ zero'[FrameBuilder(f)] = zero[FrameBuilder(f)]
    BY <2>1, <2>2, Members, JobFacts DEF IInv
  <2>5. \A c \in Counter : stands[c] \subseteq stands'[c]
    BY <2>1, JobFacts DEF IInv
  <2>6. Steady
    BY <1>1, <2>3, <2>4, <2>5 DEF Steady
  <2>7. pc \notin Deleting
    BY <2>1, NothingLeft DEF IInv, b
  <2>8. LoadInv'
    <3> SUFFICES ASSUME NEW n \in Asset, phase'[LoadJob(n)] # "none", status'[LoadJob(n)] = "idle"
                 PROVE  frame' \in Frame /\ Rendering'
      BY DEF LoadInv
    <3>1. phase[LoadJob(n)] # "none" /\ status[LoadJob(n)] = "idle"
      BY <2>1, JobFacts, Members DEF IInv, b
    <3>2. frame \in Frame /\ Rendering
      BY <3>1 DEF IInv, LoadInv
    <3> QED
      BY <1>1, <2>3, <3>2, Members DEF Rendering
  <2> QED
    BY <1>1, <1>2, <2>6, <2>7, <2>8 DEF IInv, DeletedInv
<1> QED
  BY <1>3, <1>4

(* A worker starts a job, or the job returns. *)
LEMMA WorkStep ==
  ASSUME IInv, NEW j \in Job, Start(j) \/ Finish(j)
  PROVE  Steady /\ LoadInv' /\ DeletedInv' /\ MainType'
<1>1. /\ UNCHANGED <<pc, frame, todo, buttons, alive, accumulator, zero, phase, stands>>
      /\ dep' = dep
      /\ status[j] \in {"queued", "running"}
      /\ \/ status[j] = "queued" /\ status' = [status EXCEPT ![j] = "running"]
         \/ status[j] = "running" /\ status' = [status EXCEPT ![j] = "finished"]
  BY DEF Start, Finish, JB!Start, JB!Finish, mainVars
<1>2. MainType'
  BY <1>1 DEF IInv, MainType
<1>3. \A i \in Job : /\ status[i] = "idle" <=> status'[i] = "idle"
                     /\ status[i] = "finished" => status'[i] = "finished"
  BY <1>1, JobFacts DEF IInv
<1>4. Steady
  BY <1>1, <1>3, Members DEF Steady
<1>5. pc \notin Deleting
  BY <1>1, NothingLeft DEF IInv
<1>6. LoadInv'
  <2> SUFFICES ASSUME NEW n \in Asset, phase'[LoadJob(n)] # "none", status'[LoadJob(n)] = "idle"
               PROVE  frame' \in Frame /\ Rendering'
    BY DEF LoadInv
  <2>1. phase[LoadJob(n)] # "none" /\ status[LoadJob(n)] = "idle"
    BY <1>1, <1>3, Members
  <2>2. frame \in Frame /\ Rendering
    BY <2>1 DEF IInv, LoadInv
  <2>3. j # RenderJob(frame)
    <3>1. CASE Start(j)
      BY <2>2, <3>1 DEF Start, JB!Start, Rendering
    <3>2. CASE Finish(j)
      BY <2>1, <2>2, <3>2 DEF Finish
    <3> QED
      BY <3>1, <3>2
  <2> QED
    BY <1>1, <2>2, <2>3, Members, JobFacts DEF Rendering, IInv
<1> QED
  BY <1>1, <1>2, <1>4, <1>5, <1>6 DEF IInv, DeletedInv

(* An event is polled. *)
LEMMA EventStep ==
  ASSUME IInv, PollEvent
  PROVE  Steady /\ LoadInv' /\ DeletedInv' /\ MainType'
<1>1. UNCHANGED jobVars /\ UNCHANGED <<pc, frame, todo, alive>>
  BY DEF PollEvent
<1>2. buttons' \in [{"Quit", "Escape"} -> {"Up", "Down"}]
  BY DEF PollEvent, IInv, MainType
<1> QED
  BY <1>1, <1>2 DEF jobVars, Steady, IInv, MainType, LoadInv, Rendering, DeletedInv

-----------------------------------------------------------------------------
(* The steps of the main thread. *)

Rest == PastInv /\ FrameInv /\ ChainInv /\ LoadInv /\ DeletedInv /\ MainType

(* It turns to the next statement; the jobs stay, the frame too. *)
LEMMA TurnKeeps ==
  ASSUME IInv, UNCHANGED <<status, frame, alive>>, pc \notin Deleting, pc' \notin Deleting,
         MainType', FrameInv', ChainInv',
         \A m \in Asset : phase'[LoadJob(m)] = phase[LoadJob(m)]
  PROVE  Rest'
<1>1. PastInv'
  BY DEF IInv, PastInv, Done, Idle
<1>2. LoadInv'
  BY DEF IInv, LoadInv, Rendering
<1>3. DeletedInv'
  BY DEF IInv, DeletedInv
<1> QED
  BY <1>1, <1>2, <1>3 DEF Rest

(* A new frame: the last one is done. *)
LEMMA BeginFrameKeeps == ASSUME IInv, BeginFrame PROVE Rest'
<1>1. /\ pc = "test" /\ pc' = "events" /\ frame' = frame + 1 /\ frame < MaxFrames
      /\ status' = status /\ UNCHANGED <<todo, buttons, alive>>
      /\ phase' = [phase EXCEPT ![FrameBuilder(frame + 1)] = "open"]
  BY DEF BeginFrame, Goto, JB!New, JB!poolVars
<1>2. frame \in Nat /\ frame' \in Frame /\ MaxFrames \in Nat
  BY <1>1, EngineAssumption DEF IInv, MainType, Frame
<1>3. MainType'
  BY <1>1, <1>2 DEF IInv, MainType, PC, Frame
<1>4. frame \in Frame => Done(World(frame))
  BY <1>1 DEF IInv, FrameInv, Settled
<1>5. PastInv'
  <2> SUFFICES ASSUME NEW f \in Frame
               PROVE  /\ f < frame + 1 => Done(World(f))
                      /\ f > frame + 1 => Idle(World(f))
    BY <1>1 DEF PastInv, Done, Idle
  <2>1. f \in Nat /\ (f < frame + 1 => f < frame \/ f = frame) /\ (f > frame + 1 => f > frame)
    BY <1>2 DEF Frame
  <2> QED
    BY <1>4, <2>1 DEF IInv, PastInv
<1>6. FrameInv'
  <2>1. frame' > frame
    BY <1>1, <1>2
  <2>2. Idle(World(frame'))
    BY <1>2, <2>1 DEF IInv, PastInv
  <2> QED
    BY <1>1, <1>2, <2>2 DEF FrameInv, Settled, Deleting, Idle
<1>7. ChainInv'
  BY <1>1 DEF ChainInv
<1>8. LoadInv'
  <2>1. ~(frame \in Frame /\ Rendering)
    BY <1>4, Members DEF Done, Rendering
  <2>2. \A m \in Asset : phase'[LoadJob(m)] = phase[LoadJob(m)]
    BY <1>1, <1>2, Names, Members, JobFacts DEF IInv
  <2> QED
    BY <1>1, <2>1, <2>2 DEF IInv, LoadInv
<1>9. DeletedInv'
  BY <1>1 DEF IInv, DeletedInv, Deleting
<1> QED
  BY <1>3, <1>5, <1>6, <1>7, <1>8, <1>9 DEF Rest

(* What the main thread knows of its frame at a statement of the loop. *)
LEMMA InFrame ==
  ASSUME IInv, pc \notin Settled
  PROVE  /\ frame \in Frame /\ pc \notin Deleting
         /\ FrameBuilder(frame) \in Builder /\ UpdateBuilder(frame) \in Builder
         /\ FrameBuilder(frame) # UpdateBuilder(frame)
         /\ \A m \in Asset : /\ LoadJob(m) # FrameBuilder(frame) /\ LoadJob(m) # UpdateBuilder(frame)
                             /\ LoadJob(m) \in Builder
BY Names, Members DEF IInv, FrameInv, Settled

(* The update builder is made. *)
LEMMA EventsDoneKeeps == ASSUME IInv, EventsDone PROVE Rest'
<1>1. /\ pc = "events" /\ pc' = "update" /\ todo' = Object
      /\ UNCHANGED <<frame, buttons, alive, status, stands>>
      /\ accumulator' = [accumulator EXCEPT ![UpdateBuilder(frame)] = made + 1]
      /\ phase' = [phase EXCEPT ![UpdateBuilder(frame)] = "open"]
      /\ made + 2 <= MaxCounter
  BY DEF EventsDone, Goto, JB!New, JB!poolVars
<1>2. pc \notin Settled
  BY <1>1 DEF Settled, Deleting
<1>3. MainType'
  BY <1>1 DEF IInv, MainType, PC
<1>4. FrameInv'
  BY <1>1, <1>2, Members DEF IInv, FrameInv, Settled, Deleting, Idle
<1>5. made + 1 \in Counter /\ accumulator'[UpdateBuilder(frame)] = made + 1
  BY <1>1, <1>2, InFrame, JobFacts, FramesFinite DEF IInv, Counter
<1>6. ChainInv'
  BY <1>1, <1>5 DEF ChainInv, Covers
<1>7. \A m \in Asset : phase'[LoadJob(m)] = phase[LoadJob(m)]
  BY <1>1, <1>2, InFrame, JobFacts DEF IInv
<1> QED
  BY <1>1, <1>2, <1>3, <1>4, <1>6, <1>7, InFrame, TurnKeeps DEF Deleting

(* An object gets its update job: the accumulator covers it. *)
LEMMA UpdateObjectKeeps == ASSUME IInv, NEW o \in Object, UpdateObject(o) PROVE Rest'
<1> DEFINE j == <<"update", frame, o>>
           a == accumulator[UpdateBuilder(frame)]
<1>1. /\ pc = "update" /\ UNCHANGED <<pc, frame, buttons, alive, accumulator, zero, phase>>
      /\ todo' = todo \ {o}
      /\ status[j] = "idle" /\ status' = [status EXCEPT ![j] = "queued"]
      /\ stands' = [stands EXCEPT ![a] = @ \cup {j} \cup stands[zero[UpdateBuilder(frame)]]]
  BY DEF UpdateObject, JB!DispatchNow, JB!SubmitTo, JB!Submit, JB!builderVars
<1>2. frame \in Frame /\ pc \notin Settled /\ pc \notin Deleting /\ pc' \notin Deleting
  BY <1>1, InFrame DEF Settled, Deleting
<1>3. MainType'
  BY <1>1 DEF IInv, MainType
<1>4. j \in World(frame) /\ j \in Job /\ j # RenderJob(frame) /\ j \in UpdateJob(frame)
  BY <1>2, Names, Members
<1>5. status'[RenderJob(frame)] = status[RenderJob(frame)]
  BY <1>1, <1>2, <1>4, Members, JobFacts DEF IInv
<1> HIDE DEF j
<1>6. FrameInv'
  BY <1>1, <1>2, <1>5 DEF IInv, FrameInv, Settled, Deleting
<1>7. PastInv'
  <2> SUFFICES ASSUME NEW f \in Frame
               PROVE  /\ f < frame => Done(World(f))'
                      /\ f > frame => Idle(World(f))'
    BY <1>1 DEF PastInv
  <2>1. f < frame \/ f > frame => j \notin World(f)
    <3>1. f < frame \/ f > frame => f # frame
      BY <1>2 DEF Frame
    <3> QED
      BY <1>2, <1>4, <3>1, Names
  <2>2. j \notin World(f) => \A i \in World(f) : status'[i] = status[i]
    BY <1>1, Members, JobFacts DEF IInv
  <2> QED
    BY <2>1, <2>2 DEF IInv, PastInv, Done, Idle
<1>8. ChainInv'
  <2>1. Covers(a, {<<"update", frame, p>> : p \in Object \ todo})
    BY <1>1 DEF IInv, ChainInv
  <2>2. stands'[a] = stands[a] \cup {j} \cup stands[zero[UpdateBuilder(frame)]]
    BY <1>1, <2>1, JobFacts DEF IInv, Covers
  <2>3. \A p \in Object \ todo' : <<"update", frame, p>> \in stands'[a]
    BY <1>1, <2>1, <2>2 DEF Covers, j
  <2>4. accumulator'[UpdateBuilder(frame')] = a /\ frame' = frame
    BY <1>1
  <2>5. Covers(accumulator[UpdateBuilder(frame)], {<<"update", frame, p>> : p \in Object \ todo})'
    BY <2>1, <2>3, <2>4 DEF Covers
  <2> QED
    BY <1>1, <2>5 DEF ChainInv
<1>9. LoadInv'
  <2>1. \A m \in Asset : status'[LoadJob(m)] = status[LoadJob(m)]
    BY <1>1, <1>2, <1>4, Names, Members, JobFacts DEF IInv
  <2> QED
    BY <1>1, <1>5, <2>1 DEF IInv, LoadInv, Rendering
<1>10. DeletedInv'
  BY <1>1, <1>2 DEF IInv, DeletedInv
<1> QED
  BY <1>3, <1>6, <1>7, <1>8, <1>9, <1>10 DEF Rest

(* The fence: the zero counter is the accumulator now. *)
LEMMA FenceUpdatesKeeps == ASSUME IInv, FenceUpdates PROVE Rest'
<1>1. /\ pc = "update" /\ pc' = "extract" /\ todo = {}
      /\ UNCHANGED <<frame, todo, buttons, alive, status, stands, phase>>
      /\ zero' = [zero EXCEPT ![UpdateBuilder(frame)] = accumulator[UpdateBuilder(frame)]]
  BY DEF FenceUpdates, Goto, JB!DispatchWait, JB!ExplicitFence, JB!OpenGroup, JB!poolVars
<1>2. pc \notin Settled
  BY <1>1 DEF Settled, Deleting
<1>3. MainType'
  BY <1>1 DEF IInv, MainType, PC
<1>4. FrameInv'
  BY <1>1, <1>2 DEF IInv, FrameInv, Settled, Deleting
<1>5. zero'[UpdateBuilder(frame)] = accumulator[UpdateBuilder(frame)]
  BY <1>1, <1>2, InFrame, JobFacts DEF IInv
<1>6. Covers(accumulator[UpdateBuilder(frame)], UpdateJob(frame))
  BY <1>1 DEF IInv, ChainInv, UpdateJob
<1>7. ChainInv'
  BY <1>1, <1>5, <1>6 DEF ChainInv, Covers
<1> QED
  BY <1>1, <1>2, <1>3, <1>4, <1>7, InFrame, TurnKeeps DEF Deleting

(* The counter of the updates is handed over. *)
LEMMA ReturnCounterKeeps == ASSUME IInv, ReturnCounter PROVE Rest'
<1>1. /\ pc = "extract" /\ pc' = "chain"
      /\ UNCHANGED <<frame, todo, buttons, alive, status, stands, zero>>
      /\ phase' = [phase EXCEPT ![UpdateBuilder(frame)] = "extracted"]
  BY DEF ReturnCounter, Goto, JB!ExtractCounter, JB!poolVars
<1>2. pc \notin Settled
  BY <1>1 DEF Settled, Deleting
<1>3. MainType'
  BY <1>1 DEF IInv, MainType, PC
<1>4. FrameInv'
  BY <1>1, <1>2 DEF IInv, FrameInv, Settled, Deleting
<1>5. ChainInv'
  BY <1>1 DEF IInv, ChainInv, Covers
<1>6. \A m \in Asset : phase'[LoadJob(m)] = phase[LoadJob(m)]
  BY <1>1, <1>2, InFrame, JobFacts DEF IInv
<1> QED
  BY <1>1, <1>2, <1>3, <1>4, <1>5, <1>6, InFrame, TurnKeeps DEF Deleting

(* The frame's builder waits for it. *)
LEMMA ChainFrameKeeps == ASSUME IInv, ChainFrame PROVE Rest'
<1>1. /\ pc = "chain" /\ pc' = "render"
      /\ UNCHANGED <<frame, todo, buttons, alive, status, stands, phase>>
      /\ zero' = [zero EXCEPT ![FrameBuilder(frame)] = zero[UpdateBuilder(frame)]]
  BY DEF ChainFrame, Goto, JB!DispatchWaitOn, JB!OpenGroup, JB!poolVars
<1>2. pc \notin Settled
  BY <1>1 DEF Settled, Deleting
<1>3. MainType'
  BY <1>1 DEF IInv, MainType, PC
<1>4. FrameInv'
  BY <1>1, <1>2 DEF IInv, FrameInv, Settled, Deleting
<1>5. zero'[FrameBuilder(frame)] = zero[UpdateBuilder(frame)]
  BY <1>1, <1>2, InFrame, JobFacts DEF IInv
<1>6. Covers(zero[UpdateBuilder(frame)], UpdateJob(frame))
  BY <1>1 DEF IInv, ChainInv
<1>7. ChainInv'
  BY <1>1, <1>5, <1>6 DEF ChainInv, Covers
<1> QED
  BY <1>1, <1>2, <1>3, <1>4, <1>7, InFrame, TurnKeeps DEF Deleting

(* The render job waits for what covers the updates; the fence after it covers
   both. *)
LEMMA DispatchRenderKeeps == ASSUME IInv, DispatchRender PROVE Rest'
<1> DEFINE j == RenderJob(frame)
           a == accumulator[FrameBuilder(frame)]
           z == zero[FrameBuilder(frame)]
<1>1. /\ pc = "render" /\ pc' = "wait" /\ UNCHANGED <<frame, todo, buttons, alive, phase>>
      /\ phase[FrameBuilder(frame)] = "open"
      /\ status[j] = "idle" /\ status' = [status EXCEPT ![j] = "queued"]
      /\ dep' = [dep EXCEPT ![j] = z]
      /\ stands' = [stands EXCEPT ![a] = @ \cup {j} \cup stands[z]]
      /\ zero' = [zero EXCEPT ![FrameBuilder(frame)] = a]
  BY DEF DispatchRender, Goto, JB!Dispatch, JB!SubmitTo, JB!Submit, JB!ExplicitFence, JB!OpenGroup
<1>2. /\ frame \in Frame /\ pc \notin Deleting /\ pc' \notin Deleting
      /\ FrameBuilder(frame) \in Builder
  BY <1>1, InFrame DEF Settled, Deleting
<1>3. MainType'
  BY <1>1 DEF IInv, MainType, PC
<1>4. j \in Job /\ j \in World(frame) /\ UpdateJob(frame) \cup {j} = World(frame)
  BY <1>2, Members DEF World
<1>5. /\ a \in Counter /\ dep'[j] = z /\ status'[j] = "queued"
      /\ zero'[FrameBuilder(frame)] = a
      /\ stands'[a] = stands[a] \cup {j} \cup stands[z]
      /\ \A c \in Counter : stands[c] \subseteq stands'[c]
  BY <1>1, <1>2, <1>4, JobFacts DEF IInv
<1>6. ASSUME NEW f \in Frame, f # frame PROVE \A i \in World(f) : status'[i] = status[i]
  <2>1. j \notin World(f)
    BY <1>2, <1>4, <1>6, Names
  <2> QED
    BY <1>1, <2>1, Members, JobFacts DEF IInv
<1>7. ~Rendering /\ \A m \in Asset : status'[LoadJob(m)] = status[LoadJob(m)]
  BY <1>1, <1>2, <1>4, Names, Members, JobFacts DEF IInv, Rendering
<1>8. Covers(z, UpdateJob(frame))
  BY <1>1 DEF IInv, ChainInv
<1> HIDE DEF j
<1>9. FrameInv'
  BY <1>1, <1>2, <1>5 DEF FrameInv, Settled, Deleting, j
<1>10. PastInv'
  <2> SUFFICES ASSUME NEW f \in Frame
               PROVE  /\ f < frame => Done(World(f))'
                      /\ f > frame => Idle(World(f))'
    BY <1>1 DEF PastInv
  <2>1. f < frame \/ f > frame => f # frame
    BY <1>2 DEF Frame
  <2> QED
    BY <1>6, <2>1 DEF IInv, PastInv, Done, Idle
<1>11. ChainInv'
  <2>1. Covers(z, UpdateJob(frame))'
    BY <1>1, <1>5, <1>8 DEF Covers
  <2>2. stands'[z] = stands[z] \cup (stands'[z] \ stands[z])
    BY <1>5, <1>8 DEF Covers
  <2>3. UpdateJob(frame) \subseteq stands'[z] /\ World(frame) \subseteq stands'[a]
    BY <1>4, <1>5, <1>8, <2>2 DEF Covers
  <2>4. /\ dep'[RenderJob(frame')] = z /\ zero'[FrameBuilder(frame')] = a /\ frame' = frame
        /\ z \in Counter
    BY <1>1, <1>5, <1>8 DEF j, Covers
  <2>5. /\ Covers(dep[RenderJob(frame)], UpdateJob(frame))'
        /\ Covers(zero[FrameBuilder(frame)], World(frame))'
    BY <1>5, <2>3, <2>4 DEF Covers
  <2> QED
    BY <1>1, <2>5 DEF ChainInv
<1>12. LoadInv'
  BY <1>1, <1>7 DEF IInv, LoadInv
<1>13. DeletedInv'
  BY <1>1, <1>2 DEF IInv, DeletedInv
<1> QED
  BY <1>3, <1>9, <1>10, <1>11, <1>12, <1>13 DEF Rest

(* WaitAll begins, and returns at zero: what the counter covers is done. *)
LEMMA WaitKeeps == ASSUME IInv, WaitAll \/ WaitAllReturn PROVE Rest'
<1>1. /\ \/ pc = "wait" /\ pc' = "spin"
         \/ pc = "spin" /\ pc' = "stats" /\ counter[zero[FrameBuilder(frame)]] = 0
      /\ UNCHANGED <<frame, todo, buttons, alive, status, stands, zero, dep>>
      /\ \E p \in {"open", "waiting"} : phase' = [phase EXCEPT ![FrameBuilder(frame)] = p]
  BY DEF WaitAll, WaitAllReturn, Goto, JB!WaitAll, JB!WaitAllReturn, JB!poolVars
<1>2. pc \notin Settled /\ pc' \notin Deleting
  BY <1>1 DEF Settled, Deleting
<1>3. MainType'
  BY <1>1 DEF IInv, MainType, PC
<1>4. pc' = "stats" => Done(World(frame))
  <2>1. Covers(zero[FrameBuilder(frame)], World(frame))
    BY <1>1 DEF IInv, ChainInv
  <2> QED
    BY <1>1, <2>1, JobFacts DEF IInv, Covers, Done
<1>5. FrameInv'
  BY <1>1, <1>2, <1>4 DEF IInv, FrameInv, Settled, Deleting, Done
<1>6. ChainInv'
  BY <1>1 DEF IInv, ChainInv, Covers
<1>7. \A m \in Asset : phase'[LoadJob(m)] = phase[LoadJob(m)]
  BY <1>1, <1>2, InFrame, JobFacts DEF IInv
<1> QED
  BY <1>1, <1>2, <1>3, <1>5, <1>6, <1>7, InFrame, TurnKeeps

(* Between frames. *)
LEMMA BetweenKeeps == ASSUME IInv, LeaveLoop \/ EndFrame PROVE Rest'
<1>1. /\ pc \in {"test", "stats"} /\ pc' \in {"test", "delete pool"}
      /\ UNCHANGED <<frame, todo, buttons, alive>> /\ UNCHANGED jobVars
  BY DEF LeaveLoop, EndFrame, Goto
<1>2. MainType'
  BY <1>1 DEF IInv, MainType, PC
<1>3. FrameInv' /\ ChainInv'
  BY <1>1 DEF IInv, FrameInv, ChainInv, Settled, Deleting, Done, jobVars
<1> QED
  BY <1>1, <1>2, <1>3, TurnKeeps DEF Deleting, jobVars

(* The pool is deleted when nothing is pending; the parts that jobs use after
   it. *)
LEMMA DeleteKeeps ==
  ASSUME IInv, DeletePool \/ DeleteRegistry \/ DeleteInput \/ DeleteRenderer \/ DeleteContext
  PROVE  Rest'
<1>1. /\ pc \in {"delete pool"} \cup Deleting /\ pc' \in Deleting
      /\ pc = "delete pool" => \A j \in Job : status[j] \notin {"queued", "running"}
      /\ alive' \subseteq alive
      /\ UNCHANGED <<frame, todo, buttons>> /\ UNCHANGED jobVars
  BY DEF DeletePool, DeleteRegistry, DeleteInput, DeleteRenderer, DeleteContext, Delete, Goto,
     Deleting, JB!Pending
<1>2. MainType'
  BY <1>1 DEF IInv, MainType, PC, Deleting
<1>3. FrameInv' /\ ChainInv' /\ PastInv'
  BY <1>1 DEF IInv, FrameInv, ChainInv, PastInv, Settled, Deleting, Done, Idle, jobVars
<1>4. LoadInv'
  BY <1>1 DEF IInv, LoadInv, Rendering, jobVars
<1>5. DeletedInv'
  BY <1>1 DEF IInv, DeletedInv, jobVars
<1> QED
  BY <1>2, <1>3, <1>4, <1>5 DEF Rest

-----------------------------------------------------------------------------
(* No frame has begun. *)
LEMMA InitInv == Init => IInv
<1> SUFFICES ASSUME Init PROVE IInv
  OBVIOUS
<1>1. JP!Init
  BY DEF Init, JB!Init, JP!Init, JB!PoolInit, JP!PoolInit
<1>2. JP!Inv
  BY <1>1, BuilderAssumptions, JP!InitInv
<1>3. MainType
  BY EngineAssumption DEF Init, MainType, PC
<1>4. \A j \in Job : status[j] = "idle"
  BY DEF Init, JB!Init, JB!PoolInit
<1>5. \A f \in Frame : ~(f < 0) /\ f # 0
  BY DEF Frame
<1>6. PastInv /\ FrameInv
  BY <1>4, <1>5, Members DEF Init, PastInv, FrameInv, Settled, Idle
<1>7. ChainInv /\ DeletedInv
  BY DEF Init, ChainInv, DeletedInv, Deleting
<1>8. LoadInv
  BY Members DEF Init, JB!Init, LoadInv
<1> QED
  BY <1>2, <1>3, <1>6, <1>7, <1>8 DEF IInv

(* Every step preserves the invariant. *)
LEMMA StepInv == IInv /\ [Next]_vars => IInv'
<1> SUFFICES ASSUME IInv, [Next]_vars PROVE IInv'
  OBVIOUS
<1>1. JP!Inv'
  BY JobsKeep DEF IInv
<1>2. ASSUME Steady, LoadInv', DeletedInv', MainType' PROVE IInv'
  BY <1>1, <1>2, SteadyKeeps DEF IInv
<1>3. ASSUME Rest' PROVE IInv'
  BY <1>1, <1>3 DEF IInv, Rest
<1>4. CASE UNCHANGED vars
  <2>1. Steady /\ LoadInv' /\ DeletedInv' /\ MainType'
    BY <1>4 DEF vars, jobVars, Steady, IInv, LoadInv, Rendering, DeletedInv, MainType
  <2> QED
    BY <1>2, <2>1
<1>5. CASE Main
  <2>1. CASE BeginFrame \/ EventsDone
    BY <1>3, <2>1, BeginFrameKeeps, EventsDoneKeeps
  <2>2. CASE \E o \in Object : UpdateObject(o)
    BY <1>3, <2>2, UpdateObjectKeeps
  <2>3. CASE FenceUpdates \/ ReturnCounter \/ ChainFrame
    BY <1>3, <2>3, FenceUpdatesKeeps, ReturnCounterKeeps, ChainFrameKeeps
  <2>4. CASE DispatchRender \/ WaitAll \/ WaitAllReturn
    BY <1>3, <2>4, DispatchRenderKeeps, WaitKeeps
  <2>5. CASE LeaveLoop \/ EndFrame
    BY <1>3, <2>5, BetweenKeeps
  <2>6. CASE DeletePool \/ DeleteRegistry \/ DeleteInput \/ DeleteRenderer \/ DeleteContext
    BY <1>3, <2>6, DeleteKeeps
  <2> QED
    BY <1>5, <2>1, <2>2, <2>3, <2>4, <2>5, <2>6 DEF Main
<1>6. CASE PollEvent
  BY <1>2, <1>6, EventStep
<1>7. CASE \E m \in Asset : RequestLoad(m) \/ DispatchLoad(m)
  BY <1>2, <1>7, LoadStep
<1>8. CASE \E j \in Job : Start(j) \/ Finish(j)
  BY <1>2, <1>8, WorkStep
<1> QED
  BY <1>4, <1>5, <1>6, <1>7, <1>8 DEF Next

(* It holds in every reachable state. *)
LEMMA Invariant == Spec => []IInv
BY InitInv, StepInv, PTL DEF Spec

-----------------------------------------------------------------------------
(* Types, for any number of objects, assets and frames. *)
THEOREM EngineType == Spec => []TypeOK
<1>1. JP!TypeOK => JB!TypeOK
  BY DEF JP!TypeOK, JB!TypeOK, JP!PoolTypeOK, JB!PoolTypeOK, JP!Status, JB!Status,
     JP!Phase, JB!Phase
<1>2. IInv => TypeOK
  BY <1>1 DEF IInv, MainType, TypeOK, JP!Inv
<1> QED
  BY <1>2, Invariant, PTL

(* A frame's render job runs only when the updates of the frame and all earlier
   frames are done. *)
LEMMA RenderedInOrder ==
  ASSUME IInv, NEW f \in Frame, status[RenderJob(f)] \in {"running", "finished"}
  PROVE  /\ \A j \in UpdateJob(f) : status[j] = "finished"
         /\ \A g \in Frame : g < f => Done(World(g))
<1>1. RenderJob(f) \in World(f) /\ UpdateJob(f) \subseteq World(f) /\ RenderJob(f) \in Job
  BY Members
<1>2. f \in Nat /\ frame \in Nat
  BY EngineAssumption DEF Frame, IInv, MainType
<1>3. ~(f > frame)
  BY <1>1 DEF IInv, PastInv, Idle
<1>4. \A g \in Frame : g < f => g < frame
  BY <1>2, <1>3 DEF Frame
<1>5. CASE f < frame
  BY <1>1, <1>4, <1>5 DEF IInv, PastInv, Done
<1>6. CASE f = frame
  <2>1. CASE pc \in Settled
    BY <1>1, <1>4, <1>6, <2>1 DEF IInv, FrameInv, PastInv, Done
  <2>2. CASE pc \notin Settled
    <3>1. pc \in {"wait", "spin"}
      BY <1>1, <1>6, <2>2 DEF IInv, MainType, PC, FrameInv, Settled, Deleting, Idle
    <3>2. UpdateJob(f) \subseteq stands[dep[RenderJob(f)]]
      BY <1>6, <3>1 DEF IInv, ChainInv, Covers
    <3> QED
      BY <1>1, <1>4, <1>6, <3>2, JobFacts DEF IInv, PastInv
  <2> QED
    BY <2>1, <2>2
<1> QED
  BY <1>2, <1>3, <1>5, <1>6

(* A frame is drawn from a world that all of its objects have updated, after
   the frames before it: Execute's fence, the counter it returns and Run's
   DispatchWait on it are a chain, and a render job stands at its end. *)
THEOREM DrawnInOrder == Spec => []DrawnAfterUpdates
<1>1. ASSUME IInv PROVE DrawnAfterUpdates
  <2> SUFFICES ASSUME NEW f \in Frame, status[RenderJob(f)] \in {"running", "finished"}
               PROVE  /\ UpdateJob(f) \subseteq JB!Finished
                      /\ \A g \in 1 .. f - 1 : RenderJob(g) \in JB!Finished
    BY DEF DrawnAfterUpdates
  <2>1. UpdateJob(f) \subseteq JB!Finished
    BY <1>1, RenderedInOrder, Members DEF JB!Finished
  <2>2. ASSUME NEW g \in 1 .. f - 1 PROVE RenderJob(g) \in JB!Finished
    <3>1. g \in Frame /\ g < f
      BY EngineAssumption DEF Frame
    <3> QED
      BY <1>1, <3>1, RenderedInOrder, Members DEF JB!Finished, Done
  <2> QED
    BY <2>1, <2>2
<1> QED
  BY <1>1, Invariant, PTL

(* The world has one user at a time, without a lock: the main thread is back
   from WaitAll before it polls events, writes the camera or begins a frame. *)
THEOREM OneUserOfTheWorld == Spec => []WorldExclusive
<1>1. ASSUME IInv PROVE WorldExclusive
  <2>1. ~(Running(Updates) /\ Running(Renders))
    <3> SUFFICES ASSUME NEW f \in Frame, NEW j \in UpdateJob(f), status[j] = "running",
                        NEW g \in Frame, status[RenderJob(g)] = "running"
                 PROVE  FALSE
      BY DEF Running, Updates, Renders
    <3>1. j \in World(f) /\ RenderJob(g) \in World(g)
      BY Members
    <3>2. f \in Nat /\ g \in Nat /\ frame \in Nat
      BY <1>1, EngineAssumption DEF Frame, IInv, MainType
    <3>3. f = frame /\ g = frame
      BY <1>1, <3>1, <3>2 DEF IInv, PastInv, Done, Idle
    <3> QED
      BY <1>1, <3>3, RenderedInOrder
  <2>2. ASSUME pc \in {"test", "events", "stats"}, NEW f \in Frame, NEW j \in World(f)
        PROVE  j \notin JB!Pending
    <3>1. f \in Nat /\ frame \in Nat
      BY <1>1, EngineAssumption DEF Frame, IInv, MainType
    <3>2. Done(World(f)) \/ Idle(World(f))
      <4>1. CASE f = frame
        BY <1>1, <2>2, <4>1 DEF IInv, FrameInv, Settled
      <4>2. CASE f < frame \/ f > frame
        BY <1>1, <4>2 DEF IInv, PastInv
      <4> QED
        BY <3>1, <4>1, <4>2
    <3> QED
      BY <3>2 DEF Done, Idle, JB!Pending
  <2>3. \A j \in WorldJobs : \E f \in Frame : j \in World(f)
    BY DEF WorldJobs, Updates, Renders, World
  <2> QED
    BY <2>1, <2>2, <2>3 DEF WorldExclusive
<1> QED
  BY <1>1, Invariant, PTL

(* No job is left that could use a part of the engine after its deletion: the
   pool goes first, and joins the loads that no frame has waited for. *)
THEOREM PartsOutliveJobs == Spec => []UsesAlive
<1>1. ASSUME IInv PROVE UsesAlive
  <2>1. CASE pc \in Deleting
    BY <1>1, <2>1 DEF IInv, DeletedInv, UsesAlive, JB!Pending
  <2>2. CASE pc \notin Deleting
    <3>1. \A j : Uses(j) \subseteq Part
      BY DEF Uses, Part
    <3> QED
      BY <1>1, <2>2, <3>1 DEF IInv, DeletedInv, UsesAlive
  <2> QED
    BY <2>1, <2>2
<1> QED
  BY <1>1, Invariant, PTL

-----------------------------------------------------------------------------
(* What the main thread waits for, in Run and in Shutdown. *)
MainNeverStuck ==
  /\ pc = "spin" =>
       counter[zero[FrameBuilder(frame)]] = 0 \/ \E j \in Job : JP!CanRun(j)
  /\ pc = "delete pool" => JB!Pending = {} \/ \E j \in Job : JP!CanRun(j)

(* The main thread never waits for itself: while a frame's WaitAll spins, or the
   destructor of the pool joins, a job runs or can be started; loads of earlier
   frames, which no frame waits for, do not change that. *)
THEOREM MainNeverWaitsInVain == Spec => []MainNeverStuck
<1>1. Init => JP!RankInv
  BY DEF Init, JB!Init, JB!PoolInit, JP!RankInv
<1>2. IInv /\ JP!RankInv /\ [Next]_vars => JP!RankInv'
  BY JobStep, BuilderAssumptions, JP!RankStep DEF IInv
<1>3. ASSUME IInv, JP!RankInv PROVE MainNeverStuck
  <2>1. JP!Pending # {} => \E j \in Job : JP!CanRun(j)
    BY <1>3, BuilderAssumptions, JP!OldestCanRun DEF IInv
  <2>2. ASSUME pc = "spin", counter[zero[FrameBuilder(frame)]] # 0 PROVE JP!Pending # {}
    <3>1. zero[FrameBuilder(frame)] \in Counter
      BY <1>3, <2>2 DEF IInv, ChainInv, Covers
    <3> QED
      BY <1>3, <2>2, <3>1, BuilderAssumptions, JP!SomeoneCounted DEF IInv
  <2>3. JB!Pending = JP!Pending
    BY DEF JB!Pending, JP!Pending
  <2> QED
    BY <2>1, <2>2, <2>3 DEF MainNeverStuck
<1> QED
  BY <1>1, <1>2, <1>3, Invariant, PTL DEF Spec
=============================================================================
