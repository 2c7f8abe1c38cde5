-------------------------- MODULE RenderFrameProofs --------------------------
(***************************************************************************)
(* The safety properties of RenderFrame for any number of back buffers,    *)
(* frames, rebuilds of the swap chain, resources and lists.                *)
(***************************************************************************)
EXTENDS RenderFrame, TLAPS

-----------------------------------------------------------------------------
(* The inductive invariant. *)

BackBufferState == {"present", "target"}
Barriers == [buffer : Frame, before : BackBufferState, after : BackBufferState]
Command ==
  [op : {"exec"}, uses : SUBSET (Resource \cup List), barriers : SUBSET Barriers]
    \cup [op : {"signal"}, value : Nat]

Typed ==
  /\ TypeOK
  /\ queue \in Seq(Command)
  /\ pc = "stopwait" => turn < NumFrames

IsList(i) == queue[i].op = "exec"
IsSignal(i) == queue[i].op = "signal"
Idle == \A i \in DOMAIN queue : ~IsList(i)

(* No value is larger than the last that present or shutdown has counted;
   those of the frames are one larger at most, once the swap chain was
   rebuilt in this frame. *)
ValuesInv ==
  /\ fence <= fenceValue
  /\ \A i \in DOMAIN queue : IsSignal(i) => queue[i].value <= fenceValue
  /\ pc \in {"record", "resize"} => \A f \in Frame : frameFence[f] <= fenceValue + 1
  /\ pc \in {"wait", "begin"} => \A f \in Frame : frameFence[f] <= fenceValue
  /\ pc = "resize" => \A f \in Frame : f >= turn => frameFence[f] <= fenceValue
  /\ pc \in {"wait", "begin"} => frameFence[index] = fenceValue
  /\ pc = "stopwait" => frameFence[turn] = fenceValue

(* No list is behind a signal of the last value. *)
Behind ==
  /\ fence = fenceValue => Idle
  /\ \A i, j \in DOMAIN queue :
       i < j /\ IsSignal(i) /\ queue[i].value = fenceValue => ~IsList(j)

(* Hence who awaits it finds the GPU idle. *)
Awaiting == pc = "begin" \/ (pc = "stop" /\ turn > 0)

SyncInv ==
  /\ pc \in {"wait", "stopwait"} \/ Awaiting => Behind
  /\ Awaiting => /\ awaits = None => Idle
                 /\ awaits # None => awaits = fenceValue
  /\ pc \in {"resize", "down"} => Idle

(* A list of the GPU makes one back buffer a target, a later one makes it
   presentable again; the others are presentable all the time. *)
Open(o) == Barrier(o, "present", "target")
Close(o) == Barrier(o, "target", "present")
Opens(o, i) == IsList(i) /\ queue[i].barriers = {Open(o)}
Closes(o, i) == IsList(i) /\ queue[i].barriers = {Close(o)}
SomeOpens(o) == \E i \in DOMAIN queue : Opens(o, i)
SomeCloses(o) == \E i \in DOMAIN queue : Closes(o, i)

Ordered(o) ==
  /\ \A i \in DOMAIN queue : IsList(i) => queue[i].barriers \in {{}, {Open(o)}, {Close(o)}}
  /\ \A i, j \in DOMAIN queue : i < j /\ Opens(o, j) => ~Opens(o, i) /\ ~Closes(o, i)
  /\ \A i, j \in DOMAIN queue : i < j /\ Closes(o, i) => ~Opens(o, j) /\ ~Closes(o, j)

InState(o) ==
  /\ \A f \in Frame : f # o => backBuffer[f] = "present"
  /\ SomeOpens(o) => backBuffer[o] = "present"
  /\ SomeCloses(o) /\ ~SomeOpens(o) => backBuffer[o] = "target"
  /\ pc = "record" => /\ o = index /\ ~SomeCloses(o)
                      /\ ~SomeOpens(o) => backBuffer[o] = "target"
  /\ pc \in {"wait", "begin", "resize"} /\ ~SomeCloses(o) =>
       ~SomeOpens(o) /\ backBuffer[o] = "present"

BarrierInv == \E o \in Frame : Ordered(o) /\ InState(o)

(* What a frame uses is kept by a lock, or by its cache. *)
Kept(x) ==
  \/ \E f \in Frame : x \in locks[f] \cup listLocks[f]
  \/ x \in Cached /\ x \in held

UseInv ==
  /\ rendering => pc = "record"
  /\ ~rendering => recorded = {} /\ set = {}
  /\ \A s \in set : bound[s] \in locks[index]
  /\ \A x \in recorded : Kept(x)
  /\ \A i \in DOMAIN queue : IsList(i) => \A x \in queue[i].uses : Kept(x)
  /\ pc = "record" => \A i \in DOMAIN queue : IsList(i) => queue[i].uses \subseteq List
  /\ pc \in {"record", "stop", "stopwait"} /\ ~rendering =>
       \A i \in DOMAIN queue : IsList(i) => queue[i].uses = {}

IInv == Typed /\ ValuesInv /\ SyncInv /\ BarrierInv /\ UseInv

-----------------------------------------------------------------------------
(* The queue. *)

(* One command more at the end of the queue. *)
LEMMA AppendFacts ==
  ASSUME NEW s \in Seq(Command), NEW m \in Command
  PROVE  /\ Append(s, m) \in Seq(Command)
         /\ DOMAIN s = 1 .. Len(s) /\ Len(s) \in Nat
         /\ DOMAIN Append(s, m) = 1 .. Len(s) + 1
         /\ \A i \in 1 .. Len(s) : Append(s, m)[i] = s[i]
         /\ Append(s, m)[Len(s) + 1] = m
PROOF OBVIOUS

(* What present adds: the frame's list, and a signal behind it. *)
LEMMA AppendTwoFacts ==
  ASSUME NEW s \in Seq(Command), NEW m \in Command, NEW n \in Command
  PROVE  /\ s \o <<m>> \o <<n>> \in Seq(Command)
         /\ DOMAIN s = 1 .. Len(s) /\ Len(s) \in Nat
         /\ DOMAIN (s \o <<m>> \o <<n>>) = 1 .. Len(s) + 2
         /\ \A i \in 1 .. Len(s) : (s \o <<m>> \o <<n>>)[i] = s[i]
         /\ (s \o <<m>> \o <<n>>)[Len(s) + 1] = m
         /\ (s \o <<m>> \o <<n>>)[Len(s) + 2] = n
PROOF OBVIOUS

(* What a wait alone adds: no list before the signal. *)
LEMMA AppendSignal ==
  ASSUME NEW s \in Seq(Command), NEW n \in Command
  PROVE  s \o <<>> \o <<n>> = Append(s, n)
PROOF OBVIOUS

(* The GPU has taken the first command. *)
LEMMA TailFacts ==
  ASSUME NEW s \in Seq(Command), s # <<>>
  PROVE  /\ Tail(s) \in Seq(Command) /\ Head(s) \in Command /\ Head(s) = s[1]
         /\ Len(s) \in Nat \ {0}
         /\ DOMAIN s = 1 .. Len(s)
         /\ DOMAIN Tail(s) = 1 .. Len(s) - 1
         /\ \A i \in 1 .. Len(s) - 1 : Tail(s)[i] = s[i + 1]
PROOF OBVIOUS

(* A list of this module is a command, and so is a signal. *)
LEMMA ExecFacts ==
  ASSUME NEW u \in SUBSET (Resource \cup List), NEW b \in SUBSET Barriers
  PROVE  /\ Exec(u, b) \in Command /\ Exec(u, b).op = "exec"
         /\ Exec(u, b).uses = u /\ Exec(u, b).barriers = b
PROOF BY DEF Exec, Command

(* A signal is a command of its value. *)
LEMMA SignalFacts ==
  ASSUME NEW v \in Nat
  PROVE  /\ Signal(v) \in Command /\ Signal(v).op = "signal" /\ Signal(v).value = v
         /\ Signal(v).op # "exec"
PROOF BY DEF Signal, Command

(* The two barriers of a back buffer. *)
LEMMA BarrierFacts ==
  ASSUME NEW o \in Frame
  PROVE  /\ Open(o) \in Barriers /\ Close(o) \in Barriers /\ Open(o) # Close(o)
         /\ Open(o).buffer = o /\ Open(o).before = "present" /\ Open(o).after = "target"
         /\ Close(o).buffer = o /\ Close(o).before = "target" /\ Close(o).after = "present"
PROOF BY DEF Open, Close, Barrier, Barriers, BackBufferState

(* The lists that this module submits: one of a caller, a prologue, a frame's. *)
LEMMA ListFacts ==
  ASSUME NEW l \in List
  PROVE  /\ Exec({l}, {}) \in Command /\ Exec({l}, {}).op = "exec"
         /\ Exec({l}, {}).uses = {l} /\ Exec({l}, {}).barriers = {}
PROOF
<1>1. {l} \in SUBSET (Resource \cup List) /\ {} \in SUBSET Barriers
  OBVIOUS
<1> QED BY <1>1, ExecFacts

(* The prologue's list is a command. *)
LEMMA PrologueFacts ==
  ASSUME NEW f \in Frame
  PROVE  /\ Exec({}, {Open(f)}) \in Command /\ Exec({}, {Open(f)}).op = "exec"
         /\ Exec({}, {Open(f)}).uses = {} /\ Exec({}, {Open(f)}).barriers = {Open(f)}
         /\ Prologue(f) = Append(queue, Exec({}, {Open(f)}))
PROOF
<1>1. {} \in SUBSET (Resource \cup List) /\ {Open(f)} \in SUBSET Barriers
  BY BarrierFacts
<1> QED BY <1>1, ExecFacts DEF Prologue, Open

(* So is the list of a frame. *)
LEMMA FrameListFacts ==
  ASSUME NEW f \in Frame, NEW u \in SUBSET Resource
  PROVE  /\ Exec(u, {Close(f)}) \in Command /\ Exec(u, {Close(f)}).op = "exec"
         /\ Exec(u, {Close(f)}).uses = u /\ Exec(u, {Close(f)}).barriers = {Close(f)}
         /\ Close(f) = Barrier(f, "target", "present")
PROOF
<1>1. u \in SUBSET (Resource \cup List) /\ {Close(f)} \in SUBSET Barriers
  BY BarrierFacts
<1> QED BY <1>1, ExecFacts DEF Close

(* A command is one or the other. *)
LEMMA IsCommand ==
  ASSUME NEW m \in Command
  PROVE  \/ /\ m.op = "exec" /\ m.uses \subseteq Resource \cup List
            /\ m.barriers \subseteq Barriers
         \/ m.op = "signal" /\ m.value \in Nat
PROOF BY DEF Command

(* What is in the queue is a list or a signal. *)
LEMMA QueueFacts ==
  ASSUME queue \in Seq(Command)
  PROVE  /\ DOMAIN queue = 1 .. Len(queue) /\ Len(queue) \in Nat
         /\ \A i \in DOMAIN queue :
              /\ queue[i] \in Command
              /\ IsSignal(i) <=> ~IsList(i)
              /\ IsSignal(i) => queue[i].value \in Nat
PROOF
<1>1. \A i \in DOMAIN queue : queue[i] \in Command
  OBVIOUS
<1> QED BY <1>1, IsCommand DEF IsSignal, IsList

(* The next back buffer. *)
LEMMA FrameFacts ==
  /\ NumFrames \in Nat /\ NumFrames > 1 /\ 0 \in Frame
  /\ \A f \in Frame : (f + 1) % NumFrames \in Frame
  /\ \A n \in 0 .. NumFrames : n < NumFrames => n \in Frame
PROOF BY FrameAssumption DEF Frame

(* Idle is what NothingExecuting asks for. *)
LEMMA Idleness == Idle <=> Executing = {}
PROOF BY DEF Idle, Executing, IsList

-----------------------------------------------------------------------------
(* The steps, for what is about the queue, the fence and the back buffers. *)

Quiet == UNCHANGED <<queue, fence, awaits, event, index, backBuffer, pc, turn,
                     fenceValue, frameFence>>

Sync ==
  \/ Quiet
  \/ \E l \in List : SubmitList(l)
  \/ Present \/ Wait \/ BeginNewFrame \/ SignalOld \/ ResizeBuffers
  \/ Shutdown \/ StopSignal \/ StopWait \/ ReleaseAll
  \/ Woken \/ Execute \/ SetFence

(* The steps that touch the queue or the fence, and all the others. *)
LEMMA SyncSteps == [Next]_allVars => Sync
PROOF
<1> SUFFICES ASSUME [Next]_allVars PROVE Sync
  OBVIOUS
<1> USE DEF Sync, Quiet
<1>1. CASE UNCHANGED allVars
  BY <1>1 DEF allVars
<1>2. CASE BeginRender
  BY <1>2 DEF BeginRender, vars
<1>3. CASE \E s \in Size : GetBuffer(s)
  BY <1>3 DEF GetBuffer, HandOut, device, fences
<1>4. CASE \E d \in Desc : GetImage(d)
  BY <1>4 DEF GetImage, HandOut, device, fences
<1>5. CASE \E c \in Cached : BindConstants(c)
  BY <1>5 DEF BindConstants, Bind, device, fences
<1>6. CASE \E r \in Resource : BindSection(r)
  BY <1>6 DEF BindSection, Bind, device, fences
<1>7. CASE Call
  BY <1>7 DEF Call, Draw, Blit, Clear, device, fences
<1>8. CASE ToBuffer
  BY <1>8 DEF ToBuffer, Create, Drop, device, fences
<1>9. CASE EndRender
  BY <1>9 DEF EndRender
<1>10. CASE WindowResized \/ Shutdown
  BY <1>10 DEF WindowResized, device, fences
<1>11. CASE Between
  BY <1>11 DEF Between
<1>12. CASE Device
  BY <1>12 DEF Device
<1> QED BY <1>1, <1>2, <1>3, <1>4, <1>5, <1>6, <1>7, <1>8, <1>9, <1>10, <1>11, <1>12
       DEF Next, OnItsOwn

-----------------------------------------------------------------------------
(* Types. *)

(* A cache hands out one of its own. *)
LEMMA HandOutTyped ==
  ASSUME TypeOK, NEW k \in Kind, HandOut(k)
  PROVE  /\ handed' \in [Kind -> 0 .. MaxMade] /\ made' \in [Kind -> 0 .. MaxMade]
         /\ <<k, handed'[k]>> \in Cached /\ held' \subseteq Resource
PROOF
<1> USE RenderAssumption DEF TypeOK, HandOut
<1>1. handed' = [handed EXCEPT ![k] = @ + 1] /\ handed[k] < MaxMade
  OBVIOUS
<1>2. handed' \in [Kind -> 0 .. MaxMade] /\ handed'[k] \in 1 .. MaxMade
  BY <1>1
<1>3. CASE made[k] > handed[k]
  BY <1>2, <1>3 DEF Cached
<1>4. CASE ~(made[k] > handed[k])
  <2>1. made[k] + 1 \in 1 .. MaxMade
    BY <1>1, <1>4
  <2>2. <<k, made[k] + 1>> \in Cached
    BY <2>1 DEF Cached
  <2>3. made' \in [Kind -> 0 .. MaxMade]
    BY <1>4, <2>1
  <2>4. held' \subseteq Resource
    BY <1>4, <2>2
  <2> QED BY <1>2, <2>3, <2>4 DEF Cached
<1> QED BY <1>3, <1>4

(* The queue holds commands only. *)
LEMMA QueueStep == Typed /\ [Next]_allVars => queue' \in Seq(Command)
PROOF
<1> SUFFICES ASSUME Typed, [Next]_allVars PROVE queue' \in Seq(Command)
  OBVIOUS
<1> USE DEF Typed, TypeOK
<1>1. Sync
  BY SyncSteps
<1>3. ASSUME NEW l \in List, SubmitList(l) PROVE queue' \in Seq(Command)
  BY <1>3, ListFacts, AppendFacts DEF SubmitList
<1>4. ASSUME NEW f \in Frame PROVE Prologue(f) \in Seq(Command)
  <2>1. Exec({}, {Open(f)}) \in Command
    BY PrologueFacts
  <2>2. Append(queue, Exec({}, {Open(f)})) \in Seq(Command)
    BY <2>1, AppendFacts
  <2> QED BY <2>2, PrologueFacts
<1>5. CASE Present
  <2>1. index \in Frame /\ recorded \in SUBSET Resource /\ fenceValue + 1 \in Nat
    OBVIOUS
  <2>2. /\ Exec(recorded, {Barrier(index, "target", "present")}) \in Command
        /\ Signal(fenceValue + 1) \in Command
    BY <2>1, FrameListFacts, SignalFacts
  <2> QED BY <1>5, <2>2, AppendTwoFacts DEF Present, SignalFence
<1>6. CASE BeginNewFrame
  BY <1>4, <1>6 DEF BeginNewFrame
<1>7. CASE SignalOld
  BY <1>7, FrameFacts, SignalFacts, AppendFacts DEF SignalOld
<1>8. CASE ResizeBuffers
  BY <1>4, <1>8, FrameFacts DEF ResizeBuffers
<1>9. CASE StopSignal
  BY <1>9, SignalFacts, AppendFacts, AppendSignal DEF StopSignal, SignalFence
<1>10. CASE Execute \/ SetFence
  BY <1>10, TailFacts DEF Execute, SetFence
<1>11. CASE Quiet \/ Wait \/ Shutdown \/ StopWait \/ ReleaseAll \/ Woken
  BY <1>11 DEF Quiet, Wait, Shutdown, StopWait, ReleaseAll, Woken, device
<1> QED BY <1>1, <1>3, <1>5, <1>6, <1>7, <1>8, <1>9, <1>10, <1>11 DEF Sync

(* What the queue, the fence and the thread of the context are. *)
SyncType ==
  /\ fence \in Nat /\ awaits \in Nat \cup {None} /\ event \in BOOLEAN
  /\ index \in Frame /\ backBuffer \in [Frame -> BackBufferState]
  /\ pc \in {"record", "wait", "begin", "resize", "stop", "stopwait", "down"}
  /\ turn \in 0 .. NumFrames /\ (pc = "stopwait" => turn < NumFrames)
  /\ fenceValue \in Nat /\ frameFence \in [Frame -> Nat]

(* Types of what the device and the waits are about. *)
LEMMA SyncTypeStep == Typed /\ [Next]_allVars => SyncType'
PROOF
<1> SUFFICES ASSUME Typed, [Next]_allVars PROVE SyncType'
  OBVIOUS
<1>1. Sync
  BY SyncSteps
<1>2. SyncType /\ queue \in Seq(Command)
  BY DEF Typed, TypeOK, SyncType, BackBufferState
<1> USE <1>2 DEF SyncType
<1>3. ASSUME NEW l \in List, SubmitList(l) PROVE SyncType'
  BY <1>3 DEF SubmitList, fences
<1>4. CASE Present
  BY <1>4, FrameFacts DEF Present, SignalFence
<1>5. CASE Wait
  BY <1>5 DEF Wait, WaitForFenceValue, SetEventOnCompletion, fences
<1>6. CASE BeginNewFrame
  BY <1>6, FrameFacts DEF BeginNewFrame, fences
<1>7. CASE SignalOld
  <2>1. turn \in Frame /\ turn + 1 \in 0 .. NumFrames /\ pc = "resize"
    BY <1>7, FrameFacts DEF SignalOld, At
  <2>2. awaits' \in Nat \cup {None} /\ event' \in BOOLEAN
    BY <1>7, <2>1 DEF SignalOld, SetEventOnCompletion
  <2>3. frameFence' \in [Frame -> Nat]
    BY <1>7, <2>1 DEF SignalOld
  <2> QED BY <1>7, <2>1, <2>2, <2>3 DEF SignalOld
<1>8. CASE ResizeBuffers
  BY <1>8, FrameFacts DEF ResizeBuffers, fences, BackBufferState
<1>9. CASE Shutdown
  BY <1>9, FrameFacts DEF Shutdown, device, fences
<1>10. CASE StopSignal
  BY <1>10, FrameFacts DEF StopSignal, SignalFence
<1>11. CASE StopWait
  <2>1. turn \in Frame /\ turn + 1 \in 0 .. NumFrames
    BY <1>11, FrameFacts DEF StopWait, At
  <2>2. awaits' \in Nat \cup {None} /\ event' \in BOOLEAN /\ pc' = "stop"
    BY <1>11, <2>1 DEF StopWait, WaitForFenceValue, SetEventOnCompletion
  <2> QED BY <1>11, <2>1, <2>2 DEF StopWait, fences
<1>12. CASE ReleaseAll
  BY <1>12 DEF ReleaseAll, device, fences
<1>13. CASE Woken
  BY <1>13 DEF Woken, fences
<1>14. CASE Execute
  <2>1. Head(queue).barriers \subseteq Barriers
    BY <1>14, TailFacts, IsCommand DEF Execute
  <2>2. backBuffer' \in [Frame -> BackBufferState]
    BY <1>14, <2>1 DEF Execute, Barriers
  <2> QED BY <1>14, <2>2 DEF Execute, fences
<1>15. CASE SetFence
  <2>1. Head(queue).value \in Nat
    BY <1>15, TailFacts, IsCommand DEF SetFence
  <2> QED BY <1>15, <2>1 DEF SetFence, fences
<1>16. CASE Quiet
  BY <1>16 DEF Quiet
<1> QED BY <1>1, <1>3, <1>4, <1>5, <1>6, <1>7, <1>8, <1>9, <1>10, <1>11, <1>12, <1>13,
           <1>14, <1>15, <1>16 DEF Sync

(* What is kept, used and cached. *)
HeldType ==
  /\ locks \in [Frame -> SUBSET Resource] /\ listLocks \in [Frame -> SUBSET List]
  /\ bound \in [Slot -> Resource \cup {None}] /\ recorded \subseteq Resource
  /\ needResize \in BOOLEAN /\ held \subseteq Resource

CacheType ==
  /\ rendering \in BOOLEAN
  /\ made \in [Kind -> 0 .. MaxMade] /\ handed \in [Kind -> 0 .. MaxMade]
  /\ proxies \subseteq Cached /\ set \subseteq Slot /\ content \in [Cached -> Nat]

(* What is cached is a resource and no temporary. *)
LEMMA Kinds ==
  /\ \A s \in Size : s \in Kind
  /\ \A d \in Desc : d \in Kind
  /\ Cached \subseteq Resource /\ Temp \subseteq Resource /\ Temp \cap Cached = {}
  /\ "constants" \in Slot /\ "section" \in Slot
  /\ MaxMade \in Nat /\ 0 \in 0 .. MaxMade
PROOF BY RenderAssumption DEF Kind

(* A step of the context that no node makes: it leaves the caches alone. *)
LEMMA OwnStep ==
  ASSUME HeldType, CacheType, index \in Frame, OnItsOwn(Between \/ Device)
  PROVE  HeldType' /\ CacheType'
PROOF
<1> USE DEF HeldType, CacheType
<1>1. CacheType' /\ rendering' = rendering /\ set' = set /\ caches' = caches
  BY DEF OnItsOwn, caches
<1>2. CASE BeginNewFrame
  BY <1>1, <1>2 DEF BeginNewFrame
<1>3. CASE ResizeBuffers
  BY <1>1, <1>3 DEF ResizeBuffers
<1>4. CASE ReleaseAll
  BY <1>1, <1>4 DEF ReleaseAll
<1>5. CASE Woken \/ Wait \/ SignalOld \/ StopSignal \/ StopWait \/ Execute \/ SetFence
  BY <1>1, <1>5 DEF Woken, Wait, SignalOld, StopSignal, StopWait, Execute, SetFence, holders
<1> QED BY <1>2, <1>3, <1>4, <1>5 DEF OnItsOwn, Between, Device

(* Types of the locks and of the caches. *)
LEMMA HeldStep == Typed /\ [Next]_allVars => HeldType' /\ CacheType'
PROOF
<1> SUFFICES ASSUME Typed, [Next]_allVars PROVE HeldType' /\ CacheType'
  OBVIOUS
<1>1. HeldType /\ CacheType /\ index \in Frame /\ fenceValue \in Nat /\ TypeOK
  BY DEF Typed, TypeOK, HeldType, CacheType
<1> USE <1>1, Kinds DEF HeldType, CacheType
<1>2. CASE UNCHANGED allVars
  BY <1>2 DEF allVars
<1>3. CASE BeginRender
  BY <1>3 DEF BeginRender, vars
<1>4. ASSUME NEW s \in Size, GetBuffer(s) PROVE HeldType' /\ CacheType'
  <2>1. HandOut(s) /\ s \in Kind
    BY <1>4 DEF GetBuffer
  <2> QED BY <1>4, <2>1, HandOutTyped DEF GetBuffer, HandOut
<1>5. ASSUME NEW d \in Desc, GetImage(d) PROVE HeldType' /\ CacheType'
  <2>1. HandOut(d) /\ d \in Kind
    BY <1>5 DEF GetImage
  <2> QED BY <1>5, <2>1, HandOutTyped DEF GetImage, HandOut
<1>6. ASSUME NEW c \in Cached, BindConstants(c) PROVE HeldType' /\ CacheType'
  BY <1>6 DEF BindConstants, Bind
<1>7. ASSUME NEW r \in Resource, BindSection(r) PROVE HeldType' /\ CacheType'
  BY <1>7 DEF BindSection, Bind, caches
<1>8. CASE Call
  <2>1. CacheType'
    BY <1>8 DEF Call, caches
  <2>2. ASSUME NEW slots \in SUBSET set, Draw(slots) PROVE HeldType'
    BY <2>2 DEF Draw
  <2>3. ASSUME NEW a \in Resource, NEW b \in Resource, Blit(a, b) PROVE HeldType'
    BY <2>3 DEF Blit
  <2>4. ASSUME NEW c \in Cached, Clear(c) PROVE HeldType'
    BY <2>4 DEF Clear
  <2>5. ASSUME NEW l \in List, SubmitList(l) PROVE HeldType'
    BY <2>5 DEF SubmitList
  <2> QED BY <1>8, <2>1, <2>2, <2>3, <2>4, <2>5 DEF Call
<1>9. CASE ToBuffer
  <2>1. CacheType'
    BY <1>9 DEF ToBuffer, caches
  <2>2. ASSUME NEW x \in Temp, Create(x) \/ Drop(x) PROVE HeldType'
    BY <2>2 DEF Create, Drop
  <2> QED BY <1>9, <2>1, <2>2 DEF ToBuffer
<1>10. CASE EndRender
  BY <1>10 DEF EndRender, Present
<1>11. CASE (WindowResized \/ Shutdown) /\ UNCHANGED <<rendering, set, caches>>
  BY <1>11 DEF WindowResized, Shutdown, holders, caches
<1>12. CASE OnItsOwn(Between) \/ OnItsOwn(Device)
  BY <1>12, OwnStep DEF OnItsOwn
<1> QED BY <1>2, <1>3, <1>4, <1>5, <1>6, <1>7, <1>8, <1>9, <1>10, <1>11, <1>12 DEF Next

(* Typed is preserved. *)
LEMMA TypeStep == Typed /\ [Next]_allVars => Typed'
PROOF BY QueueStep, SyncTypeStep, HeldStep
      DEF Typed, TypeOK, SyncType, HeldType, CacheType, BackBufferState

-----------------------------------------------------------------------------
(* The values of the fence. *)

(* A list that joins the queue changes nothing of them. *)
LEMMA ListJoins ==
  ASSUME queue \in Seq(Command), NEW m \in Command, m.op = "exec",
         \A i \in DOMAIN queue : IsSignal(i) => queue[i].value <= fenceValue,
         queue' = Append(queue, m), fenceValue' = fenceValue
  PROVE  \A i \in DOMAIN queue' : IsSignal(i)' => queue'[i].value <= fenceValue'
PROOF BY AppendFacts DEF IsSignal

(* A new signal of a counted value keeps the values below the counter. *)
LEMMA SignalJoins ==
  ASSUME queue \in Seq(Command), NEW v \in Nat, fenceValue \in Nat, v <= fenceValue',
         fenceValue' \in Nat, fenceValue <= fenceValue',
         \A i \in DOMAIN queue : IsSignal(i) => queue[i].value <= fenceValue,
         queue' = Append(queue, Signal(v))
  PROVE  \A i \in DOMAIN queue' : IsSignal(i)' => queue'[i].value <= fenceValue'
PROOF
<1> SUFFICES ASSUME NEW i \in DOMAIN queue', IsSignal(i)'
             PROVE  queue'[i].value <= fenceValue'
  OBVIOUS
<1>1. /\ DOMAIN queue = 1 .. Len(queue) /\ Len(queue) \in Nat
      /\ DOMAIN queue' = 1 .. Len(queue) + 1
      /\ \A j \in 1 .. Len(queue) : queue'[j] = queue[j]
      /\ queue'[Len(queue) + 1] = Signal(v)
  BY SignalFacts, AppendFacts
<1>2. CASE i = Len(queue) + 1
  BY <1>1, <1>2, SignalFacts
<1>3. CASE i \in 1 .. Len(queue)
  <2>1. IsSignal(i) /\ queue[i].value \in Nat /\ queue[i].value <= fenceValue
    BY <1>1, <1>3, QueueFacts DEF IsSignal
  <2> QED BY <1>1, <1>3, <2>1
<1> QED BY <1>1, <1>2, <1>3

(* ValuesInv is preserved. *)
LEMMA ValuesStep == Typed /\ ValuesInv /\ [Next]_allVars => ValuesInv'
PROOF
<1> SUFFICES ASSUME Typed, ValuesInv, [Next]_allVars PROVE ValuesInv'
  OBVIOUS
<1>1. Sync
  BY SyncSteps
<1>2. SyncType /\ queue \in Seq(Command) /\ SyncType'
  BY SyncTypeStep DEF Typed, TypeOK, SyncType, BackBufferState
<1> USE <1>2 DEF SyncType
<1> DEFINE Signals(q, v) == \A i \in DOMAIN q : q[i].op = "signal" => q[i].value <= v
<1>3. Signals(queue, fenceValue)
  BY DEF ValuesInv, IsSignal
<1>4. ASSUME NEW l \in List, SubmitList(l) PROVE ValuesInv'
  <2>1. Exec({l}, {}) \in Command /\ Exec({l}, {}).op = "exec"
    BY ListFacts
  <2>2. Signals(queue', fenceValue')
    BY <1>3, <1>4, <2>1, ListJoins DEF SubmitList, IsSignal, fences
  <2> QED BY <1>4, <2>2 DEF ValuesInv, SubmitList, IsSignal, fences
<1>5. CASE Present
  <2> DEFINE m == Exec(recorded, {Barrier(index, "target", "present")})
  <2>1. m \in Command /\ m.op = "exec"
    <3>1. index \in Frame /\ recorded \in SUBSET Resource
      BY DEF Typed, TypeOK
    <3>2. m = Exec(recorded, {Close(index)})
      BY DEF Close
    <3>3. /\ Exec(recorded, {Close(index)}) \in Command
          /\ Exec(recorded, {Close(index)}).op = "exec"
      BY <3>1, FrameListFacts
    <3> HIDE DEF m
    <3> QED BY <3>2, <3>3
  <2>2. /\ fenceValue' = fenceValue + 1
        /\ queue' = queue \o <<m>> \o <<Signal(fenceValue + 1)>>
        /\ frameFence' = [frameFence EXCEPT ![index'] = fenceValue + 1]
        /\ pc = "record" /\ pc' = "wait" /\ fence' = fence /\ index' \in Frame
    BY <1>5, FrameFacts DEF Present, SignalFence, At
  <2> HIDE DEF m
  <2>3. /\ DOMAIN queue = 1 .. Len(queue) /\ Len(queue) \in Nat
        /\ DOMAIN queue' = 1 .. Len(queue) + 2
        /\ \A j \in 1 .. Len(queue) : queue'[j] = queue[j]
        /\ queue'[Len(queue) + 1] = m
        /\ queue'[Len(queue) + 2] = Signal(fenceValue + 1)
    BY <2>1, <2>2, SignalFacts, AppendTwoFacts
  <2>4. ASSUME NEW i \in DOMAIN queue', queue'[i].op = "signal"
        PROVE  queue'[i].value <= fenceValue'
    <3>1. CASE i = Len(queue) + 2
      BY <2>2, <2>3, <3>1, SignalFacts
    <3>2. CASE i = Len(queue) + 1
      BY <2>1, <2>3, <2>4, <3>2
    <3>3. CASE i \in 1 .. Len(queue)
      <4>1. queue[i].value \in Nat /\ queue[i].value <= fenceValue
        BY <1>3, <2>3, <2>4, <3>3, QueueFacts DEF IsSignal
      <4> QED BY <2>2, <2>3, <3>3, <4>1
    <3>4. i = Len(queue) + 2 \/ i = Len(queue) + 1 \/ i \in 1 .. Len(queue)
      <4>1. \A n \in Nat : i \in 1 .. n + 2 => i = n + 2 \/ i = n + 1 \/ i \in 1 .. n
        OBVIOUS
      <4> QED BY <2>3, <4>1
    <3> QED BY <3>1, <3>2, <3>3, <3>4
  <2>5. \A f \in Frame : frameFence[f] <= fenceValue + 1
    BY <2>2 DEF ValuesInv
  <2>6. \A f \in Frame : frameFence'[f] <= fenceValue'
    BY <2>2, <2>5
  <2>7. fence' <= fenceValue' /\ frameFence'[index'] = fenceValue'
    BY <2>2 DEF ValuesInv
  <2> QED BY <2>2, <2>4, <2>6, <2>7 DEF ValuesInv, IsSignal
<1>6. CASE Wait
  BY <1>6 DEF Wait, WaitForFenceValue, ValuesInv, IsSignal, fences, At
<1>7. ASSUME NEW f \in Frame, queue' = Prologue(f), fenceValue' = fenceValue
      PROVE  Signals(queue', fenceValue')
  <2>1. /\ Exec({}, {Open(f)}) \in Command /\ Exec({}, {Open(f)}).op = "exec"
        /\ queue' = Append(queue, Exec({}, {Open(f)}))
    BY <1>7, PrologueFacts
  <2> QED BY <1>3, <1>7, <2>1, ListJoins DEF IsSignal
<1>8. CASE BeginNewFrame
  <2>1. Signals(queue', fenceValue')
    BY <1>3, <1>7, <1>8 DEF BeginNewFrame, fences
  <2>2. \A f \in Frame : frameFence[f] <= fenceValue /\ frameFence[f] <= fenceValue + 1
    BY <1>8 DEF BeginNewFrame, At, ValuesInv
  <2> QED BY <1>8, <2>1, <2>2 DEF BeginNewFrame, ValuesInv, IsSignal, fences
<1>9. CASE SignalOld
  <2>1. /\ turn \in Frame /\ pc = "resize" /\ pc' = "resize" /\ turn' = turn + 1
        /\ queue' = Append(queue, Signal(frameFence[turn]))
        /\ frameFence' = [frameFence EXCEPT ![turn] = @ + 1]
        /\ fence' = fence /\ fenceValue' = fenceValue
    BY <1>9, FrameFacts DEF SignalOld, At
  <2>2. /\ \A f \in Frame : frameFence[f] <= fenceValue + 1
        /\ \A f \in Frame : f >= turn => frameFence[f] <= fenceValue
    BY <2>1 DEF ValuesInv
  <2>3. frameFence[turn] \in Nat /\ frameFence[turn] <= fenceValue
    BY <2>1, <2>2, FrameAssumption DEF Frame
  <2>4. Signals(queue', fenceValue')
    <3>1. /\ \A i \in DOMAIN queue : IsSignal(i) => queue[i].value <= fenceValue
          /\ fenceValue \in Nat /\ fenceValue' \in Nat /\ fenceValue <= fenceValue'
      BY <2>1 DEF ValuesInv
    <3>2. \A i \in DOMAIN queue' : IsSignal(i)' => queue'[i].value <= fenceValue'
      BY <2>1, <2>3, <3>1, SignalJoins
    <3> QED BY <3>2 DEF IsSignal
  <2>5. \A f \in Frame : frameFence'[f] <= fenceValue + 1
    BY <2>1, <2>2, <2>3
  <2>6. \A f \in Frame : f >= turn + 1 => frameFence'[f] <= fenceValue
    BY <2>1, <2>2, FrameAssumption DEF Frame
  <2> QED BY <2>1, <2>4, <2>5, <2>6 DEF ValuesInv, IsSignal
<1>10. CASE ResizeBuffers
  <2>1. Signals(queue', fenceValue')
    BY <1>3, <1>7, <1>10, FrameFacts DEF ResizeBuffers, fences
  <2> QED BY <1>10, <2>1 DEF ResizeBuffers, ValuesInv, IsSignal, fences, At
<1>11. CASE Shutdown
  BY <1>11 DEF Shutdown, ValuesInv, IsSignal, device, fences
<1>12. CASE StopSignal
  <2>1. /\ turn \in Frame /\ pc' = "stopwait" /\ turn' = turn
        /\ queue' = Append(queue, Signal(fenceValue + 1))
        /\ frameFence' = [frameFence EXCEPT ![turn] = fenceValue + 1]
        /\ fence' = fence /\ fenceValue' = fenceValue + 1
    BY <1>12, FrameFacts, SignalFacts, AppendSignal DEF StopSignal, SignalFence
  <2>2. Signals(queue', fenceValue')
    <3>1. /\ \A i \in DOMAIN queue : IsSignal(i) => queue[i].value <= fenceValue
          /\ fenceValue \in Nat /\ fenceValue + 1 \in Nat /\ fenceValue' \in Nat
          /\ fenceValue <= fenceValue' /\ fenceValue + 1 <= fenceValue'
      BY <2>1 DEF ValuesInv
    <3>2. \A i \in DOMAIN queue' : IsSignal(i)' => queue'[i].value <= fenceValue'
      BY <2>1, <3>1, SignalJoins
    <3> QED BY <3>2 DEF IsSignal
  <2> QED BY <2>1, <2>2 DEF ValuesInv, IsSignal
<1>13. CASE StopWait
  BY <1>13 DEF StopWait, WaitForFenceValue, ValuesInv, IsSignal, fences
<1>14. CASE ReleaseAll
  BY <1>14 DEF ReleaseAll, ValuesInv, IsSignal, device, fences
<1>15. CASE Woken
  BY <1>15 DEF Woken, ValuesInv, IsSignal, fences
<1>16. CASE Execute \/ SetFence
  <2>1. /\ Len(queue) \in Nat \ {0} /\ DOMAIN queue = 1 .. Len(queue)
        /\ DOMAIN queue' = 1 .. Len(queue) - 1
        /\ \A i \in 1 .. Len(queue) - 1 : queue'[i] = queue[i + 1]
        /\ Head(queue) = queue[1]
    BY <1>16, TailFacts DEF Execute, SetFence
  <2>2. Signals(queue', fenceValue)
    <3>1. \A i \in DOMAIN queue' : i + 1 \in DOMAIN queue /\ queue'[i] = queue[i + 1]
      BY <2>1
    <3> QED BY <1>3, <3>1
  <2>3. fence' <= fenceValue
    BY <1>3, <1>16, <2>1 DEF Execute, SetFence, ValuesInv
  <2> QED BY <1>16, <2>2, <2>3 DEF Execute, SetFence, ValuesInv, IsSignal, fences
<1>17. CASE Quiet
  BY <1>17 DEF Quiet, ValuesInv, IsSignal
<1> QED BY <1>1, <1>4, <1>5, <1>6, <1>8, <1>9, <1>10, <1>11, <1>12, <1>13, <1>14, <1>15,
           <1>16, <1>17 DEF Sync

-----------------------------------------------------------------------------
(* Nothing is behind the signal that is awaited. *)

(* A signal of a new value is the last command. *)
LEMMA NewSignalBehind ==
  ASSUME fenceValue \in Nat, fence \in Nat, fence <= fenceValue,
         \A i \in DOMAIN queue : IsSignal(i) => queue[i].value <= fenceValue,
         queue \in Seq(Command), fence' = fence, fenceValue' = fenceValue + 1,
         NEW n \in Nat, DOMAIN queue' = 1 .. n + 1,
         \A i \in 1 .. n : IsSignal(i)' => queue'[i].value \in Nat /\ queue'[i].value <= fenceValue
  PROVE  Behind'
PROOF
<1>1. fence' # fenceValue'
  OBVIOUS
<1>2. ASSUME NEW i \in DOMAIN queue', NEW j \in DOMAIN queue', i < j,
             IsSignal(i)', queue'[i].value = fenceValue'
      PROVE  FALSE
  <2>1. i \in 1 .. n
    BY <1>2
  <2> QED BY <1>2, <2>1
<1> QED BY <1>1, <1>2 DEF Behind

(* Whoever waits for the last value is let through when nothing is executing. *)
LEMMA WaitsForLast ==
  ASSUME Behind, fence \in Nat, fenceValue \in Nat, fence <= fenceValue, awaits = None,
         NEW l, WaitForFenceValue(fenceValue, l)
  PROVE  /\ awaits' = None => Idle
         /\ awaits' # None => awaits' = fenceValue
PROOF
<1>1. CASE fence < fenceValue
  BY <1>1, FrameAssumption DEF WaitForFenceValue, SetEventOnCompletion
<1>2. CASE ~(fence < fenceValue)
  BY <1>2 DEF WaitForFenceValue, Behind
<1> QED BY <1>1, <1>2

(* SyncInv is preserved. *)
LEMMA SyncStep == Typed /\ ValuesInv /\ SyncInv /\ [Next]_allVars => SyncInv'
PROOF
<1> SUFFICES ASSUME Typed, ValuesInv, SyncInv, [Next]_allVars PROVE SyncInv'
  OBVIOUS
<1>1. Sync
  BY SyncSteps
<1>2. SyncType /\ queue \in Seq(Command)
  BY DEF Typed, TypeOK, SyncType, BackBufferState
<1> USE <1>2 DEF SyncType
<1>3. /\ fence <= fenceValue
      /\ \A i \in DOMAIN queue : IsSignal(i) => queue[i].value <= fenceValue
  BY DEF ValuesInv
<1>4. ASSUME NEW l \in List, SubmitList(l) PROVE SyncInv'
  BY <1>4 DEF SubmitList, SyncInv, Awaiting, At
<1>5. CASE Present
  <2> DEFINE m == Exec(recorded, {Barrier(index, "target", "present")})
  <2>1. m \in Command /\ m.op = "exec"
    <3>1. index \in Frame /\ recorded \in SUBSET Resource
      BY DEF Typed, TypeOK
    <3>2. m = Exec(recorded, {Close(index)})
      BY DEF Close
    <3>3. /\ Exec(recorded, {Close(index)}) \in Command
          /\ Exec(recorded, {Close(index)}).op = "exec"
      BY <3>1, FrameListFacts
    <3> HIDE DEF m
    <3> QED BY <3>2, <3>3
  <2>2. /\ fenceValue' = fenceValue + 1 /\ pc' = "wait" /\ fence' = fence
        /\ queue' = queue \o <<m>> \o <<Signal(fenceValue + 1)>>
    BY <1>5 DEF Present, SignalFence
  <2> HIDE DEF m
  <2>3. /\ DOMAIN queue = 1 .. Len(queue) /\ Len(queue) \in Nat
        /\ DOMAIN queue' = 1 .. Len(queue) + 2
        /\ \A j \in 1 .. Len(queue) : queue'[j] = queue[j]
        /\ queue'[Len(queue) + 1] = m
    BY <2>1, <2>2, SignalFacts, AppendTwoFacts
  <2>4. ASSUME NEW i \in 1 .. Len(queue) + 1, IsSignal(i)'
        PROVE  queue'[i].value \in Nat /\ queue'[i].value <= fenceValue
    <3>1. i \in DOMAIN queue
      BY <2>1, <2>3, <2>4 DEF IsSignal
    <3> QED BY <1>3, <2>3, <2>4, <3>1, QueueFacts DEF IsSignal
  <2>5. Len(queue) + 1 \in Nat /\ DOMAIN queue' = 1 .. (Len(queue) + 1) + 1
    BY <2>3
  <2>6. Behind'
    BY <1>3, <2>2, <2>4, <2>5, NewSignalBehind
  <2> QED BY <2>2, <2>6 DEF SyncInv, Awaiting
<1>6. CASE Wait
  <2>1. /\ pc = "wait" /\ pc' = "begin" /\ awaits = None /\ Behind
        /\ queue' = queue /\ fence' = fence /\ fenceValue' = fenceValue
        /\ WaitForFenceValue(fenceValue, "begin")
    BY <1>6 DEF Wait, WaitForFenceValue, At, Blocked, SyncInv, ValuesInv, fences
  <2>2. (awaits' = None => Idle) /\ (awaits' # None => awaits' = fenceValue)
    BY <1>3, <2>1, WaitsForLast
  <2> QED BY <2>1, <2>2 DEF SyncInv, Awaiting, Behind, Idle, IsList, IsSignal
<1>7. CASE BeginNewFrame
  <2>1. Idle
    BY <1>7 DEF BeginNewFrame, At, Blocked, SyncInv, Awaiting
  <2> QED BY <1>7, <2>1 DEF BeginNewFrame, SyncInv, Awaiting, Idle, IsList
<1>8. CASE SignalOld
  <2>1. /\ Idle /\ pc' = "resize" /\ turn \in Frame
        /\ queue' = Append(queue, Signal(frameFence[turn]))
    BY <1>8, FrameFacts DEF SignalOld, At, SyncInv
  <2>2. Idle'
    BY <2>1, SignalFacts, AppendFacts DEF Idle, IsList
  <2> QED BY <2>1, <2>2 DEF SyncInv, Awaiting
<1>9. CASE ResizeBuffers
  BY <1>9 DEF ResizeBuffers, SyncInv, Awaiting
<1>10. CASE Shutdown
  BY <1>10 DEF Shutdown, SyncInv, Awaiting
<1>11. CASE StopSignal
  <2>1. /\ pc' = "stopwait" /\ fence' = fence /\ fenceValue' = fenceValue + 1
        /\ queue' = Append(queue, Signal(fenceValue + 1))
    BY <1>11, SignalFacts, AppendSignal DEF StopSignal, SignalFence
  <2>2. /\ DOMAIN queue = 1 .. Len(queue) /\ Len(queue) \in Nat
        /\ DOMAIN queue' = 1 .. Len(queue) + 1
        /\ \A j \in 1 .. Len(queue) : queue'[j] = queue[j]
    BY <2>1, SignalFacts, AppendFacts
  <2>3. \A i \in 1 .. Len(queue) :
          IsSignal(i)' => queue'[i].value \in Nat /\ queue'[i].value <= fenceValue
    BY <1>3, <2>2, QueueFacts DEF IsSignal
  <2>4. Behind'
    BY <1>3, <2>1, <2>2, <2>3, NewSignalBehind
  <2> QED BY <2>1, <2>4 DEF SyncInv, Awaiting
<1>12. CASE StopWait
  <2>1. /\ pc = "stopwait" /\ pc' = "stop" /\ awaits = None /\ Behind
        /\ queue' = queue /\ fence' = fence /\ fenceValue' = fenceValue
        /\ WaitForFenceValue(fenceValue, "stop")
    BY <1>12 DEF StopWait, WaitForFenceValue, At, Blocked, SyncInv, ValuesInv, fences
  <2>2. (awaits' = None => Idle) /\ (awaits' # None => awaits' = fenceValue)
    BY <1>3, <2>1, WaitsForLast
  <2> QED BY <2>1, <2>2 DEF SyncInv, Awaiting, Behind, Idle, IsList, IsSignal
<1>13. CASE ReleaseAll
  <2>1. pc = "stop" /\ turn > 0 /\ awaits = None
    BY <1>13, FrameFacts DEF ReleaseAll, At, Blocked
  <2>2. Idle
    BY <2>1 DEF SyncInv, Awaiting
  <2> QED BY <1>13, <2>2 DEF ReleaseAll, SyncInv, Awaiting, Idle, IsList, device
<1>14. CASE Woken
  BY <1>14 DEF Woken, SyncInv, Awaiting, Behind, Idle, IsList, IsSignal, fences
<1>15. CASE Execute \/ SetFence
  <2>1. /\ Len(queue) \in Nat \ {0} /\ DOMAIN queue = 1 .. Len(queue)
        /\ DOMAIN queue' = 1 .. Len(queue) - 1
        /\ \A i \in 1 .. Len(queue) - 1 : queue'[i] = queue[i + 1]
        /\ Head(queue) = queue[1]
    BY <1>15, TailFacts DEF Execute, SetFence
  <2>6. \A i \in DOMAIN queue' : /\ i + 1 \in DOMAIN queue /\ 1 \in DOMAIN queue /\ 1 < i + 1
                                  /\ queue'[i] = queue[i + 1]
    BY <2>1
  <2>2. pc' = pc /\ turn' = turn /\ fenceValue' = fenceValue
    BY <1>15 DEF Execute, SetFence, fences
  <2>3. Idle => Idle'
    BY <2>1 DEF Idle, IsList
  <2>4. ASSUME Behind PROVE Behind'
    <3>1. \A i, j \in DOMAIN queue' :
            i < j /\ IsSignal(i)' /\ queue'[i].value = fenceValue' => ~IsList(j)'
      BY <2>1, <2>2, <2>4 DEF Behind, IsSignal, IsList
    <3>2. fence' = fenceValue => Idle'
      <4>1. CASE Execute
        BY <2>3, <2>4, <4>1 DEF Execute, Behind
      <4>2. CASE SetFence
        <5>1. fence' = queue[1].value /\ IsSignal(1)
          BY <2>1, <4>2 DEF SetFence, IsSignal
        <5> QED BY <2>6, <2>4, <5>1 DEF Behind, Idle, IsList
      <4> QED BY <1>15, <4>1, <4>2
    <3> QED BY <2>2, <3>1, <3>2 DEF Behind
  <2>5. ASSUME Awaiting
        PROVE  (awaits' = None => Idle') /\ (awaits' # None => awaits' = fenceValue)
    <3>1. Behind /\ (awaits = None => Idle) /\ (awaits # None => awaits = fenceValue)
      BY <2>5 DEF SyncInv
    <3>2. CASE awaits' = awaits
      BY <2>3, <3>1, <3>2
    <3>3. CASE SetFence /\ awaits # None /\ queue[1].value >= awaits
      <4>1. IsSignal(1) /\ 1 \in DOMAIN queue /\ awaits' = None
        BY <2>1, <3>3 DEF SetFence, IsSignal
      <4>2. queue[1].value = fenceValue
        BY <1>3, <3>1, <3>3, <4>1, QueueFacts
      <4>3. Idle'
        BY <2>6, <3>1, <4>1, <4>2 DEF Behind, Idle, IsList
      <4> QED BY <4>1, <4>3
    <3>4. awaits' = awaits \/ (SetFence /\ awaits # None /\ queue[1].value >= awaits)
      BY <1>15, <2>1 DEF Execute, SetFence
    <3> QED BY <3>2, <3>3, <3>4
  <2> QED BY <2>2, <2>3, <2>4, <2>5 DEF SyncInv, Awaiting
<1>16. CASE Quiet
  BY <1>16 DEF Quiet, SyncInv, Awaiting, Behind, Idle, IsList, IsSignal
<1> QED BY <1>1, <1>4, <1>5, <1>6, <1>7, <1>8, <1>9, <1>10, <1>11, <1>12, <1>13, <1>14,
           <1>15, <1>16 DEF Sync

-----------------------------------------------------------------------------
(* Barriers. *)

(* A command without barriers joins the queue. *)
LEMMA PlainJoins ==
  ASSUME queue \in Seq(Command), NEW m \in Command, m.op = "exec" => m.barriers = {},
         queue' = Append(queue, m), NEW o \in Frame
  PROVE  /\ Ordered(o) => Ordered(o)'
         /\ SomeOpens(o)' <=> SomeOpens(o)
         /\ SomeCloses(o)' <=> SomeCloses(o)
PROOF
<1>1. /\ DOMAIN queue = 1 .. Len(queue) /\ Len(queue) \in Nat
      /\ DOMAIN queue' = 1 .. Len(queue) + 1
      /\ \A i \in 1 .. Len(queue) : queue'[i] = queue[i]
      /\ queue'[Len(queue) + 1] = m
  BY AppendFacts
<1>2. \A i \in DOMAIN queue : i \in DOMAIN queue' /\ queue'[i] = queue[i]
  BY <1>1
<1>3. \A i \in DOMAIN queue' : i \in DOMAIN queue \/ queue'[i] = m
  BY <1>1
<1>4. \A i \in DOMAIN queue : /\ IsList(i)' <=> IsList(i)
                              /\ Opens(o, i)' <=> Opens(o, i)
                              /\ Closes(o, i)' <=> Closes(o, i)
  BY <1>2 DEF IsList, Opens, Closes, Open, Close
<1>5. \A i \in DOMAIN queue' : Opens(o, i)' \/ Closes(o, i)' => i \in DOMAIN queue
  BY <1>3 DEF Opens, Closes, IsList
<1>6. SomeOpens(o)' <=> SomeOpens(o)
  BY <1>2, <1>4, <1>5 DEF SomeOpens
<1>7. SomeCloses(o)' <=> SomeCloses(o)
  BY <1>2, <1>4, <1>5 DEF SomeCloses
<1>8. ASSUME Ordered(o) PROVE Ordered(o)'
  <2>1. \A i \in DOMAIN queue' : IsList(i)' =>
          queue'[i].barriers \in {{}, {Open(o)}, {Close(o)}}
    BY <1>2, <1>3, <1>4, <1>8 DEF Ordered, IsList
  <2>2. \A i, j \in DOMAIN queue' : i < j /\ Opens(o, j)' => ~Opens(o, i)' /\ ~Closes(o, i)'
    BY <1>4, <1>5, <1>8 DEF Ordered
  <2>3. \A i, j \in DOMAIN queue' : i < j /\ Closes(o, i)' => ~Opens(o, j)' /\ ~Closes(o, j)'
    BY <1>4, <1>5, <1>8 DEF Ordered
  <2> QED BY <2>1, <2>2, <2>3 DEF Ordered, Open, Close
<1> QED BY <1>6, <1>7, <1>8

(* The first command leaves the queue. *)
LEMMA FirstLeaves ==
  ASSUME queue \in Seq(Command), queue # <<>>, queue' = Tail(queue), NEW o \in Frame, Ordered(o)
  PROVE  /\ Ordered(o)'
         /\ SomeOpens(o) <=> Opens(o, 1) \/ SomeOpens(o)'
         /\ SomeCloses(o) <=> Closes(o, 1) \/ SomeCloses(o)'
         /\ Opens(o, 1) => ~SomeOpens(o)'
         /\ Closes(o, 1) => ~SomeOpens(o)' /\ ~SomeCloses(o)'
PROOF
<1>1. /\ Len(queue) \in Nat \ {0} /\ DOMAIN queue = 1 .. Len(queue)
      /\ DOMAIN queue' = 1 .. Len(queue) - 1
      /\ \A i \in 1 .. Len(queue) - 1 : queue'[i] = queue[i + 1]
  BY TailFacts
<1>2. \A i \in DOMAIN queue' : i + 1 \in DOMAIN queue /\ 1 < i + 1 /\ queue'[i] = queue[i + 1]
  BY <1>1
<1>3. \A i \in DOMAIN queue : i = 1 \/ \E j \in DOMAIN queue' : i = j + 1
  <2> SUFFICES ASSUME NEW i \in DOMAIN queue, i # 1 PROVE \E j \in DOMAIN queue' : i = j + 1
    OBVIOUS
  <2>1. i - 1 \in DOMAIN queue' /\ i = (i - 1) + 1
    BY <1>1
  <2> QED BY <2>1
<1>4. 1 \in DOMAIN queue
  BY <1>1
<1>5. \A i \in DOMAIN queue' : /\ IsList(i)' <=> IsList(i + 1)
                               /\ Opens(o, i)' <=> Opens(o, i + 1)
                               /\ Closes(o, i)' <=> Closes(o, i + 1)
  BY <1>2 DEF IsList, Opens, Closes, Open, Close
<1>6. SomeOpens(o) <=> Opens(o, 1) \/ SomeOpens(o)'
  BY <1>2, <1>3, <1>4, <1>5 DEF SomeOpens
<1>7. SomeCloses(o) <=> Closes(o, 1) \/ SomeCloses(o)'
  BY <1>2, <1>3, <1>4, <1>5 DEF SomeCloses
<1>8. Opens(o, 1) => ~SomeOpens(o)'
  BY <1>2, <1>4, <1>5 DEF SomeOpens, Ordered
<1>9. Closes(o, 1) => ~SomeOpens(o)' /\ ~SomeCloses(o)'
  BY <1>2, <1>4, <1>5 DEF SomeOpens, SomeCloses, Ordered
<1>10. Ordered(o)'
  <2>1. \A i \in DOMAIN queue' : IsList(i)' =>
          queue'[i].barriers \in {{}, {Open(o)}, {Close(o)}}
    BY <1>2, <1>5 DEF Ordered
  <2>2. \A i, j \in DOMAIN queue' : i < j => i + 1 < j + 1
    BY <1>1
  <2>3. \A i, j \in DOMAIN queue' : i < j /\ Opens(o, j)' => ~Opens(o, i)' /\ ~Closes(o, i)'
    BY <1>2, <1>5, <2>2 DEF Ordered
  <2>4. \A i, j \in DOMAIN queue' : i < j /\ Closes(o, i)' => ~Opens(o, j)' /\ ~Closes(o, j)'
    BY <1>2, <1>5, <2>2 DEF Ordered
  <2> QED BY <2>1, <2>3, <2>4 DEF Ordered, Open, Close
<1> QED BY <1>6, <1>7, <1>8, <1>9, <1>10

(* An idle queue has no barrier. *)
LEMMA IdleNone ==
  ASSUME Idle, NEW o
  PROVE  Ordered(o) /\ ~SomeOpens(o) /\ ~SomeCloses(o)
PROOF BY DEF Idle, Ordered, SomeOpens, SomeCloses, Opens, Closes

(* A frame begins with all back buffers presentable and an idle queue. *)
LEMMA PrologueState ==
  ASSUME queue \in Seq(Command), Idle, NEW f \in Frame, queue' = Prologue(f),
         \A g \in Frame : backBuffer'[g] = "present", pc' = "record", index' = f
  PROVE  BarrierInv'
PROOF
<1> DEFINE m == Exec({}, {Open(f)})
<1>1. m \in Command /\ m.op = "exec" /\ m.barriers = {Open(f)} /\ Open(f) # Close(f)
  BY BarrierFacts, PrologueFacts
<1>2. queue' = Append(queue, m)
  BY PrologueFacts
<1> HIDE DEF m
<1>3. /\ DOMAIN queue = 1 .. Len(queue) /\ Len(queue) \in Nat
      /\ DOMAIN queue' = 1 .. Len(queue) + 1
      /\ \A i \in 1 .. Len(queue) : queue'[i] = queue[i]
      /\ queue'[Len(queue) + 1] = m
  BY <1>1, <1>2, AppendFacts
<1>4. \A i \in DOMAIN queue' : IsList(i)' => i = Len(queue) + 1
  BY <1>3 DEF Idle, IsList
<1>5. Ordered(f)'
  BY <1>1, <1>3, <1>4 DEF Ordered, Opens, Closes, Open, Close
<1>6. SomeOpens(f)' /\ ~SomeCloses(f)'
  BY <1>1, <1>3, <1>4 DEF SomeOpens, SomeCloses, Opens, Closes, IsList, Open, Close
<1> QED BY <1>5, <1>6 DEF BarrierInv, InState

(* The frame's list closes what the prologue has opened. *)
LEMMA PresentState ==
  ASSUME Typed, BarrierInv, Present
  PROVE  BarrierInv'
PROOF
<1> DEFINE m == Exec(recorded, {Close(index)})
<1> DEFINE n == Signal(fenceValue + 1)
<1>1. /\ queue \in Seq(Command) /\ recorded \in SUBSET Resource /\ fenceValue + 1 \in Nat
      /\ index \in Frame
  BY DEF Typed, TypeOK
<1>2. PICK o \in Frame : Ordered(o) /\ InState(o)
  BY DEF BarrierInv
<1>3. /\ pc = "record" /\ pc' = "wait" /\ queue' = queue \o <<m>> \o <<n>>
      /\ backBuffer' = backBuffer
  BY DEF Present, At, SignalFence, Close
<1>4. o = index /\ ~SomeCloses(o) /\ (~SomeOpens(o) => backBuffer[o] = "target")
  BY <1>2, <1>3 DEF InState
<1>5. /\ m \in Command /\ m.op = "exec" /\ m.barriers = {Close(o)}
      /\ n \in Command /\ n.op # "exec" /\ Open(o) # Close(o)
  <2>1. m \in Command /\ m.op = "exec" /\ m.barriers = {Close(o)}
    BY <1>1, <1>4, FrameListFacts
  <2>2. n \in Command /\ n.op # "exec"
    BY <1>1, SignalFacts
  <2> QED BY <2>1, <2>2, BarrierFacts
<1> HIDE DEF m, n
<1>6. PICK k \in Nat :
      /\ DOMAIN queue = 1 .. k
      /\ DOMAIN queue' = 1 .. k + 2
      /\ \A i \in 1 .. k : queue'[i] = queue[i]
      /\ queue'[k + 1] = m
      /\ queue'[k + 2] = n
  <2>1. /\ DOMAIN queue = 1 .. Len(queue) /\ Len(queue) \in Nat
        /\ DOMAIN queue' = 1 .. Len(queue) + 2
        /\ \A i \in 1 .. Len(queue) : queue'[i] = queue[i]
        /\ queue'[Len(queue) + 1] = m
        /\ queue'[Len(queue) + 2] = n
    BY <1>1, <1>3, <1>5, AppendTwoFacts
  <2> QED BY <2>1
<1>7. \A i \in DOMAIN queue : i \in DOMAIN queue' /\ queue'[i] = queue[i] /\ i < k + 1
  BY <1>6
<1>8. \A i \in DOMAIN queue' : IsList(i)' => i \in DOMAIN queue \/ i = k + 1
  BY <1>5, <1>6 DEF IsList
<1>9. \A i \in DOMAIN queue : /\ IsList(i)' <=> IsList(i)
                              /\ Opens(o, i)' <=> Opens(o, i)
                              /\ ~Closes(o, i)'
  BY <1>4, <1>7 DEF IsList, Opens, Closes, SomeCloses, Open, Close
<1>10. Closes(o, k + 1)' /\ ~Opens(o, k + 1)'
  BY <1>5, <1>6 DEF Closes, Opens, IsList, Open, Close
<1>11. \A i \in DOMAIN queue' : /\ Opens(o, i)' => i \in DOMAIN queue
                                /\ Closes(o, i)' => i = k + 1
  BY <1>8, <1>9, <1>10 DEF Opens, Closes
<1>12. SomeCloses(o)' /\ (SomeOpens(o)' <=> SomeOpens(o))
  BY <1>6, <1>7, <1>9, <1>10, <1>11 DEF SomeCloses, SomeOpens
<1>13. Ordered(o)'
  <2>1. \A i \in DOMAIN queue' : IsList(i)' =>
          queue'[i].barriers \in {{}, {Open(o)}, {Close(o)}}
    BY <1>2, <1>5, <1>6, <1>7, <1>8, <1>9 DEF Ordered
  <2>2. \A i, j \in DOMAIN queue' : i < j /\ Opens(o, j)' => ~Opens(o, i)' /\ ~Closes(o, i)'
    <3> SUFFICES ASSUME NEW i \in DOMAIN queue', NEW j \in DOMAIN queue', i < j, Opens(o, j)'
                 PROVE  ~Opens(o, i)' /\ ~Closes(o, i)'
      OBVIOUS
    <3>1. j \in DOMAIN queue /\ i \in DOMAIN queue /\ Opens(o, j)
      BY <1>6, <1>9, <1>11
    <3> QED BY <1>2, <1>9, <3>1 DEF Ordered
  <2>3. \A i, j \in DOMAIN queue' : i < j /\ Closes(o, i)' => ~Opens(o, j)' /\ ~Closes(o, j)'
    <3> SUFFICES ASSUME NEW i \in DOMAIN queue', NEW j \in DOMAIN queue', i < j, Closes(o, i)'
                 PROVE  ~Opens(o, j)' /\ ~Closes(o, j)'
      OBVIOUS
    <3>1. i = k + 1
      BY <1>11
    <3> QED BY <1>6, <1>11, <3>1
  <2> QED BY <2>1, <2>2, <2>3 DEF Ordered, Open, Close
<1>14. InState(o)'
  BY <1>2, <1>3, <1>4, <1>12 DEF InState
<1> QED BY <1>13, <1>14 DEF BarrierInv

(* The GPU executes the list that opens, later the one that closes. *)
LEMMA ExecuteState ==
  ASSUME Typed, BarrierInv, Execute
  PROVE  BarrierInv'
PROOF
<1>1. PICK o \in Frame : Ordered(o) /\ InState(o)
  BY DEF BarrierInv
<1>2. /\ queue \in Seq(Command) /\ queue # <<>> /\ queue' = Tail(queue) /\ pc' = pc /\ index' = index
      /\ backBuffer \in [Frame -> BackBufferState]
  BY DEF Typed, TypeOK, Execute, BackBufferState
<1>3. Head(queue) = queue[1] /\ 1 \in DOMAIN queue /\ IsList(1)
  BY <1>2, TailFacts DEF Execute, IsList
<1>4. queue[1].barriers \in {{}, {Open(o)}, {Close(o)}}
  BY <1>1, <1>3 DEF Ordered
<1>5. backBuffer' = [f \in Frame |->
        IF \E b \in queue[1].barriers : b.buffer = f
          THEN (CHOOSE b \in queue[1].barriers : b.buffer = f).after ELSE backBuffer[f]]
  BY <1>3 DEF Execute
<1>6. Ordered(o)'
  BY <1>1, <1>2, FirstLeaves
<1>7. /\ SomeOpens(o) <=> Opens(o, 1) \/ SomeOpens(o)'
      /\ SomeCloses(o) <=> Closes(o, 1) \/ SomeCloses(o)'
      /\ Opens(o, 1) => ~SomeOpens(o)'
      /\ Closes(o, 1) => ~SomeOpens(o)' /\ ~SomeCloses(o)'
  BY <1>1, <1>2, FirstLeaves
<1>8. CASE queue[1].barriers = {}
  <2>1. backBuffer' = backBuffer
    BY <1>2, <1>5, <1>8
  <2>2. ~Opens(o, 1) /\ ~Closes(o, 1)
    BY <1>8 DEF Opens, Closes
  <2>3. InState(o)'
    BY <1>1, <1>2, <1>7, <2>1, <2>2 DEF InState
  <2> QED BY <1>6, <2>3 DEF BarrierInv
<1>9. CASE queue[1].barriers = {Open(o)}
  <2>1. backBuffer' = [backBuffer EXCEPT ![o] = "target"]
    <3>1. \A f \in Frame : (\E b \in queue[1].barriers : b.buffer = f) <=> f = o
      BY <1>9, BarrierFacts
    <3>2. (CHOOSE b \in queue[1].barriers : b.buffer = o) = Open(o)
      BY <1>9, BarrierFacts
    <3>3. \A f \in Frame : backBuffer'[f] = IF f = o THEN "target" ELSE backBuffer[f]
      BY <1>5, <3>1, <3>2, BarrierFacts
    <3> QED BY <1>2, <1>5, <3>3
  <2>2. Opens(o, 1) /\ ~Closes(o, 1)
    BY <1>3, <1>9, BarrierFacts DEF Opens, Closes
  <2>3. InState(o)'
    BY <1>1, <1>2, <1>7, <2>1, <2>2 DEF InState
  <2> QED BY <1>6, <2>3 DEF BarrierInv
<1>10. CASE queue[1].barriers = {Close(o)}
  <2>1. backBuffer' = [backBuffer EXCEPT ![o] = "present"]
    <3>1. \A f \in Frame : (\E b \in queue[1].barriers : b.buffer = f) <=> f = o
      BY <1>10, BarrierFacts
    <3>2. (CHOOSE b \in queue[1].barriers : b.buffer = o) = Close(o)
      BY <1>10, BarrierFacts
    <3>3. \A f \in Frame : backBuffer'[f] = IF f = o THEN "present" ELSE backBuffer[f]
      BY <1>5, <3>1, <3>2, BarrierFacts
    <3> QED BY <1>2, <1>5, <3>3
  <2>2. Closes(o, 1)
    BY <1>3, <1>10 DEF Closes
  <2>3. InState(o)'
    BY <1>1, <1>2, <1>7, <2>1, <2>2 DEF InState
  <2> QED BY <1>6, <2>3 DEF BarrierInv
<1> QED BY <1>4, <1>8, <1>9, <1>10

(* BarrierInv is preserved. *)
LEMMA BarrierStep == Typed /\ SyncInv /\ BarrierInv /\ [Next]_allVars => BarrierInv'
PROOF
<1> SUFFICES ASSUME Typed, SyncInv, BarrierInv, [Next]_allVars PROVE BarrierInv'
  OBVIOUS
<1>1. Sync
  BY SyncSteps
<1>2. SyncType /\ queue \in Seq(Command)
  BY DEF Typed, TypeOK, SyncType, BackBufferState
<1> USE <1>2
<1>3. PICK o \in Frame : Ordered(o) /\ InState(o)
  BY DEF BarrierInv
<1>4. ASSUME NEW m \in Command, m.op = "exec" => m.barriers = {}, queue' = Append(queue, m),
             backBuffer' = backBuffer, index' = index,
             pc' = pc \/ (pc = "stop" /\ pc' = "stopwait")
      PROVE  BarrierInv'
  <2>1. Ordered(o)' /\ (SomeOpens(o)' <=> SomeOpens(o)) /\ (SomeCloses(o)' <=> SomeCloses(o))
    BY <1>3, <1>4, PlainJoins
  <2>2. InState(o)'
    BY <1>3, <1>4, <2>1 DEF InState
  <2> QED BY <2>1, <2>2 DEF BarrierInv
<1>5. ASSUME queue' = queue, backBuffer' = backBuffer, index' = index,
             \/ pc' = pc
             \/ pc = "wait" /\ pc' = "begin"
             \/ pc = "begin" /\ pc' = "resize"
             \/ pc' \in {"stop", "stopwait", "down"}
      PROVE  BarrierInv'
  <2>1. Ordered(o)' /\ (SomeOpens(o)' <=> SomeOpens(o)) /\ (SomeCloses(o)' <=> SomeCloses(o))
    BY <1>3, <1>5 DEF Ordered, SomeOpens, SomeCloses, Opens, Closes, IsList, Open, Close
  <2>2. InState(o)'
    BY <1>3, <1>5, <2>1 DEF InState
  <2> QED BY <2>1, <2>2 DEF BarrierInv
<1>6. ASSUME NEW l \in List, SubmitList(l) PROVE BarrierInv'
  <2>1. Exec({l}, {}) \in Command /\ Exec({l}, {}).barriers = {}
    BY ExecFacts
  <2> QED BY <1>4, <1>6, <2>1 DEF SubmitList
<1>7. CASE Present
  BY <1>7, PresentState
<1>8. CASE Wait
  BY <1>5, <1>8 DEF Wait, WaitForFenceValue, At
<1>9. CASE BeginNewFrame
  <2>1. Idle /\ pc = "begin"
    BY <1>9 DEF BeginNewFrame, At, Blocked, SyncInv, Awaiting
  <2>2. \A g \in Frame : backBuffer[g] = "present"
    BY <1>3, <2>1, IdleNone DEF InState
  <2>3. CASE needResize
    BY <1>5, <1>9, <2>1, <2>3 DEF BeginNewFrame
  <2>4. CASE ~needResize
    <3>1. pc' = "record" /\ queue' = Prologue(index) /\ index' = index /\ backBuffer' = backBuffer
      BY <1>9, <2>4 DEF BeginNewFrame
    <3>2. index \in Frame /\ \A g \in Frame : backBuffer'[g] = "present"
      BY <2>2, <3>1 DEF SyncType
    <3> QED BY <2>1, <3>1, <3>2, PrologueState
  <2> QED BY <2>3, <2>4
<1>10. CASE SignalOld
  <2>1. frameFence[turn] \in Nat
    BY <1>10, FrameFacts DEF SignalOld, SyncType
  <2>2. Signal(frameFence[turn]) \in Command /\ Signal(frameFence[turn]).op # "exec"
    BY <2>1, SignalFacts
  <2> QED BY <1>4, <1>10, <2>2 DEF SignalOld
<1>11. CASE ResizeBuffers
  <2>1. Idle
    BY <1>11 DEF ResizeBuffers, At, SyncInv
  <2>2. /\ pc' = "record" /\ queue' = Prologue(0) /\ index' = 0 /\ 0 \in Frame
        /\ \A g \in Frame : backBuffer'[g] = "present"
    BY <1>11, FrameFacts DEF ResizeBuffers
  <2> QED BY <2>1, <2>2, PrologueState
<1>12. CASE Shutdown
  BY <1>5, <1>12 DEF Shutdown, device
<1>13. CASE StopSignal
  <2>1. fenceValue + 1 \in Nat
    BY DEF SyncType
  <2>2. /\ queue' = Append(queue, Signal(fenceValue + 1))
        /\ Signal(fenceValue + 1) \in Command /\ Signal(fenceValue + 1).op # "exec"
    BY <1>13, <2>1, SignalFacts, AppendSignal DEF StopSignal, SignalFence
  <2> QED BY <1>4, <1>13, <2>2 DEF StopSignal, At
<1>14. CASE StopWait
  BY <1>5, <1>14 DEF StopWait, WaitForFenceValue
<1>15. CASE ReleaseAll
  BY <1>5, <1>15 DEF ReleaseAll, device
<1>16. CASE Woken
  BY <1>5, <1>16 DEF Woken
<1>17. CASE Execute
  BY <1>17, ExecuteState
<1>18. CASE SetFence
  <2>1. /\ queue # <<>> /\ queue' = Tail(queue) /\ pc' = pc /\ index' = index
        /\ backBuffer' = backBuffer /\ ~IsList(1)
    BY <1>18, TailFacts DEF SetFence, IsList
  <2>2. /\ Ordered(o)' /\ (SomeOpens(o)' <=> SomeOpens(o)) /\ (SomeCloses(o)' <=> SomeCloses(o))
    BY <1>3, <2>1, FirstLeaves DEF Opens, Closes
  <2>3. InState(o)'
    BY <1>3, <2>1, <2>2 DEF InState
  <2> QED BY <2>2, <2>3 DEF BarrierInv
<1>19. CASE Quiet
  BY <1>5, <1>19 DEF Quiet
<1> QED BY <1>1, <1>6, <1>7, <1>8, <1>9, <1>10, <1>11, <1>12, <1>13, <1>14, <1>15, <1>16,
           <1>17, <1>18, <1>19 DEF Sync

-----------------------------------------------------------------------------
(* What is used is kept. *)

(* A lock or a cache that stays keeps what it kept. *)
LEMMA KeptStays ==
  ASSUME \A f \in Frame : locks[f] \subseteq locks'[f] /\ listLocks[f] \subseteq listLocks'[f],
         held \cap Cached \subseteq held', NEW x, Kept(x)
  PROVE  Kept(x)'
PROOF BY DEF Kept

(* A step that adds nothing to the queue. *)
LEMMA UsesStay ==
  ASSUME queue \in Seq(Command), queue' = queue \/ (queue # <<>> /\ queue' = Tail(queue))
  PROVE  \A i \in DOMAIN queue' : \E j \in DOMAIN queue : queue'[i] = queue[j]
PROOF
<1>1. CASE queue' = queue
  BY <1>1
<1>2. CASE queue # <<>> /\ queue' = Tail(queue)
  <2>1. /\ Len(queue) \in Nat \ {0} /\ DOMAIN queue = 1 .. Len(queue)
        /\ DOMAIN queue' = 1 .. Len(queue) - 1
        /\ \A i \in 1 .. Len(queue) - 1 : queue'[i] = queue[i + 1]
    BY <1>2, TailFacts
  <2>2. \A i \in DOMAIN queue' : i + 1 \in DOMAIN queue /\ queue'[i] = queue[i + 1]
    BY <2>1
  <2> QED BY <2>2
<1> QED BY <1>1, <1>2

(* A step that adds one command to the queue. *)
LEMMA UsesJoin ==
  ASSUME queue \in Seq(Command), NEW m \in Command, queue' = Append(queue, m)
  PROVE  \A i \in DOMAIN queue' : queue'[i] = m \/ \E j \in DOMAIN queue : queue'[i] = queue[j]
PROOF
<1>1. /\ DOMAIN queue = 1 .. Len(queue) /\ Len(queue) \in Nat
      /\ DOMAIN queue' = 1 .. Len(queue) + 1
      /\ \A i \in 1 .. Len(queue) : queue'[i] = queue[i]
      /\ queue'[Len(queue) + 1] = m
  BY AppendFacts
<1> QED BY <1>1

(* Most steps: what is used stays, so do the binding and the phase. *)
LEMMA SameUse ==
  ASSUME Typed, UseInv, queue' = queue \/ (queue # <<>> /\ queue' = Tail(queue)),
         \A f \in Frame : locks[f] \subseteq locks'[f] /\ listLocks[f] \subseteq listLocks'[f],
         held \cap Cached \subseteq held', recorded' = recorded, set' = set, bound' = bound,
         index' = index, rendering' = rendering,
         \/ pc' = pc
         \/ ~rendering /\ pc = "stopwait" /\ pc' = "stop"
         \/ ~rendering /\ pc' \in {"begin", "resize", "down"}
  PROVE  UseInv'
PROOF
<1>1. queue \in Seq(Command) /\ index \in Frame
  BY DEF Typed, TypeOK
<1>2. \A i \in DOMAIN queue' : \E j \in DOMAIN queue : queue'[i] = queue[j]
  BY <1>1, UsesStay
<1>3. \A x : Kept(x) => Kept(x)'
  BY KeptStays
<1>4. \A i \in DOMAIN queue' : IsList(i)' => \A x \in queue'[i].uses : Kept(x)'
  BY <1>2, <1>3 DEF UseInv, IsList
<1>5. \A x \in recorded' : Kept(x)'
  BY <1>3 DEF UseInv
<1>6. pc' = "record" => \A i \in DOMAIN queue' : IsList(i)' => queue'[i].uses \subseteq List
  BY <1>2 DEF UseInv, IsList
<1>7. pc' \in {"record", "stop", "stopwait"} /\ ~rendering' =>
        \A i \in DOMAIN queue' : IsList(i)' => queue'[i].uses = {}
  BY <1>2 DEF UseInv, IsList
<1>8. \A s \in set' : bound'[s] \in locks'[index']
  BY <1>1 DEF UseInv
<1> QED BY <1>4, <1>5, <1>6, <1>7, <1>8 DEF UseInv

(* A step of a node that records: the queue is the same, and what it adds to
   the list, or binds, is kept. *)
LEMMA Records ==
  ASSUME Typed, UseInv, rendering, rendering', queue' = queue, pc' = pc, index' = index,
         \A f \in Frame : locks[f] \subseteq locks'[f] /\ listLocks[f] \subseteq listLocks'[f],
         held \cap Cached \subseteq held',
         \A x \in recorded' : x \in recorded \/ Kept(x)',
         \A s \in set' : bound'[s] \in locks'[index']
  PROVE  UseInv'
PROOF
<1>1. \A x : Kept(x) => Kept(x)'
  BY KeptStays
<1>2. \A i \in DOMAIN queue' : IsList(i)' => \A x \in queue'[i].uses : Kept(x)'
  BY <1>1 DEF UseInv, IsList
<1>3. \A x \in recorded' : Kept(x)'
  BY <1>1 DEF UseInv
<1>4. pc' = "record" => \A i \in DOMAIN queue' : IsList(i)' => queue'[i].uses \subseteq List
  BY DEF UseInv, IsList
<1> QED BY <1>2, <1>3, <1>4 DEF UseInv

(* The lists of a frame's recording, but the frame's own. *)
LEMMA CallUse ==
  ASSUME Typed, UseInv, Call
  PROVE  UseInv'
PROOF
<1>1. /\ rendering /\ rendering' /\ set' = set /\ index \in Frame /\ queue \in Seq(Command)
      /\ locks \in [Frame -> SUBSET Resource] /\ listLocks \in [Frame -> SUBSET List]
      /\ \A s \in set : bound[s] \in locks[index]
  BY DEF Call, Typed, TypeOK, UseInv
<1>2. ASSUME NEW slots \in SUBSET set, Draw(slots) PROVE UseInv'
  <2>1. /\ queue' = queue /\ pc' = pc /\ index' = index /\ locks' = locks
        /\ listLocks' = listLocks /\ held' = held /\ bound' = bound
        /\ recorded' = recorded \cup ({bound[s] : s \in slots} \ {None})
    BY <1>2 DEF Draw, device
  <2>2. \A s \in slots : Kept(bound[s])'
    BY <1>1, <2>1 DEF Kept
  <2> QED BY <1>1, <2>1, <2>2, Records
<1>3. ASSUME NEW a \in Resource, NEW b \in Resource, Blit(a, b) PROVE UseInv'
  <2>1. /\ queue' = queue /\ pc' = pc /\ index' = index
        /\ locks' = [locks EXCEPT ![index] = @ \cup {a, b}]
        /\ listLocks' = listLocks /\ held' = held /\ bound' = bound
        /\ recorded' = recorded \cup {a, b}
    BY <1>3 DEF Blit, device
  <2>2. /\ \A f \in Frame : locks[f] \subseteq locks'[f]
        /\ a \in locks'[index] /\ b \in locks'[index]
    BY <1>1, <2>1
  <2>3. Kept(a)' /\ Kept(b)'
    BY <1>1, <2>2 DEF Kept
  <2> QED BY <1>1, <2>1, <2>2, <2>3, Records
<1>4. ASSUME NEW c \in Cached, Clear(c) PROVE UseInv'
  <2>1. /\ queue' = queue /\ pc' = pc /\ index' = index /\ locks' = locks
        /\ listLocks' = listLocks /\ held' = held /\ bound' = bound
        /\ recorded' = recorded \cup {c} /\ c \in held
    BY <1>4 DEF Clear, device
  <2>2. Kept(c)'
    BY <2>1 DEF Kept
  <2> QED BY <1>1, <2>1, <2>2, Records
<1>5. ASSUME NEW l \in List, SubmitList(l) PROVE UseInv'
  <2> DEFINE m == Exec({l}, {})
  <2>1. /\ pc = "record" /\ pc' = pc /\ index' = index /\ locks' = locks /\ held' = held
        /\ bound' = bound /\ recorded' = recorded /\ queue' = Append(queue, m)
        /\ listLocks' = [listLocks EXCEPT ![index] = @ \cup {l}]
    BY <1>5 DEF SubmitList, At
  <2>2. m \in Command /\ m.uses = {l}
    BY ExecFacts
  <2> HIDE DEF m
  <2>3. \A i \in DOMAIN queue' : queue'[i] = m \/ \E j \in DOMAIN queue : queue'[i] = queue[j]
    BY <1>1, <2>1, <2>2, UsesJoin
  <2>4. \A f \in Frame : listLocks[f] \subseteq listLocks'[f] /\ l \in listLocks'[index]
    BY <1>1, <2>1
  <2>5. Kept(l)'
    BY <1>1, <2>4 DEF Kept
  <2>6. \A x : Kept(x) => Kept(x)'
    BY <2>1, <2>4, KeptStays
  <2>7. \A i \in DOMAIN queue' : IsList(i)' => \A x \in queue'[i].uses : Kept(x)'
    BY <2>2, <2>3, <2>5, <2>6 DEF UseInv, IsList
  <2>8. \A i \in DOMAIN queue' : IsList(i)' => queue'[i].uses \subseteq List
    BY <2>1, <2>2, <2>3 DEF UseInv, IsList
  <2>9. \A x \in recorded' : Kept(x)'
    BY <2>1, <2>6 DEF UseInv
  <2> QED BY <1>1, <2>1, <2>7, <2>8, <2>9 DEF UseInv
<1> QED BY <1>2, <1>3, <1>4, <1>5 DEF Call

(* The frame's list uses what was recorded, and nothing is recorded any more. *)
LEMMA EndUse ==
  ASSUME Typed, UseInv, EndRender
  PROVE  UseInv'
PROOF
<1> DEFINE m == Exec(recorded, {Close(index)})
<1> DEFINE n == Signal(fenceValue + 1)
<1>1. /\ queue \in Seq(Command) /\ recorded \in SUBSET Resource /\ fenceValue + 1 \in Nat
      /\ index \in Frame
  BY DEF Typed, TypeOK
<1>2. /\ pc' = "wait" /\ queue' = queue \o <<m>> \o <<n>> /\ ~rendering' /\ set' = {}
      /\ recorded' = {} /\ locks' = locks /\ listLocks' = listLocks /\ held' = held
  BY DEF EndRender, Present, SignalFence, Close
<1>3. m \in Command /\ m.uses = recorded /\ n \in Command /\ n.op # "exec"
  BY <1>1, BarrierFacts, ExecFacts, SignalFacts
<1> HIDE DEF m, n
<1>4. /\ DOMAIN queue = 1 .. Len(queue) /\ Len(queue) \in Nat
      /\ DOMAIN queue' = 1 .. Len(queue) + 2
      /\ \A i \in 1 .. Len(queue) : queue'[i] = queue[i]
      /\ queue'[Len(queue) + 1] = m
      /\ queue'[Len(queue) + 2] = n
  BY <1>1, <1>2, <1>3, AppendTwoFacts
<1>5. \A i \in DOMAIN queue' :
        IsList(i)' => queue'[i] = m \/ \E j \in DOMAIN queue : queue'[i] = queue[j]
  BY <1>3, <1>4 DEF IsList
<1>6. \A x : Kept(x)' <=> Kept(x)
  BY <1>2 DEF Kept
<1>7. \A i \in DOMAIN queue' : IsList(i)' => \A x \in queue'[i].uses : Kept(x)'
  BY <1>3, <1>5, <1>6 DEF UseInv, IsList
<1> QED BY <1>2, <1>7 DEF UseInv

(* A prologue that joins an idle queue uses nothing. *)
LEMMA PrologueUse ==
  ASSUME queue \in Seq(Command), Idle, NEW f \in Frame, queue' = Prologue(f),
         ~rendering', recorded' = {}, set' = {}
  PROVE  UseInv'
PROOF
<1> DEFINE m == Exec({}, {Open(f)})
<1>1. m \in Command /\ m.uses = {}
  BY BarrierFacts, ExecFacts
<1>2. queue' = Append(queue, m)
  BY DEF Prologue, Open
<1> HIDE DEF m
<1>3. \A i \in DOMAIN queue' : queue'[i] = m \/ \E j \in DOMAIN queue : queue'[i] = queue[j]
  BY <1>1, <1>2, UsesJoin
<1>4. \A i \in DOMAIN queue' : IsList(i)' => queue'[i].uses = {}
  BY <1>1, <1>3 DEF Idle, IsList
<1> QED BY <1>4 DEF UseInv

(* A signal uses nothing. *)
LEMMA SignalUse ==
  ASSUME Typed, UseInv, NEW v \in Nat, queue' = Append(queue, Signal(v)),
         UNCHANGED holders, UNCHANGED <<index, rendering, set>>,
         pc' = pc \/ (pc = "stop" /\ pc' = "stopwait")
  PROVE  UseInv'
PROOF
<1>1. queue \in Seq(Command)
  BY DEF Typed
<1>2. Signal(v) \in Command /\ Signal(v).op # "exec"
  BY SignalFacts
<1>3. \A i \in DOMAIN queue' : IsList(i)' => \E j \in DOMAIN queue : queue'[i] = queue[j]
  BY <1>1, <1>2, UsesJoin DEF IsList
<1>4. \A x : Kept(x)' <=> Kept(x)
  BY DEF Kept, holders
<1>5. \A i \in DOMAIN queue' : IsList(i)' => \A x \in queue'[i].uses : Kept(x)'
  BY <1>3, <1>4 DEF UseInv, IsList
<1>6. pc' = "record" => \A i \in DOMAIN queue' : IsList(i)' => queue'[i].uses \subseteq List
  BY <1>3 DEF UseInv, IsList
<1>7. pc' \in {"record", "stop", "stopwait"} /\ ~rendering' =>
        \A i \in DOMAIN queue' : IsList(i)' => queue'[i].uses = {}
  BY <1>3 DEF UseInv, IsList
<1> QED BY <1>4, <1>5, <1>6, <1>7 DEF UseInv, holders

(* What the context does on its own releases nothing that is used. *)
LEMMA OwnUse ==
  ASSUME Typed, SyncInv, UseInv, OnItsOwn(Between \/ Device)
  PROVE  UseInv'
PROOF
<1>1. /\ rendering' = rendering /\ set' = set
      /\ queue \in Seq(Command) /\ index \in Frame /\ SyncType
  BY DEF OnItsOwn, Typed, TypeOK, SyncType, BackBufferState
<1>2. pc # "record" => ~rendering /\ recorded = {} /\ set = {}
  BY DEF UseInv
<1>3. CASE Woken
  BY <1>1, <1>3, SameUse DEF Woken, holders
<1>4. CASE Wait
  BY <1>1, <1>2, <1>4, SameUse DEF Wait, WaitForFenceValue, At, holders
<1>5. CASE BeginNewFrame
  <2>1. Idle /\ pc = "begin"
    BY <1>5 DEF BeginNewFrame, At, Blocked, SyncInv, Awaiting
  <2>2. recorded' = {} /\ set' = {} /\ ~rendering'
    BY <1>1, <1>2, <1>5, <2>1 DEF BeginNewFrame
  <2>3. CASE needResize
    BY <1>5, <2>1, <2>2, <2>3 DEF BeginNewFrame, UseInv, Idle, IsList
  <2>4. CASE ~needResize
    BY <1>1, <1>5, <2>1, <2>2, <2>4, PrologueUse DEF BeginNewFrame
  <2> QED BY <2>3, <2>4
<1>6. CASE SignalOld
  <2>1. frameFence[turn] \in Nat
    BY <1>1, <1>6, FrameFacts DEF SignalOld, SyncType
  <2> QED BY <1>1, <1>6, <2>1, SignalUse DEF SignalOld
<1>7. CASE ResizeBuffers
  <2>1. Idle /\ pc = "resize"
    BY <1>7 DEF ResizeBuffers, At, SyncInv
  <2>2. recorded' = {} /\ set' = {} /\ ~rendering' /\ queue' = Prologue(0) /\ 0 \in Frame
    BY <1>1, <1>2, <1>7, <2>1, FrameFacts DEF ResizeBuffers
  <2> QED BY <1>1, <2>1, <2>2, PrologueUse
<1>8. CASE StopSignal
  <2>1. fenceValue + 1 \in Nat
    BY <1>1 DEF SyncType
  <2>2. queue' = Append(queue, Signal(fenceValue + 1))
    BY <1>1, <1>8, <2>1, SignalFacts, AppendSignal DEF StopSignal, SignalFence
  <2> QED BY <1>1, <1>8, <2>1, <2>2, SignalUse DEF StopSignal, At
<1>9. CASE StopWait
  BY <1>1, <1>2, <1>9, SameUse DEF StopWait, WaitForFenceValue, At, holders
<1>10. CASE ReleaseAll
  <2>1. pc = "stop" /\ turn > 0 /\ awaits = None
    BY <1>10, FrameFacts DEF ReleaseAll, At, Blocked
  <2>2. Idle
    BY <2>1 DEF SyncInv, Awaiting
  <2>3. /\ recorded' = {} /\ set' = {} /\ ~rendering' /\ pc' = "down" /\ queue' = queue
    BY <1>1, <1>2, <1>10, <2>1 DEF ReleaseAll, device
  <2> QED BY <2>2, <2>3 DEF UseInv, Idle, IsList
<1>11. CASE Execute \/ SetFence
  BY <1>1, <1>11, SameUse DEF Execute, SetFence, holders
<1> QED BY <1>3, <1>4, <1>5, <1>6, <1>7, <1>8, <1>9, <1>10, <1>11 DEF OnItsOwn, Between, Device

(* UseInv is preserved. *)
LEMMA UseStep == Typed /\ SyncInv /\ UseInv /\ [Next]_allVars => UseInv'
PROOF
<1> SUFFICES ASSUME Typed, SyncInv, UseInv, [Next]_allVars PROVE UseInv'
  OBVIOUS
<1>1. /\ index \in Frame /\ queue \in Seq(Command) /\ held \subseteq Resource
      /\ locks \in [Frame -> SUBSET Resource] /\ listLocks \in [Frame -> SUBSET List]
      /\ bound \in [Slot -> Resource \cup {None}] /\ set \subseteq Slot
      /\ \A s \in set : bound[s] \in locks[index]
  BY DEF Typed, TypeOK, UseInv
<1>2. CASE UNCHANGED allVars
  BY <1>2, SameUse DEF allVars
<1>3. CASE BeginRender
  <2>1. /\ pc = "record" /\ ~rendering /\ rendering' /\ set' = set /\ UNCHANGED vars
    BY <1>3 DEF BeginRender, At
  <2> QED BY <2>1 DEF UseInv, vars, Kept, IsList
<1>4. ASSUME NEW k \in Kind, HandOut(k) PROVE UseInv'
  BY <1>1, <1>4, SameUse DEF HandOut, device
<1>5. ASSUME NEW r \in Resource, NEW s \in Slot, Bind(r, s), rendering, rendering',
             set' = set \cup {s}
      PROVE  UseInv'
  <2>1. /\ queue' = queue /\ pc' = pc /\ index' = index
        /\ locks' = [locks EXCEPT ![index] = @ \cup {r}]
        /\ bound' = [bound EXCEPT ![s] = r]
        /\ listLocks' = listLocks /\ held' = held /\ recorded' = recorded
    BY <1>5 DEF Bind, device
  <2>2. \A f \in Frame : locks[f] \subseteq locks'[f]
    BY <1>1, <2>1
  <2>3. \A x \in set' : bound'[x] \in locks'[index']
    BY <1>1, <1>5, <2>1
  <2> QED BY <1>5, <2>1, <2>2, <2>3, Records
<1>6. ASSUME NEW c \in Cached, BindConstants(c) PROVE UseInv'
  BY <1>5, <1>6, Kinds DEF BindConstants
<1>7. ASSUME NEW r \in Resource, BindSection(r) PROVE UseInv'
  BY <1>5, <1>7, Kinds DEF BindSection
<1>8. CASE Call
  BY <1>8, CallUse
<1>9. CASE ToBuffer
  <2>1. PICK x \in Temp : Create(x) \/ Drop(x)
    BY <1>9 DEF ToBuffer
  <2>2. held \cap Cached \subseteq held'
    BY <2>1, Kinds DEF Create, Drop
  <2>3. /\ UNCHANGED <<queue, locks, listLocks, recorded, bound, index, pc>>
        /\ rendering' = rendering /\ set' = set
    BY <1>9, <2>1 DEF ToBuffer, Create, Drop, device
  <2> QED BY <2>2, <2>3, SameUse
<1>10. CASE EndRender
  BY <1>10, EndUse
<1>11. CASE WindowResized /\ UNCHANGED <<rendering, set, caches>>
  BY <1>11, SameUse DEF WindowResized, device, holders
<1>12. CASE Shutdown /\ ~rendering /\ UNCHANGED <<rendering, set, caches>>
  <2>1. /\ pc = "record" /\ pc' = "stop" /\ queue' = queue /\ recorded' = recorded
        /\ ~rendering /\ ~rendering' /\ set' = set
    BY <1>12 DEF Shutdown, At, device
  <2>2. recorded = {} /\ set = {} /\ \A i \in DOMAIN queue : IsList(i) => queue[i].uses = {}
    BY <2>1 DEF UseInv
  <2> QED BY <2>1, <2>2 DEF UseInv, IsList
<1>13. CASE OnItsOwn(Between) \/ OnItsOwn(Device)
  BY <1>13, OwnUse DEF OnItsOwn
<1> QED BY <1>2, <1>3, <1>4, <1>6, <1>7, <1>8, <1>9, <1>10, <1>11, <1>12, <1>13, Kinds
        DEF Next, GetBuffer, GetImage

-----------------------------------------------------------------------------
(* The theorems. *)

(* The invariant holds when the context has been set up. *)
LEMMA InitInv == Init => IInv
PROOF
<1> SUFFICES ASSUME Init PROVE IInv
  OBVIOUS
<1> DEFINE m == Exec({}, {Open(0)})
<1>1. m \in Command /\ m.op = "exec" /\ m.uses = {} /\ m.barriers = {Open(0)} /\ Open(0) # Close(0)
  BY FrameFacts, BarrierFacts, ExecFacts
<1>2. queue = <<m>>
  BY DEF Init, FrameInit, Open
<1> HIDE DEF m
<1>3. queue \in Seq(Command) /\ DOMAIN queue = {1} /\ queue[1] = m
  BY <1>1, <1>2
<1>4. Typed
  <2>1. SyncType
    <3>1. backBuffer \in [Frame -> BackBufferState] /\ frameFence \in [Frame -> Nat]
      BY DEF Init, FrameInit, BackBufferState
    <3>2. 0 \in 0 .. NumFrames
      BY FrameFacts
    <3> QED BY <3>1, <3>2, FrameFacts DEF Init, FrameInit, SyncType
  <2>2. HeldType /\ CacheType
    BY Kinds DEF Init, FrameInit, HeldType, CacheType
  <2> QED BY <1>3, <2>1, <2>2 DEF Typed, TypeOK, SyncType, HeldType, CacheType, BackBufferState
<1>5. ValuesInv
  BY <1>1, <1>3 DEF Init, FrameInit, ValuesInv, IsSignal
<1>6. SyncInv
  BY DEF Init, FrameInit, SyncInv, Awaiting
<1>7. Ordered(0) /\ SomeOpens(0) /\ ~SomeCloses(0)
  BY <1>1, <1>3 DEF Ordered, SomeOpens, SomeCloses, Opens, Closes, IsList, Open, Close
<1>8. BarrierInv
  BY <1>7, FrameFacts DEF Init, FrameInit, BarrierInv, InState
<1>9. UseInv
  BY <1>1, <1>3 DEF Init, FrameInit, UseInv, IsList
<1> QED BY <1>4, <1>5, <1>6, <1>8, <1>9 DEF IInv

(* Every step preserves it. *)
LEMMA StepInv == IInv /\ [Next]_allVars => IInv'
PROOF BY TypeStep, ValuesStep, SyncStep, BarrierStep, UseStep DEF IInv

(* It holds in every reachable state. *)
LEMMA Invariant == Spec => []IInv
PROOF BY InitInv, StepInv, PTL DEF Spec

(* Types, for any number of back buffers, frames and resources. *)
THEOREM RenderType == Spec => []TypeOK
PROOF
<1>1. IInv => TypeOK
  BY DEF IInv, Typed
<1> QED BY <1>1, Invariant, PTL

(* present and shutdown wait for all that was submitted, although a rebuild of
   the swap chain moves the fence back and leaves old signals in the queue:
   no list is behind a signal of the value that is awaited. *)
THEOREM GPUIsIdle == Spec => []NothingExecuting
PROOF
<1>1. IInv => NothingExecuting
  BY Idleness DEF IInv, SyncInv, Awaiting, At, Blocked, NothingExecuting
<1> QED BY <1>1, Invariant, PTL

(* A lock outlives the use by the GPU, whatever is bound, dropped or rebuilt
   meanwhile. *)
THEOREM UsedStaysAlive == Spec => []UsedIsAlive
PROOF
<1>1. ASSUME IInv PROVE UsedIsAlive
  <2>1. \A x : Kept(x) => Alive(x)
    BY DEF Kept, Alive
  <2>2. \A x \in Queued : Kept(x)
    BY <1>1 DEF Queued, Executing, IInv, UseInv, IsList
  <2> QED BY <1>1, <2>1, <2>2 DEF IInv, UseInv, UsedIsAlive
<1> QED BY <1>1, Invariant, PTL

(* Every barrier names the state the back buffer is in, for any number of
   back buffers: the prologue and the frame's list name the same one although
   present moves the index and a rebuild starts again at the first. *)
THEOREM BarriersAlwaysMatch == Spec => []BarriersMatch
PROOF
<1>1. ASSUME IInv PROVE BarriersMatch
  <2> SUFFICES ASSUME queue # <<>>, Head(queue).op = "exec", NEW b \in Head(queue).barriers
               PROVE  backBuffer[b.buffer] = b.before
    BY DEF BarriersMatch
  <2>1. PICK o \in Frame : Ordered(o) /\ InState(o)
    BY <1>1 DEF IInv, BarrierInv
  <2>2. Head(queue) = queue[1] /\ 1 \in DOMAIN queue /\ IsList(1)
    BY <1>1, TailFacts DEF IInv, Typed, IsList
  <2>3. CASE queue[1].barriers = {Open(o)}
    <3>1. SomeOpens(o)
      BY <2>2, <2>3 DEF SomeOpens, Opens
    <3> QED BY <2>1, <2>2, <2>3, <3>1, BarrierFacts DEF InState
  <2>4. CASE queue[1].barriers = {Close(o)}
    <3>1. SomeCloses(o) /\ Closes(o, 1) /\ ~Opens(o, 1)
      BY <2>2, <2>4, BarrierFacts DEF SomeCloses, Closes, Opens
    <3>2. \A j \in DOMAIN queue : j = 1 \/ 1 < j
      BY <1>1, QueueFacts DEF IInv, Typed
    <3>3. ~SomeOpens(o)
      BY <2>1, <2>2, <3>1, <3>2 DEF SomeOpens, Ordered
    <3> QED BY <2>1, <2>2, <2>4, <3>1, <3>3, BarrierFacts DEF InState
  <2> QED BY <2>1, <2>2, <2>3, <2>4 DEF Ordered
<1> QED BY <1>1, Invariant, PTL

(* Constants are written while a frame is recorded, and then the GPU has
   nothing left to execute that reads a resource. *)
THEOREM WritesOnlyWhenIdle == Spec => WritesWhenIdle
PROOF
<1>1. ASSUME IInv, [Next]_allVars
      PROVE  [\A c \in Cached : content'[c] # content[c] => c \notin Queued]_allVars
  <2> SUFFICES ASSUME NEW c \in Cached, content'[c] # content[c], c \in Queued PROVE FALSE
    OBVIOUS
  <2>1. \E d \in Cached : BindConstants(d)
    BY <1>1 DEF Next, OnItsOwn, BeginRender, GetBuffer, GetImage, HandOut, BindSection, Call,
       ToBuffer, EndRender, caches, allVars
  <2>2. pc = "record"
    BY <2>1 DEF BindConstants, Bind, At
  <2>3. Queued \subseteq List
    BY <1>1, <2>2 DEF Queued, Executing, IInv, UseInv, IsList
  <2> QED BY <2>3, Kinds, FrameAssumption
<1> QED BY <1>1, Invariant, PTL DEF Spec, WritesWhenIdle

-----------------------------------------------------------------------------
(* What present, a rebuild and shutdown wait for is signalled.  This is the
   part of EveryWaitEnds that is not about fairness. *)

(* When present or shutdown is about to wait, the signal of the value it has
   counted is the last command, or the GPU has done everything. *)
LastInv ==
  pc \in {"wait", "stopwait"} =>
    /\ awaits = None
    /\ queue = <<>> => fence = fenceValue
    /\ queue # <<>> => queue[Len(queue)] = Signal(fenceValue)

(* A signal large enough to set the event is in the queue. *)
AwaitedIsSignalled ==
  awaits # None => \E i \in DOMAIN queue : IsSignal(i) /\ queue[i].value >= awaits

(* Whoever waits for the last value counted waits for the last command. *)
LEMMA WaitsForComing ==
  ASSUME queue \in Seq(Command), fence \in Nat, fenceValue \in Nat,
         awaits = None, queue' = queue,
         queue = <<>> => fence = fenceValue,
         queue # <<>> => queue[Len(queue)] = Signal(fenceValue),
         NEW l, WaitForFenceValue(fenceValue, l)
  PROVE  AwaitedIsSignalled'
PROOF
<1>1. CASE fence < fenceValue
  <2>1. awaits' = fenceValue
    BY <1>1 DEF WaitForFenceValue, SetEventOnCompletion
  <2>2. queue # <<>> /\ Len(queue) \in DOMAIN queue
    BY <1>1
  <2>3. queue[Len(queue)].op = "signal" /\ queue[Len(queue)].value = fenceValue
    BY <2>2, SignalFacts
  <2> QED BY <2>1, <2>2, <2>3 DEF AwaitedIsSignalled, IsSignal
<1>2. CASE ~(fence < fenceValue)
  BY <1>2 DEF WaitForFenceValue, AwaitedIsSignalled
<1> QED BY <1>1, <1>2

(* Both are preserved. *)
LEMMA AwaitedStep ==
  Typed /\ ValuesInv /\ LastInv /\ AwaitedIsSignalled /\ [Next]_allVars =>
    LastInv' /\ AwaitedIsSignalled'
PROOF
<1> SUFFICES ASSUME Typed, ValuesInv, LastInv, AwaitedIsSignalled, [Next]_allVars
             PROVE  LastInv' /\ AwaitedIsSignalled'
  OBVIOUS
<1>1. Sync
  BY SyncSteps
<1>2. SyncType /\ queue \in Seq(Command)
  BY DEF Typed, TypeOK, SyncType, BackBufferState
<1> USE <1>2 DEF SyncType
<1>3. CASE \/ \E l \in List : SubmitList(l)
           \/ BeginNewFrame \/ ResizeBuffers \/ Shutdown \/ ReleaseAll
  <2>1. pc' \notin {"wait", "stopwait"} /\ awaits' = None
    BY <1>3 DEF SubmitList, BeginNewFrame, ResizeBuffers, Shutdown, ReleaseAll, At, Blocked, device
  <2> QED BY <2>1 DEF LastInv, AwaitedIsSignalled
<1>4. CASE Present
  <2> DEFINE m == Exec(recorded, {Barrier(index, "target", "present")})
  <2>1. m \in Command
    <3>1. index \in Frame /\ recorded \in SUBSET Resource
      BY DEF Typed, TypeOK
    <3>2. m = Exec(recorded, {Close(index)})
      BY DEF Close
    <3>3. Exec(recorded, {Close(index)}) \in Command
      BY <3>1, FrameListFacts
    <3> HIDE DEF m
    <3> QED BY <3>2, <3>3
  <2>2. /\ fenceValue' = fenceValue + 1 /\ awaits' = None
        /\ queue' = queue \o <<m>> \o <<Signal(fenceValue + 1)>>
    BY <1>4 DEF Present, SignalFence, At, Blocked
  <2> HIDE DEF m
  <2>3. queue' # <<>> /\ queue'[Len(queue')] = Signal(fenceValue + 1)
    <3>1. Signal(fenceValue + 1) \in Command
      BY SignalFacts
    <3>2. Len(queue') = Len(queue) + 2
      BY <2>1, <2>2, <3>1
    <3> QED BY <2>1, <2>2, <3>1, <3>2, AppendTwoFacts
  <2> QED BY <2>2, <2>3 DEF LastInv, AwaitedIsSignalled
<1>5. CASE StopSignal
  <2>1. /\ fenceValue' = fenceValue + 1 /\ awaits' = None
        /\ queue' = Append(queue, Signal(fenceValue + 1))
    BY <1>5, SignalFacts, AppendSignal DEF StopSignal, SignalFence, At, Blocked
  <2>2. queue' # <<>> /\ queue'[Len(queue')] = Signal(fenceValue + 1)
    BY <2>1, SignalFacts, AppendFacts
  <2> QED BY <2>1, <2>2 DEF LastInv, AwaitedIsSignalled
<1>6. CASE Wait \/ StopWait
  <2>1. /\ pc \in {"wait", "stopwait"} /\ pc' \in {"begin", "stop"} /\ queue' = queue
        /\ \E l : WaitForFenceValue(fenceValue, l)
    BY <1>6 DEF Wait, StopWait, WaitForFenceValue, At, ValuesInv
  <2>2. AwaitedIsSignalled'
    BY <2>1, WaitsForComing DEF LastInv
  <2> QED BY <2>1, <2>2 DEF LastInv
<1>7. CASE SignalOld
  <2>1. /\ turn \in Frame /\ pc' = "resize" /\ awaits = None
        /\ queue' = Append(queue, Signal(frameFence[turn]))
        /\ SetEventOnCompletion(frameFence[turn])
    BY <1>7, FrameFacts DEF SignalOld, At, Blocked
  <2>2. frameFence[turn] \in Nat
    BY <2>1
  <2>3. /\ Len(queue) + 1 \in DOMAIN queue'
        /\ queue'[Len(queue) + 1] = Signal(frameFence[turn])
    BY <2>1, <2>2, SignalFacts, AppendFacts
  <2>4. awaits' \in {None, frameFence[turn]}
    BY <2>1 DEF SetEventOnCompletion
  <2>5. AwaitedIsSignalled'
    BY <2>2, <2>3, <2>4, SignalFacts DEF AwaitedIsSignalled, IsSignal
  <2> QED BY <2>1, <2>5 DEF LastInv
<1>8. CASE Execute \/ SetFence
  <2>1. /\ Len(queue) \in Nat \ {0} /\ DOMAIN queue = 1 .. Len(queue)
        /\ DOMAIN queue' = 1 .. Len(queue) - 1 /\ Len(queue') = Len(queue) - 1
        /\ \A i \in 1 .. Len(queue) - 1 : queue'[i] = queue[i + 1]
        /\ Head(queue) = queue[1] /\ queue # <<>> /\ queue' \in Seq(Command)
    <3>1. queue # <<>> /\ queue' = Tail(queue)
      BY <1>8 DEF Execute, SetFence
    <3>2. Len(Tail(queue)) = Len(queue) - 1
      BY <3>1
    <3> QED BY <3>1, <3>2, TailFacts
  <2>2. pc' = pc /\ fenceValue' = fenceValue
    BY <1>8 DEF Execute, SetFence, fences
  <2>3. \/ Execute /\ IsList(1) /\ fence' = fence /\ awaits' = awaits
        \/ /\ SetFence /\ IsSignal(1) /\ fence' = queue[1].value
           /\ awaits' = IF awaits # None /\ queue[1].value >= awaits THEN None ELSE awaits
    BY <1>8, <2>1 DEF Execute, SetFence, IsList, IsSignal
  <2>4. LastInv'
    <3> SUFFICES ASSUME pc \in {"wait", "stopwait"}
                 PROVE  /\ awaits' = None
                        /\ queue' = <<>> => fence' = fenceValue
                        /\ queue' # <<>> => queue'[Len(queue')] = Signal(fenceValue)
      BY <2>2 DEF LastInv
    <3>1. awaits = None /\ queue[Len(queue)] = Signal(fenceValue)
      BY <2>1 DEF LastInv
    <3>2. awaits' = None
      BY <2>3, <3>1
    <3>3. ASSUME queue' = <<>> PROVE fence' = fenceValue
      <4>1. Len(queue) = 1
        <5>1. Len(queue') = 0
          BY <3>3
        <5>2. Len(queue') = Len(queue) - 1 /\ Len(queue) \in Nat
          BY <2>1
        <5> QED BY ONLY <5>1, <5>2
      <4>2. queue[1] = Signal(fenceValue)
        BY <3>1, <4>1
      <4> QED BY <2>3, <4>2, SignalFacts DEF IsList
    <3>4. ASSUME queue' # <<>> PROVE queue'[Len(queue')] = Signal(fenceValue)
      <4>1. Len(queue) - 1 \in 1 .. Len(queue) - 1
        BY <2>1, <3>4
      <4> QED BY <2>1, <3>1, <4>1
    <3> QED BY <3>2, <3>3, <3>4
  <2>5. AwaitedIsSignalled'
    <3> SUFFICES ASSUME awaits' # None
                 PROVE  \E i \in DOMAIN queue' : IsSignal(i)' /\ queue'[i].value >= awaits'
      BY DEF AwaitedIsSignalled
    <3>1. awaits' = awaits /\ ~(IsSignal(1) /\ queue[1].value >= awaits)
      BY <2>3, QueueFacts, <2>1
    <3>2. PICK i \in DOMAIN queue : IsSignal(i) /\ queue[i].value >= awaits
      BY <3>1 DEF AwaitedIsSignalled
    <3>3. i # 1
      BY <3>1, <3>2
    <3>4. i - 1 \in DOMAIN queue' /\ queue'[i - 1] = queue[i]
      BY <2>1, <3>3
    <3> QED BY <3>1, <3>2, <3>4 DEF IsSignal
  <2> QED BY <2>4, <2>5
<1>9. CASE Quiet \/ Woken
  BY <1>9 DEF Quiet, Woken, LastInv, AwaitedIsSignalled, IsSignal, fences
<1> QED BY <1>1, <1>3, <1>4, <1>5, <1>6, <1>7, <1>8, <1>9 DEF Sync

(* Nobody is ever blocked on a value that nobody signals: while present, a
   rebuild of the swap chain or shutdown waits for the event of a value, a
   signal that sets the event is in the queue, although a rebuild signals
   values smaller than the fence has had. *)
THEOREM AwaitedSignalled == Spec => []AwaitedIsSignalled
PROOF
<1>1. Init => LastInv /\ AwaitedIsSignalled
  BY DEF Init, FrameInit, LastInv, AwaitedIsSignalled
<1>2. IInv /\ LastInv /\ AwaitedIsSignalled /\ [Next]_allVars => LastInv' /\ AwaitedIsSignalled'
  BY AwaitedStep DEF IInv
<1> QED BY <1>1, <1>2, Invariant, PTL DEF Spec
=============================================================================
