------------------------------- MODULE Uploads -------------------------------
(***************************************************************************)
(* Uploads: immediate_submit of the context, by which the render thread    *)
(* (buffers of a frame) and loading jobs (meshes and textures) hand a list *)
(* of copies to the upload queue and wait until the GPU has executed it.   *)
(* The caller then releases the list, its allocator and the upload buffer. *)
(*                                                                         *)
(* All callers share one fence and one counter, which no lock protects:    *)
(* each look at the counter may find the value this caller stored, still   *)
(* in a register, or the one in memory.                                    *)
(***************************************************************************)
EXTENDS Naturals, Sequences

CONSTANTS
  Callers,    \* threads that upload
  MaxUploads  \* bound: uploads in a behaviour

ASSUME UploadAssumption == MaxUploads \in Nat

VARIABLES
  pc,          \* where each caller is in immediate_submit; outside when idle
  fenceValue,  \* _immediateFenceValue, in memory
  register,    \* what each caller last loaded or stored
  queue,       \* _directUploadQueue: what the GPU has not done yet
  fence,       \* what _immediateFence has completed
  uploads,     \* uploads so far (history)
  torn,        \* an increment has overwritten another (history)
  back         \* a signal was smaller than one before it (history)

vars == <<pc, fenceValue, register, queue, fence, uploads, torn, back>>

List(c) == [list |-> TRUE, of |-> c]
Signalled(v) == [list |-> FALSE, value |-> v]
Command == {List(c) : c \in Callers} \cup {Signalled(v) : v \in Nat}

Location == {"idle", "load", "store", "signal", "compare", "arm", "wait"}

TypeOK ==
  /\ pc \in [Callers -> Location]
  /\ fenceValue \in Nat /\ register \in [Callers -> Nat]
  /\ queue \in Seq(Command) /\ fence \in Nat /\ uploads \in Nat
  /\ torn \in BOOLEAN /\ back \in BOOLEAN

Init ==
  /\ pc = [c \in Callers |-> "idle"]
  /\ fenceValue = 0 /\ register = [c \in Callers |-> 0]
  /\ queue = <<>> /\ fence = 0 /\ uploads = 0
  /\ torn = FALSE /\ back = FALSE

Goto(c, to) == pc' = [pc EXCEPT ![c] = to]

(* What a mention of _immediateFenceValue may yield. *)
Looks(c) == {register[c], fenceValue}

(* A list of its own, recorded and closed; ExecuteCommandLists. *)
Submit(c) ==
  /\ pc[c] = "idle" /\ uploads < MaxUploads
  /\ queue' = Append(queue, List(c))
  /\ uploads' = uploads + 1
  /\ Goto(c, "load")
  /\ UNCHANGED <<fenceValue, register, fence, torn, back>>

(* _immediateFenceValue++: a load and a store *)
Load(c) ==
  /\ pc[c] = "load"
  /\ register' = [register EXCEPT ![c] = fenceValue]
  /\ Goto(c, "store")
  /\ UNCHANGED <<fenceValue, queue, fence, uploads, torn, back>>

Store(c) ==
  /\ pc[c] = "store"
  /\ fenceValue' = register[c] + 1
  /\ register' = [register EXCEPT ![c] = fenceValue']
  /\ torn' = (torn \/ fenceValue # register[c])
  /\ Goto(c, "signal")
  /\ UNCHANGED <<queue, fence, uploads, back>>

(* A defect: the value from before the increment is signalled. *)
SignalsOld(c) == {v - 1 : v \in Looks(c)}

(* What Signal is given. *)
Signals(c) == Looks(c)

Values == {fence} \cup {queue[i].value : i \in {j \in DOMAIN queue : ~queue[j].list}}

Signal(c) ==
  /\ pc[c] = "signal"
  /\ \E v \in Signals(c) :
       /\ queue' = Append(queue, Signalled(v))
       /\ back' = (back \/ \E w \in Values : v < w)
  /\ Goto(c, "compare")
  /\ UNCHANGED <<fenceValue, register, fence, uploads, torn>>

(* A defect: the comparison is one off. *)
CompletesAtOne(v) == fence + 1 >= v

(* GetCompletedValue() < value, negated *)
Completes(v) == fence >= v

(* The fence and the counter are two reads.  One is enough here: a fence that
   was too small is looked at again by SetEventOnCompletion. *)
Compare(c) ==
  /\ pc[c] = "compare"
  /\ \E v \in Looks(c) : Goto(c, IF Completes(v) THEN "idle" ELSE "arm")
  /\ UNCHANGED <<fenceValue, register, queue, fence, uploads, torn, back>>

(* _immediateFenceEvent is never created: SetEventOnCompletion with no event
   returns when the fence has the value, and WaitForSingleObject at once. *)
Arm(c) ==
  /\ pc[c] = "arm"
  /\ \E v \in Looks(c) : register' = [register EXCEPT ![c] = v]
  /\ Goto(c, "wait")
  /\ UNCHANGED <<fenceValue, queue, fence, uploads, torn, back>>

Wait(c) ==
  /\ pc[c] = "wait" /\ fence >= register[c]
  /\ Goto(c, "idle")
  /\ UNCHANGED <<fenceValue, register, queue, fence, uploads, torn, back>>

(* The GPU does what the queue holds in order; a signal sets the fence, to a
   smaller value too. *)
GPU ==
  /\ queue # <<>>
  /\ queue' = Tail(queue)
  /\ fence' = IF Head(queue).list THEN fence ELSE Head(queue).value
  /\ UNCHANGED <<pc, fenceValue, register, uploads, torn, back>>

Continue(c) ==
  Load(c) \/ Store(c) \/ Signal(c) \/ Compare(c) \/ Arm(c) \/ Wait(c)

Next ==
  \/ \E c \in Callers : Submit(c) \/ Continue(c)
  \/ GPU

Spec == Init /\ [][Next]_vars

(* Threads are scheduled, the GPU works; nobody has to upload. *)
FairSpec == Spec /\ WF_vars(GPU) /\ \A c \in Callers : WF_vars(Continue(c))

-----------------------------------------------------------------------------
(* Properties. *)

(* Uploads of several threads overlap, each may be told the counter of
   another, and the signals may come in any order: as long as no increment was
   lost, an upload still returns only after the GPU has executed its own list,
   which the caller then frees together with what the list reads. *)
UploadExecuted ==
  torn \/ \A i \in DOMAIN queue : queue[i].list => pc[queue[i].of] # "idle"

(* As long as, besides, nobody's signal was overtaken by a larger one, each
   upload returns.  When one was, the fence has moved back for good, and a
   caller that had not compared yet waits for the upload of somebody else. *)
UploadReturns ==
  \A c \in Callers : pc[c] # "idle" ~> (pc[c] = "idle" \/ torn \/ back)
=============================================================================
