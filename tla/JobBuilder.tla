------------------------------ MODULE JobBuilder ------------------------------
(***************************************************************************)
(* VoidStarCore/JobSystem.cpp: builders that turn "these jobs, then those" *)
(* into SyncCounters, over the pool that JobPool promises.  A builder      *)
(* holds an accumulator, which counts the jobs of the open group, and a    *)
(* zero counter, which the jobs of the open group wait for; a fence closes *)
(* the group.  A builder belongs to one thread, so each call is one step.  *)
(* A call after ExtractCounter throws before it changes anything (Guard):  *)
(* here it is simply not enabled.                                          *)
(***************************************************************************)
EXTENDS JobPool, FiniteSets

CONSTANTS
  Builder,
  MaxCounter   \* bound: how many SyncCounters are made, numbered in order

ASSUME BuilderAssumption ==
  /\ MaxCounter \in Nat
  /\ Counter = 1 .. MaxCounter
  /\ IsFiniteSet(Job)

VARIABLES
  accumulator,  \* JobBuilder::_accumulator
  zero,         \* JobBuilder::_zeroCounter
  phase,        \* not constructed, usable, spinning in WaitAll, or extracted
  made,         \* how many SyncCounters make_shared has returned
  stands        \* history: the jobs that a counter at zero stands for

builderVars == <<accumulator, zero, phase, made>>
vars == <<poolVars, builderVars, stands>>

Phase == {"none", "open", "waiting", "extracted"}

TypeOK ==
  /\ PoolTypeOK
  /\ accumulator \in [Builder -> Counter \cup {NoCounter}]
  /\ zero \in [Builder -> Counter \cup {NoCounter}]
  /\ phase \in [Builder -> Phase]
  /\ made \in 0 .. MaxCounter
  /\ stands \in [Counter -> SUBSET Job]

Init ==
  /\ PoolInit
  /\ accumulator = [b \in Builder |-> NoCounter]
  /\ zero = [b \in Builder |-> NoCounter]
  /\ phase = [b \in Builder |-> "none"]
  /\ made = 0
  /\ stands = [c \in Counter |-> {}]

-----------------------------------------------------------------------------
(* The constructor: two fresh counters. *)
New(b) ==
  /\ phase[b] = "none"
  /\ made + 2 <= MaxCounter
  /\ accumulator' = [accumulator EXCEPT ![b] = made + 1]
  /\ zero' = [zero EXCEPT ![b] = made + 2]
  /\ made' = made + 2
  /\ phase' = [phase EXCEPT ![b] = "open"]
  /\ UNCHANGED <<poolVars, stands>>

(* A defect: the fence keeps the accumulator, which the new group then waits for. *)
OpenGroupKeeping(b, c) ==
  /\ zero' = [zero EXCEPT ![b] = c]
  /\ UNCHANGED <<accumulator, made>>

(* The group opened next waits for counter c. *)
OpenGroup(b, c) ==
  /\ made < MaxCounter
  /\ zero' = [zero EXCEPT ![b] = c]
  /\ accumulator' = [accumulator EXCEPT ![b] = made + 1]
  /\ made' = made + 1

ExplicitFence(b) == OpenGroup(b, accumulator[b])

(* A defect: the two counters the wrong way round. *)
SubmitToSwapped(b, j) ==
  /\ phase[b] = "open"
  /\ Submit(j, accumulator[b], zero[b])
  /\ stands' = [stands EXCEPT ![zero[b]] = @ \cup {j} \cup stands[accumulator[b]]]

(* Increment and async_; the history notes what the accumulator now covers. *)
SubmitTo(b, j) ==
  /\ phase[b] = "open"
  /\ Submit(j, zero[b], accumulator[b])
  /\ stands' = [stands EXCEPT ![accumulator[b]] = @ \cup {j} \cup stands[zero[b]]]

DispatchNow(b, j) == SubmitTo(b, j) /\ UNCHANGED builderVars

Dispatch(b, j) == SubmitTo(b, j) /\ ExplicitFence(b) /\ UNCHANGED phase

DispatchWait(b) ==
  /\ phase[b] = "open"
  /\ ExplicitFence(b)
  /\ UNCHANGED <<poolVars, phase, stands>>

(* DispatchWait(counter): counter is what another builder's ExtractCounter returned. *)
DispatchWaitOn(b, x) ==
  /\ phase[b] = "open"
  /\ phase[x] = "extracted"
  /\ OpenGroup(b, zero[x])
  /\ UNCHANGED <<poolVars, phase, stands>>

(* WaitAll spins on _zeroCounter->IsZero(). *)
WaitAll(b) ==
  /\ phase[b] = "open"
  /\ phase' = [phase EXCEPT ![b] = "waiting"]
  /\ UNCHANGED <<poolVars, accumulator, zero, made, stands>>

WaitAllReturn(b) ==
  /\ phase[b] = "waiting"
  /\ counter[zero[b]] = 0
  /\ phase' = [phase EXCEPT ![b] = "open"]
  /\ UNCHANGED <<poolVars, accumulator, zero, made, stands>>

ExtractCounter(b) ==
  /\ phase[b] = "open"
  /\ phase' = [phase EXCEPT ![b] = "extracted"]
  /\ UNCHANGED <<poolVars, accumulator, zero, made, stands>>

Work == PoolStep /\ UNCHANGED <<builderVars, stands>>

Next ==
  \/ \E b \in Builder :
       \/ New(b) \/ DispatchWait(b) \/ WaitAll(b) \/ WaitAllReturn(b) \/ ExtractCounter(b)
       \/ \E j \in Job : DispatchNow(b, j) \/ Dispatch(b, j)
       \/ \E x \in Builder : DispatchWaitOn(b, x)
  \/ Work

Spec == Init /\ [][Next]_vars

(* The pool runs what it can, and a spinning thread is scheduled. *)
FairSpec ==
  /\ Spec
  /\ \A j \in Job : WF_vars(Start(j) /\ UNCHANGED <<builderVars, stands>>)
                 /\ WF_vars(Finish(j) /\ UNCHANGED <<builderVars, stands>>)
  /\ \A b \in Builder : WF_vars(WaitAllReturn(b))

-----------------------------------------------------------------------------
Finished == {j \in Job : status[j] = "finished"}
Pending == {j \in Job : status[j] \in {"queued", "running"}}
JobsOf(c) == {j \in Job : acc[j] = c}

(* The accumulators that a job may still be added to. *)
Open == {accumulator[b] : b \in {x \in Builder : phase[x] \in {"open", "waiting"}}}

(***************************************************************************)
(* A counter is the number of its jobs that have not returned: it never    *)
(* goes below zero (it is unsigned) and never reaches zero early.          *)
(***************************************************************************)
CounterExact ==
  \A c \in Counter : counter[c] = Cardinality(JobsOf(c) \cap Pending)

(***************************************************************************)
(* A counter at zero stands for more than its own jobs: everything that    *)
(* its jobs had to wait for, across fences and across builders chained by  *)
(* DispatchWait(counter), has finished too.  This is what WaitAll's return *)
(* and a job's start rely on.                                              *)
(***************************************************************************)
ZeroMeansDone == \A c \in Counter : counter[c] = 0 => stands[c] \subseteq Finished

(***************************************************************************)
(* Jobs run in the order their builder gave: when a job has started, all   *)
(* that its dep counter stands for has finished.                           *)
(***************************************************************************)
StartsInOrder ==
  \A j \in Job : status[j] \in {"running", "finished"} => stands[dep[j]] \subseteq Finished

(***************************************************************************)
(* A counter that a job or a WaitAll may be waiting for only counts down:  *)
(* no call adds a job to a group once a fence has closed it, so a zero     *)
(* that was read stays true.                                               *)
(***************************************************************************)
ClosedOnlyFalls ==
  [][\A c \in (1 .. made) \ Open : counter'[c] <= counter[c] /\ c \notin Open']_vars

(***************************************************************************)
(* Why the above holds: an inductive invariant.                            *)
(***************************************************************************)
(* Each accumulator belongs to one builder; no zero counter is one. *)
OwnerInv ==
  \A b \in Builder : phase[b] # "none" =>
    /\ accumulator[b] \in 1 .. made /\ zero[b] \in (1 .. made) \ Open
    /\ \A x \in Builder \ {b} : phase[x] # "none" => accumulator[x] # accumulator[b]

(* A job waits for a closed counter, and only submitted jobs have counters. *)
DepInv ==
  \A j \in Job :
    IF status[j] = "idle" THEN dep[j] = NoCounter /\ acc[j] = NoCounter
    ELSE dep[j] \in (1 .. made) \ Open /\ acc[j] \in 1 .. made

StandsInv ==
  \A c \in Counter : stands[c] \subseteq JobsOf(c) \cup UNION {stands[dep[j]] : j \in JobsOf(c)}

OrderInv == CounterExact /\ StartsInOrder /\ OwnerInv /\ DepInv /\ StandsInv

(***************************************************************************)
(* The chain of groups never waits for itself: every job dispatched is     *)
(* eventually run, and every WaitAll returns.                              *)
(***************************************************************************)
EveryJobFinishes == \A j \in Job : status[j] = "queued" ~> status[j] = "finished"

WaitAllReturns == \A b \in Builder : phase[b] = "waiting" ~> phase[b] = "open"

=============================================================================
