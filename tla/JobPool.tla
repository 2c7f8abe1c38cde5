------------------------------- MODULE JobPool -------------------------------
(***************************************************************************)
(* What the job system promises to its callers, with no threads and no     *)
(* queues: a job submitted with the counter it waits for (dep) and the     *)
(* counter it contributes to (acc) starts at most once, only at a moment   *)
(* when its dep counter is zero, and the counters count the jobs that are  *)
(* submitted and not finished.  TaskSystem implements this module;         *)
(* JobBuilder and EngineFrame are built on it.                             *)
(***************************************************************************)
EXTENDS Integers

CONSTANTS
  Job,        \* the std::function objects handed to the pool
  Counter,    \* the SyncCounter objects
  NoCounter   \* an empty shared_ptr: a job that is not submitted has no counter

ASSUME PoolAssumption == NoCounter \notin Counter

VARIABLES
  status,     \* where each job is in its life
  dep,        \* SyncCounter the job was pushed with: it runs when this is zero
  acc,        \* SyncCounter its closure decrements after the body
  counter     \* SyncCounter::_internalCounter

poolVars == <<status, dep, acc, counter>>

Status == {"idle", "queued", "running", "finished"}

PoolTypeOK ==
  /\ status \in [Job -> Status]
  /\ dep \in [Job -> Counter \cup {NoCounter}]
  /\ acc \in [Job -> Counter \cup {NoCounter}]
  /\ counter \in [Counter -> Nat]

PoolInit ==
  /\ status = [j \in Job |-> "idle"]
  /\ dep = [j \in Job |-> NoCounter]
  /\ acc = [j \in Job |-> NoCounter]
  /\ counter = [c \in Counter |-> 0]

-----------------------------------------------------------------------------
(* A defect: the group is not told of the job. *)
SubmitUncounted(j, d, a) ==
  /\ status[j] = "idle"
  /\ status' = [status EXCEPT ![j] = "queued"]
  /\ dep' = [dep EXCEPT ![j] = d]
  /\ acc' = [acc EXCEPT ![j] = a]
  /\ UNCHANGED counter

(* accumulator->Increment(), then async_ with the dep counter. *)
Submit(j, d, a) ==
  /\ status[j] = "idle"
  /\ status' = [status EXCEPT ![j] = "queued"]
  /\ dep' = [dep EXCEPT ![j] = d]
  /\ acc' = [acc EXCEPT ![j] = a]
  /\ counter' = [counter EXCEPT ![a] = @ + 1]

(* A defect: the counter the job waits for is never looked at. *)
StartUnchecked(j) ==
  /\ status[j] = "queued"
  /\ status' = [status EXCEPT ![j] = "running"]
  /\ UNCHANGED <<dep, acc, counter>>

(* A worker found the counter at zero and calls the closure. *)
Start(j) ==
  /\ status[j] = "queued"
  /\ counter[dep[j]] = 0
  /\ status' = [status EXCEPT ![j] = "running"]
  /\ UNCHANGED <<dep, acc, counter>>

(* Two defects: the closure holds the wrong one of the two counters, or none. *)
FinishDecrementsDep(j) ==
  /\ status[j] = "running"
  /\ status' = [status EXCEPT ![j] = "finished"]
  /\ counter' = [counter EXCEPT ![dep[j]] = @ - 1]
  /\ UNCHANGED <<dep, acc>>

FinishSilent(j) ==
  /\ status[j] = "running"
  /\ status' = [status EXCEPT ![j] = "finished"]
  /\ UNCHANGED <<dep, acc, counter>>

(* The closure's last statement, accumulator->Decrement(). *)
Finish(j) ==
  /\ status[j] = "running"
  /\ status' = [status EXCEPT ![j] = "finished"]
  /\ counter' = [counter EXCEPT ![acc[j]] = @ - 1]
  /\ UNCHANGED <<dep, acc>>

PoolStep == \E j \in Job : Start(j) \/ Finish(j)

PoolNext ==
  \/ \E j \in Job, d, a \in Counter : Submit(j, d, a)
  \/ PoolStep

PoolSpec == PoolInit /\ [][PoolNext]_poolVars

(* Every job that can start is started, every body returns. *)
PoolFairness == \A j \in Job : WF_poolVars(Start(j)) /\ WF_poolVars(Finish(j))

=============================================================================
