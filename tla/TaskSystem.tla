------------------------------ MODULE TaskSystem ------------------------------
(***************************************************************************)
(* VoidStarCore/TaskSystem.h: a pool of worker threads, each with its own  *)
(* NotificationQueue (a deque, a mutex, a condition variable and a _done   *)
(* flag).  A push or pop tries the queues with try_lock and falls back to  *)
(* a blocking lock on one of them.  A worker that pops a job whose         *)
(* SyncCounter is not zero pushes it back; otherwise it runs it.           *)
(*                                                                         *)
(* Each critical section is two steps (acquire; body and release), so that *)
(* a try_lock fails exactly when another thread is inside.  What jobs do   *)
(* is the caller's: here a job's body submits the jobs of Program[j] in    *)
(* order and then decrements Acc[j], as the closures of JobBuilder do; the *)
(* main thread submits Program[Main] and then runs ~TaskSystem.            *)
(***************************************************************************)
EXTENDS Integers, Sequences, FiniteSets

CONSTANTS
  Count,      \* TaskSystem::_count, std::thread::hardware_concurrency()
  K,          \* TaskSystem::_k, rounds of TryPush before a blocking Push
  IndexMod,   \* _index is a uint32_t: 2^32 in the code
  Job, NoJob,
  Counter, NoCounter,
  Dep,        \* the counter a job is pushed with
  Acc,        \* the counter its closure decrements
  Program,    \* what Main, and each job's body, submits, in order
  Main,       \* the thread that owns the TaskSystem
  Free        \* no thread: a mutex that is not held

Worker == 0 .. Count - 1
Thread == Worker \cup {Main}

ASSUME TaskAssumption ==
  /\ Count \in Nat \ {0} /\ K \in Nat \ {0} /\ IndexMod \in Nat \ {0}
  /\ NoJob \notin Job
  /\ Dep \in [Job -> Counter] /\ Acc \in [Job -> Counter]
  /\ Program \in [Job \cup {Main} -> Seq(Job)]
  /\ Main \notin Worker \cup Job
  /\ Free \notin Thread
  /\ NoCounter \notin Counter

(* Each dispatch hands over a function object of its own. *)
ASSUME ProgramAssumption ==
  \A s, u \in Job \cup {Main} : \A k \in DOMAIN Program[s], l \in DOMAIN Program[u] :
    Program[s][k] = Program[u][l] => s = u /\ k = l

VARIABLES
  queue,      \* NotificationQueue::_q
  mutex,      \* NotificationQueue::_mutex, the thread that holds it
  done,       \* NotificationQueue::_done
  waiting,    \* workers blocked in _ready.wait and not notified
  index,      \* TaskSystem::_index
  counter,    \* SyncCounter::_internalCounter
  pc,         \* where each thread is
  slot,       \* the local i of async_ and PushAny; the queue of ~TaskSystem's loop
  tries,      \* the local n of the try loops
  hand,       \* the job a thread is pushing or has popped (f)
  body,       \* the job a worker is running
  next,       \* how many submissions of its program a thread has made
  finished    \* history: the jobs whose closure has returned

vars == <<queue, mutex, done, waiting, index, counter, pc, slot, tries, hand,
          body, next, finished>>
queueVars == <<queue, mutex, done, waiting>>
jobVars == <<counter, body, next, finished>>

PC == {"client", "take", "push", "pushHeld", "notify",
       "pop", "popHeld", "wait", "check", "body", "exited",
       "done", "doneHeld", "doneNotify", "join", "joined"}

TypeOK ==
  /\ queue \in [Worker -> Seq(Job)]
  /\ mutex \in [Worker -> Thread \cup {Free}]
  /\ done \in [Worker -> BOOLEAN]
  /\ waiting \in SUBSET Worker
  /\ index \in 0 .. IndexMod - 1
  /\ counter \in [Counter -> Int]
  /\ pc \in [Thread -> PC]
  /\ slot \in [Thread -> Nat]
  /\ tries \in [Thread -> Nat]
  /\ hand \in [Thread -> Job \cup {NoJob}]
  /\ body \in [Worker -> Job \cup {NoJob}]
  /\ next \in [Thread -> Nat]
  /\ finished \in SUBSET Job

Init ==
  /\ queue = [w \in Worker |-> <<>>]
  /\ mutex = [w \in Worker |-> Free]
  /\ done = [w \in Worker |-> FALSE]
  /\ waiting = {}
  /\ index = 0
  /\ counter = [c \in Counter |-> 0]
  /\ pc = [t \in Thread |-> IF t = Main THEN "client" ELSE "pop"]
  /\ slot = [t \in Thread |-> 0]
  /\ tries = [t \in Thread |-> 0]
  /\ hand = [t \in Thread |-> NoJob]
  /\ body = [w \in Worker |-> NoJob]
  /\ next = [t \in Thread |-> 0]
  /\ finished = {}

-----------------------------------------------------------------------------
Goto(t, to) == pc' = [pc EXCEPT ![t] = to]
Acquire(t, w) == mutex[w] = Free /\ mutex' = [mutex EXCEPT ![w] = t]
Release(w) == mutex' = [mutex EXCEPT ![w] = Free]

(***************************************************************************)
(* async_ and PushAny: the same loop over TryPush, then a blocking Push.   *)
(***************************************************************************)
PushTarget(t) == (IF tries[t] < Count * K THEN slot[t] + tries[t] ELSE slot[t]) % Count

(* auto i = _index++ *)
Take(t) ==
  /\ pc[t] = "take"
  /\ slot' = [slot EXCEPT ![t] = index]
  /\ index' = (index + 1) % IndexMod
  /\ tries' = [tries EXCEPT ![t] = 0]
  /\ Goto(t, "push")
  /\ UNCHANGED <<queueVars, jobVars, hand>>

(* The lock of TryPush, or of Push once the tries are used up. *)
PushAcquire(t) ==
  /\ pc[t] = "push"
  /\ Acquire(t, PushTarget(t))
  /\ Goto(t, "pushHeld")
  /\ UNCHANGED <<queue, done, waiting, index, jobVars, slot, tries, hand>>

(* A defect: a TryPush that fails has already moved from f. *)
PushMissMovesFrom(t) ==
  /\ pc[t] = "push"
  /\ tries[t] < Count * K
  /\ mutex[PushTarget(t)] # Free
  /\ tries' = [tries EXCEPT ![t] = @ + 1]
  /\ hand' = [hand EXCEPT ![t] = NoJob]
  /\ UNCHANGED <<queueVars, index, jobVars, pc, slot>>

(* TryPush returns false: try the next queue. *)
PushMiss(t) ==
  /\ pc[t] = "push"
  /\ tries[t] < Count * K
  /\ mutex[PushTarget(t)] # Free
  /\ tries' = [tries EXCEPT ![t] = @ + 1]
  /\ UNCHANGED <<queueVars, index, jobVars, pc, slot, hand>>

(* _q.emplace_back, and the lock's scope ends. *)
PushRelease(t) ==
  /\ pc[t] = "pushHeld"
  /\ queue' = [queue EXCEPT ![PushTarget(t)] = Append(@, hand[t])]
  /\ Release(PushTarget(t))
  /\ hand' = [hand EXCEPT ![t] = NoJob]
  /\ Goto(t, "notify")
  /\ UNCHANGED <<done, waiting, index, jobVars, slot, tries>>

AfterPush(t) ==
  IF t = Main THEN "client" ELSE IF body[t] # NoJob THEN "body" ELSE "pop"

(* Two defects: the push notifies the queue it tried first, or none. *)
PushNotifyFirstTried(t) ==
  /\ pc[t] = "notify"
  /\ waiting' = waiting \ {slot[t] % Count}
  /\ slot' = [slot EXCEPT ![t] = 0]
  /\ tries' = [tries EXCEPT ![t] = 0]
  /\ Goto(t, AfterPush(t))
  /\ UNCHANGED <<queue, mutex, done, index, jobVars, hand>>

PushSilent(t) ==
  /\ pc[t] = "notify"
  /\ slot' = [slot EXCEPT ![t] = 0]
  /\ tries' = [tries EXCEPT ![t] = 0]
  /\ Goto(t, AfterPush(t))
  /\ UNCHANGED <<queueVars, index, jobVars, hand>>

(* _ready.notify_one(): only the queue's own worker ever waits on it. *)
PushNotify(t) ==
  /\ pc[t] = "notify"
  /\ waiting' = waiting \ {PushTarget(t)}
  /\ slot' = [slot EXCEPT ![t] = 0]
  /\ tries' = [tries EXCEPT ![t] = 0]
  /\ Goto(t, AfterPush(t))
  /\ UNCHANGED <<queue, mutex, done, index, jobVars, hand>>

-----------------------------------------------------------------------------
(***************************************************************************)
(* Run(i): TryPop its own queue and then the others, then Pop its own.     *)
(***************************************************************************)
(* A defect: the loop over TryPop leaves out the last of the other queues. *)
PopTargetShort(w) == IF tries[w] < Count - 1 THEN (w + tries[w]) % Count ELSE w

PopTarget(w) == (w + tries[w]) % Count   \* its own again when tries = Count

PopAcquire(w) ==
  /\ pc[w] = "pop"
  /\ Acquire(w, PopTarget(w))
  /\ Goto(w, "popHeld")
  /\ UNCHANGED <<queue, done, waiting, index, jobVars, slot, tries, hand>>

PopMiss(w) ==
  /\ pc[w] = "pop"
  /\ tries[w] < Count
  /\ mutex[PopTarget(w)] # Free
  /\ tries' = [tries EXCEPT ![w] = @ + 1]
  /\ UNCHANGED <<queueVars, index, jobVars, pc, slot, hand>>

(* A defect: the job is copied out of the deque and left in it. *)
PopTakeCopies(w) ==
  /\ pc[w] = "popHeld"
  /\ queue[PopTarget(w)] # <<>>
  /\ hand' = [hand EXCEPT ![w] = Head(queue[PopTarget(w)])]
  /\ Release(PopTarget(w))
  /\ tries' = [tries EXCEPT ![w] = 0]
  /\ Goto(w, "check")
  /\ UNCHANGED <<queue, done, waiting, index, jobVars, slot>>

(* TryPop or Pop finds a job. *)
PopTake(w) ==
  /\ pc[w] = "popHeld"
  /\ queue[PopTarget(w)] # <<>>
  /\ hand' = [hand EXCEPT ![w] = Head(queue[PopTarget(w)])]
  /\ queue' = [queue EXCEPT ![PopTarget(w)] = Tail(@)]
  /\ Release(PopTarget(w))
  /\ tries' = [tries EXCEPT ![w] = 0]
  /\ Goto(w, "check")
  /\ UNCHANGED <<done, waiting, index, jobVars, slot>>

(* TryPop finds the queue empty: the next one. *)
PopEmpty(w) ==
  /\ pc[w] = "popHeld"
  /\ queue[PopTarget(w)] = <<>>
  /\ tries[w] < Count
  /\ tries' = [tries EXCEPT ![w] = @ + 1]
  /\ Release(PopTarget(w))
  /\ Goto(w, "pop")
  /\ UNCHANGED <<queue, done, waiting, index, jobVars, slot, hand>>

(* Pop: while (_q.empty() && !_done) _ready.wait(lock). *)
PopWait(w) ==
  /\ pc[w] = "popHeld"
  /\ queue[PopTarget(w)] = <<>>
  /\ tries[w] = Count
  /\ ~done[w]
  /\ waiting' = waiting \cup {w}
  /\ Release(w)
  /\ Goto(w, "wait")
  /\ UNCHANGED <<queue, done, index, jobVars, slot, tries, hand>>

(* Pop returns false: the worker leaves Run. *)
PopDone(w) ==
  /\ pc[w] = "popHeld"
  /\ queue[PopTarget(w)] = <<>>
  /\ tries[w] = Count
  /\ done[w]
  /\ Release(w)
  /\ Goto(w, "exited")
  /\ UNCHANGED <<queue, done, waiting, index, jobVars, slot, tries, hand>>

(* wait returns with the mutex held; the loop tests its condition again. *)
Wake(w) ==
  /\ pc[w] = "wait"
  /\ w \notin waiting
  /\ Acquire(w, w)
  /\ Goto(w, "popHeld")
  /\ UNCHANGED <<queue, done, waiting, index, jobVars, slot, tries, hand>>

(* A condition variable may wake a thread nobody notified. *)
SpuriousWake(w) ==
  /\ w \in waiting
  /\ waiting' = waiting \ {w}
  /\ UNCHANGED <<queue, mutex, done, index, jobVars, pc, slot, tries, hand>>

-----------------------------------------------------------------------------
(***************************************************************************)
(* What a worker does with the job it popped.                              *)
(***************************************************************************)
(* A defect: off by one, the last job of the group is not waited for. *)
ReadyAtOne(j) == counter[Dep[j]] <= 1

Ready(j) == counter[Dep[j]] = 0   \* f.first->IsZero()

(* Not ready: PushAny(f.second, f.first). *)
Requeue(w) ==
  /\ pc[w] = "check"
  /\ ~Ready(hand[w])
  /\ Goto(w, "take")
  /\ UNCHANGED <<queueVars, index, jobVars, slot, tries, hand>>

(* Ready: f.second(). *)
Run(w) ==
  /\ pc[w] = "check"
  /\ Ready(hand[w])
  /\ body' = [body EXCEPT ![w] = hand[w]]
  /\ hand' = [hand EXCEPT ![w] = NoJob]
  /\ next' = [next EXCEPT ![w] = 0]
  /\ Goto(w, "body")
  /\ UNCHANGED <<queueVars, index, counter, slot, tries, finished>>

Source(t) == IF t = Main THEN Main ELSE body[t]

(* A dispatch from the running code: Increment, then async_. *)
Dispatch(t) ==
  /\ pc[t] \in {"client", "body"}
  /\ next[t] < Len(Program[Source(t)])
  /\ LET j == Program[Source(t)][next[t] + 1] IN
       /\ counter' = [counter EXCEPT ![Acc[j]] = @ + 1]
       /\ hand' = [hand EXCEPT ![t] = j]
  /\ next' = [next EXCEPT ![t] = @ + 1]
  /\ Goto(t, "take")
  /\ UNCHANGED <<queueVars, index, slot, tries, body, finished>>

(* The end of the closure: accumulator->Decrement(). *)
Return(w) ==
  /\ pc[w] = "body"
  /\ next[w] = Len(Program[body[w]])
  /\ counter' = [counter EXCEPT ![Acc[body[w]]] = @ - 1]
  /\ finished' = finished \cup {body[w]}
  /\ body' = [body EXCEPT ![w] = NoJob]
  /\ next' = [next EXCEPT ![w] = 0]
  /\ Goto(w, "pop")
  /\ UNCHANGED <<queueVars, index, slot, tries, hand>>

-----------------------------------------------------------------------------
(***************************************************************************)
(* ~TaskSystem: q.Done() on every queue in order, then join every thread.  *)
(***************************************************************************)
Destroy ==
  /\ pc[Main] = "client"
  /\ next[Main] = Len(Program[Main])
  /\ slot' = [slot EXCEPT ![Main] = 0]
  /\ Goto(Main, "done")
  /\ UNCHANGED <<queueVars, index, jobVars, tries, hand>>

DoneAcquire ==
  /\ pc[Main] = "done"
  /\ Acquire(Main, slot[Main])
  /\ Goto(Main, "doneHeld")
  /\ UNCHANGED <<queue, done, waiting, index, jobVars, slot, tries, hand>>

DoneRelease ==
  /\ pc[Main] = "doneHeld"
  /\ done' = [done EXCEPT ![slot[Main]] = TRUE]
  /\ Release(slot[Main])
  /\ Goto(Main, "doneNotify")
  /\ UNCHANGED <<queue, waiting, index, jobVars, slot, tries, hand>>

(* A defect: Done sets the flag and does not notify. *)
DoneSilent ==
  /\ pc[Main] = "doneNotify"
  /\ slot' = [slot EXCEPT ![Main] = @ + 1]
  /\ Goto(Main, IF slot[Main] + 1 < Count THEN "done" ELSE "join")
  /\ UNCHANGED <<queueVars, index, jobVars, tries, hand>>

DoneNotify ==
  /\ pc[Main] = "doneNotify"
  /\ waiting' = waiting \ {slot[Main]}
  /\ slot' = [slot EXCEPT ![Main] = @ + 1]
  /\ Goto(Main, IF slot[Main] + 1 < Count THEN "done" ELSE "join")
  /\ UNCHANGED <<queue, mutex, done, index, jobVars, tries, hand>>

Join ==
  /\ pc[Main] = "join"
  /\ \A w \in Worker : pc[w] = "exited"
  /\ Goto(Main, "joined")
  /\ UNCHANGED <<queueVars, index, jobVars, slot, tries, hand>>

(* The TaskSystem is gone; nothing moves any more. *)
Terminated == pc[Main] = "joined" /\ UNCHANGED vars

-----------------------------------------------------------------------------
Push(t) == Take(t) \/ PushAcquire(t) \/ PushMiss(t) \/ PushRelease(t) \/ PushNotify(t)

Pop(w) == \/ PopAcquire(w) \/ PopMiss(w) \/ PopTake(w) \/ PopEmpty(w)
          \/ PopWait(w) \/ PopDone(w) \/ Wake(w)

WorkerStep(w) == Push(w) \/ Pop(w) \/ Requeue(w) \/ Run(w) \/ Dispatch(w) \/ Return(w)

MainStep == \/ Push(Main) \/ Dispatch(Main)
            \/ DoneAcquire \/ DoneRelease \/ DoneNotify \/ Join

Next ==
  \/ MainStep
  \/ Destroy
  \/ \E w \in Worker : WorkerStep(w) \/ SpuriousWake(w)
  \/ Terminated

Spec == Init /\ [][Next]_vars

(***************************************************************************)
(* Every thread is scheduled, and a thread blocked in lock() gets the      *)
(* mutex if it is free again and again.  Nothing is assumed of spurious    *)
(* wakeups, nor that the main thread ever deletes the pool.                *)
(***************************************************************************)
Fairness ==
  /\ WF_vars(MainStep)
  /\ SF_vars(PushAcquire(Main)) /\ SF_vars(DoneAcquire)
  /\ \A w \in Worker :
       /\ WF_vars(WorkerStep(w))
       /\ SF_vars(PushAcquire(w)) /\ SF_vars(PopAcquire(w)) /\ SF_vars(Wake(w))

FairSpec == Spec /\ Fairness

-----------------------------------------------------------------------------
(***************************************************************************)
(* Where a job is.                                                         *)
(***************************************************************************)
(* The jobs dispatched so far, read off the position of every program. *)
Submitted ==
  {Program[Main][k] : k \in 1 .. next[Main]}
    \cup (UNION {{Program[body[w]][k] : k \in 1 .. next[w]} :
                   w \in {v \in Worker : body[v] # NoJob}})
    \cup (UNION {{Program[s][k] : k \in DOMAIN Program[s]} : s \in finished})

QueuePlaces(j) ==
  {<<"queue", p[1], p[2]>> : p \in {r \in UNION {{w} \X DOMAIN queue[w] : w \in Worker} :
                                     queue[r[1]][r[2]] = j}}
HandPlaces(j) == {<<"hand", t>> : t \in {u \in Thread : hand[u] = j}}
BodyPlaces(j) == {<<"body", w>> : w \in {v \in Worker : body[v] = j}}
DonePlaces(j) == {<<"finished">> : i \in finished \cap {j}}

Places(j) == QueuePlaces(j) \cup HandPlaces(j) \cup BodyPlaces(j) \cup DonePlaces(j)

(***************************************************************************)
(* No job is lost and none is duplicated: from its dispatch on, a job is   *)
(* in exactly one slot of one deque, or in one thread's hand, or running   *)
(* on one worker, or finished; before, it is nowhere.  Stealing, requeuing *)
(* and failed try_locks move it between these places and never copy it.    *)
(***************************************************************************)
JobConservation ==
  \A j \in Job : Cardinality(Places(j)) = (IF j \in Submitted THEN 1 ELSE 0)

(***************************************************************************)
(* When every worker has left Run, no job is left behind in a queue, in a  *)
(* hand or half run: a job requeued during shutdown onto the queue of a    *)
(* worker that has already exited is still found by one that has not.      *)
(***************************************************************************)
NothingStranded ==
  (\A w \in Worker : pc[w] = "exited") =>
    /\ \A w \in Worker : queue[w] = <<>> /\ body[w] = NoJob
    /\ \A t \in Thread : hand[t] = NoJob

(***************************************************************************)
(* No lost wakeup: while a worker sleeps although its queue holds a job or *)
(* is done, the thread that changed that is still on its way to notify it. *)
(***************************************************************************)
NoLostWakeup ==
  \A w \in waiting :
    /\ queue[w] # <<>> =>
         \E t \in Thread : pc[t] = "notify" /\ PushTarget(t) = w
    /\ done[w] => pc[Main] = "doneNotify" /\ slot[Main] = w

(***************************************************************************)
(* Why NothingStranded holds: an inductive invariant.                      *)
(***************************************************************************)
(* Thread t is in the critical section of queue w. *)
Inside(t, w) ==
  \/ pc[t] = "pushHeld" /\ PushTarget(t) = w
  \/ t \in Worker /\ pc[t] = "popHeld" /\ PopTarget(t) = w
  \/ t = Main /\ pc[t] = "doneHeld" /\ slot[t] = w

MutexInv == \A t \in Thread, w \in Worker : mutex[w] = t <=> Inside(t, w)

PushPC == {"take", "push", "pushHeld", "notify"}
CloserPC == {"done", "doneHeld", "doneNotify", "join", "joined"}

ControlInv ==
  /\ pc[Main] \in {"client"} \cup PushPC \cup CloserPC
  /\ \A w \in Worker : pc[w] \in PushPC \cup {"pop", "popHeld", "wait", "check", "body", "exited"}
  /\ \A w \in Worker :
       /\ pc[w] \in {"pop", "popHeld"} => tries[w] \in 0 .. Count
       /\ pc[w] \in {"wait", "exited"} => tries[w] = Count
       /\ pc[w] \in {"check", "body"} => tries[w] = 0
  /\ pc[Main] \in {"done", "doneHeld", "doneNotify"} => slot[Main] \in Worker

(* Jobs are in the hands and bodies of threads that are there to deal with them. *)
HandInv ==
  /\ \A t \in Thread : hand[t] # NoJob => pc[t] \in {"take", "push", "pushHeld", "check"}
  /\ \A t \in Thread : pc[t] \in {"take", "push", "pushHeld", "check"} => hand[t] # NoJob
  /\ \A w \in Worker : body[w] # NoJob => pc[w] \in PushPC \cup {"body"}
  /\ \A w \in Worker : pc[w] = "body" => body[w] # NoJob

(* ~TaskSystem has closed the queues below its position, in order. *)
Closed(w) ==
  \/ pc[Main] \in {"join", "joined"}
  \/ pc[Main] \in {"done", "doneHeld"} /\ w < slot[Main]
  \/ pc[Main] = "doneNotify" /\ w <= slot[Main]

CloseInv ==
  \A w \in Worker : (done[w] <=> Closed(w)) /\ (pc[w] = "exited" => done[w])

(* Worker v will look into queue w before it leaves Run. *)
WillScan(v, w) ==
  \/ v = w /\ pc[v] # "exited"
  \/ pc[v] \in PushPC \cup {"check", "body"}
  \/ /\ pc[v] \in {"pop", "popHeld"}
     /\ \E n \in 0 .. Count - 1 : n >= tries[v] /\ (v + n) % Count = w

ScanInv == \A w \in Worker : queue[w] # <<>> => \E v \in Worker : WillScan(v, w)

ShutdownInv == MutexInv /\ ControlInv /\ HandInv /\ CloseInv /\ ScanInv

(***************************************************************************)
(* The pool keeps the promise of JobPool: a job starts once, and only at a *)
(* moment when its counter is zero, whatever queues it has been through.   *)
(***************************************************************************)
PoolStatus ==
  [j \in Job |-> CASE j \in finished -> "finished"
                   [] BodyPlaces(j) # {} -> "running"
                   [] QueuePlaces(j) # {} \/ HandPlaces(j) # {} -> "queued"
                   [] OTHER -> "idle"]

IfSubmitted(f) == [j \in Job |-> IF PoolStatus[j] = "idle" THEN NoCounter ELSE f[j]]

Pool == INSTANCE JobPool
          WITH status <- PoolStatus, dep <- IfSubmitted(Dep), acc <- IfSubmitted(Acc)

ImplementsPool == Pool!PoolSpec

(***************************************************************************)
(* Every job dispatched is eventually run, deleted pool or not.            *)
(***************************************************************************)
EveryJobRuns == \A j \in Job : j \in Submitted ~> j \in finished

(* ~TaskSystem returns. *)
ShutdownReturns == pc[Main] = "done" ~> pc[Main] = "joined"

=============================================================================
