-------------------------- MODULE TaskSystemProofs --------------------------
(***************************************************************************)
(* Proofs about TaskSystem, for every number of workers, every program of  *)
(* dispatches and every assignment of counters.                            *)
(*                                                                         *)
(* The main result is NoJobStranded.  Its inductive invariant says who     *)
(* holds each mutex, where hands and bodies may be full, which queues      *)
(* ~TaskSystem has closed, and (ScanInv) that a queue with a job in it has *)
(* a worker on its way to it.                                              *)
(***************************************************************************)
EXTENDS TaskSystem, FiniteSetTheorems, TLAPS

(* What the proofs below use of the assumptions on the constants. *)
LEMMA ConstFacts ==
  /\ Count \in Nat /\ Count > 0
  /\ IndexMod \in Nat /\ IndexMod > 0
  /\ Main \in Thread /\ Worker \subseteq Thread /\ Main \notin Worker
  /\ Free \notin Thread /\ NoJob \notin Job
  BY TaskAssumption DEF Thread

(* After a whole round of TryPop, Pop is back at the worker's own queue. *)
LEMMA ModSelf == ASSUME NEW w \in Worker PROVE (w + Count) % Count = w
  BY ConstFacts DEF Worker

(* A remainder modulo _count is the index of a queue. *)
LEMMA ModRange == ASSUME NEW x \in Nat PROVE x % Count \in Worker
  BY ConstFacts DEF Worker

(* The Count attempts of one round reach every queue from any worker. *)
LEMMA ModCover ==
  ASSUME NEW v \in Worker, NEW w \in Worker
  PROVE  \E n \in 0 .. Count - 1 : (v + n) % Count = w
<1> DEFINE n == IF w >= v THEN w - v ELSE w - v + Count
<1>1. n \in 0 .. Count - 1 /\ (v + n) % Count = w
  BY ConstFacts DEF Worker
<1> QED
  BY <1>1

(* A dispatch pushes a job of the program and counts it in its accumulator. *)
LEMMA DispatchedJob ==
  ASSUME TypeOK, ControlInv, HandInv, NEW t \in Thread, Dispatch(t)
  PROVE  \E j \in Job : /\ counter' = [counter EXCEPT ![Acc[j]] = @ + 1]
                       /\ hand' = [hand EXCEPT ![t] = j]
<1> USE ConstFacts DEF TypeOK, ControlInv, HandInv, Source
<1>1. Source(t) \in Job \cup {Main}
  <2>1. CASE t = Main
    BY <2>1
  <2>2. CASE t \in Worker
    <3>1. pc[t] = "body"
      BY <2>2 DEF Dispatch, PushPC
    <3> QED
      BY <2>2, <3>1
  <2> QED
    BY <2>1, <2>2 DEF Thread
<1>2. Program[Source(t)] \in Seq(Job)
  BY <1>1, TaskAssumption
<1>3. next[t] \in Nat /\ next[t] < Len(Program[Source(t)])
  BY DEF Dispatch
<1>4. PICK j \in Job : j = Program[Source(t)][next[t] + 1]
  BY <1>2, <1>3
<1> QED
  BY <1>4 DEF Dispatch

(* The queue a push or a pop tries is one of the queues. *)
LEMMA PushInRange == ASSUME TypeOK, NEW t \in Thread PROVE PushTarget(t) \in Worker
<1>1. slot[t] \in Nat /\ slot[t] + tries[t] \in Nat
  BY DEF TypeOK
<1> QED
  BY <1>1, ModRange DEF PushTarget

(* The queue that a worker tries is one of the queues. *)
LEMMA PopInRange == ASSUME TypeOK, NEW w \in Worker PROVE PopTarget(w) \in Worker
<1>1. w \in Nat /\ w \in Thread
  BY ConstFacts DEF Worker
<1>2. w + tries[w] \in Nat
  BY <1>1 DEF TypeOK
<1> QED
  BY <1>2, ModRange DEF PopTarget

(* A pop takes a job out of one of the workers' queues. *)
LEMMA PoppedJob ==
  ASSUME TypeOK, NEW w \in Worker, PopTake(w)
  PROVE  /\ PopTarget(w) \in Worker
         /\ Head(queue[PopTarget(w)]) \in Job
         /\ Tail(queue[PopTarget(w)]) \in Seq(Job)
<1>1. PopTarget(w) \in Worker
  BY PopInRange
<1> QED
  BY <1>1 DEF PopTake, TypeOK

(* No operation of the pool leaves the types. *)
LEMMA TypeStep ==
  ASSUME TypeOK, ControlInv, HandInv, [Next]_vars
  PROVE  TypeOK'
<1> USE ConstFacts DEF TypeOK, ControlInv, HandInv, Source, Goto, Acquire,
        Release, AfterPush, vars, queueVars, jobVars
<1>1. ASSUME NEW t \in Thread, Take(t) PROVE TypeOK'
  <2>1. index' \in 0..IndexMod-1 BY <1>1 DEF Take
  <2>2. tries' \in [Thread -> Nat] /\ slot' \in [Thread -> Nat]
       BY <1>1 DEF Take
  <2>3. pc' \in [Thread -> PC]
       BY <1>1 DEF Take, PC
  <2> QED BY <1>1, <2>1, <2>2, <2>3 DEF Take
<1>2. ASSUME NEW t \in Thread, PushAcquire(t) PROVE TypeOK'
  BY <1>2 DEF PushAcquire, PC
<1>3. ASSUME NEW t \in Thread, PushMiss(t) PROVE TypeOK'
  BY <1>3 DEF PushMiss, PC
<1>4. ASSUME NEW t \in Thread, PushRelease(t) PROVE TypeOK'
  <2>1. PushTarget(t) \in Worker
    BY PushInRange
  <2>2. hand[t] \in Job BY <1>4 DEF PushRelease
  <2>3. queue' \in [Worker -> Seq(Job)]
      BY <1>4, <2>1, <2>2 DEF PushRelease
  <2> QED BY <1>4, <2>3, <2>1 DEF PushRelease, PC
<1>5. ASSUME NEW t \in Thread, PushNotify(t) PROVE TypeOK'
  BY <1>5 DEF PushNotify, PC
<1>6. ASSUME NEW t \in Thread, Dispatch(t) PROVE TypeOK'
  <2>1. PICK j \in Job : /\ counter' = [counter EXCEPT ![Acc[j]] = @ + 1]
                       /\ hand' = [hand EXCEPT ![t] = j]
    BY <1>6, DispatchedJob
  <2>2. Acc[j] \in Counter
    BY TaskAssumption
  <2>3. counter' \in [Counter -> Int] /\ hand' \in [Thread -> Job \cup {NoJob}]
    BY <2>1, <2>2
  <2>4. next' = [next EXCEPT ![t] = @ + 1]
    BY <1>6 DEF Dispatch
  <2>5. next' \in [Thread -> Nat]
    BY <2>4
  <2> QED
    BY <1>6, <2>3, <2>5 DEF Dispatch, PC
<1>7. ASSUME NEW w \in Worker, PopAcquire(w) PROVE TypeOK'
  BY <1>7 DEF PopAcquire, PC
<1>8. ASSUME NEW w \in Worker, PopMiss(w) PROVE TypeOK'
  BY <1>8 DEF PopMiss, PC
<1>9. ASSUME NEW w \in Worker, PopTake(w) PROVE TypeOK'
  BY <1>9, PoppedJob DEF PopTake, PC
<1>10. ASSUME NEW w \in Worker, PopEmpty(w) PROVE TypeOK'
  <2>1. tries' \in [Thread -> Nat] BY <1>10 DEF PopEmpty
  <2>2. mutex' \in [Worker -> Thread \cup {Free}] BY <1>10 DEF PopEmpty
  <2> QED BY <1>10, <2>1, <2>2 DEF PopEmpty, PC
<1>11. ASSUME NEW w \in Worker, PopWait(w) PROVE TypeOK'
  BY <1>11 DEF PopWait, PC
<1>12. ASSUME NEW w \in Worker, PopDone(w) PROVE TypeOK'
  BY <1>12 DEF PopDone, PC
<1>13. ASSUME NEW w \in Worker, Wake(w) PROVE TypeOK'
  BY <1>13 DEF Wake, PC
<1>14. ASSUME NEW w \in Worker, SpuriousWake(w) PROVE TypeOK'
  BY <1>14 DEF SpuriousWake, PC
<1>15. ASSUME NEW w \in Worker, Requeue(w) PROVE TypeOK'
  BY <1>15 DEF Requeue, PC
<1>16. ASSUME NEW w \in Worker, Run(w) PROVE TypeOK'
  BY <1>16 DEF Run, PC
<1>17. ASSUME NEW w \in Worker, Return(w) PROVE TypeOK'
  <2>1. body[w] \in Job BY <1>17 DEF Return
  <2>3. counter' \in [Counter -> Int]
      BY <1>17, <2>1, TaskAssumption DEF Return
  <2> QED BY <1>17, <2>1, <2>3 DEF Return, PC
<1>18. CASE Destroy
  BY <1>18 DEF Destroy, PC
<1>19. CASE DoneAcquire
  BY <1>19 DEF DoneAcquire, PC
<1>20. CASE DoneRelease
  BY <1>20 DEF DoneRelease, PC
<1>21. CASE DoneNotify
  BY <1>21 DEF DoneNotify, PC
<1>22. CASE Join
  BY <1>22 DEF Join, PC
<1>23. CASE UNCHANGED vars
  BY <1>23
<1> QED
  BY <1>1, <1>2, <1>3, <1>4, <1>5, <1>6, <1>7, <1>8, <1>9, <1>10, <1>11,
     <1>12, <1>13, <1>14, <1>15, <1>16, <1>17, <1>18, <1>19, <1>20, <1>21, <1>22, <1>23
  DEF Next, MainStep, WorkerStep, Push, Pop, Terminated

(***************************************************************************)
(* A step is the step of one thread, and leaves the others where they are. *)
(***************************************************************************)
WorkerActs(w) == Pop(w) \/ Requeue(w) \/ Run(w) \/ Return(w) \/ SpuriousWake(w)
CloserActs == Destroy \/ DoneAcquire \/ DoneRelease \/ DoneNotify \/ Join

Acts(t) ==
  \/ Push(t) \/ Dispatch(t)
  \/ t \in Worker /\ WorkerActs(t)
  \/ t = Main /\ CloserActs

(* A step is that of one thread. *)
LEMMA NextActs == [Next]_vars => UNCHANGED vars \/ \E t \in Thread : Acts(t)
BY ConstFacts DEF Next, MainStep, WorkerStep, Terminated, Acts, WorkerActs, CloserActs

Still(t) ==
  /\ pc'[t] = pc[t] /\ slot'[t] = slot[t] /\ tries'[t] = tries[t]
  /\ hand'[t] = hand[t]
  /\ t \in Worker => body'[t] = body[t]

(* It moves the locals of no other thread. *)
LEMMA OthersStill ==
  ASSUME TypeOK, NEW t \in Thread, Acts(t), NEW u \in Thread, u # t
  PROVE  Still(u)
<1> USE ConstFacts DEF TypeOK, Goto, queueVars, jobVars, Still
<1>1. CASE Take(t) \/ PushAcquire(t) \/ PushMiss(t)
  BY <1>1 DEF Take, PushAcquire, PushMiss
<1>2. CASE PushRelease(t) \/ PushNotify(t) \/ Dispatch(t)
  BY <1>2 DEF PushRelease, PushNotify, Dispatch
<1>3. CASE t \in Worker /\ (PopAcquire(t) \/ PopMiss(t) \/ PopEmpty(t))
  BY <1>3 DEF PopAcquire, PopMiss, PopEmpty
<1>4. CASE t \in Worker /\ (PopWait(t) \/ PopDone(t) \/ Wake(t) \/ SpuriousWake(t))
  BY <1>4 DEF PopWait, PopDone, Wake, SpuriousWake
<1>5. CASE t \in Worker /\ (PopTake(t) \/ Requeue(t))
  BY <1>5 DEF PopTake, Requeue
<1>6. CASE t \in Worker /\ (Run(t) \/ Return(t))
  BY <1>6 DEF Run, Return
<1>7. CASE t = Main /\ CloserActs
  BY <1>7 DEF CloserActs, Destroy, DoneAcquire, DoneRelease, DoneNotify, Join
<1> QED
  BY <1>1, <1>2, <1>3, <1>4, <1>5, <1>6, <1>7 DEF Acts, WorkerActs, Push, Pop

(* What ControlInv says of one thread. *)
WorkerControl(w) ==
  /\ pc[w] \in PushPC \cup {"pop", "popHeld", "wait", "check", "body", "exited"}
  /\ pc[w] \in {"pop", "popHeld"} => tries[w] \in 0 .. Count
  /\ pc[w] \in {"wait", "exited"} => tries[w] = Count
  /\ pc[w] \in {"check", "body"} => tries[w] = 0

MainControl ==
  /\ pc[Main] \in {"client"} \cup PushPC \cup CloserPC
  /\ pc[Main] \in {"done", "doneHeld", "doneNotify"} => slot[Main] \in Worker

(* No operation puts a thread where its role has no code, and a scan starts
   at its own queue and ends after one round. *)
LEMMA ControlStep ==
  ASSUME TypeOK, ControlInv, [Next]_vars
  PROVE  ControlInv'
<1> USE ConstFacts DEF PushPC, CloserPC
<1>1. CASE UNCHANGED vars
  BY <1>1 DEF vars, ControlInv
<1>2. ASSUME NEW t \in Thread, Acts(t) PROVE ControlInv'
  <2>1. /\ pc \in [Thread -> PC] /\ tries \in [Thread -> Nat] /\ slot \in [Thread -> Nat]
        /\ \A u \in Thread : u # t => Still(u)
    BY <1>2, OthersStill DEF TypeOK
  <2>2. ASSUME NEW w \in Worker PROVE WorkerControl(w)'
    <3>0. WorkerControl(w)
      BY DEF ControlInv, WorkerControl
    <3>1. CASE w # t
      BY <2>1, <3>0, <3>1 DEF Still, WorkerControl
    <3>2. CASE w = t /\ Push(t)
      <4>1. CASE PushNotify(t)
        BY <2>1, <3>2, <4>1 DEF PushNotify, Goto, AfterPush, WorkerControl
      <4>2. CASE Take(t) \/ PushAcquire(t) \/ PushMiss(t) \/ PushRelease(t)
        BY <2>1, <3>2, <4>2 DEF Take, PushAcquire, PushMiss, PushRelease, Goto, WorkerControl
      <4> QED
        BY <3>2, <4>1, <4>2 DEF Push
    <3>3. CASE w = t /\ (Dispatch(t) \/ Requeue(t) \/ Run(t) \/ Return(t) \/ SpuriousWake(t))
      BY <2>1, <3>0, <3>3
      DEF Dispatch, Requeue, Run, Return, SpuriousWake, Goto, WorkerControl
    <3>4. CASE w = t /\ Pop(t)
      <4>1. CASE PopAcquire(t) \/ PopTake(t) \/ Wake(t)
        BY <2>1, <3>0, <3>4, <4>1 DEF PopAcquire, PopTake, Wake, Goto, WorkerControl
      <4>2. CASE PopMiss(t)
        <5>1. /\ pc'[t] = "pop" /\ tries'[t] = tries[t] + 1
              /\ tries[t] \in Nat /\ tries[t] < Count
          BY <2>1, <4>2 DEF PopMiss
        <5> QED
          BY <3>4, <5>1 DEF WorkerControl
      <4>3. CASE PopEmpty(t)
        <5>1. /\ pc'[t] = "pop" /\ tries'[t] = tries[t] + 1
              /\ tries[t] \in Nat /\ tries[t] < Count
          BY <2>1, <4>3 DEF PopEmpty, Goto
        <5> QED
          BY <3>4, <5>1 DEF WorkerControl
      <4>4. CASE PopWait(t) \/ PopDone(t)
        BY <2>1, <3>4, <4>4 DEF PopWait, PopDone, Goto, WorkerControl
      <4> QED
        BY <3>4, <4>1, <4>2, <4>3, <4>4 DEF Pop
    <3> QED
      BY <1>2, <3>1, <3>2, <3>3, <3>4 DEF Acts, WorkerActs
  <2>3. MainControl'
    <3>0. MainControl
      BY DEF ControlInv, MainControl
    <3>1. CASE t # Main
      BY <2>1, <3>0, <3>1 DEF Still, MainControl
    <3>2. CASE t = Main /\ (Push(t) \/ Dispatch(t))
      BY <2>1, <3>2 DEF Push, Take, PushAcquire, PushMiss, PushRelease, PushNotify, Dispatch,
                        Goto, AfterPush, MainControl
    <3>3. CASE t = Main /\ (Destroy \/ DoneAcquire \/ DoneRelease \/ Join)
      BY <2>1, <3>0, <3>3
      DEF Destroy, DoneAcquire, DoneRelease, Join, Goto, Worker, MainControl
    <3>4. CASE t = Main /\ DoneNotify
      <4>1. /\ slot[Main] \in Nat /\ slot'[Main] = slot[Main] + 1
            /\ pc'[Main] = IF slot[Main] + 1 < Count THEN "done" ELSE "join"
        BY <2>1, <3>4 DEF DoneNotify, Goto
      <4>2. slot[Main] + 1 < Count => slot'[Main] \in Worker
        BY <4>1 DEF Worker
      <4> QED
        BY <4>1, <4>2 DEF MainControl
    <3> QED
      BY <1>2, <3>1, <3>2, <3>3, <3>4 DEF Acts, CloserActs
  <2> QED
    BY <2>2, <2>3 DEF ControlInv, WorkerControl, MainControl
<1> QED
  BY <1>1, <1>2, NextActs

(* A job is in a hand only while its thread pushes or checks it, and a
   worker's body is set only while it runs. *)
LEMMA HandStep ==
  ASSUME TypeOK, ControlInv, HandInv, [Next]_vars
  PROVE  HandInv'
<1> USE ConstFacts DEF ControlInv, HandInv, TypeOK, PushPC, CloserPC, Source,
        Thread, Goto, Acquire, Release, AfterPush, vars, queueVars, jobVars
<1>1. ASSUME NEW t \in Thread, Take(t) PROVE HandInv'
  BY <1>1 DEF Take
<1>2. ASSUME NEW t \in Thread, PushAcquire(t) PROVE HandInv'
  BY <1>2 DEF PushAcquire
<1>3. ASSUME NEW t \in Thread, PushMiss(t) PROVE HandInv'
  BY <1>3 DEF PushMiss
<1>4. ASSUME NEW t \in Thread, PushRelease(t) PROVE HandInv'
  BY <1>4 DEF PushRelease
<1>5. ASSUME NEW t \in Thread, PushNotify(t) PROVE HandInv'
  BY <1>5 DEF PushNotify
<1>6. ASSUME NEW t \in Thread, Dispatch(t) PROVE HandInv'
  <2>1. PICK j \in Job : hand' = [hand EXCEPT ![t] = j]
    BY <1>6, DispatchedJob
  <2>2. hand'[t] # NoJob /\ \A u \in Thread : u # t => hand'[u] = hand[u]
    BY <2>1
  <2> QED
    BY <1>6, <2>2 DEF Dispatch
<1>7. ASSUME NEW w \in Worker, PopAcquire(w) PROVE HandInv'
  BY <1>7 DEF PopAcquire
<1>8. ASSUME NEW w \in Worker, PopMiss(w) PROVE HandInv'
  BY <1>8 DEF PopMiss
<1>9. ASSUME NEW w \in Worker, PopTake(w) PROVE HandInv'
  <2>1. PICK j \in Job : hand' = [hand EXCEPT ![w] = j]
    BY <1>9, PoppedJob DEF PopTake
  <2>2. hand'[w] # NoJob /\ \A u \in Thread : u # w => hand'[u] = hand[u]
    BY <2>1
  <2> QED
    BY <1>9, <2>2 DEF PopTake
<1>10. ASSUME NEW w \in Worker, PopEmpty(w) PROVE HandInv'
  BY <1>10 DEF PopEmpty
<1>11. ASSUME NEW w \in Worker, PopWait(w) PROVE HandInv'
  BY <1>11 DEF PopWait
<1>12. ASSUME NEW w \in Worker, PopDone(w) PROVE HandInv'
  BY <1>12 DEF PopDone
<1>13. ASSUME NEW w \in Worker, Wake(w) PROVE HandInv'
  BY <1>13 DEF Wake
<1>14. ASSUME NEW w \in Worker, SpuriousWake(w) PROVE HandInv'
  BY <1>14 DEF SpuriousWake
<1>15. ASSUME NEW w \in Worker, Requeue(w) PROVE HandInv'
  BY <1>15 DEF Requeue
<1>16. ASSUME NEW w \in Worker, Run(w) PROVE HandInv'
  BY <1>16 DEF Run
<1>17. ASSUME NEW w \in Worker, Return(w) PROVE HandInv'
  BY <1>17 DEF Return
<1>18. CASE Destroy
  BY <1>18 DEF Destroy
<1>19. CASE DoneAcquire
  BY <1>19 DEF DoneAcquire
<1>20. CASE DoneRelease
  BY <1>20 DEF DoneRelease
<1>21. CASE DoneNotify
  BY <1>21 DEF DoneNotify
<1>22. CASE Join
  BY <1>22 DEF Join
<1>23. CASE UNCHANGED vars
  BY <1>23
<1> QED
  BY <1>1, <1>2, <1>3, <1>4, <1>5, <1>6, <1>7, <1>8, <1>9, <1>10, <1>11,
     <1>12, <1>13, <1>14, <1>15, <1>16, <1>17, <1>18, <1>19, <1>20, <1>21, <1>22, <1>23
  DEF Next, MainStep, WorkerStep, Push, Pop, Terminated

(* ~TaskSystem closes the queues in order, and no worker leaves before its
   own queue is closed. *)
LEMMA CloseStep ==
  ASSUME TypeOK, ControlInv, CloseInv, [Next]_vars
  PROVE  CloseInv'
<1> USE ConstFacts DEF PushPC, CloserPC
<1>1. CASE UNCHANGED vars
  BY <1>1 DEF vars, CloseInv, Closed
<1>2. ASSUME NEW t \in Thread, Acts(t) PROVE CloseInv'
  <2>1. /\ pc \in [Thread -> PC] /\ slot \in [Thread -> Nat] /\ done \in [Worker -> BOOLEAN]
        /\ \A u \in Thread : u # t => Still(u)
    BY <1>2, OthersStill DEF TypeOK
  <2> SUFFICES ASSUME NEW w \in Worker
               PROVE  (done'[w] <=> Closed(w)') /\ (pc'[w] = "exited" => done'[w])
    BY DEF CloseInv
  <2>2. (done[w] <=> Closed(w)) /\ (pc[w] = "exited" => done[w])
    BY DEF CloseInv
  <2>3. CASE t # Main
    <3>1. done' = done /\ (pc'[w] = "exited" => pc[w] = "exited" \/ (w = t /\ PopDone(t)))
      <4>1. CASE Push(t) \/ Dispatch(t)
        BY <2>1, <4>1 DEF Push, Take, PushAcquire, PushMiss, PushRelease, PushNotify, Dispatch,
                          Goto, AfterPush, queueVars, Still
      <4>2. CASE t \in Worker /\ WorkerActs(t)
        BY <2>1, <4>2 DEF WorkerActs, Pop, PopAcquire, PopMiss, PopTake, PopEmpty, PopWait,
                          PopDone, Wake, SpuriousWake, Requeue, Run, Return, Goto, queueVars, Still
      <4> QED
        BY <1>2, <2>3, <4>1, <4>2 DEF Acts
    <3>2. Closed(w)' <=> Closed(w)
      BY <2>1, <2>3 DEF Still, Closed
    <3>3. PopDone(w) => done[w]
      BY DEF PopDone
    <3> QED
      BY <2>2, <3>1, <3>2, <3>3
  <2>4. CASE t = Main /\ (Push(t) \/ Dispatch(t))
    <3>1. done' = done /\ pc[Main] \in {"client"} \cup PushPC /\ pc'[Main] \in {"client"} \cup PushPC
      BY <2>1, <2>4 DEF Push, Take, PushAcquire, PushMiss, PushRelease, PushNotify, Dispatch,
                        Goto, AfterPush, queueVars, ControlInv
    <3>2. pc'[w] = pc[w]
      BY <2>1, <2>4 DEF Still
    <3> QED
      BY <2>2, <3>1, <3>2 DEF Closed
  <2>5. CASE t = Main /\ CloserActs
    <3>1. pc'[w] = pc[w] /\ w \in Nat /\ w < Count
      BY <2>1, <2>5 DEF Still, Worker
    <3>2. CASE Destroy \/ DoneAcquire \/ Join
      BY <2>1, <2>2, <3>1, <3>2 DEF Destroy, DoneAcquire, Join, Goto, queueVars, Closed
    <3>3. CASE DoneRelease
      <4>1. /\ pc[Main] = "doneHeld" /\ pc'[Main] = "doneNotify" /\ slot'[Main] = slot[Main]
            /\ slot[Main] \in Nat /\ (done'[w] <=> w = slot[Main] \/ done[w])
        BY <2>1, <3>3 DEF DoneRelease, Goto
      <4>2. w <= slot[Main] <=> w < slot[Main] \/ w = slot[Main]
        BY <3>1, <4>1
      <4> QED
        BY <2>2, <3>1, <4>1, <4>2 DEF Closed
    <3>4. CASE DoneNotify
      <4>1. /\ pc[Main] = "doneNotify" /\ slot[Main] \in Nat /\ slot'[Main] = slot[Main] + 1
            /\ pc'[Main] = IF slot[Main] + 1 < Count THEN "done" ELSE "join"
            /\ done' = done
        BY <2>1, <3>4 DEF DoneNotify, Goto
      <4>2. w <= slot[Main] <=> w < slot'[Main]
        BY <3>1, <4>1
      <4>3. CASE slot[Main] + 1 < Count
        BY <2>2, <3>1, <4>1, <4>2, <4>3 DEF Closed
      <4>4. CASE ~(slot[Main] + 1 < Count)
        <5>1. w <= slot[Main]
          BY <3>1, <4>1, <4>4
        <5> QED
          BY <2>2, <3>1, <4>1, <4>4, <5>1 DEF Closed
      <4> QED
        BY <4>3, <4>4
    <3> QED
      BY <2>5, <3>2, <3>3, <3>4 DEF CloserActs
  <2> QED
    BY <1>2, <2>3, <2>4, <2>5 DEF Acts
<1> QED
  BY <1>1, <1>2, NextActs

(* Where a thread that does not move is inside, and one that takes a mutex,
   gives it back or does neither. *)
LEMMA InsideStill ==
  ASSUME NEW t \in Thread, Still(t), NEW w \in Worker
  PROVE  Inside(t, w)' <=> Inside(t, w)
BY DEF Still, Inside, PushTarget, PopTarget

(* A step that takes or gives back one mutex, or none. *)
LEMMA MutexKept ==
  ASSUME TypeOK, MutexInv, NEW t \in Thread, \A u \in Thread : u # t => Still(u),
         \/ /\ mutex' = mutex
            /\ \A w \in Worker : Inside(t, w)' <=> Inside(t, w)
         \/ \E x \in Worker :
              /\ mutex[x] = Free /\ mutex' = [mutex EXCEPT ![x] = t]
              /\ \A w \in Worker : ~Inside(t, w) /\ (Inside(t, w)' <=> w = x)
         \/ \E x \in Worker :
              /\ mutex' = [mutex EXCEPT ![x] = Free]
              /\ \A w \in Worker : (Inside(t, w) <=> w = x) /\ ~Inside(t, w)'
  PROVE  MutexInv'
<1> SUFFICES ASSUME NEW u \in Thread, NEW w \in Worker PROVE mutex'[w] = u <=> Inside(u, w)'
  BY DEF MutexInv
<1>1. /\ mutex \in [Worker -> Thread \cup {Free}] /\ u # Free /\ t # Free
      /\ mutex[w] = u <=> Inside(u, w)
      /\ mutex[w] = t <=> Inside(t, w)
  BY ConstFacts DEF TypeOK, MutexInv
<1>2. CASE u = t
  BY <1>1, <1>2
<1>3. CASE u # t
  <2>1. Inside(u, w)' <=> Inside(u, w)
    BY <1>3, InsideStill
  <2> QED
    BY <1>1, <1>3, <2>1
<1> QED
  BY <1>2, <1>3

(* A mutex is held exactly by the thread inside its critical section. *)
LEMMA MutexStep ==
  ASSUME TypeOK, ControlInv, MutexInv, [Next]_vars
  PROVE  MutexInv'
<1> USE ConstFacts DEF Goto
<1>1. CASE UNCHANGED vars
  BY <1>1 DEF vars, MutexInv, Inside, PushTarget, PopTarget
<1>2. ASSUME NEW t \in Thread, Acts(t) PROVE MutexInv'
  <2>1. /\ pc \in [Thread -> PC] /\ \A u \in Thread : u # t => Still(u)
        /\ tries \in [Thread -> Nat] /\ slot \in [Thread -> Nat]
        /\ t \in Worker => t # Main
    BY <1>2, OthersStill DEF TypeOK
  <2>2. CASE SpuriousWake(t) /\ t \in Worker
    BY <2>1, <2>2, InsideStill, MutexKept DEF SpuriousWake, Still, jobVars
  <2>3. CASE \/ Take(t) \/ PushMiss(t) \/ PushNotify(t) \/ Dispatch(t)
             \/ t = Main /\ (Destroy \/ DoneNotify \/ Join)
             \/ t \in Worker /\ (PopMiss(t) \/ Requeue(t) \/ Run(t) \/ Return(t))
    <3>1. /\ mutex' = mutex
          /\ pc[t] \notin {"pushHeld", "popHeld", "doneHeld"}
          /\ pc'[t] \notin {"pushHeld", "popHeld", "doneHeld"}
      <4>1. CASE Take(t) \/ PushMiss(t) \/ PushNotify(t) \/ Dispatch(t)
        BY <2>1, <4>1 DEF Take, PushMiss, PushNotify, Dispatch, AfterPush, queueVars
      <4>2. CASE t = Main /\ (Destroy \/ DoneNotify \/ Join)
        BY <2>1, <4>2 DEF Destroy, DoneNotify, Join, queueVars
      <4>3. CASE t \in Worker /\ (PopMiss(t) \/ Requeue(t) \/ Run(t) \/ Return(t))
        BY <2>1, <4>3 DEF PopMiss, Requeue, Run, Return, queueVars
      <4> QED
        BY <2>3, <4>1, <4>2, <4>3
    <3>2. \A w \in Worker : ~Inside(t, w) /\ ~Inside(t, w)'
      BY <3>1 DEF Inside
    <3> QED
      BY <2>1, <3>1, <3>2, MutexKept
  <2>4. CASE \/ PushAcquire(t)
             \/ t \in Worker /\ (PopAcquire(t) \/ Wake(t))
             \/ t = Main /\ DoneAcquire
    <3>1. \E x \in Worker :
            /\ mutex[x] = Free /\ mutex' = [mutex EXCEPT ![x] = t]
            /\ \A w \in Worker : ~Inside(t, w) /\ (Inside(t, w)' <=> w = x)
      <4>1. CASE PushAcquire(t)
        <5>1. /\ mutex[PushTarget(t)] = Free /\ mutex' = [mutex EXCEPT ![PushTarget(t)] = t]
              /\ pc[t] = "push" /\ pc'[t] = "pushHeld" /\ PushTarget(t)' = PushTarget(t)
          BY <2>1, <4>1 DEF PushAcquire, Acquire, PushTarget
        <5> QED
          BY <2>1, <5>1, PushInRange DEF Inside
      <4>2. CASE t \in Worker /\ PopAcquire(t)
        <5>1. /\ mutex[PopTarget(t)] = Free /\ mutex' = [mutex EXCEPT ![PopTarget(t)] = t]
              /\ pc[t] = "pop" /\ pc'[t] = "popHeld" /\ PopTarget(t)' = PopTarget(t)
          BY <2>1, <4>2 DEF PopAcquire, Acquire, PopTarget
        <5> QED
          BY <2>1, <4>2, <5>1, PopInRange DEF Inside
      <4>3. CASE t \in Worker /\ Wake(t)
        <5>1. /\ mutex[t] = Free /\ mutex' = [mutex EXCEPT ![t] = t]
              /\ pc[t] = "wait" /\ pc'[t] = "popHeld" /\ tries'[t] = Count
          BY <2>1, <4>3 DEF Wake, Acquire, ControlInv
        <5>2. PopTarget(t)' = t
          BY <4>3, <5>1, ModSelf DEF PopTarget
        <5> QED
          BY <2>1, <4>3, <5>1, <5>2 DEF Inside
      <4>4. CASE t = Main /\ DoneAcquire
        <5>1. /\ mutex[slot[t]] = Free /\ mutex' = [mutex EXCEPT ![slot[t]] = t]
              /\ pc[t] = "done" /\ pc'[t] = "doneHeld" /\ slot'[t] = slot[t] /\ slot[t] \in Worker
          BY <2>1, <4>4 DEF DoneAcquire, Acquire, ControlInv
        <5> QED
          BY <2>1, <4>4, <5>1 DEF Inside
      <4> QED
        BY <2>4, <4>1, <4>2, <4>3, <4>4
    <3> QED
      BY <2>1, <3>1, MutexKept
  <2>5. CASE \/ PushRelease(t)
             \/ t \in Worker /\ (PopTake(t) \/ PopEmpty(t) \/ PopWait(t) \/ PopDone(t))
             \/ t = Main /\ DoneRelease
    <3>1. \E x \in Worker :
            /\ mutex' = [mutex EXCEPT ![x] = Free]
            /\ \A w \in Worker : (Inside(t, w) <=> w = x) /\ ~Inside(t, w)'
      <4>1. CASE PushRelease(t)
        <5>1. /\ mutex' = [mutex EXCEPT ![PushTarget(t)] = Free]
              /\ pc[t] = "pushHeld" /\ pc'[t] = "notify"
          BY <2>1, <4>1 DEF PushRelease, Release
        <5> QED
          BY <2>1, <5>1, PushInRange DEF Inside
      <4>2. CASE t \in Worker /\ (PopTake(t) \/ PopEmpty(t))
        <5>1. /\ mutex' = [mutex EXCEPT ![PopTarget(t)] = Free]
              /\ pc[t] = "popHeld" /\ pc'[t] \in {"check", "pop"}
          BY <2>1, <4>2 DEF PopTake, PopEmpty, Release
        <5> QED
          BY <2>1, <4>2, <5>1, PopInRange DEF Inside
      <4>3. CASE t \in Worker /\ (PopWait(t) \/ PopDone(t))
        <5>1. /\ mutex' = [mutex EXCEPT ![t] = Free] /\ tries[t] = Count
              /\ pc[t] = "popHeld" /\ pc'[t] \in {"wait", "exited"}
          BY <2>1, <4>3 DEF PopWait, PopDone, Release
        <5>2. PopTarget(t) = t
          BY <4>3, <5>1, ModSelf DEF PopTarget
        <5> QED
          BY <2>1, <4>3, <5>1, <5>2 DEF Inside
      <4>4. CASE t = Main /\ DoneRelease
        <5>1. /\ mutex' = [mutex EXCEPT ![slot[t]] = Free] /\ slot[t] \in Worker
              /\ pc[t] = "doneHeld" /\ pc'[t] = "doneNotify"
          BY <2>1, <4>4 DEF DoneRelease, Release, ControlInv
        <5> QED
          BY <2>1, <4>4, <5>1 DEF Inside
      <4> QED
        BY <2>5, <4>1, <4>2, <4>3, <4>4
    <3> QED
      BY <2>1, <3>1, MutexKept
  <2> QED
    BY <1>2, <2>2, <2>3, <2>4, <2>5 DEF Acts, WorkerActs, CloserActs, Push, Pop
<1> QED
  BY <1>1, <1>2, NextActs

(* The worker of a queue that the main thread has not closed is still there. *)
LEMMA NotClosedYet ==
  ASSUME ControlInv, CloseInv, NEW w \in Worker,
         pc[Main] \in {"client"} \cup PushPC \/ (pc[Main] = "doneHeld" /\ slot[Main] = w)
  PROVE  pc[w] # "exited"
  BY ConstFacts DEF ControlInv, CloseInv, Closed, PushPC, CloserPC, Worker

(* A queue whose mutex another thread holds will be scanned. *)
LEMMA HeldScanned ==
  ASSUME TypeOK, ControlInv, CloseInv, MutexInv, NEW u \in Worker, mutex[u] # Free
  PROVE  \E v \in Worker : WillScan(v, u) /\ (v = u \/ pc[v] # "pop")
<1> USE ConstFacts DEF TypeOK
<1>1. PICK t \in Thread : mutex[u] = t
  OBVIOUS
<1>2. Inside(t, u)
  BY <1>1 DEF MutexInv
<1>3. CASE t = Main
  <2>1. pc[u] # "exited"
    BY <1>2, <1>3, NotClosedYet DEF Inside, PushPC
  <2> QED
    BY <2>1 DEF WillScan
<1>4. CASE t \in Worker /\ pc[t] = "pushHeld"
  BY <1>4 DEF WillScan, PushPC
<1>5. CASE t \in Worker /\ pc[t] = "popHeld" /\ PopTarget(t) = u
  <2>1. CASE tries[t] < Count
    <3>1. tries[t] \in 0 .. Count - 1 /\ (t + tries[t]) % Count = u
      BY <1>5, <2>1 DEF ControlInv, PopTarget
    <3>2. WillScan(t, u)
      BY <1>5, <3>1 DEF WillScan
    <3> QED
      BY <1>5, <3>2
  <2>2. CASE tries[t] = Count
    BY <1>5, <2>2, ModSelf DEF WillScan, PopTarget
  <2> QED
    BY <1>5, <2>1, <2>2 DEF ControlInv
<1> QED
  BY <1>2, <1>3, <1>4, <1>5 DEF Inside, Thread

(* What a worker may do and still look wherever it was going to look. *)
Carries(v) ==
  \/ pc'[v] = pc[v] /\ tries'[v] = tries[v]
  \/ {pc[v], pc'[v]} \subseteq {"pop", "popHeld"} /\ tries'[v] = tries[v]
  \/ pc'[v] \in PushPC \cup {"check", "body"}
  \/ pc'[v] = "pop" /\ tries'[v] = 0
  \/ pc[v] = "wait" /\ pc'[v] # "exited"

(* A worker that goes on scanning still reaches the queues ahead of it. *)
LEMMA CarriesScan ==
  ASSUME NEW v \in Worker, NEW u \in Worker, WillScan(v, u), Carries(v)
  PROVE  WillScan(v, u)'
<1>1. CASE pc'[v] = pc[v] /\ tries'[v] = tries[v]
  BY <1>1 DEF WillScan
<1>2. CASE {pc[v], pc'[v]} \subseteq {"pop", "popHeld"} /\ tries'[v] = tries[v]
  <2>1. CASE v = u
    BY <1>2, <2>1 DEF WillScan
  <2>2. CASE v # u
    <3>1. PICK n \in 0 .. Count - 1 : n >= tries[v] /\ (v + n) % Count = u
      BY <1>2, <2>2 DEF WillScan, PushPC
    <3> QED
      BY <1>2, <3>1 DEF WillScan
  <2> QED
    BY <2>1, <2>2
<1>3. CASE pc'[v] \in PushPC \cup {"check", "body"}
  BY <1>3 DEF WillScan
<1>4. CASE pc'[v] = "pop" /\ tries'[v] = 0
  <2>1. PICK n \in 0 .. Count - 1 : (v + n) % Count = u
    BY ModCover
  <2>2. n >= tries'[v]
    BY <1>4, ConstFacts
  <2> QED
    BY <1>4, <2>1, <2>2 DEF WillScan
<1>5. CASE pc[v] = "wait" /\ pc'[v] # "exited"
  BY <1>5 DEF WillScan, PushPC
<1> QED
  BY <1>1, <1>2, <1>3, <1>4, <1>5 DEF Carries

(* So a queue that no push has touched keeps its scanner when all workers do that. *)
LEMMA ScanCarried ==
  ASSUME ScanInv, NEW u \in Worker, queue[u] # <<>>, \A v \in Worker : Carries(v)
  PROVE  \E v \in Worker : WillScan(v, u)'
BY CarriesScan DEF ScanInv

(* While a queue holds a job, a worker that has not left will still look
   into it: the hardest case is a TryPop that misses because the mutex is
   held, where the holder is the one that will. *)
LEMMA ScanStep ==
  ASSUME TypeOK, ControlInv, CloseInv, MutexInv, ScanInv, [Next]_vars
  PROVE  ScanInv'
<1> SUFFICES ASSUME NEW u \in Worker, queue'[u] # <<>>
             PROVE  \E v \in Worker : WillScan(v, u)'
  BY DEF ScanInv
<1> USE ConstFacts DEF TypeOK, PushPC, Goto, queueVars, jobVars
<1>1. ASSUME NEW t \in Thread, Take(t) \/ PushAcquire(t) \/ PushMiss(t) \/ Dispatch(t)
      PROVE  \E v \in Worker : WillScan(v, u)'
  <2>1. queue[u] # <<>> /\ \A v \in Worker : Carries(v)
    <3>1. CASE Take(t) \/ Dispatch(t)
      BY <3>1 DEF Take, Dispatch, Carries
    <3>2. CASE PushAcquire(t) \/ PushMiss(t)
      BY <3>2 DEF PushAcquire, PushMiss, Carries
    <3> QED
      BY <1>1, <3>1, <3>2
  <2> QED
    BY <2>1, ScanCarried
<1>2. ASSUME NEW t \in Thread, PushRelease(t) PROVE \E v \in Worker : WillScan(v, u)'
  <2>1. CASE t = Main
    <3>1. pc[u] # "exited" /\ pc'[u] = pc[u]
      BY <1>2, <2>1, NotClosedYet DEF PushRelease
    <3> QED
      BY <3>1 DEF WillScan
  <2>2. CASE t \in Worker
    BY <1>2, <2>2 DEF PushRelease, WillScan
  <2> QED
    BY <2>1, <2>2 DEF Thread
<1>3. ASSUME NEW t \in Thread, PushNotify(t) PROVE \E v \in Worker : WillScan(v, u)'
  <2>1. queue[u] # <<>> /\ \A v \in Worker : Carries(v)
    BY <1>3 DEF PushNotify, AfterPush, Carries
  <2> QED
    BY <2>1, ScanCarried
<1>4. ASSUME NEW w \in Worker,
             PopAcquire(w) \/ Wake(w) \/ SpuriousWake(w) \/ Requeue(w) \/ Run(w) \/ Return(w)
      PROVE  \E v \in Worker : WillScan(v, u)'
  <2>1. queue[u] # <<>> /\ \A v \in Worker : Carries(v)
    <3>1. CASE PopAcquire(w) \/ Wake(w)
      BY <3>1 DEF PopAcquire, Wake, Carries
    <3>2. CASE SpuriousWake(w)
      BY <3>2 DEF SpuriousWake, Carries
    <3>3. CASE Requeue(w) \/ Run(w)
      BY <3>3 DEF Requeue, Run, Carries
    <3>4. CASE Return(w)
      BY <3>4 DEF Return, ControlInv, Carries
    <3> QED
      BY <1>4, <3>1, <3>2, <3>3, <3>4
  <2> QED
    BY <2>1, ScanCarried
<1>5. ASSUME NEW w \in Worker, PopTake(w) PROVE \E v \in Worker : WillScan(v, u)'
  BY <1>5 DEF PopTake, WillScan
<1>6. ASSUME NEW w \in Worker, PopMiss(w) PROVE \E v \in Worker : WillScan(v, u)'
  <2>1. /\ queue[u] # <<>> /\ pc[w] = "pop" /\ pc' = pc
        /\ tries[w] \in Nat /\ tries'[w] = tries[w] + 1
        /\ \A v \in Worker : v # w => Carries(v)
    BY <1>6 DEF PopMiss, Carries
  <2>2. PICK v \in Worker : WillScan(v, u)
    BY <2>1 DEF ScanInv
  <2>3. CASE v # w
    BY <2>1, <2>2, <2>3, CarriesScan
  <2>4. CASE v = w /\ u = w
    BY <2>1, <2>4 DEF WillScan
  <2>5. CASE v = w /\ u # w
    <3>1. PICK n \in 0 .. Count - 1 : n >= tries[w] /\ (w + n) % Count = u
      BY <2>1, <2>2, <2>5 DEF WillScan
    <3>2. CASE n = tries[w]
      <4>1. mutex[u] # Free
        BY <1>6, <3>1, <3>2 DEF PopMiss, PopTarget
      <4>2. PICK x \in Worker : WillScan(x, u) /\ (x = u \/ pc[x] # "pop")
        BY <4>1, HeldScanned
      <4>3. x # w
        BY <2>1, <2>5, <4>2
      <4> QED
        BY <2>1, <4>2, <4>3, CarriesScan
    <3>3. CASE n # tries[w]
      <4>1. n \in Nat /\ n > tries[w]
        BY <2>1, <3>1, <3>3
      <4>2. n >= tries'[w]
        BY <2>1, <4>1
      <4> QED
        BY <2>1, <3>1, <4>2 DEF WillScan
    <3> QED
      BY <3>2, <3>3
  <2> QED
    BY <2>3, <2>4, <2>5
<1>7. ASSUME NEW w \in Worker, PopEmpty(w) PROVE \E v \in Worker : WillScan(v, u)'
  <2>1. /\ queue[u] # <<>> /\ pc[w] = "popHeld" /\ pc'[w] = "pop"
        /\ tries[w] \in Nat /\ tries'[w] = tries[w] + 1
        /\ \A v \in Worker : v # w => Carries(v)
    BY <1>7 DEF PopEmpty, Carries
  <2>2. PICK v \in Worker : WillScan(v, u)
    BY <2>1 DEF ScanInv
  <2>3. CASE v # w
    BY <2>1, <2>2, <2>3, CarriesScan
  <2>4. CASE v = w /\ u = w
    BY <2>1, <2>4 DEF WillScan
  <2>5. CASE v = w /\ u # w
    <3>1. PICK n \in 0 .. Count - 1 : n >= tries[w] /\ (w + n) % Count = u
      BY <2>1, <2>2, <2>5 DEF WillScan
    <3>2. n # tries[w]
      BY <1>7, <2>1, <3>1 DEF PopEmpty, PopTarget
    <3>3. n \in Nat /\ n > tries[w]
      BY <2>1, <3>1, <3>2
    <3>4. n >= tries'[w]
      BY <2>1, <3>3
    <3> QED
      BY <2>1, <3>1, <3>4 DEF WillScan
  <2> QED
    BY <2>3, <2>4, <2>5
<1>8. ASSUME NEW w \in Worker, PopWait(w) \/ PopDone(w) PROVE \E v \in Worker : WillScan(v, u)'
  <2>1. /\ queue' = queue /\ pc[w] = "popHeld" /\ tries[w] = Count
        /\ PopDone(w) => queue[w] = <<>>
        /\ PopWait(w) => pc'[w] # "exited"
        /\ \A v \in Worker : v # w => Carries(v)
    BY <1>8, ModSelf DEF PopWait, PopDone, PopTarget, Carries
  <2>2. PICK v \in Worker : WillScan(v, u)
    BY <2>1 DEF ScanInv
  <2>3. CASE v # w
    BY <2>1, <2>2, <2>3, CarriesScan
  <2>4. CASE v = w
    <3>1. u = w
      BY <2>1, <2>2, <2>4 DEF WillScan
    <3>2. PopWait(w)
      BY <1>8, <2>1, <3>1
    <3> QED
      BY <2>1, <3>1, <3>2 DEF WillScan
  <2> QED
    BY <2>3, <2>4
<1>9. CASE \/ Destroy \/ DoneAcquire \/ DoneRelease \/ DoneNotify \/ Join \/ UNCHANGED vars
  <2>1. queue[u] # <<>> /\ \A v \in Worker : Carries(v)
    BY <1>9 DEF Destroy, DoneAcquire, DoneRelease, DoneNotify, Join, vars, Carries
  <2> QED
    BY <2>1, ScanCarried
<1> QED
  BY <1>1, <1>2, <1>3, <1>4, <1>5, <1>6, <1>7, <1>8, <1>9
  DEF Next, MainStep, WorkerStep, Push, Pop, Terminated

-----------------------------------------------------------------------------
(***************************************************************************)
(* TaskSystem.h is type correct for every number of workers and every      *)
(* program of dispatches.                                                  *)
(***************************************************************************)
THEOREM InductiveInv == Spec => [](TypeOK /\ ShutdownInv)
<1>1. Init => TypeOK /\ ShutdownInv
  <2> SUFFICES ASSUME Init PROVE TypeOK /\ ShutdownInv
    OBVIOUS
  <2> USE ConstFacts DEF Init
  <2>1. TypeOK
    BY DEF TypeOK, PC
  <2>2. MutexInv
    BY DEF MutexInv, Inside
  <2>3. ControlInv
    BY DEF ControlInv
  <2>4. HandInv
    BY DEF HandInv
  <2>5. CloseInv
    BY DEF CloseInv, Closed
  <2>6. ScanInv
    BY DEF ScanInv
  <2> QED
    BY <2>1, <2>2, <2>3, <2>4, <2>5, <2>6 DEF ShutdownInv
<1>2. TypeOK /\ ShutdownInv /\ [Next]_vars => (TypeOK /\ ShutdownInv)'
  BY TypeStep, ControlStep, HandStep, CloseStep, MutexStep, ScanStep DEF ShutdownInv
<1> QED
  BY <1>1, <1>2, PTL DEF Spec

(* The types, for any number of workers, tries and jobs. *)
THEOREM TypeCorrect == Spec => []TypeOK
  BY InductiveInv, PTL

(* The inductive invariant itself: mutual exclusion, the order in which the
   queues close, and that a queue with a job has a worker that will look. *)
THEOREM ShutdownSafe == Spec => []ShutdownInv
  BY InductiveInv, PTL

(***************************************************************************)
(* Nothing is stranded, for every number of workers: ~TaskSystem joins     *)
(* only when every job that was dispatched has been run.                   *)
(***************************************************************************)
THEOREM NoJobStranded == Spec => []NothingStranded
<1>1. TypeOK /\ ShutdownInv => NothingStranded
  <2> SUFFICES ASSUME TypeOK, ShutdownInv, \A w \in Worker : pc[w] = "exited"
               PROVE  /\ \A w \in Worker : queue[w] = <<>> /\ body[w] = NoJob
                      /\ \A t \in Thread : hand[t] = NoJob
    BY DEF NothingStranded
  <2>1. \A w \in Worker : queue[w] = <<>>
    BY DEF ShutdownInv, ScanInv, WillScan, PushPC
  <2>2. \A w \in Worker : body[w] = NoJob /\ hand[w] = NoJob
    BY ConstFacts DEF ShutdownInv, HandInv, PushPC
  <2>3. 0 \in Worker
    BY ConstFacts DEF Worker
  <2>4. pc[Main] \in CloserPC
    BY <2>3 DEF ShutdownInv, CloseInv, Closed, CloserPC
  <2>5. hand[Main] = NoJob
    BY <2>4, ConstFacts DEF ShutdownInv, HandInv, CloserPC
  <2> QED
    BY <2>1, <2>2, <2>5 DEF Thread
<1> QED
  BY <1>1, InductiveInv, PTL

-----------------------------------------------------------------------------
(***************************************************************************)
(* No lost wakeup.  NoLostWakeup is inductive beside the control invariant:*)
(* whoever fills or closes a queue stays at its notification until it has  *)
(* notified, and a worker that goes to sleep holds the mutex while it      *)
(* finds its queue empty and open.                                         *)
(***************************************************************************)
Notifies(t, w) == pc[t] = "notify" /\ PushTarget(t) = w

(* Most steps put nobody to sleep, close and fill no queue, and take no
   thread away from a notification. *)
LEMMA WakeKept ==
  ASSUME NoLostWakeup, NEW t \in Thread, \A u \in Thread : u # t => Still(u),
         pc[t] \notin {"notify", "doneNotify"}, waiting \subseteq Worker,
         waiting' \subseteq waiting, done' = done,
         \A w \in Worker : queue'[w] # <<>> => queue[w] # <<>>
  PROVE  NoLostWakeup'
<1> SUFFICES ASSUME NEW w \in waiting'
             PROVE  /\ queue'[w] # <<>> => \E u \in Thread : Notifies(u, w)'
                    /\ done'[w] => pc'[Main] = "doneNotify" /\ slot'[Main] = w
  BY DEF NoLostWakeup, Notifies
<1>1. /\ w \in waiting /\ w \in Worker
      /\ queue[w] # <<>> => \E u \in Thread : Notifies(u, w)
      /\ done[w] => pc[Main] = "doneNotify" /\ slot[Main] = w
  BY DEF NoLostWakeup, Notifies
<1>2. ASSUME NEW u \in Thread, Notifies(u, w) PROVE Notifies(u, w)'
  BY <1>2 DEF Notifies, Still, PushTarget
<1>3. pc[Main] = "doneNotify" => pc'[Main] = pc[Main] /\ slot'[Main] = slot[Main]
  BY ConstFacts DEF Still
<1> QED
  BY <1>1, <1>2, <1>3

(* Who fills or closes a queue notifies before it does anything else. *)
LEMMA WakeStep ==
  ASSUME TypeOK, ControlInv, CloseInv, NoLostWakeup, [Next]_vars
  PROVE  NoLostWakeup'
<1> USE ConstFacts DEF Goto, queueVars, jobVars
<1>1. CASE UNCHANGED vars
  BY <1>1 DEF vars, NoLostWakeup, PushTarget
<1>2. ASSUME NEW t \in Thread, Acts(t) PROVE NoLostWakeup'
  <2>1. /\ pc \in [Thread -> PC] /\ slot \in [Thread -> Nat] /\ tries \in [Thread -> Nat]
        /\ queue \in [Worker -> Seq(Job)] /\ done \in [Worker -> BOOLEAN]
        /\ waiting \subseteq Worker
        /\ \A u \in Thread : u # t => Still(u)
    BY <1>2, OthersStill DEF TypeOK
  <2>2. CASE \/ Take(t) \/ PushAcquire(t) \/ PushMiss(t) \/ Dispatch(t)
             \/ t = Main /\ (Destroy \/ DoneAcquire \/ Join)
    BY <2>1, <2>2, WakeKept
    DEF Take, PushAcquire, PushMiss, Dispatch, Destroy, DoneAcquire, Join
  <2>3. CASE t \in Worker /\ (\/ PopAcquire(t) \/ PopMiss(t) \/ PopEmpty(t) \/ PopDone(t)
                              \/ Wake(t) \/ Requeue(t) \/ Run(t) \/ Return(t))
    BY <2>1, <2>3, WakeKept
    DEF PopAcquire, PopMiss, PopEmpty, PopDone, Wake, Requeue, Run, Return
  <2>4. CASE t \in Worker /\ SpuriousWake(t)
    <3>1. /\ waiting' \subseteq waiting /\ queue' = queue /\ done' = done
          /\ pc' = pc /\ slot' = slot /\ tries' = tries
      BY <2>4 DEF SpuriousWake
    <3> QED
      BY <3>1 DEF NoLostWakeup, PushTarget
  <2>5. CASE t \in Worker /\ PopTake(t)
    <3>1. \A w \in Worker : queue'[w] # <<>> => queue[w] # <<>>
      BY <2>1, <2>5, PoppedJob DEF PopTake
    <3> QED
      BY <2>1, <2>5, <3>1, WakeKept DEF PopTake
  <2>6. CASE PushRelease(t)
    <3>1. /\ pc'[t] = "notify" /\ PushTarget(t)' = PushTarget(t) /\ pc[t] = "pushHeld"
          /\ waiting' = waiting /\ done' = done
          /\ \A w \in Worker : w # PushTarget(t) => queue'[w] = queue[w]
      BY <2>1, <2>6 DEF PushRelease, PushTarget
    <3> SUFFICES ASSUME NEW w \in waiting'
                 PROVE  /\ queue'[w] # <<>> => \E u \in Thread : Notifies(u, w)'
                        /\ done'[w] => pc'[Main] = "doneNotify" /\ slot'[Main] = w
      BY DEF NoLostWakeup, Notifies
    <3>2. /\ w \in waiting /\ w \in Worker
          /\ queue[w] # <<>> => \E u \in Thread : Notifies(u, w)
          /\ done[w] => pc[Main] = "doneNotify" /\ slot[Main] = w
      BY <2>1, <3>1 DEF NoLostWakeup, Notifies
    <3>3. ASSUME NEW u \in Thread, Notifies(u, w) PROVE Notifies(u, w)'
      BY <2>1, <3>1, <3>3 DEF Notifies, Still, PushTarget
    <3>4. Notifies(t, PushTarget(t))'
      BY <3>1 DEF Notifies
    <3>5. pc[Main] = "doneNotify" => pc'[Main] = pc[Main] /\ slot'[Main] = slot[Main]
      BY <2>1, <3>1 DEF Still
    <3>6. queue'[w] # <<>> => \E u \in Thread : Notifies(u, w)'
      <4>1. CASE w = PushTarget(t)
        BY <3>1, <4>1 DEF Notifies
      <4>2. CASE w # PushTarget(t)
        BY <3>1, <3>2, <3>3, <4>2
      <4> QED
        BY <4>1, <4>2
    <3> QED
      BY <3>1, <3>2, <3>5, <3>6
  <2>7. CASE PushNotify(t)
    <3>1. /\ pc[t] = "notify" /\ queue' = queue /\ done' = done
          /\ waiting' = waiting \ {PushTarget(t)}
      BY <2>7 DEF PushNotify
    <3> SUFFICES ASSUME NEW w \in waiting'
                 PROVE  /\ queue'[w] # <<>> => \E u \in Thread : Notifies(u, w)'
                        /\ done'[w] => pc'[Main] = "doneNotify" /\ slot'[Main] = w
      BY DEF NoLostWakeup, Notifies
    <3>2. /\ w \in waiting /\ w \in Worker /\ w # PushTarget(t)
          /\ queue[w] # <<>> => \E u \in Thread : Notifies(u, w)
          /\ done[w] => pc[Main] = "doneNotify" /\ slot[Main] = w
      BY <2>1, <3>1 DEF NoLostWakeup, Notifies
    <3>3. ASSUME NEW u \in Thread, Notifies(u, w) PROVE Notifies(u, w)'
      BY <2>1, <3>2, <3>3 DEF Notifies, Still, PushTarget
    <3>4. pc[Main] = "doneNotify" => pc'[Main] = pc[Main] /\ slot'[Main] = slot[Main]
      BY <2>1, <3>1 DEF Still
    <3> QED
      BY <3>1, <3>2, <3>3, <3>4
  <2>8. CASE t \in Worker /\ PopWait(t)
    <3>1. /\ pc[t] = "popHeld" /\ queue' = queue /\ done' = done
          /\ waiting' = waiting \cup {t} /\ queue[t] = <<>> /\ ~done[t]
      BY <2>8, ModSelf DEF PopWait, PopTarget
    <3> SUFFICES ASSUME NEW w \in waiting', w # t
                 PROVE  /\ queue'[w] # <<>> => \E u \in Thread : Notifies(u, w)'
                        /\ done'[w] => pc'[Main] = "doneNotify" /\ slot'[Main] = w
      BY <3>1 DEF NoLostWakeup, Notifies
    <3>2. /\ queue[w] # <<>> => \E u \in Thread : Notifies(u, w)
          /\ done[w] => pc[Main] = "doneNotify" /\ slot[Main] = w
      BY <3>1 DEF NoLostWakeup, Notifies
    <3>3. ASSUME NEW u \in Thread, Notifies(u, w) PROVE Notifies(u, w)'
      BY <2>1, <3>1, <3>3 DEF Notifies, Still, PushTarget
    <3>4. pc'[Main] = pc[Main] /\ slot'[Main] = slot[Main]
      BY <2>1, <2>8 DEF Still
    <3> QED
      BY <3>1, <3>2, <3>3, <3>4
  <2>9. CASE t = Main /\ (DoneRelease \/ DoneNotify)
    <3>1. /\ queue' = queue /\ waiting' \subseteq waiting /\ pc[Main] # "notify"
          /\ \A u \in Thread : u # Main => Still(u)
      BY <2>1, <2>9 DEF DoneRelease, DoneNotify
    <3> SUFFICES ASSUME NEW w \in waiting'
                 PROVE  /\ queue'[w] # <<>> => \E u \in Thread : Notifies(u, w)'
                        /\ done'[w] => pc'[Main] = "doneNotify" /\ slot'[Main] = w
      BY DEF NoLostWakeup, Notifies
    <3>2. /\ w \in waiting /\ w \in Worker
          /\ queue[w] # <<>> => \E u \in Thread : Notifies(u, w)
          /\ done[w] => pc[Main] = "doneNotify" /\ slot[Main] = w
      BY <2>1, <3>1 DEF NoLostWakeup, Notifies
    <3>3. ASSUME NEW u \in Thread, Notifies(u, w) PROVE Notifies(u, w)'
      BY <3>1, <3>3 DEF Notifies, Still, PushTarget
    <3>4. done'[w] => pc'[Main] = "doneNotify" /\ slot'[Main] = w
      <4>1. CASE DoneRelease
        BY <2>1, <3>2, <4>1 DEF DoneRelease
      <4>2. CASE DoneNotify
        BY <2>1, <3>2, <4>2 DEF DoneNotify
      <4> QED
        BY <2>9, <4>1, <4>2
    <3> QED
      BY <3>1, <3>2, <3>3, <3>4
  <2> QED
    BY <1>2, <2>2, <2>3, <2>4, <2>5, <2>6, <2>7, <2>8, <2>9
    DEF Acts, WorkerActs, CloserActs, Push, Pop
<1> QED
  BY <1>1, <1>2, NextActs

(***************************************************************************)
(* A worker never sleeps on a queue with a job or a closed one, unless the *)
(* thread that filled or closed it is about to notify it, for any number   *)
(* of workers, whatever a try_lock missed (TaskSystem.h:33).               *)
(***************************************************************************)
THEOREM WakeupsReach == Spec => []NoLostWakeup
<1>1. Init => NoLostWakeup
  BY DEF Init, NoLostWakeup
<1>2. /\ TypeOK /\ ShutdownInv /\ NoLostWakeup /\ [Next]_vars
      => NoLostWakeup'
  BY WakeStep DEF ShutdownInv
<1> QED
  BY <1>1, <1>2, InductiveInv, PTL DEF Spec

-----------------------------------------------------------------------------
(***************************************************************************)
(* Conservation.  Each job that was dispatched has one place: a position   *)
(* of a deque, a hand, a body, or it has finished.  A step moves at most   *)
(* one job, from one place to another.                                     *)
(***************************************************************************)
Queued == {j \in Job : \E w \in Worker : \E k \in DOMAIN queue[w] : queue[w][k] = j}
Held == {j \in Job : \E t \in Thread : hand[t] = j}
Running == {j \in Job : \E w \in Worker : body[w] = j}

(* No two positions, hands or bodies have the same job. *)
UniqueInv ==
  /\ \A v, w \in Worker : \A k \in DOMAIN queue[v], l \in DOMAIN queue[w] :
       queue[v][k] = queue[w][l] => v = w /\ k = l
  /\ \A t, u \in Thread : hand[t] = hand[u] /\ hand[t] # NoJob => t = u
  /\ \A v, w \in Worker : body[v] = body[w] /\ body[v] # NoJob => v = w

ApartInv ==
  /\ Queued \cap Held = {} /\ Queued \cap Running = {} /\ Queued \cap finished = {}
  /\ Held \cap Running = {} /\ Held \cap finished = {} /\ Running \cap finished = {}

ProgressInv ==
  /\ next[Main] <= Len(Program[Main])
  /\ \A w \in Worker : body[w] # NoJob => next[w] <= Len(Program[body[w]])

PlaceInv ==
  /\ UniqueInv /\ ApartInv /\ ProgressInv
  /\ Submitted = Queued \cup Held \cup Running \cup finished

(* Program s has dispatched the job at its position k. *)
Passed(s, k) ==
  \/ s = Main /\ k \in 1 .. next[Main]
  \/ \E w \in Worker : body[w] = s /\ s # NoJob /\ k \in 1 .. next[w]
  \/ s \in finished /\ k \in DOMAIN Program[s]

(* What was dispatched, position by position. *)
SubmittedByPosition ==
  \A j : j \in Submitted <=> \E s, k : Passed(s, k) /\ j = Program[s][k]

LEMMA SubmittedIs == SubmittedByPosition
<1> SUFFICES ASSUME NEW j
             PROVE  j \in Submitted <=> \E s, k : Passed(s, k) /\ j = Program[s][k]
  BY DEF SubmittedByPosition
<1>1. ASSUME j \in Submitted PROVE \E s, k : Passed(s, k) /\ j = Program[s][k]
  <2>1. CASE j \in {Program[Main][k] : k \in 1 .. next[Main]}
    BY <2>1 DEF Passed
  <2>2. CASE j \in UNION {{Program[body[w]][k] : k \in 1 .. next[w]} :
                            w \in {v \in Worker : body[v] # NoJob}}
    <3>1. PICK w \in Worker : body[w] # NoJob /\ \E k \in 1 .. next[w] : j = Program[body[w]][k]
      BY <2>2
    <3> QED
      BY <3>1 DEF Passed
  <2>3. CASE j \in UNION {{Program[s][k] : k \in DOMAIN Program[s]} : s \in finished}
    <3>1. PICK s \in finished : \E k \in DOMAIN Program[s] : j = Program[s][k]
      BY <2>3
    <3> QED
      BY <3>1 DEF Passed
  <2> QED
    BY <1>1, <2>1, <2>2, <2>3 DEF Submitted
<1>2. ASSUME NEW s, NEW k, Passed(s, k), j = Program[s][k] PROVE j \in Submitted
  <2>1. CASE s = Main /\ k \in 1 .. next[Main]
    BY <1>2, <2>1 DEF Submitted
  <2>2. CASE \E w \in Worker : body[w] = s /\ s # NoJob /\ k \in 1 .. next[w]
    <3>1. PICK w \in {v \in Worker : body[v] # NoJob} : body[w] = s /\ k \in 1 .. next[w]
      BY <2>2
    <3>2. j \in {Program[body[w]][i] : i \in 1 .. next[w]}
      BY <1>2, <3>1
    <3> QED
      BY <3>2 DEF Submitted
  <2>3. CASE s \in finished /\ k \in DOMAIN Program[s]
    BY <1>2, <2>3 DEF Submitted
  <2> QED
    BY <1>2, <2>1, <2>2, <2>3 DEF Passed
<1> QED
  BY <1>1, <1>2

LEMMA SubmittedIsNext == SubmittedByPosition'
  BY SubmittedIs, PTL

LEMMA SubmittedKept ==
  ASSUME \A s, k : Passed(s, k)' <=> Passed(s, k)
  PROVE  Submitted' = Submitted
BY SubmittedIs, SubmittedIsNext DEF SubmittedByPosition

(* The programs that run are programs, and their positions are inside them. *)
LEMMA PassedIn ==
  ASSUME TypeOK, ProgressInv, NEW s, NEW k, Passed(s, k)
  PROVE  s \in Job \cup {Main} /\ k \in DOMAIN Program[s]
<1> USE ConstFacts DEF TypeOK, ProgressInv
<1>0. \A u \in Job \cup {Main} : /\ Program[u] \in Seq(Job) /\ Len(Program[u]) \in Nat
                                /\ DOMAIN Program[u] = 1 .. Len(Program[u])
  BY TaskAssumption
<1>1. CASE s = Main /\ k \in 1 .. next[Main]
  <2>1. next[Main] \in Nat
    OBVIOUS
  <2> QED
    BY <1>0, <1>1, <2>1
<1>2. CASE \E w \in Worker : body[w] = s /\ s # NoJob /\ k \in 1 .. next[w]
  <2>1. PICK w \in Worker : body[w] = s /\ s # NoJob /\ k \in 1 .. next[w]
    BY <1>2
  <2>2. s \in Job /\ next[w] \in Nat /\ next[w] <= Len(Program[s])
    BY <2>1
  <2> QED
    BY <1>0, <2>1, <2>2
<1>3. CASE s \in finished /\ k \in DOMAIN Program[s]
  BY <1>3
<1> QED
  BY <1>1, <1>2, <1>3 DEF Passed

(* Steps of the code that push, scan and close do not touch bodies. *)
LEMMA SubmittedSame ==
  ASSUME UNCHANGED <<body, next, finished>> PROVE Submitted' = Submitted
BY DEF Submitted

(* Nothing moves. *)
LEMMA PlacesSame ==
  ASSUME PlaceInv, UNCHANGED <<queue, hand, body, next, finished>>
  PROVE  PlaceInv'
<1>1. Queued' = Queued /\ Held' = Held /\ Running' = Running
  BY DEF Queued, Held, Running
<1>2. UniqueInv' /\ ApartInv' /\ ProgressInv'
  BY <1>1 DEF PlaceInv, UniqueInv, ApartInv, ProgressInv
<1> QED
  BY <1>1, <1>2, SubmittedSame DEF PlaceInv

(* emplace_back: the job leaves the hand for the end of a deque. *)
LEMMA ReleaseMoves ==
  ASSUME TypeOK, HandInv, PlaceInv, NEW t \in Thread, PushRelease(t)
  PROVE  PlaceInv'
<1> DEFINE q == PushTarget(t)
           n == Len(queue[q]) + 1
<1>1. /\ q \in Worker /\ hand[t] \in Job /\ queue[q] \in Seq(Job)
      /\ queue \in [Worker -> Seq(Job)] /\ hand \in [Thread -> Job \cup {NoJob}]
      /\ queue' = [queue EXCEPT ![q] = Append(@, hand[t])]
      /\ hand' = [hand EXCEPT ![t] = NoJob]
      /\ UNCHANGED <<body, next, finished>>
  BY PushInRange DEF PushRelease, HandInv, TypeOK, jobVars
<1>2. /\ Len(queue[q]) \in Nat /\ DOMAIN queue[q] = 1 .. Len(queue[q])
      /\ DOMAIN queue'[q] = 1 .. n
      /\ queue'[q][n] = hand[t]
      /\ \A k \in DOMAIN queue[q] : queue'[q][k] = queue[q][k]
      /\ \A w \in Worker \ {q} : queue'[w] = queue[w]
  BY <1>1
<1>3. \A k \in DOMAIN queue'[q] : k \in DOMAIN queue[q] \/ k = n
  BY <1>2
<1>4. Queued' = Queued \cup {hand[t]}
  <2>1. ASSUME NEW j \in Queued' PROVE j \in Queued \cup {hand[t]}
    <3>0. PICK w \in Worker : \E k \in DOMAIN queue'[w] : queue'[w][k] = j
      BY <2>1 DEF Queued
    <3>1. PICK k \in DOMAIN queue'[w] : queue'[w][k] = j
      BY <3>0
    <3> QED
      BY <1>2, <1>3, <2>1, <3>1 DEF Queued
  <2>2. ASSUME NEW j \in Queued PROVE j \in Queued'
    <3>0. PICK w \in Worker : \E k \in DOMAIN queue[w] : queue[w][k] = j
      BY <2>2 DEF Queued
    <3>1. PICK k \in DOMAIN queue[w] : queue[w][k] = j
      BY <3>0
    <3>2. k \in DOMAIN queue'[w] /\ queue'[w][k] = j
      BY <1>2, <3>1
    <3> QED
      BY <2>2, <3>2 DEF Queued
  <2>3. hand[t] \in Queued'
    <3>1. n \in DOMAIN queue'[q]
      BY <1>2
    <3> QED
      BY <1>1, <1>2, <3>1 DEF Queued
  <2> QED
    BY <2>1, <2>2, <2>3
<1>5. Held' = Held \ {hand[t]} /\ hand[t] \in Held
  BY <1>1, ConstFacts DEF Held, PlaceInv, UniqueInv
<1>6. Running' = Running
  BY <1>1 DEF Running
<1>7. UniqueInv'
  <2>1. \A j \in Queued : j # hand[t]
    BY <1>5 DEF PlaceInv, ApartInv
  <2>2. ASSUME NEW w \in Worker, NEW k \in DOMAIN queue[w] PROVE queue[w][k] \in Queued
    <3>1. queue[w] \in Seq(Job)
      BY <1>1
    <3> QED
      BY <3>1 DEF Queued
  <2>3. ASSUME NEW v \in Worker, NEW w \in Worker,
               NEW k \in DOMAIN queue'[v], NEW l \in DOMAIN queue'[w],
               queue'[v][k] = queue'[w][l]
        PROVE  v = w /\ k = l
    <3>1. ASSUME NEW x \in Worker, NEW i \in DOMAIN queue'[x]
          PROVE  \/ x = q /\ i = n /\ queue'[x][i] = hand[t]
                 \/ /\ i \in DOMAIN queue[x] /\ queue'[x][i] = queue[x][i]
                    /\ queue'[x][i] # hand[t]
      BY <1>2, <1>3, <2>1, <2>2
    <3>2. /\ \/ v = q /\ k = n /\ queue'[v][k] = hand[t]
             \/ k \in DOMAIN queue[v] /\ queue'[v][k] = queue[v][k] /\ queue'[v][k] # hand[t]
          /\ \/ w = q /\ l = n /\ queue'[w][l] = hand[t]
             \/ l \in DOMAIN queue[w] /\ queue'[w][l] = queue[w][l] /\ queue'[w][l] # hand[t]
      BY <3>1
    <3> QED
      BY <2>3, <3>2 DEF PlaceInv, UniqueInv
  <2> QED
    BY <1>1, <2>3 DEF PlaceInv, UniqueInv
<1>8. ApartInv' /\ ProgressInv'
  BY <1>1, <1>4, <1>5, <1>6 DEF PlaceInv, ApartInv, ProgressInv
<1> QED
  BY <1>1, <1>4, <1>5, <1>6, <1>7, <1>8, SubmittedSame DEF PlaceInv

(* A pop: the first job of a deque goes to the worker's hand. *)
LEMMA TakeMoves ==
  ASSUME TypeOK, ControlInv, HandInv, PlaceInv, NEW w \in Worker, PopTake(w)
  PROVE  PlaceInv'
<1> DEFINE q == PopTarget(w)
           j == queue[q][1]
           old(i) == i + 1
<1>1. /\ q \in Worker /\ queue[q] \in Seq(Job) /\ queue[q] # <<>>
      /\ queue \in [Worker -> Seq(Job)] /\ hand \in [Thread -> Job \cup {NoJob}]
      /\ queue' = [queue EXCEPT ![q] = Tail(@)]
      /\ hand' = [hand EXCEPT ![w] = j]
      /\ pc[w] = "popHeld"
      /\ UNCHANGED <<body, next, finished>>
  <2>1. Head(queue[q]) = j
    BY PoppedJob DEF PopTake, TypeOK
  <2> QED
    BY <2>1, PoppedJob DEF PopTake, TypeOK, jobVars
<1>2. /\ Len(queue[q]) \in Nat /\ Len(queue[q]) > 0 /\ DOMAIN queue[q] = 1 .. Len(queue[q])
      /\ DOMAIN queue'[q] = 1 .. Len(queue[q]) - 1
      /\ \A k \in DOMAIN queue'[q] : queue'[q][k] = queue[q][k + 1]
      /\ \A v \in Worker \ {q} : queue'[v] = queue[v]
      /\ j \in Job
  BY <1>1
<1>3. w \in Thread /\ hand[w] = NoJob
  BY <1>1, ConstFacts DEF HandInv
<1>4. 1 \in DOMAIN queue[q] /\ j \in Queued
  <2>1. 1 \in DOMAIN queue[q]
    BY <1>2
  <2> QED
    BY <1>1, <1>2, <2>1 DEF Queued
<1>5. ASSUME NEW v \in Worker, NEW k \in DOMAIN queue'[v]
      PROVE  \E i \in DOMAIN queue[v] :
               /\ queue'[v][k] = queue[v][i] /\ i = (IF v = q THEN k + 1 ELSE k)
               /\ v = q => i # 1
  <2>1. CASE v = q
    <3>1. k \in 1 .. Len(queue[q]) - 1
      BY <1>2, <2>1
    <3>2. k + 1 \in DOMAIN queue[q] /\ k + 1 # 1
      BY <1>2, <3>1
    <3> QED
      BY <1>2, <2>1, <3>2
  <2>2. CASE v # q
    BY <1>2, <2>2
  <2> QED
    BY <2>1, <2>2
<1>6. Queued' = Queued \ {j}
  <2>1. ASSUME NEW x \in Queued' PROVE x \in Queued \ {j}
    <3>1. PICK v \in Worker : \E k \in DOMAIN queue'[v] : queue'[v][k] = x
      BY DEF Queued
    <3>2. PICK k \in DOMAIN queue'[v] : queue'[v][k] = x
      BY <3>1
    <3>3. PICK i \in DOMAIN queue[v] : queue[v][i] = x /\ (v = q => i # 1)
      BY <1>5, <3>2
    <3>4. x # j
      BY <1>4, <3>3, <1>1 DEF PlaceInv, UniqueInv
    <3> QED
      BY <2>1, <3>3, <3>4 DEF Queued
  <2>2. ASSUME NEW x \in Queued, x # j PROVE x \in Queued'
    <3>1. PICK v \in Worker : \E k \in DOMAIN queue[v] : queue[v][k] = x
      BY DEF Queued
    <3>2. PICK k \in DOMAIN queue[v] : queue[v][k] = x
      BY <3>1
    <3>3. CASE v = q
      <4>1. k # 1 /\ k \in 1 .. Len(queue[q])
        BY <1>2, <2>2, <3>2, <3>3
      <4>2. k - 1 \in DOMAIN queue'[q] /\ (k - 1) + 1 = k
        BY <1>2, <4>1
      <4>3. queue'[q][k - 1] = x
        BY <1>2, <3>2, <3>3, <4>2
      <4> QED
        BY <1>1, <2>2, <4>2, <4>3 DEF Queued
    <3>4. CASE v # q
      BY <1>2, <2>2, <3>2, <3>4 DEF Queued
    <3> QED
      BY <3>3, <3>4
  <2> QED
    BY <2>1, <2>2
<1>7. Held' = Held \cup {j} /\ j \notin Held
  <2>1. j \notin Held
    BY <1>4 DEF PlaceInv, ApartInv
  <2> QED
    BY <1>1, <1>2, <1>3, <2>1, ConstFacts DEF Held
<1>8. Running' = Running
  BY <1>1 DEF Running
<1>9. UniqueInv'
  <2>1. ASSUME NEW u \in Worker, NEW v \in Worker,
               NEW k \in DOMAIN queue'[u], NEW l \in DOMAIN queue'[v],
               queue'[u][k] = queue'[v][l]
        PROVE  u = v /\ k = l
    <3>1. PICK i \in DOMAIN queue[u] : queue'[u][k] = queue[u][i] /\ i = IF u = q THEN k + 1 ELSE k
      BY <1>5
    <3>2. PICK m \in DOMAIN queue[v] : queue'[v][l] = queue[v][m] /\ m = IF v = q THEN l + 1 ELSE l
      BY <1>5
    <3>3. u = v /\ i = m
      <4>1. queue[u][i] = queue[v][m]
        BY <2>1, <3>1, <3>2
      <4> QED
        BY <4>1 DEF PlaceInv, UniqueInv
    <3>4. CASE u = q
      <4>1. k \in 1 .. Len(queue[q]) - 1 /\ l \in 1 .. Len(queue[q]) - 1 /\ k + 1 = l + 1
        BY <1>2, <3>1, <3>2, <3>3, <3>4
      <4> QED
        BY <1>2, <3>3, <4>1
    <3>5. CASE u # q
      BY <3>1, <3>2, <3>3, <3>5
    <3> QED
      BY <3>4, <3>5
  <2>2. \A t, u \in Thread : hand'[t] = hand'[u] /\ hand'[t] # NoJob => t = u
    <3>1. \A t \in Thread : hand[t] # j
      BY <1>2, <1>7 DEF Held
    <3> QED
      BY <1>1, <1>3, <3>1 DEF PlaceInv, UniqueInv
  <2> QED
    BY <1>1, <2>1, <2>2 DEF PlaceInv, UniqueInv
<1>10. ApartInv' /\ ProgressInv'
  BY <1>1, <1>4, <1>6, <1>7, <1>8 DEF PlaceInv, ApartInv, ProgressInv
<1> HIDE DEF j
<1> QED
  BY <1>1, <1>4, <1>6, <1>7, <1>8, <1>9, <1>10, SubmittedSame DEF PlaceInv

(* f.second(): the job leaves the hand and runs. *)
LEMMA RunMoves ==
  ASSUME TypeOK, HandInv, PlaceInv, NEW w \in Worker, Run(w)
  PROVE  /\ PlaceInv'
         /\ hand[w] \in Held /\ Running' = Running \cup {hand[w]}
         /\ Submitted' = Submitted
<1> DEFINE j == hand[w]
<1>1. /\ w \in Thread /\ j \in Job /\ pc[w] = "check"
      /\ hand \in [Thread -> Job \cup {NoJob}] /\ body \in [Worker -> Job \cup {NoJob}]
      /\ next \in [Thread -> Nat]
      /\ hand' = [hand EXCEPT ![w] = NoJob] /\ body' = [body EXCEPT ![w] = j]
      /\ next' = [next EXCEPT ![w] = 0]
      /\ UNCHANGED <<queue, finished>>
  BY ConstFacts DEF Run, HandInv, TypeOK, queueVars
<1>2. body[w] = NoJob /\ j # NoJob
  BY <1>1, ConstFacts DEF HandInv, PushPC
<1> HIDE DEF j
<1>3. Queued' = Queued
  BY <1>1 DEF Queued
<1>4. Held' = Held \ {j} /\ j \in Held
  BY <1>1, <1>2, ConstFacts DEF Held, PlaceInv, UniqueInv, j
<1>5. Running' = Running \cup {j} /\ j \notin Running
  <2>1. j \notin Running
    BY <1>4 DEF PlaceInv, ApartInv
  <2> QED
    BY <1>1, <1>2, <2>1, ConstFacts DEF Running
<1>6. UniqueInv'
  <2>1. \A v \in Worker : body[v] # j
    BY <1>1, <1>5 DEF Running
  <2> QED
    BY <1>1, <2>1 DEF PlaceInv, UniqueInv
<1>7. ProgressInv'
  <2>1. Len(Program[j]) \in Nat /\ next'[w] = 0 /\ next'[Main] = next[Main]
    BY <1>1, TaskAssumption, ConstFacts
  <2> QED
    BY <1>1, <2>1, ConstFacts DEF PlaceInv, ProgressInv
<1>8. \A s, k : Passed(s, k)' <=> Passed(s, k)
  <2>1. next'[Main] = next[Main]
    BY <1>1, ConstFacts
  <2>2. \A v \in Worker : v # w => body'[v] = body[v] /\ next'[v] = next[v]
    BY <1>1
  <2>3. \A k : k \notin 1 .. next'[w]
    BY <1>1
  <2> QED
    BY <1>1, <1>2, <2>1, <2>2, <2>3 DEF Passed
<1>9. Submitted' = Submitted
  BY <1>8, SubmittedKept
<1>10. ApartInv'
  BY <1>1, <1>3, <1>4, <1>5 DEF PlaceInv, ApartInv
<1>11. PlaceInv'
  BY <1>1, <1>3, <1>4, <1>5, <1>6, <1>7, <1>9, <1>10 DEF PlaceInv
<1> QED
  BY <1>4, <1>5, <1>9, <1>11 DEF j

(* The end of a closure: its job has finished. *)
LEMMA ReturnMoves ==
  ASSUME TypeOK, HandInv, PlaceInv, NEW w \in Worker, Return(w)
  PROVE  /\ PlaceInv'
         /\ body[w] \in Running /\ Running' = Running \ {body[w]}
         /\ Submitted' = Submitted
<1> DEFINE j == body[w]
<1>1. /\ w \in Thread /\ j \in Job
      /\ body \in [Worker -> Job \cup {NoJob}] /\ next \in [Thread -> Nat]
      /\ next[w] = Len(Program[j])
      /\ body' = [body EXCEPT ![w] = NoJob] /\ next' = [next EXCEPT ![w] = 0]
      /\ finished' = finished \cup {j}
      /\ UNCHANGED <<queue, hand>>
  BY ConstFacts DEF Return, HandInv, TypeOK, queueVars
<1>2. DOMAIN Program[j] = 1 .. next[w]
  BY <1>1, TaskAssumption
<1>3. j # NoJob /\ \A v \in Worker : v # w => body[v] # j
  BY <1>1, ConstFacts DEF PlaceInv, UniqueInv
<1>4. Queued' = Queued /\ Held' = Held
  BY <1>1 DEF Queued, Held
<1>5. Running' = Running \ {j} /\ j \in Running
  <2>1. j # NoJob
    BY <1>3
  <2>2. \A v \in Worker : body'[v] = IF v = w THEN NoJob ELSE body[v]
    BY <1>1
  <2>3. \A x \in Job : (\E v \in Worker : body'[v] = x) <=> x # j /\ \E v \in Worker : body[v] = x
    BY <1>1, <1>3, <2>2, ConstFacts
  <2> QED
    BY <1>1, <2>3 DEF Running
<1>6. UniqueInv'
  BY <1>1 DEF PlaceInv, UniqueInv
<1>7. ProgressInv'
  BY <1>1, ConstFacts DEF PlaceInv, ProgressInv
<1>8. \A s, k : Passed(s, k)' <=> Passed(s, k)
  <2> TAKE s, k
  <2>1. next'[Main] = next[Main]
    BY <1>1, ConstFacts
  <2>2. \A v \in Worker : v # w => body'[v] = body[v] /\ next'[v] = next[v]
    BY <1>1
  <2>3. body'[w] = NoJob
    BY <1>1
  <2>4. CASE s = j
    BY <1>1, <1>2, <1>3, <2>1, <2>2, <2>3, <2>4 DEF Passed
  <2>5. CASE s # j
    BY <1>1, <2>1, <2>2, <2>3, <2>5 DEF Passed
  <2> QED
    BY <2>4, <2>5
<1>9. Submitted' = Submitted
  BY <1>8, SubmittedKept
<1>10. ApartInv'
  BY <1>1, <1>4, <1>5 DEF PlaceInv, ApartInv
<1>11. PlaceInv'
  BY <1>1, <1>4, <1>5, <1>6, <1>7, <1>9, <1>10 DEF PlaceInv
<1> QED
  BY <1>5, <1>9, <1>11

(* A dispatch: the job the program names next appears in the hand, and it is
   one that no position passed so far has handed over. *)
LEMMA DispatchMoves ==
  ASSUME TypeOK, ControlInv, HandInv, PlaceInv, NEW t \in Thread, Dispatch(t)
  PROVE  /\ PlaceInv'
         /\ \E j \in Job : /\ hand' = [hand EXCEPT ![t] = j]
                           /\ counter' = [counter EXCEPT ![Acc[j]] = @ + 1]
                           /\ j \notin Submitted /\ Submitted' = Submitted \cup {j}
                           /\ Running' = Running
<1> DEFINE s == Source(t)
           n == next[t] + 1
           j == Program[s][n]
<1>1. /\ hand \in [Thread -> Job \cup {NoJob}] /\ body \in [Worker -> Job \cup {NoJob}]
      /\ next \in [Thread -> Nat] /\ finished \in SUBSET Job
      /\ hand' = [hand EXCEPT ![t] = j] /\ next' = [next EXCEPT ![t] = n]
      /\ counter' = [counter EXCEPT ![Acc[j]] = @ + 1]
      /\ UNCHANGED <<queue, body, finished>>
  BY DEF Dispatch, TypeOK, queueVars
<1>2. hand[t] = NoJob
  BY DEF Dispatch, HandInv
<1>3. t # Main => t \in Worker /\ body[t] # NoJob
  BY ConstFacts DEF Dispatch, ControlInv, HandInv, Thread, PushPC
<1>4. /\ t = Main => s = Main
      /\ t # Main => t \in Worker /\ s = body[t] /\ s \in Job
  <2>1. t # Main => body[t] \in Job
    BY <1>1, <1>3
  <2> QED
    BY <1>3, <2>1 DEF Source
<1>5. s \in Job \cup {Main} /\ Main \notin Job
  BY <1>4, TaskAssumption
<1>6. /\ n \in Nat /\ n >= 1 /\ n <= Len(Program[s]) /\ n \in DOMAIN Program[s]
      /\ j \in Job /\ n \notin 1 .. next[t]
      /\ \A k : k \in 1 .. n <=> k \in 1 .. next[t] \/ k = n
  <2>1. Program[s] \in Seq(Job) /\ next[t] \in Nat /\ next[t] < Len(Program[s])
    BY <1>1, <1>5, TaskAssumption DEF Dispatch
  <2>2. n \in DOMAIN Program[s] /\ j \in Job
    BY <2>1
  <2> QED
    BY <2>1, <2>2
<1> HIDE DEF s, n, j
<1>7. ~Passed(s, n)
  <2>1. ~(s = Main /\ n \in 1 .. next[Main])
    BY <1>4, <1>5, <1>6
  <2>2. ASSUME NEW w \in Worker, body[w] = s, s # NoJob, n \in 1 .. next[w] PROVE FALSE
    <3>1. s # Main
      BY <1>1, <1>5, <2>2
    <3>2. w = t
      BY <1>4, <2>2, <3>1 DEF PlaceInv, UniqueInv
    <3> QED
      BY <1>6, <2>2, <3>2
  <2>3. s \notin finished
    BY <1>1, <1>4, <1>5 DEF PlaceInv, ApartInv, Running
  <2> QED
    BY <2>1, <2>2, <2>3 DEF Passed
<1>8. j \notin Submitted
  <2> SUFFICES ASSUME j \in Submitted PROVE FALSE
    OBVIOUS
  <2>1. PICK u, k : Passed(u, k) /\ j = Program[u][k]
    BY SubmittedIs DEF SubmittedByPosition
  <2>2. u \in Job \cup {Main} /\ k \in DOMAIN Program[u]
    BY <2>1, PassedIn DEF PlaceInv
  <2>3. u = s /\ k = n
    BY <1>5, <1>6, <2>1, <2>2, ProgramAssumption DEF j
  <2> QED
    BY <1>7, <2>1, <2>3
<1>9. \A u, k : Passed(u, k)' <=> Passed(u, k) \/ (u = s /\ k = n)
  <2> TAKE u, k
  <2>1. /\ next'[t] = n /\ \A v \in Thread : v # t => next'[v] = next[v]
        /\ body' = body /\ finished' = finished
    BY <1>1
  <2>2. (u = Main /\ k \in 1 .. next'[Main])
        <=> (u = Main /\ k \in 1 .. next[Main]) \/ (t = Main /\ u = s /\ k = n)
    BY <1>4, <1>6, <2>1, ConstFacts
  <2>3. (\E w \in Worker : body[w] = u /\ u # NoJob /\ k \in 1 .. next'[w])
        <=> \/ \E w \in Worker : body[w] = u /\ u # NoJob /\ k \in 1 .. next[w]
            \/ t # Main /\ u = s /\ k = n
    <3>1. \A w \in Worker : k \in 1 .. next'[w] <=> k \in 1 .. next[w] \/ (w = t /\ k = n)
      BY <1>6, <2>1, ConstFacts
    <3> QED
      BY <1>3, <1>4, <3>1, ConstFacts
  <2> QED
    BY <2>1, <2>2, <2>3 DEF Passed
<1>10. Submitted' = Submitted \cup {j}
  BY <1>9, SubmittedIs, SubmittedIsNext DEF SubmittedByPosition, j
<1>11. Queued' = Queued /\ Running' = Running
  BY <1>1 DEF Queued, Running
<1>12. Held' = Held \cup {j}
  BY <1>1, <1>2, <1>6, ConstFacts DEF Held
<1>13. UniqueInv'
  <2>1. \A u \in Thread : hand[u] # j
    BY <1>6, <1>8 DEF PlaceInv, Held
  <2> QED
    BY <1>1, <2>1 DEF PlaceInv, UniqueInv
<1>14. ApartInv'
  BY <1>1, <1>8, <1>11, <1>12 DEF PlaceInv, ApartInv
<1>15. ProgressInv'
  <2>1. /\ next'[t] = n /\ \A v \in Thread : v # t => next'[v] = next[v]
        /\ body' = body
    BY <1>1
  <2> QED
    BY <1>4, <1>5, <1>6, <2>1, ConstFacts DEF PlaceInv, ProgressInv
<1>16. PlaceInv'
  BY <1>1, <1>10, <1>11, <1>12, <1>13, <1>14, <1>15 DEF PlaceInv
<1> QED
  BY <1>1, <1>6, <1>8, <1>10, <1>11, <1>16

(* Every step keeps each job in one place. *)
LEMMA PlaceStep ==
  TypeOK /\ ShutdownInv /\ PlaceInv /\ [Next]_vars => PlaceInv'
<1> SUFFICES ASSUME TypeOK, ControlInv, HandInv, PlaceInv, [Next]_vars PROVE PlaceInv'
  BY DEF ShutdownInv
<1>1. CASE UNCHANGED vars
  BY <1>1, PlacesSame DEF vars
<1>2. ASSUME NEW t \in Thread, Acts(t) PROVE PlaceInv'
  <2>1. CASE Take(t) \/ PushAcquire(t) \/ PushMiss(t) \/ PushNotify(t)
    BY <2>1, PlacesSame DEF Take, PushAcquire, PushMiss, PushNotify, queueVars, jobVars
  <2>2. CASE PushRelease(t)
    BY <2>2, ReleaseMoves
  <2>3. CASE Dispatch(t)
    BY <2>3, DispatchMoves
  <2>4. CASE t \in Worker /\ (PopAcquire(t) \/ PopMiss(t) \/ PopEmpty(t) \/ PopWait(t))
    BY <2>4, PlacesSame DEF PopAcquire, PopMiss, PopEmpty, PopWait, queueVars, jobVars
  <2>5. CASE t \in Worker /\ (PopDone(t) \/ Wake(t) \/ SpuriousWake(t) \/ Requeue(t))
    BY <2>5, PlacesSame DEF PopDone, Wake, SpuriousWake, Requeue, queueVars, jobVars
  <2>6. CASE t \in Worker /\ PopTake(t)
    BY <2>6, TakeMoves
  <2>7. CASE t \in Worker /\ (Run(t) \/ Return(t))
    BY <2>7, RunMoves, ReturnMoves
  <2>8. CASE t = Main /\ CloserActs
    BY <2>8, PlacesSame
    DEF CloserActs, Destroy, DoneAcquire, DoneRelease, DoneNotify, Join, queueVars, jobVars
  <2> QED
    BY <1>2, <2>1, <2>2, <2>3, <2>4, <2>5, <2>6, <2>7, <2>8 DEF Acts, WorkerActs, Push, Pop
<1> QED
  BY <1>1, <1>2, NextActs

(***************************************************************************)
(* The invariant behind JobConservation, for every number of workers and   *)
(* every program: the places of jobs are distinct, and what was dispatched *)
(* is what is queued, held, running or finished.                           *)
(***************************************************************************)
THEOREM OnePlaceEach == Spec => [](TypeOK /\ ShutdownInv /\ PlaceInv)
<1>1. Init => PlaceInv
  <2> SUFFICES ASSUME Init PROVE PlaceInv
    OBVIOUS
  <2> USE ConstFacts DEF Init
  <2>1. Queued = {} /\ Held = {} /\ Running = {}
    BY DEF Queued, Held, Running
  <2>2. UniqueInv /\ ApartInv
    BY <2>1 DEF UniqueInv, ApartInv
  <2>3. ProgressInv
    BY TaskAssumption DEF ProgressInv
  <2>4. Submitted = {}
    <3>1. \A s, k : ~Passed(s, k)
      BY DEF Passed
    <3> QED
      BY <3>1, SubmittedIs DEF SubmittedByPosition
  <2> QED
    BY <2>1, <2>2, <2>3, <2>4 DEF PlaceInv
<1>2. TypeOK /\ ShutdownInv /\ PlaceInv /\ [Next]_vars => PlaceInv'
  BY PlaceStep
<1> QED
  BY <1>1, <1>2, InductiveInv, PTL DEF Spec

(* The places of a job, as JobConservation counts them. *)
LEMMA QueuePlacesAre ==
  ASSUME NEW j, NEW x
  PROVE  x \in QueuePlaces(j) <=>
           \E w \in Worker : \E k \in DOMAIN queue[w] : queue[w][k] = j /\ x = <<"queue", w, k>>
<1>1. ASSUME NEW w \in Worker, NEW k \in DOMAIN queue[w], queue[w][k] = j, x = <<"queue", w, k>>
      PROVE  x \in QueuePlaces(j)
  <2> DEFINE r == <<w, k>>
  <2>1. r[1] = w /\ r[2] = k
    OBVIOUS
  <2>2. r \in {w} \X DOMAIN queue[w]
    OBVIOUS
  <2>3. r \in UNION {{v} \X DOMAIN queue[v] : v \in Worker}
    BY <2>2
  <2> QED
    BY <1>1, <2>1, <2>3 DEF QueuePlaces
<1>2. ASSUME x \in QueuePlaces(j)
      PROVE  \E w \in Worker : \E k \in DOMAIN queue[w] : queue[w][k] = j /\ x = <<"queue", w, k>>
  <2>1. PICK r \in UNION {{v} \X DOMAIN queue[v] : v \in Worker} :
               queue[r[1]][r[2]] = j /\ x = <<"queue", r[1], r[2]>>
    BY <1>2 DEF QueuePlaces
  <2>2. PICK w \in Worker : r \in {w} \X DOMAIN queue[w]
    BY <2>1
  <2>3. r[1] = w /\ r[2] \in DOMAIN queue[w]
    BY <2>2
  <2> QED
    BY <2>1, <2>3
<1> QED
  BY <1>1, <1>2

LEMMA PlaceFilled ==
  ASSUME NEW j \in Job
  PROVE  /\ QueuePlaces(j) # {} <=> j \in Queued
         /\ HandPlaces(j) # {} <=> j \in Held
         /\ BodyPlaces(j) # {} <=> j \in Running
<1>1. ASSUME NEW x \in QueuePlaces(j) PROVE j \in Queued
  <2>1. \E w \in Worker : \E k \in DOMAIN queue[w] : queue[w][k] = j /\ x = <<"queue", w, k>>
    BY QueuePlacesAre
  <2> QED
    BY <2>1 DEF Queued
<1>2. ASSUME j \in Queued PROVE QueuePlaces(j) # {}
  <2>1. PICK w \in Worker : \E k \in DOMAIN queue[w] : queue[w][k] = j
    BY <1>2 DEF Queued
  <2>2. PICK k \in DOMAIN queue[w] : queue[w][k] = j
    BY <2>1
  <2>3. <<"queue", w, k>> \in QueuePlaces(j)
    BY <2>2, QueuePlacesAre
  <2> QED
    BY <2>3
<1>3. HandPlaces(j) # {} <=> \E t \in Thread : hand[t] = j
  BY DEF HandPlaces
<1>4. BodyPlaces(j) # {} <=> \E w \in Worker : body[w] = j
  BY DEF BodyPlaces
<1> QED
  BY <1>1, <1>2, <1>3, <1>4 DEF Held, Running

(* A job has a place exactly when it was dispatched, and never two. *)
LEMMA OnePlace ==
  ASSUME PlaceInv, NEW j \in Job
  PROVE  /\ j \in Submitted <=> Places(j) # {}
         /\ \A x, y \in Places(j) : x = y
<1>1. ASSUME NEW x \in QueuePlaces(j), NEW y \in QueuePlaces(j) PROVE x = y
  <2>1. PICK v \in Worker : \E k \in DOMAIN queue[v] : queue[v][k] = j /\ x = <<"queue", v, k>>
    BY QueuePlacesAre
  <2>2. PICK k \in DOMAIN queue[v] : queue[v][k] = j /\ x = <<"queue", v, k>>
    BY <2>1
  <2>3. PICK w \in Worker : \E l \in DOMAIN queue[w] : queue[w][l] = j /\ y = <<"queue", w, l>>
    BY QueuePlacesAre
  <2>4. PICK l \in DOMAIN queue[w] : queue[w][l] = j /\ y = <<"queue", w, l>>
    BY <2>3
  <2>5. v = w /\ k = l
    BY <2>2, <2>4 DEF PlaceInv, UniqueInv
  <2> QED
    BY <2>2, <2>4, <2>5
<1>2. \A x, y \in HandPlaces(j) : x = y
  <2>1. \A t, u \in Thread : hand[t] = j /\ hand[u] = j => t = u
    BY ConstFacts DEF PlaceInv, UniqueInv
  <2> QED
    BY <2>1 DEF HandPlaces
<1>3. \A x, y \in BodyPlaces(j) : x = y
  <2>1. \A t, u \in Worker : body[t] = j /\ body[u] = j => t = u
    BY ConstFacts DEF PlaceInv, UniqueInv
  <2> QED
    BY <2>1 DEF BodyPlaces
<1>4. /\ DonePlaces(j) # {} <=> j \in finished
      /\ \A x, y \in DonePlaces(j) : x = y
  BY DEF DonePlaces
<1>5. j \in Submitted <=> j \in Queued \/ j \in Held \/ j \in Running \/ j \in finished
  BY DEF PlaceInv
<1>6. /\ ~(j \in Queued /\ j \in Held) /\ ~(j \in Queued /\ j \in Running)
      /\ ~(j \in Queued /\ j \in finished) /\ ~(j \in Held /\ j \in Running)
      /\ ~(j \in Held /\ j \in finished) /\ ~(j \in Running /\ j \in finished)
  BY DEF PlaceInv, ApartInv
<1> QED
  BY <1>1, <1>2, <1>3, <1>4, <1>5, <1>6, PlaceFilled DEF Places

(***************************************************************************)
(* No job is lost and none is duplicated, for every number of workers and  *)
(* every program of dispatches: JobConservation.                           *)
(***************************************************************************)
THEOREM Conserved == Spec => []JobConservation
<1>1. PlaceInv => JobConservation
  <2> SUFFICES ASSUME PlaceInv, NEW j \in Job
               PROVE  Cardinality(Places(j)) = IF j \in Submitted THEN 1 ELSE 0
    BY DEF JobConservation
  <2>1. CASE j \in Submitted
    <3>1. PICK x : x \in Places(j)
      BY <2>1, OnePlace
    <3>2. Places(j) = {x}
      BY <3>1, OnePlace
    <3> QED
      BY <2>1, <3>2, FS_Singleton
  <2>2. CASE j \notin Submitted
    BY <2>2, OnePlace, FS_EmptySet
  <2> QED
    BY <2>1, <2>2
<1> QED
  BY <1>1, OnePlaceEach, PTL

-----------------------------------------------------------------------------
(***************************************************************************)
(* Refinement.  A dispatch, a start and a return are JobPool's Submit,     *)
(* Start and Finish of one job; every other step leaves the pool's view of *)
(* the jobs as it was.                                                     *)
(***************************************************************************)
(* PoolStatus, read off the three sets that PlaceInv keeps apart. *)
StatusIn(j) ==
  IF j \in finished THEN "finished"
  ELSE IF j \in Running THEN "running"
  ELSE IF j \in Submitted THEN "queued"
  ELSE "idle"

StatusKnown ==
  /\ PoolStatus = [j \in Job |-> StatusIn(j)]
  /\ finished \cup Running \subseteq Submitted

LEMMA StatusIs == PlaceInv => StatusKnown
<1> SUFFICES ASSUME PlaceInv PROVE StatusKnown
  OBVIOUS
<1>1. ASSUME NEW j \in Job
      PROVE  /\ BodyPlaces(j) # {} <=> j \in Running
             /\ QueuePlaces(j) # {} \/ HandPlaces(j) # {} <=> j \in Queued \cup Held
  BY PlaceFilled
<1>2. ASSUME NEW j \in Job PROVE PoolStatus[j] = StatusIn(j)
  <2> DEFINE waits == QueuePlaces(j) # {} \/ HandPlaces(j) # {}
             runs == BodyPlaces(j) # {}
  <2>1. PoolStatus[j] = CASE j \in finished -> "finished"
                          [] runs -> "running"
                          [] waits -> "queued"
                          [] OTHER -> "idle"
    BY DEF PoolStatus
  <2>2. (runs <=> j \in Running) /\ (waits <=> j \in Queued \cup Held)
    BY <1>1
  <2>3. /\ ~(j \in finished /\ runs) /\ ~(j \in finished /\ waits) /\ ~(runs /\ waits)
        /\ j \in Submitted <=> j \in finished \/ runs \/ waits
    BY <2>2 DEF PlaceInv, ApartInv
  <2> HIDE DEF waits, runs
  <2>4. PoolStatus[j] = IF j \in finished THEN "finished"
                        ELSE IF runs THEN "running" ELSE IF waits THEN "queued" ELSE "idle"
    BY <2>1, <2>3
  <2> QED
    BY <2>2, <2>3, <2>4 DEF StatusIn
<1>3. PoolStatus = [j \in Job |-> StatusIn(j)]
  BY <1>2 DEF PoolStatus
<1> QED
  BY <1>3 DEF StatusKnown, PlaceInv

LEMMA StatusIsNext == PlaceInv' => StatusKnown'
  BY StatusIs, PTL

(* A step that dispatches, starts and finishes nothing. *)
LEMMA PoolStutters ==
  ASSUME StatusKnown, StatusKnown', UNCHANGED <<body, next, finished, counter>>
  PROVE  UNCHANGED Pool!poolVars
<1>1. Submitted' = Submitted /\ Running' = Running /\ finished' = finished
  BY SubmittedSame DEF Running
<1>2. PoolStatus' = PoolStatus
  BY <1>1 DEF StatusKnown, StatusIn
<1> QED
  BY <1>2 DEF Pool!poolVars, IfSubmitted

LEMMA DispatchSubmits ==
  ASSUME StatusKnown, StatusKnown', NEW j \in Job, j \notin Submitted,
         Submitted' = Submitted \cup {j}, Running' = Running, finished' = finished,
         counter' = [counter EXCEPT ![Acc[j]] = @ + 1]
  PROVE  Pool!PoolNext
<1>1. \A i \in Job : PoolStatus[i] = StatusIn(i) /\ PoolStatus'[i] = StatusIn(i)'
  BY DEF StatusKnown
<1>2. PoolStatus[j] = "idle" /\ PoolStatus'[j] = "queued"
  BY <1>1 DEF StatusIn, StatusKnown
<1>3. \A i \in Job : i # j => PoolStatus'[i] = PoolStatus[i]
  BY <1>1 DEF StatusIn
<1>4. PoolStatus' = [PoolStatus EXCEPT ![j] = "queued"]
  BY <1>2, <1>3 DEF StatusKnown
<1>5. /\ IfSubmitted(Dep)' = [IfSubmitted(Dep) EXCEPT ![j] = Dep[j]]
      /\ IfSubmitted(Acc)' = [IfSubmitted(Acc) EXCEPT ![j] = Acc[j]]
  BY <1>2, <1>3 DEF IfSubmitted
<1>6. Pool!Submit(j, Dep[j], Acc[j])
  BY <1>2, <1>4, <1>5 DEF Pool!Submit
<1> QED
  BY <1>6, TaskAssumption DEF Pool!PoolNext

LEMMA RunStarts ==
  ASSUME StatusKnown, StatusKnown', NEW j \in Job,
         j \in Submitted, j \notin Running, j \notin finished,
         Submitted' = Submitted, Running' = Running \cup {j}, finished' = finished,
         counter[Dep[j]] = 0, counter' = counter
  PROVE  Pool!PoolNext
<1>1. \A i \in Job : PoolStatus[i] = StatusIn(i) /\ PoolStatus'[i] = StatusIn(i)'
  BY DEF StatusKnown
<1>2. PoolStatus[j] = "queued" /\ PoolStatus'[j] = "running"
  BY <1>1 DEF StatusIn
<1>3. \A i \in Job : i # j => PoolStatus'[i] = PoolStatus[i]
  BY <1>1 DEF StatusIn
<1>4. PoolStatus' = [PoolStatus EXCEPT ![j] = "running"]
  BY <1>2, <1>3 DEF StatusKnown
<1>5. /\ IfSubmitted(Dep)' = IfSubmitted(Dep) /\ IfSubmitted(Acc)' = IfSubmitted(Acc)
      /\ IfSubmitted(Dep)[j] = Dep[j]
  BY <1>2, <1>3 DEF IfSubmitted
<1>6. Pool!Start(j)
  BY <1>2, <1>4, <1>5 DEF Pool!Start
<1> QED
  BY <1>6 DEF Pool!PoolNext, Pool!PoolStep

LEMMA ReturnFinishes ==
  ASSUME StatusKnown, StatusKnown', NEW j \in Job, j \in Running, j \notin finished,
         Submitted' = Submitted, Running' = Running \ {j}, finished' = finished \cup {j},
         counter' = [counter EXCEPT ![Acc[j]] = @ - 1]
  PROVE  Pool!PoolNext
<1>1. \A i \in Job : PoolStatus[i] = StatusIn(i) /\ PoolStatus'[i] = StatusIn(i)'
  BY DEF StatusKnown
<1>2. PoolStatus[j] = "running" /\ PoolStatus'[j] = "finished"
  BY <1>1 DEF StatusIn
<1>3. \A i \in Job : i # j => PoolStatus'[i] = PoolStatus[i]
  BY <1>1 DEF StatusIn
<1>4. PoolStatus' = [PoolStatus EXCEPT ![j] = "finished"]
  BY <1>2, <1>3 DEF StatusKnown
<1>5. /\ IfSubmitted(Dep)' = IfSubmitted(Dep) /\ IfSubmitted(Acc)' = IfSubmitted(Acc)
      /\ IfSubmitted(Acc)[j] = Acc[j]
  BY <1>2, <1>3 DEF IfSubmitted
<1>6. Pool!Finish(j)
  BY <1>2, <1>4, <1>5 DEF Pool!Finish
<1> QED
  BY <1>6 DEF Pool!PoolNext, Pool!PoolStep

(* Every step is a step of JobPool or leaves its variables alone. *)
LEMMA PoolSteps ==
  TypeOK /\ ShutdownInv /\ PlaceInv /\ PlaceInv' /\ [Next]_vars
    => [Pool!PoolNext]_(Pool!poolVars)
<1> SUFFICES ASSUME TypeOK, ControlInv, HandInv, PlaceInv, StatusKnown, StatusKnown', [Next]_vars
             PROVE  Pool!PoolNext \/ UNCHANGED Pool!poolVars
  BY StatusIs, StatusIsNext DEF ShutdownInv
<1>1. CASE UNCHANGED vars
  BY <1>1, PoolStutters DEF vars
<1>2. ASSUME NEW t \in Thread, Acts(t) PROVE Pool!PoolNext \/ UNCHANGED Pool!poolVars
  <2>1. CASE Push(t)
    BY <2>1, PoolStutters
    DEF Push, Take, PushAcquire, PushMiss, PushRelease, PushNotify, queueVars, jobVars
  <2>2. CASE Dispatch(t)
    <3>1. finished' = finished
      BY <2>2 DEF Dispatch
    <3> QED
      BY <2>2, <3>1, DispatchMoves, DispatchSubmits
  <2>3. CASE t \in Worker /\ (Pop(t) \/ Requeue(t) \/ SpuriousWake(t))
    BY <2>3, PoolStutters
    DEF Pop, PopAcquire, PopMiss, PopTake, PopEmpty, PopWait, PopDone, Wake, Requeue,
        SpuriousWake, queueVars, jobVars
  <2>4. CASE t \in Worker /\ Run(t)
    <3>1. /\ hand[t] \in Held /\ Running' = Running \cup {hand[t]} /\ Submitted' = Submitted
      BY <2>4, RunMoves
    <3>2. /\ hand[t] \in Job /\ hand[t] \in Submitted
          /\ hand[t] \notin Running /\ hand[t] \notin finished
      BY <3>1 DEF PlaceInv, ApartInv, Held
    <3>3. counter[Dep[hand[t]]] = 0 /\ counter' = counter /\ finished' = finished
      BY <2>4 DEF Run, Ready
    <3> QED
      BY <3>1, <3>2, <3>3, RunStarts
  <2>5. CASE t \in Worker /\ Return(t)
    <3>1. /\ body[t] \in Running /\ Running' = Running \ {body[t]} /\ Submitted' = Submitted
      BY <2>5, ReturnMoves
    <3>2. body[t] \in Job /\ body[t] \notin finished
      BY <3>1 DEF PlaceInv, ApartInv, Running
    <3>3. /\ counter' = [counter EXCEPT ![Acc[body[t]]] = @ - 1]
          /\ finished' = finished \cup {body[t]}
      BY <2>5 DEF Return
    <3> QED
      BY <3>1, <3>2, <3>3, ReturnFinishes
  <2>6. CASE t = Main /\ CloserActs
    BY <2>6, PoolStutters
    DEF CloserActs, Destroy, DoneAcquire, DoneRelease, DoneNotify, Join, queueVars, jobVars
  <2> QED
    BY <1>2, <2>1, <2>2, <2>3, <2>4, <2>5, <2>6 DEF Acts, WorkerActs
<1> QED
  BY <1>1, <1>2, NextActs

(***************************************************************************)
(* The pool of threads implements JobPool, for every number of workers and *)
(* every program: through stealing, requeuing and shutdown, a job starts   *)
(* at most once and only at a moment when its counter is zero.             *)
(***************************************************************************)
THEOREM PoolImplemented == Spec => ImplementsPool
<1>1. Init => Pool!PoolInit
  <2> SUFFICES ASSUME Init PROVE Pool!PoolInit
    OBVIOUS
  <2>1. \A j \in Job : ~\E w \in Worker : body[w] = j
    BY ConstFacts DEF Init
  <2>2. \A j \in Job : BodyPlaces(j) = {} /\ QueuePlaces(j) = {} /\ HandPlaces(j) = {}
    <3>1. Queued = {} /\ Held = {} /\ Running = {}
      BY ConstFacts DEF Init, Queued, Held, Running
    <3> QED
      BY <3>1, PlaceFilled
  <2>3. PoolStatus = [j \in Job |-> "idle"]
    BY <2>2 DEF PoolStatus, Init
  <2> QED
    BY <2>3 DEF Pool!PoolInit, IfSubmitted, Init
<1>2. TypeOK /\ ShutdownInv /\ PlaceInv /\ PlaceInv' /\ [Next]_vars
      => [Pool!PoolNext]_(Pool!poolVars)
  BY PoolSteps
<1> QED
  BY <1>1, <1>2, OnePlaceEach, PTL DEF Spec, ImplementsPool, Pool!PoolSpec

-----------------------------------------------------------------------------
(***************************************************************************)
(* Deadlock.  A thread can move unless it waits for a mutex that is held,  *)
(* sleeps unnotified, has left Run or joins a worker that has not; the     *)
(* main thread also stops when it has dispatched its whole program.        *)
(***************************************************************************)
AfterMutex(t) ==
  CASE pc[t] = "push" -> PushTarget(t)
    [] pc[t] = "pop" -> PopTarget(t)
    [] pc[t] = "done" -> slot[t]
    [] pc[t] = "wait" -> t

CanMove(t) ==
  \/ pc[t] \in {"take", "pushHeld", "notify", "popHeld", "check", "body", "doneHeld", "doneNotify"}
  \/ pc[t] \in {"push", "pop", "done"} /\ mutex[AfterMutex(t)] = Free
  \/ pc[t] = "wait" /\ t \notin waiting /\ mutex[t] = Free
  \/ pc[t] = "join" /\ \A w \in Worker : pc[w] = "exited"

NeverDeadlocked ==
  (Submitted # finished \/ pc[Main] \in CloserPC \ {"joined"}) => \E t \in Thread : CanMove(t)

(* Who holds a mutex is in its critical section, and those end by themselves. *)
LEMMA HolderMoves ==
  ASSUME TypeOK, MutexInv, NEW w \in Worker, mutex[w] # Free
  PROVE  \E t \in Thread : CanMove(t)
<1>1. PICK t \in Thread : mutex[w] = t
  BY DEF TypeOK
<1>2. Inside(t, w)
  BY <1>1 DEF MutexInv
<1> QED
  BY <1>1, <1>2 DEF Inside, CanMove

(***************************************************************************)
(* The pool never deadlocks, for every number of workers and every         *)
(* program: while a job that was dispatched has not finished, or the       *)
(* destructor has not returned, some thread can take a step.  Threads that *)
(* all sleep leave no job behind, and join finds nobody asleep.            *)
(***************************************************************************)
THEOREM PoolNeverDeadlocks == Spec => []NeverDeadlocked
<1>1. TypeOK /\ ShutdownInv /\ PlaceInv /\ NoLostWakeup => NeverDeadlocked
  <2> SUFFICES ASSUME TypeOK, MutexInv, ControlInv, HandInv, CloseInv, ScanInv, PlaceInv,
                      NoLostWakeup, \A t \in Thread : ~CanMove(t)
               PROVE  Submitted = finished /\ pc[Main] \notin CloserPC \ {"joined"}
    BY DEF NeverDeadlocked, ShutdownInv
  <2>1. \A w \in Worker : mutex[w] = Free
    BY HolderMoves
  <2>2. \A w \in Worker : pc[w] = "exited" \/ (pc[w] = "wait" /\ w \in waiting)
    <3> SUFFICES ASSUME NEW w \in Worker PROVE pc[w] = "exited" \/ (pc[w] = "wait" /\ w \in waiting)
      OBVIOUS
    <3>1. w \in Thread /\ ~CanMove(w)
      BY ConstFacts
    <3>2. pc[w] # "push"
      BY <2>1, <3>1, PushInRange DEF CanMove, AfterMutex
    <3>3. pc[w] # "pop"
      BY <2>1, <3>1, PopInRange DEF CanMove, AfterMutex
    <3> QED
      BY <2>1, <3>1, <3>2, <3>3 DEF CanMove, ControlInv, PushPC
  <2>3. pc[Main] \in {"client", "join", "joined"}
    <3>1. ~CanMove(Main) /\ Main \in Thread
      BY ConstFacts
    <3>2. pc[Main] # "push"
      BY <2>1, <3>1, PushInRange DEF CanMove, AfterMutex
    <3>3. pc[Main] # "done"
      BY <2>1, <3>1 DEF CanMove, AfterMutex, ControlInv
    <3> QED
      BY <3>1, <3>2, <3>3 DEF CanMove, ControlInv, PushPC, CloserPC
  <2>4. \A w \in Worker : queue[w] = <<>>
    <3> SUFFICES ASSUME NEW w \in Worker, queue[w] # <<>> PROVE FALSE
      OBVIOUS
    <3>1. w \notin waiting
      <4>1. \A t \in Thread : pc[t] # "notify"
        BY DEF CanMove
      <4> QED
        BY <4>1 DEF NoLostWakeup
    <3>2. pc[w] = "exited"
      BY <2>2, <3>1
    <3>3. PICK v \in Worker : WillScan(v, w)
      BY DEF ScanInv
    <3> QED
      BY <2>2, <3>2, <3>3 DEF WillScan, PushPC
  <2>5. Queued = {}
    BY <2>4 DEF Queued
  <2>6. Held = {}
    <3>1. \A t \in Thread : pc[t] \notin {"take", "push", "pushHeld", "check"}
      BY <2>2, <2>3 DEF Thread
    <3> QED
      BY <3>1, ConstFacts DEF HandInv, Held
  <2>7. Running = {}
    BY <2>2, ConstFacts DEF HandInv, Running, PushPC
  <2>8. Submitted = finished
    BY <2>5, <2>6, <2>7 DEF PlaceInv
  <2>9. pc[Main] # "join"
    <3> SUFFICES ASSUME pc[Main] = "join" PROVE FALSE
      OBVIOUS
    <3>1. PICK w \in Worker : pc[w] # "exited"
      BY ConstFacts DEF CanMove
    <3>2. w \in waiting /\ done[w]
      BY <2>2, <3>1 DEF CloseInv, Closed
    <3> QED
      BY <3>2 DEF NoLostWakeup
  <2> QED
    BY <2>3, <2>8, <2>9 DEF CloserPC
<1> QED
  BY <1>1, OnePlaceEach, WakeupsReach, PTL

=============================================================================
