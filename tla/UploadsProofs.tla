---------------------------- MODULE UploadsProofs ----------------------------
(***************************************************************************)
(* TLAPS proofs about Uploads: whatever the number of callers and of       *)
(* uploads, none returns before its own list was executed, as long as no   *)
(* increment of the counter was lost.                                      *)
(***************************************************************************)
EXTENDS Uploads, SequenceTheorems, TLAPS

(* The counter is at least every value that was ever signalled, and at least
   what any caller stored. *)
Counted ==
  /\ fence <= fenceValue
  /\ \A i \in DOMAIN queue : ~queue[i].list => queue[i].value <= fenceValue
  /\ \A c \in Callers : pc[c] \in {"signal", "compare", "arm", "wait"} =>
       register[c] <= fenceValue

(* While a list is in the queue its caller is in immediate_submit; once the
   caller has its value, all that precedes the list signals less. *)
Ahead ==
  \A i \in DOMAIN queue : queue[i].list =>
    /\ pc[queue[i].of] # "idle"
    /\ pc[queue[i].of] \in {"signal", "compare", "arm", "wait"} =>
         /\ fence < register[queue[i].of]
         /\ \A j \in DOMAIN queue : j < i /\ ~queue[j].list =>
              queue[j].value < register[queue[i].of]

IInv == TypeOK /\ (torn \/ (Counted /\ Ahead))

(* A list and a signal are commands. *)
LEMMA CommandFacts ==
  /\ \A c \in Callers : List(c) \in Command /\ List(c).list /\ List(c).of = c
  /\ \A v \in Nat : /\ Signalled(v) \in Command
                    /\ ~Signalled(v).list /\ Signalled(v).value = v
PROOF BY DEF Command, List, Signalled

(* There are no others: a list has a caller, a signal a value. *)
LEMMA IsCommand ==
  ASSUME NEW m \in Command
  PROVE  /\ m.list \in BOOLEAN
         /\ m.list => m.of \in Callers
         /\ ~m.list => m.value \in Nat
PROOF
<1>1. CASE \E c \in Callers : m = List(c)
  BY <1>1 DEF List
<1>2. CASE \E v \in Nat : m = Signalled(v)
  BY <1>2 DEF Signalled
<1> QED BY <1>1, <1>2 DEF Command

(* What the queue holds after a command was added. *)
LEMMA AppendFacts ==
  ASSUME NEW s \in Seq(Command), NEW m \in Command
  PROVE  /\ Append(s, m) \in Seq(Command)
         /\ DOMAIN s = 1 .. Len(s) /\ Len(s) \in Nat
         /\ DOMAIN Append(s, m) = 1 .. Len(s) + 1
         /\ \A i \in 1 .. Len(s) : Append(s, m)[i] = s[i]
         /\ Append(s, m)[Len(s) + 1] = m
PROOF OBVIOUS

(* What the queue holds after the GPU did its first command. *)
LEMMA TailFacts ==
  ASSUME NEW s \in Seq(Command), s # <<>>
  PROVE  /\ Tail(s) \in Seq(Command) /\ Head(s) \in Command /\ Head(s) = s[1]
         /\ Len(s) \in Nat \ {0}
         /\ DOMAIN s = 1 .. Len(s)
         /\ DOMAIN Tail(s) = 1 .. Len(s) - 1
         /\ \A i \in 1 .. Len(s) - 1 : Tail(s)[i] = s[i + 1]
PROOF OBVIOUS

(* Every command in the queue is one. *)
LEMMA QueueFacts ==
  ASSUME TypeOK
  PROVE  /\ \A i \in DOMAIN queue : queue[i] \in Command
         /\ DOMAIN queue = 1 .. Len(queue) /\ Len(queue) \in Nat
PROOF BY DEF TypeOK

(* Nothing is submitted at first. *)
LEMMA InitInv == Init => IInv
PROOF
<1> SUFFICES ASSUME Init PROVE IInv
  OBVIOUS
<1>1. TypeOK
  <2>1. <<>> \in Seq(Command)
    OBVIOUS
  <2> QED BY <2>1 DEF Init, TypeOK, Location
<1>2. Counted /\ Ahead
  BY DEF Init, Counted, Ahead
<1> QED BY <1>1, <1>2 DEF IInv

(* A look at the counter yields a number. *)
LEMMA LooksFacts ==
  ASSUME TypeOK, NEW c \in Callers
  PROVE  Looks(c) \subseteq Nat
PROOF BY DEF TypeOK, Looks

(* The types are preserved. *)
LEMMA TypeStep == TypeOK /\ [Next]_vars => TypeOK'
PROOF
<1> SUFFICES ASSUME TypeOK, [Next]_vars PROVE TypeOK'
  OBVIOUS
<1> USE DEF TypeOK, Location
<1>1. ASSUME NEW c \in Callers, Submit(c) PROVE TypeOK'
  <2>1. queue' \in Seq(Command)
    BY <1>1, CommandFacts, AppendFacts DEF Submit
  <2> QED BY <1>1, <2>1 DEF Submit, Goto
<1>2. ASSUME NEW c \in Callers, Load(c) PROVE TypeOK'
  BY <1>2 DEF Load, Goto
<1>3. ASSUME NEW c \in Callers, Store(c) PROVE TypeOK'
  BY <1>3 DEF Store, Goto
<1>4. ASSUME NEW c \in Callers, Signal(c) PROVE TypeOK'
  <2>1. PICK v \in Signals(c) : queue' = Append(queue, Signalled(v))
                                /\ back' = (back \/ \E w \in Values : v < w)
    BY <1>4 DEF Signal
  <2>2. v \in Nat
    BY <2>1, LooksFacts DEF Signals
  <2>3. queue' \in Seq(Command)
    BY <2>1, <2>2, CommandFacts, AppendFacts
  <2>4. back' \in BOOLEAN
    BY <2>1
  <2> QED BY <1>4, <2>3, <2>4 DEF Signal, Goto
<1>5. ASSUME NEW c \in Callers, Compare(c) PROVE TypeOK'
  BY <1>5 DEF Compare, Goto
<1>6. ASSUME NEW c \in Callers, Arm(c) PROVE TypeOK'
  BY <1>6, LooksFacts DEF Arm, Goto
<1>7. ASSUME NEW c \in Callers, Wait(c) PROVE TypeOK'
  BY <1>7 DEF Wait, Goto
<1>8. CASE GPU
  <2>1. queue' \in Seq(Command) /\ Head(queue) \in Command
    BY <1>8, TailFacts DEF GPU
  <2>2. fence' \in Nat
    <3>1. ~Head(queue).list => Head(queue).value \in Nat
      BY ONLY <2>1, IsCommand
    <3> QED BY <1>8, <3>1 DEF GPU
  <2> QED BY <1>8, <2>1, <2>2 DEF GPU
<1>9. CASE UNCHANGED vars
  BY <1>9 DEF vars
<1> QED BY <1>1, <1>2, <1>3, <1>4, <1>5, <1>6, <1>7, <1>8, <1>9 DEF Next, Continue

(* The types, and every command a command: what the step lemmas start from. *)
LEMMA Typed ==
  ASSUME TypeOK
  PROVE  /\ pc \in [Callers -> Location] /\ register \in [Callers -> Nat]
         /\ fenceValue \in Nat /\ fence \in Nat /\ torn \in BOOLEAN
         /\ queue \in Seq(Command)
         /\ \A i \in DOMAIN queue : /\ queue[i].list \in BOOLEAN
                                    /\ queue[i].list => queue[i].of \in Callers
                                    /\ ~queue[i].list => queue[i].value \in Nat
PROOF BY QueueFacts, IsCommand DEF TypeOK

(* A list is added at the end, by a caller that has no value yet. *)
LEMMA SubmitStep ==
  ASSUME TypeOK, Counted, Ahead, NEW c \in Callers, Submit(c)
  PROVE  Counted' /\ Ahead'
PROOF
<1> USE Typed
<1>1. /\ DOMAIN queue = 1 .. Len(queue) /\ Len(queue) \in Nat
      /\ DOMAIN queue' = 1 .. Len(queue) + 1
      /\ \A i \in 1 .. Len(queue) : queue'[i] = queue[i]
      /\ queue'[Len(queue) + 1] = List(c)
  BY CommandFacts, AppendFacts DEF Submit
<1>2. List(c).list /\ List(c).of = c
  BY CommandFacts
<1>3. /\ pc' = [pc EXCEPT ![c] = "load"]
      /\ fenceValue' = fenceValue /\ register' = register /\ fence' = fence
  BY DEF Submit, Goto
<1>4. Counted'
  <2>1. fence' <= fenceValue'
    BY <1>1, <1>2, <1>3 DEF Counted
  <2>2. \A i \in DOMAIN queue' : ~queue'[i].list => queue'[i].value <= fenceValue'
    BY <1>1, <1>2, <1>3 DEF Counted
  <2>3. \A d \in Callers : pc'[d] \in {"signal", "compare", "arm", "wait"} =>
          register'[d] <= fenceValue'
    BY <1>1, <1>2, <1>3 DEF Counted
  <2> QED BY <2>1, <2>2, <2>3 DEF Counted
<1>5. Ahead'
  <2> SUFFICES ASSUME NEW i \in DOMAIN queue', queue'[i].list
               PROVE  /\ pc'[queue'[i].of] # "idle"
                      /\ pc'[queue'[i].of] \in {"signal", "compare", "arm", "wait"} =>
                           /\ fence' < register'[queue'[i].of]
                           /\ \A j \in DOMAIN queue' : j < i /\ ~queue'[j].list =>
                                queue'[j].value < register'[queue'[i].of]
    BY DEF Ahead
  <2>1. CASE i = Len(queue) + 1
    BY <1>1, <1>2, <1>3, <2>1
  <2>2. CASE i \in 1 .. Len(queue)
    <3>1. /\ queue'[i] = queue[i]
          /\ \A j \in DOMAIN queue' : j < i => j \in DOMAIN queue /\ queue'[j] = queue[j]
      BY <1>1, <2>2
    <3> QED BY <1>1, <1>3, <2>2, <3>1 DEF Ahead
  <2> QED BY <1>1, <2>1, <2>2
<1> QED BY <1>4, <1>5

(* Before the store its value binds nobody. *)
LEMMA LoadStep ==
  ASSUME TypeOK, Counted, Ahead, NEW c \in Callers, Load(c)
  PROVE  Counted' /\ Ahead'
PROOF BY Typed DEF Load, Goto, Counted, Ahead

(* The counter becomes larger than all that was signalled. *)
LEMMA StoreStep ==
  ASSUME TypeOK, Counted, Ahead, NEW c \in Callers, Store(c), ~torn'
  PROVE  Counted' /\ Ahead'
PROOF
<1> USE Typed
<1>1. /\ fenceValue' = fenceValue + 1
      /\ register' = [register EXCEPT ![c] = fenceValue + 1]
      /\ pc' = [pc EXCEPT ![c] = "signal"] /\ queue' = queue /\ fence' = fence
  BY DEF Store, Goto
<1>2. Counted'
  <2>1. fence' <= fenceValue'
    BY <1>1 DEF Counted
  <2>2. ASSUME NEW i \in DOMAIN queue', ~queue'[i].list
        PROVE  queue'[i].value <= fenceValue'
    <3>1. queue[i].value \in Nat
      BY <1>1, <2>2, QueueFacts, IsCommand
    <3>2. queue[i].value <= fenceValue
      BY <1>1, <2>2 DEF Counted
    <3> QED BY <1>1, <3>1, <3>2
  <2>3. \A d \in Callers : pc'[d] \in {"signal", "compare", "arm", "wait"} =>
          register'[d] <= fenceValue'
    BY <1>1 DEF Counted
  <2> QED BY <2>1, <2>2, <2>3 DEF Counted
<1>3. Ahead'
  <2>1. ASSUME NEW i \in DOMAIN queue, queue[i].list, queue[i].of = c
        PROVE  /\ fence < register'[c]
               /\ \A j \in DOMAIN queue : ~queue[j].list => queue[j].value < register'[c]
    <3>1. register'[c] = fenceValue + 1
      BY <1>1
    <3>2. ASSUME NEW j \in DOMAIN queue, ~queue[j].list
          PROVE  queue[j].value < register'[c]
      <4>1. queue[j].value \in Nat
        BY <3>2, QueueFacts, IsCommand
      <4>2. queue[j].value <= fenceValue
        BY <3>2 DEF Counted
      <4> QED BY <3>1, <4>1, <4>2
    <3> QED BY <3>1, <3>2 DEF Counted
  <2>2. \A d \in Callers : d # c => pc'[d] = pc[d] /\ register'[d] = register[d]
    BY <1>1
  <2>3. pc'[c] = "signal"
    BY <1>1
  <2> QED BY <1>1, <2>1, <2>2, <2>3 DEF Ahead
<1> QED BY <1>2, <1>3

(* A signal is added behind every list. *)
LEMMA SignalStep ==
  ASSUME TypeOK, Counted, Ahead, NEW c \in Callers, Signal(c)
  PROVE  Counted' /\ Ahead'
PROOF
<1> USE Typed
<1>1. PICK v \in Looks(c) : queue' = Append(queue, Signalled(v))
  BY DEF Signal, Signals
<1>2. v \in Nat /\ v <= fenceValue
  BY <1>1, LooksFacts DEF Looks, Signal, Counted
<1>3. /\ DOMAIN queue = 1 .. Len(queue) /\ Len(queue) \in Nat
      /\ DOMAIN queue' = 1 .. Len(queue) + 1
      /\ \A i \in 1 .. Len(queue) : queue'[i] = queue[i]
      /\ queue'[Len(queue) + 1] = Signalled(v)
  BY <1>1, <1>2, CommandFacts, AppendFacts
<1>4. ~Signalled(v).list /\ Signalled(v).value = v
  BY <1>2, CommandFacts
<1>5. /\ pc[c] = "signal" /\ pc' = [pc EXCEPT ![c] = "compare"]
      /\ fenceValue' = fenceValue /\ register' = register /\ fence' = fence
  BY DEF Signal, Goto
<1>6. Counted'
  <2>1. fence' <= fenceValue'
    BY <1>2, <1>3, <1>4, <1>5 DEF Counted
  <2>2. \A i \in DOMAIN queue' : ~queue'[i].list => queue'[i].value <= fenceValue'
    BY <1>2, <1>3, <1>4, <1>5 DEF Counted
  <2>3. \A d \in Callers : pc'[d] \in {"signal", "compare", "arm", "wait"} =>
          register'[d] <= fenceValue'
    BY <1>2, <1>3, <1>4, <1>5 DEF Counted
  <2> QED BY <2>1, <2>2, <2>3 DEF Counted
<1>7. ASSUME NEW i \in DOMAIN queue', queue'[i].list
      PROVE  /\ i \in DOMAIN queue /\ queue'[i] = queue[i]
             /\ \A j \in DOMAIN queue' : j < i => j \in DOMAIN queue /\ queue'[j] = queue[j]
  BY <1>3, <1>4, <1>7
<1>8. Ahead'
  BY <1>5, <1>7 DEF Ahead
<1> QED BY <1>6, <1>8

(* Who finds the fence far enough has no list in the queue any more. *)
LEMMA CompareStep ==
  ASSUME TypeOK, Counted, Ahead, NEW c \in Callers, Compare(c)
  PROVE  Counted' /\ Ahead'
PROOF
<1> USE Typed
<1>1. PICK v \in Looks(c) : pc' = [pc EXCEPT ![c] = IF Completes(v) THEN "idle" ELSE "arm"]
  BY DEF Compare, Goto
<1>2. v \in Nat /\ register[c] <= v
  BY <1>1, LooksFacts DEF Looks, Compare, Counted
<1>3. /\ pc[c] = "compare" /\ queue' = queue
      /\ fenceValue' = fenceValue /\ register' = register /\ fence' = fence
  BY DEF Compare
<1>4. Counted'
  BY <1>1, <1>3 DEF Counted
<1>5. Ahead'
  BY <1>1, <1>2, <1>3 DEF Ahead, Completes
<1> QED BY <1>4, <1>5

(* It may wait for more than its own value, never for less. *)
LEMMA ArmStep ==
  ASSUME TypeOK, Counted, Ahead, NEW c \in Callers, Arm(c)
  PROVE  Counted' /\ Ahead'
PROOF
<1> USE Typed
<1>1. PICK v \in Looks(c) : register' = [register EXCEPT ![c] = v]
  BY DEF Arm
<1>2. v \in Nat /\ register[c] <= v /\ v <= fenceValue
  BY <1>1, LooksFacts DEF Looks, Arm, Counted
<1>3. /\ pc[c] = "arm" /\ pc' = [pc EXCEPT ![c] = "wait"]
      /\ queue' = queue /\ fenceValue' = fenceValue /\ fence' = fence
  BY DEF Arm, Goto
<1>4. Counted'
  BY <1>1, <1>2, <1>3 DEF Counted
<1>5. Ahead'
  <2>1. /\ pc'[c] = "wait" /\ register'[c] = v
        /\ \A d \in Callers : d # c => pc'[d] = pc[d] /\ register'[d] = register[d]
    BY <1>1, <1>3
  <2>2. ASSUME NEW n \in Nat, n < register[c] PROVE n < v
    BY <1>2, <2>2
  <2>3. ASSUME NEW i \in DOMAIN queue, queue[i].list
        PROVE  /\ pc'[queue[i].of] # "idle"
               /\ pc'[queue[i].of] \in {"signal", "compare", "arm", "wait"} =>
                    /\ fence < register'[queue[i].of]
                    /\ \A j \in DOMAIN queue : j < i /\ ~queue[j].list =>
                         queue[j].value < register'[queue[i].of]
    <3> DEFINE d == queue[i].of
    <3>1. d \in Callers /\ pc[d] # "idle"
      <4>1. d \in Callers
        BY <2>3, QueueFacts, IsCommand
      <4>2. pc[d] # "idle"
        BY <2>3 DEF Ahead
      <4> QED BY <4>1, <4>2
    <3>2. ASSUME pc[d] \in {"signal", "compare", "arm", "wait"}
          PROVE  /\ fence < register[d]
                 /\ \A j \in DOMAIN queue : j < i /\ ~queue[j].list =>
                      /\ queue[j].value \in Nat
                      /\ queue[j].value < register[d]
      BY <2>3, <3>2, QueueFacts, IsCommand DEF Ahead
    <3> HIDE DEF d
    <3>3. CASE d = c
      <4>1. fence < v /\ \A j \in DOMAIN queue : j < i /\ ~queue[j].list => queue[j].value < v
        BY <1>3, <2>2, <3>2, <3>3
      <4>2. pc'[d] # "idle" /\ register'[d] = v
        BY <2>1, <3>3
      <4> QED BY <4>1, <4>2 DEF d
    <3>4. CASE d # c
      <4>1. pc'[d] = pc[d] /\ register'[d] = register[d]
        BY <2>1, <3>1, <3>4
      <4> QED BY <3>1, <3>2, <4>1 DEF d
    <3> QED BY <3>3, <3>4
  <2> QED BY <1>3, <2>3 DEF Ahead
<1> QED BY <1>4, <1>5

(* A caller whose value was reached returns: its list is not in the queue. *)
LEMMA WaitStep ==
  ASSUME TypeOK, Counted, Ahead, NEW c \in Callers, Wait(c)
  PROVE  Counted' /\ Ahead'
PROOF BY Typed DEF Wait, Goto, Counted, Ahead

(* What the GPU does first precedes every list that remains. *)
LEMMA GPUStep ==
  ASSUME TypeOK, Counted, Ahead, GPU
  PROVE  Counted' /\ Ahead'
PROOF
<1> USE Typed
<1>1. /\ Len(queue) \in Nat \ {0} /\ DOMAIN queue = 1 .. Len(queue)
      /\ DOMAIN queue' = 1 .. Len(queue) - 1
      /\ \A i \in 1 .. Len(queue) - 1 : queue'[i] = queue[i + 1]
      /\ Head(queue) = queue[1]
  BY TailFacts DEF GPU
<1>2. /\ fence' = IF queue[1].list THEN fence ELSE queue[1].value
      /\ pc' = pc /\ fenceValue' = fenceValue /\ register' = register
  BY <1>1 DEF GPU
<1>3. ASSUME NEW i \in DOMAIN queue'
      PROVE  i + 1 \in DOMAIN queue /\ 1 \in DOMAIN queue /\ queue'[i] = queue[i + 1]
             /\ 1 < i + 1
  BY <1>1
<1>4. Counted'
  BY <1>1, <1>2, <1>3 DEF Counted
<1>5. Ahead'
  <2> SUFFICES ASSUME NEW i \in DOMAIN queue', queue'[i].list
               PROVE  /\ pc'[queue'[i].of] # "idle"
                      /\ pc'[queue'[i].of] \in {"signal", "compare", "arm", "wait"} =>
                           /\ fence' < register'[queue'[i].of]
                           /\ \A j \in DOMAIN queue' : j < i /\ ~queue'[j].list =>
                                queue'[j].value < register'[queue'[i].of]
    BY DEF Ahead
  <2>1. \A j \in DOMAIN queue' : j < i => j + 1 \in DOMAIN queue /\ j + 1 < i + 1
                                          /\ queue'[j] = queue[j + 1]
    BY <1>1, <1>3
  <2> QED BY <1>2, <1>3, <2>1 DEF Ahead
<1> QED BY <1>4, <1>5

(* Every step preserves the invariant. *)
LEMMA StepInv == IInv /\ [Next]_vars => IInv'
PROOF
<1> SUFFICES ASSUME IInv, [Next]_vars PROVE IInv'
  OBVIOUS
<1>1. TypeOK /\ TypeOK'
  BY TypeStep DEF IInv
<1>2. CASE torn \/ torn'
  <2>1. torn'
    <3>1. ASSUME NEW c \in Callers, Store(c) PROVE torn => torn'
      BY <3>1 DEF Store
    <3>2. CASE torn' = torn
      BY <1>2, <3>2
    <3>3. torn' = torn \/ \E c \in Callers : Store(c)
      BY DEF Next, Continue, Submit, Load, Signal, Compare, Arm, Wait, GPU, vars
    <3> QED BY <1>2, <3>1, <3>2, <3>3
  <2>2. torn' \/ (Counted' /\ Ahead')
    BY <2>1
  <2> QED BY <1>1, <2>2 DEF IInv
<1>3. CASE ~torn /\ ~torn'
  <2> USE <1>1, <1>3
  <2>1. Counted /\ Ahead
    BY DEF IInv
  <2>2. CASE UNCHANGED vars
    BY <2>1, <2>2 DEF vars, Counted, Ahead, IInv
  <2>3. CASE GPU
    BY <2>1, <2>3, GPUStep DEF IInv
  <2>4. CASE \E c \in Callers : Submit(c) \/ Continue(c)
    BY <2>1, <2>4, SubmitStep, LoadStep, StoreStep, SignalStep, CompareStep, ArmStep,
       WaitStep DEF Continue, IInv
  <2> QED BY <2>2, <2>3, <2>4 DEF Next
<1> QED BY <1>1, <1>2, <1>3 DEF TypeOK

(* Each caller is at a step of immediate_submit, the counter, the fence and
   the queue are what they should be, whatever the interleaving. *)
THEOREM UploadsType == Spec => []TypeOK
PROOF
<1>1. Init => TypeOK
  BY InitInv DEF IInv
<1> QED BY <1>1, TypeStep, PTL DEF Spec

(* With any number of callers and of uploads that overlap in any way, as long
   as no increment was lost an upload returns only after its own list was
   executed: what precedes the list in the queue signals less than its caller
   waits for. *)
THEOREM UploadsAreExecuted == Spec => []UploadExecuted
PROOF
<1>1. IInv => UploadExecuted
  BY DEF IInv, Ahead, UploadExecuted
<1> QED BY <1>1, InitInv, StepInv, PTL DEF Spec

-----------------------------------------------------------------------------
(* What an upload waits for comes.  This is the part of UploadReturns that is
   not about fairness. *)

IsSignal(i) == ~queue[i].list

(* The signals are in the order of their values: the fence never moves back. *)
InOrder ==
  \A i \in DOMAIN queue : IsSignal(i) =>
    /\ fence <= queue[i].value
    /\ \A j \in DOMAIN queue : i < j /\ IsSignal(j) => queue[i].value <= queue[j].value

(* The fence has the value, or the GPU is to signal it, or a caller is. *)
Comes(v) ==
  \/ fence >= v
  \/ \E i \in DOMAIN queue : IsSignal(i) /\ queue[i].value >= v
  \/ \E d \in Callers : pc[d] = "signal" /\ register[d] >= v

OrderInv == torn \/ back \/ (InOrder /\ Comes(fenceValue))

(* All values the fence may take are numbers that Values has. *)
LEMMA SignalledValues ==
  ASSUME TypeOK
  PROVE  /\ fence \in Values
         /\ \A i \in DOMAIN queue : IsSignal(i) => /\ queue[i].value \in Values
                                                  /\ queue[i].value \in Nat
PROOF
<1>1. \A i \in DOMAIN queue : IsSignal(i) => queue[i].value \in Nat
  BY Typed DEF IsSignal
<1> QED BY <1>1 DEF Values, IsSignal

(* A step that leaves the queue and the fence alone keeps the order. *)
LEMMA SameOrder ==
  ASSUME InOrder, queue' = queue, fence' = fence
  PROVE  InOrder'
PROOF BY DEF InOrder, IsSignal

(* A list delays nobody. *)
LEMMA SubmitOrder ==
  ASSUME TypeOK, InOrder, Comes(fenceValue), NEW c \in Callers, Submit(c)
  PROVE  InOrder' /\ Comes(fenceValue)'
PROOF
<1> USE Typed
<1>1. /\ DOMAIN queue = 1 .. Len(queue) /\ Len(queue) \in Nat
      /\ DOMAIN queue' = 1 .. Len(queue) + 1
      /\ \A i \in 1 .. Len(queue) : queue'[i] = queue[i]
      /\ queue'[Len(queue) + 1] = List(c)
  BY CommandFacts, AppendFacts DEF Submit
<1>2. /\ pc[c] = "idle" /\ pc' = [pc EXCEPT ![c] = "load"]
      /\ fenceValue' = fenceValue /\ register' = register /\ fence' = fence
  BY DEF Submit, Goto
<1>3. \A i \in DOMAIN queue' : IsSignal(i)' => i \in 1 .. Len(queue)
  BY <1>1, CommandFacts DEF IsSignal
<1>4. InOrder'
  BY <1>1, <1>2, <1>3 DEF InOrder, IsSignal
<1>5. Comes(fenceValue)'
  <2>1. CASE fence >= fenceValue
    BY <1>2, <2>1 DEF Comes
  <2>2. CASE \E i \in DOMAIN queue : IsSignal(i) /\ queue[i].value >= fenceValue
    BY <1>1, <1>2, <2>2 DEF Comes, IsSignal
  <2>3. CASE \E d \in Callers : pc[d] = "signal" /\ register[d] >= fenceValue
    BY <1>2, <2>3 DEF Comes
  <2> QED BY <2>1, <2>2, <2>3 DEF Comes
<1> QED BY <1>4, <1>5

(* Who stores a value is about to signal it. *)
LEMMA StoreOrder ==
  ASSUME TypeOK, InOrder, NEW c \in Callers, Store(c)
  PROVE  InOrder' /\ Comes(fenceValue)'
PROOF
<1>1. /\ queue' = queue /\ fence' = fence
      /\ pc'[c] = "signal" /\ register'[c] = fenceValue' /\ fenceValue' \in Nat
  BY Typed DEF Store, Goto
<1> QED BY <1>1, SameOrder DEF Comes

(* A signal that no larger one has overtaken goes to the end of the order, and
   is at least what its caller has stored. *)
LEMMA SignalOrder ==
  ASSUME TypeOK, InOrder, Comes(fenceValue), NEW c \in Callers, Signal(c), ~back'
  PROVE  InOrder' /\ Comes(fenceValue)'
PROOF
<1> USE Typed
<1>1. PICK v \in Looks(c) : /\ queue' = Append(queue, Signalled(v))
                            /\ back' = (back \/ \E w \in Values : v < w)
  BY DEF Signal, Signals
<1>2. v \in Nat /\ ~(\E w \in Values : v < w)
  BY <1>1, LooksFacts
<1>3. /\ DOMAIN queue = 1 .. Len(queue) /\ Len(queue) \in Nat
      /\ DOMAIN queue' = 1 .. Len(queue) + 1
      /\ \A i \in 1 .. Len(queue) : queue'[i] = queue[i]
      /\ ~queue'[Len(queue) + 1].list /\ queue'[Len(queue) + 1].value = v
  BY <1>1, <1>2, CommandFacts, AppendFacts
<1>4. /\ pc[c] = "signal" /\ pc' = [pc EXCEPT ![c] = "compare"]
      /\ fenceValue' = fenceValue /\ register' = register /\ fence' = fence
  BY DEF Signal, Goto
<1>5. /\ fence <= v
      /\ \A i \in DOMAIN queue : IsSignal(i) => queue[i].value <= v
  BY <1>2, SignalledValues
<1>6. InOrder'
  <2> SUFFICES ASSUME NEW i \in DOMAIN queue', IsSignal(i)'
               PROVE  /\ fence' <= queue'[i].value
                      /\ \A j \in DOMAIN queue' :
                           i < j /\ IsSignal(j)' => queue'[i].value <= queue'[j].value
    BY DEF InOrder
  <2>1. CASE i = Len(queue) + 1
    BY <1>3, <1>4, <1>5, <2>1
  <2>2. CASE i \in DOMAIN queue
    <3>1. IsSignal(i) /\ queue'[i] = queue[i]
      BY <1>3, <2>2 DEF IsSignal
    <3>2. fence' <= queue'[i].value
      BY <1>4, <2>2, <3>1 DEF InOrder
    <3>3. ASSUME NEW j \in DOMAIN queue', i < j, IsSignal(j)'
          PROVE  queue'[i].value <= queue'[j].value
      <4>1. CASE j = Len(queue) + 1
        BY <1>3, <1>5, <2>2, <3>1, <4>1
      <4>2. CASE j \in DOMAIN queue
        BY <1>3, <2>2, <3>1, <3>3, <4>2 DEF InOrder, IsSignal
      <4> QED BY <1>3, <4>1, <4>2
    <3> QED BY <3>2, <3>3
  <2> QED BY <1>3, <2>1, <2>2
<1>7. Comes(fenceValue)'
  <2>1. CASE fence >= fenceValue
    BY <1>4, <2>1 DEF Comes
  <2>2. CASE \E i \in DOMAIN queue : IsSignal(i) /\ queue[i].value >= fenceValue
    BY <1>3, <1>4, <2>2 DEF Comes, IsSignal
  <2>3. CASE \E d \in Callers : pc[d] = "signal" /\ register[d] >= fenceValue
    <3>1. PICK d \in Callers : pc[d] = "signal" /\ register[d] >= fenceValue
      BY <2>3
    <3>2. CASE d = c
      <4>1. v >= fenceValue
        BY <1>1, <3>1, <3>2 DEF Looks
      <4> QED BY <1>3, <1>4, <4>1 DEF Comes, IsSignal
    <3>3. CASE d # c
      BY <1>4, <3>1, <3>3 DEF Comes
    <3> QED BY <3>2, <3>3
  <2> QED BY <2>1, <2>2, <2>3 DEF Comes
<1> QED BY <1>6, <1>7

(* The first signal is not less than the fence, and no later one is less. *)
LEMMA GPUOrder ==
  ASSUME TypeOK, InOrder, Comes(fenceValue), GPU
  PROVE  InOrder' /\ Comes(fenceValue)'
PROOF
<1> USE Typed
<1>1. /\ Len(queue) \in Nat \ {0} /\ DOMAIN queue = 1 .. Len(queue)
      /\ DOMAIN queue' = 1 .. Len(queue) - 1
      /\ \A i \in 1 .. Len(queue) - 1 : queue'[i] = queue[i + 1]
      /\ Head(queue) = queue[1]
  BY TailFacts DEF GPU
<1>2. /\ fence' = IF queue[1].list THEN fence ELSE queue[1].value
      /\ pc' = pc /\ fenceValue' = fenceValue /\ register' = register
  BY <1>1 DEF GPU
<1>3. \A i \in DOMAIN queue' :
        i + 1 \in DOMAIN queue /\ queue'[i] = queue[i + 1] /\ 1 < i + 1
  BY <1>1
<1>4. 1 \in DOMAIN queue /\ \A i \in DOMAIN queue : IsSignal(i) => queue[i].value \in Nat
  BY <1>1, SignalledValues
<1>5. fence <= fence' /\ fence' \in Nat
  BY <1>2, <1>4 DEF InOrder, IsSignal
<1>6. InOrder'
  <2> SUFFICES ASSUME NEW i \in DOMAIN queue', IsSignal(i)'
               PROVE  /\ fence' <= queue'[i].value
                      /\ \A j \in DOMAIN queue' :
                           i < j /\ IsSignal(j)' => queue'[i].value <= queue'[j].value
    BY DEF InOrder
  <2>1. IsSignal(i + 1) /\ i + 1 \in DOMAIN queue /\ queue'[i] = queue[i + 1]
    BY <1>3 DEF IsSignal
  <2>2. fence' <= queue'[i].value
    BY <1>2, <1>3, <1>4, <2>1 DEF InOrder, IsSignal
  <2>3. ASSUME NEW j \in DOMAIN queue', i < j, IsSignal(j)'
        PROVE  queue'[i].value <= queue'[j].value
    <3>1. IsSignal(j + 1) /\ j + 1 \in DOMAIN queue /\ queue'[j] = queue[j + 1]
      BY <1>3, <2>3 DEF IsSignal
    <3>2. i + 1 < j + 1
      BY <1>1, <2>3
    <3> QED BY <2>1, <3>1, <3>2 DEF InOrder
  <2> QED BY <2>2, <2>3
<1>7. Comes(fenceValue)'
  <2>1. CASE fence >= fenceValue
    BY <1>2, <1>5, <2>1 DEF Comes
  <2>2. CASE \E i \in DOMAIN queue : IsSignal(i) /\ queue[i].value >= fenceValue
    <3>1. PICK i \in DOMAIN queue : IsSignal(i) /\ queue[i].value >= fenceValue
      BY <2>2
    <3>2. CASE i = 1
      BY <1>2, <3>1, <3>2 DEF Comes, IsSignal
    <3>3. CASE i # 1
      <4>1. i - 1 \in DOMAIN queue' /\ queue'[i - 1] = queue[i]
        BY <1>1, <3>3
      <4> QED BY <1>2, <3>1, <4>1 DEF Comes, IsSignal
    <3> QED BY <3>2, <3>3
  <2>3. CASE \E d \in Callers : pc[d] = "signal" /\ register[d] >= fenceValue
    BY <1>2, <2>3 DEF Comes
  <2> QED BY <2>1, <2>2, <2>3 DEF Comes
<1> QED BY <1>6, <1>7

(* The other steps are of callers that have nothing to signal. *)
LEMMA OtherOrder ==
  ASSUME TypeOK, InOrder, Comes(fenceValue), NEW c \in Callers,
         Load(c) \/ Compare(c) \/ Arm(c) \/ Wait(c)
  PROVE  InOrder' /\ Comes(fenceValue)'
PROOF
<1> USE Typed
<1>1. /\ queue' = queue /\ fence' = fence /\ fenceValue' = fenceValue
      /\ pc[c] # "signal"
      /\ \A d \in Callers \ {c} : pc'[d] = pc[d] /\ register'[d] = register[d]
  BY DEF Load, Compare, Arm, Wait, Goto
<1>2. InOrder'
  BY <1>1, SameOrder
<1>3. ASSUME NEW d \in Callers, pc[d] = "signal" PROVE pc'[d] = pc[d] /\ register'[d] = register[d]
  BY <1>1, <1>3
<1> QED BY <1>1, <1>2, <1>3 DEF Comes, IsSignal

(* As long as no increment is lost and no signal overtaken, the order is kept
   and the counter's value comes. *)
LEMMA OrderStep == TypeOK /\ OrderInv /\ [Next]_vars => OrderInv'
PROOF
<1> SUFFICES ASSUME TypeOK, OrderInv, [Next]_vars, ~torn', ~back' PROVE OrderInv'
  BY DEF OrderInv
<1>1. ~torn /\ ~back
  <2>1. torn => torn'
    BY DEF Next, Continue, Submit, Load, Store, Signal, Compare, Arm, Wait, GPU, vars
  <2>2. back => back'
    <3>1. ASSUME NEW c \in Callers, Signal(c) PROVE back => back'
      BY <3>1 DEF Signal
    <3>2. back' = back \/ \E c \in Callers : Signal(c)
      BY DEF Next, Continue, Submit, Load, Store, Compare, Arm, Wait, GPU, vars
    <3> QED BY <3>1, <3>2
  <2> QED BY <2>1, <2>2
<1>2. InOrder /\ Comes(fenceValue)
  BY <1>1 DEF OrderInv
<1>3. InOrder' /\ Comes(fenceValue)'
  <2>1. CASE UNCHANGED vars
    BY <1>2, <2>1 DEF vars, InOrder, Comes, IsSignal
  <2>2. CASE GPU
    BY <1>2, <2>2, GPUOrder
  <2>3. ASSUME NEW c \in Callers, Submit(c) \/ Continue(c)
        PROVE  InOrder' /\ Comes(fenceValue)'
    BY <1>2, <2>3, SubmitOrder, StoreOrder, SignalOrder, OtherOrder DEF Continue
  <2> QED BY <2>1, <2>2, <2>3 DEF Next
<1> QED BY <1>3 DEF OrderInv

(* The order holds at first. *)
LEMMA InitOrder == Init => OrderInv
PROOF BY DEF Init, OrderInv, InOrder, Comes

(* What a caller waits for comes, whoever signals it: it may have been told
   the counter of another caller, which has then not yet signalled. *)
AwaitedComes ==
  torn \/ back \/
    \A c \in Callers : pc[c] \in {"compare", "arm", "wait"} => Comes(register[c])

(* Some caller in immediate_submit, or the GPU, has a step to take. *)
CanMove ==
  \/ queue # <<>>
  \/ \E c \in Callers : \/ pc[c] \in {"load", "store", "signal", "compare", "arm"}
                        \/ pc[c] = "wait" /\ fence >= register[c]

(* The counter's value comes, and no caller waits for more. *)
LEMMA Coming == IInv /\ OrderInv => AwaitedComes
PROOF
<1> SUFFICES ASSUME IInv, OrderInv, ~torn, ~back, NEW c \in Callers,
                    pc[c] \in {"compare", "arm", "wait"}
             PROVE  Comes(register[c])
  BY DEF AwaitedComes
<1>1. TypeOK /\ Comes(fenceValue) /\ register[c] <= fenceValue
  BY DEF IInv, OrderInv, Counted
<1>2. register[c] \in Nat /\ fenceValue \in Nat /\ fence \in Nat /\ \A d \in Callers : register[d] \in Nat
  BY <1>1, Typed
<1>3. \A i \in DOMAIN queue : IsSignal(i) => queue[i].value \in Nat
  BY <1>1, SignalledValues
<1>4. \A n \in Nat : n >= fenceValue => n >= register[c]
  BY <1>1, <1>2
<1> QED BY <1>1, <1>2, <1>3, <1>4 DEF Comes

(* However many callers overlap: as long as no increment was lost and no
   signal overtaken by a larger one, what the wait in immediate_submit is for
   has been reached, or is queued, or is about to be signalled. *)
THEOREM AwaitedValueComes == Spec => []AwaitedComes
PROOF BY InitInv, StepInv, InitOrder, OrderStep, Coming, PTL DEF Spec, IInv

(* Nor is there then a state in which callers are in immediate_submit and
   neither any of them nor the GPU can go on. *)
THEOREM UploadsNeverStuck ==
  Spec => [](torn \/ back \/ (\A c \in Callers : pc[c] = "idle") \/ CanMove)
PROOF
<1> DEFINE NotStuck == torn \/ back \/ (\A c \in Callers : pc[c] = "idle") \/ CanMove
<1>1. TypeOK /\ AwaitedComes => NotStuck
  <2> SUFFICES ASSUME TypeOK, AwaitedComes, ~torn, ~back, NEW c \in Callers, pc[c] # "idle"
               PROVE  CanMove
    OBVIOUS
  <2>1. pc[c] \in Location
    BY Typed
  <2>2. CASE pc[c] = "wait"
    BY <2>2, QueueFacts DEF AwaitedComes, Comes, CanMove
  <2> QED BY <2>1, <2>2 DEF Location, CanMove
<1> QED BY <1>1, AwaitedValueComes, UploadsType, PTL
=============================================================================
