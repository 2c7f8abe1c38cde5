--------------------------- MODULE JobBuilderProofs ---------------------------
(***************************************************************************)
(* The theorems about JobBuilder, for every set of builders and jobs and   *)
(* every number of counters.  The induction is on TypeOK /\ OrderInv: that *)
(* a counter at zero stands for everything before it (ZeroMeansDone) needs *)
(* that a counter is exact, that started jobs are in order, and that what  *)
(* a job waits for is closed, so that what it stands for does not grow.    *)
(***************************************************************************)
EXTENDS JobBuilder, FiniteSetTheorems, WellFoundedInduction, TLAPS

Inv == TypeOK /\ OrderInv

(* A counter that is closed stays closed. *)
ClosedStays ==
  /\ 1 .. made \subseteq 1 .. made'
  /\ \A c \in (1 .. made) \ Open : c \notin Open'

(* Counters are numbers, and the empty pointer is not one of them. *)
LEMMA CounterFacts ==
  /\ Counter = 1 .. MaxCounter /\ MaxCounter \in Nat
  /\ NoCounter \notin Counter
  /\ TypeOK => made \in Nat /\ 1 .. made \subseteq Counter
BY PoolAssumption, BuilderAssumption DEF TypeOK

(* The set that a counter counts is finite. *)
LEMMA PendingFinite ==
  \A c : IsFiniteSet(JobsOf(c) \cap Pending)
<1>1. ASSUME NEW c PROVE JobsOf(c) \cap Pending \subseteq Job
  BY DEF JobsOf
<1> QED
  BY <1>1, FS_Subset, BuilderAssumption

(***************************************************************************)
(* In a state of the invariant a counter at zero stands for finished jobs. *)
(***************************************************************************)
LEMMA ZeroInInv == Inv => ZeroMeansDone
<1> SUFFICES ASSUME Inv, NEW c \in Counter, counter[c] = 0, NEW j \in stands[c]
             PROVE  j \in Finished
  BY DEF ZeroMeansDone
<1>1. JobsOf(c) \cap Pending = {}
  <2>1. Cardinality(JobsOf(c) \cap Pending) = 0
    BY DEF Inv, OrderInv, CounterExact
  <2> QED
    BY <2>1, PendingFinite, FS_EmptySet
<1>2. ASSUME NEW i \in JobsOf(c) PROVE i \in Finished
  <2>1. i \in Job /\ acc[i] = c
    BY DEF JobsOf
  <2>2. status[i] # "idle"
    BY <2>1, CounterFacts DEF Inv, OrderInv, DepInv
  <2>3. status[i] \in Status
    BY <2>1 DEF Inv, TypeOK, PoolTypeOK
  <2> QED
    BY <1>1, <2>1, <2>2, <2>3 DEF Pending, Finished, Status
<1>3. CASE j \in JobsOf(c)
  BY <1>2, <1>3
<1>4. CASE j \in UNION {stands[dep[i]] : i \in JobsOf(c)}
  <2>1. PICK i \in JobsOf(c) : j \in stands[dep[i]]
    BY <1>4
  <2>2. i \in Job /\ status[i] = "finished"
    BY <1>2, <2>1 DEF Finished, JobsOf
  <2> QED
    BY <2>1, <2>2 DEF Inv, OrderInv, StartsInOrder
<1> QED
  BY <1>3, <1>4 DEF Inv, OrderInv, StandsInv

-----------------------------------------------------------------------------
(***************************************************************************)
(* What a step does to the builders: closed counters stay closed.          *)
(***************************************************************************)
BuilderTypeOK ==
  /\ accumulator \in [Builder -> Counter \cup {NoCounter}]
  /\ zero \in [Builder -> Counter \cup {NoCounter}]
  /\ phase \in [Builder -> Phase]
  /\ made \in 0 .. MaxCounter

(* A builder is constructed. *)
LEMMA NewKeeps ==
  ASSUME Inv, NEW b \in Builder, New(b)
  PROVE  BuilderTypeOK' /\ OwnerInv' /\ ClosedStays
<1> USE DEF Inv, TypeOK, Phase, New
<1>1. BuilderTypeOK'
  BY CounterFacts DEF BuilderTypeOK
<1>2. Open' = Open \cup {made + 1}
  BY DEF Open, OrderInv, OwnerInv
<1>3. Open \subseteq 1 .. made
  BY DEF Open, OrderInv, OwnerInv
<1>4. ClosedStays
  BY <1>2, <1>3, CounterFacts DEF ClosedStays
<1>5. OwnerInv'
  <2> SUFFICES ASSUME NEW y \in Builder, phase'[y] # "none"
               PROVE /\ accumulator'[y] \in 1 .. made' /\ zero'[y] \in (1 .. made') \ Open'
                     /\ \A x \in Builder \ {y} :
                          phase'[x] # "none" => accumulator'[x] # accumulator'[y]
    BY DEF OwnerInv, Open
  <2>1. CASE y = b
    BY <2>1, <1>2, <1>3, CounterFacts DEF OrderInv, OwnerInv
  <2>2. CASE y # b
    BY <2>2, <1>2, <1>3, CounterFacts DEF OrderInv, OwnerInv
  <2> QED BY <2>1, <2>2
<1> QED BY <1>1, <1>4, <1>5

(* A group is opened behind counter c: the builder's own accumulator or a closed one. *)
LEMMA OpenGroupKeeps ==
  ASSUME Inv, NEW b \in Builder, phase[b] = "open", NEW c, OpenGroup(b, c),
         c = accumulator[b] \/ c \in (1 .. made) \ Open, phase' = phase
  PROVE  BuilderTypeOK' /\ OwnerInv' /\ ClosedStays
<1> USE DEF Inv, TypeOK, Phase, OpenGroup
<1>0. /\ accumulator[b] \in 1 .. made /\ made' = made + 1 /\ made \in Nat
      /\ c \in 1 .. made
  BY CounterFacts DEF OrderInv, OwnerInv
<1>1. BuilderTypeOK'
  BY <1>0, CounterFacts DEF BuilderTypeOK
<1>2. Open \subseteq 1 .. made
  BY DEF Open, OrderInv, OwnerInv
<1>3. Open' = (Open \ {accumulator[b]}) \cup {made + 1}
  <2>1. \A x \in Builder \ {b} : phase[x] # "none" => accumulator[x] # accumulator[b]
    BY DEF OrderInv, OwnerInv
  <2> QED BY <2>1 DEF Open
<1>4. ClosedStays
  BY <1>0, <1>2, <1>3 DEF ClosedStays
<1>5. OwnerInv'
  <2> SUFFICES ASSUME NEW y \in Builder, phase'[y] # "none"
               PROVE /\ accumulator'[y] \in 1 .. made' /\ zero'[y] \in (1 .. made') \ Open'
                     /\ \A x \in Builder \ {y} :
                          phase'[x] # "none" => accumulator'[x] # accumulator'[y]
    BY DEF OwnerInv, Open
  <2>1. CASE y = b
    BY <2>1, <1>0, <1>2, <1>3 DEF OrderInv, OwnerInv
  <2>2. CASE y # b
    BY <2>2, <1>0, <1>2, <1>3 DEF OrderInv, OwnerInv
  <2> QED BY <2>1, <2>2
<1> QED BY <1>1, <1>4, <1>5

(* WaitAll, its return and ExtractCounter only move a builder between phases. *)
LEMMA PhaseKeeps ==
  ASSUME Inv, NEW b \in Builder, phase[b] \in {"open", "waiting"}, NEW p \in Phase \ {"none"},
         phase' = [phase EXCEPT ![b] = p], UNCHANGED <<accumulator, zero, made>>
  PROVE  BuilderTypeOK' /\ OwnerInv' /\ ClosedStays
<1> USE DEF Inv, TypeOK
<1>1. Open' \subseteq Open
  BY DEF Open
<1>2. \A x \in Builder : phase'[x] # "none" <=> phase[x] # "none"
  OBVIOUS
<1> QED
  BY <1>1, <1>2 DEF BuilderTypeOK, OrderInv, OwnerInv, ClosedStays

(* Nothing happens to the builders. *)
LEMMA IdleKeeps ==
  ASSUME Inv, UNCHANGED builderVars
  PROVE  BuilderTypeOK' /\ OwnerInv' /\ ClosedStays
BY DEF Inv, TypeOK, builderVars, BuilderTypeOK, OrderInv, OwnerInv, ClosedStays, Open

-----------------------------------------------------------------------------
(***************************************************************************)
(* What a step does to the jobs.                                           *)
(***************************************************************************)
JobTypeOK == PoolTypeOK /\ stands \in [Counter -> SUBSET Job]
JobInv == CounterExact /\ StartsInOrder /\ StandsInv

(* Nothing happens to the jobs. *)
LEMMA QuietKeeps ==
  ASSUME Inv, ClosedStays, UNCHANGED <<poolVars, stands>>
  PROVE  JobTypeOK' /\ JobInv' /\ DepInv'
<1>1. JobTypeOK' /\ JobInv'
  BY DEF Inv, TypeOK, PoolTypeOK, poolVars, JobTypeOK, JobInv, OrderInv, CounterExact,
         StartsInOrder, StandsInv, JobsOf, Pending, Finished
<1> QED
  BY <1>1 DEF Inv, OrderInv, DepInv, ClosedStays, poolVars

(* A job is submitted to builder b: nothing has started that stands on its accumulator. *)
LEMMA SubmitKeeps ==
  ASSUME Inv, ClosedStays, NEW b \in Builder, NEW j \in Job, SubmitTo(b, j)
  PROVE  JobTypeOK' /\ JobInv' /\ DepInv'
<1> DEFINE a == accumulator[b]
           z == zero[b]
<1>1. /\ a \in Counter /\ a \in 1 .. made /\ a \in Open
      /\ z \in Counter /\ z \in (1 .. made) \ Open
  BY CounterFacts DEF Inv, OrderInv, OwnerInv, SubmitTo, Open
<1>2. /\ status[j] = "idle" /\ status' = [status EXCEPT ![j] = "queued"]
      /\ dep' = [dep EXCEPT ![j] = z] /\ acc' = [acc EXCEPT ![j] = a]
      /\ counter' = [counter EXCEPT ![a] = @ + 1]
      /\ stands' = [stands EXCEPT ![a] = @ \cup {j} \cup stands[z]]
  BY DEF SubmitTo, Submit
<1>3. TypeOK /\ PoolTypeOK /\ acc[j] = NoCounter /\ dep[j] = NoCounter
  BY <1>2 DEF Inv, TypeOK, OrderInv, DepInv
<1>4. JobTypeOK'
  BY <1>1, <1>2, <1>3 DEF JobTypeOK, PoolTypeOK, TypeOK, Status
<1>5. CounterExact'
  <2> SUFFICES ASSUME NEW c \in Counter
               PROVE  counter'[c] = Cardinality(JobsOf(c)' \cap Pending')
    BY DEF CounterExact
  <2>1. counter[c] = Cardinality(JobsOf(c) \cap Pending) /\ c # NoCounter
    BY CounterFacts DEF Inv, OrderInv, CounterExact
  <2>2. CASE c = a
    <3>1. JobsOf(c)' \cap Pending' = (JobsOf(c) \cap Pending) \cup {j}
      BY <1>2, <1>3, <2>2 DEF JobsOf, Pending, PoolTypeOK
    <3>2. j \notin JobsOf(c) \cap Pending
      BY <1>2 DEF Pending
    <3>3. Cardinality(JobsOf(c)' \cap Pending') = Cardinality(JobsOf(c) \cap Pending) + 1
      BY <3>1, <3>2, PendingFinite, FS_AddElement
    <3> QED
      BY <1>1, <1>2, <1>3, <2>1, <2>2, <3>3 DEF PoolTypeOK
  <2>3. CASE c # a
    <3>1. JobsOf(c)' \cap Pending' = JobsOf(c) \cap Pending
      BY <1>2, <1>3, <2>1, <2>3 DEF JobsOf, Pending, PoolTypeOK
    <3> QED
      BY <1>1, <1>2, <1>3, <2>1, <2>3, <3>1 DEF PoolTypeOK
  <2> QED
    BY <2>2, <2>3
<1>6. StartsInOrder'
  <2> SUFFICES ASSUME NEW i \in Job, status'[i] \in {"running", "finished"}
               PROVE  stands'[dep'[i]] \subseteq Finished'
    BY DEF StartsInOrder
  <2>1. i # j /\ status[i] = status'[i] /\ dep'[i] = dep[i]
    BY <1>2, <1>3 DEF PoolTypeOK
  <2>2. dep[i] \in (1 .. made) \ Open
    BY <2>1 DEF Inv, OrderInv, DepInv
  <2>3. stands'[dep[i]] = stands[dep[i]]
    BY <1>1, <1>2, <1>3, <2>2, CounterFacts DEF TypeOK
  <2>4. Finished' = Finished
    BY <1>2, <1>3 DEF Finished, PoolTypeOK
  <2> QED
    BY <2>1, <2>3, <2>4 DEF Inv, OrderInv, StartsInOrder
<1>7. StandsInv'
  <2> SUFFICES ASSUME NEW c \in Counter, NEW k \in stands'[c]
               PROVE  k \in JobsOf(c)' \/ \E i \in JobsOf(c)' : k \in stands'[dep'[i]]
    BY DEF StandsInv
  <2>1. ASSUME NEW i \in JobsOf(c)
        PROVE  i \in JobsOf(c)' /\ stands'[dep'[i]] = stands[dep[i]]
    <3>1. i \in Job /\ acc[i] = c /\ i # j /\ status[i] # "idle"
      BY <1>3, CounterFacts DEF JobsOf, Inv, OrderInv, DepInv
    <3>2. dep[i] \in (1 .. made) \ Open
      BY <3>1 DEF Inv, OrderInv, DepInv
    <3>3. stands'[dep[i]] = stands[dep[i]]
      BY <1>1, <1>2, <1>3, <3>2, CounterFacts DEF TypeOK
    <3> QED
      BY <1>2, <1>3, <3>1, <3>3 DEF JobsOf, PoolTypeOK
  <2>2. CASE k \in stands[c]
    BY <2>1, <2>2 DEF Inv, OrderInv, StandsInv
  <2>3. CASE k \notin stands[c]
    <3>1. c = a /\ k \in {j} \cup stands[z]
      BY <1>1, <1>2, <1>3, <2>3 DEF TypeOK
    <3>2. j \in JobsOf(c)' /\ dep'[j] = z
      BY <1>2, <1>3, <3>1 DEF JobsOf, PoolTypeOK
    <3>3. stands'[z] = stands[z]
      BY <1>1, <1>2, <1>3 DEF TypeOK
    <3> QED
      BY <3>1, <3>2, <3>3
  <2> QED
    BY <2>2, <2>3
<1>8. DepInv'
  BY <1>1, <1>2, <1>3 DEF Inv, OrderInv, DepInv, ClosedStays, PoolTypeOK
<1> QED
  BY <1>4, <1>5, <1>6, <1>7, <1>8 DEF JobInv

(* A worker starts a job: its counter is zero, so what it stands for has finished. *)
LEMMA StartKeeps ==
  ASSUME Inv, ClosedStays, NEW j \in Job, Start(j), stands' = stands
  PROVE  JobTypeOK' /\ JobInv' /\ DepInv'
<1>1. /\ status[j] = "queued" /\ counter[dep[j]] = 0
      /\ status' = [status EXCEPT ![j] = "running"]
      /\ dep' = dep /\ acc' = acc /\ counter' = counter /\ stands' = stands
  BY DEF Start
<1>2. TypeOK /\ PoolTypeOK
  BY DEF Inv, TypeOK
<1>3. JobTypeOK'
  BY <1>1, <1>2 DEF JobTypeOK, PoolTypeOK, TypeOK, Status
<1>4. Pending' = Pending /\ Finished' = Finished
  BY <1>1, <1>2 DEF Pending, Finished, PoolTypeOK
<1>5. CounterExact' /\ StandsInv'
  BY <1>1, <1>4 DEF Inv, OrderInv, CounterExact, StandsInv, JobsOf
<1>6. StartsInOrder'
  <2>1. dep[j] \in Counter
    BY <1>1, <1>2, CounterFacts DEF Inv, OrderInv, DepInv
  <2>2. stands[dep[j]] \subseteq Finished
    BY <1>1, <2>1, ZeroInInv DEF ZeroMeansDone
  <2> QED
    BY <1>1, <1>2, <1>4, <2>2 DEF Inv, OrderInv, StartsInOrder, PoolTypeOK
<1>7. DepInv'
  BY <1>1, <1>2 DEF Inv, OrderInv, DepInv, ClosedStays, PoolTypeOK
<1> QED
  BY <1>3, <1>5, <1>6, <1>7 DEF JobInv

(* A job returns: its counter loses exactly that job. *)
LEMMA FinishKeeps ==
  ASSUME Inv, ClosedStays, NEW j \in Job, Finish(j), stands' = stands
  PROVE  JobTypeOK' /\ JobInv' /\ DepInv'
<1> DEFINE a == acc[j]
<1>1. /\ status[j] = "running" /\ status' = [status EXCEPT ![j] = "finished"]
      /\ counter' = [counter EXCEPT ![a] = @ - 1]
      /\ dep' = dep /\ acc' = acc /\ stands' = stands
  BY DEF Finish
<1>2. TypeOK /\ PoolTypeOK
  BY DEF Inv, TypeOK
<1>3. a \in Counter
  BY <1>1, <1>2, CounterFacts DEF Inv, OrderInv, DepInv
<1>4. ASSUME NEW c \in Counter, c # a
      PROVE  JobsOf(c)' \cap Pending' = JobsOf(c) \cap Pending
  BY <1>1, <1>2, <1>4 DEF JobsOf, Pending, PoolTypeOK
<1>5. /\ JobsOf(a) \cap Pending = (JobsOf(a)' \cap Pending') \cup {j}
      /\ j \notin JobsOf(a)' \cap Pending'
  BY <1>1, <1>2 DEF JobsOf, Pending, PoolTypeOK
<1>6. IsFiniteSet(JobsOf(a)' \cap Pending')
  BY <1>5, PendingFinite, FS_Subset
<1>7. /\ Cardinality(JobsOf(a) \cap Pending) = Cardinality(JobsOf(a)' \cap Pending') + 1
      /\ Cardinality(JobsOf(a)' \cap Pending') \in Nat
  BY <1>5, <1>6, FS_AddElement, FS_CardinalityType
<1>8. counter'[a] = Cardinality(JobsOf(a)' \cap Pending')
  BY <1>1, <1>2, <1>3, <1>7 DEF Inv, OrderInv, CounterExact, PoolTypeOK
<1>9. CounterExact'
  <2> SUFFICES ASSUME NEW c \in Counter
               PROVE  counter'[c] = Cardinality(JobsOf(c)' \cap Pending')
    BY DEF CounterExact
  <2>1. CASE c = a
    BY <1>1, <1>8, <2>1 DEF JobsOf
  <2>2. CASE c # a
    BY <1>1, <1>2, <1>4, <2>2 DEF Inv, OrderInv, CounterExact, PoolTypeOK
  <2> QED
    BY <2>1, <2>2
<1>10. JobTypeOK'
  <2>1. counter'[a] \in Nat
    BY <1>7, <1>8
  <2> QED
    BY <1>1, <1>2, <1>3, <2>1 DEF JobTypeOK, PoolTypeOK, TypeOK, Status
<1>11. Finished \subseteq Finished' /\ j \in Finished'
  BY <1>1, <1>2 DEF Finished, PoolTypeOK
<1>12. StartsInOrder'
  BY <1>1, <1>2, <1>11 DEF Inv, OrderInv, StartsInOrder, PoolTypeOK
<1>13. StandsInv'
  BY <1>1 DEF Inv, OrderInv, StandsInv, JobsOf
<1>14. DepInv'
  BY <1>1, <1>2 DEF Inv, OrderInv, DepInv, ClosedStays, PoolTypeOK
<1> QED
  BY <1>9, <1>10, <1>12, <1>13, <1>14 DEF JobInv

-----------------------------------------------------------------------------
(* No step breaks the invariant, and no step reopens a closed counter. *)
LEMMA StepKeeps == Inv /\ [Next]_vars => Inv' /\ ClosedStays
<1> SUFFICES ASSUME Inv, [Next]_vars PROVE Inv' /\ ClosedStays
  OBVIOUS
<1> USE DEF poolVars
<1>0. BuilderTypeOK' /\ JobTypeOK' /\ JobInv' /\ OwnerInv' /\ DepInv' => Inv'
  BY DEF BuilderTypeOK, JobTypeOK, JobInv, Inv, TypeOK, OrderInv
<1>1. CASE UNCHANGED vars
  BY <1>1, IdleKeeps, QuietKeeps, <1>0 DEF vars
<1>2. ASSUME NEW b \in Builder, New(b) PROVE Inv' /\ ClosedStays
  BY <1>2, NewKeeps, QuietKeeps, <1>0 DEF New
<1>3. ASSUME NEW b \in Builder, DispatchWait(b) PROVE Inv' /\ ClosedStays
  <2>1. OwnerInv' /\ ClosedStays /\ BuilderTypeOK'
    BY <1>3, OpenGroupKeeps DEF DispatchWait, ExplicitFence
  <2> QED
    BY <1>3, <2>1, QuietKeeps, <1>0 DEF DispatchWait
<1>4. ASSUME NEW b \in Builder, NEW x \in Builder, DispatchWaitOn(b, x)
      PROVE  Inv' /\ ClosedStays
  <2>1. zero[x] \in (1 .. made) \ Open
    BY <1>4 DEF DispatchWaitOn, Inv, OrderInv, OwnerInv
  <2>2. OwnerInv' /\ ClosedStays /\ BuilderTypeOK'
    BY <1>4, <2>1, OpenGroupKeeps DEF DispatchWaitOn
  <2> QED
    BY <1>4, <2>2, QuietKeeps, <1>0 DEF DispatchWaitOn
<1>5. ASSUME NEW b \in Builder, WaitAll(b) \/ WaitAllReturn(b) \/ ExtractCounter(b)
      PROVE  Inv' /\ ClosedStays
  <2>1. OwnerInv' /\ ClosedStays /\ BuilderTypeOK'
    BY <1>5, PhaseKeeps DEF WaitAll, WaitAllReturn, ExtractCounter, Phase
  <2> QED
    BY <1>5, <2>1, QuietKeeps, <1>0 DEF WaitAll, WaitAllReturn, ExtractCounter
<1>6. ASSUME NEW b \in Builder, NEW j \in Job, DispatchNow(b, j) PROVE Inv' /\ ClosedStays
  BY <1>6, IdleKeeps, SubmitKeeps, <1>0 DEF DispatchNow
<1>7. ASSUME NEW b \in Builder, NEW j \in Job, Dispatch(b, j) PROVE Inv' /\ ClosedStays
  <2>1. OwnerInv' /\ ClosedStays /\ BuilderTypeOK'
    BY <1>7, OpenGroupKeeps DEF Dispatch, SubmitTo, ExplicitFence
  <2> QED
    BY <1>7, <2>1, SubmitKeeps, <1>0 DEF Dispatch
<1>8. ASSUME Work PROVE Inv' /\ ClosedStays
  <2>1. PICK j \in Job : Start(j) \/ Finish(j)
    BY <1>8 DEF Work, PoolStep
  <2>2. OwnerInv' /\ ClosedStays /\ BuilderTypeOK' /\ stands' = stands
    BY <1>8, IdleKeeps DEF Work
  <2> QED
    BY <2>1, <2>2, StartKeeps, FinishKeeps, <1>0
<1> QED
  BY <1>1, <1>2, <1>3, <1>4, <1>5, <1>6, <1>7, <1>8 DEF Next

(* No counter, no job: the invariant holds at first. *)
LEMMA InitInv == Init => Inv
<1> SUFFICES ASSUME Init PROVE Inv
  OBVIOUS
<1> USE DEF Init, PoolInit
<1>1. TypeOK
  BY BuilderAssumption DEF TypeOK, PoolTypeOK, Phase, Status
<1>2. CounterExact
  <2>1. Pending = {}
    BY DEF Pending
  <2> QED
    BY <2>1, FS_EmptySet DEF CounterExact
<1> QED
  BY <1>1, <1>2 DEF Inv, OrderInv, StartsInOrder, OwnerInv, DepInv, StandsInv

(***************************************************************************)
(* Type correctness and the ordering invariant hold in every state.        *)
(***************************************************************************)
THEOREM BuilderInv == Spec => [](TypeOK /\ OrderInv)
<1>1. Init => Inv
  BY InitInv
<1>2. Inv /\ [Next]_vars => Inv'
  BY StepKeeps
<1>3. Inv => TypeOK /\ OrderInv
  BY DEF Inv
<1> QED
  BY <1>1, <1>2, <1>3, PTL DEF Spec

(***************************************************************************)
(* A counter at zero stands for finished jobs, in every state: what a      *)
(* return of WaitAll (JobSystem.cpp:61) and the start of a job rely on.    *)
(***************************************************************************)
THEOREM ZeroIsDone == Spec => []ZeroMeansDone
<1>1. TypeOK /\ OrderInv => ZeroMeansDone
  BY ZeroInInv DEF Inv
<1> QED
  BY <1>1, BuilderInv, PTL

(***************************************************************************)
(* A closed counter only falls: a zero read from it stays zero.            *)
(***************************************************************************)
THEOREM ClosedCountersFall == Spec => ClosedOnlyFalls
<1>1. TypeOK /\ OrderInv /\ [Next]_vars =>
        [\A c \in (1 .. made) \ Open : counter'[c] <= counter[c] /\ c \notin Open']_vars
  <2> SUFFICES ASSUME Inv, Next, NEW c \in (1 .. made) \ Open
               PROVE  counter'[c] <= counter[c] /\ c \notin Open'
    BY DEF Inv
  <2>1. c \notin Open'
    BY StepKeeps DEF ClosedStays
  <2>2. counter \in [Counter -> Nat] /\ c \in Counter
    BY CounterFacts DEF Inv, TypeOK, PoolTypeOK
  <2>3. ASSUME counter' = counter PROVE counter'[c] <= counter[c]
    BY <2>2, <2>3
  <2>4. ASSUME NEW b \in Builder, NEW j \in Job, SubmitTo(b, j)
        PROVE  counter'[c] = counter[c]
    <3>1. accumulator[b] \in Open /\ counter' = [counter EXCEPT ![accumulator[b]] = @ + 1]
      BY <2>4 DEF SubmitTo, Submit, Open
    <3> QED
      BY <2>2, <3>1
  <2>5. ASSUME NEW j \in Job, Finish(j) PROVE counter'[c] <= counter[c]
    BY <2>2, <2>5 DEF Finish
  <2>6. \/ counter' = counter
        \/ \E b \in Builder, j \in Job : SubmitTo(b, j)
        \/ \E j \in Job : Finish(j)
    BY DEF Next, New, DispatchWait, DispatchWaitOn, WaitAll, WaitAllReturn, ExtractCounter,
           DispatchNow, Dispatch, Work, PoolStep, Start, poolVars
  <2>7. counter'[c] <= counter[c]
    BY <2>2, <2>3, <2>4, <2>5, <2>6
  <2> QED
    BY <2>1, <2>7
<1> QED
  BY <1>1, BuilderInv, PTL DEF Spec, ClosedOnlyFalls

(***************************************************************************)
(* Jobs run in the order their builder gave, across fences and chains of   *)
(* builders: a job that has started finds all it had to wait for finished. *)
(***************************************************************************)
THEOREM JobsInOrder == Spec => []StartsInOrder
<1>1. TypeOK /\ OrderInv => StartsInOrder
  BY DEF OrderInv
<1> QED
  BY <1>1, BuilderInv, PTL

-----------------------------------------------------------------------------
(***************************************************************************)
(* The chain of groups never waits for itself.  The counters are numbered  *)
(* in the order they are made, and a job waits for an older counter than   *)
(* the one it decrements, or for one that no job will ever raise: so among *)
(* the jobs that are left, one with the oldest accumulator can move.       *)
(***************************************************************************)
Behind(c, a) == c < a \/ JobsOf(c) = {}

RankInv ==
  /\ \A b \in Builder : phase[b] # "none" => Behind(zero[b], accumulator[b])
  /\ \A j \in Job : status[j] # "idle" => Behind(dep[j], acc[j])

CanRun(j) ==
  \/ status[j] = "running"
  \/ status[j] = "queued" /\ counter[dep[j]] = 0

NeverStuck ==
  /\ Pending # {} => \E j \in Job : CanRun(j)
  /\ \A b \in Builder :
       phase[b] = "waiting" => counter[zero[b]] = 0 \/ \E j \in Job : CanRun(j)

(* No job joins a group that a fence has closed. *)
LEMMA ClosedJobs ==
  ASSUME Inv, [Next]_vars, NEW c \in (1 .. made) \ Open
  PROVE  JobsOf(c)' = JobsOf(c)
<1>1. acc \in [Job -> Counter \cup {NoCounter}] /\ c # NoCounter
  BY CounterFacts DEF Inv, TypeOK, PoolTypeOK
<1>2. ASSUME NEW b \in Builder, NEW j \in Job, SubmitTo(b, j) PROVE JobsOf(c)' = JobsOf(c)
  <2>1. /\ accumulator[b] \in Open /\ acc' = [acc EXCEPT ![j] = accumulator[b]]
        /\ acc[j] = NoCounter
    BY <1>2 DEF SubmitTo, Submit, Open, Inv, OrderInv, DepInv
  <2> QED
    BY <1>1, <2>1 DEF JobsOf
<1>3. \/ acc' = acc
      \/ \E b \in Builder, j \in Job : SubmitTo(b, j)
  BY DEF Next, New, DispatchWait, DispatchWaitOn, WaitAll, WaitAllReturn, ExtractCounter,
         DispatchNow, Dispatch, Work, PoolStep, Start, Finish, poolVars, vars
<1> QED
  BY <1>2, <1>3 DEF JobsOf

(* A counter that has not been made counts nothing. *)
LEMMA UnmadeJobs ==
  ASSUME Inv, NEW c \in Counter, c > made PROVE JobsOf(c) = {}
<1>1. made \in Nat /\ c \in Nat /\ c # NoCounter /\ c \notin 1 .. made
  BY CounterFacts DEF Inv
<1> QED
  BY <1>1 DEF JobsOf, Inv, OrderInv, DepInv

LEMMA RankStep ==
  ASSUME Inv, RankInv, [Next]_vars
  PROVE  RankInv'
<1>1. /\ made \in Nat /\ MaxCounter \in Nat /\ Counter = 1 .. MaxCounter
      /\ acc \in [Job -> Counter \cup {NoCounter}] /\ dep \in [Job -> Counter \cup {NoCounter}]
      /\ accumulator \in [Builder -> Counter \cup {NoCounter}]
      /\ zero \in [Builder -> Counter \cup {NoCounter}]
      /\ phase \in [Builder -> Phase] /\ status \in [Job -> Status]
  BY CounterFacts DEF Inv, TypeOK, PoolTypeOK
<1>2. /\ \A b \in Builder : phase[b] # "none" =>
           accumulator[b] \in 1 .. made /\ zero[b] \in (1 .. made) \ Open
      /\ \A j \in Job : status[j] # "idle" => dep[j] \in (1 .. made) \ Open
  BY DEF Inv, OrderInv, OwnerInv, DepInv
<1>3. \A c \in (1 .. made) \ Open : \A a : Behind(c, a) <=> Behind(c, a)'
  BY ClosedJobs DEF Behind
<1>4. ASSUME UNCHANGED <<accumulator, zero>>,
             \A b \in Builder : phase'[b] # "none" => phase[b] # "none"
      PROVE  \A b \in Builder : phase'[b] # "none" => Behind(zero[b], accumulator[b])'
  BY <1>2, <1>3, <1>4 DEF RankInv, Behind
<1>5. ASSUME UNCHANGED <<dep, acc>>,
             \A j \in Job : status'[j] # "idle" => status[j] # "idle"
      PROVE  \A j \in Job : status'[j] # "idle" => Behind(dep[j], acc[j])'
  BY <1>2, <1>3, <1>5 DEF RankInv, Behind
<1>6. ASSUME NEW b \in Builder, NEW j \in Job, SubmitTo(b, j)
      PROVE  \A i \in Job : status'[i] # "idle" => Behind(dep[i], acc[i])'
  <2>1. /\ phase[b] # "none"
        /\ status' = [status EXCEPT ![j] = "queued"]
        /\ dep' = [dep EXCEPT ![j] = zero[b]] /\ acc' = [acc EXCEPT ![j] = accumulator[b]]
    BY <1>6 DEF SubmitTo, Submit
  <2>2. zero[b] \in (1 .. made) \ Open /\ Behind(zero[b], accumulator[b])
    BY <1>2, <2>1 DEF RankInv
  <2> SUFFICES ASSUME NEW i \in Job, status'[i] # "idle" PROVE Behind(dep[i], acc[i])'
    OBVIOUS
  <2>3. CASE i = j
    <3>1. dep'[i] = zero[b] /\ acc'[i] = accumulator[b]
      BY <1>1, <2>1, <2>3
    <3> QED
      BY <1>3, <2>2, <3>1 DEF Behind
  <2>4. CASE i # j
    <3>1. dep'[i] = dep[i] /\ acc'[i] = acc[i] /\ status[i] # "idle"
      BY <1>1, <2>1, <2>4
    <3> QED
      BY <1>2, <1>3, <3>1 DEF RankInv, Behind
  <2> QED
    BY <2>3, <2>4
<1>7. ASSUME NEW b \in Builder, NEW c \in 1 .. made, OpenGroup(b, c), UNCHANGED phase
      PROVE  \A x \in Builder : phase'[x] # "none" => Behind(zero[x], accumulator[x])'
  <2>1. /\ zero' = [zero EXCEPT ![b] = c] /\ accumulator' = [accumulator EXCEPT ![b] = made + 1]
        /\ phase' = phase
    BY <1>7 DEF OpenGroup
  <2> SUFFICES ASSUME NEW x \in Builder, phase'[x] # "none"
               PROVE  Behind(zero[x], accumulator[x])'
    OBVIOUS
  <2>2. CASE x = b
    <3>1. zero'[x] = c /\ accumulator'[x] = made + 1 /\ c < made + 1
      BY <1>1, <2>1, <2>2
    <3> QED
      BY <3>1 DEF Behind
  <2>3. CASE x # b
    <3>1. zero'[x] = zero[x] /\ accumulator'[x] = accumulator[x] /\ phase[x] # "none"
      BY <1>1, <2>1, <2>3
    <3> QED
      BY <1>2, <1>3, <3>1 DEF RankInv, Behind
  <2> QED
    BY <2>2, <2>3
<1>8. ASSUME NEW b \in Builder, New(b) PROVE RankInv'
  <2>1. /\ zero' = [zero EXCEPT ![b] = made + 2]
        /\ accumulator' = [accumulator EXCEPT ![b] = made + 1]
        /\ phase' = [phase EXCEPT ![b] = "open"]
    BY <1>8 DEF New
  <2>2. UNCHANGED poolVars /\ acc' = acc
    BY <1>8 DEF New, poolVars
  <2>3. \A j \in Job : status'[j] # "idle" => Behind(dep[j], acc[j])'
    BY <1>5, <2>2 DEF poolVars
  <2>4. \A j \in Job : acc[j] # made + 2
    <3>1. made + 2 \in Counter /\ made + 2 > made
      BY <1>1, <1>8 DEF New
    <3>2. JobsOf(made + 2) = {}
      BY <3>1, UnmadeJobs
    <3> QED
      BY <3>2 DEF JobsOf
  <2>5. ASSUME NEW x \in Builder, phase'[x] # "none" PROVE Behind(zero[x], accumulator[x])'
    <3>1. CASE x = b
      <4>1. zero'[x] = made + 2
        BY <1>1, <2>1, <3>1
      <4> QED
        BY <2>2, <2>4, <4>1 DEF Behind, JobsOf
    <3>2. CASE x # b
      <4>1. zero'[x] = zero[x] /\ accumulator'[x] = accumulator[x]
        BY <1>1, <2>1, <3>2
      <4>2. phase[x] # "none"
        BY <1>1, <2>1, <2>5, <3>2
      <4> QED
        BY <1>2, <1>3, <4>1, <4>2 DEF RankInv, Behind
    <3> QED
      BY <3>1, <3>2
  <2> QED
    BY <2>3, <2>5 DEF RankInv, Behind, JobsOf
<1> DEFINE BuilderRank == \A b \in Builder : phase[b] # "none" => Behind(zero[b], accumulator[b])
           JobRank == \A j \in Job : status[j] # "idle" => Behind(dep[j], acc[j])
<1>9. BuilderRank' /\ JobRank' => RankInv'
  BY DEF RankInv, Behind, JobsOf
<1>10. CASE UNCHANGED vars
  BY <1>4, <1>5, <1>9, <1>10 DEF vars, poolVars, builderVars
<1>11. ASSUME NEW b \in Builder, DispatchWait(b) PROVE RankInv'
  <2>1. accumulator[b] \in 1 .. made
    BY <1>2, <1>11 DEF DispatchWait
  <2> QED
    BY <1>5, <1>7, <1>9, <1>11, <2>1 DEF DispatchWait, ExplicitFence, poolVars
<1>12. ASSUME NEW b \in Builder, NEW x \in Builder, DispatchWaitOn(b, x) PROVE RankInv'
  <2>1. zero[x] \in 1 .. made
    BY <1>2, <1>12 DEF DispatchWaitOn
  <2> QED
    BY <1>5, <1>7, <1>9, <1>12, <2>1 DEF DispatchWaitOn, poolVars
<1>13. ASSUME NEW b \in Builder, WaitAll(b) \/ WaitAllReturn(b) \/ ExtractCounter(b)
       PROVE  RankInv'
  <2>1. /\ UNCHANGED <<accumulator, zero, poolVars>>
        /\ phase[b] # "none" /\ \E p : phase' = [phase EXCEPT ![b] = p]
    BY <1>13 DEF WaitAll, WaitAllReturn, ExtractCounter
  <2>2. \A x \in Builder : phase'[x] # "none" => phase[x] # "none"
    BY <1>1, <2>1
  <2> QED
    BY <1>4, <1>5, <1>9, <2>1, <2>2 DEF poolVars
<1>14. ASSUME NEW b \in Builder, NEW j \in Job, DispatchNow(b, j) PROVE RankInv'
  BY <1>4, <1>6, <1>9, <1>14 DEF DispatchNow, builderVars
<1>15. ASSUME NEW b \in Builder, NEW j \in Job, Dispatch(b, j) PROVE RankInv'
  <2>1. accumulator[b] \in 1 .. made
    BY <1>2, <1>15 DEF Dispatch, SubmitTo
  <2> QED
    BY <1>6, <1>7, <1>9, <1>15, <2>1 DEF Dispatch, ExplicitFence
<1>16. ASSUME Work PROVE RankInv'
  <2>1. UNCHANGED <<accumulator, zero, phase, dep, acc>>
    BY <1>16 DEF Work, PoolStep, Start, Finish, builderVars
  <2>2. \A j \in Job : status'[j] # "idle" => status[j] # "idle"
    BY <1>1, <1>16 DEF Work, PoolStep, Start, Finish
  <2> QED
    BY <1>4, <1>5, <1>9, <2>1, <2>2
<1> QED
  BY <1>8, <1>10, <1>11, <1>12, <1>13, <1>14, <1>15, <1>16 DEF Next

(* A set of numbers that is not empty has a least element. *)
NatLess == {p \in Nat \X Nat : p[1] < p[2]}

LEMMA LeastNumber ==
  ASSUME NEW S \in SUBSET Nat, S # {}
  PROVE  \E m \in S : \A n \in S : ~(n < m)
<1>1. IsWellFoundedOn(NatLess, Nat)
  BY NatLessThanWellFounded DEF NatLess, OpToRel
<1>2. PICK m \in S : \A n \in S : ~(<<n, m>> \in NatLess)
  BY <1>1, WFMin
<1>3. ASSUME NEW n \in S, n < m PROVE FALSE
  <2>1. <<n, m>> \in NatLess
    BY <1>3 DEF NatLess
  <2> QED
    BY <1>2, <2>1
<1> QED
  BY <1>3

(* Among the jobs that are left, one whose accumulator is the oldest can move. *)
LEMMA OldestCanRun ==
  ASSUME Inv, RankInv, Pending # {}
  PROVE  \E j \in Job : CanRun(j)
<1> DEFINE Ages == {acc[j] : j \in Pending}
<1>1. \A j \in Pending : /\ j \in Job /\ status[j] \in {"queued", "running"}
                        /\ acc[j] \in Nat /\ dep[j] \in Counter /\ dep[j] \in Nat
  <2> SUFFICES ASSUME NEW j \in Pending
               PROVE  /\ j \in Job /\ status[j] \in {"queued", "running"}
                      /\ acc[j] \in Nat /\ dep[j] \in Counter /\ dep[j] \in Nat
    OBVIOUS
  <2>1. j \in Job /\ status[j] \in {"queued", "running"}
    BY DEF Pending
  <2>2. acc[j] \in 1 .. made /\ dep[j] \in 1 .. made
    BY <2>1 DEF Inv, OrderInv, DepInv
  <2>3. made \in Nat /\ 1 .. made \subseteq Counter
    BY CounterFacts DEF Inv
  <2> QED
    BY <2>1, <2>2, <2>3
<1>2. PICK age \in Ages : \A x \in Ages : ~(x < age)
  <2>1. Ages \in SUBSET Nat /\ Ages # {}
    BY <1>1
  <2> HIDE DEF Ages
  <2> QED
    BY <2>1, LeastNumber
<1>3. PICK j \in Pending : acc[j] = age
  OBVIOUS
<1>4. \A i \in Pending : ~(acc[i] < acc[j])
  BY <1>2, <1>3
<1>5. CASE status[j] = "running"
  BY <1>1, <1>3, <1>5 DEF CanRun
<1>6. CASE status[j] = "queued"
  <2>1. counter[dep[j]] = Cardinality(JobsOf(dep[j]) \cap Pending)
    BY <1>1, <1>3 DEF Inv, OrderInv, CounterExact
  <2>2. JobsOf(dep[j]) \cap Pending = {}
    <3> SUFFICES ASSUME NEW i \in JobsOf(dep[j]) \cap Pending PROVE FALSE
      OBVIOUS
    <3>1. acc[i] = dep[j] /\ i \in Pending
      BY DEF JobsOf
    <3>2. dep[j] < acc[j]
      BY <1>1, <1>3, <1>6 DEF RankInv, Behind
    <3> QED
      BY <1>4, <3>1, <3>2
  <2>3. counter[dep[j]] = 0
    BY <2>1, <2>2, FS_EmptySet
  <2> QED
    BY <1>1, <1>3, <1>6, <2>3 DEF CanRun
<1> QED
  BY <1>1, <1>3, <1>5, <1>6

(* A counter that is not zero has a job to wait for. *)
LEMMA SomeoneCounted ==
  ASSUME Inv, NEW c \in Counter, counter[c] # 0 PROVE Pending # {}
<1>1. counter[c] = Cardinality(JobsOf(c) \cap Pending)
  BY DEF Inv, OrderInv, CounterExact
<1>2. JobsOf(c) \cap Pending # {}
  BY <1>1, FS_EmptySet
<1> QED
  BY <1>2

(***************************************************************************)
(* Nothing waits in a circle, for every number of builders, jobs and       *)
(* fences: while a job is left, one is running or can start, and a WaitAll *)
(* (JobSystem.cpp:61) spins only while that is so.  With the fairness of   *)
(* the pool this is why every job runs and every WaitAll returns.          *)
(***************************************************************************)
THEOREM NoCircularWait == Spec => []NeverStuck
<1>1. Init => RankInv
  BY DEF Init, PoolInit, RankInv
<1>2. TypeOK /\ OrderInv /\ RankInv /\ [Next]_vars => RankInv'
  BY RankStep DEF Inv
<1>3. TypeOK /\ OrderInv /\ RankInv => NeverStuck
  <2> SUFFICES ASSUME Inv, RankInv PROVE NeverStuck
    BY DEF Inv
  <2>1. Pending # {} => \E j \in Job : CanRun(j)
    BY OldestCanRun
  <2>2. ASSUME NEW b \in Builder, phase[b] = "waiting", counter[zero[b]] # 0
        PROVE  Pending # {}
    <3>1. zero[b] \in Counter
      BY <2>2, CounterFacts DEF Inv, OrderInv, OwnerInv
    <3> QED
      BY <2>2, <3>1, SomeoneCounted
  <2> QED
    BY <2>1, <2>2 DEF NeverStuck
<1> QED
  BY <1>1, <1>2, <1>3, BuilderInv, PTL DEF Spec
=============================================================================
