------------------------ MODULE ResourceRegistryProofs ------------------------
(***************************************************************************)
(* Proofs about ResourceRegistry, for every set of assets and callers.     *)
(* The invariant gives each asset at most one caller responsible for its   *)
(* load: the one that set _meshLoads under the lock, and whose job then    *)
(* publishes the resources before it sets _meshLoaded.                     *)
(***************************************************************************)
EXTENDS ResourceRegistry, TLAPS

Inv == TypeOK /\ RegistryInv
AssetInv == DutyInv /\ ProgressInv /\ LoadedInv

(* Each asset is a mesh or a texture. *)
LEMMA KindFacts ==
  \A h \in Asset : KindOf(h) \in Kind
BY DEF KindOf, Kind

(* A step that moves no flag, no resource and no job keeps what is said of assets. *)
LEMMA QuietKeeps ==
  ASSUME AssetInv, UNCHANGED <<loads, loaded, published, job>>,
         \A h \in Asset, c \in Caller : Dispatching(h, c)' <=> Dispatching(h, c)
  PROVE  AssetInv'
<1>1. \A h \in Asset, c \in Caller : Responsible(h, c)' <=> Responsible(h, c)
  BY DEF Responsible
<1>2. ASSUME NEW h \in Asset, NEW c \in Caller PROVE Duty(h, c)' /\ Progress(h, c)'
  <2>1. Duty(h, c) /\ Progress(h, c)
    BY DEF AssetInv, DutyInv, ProgressInv
  <2>2. Duty(h, c)'
    BY <1>1, <2>1 DEF Duty
  <2>3. Progress(h, c)'
    BY <1>1, <2>1 DEF Progress
  <2> QED
    BY <2>2, <2>3
<1>3. LoadedInv'
  BY DEF AssetInv, LoadedInv
<1> QED
  BY <1>2, <1>3 DEF AssetInv, DutyInv, ProgressInv

(* A caller asks, tests a flag, takes the lock or gives it back. *)
LEMMA TestKeeps ==
  ASSUME Inv, NEW c \in Caller,
         \/ \E h \in Asset : Call(c, h)
         \/ TestLoaded(c) \/ TestLoads(c) \/ Drop(c) \/ AcquireLock(c) \/ FoundInitiated(c)
  PROVE  Inv'
<1> USE DEF Goto
<1>1. /\ pc \in [Caller -> PC] /\ want \in [Caller -> Asset] /\ Free \notin Caller
      /\ lock \in [Kind -> Caller \cup {Free}]
  BY RegistryAssumption DEF Inv, TypeOK
<1>2. /\ UNCHANGED <<loads, loaded, published, job>>
      /\ \A d \in Caller : d # c => pc'[d] = pc[d] /\ want'[d] = want[d]
      /\ pc[c] # "dispatch" /\ pc'[c] # "dispatch"
      /\ pc' \in [Caller -> PC] /\ want' \in [Caller -> Asset]
  BY <1>1 DEF Call, TestLoaded, TestLoads, Drop, AcquireLock, FoundInitiated, PC
<1>3. AssetInv'
  <2>1. \A h \in Asset, d \in Caller : Dispatching(h, d)' <=> Dispatching(h, d)
    BY <1>2 DEF Dispatching
  <2> QED
    BY <1>2, <2>1, QuietKeeps DEF Inv, RegistryInv, AssetInv
<1>4. pc'[c] = "using" => loaded[want[c]] /\ want'[c] = want[c]
  BY <1>1 DEF Call, TestLoaded, TestLoads, Drop, AcquireLock, FoundInitiated
<1>5. UsingInv'
  BY <1>2, <1>4 DEF Inv, RegistryInv, UsingInv
<1>6. LockInv' /\ lock' \in [Kind -> Caller \cup {Free}]
  <2>0. LockInv
    BY DEF Inv, RegistryInv
  <2>1. CASE AcquireLock(c)
    <3>1. /\ lock[KindOf(want[c])] = Free /\ lock' = [lock EXCEPT ![KindOf(want[c])] = c]
          /\ want' = want /\ KindOf(want[c]) \in Kind
      BY <1>1, <2>1, KindFacts DEF AcquireLock
    <3>2. ASSUME NEW d \in Caller, d # c, pc'[d] \in {"held", "dispatch"}
          PROVE  lock'[KindOf(want[d])] = d
      <4>1. lock[KindOf(want[d])] = d
        BY <1>2, <2>0, <3>2 DEF LockInv
      <4> QED
        BY <1>1, <3>1, <4>1, KindFacts
    <3> QED
      BY <1>1, <3>1, <3>2 DEF LockInv
  <2>2. CASE FoundInitiated(c)
    <3>1. /\ lock[KindOf(want[c])] = c /\ lock' = [lock EXCEPT ![KindOf(want[c])] = Free]
          /\ want' = want /\ KindOf(want[c]) \in Kind /\ pc'[c] = "idle"
      BY <1>1, <2>0, <2>2, KindFacts DEF FoundInitiated, LockInv
    <3>2. ASSUME NEW d \in Caller, d # c, pc'[d] \in {"held", "dispatch"}
          PROVE  lock'[KindOf(want[d])] = d
      <4>1. lock[KindOf(want[d])] = d
        BY <1>2, <2>0, <3>2 DEF LockInv
      <4> QED
        BY <1>1, <3>1, <3>2, <4>1, KindFacts
    <3> QED
      BY <1>1, <3>1, <3>2 DEF LockInv
  <2>3. CASE ~AcquireLock(c) /\ ~FoundInitiated(c)
    <3>1. lock' = lock /\ pc'[c] \notin {"held", "dispatch"}
      BY <1>1, <2>3 DEF Call, TestLoaded, TestLoads, Drop
    <3> QED
      BY <1>1, <1>2, <2>0, <3>1 DEF LockInv
  <2> QED
    BY <2>1, <2>2, <2>3
<1> QED
  BY <1>2, <1>3, <1>5, <1>6 DEF Inv, TypeOK, RegistryInv, AssetInv

(* Under the lock, a caller becomes the one responsible. *)
LEMMA InitiateKeeps ==
  ASSUME Inv, NEW c \in Caller, Initiate(c)
  PROVE  Inv'
<1> DEFINE h == want[c]
<1>1. TypeOK /\ LockInv /\ AssetInv /\ UsingInv /\ h \in Asset
  BY DEF Inv, RegistryInv, AssetInv, TypeOK
<1>2. /\ pc[c] = "held" /\ ~loads[h]
      /\ loads' = [loads EXCEPT ![h] = TRUE] /\ pc' = [pc EXCEPT ![c] = "dispatch"]
      /\ UNCHANGED <<loaded, published, lock, want, job>>
  BY DEF Initiate, Goto
<1>3. \A d \in Caller : ~Responsible(h, d) /\ job[<<h, d>>] = "none"
  BY <1>1, <1>2 DEF AssetInv, DutyInv, Duty, Responsible
<1>4. \A g \in Asset, d \in Caller :
        /\ Dispatching(g, d)' <=> Dispatching(g, d) \/ (g = h /\ d = c)
        /\ Responsible(g, d)' <=> Responsible(g, d) \/ (g = h /\ d = c)
  BY <1>1, <1>2 DEF Responsible, Dispatching, TypeOK
<1>5. TypeOK' /\ LockInv' /\ UsingInv'
  BY <1>1, <1>2 DEF TypeOK, LockInv, UsingInv, PC
<1>6. published[h] = {} /\ ~loaded[h]
  BY <1>1, <1>2, <1>3 DEF AssetInv, LoadedInv
<1>7. ASSUME NEW g \in Asset, NEW d \in Caller PROVE Duty(g, d)' /\ Progress(g, d)'
  <2>1. Duty(g, d) /\ Progress(g, d)
    BY <1>1 DEF AssetInv, DutyInv, ProgressInv
  <2>2. CASE g = h
    BY <1>1, <1>2, <1>3, <1>4, <1>6, <2>2 DEF Duty, Progress, TypeOK
  <2>3. CASE g # h
    BY <1>1, <1>2, <1>4, <2>1, <2>3 DEF Duty, Progress, TypeOK
  <2> QED
    BY <2>2, <2>3
<1>8. LoadedInv'
  BY <1>1, <1>2 DEF AssetInv, LoadedInv, TypeOK
<1> QED
  BY <1>5, <1>7, <1>8 DEF Inv, RegistryInv, DutyInv, ProgressInv

(* It dispatches the job and gives the lock back; it stays responsible. *)
LEMMA DispatchKeeps ==
  ASSUME Inv, NEW c \in Caller, Dispatch(c)
  PROVE  Inv'
<1> DEFINE h == want[c]
<1>1. TypeOK /\ LockInv /\ AssetInv /\ UsingInv /\ h \in Asset /\ Free \notin Caller
  BY RegistryAssumption DEF Inv, RegistryInv, AssetInv, TypeOK
<1>2. /\ pc[c] = "dispatch"
      /\ job' = [job EXCEPT ![<<h, c>>] = "queued"] /\ pc' = [pc EXCEPT ![c] = "idle"]
      /\ lock' = [lock EXCEPT ![KindOf(h)] = Free]
      /\ UNCHANGED <<loads, loaded, published, want>>
  BY DEF Dispatch, Goto
<1>3. Dispatching(h, c) /\ Responsible(h, c) /\ job[<<h, c>>] = "none"
  BY <1>1, <1>2 DEF AssetInv, DutyInv, Duty, Dispatching, Responsible
<1>4. /\ \A g \in Asset, d \in Caller :
           job'[<<g, d>>] = IF g = h /\ d = c THEN "queued" ELSE job[<<g, d>>]
      /\ \A g \in Asset, d \in Caller :
           Dispatching(g, d)' <=> Dispatching(g, d) /\ d # c
  BY <1>1, <1>2 DEF TypeOK, Dispatching
<1>5. ASSUME NEW g \in Asset, NEW d \in Caller PROVE Responsible(g, d)' <=> Responsible(g, d)
  <2>1. CASE g = h /\ d = c
    BY <1>1, <1>3, <1>4, <2>1 DEF Responsible
  <2>2. CASE g # h /\ d = c
    <3>1. ~Dispatching(g, d) /\ ~Dispatching(g, d)' /\ job'[<<g, d>>] = job[<<g, d>>]
      BY <1>4, <2>2 DEF Dispatching
    <3> QED
      BY <3>1 DEF Responsible
  <2>3. CASE d # c
    BY <1>4, <2>3 DEF Responsible
  <2> QED
    BY <2>1, <2>2, <2>3
<1>6. TypeOK'
  BY <1>1, <1>2, KindFacts DEF TypeOK, PC, JobState
<1>7. LockInv' /\ UsingInv'
  <2>1. ASSUME NEW d \in Caller, pc'[d] \in {"held", "dispatch"}
        PROVE  lock'[KindOf(want'[d])] = d
    <3>1. d # c /\ lock[KindOf(want[d])] = d /\ lock[KindOf(h)] = c
      BY <1>1, <1>2, <2>1 DEF TypeOK, LockInv
    <3>2. KindOf(want[d]) # KindOf(h)
      BY <3>1
    <3> QED
      BY <1>1, <1>2, <3>1, <3>2, KindFacts DEF TypeOK
  <2> QED
    BY <1>1, <1>2, <2>1 DEF TypeOK, LockInv, UsingInv
<1>8. ASSUME NEW g \in Asset, NEW d \in Caller PROVE Duty(g, d)' /\ Progress(g, d)'
  <2>1. Duty(g, d) /\ Progress(g, d)
    BY <1>1 DEF AssetInv, DutyInv, ProgressInv
  <2>2. CASE g = h /\ d = c
    BY <1>1, <1>2, <1>3, <1>4, <1>5, <2>1, <2>2 DEF Duty, Progress
  <2>3. CASE ~(g = h /\ d = c)
    BY <1>1, <1>2, <1>4, <1>5, <2>1, <2>3 DEF Duty, Progress
  <2> QED
    BY <2>2, <2>3
<1>9. LoadedInv'
  BY <1>1, <1>2, <1>3, <1>4 DEF AssetInv, LoadedInv
<1> QED
  BY <1>6, <1>7, <1>8, <1>9 DEF Inv, RegistryInv, DutyInv, ProgressInv

(* The steps of the one load job of an asset. *)
LEMMA JobKeeps ==
  ASSUME Inv, NEW h \in Asset, NEW c \in Caller, JobStep(h, c)
  PROVE  Inv'
<1>1. TypeOK /\ LockInv /\ AssetInv /\ UsingInv
  BY DEF Inv, RegistryInv, AssetInv
<1> DEFINE s == job'[<<h, c>>]
<1>2. /\ s \in {"storing", "stored", "done"}
      /\ job' = [job EXCEPT ![<<h, c>>] = s]
      /\ job[<<h, c>>] \in {"queued", "storing", "stored"}
      /\ UNCHANGED <<loads, lock, pc, want>>
      /\ published' \in [Asset -> SUBSET {"vertexBuffer", "meshletBuffer", "imageResource"}]
      /\ loaded' \in [Asset -> BOOLEAN]
      /\ \A g \in Asset : g # h => published'[g] = published[g] /\ loaded'[g] = loaded[g]
      /\ loaded[h] => loaded'[h]
  <2>1. CASE StoreFirst(h, c)
    <3>1. s = IF h \in Mesh THEN "storing" ELSE "stored"
      BY <1>1, <2>1 DEF StoreFirst, TypeOK
    <3> QED
      BY <1>1, <2>1, <3>1 DEF StoreFirst, callerVars, TypeOK
  <2>2. CASE StoreMeshlets(h, c)
    <3>1. s = "stored"
      BY <1>1, <2>2 DEF StoreMeshlets, TypeOK
    <3> QED
      BY <1>1, <2>2, <3>1 DEF StoreMeshlets, callerVars, TypeOK
  <2>3. CASE SetLoaded(h, c)
    <3>1. s = "done"
      BY <1>1, <2>3 DEF SetLoaded, TypeOK
    <3> QED
      BY <1>1, <2>3, <3>1 DEF SetLoaded, callerVars, TypeOK
  <2> QED
    BY <2>1, <2>2, <2>3 DEF JobStep
<1>3. \A g \in Asset, d \in Caller :
        job'[<<g, d>>] = IF g = h /\ d = c THEN s ELSE job[<<g, d>>]
  BY <1>1, <1>2 DEF TypeOK
<1>4. ASSUME NEW g \in Asset, NEW d \in Caller
      PROVE  /\ Dispatching(g, d)' <=> Dispatching(g, d)
             /\ Responsible(g, d)' <=> Responsible(g, d)
  <2>1. Dispatching(g, d)' <=> Dispatching(g, d)
    BY <1>2 DEF Dispatching
  <2>2. job'[<<g, d>>] # "none" <=> job[<<g, d>>] # "none"
    BY <1>2, <1>3
  <2> QED
    BY <2>1, <2>2 DEF Responsible
<1>5. /\ Responsible(h, c) /\ ~Dispatching(h, c) /\ loads[h]
      /\ \A d \in Caller : d # c => ~Responsible(h, d) /\ job[<<h, d>>] = "none"
  BY <1>1, <1>2 DEF Responsible, AssetInv, DutyInv, Duty
<1>6. ~loaded[h]
  BY <1>1, <1>2, <1>5 DEF AssetInv, LoadedInv
<1>7. TypeOK' /\ LockInv' /\ UsingInv'
  <2>1. UsingInv'
    BY <1>1, <1>2 DEF UsingInv, TypeOK
  <2>2. LockInv'
    BY <1>1, <1>2 DEF LockInv
  <2>3. TypeOK'
    BY <1>1, <1>2 DEF TypeOK, JobState
  <2> QED
    BY <2>1, <2>2, <2>3
<1>8. /\ Progress(h, c)'
      /\ loaded'[h] => s = "done"
  <2>1. Progress(h, c)
    BY <1>1 DEF AssetInv, ProgressInv
  <2>2. CASE StoreFirst(h, c)
    <3>1. published[h] = {}
      BY <1>5, <2>1, <2>2 DEF StoreFirst, Progress
    <3>2. /\ published'[h] = {IF h \in Mesh THEN "vertexBuffer" ELSE "imageResource"}
          /\ job'[<<h, c>>] = IF h \in Mesh THEN "storing" ELSE "stored"
          /\ loaded' = loaded
      BY <1>1, <2>2, <3>1 DEF StoreFirst, TypeOK
    <3> QED
      BY <1>6, <3>2 DEF Progress, Resources
  <2>3. CASE StoreMeshlets(h, c)
    <3>1. h \in Mesh /\ published[h] = {"vertexBuffer"}
      BY <2>1, <2>3 DEF StoreMeshlets, Progress
    <3>2. /\ published'[h] = {"vertexBuffer", "meshletBuffer"}
          /\ job'[<<h, c>>] = "stored" /\ loaded' = loaded
      BY <1>1, <2>3, <3>1 DEF StoreMeshlets, TypeOK
    <3> QED
      BY <1>6, <3>1, <3>2 DEF Progress, Resources
  <2>4. CASE SetLoaded(h, c)
    <3>1. /\ published' = published /\ job[<<h, c>>] = "stored" /\ job'[<<h, c>>] = "done"
      BY <1>1, <2>4 DEF SetLoaded, TypeOK
    <3> QED
      BY <1>3, <2>1, <3>1 DEF Progress
  <2> QED
    BY <2>2, <2>3, <2>4 DEF JobStep
<1>9. ASSUME NEW g \in Asset, NEW d \in Caller PROVE Duty(g, d)' /\ Progress(g, d)'
  <2>1. Duty(g, d) /\ Progress(g, d)
    BY <1>1 DEF AssetInv, DutyInv, ProgressInv
  <2>2. CASE g = h /\ d = c
    BY <1>2, <1>3, <1>4, <1>5, <1>8, <2>1, <2>2 DEF Duty
  <2>3. CASE g = h /\ d # c
    BY <1>2, <1>3, <1>4, <1>5, <2>3 DEF Duty, Progress
  <2>4. CASE g # h
    BY <1>2, <1>3, <1>4, <2>1, <2>4 DEF Duty, Progress
  <2> QED
    BY <2>2, <2>3, <2>4
<1>10. LoadedInv'
  <2>1. ASSUME NEW g \in Asset, g # h
        PROVE  /\ loaded'[g] => \E d \in Caller : job'[<<g, d>>] = "done"
               /\ ~loads'[g] => published'[g] = {}
    BY <1>1, <1>2, <1>3, <2>1 DEF AssetInv, LoadedInv
  <2>2. /\ loaded'[h] => job'[<<h, c>>] = "done"
        /\ loads'[h]
    BY <1>2, <1>5, <1>8
  <2> QED
    BY <2>1, <2>2 DEF LoadedInv
<1> QED
  BY <1>7, <1>9, <1>10 DEF Inv, RegistryInv, DutyInv, ProgressInv

(* At first nothing is loaded and nobody is responsible for anything. *)
LEMMA InitInv == Init => Inv
BY DEF Init, Inv, TypeOK, RegistryInv, LockInv, DutyInv, ProgressInv, LoadedInv, UsingInv,
       Duty, Progress, Responsible, Dispatching, PC, JobState

(***************************************************************************)
(* Type correctness and the invariant of responsibilities.                 *)
(***************************************************************************)
THEOREM RegistrySafe == Spec => [](TypeOK /\ RegistryInv)
<1>1. Inv /\ [Next]_vars => Inv'
  <2> SUFFICES ASSUME Inv, [Next]_vars PROVE Inv'
    OBVIOUS
  <2>1. CASE UNCHANGED vars
    <3>1. AssetInv'
      BY <2>1, QuietKeeps DEF vars, Inv, RegistryInv, AssetInv, Dispatching
    <3> QED
      BY <2>1, <3>1 DEF vars, Inv, TypeOK, RegistryInv, AssetInv, LockInv, UsingInv
  <2> QED
    BY <2>1, TestKeeps, InitiateKeeps, DispatchKeeps, JobKeeps DEF Next, CallerStep
<1>2. Inv => TypeOK /\ RegistryInv
  BY DEF Inv
<1> QED
  BY <1>1, <1>2, InitInv, PTL DEF Spec

(***************************************************************************)
(* TryGetMeshData never hands out a mesh with one of its two buffers.      *)
(***************************************************************************)
THEOREM NeverHalf == Spec => []NeverHalfLoaded
<1>1. TypeOK /\ RegistryInv => NeverHalfLoaded
  <2> SUFFICES ASSUME TypeOK, RegistryInv, NEW c \in Caller, pc[c] = "using"
               PROVE  published[want[c]] = Resources(want[c])
    BY DEF NeverHalfLoaded
  <2>1. want[c] \in Asset /\ loaded[want[c]]
    BY DEF TypeOK, RegistryInv, UsingInv
  <2>2. PICK d \in Caller : job[<<want[c], d>>] = "done"
    BY <2>1 DEF RegistryInv, LoadedInv
  <2>3. Progress(want[c], d)
    BY <2>1 DEF RegistryInv, ProgressInv
  <2> QED
    BY <2>2, <2>3 DEF Progress
<1> QED
  BY <1>1, RegistrySafe, PTL

(***************************************************************************)
(* However many callers miss an asset at once, one of them loads it.       *)
(***************************************************************************)
THEOREM LoadedByOne == Spec => []LoadOnce
<1>1. TypeOK /\ RegistryInv => LoadOnce
  BY DEF RegistryInv, DutyInv, Duty, Responsible, LoadOnce
<1> QED
  BY <1>1, RegistrySafe, PTL

-----------------------------------------------------------------------------
(***************************************************************************)
(* That an asset that was asked for is loaded: the part of AskedIsLoaded   *)
(* that is not about fairness.  A flag of a load that was initiated        *)
(* promises a job, and a lock that is taken a caller that gives it back.   *)
(***************************************************************************)
Pending(h, c) ==
  Dispatching(h, c) \/ job[<<h, c>>] \in {"queued", "storing", "stored"}

LoadsPending ==
  \A h \in Asset : loads[h] /\ ~loaded[h] => \E c \in Caller : Pending(h, c)

Holds(c, k) == pc[c] \in {"held", "dispatch"} /\ KindOf(want[c]) = k

LocksHeld == \A k \in Kind : lock[k] # Free => Holds(lock[k], k)

PromiseInv == LoadsPending /\ LocksHeld

(* A caller at work neither initiates a load nor hands out its job. *)
LEMMA TestPromise ==
  ASSUME TypeOK, PromiseInv, NEW c \in Caller,
         \/ \E h \in Asset : Call(c, h)
         \/ TestLoaded(c) \/ TestLoads(c) \/ Drop(c)
  PROVE  PromiseInv'
<1>1. /\ UNCHANGED <<loads, loaded, lock, job>>
      /\ pc[c] \notin {"held", "dispatch"}
      /\ \A d \in Caller : d # c => pc'[d] = pc[d] /\ want'[d] = want[d]
  <2>1. pc \in [Caller -> PC] /\ want \in [Caller -> Asset]
    BY DEF TypeOK
  <2>2. CASE \E h \in Asset : Call(c, h)
    BY <2>1, <2>2 DEF Call, Goto
  <2>3. CASE TestLoaded(c) \/ TestLoads(c) \/ Drop(c)
    BY <2>1, <2>3 DEF TestLoaded, TestLoads, Drop, Goto
  <2> QED
    BY <2>2, <2>3
<1>2. \A h \in Asset, d \in Caller : Pending(h, d) => Pending(h, d)'
  BY <1>1 DEF Pending, Dispatching
<1>3. LoadsPending'
  BY <1>1, <1>2 DEF PromiseInv, LoadsPending
<1>4. ASSUME NEW k \in Kind, lock'[k] # Free PROVE Holds(lock[k], k)'
  <2>1. lock[k] \in Caller /\ lock'[k] = lock[k] /\ Holds(lock[k], k)
    BY <1>1, <1>4 DEF TypeOK, PromiseInv, LocksHeld
  <2> QED
    BY <1>1, <2>1 DEF Holds
<1> QED
  BY <1>3, <1>4 DEF PromiseInv, LocksHeld

(* Only who has taken a lock gives it back. *)
LEMMA LockPromise ==
  ASSUME TypeOK, PromiseInv, NEW c \in Caller, AcquireLock(c) \/ FoundInitiated(c)
  PROVE  PromiseInv'
<1>1. /\ want[c] \in Asset /\ KindOf(want[c]) \in Kind
      /\ pc \in [Caller -> PC] /\ lock \in [Kind -> Caller \cup {Free}]
  BY KindFacts DEF TypeOK
<1>2. /\ UNCHANGED <<loads, loaded, want, job>>
      /\ pc[c] # "dispatch"
      /\ \A d \in Caller : d # c => pc'[d] = pc[d]
  BY <1>1 DEF AcquireLock, FoundInitiated, Goto
<1>3. \A h \in Asset, d \in Caller : Pending(h, d) => Pending(h, d)'
  BY <1>2 DEF Pending, Dispatching
<1>4. LoadsPending'
  BY <1>2, <1>3 DEF PromiseInv, LoadsPending
<1>5. ASSUME NEW k \in Kind, lock'[k] # Free PROVE Holds(lock[k], k)'
  <2>1. CASE AcquireLock(c) /\ k = KindOf(want[c])
    <3>1. lock'[k] = c /\ pc'[c] = "held" /\ want' = want
      BY <1>1, <2>1 DEF AcquireLock, Goto
    <3> QED
      BY <2>1, <3>1 DEF Holds
  <2>2. CASE ~(AcquireLock(c) /\ k = KindOf(want[c]))
    <3>1. lock'[k] = lock[k] /\ k # KindOf(want[c])
      BY <1>1, <1>5, <2>2 DEF AcquireLock, FoundInitiated
    <3>2. Holds(lock[k], k) /\ lock[k] \in Caller
      BY <1>1, <1>5, <3>1 DEF PromiseInv, LocksHeld
    <3>3. lock[k] # c
      BY <3>1, <3>2 DEF Holds
    <3> QED
      BY <1>2, <3>1, <3>2, <3>3 DEF Holds
  <2> QED
    BY <2>1, <2>2
<1> QED
  BY <1>4, <1>5 DEF PromiseInv, LocksHeld

(* Who initiates a load is about to dispatch its job, and dispatches it before
   the lock is given back. *)
LEMMA DutyPromise ==
  ASSUME TypeOK, PromiseInv, NEW c \in Caller, Initiate(c) \/ Dispatch(c)
  PROVE  PromiseInv'
<1>1. /\ want[c] \in Asset /\ KindOf(want[c]) \in Kind
      /\ pc \in [Caller -> PC] /\ lock \in [Kind -> Caller \cup {Free}]
      /\ loads \in [Asset -> BOOLEAN] /\ job \in [Asset \X Caller -> JobState]
  BY KindFacts DEF TypeOK
<1>2. /\ UNCHANGED <<loaded, want>>
      /\ \A d \in Caller : d # c => pc'[d] = pc[d]
      /\ \A h \in Asset : h # want[c] => loads'[h] = loads[h]
  BY <1>1 DEF Initiate, Dispatch, Goto
<1>3. ASSUME NEW h \in Asset, h = want[c] PROVE Pending(h, c)'
  <2>1. CASE Initiate(c)
    BY <1>1, <1>3, <2>1 DEF Initiate, Goto, Pending, Dispatching
  <2>2. CASE Dispatch(c)
    <3>1. job'[<<h, c>>] = "queued"
      BY <1>1, <1>3, <2>2 DEF Dispatch
    <3> QED
      BY <3>1 DEF Pending
  <2> QED
    BY <2>1, <2>2
<1>4. ASSUME NEW h \in Asset, h # want[c], NEW d \in Caller, Pending(h, d)
      PROVE  Pending(h, d)'
  <2>1. job'[<<h, d>>] = job[<<h, d>>]
    BY <1>1, <1>4 DEF Initiate, Dispatch
  <2>2. Dispatching(h, d) => d # c
    BY <1>4 DEF Dispatching
  <2> QED
    BY <1>2, <1>4, <2>1, <2>2 DEF Pending, Dispatching
<1>5. LoadsPending'
  <2> SUFFICES ASSUME NEW h \in Asset, loads'[h], ~loaded'[h]
               PROVE  \E d \in Caller : Pending(h, d)'
    BY DEF LoadsPending
  <2>1. CASE h = want[c]
    BY <1>3, <2>1
  <2>2. CASE h # want[c]
    BY <1>2, <1>4, <2>2 DEF PromiseInv, LoadsPending
  <2> QED
    BY <2>1, <2>2
<1>6. ASSUME NEW k \in Kind, lock'[k] # Free PROVE Holds(lock[k], k)'
  <2>1. lock'[k] = lock[k] /\ (Dispatch(c) => k # KindOf(want[c]))
    BY <1>1, <1>6 DEF Initiate, Dispatch
  <2>2. Holds(lock[k], k) /\ lock[k] \in Caller
    BY <1>1, <1>6, <2>1 DEF PromiseInv, LocksHeld
  <2>3. CASE lock[k] = c
    <3>1. Initiate(c)
      BY <2>1, <2>2, <2>3 DEF Holds
    <3> QED
      BY <1>1, <2>1, <2>2, <2>3, <3>1 DEF Initiate, Goto, Holds
  <2>4. CASE lock[k] # c
    BY <1>2, <2>1, <2>2, <2>4 DEF Holds
  <2> QED
    BY <2>3, <2>4
<1> QED
  BY <1>5, <1>6 DEF PromiseInv, LocksHeld

(* A job goes on until the asset is loaded. *)
LEMMA JobPromise ==
  ASSUME TypeOK, PromiseInv, NEW g \in Asset, NEW c \in Caller, JobStep(g, c)
  PROVE  PromiseInv'
<1>1. /\ loaded \in [Asset -> BOOLEAN] /\ job \in [Asset \X Caller -> JobState]
  BY DEF TypeOK
<1>2. /\ UNCHANGED <<loads, lock, pc, want>>
      /\ \A h \in Asset : loaded[h] => loaded'[h]
      /\ \A h \in Asset, d \in Caller : <<h, d>> # <<g, c>> => job'[<<h, d>>] = job[<<h, d>>]
  BY <1>1 DEF JobStep, StoreFirst, StoreMeshlets, SetLoaded, callerVars
<1>3. job'[<<g, c>>] \in {"queued", "storing", "stored"} \/ loaded'[g]
  BY <1>1 DEF JobStep, StoreFirst, StoreMeshlets, SetLoaded
<1>4. LoadsPending'
  <2> SUFFICES ASSUME NEW h \in Asset, loads'[h], ~loaded'[h]
               PROVE  \E d \in Caller : Pending(h, d)'
    BY DEF LoadsPending
  <2>1. PICK d \in Caller : Pending(h, d)
    BY <1>2 DEF PromiseInv, LoadsPending
  <2>2. CASE h = g /\ d = c
    BY <1>3, <2>2 DEF Pending
  <2>3. CASE ~(h = g /\ d = c)
    BY <1>2, <2>1, <2>3 DEF Pending, Dispatching
  <2> QED
    BY <2>2, <2>3
<1>5. LocksHeld'
  BY <1>2 DEF PromiseInv, LocksHeld, Holds
<1> QED
  BY <1>4, <1>5 DEF PromiseInv

(***************************************************************************)
(* However the callers' tests and the jobs interleave, an asset whose load *)
(* was initiated, and for which every further caller is told to come back, *)
(* is loaded or has a job on its way; and a lock is never left taken.      *)
(***************************************************************************)
THEOREM InitiatedIsPending == Spec => [](LoadsPending /\ LocksHeld)
<1>1. Init => PromiseInv
  BY DEF Init, PromiseInv, LoadsPending, LocksHeld
<1>2. TypeOK /\ PromiseInv /\ [Next]_vars => PromiseInv'
  <2> SUFFICES ASSUME TypeOK, PromiseInv, [Next]_vars PROVE PromiseInv'
    OBVIOUS
  <2>1. CASE UNCHANGED vars
    BY <2>1 DEF vars, PromiseInv, LoadsPending, LocksHeld, Pending, Dispatching, Holds
  <2>2. ASSUME NEW c \in Caller, CallerStep(c) PROVE PromiseInv'
    BY <2>2, TestPromise, LockPromise, DutyPromise DEF CallerStep
  <2>3. ASSUME NEW c \in Caller, NEW h \in Asset, Call(c, h) PROVE PromiseInv'
    BY <2>3, TestPromise
  <2>4. ASSUME NEW h \in Asset, NEW c \in Caller, JobStep(h, c) PROVE PromiseInv'
    BY <2>4, JobPromise
  <2> QED
    BY <2>1, <2>2, <2>3, <2>4 DEF Next
<1> QED
  BY <1>1, <1>2, RegistrySafe, PTL DEF Spec, PromiseInv
=============================================================================
