--------------------------- MODULE ResourceRegistry ---------------------------
(***************************************************************************)
(* VoidStarResources/ResourceRegistry.cpp: meshes and textures that are    *)
(* uploaded when first asked for.  TryGetMeshData and TryGetTextureData    *)
(* test the two flags of an asset without a lock, then take the lock of    *)
(* the asset's kind, test again, and dispatch a load job, which publishes  *)
(* the asset's resources and then sets the first flag.  Each read or write *)
(* of a flag is a step.  All assets are registered: Init does that before  *)
(* the first frame.                                                        *)
(***************************************************************************)
EXTENDS FiniteSets

CONSTANTS
  Mesh, Texture,   \* the handles
  Caller,          \* the threads that call TryGet...Data
  Free             \* a lock that is not held

Asset == Mesh \cup Texture

ASSUME RegistryAssumption == Mesh \cap Texture = {} /\ Free \notin Caller

VARIABLES
  loads,      \* _meshLoads, _textureLoads: a load has been initiated
  loaded,     \* _meshLoaded, _textureLoaded: the asset may be used
  published,  \* the resources stored in the Mesh or Texture
  lock,       \* _meshLoadLock, _textureLoadLock
  pc, want,   \* where a caller is, and the handle it asks for
  job         \* the load job that a caller dispatched for an asset

vars == <<loads, loaded, published, lock, pc, want, job>>
callerVars == <<pc, want>>

Kind == {"mesh", "texture"}
KindOf(h) == IF h \in Mesh THEN "mesh" ELSE "texture"
Resources(h) == IF h \in Mesh THEN {"vertexBuffer", "meshletBuffer"} ELSE {"imageResource"}

PC == {"idle", "test loaded", "test loads", "lock", "held", "dispatch", "using"}
JobState == {"none", "queued", "storing", "stored", "done"}

TypeOK ==
  /\ loads \in [Asset -> BOOLEAN]
  /\ loaded \in [Asset -> BOOLEAN]
  /\ published \in [Asset -> SUBSET {"vertexBuffer", "meshletBuffer", "imageResource"}]
  /\ lock \in [Kind -> Caller \cup {Free}]
  /\ pc \in [Caller -> PC]
  /\ want \in [Caller -> Asset]
  /\ job \in [Asset \X Caller -> JobState]

Init ==
  /\ loads = [h \in Asset |-> FALSE]
  /\ loaded = [h \in Asset |-> FALSE]
  /\ published = [h \in Asset |-> {}]
  /\ lock = [k \in Kind |-> Free]
  /\ pc = [c \in Caller |-> "idle"]
  /\ want \in [Caller -> Asset]
  /\ job = [x \in Asset \X Caller |-> "none"]

-----------------------------------------------------------------------------
Goto(c, to) == pc' = [pc EXCEPT ![c] = to]

(* A render node asks for an asset. *)
Call(c, h) ==
  /\ pc[c] = "idle"
  /\ want' = [want EXCEPT ![c] = h]
  /\ Goto(c, "test loaded")
  /\ UNCHANGED <<loads, loaded, published, lock, job>>

(* A defect: the wrong one of the two flags. *)
TestLoadedOfLoads(c) ==
  /\ pc[c] = "test loaded"
  /\ Goto(c, IF loads[want[c]] THEN "using" ELSE "test loads")
  /\ UNCHANGED <<loads, loaded, published, lock, want, job>>

(* if (_meshLoaded[handle].get()) return _meshes[handle]; *)
TestLoaded(c) ==
  /\ pc[c] = "test loaded"
  /\ Goto(c, IF loaded[want[c]] THEN "using" ELSE "test loads")
  /\ UNCHANGED <<loads, loaded, published, lock, want, job>>

(* if (_meshLoads[handle].get()) return nullptr; *)
TestLoads(c) ==
  /\ pc[c] = "test loads"
  /\ Goto(c, IF loads[want[c]] THEN "idle" ELSE "lock")
  /\ UNCHANGED <<loads, loaded, published, lock, want, job>>

AcquireLock(c) ==
  /\ pc[c] = "lock"
  /\ lock[KindOf(want[c])] = Free
  /\ lock' = [lock EXCEPT ![KindOf(want[c])] = c]
  /\ Goto(c, "held")
  /\ UNCHANGED <<loads, loaded, published, want, job>>

(* A defect: the early return leaves the lock held. *)
FoundInitiatedLocked(c) ==
  /\ pc[c] = "held"
  /\ loads[want[c]]
  /\ Goto(c, "idle")
  /\ UNCHANGED <<loads, loaded, published, lock, want, job>>

(* Under the lock another caller turns out to have initiated the load. *)
FoundInitiated(c) ==
  /\ pc[c] = "held"
  /\ loads[want[c]]
  /\ lock' = [lock EXCEPT ![KindOf(want[c])] = Free]
  /\ Goto(c, "idle")
  /\ UNCHANGED <<loads, loaded, published, want, job>>

(* A defect: no second test under the lock. *)
InitiateUntested(c) ==
  /\ pc[c] = "held"
  /\ loads' = [loads EXCEPT ![want[c]] = TRUE]
  /\ Goto(c, "dispatch")
  /\ UNCHANGED <<loaded, published, lock, want, job>>

(* _meshLoads[handle].store(true) *)
Initiate(c) ==
  /\ pc[c] = "held"
  /\ ~loads[want[c]]
  /\ loads' = [loads EXCEPT ![want[c]] = TRUE]
  /\ Goto(c, "dispatch")
  /\ UNCHANGED <<loaded, published, lock, want, job>>

(* builder.Dispatch, the end of the lock's scope, return nullptr. *)
Dispatch(c) ==
  /\ pc[c] = "dispatch"
  /\ job' = [job EXCEPT ![<<want[c], c>>] = "queued"]
  /\ lock' = [lock EXCEPT ![KindOf(want[c])] = Free]
  /\ Goto(c, "idle")
  /\ UNCHANGED <<loads, loaded, published, want>>

(* The caller is done with the data it was given. *)
Drop(c) ==
  /\ pc[c] = "using"
  /\ Goto(c, "idle")
  /\ UNCHANGED <<loads, loaded, published, lock, want, job>>

-----------------------------------------------------------------------------
(* A defect: the asset's data on the CPU is stored, not the uploaded resource. *)
StoreHostData(h, c) ==
  /\ job[<<h, c>>] = "queued"
  /\ published' = [published EXCEPT ![h] = @ \cup {"hostData"}]
  /\ job' = [job EXCEPT ![<<h, c>>] = IF h \in Mesh THEN "storing" ELSE "stored"]
  /\ UNCHANGED <<loads, loaded, lock, callerVars>>

(* The load job has uploaded the asset (LoadMesh, LoadImage) and stores the
   first of its resources: a texture has only one. *)
StoreFirst(h, c) ==
  /\ job[<<h, c>>] = "queued"
  /\ published' = [published EXCEPT ![h] =
       @ \cup {IF h \in Mesh THEN "vertexBuffer" ELSE "imageResource"}]
  /\ job' = [job EXCEPT ![<<h, c>>] = IF h \in Mesh THEN "storing" ELSE "stored"]
  /\ UNCHANGED <<loads, loaded, lock, callerVars>>

(* mesh->meshletBuffer = packet.meshletBuffer *)
StoreMeshlets(h, c) ==
  /\ job[<<h, c>>] = "storing"
  /\ published' = [published EXCEPT ![h] = @ \cup {"meshletBuffer"}]
  /\ job' = [job EXCEPT ![<<h, c>>] = "stored"]
  /\ UNCHANGED <<loads, loaded, lock, callerVars>>

(* _meshLoaded[handle].store(true), the last statement of the job. *)
SetLoaded(h, c) ==
  /\ job[<<h, c>>] = "stored"
  /\ loaded' = [loaded EXCEPT ![h] = TRUE]
  /\ job' = [job EXCEPT ![<<h, c>>] = "done"]
  /\ UNCHANGED <<loads, published, lock, callerVars>>

CallerStep(c) == \/ TestLoaded(c) \/ TestLoads(c) \/ AcquireLock(c) \/ FoundInitiated(c)
                 \/ Initiate(c) \/ Dispatch(c) \/ Drop(c)

JobStep(h, c) == StoreFirst(h, c) \/ StoreMeshlets(h, c) \/ SetLoaded(h, c)

Next ==
  \/ \E c \in Caller : CallerStep(c) \/ \E h \in Asset : Call(c, h)
  \/ \E h \in Asset, c \in Caller : JobStep(h, c)

Spec == Init /\ [][Next]_vars

(* Callers and workers are scheduled, and a lock that is free again and again
   is taken; nobody has to call. *)
FairSpec ==
  /\ Spec
  /\ \A c \in Caller : WF_vars(CallerStep(c)) /\ SF_vars(AcquireLock(c))
  /\ \A h \in Asset, c \in Caller : WF_vars(JobStep(h, c))

-----------------------------------------------------------------------------
(***************************************************************************)
(* An asset that a caller was given has all of its resources: a mesh is    *)
(* never drawn with one buffer of two, whichever order the flag, the two   *)
(* stores and the caller's tests fall in.                                  *)
(***************************************************************************)
NeverHalfLoaded ==
  \A c \in Caller : pc[c] = "using" => published[want[c]] = Resources(want[c])

(***************************************************************************)
(* An asset is loaded by one job, however many callers miss it at once:    *)
(* no second upload replaces the resources of an asset in use.             *)
(***************************************************************************)
LoadOnce ==
  \A h \in Asset : \A c, d \in Caller :
    job[<<h, c>>] # "none" /\ job[<<h, d>>] # "none" => c = d

(***************************************************************************)
(* Why both hold: an inductive invariant.                                  *)
(***************************************************************************)
(* Caller c has the duty to load h: it will dispatch the job, or has. *)
Dispatching(h, c) == pc[c] = "dispatch" /\ want[c] = h
Responsible(h, c) == job[<<h, c>>] # "none" \/ Dispatching(h, c)

LockInv ==
  \A c \in Caller : pc[c] \in {"held", "dispatch"} => lock[KindOf(want[c])] = c

Duty(h, c) ==
  Responsible(h, c) =>
    /\ loads[h]
    /\ \A d \in Caller : Responsible(h, d) => c = d
    /\ Dispatching(h, c) => job[<<h, c>>] = "none"

(* How far the load of h by c has come, and what is published by then. *)
Progress(h, c) ==
  /\ job[<<h, c>>] \in {"stored", "done"} => published[h] = Resources(h)
  /\ job[<<h, c>>] = "storing" => h \in Mesh /\ published[h] = {"vertexBuffer"}
  /\ Responsible(h, c) /\ job[<<h, c>>] \in {"none", "queued"} => published[h] = {}

DutyInv == \A h \in Asset, c \in Caller : Duty(h, c)
ProgressInv == \A h \in Asset, c \in Caller : Progress(h, c)
LoadedInv ==
  \A h \in Asset :
    /\ loaded[h] => \E c \in Caller : job[<<h, c>>] = "done"
    /\ ~loads[h] => published[h] = {}

UsingInv == \A c \in Caller : pc[c] = "using" => loaded[want[c]]

RegistryInv == LockInv /\ DutyInv /\ ProgressInv /\ LoadedInv /\ UsingInv

(***************************************************************************)
(* Asking once is enough: every asset that a caller has asked for becomes  *)
(* usable, though the caller was told nullptr and nobody waits for the job.*)
(***************************************************************************)
AskedIsLoaded ==
  \A h \in Asset : (\E c \in Caller : pc[c] = "test loaded" /\ want[c] = h) ~> loaded[h]

=============================================================================
