----------------------------- MODULE PoolProofs -----------------------------
(***************************************************************************)
(* Proofs about Pool, for any finite set of runners, any targets and any   *)
(* failures.                                                               *)
(***************************************************************************)
EXTENDS Pool, FiniteSetTheorems, TLAPS

USE RunnerAssumption, ReplicasAssumption, SettersAssumption, FaultsAssumption,
    ShutdownAssumption

\* The runners are finitely many, so every set of them has a size.
LEMMA RunnersFinite ==
    ASSUME NEW S \in SUBSET Runner
    PROVE  IsFiniteSet(S) /\ Cardinality(S) \in Nat
  BY FS_Subset, FS_CardinalityType

\* Taking one runner in or out of a set of runners changes its size by one.
LEMMA OneMore ==
    ASSUME NEW S \in SUBSET Runner, NEW r \in Runner \ S
    PROVE  Cardinality(S \cup {r}) = Cardinality(S) + 1
  BY RunnersFinite, FS_AddElement

LEMMA OneLess ==
    ASSUME NEW S \in SUBSET Runner, NEW r \in S
    PROVE  Cardinality(S \ {r}) = Cardinality(S) - 1
  BY RunnersFinite, FS_RemoveElement

LEMMA SomeMore ==
    ASSUME NEW S \in SUBSET Runner, NEW T \in SUBSET Runner, S \cap T = {}
    PROVE  Cardinality(S \cup T) = Cardinality(S) + Cardinality(T)
  <1>1. IsFiniteSet(S) /\ IsFiniteSet(T) /\ Cardinality(S) \in Nat
        /\ Cardinality(T) \in Nat
    BY RunnersFinite
  <1>2. Cardinality(S \cap T) = 0
    BY FS_EmptySet
  <1> QED
    BY <1>1, <1>2, FS_Union

-----------------------------------------------------------------------------
(* The initial states *)

LEMMA InitPoolInv == Init => PoolInv
  <1> SUFFICES ASSUME Init PROVE PoolInv
    OBVIOUS
  <1>1. TypeOK
    <2>1. /\ create \in [Runner -> CreateState]
          /\ cleanup \in [Runner -> CleanupState]
          /\ vm \in [Runner -> {"off", "running", "stopping"}]
      BY DEF Init, CreateState, CleanupState
    <2>2. /\ replicas \in Replicas
          /\ setters \in 0 .. MaxSetters
          /\ run \in RunState
          /\ stop \in StopState
      BY DEF Init, RunState, StopState
    <2> QED
      BY <2>1, <2>2 DEF Init, TypeOK
  <1>2. CountersMatchGoroutines
    <2>1. Creating = {} /\ {r \in Runner : cleanup[r] # "none"} = {}
      BY DEF Init, Creating
    <2>2. Cardinality({}) = 0
      BY FS_EmptySet
    <2>3. /\ pendingCreates = 0 /\ pendingDeletes = 0 /\ cleanupWg = 0
          /\ deleters = 0 /\ victims = {}
      BY DEF Init
    <2> QED
      BY <2>1, <2>2, <2>3 DEF CountersMatchGoroutines
  <1>3. \A r \in Runner : RunnerInv(r)
    BY DEF Init, RunnerInv
  <1> QED
    BY <1>1, <1>2, <1>3 DEF PoolInv

-----------------------------------------------------------------------------
(* Types.  The counters are natural numbers because they count something,  *)
(* which the lemmas on the counters show: they are left out here.          *)

OtherTypes ==
    /\ replicas \in Replicas
    /\ isActive \in BOOLEAN
    /\ trigger \in BOOLEAN
    /\ setters \in 0 .. MaxSetters
    /\ run \in RunState
    /\ desired \in Replicas \cup {0}
    /\ curSize \in Nat
    /\ creates \in Nat
    /\ ctxDone \in BOOLEAN
    /\ machines \subseteq Runner
    /\ create \in [Runner -> CreateState]
    /\ cleanup \in [Runner -> CleanupState]
    /\ deleters \in Nat
    /\ checked \in Nat
    /\ victims \subseteq Runner
    /\ vm \in [Runner -> {"off", "running", "stopping"}]
    /\ abandoned \subseteq Runner
    /\ leases \subseteq Runner
    /\ registered \subseteq Runner
    /\ stop \in StopState
    /\ timedOut \in BOOLEAN
    /\ late \subseteq Runner

LEMMA LoopTypes == TypeOK /\ LoopStep => OtherTypes'
  <1> SUFFICES ASSUME TypeOK, LoopStep PROVE OtherTypes'
    OBVIOUS
  <1> USE DEF TypeOK, OtherTypes, RunState, apiVars, loopVars, countVars,
              hostVars, vmVars, stopVars
  <1>1. CASE RunStart      BY <1>1 DEF RunStart
  <1>2. CASE WakeTriggered BY <1>2 DEF WakeTriggered
  <1>3. CASE WakeTimer     BY <1>3 DEF WakeTimer
  <1>4. CASE RunExit       BY <1>4 DEF RunExit
  <1>5. CASE ReadTarget    BY <1>5 DEF ReadTarget
  <1>6. CASE SkipScale     BY <1>6 DEF SkipScale
  <1>12. CASE EnterScale   BY <1>12 DEF EnterScale
  <1>7. CASE ReadSize
    <2>1. Cardinality(machines) \in Nat
      BY RunnersFinite
    <2> QED
      BY <1>7, <2>1 DEF ReadSize
  <1>8. CASE ReadCreates   BY <1>8 DEF ReadCreates
  <1>9. CASE Balanced      BY <1>9 DEF Balanced, EndScale
  <1>10. CASE ScaleUp
    BY <1>10 DEF ScaleUp, EndScale, CreateState
  <1>11. CASE ScaleDown
    <2>1. Delta \in Int
      BY DEF Delta
    <2> QED
      BY <1>11, <2>1 DEF ScaleDown, EndScale
  <1> QED
    BY <1>1, <1>2, <1>3, <1>4, <1>5, <1>6, <1>7, <1>8, <1>9, <1>10, <1>11,
       <1>12 DEF LoopStep

LEMMA CreateTypes ==
    ASSUME TypeOK, NEW r \in Runner, CreateStep(r)
    PROVE  OtherTypes'
  <1> USE DEF TypeOK, OtherTypes, CreateState, apiVars, loopVars, countVars,
              hostVars, vmVars, stopVars, MaybeDone
  <1>1. CASE AcquireLease(r)   BY <1>1 DEF AcquireLease
  <1>2. CASE AbortCreate(r)    BY <1>2 DEF AbortCreate
  <1>3. CASE RegisterRunner(r) BY <1>3 DEF RegisterRunner
  <1>4. CASE FailRegister(r)   BY <1>4 DEF FailRegister, UndoCreate
  <1>5. CASE StartVM(r)        BY <1>5 DEF StartVM
  <1>6. CASE FailStart(r)      BY <1>6 DEF FailStart, UndoCreate
  <1>7. CASE InsertMachine(r)  BY <1>7 DEF InsertMachine
  <1>8. CASE SpawnCleanup(r)   BY <1>8 DEF SpawnCleanup, CleanupState
  <1>9. CASE FinishCreate(r)   BY <1>9 DEF FinishCreate
  <1> QED
    BY <1>1, <1>2, <1>3, <1>4, <1>5, <1>6, <1>7, <1>8, <1>9 DEF CreateStep

LEMMA DeleteTypes == TypeOK /\ DeleteStep => OtherTypes'
  <1> SUFFICES ASSUME TypeOK, DeleteStep PROVE OtherTypes'
    OBVIOUS
  <1> USE DEF TypeOK, OtherTypes, apiVars, loopVars, countVars, hostVars,
              vmVars, stopVars
  <1>1. CASE AbortDelete BY <1>1 DEF AbortDelete
  <1>2. CASE NoVictim    BY <1>2 DEF NoVictim, AtMap
  <1>3. ASSUME NEW r \in Runner, PickVictim(r) PROVE OtherTypes'
    BY <1>3 DEF PickVictim, AtMap
  <1>4. ASSUME NEW r \in Runner, StopVictim(r) PROVE OtherTypes'
    BY <1>4 DEF StopVictim, Stopping
  <1> QED
    BY <1>1, <1>2, <1>3, <1>4 DEF DeleteStep

\* The steps of the cleanup goroutine, of the machine, of Stop and of the RPC
\* handlers.
OtherStep ==
    \/ \E r \in Runner : CleanupStep(r) \/ VMExit(r)
    \/ StopBegin \/ StopJoin \/ StopDrain
    \/ StoreReplicas \/ TriggerScale \/ Pause \/ Resume

LEMMA OtherStepTypes == TypeOK /\ OtherStep => OtherTypes'
  <1> SUFFICES ASSUME TypeOK, OtherStep PROVE OtherTypes'
    OBVIOUS
  <1> USE DEF TypeOK, OtherTypes, apiVars, loopVars, countVars, hostVars,
              vmVars, stopVars
  <1>1. ASSUME NEW r \in Runner, Reap(r) PROVE OtherTypes'
    BY <1>1 DEF Reap, WaitEnds, CleanupState
  <1>2. ASSUME NEW r \in Runner, GiveBack(r) PROVE OtherTypes'
    BY <1>2 DEF GiveBack, CleanupState
  <1>3. ASSUME NEW r \in Runner, VMExit(r) PROVE OtherTypes'
    BY <1>3 DEF VMExit
  <1>4. CASE StopBegin     BY <1>4 DEF StopBegin, StopState, Stopping
  <1>5. CASE StopJoin      BY <1>5 DEF StopJoin, StopState, Stopping
  <1>6. CASE StopDrain     BY <1>6 DEF StopDrain, StopState
  <1>7. CASE StoreReplicas BY <1>7 DEF StoreReplicas
  <1>8. CASE TriggerScale  BY <1>8 DEF TriggerScale
  <1>9. CASE Pause         BY <1>9 DEF Pause
  <1>10. CASE Resume       BY <1>10 DEF Resume
  <1> QED
    BY <1>1, <1>2, <1>3, <1>4, <1>5, <1>6, <1>7, <1>8, <1>9, <1>10
       DEF OtherStep, CleanupStep

LEMMA StepTypes == TypeOK /\ Next => OtherTypes'
  BY LoopTypes, CreateTypes, DeleteTypes, OtherStepTypes DEF Next, OtherStep
-----------------------------------------------------------------------------
(* The counters *)

\* pendingCreates: every way a creation ends takes it off the counter once.
LEMMA CreatesStep ==
    ASSUME TypeOK, CountersMatchGoroutines, Next
    PROVE  pendingCreates' = Cardinality(Creating')
  <1> USE DEF apiVars, loopVars, countVars, hostVars, vmVars, stopVars
  <1>0. Creating \subseteq Runner /\ pendingCreates = Cardinality(Creating)
    BY DEF Creating, CountersMatchGoroutines
  <1>1. ASSUME NEW r \in Runner, create[r] # "idle",
               create' = [create EXCEPT ![r] = "idle"],
               pendingCreates' = pendingCreates - 1
        PROVE  pendingCreates' = Cardinality(Creating')
    <2>1. Creating' = Creating \ {r} /\ r \in Creating
      BY <1>1 DEF Creating, TypeOK
    <2> QED
      BY <1>0, <1>1, <2>1, OneLess
  <1>2. ASSUME NEW r \in Runner, create[r] # "idle",
               NEW c, c # "idle", create' = [create EXCEPT ![r] = c],
               UNCHANGED pendingCreates
        PROVE  pendingCreates' = Cardinality(Creating')
    <2>1. Creating' = Creating
      BY <1>2 DEF Creating, TypeOK
    <2> QED
      BY <1>0, <1>2, <2>1
  <1>3. ASSUME UNCHANGED <<create, pendingCreates>>
        PROVE  pendingCreates' = Cardinality(Creating')
    BY <1>0, <1>3 DEF Creating
  <1>4. CASE ScaleUp
    <2>1. PICK S \in SUBSET Free :
            /\ pendingCreates' = pendingCreates + Cardinality(S)
            /\ create' = [r \in Runner |-> IF r \in S THEN "spawned" ELSE create[r]]
      BY <1>4 DEF ScaleUp
    <2>2. S \subseteq Runner /\ Creating \cap S = {} /\ Creating' = Creating \cup S
      BY <2>1 DEF Free, Creating
    <2> QED
      BY <1>0, <2>1, <2>2, SomeMore
  <1>5. CASE LoopStep /\ ~ScaleUp
    <2>1. UNCHANGED <<create, pendingCreates>>
      BY <1>5 DEF LoopStep, RunStart, WakeTriggered, WakeTimer, RunExit,
         ReadTarget, SkipScale, EnterScale, ReadSize, ReadCreates, Balanced, ScaleDown
    <2> QED
      BY <1>3, <2>1
  <1>6. ASSUME NEW r \in Runner, CreateStep(r)
        PROVE  pendingCreates' = Cardinality(Creating')
    <2>1. CASE AbortCreate(r)  BY <1>1, <2>1 DEF AbortCreate
    <2>2. CASE FailRegister(r) BY <1>1, <2>2 DEF FailRegister, UndoCreate
    <2>3. CASE FailStart(r)    BY <1>1, <2>3 DEF FailStart, UndoCreate
    <2>4. CASE FinishCreate(r) BY <1>1, <2>4 DEF FinishCreate
    <2>5. CASE AcquireLease(r)   BY <1>2, <2>5 DEF AcquireLease
    <2>6. CASE RegisterRunner(r) BY <1>2, <2>6 DEF RegisterRunner
    <2>7. CASE StartVM(r)        BY <1>2, <2>7 DEF StartVM
    <2>8. CASE InsertMachine(r)  BY <1>2, <2>8 DEF InsertMachine
    <2>9. CASE SpawnCleanup(r)   BY <1>2, <2>9 DEF SpawnCleanup
    <2> QED
      BY <1>6, <2>1, <2>2, <2>3, <2>4, <2>5, <2>6, <2>7, <2>8, <2>9
         DEF CreateStep
  <1>7. CASE DeleteStep
    <2>1. UNCHANGED <<create, pendingCreates>>
      BY <1>7 DEF DeleteStep, AbortDelete, NoVictim, PickVictim, StopVictim
    <2> QED
      BY <1>3, <2>1
  <1>8. CASE OtherStep
    <2>1. UNCHANGED <<create, pendingCreates>>
      BY <1>8 DEF OtherStep, CleanupStep, Reap, GiveBack, VMExit, StopBegin,
         StopJoin, StopDrain, StoreReplicas, TriggerScale, Pause, Resume
    <2> QED
      BY <1>3, <2>1
  <1> QED
    BY <1>4, <1>5, <1>6, <1>7, <1>8 DEF Next, OtherStep

\* pendingDeletes: a deletion that finds its victim stays counted until the
\* victim has been told to stop, and two deletions never share a victim.
LEMMA DeletesStep ==
    ASSUME PoolInv, Next
    PROVE  pendingDeletes' = deleters' + Cardinality(victims')
  <1> USE DEF apiVars, loopVars, countVars, hostVars, vmVars, stopVars
  <1>0. /\ TypeOK
        /\ victims \subseteq Runner
        /\ Cardinality(victims) \in Nat
        /\ pendingDeletes = deleters + Cardinality(victims)
        /\ deleters \in Nat
    BY RunnersFinite DEF PoolInv, CountersMatchGoroutines, TypeOK
  <1>1. ASSUME UNCHANGED <<pendingDeletes, deleters, victims>>
        PROVE  pendingDeletes' = deleters' + Cardinality(victims')
    BY <1>0, <1>1
  <1>2. CASE ScaleDown
    <2>1. Delta \in Int /\ curSize \in Nat
      BY <1>0 DEF Delta, TypeOK
    <2> QED
      BY <1>0, <1>2, <2>1 DEF ScaleDown, EndScale
  <1>3. CASE LoopStep /\ ~ScaleDown
    <2>1. UNCHANGED <<pendingDeletes, deleters, victims>>
      BY <1>3 DEF LoopStep, RunStart, WakeTriggered, WakeTimer, RunExit,
         ReadTarget, SkipScale, EnterScale, ReadSize, ReadCreates, Balanced,
         ScaleUp, EndScale
    <2> QED
      BY <1>1, <2>1
  <1>4. CASE AbortDelete BY <1>0, <1>4 DEF AbortDelete
  <1>5. CASE NoVictim    BY <1>0, <1>5 DEF NoVictim, AtMap
  <1>6. ASSUME NEW r \in Runner, PickVictim(r)
        PROVE  pendingDeletes' = deleters' + Cardinality(victims')
    <2>1. r \notin victims
      BY <1>6 DEF PickVictim, PoolInv, RunnerInv
    <2>2. Cardinality(victims') = Cardinality(victims) + 1
      BY <1>0, <1>6, <2>1, OneMore DEF PickVictim
    <2> QED
      BY <1>0, <1>6, <2>2 DEF PickVictim, AtMap
  <1>7. ASSUME NEW r \in Runner, StopVictim(r)
        PROVE  pendingDeletes' = deleters' + Cardinality(victims')
    <2>1. Cardinality(victims') = Cardinality(victims) - 1
      BY <1>0, <1>7, OneLess DEF StopVictim
    <2> QED
      BY <1>0, <1>7, <2>1 DEF StopVictim
  <1>8. ASSUME NEW r \in Runner, CreateStep(r)
        PROVE  pendingDeletes' = deleters' + Cardinality(victims')
    <2>1. UNCHANGED <<pendingDeletes, deleters, victims>>
      BY <1>8 DEF CreateStep, AcquireLease, AbortCreate, RegisterRunner,
         FailRegister, StartVM, FailStart, UndoCreate, InsertMachine,
         SpawnCleanup, FinishCreate
    <2> QED
      BY <1>1, <2>1
  <1>9. CASE OtherStep
    <2>1. UNCHANGED <<pendingDeletes, deleters, victims>>
      BY <1>9 DEF OtherStep, CleanupStep, Reap, GiveBack, VMExit, StopBegin,
         StopJoin, StopDrain, StoreReplicas, TriggerScale, Pause, Resume
    <2> QED
      BY <1>1, <2>1
  <1> QED
    BY <1>2, <1>3, <1>4, <1>5, <1>6, <1>7, <1>8, <1>9
       DEF Next, DeleteStep, OtherStep

\* The wait group: one Add before each cleanup goroutine, one Done at its end.
Cleaning == {r \in Runner : cleanup[r] # "none"}

LEMMA CleanupsStep ==
    ASSUME PoolInv, Next
    PROVE  cleanupWg' = Cardinality(Cleaning')
  <1> USE DEF apiVars, loopVars, countVars, hostVars, vmVars, stopVars
  <1>0. TypeOK /\ Cleaning \subseteq Runner /\ cleanupWg = Cardinality(Cleaning)
    BY DEF PoolInv, CountersMatchGoroutines, Cleaning
  <1>1. ASSUME UNCHANGED <<cleanup, cleanupWg>>
        PROVE  cleanupWg' = Cardinality(Cleaning')
    BY <1>0, <1>1 DEF Cleaning
  <1>2. ASSUME NEW r \in Runner, SpawnCleanup(r)
        PROVE  cleanupWg' = Cardinality(Cleaning')
    <2>1. cleanup[r] = "none"
      BY <1>2 DEF SpawnCleanup, PoolInv, RunnerInv
    <2>2. r \notin Cleaning /\ Cleaning' = Cleaning \cup {r}
      BY <1>0, <1>2, <2>1 DEF SpawnCleanup, Cleaning, TypeOK
    <2> QED
      BY <1>0, <1>2, <2>2, OneMore DEF SpawnCleanup
  <1>3. ASSUME NEW r \in Runner, CreateStep(r), ~SpawnCleanup(r)
        PROVE  cleanupWg' = Cardinality(Cleaning')
    <2>1. UNCHANGED <<cleanup, cleanupWg>>
      BY <1>3 DEF CreateStep, AcquireLease, AbortCreate, RegisterRunner,
         FailRegister, StartVM, FailStart, UndoCreate, InsertMachine,
         FinishCreate
    <2> QED
      BY <1>1, <2>1
  <1>4. ASSUME NEW r \in Runner, GiveBack(r)
        PROVE  cleanupWg' = Cardinality(Cleaning')
    <2>1. r \in Cleaning /\ Cleaning' = Cleaning \ {r}
      BY <1>0, <1>4 DEF GiveBack, Cleaning, TypeOK
    <2> QED
      BY <1>0, <1>4, <2>1, OneLess DEF GiveBack
  <1>5. ASSUME NEW r \in Runner, Reap(r)
        PROVE  cleanupWg' = Cardinality(Cleaning')
    <2>1. Cleaning' = Cleaning
      BY <1>0, <1>5 DEF Reap, Cleaning, TypeOK
    <2> QED
      BY <1>0, <1>5, <2>1 DEF Reap
  <1>6. CASE LoopStep
    <2>1. UNCHANGED <<cleanup, cleanupWg>>
      BY <1>6 DEF LoopStep, RunStart, WakeTriggered, WakeTimer, RunExit,
         ReadTarget, SkipScale, EnterScale, ReadSize, ReadCreates, Balanced, ScaleUp,
         ScaleDown, EndScale
    <2> QED
      BY <1>1, <2>1
  <1>7. CASE DeleteStep
    <2>1. UNCHANGED <<cleanup, cleanupWg>>
      BY <1>7 DEF DeleteStep, AbortDelete, NoVictim, PickVictim, StopVictim
    <2> QED
      BY <1>1, <2>1
  <1>8. ASSUME NEW r \in Runner, VMExit(r)
        PROVE  cleanupWg' = Cardinality(Cleaning')
    BY <1>1, <1>8 DEF VMExit
  <1>9. CASE \/ StopBegin \/ StopJoin \/ StopDrain
             \/ StoreReplicas \/ TriggerScale \/ Pause \/ Resume
    <2>1. UNCHANGED <<cleanup, cleanupWg>>
      BY <1>9 DEF StopBegin, StopJoin, StopDrain, StoreReplicas, TriggerScale,
         Pause, Resume
    <2> QED
      BY <1>1, <2>1
  <1> QED
    BY <1>2, <1>3, <1>4, <1>5, <1>6, <1>7, <1>8, <1>9 DEF Next, CleanupStep

-----------------------------------------------------------------------------
(* What the goroutines of one runner hold *)

LEMMA RunnerStep ==
    ASSUME TypeOK, \A r \in Runner : RunnerInv(r), Next, NEW q \in Runner
    PROVE  RunnerInv(q)'
  <1> USE DEF apiVars, loopVars, countVars, hostVars, vmVars, stopVars, RunnerInv, TypeOK
  <1>0. RunnerInv(q)
    OBVIOUS
  <1>1. ASSUME UNCHANGED <<create, cleanup, leases, machines, victims, vmVars,
                           ctxDone>>
        PROVE  RunnerInv(q)'
    BY <1>0, <1>1
  <1>2. CASE ScaleUp
    BY <1>0, <1>2 DEF ScaleUp, EndScale, Free
  <1>3. CASE LoopStep /\ ~ScaleUp
    <2>1. UNCHANGED <<create, cleanup, leases, machines, victims, vmVars,
                           ctxDone>>
      BY <1>3 DEF LoopStep, RunStart, WakeTriggered, WakeTimer, RunExit,
         ReadTarget, SkipScale, EnterScale, ReadSize, ReadCreates, Balanced, ScaleDown,
         EndScale
    <2> QED
      BY <1>1, <2>1
  <1>4. ASSUME NEW r \in Runner, CreateStep(r) PROVE RunnerInv(q)'
    <2>1. CASE AcquireLease(r)   BY <1>0, <2>1 DEF AcquireLease
    <2>2. CASE AbortCreate(r)    BY <1>0, <2>2 DEF AbortCreate, MaybeDone
    <2>3. CASE RegisterRunner(r) BY <1>0, <2>3 DEF RegisterRunner
    <2>4. CASE FailRegister(r)   BY <1>0, <2>4 DEF FailRegister, UndoCreate
    <2>5. CASE StartVM(r)        BY <1>0, <2>5 DEF StartVM
    <2>6. CASE FailStart(r)      BY <1>0, <2>6 DEF FailStart, UndoCreate
    <2>7. CASE InsertMachine(r)  BY <1>0, <2>7 DEF InsertMachine
    <2>8. CASE SpawnCleanup(r)   BY <1>0, <2>8 DEF SpawnCleanup
    <2>9. CASE FinishCreate(r)   BY <1>0, <2>9 DEF FinishCreate
    <2> QED
      BY <1>4, <2>1, <2>2, <2>3, <2>4, <2>5, <2>6, <2>7, <2>8, <2>9
         DEF CreateStep
  <1>5. CASE AbortDelete BY <1>1, <1>5 DEF AbortDelete
  <1>6. CASE NoVictim    BY <1>1, <1>6 DEF NoVictim
  <1>7. ASSUME NEW r \in Runner, PickVictim(r) PROVE RunnerInv(q)'
    BY <1>0, <1>7 DEF PickVictim
  <1>8. ASSUME NEW r \in Runner, StopVictim(r) PROVE RunnerInv(q)'
    BY <1>0, <1>8 DEF StopVictim, Stopping
  <1>9. ASSUME NEW r \in Runner, Reap(r) PROVE RunnerInv(q)'
    BY <1>0, <1>9 DEF Reap, WaitEnds
  <1>10. ASSUME NEW r \in Runner, GiveBack(r) PROVE RunnerInv(q)'
    BY <1>0, <1>10 DEF GiveBack
  <1>11. ASSUME NEW r \in Runner, VMExit(r) PROVE RunnerInv(q)'
    BY <1>0, <1>11 DEF VMExit
  <1>12. CASE StopBegin \/ StopJoin
    BY <1>0, <1>12 DEF StopBegin, StopJoin, Stopping
  <1>13. CASE StopDrain \/ StoreReplicas \/ TriggerScale \/ Pause \/ Resume
    <2>1. UNCHANGED <<create, cleanup, leases, machines, victims, vmVars,
                           ctxDone>>
      BY <1>13 DEF StopDrain, StoreReplicas, TriggerScale, Pause, Resume
    <2> QED
      BY <1>1, <2>1
  <1> QED
    BY <1>2, <1>3, <1>4, <1>5, <1>6, <1>7, <1>8, <1>9, <1>10, <1>11, <1>12,
       <1>13 DEF Next, DeleteStep, CleanupStep

-----------------------------------------------------------------------------
(* The theorems *)

LEMMA PoolInvStep == PoolInv /\ [Next]_vars => PoolInv'
  <1>1. ASSUME PoolInv, Next PROVE PoolInv'
    <2>1. TypeOK /\ CountersMatchGoroutines /\ \A r \in Runner : RunnerInv(r)
      BY <1>1 DEF PoolInv
    <2>2. OtherTypes'
      BY <1>1, <2>1, StepTypes
    <2>3. CountersMatchGoroutines'
      BY <1>1, <2>1, CreatesStep, DeletesStep, CleanupsStep
         DEF CountersMatchGoroutines, Cleaning
    <2>4. TypeOK'
      <3>1. /\ Cardinality(Creating') \in Nat
            /\ Cardinality(victims') \in Nat
            /\ Cardinality({r \in Runner : cleanup[r] # "none"}') \in Nat
        BY <2>2, RunnersFinite DEF OtherTypes, Creating
      <3>2. pendingCreates' \in Nat /\ pendingDeletes' \in Nat /\ cleanupWg' \in Nat
        BY <2>2, <2>3, <3>1 DEF CountersMatchGoroutines, OtherTypes
      <3> QED
        BY <2>2, <3>2 DEF TypeOK, OtherTypes
    <2>5. \A r \in Runner : RunnerInv(r)'
      BY <1>1, <2>1, RunnerStep
    <2> QED
      BY <2>3, <2>4, <2>5 DEF PoolInv
  <1>2. ASSUME PoolInv, UNCHANGED vars PROVE PoolInv'
    BY <1>2 DEF PoolInv, TypeOK, CountersMatchGoroutines, Creating, RunnerInv,
       vars, apiVars, loopVars, countVars, hostVars, vmVars, stopVars
  <1> QED
    BY <1>1, <1>2

\* The inductive invariant of the pool holds, whatever fails and whenever the
\* pool is stopped, paused or given another target.
THEOREM PoolInvariant == Spec => []PoolInv
  BY InitPoolInv, PoolInvStep, PTL DEF Spec

\* Every variable keeps its type; no pending counter of the pool and no wait
\* group is ever negative.
THEOREM TypeCorrect == Spec => []TypeOK
  <1>1. PoolInv => TypeOK
    BY DEF PoolInv
  <1> QED
    BY <1>1, PoolInvariant, PTL

\* The counters Scale and Stop work with count exactly the goroutines in
\* flight, on every path a goroutine can take to its end.
THEOREM CountersCorrect == Spec => []CountersMatchGoroutines
  <1>1. PoolInv => CountersMatchGoroutines
    BY DEF PoolInv
  <1> QED
    BY <1>1, PoolInvariant, PTL

\* A machine that is alive holds its lease; one that nothing waits for any
\* more, because its start failed or its wait expired, may have lost it, but not
\* before it was told to stop: by vmmCancel, or by the end of the pool's context.
THEOREM LeaseSafety == Spec => []LiveHoldsLease
  <1>1. PoolInv => LiveHoldsLease
    BY DEF PoolInv, RunnerInv, LiveHoldsLease
  <1> QED
    BY <1>1, PoolInvariant, PTL

=============================================================================
