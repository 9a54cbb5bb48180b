------------------------ MODULE PoolOwnershipProofs ------------------------
(***************************************************************************)
(* Proofs about Pool, on top of its inductive invariant: that nothing a    *)
(* pool holds outside is without an owner, that Stop drains, that no       *)
(* target is lost, and that Pool implements RunnerLifecycle.               *)
(***************************************************************************)
EXTENDS PoolProofs

-----------------------------------------------------------------------------
(* Owners *)

\* Nothing is left to strengthen in the three properties but that a pool that
\* is never stopped has a live context.
OwnerInv ==
    /\ RunningIsListed
    /\ LeaseIsOwned
    /\ RunnerIsOwned
    /\ ctxDone => Shutdown

LEMMA OwnerStep == PoolInv /\ OwnerInv /\ [Next]_vars => OwnerInv'
  <1> SUFFICES ASSUME PoolInv, OwnerInv, [Next]_vars PROVE OwnerInv'
    OBVIOUS
  <1> USE DEF apiVars, loopVars, countVars, hostVars, vmVars, stopVars
  <1>0. TypeOK /\ \A r \in Runner : RunnerInv(r)
    BY DEF PoolInv
  <1> USE DEF OwnerInv, RunningIsListed, LeaseIsOwned, RunnerIsOwned
  <1>1. ASSUME UNCHANGED <<create, cleanup, leases, registered, machines,
                           victims, vm, ctxDone>>
        PROVE  OwnerInv'
    BY <1>1
  <1>2. CASE ScaleUp
    BY <1>0, <1>2 DEF ScaleUp, EndScale, Free, TypeOK
  <1>3. CASE LoopStep /\ ~ScaleUp
    <2>1. UNCHANGED <<create, cleanup, leases, registered, machines, victims,
                      vm, ctxDone>>
      BY <1>3 DEF LoopStep, RunStart, WakeTriggered, WakeTimer, RunExit,
         ReadTarget, SkipScale, EnterScale, ReadSize, ReadCreates, Balanced, ScaleDown,
         EndScale
    <2> QED
      BY <1>1, <2>1
  <1>4. ASSUME NEW r \in Runner, CreateStep(r) PROVE OwnerInv'
    <2> USE <1>0 DEF TypeOK
    <2>1. CASE AcquireLease(r)   BY <2>1 DEF AcquireLease
    <2>2. CASE AbortCreate(r)    BY <2>2 DEF AbortCreate, MaybeDone, Fails
    <2>3. CASE RegisterRunner(r) BY <2>3 DEF RegisterRunner
    <2>4. CASE FailRegister(r)
      BY <2>4 DEF FailRegister, UndoCreate, MaybeDone, RunnerInv
    <2>5. CASE StartVM(r)        BY <2>5 DEF StartVM
    <2>6. CASE FailStart(r)
      BY <2>6 DEF FailStart, UndoCreate, Fails, RunnerInv
    <2>7. CASE InsertMachine(r)  BY <2>7 DEF InsertMachine
    <2>8. CASE SpawnCleanup(r)   BY <2>8 DEF SpawnCleanup, RunnerInv
    <2>9. CASE FinishCreate(r)   BY <2>9 DEF FinishCreate
    <2> QED
      BY <1>4, <2>1, <2>2, <2>3, <2>4, <2>5, <2>6, <2>7, <2>8, <2>9
         DEF CreateStep
  <1>5. CASE AbortDelete BY <1>5 DEF AbortDelete
  <1>6. CASE NoVictim    BY <1>6 DEF NoVictim
  <1>7. ASSUME NEW r \in Runner, PickVictim(r) PROVE OwnerInv'
    BY <1>0, <1>7 DEF PickVictim, TypeOK
  <1>8. ASSUME NEW r \in Runner, StopVictim(r) PROVE OwnerInv'
    BY <1>0, <1>8 DEF StopVictim, Stopping, TypeOK
  <1>9. ASSUME NEW r \in Runner, Reap(r) PROVE OwnerInv'
    BY <1>0, <1>9 DEF Reap, WaitEnds, TypeOK, RunnerInv
  <1>10. ASSUME NEW r \in Runner, GiveBack(r) PROVE OwnerInv'
    BY <1>0, <1>10 DEF GiveBack, TypeOK
  <1>11. ASSUME NEW r \in Runner, VMExit(r) PROVE OwnerInv'
    BY <1>0, <1>11 DEF VMExit, TypeOK
  <1>12. CASE StopBegin
    BY <1>0, <1>12 DEF StopBegin, Stopping, TypeOK
  <1>13. CASE StopJoin
    BY <1>0, <1>13 DEF StopJoin, Stopping, TypeOK
  <1>14. CASE StopDrain \/ StoreReplicas \/ TriggerScale \/ Pause \/ Resume
    <2>1. UNCHANGED <<create, cleanup, leases, registered, machines, victims,
                      vm, ctxDone>>
      BY <1>14 DEF StopDrain, StoreReplicas, TriggerScale, Pause, Resume
    <2> QED
      BY <1>1, <2>1
  <1>15. CASE UNCHANGED vars
    BY <1>1, <1>15 DEF vars
  <1> QED
    BY <1>2, <1>3, <1>4, <1>5, <1>6, <1>7, <1>8, <1>9, <1>10, <1>11, <1>12,
       <1>13, <1>14, <1>15 DEF Next, DeleteStep, CleanupStep

LEMMA OwnerHolds == Spec => []OwnerInv
  <1>1. Init => OwnerInv
    BY DEF Init, OwnerInv, RunningIsListed, LeaseIsOwned, RunnerIsOwned
  <1> QED
    BY <1>1, OwnerStep, PoolInvariant, PTL DEF Spec

\* A machine that runs is listed, or about to be, or about to be stopped.
THEOREM RunningListed == Spec => []RunningIsListed
  <1>1. OwnerInv => RunningIsListed
    BY DEF OwnerInv
  <1> QED
    BY <1>1, OwnerHolds, PTL

\* A lease has a goroutine that gives it back.
THEOREM LeaseOwned == Spec => []LeaseIsOwned
  <1>1. OwnerInv => LeaseIsOwned
    BY DEF OwnerInv
  <1> QED
    BY <1>1, OwnerHolds, PTL

\* A registration has a goroutine that removes it.
THEOREM RunnerOwned == Spec => []RunnerIsOwned
  <1>1. OwnerInv => RunnerIsOwned
    BY DEF OwnerInv
  <1> QED
    BY <1>1, OwnerHolds, PTL

-----------------------------------------------------------------------------
(* The target *)

\* From the moment the loop has read a target until it is about to read the
\* next one, a target that is not current has a call that will still trigger.
TargetInv ==
    (run \in {"select", "scale", "size", "creates", "deletes"} /\ ~trigger /\ setters = 0)
        => desired = replicas

LEMMA TargetStep == TypeOK /\ TargetInv /\ [Next]_vars => TargetInv'
  <1> SUFFICES ASSUME TypeOK, TargetInv, [Next]_vars PROVE TargetInv'
    OBVIOUS
  <1> USE DEF apiVars, loopVars, countVars, hostVars, vmVars, stopVars, TargetInv
  <1>1. ASSUME UNCHANGED <<run, trigger, setters, desired, replicas>>
        PROVE  TargetInv'
    BY <1>1
  <1>2. CASE LoopStep
    BY <1>2 DEF LoopStep, RunStart, WakeTriggered, WakeTimer, RunExit,
       ReadTarget, SkipScale, EnterScale, ReadSize, ReadCreates, Balanced, ScaleUp,
       ScaleDown, EndScale
  <1>3. CASE StoreReplicas
    <2>1. setters' # 0
      BY <1>3 DEF StoreReplicas, TypeOK
    <2> QED
      BY <2>1
  <1>4. CASE TriggerScale
    BY <1>4 DEF TriggerScale
  <1>5. ASSUME NEW r \in Runner, CreateStep(r) PROVE TargetInv'
    <2>1. UNCHANGED <<run, trigger, setters, desired, replicas>>
      BY <1>5 DEF CreateStep, AcquireLease, AbortCreate, RegisterRunner,
         FailRegister, StartVM, FailStart, UndoCreate, InsertMachine,
         SpawnCleanup, FinishCreate
    <2> QED
      BY <1>1, <2>1
  <1>6. CASE \/ DeleteStep \/ StopBegin \/ StopJoin \/ StopDrain \/ Pause \/ Resume
             \/ \E r \in Runner : CleanupStep(r) \/ VMExit(r)
    <2>1. UNCHANGED <<run, trigger, setters, desired, replicas>>
      BY <1>6 DEF DeleteStep, AbortDelete, NoVictim, PickVictim, StopVictim,
         CleanupStep, Reap, GiveBack, VMExit, StopBegin, StopJoin, StopDrain,
         Pause, Resume
    <2> QED
      BY <1>1, <2>1
  <1>7. CASE UNCHANGED vars
    BY <1>1, <1>7 DEF vars
  <1> QED
    BY <1>2, <1>3, <1>4, <1>5, <1>6, <1>7 DEF Next

\* However many calls of SetReplicas overlap, and though the trigger channel
\* holds one token, the loop never goes to sleep on a target that is not the
\* last one stored.
THEOREM TargetKept == Spec => []NoTargetLost
  <1>1. Init => TargetInv
    BY DEF Init, TargetInv
  <1>2. TargetInv => NoTargetLost
    BY DEF TargetInv, NoTargetLost
  <1> QED
    BY <1>1, <1>2, TargetStep, TypeCorrect, PTL DEF Spec

-----------------------------------------------------------------------------
(* Stop *)

\* When Stop has joined Run, the runners that are not late have no creator and
\* get none any more; when the wait group was empty, they have no watcher.
DrainInv ==
    /\ (stop \in {"draining", "returned"} /\ ~timedOut)
          => run = "done" /\ \A r \in Runner \ late : create[r] = "idle"
    /\ (stop = "returned" /\ ~timedOut)
          => \A r \in Runner \ late : cleanup[r] = "none"

LEMMA DrainStep == PoolInv /\ DrainInv /\ [Next]_vars => DrainInv'
  <1> SUFFICES ASSUME PoolInv, DrainInv, [Next]_vars PROVE DrainInv'
    OBVIOUS
  <1> USE DEF apiVars, loopVars, countVars, hostVars, vmVars, stopVars, DrainInv
  <1>0. TypeOK /\ CountersMatchGoroutines /\ \A r \in Runner : RunnerInv(r)
    BY DEF PoolInv
  <1>1. ASSUME UNCHANGED <<run, create, cleanup, stopVars>> PROVE DrainInv'
    BY <1>1
  <1>2. CASE LoopStep
    BY <1>0, <1>2 DEF LoopStep, RunStart, WakeTriggered, WakeTimer, RunExit,
       ReadTarget, SkipScale, EnterScale, ReadSize, ReadCreates, Balanced, ScaleUp,
       ScaleDown, EndScale
  <1>3. ASSUME NEW r \in Runner, CreateStep(r) PROVE DrainInv'
    <2>1. UNCHANGED <<run, stopVars>> /\ create[r] # "idle"
      BY <1>3 DEF CreateStep, AcquireLease, AbortCreate, RegisterRunner,
         FailRegister, StartVM, FailStart, UndoCreate, InsertMachine,
         SpawnCleanup, FinishCreate
    <2>2. \A q \in Runner \ {r} : create'[q] = create[q] /\ cleanup'[q] = cleanup[q]
      BY <1>0, <1>3 DEF TypeOK, CreateStep, AcquireLease, AbortCreate,
         RegisterRunner, FailRegister, StartVM, FailStart, UndoCreate,
         InsertMachine, SpawnCleanup, FinishCreate
    <2> QED
      BY <2>1, <2>2
  <1>4. CASE DeleteStep
    <2>1. UNCHANGED <<run, create, cleanup, stopVars>>
      BY <1>4 DEF DeleteStep, AbortDelete, NoVictim, PickVictim, StopVictim
    <2> QED
      BY <1>1, <2>1
  <1>5. ASSUME NEW r \in Runner, CleanupStep(r) \/ VMExit(r) PROVE DrainInv'
    BY <1>0, <1>5 DEF TypeOK, CleanupStep, Reap, GiveBack, VMExit
  <1>6. CASE StopBegin
    BY <1>6 DEF StopBegin
  <1>7. CASE StopJoin
    BY <1>0, <1>7 DEF StopJoin, TypeOK
  <1>8. CASE StopDrain
    <2>1. ASSUME ~timedOut' PROVE \A r \in Runner : cleanup[r] = "none"
      <3>1. cleanupWg = 0
        BY <1>8, <2>1 DEF StopDrain
      <3>2. Cardinality(Cleaning) = 0 /\ IsFiniteSet(Cleaning)
        BY <1>0, <3>1, RunnersFinite DEF CountersMatchGoroutines, Cleaning
      <3>3. Cleaning = {}
        BY <3>2, FS_EmptySet
      <3> QED
        BY <3>3 DEF Cleaning
    <2>2. ~timedOut' => ~timedOut
      BY <1>0, <1>8 DEF StopDrain, TypeOK
    <2> QED
      BY <1>8, <2>1, <2>2 DEF StopDrain
  <1>9. CASE StoreReplicas \/ TriggerScale \/ Pause \/ Resume
    <2>1. UNCHANGED <<run, create, cleanup, stopVars>>
      BY <1>9 DEF StoreReplicas, TriggerScale, Pause, Resume
    <2> QED
      BY <1>1, <2>1
  <1>10. CASE UNCHANGED vars
    BY <1>1, <1>10 DEF vars
  <1> QED
    BY <1>2, <1>3, <1>4, <1>5, <1>6, <1>7, <1>8, <1>9, <1>10 DEF Next

\* A Stop whose waits did not expire leaves nothing of the runners whose
\* creation had ended when it joined Run.
THEOREM StopDrains == Spec => []StopDrainsSettled
  <1>1. Init => DrainInv
    BY DEF Init, DrainInv
  <1>2. Spec => []DrainInv
    BY <1>1, DrainStep, PoolInvariant, PTL DEF Spec
  <1>3. PoolInv /\ LeaseIsOwned /\ DrainInv => StopDrainsSettled
    <2> SUFFICES ASSUME PoolInv, LeaseIsOwned, DrainInv,
                        stop = "returned", ~timedOut, NEW r \in Runner \ late
                 PROVE  /\ r \notin machines
                        /\ vm[r] = "off" \/ r \in abandoned
                        /\ cleanup[r] = "none"
                        /\ {"reply", "release"} \cap Faults = {} => r \notin leases
      BY DEF StopDrainsSettled
    <2>1. create[r] = "idle" /\ cleanup[r] = "none"
      BY DEF DrainInv
    <2> QED
      BY <2>1 DEF PoolInv, RunnerInv, LeaseIsOwned
  <1> QED
    BY <1>2, <1>3, PoolInvariant, LeaseOwned, PTL

-----------------------------------------------------------------------------
(* Pool implements RunnerLifecycle *)

\* What a creation has and has not taken at each of its positions.
StageInv(r) ==
    /\ create[r] = "spawned" => r \notin leases \cup registered
    /\ create[r] = "leased" => r \notin registered
    /\ create[r] = "registered" => r \in registered

LEMMA StageStep ==
    ASSUME PoolInv, \A r \in Runner : StageInv(r), [Next]_vars, NEW q \in Runner
    PROVE  StageInv(q)'
  <1> USE DEF apiVars, loopVars, countVars, hostVars, vmVars, stopVars, StageInv
  <1>0. TypeOK /\ StageInv(q) /\ \A r \in Runner : RunnerInv(r)
    BY DEF PoolInv
  <1>1. ASSUME UNCHANGED <<create, leases, registered>> PROVE StageInv(q)'
    BY <1>0, <1>1
  <1>2. CASE ScaleUp
    BY <1>0, <1>2 DEF ScaleUp, EndScale, Free
  <1>3. CASE LoopStep /\ ~ScaleUp
    <2>1. UNCHANGED <<create, leases, registered>>
      BY <1>3 DEF LoopStep, RunStart, WakeTriggered, WakeTimer, RunExit,
         ReadTarget, SkipScale, EnterScale, ReadSize, ReadCreates, Balanced, ScaleDown,
         EndScale
    <2> QED
      BY <1>1, <2>1
  <1>4. ASSUME NEW r \in Runner, CreateStep(r) PROVE StageInv(q)'
    <2> USE <1>0 DEF TypeOK
    <2>1. CASE AcquireLease(r)   BY <2>1 DEF AcquireLease
    <2>2. CASE AbortCreate(r)    BY <2>2 DEF AbortCreate, MaybeDone
    <2>3. CASE RegisterRunner(r) BY <2>3 DEF RegisterRunner
    <2>4. CASE FailRegister(r)   BY <2>4 DEF FailRegister, UndoCreate, MaybeDone
    <2>5. CASE StartVM(r)        BY <2>5 DEF StartVM
    <2>6. CASE FailStart(r)      BY <2>6 DEF FailStart, UndoCreate
    <2>7. CASE InsertMachine(r)  BY <2>7 DEF InsertMachine
    <2>8. CASE SpawnCleanup(r)   BY <2>8 DEF SpawnCleanup
    <2>9. CASE FinishCreate(r)   BY <2>9 DEF FinishCreate
    <2> QED
      BY <1>4, <2>1, <2>2, <2>3, <2>4, <2>5, <2>6, <2>7, <2>8, <2>9
         DEF CreateStep
  <1>5. CASE AbortDelete \/ NoVictim \/ \E r \in Runner : PickVictim(r)
    BY <1>1, <1>5 DEF AbortDelete, NoVictim, PickVictim
  <1>6. ASSUME NEW r \in Runner, StopVictim(r) PROVE StageInv(q)'
    BY <1>1, <1>6 DEF StopVictim
  <1>7. ASSUME NEW r \in Runner, Reap(r) PROVE StageInv(q)'
    BY <1>1, <1>7 DEF Reap
  <1>8. ASSUME NEW r \in Runner, GiveBack(r) PROVE StageInv(q)'
    BY <1>0, <1>8 DEF GiveBack, TypeOK, RunnerInv
  <1>9. ASSUME NEW r \in Runner, VMExit(r) PROVE StageInv(q)'
    BY <1>0, <1>9 DEF VMExit, TypeOK, RunnerInv
  <1>10. CASE StopBegin \/ StopJoin \/ StopDrain
    BY <1>1, <1>10 DEF StopBegin, StopJoin, StopDrain
  <1>11. CASE StoreReplicas \/ TriggerScale \/ Pause \/ Resume
    BY <1>1, <1>11 DEF StoreReplicas, TriggerScale, Pause, Resume
  <1>12. CASE UNCHANGED vars
    BY <1>1, <1>12 DEF vars
  <1> QED
    BY <1>2, <1>3, <1>4, <1>5, <1>6, <1>7, <1>8, <1>9, <1>10, <1>11, <1>12
       DEF Next, DeleteStep, CleanupStep

LEMMA LifecycleStep ==
    ASSUME PoolInv, \A r \in Runner : StageInv(r), [Next]_vars
    PROVE  Lifecycle!Next \/ UNCHANGED <<vm, leases, registered>>
  <1> DEFINE Hidden == UNCHANGED <<vm, leases, registered>>
  <1> USE DEF apiVars, loopVars, countVars, hostVars, vmVars, stopVars
  <1>0. TypeOK /\ \A r \in Runner : RunnerInv(r)
    BY DEF PoolInv
  <1>1. CASE LoopStep
    <2>1. Hidden
      BY <1>1 DEF LoopStep, RunStart, WakeTriggered, WakeTimer, RunExit,
         ReadTarget, SkipScale, EnterScale, ReadSize, ReadCreates, Balanced,
         ScaleUp, ScaleDown, EndScale
    <2> QED
      BY <2>1
  <1>2. ASSUME NEW r \in Runner, CreateStep(r) PROVE Lifecycle!Next \/ Hidden
    <2>0. StageInv(r) /\ RunnerInv(r)
      BY <1>0
    <2>1. CASE AcquireLease(r)
      <3>1. Lifecycle!Lease(r)
        BY <2>0, <2>1 DEF AcquireLease, Lifecycle!Lease, StageInv, RunnerInv
      <3> QED
        BY <3>1 DEF Lifecycle!Next
    <2>2. CASE AbortCreate(r)
      <3>1. Lifecycle!Lease(r) \/ Hidden
        BY <2>0, <2>2 DEF AbortCreate, MaybeDone, Lifecycle!Lease, StageInv,
           RunnerInv
      <3> QED
        BY <3>1 DEF Lifecycle!Next
    <2>3. CASE RegisterRunner(r)
      <3>1. Lifecycle!Register(r)
        BY <2>0, <2>3 DEF RegisterRunner, Lifecycle!Register, StageInv, RunnerInv
      <3> QED
        BY <3>1 DEF Lifecycle!Next
    <2>4. CASE FailRegister(r)
      <3>1. vm' = [vm EXCEPT ![r] = "off"]
        BY <1>0, <2>0, <2>4 DEF FailRegister, RunnerInv, TypeOK
      <3>2. Lifecycle!Abandon(r)
        BY <2>0, <2>4, <3>1 DEF FailRegister, UndoCreate, MaybeDone,
           Lifecycle!Abandon, Lifecycle!Without, StageInv, RunnerInv
      <3> QED
        BY <3>2 DEF Lifecycle!Next
    <2>5. CASE StartVM(r)
      <3>1. Lifecycle!Start(r)
        BY <2>0, <2>5 DEF StartVM, Lifecycle!Start, StageInv, RunnerInv
      <3> QED
        BY <3>1 DEF Lifecycle!Next
    <2>6. CASE FailStart(r)
      <3>1. \E s \in {"off", "stopping"} : vm' = [vm EXCEPT ![r] = s]
        BY <1>0, <2>0, <2>6 DEF FailStart, RunnerInv, TypeOK
      <3>2. Lifecycle!Abandon(r)
        BY <2>0, <2>6, <3>1 DEF FailStart, UndoCreate, Lifecycle!Abandon,
           Lifecycle!Without, RunnerInv
      <3> QED
        BY <3>2 DEF Lifecycle!Next
    <2>7. CASE InsertMachine(r) \/ SpawnCleanup(r) \/ FinishCreate(r)
      BY <2>7 DEF InsertMachine, SpawnCleanup, FinishCreate
    <2> QED
      BY <1>2, <2>1, <2>2, <2>3, <2>4, <2>5, <2>6, <2>7 DEF CreateStep
  <1>3. CASE AbortDelete \/ NoVictim \/ \E r \in Runner : PickVictim(r)
    BY <1>3 DEF AbortDelete, NoVictim, PickVictim
  <1>4. ASSUME NEW S \in SUBSET Runner, UNCHANGED <<leases, registered>>,
               vm' = [r \in Runner |-> IF r \in S THEN Stopping(r) ELSE vm[r]]
        PROVE  Lifecycle!Next
    <2> DEFINE T == {r \in S : vm[r] = "running"}
    <2>1. T \in SUBSET {r \in Runner : vm[r] = "running"}
      OBVIOUS
    <2>2. vm' = [r \in Runner |-> IF r \in T THEN "stopping" ELSE vm[r]]
      BY <1>4 DEF Stopping
    <2>3. Lifecycle!Signal
      BY <1>4, <2>1, <2>2 DEF Lifecycle!Signal
    <2> QED
      BY <2>3 DEF Lifecycle!Next
  <1>5. ASSUME NEW r \in Runner, StopVictim(r) PROVE Lifecycle!Next \/ Hidden
    <2>1. CASE vm' = [vm EXCEPT ![r] = vm[r]]
      BY <1>0, <1>5, <2>1 DEF StopVictim, TypeOK
    <2>2. CASE vm' = [vm EXCEPT ![r] = Stopping(r)]
      <3>1. vm' = [q \in Runner |-> IF q \in {r} THEN Stopping(q) ELSE vm[q]]
        BY <1>0, <2>2 DEF TypeOK
      <3> QED
        BY <1>4, <1>5, <3>1 DEF StopVictim
    <2> QED
      BY <1>5, <2>1, <2>2 DEF StopVictim
  <1>6. ASSUME NEW r \in Runner, Reap(r) PROVE Hidden
    BY <1>6 DEF Reap
  <1>7. ASSUME NEW r \in Runner, GiveBack(r) PROVE Lifecycle!Next
    <2>1. vm[r] # "running"
      BY <1>0, <1>7 DEF GiveBack, RunnerInv, TypeOK
    <2>2. Lifecycle!GiveBack(r)
      BY <1>7, <2>1 DEF GiveBack, Lifecycle!GiveBack, Lifecycle!Without
    <2> QED
      BY <2>2 DEF Lifecycle!Next
  <1>8. ASSUME NEW r \in Runner, VMExit(r) PROVE Lifecycle!Next
    <2>1. Lifecycle!Exit(r)
      BY <1>8 DEF VMExit, Lifecycle!Exit, Lifecycle!Without
    <2> QED
      BY <2>1 DEF Lifecycle!Next
  <1>9. CASE StopJoin
    <2>1. PICK S \in SUBSET machines :
             vm' = [r \in Runner |-> IF r \in S THEN Stopping(r) ELSE vm[r]]
      BY <1>9 DEF StopJoin
    <2>2. S \in SUBSET Runner
      BY <1>0 DEF TypeOK
    <2> QED
      BY <1>4, <1>9, <2>1, <2>2 DEF StopJoin
  <1>10. CASE StopBegin
    <2>1. vm' = [r \in Runner |-> IF r \in Runner THEN Stopping(r) ELSE vm[r]]
      BY <1>10 DEF StopBegin
    <2> QED
      BY <1>4, <1>10, <2>1 DEF StopBegin
  <1>11. CASE StopDrain \/ StoreReplicas \/ TriggerScale \/ Pause \/ Resume
    BY <1>11 DEF StopDrain, StoreReplicas, TriggerScale, Pause, Resume
  <1>12. CASE UNCHANGED vars
    BY <1>12 DEF vars
  <1> QED
    BY <1>1, <1>2, <1>3, <1>5, <1>6, <1>7, <1>8, <1>9, <1>10, <1>11,
       <1>12 DEF Next, DeleteStep, CleanupStep

\* Pool implements RunnerLifecycle: whatever its goroutines, the failures of
\* the remote calls and Stop do, a machine is started only on a lease and a
\* registration, and keeps its lease until it has been told to stop.
THEOREM PoolImplementsLifecycle == Spec => KeepsLifecycle
  <1>1. Init => Lifecycle!Init
    BY DEF Init, Lifecycle!Init
  <1>2. Init => \A r \in Runner : StageInv(r)
    BY DEF Init, StageInv
  <1>3. Spec => [](\A r \in Runner : StageInv(r))
    <2>1. PoolInv /\ (\A r \in Runner : StageInv(r)) /\ [Next]_vars
            => (\A r \in Runner : StageInv(r))'
      BY StageStep
    <2> QED
      BY <1>2, <2>1, PoolInvariant, PTL DEF Spec
  <1>4. PoolInv /\ (\A r \in Runner : StageInv(r)) /\ [Next]_vars
          => [Lifecycle!Next]_<<vm, leases, registered>>
    BY LifecycleStep
  <1> QED
    BY <1>1, <1>3, <1>4, PoolInvariant, PTL DEF Spec, KeepsLifecycle, Lifecycle!Spec

=============================================================================
