-------------------------------- MODULE Pool --------------------------------
(***************************************************************************)
(* One pool of src/server/pool.go: the Run loop that scales it, the        *)
(* goroutines that create and delete its virtual machines, the cleanup     *)
(* goroutine that watches each machine, Stop, and the calls of the RPC     *)
(* handlers.                                                               *)
(*                                                                         *)
(* A runner is one virtual machine together with what the pool takes for   *)
(* it outside the process: a containerd lease and a registration at        *)
(* GitHub.  A name of Runner is used again once nothing of it is left; the *)
(* code draws a fresh random name each time.                               *)
(*                                                                         *)
(* A step ends where another goroutine, a remote service or a virtual      *)
(* machine can be seen to have moved: at an access to machines, replicas,  *)
(* isActive, a pending counter, the context or a channel, and at each      *)
(* remote call.                                                            *)
(***************************************************************************)
EXTENDS Integers, FiniteSets

CONSTANTS
    Runner,      \* names of runners: bounds how many exist at one time
    Replicas,    \* values SetReplicas is called with
    MaxSetters,  \* SetReplicas calls between their store and their trigger
    Faults,      \* failures of the environment that may happen
    Shutdown     \* whether Stop is ever called

\* lease, register, start, stop, unregister, release: the remote call, or the
\* firecracker call, of that name fails with no effect.  reply: a call that
\* fails may have had its effect.  timeout: the waits of Stop (5 s and 35 s)
\* and of a cleanup goroutine (30 s) may expire.
FaultPoint == {"lease", "register", "start", "stop", "unregister", "release",
               "reply", "timeout"}

ASSUME RunnerAssumption   == IsFiniteSet(Runner)
ASSUME ReplicasAssumption == Replicas \subseteq Int /\ Replicas \cap Nat # {}
ASSUME SettersAssumption  == MaxSetters \in Nat
ASSUME FaultsAssumption   == Faults \subseteq FaultPoint
ASSUME ShutdownAssumption == Shutdown \in BOOLEAN

VARIABLES
    \* fields of Pool that the RPC handlers write
    replicas, isActive, trigger, setters,
    \* the Run loop: its position, the last target it read, the sizes it read
    run, desired, curSize, creates,
    \* the other shared fields
    ctxDone, pendingCreates, pendingDeletes, machines, cleanupWg,
    \* per runner: the goroutine creating it, the goroutine cleaning it up
    create, cleanup,
    \* the goroutines deleting machines
    deleters, checked, victims,
    \* outside the process: the machines, containerd's leases and GitHub's
    \* runners; abandoned is a history of the machines nothing waits for any more
    vm, abandoned, leases, registered,
    \* Stop: its position, whether one of its waits expired, and the runners
    \* whose creation was under way when it had joined Run
    stop, timedOut, late

apiVars   == <<replicas, isActive, setters>>
loopVars  == <<run, desired, curSize, creates>>
countVars == <<pendingCreates, pendingDeletes, cleanupWg>>
vmVars    == <<vm, abandoned>>
hostVars  == <<vmVars, leases, registered>>
stopVars  == <<ctxDone, stop, timedOut, late>>
vars == <<apiVars, trigger, loopVars, countVars, machines, create, cleanup,
          deleters, checked, victims, hostVars, stopVars>>

RunState     == {"start", "select", "check", "scale", "size", "creates",
                 "deletes", "done"}
CreateState  == {"idle", "spawned", "leased", "registered", "started",
                 "inserted", "done"}
CleanupState == {"none", "wait", "reaped"}
StopState    == {"idle", "joining", "draining", "returned"}

\* Every variable has its type: the loop, the goroutines and Stop stay within
\* their positions and the pending counters of Pool are never negative.
TypeOK ==
    /\ replicas \in Replicas
    /\ isActive \in BOOLEAN
    /\ trigger \in BOOLEAN
    /\ setters \in 0 .. MaxSetters
    /\ run \in RunState
    /\ desired \in Replicas \cup {0}
    /\ curSize \in Nat
    /\ creates \in Nat
    /\ ctxDone \in BOOLEAN
    /\ pendingCreates \in Nat
    /\ pendingDeletes \in Nat
    /\ cleanupWg \in Nat
    /\ machines \subseteq Runner
    /\ create \in [Runner -> CreateState]
    /\ cleanup \in [Runner -> CleanupState]
    /\ deleters \in Nat
    /\ checked \in Nat
    /\ victims \subseteq Runner
    /\ vm \in [Runner -> {"off", "running", "stopping"}]
    /\ abandoned \subseteq Runner
    /\ leases \subseteq Runner
    /\ registered \subseteq Runner
    /\ stop \in StopState
    /\ timedOut \in BOOLEAN
    /\ late \subseteq Runner

\* NewPool: an active pool with the configured replicas and nothing running.
Init ==
    /\ replicas \in Replicas \cap Nat
    /\ isActive = TRUE
    /\ trigger = FALSE
    /\ setters = 0
    /\ run = "start"
    /\ desired = 0
    /\ curSize = 0
    /\ creates = 0
    /\ ctxDone = FALSE
    /\ pendingCreates = 0
    /\ pendingDeletes = 0
    /\ cleanupWg = 0
    /\ machines = {}
    /\ create = [r \in Runner |-> "idle"]
    /\ cleanup = [r \in Runner |-> "none"]
    /\ deleters = 0
    /\ checked = 0
    /\ victims = {}
    /\ vm = [r \in Runner |-> "off"]
    /\ abandoned = {}
    /\ leases = {}
    /\ registered = {}
    /\ stop = "idle"
    /\ timedOut = FALSE
    /\ late = {}

\* The names nothing is left of.
Free == {r \in Runner : /\ create[r] = "idle"
                        /\ cleanup[r] = "none"
                        /\ vm[r] = "off"
                        /\ r \notin machines \cup victims \cup leases \cup registered}

\* A machine told to stop: SIGTERM, or its context cancelled.
Stopping(r) == IF vm[r] = "running" THEN "stopping" ELSE vm[r]

-----------------------------------------------------------------------------
(* The Run loop *)

\* Run starts and triggers the first scaling itself.
RunStart ==
    /\ run = "start"
    /\ run' = "select"
    /\ trigger' = TRUE
    /\ UNCHANGED <<apiVars, desired, curSize, creates, countVars, machines,
                   create, cleanup, deleters, checked, victims, hostVars,
                   stopVars>>

\* The select of Run receives the trigger ...
WakeTriggered ==
    /\ run = "select" /\ trigger
    /\ run' = "check"
    /\ trigger' = FALSE
    /\ UNCHANGED <<apiVars, desired, curSize, creates, countVars, machines,
                   create, cleanup, deleters, checked, victims, hostVars,
                   stopVars>>

\* ... or its 2 s timer ...
WakeTimer ==
    /\ run = "select"
    /\ run' = "check"
    /\ UNCHANGED <<apiVars, trigger, desired, curSize, creates, countVars,
                   machines, create, cleanup, deleters, checked, victims,
                   hostVars, stopVars>>

\* ... or, as the second, non-blocking select does, the end of the pool
\* (Stop cancels the context before it sends on stopCh: the context is enough).
RunExit ==
    /\ run \in {"select", "check"} /\ ctxDone
    /\ run' = "done"
    /\ UNCHANGED <<apiVars, trigger, desired, curSize, creates, countVars,
                   machines, create, cleanup, deleters, checked, victims,
                   hostVars, stopVars>>

\* The target of this pass is read once, before the pause is looked at.
ReadTarget ==
    /\ run = "check" /\ ~ctxDone
    /\ run' = "scale"
    /\ desired' = replicas
    /\ UNCHANGED <<apiVars, trigger, curSize, creates, countVars, machines,
                   create, cleanup, deleters, checked, victims, hostVars,
                   stopVars>>

\* Mutant of SkipScale: going back to the select, it drains the trigger.
SkipScaleDrains ==
    /\ run = "scale" /\ (~isActive \/ ctxDone)
    /\ run' = "select"
    /\ trigger' = FALSE
    /\ UNCHANGED <<apiVars, desired, curSize, creates, countVars, machines,
                   create, cleanup, deleters, checked, victims, hostVars,
                   stopVars>>

\* A paused pool skips Scale, and Scale returns at once on a cancelled context.
SkipScale ==
    /\ run = "scale" /\ (~isActive \/ ctxDone)
    /\ run' = "select"
    /\ UNCHANGED <<apiVars, trigger, desired, curSize, creates, countVars,
                   machines, create, cleanup, deleters, checked, victims,
                   hostVars, stopVars>>

\* An active pool enters Scale, whatever Pause and Stop do from here on.
\* (They touch nothing that Scale reads: isActive and the context are looked
\* at in one step.)
EnterScale ==
    /\ run = "scale" /\ isActive /\ ~ctxDone
    /\ run' = "size"
    /\ UNCHANGED <<apiVars, trigger, desired, curSize, creates, countVars,
                   machines, create, cleanup, deleters, checked, victims,
                   hostVars, stopVars>>

\* Scale reads the number of machines, ...
ReadSize ==
    /\ run = "size"
    /\ run' = "creates"
    /\ curSize' = Cardinality(machines)
    /\ UNCHANGED <<apiVars, trigger, desired, creates, countVars, machines,
                   create, cleanup, deleters, checked, victims, hostVars,
                   stopVars>>

\* ... then the creations in flight ...
ReadCreates ==
    /\ run = "creates"
    /\ run' = "deletes"
    /\ creates' = pendingCreates
    /\ UNCHANGED <<apiVars, trigger, desired, curSize, countVars, machines,
                   create, cleanup, deleters, checked, victims, hostVars,
                   stopVars>>

\* ... and last the deletions in flight, which gives the difference to make up.
Delta == desired - (curSize + creates - pendingDeletes)

EndScale ==
    /\ run = "deletes"
    /\ run' = "select"
    /\ curSize' = 0 /\ creates' = 0     \* the locals of Scale are gone
    /\ UNCHANGED <<apiVars, trigger, desired, cleanupWg, machines, cleanup,
                   checked, victims, hostVars, stopVars>>

Balanced ==
    /\ Delta = 0
    /\ EndScale
    /\ UNCHANGED <<pendingCreates, pendingDeletes, create, deleters>>

\* One goroutine per missing machine.  Those no name is left for stand for
\* goroutines that fail before they take anything.
ScaleUp ==
    /\ Delta > 0
    /\ EndScale
    /\ \E S \in SUBSET Free :
          /\ \/ Cardinality(S) = Delta
             \/ Cardinality(S) < Delta /\ S = Free
          /\ pendingCreates' = pendingCreates + Cardinality(S)
          /\ create' = [r \in Runner |-> IF r \in S THEN "spawned" ELSE create[r]]
    /\ UNCHANGED <<pendingDeletes, deleters>>

\* One goroutine per machine too many, but no more than there were machines.
ScaleDown ==
    /\ Delta < 0
    /\ EndScale
    /\ LET count == IF -Delta > curSize THEN curSize ELSE -Delta
       IN  /\ pendingDeletes' = pendingDeletes + count
           /\ deleters' = deleters + count
    /\ UNCHANGED <<pendingCreates, create>>

LoopStep == \/ RunStart \/ WakeTriggered \/ WakeTimer \/ RunExit \/ ReadTarget
            \/ SkipScale \/ EnterScale \/ ReadSize \/ ReadCreates \/ Balanced
            \/ ScaleUp \/ ScaleDown

-----------------------------------------------------------------------------
(* createMachine, in a goroutine of scaleUp *)

\* A remote call of createMachine may fail: it is given the pool's context.
Fails(call) == ctxDone \/ call \in Faults

\* Whether the call that failed was executed all the same: its answer was lost
\* or came after the context was cancelled.
MaybeDone(set, r) == {set} \cup IF "reply" \in Faults THEN {set \cup {r}} ELSE {}

\* The context is alive, the image is there and containerd grants a lease.
AcquireLease(r) ==
    /\ create[r] = "spawned" /\ ~ctxDone
    /\ create' = [create EXCEPT ![r] = "leased"]
    /\ leases' = leases \cup {r}
    /\ UNCHANGED <<apiVars, trigger, loopVars, countVars, machines, cleanup,
                   deleters, checked, victims, vmVars, registered,
                   stopVars>>

\* The context was cancelled, or the image or the lease was refused: nothing
\* to undo.
AbortCreate(r) ==
    /\ create[r] = "spawned" /\ Fails("lease")
    /\ create' = [create EXCEPT ![r] = "idle"]
    /\ pendingCreates' = pendingCreates - 1
    /\ leases' \in MaybeDone(leases, r)
    /\ UNCHANGED <<apiVars, trigger, loopVars, pendingDeletes, cleanupWg,
                   machines, cleanup, deleters, checked, victims, vmVars,
                   registered, stopVars>>

\* Snapshot, log file and machine configuration are made, and GitHub
\* registers the runner: GenerateOrgJITConfig.
RegisterRunner(r) ==
    /\ create[r] = "leased" /\ ~ctxDone
    /\ create' = [create EXCEPT ![r] = "registered"]
    /\ registered' = registered \cup {r}
    /\ UNCHANGED <<apiVars, trigger, loopVars, countVars, machines, cleanup,
                   deleters, checked, victims, vmVars, leases, stopVars>>

\* Start returns nil: from here on createMachine cannot fail.
StartVM(r) ==
    /\ create[r] = "registered" /\ ~ctxDone
    /\ create' = [create EXCEPT ![r] = "started"]
    /\ vm' = [vm EXCEPT ![r] = "running"]
    /\ UNCHANGED <<apiVars, trigger, loopVars, countVars, machines, cleanup,
                   deleters, checked, victims, abandoned, leases, registered,
                   stopVars>>

\* Mutant of UndoCreate: a failed creation keeps its lease.
UndoCreateKeepsLease(r) ==
    /\ create' = [create EXCEPT ![r] = "idle"]
    /\ pendingCreates' = pendingCreates - 1
    /\ UNCHANGED <<apiVars, trigger, loopVars, pendingDeletes, cleanupWg,
                   machines, cleanup, deleters, checked, victims, leases,
                   stopVars>>

\* A failure after the lease was granted: the deferred function gives the
\* lease back, its error is dropped, and the goroutine ends.
UndoCreate(r) ==
    /\ create' = [create EXCEPT ![r] = "idle"]
    /\ pendingCreates' = pendingCreates - 1
    /\ leases' \in {leases \ {r}} \cup IF "release" \in Faults THEN {leases} ELSE {}
    /\ UNCHANGED <<apiVars, trigger, loopVars, pendingDeletes, cleanupWg,
                   machines, cleanup, deleters, checked, victims, stopVars>>

\* The snapshot, the log file, the machine configuration, or GitHub's answer
\* fails.
FailRegister(r) ==
    /\ create[r] = "leased" /\ Fails("register")
    /\ registered' \in MaybeDone(registered, r)
    /\ UndoCreate(r)
    /\ UNCHANGED vmVars

\* Start fails; a process it had launched is told to stop by vmmCancel, and
\* nobody waits for its end.  The registration of the runner stays.
FailStart(r) ==
    /\ create[r] = "registered" /\ Fails("start")
    /\ \/ UNCHANGED vmVars
       \/ /\ vm' = [vm EXCEPT ![r] = "stopping"]
          /\ abandoned' = abandoned \cup {r}
    /\ UndoCreate(r)
    /\ UNCHANGED registered

InsertMachine(r) ==
    /\ create[r] = "started"
    /\ create' = [create EXCEPT ![r] = "inserted"]
    /\ machines' = machines \cup {r}
    /\ UNCHANGED <<apiVars, trigger, loopVars, countVars, cleanup, deleters,
                   checked, victims, hostVars, stopVars>>

\* Mutant of SpawnCleanup: the goroutine is not added to the wait group.
SpawnCleanupUnwaited(r) ==
    /\ create[r] = "inserted"
    /\ create' = [create EXCEPT ![r] = "done"]
    /\ cleanup' = [cleanup EXCEPT ![r] = "wait"]
    /\ UNCHANGED <<apiVars, trigger, loopVars, countVars, machines, deleters,
                   checked, victims, hostVars, stopVars>>

SpawnCleanup(r) ==
    /\ create[r] = "inserted"
    /\ create' = [create EXCEPT ![r] = "done"]
    /\ cleanupWg' = cleanupWg + 1
    /\ cleanup' = [cleanup EXCEPT ![r] = "wait"]
    /\ UNCHANGED <<apiVars, trigger, loopVars, pendingCreates, pendingDeletes,
                   machines, deleters, checked, victims, hostVars, stopVars>>

\* Mutant of FinishCreate: only a failed creation is taken off pendingCreates.
FinishCreateStaysPending(r) ==
    /\ create[r] = "done"
    /\ create' = [create EXCEPT ![r] = "idle"]
    /\ UNCHANGED <<apiVars, trigger, loopVars, countVars, machines, cleanup,
                   deleters, checked, victims, hostVars, stopVars>>

FinishCreate(r) ==
    /\ create[r] = "done"
    /\ create' = [create EXCEPT ![r] = "idle"]
    /\ pendingCreates' = pendingCreates - 1
    /\ UNCHANGED <<apiVars, trigger, loopVars, pendingDeletes, cleanupWg,
                   machines, cleanup, deleters, checked, victims, hostVars,
                   stopVars>>

CreateStep(r) ==
    \/ AcquireLease(r) \/ AbortCreate(r) \/ RegisterRunner(r) \/ FailRegister(r)
    \/ StartVM(r) \/ FailStart(r) \/ InsertMachine(r)
    \/ SpawnCleanup(r) \/ FinishCreate(r)

-----------------------------------------------------------------------------
(* deleteMachine, in a goroutine of scaleDown *)

\* A deleter looks at the context first.  Those that had when Stop cancelled
\* it, and have not reached the map yet, are the checked ones; before the
\* cancel it makes no difference whether a deleter has looked.
AbortDelete ==
    /\ ctxDone /\ deleters > checked
    /\ deleters' = deleters - 1
    /\ pendingDeletes' = pendingDeletes - 1
    /\ UNCHANGED <<apiVars, trigger, loopVars, pendingCreates, cleanupWg,
                   machines, create, cleanup, checked, victims, hostVars,
                   stopVars>>

\* A deleter that found the context alive has the lock of the map.
AtMap ==
    /\ deleters > 0
    /\ ctxDone => checked > 0
    /\ deleters' = deleters - 1
    /\ checked' = IF ctxDone THEN checked - 1 ELSE checked

\* The first machine of an iteration over a Go map is any machine.  It leaves
\* the map before it is told to stop.
PickVictim(r) ==
    /\ AtMap /\ r \in machines
    /\ machines' = machines \ {r}
    /\ victims' = victims \cup {r}
    /\ UNCHANGED <<apiVars, trigger, loopVars, countVars, create, cleanup,
                   hostVars, stopVars>>

\* No machine is left: deleteMachine returns an error.
NoVictim ==
    /\ AtMap /\ machines = {}
    /\ pendingDeletes' = pendingDeletes - 1
    /\ UNCHANGED <<apiVars, trigger, loopVars, pendingCreates, cleanupWg,
                   machines, create, cleanup, victims, hostVars, stopVars>>

\* Mutant of StopVictim: a machine out of the map is left to exit by itself.
StopVictimUntold(r) ==
    /\ r \in victims
    /\ victims' = victims \ {r}
    /\ pendingDeletes' = pendingDeletes - 1
    /\ UNCHANGED <<apiVars, trigger, loopVars, pendingCreates, cleanupWg,
                   machines, create, cleanup, deleters, checked, hostVars,
                   stopVars>>

\* StopVMM; when it fails the machine stays up and out of the map.
StopVictim(r) ==
    /\ r \in victims
    /\ victims' = victims \ {r}
    /\ pendingDeletes' = pendingDeletes - 1
    /\ \E s \in {Stopping(r)} \cup IF "stop" \in Faults THEN {vm[r]} ELSE {} :
          vm' = [vm EXCEPT ![r] = s]
    /\ UNCHANGED <<apiVars, trigger, loopVars, pendingCreates, cleanupWg,
                   machines, create, cleanup, deleters, checked, abandoned,
                   leases, registered, stopVars>>

DeleteStep == \/ AbortDelete \/ NoVictim
              \/ \E r \in Runner : PickVictim(r) \/ StopVictim(r)

-----------------------------------------------------------------------------
(* The cleanup goroutine of a machine *)

\* Mutant of WaitEnds: the time for the exit runs from the start of the machine.
WaitEndsAtAnyTime(r) ==
    \/ vm[r] = "off" /\ abandoned' = abandoned
    \/ /\ vm[r] # "off" /\ "timeout" \in Faults
       /\ abandoned' = abandoned \cup {r}

\* The machine has exited, or the pool is stopping and the 30 s for its exit
\* are over: then nothing waits for the machine any more.
WaitEnds(r) ==
    \/ vm[r] = "off" /\ abandoned' = abandoned
    \/ /\ vm[r] # "off" /\ ctxDone /\ "timeout" \in Faults
       /\ abandoned' = abandoned \cup {r}

\* Mutant of Reap: an entry that is gone from the map is taken for cleaned up.
ReapListedOnly(r) ==
    /\ cleanup[r] = "wait"
    /\ WaitEnds(r)
    /\ IF r \in machines
       THEN cleanup' = [cleanup EXCEPT ![r] = "reaped"] /\ cleanupWg' = cleanupWg
       ELSE cleanup' = [cleanup EXCEPT ![r] = "none"] /\ cleanupWg' = cleanupWg - 1
    /\ machines' = machines \ {r}
    /\ UNCHANGED <<apiVars, trigger, loopVars, pendingCreates, pendingDeletes,
                   create, deleters, checked, victims, vm, leases, registered,
                   stopVars>>

\* The machine leaves the map, if a deleter has not taken it out already.  Its
\* context is cancelled too, which tells nobody anything: the machine has
\* exited, or was told when the context of the pool was cancelled.
Reap(r) ==
    /\ cleanup[r] = "wait"
    /\ WaitEnds(r)
    /\ cleanup' = [cleanup EXCEPT ![r] = "reaped"]
    /\ machines' = machines \ {r}
    /\ UNCHANGED <<apiVars, trigger, loopVars, countVars, create, deleters,
                   checked, victims, vm, leases, registered, stopVars>>

\* Mutant of GiveBack: Done is not deferred, and an early return of the
\* deleted runner's cleanup misses it.
GiveBackWithoutDone(r) ==
    /\ cleanup[r] = "reaped"
    /\ cleanup' = [cleanup EXCEPT ![r] = "none"]
    /\ registered' = registered \ {r}
    /\ leases' = leases \ {r}
    /\ cleanupWg' = IF r \in registered THEN cleanupWg - 1 ELSE cleanupWg
    /\ UNCHANGED <<apiVars, trigger, loopVars, pendingCreates, pendingDeletes,
                   machines, create, deleters, checked, victims, vmVars,
                   stopVars>>

\* deleteGitHubRunner and then the release of the lease; errors are only
\* logged.  Nothing the pool reads changes between the two.
GiveBack(r) ==
    /\ cleanup[r] = "reaped"
    /\ cleanup' = [cleanup EXCEPT ![r] = "none"]
    /\ cleanupWg' = cleanupWg - 1
    /\ registered' \in {registered \ {r}}
                       \cup IF "unregister" \in Faults THEN {registered} ELSE {}
    /\ leases' \in {leases \ {r}} \cup IF "release" \in Faults THEN {leases} ELSE {}
    /\ UNCHANGED <<apiVars, trigger, loopVars, pendingCreates, pendingDeletes,
                   machines, create, deleters, checked, victims, vmVars,
                   stopVars>>

CleanupStep(r) == Reap(r) \/ GiveBack(r)

-----------------------------------------------------------------------------
(* Outside the process *)

\* The guest powers off, crashes, or dies of the signal or of its context.  A
\* runner of a JIT configuration takes one job: when it has, GitHub has dropped
\* its registration.
VMExit(r) ==
    /\ vm[r] # "off"
    /\ vm' = [vm EXCEPT ![r] = "off"]
    /\ abandoned' = abandoned \ {r}
    /\ registered' \in {registered, registered \ {r}}
    /\ UNCHANGED <<apiVars, trigger, loopVars, countVars, machines, create,
                   cleanup, deleters, checked, victims, leases, stopVars>>

-----------------------------------------------------------------------------
(* Stop *)

\* Mutant of StopBegin: machines are started with a context of their own.
StopBeginSparesMachines ==
    /\ Shutdown /\ stop = "idle"
    /\ stop' = "joining"
    /\ ctxDone' = TRUE
    /\ checked' \in 0 .. deleters
    /\ UNCHANGED <<apiVars, trigger, loopVars, countVars, machines, create,
                   cleanup, deleters, victims, hostVars, timedOut, late>>

\* The context of the pool is cancelled, and with it the one each machine was
\* started with: every machine is told to stop, listed or not.
StopBegin ==
    /\ Shutdown /\ stop = "idle"
    /\ stop' = "joining"
    /\ ctxDone' = TRUE
    /\ checked' \in 0 .. deleters
    /\ vm' = [r \in Runner |-> Stopping(r)]
    /\ UNCHANGED <<apiVars, trigger, loopVars, countVars, machines, create,
                   cleanup, deleters, victims, abandoned, leases, registered,
                   timedOut, late>>

\* Run has ended, or 5 s have passed: StopVMM on every machine of the map,
\* which tells it a second time.
StopJoin ==
    /\ stop = "joining"
    /\ \/ run = "done" /\ timedOut' = timedOut
       \/ "timeout" \in Faults /\ timedOut' = TRUE
    /\ stop' = "draining"
    /\ late' = {r \in Runner : create[r] # "idle"}
    /\ \E S \in SUBSET machines :
          /\ "stop" \notin Faults => S = machines
          /\ vm' = [r \in Runner |-> IF r \in S THEN Stopping(r) ELSE vm[r]]
    /\ UNCHANGED <<apiVars, trigger, loopVars, countVars, machines, create,
                   cleanup, deleters, checked, victims, abandoned, leases,
                   registered, ctxDone>>

\* The wait group is down to zero, or 35 s have passed.
StopDrain ==
    /\ stop = "draining"
    /\ \/ cleanupWg = 0 /\ timedOut' = timedOut
       \/ "timeout" \in Faults /\ timedOut' = TRUE
    /\ stop' = "returned"
    /\ UNCHANGED <<apiVars, trigger, loopVars, countVars, machines, create,
                   cleanup, deleters, checked, victims, hostVars, ctxDone, late>>

-----------------------------------------------------------------------------
(* The calls of the RPC handlers *)

\* SetReplicas stores the target, unchecked ...
StoreReplicas ==
    /\ setters < MaxSetters
    /\ setters' = setters + 1
    /\ replicas' \in Replicas
    /\ UNCHANGED <<isActive, trigger, loopVars, countVars, machines, create,
                   cleanup, deleters, checked, victims, hostVars, stopVars>>

\* ... and wakes the loop: a send that gives up when one is already waiting.
TriggerScale ==
    /\ setters > 0
    /\ setters' = setters - 1
    /\ trigger' = TRUE
    /\ UNCHANGED <<replicas, isActive, loopVars, countVars, machines, create,
                   cleanup, deleters, checked, victims, hostVars, stopVars>>

Pause ==
    /\ isActive
    /\ isActive' = FALSE
    /\ UNCHANGED <<replicas, setters, trigger, loopVars, countVars, machines,
                   create, cleanup, deleters, checked, victims, hostVars,
                   stopVars>>

\* Resume does not wake the loop: the timer will.
Resume ==
    /\ ~isActive
    /\ isActive' = TRUE
    /\ UNCHANGED <<replicas, setters, trigger, loopVars, countVars, machines,
                   create, cleanup, deleters, checked, victims, hostVars,
                   stopVars>>

-----------------------------------------------------------------------------

Next ==
    \/ LoopStep
    \/ DeleteStep
    \/ \E r \in Runner : CreateStep(r) \/ CleanupStep(r) \/ VMExit(r)
    \/ StopBegin \/ StopJoin \/ StopDrain
    \/ StoreReplicas \/ TriggerScale \/ Pause \/ Resume

Spec == Init /\ [][Next]_vars

\* The scheduler runs every goroutine, a call in flight ends, and a machine
\* that was signalled, or whose context is cancelled, exits.  Nobody has to
\* call the pool, and a machine need not exit by itself.
Dying(r) == VMExit(r) /\ vm[r] = "stopping"

Fairness ==
    /\ WF_vars(LoopStep)
    /\ WF_vars(DeleteStep)
    /\ WF_vars(StopJoin) /\ WF_vars(StopDrain)
    /\ WF_vars(TriggerScale)
    /\ \A r \in Runner : /\ WF_vars(CreateStep(r))
                         /\ WF_vars(CleanupStep(r))
                         /\ WF_vars(Dying(r))

FairSpec == Spec /\ Fairness

-----------------------------------------------------------------------------
(* Safety *)

Creating == {r \in Runner : create[r] # "idle"}

\* The numbers Scale and Stop work with are those of the goroutines they stand
\* for: pendingCreates counts the creations that have not ended, pendingDeletes
\* the deletions, and the wait group the cleanup goroutines, whatever path
\* (success, failure, cancelled context) each of them takes to its end.
CountersMatchGoroutines ==
    /\ pendingCreates = Cardinality(Creating)
    /\ pendingDeletes = deleters + Cardinality(victims)
    /\ cleanupWg = Cardinality({r \in Runner : cleanup[r] # "none"})

\* A machine that is alive, running or dying, holds its lease, so containerd
\* does not collect the disk under it, on every path by which createMachine, the
\* cleanup goroutine and their failures give leases back; all but a machine
\* whose start has failed or that has outlived the wait of its cleanup goroutine
\* during Stop (pool.go:567), which by then must have been told to stop.
LiveHoldsLease ==
    \A r \in Runner : vm[r] # "off" =>
        r \in leases \/ (r \in abandoned /\ vm[r] = "stopping")

\* What a runner holds at each position of its creation and its cleanup: it is
\* created only when nothing else of it is left; from the lease on its creator
\* holds the lease, which passes to the cleanup goroutine with the machine; the
\* creator or the watcher of a machine stands by while it is alive, unless it is
\* an abandoned one, which was told to stop; nothing runs once Stop has begun;
\* and a machine is never picked by two deleters.
RunnerInv(r) ==
    /\ create[r] \in {"leased", "registered", "started", "inserted"}
          => r \in leases /\ cleanup[r] = "none"
    /\ create[r] = "spawned" => cleanup[r] = "none"
    /\ cleanup[r] # "none" => r \in leases
    /\ vm[r] # "off" =>
          \/ create[r] \in {"started", "inserted"}
          \/ cleanup[r] = "wait"
          \/ r \in abandoned
    /\ vm[r] # "off" => create[r] \notin {"spawned", "leased", "registered"}
    /\ r \in abandoned => vm[r] = "stopping"
    /\ ctxDone => vm[r] # "running"
    /\ r \in machines => cleanup[r] = "wait" \/ create[r] = "inserted"
    /\ r \in machines \/ create[r] \in {"spawned", "leased", "registered", "started"}
          => r \notin victims

\* The inductive invariant: the goroutines of one runner never get in each
\* other's way, and the counters are right.
PoolInv == TypeOK /\ CountersMatchGoroutines /\ \A r \in Runner : RunnerInv(r)

\* No machine runs behind the pool's back: a running machine is in the map, or
\* is about to be put into it, or is about to be stopped by the deleter that
\* took it out.  (While StopVMM does not fail.)
RunningIsListed ==
    "stop" \notin Faults =>
        \A r \in Runner : vm[r] = "running" =>
            r \in machines \cup victims \/ create[r] = "started"

\* A lease is held by a goroutine that gives it back.  (While containerd
\* answers the creation and the release of leases.)
LeaseIsOwned ==
    {"reply", "release"} \cap Faults = {} =>
        \A r \in leases :
            \/ cleanup[r] # "none"
            \/ create[r] \in {"leased", "registered", "started", "inserted"}

\* A runner registered at GitHub has a goroutine that removes it there.
\* (While the pool is not stopped, machines start and GitHub answers.)
RunnerIsOwned ==
    (~Shutdown /\ {"start", "reply", "unregister"} \cap Faults = {}) =>
        \A r \in registered :
            \/ cleanup[r] # "none"
            \/ create[r] \in {"registered", "started", "inserted"}

\* A target is not lost: when every SetReplicas has returned and the loop
\* waits with no trigger pending, the target it last read is the current one,
\* though triggers are dropped when the channel is full.
NoTargetLost ==
    (run = "select" /\ ~trigger /\ setters = 0) => desired = replicas

\* Once Stop has returned with no wait expired, nothing is left of a runner
\* whose creation had ended when Stop joined Run: no machine in the map or
\* alive that anything waited for, no cleanup goroutine, no lease.
StopDrainsSettled ==
    (stop = "returned" /\ ~timedOut) =>
        \A r \in Runner \ late :
            /\ r \notin machines
            /\ vm[r] = "off" \/ r \in abandoned
            /\ cleanup[r] = "none"
            /\ {"reply", "release"} \cap Faults = {} => r \notin leases

(* Refinement *)

Lifecycle == INSTANCE RunnerLifecycle
             WITH Runner <- Runner, vm <- vm, leases <- leases, registered <- registered

\* The pool keeps its promise to containerd, GitHub and the host: what the
\* outside sees of its goroutines, their failures and Stop are steps of
\* RunnerLifecycle.
KeepsLifecycle == Lifecycle!Spec

(* Liveness *)

\* Stop completes without its timeouts: it returns, and at some time nothing
\* is left of any runner, also of those that were being created when it was
\* called: no machine runs or is listed and no lease is held.  (While
\* containerd answers.)
StopCompletes ==
    ctxDone ~> /\ stop = "returned"
               /\ machines = {} /\ leases = {}
               /\ \A r \in Runner : vm[r] = "off" /\ cleanup[r] = "none"

\* A machine that exits leaves the map and its lease is given back.
ExitedIsReaped ==
    \A r \in Runner : (vm[r] = "off" /\ cleanup[r] = "wait") ~> r \notin leases

=============================================================================
