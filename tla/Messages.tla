------------------------------ MODULE Messages ------------------------------
(***************************************************************************)
(* src/proto/server/v1 and src/proto/agent/v1: the messages of the two     *)
(* services, with the fields on which what a call does or shows depends.   *)
(* A name is a number, in the order of the names; 0 is the empty one.      *)
(*                                                                         *)
(* Left out are the fields that are copied from the configuration (the     *)
(* organization, group, labels and image of a pool) or never change (the   *)
(* address, time and version of a machine), and the texts of the answers   *)
(* that carry nothing else.                                                *)
(***************************************************************************)
EXTENDS Integers, Sequences

CONSTANTS
    PoolName,    \* what may be given for the name of a pool
    MachineName, \* ... and for that of a machine
    HalfRange    \* half of the numbers of an int32: 2 ^ 31

ASSUME NamesAssumption == PoolName \subseteq Nat \ {0} /\ MachineName \subseteq Nat \ {0}
ASSUME RangeAssumption == HalfRange \in Nat \ {0, 1}

NoName == 0

Int32 == -HalfRange .. HalfRange - 1

\* Go's conversion of an int keeps the low bits.
ToInt32(n) == ((n + HalfRange) % (2 * HalfRange)) - HalfRange

PoolState   == {"ACTIVE", "PAUSED"}
RunnerState == {"Starting", "Idle", "Running", "Completed", "Exited", "Error"}

-----------------------------------------------------------------------------
(* ServerService *)

PoolMessage == [Name : PoolName, State : PoolState, Replicas : Int32,
                CurrentReplicas : Int32, DesiredReplicas : Int32]

MachineMessage == [ID : MachineName, Pool : PoolName,
                   RunnerState : RunnerState \cup {"Unknown"}]

ListPoolsRequest    == [rpc : {"ListPools"}]
GetPoolRequest      == [rpc : {"GetPool"}, Name : PoolName]
ScalePoolRequest    == [rpc : {"ScalePool"}, Name : PoolName, Replicas : Int32]
PausePoolRequest    == [rpc : {"PausePool"}, Name : PoolName]
ResumePoolRequest   == [rpc : {"ResumePool"}, Name : PoolName]
ListMachinesRequest == [rpc : {"ListMachines"}, Pool : PoolName \cup {NoName}]
GetMachineRequest   == [rpc : {"GetMachine"}, ID : MachineName]

ListPoolsResponse    == [Pools : Seq(PoolMessage)]
GetPoolResponse      == [Pool : PoolMessage]
ScalePoolResponse    == [scaled : {TRUE}]
PausePoolResponse    == [paused : {TRUE}]
ResumePoolResponse   == [resumed : {TRUE}]
ListMachinesResponse == [Machines : Seq(MachineMessage)]
GetMachineResponse   == [Machine : MachineMessage]

Request ==
    ListPoolsRequest \cup GetPoolRequest \cup ScalePoolRequest \cup PausePoolRequest
        \cup ResumePoolRequest \cup ListMachinesRequest \cup GetMachineRequest

Response ==
    ListPoolsResponse \cup GetPoolResponse \cup ScalePoolResponse \cup PausePoolResponse
        \cup ResumePoolResponse \cup ListMachinesResponse \cup GetMachineResponse

=============================================================================
