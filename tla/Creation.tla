------------------------------ MODULE Creation ------------------------------
(***************************************************************************)
(* createMachine of src/server/pool.go after ensureImage (see Images): the *)
(* creators of all pools take a VSOCK context identifier (CID) from one    *)
(* counter of the server, which wraps.  The leases, the registrations and  *)
(* the failures of a creation are in Pool.                                 *)
(***************************************************************************)
EXTENDS Images, FiniteSets

CONSTANTS
    CIDs,   \* how many values Server.nextCID has: 2^32
    MaxMade \* bound on the identifiers taken

ASSUME CidAssumption == CIDs \in Nat /\ CIDs > 3 /\ MaxMade \in Nat

VARIABLES
    nextCID, \* Server.nextCID
    made,    \* how many identifiers were taken
    cid      \* the one of each creator's machine, as a set of at most one

creationVars == <<nextCID, made, cid>>

\* Every variable has its type.
CreationTypeOK ==
    /\ nextCID \in 0 .. CIDs - 1 /\ made \in 0 .. MaxMade
    /\ cid \in [Creator -> {{}} \cup {{n} : n \in 0 .. CIDs - 1}]

\* CID 2 is the host's: the counter starts there.
CreationInit ==
    /\ Init
    /\ nextCID = 2 /\ made = 0 /\ cid = [c \in Creator |-> {}]

-----------------------------------------------------------------------------

\* A mutant of TakeCID: every pool has a counter of its own.
TakeCIDOfPool(c) ==
    /\ step[c] = "done" /\ cid[c] = {} /\ made < MaxMade
    /\ nextCID' = (nextCID + 1) % CIDs /\ made' = made + 1
    /\ cid' = [cid EXCEPT ![c] =
                  {3 + Cardinality({d \in Creator : PoolOf[d] = PoolOf[c] /\ cid[d] # {}})}]
    /\ UNCHANGED vars

\* The lease, the snapshot and the log file are made, and nextCID.Add(1).
TakeCID(c) ==
    /\ step[c] = "done" /\ cid[c] = {} /\ made < MaxMade
    /\ nextCID' = (nextCID + 1) % CIDs /\ made' = made + 1
    /\ cid' = [cid EXCEPT ![c] = {nextCID'}]
    /\ UNCHANGED vars

\* createMachine ends without a machine, or the machine has ended and its cleanup
\* is done: the creator is free for another.
Release(c) ==
    /\ Return(c)
    /\ cid' = [cid EXCEPT ![c] = {}]
    /\ UNCHANGED <<nextCID, made>>

CreationNext ==
    \/ \E c \in Creator : TakeCID(c) \/ Release(c)
    \/ UNCHANGED creationVars /\ (Around \/ \E c \in Creator : Ask(c) \/ CallStep(c))

\* The scheduler runs the creators, and a pull ends in some way; a machine need not.
CreationSpec ==
    /\ CreationInit /\ [][CreationNext]_<<vars, creationVars>>
    /\ \A c \in Creator : WF_vars(CallStep(c) /\ UNCHANGED creationVars)

-----------------------------------------------------------------------------
(* Properties *)

\* No two machines have the same CID, in whichever pools they are made, in whatever
\* order their creators run and whoever has ended, and none has one of those
\* reserved, until the counter has come around (server.go:93, pool.go:462).
CIDsDistinct ==
    made <= CIDs - 3 =>
        \A c, d \in Creator : \A n \in cid[c] :
            n >= 3 /\ (n \in cid[d] => c = d)

=============================================================================
