-------------------------- MODULE RunnerLifecycle --------------------------
(***************************************************************************)
(* What a pool promises of its runners to containerd, GitHub and the host, *)
(* with nothing of how it works: a machine is started only on a lease and  *)
(* a registration, keeps its lease while it runs, and is told to stop, or  *)
(* exits, before they are given back.                                      *)
(***************************************************************************)
CONSTANT Runner

VARIABLES vm, leases, registered

Init ==
    /\ vm = [r \in Runner |-> "off"]
    /\ leases = {}
    /\ registered = {}

\* A set, and the set without r: what is given back may stay when the remote
\* side fails.
Without(set, r) == {set, set \ {r}}

Lease(r) ==
    /\ vm[r] = "off" /\ r \notin leases
    /\ leases' = leases \cup {r}
    /\ UNCHANGED <<vm, registered>>

Register(r) ==
    /\ vm[r] = "off" /\ r \in leases /\ r \notin registered
    /\ registered' = registered \cup {r}
    /\ UNCHANGED <<vm, leases>>

Start(r) ==
    /\ vm[r] = "off" /\ r \in leases /\ r \in registered
    /\ vm' = [vm EXCEPT ![r] = "running"]
    /\ UNCHANGED <<leases, registered>>

\* A runner that never got to run: its registration may be left behind, and so
\* may a process that is being killed.
Abandon(r) ==
    /\ vm[r] = "off" /\ r \in leases
    /\ leases' \in Without(leases, r)
    /\ registered' \in {registered, registered \cup {r}}
    /\ \E s \in {"off", "stopping"} : vm' = [vm EXCEPT ![r] = s]

\* Machines are told to stop.
Signal ==
    /\ \E S \in SUBSET {r \in Runner : vm[r] = "running"} :
          vm' = [r \in Runner |-> IF r \in S THEN "stopping" ELSE vm[r]]
    /\ UNCHANGED <<leases, registered>>

\* A machine exits; if it has done its job GitHub has forgotten it.
Exit(r) ==
    /\ vm[r] # "off"
    /\ vm' = [vm EXCEPT ![r] = "off"]
    /\ registered' \in Without(registered, r)
    /\ UNCHANGED leases

GiveBack(r) ==
    /\ vm[r] # "running"
    /\ leases' \in Without(leases, r)
    /\ registered' \in Without(registered, r)
    /\ UNCHANGED vm

Next ==
    \/ Signal
    \/ \E r \in Runner : \/ Lease(r) \/ Register(r) \/ Start(r) \/ Abandon(r)
                         \/ Exit(r) \/ GiveBack(r)

Spec == Init /\ [][Next]_<<vm, leases, registered>>

=============================================================================
