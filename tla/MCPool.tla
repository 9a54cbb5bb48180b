------------------------------- MODULE MCPool -------------------------------
(***************************************************************************)
(* Small instances of Pool for TLC, and what comments and documentation    *)
(* say of a pool that the code does not do.                                *)
(***************************************************************************)
EXTENDS Pool, TLC

CONSTANTS r1, r2

Symmetry == Permutations(Runner)

\* Failures of one call that the pool sees fail: no answer is lost and no wait
\* expires.  (A failed start leaves the registration of its runner, and perhaps
\* a dying process; a failed stop leaves a machine running outside the map.)
SeenFaults == {"lease", "register", "start", "stop"}

\* A pool nobody calls, to keep the liveness check small: pausing it or giving
\* it another target is not needed for a stop to meet anything in flight.
UncalledSpec == Init /\ [][Next /\ UNCHANGED apiVars]_vars /\ Fairness

\* No SetReplicas is half way when Stop begins: what it stores and triggers is
\* read by nobody any more.
CallsReturned == ctxDone => setters = 0

-----------------------------------------------------------------------------
(* Claims *)

\* How many machines the pool has or is about to have, each counted once.
Committed == Cardinality(machines \cup Creating) - deleters

\* "Calculate effective size accounting for in-flight operations"
\* (pool.go:257): Scale never removes a machine unless the pool has, or is
\* creating, more machines than wanted.  In the code a machine that is in the
\* map while its creator has not ended is counted twice.
RemovesOnlySurplus == (run = "deletes" /\ Delta < 0) => Committed > desired

\* "Stopping the pool will stop all the VMs in the pool" (pool.go:182): when
\* Stop returns, and none of its waits expired, no machine is left.  In the code
\* a machine started while Stop began is in neither the map nor the wait group:
\* its context tells it to stop, but Stop does not wait for it.
StopStopsAll == (stop = "returned" /\ ~timedOut) => \A r \in Runner : vm[r] = "off"

=============================================================================
