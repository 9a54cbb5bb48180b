----------------------------- MODULE MCPoolCalm -----------------------------
(***************************************************************************)
(* Pool under the timing that makes it converge: the reads of Scale, less  *)
(* than a microsecond every two seconds, do not fall into the moments in   *)
(* which a goroutine that has only local work left has not done it yet: a  *)
(* started machine not yet inserted, a creator or a deleter not yet ended, *)
(* an exit not yet seen.  Nothing is assumed of the remote calls, however  *)
(* many passes they outlast.  Machines exit by themselves MaxExits times.  *)
(***************************************************************************)
EXTENDS Pool, TLC

CONSTANTS r1, r2, MaxExits

\* ScalePool passes its argument on as it is: a negative target is possible.
Targets == {-1, 1, 2}

VARIABLE exits

calmVars == <<vars, exits>>

LocalWork ==
    \/ deleters > 0
    \/ victims # {}
    \/ \E r \in Runner : \/ create[r] \in {"started", "inserted", "done"}
                         \/ cleanup[r] = "wait" /\ vm[r] = "off"

Calm ==
    /\ (run = "size" /\ run' = "creates") => ~LocalWork
    /\ (run \in {"creates", "deletes"} /\ run' = run)
          => UNCHANGED <<machines, pendingCreates, pendingDeletes>>

CountExits ==
    LET gone == {r \in Runner : vm[r] = "running" /\ vm'[r] = "off"}
    IN  /\ exits' = exits + Cardinality(gone)
        /\ exits' <= MaxExits

CalmInit == Init /\ exits = 0
CalmNext == Next /\ Calm /\ CountExits

CalmSpec ==
    /\ CalmInit /\ [][CalmNext]_calmVars
    /\ WF_calmVars(LoopStep /\ Calm /\ CountExits)
    /\ WF_calmVars(DeleteStep /\ Calm /\ CountExits)
    /\ WF_calmVars(TriggerScale /\ Calm /\ CountExits)
    /\ \A r \in Runner :
          /\ WF_calmVars(CreateStep(r) /\ Calm /\ CountExits)
          /\ WF_calmVars(CleanupStep(r) /\ Calm /\ CountExits)
          /\ WF_calmVars(Dying(r) /\ Calm /\ CountExits)

Up == {r \in machines : vm[r] = "running"}

\* The pool reaches the desired number of machines: once it stays active and
\* its target stays the same, it comes to have exactly that many running, and
\* keeps them, whatever was in flight, was replaced or was removed before.
Converges ==
    \A n \in Replicas :
        <>[](isActive /\ replicas = n)
            => <>[](Cardinality(Up) = IF n < 0 THEN 0 ELSE n)

=============================================================================
