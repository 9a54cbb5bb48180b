---------------------------- MODULE ServerProofs ----------------------------
(***************************************************************************)
(* For any number of pools and calls and whatever fails: the server closes *)
(* after its pools, and Run returns no error only when it is clean.        *)
(***************************************************************************)
EXTENDS Server, TLAPS

AllStopped == \A p \in Pools : pool[p] = "stopped"

\* The order of the shutdown, and what the error kept by errgroup tells of it.
ServerInv ==
    /\ TypeOK
    /\ run \in {"listen", "pools", "metrics"} => shutdown = "none"
    /\ shutdown \in {"metrics", "grpc", "done"} => AllStopped
    /\ grpc # "open" \/ ~metricsOpen => shutdown \in {"grpc", "done"}
    /\ grpc = "stopped" => \A c \in Calls : call[c] = NoCall
    /\ serve = "stopped" => grpc = "stopped"
    /\ serve = "failed" => firstErr # "none"
    /\ firstErr = "closed" => ~metricsOpen
    /\ run = "returned" /\ firstErr # "failed" => serve \in {"failed", "stopped"}

LEMMA InitInv == Init => ServerInv
BY DEF Init, ServerInv, TypeOK, AllStopped, InFlight, NoCall

\* Run and its failures: nothing of the shutdown has begun or none of it changes.
LEMMA RunKeepsInv ==
    ASSUME ServerInv, run # "returned", RunStep PROVE ServerInv'
<1>1. ASSUME Listen PROVE ServerInv'
  BY <1>1 DEF Listen, Fail, ServerInv, TypeOK, AllStopped, poolVars, srvVars
<1>2. ASSUME NEW p \in Pools, StartPool(p) PROVE ServerInv'
  BY <1>2 DEF StartPool, Fail, ServerInv, TypeOK, AllStopped, poolVars, srvVars
<1>3. ASSUME StartServing PROVE ServerInv'
  BY <1>3 DEF StartServing, ServerInv, TypeOK, AllStopped, poolVars
<1>4. ASSUME StartMetrics PROVE ServerInv'
  BY <1>4 DEF StartMetrics, Fail, ServerInv, TypeOK, AllStopped, poolVars
<1>5. ASSUME Return PROVE ServerInv'
  BY <1>5 DEF Return, ServerInv, TypeOK, AllStopped, poolVars, srvVars
<1> QED BY <1>1, <1>2, <1>3, <1>4, <1>5 DEF RunStep

LEMMA GroupKeepsInv ==
    ASSUME ServerInv, run # "returned", GroupStep PROVE ServerInv'
<1>1. ASSUME ServeGRPC PROVE ServerInv'
  BY <1>1 DEF ServeGRPC, Keep, ServerInv, TypeOK, AllStopped, poolVars
<1>2. ASSUME FailGRPC PROVE ServerInv'
  BY <1>2 DEF FailGRPC, Keep, ServerInv, TypeOK, AllStopped, poolVars
<1>3. ASSUME StopGRPC PROVE ServerInv'
  BY <1>3 DEF StopGRPC, ServerInv, TypeOK, AllStopped, poolVars
<1>4. ASSUME ServeMetrics PROVE ServerInv'
  BY <1>4 DEF ServeMetrics, ServerInv, TypeOK, AllStopped, poolVars
<1>5. ASSUME FailMetrics PROVE ServerInv'
  BY <1>5 DEF FailMetrics, Keep, ServerInv, TypeOK, AllStopped, poolVars
<1>6. ASSUME StopMetrics PROVE ServerInv'
  BY <1>6 DEF StopMetrics, Keep, ServerInv, TypeOK, AllStopped, poolVars
<1> QED BY <1>1, <1>2, <1>3, <1>4, <1>5, <1>6 DEF GroupStep

LEMMA ShutdownKeepsInv ==
    ASSUME ServerInv, run # "returned", ShutdownStep PROVE ServerInv'
<1>1. ASSUME BeginShutdown PROVE ServerInv'
  BY <1>1 DEF BeginShutdown, ServerInv, TypeOK, AllStopped, poolVars, srvVars
<1>2. ASSUME PoolsStopped PROVE ServerInv'
  BY <1>2 DEF PoolsStopped, ServerInv, TypeOK, AllStopped, poolVars, srvVars
<1>3. ASSUME ShutdownMetrics PROVE ServerInv'
  BY <1>3 DEF ShutdownMetrics, ServerInv, TypeOK, AllStopped, poolVars
<1>4. ASSUME GracefulStop PROVE ServerInv'
  BY <1>4 DEF GracefulStop, ServerInv, TypeOK, AllStopped, poolVars
<1>5. ASSUME Drained PROVE ServerInv'
  BY <1>5 DEF Drained, ServerInv, TypeOK, AllStopped, poolVars
<1>6. ASSUME NEW p \in Pools, StopPool(p) PROVE ServerInv'
  BY <1>6 DEF StopPool, ServerInv, TypeOK, AllStopped, srvVars
<1>7. ASSUME NEW p \in Pools, PoolStopped(p) PROVE ServerInv'
  BY <1>7 DEF PoolStopped, ServerInv, TypeOK, AllStopped, srvVars
<1> QED BY <1>1, <1>2, <1>3, <1>4, <1>5, <1>6, <1>7 DEF ShutdownStep

\* A call's record stays one while it goes from step to step.
LEMMA CallsKeepInv ==
    ASSUME ServerInv, run # "returned", NEW c \in Calls,
           \/ CallStep(c) \/ EndLogs(c)
           \/ \E p \in Pools : Begin(c, "pause", p) \/ Begin(c, "resume", p) \/ BeginLogs(c, p)
    PROVE  ServerInv'
<1> USE DEF NoCall, InFlight
<1>1. ASSUME SetActive(c) PROVE ServerInv'
  <2>1. call[c] # NoCall /\ call[c] \in InFlight
    BY <1>1 DEF SetActive, ServerInv, TypeOK
  <2>2. call' \in [Calls -> InFlight \cup {NoCall}]
    BY <1>1, <2>1 DEF SetActive, ServerInv, TypeOK
  <2>3. grpc # "stopped"
    BY <2>1 DEF ServerInv
  <2> QED BY <1>1, <2>1, <2>2, <2>3 DEF SetActive, ServerInv, TypeOK, AllStopped, srvVars
<1>2. ASSUME SetStatus(c) PROVE ServerInv'
  <2>1. call[c] \in InFlight
    BY <1>2 DEF SetStatus, ServerInv, TypeOK
  <2> QED BY <1>2, <2>1 DEF SetStatus, ServerInv, TypeOK, AllStopped, srvVars
<1>3. ASSUME EndLogs(c) PROVE ServerInv'
  BY <1>3 DEF EndLogs, ServerInv, TypeOK, AllStopped, poolVars, srvVars
<1>4. ASSUME NEW p \in Pools, NEW op \in {"pause", "resume", "logs"}, Begin(c, op, p)
      PROVE  ServerInv'
  <2>1. call' \in [Calls -> InFlight \cup {NoCall}] /\ grpc = "open"
    BY <1>4 DEF Begin, ServerInv, TypeOK
  <2> QED BY <1>4, <2>1 DEF Begin, ServerInv, TypeOK, AllStopped, poolVars, srvVars
<1> QED BY <1>1, <1>2, <1>3, <1>4 DEF CallStep, LogsBroken, BeginLogs

LEMMA NextInv == ServerInv /\ [Next]_vars => ServerInv'
<1> SUFFICES ASSUME ServerInv, [Next]_vars PROVE ServerInv'
  OBVIOUS
<1>1. CASE RunStep /\ run # "returned" BY <1>1, RunKeepsInv
<1>2. ASSUME Signal PROVE ServerInv'
  BY <1>2 DEF Signal, ServerInv, TypeOK, AllStopped, poolVars, srvVars
<1>3. CASE GroupStep /\ run # "returned" BY <1>3, GroupKeepsInv
<1>4. CASE ShutdownStep /\ run # "returned" BY <1>4, ShutdownKeepsInv
<1>5. CASE UNCHANGED vars
  BY <1>5 DEF vars, ServerInv, TypeOK, AllStopped, poolVars, srvVars
<1> QED BY <1>1, <1>2, <1>3, <1>4, <1>5, CallsKeepInv DEF Next

LEMMA Always == Spec => []ServerInv
BY InitInv, NextInv, PTL DEF Spec

\* Every variable has its type: no pool is forgotten and no call is left without a
\* record, for any number of them.
THEOREM ServerTypes == Spec => []TypeOK
<1>1. ServerInv => TypeOK
  BY DEF ServerInv
<1> QED BY <1>1, Always, PTL

\* The API is open, and the metrics served, as long as a pool runs
\* (server.go:165-179).
THEOREM ClosesAfterPools == Spec => []ClosedAfterPools
<1>1. ServerInv => ClosedAfterPools
  BY DEF ServerInv, ClosedAfterPools, AllStopped
<1> QED BY <1>1, Always, PTL

\* Run returns no error only when every pool has been stopped and no call is cut
\* off, whichever of the two servers ends first (server.go:184-190).
THEOREM CleanReturn == Spec => []ReturnsClean
<1>1. ServerInv => ReturnsClean
  BY DEF ServerInv, ReturnsClean, AllStopped, TypeOK
<1> QED BY <1>1, Always, PTL

=============================================================================
