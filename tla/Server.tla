------------------------------- MODULE Server -------------------------------
(***************************************************************************)
(* src/server/server.go and the calls of src/server/rpc.go that change     *)
(* something or last: the start of the pools and of the two servers, the   *)
(* goroutine that shuts them down, pausing, resuming and log streams.      *)
(*                                                                         *)
(* A pool is what Pool promises of it: its Stop ends, and then its runners *)
(* are gone unless a fault left some.  The process ends when Run returns.  *)
(***************************************************************************)
EXTENDS FiniteSets

CONSTANTS
    Pools,       \* Config.Pools
    Calls,       \* bound: as many calls may be in flight at once
    WithMetrics, \* Config.Metrics.Enabled
    Faults       \* what may fail: "listen", "pool", "serve", "leak"

ASSUME WithMetricsAssumption == WithMetrics \in BOOLEAN
ASSUME FaultsAssumption == Faults \subseteq {"listen", "pool", "serve", "leak"}

VARIABLES
    run,      \* where Run is
    ctxDone,  \* whether a signal has ended its context
    pool,     \* s.pools, by what has become of each
    leaked,   \* the pools that kept a runner when they stopped
    isActive, \* the flag of each pool
    status,   \* metricPoolStatus
    serve, grpc,          \* the goroutine of grpcServer.Serve, and its server
    metrics, metricsOpen, \* the goroutine of metricsServer.Serve, its server
    firstErr, \* what errGroup.Wait will return
    shutdown, \* where the goroutine is that shuts the server down
    call      \* the calls in flight

poolVars == <<pool, leaked, isActive, status>>
srvVars  == <<serve, grpc, metrics, metricsOpen, firstErr>>
vars     == <<run, ctxDone, poolVars, srvVars, shutdown, call>>

NoCall == [op |-> "none"]
InFlight == [op : {"pause", "resume", "paused", "resumed", "logs"}, pool : Pools]

\* Every variable has its type.
TypeOK ==
    /\ run \in {"listen", "pools", "metrics", "wait", "returned"}
    /\ ctxDone \in BOOLEAN /\ leaked \subseteq Pools
    /\ pool \in [Pools -> {"none", "running", "stopping", "stopped"}]
    /\ isActive \in [Pools -> BOOLEAN] /\ status \in [Pools -> {0, 1}]
    /\ serve \in {"none", "starting", "serving", "failed", "stopped"}
    /\ grpc \in {"open", "draining", "stopped"}
    /\ metrics \in {"none", "starting", "serving", "failed", "stopped"}
    /\ metricsOpen \in BOOLEAN
    /\ firstErr \in {"none", "closed", "failed"}
    /\ shutdown \in {"none", "wait", "pools", "metrics", "grpc", "done"}
    /\ call \in [Calls -> InFlight \cup {NoCall}]

Init ==
    /\ run = "listen" /\ ctxDone = FALSE
    /\ pool = [p \in Pools |-> "none"] /\ leaked = {}
    /\ isActive = [p \in Pools |-> TRUE] /\ status = [p \in Pools |-> 0]
    /\ serve = "none" /\ grpc = "open"
    /\ metrics = "none" /\ metricsOpen = TRUE
    /\ firstErr = "none"
    /\ shutdown = "none"
    /\ call = [c \in Calls |-> NoCall]

-----------------------------------------------------------------------------
(* Run *)

\* An error returns at once: what has been started is left as it is.
Fail(fault) ==
    /\ fault \in Faults
    /\ run' = "returned" /\ firstErr' = "failed"
    /\ UNCHANGED <<ctxDone, poolVars, serve, grpc, metrics, metricsOpen, shutdown, call>>

Listen ==
    /\ run = "listen"
    /\ \/ /\ run' = "pools"
          /\ UNCHANGED <<ctxDone, poolVars, srvVars, shutdown, call>>
       \/ Fail("listen")

\* NewPool sets the pool's status; its loop is started.
StartPool(p) ==
    /\ run = "pools" /\ pool[p] = "none"
    /\ \/ /\ pool' = [pool EXCEPT ![p] = "running"]
          /\ status' = [status EXCEPT ![p] = 1]
          /\ UNCHANGED <<run, ctxDone, leaked, isActive, srvVars, shutdown, call>>
       \/ Fail("pool")

StartServing ==
    /\ run = "pools" /\ \A p \in Pools : pool[p] # "none"
    /\ run' = "metrics" /\ serve' = "starting"
    /\ UNCHANGED <<ctxDone, poolVars, grpc, metrics, metricsOpen, firstErr,
                   shutdown, call>>

\* The metrics server, if there is one, and the goroutine that shuts down.
StartMetrics ==
    /\ run = "metrics"
    /\ \/ /\ run' = "wait" /\ shutdown' = "wait"
          /\ metrics' = IF WithMetrics THEN "starting" ELSE metrics
          /\ UNCHANGED <<ctxDone, poolVars, serve, grpc, metricsOpen, firstErr, call>>
       \/ WithMetrics /\ Fail("listen")

\* errGroup.Wait returns when every Serve has; ErrServerClosed is no error.
Return ==
    /\ run = "wait"
    /\ serve \in {"failed", "stopped"} /\ metrics \in {"none", "failed", "stopped"}
    /\ run' = "returned"
    /\ UNCHANGED <<ctxDone, poolVars, srvVars, shutdown, call>>

\* The context of Run ends on a signal.
Signal ==
    /\ ~ctxDone
    /\ ctxDone' = TRUE
    /\ UNCHANGED <<run, poolVars, srvVars, shutdown, call>>

-----------------------------------------------------------------------------
(* The goroutines of errGroup *)

\* errgroup keeps the first error.
Keep(e) == firstErr' = IF firstErr = "none" THEN e ELSE firstErr

\* Serve on a server that GracefulStop has closed already is an error.
ServeGRPC ==
    /\ serve = "starting"
    /\ IF grpc = "open" THEN serve' = "serving" /\ UNCHANGED firstErr
                        ELSE serve' = "failed" /\ Keep("failed")
    /\ UNCHANGED <<run, ctxDone, poolVars, grpc, metrics, metricsOpen, shutdown, call>>

\* The listener cannot accept any more.  Its connections remain.
FailGRPC ==
    /\ "serve" \in Faults
    /\ serve = "serving" /\ grpc = "open"
    /\ serve' = "failed" /\ Keep("failed")
    /\ UNCHANGED <<run, ctxDone, poolVars, grpc, metrics, metricsOpen, shutdown, call>>

\* Serve waits for GracefulStop to end.
StopGRPC ==
    /\ serve = "serving" /\ grpc = "stopped"
    /\ serve' = "stopped"
    /\ UNCHANGED <<run, ctxDone, poolVars, grpc, metrics, metricsOpen, firstErr,
                   shutdown, call>>

ServeMetrics ==
    /\ metrics = "starting" /\ metricsOpen
    /\ metrics' = "serving"
    /\ UNCHANGED <<run, ctxDone, poolVars, serve, grpc, metricsOpen, firstErr,
                   shutdown, call>>

FailMetrics ==
    /\ "serve" \in Faults
    /\ metrics = "serving" /\ metricsOpen
    /\ metrics' = "failed" /\ Keep("failed")
    /\ UNCHANGED <<run, ctxDone, poolVars, serve, grpc, metricsOpen, shutdown, call>>

\* Once Shutdown is called Serve returns ErrServerClosed.
StopMetrics ==
    /\ metrics \in {"starting", "serving"} /\ ~metricsOpen
    /\ metrics' = "stopped" /\ Keep("closed")
    /\ UNCHANGED <<run, ctxDone, poolVars, serve, grpc, metricsOpen, shutdown, call>>

-----------------------------------------------------------------------------
(* The goroutine that shuts the server down *)

BeginShutdown ==
    /\ shutdown = "wait" /\ ctxDone
    /\ shutdown' = "pools"
    /\ UNCHANGED <<run, ctxDone, poolVars, srvVars, call>>

\* One pool after the other, in the order of a map.
StopPool(p) ==
    /\ shutdown = "pools" /\ pool[p] = "running"
    /\ \A q \in Pools : pool[q] # "stopping"
    /\ pool' = [pool EXCEPT ![p] = "stopping"]
    /\ UNCHANGED <<run, ctxDone, leaked, isActive, status, srvVars, shutdown, call>>

PoolStopped(p) ==
    /\ pool[p] = "stopping"
    /\ pool' = [pool EXCEPT ![p] = "stopped"]
    /\ \/ leaked' = leaked
       \/ "leak" \in Faults /\ leaked' = leaked \cup {p}
    /\ UNCHANGED <<run, ctxDone, isActive, status, srvVars, shutdown, call>>

\* A mutant of PoolsStopped: it does not wait for the last Stop.
PoolsStoppedUnjoined ==
    /\ shutdown = "pools" /\ \A p \in Pools : pool[p] # "running"
    /\ shutdown' = IF WithMetrics THEN "metrics" ELSE "grpc"
    /\ UNCHANGED <<run, ctxDone, poolVars, srvVars, call>>

PoolsStopped ==
    /\ shutdown = "pools" /\ \A p \in Pools : pool[p] = "stopped"
    /\ shutdown' = IF WithMetrics THEN "metrics" ELSE "grpc"
    /\ UNCHANGED <<run, ctxDone, poolVars, srvVars, call>>

\* A mutant of ShutdownMetrics: the metrics server goes on.
ShutdownMetricsSkipped ==
    /\ shutdown = "metrics"
    /\ shutdown' = "grpc"
    /\ UNCHANGED <<run, ctxDone, poolVars, srvVars, call>>

ShutdownMetrics ==
    /\ shutdown = "metrics"
    /\ metricsOpen' = FALSE
    /\ shutdown' = "grpc"
    /\ UNCHANGED <<run, ctxDone, poolVars, serve, grpc, metrics, firstErr, call>>

\* GracefulStop takes no new call ...
GracefulStop ==
    /\ shutdown = "grpc" /\ grpc = "open"
    /\ grpc' = "draining"
    /\ UNCHANGED <<run, ctxDone, poolVars, serve, metrics, metricsOpen, firstErr,
                   shutdown, call>>

\* A mutant of Drained: the server is closed over its calls.
DrainedAtOnce ==
    /\ grpc = "draining"
    /\ grpc' = "stopped" /\ shutdown' = "done"
    /\ UNCHANGED <<run, ctxDone, poolVars, serve, metrics, metricsOpen, firstErr, call>>

\* ... and waits, without a limit of time, for those in flight.
Drained ==
    /\ grpc = "draining" /\ \A c \in Calls : call[c] = NoCall
    /\ grpc' = "stopped" /\ shutdown' = "done"
    /\ UNCHANGED <<run, ctxDone, poolVars, serve, metrics, metricsOpen, firstErr, call>>

-----------------------------------------------------------------------------
(* The calls *)

\* A call comes over a connection accepted earlier; its pool is found: all are
\* there before the first call.
Begin(c, op, p) ==
    /\ call[c] = NoCall
    /\ serve \in {"serving", "failed"} /\ grpc = "open"
    /\ call' = [call EXCEPT ![c] = [op |-> op, pool |-> p]]
    /\ UNCHANGED <<run, ctxDone, poolVars, srvVars, shutdown>>

\* pool.Pause and pool.Resume ...
SetActive(c) ==
    /\ call[c].op \in {"pause", "resume"}
    /\ isActive' = [isActive EXCEPT ![call[c].pool] = call[c].op = "resume"]
    /\ call' = [call EXCEPT ![c].op = IF @ = "pause" THEN "paused" ELSE "resumed"]
    /\ UNCHANGED <<run, ctxDone, pool, leaked, status, srvVars, shutdown>>

\* ... then the metric, and the answer.
SetStatus(c) ==
    /\ call[c].op \in {"paused", "resumed"}
    /\ status' = [status EXCEPT ![call[c].pool] = IF call[c].op = "resumed" THEN 1 ELSE 0]
    /\ call' = [call EXCEPT ![c] = NoCall]
    /\ UNCHANGED <<run, ctxDone, pool, leaked, isActive, srvVars, shutdown>>

\* GetMachineLogs finds a listed machine and forwards its lines.
BeginLogs(c, p) ==
    /\ pool[p] \in {"running", "stopping"}
    /\ Begin(c, "logs", p)

EndLogs(c) ==
    /\ call[c].op = "logs"
    /\ call' = [call EXCEPT ![c] = NoCall]
    /\ UNCHANGED <<run, ctxDone, poolVars, srvVars, shutdown>>

\* The machine's agent is gone: Recv fails.
LogsBroken(c) ==
    /\ call[c] # NoCall /\ pool[call[c].pool] = "stopped" /\ call[c].pool \notin leaked
    /\ EndLogs(c)

-----------------------------------------------------------------------------
RunStep == Listen \/ (\E p \in Pools : StartPool(p)) \/ StartServing \/ StartMetrics \/ Return

GroupStep ==
    ServeGRPC \/ FailGRPC \/ StopGRPC \/ ServeMetrics \/ FailMetrics \/ StopMetrics

ShutdownStep ==
    \/ BeginShutdown \/ PoolsStopped \/ ShutdownMetrics \/ GracefulStop \/ Drained
    \/ \E p \in Pools : StopPool(p) \/ PoolStopped(p)

\* A log stream ends by itself only when its client or its machine goes.
CallStep(c) == SetActive(c) \/ SetStatus(c) \/ LogsBroken(c)

Next ==
    /\ run # "returned"
    /\ \/ RunStep \/ Signal \/ GroupStep \/ ShutdownStep
       \/ \E c \in Calls :
             \/ CallStep(c) \/ EndLogs(c)
             \/ \E p \in Pools : Begin(c, "pause", p) \/ Begin(c, "resume", p) \/ BeginLogs(c, p)

\* The scheduler runs every goroutine, and every pool's Stop ends.  Nobody has to
\* send a signal, and no client has to leave.
Fairness ==
    /\ WF_vars(RunStep /\ run # "returned")
    /\ WF_vars((ServeGRPC \/ StopGRPC) /\ run # "returned")
    /\ WF_vars((ServeMetrics \/ StopMetrics) /\ run # "returned")
    /\ WF_vars(ShutdownStep /\ run # "returned")
    /\ \A c \in Calls : WF_vars(CallStep(c) /\ run # "returned")

Spec == Init /\ [][Next]_vars /\ Fairness

-----------------------------------------------------------------------------
(* Properties *)

\* Run returns no error only when all pools have been stopped and, unless the
\* server had lost its listener, no call was cut off: the calls drain after the
\* pools, and ErrServerClosed may come first (server.go:165-190).
ReturnsClean ==
    run = "returned" /\ firstErr # "failed" =>
        /\ \A p \in Pools : pool[p] = "stopped"
        /\ serve = "stopped" => \A c \in Calls : call[c] = NoCall

\* The API is open as long as a pool runs: nothing is closed, and no metric lost,
\* before the last pool has been stopped (server.go:165-179).
ClosedAfterPools ==
    grpc # "open" \/ ~metricsOpen => \A p \in Pools : pool[p] = "stopped"

\* After a signal Run returns, whatever streams are open, unless a pool's Stop
\* left a runner behind, which may go on to stream: GracefulStop has no limit of
\* time (server.go:179).
Terminates == ctxDone ~> run = "returned" \/ leaked # {}

=============================================================================
