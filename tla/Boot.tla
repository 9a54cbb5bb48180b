-------------------------------- MODULE Boot --------------------------------
(***************************************************************************)
(* The agent's unit in the machine: runAgentCmd of                         *)
(* src/cmd/fireactions/agent.go asks the metadata service (MMDS) for a     *)
(* token and the metadata (src/agent/mmds/client.go), makes the agent, and *)
(* runs it: from then on the steps are those of Agent.  systemd starts the *)
(* unit again when its process fails.  main prints an error and exits with *)
(* 0, so a failure is a signal that kills the process, or a panic: the one *)
(* of GetRunnerVersion, which uses a.runner without looking whether        *)
(* runGitHubRunner has set it.                                             *)
(***************************************************************************)
EXTENDS Agent

CONSTANTS
    MmdsFaults, \* whether the metadata service may not answer, or refuse
    RetryMax,   \* retryClient.RetryMax
    MaxCrashes  \* bound on the restarts

ASSUME BootAssumption ==
    MmdsFaults \in BOOLEAN /\ RetryMax \in Nat /\ MaxCrashes \in Nat

VARIABLES
    boot,      \* where runAgentCmd is
    retries,   \* what the request to the metadata service has left
    runner,    \* whether a.runner is set
    listening, \* whether runGRPCServer listens
    asked,     \* whether a GetRunnerVersion has found no runner
    crashes    \* the failures of the process

bootVars == <<boot, retries, runner, listening, asked, crashes>>

Booting == {"token", "metadata", "new", "hostname"}

\* Every variable has its type.
BootTypeOK ==
    /\ TypeOK
    /\ boot \in Booting \cup {"up", "ended", "failed"}
    /\ retries \in 0 .. RetryMax
    /\ runner \in BOOLEAN /\ listening \in BOOLEAN /\ asked \in BOOLEAN
    /\ crashes \in 0 .. MaxCrashes + 1

BootInit ==
    /\ Init
    /\ boot = "token" /\ retries = RetryMax
    /\ runner = FALSE /\ listening = FALSE /\ asked = FALSE
    /\ crashes = 0

-----------------------------------------------------------------------------
(* runAgentCmd *)

\* A request is sent again while there is no answer, or one of a server at a
\* loss; any other answer than the one wanted is an error.
Retry ==
    /\ MmdsFaults /\ boot \in {"token", "metadata"} /\ retries > 0
    /\ retries' = retries - 1
    /\ UNCHANGED <<vars, boot, runner, listening, asked, crashes>>

RefreshToken ==
    /\ boot = "token"
    /\ boot' = "metadata" /\ retries' = RetryMax
    /\ UNCHANGED <<vars, runner, listening, asked, crashes>>

GetMetadata ==
    /\ boot = "metadata"
    /\ boot' = "new" /\ retries' = RetryMax
    /\ UNCHANGED <<vars, runner, listening, asked, crashes>>

\* Validate and setupLogger pass.
New ==
    /\ boot = "new"
    /\ boot' = "hostname"
    /\ UNCHANGED <<vars, retries, runner, listening, asked, crashes>>

\* setHostname; then runGitHubRunner goes its way and runGRPCServer is entered.
SetHostname ==
    /\ boot = "hostname"
    /\ boot' = "up"
    /\ UNCHANGED <<vars, retries, runner, listening, asked, crashes>>

\* What fails on the way is an error of runAgentCmd, printed by main.
BootFails ==
    /\ boot \in Booting
    /\ boot \in {"token", "metadata"} => MmdsFaults
    /\ boot' = "ended"
    /\ UNCHANGED <<vars, retries, runner, listening, asked, crashes>>

-----------------------------------------------------------------------------
(* The agent, once it runs *)

Up == boot = "up" /\ grpc # "returned"

SetRunner ==
    /\ Up /\ ~runner
    /\ runner' = TRUE
    /\ UNCHANGED <<vars, boot, retries, listening, asked, crashes>>

Listen ==
    /\ Up /\ ~listening
    /\ listening' = TRUE
    /\ UNCHANGED <<vars, boot, retries, runner, asked, crashes>>

\* runGitHubRunner runs what it has set.
Running ==
    /\ Up /\ runner /\ RunStep
    /\ UNCHANGED bootVars

\* The process, its readers, the signals and the server's own end.  A call that
\* has found no runner never ends, so the server is not drained.
Others ==
    /\ Up
    /\ \/ ProcessStep \/ (\E s \in Std : ReaderStep(s))
       \/ Signal \/ ServerFails
       \/ listening /\ (OpenStream \/ CloseStream \/ GracefulStop)
       \/ listening /\ ~asked /\ Drained
    /\ UNCHANGED bootVars

\* GetRunnerVersion takes a.runner as it is.  With a runner that is set it only
\* asks run.sh for its version, and GetRunnerState only reads; without one ...
GetRunnerVersion ==
    /\ Up /\ listening /\ grpc = "serving" /\ ~runner
    /\ asked' = TRUE
    /\ UNCHANGED <<vars, boot, retries, runner, listening, crashes>>

\* ... it uses none, whatever runGitHubRunner has set and started meanwhile, and
\* the panic of its goroutine ends the process.
Panic ==
    /\ boot = "up" /\ asked
    /\ boot' = "failed" /\ crashes' = crashes + 1 /\ crashes <= MaxCrashes
    /\ UNCHANGED <<vars, retries, runner, listening, asked>>

\* The process is killed, for the memory it takes or by hand.
Kill ==
    /\ boot \in Booting \cup {"up"}
    /\ boot' = "failed" /\ crashes' = crashes + 1 /\ crashes <= MaxCrashes
    /\ UNCHANGED <<vars, retries, runner, listening, asked>>

\* Run has returned, with an error or without.
Leave ==
    /\ boot = "up" /\ grpc = "returned"
    /\ boot' = "ended"
    /\ UNCHANGED <<vars, retries, runner, listening, asked, crashes>>

\* systemd's Restart=on-failure: what is left of the unit is killed, the runner's
\* process and a shutdown command that has not yet reached systemd with it, and
\* the agent starts anew, with the same metadata.
Restart ==
    /\ boot = "failed" /\ crashes <= MaxCrashes
    /\ boot' = "token" /\ retries' = RetryMax
    /\ runner' = FALSE /\ listening' = FALSE /\ asked' = FALSE
    /\ proc' = "none" /\ overlong' = {}
    /\ told' = [s \in Std |-> "Starting"]
    /\ pipe' = [s \in Std |-> <<>>]
    /\ reader' = [s \in Std |-> "none"] /\ buffer' = [s \in Std |-> <<>>]
    /\ run' = "start" /\ state' = "Starting"
    /\ shutdown' = "none" /\ ctxDone' = FALSE /\ streams' = 0 /\ grpc' = "serving"
    /\ UNCHANGED <<said, crashes>>

-----------------------------------------------------------------------------
BootStep == RefreshToken \/ GetMetadata \/ New \/ SetHostname \/ BootFails \/ Retry

BootNext ==
    BootStep \/ SetRunner \/ Listen \/ Running \/ Others \/ GetRunnerVersion
      \/ Panic \/ Kill \/ Leave \/ Restart

\* The process is run, and restarted as its unit says; the runner may run for
\* ever, and a client may stay or never call.
BootSpec ==
    /\ BootInit /\ [][BootNext]_<<vars, bootVars>>
    /\ WF_bootVars(BootStep) /\ WF_bootVars(SetRunner) /\ WF_bootVars(Listen)
    /\ WF_vars(Running)
    /\ \A s \in Std : WF_vars(Up /\ ReaderStep(s) /\ UNCHANGED bootVars)
    /\ WF_vars(Up /\ listening /\ GracefulStop /\ UNCHANGED bootVars)
    /\ WF_vars(Up /\ listening /\ ~asked /\ Drained /\ UNCHANGED bootVars)
    /\ WF_bootVars(Panic) /\ WF_bootVars(Leave) /\ WF_bootVars(Restart)

-----------------------------------------------------------------------------
(* Properties *)

\* A process whose lines all fit is never left waiting at a full pipe while the
\* agent is up: both pipes are read on, whatever the lines say (runner.go:235-236,
\* 256-262).
NeverBlocked ==
    \A s \in Std :
        Len(pipe[s]) = PipeSize ~> Len(pipe[s]) < PipeSize \/ s \in overlong \/ ~Up

\* The ways in which a machine is left behind without its runner: the shutdown
\* cannot be started (agent.go:157-161), the agent's own server has ended before
\* the runner or it never came to run (systemd takes both for a success,
\* main.go:10-12), or the agent fails more often than it is started again.
LeftBehind == shutdown = "failed" \/ boot = "ended" \/ crashes > MaxCrashes

\* A machine that is to go goes once its runner has ended or could not be started,
\* with an error or without, and wherever the agent was when it was killed or
\* panicked and was started again; there is no way of staying but those named.
GoesInTheEnd ==
    ShutdownOnExit => []<>(shutdown = "called" \/ proc = "running" \/ LeftBehind)

=============================================================================
