-------------------------------- MODULE Agent --------------------------------
(***************************************************************************)
(* src/agent/runner/runner.go and src/agent/agent.go: the agent in a VM    *)
(* starts the GitHub runner's process, learns its state from the lines it  *)
(* writes, and shuts the VM down when it exits; its gRPC server runs until *)
(* the agent's context ends.  Boot says when each of them can run.          *)
(*                                                                         *)
(* A line is what pipeToLogger makes of it: a state it tells, "other",     *)
(* "blank", or "long", one that does not fit the scanner (64 KiB).         *)
(***************************************************************************)
EXTENDS Integers, Sequences

CONSTANTS
    ShutdownOnExit, \* Config.ShutdownOnExit
    PipeSize,       \* the lines a pipe holds; its writer waits when it is full
    MaxLines,       \* bound on the lines the process writes
    MaxStreams,     \* bound on the GetLogs calls in flight
    LongLines,      \* whether a line may be too long
    Signals         \* whether the agent's context may end

ASSUME SwitchAssumption == {ShutdownOnExit, LongLines, Signals} \subseteq BOOLEAN
ASSUME BoundsAssumption ==
    PipeSize \in Nat \ {0} /\ MaxLines \in Nat /\ MaxStreams \in Nat

VARIABLES
    proc,     \* the process: "none", "running", "ok" or "error" once it ended
    told,     \* the state each pipe was last written of
    said,     \* the lines it has written
    overlong, \* the pipes it has written a line to that does not fit
    pipe,     \* what the stdout and stderr pipes hold
    reader,   \* pipeToLogger on each
    buffer,   \* the lines its scanner has read ahead
    run,      \* where Runner.Run, and runGitHubRunner around it, are
    state,    \* Runner.state
    shutdown, \* whether the agent has called for the VM's shutdown
    ctxDone,  \* the end of the agent's context
    streams,  \* the GetLogs calls in flight
    grpc      \* where runGRPCServer is

procVars   == <<proc, told, said, overlong>>
readerVars == <<reader, buffer>>
agentVars  == <<ctxDone, streams, grpc>>
vars == <<procVars, pipe, readerVars, run, state, shutdown, agentVars>>

Std == {"stdout", "stderr"}
Told == {"Idle", "Running", "Completed"}
Line == Told \cup {"other", "blank", "long"}
State == Told \cup {"Starting", "Exited", "Error"}

\* Every variable has its type.
TypeOK ==
    /\ proc \in {"none", "running", "ok", "error"}
    /\ told \in [Std -> Told \cup {"Starting"}] /\ said \in 0 .. MaxLines
    /\ overlong \subseteq Std
    /\ pipe \in [Std -> Seq(Line)] /\ \A s \in Std : Len(pipe[s]) <= PipeSize
    /\ reader \in [Std -> {"none", "scan", "gone", "done"}]
    /\ buffer \in [Std -> Seq(Line)]
    /\ run \in {"start", "wait", "exited", "returned", "ended"}
    /\ state \in State
    /\ shutdown \in {"none", "called", "failed"} /\ ctxDone \in BOOLEAN
    /\ streams \in 0 .. MaxStreams
    /\ grpc \in {"serving", "draining", "returned"}

Init ==
    /\ proc = "none" /\ said = 0 /\ overlong = {}
    /\ told = [s \in Std |-> "Starting"]
    /\ pipe = [s \in Std |-> <<>>]
    /\ reader = [s \in Std |-> "none"] /\ buffer = [s \in Std |-> <<>>]
    /\ run = "start" /\ state = "Starting"
    /\ shutdown = "none" /\ ctxDone = FALSE
    /\ streams = 0 /\ grpc = "serving"

-----------------------------------------------------------------------------
(* The runner's process, outside the code *)

\* It writes what it likes on either pipe: the readers take the states of both.
Say(s, line) ==
    /\ proc = "running" /\ said < MaxLines
    /\ Len(pipe[s]) < PipeSize
    /\ line = "long" => LongLines
    /\ pipe' = [pipe EXCEPT ![s] = Append(@, line)]
    /\ told' = [told EXCEPT ![s] = IF line \in Told THEN line ELSE @]
    /\ said' = said + 1
    /\ overlong' = IF line = "long" THEN overlong \cup {s} ELSE overlong
    /\ UNCHANGED <<proc, readerVars, run, state, shutdown, agentVars>>

\* It exits when its work is done, or fails, or is killed with the context.
Exit(result) ==
    /\ proc = "running"
    /\ proc' = result
    /\ UNCHANGED <<told, said, overlong, pipe, readerVars, run, state, shutdown, agentVars>>

-----------------------------------------------------------------------------
(* Runner.Run and runGitHubRunner *)

\* A mutant of Start: stderr is left to itself.
StartReadsStdout ==
    /\ run = "start"
    /\ proc' = "running" /\ run' = "wait"
    /\ reader' = [reader EXCEPT !["stdout"] = "scan"]
    /\ UNCHANGED <<told, said, overlong, pipe, buffer, state, shutdown, agentVars>>

\* The process is started, with a reader of each of its pipes ...
Start ==
    /\ run = "start"
    /\ proc' = "running" /\ run' = "wait"
    /\ reader' = [s \in Std |-> "scan"]
    /\ UNCHANGED <<told, said, overlong, pipe, buffer, state, shutdown, agentVars>>

\* ... or it is not: only an error of Start itself is a state.
StartFails ==
    /\ run = "start"
    /\ run' = "returned"
    /\ state' \in {state, "Error"}
    /\ UNCHANGED <<procVars, pipe, readerVars, shutdown, agentVars>>

\* Wait closes the pipes, whatever they still hold.
Wait ==
    /\ run = "wait" /\ proc \in {"ok", "error"}
    /\ pipe' = [s \in Std |-> <<>>]
    /\ run' = "exited"
    /\ UNCHANGED <<procVars, readerVars, state, shutdown, agentVars>>

SetExited ==
    /\ run = "exited"
    /\ state' = IF proc = "ok" THEN "Exited" ELSE "Error"
    /\ run' = "returned"
    /\ UNCHANGED <<procVars, pipe, readerVars, shutdown, agentVars>>

\* A mutant of End: an error of the runner returns before the shutdown.
EndOnSuccess ==
    /\ run = "returned"
    /\ run' = "ended"
    /\ shutdown' \in IF ShutdownOnExit /\ proc = "ok" THEN {"called", "failed"}
                     ELSE {shutdown}
    /\ UNCHANGED <<procVars, pipe, readerVars, state, agentVars>>

\* Failed or not, the VM is shut down unless the pool keeps it: the command is
\* started and not waited for, or cannot be started, which is only logged.
End ==
    /\ run = "returned"
    /\ run' = "ended"
    /\ shutdown' \in IF ShutdownOnExit THEN {"called", "failed"} ELSE {shutdown}
    /\ UNCHANGED <<procVars, pipe, readerVars, state, agentVars>>

-----------------------------------------------------------------------------
(* pipeToLogger *)

\* The scanner reads what the pipe holds ...
Read(s) ==
    /\ reader[s] = "scan" /\ buffer[s] = <<>> /\ pipe[s] # <<>>
    /\ buffer' = [buffer EXCEPT ![s] = pipe[s]]
    /\ pipe' = [pipe EXCEPT ![s] = <<>>]
    /\ UNCHANGED <<procVars, reader, run, state, shutdown, agentVars>>

\* A mutant of Handle: a job's end is taken for a job.
HandleMistakes(s) ==
    /\ reader[s] = "scan" /\ buffer[s] # <<>>
    /\ LET line == Head(buffer[s])
       IN  /\ state' = IF line \in {"Running", "Completed"} THEN "Running"
                       ELSE IF line \in Told THEN line ELSE state
           /\ reader' = [reader EXCEPT ![s] = IF line = "long" THEN "gone" ELSE @]
    /\ buffer' = [buffer EXCEPT ![s] = Tail(@)]
    /\ UNCHANGED <<procVars, pipe, run, shutdown, agentVars>>

\* A mutant of Handle: whatever the line says is the state.
HandleAnyLine(s) ==
    /\ reader[s] = "scan" /\ buffer[s] # <<>>
    /\ state' = Head(buffer[s])
    /\ reader' = [reader EXCEPT ![s] = IF state' = "long" THEN "gone" ELSE @]
    /\ buffer' = [buffer EXCEPT ![s] = Tail(@)]
    /\ UNCHANGED <<procVars, pipe, run, shutdown, agentVars>>

\* ... and each line may tell a state.  One that is too long ends the scanner,
\* and nothing reads the pipe any more.
Handle(s) ==
    /\ reader[s] = "scan" /\ buffer[s] # <<>>
    /\ LET line == Head(buffer[s])
       IN  /\ state' = IF line \in Told THEN line ELSE state
           /\ reader' = [reader EXCEPT ![s] = IF line = "long" THEN "gone" ELSE @]
    /\ buffer' = [buffer EXCEPT ![s] = Tail(@)]
    /\ UNCHANGED <<procVars, pipe, run, shutdown, agentVars>>

\* The pipe is at its end when the process has, or closed by Wait.
ReadEnd(s) ==
    /\ reader[s] = "scan" /\ buffer[s] = <<>> /\ pipe[s] = <<>>
    /\ proc \in {"ok", "error"}
    /\ reader' = [reader EXCEPT ![s] = "done"]
    /\ UNCHANGED <<procVars, pipe, buffer, run, state, shutdown, agentVars>>

-----------------------------------------------------------------------------
(* runGRPCServer, and the log streams that GetLogs serves *)

Signal ==
    /\ Signals /\ ~ctxDone
    /\ ctxDone' = TRUE
    /\ UNCHANGED <<procVars, pipe, readerVars, run, state, shutdown, streams, grpc>>

OpenStream ==
    /\ grpc = "serving" /\ streams < MaxStreams
    /\ streams' = streams + 1
    /\ UNCHANGED <<procVars, pipe, readerVars, run, state, shutdown, ctxDone, grpc>>

CloseStream ==
    /\ streams > 0
    /\ streams' = streams - 1
    /\ UNCHANGED <<procVars, pipe, readerVars, run, state, shutdown, ctxDone, grpc>>

GracefulStop ==
    /\ grpc = "serving" /\ ctxDone
    /\ grpc' = "draining"
    /\ UNCHANGED <<procVars, pipe, readerVars, run, state, shutdown, ctxDone, streams>>

\* The calls in flight are waited for.
Drained ==
    /\ grpc = "draining" /\ streams = 0
    /\ grpc' = "returned"
    /\ UNCHANGED <<procVars, pipe, readerVars, run, state, shutdown, ctxDone, streams>>

\* The listener cannot be opened, or Serve fails.
ServerFails ==
    /\ grpc = "serving"
    /\ grpc' = "returned"
    /\ UNCHANGED <<procVars, pipe, readerVars, run, state, shutdown, ctxDone, streams>>

-----------------------------------------------------------------------------
(* What Boot composes *)

ProcessStep == (\E s \in Std, line \in Line : Say(s, line))
                 \/ (\E result \in {"ok", "error"} : Exit(result))
ReaderStep(s) == Read(s) \/ Handle(s) \/ ReadEnd(s)
RunStep       == Start \/ StartFails \/ Wait \/ SetExited \/ End

-----------------------------------------------------------------------------
(* Properties *)

\* While the process runs and all it has written has been read, the state is one
\* that a pipe told last: no state is kept that a later line of the same pipe has
\* replaced, though two goroutines set it (runner.go:239-240, 264-271).
StateKeepsUp ==
    LET last == {told[s] : s \in Std} \ {"Starting"}
    IN  /\ proc = "running"
        /\ \A s \in Std : reader[s] = "scan" /\ pipe[s] = <<>> /\ buffer[s] = <<>>
        => IF last = {} THEN state = "Starting" ELSE state \in last

=============================================================================
