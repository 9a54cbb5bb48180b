-------------------------------- MODULE Logs --------------------------------
(***************************************************************************)
(* A `fireactions logs` command from end to end: runLogsCmd of             *)
(* src/cmd/fireactions/logs.go reads the stream of GetMachineLogs of       *)
(* src/server/rpc.go, which forwards the stream of GetLogs of              *)
(* src/agent/rpc.go, which sends what a tail goroutine sends (see Tail).   *)
(*                                                                         *)
(* A wire of gRPC keeps the order of the lines, holds a window of them and *)
(* ends after the last.  A broken one may lose what it still holds.        *)
(***************************************************************************)
EXTENDS Integers, Sequences

CONSTANTS
    Follow,  \* whether the command follows the log: some of {TRUE, FALSE}
    Window,  \* the lines a wire holds; its writer waits when it is full
    MaxLines \* bound on the lines sent

ASSUME FollowAssumption == Follow \subseteq BOOLEAN
ASSUME BoundsAssumption == Window \in Nat \ {0} /\ MaxLines \in Nat

VARIABLES
    follow,    \* the flag of the command
    cancelled, \* whether an interrupt has ended its context
    printed,   \* the lines it has printed
    result,    \* "none" until it ends, then "ok" or "error"
    front,     \* the wire from the server to the command
    proxy,     \* where GetMachineLogs is
    passing,   \* the line it is forwarding, as a sequence of at most one
    back,      \* the wire from the agent to the server
    handler,   \* where GetLogs is
    sending,   \* the line it is sending, likewise
    sent,      \* how many lines its tail has sent
    outcome,   \* how it has ended: "none" yet, "eof", "error"
    vm,        \* whether the machine runs
    agent      \* its agent's server: "serving", "draining", "stopped"

cliVars   == <<follow, cancelled, printed, result>>
proxyVars == <<front, proxy, passing>>
agentVars == <<back, handler, sending, sent, outcome>>
vars == <<cliVars, proxyVars, agentVars, vm, agent>>

\* What it holds, and how it goes on after that.
Wire == [lines : Seq(Nat), end : {"open", "eof", "error"}]

\* Every variable has its type, and no wire holds more than its window.
TypeOK ==
    /\ follow \in BOOLEAN /\ cancelled \in BOOLEAN
    /\ printed \in Seq(Nat) /\ result \in {"none", "ok", "error"}
    /\ front \in Wire /\ back \in Wire
    /\ Len(front.lines) <= Window /\ Len(back.lines) <= Window
    /\ proxy \in {"none", "find", "connect", "recv", "returned"}
    /\ passing \in Seq(Nat) /\ Len(passing) <= 1
    /\ handler \in {"none", "stat", "tail", "returned"}
    /\ sending \in Seq(Nat) /\ Len(sending) <= 1
    /\ sent \in 0 .. MaxLines /\ outcome \in {"none", "eof", "error"}
    /\ vm \in {"up", "gone"} /\ agent \in {"serving", "draining", "stopped"}

Idle == [lines |-> <<>>, end |-> "open"]

Init ==
    /\ follow \in Follow /\ cancelled = FALSE
    /\ printed = <<>> /\ result = "none"
    /\ front = Idle /\ proxy = "none" /\ passing = <<>>
    /\ back = Idle /\ handler = "none" /\ sending = <<>>
    /\ sent = 0 /\ outcome = "none"
    /\ vm = "up" /\ agent = "serving"

\* A wire that breaks keeps a part of what it holds, of those sent first.
Broken(wire) ==
    {[lines |-> SubSeq(wire.lines, 1, n), end |-> "error"] : n \in 0 .. Len(wire.lines)}

-----------------------------------------------------------------------------
(* The command *)

Start ==
    /\ proxy = "none" /\ result = "none"
    /\ proxy' = "find"
    /\ UNCHANGED <<cliVars, front, passing, agentVars, vm, agent>>

Recv ==
    /\ proxy # "none" /\ result = "none" /\ front.lines # <<>>
    /\ printed' = Append(printed, Head(front.lines))
    /\ front' = [front EXCEPT !.lines = Tail(@)]
    /\ UNCHANGED <<follow, cancelled, result, proxy, passing, agentVars, vm, agent>>

\* io.EOF ends the loop.
RecvEOF ==
    /\ proxy # "none" /\ result = "none" /\ front.lines = <<>> /\ front.end = "eof"
    /\ result' = "ok"
    /\ UNCHANGED <<follow, cancelled, printed, proxyVars, agentVars, vm, agent>>

\* Any other error is one unless the command was interrupted; its context is
\* looked at when the error is.
RecvError ==
    /\ proxy # "none" /\ result = "none"
    /\ cancelled \/ (front.lines = <<>> /\ front.end = "error")
    /\ result' = IF cancelled THEN "ok" ELSE "error"
    /\ UNCHANGED <<follow, cancelled, printed, proxyVars, agentVars, vm, agent>>

\* Only a command that follows catches the signal; another dies of it.
Interrupt ==
    /\ proxy # "none" /\ result = "none" /\ ~cancelled
    /\ IF follow THEN cancelled' = TRUE /\ UNCHANGED result
                 ELSE result' = "error" /\ UNCHANGED cancelled
    /\ UNCHANGED <<follow, printed, proxyVars, agentVars, vm, agent>>

\* Nothing reads its output any more.
WriteFails ==
    /\ proxy # "none" /\ result = "none" /\ front.lines # <<>>
    /\ result' = "error"
    /\ UNCHANGED <<follow, cancelled, printed, proxyVars, agentVars, vm, agent>>

\* The connection to the server breaks, maybe after the server has written all.
FrontBreaks ==
    /\ proxy # "none" /\ result = "none" /\ front.end # "error"
    /\ front' \in Broken(front)
    /\ UNCHANGED <<cliVars, proxy, passing, agentVars, vm, agent>>

-----------------------------------------------------------------------------
(* GetMachineLogs *)

\* The command has gone, was interrupted or cannot be reached: the context of
\* the call ends, and with it that of the call to the agent.
CliGone == result # "none" \/ cancelled \/ front.end # "open"

ProxyReturns(end) ==
    /\ proxy' = "returned" /\ passing' = <<>>
    /\ front' = IF front.end = "open" THEN [front EXCEPT !.end = end] ELSE front

FindMachine ==
    /\ proxy = "find"
    /\ IF vm = "up" THEN proxy' = "connect" /\ UNCHANGED <<front, passing>>
                    ELSE ProxyReturns("error")
    /\ UNCHANGED <<cliVars, agentVars, vm, agent>>

\* The stream is opened: an agent that drains takes none.
Connect ==
    /\ proxy = "connect" /\ vm = "up" /\ agent = "serving"
    /\ proxy' = "recv" /\ handler' = "stat"
    /\ UNCHANGED <<cliVars, front, passing, back, sending, sent, outcome, vm, agent>>

ConnectFails ==
    /\ proxy = "connect"
    /\ ProxyReturns("error")
    /\ UNCHANGED <<cliVars, agentVars, vm, agent>>

ProxyRecv ==
    /\ proxy = "recv" /\ passing = <<>> /\ back.lines # <<>>
    /\ passing' = <<Head(back.lines)>>
    /\ back' = [back EXCEPT !.lines = Tail(@)]
    /\ UNCHANGED <<cliVars, front, proxy, handler, sending, sent, outcome, vm, agent>>

\* A mutant of ProxySend: a line for which there is no room is dropped.
ProxySendOrDrop ==
    /\ proxy = "recv" /\ passing # <<>> /\ front.end = "open"
    /\ front' = IF Len(front.lines) < Window THEN [front EXCEPT !.lines = Append(@, Head(passing))] ELSE front
    /\ passing' = <<>>
    /\ UNCHANGED <<cliVars, proxy, agentVars, vm, agent>>

ProxySend ==
    /\ proxy = "recv" /\ passing # <<>> /\ front.end = "open"
    /\ Len(front.lines) < Window
    /\ front' = [front EXCEPT !.lines = Append(@, Head(passing))]
    /\ passing' = <<>>
    /\ UNCHANGED <<cliVars, proxy, agentVars, vm, agent>>

\* A mutant of ProxyEnds: every error of the agent's stream is taken for its end.
ProxyEndsWell ==
    /\ proxy = "recv" /\ passing = <<>> /\ back.lines = <<>> /\ back.end # "open"
    /\ ProxyReturns("eof")
    /\ UNCHANGED <<cliVars, agentVars, vm, agent>>

\* A mutant of ProxyEnds: an error is taken for a line that is yet to come.
ProxyEndsAtEOF ==
    /\ proxy = "recv" /\ passing = <<>> /\ back.lines = <<>> /\ back.end = "eof"
    /\ ProxyReturns(back.end)
    /\ UNCHANGED <<cliVars, agentVars, vm, agent>>

\* The end of the agent's stream is the end of this one, an error is an error.
ProxyEnds ==
    /\ proxy = "recv" /\ passing = <<>> /\ back.lines = <<>> /\ back.end # "open"
    /\ ProxyReturns(back.end)
    /\ UNCHANGED <<cliVars, agentVars, vm, agent>>

\* Send and Recv fail when the context has ended.
ProxyCancelled ==
    /\ proxy = "recv" /\ CliGone
    /\ ProxyReturns("error")
    /\ UNCHANGED <<cliVars, agentVars, vm, agent>>

-----------------------------------------------------------------------------
(* GetLogs of the agent *)

HandlerReturns(end) ==
    /\ handler' = "returned" /\ sending' = <<>> /\ outcome' = end
    /\ back' = IF back.end = "open" THEN [back EXCEPT !.end = end] ELSE back

\* Without a file there is nothing to show, unless one may come.
NoFile ==
    /\ handler = "stat" /\ ~follow
    /\ HandlerReturns("eof")
    /\ UNCHANGED <<cliVars, proxyVars, sent, vm, agent>>

StartTail ==
    /\ handler = "stat"
    /\ handler' = "tail"
    /\ UNCHANGED <<cliVars, proxyVars, back, sending, sent, outcome, vm, agent>>

Take ==
    /\ handler = "tail" /\ sending = <<>> /\ sent < MaxLines
    /\ sent' = sent + 1 /\ sending' = <<sent'>>
    /\ UNCHANGED <<cliVars, proxyVars, back, handler, outcome, vm, agent>>

Send ==
    /\ handler = "tail" /\ sending # <<>> /\ proxy # "returned"
    /\ Len(back.lines) < Window
    /\ back' = [back EXCEPT !.lines = Append(@, Head(sending))]
    /\ sending' = <<>>
    /\ UNCHANGED <<cliVars, proxyVars, handler, sent, outcome, vm, agent>>

\* Lines is closed: at the end of a file that is not followed, or by an error.
TailEnds ==
    /\ handler = "tail" /\ sending = <<>>
    /\ \E end \in {"eof", "error"} : (end = "eof" => ~follow) /\ HandlerReturns(end)
    /\ UNCHANGED <<cliVars, proxyVars, sent, vm, agent>>

\* A mutant of HandlerCancelled: only a Send notices.
HandlerSendCancelled ==
    /\ handler = "tail" /\ sending # <<>> /\ proxy = "returned"
    /\ HandlerReturns("error")
    /\ UNCHANGED <<cliVars, proxyVars, sent, vm, agent>>

\* The server has closed its connection: the context ends, and a Send fails.
HandlerCancelled ==
    /\ handler \in {"stat", "tail"} /\ proxy = "returned"
    /\ HandlerReturns("error")
    /\ UNCHANGED <<cliVars, proxyVars, sent, vm, agent>>

-----------------------------------------------------------------------------
(* The agent's process and its machine *)

Signal ==
    /\ agent = "serving" /\ vm = "up"
    /\ agent' = "draining"
    /\ UNCHANGED <<cliVars, proxyVars, agentVars, vm>>

\* GracefulStop waits for the streams.
Drained ==
    /\ agent = "draining" /\ vm = "up" /\ handler \notin {"stat", "tail"}
    /\ agent' = "stopped"
    /\ UNCHANGED <<cliVars, proxyVars, agentVars, vm>>

\* The machine's end breaks what the agent has open.
MachineGone ==
    /\ vm = "up"
    /\ vm' = "gone" /\ agent' = "stopped"
    /\ IF handler \in {"stat", "tail"}
       THEN handler' = "returned" /\ sending' = <<>> /\ outcome' = "error"
       ELSE UNCHANGED <<handler, sending, outcome>>
    /\ back' \in Broken(back)
    /\ UNCHANGED <<cliVars, proxyVars, sent>>

-----------------------------------------------------------------------------
CliStep     == Recv \/ RecvEOF \/ RecvError
ProxyStep   == FindMachine \/ Connect \/ ConnectFails \/ ProxyRecv \/ ProxySend
                 \/ ProxyEnds \/ ProxyCancelled
HandlerStep == NoFile \/ StartTail \/ Take \/ Send \/ HandlerCancelled

Next ==
    \/ Start \/ CliStep \/ Interrupt \/ WriteFails \/ FrontBreaks
    \/ ProxyStep \/ HandlerStep \/ TailEnds
    \/ Signal \/ Drained \/ MachineGone

\* The command, the two handlers and the drain are run; a tail that does not
\* follow comes to its end (Tail).  Nobody has to interrupt, signal or break.
Spec ==
    /\ Init /\ [][Next]_vars
    /\ WF_vars(CliStep)
    /\ WF_vars(ProxyStep) /\ WF_vars(ProxyCancelled)
    /\ WF_vars(HandlerStep) /\ WF_vars(HandlerCancelled)
    /\ WF_vars(TailEnds /\ ~follow)
    /\ WF_vars(Drained)

-----------------------------------------------------------------------------
(* Properties *)

\* What is printed is what the tail has sent, from the first line on, in order
\* and without a gap, through two wires and two handlers that may break at any
\* time (rpc.go:200-218, logs.go:64-82).
PrintsInOrder ==
    Len(printed) <= sent /\ \A i \in DOMAIN printed : printed[i] = i

\* A command that succeeds without having been interrupted has printed all the
\* lines: no loss upstream looks like the end (rpc.go:203-209, logs.go:66-75).
OkMeansAll ==
    result = "ok" /\ ~cancelled => outcome = "eof" /\ Len(printed) = sent

\* Logs implements LogStream.
Stream == INSTANCE LogStream
          WITH sent <- sent, outcome <- outcome, printed <- printed,
               cancelled <- cancelled, result <- result
KeepsStream == Stream!Spec

\* When the command has ended both handlers end, even if no line ever comes
\* (rpc.go:193-194, agent/rpc.go:67-70); otherwise each would keep the server it
\* belongs to from stopping.
HandlersEnd ==
    result # "none" ~>
        proxy \in {"none", "returned"} /\ handler \in {"none", "returned"}

\* A command ends if it does not follow, and also one that does whose machine has
\* gone: neither waits for ever for a line (logs.go:65-76, rpc.go:204-218).
CommandEnds == proxy # "none" /\ (vm = "gone" \/ ~follow) ~> result # "none"

\* The agent's GracefulStop ends unless a command goes on to follow (agent.go:129).
DrainEnds == agent = "draining" ~> agent = "stopped" \/ (follow /\ result = "none")

=============================================================================
