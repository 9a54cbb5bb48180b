--------------------------------- MODULE Api ---------------------------------
(***************************************************************************)
(* The unary calls of ServerService from end to end: a command of          *)
(* src/cmd/fireactions sends a request, a handler of src/server/rpc.go     *)
(* works on the pools while other handlers do, and src/server/convert.go   *)
(* makes the answer of what it reads one piece after the other.            *)
(*                                                                         *)
(* Of a pool there is what the handlers read and write, of a machine       *)
(* whether its pool lists it and what its agent would say.  Both change    *)
(* under the handlers as Pool and Agent let them.                          *)
(***************************************************************************)
EXTENDS Messages, FiniteSets, SequencesExt

CONSTANTS
    Client,    \* the processes of the command line, one command each
    Plans,     \* what they run, all choices of it: [Client -> Command]
    Pool,      \* the names of the pools of the server
    Machine,   \* the names its machines may have
    PoolOf,    \* the pool of each machine
    Listings,  \* the sets of machines that may be listed at first
    Changes    \* bound on the changes of machines and agents

Command == Request \cup [rpc : {"ScalePool"}, Name : PoolName, Replicas : Int]

ASSUME PoolsAssumption ==
    /\ Pool \subseteq PoolName /\ IsFiniteSet(Pool)
    /\ Machine \subseteq MachineName /\ IsFiniteSet(Machine)
    /\ PoolOf \in [Machine -> Pool]
    /\ Listings \subseteq SUBSET Machine
    /\ Changes \in Nat
ASSUME PlansAssumption == \A plan \in Plans : \A c \in Client : plan[c] \in Command

VARIABLES
    replicas, isActive, \* two fields of each pool
    status,   \* metricPoolStatus
    life,     \* of each machine: "new", "listed" in its pool's map, "gone"
    agent,    \* what its agent says of the runner; "silent": nothing yet, or
              \* nothing until systemd has started it again; "dead": with its machine
    cmd,      \* what each client runs
    out,      \* what has become of it: "none", "waiting", "ok", "error"
    reply,    \* the response the client has got
    at,       \* where its handler is in the server
    todo,     \* the pools it has yet to read or to list
    found,    \* the machines it has found
    draft,    \* the message it is filling in, or one for each machine
    arrived,  \* the channel of results: the indices that have come in, in order
    protos,   \* the messages it has made
    \* of no use to the code: the facts that were true while a handler ran, the
    \* pools whose gauge two handlers set at a time, the changes made
    seen, overlapped, changed

poolVars    == <<replicas, isActive, status, overlapped>>
machineVars == <<life, agent, changed>>
clientVars  == <<cmd, out, reply>>
localVars   == <<todo, found, draft, arrived, protos>>
vars == <<poolVars, machineVars, clientVars, at, localVars, seen>>

NoAnswer == {"silent", "dead"}

Field == {"State", "Replicas", "CurrentReplicas", "DesiredReplicas"}
NoReply == [none |-> TRUE]

\* All the orders in which a map may be walked.
Orders(S) == Bijection(1 .. Cardinality(S), S)

\* sort.Slice: the same elements, none after one that it comes before.
Sorted(s, Precedes(_, _)) ==
    {t \in {[i \in DOMAIN s |-> s[f[i]]] : f \in Bijection(DOMAIN s, DOMAIN s)} :
        \A i, j \in DOMAIN t : i < j => ~Precedes(t[j], t[i])}

\* A message, or a list of them, with one more part filled in.
With(f, x, v) == [y \in DOMAIN f \cup {x} |-> IF y = x THEN v ELSE f[y]]

Listed(p) == {m \in Machine : life[m] = "listed" /\ PoolOf[m] = p}
Handling(c) == at[c] \notin {"none", "done"}

\* Every variable has its type.
TypeOK ==
    /\ replicas \in [Pool -> Int32] /\ isActive \in [Pool -> BOOLEAN]
    /\ status \in [Pool -> {0, 1}] /\ overlapped \subseteq Pool
    /\ life \in [Machine -> {"new", "listed", "gone"}]
    /\ agent \in [Machine -> RunnerState \cup NoAnswer]
    /\ changed \in 0 .. Changes
    /\ cmd \in Plans
    /\ out \in [Client -> {"none", "waiting", "ok", "error"}]
    /\ \A c \in Client : reply[c] = NoReply \/ reply[c] \in Response
    /\ at \in [Client -> {"none", "find", "gauge", "list", "ask", "reply", "done"} \cup Field]
    /\ todo \in [Client -> Seq(Pool)] /\ found \in [Client -> Seq(Machine)]
    /\ \A c \in Client : arrived[c] \in Seq(1 .. Len(found[c]))

Init ==
    /\ replicas = [p \in Pool |-> 1] /\ isActive = [p \in Pool |-> TRUE]
    /\ status = [p \in Pool |-> 1] /\ overlapped = {}
    /\ \E listed \in Listings :
           life = [m \in Machine |-> IF m \in listed THEN "listed" ELSE "new"]
    /\ agent = [m \in Machine |-> IF life[m] = "listed" THEN "Idle" ELSE "silent"]
    /\ changed = 0
    /\ cmd \in Plans
    /\ out = [c \in Client |-> "none"] /\ reply = [c \in Client |-> NoReply]
    /\ at = [c \in Client |-> "none"]
    /\ todo = [c \in Client |-> <<>>] /\ found = [c \in Client |-> <<>>]
    /\ draft = [c \in Client |-> <<>>] /\ arrived = [c \in Client |-> <<>>]
    /\ protos = [c \in Client |-> <<>>]
    /\ seen = [c \in Client |-> {}]

-----------------------------------------------------------------------------
(* The commands, and the requests they send *)

List              == [rpc |-> "ListPools"]
Scale(name, n)    == [rpc |-> "ScalePool", Name |-> name, Replicas |-> n]
Pause(name)       == [rpc |-> "PausePool", Name |-> name]
Resume(name)      == [rpc |-> "ResumePool", Name |-> name]
Ps                == [rpc |-> "ListMachines", Pool |-> NoName]
Login(id)         == [rpc |-> "GetMachine", ID |-> id]

\* A mutant of RequestOf: the number is sent as it is.
RequestUnconverted(k) == k

\* An int on the command line, an int32 on the wire.
RequestOf(k) ==
    IF k.rpc = "ScalePool" THEN [k EXCEPT !.Replicas = ToInt32(@)] ELSE k

Req(c) == RequestOf(cmd[c])

\* The stub of the client sends the request, and waits; a handler takes it.
Begin(c) ==
    /\ out[c] = "none"
    /\ out' = [out EXCEPT ![c] = "waiting"]
    /\ at' = [at EXCEPT ![c] = "find"]
    /\ UNCHANGED <<poolVars, machineVars, cmd, reply, localVars>>

\* The connection breaks, or there was none.  A handler goes on.
Lost(c) ==
    /\ out[c] = "waiting"
    /\ out' = [out EXCEPT ![c] = "error"]
    /\ UNCHANGED <<poolVars, machineVars, cmd, reply, at, localVars>>

\* The handler returns, and the stub with it if it still waits.
Return(c, result, response) ==
    /\ at' = [at EXCEPT ![c] = "done"]
    /\ IF out[c] = "waiting"
       THEN /\ out' = [out EXCEPT ![c] = result]
            /\ reply' = [reply EXCEPT ![c] = response]
       ELSE UNCHANGED <<out, reply>>
    /\ todo' = [todo EXCEPT ![c] = <<>>] /\ found' = [found EXCEPT ![c] = <<>>]
    /\ draft' = [draft EXCEPT ![c] = <<>>] /\ arrived' = [arrived EXCEPT ![c] = <<>>]
    /\ protos' = [protos EXCEPT ![c] = <<>>]
    /\ UNCHANGED cmd

-----------------------------------------------------------------------------
(* Handlers of one pool *)

Named(c) == Req(c).Name \in Pool

\* findPool or findMachine finds nothing.
NotFound(c) ==
    /\ at[c] = "find"
    /\ CASE Req(c).rpc = "ListPools"    -> FALSE
         [] Req(c).rpc = "ListMachines" -> Req(c).Pool \notin Pool \cup {NoName}
         [] Req(c).rpc = "GetMachine"   -> \A p \in Pool : Req(c).ID \notin Listed(p)
         [] OTHER                       -> ~Named(c)
    /\ Return(c, "error", NoReply)
    /\ UNCHANGED <<poolVars, machineVars>>

ScalePool(c) ==
    /\ at[c] = "find" /\ Req(c).rpc = "ScalePool" /\ Named(c)
    /\ replicas' = [replicas EXCEPT ![Req(c).Name] = Req(c).Replicas]
    /\ Return(c, "ok", [scaled |-> TRUE])
    /\ UNCHANGED <<isActive, status, overlapped, machineVars>>

Setting(p) == {c \in Client : at[c] = "gauge" /\ Req(c).Name = p}

\* The flag, ...
SetActive(c) ==
    /\ at[c] = "find" /\ Req(c).rpc \in {"PausePool", "ResumePool"} /\ Named(c)
    /\ LET p == Req(c).Name
       IN  /\ isActive' = [isActive EXCEPT ![p] = Req(c).rpc = "ResumePool"]
           /\ overlapped' = IF Setting(p) = {} THEN overlapped \ {p} ELSE overlapped \cup {p}
    /\ at' = [at EXCEPT ![c] = "gauge"]
    /\ UNCHANGED <<replicas, status, machineVars, clientVars, localVars>>

\* A mutant of SetStatus: a resumed pool is reported as paused.
SetStatusPaused(c) ==
    /\ at[c] = "gauge"
    /\ status' = [status EXCEPT ![Req(c).Name] = 0]
    /\ Return(c, "ok", IF Req(c).rpc = "ResumePool" THEN [resumed |-> TRUE] ELSE [paused |-> TRUE])
    /\ UNCHANGED <<replicas, isActive, overlapped, machineVars>>

\* ... then the metric.
SetStatus(c) ==
    /\ at[c] = "gauge"
    /\ status' = [status EXCEPT ![Req(c).Name] = IF Req(c).rpc = "ResumePool" THEN 1 ELSE 0]
    /\ Return(c, "ok", IF Req(c).rpc = "ResumePool" THEN [resumed |-> TRUE] ELSE [paused |-> TRUE])
    /\ UNCHANGED <<replicas, isActive, overlapped, machineVars>>

-----------------------------------------------------------------------------
(* GetPool and ListPools *)

NameBefore(p, q) == p < q

\* One pool, or all of them in the order of their names.
FindPools(c) ==
    /\ at[c] = "find"
    /\ \/ /\ Req(c).rpc = "ListPools"
          /\ \E walk \in Orders(Pool) : \E pools \in Sorted(walk, NameBefore) :
                 todo' = [todo EXCEPT ![c] = pools]
       \/ Req(c).rpc = "GetPool" /\ Named(c) /\ todo' = [todo EXCEPT ![c] = <<Req(c).Name>>]
    /\ at' = [at EXCEPT ![c] = IF todo'[c] = <<>> THEN "reply" ELSE "State"]
    /\ UNCHANGED <<poolVars, machineVars, clientVars, found, draft, arrived, protos>>

ValueOf(p, field) ==
    CASE field = "State"           -> IF isActive[p] THEN "ACTIVE" ELSE "PAUSED"
      [] field = "CurrentReplicas" -> ToInt32(Cardinality(Listed(p)))
      [] OTHER                     -> replicas[p]

FieldAfter == [State |-> "Replicas", Replicas |-> "CurrentReplicas",
               CurrentReplicas |-> "DesiredReplicas"]

\* A mutant of ReadField: what was read for the pool before is not read again.
ReadFieldOnce(c) ==
    /\ at[c] \in Field
    /\ LET p == Head(todo[c])
           value == IF at[c] \in DOMAIN draft[c] THEN draft[c][at[c]] ELSE ValueOf(p, at[c])
           filled == With(With(draft[c], "Name", p), at[c], value)
           last == at[c] = "DesiredReplicas"
       IN  /\ draft' = [draft EXCEPT ![c] = filled]
           /\ protos' = IF last THEN [protos EXCEPT ![c] = Append(@, filled)] ELSE protos
           /\ todo' = IF last THEN [todo EXCEPT ![c] = Tail(@)] ELSE todo
           /\ at' = [at EXCEPT ![c] = IF ~last THEN FieldAfter[@]
                                      ELSE IF todo'[c] = <<>> THEN "reply" ELSE "State"]
    /\ UNCHANGED <<poolVars, machineVars, clientVars, found, arrived>>

\* convertPoolToProto reads one field after the other; then comes the next pool.
ReadField(c) ==
    /\ at[c] \in Field
    /\ LET p == Head(todo[c])
           filled == With(With(draft[c], "Name", p), at[c], ValueOf(p, at[c]))
           last == at[c] = "DesiredReplicas"
       IN  /\ draft' = [draft EXCEPT ![c] = IF last THEN <<>> ELSE filled]
           /\ protos' = IF last THEN [protos EXCEPT ![c] = Append(@, filled)] ELSE protos
           /\ todo' = IF last THEN [todo EXCEPT ![c] = Tail(@)] ELSE todo
           /\ at' = [at EXCEPT ![c] = IF ~last THEN FieldAfter[@]
                                      ELSE IF todo'[c] = <<>> THEN "reply" ELSE "State"]
    /\ UNCHANGED <<poolVars, machineVars, clientVars, found, arrived>>

-----------------------------------------------------------------------------
(* ListMachines and GetMachine *)

ListMachines(c) ==
    /\ at[c] = "find" /\ Req(c).rpc = "ListMachines"
    /\ Req(c).Pool \in Pool \cup {NoName}
    /\ \E walk \in Orders(IF Req(c).Pool = NoName THEN Pool ELSE {Req(c).Pool}) :
           todo' = [todo EXCEPT ![c] = walk]
    /\ at' = [at EXCEPT ![c] = IF todo'[c] = <<>> THEN "reply" ELSE "list"]
    /\ UNCHANGED <<poolVars, machineVars, clientVars, found, draft, arrived, protos>>

\* By pool, then by name.
Before(m, n) == PoolOf[m] < PoolOf[n] \/ (PoolOf[m] = PoolOf[n] /\ m < n)

\* Machines to ask, each by a goroutine of its own.
ToAsk(c, machines) ==
    /\ found' = [found EXCEPT ![c] = machines]
    /\ draft' = [draft EXCEPT ![c] = [i \in DOMAIN machines |->
                    [ID |-> machines[i], Pool |-> PoolOf[machines[i]]]]]
    /\ at' = [at EXCEPT ![c] = IF machines = <<>> THEN "reply" ELSE "ask"]

\* A mutant of ListPool: the machines are in the order of the map.
ListPoolUnsorted(c) ==
    /\ at[c] = "list"
    /\ todo' = [todo EXCEPT ![c] = Tail(@)]
    /\ \E walk \in Orders(Listed(Head(todo[c]))) :
           LET machines == found[c] \o walk
           IN  IF todo'[c] = <<>> THEN ToAsk(c, machines)
               ELSE found' = [found EXCEPT ![c] = machines] /\ UNCHANGED <<draft, at>>
    /\ UNCHANGED <<poolVars, machineVars, clientVars, arrived, protos>>

\* The machines of one pool after the other, in the order of its map, then sorted.
ListPool(c) ==
    /\ at[c] = "list"
    /\ todo' = [todo EXCEPT ![c] = Tail(@)]
    /\ \E walk \in Orders(Listed(Head(todo[c]))) :
           LET machines == found[c] \o walk
           IN  IF todo'[c] = <<>> THEN \E sorted \in Sorted(machines, Before) : ToAsk(c, sorted)
               ELSE found' = [found EXCEPT ![c] = machines] /\ UNCHANGED <<draft, at>>
    /\ UNCHANGED <<poolVars, machineVars, clientVars, arrived, protos>>

\* The one machine is asked by the handler itself, as a goroutine would.
GetMachine(c) ==
    /\ at[c] = "find" /\ Req(c).rpc = "GetMachine"
    /\ \E p \in Pool : Req(c).ID \in Listed(p)
    /\ ToAsk(c, <<Req(c).ID>>)
    /\ UNCHANGED <<poolVars, machineVars, clientVars, todo, arrived, protos>>

\* A mutant of Ask: an agent that does not answer has no result.
AskAnswered(c, i) ==
    /\ at[c] = "ask" /\ DOMAIN draft[c][i] = {"ID", "Pool"}
    /\ \E state \in {"Unknown", agent[found[c][i]]} \ NoAnswer :
           /\ draft' = [draft EXCEPT ![c][i] = With(@, "RunnerState", state)]
           /\ arrived' = IF state = "Unknown" THEN arrived ELSE [arrived EXCEPT ![c] = Append(@, i)]
    /\ UNCHANGED <<poolVars, machineVars, clientVars, at, todo, found, protos>>

\* A mutant of Ask: the goroutines share the variable of the loop.
AskLast(c, i) ==
    /\ at[c] = "ask" /\ DOMAIN draft[c][i] = {"ID", "Pool"}
    /\ \E state \in {"Unknown", agent[Last(found[c])]} \ NoAnswer :
           draft' = [draft EXCEPT ![c][i] = With(@, "RunnerState", state)]
    /\ arrived' = [arrived EXCEPT ![c] = Append(@, i)]
    /\ UNCHANGED <<poolVars, machineVars, clientVars, at, todo, found, protos>>

\* The agent says its runner's state and version, or does not within five
\* seconds; the result goes into the channel, which takes them all.
Ask(c, i) ==
    /\ at[c] = "ask" /\ DOMAIN draft[c][i] = {"ID", "Pool"}
    /\ \E state \in {"Unknown", agent[found[c][i]]} \ NoAnswer :
           draft' = [draft EXCEPT ![c][i] = With(@, "RunnerState", state)]
    /\ arrived' = [arrived EXCEPT ![c] = Append(@, i)]
    /\ UNCHANGED <<poolVars, machineVars, clientVars, at, todo, found, protos>>

\* A result goes to the place of its machine, in whatever order they come.
Collect(c) ==
    /\ at[c] = "ask" /\ arrived[c] # <<>>
    /\ LET i == Head(arrived[c])
       IN  protos' = [protos EXCEPT ![c] = With(@, i, draft[c][i])]
    /\ arrived' = [arrived EXCEPT ![c] = Tail(@)]
    /\ at' = [at EXCEPT ![c] = IF DOMAIN protos'[c] = DOMAIN found[c] THEN "reply" ELSE @]
    /\ UNCHANGED <<poolVars, machineVars, clientVars, todo, found, draft>>

Answer(c) ==
    CASE Req(c).rpc = "ListPools"    -> [Pools |-> protos[c]]
      [] Req(c).rpc = "GetPool"      -> [Pool |-> protos[c][1]]
      [] Req(c).rpc = "ListMachines" -> [Machines |-> protos[c]]
      [] Req(c).rpc = "GetMachine"   -> [Machine |-> protos[c][1]]

Reply(c) ==
    /\ at[c] = "reply"
    /\ Return(c, "ok", Answer(c))
    /\ UNCHANGED <<poolVars, machineVars>>

-----------------------------------------------------------------------------
(* The pools' goroutines and the agents *)

Changing == changed < Changes /\ changed' = changed + 1

MachineStarts(m) ==
    /\ life[m] = "new" /\ Changing
    /\ life' = [life EXCEPT ![m] = "listed"]
    /\ UNCHANGED <<poolVars, agent, clientVars, at, localVars>>

\* The pool takes it off its map, alive (it is stopped after that) or dead.
MachineGone(m) ==
    /\ life[m] = "listed" /\ Changing
    /\ life' = [life EXCEPT ![m] = "gone"]
    /\ UNCHANGED <<poolVars, agent, clientVars, at, localVars>>

\* The machine ends, or its agent alone does and is started again.
AgentEnds(m) ==
    /\ life[m] # "new" /\ agent[m] # "dead" /\ Changing
    /\ \E without \in NoAnswer \ {agent[m]} : agent' = [agent EXCEPT ![m] = without]
    /\ UNCHANGED <<poolVars, life, clientVars, at, localVars>>

\* The agent answers once it knows of its runner; then the state moves on.
StateAfter == [silent |-> "Starting", Starting |-> "Idle", Idle |-> "Running",
               Running |-> "Completed", Completed |-> "Exited"]

AgentMovesOn(m) ==
    /\ life[m] # "new" /\ agent[m] \in DOMAIN StateAfter /\ Changing
    /\ agent' = [agent EXCEPT ![m] = StateAfter[@]]
    /\ UNCHANGED <<poolVars, life, clientVars, at, localVars>>

-----------------------------------------------------------------------------
\* What is true of what a request is about.
Facts(r) ==
    LET pools == IF r.rpc = "ListPools" THEN Pool
                 ELSE IF r.rpc \in {"GetPool", "ScalePool"} THEN Pool \cap {r.Name} ELSE {}
        machines == IF r.rpc = "ListMachines"
                    THEN {m \in Machine : r.Pool \in {NoName, PoolOf[m]}}
                    ELSE IF r.rpc = "GetMachine" THEN Machine \cap {r.ID} ELSE {}
    IN  {<<f, p, ValueOf(p, f)>> : f \in Field, p \in pools}
        \cup {<<"listed", m, life[m] = "listed">> : m \in machines}
        \cup {<<"RunnerState", m, agent[m]>> : m \in machines}

Observe ==
    seen' = [c \in Client |->
                IF at[c] # "done" /\ at'[c] # "none" THEN seen[c] \cup Facts(Req(c))' ELSE seen[c]]

HandlerStep(c) ==
    \/ NotFound(c) \/ ScalePool(c) \/ SetActive(c) \/ SetStatus(c)
    \/ FindPools(c) \/ ReadField(c)
    \/ ListMachines(c) \/ ListPool(c) \/ GetMachine(c) \/ Collect(c) \/ Reply(c)
    \/ \E i \in DOMAIN found[c] : Ask(c, i)

Next ==
    /\ \/ \E c \in Client : Begin(c) \/ Lost(c) \/ HandlerStep(c)
       \/ \E m \in Machine :
              MachineStarts(m) \/ MachineGone(m) \/ AgentEnds(m) \/ AgentMovesOn(m)
    /\ Observe

\* Every goroutine of a handler is run, and every question of it has a timeout.
\* Nothing is assumed of the pools, of the agents and of the connections.
Spec ==
    /\ Init /\ [][Next]_vars
    /\ \A c \in Client : WF_vars(HandlerStep(c) /\ Observe)

-----------------------------------------------------------------------------
(* Properties *)

Ok(c) == out[c] = "ok"

Fresh(c, view) == \A f \in Field : <<f, view.Name, view[f]>> \in seen[c]

RightViews(c) ==
    /\ cmd[c].rpc = "ListPools" =>
        LET views == reply[c].Pools
        IN  /\ \A i \in DOMAIN views : Fresh(c, views[i])
            /\ {views[i].Name : i \in DOMAIN views} = Pool
            /\ \A i, j \in DOMAIN views : i < j => views[i].Name < views[j].Name
    /\ cmd[c].rpc = "GetPool" => Fresh(c, reply[c].Pool) /\ reply[c].Pool.Name = cmd[c].Name

\* What a view of a pool says was true, field by field, while the call was
\* made, though the fields are read one after the other and without the lock
\* of the others, and though other calls change them meanwhile (convert.go:14-29).
ViewIsFresh == \A c \in Client : Ok(c) => RightViews(c)

Always(c, m) == <<"listed", m, FALSE>> \notin seen[c]
Ever(c, m)   == <<"listed", m, TRUE>> \in seen[c]

RightListing(c) ==
    LET shown == [i \in DOMAIN reply[c].Machines |-> reply[c].Machines[i].ID]
        asked == {m \in Machine : cmd[c].Pool \in {NoName, PoolOf[m]}}
    IN  /\ \A i, j \in DOMAIN shown : i < j => Before(shown[i], shown[j])
        /\ ToSet(shown) \subseteq {m \in asked : Ever(c, m)}
        /\ {m \in asked : Always(c, m)} \subseteq ToSet(shown)

\* A listing is in order and names every machine once that was listed all the
\* time, and none that never was, though the pools are read one after the other
\* and the results come in any order (rpc.go:89-157).
ListingIsExact ==
    \A c \in Client : Ok(c) /\ cmd[c].rpc = "ListMachines" => RightListing(c)

RightState(c, shown) ==
    /\ shown.RunnerState = "Unknown"
          \/ <<"RunnerState", shown.ID, shown.RunnerState>> \in seen[c]
    /\ shown.Pool = PoolOf[shown.ID]

\* The state that is shown of a machine is one its own runner was in during the
\* call, or Unknown (rpc.go:136-154, convert.go:44-67).
StatesAreFresh ==
    \A c \in Client : Ok(c) =>
        /\ cmd[c].rpc = "GetMachine" => RightState(c, reply[c].Machine)
        /\ cmd[c].rpc = "ListMachines" =>
               \A i \in DOMAIN reply[c].Machines : RightState(c, reply[c].Machines[i])

GaugeAgreesOn(p) == status[p] = IF isActive[p] THEN 1 ELSE 0

\* The gauge of a pool shows its flag once the handlers that set it have ended,
\* unless two of them did so at the same time (rpc.go:70-71, 83-84).
GaugeSettles ==
    \A p \in Pool \ overlapped : Setting(p) = {} => GaugeAgreesOn(p)

\* A command ends, whatever the agents and the pools do: with an answer, or an
\* error when the connection or the name is bad.
CommandsEnd == \A c \in Client : out[c] = "waiting" ~> out[c] \in {"ok", "error"}

=============================================================================
