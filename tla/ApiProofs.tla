------------------------------ MODULE ApiProofs ------------------------------
(***************************************************************************)
(* Proofs about Api: for any number of commands, pools and machines, the   *)
(* types are kept and what an answer says is right.                        *)
(*                                                                         *)
(* The invariant says of each handler, by the place it is at, how what it  *)
(* holds is related to the facts it has seen.  These only grow, and        *)
(* nothing else of a handler is written by another process: so every part  *)
(* of it is kept by the steps of the others.                               *)
(***************************************************************************)
EXTENDS Api, FiniteSetTheorems, SequenceTheorems, WellFoundedInduction, TLAPS

-----------------------------------------------------------------------------
(* The invariant *)

PoolCalls    == {"ListPools", "GetPool"}
MachineCalls == {"ListMachines", "GetMachine"}

\* Before it has found its pools or machines, and after it has returned, a
\* handler holds nothing.
Empty(c) ==
    /\ todo[c] = <<>> /\ found[c] = <<>> /\ draft[c] = <<>>
    /\ arrived[c] = <<>> /\ protos[c] = <<>>

StartsEmpty(c) ==
    /\ at[c] \in {"none", "find", "gauge", "done"} => Empty(c)
    /\ out[c] = "none" => at[c] = "none"
    /\ at[c] = "gauge" => Req(c).rpc \in {"PausePool", "ResumePool"} /\ Named(c)
    /\ at[c] = "reply" => Req(c).rpc \in PoolCalls \cup MachineCalls

\* The pools a handler has read, then those it has yet to read.
Walked(c) ==
    [i \in 1 .. Len(protos[c]) + Len(todo[c]) |->
        IF i <= Len(protos[c]) THEN protos[c][i].Name ELSE todo[c][i - Len(protos[c])]]

RightPools(r, names) ==
    IF r.rpc = "GetPool"
    THEN DOMAIN names = {1} /\ names[1] = r.Name
    ELSE /\ ToSet(names) = Pool
         /\ \A i, j \in DOMAIN names : i < j => names[i] < names[j]

ReadingPools(c) == at[c] \in Field \/ (at[c] = "reply" /\ Req(c).rpc \in PoolCalls)

PoolsRead(c) ==
    ReadingPools(c) =>
        /\ Req(c).rpc \in PoolCalls
        /\ found[c] = <<>> /\ arrived[c] = <<>>
        /\ protos[c] \in Seq(PoolMessage)
        /\ \A i \in DOMAIN protos[c] : Fresh(c, protos[c][i])
        /\ RightPools(Req(c), Walked(c))
        /\ at[c] = "reply" <=> todo[c] = <<>>

\* The fields that are filled in when a field is about to be read.
FieldsBefore ==
    [State |-> {}, Replicas |-> {"State"}, CurrentReplicas |-> {"State", "Replicas"},
     DesiredReplicas |-> {"State", "Replicas", "CurrentReplicas"}]

TypeOfField(f) == IF f = "State" THEN PoolState ELSE Int32

ViewFilled(c) ==
    at[c] \in Field =>
        /\ draft[c] = [f \in DOMAIN draft[c] |-> draft[c][f]]
        /\ DOMAIN draft[c] = FieldsBefore[at[c]] \cup (IF at[c] = "State" THEN {} ELSE {"Name"})
        /\ at[c] # "State" => draft[c]["Name"] = Head(todo[c])
        /\ \A f \in FieldsBefore[at[c]] :
               draft[c][f] \in TypeOfField(f) /\ <<f, Head(todo[c]), draft[c][f]>> \in seen[c]

AskedFor(r) == {m \in Machine : r.Pool \in {NoName, PoolOf[m]}}

\* While the pools are listed, what is missing is in one that is yet to come.
PoolsListed(c) ==
    at[c] = "list" =>
        /\ Req(c).rpc = "ListMachines"
        /\ draft[c] = <<>> /\ arrived[c] = <<>> /\ protos[c] = <<>>
        /\ todo[c] # <<>>
        /\ \A i, j \in DOMAIN todo[c] : i # j => todo[c][i] # todo[c][j]
        /\ \A i \in DOMAIN todo[c] : Req(c).Pool \in {NoName, todo[c][i]}
        /\ \A i, j \in DOMAIN found[c] : i # j => found[c][i] # found[c][j]
        /\ \A i \in DOMAIN found[c] :
               /\ found[c][i] \in AskedFor(Req(c)) /\ Ever(c, found[c][i])
               /\ PoolOf[found[c][i]] \notin ToSet(todo[c])
        /\ \A m \in AskedFor(Req(c)) :
               Always(c, m) => m \in ToSet(found[c]) \/ PoolOf[m] \in ToSet(todo[c])

RightMachines(c, machines) ==
    IF Req(c).rpc = "GetMachine"
    THEN DOMAIN machines = {1} /\ machines[1] = Req(c).ID
    ELSE /\ \A i, j \in DOMAIN machines : i < j => Before(machines[i], machines[j])
         /\ ToSet(machines) \subseteq {m \in AskedFor(Req(c)) : Ever(c, m)}
         /\ {m \in AskedFor(Req(c)) : Always(c, m)} \subseteq ToSet(machines)

AskingMachines(c) == at[c] = "ask" \/ (at[c] = "reply" /\ Req(c).rpc \in MachineCalls)

GoodMachine(c, m, message) ==
    /\ message \in MachineMessage /\ message.ID = m /\ message.Pool = PoolOf[m]
    /\ \/ message.RunnerState = "Unknown"
       \/ <<"RunnerState", m, message.RunnerState>> \in seen[c]

MachinesCollected(c) ==
    AskingMachines(c) =>
        /\ Req(c).rpc \in MachineCalls
        /\ todo[c] = <<>>
        /\ RightMachines(c, found[c])
        /\ protos[c] = [i \in DOMAIN protos[c] |-> protos[c][i]]
        /\ DOMAIN protos[c] \subseteq DOMAIN found[c]
        /\ at[c] = "reply" => DOMAIN protos[c] = DOMAIN found[c]
        /\ \A i \in DOMAIN protos[c] : GoodMachine(c, found[c][i], protos[c][i])

MachinesAsked(c) ==
    at[c] = "ask" =>
        /\ draft[c] = [i \in DOMAIN found[c] |-> draft[c][i]]
        /\ \A i \in DOMAIN found[c] :
               \/ draft[c][i] = [ID |-> found[c][i], Pool |-> PoolOf[found[c][i]]]
               \/ GoodMachine(c, found[c][i], draft[c][i])
        /\ \A k \in DOMAIN arrived[c] :
               GoodMachine(c, found[c][arrived[c][k]], draft[c][arrived[c][k]])

HandlerInv(c) ==
    /\ StartsEmpty(c) /\ PoolsRead(c) /\ ViewFilled(c)
    /\ PoolsListed(c) /\ MachinesCollected(c) /\ MachinesAsked(c)

\* Every variable is a function of the clients.
Shape ==
    /\ TypeOK
    /\ reply = [c \in Client |-> reply[c]] /\ arrived = [c \in Client |-> arrived[c]]
    /\ draft = [c \in Client |-> draft[c]] /\ protos = [c \in Client |-> protos[c]]
    /\ seen = [c \in Client |-> seen[c]]

\* At most one handler sets the gauge of a pool no two have set at a time, and
\* then the flag is the one of its call.
GaugeInv ==
    \A p \in Pool \ overlapped :
        /\ \A c, d \in Setting(p) : c = d
        /\ \A c \in Setting(p) : (isActive[p] <=> Req(c).rpc = "ResumePool")
        /\ Setting(p) = {} => GaugeAgreesOn(p)

ApiInv == Shape /\ (\A c \in Client : HandlerInv(c)) /\ GaugeInv

-----------------------------------------------------------------------------
(* Requests, facts and orders *)

\* The conversion of an int is an int32.
LEMMA Converted ==
    ASSUME NEW n \in Int
    PROVE  ToInt32(n) \in Int32
  <1>1. (n + HalfRange) % (2 * HalfRange) \in 0 .. 2 * HalfRange - 1
    BY RangeAssumption
  <1>2. QED  BY <1>1, RangeAssumption DEF ToInt32, Int32

\* What the handlers are given is a request, with what the command says.
LEMMA Requests ==
    ASSUME cmd \in Plans, NEW c \in Client
    PROVE  /\ Req(c) \in Request
           /\ Req(c).rpc = cmd[c].rpc
           /\ cmd[c].rpc # "ScalePool" => Req(c) = cmd[c]
           /\ cmd[c].rpc = "ScalePool" =>
                  /\ Req(c).Name = cmd[c].Name
                  /\ Req(c).Replicas = ToInt32(cmd[c].Replicas)
  <1>2. cmd[c] \in Command
    BY PlansAssumption
  <1>3. CASE cmd[c].rpc = "ScalePool"
    <2>1. PICK name \in PoolName, n \in Int :
              cmd[c] = [rpc |-> "ScalePool", Name |-> name, Replicas |-> n]
      BY <1>2, <1>3, RangeAssumption DEF Command, Request, ListPoolsRequest, GetPoolRequest, ScalePoolRequest,
         PausePoolRequest, ResumePoolRequest, ListMachinesRequest, GetMachineRequest, Int32
    <2>2. Req(c) = [rpc |-> "ScalePool", Name |-> name, Replicas |-> ToInt32(n)]
      BY <2>1 DEF Req, RequestOf
    <2>3. Req(c) \in ScalePoolRequest
      BY <2>2, Converted DEF ScalePoolRequest
    <2>4. QED  BY <2>1, <2>2, <2>3 DEF Request
  <1>4. CASE cmd[c].rpc # "ScalePool"
    <2>1. Req(c) = cmd[c]
      BY <1>4 DEF Req, RequestOf
    <2>2. QED  BY <1>2, <1>4, <2>1 DEF Command
  <1>5. QED  BY <1>3, <1>4

\* The fields of each kind of request.
LEMMA RequestFields ==
    ASSUME NEW r \in Request
    PROVE  /\ r.rpc \in PoolCalls \cup MachineCalls \cup {"ScalePool", "PausePool", "ResumePool"}
           /\ r.rpc = "ScalePool" => r.Replicas \in Int32
           /\ r.rpc = "ListMachines" => r.Pool \in PoolName \cup {NoName}
           /\ r.rpc = "GetMachine" => r.ID \in MachineName
           /\ r.rpc \in {"GetPool", "ScalePool", "PausePool", "ResumePool"} => r.Name \in PoolName
  BY DEF Request, ListPoolsRequest, GetPoolRequest, ScalePoolRequest, PausePoolRequest,
     ResumePoolRequest, ListMachinesRequest, GetMachineRequest, PoolCalls, MachineCalls

\* A field of a pool has the type of the message.
LEMMA ValueTypes ==
    ASSUME TypeOK, NEW p \in Pool, NEW f \in Field
    PROVE  ValueOf(p, f) \in TypeOfField(f)
  <1>2. Cardinality(Listed(p)) \in Nat
    <2>1. IsFiniteSet(Listed(p))
      BY PoolsAssumption, FS_Subset DEF Listed
    <2>2. QED  BY <2>1, FS_CardinalityType
  <1>3. CASE f = "State"
    BY <1>3 DEF ValueOf, TypeOfField, PoolState
  <1>4. CASE f = "CurrentReplicas"
    BY <1>2, <1>4, Converted DEF ValueOf, TypeOfField
  <1>5. CASE f \in {"Replicas", "DesiredReplicas"}
    BY <1>5 DEF ValueOf, TypeOfField, TypeOK
  <1>6. QED  BY <1>3, <1>4, <1>5 DEF Field

\* A walk of a map meets each of its elements once.
LEMMA OrdersFacts ==
    ASSUME NEW S, IsFiniteSet(S), NEW walk \in Orders(S)
    PROVE  /\ walk \in Seq(S) /\ ToSet(walk) = S
           /\ \A i, j \in DOMAIN walk : i # j => walk[i] # walk[j]
  <1>1. Cardinality(S) \in Nat
    BY FS_CardinalityType
  <1>2. /\ walk \in [1 .. Cardinality(S) -> S]
        /\ \A i, j \in DOMAIN walk : walk[i] = walk[j] => i = j
        /\ \A x \in S : \E i \in 1 .. Cardinality(S) : walk[i] = x
    BY DEF Orders, Bijection, Injection, Surjection, IsInjective
  <1>3. walk \in Seq(S)
    BY <1>1, <1>2
  <1>4. ToSet(walk) = S
    BY <1>2 DEF ToSet
  <1>5. QED  BY <1>2, <1>3, <1>4

\* Sorted names are the same names, in order.
LEMMA SortedNames ==
    ASSUME NEW s \in Seq(Pool), NEW t \in Sorted(s, NameBefore),
           \A i, j \in DOMAIN s : i # j => s[i] # s[j]
    PROVE  /\ t \in Seq(Pool) /\ ToSet(t) = ToSet(s)
           /\ \A i, j \in DOMAIN t : i < j => t[i] < t[j]
  <1>1. PICK f \in Bijection(DOMAIN s, DOMAIN s) : t = [i \in DOMAIN s |-> s[f[i]]]
    BY DEF Sorted
  <1>2. \A i, j \in DOMAIN t : i < j => ~(t[j] < t[i])
    BY DEF Sorted, NameBefore
  <1>3. /\ DOMAIN s = 1 .. Len(s) /\ Len(s) \in Nat
        /\ \A i \in DOMAIN s : s[i] \in Pool
    OBVIOUS
  <1>4. /\ f \in [DOMAIN s -> DOMAIN s]
        /\ \A i, j \in DOMAIN s : f[i] = f[j] => i = j
        /\ \A j \in DOMAIN s : \E i \in DOMAIN s : f[i] = j
    BY DEF Bijection, Injection, Surjection, IsInjective
  <1>5. t \in Seq(Pool)
    BY <1>1, <1>3, <1>4
  <1>6. ToSet(t) = ToSet(s)
    BY <1>1, <1>4 DEF ToSet
  <1>7. \A i, j \in DOMAIN t : i < j => t[i] < t[j]
    <2>1. \A p \in Pool : p \in Nat
      BY PoolsAssumption, NamesAssumption
    <2>2. \A i, j \in DOMAIN t : i # j => t[i] # t[j]
      <3>1. \A i, j \in DOMAIN s : i # j => f[i] # f[j] /\ f[i] \in DOMAIN s /\ f[j] \in DOMAIN s
        BY <1>4
      <3>2. DOMAIN t = DOMAIN s /\ \A i \in DOMAIN s : t[i] = s[f[i]]
        BY <1>1
      <3>3. \A k, l \in DOMAIN s : k # l => s[k] # s[l]
        OBVIOUS
      <3>4. ASSUME NEW i \in DOMAIN s, NEW j \in DOMAIN s, i # j
            PROVE  t[i] # t[j]
        <4>1. f[i] # f[j] /\ f[i] \in DOMAIN s /\ f[j] \in DOMAIN s
          BY <3>1, <3>4
        <4>2. s[f[i]] # s[f[j]]
          BY ONLY <3>3, <4>1
        <4>3. t[i] = s[f[i]] /\ t[j] = s[f[j]]
          BY ONLY <3>2, i \in DOMAIN s, j \in DOMAIN s
        <4>4. QED  BY ONLY <4>2, <4>3
      <3>5. QED  BY <3>2, <3>4
    <2>3. \A i \in DOMAIN t : t[i] \in Nat
      BY <1>5, <2>1
    <2>4. DOMAIN t \subseteq Nat
      BY <1>1, <1>3
    <2>5. \A i, j \in DOMAIN t : i < j => ~(t[j] < t[i]) /\ t[i] # t[j]
      <3>1. \A i, j \in DOMAIN t : i < j => i # j
        BY <2>4
      <3>2. QED  BY <1>2, <2>2, <3>1
    <2>6. QED  BY <2>3, <2>5
  <1>8. QED  BY <1>5, <1>6, <1>7

\* Sorted machines are the same machines, in order.
LEMMA SortedMachines ==
    ASSUME NEW s \in Seq(Machine), NEW t \in Sorted(s, Before),
           \A i, j \in DOMAIN s : i # j => s[i] # s[j]
    PROVE  /\ t \in Seq(Machine) /\ ToSet(t) = ToSet(s)
           /\ \A i, j \in DOMAIN t : i < j => Before(t[i], t[j])
  <1>1. PICK f \in Bijection(DOMAIN s, DOMAIN s) : t = [i \in DOMAIN s |-> s[f[i]]]
    BY DEF Sorted
  <1>2. \A i, j \in DOMAIN t : i < j => ~Before(t[j], t[i])
    BY DEF Sorted
  <1>3. /\ DOMAIN s = 1 .. Len(s) /\ Len(s) \in Nat
        /\ \A i \in DOMAIN s : s[i] \in Machine
    OBVIOUS
  <1>4. /\ f \in [DOMAIN s -> DOMAIN s]
        /\ \A i, j \in DOMAIN s : f[i] = f[j] => i = j
        /\ \A j \in DOMAIN s : \E i \in DOMAIN s : f[i] = j
    BY DEF Bijection, Injection, Surjection, IsInjective
  <1>5. t \in Seq(Machine)
    BY <1>1, <1>3, <1>4
  <1>6. ToSet(t) = ToSet(s)
    BY <1>1, <1>4 DEF ToSet
  <1>7. \A i, j \in DOMAIN t : i < j => Before(t[i], t[j])
    <2>1. \A m, n \in Machine : m # n => Before(m, n) \/ Before(n, m)
      <3>1. \A m \in Machine : m \in Nat /\ PoolOf[m] \in Nat
        <4>1. /\ Pool \subseteq Nat /\ Machine \subseteq Nat
              /\ PoolOf \in [Machine -> Pool]
          BY PoolsAssumption, NamesAssumption
        <4>2. QED  BY <4>1
      <3>2. \A i, j, k, l \in Nat : k # l => i < j \/ j < i \/ (i = j /\ (k < l \/ l < k))
        OBVIOUS
      <3>3. ASSUME NEW m \in Machine, NEW n \in Machine, m # n
            PROVE  Before(m, n) \/ Before(n, m)
        <4>1. m \in Nat /\ n \in Nat /\ PoolOf[m] \in Nat /\ PoolOf[n] \in Nat
          BY <3>1
        <4>2. QED  BY <3>2, <3>3, <4>1 DEF Before
      <3>4. QED  BY <3>3
    <2>2. \A i, j \in DOMAIN t : i # j => t[i] # t[j]
      <3>1. \A i, j \in DOMAIN s : i # j => f[i] # f[j] /\ f[i] \in DOMAIN s /\ f[j] \in DOMAIN s
        BY <1>4
      <3>2. DOMAIN t = DOMAIN s /\ \A i \in DOMAIN s : t[i] = s[f[i]]
        BY <1>1
      <3>3. \A k, l \in DOMAIN s : k # l => s[k] # s[l]
        OBVIOUS
      <3>4. ASSUME NEW i \in DOMAIN s, NEW j \in DOMAIN s, i # j
            PROVE  t[i] # t[j]
        <4>1. f[i] # f[j] /\ f[i] \in DOMAIN s /\ f[j] \in DOMAIN s
          BY <3>1, <3>4
        <4>2. s[f[i]] # s[f[j]]
          BY ONLY <3>3, <4>1
        <4>3. t[i] = s[f[i]] /\ t[j] = s[f[j]]
          BY ONLY <3>2, i \in DOMAIN s, j \in DOMAIN s
        <4>4. QED  BY ONLY <4>2, <4>3
      <3>5. QED  BY <3>2, <3>4
    <2>3. \A i, j \in DOMAIN t : i < j => i # j
      BY <1>1, <1>3
    <2>4. \A i \in DOMAIN t : t[i] \in Machine
      BY <1>5
    <2>5. QED  BY <1>2, <2>1, <2>2, <2>3, <2>4
  <1>8. QED  BY <1>5, <1>6, <1>7

-----------------------------------------------------------------------------
(* What a step does to the clients it is not of *)

Local(c) == <<at[c], todo[c], found[c], draft[c], arrived[c], protos[c]>>

\* No step changes what a client runs.
LEMMA CommandsStay ==
    ASSUME Next
    PROVE  cmd' = cmd /\ \A c : Req(c)' = Req(c)
  <1>1. CASE \E m \in Machine : MachineStarts(m) \/ MachineGone(m) \/ AgentEnds(m) \/ AgentMovesOn(m)
    BY <1>1 DEF MachineStarts, MachineGone, AgentEnds, AgentMovesOn, clientVars, Req
  <1>2. ASSUME NEW c \in Client, Begin(c) \/ Lost(c) \/ HandlerStep(c)
        PROVE  cmd' = cmd
    <2>1. CASE Begin(c) \/ Lost(c)
      BY <2>1 DEF Begin, Lost
    <2>2. CASE NotFound(c) \/ ScalePool(c) \/ SetStatus(c) \/ Reply(c)
      BY <2>2 DEF NotFound, ScalePool, SetStatus, Reply, Return
    <2>3. CASE SetActive(c) \/ FindPools(c) \/ ReadField(c) \/ ListMachines(c)
      BY <2>3 DEF SetActive, FindPools, ReadField, ListMachines, clientVars
    <2>4. CASE ListPool(c) \/ GetMachine(c) \/ Collect(c) \/ \E i \in DOMAIN found[c] : Ask(c, i)
      BY <2>4 DEF ListPool, GetMachine, Ask, Collect, clientVars
    <2>5. QED  BY <1>2, <2>1, <2>2, <2>3, <2>4 DEF HandlerStep
  <1>3. QED  BY <1>1, <1>2 DEF Next, Req

\* What a client has seen grows by what is true of its request.
LEMMA Observed ==
    ASSUME Next, NEW c \in Client
    PROVE  /\ cmd' = cmd
           /\ seen[c] \subseteq seen'[c]
           /\ at[c] # "done" /\ at'[c] # "none" => Facts(Req(c))' \subseteq seen'[c]
  <1>1. cmd' = cmd
    BY CommandsStay
  <1>2. Observe
    BY DEF Next
  <1>3. QED  BY <1>1, <1>2 DEF Observe

\* Facts about the pools and about the machines of a request.
LEMMA FactsOfPool ==
    ASSUME NEW c \in Client, NEW p \in Pool, NEW f \in Field,
           \/ Req(c)'.rpc = "ListPools"
           \/ Req(c)'.rpc \in {"GetPool", "ScalePool"} /\ Req(c)'.Name = p
    PROVE  <<f, p, ValueOf(p, f)'>> \in Facts(Req(c))'
  BY DEF Facts

LEMMA FactsOfMachine ==
    ASSUME NEW c \in Client, NEW m \in Machine,
           \/ Req(c)'.rpc = "ListMachines" /\ Req(c)'.Pool \in {NoName, PoolOf[m]}
           \/ Req(c)'.rpc = "GetMachine" /\ Req(c)'.ID = m
    PROVE  /\ <<"listed", m, life'[m] = "listed">> \in Facts(Req(c))'
           /\ <<"RunnerState", m, agent'[m]>> \in Facts(Req(c))'
  <1>1. DEFINE r == Req(c)'
               machines == IF r.rpc = "ListMachines"
                           THEN {n \in Machine : r.Pool \in {NoName, PoolOf[n]}}
                           ELSE IF r.rpc = "GetMachine" THEN Machine \cap {r.ID} ELSE {}
               listed == {<<"listed", n, life'[n] = "listed">> : n \in machines}
               states == {<<"RunnerState", n, agent'[n]>> : n \in machines}
  <1>2. m \in machines
    OBVIOUS
  <1>3. \E views : Facts(Req(c))' = views \cup listed \cup states
    <2>1. DEFINE pools == IF r.rpc = "ListPools" THEN Pool
                          ELSE IF r.rpc \in {"GetPool", "ScalePool"} THEN Pool \cap {r.Name} ELSE {}
                 views == {<<f, p, ValueOf(p, f)'>> : f \in Field, p \in pools}
    <2>2. Facts(Req(c))' = views \cup listed \cup states
      BY DEF Facts
    <2>3. QED  BY <2>2
  <1>4. listed \subseteq Facts(Req(c))' /\ states \subseteq Facts(Req(c))'
    <2> HIDE DEF listed, states
    <2> QED  BY <1>3
  <1>5. <<"listed", m, life'[m] = "listed">> \in listed /\ <<"RunnerState", m, agent'[m]>> \in states
    <2> HIDE DEF machines
    <2> QED  BY <1>2
  <1>6. QED  BY <1>4, <1>5

\* A handler that does not move keeps its part of the invariant.
LEMMA Unmoved ==
    ASSUME NEW c \in Client, HandlerInv(c), cmd' = cmd, UNCHANGED Local(c),
           out'[c] = "none" => out[c] = "none", seen[c] \subseteq seen'[c]
    PROVE  HandlerInv(c)'
  <1>1. Req(c)' = Req(c)
    BY DEF Req, RequestOf
  <1>2. /\ at'[c] = at[c] /\ todo'[c] = todo[c] /\ found'[c] = found[c]
        /\ draft'[c] = draft[c] /\ arrived'[c] = arrived[c] /\ protos'[c] = protos[c]
    BY DEF Local
  <1>3. StartsEmpty(c)'
    BY <1>1, <1>2 DEF HandlerInv, StartsEmpty, Empty, Named
  <1>4. PoolsRead(c)'
    BY <1>1, <1>2 DEF HandlerInv, PoolsRead, ReadingPools, Fresh, Walked
  <1>5. ViewFilled(c)'
    BY <1>1, <1>2 DEF HandlerInv, ViewFilled
  <1>6. PoolsListed(c)'
    <2>1. CASE at[c] = "list"
      <3>1. PoolsListed(c)
        BY DEF HandlerInv
      <3>2. \A i \in DOMAIN found[c] :
                /\ found[c][i] \in AskedFor(Req(c)) /\ <<"listed", found[c][i], TRUE>> \in seen'[c]
                /\ PoolOf[found[c][i]] \notin ToSet(todo[c])
        BY <2>1, <3>1 DEF PoolsListed, Ever
      <3>3. \A m \in AskedFor(Req(c)) : <<"listed", m, FALSE>> \notin seen'[c] =>
                m \in ToSet(found[c]) \/ PoolOf[m] \in ToSet(todo[c])
        BY <2>1, <3>1 DEF PoolsListed, Always
      <3>4. /\ Req(c).rpc = "ListMachines"
            /\ draft[c] = <<>> /\ arrived[c] = <<>> /\ protos[c] = <<>> /\ todo[c] # <<>>
            /\ \A i, j \in DOMAIN todo[c] : i # j => todo[c][i] # todo[c][j]
            /\ \A i \in DOMAIN todo[c] : Req(c).Pool \in {NoName, todo[c][i]}
            /\ \A i, j \in DOMAIN found[c] : i # j => found[c][i] # found[c][j]
        BY <2>1, <3>1 DEF PoolsListed
      <3>5. (\A i \in DOMAIN found[c] :
                /\ found[c][i] \in AskedFor(Req(c)) /\ Ever(c, found[c][i])
                /\ PoolOf[found[c][i]] \notin ToSet(todo[c]))'
        BY <1>1, <1>2, <3>2 DEF Ever
      <3>6. (\A m \in AskedFor(Req(c)) :
                Always(c, m) => m \in ToSet(found[c]) \/ PoolOf[m] \in ToSet(todo[c]))'
        <4>1. AskedFor(Req(c))' = AskedFor(Req(c))
          BY <1>1 DEF AskedFor
        <4>2. QED  BY <1>2, <3>3, <4>1 DEF Always
      <3>7. QED  BY <1>1, <1>2, <3>4, <3>5, <3>6 DEF PoolsListed
    <2>2. CASE at[c] # "list"
      BY <1>2, <2>2 DEF PoolsListed
    <2>3. QED  BY <2>1, <2>2
  <1>7. MachinesCollected(c)'
    BY <1>1, <1>2 DEF HandlerInv, MachinesCollected, AskingMachines, RightMachines, GoodMachine, Ever, Always
  <1>8. MachinesAsked(c)'
    BY <1>1, <1>2 DEF HandlerInv, MachinesAsked, GoodMachine
  <1>9. QED  BY <1>3, <1>4, <1>5, <1>6, <1>7, <1>8 DEF HandlerInv

\* A step of one handler moves no other.
LEMMA OneMoves ==
    ASSUME Shape, NEW c \in Client, NEW d \in Client, c # d,
           Begin(c) \/ Lost(c) \/ HandlerStep(c)
    PROVE  UNCHANGED <<Local(d), out[d], reply[d]>>
  <1>1. ASSUME NEW result, NEW response, Return(c, result, response)
        PROVE  UNCHANGED <<Local(d), out[d], reply[d]>>
    BY <1>1 DEF Return, Shape, TypeOK, Local
  <1>2. CASE Begin(c) \/ Lost(c)
    BY <1>2 DEF Begin, Lost, Shape, TypeOK, Local, localVars, clientVars
  <1>3. CASE NotFound(c) \/ ScalePool(c) \/ SetStatus(c) \/ Reply(c)
    BY <1>1, <1>3 DEF NotFound, ScalePool, SetStatus, Reply
  <1>4. CASE SetActive(c) \/ FindPools(c) \/ ListMachines(c)
    BY <1>4 DEF SetActive, FindPools, ListMachines, Shape, TypeOK, Local, localVars, clientVars
  <1>5. CASE ReadField(c) \/ Collect(c)
    BY <1>5 DEF ReadField, Collect, Shape, TypeOK, Local, localVars, clientVars
  <1>6. CASE ListPool(c) \/ GetMachine(c)
    BY <1>6 DEF ListPool, GetMachine, ToAsk, Shape, TypeOK, Local, localVars, clientVars
  <1>7. CASE \E i \in DOMAIN found[c] : Ask(c, i)
    BY <1>7 DEF Ask, Shape, TypeOK, Local, localVars, clientVars
  <1>8. QED  BY <1>2, <1>3, <1>4, <1>5, <1>6, <1>7 DEF HandlerStep

-----------------------------------------------------------------------------
(* What a step does to the handler it is of *)

\* The types of what is of one client.
ClientTypes(c) ==
    /\ out[c] \in {"none", "waiting", "ok", "error"}
    /\ reply[c] = NoReply \/ reply[c] \in Response
    /\ at[c] \in {"none", "find", "gauge", "list", "ask", "reply", "done"} \cup Field
    /\ todo[c] \in Seq(Pool) /\ found[c] \in Seq(Machine)
    /\ arrived[c] \in Seq(1 .. Len(found[c]))

LEMMA StillTyped ==
    ASSUME ApiInv, NEW c \in Client, UNCHANGED clientVars,
           at'[c] \in {"list", "ask", "reply"} \cup Field,
           todo'[c] \in Seq(Pool), found'[c] = <<>> \/ found'[c] \in Seq(Machine),
           arrived'[c] = <<>> \/ arrived'[c] \in Seq(1 .. Len(found'[c]))
    PROVE  ClientTypes(c)'
  <1>1. /\ out'[c] \in {"none", "waiting", "ok", "error"}
        /\ reply'[c] = NoReply \/ reply'[c] \in Response
    BY DEF ApiInv, Shape, TypeOK, clientVars
  <1>2. \A S : <<>> \in Seq(S)
    OBVIOUS
  <1>3. found'[c] \in Seq(Machine) /\ arrived'[c] \in Seq(1 .. Len(found'[c]))
    BY <1>2
  <1>4. QED  BY <1>1, <1>3 DEF ClientTypes

LEMMA HoldsNothing ==
    ASSUME NEW c \in Client, Empty(c)', at'[c] \in {"find", "gauge", "done"}, out'[c] # "none",
           at'[c] = "gauge" => (Req(c).rpc \in {"PausePool", "ResumePool"} /\ Named(c))'
    PROVE  HandlerInv(c)'
  BY DEF HandlerInv, StartsEmpty, PoolsRead, ReadingPools, ViewFilled, PoolsListed,
     MachinesCollected, AskingMachines, MachinesAsked, Field

LEMMA Returned ==
    ASSUME ApiInv, NEW c \in Client, NEW result \in {"ok", "error"}, NEW response,
           Return(c, result, response), at[c] # "none"
    PROVE  HandlerInv(c)'
  <1>1. at'[c] = "done" /\ Empty(c)'
    BY DEF ApiInv, Shape, TypeOK, Return, Empty
  <1>2. out'[c] # "none"
    BY DEF ApiInv, Shape, TypeOK, Return, HandlerInv, StartsEmpty
  <1>3. QED  BY <1>1, <1>2, HoldsNothing

LEMMA Begun ==
    ASSUME ApiInv, NEW c \in Client, Begin(c), cmd' = cmd
    PROVE  HandlerInv(c)'
  <1>1. at'[c] = "find" /\ out'[c] = "waiting"
    BY DEF ApiInv, Shape, TypeOK, Begin
  <1>2. Empty(c)'
    BY DEF ApiInv, HandlerInv, StartsEmpty, Begin, Empty, localVars
  <1>3. QED  BY <1>1, <1>2, HoldsNothing

LEMMA ActiveSet ==
    ASSUME ApiInv, NEW c \in Client, SetActive(c), cmd' = cmd
    PROVE  HandlerInv(c)'
  <1>1. at'[c] = "gauge" /\ out'[c] # "none"
    BY DEF ApiInv, Shape, TypeOK, SetActive, HandlerInv, StartsEmpty, clientVars
  <1>2. Empty(c)'
    BY DEF ApiInv, HandlerInv, StartsEmpty, SetActive, Empty, localVars
  <1>3. (Req(c).rpc \in {"PausePool", "ResumePool"} /\ Named(c))'
    BY DEF SetActive, Req, Named
  <1>4. QED  BY <1>1, <1>2, <1>3, HoldsNothing

\* The pools to read are the right ones, in order.
LEMMA PoolsFound ==
    ASSUME ApiInv, NEW c \in Client, FindPools(c), cmd' = cmd
    PROVE  HandlerInv(c)' /\ ClientTypes(c)'
  <1>1. Req(c)' = Req(c)
    BY DEF Req
  <1>2. /\ found'[c] = <<>> /\ draft'[c] = <<>> /\ arrived'[c] = <<>> /\ protos'[c] = <<>>
        /\ out'[c] # "none"
    BY DEF ApiInv, HandlerInv, StartsEmpty, Empty, FindPools, clientVars
  <1>3. Req(c).rpc \in PoolCalls
    BY DEF FindPools, PoolCalls
  <1>4. todo'[c] \in Seq(Pool) /\ RightPools(Req(c), todo'[c])
    <2>1. CASE Req(c).rpc = "ListPools"
      <3>1. PICK walk \in Orders(Pool) : \E pools \in Sorted(walk, NameBefore) :
                     todo' = [todo EXCEPT ![c] = pools]
        BY <2>1 DEF FindPools
      <3>2. PICK pools \in Sorted(walk, NameBefore) : todo' = [todo EXCEPT ![c] = pools]
        BY <3>1
      <3>3. /\ walk \in Seq(Pool) /\ ToSet(walk) = Pool
            /\ \A i, j \in DOMAIN walk : i # j => walk[i] # walk[j]
        BY PoolsAssumption, OrdersFacts
      <3>4. /\ pools \in Seq(Pool) /\ ToSet(pools) = Pool
            /\ \A i, j \in DOMAIN pools : i < j => pools[i] < pools[j]
        BY <3>3, SortedNames
      <3>5. todo'[c] = pools
        BY <3>2 DEF ApiInv, Shape, TypeOK
      <3>6. QED  BY <2>1, <3>4, <3>5 DEF RightPools
    <2>2. CASE Req(c).rpc = "GetPool"
      <3>1. todo'[c] = <<Req(c).Name>> /\ Req(c).Name \in Pool
        BY <2>2 DEF FindPools, ApiInv, Shape, TypeOK, Named
      <3>2. QED  BY <2>2, <3>1 DEF RightPools
    <2>3. QED  BY <1>3, <2>1, <2>2 DEF PoolCalls
  <1>5. at'[c] = IF todo'[c] = <<>> THEN "reply" ELSE "State"
    BY DEF FindPools, ApiInv, Shape, TypeOK
  <1>6. Walked(c)' = todo'[c]
    <2>1. Walked(c)' = [i \in 1 .. Len(todo'[c]) |-> todo'[c][i]]
      BY <1>2, <1>4 DEF Walked
    <2>2. QED  BY <1>4, <2>1
  <1>7. StartsEmpty(c)'
    BY <1>1, <1>2, <1>3, <1>5 DEF StartsEmpty
  <1>8. PoolsRead(c)'
    BY <1>1, <1>2, <1>3, <1>4, <1>5, <1>6 DEF PoolsRead, ReadingPools, Field
  <1>9. ViewFilled(c)'
    BY <1>2, <1>5 DEF ViewFilled, FieldsBefore, Field
  <1>10. PoolsListed(c)' /\ MachinesAsked(c)' /\ MachinesCollected(c)'
    BY <1>1, <1>3, <1>5 DEF PoolsListed, MachinesAsked, MachinesCollected, AskingMachines, PoolCalls, MachineCalls
  <1>11. ClientTypes(c)'
    <2>1. at'[c] \in {"list", "ask", "reply"} \cup Field
      BY <1>5 DEF Field
    <2>2. QED  BY <1>2, <1>4, <2>1, StillTyped DEF FindPools
  <1>12. QED  BY <1>7, <1>8, <1>9, <1>10, <1>11 DEF HandlerInv

\* A field of the next pool is read: it is true now, and stays among the facts.
LEMMA FieldRead ==
    ASSUME ApiInv, Next, NEW c \in Client, ReadField(c)
    PROVE  HandlerInv(c)' /\ ClientTypes(c)'
  <1> DEFINE p == Head(todo[c])
             filled == With(With(draft[c], "Name", p), at[c], ValueOf(p, at[c]))
  <1>1. cmd' = cmd /\ Req(c)' = Req(c) /\ seen[c] \subseteq seen'[c]
    BY Observed DEF Req
  <1>2. /\ at[c] \in Field /\ ReadingPools(c) /\ Req(c).rpc \in PoolCalls
        /\ found[c] = <<>> /\ arrived[c] = <<>> /\ todo[c] # <<>>
        /\ todo[c] \in Seq(Pool) /\ protos[c] \in Seq(PoolMessage)
        /\ RightPools(Req(c), Walked(c)) /\ out[c] # "none"
    BY DEF ReadField, ReadingPools, ApiInv, HandlerInv, PoolsRead, StartsEmpty, Field, Shape, TypeOK
  <1>3. p \in Pool
    BY <1>2
  <1>4. Req(c).rpc = "GetPool" => Req(c).Name = p
    <2>1. ASSUME Req(c).rpc = "GetPool"
          PROVE  Req(c).Name = p
      <3>1. DOMAIN Walked(c) = {1} /\ Walked(c)[1] = Req(c).Name
        BY <1>2, <2>1 DEF RightPools
      <3>2. DOMAIN Walked(c) = 1 .. Len(protos[c]) + Len(todo[c])
        BY DEF Walked
      <3>3. Len(protos[c]) = 0 /\ Len(todo[c]) = 1
        <4>1. Len(protos[c]) \in Nat /\ Len(todo[c]) \in Nat \ {0}
          BY <1>2
        <4>2. \A k \in Nat, l \in Nat \ {0} : 1 .. k + l = {1} => k = 0 /\ l = 1
          <5>1. \A n \in Nat : 1 .. n = {1} => n = 1
            <6>1. ASSUME NEW n \in Nat, 1 .. n = {1}, n > 1
                  PROVE  FALSE
              <7>1. 2 \in 1 .. n
                BY <6>1
              <7>2. QED  BY <6>1, <7>1
            <6>2. ASSUME NEW n \in Nat, 1 .. n = {1}, n = 0
                  PROVE  FALSE
              BY <6>2
            <6>3. QED  BY <6>1, <6>2
          <5>2. QED  BY <5>1
        <4>3. QED  BY <3>1, <3>2, <4>1, <4>2
      <3>4. Walked(c)[1] = todo[c][1]
        BY <3>3 DEF Walked
      <3>5. QED  BY <1>2, <3>1, <3>4
    <2>2. QED  BY <2>1
  <1>5. at[c] # "done" /\ at'[c] # "none"
    <2>1. at'[c] \in {"reply", "State"} \cup {FieldAfter[f] : f \in {"State", "Replicas", "CurrentReplicas"}}
      BY <1>2 DEF ReadField, ApiInv, Shape, TypeOK, Field
    <2>2. QED  BY <1>2, <2>1 DEF FieldAfter, Field
  <1>6. <<at[c], p, ValueOf(p, at[c])>> \in seen'[c]
    <2>1. \A q \in Pool, f \in Field : ValueOf(q, f)' = ValueOf(q, f)
      BY DEF ReadField, poolVars, machineVars, ValueOf, Listed
    <2>2. \A q \in Pool, f \in Field :
              Req(c).rpc = "ListPools" \/ (Req(c).rpc = "GetPool" /\ Req(c).Name = q) =>
                  <<f, q, ValueOf(q, f)'>> \in Facts(Req(c))'
      BY <1>1, FactsOfPool
    <2>3. Facts(Req(c))' \subseteq seen'[c]
      BY <1>5, Observed
    <2>4. QED  BY <1>2, <1>3, <1>4, <2>1, <2>2, <2>3 DEF PoolCalls
  <1>7. /\ DOMAIN filled = DOMAIN draft[c] \cup {"Name", at[c]}
        /\ filled = [f \in DOMAIN filled |-> filled[f]]
        /\ filled["Name"] = p /\ filled[at[c]] = ValueOf(p, at[c])
        /\ \A f \in DOMAIN draft[c] : f \notin {"Name", at[c]} => filled[f] = draft[c][f]
    BY <1>2 DEF With, Field
  <1>8. /\ DOMAIN draft[c] = FieldsBefore[at[c]] \cup (IF at[c] = "State" THEN {} ELSE {"Name"})
        /\ \A f \in FieldsBefore[at[c]] :
               draft[c][f] \in TypeOfField(f) /\ <<f, p, draft[c][f]>> \in seen[c]
    BY <1>2 DEF ApiInv, HandlerInv, ViewFilled
  <1>9. \A f \in FieldsBefore[at[c]] \cup {at[c]} :
            filled[f] \in TypeOfField(f) /\ <<f, p, filled[f]>> \in seen'[c]
    <2>1. FieldsBefore[at[c]] \subseteq DOMAIN draft[c] /\ {"Name", at[c]} \cap FieldsBefore[at[c]] = {}
      BY <1>2, <1>8 DEF FieldsBefore, Field
    <2>2. ValueOf(p, at[c]) \in TypeOfField(at[c])
      BY <1>2, <1>3, ValueTypes DEF ApiInv, Shape
    <2> HIDE DEF filled, p
    <2>3. QED  BY <1>1, <1>6, <1>7, <1>8, <2>1, <2>2
  <1>10. /\ found'[c] = <<>> /\ arrived'[c] = <<>> /\ out'[c] # "none"
    BY <1>2 DEF ReadField, clientVars
  <1>11. CASE at[c] # "DesiredReplicas"
    <2>1. /\ at'[c] = FieldAfter[at[c]] /\ at[c] \in DOMAIN FieldAfter
          /\ todo'[c] = todo[c] /\ protos'[c] = protos[c] /\ draft'[c] = filled
      BY <1>2, <1>11 DEF ReadField, ApiInv, Shape, TypeOK, Field, FieldAfter
    <2>2. at'[c] \in Field /\ at'[c] # "State"
      BY <2>1 DEF FieldAfter, Field
    <2>3. StartsEmpty(c)'
      BY <1>10, <2>2 DEF StartsEmpty, Field
    <2>4. PoolsRead(c)'
      <3>1. Walked(c)' = Walked(c)
        BY <2>1 DEF Walked
      <3>2. PoolsRead(c)
        BY DEF ApiInv, HandlerInv
      <3>3. \A i \in DOMAIN protos[c] : \A f \in Field :
                <<f, protos[c][i].Name, protos[c][i][f]>> \in seen'[c]
        BY <1>1, <1>2, <3>2 DEF PoolsRead, Fresh
      <3>4. QED
        BY <1>1, <1>2, <1>10, <2>1, <2>2, <3>1, <3>3 DEF PoolsRead, Fresh, Field
    <2>5. ViewFilled(c)'
      <3>1. FieldsBefore[at'[c]] = FieldsBefore[at[c]] \cup {at[c]}
        BY <2>1 DEF FieldAfter, FieldsBefore
      <3>2. DOMAIN filled = FieldsBefore[at'[c]] \cup {"Name"}
        BY <1>7, <1>8, <3>1
      <3> HIDE DEF filled
      <3>3. QED
        BY <1>7, <1>9, <2>1, <2>2, <3>1, <3>2 DEF ViewFilled
    <2>6. PoolsListed(c)' /\ MachinesAsked(c)' /\ MachinesCollected(c)'
      BY <2>2 DEF PoolsListed, MachinesAsked, MachinesCollected, AskingMachines, Field
    <2>7. ClientTypes(c)'
      BY <1>2, <1>10, <2>1, <2>2, StillTyped DEF ReadField
    <2>8. QED  BY <2>3, <2>4, <2>5, <2>6, <2>7 DEF HandlerInv
  <1>12. CASE at[c] = "DesiredReplicas"
    <2>1. /\ at'[c] = IF todo'[c] = <<>> THEN "reply" ELSE "State"
          /\ todo'[c] = Tail(todo[c]) /\ protos'[c] = Append(protos[c], filled) /\ draft'[c] = <<>>
      BY <1>2, <1>12 DEF ReadField, ApiInv, Shape, TypeOK
    <2>2. filled \in PoolMessage /\ filled.Name = p
      <3>1. DOMAIN filled = {"Name", "State", "Replicas", "CurrentReplicas", "DesiredReplicas"}
        BY <1>7, <1>8, <1>12 DEF FieldsBefore
      <3>2. /\ filled["State"] \in PoolState /\ filled["Replicas"] \in Int32
            /\ filled["CurrentReplicas"] \in Int32 /\ filled["DesiredReplicas"] \in Int32
        <4> HIDE DEF filled
        <4>1. FieldsBefore[at[c]] \cup {at[c]} = Field
          BY <1>12 DEF FieldsBefore, Field
        <4>2. \A f \in Field : filled[f] \in TypeOfField(f)
          BY <1>9, <4>1
        <4>3. QED  BY <4>2 DEF TypeOfField, Field
      <3>3. filled["Name"] \in PoolName
        BY <1>3, <1>7, PoolsAssumption
      <3> HIDE DEF filled
      <3>4. QED  BY <1>7, <3>1, <3>2, <3>3 DEF PoolMessage
    <2>3. \A f \in Field : <<f, filled.Name, filled[f]>> \in seen'[c]
      <3>1. Field = FieldsBefore[at[c]] \cup {at[c]}
        BY <1>12 DEF Field, FieldsBefore
      <3> HIDE DEF filled, p
      <3>2. QED  BY <1>9, <2>2, <3>1
    <2> HIDE DEF filled
    <2>4. StartsEmpty(c)'
      BY <1>1, <1>2, <1>10, <2>1 DEF StartsEmpty
    <2>5. PoolsRead(c)'
      <3>1. Walked(c)' = Walked(c)
        <4>1. /\ Len(protos'[c]) = Len(protos[c]) + 1 /\ Len(todo'[c]) = Len(todo[c]) - 1
              /\ Len(protos[c]) \in Nat /\ Len(todo[c]) \in Nat \ {0}
              /\ \A i \in 1 .. Len(protos[c]) : protos'[c][i] = protos[c][i]
              /\ protos'[c][Len(protos[c]) + 1].Name = todo[c][1]
              /\ \A i \in 1 .. Len(todo'[c]) : todo'[c][i] = todo[c][i + 1]
          <5>1. /\ Len(protos'[c]) = Len(protos[c]) + 1 /\ Len(protos[c]) \in Nat
                /\ \A i \in 1 .. Len(protos[c]) : protos'[c][i] = protos[c][i]
                /\ protos'[c][Len(protos[c]) + 1] = filled
            BY <1>2, <2>1, <2>2
          <5>2. /\ Len(todo'[c]) = Len(todo[c]) - 1 /\ Len(todo[c]) \in Nat \ {0}
                /\ \A i \in 1 .. Len(todo'[c]) : todo'[c][i] = todo[c][i + 1]
                /\ p = todo[c][1]
            BY <1>2, <2>1
          <5> HIDE DEF p
          <5>3. QED  BY <2>2, <5>1, <5>2
        <4>2. QED
          <5>1. PICK k \in Nat, l \in Nat :
                    /\ Len(protos[c]) = k /\ Len(todo[c]) = l + 1
                    /\ Len(protos'[c]) = k + 1 /\ Len(todo'[c]) = l
            <6>1. \A n \in Nat \ {0} : \E l \in Nat : n = l + 1 /\ n - 1 = l
              <7>1. \A n \in Nat \ {0} : n - 1 \in Nat /\ n = (n - 1) + 1
                OBVIOUS
              <7>2. QED  BY <7>1
            <6>2. QED  BY <4>1, <6>1
          <5>2. ASSUME NEW i \in 1 .. (k + l) + 1
                PROVE  (IF i <= k + 1 THEN protos'[c][i].Name ELSE todo'[c][i - (k + 1)])
                         = IF i <= k THEN protos[c][i].Name ELSE todo[c][i - k]
            <6>1. CASE i <= k
              <7>1. i \in 1 .. k /\ i <= k + 1
                BY <6>1
              <7>2. protos'[c][i] = protos[c][i]
                BY <4>1, <5>1, <7>1
              <7>3. QED  BY <6>1, <7>1, <7>2
            <6>2. CASE i = k + 1
              BY <4>1, <5>1, <6>2
            <6>3. CASE i > k + 1
              <7>1. i - (k + 1) \in 1 .. l /\ (i - (k + 1)) + 1 = i - k
                BY <6>3
              <7>2. todo'[c][i - (k + 1)] = todo[c][(i - (k + 1)) + 1]
                BY <4>1, <5>1, <7>1
              <7>3. QED  BY <6>3, <7>1, <7>2
            <6>4. QED  BY <6>1, <6>2, <6>3
          <5>3. (k + 1) + l = (k + l) + 1 /\ k + (l + 1) = (k + l) + 1
            OBVIOUS
          <5>4. QED  BY <5>1, <5>2, <5>3 DEF Walked
      <3>2. PoolsRead(c)
        BY DEF ApiInv, HandlerInv
      <3>3. protos'[c] \in Seq(PoolMessage)
        BY <1>2, <2>1, <2>2
      <3>4. \A i \in DOMAIN protos'[c] : \A f \in Field :
                <<f, protos'[c][i].Name, protos'[c][i][f]>> \in seen'[c]
        <4>1. \A i \in DOMAIN protos[c] : \A f \in Field :
                  <<f, protos[c][i].Name, protos[c][i][f]>> \in seen'[c]
          BY <1>1, <1>2, <3>2 DEF PoolsRead, Fresh
        <4>2. \A i \in DOMAIN protos'[c] :
                  protos'[c][i] = filled \/ (i \in DOMAIN protos[c] /\ protos'[c][i] = protos[c][i])
          BY <1>2, <2>1, <2>2
        <4>3. QED  BY <2>3, <4>1, <4>2
      <3>5. QED
        BY <1>1, <1>2, <1>10, <2>1, <3>1, <3>3, <3>4 DEF PoolsRead, Fresh, Field
    <2>6. ViewFilled(c)'
      <3>1. at'[c] \in {"reply", "State"} /\ draft'[c] = <<>>
        BY <2>1
      <3>2. QED  BY <3>1 DEF ViewFilled, FieldsBefore, Field
    <2>7. PoolsListed(c)' /\ MachinesAsked(c)' /\ MachinesCollected(c)'
      BY <1>1, <1>2, <2>1 DEF PoolsListed, MachinesAsked, MachinesCollected, AskingMachines,
         PoolCalls, MachineCalls
    <2>8. ClientTypes(c)'
      <3>1. todo'[c] \in Seq(Pool) /\ at'[c] \in {"reply", "State"}
        BY <1>2, <2>1
      <3>2. QED  BY <1>10, <3>1, StillTyped DEF ReadField, Field
    <2>9. QED  BY <2>4, <2>5, <2>6, <2>7, <2>8 DEF HandlerInv
  <1>13. QED  BY <1>11, <1>12

\* The pools to list are all that are asked for.
LEMMA PoolsToList ==
    ASSUME ApiInv, NEW c \in Client, ListMachines(c), cmd' = cmd
    PROVE  HandlerInv(c)' /\ ClientTypes(c)'
  <1>1. Req(c)' = Req(c) /\ Req(c).rpc = "ListMachines"
    BY DEF Req, ListMachines
  <1>2. /\ found'[c] = <<>> /\ draft'[c] = <<>> /\ arrived'[c] = <<>> /\ protos'[c] = <<>>
        /\ out'[c] # "none"
    BY DEF ApiInv, HandlerInv, StartsEmpty, Empty, ListMachines, clientVars
  <1> DEFINE pools == IF Req(c).Pool = NoName THEN Pool ELSE {Req(c).Pool}
  <1>3. pools \subseteq Pool /\ IsFiniteSet(pools)
    BY PoolsAssumption, FS_Subset DEF ListMachines
  <1>4. PICK walk \in Orders(pools) : todo' = [todo EXCEPT ![c] = walk]
    BY DEF ListMachines
  <1>5. /\ walk \in Seq(pools) /\ ToSet(walk) = pools
        /\ \A i, j \in DOMAIN walk : i # j => walk[i] # walk[j]
    BY <1>3, OrdersFacts
  <1>6. todo'[c] = walk /\ at'[c] = IF walk = <<>> THEN "reply" ELSE "list"
    BY <1>4 DEF ListMachines, ApiInv, Shape, TypeOK
  <1>7. \A m \in AskedFor(Req(c)) : PoolOf[m] \in pools
    <2>1. \A m \in Machine : PoolOf[m] \in Pool
      BY PoolsAssumption
    <2>2. QED  BY <2>1 DEF AskedFor
  <1>8. \A i \in DOMAIN walk : Req(c).Pool \in {NoName, walk[i]}
    BY <1>5
  <1>9. walk = <<>> => AskedFor(Req(c)) = {}
    <2>1. ToSet(<<>>) = {}
      BY DEF ToSet
    <2>2. QED  BY <1>5, <1>7, <2>1
  <1> HIDE DEF pools
  <1>10. StartsEmpty(c)'
    BY <1>1, <1>2, <1>6 DEF StartsEmpty, MachineCalls
  <1>11. PoolsRead(c)' /\ ViewFilled(c)' /\ MachinesAsked(c)'
    BY <1>1, <1>6 DEF PoolsRead, ReadingPools, ViewFilled, MachinesAsked, Field, PoolCalls
  <1>12. PoolsListed(c)'
    BY <1>1, <1>2, <1>5, <1>6, <1>7, <1>8 DEF PoolsListed
  <1>13. MachinesCollected(c)'
    <2>1. CASE walk = <<>>
      <3>1. ToSet(<<>>) = {}
        BY DEF ToSet
      <3>2. RightMachines(c, found[c])'
        BY <1>1, <1>2, <1>9, <2>1, <3>1 DEF RightMachines
      <3>3. QED
        BY <1>1, <1>2, <1>6, <2>1, <3>2 DEF MachinesCollected, MachineCalls
    <2>2. CASE walk # <<>>
      BY <1>6, <2>2 DEF MachinesCollected, AskingMachines
    <2>3. QED  BY <2>1, <2>2
  <1>14. ClientTypes(c)'
    <2>1. todo'[c] \in Seq(Pool)
      BY <1>3, <1>5, <1>6
    <2>2. QED  BY <1>2, <1>6, <2>1, StillTyped DEF ListMachines
  <1>15. QED  BY <1>10, <1>11, <1>12, <1>13, <1>14 DEF HandlerInv

\* Machines are about to be asked, if there are any.
LEMMA StartsAsking ==
    ASSUME ApiInv, NEW c \in Client, NEW machines \in Seq(Machine), ToAsk(c, machines),
           UNCHANGED clientVars, Req(c).rpc \in MachineCalls, out'[c] # "none",
           todo'[c] = <<>>, arrived'[c] = <<>>, protos'[c] = <<>>,
           RightMachines(c, machines)'
    PROVE  HandlerInv(c)' /\ ClientTypes(c)'
  <1>1. Req(c)' = Req(c)
    BY DEF Req, clientVars
  <1>2. /\ found'[c] = machines
        /\ draft'[c] = [i \in DOMAIN machines |-> [ID |-> machines[i], Pool |-> PoolOf[machines[i]]]]
        /\ at'[c] = IF machines = <<>> THEN "reply" ELSE "ask"
    BY DEF ToAsk, ApiInv, Shape, TypeOK
  <1>3. StartsEmpty(c)'
    BY <1>1, <1>2 DEF StartsEmpty
  <1>4. PoolsRead(c)' /\ ViewFilled(c)' /\ PoolsListed(c)'
    BY <1>1, <1>2 DEF PoolsRead, ReadingPools, ViewFilled, PoolsListed, Field, PoolCalls, MachineCalls
  <1>5. MachinesCollected(c)'
    BY <1>1, <1>2 DEF MachinesCollected
  <1>6. MachinesAsked(c)'
    BY <1>2 DEF MachinesAsked
  <1>7. ClientTypes(c)'
    <2>1. <<>> \in Seq(Pool)
      OBVIOUS
    <2>2. QED  BY <1>2, <2>1, StillTyped
  <1>8. QED  BY <1>3, <1>4, <1>5, <1>6, <1>7 DEF HandlerInv

LEMMA MachineFound ==
    ASSUME ApiInv, NEW c \in Client, GetMachine(c), cmd' = cmd
    PROVE  HandlerInv(c)' /\ ClientTypes(c)'
  <1>1. PICK id : id = Req(c).ID
    OBVIOUS
  <1>2. id \in Machine
    BY <1>1 DEF GetMachine, Listed
  <1>3. Req(c)' = Req(c) /\ Req(c).rpc = "GetMachine"
    BY DEF Req, GetMachine
  <1>4. /\ todo'[c] = <<>> /\ arrived'[c] = <<>> /\ protos'[c] = <<>> /\ out'[c] # "none"
    BY DEF ApiInv, HandlerInv, StartsEmpty, Empty, GetMachine, clientVars
  <1>5. ToAsk(c, <<id>>) /\ <<id>> \in Seq(Machine)
    BY <1>1, <1>2 DEF GetMachine
  <1>6. RightMachines(c, <<id>>)'
    BY <1>1, <1>3 DEF RightMachines
  <1>7. UNCHANGED clientVars /\ Req(c).rpc \in MachineCalls
    BY <1>3 DEF MachineCalls, GetMachine
  <1>8. QED  BY <1>4, <1>5, <1>6, <1>7, StartsAsking

\* One more pool is listed: what is in it now, each machine once.
LEMMA PoolListed ==
    ASSUME ApiInv, Next, NEW c \in Client, ListPool(c)
    PROVE  HandlerInv(c)' /\ ClientTypes(c)'
  <1> DEFINE r == Req(c)
             p == Head(todo[c])
  <1>1. cmd' = cmd /\ Req(c)' = r /\ seen[c] \subseteq seen'[c]
    BY Observed DEF Req
  <1>2. PoolsListed(c) /\ at[c] = "list" /\ todo[c] \in Seq(Pool) /\ found[c] \in Seq(Machine)
    BY DEF ListPool, ApiInv, Shape, TypeOK, HandlerInv
  <1>3. /\ r.rpc = "ListMachines" /\ todo[c] # <<>> /\ p \in Pool
        /\ draft[c] = <<>> /\ arrived[c] = <<>> /\ protos[c] = <<>> /\ out[c] # "none"
    BY <1>2 DEF PoolsListed, ApiInv, HandlerInv, StartsEmpty
  <1>4. /\ todo'[c] = Tail(todo[c]) /\ todo'[c] \in Seq(Pool)
        /\ arrived'[c] = <<>> /\ protos'[c] = <<>> /\ out'[c] # "none"
    BY <1>2, <1>3 DEF ListPool, clientVars, ApiInv, Shape, TypeOK
  <1>5. PICK walk \in Orders(Listed(p)) :
            IF todo'[c] = <<>> THEN \E sorted \in Sorted(found[c] \o walk, Before) : ToAsk(c, sorted)
            ELSE found' = [found EXCEPT ![c] = found[c] \o walk] /\ UNCHANGED <<draft, at>>
    BY DEF ListPool
  <1>6. /\ walk \in Seq(Machine) /\ ToSet(walk) = Listed(p)
        /\ \A i, j \in DOMAIN walk : i # j => walk[i] # walk[j]
    <2>1. Listed(p) \subseteq Machine /\ IsFiniteSet(Listed(p))
      BY PoolsAssumption, FS_Subset DEF Listed
    <2>2. walk \in Seq(Listed(p))
      BY <2>1, OrdersFacts
    <2>3. walk \in Seq(Machine)
      BY <2>1, <2>2
    <2>4. QED  BY <2>1, <2>3, OrdersFacts
  <1> DEFINE machines == found[c] \o walk
  <1>7. /\ machines \in Seq(Machine)
        /\ \A k \in DOMAIN machines :
               \/ k \in DOMAIN found[c] /\ machines[k] = found[c][k]
               \/ k - Len(found[c]) \in DOMAIN walk /\ machines[k] = walk[k - Len(found[c])]
        /\ \A k \in DOMAIN found[c] : k \in DOMAIN machines /\ machines[k] = found[c][k]
        /\ \A k \in DOMAIN walk : k + Len(found[c]) \in DOMAIN machines
                                   /\ machines[k + Len(found[c])] = walk[k]
    BY <1>2, <1>6
  <1>8. ToSet(machines) = ToSet(found[c]) \cup Listed(p)
    <2> HIDE DEF machines
    <2>1. ToSet(machines) = ToSet(found[c]) \cup ToSet(walk)
      BY <1>7 DEF ToSet
    <2>2. QED  BY <1>6, <2>1
  <1>9. /\ p \in ToSet(todo[c]) /\ p \notin ToSet(todo'[c])
        /\ ToSet(todo[c]) = ToSet(todo'[c]) \cup {p}
    <2>1. /\ Len(todo[c]) \in Nat \ {0} /\ DOMAIN todo[c] = 1 .. Len(todo[c]) /\ p = todo[c][1]
          /\ DOMAIN todo'[c] = 1 .. Len(todo[c]) - 1
          /\ \A k \in DOMAIN todo'[c] : todo'[c][k] = todo[c][k + 1]
      BY <1>2, <1>3, <1>4
    <2>2. \A k, l \in DOMAIN todo[c] : k # l => todo[c][k] # todo[c][l]
      BY <1>2 DEF PoolsListed
    <2> HIDE DEF p
    <2>3. \A n \in Nat \ {0} : \A k \in 1 .. n - 1 : k + 1 \in 1 .. n /\ k + 1 # 1
      OBVIOUS
    <2>4. \A n \in Nat \ {0} : \A k \in 1 .. n : k = 1 \/ (k - 1 \in 1 .. n - 1 /\ (k - 1) + 1 = k)
      OBVIOUS
    <2>5. \A n \in Nat \ {0} : 1 \in 1 .. n
      OBVIOUS
    <2>6. p \notin ToSet(todo'[c])
      <3>1. ASSUME NEW k \in DOMAIN todo'[c]
            PROVE  todo'[c][k] # p
        <4>1. k + 1 \in DOMAIN todo[c] /\ 1 \in DOMAIN todo[c] /\ k + 1 # 1
          BY <2>1, <2>3, <2>5
        <4>2. QED  BY <2>1, <2>2, <4>1
      <3>2. QED  BY <3>1 DEF ToSet
    <2>7. ToSet(todo'[c]) \cup {p} \subseteq ToSet(todo[c])
      BY <2>1, <2>3, <2>5 DEF ToSet
    <2>8. ToSet(todo[c]) \subseteq ToSet(todo'[c]) \cup {p}
      <3>1. ASSUME NEW k \in DOMAIN todo[c]
            PROVE  todo[c][k] \in ToSet(todo'[c]) \cup {p}
        <4>1. CASE k = 1
          BY <2>1, <4>1
        <4>2. CASE k # 1
          <5>1. k - 1 \in DOMAIN todo'[c] /\ todo'[c][k - 1] = todo[c][k]
            BY <2>1, <2>4, <4>2
          <5>2. QED  BY <5>1 DEF ToSet
        <4>3. QED  BY <4>1, <4>2
      <3>2. QED  BY <3>1 DEF ToSet
    <2>9. QED  BY <2>6, <2>7, <2>8
  <1>10. \A m \in ToSet(found[c]) :
             /\ m \in AskedFor(r) /\ <<"listed", m, TRUE>> \in seen[c]
             /\ PoolOf[m] \notin ToSet(todo[c])
    BY <1>2 DEF PoolsListed, Ever, ToSet
  <1>11. \A k, l \in DOMAIN machines : k # l => machines[k] # machines[l]
    <2>1. \A k, l \in DOMAIN found[c] : k # l => found[c][k] # found[c][l]
      BY <1>2 DEF PoolsListed
    <2>2. ASSUME NEW k \in DOMAIN found[c], NEW l \in DOMAIN walk
          PROVE  found[c][k] # walk[l]
      <3>1. found[c][k] \in ToSet(found[c]) /\ walk[l] \in Listed(p)
        BY <1>6 DEF ToSet
      <3>2. QED  BY <1>9, <1>10, <3>1 DEF Listed
    <2>3. \A k, l \in DOMAIN machines : k # l => k - Len(found[c]) # l - Len(found[c])
      BY <1>2, <1>7
    <2> HIDE DEF machines
    <2>4. SUFFICES ASSUME NEW k \in DOMAIN machines, NEW l \in DOMAIN machines, k # l
                   PROVE  machines[k] # machines[l]
      OBVIOUS
    <2>5. CASE k \in DOMAIN found[c] /\ machines[k] = found[c][k]
      BY <1>7, <2>1, <2>2, <2>4, <2>5
    <2>6. CASE l \in DOMAIN found[c] /\ machines[l] = found[c][l]
      BY <1>7, <2>1, <2>2, <2>4, <2>6
    <2>7. CASE /\ k - Len(found[c]) \in DOMAIN walk /\ machines[k] = walk[k - Len(found[c])]
               /\ l - Len(found[c]) \in DOMAIN walk /\ machines[l] = walk[l - Len(found[c])]
      BY <1>6, <2>3, <2>4, <2>7
    <2>8. QED  BY <1>7, <2>5, <2>6, <2>7
  <1>12. \A m \in AskedFor(r) : <<"listed", m, life'[m] = "listed">> \in seen'[c]
    <2>1. at[c] # "done" /\ at'[c] # "none"
      <3>1. at'[c] \in {"list", "reply", "ask"}
        BY <1>2, <1>5 DEF ToAsk, ApiInv, Shape, TypeOK
      <3>2. QED  BY <1>2, <3>1
    <2>2. Facts(Req(c))' \subseteq seen'[c]
      BY <2>1, Observed
    <2>3. QED  BY <1>1, <1>3, <2>2, FactsOfMachine DEF AskedFor
  <1>13. life' = life
    BY DEF ListPool, machineVars
  <1>14. \A m \in Listed(p) : m \in AskedFor(r) /\ <<"listed", m, TRUE>> \in seen'[c] /\ PoolOf[m] = p
    <2>1. \A m \in Listed(p) : m \in Machine /\ (life'[m] = "listed") = TRUE /\ PoolOf[m] = p
      BY <1>13 DEF Listed
    <2>2. Req(c).Pool \in {NoName, p}
      BY <1>2, <1>9 DEF PoolsListed, ToSet
    <2>3. \A m \in Listed(p) : m \in AskedFor(r)
      BY <2>1, <2>2 DEF AskedFor
    <2>4. QED  BY <1>12, <2>1, <2>3
  <1>15. \A m \in ToSet(machines) :
             /\ m \in AskedFor(r) /\ <<"listed", m, TRUE>> \in seen'[c]
             /\ PoolOf[m] \notin ToSet(todo'[c])
    <2> HIDE DEF machines, p, r
    <2>1. QED  BY <1>1, <1>8, <1>9, <1>10, <1>14
  <1>16. \A m \in AskedFor(r) : <<"listed", m, FALSE>> \notin seen'[c] =>
             m \in ToSet(machines) \/ PoolOf[m] \in ToSet(todo'[c])
    <2>1. ASSUME NEW m \in AskedFor(r), <<"listed", m, FALSE>> \notin seen'[c]
          PROVE  m \in ToSet(found[c]) \/ PoolOf[m] \in ToSet(todo[c])
      BY <1>1, <1>2, <2>1 DEF PoolsListed, Always
    <2>2. ASSUME NEW m \in AskedFor(r), <<"listed", m, FALSE>> \notin seen'[c], PoolOf[m] = p
          PROVE  m \in Listed(p)
      <3>1. ASSUME life[m] # "listed"
            PROVE  FALSE
        <4>1. (life'[m] = "listed") = FALSE
          BY <1>13, <3>1
        <4>2. QED  BY <1>12, <2>2, <4>1
      <3>2. QED  BY <2>2, <3>1 DEF Listed, AskedFor
    <2> HIDE DEF machines, p, r
    <2>3. QED  BY <1>8, <1>9, <2>1, <2>2
  <1>17. CASE todo'[c] = <<>>
    <2>1. PICK sorted \in Sorted(machines, Before) : ToAsk(c, sorted)
      BY <1>5, <1>17
    <2>2. /\ sorted \in Seq(Machine) /\ ToSet(sorted) = ToSet(machines)
          /\ \A k, l \in DOMAIN sorted : k < l => Before(sorted[k], sorted[l])
      BY <1>7, <1>11, <2>1, SortedMachines
    <2>3. RightMachines(c, sorted)'
      <3>1. ToSet(todo'[c]) = {}
        BY <1>17 DEF ToSet
      <3> HIDE DEF machines
      <3>2. QED  BY <1>1, <1>3, <1>15, <1>16, <2>2, <3>1 DEF RightMachines, Ever, Always
    <2>4. UNCHANGED clientVars /\ Req(c).rpc \in MachineCalls
      BY <1>3 DEF ListPool, MachineCalls
    <2>5. QED  BY <1>1, <1>4, <1>17, <2>1, <2>2, <2>3, <2>4, StartsAsking
  <1>18. CASE todo'[c] # <<>>
    <2>1. found'[c] = machines /\ draft'[c] = <<>> /\ at'[c] = "list"
      BY <1>2, <1>3, <1>5, <1>18 DEF ApiInv, Shape, TypeOK
    <2> HIDE DEF machines
    <2>2. PoolsListed(c)'
      <3>1. \A k \in DOMAIN todo'[c] : k + 1 \in DOMAIN todo[c] /\ todo'[c][k] = todo[c][k + 1]
        BY <1>2, <1>3, <1>4
      <3>2. \A k, l \in DOMAIN todo'[c] : k # l => todo'[c][k] # todo'[c][l]
        <4>1. \A k, l \in DOMAIN todo'[c] : k # l => k + 1 # l + 1
          BY <1>4
        <4>2. QED  BY <1>2, <3>1, <4>1 DEF PoolsListed
      <3>3. \A k \in DOMAIN todo'[c] : r.Pool \in {NoName, todo'[c][k]}
        BY <1>2, <3>1 DEF PoolsListed
      <3>4. \A k \in DOMAIN machines : machines[k] \in ToSet(machines)
        BY DEF ToSet
      <3>5. QED
        BY <1>1, <1>3, <1>4, <1>11, <1>15, <1>16, <1>18, <2>1, <3>2, <3>3, <3>4 DEF PoolsListed, Ever, Always
    <2>3. StartsEmpty(c)'
      BY <1>4, <2>1 DEF StartsEmpty
    <2>4. PoolsRead(c)' /\ ViewFilled(c)' /\ MachinesCollected(c)' /\ MachinesAsked(c)'
      BY <2>1 DEF PoolsRead, ReadingPools, ViewFilled, MachinesCollected, AskingMachines, MachinesAsked, Field
    <2>5. ClientTypes(c)'
      BY <1>4, <1>7, <2>1, StillTyped DEF ListPool, machines
    <2>6. QED  BY <2>2, <2>3, <2>4, <2>5 DEF HandlerInv
  <1>19. QED  BY <1>17, <1>18

\* The machines a handler asks are machines its request is about.
LEMMA AskedOfRequest ==
    ASSUME ApiInv, NEW c \in Client, at[c] = "ask", NEW i \in DOMAIN found[c]
    PROVE  /\ found[c][i] \in Machine
           /\ \/ Req(c).rpc = "ListMachines" /\ Req(c).Pool \in {NoName, PoolOf[found[c][i]]}
              \/ Req(c).rpc = "GetMachine" /\ Req(c).ID = found[c][i]
  <1>1. found[c][i] \in Machine
    BY DEF ApiInv, Shape, TypeOK
  <1>2. RightMachines(c, found[c]) /\ Req(c).rpc \in MachineCalls
    BY DEF ApiInv, HandlerInv, MachinesCollected, AskingMachines
  <1>3. CASE Req(c).rpc = "GetMachine"
    BY <1>1, <1>2, <1>3 DEF RightMachines
  <1>4. CASE Req(c).rpc = "ListMachines"
    <2>1. found[c][i] \in AskedFor(Req(c))
      BY <1>2, <1>4 DEF RightMachines, ToSet
    <2>2. QED  BY <1>1, <1>4, <2>1 DEF AskedFor
  <1>5. QED  BY <1>2, <1>3, <1>4 DEF MachineCalls

\* An answer is of the machine that was asked, and true now.
LEMMA MachineAsked ==
    ASSUME ApiInv, Next, NEW c \in Client, NEW i \in DOMAIN found[c], Ask(c, i)
    PROVE  HandlerInv(c)' /\ ClientTypes(c)'
  <1> DEFINE m == found[c][i]
  <1>1. cmd' = cmd /\ Req(c)' = Req(c) /\ seen[c] \subseteq seen'[c]
    BY Observed DEF Req
  <1>2. /\ at[c] = "ask" /\ MachinesCollected(c) /\ MachinesAsked(c) /\ out[c] # "none"
        /\ DOMAIN draft[c][i] = {"ID", "Pool"}
    BY DEF Ask, ApiInv, HandlerInv, StartsEmpty
  <1>3. /\ at'[c] = "ask" /\ todo'[c] = todo[c] /\ found'[c] = found[c] /\ protos'[c] = protos[c]
        /\ out'[c] # "none" /\ agent' = agent
    BY <1>2 DEF Ask, clientVars, machineVars
  <1>4. m \in Machine /\ <<"RunnerState", m, agent'[m]>> \in Facts(Req(c))'
    <2>1. /\ m \in Machine
          /\ \/ Req(c).rpc = "ListMachines" /\ Req(c).Pool \in {NoName, PoolOf[m]}
             \/ Req(c).rpc = "GetMachine" /\ Req(c).ID = m
      BY <1>2, AskedOfRequest
    <2>2. PICK n \in Machine : n = m
      BY <2>1
    <2>3. \/ Req(c)'.rpc = "ListMachines" /\ Req(c)'.Pool \in {NoName, PoolOf[n]}
          \/ Req(c)'.rpc = "GetMachine" /\ Req(c)'.ID = n
      BY <1>1, <2>1, <2>2
    <2>4. <<"RunnerState", n, agent'[n]>> \in Facts(Req(c))'
      BY <2>3, FactsOfMachine
    <2>5. QED  BY <2>1, <2>2, <2>4
  <1>5. <<"RunnerState", m, agent[m]>> \in seen'[c]
    BY <1>2, <1>3, <1>4, Observed
  <1>6. PICK state \in {"Unknown", agent[m]} \ NoAnswer :
            draft' = [draft EXCEPT ![c][i] = With(@, "RunnerState", state)]
    BY DEF Ask
  <1>7. draft[c][i] = [ID |-> m, Pool |-> PoolOf[m]]
    <2>1. ASSUME GoodMachine(c, m, draft[c][i])
          PROVE  FALSE
      <3>1. DOMAIN draft[c][i] = {"ID", "Pool", "RunnerState"}
        BY <2>1 DEF GoodMachine, MachineMessage
      <3>2. QED  BY <1>2, <3>1
    <2>2. QED  BY <1>2, <2>1 DEF MachinesAsked
  <1> DEFINE answer == [ID |-> m, Pool |-> PoolOf[m], RunnerState |-> state]
  <1>8. With(draft[c][i], "RunnerState", state) = answer
    BY <1>7 DEF With
  <1>9. /\ draft'[c] = [j \in DOMAIN found[c] |-> draft'[c][j]]
        /\ draft'[c][i] = answer
        /\ \A j \in DOMAIN found[c] : j # i => draft'[c][j] = draft[c][j]
    <2>1. draft'[c] = [draft[c] EXCEPT ![i] = answer]
      BY <1>6, <1>8 DEF ApiInv, Shape
    <2>2. draft[c] = [j \in DOMAIN found[c] |-> draft[c][j]]
      BY <1>2 DEF MachinesAsked
    <2> HIDE DEF answer
    <2>3. QED  BY <2>1, <2>2
  <1>10. /\ answer \in MachineMessage
         /\ state = "Unknown" \/ <<"RunnerState", m, state>> \in seen'[c]
    <2>1. state \in RunnerState \cup {"Unknown"}
      BY <1>4, <1>6 DEF ApiInv, Shape, TypeOK
    <2>2. m \in MachineName /\ PoolOf[m] \in PoolName
      BY <1>4, PoolsAssumption
    <2>3. QED  BY <1>5, <1>6, <2>1, <2>2 DEF MachineMessage
  <1>11. \A j \in DOMAIN found[c] : \A d : GoodMachine(c, found[c][j], d) =>
             /\ d \in MachineMessage /\ d.ID = found[c][j] /\ d.Pool = PoolOf[found[c][j]]
             /\ d.RunnerState = "Unknown" \/ <<"RunnerState", found[c][j], d.RunnerState>> \in seen'[c]
    BY <1>1 DEF GoodMachine
  <1>12. /\ arrived'[c] = Append(arrived[c], i) /\ arrived[c] \in Seq(DOMAIN found[c])
         /\ arrived'[c] \in Seq(DOMAIN found[c])
         /\ \A k \in DOMAIN arrived'[c] : arrived'[c][k] = i \/ (k \in DOMAIN arrived[c] /\ arrived'[c][k] = arrived[c][k])
    <2>1. arrived'[c] = Append(arrived[c], i)
      BY DEF Ask, ApiInv, Shape
    <2>2. arrived[c] \in Seq(DOMAIN found[c])
      <3>1. arrived[c] \in Seq(1 .. Len(found[c])) /\ found[c] \in Seq(Machine)
        BY DEF ApiInv, Shape, TypeOK
      <3>2. QED  BY <3>1
    <2>3. Append(arrived[c], i) \in Seq(DOMAIN found[c])
      BY <2>2, AppendProperties
    <2>4. \A k \in DOMAIN Append(arrived[c], i) :
              \/ Append(arrived[c], i)[k] = i
              \/ k \in DOMAIN arrived[c] /\ Append(arrived[c], i)[k] = arrived[c][k]
      <3>1. PICK s \in Seq(DOMAIN found[c]) : s = arrived[c]
        BY <2>2
      <3>2. /\ Len(s) \in Nat /\ DOMAIN s = 1 .. Len(s) /\ DOMAIN Append(s, i) = 1 .. Len(s) + 1
            /\ \A k \in 1 .. Len(s) : Append(s, i)[k] = s[k]
            /\ Append(s, i)[Len(s) + 1] = i
        OBVIOUS
      <3>3. \A n \in Nat : \A k \in 1 .. n + 1 : k = n + 1 \/ k \in 1 .. n
        OBVIOUS
      <3>4. QED  BY <3>1, <3>2, <3>3
    <2>5. QED  BY <2>1, <2>2, <2>3, <2>4
  <1>13. StartsEmpty(c)'
    BY <1>3 DEF StartsEmpty
  <1>14. PoolsRead(c)' /\ ViewFilled(c)' /\ PoolsListed(c)'
    BY <1>3 DEF PoolsRead, ReadingPools, ViewFilled, PoolsListed, Field
  <1>15. MachinesCollected(c)'
    <2>1. RightMachines(c, found[c])'
      BY <1>1, <1>2, <1>3 DEF MachinesCollected, AskingMachines, RightMachines, Ever, Always
    <2>2. \A j \in DOMAIN protos[c] : GoodMachine(c, found[c][j], protos[c][j]) /\ j \in DOMAIN found[c]
      BY <1>2 DEF MachinesCollected, AskingMachines
    <2>3. QED
      BY <1>1, <1>2, <1>3, <1>11, <2>1, <2>2 DEF MachinesCollected, AskingMachines, GoodMachine
  <1>16. MachinesAsked(c)'
    <2> HIDE DEF answer
    <2>1. answer.ID = m /\ answer.Pool = PoolOf[m] /\ answer.RunnerState = state
      BY DEF answer
    <2> HIDE DEF m
    <2>2. GoodMachine(c, found[c][i], draft[c][i])'
      BY <1>3, <1>9, <1>10, <2>1 DEF GoodMachine, m
    <2>3. ASSUME NEW j \in DOMAIN found[c], GoodMachine(c, found[c][j], draft[c][j])
          PROVE  GoodMachine(c, found[c][j], draft[c][j])'
      <3>1. CASE j = i
        BY <2>2, <3>1
      <3>2. CASE j # i
        BY <1>3, <1>9, <1>11, <2>3, <3>2 DEF GoodMachine
      <3>3. QED  BY <3>1, <3>2
    <2>4. \A j \in DOMAIN found[c] :
              \/ draft'[c][j] = [ID |-> found[c][j], Pool |-> PoolOf[found[c][j]]]
              \/ GoodMachine(c, found[c][j], draft[c][j])'
      BY <1>2, <1>9, <2>2, <2>3 DEF MachinesAsked
    <2>5. ASSUME NEW k \in DOMAIN arrived'[c], NEW j, j = arrived'[c][k]
          PROVE  GoodMachine(c, found[c][j], draft[c][j])'
      <3>1. CASE j = i
        BY <2>2, <3>1
      <3>2. CASE k \in DOMAIN arrived[c] /\ j = arrived[c][k]
        <4>1. GoodMachine(c, found[c][j], draft[c][j]) /\ j \in DOMAIN found[c]
          BY <1>2, <1>12, <3>2 DEF MachinesAsked
        <4>2. QED  BY <2>3, <4>1
      <3>3. QED  BY <1>12, <2>5, <3>1, <3>2
    <2>6. \A k \in DOMAIN arrived'[c] : GoodMachine(c, found[c][arrived[c][k]], draft[c][arrived[c][k]])'
      BY <2>5
    <2>7. QED
      BY <1>3, <1>9, <2>4, <2>6 DEF MachinesAsked
  <1>17. ClientTypes(c)'
    <2>1. /\ todo[c] \in Seq(Pool) /\ found[c] \in Seq(Machine)
          /\ DOMAIN found[c] = 1 .. Len(found[c])
      BY DEF ApiInv, Shape, TypeOK
    <2>2. QED  BY <1>3, <1>12, <2>1, StillTyped DEF Ask
  <1>18. QED  BY <1>13, <1>14, <1>15, <1>16, <1>17 DEF HandlerInv

\* A result goes to the place of its machine.
LEMMA ResultCollected ==
    ASSUME ApiInv, NEW c \in Client, Collect(c), cmd' = cmd, seen[c] \subseteq seen'[c]
    PROVE  HandlerInv(c)' /\ ClientTypes(c)'
  <1> DEFINE i == Head(arrived[c])
  <1>1. Req(c)' = Req(c)
    BY DEF Req
  <1>2. /\ at[c] = "ask" /\ MachinesCollected(c) /\ MachinesAsked(c) /\ out[c] # "none"
        /\ arrived[c] \in Seq(DOMAIN found[c]) /\ arrived[c] # <<>>
    BY DEF Collect, ApiInv, HandlerInv, StartsEmpty, Shape, TypeOK
  <1>3. i \in DOMAIN found[c] /\ GoodMachine(c, found[c][i], draft[c][i])
    <2>1. 1 \in DOMAIN arrived[c] /\ i = arrived[c][1] /\ i \in DOMAIN found[c]
      BY <1>2
    <2>2. QED  BY <1>2, <2>1 DEF MachinesAsked
  <1>4. /\ todo'[c] = todo[c] /\ found'[c] = found[c] /\ draft'[c] = draft[c] /\ out'[c] # "none"
        /\ protos'[c] = With(protos[c], i, draft[c][i]) /\ arrived'[c] = Tail(arrived[c])
        /\ at'[c] = IF DOMAIN protos'[c] = DOMAIN found[c] THEN "reply" ELSE "ask"
    BY <1>2 DEF Collect, clientVars, ApiInv, Shape, TypeOK
  <1>5. StartsEmpty(c)'
    BY <1>1, <1>2, <1>4 DEF StartsEmpty, MachinesCollected, AskingMachines
  <1>6. PoolsRead(c)' /\ ViewFilled(c)' /\ PoolsListed(c)'
    BY <1>1, <1>2, <1>4 DEF PoolsRead, ReadingPools, ViewFilled, PoolsListed, Field,
       MachinesCollected, AskingMachines, PoolCalls, MachineCalls
  <1>7. MachinesCollected(c)'
    <2>1. RightMachines(c, found[c])'
      BY <1>1, <1>2, <1>4 DEF MachinesCollected, AskingMachines, RightMachines, Ever, Always
    <2>2. /\ DOMAIN protos'[c] = DOMAIN protos[c] \cup {i}
          /\ protos'[c] = [j \in DOMAIN protos'[c] |-> protos'[c][j]]
          /\ protos'[c][i] = draft[c][i]
          /\ \A j \in DOMAIN protos[c] : j # i => protos'[c][j] = protos[c][j]
      BY <1>4 DEF With
    <2> HIDE DEF i
    <2>3. \A j \in DOMAIN protos'[c] : GoodMachine(c, found[c][j], protos'[c][j])
      BY <1>2, <1>3, <2>2 DEF MachinesCollected, AskingMachines
    <2>4. \A j \in DOMAIN protos'[c] : GoodMachine(c, found[c][j], protos[c][j])'
      BY <1>4, <2>3 DEF GoodMachine
    <2>5. Req(c).rpc \in MachineCalls /\ todo[c] = <<>> /\ DOMAIN protos[c] \subseteq DOMAIN found[c]
      BY <1>2 DEF MachinesCollected, AskingMachines
    <2>6. QED
      BY <1>1, <1>3, <1>4, <2>1, <2>2, <2>4, <2>5 DEF MachinesCollected
  <1>8. MachinesAsked(c)'
    <2>1. \A k \in DOMAIN arrived'[c] : k + 1 \in DOMAIN arrived[c] /\ arrived'[c][k] = arrived[c][k + 1]
      BY <1>2, <1>4
    <2>2. \A k \in DOMAIN arrived'[c] : GoodMachine(c, found[c][arrived'[c][k]], draft[c][arrived'[c][k]])
      BY <1>2, <2>1 DEF MachinesAsked
    <2>3. \A m, d : GoodMachine(c, m, d) =>
              /\ d \in MachineMessage /\ d.ID = m /\ d.Pool = PoolOf[m]
              /\ d.RunnerState = "Unknown" \/ <<"RunnerState", m, d.RunnerState>> \in seen'[c]
      BY DEF GoodMachine
    <2>4. /\ draft[c] = [j \in DOMAIN found[c] |-> draft[c][j]]
          /\ \A j \in DOMAIN found[c] :
                 \/ draft[c][j] = [ID |-> found[c][j], Pool |-> PoolOf[found[c][j]]]
                 \/ GoodMachine(c, found[c][j], draft[c][j])
      BY <1>2 DEF MachinesAsked
    <2>5. \A j \in DOMAIN found[c] :
              \/ draft[c][j] = [ID |-> found[c][j], Pool |-> PoolOf[found[c][j]]]
              \/ GoodMachine(c, found[c][j], draft[c][j])'
      <3>1. SUFFICES ASSUME NEW j \in DOMAIN found[c], GoodMachine(c, found[c][j], draft[c][j])
                     PROVE  GoodMachine(c, found[c][j], draft[c][j])'
        BY <2>4
      <3>2. /\ draft[c][j] \in MachineMessage /\ draft[c][j].ID = found[c][j]
            /\ draft[c][j].Pool = PoolOf[found[c][j]]
            /\ draft[c][j].RunnerState = "Unknown"
               \/ <<"RunnerState", found[c][j], draft[c][j].RunnerState>> \in seen'[c]
        BY <2>3, <3>1
      <3>3. QED  BY <1>4, <3>2 DEF GoodMachine
    <2>6. \A k \in DOMAIN arrived'[c] : GoodMachine(c, found[c][arrived[c][k]], draft[c][arrived[c][k]])'
      <3>1. ASSUME NEW k \in DOMAIN arrived'[c], NEW j, j = arrived'[c][k]
            PROVE  GoodMachine(c, found[c][j], draft[c][j])'
        <4>1. GoodMachine(c, found[c][j], draft[c][j])
          BY <2>2, <3>1
        <4>2. QED  BY <1>4, <2>3, <4>1 DEF GoodMachine
      <3>2. QED  BY <3>1
    <2>7. QED
      BY <1>4, <2>4, <2>5, <2>6 DEF MachinesAsked
  <1>9. ClientTypes(c)'
    <2>1. /\ todo[c] \in Seq(Pool) /\ found[c] \in Seq(Machine)
          /\ DOMAIN found[c] = 1 .. Len(found[c])
      BY DEF ApiInv, Shape, TypeOK
    <2>2. arrived'[c] \in Seq(DOMAIN found[c])
      BY <1>2, <1>4, HeadTailProperties
    <2>3. QED  BY <1>4, <2>1, <2>2, StillTyped DEF Collect
  <1>10. QED  BY <1>5, <1>6, <1>7, <1>8, <1>9 DEF HandlerInv

-----------------------------------------------------------------------------
(* The invariant is one *)

LEMMA HandlersKept ==
    ASSUME ApiInv, Next, NEW d \in Client
    PROVE  HandlerInv(d)'
  <1>1. cmd' = cmd /\ seen[d] \subseteq seen'[d]
    BY Observed
  <1>2. HandlerInv(d) /\ Shape
    BY DEF ApiInv
  <1>3. CASE \E m \in Machine : MachineStarts(m) \/ MachineGone(m) \/ AgentEnds(m) \/ AgentMovesOn(m)
    <2>1. UNCHANGED Local(d) /\ out' = out
      BY <1>3 DEF MachineStarts, MachineGone, AgentEnds, AgentMovesOn, Local, localVars, clientVars
    <2>2. QED  BY <1>1, <1>2, <2>1, Unmoved
  <1>4. ASSUME NEW c \in Client, Begin(c) \/ Lost(c) \/ HandlerStep(c)
        PROVE  HandlerInv(d)'
    <2>1. CASE c # d
      <3>1. UNCHANGED Local(d) /\ out'[d] = out[d]
        BY <1>2, <1>4, <2>1, OneMoves
      <3>2. QED  BY <1>1, <1>2, <3>1, Unmoved
    <2>2. CASE c = d
      <3>1. CASE Begin(d)
        BY <1>1, <3>1, Begun
      <3>2. CASE Lost(d)
        <4>1. UNCHANGED Local(d) /\ out'[d] # "none"
          BY <1>2, <3>2 DEF Lost, Local, localVars, Shape, TypeOK
        <4>2. QED  BY <1>1, <1>2, <4>1, Unmoved
      <3>3. CASE NotFound(d) \/ ScalePool(d) \/ SetStatus(d) \/ Reply(d)
        <4>1. at[d] # "none"
          BY <3>3 DEF NotFound, ScalePool, SetStatus, Reply
        <4>2. \E result \in {"ok", "error"} : \E response : Return(d, result, response)
          BY <3>3 DEF NotFound, ScalePool, SetStatus, Reply
        <4>3. QED  BY <4>1, <4>2, Returned
      <3>4. CASE SetActive(d)
        BY <1>1, <3>4, ActiveSet
      <3>5. CASE FindPools(d)
        BY <1>1, <3>5, PoolsFound
      <3>6. CASE ReadField(d)
        BY <3>6, FieldRead
      <3>7. CASE ListMachines(d)
        BY <1>1, <3>7, PoolsToList
      <3>8. CASE ListPool(d)
        BY <3>8, PoolListed
      <3>9. CASE GetMachine(d)
        BY <1>1, <3>9, MachineFound
      <3>10. CASE Collect(d)
        BY <1>1, <3>10, ResultCollected
      <3>11. CASE \E i \in DOMAIN found[d] : Ask(d, i)
        BY <3>11, MachineAsked
      <3>12. QED
        BY <1>4, <2>2, <3>1, <3>2, <3>3, <3>4, <3>5, <3>6, <3>7, <3>8, <3>9, <3>10, <3>11
           DEF HandlerStep
    <2>3. QED  BY <2>1, <2>2
  <1>5. QED  BY <1>3, <1>4 DEF Next

\* Only the handlers that pause or resume a pool are ever at its gauge.
LEMMA SettersStay ==
    ASSUME ApiInv, Next,
           ~ \E c \in Client : SetActive(c) \/ SetStatus(c)
    PROVE  /\ isActive' = isActive /\ status' = status /\ overlapped' = overlapped
           /\ \A p : Setting(p)' = Setting(p)
  <1>1. isActive' = isActive /\ status' = status /\ overlapped' = overlapped
    BY DEF Next, HandlerStep, Begin, Lost, NotFound, ScalePool, FindPools, ReadField, ListMachines,
       ListPool, GetMachine, Ask, Collect, Reply, MachineStarts, MachineGone, AgentEnds, AgentMovesOn,
       poolVars, machineVars
  <1>2. \A c \in Client : Req(c)' = Req(c)
    BY CommandsStay
  <1>3. ASSUME NEW d \in Client
        PROVE  at'[d] = "gauge" <=> at[d] = "gauge"
    <2>1. CASE \E m \in Machine : MachineStarts(m) \/ MachineGone(m) \/ AgentEnds(m) \/ AgentMovesOn(m)
      BY <2>1 DEF MachineStarts, MachineGone, AgentEnds, AgentMovesOn
    <2>2. ASSUME NEW c \in Client, Begin(c) \/ Lost(c) \/ HandlerStep(c)
          PROVE  at'[d] = "gauge" <=> at[d] = "gauge"
      <3>1. CASE c # d
        BY <2>2, <3>1, OneMoves DEF ApiInv, Local
      <3>2. CASE c = d
        <4>1. at \in [Client -> {"none", "find", "gauge", "list", "ask", "reply", "done"} \cup Field]
          BY DEF ApiInv, Shape, TypeOK
        <4>2. CASE Begin(d) \/ Lost(d)
          BY <4>1, <4>2 DEF Begin, Lost, ApiInv, HandlerInv, StartsEmpty
        <4>3. CASE NotFound(d) \/ ScalePool(d) \/ Reply(d)
          BY <4>1, <4>3 DEF NotFound, ScalePool, Reply, Return
        <4>4. CASE FindPools(d) \/ ListMachines(d)
          BY <4>1, <4>4 DEF FindPools, ListMachines
        <4>5. CASE ReadField(d)
          BY <4>1, <4>5 DEF ReadField, Field, FieldAfter
        <4>6. CASE ListPool(d) \/ GetMachine(d)
          BY <4>1, <4>6 DEF ListPool, GetMachine, ToAsk
        <4>7. CASE Collect(d)
          BY <4>1, <4>7 DEF Collect
        <4>8. CASE \E i \in DOMAIN found[d] : Ask(d, i)
          BY <4>8 DEF Ask
        <4>9. QED
          BY <2>2, <3>2, <4>2, <4>3, <4>4, <4>5, <4>6, <4>7, <4>8 DEF HandlerStep
      <3>3. QED  BY <3>1, <3>2
    <2>3. QED  BY <2>1, <2>2 DEF Next
  <1>4. \A p : Setting(p)' = Setting(p)
    BY <1>2, <1>3 DEF Setting
  <1>5. QED  BY <1>1, <1>4

LEMMA GaugeKept ==
    ASSUME ApiInv, Next
    PROVE  GaugeInv'
  <1>1. \A c \in Client : Req(c)' = Req(c)
    BY CommandsStay
  <1>2. GaugeInv /\ Shape
    BY DEF ApiInv
  <1>3. CASE ~ \E c \in Client : SetActive(c) \/ SetStatus(c)
    <2>1. /\ isActive' = isActive /\ status' = status /\ overlapped' = overlapped
          /\ \A p \in Pool : Setting(p)' = Setting(p) /\ Setting(p) \subseteq Client
      BY <1>3, SettersStay DEF Setting
    <2>2. QED  BY <1>1, <1>2, <2>1 DEF GaugeInv, GaugeAgreesOn
  <1>4. ASSUME NEW c \in Client, SetActive(c)
        PROVE  GaugeInv'
    <2>0. PICK p : p = Req(c).Name
      OBVIOUS
    <2>1. /\ at[c] = "find" /\ p \in Pool /\ at' = [at EXCEPT ![c] = "gauge"]
          /\ isActive' = [isActive EXCEPT ![p] = Req(c).rpc = "ResumePool"]
          /\ overlapped' = IF Setting(p) = {} THEN overlapped \ {p} ELSE overlapped \cup {p}
          /\ status' = status
      BY <2>0, <1>4 DEF SetActive, Named
    <2>2. \A q \in Pool \ {p} : Setting(q)' = Setting(q) /\ isActive'[q] = isActive[q]
      BY <1>1, <1>2, <2>0, <2>1 DEF Setting, Shape, TypeOK
    <2>3. Setting(p)' = Setting(p) \cup {c} /\ (isActive'[p] <=> Req(c).rpc = "ResumePool")
      <3>1. /\ at \in [Client -> {"none", "find", "gauge", "list", "ask", "reply", "done"} \cup Field]
            /\ isActive \in [Pool -> BOOLEAN]
        BY <1>2 DEF Shape, TypeOK
      <3>2. at'[c] = "gauge" /\ \A d \in Client : d # c => at'[d] = at[d]
        BY <2>1, <3>1
      <3>3. Setting(p)' = Setting(p) \cup {c}
        BY <1>1, <2>0, <3>2 DEF Setting
      <3>4. isActive'[p] <=> Req(c).rpc = "ResumePool"
        BY <2>1, <3>1
      <3>5. QED  BY <3>3, <3>4
    <2>4. \A q \in Pool \ {p} : q \in overlapped' <=> q \in overlapped
      BY <2>1
    <2>5. p \notin overlapped' => Setting(p) = {}
      BY <2>1
    <2>6. \A q \in Pool : Setting(q) \subseteq Client
      BY DEF Setting
    <2>7. SUFFICES ASSUME NEW q \in Pool \ overlapped'
                   PROVE  /\ \A d, e \in Setting(q)' : d = e
                          /\ \A d \in Setting(q)' : (isActive'[q] <=> Req(d).rpc = "ResumePool")
                          /\ Setting(q)' = {} => (status'[q] = IF isActive'[q] THEN 1 ELSE 0)
      <3> QED  BY <1>1, <2>2, <2>3, <2>6 DEF GaugeInv, GaugeAgreesOn
    <2>8. CASE q = p
      <3>1. Setting(q)' = {c} /\ (isActive'[q] <=> Req(c).rpc = "ResumePool")
        BY <2>3, <2>5, <2>7, <2>8
      <3>2. QED  BY <3>1
    <2>9. CASE q # p
      BY <1>2, <2>1, <2>2, <2>4, <2>7, <2>9 DEF GaugeInv, GaugeAgreesOn
    <2>10. QED  BY <2>8, <2>9
  <1>5. ASSUME NEW c \in Client, SetStatus(c)
        PROVE  GaugeInv'
    <2> DEFINE p == Req(c).Name
    <2>1. /\ at[c] = "gauge" /\ at' = [at EXCEPT ![c] = "done"]
          /\ status' = [status EXCEPT ![p] = IF Req(c).rpc = "ResumePool" THEN 1 ELSE 0]
          /\ isActive' = isActive /\ overlapped' = overlapped
      BY <1>5 DEF SetStatus, Return
    <2>2. p \in Pool /\ c \in Setting(p)
      BY <2>1 DEF ApiInv, HandlerInv, StartsEmpty, Named, Setting
    <2>3. \A q \in Pool : Setting(q)' = Setting(q) \ {c}
      BY <1>1, <1>2, <2>1 DEF Setting, Shape, TypeOK
    <2>4. \A q \in Pool \ {p} : c \notin Setting(q) /\ status'[q] = status[q]
      BY <1>2, <2>1 DEF Setting, Shape, TypeOK
    <2>5. status'[p] = IF Req(c).rpc = "ResumePool" THEN 1 ELSE 0
      BY <1>2, <2>1, <2>2 DEF Shape, TypeOK
    <2>6. \A q \in Pool : Setting(q) \subseteq Client
      BY DEF Setting
    <2>7. SUFFICES ASSUME NEW q \in Pool \ overlapped
                   PROVE  /\ \A d, e \in Setting(q) \ {c} : d = e
                          /\ \A d \in Setting(q) \ {c} : (isActive[q] <=> Req(d).rpc = "ResumePool")
                          /\ Setting(q) \ {c} = {} => (status'[q] = IF isActive[q] THEN 1 ELSE 0)
      <3> HIDE DEF p
      <3> QED  BY <1>1, <2>1, <2>3, <2>6 DEF GaugeInv, GaugeAgreesOn
    <2>8. CASE q = p
      <3> HIDE DEF p
      <3>1. (isActive[q] <=> Req(c).rpc = "ResumePool")
        BY <1>2, <2>2, <2>7, <2>8 DEF GaugeInv
      <3>2. Setting(q) \ {c} = {}
        BY <1>2, <2>2, <2>7, <2>8 DEF GaugeInv
      <3>3. status'[q] = IF isActive[q] THEN 1 ELSE 0
        BY <2>5, <2>8, <3>1
      <3>4. QED  BY <3>2, <3>3
    <2>9. CASE q # p
      <3> HIDE DEF p
      <3>1. Setting(q) \ {c} = Setting(q) /\ status'[q] = status[q]
        BY <2>4, <2>7, <2>9
      <3>2. QED  BY <1>2, <2>7, <3>1 DEF GaugeInv, GaugeAgreesOn
    <2>10. QED  BY <2>8, <2>9
  <1>6. QED  BY <1>3, <1>4, <1>5

-----------------------------------------------------------------------------
(* What is answered *)

LEMMA PoolsAnswered ==
    ASSUME ApiInv, NEW c \in Client, at[c] = "reply", Req(c).rpc \in PoolCalls
    PROVE  /\ protos[c] \in Seq(PoolMessage)
           /\ \A i \in DOMAIN protos[c] : Fresh(c, protos[c][i])
           /\ Req(c).rpc = "ListPools" =>
                  /\ {protos[c][i].Name : i \in DOMAIN protos[c]} = Pool
                  /\ \A i, j \in DOMAIN protos[c] : i < j => protos[c][i].Name < protos[c][j].Name
           /\ Req(c).rpc = "GetPool" => 1 \in DOMAIN protos[c] /\ protos[c][1].Name = Req(c).Name
  <1>1. /\ protos[c] \in Seq(PoolMessage) /\ todo[c] = <<>>
        /\ \A i \in DOMAIN protos[c] : Fresh(c, protos[c][i])
        /\ RightPools(Req(c), Walked(c))
    BY DEF ApiInv, HandlerInv, PoolsRead, ReadingPools
  <1>2. Walked(c) = [i \in DOMAIN protos[c] |-> protos[c][i].Name]
    BY <1>1 DEF Walked
  <1>3. CASE Req(c).rpc = "ListPools"
    <2>1. /\ ToSet(Walked(c)) = Pool
          /\ \A i, j \in DOMAIN Walked(c) : i < j => Walked(c)[i] < Walked(c)[j]
      BY <1>1, <1>3 DEF RightPools
    <2>2. DOMAIN Walked(c) = DOMAIN protos[c] /\ \A i \in DOMAIN protos[c] : Walked(c)[i] = protos[c][i].Name
      BY <1>2
    <2>3. {protos[c][i].Name : i \in DOMAIN protos[c]} = ToSet(Walked(c))
      BY <2>2 DEF ToSet
    <2>4. QED  BY <1>1, <1>3, <2>1, <2>2, <2>3
  <1>4. CASE Req(c).rpc = "GetPool"
    <2>1. DOMAIN Walked(c) = {1} /\ Walked(c)[1] = Req(c).Name
      BY <1>1, <1>4 DEF RightPools
    <2>2. DOMAIN protos[c] = {1}
      BY <1>2, <2>1
    <2>3. QED  BY <1>1, <1>2, <1>4, <2>1, <2>2
  <1>5. QED  BY <1>3, <1>4 DEF PoolCalls

LEMMA MachinesAnswered ==
    ASSUME ApiInv, NEW c \in Client, at[c] = "reply", Req(c).rpc \in MachineCalls
    PROVE  /\ protos[c] \in Seq(MachineMessage)
           /\ \A i \in DOMAIN protos[c] : GoodMachine(c, protos[c][i].ID, protos[c][i])
           /\ Req(c).rpc = "ListMachines" =>
                  RightMachines(c, [i \in DOMAIN protos[c] |-> protos[c][i].ID])
           /\ Req(c).rpc = "GetMachine" => 1 \in DOMAIN protos[c]
  <1>1. /\ protos[c] = [i \in DOMAIN found[c] |-> protos[c][i]]
        /\ DOMAIN protos[c] = DOMAIN found[c]
        /\ RightMachines(c, found[c])
        /\ \A i \in DOMAIN found[c] : GoodMachine(c, found[c][i], protos[c][i])
    <2>1. MachinesCollected(c) /\ AskingMachines(c)
      BY DEF ApiInv, HandlerInv, AskingMachines
    <2>2. QED  BY <2>1 DEF MachinesCollected
  <1>2. found[c] \in Seq(Machine)
    BY DEF ApiInv, Shape, TypeOK
  <1>3. \A i \in DOMAIN found[c] : protos[c][i] \in MachineMessage /\ protos[c][i].ID = found[c][i]
    BY <1>1 DEF GoodMachine
  <1>4. protos[c] \in Seq(MachineMessage)
    <2>1. DOMAIN found[c] = 1 .. Len(found[c]) /\ Len(found[c]) \in Nat
      BY <1>2
    <2>2. protos[c] \in [1 .. Len(found[c]) -> MachineMessage]
      BY <1>1, <1>3, <2>1
    <2>3. QED  BY <2>1, <2>2
  <1>5. [i \in DOMAIN protos[c] |-> protos[c][i].ID] = found[c]
    <2>1. found[c] = [i \in DOMAIN found[c] |-> found[c][i]]
      BY <1>2
    <2>2. QED  BY <1>1, <1>3, <2>1
  <1>6. \A i \in DOMAIN protos[c] : GoodMachine(c, protos[c][i].ID, protos[c][i])
    BY <1>1, <1>3
  <1>7. Req(c).rpc = "GetMachine" => 1 \in DOMAIN protos[c]
    BY <1>1 DEF RightMachines
  <1>8. QED  BY <1>1, <1>4, <1>5, <1>6, <1>7

\* What the last step of a handler answers is a response.
LEMMA Responses ==
    ASSUME ApiInv, NEW c \in Client, Reply(c)
    PROVE  \E response \in Response : Return(c, "ok", response)
  <1>1. at[c] = "reply" /\ Req(c).rpc \in PoolCalls \cup MachineCalls
    BY DEF Reply, ApiInv, HandlerInv, StartsEmpty
  <1>2. CASE Req(c).rpc = "ListPools"
    <2>1. Return(c, "ok", [Pools |-> protos[c]])
      BY <1>2 DEF Reply, Answer
    <2>2. [Pools |-> protos[c]] \in Response
      BY <1>1, <1>2, PoolsAnswered DEF PoolCalls, Response, ListPoolsResponse
    <2>3. QED  BY <2>1, <2>2
  <1>3. CASE Req(c).rpc = "GetPool"
    <2>1. Return(c, "ok", [Pool |-> protos[c][1]])
      BY <1>3 DEF Reply, Answer
    <2>2. protos[c][1] \in PoolMessage
      BY <1>1, <1>3, PoolsAnswered DEF PoolCalls
    <2>3. [Pool |-> protos[c][1]] \in Response
      BY <2>2 DEF Response, GetPoolResponse
    <2>4. QED  BY <2>1, <2>3
  <1>4. CASE Req(c).rpc = "ListMachines"
    <2>1. Return(c, "ok", [Machines |-> protos[c]])
      BY <1>4 DEF Reply, Answer
    <2>2. [Machines |-> protos[c]] \in Response
      BY <1>1, <1>4, MachinesAnswered DEF MachineCalls, Response, ListMachinesResponse
    <2>3. QED  BY <2>1, <2>2
  <1>5. CASE Req(c).rpc = "GetMachine"
    <2>1. Return(c, "ok", [Machine |-> protos[c][1]])
      BY <1>5 DEF Reply, Answer
    <2>2. protos[c][1] \in MachineMessage
      <3>1. protos[c] \in Seq(MachineMessage) /\ 1 \in DOMAIN protos[c]
        BY <1>1, <1>5, MachinesAnswered DEF MachineCalls
      <3>2. QED  BY <3>1
    <2>3. [Machine |-> protos[c][1]] \in Response
      BY <2>2 DEF Response, GetMachineResponse
    <2>4. QED  BY <2>1, <2>3
  <1>6. QED  BY <1>1, <1>2, <1>3, <1>4, <1>5 DEF PoolCalls, MachineCalls

-----------------------------------------------------------------------------
(* The types are kept *)

ServerTypes ==
    /\ replicas \in [Pool -> Int32] /\ isActive \in [Pool -> BOOLEAN]
    /\ status \in [Pool -> {0, 1}] /\ overlapped \subseteq Pool
    /\ life \in [Machine -> {"new", "listed", "gone"}]
    /\ agent \in [Machine -> RunnerState \cup NoAnswer]
    /\ changed \in 0 .. Changes

LEMMA ServerTypesKept ==
    ASSUME ApiInv, Next
    PROVE  ServerTypes'
  <1>1. ServerTypes
    BY DEF ApiInv, Shape, TypeOK, ServerTypes
  <1>2. ASSUME NEW m \in Machine, MachineStarts(m) \/ MachineGone(m) \/ AgentEnds(m) \/ AgentMovesOn(m)
        PROVE  ServerTypes'
    <2>1. /\ UNCHANGED poolVars /\ changed' = changed + 1 /\ changed < Changes
      BY <1>2 DEF MachineStarts, MachineGone, AgentEnds, AgentMovesOn, Changing
    <2>2. changed' \in 0 .. Changes
      BY <1>1, <2>1, PoolsAssumption DEF ServerTypes
    <2>3. life' \in [Machine -> {"new", "listed", "gone"}]
      BY <1>1, <1>2 DEF ServerTypes, MachineStarts, MachineGone, AgentEnds, AgentMovesOn
    <2>4. agent' \in [Machine -> RunnerState \cup NoAnswer]
      <3>1. \A state \in DOMAIN StateAfter : StateAfter[state] \in RunnerState
        BY DEF StateAfter, RunnerState
      <3>2. QED  BY <1>1, <1>2, <3>1 DEF ServerTypes, MachineStarts, MachineGone, AgentEnds, AgentMovesOn
    <2>5. QED  BY <1>1, <2>1, <2>2, <2>3, <2>4 DEF ServerTypes, poolVars
  <1>3. ASSUME NEW c \in Client, Begin(c) \/ Lost(c) \/ HandlerStep(c)
        PROVE  ServerTypes'
    <2>1. life' = life /\ agent' = agent /\ changed' = changed
      BY <1>3 DEF Begin, Lost, HandlerStep, NotFound, ScalePool, SetActive, SetStatus, FindPools,
         ReadField, ListMachines, ListPool, GetMachine, Ask, Collect, Reply, machineVars
    <2>2. CASE ScalePool(c)
      <3>1. Req(c).Replicas \in Int32
        BY <2>2, Requests, RequestFields DEF ScalePool, ApiInv, Shape, TypeOK
      <3>2. QED  BY <1>1, <2>1, <2>2, <3>1 DEF ServerTypes, ScalePool
    <2>3. CASE SetActive(c)
      <3>1. Req(c).Name \in Pool /\ (Req(c).rpc = "ResumePool") \in BOOLEAN
        BY <2>3 DEF SetActive, Named
      <3>2. isActive' \in [Pool -> BOOLEAN]
        BY <1>1, <2>3, <3>1 DEF ServerTypes, SetActive
      <3>3. overlapped' \subseteq Pool
        BY <1>1, <2>3, <3>1 DEF ServerTypes, SetActive
      <3>4. QED  BY <1>1, <2>1, <2>3, <3>2, <3>3 DEF ServerTypes, SetActive
    <2>4. CASE SetStatus(c)
      BY <1>1, <2>1, <2>4 DEF ServerTypes, SetStatus
    <2>5. CASE ~(ScalePool(c) \/ SetActive(c) \/ SetStatus(c))
      <3>1. UNCHANGED <<replicas, isActive, status, overlapped>>
        BY <1>3, <2>5 DEF Begin, Lost, HandlerStep, NotFound, FindPools, ReadField,
           ListMachines, ListPool, GetMachine, Ask, Collect, Reply, poolVars
      <3>2. QED  BY <1>1, <2>1, <3>1 DEF ServerTypes
    <2>6. QED  BY <2>2, <2>3, <2>4, <2>5
  <1>4. QED  BY <1>2, <1>3 DEF Next

LEMMA ClientTypesKept ==
    ASSUME ApiInv, Next, NEW d \in Client
    PROVE  ClientTypes(d)'
  <1>1. \A c \in Client : ClientTypes(c)
    BY DEF ApiInv, Shape, TypeOK, ClientTypes
  <1>2. Shape
    BY DEF ApiInv
  <1>3. ASSUME UNCHANGED <<Local(d), out[d], reply[d]>>
        PROVE  ClientTypes(d)'
    <2>1. /\ out'[d] = out[d] /\ reply'[d] = reply[d] /\ at'[d] = at[d]
          /\ todo'[d] = todo[d] /\ found'[d] = found[d] /\ arrived'[d] = arrived[d]
      BY <1>3 DEF Local
    <2>2. QED  BY <1>1, <2>1 DEF ClientTypes
  <1>4. CASE \E m \in Machine : MachineStarts(m) \/ MachineGone(m) \/ AgentEnds(m) \/ AgentMovesOn(m)
    BY <1>3, <1>4 DEF MachineStarts, MachineGone, AgentEnds, AgentMovesOn, Local, localVars, clientVars
  <1>5. ASSUME NEW c \in Client, Begin(c) \/ Lost(c) \/ HandlerStep(c)
        PROVE  ClientTypes(d)'
    <2>1. CASE c # d
      BY <1>2, <1>3, <1>5, <2>1, OneMoves
    <2>2. CASE c = d
      <3>1. CASE Begin(d) \/ Lost(d)
        BY <1>1, <1>2, <3>1 DEF Begin, Lost, ClientTypes, Shape, TypeOK, localVars
      <3>2. ASSUME NEW result \in {"ok", "error"}, NEW response \in Response \cup {NoReply},
                   Return(d, result, response)
            PROVE  ClientTypes(d)'
        BY <1>1, <1>2, <3>2 DEF Return, ClientTypes, Shape, TypeOK
      <3>3. CASE NotFound(d)
        BY <3>2, <3>3 DEF NotFound
      <3>4. CASE ScalePool(d)
        <4>1. [scaled |-> TRUE] \in Response
          BY DEF Response, ScalePoolResponse
        <4>2. QED  BY <3>2, <3>4, <4>1 DEF ScalePool
      <3>5. CASE SetStatus(d)
        <4>1. [resumed |-> TRUE] \in Response /\ [paused |-> TRUE] \in Response
          BY DEF Response, ResumePoolResponse, PausePoolResponse
        <4>2. QED  BY <3>2, <3>5, <4>1 DEF SetStatus
      <3>6. CASE Reply(d)
        BY <3>2, <3>6, Responses
      <3>7. CASE SetActive(d)
        BY <1>1, <1>2, <3>7 DEF SetActive, ClientTypes, Shape, TypeOK, clientVars, localVars
      <3>8. CASE FindPools(d) \/ ReadField(d) \/ ListMachines(d)
        BY <3>8, CommandsStay, PoolsFound, FieldRead, PoolsToList
      <3>9. CASE ListPool(d) \/ GetMachine(d)
        BY <3>9, CommandsStay, PoolListed, MachineFound
      <3>10. CASE Collect(d)
        BY <3>10, Observed, ResultCollected
      <3>11. CASE \E i \in DOMAIN found[d] : Ask(d, i)
        BY <3>11, MachineAsked
      <3>12. QED
        BY <1>5, <2>2, <3>1, <3>3, <3>4, <3>5, <3>6, <3>7, <3>8, <3>9, <3>10, <3>11
           DEF HandlerStep
    <2>3. QED  BY <2>1, <2>2
  <1>6. QED  BY <1>4, <1>5 DEF Next

\* Every variable of the clients is a function of them.
OfClients ==
    /\ out = [c \in Client |-> out[c]] /\ at = [c \in Client |-> at[c]]
    /\ todo = [c \in Client |-> todo[c]] /\ found = [c \in Client |-> found[c]]
    /\ reply = [c \in Client |-> reply[c]] /\ arrived = [c \in Client |-> arrived[c]]
    /\ draft = [c \in Client |-> draft[c]] /\ protos = [c \in Client |-> protos[c]]

LEMMA OfClientsKept ==
    ASSUME Shape, Next
    PROVE  OfClients'
  <1>1. OfClients
    BY DEF OfClients, Shape, TypeOK
  <1>2. CASE \E m \in Machine : MachineStarts(m) \/ MachineGone(m) \/ AgentEnds(m) \/ AgentMovesOn(m)
    BY <1>1, <1>2 DEF OfClients, MachineStarts, MachineGone, AgentEnds, AgentMovesOn, localVars, clientVars
  <1>3. ASSUME NEW c \in Client, Begin(c) \/ Lost(c) \/ HandlerStep(c)
        PROVE  OfClients'
    <2>1. CASE Begin(c) \/ Lost(c)
      BY <1>1, <2>1 DEF OfClients, Begin, Lost, localVars
    <2>2. ASSUME NEW result, NEW response, Return(c, result, response)
          PROVE  OfClients'
      BY <1>1, <2>2 DEF OfClients, Return
    <2>3. CASE NotFound(c) \/ ScalePool(c) \/ SetStatus(c) \/ Reply(c)
      BY <2>2, <2>3 DEF NotFound, ScalePool, SetStatus, Reply
    <2>4. CASE SetActive(c) \/ FindPools(c) \/ ListMachines(c)
      BY <1>1, <2>4 DEF OfClients, SetActive, FindPools, ListMachines, localVars, clientVars
    <2>5. CASE ReadField(c)
      BY <1>1, <2>5 DEF OfClients, ReadField, clientVars
    <2>6. CASE ListPool(c) \/ GetMachine(c)
      BY <1>1, <2>6 DEF OfClients, ListPool, GetMachine, ToAsk, clientVars
    <2>7. CASE Collect(c)
      BY <1>1, <2>7 DEF OfClients, Collect, clientVars
    <2>8. CASE \E i \in DOMAIN found[c] : Ask(c, i)
      BY <1>1, <2>8 DEF OfClients, Ask, clientVars
    <2>9. QED  BY <1>3, <2>1, <2>3, <2>4, <2>5, <2>6, <2>7, <2>8 DEF HandlerStep
  <1>4. QED  BY <1>2, <1>3 DEF Next

LEMMA ShapeKept ==
    ASSUME ApiInv, Next
    PROVE  Shape'
  <1>1. Shape
    BY DEF ApiInv
  <1>2. ServerTypes' /\ \A c \in Client : ClientTypes(c)'
    BY ServerTypesKept, ClientTypesKept
  <1>3. cmd' \in Plans
    BY <1>1, CommandsStay DEF Shape, TypeOK
  <1>4. OfClients' /\ seen' = [c \in Client |-> seen'[c]]
    BY <1>1, OfClientsKept DEF Next, Observe
  <1>5. TypeOK'
    BY <1>2, <1>3, <1>4 DEF TypeOK, ServerTypes, ClientTypes, OfClients
  <1>6. QED  BY <1>4, <1>5 DEF Shape, OfClients

-----------------------------------------------------------------------------
(* The theorems *)

LEMMA InitInv ==
    ASSUME Init
    PROVE  ApiInv
  <1>1. TypeOK
    <2>1. 1 \in Int32
      BY RangeAssumption DEF Int32
    <2>2. ServerTypes
      BY <2>1, PoolsAssumption DEF Init, ServerTypes, RunnerState, NoAnswer
    <2>3. <<>> \in Seq(Pool) /\ <<>> \in Seq(Machine) /\ <<>> \in Seq(1 .. Len(<<>>))
      OBVIOUS
    <2>4. \A c \in Client : reply[c] = NoReply /\ found[c] = <<>> /\ arrived[c] = <<>>
      BY DEF Init
    <2>5. QED  BY <2>2, <2>3, <2>4 DEF Init, TypeOK, ServerTypes, Field
  <1>2. Shape
    BY <1>1 DEF Init, Shape
  <1>3. ASSUME NEW c \in Client
        PROVE  HandlerInv(c)
    <2>1. at[c] = "none" /\ Empty(c)
      BY DEF Init, Empty
    <2>2. QED
      BY <2>1 DEF HandlerInv, StartsEmpty, PoolsRead, ReadingPools, ViewFilled, PoolsListed,
         MachinesCollected, AskingMachines, MachinesAsked, Field
  <1>4. GaugeInv
    BY DEF Init, GaugeInv, Setting, GaugeAgreesOn
  <1>5. QED  BY <1>2, <1>3, <1>4 DEF ApiInv

LEMMA InvKept ==
    ASSUME ApiInv, [Next]_vars
    PROVE  ApiInv'
  <1>1. CASE Next
    BY <1>1, ShapeKept, HandlersKept, GaugeKept DEF ApiInv
  <1>2. CASE UNCHANGED vars
    <2>1. /\ UNCHANGED <<replicas, isActive, status, overlapped, life, agent, changed>>
          /\ UNCHANGED <<cmd, out, reply, at, todo, found, draft, arrived, protos, seen>>
      BY <1>2 DEF vars, poolVars, machineVars, clientVars, localVars
    <2>2. Shape'
      BY <2>1 DEF ApiInv, Shape, TypeOK
    <2>3. ASSUME NEW c \in Client
          PROVE  HandlerInv(c)'
      BY <2>1, Unmoved DEF ApiInv, Local
    <2>4. GaugeInv'
      BY <2>1 DEF ApiInv, GaugeInv, GaugeAgreesOn, Setting, Req
    <2>5. QED  BY <2>2, <2>3, <2>4 DEF ApiInv
  <1>3. QED  BY <1>1, <1>2

\* Every variable has its type: what the wire carries is a message of its kind.
THEOREM Typing == Spec => []TypeOK
  <1>1. Init => ApiInv
    BY InitInv
  <1>2. ApiInv /\ [Next]_vars => ApiInv'
    BY InvKept
  <1>3. ApiInv => TypeOK
    BY DEF ApiInv, Shape
  <1>4. QED  BY <1>1, <1>2, <1>3, PTL DEF Spec

LEMMA SpecInv == Spec => []ApiInv
  <1>1. Init => ApiInv
    BY InitInv
  <1>2. ApiInv /\ [Next]_vars => ApiInv'
    BY InvKept
  <1>3. QED  BY <1>1, <1>2, PTL DEF Spec

\* The gauge of a pool shows its flag once the handlers that set it have ended,
\* unless two of them did so at the same time.
THEOREM GaugeIsRight == Spec => []GaugeSettles
  <1>1. ApiInv => GaugeSettles
    BY DEF ApiInv, GaugeInv, GaugeSettles
  <1>2. QED  BY <1>1, SpecInv, PTL

\* A client that has an answer keeps it, or has just got it.
LEMMA Answered ==
    ASSUME ApiInv, Next, NEW d \in Client, Ok(d)'
    PROVE  \/ Ok(d) /\ reply'[d] = reply[d]
           \/ ScalePool(d)
           \/ SetStatus(d)
           \/ Reply(d) /\ reply'[d] = Answer(d)
  <1>1. Shape /\ out'[d] = "ok"
    BY DEF ApiInv, Ok
  <1>2. ASSUME out'[d] = out[d], reply'[d] = reply[d]
        PROVE  Ok(d) /\ reply'[d] = reply[d]
    BY <1>1, <1>2 DEF Ok
  <1>3. CASE \E m \in Machine : MachineStarts(m) \/ MachineGone(m) \/ AgentEnds(m) \/ AgentMovesOn(m)
    BY <1>2, <1>3 DEF MachineStarts, MachineGone, AgentEnds, AgentMovesOn, clientVars
  <1>4. ASSUME NEW c \in Client, Begin(c) \/ Lost(c) \/ HandlerStep(c)
        PROVE  \/ Ok(d) /\ reply'[d] = reply[d]
               \/ ScalePool(d) \/ SetStatus(d)
               \/ Reply(d) /\ reply'[d] = Answer(d)
    <2>1. CASE c # d
      BY <1>1, <1>2, <1>4, <2>1, OneMoves
    <2>2. CASE c = d
      <3>1. CASE Begin(d) \/ Lost(d)
        BY <1>1, <3>1 DEF Begin, Lost, Shape, TypeOK
      <3>2. CASE NotFound(d)
        BY <1>1, <1>2, <3>2 DEF NotFound, Return, Shape, TypeOK
      <3>3. CASE Reply(d)
        BY <1>1, <1>2, <3>3 DEF Reply, Return, Shape, TypeOK
      <3>4. CASE SetActive(d) \/ FindPools(d) \/ ReadField(d) \/ ListMachines(d) \/ ListPool(d)
        BY <1>2, <3>4 DEF SetActive, FindPools, ReadField, ListMachines, ListPool, clientVars
      <3>5. CASE GetMachine(d) \/ Collect(d) \/ \E i \in DOMAIN found[d] : Ask(d, i)
        BY <1>2, <3>5 DEF GetMachine, Collect, Ask, clientVars
      <3>6. QED
        BY <1>4, <2>2, <3>1, <3>2, <3>3, <3>4, <3>5 DEF HandlerStep
    <2>3. QED  BY <2>1, <2>2
  <1>5. QED  BY <1>3, <1>4 DEF Next

LEMMA ViewsKept ==
    ASSUME ApiInv, ViewIsFresh, Next
    PROVE  ViewIsFresh'
  <1>1. SUFFICES ASSUME NEW d \in Client, Ok(d)'
                 PROVE  RightViews(d)'
    BY DEF ViewIsFresh
  <1>2. /\ seen[d] \subseteq seen'[d] /\ cmd' = cmd
        /\ Req(d).rpc = cmd[d].rpc
        /\ cmd[d].rpc # "ScalePool" => Req(d) = cmd[d]
    BY Observed, Requests DEF ApiInv, Shape, TypeOK
  <1>3. CASE Ok(d) /\ reply'[d] = reply[d]
    BY <1>2, <1>3 DEF ViewIsFresh, RightViews, Fresh
  <1>4. CASE ScalePool(d) \/ SetStatus(d)
    <2>1. Req(d).rpc \notin PoolCalls
      BY <1>4 DEF ScalePool, SetStatus, ApiInv, HandlerInv, StartsEmpty, PoolCalls
    <2>2. QED  BY <1>2, <2>1 DEF RightViews, PoolCalls
  <1>5. CASE Reply(d) /\ reply'[d] = Answer(d)
    <2>1. at[d] = "reply"
      BY <1>5 DEF Reply
    <2>2. ASSUME cmd[d].rpc = "ListPools"
          PROVE  RightViews(d)'
      <3>1. reply'[d].Pools = protos[d]
        BY <1>2, <1>5, <2>2 DEF Answer
      <3>2. /\ \A i \in DOMAIN protos[d] : Fresh(d, protos[d][i])
            /\ {protos[d][i].Name : i \in DOMAIN protos[d]} = Pool
            /\ \A i, j \in DOMAIN protos[d] : i < j => protos[d][i].Name < protos[d][j].Name
        BY <1>2, <2>1, <2>2, PoolsAnswered DEF PoolCalls
      <3>3. QED  BY <1>2, <2>2, <3>1, <3>2 DEF RightViews, Fresh
    <2>3. ASSUME cmd[d].rpc = "GetPool"
          PROVE  RightViews(d)'
      <3>1. reply'[d].Pool = protos[d][1]
        BY <1>2, <1>5, <2>3 DEF Answer
      <3>2. Fresh(d, protos[d][1]) /\ protos[d][1].Name = cmd[d].Name
        BY <1>2, <2>1, <2>3, PoolsAnswered DEF PoolCalls
      <3>3. QED  BY <1>2, <2>3, <3>1, <3>2 DEF RightViews, Fresh
    <2>4. QED  BY <1>2, <2>2, <2>3 DEF RightViews
  <1>6. QED  BY <1>1, <1>3, <1>4, <1>5, Answered

\* What a view of a pool says was true, field by field, while the call was made;
\* a list names every pool once, in order.
THEOREM ViewsAreRight == Spec => []ViewIsFresh
  <1>1. Init => ViewIsFresh
    BY DEF Init, ViewIsFresh, Ok
  <1>2. ApiInv /\ ViewIsFresh /\ [Next]_vars => ViewIsFresh'
    BY ViewsKept DEF ViewIsFresh, RightViews, Fresh, Ok, vars, clientVars
  <1>3. QED  BY <1>1, <1>2, SpecInv, PTL DEF Spec

LEMMA ListingsKept ==
    ASSUME ApiInv, ListingIsExact, Next
    PROVE  ListingIsExact'
  <1>1. SUFFICES ASSUME NEW d \in Client, Ok(d)', cmd[d].rpc = "ListMachines"
                 PROVE  RightListing(d)'
    BY CommandsStay DEF ListingIsExact
  <1>2. seen[d] \subseteq seen'[d] /\ cmd' = cmd /\ Req(d) = cmd[d]
    BY <1>1, Observed, Requests DEF ApiInv, Shape, TypeOK
  <1>3. CASE Ok(d) /\ reply'[d] = reply[d]
    BY <1>1, <1>2, <1>3 DEF ListingIsExact, RightListing, Ever, Always
  <1>4. CASE ScalePool(d) \/ SetStatus(d)
    BY <1>1, <1>2, <1>4 DEF ScalePool, SetStatus, ApiInv, HandlerInv, StartsEmpty
  <1>5. CASE Reply(d) /\ reply'[d] = Answer(d)
    <2>1. reply'[d].Machines = protos[d]
      BY <1>1, <1>2, <1>5 DEF Answer
    <2>2. RightMachines(d, [i \in DOMAIN protos[d] |-> protos[d][i].ID])
      BY <1>1, <1>2, <1>5, MachinesAnswered DEF MachineCalls, Reply
    <2>3. QED
      BY <1>1, <1>2, <2>1, <2>2 DEF RightMachines, RightListing, AskedFor, Ever, Always
  <1>6. QED  BY <1>3, <1>4, <1>5, <1>1, Answered

\* A listing is in order and names every machine once that was listed all the
\* time, and none that never was.
THEOREM ListingsAreRight == Spec => []ListingIsExact
  <1>1. Init => ListingIsExact
    BY DEF Init, ListingIsExact, Ok
  <1>2. ApiInv /\ ListingIsExact /\ [Next]_vars => ListingIsExact'
    BY ListingsKept DEF ListingIsExact, RightListing, Ever, Always, Ok, vars, clientVars
  <1>3. QED  BY <1>1, <1>2, SpecInv, PTL DEF Spec

LEMMA StatesKept ==
    ASSUME ApiInv, StatesAreFresh, Next
    PROVE  StatesAreFresh'
  <1>1. SUFFICES ASSUME NEW d \in Client, Ok(d)'
                 PROVE  (/\ cmd[d].rpc = "GetMachine" => RightState(d, reply[d].Machine)
                         /\ cmd[d].rpc = "ListMachines" =>
                               \A i \in DOMAIN reply[d].Machines : RightState(d, reply[d].Machines[i]))'
    BY DEF StatesAreFresh
  <1>2. /\ seen[d] \subseteq seen'[d] /\ cmd' = cmd
        /\ Req(d).rpc = cmd[d].rpc
    BY Observed, Requests DEF ApiInv, Shape, TypeOK
  <1>3. CASE Ok(d) /\ reply'[d] = reply[d]
    BY <1>2, <1>3 DEF StatesAreFresh, RightState
  <1>4. CASE ScalePool(d) \/ SetStatus(d)
    BY <1>2, <1>4 DEF ScalePool, SetStatus, ApiInv, HandlerInv, StartsEmpty
  <1>5. CASE Reply(d) /\ reply'[d] = Answer(d)
    <2>1. at[d] = "reply"
      BY <1>5 DEF Reply
    <2>2. CASE cmd[d].rpc = "GetMachine"
      <3>1. reply'[d].Machine = protos[d][1]
        BY <1>2, <1>5, <2>2 DEF Answer
      <3>2. GoodMachine(d, protos[d][1].ID, protos[d][1])
        BY <1>2, <2>1, <2>2, MachinesAnswered DEF MachineCalls
      <3>3. QED  BY <1>2, <2>2, <3>1, <3>2 DEF GoodMachine, RightState
    <2>3. CASE cmd[d].rpc = "ListMachines"
      <3>1. reply'[d].Machines = protos[d]
        BY <1>2, <1>5, <2>3 DEF Answer
      <3>2. \A i \in DOMAIN protos[d] : GoodMachine(d, protos[d][i].ID, protos[d][i])
        BY <1>2, <2>1, <2>3, MachinesAnswered DEF MachineCalls
      <3>3. QED  BY <1>2, <2>3, <3>1, <3>2 DEF GoodMachine, RightState
    <2>4. QED  BY <1>2, <2>2, <2>3
  <1>6. QED  BY <1>1, <1>3, <1>4, <1>5, Answered

\* The state that is shown of a machine is one its own runner was in during the
\* call, or Unknown.
THEOREM StatesAreRight == Spec => []StatesAreFresh
  <1>1. Init => StatesAreFresh
    BY DEF Init, StatesAreFresh, Ok
  <1>2. ApiInv /\ StatesAreFresh /\ [Next]_vars => StatesAreFresh'
    BY StatesKept DEF StatesAreFresh, RightState, Ok, vars, clientVars
  <1>3. QED  BY <1>1, <1>2, SpecInv, PTL DEF Spec

-----------------------------------------------------------------------------
(* Every map has an order, and can be sorted *)

\* A set of naturals that is not empty has a least element.
LEMMA Least ==
    ASSUME NEW T \in SUBSET Nat, T # {}
    PROVE  \E k \in T : \A j \in T : k <= j
<1> DEFINE R == OpToRel(<, Nat)
<1>1. IsWellFoundedOn(R, Nat)
  BY NatLessThanWellFounded
<1> HIDE DEF R
<1>2. PICK k \in T : \A j \in T : ~(<<j, k>> \in R)
  BY <1>1, WFMin
<1>3. \A j \in T : ~(j < k)
  BY <1>2 DEF R, OpToRel
<1>4. \A j \in T : k \in Nat /\ j \in Nat
  OBVIOUS
<1> QED BY <1>3, <1>4

\* R is a strict order of the elements of s.
StrictOrder(s, n, R) ==
    /\ \A i \in 1 .. n : <<s[i], s[i]>> \notin R
    /\ \A i, j, k \in 1 .. n :
           <<s[i], s[j]>> \in R /\ <<s[j], s[k]>> \in R => <<s[i], s[k]>> \in R

\* None of the first k comes after place m.
LastOne(s, k, R, m) == \A i \in 1 .. k : <<s[m], s[i]>> \notin R

LEMMA LastOneExists ==
    ASSUME NEW n \in Nat \ {0}, NEW s, NEW R, StrictOrder(s, n, R)
    PROVE  \E m \in 1 .. n : LastOne(s, n, R, m)
<1> DEFINE T == {k \in 1 .. n : \A m \in 1 .. k : ~LastOne(s, k, R, m)}
<1> SUFFICES ASSUME T # {} PROVE FALSE
  <2>1. n \in 1 .. n
    OBVIOUS
  <2> QED BY <2>1
<1>1. PICK k \in T : \A j \in T : k <= j
  <2>1. T \in SUBSET Nat
    OBVIOUS
  <2> HIDE DEF T
  <2> QED BY <2>1, Least
<1>2. k \in 1 .. n /\ \A m \in 1 .. k : ~LastOne(s, k, R, m)
  BY <1>1
<1>3. k # 1
  <2> SUFFICES ASSUME k = 1 PROVE FALSE
    OBVIOUS
  <2>1. 1 \in 1 .. k /\ 1 \in 1 .. n
    BY <1>2
  <2>2. \A i \in 1 .. 1 : i = 1
    OBVIOUS
  <2>3. LastOne(s, k, R, 1)
    BY <2>1, <2>2 DEF LastOne, StrictOrder
  <2> QED BY <1>2, <2>1, <2>3
<1>4. k - 1 \in 1 .. n /\ k - 1 \notin T
  <2>1. k - 1 \in 1 .. n /\ ~(k <= k - 1)
    BY <1>2, <1>3
  <2> HIDE DEF T
  <2> QED BY <1>1, <2>1
<1>5. PICK m \in 1 .. k - 1 : LastOne(s, k - 1, R, m)
  BY <1>4
<1>6. m \in 1 .. n /\ m \in 1 .. k /\ k \in 1 .. k
  BY <1>2, <1>5
<1>7. \A i \in 1 .. k : i \in 1 .. n /\ (i = k \/ i \in 1 .. k - 1)
  BY <1>2
<1>8. CASE <<s[m], s[k]>> \in R
  <2>1. ASSUME NEW i \in 1 .. k, <<s[k], s[i]>> \in R PROVE FALSE
    <3>1. i \in 1 .. n /\ (i = k \/ i \in 1 .. k - 1)
      BY <1>7
    <3>2. <<s[m], s[i]>> \in R
      BY <1>2, <1>6, <1>8, <2>1, <3>1 DEF StrictOrder
    <3>3. i = k
      BY <1>5, <3>1, <3>2 DEF LastOne
    <3> QED BY <1>2, <2>1, <3>3 DEF StrictOrder
  <2> QED BY <1>2, <1>6, <2>1 DEF LastOne
<1>9. CASE <<s[m], s[k]>> \notin R
  <2>1. LastOne(s, k, R, m)
    BY <1>5, <1>7, <1>9 DEF LastOne
  <2> QED BY <1>2, <1>6, <2>1
<1> QED BY <1>8, <1>9

InOrder(s, n, R, f) ==
    /\ f \in Bijection(1 .. n, 1 .. n)
    /\ \A i, j \in 1 .. n : i < j => <<s[f[j]], s[f[i]]>> \notin R

\* One more element: the last one goes to the end, the others are sorted.
LEMMA SortOneMore ==
    ASSUME NEW n \in Nat \ {0}, NEW s, NEW R, NEW m \in 1 .. n, LastOne(s, n, R, m),
           NEW g, InOrder([i \in 1 .. n - 1 |-> IF i = m THEN s[n] ELSE s[i]], n - 1, R, g)
    PROVE  \E f : InOrder(s, n, R, f)
<1> DEFINE r == [i \in 1 .. n - 1 |-> IF i = m THEN s[n] ELSE s[i]]
           p(i) == IF i = m THEN n ELSE i
           f == [i \in 1 .. n |-> IF i = n THEN m ELSE p(g[i])]
<1>1. /\ g \in [1 .. n - 1 -> 1 .. n - 1]
      /\ \A i, j \in 1 .. n - 1 : g[i] = g[j] => i = j
      /\ \A j \in 1 .. n - 1 : \E i \in 1 .. n - 1 : g[i] = j
  BY DEF InOrder, Bijection, Injection, Surjection, IsInjective
<1>2. \A i \in 1 .. n : i = n \/ i \in 1 .. n - 1
  OBVIOUS
<1>3. \A i \in 1 .. n - 1 :
          g[i] \in 1 .. n - 1 /\ i \in 1 .. n /\ i # n /\ g[i] # n /\ g[i] \in 1 .. n
  <2> SUFFICES ASSUME NEW i \in 1 .. n - 1
               PROVE  g[i] \in 1 .. n - 1 /\ i \in 1 .. n /\ i # n /\ g[i] # n /\ g[i] \in 1 .. n
    OBVIOUS
  <2>1. g[i] \in 1 .. n - 1
    BY <1>1
  <2>2. \A x \in 1 .. n - 1 : x \in 1 .. n /\ x # n
    OBVIOUS
  <2> QED BY <2>1, <2>2
<1>4. n \in 1 .. n
  OBVIOUS
<1>5. /\ f[n] = m
      /\ \A i \in 1 .. n - 1 : f[i] = p(g[i])
  BY <1>3, <1>4
<1>6. f \in [1 .. n -> 1 .. n]
  BY <1>3, <1>4
<1>7. \A i \in 1 .. n - 1 : f[i] # m /\ s[f[i]] = r[g[i]]
  <2> SUFFICES ASSUME NEW i \in 1 .. n - 1 PROVE f[i] # m /\ s[f[i]] = r[g[i]]
    OBVIOUS
  <2>1. f[i] = IF g[i] = m THEN n ELSE g[i]
    BY <1>5
  <2>2. r[g[i]] = IF g[i] = m THEN s[n] ELSE s[g[i]]
    BY <1>3
  <2>3. g[i] # n
    BY <1>3
  <2> QED BY <2>1, <2>2, <2>3
<1> HIDE DEF f
<1>8. \A i, j \in 1 .. n : f[i] = f[j] => i = j
  <2> SUFFICES ASSUME NEW i \in 1 .. n, NEW j \in 1 .. n, f[i] = f[j] PROVE i = j
    OBVIOUS
  <2>1. CASE i = n \/ j = n
    BY <1>2, <1>5, <1>7, <2>1
  <2>2. CASE i \in 1 .. n - 1 /\ j \in 1 .. n - 1
    <3>1. g[i] = g[j]
      <4>1. f[i] = (IF g[i] = m THEN n ELSE g[i]) /\ f[j] = (IF g[j] = m THEN n ELSE g[j])
        BY <1>5, <2>2
      <4>2. g[i] # n /\ g[j] # n
        BY <1>3, <2>2
      <4> QED BY <4>1, <4>2
    <3> QED BY <1>1, <2>2, <3>1
  <2> QED BY <1>2, <2>1, <2>2
<1>9. \A j \in 1 .. n : \E i \in 1 .. n : f[i] = j
  <2> SUFFICES ASSUME NEW j \in 1 .. n PROVE \E i \in 1 .. n : f[i] = j
    OBVIOUS
  <2>1. CASE j = m
    BY <1>4, <1>5, <2>1
  <2>2. CASE j # m /\ j # n
    <3>1. PICK i \in 1 .. n - 1 : g[i] = j
      BY <1>1, <1>2, <2>2
    <3> QED BY <1>3, <1>5, <2>2, <3>1
  <2>3. CASE j # m /\ j = n
    <3>1. m \in 1 .. n - 1
      BY <1>2, <2>3
    <3>2. PICK i \in 1 .. n - 1 : g[i] = m
      BY <1>1, <3>1
    <3> QED BY <1>3, <1>5, <2>3, <3>2
  <2> QED BY <2>1, <2>2, <2>3
<1>10. f \in Bijection(1 .. n, 1 .. n)
  BY <1>6, <1>8, <1>9 DEF Bijection, Injection, Surjection, IsInjective
<1>11. ASSUME NEW i \in 1 .. n, NEW j \in 1 .. n, i < j PROVE <<s[f[j]], s[f[i]]>> \notin R
  <2>1. i \in 1 .. n - 1 /\ i # n
    BY <1>11
  <2>2. CASE j = n
    <3>1. f[j] = m /\ f[i] \in 1 .. n
      BY <1>5, <1>6, <2>2
    <3> QED BY <3>1 DEF LastOne
  <2>3. CASE j \in 1 .. n - 1
    <3>1. <<r[g[j]], r[g[i]]>> \notin R
      BY <1>11, <2>1, <2>3 DEF InOrder
    <3>2. s[f[i]] = r[g[i]] /\ s[f[j]] = r[g[j]]
      BY <1>7, <2>1, <2>3
    <3> QED BY <3>1, <3>2
  <2> QED BY <1>2, <2>2, <2>3
<1> QED BY <1>10, <1>11 DEF InOrder

LEMMA SortExists ==
    ASSUME NEW n \in Nat, NEW s, NEW R, StrictOrder(s, n, R)
    PROVE  \E f : InOrder(s, n, R, f)
<1> DEFINE T == {k \in Nat : \E r : StrictOrder(r, k, R) /\ \A f : ~InOrder(r, k, R, f)}
<1> SUFFICES ASSUME T # {} PROVE FALSE
  <2>1. n \notin T
    OBVIOUS
  <2> QED BY <2>1
<1>1. PICK k \in T : \A j \in T : k <= j
  <2>1. T \in SUBSET Nat
    OBVIOUS
  <2> HIDE DEF T
  <2> QED BY <2>1, Least
<1>2. PICK r : StrictOrder(r, k, R) /\ \A f : ~InOrder(r, k, R, f)
  BY <1>1
<1>3. k \in Nat
  BY <1>1
<1>4. k # 0
  <2> SUFFICES ASSUME k = 0 PROVE FALSE
    OBVIOUS
  <2> DEFINE f == [i \in 1 .. k |-> i]
  <2>1. \A i \in 1 .. k : FALSE
    BY <1>3
  <2>2. f \in Bijection(1 .. k, 1 .. k)
    BY <2>1 DEF Bijection, Injection, Surjection, IsInjective
  <2>3. InOrder(r, k, R, f)
    BY <2>1, <2>2 DEF InOrder
  <2> QED BY <1>2, <2>3
<1>5. k \in Nat \ {0} /\ k - 1 \in Nat
  BY <1>3, <1>4
<1>6. k - 1 \notin T
  <2>1. ~(k <= k - 1)
    BY <1>3
  <2> HIDE DEF T
  <2> QED BY <1>1, <2>1
<1>7. PICK m \in 1 .. k : LastOne(r, k, R, m)
  BY <1>2, <1>5, LastOneExists
<1> DEFINE p(i) == IF i = m THEN k ELSE i
           q == [i \in 1 .. k - 1 |-> IF i = m THEN r[k] ELSE r[i]]
<1>8. \A i \in 1 .. k - 1 : q[i] = r[p(i)] /\ p(i) \in 1 .. k
  BY <1>5
<1>9. StrictOrder(q, k - 1, R)
  <2> HIDE DEF q
  <2> QED BY <1>2, <1>8 DEF StrictOrder
<1>10. PICK g : InOrder(q, k - 1, R, g)
  <2> HIDE DEF q
  <2> QED BY <1>5, <1>6, <1>9
<1> QED BY <1>2, <1>5, <1>7, <1>10, SortOneMore

\* A map may be walked in some order.
LEMMA WalkExists ==
    ASSUME NEW S, IsFiniteSet(S)
    PROVE  Orders(S) # {}
<1>1. ExistsBijection(1 .. Cardinality(S), S)
  BY FS_CardinalityType
<1> QED BY <1>1 DEF ExistsBijection, Orders

\* The pools may be sorted by their names.
LEMMA NamesCanBeSorted ==
    ASSUME NEW s \in Seq(Pool)
    PROVE  Sorted(s, NameBefore) # {}
<1> DEFINE R == {x \in Pool \X Pool : x[1] < x[2]}
<1>1. PICK n \in Nat : n = Len(s)
  OBVIOUS
<1>2. \A i \in 1 .. n : s[i] \in Pool /\ s[i] \in Int
  <2>1. \A i \in 1 .. n : s[i] \in Pool
    BY <1>1
  <2>2. \A p \in Pool : p \in Int
    BY PoolsAssumption, NamesAssumption
  <2> QED BY <2>1, <2>2
<1>3. \A x, y \in Pool : <<x, y>> \in R <=> x < y
  OBVIOUS
<1> HIDE DEF R
<1>a. \A x, y, z \in Pool : ~(x < x) /\ (x < y /\ y < z => x < z)
  <2>1. \A p \in Pool : p \in Int
    BY PoolsAssumption, NamesAssumption
  <2> QED BY <2>1
<1>4. StrictOrder(s, n, R)
  <2>1. \A x, y, z \in Pool :
            <<x, x>> \notin R /\ (<<x, y>> \in R /\ <<y, z>> \in R => <<x, z>> \in R)
    BY <1>3, <1>a
  <2>2. \A i \in 1 .. n : s[i] \in Pool
    BY <1>2
  <2> QED BY ONLY <2>1, <2>2 DEF StrictOrder
<1>5. PICK f : InOrder(s, n, R, f)
  BY <1>4, SortExists
<1>t. PICK t : t = [i \in DOMAIN s |-> s[f[i]]]
  OBVIOUS
<1>6. DOMAIN s = 1 .. n /\ f \in Bijection(DOMAIN s, DOMAIN s)
  BY <1>1, <1>5 DEF InOrder
<1>7. \A i \in 1 .. n : f[i] \in 1 .. n
  BY <1>6 DEF Bijection, Injection
<1>8. \A i, j \in DOMAIN t : i < j => ~NameBefore(t[j], t[i])
  BY <1>t, <1>2, <1>3, <1>5, <1>6, <1>7 DEF InOrder, NameBefore
<1>9. t \in Sorted(s, NameBefore)
  BY <1>t, <1>6, <1>8 DEF Sorted
<1> QED BY <1>9

\* Machines may be sorted by their pools, then by their names.
LEMMA MachinesCanBeSorted ==
    ASSUME NEW s \in Seq(Machine)
    PROVE  Sorted(s, Before) # {}
<1> DEFINE R == {x \in Machine \X Machine : Before(x[1], x[2])}
<1>1. PICK n \in Nat : n = Len(s)
  OBVIOUS
<1>2. \A i \in 1 .. n : s[i] \in Machine
  BY <1>1
<1>3. \A x, y \in Machine : <<x, y>> \in R <=> Before(x, y)
  OBVIOUS
<1> HIDE DEF R
<1>4. \A m \in Machine : m \in Int /\ PoolOf[m] \in Int
  <2>1. \A m \in Machine : m \in Nat /\ PoolOf[m] \in Pool
    BY PoolsAssumption, NamesAssumption
  <2>2. \A p \in Pool : p \in Nat
    BY PoolsAssumption, NamesAssumption
  <2> QED BY <2>1, <2>2
<1>5. \A l, m, k \in Machine : ~Before(l, l) /\ (Before(l, m) /\ Before(m, k) => Before(l, k))
  BY <1>4 DEF Before
<1>6. StrictOrder(s, n, R)
  <2>1. \A x, y, z \in Machine :
            <<x, x>> \notin R /\ (<<x, y>> \in R /\ <<y, z>> \in R => <<x, z>> \in R)
    BY <1>3, <1>5
  <2> QED BY ONLY <1>2, <2>1 DEF StrictOrder
<1>7. PICK f : InOrder(s, n, R, f)
  BY <1>6, SortExists
<1>t. PICK t : t = [i \in DOMAIN s |-> s[f[i]]]
  OBVIOUS
<1>8. DOMAIN s = 1 .. n /\ f \in Bijection(DOMAIN s, DOMAIN s)
  BY <1>1, <1>7 DEF InOrder
<1>9. \A i \in 1 .. n : f[i] \in 1 .. n
  BY <1>8 DEF Bijection, Injection
<1>10. \A i, j \in DOMAIN t : i < j => ~Before(t[j], t[i])
  BY <1>t, <1>2, <1>3, <1>7, <1>8, <1>9 DEF InOrder
<1>11. t \in Sorted(s, Before)
  BY <1>t, <1>8, <1>10 DEF Sorted
<1> QED BY <1>11

\* What a handler has gathered can be sorted.
Sortable(c) ==
    /\ at[c] = "find" =>
           /\ \E walk \in Orders(Pool) : Sorted(walk, NameBefore) # {}
           /\ \A p \in Pool : Orders({p}) # {}
    /\ at[c] = "list" =>
           /\ Orders(Listed(Head(todo[c]))) # {}
           /\ \A walk \in Orders(Listed(Head(todo[c]))) : Sorted(found[c] \o walk, Before) # {}

\* Sorting is modelled by what it leaves behind: the theorems about listings would say
\* nothing of a map that had no order, or of machines that could not be sorted.  There
\* are such orders for maps of any size, so no handler stands still at its sort.
THEOREM HandlersCanSort == Spec => [](\A c \in Client : Sortable(c))
<1>1. ASSUME ApiInv, NEW c \in Client PROVE Sortable(c)
  <2>1. IsFiniteSet(Pool) /\ IsFiniteSet(Machine)
    BY PoolsAssumption
  <2>2. CASE at[c] = "find"
    <3>1. PICK walk : walk \in Orders(Pool)
      BY <2>1, WalkExists
    <3>2. walk \in Seq(Pool)
      BY <2>1, <3>1, OrdersFacts
    <3>3. Sorted(walk, NameBefore) # {}
      BY <3>2, NamesCanBeSorted
    <3>4. \A p \in Pool : Orders({p}) # {}
      BY WalkExists, FS_Singleton
    <3> QED BY <2>2, <3>1, <3>3, <3>4 DEF Sortable
  <2>3. CASE at[c] = "list"
    <3> DEFINE S == Listed(Head(todo[c]))
    <3>1. S \subseteq Machine /\ IsFiniteSet(S)
      BY <2>1, FS_Subset DEF Listed
    <3>2. found[c] \in Seq(Machine)
      BY <1>1 DEF ApiInv, Shape, TypeOK
    <3> HIDE DEF S
    <3>3. Orders(S) # {}
      BY <3>1, WalkExists
    <3>4. ASSUME NEW walk \in Orders(S) PROVE Sorted(found[c] \o walk, Before) # {}
      <4>1. walk \in Seq(Machine)
        BY <3>1, OrdersFacts
      <4>2. found[c] \o walk \in Seq(Machine)
        BY <3>2, <4>1
      <4> QED BY <4>2, MachinesCanBeSorted
    <3> QED BY <2>3, <3>3, <3>4 DEF Sortable, S
  <2>4. CASE at[c] \notin {"find", "list"}
    BY <2>4 DEF Sortable
  <2> QED BY <2>2, <2>3, <2>4
<1>2. ApiInv => \A c \in Client : Sortable(c)
  BY <1>1
<1> QED BY <1>2, SpecInv, PTL

=============================================================================
