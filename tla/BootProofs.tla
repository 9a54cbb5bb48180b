------------------------------ MODULE BootProofs ------------------------------
(***************************************************************************)
(* For any number of lines, retries and restarts: the agent and its start  *)
(* keep their types, and the agent knows the state of its runner.          *)
(***************************************************************************)
EXTENDS Boot, TLAPS

-----------------------------------------------------------------------------
(* Types *)

\* Empty pipes are pipes.
LEMMA EmptyPipe ==
  ASSUME NEW q, q = [s \in Std |-> <<>>]
  PROVE  q \in [Std -> Seq(Line)] /\ \A s \in Std : Len(q[s]) <= PipeSize
<1>1. Len(<<>>) <= PipeSize /\ <<>> \in Seq(Line)
  BY BoundsAssumption
<1> QED BY <1>1

LEMMA TypesInit == BootInit => BootTypeOK
<1> SUFFICES ASSUME BootInit PROVE BootTypeOK
  OBVIOUS
<1>1. pipe \in [Std -> Seq(Line)] /\ \A s \in Std : Len(pipe[s]) <= PipeSize
  BY EmptyPipe DEF BootInit, Init
<1>2. buffer \in [Std -> Seq(Line)]
  BY EmptyPipe DEF BootInit, Init
<1>3. said \in 0 .. MaxLines /\ streams \in 0 .. MaxStreams
  BY BoundsAssumption DEF BootInit, Init
<1>4. TypeOK
  BY <1>1, <1>2, <1>3 DEF BootInit, Init, TypeOK, State
<1>5. /\ retries \in 0 .. RetryMax
      /\ crashes \in 0 .. MaxCrashes + 1
  BY BootAssumption DEF BootInit
<1> QED BY <1>4, <1>5 DEF BootInit, BootTypeOK, Booting

\* One step of Runner.Run.
LEMMA TypesRunning == ASSUME BootTypeOK, Running PROVE BootTypeOK'
<1> USE DEF procVars, readerVars, agentVars, bootVars, BootTypeOK, TypeOK
<1>2. UNCHANGED bootVars
  BY DEF Running
<1>3. TypeOK'
  <2>1. CASE Start
    BY <2>1 DEF Start
  <2>2. CASE StartFails
    BY <2>2 DEF StartFails, State
  <2>3. CASE Wait
    BY <2>3, EmptyPipe DEF Wait
  <2>4. CASE SetExited
    BY <2>4 DEF SetExited, State
  <2>5. CASE End
    BY <2>5 DEF End
  <2> QED BY <2>1, <2>2, <2>3, <2>4, <2>5 DEF Running, RunStep
<1> QED BY <1>2, <1>3

LEMMA TypesOthers == ASSUME BootTypeOK, Others PROVE BootTypeOK'
<1> USE DEF procVars, readerVars, agentVars, bootVars, TypeOK
<1>1. TypeOK /\ UNCHANGED bootVars
  BY DEF Others, BootTypeOK
<1>2. TypeOK'
  <2>1. ASSUME NEW s \in Std, NEW line \in Line, Say(s, line) PROVE TypeOK'
    <3>1. pipe'[s] = Append(pipe[s], line) /\ Len(pipe'[s]) = Len(pipe[s]) + 1
      BY <1>1, <2>1 DEF Say
    <3>2. pipe' \in [Std -> Seq(Line)] /\ \A t \in Std : Len(pipe'[t]) <= PipeSize
      BY <1>1, <2>1, <3>1, BoundsAssumption DEF Say
    <3>3. told' \in [Std -> Told \cup {"Starting"}]
      BY <1>1, <2>1 DEF Say, Told
    <3> QED BY <1>1, <2>1, <3>2, <3>3, BoundsAssumption DEF Say
  <2>2. ASSUME NEW result \in {"ok", "error"}, Exit(result) PROVE TypeOK'
    BY <1>1, <2>2 DEF Exit
  <2>3. ASSUME NEW s \in Std, Read(s) PROVE TypeOK'
    BY <1>1, <2>3, BoundsAssumption DEF Read
  <2>4. ASSUME NEW s \in Std, Handle(s) PROVE TypeOK'
    <3>1. Tail(buffer[s]) \in Seq(Line)
      BY <1>1, <2>4 DEF Handle
    <3> QED BY <1>1, <2>4, <3>1 DEF Handle, State, Told
  <2>5. ASSUME NEW s \in Std, ReadEnd(s) PROVE TypeOK'
    BY <1>1, <2>5 DEF ReadEnd
  <2>6. CASE Signal \/ ServerFails \/ GracefulStop \/ Drained
    BY <1>1, <2>6 DEF Signal, ServerFails, GracefulStop, Drained
  <2>7. CASE OpenStream \/ CloseStream
    <3>1. streams' \in 0 .. MaxStreams
      BY <1>1, <2>7, BoundsAssumption DEF OpenStream, CloseStream
    <3> QED BY <1>1, <2>7, <3>1 DEF OpenStream, CloseStream
  <2> QED BY <2>1, <2>2, <2>3, <2>4, <2>5, <2>6, <2>7 DEF Others, ProcessStep, ReaderStep
<1> QED BY <1>1, <1>2 DEF BootTypeOK

LEMMA TypesNext ==
  BootTypeOK /\ [BootNext]_<<vars, bootVars>> => BootTypeOK'
<1> SUFFICES ASSUME BootTypeOK, [BootNext]_<<vars, bootVars>> PROVE BootTypeOK'
  OBVIOUS
<1>0. UNCHANGED vars => TypeOK'
  BY DEF vars, procVars, readerVars, agentVars, BootTypeOK, TypeOK
<1>1. CASE BootStep
  <2>1. /\ boot' \in Booting \cup {"up", "ended"} /\ retries' \in 0 .. RetryMax
        /\ UNCHANGED <<vars, runner, listening, asked, crashes>>
    BY <1>1, BootAssumption
       DEF BootStep, RefreshToken, GetMetadata, New, SetHostname, BootFails, Retry,
           Booting, BootTypeOK
  <2> QED BY <1>0, <2>1 DEF BootTypeOK
<1>2. CASE SetRunner \/ Listen
  <2>1. /\ UNCHANGED <<vars, boot, retries, asked, crashes>>
        /\ runner' \in {TRUE, runner} /\ listening' \in {TRUE, listening}
    BY <1>2 DEF SetRunner, Listen
  <2> QED BY <1>0, <2>1 DEF BootTypeOK
<1>6. CASE GetRunnerVersion
  <2>1. UNCHANGED <<vars, boot, retries, runner, listening, crashes>> /\ asked' = TRUE
    BY <1>6 DEF GetRunnerVersion
  <2> QED BY <1>0, <2>1 DEF BootTypeOK
<1>3. CASE Panic \/ Kill \/ Leave
  <2>1. /\ UNCHANGED <<vars, retries, runner, listening, asked>>
        /\ boot' \in {"failed", "ended"} /\ crashes' \in 0 .. MaxCrashes + 1
    BY <1>3, BootAssumption DEF Panic, Kill, Leave, BootTypeOK
  <2> QED BY <1>0, <2>1 DEF BootTypeOK
<1>4. CASE Restart
  <2>1. pipe' \in [Std -> Seq(Line)] /\ \A s \in Std : Len(pipe'[s]) <= PipeSize
    BY <1>4, EmptyPipe DEF Restart
  <2>2. buffer' \in [Std -> Seq(Line)]
    BY <1>4, EmptyPipe DEF Restart
  <2>3. streams' \in 0 .. MaxStreams /\ said' \in 0 .. MaxLines
    BY <1>4, BoundsAssumption DEF Restart, BootTypeOK, TypeOK
  <2>4. TypeOK'
    BY <1>4, <2>1, <2>2, <2>3 DEF Restart, BootTypeOK, TypeOK, State
  <2>5. retries' \in 0 .. RetryMax /\ boot' \in Booting
    BY <1>4, BootAssumption DEF Restart, Booting
  <2> QED BY <1>4, <2>4, <2>5 DEF Restart, BootTypeOK
<1>5. CASE UNCHANGED <<vars, bootVars>>
  BY <1>0, <1>5 DEF bootVars, BootTypeOK
<1> QED BY <1>1, <1>2, <1>3, <1>4, <1>5, <1>6, TypesRunning, TypesOthers DEF BootNext

\* Every variable keeps its type: no state but those the code has, no line lost
\* between the types of a pipe and a scanner.
THEOREM BootTypesAreRight == BootSpec => []BootTypeOK
BY TypesInit, TypesNext, PTL DEF BootSpec

-----------------------------------------------------------------------------
(* The state *)

\* Whoever reads the lines q and began in state a ends in state b.
Leads(q, a, b) ==
    \/ a = b /\ \A i \in 1 .. Len(q) : q[i] \notin Told
    \/ \E i \in 1 .. Len(q) :
          /\ q[i] = b /\ b \in Told
          /\ \A j \in i + 1 .. Len(q) : q[j] \notin Told

LEMMA LeadsNowhere == ASSUME NEW a, NEW b PROVE Leads(<<>>, a, b) <=> a = b
BY DEF Leads

\* One more line at the end is one more state, or none ...
LEMMA LeadsOn ==
  ASSUME NEW q \in Seq(Line), NEW line \in Line, NEW a, NEW b, Leads(q, a, b)
  PROVE  Leads(Append(q, line), a, IF line \in Told THEN line ELSE b)
<1> DEFINE p == Append(q, line)
<1>1. /\ Len(p) = Len(q) + 1 /\ Len(q) \in Nat
      /\ p[Len(q) + 1] = line
      /\ \A i \in 1 .. Len(q) : p[i] = q[i]
  OBVIOUS
<1> HIDE DEF p
<1>2. CASE line \in Told
  BY <1>1, <1>2 DEF Leads, p
<1>3. CASE line \notin Told
  <2>1. CASE a = b /\ \A i \in 1 .. Len(q) : q[i] \notin Told
    <3>1. \A i \in 1 .. Len(p) : p[i] \notin Told
      BY <1>1, <1>3, <2>1
    <3> QED BY <1>3, <2>1, <3>1 DEF Leads, p
  <2>2. CASE ~(a = b /\ \A i \in 1 .. Len(q) : q[i] \notin Told)
    <3>1. PICK i \in 1 .. Len(q) : /\ q[i] = b /\ b \in Told
                                   /\ \A j \in i + 1 .. Len(q) : q[j] \notin Told
      BY <2>2 DEF Leads
    <3>2. i \in 1 .. Len(p) /\ p[i] = b
      BY <1>1, <3>1
    <3>3. \A j \in i + 1 .. Len(p) : p[j] \notin Told
      BY <1>1, <1>3, <3>1
    <3> QED BY <1>3, <3>1, <3>2, <3>3 DEF Leads, p
  <2> QED BY <2>1, <2>2
<1> QED BY <1>2, <1>3

\* ... and the first line is one step on the way.
LEMMA LeadsFrom ==
  ASSUME NEW q \in Seq(Line), q # <<>>, NEW a, NEW b, Leads(q, a, b)
  PROVE  Leads(Tail(q), IF Head(q) \in Told THEN Head(q) ELSE a, b)
<1> DEFINE p == Tail(q)
<1>1. /\ Len(p) = Len(q) - 1 /\ Len(p) \in Nat /\ Len(q) \in Nat
      /\ Head(q) = q[1]
      /\ \A i \in 1 .. Len(p) : p[i] = q[i + 1]
  OBVIOUS
<1> HIDE DEF p
<1>2. CASE a = b /\ \A i \in 1 .. Len(q) : q[i] \notin Told
  <2>1. \A i \in 1 .. Len(p) : p[i] \notin Told
    BY <1>1, <1>2
  <2>2. Head(q) \notin Told
    BY <1>1, <1>2
  <2> QED BY <1>2, <2>1, <2>2 DEF Leads, p
<1>3. CASE ~(a = b /\ \A i \in 1 .. Len(q) : q[i] \notin Told)
  <2>1. PICK i \in 1 .. Len(q) : /\ q[i] = b /\ b \in Told
                                 /\ \A j \in i + 1 .. Len(q) : q[j] \notin Told
    BY <1>3 DEF Leads
  <2>2. CASE i = 1
    <3>1. \A j \in 1 .. Len(p) : p[j] \notin Told
      BY <1>1, <2>1, <2>2
    <3>2. Head(q) = b /\ b \in Told
      BY <1>1, <2>1, <2>2
    <3> QED BY <3>1, <3>2 DEF Leads, p
  <2>3. CASE i # 1
    <3>1. i - 1 \in 1 .. Len(p) /\ p[i - 1] = b
      BY <1>1, <2>1, <2>3
    <3>2. \A j \in (i - 1) + 1 .. Len(p) : p[j] \notin Told
      BY <1>1, <2>1, <2>3
    <3> QED BY <2>1, <3>1, <3>2 DEF Leads, p
  <2> QED BY <2>2, <2>3
<1> QED BY <1>2, <1>3

\* While the process runs and both readers do, each of them has got to a state
\* that pipe told, from which what it has read ahead and what the pipe holds lead
\* to the one told last; and the state is the one a reader has got to.
Recent == Told \cup {"Starting"}

Got(got, mid) ==
    /\ \A s \in Std : /\ Leads(buffer[s], got[s], mid[s])
                      /\ Leads(pipe[s], mid[s], told[s])
    /\ \/ state = "Starting" /\ \A s \in Std : got[s] = "Starting"
       \/ state \in Told /\ \E s \in Std : state = got[s]

KeptInv ==
    /\ run = "start" =>
          /\ proc = "none" /\ state = "Starting"
          /\ \A s \in Std : /\ told[s] = "Starting"
                            /\ buffer[s] = <<>> /\ pipe[s] = <<>>
    /\ proc = "running" => run = "wait"
    /\ proc = "running" /\ (\A s \in Std : reader[s] = "scan") =>
          \E got, mid \in [Std -> Recent] : Got(got, mid)

LEMMA KeptRunning == ASSUME BootTypeOK, KeptInv, Running PROVE KeptInv'
<1> USE DEF procVars, readerVars, agentVars
<1>1. CASE Start
  <2> DEFINE got == [s \in Std |-> "Starting"]
  <2>1. got \in [Std -> Recent]
    BY DEF Recent
  <2>2. \A s \in Std : /\ buffer'[s] = <<>> /\ pipe'[s] = <<>>
                      /\ told'[s] = "Starting"
    BY <1>1 DEF Start, KeptInv
  <2>3. state' = "Starting"
    BY <1>1 DEF Start, KeptInv
  <2>4. Got(got, got)'
    BY <2>2, <2>3, LeadsNowhere DEF Got
  <2> QED BY <1>1, <2>1, <2>4 DEF Start, KeptInv
<1>2. CASE StartFails \/ SetExited \/ End
  BY <1>2 DEF StartFails, SetExited, End, KeptInv
<1>3. CASE Wait
  BY <1>3 DEF Wait, KeptInv
<1> QED BY <1>1, <1>2, <1>3 DEF Running, RunStep

LEMMA KeptOthers == ASSUME BootTypeOK, KeptInv, Others PROVE KeptInv'
<1> USE DEF procVars, readerVars, agentVars
<1>1. TypeOK
  BY DEF BootTypeOK
<1>2. ASSUME NEW s \in Std, NEW line \in Line, Say(s, line) PROVE KeptInv'
  <2>1. proc = "running" /\ run = "wait" /\ UNCHANGED <<proc, run, reader, buffer, state>>
    BY <1>2 DEF Say, KeptInv
  <2>2. SUFFICES ASSUME \A t \in Std : reader[t] = "scan"
                 PROVE  \E got, mid \in [Std -> Recent] : Got(got, mid)'
    BY <2>1 DEF KeptInv
  <2>3. PICK got, mid \in [Std -> Recent] : Got(got, mid)
    BY <2>1, <2>2 DEF KeptInv
  <2>4. /\ pipe'[s] = Append(pipe[s], line) /\ pipe[s] \in Seq(Line)
        /\ told'[s] = IF line \in Told THEN line ELSE told[s]
        /\ \A t \in Std \ {s} : pipe'[t] = pipe[t] /\ told'[t] = told[t]
    BY <1>1, <1>2 DEF Say, TypeOK
  <2>5. \A t \in Std : Leads(pipe'[t], mid[t], told'[t])
    <3> SUFFICES ASSUME NEW t \in Std PROVE Leads(pipe'[t], mid[t], told'[t])
      OBVIOUS
    <3>1. Leads(pipe[t], mid[t], told[t])
      BY <2>3 DEF Got
    <3>2. Leads(Append(pipe[s], line), mid[s], IF line \in Told THEN line ELSE told[s])
      BY <2>3, <2>4, LeadsOn DEF Got
    <3> QED BY <2>4, <3>1, <3>2
  <2>6. Got(got, mid)'
    BY <2>1, <2>3, <2>5 DEF Got
  <2> QED BY <2>3, <2>6
<1>3. ASSUME NEW result \in {"ok", "error"}, Exit(result) PROVE KeptInv'
  BY <1>3 DEF Exit, KeptInv
<1>4. ASSUME NEW s \in Std, Read(s) PROVE KeptInv'
  <2>1. UNCHANGED <<proc, run, reader, state, told>> /\ pipe[s] # <<>>
    BY <1>4 DEF Read
  <2>2. run # "start"
    BY <2>1 DEF KeptInv
  <2>3. SUFFICES ASSUME proc = "running", \A t \in Std : reader[t] = "scan"
                 PROVE  \E got, mid \in [Std -> Recent] : Got(got, mid)'
    BY <2>1, <2>2 DEF KeptInv
  <2>4. PICK got, mid \in [Std -> Recent] : Got(got, mid)
    BY <2>3 DEF KeptInv
  <2>5. PICK next \in [Std -> Recent] : next = [mid EXCEPT ![s] = told[s]]
    <3>1. [mid EXCEPT ![s] = told[s]] \in [Std -> Recent]
      BY <1>1, <2>4 DEF Recent, TypeOK
    <3> QED BY <3>1
  <2>6. /\ buffer[s] = <<>> /\ buffer'[s] = pipe[s] /\ pipe'[s] = <<>>
        /\ \A t \in Std \ {s} : pipe'[t] = pipe[t] /\ buffer'[t] = buffer[t]
    BY <1>1, <1>4 DEF Read, TypeOK
  <2>7. \A t \in Std : Leads(buffer'[t], got[t], next[t]) /\ Leads(pipe'[t], next[t], told[t])
    <3> SUFFICES ASSUME NEW t \in Std
                 PROVE  Leads(buffer'[t], got[t], next[t]) /\ Leads(pipe'[t], next[t], told[t])
      OBVIOUS
    <3>1. Leads(buffer[t], got[t], mid[t]) /\ Leads(pipe[t], mid[t], told[t])
      BY <2>4 DEF Got
    <3>2. CASE t = s
      <4>1. got[s] = mid[s] /\ next[s] = told[s]
        BY <2>4, <2>5, <2>6, <3>1, <3>2, LeadsNowhere
      <4> QED BY <2>6, <3>1, <3>2, <4>1, LeadsNowhere
    <3>3. CASE t # s
      <4>1. next[t] = mid[t]
        BY <2>4, <2>5, <3>3
      <4> QED BY <2>6, <3>1, <3>3, <4>1
    <3> QED BY <3>2, <3>3
  <2>8. Got(got, next)'
    BY <2>1, <2>4, <2>7 DEF Got
  <2> QED BY <2>4, <2>5, <2>8
<1>5. ASSUME NEW s \in Std, Handle(s) PROVE KeptInv'
  <2>1. UNCHANGED <<proc, run, pipe, told>> /\ buffer[s] # <<>> /\ reader[s] = "scan"
    BY <1>5 DEF Handle
  <2>2. run # "start"
    BY <2>1 DEF KeptInv
  <2>3. SUFFICES ASSUME proc = "running", \A t \in Std : reader'[t] = "scan"
                 PROVE  \E got, mid \in [Std -> Recent] : Got(got, mid)'
    BY <2>1, <2>2 DEF KeptInv
  <2>4. \A t \in Std : reader[t] = "scan"
    BY <1>1, <1>5, <2>3 DEF Handle, TypeOK
  <2>5. PICK got, mid \in [Std -> Recent] : Got(got, mid)
    BY <2>3, <2>4 DEF KeptInv
  <2> DEFINE line == Head(buffer[s])
  <2>6. /\ buffer[s] \in Seq(Line) /\ buffer'[s] = Tail(buffer[s])
        /\ \A t \in Std \ {s} : buffer'[t] = buffer[t]
        /\ state' = IF line \in Told THEN line ELSE state
    BY <1>1, <1>5 DEF Handle, TypeOK
  <2>0. PICK next \in [Std -> Recent] :
           next = [got EXCEPT ![s] = IF line \in Told THEN line ELSE @]
    <3>1. [got EXCEPT ![s] = IF line \in Told THEN line ELSE @] \in [Std -> Recent]
      BY <2>5 DEF Recent
    <3> QED BY <3>1
  <2>7. \A t \in Std \ {s} : next[t] = got[t]
    BY <2>0, <2>5
  <2>8. next[s] = IF line \in Told THEN line ELSE got[s]
    BY <2>0, <2>5
  <2> HIDE DEF line
  <2>9. \A t \in Std : Leads(buffer'[t], next[t], mid[t]) /\ Leads(pipe'[t], mid[t], told'[t])
    <3> SUFFICES ASSUME NEW t \in Std
                 PROVE  Leads(buffer'[t], next[t], mid[t]) /\ Leads(pipe'[t], mid[t], told'[t])
      OBVIOUS
    <3>1. Leads(buffer[t], got[t], mid[t]) /\ Leads(pipe[t], mid[t], told[t])
      BY <2>5 DEF Got
    <3>2. CASE t = s
      <4>1. Leads(Tail(buffer[s]), IF line \in Told THEN line ELSE got[s], mid[s])
        BY <2>1, <2>6, <3>1, <3>2, LeadsFrom DEF line
      <4> QED BY <2>1, <2>6, <2>8, <3>1, <3>2, <4>1
    <3>3. CASE t # s
      BY <2>1, <2>6, <2>7, <3>1, <3>3
    <3> QED BY <3>2, <3>3
  <2>10. \/ state' = "Starting" /\ \A t \in Std : next[t] = "Starting"
         \/ state' \in Told /\ \E t \in Std : state' = next[t]
    <3>1. CASE line \in Told
      BY <2>6, <2>8, <3>1
    <3>2. CASE line \notin Told
      <4>1. \A t \in Std : next[t] = got[t]
        BY <2>7, <2>8, <3>2
      <4> QED BY <2>5, <2>6, <3>2, <4>1 DEF Got
    <3> QED BY <3>1, <3>2
  <2>11. Got(next, mid)'
    BY <2>9, <2>10 DEF Got
  <2> QED BY <2>0, <2>5, <2>11
<1>6. ASSUME NEW s \in Std, ReadEnd(s) PROVE KeptInv'
  BY <1>6 DEF ReadEnd, KeptInv
<1>7. CASE Signal \/ ServerFails \/ OpenStream \/ CloseStream \/ GracefulStop \/ Drained
  <2>1. UNCHANGED <<proc, run, reader, buffer, pipe, state, told>>
    BY <1>7 DEF Signal, ServerFails, OpenStream, CloseStream, GracefulStop, Drained
  <2> QED BY <2>1 DEF KeptInv, Got
<1> QED BY <1>2, <1>3, <1>4, <1>5, <1>6, <1>7 DEF Others, ProcessStep, ReaderStep

LEMMA KeptInit == BootInit => KeptInv
<1> SUFFICES ASSUME BootInit PROVE KeptInv
  OBVIOUS
<1>1. \A s \in Std : pipe[s] = <<>> /\ buffer[s] = <<>> /\ told[s] = "Starting"
  BY DEF BootInit, Init
<1> QED BY <1>1 DEF BootInit, Init, KeptInv

LEMMA KeptNext ==
  BootTypeOK /\ KeptInv /\ [BootNext]_<<vars, bootVars>> => KeptInv'
<1> SUFFICES ASSUME BootTypeOK, KeptInv, [BootNext]_<<vars, bootVars>> PROVE KeptInv'
  OBVIOUS
<1>1. CASE UNCHANGED vars
  BY <1>1 DEF vars, procVars, readerVars, KeptInv, Got
<1>2. CASE Restart
  <2>1. \A s \in Std : pipe'[s] = <<>> /\ buffer'[s] = <<>> /\ told'[s] = "Starting"
    BY <1>2 DEF Restart
  <2> QED BY <1>2, <2>1 DEF Restart, KeptInv
<1>3. BootStep \/ SetRunner \/ Listen \/ GetRunnerVersion \/ Panic \/ Kill \/ Leave
         => UNCHANGED vars
  BY DEF BootStep, RefreshToken, GetMetadata, New, SetHostname, BootFails, Retry,
         SetRunner, Listen, GetRunnerVersion, Panic, Kill, Leave
<1> QED BY <1>1, <1>2, <1>3, KeptRunning, KeptOthers DEF BootNext

LEMMA KeptUp == BootTypeOK /\ KeptInv => StateKeepsUp
<1> DEFINE last == {told[s] : s \in Std} \ {"Starting"}
<1> SUFFICES ASSUME BootTypeOK, KeptInv, proc = "running",
                    \A s \in Std : reader[s] = "scan" /\ pipe[s] = <<>> /\ buffer[s] = <<>>
             PROVE  IF last = {} THEN state = "Starting" ELSE state \in last
  BY DEF StateKeepsUp
<1>1. PICK got, mid \in [Std -> Recent] : Got(got, mid)
  BY DEF KeptInv
<1>2. \A s \in Std : got[s] = told[s]
  BY <1>1, LeadsNowhere DEF Got
<1>3. "Starting" \notin Told
  BY DEF Told
<1>4. CASE state = "Starting" /\ \A s \in Std : told[s] = "Starting"
  BY <1>4
<1>5. CASE state \in Told /\ \E s \in Std : state = told[s]
  BY <1>3, <1>5
<1> QED BY <1>1, <1>2, <1>4, <1>5 DEF Got

\* What the agent tells of its runner is what one of its pipes told last, for any
\* number of lines, sizes of pipes and restarts, once the readers have kept up.
THEOREM StateIsKept == BootSpec => []StateKeepsUp
BY TypesInit, TypesNext, KeptInit, KeptNext, KeptUp, PTL DEF BootSpec

=============================================================================
