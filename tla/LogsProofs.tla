------------------------------ MODULE LogsProofs ------------------------------
(***************************************************************************)
(* For wires of any size and any number of lines: a logs command prints    *)
(* what was sent, in order, and succeeds only with all of it, whatever     *)
(* breaks in between; it implements LogStream.                             *)
(***************************************************************************)
EXTENDS Logs, SequenceTheorems, TLAPS

\* The numbers that follow a, in their order.
Follows(s, a) == \A i \in 1 .. Len(s) : s[i] = a + i

\* Where the lines of each place begin.
AtFront   == Len(printed)
AtPassing == AtFront + Len(front.lines)
AtBack    == AtPassing + Len(passing)
AtSending == AtBack + Len(back.lines)
AtEnd     == AtSending + Len(sending)

\* The places from the command to the agent hold consecutive lines, up to the
\* first wire that is broken or at its end; nothing is missing before an end.
LinesInv ==
    /\ Follows(printed, 0) /\ Follows(front.lines, AtFront) /\ AtPassing <= sent
    /\ front.end = "open" =>
          /\ Follows(passing, AtPassing) /\ Follows(back.lines, AtBack) /\ AtSending <= sent
          /\ back.end = "open" => Follows(sending, AtSending) /\ AtEnd = sent

EndsInv ==
    /\ proxy \in {"none", "find", "connect"} => handler = "none"
    /\ proxy = "returned" => front.end # "open"
    /\ handler \in {"none", "stat"} => sent = 0 /\ sending = <<>>
    /\ handler # "returned" => outcome = "none"
    /\ handler \in {"stat", "tail"} => vm = "up"
    /\ handler # "returned" /\ vm = "up" => back.end = "open"
    /\ handler = "returned" => sending = <<>> /\ outcome # "none"
    /\ back.end = "eof" => outcome = "eof" /\ (front.end = "open" => AtSending = sent)
    /\ front.end = "eof" => outcome = "eof" /\ AtPassing = sent

LogsInv == TypeOK /\ LinesInv /\ EndsInv /\ OkMeansAll

-----------------------------------------------------------------------------
(* Consecutive numbers *)

LEMMA FollowsTail ==
    ASSUME NEW s \in Seq(Nat), NEW a \in Nat, s # <<>>, Follows(s, a)
    PROVE  Head(s) = a + 1 /\ Follows(Tail(s), a + 1) /\ Len(Tail(s)) = Len(s) - 1
<1>1. Len(s) >= 1 /\ Head(s) = s[1]
  BY EmptySeq, HeadTailProperties
<1>2. /\ Len(Tail(s)) = Len(s) - 1
      /\ \A i \in 1 .. Len(Tail(s)) : Tail(s)[i] = s[i + 1]
  BY HeadTailProperties
<1> QED BY <1>1, <1>2 DEF Follows

LEMMA FollowsAppend ==
    ASSUME NEW s \in Seq(Nat), NEW a \in Nat, Follows(s, a)
    PROVE  /\ Follows(Append(s, a + Len(s) + 1), a)
           /\ Len(Append(s, a + Len(s) + 1)) = Len(s) + 1
<1>1. a + Len(s) + 1 \in Nat
  OBVIOUS
<1> QED BY <1>1, AppendProperties DEF Follows

LEMMA FollowsPrefix ==
    ASSUME NEW s \in Seq(Nat), NEW a \in Nat, Follows(s, a), NEW n \in 0 .. Len(s)
    PROVE  Follows(SubSeq(s, 1, n), a) /\ Len(SubSeq(s, 1, n)) = n
<1>1. \A i \in 1 .. n : s[i] \in Nat
  BY ElementOfSeq
<1>2. /\ Len(SubSeq(s, 1, n)) = n
      /\ \A i \in 1 .. n : SubSeq(s, 1, n)[i] = s[i]
  BY <1>1, SubSeqProperties
<1> QED BY <1>2 DEF Follows

-----------------------------------------------------------------------------
(* The invariant *)

LEMMA InitInv == Init => LogsInv
<1> SUFFICES ASSUME Init PROVE LogsInv
  OBVIOUS
<1>1. <<>> \in Seq(Nat) /\ Len(<<>>) = 0
  BY EmptySeq
<1>2. front \in Wire /\ back \in Wire
  BY <1>1 DEF Init, Idle, Wire
<1>3. Len(front.lines) <= Window /\ Len(back.lines) <= Window
  BY <1>1, BoundsAssumption DEF Init, Idle
<1>4. printed \in Seq(Nat) /\ passing \in Seq(Nat) /\ Len(passing) <= 1
      /\ sending \in Seq(Nat) /\ Len(sending) <= 1
  BY <1>1 DEF Init
<1>5. TypeOK
  <2>1. follow \in BOOLEAN
    BY FollowAssumption DEF Init
  <2>2. cancelled \in BOOLEAN
    BY DEF Init
  <2>3. sent \in 0 .. MaxLines
    BY BoundsAssumption DEF Init
  <2> QED BY <1>2, <1>3, <1>4, <2>1, <2>2, <2>3 DEF Init, TypeOK
<1> QED BY <1>5 DEF Init, LogsInv, LinesInv, EndsInv, OkMeansAll, Follows, Idle,
                    AtFront, AtPassing, AtBack, AtSending, AtEnd

LEMMA OneLine ==
    ASSUME NEW s \in Seq(Nat), Len(s) <= 1, s # <<>>
    PROVE  Len(s) = 1
<1>1. Len(s) \in Nat /\ Len(s) # 0
  BY EmptySeq
<1>2. \A n \in Nat : n # 0 /\ n <= 1 => n = 1
  OBVIOUS
<1> QED BY <1>1, <1>2, Zenon

\* What the types say of the lines.
LEMMA LineTypes ==
    ASSUME TypeOK
    PROVE  /\ printed \in Seq(Nat) /\ front.lines \in Seq(Nat) /\ back.lines \in Seq(Nat)
           /\ passing \in Seq(Nat) /\ sending \in Seq(Nat)
           /\ passing # <<>> => Len(passing) = 1
           /\ sending # <<>> => Len(sending) = 1
           /\ Len(printed) \in Nat /\ Len(front.lines) \in Nat /\ Len(back.lines) \in Nat
           /\ Len(passing) \in Nat /\ Len(sending) \in Nat
           /\ AtFront \in Nat /\ AtPassing \in Nat /\ AtBack \in Nat
           /\ AtSending \in Nat /\ AtEnd \in Nat
<1>1. /\ printed \in Seq(Nat) /\ front.lines \in Seq(Nat) /\ back.lines \in Seq(Nat)
      /\ passing \in Seq(Nat) /\ sending \in Seq(Nat)
  BY DEF TypeOK, Wire
<1>2. /\ passing # <<>> => Len(passing) = 1
      /\ sending # <<>> => Len(sending) = 1
  <2>1. Len(passing) <= 1 /\ Len(sending) <= 1
    BY DEF TypeOK
  <2> QED BY <1>1, <2>1, OneLine, Zenon
<1>3. /\ Len(printed) \in Nat /\ Len(front.lines) \in Nat /\ Len(back.lines) \in Nat
      /\ Len(passing) \in Nat /\ Len(sending) \in Nat
  BY <1>1
<1>4. AtFront \in Nat /\ AtPassing \in Nat
  BY <1>3 DEF AtFront, AtPassing
<1>5. AtBack \in Nat
  BY <1>3, <1>4 DEF AtBack
<1>6. AtSending \in Nat
  BY <1>3, <1>5 DEF AtSending
<1>7. AtEnd \in Nat
  BY <1>3, <1>6 DEF AtEnd
<1> QED BY <1>1, <1>2, <1>3, <1>4, <1>5, <1>6, <1>7

\* The command's end moves no line.
LEMMA CliKeepsInv ==
    ASSUME LogsInv, Start \/ RecvEOF \/ RecvError \/ Interrupt \/ WriteFails
    PROVE  LogsInv'
<1> USE DEF cliVars, proxyVars, agentVars, AtFront, AtPassing, AtBack, AtSending, AtEnd
<1>1. ASSUME Start PROVE LogsInv'
  <2>1. TypeOK'
    BY <1>1 DEF Start, LogsInv, TypeOK
  <2>2. LinesInv'
    BY <1>1 DEF Start, LogsInv, LinesInv
  <2>3. EndsInv' /\ OkMeansAll'
    BY <1>1 DEF Start, LogsInv, TypeOK, EndsInv, OkMeansAll
  <2> QED BY <2>1, <2>2, <2>3 DEF LogsInv
<1>2. ASSUME RecvEOF PROVE LogsInv'
  <2>1. Len(printed) = sent /\ outcome = "eof"
    BY <1>2, LineTypes DEF RecvEOF, LogsInv, EndsInv
  <2> QED BY <1>2, <2>1 DEF RecvEOF, LogsInv, TypeOK, LinesInv, EndsInv, OkMeansAll
<1>3. ASSUME RecvError PROVE LogsInv'
  <2>1. TypeOK'
    BY <1>3 DEF RecvError, LogsInv, TypeOK
  <2>2. LinesInv'
    BY <1>3 DEF RecvError, LogsInv, LinesInv
  <2>3. EndsInv' /\ OkMeansAll'
    BY <1>3 DEF RecvError, LogsInv, TypeOK, EndsInv, OkMeansAll
  <2> QED BY <2>1, <2>2, <2>3 DEF LogsInv
<1>4. ASSUME Interrupt PROVE LogsInv'
  <2>1. TypeOK'
    BY <1>4 DEF Interrupt, LogsInv, TypeOK
  <2>2. LinesInv'
    BY <1>4 DEF Interrupt, LogsInv, LinesInv
  <2>3. EndsInv' /\ OkMeansAll'
    BY <1>4 DEF Interrupt, LogsInv, TypeOK, EndsInv, OkMeansAll
  <2> QED BY <2>1, <2>2, <2>3 DEF LogsInv
<1>5. ASSUME WriteFails PROVE LogsInv'
  <2>1. TypeOK'
    BY <1>5 DEF WriteFails, LogsInv, TypeOK
  <2>2. LinesInv'
    BY <1>5 DEF WriteFails, LogsInv, LinesInv
  <2>3. EndsInv' /\ OkMeansAll'
    BY <1>5 DEF WriteFails, LogsInv, TypeOK, EndsInv, OkMeansAll
  <2> QED BY <2>1, <2>2, <2>3 DEF LogsInv
<1> QED BY <1>1, <1>2, <1>3, <1>4, <1>5

\* A line is printed: the wire has one less, from one further on.
LEMMA RecvKeepsInv == ASSUME LogsInv, Recv PROVE LogsInv'
<1> USE DEF cliVars, proxyVars, agentVars
<1>1. /\ Head(front.lines) = AtFront + 1
      /\ Follows(Tail(front.lines), AtFront + 1) /\ Len(Tail(front.lines)) = Len(front.lines) - 1
  BY LineTypes, FollowsTail DEF Recv, LogsInv, LinesInv
<1>2. front'.lines = Tail(front.lines) /\ front'.end = front.end
  BY DEF Recv, LogsInv, TypeOK, Wire
<1>3. Follows(printed, 0) /\ 0 + Len(printed) + 1 = AtFront + 1
  BY LineTypes DEF LogsInv, LinesInv, AtFront
<1>4. Follows(printed', 0) /\ AtFront' = AtFront + 1
  <2>1. printed' = Append(printed, 0 + Len(printed) + 1)
    BY <1>1, <1>3 DEF Recv
  <2>2. Follows(printed', 0) /\ Len(printed') = Len(printed) + 1
    BY <1>3, <2>1, LineTypes, FollowsAppend DEF LogsInv
  <2> QED BY <2>2 DEF AtFront
<1>5. AtPassing' = AtPassing
  <2>1. Len(front'.lines) = Len(front.lines) - 1
    BY <1>1, <1>2
  <2> QED BY <1>4, <2>1, LineTypes DEF LogsInv, AtPassing
<1>6. AtBack' = AtBack /\ AtSending' = AtSending /\ AtEnd' = AtEnd
  BY <1>5 DEF Recv, AtBack, AtSending, AtEnd
<1>7. front' \in Wire /\ Len(front'.lines) <= Window /\ printed' \in Seq(Nat)
  <2>1. Tail(front.lines) \in Seq(Nat) /\ Head(front.lines) \in Nat
    BY LineTypes, HeadTailProperties DEF Recv, LogsInv
  <2>2. printed' \in Seq(Nat)
    BY <2>1, LineTypes, AppendProperties DEF Recv, LogsInv
  <2>3. front' \in Wire
    BY <2>1 DEF Recv, LogsInv, TypeOK, Wire
  <2> QED BY <1>1, <1>2, <2>2, <2>3, LineTypes, BoundsAssumption DEF LogsInv, TypeOK
<1>8. TypeOK'
  BY <1>7 DEF Recv, LogsInv, TypeOK
<1>9. LinesInv'
  BY <1>1, <1>2, <1>4, <1>5, <1>6 DEF Recv, LogsInv, LinesInv
<1>10. EndsInv' /\ OkMeansAll'
  BY <1>2, <1>5, <1>6 DEF Recv, LogsInv, EndsInv, OkMeansAll
<1> QED BY <1>8, <1>9, <1>10 DEF LogsInv

\* A wire that breaks holds the first of its lines.
LEMMA BrokenWire ==
    ASSUME NEW wire \in Wire, NEW broken \in Broken(wire)
    PROVE  /\ broken \in Wire /\ broken.end = "error"
           /\ Len(broken.lines) \in Nat /\ Len(broken.lines) <= Len(wire.lines)
           /\ \A a \in Nat : Follows(wire.lines, a) => Follows(broken.lines, a)
<1>1. wire.lines \in Seq(Nat)
  BY DEF Wire
<1>2. PICK n \in 0 .. Len(wire.lines) :
          broken = [lines |-> SubSeq(wire.lines, 1, n), end |-> "error"]
  BY DEF Broken
<1>3. SubSeq(wire.lines, 1, n) \in Seq(Nat)
  BY <1>1, ElementOfSeq, SubSeqProperties
<1>4. Len(SubSeq(wire.lines, 1, n)) = n
  BY <1>1, ElementOfSeq, SubSeqProperties
<1>5. \A a \in Nat : Follows(wire.lines, a) => Follows(SubSeq(wire.lines, 1, n), a)
  BY <1>1, FollowsPrefix
<1>6. broken.lines = SubSeq(wire.lines, 1, n) /\ broken.end = "error" /\ broken \in Wire
  BY <1>2, <1>3 DEF Wire
<1>7. n \in Nat /\ n <= Len(wire.lines)
  BY <1>1
<1> QED BY <1>4, <1>5, <1>6, <1>7

LEMMA FrontBreaksKeepsInv == ASSUME LogsInv, FrontBreaks PROVE LogsInv'
<1> USE DEF cliVars, proxyVars, agentVars
<1>1. /\ front' \in Wire /\ front'.end = "error"
      /\ Follows(front'.lines, AtFront) /\ Len(front'.lines) <= Len(front.lines)
  BY BrokenWire, LineTypes DEF FrontBreaks, LogsInv, TypeOK, LinesInv
<1>2. AtFront' = AtFront /\ AtPassing' <= AtPassing /\ AtPassing' \in Nat
  BY <1>1, LineTypes DEF FrontBreaks, LogsInv, TypeOK, Wire, AtFront, AtPassing
<1>5. Len(front'.lines) <= Window
  <2>1. Len(front'.lines) \in Nat /\ Len(front.lines) \in Nat
    BY <1>1, LineTypes, LenProperties DEF LogsInv, Wire
  <2> QED BY <1>1, <2>1, BoundsAssumption DEF LogsInv, TypeOK
<1>3. TypeOK'
  BY <1>1, <1>5 DEF FrontBreaks, LogsInv, TypeOK
<1>4. LinesInv'
  BY <1>1, <1>2, LineTypes DEF FrontBreaks, LogsInv, LinesInv, TypeOK
<1> QED BY <1>1, <1>3, <1>4 DEF FrontBreaks, LogsInv, EndsInv, OkMeansAll

\* GetMachineLogs ends: what it was forwarding is not sent any more.
LEMMA ProxyReturnsKeepsInv ==
    ASSUME LogsInv, NEW end \in {"eof", "error"}, ProxyReturns(end), proxy # "returned",
           end = "eof" => back.end = "eof" /\ passing = <<>> /\ back.lines = <<>>,
           UNCHANGED <<cliVars, agentVars, vm, agent>>
    PROVE  LogsInv'
<1> USE DEF cliVars, proxyVars, agentVars
<1>1. /\ passing' = <<>> /\ passing' \in Seq(Nat) /\ Len(passing') = 0
      /\ front'.lines = front.lines /\ front'.end # "open"
      /\ front' \in Wire
  BY EmptySeq DEF ProxyReturns, LogsInv, TypeOK, Wire
<1>2. AtFront' = AtFront /\ AtPassing' = AtPassing
  BY <1>1 DEF AtFront, AtPassing
<1>3. TypeOK'
  BY <1>1 DEF ProxyReturns, LogsInv, TypeOK
<1>4. LinesInv'
  BY <1>1, <1>2 DEF LogsInv, LinesInv
<1>5. front'.end = "eof" => outcome' = "eof" /\ AtPassing' = sent'
  <2>1. CASE front.end = "open"
    <3> SUFFICES ASSUME front'.end = "eof" PROVE outcome' = "eof" /\ AtPassing' = sent'
      OBVIOUS
    <3>1. end = "eof"
      BY <2>1 DEF ProxyReturns, LogsInv, TypeOK, Wire
    <3>2. outcome = "eof" /\ AtSending = sent
      BY <2>1, <3>1 DEF LogsInv, EndsInv
    <3>3. AtSending = AtPassing
      BY <3>1, EmptySeq, LineTypes DEF LogsInv, AtSending, AtBack
    <3> QED BY <1>2, <3>2, <3>3
  <2>2. CASE front.end # "open"
    BY <1>2, <2>2 DEF ProxyReturns, LogsInv, EndsInv
  <2> QED BY <2>1, <2>2
<1>6. EndsInv'
  BY <1>1, <1>5 DEF ProxyReturns, LogsInv, EndsInv
<1> QED BY <1>3, <1>4, <1>6 DEF LogsInv, OkMeansAll

LEMMA ProxyKeepsInv ==
    ASSUME LogsInv,
           FindMachine \/ Connect \/ ConnectFails \/ ProxyEnds \/ ProxyCancelled
    PROVE  LogsInv'
<1> USE DEF cliVars, proxyVars, agentVars
<1>1. ASSUME FindMachine PROVE LogsInv'
  <2>1. CASE vm = "up"
    BY <1>1, <2>1 DEF FindMachine, LogsInv, TypeOK, LinesInv, EndsInv, OkMeansAll,
                      AtFront, AtPassing, AtBack, AtSending, AtEnd
  <2>2. CASE vm # "up"
    BY <1>1, <2>2, ProxyReturnsKeepsInv DEF FindMachine
  <2> QED BY <2>1, <2>2
<1>2. ASSUME ConnectFails PROVE LogsInv'
  BY <1>2, ProxyReturnsKeepsInv DEF ConnectFails
<1>3. ASSUME ProxyEnds PROVE LogsInv'
  <2>1. back.end \in {"eof", "error"}
    BY <1>3 DEF ProxyEnds, LogsInv, TypeOK, Wire
  <2> QED BY <1>3, <2>1, ProxyReturnsKeepsInv DEF ProxyEnds
<1>4. ASSUME ProxyCancelled PROVE LogsInv'
  BY <1>4, ProxyReturnsKeepsInv DEF ProxyCancelled
<1>5. ASSUME Connect PROVE LogsInv'
  <2>1. UNCHANGED <<AtFront, AtPassing, AtBack, AtSending, AtEnd>>
    BY <1>5 DEF Connect, AtFront, AtPassing, AtBack, AtSending, AtEnd
  <2>2. TypeOK'
    BY <1>5 DEF Connect, LogsInv, TypeOK
  <2>3. LinesInv'
    BY <1>5, <2>1 DEF Connect, LogsInv, LinesInv
  <2>4. EndsInv' /\ OkMeansAll'
    BY <1>5, <2>1 DEF Connect, LogsInv, EndsInv, OkMeansAll
  <2> QED BY <2>2, <2>3, <2>4 DEF LogsInv
<1> QED BY <1>1, <1>2, <1>3, <1>4, <1>5

\* A line passes from the wire to the handler: the places move, not the lines.
LEMMA ProxyRecvKeepsInv == ASSUME LogsInv, ProxyRecv PROVE LogsInv'
<1> USE DEF cliVars, proxyVars, agentVars
<1> DEFINE line == Head(back.lines)
<1>1. line \in Nat /\ Tail(back.lines) \in Seq(Nat) /\ Len(Tail(back.lines)) = Len(back.lines) - 1
  BY LineTypes, HeadTailProperties DEF ProxyRecv, LogsInv
<1>2. /\ passing' = <<line>> /\ Len(passing') = 1 /\ passing' \in Seq(Nat) /\ passing'[1] = line
      /\ Len(passing) = 0
  BY <1>1, EmptySeq DEF ProxyRecv
<1>3. back'.lines = Tail(back.lines) /\ back'.end = back.end /\ back' \in Wire
  BY <1>1 DEF ProxyRecv, LogsInv, TypeOK, Wire
<1>4. Len(back'.lines) <= Window
  BY <1>1, <1>3, LineTypes, BoundsAssumption DEF LogsInv, TypeOK
<1>5. TypeOK'
  BY <1>2, <1>3, <1>4 DEF ProxyRecv, LogsInv, TypeOK
<1>6. /\ AtFront' = AtFront /\ AtPassing' = AtPassing
      /\ AtBack = AtPassing /\ AtBack' = AtPassing + 1
  BY <1>2, LineTypes DEF ProxyRecv, LogsInv, AtFront, AtPassing, AtBack
<1>7. AtSending' = AtSending /\ AtEnd' = AtEnd
  <2>1. AtSending' = AtSending
    <3>1. Len(back'.lines) = Len(back.lines) - 1 /\ AtBack' = AtBack + 1
      BY <1>1, <1>3, <1>6
    <3>2. Len(back.lines) \in Nat /\ AtBack \in Nat
      BY LineTypes DEF LogsInv
    <3>3. AtSending' = (AtBack + 1) + (Len(back.lines) - 1)
      BY <3>1 DEF AtSending
    <3>4. AtSending = AtBack + Len(back.lines)
      BY DEF AtSending
    <3>5. \A a, n \in Nat : (a + 1) + (n - 1) = a + n
      OBVIOUS
    <3> QED BY <3>2, <3>3, <3>4, <3>5, Zenon
  <2> QED BY <2>1 DEF ProxyRecv, AtEnd
<1>8. front.end = "open" => Follows(passing', AtPassing) /\ Follows(back'.lines, AtBack')
  <2> SUFFICES ASSUME front.end = "open"
               PROVE  Follows(passing', AtPassing) /\ Follows(back'.lines, AtBack')
    OBVIOUS
  <2>1. line = AtPassing + 1 /\ Follows(Tail(back.lines), AtPassing + 1)
    BY <1>6, LineTypes, FollowsTail DEF ProxyRecv, LogsInv, LinesInv
  <2> QED BY <1>2, <1>3, <1>6, <2>1 DEF Follows
<1>9. LinesInv'
  BY <1>6, <1>7, <1>8, <1>3 DEF ProxyRecv, LogsInv, LinesInv
<1>10. EndsInv' /\ OkMeansAll'
  BY <1>3, <1>6, <1>7 DEF ProxyRecv, LogsInv, EndsInv, OkMeansAll
<1> QED BY <1>5, <1>9, <1>10 DEF LogsInv

LEMMA ProxySendKeepsInv == ASSUME LogsInv, ProxySend PROVE LogsInv'
<1> USE DEF cliVars, proxyVars, agentVars
<1>1. Len(passing) = 1 /\ Head(passing) = passing[1] /\ passing[1] = AtPassing + 1
  <2>1. passing \in Seq(Nat) /\ passing # <<>> /\ Len(passing) = 1
    BY LineTypes DEF ProxySend, LogsInv
  <2>2. Head(passing) = passing[1]
    BY <2>1, HeadTailProperties
  <2>3. Follows(passing, AtPassing)
    BY DEF ProxySend, LogsInv, LinesInv
  <2> QED BY <2>1, <2>2, <2>3 DEF Follows
<1>2. /\ front'.lines = Append(front.lines, AtFront + Len(front.lines) + 1)
      /\ front'.end = front.end
  BY <1>1 DEF ProxySend, LogsInv, TypeOK, Wire, AtPassing
<1>3. Follows(front'.lines, AtFront) /\ Len(front'.lines) = Len(front.lines) + 1
  BY <1>2, LineTypes, FollowsAppend DEF LogsInv, LinesInv
<1>4. front' \in Wire
  <2>1. AtFront + Len(front.lines) + 1 \in Nat
    BY LineTypes DEF LogsInv
  <2>2. front'.lines \in Seq(Nat)
    BY <1>2, <2>1, LineTypes, AppendProperties DEF LogsInv
  <2> QED BY <2>2 DEF ProxySend, LogsInv, TypeOK, Wire
<1>5. Len(front'.lines) <= Window
  BY <1>3, LineTypes, BoundsAssumption DEF ProxySend, LogsInv
<1>6. passing' = <<>> /\ passing' \in Seq(Nat) /\ Len(passing') = 0
  BY EmptySeq DEF ProxySend
<1>7. TypeOK'
  BY <1>4, <1>5, <1>6 DEF ProxySend, LogsInv, TypeOK
<1>8. AtFront' = AtFront /\ AtPassing' = AtPassing + 1 /\ AtBack' = AtBack
  BY <1>1, <1>3, <1>6, LineTypes DEF ProxySend, LogsInv, AtFront, AtPassing, AtBack
<1>9. AtSending' = AtSending /\ AtEnd' = AtEnd
  BY <1>8 DEF ProxySend, AtSending, AtEnd
<1>10. AtPassing + 1 <= AtSending
  <2>1. Len(back.lines) \in Nat /\ AtPassing \in Nat
    BY LineTypes DEF LogsInv
  <2>2. AtBack = AtPassing + 1
    BY <1>1, Zenon DEF AtBack
  <2>3. AtSending = (AtPassing + 1) + Len(back.lines)
    BY <2>2, Zenon DEF AtSending
  <2>4. \A a, n \in Nat : a + 1 <= (a + 1) + n
    OBVIOUS
  <2> QED BY <2>1, <2>3, <2>4, Zenon
<1>11. LinesInv'
  <2>1. /\ Follows(printed, 0) /\ Follows(front'.lines, AtFront)
        /\ Follows(back.lines, AtBack) /\ AtSending <= sent
        /\ back.end = "open" => Follows(sending, AtSending) /\ AtEnd = sent
    BY <1>3 DEF ProxySend, LogsInv, LinesInv
  <2>2. Follows(passing', AtPassing')
    BY <1>6 DEF Follows
  <2>3. AtPassing' <= sent
    <3>1. AtPassing \in Nat /\ AtSending \in Nat /\ sent \in Nat
      BY LineTypes DEF LogsInv, TypeOK
    <3> QED BY <1>8, <1>10, <2>1, <3>1
  <2> QED BY <1>8, <1>9, <2>1, <2>2, <2>3 DEF ProxySend, LinesInv
<1>12. EndsInv' /\ OkMeansAll'
  BY <1>2, <1>8, <1>9 DEF ProxySend, LogsInv, EndsInv, OkMeansAll
<1> QED BY <1>7, <1>11, <1>12 DEF LogsInv

\* The tail's next line.
LEMMA TakeKeepsInv == ASSUME LogsInv, Take PROVE LogsInv'
<1> USE DEF cliVars, proxyVars, agentVars
<1>1. sent \in Nat /\ sent + 1 \in 0 .. MaxLines
  BY BoundsAssumption DEF Take, LogsInv, TypeOK
<1>2. /\ sending' = <<sent + 1>> /\ sending' \in Seq(Nat) /\ Len(sending') = 1
      /\ sending'[1] = sent + 1 /\ Len(sending) = 0
  BY <1>1, EmptySeq DEF Take
<1>3. TypeOK'
  BY <1>1, <1>2 DEF Take, LogsInv, TypeOK
<1>4. UNCHANGED <<AtFront, AtPassing, AtBack, AtSending>>
  BY DEF Take, AtFront, AtPassing, AtBack, AtSending
<1>5. AtSending \in Nat /\ AtPassing \in Nat
  BY LineTypes DEF LogsInv
<1>6. AtEnd = AtSending /\ AtEnd' = AtSending + 1
  BY <1>2, <1>4, <1>5 DEF AtEnd
<1>7. front.end = "open" /\ back.end = "open" => Follows(sending', AtSending') /\ AtEnd' = sent'
  BY <1>1, <1>2, <1>4, <1>6 DEF Take, LogsInv, LinesInv, Follows
<1>8. AtPassing <= sent' /\ (front.end = "open" => AtSending <= sent')
  BY <1>1, <1>5 DEF Take, LogsInv, LinesInv
<1>9. LinesInv'
  BY <1>4, <1>7, <1>8 DEF Take, LogsInv, LinesInv
<1>10. outcome # "eof" /\ handler = "tail" /\ handler' = "tail" /\ outcome' = outcome
  BY DEF Take, LogsInv, EndsInv
<1>11. EndsInv'
  BY <1>10 DEF Take, LogsInv, EndsInv
<1>12. OkMeansAll'
  BY <1>10 DEF Take, LogsInv, OkMeansAll
<1> QED BY <1>3, <1>9, <1>11, <1>12 DEF LogsInv

LEMMA SendKeepsInv == ASSUME LogsInv, Send PROVE LogsInv'
<1> USE DEF cliVars, proxyVars, agentVars
<1>1. back.end = "open" /\ outcome # "eof"
  BY DEF Send, LogsInv, EndsInv
<1>2. Len(sending) = 1 /\ sending \in Seq(Nat) /\ sending # <<>>
  BY LineTypes DEF Send, LogsInv
<1>3. Head(sending) = sending[1] /\ Head(sending) \in Nat
  BY <1>2, HeadTailProperties
<1>4. /\ back'.lines = Append(back.lines, Head(sending)) /\ back'.end = back.end
  BY DEF Send, LogsInv, TypeOK, Wire
<1>5. back.lines \in Seq(Nat) /\ Len(back.lines) \in Nat /\ AtBack \in Nat
  BY LineTypes DEF LogsInv
<1>6. back'.lines \in Seq(Nat) /\ Len(back'.lines) = Len(back.lines) + 1
  BY <1>3, <1>4, <1>5, AppendProperties
<1>7. sending' = <<>> /\ sending' \in Seq(Nat) /\ Len(sending') = 0
  BY EmptySeq DEF Send
<1>8. TypeOK'
  <2>1. back' \in Wire
    BY <1>6 DEF Send, LogsInv, TypeOK, Wire
  <2>2. Len(back'.lines) <= Window
    BY <1>5, <1>6, BoundsAssumption DEF Send
  <2> QED BY <1>7, <2>1, <2>2 DEF Send, LogsInv, TypeOK
<1>9. UNCHANGED <<AtFront, AtPassing, AtBack>>
  BY DEF Send, AtFront, AtPassing, AtBack
<1>10. AtSending = AtBack + Len(back.lines) /\ AtSending' = AtSending + 1
  <2>1. AtSending' = AtBack + (Len(back.lines) + 1)
    BY <1>6, <1>9 DEF AtSending
  <2> QED BY <1>5, <2>1 DEF AtSending
<1>11. AtEnd = AtSending + 1 /\ AtEnd' = AtSending + 1
  <2>1. AtEnd' = (AtSending + 1) + 0
    BY <1>7, <1>10, Zenon DEF AtEnd
  <2>2. AtEnd = AtSending + 1
    BY <1>2, Zenon DEF AtEnd
  <2> QED BY <1>5, <1>10, <2>1, <2>2
<1>12. front.end = "open" =>
          /\ Follows(back'.lines, AtBack) /\ AtSending' <= sent /\ AtEnd' = sent
  <2> SUFFICES ASSUME front.end = "open"
               PROVE  Follows(back'.lines, AtBack) /\ AtSending' <= sent /\ AtEnd' = sent
    OBVIOUS
  <2>1. Follows(back.lines, AtBack) /\ Follows(sending, AtSending) /\ AtEnd = sent
    BY <1>1 DEF LogsInv, LinesInv
  <2>2. Head(sending) = AtBack + Len(back.lines) + 1
    BY <1>2, <1>3, <1>10, <2>1 DEF Follows
  <2>3. Follows(back'.lines, AtBack)
    BY <1>4, <1>5, <2>1, <2>2, FollowsAppend
  <2> QED BY <1>5, <1>10, <1>11, <2>1, <2>3
<1>13. Follows(sending', AtSending')
  BY <1>7 DEF Follows
<1>14. LinesInv'
  BY <1>9, <1>12, <1>13 DEF Send, LogsInv, LinesInv
<1>15. EndsInv'
  BY <1>1, <1>4, <1>7, <1>9 DEF Send, LogsInv, EndsInv
<1> QED BY <1>8, <1>14, <1>15 DEF Send, LogsInv, OkMeansAll

\* GetLogs ends: what it was sending is not sent any more.
LEMMA HandlerReturnsKeepsInv ==
    ASSUME LogsInv, NEW end \in {"eof", "error"}, HandlerReturns(end),
           handler \in {"stat", "tail"}, end = "eof" => sending = <<>>,
           UNCHANGED <<cliVars, proxyVars, sent, vm, agent>>
    PROVE  LogsInv'
<1> USE DEF cliVars, proxyVars, agentVars
<1>1. back.end = "open" /\ outcome = "none" /\ vm = "up"
  BY DEF LogsInv, EndsInv
<1>2. /\ sending' = <<>> /\ sending' \in Seq(Nat) /\ Len(sending') = 0
      /\ back'.lines = back.lines /\ back'.end = end /\ back' \in Wire
      /\ outcome' = end /\ handler' = "returned"
  BY <1>1, EmptySeq DEF HandlerReturns, LogsInv, TypeOK, Wire
<1>3. UNCHANGED <<AtFront, AtPassing, AtBack, AtSending>>
  BY <1>2 DEF AtFront, AtPassing, AtBack, AtSending
<1>4. TypeOK'
  BY <1>2 DEF LogsInv, TypeOK
<1>5. LinesInv'
  BY <1>2, <1>3 DEF LogsInv, LinesInv
<1>6. end = "eof" /\ front.end = "open" => AtSending = sent
  <2> SUFFICES ASSUME end = "eof", front.end = "open" PROVE AtSending = sent
    OBVIOUS
  <2>1. AtEnd = sent
    BY <1>1 DEF LogsInv, LinesInv
  <2>2. Len(sending) = 0 /\ AtSending \in Nat
    BY EmptySeq, LineTypes DEF LogsInv
  <2> QED BY <2>1, <2>2 DEF AtEnd
<1>7. EndsInv'
  BY <1>1, <1>2, <1>3, <1>6 DEF LogsInv, EndsInv
<1> QED BY <1>1, <1>4, <1>5, <1>7 DEF LogsInv, OkMeansAll

LEMMA HandlerKeepsInv ==
    ASSUME LogsInv, NoFile \/ StartTail \/ TailEnds \/ HandlerCancelled
    PROVE  LogsInv'
<1>1. ASSUME NoFile PROVE LogsInv'
  <2>1. sending = <<>>
    BY <1>1 DEF NoFile, LogsInv, EndsInv
  <2> QED BY <1>1, <2>1, HandlerReturnsKeepsInv DEF NoFile
<1>2. ASSUME StartTail PROVE LogsInv'
  <2> USE DEF cliVars, proxyVars
  <2>1. UNCHANGED <<AtFront, AtPassing, AtBack, AtSending, AtEnd>>
    BY <1>2 DEF StartTail, AtFront, AtPassing, AtBack, AtSending, AtEnd
  <2>2. TypeOK'
    BY <1>2 DEF StartTail, LogsInv, TypeOK
  <2>3. LinesInv'
    BY <1>2, <2>1 DEF StartTail, LogsInv, LinesInv
  <2>4. EndsInv' /\ OkMeansAll'
    BY <1>2, <2>1 DEF StartTail, LogsInv, EndsInv, OkMeansAll
  <2> QED BY <2>2, <2>3, <2>4 DEF LogsInv
<1>3. ASSUME TailEnds PROVE LogsInv'
  BY <1>3, HandlerReturnsKeepsInv DEF TailEnds
<1>4. ASSUME HandlerCancelled PROVE LogsInv'
  BY <1>4, HandlerReturnsKeepsInv DEF HandlerCancelled
<1> QED BY <1>1, <1>2, <1>3, <1>4

LEMMA MachineGoneKeepsInv == ASSUME LogsInv, MachineGone PROVE LogsInv'
<1> USE DEF cliVars, proxyVars
<1>1. /\ back' \in Wire /\ back'.end = "error"
      /\ Len(back'.lines) \in Nat /\ Len(back'.lines) <= Len(back.lines)
      /\ Follows(back.lines, AtBack) => Follows(back'.lines, AtBack)
  BY BrokenWire, LineTypes DEF MachineGone, LogsInv, TypeOK
<1>2. UNCHANGED <<AtFront, AtPassing, AtBack>>
  BY DEF MachineGone, AtFront, AtPassing, AtBack
<1>3. AtSending' <= AtSending
  <2>1. Len(back.lines) \in Nat /\ AtBack \in Nat
    BY LineTypes DEF LogsInv
  <2>2. AtSending' = AtBack + Len(back'.lines)
    BY <1>2, Zenon DEF AtSending
  <2>3. AtSending = AtBack + Len(back.lines)
    BY Zenon DEF AtSending
  <2>4. \A a, m, n \in Nat : m <= n => a + m <= a + n
    OBVIOUS
  <2> QED BY <1>1, <2>1, <2>2, <2>3, <2>4, Zenon
<1>4. AtSending' \in Nat /\ AtSending \in Nat /\ sent \in Nat
  <2>1. AtBack \in Nat
    BY LineTypes DEF LogsInv
  <2>2. AtSending' = AtBack + Len(back'.lines)
    BY <1>2, Zenon DEF AtSending
  <2>3. \A m, n \in Nat : m + n \in Nat
    OBVIOUS
  <2>4. AtSending' \in Nat
    BY <1>1, <2>1, <2>2, <2>3, Zenon
  <2> QED BY <2>4, LineTypes DEF LogsInv, TypeOK
<1>5. /\ sending' \in Seq(Nat) /\ Len(sending') <= 1
      /\ handler' \in {"none", "returned"} /\ outcome' \in {"none", "eof", "error"}
      /\ vm' = "gone" /\ agent' = "stopped"
  <2>1. /\ sending \in Seq(Nat) /\ Len(sending) <= 1
        /\ handler \in {"none", "stat", "tail", "returned"}
        /\ outcome \in {"none", "eof", "error"}
    BY DEF LogsInv, TypeOK
  <2>2. <<>> \in Seq(Nat) /\ Len(<<>>) <= 1
    BY EmptySeq
  <2>3. CASE handler \in {"stat", "tail"}
    BY <2>2, <2>3, Zenon DEF MachineGone
  <2>4. CASE handler \notin {"stat", "tail"}
    BY <2>1, <2>4, Zenon DEF MachineGone
  <2> QED BY <2>3, <2>4
<1>6. Len(back'.lines) <= Window
  <2>1. Len(back.lines) \in Nat /\ Len(back.lines) <= Window /\ Window \in Nat
    BY LineTypes, BoundsAssumption DEF LogsInv, TypeOK
  <2>2. \A l, m, n \in Nat : l <= m /\ m <= n => l <= n
    OBVIOUS
  <2> QED BY <1>1, <2>1, <2>2, Zenon
<1>7. TypeOK'
  BY <1>1, <1>5, <1>6 DEF MachineGone, LogsInv, TypeOK
<1>8. front.end = "open" => AtSending' <= sent'
  BY <1>3, <1>4 DEF MachineGone, LogsInv, LinesInv
<1>9. LinesInv'
  BY <1>1, <1>2, <1>8 DEF MachineGone, LogsInv, LinesInv
<1>10. outcome = "eof" => outcome' = outcome
  BY DEF MachineGone, LogsInv, EndsInv
<1>11. EndsInv'
  BY <1>1, <1>2, <1>10 DEF MachineGone, LogsInv, EndsInv
<1> QED BY <1>7, <1>9, <1>10, <1>11 DEF MachineGone, LogsInv, OkMeansAll

LEMMA DrainKeepsInv == ASSUME LogsInv, Signal \/ Drained PROVE LogsInv'
<1> USE DEF cliVars, proxyVars, agentVars
<1>1. UNCHANGED <<AtFront, AtPassing, AtBack, AtSending, AtEnd>>
  BY DEF Signal, Drained, AtFront, AtPassing, AtBack, AtSending, AtEnd
<1>2. TypeOK'
  BY DEF Signal, Drained, LogsInv, TypeOK
<1>3. LinesInv'
  BY <1>1 DEF Signal, Drained, LogsInv, LinesInv
<1>4. EndsInv' /\ OkMeansAll'
  BY <1>1 DEF Signal, Drained, LogsInv, EndsInv, OkMeansAll
<1> QED BY <1>2, <1>3, <1>4 DEF LogsInv

LEMMA NextKeepsInv == LogsInv /\ [Next]_vars => LogsInv'
<1>1. ASSUME LogsInv, Next PROVE LogsInv'
  BY <1>1, CliKeepsInv, RecvKeepsInv, FrontBreaksKeepsInv, ProxyKeepsInv, ProxyRecvKeepsInv,
     ProxySendKeepsInv, TakeKeepsInv, SendKeepsInv, HandlerKeepsInv, MachineGoneKeepsInv,
     DrainKeepsInv, Zenon DEF Next, CliStep, ProxyStep, HandlerStep
<1>2. ASSUME LogsInv, UNCHANGED vars PROVE LogsInv'
  <2> USE <1>2 DEF vars, cliVars, proxyVars, agentVars
  <2>1. UNCHANGED <<AtFront, AtPassing, AtBack, AtSending, AtEnd>>
    BY DEF AtFront, AtPassing, AtBack, AtSending, AtEnd
  <2>2. TypeOK'
    BY DEF LogsInv, TypeOK
  <2>3. LinesInv'
    BY <2>1 DEF LogsInv, LinesInv
  <2>4. EndsInv' /\ OkMeansAll'
    BY <2>1 DEF LogsInv, EndsInv, OkMeansAll
  <2> QED BY <2>2, <2>3, <2>4 DEF LogsInv
<1> QED BY <1>1, <1>2

LEMMA InvHolds == Spec => []LogsInv
<1> QED BY InitInv, NextKeepsInv, PTL DEF Spec

-----------------------------------------------------------------------------
(* The theorems *)

\* Every variable has its type in every reachable state, for wires of any size.
THEOREM LogsTypesAreRight == Spec => []TypeOK
<1>1. LogsInv => TypeOK
  BY DEF LogsInv
<1> QED BY <1>1, InvHolds, PTL

\* Whatever breaks, what is printed is what was sent, in order, without a gap.
THEOREM LinesKeepOrder == Spec => []PrintsInOrder
<1>1. LogsInv => PrintsInOrder
  <2> SUFFICES ASSUME LogsInv PROVE PrintsInOrder
    OBVIOUS
  <2>1. /\ printed \in Seq(Nat) /\ Len(printed) \in Nat /\ Len(front.lines) \in Nat
        /\ sent \in Nat
    BY LineTypes DEF LogsInv, TypeOK
  <2>2. AtPassing = Len(printed) + Len(front.lines) /\ AtPassing <= sent
    BY Zenon DEF LogsInv, LinesInv, AtPassing, AtFront
  <2>3. \A m, n, k \in Nat : m + n <= k => m <= k
    OBVIOUS
  <2>4. Len(printed) <= sent
    BY <2>1, <2>2, <2>3, Zenon
  <2>5. \A i \in DOMAIN printed : printed[i] = i
    BY <2>1 DEF LogsInv, LinesInv, Follows
  <2> QED BY <2>4, <2>5 DEF PrintsInOrder
<1> QED BY <1>1, InvHolds, PTL

\* A command that succeeds without an interrupt has printed every line.
THEOREM SuccessIsComplete == Spec => []OkMeansAll
<1>1. LogsInv => OkMeansAll
  BY DEF LogsInv
<1> QED BY <1>1, InvHolds, PTL

\* The command, the two handlers and the wires between them implement LogStream:
\* a line is printed as LogStream prints one, and everything else is an end, a
\* cancellation or a stutter.
THEOREM StreamIsKept == Spec => KeepsStream
<1> USE DEF Stream!Tell, Stream!Close, Stream!PrintLine, Stream!Cancel, Stream!Finish
<1>1. Init => Stream!Init
  BY DEF Init, Stream!Init
<1>2. LogsInv /\ [Next]_vars => [Stream!Next]_(Stream!streamVars)
  <2> SUFFICES ASSUME LogsInv, [Next]_vars PROVE Stream!Next \/ UNCHANGED Stream!streamVars
    OBVIOUS
  <2> USE DEF cliVars, proxyVars, agentVars, Stream!Next, Stream!streamVars
  <2>1. CASE Recv
    <3>1. Head(front.lines) = Len(printed) + 1
      BY <2>1, LineTypes, FollowsTail DEF Recv, LogsInv, LinesInv, AtFront
    <3>2. Len(front.lines) \in Nat /\ Len(front.lines) # 0 /\ Len(printed) \in Nat /\ sent \in Nat
      BY <2>1, LineTypes, EmptySeq DEF Recv, LogsInv, TypeOK
    <3>3. Len(printed) + Len(front.lines) <= sent
      BY Zenon DEF LogsInv, LinesInv, AtPassing, AtFront
    <3>4. \A m, n, k \in Nat : n # 0 /\ m + n <= k => m < k
      OBVIOUS
    <3>5. Len(printed) < sent
      BY <3>2, <3>3, <3>4, Zenon
    <3> QED BY <2>1, <3>1, <3>5 DEF Recv
  <2>2. CASE RecvEOF
    <3>1. OkMeansAll'
      BY <2>2, CliKeepsInv DEF LogsInv
    <3> QED BY <2>2, <3>1 DEF RecvEOF, OkMeansAll
  <2>3. CASE Start \/ FrontBreaks \/ Signal \/ Drained
    BY <2>3 DEF Start, FrontBreaks, Signal, Drained
  <2>4. CASE RecvError \/ Interrupt \/ WriteFails
    BY <2>4 DEF RecvError, Interrupt, WriteFails
  <2>5. CASE FindMachine \/ Connect \/ ConnectFails \/ ProxyRecv \/ ProxySend \/ ProxyEnds
             \/ ProxyCancelled
    BY <2>5 DEF FindMachine, Connect, ConnectFails, ProxyRecv, ProxySend, ProxyEnds, ProxyCancelled
  <2>6. CASE Take
    BY <2>6 DEF Take, LogsInv, EndsInv
  <2>7. CASE NoFile \/ TailEnds \/ HandlerCancelled
    BY <2>7 DEF NoFile, TailEnds, HandlerCancelled, HandlerReturns, LogsInv, EndsInv
  <2>8. CASE StartTail \/ Send
    BY <2>8 DEF StartTail, Send
  <2>9. CASE MachineGone
    BY <2>9 DEF MachineGone, LogsInv, EndsInv
  <2>10. CASE UNCHANGED vars
    BY <2>10 DEF vars
  <2> QED BY <2>1, <2>2, <2>3, <2>4, <2>5, <2>6, <2>7, <2>8, <2>9, <2>10
          DEF Next, CliStep, ProxyStep, HandlerStep
<1> QED BY <1>1, <1>2, InvHolds, PTL DEF Spec, KeepsStream, Stream!Spec

=============================================================================
