------------------------------ MODULE TailProofs ------------------------------
(***************************************************************************)
(* For files of any length, buffers of any size and any rotation: the log  *)
(* tail finds the last lines of a file, sends lines in order, leaves out   *)
(* whole buffers only, and leaves no line of a file that is renamed.       *)
(***************************************************************************)
EXTENDS Tail, SequenceTheorems, FiniteSetTheorems, WellFoundedInduction, TLAPS

\* What lies between two lines that follow on: whole buffers, in one file or from
\* the start of the next.
Pair(a, b) ==
    IF a.file = b.file
    THEN b.first > a.last /\ (b.first - a.last - 1) % MaxLine = 0
    ELSE a.file < b.file /\ (b.first - 1) % MaxLine = 0

\* A line that begins at offset p of file f would follow on line a.
Reached(a, f, p) ==
    IF a.file = f
    THEN p >= a.last /\ (p - a.last) % MaxLine = 0
    ELSE a.file < f /\ p % MaxLine = 0

\* The lines of s follow on without a gap, in file f, and end at offset p.
Chain(s, f, p) ==
    /\ \A i \in 1 .. Len(s) : s[i].file = f /\ s[i].last \in Nat
    /\ \A i \in 2 .. Len(s) : s[i].first = s[i - 1].last + 1
    /\ s # <<>> => s[Len(s)].last = p

NoRename == \A i \in 1 .. Len(events) : events[i] # "rename"
OneRename == \A i, j \in 1 .. Len(events) :
                 events[i] = "rename" /\ events[j] = "rename" => i = j

\* The files are within their bound and the offset within the file; the second file
\* is opened only when the rename of the first has been seen.
FileInv ==
    /\ \A f \in File : Len(files[f]) <= MaxPieces
    /\ pc \notin {"open", "closed"} => handle # 0 /\ pos <= Len(files[handle])
    /\ pc = "open" => watch = 0 /\ events = <<>> /\ pos = 0
    /\ path = 1 => NoRename
    /\ OneRename
    /\ pc = "reopen" => watch = 0 /\ NoRename /\ path # 1
    /\ handle = 2 => path = 2 /\ watch # 1 /\ NoRename /\ pc # "reopen"

\* What was sent ends where the scanner's line begins, or where the history that is
\* left to send begins.
OrderInv ==
    /\ SentInOrder
    /\ pc \in {"open", "seek"} => got = <<>> /\ found = <<>>
    /\ pc = "collect" => got = <<>> /\ Chain(found, handle, from)
    /\ pc = "history" =>
          /\ from = pos /\ Chain(found, handle, from)
          /\ got # <<>> =>
                /\ got[Len(got)].file = handle
                /\ IF found = <<>> THEN got[Len(got)].last = from
                   ELSE found[1].first = got[Len(got)].last + 1
    /\ pc \in {"watch", "scan", "wait", "reopen", "rewatch"} /\ got # <<>> =>
          Reached(got[Len(got)], handle, from)
    /\ pc \in {"watch", "rewatch"} => from = pos
    /\ pc = "wait" => from = pos \/ pos = from + MaxLine
    /\ pc = "scan" => pos - from < MaxLine

-----------------------------------------------------------------------------
(* Lemmas about arithmetic, sequences and the queue of events *)

LEMMA Multiple ==
  ASSUME NEW k \in Nat, NEW m \in Nat \ {0} PROVE (k * m) % m = 0
OBVIOUS

\* One more buffer is a whole number of buffers.
LEMMA OneMore ==
  ASSUME NEW x \in Nat, NEW m \in Nat \ {0}, x % m = 0 PROVE (x + m) % m = 0
<1> DEFINE k == x \div m
<1>1. k \in Nat /\ x = m * k
  BY SMTT(20)
<1> HIDE DEF k
<1>2. k + 1 \in Nat /\ (k + 1) * m = x + m
  BY <1>1
<1> QED BY <1>2, Multiple

\* A line after the last one keeps the lines in order.
LEMMA SendKeepsOrder ==
  ASSUME TypeOK, SentInOrder, NEW b \in LineType, got' = Append(got, b),
         got # <<>> => Pair(got[Len(got)], b)
  PROVE  SentInOrder' /\ got'[Len(got')] = b /\ got' # <<>>
<1>1. /\ Len(got') = Len(got) + 1 /\ Len(got) \in Nat
      /\ got'[Len(got) + 1] = b
      /\ \A i \in 1 .. Len(got) : got'[i] = got[i]
      /\ got # <<>> => Len(got) >= 1
      /\ got = <<>> => Len(got) = 0
  BY DEF TypeOK
<1>2. ASSUME NEW i \in 2 .. Len(got') PROVE Pair(got'[i - 1], got'[i])
  <2>1. CASE i = Len(got')
    <3>1. got # <<>> /\ i - 1 = Len(got)
      BY <1>1, <1>2, <2>1
    <3>2. got'[i - 1] = got[Len(got)] /\ got'[i] = b
      BY <1>1, <2>1, <3>1
    <3> QED BY <3>1, <3>2
  <2>2. CASE i # Len(got')
    <3>1. i \in 2 .. Len(got) /\ got'[i] = got[i] /\ got'[i - 1] = got[i - 1]
      BY <1>1, <1>2, <2>2
    <3> QED BY <3>1 DEF SentInOrder, Pair
  <2> QED BY <2>1, <2>2
<1>3. SentInOrder'
  BY <1>2 DEF SentInOrder, Pair
<1>4. got' # <<>>
  BY <1>1
<1> QED BY <1>1, <1>3, <1>4

LEMMA ChainOn ==
  ASSUME NEW q \in Seq(LineType), NEW f, NEW p \in Nat, NEW b \in LineType,
         Chain(q, f, p), q = <<>> \/ b.first = p + 1, b.file = f
  PROVE  Chain(Append(q, b), f, b.last)
<1> DEFINE r == Append(q, b)
<1>1. /\ Len(r) = Len(q) + 1 /\ Len(q) \in Nat
      /\ r[Len(q) + 1] = b /\ \A i \in 1 .. Len(q) : r[i] = q[i]
      /\ q # <<>> => Len(q) >= 1
      /\ q = <<>> => Len(q) = 0
      /\ b.last \in Nat
  BY DEF LineType
<1> HIDE DEF r
<1>2. \A i \in 1 .. Len(r) : r[i].file = f /\ r[i].last \in Nat
  <2> SUFFICES ASSUME NEW i \in 1 .. Len(r) PROVE r[i].file = f /\ r[i].last \in Nat
    OBVIOUS
  <2>1. CASE i \in 1 .. Len(q)
    BY <1>1, <2>1 DEF Chain
  <2>2. CASE i = Len(q) + 1
    BY <1>1, <2>2
  <2> QED BY <1>1, <2>1, <2>2
<1>3. ASSUME NEW i \in 2 .. Len(r) PROVE r[i].first = r[i - 1].last + 1
  <2>1. CASE i = Len(r)
    <3>1. q # <<>> /\ i - 1 = Len(q) /\ r[i - 1] = q[Len(q)] /\ r[i] = b
      BY <1>1, <1>3, <2>1
    <3> QED BY <3>1 DEF Chain
  <2>2. CASE i # Len(r)
    <3>1. i \in 2 .. Len(q) /\ r[i] = q[i] /\ r[i - 1] = q[i - 1]
      BY <1>1, <1>3, <2>2
    <3> QED BY <3>1 DEF Chain
  <2> QED BY <2>1, <2>2
<1>4. r[Len(r)].last = b.last
  BY <1>1
<1> QED BY <1>2, <1>3, <1>4 DEF Chain, r

LEMMA ChainFrom ==
  ASSUME NEW q \in Seq(LineType), NEW f, NEW p, NEW m \in 1 .. Len(q), Chain(q, f, p)
  PROVE  /\ Chain(SubSeq(q, m, Len(q)), f, p)
         /\ SubSeq(q, m, Len(q)) \in Seq(LineType)
<1> DEFINE n == Len(q)
           r == SubSeq(q, m, n)
<1>1. n \in Nat /\ m \in Int /\ n \in Int /\ m <= n /\ 1 <= m
  OBVIOUS
<1>2. \A i \in m .. n : q[i] \in LineType
  BY <1>1, ElementOfSeq
<1>3. /\ r \in Seq(LineType) /\ Len(r) = n - m + 1
      /\ \A i \in 1 .. Len(r) : r[i] = q[m + i - 1]
  <2> HIDE DEF r, n
  <2> QED BY <1>1, <1>2, SubSeqProperties DEF r
<1>4. q # <<>> /\ q[n].last = p
  BY <1>1 DEF Chain
<1>5. \A i \in 1 .. n : q[i].file = f /\ q[i].last \in Nat
  BY DEF Chain
<1>6. \A i \in 2 .. n : q[i].first = q[i - 1].last + 1
  BY DEF Chain
<1> HIDE DEF r, n
<1>7. \A i \in 1 .. Len(r) : r[i].file = f /\ r[i].last \in Nat
  <2> SUFFICES ASSUME NEW i \in 1 .. Len(r) PROVE r[i].file = f /\ r[i].last \in Nat
    OBVIOUS
  <2>1. m + i - 1 \in 1 .. n /\ r[i] = q[m + i - 1]
    BY <1>1, <1>3
  <2> QED BY <2>1, <1>5
<1>8. ASSUME NEW i \in 2 .. Len(r) PROVE r[i].first = r[i - 1].last + 1
  <2>1. r[i] = q[m + i - 1] /\ r[i - 1] = q[(m + i - 1) - 1] /\ m + i - 1 \in 2 .. n
    <3>1. i \in 1 .. Len(r) /\ i - 1 \in 1 .. Len(r) /\ m + (i - 1) - 1 = (m + i - 1) - 1
      BY <1>1, <1>3, <1>8
    <3> QED BY <1>1, <1>3, <3>1
  <2> QED BY <2>1, <1>6
<1>9. r[Len(r)].last = p
  <2>1. Len(r) \in 1 .. Len(r) /\ m + Len(r) - 1 = n
    BY <1>1, <1>3
  <2> QED BY <2>1, <1>3, <1>4
<1> QED BY <1>3, <1>7, <1>8, <1>9 DEF Chain, r, n

LEMMA ChainTail ==
  ASSUME NEW q \in Seq(LineType), NEW f, NEW p, q # <<>>, Chain(q, f, p)
  PROVE  /\ Chain(Tail(q), f, p)
         /\ Tail(q) = <<>> => Head(q).last = p
         /\ Tail(q) # <<>> => Tail(q)[1].first = Head(q).last + 1
         /\ Head(q).file = f /\ Head(q) \in LineType /\ Head(q) = q[1]
<1> DEFINE r == Tail(q)
<1>1. /\ Len(r) = Len(q) - 1 /\ Len(r) \in Nat /\ Len(q) \in Nat /\ Len(q) >= 1
      /\ \A i \in 1 .. Len(r) : r[i] = q[i + 1]
      /\ r # <<>> => Len(r) >= 1
      /\ r = <<>> => Len(r) = 0
      /\ Head(q) = q[1] /\ Head(q) \in LineType
  <2>1. Len(q) \in Nat /\ Len(q) # 0 /\ Head(q) = q[1]
    BY EmptySeq
  <2>2. /\ Head(q) \in LineType /\ r \in Seq(LineType) /\ Len(r) = Len(q) - 1
        /\ \A i \in 1 .. Len(r) : r[i] = q[i + 1]
    BY HeadTailProperties
  <2>3. Len(r) \in Nat /\ (Len(r) = 0 <=> r = <<>>)
    <3> HIDE DEF r
    <3> QED BY <2>2, EmptySeq
  <2> HIDE DEF r
  <2> QED BY <2>1, <2>2, <2>3
<1> HIDE DEF r
<1>2. \A i \in 1 .. Len(r) : r[i].file = f /\ r[i].last \in Nat
  <2> SUFFICES ASSUME NEW i \in 1 .. Len(r) PROVE r[i].file = f /\ r[i].last \in Nat
    OBVIOUS
  <2>1. i + 1 \in 1 .. Len(q) /\ r[i] = q[i + 1]
    BY <1>1
  <2> QED BY <2>1 DEF Chain
<1>3. ASSUME NEW i \in 2 .. Len(r) PROVE r[i].first = r[i - 1].last + 1
  <2>1. r[i] = q[i + 1] /\ r[i - 1] = q[(i + 1) - 1] /\ i + 1 \in 2 .. Len(q)
    BY <1>1, <1>3
  <2> QED BY <2>1 DEF Chain
<1>4. r # <<>> => r[Len(r)].last = p
  <2>1. r # <<>> => r[Len(r)] = q[Len(r) + 1] /\ Len(r) + 1 = Len(q)
    BY <1>1
  <2> QED BY <2>1 DEF Chain
<1>5. r # <<>> => r[1].first = q[1].last + 1
  <2>1. r # <<>> => r[1] = q[2] /\ 2 \in 2 .. Len(q)
    BY <1>1
  <2> QED BY <2>1 DEF Chain
<1>6. r = <<>> => q[1].last = p
  <2>1. r = <<>> => Len(q) = 1
    BY <1>1
  <2> QED BY <2>1 DEF Chain
<1>7. q[1].file = f
  BY <1>1 DEF Chain
<1>8. Chain(r, f, p)
  BY <1>2, <1>3, <1>4 DEF Chain
<1> QED BY <1>1, <1>5, <1>6, <1>7, <1>8 DEF r

-----------------------------------------------------------------------------
(* Types *)

LEMMA InitTypes == Init => TypeOK
<1> SUFFICES ASSUME Init PROVE TypeOK
  OBVIOUS
<1>1. PICK n \in 0 .. MaxPieces : \E written \in [1 .. n -> BOOLEAN] :
         files = <<written, <<>>>>
  BY DEF Init
<1>2. PICK written \in [1 .. n -> BOOLEAN] : files = <<written, <<>>>>
  BY <1>1
<1>3. written \in Seq(BOOLEAN)
  BY <1>1, BoundsAssumption
<1>4. files \in [File -> Seq(BOOLEAN)]
  <2>1. files = [f \in File |-> IF f = 1 THEN written ELSE <<>>]
    BY <1>2 DEF File
  <2>2. <<>> \in Seq(BOOLEAN)
    OBVIOUS
  <2> QED BY <1>3, <2>1, <2>2
<1>5. config \in Configs /\ cut \in 0 .. MaxPieces /\ pos \in 0 .. MaxPieces /\ from \in 0 .. pos
  BY BoundsAssumption DEF Init
<1>6. /\ found \in Seq(LineType) /\ got \in Seq(LineType)
      /\ events \in Seq({"write", "rename", "attrib"})
  BY EmptySeq DEF Init
<1> QED BY <1>4, <1>5, <1>6 DEF Init, TypeOK, File

\* An event more or none.
LEMMA QueuedKeeps ==
  ASSUME TypeOK, NEW e \in {"write", "rename", "attrib"}, NEW f, events' = Queued(e, f)
  PROVE  /\ events' \in Seq({"write", "rename", "attrib"})
         /\ events' = events \/ (watch = f /\ events' = Append(events, e))
BY DEF TypeOK, Queued

\* The line a scanner has read is a line.
LEMMA LineToType ==
  ASSUME TypeOK, handle \in File, NEW p \in 1 .. MaxPieces, from < p
  PROVE  /\ LineTo(p) \in LineType
         /\ LineTo(p).file = handle /\ LineTo(p).first = from + 1 /\ LineTo(p).last = p
<1>1. from + 1 \in 1 .. MaxPieces
  BY BoundsAssumption DEF TypeOK
<1> QED BY <1>1 DEF LineTo, LineType

LEMMA NextTypes == TypeOK /\ FileInv /\ [Next]_vars => TypeOK'
<1> SUFFICES ASSUME TypeOK, FileInv, [Next]_vars PROVE TypeOK'
  OBVIOUS
<1> USE BoundsAssumption DEF fsVars, tailVars
<1>0. MaxPieces \in Nat /\ pos \in 0 .. MaxPieces /\ from \in 0 .. pos
  BY DEF TypeOK
<1>e. Closed => /\ events' \in Seq({"write", "rename", "attrib"})
                /\ watch' = 0 /\ pc' = "closed"
  BY EmptySeq DEF Closed
<1>1. CASE UNCHANGED vars
  BY <1>1 DEF vars, TypeOK
<1>2. ASSUME NEW end \in BOOLEAN, Write(end) PROVE TypeOK'
  <2>1. events' \in Seq({"write", "rename", "attrib"})
    BY <1>2, QueuedKeeps DEF Write
  <2>2. files' \in [File -> Seq(BOOLEAN)]
    BY <1>2 DEF Write, TypeOK
  <2> QED BY <1>2, <2>1, <2>2 DEF Write, TypeOK
<1>3. ASSUME NEW how \in Rotations, Rotate(how) PROVE TypeOK'
  <2>1. events' \in Seq({"write", "rename", "attrib"})
    BY <1>3, QueuedKeeps DEF Rotate
  <2>2. cut' \in 0 .. MaxPieces
    <3>1. files[1] \in Seq(BOOLEAN) /\ Len(files[1]) <= MaxPieces
      BY DEF TypeOK, FileInv, File
    <3> QED BY <1>3, <3>1 DEF Rotate
  <2>3. rotated' \in {"no", "early", "rename", "remove"}
    BY <1>3 DEF Rotate
  <2>4. UNCHANGED <<files, out, watch, tailVars, got, stopped, err>> /\ path' = 0
    BY <1>3 DEF Rotate
  <2> QED BY <2>1, <2>2, <2>3, <2>4 DEF TypeOK
<1>4. CASE Create \/ Switch \/ Stop
  <2>1. CASE Create
    BY <2>1 DEF Create, TypeOK, File
  <2>2. CASE Switch
    BY <2>2 DEF Switch, TypeOK, File
  <2>3. CASE Stop
    BY <2>3 DEF Stop, TypeOK
  <2> QED BY <1>4, <2>1, <2>2, <2>3
<1>5. CASE GoroutineStep
  <2>1. CASE Open
    <3>1. CASE path = 0
      BY <1>e, <2>1, <3>1 DEF Open, Failed, TypeOK
    <3>2. CASE path # 0
      BY <2>1, <3>2 DEF Open, TypeOK
    <3> QED BY <3>1, <3>2
  <2>2. CASE Seek
    <3>1. pos' \in 0 .. MaxPieces /\ from' = pos'
      <4>1. handle \in File /\ files[handle] \in Seq(BOOLEAN) /\ Len(files[handle]) <= MaxPieces
        BY <2>2 DEF Seek, TypeOK, FileInv
      <4>2. config.tail * AvgLine \in Nat
        BY ConfigsAssumption DEF TypeOK
      <4> QED BY <2>2, <4>1, <4>2 DEF Seek
    <3>2. pc' \in {"watch", "scan", "collect"}
      BY <2>2 DEF Seek, Positioned
    <3> QED BY <2>2, <3>1, <3>2 DEF Seek, TypeOK
  <2>3. CASE Collect \/ Scan
    <3>1. handle \in File /\ pos + 1 \in 1 .. MaxPieces /\ from < pos + 1
      <4>1. handle \in File /\ pos <= Len(files[handle]) /\ pos # Len(files[handle])
        BY <2>3 DEF Collect, Scan, TypeOK, FileInv, AtEnd
      <4>2. files[handle] \in Seq(BOOLEAN) /\ Len(files[handle]) <= MaxPieces
        BY <4>1 DEF TypeOK, FileInv
      <4> QED BY <1>0, <4>1, <4>2
    <3>2. LineTo(pos + 1) \in LineType
      BY <3>1, LineToType
    <3>3. pos' = pos + 1 /\ from' \in 0 .. pos'
      BY <1>0, <2>3, <3>1 DEF Collect, Scan
    <3>4. found' \in Seq(LineType) /\ got' \in Seq(LineType)
      <4>1. found' \in {found, Append(found, LineTo(pos + 1))}
        BY <2>3, <3>3 DEF Collect, Scan, LineTo
      <4>2. got' \in {got, Append(got, LineTo(pos + 1))}
        BY <2>3, <3>3 DEF Collect, Scan, Sent, LineTo
      <4>3. found \in Seq(LineType) /\ got \in Seq(LineType)
        BY DEF TypeOK
      <4>4. /\ Append(found, LineTo(pos + 1)) \in Seq(LineType)
            /\ Append(got, LineTo(pos + 1)) \in Seq(LineType)
        BY <3>2, <4>3, AppendProperties
      <4> QED BY <4>1, <4>2, <4>3, <4>4
    <3>5. UNCHANGED <<fsVars, watch, events, config, pc, handle, stopped, err>>
      BY <2>3 DEF Collect, Scan
    <3> QED BY <3>1, <3>3, <3>4, <3>5 DEF TypeOK
  <2>4. CASE CollectEnd
    <3> DEFINE all == IF from < pos THEN Append(found, LineTo(pos)) ELSE found
    <3>1. all \in Seq(LineType) /\ config.tail \in Nat
      <4>1. from < pos => LineTo(pos) \in LineType
        BY <1>0, <2>4, LineToType DEF CollectEnd, TypeOK, FileInv
      <4> QED BY <4>1, ConfigsAssumption DEF TypeOK
    <3>2. found' = IF Len(all) > config.tail
                   THEN SubSeq(all, Len(all) - config.tail + 1, Len(all)) ELSE all
      BY <2>4 DEF CollectEnd
    <3> HIDE DEF all
    <3>3. found' \in Seq(LineType)
      BY <3>1, <3>2, ElementOfSeq, SubSeqProperties
    <3>4. from' \in 0 .. pos' /\ pos' = pos
      BY <1>0, <2>4 DEF CollectEnd
    <3> QED BY <2>4, <3>3, <3>4 DEF CollectEnd, TypeOK
  <2>5. CASE CollectTooLong
    BY <2>5 DEF CollectTooLong, Failed, Closed, TypeOK
  <2>6. CASE SendHistory
    <3>1. found' \in Seq(LineType) /\ got' \in Seq(LineType)
      <4>1. found \in Seq(LineType) /\ found # <<>> /\ got \in Seq(LineType)
        BY <2>6 DEF SendHistory, TypeOK
      <4> QED BY <2>6, <4>1, HeadTailProperties DEF SendHistory, Sent
    <3> QED BY <2>6, <3>1 DEF SendHistory, TypeOK
  <2>7. CASE HistorySent
    BY <2>7 DEF HistorySent, Positioned, TypeOK
  <2>8. CASE Watch
    <3>1. CASE path = 0
      BY <1>e, <2>8, <3>1 DEF Watch, Failed, TypeOK
    <3>2. CASE path # 0
      BY <2>8, <3>2 DEF Watch, TypeOK
    <3> QED BY <3>1, <3>2
  <2>9. CASE ScanEnd
    <3>1. got' \in Seq(LineType)
      <4>1. from < pos => LineTo(pos) \in LineType
        BY <1>0, <2>9, LineToType DEF ScanEnd, TypeOK, FileInv
      <4>2. got' = got \/ (from < pos /\ got' = Append(got, LineTo(pos)))
        BY <2>9 DEF ScanEnd, Sent
      <4>3. got \in Seq(LineType)
        BY DEF TypeOK
      <4> QED BY <4>1, <4>2, <4>3, AppendProperties
    <3>2. from' \in 0 .. pos' /\ pos' = pos
      BY <1>0, <2>9 DEF ScanEnd
    <3>3. /\ events' \in Seq({"write", "rename", "attrib"})
          /\ watch' \in File \cup {0} /\ pc' \in {"wait", "closed"}
      BY <1>e, <2>9 DEF ScanEnd, Scanned, TypeOK
    <3>4. UNCHANGED <<fsVars, config, handle, found, stopped, err>>
      BY <2>9 DEF ScanEnd
    <3> QED BY <3>1, <3>2, <3>3, <3>4 DEF TypeOK
  <2>10. CASE ScanTooLong
    <3>1. pos' \in 0 .. MaxPieces /\ pos' = pos + 1 /\ from' = from
      <4>1. handle \in File /\ pos <= Len(files[handle]) /\ pos # Len(files[handle])
        BY <2>10 DEF ScanTooLong, TypeOK, FileInv, AtEnd, TooLong
      <4>2. files[handle] \in Seq(BOOLEAN) /\ Len(files[handle]) <= MaxPieces
        BY <4>1 DEF TypeOK, FileInv
      <4> QED BY <1>0, <2>10, <4>1, <4>2 DEF ScanTooLong
    <3>2. /\ events' \in Seq({"write", "rename", "attrib"})
          /\ watch' \in File \cup {0} /\ pc' \in {"wait", "closed"}
      BY <1>e, <2>10 DEF ScanTooLong, Scanned, TypeOK
    <3>3. from' \in 0 .. pos'
      BY <1>0, <3>1
    <3>4. UNCHANGED <<fsVars, config, handle, found, got, stopped, err>>
      BY <2>10 DEF ScanTooLong
    <3> QED BY <3>1, <3>2, <3>3, <3>4 DEF TypeOK
  <2>11. CASE WriteEvent \/ OtherEvent \/ RenameEvent
    <3>1. events # <<>> => Tail(events) \in Seq({"write", "rename", "attrib"})
      BY HeadTailProperties DEF TypeOK
    <3>2. /\ events' \in Seq({"write", "rename", "attrib"})
          /\ watch' \in File \cup {0} /\ pc' \in {pc, "scan", "reopen", "closed"}
      BY <1>e, <2>11, <3>1 DEF WriteEvent, OtherEvent, RenameEvent, TypeOK
    <3>3. UNCHANGED <<fsVars, config, handle, pos, found, stopped, err>>
      BY <2>11 DEF WriteEvent, OtherEvent, RenameEvent
    <3>4. from' \in {from, pos}
      BY <2>11 DEF WriteEvent, OtherEvent, RenameEvent
    <3>5. got' \in Seq(LineType)
      <4>1. CASE got' = got
        BY <4>1 DEF TypeOK
      <4>2. CASE got' # got
        <5>1. pc = "wait" /\ from < pos /\ got' = Append(got, LineTo(pos))
          BY <2>11, <4>2 DEF WriteEvent, OtherEvent, RenameEvent, Sent
        <5>2. pos \in 1 .. MaxPieces /\ handle \in File
          BY <1>0, <5>1 DEF TypeOK, FileInv
        <5>3. LineTo(pos) \in LineType
          BY <5>1, <5>2, LineToType
        <5> QED BY <5>1, <5>3, AppendProperties DEF TypeOK
      <4> QED BY <4>1, <4>2
    <3>6. from' \in 0 .. pos'
      BY <1>0, <3>3, <3>4
    <3> QED BY <3>2, <3>3, <3>5, <3>6 DEF TypeOK
  <2>12. CASE Reopen
    BY <2>12 DEF Reopen, TypeOK
  <2>13. CASE Cancelled
    BY <2>13 DEF Cancelled, Closed, TypeOK
  <2> QED BY <1>5, <2>1, <2>2, <2>3, <2>4, <2>5, <2>6, <2>7, <2>8, <2>9, <2>10, <2>11,
             <2>12, <2>13 DEF GoroutineStep
<1> QED BY <1>1, <1>2, <1>3, <1>4, <1>5 DEF Next

-----------------------------------------------------------------------------
(* The files and the events *)

LEMMA InitFiles == Init => FileInv
<1> SUFFICES ASSUME Init PROVE FileInv
  OBVIOUS
<1>1. PICK n \in 0 .. MaxPieces : \E written \in [1 .. n -> BOOLEAN] :
         files = <<written, <<>>>>
  BY DEF Init
<1>2. PICK written \in [1 .. n -> BOOLEAN] : files = <<written, <<>>>>
  BY <1>1
<1>3. Len(written) = n /\ Len(<<>>) = 0 /\ n \in Nat
  BY BoundsAssumption
<1>4. \A f \in File : Len(files[f]) <= MaxPieces
  BY <1>1, <1>2, <1>3, BoundsAssumption DEF File
<1>5. NoRename /\ OneRename
  BY <1>3 DEF Init, NoRename, OneRename
<1>6. watch = 0 /\ events = <<>> /\ pos = 0 /\ pc = "open" /\ handle = 0
  BY DEF Init
<1> QED BY <1>4, <1>5, <1>6 DEF FileInv

\* A write is no rename.
LEMMA WriteQueued ==
  ASSUME TypeOK, NEW e \in {"write", "attrib"}, NEW f, events' = Queued(e, f)
  PROVE  /\ NoRename => NoRename'
         /\ OneRename => OneRename'
         /\ watch = 0 /\ f # 0 => events' = events
<1>1. events' = events \/ (watch = f /\ events' = Append(events, e))
  BY QueuedKeeps
<1>2. CASE events' = events
  BY <1>2 DEF NoRename, OneRename
<1>3. CASE watch = f /\ events' = Append(events, e)
  <2>1. /\ Len(events') = Len(events) + 1 /\ Len(events) \in Nat
        /\ events'[Len(events) + 1] = e
        /\ \A i \in 1 .. Len(events) : events'[i] = events[i]
    BY <1>3 DEF TypeOK
  <2>2. \A i \in 1 .. Len(events') :
           events'[i] = "rename" => i \in 1 .. Len(events) /\ events[i] = "rename"
    BY <2>1
  <2> QED BY <1>3, <2>2 DEF NoRename, OneRename
<1> QED BY <1>1, <1>2, <1>3

LEMMA NextFiles == TypeOK /\ FileInv /\ [Next]_vars => FileInv'
<1> SUFFICES ASSUME TypeOK, FileInv, [Next]_vars PROVE FileInv'
  OBVIOUS
<1> USE DEF fsVars, tailVars
<1>1. CASE UNCHANGED vars
  BY <1>1 DEF vars, FileInv, NoRename, OneRename
<1>2. ASSUME NEW end \in BOOLEAN, Write(end) PROVE FileInv'
  <2>1. /\ UNCHANGED <<path, watch, pc, handle, pos>>
        /\ out \in File
    BY <1>2 DEF Write, TypeOK
  <2>2. /\ \A f \in File : Len(files'[f]) <= MaxPieces /\ Len(files'[f]) >= Len(files[f])
    <3>1. \A f \in File : files[f] \in Seq(BOOLEAN) /\ Len(files[f]) \in Nat
      BY DEF TypeOK
    <3>2. \A f \in File \ {out} : files'[f] = files[f]
      BY <1>2 DEF Write, TypeOK
    <3>3. files'[out] = Append(files[out], end) /\ Len(files[out]) < MaxPieces
      BY <1>2, <2>1 DEF Write, TypeOK
    <3>4. Len(files'[out]) = Len(files[out]) + 1
      BY <2>1, <3>1, <3>3
    <3> QED BY <2>1, <3>1, <3>2, <3>3, <3>4, BoundsAssumption DEF FileInv
  <2>3. handle' # 0 => handle \in File
    BY <2>1 DEF TypeOK
  <2>4. pc' \notin {"open", "closed"} => handle' # 0 /\ pos' <= Len(files'[handle'])
    <3>1. \A f \in File : Len(files[f]) \in Nat /\ Len(files'[f]) \in Nat
      BY <1>2 DEF Write, TypeOK
    <3>2. pos \in Nat
      BY BoundsAssumption DEF TypeOK
    <3> QED BY <2>1, <2>2, <2>3, <3>1, <3>2 DEF FileInv
  <2>5. /\ NoRename => NoRename'
        /\ OneRename'
        /\ watch = 0 => events' = events
    BY <1>2, <2>1, WriteQueued DEF Write, FileInv, File
  <2> QED BY <2>1, <2>2, <2>4, <2>5 DEF FileInv
<1>3. ASSUME NEW how \in Rotations, Rotate(how) PROVE FileInv'
  <2>1. /\ path = 1 /\ path' = 0 /\ NoRename
        /\ UNCHANGED <<files, watch, pc, handle, pos>>
        /\ events' \in {Queued("rename", 1), Queued("attrib", 1)}
    BY <1>3 DEF Rotate, FileInv
  <2>2. events' = events \/ (watch = 1 /\ \E e \in {"rename", "attrib"} : events' = Append(events, e))
    BY <2>1, QueuedKeeps
  <2>3. OneRename'
    <3>1. CASE events' = events
      BY <2>1, <3>1 DEF NoRename, OneRename
    <3>2. ASSUME NEW e \in {"rename", "attrib"}, events' = Append(events, e)
          PROVE  \A i \in 1 .. Len(events') : events'[i] = "rename" => i = Len(events) + 1
      <4>1. /\ Len(events') = Len(events) + 1 /\ Len(events) \in Nat
            /\ \A i \in 1 .. Len(events) : events'[i] = events[i]
        BY <3>2 DEF TypeOK
      <4> QED BY <2>1, <4>1 DEF NoRename, OneRename
    <3> QED BY <2>2, <3>1, <3>2 DEF OneRename
  <2>4. watch = 0 => events' = events
    BY <2>2
  <2>5. handle # 2 /\ pc # "reopen"
    BY <2>1 DEF FileInv
  <2> QED BY <2>1, <2>3, <2>4, <2>5 DEF FileInv
<1>4. CASE Create \/ Switch \/ Stop
  BY <1>4 DEF Create, Switch, Stop, FileInv, NoRename, OneRename
<1>5. CASE GoroutineStep
  <2>0. Closed => NoRename' /\ watch' = 0 /\ pc' = "closed" /\ events' = <<>> /\ Len(events') = 0
    BY EmptySeq DEF Closed, NoRename, OneRename
  <2>1. CASE Open
    <3>1. CASE path = 0
      BY <2>0, <2>1, <3>1 DEF Open, Failed, FileInv, OneRename
    <3>2. CASE path # 0
      <4>1. /\ path \in File /\ files[path] \in Seq(BOOLEAN) /\ watch = 0 /\ events = <<>>
        BY <2>1, <3>2 DEF Open, TypeOK, FileInv
      <4>2. Len(events) = 0 /\ NoRename /\ NoRename'
        BY <2>1, <3>2, <4>1, EmptySeq DEF Open, NoRename, OneRename
      <4>3. pc' = "seek" /\ handle' = path /\ UNCHANGED <<fsVars, watch, events, pos>>
        BY <2>1, <3>2 DEF Open
      <4>4. pos <= Len(files[path])
        <5>1. Len(files[path]) \in Nat
          BY <4>1
        <5> QED BY <2>1, <5>1 DEF Open, FileInv
      <4>5. path # 0 /\ watch # 1
        BY <3>2, <4>1
      <4> QED BY <4>2, <4>3, <4>4, <4>5 DEF FileInv, OneRename
    <3> QED BY <3>1, <3>2
  <2>2. CASE Seek
    <3>1. handle \in File /\ files[handle] \in Seq(BOOLEAN) /\ config.tail * AvgLine \in Nat
      BY <2>2, ConfigsAssumption, BoundsAssumption DEF Seek, TypeOK, FileInv
    <3>2. pos' <= Len(files[handle])
      BY <2>2, <3>1 DEF Seek
    <3>3. pc' \in {"watch", "scan", "collect"} /\ pc = "seek"
      BY <2>2 DEF Seek, Positioned
    <3>4. UNCHANGED <<fsVars, watch, events, handle>>
      BY <2>2 DEF Seek
    <3> QED BY <3>1, <3>2, <3>3, <3>4 DEF FileInv, NoRename, OneRename
  <2>3. CASE Collect \/ Scan
    <3>1. /\ pc \in {"collect", "scan"} /\ pos' = pos + 1 /\ pos # Len(files[handle])
          /\ UNCHANGED <<fsVars, watch, events, pc, handle>>
      BY <2>3 DEF Collect, Scan, AtEnd
    <3>2. /\ handle \in File /\ pos \in Nat /\ files[handle] \in Seq(BOOLEAN)
          /\ pos <= Len(files[handle])
      BY <3>1 DEF FileInv, TypeOK
    <3>3. pos' <= Len(files[handle])
      BY <3>1, <3>2
    <3> QED BY <3>1, <3>2, <3>3 DEF FileInv, NoRename, OneRename
  <2>4. CASE CollectEnd \/ SendHistory \/ HistorySent
    BY <2>4 DEF CollectEnd, SendHistory, HistorySent, Positioned, FileInv, NoRename, OneRename
  <2>5. CASE CollectTooLong
    BY <2>0, <2>5 DEF CollectTooLong, Failed, FileInv, OneRename
  <2>6. CASE Watch
    BY <2>0, <2>6 DEF Watch, Failed, FileInv, NoRename, OneRename
  <2>7. CASE ScanEnd
    BY <2>0, <2>7 DEF ScanEnd, Scanned, FileInv, NoRename, OneRename
  <2>8. CASE ScanTooLong
    <3>1. handle \in File /\ pos + 1 <= Len(files[handle])
      <4>1. handle \in File /\ pos <= Len(files[handle]) /\ pos # Len(files[handle])
        BY <2>8 DEF ScanTooLong, TypeOK, FileInv, AtEnd, TooLong
      <4>2. files[handle] \in Seq(BOOLEAN) /\ pos \in Nat
        BY <4>1 DEF TypeOK
      <4> QED BY <4>1, <4>2
    <3>2. pc = "scan" /\ pos' = pos + 1 /\ UNCHANGED <<fsVars, handle>>
      BY <2>8 DEF ScanTooLong
    <3>3. CASE Closed
      BY <2>0, <3>2, <3>3 DEF FileInv, OneRename
    <3>4. CASE pc' = "wait" /\ UNCHANGED <<watch, events>>
      BY <3>1, <3>2, <3>4 DEF FileInv, NoRename, OneRename
    <3> QED BY <2>8, <3>3, <3>4 DEF ScanTooLong, Scanned
  <2>9. CASE WriteEvent \/ OtherEvent \/ RenameEvent
    <3>0. /\ pc = "wait" /\ events # <<>>
          /\ UNCHANGED <<fsVars, handle, pos>>
      BY <2>9 DEF WriteEvent, OtherEvent, RenameEvent
    <3>1. CASE Closed
      BY <2>0, <3>0, <3>1 DEF FileInv, OneRename
    <3>2. CASE events' = Tail(events)
      <4>1. /\ Len(events') = Len(events) - 1 /\ Len(events) \in Nat /\ Len(events) >= 1
            /\ \A i \in 1 .. Len(events') : events'[i] = events[i + 1]
            /\ Head(events) = events[1]
        BY <3>0, <3>2, HeadTailProperties, EmptySeq DEF TypeOK
      <4>2. NoRename => NoRename'
        BY <4>1 DEF NoRename
      <4>3. OneRename'
        <5> SUFFICES ASSUME NEW i \in 1 .. Len(events'), NEW j \in 1 .. Len(events'),
                            events'[i] = "rename", events'[j] = "rename"
                     PROVE  i = j
          BY DEF OneRename
        <5>1. i + 1 \in 1 .. Len(events) /\ j + 1 \in 1 .. Len(events)
          BY <4>1
        <5>2. i + 1 = j + 1
          BY <4>1, <5>1 DEF FileInv, OneRename
        <5> QED BY <5>2
      <4>4. CASE WriteEvent \/ OtherEvent
        BY <3>0, <4>2, <4>3, <4>4 DEF WriteEvent, OtherEvent, FileInv
      <4>5. CASE RenameEvent /\ ~Closed
        <5>1. events[1] = "rename" /\ pc' = "reopen" /\ watch' = 0
          BY <4>1, <4>5 DEF RenameEvent
        <5>2. NoRename'
          <6> SUFFICES ASSUME NEW i \in 1 .. Len(events'), events'[i] = "rename" PROVE FALSE
            BY DEF NoRename
          <6>1. i + 1 \in 1 .. Len(events) /\ 1 \in 1 .. Len(events)
            BY <4>1
          <6>2. i + 1 = 1
            BY <4>1, <5>1, <6>1 DEF FileInv, OneRename
          <6> QED BY <6>2
        <5>3. ~NoRename
          BY <4>1, <5>1 DEF NoRename, OneRename
        <5> QED BY <3>0, <4>3, <5>1, <5>2, <5>3 DEF FileInv
      <4> QED BY <2>9, <3>1, <4>4, <4>5
    <3> QED BY <2>9, <3>1, <3>2 DEF WriteEvent, OtherEvent, RenameEvent
  <2>10. CASE Reopen
    BY <2>10 DEF Reopen, FileInv, NoRename, OneRename, TypeOK, File
  <2>11. CASE Cancelled
    BY <2>0, <2>11 DEF Cancelled, FileInv, OneRename
  <2> QED BY <1>5, <2>1, <2>2, <2>3, <2>4, <2>5, <2>6, <2>7, <2>8, <2>9, <2>10, <2>11
          DEF GoroutineStep
<1> QED BY <1>1, <1>2, <1>3, <1>4, <1>5 DEF Next

-----------------------------------------------------------------------------
(* The order of the lines *)

LEMMA InitOrder == Init => OrderInv
<1> SUFFICES ASSUME Init PROVE OrderInv
  OBVIOUS
<1>1. SentInOrder
  BY EmptySeq DEF Init, SentInOrder
<1> QED BY <1>1 DEF Init, OrderInv

\* A line that begins where the next one is expected follows on.
LEMMA ReachedPair ==
  ASSUME NEW a \in LineType, NEW b \in LineType, NEW p \in Nat, b.first = p + 1,
         Reached(a, b.file, p)
  PROVE  Pair(a, b)
<1>1. a.last \in Nat /\ MaxLine \in Nat \ {0}
  BY BoundsAssumption DEF LineType
<1>2. b.first - a.last - 1 = p - a.last /\ b.first - 1 = p
  BY <1>1
<1>3. CASE a.file = b.file
  <2>1. p >= a.last /\ (p - a.last) % MaxLine = 0
    BY <1>3 DEF Reached
  <2>2. b.first > a.last
    BY <1>1, <2>1
  <2>3. (b.first - a.last - 1) % MaxLine = 0
    BY <1>2, <2>1
  <2> QED BY <1>3, <2>2, <2>3 DEF Pair
<1>4. CASE a.file # b.file
  BY <1>2, <1>4 DEF Pair, Reached
<1> QED BY <1>3, <1>4

\* The line that the scanner has read up to offset p follows on what was sent, and
\* the next one on it.
LEMMA ScannedLine ==
  ASSUME TypeOK, OrderInv, pc \in {"scan", "wait"}, handle \in File,
         NEW p \in 1 .. MaxPieces, from < p, got' = Append(got, LineTo(p)), UNCHANGED handle
  PROVE  SentInOrder' /\ got' # <<>> /\ Reached(got'[Len(got')], handle, p)
<1>1. /\ LineTo(p) \in LineType
      /\ LineTo(p).file = handle /\ LineTo(p).first = from + 1 /\ LineTo(p).last = p
  BY LineToType
<1>2. got # <<>> => Pair(got[Len(got)], LineTo(p))
  <2> SUFFICES ASSUME got # <<>> PROVE Pair(got[Len(got)], LineTo(p))
    OBVIOUS
  <2>1. got[Len(got)] \in LineType
    <3>1. Len(got) \in 1 .. Len(got)
      BY EmptySeq DEF TypeOK
    <3> QED BY <3>1, ElementOfSeq DEF TypeOK
  <2>2. Reached(got[Len(got)], handle, from)
    BY DEF OrderInv
  <2>3. from \in Nat
    BY BoundsAssumption DEF TypeOK
  <2> QED BY <1>1, <2>1, <2>2, <2>3, ReachedPair
<1>3. SentInOrder' /\ got'[Len(got')] = LineTo(p) /\ got' # <<>>
  BY <1>1, <1>2, SendKeepsOrder DEF OrderInv
<1>4. Reached(LineTo(p), handle, p)
  <2>1. p - p = 0 /\ 0 % MaxLine = 0
    BY BoundsAssumption
  <2> QED BY <1>1, <2>1 DEF Reached
<1> QED BY <1>3, <1>4

\* One buffer further on is as good.
LEMMA ReachedFurther ==
  ASSUME NEW a \in LineType, NEW f, NEW p \in Nat, Reached(a, f, p)
  PROVE  Reached(a, f, p + MaxLine)
<1>1. a.last \in Nat /\ MaxLine \in Nat \ {0}
  BY BoundsAssumption DEF LineType
<1>2. CASE a.file = f
  <2>1. p - a.last \in Nat /\ (p - a.last) % MaxLine = 0
    BY <1>1, <1>2 DEF Reached
  <2>2. ((p - a.last) + MaxLine) % MaxLine = 0
    BY <1>1, <2>1, OneMore
  <2>3. (p + MaxLine) - a.last = (p - a.last) + MaxLine /\ p + MaxLine >= a.last
    BY <1>1, <2>1
  <2> QED BY <1>2, <2>2, <2>3 DEF Reached
<1>3. CASE a.file # f
  BY <1>1, <1>3, OneMore DEF Reached
<1> QED BY <1>2, <1>3

LEMMA NextOrder == TypeOK /\ FileInv /\ OrderInv /\ [Next]_vars => OrderInv'
<1> SUFFICES ASSUME TypeOK, FileInv, OrderInv, [Next]_vars PROVE OrderInv'
  OBVIOUS
<1> USE DEF fsVars, tailVars
<1>0. /\ pos \in Nat /\ from \in Nat /\ from <= pos /\ pos <= MaxPieces /\ MaxPieces \in Nat
      /\ found \in Seq(LineType) /\ got \in Seq(LineType) /\ MaxLine \in Nat \ {0}
  BY BoundsAssumption DEF TypeOK
<1>1. ASSUME UNCHANGED <<tailVars, got>> PROVE OrderInv'
  BY <1>1 DEF OrderInv, SentInOrder
<1>2. ASSUME UNCHANGED got, pc' = "closed" PROVE OrderInv'
  BY <1>2 DEF OrderInv, SentInOrder
<1>3. got # <<>> => got[Len(got)] \in LineType
  <2>1. got # <<>> => Len(got) \in 1 .. Len(got)
    BY <1>0, EmptySeq
  <2> QED BY <1>0, <2>1, ElementOfSeq
<1>4. UNCHANGED got => SentInOrder'
  BY DEF OrderInv, SentInOrder
<1>5. CASE GoroutineStep
  <2>1. CASE Open
    BY <1>2, <1>4, <2>1 DEF Open, Failed, Closed, OrderInv
  <2>2. CASE Seek
    <3>1. /\ got = <<>> /\ got' = <<>> /\ found' = <<>> /\ from' = pos'
          /\ pc' \in {"watch", "scan", "collect"}
      BY <2>2 DEF Seek, Positioned, OrderInv
    <3>2. Chain(<<>>, handle', from')
      BY EmptySeq DEF Chain
    <3>3. pos' - from' = 0 /\ 0 < MaxLine
      BY <1>0, <2>2, <3>1, NextTypes, BoundsAssumption DEF TypeOK
    <3> QED BY <1>4, <3>1, <3>2, <3>3 DEF OrderInv
  <2>3. CASE Collect
    <3>1. /\ got = <<>> /\ UNCHANGED <<got, pc, handle>> /\ pc = "collect"
          /\ Chain(found, handle, from)
      BY <2>3 DEF Collect, OrderInv
    <3>2. Chain(found', handle, from')
      <4>1. CASE UNCHANGED <<from, found>>
        BY <3>1, <4>1
      <4>2. CASE from' = pos + 1 /\ found' = Append(found, LineTo(pos + 1))
        <5>1. handle \in File /\ pos + 1 \in 1 .. MaxPieces /\ from < pos + 1
          <6>1. handle \in File /\ pos <= Len(files[handle]) /\ pos # Len(files[handle])
            BY <2>3 DEF Collect, TypeOK, FileInv, AtEnd
          <6>2. files[handle] \in Seq(BOOLEAN) /\ Len(files[handle]) <= MaxPieces
            BY <6>1 DEF TypeOK, FileInv
          <6> QED BY <1>0, <6>1, <6>2
        <5>2. /\ LineTo(pos + 1) \in LineType /\ LineTo(pos + 1).file = handle
              /\ LineTo(pos + 1).first = from + 1 /\ LineTo(pos + 1).last = pos + 1
          BY <5>1, LineToType
        <5> QED BY <1>0, <3>1, <4>2, <5>2, ChainOn
      <4> QED BY <2>3, <4>1, <4>2 DEF Collect
    <3> QED BY <1>4, <3>1, <3>2 DEF OrderInv
  <2>4. CASE CollectEnd
    <3> DEFINE all == IF from < pos THEN Append(found, LineTo(pos)) ELSE found
    <3>1. /\ got = <<>> /\ UNCHANGED <<got, handle, pos>> /\ pc = "collect"
          /\ Chain(found, handle, from) /\ pc' = "history" /\ from' = pos
          /\ handle \in File
      BY <2>4 DEF CollectEnd, OrderInv, TypeOK, FileInv
    <3>2. Chain(all, handle, pos) /\ all \in Seq(LineType)
      <4>1. CASE from < pos
        <5>1. /\ LineTo(pos) \in LineType /\ LineTo(pos).file = handle
              /\ LineTo(pos).first = from + 1 /\ LineTo(pos).last = pos
          BY <1>0, <3>1, <4>1, LineToType
        <5> QED BY <1>0, <3>1, <4>1, <5>1, ChainOn
      <4>2. CASE ~(from < pos)
        BY <1>0, <3>1, <4>2
      <4> QED BY <4>1, <4>2
    <3>3. config.tail \in Nat
      BY ConfigsAssumption DEF TypeOK
    <3>4. found' = IF Len(all) > config.tail
                   THEN SubSeq(all, Len(all) - config.tail + 1, Len(all)) ELSE all
      BY <2>4 DEF CollectEnd
    <3> HIDE DEF all
    <3>5. Chain(found', handle, pos)
      <4>1. CASE Len(all) > config.tail /\ config.tail # 0
        <5>1. Len(all) - config.tail + 1 \in 1 .. Len(all)
          BY <3>2, <3>3, <4>1
        <5> QED BY <3>2, <3>4, <4>1, <5>1, ChainFrom
      <4>2. CASE Len(all) > config.tail /\ config.tail = 0
        <5>1. found' = <<>>
          BY <3>2, <3>4, <4>2, SubSeqEmpty
        <5> QED BY <5>1, EmptySeq DEF Chain
      <4>3. CASE ~(Len(all) > config.tail)
        BY <3>2, <3>4, <4>3
      <4> QED BY <4>1, <4>2, <4>3
    <3> QED BY <1>4, <3>1, <3>5 DEF OrderInv
  <2>5. CASE CollectTooLong
    BY <1>2, <2>5 DEF CollectTooLong, Failed, Closed
  <2>6. CASE SendHistory
    <3>1. /\ pc = "history" /\ UNCHANGED <<pc, handle, from, pos>> /\ found # <<>>
          /\ got' = Append(got, Head(found)) /\ found' = Tail(found)
          /\ from = pos /\ Chain(found, handle, from)
      BY <2>6 DEF SendHistory, Sent, OrderInv
    <3>2. /\ Chain(found', handle, from)
          /\ found' = <<>> => Head(found).last = from
          /\ found' # <<>> => found'[1].first = Head(found).last + 1
          /\ Head(found).file = handle /\ Head(found) \in LineType /\ Head(found) = found[1]
      BY <1>0, <3>1, ChainTail
    <3>3. got # <<>> => Pair(got[Len(got)], Head(found))
      <4> SUFFICES ASSUME got # <<>> PROVE Pair(got[Len(got)], Head(found))
        OBVIOUS
      <4> DEFINE a == got[Len(got)]
      <4>1. a.file = handle /\ Head(found).first = a.last + 1
        BY <3>1, <3>2 DEF OrderInv
      <4>2. a.last \in Nat
        BY <1>3 DEF LineType
      <4> HIDE DEF a
      <4>3. (a.last + 1) - a.last - 1 = 0 /\ 0 % MaxLine = 0 /\ a.last + 1 > a.last
        BY <1>0, <4>2
      <4> QED BY <3>2, <4>1, <4>3 DEF Pair, a
    <3>4. SentInOrder' /\ got'[Len(got')] = Head(found) /\ got' # <<>>
      BY <3>1, <3>2, <3>3, SendKeepsOrder DEF OrderInv
    <3> QED BY <3>1, <3>2, <3>4 DEF OrderInv
  <2>7. CASE HistorySent
    <3>1. /\ pc = "history" /\ UNCHANGED <<got, handle, from, pos, found>> /\ found = <<>>
          /\ pc' \in {"watch", "scan"} /\ from = pos
      BY <2>7 DEF HistorySent, Positioned, OrderInv
    <3>2. got # <<>> => Reached(got[Len(got)], handle, from)
      <4>1. got # <<>> => got[Len(got)].file = handle /\ got[Len(got)].last = from
        BY <3>1 DEF OrderInv
      <4>2. from - from = 0 /\ 0 % MaxLine = 0
        BY <1>0
      <4> QED BY <1>0, <4>1, <4>2 DEF Reached
    <3>3. pos - from < MaxLine
      BY <1>0, <3>1
    <3> QED BY <1>4, <3>1, <3>2, <3>3 DEF OrderInv
  <2>8. CASE Watch
    <3>1. CASE path = 0
      BY <1>2, <2>8, <3>1 DEF Watch, Failed, Closed
    <3>2. CASE path # 0
      <4>1. pos - from < MaxLine
        BY <1>0, <2>8 DEF Watch, OrderInv
      <4> QED BY <1>4, <2>8, <3>2, <4>1 DEF Watch, OrderInv
    <3> QED BY <3>1, <3>2
  <2>9. CASE Scan
    <3>1. /\ pc = "scan" /\ pc' = "scan" /\ pos' = pos + 1 /\ UNCHANGED <<handle, found>>
      BY <2>9 DEF Scan
    <3>2. handle \in File /\ pos + 1 \in 1 .. MaxPieces /\ from < pos + 1
      <4>1. handle \in File /\ pos <= Len(files[handle]) /\ pos # Len(files[handle])
        BY <2>9 DEF Scan, TypeOK, FileInv, AtEnd
      <4>2. files[handle] \in Seq(BOOLEAN) /\ Len(files[handle]) <= MaxPieces
        BY <4>1 DEF TypeOK, FileInv
      <4> QED BY <1>0, <4>1, <4>2
    <3>3. CASE files[handle][pos + 1]
      <4>1. from' = pos + 1 /\ got' = Append(got, LineTo(pos + 1))
        BY <2>9, <3>1, <3>3 DEF Scan, Sent, LineTo
      <4>2. SentInOrder' /\ Reached(got'[Len(got')], handle, pos + 1)
        BY <3>1, <3>2, <4>1, ScannedLine
      <4>3. pos' - from' < MaxLine
        BY <1>0, <3>1, <4>1
      <4> QED BY <3>1, <4>1, <4>2, <4>3 DEF OrderInv
    <3>4. CASE ~files[handle][pos + 1]
      <4>1. UNCHANGED <<from, got>> /\ ~(pos + 1 - from >= MaxLine)
        BY <2>9, <3>4 DEF Scan, TooLong
      <4>2. pos' - from' < MaxLine
        BY <1>0, <3>1, <4>1
      <4> QED BY <1>4, <3>1, <4>1, <4>2 DEF OrderInv
    <3> QED BY <3>3, <3>4
  <2>10. CASE ScanEnd
    <3>1. /\ pc = "scan" /\ UNCHANGED <<handle, found, pos>> /\ from' = pos
          /\ pc' \in {"wait", "closed"} /\ handle \in File
      BY <2>10 DEF ScanEnd, Scanned, Closed, TypeOK, FileInv
    <3>2. CASE from < pos
      <4>1. got' = Append(got, LineTo(pos)) /\ pos \in 1 .. MaxPieces
        BY <1>0, <2>10, <3>2 DEF ScanEnd, Sent
      <4>2. SentInOrder' /\ Reached(got'[Len(got')], handle, pos)
        BY <3>1, <3>2, <4>1, ScannedLine
      <4> QED BY <3>1, <4>2 DEF OrderInv
    <3>3. CASE ~(from < pos)
      <4>1. got' = got /\ from = pos
        BY <1>0, <2>10, <3>3 DEF ScanEnd
      <4> QED BY <1>4, <3>1, <4>1 DEF OrderInv
    <3> QED BY <3>2, <3>3
  <2>11. CASE ScanTooLong
    <3>1. /\ pc = "scan" /\ UNCHANGED <<handle, from, found, got>> /\ pos' = pos + 1
          /\ pc' \in {"wait", "closed"} /\ pos + 1 - from >= MaxLine
      BY <2>11 DEF ScanTooLong, TooLong, Scanned, Closed
    <3>2. pos - from < MaxLine
      BY <3>1 DEF OrderInv
    <3>3. pos + 1 = from + MaxLine
      BY <1>0, <3>1, <3>2
    <3> QED BY <1>4, <3>1, <3>3 DEF OrderInv
  <2>12. CASE WriteEvent \/ (OtherEvent /\ from = pos)
    <3>1. /\ pc = "wait" /\ pc' \in {"scan", "wait"}
          /\ UNCHANGED <<handle, pos, found, got>> /\ from' = pos
      BY <1>0, <2>12 DEF WriteEvent, OtherEvent
    <3>2. pos - pos = 0 /\ 0 < MaxLine
      BY <1>0
    <3>3. got # <<>> => Reached(got[Len(got)], handle, pos)
      BY <1>0, <1>3, <3>1, ReachedFurther DEF OrderInv
    <3> QED BY <1>4, <3>1, <3>2, <3>3 DEF OrderInv
  <2>13. CASE OtherEvent /\ from # pos
    <3>1. /\ pc = "wait" /\ pc' = "wait" /\ UNCHANGED <<handle, pos>> /\ from' = pos
          /\ from < pos /\ got' = Append(got, LineTo(pos))
      BY <1>0, <2>13 DEF OtherEvent, Sent
    <3>2. pos \in 1 .. MaxPieces /\ handle \in File
      BY <1>0, <3>1 DEF TypeOK, FileInv
    <3>3. SentInOrder' /\ Reached(got'[Len(got')], handle, pos)
      BY <3>1, <3>2, ScannedLine
    <3> QED BY <3>1, <3>3 DEF OrderInv
  <2>14. CASE RenameEvent
    <3>1. /\ pc = "wait" /\ pc' \in {"reopen", "closed"}
          /\ UNCHANGED <<handle, pos, from, found, got>>
      BY <2>14 DEF RenameEvent, Closed
    <3> QED BY <1>4, <3>1 DEF OrderInv
  <2>15. CASE Reopen
    <3>1. /\ pc = "reopen" /\ pc' = "rewatch" /\ handle' = path /\ pos' = 0 /\ from' = 0
          /\ path = 2 /\ UNCHANGED <<found, got>> /\ handle = 1
      BY <2>15 DEF Reopen, FileInv, TypeOK, File
    <3>2. got # <<>> => Reached(got[Len(got)], handle', 0)
      <4> SUFFICES ASSUME got # <<>> PROVE Reached(got[Len(got)], 2, 0)
        BY <3>1
      <4>1. Reached(got[Len(got)], 1, from) /\ got[Len(got)].file \in {1, 2}
        BY <1>3, <3>1 DEF OrderInv, LineType, File
      <4>2. got[Len(got)].file = 1
        BY <4>1 DEF Reached
      <4>3. 0 % MaxLine = 0
        BY <1>0
      <4> QED BY <4>2, <4>3 DEF Reached
    <3> QED BY <1>4, <3>1, <3>2 DEF OrderInv
  <2>16. CASE Cancelled
    BY <1>2, <2>16 DEF Cancelled, Closed
  <2> QED BY <1>5, <2>1, <2>2, <2>3, <2>4, <2>5, <2>6, <2>7, <2>8, <2>9, <2>10, <2>11,
             <2>12, <2>13, <2>14, <2>15, <2>16 DEF GoroutineStep
<1>6. CASE UNCHANGED vars
  BY <1>1, <1>6 DEF vars
<1>7. CASE ~GoroutineStep /\ Next
  BY <1>1, <1>7 DEF Next, Write, Rotate, Create, Switch, Stop
<1> QED BY <1>5, <1>6, <1>7

-----------------------------------------------------------------------------
(* The types, and the order of what is sent *)

LEMMA TailInvariant == Spec => [](TypeOK /\ FileInv /\ OrderInv)
BY InitTypes, InitFiles, InitOrder, NextTypes, NextFiles, NextOrder, PTL DEF Spec

\* The goroutine's positions, offsets and lines keep their types for files of any
\* length and any number of lines asked for: a line never begins after its end, and
\* no estimated offset is before the file.
THEOREM TailTypesAreRight == Spec => []TypeOK
BY TailInvariant, PTL

\* Whatever is written, renamed or created while it reads, what the tail sends
\* follows on, and only whole buffers are left out.
THEOREM LinesFollowOn == Spec => []SentInOrder
<1>1. OrderInv => SentInOrder
  BY DEF OrderInv
<1> QED BY <1>1, TailInvariant, PTL


-----------------------------------------------------------------------------
(* The old file *)

\* What was sent reaches up to place n of the first file, or further.
SentTo(s, n) == n > 0 => \E i \in 1 .. Len(s) : s[i].file = 1 /\ s[i].last >= n

\* The scanner is in a line that does not end before its offset; tailLines finds
\* a line, and what it found is sent.
ScannerInv ==
    /\ pc \in {"collect", "scan", "wait"} => \A q \in from + 1 .. pos : ~files[handle][q]
    /\ pc = "collect" => config.tail # 0 /\ (found = <<>> => from < Len(files[handle]))
    /\ pc = "history" => found # <<>> \/ got # <<>>

\* While the goroutine waits, what it has not read of the file, or of the part that
\* was written before the renaming, is announced by an event, before that of the
\* renaming.
Announced ==
    /\ rotated = "no" /\ watch = 1 =>
          \/ Len(files[1]) <= pos
          \/ \E j \in 1 .. Len(events) : events[j] = "write"
    /\ rotated = "rename" =>
          \A k \in 1 .. Len(events) : events[k] = "rename" =>
              cut <= pos \/ \E j \in 1 .. k - 1 : events[j] = "write"

\* Of a file whose lines fit, everything before the offset has been sent, and
\* everything before the cut once the goroutine leaves the file.
OldFileInv ==
    /\ cut <= Len(files[1])
    /\ path = 1 <=> rotated = "no"
    /\ pc = "open" => rotated # "rename"
    /\ Fits(files[1]) =>
          /\ handle = 1 /\ pc \in {"watch", "scan", "wait", "reopen", "rewatch"} =>
                SentTo(got, from)
          /\ handle = 1 /\ pc = "wait" => Announced
          /\ rotated = "rename" /\ (handle = 2 \/ pc = "reopen") => SentTo(got, cut)

\* A file is only written to at its end.
LEMMA FilesGrow ==
  ASSUME TypeOK, [Next]_vars
  PROVE  /\ \A f \in File : /\ Len(files[f]) <= Len(files'[f])
                            /\ \A q \in 1 .. Len(files[f]) : files'[f][q] = files[f][q]
         /\ \A f \in File : Len(files[f]) \in Nat /\ Len(files'[f]) \in Nat
<1>1. \A f \in File : files[f] \in Seq(BOOLEAN) /\ Len(files[f]) \in Nat
  BY DEF TypeOK
<1>2. CASE \E end \in BOOLEAN : Write(end)
  <2>1. PICK end \in BOOLEAN : Write(end)
    BY <1>2
  <2>2. \A f \in File : files'[f] = files[f] \/ files'[f] = Append(files[f], end)
    BY <2>1 DEF Write, TypeOK
  <2> QED BY <1>1, <2>2
<1>3. CASE UNCHANGED files
  BY <1>1, <1>3
<1>4. (\E end \in BOOLEAN : Write(end)) \/ UNCHANGED files
  BY DEF Next, Rotate, Create, Switch, Stop, GoroutineStep, Open, Seek, Collect, CollectEnd,
         CollectTooLong, SendHistory, HistorySent, Watch, Scan, ScanEnd, ScanTooLong, WriteEvent,
         OtherEvent, RenameEvent, Reopen, Cancelled, vars, fsVars
<1> QED BY <1>2, <1>3, <1>4

\* A line that does not fit keeps not fitting.
LEMMA FitsStays ==
  ASSUME TypeOK, [Next]_vars, Fits(files'[1])
  PROVE  Fits(files[1])
<1>1. /\ Len(files[1]) <= Len(files'[1]) /\ Len(files[1]) \in Nat /\ Len(files'[1]) \in Nat
      /\ \A q \in 1 .. Len(files[1]) : files'[1][q] = files[1][q]
  BY FilesGrow DEF File
<1>2. MaxLine \in Nat \ {0}
  BY BoundsAssumption
<1>3. ASSUME NEW p \in 1 .. Len(files[1]) - MaxLine + 1
      PROVE  \E q \in p .. p + MaxLine - 1 : files[1][q]
  <2>1. p \in 1 .. Len(files'[1]) - MaxLine + 1
    BY <1>1, <1>2
  <2>2. PICK q \in p .. p + MaxLine - 1 : files'[1][q]
    BY <2>1 DEF Fits
  <2>3. q \in 1 .. Len(files[1])
    BY <1>1, <1>2
  <2> QED BY <1>1, <2>2, <2>3
<1> QED BY <1>3 DEF Fits

\* What was sent stays sent.
LEMMA SentStays ==
  ASSUME NEW s \in Seq(LineType), NEW b, NEW n, SentTo(s, n)
  PROVE  SentTo(Append(s, b), n)
<1>1. /\ Len(Append(s, b)) = Len(s) + 1 /\ Len(s) \in Nat
      /\ \A i \in 1 .. Len(s) : Append(s, b)[i] = s[i]
  OBVIOUS
<1> QED BY <1>1 DEF SentTo

LEMMA SentNow ==
  ASSUME NEW s \in Seq(LineType), NEW b \in LineType, b.file = 1
  PROVE  SentTo(Append(s, b), b.last)
<1>1. /\ Len(Append(s, b)) = Len(s) + 1 /\ Len(s) \in Nat
      /\ Append(s, b)[Len(s) + 1] = b
  OBVIOUS
<1>2. b.last \in Nat
  BY BoundsAssumption DEF LineType
<1> QED BY <1>1, <1>2 DEF SentTo

LEMMA InitOldFile == Init => ScannerInv /\ OldFileInv
<1> SUFFICES ASSUME Init PROVE ScannerInv /\ OldFileInv
  OBVIOUS
<1>1. TypeOK
  BY InitTypes
<1>2. files[1] \in Seq(BOOLEAN) /\ Len(files[1]) \in Nat
  BY <1>1 DEF TypeOK, File
<1> QED BY <1>2 DEF Init, ScannerInv, OldFileInv

LEMMA NextScanner ==
  ASSUME TypeOK, FileInv, OrderInv, ScannerInv, [Next]_vars
  PROVE  ScannerInv'
<1> USE DEF fsVars, tailVars
<1>0. /\ pos \in Nat /\ from \in Nat /\ from <= pos /\ pos <= MaxPieces /\ MaxPieces \in Nat
      /\ found \in Seq(LineType) /\ got \in Seq(LineType)
      /\ AvgLine \in Nat \ {0}
  BY BoundsAssumption DEF TypeOK
<1>1. ASSUME UNCHANGED <<tailVars, got>> PROVE ScannerInv'
  <2>1. CASE pc \in {"collect", "scan", "wait"}
    <3>1. handle \in File /\ pos <= Len(files[handle])
      BY <2>1 DEF FileInv, TypeOK
    <3>2. /\ Len(files[handle]) <= Len(files'[handle])
          /\ Len(files[handle]) \in Nat /\ Len(files'[handle]) \in Nat
          /\ \A q \in 1 .. Len(files[handle]) : files'[handle][q] = files[handle][q]
      BY <3>1, FilesGrow
    <3>3. \A q \in from + 1 .. pos : q \in 1 .. Len(files[handle])
      BY <1>0, <3>1, <3>2
    <3>4. \A q \in from + 1 .. pos : ~files'[handle][q]
      BY <2>1, <3>2, <3>3 DEF ScannerInv
    <3>5. from < Len(files[handle]) => from < Len(files'[handle])
      BY <1>0, <3>2
    <3> QED BY <1>1, <2>1, <3>4, <3>5 DEF ScannerInv
  <2>2. CASE pc \notin {"collect", "scan", "wait"}
    BY <1>1, <2>2 DEF ScannerInv
  <2> QED BY <2>1, <2>2
<1>2. ASSUME pc' \notin {"collect", "scan", "wait", "history"} PROVE ScannerInv'
  BY <1>2 DEF ScannerInv
<1>3. ASSUME pc' \in {"scan", "wait"}, from' = pos', pos' \in Nat PROVE ScannerInv'
  <2>1. \A n \in Nat : \A q \in n + 1 .. n : FALSE
    OBVIOUS
  <2>2. \A q \in from' + 1 .. pos' : FALSE
    BY <1>3, <2>1
  <2> QED BY <1>3, <2>2 DEF ScannerInv
<1>4. ASSUME Collect \/ Scan PROVE ScannerInv'
  <2>1. /\ pc \in {"collect", "scan"} /\ UNCHANGED <<pc, handle, files, config>> /\ pos' = pos + 1
    BY <1>4 DEF Collect, Scan
  <2>2. CASE from' = pos'
    <3>1. \A q \in from' + 1 .. pos' : FALSE
      BY <1>0, <2>1, <2>2
    <3>2. pc' = "collect" => config'.tail # 0 /\ found' # <<>>
      <4>1. pc = "collect" => Collect
        BY <1>4 DEF Scan
      <4>2. pc = "collect" => found' \in {found, Append(found, LineTo(pos'))}
        BY <4>1 DEF Collect
      <4>3. pc = "collect" /\ found' = found => UNCHANGED <<from, found>>
        BY <1>0, <4>1 DEF Collect
      <4>4. from # pos + 1
        BY <1>0
      <4>5. Append(found, LineTo(pos')) # <<>>
        BY <1>0
      <4> QED BY <2>1, <2>2, <4>2, <4>3, <4>4, <4>5 DEF ScannerInv
    <3> QED BY <2>1, <3>1, <3>2 DEF ScannerInv
  <2>3. CASE from' # pos'
    <3>1. ~files[handle][pos + 1] /\ from' = from /\ (pc = "collect" => found' = found)
      BY <1>4, <2>3 DEF Collect, Scan
    <3>2. \A q \in from + 1 .. pos + 1 : q = pos + 1 \/ q \in from + 1 .. pos
      BY <1>0
    <3>3. \A q \in from' + 1 .. pos' : ~files'[handle'][q]
      BY <2>1, <3>1, <3>2 DEF ScannerInv
    <3> QED BY <2>1, <3>1, <3>3 DEF ScannerInv
  <2> QED BY <2>2, <2>3
<1>5. ASSUME Seek PROVE ScannerInv'
  <2>1. CASE pc' = "collect"
    <3>1. /\ config.tail # 0 /\ Len(files[handle]) # 0 /\ UNCHANGED <<files, handle, config>>
          /\ from' = pos'
          /\ pos' = IF Len(files[handle]) - config.tail * AvgLine < 0 THEN 0
                    ELSE Len(files[handle]) - config.tail * AvgLine
      BY <1>5, <2>1 DEF Seek, Positioned
    <3>2. Len(files[handle]) \in Nat /\ config.tail \in Nat
      BY <1>5, ConfigsAssumption DEF Seek, TypeOK, FileInv
    <3>3. config.tail * AvgLine > 0 /\ config.tail * AvgLine \in Nat
      BY <1>0, <3>1, <3>2
    <3> DEFINE start == Len(files[handle]) - config.tail * AvgLine
    <3>4. start \in Int /\ start < Len(files[handle])
      BY <3>2, <3>3
    <3> HIDE DEF start
    <3>5. pos' = IF start < 0 THEN 0 ELSE start
      BY <3>1 DEF start
    <3>6. pos' \in Nat /\ pos' < Len(files[handle])
      BY <3>1, <3>2, <3>4, <3>5
    <3>7. \A q \in from' + 1 .. pos' : FALSE
      BY <3>1, <3>6
    <3> QED BY <2>1, <3>1, <3>6, <3>7 DEF ScannerInv
  <2>2. CASE pc' # "collect"
    <3>1. pc' \in {"watch", "scan"} /\ from' = pos' /\ pos' = 0
      BY <1>5, <2>2 DEF Seek, Positioned
    <3> QED BY <1>2, <1>3, <3>1
  <2> QED BY <2>1, <2>2
<1>6. ASSUME CollectEnd PROVE ScannerInv'
  <2> DEFINE all == IF from < pos THEN Append(found, LineTo(pos)) ELSE found
  <2>1. /\ pc = "collect" /\ AtEnd /\ pc' = "history"
        /\ found' = IF Len(all) > config.tail
                    THEN SubSeq(all, Len(all) - config.tail + 1, Len(all)) ELSE all
    BY <1>6 DEF CollectEnd
  <2>2. config.tail \in Nat \ {0}
    BY <2>1, ConfigsAssumption DEF ScannerInv, TypeOK
  <2>3. all # <<>> /\ all \in Seq(LineType)
    <3>1. from < pos => LineTo(pos) \in LineType
      BY <1>0, <2>1, LineToType DEF TypeOK, FileInv
    <3>2. found = <<>> => from < pos
      BY <2>1 DEF ScannerInv, AtEnd
    <3> QED BY <1>0, <3>1, <3>2
  <2> HIDE DEF all
  <2>4. found' # <<>>
    <3>1. CASE Len(all) > config.tail
      <4>1. Len(all) \in Nat /\ Len(all) - config.tail + 1 \in 1 .. Len(all)
        BY <2>2, <2>3, <3>1
      <4>2. \A i \in Len(all) - config.tail + 1 .. Len(all) : all[i] \in LineType
        BY <2>2, <2>3, <4>1, ElementOfSeq
      <4>3. Len(SubSeq(all, Len(all) - config.tail + 1, Len(all))) = config.tail
        BY <2>2, <4>1, <4>2, SubSeqProperties
      <4>4. Len(<<>>) = 0
        OBVIOUS
      <4> QED BY <2>1, <2>2, <3>1, <4>3, <4>4
    <3>2. CASE ~(Len(all) > config.tail)
      BY <2>1, <2>3, <3>2
    <3> QED BY <3>1, <3>2
  <2> QED BY <2>1, <2>4 DEF ScannerInv
<1>7. ASSUME SendHistory PROVE ScannerInv'
  <2>1. got' # <<>> /\ pc' = "history"
    BY <1>0, <1>7 DEF SendHistory, Sent
  <2> QED BY <2>1 DEF ScannerInv
<1>8. ASSUME HistorySent \/ Watch \/ ScanEnd \/ WriteEvent \/ OtherEvent PROVE ScannerInv'
  <2>1. from' = pos' /\ pos' \in Nat
    BY <1>0, <1>8 DEF HistorySent, Watch, ScanEnd, WriteEvent, OtherEvent, OrderInv
  <2>2. pc' \in {"watch", "scan", "wait", "closed"}
    BY <1>8 DEF HistorySent, Watch, ScanEnd, Scanned, WriteEvent, OtherEvent, Positioned,
                Failed, Closed
  <2>3. CASE pc' \in {"scan", "wait"}
    BY <1>3, <2>1, <2>3
  <2>4. CASE pc' \notin {"scan", "wait"}
    BY <1>2, <2>2, <2>4
  <2> QED BY <2>3, <2>4
<1>9. ASSUME ScanTooLong PROVE ScannerInv'
  <2>1. /\ pc = "scan" /\ pc' \in {"wait", "closed"} /\ UNCHANGED <<files, handle, from>>
        /\ pos' = pos + 1 /\ ~files[handle][pos + 1]
    BY <1>9 DEF ScanTooLong, TooLong, Scanned, Closed
  <2>2. \A q \in from + 1 .. pos + 1 : q = pos + 1 \/ q \in from + 1 .. pos
    BY <1>0
  <2>3. \A q \in from' + 1 .. pos' : ~files'[handle'][q]
    BY <2>1, <2>2 DEF ScannerInv
  <2> QED BY <2>1, <2>3 DEF ScannerInv
<1>10. ASSUME Open \/ CollectTooLong \/ RenameEvent \/ Reopen \/ Cancelled
      PROVE  ScannerInv'
  <2>1. pc' \notin {"collect", "scan", "wait", "history"}
    BY <1>10 DEF Open, CollectTooLong, RenameEvent, Reopen, Cancelled, Failed, Closed
  <2> QED BY <1>2, <2>1
<1>11. CASE UNCHANGED vars
  BY <1>1, <1>11 DEF vars
<1>12. CASE Next /\ ~GoroutineStep
  BY <1>1, <1>12 DEF Next, Write, Rotate, Create, Switch, Stop
<1>13. CASE GoroutineStep
  BY <1>4, <1>5, <1>6, <1>7, <1>8, <1>9, <1>10, <1>13 DEF GoroutineStep
<1> QED BY <1>11, <1>12, <1>13

LEMMA NextOldFile ==
  ASSUME TypeOK, FileInv, OrderInv, ScannerInv, OldFileInv, [Next]_vars
  PROVE  OldFileInv'
<1> USE DEF fsVars, tailVars
<1>0. /\ pos \in Nat /\ from \in Nat /\ from <= pos /\ pos <= MaxPieces /\ MaxPieces \in Nat
      /\ found \in Seq(LineType) /\ got \in Seq(LineType) /\ MaxLine \in Nat \ {0}
      /\ cut \in Nat
  BY BoundsAssumption DEF TypeOK
<1>f. /\ Len(files[1]) <= Len(files'[1]) /\ Len(files[1]) \in Nat /\ Len(files'[1]) \in Nat
      /\ Fits(files'[1]) => Fits(files[1])
  BY FilesGrow, FitsStays DEF File
<1>e. /\ Len(events) \in Nat
      /\ \A i \in 1 .. Len(events) : events[i] \in {"write", "rename", "attrib"}
  BY DEF TypeOK
\* A scanner that gave up has found a line that does not fit.
<1>w. Fits(files[1]) /\ handle = 1 /\ pc = "wait" => from = pos
  <2> SUFFICES ASSUME Fits(files[1]), handle = 1, pc = "wait", pos = from + MaxLine PROVE FALSE
    BY DEF OrderInv
  <2>1. pos <= Len(files[1])
    BY DEF FileInv
  <2>2. from + 1 \in 1 .. Len(files[1]) - MaxLine + 1
    BY <1>0, <1>f, <2>1
  <2>3. PICK q \in from + 1 .. from + 1 + MaxLine - 1 : files[1][q]
    BY <2>2 DEF Fits
  <2>4. q \in from + 1 .. pos
    BY <1>0
  <2> QED BY <2>3, <2>4 DEF ScannerInv
\* The file and the cut, then what was sent.
<1> DEFINE Sent1 == handle = 1 /\ pc \in {"watch", "scan", "wait", "reopen", "rewatch"} =>
                       SentTo(got, from)
           Told1 == handle = 1 /\ pc = "wait" => Announced
           Left1 == rotated = "rename" /\ (handle = 2 \/ pc = "reopen") => SentTo(got, cut)
<1>i. Fits(files[1]) => Sent1 /\ Told1 /\ Left1
  BY DEF OldFileInv
<1>q. /\ cut <= Len(files[1])
      /\ path = 1 <=> rotated = "no"
      /\ pc = "open" => rotated # "rename"
  BY DEF OldFileInv
<1>1. ASSUME GoroutineStep PROVE OldFileInv'
  <2>0. UNCHANGED fsVars
    BY <1>1 DEF GoroutineStep, Open, Seek, Collect, CollectEnd, CollectTooLong, SendHistory,
                HistorySent, Watch, Scan, ScanEnd, ScanTooLong, WriteEvent, OtherEvent,
                RenameEvent, Reopen, Cancelled
  <2>1. pc' # "open"
    BY <1>1 DEF GoroutineStep, Open, Seek, Collect, CollectEnd, CollectTooLong, SendHistory,
                HistorySent, Watch, Scan, ScanEnd, ScanTooLong, WriteEvent, OtherEvent,
                RenameEvent, Reopen, Cancelled, Failed, Closed, Scanned, Positioned
  <2> SUFFICES ASSUME Fits(files[1]) PROVE Sent1' /\ Told1' /\ Left1'
    BY <1>q, <2>0, <2>1 DEF OldFileInv
  <2>2. Sent1 /\ Told1 /\ Left1
    BY <1>i
  <2>n. \A s : SentTo(s, 0)
    BY DEF SentTo
  <2> HIDE DEF Sent1, Told1, Left1
  \* A goroutine that ends keeps its file.
  <2>3. ASSUME pc' = "closed", UNCHANGED got, handle' \in {handle, 0} PROVE Sent1' /\ Told1' /\ Left1'
    BY <2>0, <2>2, <2>3 DEF Sent1, Told1, Left1
  \* Before it scans, it has sent nothing.
  <2>4. ASSUME pc' \in {"seek", "collect", "history"}, UNCHANGED handle,
               got' = got \/ \E b : got' = Append(got, b)
        PROVE  Sent1' /\ Told1' /\ Left1'
    <3>1. Left1'
      BY <1>0, <2>0, <2>2, <2>4, SentStays DEF Left1
    <3> QED BY <2>4, <3>1 DEF Sent1, Told1
  \* Between its file and the wait.
  <2>5. ASSUME pc' \in {"watch", "scan", "reopen", "rewatch"}, pc' # "reopen", UNCHANGED handle,
               got' = got \/ \E b : got' = Append(got, b),
               handle = 1 => SentTo(got', from')
        PROVE  Sent1' /\ Told1' /\ Left1'
    <3>1. Left1'
      BY <1>0, <2>0, <2>2, <2>5, SentStays DEF Left1
    <3> QED BY <2>5, <3>1 DEF Sent1, Told1
  <2>6. CASE Open
    <3>1. pc = "open" /\ rotated # "rename"
      BY <1>q, <2>6 DEF Open
    <3>2. pc' \in {"closed", "seek"}
      BY <2>6 DEF Open, Failed, Closed
    <3> QED BY <2>0, <3>1, <3>2 DEF Sent1, Told1, Left1
  <2>7. CASE Seek
    <3>1. UNCHANGED <<handle, got>>
      BY <2>7 DEF Seek
    <3>2. CASE pc' = "collect"
      BY <2>4, <3>1, <3>2
    <3>3. CASE pc' # "collect"
      <4>1. pc' \in {"watch", "scan"} /\ from' = 0
        BY <2>7, <3>3 DEF Seek, Positioned
      <4> QED BY <2>5, <2>n, <3>1, <4>1
    <3> QED BY <3>2, <3>3
  <2>8. CASE Collect \/ CollectEnd
    BY <2>4, <2>8 DEF Collect, CollectEnd
  <2>9. CASE CollectTooLong \/ Cancelled
    BY <2>3, <2>9 DEF CollectTooLong, Cancelled, Failed, Closed
  <2>10. CASE SendHistory
    BY <2>4, <2>10 DEF SendHistory, Sent
  <2>11. CASE HistorySent
    <3>1. /\ pc = "history" /\ found = <<>> /\ pc' \in {"watch", "scan"}
          /\ UNCHANGED <<handle, got, from>>
      BY <2>11 DEF HistorySent, Positioned
    <3>2. got # <<>> /\ got[Len(got)].file = handle /\ got[Len(got)].last = from
      BY <3>1 DEF ScannerInv, OrderInv
    <3>3. Len(got) \in 1 .. Len(got)
      BY <1>0, <3>2
    <3>4. handle = 1 => SentTo(got, from)
      BY <1>0, <3>2, <3>3 DEF SentTo
    <3> QED BY <2>5, <3>1, <3>4
  <2>12. CASE Watch
    <3>1. pc \in {"watch", "rewatch"} /\ UNCHANGED <<handle, got, from>> /\ pc' \in {"scan", "closed"}
      BY <2>12 DEF Watch, Failed, Closed
    <3>2. handle = 1 => SentTo(got, from)
      BY <2>2, <3>1 DEF Sent1
    <3> QED BY <2>3, <2>5, <3>1, <3>2
  <2>13. CASE Scan
    <3>1. pc = "scan" /\ pc' = "scan" /\ pos' = pos + 1 /\ UNCHANGED handle
      BY <2>13 DEF Scan
    <3>2. handle \in File /\ pos + 1 \in 1 .. MaxPieces /\ from < pos + 1
      <4>1. handle \in File /\ pos <= Len(files[handle]) /\ pos # Len(files[handle])
        BY <2>13 DEF Scan, TypeOK, FileInv, AtEnd
      <4>2. files[handle] \in Seq(BOOLEAN) /\ Len(files[handle]) <= MaxPieces
        BY <4>1 DEF TypeOK, FileInv
      <4> QED BY <1>0, <4>1, <4>2
    <3>3. CASE files[handle][pos + 1]
      <4>1. from' = pos + 1 /\ got' = Append(got, LineTo(pos + 1))
        BY <2>13, <3>1, <3>3 DEF Scan, Sent, LineTo
      <4>2. /\ LineTo(pos + 1) \in LineType
            /\ LineTo(pos + 1).file = handle /\ LineTo(pos + 1).last = pos + 1
        BY <3>2, LineToType
      <4>3. handle = 1 => SentTo(got', from')
        BY <1>0, <4>1, <4>2, SentNow
      <4> QED BY <2>5, <3>1, <4>1, <4>3
    <3>4. CASE ~files[handle][pos + 1]
      <4>1. UNCHANGED <<from, got>>
        BY <2>13, <3>4 DEF Scan
      <4>2. handle = 1 => SentTo(got, from)
        BY <2>2, <3>1 DEF Sent1
      <4> QED BY <2>5, <3>1, <4>1, <4>2
    <3> QED BY <3>3, <3>4
  <2>14. CASE ScanEnd
    <3>1. /\ pc = "scan" /\ UNCHANGED <<handle, pos>> /\ from' = pos /\ pos = Len(files[handle])
          /\ pc' \in {"wait", "closed"} /\ handle \in File
      BY <2>14 DEF ScanEnd, Scanned, Closed, TypeOK, FileInv, AtEnd
    <3>2. got' = got \/ \E b : got' = Append(got, b)
      BY <2>14 DEF ScanEnd, Sent
    <3>3. Left1'
      BY <1>0, <2>0, <2>2, <3>1, <3>2, SentStays DEF Left1
    <3>4. handle = 1 => SentTo(got', from')
      <4>1. CASE from < pos
        <5>1. got' = Append(got, LineTo(pos)) /\ pos \in 1 .. MaxPieces
          BY <1>0, <2>14, <4>1 DEF ScanEnd, Sent
        <5>2. LineTo(pos) \in LineType /\ LineTo(pos).file = handle /\ LineTo(pos).last = pos
          BY <3>1, <4>1, <5>1, LineToType
        <5> QED BY <1>0, <3>1, <5>1, <5>2, SentNow
      <4>2. CASE ~(from < pos)
        <5>1. got' = got /\ from = pos
          BY <1>0, <2>14, <4>2 DEF ScanEnd
        <5> QED BY <2>2, <3>1, <5>1 DEF Sent1
      <4> QED BY <4>1, <4>2
    <3>5. Told1'
      <4>1. handle = 1 => Len(files'[1]) <= pos' /\ cut' <= pos'
        BY <1>0, <1>f, <1>q, <2>0, <3>1
      <4> QED BY <3>1, <4>1 DEF Told1, Announced
    <3> QED BY <3>1, <3>3, <3>4, <3>5 DEF Sent1
  <2>15. CASE ScanTooLong
    <3>1. /\ pc = "scan" /\ UNCHANGED <<handle, got>> /\ pc' \in {"wait", "closed"}
          /\ handle \in File /\ pos + 1 - from >= MaxLine
          /\ ~files[handle][pos + 1] /\ pos # Len(files[handle]) /\ pos <= Len(files[handle])
      BY <2>15 DEF ScanTooLong, TooLong, Scanned, Closed, TypeOK, FileInv, AtEnd
    <3>2. handle # 1
      <4> SUFFICES ASSUME handle = 1 PROVE FALSE
        OBVIOUS
      <4>1. pos - from < MaxLine
        BY <3>1 DEF OrderInv
      <4>2. pos + 1 = from + MaxLine /\ pos + 1 <= Len(files[1])
        BY <1>0, <1>f, <3>1, <4>1
      <4>3. from + 1 \in 1 .. Len(files[1]) - MaxLine + 1
        BY <1>0, <1>f, <4>2
      <4>4. PICK q \in from + 1 .. from + 1 + MaxLine - 1 : files[1][q]
        BY <4>3 DEF Fits
      <4>5. q = pos + 1 \/ q \in from + 1 .. pos
        BY <1>0, <4>2
      <4> QED BY <3>1, <4>4, <4>5 DEF ScannerInv
    <3> QED BY <2>0, <2>2, <3>1, <3>2 DEF Sent1, Told1, Left1
  <2>16. CASE WriteEvent
    <3>1. pc = "wait" /\ pc' = "scan" /\ UNCHANGED <<handle, got>> /\ from' = pos
      BY <2>16 DEF WriteEvent
    <3>2. handle = 1 => SentTo(got, pos)
      BY <1>w, <2>2, <3>1 DEF Sent1
    <3> QED BY <2>5, <3>1, <3>2
  <2>17. CASE OtherEvent
    <3>1. /\ pc = "wait" /\ pc' = "wait" /\ UNCHANGED <<handle, pos, watch>> /\ from' = pos
          /\ events # <<>> /\ Head(events) = "attrib" /\ events' = Tail(events)
      BY <2>17 DEF OtherEvent
    <3>4. got' = got \/ \E b : got' = Append(got, b)
      BY <2>17 DEF OtherEvent, Sent
    <3>5. handle = 1 => UNCHANGED <<got, from>>
      BY <1>0, <1>w, <2>17 DEF OtherEvent
    <3>6. Left1'
      BY <1>0, <2>0, <2>2, <3>1, <3>4, SentStays DEF Left1
    <3>2. /\ Len(events') = Len(events) - 1 /\ Len(events) >= 1
          /\ \A i \in 1 .. Len(events') : events'[i] = events[i + 1]
          /\ events[1] = "attrib"
      BY <3>1, HeadTailProperties, EmptySeq DEF TypeOK
    <3>3. ASSUME handle = 1 PROVE Announced'
      <4>1. Announced
        BY <2>2, <3>1, <3>3 DEF Told1
      <4>2. ASSUME rotated = "no", watch = 1
            PROVE  Len(files[1]) <= pos \/ \E j \in 1 .. Len(events') : events'[j] = "write"
        <5>1. Len(files[1]) <= pos \/ \E j \in 1 .. Len(events) : events[j] = "write"
          BY <4>1, <4>2 DEF Announced
        <5>2. ASSUME NEW j \in 1 .. Len(events), events[j] = "write"
              PROVE  \E i \in 1 .. Len(events') : events'[i] = "write"
          <6>1. j # 1
            BY <3>2, <5>2
          <6>2. j - 1 \in 1 .. Len(events') /\ (j - 1) + 1 = j
            BY <1>e, <3>2, <6>1
          <6> QED BY <3>2, <5>2, <6>2
        <5> QED BY <5>1, <5>2
      <4>3. ASSUME rotated = "rename", NEW k \in 1 .. Len(events'), events'[k] = "rename"
            PROVE  cut <= pos \/ \E j \in 1 .. k - 1 : events'[j] = "write"
        <5>1. k + 1 \in 1 .. Len(events) /\ events[k + 1] = "rename"
          BY <1>e, <3>2, <4>3
        <5>2. cut <= pos \/ \E j \in 1 .. (k + 1) - 1 : events[j] = "write"
          BY <4>1, <4>3, <5>1 DEF Announced
        <5>3. ASSUME NEW j \in 1 .. (k + 1) - 1, events[j] = "write"
              PROVE  \E i \in 1 .. k - 1 : events'[i] = "write"
          <6>1. j # 1
            BY <3>2, <5>3
          <6>2. j - 1 \in 1 .. k - 1 /\ j - 1 \in 1 .. Len(events') /\ (j - 1) + 1 = j
            BY <1>e, <3>2, <6>1
          <6> QED BY <3>2, <5>3, <6>2
        <5> QED BY <5>2, <5>3
      <4> QED BY <2>0, <3>1, <4>2, <4>3 DEF Announced
    <3> QED BY <2>0, <2>2, <3>1, <3>3, <3>5, <3>6 DEF Sent1, Told1
  <2>18. CASE RenameEvent
    <3>1. /\ pc = "wait" /\ events # <<>> /\ Head(events) = "rename"
          /\ UNCHANGED <<handle, got, from>> /\ pc' \in {"reopen", "closed"}
      BY <2>18 DEF RenameEvent, Closed
    <3>2. Len(events) >= 1 /\ events[1] = "rename"
      BY <3>1, HeadTailProperties, EmptySeq DEF TypeOK
    <3>3. handle = 1
      BY <1>e, <3>1, <3>2 DEF FileInv, NoRename, TypeOK, File
    <3>4. SentTo(got, from)
      BY <2>2, <3>1, <3>3 DEF Sent1
    <3>5. rotated = "rename" => SentTo(got, cut)
      <4> SUFFICES ASSUME rotated = "rename" PROVE SentTo(got, cut)
        OBVIOUS
      <4>1. Announced
        BY <2>2, <3>1, <3>3 DEF Told1
      <4>2. cut <= pos \/ \E j \in 1 .. 1 - 1 : events[j] = "write"
        <5>1. 1 \in 1 .. Len(events)
          BY <1>e, <3>2
        <5> QED BY <3>2, <4>1, <5>1 DEF Announced
      <4>3. cut <= from
        BY <1>w, <3>1, <3>3, <4>2
      <4>4. \A i \in 1 .. Len(got) : got[i].last \in Nat
        <5>1. \A i \in 1 .. Len(got) : got[i] \in LineType
          BY <1>0, ElementOfSeq
        <5> QED BY <1>0, <5>1 DEF LineType
      <4>5. cut > 0 => from > 0
        BY <1>0, <4>3
      <4> QED BY <1>0, <3>4, <4>3, <4>4, <4>5 DEF SentTo
    <3> QED BY <2>0, <3>1, <3>3, <3>4, <3>5 DEF Sent1, Told1, Left1
  <2>19. CASE Reopen
    <3>1. /\ pc = "reopen" /\ pc' = "rewatch" /\ from' = 0 /\ UNCHANGED got
      BY <2>19 DEF Reopen
    <3> QED BY <2>0, <2>2, <2>n, <3>1 DEF Sent1, Told1, Left1
  <2> QED BY <1>1, <2>6, <2>7, <2>8, <2>9, <2>10, <2>11, <2>12, <2>13, <2>14, <2>15, <2>16, <2>17,
             <2>18, <2>19 DEF GoroutineStep
<1>2. ASSUME NEW end \in BOOLEAN, Write(end) PROVE OldFileInv'
  <2>1. UNCHANGED <<path, out, rotated, cut, watch, tailVars, got>> /\ events' = Queued("write", out)
    BY <1>2 DEF Write
  <2>2. ASSUME Announced PROVE Announced'
    <3>1. CASE events' = events /\ (watch = 1 => \/ Len(files'[1]) = Len(files[1])
                                                 \/ \E j \in 1 .. Len(events) : events[j] = "write")
      BY <2>1, <2>2, <3>1 DEF Announced
    <3>2. CASE events' = Append(events, "write")
      <4>1. /\ Len(events') = Len(events) + 1 /\ events'[Len(events) + 1] = "write"
            /\ \A i \in 1 .. Len(events) : events'[i] = events[i]
        BY <3>2 DEF TypeOK
      <4>2. \E j \in 1 .. Len(events') : events'[j] = "write"
        BY <1>e, <4>1
      <4>3. ASSUME rotated = "rename", NEW k \in 1 .. Len(events'), events'[k] = "rename"
            PROVE  cut <= pos \/ \E j \in 1 .. k - 1 : events'[j] = "write"
        <5>1. k \in 1 .. Len(events) /\ events[k] = "rename"
          BY <1>e, <4>1, <4>3
        <5>2. cut <= pos \/ \E j \in 1 .. k - 1 : events[j] = "write"
          BY <2>2, <4>3, <5>1 DEF Announced
        <5>3. \A j \in 1 .. k - 1 : j \in 1 .. Len(events)
          BY <1>e, <5>1
        <5> QED BY <4>1, <5>2, <5>3
      <4> QED BY <2>1, <4>2, <4>3 DEF Announced
    <3>3. events' = Append(events, "write")
             \/ (events' = events /\ (watch = 1 => \/ Len(files'[1]) = Len(files[1])
                                                   \/ \E j \in 1 .. Len(events) : events[j] = "write"))
      <4>1. out = 2 => files'[1] = files[1]
        BY <1>2 DEF Write, TypeOK, File
      <4>2. events # <<>> => Len(events) \in 1 .. Len(events) /\ Last(events) = events[Len(events)]
        BY <1>e, EmptySeq DEF TypeOK, Last
      <4> QED BY <2>1, <4>1, <4>2 DEF Queued, TypeOK, File
    <3> QED BY <3>1, <3>2, <3>3
  <2>3. cut <= Len(files'[1])
    BY <1>0, <1>f, <1>q
  <2> QED BY <1>f, <1>i, <1>q, <2>1, <2>2, <2>3 DEF OldFileInv
<1>3. ASSUME NEW how \in Rotations, Rotate(how) PROVE OldFileInv'
  <2>1. /\ path = 1 /\ path' = 0 /\ UNCHANGED <<files, out, watch, tailVars, got>>
        /\ rotated' = (IF watch = 1 THEN how ELSE "early") /\ cut' = Len(files[1])
        /\ events' = Queued(IF how = "rename" THEN "rename" ELSE "attrib", 1)
    BY <1>3 DEF Rotate
  <2>2. rotated' # "no" /\ rotated = "no"
    BY <1>q, <2>1, BoundsAssumption
  <2>3. pc = "open" => rotated' # "rename"
    BY <2>1 DEF FileInv
  <2>4. handle # 2 /\ pc # "reopen"
    BY <2>1 DEF FileInv
  <2>5. ASSUME Announced, rotated' = "rename" PROVE Announced'
    <3>1. how = "rename" /\ watch = 1 /\ events' = Queued("rename", 1)
      BY <2>1, <2>5
    <3>2. NoRename
      BY <2>1 DEF FileInv
    <3>3. events' = Append(events, "rename")
      <4>1. events # <<>> => Len(events) \in 1 .. Len(events) /\ Last(events) = events[Len(events)]
        BY <1>e, EmptySeq DEF TypeOK, Last
      <4> QED BY <3>1, <3>2, <4>1 DEF Queued, NoRename
    <3>4. /\ Len(events') = Len(events) + 1
          /\ \A i \in 1 .. Len(events) : events'[i] = events[i]
      BY <3>3 DEF TypeOK
    <3>5. Len(files[1]) <= pos \/ \E j \in 1 .. Len(events) : events[j] = "write"
      BY <2>2, <2>5, <3>1 DEF Announced
    <3>6. ASSUME NEW k \in 1 .. Len(events'), events'[k] = "rename"
          PROVE  cut' <= pos \/ \E j \in 1 .. k - 1 : events'[j] = "write"
      <4>1. k = Len(events) + 1
        <5>1. k \notin 1 .. Len(events)
          BY <3>2, <3>4, <3>6 DEF NoRename
        <5> QED BY <1>e, <3>4, <5>1
      <4>2. k - 1 = Len(events)
        BY <1>e, <4>1
      <4> QED BY <2>1, <3>4, <3>5, <4>2
    <3> QED BY <2>1, <2>2, <2>5, <3>6 DEF Announced
  <2>6. Announced /\ rotated' # "rename" => Announced'
    BY <2>2 DEF Announced
  <2>7. cut' <= Len(files'[1])
    BY <1>f, <2>1
  <2> QED BY <1>i, <2>1, <2>2, <2>3, <2>4, <2>5, <2>6, <2>7 DEF OldFileInv
<1>4. ASSUME Create \/ Switch \/ Stop PROVE OldFileInv'
  <2>1. UNCHANGED <<files, rotated, cut, watch, events, tailVars, got>> /\ (path' = 1 <=> path = 1)
    BY <1>4 DEF Create, Switch, Stop
  <2>2. Announced => Announced'
    BY <2>1 DEF Announced
  <2> QED BY <1>i, <1>q, <2>1, <2>2 DEF OldFileInv
<1>5. ASSUME UNCHANGED vars PROVE OldFileInv'
  BY <1>5 DEF vars, OldFileInv, Announced
<1> QED BY <1>1, <1>2, <1>3, <1>4, <1>5 DEF Next

LEMMA OldFileInvariant == Spec => [](OldFileInv)
BY TailInvariant, InitOldFile, NextScanner, NextOldFile, InitTypes, InitFiles, InitOrder,
   NextTypes, NextFiles, NextOrder, PTL DEF Spec

\* All that the old file held when it was renamed has been sent when the goroutine
\* turns to the new one.
THEOREM OldFileIsSent == Spec => []OldFileSent
<1>1. OldFileInv /\ TypeOK => OldFileSent
  BY DEF OldFileInv, OldFileSent, SentTo, TypeOK
<1> QED BY <1>1, OldFileInvariant, TailInvariant, PTL

-----------------------------------------------------------------------------
(* The last lines *)

\* The lines of f that end at most at place n, and the one that place n is in.
Ends(f, n) == {p \in 1 .. n : f[p] \/ p = n}

Lines(f, h, n) ==
    {l \in [file : {h}, first : 1 .. n, last : Ends(f, n)] :
        /\ l.first = 1 \/ l.first - 1 \in Ends(f, n)
        /\ l.first .. l.last - 1 \cap Ends(f, n) = {}
        /\ l.first <= l.last}

\* The lines of a are those of f from place s to place n: all of them, in order and
\* without a gap; the first may have begun before.  If those after the first are
\* short, they do not reach far.
Covers(a, f, h, s, n) ==
    /\ s <= n
    /\ a = <<>> => s = n
    /\ a # <<>> => a[1].first = s + 1 /\ a[Len(a)].last = n
    /\ \A i \in 1 .. Len(a) :
          /\ a[i].file = h /\ s < a[i].first /\ a[i].first <= a[i].last /\ a[i].last <= n
          /\ f[a[i].last] \/ a[i].last = n
          /\ \A q \in a[i].first .. a[i].last - 1 : ~f[q]
    /\ \A i \in 2 .. Len(a) : a[i].first = a[i - 1].last + 1
    /\ \A i, j \in 1 .. Len(a) : i < j => a[i].last < a[j].first
    /\ \A p \in s + 1 .. n : f[p] \/ p = n => \E i \in 1 .. Len(a) : a[i].last = p
    /\ a # <<>> /\ (\A i \in 2 .. Len(a) : a[i].last - a[i].first < AvgLine) =>
          n - a[1].last <= (Len(a) - 1) * AvgLine

\* tailLines began at the start of the file, or far enough from its end for the
\* lines wanted if they are short, and has found all the lines since.
FoundInv ==
    pc = "collect" =>
        \E s \in 0 .. from :
            /\ s = 0 \/ s + config.tail * AvgLine <= Len(files[handle])
            /\ Covers(found, files[handle], handle, s, from)
            /\ found # <<>> => files[handle][from]

\* Of places up to s that end a line there is a last one.
LEMMA LastEnd ==
  ASSUME NEW f, NEW s \in Nat
  PROVE  \E e \in 0 .. s : (e = 0 \/ f[e]) /\ \A q \in e + 1 .. s : ~f[q]
<1> DEFINE T == {d \in 0 .. s : s - d = 0 \/ f[s - d]}
           R == OpToRel(<, Nat)
<1>1. T \subseteq Nat /\ T # {}
  <2>1. s \in T
    OBVIOUS
  <2> QED BY <2>1
<1>2. IsWellFoundedOn(R, Nat)
  BY NatLessThanWellFounded
<1> HIDE DEF R
<1>3. PICK d \in T : \A y \in T : ~(<<y, d>> \in R)
  <2> HIDE DEF T
  <2> QED BY <1>1, <1>2, WFMin
<1>4. \A y \in T : ~(y < d)
  BY <1>1, <1>3 DEF R, OpToRel
<1>5. s - d \in 0 .. s /\ (s - d = 0 \/ f[s - d])
  BY <1>3
<1>6. ASSUME NEW q \in (s - d) + 1 .. s, f[q] PROVE FALSE
  <2>1. s - q \in 0 .. s /\ s - (s - q) = q /\ s - q < d
    BY <1>3, <1>6
  <2>2. s - q \in T
    BY <1>6, <2>1
  <2> QED BY <1>4, <2>1, <2>2
<1> QED BY <1>5, <1>6

\* A line more.
LEMMA CoversOn ==
  ASSUME NEW a \in Seq(LineType), NEW b \in LineType, NEW f, NEW h, NEW s \in Nat, NEW n \in Nat,
         Covers(a, f, h, s, n), a # <<>> => f[n],
         b.file = h, b.first = n + 1, b.last > n, \A q \in n + 1 .. b.last - 1 : ~f[q]
  PROVE  Covers(Append(a, b), f, h, s, b.last)
<1> DEFINE r == Append(a, b)
           p == b.last
<1>1. /\ Len(r) = Len(a) + 1 /\ Len(a) \in Nat /\ r # <<>>
      /\ r[Len(a) + 1] = b /\ \A i \in 1 .. Len(a) : r[i] = a[i]
      /\ a # <<>> => Len(a) >= 1
      /\ a = <<>> => Len(a) = 0
  <2>1. /\ Len(r) = Len(a) + 1 /\ Len(a) \in Nat /\ r # <<>>
        /\ r[Len(a) + 1] = b /\ \A i \in 1 .. Len(a) : r[i] = a[i]
    BY ONLY a \in Seq(LineType), b \in LineType
  <2>2. Len(a) = 0 <=> a = <<>>
    BY ONLY a \in Seq(LineType), EmptySeq
  <2> HIDE DEF r
  <2> QED BY ONLY <2>1, <2>2
<1>2. p \in Nat /\ p > n /\ s <= n /\ AvgLine \in Nat \ {0}
  BY BoundsAssumption DEF LineType, Covers
<1>t. \A i \in 1 .. Len(a) : a[i].first \in Nat /\ a[i].last \in Nat
  <2>1. \A i \in 1 .. Len(a) : a[i] \in LineType
    BY ElementOfSeq
  <2> QED BY <2>1, BoundsAssumption DEF LineType
<1> HIDE DEF r
<1>3. r[1].first = s + 1 /\ r[Len(r)].last = p
  <2>1. a = <<>> => r[1] = b /\ s = n
    BY <1>1 DEF Covers
  <2>2. a # <<>> => r[1] = a[1] /\ a[1].first = s + 1
    BY <1>1 DEF Covers
  <2> QED BY <1>1, <2>1, <2>2
<1>4. ASSUME NEW i \in 1 .. Len(r)
      PROVE  /\ r[i].file = h /\ s < r[i].first /\ r[i].first <= r[i].last /\ r[i].last <= p
             /\ f[r[i].last] \/ r[i].last = p
             /\ \A q \in r[i].first .. r[i].last - 1 : ~f[q]
  <2>1. CASE i \in 1 .. Len(a)
    <3>1. /\ r[i] = a[i] /\ a # <<>>
          /\ a[i].file = h /\ s < a[i].first /\ a[i].first <= a[i].last /\ a[i].last <= n
          /\ f[a[i].last] \/ a[i].last = n
          /\ \A q \in a[i].first .. a[i].last - 1 : ~f[q]
      BY <1>1, <2>1 DEF Covers
    <3>2. f[a[i].last] /\ a[i].last <= p
      BY <1>2, <1>t, <2>1, <3>1
    <3> QED BY <3>1, <3>2
  <2>2. CASE i = Len(a) + 1
    <3>1. r[i] = b
      BY <1>1, <2>2
    <3> QED BY <1>2, <3>1
  <2> QED BY <1>1, <1>4, <2>1, <2>2
<1>5. ASSUME NEW i \in 2 .. Len(r) PROVE r[i].first = r[i - 1].last + 1
  <2>1. CASE i \in 2 .. Len(a)
    <3>1. i - 1 \in 1 .. Len(a) /\ i \in 1 .. Len(a)
      BY <1>1, <2>1
    <3> QED BY <1>1, <2>1, <3>1 DEF Covers
  <2>2. CASE i = Len(a) + 1
    <3>1. i - 1 = Len(a) /\ Len(a) \in 1 .. Len(a) /\ a # <<>>
      BY <1>1, <1>5, <2>2
    <3> QED BY <1>1, <2>2, <3>1 DEF Covers
  <2> QED BY <1>1, <1>5, <2>1, <2>2
<1>6. ASSUME NEW i \in 1 .. Len(r), NEW j \in 1 .. Len(r), i < j PROVE r[i].last < r[j].first
  <2>1. i \in 1 .. Len(a)
    BY <1>1, <1>6
  <2>2. CASE j \in 1 .. Len(a)
    BY <1>1, <1>6, <2>1, <2>2 DEF Covers
  <2>3. CASE j = Len(a) + 1
    <3>1. r[i] = a[i] /\ a[i].last <= n /\ r[j] = b
      BY <1>1, <2>1, <2>3 DEF Covers
    <3> QED BY <1>t, <2>1, <3>1
  <2> QED BY <1>1, <1>6, <2>2, <2>3
<1>7. ASSUME NEW x \in s + 1 .. p, f[x] \/ x = p PROVE \E i \in 1 .. Len(r) : r[i].last = x
  <2>1. CASE x = p
    <3>1. Len(a) + 1 \in 1 .. Len(r)
      BY <1>1
    <3> QED BY <1>1, <2>1, <3>1
  <2>2. CASE x # p
    <3>1. x <= n
      <4>1. x \notin n + 1 .. b.last - 1
        BY <1>7, <2>2
      <4> QED BY <1>2, <1>7, <2>2, <4>1
    <3>2. x \in s + 1 .. n /\ f[x]
      BY <1>2, <1>7, <2>2, <3>1
    <3>3. PICK i \in 1 .. Len(a) : a[i].last = x
      BY <3>2 DEF Covers
    <3>4. i \in 1 .. Len(r)
      BY <1>1
    <3> QED BY <1>1, <3>3, <3>4
  <2> QED BY <2>1, <2>2
<1>8. ASSUME \A i \in 2 .. Len(r) : r[i].last - r[i].first < AvgLine
      PROVE  p - r[1].last <= (Len(r) - 1) * AvgLine
  <2>1. CASE a = <<>>
    <3>1. r[1].last = p /\ Len(r) - 1 = 0
      BY <1>1, <2>1
    <3>2. \A x \in Nat : 0 * x = 0 /\ x - x = 0 /\ 0 <= 0
      OBVIOUS
    <3>3. p - p = 0 /\ 0 * AvgLine = 0
      BY <1>2, <3>2
    <3> QED BY <3>1, <3>2, <3>3
  <2>2. CASE a # <<>>
    <3>1. \A i \in 2 .. Len(a) : a[i].last - a[i].first < AvgLine
      <4>1. \A i \in 2 .. Len(a) : i \in 2 .. Len(r) /\ i \in 1 .. Len(a)
        BY <1>1
      <4> QED BY <1>1, <1>8, <4>1
    <3>2. n - a[1].last <= (Len(a) - 1) * AvgLine
      BY <2>2, <3>1 DEF Covers
    <3>3. p - n <= AvgLine
      <4>1. Len(a) + 1 \in 2 .. Len(r)
        BY <1>1, <2>2
      <4>2. p - (n + 1) < AvgLine
        BY <1>1, <1>8, <4>1
      <4> QED BY <1>2, <4>2
    <3>4. r[1] = a[1] /\ a[1].last \in Nat
      BY <1>1, <1>t, <2>2
    <3> DEFINE k == Len(a) - 1
               x == k * AvgLine
    <3>5. k \in Nat /\ x \in Nat /\ (k + 1) * AvgLine = x + AvgLine /\ Len(r) - 1 = k + 1
      BY <1>1, <1>2, <2>2
    <3>6. n - a[1].last <= x
      BY <3>2
    <3> HIDE DEF x, k
    <3>7. p - a[1].last <= x + AvgLine
      <4>1. PICK y \in Nat : y = a[1].last
        BY <3>4
      <4>2. p \in Nat /\ n \in Nat /\ x \in Nat /\ AvgLine \in Nat
        BY <1>2, <3>5
      <4>3. n - y <= x /\ p - n <= AvgLine
        BY <3>3, <3>6, <4>1
      <4> HIDE DEF p
      <4>4. p - y <= x + AvgLine
        BY ONLY <4>2, <4>3, y \in Nat
      <4> QED BY <4>1, <4>4
    <3> QED BY <3>4, <3>5, <3>7
  <2> QED BY <2>1, <2>2
<1>9. s <= p
  BY <1>2
<1> QED BY <1>1, <1>3, <1>4, <1>5, <1>6, <1>7, <1>8, <1>9 DEF Covers, r

\* What was read of a file stays as it was.
LEMMA CoversGrow ==
  ASSUME NEW a \in Seq(LineType), NEW f, NEW g, NEW h, NEW s \in Nat, NEW n \in Nat,
         Covers(a, f, h, s, n), \A q \in 1 .. n : g[q] = f[q]
  PROVE  Covers(a, g, h, s, n)
<1>1. \A i \in 1 .. Len(a) : a[i].first \in Nat \ {0} /\ a[i].last \in Nat \ {0}
  <2>1. \A i \in 1 .. Len(a) : a[i] \in LineType
    BY ElementOfSeq
  <2> QED BY <2>1, BoundsAssumption DEF LineType
<1>2. ASSUME NEW i \in 1 .. Len(a)
      PROVE  /\ g[a[i].last] = f[a[i].last]
             /\ \A q \in a[i].first .. a[i].last - 1 : g[q] = f[q]
  <2>1. a[i].last <= n
    BY DEF Covers
  <2>2. a[i].last \in 1 .. n /\ \A q \in a[i].first .. a[i].last - 1 : q \in 1 .. n
    BY <1>1, <2>1
  <2> QED BY <2>2
<1>3. \A q \in s + 1 .. n : g[q] = f[q]
  <2>1. \A q \in s + 1 .. n : q \in 1 .. n
    OBVIOUS
  <2> QED BY <2>1
<1>4. /\ \A i \in 1 .. Len(a) :
          /\ a[i].file = h /\ s < a[i].first /\ a[i].first <= a[i].last /\ a[i].last <= n
          /\ g[a[i].last] \/ a[i].last = n
          /\ \A q \in a[i].first .. a[i].last - 1 : ~g[q]
  BY <1>2 DEF Covers
<1>5. \A p \in s + 1 .. n : g[p] \/ p = n => \E i \in 1 .. Len(a) : a[i].last = p
  BY <1>3 DEF Covers
<1> QED BY <1>4, <1>5 DEF Covers

LEMMA InitFound == Init => FoundInv
BY DEF Init, FoundInv

LEMMA NextFound ==
  ASSUME TypeOK, FileInv, OrderInv, ScannerInv, FoundInv, [Next]_vars
  PROVE  FoundInv'
<1> USE DEF fsVars, tailVars
<1>0. /\ pos \in Nat /\ from \in Nat /\ from <= pos /\ pos <= MaxPieces /\ MaxPieces \in Nat
      /\ found \in Seq(LineType) /\ AvgLine \in Nat \ {0} /\ config.tail \in Nat
  BY BoundsAssumption, ConfigsAssumption DEF TypeOK
<1>1. ASSUME UNCHANGED tailVars PROVE FoundInv'
  <2> SUFFICES ASSUME pc = "collect"
               PROVE  \E s \in 0 .. from :
                        /\ s = 0 \/ s + config.tail * AvgLine <= Len(files'[handle])
                        /\ Covers(found, files'[handle], handle, s, from)
                        /\ found # <<>> => files'[handle][from]
    BY <1>1 DEF FoundInv
  <2>1. PICK s \in 0 .. from :
            /\ s = 0 \/ s + config.tail * AvgLine <= Len(files[handle])
            /\ Covers(found, files[handle], handle, s, from)
            /\ found # <<>> => files[handle][from]
    BY DEF FoundInv
  <2>2. handle \in File /\ pos <= Len(files[handle])
    BY DEF FileInv, TypeOK
  <2>3. /\ Len(files[handle]) <= Len(files'[handle])
        /\ Len(files[handle]) \in Nat /\ Len(files'[handle]) \in Nat
        /\ \A q \in 1 .. Len(files[handle]) : files'[handle][q] = files[handle][q]
    BY <2>2, FilesGrow
  <2>4. \A q \in 1 .. from : files'[handle][q] = files[handle][q]
    <3>1. \A q \in 1 .. from : q \in 1 .. Len(files[handle])
      BY <1>0, <2>2, <2>3
    <3> QED BY <2>3, <3>1
  <2>5. s \in Nat
    BY <2>1
  <2>6. Covers(found, files'[handle], handle, s, from)
    BY <1>0, <2>1, <2>4, <2>5, CoversGrow
  <2>7. s = 0 \/ s + config.tail * AvgLine <= Len(files'[handle])
    <3> DEFINE x == config.tail * AvgLine
    <3>1. x \in Nat
      BY <1>0
    <3>2. s = 0 \/ s + x <= Len(files[handle])
      BY <2>1
    <3> HIDE DEF x
    <3>3. s = 0 \/ s + x <= Len(files'[handle])
      BY <2>3, <2>5, <3>1, <3>2
    <3> QED BY <3>3 DEF x
  <2>8. found # <<>> => files'[handle][from]
    <3>1. found # <<>> => from \in 1 .. from
      <4>1. found # <<>> => from > 0
        <5> SUFFICES ASSUME found # <<>> PROVE from > 0
          OBVIOUS
        <5>1. Len(found) \in 1 .. Len(found)
          BY <1>0
        <5>2. found[Len(found)].last = from /\ found[Len(found)] \in LineType
          BY <1>0, <2>1, <5>1, ElementOfSeq DEF Covers
        <5> QED BY <1>0, <5>2 DEF LineType
      <4> QED BY <1>0, <4>1
    <3> QED BY <2>1, <2>4, <3>1
  <2> QED BY <2>6, <2>7, <2>8
<1>2. CASE pc' # "collect"
  BY <1>2 DEF FoundInv
<1>3. ASSUME Seek, pc' = "collect" PROVE FoundInv'
  <2>1. /\ pc = "seek" /\ UNCHANGED <<files, handle, config, found>> /\ from' = pos'
        /\ pos' = IF Len(files[handle]) - config.tail * AvgLine < 0 THEN 0
                  ELSE Len(files[handle]) - config.tail * AvgLine
    BY <1>3 DEF Seek, Positioned
  <2>2. found = <<>> /\ Len(files[handle]) \in Nat
    BY <2>1 DEF OrderInv, TypeOK, FileInv
  <2> DEFINE x == config.tail * AvgLine
  <2>3. x \in Nat
    BY <1>0
  <2>4. pos' = IF Len(files[handle]) - x < 0 THEN 0 ELSE Len(files[handle]) - x
    BY <2>1
  <2> HIDE DEF x
  <2>5. pos' \in Nat /\ (pos' = 0 \/ pos' + x <= Len(files[handle]))
    BY <2>2, <2>3, <2>4
  <2>6. ASSUME NEW f, NEW h, NEW s \in Nat PROVE Covers(<<>>, f, h, s, s)
    <3>1. Len(<<>>) = 0 /\ s <= s
      OBVIOUS
    <3>2. \A i \in 1 .. 0 : FALSE
      OBVIOUS
    <3>3. \A i \in 2 .. 0 : FALSE
      OBVIOUS
    <3>4. \A i \in s + 1 .. s : FALSE
      OBVIOUS
    <3> QED BY <3>1, <3>2, <3>3, <3>4 DEF Covers
  <2>7. Covers(found', files'[handle'], handle', pos', from')
    BY <2>1, <2>2, <2>5, <2>6
  <2>8. pos' \in 0 .. from' /\ found' = <<>>
    BY <2>1, <2>2, <2>5
  <2>9. pos' = 0 \/ pos' + config'.tail * AvgLine <= Len(files'[handle'])
    BY <2>1, <2>5 DEF x
  <2> QED BY <2>7, <2>8, <2>9 DEF FoundInv
<1>4. ASSUME Collect PROVE FoundInv'
  <2>1. /\ pc = "collect" /\ UNCHANGED <<files, handle, config>> /\ pos' = pos + 1
    BY <1>4 DEF Collect
  <2>2. PICK s \in 0 .. from :
            /\ s = 0 \/ s + config.tail * AvgLine <= Len(files[handle])
            /\ Covers(found, files[handle], handle, s, from)
            /\ found # <<>> => files[handle][from]
    BY <2>1 DEF FoundInv
  <2>3. CASE files[handle][pos + 1]
    <3>1. from' = pos + 1 /\ found' = Append(found, LineTo(pos + 1))
      BY <1>4, <2>1, <2>3 DEF Collect, LineTo
    <3>2. handle \in File /\ pos + 1 \in 1 .. MaxPieces /\ from < pos + 1
      <4>1. handle \in File /\ pos <= Len(files[handle]) /\ pos # Len(files[handle])
        BY <1>4 DEF Collect, TypeOK, FileInv, AtEnd
      <4>2. files[handle] \in Seq(BOOLEAN) /\ Len(files[handle]) <= MaxPieces
        BY <4>1 DEF TypeOK, FileInv
      <4> QED BY <1>0, <4>1, <4>2
    <3>3. /\ LineTo(pos + 1) \in LineType /\ LineTo(pos + 1).file = handle
          /\ LineTo(pos + 1).first = from + 1 /\ LineTo(pos + 1).last = pos + 1
      BY <3>2, LineToType
    <3>4. \A q \in from + 1 .. (pos + 1) - 1 : ~files[handle][q]
      <4>1. (pos + 1) - 1 = pos
        BY <1>0
      <4> QED BY <2>1, <4>1 DEF ScannerInv
    <3>5. s \in Nat
      BY <2>2
    <3>6. Covers(found', files[handle], handle, s, pos + 1)
      BY <1>0, <2>2, <3>1, <3>2, <3>3, <3>4, <3>5, CoversOn
    <3>7. s \in 0 .. from'
      BY <1>0, <2>2, <3>1, <3>2
    <3> QED BY <2>1, <2>2, <2>3, <3>1, <3>6, <3>7 DEF FoundInv
  <2>4. CASE ~files[handle][pos + 1]
    <3>1. UNCHANGED <<from, found>>
      BY <1>4, <2>4 DEF Collect
    <3> QED BY <2>1, <2>2, <3>1 DEF FoundInv
  <2> QED BY <2>3, <2>4
<1>5. CASE UNCHANGED vars
  BY <1>1, <1>5 DEF vars
<1>6. CASE Next /\ ~GoroutineStep
  BY <1>1, <1>6 DEF Next, Write, Rotate, Create, Switch, Stop
<1>7. ASSUME GoroutineStep, pc' = "collect" PROVE Seek \/ Collect
  BY <1>7 DEF GoroutineStep, Open, CollectEnd, CollectTooLong, SendHistory, HistorySent, Watch,
              Scan, ScanEnd, ScanTooLong, WriteEvent, OtherEvent, RenameEvent, Reopen, Cancelled,
              Failed, Closed, Scanned, Positioned
<1> QED BY <1>2, <1>3, <1>4, <1>5, <1>6, <1>7

-----------------------------------------------------------------------------
(* What the last lines are *)

LEMMA LinesAre ==
  ASSUME NEW f, NEW h, NEW n \in Nat, NEW l \in Lines(f, h, n)
  PROVE  /\ l = [file |-> h, first |-> l.first, last |-> l.last]
         /\ l.first \in 1 .. n /\ l.last \in 1 .. n /\ l.last \in Ends(f, n) /\ l.first <= l.last
         /\ l.first = 1 \/ l.first - 1 \in Ends(f, n)
         /\ \A q \in l.first .. l.last - 1 : q \notin Ends(f, n)
<1>1. /\ l \in [file : {h}, first : 1 .. n, last : Ends(f, n)]
      /\ l.first = 1 \/ l.first - 1 \in Ends(f, n)
      /\ l.first .. l.last - 1 \cap Ends(f, n) = {}
      /\ l.first <= l.last
  BY DEF Lines
<1>2. Ends(f, n) \subseteq 1 .. n
  BY DEF Ends
<1>3. \A q \in l.first .. l.last - 1 : q \notin Ends(f, n)
  BY <1>1
<1> HIDE DEF Ends
<1> QED BY <1>1, <1>2, <1>3

LEMMA IsLine ==
  ASSUME NEW f, NEW h, NEW n \in Nat, NEW i \in 1 .. n, NEW j \in Ends(f, n), i <= j,
         i = 1 \/ i - 1 \in Ends(f, n), \A q \in i .. j - 1 : q \notin Ends(f, n)
  PROVE  [file |-> h, first |-> i, last |-> j] \in Lines(f, h, n)
<1> DEFINE l == [file |-> h, first |-> i, last |-> j]
<1>1. l \in [file : {h}, first : 1 .. n, last : Ends(f, n)]
  OBVIOUS
<1>2. l.first = i /\ l.last = j
  OBVIOUS
<1>3. l.first .. l.last - 1 \cap Ends(f, n) = {}
  BY <1>2
<1> HIDE DEF l
<1> QED BY <1>1, <1>2, <1>3 DEF Lines, l

\* Two lines with one end are one.
LEMMA OneLine ==
  ASSUME NEW f, NEW h, NEW n \in Nat, NEW l \in Lines(f, h, n), NEW m \in Lines(f, h, n),
         l.last = m.last
  PROVE  l = m
<1>1. ASSUME NEW x \in Lines(f, h, n), NEW y \in Lines(f, h, n), x.last = y.last PROVE ~(x.first < y.first)
  <2> SUFFICES ASSUME x.first < y.first PROVE FALSE
    OBVIOUS
  <2>1. /\ x.first \in 1 .. n /\ y.first \in 1 .. n /\ y.last \in 1 .. n /\ y.first <= y.last
        /\ y.first = 1 \/ y.first - 1 \in Ends(f, n)
        /\ \A q \in x.first .. x.last - 1 : q \notin Ends(f, n)
    BY LinesAre
  <2>2. y.first - 1 \in x.first .. x.last - 1 /\ y.first # 1
    BY <1>1, <2>1
  <2> QED BY <2>1, <2>2
<1>2. l.first \in Nat /\ m.first \in Nat
  BY LinesAre
<1>3. l.first = m.first
  BY <1>1, <1>2
<1> QED BY <1>3, LinesAre

LEMMA LinesFinite ==
  ASSUME NEW f, NEW h, NEW n \in Nat
  PROVE  IsFiniteSet(Lines(f, h, n))
<1> DEFINE g == [l \in Lines(f, h, n) |-> l.last]
<1>1. g \in [Lines(f, h, n) -> 1 .. n]
  BY LinesAre
<1>2. \A x, y \in Lines(f, h, n) : g[x] = g[y] => x = y
  BY OneLine
<1> HIDE DEF g
<1>3. g \in Injection(Lines(f, h, n), 1 .. n)
  BY <1>1, <1>2 DEF Injection, IsInjective
<1> QED BY <1>3, FS_Interval, FS_Injection

LEMMA FewerTimes ==
  ASSUME NEW t \in Nat, NEW k \in Nat, NEW m \in Nat \ {0}
  PROVE  /\ t * m < k * m => t < k
         /\ t * m <= k * m => t <= k
<1>1. ASSUME t > k PROVE t * m > k * m
  <2> DEFINE d == t - k
  <2>1. d \in Nat \ {0} /\ t = k + d
    BY <1>1
  <2>2. (k + d) * m = k * m + d * m /\ d * m > 0 /\ k * m \in Int /\ d * m \in Int
    BY <2>1
  <2> HIDE DEF d
  <2> QED BY <2>1, <2>2
<1>2. t * m \in Int /\ k * m \in Int
  OBVIOUS
<1> DEFINE x == t * m
           y == k * m
<1>3. x \in Int /\ y \in Int /\ (t > k => x > y) /\ (t = k => x = y)
  BY <1>1, <1>2
<1> HIDE DEF x, y
<1>4. (x < y => t < k) /\ (x <= y => t <= k)
  BY <1>3
<1> QED BY <1>4 DEF x, y

\* The elements of a sequence after place i, up to place j.
Between(a, i, j) == {a[x] : x \in i + 1 .. j}

Differ(a, i, j) == \A x, y \in i + 1 .. j : x < y => a[x] # a[y]

\* So many different elements of a sequence are that many.
LEMMA SomeOf ==
  ASSUME NEW a, NEW i \in Nat, NEW j \in Nat, i <= j, Differ(a, i, j)
  PROVE  /\ IsFiniteSet(Between(a, i, j))
         /\ Cardinality(Between(a, i, j)) = j - i
<1> DEFINE S == i + 1 .. j
           T == {a[x] : x \in i + 1 .. j}
           g == [x \in i + 1 .. j |-> a[x]]
<1>1. IsFiniteSet(S) /\ Cardinality(S) = j - i
  <2>1. i + 1 \in Int /\ j \in Int
    OBVIOUS
  <2>2. IsFiniteSet(S) /\ Cardinality(S) = IF i + 1 > j THEN 0 ELSE j - (i + 1) + 1
    BY <2>1, FS_Interval
  <2> QED BY <2>2
<1>2. g \in Surjection(S, T)
  BY DEF Surjection
<1>3. g \in Injection(S, T)
  <2>1. ASSUME NEW x \in S, NEW y \in S, g[x] = g[y] PROVE x = y
    <3>1. ~(x < y) /\ ~(y < x)
      BY <2>1 DEF Differ
    <3> QED BY <3>1
  <2> QED BY <2>1 DEF Injection, IsInjective
<1> HIDE DEF S, T, g
<1>4. IsFiniteSet(T) /\ Cardinality(T) = Cardinality(S)
  BY <1>1, <1>2, <1>3, FS_Surjection
<1> QED BY <1>1, <1>4 DEF T, Between

\* The same of the first N elements of a, said of the places that end a line.
CoversTo(a, N, f, h, s, n) ==
    /\ \A i \in 1 .. N : a[i] = [file |-> h, first |-> a[i].first, last |-> a[i].last]
    /\ \A i \in 1 .. N : a[i].first \in 1 .. n /\ a[i].last \in 1 .. n
    /\ \A i \in 1 .. N : s < a[i].first /\ a[i].first <= a[i].last
    /\ \A i \in 1 .. N : a[i].last \in Ends(f, n)
    /\ \A i \in 1 .. N : \A q \in a[i].first .. a[i].last - 1 : q \notin Ends(f, n)
    /\ \A i, j \in 1 .. N : i < j => a[i].last < a[j].first
    /\ \A i \in 2 .. N : a[i].first = a[i - 1].last + 1
    /\ a[1].first = s + 1
    /\ \A p \in s + 1 .. n : p \in Ends(f, n) => \E i \in 1 .. N : a[i].last = p
    /\ (\A i \in 2 .. N : a[i].last - a[i].first < AvgLine) =>
           n - a[1].last <= (N - 1) * AvgLine

LastOf(f, h, n, t) ==
    {l \in Lines(f, h, n) : Cardinality({m \in Lines(f, h, n) : m.last > l.last}) < t}

\* Place s is the start, or t lines of the length assumed before place n.
Reaches(s, t, n) == s = 0 \/ s + t * AvgLine <= n

Short(f, h, n) == \A l \in Lines(f, h, n) : l.last - l.first < AvgLine

\* Of lines that cover the end of a file the last t are the last t lines of the file.
LEMMA LastOfLines ==
  ASSUME NEW f, NEW h, NEW n \in Nat, NEW s \in 0 .. n, NEW t \in Nat \ {0},
         NEW a, NEW N \in Nat \ {0}, NEW o \in Nat, o < N, N > t => o = N - t, N <= t => o = 0,
         CoversTo(a, N, f, h, s, n),
         Reaches(s, t, n), Short(f, h, n)
  PROVE  Between(a, o, N) = LastOf(f, h, n, t)
<1> DEFINE L == Lines(f, h, n)
<1>a. /\ s = 0 \/ s + t * AvgLine <= n
      /\ \A l \in L : l.last - l.first < AvgLine
  BY DEF Reaches, Short
<1>0. N \in Nat /\ N >= 1 /\ AvgLine \in Nat \ {0}
  BY BoundsAssumption
<1>s. s \in Nat
  OBVIOUS
<1>p. PICK k \in 1 .. N : k = o + 1
  <2>1. o + 1 \in 1 .. N
    OBVIOUS
  <2> QED BY <2>1
<1>k. k \in 1 .. N /\ (N > t => N - k + 1 = t) /\ (N <= t => k = 1)
  BY <1>p
<1>1. \A i \in 1 .. N : a[i] = [file |-> h, first |-> a[i].first, last |-> a[i].last]
  BY DEF CoversTo
<1>2. \A i \in 1 .. N : a[i].first \in 1 .. n /\ a[i].last \in 1 .. n
                        /\ s < a[i].first /\ a[i].first <= a[i].last
  BY DEF CoversTo
<1>3. \A p \in s + 1 .. n : p \in Ends(f, n) => \E i \in 1 .. N : a[i].last = p
  BY DEF CoversTo
<1>o. \A i, j \in 1 .. N : i < j => a[i].last < a[j].first
  BY DEF CoversTo
<1>e. \A i \in 1 .. N : /\ a[i].last \in Ends(f, n)
                        /\ \A q \in a[i].first .. a[i].last - 1 : q \notin Ends(f, n)
  BY DEF CoversTo
<1>4. \A i \in 2 .. N : a[i] \in L
  <2> SUFFICES ASSUME NEW i \in 2 .. N PROVE a[i] \in L
    OBVIOUS
  <2>1. i \in 1 .. N /\ i - 1 \in 1 .. N
    OBVIOUS
  <2>2. a[i].first = a[i - 1].last + 1
    BY DEF CoversTo
  <2>3. a[i].first - 1 \in Ends(f, n)
    <3>1. a[i - 1].last \in Nat /\ a[i - 1].last \in Ends(f, n)
      BY <1>1, <1>2, <1>e, <2>1
    <3>2. a[i].first - 1 = a[i - 1].last
      BY <2>2, <3>1
    <3> QED BY <3>1, <3>2
  <2> HIDE DEF L
  <2>4. [file |-> h, first |-> a[i].first, last |-> a[i].last] \in Lines(f, h, n)
    BY <1>1, <1>2, <1>e, <2>1, <2>3, IsLine
  <2> QED BY <1>1, <1>2, <1>e, <2>1, <2>4 DEF L
<1>5. n - a[1].last <= (N - 1) * AvgLine
  <2>1. \A i \in 2 .. N : a[i].last - a[i].first < AvgLine
    BY <1>a, <1>4
  <2> QED BY <2>1 DEF CoversTo
<1>f. a[1].first = s + 1 /\ 1 \in 1 .. N /\ s \in 0 .. n
  BY <1>0 DEF CoversTo
\* The line in which tailLines began.
<1>6. PICK e \in 0 .. s : (e = 0 \/ f[e]) /\ \A q \in e + 1 .. s : ~f[q]
  BY <1>s, LastEnd
<1>7. [file |-> h, first |-> e + 1, last |-> a[1].last] \in L
  <2>1. /\ a[1].last \in 1 .. n /\ a[1].last \in Ends(f, n) /\ s + 1 <= a[1].last
        /\ \A q \in s + 1 .. a[1].last - 1 : q \notin Ends(f, n)
    BY <1>1, <1>2, <1>e, <1>f
  <2>2. e + 1 \in 1 .. n /\ e + 1 <= a[1].last /\ (e + 1) - 1 = e
    BY <2>1
  <2>3. e = 0 \/ e \in Ends(f, n)
    BY <1>6, <2>1 DEF Ends
  <2>4. \A q \in e + 1 .. a[1].last - 1 : q \notin Ends(f, n)
    <3>1. \A q \in e + 1 .. a[1].last - 1 : q \in e + 1 .. s \/ q \in s + 1 .. a[1].last - 1
      BY <2>1
    <3>2. \A q \in e + 1 .. s : q \notin Ends(f, n)
      BY <1>6, <2>1 DEF Ends
    <3> QED BY <2>1, <3>1, <3>2
  <2>5. e + 1 = 1 \/ (e + 1) - 1 \in Ends(f, n)
    BY <2>2, <2>3
  <2> QED BY <2>1, <2>2, <2>4, <2>5, IsLine
<1>8. s > 0 => t <= N /\ (s \notin Ends(f, n) => t < N)
  <2> SUFFICES ASSUME s > 0 PROVE t <= N /\ (s \notin Ends(f, n) => t < N)
    OBVIOUS
  <2>1. a[1].last - (e + 1) < AvgLine
    <3> DEFINE l == [file |-> h, first |-> e + 1, last |-> a[1].last]
    <3>1. l.last - l.first < AvgLine
      BY <1>a, <1>7
    <3> QED BY <3>1
  <2>2. a[1].last \in Nat /\ a[1].last <= n /\ s + 1 <= a[1].last
    BY <1>1, <1>2, <1>e, <1>f
  <2>3. s + t * AvgLine <= n
    BY <1>a, <1>s
  <2> DEFINE x == (N - 1) * AvgLine
             y == t * AvgLine
  <2>4. x \in Int /\ y \in Int /\ N * AvgLine = x + AvgLine
    BY <1>0
  <2>5. n - a[1].last <= x /\ s + y <= n
    BY <1>5, <2>3
  <2> HIDE DEF x, y
  <2>6. y <= x + AvgLine /\ (e # s => y < x + AvgLine)
    BY <1>0, <2>1, <2>2, <2>4, <2>5
  <2>7. t * AvgLine <= N * AvgLine /\ (e # s => t * AvgLine < N * AvgLine)
    BY <2>4, <2>6 DEF y
  <2>8. t <= N /\ (e # s => t < N)
    BY <1>0, <2>7, FewerTimes
  <2>9. e = s => s \in Ends(f, n)
    BY <1>6, <1>f DEF Ends
  <2> QED BY <2>8, <2>9
<1>9. \A i \in k .. N : a[i] \in L
  <2> SUFFICES ASSUME NEW i \in k .. N PROVE a[i] \in L
    OBVIOUS
  <2>1. CASE i # 1
    <3>1. i \in 2 .. N
      BY <1>k, <2>1
    <3> QED BY <1>4, <3>1
  <2>2. CASE i = 1
    <3>1. N <= t
      BY <1>k, <1>0, <2>2
    <3>2. e = s
      <4>1. CASE s = 0
        BY <4>1
      <4>2. CASE s > 0
        <5>1. s \in Ends(f, n)
          BY <1>0, <1>8, <3>1, <4>2
        <5>2. s \in 1 .. n /\ s # n
          BY <1>1, <1>2, <1>e, <1>f, <4>2
        <5>3. f[s]
          BY <5>1, <5>2 DEF Ends
        <5>4. e # s => s \in e + 1 .. s
          OBVIOUS
        <5> QED BY <1>6, <5>3, <5>4
      <4> QED BY <4>1, <4>2
    <3> QED BY <1>1, <1>2, <1>e, <1>7, <1>f, <2>2, <3>2
  <2> QED BY <2>1, <2>2
<1> HIDE DEF L
<1>10. ASSUME NEW i \in 0 .. N
       PROVE  /\ IsFiniteSet({a[x] : x \in i + 1 .. N})
              /\ Cardinality({a[x] : x \in i + 1 .. N}) = N - i
  <2>1. \A x, y \in i + 1 .. N : x < y => a[x] # a[y]
    <3> SUFFICES ASSUME NEW x \in i + 1 .. N, NEW y \in i + 1 .. N, x < y PROVE a[x] # a[y]
      OBVIOUS
    <3>1. x \in 1 .. N /\ y \in 1 .. N
      OBVIOUS
    <3>2. a[x].last < a[y].first /\ a[y].first <= a[y].last
      BY <1>2, <1>o, <3>1
    <3>3. a[x].last # a[y].last
      BY <1>1, <1>2, <1>e, <3>1, <3>2
    <3> QED BY <3>3
  <2>2. i \in Nat /\ i <= N
    BY <1>0
  <2>3. N \in Nat /\ i \in Nat /\ i <= N
    BY <1>0, <2>2
  <2>4. IsFiniteSet(Between(a, i, N)) /\ Cardinality(Between(a, i, N)) = N - i
    <3>1. Differ(a, i, N)
      BY <2>1 DEF Differ
    <3> QED BY <2>3, <3>1, SomeOf
  <2> QED BY <2>4 DEF Between
<1>11. ASSUME NEW i \in 1 .. N, NEW j \in 1 .. N, i < j PROVE a[i].last < a[j].last
  BY <1>2, <1>o, <1>11
<1>12. ASSUME NEW i \in k .. N
       PROVE  {m \in L : m.last > a[i].last} = {a[j] : j \in i + 1 .. N}
  <2>1. i \in 1 .. N
    BY <1>k
  <2>2. ASSUME NEW m \in L, m.last > a[i].last PROVE m \in {a[j] : j \in i + 1 .. N}
    <3>1. m.last \in 1 .. n /\ m.last \in Ends(f, n)
      BY LinesAre DEF L
    <3>2. m.last \in s + 1 .. n
      BY <1>1, <1>2, <1>e, <2>1, <2>2, <3>1
    <3>3. PICK j \in 1 .. N : a[j].last = m.last
      BY <1>3, <3>1, <3>2
    <3>4. i < j
      BY <1>1, <1>2, <1>e, <1>11, <2>1, <2>2, <3>3
    <3>5. j \in i + 1 .. N /\ j \in k .. N
      BY <1>k, <2>1, <3>4
    <3>6. m = a[j]
      BY <1>9, <3>3, <3>5, OneLine DEF L
    <3> QED BY <3>5, <3>6
  <2>3. ASSUME NEW j \in i + 1 .. N PROVE a[j] \in L /\ a[j].last > a[i].last
    <3>1. j \in k .. N /\ j \in 1 .. N /\ i < j
      BY <1>k, <2>1
    <3>2. a[i].last < a[j].last
      BY <1>11, <2>1, <3>1
    <3> QED BY <1>1, <1>2, <1>e, <1>9, <2>1, <3>1, <3>2
  <2> QED BY <2>2, <2>3
<1>14. ASSUME NEW i \in k .. N PROVE Cardinality({m \in L : m.last > a[i].last}) < t
  <2>1. i \in 0 .. N
    BY <1>k
  <2>2. Cardinality({m \in L : m.last > a[i].last}) = N - i
    BY <1>10, <1>12, <2>1
  <2>3. N - i < t
    BY <1>0, <1>k
  <2> QED BY <2>2, <2>3
<1>15. ASSUME NEW l \in L, Cardinality({m \in L : m.last > l.last}) < t
       PROVE  l \in {a[i] : i \in k .. N}
  <2> SUFFICES ASSUME l \notin {a[i] : i \in k .. N} PROVE FALSE
    OBVIOUS
  <2>1. l.last \in 1 .. n /\ l.last \in Ends(f, n)
    BY LinesAre DEF L
  <2>2. ASSUME l.last > s
        PROVE  \E i \in 1 .. k - 1 : a[i].last = l.last
    <3>1. l.last \in s + 1 .. n
      BY <2>1, <2>2
    <3>2. PICK i \in 1 .. N : a[i].last = l.last
      BY <1>3, <2>1, <3>1
    <3>3. i \notin k .. N
      <4> SUFFICES ASSUME i \in k .. N PROVE FALSE
        OBVIOUS
      <4>1. a[i] \in L
        BY <1>9
      <4>2. l = a[i]
        BY <3>2, <4>1, OneLine DEF L
      <4> QED BY <4>2
    <3>4. i \in 1 .. k - 1
      BY <1>k, <3>3
    <3> QED BY <3>2, <3>4
  <2>3. ASSUME NEW j \in k .. N PROVE a[j] \in L /\ a[j].last > l.last
    <3>1. j \in 1 .. N
      BY <1>k
    <3>2. CASE l.last > s
      <4>1. PICK i \in 1 .. k - 1 : a[i].last = l.last
        BY <2>2, <3>2
      <4>2. i \in 1 .. N /\ i < j
        BY <1>k, <4>1
      <4>3. a[i].last < a[j].last
        BY <1>11, <3>1, <4>2
      <4> QED BY <1>1, <1>2, <1>e, <1>9, <3>1, <4>1, <4>2, <4>3
    <3>3. CASE ~(l.last > s)
      <4>1. s < a[j].first /\ a[j].first <= a[j].last /\ a[j].first \in Nat /\ a[j].last \in Nat
        BY <1>1, <1>2, <1>e, <3>1
      <4> QED BY <1>9, <2>1, <3>3, <4>1
    <3> QED BY <3>2, <3>3
  <2> DEFINE T == {a[j] : j \in k .. N}
             F == {m \in L : m.last > l.last}
  <2>4. T \in SUBSET F
    BY <2>3
  <2>5. IsFiniteSet(F)
    <3>1. IsFiniteSet(L)
      BY LinesFinite DEF L
    <3>2. F \in SUBSET L
      OBVIOUS
    <3> HIDE DEF F
    <3> QED BY <3>1, <3>2, FS_Subset
  <2>6. Cardinality(T) = N - (k - 1)
    <3>1. k - 1 \in 0 .. N /\ (k - 1) + 1 = k
      BY <1>k
    <3>2. Cardinality({a[x] : x \in (k - 1) + 1 .. N}) = N - (k - 1)
      BY <1>10, <3>1
    <3> QED BY <3>1, <3>2
  <2>7. Cardinality(T) <= Cardinality(F) /\ Cardinality(F) < t /\ Cardinality(F) \in Nat
    <3>1. Cardinality(F) < t
      BY <1>15
    <3> HIDE DEF T, F
    <3> QED BY <2>4, <2>5, <3>1, FS_Subset, FS_CardinalityType
  <2>8. N - (k - 1) < t
    <3> HIDE DEF T, F
    <3> QED BY <1>0, <1>k, <2>6, <2>7
  <2>9. N < t /\ k = 1
    BY <1>0, <1>k, <2>8
  <2>10. s = 0
    BY <1>0, <1>8, <2>9
  <2>11. l.last > s
    BY <2>1, <2>10
  <2>12. \A i \in 1 .. k - 1 : FALSE
    BY <2>9
  <2> QED BY <2>2, <2>11, <2>12
<1>16. \A i \in k .. N : a[i] \in {l \in L : Cardinality({m \in L : m.last > l.last}) < t}
  BY <1>9, <1>14
<1>17. {a[i] : i \in k .. N} = {l \in L : Cardinality({m \in L : m.last > l.last}) < t}
  <2> DEFINE T == {a[i] : i \in k .. N}
             F == {l \in L : Cardinality({m \in L : m.last > l.last}) < t}
  <2>0. \A i \in k .. N : a[i] \in F
    BY <1>16
  <2>1. \A x \in T : x \in F
    <3> HIDE DEF F
    <3> QED BY <2>0
  <2>2. \A x \in F : x \in L /\ Cardinality({m \in L : m.last > x.last}) < t
    OBVIOUS
  <2>3. \A x \in F : x \in T
    BY <1>15, <2>2
  <2> HIDE DEF T, F
  <2>4. T = F
    BY <2>1, <2>3
  <2> QED BY <2>4 DEF T, F
<1>18. o + 1 .. N = k .. N
  BY <1>p
<1> QED BY <1>17, <1>18 DEF L, Between, LastOf

\* The last t of the lines that cover the end of a file.
LEMMA LastFound ==
  ASSUME NEW f, NEW h, NEW n \in Nat, NEW s \in Nat, NEW t \in Nat \ {0},
         NEW a \in Seq(LineType), a # <<>>, Covers(a, f, h, s, n),
         Reaches(s, t, n), Short(f, h, n)
  PROVE  Range(IF Len(a) > t THEN SubSeq(a, Len(a) - t + 1, Len(a)) ELSE a)
         = LastOf(f, h, n, t)
<1>1. PICK N \in Nat \ {0} : N = Len(a)
  BY EmptySeq
<1>2. PICK k \in 1 .. N : (N > t => k = N - t + 1) /\ (N <= t => k = 1)
  <2>1. CASE N > t
    <3>1. N - t + 1 \in 1 .. N /\ ~(N <= t)
      BY <2>1
    <3> QED BY <2>1, <3>1
  <2>2. CASE N <= t
    <3>1. 1 \in 1 .. N /\ ~(N > t)
      BY <2>2
    <3> QED BY <3>1
  <2> QED BY <2>1, <2>2
<1>3. \A i \in 1 .. N : a[i] \in LineType
  BY <1>1, ElementOfSeq
<1>4. \A i \in 1 .. N :
          /\ a[i].file = h /\ s < a[i].first /\ a[i].first <= a[i].last /\ a[i].last <= n
          /\ f[a[i].last] \/ a[i].last = n
          /\ \A q \in a[i].first .. a[i].last - 1 : ~f[q]
  BY <1>1 DEF Covers
<1>5. \A i \in 1 .. N : a[i].first \in Nat \ {0} /\ a[i].last \in Nat \ {0}
  BY <1>3, BoundsAssumption DEF LineType
<1>6. \A i \in 1 .. N : a[i] = [file |-> h, first |-> a[i].first, last |-> a[i].last]
  <2> SUFFICES ASSUME NEW i \in 1 .. N
               PROVE  a[i] = [file |-> h, first |-> a[i].first, last |-> a[i].last]
    OBVIOUS
  <2>1. a[i] \in LineType /\ a[i].file = h
    BY <1>3, <1>4
  <2> QED BY <2>1 DEF LineType
<1>7. /\ \A i \in 1 .. N : a[i].first \in 1 .. n /\ a[i].last \in 1 .. n
      /\ \A i \in 1 .. N : s < a[i].first /\ a[i].first <= a[i].last
  BY <1>4, <1>5
<1>8. /\ \A i \in 1 .. N : a[i].last \in Ends(f, n)
      /\ \A i \in 1 .. N : \A q \in a[i].first .. a[i].last - 1 : q \notin Ends(f, n)
  <2> SUFFICES ASSUME NEW i \in 1 .. N
               PROVE  /\ a[i].last \in Ends(f, n)
                      /\ \A q \in a[i].first .. a[i].last - 1 : q \notin Ends(f, n)
    OBVIOUS
  <2>1. a[i].last \in 1 .. n /\ a[i].first \in 1 .. n
    BY <1>7
  <2>2. \A q \in a[i].first .. a[i].last - 1 : q # n /\ ~f[q]
    <3> SUFFICES ASSUME NEW q \in a[i].first .. a[i].last - 1 PROVE q # n /\ ~f[q]
      OBVIOUS
    <3>1. ~f[q]
      BY <1>4
    <3>2. q < a[i].last /\ q \in Int
      BY <2>1
    <3>3. q # n
      BY <2>1, <3>2
    <3> QED BY <3>1, <3>3
  <2> QED BY <1>4, <2>1, <2>2 DEF Ends
<1>9. /\ s \in 0 .. n /\ a[1].first = s + 1
      /\ \A i, j \in 1 .. N : i < j => a[i].last < a[j].first
      /\ \A i \in 2 .. N : a[i].first = a[i - 1].last + 1
  BY <1>1 DEF Covers
<1>10. \A p \in s + 1 .. n : p \in Ends(f, n) => \E i \in 1 .. N : a[i].last = p
  BY <1>1 DEF Covers, Ends
<1>11. (\A i \in 2 .. N : a[i].last - a[i].first < AvgLine) =>
          n - a[1].last <= (N - 1) * AvgLine
  BY <1>1 DEF Covers
<1>12. PICK o \in Nat : o < N /\ o + 1 = k /\ (N > t => o = N - t) /\ (N <= t => o = 0)
  <2>1. k - 1 \in Nat /\ k - 1 < N /\ (k - 1) + 1 = k
    OBVIOUS
  <2>2. (N > t => k - 1 = N - t) /\ (N <= t => k - 1 = 0)
    BY <1>2
  <2> QED BY <2>1, <2>2
<1>13. Between(a, o, N) = LastOf(f, h, n, t)
  <2>1. CoversTo(a, N, f, h, s, n)
    BY <1>6, <1>7, <1>8, <1>9, <1>10, <1>11 DEF CoversTo
  <2> QED BY <1>9, <1>12, <2>1, LastOfLines
<1>14. Range(IF Len(a) > t THEN SubSeq(a, Len(a) - t + 1, Len(a)) ELSE a)
       = {a[i] : i \in k .. N}
  <2>1. CASE N > t
    <3> DEFINE r == SubSeq(a, k, N)
    <3>1. k = N - t + 1
      BY <1>2, <2>1
    <3>2. \A i \in k .. N : a[i] \in LineType
      BY <1>3
    <3>3. /\ Len(r) = N - k + 1 /\ r \in Seq(LineType)
          /\ \A i \in 1 .. N - k + 1 : r[i] = a[k + i - 1]
      <4>1. k \in Nat /\ N \in Nat /\ k <= N + 1
        OBVIOUS
      <4> QED BY <3>2, <4>1, SubSeqProperties
    <3> HIDE DEF r
    <3>4. DOMAIN r = 1 .. N - k + 1
      BY <3>3
    <3>5. \A i \in k .. N : i - k + 1 \in 1 .. N - k + 1 /\ k + (i - k + 1) - 1 = i
      OBVIOUS
    <3>6. \A i \in 1 .. N - k + 1 : k + i - 1 \in k .. N
      OBVIOUS
    <3>7. \A i \in k .. N : r[i - k + 1] = a[i]
      BY <3>3, <3>5
    <3>8. ASSUME NEW x \in Range(r) PROVE \E i \in k .. N : a[i] = x
      <4>1. PICK i \in 1 .. N - k + 1 : x = r[i]
        BY <3>4, <3>8 DEF Range
      <4> QED BY <3>3, <3>6, <4>1
    <3>9. ASSUME NEW i \in k .. N PROVE a[i] \in Range(r)
      <4>1. i - k + 1 \in DOMAIN r
        BY <3>4, <3>5
      <4> QED BY <3>7, <4>1 DEF Range
    <3>10. Range(r) = {a[i] : i \in k .. N}
      BY <3>8, <3>9
    <3> QED BY <1>1, <2>1, <3>1, <3>10 DEF r
  <2>2. CASE N <= t
    <3>1. k = 1 /\ DOMAIN a = 1 .. N /\ ~(N > t)
      BY <1>1, <1>2, <2>2
    <3>2. Range(a) = {a[i] : i \in 1 .. N}
      BY <3>1 DEF Range
    <3> QED BY <1>1, <3>1, <3>2
  <2> QED BY <2>1, <2>2
<1>15. o + 1 .. N = k .. N
  BY <1>12
<1> QED BY <1>13, <1>14, <1>15 DEF Between

-----------------------------------------------------------------------------
(* What tailLines finds *)

LEMMA CollectEndFinds ==
  ASSUME TypeOK, FileInv, OrderInv, ScannerInv, FoundInv, CollectEnd
  PROVE  FindsLastLines'
<1> USE DEF fsVars, tailVars
<1> DEFINE f == files[handle]
           all == IF from < pos THEN Append(found, LineTo(pos)) ELSE found
           t == config.tail
<1>1. /\ pc = "collect" /\ pos = Len(f) /\ UNCHANGED <<files, handle, pos, config>>
      /\ found' = IF Len(all) > t THEN SubSeq(all, Len(all) - t + 1, Len(all)) ELSE all
  BY DEF CollectEnd, AtEnd
<1>2. /\ pos \in Nat /\ from \in Nat /\ from <= pos /\ pos <= MaxPieces /\ MaxPieces \in Nat
      /\ found \in Seq(LineType) /\ handle \in File
  BY <1>1, BoundsAssumption DEF TypeOK, FileInv
<1>3. t \in Nat \ {0} /\ (found = <<>> => from < pos)
  <2>1. config \in Configs /\ config.tail # 0 /\ (found = <<>> => from < Len(files[handle]))
    BY <1>1 DEF ScannerInv, TypeOK
  <2> QED BY <1>1, <2>1, ConfigsAssumption
<1>4. PICK s \in 0 .. from :
          /\ s = 0 \/ s + t * AvgLine <= Len(f)
          /\ Covers(found, f, handle, s, from)
          /\ found # <<>> => f[from]
  BY <1>1 DEF FoundInv
<1>5. s \in Nat
  BY <1>4
<1>6. all \in Seq(LineType) /\ all # <<>> /\ Covers(all, f, handle, s, pos)
  <2>1. CASE from < pos
    <3>1. pos \in 1 .. MaxPieces
      BY <1>2, <2>1
    <3>2. /\ LineTo(pos) \in LineType /\ LineTo(pos).file = handle
          /\ LineTo(pos).first = from + 1 /\ LineTo(pos).last = pos
      BY <1>2, <2>1, <3>1, LineToType
    <3>3. \A q \in from + 1 .. pos - 1 : ~f[q]
      <4>1. \A q \in from + 1 .. pos - 1 : q \in from + 1 .. pos
        BY <1>2
      <4> QED BY <1>1, <4>1 DEF ScannerInv
    <3>4. Covers(Append(found, LineTo(pos)), f, handle, s, pos)
      <4> HIDE DEF f
      <4> QED BY <1>2, <1>4, <1>5, <2>1, <3>2, <3>3, CoversOn
    <3>5. Append(found, LineTo(pos)) \in Seq(LineType) /\ Append(found, LineTo(pos)) # <<>>
      BY <1>2, <3>2
    <3> QED BY <2>1, <3>4, <3>5
  <2>2. CASE ~(from < pos)
    <3>1. from = pos /\ all = found
      BY <1>2, <2>2
    <3> QED BY <1>2, <1>3, <1>4, <2>2, <3>1
  <2> QED BY <2>1, <2>2
<1>7. s = 0 \/ s + t * AvgLine <= pos
  BY <1>1, <1>4
<1>8. LinesRead' = Lines(f, handle, pos)
  BY <1>1 DEF LinesRead, Lines, Ends
<1>9. LastLines(config.tail)' = LastOf(f, handle, pos, t)
  BY <1>1, <1>8 DEF LastLines, LastOf
<1> SUFFICES ASSUME \A l \in Lines(f, handle, pos) : l.last - l.first < AvgLine
             PROVE  Range(found') = LastLines(config.tail)'
  BY <1>8 DEF FindsLastLines
<1> HIDE DEF f, all, t
<1>10. Reaches(s, t, pos) /\ Short(f, handle, pos)
  BY <1>7 DEF Reaches, Short
<1>11. Range(IF Len(all) > t THEN SubSeq(all, Len(all) - t + 1, Len(all)) ELSE all)
       = LastOf(f, handle, pos, t)
  BY <1>2, <1>3, <1>5, <1>6, <1>10, LastFound
<1> QED BY <1>1, <1>9, <1>11

\* While the lines found are to be sent, those that were read stay the same.
LEMMA NextFinds ==
  ASSUME TypeOK, FileInv, OrderInv, ScannerInv, FoundInv, FindsLastLines, [Next]_vars
  PROVE  FindsLastLines'
<1> USE DEF fsVars, tailVars
<1>1. CASE CollectEnd
  BY <1>1, CollectEndFinds
<1>2. ASSUME UNCHANGED <<tailVars, got>> PROVE FindsLastLines'
  <2> SUFFICES ASSUME pc = "history"
               PROVE  FindsLastLines'
    BY <1>2 DEF FindsLastLines
  <2>1. handle \in File /\ pos <= Len(files[handle]) /\ pos \in Nat
    BY DEF FileInv, TypeOK
  <2>2. /\ Len(files[handle]) \in Nat
        /\ \A q \in 1 .. Len(files[handle]) : files'[handle][q] = files[handle][q]
    BY <2>1, FilesGrow
  <2>3. \A q \in 1 .. pos : files'[handle][q] = files[handle][q]
    <3>1. \A q \in 1 .. pos : q \in 1 .. Len(files[handle])
      BY <2>1, <2>2
    <3> QED BY <2>2, <3>1
  <2>4. Ends(files'[handle], pos) = Ends(files[handle], pos)
    BY <2>3 DEF Ends
  <2>5. LinesRead = Lines(files[handle], handle, pos)
    BY DEF LinesRead, Lines, Ends
  <2>6. LinesRead' = Lines(files'[handle], handle, pos)
    BY <1>2 DEF LinesRead, Lines, Ends
  <2>7. LinesRead' = LinesRead
    BY <2>4, <2>5, <2>6 DEF Lines
  <2>8. LastLines(config.tail)' = LastLines(config.tail)
    BY <1>2, <2>7 DEF LastLines
  <2> QED BY <1>2, <2>7, <2>8 DEF FindsLastLines
<1>3. ASSUME SendHistory PROVE FindsLastLines'
  <2>1. got' = Append(got, Head(found)) /\ got \in Seq(LineType)
    BY <1>3 DEF SendHistory, Sent, TypeOK
  <2>2. got' # <<>>
    BY <2>1
  <2> QED BY <2>2 DEF FindsLastLines
<1>4. CASE pc' # "history"
  BY <1>4 DEF FindsLastLines
<1>5. CASE UNCHANGED vars
  BY <1>2, <1>5 DEF vars
<1>6. CASE Next /\ ~GoroutineStep
  BY <1>2, <1>6 DEF Next, Write, Rotate, Create, Switch, Stop
<1>7. ASSUME GoroutineStep, pc' = "history" PROVE CollectEnd \/ SendHistory
  BY <1>7 DEF GoroutineStep, Open, Seek, Collect, CollectTooLong, HistorySent, Watch,
              Scan, ScanEnd, ScanTooLong, WriteEvent, OtherEvent, RenameEvent, Reopen, Cancelled,
              Failed, Closed, Scanned, Positioned
<1> QED BY <1>1, <1>3, <1>4, <1>5, <1>6, <1>7

\* tailLines, which reads on from an estimated offset, finds the last lines of a file
\* whose lines are no longer than it assumes, however the file grows (tail.go:121).
THEOREM LastLinesFound == Spec => []FindsLastLines
<1>1. Init => FindsLastLines
  BY DEF Init, FindsLastLines
<1>2. TypeOK /\ FileInv /\ OrderInv /\ ScannerInv /\ FoundInv /\ FindsLastLines /\ [Next]_vars
      => ScannerInv' /\ FoundInv' /\ FindsLastLines'
  BY NextScanner, NextFound, NextFinds
<1> QED BY <1>1, <1>2, InitOldFile, InitFound, TailInvariant, PTL DEF Spec
=============================================================================
