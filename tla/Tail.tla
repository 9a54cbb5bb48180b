-------------------------------- MODULE Tail --------------------------------
(***************************************************************************)
(* src/agent/tail/tail.go: a goroutine that sends the lines of a file over *)
(* a channel, and goes on as the file grows and is rotated.                *)
(*                                                                         *)
(* A file is the sequence of the pieces written to it; a piece is TRUE if  *)
(* it ends a line.  What a line says does not matter: a line is the places *)
(* from its first piece to its last.  The channel is not buffered and its  *)
(* reader (GetLogs of src/agent/rpc.go) takes what is sent until it stops  *)
(* the goroutine: a send is one step with its receipt.                     *)
(***************************************************************************)
EXTENDS Integers, Sequences, SequencesExt

CONSTANTS
    Configs,       \* the configurations the goroutine may be started with
    MaxPieces,     \* bound on the pieces written to one file
    AvgLine,       \* the line length tailLines assumes (100 bytes), in pieces
    MaxLine,       \* Config.MaxLineSize, in pieces
    Rotations,     \* how the file may be rotated: "rename", "remove"
    EarlyRotation, \* whether that may happen before the file is watched
    Stops          \* whether the reader may stop the goroutine

\* tail is -Location.Offset, the lines wanted from the end; 0: no Location.
ASSUME ConfigsAssumption ==
    Configs \subseteq [follow : BOOLEAN, reopen : BOOLEAN, tail : Nat]
ASSUME BoundsAssumption ==
    /\ MaxPieces \in Nat
    /\ AvgLine \in Nat \ {0} /\ MaxLine \in Nat \ {0}
    /\ Rotations \subseteq {"rename", "remove"}
    /\ EarlyRotation \in BOOLEAN /\ Stops \in BOOLEAN

VARIABLES
    \* the file system: two files, the one the path names (0: none), the one
    \* the writer has open; how the first lost its name, and what it then held
    files, path, out, rotated, cut,
    \* inotify: the watched file and the events not yet read
    watch, events,
    \* the goroutine: its configuration, its position, its file (0: none), its
    \* offset in it, where the line begins that its scanner is in, and the lines
    \* tailLines has found
    config, pc, handle, pos, from, found,
    \* what the reader has been sent, the end of the context and t.err
    got, stopped, err

fsVars   == <<files, path, out, rotated, cut>>
tailVars == <<config, pc, handle, pos, from, found>>
vars     == <<fsVars, watch, events, tailVars, got, stopped, err>>

File == {1, 2}

LineType == [file : File, first : 1 .. MaxPieces, last : 1 .. MaxPieces]

\* Every variable has its type.
TypeOK ==
    /\ files \in [File -> Seq(BOOLEAN)]
    /\ path \in File \cup {0} /\ out \in File
    /\ rotated \in {"no", "early", "rename", "remove"} /\ cut \in 0 .. MaxPieces
    /\ watch \in File \cup {0}
    /\ events \in Seq({"write", "rename", "attrib"})
    /\ config \in Configs
    /\ pc \in {"open", "seek", "collect", "history", "watch", "scan", "wait",
               "reopen", "rewatch", "closed"}
    /\ handle \in File \cup {0}
    /\ pos \in 0 .. MaxPieces /\ from \in 0 .. pos
    /\ found \in Seq(LineType) /\ got \in Seq(LineType)
    /\ stopped \in BOOLEAN /\ err \in BOOLEAN

\* TailFile has started the goroutine on a file that may hold lines already.
Init ==
    /\ \E n \in 0 .. MaxPieces : \E written \in [1 .. n -> BOOLEAN] :
           files = <<written, <<>>>>
    /\ path = 1 /\ out = 1 /\ rotated = "no" /\ cut = 0
    /\ watch = 0 /\ events = <<>>
    /\ config \in Configs
    /\ pc = "open" /\ handle = 0 /\ pos = 0 /\ from = 0
    /\ found = <<>> /\ got = <<>>
    /\ stopped = FALSE /\ err = FALSE

-----------------------------------------------------------------------------
(* The writer, the rotation and inotify, outside the code *)

\* An event joins the queue unless it repeats the last one in it.
Queued(e, f) ==
    IF watch # f \/ (events # <<>> /\ Last(events) = e) THEN events
    ELSE Append(events, e)

Write(end) ==
    /\ Len(files[out]) < MaxPieces
    /\ files' = [files EXCEPT ![out] = Append(@, end)]
    /\ events' = Queued("write", out)
    /\ UNCHANGED <<path, out, rotated, cut, watch, tailVars, got, stopped, err>>

\* The name is taken from the file, perhaps before it is watched.  The removal of a
\* file that is open only changes its attributes: its deletion waits until it is closed.
Rotate(how) ==
    /\ path = 1
    /\ EarlyRotation \/ watch = 1
    /\ path' = 0
    /\ rotated' = IF watch = 1 THEN how ELSE "early"
    /\ cut' = Len(files[1])
    /\ events' = Queued(IF how = "rename" THEN "rename" ELSE "attrib", 1)
    /\ UNCHANGED <<files, out, watch, tailVars, got, stopped, err>>

Create ==
    /\ path = 0
    /\ path' = 2
    /\ UNCHANGED <<files, out, rotated, cut, watch, events, tailVars, got, stopped, err>>

\* The writer turns to the new file; until then it has written to the old one.
Switch ==
    /\ path = 2 /\ out = 1
    /\ out' = 2
    /\ UNCHANGED <<files, path, rotated, cut, watch, events, tailVars, got, stopped, err>>

-----------------------------------------------------------------------------
(* The goroutine: run, until it watches the file *)

\* The deferred calls close the file and the watcher.
Closed == pc' = "closed" /\ watch' = 0 /\ events' = <<>>

Failed == Closed /\ err' = TRUE

Open ==
    /\ pc = "open"
    /\ IF path = 0 THEN Failed /\ handle' = 0
       ELSE pc' = "seek" /\ handle' = path /\ UNCHANGED <<watch, events, err>>
    /\ UNCHANGED <<fsVars, config, pos, from, found, got, stopped>>

\* Where run goes once it is at the position the configuration asks for.
Positioned == IF config.follow THEN "watch" ELSE "scan"

\* A mutant of Seek: the estimated offset may be before the file.
SeekUnclamped ==
    /\ pc = "seek"
    /\ LET size == Len(files[handle])
       IN  IF config.tail = 0 \/ size = 0
           THEN pc' = Positioned /\ pos' = 0
           ELSE pc' = "collect" /\ pos' = size - config.tail * AvgLine
    /\ from' = pos'
    /\ UNCHANGED <<fsVars, watch, events, config, handle, found, got, stopped, err>>

\* seekToPosition: from the start, or tailLines from an estimated offset (a
\* file of size 0 is left at its start).
Seek ==
    /\ pc = "seek"
    /\ LET size  == Len(files[handle])
           start == size - config.tail * AvgLine
       IN  IF config.tail = 0 \/ size = 0
           THEN pc' = Positioned /\ pos' = 0
           ELSE pc' = "collect" /\ pos' = IF start < 0 THEN 0 ELSE start
    /\ from' = pos'
    /\ UNCHANGED <<fsVars, watch, events, config, handle, found, got, stopped, err>>

AtEnd == pos = Len(files[handle])

\* The next piece fills the scanner's buffer and ends no line: ErrTooLong.
TooLong == ~AtEnd /\ ~files[handle][pos + 1] /\ pos + 1 - from >= MaxLine

\* The scanner's line up to place p.
LineTo(p) == [file |-> handle, first |-> from + 1, last |-> p]

\* tailLines reads to the end of the file and keeps the last lines; an
\* unfinished line at the end counts as one (CollectEnd).
Collect ==
    /\ pc = "collect" /\ ~AtEnd /\ ~TooLong
    /\ pos' = pos + 1
    /\ IF files[handle][pos + 1]
       THEN from' = pos' /\ found' = Append(found, LineTo(pos'))
       ELSE UNCHANGED <<from, found>>
    /\ UNCHANGED <<fsVars, watch, events, config, pc, handle, got, stopped, err>>

\* A mutant of CollectEnd: one line too many is kept.
CollectEndKeepsOneMore ==
    /\ pc = "collect" /\ AtEnd
    /\ LET all == IF from < pos THEN Append(found, LineTo(pos)) ELSE found
           n   == Len(all)
       IN  found' = IF n > config.tail THEN SubSeq(all, n - config.tail, n) ELSE all
    /\ pc' = "history" /\ from' = pos
    /\ UNCHANGED <<fsVars, watch, events, config, handle, pos, got, stopped, err>>

CollectEnd ==
    /\ pc = "collect" /\ AtEnd
    /\ LET all == IF from < pos THEN Append(found, LineTo(pos)) ELSE found
           n   == Len(all)
       IN  found' = IF n > config.tail THEN SubSeq(all, n - config.tail + 1, n)
                    ELSE all
    /\ pc' = "history" /\ from' = pos
    /\ UNCHANGED <<fsVars, watch, events, config, handle, pos, got, stopped, err>>

CollectTooLong ==
    /\ pc = "collect" /\ TooLong
    /\ Failed
    /\ UNCHANGED <<fsVars, config, handle, pos, from, found, got, stopped>>

\* The reader takes the line; it takes none once it has stopped the goroutine.
Sent(line) == ~stopped /\ got' = Append(got, line)

SendHistory ==
    /\ pc = "history" /\ found # <<>>
    /\ Sent(Head(found))
    /\ found' = Tail(found)
    /\ UNCHANGED <<fsVars, watch, events, config, pc, handle, pos, from, stopped, err>>

\* A mutant of HistorySent: the lines were read through a handle of their own,
\* and the file is still at its start.
HistorySentUnread ==
    /\ pc = "history" /\ found = <<>>
    /\ pc' = Positioned /\ pos' = 0 /\ from' = 0
    /\ UNCHANGED <<fsVars, watch, events, config, handle, found, got, stopped, err>>

HistorySent ==
    /\ pc = "history" /\ found = <<>>
    /\ pc' = Positioned
    /\ UNCHANGED <<fsVars, watch, events, config, handle, pos, from, found, got,
                   stopped, err>>

\* watcher.Add watches the file the path names now, whichever is open.
Watch ==
    /\ pc \in {"watch", "rewatch"}
    /\ IF path = 0 THEN Failed
       ELSE pc' = "scan" /\ watch' = path /\ UNCHANGED <<events, err>>
    /\ UNCHANGED <<fsVars, config, handle, pos, from, found, got, stopped>>

-----------------------------------------------------------------------------
(* The loop of run, and readLines where the file is not followed *)

Scan ==
    /\ pc = "scan" /\ ~AtEnd /\ ~TooLong
    /\ pos' = pos + 1
    /\ IF files[handle][pos + 1] THEN from' = pos' /\ Sent(LineTo(pos'))
                                 ELSE UNCHANGED <<from, got>>
    /\ UNCHANGED <<fsVars, watch, events, config, pc, handle, found, stopped, err>>

\* After the last line, finished or not, the loop waits for an event.
Scanned ==
    IF config.follow THEN pc' = "wait" /\ UNCHANGED <<watch, events>> ELSE Closed

ScanEnd ==
    /\ pc = "scan" /\ AtEnd
    /\ IF from < pos THEN Sent(LineTo(pos)) ELSE got' = got
    /\ from' = pos
    /\ Scanned
    /\ UNCHANGED <<fsVars, config, handle, pos, found, stopped, err>>

\* The scanner gives up, and keeps what it has read of the line.  GetLogs only
\* logs the error it is sent.
ScanTooLong ==
    /\ pc = "scan" /\ TooLong /\ ~stopped
    /\ pos' = pos + 1
    /\ Scanned
    /\ UNCHANGED <<fsVars, config, handle, from, found, got, stopped, err>>

\* A mutant of WriteEvent: the loop goes on with its scanner, which has ended.
WriteEventOldScanner ==
    /\ pc = "wait" /\ events # <<>> /\ Head(events) = "write"
    /\ events' = Tail(events)
    /\ UNCHANGED <<fsVars, watch, tailVars, got, stopped, err>>

\* A new scanner goes on from the file's offset.
WriteEvent ==
    /\ pc = "wait" /\ events # <<>> /\ Head(events) = "write"
    /\ events' = Tail(events)
    /\ pc' = "scan" /\ from' = pos
    /\ UNCHANGED <<fsVars, watch, config, handle, pos, found, got, stopped, err>>

\* After an event of another kind the old scanner is asked again: one that has
\* come to the end finds nothing more, one that gave up now yields what it kept.
OtherEvent ==
    /\ pc = "wait" /\ events # <<>> /\ Head(events) = "attrib"
    /\ events' = Tail(events)
    /\ IF from < pos THEN Sent(LineTo(pos)) ELSE got' = got
    /\ from' = pos
    /\ UNCHANGED <<fsVars, watch, config, pc, handle, pos, found, stopped, err>>

\* The old file and its watch are given up.
RenameEvent ==
    /\ pc = "wait" /\ events # <<>> /\ Head(events) = "rename"
    /\ IF config.reopen
       THEN pc' = "reopen" /\ watch' = 0 /\ events' = Tail(events)
       ELSE Closed
    /\ UNCHANGED <<fsVars, config, handle, pos, from, found, got, stopped, err>>

\* A mutant of Reopen: the new file is not watched.
ReopenUnwatched ==
    /\ pc = "reopen" /\ path # 0
    /\ handle' = path /\ pos' = 0 /\ from' = 0
    /\ pc' = "scan"
    /\ UNCHANGED <<fsVars, watch, events, config, found, got, stopped, err>>

\* reopenFile tries until there is a file again.
Reopen ==
    /\ pc = "reopen" /\ path # 0
    /\ handle' = path /\ pos' = 0 /\ from' = 0
    /\ pc' = "rewatch"
    /\ UNCHANGED <<fsVars, watch, events, config, found, got, stopped, err>>

\* GetLogs stops the goroutine when its client goes or cannot be sent to.
Stop ==
    /\ Stops /\ ~stopped
    /\ stopped' = TRUE
    /\ UNCHANGED <<fsVars, watch, events, tailVars, got, err>>

\* A mutant of Cancelled: the reopening does not look at the context.
CancelledUnlessReopening ==
    /\ stopped
    /\ \/ pc = "wait"
       \/ pc = "history" /\ found # <<>>
       \/ pc = "scan" /\ IF AtEnd THEN from < pos
                          ELSE TooLong \/ files[handle][pos + 1]
    /\ Closed
    /\ UNCHANGED <<fsVars, config, handle, pos, from, found, got, stopped, err>>

\* The places that look at the context: a send, the wait, a reopening.
Cancelled ==
    /\ stopped
    /\ \/ pc \in {"wait", "reopen"}
       \/ pc = "history" /\ found # <<>>
       \/ pc = "scan" /\ IF AtEnd THEN from < pos
                          ELSE TooLong \/ files[handle][pos + 1]
    /\ Closed
    /\ UNCHANGED <<fsVars, config, handle, pos, from, found, got, stopped, err>>

GoroutineStep ==
    \/ Open \/ Seek \/ Collect \/ CollectEnd \/ CollectTooLong
    \/ SendHistory \/ HistorySent \/ Watch
    \/ Scan \/ ScanEnd \/ ScanTooLong
    \/ WriteEvent \/ OtherEvent \/ RenameEvent \/ Reopen \/ Cancelled

Next ==
    \/ \E end \in BOOLEAN : Write(end)
    \/ \E how \in Rotations : Rotate(how)
    \/ Create \/ Switch \/ Stop
    \/ GoroutineStep

\* The scheduler runs the goroutine; nobody has to write, rotate or stop.
Spec == Init /\ [][Next]_vars /\ WF_vars(GoroutineStep)

-----------------------------------------------------------------------------
(* Properties *)

\* What the reader is sent follows on: every line begins where the one before
\* it ended, in the same file or at the start of the next, and only whole
\* buffers of a line that is too long are left out.  Scanners are thrown away
\* and made anew at every event (tail.go:229, 240), over one offset of the file.
SentInOrder ==
    \A i \in 2 .. Len(got) :
        LET a == got[i - 1]
            b == got[i]
        IN  IF a.file = b.file
            THEN b.first > a.last /\ (b.first - a.last - 1) % MaxLine = 0
            ELSE a.file < b.file /\ (b.first - 1) % MaxLine = 0

\* No line is too long, wherever the scanner begins.
Fits(f) ==
    \A p \in 1 .. Len(f) - MaxLine + 1 : \E q \in p .. p + MaxLine - 1 : f[q]

\* The goroutine turns to the new file only when it has sent all that the old
\* one held when it was renamed: the writes before the rename are events before
\* it (tail.go:226-236).
OldFileSent ==
    rotated = "rename" /\ handle = 2 /\ cut > 0 /\ Fits(files[1]) =>
        \E i \in DOMAIN got : got[i].file = 1 /\ got[i].last >= cut

\* The lines of the open file up to the offset, found by reading all of it.
LinesRead ==
    LET f    == files[handle]
        ends == {p \in 1 .. pos : f[p] \/ p = pos}
    IN  {l \in [file : {handle}, first : 1 .. pos, last : ends] :
            /\ l.first = 1 \/ l.first - 1 \in ends
            /\ l.first .. l.last - 1 \cap ends = {}
            /\ l.first <= l.last}

\* Those that fewer than n lines follow.
LastLines(n) ==
    {l \in LinesRead : Cardinality({m \in LinesRead : m.last > l.last}) < n}

\* If no line is longer than tailLines assumes, it finds the last lines of the
\* file, from any estimated offset and however the file grows while it reads
\* (tail.go:121-146).
FindsLastLines ==
    /\ pc = "history" /\ got = <<>>
    /\ \A l \in LinesRead : l.last - l.first < AvgLine
    => Range(found) = LastLines(config.tail)

\* Whatever is written to the file in lines that fit, and also if it is renamed
\* once it is watched and created anew, a goroutine that follows it has in the
\* end sent all of it, unless it is stopped or fails.  Between two events it
\* looks at nothing (tail.go:219-226).
CatchesUp ==
    config.follow /\ config.reopen =>
        <>[](\/ stopped \/ err \/ path = 0
             \/ rotated \in {"early", "remove"}
             \/ \E f \in File : ~Fits(files[f])
             \/ pc = "wait" /\ handle = path /\ from = Len(files[path]))

\* A goroutine that is stopped ends: GetLogs waits for it (rpc.go:58), at a
\* send, at the wait and while it looks for a new file.
StopEnds == stopped ~> pc = "closed"

=============================================================================
