------------------------------- MODULE MCTail -------------------------------
(***************************************************************************)
(* Tail as GetLogs of src/agent/rpc.go starts it, and what the comments of *)
(* tail.go say of it.                                                      *)
(***************************************************************************)
EXTENDS Tail

GetLogsConfig(follow, lines) == [follow |-> follow, reopen |-> follow, tail |-> lines]

\* GetLogs follows, and reopens with it, from the start or from the last line.
Following == {GetLogsConfig(TRUE, n) : n \in {0, 1}}

\* Every kind of call, and a follower that does not reopen.
AllCalls ==
    {GetLogsConfig(f, n) : f \in BOOLEAN, n \in 0 .. 2}
        \cup {[follow |-> TRUE, reopen |-> FALSE, tail |-> 0]}

\* tail.go:30, "ReOpen reopens the file if it's rotated or recreated."
ReOpensFile ==
    config.reopen => <>[](stopped \/ err \/ path = 0 \/ handle = path)

=============================================================================
