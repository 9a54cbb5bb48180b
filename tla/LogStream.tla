------------------------------ MODULE LogStream ------------------------------
(***************************************************************************)
(* What `fireactions logs` promises: it prints the lines that the agent's  *)
(* tail has sent, in their order and without a gap, and succeeds only if   *)
(* it has printed all of them or was told to stop.                         *)
(***************************************************************************)
EXTENDS Integers, Sequences

VARIABLES
    sent,      \* how many lines the tail has sent: they are numbered from 1
    outcome,   \* how the agent's call has ended: "none" yet, "eof", "error"
    printed,   \* the lines printed
    cancelled, \* whether the command was told to stop
    result     \* the command's own: "none" yet, "ok", "error"

streamVars == <<sent, outcome, printed, cancelled, result>>

Init ==
    /\ sent = 0 /\ outcome = "none"
    /\ printed = <<>> /\ cancelled = FALSE /\ result = "none"

Tell ==
    /\ outcome = "none"
    /\ sent' = sent + 1
    /\ UNCHANGED <<outcome, printed, cancelled, result>>

Close ==
    /\ outcome = "none" /\ outcome' \in {"eof", "error"}
    /\ UNCHANGED <<sent, printed, cancelled, result>>

PrintLine ==
    /\ result = "none" /\ Len(printed) < sent
    /\ printed' = Append(printed, Len(printed) + 1)
    /\ UNCHANGED <<sent, outcome, cancelled, result>>

Cancel ==
    /\ result = "none" /\ cancelled' = TRUE
    /\ UNCHANGED <<sent, outcome, printed, result>>

Finish ==
    /\ result = "none" /\ result' \in {"ok", "error"}
    /\ result' = "ok" => cancelled \/ (outcome = "eof" /\ Len(printed) = sent)
    /\ UNCHANGED <<sent, outcome, printed, cancelled>>

Next == Tell \/ Close \/ PrintLine \/ Cancel \/ Finish

Spec == Init /\ [][Next]_streamVars

=============================================================================
