----------------------------- MODULE RelayOrder -----------------------------
(***************************************************************************)
(* What the host of the irt instrument relies on: every relay action of an *)
(* accepted ROUTE command goes out to the slots exactly once, in command   *)
(* order, whatever the opcode queue, the splitting of scans and the        *)
(* packing into can frames do on the way.                                  *)
(***************************************************************************)
EXTENDS Naturals, Sequences

CONSTANT Requests \* the sequences of relay actions a command can ask for

VARIABLES pending, sent

vars == <<pending, sent>>

Init == pending = << >> /\ sent = << >>

Accept ==
  \E r \in Requests : pending' = pending \o r /\ UNCHANGED sent

(* One can frame carries the next few actions. *)
Send ==
  \E k \in 0 .. Len(pending) :
    /\ sent' = SubSeq(pending, 1, k)
    /\ pending' = SubSeq(pending, k + 1, Len(pending))

Next == Accept \/ Send

Spec == Init /\ [][Next]_vars
=============================================================================
