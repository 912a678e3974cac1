---------------------------- MODULE BoundedQueue ----------------------------
(***************************************************************************)
(* What the users of a fifo (lib/common/fifo.c) rely on: a bounded queue   *)
(* of serial numbered samples.  A put into a full queue is refused, or     *)
(* replaces the oldest sample when Overwrite.                              *)
(***************************************************************************)
EXTENDS Integers, Sequences

CONSTANTS Capacity, Overwrite

VARIABLES queue, taken, next

vars == <<queue, taken, next>>

Init == queue = << >> /\ taken = 0 /\ next = 1

Put ==
  /\ \/ Len(queue) < Capacity /\ queue' = Append(queue, next)
     \/ /\ Overwrite /\ Len(queue) = Capacity
        /\ queue' = Append(Tail(queue), next)
  /\ next' = next + 1
  /\ UNCHANGED taken

Take ==
  /\ queue # << >>
  /\ taken' = Head(queue)
  /\ queue' = Tail(queue)
  /\ UNCHANGED next

Clear == queue' = << >> /\ UNCHANGED <<taken, next>>

Next == Put \/ Take \/ Clear

Spec == Init /\ [][Next]_vars
=============================================================================
