------------------------------- MODULE MCIrtBus -------------------------------
(* Two slots and a few operations for IrtBus. *)
EXTENDS IrtBus

CONSTANTS s1, s2

Close == [type |-> "CLOS", pts |-> {s1}]
Scan  == [type |-> "SCAN", pts |-> {s2}]
Chain == [type |-> "SEQU", pts |-> {s2}] \* of a list "(@a:b:c)"

(* A relay that the drivers still hold closed. *)
MCResidues == {[shift |-> TRUE, latch |-> TRUE]}

MCSwitches == {Close, Scan, Chain}
=============================================================================
