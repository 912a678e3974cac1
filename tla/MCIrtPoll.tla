------------------------------ MODULE MCIrtPoll -------------------------------
(* Two slots for IrtPoll; they are not interchangeable in its list. *)
EXTENDS IrtPoll

CONSTANTS s1, s2
=============================================================================
