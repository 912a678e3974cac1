------------------------------ MODULE MCKermit ------------------------------
(* An empty file and files of two packets, with pages of three bytes: a    *)
(* packet ends before, at or after the end of a page.                      *)
EXTENDS Kermit

MCCuts == {<< >>, <<1, 3>>, <<2, 4>>}
=============================================================================
