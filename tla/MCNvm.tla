-------------------------------- MODULE MCNvm --------------------------------
(* Two words of data, in one page with the header or the last one in a page *)
(* of its own.                                                              *)
EXTENDS Nvm

MCOnePage == [c \in Cell |-> 0]
MCTwoPages == [c \in Cell |-> IF c = NData + 1 THEN 1 ELSE 0]
=============================================================================
