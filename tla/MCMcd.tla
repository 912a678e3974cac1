-------------------------------- MODULE MCMcd --------------------------------
(* Two banks, and a word whose first and last bytes need the escape byte. *)
EXTENDS Mcd

MCMagic == <<SOH, 35, 1, ESC>>
=============================================================================
