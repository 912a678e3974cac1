------------------------------ MODULE NvmStore ------------------------------
(***************************************************************************)
(* What a program relies on when it keeps variables in the nvm section     *)
(* (drivers/flash/nvm.c): a disk that holds one image of them, or none,    *)
(* and is replaced at one moment of a save.  When the power fails the disk *)
(* keeps its image; a save that was going on has happened or has not.      *)
(***************************************************************************)
CONSTANT Images

VARIABLES
    disk,  \* the image kept, as a set: {} when there is none
    ram,   \* the variables
    null,  \* nvm_is_null
    mode   \* "init", "idle", "save" or "clear"

vars == <<disk, ram, null, mode>>

Init == disk = {} /\ ram \in Images /\ null = FALSE /\ mode = "init"

Edit == mode = "idle" /\ ram' \in Images /\ UNCHANGED <<disk, null, mode>>

Start == mode = "idle" /\ mode' \in {"init", "save", "clear"} /\ UNCHANGED <<disk, ram, null>>

(* While the program starts its variables may have any value. *)
Fetch == mode = "init" /\ ram' \in Images /\ UNCHANGED <<disk, null, mode>>

Load ==
    /\ mode = "init" /\ mode' = "idle"
    /\ ram' \in Images
    /\ disk # {} => disk = {ram'}
    /\ null' = (disk = {})
    /\ UNCHANGED disk

Commit == mode = "save" /\ disk' = {ram} /\ UNCHANGED <<ram, null, mode>>

Erase == mode = "clear" /\ disk' = {} /\ UNCHANGED <<ram, null, mode>>

(* A save that ends has replaced the image, a clear has removed it. *)
Finish ==
    /\ \/ mode = "save" /\ disk = {ram}
       \/ mode = "clear" /\ disk = {}
    /\ mode' = "idle"
    /\ UNCHANGED <<disk, ram, null>>

PowerFail ==
    /\ disk' \in {disk} \cup (IF mode = "save" THEN {{ram}} ELSE {})
    /\ mode' = "init"
    /\ UNCHANGED <<ram, null>>

Next == Edit \/ Start \/ Fetch \/ Load \/ Commit \/ Erase \/ Finish \/ PowerFail

Spec == Init /\ [][Next]_vars
=============================================================================
