--------------------------------- MODULE Nvm ---------------------------------
(***************************************************************************)
(* drivers/flash/nvm.c: variables that survive a loss of power.  Their     *)
(* image lives in rom 2; nvm_save writes it to rom 1 first, so that one of *)
(* the two is good while the other one is erased, and nvm_init finishes    *)
(* what a loss of power has cut off.                                       *)
(*                                                                         *)
(* The power may fail between any two operations of the flash, which are   *)
(* to program a word and to erase a page.  A word that was being           *)
(* programmed may then read as anything; an erase has happened or has not  *)
(* (nothing in nvm.c could tell a page that is erased in part).  A word    *)
(* that is not blank cannot be programmed; that one of its two halves      *)
(* could be is left out.  The layout never changes from one build to the   *)
(* next, and only the main program changes the variables.                  *)
(***************************************************************************)
EXTENDS Integers

CONSTANTS
    Word,      \* values of a word
    Blank,     \* an erased word, -1
    NvmMagic,  \* NVM_MAGIC
    SzRam,     \* sz_ram, the size of the variables
    NData,     \* their number of words
    LastPage,  \* a rom has the pages 0 .. LastPage
    Page       \* the page of each of its words

(* A rom is its magic, the size and the data. *)
Cell == 0 .. NData + 1
MAGIC == 0
SIZE == 1
Data == 2 .. NData + 1

ASSUME NvmAssumption ==
    /\ {Blank, NvmMagic, SzRam} \subseteq Word
    /\ NvmMagic # Blank /\ SzRam # Blank
    /\ NData \in Nat \ {0} /\ LastPage \in Nat
    /\ Page \in [Cell -> 0 .. LastPage] /\ Page[MAGIC] = 0

VARIABLES
    rom,  \* the two copies
    ram,  \* the variables
    null, \* nvm_flag_null
    op,   \* "off", "init", "idle", "save" or "clear"
    pc,   \* where the function is
    k     \* its word or page

vars == <<rom, ram, null, op, pc, k>>

Images == [Data -> Word]

Init ==
    /\ rom = [r \in {1, 2} |-> [c \in Cell |-> Blank]]
    /\ ram \in Images /\ null = FALSE
    /\ op = "off" /\ pc = "none" /\ k = 0

Good(r) == rom[r][MAGIC] = NvmMagic /\ rom[r][SIZE] = SzRam
Read(r) == [c \in Data |-> rom[r][c]]

(* What is to be written. *)
Image == [c \in Cell |-> IF c = MAGIC THEN NvmMagic ELSE IF c = SIZE THEN SzRam ELSE ram[c]]

Goto(p, i) == pc' = p /\ k' = i

-----------------------------------------------------------------------------
(* The next word to be written: the size, the data, and then the magic.    *)
(* flash_Write gives up at the first word that cannot be programmed.       *)
After(c, failed) ==
    IF c = NData + 1 \/ (failed /\ c # SIZE) THEN MAGIC ELSE c + 1

(* One word of flash_Write. *)
Program(r) ==
    IF rom[r][k] = Blank
    THEN rom' = [rom EXCEPT ![r] = [@ EXCEPT ![k] = Image[k]]]
    ELSE UNCHANGED rom

Write(r, done) ==
    /\ Program(r)
    /\ IF k = MAGIC THEN done ELSE pc' = pc /\ k' = After(k, rom[r][k] # Blank)

(* Mutant: one page too many. *)
ErasePageOver(r, done) ==
    /\ rom' = [rom EXCEPT ![r] = [c \in Cell |-> IF Page[c] = k THEN Blank ELSE @[c]]]
    /\ IF k > LastPage THEN done ELSE pc' = pc /\ k' = k + 1

(* One page of flash_Erase. *)
ErasePage(r, done) ==
    /\ rom' = [rom EXCEPT ![r] = [c \in Cell |-> IF Page[c] = k THEN Blank ELSE @[c]]]
    /\ IF k = LastPage THEN done ELSE pc' = pc /\ k' = k + 1

-----------------------------------------------------------------------------
(* nvm_init: rom 1 is only good when a save was cut off; it is copied ... *)
InitRom1 ==
    /\ pc = "rom1" /\ Good(1)
    /\ ram' = Read(1)
    /\ Goto("erase2", 0)
    /\ UNCHANGED <<rom, null, op>>

(* Mutant: what is left in rom 1 stays there. *)
InitJunkStay ==
    /\ pc = "rom1" /\ ~Good(1)
    /\ Goto("rom2", 0)
    /\ UNCHANGED <<rom, ram, null, op>>

(* ... or, when it is not blank, erased. *)
InitJunk ==
    /\ pc = "rom1" /\ ~Good(1)
    /\ Goto(IF rom[1][SIZE] # Blank THEN "drop1" ELSE "rom2", 0)
    /\ UNCHANGED <<rom, ram, null, op>>

InitDrop ==
    /\ pc = "drop1"
    /\ ErasePage(1, Goto("rom2", 0))
    /\ UNCHANGED <<ram, null, op>>

InitRom2 ==
    /\ pc = "rom2"
    /\ ram' = IF Good(2) THEN Read(2) ELSE ram
    /\ null' = ~Good(2)
    /\ op' = "idle" /\ Goto("none", 0)
    /\ UNCHANGED rom

(* nvm_save: ram to rom 1, ... *)
SaveRom1 ==
    /\ pc = "write1"
    /\ Write(1, Goto("erase2", 0))
    /\ UNCHANGED <<ram, null, op>>

(* ... ram to rom 2, as nvm_init does when it copies, ... *)
EraseRom2 ==
    /\ pc = "erase2"
    /\ ErasePage(2, IF op = "clear" THEN Goto("erase1", 0) ELSE Goto("write2", SIZE))
    /\ UNCHANGED <<ram, null, op>>

WriteRom2 ==
    /\ pc = "write2"
    /\ Write(2, Goto("erase1", 0))
    /\ UNCHANGED <<ram, null, op>>

(* ... and rom 1 is erased.  nvm_clear erases both. *)
EraseRom1 ==
    /\ pc = "erase1"
    /\ ErasePage(1, Goto("none", 0))
    /\ op' = IF k = LastPage THEN "idle" ELSE op
    /\ null' = IF k = LastPage /\ op = "init" THEN FALSE ELSE null
    /\ UNCHANGED ram

Step ==
    \/ InitRom1 \/ InitJunk \/ InitDrop \/ InitRom2
    \/ SaveRom1 \/ EraseRom2 \/ WriteRom2 \/ EraseRom1

-----------------------------------------------------------------------------
(* The program changes its variables, or calls a function. *)
Edit == op = "idle" /\ ram' \in Images /\ UNCHANGED <<rom, null, op, pc, k>>

(* Mutant: rom 2 is written in place. *)
CallInPlace ==
    /\ op = "idle"
    /\ \/ op' = "init" /\ Goto("rom1", 0)
       \/ op' = "save" /\ Goto("erase2", 0)
       \/ op' = "clear" /\ Goto("erase2", 0)
    /\ UNCHANGED <<rom, ram, null>>

Call ==
    /\ op = "idle"
    /\ \/ op' = "init" /\ Goto("rom1", 0)
       \/ op' = "save" /\ Goto("write1", SIZE)
       \/ op' = "clear" /\ Goto("erase2", 0)
    /\ UNCHANGED <<rom, ram, null>>

(* The power fails, perhaps while a word is being programmed. *)
Torn(r) ==
    \E w \in Word :
        rom' = IF rom[r][k] = Blank THEN [rom EXCEPT ![r] = [@ EXCEPT ![k] = w]] ELSE rom

PowerOff ==
    /\ op # "off" /\ op' = "off" /\ Goto("none", 0)
    /\ CASE pc = "write1" -> Torn(1)
         [] pc = "write2" -> Torn(2)
         [] OTHER -> UNCHANGED rom
    /\ UNCHANGED <<ram, null>>

PowerOn ==
    /\ op = "off" /\ op' = "init" /\ Goto("rom1", 0)
    /\ ram' \in Images
    /\ UNCHANGED <<rom, null>>

Next == Step \/ Edit \/ Call \/ PowerOff \/ PowerOn

Spec == Init /\ [][Next]_vars

-----------------------------------------------------------------------------
TypeOK ==
    /\ rom \in [{1, 2} -> [Cell -> Word]] /\ ram \in Images /\ null \in BOOLEAN
    /\ op \in {"off", "init", "idle", "save", "clear"}
    /\ pc \in {"none", "rom1", "drop1", "rom2", "write1", "erase2", "write2", "erase1"}
    /\ k \in IF pc \in {"write1", "write2"} THEN Cell ELSE 0 .. LastPage

(* The other rom contains correct data before an erase operation (nvm.c:5): *)
(* while one copy is erased or written again, the other one is the image    *)
(* that is being saved.                                                     *)
OtherCorrect ==
    /\ pc \in {"erase2", "write2"} /\ op # "clear" => rom[1] = Image
    /\ pc = "erase1" /\ op # "clear" => rom[2] = Image

(* What nvm_init would find now. *)
Disk == IF Good(1) THEN {Read(1)} ELSE IF Good(2) THEN {Read(2)} ELSE {}

Store == INSTANCE NvmStore WITH
    disk <- Disk, mode <- IF op = "off" THEN "init" ELSE op

(* The two roms are one disk, however often and whenever the power fails:  *)
(* its image is replaced at one moment, as a whole.                        *)
ImplementsStore == Store!Spec
=============================================================================
