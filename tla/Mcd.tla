--------------------------------- MODULE Mcd ---------------------------------
(***************************************************************************)
(* The multimeter of tasks/ybs/ybs_cal: ybs_mcd.c sets the mode and reads  *)
(* values over the link of Vchip, dmm/ybs_dmm.c measures on the other side *)
(* in a loop that vchip's interrupt breaks into.                           *)
(*                                                                         *)
(* MODE is a byte bank, ecode, which stays 0, a byte that holds ready, and *)
(* a byte unused; cal, clr and dac, which no master sets, are left out.  A *)
(* byte of a value tells the bank it was measured in, and one value from   *)
(* the next.  Setting ready and the value are one step: the master needs   *)
(* tens of milliseconds from the one to the other.                         *)
(***************************************************************************)
EXTENDS Vchip

CONSTANTS
    Banks,   \* DMM_V_AUTO, DMM_R_AUTO, ...: banks that measure
    Magic,   \* the word mcd_init writes
    RMN,     \* readings of one mcd_read
    MaxOff,  \* bound: how often the slave loses its power
    MaxKill  \* bound: how often the master restarts

ASSUME McdAssumption ==
    /\ 16 \in Banks /\ Banks \subseteq 1 .. 60
    /\ Magic \in [1 .. 4 -> Bytes]
    /\ RMN \in Nat \ {0} /\ MaxOff \in Nat /\ MaxKill \in Nat

VARIABLES
    pc,    \* where the slave's main loop is: "main", "adc" or "store"
    p,     \* the master's function: its name, bank, failures j and readings i
    mode,  \* the bank of the last mcd_mode that passed, 0 if unknown
    noff, nkill

vars == <<on, v, tx, ri, ro, call, todo, rcv, took, hurt, pc, p, mode, noff, nkill>>
host == <<p, mode>>
bound == <<noff, nkill>>

MODE == 0
READY == 2
DATA == 4
Sample(b, g) == 100 + 2 * b + g
Measured(b) == {Sample(b, 0), Sample(b, 1)}
NoProg == [name |-> "idle", bank |-> 0, j |-> 0, i |-> 0]

(* reg_init *)
Cleared == [i \in 0 .. 7 |-> 0]
RiInit == [Cleared EXCEPT ![MODE] = 16]

Init ==
    /\ on = TRUE /\ v = Idle /\ tx = << >>
    /\ ri = RiInit /\ ro = Cleared
    /\ call = NoCall /\ todo = << >> /\ rcv = << >> /\ took = NoWrite /\ hurt = FALSE
    /\ pc = "main" /\ p = NoProg /\ mode = 0 /\ noff = 0 /\ nkill = 0

-----------------------------------------------------------------------------
(* The slave's main loop.  DMM_KEEP is 0. *)
Changed == ri[MODE] # ro[MODE] /\ ri[MODE] # 0

(* reg_update, and dmm_update takes the bank over. *)
Adopt ==
    /\ on /\ pc = "main"
    /\ ro' = IF Changed THEN [ro EXCEPT ![MODE] = ri[MODE], ![READY] = 0] ELSE ro
    /\ pc' = IF ro'[MODE] \in Banks THEN "adc" ELSE "main"
    /\ UNCHANGED <<slave, master, host, bound>>

(* dmm_measure has a conversion and looks at the bank (reg_update). *)
Measure ==
    /\ on /\ pc = "adc"
    /\ pc' = IF Changed THEN "main" ELSE "store"
    /\ ro' = IF Changed THEN [ro EXCEPT ![READY] = 0] ELSE ro
    /\ UNCHANGED <<slave, master, host, bound>>

(* The value is stored, whatever was written meanwhile.  A new value every *)
(* time; ready is taken back only by a change of the bank.                 *)
Deposit ==
    /\ on /\ pc = "store" /\ pc' = "adc"
    /\ \E s \in Measured(ro[MODE]) :
          /\ s # ro[DATA]
          /\ ro' = [ro EXCEPT ![READY] = 1, ![DATA] = s, ![DATA + 1] = s,
                             ![DATA + 2] = s, ![DATA + 3] = s]
    /\ UNCHANGED <<slave, master, host, bound>>

Main == Adopt \/ Measure \/ Deposit

Off ==
    /\ on /\ noff < MaxOff /\ noff' = noff + 1
    /\ on' = FALSE /\ v' = Idle /\ tx' = << >>
    /\ ri' = RiInit /\ ro' = Cleared /\ pc' = "main"
    /\ hurt' = TRUE /\ mode' = 0
    /\ UNCHANGED <<call, todo, rcv, took, p, nkill>>

On == ~on /\ on' = TRUE /\ UNCHANGED <<v, tx, ri, ro, master, pc, host, bound>>

-----------------------------------------------------------------------------
(* The master. *)
Begin(name, b) == p' = [name |-> name, bank |-> b, j |-> 0, i |-> 0]
Return == p' = NoProg /\ Stop

McdInit == Begin("init", 0) /\ Outl(DATA, Magic) /\ UNCHANGED mode
McdMode == \E b \in Banks : Begin("mode", b) /\ Outl(MODE, <<b, 0, 0, 0>>) /\ mode' = 0
McdRead == Begin("read", 0) /\ Inl(MODE) /\ UNCHANGED mode

Command ==
    /\ p.name = "idle"
    /\ McdInit \/ McdMode \/ McdRead
    /\ UNCHANGED <<slave, ro, pc, bound>>

(* The master restarts in the middle of something. *)
Kill ==
    /\ p.name # "idle" /\ nkill < MaxKill /\ nkill' = nkill + 1
    /\ Return /\ mode' = 0
    /\ UNCHANGED <<slave, ro, pc, noff>>

(* At the end of a call: three tries ... *)
Retry(c) ==
    IF p.j < 2 THEN p' = [p EXCEPT !.j = @ + 1] /\ c ELSE Return

InitEnd ==
    /\ p.name = "init"
    /\ IF Passed THEN Return ELSE Retry(Outl(DATA, Magic))
    /\ UNCHANGED mode

(* ... of setting the mode until the slave shows it. *)
ModeOut ==
    /\ p.name = "mode" /\ call.op = "outl"
    /\ IF Passed THEN Inl(MODE) /\ UNCHANGED p ELSE Retry(Outl(MODE, <<p.bank, 0, 0, 0>>))
    /\ UNCHANGED mode

ModeIn ==
    /\ p.name = "mode" /\ call.op = "inl"
    /\ IF Passed /\ rcv[1] = p.bank
       THEN Return /\ mode' = IF hurt THEN 0 ELSE p.bank
       ELSE Retry(Outl(MODE, <<p.bank, 0, 0, 0>>)) /\ UNCHANGED mode

(* Mutant: failures are not counted. *)
ReadFailFree == p' = p /\ Inl(MODE)

(* The fourth failure ends mcd_read. *)
ReadFail ==
    IF p.j + 1 > 3 THEN Return ELSE p' = [p EXCEPT !.j = @ + 1] /\ Inl(MODE)

(* Mutant: the value is read whether it is ready or not. *)
ReadModeAny ==
    /\ p.name = "read" /\ call.adr = MODE
    /\ IF ~Passed THEN ReadFail ELSE UNCHANGED p /\ Inl(DATA)
    /\ UNCHANGED mode

(* The value is read once it is ready.  mcd_read sorts its RMN readings and *)
(* returns the middle one.                                                 *)
ReadMode ==
    /\ p.name = "read" /\ call.adr = MODE
    /\ IF ~Passed THEN ReadFail
       ELSE UNCHANGED p /\ Inl(IF rcv[READY + 1] = 1 THEN DATA ELSE MODE)
    /\ UNCHANGED mode

ReadData ==
    /\ p.name = "read" /\ call.adr = DATA
    /\ IF ~Passed THEN ReadFail
       ELSE IF p.i + 1 = RMN THEN Return ELSE p' = [p EXCEPT !.i = @ + 1] /\ Inl(MODE)
    /\ UNCHANGED mode

Turn ==
    /\ Over
    /\ InitEnd \/ ModeOut \/ ModeIn \/ ReadMode \/ ReadData
    /\ UNCHANGED <<slave, ro, pc, bound>>

Master ==
    \/ Xfer /\ UNCHANGED <<pc, host, bound>>
    \/ Second /\ UNCHANGED <<pc, host, bound>>
    \/ Turn

Next == Command \/ Kill \/ Master \/ Main \/ Off \/ On

(* Both processors run; nothing makes the slave come back. *)
Spec == Init /\ [][Next]_vars /\ WF_vars(Master) /\ WF_vars(Main)

-----------------------------------------------------------------------------
TypeOK ==
    /\ VchipTypeOK
    /\ ro \in [0 .. 7 -> Bytes] /\ pc \in {"main", "adc", "store"}
    /\ p.name \in {"idle", "init", "mode", "read"} /\ p.bank \in Banks \cup {0}
    /\ p.j \in 0 .. 3 /\ p.i \in 0 .. RMN - 1
    /\ mode \in Banks \cup {0} /\ noff \in 0 .. MaxOff /\ nkill \in 0 .. MaxKill

(* The reading that is about to be taken. *)
Taken == Over /\ p.name = "read" /\ call.adr = DATA /\ Passed

(* Each byte of a value that mcd_read takes was measured in the bank that  *)
(* the last mcd_mode has set, though the slave changes its bank, ready and *)
(* value at any time between two bytes of the link.                        *)
ReadFresh ==
    Taken /\ mode # 0 => \A i \in 1 .. 4 : rcv[i] \in Measured(mode)

(* mcd_read ends, with a slave that measures or one that is gone ("host    *)
(* hangup is strictly prohibited", vchip.h:10), unless the slave was left  *)
(* in a bank that does not measure.                                        *)
ReadEnds == p.name = "read" ~> p.name # "read" \/ ri[MODE] \notin Banks
=============================================================================
