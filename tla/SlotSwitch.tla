------------------------------ MODULE SlotSwitch ------------------------------
(***************************************************************************)
(* tasks/irt: what the slot cards make of the opcodes in a can frame       *)
(* (mxc_can_switch of mxc.5x32.4).  Each card has the relays of its own    *)
(* lines, counted from zero, and cuts a range that spans several cards to  *)
(* them.  irc packs the operations of the host as vm.c does: one opcode    *)
(* for a point, two for a range, the first of type SEQU.                   *)
(*                                                                         *)
(* All cards are ready.  When frames arrive and when the relays follow the *)
(* image is in IrtBus.                                                     *)
(***************************************************************************)
EXTENDS Integers, Sequences, FiniteSetsExt, SequencesExt

CONSTANTS
  NCard,      (* cards                                                      *)
  NLine,      (* lines of a card, 32 in the code                            *)
  NBus,       (* buses of a line, 4 in the code                             *)
  RangeTypes, (* types of the operations on ranges                          *)
  PointTypes  (* types of the operations on points                          *)

ASSUME SlotSwitchAssumption ==
  /\ {NCard, NLine, NBus} \subseteq Nat \ {0}
  /\ RangeTypes \cup PointTypes \subseteq {"OPEN", "CLOS", "SCAN", "FSCN"}

VARIABLES
  mxc_image, (* of each card: the relays closed, pairs of card line and bus *)
  closed     (* the relays the host has closed: pairs of line and bus       *)

switchVars == <<mxc_image, closed>>

Cards == 0 .. NCard - 1
Lines == 0 .. NCard * NLine - 1
Buses == 0 .. NBus - 1

Point(t, p) == [type |-> t, line |-> p[1], bus |-> p[2]]

(* opcode_t.fscn: line and bus as one number. *)
Fscn(line, bus) == line * NBus + bus
Relay(fscn) == <<fscn \div NBus, fscn % NBus>>

-----------------------------------------------------------------------------
(* The host's view, as vm.c counts the points of a range: along one bus,   *)
(* or for a full scan "line0: bus0..3, line1:bus0..3, ...".                *)

Operations ==
  [type : PointTypes, range : {FALSE}, p : Lines \X Buses, q : {<<0, 0>>}]
  \cup [type : RangeTypes, range : {TRUE}, p : Lines \X Buses, q : Lines \X Buses]

Points(op) ==
  IF ~op.range THEN {op.p}
  ELSE IF op.type = "FSCN"
  THEN {Relay(f) : f \in Fscn(op.p[1], op.p[2]) .. Fscn(op.q[1], op.q[2])}
  ELSE {<<l, op.p[2]>> : l \in op.p[1] .. op.q[1]}

Switch(type, relays, set) == IF type = "OPEN" THEN relays \ set ELSE relays \cup set

OpcodesOf(op) ==
  IF op.range THEN <<Point("SEQU", op.p), Point(op.type, op.q)>>
  ELSE <<Point(op.type, op.p)>>

-----------------------------------------------------------------------------
(* The card's view *)

(* An opcode and its target: a SEQU takes the next one, alone it ends the  *)
(* frame.                                                                  *)
Targets(ops) ==
  LET from[i \in 1 .. Len(ops) + 2] ==
        IF i > Len(ops) THEN << >>
        ELSE IF ops[i].type # "SEQU" THEN <<<<ops[i], ops[i]>>>> \o from[i + 1]
        ELSE IF i < Len(ops) THEN <<<<ops[i], ops[i + 1]>>>> \o from[i + 2]
        ELSE << >>
  IN from[1]

(* Mutant: a range that begins on a card before is not cut. *)
OwnLinesUncut(c, from, to) ==
  LET base == c * NLine
      last == base + NLine - 1
  IN {l - base : l \in from .. Min({to, last})}

(* The part of a range of lines on card c, relative to its first line. *)
OwnLines(c, from, to) ==
  LET base == c * NLine
      last == base + NLine - 1
  IN {l - base : l \in Max({from, base}) .. Min({to, last})}

OwnFscns(c, from, to) ==
  LET base == Fscn(c * NLine, 0)
      last == base + NLine * NBus - 1
  IN {f - base : f \in Max({from, base}) .. Min({to, last})}

(* mxc_can_switch, for one opcode and its target. *)
Selected(c, o, t) ==
  IF o.type = "FSCN"
  THEN {Relay(f) : f \in OwnFscns(c, Fscn(o.line, o.bus), Fscn(t.line, t.bus))}
  ELSE {<<l, o.bus>> : l \in OwnLines(c, o.line, t.line)}

(* Mutant: the operation of a range is taken from its first opcode. *)
CanSwitchStart(c, relays, ops) ==
  FoldLeft(LAMBDA r, pair : Switch(pair[1].type, r, Selected(c, pair[1], pair[2])),
           relays, Targets(ops))
CanSwitch(c, relays, ops) ==
  FoldLeft(LAMBDA r, pair : Switch(pair[2].type, r, Selected(c, pair[1], pair[2])),
           relays, Targets(ops))

-----------------------------------------------------------------------------
SwitchInit == mxc_image = [c \in Cards |-> {}] /\ closed = {}

(* One can frame with an operation, and a point opened after it. *)
CanFrame ==
  \E op \in Operations, p \in Lines \X Buses :
    /\ mxc_image' = [c \in Cards |->
         CanSwitch(c, mxc_image[c], OpcodesOf(op) \o <<Point("OPEN", p)>>)]
    /\ closed' = Switch(op.type, closed, Points(op)) \ {p}

(* mxc_mode, mxc_relay_clr_all *)
Clear == mxc_image' = [c \in Cards |-> {}] /\ closed' = {}

SwitchNext == CanFrame \/ Clear

SwitchSpec == SwitchInit /\ [][SwitchNext]_switchVars

-----------------------------------------------------------------------------
SwitchTypeOK ==
  /\ mxc_image \in [Cards -> SUBSET ((0 .. NLine - 1) \X Buses)]
  /\ closed \subseteq Lines \X Buses

(* The cards together have closed exactly the relays the host asked for,   *)
(* each on the card it belongs to, also when a range crosses cards.        *)
(* The hints of the slot card say so of full scans too: "add FSCN sequ     *)
(* type support (line:bus -> line:bus)".                                   *)
SwitchExact ==
  \A c \in Cards :
    mxc_image[c] = {<<p[1] - c * NLine, p[2]>> : p \in {x \in closed : x[1] \div NLine = c}}
=============================================================================
