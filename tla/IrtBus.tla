-------------------------------- MODULE IrtBus --------------------------------
(***************************************************************************)
(* tasks/irt: how the irc board (mxc.c, irc.c) switches the relays of the  *)
(* slot cards (mxc.5x32.4) over the can bus and the LE line.  A slot holds *)
(* LE low from power-up until irc answers OFFLINE, and from an error on;   *)
(* irc sends frames to all slots, which prepare an image, and switches all *)
(* relays at once by raising LE, which works only while nobody holds it.   *)
(*                                                                         *)
(* A slot has one relay, of the same name.  Its can handler is an          *)
(* interrupt between any two steps of its main routine.  The can bus keeps *)
(* frames in order, but irc_send may fail, and a slot that has no room for *)
(* a frame loses the one before it.  Time is left out: a timer is          *)
(* something that may happen.  How irc learns of a slot and decides to     *)
(* answer or ping it is in IrtPoll: here it may at any time, but sends     *)
(* OFFLINE only before the first MODE.                                     *)
(***************************************************************************)
EXTENDS Integers, Sequences, FiniteSets

CONSTANTS
  Slots,     (* slot cards                                                  *)
  FifoCap,   (* frames that the can receive fifo of a slot holds            *)
  MaxPower,  (* bound: times a slot is plugged in or out                    *)
  MaxCmd,    (* bound: MODE, *RST and can frames of the vm                  *)
  MaxFail,   (* bound: frames that are not sent, or lost in a slot          *)
  Residues,  (* what the relay drivers of a slot may hold at power-up       *)
  Switches   (* what a DAT or CMD frame asks for: an operation on relays    *)

ASSUME IrtBusAssumption ==
  /\ Switches \subseteq [type : {"OPEN", "CLOS", "SCAN", "SEQU"}, pts : SUBSET Slots]
  /\ Residues \subseteq [shift : BOOLEAN, latch : BOOLEAN]
  /\ FifoCap \in Nat \ {0}
  /\ MaxPower \in Nat /\ MaxCmd \in Nat /\ MaxFail \in Nat

VARIABLES
  (* irc *)
  phase,   (* what main is busy with; "mode", "cmd": mxc_latch, LE up       *)
  ping,    (* mxc_ping_enable                                               *)
  ecode,   (* irc_ecode # 0                                                 *)
  le,      (* the LE output of irc                                          *)
  tx,      (* the frame that irc_send left in a mailbox, if any             *)
  (* a slot *)
  st,      (* mxc_status; "OFF" without power, "BOOT" until mxc_init        *)
  locked,  (* mxc_le_locked: it holds LE low                                *)
  oe,      (* oe_set(0): the outputs of the relay drivers are enabled       *)
  err,     (* mxc_ecode # 0                                                 *)
  spc,     (* where its main routine is                                     *)
  fifo,    (* its can receive fifo                                          *)
  img,     (* mxc_image                                                     *)
  stat,    (* mxc_image_static                                              *)
  shift,   (* the shift register of the relay drivers                       *)
  latch,   (* their output latch                                            *)
  (* what the commands asked for, and whom *)
  synced,  (* slots that missed no frame since a MODE that was sent         *)
  want,    (* their relays closed: in the image, in the static one, shifted *)
  npower, ncmd, nfail

slot  == <<st, locked, oe, err, spc>>
image == <<img, stat, shift>>
irc   == <<phase, ping, ecode, le>>
wire  == <<fifo, tx, synced, nfail>>
vars  == <<irc, slot, wire, image, latch, want, npower, ncmd>>

On(s) == st[s] \notin {"OFF", "BOOT"}

(* LE is wired: high only when irc drives it and no slot holds it. *)
Line == le /\ \A s \in Slots : On(s) => ~locked[s]

(* The drivers let the shift register through while LE is high; without    *)
(* power they hold nothing.                                                *)
Drive ==
  latch' = IF Line' THEN shift'
           ELSE [s \in Slots |-> st'[s] # "OFF" /\ latch[s]]

(* The relay: open while the outputs are disabled. *)
Closed(s) == oe[s] /\ latch[s]

Frame(k) == [kind |-> k, type |-> "NONE", pts |-> {}]

(* The fifo is not locked (CAN_RFLM): a full one has its last overwritten. *)
Put(q, f) == IF Len(q) < FifoCap THEN Append(q, f) ELSE [q EXCEPT ![FifoCap] = f]

(* The slots that miss nothing when a frame is delivered. *)
Hear(to) == {s \in Slots : s \in to /\ On(s) => Len(fifo[s]) < FifoCap}

Deliver(to, f) ==
  /\ nfail' = nfail + (IF Hear(to) = Slots THEN 0 ELSE 1) /\ nfail' <= MaxFail
  /\ fifo' = [s \in Slots |-> IF s \in to /\ On(s) THEN Put(fifo[s], f) ELSE fifo[s]]

(* irc_send: the mailbox is emptied; a frame that is not sent in 5 ms is   *)
(* an error, but stays in the mailbox.                                     *)
Send(to, f, sent) ==
  \/ sent /\ Deliver(to, f) /\ tx' = {}
  \/ /\ ~sent /\ nfail < MaxFail
     /\ nfail' = nfail + 1
     /\ tx' = {[to |-> to, frame |-> f]}
     /\ UNCHANGED fifo

Nobody == [img |-> {}, stat |-> {}, shift |-> {}]

Init ==
  /\ phase = "boot"
  /\ ping = FALSE /\ ecode = FALSE /\ le = FALSE
  /\ tx = {}
  /\ st = [s \in Slots |-> "OFF"] /\ locked = [s \in Slots |-> FALSE]
  /\ oe = [s \in Slots |-> FALSE]
  /\ err = [s \in Slots |-> FALSE] /\ spc = [s \in Slots |-> "idle"]
  /\ fifo = [s \in Slots |-> << >>]
  /\ img = [s \in Slots |-> FALSE] /\ stat = [s \in Slots |-> FALSE]
  /\ shift = [s \in Slots |-> FALSE] /\ latch = [s \in Slots |-> FALSE]
  /\ want = Nobody /\ synced = {}
  /\ npower = 0 /\ ncmd = 0 /\ nfail = 0

-----------------------------------------------------------------------------
(* irc: power-up and *RST *)

(* The can controller starts anew and mxc_init pulses LE; then irc_init    *)
(* resets all slots.                                                       *)
Boot ==
  /\ phase = "boot" /\ phase' = "booted"
  /\ le' = TRUE
  /\ tx' = {}
  /\ UNCHANGED <<ping, ecode, slot, fifo, synced, nfail, image, want, npower, ncmd>>
  /\ Drive

ResetAll ==
  /\ phase = "booted" /\ phase' = "run"
  /\ le' = FALSE
  /\ \E sent \in BOOLEAN : Send(Slots, Frame("RESET"), sent) /\ ecode' = ~sent
  /\ UNCHANGED <<ping, slot, synced, image, want, npower, ncmd>>
  /\ Drive

(* Commands come from the shell, which runs in every wait. *)
Waiting == phase \in {"run", "held", "mode", "cmd", "fall"}
Accepts == Waiting /\ ncmd < MaxCmd /\ ncmd' = ncmd + 1

Rst ==
  /\ Accepts
  /\ \E sent \in BOOLEAN : Send(Slots, Frame("RESET"), sent)
  /\ phase' = "boot" /\ ping' = FALSE /\ ecode' = FALSE /\ le' = FALSE
  /\ synced' = {} /\ want' = Nobody
  /\ UNCHANGED <<slot, image, npower>>
  /\ Drive

(* irc_update finds a failed or lost slot: irc is trapped until *CLS.      *)
Updating == phase \in {"run", "held", "fall"}

SlotError ==
  /\ Updating /\ ~ecode
  /\ ecode' = TRUE
  /\ UNCHANGED <<phase, ping, le, slot, wire, image, latch, want, npower, ncmd>>

Cls ==
  /\ Waiting /\ ecode
  /\ ecode' = FALSE
  /\ UNCHANGED <<phase, ping, le, slot, wire, image, latch, want, npower, ncmd>>

(* mxc_update: an OFFLINE that was not sent is an error, a PING is not. *)
Poll ==
  /\ Updating
  /\ \E s \in Slots, sent \in BOOLEAN :
       /\ Send({s}, Frame(IF ping THEN "PING" ELSE "OFFLINE"), sent)
       /\ ecode' = (ecode \/ ~(sent \/ ping))
       /\ synced' = IF sent THEN synced \cap Hear({s}) ELSE synced
  /\ UNCHANGED <<phase, ping, le, slot, image, latch, want, npower, ncmd>>

(* The can controller tries again until the frame is sent or cancelled. *)
SendLate ==
  /\ \E m \in tx : Deliver(m.to, m.frame) /\ synced' = synced \cap Hear(m.to)
  /\ tx' = {}
  /\ UNCHANGED <<irc, slot, image, latch, want, npower, ncmd>>

-----------------------------------------------------------------------------
(* irc: commands that switch relays *)

Idle == phase = "run" /\ ~ecode /\ Accepts

(* mxc_mode: without the frame there is no latch, and irc goes on. *)
Mode ==
  /\ Idle
  /\ \E sent \in BOOLEAN :
       /\ Send(Slots, Frame("MODE"), sent)
       /\ phase' = (IF sent THEN "mode" ELSE "run") /\ le' = (le \/ sent)
       /\ synced' = IF sent THEN Slots ELSE {}
  /\ ping' = TRUE /\ want' = Nobody
  /\ UNCHANGED <<ecode, slot, image, npower>>
  /\ Drive

(* The opcodes of a frame; "SEQU" is a range whose end names no operation, *)
(* as "(@a:b:c)" makes it.                                                 *)
Opcodes(k, w) == [kind |-> k, type |-> w.type, pts |-> w.pts]

Apply(f, set) == IF f.type = "OPEN" THEN set \ f.pts ELSE set \cup f.pts

Ask(w) == want' = IF synced' = {} THEN Nobody ELSE w

(* mxc_emit: when the frame is not sent irc is trapped until *CLS... *)
Emit(k, f, sent) ==
  /\ Idle
  /\ Send(Slots, Opcodes(k, f), sent)
  /\ ecode' = ~sent
  /\ synced' = IF sent THEN synced \cap Hear(Slots) ELSE {}
  /\ UNCHANGED <<ping, slot, image, npower>>

Dat ==
  /\ \E f \in Switches, sent \in BOOLEAN :
       /\ Emit("DAT", f, sent)
       /\ Ask([want EXCEPT !.img = Apply(f, @)])
  /\ UNCHANGED <<phase, le, latch>>

Cmd ==
  /\ \E f \in Switches, sent \in BOOLEAN :
       /\ Emit("CMD", f, sent)
       /\ phase' = (IF sent THEN "cmd" ELSE "held") /\ le' = (le \/ sent)
       /\ LET w == Apply(f, want.img)
              base == IF f.type = "SCAN" THEN want.stat ELSE w
          IN Ask([img |-> base, stat |-> base, shift |-> w])
  /\ Drive

(* ... and then latches what the slots have, all the same. *)
Resume ==
  /\ phase = "held" /\ ~ecode
  /\ phase' = "cmd"
  /\ le' = TRUE
  /\ UNCHANGED <<ping, ecode, slot, wire, image, want, npower, ncmd>>
  /\ Drive

(* mxc_latch: irc sees the line high, and takes LE back 1 ms later, or     *)
(* when the error trap is left; the slots have taken their frames by then. *)
Rise ==
  /\ phase \in {"mode", "cmd"} /\ Line
  /\ phase' = "fall"
  /\ UNCHANGED <<ping, ecode, le, slot, wire, image, latch, want, npower, ncmd>>

Drained == \A s \in Slots : fifo[s] = << >>

Fall ==
  /\ phase = "fall" /\ ~ecode /\ Drained
  /\ phase' = "run"
  /\ le' = FALSE
  /\ UNCHANGED <<ping, ecode, slot, wire, image, want, npower, ncmd>>
  /\ Drive

(* Nobody let the line go for 10 ms: LE stays up.  MODE only reports it.   *)
GiveUp ==
  /\ phase \in {"mode", "cmd"} /\ ~Line /\ Drained
  /\ phase' = "run"
  /\ ecode' = (ecode \/ phase = "cmd")
  /\ UNCHANGED <<ping, le, slot, wire, image, latch, want, npower, ncmd>>

-----------------------------------------------------------------------------
(* A slot *)

(* What the drivers hold at power-up nobody knows; a reset does not touch  *)
(* it (mbi5025_Init sets up the spi only).                                 *)
Found(s) ==
  \E r \in IF st[s] = "BOOT" THEN {[shift |-> shift[s], latch |-> latch[s]]} ELSE Residues :
    /\ shift' = [shift EXCEPT ![s] = r.shift]
    /\ latch' = IF Line' THEN shift' ELSE [latch EXCEPT ![s] = r.latch]

(* Mutant: "power-up(/plug-in): le = high, do not affect test system". *)
PowerUpFree(s) ==
  /\ ~On(s)
  /\ st' = [st EXCEPT ![s] = "INIT"]
  /\ UNCHANGED <<irc, locked, oe, err, spc, wire, img, stat, want, npower, ncmd>>
  /\ Found(s)

(* mxc_init, after power-up or a reset; oe stays high. *)
PowerUp(s) ==
  /\ ~On(s)
  /\ st' = [st EXCEPT ![s] = "INIT"] /\ locked' = [locked EXCEPT ![s] = TRUE]
  /\ UNCHANGED <<irc, oe, err, spc, wire, img, stat, want, npower, ncmd>>
  /\ Found(s)

(* The processor stops: it holds nothing, hears nothing, forgets its ram.  *)
Stop(s, how) ==
  /\ st' = [st EXCEPT ![s] = how] /\ locked' = [locked EXCEPT ![s] = FALSE]
  /\ oe' = [oe EXCEPT ![s] = FALSE] /\ err' = [err EXCEPT ![s] = FALSE]
  /\ spc' = [spc EXCEPT ![s] = "idle"]
  /\ fifo' = [fifo EXCEPT ![s] = << >>]
  /\ img' = [img EXCEPT ![s] = FALSE] /\ stat' = [stat EXCEPT ![s] = FALSE]

PowerDown(s) ==
  /\ On(s) /\ npower < MaxPower
  /\ npower' = npower + 1
  /\ Stop(s, "OFF")
  /\ shift' = [shift EXCEPT ![s] = FALSE]
  /\ UNCHANGED <<irc, tx, synced, nfail, want, ncmd>>
  /\ Drive

(* The can interrupt of a slot takes a frame. *)
Take(s, k) ==
  /\ On(s) /\ fifo[s] # << >> /\ Head(fifo[s]).kind \in k
  /\ UNCHANGED <<irc, tx, synced, nfail, want, npower, ncmd>>

Rest(s) == fifo' = [fifo EXCEPT ![s] = Tail(@)]

(* board_reset *)
OnReset(s) == Take(s, {"RESET"}) /\ Stop(s, "BOOT") /\ UNCHANGED shift /\ Drive

(* Mutant: the image of the last mode stays. *)
OnModeKeep(s) ==
  /\ Take(s, {"MODE"}) /\ Rest(s)
  /\ IF st[s] \in {"READY", "LOST", "OFFLINE"}
     THEN st' = [st EXCEPT ![s] = "READY"] /\ oe' = [oe EXCEPT ![s] = TRUE]
     ELSE UNCHANGED <<st, oe>>
  /\ UNCHANGED <<locked, err, spc, image>>
  /\ Drive

(* Mutant: the outputs stay disabled. *)
OnModeBlank(s) ==
  /\ Take(s, {"MODE"}) /\ Rest(s)
  /\ IF st[s] \in {"READY", "LOST", "OFFLINE"}
     THEN /\ st' = [st EXCEPT ![s] = "READY"]
          /\ img' = [img EXCEPT ![s] = FALSE] /\ stat' = [stat EXCEPT ![s] = FALSE]
          /\ shift' = [shift EXCEPT ![s] = FALSE]
     ELSE UNCHANGED <<st, image>>
  /\ UNCHANGED <<locked, oe, err, spc>>
  /\ Drive

(* mxc_mode, refused in INIT and ERROR: the outputs are enabled, then the  *)
(* empty image is shifted out.                                             *)
OnMode(s) ==
  /\ Take(s, {"MODE"}) /\ Rest(s)
  /\ IF st[s] \in {"READY", "LOST", "OFFLINE"}
     THEN /\ st' = [st EXCEPT ![s] = "READY"] /\ oe' = [oe EXCEPT ![s] = TRUE]
          /\ img' = [img EXCEPT ![s] = FALSE] /\ stat' = [stat EXCEPT ![s] = FALSE]
          /\ shift' = [shift EXCEPT ![s] = FALSE]
     ELSE UNCHANGED <<st, oe, image>>
  /\ UNCHANGED <<locked, err, spc>>
  /\ Drive

OnPing(s) ==
  /\ Take(s, {"PING"}) /\ Rest(s)
  /\ st' = [st EXCEPT ![s] = IF @ = "LOST" THEN "READY" ELSE @]
  /\ UNCHANGED <<locked, oe, err, spc, image, latch>>

(* mxc_offline: le_unlock also drives LE high. *)
OnOffline(s) ==
  /\ Take(s, {"OFFLINE"}) /\ Rest(s)
  /\ IF st[s] = "INIT"
     THEN /\ st' = [st EXCEPT ![s] = "OFFLINE"]
          /\ locked' = [locked EXCEPT ![s] = FALSE] /\ err' = [err EXCEPT ![s] = FALSE]
     ELSE UNCHANGED <<st, locked, err>>
  /\ UNCHANGED <<oe, spc, image>>
  /\ Drive

(* Mutant: the error is kept without holding LE. *)
FaultFree(s) ==
  /\ st' = [st EXCEPT ![s] = IF err[s] THEN @ ELSE "ERROR"]
  /\ err' = [err EXCEPT ![s] = TRUE]
  /\ UNCHANGED locked

(* mxc_error: only the first error counts. *)
Fault(s) ==
  /\ err' = [err EXCEPT ![s] = TRUE]
  /\ IF err[s]
     THEN UNCHANGED <<st, locked>>
     ELSE /\ st' = [st EXCEPT ![s] = "ERROR"]
          /\ locked' = [locked EXCEPT ![s] = TRUE]

(* mxc_can_switch: the opcodes change the image; a CMD shifts it out, and  *)
(* keeps it, unless it was a scan.  An unknown operation is an error.      *)
OnSwitch(s) ==
  /\ Take(s, {"DAT", "CMD"}) /\ Rest(s)
  /\ LET f == Head(fifo[s])
         mine == s \in f.pts
         i == IF mine /\ f.type # "SEQU" THEN f.type # "OPEN" ELSE img[s]
         cmd == f.kind = "CMD"
         scan == f.type = "SCAN"
     IN IF st[s] \in {"READY", "LOST"}
        THEN /\ img' = [img EXCEPT ![s] = IF cmd /\ scan THEN stat[s] ELSE i]
             /\ stat' = [stat EXCEPT ![s] = IF cmd /\ ~scan THEN i ELSE @]
             /\ shift' = [shift EXCEPT ![s] = IF cmd THEN i ELSE @]
             /\ IF mine /\ f.type = "SEQU" THEN Fault(s) ELSE UNCHANGED <<st, err, locked>>
        ELSE UNCHANGED <<st, err, locked, image>>
  /\ UNCHANGED <<oe, spc>>
  /\ Drive

(* mxc_update of the slot: nothing heard from irc for a second... *)
CheckLost(s) ==
  /\ spc[s] = "idle" /\ st[s] = "READY"
  /\ spc' = [spc EXCEPT ![s] = "lost"]
  /\ UNCHANGED <<irc, st, locked, oe, err, wire, image, latch, want, npower, ncmd>>

(* ... whatever the interrupt made of the status in between. *)
SetLost(s) ==
  /\ spc[s] = "lost"
  /\ spc' = [spc EXCEPT ![s] = "idle"]
  /\ st' = [st EXCEPT ![s] = "LOST"]
  /\ UNCHANGED <<irc, locked, oe, err, wire, image, latch, want, npower, ncmd>>

-----------------------------------------------------------------------------
Latch == Resume \/ Rise \/ Fall \/ GiveUp

Irc ==
  \/ Boot \/ ResetAll \/ Rst \/ SlotError \/ Cls \/ Poll \/ SendLate
  \/ Mode \/ Dat \/ Cmd \/ Latch

Interrupt(s) == OnReset(s) \/ OnMode(s) \/ OnPing(s) \/ OnOffline(s) \/ OnSwitch(s)

Card(s) == PowerUp(s) \/ PowerDown(s) \/ Interrupt(s) \/ CheckLost(s) \/ SetLost(s)

Next == Irc \/ \E s \in Slots : Card(s)

Spec == Init /\ [][Next]_vars

-----------------------------------------------------------------------------
Kinds == {"RESET", "MODE", "PING", "OFFLINE", "DAT", "CMD"}
Frames == [kind : Kinds, type : {"NONE", "OPEN", "CLOS", "SCAN", "SEQU"}, pts : SUBSET Slots]

(* Types; the outputs of the drivers are enabled by the first MODE that a  *)
(* slot accepts, and stay so until it stops (mxc.c:156).                   *)
TypeOK ==
  /\ phase \in {"boot", "booted", "run", "held", "mode", "cmd", "fall"}
  /\ ping \in BOOLEAN /\ ecode \in BOOLEAN /\ le \in BOOLEAN
  /\ tx \in SUBSET [to : SUBSET Slots, frame : Frames]
  /\ st \in [Slots -> {"OFF", "BOOT", "INIT", "OFFLINE", "READY", "LOST", "ERROR"}]
  /\ locked \in [Slots -> BOOLEAN] /\ err \in [Slots -> BOOLEAN]
  /\ oe \in [Slots -> BOOLEAN]
  /\ \A s \in Slots : oe[s] <=> st[s] \in {"READY", "LOST", "ERROR"}
  /\ spc \in [Slots -> {"idle", "lost"}]
  /\ fifo \in [Slots -> Seq(Frames)] /\ \A s \in Slots : Len(fifo[s]) <= FifoCap
  /\ img \in [Slots -> BOOLEAN] /\ stat \in [Slots -> BOOLEAN]
  /\ shift \in [Slots -> BOOLEAN] /\ latch \in [Slots -> BOOLEAN]
  /\ want \in [img : SUBSET Slots, stat : SUBSET Slots, shift : SUBSET Slots]
  /\ synced \subseteq Slots
  /\ npower \in Nat /\ ncmd \in Nat /\ nfail \in Nat

(* Error policy of the slot card: whoever has an error, or was not         *)
(* answered yet, holds LE low.                                             *)
Failed(s) == On(s) /\ (st[s] = "INIT" \/ err[s])
ErrorHoldsLe == \A s \in Slots : Failed(s) => locked[s]

(* "hold le = low, then all relay operation will fail": no relay switches  *)
(* while a slot has an error or waits to be answered, but when the first   *)
(* MODE after a start enables the outputs of its own card: the drivers     *)
(* then show what they held before the start.                              *)
Switched(s) == On(s) /\ On(s)' /\ Closed(s)' # Closed(s)
FirstMode(s) == ~oe[s] /\ oe'[s]
NoSwitchWithError ==
  [][\A s, t \in Slots : Switched(s) /\ ~FirstMode(s) => ~Failed(t)']_vars

(* A latch that ends with the line still high leaves every slot that       *)
(* missed no frame since the last MODE with the relays that the commands   *)
(* asked for, whatever slots were plugged in or out, lost or reset on the  *)
(* way and whatever frames other slots missed.                             *)
LatchFaithful ==
  phase = "fall" /\ Line /\ Drained =>
    \A s \in synced : On(s) => (Closed(s) <=> s \in want.shift)
=============================================================================
