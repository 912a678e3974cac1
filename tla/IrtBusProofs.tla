----------------------------- MODULE IrtBusProofs -----------------------------
(***************************************************************************)
(* Theorems about IrtBus, for any slots, operations and bounds: the error  *)
(* policy of the slot cards, and that a latch that ends well has switched  *)
(* the relays the commands asked for.  At the end, theorems about          *)
(* SlotSwitch: what the cards make of the opcodes in a frame.              *)
(***************************************************************************)
EXTENDS IrtBus, SlotSwitch, TLAPS

(* ErrorHoldsLe alone is not inductive: a slot that was found lost becomes *)
(* LOST whatever its status is by then, so a slot without power must not   *)
(* keep an error either.                                                   *)
HoldsLe == \A s \in Slots : st[s] = "INIT" \/ err[s] => locked[s]

(* A slot that does not run hears nothing, an error is one of a slot at    *)
(* work, and only such a slot is found lost.                               *)
AtWork == {"READY", "LOST", "ERROR"}
Sober ==
  \A s \in Slots : /\ ~On(s) => fifo[s] = << >>
                   /\ st[s] = "ERROR" => err[s]
                   /\ err[s] \/ spc[s] = "lost" => st[s] \in AtWork

IInv == TypeOK /\ HoldsLe /\ Sober

(* What TypeOK says of the bus. *)
WireOK ==
  /\ fifo \in [Slots -> Seq(Frames)] /\ \A s \in Slots : Len(fifo[s]) <= FifoCap
  /\ tx \in SUBSET [to : SUBSET Slots, frame : Frames]
  /\ nfail \in Nat

(* A fifo still fits after a frame was put in, whether it was full or not. *)
LEMMA PutType ==
  ASSUME NEW q \in Seq(Frames), Len(q) <= FifoCap, NEW f \in Frames
  PROVE  Put(q, f) \in Seq(Frames) /\ Len(Put(q, f)) <= FifoCap
<1>1. CASE Len(q) < FifoCap
  BY <1>1, IrtBusAssumption DEF Put
<1>2. CASE Len(q) = FifoCap
  <2> DEFINE r == [q EXCEPT ![FifoCap] = f]
  <2>1. r \in [1 .. FifoCap -> Frames]
    BY <1>2, IrtBusAssumption
  <2>2. r \in Seq(Frames) /\ Len(r) = FifoCap
    BY <2>1, IrtBusAssumption
  <2> QED BY <1>2, <2>2, IrtBusAssumption DEF Put
<1>3. Len(q) \in Nat /\ FifoCap \in Nat
  BY IrtBusAssumption
<1> QED BY <1>1, <1>2, <1>3

LEMMA DeliverType ==
  ASSUME TypeOK, NEW to, NEW f \in Frames, Deliver(to, f)
  PROVE  /\ fifo' \in [Slots -> Seq(Frames)] /\ \A s \in Slots : Len(fifo'[s]) <= FifoCap
         /\ nfail' \in Nat
<1>1. \A s \in Slots : /\ fifo[s] \in Seq(Frames) /\ Len(fifo[s]) <= FifoCap
                       /\ Put(fifo[s], f) \in Seq(Frames) /\ Len(Put(fifo[s], f)) <= FifoCap
  BY PutType DEF TypeOK
<1>2. nfail' \in Nat
  BY DEF Deliver, TypeOK
<1> QED BY <1>1, <1>2 DEF Deliver

(* What irc sends, or fails to send, leaves the bus as it should be. *)
LEMMA SendType ==
  ASSUME TypeOK, NEW to \in SUBSET Slots, NEW f \in Frames, NEW sent, Send(to, f, sent)
  PROVE  WireOK'
<1>1. CASE Deliver(to, f) /\ tx' = {}
  BY <1>1, DeliverType DEF WireOK
<1>2. CASE /\ nfail' = nfail + 1 /\ tx' = {[to |-> to, frame |-> f]} /\ UNCHANGED fifo
  BY <1>2 DEF WireOK, TypeOK
<1> QED BY <1>1, <1>2 DEF Send

LEMMA RestType ==
  ASSUME TypeOK, NEW s \in Slots, fifo[s] # << >>, Rest(s)
  PROVE  fifo' \in [Slots -> Seq(Frames)] /\ \A t \in Slots : Len(fifo'[t]) <= FifoCap
<1>1. fifo[s] \in Seq(Frames) /\ Len(fifo[s]) <= FifoCap
  BY DEF TypeOK
<1>2. Tail(fifo[s]) \in Seq(Frames) /\ Len(Tail(fifo[s])) <= FifoCap
  BY <1>1, IrtBusAssumption
<1> QED BY <1>2 DEF Rest, TypeOK

(* The wiring drives every relay.                                          *)
LEMMA DriveType ==
  ASSUME Drive, shift' \in [Slots -> BOOLEAN], TypeOK
  PROVE  latch' \in [Slots -> BOOLEAN]
  BY DEF Drive, TypeOK

LEMMA FramesMade ==
  /\ \A k \in Kinds : Frame(k) \in Frames
  /\ \A k \in Kinds, f \in Switches : Opcodes(k, f) \in Frames
  BY IrtBusAssumption DEF Frame, Frames, Opcodes

LEMMA ApplyType ==
  ASSUME NEW f \in Switches, NEW set \in SUBSET Slots
  PROVE  Apply(f, set) \in SUBSET Slots
  BY IrtBusAssumption DEF Apply

Wants == [img : SUBSET Slots, stat : SUBSET Slots, shift : SUBSET Slots]

LEMMA AskType ==
  ASSUME NEW w \in Wants, Ask(w) PROVE want' \in Wants
  BY DEF Ask, Nobody, Wants

-----------------------------------------------------------------------------
(* Type correctness, one lemma for irc and one for a slot.                 *)

(* What irc leaves alone, and what TypeOK says of the rest. *)
LEMMA IrcTyped ==
  ASSUME TypeOK, UNCHANGED <<slot, image, npower>>, WireOK',
         phase' \in {"boot", "booted", "run", "held", "mode", "cmd", "fall"},
         ping' \in BOOLEAN, ecode' \in BOOLEAN, le' \in BOOLEAN,
         latch' \in [Slots -> BOOLEAN], want' \in Wants, synced' \subseteq Slots, ncmd' \in Nat
  PROVE  TypeOK'
  BY DEF TypeOK, WireOK, Wants, slot, image

LEMMA EmitType ==
  ASSUME TypeOK, NEW k \in {"DAT", "CMD"}, NEW f \in Switches, NEW sent \in BOOLEAN,
         Emit(k, f, sent)
  PROVE  /\ WireOK' /\ ecode' \in BOOLEAN /\ synced' \subseteq Slots /\ ncmd' \in Nat
         /\ ping' \in BOOLEAN /\ UNCHANGED <<slot, image, npower>>
<1>1. Opcodes(k, f) \in Frames
  BY FramesMade DEF Kinds
<1>2. WireOK'
  BY <1>1, SendType DEF Emit
<1> QED BY <1>2 DEF Emit, Idle, Accepts, TypeOK

LEMMA LatchKept ==
  ASSUME TypeOK, UNCHANGED image, Drive PROVE latch' \in [Slots -> BOOLEAN]
  BY DriveType DEF TypeOK, image

LEMMA IrcType == TypeOK /\ Irc => TypeOK'
<1> SUFFICES ASSUME TypeOK, Irc PROVE TypeOK'
  OBVIOUS
<1>0. /\ phase \in {"boot", "booted", "run", "held", "mode", "cmd", "fall"}
      /\ ping \in BOOLEAN /\ ecode \in BOOLEAN /\ le \in BOOLEAN
      /\ latch \in [Slots -> BOOLEAN] /\ want \in Wants /\ synced \subseteq Slots
      /\ ncmd \in Nat /\ WireOK /\ Nobody \in Wants
  BY DEF TypeOK, Wants, WireOK, Nobody
<1>1. CASE Boot
  <2>1. latch' \in [Slots -> BOOLEAN]
    BY <1>1, LatchKept DEF Boot
  <2>2. WireOK'
    BY <1>0, <1>1 DEF Boot, WireOK
  <2> QED BY <1>0, <1>1, <2>1, <2>2, IrcTyped DEF Boot
<1>2. CASE ResetAll
  <2>1. PICK sent \in BOOLEAN : Send(Slots, Frame("RESET"), sent) /\ ecode' = ~sent
    BY <1>2 DEF ResetAll
  <2>2. WireOK'
    BY <2>1, SendType, FramesMade DEF Kinds
  <2>3. latch' \in [Slots -> BOOLEAN]
    BY <1>2, LatchKept DEF ResetAll
  <2> QED BY <1>0, <1>2, <2>1, <2>2, <2>3, IrcTyped DEF ResetAll
<1>3. CASE Rst
  <2>1. WireOK'
    BY <1>3, SendType, FramesMade DEF Kinds, Rst
  <2>2. latch' \in [Slots -> BOOLEAN]
    BY <1>3, LatchKept DEF Rst
  <2>3. /\ phase' = "boot" /\ ping' = FALSE /\ ecode' = FALSE /\ le' = FALSE
        /\ synced' = {} /\ want' = Nobody /\ UNCHANGED <<slot, image, npower>>
        /\ ncmd' = ncmd + 1
    BY <1>3 DEF Rst, Accepts
  <2>4. /\ phase' \in {"boot", "booted", "run", "held", "mode", "cmd", "fall"}
        /\ ping' \in BOOLEAN /\ ecode' \in BOOLEAN /\ le' \in BOOLEAN
    BY <2>3
  <2>5. want' \in Wants /\ synced' \subseteq Slots
    BY <1>0, <2>3
  <2>6. ncmd' \in Nat
    BY <1>0, <2>3
  <2> QED BY <2>1, <2>2, <2>3, <2>4, <2>5, <2>6, IrcTyped
<1>4. CASE SlotError \/ Cls \/ Rise \/ GiveUp
  <2>1. /\ UNCHANGED <<ping, le, slot, wire, image, latch, want, npower, ncmd>>
        /\ phase' \in {phase, "fall", "run"} /\ ecode' \in BOOLEAN
    BY <1>0, <1>4 DEF SlotError, Cls, Rise, GiveUp
  <2>2. WireOK' /\ synced' = synced
    BY <1>0, <2>1 DEF wire, WireOK
  <2> QED BY <1>0, <2>1, <2>2, IrcTyped
<1>5. CASE Poll
  <2>1. PICK s \in Slots, sent \in BOOLEAN :
          /\ Send({s}, Frame(IF ping THEN "PING" ELSE "OFFLINE"), sent)
          /\ ecode' = (ecode \/ ~(sent \/ ping))
          /\ synced' = IF sent THEN synced \cap Hear({s}) ELSE synced
    BY <1>5 DEF Poll
  <2>2. Frame(IF ping THEN "PING" ELSE "OFFLINE") \in Frames
    BY FramesMade DEF Kinds
  <2>3. WireOK'
    BY <2>1, <2>2, SendType
  <2>4. ecode' \in BOOLEAN /\ synced' \subseteq Slots
    BY <1>0, <2>1
  <2> QED BY <1>0, <1>5, <2>3, <2>4, IrcTyped DEF Poll
<1>6. CASE SendLate
  <2>1. PICK m \in tx : Deliver(m.to, m.frame) /\ synced' = synced \cap Hear(m.to)
    BY <1>6 DEF SendLate
  <2>2. m.frame \in Frames
    BY DEF TypeOK
  <2>3. WireOK'
    BY <1>6, <2>1, <2>2, DeliverType DEF SendLate, WireOK
  <2>4. UNCHANGED <<phase, ping, ecode, le, slot, image, latch, want, npower, ncmd>>
    BY <1>6 DEF SendLate, irc
  <2> QED BY <1>0, <2>1, <2>3, <2>4, IrcTyped
<1>7. CASE Mode
  <2>1. PICK sent \in BOOLEAN :
          /\ Send(Slots, Frame("MODE"), sent)
          /\ phase' = (IF sent THEN "mode" ELSE "run") /\ le' = (le \/ sent)
          /\ synced' = IF sent THEN Slots ELSE {}
    BY <1>7 DEF Mode
  <2>2. WireOK'
    BY <2>1, SendType, FramesMade DEF Kinds
  <2>3. latch' \in [Slots -> BOOLEAN]
    BY <1>7, LatchKept DEF Mode
  <2>4. /\ phase' \in {"mode", "run"} /\ le' \in BOOLEAN /\ synced' \subseteq Slots
        /\ ncmd' \in Nat
    BY <1>0, <1>7, <2>1 DEF Mode, Idle, Accepts
  <2> QED BY <1>0, <1>7, <2>2, <2>3, <2>4, IrcTyped DEF Mode
<1>8. CASE Dat
  <2>1. PICK f \in Switches, sent \in BOOLEAN :
          Emit("DAT", f, sent) /\ Ask([want EXCEPT !.img = Apply(f, @)])
    BY <1>8 DEF Dat
  <2>2. [want EXCEPT !.img = Apply(f, @)] \in Wants
    BY <1>0, ApplyType DEF Wants
  <2>3. want' \in Wants
    BY <2>1, <2>2, AskType
  <2> QED BY <1>0, <1>8, <2>1, <2>3, EmitType, IrcTyped DEF Dat
<1>9. CASE Cmd
  <2>1. PICK f \in Switches, sent \in BOOLEAN :
          /\ Emit("CMD", f, sent)
          /\ phase' = (IF sent THEN "cmd" ELSE "held") /\ le' = (le \/ sent)
          /\ LET w == Apply(f, want.img)
                 base == IF f.type = "SCAN" THEN want.stat ELSE w
             IN Ask([img |-> base, stat |-> base, shift |-> w])
    BY <1>9 DEF Cmd
  <2>2. Apply(f, want.img) \in SUBSET Slots /\ want.stat \in SUBSET Slots
    BY <1>0, ApplyType DEF Wants
  <2> DEFINE w == Apply(f, want.img)
             base == IF f.type = "SCAN" THEN want.stat ELSE w
  <2>3. [img |-> base, stat |-> base, shift |-> w] \in Wants
    BY <2>2 DEF Wants
  <2>4. want' \in Wants
    BY <2>1, <2>3, AskType
  <2>5. /\ WireOK' /\ ecode' \in BOOLEAN /\ synced' \subseteq Slots /\ ncmd' \in Nat
        /\ ping' \in BOOLEAN /\ UNCHANGED <<slot, image, npower>>
    BY <2>1, EmitType
  <2>6. latch' \in [Slots -> BOOLEAN]
    BY <1>9, <2>5, LatchKept DEF Cmd
  <2>7. phase' \in {"cmd", "held"} /\ le' \in BOOLEAN
    BY <1>0, <2>1
  <2> QED BY <2>4, <2>5, <2>6, <2>7, IrcTyped
<1>10. CASE Resume \/ Fall
  <2>1. /\ UNCHANGED <<ping, ecode, slot, wire, image, want, npower, ncmd>>
        /\ phase' \in {"cmd", "run"} /\ le' \in BOOLEAN /\ Drive
    BY <1>10 DEF Resume, Fall
  <2>2. WireOK' /\ synced' = synced
    BY <1>0, <2>1 DEF wire, WireOK
  <2>3. latch' \in [Slots -> BOOLEAN]
    BY <2>1, LatchKept
  <2> QED BY <1>0, <2>1, <2>2, <2>3, IrcTyped
<1> QED BY <1>1, <1>2, <1>3, <1>4, <1>5, <1>6, <1>7, <1>8, <1>9, <1>10 DEF Irc, Latch



States == {"OFF", "BOOT", "INIT", "OFFLINE", "READY", "LOST", "ERROR"}
Working == \A s \in Slots : oe[s] <=> st[s] \in AtWork

(* What a slot leaves alone, and what TypeOK says of the rest. *)
LEMMA CardTyped ==
  ASSUME TypeOK, UNCHANGED <<irc, tx, synced, nfail, want, ncmd>>,
         fifo' \in [Slots -> Seq(Frames)], \A s \in Slots : Len(fifo'[s]) <= FifoCap,
         st' \in [Slots -> States], locked' \in [Slots -> BOOLEAN], err' \in [Slots -> BOOLEAN],
         oe' \in [Slots -> BOOLEAN], Working', spc' \in [Slots -> {"idle", "lost"}],
         img' \in [Slots -> BOOLEAN], stat' \in [Slots -> BOOLEAN],
         shift' \in [Slots -> BOOLEAN], latch' \in [Slots -> BOOLEAN], npower' \in Nat
  PROVE  TypeOK'
  BY DEF TypeOK, irc, States, Working, AtWork

LEMMA StopType ==
  ASSUME TypeOK, NEW s \in Slots, NEW how \in {"OFF", "BOOT"}, Stop(s, how)
  PROVE  /\ fifo' \in [Slots -> Seq(Frames)] /\ \A t \in Slots : Len(fifo'[t]) <= FifoCap
         /\ st' \in [Slots -> States]
         /\ locked' \in [Slots -> BOOLEAN] /\ err' \in [Slots -> BOOLEAN]
         /\ oe' \in [Slots -> BOOLEAN] /\ Working' /\ spc' \in [Slots -> {"idle", "lost"}]
         /\ img' \in [Slots -> BOOLEAN] /\ stat' \in [Slots -> BOOLEAN]
  BY IrtBusAssumption DEF Stop, TypeOK, States, Working, AtWork

LEMMA FoundType ==
  ASSUME TypeOK, NEW s \in Slots, Found(s)
  PROVE  shift' \in [Slots -> BOOLEAN] /\ latch' \in [Slots -> BOOLEAN]
<1>1. PICK r \in [shift : BOOLEAN, latch : BOOLEAN] :
        /\ shift' = [shift EXCEPT ![s] = r.shift]
        /\ latch' = IF Line' THEN shift' ELSE [latch EXCEPT ![s] = r.latch]
  BY IrtBusAssumption DEF Found, TypeOK
<1> QED BY <1>1 DEF TypeOK

LEMMA ImagesType ==
  ASSUME TypeOK, NEW s \in Slots, OnSwitch(s)
  PROVE  /\ img' \in [Slots -> BOOLEAN] /\ stat' \in [Slots -> BOOLEAN]
         /\ shift' \in [Slots -> BOOLEAN]
<1>1. /\ img \in [Slots -> BOOLEAN] /\ stat \in [Slots -> BOOLEAN]
      /\ shift \in [Slots -> BOOLEAN]
  BY DEF TypeOK
<1> DEFINE f == Head(fifo[s])
           i == IF s \in f.pts /\ f.type # "SEQU" THEN f.type # "OPEN" ELSE img[s]
<1>2. i \in BOOLEAN
  BY <1>1
<1>3. \/ UNCHANGED image
      \/ \E a \in {i, stat[s]}, b \in {i, stat[s]}, c \in {i, shift[s]} :
           /\ img' = [img EXCEPT ![s] = a] /\ stat' = [stat EXCEPT ![s] = b]
           /\ shift' = [shift EXCEPT ![s] = c]
  BY DEF OnSwitch
<1> HIDE DEF i
<1> QED BY <1>1, <1>2, <1>3 DEF image

(* An operation that the slot does not know leaves it in error, at work. *)
LEMMA SwitchStates ==
  ASSUME TypeOK, NEW s \in Slots, OnSwitch(s)
  PROVE  /\ UNCHANGED <<oe, spc>>
         /\ \/ UNCHANGED <<st, err, locked>>
            \/ st[s] \in {"READY", "LOST"} /\ Fault(s)
  BY DEF OnSwitch

LEMMA CardType == \A s \in Slots : TypeOK /\ Sober /\ Card(s) => TypeOK'
<1> SUFFICES ASSUME NEW s \in Slots, TypeOK, Sober, Card(s) PROVE TypeOK'
  OBVIOUS
<1>0. /\ fifo \in [Slots -> Seq(Frames)] /\ \A t \in Slots : Len(fifo[t]) <= FifoCap
      /\ st \in [Slots -> States] /\ locked \in [Slots -> BOOLEAN]
      /\ err \in [Slots -> BOOLEAN] /\ oe \in [Slots -> BOOLEAN] /\ Working
      /\ spc \in [Slots -> {"idle", "lost"}]
      /\ img \in [Slots -> BOOLEAN] /\ stat \in [Slots -> BOOLEAN]
      /\ shift \in [Slots -> BOOLEAN] /\ latch \in [Slots -> BOOLEAN] /\ npower \in Nat
  BY DEF TypeOK, States, Working, AtWork
<1>1. CASE PowerUp(s)
  <2>1. shift' \in [Slots -> BOOLEAN] /\ latch' \in [Slots -> BOOLEAN]
    BY <1>1, FoundType DEF PowerUp
  <2>2. st' \in [Slots -> States] /\ Working' /\ locked' \in [Slots -> BOOLEAN]
    BY <1>0, <1>1 DEF PowerUp, States, Working, AtWork, On
  <2> QED BY <1>0, <1>1, <2>1, <2>2, CardTyped DEF PowerUp, wire
<1>2. CASE PowerDown(s)
  <2>1. shift' \in [Slots -> BOOLEAN]
    BY <1>0, <1>2 DEF PowerDown
  <2>2. latch' \in [Slots -> BOOLEAN] /\ npower' \in Nat
    BY <1>0, <1>2, <2>1, DriveType DEF PowerDown
  <2> QED BY <1>2, <2>1, <2>2, StopType, CardTyped DEF PowerDown
<1>3. CASE OnReset(s)
  <2>1. shift' \in [Slots -> BOOLEAN] /\ latch' \in [Slots -> BOOLEAN] /\ npower' \in Nat
    BY <1>0, <1>3, DriveType DEF OnReset, Take
  <2> QED BY <1>3, <2>1, StopType, CardTyped DEF OnReset, Take
<1>4. CASE OnMode(s)
  <2>1. fifo' \in [Slots -> Seq(Frames)] /\ \A t \in Slots : Len(fifo'[t]) <= FifoCap
    BY <1>4, RestType DEF OnMode, Take
  <2>2. /\ img' \in [Slots -> BOOLEAN] /\ stat' \in [Slots -> BOOLEAN]
        /\ shift' \in [Slots -> BOOLEAN]
    BY <1>0, <1>4 DEF OnMode, image
  <2>3. latch' \in [Slots -> BOOLEAN]
    BY <1>4, <2>2, DriveType DEF OnMode
  <2>4. /\ st' \in [Slots -> States] /\ oe' \in [Slots -> BOOLEAN] /\ Working'
    <3>1. CASE UNCHANGED <<st, oe>>
      BY <1>0, <3>1 DEF Working
    <3>2. CASE st' = [st EXCEPT ![s] = "READY"] /\ oe' = [oe EXCEPT ![s] = TRUE]
      BY <1>0, <3>2 DEF States, Working, AtWork
    <3> QED BY <1>4, <3>1, <3>2 DEF OnMode
  <2> QED BY <1>0, <1>4, <2>1, <2>2, <2>3, <2>4, CardTyped DEF OnMode, Take
<1>5. CASE OnPing(s)
  <2>1. fifo' \in [Slots -> Seq(Frames)] /\ \A t \in Slots : Len(fifo'[t]) <= FifoCap
    BY <1>5, RestType DEF OnPing, Take
  <2>2. st' \in [Slots -> States] /\ Working'
    BY <1>0, <1>5 DEF OnPing, States, Working, AtWork
  <2> QED BY <1>0, <1>5, <2>1, <2>2, CardTyped DEF OnPing, Take, image
<1>6. CASE OnOffline(s)
  <2>1. fifo' \in [Slots -> Seq(Frames)] /\ \A t \in Slots : Len(fifo'[t]) <= FifoCap
    BY <1>6, RestType DEF OnOffline, Take
  <2>2. /\ st' \in [Slots -> States] /\ Working' /\ locked' \in [Slots -> BOOLEAN]
        /\ err' \in [Slots -> BOOLEAN]
    <3>1. CASE UNCHANGED <<st, locked, err>>
      BY <1>0, <1>6, <3>1 DEF Working, OnOffline
    <3>2. CASE /\ st[s] = "INIT" /\ st' = [st EXCEPT ![s] = "OFFLINE"]
               /\ locked' = [locked EXCEPT ![s] = FALSE] /\ err' = [err EXCEPT ![s] = FALSE]
      BY <1>0, <1>6, <3>2 DEF States, Working, AtWork, OnOffline
    <3> QED BY <1>6, <3>1, <3>2 DEF OnOffline
  <2>3. latch' \in [Slots -> BOOLEAN]
    BY <1>0, <1>6, DriveType DEF OnOffline, image
  <2> QED BY <1>0, <1>6, <2>1, <2>2, <2>3, CardTyped DEF OnOffline, Take, image
<1>7. CASE OnSwitch(s)
  <2>1. fifo' \in [Slots -> Seq(Frames)] /\ \A t \in Slots : Len(fifo'[t]) <= FifoCap
    BY <1>7, RestType DEF OnSwitch, Take
  <2>2. /\ img' \in [Slots -> BOOLEAN] /\ stat' \in [Slots -> BOOLEAN]
        /\ shift' \in [Slots -> BOOLEAN]
    BY <1>7, ImagesType
  <2>3. latch' \in [Slots -> BOOLEAN]
    BY <1>7, <2>2, DriveType DEF OnSwitch
  <2>4. /\ UNCHANGED <<oe, spc>>
        /\ \/ UNCHANGED <<st, err, locked>>
           \/ st[s] \in {"READY", "LOST"} /\ Fault(s)
    BY <1>7, SwitchStates
  <2>5. /\ st' \in [Slots -> States] /\ Working' /\ locked' \in [Slots -> BOOLEAN]
        /\ err' \in [Slots -> BOOLEAN]
    <3>1. CASE UNCHANGED <<st, err, locked>>
      BY <1>0, <2>4, <3>1 DEF Working
    <3>2. CASE st[s] \in {"READY", "LOST"} /\ Fault(s)
      BY <1>0, <2>4, <3>2 DEF Fault, States, Working, AtWork
    <3> QED BY <2>4, <3>1, <3>2
  <2>6. UNCHANGED <<irc, tx, synced, nfail, want, ncmd, npower>>
    BY <1>7 DEF OnSwitch, Take
  <2>7. npower' \in Nat /\ oe' \in [Slots -> BOOLEAN] /\ spc' \in [Slots -> {"idle", "lost"}]
    BY <1>0, <2>4, <2>6
  <2> QED BY <2>1, <2>2, <2>3, <2>5, <2>6, <2>7, CardTyped
<1>8. CASE CheckLost(s)
  <2>1. spc' \in [Slots -> {"idle", "lost"}]
    BY <1>0, <1>8 DEF CheckLost
  <2> QED BY <1>0, <1>8, <2>1, CardTyped DEF CheckLost, wire, image, Working
<1>9. CASE SetLost(s)
  <2>1. st' \in [Slots -> States] /\ Working' /\ spc' \in [Slots -> {"idle", "lost"}]
    BY <1>0, <1>9 DEF SetLost, States, Working, AtWork, Sober
  <2> QED BY <1>0, <1>9, <2>1, CardTyped DEF SetLost, wire, image
<1> QED BY <1>1, <1>2, <1>3, <1>4, <1>5, <1>6, <1>7, <1>8, <1>9 DEF Card, Interrupt

-----------------------------------------------------------------------------
(* Who changes a status, an error or a lock.                               *)

LEMMA IrcKeepsSlots == Irc => UNCHANGED <<st, locked, oe, err, spc>>
  BY DEF Irc, Latch, Boot, ResetAll, Rst, SlotError, Cls, Poll, SendLate, Mode, Emit, Dat,
         Cmd, Resume, Rise, Fall, GiveUp, slot

(* A card either goes out of work, or holds LE, or had it released by irc. *)
LEMMA CardHoldsLe ==
  \A s \in Slots : TypeOK /\ HoldsLe /\ Card(s) => HoldsLe'
<1> SUFFICES ASSUME NEW s \in Slots, TypeOK, HoldsLe, Card(s) PROVE HoldsLe'
  OBVIOUS
<1> USE DEF HoldsLe, TypeOK, slot
<1>1. CASE PowerUp(s)
  BY <1>1 DEF PowerUp
<1>2. CASE PowerDown(s) \/ OnReset(s)
  <2>1. PICK how \in {"OFF", "BOOT"} : Stop(s, how)
    BY <1>2 DEF PowerDown, OnReset
  <2>2. /\ st' = [st EXCEPT ![s] = how] /\ locked' = [locked EXCEPT ![s] = FALSE]
        /\ err' = [err EXCEPT ![s] = FALSE]
    BY <2>1 DEF Stop
  <2>3. st'[s] # "INIT" /\ ~err'[s]
    BY <2>2
  <2>4. \A t \in Slots \ {s} : st'[t] = st[t] /\ err'[t] = err[t] /\ locked'[t] = locked[t]
    BY <2>2
  <2> QED BY <2>3, <2>4, Zenon
<1>3. CASE OnMode(s)
  BY <1>3 DEF OnMode
<1>4. CASE OnPing(s)
  BY <1>4 DEF OnPing
<1>5. CASE OnOffline(s)
  <2>1. CASE st[s] = "INIT"
    <3>1. /\ st' = [st EXCEPT ![s] = "OFFLINE"] /\ locked' = [locked EXCEPT ![s] = FALSE]
          /\ err' = [err EXCEPT ![s] = FALSE]
      BY <1>5, <2>1 DEF OnOffline
    <3>2. st'[s] # "INIT" /\ ~err'[s]
      BY <3>1
    <3>3. \A t \in Slots \ {s} : st'[t] = st[t] /\ err'[t] = err[t] /\ locked'[t] = locked[t]
      BY <3>1
    <3> QED BY <3>2, <3>3, Zenon
  <2>2. CASE st[s] # "INIT"
    BY <1>5, <2>2 DEF OnOffline
  <2> QED BY <2>1, <2>2
<1>6. CASE OnSwitch(s)
  <2>1. Fault(s) \/ UNCHANGED <<st, err, locked>>
    BY <1>6 DEF OnSwitch
  <2> QED BY <2>1 DEF Fault
<1>7. CASE CheckLost(s) \/ SetLost(s)
  BY <1>7 DEF CheckLost, SetLost
<1> QED BY <1>1, <1>2, <1>3, <1>4, <1>5, <1>6, <1>7 DEF Card, Interrupt

LEMMA TookFrame ==
  ASSUME TypeOK, NEW s \in Slots, NEW k, Take(s, k), Rest(s)
  PROVE  /\ On(s) /\ fifo[s] # << >> /\ fifo' = [fifo EXCEPT ![s] = Tail(fifo[s])]
         /\ fifo'[s] = Tail(fifo[s])
         /\ Head(fifo[s]) \in Frames /\ Head(fifo[s]).kind \in k
<1>1. fifo[s] # << >> /\ fifo[s] \in Seq(Frames) /\ fifo \in [Slots -> Seq(Frames)]
  BY DEF TypeOK, Take
<1> QED BY <1>1 DEF Take, Rest

LEMMA IrcSober == ASSUME TypeOK, Sober, Irc PROVE Sober'
<1>1. UNCHANGED <<st, err, spc>>
  BY IrcKeepsSlots
<1>2. \A s \in Slots : ~On(s) => fifo'[s] = fifo[s]
  <2>1. UNCHANGED fifo \/ (\E to, f : Deliver(to, f))
    BY DEF Irc, Latch, Boot, ResetAll, Rst, SlotError, Cls, Poll, SendLate, Mode, Emit, Dat,
           Cmd, Resume, Rise, Fall, GiveUp, Send, wire
  <2> QED BY <2>1 DEF Deliver, TypeOK
<1> QED BY <1>1, <1>2 DEF Sober, On

LEMMA CardSober == ASSUME TypeOK, Sober, NEW s \in Slots, Card(s) PROVE Sober'
<1> USE DEF Sober, AtWork, TypeOK, slot, On
<1>1. CASE PowerUp(s)
  BY <1>1 DEF PowerUp, wire
<1>2. CASE PowerDown(s)
  BY <1>2 DEF PowerDown, Stop
<1>3. CASE OnReset(s)
  BY <1>3 DEF OnReset, Stop
<1>4. CASE OnMode(s)
  BY <1>4, TookFrame DEF OnMode
<1>5. CASE OnPing(s)
  BY <1>5, TookFrame DEF OnPing
<1>6. CASE OnOffline(s)
  BY <1>6, TookFrame DEF OnOffline
<1>7. CASE OnSwitch(s)
  <2>1. /\ spc' = spc /\ On(s) /\ \A t \in Slots \ {s} : fifo'[t] = fifo[t]
        /\ \/ UNCHANGED <<st, err>>
           \/ st[s] \in {"READY", "LOST"} /\ Fault(s)
    <3>1. On(s) /\ \A t \in Slots \ {s} : fifo'[t] = fifo[t]
      BY <1>7, TookFrame DEF OnSwitch
    <3> QED BY <1>7, <3>1, SwitchStates
  <2>2. CASE UNCHANGED <<st, err>>
    BY <2>1, <2>2
  <2>3. CASE st[s] \in {"READY", "LOST"} /\ Fault(s)
    <3>1. st'[s] \in AtWork /\ err'[s]
      BY <2>3 DEF Fault
    <3>2. \A t \in Slots \ {s} : st'[t] = st[t] /\ err'[t] = err[t]
      BY <2>3 DEF Fault
    <3> QED BY <2>1, <3>1, <3>2
  <2> QED BY <2>1, <2>2, <2>3
<1>8. CASE CheckLost(s) \/ SetLost(s)
  BY <1>8 DEF CheckLost, SetLost, wire
<1> QED BY <1>1, <1>2, <1>3, <1>4, <1>5, <1>6, <1>7, <1>8 DEF Card, Interrupt

LEMMA NextIInv == IInv /\ [Next]_vars => IInv'
<1> SUFFICES ASSUME IInv, [Next]_vars PROVE IInv'
  OBVIOUS
<1>1. CASE Irc
  BY <1>1, IrcType, IrcKeepsSlots, IrcSober DEF IInv, HoldsLe
<1>2. CASE \E s \in Slots : Card(s)
  BY <1>2, CardType, CardHoldsLe, CardSober DEF IInv
<1>3. CASE UNCHANGED vars
  <2>1. UNCHANGED <<phase, ping, ecode, le, tx, st, locked, oe, err, spc, fifo, img, stat, shift,
                    latch, synced, want, npower, ncmd, nfail>>
    BY <1>3 DEF vars, irc, slot, wire, image
  <2>2. TypeOK'
    BY <2>1 DEF IInv, TypeOK
  <2> QED BY <2>1, <2>2 DEF IInv, HoldsLe, Sober, On
<1> QED BY <1>1, <1>2, <1>3 DEF Next

LEMMA InitIInv == Init => IInv
<1> SUFFICES ASSUME Init PROVE IInv
  OBVIOUS
<1>1. \A s \in Slots : fifo[s] = << >> /\ Len(fifo[s]) <= FifoCap
  BY IrtBusAssumption DEF Init
<1>2. want \in [img : SUBSET Slots, stat : SUBSET Slots, shift : SUBSET Slots]
  BY DEF Init, Nobody
<1>3. fifo \in [Slots -> Seq(Frames)]
  BY DEF Init
<1>4. TypeOK
  BY <1>1, <1>2, <1>3 DEF Init, TypeOK
<1>5. HoldsLe /\ Sober
  BY DEF Init, HoldsLe, Sober, On
<1> QED BY <1>4, <1>5 DEF IInv

-----------------------------------------------------------------------------
(* Every reachable state is well typed, and whoever has an error or waits  *)
(* to be answered holds LE low (mxc_status_change, mxc_error, mxc_init).   *)
THEOREM Inductive == Spec => []IInv
<1> QED BY InitIInv, NextIInv, PTL DEF Spec

THEOREM TypeCorrect == Spec => []TypeOK
  BY Inductive, PTL DEF IInv

THEOREM ErrorKeepsLeLow == Spec => []ErrorHoldsLe
<1>1. IInv => ErrorHoldsLe
  BY DEF IInv, HoldsLe, ErrorHoldsLe, Failed
<1> QED BY <1>1, Inductive, PTL

-----------------------------------------------------------------------------
(* A slot at work stays at work while it runs: outputs that are enabled    *)
(* stay enabled.                                                           *)
LEMMA OutputsStay ==
  ASSUME IInv, TypeOK', [Next]_vars, NEW s \in Slots, On(s)', oe[s]
  PROVE  oe'[s]
<1>1. TypeOK /\ Sober /\ st[s] \in AtWork
  BY DEF IInv, TypeOK, AtWork
<1>2. SUFFICES st'[s] \in AtWork
  BY DEF TypeOK, AtWork
<1>3. CASE Irc \/ UNCHANGED vars
  BY <1>1, <1>3, IrcKeepsSlots DEF vars, slot
<1>4. ASSUME NEW t \in Slots, Card(t) PROVE st'[s] \in AtWork
  <2> USE DEF AtWork, TypeOK, On
  <2>1. CASE PowerUp(t)
    BY <1>1, <2>1 DEF PowerUp
  <2>2. CASE PowerDown(t) \/ OnReset(t)
    BY <1>1, <2>2 DEF PowerDown, OnReset, Stop
  <2>3. CASE OnMode(t) \/ OnPing(t) \/ OnOffline(t)
    BY <1>1, <2>3 DEF OnMode, OnPing, OnOffline
  <2>4. CASE OnSwitch(t)
    <3>1. UNCHANGED st \/ Fault(t)
      BY <1>1, <2>4, SwitchStates
    <3> QED BY <1>1, <3>1 DEF Fault
  <2>5. CASE CheckLost(t) \/ SetLost(t)
    BY <1>1, <2>5 DEF CheckLost, SetLost
  <2> QED BY <1>4, <2>1, <2>2, <2>3, <2>4, <2>5 DEF Card, Interrupt
<1> QED BY <1>3, <1>4 DEF Next

(* What the drivers show of a slot that runs moves only with the line.     *)
LEMMA LatchDriven ==
  [Next]_vars => Drive \/ UNCHANGED latch \/ \E t \in Slots : PowerUp(t)
  BY DEF Next, Irc, Latch, Boot, ResetAll, Rst, SlotError, Cls, Poll, SendLate, Mode, Dat,
         Cmd, Resume, Rise, Fall, GiveUp, Card, Interrupt, PowerDown, OnReset, OnMode,
         OnPing, OnOffline, OnSwitch, CheckLost, SetLost, vars

LEMMA MovedByLine ==
  ASSUME TypeOK, TypeOK', [Next]_vars, NEW s \in Slots, On(s), On(s)', latch'[s] # latch[s]
  PROVE  Line'
<1> SUFFICES ASSUME ~Line' PROVE FALSE
  OBVIOUS
<1>1. latch \in [Slots -> BOOLEAN]
  BY DEF TypeOK
<1>2. CASE Drive
  <2>1. latch'[s] = (st'[s] # "OFF" /\ latch[s])
    BY <1>2 DEF Drive
  <2>2. st'[s] # "OFF" /\ latch[s] \in BOOLEAN
    BY <1>1 DEF On
  <2> QED BY <2>1, <2>2
<1>3. ASSUME NEW t \in Slots, PowerUp(t) PROVE FALSE
  <2>1. t # s
    BY <1>3 DEF PowerUp
  <2>2. PICK r \in IF st[t] = "BOOT" THEN {[shift |-> shift[t], latch |-> latch[t]]} ELSE Residues :
          latch' = IF Line' THEN shift' ELSE [latch EXCEPT ![t] = r.latch]
    BY <1>3 DEF PowerUp, Found
  <2> QED BY <1>1, <2>1, <2>2
<1> QED BY <1>2, <1>3, LatchDriven

LEMMA SwitchedByLine ==
  ASSUME IInv, TypeOK', [Next]_vars, NEW s \in Slots, Switched(s), ~FirstMode(s)
  PROVE  Line'
<1>1. On(s) /\ On(s)' /\ (oe'[s] /\ latch'[s]) # (oe[s] /\ latch[s])
  BY DEF Switched, Closed
<1>2. /\ oe[s] \in BOOLEAN /\ oe'[s] \in BOOLEAN
      /\ latch[s] \in BOOLEAN /\ latch'[s] \in BOOLEAN /\ TypeOK
  BY DEF IInv, TypeOK
<1>3. oe[s] => oe'[s]
  BY <1>1, OutputsStay
<1>4. latch'[s] # latch[s]
  BY <1>1, <1>2, <1>3 DEF FirstMode
<1> QED BY <1>1, <1>2, <1>4, MovedByLine

(* "hold le = low, then all relay operation will fail": no step of irc, of *)
(* a slot or of whoever pulls cards switches a relay while some slot has   *)
(* an error or waits to be answered, but for the first MODE after a start, *)
(* which enables the outputs of its own card.                              *)
THEOREM NoRelayMovesInError == Spec => NoSwitchWithError
<1>1. IInv /\ IInv' /\ [Next]_vars =>
        [\A s, t \in Slots : Switched(s) /\ ~FirstMode(s) => ~Failed(t)']_vars
  <2> SUFFICES ASSUME IInv, IInv', [Next]_vars, NEW s \in Slots, NEW t \in Slots,
                      Switched(s), ~FirstMode(s)
               PROVE  ~Failed(t)'
    OBVIOUS
  <2>1. Line'
    BY SwitchedByLine DEF IInv
  <2> QED BY <2>1, Zenon DEF Line, IInv, HoldsLe, Failed, On
<1> QED BY <1>1, Inductive, PTL DEF Spec, NoSwitchWithError

-----------------------------------------------------------------------------
(* Latches.  The frames that wait in the fifo of a slot decide what the    *)
(* slot will become.  What it is now leads through them to a card that has *)
(* what the commands asked for, or one that still needs an answer or holds *)
(* LE.                                                                     *)

CardStates == [k : {"off", "dead", "init", "offline", "live"},
          img : BOOLEAN, stat : BOOLEAN, shift : BOOLEAN]

(* Images count only in a slot that takes opcodes. *)
Blank(k) == [k |-> k, img |-> FALSE, stat |-> FALSE, shift |-> FALSE]

Now(s) ==
  IF ~On(s) THEN Blank("off")
  ELSE IF err[s] THEN Blank("dead")
  ELSE IF st[s] = "INIT" THEN Blank("init")
  ELSE IF st[s] = "OFFLINE" THEN Blank("offline")
  ELSE [k |-> "live", img |-> img[s], stat |-> stat[s], shift |-> shift[s]]

(* A slot that takes opcodes, after those of a frame. *)
Switching(s, c, f) ==
  LET i == IF s \in f.pts THEN f.type # "OPEN" ELSE c.img
  IN  IF s \in f.pts /\ f.type = "SEQU" THEN Blank("dead")
      ELSE IF f.kind = "DAT" THEN [k |-> "live", img |-> i, stat |-> c.stat, shift |-> c.shift]
      ELSE IF f.type = "SCAN" THEN [k |-> "live", img |-> c.stat, stat |-> c.stat, shift |-> i]
      ELSE [k |-> "live", img |-> i, stat |-> i, shift |-> i]

After(s, c, f) ==
  IF c.k = "off" \/ f.kind = "RESET" THEN Blank("off")
  ELSE IF f.kind = "OFFLINE" /\ c.k = "init" THEN Blank("offline")
  ELSE IF f.kind = "MODE" /\ c.k \in {"offline", "live"} THEN Blank("live")
  ELSE IF f.kind \in {"DAT", "CMD"} /\ c.k = "live" THEN Switching(s, c, f)
  ELSE c

(* The frames q take the slot from c to d; h is the way. *)
Leads(s, c, q, d) ==
  \E h \in [1 .. Len(q) + 1 -> CardStates] :
    /\ h[1] = c /\ h[Len(q) + 1] = d
    /\ \A i \in 1 .. Len(q) : h[i + 1] = After(s, h[i], q[i])

(* A slot that the latch may find: one that waits for OFFLINE, which is    *)
(* not sent any more, or has an error, holds LE low.                       *)
Fits(s, c, w) ==
  /\ c.k # "offline"
  /\ c.k = "live" => /\ c.img <=> s \in w.img
                     /\ c.stat <=> s \in w.stat
                     /\ c.shift <=> s \in w.shift

Ready(s, c, q, ask, w) == \E d \in CardStates : Leads(s, c, q, d) /\ (ask => Fits(s, d, w))
Prepared == \A s \in Slots : Ready(s, Now(s), fifo[s], s \in synced, want)

(* Slots are counted on from the first MODE on, when OFFLINE is not sent   *)
(* any more: then a frame that may still come late is a PING.              *)
Tuned ==
  /\ synced # {} => ping /\ \A m \in tx : m.frame.kind = "PING"
  /\ phase \in {"boot", "booted"} => synced = {}

(* While the line is high the drivers show what was shifted out. *)
Shown == Line => \A s \in Slots : On(s) => latch[s] = shift[s]

LInv == IInv /\ Tuned /\ Shown /\ Prepared

-----------------------------------------------------------------------------
(* Frames one by one. *)

LEMMA NowType == ASSUME TypeOK, NEW s \in Slots PROVE Now(s) \in CardStates
  BY DEF TypeOK, Now, Blank, CardStates

LEMMA AfterType ==
  ASSUME NEW s \in Slots, NEW c \in CardStates, NEW f \in Frames PROVE After(s, c, f) \in CardStates
<1>1. Switching(s, c, f) \in CardStates
  BY DEF Switching, Blank, CardStates
<1> QED BY <1>1 DEF After, Blank, CardStates

LEMMA LeadsNowhere ==
  ASSUME NEW s, NEW c \in CardStates PROVE Leads(s, c, << >>, c)
<1> DEFINE h == [i \in 1 .. 1 |-> c]
<1>1. Len(<< >>) = 0
  OBVIOUS
<1>2. h \in [1 .. 0 + 1 -> CardStates] /\ h[1] = c /\ h[0 + 1] = c
  OBVIOUS
<1>3. \A i \in 1 .. 0 : h[i + 1] = After(s, h[i], << >>[i])
  OBVIOUS
<1> HIDE DEF h
<1>4. /\ h \in [1 .. Len(<< >>) + 1 -> CardStates] /\ h[1] = c /\ h[Len(<< >>) + 1] = c
      /\ \A i \in 1 .. Len(<< >>) : h[i + 1] = After(s, h[i], << >>[i])
  BY <1>1, <1>2, <1>3
<1> QED BY <1>4 DEF Leads

LEMMA LeadsOn ==
  ASSUME NEW s \in Slots, NEW c, NEW d, NEW q \in Seq(Frames), NEW f \in Frames,
         Leads(s, c, q, d)
  PROVE  Leads(s, c, Append(q, f), After(s, d, f))
<1>1. PICK h \in [1 .. Len(q) + 1 -> CardStates] :
        /\ h[1] = c /\ h[Len(q) + 1] = d
        /\ \A i \in 1 .. Len(q) : h[i + 1] = After(s, h[i], q[i])
  BY DEF Leads
<1> DEFINE p == Append(q, f)
           n == Len(q)
           g == [i \in 1 .. n + 2 |-> IF i = n + 2 THEN After(s, d, f) ELSE h[i]]
<1>2. n \in Nat /\ Len(p) = n + 1 /\ p[n + 1] = f /\ \A i \in 1 .. n : p[i] = q[i]
  OBVIOUS
<1>3. After(s, d, f) \in CardStates
  BY <1>1, <1>2, AfterType
<1>4. g \in [1 .. Len(p) + 1 -> CardStates]
  BY <1>1, <1>2, <1>3
<1>5. g[1] = c /\ g[Len(p) + 1] = After(s, d, f)
  BY <1>1, <1>2
<1>6. ASSUME NEW i \in 1 .. Len(p) PROVE g[i + 1] = After(s, g[i], p[i])
  <2>1. CASE i = n + 1
    BY <2>1, <1>1, <1>2
  <2>2. CASE i # n + 1
    <3>1. i \in 1 .. n
      BY <2>2, <1>2
    <3>2. g[i] = h[i] /\ g[i + 1] = h[i + 1] /\ p[i] = q[i]
      BY <3>1, <1>2
    <3> QED BY <3>1, <3>2, <1>1
  <2> QED BY <2>1, <2>2
<1> HIDE DEF g, p
<1> QED BY <1>4, <1>5, <1>6 DEF Leads, p

(* A full fifo has its last frame overwritten: the way up to it stays. *)
LEMMA LeadsOver ==
  ASSUME NEW s \in Slots, NEW c, NEW d, NEW q \in Seq(Frames), NEW f \in Frames,
         Leads(s, c, q, d), q # << >>
  PROVE  \E e \in CardStates : Leads(s, c, [q EXCEPT ![Len(q)] = f], After(s, e, f))
<1>1. PICK h \in [1 .. Len(q) + 1 -> CardStates] :
        /\ h[1] = c /\ h[Len(q) + 1] = d
        /\ \A i \in 1 .. Len(q) : h[i + 1] = After(s, h[i], q[i])
  BY DEF Leads
<1> DEFINE n == Len(q)
           p == [q EXCEPT ![n] = f]
           e == h[n]
           g == [h EXCEPT ![n + 1] = After(s, e, f)]
<1>2. /\ n \in Nat \ {0} /\ p \in Seq(Frames) /\ Len(p) = n /\ p[n] = f
      /\ \A i \in 1 .. n - 1 : p[i] = q[i]
  <2>1. n \in Nat \ {0} /\ q \in [1 .. n -> Frames]
    OBVIOUS
  <2>2. p \in [1 .. n -> Frames]
    BY <2>1
  <2>3. p \in Seq(Frames) /\ Len(p) = n
    BY <2>1, <2>2
  <2> QED BY <2>1, <2>3
<1>3. e \in CardStates /\ After(s, e, f) \in CardStates
  <2>1. e \in CardStates
    BY <1>1, <1>2
  <2> QED BY <2>1, AfterType
<1>4. g \in [1 .. n + 1 -> CardStates]
  BY <1>1, <1>2, <1>3
<1>5. g[1] = c /\ g[n + 1] = After(s, e, f)
  BY <1>1, <1>2
<1>6. ASSUME NEW i \in 1 .. n PROVE g[i + 1] = After(s, g[i], p[i])
  <2>1. g[i] = h[i]
    BY <1>1, <1>2
  <2>2. CASE i = n
    BY <2>1, <2>2, <1>2, <1>5
  <2>3. CASE i # n
    <3>1. i \in 1 .. n - 1
      BY <2>3, <1>2
    <3>2. g[i + 1] = h[i + 1] /\ p[i] = q[i]
      BY <3>1, <1>1, <1>2
    <3> QED BY <2>1, <3>2, <1>1
  <2> QED BY <2>2, <2>3
<1> HIDE DEF g, p, e
<1>7. Leads(s, c, p, After(s, e, f))
  BY <1>2, <1>4, <1>5, <1>6 DEF Leads
<1> QED BY <1>3, <1>7 DEF p

LEMMA PutLeads ==
  ASSUME NEW s \in Slots, NEW c, NEW d \in CardStates, NEW q \in Seq(Frames), NEW f \in Frames,
         Len(q) <= FifoCap, Leads(s, c, q, d)
  PROVE  \E e \in CardStates : /\ Leads(s, c, Put(q, f), After(s, e, f))
                               /\ Len(q) < FifoCap => e = d
<1>1. CASE Len(q) < FifoCap
  BY <1>1, LeadsOn DEF Put
<1>2. CASE Len(q) = FifoCap
  <2>1. q # << >> /\ Put(q, f) = [q EXCEPT ![Len(q)] = f]
    BY <1>2, IrtBusAssumption DEF Put
  <2>2. PICK e \in CardStates : Leads(s, c, Put(q, f), After(s, e, f))
    <3> DEFINE p == [q EXCEPT ![Len(q)] = f]
    <3>1. \E e \in CardStates : Leads(s, c, p, After(s, e, f))
      BY <2>1, LeadsOver
    <3> HIDE DEF p
    <3>2. Put(q, f) = p
      BY <2>1 DEF p
    <3> QED BY <3>1, <3>2, Zenon
  <2>3. ~ (Len(q) < FifoCap)
    BY <1>2, IrtBusAssumption
  <2> QED BY <2>2, <2>3
<1>3. Len(q) \in Nat /\ FifoCap \in Nat
  BY IrtBusAssumption
<1> QED BY <1>1, <1>2, <1>3

LEMMA LeadsBack ==
  ASSUME NEW s \in Slots, NEW c, NEW d, NEW q \in Seq(Frames), q # << >>, Leads(s, c, q, d)
  PROVE  Leads(s, After(s, c, Head(q)), Tail(q), d)
<1>1. PICK h \in [1 .. Len(q) + 1 -> CardStates] :
        /\ h[1] = c /\ h[Len(q) + 1] = d
        /\ \A i \in 1 .. Len(q) : h[i + 1] = After(s, h[i], q[i])
  BY DEF Leads
<1> DEFINE p == Tail(q)
           n == Len(q)
           g == [i \in 1 .. n |-> h[i + 1]]
<1>2. /\ n \in Nat \ {0} /\ Len(p) + 1 = n /\ Len(p) \in Nat /\ Head(q) = q[1]
      /\ \A i \in 1 .. n - 1 : p[i] = q[i + 1]
  OBVIOUS
<1>3. g \in [1 .. Len(p) + 1 -> CardStates]
  BY <1>1, <1>2
<1>4. g[1] = After(s, c, Head(q)) /\ g[Len(p) + 1] = d
  BY <1>1, <1>2
<1>5. ASSUME NEW i \in 1 .. Len(p) PROVE g[i + 1] = After(s, g[i], p[i])
  <2>1. i + 1 \in 1 .. n /\ i \in 1 .. n /\ p[i] = q[i + 1]
    BY <1>2
  <2>2. g[i] = h[i + 1] /\ g[i + 1] = h[i + 1 + 1]
    BY <2>1
  <2> QED BY <2>1, <2>2, <1>1
<1> HIDE DEF g, p
<1> QED BY <1>3, <1>4, <1>5 DEF Leads, p
-----------------------------------------------------------------------------
(* What irc sends keeps a slot fitting. *)

LEMMA FitsPing ==
  ASSUME NEW s \in Slots, NEW d \in CardStates, NEW w, NEW f, Fits(s, d, w), f.kind = "PING"
  PROVE  Fits(s, After(s, d, f), w)
  BY DEF Fits, After, Blank

LEMMA FitsMode ==
  ASSUME NEW s \in Slots, NEW d \in CardStates
  PROVE  Fits(s, After(s, d, Frame("MODE")), Nobody)
  BY DEF Fits, After, Frame, Blank, Nobody, CardStates

LEMMA FitsDat ==
  ASSUME NEW s \in Slots, NEW d \in CardStates, NEW f \in Switches, Fits(s, d, want),
         want' = [want EXCEPT !.img = Apply(f, @)], TypeOK
  PROVE  Fits(s, After(s, d, Opcodes("DAT", f)), want')
<1>1. /\ want'.img = Apply(f, want.img) /\ want'.stat = want.stat /\ want'.shift = want.shift
  BY DEF TypeOK
<1>2. CASE d.k # "live"
  BY <1>1, <1>2 DEF Fits, After, Opcodes, Blank
<1>3. CASE d.k = "live"
  <2>1. After(s, d, Opcodes("DAT", f)) = Switching(s, d, Opcodes("DAT", f))
    BY <1>3 DEF After, Opcodes
  <2>2. Fits(s, Switching(s, d, Opcodes("DAT", f)), [want EXCEPT !.img = Apply(f, @)])
    <3>1. CASE s \in f.pts /\ f.type = "SEQU"
      BY <3>1 DEF Fits, Switching, Opcodes, Blank
    <3>2. CASE ~ (s \in f.pts /\ f.type = "SEQU")
      <4> DEFINE i == IF s \in f.pts THEN f.type # "OPEN" ELSE d.img
                 c == [k |-> "live", img |-> i, stat |-> d.stat, shift |-> d.shift]
      <4>1. Switching(s, d, Opcodes("DAT", f)) = c
        BY <3>2 DEF Switching, Opcodes
      <4>2. i <=> s \in Apply(f, want.img)
        BY <1>3 DEF Fits, Apply, CardStates
      <4>3. Fits(s, c, want')
        BY <1>1, <1>3, <4>2 DEF Fits
      <4> QED BY <4>1, <4>3
    <3> QED BY <3>1, <3>2
  <2> QED BY <2>1, <2>2
<1> QED BY <1>2, <1>3

LEMMA FitsCmd ==
  ASSUME NEW s \in Slots, NEW d \in CardStates, NEW f \in Switches, NEW w, NEW base,
         Fits(s, d, want),
         w = Apply(f, want.img), base = IF f.type = "SCAN" THEN want.stat ELSE w
  PROVE  Fits(s, After(s, d, Opcodes("CMD", f)), [img |-> base, stat |-> base, shift |-> w])
<1>1. CASE d.k # "live"
  BY <1>1 DEF Fits, After, Opcodes, Blank
<1>2. CASE d.k = "live"
  <2>1. After(s, d, Opcodes("CMD", f)) = Switching(s, d, Opcodes("CMD", f))
    BY <1>2 DEF After, Opcodes
  <2>2. Fits(s, Switching(s, d, Opcodes("CMD", f)), [img |-> base, stat |-> base, shift |-> w])
    BY <1>2 DEF Fits, Switching, Opcodes, Blank, Apply, CardStates
  <2> QED BY <2>1, <2>2
<1> QED BY <1>1, <1>2

LEMMA PreparedNext ==
  Prepared' <=> \A s \in Slots : Ready(s, Now(s)', fifo'[s], s \in synced', want')
  BY DEF Prepared, Ready, Leads, Fits, After, Switching, Blank, Now, On

LEMMA NowKept ==
  ASSUME UNCHANGED <<slot, image>> PROVE \A s \in Slots : Now(s)' = Now(s)
  BY DEF Now, On, slot, image

LEMMA OffFits ==
  ASSUME Sober, NEW s \in Slots, ~On(s), NEW w
  PROVE  /\ fifo[s] = << >> /\ Blank("off") \in CardStates
         /\ Now(s) = Blank("off") /\ Fits(s, Blank("off"), w)
  BY DEF Sober, Now, Blank, CardStates, Fits

(* A frame that reaches slots: those that have room for it go on from what *)
(* they were led to, the others from anything.                             *)
LEMMA DeliverPrepares ==
  ASSUME TypeOK, Sober, Prepared, UNCHANGED <<slot, image>>,
         NEW to, NEW f \in Frames, Deliver(to, f),
         \A s \in Slots, d \in CardStates :
           s \in synced' /\ (s \in synced /\ s \in Hear(to) => Fits(s, d, want))
             => Fits(s, After(s, d, f), want'),
         \A s \in Slots : s \notin to /\ s \in synced' => s \in synced /\ want' = want
  PROVE  Prepared'
<1> SUFFICES ASSUME NEW s \in Slots
             PROVE  Ready(s, Now(s)', fifo'[s], s \in synced', want')
  BY PreparedNext
<1>1. Now(s)' = Now(s)
  BY NowKept
<1>2. CASE ~On(s)
  <2>1. fifo'[s] = << >>
    BY <1>2, OffFits DEF Deliver
  <2>2. /\ Now(s)' = Blank("off") /\ Blank("off") \in CardStates
        /\ Fits(s, Blank("off"), want')
    BY <1>1, <1>2, OffFits
  <2> QED BY <2>1, <2>2, LeadsNowhere DEF Ready
<1>3. PICK d \in CardStates : Leads(s, Now(s), fifo[s], d) /\ (s \in synced => Fits(s, d, want))
  BY DEF Prepared, Ready
<1>4. CASE s \notin to
  BY <1>1, <1>3, <1>4 DEF Deliver, Ready
<1>5. CASE On(s) /\ s \in to
  <2>1. /\ fifo'[s] = Put(fifo[s], f) /\ fifo[s] \in Seq(Frames) /\ Len(fifo[s]) <= FifoCap
    BY <1>5 DEF Deliver, TypeOK
  <2>2. PICK e \in CardStates : /\ Leads(s, Now(s), Put(fifo[s], f), After(s, e, f))
                                /\ Len(fifo[s]) < FifoCap => e = d
    BY <1>3, <2>1, PutLeads
  <2>3. After(s, e, f) \in CardStates
    BY AfterType
  <2>4. s \in Hear(to) => e = d
    BY <1>5, <2>2 DEF Hear
  <2>5. s \in synced' => Fits(s, After(s, e, f), want')
    BY <1>3, <2>4
  <2> QED BY <1>1, <2>1, <2>2, <2>3, <2>5 DEF Ready
<1> QED BY <1>2, <1>4, <1>5

(* Nothing reaches a slot, and nothing is asked of it. *)
LEMMA QuietPrepares ==
  ASSUME Prepared, UNCHANGED <<slot, image, fifo>>,
         \A s \in synced' : s \in synced /\ want' = want
  PROVE  Prepared'
<1>1. \A s \in Slots : Now(s)' = Now(s)
  BY NowKept
<1>2. ASSUME NEW s \in Slots PROVE Ready(s, Now(s)', fifo'[s], s \in synced', want')
  BY <1>1 DEF Prepared, Ready
<1> QED BY <1>2, PreparedNext

LEMMA EmitPrepares ==
  ASSUME LInv, NEW k \in {"DAT", "CMD"}, NEW f \in Switches, NEW sent \in BOOLEAN,
         Emit(k, f, sent),
         \A s \in Slots, d \in CardStates :
           s \in synced' /\ Fits(s, d, want) => Fits(s, After(s, d, Opcodes(k, f)), want')
  PROVE  Prepared'
<1>1. UNCHANGED <<slot, image>> /\ Opcodes(k, f) \in Frames /\ TypeOK /\ Sober /\ Prepared
  BY FramesMade DEF Emit, Kinds, LInv, IInv
<1>2. CASE sent
  <2>1. Deliver(Slots, Opcodes(k, f)) /\ synced' = synced \cap Hear(Slots)
    BY <1>2 DEF Emit, Send
  <2>2. synced' \subseteq Slots
    BY <1>1, <2>1 DEF TypeOK
  <2> QED BY <1>1, <2>1, <2>2, DeliverPrepares
<1>3. CASE ~sent
  <2>1. UNCHANGED fifo /\ synced' = {}
    BY <1>3 DEF Emit, Send
  <2> QED BY <1>1, <2>1, QuietPrepares
<1> QED BY <1>2, <1>3

LEMMA IrcPrepares ==
  ASSUME LInv, Irc PROVE Prepared'
<1>0. TypeOK /\ Sober /\ Prepared /\ synced \subseteq Slots
  BY DEF LInv, IInv, TypeOK
<1>1. CASE Boot \/ SlotError \/ Cls \/ Latch
  <2>1. UNCHANGED <<slot, image, fifo, synced, want>>
    BY <1>1 DEF Boot, SlotError, Cls, Latch, Resume, Rise, Fall, GiveUp, wire
  <2> QED BY <1>0, <2>1, QuietPrepares
<1>2. CASE ResetAll \/ Rst
  <2>1. /\ UNCHANGED <<slot, image>> /\ synced' = {}
        /\ \E sent \in BOOLEAN : Send(Slots, Frame("RESET"), sent)
    BY <1>2 DEF ResetAll, Rst, LInv, Tuned
  <2>2. UNCHANGED fifo \/ Deliver(Slots, Frame("RESET"))
    BY <2>1 DEF Send
  <2>3. Frame("RESET") \in Frames
    BY FramesMade DEF Kinds
  <2> QED BY <1>0, <2>1, <2>2, <2>3, QuietPrepares, DeliverPrepares
<1>3. CASE Poll
  <2> DEFINE f == Frame(IF ping THEN "PING" ELSE "OFFLINE")
  <2>1. PICK q \in Slots, sent \in BOOLEAN :
          /\ Send({q}, f, sent)
          /\ synced' = IF sent THEN synced \cap Hear({q}) ELSE synced
    BY <1>3 DEF Poll
  <2>2. UNCHANGED <<slot, image, want>> /\ f \in Frames
    BY <1>3, FramesMade DEF Poll, Kinds
  <2>3. CASE sent
    <3>1. Deliver({q}, f) /\ synced' = synced \cap Hear({q})
      BY <2>1, <2>3 DEF Send
    <3>2. synced' # {} => f.kind = "PING"
      BY <3>1 DEF LInv, Tuned, Frame
    <3>3. \A s \in Slots, d \in CardStates :
            s \in synced' /\ (s \in synced /\ s \in Hear({q}) => Fits(s, d, want))
              => Fits(s, After(s, d, f), want')
      BY <2>2, <3>1, <3>2, FitsPing
    <3> HIDE DEF f
    <3> QED BY <1>0, <2>2, <3>1, <3>3, DeliverPrepares
  <2>4. CASE ~sent
    <3>1. UNCHANGED <<fifo, synced>>
      BY <2>1, <2>4 DEF Send
    <3> QED BY <1>0, <2>2, <3>1, QuietPrepares
  <2> QED BY <2>3, <2>4
<1>4. CASE SendLate
  <2>1. PICK m \in tx : Deliver(m.to, m.frame) /\ synced' = synced \cap Hear(m.to)
    BY <1>4 DEF SendLate
  <2>2. UNCHANGED <<slot, image, want>> /\ m.frame \in Frames
    BY <1>0, <1>4 DEF SendLate, TypeOK
  <2>3. synced' # {} => m.frame.kind = "PING"
    BY <2>1 DEF LInv, Tuned
  <2>4. \A s \in Slots, d \in CardStates :
          s \in synced' /\ (s \in synced /\ s \in Hear(m.to) => Fits(s, d, want))
            => Fits(s, After(s, d, m.frame), want')
    BY <2>1, <2>2, <2>3, FitsPing
  <2> QED BY <1>0, <2>1, <2>2, <2>4, DeliverPrepares
<1>5. CASE Mode
  <2>1. PICK sent \in BOOLEAN : /\ Send(Slots, Frame("MODE"), sent)
                                /\ synced' = IF sent THEN Slots ELSE {}
    BY <1>5 DEF Mode
  <2>2. UNCHANGED <<slot, image>> /\ want' = Nobody /\ Frame("MODE") \in Frames
    BY <1>5, FramesMade DEF Mode, Kinds
  <2>3. CASE sent
    <3>1. Deliver(Slots, Frame("MODE"))
      BY <2>1, <2>3 DEF Send
    <3>2. \A s \in Slots, d \in CardStates : Fits(s, After(s, d, Frame("MODE")), want')
      BY <2>2, FitsMode
    <3> QED BY <1>0, <2>2, <3>1, <3>2, DeliverPrepares
  <2>4. CASE ~sent
    <3>1. UNCHANGED fifo /\ synced' = {}
      BY <2>1, <2>4 DEF Send
    <3> QED BY <1>0, <2>2, <3>1, QuietPrepares
  <2> QED BY <2>3, <2>4
<1>6. CASE Dat
  <2>1. PICK f \in Switches, sent \in BOOLEAN :
          Emit("DAT", f, sent) /\ Ask([want EXCEPT !.img = Apply(f, @)])
    BY <1>6 DEF Dat
  <2>2. \A s \in Slots, d \in CardStates :
          s \in synced' /\ Fits(s, d, want) => Fits(s, After(s, d, Opcodes("DAT", f)), want')
    BY <1>0, <2>1, FitsDat DEF Ask
  <2> QED BY <2>1, <2>2, EmitPrepares
<1>7. CASE Cmd
  <2>1. PICK f \in Switches, sent \in BOOLEAN :
          /\ Emit("CMD", f, sent)
          /\ LET w == Apply(f, want.img)
                 base == IF f.type = "SCAN" THEN want.stat ELSE w
             IN Ask([img |-> base, stat |-> base, shift |-> w])
    BY <1>7 DEF Cmd
  <2>2. \A s \in Slots, d \in CardStates :
          s \in synced' /\ Fits(s, d, want) => Fits(s, After(s, d, Opcodes("CMD", f)), want')
    BY <2>1, FitsCmd DEF Ask
  <2> QED BY <2>1, <2>2, EmitPrepares
<1> QED BY <1>1, <1>2, <1>3, <1>4, <1>5, <1>6, <1>7 DEF Irc

-----------------------------------------------------------------------------
(* A step of a slot takes a frame off, or starts the slot over. *)

Started(s) == fifo'[s] = << >> /\ Now(s)' \in {Blank("off"), Blank("init")}
Stayed(s) == fifo'[s] = fifo[s] /\ Now(s)' = Now(s)
Took(s) ==
  /\ fifo[s] # << >> /\ fifo'[s] = Tail(fifo[s])
  /\ Now(s)' = After(s, Now(s), Head(fifo[s]))

LEMMA ModeTakes ==
  ASSUME TypeOK, Sober, NEW s \in Slots, OnMode(s) PROVE Took(s)
<1> DEFINE f == Head(fifo[s])
<1>1. On(s) /\ fifo[s] # << >> /\ fifo'[s] = Tail(fifo[s]) /\ f.kind = "MODE"
  BY TookFrame DEF OnMode
<1>2. CASE st[s] \in {"READY", "LOST", "OFFLINE"}
  <2>1. st'[s] = "READY" /\ err'[s] = err[s] /\ ~img'[s] /\ ~stat'[s] /\ ~shift'[s]
    BY <1>2 DEF OnMode, TypeOK
  <2>2. Now(s)' = IF err[s] THEN Blank("dead") ELSE Blank("live")
    BY <2>1 DEF Now, Blank, OnMode, Drive, TypeOK, On
  <2> QED BY <1>1, <1>2, <2>2 DEF Took, After, Now, Blank, On
<1>3. CASE st[s] \notin {"READY", "LOST", "OFFLINE"}
  <2>1. Now(s)' = Now(s)
    BY <1>3, NowKept DEF OnMode, Now, image, On
  <2> QED BY <1>1, <1>3, <2>1 DEF Took, After, Now, Blank, Sober, AtWork, TypeOK, On
<1> QED BY <1>2, <1>3

LEMMA PingTakes ==
  ASSUME TypeOK, Sober, NEW s \in Slots, OnPing(s) PROVE Took(s)
<1> DEFINE f == Head(fifo[s])
<1>1. On(s) /\ fifo[s] # << >> /\ fifo'[s] = Tail(fifo[s]) /\ f.kind = "PING"
  BY TookFrame DEF OnPing
<1>2. Now(s)' = Now(s)
  BY DEF OnPing, Now, image, TypeOK, On
<1> QED BY <1>1, <1>2 DEF Took, After, Now, Blank, On

LEMMA OfflineTakes ==
  ASSUME TypeOK, Sober, NEW s \in Slots, OnOffline(s) PROVE Took(s)
<1> DEFINE f == Head(fifo[s])
<1>1. On(s) /\ fifo[s] # << >> /\ fifo'[s] = Tail(fifo[s]) /\ f.kind = "OFFLINE"
  BY TookFrame DEF OnOffline
<1>2. CASE st[s] = "INIT"
  <2>0. /\ st' = [st EXCEPT ![s] = "OFFLINE"] /\ err' = [err EXCEPT ![s] = FALSE]
        /\ st \in [Slots -> States] /\ err \in [Slots -> BOOLEAN]
    BY <1>2 DEF OnOffline, TypeOK, States
  <2>1. st'[s] = "OFFLINE" /\ ~err'[s] /\ ~err[s]
    BY <1>2, <2>0 DEF Sober, AtWork
  <2>2. Now(s) = Blank("init") /\ Now(s)' = Blank("offline")
    BY <1>2, <2>1 DEF Now, Blank, On
  <2>3. After(s, Blank("init"), f) = Blank("offline")
    BY <1>1 DEF After, Blank
  <2> QED BY <1>1, <2>2, <2>3 DEF Took
<1>3. CASE st[s] # "INIT"
  <2>1. Now(s)' = Now(s)
    BY <1>3 DEF OnOffline, Now, image, On
  <2> QED BY <1>1, <1>3, <2>1 DEF Took, After, Now, Blank, On
<1> QED BY <1>2, <1>3

LEMMA SwitchTakes ==
  ASSUME TypeOK, Sober, NEW s \in Slots, OnSwitch(s) PROVE Took(s)
<1> DEFINE f == Head(fifo[s])
           mine == s \in f.pts
           i == IF mine /\ f.type # "SEQU" THEN f.type # "OPEN" ELSE img[s]
           cmd == f.kind = "CMD"
           scan == f.type = "SCAN"
<1>1. /\ On(s) /\ fifo[s] # << >> /\ fifo'[s] = Tail(fifo[s])
      /\ f \in Frames /\ f.kind \in {"DAT", "CMD"}
  BY TookFrame DEF OnSwitch
<1>2. CASE st[s] \notin {"READY", "LOST"}
  <2>1. Now(s)' = Now(s)
    BY <1>2 DEF OnSwitch, Now, image, On
  <2>2. Now(s).k # "live"
    BY <1>2 DEF Now, Blank, Sober, TypeOK, On
  <2> QED BY <1>1, <2>1, <2>2 DEF Took, After, Now, Blank, On
<1>3. CASE st[s] \in {"READY", "LOST"}
  <2>1. /\ img'[s] = (IF cmd /\ scan THEN stat[s] ELSE i)
        /\ stat'[s] = (IF cmd /\ ~scan THEN i ELSE stat[s])
        /\ shift'[s] = (IF cmd THEN i ELSE shift[s])
    BY <1>3 DEF OnSwitch, TypeOK
  <2>2. CASE err[s]
    <3>1. err'[s] /\ st'[s] = st[s]
      BY <1>3, <2>2 DEF OnSwitch, Fault, TypeOK
    <3> QED BY <1>1, <1>3, <2>2, <3>1 DEF Took, After, Now, Blank, On
  <2>3. CASE ~err[s] /\ mine /\ f.type = "SEQU"
    <3>1. err'[s] /\ st'[s] = "ERROR"
      BY <1>3, <2>3 DEF OnSwitch, Fault, TypeOK
    <3>2. Now(s)' = Blank("dead") /\ Now(s).k = "live"
      BY <1>3, <2>3, <3>1 DEF Now, On
    <3>3. After(s, Now(s), f) = Blank("dead")
      BY <1>1, <2>3, <3>2 DEF After, Switching
    <3> QED BY <1>1, <3>2, <3>3 DEF Took
  <2>4. CASE ~err[s] /\ ~ (mine /\ f.type = "SEQU")
    <3>1. err'[s] = err[s] /\ st'[s] = st[s]
      BY <1>3, <2>4 DEF OnSwitch
    <3>2. /\ Now(s) = [k |-> "live", img |-> img[s], stat |-> stat[s], shift |-> shift[s]]
          /\ Now(s)' = [k |-> "live", img |-> img'[s], stat |-> stat'[s], shift |-> shift'[s]]
      BY <1>3, <2>4, <3>1 DEF Now, On
    <3>3. After(s, Now(s), f) = Switching(s, Now(s), f)
      BY <1>1, <3>2 DEF After
    <3>4. i = IF mine THEN f.type # "OPEN" ELSE Now(s).img
      BY <2>4, <3>2
    <3>5. Switching(s, Now(s), f) = Now(s)'
      <4>1. CASE ~cmd
        BY <1>1, <2>1, <2>4, <3>2, <3>4, <4>1 DEF Switching
      <4>2. CASE cmd /\ scan
        BY <2>1, <2>4, <3>2, <3>4, <4>2 DEF Switching
      <4>3. CASE cmd /\ ~scan
        BY <2>1, <2>4, <3>2, <3>4, <4>3 DEF Switching
      <4> QED BY <4>1, <4>2, <4>3
    <3> QED BY <1>1, <3>3, <3>5 DEF Took
  <2> QED BY <2>2, <2>3, <2>4
<1> QED BY <1>2, <1>3

LEMMA StepOfSlot ==
  ASSUME TypeOK, Sober, NEW s \in Slots, Card(s) PROVE Started(s) \/ Stayed(s) \/ Took(s)
<1>1. CASE PowerUp(s)
  <2>1. st'[s] = "INIT" /\ ~err'[s] /\ fifo'[s] = << >>
    BY <1>1 DEF PowerUp, On, Sober, AtWork, TypeOK, wire
  <2> QED BY <2>1 DEF Started, Now, On
<1>2. CASE PowerDown(s) \/ OnReset(s)
  <2>1. ~On(s)' /\ fifo'[s] = << >>
    BY <1>2 DEF PowerDown, OnReset, Stop, On, TypeOK
  <2> QED BY <2>1 DEF Started, Now, On
<1>3. CASE OnMode(s) \/ OnPing(s) \/ OnOffline(s) \/ OnSwitch(s)
  BY <1>3, ModeTakes, PingTakes, OfflineTakes, SwitchTakes
<1>4. CASE CheckLost(s)
  BY <1>4, NowKept DEF CheckLost, Stayed, Now, image, wire, On
<1>5. CASE SetLost(s)
  <2>1. st[s] \in AtWork /\ st'[s] = "LOST" /\ UNCHANGED <<err, image, fifo>>
    BY <1>5 DEF SetLost, Sober, TypeOK, wire
  <2>2. CASE err[s]
    BY <2>1, <2>2 DEF Stayed, Now, AtWork, On
  <2>3. CASE ~err[s]
    BY <2>1, <2>3 DEF Stayed, Now, AtWork, Sober, image, On
  <2> QED BY <2>2, <2>3
<1> QED BY <1>1, <1>2, <1>3, <1>4, <1>5 DEF Card, Interrupt

LEMMA OthersStay ==
  ASSUME TypeOK, NEW s \in Slots, Card(s), NEW t \in Slots \ {s}
  PROVE  Stayed(t) /\ synced' = synced /\ want' = want
<1> USE DEF Stayed, Now, TypeOK, wire, image, On
<1>1. CASE PowerUp(s)
  <2>1. shift'[t] = shift[t]
    BY <1>1 DEF PowerUp, Found
  <2> QED BY <1>1, <2>1 DEF PowerUp
<1>2. CASE PowerDown(s)
  BY <1>2 DEF PowerDown, Stop
<1>3. CASE OnReset(s)
  BY <1>3 DEF OnReset, Take, Stop
<1>4. CASE OnMode(s)
  BY <1>4 DEF OnMode, Take, Rest
<1>5. CASE OnPing(s)
  BY <1>5 DEF OnPing, Take, Rest
<1>6. CASE OnOffline(s)
  BY <1>6 DEF OnOffline, Take, Rest
<1>7. CASE OnSwitch(s)
  <2>1. /\ fifo'[t] = fifo[t] /\ synced' = synced /\ want' = want
        /\ st'[t] = st[t] /\ err'[t] = err[t]
    BY <1>7 DEF OnSwitch, Take, Rest, Fault
  <2>2. img'[t] = img[t] /\ stat'[t] = stat[t] /\ shift'[t] = shift[t]
    BY <1>7 DEF OnSwitch
  <2> QED BY <2>1, <2>2
<1>8. CASE CheckLost(s) \/ SetLost(s)
  BY <1>8 DEF CheckLost, SetLost
<1> QED BY <1>1, <1>2, <1>3, <1>4, <1>5, <1>6, <1>7, <1>8 DEF Card, Interrupt

LEMMA Unready ==
  ASSUME NEW s, NEW k \in {"off", "init"}, NEW w
  PROVE  Blank(k) \in CardStates /\ Fits(s, Blank(k), w)
  BY DEF Blank, CardStates, Fits

LEMMA CardPrepares ==
  ASSUME TypeOK, Sober, Prepared, NEW s \in Slots, Card(s) PROVE Prepared'
<1> SUFFICES ASSUME NEW t \in Slots PROVE Ready(t, Now(t)', fifo'[t], t \in synced', want')
  BY PreparedNext
<1>1. synced' = synced /\ want' = want
  BY DEF Card, Interrupt, PowerUp, PowerDown, OnReset, OnMode, OnPing, OnOffline, OnSwitch,
         CheckLost, SetLost, Take, wire
<1>2. PICK d \in CardStates : Leads(t, Now(t), fifo[t], d) /\ (t \in synced => Fits(t, d, want))
  BY DEF Prepared, Ready
<1>3. CASE Stayed(t)
  BY <1>1, <1>2, <1>3 DEF Stayed, Ready
<1>4. CASE Started(t)
  BY <1>4, Unready, LeadsNowhere DEF Started, Ready
<1>5. CASE Took(t)
  <2>1. fifo[t] \in Seq(Frames)
    BY DEF TypeOK
  <2>2. Leads(t, Now(t)', fifo'[t], d)
    BY <1>2, <1>5, <2>1, LeadsBack DEF Took
  <2> QED BY <1>1, <1>2, <2>2 DEF Ready
<1> QED BY <1>3, <1>4, <1>5, StepOfSlot, OthersStay

-----------------------------------------------------------------------------
(* What irc counts on. *)
LEMMA TunedNext == ASSUME TypeOK, Tuned, [Next]_vars PROVE Tuned'
<1>0. phase \in {"boot", "booted", "run", "held", "mode", "cmd", "fall"}
  BY DEF TypeOK
<1>1. CASE Boot \/ SlotError \/ Cls \/ Latch
  BY <1>1 DEF Tuned, Boot, SlotError, Cls, Latch, Resume, Rise, Fall, GiveUp, wire
<1>2. CASE ResetAll \/ Rst
  BY <1>2 DEF Tuned, ResetAll, Rst
<1>3. CASE Poll
  <2>1. PICK q \in Slots, sent \in BOOLEAN :
          /\ Send({q}, Frame(IF ping THEN "PING" ELSE "OFFLINE"), sent)
          /\ synced' = IF sent THEN synced \cap Hear({q}) ELSE synced
    BY <1>3 DEF Poll
  <2>2. phase' = phase /\ ping' = ping /\ synced' \subseteq synced
    BY <1>3, <2>1 DEF Poll
  <2>3. ping => \A m \in tx' : m.frame.kind = "PING"
    BY <2>1 DEF Send, Frame
  <2> QED BY <2>2, <2>3 DEF Tuned
<1>4. CASE SendLate
  <2>1. tx' = {} /\ UNCHANGED irc /\ synced' \subseteq synced
    BY <1>4 DEF SendLate
  <2> QED BY <2>1 DEF Tuned, irc
<1>5. CASE Mode
  <2>1. /\ ping' = TRUE /\ phase' \in {"mode", "run"}
        /\ \/ tx' = {}
           \/ synced' = {}
    BY <1>5 DEF Mode, Send
  <2> QED BY <2>1 DEF Tuned
<1>6. CASE Dat \/ Cmd
  <2>1. PICK k \in {"DAT", "CMD"}, f \in Switches, sent \in BOOLEAN : Emit(k, f, sent)
    BY <1>6 DEF Dat, Cmd
  <2>2. ping' = ping /\ synced' \subseteq synced /\ (tx' = {} \/ synced' = {})
    BY <2>1 DEF Emit, Send
  <2>3. phase' \notin {"boot", "booted"}
    BY <1>6 DEF Dat, Cmd, Emit, Idle
  <2> QED BY <2>2, <2>3 DEF Tuned
<1>7. CASE \E s \in Slots : Card(s)
  BY <1>7 DEF Tuned, Card, Interrupt, PowerUp, PowerDown, OnReset, OnMode, OnPing, OnOffline,
              OnSwitch, CheckLost, SetLost, Take, irc, wire
<1>8. CASE UNCHANGED vars
  BY <1>8 DEF Tuned, vars, irc, wire
<1> QED BY <1>1, <1>2, <1>3, <1>4, <1>5, <1>6, <1>7, <1>8 DEF Next, Irc

(* Where the wiring is not looked at nothing changes that it depends on. *)
Follows == Line' => \A s \in Slots : On(s)' => latch'[s] = shift'[s]
Kept == UNCHANGED <<le, locked, shift, latch>> /\ \A s \in Slots : On(s)' <=> On(s)

LEMMA DriveFollows == ASSUME Drive, TypeOK' PROVE Follows
  BY DEF Drive, Follows, TypeOK

LEMMA FollowsOrKept ==
  ASSUME TypeOK, TypeOK', Sober, [Next]_vars PROVE Follows \/ Kept
<1>1. CASE Irc
  <2>1. Drive \/ UNCHANGED <<le, slot, image, latch>>
    BY <1>1 DEF Irc, Latch, Boot, ResetAll, Rst, SlotError, Cls, Poll, SendLate, Mode, Emit,
                Dat, Cmd, Resume, Rise, Fall, GiveUp, irc
  <2> QED BY <2>1, DriveFollows DEF Kept, On, slot, image
<1>2. ASSUME NEW s \in Slots, Card(s) PROVE Follows \/ Kept
  <2>1. CASE OnPing(s)
    <3>1. UNCHANGED <<le, locked, shift, latch>>
      BY <2>1 DEF OnPing, Take, irc, image
    <3>2. st' = [st EXCEPT ![s] = IF @ = "LOST" THEN "READY" ELSE @]
      BY <2>1 DEF OnPing
    <3> QED BY <3>1, <3>2 DEF Kept, On, TypeOK
  <2>2. CASE CheckLost(s)
    BY <2>2 DEF CheckLost, Kept, On, irc, image
  <2>3. CASE SetLost(s)
    <3>1. UNCHANGED <<le, locked, shift, latch>> /\ st' = [st EXCEPT ![s] = "LOST"]
      BY <2>3 DEF SetLost, irc, image
    <3>2. On(s)
      BY <2>3 DEF SetLost, Sober, AtWork, On
    <3> QED BY <3>1, <3>2 DEF Kept, On, TypeOK
  <2>4. CASE PowerUp(s)
    BY <2>4 DEF PowerUp, Found, Follows
  <2> QED BY <1>2, <2>1, <2>2, <2>3, <2>4, DriveFollows
          DEF Card, Interrupt, PowerDown, OnReset, OnMode, OnOffline, OnSwitch
<1>3. CASE UNCHANGED vars
  BY <1>3 DEF Kept, On, vars, irc, slot, image
<1> QED BY <1>1, <1>2, <1>3 DEF Next

LEMMA StaysShown ==
  ASSUME TypeOK, TypeOK', Sober, Shown, [Next]_vars PROVE Shown'
<1>1. CASE Follows
  BY <1>1 DEF Follows, Shown
<1>2. CASE Kept
  <2>1. Line' <=> Line
    BY <1>2 DEF Kept, Line
  <2> QED BY <1>2, <2>1 DEF Kept, Shown
<1> QED BY <1>1, <1>2, FollowsOrKept

LEMMA InitLInv == Init => LInv
<1> SUFFICES ASSUME Init PROVE LInv
  OBVIOUS
<1>1. Shown /\ Tuned
  BY DEF Init, Shown, Line, Tuned
<1>2. ASSUME NEW s \in Slots PROVE Ready(s, Now(s), fifo[s], s \in synced, want)
  <2>1. Now(s) = Blank("off") /\ fifo[s] = << >>
    BY DEF Init, Now, On
  <2> QED BY <2>1, Unready, LeadsNowhere DEF Ready
<1> QED BY <1>1, <1>2, InitIInv DEF LInv, Prepared

LEMMA NextLInv == LInv /\ [Next]_vars => LInv'
<1> SUFFICES ASSUME LInv, [Next]_vars PROVE LInv'
  OBVIOUS
<1>1. IInv' /\ TypeOK /\ TypeOK' /\ Sober /\ Shown /\ Prepared /\ Tuned
  BY NextIInv DEF LInv, IInv
<1>2. Shown' /\ Tuned'
  BY <1>1, StaysShown, TunedNext
<1>3. Prepared'
  <2>1. CASE Irc
    BY <2>1, IrcPrepares
  <2>2. CASE \E s \in Slots : Card(s)
    BY <1>1, <2>2, CardPrepares
  <2>3. CASE UNCHANGED vars
    BY <1>1, <2>3, QuietPrepares DEF vars, slot, wire
  <2> QED BY <2>1, <2>2, <2>3 DEF Next
<1> QED BY <1>1, <1>2, <1>3 DEF LInv

-----------------------------------------------------------------------------
(* The frames in the fifo of every slot that missed none lead it to what   *)
(* the commands asked for, whatever slots are plugged in or out, lost,     *)
(* reset or in error, and whatever frames the others missed.               *)
THEOREM LatchInductive == Spec => []LInv
<1> QED BY InitLInv, NextLInv, PTL DEF Spec

LEMMA Latched == LInv => LatchFaithful
<1> SUFFICES ASSUME LInv, Line, Drained, NEW s \in synced, On(s)
             PROVE  Closed(s) <=> s \in want.shift
  BY DEF LatchFaithful
<1>0. s \in Slots /\ latch[s] \in BOOLEAN
  BY DEF LInv, IInv, TypeOK
<1>1. latch[s] = shift[s] /\ ~err[s] /\ st[s] # "INIT"
  BY <1>0 DEF LInv, IInv, HoldsLe, Shown, Line
<1>2. PICK d \in CardStates : Leads(s, Now(s), fifo[s], d) /\ Fits(s, d, want)
  BY <1>0 DEF LInv, Prepared, Ready
<1>3. d = Now(s)
  BY <1>0, <1>2 DEF Leads, Drained
<1>4. st[s] # "OFFLINE"
  BY <1>1, <1>2, <1>3 DEF Now, Blank, Fits
<1>5. oe[s]
  <2>1. st[s] \in {"READY", "LOST"}
    BY <1>0, <1>1, <1>4 DEF On, LInv, IInv, TypeOK, Sober
  <2> QED BY <1>0, <2>1 DEF LInv, IInv, TypeOK
<1>6. Now(s).k = "live" /\ Now(s).shift = shift[s]
  BY <1>1, <1>4 DEF Now
<1>7. shift[s] <=> s \in want.shift
  BY <1>2, <1>3, <1>6 DEF Fits
<1> QED BY <1>0, <1>1, <1>5, <1>7 DEF Closed

(* A latch of mxc.c that ends with the line high leaves every slot that    *)
(* missed no frame since the last MODE with the relays that MODE and the   *)
(* frames since then asked for, though irc_send may fail, frames may come  *)
(* late and other slots may lose theirs.                                   *)
THEOREM LatchesFaithfully == Spec => []LatchFaithful
  BY LatchInductive, Latched, PTL

-----------------------------------------------------------------------------
(* The opcodes of a frame on the cards: theorems about SlotSwitch, for any *)
(* cards, lines, buses and types of operations that SlotSwitch allows.     *)

(* A range of a full scan is taken along one bus by the cards: excluded    *)
(* where the relays must be exact.                                         *)
NoScanRanges == "FSCN" \notin RangeTypes

(* Sequences of two and of three. *)
LEMMA SamePair ==
  ASSUME NEW S, NEW s \in Seq(S), NEW t \in Seq(S), Len(s) = 2, Len(t) = 2,
         s[1] = t[1], s[2] = t[2]
  PROVE  s = t
  OBVIOUS

LEMMA CatPair ==
  ASSUME NEW S, NEW x \in S, NEW y \in S
  PROVE  <<x>> \o << >> = <<x>> /\ <<x>> \o <<y>> = <<x, y>>
<1>1. <<x>> \o << >> = <<x>>
  OBVIOUS
<1>2. <<x>> \o <<y>> = <<x, y>>
  <2> DEFINE s == <<x>> \o <<y>>
             t == <<x, y>>
  <2>1. s \in Seq(S) /\ Len(s) = 2 /\ s[1] = x /\ s[2] = y
    OBVIOUS
  <2>2. t \in Seq(S) /\ Len(t) = 2 /\ t[1] = x /\ t[2] = y
    OBVIOUS
  <2> HIDE DEF s, t
  <2>3. s = t
    BY <2>1, <2>2, SamePair
  <2> QED BY <2>3 DEF s, t
<1> QED BY <1>1, <1>2

LEMMA CatOfTwo ==
  ASSUME NEW x, NEW y PROVE <<x>> \o << >> = <<x>> /\ <<x>> \o <<y>> = <<x, y>>
<1>1. x \in {x, y} /\ y \in {x, y}
  OBVIOUS
<1> QED BY <1>1, CatPair

LEMMA SameTriple ==
  ASSUME NEW S, NEW s \in Seq(S), NEW t \in Seq(S), Len(s) = 3, Len(t) = 3,
         s[1] = t[1], s[2] = t[2], s[3] = t[3]
  PROVE  s = t
  OBVIOUS

LEMMA CatTriple ==
  ASSUME NEW x, NEW y, NEW z PROVE <<x, y>> \o <<z>> = <<x, y, z>>
<1> DEFINE S == {x, y, z}
<1>1. x \in S /\ y \in S /\ z \in S
  OBVIOUS
<1> HIDE DEF S
<1> DEFINE s == <<x, y>> \o <<z>>
           t == <<x, y, z>>
<1>2. s \in Seq(S) /\ Len(s) = 3 /\ s[1] = x /\ s[2] = y /\ s[3] = z
  BY <1>1
<1>3. t \in Seq(S) /\ Len(t) = 3 /\ t[1] = x /\ t[2] = y /\ t[3] = z
  BY <1>1
<1> HIDE DEF s, t
<1>4. s = t
  BY <1>2, <1>3, SameTriple
<1> QED BY <1>4 DEF s, t

(* A SEQU takes the next opcode for its target; the recursion of Targets    *)
(* is unfolded, from a function that solves it.                            *)
LEMMA TargetsOfRange ==
  ASSUME NEW a, NEW b, NEW d, a.type = "SEQU", d.type # "SEQU"
  PROVE  Targets(<<a, b, d>>) = <<<<a, b>>, <<d, d>>>>
<1> DEFINE s == <<a, b, d>>
           G(f) == [i \in 1 .. Len(s) + 2 |->
                      IF i > Len(s) THEN << >>
                      ELSE IF s[i].type # "SEQU" THEN <<<<s[i], s[i]>>>> \o f[i + 1]
                      ELSE IF i < Len(s) THEN <<<<s[i], s[i + 1]>>>> \o f[i + 2]
                      ELSE << >>]
           t == <<<<d, d>>>> \o << >>
           u == <<<<a, b>>>> \o t
           m == IF b.type # "SEQU" THEN <<<<b, b>>>> \o t ELSE <<<<b, d>>>> \o << >>
           h == [i \in 1 .. 5 |-> IF i = 1 THEN u ELSE IF i = 2 THEN m
                                  ELSE IF i = 3 THEN t ELSE << >>]
           f == CHOOSE g : g = G(g)
<1>1. Len(s) = 3 /\ s[1] = a /\ s[2] = b /\ s[3] = d
  OBVIOUS
<1>2. Targets(s) = f[1]
  BY DEF Targets
<1>3. t = <<<<d, d>>>> /\ u = <<<<a, b>>, <<d, d>>>>
  BY CatOfTwo
<1> HIDE DEF s, t, u, m
<1>4. \A g : G(g) = [i \in 1 .. 5 |->
                  IF i > 3 THEN << >>
                  ELSE IF s[i].type # "SEQU" THEN <<<<s[i], s[i]>>>> \o g[i + 1]
                  ELSE IF i < 3 THEN <<<<s[i], s[i + 1]>>>> \o g[i + 2]
                  ELSE << >>]
  BY <1>1
<1>5. h = G(h)
  <2>1. h[1] = u /\ h[2] = m /\ h[3] = t /\ h[4] = << >> /\ h[5] = << >>
    OBVIOUS
  <2>2. h = [i \in 1 .. 5 |-> h[i]]
    OBVIOUS
  <2> HIDE DEF h
  <2>3. \A i \in 1 .. 5 : i = 1 \/ i = 2 \/ i = 3 \/ i = 4 \/ i = 5
    OBVIOUS
  <2>4. \A i \in 1 .. 5 :
          h[i] = IF i > 3 THEN << >>
                 ELSE IF s[i].type # "SEQU" THEN <<<<s[i], s[i]>>>> \o h[i + 1]
                 ELSE IF i < 3 THEN <<<<s[i], s[i + 1]>>>> \o h[i + 2]
                 ELSE << >>
    <3>1. h[1] = <<<<s[1], s[2]>>>> \o h[3] /\ h[3] = <<<<s[3], s[3]>>>> \o h[4]
      BY <1>1, <2>1 DEF t, u
    <3>2. h[2] = IF s[2].type # "SEQU" THEN <<<<s[2], s[2]>>>> \o h[3]
                                       ELSE <<<<s[2], s[3]>>>> \o h[4]
      BY <1>1, <2>1 DEF m
    <3>3. /\ 1 + 2 = 3 /\ 3 + 1 = 4 /\ 2 + 1 = 3 /\ 2 + 2 = 4 /\ 1 + 1 = 2
          /\ ~(1 > 3) /\ ~(2 > 3) /\ ~(3 > 3) /\ 4 > 3 /\ 5 > 3 /\ 1 < 3 /\ 2 < 3
      OBVIOUS
    <3> QED BY <1>1, <2>1, <2>3, <3>1, <3>2, <3>3
  <2> HIDE DEF G
  <2> QED BY <1>4, <2>2, <2>4
<1>6. f = G(f)
  <2>1. \E g : g = G(g)
    BY <1>5
  <2> HIDE DEF h, G
  <2> QED BY <2>1
<1> HIDE DEF f, h
<1> HIDE DEF G
<1>7. \A i \in 1 .. 5 :
        f[i] = IF i > 3 THEN << >>
               ELSE IF s[i].type # "SEQU" THEN <<<<s[i], s[i]>>>> \o f[i + 1]
               ELSE IF i < 3 THEN <<<<s[i], s[i + 1]>>>> \o f[i + 2]
               ELSE << >>
  BY <1>4, <1>6
<1>8. f[1] = <<<<a, b>>>> \o f[3]
  <2>1. 1 \in 1 .. 5 /\ ~(1 > 3) /\ 1 < 3 /\ 1 + 1 = 2 /\ 1 + 2 = 3
    OBVIOUS
  <2> QED BY <1>1, <1>7, <2>1
<1>9. f[3] = <<<<d, d>>>> \o f[4]
  <2>1. 3 \in 1 .. 5 /\ ~(3 > 3) /\ 3 + 1 = 4
    OBVIOUS
  <2> QED BY <1>1, <1>7, <2>1
<1>10. f[4] = << >>
  BY <1>7
<1> QED BY <1>2, <1>3, <1>8, <1>9, <1>10 DEF s, t, u

LEMMA TargetsOfPoint ==
  ASSUME NEW a, NEW d, a.type # "SEQU", d.type # "SEQU"
  PROVE  Targets(<<a, d>>) = <<<<a, a>>, <<d, d>>>>
<1> DEFINE s == <<a, d>>
           G(f) == [i \in 1 .. Len(s) + 2 |->
                      IF i > Len(s) THEN << >>
                      ELSE IF s[i].type # "SEQU" THEN <<<<s[i], s[i]>>>> \o f[i + 1]
                      ELSE IF i < Len(s) THEN <<<<s[i], s[i + 1]>>>> \o f[i + 2]
                      ELSE << >>]
           t == <<<<d, d>>>> \o << >>
           u == <<<<a, a>>>> \o t
           h == [i \in 1 .. 4 |-> IF i = 1 THEN u ELSE IF i = 2 THEN t ELSE << >>]
           f == CHOOSE g : g = G(g)
<1>1. Len(s) = 2 /\ s[1] = a /\ s[2] = d
  OBVIOUS
<1>2. Targets(s) = f[1]
  BY DEF Targets
<1>3. t = <<<<d, d>>>> /\ u = <<<<a, a>>, <<d, d>>>>
  BY CatOfTwo
<1> HIDE DEF s, t, u
<1>4. \A g : G(g) = [i \in 1 .. 4 |->
                  IF i > 2 THEN << >>
                  ELSE IF s[i].type # "SEQU" THEN <<<<s[i], s[i]>>>> \o g[i + 1]
                  ELSE IF i < 2 THEN <<<<s[i], s[i + 1]>>>> \o g[i + 2]
                  ELSE << >>]
  BY <1>1
<1>5. h = G(h)
  <2>1. h[1] = u /\ h[2] = t /\ h[3] = << >> /\ h[4] = << >>
    OBVIOUS
  <2>2. h = [i \in 1 .. 4 |-> h[i]]
    OBVIOUS
  <2> HIDE DEF h
  <2>3. \A i \in 1 .. 4 : i = 1 \/ i = 2 \/ i = 3 \/ i = 4
    OBVIOUS
  <2>4. \A i \in 1 .. 4 :
          h[i] = IF i > 2 THEN << >>
                 ELSE IF s[i].type # "SEQU" THEN <<<<s[i], s[i]>>>> \o h[i + 1]
                 ELSE IF i < 2 THEN <<<<s[i], s[i + 1]>>>> \o h[i + 2]
                 ELSE << >>
    <3>1. h[1] = <<<<s[1], s[1]>>>> \o h[2] /\ h[2] = <<<<s[2], s[2]>>>> \o h[3]
      BY <1>1, <2>1 DEF t, u
    <3>2. 1 + 1 = 2 /\ 2 + 1 = 3 /\ ~(1 > 2) /\ ~(2 > 2) /\ 3 > 2 /\ 4 > 2
      OBVIOUS
    <3> QED BY <1>1, <2>1, <2>3, <3>1, <3>2
  <2> HIDE DEF G
  <2> QED BY <1>4, <2>2, <2>4
<1>6. f = G(f)
  <2>1. \E g : g = G(g)
    BY <1>5
  <2> HIDE DEF h, G
  <2> QED BY <2>1
<1> HIDE DEF f, h
<1> HIDE DEF G
<1>7. \A i \in 1 .. 4 :
        f[i] = IF i > 2 THEN << >>
               ELSE IF s[i].type # "SEQU" THEN <<<<s[i], s[i]>>>> \o f[i + 1]
               ELSE IF i < 2 THEN <<<<s[i], s[i + 1]>>>> \o f[i + 2]
               ELSE << >>
  BY <1>4, <1>6
<1>8. f[1] = <<<<a, a>>>> \o f[2]
  <2>1. 1 \in 1 .. 4 /\ ~(1 > 2) /\ 1 + 1 = 2
    OBVIOUS
  <2> QED BY <1>1, <1>7, <2>1
<1>9. f[2] = <<<<d, d>>>> \o f[3]
  <2>1. 2 \in 1 .. 4 /\ ~(2 > 2) /\ 2 + 1 = 3
    OBVIOUS
  <2> QED BY <1>1, <1>7, <2>1
<1>10. f[3] = << >>
  BY <1>7
<1> QED BY <1>2, <1>3, <1>8, <1>9, <1>10 DEF s, t, u

(* What one opcode and its target make of the relays of a card. *)
Step(c, r, o, t) == Switch(t.type, r, Selected(c, o, t))

LEMMA MaxOfOne == ASSUME NEW x \in Int PROVE Max({x}) = x
  BY DEF Max

LEMMA MaxOfTwo ==
  ASSUME NEW x \in Int, NEW y \in Int
  PROVE  Max({x, y}) = IF x >= y THEN x ELSE y
<1> DEFINE z == IF x >= y THEN x ELSE y
           P(v) == v \in {x, y} /\ \A w \in {x, y} : v >= w
<1>1. P(z) /\ \A v : P(v) => v = z
  OBVIOUS
<1>2. (CHOOSE v : P(v)) = z
  <2> HIDE DEF P, z
  <2> QED BY <1>1
<1> QED BY <1>2 DEF Max

LEMMA MinOfTwo ==
  ASSUME NEW x \in Int, NEW y \in Int
  PROVE  Min({x, y}) = IF x <= y THEN x ELSE y
<1> DEFINE z == IF x <= y THEN x ELSE y
           P(v) == v \in {x, y} /\ \A w \in {x, y} : v <= w
<1>1. P(z) /\ \A v : P(v) => v = z
  OBVIOUS
<1>2. (CHOOSE v : P(v)) = z
  <2> HIDE DEF P, z
  <2> QED BY <1>1
<1> QED BY <1>2 DEF Min

(* The fold over two pairs, unfolded likewise.                             *)
LEMMA SwitchOfTwo ==
  ASSUME NEW c, NEW r, NEW ops, NEW o, NEW t, NEW d,
         Targets(ops) = <<<<o, t>>, <<d, d>>>>
  PROVE  CanSwitch(c, r, ops) = Step(c, Step(c, r, o, t), d, d)
<1> DEFINE s == Targets(ops)
           D == DOMAIN s
           S(pair, q) == Switch(pair[2].type, q, Selected(c, pair[1], pair[2]))
           H(g) == [e \in SUBSET D |->
                      IF e = {} THEN r ELSE S(s[Max(e)], g[e \ {Max(e)}])]
           f == CHOOSE g : g = H(g)
<1>1. CanSwitch(c, r, ops) = f[D]
  BY DEF CanSwitch, FoldLeft, MapThenFoldSet
<1>2. D = {1, 2} /\ s[1] = <<o, t>> /\ s[2] = <<d, d>>
  OBVIOUS
<1> HIDE DEF s, D
<1> DEFINE p == S(s[1], r)
           q == S(s[2], p)
           p2 == S(s[2], r)
           h == [e \in SUBSET D |-> IF e = {} THEN r ELSE IF e = {1} THEN p
                                    ELSE IF e = {2} THEN p2 ELSE q]
<1>3. /\ Max({1}) = 1 /\ Max({2}) = 2 /\ Max({1, 2}) = 2
      /\ {1} \ {1} = {} /\ {2} \ {2} = {} /\ {1, 2} \ {2} = {1}
  BY MaxOfOne, MaxOfTwo
<1>4. \A e \in SUBSET D : e = {} \/ e = {1} \/ e = {2} \/ e = {1, 2}
  BY <1>2
<1>5. {{}, {1}, {2}, {1, 2}} \subseteq SUBSET D /\ D \in SUBSET D
  BY <1>2
<1>6. h = H(h)
  <2>1. h[{}] = r /\ h[{1}] = p /\ h[{2}] = p2 /\ h[{1, 2}] = q
    <3> HIDE DEF p, q, p2
    <3>1. {1} # {} /\ {2} # {} /\ {1, 2} # {} /\ {1} # {2} /\ {1, 2} # {1} /\ {1, 2} # {2}
      OBVIOUS
    <3> QED BY <1>5, <3>1
  <2>2. h = [e \in SUBSET D |-> h[e]]
    OBVIOUS
  <2> HIDE DEF h, S
  <2>3. \A e \in SUBSET D :
          h[e] = IF e = {} THEN r ELSE S(s[Max(e)], h[e \ {Max(e)}])
    <3> TAKE e \in SUBSET D
    <3>1. CASE e = {}
      BY <2>1, <3>1
    <3>2. CASE e = {1}
      <4>1. Max(e) = 1 /\ e \ {Max(e)} = {} /\ e # {}
        BY <1>3, <3>2
      <4>2. h[e] = S(s[1], h[{}])
        BY <2>1, <3>2
      <4> QED BY <4>1, <4>2
    <3>3. CASE e = {2}
      <4>1. Max(e) = 2 /\ e \ {Max(e)} = {} /\ e # {}
        BY <1>3, <3>3
      <4>2. h[e] = S(s[2], h[{}])
        BY <2>1, <3>3
      <4> QED BY <4>1, <4>2
    <3>4. CASE e = {1, 2}
      <4>1. Max(e) = 2 /\ e \ {Max(e)} = {1} /\ e # {}
        BY <1>3, <3>4
      <4>2. h[e] = S(s[2], h[{1}])
        BY <2>1, <3>4
      <4> QED BY <4>1, <4>2
    <3> QED BY <1>4, <3>1, <3>2, <3>3, <3>4
  <2> QED BY <2>2, <2>3
<1>7. f = H(f)
  <2>1. \E g : g = H(g)
    BY <1>6
  <2> HIDE DEF h, H
  <2> QED BY <2>1
<1> HIDE DEF f, h
<1>8. f[D] = S(s[2], f[{1}]) /\ f[{1}] = S(s[1], f[{}]) /\ f[{}] = r
  <2> HIDE DEF S
  <2>1. \A e \in SUBSET D :
          f[e] = IF e = {} THEN r ELSE S(s[Max(e)], f[e \ {Max(e)}])
    BY <1>7
  <2>2. {1} # {} /\ {2} # {} /\ {1, 2} # {}
    OBVIOUS
  <2>3. f[{1, 2}] = S(s[2], f[{1}])
    <3>1. f[{1, 2}] = S(s[Max({1, 2})], f[{1, 2} \ {Max({1, 2})}])
      BY <1>5, <2>1, <2>2
    <3> QED BY <1>3, <3>1
  <2>4. f[{1}] = S(s[1], f[{}])
    <3>1. f[{1}] = S(s[Max({1})], f[{1} \ {Max({1})}])
      BY <1>5, <2>1, <2>2
    <3> QED BY <1>3, <3>1
  <2>5. f[{}] = r
    BY <1>5, <2>1
  <2> QED BY <1>2, <2>3, <2>4, <2>5
<1> QED BY <1>1, <1>2, <1>8 DEF Step

(* The relays of the host, and those of them on one card, as it counts.    *)
Relays == Lines \X Buses
Own(c, S) == {<<p[1] - c * NLine, p[2]>> : p \in {x \in S : x[1] \div NLine = c}}

LEMMA Sizes ==
  /\ NCard \in Nat /\ NCard > 0 /\ NLine \in Nat /\ NLine > 0
  /\ NBus \in Nat /\ NBus > 0
  BY SlotSwitchAssumption

LEMMA DivMod ==
  ASSUME NEW n \in Nat, n > 0, NEW x \in Int
  PROVE  /\ x \div n \in Int /\ x % n \in 0 .. n - 1 /\ x = (x \div n) * n + (x % n)
  OBVIOUS

LEMMA DivIs ==
  ASSUME NEW n \in Nat, n > 0, NEW c \in Int, NEW x \in Int
  PROVE  x \div n = c <=> c * n <= x /\ x <= c * n + n - 1
<1> DEFINE d == x \div n
           r == x % n
<1>1. d \in Int /\ r \in 0 .. n - 1 /\ x = d * n + r
  BY DivMod
<1> HIDE DEF d, r
<1>2. CASE d = c
  BY <1>1, <1>2 DEF d
<1>3. CASE d < c
  <2>1. (c - d) * n >= n
    BY <1>1, <1>3
  <2>2. d * n + n <= c * n
    BY <1>1, <2>1
  <2> QED BY <1>1, <1>3, <2>2 DEF d
<1>4. CASE d > c
  <2>1. (d - c) * n >= n
    BY <1>1, <1>4
  <2>2. c * n + n <= d * n
    BY <1>1, <2>1
  <2> QED BY <1>1, <1>4, <2>2 DEF d
<1> QED BY <1>1, <1>2, <1>3, <1>4

LEMMA QuotientIs ==
  ASSUME NEW n \in Nat, n > 0, NEW m \in Int, NEW b \in 0 .. n - 1,
         NEW g \in Int, g = m * n + b
  PROVE  g \div n = m /\ g % n = b
<1> DEFINE d == g \div n
           r == g % n
<1>1. d \in Int /\ r \in 0 .. n - 1 /\ g = d * n + r
  BY DivMod
<1>2. m * n \in Int
  OBVIOUS
<1>3. d = m
  <2>1. m * n <= g /\ g <= m * n + n - 1
    BY <1>2
  <2> QED BY <2>1, DivIs
<1> HIDE DEF d, r
<1>4. g = m * n + r
  BY <1>1, <1>3
<1>5. r = b
  BY <1>1, <1>2, <1>4
<1> QED BY <1>3, <1>5 DEF d, r

LEMMA OwnLinesIs ==
  ASSUME NEW c \in Cards, NEW from \in Int, NEW to \in Int
  PROVE  OwnLines(c, from, to)
           = {l - c * NLine : l \in {x \in from .. to : x \div NLine = c}}
<1> DEFINE base == c * NLine
           last == base + NLine - 1
           lo == Max({from, base})
           hi == Min({to, last})
<1>1. c \in Int /\ base \in Int /\ last \in Int
  BY Sizes DEF Cards
<1>2. /\ lo = IF from >= base THEN from ELSE base
      /\ hi = IF to <= last THEN to ELSE last
  <2> HIDE DEF base, last
  <2> QED BY <1>1, MaxOfTwo, MinOfTwo
<1>3. \A x \in Int : x \div NLine = c <=> base <= x /\ x <= last
  BY <1>1, Sizes, DivIs
<1>4. lo .. hi = {x \in from .. to : x \div NLine = c}
  <2> HIDE DEF base, last, lo, hi
  <2> QED BY <1>1, <1>2, <1>3
<1>5. OwnLines(c, from, to) = {l - base : l \in lo .. hi}
  BY DEF OwnLines
<1> HIDE DEF lo, hi
<1> QED BY <1>4, <1>5

(* A range along a bus: all of it, and what a card clips of it.            *)
Along(from, to, b) == {<<l, b>> : l \in from .. to}
OwnAlong(c, from, to, b) == {<<l, b>> : l \in OwnLines(c, from, to)}

LEMMA LinesAreOwn ==
  ASSUME NEW c \in Cards, NEW from \in Int, NEW to \in Int, NEW b
  PROVE  OwnAlong(c, from, to, b) = Own(c, Along(from, to, b))
<1> DEFINE L == {x \in from .. to : x \div NLine = c}
<1>1. {<<l, b>> : l \in OwnLines(c, from, to)} = {<<l - c * NLine, b>> : l \in L}
  BY OwnLinesIs
<1>2. {x \in {<<l, b>> : l \in from .. to} : x[1] \div NLine = c} = {<<l, b>> : l \in L}
  OBVIOUS
<1>3. Own(c, {<<l, b>> : l \in from .. to})
        = {<<p[1] - c * NLine, p[2]>> : p \in {<<l, b>> : l \in L}}
  BY <1>2 DEF Own
<1> HIDE DEF L
<1>4. {<<p[1] - c * NLine, p[2]>> : p \in {<<l, b>> : l \in L}}
        = {<<l - c * NLine, b>> : l \in L}
  <2>1. ASSUME NEW p \in {<<l, b>> : l \in L}
        PROVE  <<p[1] - c * NLine, p[2]>> \in {<<l - c * NLine, b>> : l \in L}
    <3>1. PICK l \in L : p = <<l, b>>
      BY <2>1
    <3>2. p[1] = l /\ p[2] = b
      BY <3>1
    <3> QED BY <3>2
  <2>2. ASSUME NEW l \in L
        PROVE  <<l - c * NLine, b>>
                 \in {<<p[1] - c * NLine, p[2]>> : p \in {<<x, b>> : x \in L}}
    <3> DEFINE p == <<l, b>>
    <3>1. p \in {<<x, b>> : x \in L} /\ p[1] = l /\ p[2] = b
      OBVIOUS
    <3> HIDE DEF p
    <3> QED BY <3>1
  <2> QED BY <2>1, <2>2
<1> QED BY <1>1, <1>3, <1>4 DEF Along, OwnAlong

(* A point given by its number in a full scan.                             *)
LEMMA FscnIsOwn ==
  ASSUME NEW c \in Cards, NEW p \in Relays
  PROVE  {Relay(f) : f \in OwnFscns(c, Fscn(p[1], p[2]), Fscn(p[1], p[2]))}
           = Own(c, {p})
<1> DEFINE base == Fscn(c * NLine, 0)
           last == base + NLine * NBus - 1
           f == Fscn(p[1], p[2])
           lo == Max({f, base})
           hi == Min({f, last})
           l == p[1]
           b == p[2]
           m == l - c * NLine
<1>1. /\ c \in Int /\ c * NLine \in Int /\ l \in Int /\ b \in 0 .. NBus - 1 /\ m \in Int
      /\ p = <<l, b>>
  BY Sizes DEF Cards, Relays, Lines, Buses
<1>2. base = (c * NLine) * NBus /\ f = l * NBus + b
  BY <1>1, Sizes DEF Fscn
<1>3. f \in Int /\ base \in Int /\ last \in Int
  BY <1>1, <1>2, Sizes
<1> HIDE DEF base, f
<1>4. /\ lo = IF f >= base THEN f ELSE base
      /\ hi = IF f <= last THEN f ELSE last
  <2> HIDE DEF last
  <2> QED BY <1>3, MaxOfTwo, MinOfTwo
<1>5. f - base = m * NBus + b
  BY <1>1, <1>2, Sizes
<1>6. m >= 0 => m * NBus >= 0
  BY <1>1, Sizes
<1>7. m <= -1 => m * NBus <= -NBus
  <2>1. m <= -1 => (-1 - m) * NBus >= 0
    BY <1>1, Sizes
  <2> QED BY <1>1, <2>1, Sizes
<1>8. m <= NLine - 1 => m * NBus <= NLine * NBus - NBus
  <2>1. m <= NLine - 1 => (NLine - 1 - m) * NBus >= 0
    BY <1>1, Sizes
  <2> QED BY <1>1, <2>1, Sizes
<1>9. m >= NLine => m * NBus >= NLine * NBus
  <2>1. m >= NLine => (m - NLine) * NBus >= 0
    BY <1>1, Sizes
  <2> QED BY <1>1, <2>1, Sizes
<1> DEFINE A == m * NBus
           B == NLine * NBus
<1>10. A \in Int /\ B \in Int
  BY <1>1, Sizes
<1>11. base <= f /\ f <= last <=> 0 <= m /\ m <= NLine - 1
  <2>1. f - base = A + b /\ last = base + B - 1
    BY <1>5
  <2>2. /\ m >= 0 => A >= 0
        /\ m <= -1 => A <= -NBus
        /\ m <= NLine - 1 => A <= B - NBus
        /\ m >= NLine => A >= B
    BY <1>6, <1>7, <1>8, <1>9
  <2> HIDE DEF A, B, last, m
  <2> QED BY <1>1, <1>3, <1>10, <2>1, <2>2, Sizes
<1>12. l \div NLine = c <=> 0 <= m /\ m <= NLine - 1
  <2>1. l \div NLine = c <=> c * NLine <= l /\ l <= c * NLine + NLine - 1
    BY <1>1, Sizes, DivIs
  <2> QED BY <1>1, <2>1, Sizes
<1>13. Relay(f - base) = <<m, b>>
  <2> DEFINE g == f - base
  <2>1. g \in Int /\ g = m * NBus + b
    BY <1>3, <1>5
  <2> HIDE DEF g, m, b
  <2>2. g \div NBus = m /\ g % NBus = b
    BY <1>1, <2>1, Sizes, QuotientIs
  <2> QED BY <2>2 DEF Relay, g
<1>14. OwnFscns(c, f, f) = {g - base : g \in lo .. hi}
  BY DEF OwnFscns, base
<1> HIDE DEF last, m
<1>15. CASE l \div NLine = c
  <2>1. lo .. hi = {f}
    <3>1. lo = f /\ hi = f
      BY <1>3, <1>4, <1>11, <1>12, <1>15
    <3> QED BY <1>3, <3>1
  <2>2. OwnFscns(c, f, f) = {f - base}
    BY <1>14, <2>1
  <2>3. Own(c, {p}) = {<<m, b>>}
    BY <1>1, <1>15 DEF Own, m
  <2>4. \A S, e : S = {e} => {Relay(g) : g \in S} = {Relay(e)}
    OBVIOUS
  <2>5. {Relay(g) : g \in OwnFscns(c, f, f)} = {Relay(f - base)}
    <3> DEFINE S == OwnFscns(c, f, f)
               e == f - base
    <3>1. S = {e}
      BY <2>2
    <3> HIDE DEF S, e
    <3> QED BY <2>4, <3>1 DEF S, e
  <2> QED BY <1>13, <2>3, <2>5 DEF f
<1>16. CASE l \div NLine # c
  <2>1. lo .. hi = {}
    BY <1>3, <1>4, <1>11, <1>12, <1>16
  <2>2. Own(c, {p}) = {}
    BY <1>1, <1>16 DEF Own
  <2> QED BY <1>14, <2>1, <2>2 DEF f
<1> QED BY <1>15, <1>16

(* To switch and then to look at one card, or the other way round.         *)
LEMMA OwnOfSwitch ==
  ASSUME NEW c \in Cards, NEW t,
         NEW A \in SUBSET Relays, NEW B \in SUBSET Relays
  PROVE  Own(c, Switch(t, A, B)) = Switch(t, Own(c, A), Own(c, B))
<1>1. \A x \in Relays : x = <<x[1], x[2]>> /\ x[1] \in Int
  BY Sizes DEF Relays, Lines
<1>2. Own(c, A \cup B) = Own(c, A) \cup Own(c, B)
  BY DEF Own
<1>3. Own(c, A \ B) = Own(c, A) \ Own(c, B)
  <2>1. c * NLine \in Int
    BY Sizes DEF Cards
  <2>2. \A x, y \in Relays : <<x[1] - c * NLine, x[2]>> = <<y[1] - c * NLine, y[2]>> => x = y
    <3> TAKE x, y \in Relays
    <3> HAVE <<x[1] - c * NLine, x[2]>> = <<y[1] - c * NLine, y[2]>>
    <3>1. x[1] - c * NLine = y[1] - c * NLine /\ x[2] = y[2]
      OBVIOUS
    <3>2. x[1] = y[1]
      BY <1>1, <2>1, <3>1
    <3> QED BY <1>1, <3>1, <3>2
  <2> DEFINE M(x) == <<x[1] - c * NLine, x[2]>>
             Mine(S) == {x \in S : x[1] \div NLine = c}
  <2>3. \A S : Own(c, S) = {M(x) : x \in Mine(S)}
    BY DEF Own
  <2>4. Mine(A \ B) = Mine(A) \ Mine(B) /\ Mine(A) \subseteq Relays /\ Mine(B) \subseteq Relays
    OBVIOUS
  <2> HIDE DEF M, Mine
  <2>5. \A x, y \in Relays : M(x) = M(y) => x = y
    BY <2>2 DEF M
  <2>6. {M(x) : x \in Mine(A) \ Mine(B)} = {M(x) : x \in Mine(A)} \ {M(x) : x \in Mine(B)}
    BY <2>4, <2>5
  <2> QED BY <2>3, <2>4, <2>6
<1> QED BY <1>2, <1>3 DEF Switch

LEMMA OwnType ==
  ASSUME NEW c \in Cards, NEW S \in SUBSET Relays
  PROVE  Own(c, S) \subseteq (0 .. NLine - 1) \X Buses
<1> SUFFICES ASSUME NEW p \in S, p[1] \div NLine = c
             PROVE  <<p[1] - c * NLine, p[2]>> \in (0 .. NLine - 1) \X Buses
  BY DEF Own
<1>1. p[1] \in Int /\ p[2] \in Buses /\ c \in Int /\ c * NLine \in Int
  BY Sizes DEF Relays, Lines, Cards
<1>2. c * NLine <= p[1] /\ p[1] <= c * NLine + NLine - 1
  BY <1>1, Sizes, DivIs
<1>3. p[1] - c * NLine \in 0 .. NLine - 1
  BY <1>1, <1>2, Sizes
<1> QED BY <1>1, <1>3

(* What the cards make of an operation: a range is taken along one bus.    *)
Picked(op) == IF op.range THEN Along(op.p[1], op.q[1], op.p[2]) ELSE {op.p}

LEMMA FrameIs ==
  ASSUME NEW op \in Operations, NEW p \in Relays,
         NEW c \in Cards, NEW r
  PROVE  CanSwitch(c, r, OpcodesOf(op) \o <<Point("OPEN", p)>>)
           = Switch("OPEN", Switch(op.type, r, Own(c, Picked(op))), Own(c, {p}))
<1> DEFINE d == Point("OPEN", p)
<1>1. d.type = "OPEN" /\ d.line = p[1] /\ d.bus = p[2] /\ d.type # "SEQU" /\ d.type # "FSCN"
  BY DEF Point
<1>2. \A x \in Relays : x[1] \in Int /\ x[2] \in Buses /\ x = <<x[1], x[2]>>
  BY Sizes DEF Relays, Lines
<1> HIDE DEF d
<1>3. \A x \in Relays : Along(x[1], x[1], x[2]) = {x}
  <2> TAKE x \in Relays
  <2>1. x[1] .. x[1] = {x[1]}
    BY <1>2
  <2> QED BY <1>2, <2>1 DEF Along
<1>4. \A q : Step(c, q, d, d) = Switch("OPEN", q, Own(c, {p}))
  <2>1. Selected(c, d, d) = OwnAlong(c, p[1], p[1], p[2])
    BY <1>1 DEF Selected, OwnAlong
  <2>2. Selected(c, d, d) = Own(c, Along(p[1], p[1], p[2]))
    BY <1>2, <2>1, LinesAreOwn
  <2> QED BY <1>1, <1>3, <2>2 DEF Step
<1>5. CASE op.range
  <2>1. op.p \in Relays /\ op.q \in Relays
    BY <1>5 DEF Operations, Relays
  <2> DEFINE a == Point("SEQU", op.p)
             b == Point(op.type, op.q)
  <2>2. /\ a.type = "SEQU" /\ a.line = op.p[1] /\ a.bus = op.p[2]
        /\ b.type = op.type /\ b.line = op.q[1]
    BY DEF Point
  <2>3. OpcodesOf(op) = <<a, b>>
    BY <1>5 DEF OpcodesOf
  <2> HIDE DEF a, b
  <2>4. OpcodesOf(op) \o <<d>> = <<a, b, d>>
    BY <2>3, CatTriple
  <2>5. CanSwitch(c, r, <<a, b, d>>) = Step(c, Step(c, r, a, b), d, d)
    BY <1>1, <2>2, TargetsOfRange, SwitchOfTwo
  <2>6. Picked(op) = Along(op.p[1], op.q[1], op.p[2])
    BY <1>5 DEF Picked
  <2>7. Selected(c, a, b) = OwnAlong(c, op.p[1], op.q[1], op.p[2])
    BY <2>2 DEF Selected, OwnAlong
  <2>8. Selected(c, a, b) = Own(c, Picked(op))
    BY <1>2, <2>1, <2>6, <2>7, LinesAreOwn
  <2>9. Step(c, r, a, b) = Switch(op.type, r, Own(c, Picked(op)))
    BY <2>2, <2>8 DEF Step
  <2> QED BY <1>4, <2>4, <2>5, <2>9 DEF d
<1>6. CASE ~op.range
  <2>1. op.p \in Relays /\ op.type # "SEQU"
    BY <1>6, SlotSwitchAssumption DEF Operations, Relays
  <2> DEFINE a == Point(op.type, op.p)
  <2>2. a.type = op.type /\ a.line = op.p[1] /\ a.bus = op.p[2]
    BY DEF Point
  <2>3. OpcodesOf(op) = <<a>>
    BY <1>6 DEF OpcodesOf
  <2> HIDE DEF a
  <2>4. OpcodesOf(op) \o <<d>> = <<a, d>>
    BY <2>3, CatOfTwo
  <2>5. CanSwitch(c, r, <<a, d>>) = Step(c, Step(c, r, a, a), d, d)
    BY <1>1, <2>1, <2>2, TargetsOfPoint, SwitchOfTwo
  <2>6. Picked(op) = {op.p}
    BY <1>6 DEF Picked
  <2>7. Selected(c, a, a) = Own(c, {op.p})
    <3>1. CASE op.type = "FSCN"
      BY <2>1, <2>2, <3>1, FscnIsOwn DEF Selected
    <3>2. CASE op.type # "FSCN"
      <4>1. Selected(c, a, a) = OwnAlong(c, op.p[1], op.p[1], op.p[2])
        BY <2>2, <3>2 DEF Selected, OwnAlong
      <4>2. Selected(c, a, a) = Own(c, Along(op.p[1], op.p[1], op.p[2]))
        BY <1>2, <2>1, <4>1, LinesAreOwn
      <4> QED BY <1>3, <2>1, <4>2
    <3> QED BY <3>1, <3>2
  <2>8. Step(c, r, a, a) = Switch(op.type, r, Own(c, Picked(op)))
    BY <2>2, <2>6, <2>7 DEF Step
  <2> QED BY <1>4, <2>1, <2>4, <2>5, <2>6, <2>8 DEF d
<1> QED BY <1>5, <1>6

LEMMA RelayIs ==
  ASSUME NEW p \in Relays, NEW q \in Relays,
         NEW f \in Fscn(p[1], p[2]) .. Fscn(q[1], q[2])
  PROVE  Relay(f) \in Relays
<1> DEFINE n == NCard * NLine
           d == f \div NBus
           r == f % NBus
           k == q[1]
<1>1. /\ n \in Nat /\ p[1] \in 0 .. n - 1 /\ k \in 0 .. n - 1
      /\ p[2] \in 0 .. NBus - 1 /\ q[2] \in 0 .. NBus - 1
  BY Sizes DEF Relays, Lines, Buses
<1>2. p[1] * NBus \in Nat /\ k * NBus \in Nat
  BY <1>1, Sizes
<1>3. f \in Nat /\ f <= k * NBus + q[2]
  BY <1>1, <1>2 DEF Fscn
<1>4. d \in Int /\ r \in 0 .. NBus - 1 /\ f = d * NBus + r
  BY <1>3, Sizes, DivMod
<1> HIDE DEF d, r, n, k
<1>5. d >= 0
  <2>1. d <= -1 => (-1 - d) * NBus >= 0
    BY <1>4, Sizes
  <2>2. d <= -1 => d * NBus <= -NBus
    BY <1>4, <2>1, Sizes
  <2> QED BY <1>3, <1>4, <2>2, Sizes
<1>6. d <= k
  <2>1. d >= k + 1 => (d - k - 1) * NBus >= 0
    BY <1>1, <1>4, Sizes
  <2>2. d >= k + 1 => d * NBus >= k * NBus + NBus
    BY <1>1, <1>4, <2>1, Sizes
  <2>3. d * NBus \in Int
    BY <1>4, Sizes
  <2> QED BY <1>1, <1>2, <1>3, <1>4, <2>2, <2>3, Sizes
<1>7. d \in 0 .. n - 1
  BY <1>1, <1>4, <1>5, <1>6
<1> QED BY <1>4, <1>7 DEF d, r, n, Relays, Relay, Lines, Buses

(* The host and the cards mean the same relays, but by a full scan.        *)
LEMMA PointsArePicked ==
  ASSUME NEW op \in Operations
  PROVE  /\ Picked(op) \in SUBSET Relays /\ Points(op) \in SUBSET Relays
         /\ NoScanRanges => Picked(op) = Points(op)
<1>1. CASE op.range
  <2>1. op.p \in Relays /\ op.q \in Relays /\ op.type \in RangeTypes
    BY <1>1 DEF Operations, Relays
  <2>2. Picked(op) \in SUBSET Relays
    BY <1>1, <2>1, Sizes DEF Picked, Relays, Lines, Along
  <2>3. CASE op.type = "FSCN"
    <3>1. Points(op) \in SUBSET Relays
      BY <1>1, <2>1, <2>3, RelayIs DEF Points
    <3> QED BY <2>1, <2>2, <2>3, <3>1 DEF NoScanRanges
  <2>4. CASE op.type # "FSCN"
    BY <1>1, <2>2, <2>4 DEF Points, Picked, Along
  <2> QED BY <2>3, <2>4
<1>2. CASE ~op.range
  <2>1. op.p \in Relays
    BY <1>2 DEF Operations, Relays
  <2> QED BY <1>2, <2>1 DEF Points, Picked
<1> QED BY <1>1, <1>2

LEMMA SwitchType ==
  ASSUME SwitchTypeOK, [SwitchNext]_switchVars PROVE SwitchTypeOK'
<1>1. CASE CanFrame
  <2> PICK op \in Operations, p \in Relays :
           /\ mxc_image' = [c \in Cards |->
                CanSwitch(c, mxc_image[c], OpcodesOf(op) \o <<Point("OPEN", p)>>)]
           /\ closed' = Switch(op.type, closed, Points(op)) \ {p}
    BY <1>1 DEF CanFrame, Relays
  <2>1. closed' \subseteq Relays
    BY PointsArePicked DEF SwitchTypeOK, Switch, Relays
  <2>2. \A c \in Cards : mxc_image'[c] \in SUBSET ((0 .. NLine - 1) \X Buses)
    <3> TAKE c \in Cards
    <3>1. mxc_image'[c] = Switch("OPEN", Switch(op.type, mxc_image[c], Own(c, Picked(op))),
                                Own(c, {p}))
      BY FrameIs
    <3>2. Own(c, Picked(op)) \subseteq (0 .. NLine - 1) \X Buses
      BY PointsArePicked, OwnType
    <3> QED BY <3>1, <3>2 DEF Switch, SwitchTypeOK
  <2>3. mxc_image' = [c \in Cards |-> mxc_image'[c]]
    OBVIOUS
  <2> QED BY <2>1, <2>2, <2>3 DEF SwitchTypeOK, Relays
<1>2. CASE Clear
  BY <1>2 DEF Clear, SwitchTypeOK
<1>3. CASE UNCHANGED switchVars
  BY <1>3 DEF switchVars, SwitchTypeOK
<1> QED BY <1>1, <1>2, <1>3 DEF SwitchNext

LEMMA SwitchIsExact ==
  ASSUME NoScanRanges, SwitchTypeOK, SwitchExact, [SwitchNext]_switchVars
  PROVE  SwitchExact'
<1>1. CASE CanFrame
  <2> PICK op \in Operations, p \in Relays :
           /\ mxc_image' = [c \in Cards |->
                CanSwitch(c, mxc_image[c], OpcodesOf(op) \o <<Point("OPEN", p)>>)]
           /\ closed' = Switch(op.type, closed, Points(op)) \ {p}
    BY <1>1 DEF CanFrame, Relays
  <2> DEFINE P == Points(op)
             mid == Switch(op.type, closed, P)
  <2>1. P = Picked(op) /\ P \in SUBSET Relays /\ closed \in SUBSET Relays
    BY PointsArePicked DEF SwitchTypeOK, Relays
  <2> HIDE DEF P
  <2>2. mid \in SUBSET Relays /\ {p} \in SUBSET Relays
    BY <2>1 DEF Switch
  <2>3. closed' = Switch("OPEN", mid, {p})
    BY DEF Switch, P
  <2> SUFFICES ASSUME NEW c \in Cards PROVE mxc_image'[c] = Own(c, closed')
    BY DEF SwitchExact, Own
  <2>4. mxc_image[c] = Own(c, closed)
    BY DEF SwitchExact, Own
  <2>5. mxc_image'[c] = Switch("OPEN", Switch(op.type, mxc_image[c], Own(c, P)), Own(c, {p}))
    BY <2>1, FrameIs
  <2>6. Own(c, mid) = Switch(op.type, Own(c, closed), Own(c, P))
    BY <2>1, OwnOfSwitch
  <2> HIDE DEF mid
  <2>7. Own(c, Switch("OPEN", mid, {p})) = Switch("OPEN", Own(c, mid), Own(c, {p}))
    BY <2>2, OwnOfSwitch
  <2> QED BY <2>3, <2>4, <2>5, <2>6, <2>7
<1>2. CASE Clear
  BY <1>2 DEF Clear, SwitchExact
<1>3. CASE UNCHANGED switchVars
  BY <1>3 DEF switchVars, SwitchExact
<1> QED BY <1>1, <1>2, <1>3 DEF SwitchNext

(* Whatever the operations are, a card has relays of its own only.         *)
THEOREM SwitchTypeCorrect == SwitchSpec => []SwitchTypeOK
<1>1. SwitchInit => SwitchTypeOK
  BY DEF SwitchInit, SwitchTypeOK
<1>2. SwitchTypeOK /\ [SwitchNext]_switchVars => SwitchTypeOK'
  BY SwitchType
<1> QED BY <1>1, <1>2, PTL DEF SwitchSpec

(* The relays closed on all cards are those the host asked for, each on    *)
(* the card it belongs to, for any number of cards, lines and buses, if    *)
(* the host scans no ranges fully.                                         *)
THEOREM CardsSwitchExactly == NoScanRanges => (SwitchSpec => []SwitchExact)
<1> SUFFICES ASSUME NoScanRanges PROVE SwitchSpec => []SwitchExact
  OBVIOUS
<1> DEFINE I == SwitchTypeOK /\ SwitchExact
<1>1. SwitchInit => I
  BY DEF SwitchInit, SwitchTypeOK, SwitchExact
<1>2. I /\ [SwitchNext]_switchVars => I'
  BY SwitchType, SwitchIsExact
<1> QED BY <1>1, <1>2, PTL DEF SwitchSpec
=============================================================================
