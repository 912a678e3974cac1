-------------------------------- MODULE Vchip --------------------------------
(***************************************************************************)
(* lib/common/vchip.c: registers of one processor read and written by      *)
(* another one over spi.  Each byte the master sends brings one back; the  *)
(* slave's interrupt (vchip_update, called by SPI_IRQHandler) takes it and *)
(* may load the answer that the next byte brings back.  vchip_outl and     *)
(* vchip_inl of the master are two frames each: the address, then the      *)
(* data.  Either side may stop and restart between any two bytes.          *)
(*                                                                         *)
(* Absolute addresses (AA) and frames of other lengths, which no master    *)
(* uses, are left out, and so is the mask of the bits that are toggled     *)
(* instead of written, az.                                                 *)
(***************************************************************************)
EXTENDS Integers, Sequences, FiniteSets, SequencesExt

(* Bytes of vchip.h; DUMMY is CONFIG_SPI_READ_DUMMY, OK the ecode. *)
SOH == 240
ESC == 241
DUMMY == 255
AR == 1
WL == 66  \* (4 << 4) | VCHIP_W
RL == 67  \* (4 << 4) | VCHIP_R
OK == 1

VARIABLES
    on,    \* the slave is powered
    v,     \* vchip_t: soh, esc, cmd, typ, dat (its length is n), ofs
    tx,    \* the byte loaded for the next transfer, if any
    ri,    \* the slave's registers as written by the master ...
    ro,    \* ... and as shown to it
    call,  \* the master's call: its op, address, value and frame
    todo,  \* what is left to send of the frame; READ to read a byte
    rcv,   \* bytes read in this frame
    took,  \* the last write of registers since the call began
    hurt   \* the slave lost its power since the call began

slave == <<on, v, tx, ri>>
master == <<call, todo, rcv, took, hurt>>

READ == -1
NoCall == [op |-> "none", adr |-> 0, val |-> << >>, frame |-> "AR"]
NoWrite == [ofs |-> -1, dat |-> << >>]
Size == Cardinality(DOMAIN ro)  \* vchip_n

-----------------------------------------------------------------------------
(* The slave. *)
Idle == [soh |-> FALSE, esc |-> FALSE, cmd |-> FALSE, typ |-> 0,
         dat |-> << >>, ofs |-> 0]

Reset(r) == [r EXCEPT !.soh = FALSE, !.esc = FALSE]

(* Mutant: the data of the frame before are kept. *)
SohKeep(r) == [r EXCEPT !.soh = TRUE, !.esc = FALSE, !.cmd = FALSE]
Soh(r) == [r EXCEPT !.soh = TRUE, !.esc = FALSE, !.cmd = FALSE, !.dat = << >>]

(* The byte is the command, or data when there was one. *)
Store(r, b) ==
    IF r.cmd /\ Len(r.dat) < 14
    THEN [r EXCEPT !.esc = FALSE, !.dat = Append(@, b)]
    ELSE [r EXCEPT !.esc = FALSE, !.typ = b, !.cmd = TRUE]

(* What the interrupt leaves: the frame, the answer and the registers. *)
Quiet(r) == v' = r /\ tx' = << >> /\ UNCHANGED <<ri, took>>

SetAddress(r) ==
    /\ v' = Reset([r EXCEPT !.ofs = r.dat[1] + 256 * r.dat[2]])
    /\ tx' = <<OK>> /\ UNCHANGED <<ri, took>>

(* A write that would reach the last register writes nothing, and the      *)
(* answer is OK all the same.                                              *)
Write(r) ==
    /\ v' = Reset(r) /\ tx' = <<OK>>
    /\ IF r.ofs + 4 < Size
       THEN /\ took' = [ofs |-> r.ofs, dat |-> r.dat]
            /\ ri' = [i \in DOMAIN ri |-> IF i \in r.ofs .. r.ofs + 3
                                          THEN r.dat[i - r.ofs + 1] ELSE ri[i]]
       ELSE UNCHANGED <<ri, took>>

Read(r) ==
    LET n == Len(r.dat)
    IN  /\ v' = IF n + 1 = 4 THEN Reset(r) ELSE r
        /\ tx' = <<IF r.ofs + n < Size THEN ro[r.ofs + n] ELSE 1>>
        /\ UNCHANGED <<ri, took>>

Execute(r) ==
    CASE r.typ = AR /\ Len(r.dat) = 2 -> SetAddress(r)
      [] r.typ = WL /\ Len(r.dat) = 4 -> Write(r)
      [] r.typ = RL /\ Len(r.dat) < 4 -> Read(r)
      [] (r.typ = AR /\ Len(r.dat) # 2) \/ (r.typ = WL /\ Len(r.dat) # 4) -> Quiet(r)
      [] OTHER -> Quiet(Reset(r))

(* vchip_update with a byte received. *)
Update(b) ==
    CASE b = SOH /\ ~v.esc -> Quiet(Soh(v))
      [] b = ESC /\ v.soh /\ ~v.esc -> Quiet([v EXCEPT !.esc = TRUE])
      [] (b # SOH \/ v.esc) /\ ~v.soh -> Quiet(v)
      [] OTHER -> Execute(Store(v, b))

-----------------------------------------------------------------------------
(* The master. *)

Wdat(d) == FlattenSeq([i \in DOMAIN d |-> IF d[i] \in {SOH, ESC} THEN <<ESC, d[i]>> ELSE <<d[i]>>])

(* Mutant: one SOH only, which the slave may take for an escaped byte. *)
WcmdOnce(c) == <<SOH, c>>
Wcmd(c) == <<SOH, SOH, c>>

Frame(c) ==
    CASE c.frame = "AR" -> Wcmd(AR) \o Wdat(<<c.adr, 0>>) \o <<READ>>
      [] c.frame = "WL" -> Wcmd(WL) \o Wdat(c.val) \o <<READ>>
      [] c.frame = "RL" -> Wcmd(RL) \o <<READ, READ, READ, READ>>

Start(c) ==
    /\ call' = c /\ todo' = Frame(c) /\ rcv' = << >>
    /\ took' = NoWrite /\ hurt' = FALSE
Outl(a, d) == Start([op |-> "outl", adr |-> a, val |-> d, frame |-> "AR"])
Inl(a) == Start([op |-> "inl", adr |-> a, val |-> << >>, frame |-> "AR"])
Stop == call' = NoCall /\ todo' = << >> /\ rcv' = << >> /\ took' = NoWrite /\ hurt' = FALSE

(* One byte each way. *)
Xfer ==
    /\ todo # << >> /\ todo' = Tail(todo)
    /\ rcv' = IF Head(todo) # READ THEN rcv
              ELSE Append(rcv, IF tx = << >> THEN 0 ELSE tx[1])
    /\ IF on THEN Update(IF Head(todo) = READ THEN DUMMY ELSE Head(todo))
             ELSE UNCHANGED <<v, tx, ri, took>>
    /\ UNCHANGED <<on, ro, call, hurt>>

(* The address was taken: the second frame follows. *)
Second ==
    /\ call.op # "none" /\ todo = << >> /\ call.frame = "AR" /\ rcv = <<OK>>
    /\ LET c == [call EXCEPT !.frame = IF call.op = "outl" THEN "WL" ELSE "RL"]
       IN  call' = c /\ todo' = Frame(c) /\ rcv' = << >>
    /\ UNCHANGED <<slave, ro, took, hurt>>

(* The call is over; the data that were read are not checked by anything. *)
Over == /\ call.op # "none" /\ todo = << >>
        /\ ~ (call.frame = "AR" /\ rcv = <<OK>>)
Passed == call.frame = "RL" \/ rcv = <<OK>>

-----------------------------------------------------------------------------
Bytes == 0 .. 255
VchipTypeOK ==
    /\ on \in BOOLEAN /\ hurt \in BOOLEAN
    /\ v.soh \in BOOLEAN /\ v.esc \in BOOLEAN /\ v.cmd \in BOOLEAN
    /\ v.typ \in Bytes /\ v.dat \in Seq(Bytes) /\ Len(v.dat) <= 4 /\ v.ofs \in Nat
    /\ tx \in Seq(Bytes) /\ Len(tx) <= 1
    /\ ri \in [DOMAIN ro -> Bytes]
    /\ call.op \in {"none", "outl", "inl"} /\ call.frame \in {"AR", "WL", "RL"}
    /\ todo \in Seq(Bytes \cup {READ}) /\ Len(rcv) <= 4

(* Unless the slave restarted during the call, a call of vchip_outl that   *)
(* returns 0 has had its value written where it was meant to be, whatever  *)
(* the frame before was cut off in ("reliable, no error except physical    *)
(* channel off", vchip.h:8) - if and only if it stops short of the last    *)
(* register: a value that would reach that one is never written there      *)
(* (vchip.c:103), though the call returns 0 too.                           *)
OutExact ==
    Over /\ call.op = "outl" /\ Passed /\ ~hurt
        => (took = [ofs |-> call.adr, dat |-> call.val] <=> call.adr + 4 < Size)
=============================================================================
