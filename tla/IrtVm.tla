-------------------------------- MODULE IrtVm --------------------------------
(***************************************************************************)
(* tasks/irt: the opcode machine of the irc board.  ROUTE commands become  *)
(* opcodes in a queue (vm.c), vm_update takes them one at a time, splits   *)
(* scans into groups of `arm` points and hands them to vm_execute (mxc.c), *)
(* which packs them into can frames: DAT frames carry opcodes, the CMD     *)
(* frame ends a group, latches the relays and, after a scan, measures.     *)
(*                                                                         *)
(* Everything runs on one thread, but each vm_wait runs irc_update and the *)
(* shell, so a command or a slot failure may come wherever AtWait holds.   *)
(* Time, the dps supplies and the frame counter, which no slot checks, are *)
(* left out.                                                               *)
(***************************************************************************)
EXTENDS Integers, Sequences, SequencesExt

CONSTANTS
  NBus,    (* buses per line: a point is line * NBus + bus                 *)
  QCap,    (* opcodes that fit CONFIG_IRC_INSWSZ bytes                     *)
  Types,   (* the ROUTE verbs used, of OPEN CLOS SCAN FSCN                 *)
  Lists,   (* relay lists: sequences of Entry                              *)
  Arms,    (* arguments of ROUTE ARM                                       *)
  MaxCmd,  (* bound: commands accepted                                     *)
  MaxErr   (* bound: hardware errors                                       *)

RelayTypes == {"OPEN", "CLOS", "SCAN", "FSCN"}

(* A point of a relay list and what stands before it. *)
Entry == [sep : {"@", ",", ":"}, p : Nat]

ASSUME IrtVmAssumption ==
  /\ NBus \in Nat \ {0} /\ QCap \in Nat \ {0} /\ MaxCmd \in Nat /\ MaxErr \in Nat
  /\ Types \subseteq RelayTypes
  /\ Lists \subseteq Seq(Entry)
  /\ Arms \subseteq Nat \ {0}

FrameOps == 4 \* opcodes in the eight bytes of a can frame

VARIABLES
  pc,     (* where the main routine is                                     *)
  ret,    (* where it goes on when the error trap is left                  *)
  opq,    (* vm_opq                                                        *)
  loc,    (* vm_prefetch's local opcode                                    *)
  cur,    (* vm_opcode                                                     *)
  seqend, (* vm_opcode_seq                                                 *)
  nxt,    (* vm_opcode_nxt                                                 *)
  arm,    (* vm_scan_arm                                                   *)
  cnt,    (* vm_scan_cnt                                                   *)
  odata,  (* mxc_odata                                                     *)
  tsaved, (* opcode_type_saved                                             *)
  frame,  (* the last can frame                                            *)
  ecode,  (* irc_ecode # 0                                                 *)
  error,  (* irc_status.error                                              *)
  batch,  (* points sent since the last group was latched                  *)
  dirty,  (* an error was raised since then                                *)
  ncmd, nerr

queue == <<opq, loc, cur, seqend, nxt>>
scan  == <<arm, cnt>>
out   == <<odata, tsaved, frame>>
err   == <<ecode, error, ret, nerr>>
hist  == <<batch, dirty>>
vars  == <<pc, queue, scan, out, err, hist, ncmd>>

Op(t, p) == [type |-> t, p |-> p]
Nul == Op("NULL", 0)

Line(p) == p \div NBus

(* The opcodes of a relay list: a tag where a group begins and at its end. *)
Encode(t, list) ==
  FlattenSeq([i \in DOMAIN list |->
    CASE list[i].sep = "@" -> <<Op("GRUP", 0), Op(t, list[i].p)>>
      [] list[i].sep = "," -> <<Op(t, list[i].p)>>
      [] list[i].sep = ":" -> <<Op("SEQU", list[i].p)>>])
  \o <<Op("GRUP", 1)>>

IsScan(t) == t \in {"SCAN", "FSCN"}

(* A full scan walks line by line over all buses, any other sequence stays *)
(* on the bus it starts on.                                                *)
Stride(t) == IF t = "FSCN" THEN 1 ELSE NBus
Span(t, p, q) == IF t = "FSCN" THEN q - p + 1 ELSE Line(q) - Line(p) + 1
Run(t, p, q) == [i \in 1 .. Span(t, p, q) |-> Op(t, p + (i - 1) * Stride(t))]

(* The relay actions of queued opcodes, <start> SEQU <end> being a range.  *)
Actions(ops) ==
  FlattenSeq([i \in DOMAIN ops |->
    IF ops[i].type \notin RelayTypes THEN << >>
    ELSE IF i < Len(ops) /\ ops[i + 1].type = "SEQU"
         THEN Run(ops[i].type, ops[i].p, ops[i + 1].p)
         ELSE <<ops[i]>>])

(* The relay actions of fetched opcodes: SEQU is now the start of a range. *)
Fetched(ops) ==
  FlattenSeq([i \in DOMAIN ops |->
    IF ops[i].type \notin RelayTypes THEN << >>
    ELSE IF i > 1 /\ ops[i - 1].type = "SEQU"
         THEN Run(ops[i].type, ops[i - 1].p, ops[i].p)
         ELSE <<ops[i]>>])

Pending ==
  Fetched(odata)
  \o Fetched(IF cur.type = "SEQU" THEN <<cur, seqend>> ELSE <<cur>>)
  \o Actions(<<IF loc = Nul THEN nxt ELSE loc>> \o opq)

-----------------------------------------------------------------------------
Init ==
  /\ pc = "top" /\ ret = "top"
  /\ opq = << >> /\ loc = Nul /\ cur = Nul /\ seqend = Nul /\ nxt = Nul
  /\ arm = 1 /\ cnt = 0
  /\ odata = << >> /\ tsaved = "NULL" /\ frame = [id |-> "CMD", ops |-> << >>]
  /\ ecode = FALSE /\ error = FALSE
  /\ batch = 0 /\ dirty = FALSE
  /\ ncmd = 0 /\ nerr = 0

(* irc_error: the main routine is trapped in the handler until *CLS. *)
Raise(then) ==
  /\ ecode' = TRUE /\ error' = TRUE
  /\ pc' = "trap" /\ ret' = then

(* An error of the hardware. *)
Fail(then) == nerr < MaxErr /\ nerr' = nerr + 1 /\ Raise(then)

Go(where) == pc' = where /\ UNCHANGED err

-----------------------------------------------------------------------------
(* vm_prefetch *)

(* An opcode x and the one after it: a SEQU lends its type to the start of *)
(* the range, and the end takes the type of the operation.                 *)
Exchange(x, y) ==
  IF y.type = "SEQU" THEN <<Op("SEQU", x.p), Op(x.type, y.p)>> ELSE <<x, y>>

Prefetch(x, q) ==
  IF x.type = "GRUP"
  THEN [op |-> x, nxt |-> Nul, q |-> q]
  ELSE LET e == Exchange(x, Head(q)) IN [op |-> e[1], nxt |-> e[2], q |-> Tail(q)]

Take ==
  /\ pc = "top" /\ ~ecode /\ cur = Nul
  /\ \/ nxt # Nul /\ loc' = nxt /\ opq' = opq
     \/ nxt = Nul /\ opq # << >> /\ loc' = Head(opq) /\ opq' = Tail(opq)
  /\ nxt' = Nul
  /\ Go("look")
  /\ UNCHANGED <<cur, seqend, scan, out, hist, ncmd>>

(* Anything but a group tag waits for the opcode that follows it. *)
Look ==
  /\ pc = "look"
  /\ loc.type = "GRUP" \/ opq # << >>
  /\ LET f == Prefetch(loc, opq)
         g == Prefetch(f.nxt, f.q)
     IN /\ cur' = f.op
        /\ IF f.op.type = "SEQU"
           THEN seqend' = g.op /\ nxt' = g.nxt /\ opq' = g.q
           ELSE seqend' = Nul /\ nxt' = f.nxt /\ opq' = f.q
  /\ loc' = Nul
  /\ Go("run")
  /\ UNCHANGED <<scan, out, hist, ncmd>>

-----------------------------------------------------------------------------
(* vm_update *)

Type == IF cur.type = "SEQU" THEN seqend.type ELSE cur.type

Resume ==
  /\ pc = "top" /\ ~ecode /\ cur # Nul
  /\ Go("run")
  /\ UNCHANGED <<queue, scan, out, hist, ncmd>>

(* A scan range that runs backwards, or another operation in the middle of *)
(* a scan group, is an error; *CLS lets it execute all the same.           *)
BadRange == IsScan(Type) /\ cur.type = "SEQU" /\ Span(Type, cur.p, seqend.p) < 0
ScanCut == ~IsScan(Type) /\ Type # "GRUP" /\ cnt # 0

Check ==
  /\ pc = "run"
  /\ IF BadRange \/ ScanCut
     THEN Raise("exec") /\ dirty' = TRUE /\ UNCHANGED nerr
     ELSE Go("exec") /\ UNCHANGED dirty
  /\ cnt' = IF ScanCut THEN 0 ELSE cnt
  /\ UNCHANGED <<queue, arm, out, batch, ncmd>>

(* The part of the current operation that vm_execute gets: a scan range is *)
(* cut where the scan group is complete.                                   *)
(* Mutant: what the scan group already holds is forgotten. *)
LeftAll == arm
Left == arm - cnt
Cut == IsScan(Type) /\ cur.type = "SEQU" /\ Span(Type, cur.p, seqend.p) > Left
(* Mutant: the end of an uncut range is not handed over. *)
SliceAlone ==
  IF Cut THEN <<cur, Op(seqend.type, cur.p + (Left - 1) * Stride(Type))>> ELSE <<cur>>
Slice ==
  IF cur.type # "SEQU" THEN <<cur>>
  ELSE IF Cut THEN <<cur, Op(seqend.type, cur.p + (Left - 1) * Stride(Type))>>
  ELSE <<cur, seqend>>
SliceCount ==
  IF ~IsScan(Type) THEN 0
  ELSE IF cur.type # "SEQU" THEN 1
  ELSE IF Cut THEN Left ELSE Span(Type, cur.p, seqend.p)

(* mxc_emit, up to the can transmission: it may fail. *)
Emit(id, then) ==
  /\ frame' = [id |-> id, ops |-> odata]
  /\ odata' = << >>
  /\ batch' = batch + Len(Fetched(odata))
  /\ \/ Go(then) /\ UNCHANGED dirty
     \/ Fail(then) /\ dirty' = TRUE

(* buf_push overwrites the oldest opcodes when there is no room. *)
Newest(ops) ==
  IF Len(ops) <= FrameOps THEN ops ELSE SubSeq(ops, Len(ops) - FrameOps + 1, Len(ops))

(* Mutant: the second opcode of a range is not counted. *)
FitsFirst == Len(odata) + 1 <= FrameOps
Fits == Len(odata) + Len(Slice) <= FrameOps

(* vm_execute of a relay operation: a frame that has no room goes out. *)
Flush ==
  /\ pc = "exec" /\ cur.type \in RelayTypes \cup {"SEQU"} /\ ~Fits
  /\ Emit("DAT", "push")
  /\ UNCHANGED <<queue, scan, tsaved, ncmd>>

Push ==
  /\ pc \in {"exec", "push"} /\ cur.type \in RelayTypes \cup {"SEQU"}
  /\ pc = "exec" => Fits
  /\ odata' = Newest(odata \o Slice)
  /\ tsaved' = Type
  /\ cur' = IF Cut THEN Op("SEQU", cur.p + Left * Stride(Type)) ELSE Nul
  /\ seqend' = IF Cut THEN seqend ELSE Nul
  /\ LET c == cnt + SliceCount
         full == IsScan(Type) /\ c = arm
     IN cnt' = (IF full THEN 0 ELSE c) /\ Go(IF full THEN "group" ELSE "top")
  /\ UNCHANGED <<opq, loc, nxt, arm, frame, hist, ncmd>>

(* vm_execute of a group tag or of a WAIT. *)
Tag ==
  /\ pc = "exec" /\ cur.type \in {"GRUP", "WAIT"}
  /\ cur' = Nul
  /\ Go(IF cur.type = "GRUP" THEN "group" ELSE "top")
  /\ UNCHANGED <<opq, loc, seqend, nxt, scan, out, hist, ncmd>>

(* A scan group that is not complete only goes out as data. *)
Group ==
  /\ pc = "group"
  /\ IF odata = << >>
     THEN Go("top") /\ UNCHANGED <<out, hist>>
     ELSE IF IsScan(tsaved) /\ cnt # 0
     THEN Emit("DAT", "end") /\ UNCHANGED tsaved
     ELSE Emit("CMD", "latch") /\ UNCHANGED tsaved
  /\ UNCHANGED <<queue, scan, ncmd>>

(* mxc_latch, and mxc_measure after a scan: both may time out. *)
Latch ==
  /\ pc = "latch"
  /\ LET then == IF IsScan(tsaved) THEN "measure" ELSE "end"
     IN \/ Go(then) /\ UNCHANGED hist
        \/ Fail(then) /\ dirty' = TRUE /\ UNCHANGED batch
  /\ UNCHANGED <<queue, scan, out, ncmd>>

Measure ==
  /\ pc = "measure"
  /\ Go("end") \/ Fail("end")
  /\ UNCHANGED <<queue, scan, out, hist, ncmd>>

End ==
  /\ pc = "end"
  /\ Go("top")
  /\ IF frame.id = "CMD" THEN batch' = 0 /\ dirty' = FALSE ELSE UNCHANGED hist
  /\ UNCHANGED <<queue, scan, out, ncmd>>

(* irc_error_set is left once *CLS has cleared the status. *)
Untrap ==
  /\ pc = "trap" /\ ~error
  /\ pc' = ret
  /\ UNCHANGED <<queue, scan, out, err, hist, ncmd>>

Vm ==
  \/ Take \/ Look \/ Resume \/ Check \/ Flush \/ Push \/ Tag \/ Group
  \/ Latch \/ Measure \/ End \/ Untrap

-----------------------------------------------------------------------------
(* The shell, run from every vm_wait *)

AtWait ==
  \/ pc \in {"top", "latch", "measure", "trap"}
  \/ pc = "look" /\ loc.type # "GRUP" /\ opq = << >>

(* Where the main routine is, looking through the trap. *)
At == IF pc = "trap" THEN ret ELSE pc

One(b) == IF b THEN 1 ELSE 0

(* Mutant: the points of a scan group that is not complete are left out. *)
VmBusyNoScan ==
  2 * Len(opq) + One(cur # Nul \/ At \notin {"top", "look"})
  + One(seqend # Nul) + One(nxt # Nul)

(* vm_is_busy adds up what is queued, in bytes, fetched and half scanned. *)
VmBusy ==
  2 * Len(opq) + One(cur # Nul \/ At \notin {"top", "look"})
  + One(seqend # Nul) + One(nxt # Nul) + cnt

(* mxc_flag.busy, set while vm_execute runs. *)
Executing == At \in {"push", "latch", "measure", "end"}

(* irc_is_busy, the answer to *OPC? *)
Busy == Executing \/ odata # << >> \/ VmBusy # 0

(* irc_update finds a failed slot: an error, unless one is already set. *)
SlotError ==
  /\ AtWait /\ ~ecode
  /\ Fail(At)
  /\ UNCHANGED <<queue, scan, out, hist, ncmd>>

Accept(ops) ==
  /\ AtWait
  /\ ncmd < MaxCmd
  /\ ncmd' = ncmd + 1
  /\ Len(opq) + Len(ops) < QCap
  /\ opq' = opq \o ops
  /\ UNCHANGED <<pc, loc, cur, seqend, nxt, scan, out, err, hist>>

(* ROUTE OPEN|CLOS|SCAN|FSCN: all of the list is queued or none of it. *)
Route == ~ecode /\ \E t \in Types, l \in Lists : Accept(Encode(t, l))

(* ROUTE WAIT, which an error does not stop. *)
RouteWait == Accept(<<Op("WAIT", 0)>>)

(* ROUTE ARM is refused while the machine is busy, as its counters tell. *)
RouteArm ==
  /\ AtWait /\ ~ecode /\ VmBusy = 0
  /\ ncmd < MaxCmd
  /\ ncmd' = ncmd + 1
  /\ arm' \in Arms
  /\ UNCHANGED <<pc, queue, cnt, out, err, hist>>

(* Mutant: accepted at any time. *)
ModeAlways ==
  /\ AtWait /\ ~ecode
  /\ ncmd < MaxCmd
  /\ ncmd' = ncmd + 1
  /\ cnt' = 0
  /\ UNCHANGED <<pc, queue, arm, out, err, hist>>

(* MODE, refused while anything is busy; the slots' part is in IrtBus. *)
Mode ==
  /\ AtWait /\ ~ecode /\ ~Busy
  /\ ncmd < MaxCmd
  /\ ncmd' = ncmd + 1
  /\ cnt' = 0
  /\ UNCHANGED <<pc, queue, arm, out, err, hist>>

(* *ERR? without a slot forgets the code, not the error status. *)
ErrPop ==
  /\ AtWait /\ ecode
  /\ ecode' = FALSE
  /\ UNCHANGED <<pc, ret, error, nerr, queue, scan, out, hist, ncmd>>

(* Mutant: the error status stays. *)
ClsCode ==
  /\ AtWait /\ error
  /\ ecode' = FALSE
  /\ UNCHANGED <<pc, ret, error, nerr, queue, scan, out, hist, ncmd>>

(* *CLS, and ABORT, whose vm_abort is empty. *)
Cls ==
  /\ AtWait /\ error
  /\ ecode' = FALSE /\ error' = FALSE
  /\ UNCHANGED <<pc, ret, nerr, queue, scan, out, hist, ncmd>>

Shell == Route \/ RouteWait \/ RouteArm \/ Mode \/ ErrPop \/ Cls

Next == Vm \/ SlotError \/ Shell

(* The main loop never stops, and the host answers an error with *CLS. *)
Fairness == WF_vars(Vm) /\ WF_vars(Cls)

Spec == Init /\ [][Next]_vars /\ Fairness

-----------------------------------------------------------------------------
Ops == [type : RelayTypes \cup {"SEQU", "GRUP", "WAIT", "NULL"}, p : Int]

TypeOK ==
  /\ pc \in {"top", "look", "run", "exec", "push", "group", "latch", "measure",
             "end", "trap"}
  /\ ret \in {"top", "look", "exec", "push", "latch", "measure", "end"}
  /\ opq \in Seq(Ops) /\ Len(opq) < QCap
  /\ {loc, cur, seqend, nxt} \subseteq Ops
  /\ arm \in Nat \ {0} /\ cnt \in Int /\ cnt < arm
  /\ odata \in Seq(Ops) /\ Len(odata) <= FrameOps
  /\ tsaved \in RelayTypes \cup {"NULL"}
  /\ ecode \in BOOLEAN /\ error \in BOOLEAN

(* A range never straddles two frames and a frame names an operation for   *)
(* every opcode it holds ("irc vm algo could ensure!").                    *)
FramesWhole ==
  \A i \in DOMAIN frame.ops :
    IF frame.ops[i].type = "SEQU"
    THEN i < Len(frame.ops) /\ frame.ops[i + 1].type \in RelayTypes
    ELSE frame.ops[i].type \in RelayTypes

(* A measurement is made with exactly `arm` points closed since the last   *)
(* group, unless an error was raised on the way.                           *)
ScanGroupExact == pc = "measure" /\ ~dirty => batch = arm

(* When *OPC? answers that the operation is completed, no relay action is  *)
(* waiting in any of the queues and no scan group is half sent.            *)
OpcHonest == AtWait /\ ~Busy => Pending = << >> /\ (~dirty => batch = 0)

(* Every accepted relay action goes out, once and in order. *)
Order == INSTANCE RelayOrder
           WITH pending <- Pending, sent <- Fetched(frame.ops),
                Requests <- {Actions(Encode(t, l)) : t \in Types, l \in Lists}
InOrder == Order!Spec

(* The queues always drain, however scans, frames and errors fall. *)
Drains == []<>(Pending = << >>)
=============================================================================
