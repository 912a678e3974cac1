------------------------------- MODULE Kermit -------------------------------
(***************************************************************************)
(* File transfer over the console: the packet receiver of                  *)
(* lib/common/kermit.c under the loader of lib/shell/cmd_load.c, against a *)
(* sender that waits for the answer of a packet before it sends the next   *)
(* one, over a line that garbles, cuts and loses what it carries.          *)
(*                                                                         *)
(* One action Loop is one turn of the loader's loop: kermit_recv on what   *)
(* has arrived so far, then the drain of a full page.  A byte of the file  *)
(* is its position; Junk is a byte the line has changed.  A sequence       *)
(* number is the position of the packet in the transfer, which is shorter  *)
(* than the 64 numbers of the protocol; the line never changes it into     *)
(* another one, as the comment at kermit.c:170 assumes.                    *)
(***************************************************************************)
EXTENDS Integers, Sequences, SequencesExt

CONSTANTS Cuts,      \* possible cuts of a file: where each 'D' packet ends
          Targets,   \* subset of {"RAM", "ROM"}, where the file goes
          PageSz,    \* FLASH_PAGE_SZ
          MaxFault,  \* how many times the line fails
          MaxDown,   \* how many packets are on the line at once
          MaxUp      \* how many answers are

(* A page holds more than the data of one packet: 94 - 3 bytes at most.  A *)
(* file may be empty.                                                      *)
ASSUME PageAssumption ==
    /\ Cuts \subseteq Seq(Nat)
    /\ \A c \in Cuts : \A i \in DOMAIN c :
          c[i] - (IF i = 1 THEN 0 ELSE c[i - 1]) \in 1 .. PageSz - 1
    /\ Targets \subseteq {"RAM", "ROM"}
    /\ PageSz \in Nat \ {0} /\ {MaxFault, MaxDown, MaxUp} \subseteq Nat

VARIABLES
    target,   \* where load_kermit writes
    ends,     \* the cut of the file chosen by the sender
    k,        \* kermit_t with its obuf: mem, size, saved, tbuf, n, last, stm;
              \* cut: the packet it reads has lost its end
    rom,      \* pages written to flash, one after the other
    loader,   \* "run", "done" or "abort"
    sn,       \* number of the packet the sender wants acknowledged
    sender,   \* "on", "end" after the transfer, "gone" when it was stopped
    down,     \* packets on their way to the loader
    up,       \* answers on their way to the sender
    wait,     \* how often the sender may still wait for an answer in vain
              \* before the loader has heard nothing for too long
    faults,   \* failures of the line so far
    hit,      \* the failures seen by the receiver that may cost data
    acked     \* number of the last packet the loader has acknowledged

vars == <<target, ends, k, rom, loader, sn, sender, down, up, wait,
          faults, hit, acked>>

-----------------------------------------------------------------------------
(* The transfer: 'S', 'F', one 'D' for each piece of the file, 'Z', 'B'. *)
Junk == 0
Break == Len(ends) + 3
IsData(n) == n \in 2 .. Len(ends) + 1
FileLen == IF ends = << >> THEN 0 ELSE Last(ends)
File == [i \in 1 .. FileLen |-> i]

(* Bytes of the file in the packets before packet n, and those of packet n. *)
Offset(n) == CASE n <= 2 -> 0 [] n - 2 \in DOMAIN ends -> ends[n - 2] [] OTHER -> FileLen
Data(n) == IF IsData(n) THEN SubSeq(File, Offset(n) + 1, Offset(n + 1)) ELSE << >>

(* The data of packet n reach the end of a page. *)
FillsPage(n) == IsData(n) /\ Offset(n) \div PageSz < Offset(n + 1) \div PageSz

(* The loader gives up when it has heard nothing for 60 s at first, later  *)
(* for 6 s (TIMEOUT); the answer to 'S' asks the sender not to wait longer *)
(* than 3 s for an answer.                                                 *)
FirstWait == 20
LaterWait == 2

(* obsz: a page, or memory to spare. *)
Cap == IF target = "ROM" THEN PageSz ELSE FileLen + 1
Contents == [i \in 1 .. k.size |-> k.mem[i - 1]]
Received == rom \o Contents \o k.tbuf

-----------------------------------------------------------------------------
(* kermit_init *)
Init ==
    /\ target \in Targets /\ ends \in Cuts
    /\ k = [mem |-> [i \in 0 .. Cap - 1 |-> Junk], size |-> 0, saved |-> 0,
            tbuf |-> << >>, n |-> 0, last |-> -1, stm |-> "INIT", cut |-> FALSE]
    /\ rom = << >> /\ loader = "run"
    /\ sn = 0 /\ sender = "on" /\ down = << >> /\ up = << >>
    /\ wait = FirstWait /\ faults = 0 /\ hit = {} /\ acked = -1

(* Mutant: the characters moved out of tbuf are left there. *)
PutAppend(r, d) ==
    LET m == IF Len(d) < Cap - r.size THEN Len(d) ELSE Cap - r.size
    IN  [r EXCEPT !.mem = [i \in 0 .. Cap - 1 |->
                              IF i \in r.size .. r.size + m - 1
                              THEN d[i - r.size + 1] ELSE @[i]],
                  !.size = @ + m,
                  !.tbuf = @ \o SubSeq(d, m + 1, Len(d))]

(* Characters d go to obuf as long as it has room, the others to tbuf. *)
Put(r, d) ==
    LET m == IF Len(d) < Cap - r.size THEN Len(d) ELSE Cap - r.size
    IN  [r EXCEPT !.mem = [i \in 0 .. Cap - 1 |->
                              IF i \in r.size .. r.size + m - 1
                              THEN d[i - r.size + 1] ELSE @[i]],
                  !.size = @ + m,
                  !.tbuf = SubSeq(d, m + 1, Len(d))]

(* tbuf to obuf, at the head of every kermit_recv. *)
Moved == IF k.tbuf = << >> THEN k ELSE Put(k, k.tbuf)
Fits == Len(k.tbuf) <= Cap - k.size

(* Mutant: the receiver goes on with the packet that was in error. *)
ErrorStay(r) == [r EXCEPT !.size = r.saved]

(* packet_error: obuf goes back to the checkpoint, tbuf stays as it is. *)
Error(r) == [r EXCEPT !.stm = "INIT", !.size = r.saved, !.cut = FALSE]

(* Mutant: a packet that comes again is taken for a new one. *)
StartAnew(r, p) ==
    [r EXCEPT !.n = p.n, !.last = p.n, !.stm = "DATA", !.cut = p.q = "cut",
              !.saved = r.size]

(* The header of packet p is good: a checkpoint, or back to the last one. *)
Start(r, p) ==
    [r EXCEPT !.n = p.n, !.last = p.n, !.stm = "DATA", !.cut = p.q = "cut",
              !.size = IF p.n = r.last THEN r.saved ELSE @,
              !.saved = IF p.n = r.last THEN @ ELSE r.size]

(* The end of one turn of the loop: a full page is written, and so is the  *)
(* last one; memory is written as the bytes come.                          *)
Drain(r, quit) ==
    IF target = "ROM" /\ (r.size = Cap \/ quit)
    THEN /\ rom' = rom \o [i \in 1 .. r.size |-> r.mem[i - 1]]
         /\ k' = [r EXCEPT !.size = 0]
    ELSE k' = r /\ UNCHANGED rom

(* Something has been heard.  An answer is put on the line, which may lose *)
(* it: the sender will wait in vain.                                       *)
Reply(a, n) ==
    \/ /\ Len(up) < MaxUp /\ up' = Append(up, [a |-> a, n |-> n])
       /\ wait' = LaterWait /\ UNCHANGED faults
    \/ /\ faults < MaxFault /\ faults' = faults + 1
       /\ wait' = LaterWait - 1 /\ UNCHANGED up

(* packet_error with what it is charged with: `back', a packet that was    *)
(* acknowledged is taken out of obuf again; `again', this packet will come *)
(* another time.                                                           *)
Nak(r) ==
    /\ Drain(Error(r), FALSE)
    /\ Reply("N", r.n)
    /\ hit' = hit \cup (IF r.last = acked THEN {<<"back", acked>>} ELSE {})
                  \cup (IF r.stm = "DATA" THEN {<<"again", r.n>>} ELSE {})
    /\ UNCHANGED <<loader, acked>>

(* The whole packet is good. *)
Ack(r, p) ==
    /\ Drain([Put(r, Data(p.n)) EXCEPT !.stm = "INIT"], p.n = Break)
    /\ Reply("Y", p.n)
    /\ loader' = IF p.n = Break THEN "done" ELSE loader
    /\ acked' = p.n
    /\ hit' = hit \ {<<"back", p.n>>}

(* The rest of the packet.  When it was cut off, the characters of the     *)
(* next packet are taken for it: its SOH is below SPACE.  Of a packet in   *)
(* error any number of characters has gone to the buffers.                 *)
Rest(r, p) ==
    IF r.cut \/ p.q = "body"
    THEN \E j \in 0 .. Len(Data(r.n)) : Nak(Put(r, [i \in 1 .. j |-> Junk]))
    ELSE Ack(r, p)

-----------------------------------------------------------------------------
(* One turn of the loop.  kermit_recv reads nothing while tbuf is not empty. *)
Turn == loader = "run" /\ UNCHANGED <<target, ends, sn, sender>>

(* ERR_OVERFLOW, or nothing to read. *)
Settle ==
    /\ Turn /\ k.tbuf # << >>
    /\ Drain(Moved, FALSE)
    /\ UNCHANGED <<loader, down, up, wait, faults, hit, acked>>

(* A header in error, before its sequence number is looked at: the length  *)
(* or the number is below SPACE, or noise looked like an SOH.              *)
RecvNoise ==
    /\ Turn /\ k.stm = "INIT" /\ Fits
    /\ down # << >> /\ Head(down).q = "head"
    /\ Nak(Moved)
    /\ down' = Tail(down)

(* The header has arrived, the rest not yet. *)
RecvHeader ==
    /\ Turn /\ k.stm = "INIT" /\ Fits
    /\ down # << >> /\ Head(down).q # "head"
    /\ LET p == Head(down)
       IN  /\ Drain(Start(Moved, p), FALSE)
           /\ down' = IF p.q = "cut" THEN Tail(down) ELSE down
           /\ wait' = IF p.q = "cut" THEN LaterWait - 1 ELSE LaterWait
           /\ hit' = IF p.n = k.last THEN hit \cup {<<"again", p.n>>} ELSE hit
    /\ UNCHANGED <<loader, up, faults, acked>>

(* The rest has arrived. *)
RecvRest ==
    /\ Turn /\ k.stm = "DATA" /\ Fits
    /\ down # << >>
    /\ Rest(Moved, Head(down))
    /\ down' = Tail(down)

(* Nothing is heard for too long, because the sender was stopped, or since *)
(* it waits for an answer in vain time after time...                       *)
Expire ==
    /\ Turn /\ down = << >>
    /\ sender = "gone" \/ wait = 0
    /\ loader' = "abort"
    /\ UNCHANGED <<k, rom, down, up, wait, faults, hit, acked>>

(* ... or the user types ^C, which only counts between packets.            *)
CtrlC ==
    /\ Turn /\ sender = "gone" /\ down = << >> /\ Fits
    /\ IF k.stm = "INIT"
       THEN /\ loader' = "abort" /\ Drain(Moved, FALSE)
            /\ UNCHANGED <<up, wait, faults, hit, acked>>
       ELSE Nak(Moved)
    /\ UNCHANGED down

-----------------------------------------------------------------------------
(* The sender: sends its packet, again whenever it has waited long enough, *)
(* and takes the next one when this one is acknowledged.                   *)
Send ==
    /\ sender = "on" /\ Len(down) < MaxDown
    /\ \/ /\ down' = Append(down, [n |-> sn, q |-> "ok"])
          /\ UNCHANGED <<wait, faults>>
       \/ /\ faults < MaxFault /\ faults' = faults + 1
          /\ \/ wait' = (IF wait > 0 THEN wait - 1 ELSE 0) /\ UNCHANGED down
             \/ \E q \in {"head", "body", "cut"} :
                   down' = Append(down, [n |-> sn, q |-> q]) /\ UNCHANGED wait
    /\ UNCHANGED <<target, ends, k, rom, loader, sn, sender, up, hit, acked>>

Answer ==
    /\ up # << >> /\ up' = Tail(up)
    /\ LET good == sender = "on" /\ Head(up) = [a |-> "Y", n |-> sn]
       IN  /\ sn' = IF good /\ sn < Break THEN sn + 1 ELSE sn
           /\ sender' = IF good /\ sn = Break THEN "end" ELSE sender
    /\ UNCHANGED <<target, ends, k, rom, loader, down, wait, faults, hit, acked>>

GiveUp ==
    /\ sender = "on" /\ sender' = "gone"
    /\ UNCHANGED <<target, ends, k, rom, loader, sn, down, up, wait, faults, hit, acked>>

Loop == Settle \/ RecvNoise \/ RecvHeader \/ RecvRest

Next == Loop \/ Expire \/ CtrlC \/ Send \/ Answer \/ GiveUp

(* The loader's loop runs and looks at its timeout, and so does the        *)
(* sender, which hears what is said to it.                                 *)
Spec ==
    /\ Init /\ [][Next]_vars
    /\ WF_vars(Loop) /\ WF_vars(Send) /\ WF_vars(Answer) /\ WF_vars(Expire)

-----------------------------------------------------------------------------
Packets == [n : 0 .. Break, q : {"ok", "head", "body", "cut"}]
Answers == [a : {"Y", "N"}, n : 0 .. Break]

(* Types, and what the buffers may hold between two turns: obuf is never   *)
(* full, and tbuf holds less than a page.                                  *)
TypeOK ==
    /\ target \in Targets /\ ends \in Cuts
    /\ k.mem \in [0 .. Cap - 1 -> 0 .. FileLen]
    /\ k.size \in 0 .. Cap - 1 /\ k.saved \in 0 .. Cap
    /\ k.tbuf \in Seq(0 .. FileLen) /\ Len(k.tbuf) < PageSz
    /\ k.n \in 0 .. Break /\ k.last \in -1 .. Break /\ acked \in -1 .. Break
    /\ k.stm \in {"INIT", "DATA"} /\ k.cut \in BOOLEAN
    /\ rom \in Seq(0 .. FileLen)
    /\ loader \in {"run", "done", "abort"}
    /\ sn \in 0 .. Break /\ sender \in {"on", "end", "gone"}
    /\ down \in Seq(Packets) /\ up \in Seq(Answers)
    /\ wait \in 0 .. FirstWait /\ faults \in 0 .. MaxFault

(* No failure the protocol of kermit.c cannot make good: no data packet is *)
(* taken back after its acknowledgement, and with a flash target no packet *)
(* that fills a page comes twice.                                          *)
Recoverable ==
    \A h \in hit : \/ ~ IsData(h[2])
                   \/ h[1] = "again" /\ (target = "RAM" \/ ~ FillsPage(h[2]))

(* What has arrived is the beginning of the file, each byte once and in    *)
(* order, through lost and garbled packets and answers, retries and full   *)
(* pages; it holds every packet whose acknowledgement the sender relies    *)
(* on, and when the loader reports success it is the whole file            *)
(* (kermit.c:169-188, cmd_load.c:79-104).                                  *)
FileFaithful ==
    Recoverable =>
        /\ IsPrefix(Received, File)
        /\ k.stm = "INIT" => Len(Received) >= Offset(sn)
        /\ loader = "done" => Received = File

(* The transfer ends: with success, unless the sender gave up or what it   *)
(* sent, or the answer, was lost so often that the loader heard nothing    *)
(* for too long (cmd_load.c:101-114).                                      *)
Completes == <>(loader = "done" \/ (loader = "abort" /\ (sender = "gone" \/ wait = 0)))

=============================================================================
