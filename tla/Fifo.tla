-------------------------------- MODULE Fifo --------------------------------
(***************************************************************************)
(* lib/common/fifo.c: the ring of samples shared by one interrupt handler  *)
(* (the EXTI handler of tasks/misc/fdsig_dmm.c and tasks/misc/vwpwr.c, the *)
(* producer) and the main loop (the consumer).  The handler preempts main  *)
(* between any two accesses main makes to the ring and runs to completion, *)
(* unless main has masked it (DMM_ISR_N .. DMM_ISR_Y).                     *)
(*                                                                         *)
(* A sample is represented by its serial number, 1 for the first accepted  *)
(* one, so that order, loss and age can be told apart.                     *)
(***************************************************************************)
EXTENDS Integers

CONSTANTS
  Size,      (* fifo->size; the ring holds at most Size - 1 samples        *)
  MaxSample, (* bound: the handler runs until MaxSample samples were kept  *)
  Forced,    (* TRUE: the handler calls fifo_push_force, else fifo_push    *)
  Masked     (* TRUE: main masks the handler around fifo_pop               *)

ASSUME FifoAssumption ==
  /\ Size \in Nat /\ Size >= 2
  /\ MaxSample \in Nat
  /\ Forced \in BOOLEAN /\ Masked \in BOOLEAN

VARIABLES
  buf,    (* fifo->buf                                                     *)
  wpos,   (* fifo->wpos                                                    *)
  rpos,   (* fifo->rpos                                                    *)
  irq,    (* the handler is enabled                                        *)
  pc,     (* where main is inside fifo_pop or fifo_dump                    *)
  lrpos,  (* fifo_pop's local rpos                                         *)
  data,   (* fifo_pop's *data                                              *)
  serial, (* serial number of the next sample the ring accepts             *)
  out,    (* serial number of the last sample main has taken               *)
  floor   (* serial number of the first sample accepted after the last dump *)

ring == <<buf, wpos, rpos>>
vars == <<buf, wpos, rpos, irq, pc, lrpos, data, serial, out, floor>>

Pos == 0 .. Size - 1
Next1NoWrap(p) == p + 1                     \* mutant: the modulo forgotten
Next1(p) == (p + 1) % Size

(* fifo_size for a writer at w and a reader at r *)
Gap(w, r) == IF w >= r THEN w - r ELSE Size + w - r
Count == Gap(wpos, rpos)

Init ==
  /\ buf = [p \in Pos |-> 0]
  /\ wpos = 0 /\ rpos = 0
  /\ irq = TRUE
  /\ pc = "idle"
  /\ lrpos = 0 /\ data = 0
  /\ serial = 1 /\ out = 0 /\ floor = 1

-----------------------------------------------------------------------------
(* The interrupt handler.  It is one step: nothing preempts it.            *)

StoreAhead ==                         \* mutant: wpos advanced before the store
  /\ buf' = [buf EXCEPT ![Next1(wpos)] = serial]
  /\ wpos' = Next1(wpos)
  /\ serial' = serial + 1
Store ==
  /\ buf' = [buf EXCEPT ![wpos] = serial]
  /\ wpos' = Next1(wpos)
  /\ serial' = serial + 1

PushUnchecked ==                      \* mutant: the overflow test forgotten
  /\ ~Forced
  /\ Store
  /\ rpos' = rpos

(* fifo_push: a sample that finds the ring full is dropped. *)
Push ==
  /\ ~Forced
  /\ Next1(wpos) # rpos
  /\ Store
  /\ rpos' = rpos

PushForceKeep ==                      \* mutant: a full ring discards nothing
  /\ Forced
  /\ Store
  /\ rpos' = rpos

(* fifo_push_force: a full ring first loses its oldest sample to the       *)
(* handler's own fifo_pop.                                                 *)
PushForce ==
  /\ Forced
  /\ Store
  /\ rpos' = IF Next1(wpos) = rpos THEN Next1(rpos) ELSE rpos

Handler ==
  /\ irq
  /\ serial <= MaxSample
  /\ Push \/ PushForce
  /\ UNCHANGED <<irq, pc, lrpos, data, out, floor>>

-----------------------------------------------------------------------------
(* Main: fifo_pop, one action per access to the shared ring, inside        *)
(* DMM_ISR_N / DMM_ISR_Y when Masked.                                      *)

PopEnter ==
  /\ pc = "idle"
  /\ pc' = "load"
  /\ irq' = ~Masked
  /\ UNCHANGED <<ring, lrpos, data, serial, out, floor>>

PopLoad ==
  /\ pc = "load"
  /\ pc' = "test"
  /\ lrpos' = rpos
  /\ UNCHANGED <<ring, irq, data, serial, out, floor>>

PopTestNone ==                        \* mutant: an empty ring is popped too
  /\ pc = "test"
  /\ pc' = "read"
  /\ UNCHANGED <<ring, irq, lrpos, data, serial, out, floor>>
PopTest ==
  /\ pc = "test"
  /\ pc' = IF lrpos # wpos THEN "read" ELSE "leave"
  /\ UNCHANGED <<ring, irq, lrpos, data, serial, out, floor>>

PopRead ==
  /\ pc = "read"
  /\ pc' = "store"
  /\ data' = buf[lrpos]
  /\ UNCHANGED <<ring, irq, lrpos, serial, out, floor>>

PopStoreStay ==                       \* mutant: rpos is not advanced
  /\ pc = "store"
  /\ pc' = "leave"
  /\ out' = data
  /\ UNCHANGED <<ring, irq, lrpos, data, serial, floor>>
PopStore ==
  /\ pc = "store"
  /\ pc' = "leave"
  /\ rpos' = Next1(lrpos)
  /\ out' = data
  /\ UNCHANGED <<buf, wpos, irq, lrpos, data, serial, floor>>

(* fifo_dump: all of its callers mask the handler around it. *)
DumpEnter ==
  /\ pc = "idle"
  /\ pc' = "dump"
  /\ irq' = FALSE
  /\ UNCHANGED <<ring, lrpos, data, serial, out, floor>>

DumpWpos ==
  /\ pc = "dump"
  /\ pc' = "dump2"
  /\ wpos' = 0
  /\ UNCHANGED <<buf, rpos, irq, lrpos, data, serial, out, floor>>

DumpWposOnly ==                       \* mutant: fifo_dump forgets rpos
  /\ pc = "dump2"
  /\ pc' = "leave"
  /\ floor' = serial
  /\ UNCHANGED <<ring, irq, lrpos, data, serial, out>>
DumpRpos ==
  /\ pc = "dump2"
  /\ pc' = "leave"
  /\ rpos' = 0
  /\ floor' = serial
  /\ UNCHANGED <<buf, wpos, irq, lrpos, data, serial, out>>

Leave ==
  /\ pc = "leave"
  /\ pc' = "idle"
  /\ irq' = TRUE
  /\ UNCHANGED <<ring, lrpos, data, serial, out, floor>>

Main ==
  \/ PopEnter \/ PopLoad \/ PopTest \/ PopRead \/ PopStore
  \/ DumpEnter \/ DumpWpos \/ DumpRpos
  \/ Leave

Next == Handler \/ Main

Spec == Init /\ [][Next]_vars

-----------------------------------------------------------------------------
TypeOK ==
  /\ buf \in [Pos -> Nat]
  /\ wpos \in Pos /\ rpos \in Pos /\ lrpos \in Pos
  /\ irq \in BOOLEAN
  /\ pc \in {"idle", "load", "test", "read", "store", "leave", "dump", "dump2"}
  /\ data \in Nat /\ serial \in Nat /\ out \in Nat /\ floor \in Nat

(* The ring holds exactly the newest Count samples that were accepted, in  *)
(* the order they came: no push, however it interleaves with fifo_pop,     *)
(* overwrites a sample that is still to be read or re-exposes an old one.  *)
HoldsNewest ==
  pc # "dump2" =>
    \A p \in Pos : Gap(wpos, p) \in 1 .. Count => buf[p] = serial - Gap(wpos, p)

(* What main takes next is newer than everything it took before and was    *)
(* accepted after the last dump (a channel switch dumps the ring so that   *)
(* no sample of the previous channel is reported for the new one).         *)
FreshInOrder ==
  pc = "store" => data > out /\ data >= floor

(* One fifo_pop takes one sample out of the ring: the write of rpos never  *)
(* throws away what the handler stored in the meantime.                    *)
PopTakesOne == [][PopStore => Count' = Count - 1]_vars

(* fifo.c without forced pushes never loses an accepted sample: the next   *)
(* one main takes is the successor of the last one it took, or the first   *)
(* one after the dump.                                                     *)
NoLoss ==
  ~Forced /\ pc = "store" => data = out + 1 \/ data = floor

(* The abstract promise: a bounded queue (see BoundedQueue).               *)
Contents ==
  IF pc = "dump2" THEN << >>
  ELSE [i \in 1 .. Count |-> buf[(rpos + i - 1) % Size]]

Queue == INSTANCE BoundedQueue
           WITH queue <- Contents, taken <- out, next <- serial,
                Capacity <- Size - 1, Overwrite <- Forced
ImplementsQueue == Queue!Spec
=============================================================================
