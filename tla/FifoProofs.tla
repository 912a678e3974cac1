----------------------------- MODULE FifoProofs -----------------------------
(***************************************************************************)
(* Theorems about Fifo, for every ring size and every number of samples,   *)
(* under the discipline the callers of fifo.c keep: a ring filled with     *)
(* fifo_push_force is read with the handler masked.                        *)
(***************************************************************************)
EXTENDS Fifo, Sequences, SequenceTheorems, TLAPS

(* The callers' discipline: fdsig_dmm.c masks around fifo_pop because its  *)
(* handler pushes with fifo_push_force; vwpwr.c does neither.              *)
Discipline == Forced => Masked

Popping == pc \in {"load", "test", "read", "store"}

(* Main's copies of ring state are still true when it uses them.           *)
CopiesFresh ==
  /\ Masked /\ Popping => ~irq
  /\ pc \in {"dump", "dump2"} => ~irq
  /\ pc \in {"test", "read", "store"} => lrpos = rpos
  /\ pc \in {"read", "store"} => rpos # wpos
  /\ pc = "store" => data = buf[rpos]
  /\ pc = "dump2" => wpos = 0

(* Whatever main took, and the dump floor, is older than what is held.     *)
Ages ==
  /\ serial >= 1
  /\ out < serial /\ floor <= serial
  /\ pc \notin {"dump2"} => out < serial - Count /\ floor <= serial - Count

IInv == Discipline /\ TypeOK /\ HoldsNewest /\ CopiesFresh /\ Ages

(* Next1 is the wrap-around increment: no division is needed on positions. *)
LEMMA Next1Wraps ==
  ASSUME NEW p \in Pos
  PROVE  Next1(p) = IF p = Size - 1 THEN 0 ELSE p + 1
  BY FifoAssumption DEF Next1, Pos

(* What is older than the oldest sample held stays so when that one moves. *)
LEMMA Older ==
  \A s, c, s1, c1, x \in Int :
    s1 - c1 >= s - c => /\ x < s - c => x < s1 - c1
                        /\ x <= s - c => x <= s1 - c1
  OBVIOUS

(* How far a position is behind the writer, before and after one push.     *)
LEMMA GapFacts ==
  ASSUME NEW w \in Pos, NEW r \in Pos
  PROVE  /\ Gap(w, r) \in 0 .. Size - 1
         /\ Gap(w, r) = 0 <=> w = r
         /\ Next1(w) \in Pos
         /\ r # w => Gap(w, Next1(r)) = Gap(w, r) - 1
         /\ Next1(w) # r => Gap(Next1(w), r) = Gap(w, r) + 1
         /\ Next1(w) = r => Gap(w, r) = Size - 1
  BY Next1Wraps, FifoAssumption DEF Gap, Pos

LEMMA InitIInv == Discipline /\ Init => IInv
  BY FifoAssumption
  DEF Init, IInv, TypeOK, HoldsNewest, CopiesFresh, Popping, Ages, Count, Gap, Pos

-----------------------------------------------------------------------------
(* The handler, both ways of pushing.                                      *)
LEMMA HandlerStep == IInv /\ Handler => IInv'
<1> SUFFICES ASSUME IInv, Handler PROVE IInv'
  OBVIOUS
<1> USE FifoAssumption DEF IInv
<1>1. /\ irq /\ serial \in Nat /\ wpos \in Pos /\ rpos \in Pos
      /\ pc \notin {"dump", "dump2"}
      /\ wpos' = Next1(wpos) /\ serial' = serial + 1
      /\ buf' = [buf EXCEPT ![wpos] = serial]
      /\ rpos' \in Pos
      /\ UNCHANGED <<irq, pc, lrpos, data, out, floor>>
  BY GapFacts DEF TypeOK, CopiesFresh, Handler, Push, PushForce, Store
<1>2. \/ Next1(wpos) # rpos /\ rpos' = rpos
      \/ Forced /\ Next1(wpos) = rpos /\ rpos' = Next1(rpos) /\ ~Popping
  BY <1>1, GapFacts, Next1Wraps DEF Handler, Push, PushForce, CopiesFresh, Discipline, Pos
<1>3. Count \in 0 .. Size - 1 /\ Count' \in 0 .. Size - 1
  BY <1>1, GapFacts DEF Count
<1>4. serial' - Count' >= serial - Count /\ Count' <= Count + 1
  <2>1. CASE Next1(wpos) # rpos /\ rpos' = rpos
    <3>1. Count' = Count + 1
      BY <1>1, <2>1, GapFacts DEF Count
    <3> QED BY <3>1, <1>1, <1>3
  <2>2. CASE Next1(wpos) = rpos /\ rpos' = Next1(rpos)
    <3>1. Count = Size - 1 /\ Gap(wpos', rpos') = Size - 1
      BY <1>1, <2>2, Next1Wraps DEF Count, Gap, Pos
    <3> QED BY <3>1, <1>1, <1>3 DEF Count
  <2> QED BY <1>2, <2>1, <2>2
<1>5. TypeOK'
  BY <1>1, GapFacts DEF TypeOK
<1>6. HoldsNewest'
  <2> SUFFICES ASSUME NEW p \in Pos, Gap(wpos', p) \in 1 .. Count'
               PROVE  buf'[p] = serial' - Gap(wpos', p)
    BY DEF HoldsNewest
  <2>1. CASE p = wpos
    BY <1>1, <2>1, Next1Wraps DEF Gap, Pos, TypeOK
  <2>2. CASE p # wpos
    <3>1. Next1(wpos) # p
      BY <1>1, <1>3, <2>2, GapFacts
    <3>2. Gap(wpos', p) = Gap(wpos, p) + 1
      BY <3>1, <1>1, GapFacts
    <3>3. Gap(wpos, p) \in 1 .. Count
      BY <3>2, <2>2, <1>1, <1>3, <1>4, GapFacts
    <3>4. buf[p] = serial - Gap(wpos, p)
      BY <3>3, <1>1 DEF HoldsNewest
    <3>5. buf'[p] = buf[p]
      BY <1>1, <2>2 DEF TypeOK
    <3> QED BY <3>2, <3>4, <3>5, <1>1, GapFacts
  <2> QED BY <2>1, <2>2
<1>7. CopiesFresh'
  BY <1>1, <1>2, GapFacts DEF CopiesFresh, Popping, TypeOK
<1>8. Ages'
  <2>1. out < serial - Count /\ floor <= serial - Count /\ serial >= 1
    BY <1>1 DEF Ages
  <2>2. out \in Nat /\ floor \in Nat /\ out' = out /\ floor' = floor
    BY <1>1 DEF TypeOK
  <2>3. serial' >= 1 /\ out' < serial' /\ floor' <= serial'
    BY <1>1, <1>3, <2>1, <2>2
  <2>4. out' < serial' - Count' /\ floor' <= serial' - Count'
    <3>1. /\ serial \in Int /\ Count \in Int /\ serial' \in Int /\ Count' \in Int
          /\ out' \in Int /\ floor' \in Int
      BY <1>1, <1>3, <2>2
    <3>2. out' < serial - Count /\ floor' <= serial - Count
      BY <2>1, <2>2
    <3> QED BY <3>1, <3>2, <1>4, Older, Zenon
  <2> QED BY <2>3, <2>4 DEF Ages
<1> QED BY <1>5, <1>6, <1>7, <1>8

(* The steps of main that leave the ring alone.                            *)
LEMMA LocalStep ==
  IInv /\ (PopEnter \/ PopLoad \/ PopTest \/ PopRead \/ DumpEnter \/ Leave
           \/ UNCHANGED vars) => IInv'
<1> SUFFICES ASSUME IInv,
                    PopEnter \/ PopLoad \/ PopTest \/ PopRead \/ DumpEnter \/ Leave
                    \/ UNCHANGED vars
             PROVE  IInv'
  OBVIOUS
<1> USE FifoAssumption
<1>1. UNCHANGED <<buf, wpos, rpos, serial, out, floor>> /\ Count' = Count
  BY DEF PopEnter, PopLoad, PopTest, PopRead, DumpEnter, Leave, vars, ring, Count, Gap
<1>2. TypeOK'
  BY DEF IInv, TypeOK, PopEnter, PopLoad, PopTest, PopRead, DumpEnter, Leave, vars, ring
<1>3. pc' = "dump2" <=> pc = "dump2"
  BY DEF PopEnter, PopLoad, PopTest, PopRead, DumpEnter, Leave, vars
<1>4. HoldsNewest' /\ Ages'
  BY <1>1, <1>3 DEF IInv, HoldsNewest, Ages, Gap
<1>5. CopiesFresh'
  <2> USE DEF IInv, TypeOK, CopiesFresh, Popping
  <2>1. CASE PopEnter
    BY <1>1, <2>1 DEF PopEnter
  <2>2. CASE PopLoad
    BY <1>1, <2>2 DEF PopLoad
  <2>3. CASE PopTest
    BY <1>1, <2>3 DEF PopTest
  <2>4. CASE PopRead
    BY <1>1, <2>4 DEF PopRead
  <2>5. CASE DumpEnter
    BY <1>1, <2>5 DEF DumpEnter
  <2>6. CASE Leave
    BY <1>1, <2>6 DEF Leave
  <2>7. CASE UNCHANGED vars
    BY <1>1, <2>7 DEF vars
  <2> QED BY <2>1, <2>2, <2>3, <2>4, <2>5, <2>6, <2>7
<1> QED BY <1>2, <1>4, <1>5 DEF IInv

LEMMA PopStoreStep == IInv /\ PopStore => IInv' /\ Count' = Count - 1
<1> SUFFICES ASSUME IInv, PopStore PROVE IInv' /\ Count' = Count - 1
  OBVIOUS
<1> USE FifoAssumption DEF IInv
<1>1. /\ wpos \in Pos /\ rpos \in Pos /\ rpos # wpos /\ serial \in Nat
      /\ data = buf[rpos] /\ rpos' = Next1(rpos) /\ rpos' \in Pos
      /\ out' = data /\ pc = "store" /\ pc' = "leave"
      /\ UNCHANGED <<buf, wpos, irq, lrpos, data, serial, floor>>
  BY GapFacts DEF TypeOK, CopiesFresh, PopStore
<1>2. Count \in 1 .. Size - 1 /\ Count' = Count - 1
  BY <1>1, GapFacts DEF Count
<1>3. out' = serial - Count
  BY <1>1, <1>2 DEF HoldsNewest, Count
<1>4. TypeOK'
  BY <1>1 DEF TypeOK
<1>5. HoldsNewest'
  BY <1>1, <1>2, GapFacts DEF HoldsNewest, Gap
<1>6. CopiesFresh'
  BY <1>1 DEF CopiesFresh, Popping
<1>7. Ages'
  BY <1>1, <1>2, <1>3 DEF Ages, TypeOK
<1> QED BY <1>2, <1>4, <1>5, <1>6, <1>7

LEMMA DumpStep == IInv /\ (DumpWpos \/ DumpRpos) => IInv'
<1> SUFFICES ASSUME IInv, DumpWpos \/ DumpRpos PROVE IInv'
  OBVIOUS
<1> USE FifoAssumption DEF IInv, TypeOK, Pos, CopiesFresh, Popping, Ages
<1>1. CASE DumpWpos
  BY <1>1 DEF DumpWpos, HoldsNewest, Count, Gap
<1>2. CASE DumpRpos
  BY <1>2 DEF DumpRpos, HoldsNewest, Count, Gap
<1> QED BY <1>1, <1>2

LEMMA NextIInv == IInv /\ [Next]_vars => IInv'
  BY HandlerStep, LocalStep, PopStoreStep, DumpStep DEF Next, Main

LEMMA IInvImplies == IInv => TypeOK /\ HoldsNewest /\ FreshInOrder
<1> SUFFICES ASSUME IInv, pc = "store" PROVE data > out /\ data >= floor
  BY DEF IInv, FreshInOrder
<1>1. rpos \in Pos /\ wpos \in Pos /\ rpos # wpos /\ data = buf[rpos] /\ serial \in Nat
  BY DEF IInv, TypeOK, CopiesFresh
<1>2. data = serial - Count
  BY <1>1, GapFacts DEF IInv, HoldsNewest, Count
<1> QED BY <1>1, <1>2, GapFacts DEF IInv, Ages, TypeOK, Count

-----------------------------------------------------------------------------
THEOREM Inductive == Discipline /\ Spec => []IInv
<1>1. Discipline /\ Init => IInv
  BY InitIInv
<1>2. IInv /\ [Next]_vars => IInv'
  BY NextIInv
<1> QED BY <1>1, <1>2, PTL DEF Spec

(* A reader of the fifo gets samples in the order they were taken by the   *)
(* handler, each at most once, and none from before the last dump; and the *)
(* ring always holds the newest accepted samples (fifo_push, fifo_pop,     *)
(* fifo_push_force, fifo_dump).                                            *)
THEOREM SamplesFreshInOrder ==
  Discipline /\ Spec => [](TypeOK /\ HoldsNewest /\ FreshInOrder)
<1>1. IInv => TypeOK /\ HoldsNewest /\ FreshInOrder
  BY IInvImplies
<1> QED BY <1>1, Inductive, PTL

(* Types of the ring and of main's copies, for every ring size.            *)
THEOREM TypeCorrect == Discipline /\ Spec => []TypeOK
<1>1. IInv => TypeOK
  BY IInvImplies
<1> QED BY <1>1, Inductive, PTL

(* Main never takes a sample that is older than one it took before, or     *)
(* than the last dump (fifo_pop, fifo_dump).                               *)
THEOREM NothingOld == Discipline /\ Spec => []FreshInOrder
<1>1. IInv => FreshInOrder
  BY IInvImplies
<1> QED BY <1>1, Inductive, PTL

(* The write of rpos at the end of fifo_pop removes one sample, whatever   *)
(* the handler did since fifo_pop read rpos.                               *)
THEOREM PopRemovesOne == Discipline /\ Spec => PopTakesOne
<1>1. IInv => [PopStore => Count' = Count - 1]_vars
  BY PopStoreStep
<1> QED BY <1>1, Inductive, PTL DEF PopTakesOne

-----------------------------------------------------------------------------
(* Without forced pushes the oldest sample held follows the last one main  *)
(* took, or is the first one after the last dump.                          *)
Gapless ==
  ~Forced /\ pc # "dump2" => serial - Count = out + 1 \/ serial - Count = floor

LEMMA GaplessStep == IInv /\ Gapless /\ [Next]_vars => Gapless'
<1> SUFFICES ASSUME IInv, Gapless, [Next]_vars, ~Forced, pc' # "dump2"
             PROVE  serial' - Count' = out' + 1 \/ serial' - Count' = floor'
  BY DEF Gapless
<1> USE FifoAssumption
<1>1. /\ wpos \in Pos /\ rpos \in Pos /\ serial \in Nat /\ Count \in 0 .. Size - 1
  BY GapFacts DEF IInv, TypeOK, Count
<1>2. CASE Handler
  <2>1. /\ pc # "dump2" /\ wpos' = Next1(wpos) /\ rpos' = rpos /\ Next1(wpos) # rpos
        /\ serial' = serial + 1 /\ out' = out /\ floor' = floor
    BY <1>2 DEF Handler, Push, PushForce, Store
  <2>2. Count' = Count + 1
    BY <1>1, <2>1, GapFacts DEF Count
  <2>3. serial' - Count' = serial - Count
    BY <1>1, <2>1, <2>2
  <2> QED BY <2>1, <2>3 DEF Gapless
<1>3. CASE PopStore
  <2>1. /\ pc = "store" /\ lrpos = rpos /\ rpos # wpos /\ data = buf[rpos]
        /\ out' = data /\ serial' = serial
    BY <1>3 DEF PopStore, IInv, CopiesFresh
  <2>2. Count \in 1 .. Size - 1
    BY <1>1, <2>1, GapFacts DEF Count
  <2>3. data = serial - Count
    BY <1>1, <2>1, <2>2 DEF IInv, HoldsNewest, Count
  <2>4. Count' = Count - 1
    BY <1>3, PopStoreStep
  <2> QED BY <1>1, <2>1, <2>2, <2>3, <2>4
<1>4. CASE DumpWpos
  BY <1>4 DEF DumpWpos
<1>5. CASE DumpRpos
  <2>1. Count' = 0 /\ serial' = serial /\ floor' = serial
    BY <1>5 DEF DumpRpos, Count, Gap, IInv, CopiesFresh
  <2> QED BY <1>1, <2>1
<1>6. CASE PopEnter \/ PopLoad \/ PopTest \/ PopRead \/ DumpEnter \/ Leave
           \/ UNCHANGED vars
  <2>1. /\ pc # "dump2" /\ Count' = Count
        /\ serial' = serial /\ out' = out /\ floor' = floor
    BY <1>6 DEF PopEnter, PopLoad, PopTest, PopRead, DumpEnter, Leave, vars, ring,
                Count, Gap
  <2> QED BY <2>1 DEF Gapless
<1> QED BY <1>2, <1>3, <1>4, <1>5, <1>6 DEF Next, Main

(* With fifo_push main gets every sample the handler stored: the next one  *)
(* it takes is the successor of the last one, or the first one after the   *)
(* last fifo_dump.                                                         *)
THEOREM NothingLost == ~Forced /\ Spec => []NoLoss
<1>1. ~Forced => Discipline
  BY DEF Discipline
<1>2. Init => Gapless
  BY FifoAssumption DEF Init, Gapless, Count, Gap
<1>3. IInv /\ Gapless /\ [Next]_vars => Gapless'
  BY GaplessStep
<1>4. IInv /\ Gapless => NoLoss
  <2> SUFFICES ASSUME IInv, Gapless, ~Forced, pc = "store"
               PROVE  data = out + 1 \/ data = floor
    BY DEF NoLoss
  <2>1. wpos \in Pos /\ rpos \in Pos /\ rpos # wpos /\ data = buf[rpos]
    BY DEF IInv, TypeOK, CopiesFresh
  <2>2. data = serial - Count
    BY <2>1, GapFacts, FifoAssumption DEF IInv, HoldsNewest, Count, TypeOK
  <2> QED BY <2>2 DEF Gapless
<1> QED BY <1>1, <1>2, <1>3, <1>4, Inductive, PTL DEF Spec

-----------------------------------------------------------------------------
(* The refinement of BoundedQueue.  The ring holds consecutive serial      *)
(* numbers, so its contents are a run of them.                             *)
Serials(first, n) == [i \in 1 .. n |-> first + i - 1]

LEMMA SerialsSeq ==
  ASSUME NEW k \in Int, NEW n \in Nat
  PROVE  Serials(k, n) \in Seq(Int) /\ Len(Serials(k, n)) = n
  BY DEF Serials

LEMMA SerialsAppend ==
  ASSUME NEW k \in Int, NEW n \in Nat
  PROVE  Append(Serials(k, n), k + n) = Serials(k, n + 1)
<1>1. Serials(k, n) \in Seq(Int) /\ Len(Serials(k, n)) = n
  BY SerialsSeq
<1>2. Append(Serials(k, n), k + n)
        = [i \in 1 .. n + 1 |-> IF i = n + 1 THEN k + n ELSE Serials(k, n)[i]]
  BY <1>1
<1> QED BY <1>2 DEF Serials

LEMMA SerialsTail ==
  ASSUME NEW k \in Int, NEW n \in Nat, n # 0
  PROVE  /\ Serials(k, n) # << >>
         /\ Head(Serials(k, n)) = k
         /\ Tail(Serials(k, n)) = Serials(k + 1, n - 1)
<1>1. Serials(k, n) \in Seq(Int) /\ Len(Serials(k, n)) = n
  BY SerialsSeq
<1>2. Serials(k, n) # << >>
  BY <1>1
<1>3. Head(Serials(k, n)) = Serials(k, n)[1]
  BY <1>1, <1>2
<1>4. Head(Serials(k, n)) = k
  BY <1>3 DEF Serials
<1>5. Tail(Serials(k, n)) = Serials(k + 1, n - 1)
  <2>1. Tail(Serials(k, n)) \in Seq(Int) /\ Len(Tail(Serials(k, n))) = n - 1
    BY <1>1, <1>2
  <2>2. Serials(k + 1, n - 1) \in Seq(Int) /\ Len(Serials(k + 1, n - 1)) = n - 1
    BY SerialsSeq
  <2>3. ASSUME NEW i \in 1 .. n - 1
        PROVE  Tail(Serials(k, n))[i] = Serials(k + 1, n - 1)[i]
    <3>1. Tail(Serials(k, n))[i] = Serials(k, n)[i + 1]
      BY <1>1, <1>2
    <3> QED BY <3>1 DEF Serials
  <2> QED BY <2>1, <2>2, <2>3, SeqEqual
<1> QED BY <1>2, <1>4, <1>5

LEMMA NoSerials == \A k \in Int : Serials(k, 0) = << >>
  BY DEF Serials

LEMMA Wraps ==
  ASSUME NEW r \in Pos, NEW i \in 0 .. Size - 1
  PROVE  (r + i) % Size = IF r + i < Size THEN r + i ELSE r + i - Size
  BY FifoAssumption DEF Pos

LEMMA ContentsSerials ==
  IInv /\ pc # "dump2" => Contents = Serials(serial - Count, Count)
<1> SUFFICES ASSUME IInv, pc # "dump2"
             PROVE  Contents = Serials(serial - Count, Count)
  OBVIOUS
<1> USE FifoAssumption
<1>1. wpos \in Pos /\ rpos \in Pos /\ serial \in Nat /\ Count \in 0 .. Size - 1
  BY GapFacts DEF IInv, TypeOK, Count
<1>2. ASSUME NEW i \in 1 .. Count
      PROVE  buf[(rpos + i - 1) % Size] = serial - Count + i - 1
  <2> DEFINE p == (rpos + i - 1) % Size
  <2>1. i - 1 \in 0 .. Size - 1 /\ rpos + i - 1 = rpos + (i - 1)
    BY <1>1 DEF Pos
  <2>2. p = IF rpos + (i - 1) < Size THEN rpos + (i - 1) ELSE rpos + (i - 1) - Size
    BY <2>1, <1>1, Wraps
  <2> HIDE DEF p
  <2>3. p \in Pos
    BY <2>1, <2>2, <1>1 DEF Pos
  <2>4. Gap(wpos, p) = Count - (i - 1)
    BY <2>1, <2>2, <1>1 DEF Pos, Gap, Count
  <2>5. buf[p] = serial - Gap(wpos, p)
    BY <2>3, <2>4, <1>1 DEF IInv, HoldsNewest
  <2>6. buf[p] = serial - Count + i - 1
    BY <2>4, <2>5, <1>1
  <2> QED BY <2>6 DEF p
<1> QED BY <1>2 DEF Contents, Serials

LEMMA ContentsSerialsNext ==
  IInv' /\ pc' # "dump2" => Contents' = Serials(serial' - Count', Count')
<1>1. (IInv /\ pc # "dump2" => Contents = Serials(serial - Count, Count))'
  BY ContentsSerials, PTL
<1> QED BY <1>1 DEF Serials

LEMMA RefinesInit == Init => Queue!Init
  BY FifoAssumption DEF Init, Queue!Init, Contents, Count, Gap, Pos

LEMMA RefinesHandler == IInv /\ IInv' /\ Handler => Queue!Put
<1> SUFFICES ASSUME IInv, IInv', Handler PROVE Queue!Put
  OBVIOUS
<1> USE FifoAssumption
<1>1. /\ wpos \in Pos /\ rpos \in Pos /\ serial \in Nat /\ Count \in 0 .. Size - 1
      /\ Count' \in 0 .. Size - 1
  BY GapFacts DEF IInv, TypeOK, Count
<1>2. /\ pc # "dump2" /\ pc' # "dump2" /\ serial' = serial + 1 /\ out' = out
  BY DEF Handler, Push, PushForce, Store, IInv, CopiesFresh
<1>3. Contents = Serials(serial - Count, Count)
  BY <1>2, ContentsSerials
<1>4. Contents' = Serials(serial' - Count', Count')
  BY <1>2, ContentsSerialsNext
<1>5. CASE Next1(wpos) # rpos
  <2>1. Count' = Count + 1
    BY <1>1, <1>5, GapFacts DEF Count, Handler, Push, PushForce, Store
  <2>2. Count < Size - 1
    BY <1>1, <2>1
  <2>3. serial' - Count' = serial - Count /\ serial = (serial - Count) + Count
    BY <1>1, <1>2, <2>1
  <2>4. /\ Len(Contents) = Count
        /\ Append(Contents, (serial - Count) + Count) = Serials(serial - Count, Count + 1)
    <3>1. serial - Count \in Int /\ Count \in Nat
      BY <1>1
    <3> QED BY <3>1, <1>3, SerialsSeq, SerialsAppend, Zenon
  <2>5. Len(Contents) < Size - 1 /\ Contents' = Append(Contents, serial)
    BY <1>4, <2>1, <2>2, <2>3, <2>4
  <2> QED BY <2>5, <1>2 DEF Queue!Put
<1>6. CASE Next1(wpos) = rpos
  <2>1. Forced /\ Count = Size - 1 /\ Count' = Size - 1
    <3>1. Forced /\ wpos' = Next1(wpos) /\ rpos' = Next1(rpos)
      BY <1>6 DEF Handler, Push, PushForce, Store
    <3>2. Count = Size - 1 /\ Gap(wpos', rpos') = Size - 1
      BY <1>1, <1>6, <3>1, Next1Wraps DEF Count, Gap, Pos
    <3> QED BY <3>1, <3>2 DEF Count
  <2>2. /\ Count # 0 /\ Count - 1 \in Nat /\ serial - Count \in Int
        /\ serial = (serial - Count + 1) + (Count - 1)
        /\ serial' - Count' = serial - Count + 1 /\ Count' = (Count - 1) + 1
    BY <1>1, <1>2, <2>1
  <2>3. Len(Contents) = Size - 1 /\ Tail(Contents) = Serials(serial - Count + 1, Count - 1)
    <3>1. Count \in Nat
      BY <1>1
    <3> QED BY <3>1, <1>3, <2>1, <2>2, SerialsSeq, SerialsTail, Zenon
  <2>4. /\ serial - Count + 1 \in Int
        /\ Contents' = Serials(serial - Count + 1, (Count - 1) + 1)
    BY <1>4, <2>2
  <2>5. Append(Serials(serial - Count + 1, Count - 1), (serial - Count + 1) + (Count - 1))
          = Serials(serial - Count + 1, (Count - 1) + 1)
    BY <2>2, <2>4, SerialsAppend
  <2>6. Contents' = Append(Tail(Contents), serial)
    BY <2>2, <2>3, <2>4, <2>5
  <2> QED BY <2>1, <2>3, <2>6, <1>2 DEF Queue!Put
<1> QED BY <1>5, <1>6

LEMMA RefinesPopStore == IInv /\ IInv' /\ PopStore => Queue!Take
<1> SUFFICES ASSUME IInv, IInv', PopStore PROVE Queue!Take
  OBVIOUS
<1> USE FifoAssumption
<1>1. /\ wpos \in Pos /\ rpos \in Pos /\ serial \in Nat /\ rpos # wpos
      /\ pc = "store" /\ pc' = "leave" /\ serial' = serial
      /\ out' = buf[rpos]
  BY DEF IInv, TypeOK, CopiesFresh, PopStore
<1>2. Count \in 1 .. Size - 1 /\ Count' = Count - 1
  BY <1>1, GapFacts, PopStoreStep DEF Count
<1>3. Contents = Serials(serial - Count, Count) /\ Contents' = Serials(serial' - Count', Count')
  BY <1>1, ContentsSerials, ContentsSerialsNext
<1>4. out' = serial - Count
  BY <1>1, <1>2 DEF IInv, HoldsNewest, Count
<1>5. /\ serial - Count \in Int /\ Count \in Nat /\ Count # 0
      /\ serial' - Count' = serial - Count + 1
  BY <1>1, <1>2
<1> QED BY <1>1, <1>2, <1>3, <1>4, <1>5, SerialsTail DEF Queue!Take

LEMMA RefinesDump ==
  IInv /\ IInv' /\ (DumpWpos \/ DumpRpos) => Queue!Clear
<1> SUFFICES ASSUME IInv, IInv', DumpWpos \/ DumpRpos PROVE Queue!Clear
  OBVIOUS
<1>1. CASE DumpWpos
  BY <1>1 DEF DumpWpos, Contents, Queue!Clear
<1>2. CASE DumpRpos
  <2>1. Count' = 0 /\ pc' # "dump2" /\ serial' \in Nat
    BY <1>2 DEF DumpRpos, Count, Gap, IInv, CopiesFresh, TypeOK
  <2>2. Contents' = Serials(serial' - Count', Count')
    BY <2>1, ContentsSerialsNext
  <2>3. Contents' = << >>
    BY <2>1, <2>2, NoSerials
  <2> QED BY <1>2, <2>3 DEF DumpRpos, Queue!Clear
<1> QED BY <1>1, <1>2

LEMMA RefinesLocal ==
  PopEnter \/ PopLoad \/ PopTest \/ PopRead \/ DumpEnter \/ Leave \/ UNCHANGED vars
    => UNCHANGED Queue!vars
<1> SUFFICES ASSUME PopEnter \/ PopLoad \/ PopTest \/ PopRead \/ DumpEnter \/ Leave
                    \/ UNCHANGED vars
             PROVE  UNCHANGED Queue!vars
  OBVIOUS
<1>1. /\ UNCHANGED <<buf, wpos, rpos, serial, out>> /\ Count' = Count
      /\ pc' = "dump2" <=> pc = "dump2"
  BY DEF PopEnter, PopLoad, PopTest, PopRead, DumpEnter, Leave, vars, ring, Count, Gap
<1>2. Contents' = Contents
  BY <1>1 DEF Contents
<1> QED BY <1>1, <1>2 DEF Queue!vars

(* The fifo is a bounded queue of Size - 1 samples that refuses a sample   *)
(* when it is full (fifo_push) or replaces its oldest (fifo_push_force).   *)
THEOREM ImplementsBoundedQueue == Discipline /\ Spec => ImplementsQueue
<1>1. Init => Queue!Init
  BY RefinesInit
<1>2. IInv /\ IInv' /\ [Next]_vars => [Queue!Next]_(Queue!vars)
  BY RefinesHandler, RefinesPopStore, RefinesDump, RefinesLocal DEF Next, Main, Queue!Next
<1> QED BY <1>1, <1>2, Inductive, PTL DEF Spec, ImplementsQueue, Queue!Spec
=============================================================================
