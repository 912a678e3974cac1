---------------------------- MODULE CmdQueueProofs ----------------------------
(***************************************************************************)
(* Theorems about CmdQueue, for any lines, any number of them and calls of *)
(* the shell nested to any depth: type correctness with one node for each  *)
(* command, and that a node is executed as often as its line asks, more    *)
(* often only if its command returns a positive code.                      *)
(***************************************************************************)
EXTENDS CmdQueue, WellFoundedInduction, TLAPS

Nodes(k) == [id : 1 .. k, ln : Lines, repeat : Int, runs : Nat, more : BOOLEAN]
Places == {"walk", "run", "read", "exec"}

(* A node that counts its loops has some left, and had the others; what    *)
(* returned a positive code came on top of them.                           *)
Counts(n) ==
    n.repeat > 0 => /\ n.runs + n.repeat >= n.ln.loops /\ n.repeat <= n.ln.loops
                    /\ n.runs + n.repeat > n.ln.loops => n.more

ListOK(l, k) ==
    /\ l \in Seq(Nodes(k))
    /\ \A i \in 1 .. Len(l) : Counts(l[i])
    /\ \A i, j \in 1 .. Len(l) : l[i].ln.cmd = l[j].ln.cmd => i = j

(* The first loop of a line that was typed is over when its node is put in *)
(* the list.                                                               *)
Typed(n, k) == n \in Nodes(k) /\ (n.repeat > 0 => n.repeat + 1 = n.ln.loops)

Frames(k) == [pc : Places, cur : 0 .. k, nxt : 0 .. k, node : {NoNode} \cup Nodes(k)]
FrameOK(f, k) == f \in Frames(k) /\ (f.pc = "exec" => Typed(f.node, k))

(* Only the innermost call of the shell may be in its walk. *)
StackOK(t, k) ==
    /\ t \in Seq(Frames(k)) /\ Len(t) <= MaxNest
    /\ \A i \in 1 .. Len(t) : FrameOK(t[i], k)
    /\ \A i \in 2 .. Len(t) : t[i].pc \in {"run", "exec"}

IInv ==
    /\ nline \in 0 .. MaxLine /\ due \subseteq 1 .. nline /\ flag \in BOOLEAN
    /\ ListOK(list, nline) /\ StackOK(stack, nline)
    /\ LoopsExact

-----------------------------------------------------------------------------
(* Lists with a node taken out, changed or put in front. *)

LEMMA Least ==
    ASSUME NEW S \in SUBSET Nat, S # {} PROVE \E x \in S : \A y \in S : x =< y
<1> DEFINE R == OpToRel(<, Nat)
<1>1. R = {p \in Nat \X Nat : p[1] < p[2]}
  BY DEF OpToRel
<1>2. IsWellFoundedOn(R, Nat)
  BY NatLessThanWellFounded
<1> HIDE DEF R
<1>3. PICK x \in S : \A y \in S : ~ (<<y, x>> \in R)
  BY <1>2, WFMin
<1>4. ASSUME NEW y \in S PROVE x =< y
  <2>1. x \in Nat /\ y \in Nat /\ ~ (<<y, x>> \in {p \in Nat \X Nat : p[1] < p[2]})
    BY <1>1, <1>3
  <2>2. ~ (y < x)
    BY <2>1
  <2> QED BY <2>1, <2>2
<1> QED BY <1>4

(* SelectInSeq of the places I. *)
FirstOf(I) == IF I # {} THEN Min(I) ELSE 0

LEMMA FirstFound ==
    ASSUME NEW n \in Nat, NEW I \in SUBSET (1 .. n)
    PROVE  FirstOf(I) \in I \/ (I = {} /\ FirstOf(I) = 0)
<1>1. CASE I # {}
  <2>1. \E x \in I : \A y \in I : x =< y
    BY <1>1, Least
  <2> QED BY <1>1, <2>1 DEF FirstOf, Min
<1> QED BY <1>1 DEF FirstOf

LEMMA QueueIs ==
    ASSUME NEW n
    PROVE  LET m == FirstOf({i \in 1 .. Len(list) : list[i].ln.cmd = n.ln.cmd})
           IN  Queue(n) = <<n>> \o (IF m = 0 THEN list ELSE RemoveAt(list, m))
  BY DEF Queue, SelectInSeq, FirstOf

LEMMA KillIs ==
    ASSUME NEW arg
    PROVE  LET m == FirstOf({i \in 1 .. Len(list) : arg \in {list[i].ln.cmd, "all"}})
           IN  KillFirst(arg) = IF m = 0 THEN list ELSE RemoveAt(list, m)
  BY DEF KillFirst, SelectInSeq, FirstOf

(* A list without one of its nodes has the others. *)
LEMMA Removed ==
    ASSUME NEW k \in Nat, NEW l, ListOK(l, k), NEW m \in 1 .. Len(l)
    PROVE  /\ ListOK(RemoveAt(l, m), k)
           /\ \A i \in 1 .. Len(RemoveAt(l, m)) :
                 \E j \in 1 .. Len(l) \ {m} : RemoveAt(l, m)[i] = l[j]
<1> DEFINE r == RemoveAt(l, m)
<1>1. l \in Seq(Nodes(k)) /\ Len(l) \in Nat /\ m \in 1 .. Len(l)
  BY DEF ListOK
<1>2. /\ r \in Seq(Nodes(k)) /\ Len(r) = Len(l) - 1
      /\ \A i \in 1 .. Len(r) : r[i] = IF i < m THEN l[i] ELSE l[i + 1]
  <2> DEFINE u == SubSeq(l, 1, m - 1)
             w == SubSeq(l, m + 1, Len(l))
  <2>1. u \in Seq(Nodes(k)) /\ Len(u) = m - 1 /\ \A i \in 1 .. m - 1 : u[i] = l[i]
    BY <1>1
  <2>2. /\ w \in Seq(Nodes(k)) /\ Len(w) = Len(l) - m
        /\ \A i \in 1 .. Len(l) - m : w[i] = l[m + i]
    BY <1>1
  <2>3. r = u \o w
    BY DEF RemoveAt
  <2> HIDE DEF u, w, r
  <2>4. r \in Seq(Nodes(k)) /\ Len(r) = Len(l) - 1
    BY <1>1, <2>1, <2>2, <2>3
  <2>5. ASSUME NEW i \in 1 .. Len(r) PROVE r[i] = IF i < m THEN l[i] ELSE l[i + 1]
    <3>1. CASE i < m
      BY <1>1, <2>1, <2>2, <2>3, <2>4, <3>1
    <3>2. CASE ~ (i < m)
      <4>1. r[i] = w[i - (m - 1)] /\ i - (m - 1) \in 1 .. Len(l) - m
        BY <1>1, <2>1, <2>2, <2>3, <2>4, <3>2
      <4> QED BY <1>1, <2>2, <2>4, <3>2, <4>1
    <3> QED BY <3>1, <3>2
  <2> QED BY <2>4, <2>5
<1> HIDE DEF r
<1>3. \A i \in 1 .. Len(r) : \E j \in 1 .. Len(l) \ {m} : r[i] = l[j] /\ j = IF i < m THEN i ELSE i + 1
  BY <1>1, <1>2
<1>4. \A i \in 1 .. Len(r) : Counts(r[i])
  BY <1>3 DEF ListOK
<1>5. \A i, j \in 1 .. Len(r) : r[i].ln.cmd = r[j].ln.cmd => i = j
  <2> SUFFICES ASSUME NEW i \in 1 .. Len(r), NEW j \in 1 .. Len(r), r[i].ln.cmd = r[j].ln.cmd
               PROVE  i = j
    OBVIOUS
  <2>1. /\ (IF i < m THEN i ELSE i + 1) \in 1 .. Len(l) /\ r[i] = l[IF i < m THEN i ELSE i + 1]
        /\ (IF j < m THEN j ELSE j + 1) \in 1 .. Len(l) /\ r[j] = l[IF j < m THEN j ELSE j + 1]
    BY <1>3
  <2>2. (IF i < m THEN i ELSE i + 1) = (IF j < m THEN j ELSE j + 1)
    BY <2>1 DEF ListOK
  <2> QED BY <1>1, <1>2, <2>2
<1> QED BY <1>2, <1>3, <1>4, <1>5 DEF ListOK, r

LEMMA InFront ==
    ASSUME NEW k \in Nat, NEW l, ListOK(l, k), NEW n \in Nodes(k), Counts(n),
           \A i \in 1 .. Len(l) : l[i].ln.cmd # n.ln.cmd
    PROVE  ListOK(<<n>> \o l, k)
<1> DEFINE r == <<n>> \o l
<1>1. /\ l \in Seq(Nodes(k)) /\ r \in Seq(Nodes(k)) /\ Len(r) = Len(l) + 1 /\ Len(l) \in Nat
      /\ \A i \in 1 .. Len(r) : r[i] = IF i = 1 THEN n ELSE l[i - 1]
  BY DEF ListOK
<1> HIDE DEF r
<1>2. \A i \in 1 .. Len(r) : Counts(r[i])
  BY <1>1 DEF ListOK
<1>3. \A i, j \in 1 .. Len(r) : r[i].ln.cmd = r[j].ln.cmd => i = j
  <2> SUFFICES ASSUME NEW i \in 1 .. Len(r), NEW j \in 1 .. Len(r), r[i].ln.cmd = r[j].ln.cmd
               PROVE  i = j
    OBVIOUS
  <2>1. CASE i = 1 \/ j = 1
    <3>1. ASSUME NEW h \in 1 .. Len(r), h # 1 PROVE r[h].ln.cmd # n.ln.cmd
      <4>1. h - 1 \in 1 .. Len(l) /\ r[h] = l[h - 1]
        BY <1>1, <3>1
      <4> QED BY <4>1
    <3> QED BY <1>1, <2>1, <3>1
  <2>2. CASE i # 1 /\ j # 1
    <3>1. i - 1 \in 1 .. Len(l) /\ j - 1 \in 1 .. Len(l) /\ r[i] = l[i - 1] /\ r[j] = l[j - 1]
      BY <1>1, <2>2
    <3>2. i - 1 = j - 1
      BY <3>1 DEF ListOK
    <3> QED BY <3>2
  <2> QED BY <2>1, <2>2
<1> QED BY <1>1, <1>2, <1>3 DEF ListOK, r

LEMMA QueueOK ==
    ASSUME NEW k \in Nat, ListOK(list, k), NEW n \in Nodes(k), Counts(n)
    PROVE  ListOK(Queue(n), k)
<1> DEFINE I == {i \in 1 .. Len(list) : list[i].ln.cmd = n.ln.cmd}
           m == FirstOf(I)
<1>1. Len(list) \in Nat /\ I \in SUBSET (1 .. Len(list))
  BY DEF ListOK
<1>2. m \in I \/ (I = {} /\ m = 0)
  BY <1>1, FirstFound
<1>3. Queue(n) = <<n>> \o (IF m = 0 THEN list ELSE RemoveAt(list, m))
  BY QueueIs
<1> HIDE DEF m
<1>4. CASE I = {} /\ m = 0
  BY <1>3, <1>4, InFront
<1>5. CASE m \in I
  <2>1. m \in 1 .. Len(list) /\ m # 0 /\ list[m].ln.cmd = n.ln.cmd
    BY <1>1, <1>5
  <2>2. \A j \in 1 .. Len(list) \ {m} : list[j].ln.cmd # n.ln.cmd
    BY <2>1 DEF ListOK
  <2>3. /\ ListOK(RemoveAt(list, m), k)
        /\ \A i \in 1 .. Len(RemoveAt(list, m)) : RemoveAt(list, m)[i].ln.cmd # n.ln.cmd
    BY <2>1, <2>2, Removed
  <2> QED BY <1>3, <2>1, <2>3, InFront
<1> QED BY <1>2, <1>4, <1>5

LEMMA KillOK ==
    ASSUME NEW k \in Nat, ListOK(list, k), NEW arg PROVE ListOK(KillFirst(arg), k)
<1> DEFINE I == {i \in 1 .. Len(list) : arg \in {list[i].ln.cmd, "all"}}
           m == FirstOf(I)
<1>1. Len(list) \in Nat /\ I \in SUBSET (1 .. Len(list))
  BY DEF ListOK
<1>2. m \in I \/ (I = {} /\ m = 0)
  BY <1>1, FirstFound
<1>3. KillFirst(arg) = IF m = 0 THEN list ELSE RemoveAt(list, m)
  BY KillIs
<1> HIDE DEF m
<1> QED BY <1>1, <1>2, <1>3, Removed

LEMMA CallOK ==
    ASSUME NEW k \in Nat, ListOK(list, k), flag \in BOOLEAN, NEW ln, Call(ln)
    PROVE  ListOK(list', k) /\ flag' \in BOOLEAN
<1>1. ListOK(list', k)
  BY KillOK DEF Call
<1>2. flag' \in BOOLEAN
  BY DEF Call
<1> QED BY <1>1, <1>2

(* A node that was executed once more. *)
LEMMA Replaced ==
    ASSUME NEW k \in Nat, ListOK(list, k), NEW i \in 1 .. Len(list), NEW n \in Nodes(k),
           Counts(n), n.ln = list[i].ln
    PROVE  ListOK(ReplaceAt(list, i, n), k)
<1> DEFINE r == ReplaceAt(list, i, n)
<1>1. /\ list \in Seq(Nodes(k)) /\ r \in Seq(Nodes(k)) /\ Len(r) = Len(list)
      /\ \A j \in 1 .. Len(r) : r[j] = IF j = i THEN n ELSE list[j]
  BY DEF ListOK, ReplaceAt
<1> HIDE DEF r
<1>2. \A j \in 1 .. Len(r) : Counts(r[j]) /\ r[j].ln = list[j].ln
  BY <1>1 DEF ListOK
<1>3. \A j, h \in 1 .. Len(r) : r[j].ln.cmd = r[h].ln.cmd => j = h
  BY <1>1, <1>2 DEF ListOK
<1> QED BY <1>1, <1>2, <1>3 DEF ListOK, r

-----------------------------------------------------------------------------
(* Calls of the shell. *)

LEMMA GotoOK ==
    ASSUME NEW k \in Nat, StackOK(stack, k), stack # << >>, NEW f, FrameOK(f, k), Goto(f)
    PROVE  StackOK(stack', k)
<1>1. stack \in Seq(Frames(k)) /\ f \in Frames(k) /\ stack' = <<f>> \o Tail(stack)
  BY DEF StackOK, FrameOK, Goto
<1>2. /\ stack' \in Seq(Frames(k)) /\ Len(stack') = Len(stack)
      /\ \A i \in 1 .. Len(stack') : stack'[i] = IF i = 1 THEN f ELSE stack[i]
  BY <1>1
<1> QED BY <1>2 DEF StackOK

LEMMA ReturnOK ==
    ASSUME NEW k \in Nat, StackOK(stack, k), stack # << >>, stack' = Tail(stack)
    PROVE  StackOK(stack', k)
<1>1. /\ stack' \in Seq(Frames(k)) /\ Len(stack') = Len(stack) - 1 /\ Len(stack) \in Nat
      /\ \A i \in 1 .. Len(stack') : stack'[i] = stack[i + 1]
  BY DEF StackOK
<1> QED BY <1>1, CmdQueueAssumption DEF StackOK

LEMMA CalledOK ==
    ASSUME NEW k \in Nat, StackOK(stack, k), NEW f, FrameOK(f, k), stack' = <<f>> \o stack,
           \/ stack = << >>
           \/ Len(stack) < MaxNest /\ stack[1].pc \in {"run", "exec"}
    PROVE  StackOK(stack', k)
<1>1. /\ stack' \in Seq(Frames(k)) /\ Len(stack') = Len(stack) + 1 /\ Len(stack) \in Nat
      /\ \A i \in 1 .. Len(stack') : stack'[i] = IF i = 1 THEN f ELSE stack[i - 1]
  BY DEF StackOK, FrameOK
<1>2. Len(stack') <= MaxNest
  BY <1>1, CmdQueueAssumption
<1>3. ASSUME NEW i \in 2 .. Len(stack') PROVE stack'[i].pc \in {"run", "exec"}
  <2>1. i - 1 \in 1 .. Len(stack) /\ stack'[i] = stack[i - 1] /\ stack # << >>
    BY <1>1
  <2>2. CASE i = 2
    BY <2>1, <2>2
  <2>3. CASE i # 2
    BY <2>1, <2>3 DEF StackOK
  <2> QED BY <2>2, <2>3
<1>4. ASSUME NEW i \in 1 .. Len(stack') PROVE FrameOK(stack'[i], k)
  BY <1>1 DEF StackOK
<1> QED BY <1>1, <1>2, <1>3, <1>4 DEF StackOK

(* A line more was typed. *)
LEMMA Later ==
    ASSUME NEW k \in Nat
    PROVE  /\ \A l : ListOK(l, k) => ListOK(l, k + 1)
           /\ \A t : StackOK(t, k) => StackOK(t, k + 1)
<1>1. Nodes(k) \subseteq Nodes(k + 1) /\ Frames(k) \subseteq Frames(k + 1)
  BY DEF Nodes, Frames
<1>2. ASSUME NEW l, ListOK(l, k) PROVE ListOK(l, k + 1)
  BY <1>1, <1>2 DEF ListOK
<1>3. ASSUME NEW t, StackOK(t, k) PROVE StackOK(t, k + 1)
  BY <1>1, <1>3 DEF StackOK, FrameOK, Typed
<1> QED BY <1>2, <1>3

-----------------------------------------------------------------------------
(* Steps of the shell. *)

LEMMA Here ==
    ASSUME IInv, NEW pc, In(pc)
    PROVE  /\ stack # << >> /\ FrameOK(stack[1], nline) /\ stack[1].pc = pc
           /\ stack[1].cur \in 0 .. nline /\ stack[1].nxt \in 0 .. nline
<1>1. stack # << >> /\ stack \in Seq(Frames(nline)) /\ 1 \in 1 .. Len(stack)
  BY DEF In, IInv, StackOK
<1> QED BY <1>1 DEF In, IInv, StackOK, FrameOK, Frames

LEMMA NodeAt ==
    ASSUME IInv, NEW id \in Ids
    PROVE  /\ At(id) \in 1 .. Len(list) /\ list[At(id)].id = id
           /\ list[At(id)] \in Nodes(nline) /\ Counts(list[At(id)])
           /\ id \in 1 .. nline /\ After(id) \in 0 .. nline
<1>1. list \in Seq(Nodes(nline)) /\ DOMAIN list = 1 .. Len(list) /\ Len(list) \in Nat
  BY DEF IInv, ListOK
<1>2. At(id) \in 1 .. Len(list) /\ list[At(id)].id = id
  BY <1>1 DEF Ids, At
<1>3. \A i \in 1 .. Len(list) : list[i] \in Nodes(nline) /\ list[i].id \in 1 .. nline
  <2>1. \A i \in 1 .. Len(list) : list[i] \in Nodes(nline)
    BY <1>1
  <2>2. \A n \in Nodes(nline) : n.id \in 1 .. nline
    BY DEF Nodes
  <2> QED BY <2>1, <2>2
<1>4. After(id) \in 0 .. nline
  <2>1. CASE At(id) = Len(list)
    BY <2>1 DEF After, IInv
  <2>2. CASE At(id) # Len(list)
    <3>1. At(id) + 1 \in 1 .. Len(list)
      BY <1>1, <1>2, <2>2
    <3> QED BY <1>3, <2>2, <3>1 DEF After
  <2> QED BY <2>1, <2>2
<1> QED BY <1>2, <1>3, <1>4 DEF IInv, ListOK

LEMMA FramesMade ==
    ASSUME NEW k \in Nat
    PROVE  /\ FrameOK(ReadLine, k)
           /\ \A nxt \in 0 .. k : FrameOK(Walk(nxt), k)
           /\ \A cur, nxt \in 0 .. k : FrameOK(Run(cur, nxt), k)
           /\ \A n : Typed(n, k) => FrameOK(Exec(n), k)
<1>1. 0 \in 0 .. k
  OBVIOUS
<1> QED BY <1>1 DEF FrameOK, Frames, Places, ReadLine, Walk, Run, Exec, Frame, Typed

LEMMA UpdateOK == ASSUME IInv, Update PROVE IInv'
<1>1. First \in 0 .. nline
  <2>1. list = << >> \/ (list # << >> /\ list[1] \in Nodes(nline))
    BY DEF IInv, ListOK
  <2> QED BY <2>1 DEF First, IInv, Nodes
<1>2. FrameOK(IF flag THEN ReadLine ELSE Walk(First), nline)
  BY <1>1, FramesMade DEF IInv
<1>3. StackOK(stack', nline)
  BY <1>2, CalledOK DEF Update, In, IInv
<1> QED BY <1>3 DEF Update, IInv, LoopsExact

LEMMA PassOK == ASSUME IInv, Pass PROVE IInv'
<1> DEFINE n == list[At(stack[1].nxt)]
<1>1. n.id \in Ids /\ Goto(Walk(After(n.id)))
  BY NodeAt DEF Pass
<1>2. FrameOK(Walk(After(n.id)), nline)
  BY <1>1, NodeAt, FramesMade DEF IInv
<1>3. StackOK(stack', nline)
  BY <1>1, <1>2, GotoOK, Here DEF Pass, IInv
<1> QED BY <1>3 DEF Pass, IInv, LoopsExact

LEMMA BeginOK == ASSUME IInv, Begin PROVE IInv'
<1> DEFINE n == list[At(stack[1].nxt)]
<1>1. /\ n.id \in Ids /\ n.id \in 1 .. nline /\ After(n.id) \in 0 .. nline
      /\ Goto(Run(n.id, After(n.id))) /\ Call(n.ln)
  BY NodeAt DEF Begin
<1>2. FrameOK(Run(n.id, After(n.id)), nline)
  BY <1>1, FramesMade DEF IInv
<1>3. StackOK(stack', nline)
  BY <1>1, <1>2, GotoOK, Here DEF Begin, IInv
<1>4. ListOK(list', nline) /\ flag' \in BOOLEAN
  BY <1>1, CallOK DEF IInv
<1>5. due' \subseteq 1 .. nline
  BY DEF Begin, IInv
<1> QED BY <1>3, <1>4, <1>5 DEF Begin, IInv, LoopsExact

LEMMA FinishOK == ASSUME IInv, Finish PROVE IInv'
<1> DEFINE i == At(stack[1].cur)
           n == list[i]
<1>1. i \in 1 .. Len(list) /\ n \in Nodes(nline) /\ Counts(n)
  BY NodeAt DEF Finish
<1>2. PICK ret \in Returns(n.ln) :
        /\ list' = IF Finished(n, ret) THEN RemoveAt(list, i)
                   ELSE ReplaceAt(list, i, Again(n, ret))
        /\ last' = IF Finished(n, ret) /\ ret = 0 THEN Again(n, ret) ELSE NoNode
  BY DEF Finish
<1> HIDE DEF i, n
<1>3. ret \in Int
  BY <1>2 DEF Returns
<1>4. /\ Again(n, ret) \in Nodes(nline) /\ Again(n, ret).ln = n.ln
      /\ (ret >= 0 => Counts(Again(n, ret)))
      /\ (Finished(n, ret) /\ ret = 0 =>
            /\ Again(n, ret).runs >= n.ln.loops
            /\ Again(n, ret).runs > n.ln.loops => Again(n, ret).more)
  <2> DEFINE rep == IF ret = 0 /\ n.repeat > 0 THEN n.repeat - 1 ELSE n.repeat
             rns == IF n.runs > n.ln.loops THEN n.runs ELSE n.runs + 1
             mor == n.more \/ ret > 0
  <2>1. /\ n.repeat \in Int /\ n.runs \in Nat /\ n.ln \in Lines /\ n.ln.loops \in Int
        /\ n.more \in BOOLEAN /\ n.id \in 1 .. nline
        /\ n = [id |-> n.id, ln |-> n.ln, repeat |-> n.repeat, runs |-> n.runs, more |-> n.more]
    BY <1>1, CmdQueueAssumption DEF Nodes
  <2>2. Again(n, ret) = [id |-> n.id, ln |-> n.ln, repeat |-> rep, runs |-> rns, more |-> mor]
    <3>1. Again(n, ret) = [n EXCEPT !.repeat = rep, !.runs = rns, !.more = mor]
      BY DEF Again
    <3> HIDE DEF rep, rns, mor
    <3> QED BY <2>1, <3>1
  <2>3. rep \in Int /\ rns \in Nat /\ mor \in BOOLEAN
    BY <1>3, <2>1
  <2>4. ASSUME ret >= 0, rep > 0
        PROVE  /\ rns + rep >= n.ln.loops /\ rep <= n.ln.loops
               /\ rns + rep > n.ln.loops => mor
    <3>1. /\ n.repeat > 0 /\ n.runs + n.repeat >= n.ln.loops /\ n.repeat <= n.ln.loops
          /\ n.runs + n.repeat > n.ln.loops => n.more
      BY <1>1, <2>1, <2>4 DEF Counts
    <3>2. CASE ret = 0
      BY <2>1, <3>1, <3>2
    <3>3. CASE ret > 0
      BY <2>1, <3>1, <3>3
    <3> QED BY <1>3, <2>4, <3>2, <3>3
  <2>5. ret = 0 /\ n.repeat > 0 /\ rep = 0
          => rns >= n.ln.loops /\ (rns > n.ln.loops => mor)
    BY <1>1, <2>1 DEF Counts
  <2> HIDE DEF rep, rns, mor
  <2>6. /\ Again(n, ret).repeat = rep /\ Again(n, ret).runs = rns
        /\ Again(n, ret).more = mor /\ Again(n, ret).ln = n.ln
    BY <2>2
  <2>7. Again(n, ret) \in Nodes(nline)
    BY <2>1, <2>2, <2>3 DEF Nodes
  <2>8. ret >= 0 => Counts(Again(n, ret))
    BY <2>4, <2>6, Zenon DEF Counts
  <2>9. Finished(n, ret) /\ ret = 0 => n.repeat > 0 /\ rep = 0
    BY <2>6 DEF Finished
  <2>10. Finished(n, ret) /\ ret = 0 =>
            /\ Again(n, ret).runs >= n.ln.loops
            /\ Again(n, ret).runs > n.ln.loops => Again(n, ret).more
    BY <2>5, <2>6, <2>9, Zenon
  <2> QED BY <2>6, <2>7, <2>8, <2>10
<1>5. ListOK(list', nline)
  <2>1. /\ nline \in Nat /\ ListOK(list, nline) /\ n = list[i]
        /\ ~Finished(n, ret) => ret >= 0
    BY <1>3 DEF IInv, Finished, n
  <2>2. CASE Finished(n, ret)
    BY <1>1, <1>2, <2>1, <2>2, Removed
  <2>3. CASE ~Finished(n, ret)
    BY <1>1, <1>2, <1>4, <2>1, <2>3, Replaced
  <2> QED BY <2>2, <2>3
<1>6. StackOK(stack', nline)
  BY GotoOK, Here, FramesMade DEF Finish, IInv
<1>7. LoopsExact'
  <2>1. CASE Finished(n, ret) /\ ret = 0
    <3>1. last' = Again(n, ret)
      BY <1>2, <2>1
    <3> QED BY <1>4, <2>1, <3>1 DEF LoopsExact
  <2>2. CASE ~ (Finished(n, ret) /\ ret = 0)
    <3>1. last' = NoNode
      BY <1>2, <2>2
    <3> QED BY <3>1 DEF LoopsExact, NoNode
  <2> QED BY <2>1, <2>2
<1> QED BY <1>5, <1>6, <1>7 DEF Finish, IInv

LEMMA EndsOK == ASSUME IInv, WalkEnd \/ Return PROVE IInv'
<1>1. StackOK(stack', nline)
  BY GotoOK, ReturnOK, Here, FramesMade DEF WalkEnd, Return, IInv
<1> QED BY <1>1 DEF WalkEnd, Return, IInv, LoopsExact

LEMMA TypeStep == ASSUME IInv, Type PROVE IInv'
<1>1. PICK ln \in Lines : Goto(Exec(Preprocess(Node(ln, nline')))) /\ Call(ln)
  BY DEF Type
<1> DEFINE k == nline + 1
           n == Preprocess(Node(ln, k))
<1>2. nline \in Nat /\ k \in Nat /\ nline' = k /\ k \in 0 .. MaxLine
  BY CmdQueueAssumption DEF Type, IInv
<1>3. Typed(n, k)
  <2> DEFINE rep == IF ln.loops = 0 THEN 0 ELSE ln.loops - 1
  <2>1. ln.loops \in Int /\ k \in 1 .. k
    BY <1>2, CmdQueueAssumption
  <2>2. n = [id |-> k, ln |-> ln, repeat |-> rep, runs |-> 0, more |-> FALSE]
    <3>1. Node(ln, k) = [id |-> k, ln |-> ln, repeat |-> 0, runs |-> 0, more |-> FALSE]
      BY DEF Node
    <3>2. n = [Node(ln, k) EXCEPT !.repeat = IF Node(ln, k).ln.loops = 0 THEN 0
                                             ELSE Node(ln, k).ln.loops - 1]
      BY DEF Preprocess
    <3>3. n = [Node(ln, k) EXCEPT !.repeat = rep]
      BY <3>1, <3>2
    <3>4. ASSUME NEW m \in BOOLEAN, NEW r
          PROVE  [[id |-> k, ln |-> ln, repeat |-> 0, runs |-> 0, more |-> m] EXCEPT !.repeat = r]
                   = [id |-> k, ln |-> ln, repeat |-> r, runs |-> 0, more |-> m]
      OBVIOUS
    <3> HIDE DEF rep, n
    <3> QED BY <3>1, <3>3, <3>4
  <2>3. rep \in Int /\ (rep > 0 => rep + 1 = ln.loops)
    BY <2>1
  <2> HIDE DEF rep, n
  <2> QED BY <2>1, <2>2, <2>3 DEF Typed, Nodes
<1>4. ListOK(list, k) /\ StackOK(stack, k) /\ flag \in BOOLEAN
  BY <1>2, Later DEF IInv
<1>5. StackOK(stack', k)
  BY <1>1, <1>2, <1>3, <1>4, FramesMade, GotoOK, Here DEF Type
<1>6. ListOK(list', k) /\ flag' \in BOOLEAN
  BY <1>1, <1>2, <1>4, CallOK
<1>7. due' \subseteq 1 .. k
  BY <1>2 DEF Type, IInv
<1> QED BY <1>2, <1>5, <1>6, <1>7 DEF Type, IInv, LoopsExact

LEMMA ExecuteOK == ASSUME IInv, Execute PROVE IInv'
<1> DEFINE n == [stack[1].node EXCEPT !.runs = 1]
<1>1. Typed(stack[1].node, nline)
  BY Here DEF Execute, FrameOK
<1>2. n \in Nodes(nline) /\ Counts(n)
  BY <1>1, CmdQueueAssumption DEF Typed, Nodes, Counts
<1>3. list' = Queue(n) \/ list' = list
  BY DEF Execute
<1>4. ListOK(list', nline)
  BY <1>2, <1>3, QueueOK DEF IInv
<1>5. StackOK(stack', nline)
  BY ReturnOK, Here DEF Execute, IInv
<1> QED BY <1>4, <1>5 DEF Execute, IInv, LoopsExact

LEMMA TickOK == ASSUME IInv, NEW id, Tick(id) PROVE IInv'
<1>1. id \in 1 .. nline
  BY NodeAt DEF Tick
<1> QED BY <1>1 DEF Tick, IInv, LoopsExact

-----------------------------------------------------------------------------
LEMMA InitIInv == Init => IInv
<1> SUFFICES ASSUME Init PROVE IInv
  OBVIOUS
<1>1. ListOK(<< >>, 0)
  BY DEF ListOK
<1>2. StackOK(<< >>, 0)
  BY CmdQueueAssumption DEF StackOK
<1>3. /\ nline \in 0 .. MaxLine /\ due \subseteq 1 .. nline /\ flag \in BOOLEAN
      /\ list = << >> /\ stack = << >> /\ nline = 0
  <2>1. /\ list = << >> /\ flag = FALSE /\ due = {} /\ stack = << >> /\ nline = 0
    BY Zenon DEF Init
  <2>2. 0 \in 0 .. MaxLine
    BY CmdQueueAssumption
  <2> QED BY <2>1, <2>2
<1>4. LoopsExact
  BY DEF Init, LoopsExact, NoNode
<1> QED BY <1>1, <1>2, <1>3, <1>4 DEF IInv

LEMMA NextIInv == IInv /\ [Next]_vars => IInv'
<1> SUFFICES ASSUME IInv, [Next]_vars PROVE IInv'
  OBVIOUS
<1>1. CASE Shell
  BY <1>1, UpdateOK, PassOK, BeginOK, FinishOK, EndsOK, ExecuteOK DEF Shell
<1>2. CASE Type
  BY <1>2, TypeStep
<1>3. CASE \E id \in 1 .. MaxLine : Tick(id)
  BY <1>3, TickOK
<1>4. CASE UNCHANGED vars
  BY <1>4 DEF vars, IInv, LoopsExact
<1> QED BY <1>1, <1>2, <1>3, <1>4 DEF Next

(* The list, the calls of the shell and the loops left of every node fit   *)
(* each other, at any depth of calls (cmd.c, shell.c).                     *)
THEOREM Inductive == Spec => []IInv
<1> QED BY InitIInv, NextIInv, PTL DEF Spec

LEMMA IInvImplies == IInv => TypeOK
<1> SUFFICES ASSUME IInv PROVE TypeOK
  OBVIOUS
<1>1. DOMAIN list = 1 .. Len(list) /\ DOMAIN stack = 1 .. Len(stack)
  BY DEF IInv, ListOK, StackOK
<1>2. \A i \in 1 .. Len(list) : list[i] \in Nodes(nline)
  BY DEF IInv, ListOK
<1>3. \A i \in 1 .. Len(stack) : stack[i] \in Frames(nline)
  BY DEF IInv, StackOK
<1> QED BY <1>1, <1>2, <1>3 DEF TypeOK, IInv, ListOK, StackOK, Nodes, Frames, Places

(* One node for each command, whatever is typed, killed or paused while    *)
(* commands of the list run (cmd_queue_exec, cmd_queue_update).            *)
THEOREM TypeCorrect == Spec => []TypeOK
  BY Inductive, IInvImplies, PTL

(* "read &100,10 for 10 loops" (cmd.c:104): no node that leaves with its   *)
(* work done was executed less often than asked, or more often without a   *)
(* positive return in the background (cmd.c:305).                          *)
THEOREM LoopsAsAsked == Spec => []LoopsExact
<1>1. IInv => LoopsExact
  BY DEF IInv
<1> QED BY <1>1, Inductive, PTL
=============================================================================
