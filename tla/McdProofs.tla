------------------------------ MODULE McdProofs ------------------------------
(***************************************************************************)
(* Theorems about Mcd with the link of Vchip, for any banks, any word, any *)
(* number of readings and any number of failures: type correctness, that a *)
(* write that returns well was made, the last register's excepted, and     *)
(* that a value that is read was measured in the bank that was set.        *)
(***************************************************************************)
EXTENDS Mcd, FiniteSetTheorems, SequenceTheorems, TLAPS

Link == Bytes \cup {READ}

(* What is left of a frame when n bytes of its word d have been sent.      *)
Coded(b, t) == IF b \in {SOH, ESC} THEN Cons(ESC, Cons(b, t)) ELSE Cons(b, t)
Left3(d) == Coded(d[4], <<READ>>)
Left2(d) == Coded(d[3], Left3(d))
Left1(d) == Coded(d[2], Left2(d))
Left0(d) == Coded(d[1], Left1(d))
Left(d, n) ==
  CASE n = 0 -> Left0(d) [] n = 1 -> Left1(d) [] n = 2 -> Left2(d)
    [] n = 3 -> Left3(d) [] n = 4 -> <<READ>>
Clean(d) == \A i \in 1 .. 4 : d[i] \notin {SOH, ESC}

(* The slave's frame: not begun, begun, with a command and the data d.     *)
Out == ~v.soh /\ ~v.esc
Missed == Out /\ tx = << >>
Opened == on /\ v.soh /\ ~v.esc /\ ~v.cmd /\ v.dat = << >>
Heard(t, d) == on /\ v.soh /\ ~v.esc /\ v.cmd /\ v.typ = t /\ v.dat = d
Quoted(t, d) == on /\ v.soh /\ v.esc /\ v.cmd /\ v.typ = t /\ v.dat = d

(* Nothing that the slave has half received may be executed.               *)
Calm == hurt \/ mode # 0 \/ (p.name = "mode" /\ call.op = "inl")

InAddress ==
  \/ /\ todo = Cons(SOH, <<SOH, AR, call.adr, 0, READ>>) /\ rcv = << >>
     /\ Calm => ~v.esc
  \/ todo = <<SOH, AR, call.adr, 0, READ>> /\ rcv = << >> /\ ~v.esc
  \/ todo = <<AR, call.adr, 0, READ>> /\ rcv = << >> /\ (Opened \/ Missed)
  \/ todo = <<call.adr, 0, READ>> /\ rcv = << >> /\ (Heard(AR, << >>) \/ Missed)
  \/ todo = <<0, READ>> /\ rcv = << >> /\ (Heard(AR, <<call.adr>>) \/ Missed)
  \/ /\ todo = <<READ>> /\ rcv = << >>
     /\ (on /\ Out /\ v.ofs = call.adr) \/ Missed
  \/ /\ todo = << >> /\ Len(rcv) = 1 /\ Out
     /\ rcv = <<OK>> => hurt \/ (on /\ v.ofs = call.adr)

(* A write: it may miss only a slave that has lost its power.  Then the    *)
(* bytes of its word must not look like another frame.                     *)
Lost == hurt /\ (Clean(call.val) => Missed)
Written ==
  /\ v.ofs + 4 < 8 => took = [ofs |-> v.ofs, dat |-> call.val]
  /\ v.ofs = MODE => ri[MODE] = call.val[1]
Addressed == hurt \/ (on /\ v.ofs = call.adr)

InWrite ==
  /\ Addressed
  /\ \/ todo = Cons(SOH, Cons(SOH, Cons(WL, Left0(call.val)))) /\ rcv = << >> /\ Out
     \/ todo = Cons(SOH, Cons(WL, Left0(call.val))) /\ rcv = << >> /\ ~v.esc
     \/ todo = Cons(WL, Left0(call.val)) /\ rcv = << >> /\ (Opened \/ Lost)
     \/ \E n \in 0 .. 3 :
          /\ todo = Left(call.val, n) /\ rcv = << >>
          /\ Heard(WL, SubSeq(call.val, 1, n)) \/ Lost
     \/ \E n \in 0 .. 3 :
          /\ call.val[n + 1] \in {SOH, ESC}
          /\ todo = Cons(call.val[n + 1], Left(call.val, n + 1)) /\ rcv = << >>
          /\ Quoted(WL, SubSeq(call.val, 1, n)) \/ Lost
     \/ todo = <<READ>> /\ rcv = << >> /\ ((Out /\ Written) \/ Lost)
     \/ todo = << >> /\ Len(rcv) = 1 /\ ((Out /\ Written) \/ Lost)

(* What the i-th byte x of a read tells.                                   *)
Tells(i, x) ==
  /\ p.name = "mode" /\ i = 1 /\ x = p.bank => ri[MODE] = p.bank /\ ro[MODE] = p.bank
  /\ mode # 0 /\ call.adr = MODE /\ i = 3 /\ x = 1 => ro[READY] = 1
  /\ mode # 0 /\ call.adr = DATA => x \in Measured(mode)

Reads(n) == [i \in 1 .. n |-> READ]
InRead ==
  /\ Addressed
  /\ \/ todo = Cons(SOH, Cons(SOH, Cons(RL, Reads(4)))) /\ rcv = << >> /\ Out
     \/ todo = Cons(SOH, Cons(RL, Reads(4))) /\ rcv = << >> /\ ~v.esc
     \/ todo = Cons(RL, Reads(4)) /\ rcv = << >> /\ (Opened \/ (hurt /\ Missed))
     \/ \E n \in 0 .. 4 :
          /\ todo = Reads(4 - n) /\ rcv \in Seq(Int) /\ Len(rcv) = n
          /\ \/ /\ \A j \in 1 .. n : Tells(j, rcv[j])
                /\ n < 4 => \E x \in Bytes : tx = <<x>> /\ Tells(n + 1, x)
                /\ IF n < 3 THEN v.soh /\ ~v.esc /\ v.cmd /\ v.typ = RL /\ Len(v.dat) = n
                            ELSE Out
             \/ hurt /\ Out

InFrame ==
  CASE call.op = "none" -> todo = << >> /\ rcv = << >> /\ (mode # 0 => ~v.esc)
    [] call.op # "none" /\ call.frame = "AR" -> InAddress
    [] call.op # "none" /\ call.frame = "WL" -> InWrite
    [] call.op # "none" /\ call.frame = "RL" -> InRead

(* The call and the function that makes it.                                *)
Word == CASE p.name = "init" -> Magic [] p.name = "mode" -> <<p.bank, 0, 0, 0>> [] OTHER -> << >>
InCall ==
  /\ p.name = "idle" <=> call.op = "none"
  /\ p.name = "mode" => p.bank \in Banks
  /\ call.op = "none" => call = NoCall
  /\ call.op = "outl" =>
       /\ p.name \in {"init", "mode"} /\ call.frame \in {"AR", "WL"}
       /\ call.val = Word /\ call.adr = IF p.name = "init" THEN DATA ELSE MODE
  /\ call.op = "inl" =>
       /\ p.name \in {"mode", "read"} /\ call.frame \in {"AR", "RL"} /\ call.val = << >>
       /\ call.adr \in IF p.name = "mode" THEN {MODE} ELSE {MODE, DATA}

(* The slave's frame is one it may go on with.                             *)
Sane ==
  /\ v.esc => v.soh
  /\ Len(v.dat) <= 4
  /\ v.soh /\ ~v.cmd => v.dat = << >>
  /\ v.soh /\ v.cmd => \/ v.typ = AR /\ Len(v.dat) < 2
                       \/ v.typ = WL /\ Len(v.dat) < 4
                       \/ v.typ = RL /\ Len(v.dat) < 3
  /\ ~on => v = Idle /\ tx = << >>

(* A slave that came back during mcd_mode has the offset of MODE, and does *)
(* not show a bank that it is not told.                                    *)
Settled(b) == ri[MODE] = b \/ ro[MODE] # b
Restarted ==
  p.name = "mode" =>
    /\ hurt => v.ofs = MODE
    /\ hurt \/ call.op = "inl" => Settled(p.bank)

(* A value that is ready is of the bank shown.                             *)
Ready ==
  /\ ro[READY] \in {0, 1}
  /\ pc # "main" => ro[MODE] \in Banks
  /\ ro[READY] = 1 => ro[MODE] \in Banks /\ \A i \in 0 .. 3 : ro[DATA + i] \in Measured(ro[MODE])

(* While the master knows the bank, the slave has it.                      *)
Known ==
  mode # 0 =>
    /\ on /\ ~hurt /\ p.name # "mode"
    /\ ri[MODE] = mode /\ ro[MODE] = mode
    /\ p.name = "read" /\ call.adr = DATA => ro[READY] = 1

Frames == [soh : BOOLEAN, esc : BOOLEAN, cmd : BOOLEAN, typ : Bytes, dat : Seq(Bytes), ofs : Nat]
Calls == [op : {"none", "outl", "inl"}, adr : {MODE, DATA},
          val : {<< >>} \cup [1 .. 4 -> Bytes], frame : {"AR", "WL", "RL"}]
Progs == [name : {"idle", "init", "mode", "read"}, bank : Banks \cup {0},
          j : 0 .. 3, i : 0 .. RMN - 1]
Shape == v \in Frames /\ call \in Calls /\ p \in Progs

Registers == [0 .. 7 -> Bytes]
Answers == {t \in Seq(Bytes) : Len(t) <= 1}
Typed ==
  /\ on \in BOOLEAN /\ hurt \in BOOLEAN /\ pc \in {"main", "adc", "store"}
  /\ tx \in Answers /\ ri \in Registers /\ ro \in Registers
  /\ mode \in Banks \cup {0} /\ noff \in 0 .. MaxOff /\ nkill \in 0 .. MaxKill

IInv == Typed /\ Shape /\ Sane /\ InCall /\ InFrame /\ Restarted /\ Ready /\ Known

-----------------------------------------------------------------------------
(* Sequences. *)

LEMMA LinkBytes == /\ Bytes \subseteq Link /\ READ \in Link
                   /\ {SOH, ESC, AR, WL, RL, 0, OK, DUMMY} \subseteq Bytes
                   /\ READ \notin Bytes
  BY DEF Link, Bytes, READ, SOH, ESC, AR, WL, RL, OK, DUMMY

LEMMA ConsIs ==
  ASSUME NEW S, NEW b \in S, NEW t \in Seq(S)
  PROVE  /\ Cons(b, t) \in Seq(S) /\ Cons(b, t) # << >>
         /\ Head(Cons(b, t)) = b /\ Tail(Cons(b, t)) = t
         /\ Len(Cons(b, t)) = Len(t) + 1
<1>1. /\ Cons(b, t) \in Seq(S) /\ Len(Cons(b, t)) = Len(t) + 1
      /\ Cons(b, t)[1] = b /\ \A i \in 1 .. Len(t) : Cons(b, t)[i + 1] = t[i]
  BY DEF Cons
<1>2. Cons(b, t) # << >> /\ Head(Cons(b, t)) = b
  BY <1>1
<1>3. Tail(Cons(b, t)) = t
  BY <1>1, <1>2
<1> QED BY <1>1, <1>2, <1>3

LEMMA NoTuple == ASSUME NEW S PROVE << >> \in Seq(S)
  OBVIOUS

LEMMA Tuple1 ==
  ASSUME NEW S, NEW a \in S
  PROVE  <<a>> \in Seq(S) /\ <<a>> = Cons(a, << >>)
  BY DEF Cons

LEMMA Tuple2 ==
  ASSUME NEW S, NEW a \in S, NEW b \in S
  PROVE  <<a, b>> \in Seq(S) /\ <<a, b>> = Cons(a, <<b>>)
<1>1. <<a, b>> \in Seq(S) /\ Len(<<a, b>>) = 2 /\ <<a, b>>[1] = a /\ <<a, b>>[2] = b
  OBVIOUS
<1>2. /\ Cons(a, <<b>>) \in Seq(S) /\ Len(Cons(a, <<b>>)) = 2
      /\ Cons(a, <<b>>)[1] = a /\ Cons(a, <<b>>)[2] = b
  BY DEF Cons
<1> QED BY <1>1, <1>2, SeqEqual

LEMMA Tuple3 ==
  ASSUME NEW S, NEW a \in S, NEW b \in S, NEW c \in S
  PROVE  <<a, b, c>> \in Seq(S) /\ <<a, b, c>> = Cons(a, <<b, c>>)
  BY DEF Cons

LEMMA Tuple4 ==
  ASSUME NEW S, NEW a \in S, NEW b \in S, NEW c \in S, NEW d \in S
  PROVE  <<a, b, c, d>> \in Seq(S) /\ <<a, b, c, d>> = Cons(a, <<b, c, d>>)
  BY DEF Cons

LEMMA Tuple5 ==
  ASSUME NEW S, NEW a \in S, NEW b \in S, NEW c \in S, NEW d \in S, NEW e \in S
  PROVE  <<a, b, c, d, e>> \in Seq(S) /\ <<a, b, c, d, e>> = Cons(a, <<b, c, d, e>>)
  BY DEF Cons

LEMMA Flatten2 ==
  ASSUME NEW a, NEW b PROVE FlattenSeq(<<a, b>>) = a \o b
<1> DEFINE s == <<a, b>>
           h == [i \in 1 .. 2 |-> IF i = 1 THEN a ELSE a \o b]
           G(f) == [i \in 1 .. Len(s) |-> IF i = 1 THEN s[i] ELSE f[i - 1] \o s[i]]
<1>1. Len(s) = 2 /\ s[1] = a /\ s[2] = b
  OBVIOUS
<1> HIDE DEF s
<1>2. h = G(h)
  <2>1. h[1] = a
    OBVIOUS
  <2>2. \A i \in 1 .. 2 : h[i] = IF i = 1 THEN s[i] ELSE h[i - 1] \o s[i]
    BY <1>1, <2>1
  <2> QED BY <1>1, <2>2
<1> DEFINE f == CHOOSE g : g = G(g)
<1>3. f = G(f)
  <2>1. \E g : g = G(g)
    BY <1>2
  <2> HIDE DEF h, G
  <2> QED BY <2>1
<1>4. FlattenSeq(s) = f[2]
  BY <1>1 DEF FlattenSeq
<1> HIDE DEF f, h
<1>5. f = [i \in 1 .. 2 |-> IF i = 1 THEN s[i] ELSE f[i - 1] \o s[i]]
  BY <1>1, <1>3
<1>6. f[1] = s[1] /\ f[2] = f[1] \o s[2]
  <2>1. \A i \in 1 .. 2 : f[i] = IF i = 1 THEN s[i] ELSE f[i - 1] \o s[i]
    BY <1>5
  <2>2. 1 \in 1 .. 2 /\ 2 \in 1 .. 2 /\ 2 # 1 /\ 2 - 1 = 1
    OBVIOUS
  <2> QED BY <2>1, <2>2
<1> QED BY <1>1, <1>4, <1>6 DEF s

(* Concatenation, which the provers see through only where they have to.   *)
Cat(s, t) == s \o t

LEMMA Flatten4 ==
  ASSUME NEW a, NEW b, NEW c, NEW d
  PROVE  FlattenSeq(<<a, b, c, d>>) = Cat(Cat(Cat(a, b), c), d)
<1> DEFINE s == <<a, b, c, d>>
           h == [i \in 1 .. 4 |-> CASE i = 1 -> a [] i = 2 -> a \o b
                                    [] i = 3 -> (a \o b) \o c [] i = 4 -> ((a \o b) \o c) \o d]
           G(f) == [i \in 1 .. Len(s) |-> IF i = 1 THEN s[i] ELSE f[i - 1] \o s[i]]
<1>1. Len(s) = 4 /\ s[1] = a /\ s[2] = b /\ s[3] = c /\ s[4] = d
  OBVIOUS
<1> HIDE DEF s
<1>2. h = G(h)
  <2>1. h[1] = a /\ h[2] = a \o b /\ h[3] = (a \o b) \o c /\ h[4] = ((a \o b) \o c) \o d
    OBVIOUS
  <2>2. DOMAIN h = 1 .. 4 /\ h = [i \in 1 .. 4 |-> h[i]]
    OBVIOUS
  <2> HIDE DEF h
  <2>3. \A i \in 1 .. 4 : h[i] = IF i = 1 THEN s[i] ELSE h[i - 1] \o s[i]
    <3>1. \A i \in 1 .. 4 : i = 1 \/ i = 2 \/ i = 3 \/ i = 4
      OBVIOUS
    <3>2. 2 - 1 = 1 /\ 3 - 1 = 2 /\ 4 - 1 = 3 /\ 2 # 1 /\ 3 # 1 /\ 4 # 1
      OBVIOUS
    <3> QED BY <1>1, <2>1, <3>1, <3>2
  <2> QED BY <1>1, <2>2, <2>3
<1> DEFINE f == CHOOSE g : g = G(g)
<1>3. f = G(f)
  <2>1. \E g : g = G(g)
    BY <1>2
  <2> HIDE DEF h, G
  <2> QED BY <2>1
<1>4. FlattenSeq(s) = f[4]
  BY <1>1 DEF FlattenSeq
<1> HIDE DEF f, h
<1>5. f = [i \in 1 .. 4 |-> IF i = 1 THEN s[i] ELSE f[i - 1] \o s[i]]
  BY <1>1, <1>3
<1>6. f[1] = s[1] /\ f[2] = f[1] \o s[2] /\ f[3] = f[2] \o s[3] /\ f[4] = f[3] \o s[4]
  <2>1. \A i \in 1 .. 4 : f[i] = IF i = 1 THEN s[i] ELSE f[i - 1] \o s[i]
    BY <1>5
  <2>2. 1 \in 1 .. 4 /\ 2 \in 1 .. 4 /\ 2 # 1 /\ 2 - 1 = 1
    OBVIOUS
  <2>3. 3 \in 1 .. 4 /\ 4 \in 1 .. 4 /\ 3 # 1 /\ 4 # 1 /\ 3 - 1 = 2 /\ 4 - 1 = 3
    OBVIOUS
  <2> QED BY <2>1, <2>2, <2>3
<1> QED BY <1>1, <1>4, <1>6 DEF s, Cat

Code(b) == IF b \in {SOH, ESC} THEN <<ESC, b>> ELSE <<b>>

LEMMA CodedIs ==
  ASSUME NEW b \in Bytes, NEW t \in Seq(Link)
  PROVE  Code(b) \in Seq(Link) /\ Coded(b, t) = Code(b) \o t /\ Coded(b, t) \in Seq(Link)
<1>1. b \in Link /\ ESC \in Link
  BY LinkBytes
<1>2. Code(b) \in Seq(Link)
  BY <1>1 DEF Code
<1>3. Cons(ESC, Cons(b, t)) = <<ESC, b>> \o t
  <2>1. Cons(ESC, Cons(b, t)) = <<ESC>> \o (<<b>> \o t)
    BY DEF Cons
  <2>2. <<ESC>> \o (<<b>> \o t) = (<<ESC>> \o <<b>>) \o t
    BY <1>1, ConcatAssociative
  <2>3. <<ESC>> \o <<b>> = <<ESC, b>>
    BY <1>1, Tuple2 DEF Cons
  <2> QED BY <2>1, <2>2, <2>3
<1>4. Coded(b, t) = Code(b) \o t
  BY <1>3 DEF Code, Coded, Cons
<1> QED BY <1>2, <1>4

LEMMA LeftSeq ==
  ASSUME NEW d \in [1 .. 4 -> Bytes]
  PROVE  /\ <<READ>> \in Seq(Link)
         /\ Left3(d) \in Seq(Link) /\ Left2(d) \in Seq(Link)
         /\ Left1(d) \in Seq(Link) /\ Left0(d) \in Seq(Link)
<1>1. <<READ>> \in Seq(Link)
  BY LinkBytes
<1>2. d[1] \in Bytes /\ d[2] \in Bytes /\ d[3] \in Bytes /\ d[4] \in Bytes
  OBVIOUS
<1>3. Left3(d) \in Seq(Link)
  BY <1>1, <1>2, CodedIs DEF Left3
<1>4. Left2(d) \in Seq(Link)
  BY <1>2, <1>3, CodedIs DEF Left2
<1>5. Left1(d) \in Seq(Link)
  BY <1>2, <1>4, CodedIs DEF Left1
<1>6. Left0(d) \in Seq(Link)
  BY <1>2, <1>5, CodedIs DEF Left0
<1> QED BY <1>1, <1>3, <1>4, <1>5, <1>6

LEMMA Header ==
  ASSUME NEW c \in Bytes, NEW t \in Seq(Link)
  PROVE  Wcmd(c) \o t = Cons(SOH, Cons(SOH, Cons(c, t)))
<1>1. SOH \in Link /\ c \in Link
  BY LinkBytes
<1>2. Wcmd(c) = <<SOH>> \o (<<SOH>> \o <<c>>)
  <2>1. <<SOH, SOH, c>> = Cons(SOH, <<SOH, c>>)
    BY <1>1, Tuple3
  <2>2. <<SOH, c>> = Cons(SOH, <<c>>)
    BY <1>1, Tuple2
  <2> QED BY <2>1, <2>2 DEF Wcmd, Cons
<1>3. Wcmd(c) \o t = <<SOH>> \o ((<<SOH>> \o <<c>>) \o t)
  BY <1>1, <1>2, ConcatAssociative
<1>4. (<<SOH>> \o <<c>>) \o t = <<SOH>> \o (<<c>> \o t)
  BY <1>1, ConcatAssociative
<1> QED BY <1>3, <1>4 DEF Cons

LEMMA CatIs ==
  /\ \A x, y \in Seq(Link) : Cat(x, y) \in Seq(Link)
  /\ \A x, y, z \in Seq(Link) : Cat(Cat(x, y), z) = Cat(x, Cat(y, z))
<1>1. \A x, y \in Seq(Link) : Cat(x, y) \in Seq(Link)
  BY ConcatProperties DEF Cat
<1>2. \A x, y, z \in Seq(Link) : Cat(Cat(x, y), z) = Cat(x, Cat(y, z))
  BY ConcatAssociative, SMTT(30) DEF Cat
<1> QED BY <1>1, <1>2

LEMMA Joined ==
  ASSUME NEW a \in Seq(Link), NEW b \in Seq(Link), NEW c \in Seq(Link),
         NEW d \in Seq(Link), NEW r \in Seq(Link)
  PROVE  /\ Cat(Cat(Cat(a, b), c), d) \in Seq(Link)
         /\ Cat(Cat(Cat(Cat(a, b), c), d), r) = Cat(a, Cat(b, Cat(c, Cat(d, r))))
<1>1. Cat(a, b) \in Seq(Link) /\ Cat(Cat(a, b), c) \in Seq(Link) /\ Cat(d, r) \in Seq(Link)
  BY CatIs
<1>2. Cat(c, Cat(d, r)) \in Seq(Link)
  BY <1>1, CatIs
<1> QED BY <1>1, <1>2, CatIs

LEMMA WordIs ==
  ASSUME NEW d \in [1 .. 4 -> Bytes]
  PROVE  Cat(Wdat(d), <<READ>>) = Left0(d) /\ Wdat(d) \in Seq(Link)
<1> DEFINE a == Code(d[1])
           b == Code(d[2])
           c == Code(d[3])
           e == Code(d[4])
           r == <<READ>>
<1>1. d[1] \in Bytes /\ d[2] \in Bytes /\ d[3] \in Bytes /\ d[4] \in Bytes /\ r \in Seq(Link)
  BY LeftSeq
<1>2. a \in Seq(Link) /\ b \in Seq(Link) /\ c \in Seq(Link) /\ e \in Seq(Link)
  BY <1>1, CodedIs
<1>3. Left0(d) = Cat(a, Cat(b, Cat(c, Cat(e, r))))
  <2>1. Left3(d) = Cat(e, r)
    BY <1>1, CodedIs DEF Left3, Cat
  <2>2. Left2(d) = Cat(c, Left3(d))
    BY <1>1, LeftSeq, CodedIs DEF Left2, Cat
  <2>3. Left1(d) = Cat(b, Left2(d))
    BY <1>1, LeftSeq, CodedIs DEF Left1, Cat
  <2>4. Left0(d) = Cat(a, Left1(d))
    BY <1>1, LeftSeq, CodedIs DEF Left0, Cat
  <2> QED BY <2>1, <2>2, <2>3, <2>4
<1>4. Wdat(d) = Cat(Cat(Cat(a, b), c), e)
  <2>1. [i \in DOMAIN d |-> IF d[i] \in {SOH, ESC} THEN <<ESC, d[i]>> ELSE <<d[i]>>]
          = <<a, b, c, e>>
    <3>1. \A i \in 1 .. 4 : i = 1 \/ i = 2 \/ i = 3 \/ i = 4
      OBVIOUS
    <3> QED BY <3>1 DEF Code
  <2>2. Wdat(d) = FlattenSeq(<<a, b, c, e>>)
    BY <2>1 DEF Wdat
  <2>3. FlattenSeq(<<a, b, c, e>>) = Cat(Cat(Cat(a, b), c), e)
    <3> HIDE DEF a, b, c, e
    <3> QED BY Flatten4
  <2> QED BY <2>2, <2>3
<1> HIDE DEF a, b, c, e, r
<1>5. /\ Cat(Cat(Cat(a, b), c), e) \in Seq(Link)
      /\ Cat(Cat(Cat(Cat(a, b), c), e), r) = Cat(a, Cat(b, Cat(c, Cat(e, r))))
  BY <1>1, <1>2, Joined
<1>6. Cat(Wdat(d), r) = Left0(d) /\ Wdat(d) \in Seq(Link)
  BY <1>3, <1>4, <1>5
<1> QED BY <1>6 DEF r

(* The three frames. *)
LEMMA FrameAR ==
  ASSUME NEW c, c.frame = "AR", c.adr \in {MODE, DATA}
  PROVE  Frame(c) = Cons(SOH, <<SOH, AR, c.adr, 0, READ>>)
<1> DEFINE a == c.adr
<1>1. /\ a \in Link /\ 0 \in Link /\ READ \in Link /\ SOH \in Link /\ AR \in Link
      /\ a \notin {SOH, ESC} /\ 0 \notin {SOH, ESC}
  BY LinkBytes DEF MODE, DATA, SOH, ESC, Link, Bytes
<1> HIDE DEF a
<1>2. Wdat(<<a, 0>>) = <<a>> \o <<0>>
  <2>1. [i \in DOMAIN <<a, 0>> |-> IF <<a, 0>>[i] \in {SOH, ESC}
                                   THEN <<ESC, <<a, 0>>[i]>> ELSE <<<<a, 0>>[i]>>]
          = <<<<a>>, <<0>>>>
    <3>1. /\ DOMAIN <<a, 0>> = {1, 2} /\ <<a, 0>>[1] = a /\ <<a, 0>>[2] = 0
          /\ DOMAIN <<<<a>>, <<0>>>> = {1, 2}
          /\ <<<<a>>, <<0>>>>[1] = <<a>> /\ <<<<a>>, <<0>>>>[2] = <<0>>
      OBVIOUS
    <3> QED BY <1>1, <3>1
  <2> QED BY <2>1, Flatten2 DEF Wdat
<1>3. Wdat(<<a, 0>>) \o <<READ>> = <<a, 0, READ>> /\ <<a, 0, READ>> \in Seq(Link)
  <2>1. <<a, 0, READ>> = <<a>> \o <<0, READ>> /\ <<0, READ>> = <<0>> \o <<READ>>
    <3>1. <<a, 0, READ>> = <<a>> \o <<0, READ>>
      BY <1>1, Tuple3 DEF Cons
    <3>2. <<0, READ>> = <<0>> \o <<READ>>
      BY <1>1, Tuple2 DEF Cons
    <3> QED BY <3>1, <3>2
  <2>2. (<<a>> \o <<0>>) \o <<READ>> = <<a>> \o (<<0>> \o <<READ>>)
    BY <1>1, ConcatAssociative
  <2>3. <<a, 0, READ>> \in Seq(Link)
    BY <1>1
  <2> QED BY <1>2, <2>1, <2>2, <2>3
<1>4. Frame(c) = Wcmd(AR) \o (Wdat(<<a, 0>>) \o <<READ>>)
  <2>1. Frame(c) = (Wcmd(AR) \o Wdat(<<a, 0>>)) \o <<READ>>
    BY DEF Frame, a
  <2>2. Wcmd(AR) \in Seq(Link) /\ Wdat(<<a, 0>>) \in Seq(Link) /\ <<READ>> \in Seq(Link)
    <3>1. Wcmd(AR) \in Seq(Link)
      BY <1>1 DEF Wcmd
    <3>2. <<a>> \in Seq(Link) /\ <<0>> \in Seq(Link) /\ <<READ>> \in Seq(Link)
      BY <1>1, Tuple1
    <3>3. <<a>> \o <<0>> \in Seq(Link)
      BY <3>2, ConcatProperties
    <3> QED BY <1>2, <3>1, <3>2, <3>3
  <2> QED BY <2>1, <2>2, ConcatAssociative
<1>5. Frame(c) = Cons(SOH, Cons(SOH, Cons(AR, <<a, 0, READ>>)))
  BY <1>3, <1>4, Header, LinkBytes
<1>6. <<SOH, AR, a, 0, READ>> = Cons(SOH, Cons(AR, <<a, 0, READ>>))
  <2>1. <<SOH, AR, a, 0, READ>> = Cons(SOH, <<AR, a, 0, READ>>)
    BY <1>1, Tuple5
  <2>2. <<AR, a, 0, READ>> = Cons(AR, <<a, 0, READ>>)
    BY <1>1, Tuple4
  <2> QED BY <2>1, <2>2
<1> QED BY <1>5, <1>6 DEF a

LEMMA FrameWL ==
  ASSUME NEW c, c.frame = "WL", c.val \in [1 .. 4 -> Bytes]
  PROVE  Frame(c) = Cons(SOH, Cons(SOH, Cons(WL, Left0(c.val))))
<1>1. Frame(c) = (Wcmd(WL) \o Wdat(c.val)) \o <<READ>>
  BY DEF Frame
<1>2. Wcmd(WL) \in Seq(Link) /\ <<READ>> \in Seq(Link)
  BY LinkBytes DEF Wcmd
<1>3. Frame(c) = Wcmd(WL) \o Left0(c.val)
  <2>1. Cat(Wdat(c.val), <<READ>>) = Left0(c.val) /\ Wdat(c.val) \in Seq(Link)
    BY WordIs
  <2>2. Cat(Cat(Wcmd(WL), Wdat(c.val)), <<READ>>) = Cat(Wcmd(WL), Cat(Wdat(c.val), <<READ>>))
    BY <1>2, <2>1, CatIs
  <2> QED BY <1>1, <2>1, <2>2 DEF Cat
<1> QED BY <1>3, LeftSeq, Header, LinkBytes

LEMMA ReadsAre ==
  /\ Reads(0) = << >>
  /\ \A n \in 0 .. 3 : Reads(n + 1) = Cons(READ, Reads(n))
  /\ \A n \in 0 .. 4 : Reads(n) \in Seq(Link)
<1>1. ASSUME NEW n \in 0 .. 4
      PROVE  /\ Reads(n) \in Seq(Link) /\ Len(Reads(n)) = n
             /\ \A i \in 1 .. n : Reads(n)[i] = READ
  BY LinkBytes DEF Reads
<1>2. ASSUME NEW n \in 0 .. 3 PROVE Reads(n + 1) = Cons(READ, Reads(n))
  <2>1. /\ Reads(n) \in Seq(Link) /\ Len(Reads(n)) = n /\ n \in Nat
        /\ \A i \in 1 .. n : Reads(n)[i] = READ
    <3>1. n \in 0 .. 4 /\ n \in Nat
      OBVIOUS
    <3> QED BY <1>1, <3>1
  <2>2. /\ Cons(READ, Reads(n)) \in Seq(Link) /\ Len(Cons(READ, Reads(n))) = n + 1
    BY <2>1, ConsIs, LinkBytes
  <2>3. \A i \in 1 .. n + 1 : Cons(READ, Reads(n))[i] = READ
    BY <2>1, LinkBytes DEF Cons
  <2>4. n + 1 \in 0 .. 4
    OBVIOUS
  <2>5. /\ Reads(n + 1) \in Seq(Link) /\ Len(Reads(n + 1)) = n + 1
        /\ \A i \in 1 .. n + 1 : Reads(n + 1)[i] = READ
    BY <1>1, <2>4
  <2> QED BY <2>2, <2>3, <2>5, SeqEqual
<1>3. Reads(0) = << >>
  BY DEF Reads
<1> QED BY <1>1, <1>2, <1>3

LEMMA FrameRL ==
  ASSUME NEW c, c.frame = "RL"
  PROVE  Frame(c) = Cons(SOH, Cons(SOH, Cons(RL, Reads(4))))
<1>1. <<READ, READ, READ, READ>> = Reads(4)
  <2>1. \A i \in 1 .. 4 : i = 1 \/ i = 2 \/ i = 3 \/ i = 4
    OBVIOUS
  <2> QED BY <2>1 DEF Reads
<1>2. Frame(c) = Wcmd(RL) \o Reads(4)
  BY <1>1 DEF Frame
<1>3. 4 \in 0 .. 4 /\ RL \in Bytes
  BY LinkBytes
<1> QED BY <1>2, <1>3, ReadsAre, Header

-----------------------------------------------------------------------------
(* What the slave does with a byte. *)

Kept == ri' = ri /\ took' = took /\ v'.ofs = v.ofs
Shown(o) == IF o < Size THEN ro[o] ELSE 1

(* A byte of data: not an escape, or escaped. *)
Given(t, d, b) == (Heard(t, d) /\ b \notin {SOH, ESC}) \/ Quoted(t, d)

LEMMA SohTaken ==
  ASSUME v \in Frames, Update(SOH), ~v.esc, on' = on, on
  PROVE  Opened' /\ tx' = << >> /\ Kept
<1>1. v' = Soh(v) /\ tx' = << >> /\ ri' = ri /\ took' = took
  BY DEF Update, Quiet, SOH, ESC
<1> QED BY <1>1 DEF Opened, Kept, Soh, Frames

LEMMA EscTaken ==
  ASSUME NEW t, NEW d, v \in Frames, Update(ESC), Heard(t, d), on' = on
  PROVE  Quoted(t, d)' /\ tx' = << >> /\ Kept
<1>1. v' = [v EXCEPT !.esc = TRUE] /\ tx' = << >> /\ ri' = ri /\ took' = took
  BY DEF Update, Quiet, SOH, ESC, Heard
<1> QED BY <1>1 DEF Quoted, Heard, Kept, Frames

LEMMA Ignored ==
  ASSUME NEW b, Update(b), ~v.soh, b # SOH \/ v.esc
  PROVE  v' = v /\ tx' = << >> /\ Kept
  BY DEF Update, Quiet, Kept, SOH, ESC

LEMMA Executed ==
  ASSUME NEW b, Update(b), v.soh, v.esc \/ b \notin {SOH, ESC}
  PROVE  Execute(Store(v, b))
  BY DEF Update

(* The command of a frame. *)
LEMMA CommandTaken ==
  ASSUME NEW b \in {AR, WL}, v \in Frames, Update(b), Opened, on' = on
  PROVE  Heard(b, << >>)' /\ tx' = << >> /\ Kept
<1> DEFINE r == Store(v, b)
<1>1. Execute(r)
  BY Executed DEF Opened, AR, WL, SOH, ESC
<1>2. r = [v EXCEPT !.esc = FALSE, !.typ = b, !.cmd = TRUE]
  BY DEF Opened, Store
<1>3. /\ r.soh /\ ~r.esc /\ r.cmd /\ r.typ = b /\ r.dat = << >> /\ r.ofs = v.ofs
  BY <1>2 DEF Opened, Frames
<1> HIDE DEF r
<1>4. Quiet(r)
  BY <1>1, <1>3 DEF Execute, AR, WL, RL
<1> QED BY <1>3, <1>4 DEF Quiet, Heard, Kept, Opened

LEMMA ReadTaken ==
  ASSUME v \in Frames, Update(RL), Opened, on' = on
  PROVE  Heard(RL, << >>)' /\ tx' = <<Shown(v.ofs)>> /\ Kept
<1> DEFINE r == Store(v, RL)
<1>1. Execute(r)
  BY Executed DEF Opened, RL, SOH, ESC
<1>2. r = [v EXCEPT !.esc = FALSE, !.typ = RL, !.cmd = TRUE]
  BY DEF Opened, Store
<1>3. /\ r.soh /\ ~r.esc /\ r.cmd /\ r.typ = RL /\ r.dat = << >> /\ r.ofs = v.ofs
      /\ v.ofs \in Nat
  BY <1>2 DEF Opened, Frames
<1> HIDE DEF r
<1>4. Read(r)
  BY <1>1, <1>3 DEF Execute, AR, WL, RL
<1>5. v' = r /\ tx' = <<Shown(v.ofs)>> /\ ri' = ri /\ took' = took
  BY <1>3, <1>4 DEF Read, Shown
<1> QED BY <1>3, <1>5 DEF Heard, Kept, Opened

(* What a byte of data leaves to execute. *)
LEMMA DataStored ==
  ASSUME NEW t, NEW d \in Seq(Bytes), NEW b \in Bytes, v \in Frames, Update(b),
         Given(t, d, b), Len(d) < 4
  PROVE  LET r == Store(v, b)
         IN  /\ Execute(r) /\ r \in Frames /\ r.soh /\ ~r.esc /\ r.cmd /\ r.typ = t
             /\ r.dat = Append(d, b) /\ Len(r.dat) = Len(d) + 1 /\ r.ofs = v.ofs
<1> DEFINE r == Store(v, b)
<1>1. Execute(r)
  BY Executed DEF Given, Heard, Quoted
<1>2. r = [v EXCEPT !.esc = FALSE, !.dat = Append(@, b)]
  BY DEF Given, Heard, Quoted, Store
<1>3. Append(d, b) \in Seq(Bytes) /\ Len(Append(d, b)) = Len(d) + 1
  OBVIOUS
<1>4. r \in Frames /\ r.soh /\ ~r.esc /\ r.cmd /\ r.typ = t /\ r.dat = Append(d, b) /\ r.ofs = v.ofs
  BY <1>2, <1>3 DEF Given, Heard, Quoted, Frames
<1> QED BY <1>1, <1>3, <1>4

(* There is more to come after the next byte. *)
Room(t, d) == (t = AR /\ Len(d) = 0) \/ (t = WL /\ Len(d) < 3)

LEMMA DataTaken ==
  ASSUME NEW t, NEW d \in Seq(Bytes), NEW b \in Bytes, v \in Frames, Update(b),
         Given(t, d, b), Room(t, d), on' = on
  PROVE  Heard(t, Append(d, b))' /\ tx' = << >> /\ Kept
<1> DEFINE r == Store(v, b)
<1>1. /\ Execute(r) /\ r.soh /\ ~r.esc /\ r.cmd /\ r.typ = t
      /\ r.dat = Append(d, b) /\ Len(r.dat) = Len(d) + 1 /\ r.ofs = v.ofs
  <2>1. Len(d) < 4
    BY LenProperties DEF Room
  <2> QED BY <2>1, DataStored
<1> HIDE DEF r
<1>2. Quiet(r)
  BY <1>1, LenProperties DEF Execute, Room, AR, WL, RL
<1> QED BY <1>1, <1>2 DEF Quiet, Heard, Kept, Given, Quoted

LEMMA AddressTaken ==
  ASSUME NEW a \in Bytes, NEW b \in Bytes, v \in Frames, Update(b),
         Given(AR, <<a>>, b), on' = on
  PROVE  /\ on' /\ Out' /\ v'.ofs = a + 256 * b /\ tx' = <<OK>>
         /\ ri' = ri /\ took' = took
<1> DEFINE r == Store(v, b)
<1>1. /\ Execute(r) /\ r \in Frames /\ r.typ = AR
      /\ r.dat = Append(<<a>>, b) /\ Len(r.dat) = 2
  <2>1. <<a>> \in Seq(Bytes) /\ Len(<<a>>) = 1 /\ Len(<<a>>) < 4
    OBVIOUS
  <2>2. /\ Execute(r) /\ r \in Frames /\ r.typ = AR
        /\ r.dat = Append(<<a>>, b) /\ Len(r.dat) = Len(<<a>>) + 1
    BY <2>1, DataStored
  <2> QED BY <2>1, <2>2
<1>2. r.dat[1] = a /\ r.dat[2] = b
  BY <1>1
<1> HIDE DEF r
<1>3. SetAddress(r)
  BY <1>1 DEF Execute, AR, WL, RL
<1>4. /\ v' = [r EXCEPT !.ofs = a + 256 * b, !.soh = FALSE, !.esc = FALSE]
      /\ tx' = <<OK>> /\ ri' = ri /\ took' = took
  BY <1>1, <1>2, <1>3 DEF SetAddress, Reset, Frames
<1> QED BY <1>1, <1>4 DEF Out, Frames, Given, Heard, Quoted

LEMMA WordTaken ==
  ASSUME NEW d \in Seq(Bytes), Len(d) = 3, NEW b \in Bytes, v \in Frames, Update(b),
         Given(WL, d, b), on' = on
  PROVE  /\ on' /\ Out' /\ v'.ofs = v.ofs /\ tx' = <<OK>>
         /\ v.ofs + 4 < Size => took' = [ofs |-> v.ofs, dat |-> Append(d, b)]
         /\ ri' = IF v.ofs + 4 < Size
                  THEN [i \in DOMAIN ri |-> IF i \in v.ofs .. v.ofs + 3
                                            THEN Append(d, b)[i - v.ofs + 1] ELSE ri[i]]
                  ELSE ri
<1> DEFINE r == Store(v, b)
<1>1. /\ Execute(r) /\ r \in Frames /\ r.typ = WL
      /\ r.dat = Append(d, b) /\ Len(r.dat) = 4 /\ r.ofs = v.ofs
  <2>1. Len(d) < 4
    OBVIOUS
  <2>2. /\ Execute(r) /\ r \in Frames /\ r.typ = WL
        /\ r.dat = Append(d, b) /\ Len(r.dat) = Len(d) + 1 /\ r.ofs = v.ofs
    <3>1. /\ Execute(r) /\ r \in Frames /\ r.soh /\ ~r.esc /\ r.cmd /\ r.typ = WL
          /\ r.dat = Append(d, b) /\ Len(r.dat) = Len(d) + 1 /\ r.ofs = v.ofs
      BY <2>1, DataStored
    <3> QED BY <3>1
  <2>3. Len(d) + 1 = 4
    OBVIOUS
  <2> QED BY <2>2, <2>3
<1> HIDE DEF r
<1>2. Write(r)
  BY <1>1 DEF Execute, AR, WL, RL
<1>3. v' = [r EXCEPT !.soh = FALSE, !.esc = FALSE] /\ tx' = <<OK>>
  BY <1>1, <1>2 DEF Write, Reset, Frames
<1>4. Out' /\ v'.ofs = v.ofs
  BY <1>1, <1>3 DEF Out, Frames
<1> QED BY <1>1, <1>2, <1>3, <1>4 DEF Write, Given, Heard, Quoted

LEMMA ReadGoesOn ==
  ASSUME NEW d \in Seq(Bytes), Len(d) < 3, v \in Frames, Update(DUMMY), Heard(RL, d), on' = on
  PROVE  /\ tx' = <<Shown(v.ofs + Len(d) + 1)>> /\ Kept
         /\ IF Len(d) < 2 THEN Heard(RL, Append(d, DUMMY))' ELSE on' /\ Out'
<1> DEFINE r == Store(v, DUMMY)
<1>1. DUMMY \in Bytes /\ DUMMY \notin {SOH, ESC}
  BY DEF DUMMY, Bytes, SOH, ESC
<1>2. /\ Execute(r) /\ r \in Frames /\ r.soh /\ ~r.esc /\ r.cmd /\ r.typ = RL
      /\ r.dat = Append(d, DUMMY) /\ Len(r.dat) = Len(d) + 1 /\ r.ofs = v.ofs
  BY <1>1, DataStored, LenProperties DEF Given
<1>3. r.ofs \in Nat /\ Len(d) \in Nat
  BY <1>2, LenProperties DEF Frames
<1> HIDE DEF r
<1>4. Read(r)
  BY <1>2, <1>3 DEF Execute, AR, WL, RL
<1>5. /\ v' = IF Len(d) + 2 = 4 THEN Reset(r) ELSE r
      /\ ri' = ri /\ took' = took
  BY <1>2, <1>3, <1>4 DEF Read
<1>6. tx' = <<Shown(v.ofs + Len(d) + 1)>>
  <2>1. r.ofs + Len(r.dat) = v.ofs + Len(d) + 1
    BY <1>2, <1>3
  <2> QED BY <2>1, <1>4 DEF Read, Shown
<1>7. CASE Len(d) < 2
  <2>1. v' = r
    BY <1>3, <1>5, <1>7
  <2> QED BY <1>2, <1>5, <1>6, <1>7, <2>1 DEF Heard, Kept
<1>8. CASE Len(d) = 2
  <2>1. v' = [r EXCEPT !.soh = FALSE, !.esc = FALSE]
    BY <1>5, <1>8 DEF Reset
  <2>2. Out' /\ v'.ofs = v.ofs
    BY <1>2, <2>1 DEF Out, Frames
  <2>3. ~ (Len(d) < 2)
    BY <1>8
  <2>4. on'
    BY DEF Heard
  <2>5. Kept
    BY <1>5, <2>2 DEF Kept
  <2> QED BY <1>6, <2>2, <2>3, <2>4, <2>5
<1>9. Len(d) < 2 \/ Len(d) = 2
  <2>1. \A n \in Nat : n < 3 => n < 2 \/ n = 2
    OBVIOUS
  <2> QED BY <1>3, <2>1
<1> QED BY <1>7, <1>8, <1>9

(* The slave's types. *)
Slave == v \in Frames /\ tx \in Answers /\ ri \in Registers

LEMMA SizeIs8 == ASSUME ro \in Registers PROVE Size = 8
<1>1. DOMAIN ro = 0 .. 7
  BY DEF Registers
<1>2. Cardinality(0 .. 7) = IF 0 > 7 THEN 0 ELSE 7 - 0 + 1
  <2>1. 0 \in Int /\ 7 \in Int
    OBVIOUS
  <2> QED BY <2>1, FS_Interval, Zenon
<1>3. (IF 0 > 7 THEN 0 ELSE 7 - 0 + 1) = 8
  OBVIOUS
<1> QED BY <1>1, <1>2, <1>3 DEF Size

LEMMA ShownIs ==
  ASSUME ro \in Registers, NEW o \in Nat
  PROVE  Shown(o) = (IF o < 8 THEN ro[o] ELSE 1) /\ Shown(o) \in Bytes
<1>1. Shown(o) = IF o < 8 THEN ro[o] ELSE 1
  BY SizeIs8 DEF Shown
<1> QED BY <1>1 DEF Registers, Bytes

LEMMA AnswerIs ==
  /\ << >> \in Answers
  /\ \A x \in Bytes : <<x>> \in Answers /\ <<x>> # << >> /\ <<x>>[1] = x
  BY DEF Answers

LEMMA ResetIs ==
  ASSUME NEW r \in Frames
  PROVE  Reset(r) \in Frames /\ ~Reset(r).soh /\ ~Reset(r).esc /\ Reset(r).dat = r.dat
  BY DEF Frames, Reset

(* Whatever the byte is, the slave is in a state that it may go on with.   *)
LEMMA UpdateTyped ==
  ASSUME NEW b \in Bytes, Update(b), Slave, Sane, on, on' = on, ro \in Registers
  PROVE  Slave' /\ Sane' /\ (v.esc => ~v'.esc)
<1>1. CASE b = SOH /\ ~v.esc
  <2>1. v' = Soh(v) /\ tx' = << >> /\ ri' = ri
    BY <1>1 DEF Update, Quiet, SOH, ESC
  <2>2. v' \in Frames /\ ~v'.esc /\ ~v'.cmd /\ v'.dat = << >>
    <3>1. << >> \in Seq(Bytes)
      OBVIOUS
    <3> QED BY <2>1, <3>1 DEF Soh, Slave, Frames
  <2> QED BY <2>1, <2>2, AnswerIs DEF Slave, Sane
<1>2. CASE b = ESC /\ v.soh /\ ~v.esc
  <2>1. v' = [v EXCEPT !.esc = TRUE] /\ tx' = << >> /\ ri' = ri
    BY <1>2 DEF Update, Quiet, SOH, ESC
  <2> QED BY <1>2, <2>1, AnswerIs DEF Slave, Sane, Frames
<1>3. CASE (b # SOH \/ v.esc) /\ ~v.soh
  <2>1. v' = v /\ tx' = << >> /\ ri' = ri
    BY <1>3, Ignored DEF Kept
  <2> QED BY <1>3, <2>1, AnswerIs DEF Slave, Sane
<1>4. CASE v.soh /\ (v.esc \/ b \notin {SOH, ESC})
  <2> DEFINE r == Store(v, b)
  <2>1. Execute(r)
    BY <1>4, Executed
  <2>2. /\ r \in Frames /\ r.soh /\ ~r.esc /\ r.cmd
        /\ Len(r.dat) <= 4
        /\ \/ r.typ = AR /\ Len(r.dat) <= 2
           \/ r.typ = WL /\ Len(r.dat) <= 4
           \/ r.typ = RL /\ Len(r.dat) <= 3
           \/ r.dat = << >>
    <3>1. v.dat \in Seq(Bytes) /\ Append(v.dat, b) \in Seq(Bytes)
          /\ Len(Append(v.dat, b)) = Len(v.dat) + 1
      BY DEF Slave, Frames
    <3>2. CASE v.cmd
      <4>1. Len(v.dat) < 4 /\ Len(v.dat) < 14
        BY <1>4, <3>1, <3>2, LenProperties DEF Sane
      <4>2. r = [v EXCEPT !.esc = FALSE, !.dat = Append(@, b)]
        BY <3>2, <4>1 DEF Store
      <4>3. /\ r \in Frames /\ r.soh /\ ~r.esc /\ r.cmd
            /\ r.dat = Append(v.dat, b) /\ r.typ = v.typ
        BY <1>4, <3>1, <3>2, <4>2 DEF Slave, Frames
      <4> HIDE DEF r
      <4>4. Len(r.dat) = Len(v.dat) + 1 /\ Len(v.dat) \in Nat
        BY <3>1, <4>3, LenProperties
      <4> QED BY <1>4, <3>2, <4>1, <4>3, <4>4 DEF Sane
    <3>3. CASE ~v.cmd
      <4>1. r = [v EXCEPT !.esc = FALSE, !.typ = b, !.cmd = TRUE]
        BY <3>3 DEF Store
      <4>2. v.dat = << >>
        BY <1>4, <3>3 DEF Sane
      <4>3. r \in Frames /\ r.soh /\ ~r.esc /\ r.cmd /\ r.dat = << >>
        BY <1>4, <4>1, <4>2 DEF Slave, Frames
      <4> HIDE DEF r
      <4> QED BY <4>3
    <3> QED BY <3>2, <3>3
  <2> HIDE DEF r
  <2>3. r.dat \in Seq(Bytes) /\ Len(r.dat) \in Nat /\ r.ofs \in Nat
    BY <2>2, LenProperties DEF Frames
  <2>4. CASE r.typ = AR /\ Len(r.dat) = 2
    <3>1. SetAddress(r)
      BY <2>1, <2>4 DEF Execute, AR, WL, RL
    <3>2. r.dat[1] \in Nat /\ r.dat[2] \in Nat
      <4>1. \A d \in Seq(Bytes) : Len(d) = 2 => d[1] \in Bytes /\ d[2] \in Bytes
        OBVIOUS
      <4>2. r.dat[1] \in Bytes /\ r.dat[2] \in Bytes
        BY <2>3, <2>4, <4>1, Zenon
      <4> QED BY <4>2 DEF Bytes
    <3>3. /\ v' = [r EXCEPT !.ofs = r.dat[1] + 256 * r.dat[2], !.soh = FALSE, !.esc = FALSE]
          /\ tx' = <<OK>> /\ ri' = ri
      BY <2>2, <3>1 DEF SetAddress, Reset, Frames
    <3>4. v' \in Frames /\ ~v'.soh /\ ~v'.esc /\ v'.dat = r.dat
      <4>1. r.dat[1] + 256 * r.dat[2] \in Nat
        BY <3>2
      <4> QED BY <2>2, <3>3, <4>1 DEF Frames
    <3> QED BY <2>2, <3>3, <3>4, AnswerIs, LinkBytes DEF Slave, Sane
  <2>5. CASE r.typ = WL /\ Len(r.dat) = 4
    <3>1. Write(r)
      BY <2>1, <2>5 DEF Execute, AR, WL, RL
    <3>2. v' \in Frames /\ ~v'.soh /\ ~v'.esc /\ v'.dat = r.dat /\ tx' = <<OK>>
      BY <2>2, <3>1, ResetIs DEF Write
    <3>3. ri' \in Registers
      <4>1. \A i \in r.ofs .. r.ofs + 3 : r.dat[i - r.ofs + 1] \in Bytes
        BY <2>3, <2>5
      <4>2. ri \in Registers
        BY DEF Slave
      <4> QED BY <3>1, <4>1, <4>2 DEF Write, Registers
    <3> QED BY <2>2, <3>2, <3>3, AnswerIs, LinkBytes DEF Slave, Sane
  <2>6. CASE r.typ = RL /\ Len(r.dat) < 4
    <3>1. Read(r)
      BY <2>1, <2>6 DEF Execute, AR, WL, RL
    <3>2. tx' = <<Shown(r.ofs + Len(r.dat))>> /\ ri' = ri
      BY <3>1 DEF Read, Shown
    <3>3. tx' \in Answers
      <4>1. r.ofs + Len(r.dat) \in Nat
        BY <2>3
      <4> HIDE DEF Answers
      <4> QED BY <3>2, <4>1, ShownIs, AnswerIs
    <3>4. /\ v' \in Frames /\ v'.dat = r.dat
          /\ (v'.esc => v'.soh) /\ (v'.soh => v' = r /\ Len(r.dat) < 3)
      <4>1. CASE Len(r.dat) = 3
        <5>1. v' = Reset(r)
          BY <3>1, <4>1 DEF Read
        <5> QED BY <2>2, <5>1, ResetIs
      <4>2. CASE Len(r.dat) # 3
        <5>1. Len(r.dat) + 1 # 4 /\ Len(r.dat) < 3
          <6>1. \A n \in Nat : n < 4 /\ n # 3 => n + 1 # 4 /\ n < 3
            OBVIOUS
          <6> QED BY <2>3, <2>6, <4>2, <6>1
        <5>2. v' = r
          BY <3>1, <5>1 DEF Read
        <5> QED BY <2>2, <5>1, <5>2
      <4> QED BY <4>1, <4>2
    <3> QED BY <2>2, <2>6, <3>2, <3>3, <3>4 DEF Slave, Sane
  <2>7. CASE (r.typ = AR /\ Len(r.dat) # 2) \/ (r.typ = WL /\ Len(r.dat) # 4)
    <3>1. v' = r /\ tx' = << >> /\ ri' = ri
      BY <2>1, <2>7 DEF Execute, Quiet, AR, WL, RL
    <3>2. \/ r.typ = AR /\ Len(r.dat) < 2
          \/ r.typ = WL /\ Len(r.dat) < 4
      <4>1. \A n \in Nat : (n <= 2 /\ n # 2 => n < 2) /\ (n <= 4 /\ n # 4 => n < 4)
        OBVIOUS
      <4>2. Len(<< >>) = 0 /\ AR # WL /\ AR # RL /\ WL # RL
        BY DEF AR, WL, RL
      <4>3. CASE r.dat = << >>
        <5>1. Len(r.dat) < 2 /\ Len(r.dat) < 4
          BY <4>2, <4>3
        <5> QED BY <2>7, <5>1
      <4>4. CASE r.dat # << >>
        <5>1. CASE r.typ = AR
          <6>1. Len(r.dat) <= 2 /\ Len(r.dat) # 2
            BY <2>2, <2>7, <4>2, <4>4, <5>1
          <6> QED BY <2>3, <4>1, <5>1, <6>1
        <5>2. CASE r.typ = WL
          <6>1. Len(r.dat) <= 4 /\ Len(r.dat) # 4
            BY <2>2, <2>7, <4>2, <4>4, <5>2
          <6> QED BY <2>3, <4>1, <5>2, <6>1
        <5> QED BY <2>7, <5>1, <5>2
      <4> QED BY <4>3, <4>4
    <3> QED BY <2>2, <3>1, <3>2, AnswerIs DEF Slave, Sane
  <2>8. CASE r.typ \notin {AR, WL} /\ ~ (r.typ = RL /\ Len(r.dat) < 4)
    <3>1. v' = Reset(r) /\ tx' = << >> /\ ri' = ri
      BY <2>1, <2>8 DEF Execute, Quiet
    <3> QED BY <2>2, <3>1, ResetIs, AnswerIs DEF Slave, Sane
  <2> QED BY <2>4, <2>5, <2>6, <2>7, <2>8
<1> QED BY <1>1, <1>2, <1>3, <1>4 DEF Slave, Frames

-----------------------------------------------------------------------------
(* The bytes of a frame, one after the other. *)

LEMMA LeftIs ==
  ASSUME NEW d \in [1 .. 4 -> Bytes]
  PROVE  /\ Left(d, 0) = Left0(d) /\ Left(d, 4) = <<READ>>
         /\ \A n \in 0 .. 4 : Left(d, n) \in Seq(Link)
         /\ \A n \in 0 .. 3 : d[n + 1] \in Bytes /\ Left(d, n) = Coded(d[n + 1], Left(d, n + 1))
<1>1. /\ Left(d, 0) = Left0(d) /\ Left(d, 1) = Left1(d) /\ Left(d, 2) = Left2(d)
      /\ Left(d, 3) = Left3(d) /\ Left(d, 4) = <<READ>>
  BY DEF Left
<1>2. \A n \in 0 .. 4 : n = 0 \/ n = 1 \/ n = 2 \/ n = 3 \/ n = 4
  OBVIOUS
<1>3. \A n \in 0 .. 4 : Left(d, n) \in Seq(Link)
  BY <1>1, <1>2, LeftSeq
<1>4. /\ Left(d, 0) = Coded(d[1], Left(d, 1)) /\ Left(d, 1) = Coded(d[2], Left(d, 2))
      /\ Left(d, 2) = Coded(d[3], Left(d, 3)) /\ Left(d, 3) = Coded(d[4], Left(d, 4))
  BY <1>1 DEF Left0, Left1, Left2, Left3
<1>5. 0 + 1 = 1 /\ 1 + 1 = 2 /\ 2 + 1 = 3 /\ 3 + 1 = 4
  OBVIOUS
<1>6. \A n \in 0 .. 3 : n = 0 \/ n = 1 \/ n = 2 \/ n = 3
  OBVIOUS
<1>7. \A n \in 0 .. 3 : Left(d, n) = Coded(d[n + 1], Left(d, n + 1))
  BY <1>4, <1>5, <1>6
<1>8. \A n \in 0 .. 3 : d[n + 1] \in Bytes
  OBVIOUS
<1> QED BY <1>1, <1>3, <1>7, <1>8

LEMMA PrefixIs ==
  ASSUME NEW d \in [1 .. 4 -> Bytes]
  PROVE  /\ SubSeq(d, 1, 0) = << >> /\ SubSeq(d, 1, 4) = d
         /\ \A n \in 0 .. 3 :
               /\ SubSeq(d, 1, n) \in Seq(Bytes) /\ Len(SubSeq(d, 1, n)) = n
               /\ Append(SubSeq(d, 1, n), d[n + 1]) = SubSeq(d, 1, n + 1)
<1>1. d \in Seq(Bytes) /\ Len(d) = 4
  <2>1. 4 \in Nat /\ DOMAIN d = 1 .. 4 /\ \A i \in 1 .. 4 : d[i] \in Bytes
    OBVIOUS
  <2>2. d = [i \in 1 .. 4 |-> d[i]]
    OBVIOUS
  <2>3. d \in Seq(Bytes)
    BY <2>1, <2>2, IsASeq
  <2> QED BY <2>1, <2>3, LenProperties
<1>2. ASSUME NEW n \in 0 .. 4
      PROVE  /\ SubSeq(d, 1, n) \in Seq(Bytes) /\ Len(SubSeq(d, 1, n)) = n
             /\ \A i \in 1 .. n : SubSeq(d, 1, n)[i] = d[i]
  BY <1>1
<1>3. ASSUME NEW n \in 0 .. 3
      PROVE  Append(SubSeq(d, 1, n), d[n + 1]) = SubSeq(d, 1, n + 1)
  <2>1. n \in 0 .. 4 /\ n + 1 \in 0 .. 4 /\ n \in Nat
    OBVIOUS
  <2> DEFINE s == SubSeq(d, 1, n)
             r == SubSeq(d, 1, n + 1)
  <2>2. s \in Seq(Bytes) /\ Len(s) = n /\ \A i \in 1 .. n : s[i] = d[i]
    BY <1>2, <2>1
  <2>3. r \in Seq(Bytes) /\ Len(r) = n + 1 /\ \A i \in 1 .. n + 1 : r[i] = d[i]
    BY <1>2, <2>1
  <2>4. d[n + 1] \in Bytes
    OBVIOUS
  <2> HIDE DEF s, r
  <2>5. /\ Append(s, d[n + 1]) \in Seq(Bytes) /\ Len(Append(s, d[n + 1])) = n + 1
        /\ \A i \in 1 .. n + 1 : Append(s, d[n + 1])[i] = d[i]
    BY <2>1, <2>2, <2>4
  <2> QED BY <2>1, <2>3, <2>5, SeqEqual DEF s, r
<1>4. SubSeq(d, 1, 0) = << >>
  BY <1>1
<1>5. SubSeq(d, 1, 4) = d
  <2>1. 4 \in 0 .. 4
    OBVIOUS
  <2>2. /\ SubSeq(d, 1, 4) \in Seq(Bytes) /\ Len(SubSeq(d, 1, 4)) = 4
        /\ \A i \in 1 .. 4 : SubSeq(d, 1, 4)[i] = d[i]
    BY <1>2, <2>1
  <2> QED BY <1>1, <2>2, SeqEqual
<1>6. \A n \in 0 .. 3 : SubSeq(d, 1, n) \in Seq(Bytes) /\ Len(SubSeq(d, 1, n)) = n
  BY <1>2
<1> QED BY <1>3, <1>4, <1>5, <1>6

(* A byte on its way to the slave, and the one that comes back. *)
Byte(b) == IF on THEN Update(b) ELSE UNCHANGED <<v, tx, ri, took>>
Answer == IF tx = << >> THEN 0 ELSE tx[1]
Same == UNCHANGED <<on, ro, call, hurt, pc, p, mode, noff, nkill>>
Sent(x) == Byte(IF x = READ THEN DUMMY ELSE x) /\ Same
           /\ rcv' = IF x = READ THEN Append(rcv, Answer) ELSE rcv

LEMMA XferIs ==
  ASSUME NEW x \in Link, NEW t \in Seq(Link), todo = Cons(x, t),
         Xfer, UNCHANGED <<pc, host, bound>>
  PROVE  todo' = t /\ Sent(x)
<1>1. todo # << >> /\ Head(todo) = x /\ Tail(todo) = t
  BY ConsIs
<1> QED BY <1>1 DEF Xfer, Sent, Byte, Same, Answer, host, bound

LEMMA SentTyped ==
  ASSUME NEW x \in Link, Sent(x), Slave, Sane, ro \in Registers
  PROVE  Slave' /\ Sane' /\ (v.esc => ~v'.esc)
<1>1. CASE on
  <2>1. (IF x = READ THEN DUMMY ELSE x) \in Bytes
    BY LinkBytes DEF Link
  <2> QED BY <1>1, <2>1, UpdateTyped DEF Sent, Byte, Same
<1>2. CASE ~on
  BY <1>2 DEF Sent, Byte, Same, Slave, Sane, Idle
<1> QED BY <1>1, <1>2

(* A slave that has missed the beginning waits for the next one. *)
LEMMA MissedStays ==
  ASSUME NEW b, Byte(b), Missed, b # SOH PROVE Missed' /\ Kept
<1>1. CASE on
  <2>1. v' = v /\ tx' = << >> /\ Kept
    BY <1>1, Ignored DEF Byte, Missed, Out
  <2> QED BY <2>1 DEF Missed, Out
<1>2. CASE ~on
  BY <1>2 DEF Byte, Missed, Out, Kept
<1> QED BY <1>1, <1>2

LEMMA OutStays ==
  ASSUME NEW b, Byte(b), Out, b # SOH
  PROVE  Out' /\ v' = v /\ Kept
<1>1. CASE on
  <2>1. v' = v /\ Kept
    BY <1>1, Ignored DEF Byte, Out
  <2> QED BY <2>1 DEF Out
<1>2. CASE ~on
  BY <1>2 DEF Byte, Out, Kept
<1> QED BY <1>1, <1>2

LEMMA BeginsAnew ==
  ASSUME v \in Frames, Sane, Byte(SOH), ~v.esc, on' = on
  PROVE  (Opened \/ Missed)' /\ (on => Opened') /\ Kept /\ ~v'.esc
<1>1. CASE on
  BY <1>1, SohTaken DEF Byte, Opened
<1>2. CASE ~on
  BY <1>2 DEF Byte, Sane, Idle, Missed, Out, Kept
<1> QED BY <1>1, <1>2

(* A frame that sends the address. *)
LEMMA AddressSent ==
  ASSUME IInv, Xfer, UNCHANGED <<pc, host, bound>>, InAddress, call.op # "none"
  PROVE  /\ InAddress' /\ Slave' /\ Sane' /\ Same
         /\ Calm => ri' = ri /\ (v'.ofs = v.ofs \/ v'.ofs = call.adr)
<1> DEFINE a == call.adr
<1>1. Slave /\ Sane /\ ro \in Registers /\ v \in Frames
  BY DEF IInv, Slave, Shape, Typed
<1>2. /\ a \in {0, 4} /\ a \in Link /\ a \in Bytes /\ 0 \in Bytes /\ READ \in Link /\ SOH \in Link
      /\ AR \in Link /\ 0 \in Link
  <2>1. a \in {0, 4}
    BY DEF IInv, Shape, Calls, MODE, DATA
  <2>2. 0 \in Bytes /\ 4 \in Bytes
    BY DEF Bytes
  <2> QED BY <2>1, <2>2, LinkBytes
<1>3. /\ a \notin {SOH, ESC} /\ 0 \notin {SOH, ESC} /\ AR # SOH /\ DUMMY # SOH
      /\ a # READ /\ 0 # READ /\ AR # READ /\ SOH # READ
  BY <1>2 DEF SOH, ESC, AR, READ, DUMMY
<1>4. /\ <<READ>> = Cons(READ, << >>) /\ <<0, READ>> = Cons(0, <<READ>>)
      /\ <<a, 0, READ>> = Cons(a, <<0, READ>>)
      /\ <<AR, a, 0, READ>> = Cons(AR, <<a, 0, READ>>)
      /\ <<SOH, AR, a, 0, READ>> = Cons(SOH, <<AR, a, 0, READ>>)
  <2>1. <<READ>> = Cons(READ, << >>)
    BY <1>2, Tuple1
  <2>2. <<0, READ>> = Cons(0, <<READ>>)
    BY <1>2, Tuple2
  <2>3. <<a, 0, READ>> = Cons(a, <<0, READ>>)
    BY <1>2, Tuple3
  <2>4. <<AR, a, 0, READ>> = Cons(AR, <<a, 0, READ>>)
    BY <1>2, Tuple4
  <2>5. <<SOH, AR, a, 0, READ>> = Cons(SOH, <<AR, a, 0, READ>>)
    BY <1>2, Tuple5
  <2> QED BY <2>1, <2>2, <2>3, <2>4, <2>5
<1>5. /\ << >> \in Seq(Link) /\ <<READ>> \in Seq(Link) /\ <<0, READ>> \in Seq(Link)
      /\ <<a, 0, READ>> \in Seq(Link) /\ <<AR, a, 0, READ>> \in Seq(Link)
      /\ <<SOH, AR, a, 0, READ>> \in Seq(Link)
  BY <1>2, Tuple1, Tuple2, Tuple3, Tuple4, Tuple5
<1>6. call' = call /\ a' = a
  BY DEF Xfer
<1> HIDE DEF a
<1>7. CASE todo = Cons(SOH, <<SOH, AR, a, 0, READ>>) /\ rcv = << >> /\ (Calm => ~v.esc)
  <2>1. todo' = <<SOH, AR, a, 0, READ>> /\ Sent(SOH)
    BY <1>2, <1>5, <1>7, XferIs
  <2>2. Byte(SOH) /\ rcv' = << >> /\ Same
    BY <1>3, <1>7, <2>1 DEF Sent
  <2>3. Slave' /\ Sane' /\ (v.esc => ~v'.esc)
    BY <1>1, <1>2, <2>1, SentTyped
  <2>4. ~v.esc => ~v'.esc /\ Kept
    BY <1>1, <2>2, BeginsAnew DEF Same
  <2> QED BY <1>6, <1>7, <2>1, <2>2, <2>3, <2>4 DEF InAddress, Kept, a
<1>8. CASE todo = <<SOH, AR, a, 0, READ>> /\ rcv = << >> /\ ~v.esc
  <2>1. todo' = <<AR, a, 0, READ>> /\ Sent(SOH)
    BY <1>2, <1>4, <1>5, <1>8, XferIs
  <2>2. Byte(SOH) /\ rcv' = << >> /\ Same
    BY <1>3, <1>8, <2>1 DEF Sent
  <2>3. Slave' /\ Sane'
    BY <1>1, <1>2, <2>1, SentTyped
  <2>4. (Opened \/ Missed)' /\ Kept
    BY <1>1, <1>8, <2>2, BeginsAnew DEF Same
  <2> QED BY <1>6, <2>1, <2>2, <2>3, <2>4 DEF InAddress, Kept, a
<1>9. CASE todo = <<AR, a, 0, READ>> /\ rcv = << >> /\ (Opened \/ Missed)
  <2>1. todo' = <<a, 0, READ>> /\ Sent(AR)
    BY <1>2, <1>4, <1>5, <1>9, XferIs
  <2>2. Byte(AR) /\ rcv' = << >> /\ Same
    BY <1>3, <1>9, <2>1 DEF Sent
  <2>3. Slave' /\ Sane'
    BY <1>1, <1>2, <2>1, SentTyped
  <2>4. Opened => Heard(AR, << >>)' /\ Kept
    BY <1>1, <2>2, CommandTaken DEF Byte, Same, Opened
  <2>5. Missed => Missed' /\ Kept
    BY <1>3, <2>2, MissedStays
  <2> QED BY <1>6, <1>9, <2>1, <2>2, <2>3, <2>4, <2>5 DEF InAddress, Kept, a
<1>10. CASE todo = <<a, 0, READ>> /\ rcv = << >> /\ (Heard(AR, << >>) \/ Missed)
  <2>1. todo' = <<0, READ>> /\ Sent(a)
    BY <1>2, <1>4, <1>5, <1>10, XferIs
  <2>2. Byte(a) /\ rcv' = << >> /\ Same
    BY <1>3, <1>10, <2>1 DEF Sent
  <2>3. Slave' /\ Sane'
    BY <1>1, <1>2, <2>1, SentTyped
  <2>4. Heard(AR, << >>) => Heard(AR, <<a>>)' /\ Kept
    <3> HAVE Heard(AR, << >>)
    <3>1. ASSUME NEW c \in Bytes, c = a PROVE Heard(AR, <<a>>)' /\ Kept
      <4> DEFINE d == << >>
      <4>1. d \in Seq(Bytes) /\ Len(d) = 0 /\ Append(d, c) = <<c>> /\ Given(AR, d, c)
        BY <1>3, <3>1 DEF Given
      <4>2. Update(c) /\ on' = on
        BY <2>2, <3>1 DEF Byte, Same, Heard
      <4> HIDE DEF d
      <4>3. Room(AR, d)
        BY <4>1 DEF Room
      <4>4. Heard(AR, Append(d, c))' /\ Kept
        BY <1>1, <4>1, <4>2, <4>3, DataTaken
      <4> QED BY <1>6, <3>1, <4>1, <4>4 DEF Heard
    <3> QED BY <1>2, <3>1
  <2>5. Missed => Missed' /\ Kept
    BY <1>3, <2>2, MissedStays
  <2> QED BY <1>6, <1>10, <2>1, <2>2, <2>3, <2>4, <2>5 DEF InAddress, Kept, a
<1>11. CASE todo = <<0, READ>> /\ rcv = << >> /\ (Heard(AR, <<a>>) \/ Missed)
  <2>1. todo' = <<READ>> /\ Sent(0)
    BY <1>2, <1>4, <1>5, <1>11, XferIs
  <2>2. Byte(0) /\ rcv' = << >> /\ Same
    BY <1>3, <1>11, <2>1 DEF Sent
  <2>3. Slave' /\ Sane'
    BY <1>1, <1>2, <2>1, SentTyped
  <2>4. Heard(AR, <<a>>) => on' /\ Out' /\ v'.ofs = a /\ ri' = ri
    <3> HAVE Heard(AR, <<a>>)
    <3>1. Given(AR, <<a>>, 0) /\ Update(0) /\ on' = on
      BY <1>3, <2>2 DEF Given, Byte, Same, Heard
    <3>2. on' /\ Out' /\ v'.ofs = a + 256 * 0 /\ ri' = ri
      <4>1. a \in Bytes /\ 0 \in Bytes /\ v \in Frames
        BY <1>1, <1>2
      <4> QED BY <3>1, <4>1, AddressTaken
    <3>3. a + 256 * 0 = a
      BY <1>2
    <3> QED BY <3>2, <3>3
  <2>5. Missed => Missed' /\ Kept
    BY <1>3, <2>2, MissedStays
  <2> QED BY <1>6, <1>11, <2>1, <2>2, <2>3, <2>4, <2>5 DEF InAddress, Kept, a
<1>12. CASE todo = <<READ>> /\ rcv = << >> /\ ((on /\ Out /\ v.ofs = a) \/ Missed)
  <2>1. todo' = << >> /\ Sent(READ)
    BY <1>2, <1>4, <1>5, <1>12, XferIs
  <2>2. Byte(DUMMY) /\ rcv' = Append(<< >>, Answer) /\ Same
    BY <1>12, <2>1 DEF Sent
  <2>3. Slave' /\ Sane'
    BY <1>1, <1>2, <2>1, SentTyped
  <2>4. Out' /\ v' = v /\ Kept
    BY <1>3, <1>12, <2>2, OutStays DEF Missed
  <2>5. rcv' = <<Answer>> /\ Len(rcv') = 1
    BY <2>2
  <2>6. CASE on /\ Out /\ v.ofs = a
    BY <1>6, <2>1, <2>2, <2>3, <2>4, <2>5, <2>6 DEF InAddress, Kept, Same, a
  <2>7. CASE Missed
    <3>1. Answer = 0 /\ rcv' # <<OK>>
      <4>1. Answer = 0
        BY <2>7 DEF Missed, Answer
      <4>2. <<0>> # <<OK>>
        BY DEF OK
      <4> QED BY <2>5, <4>1, <4>2
    <3> QED BY <2>1, <2>2, <2>3, <2>4, <2>5, <3>1 DEF InAddress, Kept
  <2> QED BY <1>12, <2>6, <2>7
<1>13. CASE todo = << >>
  BY <1>13 DEF Xfer
<1> QED BY <1>7, <1>8, <1>9, <1>10, <1>11, <1>12, <1>13 DEF InAddress, a

(* A frame that writes the word. *)
LEMMA WordTyped ==
  ASSUME McdAssumption, Shape, InCall, call.op = "outl"
  PROVE  /\ call.val \in [1 .. 4 -> Bytes]
         /\ p.name = "mode" => call.val[1] = p.bank /\ Clean(call.val)
<1>1. CASE p.name = "init"
  BY <1>1 DEF InCall, Word, McdAssumption
<1>2. CASE p.name = "mode"
  <2> DEFINE d == <<p.bank, 0, 0, 0>>
  <2>1. call.val = d /\ p.bank \in Banks /\ p.bank \in 1 .. 60
    BY <1>2 DEF InCall, Word, McdAssumption
  <2>2. d \in [1 .. 4 -> Bytes] /\ d[1] = p.bank
    BY <2>1 DEF Bytes
  <2>3. \A i \in 1 .. 4 : d[i] = p.bank \/ d[i] = 0
    <3>1. \A i \in 1 .. 4 : i = 1 \/ i = 2 \/ i = 3 \/ i = 4
      OBVIOUS
    <3> QED BY <3>1
  <2> HIDE DEF d
  <2>4. Clean(d)
    BY <2>1, <2>3 DEF Clean, SOH, ESC
  <2> QED BY <2>1, <2>2, <2>4
<1> QED BY <1>1, <1>2 DEF InCall

LEMMA LostStays ==
  ASSUME NEW b, Byte(b), Same, Lost, b = SOH => ~Clean(call.val)
  PROVE  Lost' /\ (Clean(call.val) => Kept)
<1>1. call' = call /\ hurt' = hurt
  BY DEF Same
<1>2. CASE Clean(call.val)
  <2>1. Missed' /\ Kept
    BY <1>2, MissedStays DEF Lost
  <2> QED BY <1>1, <2>1 DEF Lost
<1>3. CASE ~Clean(call.val)
  BY <1>1, <1>3 DEF Lost, Clean
<1> QED BY <1>2, <1>3

(* What the frame may change. *)
WordEffect ==
  Clean(call.val) \/ ~hurt =>
    /\ v'.ofs = v.ofs
    /\ ri'[MODE] = ri[MODE] \/ (v.ofs = MODE /\ ri'[MODE] = call.val[1])

LEMMA KeptEffect == ASSUME Kept PROVE WordEffect
  BY DEF Kept, WordEffect

LEMMA LostEffect ==
  ASSUME Lost, Clean(call.val) => Kept PROVE WordEffect
  BY DEF Kept, WordEffect, Lost

Wording(n) ==
  /\ todo = Left(call.val, n) /\ rcv = << >>
  /\ IF n < 4 THEN Heard(WL, SubSeq(call.val, 1, n)) \/ Lost ELSE (Out /\ Written) \/ Lost

(* A byte of the word. *)
LEMMA WordByte ==
  ASSUME NEW d \in [1 .. 4 -> Bytes], d = call.val, NEW n \in 0 .. 3,
         Slave, ro \in Registers, Byte(d[n + 1]), Same,
         Given(WL, SubSeq(d, 1, n), d[n + 1]) \/ Lost,
         todo' = Left(d, n + 1), rcv' = << >>
  PROVE  Wording(n + 1)' /\ WordEffect
<1> DEFINE b == d[n + 1]
           s == SubSeq(d, 1, n)
           r == SubSeq(d, 1, n + 1)
<1>1. /\ b \in Bytes /\ s \in Seq(Bytes) /\ Len(s) = n /\ Append(s, b) = r
      /\ v \in Frames /\ call' = call /\ call'.val = d /\ n \in Nat
  <2>1. s \in Seq(Bytes) /\ Len(s) = n /\ Append(s, b) = r
    BY PrefixIs
  <2>2. b \in Bytes /\ n \in Nat
    OBVIOUS
  <2> HIDE DEF b, s, r
  <2> QED BY <2>1, <2>2 DEF Slave, Same
<1>2. b = SOH => ~Clean(d)
  BY DEF Clean
<1>3. CASE Lost
  <2>1. Lost' /\ (Clean(call.val) => Kept)
    BY <1>2, <1>3, LostStays
  <2> QED BY <1>1, <1>3, <2>1, LostEffect DEF Wording
<1>4. CASE Given(WL, s, b)
  <2>1. on' = on /\ Update(b)
    BY <1>4 DEF Same, Byte, Given, Heard, Quoted
  <2>2. CASE n < 3
    <3> HIDE DEF b, s
    <3>1. Room(WL, s)
      BY <1>1, <2>2 DEF Room
    <3>2. Heard(WL, Append(s, b))' /\ Kept
      BY <1>1, <1>4, <2>1, <3>1, DataTaken
    <3>3. Heard(WL, r)'
      BY <1>1, <3>2 DEF Heard
    <3>4. n + 1 < 4
      BY <2>2
    <3>5. Heard(WL, SubSeq(call.val, 1, n + 1))'
      BY <1>1, <3>3 DEF Heard
    <3> QED BY <1>1, <3>2, <3>4, <3>5, KeptEffect DEF Wording
  <2>3. CASE n = 3
    <3>0. r = d
      BY <2>3, PrefixIs
    <3> HIDE DEF b, s, r
    <3>1. /\ on' /\ Out' /\ v'.ofs = v.ofs
          /\ v.ofs + 4 < Size => took' = [ofs |-> v.ofs, dat |-> Append(s, b)]
          /\ ri' = IF v.ofs + 4 < Size
                   THEN [i \in DOMAIN ri |-> IF i \in v.ofs .. v.ofs + 3
                                             THEN Append(s, b)[i - v.ofs + 1] ELSE ri[i]]
                   ELSE ri
      <4>1. Len(s) = 3
        BY <1>1, <2>3
      <4> QED BY <1>1, <1>4, <2>1, <4>1, WordTaken
    <3>2. Append(s, b) = d
      BY <1>1, <3>0
    <3>3. Size = 8 /\ v.ofs \in Nat /\ DOMAIN ri = 0 .. 7
      BY <1>1, SizeIs8 DEF Slave, Registers, Frames
    <3>4. v.ofs = 0 => ri'[0] = d[1]
      <4> HAVE v.ofs = 0
      <4>1. ri' = [i \in 0 .. 7 |-> IF i \in 0 .. 3 THEN d[i - 0 + 1] ELSE ri[i]]
        BY <3>1, <3>2, <3>3
      <4> QED BY <4>1
    <3>5. v.ofs # 0 => ri'[0] = ri[0]
      <4> HAVE v.ofs # 0
      <4>1. 0 \notin v.ofs .. v.ofs + 3
        BY <3>3
      <4> QED BY <3>1, <3>3, <4>1
    <3>6. Written'
      BY <1>1, <3>1, <3>2, <3>3, <3>4 DEF Written, MODE
    <3>7. WordEffect
      BY <3>1, <3>4, <3>5 DEF WordEffect, MODE
    <3> QED BY <1>1, <2>3, <3>1, <3>6, <3>7 DEF Wording
  <2> QED BY <2>2, <2>3
<1> QED BY <1>3, <1>4

LEMMA WordSent ==
  ASSUME McdAssumption, IInv, Xfer, UNCHANGED <<pc, host, bound>>, InWrite, call.op = "outl"
  PROVE  InWrite' /\ Slave' /\ Sane' /\ Same /\ WordEffect
<1> SUFFICES ASSUME NEW d, d = call.val
             PROVE  InWrite' /\ Slave' /\ Sane' /\ Same /\ WordEffect
  OBVIOUS
<1>1. Slave /\ Sane /\ ro \in Registers /\ v \in Frames
  BY DEF IInv, Slave, Shape, Typed
<1>2. d \in [1 .. 4 -> Bytes]
  BY WordTyped DEF IInv
<1>3. /\ SOH \in Link /\ WL \in Link /\ READ \in Link /\ ESC \in Link
      /\ SOH # READ /\ WL # READ /\ ESC # READ /\ WL # SOH /\ ESC # SOH /\ DUMMY # SOH
      /\ WL \in {AR, WL}
  BY LinkBytes DEF SOH, WL, READ, ESC, DUMMY
<1>4. call' = call /\ hurt' = hurt /\ on' = on /\ call'.val = d
  BY DEF Xfer
<1>5. /\ Left(d, 0) = Left0(d) /\ Left(d, 4) = <<READ>>
      /\ \A n \in 0 .. 4 : Left(d, n) \in Seq(Link)
      /\ \A n \in 0 .. 3 : d[n + 1] \in Bytes /\ Left(d, n) = Coded(d[n + 1], Left(d, n + 1))
  BY <1>2, LeftIs
<1>6. /\ Left0(d) \in Seq(Link) /\ Cons(WL, Left0(d)) \in Seq(Link)
      /\ Cons(SOH, Cons(WL, Left0(d))) \in Seq(Link)
      /\ << >> \in Seq(Link) /\ <<READ>> = Cons(READ, << >>)
  <2>1. Left0(d) \in Seq(Link)
    BY <1>2, LeftSeq
  <2>2. Cons(WL, Left0(d)) \in Seq(Link)
    BY <1>3, <2>1, ConsIs
  <2>3. Cons(SOH, Cons(WL, Left0(d))) \in Seq(Link)
    BY <1>3, <2>2, ConsIs
  <2>4. << >> \in Seq(Link) /\ <<READ>> = Cons(READ, << >>)
    BY <1>3, Tuple1
  <2> QED BY <2>1, <2>2, <2>3, <2>4
<1>8. WordEffect => Addressed'
  BY <1>4 DEF WordEffect, Addressed, InWrite
<1>9. CASE todo = Cons(SOH, Cons(SOH, Cons(WL, Left0(d)))) /\ rcv = << >> /\ Out
  <2>1. todo' = Cons(SOH, Cons(WL, Left0(d))) /\ Sent(SOH)
    BY <1>3, <1>6, <1>9, XferIs
  <2>2. Byte(SOH) /\ rcv' = << >> /\ Same
    BY <1>3, <1>9, <2>1 DEF Sent
  <2>3. Slave' /\ Sane'
    BY <1>1, <1>3, <2>1, SentTyped
  <2>4. ~v'.esc /\ Kept
    BY <1>1, <1>4, <1>9, <2>2, BeginsAnew DEF Out
  <2> QED BY <1>4, <1>8, <2>1, <2>2, <2>3, <2>4, KeptEffect DEF InWrite
<1>10. CASE todo = Cons(SOH, Cons(WL, Left0(d))) /\ rcv = << >> /\ ~v.esc
  <2>1. todo' = Cons(WL, Left0(d)) /\ Sent(SOH)
    BY <1>3, <1>6, <1>10, XferIs
  <2>2. Byte(SOH) /\ rcv' = << >> /\ Same
    BY <1>3, <1>10, <2>1 DEF Sent
  <2>3. Slave' /\ Sane'
    BY <1>1, <1>3, <2>1, SentTyped
  <2>4. (Opened \/ Missed)' /\ (on => Opened') /\ Kept
    BY <1>1, <1>4, <1>10, <2>2, BeginsAnew
  <2>5. Opened' \/ Lost'
    BY <1>4, <2>4 DEF Lost, InWrite, Addressed
  <2> QED BY <1>4, <1>8, <2>1, <2>2, <2>3, <2>4, <2>5, KeptEffect DEF InWrite
<1>11. CASE todo = Cons(WL, Left0(d)) /\ rcv = << >> /\ (Opened \/ Lost)
  <2>1. todo' = Left(d, 0) /\ Sent(WL)
    BY <1>3, <1>5, <1>6, <1>11, XferIs
  <2>2. Byte(WL) /\ rcv' = << >> /\ Same
    BY <1>3, <1>11, <2>1 DEF Sent
  <2>3. Slave' /\ Sane'
    BY <1>1, <1>3, <2>1, SentTyped
  <2>4. Opened => Heard(WL, SubSeq(call.val, 1, 0))' /\ Kept
    <3> HAVE Opened
    <3>1. Heard(WL, << >>)' /\ Kept
      BY <1>1, <1>3, <1>4, <2>2, CommandTaken DEF Byte, Opened
    <3>2. SubSeq(call'.val, 1, 0) = << >>
      BY <1>2, <1>4, PrefixIs
    <3> QED BY <3>1, <3>2 DEF Heard
  <2>5. Lost => Lost' /\ (Clean(call.val) => Kept)
    BY <1>3, <2>2, LostStays
  <2>6. WordEffect
    BY <1>11, <2>4, <2>5, KeptEffect, LostEffect
  <2>7. 0 \in 0 .. 3 /\ (Heard(WL, SubSeq(call.val, 1, 0)) \/ Lost)'
    BY <1>11, <2>4, <2>5
  <2> QED BY <1>4, <1>8, <2>1, <2>2, <2>3, <2>6, <2>7 DEF InWrite
<1>12. ASSUME NEW n \in 0 .. 3, Wording(n + 1)' PROVE (WordEffect => InWrite')
  <2> HAVE WordEffect
  <2>1. CASE n < 3
    <3>1. n + 1 \in 0 .. 3 /\ n + 1 < 4
      BY <2>1
    <3> QED BY <1>8, <1>12, <3>1 DEF Wording, InWrite
  <2>2. CASE n = 3
    <3>1. todo' = <<READ>> /\ rcv' = << >> /\ ((Out /\ Written) \/ Lost)'
      BY <1>4, <1>5, <1>12, <2>2 DEF Wording
    <3> QED BY <1>8, <3>1 DEF InWrite
  <2> QED BY <2>1, <2>2
<1>13. ASSUME NEW n \in 0 .. 3, todo = Left(d, n), rcv = << >>,
              Heard(WL, SubSeq(d, 1, n)) \/ Lost
       PROVE  InWrite' /\ Slave' /\ Sane' /\ Same /\ WordEffect
  <2> DEFINE b == d[n + 1]
             t == Left(d, n + 1)
  <2>1. b \in Bytes /\ b \in Link /\ t \in Seq(Link) /\ b # READ /\ Left(d, n) = Coded(b, t)
    <3>1. n + 1 \in 0 .. 4
      OBVIOUS
    <3>2. b \in Bytes /\ t \in Seq(Link) /\ Left(d, n) = Coded(b, t)
      BY <1>5, <3>1
    <3> HIDE DEF b, t
    <3> QED BY <3>2, LinkBytes
  <2>2. CASE b \in {SOH, ESC}
    <3>1. Left(d, n) = Cons(ESC, Cons(b, t)) /\ Cons(b, t) \in Seq(Link)
      BY <2>1, <2>2, ConsIs DEF Coded
    <3>2. todo' = Cons(b, t) /\ Sent(ESC)
      BY <1>3, <1>13, <3>1, XferIs
    <3>3. Byte(ESC) /\ rcv' = << >> /\ Same
      BY <1>3, <1>13, <3>2 DEF Sent
    <3>4. Slave' /\ Sane'
      BY <1>1, <1>3, <3>2, SentTyped
    <3>5. Heard(WL, SubSeq(d, 1, n)) => Quoted(WL, SubSeq(d, 1, n))' /\ Kept
      BY <1>1, <1>4, <3>3, EscTaken DEF Byte, Heard
    <3>6. Lost => Lost' /\ (Clean(call.val) => Kept)
      BY <1>3, <3>3, LostStays
    <3>7. WordEffect
      BY <1>13, <3>5, <3>6, KeptEffect, LostEffect
    <3>8. (Quoted(WL, SubSeq(call.val, 1, n)) \/ Lost)'
      BY <1>4, <1>13, <3>5, <3>6 DEF Quoted
    <3>9. /\ call'.val[n + 1] \in {SOH, ESC}
          /\ todo' = Cons(call'.val[n + 1], Left(call'.val, n + 1)) /\ rcv' = << >>
      BY <1>4, <2>2, <3>2, <3>3
    <3> QED BY <1>8, <3>3, <3>4, <3>7, <3>8, <3>9 DEF InWrite
  <2>3. CASE b \notin {SOH, ESC}
    <3>1. Left(d, n) = Cons(b, t)
      BY <2>1, <2>3 DEF Coded
    <3>2. todo' = t /\ Sent(b)
      BY <1>13, <2>1, <3>1, XferIs
    <3>3. Byte(b) /\ rcv' = << >> /\ Same
      BY <1>13, <2>1, <3>2 DEF Sent
    <3>4. Slave' /\ Sane'
      BY <1>1, <2>1, <3>2, SentTyped
    <3>5. Given(WL, SubSeq(d, 1, n), b) \/ Lost
      BY <1>13, <2>3 DEF Given
    <3>6. Wording(n + 1)' /\ WordEffect
      BY <1>1, <1>2, <3>2, <3>3, <3>5, WordByte
    <3> QED BY <1>12, <3>3, <3>4, <3>6
  <2> QED BY <2>2, <2>3
<1>14. ASSUME NEW n \in 0 .. 3, d[n + 1] \in {SOH, ESC}, rcv = << >>,
              todo = Cons(d[n + 1], Left(d, n + 1)),
              Quoted(WL, SubSeq(d, 1, n)) \/ Lost
       PROVE  InWrite' /\ Slave' /\ Sane' /\ Same /\ WordEffect
  <2> DEFINE b == d[n + 1]
             t == Left(d, n + 1)
  <2>1. b \in Link /\ t \in Seq(Link) /\ b # READ
    <3>1. n + 1 \in 0 .. 4
      OBVIOUS
    <3>2. b \in Bytes /\ t \in Seq(Link)
      BY <1>5, <3>1
    <3> HIDE DEF b, t
    <3> QED BY <3>2, LinkBytes
  <2>2. todo' = t /\ Sent(b)
    BY <1>14, <2>1, XferIs
  <2>3. Byte(b) /\ rcv' = << >> /\ Same
    BY <1>14, <2>1, <2>2 DEF Sent
  <2>4. Slave' /\ Sane'
    BY <1>1, <2>1, <2>2, SentTyped
  <2>5. Given(WL, SubSeq(d, 1, n), b) \/ Lost
    BY <1>14 DEF Given
  <2>6. Wording(n + 1)' /\ WordEffect
    BY <1>1, <1>2, <2>2, <2>3, <2>5, WordByte
  <2> QED BY <1>12, <2>3, <2>4, <2>6
<1>15. CASE todo = <<READ>> /\ rcv = << >> /\ ((Out /\ Written) \/ Lost)
  <2>1. todo' = << >> /\ Sent(READ)
    BY <1>3, <1>6, <1>15, XferIs
  <2>2. Byte(DUMMY) /\ rcv' = Append(<< >>, Answer) /\ Same
    BY <1>15, <2>1 DEF Sent
  <2>3. Slave' /\ Sane'
    BY <1>1, <1>3, <2>1, SentTyped
  <2>4. Len(rcv') = 1
    BY <2>2
  <2>5. Out /\ Written => (Out /\ Written)' /\ Kept
    <3> HAVE Out /\ Written
    <3>1. Out' /\ v' = v /\ Kept
      BY <1>3, <2>2, OutStays
    <3> QED BY <1>4, <3>1 DEF Written, Kept
  <2>6. Lost => Lost' /\ (Clean(call.val) => Kept)
    BY <1>3, <2>2, LostStays
  <2>7. WordEffect
    BY <1>15, <2>5, <2>6, KeptEffect, LostEffect
  <2> QED BY <1>8, <1>15, <2>1, <2>2, <2>3, <2>4, <2>5, <2>6, <2>7 DEF InWrite
<1>16. CASE todo = << >>
  BY <1>16 DEF Xfer
<1> QED BY <1>9, <1>10, <1>11, <1>13, <1>14, <1>15, <1>16 DEF InWrite

(* A frame that reads the word. *)
LEMMA TellsShown ==
  ASSUME IInv, Addressed, call.op = "inl", NEW i \in 1 .. 4
  PROVE  Tells(i, Shown(v.ofs + (i - 1))) /\ Shown(v.ofs + (i - 1)) \in Bytes
<1>1. /\ ro \in Registers /\ v.ofs \in Nat /\ i - 1 \in 0 .. 3
  BY DEF IInv, Shape, Frames, Typed
<1>2. v.ofs + (i - 1) \in Nat
  BY <1>1
<1>3. Shown(v.ofs + (i - 1)) \in Bytes
  BY <1>1, <1>2, ShownIs
<1>4. ~hurt => v.ofs = call.adr
  BY DEF Addressed
<1>5. ASSUME p.name = "mode", i = 1, Shown(v.ofs + (i - 1)) = p.bank
      PROVE  ri[MODE] = p.bank /\ ro[MODE] = p.bank
  <2>1. v.ofs = MODE
    BY <1>4, <1>5 DEF IInv, InCall, Restarted
  <2>2. Shown(v.ofs + (i - 1)) = ro[MODE]
    <3>1. v.ofs + (i - 1) = 0
      BY <1>5, <2>1 DEF MODE
    <3> QED BY <1>1, <3>1, ShownIs DEF MODE
  <2> QED BY <1>5, <2>2 DEF IInv, Restarted, Settled
<1>6. ASSUME mode # 0, call.adr = MODE, i = 3, Shown(v.ofs + (i - 1)) = 1
      PROVE  ro[READY] = 1
  <2>1. v.ofs + (i - 1) = READY
    BY <1>4, <1>6 DEF IInv, Known, MODE, READY
  <2> QED BY <1>1, <1>2, <1>6, <2>1, ShownIs DEF READY
<1>7. ASSUME mode # 0, call.adr = DATA
      PROVE  Shown(v.ofs + (i - 1)) \in Measured(mode)
  <2>1. v.ofs + (i - 1) = DATA + (i - 1) /\ v.ofs + (i - 1) < 8
    BY <1>1, <1>4, <1>7 DEF IInv, Known, DATA
  <2>2. Shown(v.ofs + (i - 1)) = ro[DATA + (i - 1)]
    BY <1>1, <1>2, <2>1, ShownIs
  <2>3. p.name = "read"
    BY <1>7 DEF IInv, InCall, MODE, DATA
  <2> QED BY <1>1, <1>7, <2>2, <2>3 DEF IInv, Known, Ready
<1> QED BY <1>3, <1>5, <1>6, <1>7 DEF Tells

(* n bytes have come. *)
Reading(n) ==
  /\ todo = Reads(4 - n) /\ rcv \in Seq(Int) /\ Len(rcv) = n
  /\ \/ /\ \A j \in 1 .. n : Tells(j, rcv[j])
        /\ n < 4 => \E x \in Bytes : tx = <<x>> /\ Tells(n + 1, x)
        /\ IF n < 3 THEN v.soh /\ ~v.esc /\ v.cmd /\ v.typ = RL /\ Len(v.dat) = n
                    ELSE Out
     \/ hurt /\ Out

LEMMA ReadByte ==
  ASSUME IInv, NEW n \in 0 .. 3, Reading(n), Sent(READ), Addressed, call.op = "inl",
         todo' = Reads(4 - (n + 1))
  PROVE  Reading(n + 1)' /\ Kept
<1>1. /\ Slave /\ ro \in Registers /\ v \in Frames
      /\ Byte(DUMMY) /\ rcv' = Append(rcv, Answer) /\ Same
  BY DEF Sent, IInv, Slave, Shape, Typed
<1>2. /\ rcv \in Seq(Int) /\ Len(rcv) = n /\ Answer \in Int /\ n \in Nat /\ n + 1 \in 1 .. 4
      /\ DUMMY # SOH
  <2>1. Answer \in Int
    <3>1. CASE tx = << >>
      BY <3>1 DEF Answer
    <3>2. CASE tx # << >>
      <4>1. tx \in Seq(Bytes)
        BY <1>1 DEF Slave, Answers
      <4>2. tx[1] \in Bytes
        BY <3>2, <4>1
      <4>3. Bytes \subseteq Int
        BY DEF Bytes
      <4>4. Answer = tx[1]
        BY <3>2 DEF Answer
      <4> QED BY <4>2, <4>3, <4>4
    <3> QED BY <3>1, <3>2
  <2> QED BY <2>1 DEF Reading, DUMMY, SOH
<1>3. /\ rcv' \in Seq(Int) /\ Len(rcv') = n + 1 /\ rcv'[n + 1] = Answer
      /\ \A j \in 1 .. n : rcv'[j] = rcv[j]
  BY <1>1, <1>2
<1>4. CASE hurt /\ Out
  <2>1. Out' /\ Kept
    BY <1>1, <1>2, <1>4, OutStays
  <2>2. (hurt /\ Out)'
    BY <1>1, <1>4, <2>1 DEF Same
  <2> QED BY <1>3, <2>1, <2>2 DEF Reading
<1>5. CASE /\ \A j \in 1 .. n : Tells(j, rcv[j])
           /\ \E x \in Bytes : tx = <<x>> /\ Tells(n + 1, x)
           /\ IF n < 3 THEN v.soh /\ ~v.esc /\ v.cmd /\ v.typ = RL /\ Len(v.dat) = n ELSE Out
  <2>1. Answer \in Bytes /\ Tells(n + 1, Answer) /\ tx # << >>
    <3> PICK x \in Bytes : tx = <<x>> /\ Tells(n + 1, x)
      BY <1>5
    <3>1. <<x>> # << >> /\ <<x>>[1] = x
      OBVIOUS
    <3> QED BY <3>1 DEF Answer
  <2>2. on
    BY <2>1 DEF IInv, Sane
  <2>3. Kept => \A j \in 1 .. n + 1 : Tells(j, rcv[j])'
    <3> HAVE Kept
    <3>1. UNCHANGED <<p, mode, call, ro, ri>>
      BY <1>1 DEF Same, Kept
    <3>2. ASSUME NEW j \in 1 .. n + 1 PROVE Tells(j, rcv'[j])
      <4>1. CASE j = n + 1
        BY <1>3, <2>1, <4>1
      <4>2. CASE j # n + 1
        <5>1. j \in 1 .. n
          BY <1>2, <4>2
        <5> QED BY <1>3, <1>5, <5>1
      <4> QED BY <4>1, <4>2
    <3>3. ASSUME NEW j \in 1 .. n + 1 PROVE Tells(j, rcv[j])'
      <4> DEFINE y == rcv'[j]
      <4>1. Tells(j, y)
        BY <3>2
      <4> QED BY <3>1, <4>1 DEF Tells
    <3> QED BY <3>3
  <2>4. CASE n = 3
    <3>1. Out' /\ v' = v /\ Kept
      BY <1>1, <1>2, <1>5, <2>4, OutStays
    <3>2. n + 1 = 4 /\ ~ (n + 1 < 3) /\ ~ (n + 1 < 4)
      BY <2>4
    <3> QED BY <1>3, <2>3, <3>1, <3>2 DEF Reading
  <2>5. CASE n < 3
    <3> DEFINE d == v.dat
               s == Append(v.dat, DUMMY)
    <3>1. d \in Seq(Bytes) /\ Len(d) = n /\ Len(d) < 3 /\ Heard(RL, d) /\ Update(DUMMY) /\ on' = on
      BY <1>1, <1>5, <2>2, <2>5 DEF Heard, Frames, Byte, Same
    <3>2. ASSUME NEW c \in Seq(Bytes), c = d
          PROVE  /\ tx' = <<Shown(v.ofs + n + 1)>> /\ Kept
                 /\ IF n < 2 THEN v'.soh /\ ~v'.esc /\ v'.cmd /\ v'.typ = RL /\ Len(v'.dat) = n + 1
                             ELSE Out'
      <4> HIDE DEF d
      <4>1. Len(Append(c, DUMMY)) = n + 1
        BY <3>1, <3>2
      <4>2. /\ tx' = <<Shown(v.ofs + Len(c) + 1)>> /\ Kept
            /\ IF Len(c) < 2 THEN Heard(RL, Append(c, DUMMY))' ELSE on' /\ Out'
        BY <1>1, <3>1, <3>2, ReadGoesOn
      <4> QED BY <3>1, <3>2, <4>1, <4>2 DEF Heard
    <3>3. /\ tx' = <<Shown(v.ofs + n + 1)>> /\ Kept
          /\ IF n < 2 THEN v'.soh /\ ~v'.esc /\ v'.cmd /\ v'.typ = RL /\ Len(v'.dat) = n + 1
                      ELSE Out'
      BY <3>1, <3>2
    <3> DEFINE x == Shown(v.ofs + n + 1)
    <3>4. x \in Bytes /\ Tells(n + 2, x)
      <4>1. n + 2 \in 1 .. 4 /\ v.ofs + ((n + 2) - 1) = v.ofs + n + 1
        BY <1>1, <2>5 DEF Frames
      <4> QED BY <4>1, TellsShown
    <3> HIDE DEF x
    <3>5. \E y \in Bytes : tx' = <<y>> /\ Tells(n + 2, y)'
      <4>1. UNCHANGED <<p, mode, call, ro, ri>>
        BY <1>1, <3>3 DEF Same, Kept
      <4>2. ASSUME NEW y \in Bytes, y = x PROVE tx' = <<y>> /\ Tells(n + 2, y)'
        <5>1. Tells(n + 2, y)
          BY <3>4, <4>2
        <5> QED BY <3>3, <4>1, <4>2, <5>1 DEF Tells, x
      <4> QED BY <3>4, <4>2
    <3>6. (n + 1) + 1 = n + 2 /\ n + 1 < 4 /\ (n < 2 <=> n + 1 < 3)
      BY <2>5
    <3> QED BY <1>3, <2>3, <3>3, <3>5, <3>6 DEF Reading
  <2>6. n = 3 \/ n < 3
    BY <1>2
  <2> QED BY <2>4, <2>5, <2>6
<1> QED BY <1>2, <1>4, <1>5 DEF Reading

LEMMA ReadSent ==
  ASSUME IInv, Xfer, UNCHANGED <<pc, host, bound>>, InRead, call.op = "inl"
  PROVE  InRead' /\ Slave' /\ Sane' /\ Same /\ Kept
<1>1. Slave /\ Sane /\ ro \in Registers /\ v \in Frames
  BY DEF IInv, Slave, Shape, Typed
<1>2. /\ SOH \in Link /\ RL \in Link /\ READ \in Link
      /\ SOH # READ /\ RL # READ /\ RL # SOH
  BY LinkBytes DEF SOH, RL, READ
<1>3. call' = call /\ hurt' = hurt /\ on' = on /\ Addressed
  BY DEF Xfer, InRead
<1>4. /\ Reads(4) \in Seq(Link) /\ Cons(RL, Reads(4)) \in Seq(Link)
      /\ Cons(SOH, Cons(RL, Reads(4))) \in Seq(Link)
  <2>1. Reads(4) \in Seq(Link)
    <3>1. 4 \in 0 .. 4
      OBVIOUS
    <3> QED BY <3>1, ReadsAre
  <2>2. Cons(RL, Reads(4)) \in Seq(Link)
    BY <1>2, <2>1, ConsIs
  <2>3. Cons(SOH, Cons(RL, Reads(4))) \in Seq(Link)
    BY <1>2, <2>2, ConsIs
  <2> QED BY <2>1, <2>2, <2>3
<1>5. Kept => Addressed'
  BY <1>3 DEF Kept, Addressed
<1>6. ASSUME NEW n \in 0 .. 4, Reading(n)', Kept PROVE InRead'
  BY <1>5, <1>6 DEF Reading, InRead
<1>7. CASE todo = Cons(SOH, Cons(SOH, Cons(RL, Reads(4)))) /\ rcv = << >> /\ Out
  <2>1. todo' = Cons(SOH, Cons(RL, Reads(4))) /\ Sent(SOH)
    BY <1>2, <1>4, <1>7, XferIs
  <2>2. Byte(SOH) /\ rcv' = << >> /\ Same
    BY <1>2, <1>7, <2>1 DEF Sent
  <2>3. Slave' /\ Sane'
    BY <1>1, <1>2, <2>1, SentTyped
  <2>4. ~v'.esc /\ Kept
    BY <1>1, <1>3, <1>7, <2>2, BeginsAnew DEF Out
  <2> QED BY <1>5, <2>1, <2>2, <2>3, <2>4 DEF InRead
<1>8. CASE todo = Cons(SOH, Cons(RL, Reads(4))) /\ rcv = << >> /\ ~v.esc
  <2>1. todo' = Cons(RL, Reads(4)) /\ Sent(SOH)
    BY <1>2, <1>4, <1>8, XferIs
  <2>2. Byte(SOH) /\ rcv' = << >> /\ Same
    BY <1>2, <1>8, <2>1 DEF Sent
  <2>3. Slave' /\ Sane'
    BY <1>1, <1>2, <2>1, SentTyped
  <2>4. (Opened \/ Missed)' /\ (on => Opened') /\ Kept
    BY <1>1, <1>3, <1>8, <2>2, BeginsAnew
  <2>5. Opened' \/ (hurt /\ Missed)'
    BY <1>3, <2>4 DEF Addressed
  <2> QED BY <1>5, <2>1, <2>2, <2>3, <2>4, <2>5 DEF InRead
<1>9. CASE todo = Cons(RL, Reads(4)) /\ rcv = << >> /\ (Opened \/ (hurt /\ Missed))
  <2>1. todo' = Reads(4) /\ Sent(RL)
    BY <1>2, <1>4, <1>9, XferIs
  <2>2. Byte(RL) /\ rcv' = << >> /\ Same
    BY <1>2, <1>9, <2>1 DEF Sent
  <2>3. Slave' /\ Sane'
    BY <1>1, <1>2, <2>1, SentTyped
  <2>4. todo' = Reads(4 - 0) /\ rcv' \in Seq(Int) /\ Len(rcv') = 0 /\ 0 \in 0 .. 4
    BY <2>1, <2>2
  <2>5. CASE Opened
    <3>1. Heard(RL, << >>)' /\ tx' = <<Shown(v.ofs)>> /\ Kept
      BY <1>1, <1>3, <2>2, <2>5, ReadTaken DEF Byte, Opened
    <3> DEFINE x == Shown(v.ofs)
    <3>2. x \in Bytes /\ Tells(1, x)
      <4>1. v.ofs + (1 - 1) = v.ofs /\ 1 \in 1 .. 4
        BY <1>1 DEF Frames
      <4> QED BY <1>3, <4>1, TellsShown
    <3> HIDE DEF x
    <3>3. \E y \in Bytes : tx' = <<y>> /\ Tells(1, y)'
      <4>1. UNCHANGED <<p, mode, call, ro, ri>>
        BY <2>2, <3>1 DEF Same, Kept
      <4>2. ASSUME NEW y \in Bytes, y = x PROVE tx' = <<y>> /\ Tells(1, y)'
        <5>1. Tells(1, y)
          BY <3>2, <4>2
        <5> QED BY <3>1, <4>1, <4>2, <5>1 DEF Tells, x
      <4> QED BY <3>2, <4>2
    <3>4. v'.soh /\ ~v'.esc /\ v'.cmd /\ v'.typ = RL /\ Len(v'.dat) = 0
      BY <3>1 DEF Heard
    <3>5. Reading(0)'
      BY <2>4, <3>3, <3>4 DEF Reading
    <3> QED BY <1>6, <2>2, <2>3, <2>4, <3>1, <3>5
  <2>6. CASE hurt /\ Missed
    <3>1. Missed' /\ Kept
      BY <1>2, <2>2, <2>6, MissedStays
    <3>2. Reading(0)'
      BY <1>3, <2>4, <2>6, <3>1 DEF Reading, Missed
    <3> QED BY <1>6, <2>2, <2>3, <2>4, <3>1, <3>2
  <2> QED BY <1>9, <2>5, <2>6
<1>10. ASSUME NEW n \in 0 .. 3, Reading(n)
       PROVE  InRead' /\ Slave' /\ Sane' /\ Same /\ Kept
  <2>1. todo = Cons(READ, Reads(4 - (n + 1))) /\ Reads(4 - (n + 1)) \in Seq(Link)
    <3> DEFINE m == 4 - (n + 1)
    <3>1. m \in 0 .. 3 /\ m \in 0 .. 4 /\ 4 - n = m + 1
      OBVIOUS
    <3> HIDE DEF m
    <3>2. todo = Cons(READ, Reads(m)) /\ Reads(m) \in Seq(Link)
      BY <1>10, <3>1, ReadsAre DEF Reading
    <3> QED BY <3>2 DEF m
  <2>2. todo' = Reads(4 - (n + 1)) /\ Sent(READ)
    BY <1>2, <2>1, XferIs
  <2>3. Slave' /\ Sane' /\ Same
    BY <1>1, <1>2, <2>2, SentTyped DEF Sent
  <2>4. Reading(n + 1)' /\ Kept
    BY <1>3, <1>10, <2>2, ReadByte
  <2>5. n + 1 \in 0 .. 4
    OBVIOUS
  <2> QED BY <1>6, <2>3, <2>4, <2>5
<1>11. CASE Reading(4)
  <2>1. todo = << >>
    BY <1>11, ReadsAre DEF Reading
  <2> QED BY <2>1 DEF Xfer
<1>12. ASSUME NEW n \in 0 .. 4, Reading(n)
       PROVE  InRead' /\ Slave' /\ Sane' /\ Same /\ Kept
  <2>1. n = 4 \/ n \in 0 .. 3
    OBVIOUS
  <2> QED BY <1>10, <1>11, <1>12, <2>1
<1> QED BY <1>7, <1>8, <1>9, <1>12 DEF InRead, Reading

-----------------------------------------------------------------------------
(* One byte each way keeps the invariant. *)

LEMMA XferInv ==
  ASSUME McdAssumption, IInv, Xfer, UNCHANGED <<pc, host, bound>>
  PROVE  IInv'
<1>1. call.op # "none"
  <2>1. call.op = "none" => todo = << >>
    BY DEF IInv, InFrame
  <2> QED BY <2>1 DEF Xfer
<1>2. Same
  BY DEF Xfer, Same, host, bound
<1>3. /\ Slave' /\ Sane' => Typed' /\ Shape'
      /\ InCall' /\ Ready'
  <2>1. UNCHANGED <<on, ro, call, hurt, pc, p, mode, noff, nkill>>
    BY <1>2 DEF Same
  <2>2. Slave' /\ Sane' => Typed' /\ Shape'
    BY <2>1 DEF IInv, Typed, Shape, Slave
  <2>3. InCall'
    BY <2>1 DEF IInv, InCall, Word
  <2>4. Ready'
    BY <2>1 DEF IInv, Ready
  <2> QED BY <2>2, <2>3, <2>4
<1>4. call' = call /\ p' = p /\ mode' = mode /\ hurt' = hurt /\ on' = on /\ ro' = ro
  BY <1>2 DEF Same
<1>5. CASE call.frame = "AR"
  <2>1. InAddress
    BY <1>1, <1>5 DEF IInv, InFrame
  <2>2. /\ InAddress' /\ Slave' /\ Sane'
        /\ Calm => ri' = ri /\ (v'.ofs = v.ofs \/ v'.ofs = call.adr)
    BY <1>1, <2>1, AddressSent
  <2>3. InFrame'
    BY <1>1, <1>4, <1>5, <2>2 DEF InFrame
  <2>4. Restarted'
    <3> SUFFICES ASSUME p.name = "mode", hurt \/ call.op = "inl"
                 PROVE  (hurt => v'.ofs = MODE) /\ Settled(p.bank)'
      BY <1>4 DEF Restarted, Settled
    <3>1. Calm
      BY DEF Calm
    <3>2. call.adr = MODE
      BY <1>1 DEF IInv, InCall, Shape, Calls
    <3> QED BY <1>4, <2>2, <3>1, <3>2 DEF IInv, Restarted, Settled
  <2>5. Known'
    <3>1. mode # 0 => ri' = ri
      BY <2>2 DEF Calm
    <3> QED BY <1>4, <3>1 DEF IInv, Known
  <2> QED BY <1>3, <2>2, <2>3, <2>4, <2>5 DEF IInv
<1>6. CASE call.frame = "WL"
  <2>1. InWrite /\ call.op = "outl"
    BY <1>1, <1>6 DEF IInv, InFrame, InCall, Shape, Calls
  <2>2. InWrite' /\ Slave' /\ Sane' /\ WordEffect
    BY <2>1, WordSent
  <2>3. InFrame'
    BY <1>1, <1>4, <1>6, <2>2 DEF InFrame
  <2>4. Restarted'
    <3> SUFFICES ASSUME p.name = "mode"
                 PROVE  (hurt => v'.ofs = MODE) /\ (hurt => Settled(p.bank)')
      BY <1>4, <2>1 DEF Restarted, Settled
    <3>1. call.val[1] = p.bank /\ Clean(call.val)
      BY <2>1, WordTyped DEF IInv
    <3>2. v'.ofs = v.ofs /\ (ri'[MODE] = ri[MODE] \/ ri'[MODE] = p.bank)
      BY <2>2, <3>1 DEF WordEffect
    <3> QED BY <1>4, <3>2 DEF IInv, Restarted, Settled
  <2>5. Known'
    <3>1. mode # 0 => ri'[MODE] = ri[MODE]
      <4> HAVE mode # 0
      <4>1. ~hurt /\ p.name # "mode"
        BY DEF IInv, Known
      <4>2. call.adr # MODE
        BY <2>1, <4>1 DEF IInv, InCall, MODE, DATA
      <4>3. v.ofs = call.adr
        BY <2>1, <4>1 DEF InWrite, Addressed
      <4> QED BY <2>2, <4>1, <4>2, <4>3 DEF WordEffect
    <3> QED BY <1>4, <3>1 DEF IInv, Known
  <2> QED BY <1>3, <2>2, <2>3, <2>4, <2>5 DEF IInv
<1>7. CASE call.frame = "RL"
  <2>1. InRead /\ call.op = "inl"
    BY <1>1, <1>7 DEF IInv, InFrame, InCall, Shape, Calls
  <2>2. InRead' /\ Slave' /\ Sane' /\ ri' = ri /\ v'.ofs = v.ofs
    BY <2>1, ReadSent DEF Kept
  <2>3. InFrame'
    BY <1>1, <1>4, <1>7, <2>2 DEF InFrame
  <2>4. Restarted'
    BY <1>4, <2>2 DEF IInv, Restarted, Settled
  <2>5. Known'
    BY <1>4, <2>2 DEF IInv, Known
  <2> QED BY <1>3, <2>2, <2>3, <2>4, <2>5 DEF IInv
<1> QED BY <1>5, <1>6, <1>7 DEF IInv, Shape, Calls

-----------------------------------------------------------------------------
(* The end of a frame, and the beginning of a call. *)

LEMMA NotEmpty ==
  ASSUME NEW d \in [1 .. 4 -> Bytes]
  PROVE  /\ \A n \in 0 .. 3 : Left(d, n) # << >>
         /\ \A b \in Link, n \in 0 .. 4 : Cons(b, Left(d, n)) # << >>
         /\ \A b, c \in Link : Cons(b, Cons(c, Left(d, 0))) # << >>
<1>1. /\ \A n \in 0 .. 4 : Left(d, n) \in Seq(Link)
      /\ \A n \in 0 .. 3 : d[n + 1] \in Bytes /\ Left(d, n) = Coded(d[n + 1], Left(d, n + 1))
  BY LeftIs
<1>2. \A b \in Link, t \in Seq(Link) : Cons(b, t) # << >> /\ Cons(b, t) \in Seq(Link)
  BY ConsIs
<1>3. ASSUME NEW n \in 0 .. 3 PROVE Left(d, n) # << >>
  <2>1. n + 1 \in 0 .. 4
    OBVIOUS
  <2>2. d[n + 1] \in Link /\ ESC \in Link /\ Left(d, n + 1) \in Seq(Link)
    BY <1>1, <2>1, LinkBytes
  <2> QED BY <1>1, <1>2, <2>2 DEF Coded
<1>4. 0 \in 0 .. 4
  OBVIOUS
<1> QED BY <1>1, <1>2, <1>3, <1>4

LEMMA AtTheEnd ==
  ASSUME McdAssumption, IInv, todo = << >>, call.op # "none"
  PROVE  /\ call.frame = "AR" => Len(rcv) = 1 /\ Out /\ (rcv = <<OK>> => Addressed)
         /\ call.frame = "WL" => Addressed /\ ((Out /\ Written) \/ Lost)
         /\ call.frame = "RL" => Addressed /\ Reading(4)
<1>1. /\ SOH \in Link /\ ESC \in Link /\ WL \in Link /\ RL \in Link /\ READ \in Link
  BY LinkBytes
<1>2. CASE call.frame = "AR"
  <2>1. InAddress
    BY <1>2 DEF IInv, InFrame
  <2>2. /\ call.adr \in Link /\ 0 \in Link /\ AR \in Link
    <3>1. call.adr \in {0, 4}
      BY DEF IInv, Shape, Calls, MODE, DATA
    <3>2. 0 \in Bytes /\ 4 \in Bytes
      BY DEF Bytes
    <3> QED BY <3>1, <3>2, LinkBytes
  <2>3. <<SOH, AR, call.adr, 0, READ>> \in Seq(Link)
    BY <1>1, <2>2, Tuple5
  <2>4. Cons(SOH, <<SOH, AR, call.adr, 0, READ>>) # << >>
    BY <1>1, <2>3, ConsIs
  <2> QED BY <1>2, <2>1, <2>4 DEF InAddress, Addressed
<1>3. CASE call.frame = "WL"
  <2>1. InWrite /\ call.op = "outl"
    BY <1>3 DEF IInv, InFrame, InCall, Shape, Calls
  <2> DEFINE d == call.val
  <2>2. d \in [1 .. 4 -> Bytes]
    BY <2>1, WordTyped DEF IInv
  <2>3. /\ \A n \in 0 .. 3 : Left(d, n) # << >>
        /\ \A b \in Link, n \in 0 .. 4 : Cons(b, Left(d, n)) # << >>
        /\ \A b, c \in Link : Cons(b, Cons(c, Left(d, 0))) # << >>
        /\ Left0(d) = Left(d, 0)
    BY <2>2, NotEmpty, LeftIs
  <2>4. Cons(SOH, Cons(SOH, Cons(WL, Left0(d)))) # << >>
    <3>1. 0 \in 0 .. 4
      OBVIOUS
    <3>2. Left0(d) \in Seq(Link)
      BY <2>2, LeftSeq
    <3>3. Cons(WL, Left0(d)) \in Seq(Link)
      BY <1>1, <3>2, ConsIs
    <3>4. Cons(SOH, Cons(WL, Left0(d))) \in Seq(Link)
      BY <1>1, <3>3, ConsIs
    <3> QED BY <1>1, <3>4, ConsIs
  <2>5. Cons(SOH, Cons(WL, Left0(d))) # << >> /\ Cons(WL, Left0(d)) # << >>
    <3>1. 0 \in 0 .. 4
      OBVIOUS
    <3> QED BY <1>1, <2>3, <3>1
  <2>6. \A n \in 0 .. 3 : Cons(d[n + 1], Left(d, n + 1)) # << >>
    <3>1. \A n \in 0 .. 3 : n + 1 \in 0 .. 4 /\ d[n + 1] \in Link
      BY <2>2, LinkBytes
    <3> HIDE DEF d
    <3> QED BY <2>3, <3>1
  <2>7. <<READ>> # << >>
    OBVIOUS
  <2> QED BY <1>3, <2>1, <2>3, <2>4, <2>5, <2>6, <2>7 DEF InWrite
<1>4. CASE call.frame = "RL"
  <2>1. InRead
    BY <1>4 DEF IInv, InFrame
  <2>2. Reads(4) \in Seq(Link)
    <3>1. 4 \in 0 .. 4
      OBVIOUS
    <3> QED BY <3>1, ReadsAre
  <2>3. Cons(RL, Reads(4)) \in Seq(Link) /\ Cons(RL, Reads(4)) # << >>
    BY <1>1, <2>2, ConsIs
  <2>4. Cons(SOH, Cons(RL, Reads(4))) \in Seq(Link) /\ Cons(SOH, Cons(RL, Reads(4))) # << >>
    BY <1>1, <2>3, ConsIs
  <2>5. Cons(SOH, Cons(SOH, Cons(RL, Reads(4)))) # << >>
    BY <1>1, <2>4, ConsIs
  <2>6. ASSUME NEW n \in 0 .. 3 PROVE Reads(4 - n) # << >>
    <3> DEFINE m == 4 - (n + 1)
    <3>1. m \in 0 .. 3 /\ m \in 0 .. 4 /\ 4 - n = m + 1
      OBVIOUS
    <3> HIDE DEF m
    <3>2. Reads(m + 1) = Cons(READ, Reads(m)) /\ Reads(m) \in Seq(Link)
      BY <3>1, ReadsAre
    <3> QED BY <1>1, <3>1, <3>2, ConsIs
  <2>7. \A n \in 0 .. 4 : n \in 0 .. 3 \/ n = 4
    OBVIOUS
  <2> QED BY <1>4, <2>1, <2>3, <2>4, <2>5, <2>6, <2>7 DEF InRead, Reading
<1> QED BY <1>2, <1>3, <1>4

LEMMA Finished ==
  ASSUME McdAssumption, IInv, Over
  PROVE  /\ mode # 0 \/ p.name # "init" => ~v.esc
         /\ ~hurt => ~v.esc
<1>1. Out \/ Lost
  BY AtTheEnd DEF Over, IInv, Shape, Calls, Reading
<1>2. p.name = "mode" /\ call.frame = "WL" => Clean(call.val)
  BY WordTyped DEF Over, IInv, InCall, Shape, Calls
<1>3. p.name # "init" => Out
  BY <1>1, <1>2, AtTheEnd DEF Over, IInv, InCall, Shape, Calls, Reading, Lost, Missed
<1> QED BY <1>1, <1>3 DEF Out, Lost, IInv, Known

LEMMA Begun ==
  ASSUME NEW c, c \in Calls, c.frame = "AR", c.op # "none", Start(c)
  PROVE  /\ call' = c /\ rcv' = << >> /\ hurt' = FALSE
         /\ /\ v' = v
            /\ mode' # 0 \/ (p'.name = "mode" /\ c.op = "inl") => ~v.esc
            => InFrame'
<1>1. todo' = Cons(SOH, <<SOH, AR, c.adr, 0, READ>>)
  BY FrameAR DEF Start, Calls
<1>2. call' = c /\ rcv' = << >> /\ hurt' = FALSE
  BY DEF Start
<1> QED BY <1>1, <1>2 DEF InFrame, InAddress, Calm

(* The rest of a step that begins a call or ends the last one: the slave   *)
(* and what the master knows of it stay.                                   *)
Rest == UNCHANGED <<on, v, tx, ri, ro, pc, noff, nkill>>

LEMMA BegunInv ==
  ASSUME McdAssumption, IInv, NEW c, c \in Calls, c.frame = "AR", c.op # "none", Start(c), Rest,
         p' \in Progs, mode' = mode \/ mode' = 0, InCall',
         mode' # 0 \/ (p'.name = "mode" /\ c.op = "inl") => ~v.esc,
         p'.name = "mode" /\ c.op = "inl" => Settled(p'.bank),
         mode' # 0 => p'.name # "mode" /\ (p'.name = "read" /\ c.adr = DATA => ro[READY] = 1)
  PROVE  IInv'
<1>1. InFrame' /\ call' = c /\ hurt' = FALSE
  BY Begun DEF Rest
<1>2. Typed' /\ Shape' /\ Sane'
  BY <1>1 DEF IInv, Typed, Shape, Sane, Rest
<1>3. Ready'
  BY DEF IInv, Ready, Rest
<1>4. Known'
  BY <1>1 DEF IInv, Known, Rest
<1>5. Restarted'
  BY <1>1 DEF Restarted, Settled, Rest
<1> QED BY <1>1, <1>2, <1>3, <1>4, <1>5 DEF IInv

LEMMA ReturnInv ==
  ASSUME McdAssumption, IInv, Return, Rest, mode' # 0 => ~v.esc,
         mode' # 0 => on /\ mode' \in Banks /\ ri[MODE] = mode' /\ ro[MODE] = mode',
         mode' \in Banks \cup {0}
  PROVE  IInv'
<1>1. /\ call' = NoCall /\ todo' = << >> /\ rcv' = << >> /\ hurt' = FALSE /\ p' = NoProg
      /\ NoCall \in Calls /\ NoProg \in Progs
  <2>1. NoCall \in Calls
    BY DEF NoCall, Calls, MODE
  <2>2. NoProg \in Progs
    BY DEF NoProg, Progs, McdAssumption
  <2> QED BY <2>1, <2>2 DEF Return, Stop
<1>2. Typed' /\ Shape' /\ Sane'
  BY <1>1 DEF IInv, Typed, Shape, Sane, Rest
<1>3. InCall'
  BY <1>1 DEF InCall, NoCall, NoProg
<1>4. InFrame'
  BY <1>1 DEF InFrame, NoCall, Rest
<1>5. Ready'
  BY DEF IInv, Ready, Rest
<1>6. Known'
  BY <1>1 DEF Known, Rest, NoProg
<1>7. Restarted'
  BY <1>1 DEF Restarted, NoProg
<1> QED BY <1>2, <1>3, <1>4, <1>5, <1>6, <1>7 DEF IInv

(* A call of vchip_outl by mcd_init or mcd_mode. *)
LEMMA OutlInv ==
  ASSUME McdAssumption, IInv, Rest, p' \in Progs,
         NEW a, NEW d, Outl(a, d), p'.name \in {"init", "mode"}, p'.name = "mode" => p'.bank \in Banks,
         a = IF p'.name = "init" THEN DATA ELSE MODE, d = Word',
         mode' = mode \/ mode' = 0, mode' # 0 => ~v.esc /\ p'.name # "mode"
  PROVE  IInv'
<1> DEFINE c == [op |-> "outl", adr |-> a, val |-> d, frame |-> "AR"]
<1>1. d \in [1 .. 4 -> Bytes] /\ a \in {MODE, DATA}
  <2>1. CASE p'.name = "init"
    BY <2>1 DEF Word, McdAssumption
  <2>2. CASE p'.name = "mode"
    <3>1. d = <<p'.bank, 0, 0, 0>> /\ p'.bank \in 1 .. 60
      BY <2>2 DEF Word, McdAssumption
    <3>2. p'.bank \in Bytes /\ 0 \in Bytes
      BY <3>1 DEF Bytes
    <3> QED BY <2>2, <3>1, <3>2
  <2> QED BY <2>1, <2>2
<1>2. /\ c \in Calls /\ c.frame = "AR" /\ c.op = "outl" /\ c.adr = a /\ c.val = d /\ Start(c)
  BY <1>1 DEF Calls, Outl
<1> HIDE DEF c
<1>3. InCall'
  <2>1. call' = c
    BY <1>2 DEF Start
  <2> QED BY <1>2, <2>1 DEF InCall
<1> QED BY <1>2, <1>3, BegunInv

(* A call of vchip_inl by mcd_mode or mcd_read. *)
LEMMA InlInv ==
  ASSUME McdAssumption, IInv, Rest, p' \in Progs,
         NEW a, Inl(a), p'.name \in {"mode", "read"}, p'.name = "mode" => p'.bank \in Banks,
         a \in IF p'.name = "mode" THEN {MODE} ELSE {MODE, DATA},
         mode' = mode, mode' # 0 \/ p'.name = "mode" => ~v.esc,
         p'.name = "mode" => Settled(p'.bank),
         mode' # 0 => p'.name # "mode" /\ (p'.name = "read" /\ a = DATA => ro[READY] = 1)
  PROVE  IInv'
<1> DEFINE c == [op |-> "inl", adr |-> a, val |-> << >>, frame |-> "AR"]
<1>1. /\ c \in Calls /\ c.frame = "AR" /\ c.op = "inl" /\ c.adr = a /\ c.val = << >> /\ Start(c)
  BY DEF Calls, Inl
<1> HIDE DEF c
<1>2. InCall'
  <2>1. call' = c
    BY <1>1 DEF Start
  <2> QED BY <1>1, <2>1 DEF InCall
<1> QED BY <1>1, <1>2, BegunInv

-----------------------------------------------------------------------------
(* The master's functions. *)

LEMMA CommandInv == ASSUME McdAssumption, IInv, Command PROVE IInv'
<1>1. call.op = "none" /\ (mode # 0 => ~v.esc)
  BY DEF IInv, InCall, InFrame, Command
<1>2. 0 \in 0 .. RMN - 1 /\ 0 \in 0 .. 3
  BY DEF McdAssumption
<1>3. Rest
  BY DEF Command, Rest, slave, bound
<1>4. CASE McdInit
  <2>1. p' = [name |-> "init", bank |-> 0, j |-> 0, i |-> 0] /\ Outl(DATA, Magic) /\ mode' = mode
    BY <1>4 DEF McdInit, Begin
  <2>2. p' \in Progs /\ p'.name = "init"
    BY <1>2, <2>1 DEF Progs
  <2>3. Magic = Word'
    BY <2>2 DEF Word
  <2> QED BY <1>1, <1>3, <2>1, <2>2, <2>3, OutlInv
<1>5. CASE McdMode
  <2> PICK b \in Banks : Begin("mode", b) /\ Outl(MODE, <<b, 0, 0, 0>>) /\ mode' = 0
    BY <1>5 DEF McdMode
  <2>1. p' = [name |-> "mode", bank |-> b, j |-> 0, i |-> 0]
    BY DEF Begin
  <2>2. p' \in Progs /\ p'.name = "mode" /\ p'.bank = b
    BY <1>2, <2>1 DEF Progs
  <2>3. <<b, 0, 0, 0>> = Word'
    BY <2>2 DEF Word
  <2> QED BY <1>3, <2>2, <2>3, OutlInv
<1>6. CASE McdRead
  <2>1. p' = [name |-> "read", bank |-> 0, j |-> 0, i |-> 0] /\ Inl(MODE) /\ mode' = mode
    BY <1>6 DEF McdRead, Begin
  <2>2. p' \in Progs /\ p'.name = "read"
    BY <1>2, <2>1 DEF Progs
  <2>3. MODE # DATA
    BY DEF MODE, DATA
  <2> QED BY <1>1, <1>3, <2>1, <2>2, <2>3, InlInv
<1> QED BY <1>4, <1>5, <1>6 DEF Command

LEMMA KillInv == ASSUME McdAssumption, IInv, Kill PROVE IInv'
<1>1. Return /\ mode' = 0 /\ UNCHANGED <<on, v, tx, ri, ro, pc, noff>> /\ nkill' \in 0 .. MaxKill
  BY DEF Kill, slave, IInv, Typed, McdAssumption
<1>2. /\ call' = NoCall /\ todo' = << >> /\ rcv' = << >> /\ hurt' = FALSE /\ p' = NoProg
      /\ NoCall \in Calls /\ NoProg \in Progs
  <2>1. NoCall \in Calls
    BY DEF NoCall, Calls, MODE
  <2>2. NoProg \in Progs
    BY DEF NoProg, Progs, McdAssumption
  <2> QED BY <1>1, <2>1, <2>2 DEF Return, Stop
<1>3. Typed' /\ Shape' /\ Sane'
  BY <1>1, <1>2 DEF IInv, Typed, Shape, Sane
<1>4. InCall' /\ InFrame' /\ Restarted' /\ Known'
  BY <1>1, <1>2 DEF InCall, InFrame, Restarted, Known, NoCall, NoProg
<1>5. Ready'
  BY <1>1 DEF IInv, Ready
<1> QED BY <1>3, <1>4, <1>5 DEF IInv

LEMMA GoesBack ==
  ASSUME McdAssumption, IInv, Over, Return, mode' = mode, Rest PROVE IInv'
<1>1. mode # 0 => ~v.esc
  BY Finished
<1>2. mode # 0 => on /\ mode \in Banks /\ ri[MODE] = mode /\ ro[MODE] = mode
  BY DEF IInv, Known, Typed
<1>3. mode' \in Banks \cup {0}
  BY DEF IInv, Typed
<1> QED BY <1>1, <1>2, <1>3, ReturnInv

LEMMA Counted ==
  ASSUME IInv, p.j < 3, p' = [p EXCEPT !.j = @ + 1]
  PROVE  p' \in Progs /\ p'.name = p.name /\ p'.bank = p.bank
<1>1. p \in Progs /\ p.j + 1 \in 0 .. 3
  BY DEF IInv, Shape, Progs
<1> QED BY <1>1 DEF Progs

LEMMA InitEndInv ==
  ASSUME McdAssumption, IInv, Over, InitEnd, Rest PROVE IInv'
<1>1. CASE Return
  BY <1>1, GoesBack DEF InitEnd
<1>2. CASE p.j < 2 /\ p' = [p EXCEPT !.j = @ + 1] /\ Outl(DATA, Magic)
  <2>1. p' \in Progs /\ p'.name = "init"
    <3>1. p.j < 3
      BY <1>2 DEF IInv, Shape, Progs
    <3> QED BY <1>2, <3>1, Counted DEF InitEnd
  <2>2. Magic = Word'
    BY <2>1 DEF Word
  <2>3. mode' = mode /\ (mode' # 0 => ~v.esc)
    BY Finished DEF InitEnd
  <2> QED BY <1>2, <2>1, <2>2, <2>3, OutlInv
<1> QED BY <1>1, <1>2 DEF InitEnd, Retry

(* Another try of the write. *)
LEMMA ModeAgain ==
  ASSUME McdAssumption, IInv, Over, p.name = "mode", Rest,
         p.j < 2, p' = [p EXCEPT !.j = @ + 1], Outl(MODE, <<p.bank, 0, 0, 0>>), mode' = mode
  PROVE  IInv'
<1>1. p' \in Progs /\ p'.name = "mode" /\ p'.bank = p.bank /\ p.bank \in Banks
  <2>1. p.j < 3
    BY DEF IInv, Shape, Progs
  <2> QED BY <2>1, Counted DEF IInv, InCall
<1>2. <<p.bank, 0, 0, 0>> = Word'
  BY <1>1 DEF Word
<1>3. mode = 0
  BY DEF IInv, Known
<1> QED BY <1>1, <1>2, <1>3, OutlInv

LEMMA ModeOutInv ==
  ASSUME McdAssumption, IInv, Over, ModeOut, Rest PROVE IInv'
<1>1. p.name = "mode" /\ call.op = "outl" /\ mode' = mode /\ mode = 0
  BY DEF ModeOut, IInv, Known
<1>2. CASE Passed
  <2>1. Inl(MODE) /\ p' = p /\ p \in Progs /\ p.bank \in Banks
    BY <1>1, <1>2 DEF ModeOut, IInv, Shape, InCall
  <2>2. ~v.esc
    BY <1>1, Finished
  <2>3. Settled(p.bank)
    <3>1. CASE hurt
      BY <1>1, <3>1 DEF IInv, Restarted
    <3>2. CASE ~hurt
      <4>1. call.frame = "WL" /\ call.adr = MODE
        BY <1>1, <1>2 DEF Over, Passed, IInv, InCall
      <4>2. Addressed /\ Written
        BY <1>1, <3>2, <4>1, AtTheEnd DEF Over, Lost
      <4>3. call.val[1] = p.bank
        BY <1>1, WordTyped DEF IInv
      <4> QED BY <3>2, <4>1, <4>2, <4>3 DEF Addressed, Written, Settled
    <3> QED BY <3>1, <3>2
  <2>4. Settled(p'.bank)
    BY <2>1, <2>3 DEF Settled
  <2> QED BY <1>1, <2>1, <2>2, <2>4, InlInv
<1>3. CASE Return
  BY <1>1, <1>3, GoesBack
<1>4. CASE p.j < 2 /\ p' = [p EXCEPT !.j = @ + 1] /\ Outl(MODE, <<p.bank, 0, 0, 0>>)
  BY <1>1, <1>4, ModeAgain
<1> QED BY <1>2, <1>3, <1>4 DEF ModeOut, Retry

LEMMA ModeInInv ==
  ASSUME McdAssumption, IInv, Over, ModeIn, Rest PROVE IInv'
<1>1. p.name = "mode" /\ call.op = "inl" /\ p.bank \in Banks
  BY DEF ModeIn, IInv, InCall
<1>2. CASE Passed /\ rcv[1] = p.bank
  <2>1. Return /\ mode' = IF hurt THEN 0 ELSE p.bank
    BY <1>2 DEF ModeIn
  <2>2. ~v.esc
    BY <1>1, Finished
  <2>3. ~hurt => on /\ ri[MODE] = p.bank /\ ro[MODE] = p.bank
    <3> HAVE ~hurt
    <3>1. call.frame = "RL"
      BY <1>1, <1>2 DEF Over, Passed, IInv, InCall
    <3>2. Addressed /\ Reading(4)
      BY <3>1, AtTheEnd DEF Over
    <3>3. Tells(1, rcv[1])
      BY <3>2 DEF Reading
    <3> QED BY <1>1, <1>2, <3>2, <3>3 DEF Tells, Addressed
  <2>4. mode' # 0 => on /\ mode' \in Banks /\ ri[MODE] = mode' /\ ro[MODE] = mode'
    BY <1>1, <2>1, <2>3
  <2>5. mode' \in Banks \cup {0}
    BY <1>1, <2>1
  <2> QED BY <2>1, <2>2, <2>4, <2>5, ReturnInv
<1>3. CASE Return /\ mode' = mode
  BY <1>3, GoesBack
<1>4. CASE /\ p.j < 2 /\ p' = [p EXCEPT !.j = @ + 1]
           /\ Outl(MODE, <<p.bank, 0, 0, 0>>) /\ mode' = mode
  BY <1>1, <1>4, ModeAgain
<1> QED BY <1>2, <1>3, <1>4 DEF ModeIn, Retry

(* A reading goes on, or is tried again. *)
LEMMA ReadOn ==
  ASSUME McdAssumption, IInv, Over, p.name = "read", Rest, mode' = mode,
         p' \in Progs, p'.name = "read", NEW a \in {MODE, DATA}, Inl(a),
         mode # 0 /\ a = DATA => ro[READY] = 1
  PROVE  IInv'
<1>1. ~v.esc
  BY Finished
<1> QED BY <1>1, InlInv

LEMMA ReadFailInv ==
  ASSUME McdAssumption, IInv, Over, p.name = "read", Rest, mode' = mode, ReadFail
  PROVE  IInv'
<1>1. CASE Return
  BY <1>1, GoesBack
<1>2. CASE ~ (p.j + 1 > 3) /\ p' = [p EXCEPT !.j = @ + 1] /\ Inl(MODE)
  <2>1. p.j < 3
    BY <1>2 DEF IInv, Shape, Progs
  <2>2. p' \in Progs /\ p'.name = "read"
    BY <1>2, <2>1, Counted
  <2>3. MODE # DATA
    BY DEF MODE, DATA
  <2> QED BY <1>2, <2>2, <2>3, ReadOn
<1> QED BY <1>1, <1>2 DEF ReadFail

LEMMA ReadModeInv ==
  ASSUME McdAssumption, IInv, Over, ReadMode, Rest PROVE IInv'
<1>1. p.name = "read" /\ call.adr = MODE /\ mode' = mode /\ call.op = "inl"
  BY DEF ReadMode, IInv, InCall, Over, Shape, Calls
<1>2. CASE ~Passed
  BY <1>1, <1>2, ReadFailInv DEF ReadMode
<1>3. CASE Passed
  <2> DEFINE a == IF rcv[READY + 1] = 1 THEN DATA ELSE MODE
  <2>1. Inl(a) /\ p' = p /\ p' \in Progs
    BY <1>3 DEF ReadMode, IInv, Shape
  <2>2. mode # 0 /\ a = DATA => ro[READY] = 1
    <3> HAVE mode # 0 /\ a = DATA
    <3>1. rcv[3] = 1 /\ ~hurt
      BY DEF MODE, DATA, READY, IInv, Known
    <3>2. call.frame = "RL"
      BY <1>1, <1>3 DEF Over, Passed, IInv, InCall
    <3>3. Tells(3, rcv[3])
      BY <3>1, <3>2, AtTheEnd DEF Over, Reading
    <3> QED BY <1>1, <3>1, <3>3 DEF Tells
  <2> HIDE DEF a
  <2>3. a \in {MODE, DATA}
    BY DEF a
  <2> QED BY <1>1, <2>1, <2>2, <2>3, ReadOn
<1> QED BY <1>2, <1>3

LEMMA ReadDataInv ==
  ASSUME McdAssumption, IInv, Over, ReadData, Rest PROVE IInv'
<1>1. p.name = "read" /\ mode' = mode
  BY DEF ReadData
<1>2. CASE ~Passed
  BY <1>1, <1>2, ReadFailInv DEF ReadData
<1>3. CASE Return
  BY <1>1, <1>3, GoesBack
<1>4. CASE p.i + 1 # RMN /\ p' = [p EXCEPT !.i = @ + 1] /\ Inl(MODE)
  <2>1. p \in Progs /\ p.i + 1 \in 0 .. RMN - 1
    BY <1>4 DEF IInv, Shape, Progs, McdAssumption
  <2>2. p' \in Progs /\ p'.name = "read"
    BY <1>1, <1>4, <2>1 DEF Progs
  <2>3. MODE # DATA
    BY DEF MODE, DATA
  <2> QED BY <1>1, <1>4, <2>2, <2>3, ReadOn
<1> QED BY <1>2, <1>3, <1>4 DEF ReadData

LEMMA TurnInv == ASSUME McdAssumption, IInv, Turn PROVE IInv'
<1>1. Over /\ Rest
  BY DEF Turn, Rest, slave, bound
<1> QED BY <1>1, InitEndInv, ModeOutInv, ModeInInv, ReadModeInv, ReadDataInv DEF Turn

LEMMA SecondInv ==
  ASSUME McdAssumption, IInv, Second, UNCHANGED <<pc, host, bound>> PROVE IInv'
<1>1. /\ call.op # "none" /\ todo = << >> /\ call.frame = "AR" /\ rcv = <<OK>> /\ rcv' = << >>
      /\ UNCHANGED <<on, v, tx, ri, ro, took, hurt, pc, p, mode, noff, nkill>>
  BY DEF Second, slave, host, bound
<1> DEFINE c == [call EXCEPT !.frame = IF call.op = "outl" THEN "WL" ELSE "RL"]
<1>2. /\ call' = c /\ todo' = Frame(c) /\ c \in Calls
      /\ c.op = call.op /\ c.adr = call.adr /\ c.val = call.val
      /\ c.frame = IF call.op = "outl" THEN "WL" ELSE "RL"
  BY DEF Second, IInv, Shape, Calls
<1> HIDE DEF c
<1>3. Out /\ Addressed
  BY <1>1, AtTheEnd
<1>4. Typed' /\ Shape' /\ Sane' /\ Ready'
  BY <1>1, <1>2 DEF IInv, Typed, Shape, Sane, Ready
<1>5. InCall' /\ Restarted' /\ Known'
  <2>1. InCall'
    BY <1>1, <1>2 DEF IInv, InCall, Word, NoCall
  <2>2. Restarted'
    BY <1>1, <1>2 DEF IInv, Restarted, Settled
  <2>3. Known'
    BY <1>1, <1>2 DEF IInv, Known
  <2> QED BY <2>1, <2>2, <2>3
<1>6. CASE call.op = "outl"
  <2>1. c.val \in [1 .. 4 -> Bytes]
    BY <1>2, <1>6, WordTyped DEF IInv
  <2>2. todo' = Cons(SOH, Cons(SOH, Cons(WL, Left0(c.val))))
    BY <1>2, <1>6, <2>1, FrameWL
  <2>3. InWrite'
    BY <1>1, <1>2, <1>3, <2>2 DEF InWrite, Out, Addressed
  <2> QED BY <1>1, <1>2, <1>4, <1>5, <1>6, <2>3 DEF IInv, InFrame
<1>7. CASE call.op = "inl"
  <2>1. todo' = Cons(SOH, Cons(SOH, Cons(RL, Reads(4))))
    BY <1>2, <1>7, FrameRL
  <2>2. InRead'
    BY <1>1, <1>2, <1>3, <2>1 DEF InRead, Out, Addressed
  <2> QED BY <1>1, <1>2, <1>4, <1>5, <1>7, <2>2 DEF IInv, InFrame
<1> QED BY <1>1, <1>6, <1>7 DEF IInv, Shape, Calls

-----------------------------------------------------------------------------
(* The slave's main loop, and its power. *)

LEMMA FrameStays ==
  ASSUME call \in Calls, InFrame, UNCHANGED <<on, v, tx, ri, call, todo, rcv, took, hurt, p, mode>>,
         ASSUME NEW i, NEW x, Tells(i, x) PROVE Tells(i, x)'
  PROVE  InFrame'
<1>1. InAddress => InAddress'
  BY DEF InAddress, Calm, Out, Missed, Opened, Heard
<1>2. InWrite => InWrite'
  <2>1. Lost => Lost'
    BY DEF Lost, Missed, Out
  <2>2. Written => Written'
    BY DEF Written
  <2> QED BY <2>1, <2>2 DEF InWrite, Addressed, Out, Opened, Heard, Quoted
<1>3. ASSUME NEW n \in 0 .. 4, Reading(n) PROVE Reading(n)'
  <2>1. todo' = Reads(4 - n) /\ rcv' \in Seq(Int) /\ Len(rcv') = n
    BY <1>3 DEF Reading
  <2>2. CASE hurt /\ Out
    BY <2>1, <2>2 DEF Reading, Out
  <2>3. CASE /\ \A j \in 1 .. n : Tells(j, rcv[j])
             /\ n < 4 => \E x \in Bytes : tx = <<x>> /\ Tells(n + 1, x)
             /\ IF n < 3 THEN v.soh /\ ~v.esc /\ v.cmd /\ v.typ = RL /\ Len(v.dat) = n
                         ELSE Out
    <3>1. ASSUME NEW j \in 1 .. n PROVE Tells(j, rcv[j])'
      <4>1. ASSUME NEW x, x = rcv[j] PROVE Tells(j, rcv[j])'
        <5>1. Tells(j, x)'
          BY <2>3, <4>1
        <5> QED BY <4>1, <5>1 DEF Tells
      <4> QED BY <4>1
    <3>2. n < 4 => \E x \in Bytes : tx' = <<x>> /\ Tells(n + 1, x)'
      BY <2>3
    <3>3. (IF n < 3 THEN v.soh /\ ~v.esc /\ v.cmd /\ v.typ = RL /\ Len(v.dat) = n ELSE Out)'
      BY <2>3 DEF Out
    <3> QED BY <2>1, <3>1, <3>2, <3>3 DEF Reading
  <2> QED BY <1>3, <2>2, <2>3 DEF Reading
<1>4. InRead => InRead'
  <2>1. (\E n \in 0 .. 4 : Reading(n)) => \E n \in 0 .. 4 : Reading(n)'
    BY <1>3
  <2> QED BY <2>1 DEF InRead, Reading, Addressed, Out, Opened, Missed
<1>5. CASE call.op = "none"
  BY <1>5 DEF InFrame
<1>6. CASE call.op # "none" /\ call.frame = "AR"
  BY <1>1, <1>6 DEF InFrame
<1>7. CASE call.op # "none" /\ call.frame = "WL"
  BY <1>2, <1>7 DEF InFrame
<1>8. CASE call.op # "none" /\ call.frame = "RL"
  BY <1>4, <1>8 DEF InFrame
<1> QED BY <1>5, <1>6, <1>7, <1>8 DEF Calls

(* A step of the main loop leaves all but the registers that it shows.     *)
Loop == UNCHANGED <<on, v, tx, ri, call, todo, rcv, took, hurt, p, mode, noff, nkill>>

LEMMA LoopInv ==
  ASSUME McdAssumption, IInv, Loop, ro' \in Registers, pc' \in {"main", "adc", "store"}, Ready',
         ro'[MODE] = ro[MODE] \/ (ro'[MODE] = ri[MODE] /\ ri[MODE] # ro[MODE]),
         ro'[READY] = 1 \/ ro'[READY] = ro[READY] \/ ri[MODE] # ro[MODE]
  PROVE  IInv'
<1>1. Typed' /\ Shape' /\ Sane' /\ InCall'
  <2>1. Typed'
    BY DEF IInv, Typed, Loop
  <2>2. Shape' /\ Sane'
    BY DEF IInv, Shape, Sane, Loop
  <2>3. InCall'
    BY DEF IInv, InCall, Word, Loop
  <2> QED BY <2>1, <2>2, <2>3
<1>2. Restarted'
  BY DEF IInv, Restarted, Settled, Loop
<1>3. Known'
  BY DEF IInv, Known, Loop
<1>4. InFrame'
  <2>1. ASSUME NEW i, NEW x, Tells(i, x) PROVE Tells(i, x)'
    <3>1. mode # 0 => ri[MODE] = ro[MODE]
      BY DEF IInv, Known
    <3> QED BY <2>1, <3>1 DEF Tells, Loop
  <2> QED BY <2>1, FrameStays DEF IInv, Shape, Loop
<1> QED BY <1>1, <1>2, <1>3, <1>4 DEF IInv

LEMMA AdoptInv == ASSUME McdAssumption, IInv, Adopt PROVE IInv'
<1>1. Loop /\ pc' = IF ro'[MODE] \in Banks THEN "adc" ELSE "main"
  BY DEF Adopt, Loop, slave, master, host, bound
<1>2. ro \in Registers /\ ri \in Registers /\ Ready
  BY DEF IInv, Typed
<1>3. CASE Changed
  <2>1. ro' = [ro EXCEPT ![MODE] = ri[MODE], ![READY] = 0]
    BY <1>3 DEF Adopt
  <2>2. ro' \in Registers /\ ro'[MODE] = ri[MODE] /\ ro'[READY] = 0 /\ ri[MODE] # ro[MODE]
    <3>1. ri[MODE] \in Bytes /\ 0 \in Bytes /\ MODE \in 0 .. 7 /\ READY \in 0 .. 7 /\ MODE # READY
      BY <1>2 DEF Registers, MODE, READY, Bytes
    <3>2. ri[MODE] # ro[MODE]
      BY <1>3 DEF Changed
    <3> QED BY <1>2, <2>1, <3>1, <3>2 DEF Registers
  <2>3. Ready'
    BY <1>1, <2>2 DEF Ready
  <2> QED BY <1>1, <2>2, <2>3, LoopInv
<1>4. CASE ~Changed
  <2>1. ro' = ro
    BY <1>4 DEF Adopt
  <2>2. Ready'
    BY <1>1, <1>2, <2>1 DEF Ready
  <2> QED BY <1>1, <1>2, <2>1, <2>2, LoopInv
<1> QED BY <1>3, <1>4

LEMMA MeasureInv == ASSUME McdAssumption, IInv, Measure PROVE IInv'
<1>1. Loop /\ pc = "adc" /\ pc' = IF Changed THEN "main" ELSE "store"
  BY DEF Measure, Loop, slave, master, host, bound
<1>2. ro \in Registers /\ Ready
  BY DEF IInv, Typed
<1>3. CASE Changed
  <2>1. ro' = [ro EXCEPT ![READY] = 0]
    BY <1>3 DEF Measure
  <2>2. ro' \in Registers /\ ro'[MODE] = ro[MODE] /\ ro'[READY] = 0 /\ ri[MODE] # ro[MODE]
    BY <1>2, <1>3, <2>1 DEF Registers, MODE, READY, Changed, Bytes
  <2>3. Ready'
    BY <1>1, <1>3, <2>2 DEF Ready
  <2> QED BY <1>1, <2>2, <2>3, LoopInv
<1>4. CASE ~Changed
  <2>1. ro' = ro
    BY <1>4 DEF Measure
  <2>2. Ready'
    BY <1>1, <1>2, <2>1 DEF Ready
  <2> QED BY <1>1, <1>2, <2>1, <2>2, LoopInv
<1> QED BY <1>3, <1>4

LEMMA DepositInv == ASSUME McdAssumption, IInv, Deposit PROVE IInv'
<1>1. Loop /\ pc = "store" /\ pc' = "adc"
  BY DEF Deposit, Loop, slave, master, host, bound
<1>2. ro \in Registers /\ Ready /\ ro[MODE] \in Banks /\ ro[MODE] \in 1 .. 60
  BY <1>1 DEF IInv, Typed, Ready, McdAssumption
<1> PICK s \in Measured(ro[MODE]) :
      ro' = [ro EXCEPT ![READY] = 1, ![DATA] = s, ![DATA + 1] = s, ![DATA + 2] = s, ![DATA + 3] = s]
  BY DEF Deposit
<1>3. s \in Bytes
  BY <1>2 DEF Measured, Sample, Bytes
<1>4. /\ ro' \in Registers /\ ro'[MODE] = ro[MODE] /\ ro'[READY] = 1
      /\ ro'[4] = s /\ ro'[5] = s /\ ro'[6] = s /\ ro'[7] = s
  BY <1>2, <1>3 DEF Registers, MODE, READY, DATA, Bytes
<1>5. \A i \in 0 .. 3 : ro'[DATA + i] = s
  <2>1. \A i \in 0 .. 3 : 4 + i = 4 \/ 4 + i = 5 \/ 4 + i = 6 \/ 4 + i = 7
    OBVIOUS
  <2> QED BY <1>4, <2>1 DEF DATA
<1>6. Ready'
  BY <1>1, <1>2, <1>4, <1>5 DEF Ready, Measured
<1> QED BY <1>1, <1>4, <1>6, LoopInv

LEMMA ClearedIs ==
  ASSUME McdAssumption
  PROVE  /\ Cleared \in Registers /\ RiInit \in Registers
         /\ Cleared[MODE] = 0 /\ Cleared[READY] = 0 /\ RiInit[MODE] = 16
         /\ Idle \in Frames /\ Idle.dat = << >> /\ ~Idle.soh /\ ~Idle.esc /\ Idle.ofs = 0
         /\ << >> \in Answers /\ 0 \notin Banks
<1>1. Cleared \in Registers /\ Cleared[MODE] = 0 /\ Cleared[READY] = 0
  BY DEF Cleared, Registers, Bytes, MODE, READY
<1>2. RiInit \in Registers /\ RiInit[MODE] = 16
  BY DEF Cleared, RiInit, Registers, Bytes, MODE
<1>3. Idle \in Frames /\ Idle.dat = << >> /\ ~Idle.soh /\ ~Idle.esc /\ Idle.ofs = 0
  BY DEF Idle, Frames, Bytes
<1>4. 0 \notin Banks
  BY DEF McdAssumption
<1> QED BY <1>1, <1>2, <1>3, <1>4, AnswerIs

LEMMA OffInv == ASSUME McdAssumption, IInv, Off PROVE IInv'
<1>1. /\ on' = FALSE /\ v' = Idle /\ tx' = << >> /\ ri' = RiInit /\ ro' = Cleared
      /\ pc' = "main" /\ hurt' = TRUE /\ mode' = 0 /\ noff' \in 0 .. MaxOff
      /\ UNCHANGED <<call, todo, rcv, took, p, nkill>>
  BY DEF Off, IInv, Typed, McdAssumption
<1>2. Typed' /\ Shape'
  BY <1>1, ClearedIs DEF IInv, Typed, Shape
<1>3. Sane'
  <2>1. Len(<< >>) = 0
    OBVIOUS
  <2> QED BY <1>1, <2>1, ClearedIs DEF Sane
<1>4. InCall'
  BY <1>1 DEF IInv, InCall, Word
<1>5. Out' /\ Missed' /\ Lost' /\ Addressed' /\ ~v'.esc
  BY <1>1, ClearedIs DEF Out, Missed, Lost, Addressed
<1>6. InAddress => InAddress'
  BY <1>1, <1>5 DEF InAddress, OK
<1>7. InWrite => InWrite'
  BY <1>1, <1>5 DEF InWrite
<1>8. InRead => InRead'
  BY <1>1, <1>5 DEF InRead
<1>9. InFrame'
  <2>1. CASE call.op = "none"
    BY <1>1, <2>1 DEF IInv, InFrame
  <2>2. CASE call.op # "none" /\ call.frame = "AR"
    BY <1>1, <1>6, <2>2 DEF IInv, InFrame
  <2>3. CASE call.op # "none" /\ call.frame = "WL"
    BY <1>1, <1>7, <2>3 DEF IInv, InFrame
  <2>4. CASE call.op # "none" /\ call.frame = "RL"
    BY <1>1, <1>8, <2>4 DEF IInv, InFrame
  <2> QED BY <2>1, <2>2, <2>3, <2>4 DEF IInv, Shape, Calls
<1>10. Ready' /\ Known'
  BY <1>1, ClearedIs DEF Ready, Known
<1>11. Restarted'
  BY <1>1, <1>4, ClearedIs DEF InCall, Restarted, Settled, MODE
<1> QED BY <1>2, <1>3, <1>4, <1>9, <1>10, <1>11 DEF IInv

LEMMA OnInv == ASSUME IInv, On PROVE IInv'
<1>1. /\ ~on /\ on' = TRUE
      /\ UNCHANGED <<v, tx, ri, ro, call, todo, rcv, took, hurt, pc, p, mode, noff, nkill>>
  BY DEF On, master, host, bound
<1>2. Out /\ Missed /\ v' = Idle /\ mode = 0
  BY <1>1 DEF IInv, Sane, Idle, Out, Missed, Known
<1>3. Typed' /\ Shape' /\ Ready'
  BY <1>1 DEF IInv, Typed, Shape, Ready
<1>4. Sane' /\ InCall'
  BY <1>1 DEF IInv, Sane, InCall, Word
<1>5. Restarted' /\ Known'
  BY <1>1, <1>2 DEF IInv, Restarted, Settled, Known
<1>6. InAddress => InAddress'
  BY <1>1 DEF InAddress, Calm, Out, Missed, Opened, Heard
<1>7. InWrite => InWrite'
  BY <1>1 DEF InWrite, Addressed, Lost, Missed, Out, Written, Opened, Heard, Quoted
<1>8. InRead => InRead'
  BY <1>1 DEF InRead, Addressed, Missed, Out, Opened, Tells
<1>9. InFrame'
  <2>1. CASE call.op = "none"
    BY <1>1, <2>1 DEF IInv, InFrame
  <2>2. CASE call.op # "none" /\ call.frame = "AR"
    BY <1>1, <1>6, <2>2 DEF IInv, InFrame
  <2>3. CASE call.op # "none" /\ call.frame = "WL"
    BY <1>1, <1>7, <2>3 DEF IInv, InFrame
  <2>4. CASE call.op # "none" /\ call.frame = "RL"
    BY <1>1, <1>8, <2>4 DEF IInv, InFrame
  <2> QED BY <2>1, <2>2, <2>3, <2>4 DEF IInv, Shape, Calls
<1> QED BY <1>3, <1>4, <1>5, <1>9 DEF IInv

-----------------------------------------------------------------------------
LEMMA InitInv == ASSUME McdAssumption, Init PROVE IInv
<1>1. /\ on = TRUE /\ v = Idle /\ tx = << >> /\ ri = RiInit /\ ro = Cleared
      /\ call = NoCall /\ todo = << >> /\ rcv = << >> /\ hurt = FALSE
      /\ pc = "main" /\ p = NoProg /\ mode = 0 /\ noff = 0 /\ nkill = 0
  BY DEF Init
<1>2. Typed
  <2>1. on \in BOOLEAN /\ hurt \in BOOLEAN /\ pc \in {"main", "adc", "store"}
    BY <1>1
  <2>2. noff \in 0 .. MaxOff /\ nkill \in 0 .. MaxKill /\ mode \in Banks \cup {0}
    BY <1>1 DEF McdAssumption
  <2>3. tx \in Answers /\ ri \in Registers /\ ro \in Registers
    BY <1>1, ClearedIs
  <2> QED BY <2>1, <2>2, <2>3 DEF Typed
<1>3. Shape
  <2>1. NoCall \in Calls
    BY DEF NoCall, Calls, MODE
  <2>2. NoProg \in Progs
    BY DEF NoProg, Progs, McdAssumption
  <2> QED BY <1>1, <2>1, <2>2, ClearedIs DEF Shape
<1>4. Sane
  <2>1. Len(<< >>) = 0
    OBVIOUS
  <2> QED BY <1>1, <2>1, ClearedIs DEF Sane
<1>5. InCall /\ InFrame /\ Restarted /\ Known
  BY <1>1 DEF InCall, InFrame, Restarted, Known, NoCall, NoProg
<1>6. Ready
  BY <1>1, ClearedIs DEF Ready
<1> QED BY <1>2, <1>3, <1>4, <1>5, <1>6 DEF IInv

LEMMA StutterInv == ASSUME IInv, UNCHANGED vars PROVE IInv'
<1>1. UNCHANGED <<on, v, tx, ri, ro, call, todo, rcv, took, hurt, pc, p, mode, noff, nkill>>
  BY DEF vars
<1>2. Typed' /\ Shape' /\ Sane' /\ InCall'
  BY <1>1 DEF IInv, Typed, Shape, Sane, InCall, Word
<1>3. Restarted' /\ Ready' /\ Known'
  BY <1>1 DEF IInv, Restarted, Settled, Ready, Known
<1>4. InFrame'
  <2>1. ASSUME NEW i, NEW x, Tells(i, x) PROVE Tells(i, x)'
    BY <1>1, <2>1 DEF Tells
  <2> QED BY <1>1, <2>1, FrameStays DEF IInv, Shape
<1> QED BY <1>2, <1>3, <1>4 DEF IInv

LEMMA NextInv == ASSUME McdAssumption, IInv, [Next]_vars PROVE IInv'
<1>1. CASE Master
  BY <1>1, XferInv, SecondInv, TurnInv DEF Master
<1>2. CASE Main
  BY <1>2, AdoptInv, MeasureInv, DepositInv DEF Main
<1> QED BY <1>1, <1>2, CommandInv, KillInv, OffInv, OnInv, StutterInv DEF Next

(* IInv is an invariant: what the slave's parser has heard of the frame    *)
(* that the master is sending, and what that lets each of them know.       *)
THEOREM Inductive == Spec => []IInv
<1>1. Init => IInv
  BY InitInv, McdAssumption
<1>2. IInv /\ [Next]_vars => IInv'
  BY NextInv, McdAssumption
<1> QED BY <1>1, <1>2, PTL DEF Spec

LEMMA LeftTyped ==
  ASSUME McdAssumption, IInv PROVE todo \in Seq(Link) /\ Len(rcv) <= 4
<1>1. /\ SOH \in Link /\ ESC \in Link /\ WL \in Link /\ RL \in Link /\ READ \in Link
      /\ AR \in Link /\ 0 \in Link
  BY LinkBytes
<1>2. \A b \in Link, t \in Seq(Link) : Cons(b, t) \in Seq(Link)
  BY ConsIs
<1>3. << >> \in Seq(Link) /\ <<READ>> \in Seq(Link) /\ Len(<< >>) = 0
  BY <1>1
<1>4. CASE call.op = "none"
  BY <1>3, <1>4 DEF IInv, InFrame
<1>5. CASE call.op # "none" /\ call.frame = "AR"
  <2>1. InAddress
    BY <1>5 DEF IInv, InFrame
  <2>2. call.adr \in Link
    <3>1. call.adr \in {0, 4}
      BY DEF IInv, Shape, Calls, MODE, DATA
    <3>2. 0 \in Bytes /\ 4 \in Bytes
      BY DEF Bytes
    <3> QED BY <3>1, <3>2, LinkBytes
  <2>3. /\ <<SOH, AR, call.adr, 0, READ>> \in Seq(Link) /\ <<AR, call.adr, 0, READ>> \in Seq(Link)
        /\ <<call.adr, 0, READ>> \in Seq(Link) /\ <<0, READ>> \in Seq(Link)
    BY <1>1, <2>2, Tuple2, Tuple3, Tuple4, Tuple5
  <2>4. Len(rcv) = 0 \/ Len(rcv) = 1
    BY <1>3, <2>1 DEF InAddress
  <2>5. Cons(SOH, <<SOH, AR, call.adr, 0, READ>>) \in Seq(Link)
    BY <1>1, <1>2, <2>3
  <2>6. todo \in Seq(Link)
    BY <1>3, <2>1, <2>3, <2>5 DEF InAddress
  <2>7. Len(rcv) <= 4
    BY <2>4
  <2> QED BY <2>6, <2>7
<1>6. CASE call.op # "none" /\ call.frame = "WL"
  <2>1. InWrite /\ call.op = "outl"
    BY <1>6 DEF IInv, InFrame, InCall, Shape, Calls
  <2> DEFINE d == call.val
  <2>2. d \in [1 .. 4 -> Bytes]
    BY <2>1, WordTyped DEF IInv
  <2>3. Left0(d) \in Seq(Link)
    BY <2>2, LeftSeq
  <2>4. \A n \in 0 .. 4 : Left(d, n) \in Seq(Link)
    BY <2>2, LeftIs
  <2>5. \A n \in 0 .. 3 : n + 1 \in 0 .. 4 /\ n \in 0 .. 4 /\ d[n + 1] \in Link
    BY <2>2, LinkBytes
  <2> HIDE DEF d
  <2>6. \A n \in 0 .. 3 : Cons(d[n + 1], Left(d, n + 1)) \in Seq(Link) /\ Left(d, n) \in Seq(Link)
    BY <1>2, <2>4, <2>5
  <2>7. /\ Cons(WL, Left0(d)) \in Seq(Link) /\ Cons(SOH, Cons(WL, Left0(d))) \in Seq(Link)
        /\ Cons(SOH, Cons(SOH, Cons(WL, Left0(d)))) \in Seq(Link)
    BY <1>1, <1>2, <2>3
  <2>8. todo \in Seq(Link)
    BY <1>3, <2>1, <2>6, <2>7 DEF InWrite, d
  <2>9. Len(rcv) = 0 \/ Len(rcv) = 1
    BY <1>3, <2>1 DEF InWrite
  <2>10. Len(rcv) <= 4
    BY <2>9
  <2> QED BY <2>8, <2>10
<1>7. CASE call.op # "none" /\ call.frame = "RL"
  <2>1. InRead
    BY <1>7 DEF IInv, InFrame
  <2>2. \A n \in 0 .. 4 : Reads(n) \in Seq(Link)
    BY ReadsAre
  <2>3. \A n \in 0 .. 4 : 4 - n \in 0 .. 4 /\ 4 \in 0 .. 4
    OBVIOUS
  <2>4. \A n \in 0 .. 4 : Reads(4 - n) \in Seq(Link)
    BY <2>2, <2>3
  <2>5. Reads(4) \in Seq(Link)
    <3>1. 4 \in 0 .. 4
      OBVIOUS
    <3> QED BY <2>2, <3>1
  <2>6. /\ Cons(RL, Reads(4)) \in Seq(Link) /\ Cons(SOH, Cons(RL, Reads(4))) \in Seq(Link)
        /\ Cons(SOH, Cons(SOH, Cons(RL, Reads(4)))) \in Seq(Link)
    BY <1>1, <1>2, <2>5
  <2>7. todo \in Seq(Link)
    BY <2>1, <2>4, <2>6 DEF InRead
  <2>8. \E n \in 0 .. 4 : Len(rcv) = n
    BY <1>3, <2>1 DEF InRead
  <2>9. Len(rcv) <= 4
    BY <2>8
  <2> QED BY <2>7, <2>9
<1> QED BY <1>4, <1>5, <1>6, <1>7 DEF IInv, Shape, Calls

(* Everything has its type, on both sides of the link.                     *)
THEOREM TypeCorrect == Spec => []TypeOK
<1>1. IInv => TypeOK
  <2> SUFFICES ASSUME IInv PROVE TypeOK
    OBVIOUS
  <2>1. todo \in Seq(Bytes \cup {READ}) /\ Len(rcv) <= 4
    BY LeftTyped, McdAssumption DEF Link
  <2>2. DOMAIN ro = 0 .. 7
    BY DEF IInv, Typed, Registers
  <2>3. VchipTypeOK
    BY <2>1, <2>2 DEF IInv, Typed, Shape, Sane, Frames, Calls, Answers, Registers, VchipTypeOK
  <2> QED BY <2>3 DEF IInv, Typed, Shape, Progs, Registers, TypeOK
<1> QED BY <1>1, Inductive, PTL

(* What was written never reached the last register. *)
Short == took.ofs + 4 < 8

LEMMA ByteShort == ASSUME IInv, Short, NEW b, Update(b) PROVE Short'
<1>1. Size = 8
  BY SizeIs8 DEF IInv, Typed
<1>2. ASSUME NEW r, Quiet(r) PROVE Short'
  BY <1>2 DEF Quiet, Short
<1>3. ASSUME NEW r, Execute(r) PROVE Short'
  <2>1. CASE SetAddress(r) \/ Read(r)
    BY <2>1 DEF SetAddress, Read, Short
  <2>2. CASE Write(r)
    BY <1>1, <2>2 DEF Write, Short
  <2>3. CASE Quiet(r) \/ Quiet(Reset(r))
    BY <1>2, <2>3
  <2> QED BY <1>3, <2>1, <2>2, <2>3 DEF Execute
<1> QED BY <1>2, <1>3 DEF Update

LEMMA StepShort == IInv /\ Short /\ [Next]_vars => Short'
<1> SUFFICES ASSUME IInv, Short, [Next]_vars PROVE Short'
  OBVIOUS
<1>1. took' = took \/ took' = NoWrite => Short'
  BY DEF Short, NoWrite
<1>2. ASSUME NEW c, Start(c) PROVE Short'
  BY <1>1, <1>2 DEF Start
<1>3. ASSUME NEW a, NEW d, Outl(a, d) \/ Inl(a) PROVE Short'
  BY <1>2, <1>3 DEF Outl, Inl
<1>4. Return => Short'
  BY <1>1 DEF Return, Stop
<1>5. CASE Xfer
  BY <1>1, <1>5, ByteShort DEF Xfer
<1>6. CASE Second
  BY <1>1, <1>6 DEF Second
<1>7. CASE Turn
  <2>1. InitEnd => Short'
    BY <1>3, <1>4 DEF InitEnd, Retry
  <2>2. ModeOut => Short'
    BY <1>3, <1>4 DEF ModeOut, Retry
  <2>3. ModeIn => Short'
    BY <1>3, <1>4 DEF ModeIn, Retry
  <2>4. ReadMode \/ ReadData => Short'
    BY <1>3, <1>4 DEF ReadMode, ReadData, ReadFail
  <2> QED BY <1>7, <2>1, <2>2, <2>3, <2>4 DEF Turn
<1>8. CASE Command
  BY <1>3, <1>8 DEF Command, McdInit, McdMode, McdRead
<1>9. CASE Kill
  BY <1>4, <1>9 DEF Kill
<1>10. CASE Main \/ Off \/ On \/ UNCHANGED vars
  <2>1. took' = took
    BY <1>10 DEF Main, Adopt, Measure, Deposit, Off, On, master, vars
  <2> QED BY <1>1, <2>1
<1> QED BY <1>5, <1>6, <1>7, <1>8, <1>9, <1>10 DEF Next, Master

(* A call of vchip_outl that returns 0 has written its word at its address *)
(* unless the slave lost its power in between: no remains of an earlier    *)
(* frame are ever taken for a part of it.  A word that would reach the     *)
(* last register was not written (vchip.c:103).                            *)
THEOREM WritesExactly == Spec => []OutExact
<1>1. Init => Short
  BY DEF Init, Short, NoWrite
<1>2. Spec => []Short
  BY <1>1, StepShort, Inductive, PTL DEF Spec
<1>3. IInv /\ Short => OutExact
  <2> SUFFICES ASSUME IInv, Short, Over, call.op = "outl", Passed, ~hurt
               PROVE  took = [ofs |-> call.adr, dat |-> call.val] <=> call.adr + 4 < 8
    BY SizeIs8 DEF OutExact, IInv, Typed
  <2>1. call.frame = "WL"
    BY DEF Over, Passed, IInv, InCall
  <2>2. Addressed /\ Written
    BY <2>1, AtTheEnd, McdAssumption DEF Over, Lost
  <2>3. call.adr + 4 < 8 => took = [ofs |-> call.adr, dat |-> call.val]
    BY <2>2 DEF Addressed, Written
  <2>4. took = [ofs |-> call.adr, dat |-> call.val] => call.adr + 4 < 8
    BY DEF Short
  <2> QED BY <2>3, <2>4
<1> QED BY <1>2, <1>3, Inductive, PTL

(* A value that mcd_read takes was measured in the bank that the last      *)
(* mcd_mode has set.                                                       *)
THEOREM ReadsFresh == Spec => []ReadFresh
<1>1. IInv => ReadFresh
  <2> SUFFICES ASSUME IInv, Taken, mode # 0, NEW i \in 1 .. 4 PROVE rcv[i] \in Measured(mode)
    BY DEF ReadFresh
  <2>1. ~hurt
    BY DEF IInv, Known
  <2>2. call.frame = "RL"
    BY DEF Taken, Over, Passed, IInv, InCall, Shape, Calls
  <2>3. Reading(4)
    BY <2>2, AtTheEnd, McdAssumption DEF Taken, Over
  <2>4. Tells(i, rcv[i])
    BY <2>1, <2>3 DEF Reading
  <2> QED BY <2>4 DEF Taken, Tells
<1> QED BY <1>1, Inductive, PTL
=============================================================================
