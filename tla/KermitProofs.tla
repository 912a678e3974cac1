---------------------------- MODULE KermitProofs ----------------------------
(***************************************************************************)
(* Theorems about Kermit, for any files, pages, failures and packets on    *)
(* the line: type correctness, and that what has arrived is the beginning  *)
(* of the file.                                                            *)
(*                                                                         *)
(* Its parts in order: the cut of the file; what the parts of kermit_recv  *)
(* do to the buffers; the invariant; the receiver, action by action; the   *)
(* sender.                                                                 *)
(***************************************************************************)
EXTENDS Kermit, NaturalsInduction, WellFoundedInduction, TLAPS

-----------------------------------------------------------------------------
(* The cut of the file. *)

LEMMA LeastNumber ==
  ASSUME NEW T \in SUBSET Nat, T # {}
  PROVE  \E n \in T : \A m \in T : n <= m
<1> DEFINE R == OpToRel(<, Nat)
<1>1. IsWellFoundedOn(R, Nat)
  BY NatLessThanWellFounded
<1>2. \A x \in Nat, y \in Nat : y < x => <<y, x>> \in R
  BY DEF OpToRel
<1> HIDE DEF R
<1>3. PICK x \in T : \A y \in T : ~(<<y, x>> \in R)
  BY <1>1, WFMin
<1>4. ASSUME NEW m \in T
      PROVE  x <= m
  <2>1. ~(<<m, x>> \in R)
    BY <1>3
  <2>2. x \in Nat /\ m \in Nat
    OBVIOUS
  <2>3. ~(m < x)
    BY <1>2, <2>1, <2>2, Zenon
  <2> QED BY <2>2, <2>3
<1> QED BY <1>4

(* A function on 1 .. m is a sequence.                                     *)
LEMMA FunSeq ==
  ASSUME NEW S, NEW m, m \in Nat, NEW d, d \in [1 .. m -> S]
  PROVE  d \in Seq(S) /\ Len(d) = m
<1> DEFINE e == [i \in 1 .. m |-> d[i]]
<1>1. e \in Seq(S) /\ Len(e) = m
  OBVIOUS
<1>2. d = e
  OBVIOUS
<1> QED BY <1>1, <1>2, Zenon

LEMMA CutStep ==
  ASSUME NEW c \in Cuts
  PROVE  /\ c \in Seq(Nat) /\ Len(c) \in Nat /\ DOMAIN c = 1 .. Len(c)
         /\ \A i \in 1 .. Len(c) :
              c[i] \in Nat /\ c[i] - (IF i = 1 THEN 0 ELSE c[i - 1]) \in 1 .. PageSz - 1
<1>1. c \in Seq(Nat)
  BY PageAssumption
<1>2. \A i \in DOMAIN c : c[i] - (IF i = 1 THEN 0 ELSE c[i - 1]) \in 1 .. PageSz - 1
  BY PageAssumption
<1> QED BY <1>1, <1>2

(* Each packet ends later than the one before, so none after the last.     *)
LEMMA CutRise ==
  ASSUME NEW c \in Cuts, NEW i \in 1 .. Len(c)
  PROVE  c[i] <= c[Len(c)]
<1> DEFINE n == Len(c)
           T == {d \in Nat : d < n /\ ~(c[n - d] <= c[n])}
<1>1. n \in Nat /\ PageSz \in Nat
  BY CutStep, PageAssumption
<1>2. \A j \in 1 .. n : c[j] \in Nat /\ (j # 1 => c[j - 1] < c[j])
  <2> SUFFICES ASSUME NEW j \in 1 .. n PROVE c[j] \in Nat /\ (j # 1 => c[j - 1] < c[j])
    OBVIOUS
  <2>1. c[j] \in Nat /\ c[j] - (IF j = 1 THEN 0 ELSE c[j - 1]) \in 1 .. PageSz - 1
    BY CutStep
  <2>2. j # 1 => c[j - 1] \in Nat
    <3>1. j # 1 => j - 1 \in 1 .. Len(c)
      BY <1>1
    <3> QED BY <3>1, CutStep
  <2> QED BY <1>1, <2>1, <2>2
<1> HIDE DEF n
<1>3. CASE T # {}
  <2>1. PICK d \in T : \A m \in T : d <= m
    BY <1>3, LeastNumber
  <2>2. d \in Nat /\ d < n /\ ~(c[n - d] <= c[n])
    OBVIOUS
  <2>3. d # 0
    <3>1. n >= 1 => n \in 1 .. n /\ c[n] <= c[n]
      BY <1>1, <1>2
    <3> QED BY <1>1, <2>2, <3>1
  <2> DEFINE e == d - 1
  <2>4. e \in Nat /\ e < n /\ e < d
    BY <1>1, <2>2, <2>3
  <2>5. c[n - e] <= c[n]
    <3>1. e \notin T
      BY <2>1, <2>2, <2>4
    <3> QED BY <2>4, <3>1
  <2>6. c[n - d] < c[n - e] /\ c[n - d] \in Nat /\ c[n - e] \in Nat /\ c[n] \in Nat
    <3>1. n - e \in 1 .. n /\ n - e # 1 /\ (n - e) - 1 = n - d /\ n - d \in 1 .. n /\ n \in 1 .. n
      BY <1>1, <2>2, <2>3
    <3> HIDE DEF e
    <3> QED BY <1>2, <3>1
  <2> QED BY <2>2, <2>5, <2>6
<1>4. CASE T = {}
  <2>1. n - i \in Nat /\ n - i < n /\ n - (n - i) = i
    BY <1>1 DEF n
  <2>2. n - i \notin T
    BY <1>4
  <2>3. c[n - (n - i)] <= c[n]
    BY <2>1, <2>2
  <2> QED BY <2>1, <2>3 DEF n
<1> QED BY <1>3, <1>4


(* What the sender and the loader have chosen.                             *)
Chosen == target \in Targets /\ ends \in Cuts

LEMMA Sizes ==
  ASSUME Chosen
  PROVE  /\ ends \in Seq(Nat) /\ Len(ends) \in Nat /\ Break = Len(ends) + 3 /\ Break \in Nat
         /\ FileLen \in Nat /\ Cap \in Nat /\ Cap >= 1 /\ PageSz \in Nat /\ PageSz >= 1
         /\ target \in {"RAM", "ROM"}
         /\ target = "ROM" => Cap = PageSz
         /\ target = "RAM" => Cap = FileLen + 1
         /\ MaxFault \in Nat
<1>1. ends \in Seq(Nat) /\ Len(ends) \in Nat
  BY CutStep DEF Chosen
<1>2. FileLen \in Nat
  <2>1. CASE ends = << >>
    BY <2>1 DEF FileLen
  <2>2. CASE ends # << >>
    <3>1. Last(ends) = ends[Len(ends)] /\ Len(ends) \in 1 .. Len(ends)
      BY <1>1, <2>2 DEF Last
    <3> QED BY <1>1, <2>2, <3>1 DEF FileLen
  <2> QED BY <2>1, <2>2
<1>3. PageSz \in Nat /\ PageSz >= 1 /\ MaxFault \in Nat /\ target \in {"RAM", "ROM"}
  BY PageAssumption DEF Chosen
<1> QED BY <1>1, <1>2, <1>3 DEF Break, Cap

LEMMA OffsetStart ==
  ASSUME Chosen
  PROVE  Offset(-1) = 0 /\ Offset(0) = 0
<1>1. DOMAIN ends = 1 .. Len(ends) /\ Len(ends) \in Nat
  BY CutStep DEF Chosen
<1> QED BY <1>1 DEF Offset

LEMMA OffsetIs ==
  ASSUME Chosen, NEW n \in Int
  PROVE  /\ Offset(n) \in Nat /\ Offset(n + 1) \in Nat
         /\ Offset(n) <= Offset(n + 1) /\ Offset(n) <= FileLen /\ Offset(n + 1) <= FileLen
         /\ IsData(n) => Offset(n) < Offset(n + 1) /\ Offset(n + 1) - Offset(n) < PageSz
         /\ ~IsData(n) => Offset(n + 1) = Offset(n)
         /\ n >= Break => Offset(n) = FileLen
<1> DEFINE c == ends
           l == Len(ends)
<1>1. /\ c \in Cuts /\ c \in Seq(Nat) /\ l \in Nat /\ DOMAIN c = 1 .. l
      /\ PageSz \in Nat /\ FileLen \in Nat
  BY Sizes, CutStep DEF Chosen
<1>2. \A i \in 1 .. l : c[i] \in Nat /\ c[i] - (IF i = 1 THEN 0 ELSE c[i - 1]) \in 1 .. PageSz - 1
  BY <1>1, CutStep
<1>3. l = 0 => FileLen = 0
  BY <1>1 DEF FileLen
<1>4. l # 0 => FileLen = c[l]
  BY <1>1 DEF FileLen, Last
<1>5. \A i \in 1 .. l : c[i] <= FileLen
  BY <1>1, <1>4, CutRise
<1>6. \A m \in Int : Offset(m) = IF m <= 2 THEN 0 ELSE IF m - 2 <= l THEN c[m - 2] ELSE FileLen
  BY <1>1 DEF Offset
<1>7. \A m \in Int : Offset(m) \in Nat /\ Offset(m) <= FileLen
  <2> TAKE m \in Int
  <2>1. m > 2 /\ m - 2 <= l => m - 2 \in 1 .. l
    BY <1>1
  <2> QED BY <1>1, <1>2, <1>5, <1>6, <2>1
<1> DEFINE a == Offset(n)
           b == Offset(n + 1)
           Bounds == a \in Nat /\ b \in Nat /\ a <= FileLen /\ b <= FileLen
<1>8. Bounds
  <2>1. n + 1 \in Int
    OBVIOUS
  <2> QED BY <1>7, <2>1
<1>9. IsData(n) <=> 2 <= n /\ n <= l + 1
  BY <1>1 DEF IsData
<1>10. Break = l + 3
  BY DEF Break
<1> HIDE DEF c, l, a, b
<1>11. CASE IsData(n)
  <2> DEFINE i == n - 1
  <2>1. i \in 1 .. l /\ Offset(n + 1) = c[i] /\ Offset(n) = IF i = 1 THEN 0 ELSE c[i - 1]
    <3>1. n + 1 > 2 /\ (n + 1) - 2 <= l /\ (n + 1) - 2 = i /\ n + 1 \in Int
      BY <1>1, <1>9, <1>11
    <3>2. i # 1 => n > 2 /\ n - 2 <= l /\ n - 2 = i - 1
      BY <1>1, <1>9, <1>11
    <3>3. i = 1 => n <= 2
      BY <1>9, <1>11
    <3> HIDE DEF i
    <3>4. Offset(n + 1) = c[i]
      BY <1>6, <3>1
    <3>5. Offset(n) = IF i = 1 THEN 0 ELSE c[i - 1]
      BY <1>6, <3>2, <3>3
    <3>6. i \in 1 .. l
      BY <1>1, <1>9, <1>11 DEF i
    <3> QED BY <3>4, <3>5, <3>6
  <2> HIDE DEF i
  <2>2. c[i] - (IF i = 1 THEN 0 ELSE c[i - 1]) \in 1 .. PageSz - 1
    BY <1>2, <2>1
  <2>3. b - a \in 1 .. PageSz - 1
    BY <2>1, <2>2 DEF a, b
  <2>4. n < Break
    BY <1>1, <1>9, <1>10, <1>11
  <2>5. a <= b /\ a < b /\ b - a < PageSz
    BY <1>1, <1>8, <2>3
  <2>6. ~(n >= Break)
    BY <1>1, <1>10, <2>4
  <2> QED BY <1>11, <1>8, <2>5, <2>6, Zenon DEF a, b
<1>12. CASE ~IsData(n)
  <2>1. n < 2 \/ n > l + 1
    BY <1>1, <1>9, <1>12
  <2>2. CASE n < 2
    <3>1. n <= 2 /\ n + 1 <= 2 /\ n + 1 \in Int
      BY <2>2
    <3>2. Offset(n) = 0 /\ Offset(n + 1) = 0
      BY <1>6, <3>1
    <3>3. n < Break
      BY <1>1, <1>10, <2>2
    <3>4. a = 0 /\ b = 0 /\ ~(n >= Break)
      BY <1>1, <1>10, <3>2, <3>3 DEF a, b
    <3> QED BY <1>1, <1>12, <1>8, <3>4 DEF a, b
  <2>3. CASE n > l + 1
    <3>1. Offset(n + 1) = FileLen
      BY <1>1, <1>3, <1>6, <2>3
    <3>2. CASE n = l + 2
      <4>1. l # 0 => Offset(n) = c[l]
        BY <1>1, <1>6, <3>2
      <4>2. l = 0 => Offset(n) = 0
        BY <1>6, <3>2
      <4>3. a = FileLen /\ b = FileLen
        BY <1>3, <1>4, <3>1, <4>1, <4>2 DEF a, b
      <4> QED BY <1>1, <1>12, <1>8, <4>3 DEF a, b
    <3>3. CASE n > l + 2
      <4>1. Offset(n) = FileLen
        BY <1>1, <1>3, <1>6, <3>3
      <4>2. a = FileLen /\ b = FileLen
        BY <3>1, <4>1 DEF a, b
      <4> QED BY <1>1, <1>12, <1>8, <4>2 DEF a, b
    <3> QED BY <1>1, <2>3, <3>2, <3>3
  <2> QED BY <2>1, <2>2, <2>3
<1> QED BY <1>11, <1>12

LEMMA DataIs ==
  ASSUME Chosen, NEW n \in Int
  PROVE  /\ Data(n) \in Seq(0 .. FileLen) /\ Len(Data(n)) = Offset(n + 1) - Offset(n)
         /\ Len(Data(n)) \in Nat /\ Len(Data(n)) < PageSz
         /\ \A i \in 1 .. Len(Data(n)) : Data(n)[i] = Offset(n) + i
<1> DEFINE a == Offset(n)
           b == Offset(n + 1)
<1>1. /\ a \in Nat /\ b \in Nat /\ a <= b /\ b <= FileLen /\ FileLen \in Nat
      /\ IsData(n) => b - a < PageSz
      /\ ~IsData(n) => b = a
      /\ PageSz >= 1 /\ PageSz \in Nat
  BY OffsetIs, Sizes
<1>2. CASE IsData(n)
  <2>1. Data(n) = SubSeq(File, a + 1, b)
    BY <1>2 DEF Data
  <2>2. File \in Seq(0 .. FileLen) /\ Len(File) = FileLen /\ \A i \in 1 .. FileLen : File[i] = i
    BY <1>1 DEF File
  <2> HIDE DEF a, b
  <2> DEFINE d == SubSeq(File, a + 1, b)
             m == b - a
  <2>3. d \in Seq(0 .. FileLen) /\ Len(d) = b - a /\ \A i \in 1 .. b - a : d[i] = File[a + i]
    <3>1. m \in Nat /\ b - (a + 1) + 1 = m /\ \A i \in 1 .. m : a + i \in 1 .. FileLen /\ (a + 1) + i - 1 = a + i
      BY <1>1
    <3>2. d = [i \in 1 .. m |-> File[(a + 1) + i - 1]]
      BY <1>1, <3>1
    <3> HIDE DEF d, m
    <3>3. \A i \in 1 .. m : d[i] = File[a + i] /\ d[i] \in 0 .. FileLen
      BY <2>2, <3>1, <3>2
    <3>4. DOMAIN d = 1 .. m /\ d = [i \in 1 .. m |-> d[i]]
      BY <3>2
    <3>5. d \in Seq(0 .. FileLen) /\ Len(d) = m
      <4> DEFINE S == 0 .. FileLen
      <4>1. d \in [1 .. m -> S]
        BY <3>3, <3>4
      <4>2. m \in Nat
        BY <3>1
      <4> HIDE DEF S
      <4>3. d \in Seq(S) /\ Len(d) = m
        BY <4>1, <4>2, FunSeq, Zenon
      <4> QED BY <4>3 DEF S
    <3> QED BY <3>3, <3>5 DEF m
  <2> HIDE DEF d, m
  <2>4. \A i \in 1 .. b - a : d[i] = a + i
    <3>1. \A i \in 1 .. b - a : a + i \in 1 .. FileLen
      BY <1>1
    <3> QED BY <2>2, <2>3, <3>1
  <2>5. Data(n) = d
    BY <2>1 DEF d
  <2> QED BY <1>1, <1>2, <2>3, <2>4, <2>5 DEF a, b
<1>3. CASE ~IsData(n)
  <2>1. Data(n) = << >>
    BY <1>3 DEF Data
  <2> QED BY <1>1, <1>3, <2>1
<1> QED BY <1>2, <1>3

(* A page is full when the packet that FillsPage has come, not before.     *)
LEMMA PageEnd ==
  ASSUME NEW P \in Nat, P >= 1, NEW o \in Nat, o % P = 0, NEW s \in Nat, s < P,
         NEW d \in Nat, d < P
  PROVE  (o + s) \div P < (o + s + d) \div P <=> s + d >= P
<1> DEFINE q == o \div P
<1>1. q \in Int /\ o = q * P
  BY Z3
<1> HIDE DEF q
<1>2. \A x \in Int, e \in Int, r \in Int : x = e * P + r /\ 0 <= r /\ r < P => x \div P = e
  BY Z3
<1>3. o + s = q * P + s
  BY <1>1
<1>4. (o + s) \div P = q
  BY <1>1, <1>2, <1>3
<1>5. CASE s + d < P
  <2>1. o + s + d = q * P + (s + d)
    BY <1>1
  <2>2. (o + s + d) \div P = q
    BY <1>1, <1>2, <1>5, <2>1
  <2> QED BY <1>1, <1>4, <1>5, <2>2
<1>6. CASE s + d >= P
  <2>1. o + s + d = (q + 1) * P + (s + d - P)
    BY <1>1, Z3
  <2> DEFINE r == s + d - P
             e == q + 1
  <2>2. r \in Int /\ 0 <= r /\ r < P /\ e \in Int /\ e > q
    BY <1>1, <1>6
  <2> HIDE DEF r, e
  <2>3. o + s + d \in Int /\ o + s + d = e * P + r
    BY <2>1 DEF r, e
  <2>4. (o + s + d) \div P = e
    BY <1>2, <2>2, <2>3
  <2> QED BY <1>1, <1>4, <1>6, <2>2, <2>4
<1> QED BY <1>5, <1>6

-----------------------------------------------------------------------------
(* What the parts of kermit_recv do to the buffers. *)

Buffers == [mem : [0 .. Cap - 1 -> 0 .. FileLen], size : 0 .. Cap, saved : 0 .. Cap,
            tbuf : Seq(0 .. FileLen), n : 0 .. Break, last : -1 .. Break,
            stm : {"INIT", "DATA"}, cut : BOOLEAN]

(* What no move of characters changes. *)
SameHeader(r, s) ==
  r.saved = s.saved /\ r.n = s.n /\ r.last = s.last /\ r.stm = s.stm /\ r.cut = s.cut

(* The first m characters of r are those of s. *)
SameStart(r, s, m) == \A i \in 0 .. m - 1 : r.mem[i] = s.mem[i]

(* The buffers of r and the pages o hold the first m bytes of the file. *)
Holds(r, o, m) ==
  /\ Len(o) + r.size + Len(r.tbuf) = m
  /\ \A i \in 1 .. Len(o) : o[i] = i
  /\ \A i \in 0 .. r.size - 1 : r.mem[i] = Len(o) + i + 1
  /\ \A i \in 1 .. Len(r.tbuf) : r.tbuf[i] = Len(o) + r.size + i

(* A slice of a sequence, by its length and its elements. *)
LEMMA SliceIs ==
  ASSUME NEW S, NEW d \in Seq(S), NEW m \in Nat, m <= Len(d)
  PROVE  /\ SubSeq(d, m + 1, Len(d)) \in Seq(S)
         /\ Len(SubSeq(d, m + 1, Len(d))) = Len(d) - m
         /\ \A i \in 1 .. Len(d) - m : SubSeq(d, m + 1, Len(d))[i] = d[m + i]
<1> DEFINE l == Len(d) - m
           e == SubSeq(d, m + 1, Len(d))
<1>1. /\ l \in Nat /\ Len(d) \in Nat /\ Len(d) - (m + 1) + 1 = l
      /\ \A i \in 1 .. l : m + i \in 1 .. Len(d) /\ (m + 1) + i - 1 = m + i
  OBVIOUS
<1>2. e = [i \in 1 .. l |-> d[(m + 1) + i - 1]]
  BY <1>1
<1>3. \A i \in 1 .. Len(d) : d[i] \in S
  OBVIOUS
<1> HIDE DEF e, l
<1>4. \A i \in 1 .. l : e[i] = d[m + i] /\ e[i] \in S
  BY <1>1, <1>2, <1>3
<1>5. e \in [1 .. l -> S]
  BY <1>2, <1>4
<1>6. l \in Nat
  BY <1>1
<1>7. e \in Seq(S) /\ Len(e) = l
  BY <1>5, <1>6, FunSeq, Zenon
<1> QED BY <1>4, <1>7 DEF e, l

LEMMA LengthIs ==
  ASSUME NEW S, NEW d \in Seq(S)
  PROVE  Len(d) \in Nat
  OBVIOUS

LEMMA ElementIs ==
  ASSUME NEW S, NEW d \in Seq(S)
  PROVE  \A i \in 1 .. Len(d) : d[i] \in S
  OBVIOUS

LEMMA PutIs ==
  ASSUME Chosen, NEW r \in Buffers, NEW d \in Seq(0 .. FileLen)
  PROVE  /\ Put(r, d) \in Buffers /\ SameHeader(Put(r, d), r)
         /\ r.size <= Put(r, d).size
         /\ Put(r, d).size + Len(Put(r, d).tbuf) = r.size + Len(d)
         /\ r.size + Len(d) <= Cap => Put(r, d).tbuf = << >> /\ Put(r, d).size = r.size + Len(d)
         /\ r.size + Len(d) > Cap => Put(r, d).size = Cap
         /\ SameStart(Put(r, d), r, r.size)
         /\ \A i \in r.size .. Put(r, d).size - 1 : Put(r, d).mem[i] = d[i - r.size + 1]
         /\ \A i \in 1 .. Len(Put(r, d).tbuf) : Put(r, d).tbuf[i] = d[(Put(r, d).size - r.size) + i]
<1> DEFINE S == 0 .. FileLen
           m == IF Len(d) < Cap - r.size THEN Len(d) ELSE Cap - r.size
           w == [i \in 0 .. Cap - 1 |->
                   IF i \in r.size .. r.size + m - 1 THEN d[i - r.size + 1] ELSE r.mem[i]]
           t == SubSeq(d, m + 1, Len(d))
           u == [r EXCEPT !.mem = w, !.size = r.size + m, !.tbuf = t]
<1>1. Put(r, d) = u
  BY DEF Put, Buffers
<1>2. /\ Cap \in Nat /\ r.size \in Nat /\ r.size <= Cap /\ Len(d) \in Nat
      /\ r.mem \in [0 .. Cap - 1 -> S]
  BY Sizes DEF Buffers
<1>3. /\ m \in Nat /\ m <= Len(d) /\ r.size + m <= Cap /\ r.size + m \in 0 .. Cap
      /\ r.size + Len(d) <= Cap => m = Len(d)
      /\ r.size + Len(d) > Cap => r.size + m = Cap
  BY <1>2
<1>4. \A i \in 1 .. Len(d) : d[i] \in S
  BY ElementIs, Zenon
<1> HIDE DEF S, m
<1>5. w \in [0 .. Cap - 1 -> S]
  <2>1. ASSUME NEW i \in 0 .. Cap - 1
        PROVE  (IF i \in r.size .. r.size + m - 1 THEN d[i - r.size + 1] ELSE r.mem[i]) \in S
    <3>1. i \in r.size .. r.size + m - 1 => i - r.size + 1 \in 1 .. Len(d)
      BY <1>2, <1>3
    <3>2. r.mem[i] \in S
      BY <1>2
    <3> QED BY <1>4, <3>1, <3>2
  <2> QED BY <2>1
<1>6. /\ \A i \in 0 .. r.size - 1 : w[i] = r.mem[i]
      /\ \A i \in r.size .. r.size + m - 1 : w[i] = d[i - r.size + 1]
  <2> DEFINE x == r.size
  <2>1. /\ \A i \in 0 .. Cap - 1 : i \in x .. x + m - 1 => w[i] = d[i - x + 1]
        /\ \A i \in 0 .. Cap - 1 : i \notin x .. x + m - 1 => w[i] = r.mem[i]
    OBVIOUS
  <2>2. x \in Nat /\ x + m <= Cap /\ x <= Cap /\ Cap \in Nat /\ m \in Nat
    BY <1>2, <1>3
  <2> HIDE DEF w, x
  <2>3. \A i \in 0 .. x - 1 : i \in 0 .. Cap - 1 /\ i \notin x .. x + m - 1
    BY <2>2
  <2>4. \A i \in x .. x + m - 1 : i \in 0 .. Cap - 1
    BY <2>2
  <2>5. /\ \A i \in 0 .. x - 1 : w[i] = r.mem[i]
        /\ \A i \in x .. x + m - 1 : w[i] = d[i - x + 1]
    BY <2>1, <2>3, <2>4, Zenon
  <2> QED BY <2>5 DEF x
<1>7. t \in Seq(S) /\ Len(t) = Len(d) - m /\ \A i \in 1 .. Len(t) : t[i] = d[m + i]
  <2>1. d \in Seq(S)
    BY DEF S
  <2> HIDE DEF t
  <2> QED BY <1>3, <2>1, SliceIs DEF t
<1> HIDE DEF w, t
<1>8. /\ u.mem = w /\ u.size = r.size + m /\ u.tbuf = t
      /\ u.saved = r.saved /\ u.n = r.n /\ u.last = r.last /\ u.stm = r.stm /\ u.cut = r.cut
  BY DEF Buffers
<1>9. u \in Buffers
  BY <1>3, <1>5, <1>7 DEF Buffers, S
<1> HIDE DEF u
<1>10. m = Len(d) => t = << >>
  BY <1>2, <1>7
<1>11. (r.size + m) - r.size = m
  BY <1>2, <1>3
<1>12. u.size - r.size = m /\ r.size <= u.size /\ u.size + Len(u.tbuf) = r.size + Len(d)
  <2> DEFINE x == r.size
             y == Len(d)
             z == Len(t)
  <2>1. x \in Nat /\ y \in Nat /\ m \in Nat /\ z = y - m
    BY <1>2, <1>3, <1>7
  <2>2. u.size = x + m /\ Len(u.tbuf) = z
    BY <1>8
  <2> HIDE DEF x, y, z
  <2>3. u.size - x = m /\ x <= u.size /\ u.size + Len(u.tbuf) = x + y
    BY <2>1, <2>2
  <2> QED BY <2>3 DEF x, y
<1>13. \A i \in r.size .. u.size - 1 : u.mem[i] = d[i - r.size + 1]
  <2> TAKE i \in r.size .. u.size - 1
  <2>1. u.size = r.size + m /\ u.mem = w
    BY <1>8
  <2>2. i \in r.size .. r.size + m - 1
    BY <1>2, <1>3, <2>1
  <2>3. w[i] = d[i - r.size + 1]
    BY <1>6, <2>2
  <2> QED BY <2>1, <2>3, Zenon
<1>14. \A i \in 1 .. Len(u.tbuf) : u.tbuf[i] = d[(u.size - r.size) + i]
  BY <1>7, <1>8, <1>12
<1>15. SameHeader(u, r) /\ SameStart(u, r, r.size)
  BY <1>6, <1>8 DEF SameHeader, SameStart
<1> QED BY <1>1, <1>3, <1>8, <1>9, <1>10, <1>12, <1>13, <1>14, <1>15

(* What fits is behind what was there. *)
LEMMA PutHolds ==
  ASSUME Chosen, NEW r \in Buffers, NEW d \in Seq(0 .. FileLen), NEW o, Len(o) \in Nat,
         \A i \in 1 .. Len(o) : o[i] = i,
         \A i \in 0 .. r.size - 1 : r.mem[i] = Len(o) + i + 1,
         \A i \in 1 .. Len(d) : d[i] = Len(o) + r.size + i
  PROVE  Holds(Put(r, d), o, Len(o) + r.size + Len(d))
<1> DEFINE u == Put(r, d)
<1>1. /\ u \in Buffers /\ r.size <= u.size /\ u.size + Len(u.tbuf) = r.size + Len(d)
      /\ SameStart(u, r, r.size)
      /\ \A i \in r.size .. u.size - 1 : u.mem[i] = d[i - r.size + 1]
      /\ \A i \in 1 .. Len(u.tbuf) : u.tbuf[i] = d[(u.size - r.size) + i]
  BY PutIs
<1> HIDE DEF u
<1>2. r.size \in Nat /\ u.size \in Nat /\ Len(d) \in Nat /\ Len(u.tbuf) \in Nat
  <2>1. r.size \in 0 .. Cap /\ u.size \in 0 .. Cap /\ u.tbuf \in Seq(0 .. FileLen)
    BY <1>1 DEF Buffers
  <2> QED BY <2>1, Sizes, LengthIs
<1>3. \A i \in 0 .. u.size - 1 : u.mem[i] = Len(o) + i + 1
  <2> TAKE i \in 0 .. u.size - 1
  <2>1. CASE i < r.size
    BY <1>1, <1>2, <2>1 DEF SameStart
  <2>2. CASE ~(i < r.size)
    <3> DEFINE x == r.size
               y == u.size
               z == Len(u.tbuf)
               l == Len(d)
               j == i - x + 1
    <3>1. x \in Nat /\ y \in Nat /\ z \in Nat /\ l \in Nat /\ y + z = x + l
      BY <1>1, <1>2
    <3>2. i \in 0 .. y - 1 /\ ~(i < x)
      BY <2>2
    <3>3. u.mem[i] = d[j] \/ i \notin x .. y - 1
      BY <1>1
    <3>4. \A h \in 1 .. l : d[h] = Len(o) + x + h
      OBVIOUS
    <3> HIDE DEF x, y, z, l
    <3>5. i \in x .. y - 1 /\ j \in 1 .. l /\ Len(o) + x + j = Len(o) + i + 1
      BY <3>1, <3>2
    <3> HIDE DEF j
    <3>6. d[j] = Len(o) + x + j
      BY <3>4, <3>5
    <3> QED BY <3>3, <3>5, <3>6
  <2> QED BY <2>1, <2>2
<1>4. \A i \in 1 .. Len(u.tbuf) : u.tbuf[i] = Len(o) + u.size + i
  <2> TAKE i \in 1 .. Len(u.tbuf)
  <2> DEFINE j == (u.size - r.size) + i
  <2>1. j \in 1 .. Len(d) /\ Len(o) + r.size + j = Len(o) + u.size + i
    <3> DEFINE x == r.size
               y == u.size
               z == Len(u.tbuf)
               l == Len(d)
    <3>1. /\ x \in Nat /\ y \in Nat /\ z \in Nat /\ l \in Nat
          /\ y + z = x + l /\ x <= y /\ i \in 1 .. z
      BY <1>1, <1>2
    <3> HIDE DEF x, y, z, l
    <3>2. (y - x) + i \in 1 .. l /\ Len(o) + x + ((y - x) + i) = Len(o) + y + i
      BY <3>1
    <3> QED BY <3>2 DEF x, y, l
  <2>2. u.tbuf[i] = d[j]
    BY <1>1
  <2> HIDE DEF j
  <2> QED BY <2>1, <2>2
<1>5. Len(o) + u.size + Len(u.tbuf) = Len(o) + r.size + Len(d)
  <2> DEFINE x == u.size
             y == Len(u.tbuf)
             z == r.size
             l == Len(d)
  <2>1. x \in Nat /\ y \in Nat /\ z \in Nat /\ l \in Nat /\ x + y = z + l
    BY <1>1, <1>2
  <2> HIDE DEF x, y, z, l
  <2>2. Len(o) + x + y = Len(o) + z + l
    BY <2>1
  <2> QED BY <2>2 DEF x, y, z, l
<1> QED BY <1>3, <1>4, <1>5 DEF Holds, u

LEMMA ErrorIs ==
  ASSUME NEW r \in Buffers
  PROVE  /\ Error(r) \in Buffers /\ Error(r).stm = "INIT"
         /\ Error(r).size = r.saved /\ Error(r).saved = r.saved
         /\ Error(r).mem = r.mem /\ Error(r).tbuf = r.tbuf
         /\ Error(r).n = r.n /\ Error(r).last = r.last
  BY DEF Error, Buffers

LEMMA StartIs ==
  ASSUME NEW r \in Buffers, NEW p \in Packets
  PROVE  /\ Start(r, p) \in Buffers /\ Start(r, p).stm = "DATA"
         /\ Start(r, p).n = p.n /\ Start(r, p).last = p.n
         /\ Start(r, p).cut = (p.q = "cut")
         /\ Start(r, p).mem = r.mem /\ Start(r, p).tbuf = r.tbuf
         /\ p.n = r.last => Start(r, p).size = r.saved /\ Start(r, p).saved = r.saved
         /\ p.n # r.last => Start(r, p).size = r.size /\ Start(r, p).saved = r.size
<1> DEFINE c == p.q = "cut"
           z == IF p.n = r.last THEN r.saved ELSE r.size
           v == IF p.n = r.last THEN r.saved ELSE r.size
           u == [r EXCEPT !.n = p.n, !.last = p.n, !.stm = "DATA", !.cut = c,
                          !.size = z, !.saved = v]
<1>1. Start(r, p) = u
  BY DEF Start, Buffers
<1>2. c \in BOOLEAN
  BY Zenon
<1>3. p.n \in 0 .. Break /\ z \in 0 .. Cap /\ v \in 0 .. Cap
  BY DEF Packets, Buffers
<1>4. p.n \in -1 .. Break
  BY <1>3
<1> HIDE DEF z, v, c
<1>5. /\ u.stm = "DATA" /\ u.n = p.n /\ u.last = p.n /\ u.cut = c
      /\ u.mem = r.mem /\ u.tbuf = r.tbuf /\ u.size = z /\ u.saved = v
  BY DEF Buffers
<1>6. u \in Buffers
  BY <1>2, <1>3, <1>4 DEF Buffers
<1> HIDE DEF u
<1> QED BY <1>1, <1>5, <1>6 DEF z, v, c

(* Moved is a turn of Put.                                                 *)
LEMMA MovedIs ==
  ASSUME Chosen, k \in Buffers
  PROVE  /\ Moved \in Buffers /\ SameHeader(Moved, k)
         /\ k.size <= Moved.size /\ Moved.size + Len(Moved.tbuf) = k.size + Len(k.tbuf)
         /\ Len(Moved.tbuf) <= Len(k.tbuf)
         /\ SameStart(Moved, k, k.size)
         /\ Fits => Moved.tbuf = << >>
         /\ k.tbuf = << >> => Moved = k
         /\ \A o, m : Len(o) \in Nat /\ Holds(k, o, m) => Holds(Moved, o, m)
<1>1. k.tbuf \in Seq(0 .. FileLen) /\ k.size \in Nat /\ Len(k.tbuf) \in Nat /\ Cap \in Nat
  <2>1. k.tbuf \in Seq(0 .. FileLen) /\ k.size \in 0 .. Cap
    BY DEF Buffers
  <2> QED BY <2>1, Sizes, LengthIs
<1>2. CASE k.tbuf = << >>
  <2>1. Moved = k
    BY <1>2 DEF Moved
  <2>2. SameHeader(k, k) /\ SameStart(k, k, k.size)
    BY DEF SameHeader, SameStart
  <2> QED BY <1>1, <1>2, <2>1, <2>2
<1>3. CASE k.tbuf # << >>
  <2> DEFINE u == Put(k, k.tbuf)
  <2>1. Moved = u
    BY <1>3 DEF Moved
  <2>2. /\ u \in Buffers /\ SameHeader(u, k) /\ SameStart(u, k, k.size)
        /\ k.size <= u.size /\ u.size + Len(u.tbuf) = k.size + Len(k.tbuf)
        /\ k.size + Len(k.tbuf) <= Cap => u.tbuf = << >>
    BY <1>1, PutIs
  <2>3. Fits => k.size + Len(k.tbuf) <= Cap
    BY <1>1 DEF Fits
  <2>4. Len(u.tbuf) <= Len(k.tbuf)
    <3> HIDE DEF u
    <3>1. u.tbuf \in Seq(0 .. FileLen) /\ u.size \in 0 .. Cap
      BY <2>2 DEF Buffers
    <3>2. Len(u.tbuf) \in Nat
      BY <3>1, LengthIs
    <3> QED BY <1>1, <2>2, <3>1, <3>2
  <2>5. ASSUME NEW o, NEW m, Len(o) \in Nat, Holds(k, o, m)
        PROVE  Holds(u, o, m)
    <3>1. Holds(u, o, Len(o) + k.size + Len(k.tbuf))
      <4>1. /\ \A i \in 1 .. Len(o) : o[i] = i
            /\ \A i \in 0 .. k.size - 1 : k.mem[i] = Len(o) + i + 1
            /\ \A i \in 1 .. Len(k.tbuf) : k.tbuf[i] = Len(o) + k.size + i
        BY <2>5 DEF Holds
      <4>2. Len(o) \in Nat
        BY <2>5
      <4> QED BY <1>1, <4>1, <4>2, PutHolds, Zenon
    <3>2. Len(o) + k.size + Len(k.tbuf) = m
      BY <2>5 DEF Holds
    <3> QED BY <3>1, <3>2, Zenon
  <2> HIDE DEF u
  <2> QED BY <1>3, <2>1, <2>2, <2>3, <2>4, <2>5
<1> QED BY <1>2, <1>3

Joined(a, b, d) ==
  /\ Len(d) = Len(a) + Len(b)
  /\ \A i \in 1 .. Len(a) : d[i] = a[i]
  /\ \A i \in 1 .. Len(b) : d[Len(a) + i] = b[i]

LEMMA CatIs ==
  ASSUME NEW S, NEW a \in Seq(S), NEW b \in Seq(S)
  PROVE  a \o b \in Seq(S) /\ Joined(a, b, a \o b)
  BY DEF Joined

(* What a page takes out of the buffer is in rom.                          *)
LEMMA DrainIs ==
  ASSUME Chosen, NEW r \in Buffers, NEW q \in BOOLEAN, rom \in Seq(0 .. FileLen), Drain(r, q)
  PROVE  /\ k' \in Buffers /\ SameHeader(k', r) /\ k'.tbuf = r.tbuf /\ k'.mem = r.mem
         /\ rom' \in Seq(0 .. FileLen)
         /\ target = "ROM" /\ (r.size = Cap \/ q) => k'.size = 0 /\ Len(rom') = Len(rom) + r.size
         /\ ~(target = "ROM" /\ (r.size = Cap \/ q)) => k' = r /\ rom' = rom
         /\ \A m : Holds(r, rom, m) => Holds(k', rom', m)
<1> DEFINE Full == target = "ROM" /\ (r.size = Cap \/ q)
           S == 0 .. FileLen
           w == [i \in 1 .. r.size |-> r.mem[i - 1]]
<1>1. SameHeader(r, r)
  BY DEF SameHeader
<1>2. CASE ~Full
  <2>1. k' = r /\ rom' = rom
    BY <1>2 DEF Drain
  <2> QED BY <1>1, <1>2, <2>1
<1>3. CASE Full
  <2>1. k' = [r EXCEPT !.size = 0] /\ rom' = rom \o w
    BY <1>3 DEF Drain
  <2>2. 0 \in 0 .. Cap /\ Cap \in Nat
    BY Sizes
  <2>3. k' \in Buffers /\ SameHeader(k', r) /\ k'.tbuf = r.tbuf /\ k'.mem = r.mem /\ k'.size = 0
    BY <2>1, <2>2 DEF Buffers, SameHeader
  <2>4. r.size \in Nat /\ r.size <= Cap /\ r.mem \in [0 .. Cap - 1 -> S] /\ r.tbuf \in Seq(S)
    BY <2>2 DEF Buffers
  <2>5. \A i \in 1 .. r.size : i - 1 \in 0 .. Cap - 1 /\ i - 1 \in 0 .. r.size - 1
    BY <2>2, <2>4
  <2>6. w \in Seq(S) /\ Len(w) = r.size /\ \A i \in 1 .. r.size : w[i] = r.mem[i - 1]
    <3> HIDE DEF S
    <3>1. w \in [1 .. r.size -> S]
      BY <2>4, <2>5
    <3>2. r.size \in Nat
      BY <2>4
    <3>3. w \in Seq(S) /\ Len(w) = r.size
      BY <3>1, <3>2, FunSeq, Zenon
    <3> QED BY <3>3
  <2> HIDE DEF w, S, Full
  <2>7. rom \in Seq(S)
    BY DEF S
  <2>8. /\ rom' \in Seq(S) /\ Len(rom') = Len(rom) + r.size /\ Len(rom) \in Nat
        /\ \A i \in 1 .. Len(rom) : rom'[i] = rom[i]
        /\ \A i \in 1 .. r.size : rom'[Len(rom) + i] = w[i]
    <3> DEFINE x == rom \o w
    <3>1. x \in Seq(S) /\ Joined(rom, w, x)
      BY <2>6, <2>7, CatIs, Zenon
    <3> HIDE DEF x
    <3>2. rom' = x
      BY <2>1 DEF x
    <3>3. Len(rom) \in Nat
      BY <2>7, LengthIs
    <3> QED BY <2>6, <3>1, <3>2, <3>3 DEF Joined
  <2>9. ASSUME NEW m, Holds(r, rom, m)
        PROVE  Holds(k', rom', m)
    <3>1. /\ Len(rom) + r.size + Len(r.tbuf) = m
          /\ \A i \in 1 .. Len(rom) : rom[i] = i
          /\ \A i \in 0 .. r.size - 1 : r.mem[i] = Len(rom) + i + 1
          /\ \A i \in 1 .. Len(r.tbuf) : r.tbuf[i] = Len(rom) + r.size + i
      BY <2>9 DEF Holds
    <3> DEFINE x == r.size
               l == Len(rom)
               y == Len(r.tbuf)
    <3>2. x \in Nat /\ l \in Nat /\ y \in Nat
      BY <2>4, <2>8, LengthIs
    <3>3. \A i \in 1 .. x : w[i] = l + i
      <4> TAKE i \in 1 .. x
      <4>1. r.mem[i - 1] = l + (i - 1) + 1
        BY <2>5, <3>1
      <4> QED BY <2>6, <3>2, <4>1
    <3>4. \A i \in 1 .. l + x : rom'[i] = i
      <4> TAKE i \in 1 .. l + x
      <4>1. CASE i <= l
        BY <2>8, <3>1, <3>2, <4>1
      <4>2. CASE ~(i <= l)
        <5> DEFINE j == i - l
        <5>1. j \in 1 .. x /\ l + j = i
          BY <3>2, <4>2
        <5> HIDE DEF j
        <5>2. rom'[l + j] = w[j] /\ w[j] = l + j
          BY <2>8, <3>3, <5>1
        <5> QED BY <5>1, <5>2
      <4> QED BY <4>1, <4>2
    <3>5. Len(rom') = l + x /\ l + x \in Nat
      BY <2>8, <3>2
    <3>6. l + x + 0 + y = m /\ l + x + 0 = l + x
      BY <3>1, <3>2
    <3> HIDE DEF x, l, y
    <3>7. \A i \in 1 .. Len(rom') : rom'[i] = i
      BY <3>4, <3>5
    <3>8. Len(rom') + k'.size + Len(k'.tbuf) = m
      BY <2>3, <3>5, <3>6 DEF y
    <3>9. \A i \in 0 .. k'.size - 1 : k'.mem[i] = Len(rom') + i + 1
      BY <2>3
    <3>10. \A i \in 1 .. Len(k'.tbuf) : k'.tbuf[i] = Len(rom') + k'.size + i
      <4>1. k'.tbuf = r.tbuf /\ Len(rom') + k'.size = l + x
        BY <2>3, <3>5, <3>6
      <4>2. \A i \in 1 .. Len(r.tbuf) : r.tbuf[i] = l + x + i
        BY <3>1 DEF l, x
      <4> QED BY <4>1, <4>2, Zenon
    <3> QED BY <3>7, <3>8, <3>9, <3>10 DEF Holds
  <2> QED BY <1>3, <2>3, <2>8, <2>9 DEF S, Full
<1> QED BY <1>2, <1>3

-----------------------------------------------------------------------------
(* The invariant. *)

(* TypeOK, with what the buffers hold in one record.                       *)
Types ==
  /\ Chosen
  /\ k \in Buffers /\ k.size < Cap /\ Len(k.tbuf) < PageSz
  /\ rom \in Seq(0 .. FileLen)
  /\ loader \in {"run", "done", "abort"}
  /\ sn \in 0 .. Break /\ sender \in {"on", "end", "gone"} /\ acked \in -1 .. Break
  /\ down \in Seq(Packets) /\ up \in Seq(Answers)
  /\ faults \in 0 .. MaxFault

(* The packets on the line are the one the loader has begun last, or the   *)
(* next one, and no packet overtakes another.                              *)
Queued(d, l, h) ==
  /\ \A i \in 1 .. Len(d) : l <= d[i].n /\ d[i].n <= h
  /\ \A i, j \in 1 .. Len(d) : i < j => d[i].n <= d[j].n
Answered(u, a) == \A i \in 1 .. Len(u) : u[i].a = "Y" => u[i].n <= a
Line ==
  /\ acked \in {sn - 1, sn} /\ k.last \in {acked, acked + 1} /\ k.last <= sn
  /\ Queued(down, k.last, sn) /\ Answered(up, acked)

(* The packet the loader is reading, and where it stops.                   *)
Reading ==
  /\ k.stm = "DATA" =>
       /\ k.n = k.last
       /\ ~k.cut => down # << >> /\ Head(down).n = k.n /\ Head(down).q \in {"ok", "body"}
  /\ loader = "run" => acked < Break
  /\ loader = "done" => acked = Break /\ k.last = Break /\ k.stm = "INIT"

(* Flash is written by whole pages; memory takes what one packet after the *)
(* other may bring.                                                        *)
Pages(r, o, l) ==
  /\ target = "ROM" /\ l # "done" => Len(o) % PageSz = 0
  /\ target = "RAM" =>
       /\ o = << >> /\ r.tbuf = << >> /\ r.saved <= Offset(r.last)
       /\ r.stm = "DATA" => r.size <= r.saved
       /\ r.size <= Offset(r.last + 1)

(* The failures that the protocol does not make good.                      *)
Twice(n) == target = "ROM" /\ FillsPage(n)
Lost(H) == \E h \in H : h[1] = "again" /\ Twice(h[2])
Stale(r, H) == \E h \in H : h[1] = "back" /\ IsData(h[2]) /\ h[2] < r.last
Backed(a, H) == <<"back", a>> \in H /\ IsData(a)

(* All that comes before packet n is there, and can be returned to.        *)
At(r, o, n) == Holds(r, o, Offset(n)) /\ r.size = r.saved /\ r.tbuf = << >>

(* Packet a has come, and can be taken back, unless it has filled a page.  *)
Whole(r, o, a, l) ==
  /\ Holds(r, o, Offset(a + 1))
  /\ r.tbuf # << >> => r.size = 0
  /\ \/ Twice(a) \/ l = "done"
     \/ Len(o) + r.saved = Offset(a) /\ r.saved <= r.size /\ r.tbuf = << >>

(* What the buffers and the pages o hold, when packet a is the last the    *)
(* loader has acknowledged and H the failures it has seen.                 *)
Begun(r, a) == r.stm = "DATA" \/ r.last # a
Sound(r, o, a, l, H) ==
  ~Lost(H) /\ ~Stale(r, H) =>
    /\ Begun(r, a) => At(r, o, r.last)
    /\ ~Begun(r, a) /\ Backed(a, H) => Twice(a) \/ At(r, o, a)
    /\ ~Begun(r, a) /\ ~Backed(a, H) => Whole(r, o, a, l)

Inv == Types /\ Line /\ Reading /\ Pages(k, rom, loader) /\ Sound(k, rom, acked, loader, hit)

(* The file and the target never change.                                   *)
LEMMA Steady ==
  ASSUME target' = target, ends' = ends
  PROVE  /\ Cap' = Cap /\ FileLen' = FileLen /\ Break' = Break
         /\ Buffers' = Buffers /\ Packets' = Packets /\ Answers' = Answers
         /\ Chosen' <=> Chosen
  BY DEF Cap, FileLen, Break, Buffers, Packets, Answers, Chosen

LEMMA SteadySound ==
  ASSUME target' = target, ends' = ends
  PROVE  /\ Pages(k, rom, loader)' <=> Pages(k', rom', loader')
         /\ Sound(k, rom, acked, loader, hit)' <=> Sound(k', rom', acked', loader', hit')
<1>1. FileLen' = FileLen
  BY Steady
<1>2. Pages(k, rom, loader)' <=> Pages(k', rom', loader')
  BY <1>1, Zenon DEF Pages, Offset
<1>3. Lost(hit)' <=> Lost(hit')
  BY <1>1, Zenon DEF Lost, Twice, FillsPage, IsData, Offset
<1>4. Stale(k, hit)' <=> Stale(k', hit')
  BY Zenon DEF Stale, IsData
<1>5. Backed(acked, hit)' <=> Backed(acked', hit')
  BY Zenon DEF Backed, IsData
<1>6. At(k, rom, k.last)' <=> At(k', rom', k'.last)
  BY <1>1, Zenon DEF At, Holds, Offset
<1>7. At(k, rom, acked)' <=> At(k', rom', acked')
  BY <1>1, Zenon DEF At, Holds, Offset
<1>8. Twice(acked)' <=> Twice(acked')
  BY <1>1, Zenon DEF Twice, FillsPage, IsData, Offset
<1>9. Whole(k, rom, acked, loader)' <=> Whole(k', rom', acked', loader')
  BY <1>1, <1>8, Zenon DEF Whole, Holds, Offset
<1>10. Begun(k, acked)' <=> Begun(k', acked')
  BY Zenon DEF Begun
<1>11. Sound(k, rom, acked, loader, hit)' <=> Sound(k', rom', acked', loader', hit')
  BY <1>3, <1>4, <1>5, <1>6, <1>7, <1>8, <1>9, <1>10, Zenon DEF Sound
<1> QED BY <1>2, <1>11, Zenon

-----------------------------------------------------------------------------
(* The receiver. *)

LEMMA BufferIs ==
  ASSUME Chosen, NEW r \in Buffers
  PROVE  /\ r.size \in Nat /\ r.size <= Cap /\ r.saved \in Nat /\ r.saved <= Cap
         /\ r.tbuf \in Seq(0 .. FileLen) /\ Len(r.tbuf) \in Nat
         /\ r.last \in Int /\ r.n \in Int
         /\ r.stm \in {"INIT", "DATA"} /\ r.cut \in BOOLEAN
<1>1. /\ r.size \in 0 .. Cap /\ r.saved \in 0 .. Cap /\ r.tbuf \in Seq(0 .. FileLen)
      /\ r.last \in -1 .. Break /\ r.n \in 0 .. Break
      /\ r.stm \in {"INIT", "DATA"} /\ r.cut \in BOOLEAN
  BY DEF Buffers
<1>2. Cap \in Nat /\ Break \in Nat
  BY Sizes
<1>3. Len(r.tbuf) \in Nat
  BY <1>1, LengthIs
<1>4. r.last \in Int /\ r.n \in Int
  BY <1>1, <1>2
<1>5. r.size \in Nat /\ r.size <= Cap /\ r.saved \in Nat /\ r.saved <= Cap
  BY <1>1, <1>2
<1> QED BY <1>1, <1>3, <1>4, <1>5

(* Back at the checkpoint, that is before packet n.                        *)
LEMMA BackAt ==
  ASSUME Types, NEW r \in Buffers, NEW u \in Buffers, NEW n \in Int, NEW m,
         Holds(r, rom, m), Len(rom) + r.saved = Offset(n), r.saved <= r.size,
         SameStart(u, r, r.saved), u.size = r.saved, u.saved = r.saved, u.tbuf = << >>
  PROVE  At(u, rom, n)
<1>1. /\ r.size \in Nat /\ r.saved \in Nat /\ Len(rom) \in Nat
      /\ \A i \in 1 .. Len(rom) : rom[i] = i
      /\ \A i \in 0 .. r.size - 1 : r.mem[i] = Len(rom) + i + 1
  BY BufferIs, LengthIs DEF Types, Holds
<1>2. \A i \in 0 .. u.size - 1 : u.mem[i] = Len(rom) + i + 1
  <2> TAKE i \in 0 .. u.size - 1
  <2>1. i \in 0 .. r.saved - 1 /\ i \in 0 .. r.size - 1
    BY <1>1
  <2> QED BY <1>1, <2>1 DEF SameStart
<1>3. Len(u.tbuf) = 0 /\ \A i \in 1 .. Len(u.tbuf) : u.tbuf[i] = Len(rom) + u.size + i
  OBVIOUS
<1>4. Len(rom) + u.size + Len(u.tbuf) = Offset(n)
  BY <1>1, <1>3
<1> QED BY <1>1, <1>2, <1>3, <1>4 DEF At, Holds

(* A packet that does not fill a page leaves room.                         *)
LEMMA RoomLeft ==
  ASSUME Types, Pages(k, rom, loader), loader = "run", NEW n \in Int, At(k, rom, n), ~Twice(n)
  PROVE  k.size + Len(Data(n)) < Cap
<1> DEFINE s == k.size
           d == Len(Data(n))
           o == Len(rom)
           P == PageSz
<1>1. /\ s \in Nat /\ o \in Nat /\ d \in Nat /\ P \in Nat /\ P >= 1 /\ d < P /\ s < Cap
      /\ d = Offset(n + 1) - Offset(n)
      /\ Offset(n) \in Nat /\ Offset(n + 1) \in Nat /\ Offset(n + 1) <= FileLen
      /\ FileLen \in Nat /\ Cap \in Nat
  <2>1. Chosen /\ rom \in Seq(0 .. FileLen) /\ k \in Buffers /\ k.size < Cap
    BY DEF Types
  <2> QED BY <2>1, BufferIs, LengthIs, Sizes, OffsetIs, DataIs
<1>2. o + s = Offset(n)
  <2>1. o + s + Len(k.tbuf) = Offset(n) /\ k.tbuf = << >>
    BY DEF At, Holds
  <2> QED BY <1>1, <2>1
<1> HIDE DEF s, d, o, P
<1>3. CASE target = "RAM"
  <2>1. Cap = FileLen + 1
    BY <1>3, Sizes DEF Types
  <2>2. s + d < Cap
    BY <1>1, <1>2, <2>1
  <2> QED BY <2>2 DEF s, d
<1>4. CASE target = "ROM"
  <2>1. Cap = P /\ o % P = 0
    BY <1>4, Sizes DEF Types, Pages, o, P
  <2>2. CASE IsData(n)
    <3>1. ~(Offset(n) \div P < Offset(n + 1) \div P)
      BY <1>4, <2>2 DEF Twice, FillsPage, P
    <3>2. o + s + d = Offset(n + 1)
      BY <1>1, <1>2
    <3>3. ~((o + s) \div P < (o + s + d) \div P)
      BY <1>2, <3>1, <3>2, Zenon
    <3>4. ~(s + d >= P)
      BY <1>1, <2>1, <3>3, PageEnd
    <3>5. s + d < Cap
      BY <1>1, <2>1, <3>4
    <3> QED BY <3>5 DEF s, d
  <2>3. CASE ~IsData(n)
    <3>1. d = 0
      BY <2>3 DEF Data, d
    <3>2. s + d < Cap
      BY <1>1, <3>1
    <3> QED BY <3>2 DEF s, d
  <2> QED BY <2>2, <2>3
<1>5. target \in {"RAM", "ROM"}
  BY Sizes DEF Types
<1> QED BY <1>3, <1>4, <1>5

(* tbuf is used for what follows a full page, and then obuf is empty.      *)
LEMMA MovedRoom ==
  ASSUME Types, Pages(k, rom, loader), k.tbuf # << >> => k.size = 0
  PROVE  Moved \in Buffers /\ Moved.tbuf = << >> /\ Moved.size < Cap
<1>1. Chosen /\ k \in Buffers /\ k.size < Cap /\ Len(k.tbuf) < PageSz
  BY DEF Types
<1>2. CASE k.tbuf = << >>
  BY <1>1, <1>2, MovedIs
<1>3. CASE k.tbuf # << >>
  <2>1. target = "ROM" /\ Cap = PageSz /\ PageSz \in Nat
    BY <1>1, <1>3, Sizes DEF Pages
  <2>2. k.size = 0 /\ Len(k.tbuf) \in Nat /\ Len(k.tbuf) < Cap
    BY <1>1, <1>3, <2>1, BufferIs
  <2>3. Fits
    BY <2>1, <2>2 DEF Fits
  <2>4. Moved \in Buffers /\ Moved.tbuf = << >> /\ Moved.size + Len(Moved.tbuf) = k.size + Len(k.tbuf)
    BY <1>1, <2>3, MovedIs
  <2>5. Len(Moved.tbuf) = 0 /\ Moved.size \in Nat
    BY <1>1, <2>4, BufferIs
  <2>6. Moved.size < Cap
    BY <2>2, <2>4, <2>5
  <2> QED BY <2>4, <2>6
<1> QED BY <1>2, <1>3

(* A turn without a full page changes the buffers only.                    *)
LEMMA DrainNot ==
  ASSUME NEW r, NEW q, Drain(r, q), r.size < Cap, Chosen, r \in Buffers, ~q
  PROVE  k' = r /\ rom' = rom
<1>1. r.size # Cap
  BY BufferIs, Sizes
<1> QED BY <1>1 DEF Drain

LEMMA SettleSound ==
  ASSUME Types, Pages(k, rom, loader), Sound(k, rom, acked, loader, hit),
         loader = "run", Drain(Moved, FALSE), acked' = acked, hit' = hit
  PROVE  Sound(k', rom', acked', loader', hit')
<1>1. Chosen /\ k \in Buffers /\ k.size < Cap
  BY DEF Types
<1>2. Moved \in Buffers /\ SameHeader(Moved, k)
  BY <1>1, MovedIs
<1>3. k.tbuf = << >> => k' = k /\ rom' = rom
  <2> SUFFICES ASSUME k.tbuf = << >> PROVE k' = k /\ rom' = rom
    OBVIOUS
  <2>1. Moved = k
    BY <1>1, MovedIs
  <2> QED BY <1>1, <2>1, DrainNot
<1>4. k'.last = k.last /\ k'.stm = k.stm
  <2>1. SameHeader(k', Moved)
    <3>1. rom \in Seq(0 .. FileLen) /\ FALSE \in BOOLEAN
      BY DEF Types
    <3> QED BY <1>1, <1>2, <3>1, DrainIs
  <2> QED BY <1>2, <2>1 DEF SameHeader
<1>5. ASSUME ~Lost(hit'), ~Stale(k', hit')
      PROVE  /\ Begun(k', acked') => At(k', rom', k'.last)
             /\ ~Begun(k', acked') /\ Backed(acked', hit') => Twice(acked') \/ At(k', rom', acked')
             /\ ~Begun(k', acked') /\ ~Backed(acked', hit') => Whole(k', rom', acked', loader')
  <2>1. /\ Begun(k, acked) => At(k, rom, k.last)
        /\ ~Begun(k, acked) /\ Backed(acked, hit) => Twice(acked) \/ At(k, rom, acked)
        /\ ~Begun(k, acked) /\ ~Backed(acked, hit) => Whole(k, rom, acked, loader)
    BY <1>4, <1>5 DEF Sound, Stale
  <2>2. Begun(k', acked') <=> Begun(k, acked)
    BY <1>4 DEF Begun
  <2>3. \A n : At(k, rom, n) => At(k', rom', n)
    <3> SUFFICES ASSUME NEW n, At(k, rom, n) PROVE At(k', rom', n)
      OBVIOUS
    <3>1. k.tbuf = << >>
      BY DEF At
    <3>2. k' = k /\ rom' = rom
      BY <1>3, <3>1
    <3> QED BY <3>2, Zenon
  <2>4. Whole(k, rom, acked, loader) => Whole(k', rom', acked', loader')
    <3> SUFFICES ASSUME Whole(k, rom, acked, loader) PROVE Whole(k', rom', acked', loader')
      OBVIOUS
    <3>1. CASE k.tbuf = << >>
      <4>1. k' = k /\ rom' = rom
        BY <1>3, <3>1
      <4> QED BY <4>1, Zenon DEF Whole
    <3>2. CASE k.tbuf # << >>
      <4>1. k.size = 0 /\ Twice(acked) /\ Holds(k, rom, Offset(acked + 1))
        BY <3>2 DEF Whole
      <4>2. Moved.tbuf = << >> /\ Moved.size < Cap
        BY <4>1, MovedRoom
      <4>3. Holds(Moved, rom, Offset(acked + 1))
        <5>1. Len(rom) \in Nat
          BY LengthIs DEF Types
        <5> QED BY <1>1, <4>1, <5>1, MovedIs
      <4>4. k' = Moved /\ rom' = rom
        BY <1>1, <1>2, <4>2, DrainNot
      <4> QED BY <4>1, <4>2, <4>3, <4>4, Zenon DEF Whole
    <3> QED BY <3>1, <3>2
  <2>5. Begun(k', acked') => At(k', rom', k'.last)
    BY <1>4, <2>1, <2>2, <2>3, Zenon
  <2>6. ~Begun(k', acked') /\ Backed(acked', hit') => Twice(acked') \/ At(k', rom', acked')
    BY <2>1, <2>2, <2>3, Zenon
  <2>7. ~Begun(k', acked') /\ ~Backed(acked', hit') => Whole(k', rom', acked', loader')
    BY <2>1, <2>2, <2>4, Zenon
  <2> QED BY <2>5, <2>6, <2>7, Zenon
<1> QED BY <1>5, Zenon DEF Sound

(* packet_error: back before the packet that is not acknowledged yet, or   *)
(* before the last one that was.                                           *)
LEMMA NakSound ==
  ASSUME Types, Pages(k, rom, loader), Sound(k, rom, acked, loader, hit),
         loader = "run", k.last \in {acked, acked + 1},
         NEW r \in Buffers, SameHeader(r, k), Nak(r),
         k.stm = "DATA" => k.n = k.last,
         k.stm = "INIT" => r = Moved,
         k.stm = "DATA" /\ At(k, rom, k.last) /\ ~Twice(k.last)
           => r.tbuf = << >> /\ SameStart(r, k, k.size)
  PROVE  Sound(k', rom', acked', loader', hit')
<1> DEFINE u == Error(r)
           H == hit \cup (IF r.last = acked THEN {<<"back", acked>>} ELSE {})
                    \cup (IF r.stm = "DATA" THEN {<<"again", r.n>>} ELSE {})
<1>1. Chosen /\ k \in Buffers /\ k.size < Cap /\ rom \in Seq(0 .. FileLen) /\ acked \in Int
  BY Sizes DEF Types
<1>2. /\ u \in Buffers /\ u.stm = "INIT" /\ u.size = k.saved /\ u.saved = k.saved
      /\ u.mem = r.mem /\ u.tbuf = r.tbuf /\ u.last = k.last
  BY ErrorIs DEF SameHeader
<1>3. Drain(u, FALSE) /\ hit' = H /\ acked' = acked /\ loader' = loader
  BY DEF Nak
<1>4. r.last = k.last /\ r.stm = k.stm /\ r.n = k.n /\ r.saved = k.saved
  BY DEF SameHeader
<1> HIDE DEF u
<1>5. k'.last = k.last /\ k'.stm = "INIT"
  <2>1. SameHeader(k', u)
    <3>1. FALSE \in BOOLEAN
      OBVIOUS
    <3> QED BY <1>1, <1>2, <1>3, <3>1, DrainIs
  <2> QED BY <1>2, <2>1 DEF SameHeader
<1>6. /\ \A h \in hit : h \in H
      /\ k.last = acked => <<"back", acked>> \in H
      /\ k.stm = "DATA" => <<"again", k.n>> \in H
  BY <1>4
<1> HIDE DEF H
<1>7. k.saved \in Nat /\ k.size \in Nat /\ Cap \in Nat /\ k.last \in Int /\ k.stm \in {"INIT", "DATA"}
  BY <1>1, BufferIs, Sizes
<1>8. ASSUME NEW n \in Int, NEW m, Holds(k, rom, m), Len(rom) + k.saved = Offset(n),
             k.saved <= k.size, r.tbuf = << >>, SameStart(r, k, k.saved)
      PROVE  At(k', rom', n)
  <2>1. SameStart(u, k, k.saved) /\ u.tbuf = << >>
    BY <1>2, <1>8 DEF SameStart
  <2>2. At(u, rom, n)
    BY <1>1, <1>2, <1>8, <2>1, BackAt
  <2>3. u.size < Cap
    BY <1>1, <1>2, <1>7, <1>8
  <2>4. k' = u /\ rom' = rom
    BY <1>1, <1>2, <1>3, <2>3, DrainNot
  <2> QED BY <2>2, <2>4, Zenon
<1>9. ASSUME NEW n \in Int, At(k, rom, n), r.tbuf = << >>, SameStart(r, k, k.size)
      PROVE  At(k', rom', n)
  <2>1. Holds(k, rom, Offset(n)) /\ k.size = k.saved /\ k.tbuf = << >>
    BY <1>9 DEF At
  <2>2. Len(rom) + k.saved = Offset(n)
    <3>1. Len(rom) + k.size + Len(k.tbuf) = Offset(n) /\ Len(rom) \in Nat
      BY <1>1, <2>1, LengthIs DEF Holds
    <3> QED BY <1>7, <2>1, <3>1
  <2>3. SameStart(r, k, k.saved) /\ k.saved <= k.size
    BY <1>7, <1>9, <2>1
  <2> QED BY <1>8, <1>9, <2>1, <2>2, <2>3
<1>10. k.stm = "INIT" /\ k.tbuf = << >> => r = k /\ SameStart(r, k, k.size) /\ SameStart(r, k, k.saved)
  <2>1. k.stm = "INIT" /\ k.tbuf = << >> => r = k
    BY <1>1, MovedIs
  <2> QED BY <2>1 DEF SameStart
<1>11. ASSUME ~Lost(hit'), ~Stale(k', hit')
       PROVE  /\ Begun(k', acked') => At(k', rom', k'.last)
              /\ ~Begun(k', acked') /\ Backed(acked', hit') => Twice(acked') \/ At(k', rom', acked')
              /\ ~Begun(k', acked') /\ ~Backed(acked', hit') => Whole(k', rom', acked', loader')
  <2>1. ~Lost(hit) /\ ~Stale(k, hit)
    BY <1>3, <1>5, <1>6, <1>11, Zenon DEF Lost, Stale
  <2>2. /\ Begun(k, acked) => At(k, rom, k.last)
        /\ ~Begun(k, acked) /\ Backed(acked, hit) => Twice(acked) \/ At(k, rom, acked)
        /\ ~Begun(k, acked) /\ ~Backed(acked, hit) => Whole(k, rom, acked, loader)
    BY <2>1 DEF Sound
  <2>3. Begun(k', acked') <=> k.last # acked
    BY <1>3, <1>5 DEF Begun
  <2>4. At(k', rom', k.last) \/ (k.last = acked /\ Twice(acked))
    <3>1. CASE k.stm = "DATA"
      <4>1. At(k, rom, k.last)
        BY <2>2, <3>1 DEF Begun
      <4>2. ~Twice(k.last)
        <5>1. <<"again", k.last>> \in hit'
          BY <1>3, <1>6, <3>1
        <5>2. <<"again", k.last>>[1] = "again" /\ <<"again", k.last>>[2] = k.last
          OBVIOUS
        <5> QED BY <1>11, <5>1, <5>2, Zenon DEF Lost
      <4>3. r.tbuf = << >> /\ SameStart(r, k, k.size)
        BY <3>1, <4>1, <4>2
      <4> QED BY <1>7, <1>9, <4>1, <4>3
    <3>2. CASE k.stm = "INIT" /\ (Begun(k, acked) \/ Backed(acked, hit))
      <4>1. At(k, rom, k.last) \/ (k.last = acked /\ Twice(acked))
        BY <2>2, <3>2 DEF Begun
      <4>2. CASE At(k, rom, k.last)
        <5>1. k.tbuf = << >>
          BY <4>2 DEF At
        <5>2. r = k /\ SameStart(r, k, k.size)
          BY <1>10, <3>2, <5>1
        <5> QED BY <1>7, <1>9, <4>2, <5>1, <5>2
      <4> QED BY <4>1, <4>2
    <3>3. CASE k.stm = "INIT" /\ ~Begun(k, acked) /\ ~Backed(acked, hit)
      <4>1. k.last = acked /\ Whole(k, rom, acked, loader)
        BY <2>2, <3>3 DEF Begun
      <4>2. CASE ~Twice(acked)
        <5>1. /\ Holds(k, rom, Offset(acked + 1))
              /\ Len(rom) + k.saved = Offset(acked) /\ k.saved <= k.size /\ k.tbuf = << >>
          BY <4>1, <4>2 DEF Whole
        <5>2. r = k /\ SameStart(r, k, k.saved)
          BY <1>10, <3>3, <5>1
        <5>3. At(k', rom', acked)
          BY <1>1, <1>8, <5>1, <5>2
        <5> QED BY <4>1, <5>3
      <4> QED BY <4>1, <4>2
    <3> QED BY <1>7, <3>1, <3>2, <3>3
  <2>5. ASSUME k.last = acked, ~Backed(acked', hit')
        PROVE  Whole(k', rom', acked', loader')
    <3>1. ~IsData(acked)
      BY <1>3, <1>6, <2>5 DEF Backed
    <3>2. Offset(acked + 1) = Offset(acked) /\ ~Twice(acked)
      BY <1>1, <3>1, OffsetIs DEF Twice, FillsPage
    <3>3. At(k', rom', acked)
      BY <2>4, <2>5, <3>2
    <3>4. Holds(k', rom', Offset(acked)) /\ k'.size = k'.saved /\ k'.tbuf = << >>
      BY <3>3 DEF At
    <3>5. Len(rom') + k'.saved = Offset(acked) /\ k'.saved <= k'.size
      <4>1. k' \in Buffers /\ rom' \in Seq(0 .. FileLen)
        <5>1. FALSE \in BOOLEAN
          OBVIOUS
        <5> QED BY <1>1, <1>2, <1>3, <5>1, DrainIs
      <4>2. k'.size \in Nat /\ Len(rom') \in Nat
        BY <1>1, <4>1, BufferIs, LengthIs
      <4>3. Len(rom') + k'.size + Len(k'.tbuf) = Offset(acked)
        BY <3>4 DEF Holds
      <4> QED BY <3>4, <4>2, <4>3
    <3> QED BY <1>3, <3>2, <3>4, <3>5 DEF Whole
  <2>6. acked' = acked /\ k'.last = k.last
    BY <1>3, <1>5
  <2>7. Begun(k', acked') => At(k', rom', k'.last)
    BY <2>3, <2>4, <2>6, Zenon
  <2>8. ~Begun(k', acked') /\ Backed(acked', hit') => Twice(acked') \/ At(k', rom', acked')
    BY <2>3, <2>4, <2>6, Zenon
  <2> QED BY <2>3, <2>5, <2>7, <2>8, Zenon
<1> QED BY <1>11, Zenon DEF Sound

LEMMA InitIs ==
  ASSUME NEW r \in Buffers, NEW v, v = [r EXCEPT !.stm = "INIT"]
  PROVE  /\ v \in Buffers /\ v.stm = "INIT" /\ v.mem = r.mem /\ v.size = r.size
         /\ v.saved = r.saved /\ v.tbuf = r.tbuf /\ v.n = r.n /\ v.last = r.last
  BY DEF Buffers

(* A packet that is good is whole from then on.                            *)
LEMMA AckSound ==
  ASSUME Types, Pages(k, rom, loader), Sound(k, rom, acked, loader, hit),
         loader = "run", k.stm = "DATA", NEW p \in Packets, p.n = k.last, Ack(Moved, p)
  PROVE  Sound(k', rom', acked', loader', hit')
<1> DEFINE n == k.last
           d == Data(n)
           u == Put(Moved, d)
           v == [u EXCEPT !.stm = "INIT"]
           q == n = Break
<1>1. /\ Chosen /\ k \in Buffers /\ k.size < Cap /\ rom \in Seq(0 .. FileLen)
      /\ n \in Int /\ Len(rom) \in Nat /\ q \in BOOLEAN
  <2>1. Chosen /\ k \in Buffers /\ k.size < Cap /\ rom \in Seq(0 .. FileLen)
    BY DEF Types
  <2> QED BY <2>1, BufferIs, LengthIs
<1>2. /\ Drain(v, q) /\ acked' = n /\ loader' = (IF n = Break THEN "done" ELSE loader)
      /\ hit' = hit \ {<<"back", n>>}
  BY DEF Ack
<1>3. /\ d \in Seq(0 .. FileLen) /\ Len(d) \in Nat /\ Len(d) = Offset(n + 1) - Offset(n)
      /\ \A i \in 1 .. Len(d) : d[i] = Offset(n) + i
      /\ Offset(n) \in Nat /\ Offset(n + 1) \in Nat /\ Offset(n + 1) <= FileLen
      /\ FileLen \in Nat /\ Cap \in Nat
  BY <1>1, DataIs, OffsetIs, Sizes
<1>4. Moved \in Buffers /\ SameHeader(Moved, k)
  BY <1>1, MovedIs
<1> HIDE DEF d
<1>5. u \in Buffers /\ SameHeader(u, Moved)
  BY <1>1, <1>3, <1>4, PutIs
<1> HIDE DEF u
<1>6. /\ v \in Buffers /\ v.stm = "INIT" /\ v.mem = u.mem /\ v.size = u.size
      /\ v.saved = u.saved /\ v.tbuf = u.tbuf /\ v.n = u.n /\ v.last = u.last
  BY <1>5, InitIs
<1> HIDE DEF v, q
<1>7. v.last = n /\ v.saved = k.saved
  BY <1>4, <1>5, <1>6 DEF SameHeader
<1>8. /\ k' \in Buffers /\ SameHeader(k', v) /\ k'.tbuf = v.tbuf
      /\ target = "ROM" /\ (v.size = Cap \/ q) => k'.size = 0
      /\ ~(target = "ROM" /\ (v.size = Cap \/ q)) => k' = v /\ rom' = rom
      /\ \A m : Holds(v, rom, m) => Holds(k', rom', m)
  BY <1>1, <1>2, <1>6, DrainIs
<1>9. k'.last = n /\ k'.stm = "INIT"
  BY <1>6, <1>7, <1>8 DEF SameHeader
<1>10. ~Begun(k', acked') /\ ~Backed(acked', hit')
  BY <1>2, <1>9 DEF Begun, Backed
<1>11. ASSUME ~Lost(hit'), ~Stale(k', hit')
       PROVE  Whole(k', rom', acked', loader')
  <2>1. ~Lost(hit) /\ ~Stale(k, hit)
    <3>1. ASSUME NEW h \in hit, h[1] = "again", Twice(h[2]) PROVE FALSE
      <4>1. h \in hit'
        BY <1>2, <3>1
      <4> QED BY <1>11, <3>1, <4>1, Zenon DEF Lost
    <3>2. ASSUME NEW h \in hit, h[1] = "back", IsData(h[2]), h[2] < k.last PROVE FALSE
      <4>1. h # <<"back", n>>
        BY <1>1, <3>2
      <4>2. h \in hit' /\ h[2] < k'.last
        BY <1>2, <1>9, <3>2, <4>1
      <4> QED BY <1>11, <3>2, <4>2, Zenon DEF Stale
    <3> QED BY <3>1, <3>2, Zenon DEF Lost, Stale
  <2>2. At(k, rom, n)
    BY <2>1 DEF Sound, Begun
  <2>3. Holds(k, rom, Offset(n)) /\ k.size = k.saved /\ k.tbuf = << >>
    BY <2>2 DEF At
  <2>4. Moved = k
    BY <1>1, <2>3, MovedIs
  <2>5. Len(rom) + k.size = Offset(n) /\ k.size \in Nat
    <3>1. k.size \in Nat
      BY <1>1, BufferIs
    <3>2. Len(rom) + k.size + Len(k.tbuf) = Offset(n)
      BY <2>3 DEF Holds
    <3> QED BY <1>1, <2>3, <3>1, <3>2
  <2>6. Holds(u, rom, Offset(n + 1))
    <3>1. /\ \A i \in 1 .. Len(rom) : rom[i] = i
          /\ \A i \in 0 .. k.size - 1 : k.mem[i] = Len(rom) + i + 1
      BY <2>3 DEF Holds
    <3>2. \A i \in 1 .. Len(d) : d[i] = Len(rom) + k.size + i
      BY <1>3, <2>5
    <3>3. Holds(Put(k, d), rom, Len(rom) + k.size + Len(d))
      BY <1>1, <1>3, <3>1, <3>2, PutHolds, Zenon
    <3>4. Len(rom) + k.size + Len(d) = Offset(n + 1)
      BY <1>1, <1>3, <2>5
    <3> QED BY <2>4, <3>3, <3>4, Zenon DEF u
  <2>7. Holds(v, rom, Offset(n + 1))
    BY <1>6, <2>6 DEF Holds
  <2>8. Holds(k', rom', Offset(n + 1))
    BY <1>8, <2>7
  <2>9. /\ k.size + Len(d) <= Cap => u.tbuf = << >> /\ u.size = k.size + Len(d)
        /\ k.size + Len(d) > Cap => u.size = Cap
    BY <1>1, <1>3, <2>4, PutIs DEF u
  <2>10. k'.tbuf # << >> => k'.size = 0
    <3> SUFFICES ASSUME k'.tbuf # << >> PROVE k'.size = 0
      OBVIOUS
    <3>1. k.size + Len(d) > Cap /\ v.size = Cap
      BY <1>3, <1>6, <1>8, <2>5, <2>9
    <3>2. target # "RAM"
      <4>1. k.size + Len(d) <= FileLen
        BY <1>1, <1>3, <2>5
      <4>2. ~(Cap = FileLen + 1)
        BY <1>3, <2>5, <3>1, <4>1
      <4> QED BY <1>1, <4>2, Sizes
    <3> QED BY <1>1, <1>8, <3>1, <3>2, Sizes
  <2>11. \/ Twice(n) \/ loader' = "done"
         \/ Len(rom') + k'.saved = Offset(n) /\ k'.saved <= k'.size /\ k'.tbuf = << >>
    <3> SUFFICES ASSUME ~Twice(n), n # Break
                 PROVE  Len(rom') + k'.saved = Offset(n) /\ k'.saved <= k'.size /\ k'.tbuf = << >>
      BY <1>2
    <3>1. k.size + Len(d) < Cap
      BY <1>1, <2>2, RoomLeft DEF d
    <3>2. u.tbuf = << >> /\ u.size = k.size + Len(d) /\ v.size # Cap
      BY <1>3, <1>6, <2>5, <2>9, <3>1
    <3>3. k' = v /\ rom' = rom
      BY <1>8, <3>2 DEF q
    <3>4. k'.size = k.size + Len(d) /\ k'.tbuf = << >> /\ k'.saved = k.size
      BY <1>6, <1>7, <2>3, <3>2, <3>3
    <3> QED BY <1>3, <2>5, <3>3, <3>4
  <2> QED BY <1>2, <2>8, <2>10, <2>11, Zenon DEF Whole
<1> QED BY <1>10, <1>11, Zenon DEF Sound

(* A header that is good begins a packet: the one after the last, or the   *)
(* last one another time.                                                  *)
LEMMA HeaderSound ==
  ASSUME Types, Pages(k, rom, loader), Sound(k, rom, acked, loader, hit),
         loader = "run", k.stm = "INIT", Fits, NEW p \in Packets,
         p.n \in {k.last, acked + 1}, k.last \in {acked, acked + 1},
         Drain(Start(Moved, p), FALSE), acked' = acked,
         hit' = IF p.n = k.last THEN hit \cup {<<"again", p.n>>} ELSE hit
  PROVE  Sound(k', rom', acked', loader', hit')
<1> DEFINE n == p.n
           r == Moved
           u == Start(r, p)
<1>1. /\ Chosen /\ k \in Buffers /\ k.size < Cap /\ rom \in Seq(0 .. FileLen) /\ Len(rom) \in Nat
      /\ k.last \in Int /\ k.size \in Nat /\ k.saved \in Nat /\ Cap \in Nat /\ acked \in Int
  <2>1. /\ Chosen /\ k \in Buffers /\ k.size < Cap /\ rom \in Seq(0 .. FileLen)
        /\ acked \in -1 .. Break
    BY DEF Types
  <2> QED BY <2>1, BufferIs, LengthIs, Sizes
<1>2. n \in Int /\ n >= k.last
  BY <1>1
<1>3. r \in Buffers /\ SameHeader(r, k) /\ r.tbuf = << >> /\ (k.tbuf = << >> => r = k)
  BY <1>1, MovedIs
<1>4. /\ u \in Buffers /\ u.stm = "DATA" /\ u.last = n /\ u.mem = r.mem /\ u.tbuf = << >>
      /\ n = k.last => u.size = k.saved /\ u.saved = k.saved
      /\ n # k.last => u.size = r.size /\ u.saved = r.size
  BY <1>3, StartIs DEF SameHeader
<1>5. Drain(u, FALSE)
  OBVIOUS
<1> HIDE DEF u, r
<1>6. k'.last = n /\ k'.stm = "DATA"
  <2>1. SameHeader(k', u)
    <3>1. FALSE \in BOOLEAN
      OBVIOUS
    <3> QED BY <1>1, <1>4, <1>5, <3>1, DrainIs
  <2> QED BY <1>4, <2>1 DEF SameHeader
<1>7. Begun(k', acked')
  BY <1>6 DEF Begun
<1>8. ASSUME ~Lost(hit'), ~Stale(k', hit')
      PROVE  At(k', rom', n)
  <2>1. \A h \in hit : h \in hit'
    OBVIOUS
  <2>2. ~Lost(hit)
    BY <1>8, <2>1, Zenon DEF Lost
  <2>3. ASSUME NEW h \in hit, h[1] = "back", IsData(h[2]) PROVE ~(h[2] < n)
    BY <1>6, <1>8, <2>1, <2>3, Zenon DEF Stale
  <2>4. ~Stale(k, hit)
    <3>1. ASSUME NEW h \in hit, h[1] = "back", IsData(h[2]), h[2] < k.last PROVE FALSE
      <4>1. h[2] \in Int
        <5>1. Len(ends) \in Nat
          BY <1>1, Sizes
        <5> QED BY <3>1, <5>1 DEF IsData
      <4>2. h[2] < n
        BY <1>1, <1>2, <3>1, <4>1
      <4> QED BY <2>3, <3>1, <4>2
    <3> QED BY <3>1, Zenon DEF Stale
  <2>5. /\ Begun(k, acked) => At(k, rom, k.last)
        /\ ~Begun(k, acked) /\ Backed(acked, hit) => Twice(acked) \/ At(k, rom, acked)
        /\ ~Begun(k, acked) /\ ~Backed(acked, hit) => Whole(k, rom, acked, loader)
    BY <2>2, <2>4 DEF Sound
  <2>6. u.size < Cap => (At(u, rom, n) => At(k', rom', n))
    <3> SUFFICES ASSUME u.size < Cap, At(u, rom, n) PROVE At(k', rom', n)
      OBVIOUS
    <3>1. k' = u /\ rom' = rom
      BY <1>1, <1>4, <1>5, DrainNot
    <3> QED BY <3>1, Zenon
  <2>7. CASE n = k.last
    <3>1. ~Twice(n)
      <4>1. <<"again", n>> \in hit'
        BY <2>7
      <4>2. <<"again", n>>[1] = "again" /\ <<"again", n>>[2] = n
        OBVIOUS
      <4> QED BY <1>8, <4>1, <4>2, Zenon DEF Lost
    <3>2. PICK m : /\ Holds(k, rom, m) /\ Len(rom) + k.saved = Offset(n)
                   /\ k.saved <= k.size /\ k.tbuf = << >>
      <4>1. CASE At(k, rom, n)
        <5>1. Holds(k, rom, Offset(n)) /\ k.size = k.saved /\ k.tbuf = << >>
          BY <4>1 DEF At
        <5>2. Len(rom) + k.size + Len(k.tbuf) = Offset(n)
          BY <5>1 DEF Holds
        <5>3. Len(rom) + k.saved = Offset(n) /\ k.saved <= k.size
          BY <1>1, <5>1, <5>2
        <5> QED BY <5>1, <5>3
      <4>2. CASE ~At(k, rom, n)
        <5>1. k.last = acked /\ Whole(k, rom, acked, loader)
          BY <2>5, <2>7, <3>1, <4>2 DEF Begun
        <5> QED BY <2>7, <3>1, <5>1 DEF Whole
      <4> QED BY <4>1, <4>2
    <3>3. r = k /\ SameStart(u, k, k.saved)
      BY <1>3, <1>4, <3>2 DEF SameStart
    <3>4. At(u, rom, n)
      BY <1>1, <1>2, <1>4, <2>7, <3>2, <3>3, BackAt
    <3>5. u.size < Cap
      BY <1>1, <1>4, <2>7, <3>2
    <3> QED BY <2>6, <3>4, <3>5
  <2>8. CASE n # k.last
    <3>1. n = acked + 1 /\ k.last = acked
      BY <1>1, <2>8
    <3>2. ~Backed(acked, hit)
      <4>1. <<"back", acked>>[1] = "back" /\ <<"back", acked>>[2] = acked /\ acked < n
        BY <1>1, <3>1
      <4> QED BY <2>3, <4>1, Zenon DEF Backed
    <3>3. Whole(k, rom, acked, loader)
      BY <2>5, <3>1, <3>2 DEF Begun
    <3>4. Holds(k, rom, Offset(n)) /\ (k.tbuf # << >> => k.size = 0)
      BY <3>1, <3>3 DEF Whole
    <3>5. r.size < Cap
      BY <3>4, MovedRoom DEF r
    <3>6. Holds(r, rom, Offset(n))
      BY <1>1, <3>4, MovedIs DEF r
    <3>7. u.size = r.size /\ u.saved = r.size /\ u.tbuf = r.tbuf
      BY <1>3, <1>4, <2>8
    <3>8. Holds(u, rom, Offset(n))
      BY <1>4, <3>6, <3>7 DEF Holds
    <3>9. At(u, rom, n)
      BY <1>3, <3>7, <3>8 DEF At
    <3> QED BY <2>6, <3>5, <3>7, <3>9
  <2> QED BY <2>7, <2>8
<1>9. Begun(k', acked') => (~Lost(hit') /\ ~Stale(k', hit') => At(k', rom', k'.last))
  BY <1>6, <1>8, Zenon
<1> QED BY <1>7, <1>9, Zenon DEF Sound

(* There is room for what is read: memory for the file, or a page.         *)
Room(r) ==
  /\ Len(r.tbuf) < PageSz
  /\ target = "RAM" =>
       /\ r.tbuf = << >> /\ r.saved <= Offset(r.last)
       /\ r.stm = "DATA" => r.size <= r.saved
       /\ r.size <= Offset(r.last + 1)

LEMMA PageStep ==
  ASSUME NEW P \in Nat, P >= 1, NEW a \in Nat, a % P = 0
  PROVE  (a + P) % P = 0
<1> DEFINE q == a \div P
           b == a + P
           e == q + 1
<1>1. q \in Int /\ a = q * P
  BY Z3
<1>2. b = (q + 1) * P
  BY <1>1, Z3
<1>3. \A x \in Int, y \in Int : x = y * P => x % P = 0
  BY Z3
<1>4. b \in Int /\ e \in Int
  BY <1>1
<1> HIDE DEF b, e, q
<1>5. b = e * P
  BY <1>2 DEF e
<1>6. b % P = 0
  BY <1>3, <1>4, <1>5
<1> QED BY <1>6 DEF b

LEMMA DrainPages ==
  ASSUME Types, Pages(k, rom, loader), loader = "run",
         NEW r \in Buffers, Room(r), NEW q \in BOOLEAN, Drain(r, q), NEW l, q => l = "done"
  PROVE  /\ Pages(k', rom', l)
         /\ k' \in Buffers /\ k'.size < Cap /\ Len(k'.tbuf) < PageSz
         /\ rom' \in Seq(0 .. FileLen) /\ SameHeader(k', r)
<1>1. Chosen /\ rom \in Seq(0 .. FileLen)
  BY DEF Types
<1>2. /\ k' \in Buffers /\ SameHeader(k', r) /\ k'.tbuf = r.tbuf
      /\ rom' \in Seq(0 .. FileLen)
      /\ target = "ROM" /\ (r.size = Cap \/ q) => k'.size = 0 /\ Len(rom') = Len(rom) + r.size
      /\ ~(target = "ROM" /\ (r.size = Cap \/ q)) => k' = r /\ rom' = rom
  BY <1>1, DrainIs
<1>3. /\ Cap \in Nat /\ Cap >= 1 /\ FileLen \in Nat /\ target \in {"RAM", "ROM"}
      /\ target = "ROM" => Cap = PageSz
      /\ target = "RAM" => Cap = FileLen + 1
  BY <1>1, Sizes
<1>4. r.size \in Nat /\ r.size <= Cap /\ r.last \in Int
  BY <1>1, BufferIs
<1>5. CASE target = "RAM"
  <2>1. k' = r /\ rom' = rom
    BY <1>2, <1>5
  <2>2. r.size <= Offset(r.last + 1) /\ Offset(r.last + 1) \in Nat /\ Offset(r.last + 1) <= FileLen
    BY <1>1, <1>4, <1>5, OffsetIs DEF Room
  <2>3. r.size < Cap
    BY <1>3, <1>4, <1>5, <2>2
  <2>4. Pages(k', rom', l)
    BY <1>5, <2>1 DEF Pages, Room
  <2> QED BY <1>2, <2>1, <2>3, <2>4 DEF Room
<1>6. CASE target = "ROM"
  <2>1. Len(rom) % PageSz = 0 /\ PageSz \in Nat /\ PageSz >= 1 /\ Len(rom) \in Nat
    BY <1>1, <1>3, <1>6, LengthIs DEF Pages
  <2>2. k'.size < Cap
    BY <1>2, <1>3, <1>4, <1>6
  <2>3. l # "done" => Len(rom') % PageSz = 0
    <3>1. CASE r.size = Cap
      <4>1. Len(rom') = Len(rom) + PageSz
        BY <1>2, <1>3, <1>6, <3>1
      <4>2. (Len(rom) + PageSz) % PageSz = 0
        BY <2>1, PageStep
      <4> QED BY <4>1, <4>2
    <3>2. CASE r.size # Cap
      BY <1>2, <2>1, <3>2
    <3> QED BY <3>1, <3>2
  <2> QED BY <1>2, <1>6, <2>2, <2>3 DEF Pages, Room
<1> QED BY <1>3, <1>5, <1>6

LEMMA MovedFits ==
  ASSUME Types, Pages(k, rom, loader)
  PROVE  Room(Moved) /\ Moved \in Buffers /\ SameHeader(Moved, k)
<1>1. /\ Chosen /\ k \in Buffers /\ Len(k.tbuf) < PageSz
  BY DEF Types
<1>2. /\ Moved \in Buffers /\ SameHeader(Moved, k) /\ Len(Moved.tbuf) <= Len(k.tbuf)
      /\ k.tbuf = << >> => Moved = k
  BY <1>1, MovedIs
<1>3. Len(Moved.tbuf) \in Nat /\ Len(k.tbuf) \in Nat /\ PageSz \in Nat
  BY <1>1, <1>2, BufferIs, Sizes
<1>4. target = "RAM" => Moved = k
  BY <1>2 DEF Pages
<1>5. Len(Moved.tbuf) < PageSz
  BY <1>1, <1>2, <1>3
<1> QED BY <1>2, <1>4, <1>5 DEF Room, Pages

LEMMA ErrorFits ==
  ASSUME Types, NEW r \in Buffers, Len(r.tbuf) < PageSz,
         target = "RAM" => r.tbuf = << >> /\ r.saved <= Offset(r.last)
  PROVE  Room(Error(r))
<1> DEFINE u == Error(r)
<1>1. /\ u.stm = "INIT" /\ u.size = r.saved /\ u.saved = r.saved
      /\ u.tbuf = r.tbuf /\ u.last = r.last
  BY ErrorIs
<1> HIDE DEF u
<1>2. /\ r.last \in Int /\ r.saved \in Nat /\ Offset(r.last) \in Nat
      /\ Offset(r.last + 1) \in Nat /\ Offset(r.last) <= Offset(r.last + 1)
  BY BufferIs, OffsetIs DEF Types
<1>3. target = "RAM" => u.size <= Offset(u.last + 1)
  BY <1>1, <1>2
<1>4. Room(u)
  BY <1>1, <1>3 DEF Room
<1> QED BY <1>4 DEF u

LEMMA StartFits ==
  ASSUME Types, Pages(k, rom, loader), k.stm = "INIT", NEW p \in Packets,
         p.n \in {k.last, k.last + 1}
  PROVE  Room(Start(Moved, p)) /\ Start(Moved, p) \in Buffers
<1> DEFINE u == Start(Moved, p)
           n == p.n
<1>1. Room(Moved) /\ Moved \in Buffers /\ SameHeader(Moved, k)
  BY MovedFits
<1>2. /\ u \in Buffers /\ u.stm = "DATA" /\ u.last = n /\ u.tbuf = Moved.tbuf
      /\ n = k.last => u.size = Moved.saved /\ u.saved = Moved.saved
      /\ n # k.last => u.size = Moved.size /\ u.saved = Moved.size
  BY <1>1, StartIs DEF SameHeader
<1>3. Chosen /\ k \in Buffers /\ Break \in Nat /\ n \in Int /\ k.last \in Int
  <2>1. Chosen /\ k \in Buffers
    BY DEF Types
  <2>2. Break \in Nat
    BY <2>1, Sizes
  <2>3. n \in 0 .. Break
    BY DEF Packets
  <2> QED BY <2>1, <2>2, <2>3, BufferIs
<1> HIDE DEF u, n
<1>4. Moved.last = k.last /\ Moved.size \in Nat /\ Moved.saved \in Nat
  BY <1>1, <1>3, BufferIs DEF SameHeader
<1>5. u.size = u.saved /\ u.saved \in Nat /\ (target = "RAM" => u.saved <= Offset(n))
  <2>1. CASE n = k.last
    BY <1>1, <1>2, <1>4, <2>1 DEF Room
  <2>2. CASE n # k.last
    <3>1. n = k.last + 1
      BY <2>2 DEF n
    <3> QED BY <1>1, <1>2, <1>4, <2>2, <3>1 DEF Room
  <2> QED BY <2>1, <2>2
<1>6. Offset(n) \in Nat /\ Offset(n + 1) \in Nat /\ Offset(n) <= Offset(n + 1)
  BY <1>3, OffsetIs
<1>7. Len(u.tbuf) < PageSz /\ (target = "RAM" => u.tbuf = << >>)
  BY <1>1, <1>2 DEF Room
<1>8. target = "RAM" => u.size <= Offset(n + 1)
  BY <1>5, <1>6
<1>9. u.size <= u.saved
  BY <1>5
<1>10. Room(u)
  BY <1>2, <1>5, <1>7, <1>8, <1>9 DEF Room
<1> QED BY <1>2, <1>10 DEF u

(* What arrives of a packet is no longer than the packet.                  *)
LEMMA PutFits ==
  ASSUME Types, Pages(k, rom, loader), k.stm = "DATA",
         NEW d \in Seq(0 .. FileLen), Len(d) <= Len(Data(k.last))
  PROVE  /\ Put(Moved, d) \in Buffers /\ SameHeader(Put(Moved, d), k)
         /\ Len(Put(Moved, d).tbuf) < PageSz
         /\ target = "RAM" => /\ Put(Moved, d).tbuf = << >>
                              /\ Put(Moved, d).saved <= Offset(k.last)
                              /\ Put(Moved, d).size <= Offset(k.last + 1)
<1> DEFINE u == Put(Moved, d)
<1>1. Chosen /\ k \in Buffers
  BY DEF Types
<1>2. Room(Moved) /\ Moved \in Buffers /\ SameHeader(Moved, k)
  BY MovedFits
<1>3. /\ u \in Buffers /\ SameHeader(u, Moved) /\ Moved.size <= u.size
      /\ u.size + Len(u.tbuf) = Moved.size + Len(d)
      /\ Moved.size + Len(d) <= Cap => u.tbuf = << >> /\ u.size = Moved.size + Len(d)
  BY <1>1, <1>2, PutIs
<1> HIDE DEF u
<1>4. /\ k.last \in Int /\ u.size \in Nat /\ Moved.size \in Nat /\ Moved.saved \in Nat
      /\ Len(u.tbuf) \in Nat /\ Len(d) \in Nat
      /\ Cap \in Nat /\ FileLen \in Nat /\ PageSz \in Nat
      /\ target = "RAM" => Cap = FileLen + 1
  BY <1>1, <1>2, <1>3, BufferIs, LengthIs, Sizes
<1>5. /\ Offset(k.last) \in Nat /\ Offset(k.last + 1) \in Nat /\ Offset(k.last + 1) <= FileLen
      /\ Len(Data(k.last)) = Offset(k.last + 1) - Offset(k.last)
      /\ Len(Data(k.last)) \in Nat /\ Len(Data(k.last)) < PageSz
  BY <1>1, <1>4, OffsetIs, DataIs
<1>6. SameHeader(u, k)
  BY <1>2, <1>3 DEF SameHeader
<1>7. Len(u.tbuf) < PageSz
  <2> DEFINE x == Len(u.tbuf)
             y == Len(d)
             z == Len(Data(k.last))
             a == Moved.size
             b == u.size
  <2>1. /\ x \in Nat /\ y \in Nat /\ z \in Nat /\ a \in Nat /\ b \in Nat
        /\ y <= z /\ z < PageSz /\ a <= b /\ b + x = a + y
    BY <1>3, <1>4, <1>5
  <2> HIDE DEF x, y, z, a, b
  <2>2. x < PageSz
    BY <1>4, <2>1
  <2> QED BY <2>2 DEF x
<1>8. ASSUME target = "RAM"
      PROVE  u.tbuf = << >> /\ u.saved <= Offset(k.last) /\ u.size <= Offset(k.last + 1)
  <2>1. Moved.size <= Moved.saved /\ Moved.saved <= Offset(k.last)
    BY <1>2, <1>8 DEF Room, SameHeader
  <2>2. Moved.size + Len(d) <= Offset(k.last + 1)
    BY <1>4, <1>5, <2>1
  <2>3. Moved.size + Len(d) <= Cap
    BY <1>4, <1>5, <1>8, <2>2
  <2>4. u.saved = Moved.saved
    BY <1>3 DEF SameHeader
  <2> QED BY <1>3, <2>1, <2>2, <2>3, <2>4
<1> QED BY <1>3, <1>6, <1>7, <1>8 DEF u

LEMMA AckFits ==
  ASSUME Types, Pages(k, rom, loader), k.stm = "DATA", NEW v,
         v = [Put(Moved, Data(k.last)) EXCEPT !.stm = "INIT"]
  PROVE  Room(v) /\ v \in Buffers /\ v.last = k.last /\ v.stm = "INIT"
<1> DEFINE d == Data(k.last)
           u == Put(Moved, d)
<1>1. d \in Seq(0 .. FileLen) /\ Len(d) <= Len(Data(k.last))
  <2>1. Chosen /\ k.last \in Int
    BY BufferIs DEF Types
  <2>2. d \in Seq(0 .. FileLen) /\ Len(d) \in Nat
    BY <2>1, DataIs
  <2> QED BY <2>2
<1>2. /\ u \in Buffers /\ SameHeader(u, k) /\ Len(u.tbuf) < PageSz
      /\ target = "RAM" => /\ u.tbuf = << >>
                           /\ u.saved <= Offset(k.last)
                           /\ u.size <= Offset(k.last + 1)
  BY <1>1, PutFits
<1> HIDE DEF u
<1>3. /\ v \in Buffers /\ v.stm = "INIT" /\ v.size = u.size
      /\ v.saved = u.saved /\ v.tbuf = u.tbuf /\ v.last = u.last
  BY <1>2, InitIs DEF u
<1> QED BY <1>2, <1>3 DEF Room, SameHeader

(* Noise in the place of a packet, which goes to the buffers first.        *)
LEMMA NoiseIs ==
  ASSUME Types, Pages(k, rom, loader), loader = "run", k.stm = "DATA",
         NEW j \in 0 .. Len(Data(k.last)), NEW r, r = Put(Moved, [i \in 1 .. j |-> Junk])
  PROVE  /\ r \in Buffers /\ SameHeader(r, k) /\ Len(r.tbuf) < PageSz
         /\ target = "RAM" => r.tbuf = << >> /\ r.saved <= Offset(r.last)
         /\ At(k, rom, k.last) /\ ~Twice(k.last) => r.tbuf = << >> /\ SameStart(r, k, k.size)
<1> DEFINE d == [i \in 1 .. j |-> Junk]
           S == 0 .. FileLen
<1>1. Chosen /\ k \in Buffers /\ k.last \in Int /\ k.size \in Nat
  BY BufferIs DEF Types
<1>2. Len(Data(k.last)) \in Nat /\ FileLen \in Nat /\ Cap \in Nat
  BY <1>1, DataIs, Sizes
<1>3. d \in Seq(S) /\ Len(d) = j
  <2>1. Junk \in S /\ j \in Nat
    BY <1>2 DEF Junk
  <2> HIDE DEF S
  <2>2. d \in [1 .. j -> S]
    BY <2>1
  <2>3. j \in Nat
    BY <2>1
  <2> HIDE DEF d
  <2> QED BY <2>2, <2>3, FunSeq, Zenon
<1> HIDE DEF d
<1>4. r = Put(Moved, d)
  BY DEF d
<1>5. Len(d) <= Len(Data(k.last))
  BY <1>2, <1>3
<1>6. /\ r \in Buffers /\ SameHeader(r, k) /\ Len(r.tbuf) < PageSz
      /\ target = "RAM" => r.tbuf = << >> /\ r.saved <= Offset(k.last)
  BY <1>3, <1>4, <1>5, PutFits
<1>7. r.last = k.last
  BY <1>6 DEF SameHeader
<1>8. ASSUME At(k, rom, k.last), ~Twice(k.last)
      PROVE  r.tbuf = << >> /\ SameStart(r, k, k.size)
  <2>1. Moved = k
    BY <1>1, <1>8, MovedIs DEF At
  <2>2. k.size + Len(Data(k.last)) < Cap
    BY <1>1, <1>8, RoomLeft
  <2>3. k.size + Len(d) <= Cap
    BY <1>1, <1>2, <1>3, <2>2
  <2> QED BY <1>1, <1>3, <1>4, <2>1, <2>3, PutIs
<1> QED BY <1>6, <1>7, <1>8

-----------------------------------------------------------------------------
(* The line. *)

LEMMA TailIs ==
  ASSUME NEW S, NEW s \in Seq(S), s # << >>
  PROVE  /\ Tail(s) \in Seq(S) /\ Len(s) \in Nat /\ Len(s) >= 1 /\ Len(Tail(s)) = Len(s) - 1
         /\ \A i \in 1 .. Len(s) - 1 : Tail(s)[i] = s[i + 1]
         /\ Head(s) = s[1] /\ Head(s) \in S
  OBVIOUS

LEMMA AppendIs ==
  ASSUME NEW S, NEW s \in Seq(S), NEW x \in S
  PROVE  /\ Append(s, x) \in Seq(S) /\ Len(s) \in Nat /\ Len(Append(s, x)) = Len(s) + 1
         /\ \A i \in 1 .. Len(s) : Append(s, x)[i] = s[i]
         /\ Append(s, x)[Len(s) + 1] = x
         /\ s # << >> => Head(Append(s, x)) = Head(s)
         /\ Append(s, x) # << >>
  OBVIOUS

LEMMA PacketIs ==
  ASSUME Chosen, NEW p \in Packets
  PROVE  p.n \in Int /\ p.n \in 0 .. Break /\ p.q \in {"ok", "head", "body", "cut"}
<1>1. p.n \in 0 .. Break /\ p.q \in {"ok", "head", "body", "cut"} /\ Break \in Nat
  BY Sizes DEF Packets
<1> QED BY <1>1

LEMMA QueuedTail ==
  ASSUME NEW d \in Seq(Packets), d # << >>, NEW l, NEW h, Queued(d, l, h)
  PROVE  Queued(Tail(d), l, h)
<1> DEFINE t == Tail(d)
<1>1. Len(d) \in Nat /\ Len(t) = Len(d) - 1 /\ \A i \in 1 .. Len(d) - 1 : t[i] = d[i + 1]
  BY TailIs
<1> HIDE DEF t
<1>2. \A i \in 1 .. Len(t) : i + 1 \in 1 .. Len(d) /\ t[i] = d[i + 1]
  BY <1>1
<1>3. \A i \in 1 .. Len(t) : l <= t[i].n /\ t[i].n <= h
  BY <1>2 DEF Queued
<1>4. ASSUME NEW i \in 1 .. Len(t), NEW j \in 1 .. Len(t), i < j
      PROVE  t[i].n <= t[j].n
  <2>1. i + 1 < j + 1
    BY <1>1, <1>4
  <2>2. d[i + 1].n <= d[j + 1].n
    BY <1>2, <2>1 DEF Queued
  <2> QED BY <1>2, <2>2
<1> QED BY <1>3, <1>4 DEF Queued, t

(* The next packet is the first of those that are on the line.             *)
LEMMA QueuedHead ==
  ASSUME Chosen, NEW d \in Seq(Packets), d # << >>, NEW l, NEW h, Queued(d, l, h)
  PROVE  /\ Head(d) \in Packets /\ l <= Head(d).n /\ Head(d).n <= h
         /\ Queued(d, Head(d).n, h)
<1>1. Len(d) \in Nat /\ Len(d) >= 1 /\ Head(d) = d[1] /\ Head(d) \in Packets
  BY TailIs
<1>2. \A i \in 1 .. Len(d) : d[i].n \in Int
  <2> TAKE i \in 1 .. Len(d)
  <2>1. d[i] \in Packets
    BY ElementIs, Zenon
  <2> QED BY <2>1, PacketIs
<1>3. 1 \in 1 .. Len(d)
  BY <1>1
<1>4. ASSUME NEW i \in 1 .. Len(d) PROVE d[1].n <= d[i].n
  <2>1. CASE i = 1
    BY <1>2, <1>3, <2>1
  <2>2. CASE 1 < i
    BY <1>3, <2>2 DEF Queued
  <2> QED BY <1>1, <2>1, <2>2
<1> QED BY <1>1, <1>3, <1>4 DEF Queued

LEMMA QueuedAppend ==
  ASSUME NEW d \in Seq(Packets), NEW l \in Int, NEW h \in Int, l <= h, Queued(d, l, h),
         NEW x \in Packets, x.n = h
  PROVE  Queued(Append(d, x), l, h)
<1> DEFINE e == Append(d, x)
           m == Len(d)
<1>1. /\ m \in Nat /\ Len(e) = m + 1 /\ \A i \in 1 .. m : e[i] = d[i]
      /\ e[m + 1] = x
  BY AppendIs
<1> HIDE DEF e
<1>2. \A i \in 1 .. Len(e) : i \in 1 .. m \/ i = m + 1
  BY <1>1
<1>3. \A i \in 1 .. m : l <= d[i].n /\ d[i].n <= h
  BY DEF Queued
<1>4. \A i \in 1 .. Len(e) : l <= e[i].n /\ e[i].n <= h
  BY <1>1, <1>2, <1>3
<1>5. ASSUME NEW i \in 1 .. Len(e), NEW j \in 1 .. Len(e), i < j
      PROVE  e[i].n <= e[j].n
  <2>1. i \in 1 .. m
    BY <1>1, <1>5
  <2>2. CASE j \in 1 .. m
    <3>1. d[i].n <= d[j].n
      BY <1>5, <2>1, <2>2 DEF Queued
    <3> QED BY <1>1, <2>1, <2>2, <3>1
  <2>3. CASE j = m + 1
    BY <1>1, <1>3, <2>1, <2>3
  <2> QED BY <1>2, <2>2, <2>3
<1> QED BY <1>4, <1>5 DEF Queued, e

LEMMA QueuedMore ==
  ASSUME Chosen, NEW d \in Seq(Packets), NEW l, NEW h \in Int, NEW g \in Int, h <= g, Queued(d, l, h)
  PROVE  Queued(d, l, g)
<1>1. \A i \in 1 .. Len(d) : d[i].n <= g
  <2> TAKE i \in 1 .. Len(d)
  <2>1. d[i] \in Packets
    BY ElementIs, Zenon
  <2>2. d[i].n \in Int /\ d[i].n <= h
    BY <2>1, PacketIs DEF Queued
  <2> QED BY <2>2
<1> QED BY <1>1 DEF Queued

(* An answer that is not lost is the last on the line.                     *)
LEMMA Replied ==
  ASSUME Types, Answered(up, acked), NEW a \in {"Y", "N"}, NEW n \in 0 .. Break, Reply(a, n),
         NEW b \in Int, acked <= b, a = "Y" => n <= b
  PROVE  up' \in Seq(Answers) /\ faults' \in 0 .. MaxFault /\ Answered(up', b)
<1>1. up \in Seq(Answers) /\ faults \in 0 .. MaxFault /\ MaxFault \in Nat /\ Break \in Nat
      /\ acked \in -1 .. Break
  BY Sizes DEF Types
<1>2. \A i \in 1 .. Len(up) : up[i].n \in Int
  <2> TAKE i \in 1 .. Len(up)
  <2>1. up[i] \in Answers
    BY <1>1, ElementIs, Zenon
  <2>2. up[i].n \in 0 .. Break
    BY <2>1 DEF Answers
  <2> QED BY <1>1, <2>2
<1>3. Answered(up, b)
  BY <1>1, <1>2 DEF Answered
<1>4. CASE up' = Append(up, [a |-> a, n |-> n]) /\ faults' = faults
  <2> DEFINE x == [a |-> a, n |-> n]
             e == Append(up, x)
             m == Len(up)
  <2>1. x \in Answers /\ x.a = a /\ x.n = n
    BY DEF Answers
  <2> HIDE DEF x
  <2>2. /\ e \in Seq(Answers) /\ m \in Nat /\ Len(e) = m + 1
        /\ \A i \in 1 .. m : e[i] = up[i]
        /\ e[m + 1] = x
    BY <1>1, <2>1, AppendIs
  <2> HIDE DEF e
  <2>3. ASSUME NEW i \in 1 .. Len(e), e[i].a = "Y" PROVE e[i].n <= b
    <3>1. CASE i \in 1 .. m
      BY <1>3, <2>2, <2>3, <3>1 DEF Answered
    <3>2. CASE i = m + 1
      BY <2>1, <2>2, <2>3, <3>2
    <3> QED BY <2>2, <3>1, <3>2
  <2>4. Answered(e, b)
    BY <2>3 DEF Answered
  <2>5. up' = e
    BY <1>4 DEF e, x
  <2> QED BY <1>1, <1>4, <2>2, <2>4, <2>5
<1>5. CASE faults < MaxFault /\ faults' = faults + 1 /\ up' = up
  <2>1. faults' \in 0 .. MaxFault
    BY <1>1, <1>5
  <2> QED BY <1>1, <1>3, <1>5, <2>1
<1> QED BY <1>4, <1>5 DEF Reply

-----------------------------------------------------------------------------
(* The actions. *)

LEMMA TurnInv ==
  ASSUME Inv, target' = target, ends' = ends,
         k' \in Buffers, k'.size < Cap, Len(k'.tbuf) < PageSz, rom' \in Seq(0 .. FileLen),
         loader' \in {"run", "done", "abort"}, acked' \in -1 .. Break,
         sn' \in 0 .. Break, sender' \in {"on", "end", "gone"},
         down' \in Seq(Packets), up' \in Seq(Answers), faults' \in 0 .. MaxFault,
         acked' \in {sn' - 1, sn'}, k'.last \in {acked', acked' + 1}, k'.last <= sn',
         Queued(down', k'.last, sn'), Answered(up', acked'), Reading',
         Pages(k', rom', loader'), Sound(k', rom', acked', loader', hit')
  PROVE  Inv'
<1>1. /\ Cap' = Cap /\ FileLen' = FileLen /\ Break' = Break
      /\ Buffers' = Buffers /\ Packets' = Packets /\ Answers' = Answers
      /\ Chosen' <=> Chosen
  BY Steady
<1>2. Types'
  <2>1. Chosen
    BY DEF Inv, Types
  <2> QED BY <1>1, <2>1, Zenon DEF Types
<1>3. Line'
  BY Zenon DEF Line, Queued, Answered
<1>4. Pages(k, rom, loader)' /\ Sound(k, rom, acked, loader, hit)'
  BY SteadySound, Zenon
<1> QED BY <1>2, <1>3, <1>4, Zenon DEF Inv

(* What the actions of the receiver take from the invariant.               *)
LEMMA TurnHas ==
  ASSUME Inv, Turn
  PROVE  /\ Types /\ Chosen /\ k \in Buffers /\ rom \in Seq(0 .. FileLen)
         /\ down \in Seq(Packets) /\ up \in Seq(Answers) /\ faults \in 0 .. MaxFault
         /\ Pages(k, rom, loader) /\ Sound(k, rom, acked, loader, hit)
         /\ loader = "run" /\ acked < Break /\ acked \in -1 .. Break
         /\ sn' = sn /\ sender' = sender /\ target' = target /\ ends' = ends
         /\ sn' \in 0 .. Break /\ sender' \in {"on", "end", "gone"}
         /\ acked \in {sn - 1, sn} /\ k.last \in {acked, acked + 1} /\ k.last <= sn
         /\ Queued(down, k.last, sn) /\ Answered(up, acked)
         /\ k.last \in Int /\ k.n \in 0 .. Break /\ acked \in Int /\ Break \in Nat
         /\ k.stm = "DATA" => k.n = k.last
<1>1. Types /\ Line /\ Reading /\ Pages(k, rom, loader) /\ Sound(k, rom, acked, loader, hit)
  BY DEF Inv
<1>2. /\ Chosen /\ k \in Buffers /\ rom \in Seq(0 .. FileLen)
      /\ down \in Seq(Packets) /\ up \in Seq(Answers) /\ faults \in 0 .. MaxFault
      /\ acked \in -1 .. Break /\ sn \in 0 .. Break /\ sender \in {"on", "end", "gone"}
  BY <1>1 DEF Types
<1>3. /\ acked \in {sn - 1, sn} /\ k.last \in {acked, acked + 1} /\ k.last <= sn
      /\ Queued(down, k.last, sn) /\ Answered(up, acked)
  BY <1>1 DEF Line
<1>4. loader = "run" /\ sn' = sn /\ sender' = sender /\ target' = target /\ ends' = ends
  BY DEF Turn
<1>5. acked < Break /\ (k.stm = "DATA" => k.n = k.last)
  BY <1>1, <1>4 DEF Reading
<1>6. k.last \in Int /\ k.n \in 0 .. Break /\ acked \in Int /\ Break \in Nat
  <2>1. k.n \in 0 .. Break
    BY <1>2 DEF Buffers
  <2>2. Break \in Nat
    BY <1>2, Sizes
  <2> QED BY <1>2, <2>1, <2>2, BufferIs
<1> QED BY <1>1, <1>2, <1>3, <1>4, <1>5, <1>6

LEMMA MoveStep ==
  ASSUME Inv, Turn, Drain(Moved, FALSE), loader' \in {"run", "abort"},
         down' = down, up' = up, faults' = faults, hit' = hit, acked' = acked
  PROVE  Inv'
<1>1. /\ Types /\ Chosen /\ k \in Buffers /\ rom \in Seq(0 .. FileLen)
      /\ down \in Seq(Packets) /\ up \in Seq(Answers) /\ faults \in 0 .. MaxFault
      /\ Pages(k, rom, loader) /\ Sound(k, rom, acked, loader, hit)
      /\ loader = "run" /\ acked < Break /\ acked \in -1 .. Break
      /\ sn' = sn /\ sender' = sender /\ target' = target /\ ends' = ends
      /\ sn' \in 0 .. Break /\ sender' \in {"on", "end", "gone"}
      /\ acked \in {sn - 1, sn} /\ k.last \in {acked, acked + 1} /\ k.last <= sn
      /\ Queued(down, k.last, sn) /\ Answered(up, acked)
  BY TurnHas
<1>2. Room(Moved) /\ Moved \in Buffers /\ SameHeader(Moved, k)
  BY <1>1, MovedFits
<1>3. /\ Pages(k', rom', loader') /\ k' \in Buffers /\ k'.size < Cap /\ Len(k'.tbuf) < PageSz
      /\ rom' \in Seq(0 .. FileLen) /\ SameHeader(k', Moved)
  <2>1. FALSE \in BOOLEAN /\ (FALSE => loader' = "done")
    OBVIOUS
  <2> QED BY <1>1, <1>2, <2>1, DrainPages
<1>4. Sound(k', rom', acked', loader', hit')
  BY <1>1, SettleSound
<1>5. k'.last = k.last /\ k'.n = k.n /\ k'.stm = k.stm /\ k'.cut = k.cut
  BY <1>2, <1>3 DEF SameHeader
<1>6. Reading'
  <2>1. /\ k.stm = "DATA" =>
             /\ k.n = k.last
             /\ ~k.cut => down # << >> /\ Head(down).n = k.n /\ Head(down).q \in {"ok", "body"}
    BY DEF Inv, Reading
  <2>2. /\ k'.stm = "DATA" =>
             /\ k'.n = k'.last
             /\ ~k'.cut => down' # << >> /\ Head(down').n = k'.n /\ Head(down').q \in {"ok", "body"}
    BY <1>5, <2>1, Zenon
  <2>3. loader' = "run" => acked' < Break'
    BY <1>1, Steady
  <2> QED BY <2>2, <2>3 DEF Reading
<1>7. loader' \in {"run", "done", "abort"} /\ acked' \in -1 .. Break
  BY <1>1
<1>8. /\ down' \in Seq(Packets) /\ up' \in Seq(Answers) /\ faults' \in 0 .. MaxFault
      /\ acked' \in {sn' - 1, sn'} /\ k'.last \in {acked', acked' + 1} /\ k'.last <= sn'
      /\ Queued(down', k'.last, sn') /\ Answered(up', acked')
  BY <1>1, <1>5, Zenon
<1> QED BY <1>1, <1>3, <1>4, <1>6, <1>7, <1>8, TurnInv, Zenon

LEMMA NakStep ==
  ASSUME Inv, Turn, NEW r \in Buffers, SameHeader(r, k), Nak(r), Len(r.tbuf) < PageSz,
         target = "RAM" => r.tbuf = << >> /\ r.saved <= Offset(r.last),
         k.stm = "INIT" => r = Moved,
         k.stm = "DATA" /\ At(k, rom, k.last) /\ ~Twice(k.last)
           => r.tbuf = << >> /\ SameStart(r, k, k.size),
         down' = down \/ (down # << >> /\ down' = Tail(down))
  PROVE  Inv'
<1>1. /\ Types /\ Chosen /\ k \in Buffers /\ rom \in Seq(0 .. FileLen)
      /\ down \in Seq(Packets)
      /\ Pages(k, rom, loader) /\ Sound(k, rom, acked, loader, hit)
      /\ loader = "run" /\ acked < Break /\ acked \in -1 .. Break
      /\ sn' = sn /\ sender' = sender /\ target' = target /\ ends' = ends
      /\ sn' \in 0 .. Break /\ sender' \in {"on", "end", "gone"}
      /\ acked \in {sn - 1, sn} /\ k.last \in {acked, acked + 1} /\ k.last <= sn
      /\ Queued(down, k.last, sn) /\ Answered(up, acked)
      /\ k.n \in 0 .. Break /\ acked \in Int /\ (k.stm = "DATA" => k.n = k.last)
  BY TurnHas
<1>2. /\ Drain(Error(r), FALSE) /\ Reply("N", r.n) /\ loader' = loader /\ acked' = acked
  BY DEF Nak
<1>3. Room(Error(r)) /\ Error(r) \in Buffers /\ Error(r).stm = "INIT" /\ Error(r).last = k.last
  BY <1>1, ErrorFits, ErrorIs DEF SameHeader
<1>4. /\ Pages(k', rom', loader') /\ k' \in Buffers /\ k'.size < Cap /\ Len(k'.tbuf) < PageSz
      /\ rom' \in Seq(0 .. FileLen) /\ SameHeader(k', Error(r))
  <2>1. FALSE \in BOOLEAN /\ (FALSE => loader' = "done")
    OBVIOUS
  <2> QED BY <1>1, <1>2, <1>3, <2>1, DrainPages
<1>5. k'.last = k.last /\ k'.stm = "INIT"
  BY <1>3, <1>4 DEF SameHeader
<1>6. Sound(k', rom', acked', loader', hit')
  BY <1>1, NakSound
<1>7. up' \in Seq(Answers) /\ faults' \in 0 .. MaxFault /\ Answered(up', acked')
  <2>1. r.n \in 0 .. Break /\ acked <= acked
    BY <1>1 DEF SameHeader
  <2>2. "N" \in {"Y", "N"} /\ ("N" = "Y" => r.n <= acked)
    OBVIOUS
  <2>3. up' \in Seq(Answers) /\ faults' \in 0 .. MaxFault /\ Answered(up', acked)
    BY <1>1, <1>2, <2>1, <2>2, Replied
  <2> QED BY <1>2, <2>3
<1>8. Reading'
  <2>1. loader' = "run" /\ acked' < Break'
    BY <1>1, <1>2, Steady
  <2> QED BY <1>5, <2>1 DEF Reading
<1>9. down' \in Seq(Packets) /\ Queued(down', k.last, sn)
  BY <1>1, TailIs, QueuedTail, Zenon
<1>10. loader' \in {"run", "done", "abort"} /\ acked' \in -1 .. Break
  BY <1>1, <1>2
<1>11. /\ acked' \in {sn' - 1, sn'} /\ k'.last \in {acked', acked' + 1} /\ k'.last <= sn'
       /\ Queued(down', k'.last, sn')
  BY <1>1, <1>2, <1>5, <1>9, Zenon
<1> QED BY <1>1, <1>4, <1>6, <1>7, <1>8, <1>9, <1>10, <1>11, TurnInv, Zenon

LEMMA AckStep ==
  ASSUME Inv, Turn, k.stm = "DATA", down # << >>, down' = Tail(down),
         Head(down).n = k.last, Ack(Moved, Head(down))
  PROVE  Inv'
<1> DEFINE p == Head(down)
           n == k.last
           v == [Put(Moved, Data(n)) EXCEPT !.stm = "INIT"]
           q == n = Break
<1>1. /\ Types /\ Chosen /\ k \in Buffers /\ rom \in Seq(0 .. FileLen)
      /\ down \in Seq(Packets)
      /\ Pages(k, rom, loader) /\ Sound(k, rom, acked, loader, hit)
      /\ loader = "run" /\ acked < Break /\ acked \in -1 .. Break
      /\ sn' = sn /\ sender' = sender /\ target' = target /\ ends' = ends
      /\ sn' \in 0 .. Break /\ sender' \in {"on", "end", "gone"}
      /\ acked \in {sn - 1, sn} /\ n \in {acked, acked + 1} /\ n <= sn
      /\ Queued(down, n, sn) /\ Answered(up, acked)
      /\ n \in Int /\ acked \in Int /\ Break \in Nat
  BY TurnHas
<1>2. p \in Packets /\ p.n = n
  BY <1>1, TailIs
<1>3. n \in 0 .. Break
  BY <1>1, <1>2, PacketIs
<1>4. /\ Drain(v, q) /\ Reply("Y", n) /\ loader' = (IF n = Break THEN "done" ELSE loader)
      /\ acked' = n
  BY <1>2 DEF Ack
<1>5. Room(v) /\ v \in Buffers /\ v.last = n /\ v.stm = "INIT"
  BY <1>1, AckFits
<1> HIDE DEF v
<1>6. /\ Pages(k', rom', loader') /\ k' \in Buffers /\ k'.size < Cap /\ Len(k'.tbuf) < PageSz
      /\ rom' \in Seq(0 .. FileLen) /\ SameHeader(k', v)
  <2>1. q \in BOOLEAN /\ (q => loader' = "done")
    BY <1>4
  <2> HIDE DEF q
  <2> QED BY <1>1, <1>4, <1>5, <2>1, DrainPages
<1>7. k'.last = n /\ k'.stm = "INIT"
  BY <1>5, <1>6 DEF SameHeader
<1>8. Sound(k', rom', acked', loader', hit')
  BY <1>1, <1>2, AckSound
<1>9. up' \in Seq(Answers) /\ faults' \in 0 .. MaxFault /\ Answered(up', acked')
  <2>1. acked <= n /\ n <= n /\ "Y" \in {"Y", "N"}
    BY <1>1
  <2>2. up' \in Seq(Answers) /\ faults' \in 0 .. MaxFault /\ Answered(up', n)
    BY <1>1, <1>3, <1>4, <2>1, Replied
  <2> QED BY <1>4, <2>2
<1>10. Reading'
  <2>1. loader' = "run" => acked' < Break'
    BY <1>1, <1>3, <1>4, Steady
  <2>2. loader' = "done" => acked' = Break' /\ k'.last = Break'
    BY <1>1, <1>4, <1>7, Steady
  <2> QED BY <1>7, <2>1, <2>2 DEF Reading
<1>11. down' \in Seq(Packets) /\ Queued(down', n, sn)
  BY <1>1, TailIs, QueuedTail, Zenon
<1>12. loader' \in {"run", "done", "abort"} /\ acked' \in -1 .. Break
  BY <1>1, <1>3, <1>4
<1>13. /\ acked' \in {sn' - 1, sn'} /\ k'.last \in {acked', acked' + 1} /\ k'.last <= sn'
       /\ Queued(down', k'.last, sn')
  <2>1. n \in {sn - 1, sn}
    <3>1. sn \in Int
      BY <1>1
    <3> QED BY <1>1, <3>1
  <2> QED BY <1>1, <1>4, <1>7, <1>11, <2>1
<1> QED BY <1>1, <1>6, <1>8, <1>9, <1>10, <1>11, <1>12, <1>13, TurnInv, Zenon

LEMMA HeaderStep ==
  ASSUME Inv, RecvHeader
  PROVE  Inv'
<1> DEFINE p == Head(down)
           n == p.n
           u == Start(Moved, p)
<1>1. Turn
  BY DEF RecvHeader
<1>2. /\ Types /\ Chosen /\ k \in Buffers /\ rom \in Seq(0 .. FileLen)
      /\ down \in Seq(Packets) /\ up \in Seq(Answers) /\ faults \in 0 .. MaxFault
      /\ Pages(k, rom, loader) /\ Sound(k, rom, acked, loader, hit)
      /\ loader = "run" /\ acked < Break /\ acked \in -1 .. Break
      /\ sn' = sn /\ sender' = sender /\ target' = target /\ ends' = ends
      /\ sn' \in 0 .. Break /\ sender' \in {"on", "end", "gone"}
      /\ acked \in {sn - 1, sn} /\ k.last \in {acked, acked + 1} /\ k.last <= sn
      /\ Queued(down, k.last, sn) /\ Answered(up, acked)
      /\ k.last \in Int /\ acked \in Int /\ Break \in Nat
  BY <1>1, TurnHas
<1>3. /\ k.stm = "INIT" /\ Fits /\ down # << >> /\ p.q # "head"
      /\ Drain(u, FALSE) /\ down' = (IF p.q = "cut" THEN Tail(down) ELSE down)
      /\ hit' = (IF n = k.last THEN hit \cup {<<"again", n>>} ELSE hit)
      /\ loader' = loader /\ up' = up /\ faults' = faults /\ acked' = acked
  BY DEF RecvHeader
<1>4. p \in Packets /\ k.last <= n /\ n <= sn /\ Queued(down, n, sn)
  BY <1>2, <1>3, QueuedHead
<1>5. n \in Int /\ p.q \in {"ok", "head", "body", "cut"}
  BY <1>2, <1>4, PacketIs
<1>6. n \in {k.last, acked + 1} /\ n \in {k.last, k.last + 1} /\ n \in {acked, acked + 1}
  <2>1. sn \in Int
    BY <1>2
  <2> HIDE DEF n
  <2> QED BY <1>2, <1>4, <1>5, <2>1
<1>7. Room(u) /\ u \in Buffers
  BY <1>2, <1>3, <1>4, <1>6, StartFits
<1>8. u.stm = "DATA" /\ u.n = n /\ u.last = n /\ u.cut = (p.q = "cut")
  <2>1. Moved \in Buffers
    BY <1>2, MovedIs
  <2> QED BY <1>4, <2>1, StartIs
<1>9. Sound(k', rom', acked', loader', hit')
  BY <1>2, <1>3, <1>4, <1>6, HeaderSound
<1> HIDE DEF u
<1>10. /\ Pages(k', rom', loader') /\ k' \in Buffers /\ k'.size < Cap /\ Len(k'.tbuf) < PageSz
       /\ rom' \in Seq(0 .. FileLen) /\ SameHeader(k', u)
  <2>1. FALSE \in BOOLEAN /\ (FALSE => loader' = "done")
    OBVIOUS
  <2> QED BY <1>2, <1>3, <1>7, <2>1, DrainPages
<1>11. k'.last = n /\ k'.n = n /\ k'.stm = "DATA" /\ k'.cut = (p.q = "cut")
  BY <1>8, <1>10 DEF SameHeader
<1>12. Reading'
  <2>1. ~k'.cut => down' # << >> /\ Head(down').n = k'.n /\ Head(down').q \in {"ok", "body"}
    <3>1. ~k'.cut => p.q # "cut"
      BY <1>11
    <3> QED BY <1>3, <1>5, <1>11, <3>1
  <2>2. loader' = "run" /\ acked' < Break'
    BY <1>2, <1>3, Steady
  <2> QED BY <1>11, <2>1, <2>2 DEF Reading
<1>13. down' \in Seq(Packets) /\ Queued(down', n, sn)
  <2>1. Tail(down) \in Seq(Packets) /\ Queued(Tail(down), n, sn)
    BY <1>2, <1>3, <1>4, TailIs, QueuedTail, Zenon
  <2> QED BY <1>2, <1>3, <1>4, <2>1
<1>14. /\ loader' \in {"run", "done", "abort"} /\ acked' \in -1 .. Break
       /\ up' \in Seq(Answers) /\ faults' \in 0 .. MaxFault /\ Answered(up', acked')
       /\ acked' \in {sn' - 1, sn'} /\ k'.last \in {acked', acked' + 1} /\ k'.last <= sn'
       /\ Queued(down', k'.last, sn')
  <2> HIDE DEF n
  <2>1. acked' = acked /\ sn' = sn /\ k'.last = n /\ up' = up /\ faults' = faults /\ loader' = "run"
    BY <1>2, <1>3, <1>11
  <2> QED BY <1>2, <1>4, <1>6, <1>13, <2>1
<1> QED BY <1>2, <1>9, <1>10, <1>12, <1>13, <1>14, TurnInv, Zenon

(* The sender's actions leave the receiver alone.                          *)
LEMMA SenderStep ==
  ASSUME Inv, target' = target, ends' = ends, k' = k, rom' = rom, hit' = hit, acked' = acked,
         loader' = loader \/ (loader = "run" /\ loader' = "abort"),
         sn' \in 0 .. Break, sender' \in {"on", "end", "gone"}, acked' \in {sn' - 1, sn'}, sn <= sn',
         down' \in Seq(Packets), up' \in Seq(Answers), faults' \in 0 .. MaxFault,
         Queued(down', k.last, sn'), Answered(up', acked),
         k.stm = "DATA" /\ ~k.cut => down' # << >> /\ (down # << >> => Head(down') = Head(down))
  PROVE  Inv'
<1>1. Types /\ Line /\ Reading /\ Pages(k, rom, loader) /\ Sound(k, rom, acked, loader, hit)
  BY DEF Inv
<1>2. /\ Chosen /\ k \in Buffers /\ k.size < Cap /\ Len(k.tbuf) < PageSz /\ rom \in Seq(0 .. FileLen)
      /\ loader \in {"run", "done", "abort"} /\ sn \in 0 .. Break /\ acked \in -1 .. Break
      /\ k.last \in {acked, acked + 1} /\ k.last <= sn
  BY <1>1 DEF Types, Line
<1>3. Break \in Nat /\ k.last \in Int /\ acked \in Int
  BY <1>2, Sizes
<1>4. Reading'
  <2>1. k'.stm = "DATA" =>
             /\ k'.n = k'.last
             /\ ~k'.cut => down' # << >> /\ Head(down').n = k'.n /\ Head(down').q \in {"ok", "body"}
    BY <1>1, Zenon DEF Reading
  <2>2. loader' = "run" => acked' < Break'
    BY <1>1, Steady DEF Reading
  <2>3. loader' = "done" => acked' = Break' /\ k'.last = Break' /\ k'.stm = "INIT"
    BY <1>1, Steady DEF Reading
  <2> QED BY <2>1, <2>2, <2>3, Zenon DEF Reading
<1>5. Pages(k', rom', loader')
  BY <1>1 DEF Pages
<1>6. Sound(k', rom', acked', loader', hit')
  <2>1. Whole(k, rom, acked, loader) => Whole(k, rom, acked, loader')
    BY DEF Whole
  <2>2. Sound(k, rom, acked, loader', hit)
    BY <1>1, <2>1, Zenon DEF Sound
  <2> QED BY <2>2, Zenon
<1>7. k'.last <= sn'
  BY <1>2, <1>3
<1>8. loader' \in {"run", "done", "abort"} /\ acked' \in -1 .. Break
  BY <1>2
<1>9. /\ k' \in Buffers /\ k'.size < Cap /\ Len(k'.tbuf) < PageSz /\ rom' \in Seq(0 .. FileLen)
      /\ k'.last \in {acked', acked' + 1} /\ Queued(down', k'.last, sn') /\ Answered(up', acked')
  BY <1>2, Zenon
<1> QED BY <1>4, <1>5, <1>6, <1>7, <1>8, <1>9, TurnInv, Zenon

LEMMA InitInv ==
  ASSUME Init
  PROVE  Inv
<1> DEFINE w == [i \in 0 .. Cap - 1 |-> Junk]
<1>1. /\ target \in Targets /\ ends \in Cuts /\ rom = << >> /\ loader = "run"
      /\ k = [mem |-> w, size |-> 0, saved |-> 0, tbuf |-> << >>, n |-> 0, last |-> -1,
              stm |-> "INIT", cut |-> FALSE]
      /\ sn = 0 /\ sender = "on" /\ down = << >> /\ up = << >> /\ faults = 0
      /\ hit = {} /\ acked = -1
  BY DEF Init
<1>2. Chosen
  BY <1>1 DEF Chosen
<1>3. /\ Break \in Nat /\ FileLen \in Nat /\ Cap \in Nat /\ Cap >= 1
      /\ PageSz \in Nat /\ PageSz >= 1 /\ MaxFault \in Nat
  BY <1>2, Sizes
<1>4. w \in [0 .. Cap - 1 -> 0 .. FileLen]
  BY <1>3 DEF Junk
<1> HIDE DEF w
<1>5. /\ k.size = 0 /\ k.saved = 0 /\ k.tbuf = << >> /\ k.last = -1 /\ k.stm = "INIT"
  BY <1>1
<1>6. k \in Buffers
  <2>1. 0 \in 0 .. Cap /\ 0 \in 0 .. Break /\ -1 \in -1 .. Break /\ << >> \in Seq(0 .. FileLen)
    BY <1>3
  <2> QED BY <1>1, <1>4, <2>1 DEF Buffers
<1>7. Types
  <2>1. Len(k.tbuf) = 0
    BY <1>5
  <2>2. k.size < Cap /\ Len(k.tbuf) < PageSz
    BY <1>3, <1>5, <2>1
  <2>3. sn \in 0 .. Break /\ acked \in -1 .. Break /\ faults \in 0 .. MaxFault
    BY <1>1, <1>3
  <2>4. rom \in Seq(0 .. FileLen) /\ down \in Seq(Packets) /\ up \in Seq(Answers)
    BY <1>1
  <2> QED BY <1>1, <1>2, <1>6, <2>2, <2>3, <2>4 DEF Types
<1>8. Line
  BY <1>1, <1>5 DEF Line, Queued, Answered
<1>9. Reading
  BY <1>1, <1>3, <1>5 DEF Reading
<1>10. Offset(-1) = 0 /\ Offset(0) = 0
  BY <1>2, OffsetStart
<1>11. Len(rom) = 0 /\ Len(k.tbuf) = 0
  BY <1>1, <1>5
<1>12. Pages(k, rom, loader)
  BY <1>1, <1>3, <1>5, <1>10, <1>11 DEF Pages
<1>13. Holds(k, rom, 0)
  BY <1>1, <1>5, <1>11 DEF Holds
<1>14. Whole(k, rom, acked, loader)
  BY <1>1, <1>5, <1>10, <1>11, <1>13 DEF Whole
<1>15. ~Begun(k, acked) /\ ~Backed(acked, hit)
  BY <1>1, <1>5 DEF Begun, Backed
<1> QED BY <1>7, <1>8, <1>9, <1>12, <1>14, <1>15, Zenon DEF Inv, Sound

LEMMA NextInv ==
  ASSUME Inv, [Next]_vars
  PROVE  Inv'
<1>1. Types /\ Line /\ Reading
  BY DEF Inv
<1>2. /\ Chosen /\ k \in Buffers /\ down \in Seq(Packets) /\ up \in Seq(Answers)
      /\ faults \in 0 .. MaxFault /\ MaxFault \in Nat /\ Break \in Nat
      /\ sn \in 0 .. Break /\ acked \in -1 .. Break /\ sender \in {"on", "end", "gone"}
      /\ acked \in {sn - 1, sn} /\ k.last <= sn /\ k.last \in Int
      /\ Queued(down, k.last, sn) /\ Answered(up, acked)
  BY <1>1, Sizes, BufferIs DEF Types, Line
<1>3. CASE Settle
  <2>1. /\ Turn /\ Drain(Moved, FALSE) /\ loader' = loader /\ down' = down /\ up' = up
        /\ faults' = faults /\ hit' = hit /\ acked' = acked
    BY <1>3 DEF Settle
  <2>2. loader' \in {"run", "abort"}
    BY <2>1 DEF Turn
  <2> QED BY <2>1, <2>2, MoveStep
<1>4. ASSUME Turn, Nak(Moved), Fits,
             down' = down \/ (down # << >> /\ down' = Tail(down))
      PROVE  Inv'
  <2>1. Types /\ Pages(k, rom, loader)
    BY DEF Inv
  <2>2. Room(Moved) /\ Moved \in Buffers /\ SameHeader(Moved, k)
    BY <2>1, MovedFits
  <2>3. At(k, rom, k.last) => Moved.tbuf = << >> /\ SameStart(Moved, k, k.size)
    BY <1>2, <1>4, MovedIs
  <2>4. Len(Moved.tbuf) < PageSz
    BY <2>2 DEF Room
  <2>5. target = "RAM" => Moved.tbuf = << >> /\ Moved.saved <= Offset(Moved.last)
    BY <2>2 DEF Room
  <2> QED BY <1>4, <2>2, <2>3, <2>4, <2>5, NakStep
<1>5. CASE RecvNoise
  BY <1>4, <1>5 DEF RecvNoise
<1>6. CASE RecvHeader
  BY <1>6, HeaderStep
<1>7. CASE RecvRest
  <2> DEFINE r == Moved
             p == Head(down)
  <2>1. Turn /\ k.stm = "DATA" /\ Fits /\ down # << >> /\ Rest(r, p) /\ down' = Tail(down)
    BY <1>7 DEF RecvRest
  <2>2. r \in Buffers /\ SameHeader(r, k)
    BY <1>2, MovedIs
  <2>3. k.n = k.last /\ r.n = k.last /\ r.cut = k.cut
    BY <1>1, <2>1, <2>2 DEF Reading, SameHeader
  <2>4. CASE r.cut \/ p.q = "body"
    <3>1. PICK j \in 0 .. Len(Data(k.last)) : Nak(Put(r, [i \in 1 .. j |-> Junk]))
      BY <2>1, <2>3, <2>4 DEF Rest
    <3> DEFINE s == Put(r, [i \in 1 .. j |-> Junk])
    <3>2. /\ s \in Buffers /\ SameHeader(s, k) /\ Len(s.tbuf) < PageSz
          /\ target = "RAM" => s.tbuf = << >> /\ s.saved <= Offset(s.last)
          /\ At(k, rom, k.last) /\ ~Twice(k.last) => s.tbuf = << >> /\ SameStart(s, k, k.size)
      <4>1. Types /\ Pages(k, rom, loader) /\ loader = "run"
        BY <2>1 DEF Inv, Turn
      <4> QED BY <2>1, <4>1, NoiseIs
    <3>3. Nak(s)
      BY <3>1
    <3>4. k.stm # "INIT"
      BY <2>1
    <3> HIDE DEF s
    <3> QED BY <2>1, <3>2, <3>3, <3>4, NakStep
  <2>5. CASE ~(r.cut \/ p.q = "body")
    <3>1. Ack(r, p)
      BY <2>1, <2>5 DEF Rest
    <3>2. p.n = k.last
      BY <1>1, <2>1, <2>3, <2>5 DEF Reading
    <3> QED BY <2>1, <3>1, <3>2, AckStep
  <2> QED BY <2>4, <2>5
<1>8. CASE CtrlC
  <2>1. Turn /\ Fits /\ down' = down
    BY <1>8 DEF CtrlC
  <2>2. CASE k.stm = "INIT"
    <3>1. /\ loader' = "abort" /\ Drain(Moved, FALSE)
          /\ up' = up /\ faults' = faults /\ hit' = hit /\ acked' = acked
      BY <1>8, <2>2 DEF CtrlC
    <3> QED BY <2>1, <3>1, MoveStep
  <2>3. CASE k.stm # "INIT"
    <3>1. Nak(Moved)
      BY <1>8, <2>3 DEF CtrlC
    <3> QED BY <1>4, <2>1, <3>1
  <2> QED BY <2>2, <2>3
<1>9. sn <= sn
  BY <1>2
<1>10. k.stm = "DATA" /\ ~k.cut => down # << >>
  BY <1>1 DEF Reading
<1>11. CASE Expire
  <2>1. /\ target' = target /\ ends' = ends /\ sn' = sn /\ sender' = sender
        /\ loader = "run" /\ loader' = "abort"
        /\ k' = k /\ rom' = rom /\ down' = down /\ up' = up /\ faults' = faults
        /\ hit' = hit /\ acked' = acked
    BY <1>11 DEF Expire, Turn
  <2> QED BY <1>2, <1>9, <1>10, <2>1, SenderStep, Zenon
<1>12. CASE Send
  <2>1. /\ target' = target /\ ends' = ends /\ k' = k /\ rom' = rom /\ loader' = loader
        /\ sn' = sn /\ sender' = sender /\ up' = up /\ hit' = hit /\ acked' = acked
    BY <1>12 DEF Send
  <2>2. faults' \in 0 .. MaxFault
    BY <1>2, <1>12 DEF Send
  <2>3. \/ down' = down
        \/ \E q \in {"ok", "head", "body", "cut"} : down' = Append(down, [n |-> sn, q |-> q])
    BY <1>12 DEF Send
  <2>4. CASE down' = down
    BY <1>2, <1>9, <1>10, <2>1, <2>2, <2>4, SenderStep, Zenon
  <2>5. CASE \E q \in {"ok", "head", "body", "cut"} : down' = Append(down, [n |-> sn, q |-> q])
    <3>1. PICK q \in {"ok", "head", "body", "cut"} : down' = Append(down, [n |-> sn, q |-> q])
      BY <2>5
    <3> DEFINE x == [n |-> sn, q |-> q]
    <3>2. x \in Packets /\ x.n = sn
      BY <1>2 DEF Packets
    <3>3. down' = Append(down, x)
      BY <3>1
    <3> HIDE DEF x
    <3>4. /\ down' \in Seq(Packets) /\ down' # << >>
          /\ down # << >> => Head(down') = Head(down)
      BY <1>2, <3>2, <3>3, AppendIs
    <3>5. Queued(down', k.last, sn)
      <4>1. sn \in Int
        BY <1>2
      <4> QED BY <1>2, <3>2, <3>3, <4>1, QueuedAppend, Zenon
    <3> QED BY <1>2, <1>9, <2>1, <2>2, <3>4, <3>5, SenderStep, Zenon
  <2> QED BY <2>3, <2>4, <2>5
<1>13. CASE Answer
  <2> DEFINE good == sender = "on" /\ Head(up) = [a |-> "Y", n |-> sn]
  <2>1. /\ target' = target /\ ends' = ends /\ k' = k /\ rom' = rom /\ loader' = loader
        /\ down' = down /\ faults' = faults /\ hit' = hit /\ acked' = acked
        /\ up # << >> /\ up' = Tail(up)
        /\ sn' = (IF good /\ sn < Break THEN sn + 1 ELSE sn)
        /\ sender' = (IF good /\ sn = Break THEN "end" ELSE sender)
    BY <1>13 DEF Answer
  <2>2. /\ up' \in Seq(Answers) /\ Len(up) \in Nat /\ Len(up) >= 1 /\ Len(up') = Len(up) - 1
        /\ \A i \in 1 .. Len(up) - 1 : up'[i] = up[i + 1]
        /\ Head(up) = up[1]
    BY <1>2, <2>1, TailIs
  <2>3. Answered(up', acked)
    <3> SUFFICES ASSUME NEW i \in 1 .. Len(up'), up'[i].a = "Y" PROVE up'[i].n <= acked
      BY DEF Answered
    <3>1. i + 1 \in 1 .. Len(up) /\ up'[i] = up[i + 1]
      BY <2>2
    <3> QED BY <1>2, <3>1 DEF Answered
  <2>4. good => sn <= acked
    <3>1. 1 \in 1 .. Len(up)
      BY <2>2
    <3>2. good => up[1].a = "Y" /\ up[1].n = sn
      BY <2>2
    <3> QED BY <1>2, <3>1, <3>2 DEF Answered
  <2>5. sender' \in {"on", "end", "gone"}
    BY <1>2, <2>1
  <2> HIDE DEF good
  <2>6. sn' \in 0 .. Break /\ acked' \in {sn' - 1, sn'} /\ sn <= sn'
    BY <1>2, <2>1, <2>4
  <2>7. Queued(down', k.last, sn')
    <3>1. sn \in Int /\ sn' \in Int
      BY <1>2, <2>6
    <3> QED BY <1>2, <2>1, <2>6, <3>1, QueuedMore
  <2>8. down' \in Seq(Packets) /\ faults' \in 0 .. MaxFault
    BY <1>2, <2>1
  <2>9. k.stm = "DATA" /\ ~k.cut => down' # << >> /\ (down # << >> => Head(down') = Head(down))
    BY <1>10, <2>1
  <2> QED BY <2>1, <2>2, <2>3, <2>5, <2>6, <2>7, <2>8, <2>9, SenderStep
<1>14. CASE GiveUp
  <2>1. /\ target' = target /\ ends' = ends /\ k' = k /\ rom' = rom /\ loader' = loader
        /\ sn' = sn /\ sender' = "gone" /\ down' = down /\ up' = up /\ faults' = faults
        /\ hit' = hit /\ acked' = acked
    BY <1>14 DEF GiveUp
  <2>2. sender' \in {"on", "end", "gone"}
    BY <2>1
  <2> QED BY <1>2, <1>9, <1>10, <2>1, <2>2, SenderStep, Zenon
<1>15. CASE UNCHANGED vars
  <2>1. /\ target' = target /\ ends' = ends /\ k' = k /\ rom' = rom /\ loader' = loader
        /\ sn' = sn /\ sender' = sender /\ down' = down /\ up' = up /\ faults' = faults
        /\ hit' = hit /\ acked' = acked
    BY <1>15 DEF vars
  <2> QED BY <1>2, <1>9, <1>10, <2>1, SenderStep, Zenon
<1> QED BY <1>3, <1>5, <1>6, <1>7, <1>8, <1>11, <1>12, <1>13, <1>14, <1>15 DEF Next, Loop

LEMMA Invariance == Spec => []Inv
<1>1. Init => Inv
  BY InitInv
<1>2. Inv /\ [Next]_vars => Inv'
  BY NextInv
<1> QED BY <1>1, <1>2, PTL DEF Spec

(* The timeout of the loader is out of step with the rest.                 *)
Patient == wait \in 0 .. FirstWait

LEMMA NextPatient == Patient /\ [Next]_vars => Patient'
<1> SUFFICES ASSUME Patient, [Next]_vars PROVE Patient'
  OBVIOUS
<1>1. /\ LaterWait \in 0 .. FirstWait /\ LaterWait - 1 \in 0 .. FirstWait
      /\ wait \in 0 .. FirstWait
      /\ (IF wait > 0 THEN wait - 1 ELSE 0) \in 0 .. FirstWait
  BY DEF Patient, LaterWait, FirstWait
<1>2. wait' \in {wait, LaterWait, LaterWait - 1, IF wait > 0 THEN wait - 1 ELSE 0}
  <2>1. ASSUME NEW a, NEW n, Reply(a, n) PROVE wait' \in {LaterWait, LaterWait - 1}
    BY <2>1 DEF Reply
  <2>2. ASSUME NEW r, Nak(r) PROVE wait' \in {LaterWait, LaterWait - 1}
    BY <2>1, <2>2 DEF Nak
  <2>3. ASSUME NEW r, NEW p, Ack(r, p) PROVE wait' \in {LaterWait, LaterWait - 1}
    BY <2>1, <2>3 DEF Ack
  <2>4. CASE RecvNoise \/ RecvRest \/ CtrlC
    BY <2>2, <2>3, <2>4 DEF RecvNoise, RecvRest, Rest, CtrlC
  <2>5. CASE Settle \/ RecvHeader \/ Expire \/ Send \/ Answer \/ GiveUp \/ UNCHANGED vars
    BY <2>5 DEF Settle, RecvHeader, Expire, Send, Answer, GiveUp, vars
  <2> QED BY <2>4, <2>5 DEF Next, Loop
<1> QED BY <1>1, <1>2 DEF Patient

LEMMA Patience == Spec => []Patient
<1>1. Init => Patient
  BY DEF Init, Patient, FirstWait
<1> QED BY <1>1, NextPatient, PTL DEF Spec

(* Types: what the buffers may hold, and how much of tbuf is in use        *)
(* (kermit.c:13-40, cmd_load.c:51-75).                                     *)
THEOREM TypeCorrect == Spec => []TypeOK
<1>1. Inv /\ Patient => TypeOK
  <2> SUFFICES ASSUME Inv, Patient PROVE TypeOK
    OBVIOUS
  <2>1. Types
    BY DEF Inv
  <2>2. /\ Chosen /\ k \in Buffers /\ k.size < Cap /\ Len(k.tbuf) < PageSz
        /\ Cap \in Nat
    BY <2>1, Sizes DEF Types
  <2>3. /\ k.mem \in [0 .. Cap - 1 -> 0 .. FileLen] /\ k.size \in 0 .. Cap
        /\ k.saved \in 0 .. Cap /\ k.tbuf \in Seq(0 .. FileLen)
        /\ k.n \in 0 .. Break /\ k.last \in -1 .. Break
        /\ k.stm \in {"INIT", "DATA"} /\ k.cut \in BOOLEAN
    BY <2>2 DEF Buffers
  <2>4. k.size \in 0 .. Cap - 1
    BY <2>2, <2>3
  <2> QED BY <2>1, <2>2, <2>3, <2>4 DEF TypeOK, Types, Chosen, Patient
<1> QED BY <1>1, Invariance, Patience, PTL

-----------------------------------------------------------------------------
(* What has arrived. *)

LEMMA SameSeq ==
  ASSUME NEW S, NEW a \in Seq(S), NEW b \in Seq(S), Len(a) = Len(b),
         \A i \in 1 .. Len(a) : a[i] = b[i]
  PROVE  a = b
  OBVIOUS

LEMMA SameStarts ==
  ASSUME NEW a, NEW b, NEW m \in Nat, \A i \in 1 .. m : a[i] = i, \A i \in 1 .. m : b[i] = i
  PROVE  SubSeq(a, 1, m) = SubSeq(b, 1, m)
<1>1. m - 1 + 1 = m /\ \A i \in 1 .. m : 1 + i - 1 = i
  OBVIOUS
<1>2. SubSeq(a, 1, m) = [i \in 1 .. m |-> a[1 + i - 1]]
  BY <1>1
<1>3. SubSeq(b, 1, m) = [i \in 1 .. m |-> b[1 + i - 1]]
  BY <1>1
<1> QED BY <1>1, <1>2, <1>3

LEMMA Arrived ==
  ASSUME Types, NEW m \in Nat, m <= FileLen, Holds(k, rom, m)
  PROVE  /\ Len(Received) = m /\ IsPrefix(Received, File)
         /\ m = FileLen => Received = File
<1> DEFINE S == 0 .. FileLen
           c == Contents
           a == rom \o c
           b == a \o k.tbuf
<1>1. /\ Chosen /\ k \in Buffers /\ rom \in Seq(S) /\ k.tbuf \in Seq(S) /\ k.size \in Nat
      /\ FileLen \in Nat /\ Cap \in Nat /\ k.size <= Cap
      /\ k.mem \in [0 .. Cap - 1 -> S]
  BY BufferIs, Sizes DEF Types, Buffers
<1>2. /\ Len(rom) + k.size + Len(k.tbuf) = m
      /\ \A i \in 1 .. Len(rom) : rom[i] = i
      /\ \A i \in 0 .. k.size - 1 : k.mem[i] = Len(rom) + i + 1
      /\ \A i \in 1 .. Len(k.tbuf) : k.tbuf[i] = Len(rom) + k.size + i
  BY DEF Holds
<1>3. Len(rom) \in Nat /\ Len(k.tbuf) \in Nat
  BY <1>1, LengthIs
<1>4. c \in Seq(S) /\ Len(c) = k.size /\ \A i \in 1 .. k.size : c[i] = Len(rom) + i
  <2>1. \A i \in 1 .. k.size : i - 1 \in 0 .. k.size - 1 /\ i - 1 \in 0 .. Cap - 1
    BY <1>1
  <2> HIDE DEF S
  <2>2. c = [i \in 1 .. k.size |-> k.mem[i - 1]]
    BY DEF Contents
  <2> HIDE DEF c
  <2>3. c \in [1 .. k.size -> S] /\ k.size \in Nat
    BY <1>1, <2>1, <2>2
  <2>4. c \in Seq(S) /\ Len(c) = k.size
    BY <2>3, FunSeq
  <2>5. \A i \in 1 .. k.size : c[i] = Len(rom) + i
    <3> TAKE i \in 1 .. k.size
    <3>1. c[i] = k.mem[i - 1] /\ k.mem[i - 1] = Len(rom) + (i - 1) + 1
      BY <1>2, <2>1, <2>2
    <3> QED BY <1>3, <3>1
  <2> QED BY <2>4, <2>5
<1> HIDE DEF S, c
<1>5. a \in Seq(S) /\ Joined(rom, c, a)
  BY <1>1, <1>4, CatIs, Zenon
<1> HIDE DEF a
<1>6. Len(a) = Len(rom) + k.size /\ \A i \in 1 .. Len(a) : a[i] = i
  <2>1. Len(a) = Len(rom) + k.size
    BY <1>4, <1>5 DEF Joined
  <2>2. ASSUME NEW i \in 1 .. Len(a) PROVE a[i] = i
    <3>1. CASE i <= Len(rom)
      BY <1>2, <1>3, <1>5, <3>1 DEF Joined
    <3>2. CASE ~(i <= Len(rom))
      <4> DEFINE j == i - Len(rom)
      <4>1. j \in 1 .. k.size /\ Len(rom) + j = i
        BY <1>1, <1>3, <2>1, <3>2
      <4> HIDE DEF j
      <4>2. a[Len(rom) + j] = c[j] /\ c[j] = Len(rom) + j
        BY <1>4, <1>5, <4>1 DEF Joined
      <4> QED BY <4>1, <4>2
    <3> QED BY <3>1, <3>2
  <2> QED BY <2>1, <2>2
<1>7. b \in Seq(S) /\ Joined(a, k.tbuf, b)
  BY <1>1, <1>5, CatIs, Zenon
<1>8. Received = b
  BY DEF Received, b, a, c
<1> HIDE DEF b
<1>9. Len(b) = m /\ \A i \in 1 .. m : b[i] = i
  <2> DEFINE x == Len(a)
             y == Len(k.tbuf)
  <2>1. x \in Nat /\ y \in Nat /\ x + y = m /\ Len(b) = x + y
    BY <1>1, <1>2, <1>3, <1>6, <1>7 DEF Joined
  <2>2. /\ \A i \in 1 .. x : b[i] = a[i]
        /\ \A i \in 1 .. y : b[x + i] = k.tbuf[i]
    BY <1>7 DEF Joined
  <2>3. \A i \in 1 .. y : k.tbuf[i] = x + i
    BY <1>2, <1>6
  <2>4. \A i \in 1 .. x : a[i] = i
    BY <1>6
  <2> HIDE DEF x, y
  <2>5. ASSUME NEW i \in 1 .. m PROVE b[i] = i
    <3>1. CASE i <= x
      BY <2>1, <2>2, <2>4, <3>1
    <3>2. CASE ~(i <= x)
      <4> DEFINE j == i - x
      <4>1. j \in 1 .. y /\ x + j = i
        BY <2>1, <3>2
      <4> HIDE DEF j
      <4>2. b[x + j] = k.tbuf[j] /\ k.tbuf[j] = x + j
        BY <2>2, <2>3, <4>1
      <4> QED BY <4>1, <4>2
    <3> QED BY <3>1, <3>2
  <2> QED BY <2>1, <2>5
<1>10. File \in Seq(S) /\ Len(File) = FileLen /\ \A i \in 1 .. FileLen : File[i] = i
  BY <1>1 DEF File, S
<1>11. IsPrefix(b, File)
  <2>1. SubSeq(b, 1, m) = SubSeq(File, 1, m)
    <3>1. \A i \in 1 .. m : i \in 1 .. FileLen
      BY <1>1
    <3>2. \A i \in 1 .. m : File[i] = i
      BY <1>10, <3>1, Zenon
    <3> QED BY <1>9, <3>2, SameStarts, Zenon
  <2> QED BY <1>9, <1>10, <2>1 DEF IsPrefix
<1>12. m = FileLen => b = File
  BY <1>7, <1>9, <1>10, SameSeq
<1> QED BY <1>8, <1>9, <1>11, <1>12

(* What has arrived is the beginning of the file, as long as no failure    *)
(* happened that the protocol cannot make good (kermit.c:169-188,          *)
(* cmd_load.c:79-104).                                                     *)
THEOREM ArrivesFaithfully == Spec => []FileFaithful
<1>1. Inv => FileFaithful
  <2> SUFFICES ASSUME Inv, Recoverable
               PROVE  /\ IsPrefix(Received, File)
                      /\ k.stm = "INIT" => Len(Received) >= Offset(sn)
                      /\ loader = "done" => Received = File
    BY DEF FileFaithful
  <2>1. Types /\ Line /\ Reading /\ Sound(k, rom, acked, loader, hit)
    BY DEF Inv
  <2>2. /\ Chosen /\ k.last \in Int /\ acked \in Int /\ sn \in Int
        /\ acked \in {sn - 1, sn} /\ k.last \in {acked, acked + 1}
        /\ Break \in Nat /\ Len(ends) \in Nat /\ Break = Len(ends) + 3
    BY <2>1, Sizes, BufferIs DEF Types, Line
  <2>3. ~Lost(hit) /\ ~Stale(k, hit) /\ ~Backed(acked, hit)
    <3>1. ASSUME NEW h \in hit, h[1] = "again", Twice(h[2]) PROVE FALSE
      BY <3>1 DEF Recoverable, Twice, FillsPage
    <3>2. ASSUME NEW h \in hit, h[1] = "back", IsData(h[2]) PROVE FALSE
      BY <3>2 DEF Recoverable
    <3>3. ~Backed(acked, hit)
      <4>1. <<"back", acked>>[1] = "back" /\ <<"back", acked>>[2] = acked
        OBVIOUS
      <4> QED BY <3>2, <4>1, Zenon DEF Backed
    <3> QED BY <3>1, <3>2, <3>3, Zenon DEF Lost, Stale
  <2>4. CASE Begun(k, acked)
    <3>1. Holds(k, rom, Offset(k.last))
      BY <2>1, <2>3, <2>4 DEF Sound, At
    <3>2. Offset(k.last) \in Nat /\ Offset(k.last) <= FileLen
      BY <2>2, OffsetIs
    <3>3. Len(Received) = Offset(k.last) /\ IsPrefix(Received, File)
      BY <2>1, <3>1, <3>2, Arrived
    <3>4. k.stm = "INIT" => Offset(k.last) >= Offset(sn)
      <4> SUFFICES ASSUME k.stm = "INIT" PROVE Offset(k.last) >= Offset(sn)
        OBVIOUS
      <4>1. k.last = acked + 1
        BY <2>2, <2>4 DEF Begun
      <4>2. acked = sn \/ acked + 1 = sn
        BY <2>2
      <4>3. Offset(acked) \in Nat /\ Offset(acked + 1) \in Nat /\ Offset(acked) <= Offset(acked + 1)
        BY <2>2, OffsetIs
      <4> QED BY <4>1, <4>2, <4>3
    <3>5. loader # "done"
      BY <2>1, <2>4 DEF Reading, Begun
    <3> QED BY <3>3, <3>4, <3>5
  <2>5. CASE ~Begun(k, acked)
    <3>1. Holds(k, rom, Offset(acked + 1))
      BY <2>1, <2>3, <2>5 DEF Sound, Whole
    <3>2. /\ Offset(acked + 1) \in Nat /\ Offset(acked + 1) <= FileLen
          /\ Offset(acked) \in Nat /\ Offset(acked) <= Offset(acked + 1)
      BY <2>2, OffsetIs
    <3>3. /\ Len(Received) = Offset(acked + 1) /\ IsPrefix(Received, File)
          /\ Offset(acked + 1) = FileLen => Received = File
      BY <2>1, <3>1, <3>2, Arrived
    <3>4. Offset(acked + 1) >= Offset(sn)
      <4>1. acked = sn \/ acked + 1 = sn
        BY <2>2
      <4> QED BY <3>2, <4>1
    <3>5. loader = "done" => Offset(acked + 1) = FileLen
      <4> SUFFICES ASSUME loader = "done" PROVE Offset(acked + 1) = FileLen
        OBVIOUS
      <4>1. acked = Break
        BY <2>1 DEF Reading
      <4>2. acked >= Break
        BY <2>2, <4>1
      <4>3. Offset(acked) = FileLen
        BY <2>2, <4>2, OffsetIs
      <4>4. ~IsData(acked)
        BY <2>2, <4>1 DEF IsData
      <4> QED BY <2>2, <4>3, <4>4, OffsetIs
    <3> QED BY <3>3, <3>4, <3>5
  <2> QED BY <2>4, <2>5
<1> QED BY <1>1, Invariance, PTL
=============================================================================
