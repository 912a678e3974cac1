----------------------------- MODULE IrtVmProofs -----------------------------
(***************************************************************************)
(* Theorems about IrtVm, for any relay lists, queue size, group sizes and  *)
(* number of commands and errors: type correctness, whole frames, that the *)
(* machine implements RelayOrder, and for lists whose ranges run forward   *)
(* that groups and *OPC? are exact.                                        *)
(*                                                                         *)
(* Its parts in order: induction on numbers; FlattenSeq;                   *)
(* what Fetched and Actions give for a sequence that is put together;      *)
(* the opcodes of a relay list; the invariant, action by action; the       *)
(* refinement; forward lists.                                              *)
(***************************************************************************)
EXTENDS IrtVm, SequenceTheorems, WellFoundedInduction, TLAPS

-----------------------------------------------------------------------------
(* Induction over data: a set of numbers that is not empty has a least one. *)

LEMMA LeastNumber ==
  ASSUME NEW T \in SUBSET Nat, T # {}
  PROVE  \E n \in T : \A m \in T : n <= m
<1> DEFINE R == OpToRel(<, Nat)
<1>1. IsWellFoundedOn(R, Nat)
  BY NatLessThanWellFounded
<1>2. \A x \in Nat, y \in Nat : y < x => <<y, x>> \in R
  BY DEF OpToRel
<1> HIDE DEF R
<1>3. PICK x \in T : \A y \in T : ~(<<y, x>> \in R)
  BY <1>1, WFMin
<1>4. ASSUME NEW m \in T
      PROVE  x <= m
  <2>1. ~(<<m, x>> \in R)
    BY <1>3
  <2>2. x \in Nat /\ m \in Nat
    OBVIOUS
  <2>3. ~(m < x)
    BY <1>2, <2>1, <2>2, Zenon
  <2> QED BY <2>2, <2>3
<1> QED BY <1>4

(* A set of numbers with 0 that has the successor of each member has all.  *)
LEMMA AllNumbers ==
  ASSUME NEW T, 0 \in T, \A n \in Nat : n \in T => n + 1 \in T
  PROVE  Nat \subseteq T
<1> DEFINE U == Nat \ T
<1>1. CASE U # {}
  <2>1. PICK n \in U : \A m \in U : n <= m
    BY <1>1, LeastNumber
  <2>2. n \in Nat /\ n # 0
    OBVIOUS
  <2>3. n - 1 \in Nat /\ n - 1 \notin U
    BY <2>1, <2>2
  <2>4. (n - 1) + 1 \in T
    BY <2>3
  <2> QED BY <2>2, <2>4
<1>2. CASE U = {}
  BY <1>2
<1> QED BY <1>1, <1>2

-----------------------------------------------------------------------------
(* Sequences: what is said of concatenation, on its own. *)

LEMMA CatSeq ==
  ASSUME NEW S, NEW a \in Seq(S), NEW b \in Seq(S)
  PROVE  /\ a \o b \in Seq(S) /\ Len(a \o b) = Len(a) + Len(b)
         /\ \A i \in 1 .. Len(a) : (a \o b)[i] = a[i]
         /\ \A i \in 1 .. Len(b) : (a \o b)[Len(a) + i] = b[i]
  OBVIOUS

LEMMA CatAssoc ==
  ASSUME NEW S, NEW a \in Seq(S), NEW b \in Seq(S), NEW c \in Seq(S)
  PROVE  (a \o b) \o c = a \o (b \o c)
  OBVIOUS

(* The same behind names, which spares the provers the search for terms.   *)
Assoc(a, b, c) == (a \o b) \o c = a \o (b \o c)
Joined(a, b, d) ==
  /\ Len(d) = Len(a) + Len(b)
  /\ \A i \in 1 .. Len(a) : d[i] = a[i]
  /\ \A i \in 1 .. Len(b) : d[Len(a) + i] = b[i]

LEMMA CatAssocs ==
  ASSUME NEW S, NEW a \in Seq(S), NEW b \in Seq(S), NEW c \in Seq(S)
  PROVE  Assoc(a, b, c)
  BY CatAssoc DEF Assoc

LEMMA CatJoined ==
  ASSUME NEW S, NEW a \in Seq(S), NEW b \in Seq(S)
  PROVE  a \o b \in Seq(S) /\ Joined(a, b, a \o b)
  BY CatSeq DEF Joined

LEMMA CatEmpty ==
  ASSUME NEW S, NEW a \in Seq(S)
  PROVE  a \o << >> = a /\ << >> \o a = a
  OBVIOUS

LEMMA OneSeq ==
  ASSUME NEW S, NEW x \in S
  PROVE  <<x>> \in Seq(S) /\ Len(<<x>>) = 1 /\ <<x>>[1] = x /\ <<x>> # << >>
  OBVIOUS

LEMMA CatOne ==
  ASSUME NEW S, NEW a \in Seq(Seq(S)), NEW b \in Seq(Seq(S)), NEW x \in Seq(S)
  PROVE  (a \o b) \o <<x>> = a \o (b \o <<x>>)
<1>1. <<x>> \in Seq(Seq(S))
  BY OneSeq
<1> QED BY <1>1, CatAssoc

LEMMA TwoSeq ==
  ASSUME NEW S, NEW x \in S, NEW y \in S
  PROVE  /\ <<x, y>> \in Seq(S) /\ Len(<<x, y>>) = 2
         /\ <<x, y>>[1] = x /\ <<x, y>>[2] = y /\ <<x, y>> # << >>
  OBVIOUS

LEMMA SameSeq ==
  ASSUME NEW S, NEW a \in Seq(S), NEW b \in Seq(S), Len(a) = Len(b),
         \A i \in 1 .. Len(a) : a[i] = b[i]
  PROVE  a = b
  OBVIOUS

LEMMA CatIs ==
  ASSUME NEW S, NEW a \in Seq(S), NEW b \in Seq(S), NEW c \in Seq(S),
         Len(c) = Len(a) + Len(b),
         \A i \in 1 .. Len(a) : c[i] = a[i],
         \A i \in 1 .. Len(b) : c[Len(a) + i] = b[i]
  PROVE  a \o b = c
  OBVIOUS

LEMMA FirstRest ==
  ASSUME NEW S, NEW a \in Seq(S), a # << >>
  PROVE  /\ Head(a) \in S /\ Head(a) = a[1] /\ Tail(a) \in Seq(S)
         /\ Len(a) \in Nat /\ Len(a) >= 1 /\ Len(Tail(a)) = Len(a) - 1
         /\ \A i \in 1 .. Len(Tail(a)) : Tail(a)[i] = a[i + 1]
         /\ a = <<Head(a)>> \o Tail(a)
  OBVIOUS

LEMMA FrontLast ==
  ASSUME NEW S, NEW a \in Seq(S), a # << >>
  PROVE  \E b \in Seq(S), x \in S :
           /\ a = b \o <<x>> /\ Len(b) = Len(a) - 1 /\ x = a[Len(a)]
           /\ \A i \in 1 .. Len(b) : b[i] = a[i]
<1> DEFINE b == [i \in 1 .. Len(a) - 1 |-> a[i]]
<1>1. Len(a) \in Nat /\ Len(a) >= 1 /\ a[Len(a)] \in S
  OBVIOUS
<1>2. b \in Seq(S) /\ Len(b) = Len(a) - 1 /\ \A i \in 1 .. Len(b) : b[i] = a[i]
  BY <1>1
<1> HIDE DEF b
<1>3. a = b \o <<a[Len(a)]>>
  <2> DEFINE c == <<a[Len(a)]>>
             d == b \o c
  <2>1. c \in Seq(S) /\ Len(c) = 1 /\ c[1] = a[Len(a)]
    BY <1>1
  <2> HIDE DEF c
  <2>2. d \in Seq(S) /\ Joined(b, c, d)
    BY <1>2, <2>1, CatJoined, Zenon
  <2>3. Len(d) = Len(a) /\ d[Len(a)] = a[Len(a)]
    <3>1. 1 \in 1 .. Len(c)
      BY <2>1
    <3>2. d[Len(b) + 1] = c[1] /\ Len(b) + 1 = Len(a)
      BY <1>1, <1>2, <2>2, <3>1 DEF Joined
    <3>3. Len(d) = Len(b) + Len(c)
      BY <2>2 DEF Joined
    <3> QED BY <1>1, <1>2, <2>1, <3>2, <3>3
  <2> HIDE DEF d
  <2>4. \A i \in 1 .. Len(a) : d[i] = a[i]
    BY <1>1, <1>2, <2>2, <2>3 DEF Joined
  <2>5. d = a
    BY <2>2, <2>3, <2>4, SameSeq
  <2> QED BY <2>5 DEF c, d
<1> QED BY <1>1, <1>2, <1>3

-----------------------------------------------------------------------------
(* FlattenSeq, which the operators of IrtVm are made of, adds the parts up *)
(* from the left.                                                          *)

Adds(f, ss) ==
  f = [i \in 1 .. Len(ss) |-> IF i = 1 THEN ss[i] ELSE f[i - 1] \o ss[i]]

LEMMA AddsAt ==
  ASSUME NEW f, NEW ss, Adds(f, ss), NEW i \in 1 .. Len(ss)
  PROVE  f[i] = IF i = 1 THEN ss[i] ELSE f[i - 1] \o ss[i]
<1> DEFINE Part(j) == IF j = 1 THEN ss[j] ELSE f[j - 1] \o ss[j]
           D == 1 .. Len(ss)
<1>1. f = [j \in D |-> Part(j)]
  BY DEF Adds
<1> HIDE DEF Part, D
<1>2. \A j \in D : f[j] = Part(j)
  BY <1>1
<1>3. f[i] = Part(i)
  BY <1>2 DEF D
<1> QED BY <1>3 DEF Part

LEMMA AddsUnique ==
  ASSUME NEW ss, Len(ss) \in Nat, NEW f, Adds(f, ss), NEW g, Adds(g, ss),
         NEW k \in 1 .. Len(ss)
  PROVE  f[k] = g[k]
<1> DEFINE T == {n \in Nat : n \in 1 .. Len(ss) => f[n] = g[n]}
<1>1. 0 \in T
  OBVIOUS
<1>2. \A n \in Nat : n \in T => n + 1 \in T
  <2> TAKE n \in Nat
  <2>1. CASE n + 1 \in 1 .. Len(ss)
    <3>1. f[n + 1] = IF n + 1 = 1 THEN ss[n + 1] ELSE f[(n + 1) - 1] \o ss[n + 1]
      BY <2>1, AddsAt
    <3>2. g[n + 1] = IF n + 1 = 1 THEN ss[n + 1] ELSE g[(n + 1) - 1] \o ss[n + 1]
      BY <2>1, AddsAt
    <3>3. (n + 1) - 1 = n /\ (n + 1 # 1 => n \in 1 .. Len(ss))
      BY <2>1
    <3> QED BY <3>1, <3>2, <3>3
  <2>2. CASE n + 1 \notin 1 .. Len(ss)
    BY <2>2
  <2> QED BY <2>1, <2>2
<1> HIDE DEF T
<1>3. Nat \subseteq T
  BY <1>1, <1>2, AllNumbers
<1>4. k \in T
  BY <1>3
<1> QED BY <1>4 DEF T

LEMMA FlattenIs ==
  ASSUME NEW ss, Len(ss) \in Nat \ {0}, NEW f, Adds(f, ss)
  PROVE  FlattenSeq(ss) = f[Len(ss)]
<1> DEFINE g == CHOOSE h : Adds(h, ss)
<1>1. Adds(g, ss)
  OBVIOUS
<1>2. FlattenSeq(ss) = g[Len(ss)]
  BY DEF FlattenSeq, Adds
<1> HIDE DEF g
<1>3. f[Len(ss)] = g[Len(ss)]
  BY <1>1, AddsUnique
<1> QED BY <1>2, <1>3


LEMMA FlattenEmpty == FlattenSeq(<< >>) = << >>
  BY DEF FlattenSeq

(* The parts are added up by some function, whose values are sequences.    *)
LEMMA AddsExists ==
  ASSUME NEW S, NEW ss \in Seq(Seq(S))
  PROVE  \E f \in [1 .. Len(ss) -> Seq(S)] : Adds(f, ss)
<1> DEFINE Part(f, i) == IF i = 1 THEN ss[i] ELSE f[i - 1] \o ss[i]
           Good(f, n) == /\ f \in [1 .. n -> Seq(S)]
                         /\ f = [i \in 1 .. n |-> Part(f, i)]
           T == {n \in Nat : n <= Len(ss) => \E f : Good(f, n)}
<1>1. Len(ss) \in Nat /\ \A i \in 1 .. Len(ss) : ss[i] \in Seq(S)
  OBVIOUS
<1>2. 0 \in T
  <2>1. Good([i \in 1 .. 0 |-> << >>], 0)
    OBVIOUS
  <2> QED BY <2>1
<1> HIDE DEF Good
<1>3. ASSUME NEW n \in Nat, n \in T
      PROVE  n + 1 \in T
  <2> SUFFICES ASSUME n + 1 <= Len(ss)
               PROVE  \E f : Good(f, n + 1)
    OBVIOUS
  <2>1. PICK f : Good(f, n)
    BY <1>1, <1>3
  <2> DEFINE x == Part(f, n + 1)
             g == [i \in 1 .. n + 1 |-> IF i = n + 1 THEN x ELSE f[i]]
  <2>2. x \in Seq(S)
    <3>1. CASE n = 0
      BY <1>1, <3>1
    <3>2. CASE n # 0
      <4>1. f[n] \in Seq(S) /\ ss[n + 1] \in Seq(S)
        BY <1>1, <2>1, <3>2 DEF Good
      <4>2. x = f[n] \o ss[n + 1]
        <5>1. (n + 1) - 1 = n /\ n + 1 # 1
          BY <3>2
        <5> QED BY <5>1, Zenon
      <4> QED BY <4>1, <4>2, CatSeq
    <3> QED BY <3>1, <3>2
  <2>3. \A i \in 1 .. n : f[i] = Part(f, i) /\ f[i] \in Seq(S)
    <3> HIDE DEF Part
    <3> QED BY <2>1 DEF Good
  <2>4. \A i \in 1 .. n + 1 : Part(g, i) = Part(f, i)
    BY <1>1
  <2>5. \A i \in 1 .. n + 1 : g[i] = Part(g, i) /\ g[i] \in Seq(S)
    <3> HIDE DEF Part
    <3>1. \A i \in 1 .. n + 1 : g[i] = IF i = n + 1 THEN x ELSE f[i]
      OBVIOUS
    <3> HIDE DEF g
    <3>2. \A i \in 1 .. n + 1 : i = n + 1 \/ i \in 1 .. n
      OBVIOUS
    <3> QED BY <2>2, <2>3, <2>4, <3>1, <3>2
  <2>6. g = [i \in 1 .. n + 1 |-> g[i]]
    OBVIOUS
  <2> HIDE DEF g, Part
  <2>7. Good(g, n + 1)
    BY <2>5, <2>6 DEF Good
  <2> QED BY <2>7
<1>4. Nat \subseteq T
  <2> HIDE DEF T
  <2> QED BY <1>2, <1>3, AllNumbers
<1>5. Len(ss) \in T
  BY <1>1, <1>4
<1>6. PICK f : Good(f, Len(ss))
  BY <1>1, <1>5
<1> QED BY <1>6 DEF Adds, Good

LEMMA FlattenAppend ==
  ASSUME NEW S, NEW ss \in Seq(Seq(S)), NEW x \in Seq(S)
  PROVE  /\ FlattenSeq(ss) \in Seq(S)
         /\ FlattenSeq(ss \o <<x>>) = FlattenSeq(ss) \o x
<1>1. Len(ss) \in Nat
  OBVIOUS
<1>2. PICK f \in [1 .. Len(ss) -> Seq(S)] : Adds(f, ss)
  BY AddsExists
<1>3. /\ FlattenSeq(ss) \in Seq(S)
      /\ ss = << >> => FlattenSeq(ss) = << >>
      /\ ss # << >> => FlattenSeq(ss) = f[Len(ss)]
  <2>1. CASE ss = << >>
    <3>1. FlattenSeq(ss) = << >>
      BY <2>1, FlattenEmpty, Zenon
    <3>2. << >> \in Seq(S)
      OBVIOUS
    <3> QED BY <2>1, <3>1, <3>2, Zenon
  <2>2. CASE ss # << >>
    <3>1. Len(ss) \in Nat \ {0}
      BY <2>2
    <3>2. FlattenSeq(ss) = f[Len(ss)]
      BY <1>2, <3>1, FlattenIs
    <3>3. f[Len(ss)] \in Seq(S)
      <4>1. Len(ss) \in 1 .. Len(ss)
        BY <3>1
      <4> QED BY <1>2, <4>1
    <3> QED BY <2>2, <3>2, <3>3, Zenon
  <2> QED BY <2>1, <2>2
<1> DEFINE tt == ss \o <<x>>
<1>4. /\ tt \in Seq(Seq(S)) /\ Len(tt) = Len(ss) + 1
      /\ \A i \in 1 .. Len(ss) : tt[i] = ss[i]
      /\ tt[Len(ss) + 1] = x
  OBVIOUS
<1> HIDE DEF tt
<1>5. PICK g \in [1 .. Len(tt) -> Seq(S)] : Adds(g, tt)
  BY <1>4, AddsExists
<1>6. FlattenSeq(tt) = g[Len(ss) + 1]
  <2>1. Len(tt) \in Nat \ {0}
    BY <1>1, <1>4
  <2> QED BY <1>4, <1>5, <2>1, FlattenIs
<1>7. CASE ss = << >>
  <2>1. Len(ss) = 0 /\ 1 \in 1 .. Len(tt)
    BY <1>4, <1>7
  <2>2. g[1] = tt[1]
    BY <1>5, <2>1, AddsAt
  <2>3. << >> \o x = x
    BY CatEmpty
  <2> QED BY <1>3, <1>4, <1>6, <1>7, <2>1, <2>2, <2>3 DEF tt
<1>8. CASE ss # << >>
  <2> DEFINE h == [i \in 1 .. Len(ss) |-> g[i]]
             n == Len(ss)
  <2>1. n \in Nat \ {0} /\ n + 1 \in 1 .. Len(tt) /\ n + 1 # 1 /\ (n + 1) - 1 = n
    BY <1>1, <1>4, <1>8
  <2>2. \A i \in 1 .. n : g[i] = IF i = 1 THEN ss[i] ELSE g[i - 1] \o ss[i]
    <3> TAKE i \in 1 .. n
    <3>1. i \in 1 .. Len(tt) /\ tt[i] = ss[i]
      BY <1>1, <1>4
    <3>2. g[i] = IF i = 1 THEN tt[i] ELSE g[i - 1] \o tt[i]
      BY <1>5, <3>1, AddsAt
    <3> QED BY <3>1, <3>2, Zenon
  <2>3. \A i \in 1 .. n : h[i] = g[i] /\ (i # 1 => h[i - 1] = g[i - 1])
    BY <1>1
  <2>4. Adds(h, ss)
    <3>1. h = [i \in 1 .. n |-> IF i = 1 THEN ss[i] ELSE h[i - 1] \o ss[i]]
      BY <2>2, <2>3
    <3> QED BY <3>1 DEF Adds
  <2>5. h[n] = f[n] /\ h[n] = g[n]
    <3>1. n \in 1 .. Len(ss)
      BY <2>1
    <3> HIDE DEF h
    <3> QED BY <1>1, <1>2, <2>3, <2>4, <3>1, AddsUnique
  <2>6. g[n + 1] = g[n] \o tt[n + 1]
    <3> DEFINE m == n + 1
    <3>1. m \in 1 .. Len(tt) /\ m # 1 /\ m - 1 = n
      BY <2>1
    <3> HIDE DEF m, n
    <3>2. g[m] = IF m = 1 THEN tt[m] ELSE g[m - 1] \o tt[m]
      BY <1>5, <3>1, AddsAt
    <3>3. g[m] = g[n] \o tt[m]
      BY <3>1, <3>2, Zenon
    <3> QED BY <3>3 DEF m
  <2> QED BY <1>3, <1>4, <1>6, <1>8, <2>5, <2>6 DEF tt
<1> QED BY <1>3, <1>7, <1>8 DEF tt


LEMMA FlattenCat ==
  ASSUME NEW S, NEW a \in Seq(Seq(S)), NEW b \in Seq(Seq(S))
  PROVE  FlattenSeq(a \o b) = FlattenSeq(a) \o FlattenSeq(b)
<1> DEFINE Splits(c) == FlattenSeq(a \o c) = FlattenSeq(a) \o FlattenSeq(c)
           T == {n \in Nat : \A c \in Seq(Seq(S)) : Len(c) = n => Splits(c)}
<1>1. 0 \in T
  <2> SUFFICES ASSUME NEW c \in Seq(Seq(S)), Len(c) = 0
               PROVE  Splits(c)
    OBVIOUS
  <2>1. c = << >>
    OBVIOUS
  <2>2. FlattenSeq(a) \in Seq(S)
    <3>1. << >> \in Seq(S)
      OBVIOUS
    <3> QED BY <3>1, FlattenAppend
  <2>3. a \o << >> = a
    BY CatEmpty
  <2>4. FlattenSeq(a) \o << >> = FlattenSeq(a)
    BY <2>2, CatEmpty
  <2> QED BY <2>1, <2>3, <2>4, FlattenEmpty, Zenon
<1>2. ASSUME NEW n \in Nat, n \in T
      PROVE  n + 1 \in T
  <2> SUFFICES ASSUME NEW c \in Seq(Seq(S)), Len(c) = n + 1
               PROVE  Splits(c)
    <3> HIDE DEF Splits
    <3> QED OBVIOUS
  <2>1. c # << >>
    OBVIOUS
  <2>2. PICK d \in Seq(Seq(S)), x \in Seq(S) :
          c = d \o <<x>> /\ Len(d) = Len(c) - 1
    BY <2>1, FrontLast
  <2>3. Splits(d)
    <3> HIDE DEF Splits
    <3>1. Len(d) = n
      BY <2>2
    <3> QED BY <1>2, <3>1
  <2>4. a \o d \in Seq(Seq(S)) /\ <<x>> \in Seq(Seq(S))
    BY CatSeq, OneSeq
  <2>5. FlattenSeq(a) \in Seq(S) /\ FlattenSeq(d) \in Seq(S)
    BY FlattenAppend
  <2>6. (a \o d) \o <<x>> = a \o (d \o <<x>>)
    <3>1. Assoc(a, d, <<x>>)
      BY <2>4, CatAssocs, Zenon
    <3> QED BY <3>1, Zenon DEF Assoc
  <2>7. FlattenSeq((a \o d) \o <<x>>) = FlattenSeq(a \o d) \o x
    BY <2>4, FlattenAppend
  <2>8. FlattenSeq(d \o <<x>>) = FlattenSeq(d) \o x
    BY FlattenAppend
  <2>9. (FlattenSeq(a) \o FlattenSeq(d)) \o x = FlattenSeq(a) \o (FlattenSeq(d) \o x)
    <3>1. Assoc(FlattenSeq(a), FlattenSeq(d), x)
      BY <2>5, CatAssocs, Zenon
    <3> QED BY <3>1, Zenon DEF Assoc
  <2> QED BY <2>2, <2>3, <2>6, <2>7, <2>8, <2>9, Zenon
<1> HIDE DEF T
<1>3. Nat \subseteq T
  BY <1>1, <1>2, AllNumbers
<1>4. Len(b) \in T
  BY <1>3
<1> QED
  <2> HIDE DEF Splits
  <2>1. Splits(b)
    BY <1>4 DEF T
  <2> QED BY <2>1 DEF Splits

LEMMA FlattenType ==
  ASSUME NEW S, NEW ss \in Seq(Seq(S))
  PROVE  FlattenSeq(ss) \in Seq(S)
<1>1. << >> \in Seq(S)
  OBVIOUS
<1> QED BY <1>1, FlattenAppend

LEMMA FlattenOne ==
  ASSUME NEW S, NEW x \in Seq(S)
  PROVE  FlattenSeq(<<x>>) = x
<1>1. << >> \in Seq(Seq(S)) /\ << >> \o <<x>> = <<x>> /\ << >> \o x = x
  BY OneSeq, CatEmpty
<1>2. FlattenSeq(<< >> \o <<x>>) = FlattenSeq(<< >>) \o x
  BY <1>1, FlattenAppend
<1> QED BY <1>1, <1>2, FlattenEmpty, Zenon

-----------------------------------------------------------------------------
(* Points and ranges. *)

LEMMA Stopped ==
  /\ NBus \in Nat /\ NBus > 0 /\ QCap \in Nat /\ QCap > 0
  /\ Types \subseteq RelayTypes /\ Arms \subseteq Nat \ {0}
  /\ Lists \subseteq Seq(Entry)
  BY IrtVmAssumption

LEMMA LineShift ==
  ASSUME NEW p \in Int, NEW k \in Int
  PROVE  Line(p + k * NBus) = Line(p) + k
<1> DEFINE d == p \div NBus
           r == p % NBus
<1>1. NBus \in Nat /\ NBus > 0
  BY IrtVmAssumption
<1>2. d \in Int /\ r \in 0 .. NBus - 1 /\ p = d * NBus + r
  BY <1>1
<1> HIDE DEF d, r
<1>3. p + k * NBus = (d + k) * NBus + r
  BY <1>1, <1>2
<1>4. \A q \in Int, e \in Int : q = e * NBus + r => q \div NBus = e
  BY <1>1, <1>2
<1> QED BY <1>1, <1>2, <1>3, <1>4 DEF Line, d


LEMMA OpType ==
  /\ Nul \in Ops /\ Nul.type = "NULL" /\ Nul.p = 0
  /\ \A t \in RelayTypes \cup {"SEQU", "GRUP", "WAIT", "NULL"}, p \in Int :
       Op(t, p) \in Ops /\ Op(t, p).type = t /\ Op(t, p).p = p
  /\ \A x \in Ops : x.type \in RelayTypes \cup {"SEQU", "GRUP", "WAIT", "NULL"}
                    /\ x.p \in Int /\ x = Op(x.type, x.p)
  BY DEF Ops, Op, Nul

LEMMA KindType ==
  ASSUME NEW t \in RelayTypes \cup {"SEQU", "GRUP"}, NEW p \in Int
  PROVE  Op(t, p) \in Ops /\ Op(t, p).type = t /\ Op(t, p).p = p
<1>1. t \in RelayTypes \cup {"SEQU", "GRUP", "WAIT", "NULL"}
  OBVIOUS
<1> QED BY <1>1, OpType, Zenon

LEMMA SpanType ==
  ASSUME NEW t, NEW p \in Int, NEW q \in Int
  PROVE  Span(t, p, q) \in Int /\ Stride(t) \in Nat /\ Stride(t) > 0
<1>1. NBus \in Nat /\ NBus > 0
  BY IrtVmAssumption
<1>2. Line(p) \in Int /\ Line(q) \in Int
  BY <1>1 DEF Line
<1> QED BY <1>1, <1>2 DEF Span, Stride

LEMMA RunType ==
  ASSUME NEW t \in RelayTypes, NEW p \in Int, NEW q \in Int
  PROVE  /\ Run(t, p, q) \in Seq(Ops)
         /\ Span(t, p, q) >= 0 => Len(Run(t, p, q)) = Span(t, p, q)
         /\ Span(t, p, q) <= 0 => Run(t, p, q) = << >>
         /\ \A i \in 1 .. Span(t, p, q) : Run(t, p, q)[i] = Op(t, p + (i - 1) * Stride(t))
<1> DEFINE n == Span(t, p, q)
           k == Stride(t)
<1>1. n \in Int /\ k \in Int
  BY SpanType
<1> HIDE DEF n, k
<1> DEFINE r == [i \in 1 .. n |-> Op(t, p + (i - 1) * k)]
<1>2. \A i \in 1 .. n : Op(t, p + (i - 1) * k) \in Ops
  BY <1>1, OpType
<1>3. CASE n >= 0
  <2>1. r \in Seq(Ops) /\ Len(r) = n
    BY <1>1, <1>2, <1>3
  <2>2. n <= 0 => r = << >>
    BY <1>1, <1>3, <2>1
  <2> QED BY <2>1, <2>2 DEF Run, n, k
<1>4. CASE n < 0
  <2>1. 1 .. n = {}
    BY <1>1, <1>4
  <2>2. r = << >>
    BY <2>1
  <2>3. << >> \in Seq(Ops)
    OBVIOUS
  <2> QED BY <1>1, <1>4, <2>1, <2>2, <2>3 DEF Run, n, k
<1> QED BY <1>1, <1>3, <1>4

(* A range that is cut in two is the first part and then the second.       *)
Halves(t, p, q, m, a, b) ==
  /\ Span(t, p, a) = m /\ Span(t, b, q) = Span(t, p, q) - m
  /\ Run(t, p, q) = Run(t, p, a) \o Run(t, b, q)

LEMMA RunCut ==
  ASSUME NEW t \in RelayTypes, NEW p \in Int, NEW q \in Int,
         NEW m \in Nat, m > 0, m < Span(t, p, q),
         NEW a, a = p + (m - 1) * Stride(t),
         NEW b, b = p + m * Stride(t)
  PROVE  a \in Int /\ b \in Int /\ Halves(t, p, q, m, a, b)
<1> DEFINE k == Stride(t)
           n == Span(t, p, q)
<1>1. n \in Int /\ k \in Int /\ NBus \in Int /\ Line(p) \in Int /\ Line(q) \in Int
  BY SpanType, IrtVmAssumption DEF Line
<1>2. a \in Int /\ b \in Int
  BY <1>1
<1>3. Span(t, p, a) = m /\ Span(t, b, q) = n - m
  <2>1. CASE t = "FSCN"
    <3>1. k = 1 /\ n = q - p + 1 /\ Span(t, p, a) = a - p + 1 /\ Span(t, b, q) = q - b + 1
      BY <2>1 DEF Span, Stride
    <3>2. a = p + m - 1 /\ b = p + m
      BY <3>1
    <3> HIDE DEF k, n
    <3> QED BY <3>1, <3>2
  <2>2. CASE t # "FSCN"
    <3>1. /\ k = NBus /\ n = Line(q) - Line(p) + 1
          /\ Span(t, p, a) = Line(a) - Line(p) + 1 /\ Span(t, b, q) = Line(q) - Line(b) + 1
      BY <2>2 DEF Span, Stride
    <3>2. Line(p + (m - 1) * NBus) = Line(p) + (m - 1)
      <4>1. m - 1 \in Int
        OBVIOUS
      <4> QED BY <4>1, LineShift
    <3>3. Line(p + m * NBus) = Line(p) + m
      BY LineShift
    <3>4. Line(a) = Line(p) + (m - 1) /\ Line(b) = Line(p) + m
      BY <3>1, <3>2, <3>3
    <3> HIDE DEF k, n
    <3> QED BY <1>1, <3>1, <3>4
  <2> QED BY <2>1, <2>2
<1> DEFINE u == Run(t, p, a)
           w == Run(t, b, q)
           r == Run(t, p, q)
<1>4. /\ u \in Seq(Ops) /\ Len(u) = m /\ w \in Seq(Ops) /\ Len(w) = n - m
      /\ r \in Seq(Ops) /\ Len(r) = n
      /\ \A i \in 1 .. m : u[i] = Op(t, p + (i - 1) * k)
      /\ \A i \in 1 .. n - m : w[i] = Op(t, b + (i - 1) * k)
      /\ \A i \in 1 .. n : r[i] = Op(t, p + (i - 1) * k)
  <2> HIDE DEF k
  <2>1. /\ u \in Seq(Ops) /\ w \in Seq(Ops) /\ r \in Seq(Ops)
        /\ Len(u) = Span(t, p, a) /\ Len(w) = Span(t, b, q) /\ Len(r) = n
    BY <1>1, <1>2, <1>3, RunType
  <2>2. /\ \A i \in 1 .. Span(t, p, a) : u[i] = Op(t, p + (i - 1) * k)
        /\ \A i \in 1 .. Span(t, b, q) : w[i] = Op(t, b + (i - 1) * k)
        /\ \A i \in 1 .. Span(t, p, q) : r[i] = Op(t, p + (i - 1) * k)
    BY <1>2, RunType DEF k
  <2> QED BY <1>3, <2>1, <2>2
<1>5. \A i \in 1 .. n - m : b + (i - 1) * k = p + ((m + i) - 1) * k
  BY <1>1
<1> HIDE DEF u, w, r, n, k
<1>6. u \o w = r
  <2>1. Len(u) = m /\ Len(w) = n - m /\ Len(r) = Len(u) + Len(w)
    BY <1>1, <1>4
  <2>2. \A i \in 1 .. Len(u) : r[i] = u[i]
    BY <1>1, <1>4, <2>1
  <2>3. \A i \in 1 .. Len(w) : r[Len(u) + i] = w[i]
    <3> TAKE i \in 1 .. Len(w)
    <3>1. i \in 1 .. n - m /\ m + i \in 1 .. n
      BY <1>1, <2>1
    <3>2. w[i] = Op(t, b + (i - 1) * k) /\ r[m + i] = Op(t, p + ((m + i) - 1) * k)
      BY <1>4, <3>1
    <3> QED BY <1>5, <2>1, <3>1, <3>2
  <2> QED BY <1>4, <2>1, <2>2, <2>3, CatIs
<1> QED BY <1>2, <1>3, <1>6, Zenon DEF Halves, u, w, r, n


-----------------------------------------------------------------------------
(* The relay actions of opcodes, one opcode at a time: what an opcode does *)
(* depends on the one before it (Fetched) or after it (Actions).           *)

Relay(x) == x.type \in RelayTypes

FetchOf(before, x) ==
  IF ~Relay(x) THEN << >>
  ELSE IF before.type = "SEQU" THEN Run(x.type, before.p, x.p) ELSE <<x>>
ActOf(x, after) ==
  IF ~Relay(x) THEN << >>
  ELSE IF after.type = "SEQU" THEN Run(x.type, x.p, after.p) ELSE <<x>>

FetchItems(ops) ==
  [i \in 1 .. Len(ops) |-> FetchOf(IF i = 1 THEN Nul ELSE ops[i - 1], ops[i])]
ActItems(ops) ==
  [i \in 1 .. Len(ops) |-> ActOf(ops[i], IF i = Len(ops) THEN Nul ELSE ops[i + 1])]

LEMMA ItemType ==
  ASSUME NEW x \in Ops, NEW y \in Ops
  PROVE  FetchOf(x, y) \in Seq(Ops) /\ ActOf(x, y) \in Seq(Ops)
<1>1. << >> \in Seq(Ops) /\ <<x>> \in Seq(Ops) /\ <<y>> \in Seq(Ops)
  OBVIOUS
<1>2. x.p \in Int /\ y.p \in Int
  BY OpType
<1>3. /\ Relay(y) => Run(y.type, x.p, y.p) \in Seq(Ops)
      /\ Relay(x) => Run(x.type, x.p, y.p) \in Seq(Ops)
  BY <1>2, RunType DEF Relay
<1> QED BY <1>1, <1>3 DEF FetchOf, ActOf

LEMMA ItemsType ==
  ASSUME NEW ops \in Seq(Ops)
  PROVE  /\ FetchItems(ops) \in Seq(Seq(Ops)) /\ Len(FetchItems(ops)) = Len(ops)
         /\ \A i \in 1 .. Len(ops) :
              FetchItems(ops)[i] = FetchOf(IF i = 1 THEN Nul ELSE ops[i - 1], ops[i])
         /\ ActItems(ops) \in Seq(Seq(Ops)) /\ Len(ActItems(ops)) = Len(ops)
         /\ \A i \in 1 .. Len(ops) :
              ActItems(ops)[i] = ActOf(ops[i], IF i = Len(ops) THEN Nul ELSE ops[i + 1])
<1> DEFINE before(i) == IF i = 1 THEN Nul ELSE ops[i - 1]
           after(i) == IF i = Len(ops) THEN Nul ELSE ops[i + 1]
<1>1. \A i \in 1 .. Len(ops) : ops[i] \in Ops /\ before(i) \in Ops /\ after(i) \in Ops
  BY OpType
<1> HIDE DEF before, after
<1>2. \A i \in 1 .. Len(ops) :
        FetchOf(before(i), ops[i]) \in Seq(Ops) /\ ActOf(ops[i], after(i)) \in Seq(Ops)
  BY <1>1, ItemType
<1> DEFINE f == [i \in 1 .. Len(ops) |-> FetchOf(before(i), ops[i])]
           g == [i \in 1 .. Len(ops) |-> ActOf(ops[i], after(i))]
<1>3. /\ f \in Seq(Seq(Ops)) /\ Len(f) = Len(ops)
      /\ \A i \in 1 .. Len(ops) : f[i] = FetchOf(before(i), ops[i])
  BY <1>2
<1>4. /\ g \in Seq(Seq(Ops)) /\ Len(g) = Len(ops)
      /\ \A i \in 1 .. Len(ops) : g[i] = ActOf(ops[i], after(i))
  BY <1>2
<1>5. f = FetchItems(ops) /\ g = ActItems(ops)
  BY DEF FetchItems, ActItems, before, after
<1> HIDE DEF f, g
<1> QED BY <1>3, <1>4, <1>5 DEF before, after

LEMMA ItemsFlat ==
  ASSUME NEW ops \in Seq(Ops)
  PROVE  /\ Fetched(ops) = FlattenSeq(FetchItems(ops)) /\ Fetched(ops) \in Seq(Ops)
         /\ Actions(ops) = FlattenSeq(ActItems(ops)) /\ Actions(ops) \in Seq(Ops)
<1> DEFINE F(i) == IF ops[i].type \notin RelayTypes THEN << >>
                   ELSE IF i > 1 /\ ops[i - 1].type = "SEQU"
                        THEN Run(ops[i].type, ops[i - 1].p, ops[i].p)
                        ELSE <<ops[i]>>
           G(i) == IF ops[i].type \notin RelayTypes THEN << >>
                   ELSE IF i < Len(ops) /\ ops[i + 1].type = "SEQU"
                        THEN Run(ops[i].type, ops[i].p, ops[i + 1].p)
                        ELSE <<ops[i]>>
           before(i) == IF i = 1 THEN Nul ELSE ops[i - 1]
           after(i) == IF i = Len(ops) THEN Nul ELSE ops[i + 1]
<1>1. DOMAIN ops = 1 .. Len(ops) /\ Len(ops) \in Nat
  OBVIOUS
<1>2. \A i \in 1 .. Len(ops) : F(i) = FetchOf(before(i), ops[i])
  <2> TAKE i \in 1 .. Len(ops)
  <2>1. CASE i = 1
    <3>1. ~(i > 1) /\ Nul.type # "SEQU"
      <4> HIDE DEF F, G, before, after
      <4> QED BY <2>1, OpType
    <3> QED BY <2>1, <3>1, Zenon DEF FetchOf, Relay
  <2>2. CASE i # 1
    <3>1. i > 1
      BY <1>1, <2>2
    <3> QED BY <2>2, <3>1, Zenon DEF FetchOf, Relay
  <2> QED BY <2>1, <2>2
<1>3. \A i \in 1 .. Len(ops) : G(i) = ActOf(ops[i], after(i))
  <2> TAKE i \in 1 .. Len(ops)
  <2>1. CASE i = Len(ops)
    <3>1. ~(i < Len(ops)) /\ Nul.type # "SEQU"
      <4> HIDE DEF F, G, before, after
      <4> QED BY <1>1, <2>1, OpType
    <3> QED BY <2>1, <3>1, Zenon DEF ActOf, Relay
  <2>2. CASE i # Len(ops)
    <3>1. i < Len(ops)
      <4> HIDE DEF F, G, before, after
      <4>1. \A n \in Nat : \A j \in 1 .. n : j # n => j < n
        OBVIOUS
      <4> QED BY <1>1, <2>2, <4>1, Zenon
    <3> QED BY <2>2, <3>1, Zenon DEF ActOf, Relay
  <2> QED BY <2>1, <2>2
<1>4. /\ [i \in DOMAIN ops |-> F(i)] = FetchItems(ops)
      /\ [i \in DOMAIN ops |-> G(i)] = ActItems(ops)
  <2> HIDE DEF F, G
  <2> QED BY <1>1, <1>2, <1>3 DEF FetchItems, ActItems
<1>5. /\ Fetched(ops) = FlattenSeq(FetchItems(ops))
      /\ Actions(ops) = FlattenSeq(ActItems(ops))
  BY <1>4, Zenon DEF Fetched, Actions
<1>6. FlattenSeq(FetchItems(ops)) \in Seq(Ops) /\ FlattenSeq(ActItems(ops)) \in Seq(Ops)
  BY ItemsType, FlattenType
<1> QED BY <1>5, <1>6

LEMMA FetchedEmpty == Fetched(<< >>) = << >> /\ Actions(<< >>) = << >>
<1>1. << >> \in Seq(Ops)
  OBVIOUS
<1>2. FetchItems(<< >>) = << >> /\ ActItems(<< >>) = << >>
  BY DEF FetchItems, ActItems
<1> QED BY <1>1, <1>2, ItemsFlat, FlattenEmpty

LEMMA FetchedOne ==
  ASSUME NEW x \in Ops
  PROVE  Fetched(<<x>>) = IF Relay(x) THEN <<x>> ELSE << >>
<1> DEFINE s == <<x>>
<1>1. s \in Seq(Ops) /\ Len(s) = 1 /\ s[1] = x
  OBVIOUS
<1> HIDE DEF s
<1>2. FetchItems(s) = <<FetchOf(Nul, x)>>
  <2>1. FetchItems(s) \in Seq(Seq(Ops)) /\ Len(FetchItems(s)) = 1
        /\ FetchItems(s)[1] = FetchOf(Nul, x)
    <3>1. 1 \in 1 .. Len(s)
      BY <1>1
    <3>2. FetchItems(s)[1] = FetchOf(IF 1 = 1 THEN Nul ELSE s[1 - 1], s[1])
      BY <1>1, <3>1, ItemsType
    <3> QED BY <1>1, <3>2, ItemsType
  <2>2. FetchOf(Nul, x) \in Seq(Ops)
    BY OpType, ItemType
  <2> DEFINE u == FetchItems(s)
             y == FetchOf(Nul, x)
             w == <<y>>
  <2> HIDE DEF u, y
  <2>3. w \in Seq(Seq(Ops)) /\ Len(w) = 1 /\ w[1] = y
    BY <2>2 DEF y
  <2> HIDE DEF w
  <2>4. u = w
    BY <2>1, <2>3, SameSeq DEF u, y
  <2> QED BY <2>4 DEF u, w, y
<1>3. FetchOf(Nul, x) = IF Relay(x) THEN <<x>> ELSE << >>
  BY OpType, Zenon DEF FetchOf
<1>4. FetchOf(Nul, x) \in Seq(Ops)
  BY OpType, ItemType
<1>5. FlattenSeq(<<FetchOf(Nul, x)>>) = FetchOf(Nul, x)
  BY <1>4, FlattenOne
<1> QED BY <1>1, <1>2, <1>3, <1>5, ItemsFlat DEF s


LEMMA FetchedCat ==
  ASSUME NEW a \in Seq(Ops), NEW b \in Seq(Ops),
         a # << >> => a[Len(a)].type # "SEQU"
  PROVE  Fetched(a \o b) = Fetched(a) \o Fetched(b)
<1> DEFINE c == a \o b
           m == Len(a)
           n == Len(b)
<1>1. /\ c \in Seq(Ops) /\ Len(c) = m + n /\ m \in Nat /\ n \in Nat
      /\ \A i \in 1 .. m : c[i] = a[i]
      /\ \A i \in 1 .. n : c[m + i] = b[i]
  <2>1. Len(a) \in Nat /\ Len(b) \in Nat
    OBVIOUS
  <2> QED BY <2>1, CatSeq
<1>2. m # 0 => a[m].type # "SEQU"
  BY EmptySeq
<1> HIDE DEF c
<1>3. FetchItems(a) \o FetchItems(b) = FetchItems(c)
  <2>1. \A i \in 1 .. m : FetchItems(c)[i] = FetchItems(a)[i]
    <3> TAKE i \in 1 .. m
    <3>1. i \in 1 .. Len(c) /\ c[i] = a[i] /\ (i # 1 => c[i - 1] = a[i - 1])
      <4>1. i # 1 => i - 1 \in 1 .. m
        BY <1>1
      <4> HIDE DEF m, n
      <4> QED BY <1>1, <4>1
    <3>2. FetchItems(c)[i] = FetchOf(IF i = 1 THEN Nul ELSE c[i - 1], c[i])
      BY <1>1, <3>1, ItemsType
    <3>3. FetchItems(a)[i] = FetchOf(IF i = 1 THEN Nul ELSE a[i - 1], a[i])
      BY ItemsType
    <3> QED BY <3>1, <3>2, <3>3, Zenon
  <2>2. \A i \in 1 .. n : FetchItems(c)[m + i] = FetchItems(b)[i]
    <3> TAKE i \in 1 .. n
    <3>1. m + i \in 1 .. Len(c) /\ c[m + i] = b[i]
      BY <1>1
    <3>2. FetchItems(c)[m + i] = FetchOf(IF m + i = 1 THEN Nul ELSE c[(m + i) - 1], c[m + i])
      BY <1>1, <3>1, ItemsType
    <3>3. FetchItems(b)[i] = FetchOf(IF i = 1 THEN Nul ELSE b[i - 1], b[i])
      BY ItemsType
    <3>4. CASE i # 1
      <4>1. m + i # 1 /\ c[(m + i) - 1] = b[i - 1]
        <5>1. i - 1 \in 1 .. n /\ (m + i) - 1 = m + (i - 1) /\ m + i # 1
          BY <1>1, <3>4
        <5> QED BY <1>1, <5>1
      <4> QED BY <3>1, <3>2, <3>3, <3>4, <4>1, Zenon
    <3>5. CASE i = 1 /\ m = 0
      <4>1. m + i = 1
        BY <3>5
      <4> QED BY <3>1, <3>2, <3>3, <3>5, <4>1, Zenon
    <3>6. CASE i = 1 /\ m # 0
      <4>1. (m + i) - 1 = m /\ m + i # 1 /\ c[m] = a[m]
        BY <1>1, <3>6
      <4>2. \A x, y : x.type # "SEQU" => FetchOf(x, y) = IF Relay(y) THEN <<y>> ELSE << >>
        BY Zenon DEF FetchOf
      <4>3. Nul.type # "SEQU"
        BY OpType
      <4> QED BY <1>2, <3>1, <3>2, <3>3, <3>6, <4>1, <4>2, <4>3, Zenon
    <3> QED BY <3>4, <3>5, <3>6
  <2> DEFINE u == FetchItems(a)
             w == FetchItems(b)
             r == FetchItems(c)
  <2>3. /\ u \in Seq(Seq(Ops)) /\ Len(u) = m /\ w \in Seq(Seq(Ops)) /\ Len(w) = n
        /\ r \in Seq(Seq(Ops)) /\ Len(r) = m + n
    BY <1>1, ItemsType
  <2> HIDE DEF u, w, r, m, n
  <2>4. Len(r) = Len(u) + Len(w)
    BY <2>3
  <2>5. \A i \in 1 .. Len(u) : r[i] = u[i]
    BY <2>1, <2>3 DEF r, u
  <2>6. \A i \in 1 .. Len(w) : r[Len(u) + i] = w[i]
    BY <2>2, <2>3 DEF r, w
  <2>7. u \o w = r
    BY <2>3, <2>4, <2>5, <2>6, CatIs
  <2> QED BY <2>7 DEF u, w, r
<1>4. FlattenSeq(FetchItems(a) \o FetchItems(b))
        = FlattenSeq(FetchItems(a)) \o FlattenSeq(FetchItems(b))
  BY ItemsType, FlattenCat
<1>5. Fetched(c) = FlattenSeq(FetchItems(c)) /\ Fetched(a) = FlattenSeq(FetchItems(a))
      /\ Fetched(b) = FlattenSeq(FetchItems(b))
  BY <1>1, ItemsFlat
<1> QED BY <1>3, <1>4, <1>5, Zenon DEF c

LEMMA ActionsCat ==
  ASSUME NEW a \in Seq(Ops), NEW b \in Seq(Ops),
         b # << >> => b[1].type # "SEQU"
  PROVE  Actions(a \o b) = Actions(a) \o Actions(b)
<1> DEFINE c == a \o b
           m == Len(a)
           n == Len(b)
<1>1. /\ c \in Seq(Ops) /\ Len(c) = m + n /\ m \in Nat /\ n \in Nat
      /\ \A i \in 1 .. m : c[i] = a[i]
      /\ \A i \in 1 .. n : c[m + i] = b[i]
  <2>1. Len(a) \in Nat /\ Len(b) \in Nat
    OBVIOUS
  <2> QED BY <2>1, CatSeq
<1>2. n # 0 => b[1].type # "SEQU"
  BY EmptySeq
<1> HIDE DEF c
<1>3. ActItems(a) \o ActItems(b) = ActItems(c)
  <2>1. \A i \in 1 .. m : ActItems(c)[i] = ActItems(a)[i]
    <3> TAKE i \in 1 .. m
    <3>1. i \in 1 .. Len(c) /\ c[i] = a[i]
      BY <1>1
    <3>2. ActItems(c)[i] = ActOf(c[i], IF i = Len(c) THEN Nul ELSE c[i + 1])
      BY <1>1, <3>1, ItemsType
    <3>3. ActItems(a)[i] = ActOf(a[i], IF i = m THEN Nul ELSE a[i + 1])
      BY ItemsType
    <3>4. CASE i # m
      <4>1. i # Len(c) /\ c[i + 1] = a[i + 1]
        BY <1>1, <3>4
      <4> QED BY <3>1, <3>2, <3>3, <3>4, <4>1, Zenon
    <3>5. CASE i = m /\ n = 0
      <4>1. i = Len(c)
        BY <1>1, <3>5
      <4> QED BY <3>1, <3>2, <3>3, <3>5, <4>1, Zenon
    <3>6. CASE i = m /\ n # 0
      <4>1. i # Len(c) /\ c[i + 1] = b[1]
        BY <1>1, <3>6
      <4>2. \A x, y : y.type # "SEQU" => ActOf(x, y) = IF Relay(x) THEN <<x>> ELSE << >>
        BY Zenon DEF ActOf
      <4>3. Nul.type # "SEQU"
        BY OpType
      <4> QED BY <1>2, <3>1, <3>2, <3>3, <3>6, <4>1, <4>2, <4>3, Zenon
    <3> QED BY <3>4, <3>5, <3>6
  <2>2. \A i \in 1 .. n : ActItems(c)[m + i] = ActItems(b)[i]
    <3> TAKE i \in 1 .. n
    <3>1. m + i \in 1 .. Len(c) /\ c[m + i] = b[i] /\ (m + i = Len(c) <=> i = n)
          /\ (i # n => c[(m + i) + 1] = b[i + 1])
      <4>1. i # n => i + 1 \in 1 .. n /\ (m + i) + 1 = m + (i + 1)
        BY <1>1
      <4>2. m + i \in 1 .. Len(c) /\ (m + i = Len(c) <=> i = n)
        <5> HIDE DEF m, n
        <5> QED BY <1>1
      <4>3. c[m + i] = b[i] /\ (i # n => c[m + (i + 1)] = b[i + 1])
        <5> HIDE DEF m, n
        <5> QED BY <1>1, <4>1
      <4> QED BY <4>1, <4>2, <4>3, Zenon
    <3>2. ActItems(c)[m + i] = ActOf(c[m + i], IF m + i = Len(c) THEN Nul ELSE c[(m + i) + 1])
      BY <1>1, <3>1, ItemsType
    <3>3. ActItems(b)[i] = ActOf(b[i], IF i = n THEN Nul ELSE b[i + 1])
      BY ItemsType
    <3> QED BY <3>1, <3>2, <3>3, Zenon
  <2> DEFINE u == ActItems(a)
             w == ActItems(b)
             r == ActItems(c)
  <2>3. /\ u \in Seq(Seq(Ops)) /\ Len(u) = m /\ w \in Seq(Seq(Ops)) /\ Len(w) = n
        /\ r \in Seq(Seq(Ops)) /\ Len(r) = m + n
    BY <1>1, ItemsType
  <2> HIDE DEF u, w, r, m, n
  <2>4. Len(r) = Len(u) + Len(w)
    BY <2>3
  <2>5. \A i \in 1 .. Len(u) : r[i] = u[i]
    BY <2>1, <2>3 DEF r, u
  <2>6. \A i \in 1 .. Len(w) : r[Len(u) + i] = w[i]
    BY <2>2, <2>3 DEF r, w
  <2>7. u \o w = r
    BY <2>3, <2>4, <2>5, <2>6, CatIs
  <2> QED BY <2>7 DEF u, w, r
<1>4. FlattenSeq(ActItems(a) \o ActItems(b))
        = FlattenSeq(ActItems(a)) \o FlattenSeq(ActItems(b))
  BY ItemsType, FlattenCat
<1>5. Actions(c) = FlattenSeq(ActItems(c)) /\ Actions(a) = FlattenSeq(ActItems(a))
      /\ Actions(b) = FlattenSeq(ActItems(b))
  BY <1>1, ItemsFlat
<1> QED BY <1>3, <1>4, <1>5, Zenon DEF c


(* Two opcodes, and the first opcode of a queue.                           *)
LEMMA FetchedTwo ==
  ASSUME NEW x \in Ops, NEW y \in Ops, x.type = "SEQU", Relay(y)
  PROVE  Fetched(<<x, y>>) = Run(y.type, x.p, y.p)
<1> DEFINE s == <<x, y>>
<1>1. s \in Seq(Ops) /\ Len(s) = 2 /\ s[1] = x /\ s[2] = y
  OBVIOUS
<1> HIDE DEF s
<1>2. ~Relay(x)
  BY DEF Relay, RelayTypes
<1> DEFINE u == FetchItems(s)
           e == << >>
           z == FetchOf(x, y)
<1>3. /\ u \in Seq(Seq(Ops)) /\ Len(u) = 2
      /\ u[1] = FetchOf(Nul, x) /\ u[2] = FetchOf(x, y)
  <2>1. 1 \in 1 .. Len(s) /\ 2 \in 1 .. Len(s)
    BY <1>1
  <2>2. u[1] = FetchOf(IF 1 = 1 THEN Nul ELSE s[1 - 1], s[1])
    BY <1>1, <2>1, ItemsType
  <2>3. u[2] = FetchOf(IF 2 = 1 THEN Nul ELSE s[2 - 1], s[2])
    BY <1>1, <2>1, ItemsType
  <2>4. u \in Seq(Seq(Ops)) /\ Len(u) = 2
    BY <1>1, ItemsType
  <2>5. s[2 - 1] = x
    BY <1>1
  <2>6. 2 # 1
    OBVIOUS
  <2> QED BY <1>1, <2>2, <2>3, <2>4, <2>5, <2>6, Zenon
<1>4. FetchOf(Nul, x) = << >> /\ z = Run(y.type, x.p, y.p)
  BY <1>2, Zenon DEF FetchOf
<1>5. z \in Seq(Ops) /\ e \in Seq(Ops)
  BY ItemType
<1> HIDE DEF u, z, e
<1>6. u = <<e>> \o <<z>>
  <2> DEFINE v == <<e>>
             w == <<z>>
  <2>1. /\ v \in Seq(Seq(Ops)) /\ Len(v) = 1 /\ v[1] = e
        /\ w \in Seq(Seq(Ops)) /\ Len(w) = 1 /\ w[1] = z
    BY <1>5
  <2> HIDE DEF v, w
  <2>2. u[1] = e /\ u[2] = z
    BY <1>3, <1>4 DEF e, z
  <2>3. Len(u) = Len(v) + Len(w) /\ \A i \in 1 .. Len(v) : u[i] = v[i]
    BY <1>3, <2>1, <2>2
  <2>4. \A i \in 1 .. Len(w) : u[Len(v) + i] = w[i]
    BY <1>3, <2>1, <2>2
  <2>5. v \o w = u
    BY <1>3, <2>1, <2>3, <2>4, CatIs
  <2> QED BY <2>5 DEF v, w
<1>7. FlattenSeq(<<e>> \o <<z>>) = FlattenSeq(<<e>>) \o z
  <2>1. <<e>> \in Seq(Seq(Ops))
    BY <1>5
  <2> QED BY <1>5, <2>1, FlattenAppend
<1>8. FlattenSeq(<<e>>) = e
  BY <1>5, FlattenOne
<1>9. e \o z = z
  BY <1>5, CatEmpty DEF e
<1>10. Fetched(s) = FlattenSeq(u)
  BY <1>1, ItemsFlat DEF u
<1> QED BY <1>4, <1>6, <1>7, <1>8, <1>9, <1>10, Zenon DEF s

LEMMA ActionsCons ==
  ASSUME NEW x \in Ops, NEW q \in Seq(Ops)
  PROVE  Actions(<<x>> \o q) = ActOf(x, IF q = << >> THEN Nul ELSE q[1]) \o Actions(q)
<1> DEFINE s == <<x>> \o q
           n == Len(q)
           after == IF q = << >> THEN Nul ELSE q[1]
           z == ActOf(x, after)
<1>1. /\ s \in Seq(Ops) /\ Len(s) = n + 1 /\ n \in Nat /\ s[1] = x
      /\ \A i \in 1 .. n : s[i + 1] = q[i]
  OBVIOUS
<1>2. (q = << >> <=> n = 0) /\ after \in Ops
  <2>1. q = << >> <=> n = 0
    BY EmptySeq
  <2>2. n # 0 => q[1] \in Ops
    BY <1>1
  <2> QED BY <2>1, <2>2, OpType
<1> HIDE DEF s, n
<1>3. z \in Seq(Ops)
  BY <1>2, ItemType
<1> DEFINE u == ActItems(s)
           w == ActItems(q)
<1>4. /\ u \in Seq(Seq(Ops)) /\ Len(u) = n + 1 /\ w \in Seq(Seq(Ops)) /\ Len(w) = n
  BY <1>1, ItemsType DEF n
<1>5. u[1] = z
  <2>1. 1 \in 1 .. Len(s) /\ (1 = Len(s) <=> n = 0)
    BY <1>1
  <2>2. u[1] = ActOf(s[1], IF 1 = Len(s) THEN Nul ELSE s[1 + 1])
    BY <1>1, <2>1, ItemsType
  <2>3. n # 0 => s[1 + 1] = q[1]
    <3>1. n # 0 => 1 \in 1 .. n
      BY <1>1
    <3> QED BY <1>1, <3>1
  <2> QED BY <1>1, <1>2, <2>1, <2>2, <2>3, Zenon
<1>6. \A i \in 1 .. n : u[i + 1] = w[i]
  <2> TAKE i \in 1 .. n
  <2>1. i + 1 \in 1 .. Len(s) /\ (i + 1 = Len(s) <=> i = n)
    BY <1>1
  <2>2. s[i + 1] = q[i] /\ (i # n => s[(i + 1) + 1] = q[i + 1])
    <3>1. i # n => i + 1 \in 1 .. n
      BY <1>1
    <3> QED BY <1>1, <3>1
  <2>3. u[i + 1] = ActOf(s[i + 1], IF i + 1 = Len(s) THEN Nul ELSE s[(i + 1) + 1])
    BY <1>1, <2>1, ItemsType
  <2>4. w[i] = ActOf(q[i], IF i = n THEN Nul ELSE q[i + 1])
    BY ItemsType DEF n
  <2> QED BY <2>1, <2>2, <2>3, <2>4, Zenon
<1> HIDE DEF u, w, z
<1>7. <<z>> \o w = u
  <2> DEFINE v == <<z>>
  <2>1. v \in Seq(Seq(Ops)) /\ Len(v) = 1 /\ v[1] = z
    BY <1>3
  <2> HIDE DEF v
  <2>2. Len(u) = Len(v) + Len(w) /\ \A i \in 1 .. Len(v) : u[i] = v[i]
    BY <1>1, <1>4, <1>5, <2>1
  <2>3. \A i \in 1 .. Len(w) : u[Len(v) + i] = w[i]
    <3> TAKE i \in 1 .. Len(w)
    <3>1. i \in 1 .. n /\ Len(v) + i = i + 1
      BY <1>1, <1>4, <2>1
    <3> QED BY <1>6, <3>1
  <2>4. v \o w = u
    BY <1>4, <2>1, <2>2, <2>3, CatIs
  <2> QED BY <2>4 DEF v
<1>8. FlattenSeq(<<z>> \o w) = FlattenSeq(<<z>>) \o FlattenSeq(w)
  <2>1. <<z>> \in Seq(Seq(Ops))
    BY <1>3
  <2> QED BY <1>4, <2>1, FlattenCat
<1>9. FlattenSeq(<<z>>) = z
  BY <1>3, FlattenOne
<1>10. Actions(s) = FlattenSeq(u) /\ Actions(q) = FlattenSeq(w)
  BY <1>1, ItemsFlat DEF u, w
<1> QED BY <1>7, <1>8, <1>9, <1>10, Zenon DEF s, z


-----------------------------------------------------------------------------
(* What a command puts in the queue. *)

IndItem(t, x) ==
  CASE x.sep = "@" -> <<Op("GRUP", 0), Op(t, x.p)>>
    [] x.sep = "," -> <<Op(t, x.p)>>
    [] x.sep = ":" -> <<Op("SEQU", x.p)>>

(* The opcodes of a prefix of a list, whose last item is x.                *)
Coded(t, s, x) ==
  /\ s \in Seq(Ops) /\ s # << >>
  /\ \A i \in 1 .. Len(s) : s[i].type \in {t, "SEQU", "GRUP"}
  /\ \A i \in 1 .. Len(s) : s[i].type = "SEQU" => i > 1 /\ s[i - 1].type = t
  /\ s[Len(s)].p = x.p
  /\ s[Len(s)].type = IF x.sep = ":" THEN "SEQU" ELSE t

Spanned(s) ==
  \A i \in 2 .. Len(s) :
    s[i].type = "SEQU" => Span(s[i - 1].type, s[i - 1].p, s[i].p) >= 1

LEMMA EntryType ==
  ASSUME NEW x \in Entry
  PROVE  x.p \in Nat /\ x.p \in Int /\ x.sep \in {"@", ",", ":"}
<1> DEFINE Seps == {"@", ",", ":"}
<1>1. x \in [sep : Seps, p : Nat]
  BY Zenon DEF Entry
<1> HIDE DEF Seps
<1>2. x.p \in Nat /\ x.p \in Int /\ x.sep \in Seps
  BY <1>1
<1> QED BY <1>2, Zenon DEF Seps

LEMMA ItemOps ==
  ASSUME NEW t \in RelayTypes, NEW x \in Entry
  PROVE  /\ IndItem(t, x) \in Seq(Ops) /\ IndItem(t, x) # << >>
         /\ x.sep # ":" => /\ Coded(t, IndItem(t, x), x)
                           /\ \A i \in 1 .. Len(IndItem(t, x)) :
                                IndItem(t, x)[i].type # "SEQU"
         /\ x.sep = ":" => IndItem(t, x) = <<Op("SEQU", x.p)>>
<1> DEFINE g == Op("GRUP", 0)
           a == Op(t, x.p)
           b == Op("SEQU", x.p)
<1>1. /\ g \in Ops /\ a \in Ops /\ b \in Ops /\ a.p = x.p /\ a.type = t
      /\ g.type = "GRUP"
  <2>1. x.p \in Int
    BY EntryType
  <2>2. a \in Ops /\ a.type = t /\ a.p = x.p
    BY <2>1, KindType
  <2>3. b \in Ops
    BY <2>1, KindType
  <2>4. g \in Ops /\ g.type = "GRUP"
    BY KindType
  <2> QED BY <2>2, <2>3, <2>4
<1>2. t # "SEQU" /\ x.sep \in {"@", ",", ":"}
  BY DEF RelayTypes, Entry
<1> HIDE DEF g, a, b
<1>3. CASE x.sep = "@"
  <2> DEFINE s == <<g, a>>
  <2>1. IndItem(t, x) = s
    BY <1>3 DEF IndItem, g, a
  <2>2. s \in Seq(Ops) /\ Len(s) = 2 /\ s[1] = g /\ s[2] = a /\ s # << >>
    BY <1>1
  <2> HIDE DEF s
  <2>3. Coded(t, s, x) /\ \A i \in 1 .. Len(s) : s[i].type # "SEQU"
    BY <1>1, <1>2, <1>3, <2>2 DEF Coded
  <2> QED BY <1>3, <2>1, <2>2, <2>3
<1>4. CASE x.sep = ","
  <2> DEFINE s == <<a>>
  <2>1. IndItem(t, x) = s
    BY <1>4 DEF IndItem, a
  <2>2. s \in Seq(Ops) /\ Len(s) = 1 /\ s[1] = a /\ s # << >>
    BY <1>1
  <2> HIDE DEF s
  <2>3. Coded(t, s, x) /\ \A i \in 1 .. Len(s) : s[i].type # "SEQU"
    <3>1. \A i \in 1 .. Len(s) : s[i] = a
      BY <2>2
    <3>2. s[Len(s)] = a /\ a.type # "SEQU"
      BY <1>1, <1>2, <2>2
    <3>3. \A i \in 1 .. Len(s) : s[i].type = t /\ s[i].type # "SEQU"
      BY <1>1, <3>1, <3>2, Zenon
    <3> QED BY <1>1, <1>4, <2>2, <3>2, <3>3 DEF Coded
  <2> QED BY <1>4, <2>1, <2>2, <2>3
<1>5. CASE x.sep = ":"
  <2>1. IndItem(t, x) = <<b>>
    BY <1>5 DEF IndItem, b
  <2>2. <<b>> \in Seq(Ops) /\ <<b>> # << >>
    BY <1>1
  <2> QED BY <1>5, <2>1, <2>2 DEF b
<1> QED BY <1>2, <1>3, <1>4, <1>5

(* One more item.                                                          *)
LEMMA CodedNext ==
  ASSUME NEW t \in RelayTypes, NEW s, NEW w \in Entry, Coded(t, s, w),
         NEW x \in Entry, x.sep = ":" => w.sep # ":"
  PROVE  /\ Coded(t, s \o IndItem(t, x), x)
         /\ (Spanned(s) /\ (x.sep = ":" => Span(t, w.p, x.p) >= 1))
              => Spanned(s \o IndItem(t, x))
<1> DEFINE m == Len(s)
           e == IndItem(t, x)
           n == Len(e)
           c == s \o e
<1>1. /\ e \in Seq(Ops) /\ e # << >> /\ n \in Nat /\ n > 0
      /\ x.sep # ":" => Coded(t, e, x) /\ \A i \in 1 .. n : e[i].type # "SEQU"
      /\ x.sep = ":" => n = 1 /\ e[1].type = "SEQU" /\ e[1].p = x.p
  <2>1. x.p \in Int
    BY EntryType
  <2>2. LET b == Op("SEQU", x.p) IN Len(<<b>>) = 1 /\ <<b>>[1] = b /\ b.type = "SEQU" /\ b.p = x.p
    BY <2>1, OpType
  <2>3. e \in Seq(Ops) /\ e # << >>
    BY ItemOps
  <2>4. n \in Nat /\ n > 0
    BY <2>3
  <2>5. x.sep # ":" => Coded(t, e, x) /\ \A i \in 1 .. n : e[i].type # "SEQU"
    BY ItemOps
  <2>6. x.sep = ":" => e = <<Op("SEQU", x.p)>>
    BY ItemOps
  <2> HIDE DEF e
  <2> QED BY <2>2, <2>3, <2>4, <2>5, <2>6
<1>2. /\ s \in Seq(Ops) /\ m \in Nat /\ m > 0 /\ s # << >>
      /\ s[m].p = w.p /\ (w.sep # ":" => s[m].type = t)
  BY DEF Coded
<1>3. /\ c \in Seq(Ops) /\ Len(c) = m + n
      /\ \A i \in 1 .. m : c[i] = s[i]
      /\ \A i \in 1 .. n : c[m + i] = e[i]
  BY <1>1, <1>2, CatSeq
<1> HIDE DEF e, c
<1>4. c # << >>
  BY <1>1, <1>2, <1>3, EmptySeq
<1>5. \A i \in 1 .. Len(c) : i \in 1 .. m \/ \E j \in 1 .. n : i = m + j
  <2> HIDE DEF m, n
  <2> TAKE i \in 1 .. Len(c)
  <2>1. CASE i > m
    <3>1. i - m \in 1 .. n /\ i = m + (i - m)
      BY <1>1, <1>2, <1>3, <2>1
    <3> QED BY <3>1
  <2> QED BY <1>1, <1>2, <1>3, <2>1
<1>6. \A j \in 1 .. n : e[j].type \in {t, "SEQU", "GRUP"}
  <2>1. CASE x.sep = ":"
    <3> HIDE DEF n
    <3>1. \A j \in 1 .. n : j = 1
      BY <1>1, <2>1
    <3> QED BY <1>1, <2>1, <3>1
  <2> QED BY <1>1, <2>1 DEF Coded
<1>7. \A i \in 1 .. Len(c) : c[i].type \in {t, "SEQU", "GRUP"}
  <2> HIDE DEF m, n
  <2>1. \A i \in 1 .. m : s[i].type \in {t, "SEQU", "GRUP"}
    BY DEF Coded, m
  <2> QED BY <1>3, <1>5, <1>6, <2>1
<1>8. \A j \in 1 .. n : e[j].type = "SEQU" => j = 1 /\ x.sep = ":"
  <2> HIDE DEF n
  <2> QED BY <1>1
<1>9. ASSUME NEW i \in 1 .. Len(c), c[i].type = "SEQU"
      PROVE  i > 1 /\ c[i - 1].type = t
  <2>1. CASE i \in 1 .. m
    <3>1. s[i].type = "SEQU"
      BY <1>3, <1>9, <2>1
    <3>2. i > 1 /\ s[i - 1].type = t
      BY <2>1, <3>1 DEF Coded
    <3>3. i - 1 \in 1 .. m
      <4> HIDE DEF m
      <4> QED BY <1>2, <2>1, <3>2
    <3> QED BY <1>3, <3>2, <3>3
  <2>2. CASE \E j \in 1 .. n : i = m + j
    <3>1. PICK j \in 1 .. n : i = m + j
      BY <2>2
    <3>2. j = 1 /\ x.sep = ":"
      BY <1>3, <1>8, <1>9, <3>1
    <3>3. i - 1 = m /\ i > 1 /\ m \in 1 .. m
      <4> HIDE DEF m
      <4> QED BY <1>2, <3>1, <3>2
    <3> QED BY <1>2, <1>3, <3>2, <3>3
  <2> QED BY <1>5, <2>1, <2>2
<1>10. c[Len(c)].p = x.p /\ c[Len(c)].type = IF x.sep = ":" THEN "SEQU" ELSE t
  <2>1. n \in 1 .. n
    <3> HIDE DEF n
    <3> QED BY <1>1
  <2>2. c[Len(c)] = e[n]
    <3> HIDE DEF m, n
    <3> QED BY <1>3, <2>1
  <2>3. e[n].p = x.p /\ e[n].type = IF x.sep = ":" THEN "SEQU" ELSE t
    <3>1. CASE x.sep = ":"
      <4> HIDE DEF n
      <4> QED BY <1>1, <3>1
    <3>2. CASE x.sep # ":"
      BY <1>1, <3>2 DEF Coded
    <3> QED BY <3>1, <3>2
  <2> QED BY <2>2, <2>3
<1>11. Coded(t, c, x)
  <2> HIDE DEF m, n
  <2> QED BY <1>3, <1>4, <1>7, <1>9, <1>10 DEF Coded
<1>12. ASSUME Spanned(s), x.sep = ":" => Span(t, w.p, x.p) >= 1
       PROVE  Spanned(c)
  <2> SUFFICES ASSUME NEW i \in 2 .. Len(c), c[i].type = "SEQU"
               PROVE  Span(c[i - 1].type, c[i - 1].p, c[i].p) >= 1
    BY DEF Spanned
  <2>1. i \in 1 .. Len(c)
    <3> HIDE DEF m, n
    <3> QED BY <1>1, <1>2, <1>3
  <2>2. CASE i \in 1 .. m
    <3>1. i - 1 \in 1 .. m /\ i \in 2 .. m
      <4> HIDE DEF m
      <4> QED BY <1>2, <2>2
    <3>2. c[i] = s[i] /\ c[i - 1] = s[i - 1]
      BY <1>3, <2>2, <3>1
    <3> QED BY <1>12, <3>1, <3>2 DEF Spanned
  <2>3. CASE \E j \in 1 .. n : i = m + j
    <3>1. PICK j \in 1 .. n : i = m + j
      BY <2>3
    <3>2. j = 1 /\ x.sep = ":" /\ c[i] = e[1]
      BY <1>3, <1>8, <3>1
    <3>3. i - 1 = m /\ m \in 1 .. m
      <4> HIDE DEF m
      <4> QED BY <1>2, <3>1, <3>2
    <3>4. c[i - 1] = s[m] /\ s[m].type = t /\ s[m].p = w.p /\ c[i].p = x.p
      BY <1>1, <1>2, <1>3, <3>2, <3>3
    <3> QED BY <1>12, <3>2, <3>4
  <2> QED BY <1>5, <2>1, <2>2, <2>3
<1> QED BY <1>11, <1>12 DEF c, e


(* The opcodes of a whole command: closed by the tag that ends its group.  *)
Closed(t, s) ==
  /\ s \in Seq(Ops) /\ Len(s) >= 1 /\ s[1].type # "SEQU" /\ s[Len(s)].type = "GRUP"
  /\ \A i \in 1 .. Len(s) : s[i].type \in {t, "SEQU", "GRUP"}
  /\ \A i \in 1 .. Len(s) : s[i].type = "SEQU" => i > 1 /\ s[i - 1].type = t

(* "(@bbllll,bbllll:bbllll,...)" (vm.c:297): a range has a start.          *)
WellFormed(list) ==
  /\ list \in Seq(Entry)
  /\ \A i \in 1 .. Len(list) :
       list[i].sep = ":" => i > 1 /\ list[i - 1].sep # ":"

(* No range of the list is empty or runs backwards.                        *)
Forward(t, list) ==
  \A i \in 2 .. Len(list) :
    list[i].sep = ":" => Span(t, list[i - 1].p, list[i].p) >= 1

LEMMA RangeStart ==
  ASSUME NEW list, WellFormed(list)
  PROVE  /\ list \in Seq(Entry)
         /\ \A i \in 1 .. Len(list) :
              list[i].sep = ":" => i > 1 /\ list[i - 1].sep # ":"
  BY Zenon DEF WellFormed, Entry

LEMMA PrefixCoded ==
  ASSUME NEW t \in RelayTypes, NEW list \in Seq(Entry), WellFormed(list),
         NEW k \in 1 .. Len(list)
  PROVE  LET f == FlattenSeq([i \in 1 .. k |-> IndItem(t, list[i])])
         IN Coded(t, f, list[k]) /\ (Forward(t, list) => Spanned(f))
<1> DEFINE I(n) == [i \in 1 .. n |-> IndItem(t, list[i])]
           F(n) == FlattenSeq(I(n))
           Good(n) == Coded(t, F(n), list[n]) /\ (Forward(t, list) => Spanned(F(n)))
           N == Len(list)
           T == {n \in Nat : n \in 1 .. N => Good(n)}
<1>1. /\ N \in Nat
      /\ \A i \in 1 .. N : list[i] \in Entry
      /\ \A i \in 1 .. N : IndItem(t, list[i]) \in Seq(Ops)
  <2>1. \A i \in 1 .. N : list[i] \in Entry
    OBVIOUS
  <2> QED BY <2>1, ItemOps
<1>2. \A n \in 1 .. N : I(n) \in Seq(Seq(Ops)) /\ Len(I(n)) = n
                       /\ \A i \in 1 .. n : I(n)[i] = IndItem(t, list[i])
  <2> TAKE n \in 1 .. N
  <2>1. n \in Nat /\ \A i \in 1 .. n : IndItem(t, list[i]) \in Seq(Ops)
    BY <1>1
  <2> QED BY <2>1
<1>3. 0 \in T
  OBVIOUS
<1>4. ASSUME NEW n \in Nat, n \in T
      PROVE  n + 1 \in T
  <2> SUFFICES ASSUME n + 1 \in 1 .. N
               PROVE  Good(n + 1)
    <3> HIDE DEF Good, N
    <3> QED OBVIOUS
  <2> DEFINE x == list[n + 1]
             e == IndItem(t, x)
  <2>1. x \in Entry /\ e \in Seq(Ops)
    BY <1>1
  <2>2. CASE n = 0
    <3>1. x.sep # ":" /\ x = list[1] /\ n + 1 = 1
      <4>1. n + 1 = 1 /\ 1 \in 1 .. N /\ ~(1 > 1)
        BY <2>2
      <4>2. list[1].sep # ":"
        BY <4>1, RangeStart
      <4> QED BY <4>1, <4>2
    <3>2. I(1) = <<e>>
      <4> DEFINE a == I(1)
                 b == <<e>>
      <4>1. 1 \in 1 .. N
        BY <2>2
      <4>2. a \in Seq(Seq(Ops)) /\ Len(a) = 1 /\ a[1] = e
        BY <1>2, <3>1, <4>1
      <4>3. b \in Seq(Seq(Ops)) /\ Len(b) = 1 /\ b[1] = e
        <5> HIDE DEF e
        <5> QED BY <2>1
      <4> HIDE DEF a, b
      <4>4. a = b
        BY <4>2, <4>3, SameSeq
      <4> QED BY <4>4 DEF a, b
    <3>3. FlattenSeq(<<e>>) = e
      BY <2>1, FlattenOne
    <3>4. Coded(t, e, x) /\ \A i \in 1 .. Len(e) : e[i].type # "SEQU"
      BY <2>1, <3>1, ItemOps
    <3>5. Spanned(e)
      <4> HIDE DEF e
      <4>1. e \in Seq(Ops)
        BY <2>1
      <4> QED BY <3>4, <4>1 DEF Spanned
    <3>6. F(n + 1) = e
      BY <3>1, <3>2, <3>3, Zenon
    <3> QED BY <3>4, <3>5, <3>6, Zenon
  <2>3. CASE n # 0
    <3>1. n \in 1 .. N /\ n + 1 > 1 /\ (n + 1) - 1 = n
      BY <1>1, <2>3
    <3>2. Good(n)
      <4> HIDE DEF Good, N
      <4> QED BY <1>4, <3>1
    <3>3. I(n + 1) = I(n) \o <<e>>
      <4> DEFINE a == I(n)
                 b == <<e>>
                 c == I(n + 1)
      <4>1. /\ a \in Seq(Seq(Ops)) /\ Len(a) = n
            /\ \A i \in 1 .. n : a[i] = IndItem(t, list[i])
        BY <1>2, <3>1
      <4>2. /\ c \in Seq(Seq(Ops)) /\ Len(c) = n + 1
            /\ \A i \in 1 .. n + 1 : c[i] = IndItem(t, list[i])
        BY <1>2, <3>1
      <4>3. b \in Seq(Seq(Ops)) /\ Len(b) = 1 /\ b[1] = e
        <5> HIDE DEF e
        <5> QED BY <2>1
      <4> HIDE DEF a, b, c
      <4>4. Len(c) = Len(a) + Len(b)
        BY <4>1, <4>2, <4>3
      <4>5. \A i \in 1 .. Len(a) : c[i] = a[i]
        BY <4>1, <4>2
      <4>6. \A i \in 1 .. Len(b) : c[Len(a) + i] = b[i]
        <5>1. c[n + 1] = e
          BY <4>2
        <5> HIDE DEF e
        <5> QED BY <4>1, <4>3, <5>1
      <4>7. a \o b = c
        BY <4>1, <4>2, <4>3, <4>4, <4>5, <4>6, CatIs
      <4> QED BY <4>7 DEF a, b, c
    <3>4. FlattenSeq(I(n) \o <<e>>) = FlattenSeq(I(n)) \o e
      <4>1. I(n) \in Seq(Seq(Ops))
        BY <1>2, <3>1
      <4> QED BY <2>1, <4>1, FlattenAppend
    <3>5. x.sep = ":" => list[n].sep # ":"
      <4>1. \A i \in 1 .. N : list[i].sep = ":" => i > 1 /\ list[i - 1].sep # ":"
        BY RangeStart
      <4> QED BY <3>1, <4>1
    <3>6. Forward(t, list) /\ x.sep = ":" => Span(t, list[n].p, x.p) >= 1
      <4>1. n + 1 \in 2 .. N
        BY <1>1, <3>1
      <4> QED BY <3>1, <4>1 DEF Forward
    <3>7. list[n] \in Entry
      BY <1>1, <3>1
    <3> DEFINE s == F(n)
               w == list[n]
    <3> HIDE DEF s, w, x
    <3>8. Coded(t, s, w) /\ (Forward(t, list) => Spanned(s)) /\ w \in Entry /\ x \in Entry
      BY <2>1, <3>2, <3>7 DEF s, w
    <3>9. x.sep = ":" => w.sep # ":"
      BY <3>5 DEF w
    <3>10. Forward(t, list) /\ x.sep = ":" => Span(t, w.p, x.p) >= 1
      BY <3>6 DEF w
    <3>11. Coded(t, s \o IndItem(t, x), x)
      BY <3>8, <3>9, CodedNext
    <3>12. Forward(t, list) => Spanned(s \o IndItem(t, x))
      BY <3>8, <3>9, <3>10, CodedNext
    <3>13. F(n + 1) = s \o IndItem(t, x)
      BY <3>3, <3>4, Zenon DEF s
    <3> QED BY <3>11, <3>12, <3>13, Zenon DEF x
  <2> QED BY <2>2, <2>3
<1> HIDE DEF T
<1>5. Nat \subseteq T
  BY <1>3, <1>4, AllNumbers
<1>6. k \in T
  BY <1>5
<1>7. Good(k)
  <2> HIDE DEF Good
  <2> QED BY <1>6 DEF T
<1> QED BY <1>7, Zenon


LEMMA EncodeClosed ==
  ASSUME NEW t \in Types, NEW list \in Lists, WellFormed(list)
  PROVE  LET e == Encode(t, list)
         IN Closed(t, e) /\ (Forward(t, list) => Spanned(e))
<1> DEFINE N == Len(list)
           I == [i \in 1 .. N |-> IndItem(t, list[i])]
           f == FlattenSeq(I)
           g == Op("GRUP", 1)
           e == f \o <<g>>
<1>1. t \in RelayTypes
  BY IrtVmAssumption
<1>2. list \in Seq(Entry) /\ N \in Nat /\ DOMAIN list = 1 .. N
  <2>1. list \in Seq(Entry)
    BY <1>1, RangeStart
  <2> QED BY <2>1
<1>3. Encode(t, list) = e
  BY <1>2, Zenon DEF Encode, IndItem
<1>4. g \in Ops /\ g.type = "GRUP"
  BY KindType
<1> HIDE DEF I, g
<1>5. CASE N = 0
  <2>1. f = << >>
    <3>1. I = << >>
      BY <1>5 DEF I
    <3> QED BY <3>1, FlattenEmpty, Zenon
  <2>2. << >> \o <<g>> = <<g>>
    BY <1>4
  <2>3. e = <<g>>
    BY <2>1, <2>2, Zenon
  <2> DEFINE s == <<g>>
  <2>4. s \in Seq(Ops) /\ Len(s) = 1 /\ s[1] = g
    BY <1>4
  <2> HIDE DEF s, e
  <2>5. Closed(t, s)
    <3>1. \A i \in 1 .. Len(s) : s[i].type = "GRUP"
      BY <1>4, <2>4
    <3>2. 1 \in 1 .. Len(s) /\ Len(s) \in 1 .. Len(s) /\ Len(s) >= 1
      BY <2>4
    <3> QED BY <2>4, <3>1, <3>2 DEF Closed
  <2>6. Spanned(s)
    BY <2>4 DEF Spanned
  <2> QED BY <1>3, <2>3, <2>5, <2>6 DEF s
<1>6. CASE N # 0
  <2>1. N \in 1 .. Len(list)
    BY <1>2, <1>6
  <2>2. Coded(t, f, list[N]) /\ (Forward(t, list) => Spanned(f))
    <3>1. LET h == FlattenSeq([i \in 1 .. N |-> IndItem(t, list[i])])
          IN Coded(t, h, list[N]) /\ (Forward(t, list) => Spanned(h))
      <4> HIDE DEF N, f, e
      <4> QED BY <1>1, <1>2, <2>1, PrefixCoded
    <3> QED BY <3>1 DEF I
  <2> DEFINE m == Len(f)
  <2>3. /\ f \in Seq(Ops) /\ m \in Nat /\ m >= 1
        /\ \A i \in 1 .. m : f[i].type \in {t, "SEQU", "GRUP"}
        /\ \A i \in 1 .. m : f[i].type = "SEQU" => i > 1 /\ f[i - 1].type = t
    <3> HIDE DEF f
    <3>1. f \in Seq(Ops) /\ f # << >>
      BY <2>2 DEF Coded
    <3>2. Len(f) \in Nat /\ Len(f) >= 1
      BY <3>1
    <3> QED BY <2>2, <3>1, <3>2 DEF Coded
  <2> HIDE DEF f
  <2>4. /\ e \in Seq(Ops) /\ Len(e) = m + 1 /\ e[m + 1] = g
        /\ \A i \in 1 .. m : e[i] = f[i]
    BY <1>4, <2>3
  <2> HIDE DEF e, m
  <2>5. \A i \in 1 .. m + 1 : i \in 1 .. m \/ i = m + 1
    BY <2>3
  <2>6. \A i \in 1 .. Len(e) : e[i].type \in {t, "SEQU", "GRUP"}
    BY <1>4, <2>3, <2>4, <2>5
  <2>7. \A i \in 1 .. Len(e) : e[i].type = "SEQU" => i > 1 /\ e[i - 1].type = t
    <3> SUFFICES ASSUME NEW i \in 1 .. Len(e), e[i].type = "SEQU"
                 PROVE  i > 1 /\ e[i - 1].type = t
      OBVIOUS
    <3>1. i \in 1 .. m
      BY <1>4, <2>4, <2>5
    <3>2. i > 1 /\ f[i - 1].type = t
      BY <2>3, <2>4, <3>1
    <3>3. i - 1 \in 1 .. m
      BY <2>3, <3>1, <3>2
    <3> QED BY <2>4, <3>2, <3>3
  <2>8. e[1].type # "SEQU"
    <3>1. 1 \in 1 .. Len(e) /\ ~(1 > 1)
      BY <2>3, <2>4
    <3> QED BY <2>7, <3>1
  <2>9. Closed(t, e)
    <3>1. Len(e) >= 1 /\ e[Len(e)] = g
      BY <2>3, <2>4
    <3> QED BY <1>4, <2>4, <2>6, <2>7, <2>8, <3>1 DEF Closed
  <2>10. ASSUME Forward(t, list)
         PROVE  Spanned(e)
    <3> SUFFICES ASSUME NEW i \in 2 .. Len(e), e[i].type = "SEQU"
                 PROVE  Span(e[i - 1].type, e[i - 1].p, e[i].p) >= 1
      BY DEF Spanned
    <3>1. i \in 2 .. m /\ i \in 1 .. m /\ i - 1 \in 1 .. m
      <4>1. i # m + 1
        BY <1>4, <2>4
      <4> QED BY <2>3, <2>4, <4>1
    <3>2. e[i] = f[i] /\ e[i - 1] = f[i - 1]
      BY <2>4, <3>1
    <3> QED BY <2>2, <2>10, <3>1, <3>2 DEF Spanned, m
  <2> QED BY <1>3, <2>9, <2>10
<1> QED BY <1>5, <1>6


-----------------------------------------------------------------------------
(* The opcodes that are still to be fetched: what may follow what. *)

StreamOK(s) ==
  \A i \in 1 .. Len(s) :
    /\ Relay(s[i]) => i < Len(s) /\ s[i + 1].type \in {"SEQU", "GRUP", s[i].type}
    /\ s[i].type = "SEQU" => /\ i > 1 /\ Relay(s[i - 1])
                             /\ i < Len(s) /\ s[i + 1].type \in {"GRUP", s[i - 1].type}
    /\ s[i].type = "NULL" => i = 1

NoNull(s) == \A i \in 1 .. Len(s) : s[i].type # "NULL"

LEMMA RelayKinds ==
  /\ \A x : Relay(x) => x.type \notin {"SEQU", "GRUP", "WAIT", "NULL"}
  /\ \A x : Relay(x) <=> x.type \in RelayTypes
  /\ {"SEQU", "GRUP", "WAIT", "NULL"} \cap RelayTypes = {}
  BY DEF Relay, RelayTypes

LEMMA StreamCat ==
  ASSUME NEW a \in Seq(Ops), NEW b \in Seq(Ops), StreamOK(a), StreamOK(b), NoNull(b),
         b # << >> => b[1].type # "SEQU"
  PROVE  /\ StreamOK(a \o b)
         /\ Spanned(a) /\ Spanned(b) => Spanned(a \o b)
<1> DEFINE c == a \o b
           m == Len(a)
           n == Len(b)
<1>1. /\ c \in Seq(Ops) /\ Len(c) = m + n /\ m \in Nat /\ n \in Nat
      /\ \A i \in 1 .. m : c[i] = a[i]
      /\ \A i \in 1 .. n : c[m + i] = b[i]
  <2>1. Len(a) \in Nat /\ Len(b) \in Nat
    OBVIOUS
  <2> QED BY <2>1, CatSeq
<1>2. n # 0 => b[1].type # "SEQU"
  BY EmptySeq
<1>3. /\ \A i \in 1 .. m :
           /\ Relay(a[i]) => i < m /\ a[i + 1].type \in {"SEQU", "GRUP", a[i].type}
           /\ a[i].type = "SEQU" => /\ i > 1 /\ Relay(a[i - 1])
                                    /\ i < m /\ a[i + 1].type \in {"GRUP", a[i - 1].type}
           /\ a[i].type = "NULL" => i = 1
      /\ \A i \in 1 .. n :
           /\ Relay(b[i]) => i < n /\ b[i + 1].type \in {"SEQU", "GRUP", b[i].type}
           /\ b[i].type = "SEQU" => /\ i > 1 /\ Relay(b[i - 1])
                                    /\ i < n /\ b[i + 1].type \in {"GRUP", b[i - 1].type}
           /\ b[i].type # "NULL"
  BY Zenon DEF StreamOK, NoNull
<1> HIDE DEF c, m, n
<1>4. \A i \in 1 .. Len(c) : i \in 1 .. m \/ \E j \in 1 .. n : i = m + j
  <2> TAKE i \in 1 .. Len(c)
  <2>1. CASE i > m
    <3>1. i - m \in 1 .. n /\ i = m + (i - m)
      BY <1>1, <2>1
    <3> QED BY <3>1
  <2> QED BY <1>1, <2>1
<1>5. StreamOK(c)
  <2> SUFFICES ASSUME NEW i \in 1 .. Len(c)
               PROVE  /\ Relay(c[i]) => i < Len(c) /\ c[i + 1].type \in {"SEQU", "GRUP", c[i].type}
                      /\ c[i].type = "SEQU" => /\ i > 1 /\ Relay(c[i - 1])
                                               /\ i < Len(c) /\ c[i + 1].type \in {"GRUP", c[i - 1].type}
                      /\ c[i].type = "NULL" => i = 1
    BY Zenon DEF StreamOK
  <2>1. CASE i \in 1 .. m
    <3>1. c[i] = a[i] /\ (i > 1 => c[i - 1] = a[i - 1])
      <4>1. i > 1 => i - 1 \in 1 .. m
        BY <1>1, <2>1
      <4> QED BY <1>1, <2>1, <4>1
    <3>2. i < m => i < Len(c) /\ c[i + 1] = a[i + 1]
      <4>1. i < m => i + 1 \in 1 .. m /\ i < Len(c)
        BY <1>1, <2>1
      <4> QED BY <1>1, <4>1
    <3> QED BY <1>3, <2>1, <3>1, <3>2, Zenon
  <2>2. CASE \E j \in 1 .. n : i = m + j
    <3>1. PICK j \in 1 .. n : i = m + j
      BY <2>2
    <3>2. c[i] = b[j] /\ (j > 1 => i > 1 /\ c[i - 1] = b[j - 1])
      <4>1. j > 1 => j - 1 \in 1 .. n /\ i - 1 = m + (j - 1) /\ i > 1
        BY <1>1, <3>1
      <4> QED BY <1>1, <3>1, <4>1
    <3>3. j < n => i < Len(c) /\ c[i + 1] = b[j + 1]
      <4>1. j < n => j + 1 \in 1 .. n /\ i + 1 = m + (j + 1) /\ i < Len(c)
        BY <1>1, <3>1
      <4> QED BY <1>1, <4>1
    <3> QED BY <1>3, <3>2, <3>3, Zenon
  <2> QED BY <1>4, <2>1, <2>2
<1>6. ASSUME Spanned(a), Spanned(b)
      PROVE  Spanned(c)
  <2> SUFFICES ASSUME NEW i \in 2 .. Len(c), c[i].type = "SEQU"
               PROVE  Span(c[i - 1].type, c[i - 1].p, c[i].p) >= 1
    BY DEF Spanned
  <2>1. i \in 1 .. Len(c)
    BY <1>1
  <2>2. CASE i \in 1 .. m
    <3>1. i - 1 \in 1 .. m /\ i \in 2 .. m
      BY <1>1, <2>2
    <3>2. c[i] = a[i] /\ c[i - 1] = a[i - 1]
      BY <1>1, <3>1, <2>2
    <3> QED BY <1>6, <3>1, <3>2 DEF Spanned, m
  <2>3. CASE \E j \in 1 .. n : i = m + j
    <3>1. PICK j \in 1 .. n : i = m + j
      BY <2>3
    <3>2. c[i] = b[j]
      BY <1>1, <3>1
    <3>3. j > 1
      <4>1. b[j].type = "SEQU"
        BY <2>2, <3>2
      <4> QED BY <1>3, <4>1
    <3>4. j - 1 \in 1 .. n /\ i - 1 = m + (j - 1) /\ j \in 2 .. n
      BY <1>1, <3>1, <3>3
    <3>5. c[i - 1] = b[j - 1]
      BY <1>1, <3>4
    <3> QED BY <1>6, <3>2, <3>4, <3>5 DEF Spanned, n
  <2> QED BY <1>4, <2>1, <2>2, <2>3
<1> QED BY <1>5, <1>6 DEF c

(* What is left when the first opcodes are taken.                          *)
LEMMA StreamRest ==
  ASSUME NEW s \in Seq(Ops), StreamOK(s), NEW r \in Seq(Ops),
         NEW k \in Nat, k >= 1, Len(s) = k + Len(r),
         \A i \in 1 .. Len(r) : r[i] = s[k + i],
         r # << >> => r[1].type # "SEQU"
  PROVE  StreamOK(r) /\ NoNull(r) /\ (Spanned(s) => Spanned(r))
<1> DEFINE n == Len(r)
<1>1. n \in Nat /\ Len(s) = k + n /\ (n # 0 => r[1].type # "SEQU")
  <2>1. Len(r) \in Nat
    OBVIOUS
  <2> QED BY <2>1, EmptySeq
<1>2. \A i \in 1 .. Len(s) :
           /\ Relay(s[i]) => i < Len(s) /\ s[i + 1].type \in {"SEQU", "GRUP", s[i].type}
           /\ s[i].type = "SEQU" => /\ i > 1 /\ Relay(s[i - 1])
                                    /\ i < Len(s) /\ s[i + 1].type \in {"GRUP", s[i - 1].type}
           /\ s[i].type = "NULL" => i = 1
  BY Zenon DEF StreamOK
<1>3. \A i \in 1 .. n : r[i] = s[k + i]
  OBVIOUS
<1> HIDE DEF n
<1>4. ASSUME NEW i \in 1 .. n
      PROVE  /\ k + i \in 1 .. Len(s) /\ k + i # 1 /\ r[i] = s[k + i]
             /\ (i < n <=> k + i < Len(s)) /\ (i < n => r[i + 1] = s[(k + i) + 1])
             /\ (i > 1 => r[i - 1] = s[(k + i) - 1])
  <2>1. i < n => i + 1 \in 1 .. n /\ (k + i) + 1 = k + (i + 1)
    BY <1>1
  <2>2. i > 1 => i - 1 \in 1 .. n /\ (k + i) - 1 = k + (i - 1)
    BY <1>1
  <2>3. k + i \in 1 .. Len(s) /\ k + i # 1 /\ (i < n <=> k + i < Len(s))
    BY <1>1
  <2> QED BY <1>3, <2>1, <2>2, <2>3
<1>5. ASSUME NEW i \in 1 .. n, r[i].type = "SEQU"
      PROVE  i > 1
  BY <1>1, <1>5
<1>6. StreamOK(r)
  <2> SUFFICES ASSUME NEW i \in 1 .. n
               PROVE  /\ Relay(r[i]) => i < n /\ r[i + 1].type \in {"SEQU", "GRUP", r[i].type}
                      /\ r[i].type = "SEQU" => /\ i > 1 /\ Relay(r[i - 1])
                                               /\ i < n /\ r[i + 1].type \in {"GRUP", r[i - 1].type}
                      /\ r[i].type = "NULL" => i = 1
    BY Zenon DEF StreamOK, n
  <2>1. /\ k + i \in 1 .. Len(s) /\ k + i # 1 /\ r[i] = s[k + i]
        /\ (i < n <=> k + i < Len(s)) /\ (i < n => r[i + 1] = s[(k + i) + 1])
        /\ (i > 1 => r[i - 1] = s[(k + i) - 1])
    BY <1>4
  <2>2. r[i].type = "SEQU" => i > 1
    BY <1>5
  <2> QED BY <1>2, <2>1, <2>2, Zenon
<1>7. NoNull(r)
  BY <1>2, <1>4 DEF NoNull, n
<1>8. ASSUME Spanned(s)
      PROVE  Spanned(r)
  <2> SUFFICES ASSUME NEW i \in 2 .. n, r[i].type = "SEQU"
               PROVE  Span(r[i - 1].type, r[i - 1].p, r[i].p) >= 1
    BY DEF Spanned, n
  <2>1. i \in 1 .. n /\ i > 1
    BY <1>1
  <2>2. k + i \in 2 .. Len(s)
    BY <1>1, <2>1
  <2>3. r[i] = s[k + i] /\ r[i - 1] = s[(k + i) - 1]
    BY <1>4, <2>1
  <2> QED BY <1>8, <2>2, <2>3 DEF Spanned
<1> QED BY <1>6, <1>7, <1>8

LEMMA StreamParts ==
  /\ StreamOK(<<Nul>>) /\ Spanned(<<Nul>>)
  /\ StreamOK(<<Op("WAIT", 0)>>) /\ NoNull(<<Op("WAIT", 0)>>) /\ Spanned(<<Op("WAIT", 0)>>)
<1> DEFINE w == Op("WAIT", 0)
           a == <<Nul>>
           b == <<w>>
<1>1. w.type = "WAIT" /\ Nul.type = "NULL"
  BY OpType
<1>2. Len(a) = 1 /\ a[1] = Nul /\ Len(b) = 1 /\ b[1] = w
  OBVIOUS
<1> HIDE DEF w, a, b
<1>3. ~Relay(w) /\ ~Relay(Nul)
  BY <1>1 DEF Relay, RelayTypes
<1>4. \A i \in 1 .. 1 : i = 1
  OBVIOUS
<1>5. StreamOK(a) /\ StreamOK(b)
  BY <1>1, <1>2, <1>3, <1>4 DEF StreamOK
<1>6. NoNull(b)
  BY <1>1, <1>2, <1>4 DEF NoNull
<1>7. Spanned(a) /\ Spanned(b)
  BY <1>2 DEF Spanned
<1> QED BY <1>5, <1>6, <1>7 DEF w, a, b

LEMMA ClosedStream ==
  ASSUME NEW t \in RelayTypes, NEW e, Closed(t, e)
  PROVE  StreamOK(e) /\ NoNull(e)
<1>1. /\ e \in Seq(Ops) /\ Len(e) >= 1 /\ e[Len(e)].type = "GRUP"
      /\ \A i \in 1 .. Len(e) : e[i].type \in {t, "SEQU", "GRUP"}
      /\ \A i \in 1 .. Len(e) : e[i].type = "SEQU" => i > 1 /\ e[i - 1].type = t
  BY DEF Closed
<1>2. Len(e) \in Nat
  BY <1>1
<1>3. t \notin {"SEQU", "GRUP", "NULL"} /\ "SEQU" \notin RelayTypes /\ "GRUP" \notin RelayTypes
  BY DEF RelayTypes
<1>4. \A i \in 1 .. Len(e) :
        e[i].type # "GRUP" => i < Len(e) /\ e[i + 1].type \in {t, "SEQU", "GRUP"}
  <2> SUFFICES ASSUME NEW i \in 1 .. Len(e), e[i].type # "GRUP"
               PROVE  i < Len(e) /\ e[i + 1].type \in {t, "SEQU", "GRUP"}
    OBVIOUS
  <2>1. i # Len(e)
    BY <1>1
  <2>2. \A n \in Nat : \A j \in 1 .. n : j # n => j < n /\ j + 1 \in 1 .. n
    OBVIOUS
  <2>3. i < Len(e) /\ i + 1 \in 1 .. Len(e)
    BY <1>2, <2>1, <2>2
  <2> QED BY <1>1, <2>3
<1>5. NoNull(e)
  BY <1>1, <1>3 DEF NoNull
<1>6. StreamOK(e)
  <2> SUFFICES ASSUME NEW i \in 1 .. Len(e)
               PROVE  /\ Relay(e[i]) => i < Len(e) /\ e[i + 1].type \in {"SEQU", "GRUP", e[i].type}
                      /\ e[i].type = "SEQU" => /\ i > 1 /\ Relay(e[i - 1])
                                               /\ i < Len(e) /\ e[i + 1].type \in {"GRUP", e[i - 1].type}
                      /\ e[i].type = "NULL" => i = 1
    BY Zenon DEF StreamOK
  <2>1. CASE e[i].type = "GRUP"
    BY <1>3, <2>1 DEF Relay
  <2>2. CASE e[i].type = t
    BY <1>3, <1>4, <2>2 DEF Relay
  <2>3. CASE e[i].type = "SEQU"
    <3>1. i > 1 /\ e[i - 1].type = t /\ i < Len(e) /\ e[i + 1].type \in {t, "SEQU", "GRUP"}
      BY <1>1, <1>4, <2>3
    <3>2. i + 1 \in 1 .. Len(e) /\ (i + 1) - 1 = i
      BY <1>2, <3>1
    <3>3. e[i + 1].type # "SEQU"
      <4>1. e[i + 1].type = "SEQU" => e[(i + 1) - 1].type = t
        BY <1>1, <3>2
      <4> QED BY <1>3, <2>3, <3>2, <4>1
    <3> QED BY <1>3, <2>3, <3>1, <3>3 DEF Relay
  <2> QED BY <1>1, <2>1, <2>2, <2>3
<1> QED BY <1>5, <1>6


-----------------------------------------------------------------------------
(* The invariant. *)

(* The opcodes that are not fetched yet: the one that vm_prefetch holds,   *)
(* and the queue.                                                          *)
Coming == IF loc = Nul THEN nxt ELSE loc
Stream == <<Coming>> \o opq

(* A relay operation, as vm_execute gets it.                               *)
Operation == Relay(cur) \/ cur.type = "SEQU"

Typed ==
  /\ TypeOK
  /\ frame \in [id : {"DAT", "CMD"}, ops : Seq(Ops)]
  /\ batch \in Nat /\ dirty \in BOOLEAN
  /\ \A x \in {loc, cur, seqend, nxt} : x.type = "NULL" => x = Nul

(* What vm_prefetch holds where, and what it promises of the end of a      *)
(* range and of the opcode after an operation.                             *)
Fetch ==
  /\ loc # Nul <=> At = "look"
  /\ loc # Nul => nxt = Nul /\ cur = Nul
  /\ loc.type # "SEQU" /\ nxt.type # "SEQU"
  /\ At \in {"run", "exec", "push"} => cur # Nul
  /\ cur.type = "SEQU" => Relay(seqend)
  /\ cur.type # "SEQU" => seqend = Nul
  /\ Operation => nxt.type \in {"GRUP", Type}
  /\ StreamOK(Stream)

Whole(ops) ==
  \A i \in 1 .. Len(ops) :
    IF ops[i].type = "SEQU" THEN i < Len(ops) /\ Relay(ops[i + 1]) ELSE Relay(ops[i])

(* The type of the opcode that vm_execute gets next.                       *)
NextType == IF cur # Nul THEN Type ELSE IF loc # Nul THEN loc.type ELSE nxt.type

(* What waits in mxc_odata is of one type, and the next opcode is of that  *)
(* type too or ends the group.                                             *)
Packed ==
  /\ Whole(odata) /\ Whole(frame.ops)
  /\ odata # << >> => tsaved \in RelayTypes
  /\ odata # << >> /\ At # "group" => NextType \in {"GRUP", tsaved}
  /\ At = "push" => Operation /\ odata = << >> /\ Type = tsaved
  /\ At \in {"latch", "measure", "end"} => odata = << >>

(* A scan group is open only in the middle of a scan.                      *)
Counted ==
  /\ cnt # 0 => IsScan(tsaved)
  /\ At \in {"exec", "push"} /\ ~IsScan(Type) /\ Type # "GRUP" => cnt = 0
  /\ At \in {"latch", "measure"} => cnt = 0 /\ frame.id = "CMD"
  /\ At = "end" /\ frame.id = "CMD" => cnt = 0
  /\ At = "measure" => IsScan(tsaved)

IInv == Typed /\ Fetch /\ Packed /\ Counted

-----------------------------------------------------------------------------
(* Where the main routine is. *)

Places == {"top", "look", "run", "exec", "push", "group", "latch", "measure", "end"}

LEMMA AtType ==
  ASSUME Typed
  PROVE  At \in Places /\ (pc # "trap" => At = pc) /\ (pc = "trap" => At = ret)
  BY DEF Typed, TypeOK, At, Places

LEMMA AtMoves ==
  ASSUME Typed
  PROVE  /\ \A x \in Places : Go(x) => At' = x
         /\ \A x \in Places : Raise(x) => At' = x
         /\ \A x \in Places : Fail(x) => At' = x
         /\ UNCHANGED <<pc, ret>> => At' = At
  BY DEF Go, Raise, Fail, At, Places


LEMMA Pieces ==
  ASSUME Typed
  PROVE  /\ loc \in Ops /\ cur \in Ops /\ seqend \in Ops /\ nxt \in Ops /\ Coming \in Ops
         /\ opq \in Seq(Ops) /\ Len(opq) \in Nat /\ odata \in Seq(Ops) /\ Len(odata) \in Nat
         /\ Stream \in Seq(Ops) /\ Len(Stream) = Len(opq) + 1 /\ Stream[1] = Coming
         /\ \A i \in 1 .. Len(opq) : Stream[i + 1] = opq[i]
<1>1. /\ loc \in Ops /\ cur \in Ops /\ seqend \in Ops /\ nxt \in Ops
      /\ opq \in Seq(Ops) /\ odata \in Seq(Ops)
  BY DEF Typed, TypeOK
<1>2. Coming \in Ops
  BY <1>1 DEF Coming
<1>3. ASSUME NEW x \in Ops, NEW q \in Seq(Ops)
      PROVE  LET s == <<x>> \o q
             IN /\ s \in Seq(Ops) /\ Len(s) = Len(q) + 1 /\ s[1] = x
                /\ \A i \in 1 .. Len(q) : s[i + 1] = q[i]
  OBVIOUS
<1> QED BY <1>1, <1>2, <1>3 DEF Stream

(* What the head of the stream tells of the queue.                         *)
LEMMA Ahead ==
  ASSUME Typed, Fetch
  PROVE  /\ Relay(Coming) => /\ opq # << >>
                             /\ opq[1].type \in {"SEQU", "GRUP", Coming.type}
         /\ opq # << >> /\ opq[1].type = "SEQU" =>
              Relay(Coming) /\ Len(opq) >= 2 /\ opq[2].type \in {"GRUP", Coming.type}
         /\ NoNull(opq)
<1> DEFINE s == Stream
           n == Len(opq)
<1>1. /\ n \in Nat /\ Len(s) = n + 1 /\ s[1] = Coming
      /\ \A i \in 1 .. n : s[i + 1] = opq[i]
  BY Pieces
<1>2. opq = << >> <=> n = 0
  BY Pieces, EmptySeq
<1>3. \A i \in 1 .. Len(s) :
           /\ Relay(s[i]) => i < Len(s) /\ s[i + 1].type \in {"SEQU", "GRUP", s[i].type}
           /\ s[i].type = "SEQU" => /\ i > 1 /\ Relay(s[i - 1])
                                    /\ i < Len(s) /\ s[i + 1].type \in {"GRUP", s[i - 1].type}
           /\ s[i].type = "NULL" => i = 1
  BY Zenon DEF Fetch, StreamOK
<1> HIDE DEF s, n
<1>4. /\ 1 \in 1 .. Len(s)
      /\ n # 0 => 2 \in 1 .. Len(s) /\ s[2] = opq[1]
      /\ n > 1 => s[3] = opq[2]
  <2>1. n # 0 => 1 \in 1 .. n /\ 1 + 1 = 2 /\ 2 \in 1 .. Len(s)
    BY <1>1
  <2>2. n > 1 => 2 \in 1 .. n /\ 2 + 1 = 3
    BY <1>1
  <2> QED BY <1>1, <2>1, <2>2
<1>5. Relay(Coming) => /\ n # 0
                       /\ opq[1].type \in {"SEQU", "GRUP", Coming.type}
  <2> SUFFICES ASSUME Relay(s[1])
               PROVE  n # 0 /\ s[2].type \in {"SEQU", "GRUP", s[1].type}
    BY <1>1, <1>4
  <2>1. 1 < Len(s) /\ s[1 + 1].type \in {"SEQU", "GRUP", s[1].type}
    BY <1>3, <1>4
  <2> QED BY <1>1, <2>1
<1>6. ASSUME n # 0, opq[1].type = "SEQU"
      PROVE  Relay(Coming) /\ n >= 2 /\ opq[2].type \in {"GRUP", Coming.type}
  <2>1. /\ Relay(s[2 - 1]) /\ 2 < Len(s) /\ s[2 + 1].type \in {"GRUP", s[2 - 1].type}
    BY <1>3, <1>4, <1>6
  <2> QED BY <1>1, <1>4, <2>1
<1>7. NoNull(opq)
  <2> SUFFICES ASSUME NEW i \in 1 .. n
               PROVE  opq[i].type # "NULL"
    BY DEF NoNull, n
  <2>1. i + 1 \in 1 .. Len(s) /\ i + 1 # 1 /\ s[i + 1] = opq[i]
    BY <1>1
  <2> QED BY <1>3, <2>1
<1> QED BY <1>2, <1>5, <1>6, <1>7 DEF n

(* The next opcode of the queue, when no end of a range.                   *)
LEMMA QueueHead ==
  ASSUME Typed, Fetch, opq # << >>
  PROVE  /\ Head(opq) \in Ops /\ Head(opq) = opq[1] /\ Head(opq).type # "NULL"
         /\ Head(opq) # Nul /\ Tail(opq) \in Seq(Ops)
         /\ Len(opq) \in Nat /\ Len(Tail(opq)) = Len(opq) - 1
         /\ \A i \in 1 .. Len(Tail(opq)) : Tail(opq)[i] = opq[i + 1]
         /\ opq = <<Head(opq)>> \o Tail(opq)
<1>1. opq \in Seq(Ops)
  BY Pieces
<1>2. /\ Head(opq) \in Ops /\ Head(opq) = opq[1] /\ Tail(opq) \in Seq(Ops)
      /\ Len(opq) \in Nat /\ Len(opq) >= 1 /\ Len(Tail(opq)) = Len(opq) - 1
      /\ \A i \in 1 .. Len(Tail(opq)) : Tail(opq)[i] = opq[i + 1]
      /\ opq = <<Head(opq)>> \o Tail(opq)
  BY <1>1, FirstRest
<1>3. opq[1].type # "NULL"
  <2>1. 1 \in 1 .. Len(opq)
    BY <1>2
  <2> QED BY <2>1, Ahead DEF NoNull
<1>4. Nul.type = "NULL"
  BY OpType
<1> QED BY <1>2, <1>3, <1>4

LEMMA PrefetchIs ==
  ASSUME NEW x, NEW q
  PROVE  /\ x.type = "GRUP" => Prefetch(x, q) = [op |-> x, nxt |-> Nul, q |-> q]
         /\ x.type # "GRUP" /\ Head(q).type # "SEQU" =>
              Prefetch(x, q) = [op |-> x, nxt |-> Head(q), q |-> Tail(q)]
         /\ x.type # "GRUP" /\ Head(q).type = "SEQU" =>
              Prefetch(x, q) = [op |-> Op("SEQU", x.p), nxt |-> Op(x.type, Head(q).p), q |-> Tail(q)]
  BY DEF Prefetch, Exchange

(* What Look makes of the opcode that vm_prefetch holds: a tag goes alone, *)
(* a range takes two more opcodes.                                         *)
LookTag ==
  /\ loc.type = "GRUP"
  /\ cur' = loc /\ seqend' = Nul /\ nxt' = Nul /\ opq' = opq
LookPoint ==
  /\ loc.type # "GRUP" /\ opq # << >> /\ opq[1].type # "SEQU"
  /\ cur' = loc /\ seqend' = Nul /\ nxt' = opq[1] /\ opq' = Tail(opq)
LookRange ==
  /\ Relay(loc) /\ opq # << >> /\ opq[1].type = "SEQU"
  /\ Len(opq) >= 2 /\ opq[2].type \in {"GRUP", loc.type}
  /\ cur' = Op("SEQU", loc.p) /\ seqend' = Op(loc.type, opq[1].p)
  /\ nxt' = opq[2] /\ opq' = Tail(Tail(opq))

LEMMA LookCases ==
  ASSUME Typed, Fetch, Look
  PROVE  LookTag \/ LookPoint \/ LookRange
<1> DEFINE f == Prefetch(loc, opq)
           g == Prefetch(f.nxt, f.q)
<1>1. /\ loc.type = "GRUP" \/ opq # << >>
      /\ cur' = f.op
      /\ f.op.type = "SEQU" => seqend' = g.op /\ nxt' = g.nxt /\ opq' = g.q
      /\ f.op.type # "SEQU" => seqend' = Nul /\ nxt' = f.nxt /\ opq' = f.q
  BY Zenon DEF Look
<1>2. loc.type # "SEQU"
  BY DEF Fetch
<1>3. CASE loc.type = "GRUP"
  <2>1. f = [op |-> loc, nxt |-> Nul, q |-> opq]
    BY <1>3, PrefetchIs
  <2>2. f.op = loc /\ f.nxt = Nul /\ f.q = opq
    BY <2>1
  <2> QED BY <1>1, <1>2, <1>3, <2>2, Zenon DEF LookTag
<1>4. CASE loc.type # "GRUP" /\ opq[1].type # "SEQU"
  <2>1. opq # << >> /\ Head(opq) = opq[1]
    BY <1>1, <1>4, QueueHead
  <2>2. f = [op |-> loc, nxt |-> opq[1], q |-> Tail(opq)]
    BY <1>4, <2>1, PrefetchIs
  <2>3. f.op = loc /\ f.nxt = opq[1] /\ f.q = Tail(opq)
    BY <2>2
  <2> QED BY <1>1, <1>2, <1>4, <2>1, <2>3, Zenon DEF LookPoint
<1>5. CASE loc.type # "GRUP" /\ opq[1].type = "SEQU"
  <2>1. opq # << >> /\ Head(opq) = opq[1]
    BY <1>1, <1>5, QueueHead
  <2>2. loc # Nul /\ Coming = loc
    BY DEF Look, Fetch, At, Coming
  <2>3. Relay(loc) /\ Len(opq) >= 2 /\ opq[2].type \in {"GRUP", loc.type}
    BY <1>5, <2>1, <2>2, Ahead
  <2> DEFINE e == Op(loc.type, opq[1].p)
             b == Op("SEQU", loc.p)
             r == Tail(opq)
  <2>4. f = [op |-> b, nxt |-> e, q |-> r]
    BY <1>5, <2>1, PrefetchIs
  <2>5. f.op = b /\ f.nxt = e /\ f.q = r
    <3> HIDE DEF b, e, r
    <3> QED BY <2>4
  <2>6. b.type = "SEQU" /\ e.type = loc.type
    BY DEF Op
  <2>7. Head(r) = opq[2]
    <3>1. r \in Seq(Ops) /\ Len(r) = Len(opq) - 1 /\ Len(opq) \in Nat
          /\ \A i \in 1 .. Len(r) : r[i] = opq[i + 1]
      BY <2>1, QueueHead
    <3>2. r # << >> /\ 1 \in 1 .. Len(r)
      <4> HIDE DEF r
      <4> QED BY <2>3, <3>1
    <3>3. Head(r) = r[1]
      <4> HIDE DEF r
      <4> QED BY <3>1, <3>2, FirstRest
    <3> QED BY <3>1, <3>2, <3>3
  <2>8. opq[2].type # "SEQU" /\ e.type # "GRUP"
    BY <2>3, <2>6, RelayKinds
  <2> HIDE DEF b, e, r
  <2>9. g = [op |-> e, nxt |-> opq[2], q |-> Tail(r)]
    <3>1. Head(r).type # "SEQU"
      BY <2>7, <2>8
    <3>2. Prefetch(e, r) = [op |-> e, nxt |-> Head(r), q |-> Tail(r)]
      BY <2>8, <3>1, PrefetchIs
    <3> QED BY <2>5, <2>7, <3>2
  <2>10. g.op = e /\ g.nxt = opq[2] /\ g.q = Tail(r)
    BY <2>9
  <2>11. cur' = b /\ seqend' = e /\ nxt' = opq[2] /\ opq' = Tail(r)
    BY <1>1, <2>5, <2>6, <2>10, Zenon
  <2> QED BY <1>5, <2>1, <2>3, <2>11, Zenon DEF LookRange, b, e, r
<1> QED BY <1>1, <1>3, <1>4, <1>5


-----------------------------------------------------------------------------
(* Each step keeps the invariant. *)

LEMMA InitInv == ASSUME Init PROVE IInv
<1>1. /\ pc = "top" /\ ret = "top" /\ opq = << >> /\ loc = Nul /\ cur = Nul /\ seqend = Nul
      /\ nxt = Nul /\ arm = 1 /\ cnt = 0 /\ odata = << >> /\ tsaved = "NULL"
      /\ frame = [id |-> "CMD", ops |-> << >>] /\ ecode = FALSE /\ error = FALSE
      /\ batch = 0 /\ dirty = FALSE
  BY DEF Init
<1>2. Nul \in Ops /\ Nul.type = "NULL" /\ ~Relay(Nul)
  BY OpType, RelayKinds
<1>3. Typed
  <2>1. << >> \in Seq(Ops) /\ Len(<< >>) = 0
    OBVIOUS
  <2>2. QCap \in Nat /\ QCap > 0
    BY IrtVmAssumption
  <2>3. TypeOK
    <3>1. opq \in Seq(Ops) /\ Len(opq) < QCap /\ odata \in Seq(Ops) /\ Len(odata) <= FrameOps
      BY <1>1, <2>1, <2>2 DEF FrameOps
    <3>2. {loc, cur, seqend, nxt} \subseteq Ops
      BY <1>1, <1>2
    <3>3. arm \in Nat \ {0} /\ cnt \in Int /\ cnt < arm
      BY <1>1
    <3> QED BY <1>1, <3>1, <3>2, <3>3 DEF TypeOK
  <2>4. frame \in [id : {"DAT", "CMD"}, ops : Seq(Ops)]
    BY <1>1, <2>1
  <2>5. \A x \in {loc, cur, seqend, nxt} : x.type = "NULL" => x = Nul
    BY <1>1
  <2> QED BY <1>1, <2>3, <2>4, <2>5 DEF Typed
<1>4. At = "top"
  BY <1>1 DEF At
<1>5. Stream = <<Nul>>
  <2>1. Coming = Nul
    BY <1>1 DEF Coming
  <2>2. <<Nul>> \o << >> = <<Nul>>
    BY <1>2, OneSeq, CatEmpty
  <2> QED BY <1>1, <2>1, <2>2, Zenon DEF Stream
<1>6. Fetch
  BY <1>1, <1>2, <1>4, <1>5, StreamParts DEF Fetch, Operation
<1>7. Packed /\ Counted
  <2>1. Whole(<< >>)
    BY DEF Whole
  <2> QED BY <1>1, <1>4, <2>1 DEF Packed, Counted
<1> QED BY <1>3, <1>6, <1>7 DEF IInv

LEMMA TakeInv ==
  ASSUME IInv, Take
  PROVE  IInv' /\ (Spanned(Stream) => Spanned(Stream)')
<1>1. /\ pc = "top" /\ At = "top" /\ At' = "look" /\ cur = Nul /\ loc = Nul /\ nxt' = Nul
      /\ pc' = "look" /\ UNCHANGED <<ret, cur, seqend, arm, cnt, odata, tsaved, frame, ecode, error, batch, dirty>>
      /\ \/ nxt # Nul /\ loc' = nxt /\ opq' = opq
         \/ nxt = Nul /\ opq # << >> /\ loc' = Head(opq) /\ opq' = Tail(opq)
  BY DEF Take, Go, err, At, scan, out, hist, IInv, Fetch
<1>2. Typed /\ Fetch /\ Packed /\ Counted
  BY DEF IInv
<1>3. Nul \in Ops /\ Nul.type = "NULL" /\ ~Relay(Nul)
  BY OpType, RelayKinds
<1>4. CASE nxt # Nul
  <2>1. loc' = nxt /\ opq' = opq
    BY <1>1, <1>4
  <2>2. Coming = nxt /\ Coming' = nxt /\ Stream' = Stream
    BY <1>1, <1>4, <2>1 DEF Coming, Stream
  <2>3. Typed'
    BY <1>1, <1>2, <1>3, <1>4, <2>1 DEF Typed, TypeOK
  <2>4. Fetch'
    <3>1. StreamOK(Stream)'
      BY <1>2, <2>2 DEF Fetch
    <3> QED BY <1>1, <1>2, <1>3, <1>4, <2>1, <3>1 DEF Fetch, Operation
  <2>5. NextType' = NextType
    BY <1>1, <1>4, <2>1 DEF NextType
  <2>6. Packed' /\ Counted'
    BY <1>1, <1>2, <2>5 DEF Packed, Counted
  <2> QED BY <2>2, <2>3, <2>4, <2>6 DEF IInv
<1>5. CASE nxt = Nul
  <2>1. opq # << >> /\ loc' = Head(opq) /\ opq' = Tail(opq)
    BY <1>1, <1>5
  <2>2. /\ Head(opq) \in Ops /\ Head(opq) = opq[1] /\ Head(opq).type # "NULL"
        /\ Head(opq) # Nul /\ Tail(opq) \in Seq(Ops)
        /\ Len(opq) \in Nat /\ Len(Tail(opq)) = Len(opq) - 1
        /\ opq = <<Head(opq)>> \o Tail(opq)
    BY <1>2, <2>1, QueueHead
  <2>3. Coming = Nul /\ opq[1].type # "SEQU"
    <3>1. Coming = Nul
      BY <1>1, <1>5 DEF Coming
    <3> QED BY <1>2, <1>3, <2>1, <3>1, Ahead
  <2>4. Stream' = opq
    <3>1. Coming' = Head(opq)
      BY <2>1, <2>2 DEF Coming
    <3> QED BY <2>1, <2>2, <3>1, Zenon DEF Stream
  <2>5. StreamOK(opq) /\ (Spanned(Stream) => Spanned(opq))
    <3>1. /\ Stream \in Seq(Ops) /\ Len(Stream) = 1 + Len(opq) /\ opq \in Seq(Ops)
          /\ \A i \in 1 .. Len(opq) : opq[i] = Stream[1 + i]
      BY <1>2, Pieces
    <3>2. StreamOK(Stream)
      BY <1>2 DEF Fetch
    <3> QED BY <2>3, <3>1, <3>2, StreamRest
  <2>6. odata = << >>
    <3>1. NextType = "NULL" /\ "NULL" \notin RelayTypes
      BY <1>1, <1>3, <1>5, RelayKinds DEF NextType
    <3> QED BY <1>1, <1>2, <3>1 DEF Packed
  <2>7. Typed'
    <3>1. Len(opq') < QCap
      BY <1>2, <2>1, <2>2, IrtVmAssumption DEF Typed, TypeOK
    <3>2. \A x \in {loc, cur, seqend, nxt}' : x.type = "NULL" => x = Nul
      BY <1>1, <1>2, <2>1, <2>2 DEF Typed
    <3> QED BY <1>1, <1>2, <1>3, <2>1, <2>2, <3>1, <3>2 DEF Typed, TypeOK
  <2>8. Fetch'
    BY <1>1, <1>2, <1>3, <2>1, <2>2, <2>3, <2>4, <2>5 DEF Fetch, Operation
  <2>9. Packed' /\ Counted'
    BY <1>1, <1>2, <2>6 DEF Packed, Counted
  <2> QED BY <2>4, <2>5, <2>7, <2>8, <2>9 DEF IInv
<1> QED BY <1>4, <1>5


LEMMA LookTyped ==
  ASSUME Typed, pc' = "run",
         UNCHANGED <<ret, arm, cnt, odata, tsaved, frame, ecode, error, batch, dirty>>,
         opq' \in Seq(Ops), Len(opq') < QCap,
         loc' \in Ops, cur' \in Ops, seqend' \in Ops, nxt' \in Ops,
         \A x \in {loc, cur, seqend, nxt}' : x.type = "NULL" => x = Nul
  PROVE  Typed'
<1>1. TypeOK'
  BY DEF Typed, TypeOK
<1>2. frame' \in [id : {"DAT", "CMD"}, ops : Seq(Ops)] /\ batch' \in Nat
  BY DEF Typed
<1>3. dirty' \in BOOLEAN
  BY Zenon DEF Typed
<1> QED BY <1>1, <1>2, <1>3, Zenon DEF Typed

LEMMA LookInv ==
  ASSUME IInv, Look
  PROVE  /\ IInv' /\ (Spanned(Stream) => Spanned(Stream)')
         /\ Spanned(Stream) /\ cur'.type = "SEQU" => Span(Type', cur'.p, seqend'.p) >= 1
<1>1. /\ pc = "look" /\ At = "look" /\ At' = "run" /\ loc' = Nul /\ pc' = "run"
      /\ UNCHANGED <<ret, arm, cnt, odata, tsaved, frame, ecode, error, batch, dirty>>
  BY DEF Look, Go, err, At, scan, out, hist
<1>2. Typed /\ Fetch /\ Packed /\ Counted
  BY DEF IInv
<1>3. Nul \in Ops /\ Nul.type = "NULL" /\ ~Relay(Nul)
  BY OpType, RelayKinds
<1>4. /\ loc # Nul /\ nxt = Nul /\ cur = Nul /\ loc.type # "SEQU" /\ Coming = loc
      /\ loc \in Ops /\ loc.type # "NULL" /\ NextType = loc.type
  <2>1. loc # Nul /\ nxt = Nul /\ cur = Nul /\ loc.type # "SEQU"
    BY <1>1, <1>2 DEF Fetch
  <2>2. loc \in Ops /\ loc.type # "NULL"
    BY <1>2, <2>1, Pieces DEF Typed
  <2> QED BY <2>1, <2>2 DEF Coming, NextType
<1>5. /\ Stream \in Seq(Ops) /\ Len(Stream) = 1 + Len(opq) /\ opq \in Seq(Ops)
      /\ \A i \in 1 .. Len(opq) : opq[i] = Stream[1 + i]
      /\ StreamOK(Stream) /\ Len(opq) \in Nat
  BY <1>2, Pieces DEF Fetch
<1>6. CASE LookTag
  <2>1. /\ loc.type = "GRUP" /\ cur' = loc /\ seqend' = Nul /\ nxt' = Nul /\ opq' = opq
    BY <1>6 DEF LookTag
  <2>2. opq # << >> => opq[1].type # "SEQU"
    BY <1>2, <1>4, <2>1, Ahead, RelayKinds
  <2>3. StreamOK(opq) /\ NoNull(opq) /\ (Spanned(Stream) => Spanned(opq))
    BY <1>5, <2>2, StreamRest
  <2>4. Stream' = <<Nul>> \o opq
    BY <1>1, <2>1 DEF Stream, Coming
  <2>5. StreamOK(<<Nul>> \o opq) /\ (Spanned(Stream) => Spanned(<<Nul>> \o opq))
    <3>1. <<Nul>> \in Seq(Ops)
      BY <1>3
    <3> QED BY <1>5, <2>2, <2>3, <3>1, StreamParts, StreamCat
  <2>6. Typed'
    BY <1>1, <1>2, <1>3, <1>4, <2>1 DEF Typed, TypeOK
  <2>7. Fetch'
    BY <1>1, <1>3, <1>4, <2>1, <2>4, <2>5, RelayKinds DEF Fetch, Operation
  <2>8. NextType' = "GRUP"
    BY <1>4, <2>1 DEF NextType, Type
  <2>9. Packed' /\ Counted'
    BY <1>1, <1>2, <2>8 DEF Packed, Counted
  <2>10. cur'.type # "SEQU"
    BY <2>1
  <2> QED BY <2>4, <2>5, <2>6, <2>7, <2>9, <2>10 DEF IInv
<1>7. CASE LookPoint
  <2>1. /\ loc.type # "GRUP" /\ opq # << >> /\ opq[1].type # "SEQU"
        /\ cur' = loc /\ seqend' = Nul /\ nxt' = opq[1] /\ opq' = Tail(opq)
    BY <1>7 DEF LookPoint
  <2>2. StreamOK(opq) /\ (Spanned(Stream) => Spanned(opq))
    BY <1>5, <2>1, StreamRest
  <2>3. /\ opq[1] \in Ops /\ opq[1].type # "NULL" /\ opq[1] # Nul
        /\ Tail(opq) \in Seq(Ops) /\ Len(Tail(opq)) = Len(opq) - 1
        /\ opq = <<opq[1]>> \o Tail(opq)
    BY <1>2, <2>1, QueueHead
  <2>4. Stream' = opq
    <3>1. Coming' = opq[1]
      BY <1>1, <2>1 DEF Coming
    <3> QED BY <2>1, <2>3, <3>1, Zenon DEF Stream
  <2>5. Typed'
    <3>1. Len(opq') < QCap
      BY <1>2, <1>5, <2>1, <2>3, IrtVmAssumption DEF Typed, TypeOK
    <3>2. \A x \in {loc, cur, seqend, nxt}' : x.type = "NULL" => x = Nul
      BY <1>1, <1>4, <2>1, <2>3
    <3> QED BY <1>1, <1>2, <1>3, <1>4, <2>1, <2>3, <3>1, <3>2 DEF Typed, TypeOK
  <2>6. Relay(loc) => opq[1].type \in {"GRUP", loc.type}
    BY <1>2, <1>4, <2>1, Ahead
  <2>7. Fetch'
    <3>1. Operation' => Relay(loc) /\ Type' = loc.type
      BY <1>4, <2>1, RelayKinds DEF Operation, Type
    <3> QED BY <1>1, <1>3, <1>4, <2>1, <2>2, <2>4, <2>6, <3>1, RelayKinds DEF Fetch
  <2>8. NextType' = NextType
    BY <1>4, <2>1 DEF NextType, Type
  <2>9. Packed' /\ Counted'
    BY <1>1, <1>2, <2>8 DEF Packed, Counted
  <2>10. cur'.type # "SEQU"
    BY <1>4, <2>1
  <2> QED BY <2>2, <2>4, <2>5, <2>7, <2>9, <2>10 DEF IInv
<1>8. CASE LookRange
  <2>1. /\ Relay(loc) /\ opq # << >> /\ opq[1].type = "SEQU"
        /\ Len(opq) >= 2 /\ opq[2].type \in {"GRUP", loc.type}
        /\ cur' = Op("SEQU", loc.p) /\ seqend' = Op(loc.type, opq[1].p)
        /\ nxt' = opq[2] /\ opq' = Tail(Tail(opq))
    BY <1>8 DEF LookRange
  <2> DEFINE r == Tail(opq)
  <2>2. /\ opq[1] \in Ops /\ r \in Seq(Ops) /\ Len(r) = Len(opq) - 1
        /\ \A i \in 1 .. Len(r) : r[i] = opq[i + 1]
    BY <1>2, <2>1, QueueHead
  <2> HIDE DEF r
  <2>3. r # << >> /\ r[1] = opq[2] /\ opq[2].type # "SEQU" /\ opq[2].type # "NULL"
    <3>1. 1 \in 1 .. Len(r) /\ 1 + 1 = 2
      BY <1>5, <2>1, <2>2
    <3>2. r[1] = opq[1 + 1]
      BY <2>2, <3>1
    <3>3. r # << >>
      BY <3>1
    <3> QED BY <2>1, <3>1, <3>2, <3>3, RelayKinds
  <2>4. /\ r[1] \in Ops /\ Tail(r) \in Seq(Ops) /\ Len(Tail(r)) = Len(r) - 1
        /\ r = <<r[1]>> \o Tail(r)
    BY <2>2, <2>3, FirstRest
  <2>5. StreamOK(r) /\ (Spanned(Stream) => Spanned(r))
    <3>1. Len(Stream) = 2 + Len(r) /\ \A i \in 1 .. Len(r) : r[i] = Stream[2 + i]
      <4>1. \A i \in 1 .. Len(r) : i + 1 \in 1 .. Len(opq) /\ 1 + (i + 1) = 2 + i
        BY <1>5, <2>2
      <4> QED BY <1>5, <2>2, <4>1
    <3>2. 2 \in Nat /\ 2 >= 1 /\ (r # << >> => r[1].type # "SEQU")
      BY <2>3
    <3> QED BY <1>5, <2>2, <3>1, <3>2, StreamRest
  <2>6. Stream' = r
    <3>1. Coming' = r[1]
      BY <1>1, <2>1, <2>3 DEF Coming
    <3> QED BY <2>1, <2>4, <3>1, Zenon DEF Stream, r
  <2>7. /\ cur'.type = "SEQU" /\ cur' \in Ops /\ seqend'.type = loc.type /\ seqend' \in Ops
        /\ cur' # Nul
    <3>1. loc.p \in Int /\ opq[1].p \in Int /\ loc.type \in RelayTypes
      BY <1>4, <2>1, <2>2, OpType, RelayKinds
    <3>2. Op("SEQU", loc.p) \in Ops /\ Op("SEQU", loc.p).type = "SEQU"
      BY <3>1, OpType
    <3>3. Op(loc.type, opq[1].p) \in Ops /\ Op(loc.type, opq[1].p).type = loc.type
      BY <3>1, OpType
    <3>4. "SEQU" # "NULL"
      OBVIOUS
    <3>5. cur' = Op("SEQU", loc.p) /\ seqend' = Op(loc.type, opq[1].p)
      BY <2>1
    <3>6. cur'.type = "SEQU" /\ cur' \in Ops /\ seqend'.type = loc.type /\ seqend' \in Ops
      BY <3>2, <3>3, <3>5, Zenon
    <3>7. cur' # Nul
      BY <3>4, <3>6, OpType, Zenon
    <3> QED BY <3>6, <3>7, Zenon
  <2>8. Typed'
    <3>1. Len(opq') < QCap /\ opq' \in Seq(Ops)
      <4>1. opq' = Tail(r)
        BY <2>1 DEF r
      <4>2. Len(opq) < QCap
        BY <1>2 DEF Typed, TypeOK
      <4>3. Len(opq') = Len(opq) - 2
        BY <1>5, <2>2, <2>4, <4>1
      <4> QED BY <1>5, <2>4, <4>1, <4>2, <4>3, IrtVmAssumption
    <3>2. \A x \in {loc, cur, seqend, nxt}' : x.type = "NULL" => x = Nul
      BY <1>1, <1>4, <2>1, <2>3, <2>7
    <3>3. loc' \in Ops /\ cur' \in Ops /\ seqend' \in Ops /\ nxt' \in Ops
      <4>1. nxt' = r[1] /\ loc' = Nul
        BY <1>1, <2>1, <2>3
      <4>2. nxt' \in Ops /\ loc' \in Ops
        BY <1>3, <2>4, <4>1, Zenon
      <4> QED BY <2>7, <4>2, Zenon
    <3> QED BY <1>1, <1>2, <3>1, <3>2, <3>3, LookTyped
  <2>9. Fetch'
    <3>1. Type' = loc.type /\ Relay(seqend)'
      BY <2>1, <2>7 DEF Type, Relay
    <3> QED BY <1>1, <1>3, <2>1, <2>3, <2>5, <2>6, <2>7, <3>1 DEF Fetch
  <2>10. NextType' = NextType
    BY <1>4, <2>7 DEF NextType, Type
  <2>11. Packed' /\ Counted'
    BY <1>1, <1>2, <2>10 DEF Packed, Counted
  <2>12. Spanned(Stream) => Span(Type', cur'.p, seqend'.p) >= 1
    <3>1. Type' = loc.type /\ cur'.p = loc.p /\ seqend'.p = opq[1].p
      <4>1. Type' = loc.type
        BY <2>7 DEF Type
      <4>2. cur' = Op("SEQU", loc.p) /\ seqend' = Op(loc.type, opq[1].p)
        BY <2>1
      <4> QED BY <4>1, <4>2 DEF Op
    <3>2. 2 \in 2 .. Len(Stream) /\ 2 - 1 = 1 /\ Stream[2] = opq[1] /\ Stream[1] = loc
      <4>1. Stream[1] = loc
        BY <1>2, <1>4, Pieces
      <4>2. 1 \in 1 .. Len(opq) /\ 1 + 1 = 2
        BY <1>5, <2>1
      <4>3. Stream[1 + 1] = opq[1]
        BY <1>5, <4>2
      <4> QED BY <1>5, <2>1, <4>1, <4>2, <4>3
    <3>3. Spanned(Stream) => Span(Stream[2 - 1].type, Stream[2 - 1].p, Stream[2].p) >= 1
      BY <2>1, <3>2 DEF Spanned
    <3> QED BY <3>1, <3>2, <3>3
  <2> QED BY <2>5, <2>6, <2>8, <2>9, <2>11, <2>12 DEF IInv
<1> QED BY <1>2, <1>6, <1>7, <1>8, LookCases


(* Steps that leave what is fetched as it is.                              *)
LEMMA SameQueue ==
  ASSUME UNCHANGED queue
  PROVE  /\ Stream' = Stream /\ Coming' = Coming /\ Type' = Type /\ NextType' = NextType
         /\ Operation' = Operation
  BY DEF queue, Stream, Coming, Type, NextType, Operation, Relay

LEMMA SameFetch ==
  ASSUME Fetch, UNCHANGED queue,
         At' = "look" <=> At = "look",
         At' \in {"run", "exec", "push"} => cur # Nul
  PROVE  Fetch'
<1>1. Stream' = Stream /\ Type' = Type /\ Operation' = Operation
  BY SameQueue
<1>2. UNCHANGED <<opq, loc, cur, seqend, nxt>>
  BY DEF queue
<1> QED BY <1>1, <1>2 DEF Fetch, Relay

LEMMA SameTyped ==
  ASSUME Typed, UNCHANGED <<queue, arm, tsaved>>,
         pc' \in Places \cup {"trap"}, ret' \in {"top", "look", "exec", "push", "latch", "measure", "end"},
         ecode' \in BOOLEAN, error' \in BOOLEAN, dirty' \in BOOLEAN, batch' \in Nat,
         odata' = odata \/ odata' = << >>, frame' \in [id : {"DAT", "CMD"}, ops : Seq(Ops)],
         cnt' = cnt \/ cnt' = 0
  PROVE  Typed'
<1>1. UNCHANGED <<opq, loc, cur, seqend, nxt, arm, tsaved>>
  BY DEF queue
<1>2. odata' \in Seq(Ops) /\ Len(odata') <= FrameOps
  <2>1. CASE odata' = odata
    BY <2>1 DEF Typed, TypeOK
  <2>2. CASE odata' = << >>
    <3>1. << >> \in Seq(Ops) /\ Len(<< >>) = 0
      OBVIOUS
    <3>2. 0 <= FrameOps
      BY DEF FrameOps
    <3> QED BY <2>2, <3>1, <3>2
  <2> QED BY <2>1, <2>2
<1>3. cnt' \in Int /\ cnt' < arm
  BY DEF Typed, TypeOK
<1>4. TypeOK'
  BY <1>1, <1>2, <1>3 DEF Typed, TypeOK, Places
<1>5. \A x \in {loc, cur, seqend, nxt}' : x.type = "NULL" => x = Nul
  BY <1>1 DEF Typed
<1> QED BY <1>4, <1>5 DEF Typed

LEMMA RetType ==
  ASSUME Typed
  PROVE  /\ pc \in Places \cup {"trap"}
         /\ ret \in {"top", "look", "exec", "push", "latch", "measure", "end"}
         /\ ecode \in BOOLEAN /\ error \in BOOLEAN /\ dirty \in BOOLEAN /\ batch \in Nat
         /\ frame \in [id : {"DAT", "CMD"}, ops : Seq(Ops)]
         /\ arm \in Nat \ {0} /\ cnt \in Int /\ cnt < arm
         /\ Len(odata) <= 4 /\ Len(opq) < QCap
         /\ tsaved \in RelayTypes \cup {"NULL"}
  BY DEF Typed, TypeOK, Places, FrameOps

(* An error of the hardware, or none: what Fail and Go have in common.     *)
LEMMA Moved ==
  ASSUME Typed, NEW x \in {"top", "look", "exec", "push", "latch", "measure", "end"},
         Go(x) \/ Raise(x) \/ Fail(x)
  PROVE  /\ At' = x /\ pc' \in Places \cup {"trap"}
         /\ ret' \in {"top", "look", "exec", "push", "latch", "measure", "end"}
         /\ ecode' \in BOOLEAN /\ error' \in BOOLEAN
<1>1. x \in Places
  BY DEF Places
<1>2. At' = x
  BY <1>1, AtMoves
<1> QED BY <1>1, <1>2, RetType DEF Go, Raise, Fail, err

LEMMA ResumeInv == ASSUME IInv, Resume PROVE IInv'
<1>1. /\ pc = "top" /\ At = "top" /\ At' = "run" /\ cur # Nul /\ pc' = "run" /\ UNCHANGED queue
      /\ UNCHANGED <<ret, arm, cnt, odata, tsaved, frame, ecode, error, batch, dirty>>
  BY DEF Resume, Go, err, At, scan, out, hist
<1>2. Typed /\ Fetch /\ Packed /\ Counted
  BY DEF IInv
<1>3. Typed'
  BY <1>1, <1>2, RetType, SameTyped DEF Places
<1>4. Fetch'
  BY <1>1, <1>2, SameFetch
<1>5. Packed' /\ Counted'
  BY <1>1, <1>2, SameQueue DEF Packed, Counted
<1> QED BY <1>3, <1>4, <1>5 DEF IInv

LEMMA CheckInv == ASSUME IInv, Check PROVE IInv' /\ (cnt' = cnt \/ (cnt' = 0 /\ dirty'))
<1>1. /\ pc = "run" /\ At = "run" /\ UNCHANGED queue
      /\ UNCHANGED <<arm, odata, tsaved, frame, batch>>
      /\ cnt' = IF ScanCut THEN 0 ELSE cnt
      /\ (Raise("exec") /\ dirty' = TRUE) \/ (Go("exec") /\ dirty' = dirty)
      /\ ScanCut => dirty' = TRUE
  BY DEF Check, At, out
<1>2. Typed /\ Fetch /\ Packed /\ Counted
  BY DEF IInv
<1>3. /\ At' = "exec" /\ pc' \in Places \cup {"trap"}
      /\ ret' \in {"top", "look", "exec", "push", "latch", "measure", "end"}
      /\ ecode' \in BOOLEAN /\ error' \in BOOLEAN
  BY <1>1, <1>2, Moved
<1>4. Typed'
  <2>1. (cnt' = cnt \/ cnt' = 0) /\ dirty' \in BOOLEAN
    BY <1>1, <1>2, RetType
  <2>2. batch' \in Nat /\ frame' \in [id : {"DAT", "CMD"}, ops : Seq(Ops)]
    BY <1>1, <1>2, RetType
  <2>3. UNCHANGED <<queue, arm, tsaved>> /\ odata' = odata
    BY <1>1
  <2> QED BY <1>2, <1>3, <2>1, <2>2, <2>3, SameTyped
<1>5. cur # Nul
  BY <1>1, <1>2 DEF Fetch
<1>6. Fetch'
  BY <1>1, <1>2, <1>3, <1>5, SameFetch
<1>7. Packed'
  BY <1>1, <1>2, <1>3, SameQueue DEF Packed
<1>8. Counted'
  BY <1>1, <1>2, <1>3, SameQueue DEF Counted, ScanCut
<1> QED BY <1>1, <1>4, <1>6, <1>7, <1>8 DEF IInv

LEMMA LatchInv == ASSUME IInv, Latch PROVE IInv'
<1>1. /\ pc = "latch" /\ At = "latch" /\ UNCHANGED queue
      /\ UNCHANGED <<arm, cnt, odata, tsaved, frame, batch>> /\ dirty' \in {dirty, TRUE}
      /\ LET then == IF IsScan(tsaved) THEN "measure" ELSE "end"
         IN Go(then) \/ Fail(then)
  BY DEF Latch, At, scan, out, hist
<1>2. Typed /\ Fetch /\ Packed /\ Counted
  BY DEF IInv
<1>3. /\ At' = IF IsScan(tsaved) THEN "measure" ELSE "end"
      /\ pc' \in Places \cup {"trap"}
      /\ ret' \in {"top", "look", "exec", "push", "latch", "measure", "end"}
      /\ ecode' \in BOOLEAN /\ error' \in BOOLEAN
  BY <1>1, <1>2, Moved
<1>4. Typed'
  BY <1>1, <1>2, <1>3, RetType, SameTyped
<1>5. Fetch'
  BY <1>1, <1>2, <1>3, SameFetch
<1>6. Packed'
  BY <1>1, <1>2, <1>3, SameQueue DEF Packed
<1>7. Counted'
  BY <1>1, <1>2, <1>3, SameQueue DEF Counted
<1> QED BY <1>4, <1>5, <1>6, <1>7 DEF IInv

LEMMA MeasureInv == ASSUME IInv, Measure PROVE IInv'
<1>1. /\ pc = "measure" /\ At = "measure" /\ UNCHANGED queue
      /\ UNCHANGED <<arm, cnt, odata, tsaved, frame, batch, dirty>>
      /\ Go("end") \/ Fail("end")
  BY DEF Measure, At, scan, out, hist
<1>2. Typed /\ Fetch /\ Packed /\ Counted
  BY DEF IInv
<1>3. /\ At' = "end" /\ pc' \in Places \cup {"trap"}
      /\ ret' \in {"top", "look", "exec", "push", "latch", "measure", "end"}
      /\ ecode' \in BOOLEAN /\ error' \in BOOLEAN
  BY <1>1, <1>2, Moved
<1>4. Typed'
  BY <1>1, <1>2, <1>3, RetType, SameTyped
<1>5. Fetch'
  BY <1>1, <1>2, <1>3, SameFetch
<1>6. Packed' /\ Counted'
  BY <1>1, <1>2, <1>3, SameQueue DEF Packed, Counted
<1> QED BY <1>4, <1>5, <1>6 DEF IInv

LEMMA EndInv == ASSUME IInv, End PROVE IInv'
<1>1. /\ pc = "end" /\ At = "end" /\ UNCHANGED queue
      /\ UNCHANGED <<arm, cnt, odata, tsaved, frame>>
      /\ Go("top") /\ batch' \in {batch, 0} /\ dirty' \in {dirty, FALSE}
  BY DEF End, At, scan, out, hist
<1>2. Typed /\ Fetch /\ Packed /\ Counted
  BY DEF IInv
<1>3. /\ At' = "top" /\ pc' \in Places \cup {"trap"}
      /\ ret' \in {"top", "look", "exec", "push", "latch", "measure", "end"}
      /\ ecode' \in BOOLEAN /\ error' \in BOOLEAN
  BY <1>1, <1>2, Moved
<1>4. Typed'
  <2>1. batch' \in Nat /\ dirty' \in BOOLEAN
    <3>1. batch \in Nat /\ dirty \in BOOLEAN
      BY <1>2 DEF Typed, TypeOK
    <3>2. batch' = batch \/ batch' = 0
      BY <1>1
    <3>3. batch' \in Nat
      BY <3>1, <3>2
    <3>4. dirty' \in BOOLEAN
      BY <1>1, <3>1, Zenon
    <3> QED BY <3>3, <3>4
  <2>2. cnt' = cnt /\ odata' = odata /\ frame' \in [id : {"DAT", "CMD"}, ops : Seq(Ops)]
    BY <1>1, <1>2, RetType
  <2>3. UNCHANGED <<queue, arm, tsaved>>
    BY <1>1
  <2> QED BY <1>2, <1>3, <2>1, <2>2, <2>3, SameTyped
<1>5. Fetch'
  BY <1>1, <1>2, <1>3, SameFetch
<1>6. Packed' /\ Counted'
  BY <1>1, <1>2, <1>3, SameQueue DEF Packed, Counted
<1> QED BY <1>4, <1>5, <1>6 DEF IInv

(* Steps that only touch the error status.                                 *)
LEMMA ErrorInv ==
  ASSUME IInv, Untrap \/ SlotError \/ ErrPop \/ Cls
  PROVE  IInv' /\ At' = At /\ UNCHANGED <<queue, scan, out, hist>>
<1>1. /\ UNCHANGED <<queue, scan, out, hist>>
      /\ UNCHANGED <<arm, cnt, odata, tsaved, frame, batch, dirty>>
  BY DEF Untrap, SlotError, ErrPop, Cls, scan, out, hist
<1>2. Typed /\ Fetch /\ Packed /\ Counted
  BY DEF IInv
<1>3. /\ At' = At /\ pc' \in Places \cup {"trap"}
      /\ ret' \in {"top", "look", "exec", "push", "latch", "measure", "end"}
      /\ ecode' \in BOOLEAN /\ error' \in BOOLEAN
  <2>1. CASE Untrap
    BY <1>2, <2>1, RetType DEF Untrap, At, err, Places
  <2>2. CASE SlotError
    <3>1. At \in {"top", "look", "latch", "measure"} \/ pc = "trap"
      BY <2>2 DEF SlotError, AtWait, At
    <3>2. At \in {"top", "look", "exec", "push", "latch", "measure", "end"}
      BY <1>2, <3>1, RetType, AtType
    <3> QED BY <1>2, <2>2, <3>2, Moved DEF SlotError
  <2>3. CASE ErrPop \/ Cls
    BY <1>2, <2>3, RetType DEF ErrPop, Cls, At
  <2> QED BY <2>1, <2>2, <2>3
<1>4. Typed'
  BY <1>1, <1>2, <1>3, RetType, SameTyped
<1>5. Fetch'
  BY <1>1, <1>2, <1>3, SameFetch DEF Fetch
<1>6. Packed' /\ Counted'
  BY <1>1, <1>2, <1>3, SameQueue DEF Packed, Counted
<1> QED BY <1>1, <1>3, <1>4, <1>5, <1>6 DEF IInv


-----------------------------------------------------------------------------
(* What vm_execute does with an operation. *)

LEMMA WholeCat ==
  ASSUME NEW a \in Seq(Ops), NEW b \in Seq(Ops), Whole(a), Whole(b)
  PROVE  Whole(a \o b)
<1> DEFINE c == a \o b
<1>1. /\ c \in Seq(Ops) /\ Len(c) = Len(a) + Len(b)
      /\ \A i \in 1 .. Len(a) : c[i] = a[i]
      /\ \A i \in 1 .. Len(b) : c[Len(a) + i] = b[i]
  BY CatSeq
<1>2. Len(a) \in Nat /\ Len(b) \in Nat
  OBVIOUS
<1> HIDE DEF c
<1>3. ASSUME NEW i \in 1 .. Len(c)
      PROVE  IF c[i].type = "SEQU" THEN i < Len(c) /\ Relay(c[i + 1]) ELSE Relay(c[i])
  <2>1. CASE i \in 1 .. Len(a)
    <3>1. c[i] = a[i]
      BY <1>1, <2>1
    <3>2. IF a[i].type = "SEQU" THEN i < Len(a) /\ Relay(a[i + 1]) ELSE Relay(a[i])
      BY <2>1 DEF Whole
    <3>3. i < Len(a) => i + 1 \in 1 .. Len(a) /\ i < Len(c)
      BY <1>1, <1>2, <2>1
    <3> QED BY <1>1, <3>1, <3>2, <3>3
  <2>2. CASE i \notin 1 .. Len(a)
    <3> DEFINE j == i - Len(a)
    <3>1. j \in 1 .. Len(b) /\ i = Len(a) + j
      BY <1>1, <1>2, <2>2
    <3>2. c[i] = b[j]
      BY <1>1, <3>1
    <3>3. IF b[j].type = "SEQU" THEN j < Len(b) /\ Relay(b[j + 1]) ELSE Relay(b[j])
      BY <3>1 DEF Whole
    <3>4. j < Len(b) => j + 1 \in 1 .. Len(b) /\ i < Len(c) /\ i + 1 = Len(a) + (j + 1)
      BY <1>1, <1>2, <3>1
    <3>5. j < Len(b) => c[i + 1] = b[j + 1]
      BY <1>1, <3>4
    <3> HIDE DEF j
    <3> QED BY <3>2, <3>3, <3>4, <3>5
  <2> QED BY <2>1, <2>2
<1>4. Whole(c)
  BY <1>3 DEF Whole
<1> QED BY <1>4 DEF c

LEMMA WholeLast ==
  ASSUME NEW a \in Seq(Ops), Whole(a), a # << >>
  PROVE  a[Len(a)].type # "SEQU"
<1>1. Len(a) \in Nat /\ Len(a) \in 1 .. Len(a) /\ ~(Len(a) < Len(a))
  OBVIOUS
<1> QED BY <1>1 DEF Whole

LEMMA WholeOne ==
  ASSUME NEW x \in Ops, Relay(x)
  PROVE  <<x>> \in Seq(Ops) /\ Len(<<x>>) = 1 /\ Whole(<<x>>)
<1>1. <<x>> \in Seq(Ops) /\ Len(<<x>>) = 1 /\ <<x>>[1] = x
  BY OneSeq
<1> QED BY <1>1, RelayKinds DEF Whole

LEMMA WholeTwo ==
  ASSUME NEW x \in Ops, NEW y \in Ops, x.type = "SEQU", Relay(y)
  PROVE  <<x, y>> \in Seq(Ops) /\ Len(<<x, y>>) = 2 /\ Whole(<<x, y>>)
<1> DEFINE s == <<x, y>>
<1>1. s \in Seq(Ops) /\ Len(s) = 2 /\ s[1] = x /\ s[2] = y
  BY TwoSeq
<1> HIDE DEF s
<1>2. ASSUME NEW i \in 1 .. Len(s)
      PROVE  IF s[i].type = "SEQU" THEN i < Len(s) /\ Relay(s[i + 1]) ELSE Relay(s[i])
  <2>1. i = 1 \/ i = 2
    BY <1>1
  <2>2. CASE i = 1
    BY <1>1, <2>2
  <2>3. CASE i = 2
    BY <1>1, <2>3, RelayKinds
  <2> QED BY <2>1, <2>2, <2>3
<1>3. Whole(s)
  BY <1>2 DEF Whole
<1> QED BY <1>1, <1>3 DEF s

(* The three shapes of what vm_execute gets: a point, a range, and the     *)
(* part of a scan range that completes the group.                          *)
PointOf ==
  /\ Relay(cur) /\ ~Cut /\ Slice = <<cur>>
  /\ SliceCount = IF IsScan(Type) THEN 1 ELSE 0
RangeOf ==
  /\ cur.type = "SEQU" /\ ~Cut /\ Slice = <<cur, seqend>>
  /\ SliceCount = IF IsScan(Type) THEN Span(Type, cur.p, seqend.p) ELSE 0
  /\ IsScan(Type) => Span(Type, cur.p, seqend.p) <= Left
PartOf ==
  /\ cur.type = "SEQU" /\ Cut /\ IsScan(Type)
  /\ Slice = <<cur, Op(seqend.type, cur.p + (Left - 1) * Stride(Type))>>
  /\ SliceCount = Left /\ Span(Type, cur.p, seqend.p) > Left

LEMMA SliceIs ==
  ASSUME Typed, Fetch, Operation
  PROVE  /\ Type \in RelayTypes /\ Type # "GRUP" /\ Type # "NULL"
         /\ cur.type = "SEQU" => Relay(seqend) /\ seqend.type = Type
         /\ cur.type # "SEQU" => Relay(cur)
         /\ Left \in Nat /\ Left >= 1 /\ Left = arm - cnt
         /\ cur.p \in Int /\ seqend.p \in Int /\ Span(Type, cur.p, seqend.p) \in Int
         /\ Stride(Type) \in Int
         /\ PointOf \/ RangeOf \/ PartOf
         /\ Slice \in Seq(Ops) /\ Len(Slice) \in 1 .. 2 /\ Whole(Slice)
<1>1. /\ cur \in Ops /\ seqend \in Ops /\ arm \in Nat /\ cnt \in Int /\ cnt < arm
  BY Pieces, RetType
<1>2. /\ cur.type = "SEQU" => Relay(seqend) /\ seqend.type = Type
      /\ cur.type # "SEQU" => Relay(cur) /\ Type = cur.type
  BY DEF Fetch, Operation, Type
<1>3. Type \in RelayTypes /\ Type # "GRUP" /\ Type # "NULL"
  BY <1>2, RelayKinds
<1>4. Left \in Nat /\ Left >= 1 /\ Left = arm - cnt
  BY <1>1 DEF Left
<1>5. cur.p \in Int /\ seqend.p \in Int
  BY <1>1, OpType
<1>6. Span(Type, cur.p, seqend.p) \in Int /\ Stride(Type) \in Int
  BY <1>5, SpanType
<1>7. CASE cur.type # "SEQU"
  <2>1. PointOf
    BY <1>2, <1>7 DEF PointOf, Cut, Slice, SliceCount
  <2>2. Slice \in Seq(Ops) /\ Len(Slice) = 1 /\ Whole(Slice)
    BY <1>1, <1>2, <1>7, <2>1, WholeOne DEF PointOf
  <2> QED BY <1>2, <1>3, <1>4, <1>5, <1>6, <1>7, <2>1, <2>2
<1>8. CASE cur.type = "SEQU" /\ ~Cut
  <2>1. IsScan(Type) => Span(Type, cur.p, seqend.p) <= Left
    BY <1>4, <1>6, <1>8 DEF Cut
  <2>2. RangeOf
    BY <1>2, <1>8, <2>1 DEF RangeOf, Slice, SliceCount
  <2>3. Slice \in Seq(Ops) /\ Len(Slice) = 2 /\ Whole(Slice)
    BY <1>1, <1>2, <1>8, <2>2, WholeTwo DEF RangeOf
  <2> QED BY <1>2, <1>3, <1>4, <1>5, <1>6, <1>8, <2>2, <2>3
<1>9. CASE cur.type = "SEQU" /\ Cut
  <2> DEFINE q == cur.p + (Left - 1) * Stride(Type)
             y == Op(seqend.type, q)
  <2>1. PartOf
    BY <1>2, <1>9 DEF PartOf, Slice, SliceCount, Cut
  <2>2. q \in Int
    BY <1>4, <1>5, <1>6
  <2> HIDE DEF q
  <2>3. y \in Ops /\ Relay(y)
    BY <1>2, <1>9, <2>2, OpType, RelayKinds DEF Relay
  <2>4. Slice = <<cur, y>>
    BY <2>1 DEF PartOf, q
  <2> HIDE DEF y
  <2>5. Slice \in Seq(Ops) /\ Len(Slice) = 2 /\ Whole(Slice)
    BY <1>1, <1>9, <2>3, <2>4, WholeTwo
  <2> QED BY <1>2, <1>3, <1>4, <1>5, <1>6, <1>9, <2>1, <2>5
<1> QED BY <1>7, <1>8, <1>9

(* The frame that has no room for the operation goes out.                  *)
LEMMA EmitType ==
  ASSUME IInv, NEW id \in {"DAT", "CMD"}, NEW then \in {"push", "latch", "end"},
         Emit(id, then)
  PROVE  /\ frame' = [id |-> id, ops |-> odata] /\ odata' = << >>
         /\ frame' \in [id : {"DAT", "CMD"}, ops : Seq(Ops)]
         /\ batch' \in Nat /\ batch' = batch + Len(Fetched(odata))
         /\ dirty' \in BOOLEAN /\ (dirty' = dirty \/ dirty')
         /\ At' = then /\ pc' \in Places \cup {"trap"}
         /\ ret' \in {"top", "look", "exec", "push", "latch", "measure", "end"}
         /\ ecode' \in BOOLEAN /\ error' \in BOOLEAN
         /\ Whole(odata') /\ Whole(frame'.ops)
<1>1. Typed /\ Packed
  BY DEF IInv
<1>2. Fetched(odata) \in Seq(Ops)
  BY <1>1, Pieces, ItemsFlat
<1>3. Len(Fetched(odata)) \in Nat /\ batch \in Nat /\ dirty \in BOOLEAN
  BY <1>1, <1>2, RetType
<1>4. /\ frame' = [id |-> id, ops |-> odata] /\ odata' = << >>
      /\ batch' = batch + Len(Fetched(odata))
      /\ (Go(then) /\ dirty' = dirty) \/ (Fail(then) /\ dirty' = TRUE)
  BY DEF Emit
<1>5. odata \in Seq(Ops)
  BY <1>1, Pieces
<1>6. Whole(odata') /\ Whole(frame'.ops)
  <2>1. Whole(<< >>)
    BY DEF Whole
  <2> QED BY <1>1, <1>4, <2>1 DEF Packed
<1>7. /\ At' = then /\ pc' \in Places \cup {"trap"}
      /\ ret' \in {"top", "look", "exec", "push", "latch", "measure", "end"}
      /\ ecode' \in BOOLEAN /\ error' \in BOOLEAN
  BY <1>1, <1>4, Moved
<1>8. frame' \in [id : {"DAT", "CMD"}, ops : Seq(Ops)]
  BY <1>4, <1>5
<1>9. batch' \in Nat
  BY <1>3, <1>4
<1>10. dirty' \in BOOLEAN /\ (dirty' = dirty \/ dirty')
  BY <1>3, <1>4
<1> QED BY <1>4, <1>6, <1>7, <1>8, <1>9, <1>10

LEMMA FlushInv == ASSUME IInv, Flush PROVE IInv' /\ Emit("DAT", "push") /\ odata # << >>
<1>1. /\ pc = "exec" /\ At = "exec" /\ Operation /\ ~Fits /\ Emit("DAT", "push")
      /\ UNCHANGED <<queue, arm, cnt, tsaved>>
  BY DEF Flush, At, scan, Operation, Relay
<1>2. Typed /\ Fetch /\ Packed /\ Counted
  BY DEF IInv
<1>3. /\ odata' = << >> /\ frame' \in [id : {"DAT", "CMD"}, ops : Seq(Ops)]
      /\ batch' \in Nat /\ dirty' \in BOOLEAN
      /\ At' = "push" /\ pc' \in Places \cup {"trap"}
      /\ ret' \in {"top", "look", "exec", "push", "latch", "measure", "end"}
      /\ ecode' \in BOOLEAN /\ error' \in BOOLEAN
      /\ Whole(odata') /\ Whole(frame'.ops)
  BY <1>1, EmitType
<1>4. /\ Type \in RelayTypes /\ Type # "GRUP" /\ Len(Slice) \in 1 .. 2
  BY <1>1, <1>2, SliceIs
<1>5. odata # << >>
  <2> SUFFICES ASSUME odata = << >> PROVE Fits
    BY <1>1
  <2>1. Len(odata) = 0
    OBVIOUS
  <2> DEFINE n == Len(Slice)
  <2>2. n \in 1 .. 2
    BY <1>4
  <2> HIDE DEF n
  <2>3. 0 + n <= 4
    BY <2>2
  <2> QED BY <2>1, <2>3 DEF Fits, FrameOps, n
<1>6. cur # Nul
  BY <1>1, <1>2 DEF Fetch
<1>7. Type = tsaved
  BY <1>1, <1>2, <1>4, <1>5, <1>6 DEF Packed, NextType
<1>8. Typed'
  BY <1>1, <1>2, <1>3, SameTyped
<1>9. Fetch'
  BY <1>1, <1>2, <1>3, <1>6, SameFetch
<1>10. Packed'
  BY <1>1, <1>3, <1>7, SameQueue DEF Packed
<1>11. Counted'
  BY <1>1, <1>2, <1>3, SameQueue DEF Counted
<1> QED BY <1>1, <1>5, <1>8, <1>9, <1>10, <1>11 DEF IInv


(* The operation, or its part, joins what waits for the next frame.        *)
LEMMA PushIs ==
  ASSUME IInv, Push
  PROVE  /\ At \in {"exec", "push"} /\ Operation /\ cur # Nul /\ loc = Nul
         /\ odata' = odata \o Slice /\ odata' # << >>
         /\ odata' \in Seq(Ops) /\ Len(odata') <= FrameOps
         /\ Whole(odata') /\ Fetched(odata') = Fetched(odata) \o Fetched(Slice)
<1>1. /\ pc \in {"exec", "push"} /\ At \in {"exec", "push"} /\ Operation
      /\ pc = "exec" => Fits
      /\ odata' = Newest(odata \o Slice)
  BY DEF Push, At, Operation, Relay
<1>2. Typed /\ Fetch /\ Packed
  BY DEF IInv
<1>3. cur # Nul /\ loc = Nul
  BY <1>1, <1>2 DEF Fetch
<1>4. Slice \in Seq(Ops) /\ Len(Slice) \in 1 .. 2 /\ Whole(Slice)
  BY <1>1, <1>2, SliceIs
<1>5. odata \in Seq(Ops) /\ Whole(odata) /\ Len(odata) \in Nat
  BY <1>2, Pieces DEF Packed
<1> DEFINE b == Slice
           c == odata \o b
<1>6. b \in Seq(Ops) /\ Len(b) \in 1 .. 2 /\ Whole(b) /\ b = Slice
  BY <1>4
<1> HIDE DEF b
<1>7. c \in Seq(Ops) /\ Len(c) = Len(odata) + Len(b) /\ Whole(c)
  BY <1>5, <1>6, CatSeq, WholeCat
<1> HIDE DEF c
<1>8. Len(c) <= FrameOps
  <2>1. CASE pc = "exec"
    BY <1>1, <1>6, <1>7, <2>1 DEF Fits
  <2>2. CASE pc = "push"
    <3>1. odata = << >>
      BY <1>2, <2>2 DEF Packed, At
    <3>2. Len(odata) = 0
      BY <3>1
    <3> QED BY <1>6, <1>7, <3>2 DEF FrameOps
  <2> QED BY <1>1, <2>1, <2>2
<1>9. c # << >>
  <2>1. Len(c) # 0
    BY <1>5, <1>6, <1>7
  <2> QED BY <2>1
<1>10. Fetched(c) = Fetched(odata) \o Fetched(b)
  BY <1>5, <1>6, WholeLast, FetchedCat DEF c
<1>11. odata' = c
  BY <1>1, <1>6, <1>8 DEF Newest, c
<1>12. Fetched(odata') = Fetched(c) /\ Whole(odata')
  BY <1>7, <1>11
<1> QED BY <1>1, <1>3, <1>6, <1>7, <1>8, <1>9, <1>10, <1>11, <1>12 DEF c

LEMMA PushInv == ASSUME IInv, Push PROVE IInv'
<1>1. /\ At \in {"exec", "push"} /\ Operation /\ cur # Nul /\ loc = Nul
      /\ odata' \in Seq(Ops) /\ Len(odata') <= FrameOps /\ Whole(odata') /\ odata' # << >>
  BY PushIs
<1>2. /\ tsaved' = Type
      /\ cur' = IF Cut THEN Op("SEQU", cur.p + Left * Stride(Type)) ELSE Nul
      /\ seqend' = IF Cut THEN seqend ELSE Nul
      /\ LET c == cnt + SliceCount
             full == IsScan(Type) /\ c = arm
         IN cnt' = (IF full THEN 0 ELSE c) /\ Go(IF full THEN "group" ELSE "top")
      /\ UNCHANGED <<opq, loc, nxt, arm, frame, batch, dirty>>
  BY DEF Push, hist
<1>3. Typed /\ Fetch /\ Packed /\ Counted
  BY DEF IInv
<1>4. /\ Type \in RelayTypes /\ Type # "GRUP" /\ Type # "NULL"
      /\ cur.type = "SEQU" => Relay(seqend) /\ seqend.type = Type
      /\ Left \in Nat /\ Left >= 1 /\ Left = arm - cnt
      /\ cur.p \in Int /\ seqend.p \in Int /\ Span(Type, cur.p, seqend.p) \in Int
      /\ Stride(Type) \in Int
      /\ PointOf \/ RangeOf \/ PartOf
  BY <1>1, <1>3, SliceIs
<1>5. arm \in Nat \ {0} /\ cnt \in Int /\ cnt < arm
  BY <1>3, RetType
<1>6. cnt' \in Int /\ cnt' < arm /\ (cnt' # 0 => IsScan(Type))
  <2>1. CASE ~IsScan(Type)
    <3>1. SliceCount = 0 /\ cnt = 0
      BY <1>1, <1>3, <1>4, <2>1 DEF SliceCount, Counted
    <3>2. cnt' = cnt + SliceCount
      BY <1>2, <2>1
    <3> QED BY <1>5, <3>1, <3>2
  <2>2. CASE IsScan(Type)
    <3>1. SliceCount \in Int /\ SliceCount <= Left
      <4>1. CASE PointOf
        BY <1>4, <2>2, <4>1 DEF PointOf
      <4>2. CASE RangeOf
        BY <1>4, <2>2, <4>2 DEF RangeOf
      <4>3. CASE PartOf
        BY <1>4, <2>2, <4>3 DEF PartOf
      <4> QED BY <1>4, <4>1, <4>2, <4>3
    <3> DEFINE c == cnt + SliceCount
    <3>2. c \in Int /\ c <= arm
      BY <1>4, <1>5, <3>1
    <3>3. cnt' = IF c = arm THEN 0 ELSE c
      BY <1>2, <2>2
    <3> HIDE DEF c
    <3> QED BY <1>5, <2>2, <3>2, <3>3
  <2> QED BY <2>1, <2>2
<1>7. /\ At' \in {"group", "top"} /\ pc' \in {"group", "top"} /\ UNCHANGED <<ret, ecode, error>>
  BY <1>2 DEF Go, err, At
<1>8. \/ cur' = Nul /\ seqend' = Nul
      \/ /\ cur' \in Ops /\ cur'.type = "SEQU" /\ cur' # Nul
         /\ seqend' = seqend /\ cur.type = "SEQU" /\ Cut
  <2>1. CASE Cut
    <3>1. cur.p + Left * Stride(Type) \in Int
      BY <1>4
    <3>2. Op("SEQU", cur.p + Left * Stride(Type)) \in Ops
          /\ Op("SEQU", cur.p + Left * Stride(Type)).type = "SEQU"
      BY <3>1, OpType
    <3>3. cur' = Op("SEQU", cur.p + Left * Stride(Type)) /\ seqend' = seqend
      BY <1>2, <2>1
    <3>4. cur.type = "SEQU"
      BY <2>1 DEF Cut
    <3>5. Nul.type # "SEQU"
      BY OpType
    <3>6. cur' \in Ops /\ cur'.type = "SEQU"
      BY <3>2, <3>3
    <3>7. cur' # Nul
      BY <3>5, <3>6
    <3> QED BY <2>1, <3>3, <3>4, <3>6, <3>7
  <2>2. CASE ~Cut
    BY <1>2, <2>2
  <2> QED BY <2>1, <2>2
<1>9. /\ loc \in Ops /\ nxt \in Ops /\ opq \in Seq(Ops) /\ seqend \in Ops /\ Nul \in Ops
      /\ Nul.type = "NULL"
  BY <1>3, Pieces, OpType
<1>10. Typed'
  <2>1. \A x \in {loc, cur, seqend, nxt}' : x.type = "NULL" => x = Nul
    BY <1>2, <1>3, <1>8 DEF Typed
  <2>2. /\ pc' \in {"top", "look", "run", "exec", "push", "group", "latch", "measure",
             "end", "trap"}
        /\ ret' \in {"top", "look", "exec", "push", "latch", "measure", "end"}
        /\ ecode' \in BOOLEAN /\ error' \in BOOLEAN
    BY <1>3, <1>7, RetType
  <2>3. tsaved' \in RelayTypes \cup {"NULL"}
    BY <1>2, <1>4
  <2>4. {loc, cur, seqend, nxt}' \subseteq Ops
    BY <1>2, <1>8, <1>9
  <2>5. opq' \in Seq(Ops) /\ Len(opq') < QCap /\ arm' \in Nat \ {0} /\ cnt' < arm' /\ cnt' \in Int
    BY <1>2, <1>3, <1>6 DEF Typed, TypeOK
  <2>6. TypeOK'
    BY <1>1, <2>2, <2>3, <2>4, <2>5 DEF TypeOK
  <2>7. /\ frame' \in [id : {"DAT", "CMD"}, ops : Seq(Ops)]
        /\ batch' \in Nat /\ dirty' \in BOOLEAN
    BY <1>2, <1>3 DEF Typed
  <2> QED BY <2>1, <2>6, <2>7 DEF Typed
<1>11. Operation' => Type' = Type /\ cur' # Nul
  BY <1>4, <1>8, <1>9, RelayKinds DEF Operation, Type
<1>12. Fetch'
  <2>1. Stream' = Stream
    BY <1>2 DEF Stream, Coming
  <2>2. nxt' = nxt /\ loc' = Nul /\ At' # "look" /\ nxt.type # "SEQU" /\ Nul.type # "SEQU"
    BY <1>1, <1>2, <1>3, <1>7, <1>9 DEF Fetch
  <2>3. Operation' => nxt'.type \in {"GRUP", Type'}
    BY <1>1, <1>2, <1>3, <1>11 DEF Fetch
  <2>4. /\ cur'.type = "SEQU" => Relay(seqend)'
        /\ cur'.type # "SEQU" => seqend' = Nul
    BY <1>4, <1>8, <1>9 DEF Relay
  <2>5. StreamOK(Stream)'
    BY <1>3, <2>1 DEF Fetch
  <2> QED BY <1>7, <2>2, <2>3, <2>4, <2>5 DEF Fetch
<1>13. Packed'
  <2>1. NextType' \in {"GRUP", Type}
    <3>1. CASE cur' = Nul
      <4>1. NextType' = nxt.type
        BY <1>1, <1>2, <3>1 DEF NextType
      <4> QED BY <1>1, <1>3, <4>1 DEF Fetch
    <3>2. CASE cur' # Nul
      BY <1>8, <1>11, <3>2 DEF NextType, Operation
    <3> QED BY <3>1, <3>2
  <2>2. Whole(frame.ops)'
    BY <1>2, <1>3 DEF Packed
  <2> QED BY <1>1, <1>2, <1>4, <1>7, <2>1, <2>2 DEF Packed
<1>14. Counted'
  BY <1>2, <1>6, <1>7 DEF Counted
<1> QED BY <1>10, <1>12, <1>13, <1>14 DEF IInv

LEMMA TagInv == ASSUME IInv, Tag PROVE IInv' /\ (cur.type = "WAIT" => odata = << >>)
<1>1. /\ pc = "exec" /\ At = "exec" /\ cur.type \in {"GRUP", "WAIT"} /\ cur' = Nul
      /\ At' = (IF cur.type = "GRUP" THEN "group" ELSE "top") /\ pc' = At'
      /\ UNCHANGED <<ret, ecode, error, opq, loc, seqend, nxt>>
      /\ UNCHANGED <<arm, cnt, odata, tsaved, frame, batch, dirty>>
  BY DEF Tag, Go, err, At, scan, out, hist
<1>2. Typed /\ Fetch /\ Packed /\ Counted
  BY DEF IInv
<1>3. /\ cur # Nul /\ loc = Nul /\ Nul.type = "NULL" /\ Type = cur.type
      /\ seqend = Nul /\ ~Relay(Nul) /\ Nul \in Ops
  BY <1>1, <1>2, OpType, RelayKinds DEF Fetch, Type
<1>4. cur.type = "WAIT" => odata = << >>
  <2>1. "WAIT" \notin RelayTypes /\ "WAIT" # "GRUP"
    BY RelayKinds
  <2>2. odata # << >> => NextType \in {"GRUP", tsaved} /\ tsaved \in RelayTypes
    BY <1>1, <1>2 DEF Packed
  <2> QED BY <1>3, <2>1, <2>2 DEF NextType
<1>5. Typed'
  BY <1>1, <1>2, <1>3 DEF Typed, TypeOK
<1>6. Fetch'
  <2>1. Stream' = Stream
    BY <1>1 DEF Stream, Coming
  <2>2. ~Operation'
    BY <1>1, <1>3 DEF Operation, Relay
  <2>3. StreamOK(Stream)'
    BY <1>2, <2>1 DEF Fetch
  <2> QED BY <1>1, <1>2, <1>3, <2>2, <2>3 DEF Fetch
<1>7. Packed'
  BY <1>1, <1>2, <1>4 DEF Packed
<1>8. Counted'
  BY <1>1, <1>2 DEF Counted
<1> QED BY <1>4, <1>5, <1>6, <1>7, <1>8 DEF IInv


LEMMA GroupInv == ASSUME IInv, Group PROVE IInv'
<1>1. /\ pc = "group" /\ At = "group" /\ UNCHANGED <<queue, arm, cnt, tsaved>>
      /\ \/ odata = << >> /\ Go("top") /\ UNCHANGED <<odata, frame, batch, dirty>>
         \/ odata # << >> /\ IsScan(tsaved) /\ cnt # 0 /\ Emit("DAT", "end")
         \/ odata # << >> /\ ~(IsScan(tsaved) /\ cnt # 0) /\ Emit("CMD", "latch")
  BY DEF Group, At, scan, out, hist
<1>2. Typed /\ Fetch /\ Packed /\ Counted
  BY DEF IInv
<1>3. CASE odata = << >> /\ Go("top") /\ UNCHANGED <<odata, frame, batch, dirty>>
  <2>1. /\ At' = "top" /\ pc' \in Places \cup {"trap"}
        /\ ret' \in {"top", "look", "exec", "push", "latch", "measure", "end"}
        /\ ecode' \in BOOLEAN /\ error' \in BOOLEAN
    BY <1>2, <1>3, Moved
  <2>2. Typed'
    <3>1. cnt' = cnt /\ odata' = odata
      BY <1>1, <1>3
    <3> QED BY <1>1, <1>2, <1>3, <2>1, <3>1, RetType, SameTyped
  <2>3. Fetch'
    BY <1>1, <1>2, <2>1, SameFetch
  <2>4. Packed' /\ Counted'
    BY <1>1, <1>2, <1>3, <2>1 DEF Packed, Counted
  <2> QED BY <2>2, <2>3, <2>4 DEF IInv
<1>4. ASSUME NEW id \in {"DAT", "CMD"}, NEW then \in {"latch", "end"}, Emit(id, then),
             (id = "DAT" /\ then = "end") \/ (id = "CMD" /\ then = "latch" /\ cnt = 0)
      PROVE  IInv'
  <2>1. /\ odata' = << >> /\ frame' \in [id : {"DAT", "CMD"}, ops : Seq(Ops)]
        /\ frame'.id = id /\ batch' \in Nat /\ dirty' \in BOOLEAN
        /\ At' = then /\ pc' \in Places \cup {"trap"}
        /\ ret' \in {"top", "look", "exec", "push", "latch", "measure", "end"}
        /\ ecode' \in BOOLEAN /\ error' \in BOOLEAN
        /\ Whole(odata') /\ Whole(frame'.ops)
    BY <1>4, EmitType
  <2>2. Typed'
    BY <1>1, <1>2, <2>1, SameTyped
  <2>3. Fetch'
    BY <1>1, <1>2, <1>4, <2>1, SameFetch
  <2>4. Packed'
    BY <1>4, <2>1 DEF Packed
  <2>5. Counted'
    BY <1>1, <1>2, <1>4, <2>1 DEF Counted
  <2> QED BY <2>2, <2>3, <2>4, <2>5 DEF IInv
<1>5. CASE odata # << >> /\ IsScan(tsaved) /\ cnt # 0 /\ Emit("DAT", "end")
  BY <1>4, <1>5
<1>6. CASE odata # << >> /\ ~(IsScan(tsaved) /\ cnt # 0) /\ Emit("CMD", "latch")
  <2>1. cnt = 0
    BY <1>2, <1>6 DEF Counted
  <2> QED BY <1>4, <1>6, <2>1
<1> QED BY <1>1, <1>3, <1>5, <1>6

-----------------------------------------------------------------------------
(* The shell. *)

(* The hypothesis of all theorems on the machine: the lists are of the     *)
(* form that vm.c gives in its comment.  The shell does not look: it takes *)
(* a ":" wherever it comes, and makes opcodes of it that name no operation *)
(* (see the README).                                                       *)
ProperLists == \A list \in Lists : WellFormed(list)

(* What a command adds to the queue.                                       *)
LEMMA AcceptInv ==
  ASSUME IInv, NEW e, Accept(e), e \in Seq(Ops), e # << >>, StreamOK(e), NoNull(e),
         e[1].type # "SEQU"
  PROVE  /\ IInv' /\ Stream' = Stream \o e /\ (Spanned(Stream) /\ Spanned(e) => Spanned(Stream)')
         /\ At' = At
<1>1. /\ Len(opq) + Len(e) < QCap /\ opq' = opq \o e
      /\ UNCHANGED <<pc, ret, loc, cur, seqend, nxt, arm, cnt, odata, tsaved, frame,
                     ecode, error, batch, dirty>>
  BY DEF Accept, scan, out, err, hist
<1>2. Typed /\ Fetch /\ Packed /\ Counted
  BY DEF IInv
<1>3. /\ opq \in Seq(Ops) /\ Stream \in Seq(Ops) /\ Coming \in Ops
      /\ StreamOK(Stream)
  BY <1>2, Pieces DEF Fetch
<1> DEFINE w == opq \o e
<1>4. w \in Seq(Ops) /\ Len(w) = Len(opq) + Len(e)
  BY <1>3, CatSeq
<1>5. Coming' = Coming
  BY <1>1 DEF Coming
<1>6. Stream' = Stream \o e
  <2>1. <<Coming>> \in Seq(Ops)
    BY <1>3
  <2>2. <<Coming>> \o (opq \o e) = (<<Coming>> \o opq) \o e
    BY <1>3, <2>1, CatAssoc
  <2>3. Stream' = <<Coming>> \o (opq \o e)
    BY <1>1, <1>5 DEF Stream
  <2> QED BY <2>2, <2>3, Zenon DEF Stream
<1>7. StreamOK(Stream \o e) /\ (Spanned(Stream) /\ Spanned(e) => Spanned(Stream \o e))
  BY <1>3, StreamCat
<1>8. opq' \in Seq(Ops) /\ Len(opq') < QCap
  BY <1>1, <1>4
<1> HIDE DEF w
<1>9. Typed'
  BY <1>1, <1>2, <1>8 DEF Typed, TypeOK
<1>10. StreamOK(Stream)' /\ (Spanned(Stream) /\ Spanned(e) => Spanned(Stream)')
  BY <1>6, <1>7
<1>11. /\ At' = At /\ Type' = Type /\ Operation' = Operation /\ NextType' = NextType
       /\ Relay(seqend)' = Relay(seqend)
  BY <1>1 DEF At, Type, Operation, NextType, Relay
<1>12. Fetch'
  BY <1>1, <1>2, <1>10, <1>11 DEF Fetch
<1>13. Packed' /\ Counted'
  BY <1>1, <1>2, <1>11 DEF Packed, Counted
<1> QED BY <1>6, <1>9, <1>10, <1>11, <1>12, <1>13 DEF IInv

LEMMA EncodedOps ==
  ASSUME NEW t \in Types, NEW l \in Lists, WellFormed(l)
  PROVE  LET e == Encode(t, l)
         IN /\ e \in Seq(Ops) /\ e # << >> /\ StreamOK(e) /\ NoNull(e) /\ e[1].type # "SEQU"
            /\ (Forward(t, l) => Spanned(e))
<1> DEFINE e == Encode(t, l)
<1>1. t \in RelayTypes
  BY Stopped
<1>2. Closed(t, e) /\ (Forward(t, l) => Spanned(e))
  BY EncodeClosed
<1> HIDE DEF e
<1>3. e \in Seq(Ops) /\ Len(e) >= 1 /\ e[1].type # "SEQU"
  BY <1>2 DEF Closed
<1>4. e # << >>
  <2>1. Len(<< >>) = 0 /\ ~(0 >= 1)
    OBVIOUS
  <2> QED BY <1>3, <2>1
<1>5. StreamOK(e) /\ NoNull(e)
  BY <1>1, <1>2, ClosedStream
<1> QED BY <1>2, <1>3, <1>4, <1>5 DEF e

LEMMA WaitOps ==
  LET e == <<Op("WAIT", 0)>>
  IN /\ e \in Seq(Ops) /\ e # << >> /\ StreamOK(e) /\ NoNull(e) /\ e[1].type # "SEQU"
     /\ Spanned(e)
<1> DEFINE x == Op("WAIT", 0)
<1>1. x \in Ops /\ x.type = "WAIT"
  BY OpType
<1> HIDE DEF x
<1>2. <<x>> \in Seq(Ops) /\ <<x>> # << >> /\ <<x>>[1].type # "SEQU"
  BY <1>1
<1> QED BY <1>2, StreamParts DEF x

LEMMA RouteInv == ASSUME ProperLists, IInv, Route \/ RouteWait PROVE IInv' /\ At' = At
<1>1. CASE Route
  <2>1. PICK t \in Types, l \in Lists : Accept(Encode(t, l))
    BY <1>1 DEF Route
  <2>2. WellFormed(l)
    BY DEF ProperLists
  <2> QED BY <2>1, <2>2, EncodedOps, AcceptInv
<1>2. CASE RouteWait
  BY <1>2, WaitOps, AcceptInv DEF RouteWait
<1> QED BY <1>1, <1>2


(* What ROUTE ARM and MODE find: no point of a scan group is counted, and  *)
(* where the count is not below zero, nothing is queued.                   *)
LEMMA Idle ==
  ASSUME IInv, VmBusy = 0
  PROVE  /\ cnt <= 0
         /\ cnt >= 0 => /\ cnt = 0 /\ opq = << >> /\ cur = Nul /\ nxt = Nul
                        /\ At \in {"top", "look"}
<1>1. Typed /\ Fetch
  BY DEF IInv
<1>2. Len(opq) \in Nat /\ cnt \in Int /\ opq \in Seq(Ops)
  BY <1>1, Pieces, RetType
<1> DEFINE n == Len(opq)
           a == One(cur # Nul \/ At \notin {"top", "look"})
           b == One(seqend # Nul)
           c == One(nxt # Nul)
<1>3. a \in {0, 1} /\ b \in {0, 1} /\ c \in {0, 1} /\ n \in Nat
  BY <1>2 DEF One
<1>4. 2 * n + a + b + c + cnt = 0
  BY DEF VmBusy
<1>5. a = 0 => cur = Nul /\ At \in {"top", "look"}
  BY DEF One
<1>6. c = 0 => nxt = Nul
  BY DEF One
<1>7. n = 0 => opq = << >>
  BY <1>2
<1> HIDE DEF n, a, b, c
<1>8. cnt <= 0 /\ (cnt >= 0 => cnt = 0 /\ n = 0 /\ a = 0 /\ c = 0)
  BY <1>2, <1>3, <1>4
<1> QED BY <1>5, <1>6, <1>7, <1>8

LEMMA ArmInv == ASSUME IInv, RouteArm PROVE IInv' /\ At' = At
<1>1. /\ VmBusy = 0 /\ arm' \in Arms /\ UNCHANGED queue
      /\ UNCHANGED <<pc, ret, cnt, odata, tsaved, frame, ecode, error, batch, dirty>>
  BY DEF RouteArm, out, err, hist
<1>2. Typed /\ Fetch /\ Packed /\ Counted
  BY DEF IInv
<1>3. arm' \in Nat \ {0} /\ cnt \in Int /\ cnt <= 0
  BY <1>1, <1>2, Idle, RetType, Stopped
<1>4. cnt' < arm'
  BY <1>1, <1>3
<1>5. At' = At
  BY <1>1 DEF At
<1>6. Typed'
  BY <1>1, <1>2, <1>3, <1>4 DEF Typed, TypeOK, queue
<1>7. Fetch'
  BY <1>1, <1>2, <1>5, SameFetch DEF Fetch
<1>8. Packed' /\ Counted'
  BY <1>1, <1>2, <1>5, SameQueue DEF Packed, Counted
<1> QED BY <1>5, <1>6, <1>7, <1>8 DEF IInv

LEMMA ModeInv == ASSUME IInv, Mode PROVE IInv' /\ At' = At
<1>1. /\ cnt' = 0 /\ UNCHANGED queue
      /\ UNCHANGED <<pc, ret, arm, odata, tsaved, frame, ecode, error, batch, dirty>>
  BY DEF Mode, out, err, hist
<1>2. Typed /\ Fetch /\ Packed /\ Counted
  BY DEF IInv
<1>3. At' = At
  BY <1>1 DEF At
<1>4. Typed'
  <2>1. cnt' \in Int /\ cnt' < arm'
    BY <1>1, <1>2, RetType
  <2> QED BY <1>1, <1>2, <2>1 DEF Typed, TypeOK, queue
<1>5. Fetch'
  BY <1>1, <1>2, <1>3, SameFetch DEF Fetch
<1>6. Packed' /\ Counted'
  BY <1>1, <1>2, <1>3, SameQueue DEF Packed, Counted
<1> QED BY <1>3, <1>4, <1>5, <1>6 DEF IInv

LEMMA SameInv == ASSUME IInv, UNCHANGED vars PROVE IInv'
<1>1. /\ UNCHANGED queue
      /\ UNCHANGED <<pc, ret, arm, cnt, odata, tsaved, frame, ecode, error, batch, dirty>>
  BY DEF vars, scan, out, err, hist
<1>2. Typed /\ Fetch /\ Packed /\ Counted
  BY DEF IInv
<1>3. At' = At
  BY <1>1 DEF At
<1>4. Typed'
  BY <1>1, <1>2 DEF Typed, TypeOK, queue
<1>5. Fetch'
  BY <1>1, <1>2, <1>3, SameFetch DEF Fetch
<1>6. Packed' /\ Counted'
  BY <1>1, <1>2, <1>3, SameQueue DEF Packed, Counted
<1> QED BY <1>4, <1>5, <1>6 DEF IInv

LEMMA StepInv == ASSUME ProperLists, IInv, [Next]_vars PROVE IInv'
<1>1. CASE Vm
  BY <1>1, TakeInv, LookInv, ResumeInv, CheckInv, FlushInv, PushInv, TagInv, GroupInv,
     LatchInv, MeasureInv, EndInv, ErrorInv DEF Vm
<1>2. CASE SlotError
  BY <1>2, ErrorInv
<1>3. CASE Shell
  BY <1>3, RouteInv, ArmInv, ModeInv, ErrorInv DEF Shell
<1>4. CASE UNCHANGED vars
  BY <1>4, SameInv
<1> QED BY <1>1, <1>2, <1>3, <1>4 DEF Next

(* The invariant holds: what the machine has fetched, what waits for the   *)
(* next frame and the points it has counted agree, whatever the shell adds *)
(* to the queue and wherever an error of the hardware falls.               *)
THEOREM Inductive == ASSUME ProperLists PROVE Spec => []IInv
<1>1. Init => IInv
  BY InitInv
<1>2. IInv /\ [Next]_vars => IInv'
  BY StepInv
<1> QED BY <1>1, <1>2, PTL DEF Spec

(* Every variable of the machine keeps its type: the queue of opcodes and  *)
(* the four places of a frame are never overrun, and a scan group never    *)
(* counts `arm` points without being sent.                                 *)
THEOREM TypeCorrect == ASSUME ProperLists PROVE Spec => []TypeOK
<1>1. IInv => TypeOK
  BY DEF IInv, Typed
<1> QED BY <1>1, Inductive, PTL

(* "irc vm algo could ensure!" (mxc.c): no frame ends between the start    *)
(* and the end of a range.                                                 *)
THEOREM WholeFrames == ASSUME ProperLists PROVE Spec => []FramesWhole
<1>1. IInv => FramesWhole
  <2> SUFFICES ASSUME IInv PROVE FramesWhole
    OBVIOUS
  <2> DEFINE f == frame.ops
  <2>1. f \in Seq(Ops) /\ Whole(f)
    BY DEF IInv, Typed, Packed
  <2>2. DOMAIN f = 1 .. Len(f)
    BY <2>1
  <2> HIDE DEF f
  <2>3. \A i \in DOMAIN f :
          IF f[i].type = "SEQU" THEN i < Len(f) /\ f[i + 1].type \in RelayTypes
          ELSE f[i].type \in RelayTypes
    BY <2>1, <2>2 DEF Whole, Relay
  <2> QED BY <2>3 DEF FramesWhole, f
<1> QED BY <1>1, Inductive, PTL


-----------------------------------------------------------------------------
(* The refinement: what waits in all the queues, and what the last frame   *)
(* carried. *)

CurOf(c, e) == Fetched(IF c.type = "SEQU" THEN <<c, e>> ELSE <<c>>)

Waiting == Fetched(odata)
Current == CurOf(cur, seqend)
Queued == Actions(Stream)

LEMMA PendingIs ==
  /\ Pending = (Waiting \o Current) \o Queued
  /\ Pending' = (Waiting' \o Current') \o Queued'
  BY DEF Pending, Waiting, Current, Queued, CurOf, Stream, Coming

LEMMA CurOfIs ==
  ASSUME NEW c \in Ops, NEW e \in Ops, c.type = "SEQU" => Relay(e)
  PROVE  /\ CurOf(c, e) \in Seq(Ops)
         /\ Relay(c) => CurOf(c, e) = <<c>>
         /\ ~Relay(c) /\ c.type # "SEQU" => CurOf(c, e) = << >>
         /\ c.type = "SEQU" => CurOf(c, e) = Run(e.type, c.p, e.p)
<1>1. CASE c.type = "SEQU"
  <2>1. <<c, e>> \in Seq(Ops)
    BY TwoSeq
  <2>2. CurOf(c, e) = Fetched(<<c, e>>)
    BY <1>1 DEF CurOf
  <2>3. Fetched(<<c, e>>) \in Seq(Ops) /\ Fetched(<<c, e>>) = Run(e.type, c.p, e.p)
    BY <1>1, <2>1, ItemsFlat, FetchedTwo
  <2> QED BY <1>1, <2>2, <2>3, RelayKinds
<1>2. CASE c.type # "SEQU"
  <2>1. <<c>> \in Seq(Ops)
    BY OneSeq
  <2>2. CurOf(c, e) = Fetched(<<c>>)
    BY <1>2 DEF CurOf
  <2>3. Fetched(<<c>>) \in Seq(Ops) /\ Fetched(<<c>>) = IF Relay(c) THEN <<c>> ELSE << >>
    BY <2>1, ItemsFlat, FetchedOne
  <2> QED BY <1>2, <2>2, <2>3
<1> QED BY <1>1, <1>2

LEMMA PartsType ==
  ASSUME Typed, Fetch
  PROVE  Waiting \in Seq(Ops) /\ Current \in Seq(Ops) /\ Queued \in Seq(Ops)
<1>1. odata \in Seq(Ops) /\ Stream \in Seq(Ops) /\ cur \in Ops /\ seqend \in Ops
      /\ (cur.type = "SEQU" => Relay(seqend))
  BY Pieces DEF Fetch
<1> QED BY <1>1, ItemsFlat, CurOfIs DEF Waiting, Current, Queued

(* What a step keeps: the actions move from one part to the next.          *)
LEMMA SamePending ==
  ASSUME NEW a \in Seq(Ops), NEW b \in Seq(Ops), NEW c \in Seq(Ops),
         NEW x \in Seq(Ops), NEW y \in Seq(Ops)
  PROVE  /\ b = x \o y => ((a \o x) \o y) \o c = (a \o b) \o c
         /\ c = x \o y => (a \o x) \o y = (a \o << >>) \o c
<1>1. (a \o x) \o y = a \o (x \o y)
  BY CatAssoc
<1>2. a \o << >> = a
  BY CatEmpty
<1> QED BY <1>1, <1>2, Zenon

LEMMA TakeKeeps == ASSUME IInv, Take PROVE Pending' = Pending
<1>1. /\ pc = "top" /\ At = "top" /\ cur = Nul /\ nxt' = Nul
      /\ \/ nxt # Nul /\ loc' = nxt /\ opq' = opq
         \/ nxt = Nul /\ opq # << >> /\ loc' = Head(opq) /\ opq' = Tail(opq)
      /\ UNCHANGED <<cur, seqend, odata>>
  BY DEF Take, At, out
<1>2. Typed /\ Fetch
  BY DEF IInv
<1>3. loc = Nul
  BY <1>1, <1>2 DEF Fetch
<1>4. Waiting' = Waiting /\ Current' = Current
  BY <1>1 DEF Waiting, Current
<1>5. Queued' = Queued
  <2>1. CASE nxt # Nul /\ loc' = nxt /\ opq' = opq
    <3>1. Coming' = Coming
      BY <1>1, <1>3, <2>1 DEF Coming
    <3> QED BY <2>1, <3>1 DEF Queued, Stream
  <2>2. CASE nxt = Nul /\ opq # << >> /\ loc' = Head(opq) /\ opq' = Tail(opq)
    <3>1. Head(opq) # Nul /\ opq = <<Head(opq)>> \o Tail(opq) /\ opq \in Seq(Ops)
      BY <1>2, <2>2, QueueHead, Pieces
    <3>2. Coming' = Head(opq) /\ Coming = Nul
      BY <1>3, <2>2, <3>1 DEF Coming
    <3>3. Stream' = opq
      BY <2>2, <3>1, <3>2, Zenon DEF Stream
    <3>4. Nul \in Ops /\ ~Relay(Nul)
      BY OpType, RelayKinds
    <3>5. Actions(<<Nul>> \o opq) = << >> \o Actions(opq)
      BY <3>1, <3>4, ActionsCons DEF ActOf
    <3>6. Actions(opq) \in Seq(Ops)
      BY <3>1, ItemsFlat
    <3>7. << >> \o Actions(opq) = Actions(opq)
      BY <3>6, CatEmpty
    <3> QED BY <3>2, <3>3, <3>5, <3>7, Zenon DEF Queued, Stream
  <2> QED BY <1>1, <2>1, <2>2
<1> QED BY <1>4, <1>5, PendingIs, Zenon

(* The three outcomes of vm_prefetch move the actions of what it fetches   *)
(* from the queue to vm_opcode.                                            *)
LEMMA LookMoves ==
  ASSUME Typed, Fetch, Look
  PROVE  Current = << >> /\ Queued = Current' \o Queued'
<1>1. pc = "look" /\ At = "look" /\ loc' = Nul
  BY DEF Look, At
<1>2. /\ loc # Nul /\ nxt = Nul /\ cur = Nul /\ Coming = loc /\ loc \in Ops
      /\ opq \in Seq(Ops) /\ Nul \in Ops /\ ~Relay(Nul) /\ Nul.type # "SEQU"
      /\ seqend \in Ops /\ loc.type # "SEQU"
  BY <1>1, Pieces, OpType, RelayKinds DEF Fetch, Coming
<1>3. Current = << >>
  BY <1>2, CurOfIs DEF Current
<1>4. /\ Queued = ActOf(loc, IF opq = << >> THEN Nul ELSE opq[1]) \o Actions(opq)
      /\ Actions(opq) \in Seq(Ops) /\ << >> \o Actions(opq) = Actions(opq)
  <2>1. Queued = ActOf(loc, IF opq = << >> THEN Nul ELSE opq[1]) \o Actions(opq)
    BY <1>2, ActionsCons DEF Queued, Stream
  <2>2. Actions(opq) \in Seq(Ops)
    BY <1>2, ItemsFlat
  <2> QED BY <2>1, <2>2, CatEmpty
<1>5. CASE LookTag
  <2>1. /\ loc.type = "GRUP" /\ cur' = loc /\ seqend' = Nul /\ nxt' = Nul /\ opq' = opq
        /\ ~Relay(loc)
    BY <1>5, RelayKinds DEF LookTag
  <2>2. Current' = << >>
    BY <1>2, <2>1, CurOfIs DEF Current
  <2>3. Coming' = Nul
    BY <1>1, <2>1 DEF Coming
  <2>4. Queued' = ActOf(Nul, IF opq = << >> THEN Nul ELSE opq[1]) \o Actions(opq)
    BY <1>2, <2>1, <2>3, ActionsCons DEF Queued, Stream
  <2>5. Queued' = Actions(opq) /\ Queued = Actions(opq)
    BY <1>2, <1>4, <2>1, <2>4, Zenon DEF ActOf
  <2> QED BY <1>3, <1>4, <2>2, <2>5, Zenon
<1>6. CASE LookPoint
  <2>1. /\ opq # << >> /\ opq[1].type # "SEQU"
        /\ cur' = loc /\ seqend' = Nul /\ nxt' = opq[1] /\ opq' = Tail(opq)
    BY <1>6 DEF LookPoint
  <2>2. opq = <<opq[1]>> \o Tail(opq)
    BY <2>1, QueueHead
  <2>3. Coming' = opq[1]
    BY <1>1, <2>1 DEF Coming
  <2>4. Stream' = opq
    BY <2>1, <2>2, <2>3, Zenon DEF Stream
  <2>5. Current' = IF Relay(loc) THEN <<loc>> ELSE << >>
    BY <1>2, <2>1, CurOfIs DEF Current
  <2>6. ActOf(loc, opq[1]) = IF Relay(loc) THEN <<loc>> ELSE << >>
    BY <2>1 DEF ActOf
  <2>7. Queued' = Actions(opq)
    BY <2>4 DEF Queued
  <2> QED BY <1>3, <1>4, <2>1, <2>5, <2>6, <2>7, Zenon
<1>7. CASE LookRange
  <2>1. /\ Relay(loc) /\ opq # << >> /\ opq[1].type = "SEQU" /\ Len(opq) >= 2
        /\ cur' = Op("SEQU", loc.p) /\ seqend' = Op(loc.type, opq[1].p)
        /\ nxt' = opq[2] /\ opq' = Tail(Tail(opq))
    BY <1>7 DEF LookRange
  <2> DEFINE r == Tail(opq)
  <2>2. /\ opq[1] \in Ops /\ r \in Seq(Ops) /\ Len(r) = Len(opq) - 1 /\ opq = <<opq[1]>> \o r
        /\ \A i \in 1 .. Len(r) : r[i] = opq[i + 1]
    BY <2>1, QueueHead
  <2>3. Len(opq) \in Nat
    BY Pieces
  <2> HIDE DEF r
  <2>4. r # << >> /\ r[1] = opq[2]
    <3>1. 1 \in 1 .. Len(r) /\ 1 + 1 = 2
      BY <2>1, <2>2, <2>3
    <3>2. r[1] = opq[1 + 1]
      BY <2>2, <3>1
    <3>3. r # << >>
      BY <3>1
    <3> QED BY <3>1, <3>2, <3>3
  <2>5. r = <<r[1]>> \o Tail(r)
    BY <2>2, <2>4, FirstRest
  <2>6. Coming' = r[1]
    BY <1>1, <2>1, <2>4 DEF Coming
  <2>7. Stream' = r
    BY <2>1, <2>5, <2>6, Zenon DEF Stream, r
  <2>8. Actions(opq) = ActOf(opq[1], IF r = << >> THEN Nul ELSE r[1]) \o Actions(r)
    BY <2>2, ActionsCons, Zenon
  <2>9. ~Relay(opq[1])
    BY <2>1, RelayKinds
  <2>10. Actions(r) \in Seq(Ops)
    BY <2>2, ItemsFlat
  <2>11. << >> \o Actions(r) = Actions(r)
    BY <2>10, CatEmpty
  <2>12. Actions(opq) = Actions(r)
    BY <2>8, <2>9, <2>11, Zenon DEF ActOf
  <2>13. /\ cur' \in Ops /\ cur'.type = "SEQU" /\ cur'.p = loc.p
         /\ seqend' \in Ops /\ seqend'.type = loc.type /\ seqend'.p = opq[1].p
    <3>1. loc.p \in Int /\ opq[1].p \in Int /\ loc.type \in RelayTypes
      BY <1>2, <2>1, <2>2, OpType, RelayKinds
    <3>2. Op("SEQU", loc.p) \in Ops /\ Op("SEQU", loc.p).type = "SEQU"
          /\ Op("SEQU", loc.p).p = loc.p
      BY <3>1, OpType
    <3>3. Op(loc.type, opq[1].p) \in Ops /\ Op(loc.type, opq[1].p).type = loc.type
          /\ Op(loc.type, opq[1].p).p = opq[1].p
      BY <3>1, OpType
    <3> QED BY <2>1, <3>2, <3>3, Zenon
  <2>14. Current' = Run(loc.type, loc.p, opq[1].p)
    <3>1. Relay(seqend')
      BY <2>1, <2>13 DEF Relay
    <3>2. CurOf(cur', seqend') = Run(seqend'.type, cur'.p, seqend'.p)
      BY <2>13, <3>1, CurOfIs
    <3> QED BY <2>13, <3>2 DEF Current
  <2>15. ActOf(loc, opq[1]) = Run(loc.type, loc.p, opq[1].p)
    BY <2>1 DEF ActOf
  <2>16. Queued' = Actions(r)
    BY <2>7 DEF Queued
  <2> QED BY <1>3, <1>4, <2>1, <2>12, <2>14, <2>15, <2>16, Zenon
<1> QED BY <1>5, <1>6, <1>7, LookCases


LEMMA LookKeeps == ASSUME IInv, Look PROVE Pending' = Pending
<1>1. Typed /\ Fetch /\ IInv'
  BY LookInv DEF IInv
<1>2. (Typed /\ Fetch)'
  BY <1>1 DEF IInv
<1>3. Current = << >> /\ Queued = Current' \o Queued'
  BY <1>1, LookMoves
<1>4. Waiting' = Waiting
  BY DEF Look, out, Waiting
<1>5. Waiting \in Seq(Ops) /\ Queued \in Seq(Ops)
  BY <1>1, PartsType
<1>6. Current' \in Seq(Ops) /\ Queued' \in Seq(Ops)
  <2>1. (Waiting \in Seq(Ops) /\ Current \in Seq(Ops) /\ Queued \in Seq(Ops))'
    BY <1>2, PartsType, PTL
  <2> QED BY <2>1
<1>7. (Waiting \o Current') \o Queued' = (Waiting \o << >>) \o Queued
  <2>1. << >> \in Seq(Ops)
    OBVIOUS
  <2> QED BY <1>3, <1>5, <1>6, <2>1, SamePending
<1> QED BY <1>3, <1>4, <1>7, PendingIs, Zenon

(* What vm_execute takes over leaves vm_opcode: a point, a range, or the   *)
(* start of a range, whose rest comes with the next group.                 *)
LEMMA PushMoves ==
  ASSUME IInv, Push
  PROVE  /\ Current = Fetched(Slice) \o Current'
         /\ Fetched(Slice) \in Seq(Ops) /\ Current' \in Seq(Ops)
<1>1. Operation /\ cur # Nul
  BY PushIs
<1>2. /\ cur' = IF Cut THEN Op("SEQU", cur.p + Left * Stride(Type)) ELSE Nul
      /\ seqend' = IF Cut THEN seqend ELSE Nul
  BY DEF Push
<1>3. Typed /\ Fetch
  BY DEF IInv
<1>4. /\ Type \in RelayTypes
      /\ cur.type = "SEQU" => Relay(seqend) /\ seqend.type = Type
      /\ Left \in Nat /\ Left >= 1
      /\ cur.p \in Int /\ seqend.p \in Int /\ Span(Type, cur.p, seqend.p) \in Int
      /\ Stride(Type) \in Int
      /\ PointOf \/ RangeOf \/ PartOf
      /\ Slice \in Seq(Ops)
  BY <1>1, <1>3, SliceIs
<1>5. cur \in Ops /\ seqend \in Ops /\ Nul \in Ops /\ ~Relay(Nul) /\ Nul.type # "SEQU"
  BY <1>3, Pieces, OpType, RelayKinds
<1>6. Fetched(Slice) \in Seq(Ops)
  BY <1>4, ItemsFlat
<1>7. CASE ~Cut
  <2>1. Current' = << >>
    <3>1. cur' = Nul /\ seqend' = Nul
      BY <1>2, <1>7
    <3>2. CurOf(Nul, Nul) = << >>
      BY <1>5, CurOfIs
    <3> QED BY <3>1, <3>2 DEF Current
  <2>2. Current = Fetched(Slice)
    <3>1. CASE PointOf
      <4>1. Slice = <<cur>> /\ Relay(cur) /\ cur.type # "SEQU"
        BY <3>1, RelayKinds DEF PointOf
      <4> QED BY <4>1 DEF Current, CurOf
    <3>2. CASE RangeOf
      BY <3>2 DEF RangeOf, Current, CurOf
    <3> QED BY <1>4, <1>7, <3>1, <3>2 DEF PartOf
  <2>3. Fetched(Slice) \o << >> = Fetched(Slice)
    BY <1>6, CatEmpty
  <2>4. << >> \in Seq(Ops)
    OBVIOUS
  <2> QED BY <1>6, <2>1, <2>2, <2>3, <2>4, Zenon
<1>8. CASE Cut
  <2> DEFINE a == cur.p + (Left - 1) * Stride(Type)
             b == cur.p + Left * Stride(Type)
  <2>1. PartOf
    BY <1>4, <1>8 DEF PointOf, RangeOf
  <2>2. /\ cur.type = "SEQU" /\ Slice = <<cur, Op(seqend.type, a)>>
        /\ Span(Type, cur.p, seqend.p) > Left /\ Relay(seqend) /\ seqend.type = Type
    BY <1>4, <2>1 DEF PartOf
  <2>3. /\ a \in Int /\ b \in Int
        /\ Run(Type, cur.p, seqend.p) = Run(Type, cur.p, a) \o Run(Type, b, seqend.p)
    <3>1. Left > 0 /\ Left < Span(Type, cur.p, seqend.p)
      BY <1>4, <2>2
    <3>2. /\ a = cur.p + (Left - 1) * Stride(Type)
          /\ b = cur.p + Left * Stride(Type)
      OBVIOUS
    <3> HIDE DEF a, b
    <3>3. a \in Int /\ b \in Int /\ Halves(Type, cur.p, seqend.p, Left, a, b)
      BY <1>4, <3>1, <3>2, RunCut
    <3> QED BY <3>3, Zenon DEF Halves
  <2>4. cur' = Op("SEQU", b) /\ seqend' = seqend
    BY <1>2, <1>8
  <2> HIDE DEF a, b
  <2>5. Op(Type, a) \in Ops /\ Op(Type, a).type = Type /\ Op(Type, a).p = a
    BY <1>4, <2>3, OpType
  <2>6. Fetched(Slice) = Run(Type, cur.p, a)
    <3>1. Relay(Op(Type, a))
      BY <1>4, <2>5 DEF Relay
    <3>2. Fetched(<<cur, Op(Type, a)>>) = Run(Op(Type, a).type, cur.p, Op(Type, a).p)
      BY <1>5, <2>2, <2>5, <3>1, FetchedTwo
    <3> QED BY <2>2, <2>5, <3>2
  <2>7. Op("SEQU", b) \in Ops /\ Op("SEQU", b).type = "SEQU" /\ Op("SEQU", b).p = b
    BY <2>3, OpType
  <2>8. CurOf(Op("SEQU", b), seqend) = Run(Type, b, seqend.p)
        /\ CurOf(Op("SEQU", b), seqend) \in Seq(Ops)
    BY <1>5, <2>2, <2>7, CurOfIs
  <2>9. Current' = Run(Type, b, seqend.p) /\ Current' \in Seq(Ops)
    BY <2>4, <2>8 DEF Current
  <2>10. Current = Run(Type, cur.p, seqend.p)
    BY <1>5, <2>2, CurOfIs DEF Current
  <2> QED BY <1>6, <2>3, <2>6, <2>9, <2>10, Zenon
<1> QED BY <1>7, <1>8

LEMMA PushKeeps == ASSUME IInv, Push PROVE Pending' = Pending
<1>1. Typed /\ Fetch
  BY DEF IInv
<1>2. Waiting' = Waiting \o Fetched(Slice)
  BY PushIs DEF Waiting
<1>3. /\ Current = Fetched(Slice) \o Current'
      /\ Fetched(Slice) \in Seq(Ops) /\ Current' \in Seq(Ops)
  BY PushMoves
<1>4. Queued' = Queued
  BY DEF Push, Queued, Stream, Coming
<1>5. Waiting \in Seq(Ops) /\ Current \in Seq(Ops) /\ Queued \in Seq(Ops)
  BY <1>1, PartsType
<1>6. ((Waiting \o Fetched(Slice)) \o Current') \o Queued = (Waiting \o Current) \o Queued
  BY <1>3, <1>5, SamePending
<1> QED BY <1>2, <1>4, <1>6, PendingIs, Zenon

LEMMA TagKeeps == ASSUME IInv, Tag PROVE Pending' = Pending
<1>1. /\ cur.type \in {"GRUP", "WAIT"} /\ cur' = Nul
      /\ UNCHANGED <<opq, loc, seqend, nxt, odata>>
  BY DEF Tag, out
<1>2. Typed /\ Fetch
  BY DEF IInv
<1>3. /\ cur \in Ops /\ seqend \in Ops /\ Nul \in Ops /\ ~Relay(Nul) /\ Nul.type # "SEQU"
      /\ ~Relay(cur) /\ cur.type # "SEQU"
  BY <1>1, <1>2, Pieces, OpType, RelayKinds
<1>4. Current = << >> /\ CurOf(Nul, seqend) = << >>
  BY <1>3, CurOfIs DEF Current
<1>5. Current' = Current /\ Waiting' = Waiting /\ Queued' = Queued
  BY <1>1, <1>4 DEF Current, Waiting, Queued, Stream, Coming
<1> QED BY <1>5, PendingIs, Zenon

(* A frame takes the actions that waited for it from the front.            *)
LEMMA Prefix ==
  ASSUME NEW S, NEW a \in Seq(S), NEW b \in Seq(S)
  PROVE  /\ Len(a) \in 0 .. Len(a \o b) /\ SubSeq(a \o b, 1, Len(a)) = a
         /\ SubSeq(a \o b, Len(a) + 1, Len(a \o b)) = b
<1> DEFINE c == a \o b
           m == Len(a)
           n == Len(c)
           p == SubSeq(c, 1, m)
           q == SubSeq(c, m + 1, n)
<1>1. /\ c \in Seq(S) /\ n = m + Len(b) /\ m \in Nat /\ Len(b) \in Nat /\ n \in Nat
      /\ \A i \in 1 .. m : c[i] = a[i]
      /\ \A i \in 1 .. Len(b) : c[m + i] = b[i]
  BY CatSeq
<1> HIDE DEF c
<1>2. p \in Seq(S) /\ Len(p) = m /\ \A i \in 1 .. m : p[i] = c[i]
  BY <1>1
<1>3. q \in Seq(S) /\ Len(q) = Len(b) /\ \A i \in 1 .. Len(b) : q[i] = c[m + i]
  BY <1>1
<1> HIDE DEF p, q
<1>4. p = a
  BY <1>1, <1>2, SameSeq
<1>5. q = b
  BY <1>1, <1>3, SameSeq
<1>6. m \in 0 .. n
  BY <1>1
<1> QED BY <1>4, <1>5, <1>6 DEF p, q, c

LEMMA EmitSends ==
  ASSUME IInv, NEW id \in {"DAT", "CMD"}, NEW then \in {"push", "latch", "end"},
         Emit(id, then), UNCHANGED queue
  PROVE  Order!Send
<1>1. Typed /\ Fetch
  BY DEF IInv
<1>2. Waiting \in Seq(Ops) /\ Current \in Seq(Ops) /\ Queued \in Seq(Ops)
  BY <1>1, PartsType
<1> DEFINE t == Current \o Queued
<1>3. Fetched(frame.ops)' = Waiting /\ Waiting' = << >>
  <2>1. frame' = [id |-> id, ops |-> odata] /\ odata' = << >>
    BY DEF Emit
  <2>2. Fetched(<< >>) = << >>
    BY FetchedEmpty
  <2> QED BY <2>1, <2>2 DEF Waiting
<1>4. Current' = Current /\ Queued' = Queued
  <2>1. Stream' = Stream
    BY SameQueue
  <2> QED BY <2>1 DEF queue, Current, Queued
<1>5. Pending' = t
  <2>1. << >> \o Current = Current
    BY <1>2, CatEmpty
  <2> QED BY <1>3, <1>4, <2>1, PendingIs, Zenon
<1>6. Pending = Waiting \o t
  <2>1. (Waiting \o Current) \o Queued = Waiting \o (Current \o Queued)
    BY <1>2, CatAssoc
  <2> QED BY <2>1, PendingIs, Zenon
<1>7. t \in Seq(Ops)
  BY <1>2, CatSeq
<1> HIDE DEF t
<1>8. /\ Len(Waiting) \in 0 .. Len(Pending)
      /\ Waiting = SubSeq(Pending, 1, Len(Waiting))
      /\ t = SubSeq(Pending, Len(Waiting) + 1, Len(Pending))
  BY <1>2, <1>6, <1>7, Prefix
<1> QED BY <1>3, <1>5, <1>8 DEF Order!Send

LEMMA SameParts ==
  ASSUME UNCHANGED <<queue, odata, frame>>
  PROVE  UNCHANGED <<Pending, Fetched(frame.ops)>>
<1>1. Stream' = Stream
  BY SameQueue
<1>2. Waiting' = Waiting /\ Current' = Current /\ Queued' = Queued
  BY <1>1 DEF queue, Waiting, Current, Queued
<1>3. Pending' = Pending
  BY <1>2, PendingIs, Zenon
<1> QED BY <1>3

(* A command adds its actions at the end; ROUTE WAIT has none.             *)
LEMMA AcceptAdds ==
  ASSUME IInv, NEW e, Accept(e), e \in Seq(Ops), e # << >>, StreamOK(e), NoNull(e),
         e[1].type # "SEQU"
  PROVE  Pending' = Pending \o Actions(e) /\ UNCHANGED Fetched(frame.ops)
         /\ Actions(e) \in Seq(Ops) /\ Pending \in Seq(Ops)
<1>1. Typed /\ Fetch
  BY DEF IInv
<1>2. Stream' = Stream \o e
  BY AcceptInv
<1>3. Stream \in Seq(Ops)
  BY <1>1, Pieces
<1>4. Actions(Stream \o e) = Actions(Stream) \o Actions(e) /\ Actions(e) \in Seq(Ops)
  BY <1>3, ActionsCat, ItemsFlat
<1>5. UNCHANGED <<cur, seqend, odata, frame>>
  BY DEF Accept, out
<1>6. Waiting' = Waiting /\ Current' = Current /\ Queued' = Queued \o Actions(e)
  BY <1>2, <1>4, <1>5 DEF Waiting, Current, Queued
<1>7. Waiting \in Seq(Ops) /\ Current \in Seq(Ops) /\ Queued \in Seq(Ops)
  BY <1>1, PartsType
<1> DEFINE w == Waiting \o Current
<1>8. w \in Seq(Ops) /\ Pending = w \o Queued /\ Pending' = w \o (Queued \o Actions(e))
  <2>1. w \in Seq(Ops)
    BY <1>7, CatSeq
  <2> QED BY <1>6, <2>1, PendingIs, Zenon
<1> HIDE DEF w
<1>9. (w \o Queued) \o Actions(e) = w \o (Queued \o Actions(e))
  <2>1. Assoc(w, Queued, Actions(e))
    BY <1>4, <1>7, <1>8, CatAssocs, Zenon
  <2> QED BY <2>1, Zenon DEF Assoc
<1>10. Pending \in Seq(Ops)
  BY <1>7, <1>8, CatSeq
<1> QED BY <1>4, <1>5, <1>8, <1>9, <1>10, Zenon

LEMMA StepOrder == ASSUME ProperLists, IInv, [Next]_vars PROVE [Order!Next]_(Order!vars)
<1> USE DEF Order!vars, Order!Next
<1>1. CASE Take
  <2>1. Pending' = Pending /\ frame' = frame
    BY <1>1, TakeKeeps DEF Take, out
  <2> QED BY <2>1
<1>2. CASE Look
  <2>1. Pending' = Pending /\ frame' = frame
    BY <1>2, LookKeeps DEF Look, out
  <2> QED BY <2>1
<1>3. CASE Push
  <2>1. Pending' = Pending /\ frame' = frame
    BY <1>3, PushKeeps DEF Push
  <2> QED BY <2>1
<1>4. CASE Tag
  <2>1. Pending' = Pending /\ frame' = frame
    BY <1>4, TagKeeps DEF Tag, out
  <2> QED BY <2>1
<1>5. CASE Flush
  <2>1. Emit("DAT", "push") /\ UNCHANGED queue
    BY <1>5 DEF Flush
  <2> QED BY <2>1, EmitSends
<1>6. CASE Group
  <2>1. \/ UNCHANGED <<queue, odata, frame>>
        \/ Emit("DAT", "end") /\ UNCHANGED queue
        \/ Emit("CMD", "latch") /\ UNCHANGED queue
    BY <1>6 DEF Group, out
  <2> QED BY <2>1, EmitSends, SameParts
<1>7. CASE Route
  <2>1. PICK t \in Types, l \in Lists : Accept(Encode(t, l))
    BY <1>7 DEF Route
  <2>2. /\ Pending' = Pending \o Actions(Encode(t, l))
        /\ UNCHANGED Fetched(frame.ops)
    <3>1. WellFormed(l)
      BY DEF ProperLists
    <3> QED BY <2>1, <3>1, EncodedOps, AcceptAdds
  <2> DEFINE A(x, y) == Actions(Encode(x, y))
  <2>3. Order!Accept
    <3> SUFFICES \E r \in {A(x, y) : x \in Types, y \in Lists} :
                   Pending' = Pending \o r /\ UNCHANGED Fetched(frame.ops)
      BY DEF Order!Accept
    <3>1. Pending' = Pending \o A(t, l) /\ UNCHANGED Fetched(frame.ops)
      BY <2>2
    <3> HIDE DEF A
    <3> WITNESS A(t, l) \in {A(x, y) : x \in Types, y \in Lists}
    <3> QED BY <3>1
  <2> QED BY <2>3
<1>8. CASE RouteWait
  <2> DEFINE x == Op("WAIT", 0)
  <2>1. Accept(<<x>>)
    BY <1>8 DEF RouteWait
  <2>2. /\ Pending' = Pending \o Actions(<<x>>) /\ Pending \in Seq(Ops)
        /\ UNCHANGED Fetched(frame.ops)
    BY <2>1, WaitOps, AcceptAdds
  <2>3. x \in Ops /\ ~Relay(x)
    BY OpType, RelayKinds
  <2> HIDE DEF x
  <2>4. <<x>> \o << >> = <<x>> /\ << >> \in Seq(Ops)
    BY <2>3
  <2>5. Actions(<<x>> \o << >>) = << >> \o Actions(<< >>)
    BY <2>3, <2>4, ActionsCons DEF ActOf
  <2>6. Actions(<<x>>) = << >>
    <3>1. << >> \o << >> = << >>
      BY <2>4, CatEmpty
    <3> QED BY <2>4, <2>5, <3>1, FetchedEmpty, Zenon
  <2>7. Pending' = Pending
    BY <2>2, <2>6, CatEmpty
  <2> QED BY <2>2, <2>7
<1>9. CASE Resume \/ Check \/ Latch \/ Measure \/ End \/ Untrap \/ SlotError \/ RouteArm
           \/ Mode \/ ErrPop \/ Cls \/ UNCHANGED vars
  <2>1. UNCHANGED <<queue, odata, frame>>
    BY <1>9 DEF Resume, Check, Latch, Measure, End, Untrap, SlotError, RouteArm, Mode,
                ErrPop, Cls, vars, out
  <2> QED BY <2>1, SameParts
<1> QED BY <1>1, <1>2, <1>3, <1>4, <1>5, <1>6, <1>7, <1>8, <1>9 DEF Next, Vm, Shell

(* The machine implements RelayOrder: every relay action of an accepted    *)
(* ROUTE command goes out in a frame once and in the order of the          *)
(* commands, through the queue, vm_prefetch, the splitting of scans, the   *)
(* packing of frames and every error of the hardware.                      *)
THEOREM Ordered == ASSUME ProperLists PROVE Spec => InOrder
<1>1. Init => Order!Init
  <2> SUFFICES ASSUME Init PROVE Order!Init
    OBVIOUS
  <2>1. /\ odata = << >> /\ cur = Nul /\ seqend = Nul /\ frame.ops = << >>
        /\ loc = Nul /\ nxt = Nul /\ opq = << >>
    BY DEF Init
  <2>2. Nul \in Ops /\ ~Relay(Nul) /\ Nul.type # "SEQU"
    BY OpType, RelayKinds
  <2>3. Waiting = << >> /\ Current = << >> /\ Fetched(frame.ops) = << >>
    BY <2>1, <2>2, FetchedEmpty, CurOfIs DEF Waiting, Current
  <2>4. Queued = << >>
    <3>1. Stream = <<Nul>> \o << >> /\ << >> \in Seq(Ops)
      BY <2>1 DEF Stream, Coming
    <3>2. Actions(<<Nul>> \o << >>) = << >> \o Actions(<< >>)
      BY <2>2, <3>1, ActionsCons DEF ActOf
    <3>3. << >> \o << >> = << >>
      BY <3>1, CatEmpty
    <3> QED BY <3>1, <3>2, <3>3, FetchedEmpty, Zenon DEF Queued
  <2>5. Pending = << >>
    <3>1. << >> \in Seq(Ops)
      OBVIOUS
    <3>2. << >> \o << >> = << >>
      BY <3>1, CatEmpty
    <3> QED BY <2>3, <2>4, <3>2, PendingIs, Zenon
  <2> QED BY <2>3, <2>5 DEF Order!Init
<1>2. IInv /\ [Next]_vars => [Order!Next]_(Order!vars)
  BY StepOrder
<1> QED BY <1>1, <1>2, Inductive, PTL DEF Spec, InOrder, Order!Spec


-----------------------------------------------------------------------------
(* Lists whose ranges run forward. *)

(* The hypothesis of the theorems below: no range of a list ends before it *)
(* starts.  The shell takes such a list, and nothing after it counts its   *)
(* points right: vm_update refuses a range of less than no point, not one  *)
(* of none, and *CLS lets even the refused one through.                    *)
ForwardLists == \A t \in Types, l \in Lists : Forward(t, l)

(* The points in mxc_odata, and those of the open group sent so far.       *)
Held == Len(Fetched(odata))
Sent == batch + Held

(* Every range that is queued or fetched has a point, and what waits for a *)
(* frame has one.                                                          *)
Forwards ==
  /\ cnt >= 0 /\ Spanned(Stream)
  /\ cur.type = "SEQU" => Span(Type, cur.p, seqend.p) >= 1
  /\ odata # << >> => Held >= 1

(* vm_scan_cnt is the number of points sent or waiting for a frame.        *)
Level ==
  /\ IsScan(tsaved) => cnt = Sent
  /\ ~IsScan(tsaved) /\ odata = << >> => batch = 0

(* The same, place by place: where a group is complete the count is back   *)
(* at zero and the points are `arm`.                                       *)
Exact ==
  /\ At \in {"top", "look", "run", "exec"} => Level
  /\ At = "push" /\ IsScan(tsaved) => cnt = Sent
  /\ At = "group" => Level \/ (IsScan(tsaved) /\ cnt = 0 /\ Sent = arm /\ odata # << >>)
  /\ At = "end" /\ frame.id = "DAT" => IsScan(tsaved) /\ cnt = Sent
  /\ At \in {"latch", "measure"} /\ IsScan(tsaved) => batch = arm

FInv == IInv /\ Forwards /\ (~dirty => Exact)

LEMMA HeldType ==
  ASSUME IInv
  PROVE  /\ Held \in Nat /\ batch \in Nat /\ Sent \in Nat /\ (odata = << >> => Held = 0)
         /\ cnt \in Int /\ cnt < arm /\ arm \in Nat /\ dirty \in BOOLEAN
<1>1. Typed
  BY DEF IInv
<1>2. Fetched(odata) \in Seq(Ops)
  BY <1>1, Pieces, ItemsFlat
<1>3. Held \in Nat
  BY <1>2 DEF Held
<1>4. odata = << >> => Held = 0
  <2>1. Len(<< >>) = 0
    OBVIOUS
  <2> QED BY <2>1, FetchedEmpty DEF Held
<1> QED BY <1>1, <1>3, <1>4, RetType DEF Sent

LEMMA SameForwards ==
  ASSUME Forwards, UNCHANGED queue, odata' = odata \/ odata' = << >>, cnt' = cnt \/ cnt' = 0
  PROVE  Forwards'
<1>1. Stream' = Stream /\ Type' = Type /\ cur' = cur /\ seqend' = seqend
  BY SameQueue DEF queue
<1>2. odata' # << >> => Held' = Held /\ odata # << >>
  BY DEF Held
<1>3. cnt' >= 0
  BY DEF Forwards
<1> QED BY <1>1, <1>2, <1>3 DEF Forwards

LEMMA InitFwd == ASSUME Init PROVE FInv
<1>1. IInv
  BY InitInv
<1>2. /\ cnt = 0 /\ batch = 0 /\ odata = << >> /\ cur = Nul /\ At = "top" /\ tsaved = "NULL"
      /\ loc = Nul /\ nxt = Nul /\ opq = << >>
  BY DEF Init, At
<1>3. Held = 0 /\ Sent = 0 /\ Nul.type = "NULL" /\ Nul \in Ops
  BY <1>1, <1>2, HeldType, OpType DEF Sent
<1>4. Stream = <<Nul>>
  <2>1. <<Nul>> \in Seq(Ops)
    BY <1>3
  <2>2. <<Nul>> \o << >> = <<Nul>>
    BY <2>1, CatEmpty
  <2> QED BY <1>2, <2>2, Zenon DEF Stream, Coming
<1>5. Forwards
  BY <1>2, <1>3, <1>4, StreamParts DEF Forwards
<1>6. Exact
  BY <1>2, <1>3 DEF Exact, Level
<1> QED BY <1>1, <1>5, <1>6 DEF FInv

(* Steps that leave the counts alone.                                      *)
LEMMA SameExact ==
  ASSUME UNCHANGED <<odata, batch, cnt, tsaved, arm>>
  PROVE  Level' = Level /\ Sent' = Sent /\ Held' = Held
  BY DEF Level, Sent, Held

LEMMA TakeFwd == ASSUME FInv, Take PROVE FInv'
<1>1. /\ pc = "top" /\ At = "top" /\ At' = "look" /\ UNCHANGED <<cur, seqend>>
      /\ UNCHANGED <<odata, batch, cnt, tsaved, arm, dirty, frame>>
  BY DEF Take, At, Go, scan, out, hist
<1>2. IInv' /\ (Spanned(Stream) => Spanned(Stream)')
  BY TakeInv DEF FInv
<1>3. Type' = Type /\ Level' = Level /\ Held' = Held
  BY <1>1, SameExact DEF Type
<1>4. Forwards'
  BY <1>1, <1>2, <1>3 DEF FInv, Forwards
<1>5. ~dirty' => Exact'
  BY <1>1, <1>3 DEF FInv, Exact
<1> QED BY <1>2, <1>4, <1>5 DEF FInv

LEMMA LookFwd == ASSUME FInv, Look PROVE FInv'
<1>1. /\ pc = "look" /\ At = "look" /\ At' = "run"
      /\ UNCHANGED <<odata, batch, cnt, tsaved, arm, dirty, frame>>
  BY DEF Look, At, Go, scan, out, hist
<1>2. /\ IInv' /\ (Spanned(Stream) => Spanned(Stream)')
      /\ Spanned(Stream) /\ cur'.type = "SEQU" => Span(Type', cur'.p, seqend'.p) >= 1
  BY LookInv DEF FInv
<1>3. Level' = Level /\ Held' = Held
  BY <1>1, SameExact
<1>4. Forwards'
  BY <1>1, <1>2, <1>3 DEF FInv, Forwards
<1>5. ~dirty' => Exact'
  BY <1>1, <1>3 DEF FInv, Exact
<1> QED BY <1>2, <1>4, <1>5 DEF FInv

LEMMA ResumeFwd == ASSUME FInv, Resume PROVE FInv'
<1>1. /\ pc = "top" /\ At = "top" /\ At' = "run" /\ UNCHANGED queue
      /\ UNCHANGED <<odata, batch, cnt, tsaved, arm, dirty, frame>>
  BY DEF Resume, At, Go, scan, out, hist
<1>2. IInv' /\ Forwards'
  BY <1>1, ResumeInv, SameForwards DEF FInv
<1>3. ~dirty' => Exact'
  BY <1>1, SameExact DEF FInv, Exact
<1> QED BY <1>2, <1>3 DEF FInv

LEMMA CheckFwd == ASSUME FInv, Check PROVE FInv'
<1>1. /\ pc = "run" /\ At = "run" /\ UNCHANGED queue
      /\ UNCHANGED <<odata, batch, tsaved, arm, frame>>
      /\ (Raise("exec") /\ dirty' = TRUE) \/ (Go("exec") /\ dirty' = dirty)
  BY DEF Check, At, out
<1>2. IInv' /\ (cnt' = cnt \/ (cnt' = 0 /\ dirty'))
  BY CheckInv DEF FInv
<1>3. Forwards'
  BY <1>1, <1>2, SameForwards DEF FInv
<1>4. At' = "exec"
  BY <1>1, Moved DEF FInv, IInv
<1>5. ~dirty' => Exact'
  BY <1>1, <1>2, <1>4, SameExact DEF FInv, Exact
<1> QED BY <1>2, <1>3, <1>5 DEF FInv

LEMMA FlushFwd == ASSUME FInv, Flush PROVE FInv'
<1>1. /\ At = "exec" /\ UNCHANGED <<queue, cnt, tsaved, arm>>
  BY DEF Flush, At, scan
<1>2. IInv /\ Forwards /\ IInv' /\ Emit("DAT", "push")
  BY FlushInv DEF FInv
<1>3. /\ odata' = << >> /\ batch' = batch + Held /\ At' = "push"
      /\ (dirty' = dirty \/ dirty') /\ frame'.id = "DAT"
  BY <1>2, EmitType DEF Held
<1>4. Forwards'
  BY <1>1, <1>2, <1>3, SameForwards
<1>5. Sent' = Sent
  <2>1. Held' = 0
    BY <1>3, FetchedEmpty DEF Held
  <2> QED BY <1>2, <1>3, <2>1, HeldType DEF Sent
<1>6. ~dirty' => Exact'
  BY <1>1, <1>3, <1>5 DEF FInv, Exact, Level
<1> QED BY <1>2, <1>4, <1>6 DEF FInv


(* vm_execute gets as many points as vm_update counts, at least one, and   *)
(* leaves a range of at least one.                                         *)
LEMMA SliceHeld ==
  ASSUME IInv, Forwards, Operation
  PROVE  /\ Len(Fetched(Slice)) \in Nat /\ Len(Fetched(Slice)) >= 1
         /\ SliceCount = IF IsScan(Type) THEN Len(Fetched(Slice)) ELSE 0
         /\ Cut => Span(Type, cur.p + Left * Stride(Type), seqend.p) >= 1
<1>1. Typed /\ Fetch
  BY DEF IInv
<1>2. /\ Type \in RelayTypes
      /\ cur.type = "SEQU" => Relay(seqend) /\ seqend.type = Type
      /\ Left \in Nat /\ Left >= 1
      /\ cur.p \in Int /\ seqend.p \in Int /\ Span(Type, cur.p, seqend.p) \in Int
      /\ Stride(Type) \in Int
      /\ PointOf \/ RangeOf \/ PartOf
  BY <1>1, SliceIs
<1>3. cur \in Ops /\ seqend \in Ops
  BY <1>1, Pieces
<1>4. CASE PointOf
  <2>1. /\ Slice = <<cur>> /\ Relay(cur) /\ ~Cut
        /\ SliceCount = IF IsScan(Type) THEN 1 ELSE 0
    BY <1>4 DEF PointOf
  <2>2. Fetched(Slice) = <<cur>>
    BY <1>3, <2>1, FetchedOne
  <2>3. Len(<<cur>>) = 1
    OBVIOUS
  <2> DEFINE n == Len(Fetched(Slice))
  <2>4. n = 1
    BY <2>2, <2>3
  <2> HIDE DEF n
  <2>5. /\ n \in Nat /\ n >= 1
        /\ SliceCount = IF IsScan(Type) THEN n ELSE 0
    BY <2>1, <2>4
  <2> QED BY <2>1, <2>5 DEF n
<1>5. CASE RangeOf
  <2> DEFINE n == Span(Type, cur.p, seqend.p)
  <2>1. /\ Slice = <<cur, seqend>> /\ cur.type = "SEQU" /\ ~Cut
        /\ SliceCount = IF IsScan(Type) THEN n ELSE 0
    BY <1>5 DEF RangeOf
  <2>2. n >= 1 /\ n \in Int
    BY <1>2, <2>1 DEF Forwards
  <2>3. Fetched(Slice) = Run(Type, cur.p, seqend.p)
    BY <1>2, <1>3, <2>1, FetchedTwo
  <2>4. Len(Run(Type, cur.p, seqend.p)) = n
    BY <1>2, <2>2, RunType
  <2> HIDE DEF n
  <2>5. Len(Fetched(Slice)) = n
    BY <2>3, <2>4
  <2> QED BY <2>1, <2>2, <2>5
<1>6. CASE PartOf
  <2> DEFINE a == cur.p + (Left - 1) * Stride(Type)
             b == cur.p + Left * Stride(Type)
             n == Span(Type, cur.p, seqend.p)
  <2>1. /\ cur.type = "SEQU" /\ Cut /\ IsScan(Type) /\ Slice = <<cur, Op(Type, a)>>
        /\ SliceCount = Left /\ n > Left
    BY <1>2, <1>6 DEF PartOf
  <2>2. a \in Int /\ b \in Int /\ Span(Type, cur.p, a) = Left /\ Span(Type, b, seqend.p) = n - Left
    <3>1. Left > 0 /\ Left < Span(Type, cur.p, seqend.p)
      BY <1>2, <2>1
    <3>2. /\ a = cur.p + (Left - 1) * Stride(Type)
          /\ b = cur.p + Left * Stride(Type)
      OBVIOUS
    <3> HIDE DEF a, b
    <3>3. a \in Int /\ b \in Int /\ Halves(Type, cur.p, seqend.p, Left, a, b)
      BY <1>2, <3>1, <3>2, RunCut
    <3> QED BY <3>3, Zenon DEF Halves
  <2>3. n \in Int
    BY <1>2
  <2>4. b = cur.p + Left * Stride(Type)
    OBVIOUS
  <2> HIDE DEF a, b, n
  <2>5. Op(Type, a) \in Ops /\ Op(Type, a).type = Type /\ Op(Type, a).p = a
    BY <1>2, <2>2, OpType
  <2>6. Fetched(Slice) = Run(Type, cur.p, a)
    <3>1. Relay(Op(Type, a))
      BY <1>2, <2>5 DEF Relay
    <3>2. Fetched(<<cur, Op(Type, a)>>) = Run(Op(Type, a).type, cur.p, Op(Type, a).p)
      BY <1>3, <2>1, <2>5, <3>1, FetchedTwo
    <3> QED BY <2>1, <2>5, <3>2
  <2>7. Len(Run(Type, cur.p, a)) = Left
    <3>1. Span(Type, cur.p, a) >= 0
      BY <1>2, <2>2
    <3>2. Len(Run(Type, cur.p, a)) = Span(Type, cur.p, a)
      BY <1>2, <2>2, <3>1, RunType
    <3> QED BY <2>2, <3>2
  <2>8. Len(Fetched(Slice)) = Left
    BY <2>6, <2>7
  <2>9. Span(Type, b, seqend.p) >= 1
    BY <1>2, <2>1, <2>2, <2>3
  <2> QED BY <1>2, <2>1, <2>4, <2>8, <2>9
<1> QED BY <1>2, <1>4, <1>5, <1>6

LEMMA PushFwd == ASSUME FInv, Push PROVE FInv'
<1>1. /\ At \in {"exec", "push"} /\ Operation /\ cur # Nul
      /\ odata' # << >> /\ Fetched(odata') = Fetched(odata) \o Fetched(Slice)
  BY PushIs DEF FInv
<1>2. /\ tsaved' = Type
      /\ cur' = IF Cut THEN Op("SEQU", cur.p + Left * Stride(Type)) ELSE Nul
      /\ seqend' = IF Cut THEN seqend ELSE Nul
      /\ LET c == cnt + SliceCount
             full == IsScan(Type) /\ c = arm
         IN cnt' = (IF full THEN 0 ELSE c) /\ Go(IF full THEN "group" ELSE "top")
      /\ UNCHANGED <<opq, loc, nxt, arm, frame, batch, dirty>>
  BY DEF Push, hist
<1>3. IInv /\ IInv' /\ Forwards /\ Typed /\ Fetch /\ Packed /\ Counted
  BY PushInv DEF FInv, IInv
<1> DEFINE k == Len(Fetched(Slice))
<1>4. /\ k \in Nat /\ k >= 1
      /\ SliceCount = IF IsScan(Type) THEN k ELSE 0
      /\ Cut => Span(Type, cur.p + Left * Stride(Type), seqend.p) >= 1
  BY <1>1, <1>3, SliceHeld
<1>5. /\ Held \in Nat /\ batch \in Nat /\ (odata = << >> => Held = 0) /\ cnt \in Int /\ cnt >= 0
      /\ cnt < arm /\ arm \in Nat
  BY <1>3, HeldType DEF Forwards
<1>6. Held' = Held + k
  <2>1. Fetched(odata) \in Seq(Ops) /\ Fetched(Slice) \in Seq(Ops)
    BY <1>1, <1>3, Pieces, SliceIs, ItemsFlat
  <2>2. Len(Fetched(odata) \o Fetched(Slice)) = Len(Fetched(odata)) + Len(Fetched(Slice))
    BY <2>1, CatSeq
  <2> QED BY <1>1, <2>2 DEF Held
<1> HIDE DEF k
<1>7. Sent' = Sent + k /\ Sent \in Nat /\ Sent = batch + Held
  BY <1>2, <1>4, <1>5, <1>6 DEF Sent
<1>8. Forwards'
  <2>1. cnt' >= 0
    <3>1. SliceCount \in Nat
      BY <1>4
    <3> QED BY <1>2, <1>5, <3>1
  <2>2. Stream' = Stream
    BY <1>2 DEF Stream, Coming
  <2>3. cur'.type = "SEQU" => Span(Type', cur'.p, seqend'.p) >= 1
    <3>1. CASE Cut
      <4>1. cur.type = "SEQU" /\ seqend.type = Type
        BY <1>1, <1>3, <3>1, SliceIs DEF Cut
      <4>2. /\ cur' = Op("SEQU", cur.p + Left * Stride(Type)) /\ seqend' = seqend
        BY <1>2, <3>1
      <4>3. cur'.type = "SEQU" /\ cur'.p = cur.p + Left * Stride(Type)
        BY <4>2 DEF Op
      <4>4. Type' = Type
        BY <4>1, <4>2, <4>3 DEF Type
      <4> QED BY <1>4, <3>1, <4>2, <4>3, <4>4
    <3>2. CASE ~Cut
      <4>1. cur' = Nul /\ Nul.type = "NULL"
        BY <1>2, <3>2, OpType
      <4> QED BY <4>1
    <3> QED BY <3>1, <3>2
  <2>4. Held' >= 1
    BY <1>4, <1>5, <1>6
  <2> QED BY <1>3, <2>1, <2>2, <2>3, <2>4 DEF Forwards
<1>9. ASSUME ~dirty'
      PROVE  Exact'
  <2>1. Exact
    BY <1>2, <1>9 DEF FInv
  <2>2. CASE ~IsScan(Type)
    <3>1. At' = "top"
      BY <1>2, <2>2 DEF Go, At
    <3> QED BY <1>1, <1>2, <2>2, <3>1 DEF Exact, Level
  <2>3. CASE IsScan(Type)
    <3>1. cnt = Sent
      <4>1. CASE IsScan(tsaved)
        BY <1>1, <2>1, <4>1 DEF Exact, Level
      <4>2. CASE ~IsScan(tsaved)
        <5>1. At = "exec" /\ cnt = 0
          BY <1>1, <1>3, <2>3, <4>2 DEF Packed, Counted
        <5>2. NextType = Type /\ Type # "GRUP"
          BY <1>1, <1>3, SliceIs DEF NextType
        <5>3. odata = << >>
          BY <1>3, <2>3, <4>2, <5>1, <5>2 DEF Packed
        <5>4. batch = 0
          BY <2>1, <4>2, <5>1, <5>3 DEF Exact, Level
        <5> QED BY <1>5, <1>7, <5>1, <5>3, <5>4
      <4> QED BY <4>1, <4>2
    <3>2. cnt' = (IF cnt + k = arm THEN 0 ELSE cnt + k)
          /\ At' = (IF cnt + k = arm THEN "group" ELSE "top")
      BY <1>2, <1>4, <2>3 DEF Go, At
    <3>3. CASE cnt + k = arm
      <4>1. Sent' = arm' /\ cnt' = 0 /\ At' = "group" /\ IsScan(tsaved')
        BY <1>2, <1>7, <2>3, <3>1, <3>2, <3>3
      <4> QED BY <1>1, <4>1 DEF Exact
    <3>4. CASE cnt + k # arm
      <4>1. Sent' = cnt' /\ At' = "top" /\ IsScan(tsaved')
        BY <1>2, <1>7, <2>3, <3>1, <3>2, <3>4
      <4> QED BY <4>1 DEF Exact, Level
    <3> QED BY <3>3, <3>4
  <2> QED BY <2>2, <2>3
<1> QED BY <1>3, <1>8, <1>9 DEF FInv

LEMMA TagFwd == ASSUME FInv, Tag PROVE FInv'
<1>1. /\ At = "exec" /\ At' \in {"group", "top"} /\ cur' = Nul
      /\ UNCHANGED <<opq, loc, nxt, odata, batch, cnt, tsaved, arm, dirty, frame>>
  BY DEF Tag, Go, At, scan, out, hist
<1>2. IInv'
  BY TagInv DEF FInv
<1>3. Level' = Level /\ Held' = Held /\ Stream' = Stream
  BY <1>1, SameExact DEF Stream, Coming
<1>4. Nul.type = "NULL"
  BY OpType
<1>5. Forwards'
  BY <1>1, <1>3, <1>4 DEF FInv, Forwards
<1>6. ~dirty' => Exact'
  BY <1>1, <1>3 DEF FInv, Exact
<1> QED BY <1>2, <1>5, <1>6 DEF FInv

LEMMA GroupFwd == ASSUME FInv, Group PROVE FInv'
<1>1. /\ pc = "group" /\ At = "group" /\ UNCHANGED <<queue, arm, cnt, tsaved>>
      /\ \/ odata = << >> /\ Go("top") /\ UNCHANGED <<odata, frame, batch, dirty>>
         \/ odata # << >> /\ IsScan(tsaved) /\ cnt # 0 /\ Emit("DAT", "end")
         \/ odata # << >> /\ ~(IsScan(tsaved) /\ cnt # 0) /\ Emit("CMD", "latch")
  BY DEF Group, At, scan, out, hist
<1>2. IInv' /\ IInv /\ Forwards
  BY GroupInv DEF FInv
<1>3. CASE odata = << >> /\ Go("top") /\ UNCHANGED <<odata, frame, batch, dirty>>
  <2>1. At' = "top"
    BY <1>3 DEF Go, At
  <2>2. Forwards'
    BY <1>1, <1>2, <1>3, SameForwards
  <2>3. Level' = Level
    BY <1>1, <1>3, SameExact
  <2>4. ~dirty' => Exact'
    BY <1>1, <1>3, <2>1, <2>3 DEF FInv, Exact
  <2> QED BY <1>2, <2>2, <2>4 DEF FInv
<1>4. ASSUME NEW id \in {"DAT", "CMD"}, NEW then \in {"latch", "end"}, Emit(id, then),
             odata # << >>, (id = "DAT" /\ then = "end" /\ IsScan(tsaved) /\ cnt # 0)
                            \/ (id = "CMD" /\ then = "latch" /\ (IsScan(tsaved) => cnt = 0))
      PROVE  FInv'
  <2>1. /\ odata' = << >> /\ batch' = batch + Held /\ At' = then
        /\ (dirty' = dirty \/ dirty') /\ frame'.id = id
    BY <1>2, <1>4, EmitType DEF Held
  <2>2. Forwards'
    BY <1>1, <1>2, <2>1, SameForwards
  <2>3. /\ Held' = 0 /\ Held \in Nat /\ batch \in Nat /\ Held >= 1
        /\ Sent = batch + Held /\ Sent' = batch' + Held'
    BY <1>2, <1>4, <2>1, HeldType, FetchedEmpty DEF Held, Sent, Forwards
  <2>4. batch' = Sent /\ Sent' = Sent /\ Sent # 0
    BY <2>1, <2>3
  <2>5. ASSUME ~dirty' PROVE Exact'
    <3>1. Level \/ (IsScan(tsaved) /\ cnt = 0 /\ Sent = arm /\ odata # << >>)
      BY <1>1, <2>1, <2>5 DEF FInv, Exact
    <3>2. CASE id = "DAT" /\ then = "end" /\ IsScan(tsaved) /\ cnt # 0
      <4>1. cnt = Sent
        BY <3>1, <3>2 DEF Level
      <4> QED BY <1>1, <2>1, <2>4, <3>2, <4>1 DEF Exact
    <3>3. CASE id = "CMD" /\ then = "latch" /\ (IsScan(tsaved) => cnt = 0)
      <4>1. IsScan(tsaved) => Sent = arm
        BY <2>4, <3>1, <3>3 DEF Level
      <4> QED BY <1>1, <2>1, <2>4, <3>3, <4>1 DEF Exact
    <3> QED BY <1>4, <3>2, <3>3
  <2> QED BY <1>2, <2>2, <2>5 DEF FInv
<1>5. CASE odata # << >> /\ IsScan(tsaved) /\ cnt # 0 /\ Emit("DAT", "end")
  BY <1>4, <1>5
<1>6. CASE odata # << >> /\ ~(IsScan(tsaved) /\ cnt # 0) /\ Emit("CMD", "latch")
  BY <1>4, <1>6
<1> QED BY <1>1, <1>3, <1>5, <1>6

LEMMA LatchFwd == ASSUME FInv, Latch PROVE FInv'
<1>1. /\ At = "latch" /\ UNCHANGED queue
      /\ UNCHANGED <<arm, cnt, odata, tsaved, frame, batch>> /\ dirty' \in {dirty, TRUE}
      /\ LET then == IF IsScan(tsaved) THEN "measure" ELSE "end"
         IN Go(then) \/ Fail(then)
  BY DEF Latch, At, scan, out, hist
<1>2. IInv' /\ Typed /\ Forwards' /\ frame.id = "CMD"
  BY <1>1, LatchInv, SameForwards DEF FInv, IInv, Counted
<1>3. At' = IF IsScan(tsaved) THEN "measure" ELSE "end"
  BY <1>1, <1>2, Moved
<1>4. ASSUME ~dirty' PROVE Exact'
  <2>1. ~dirty
    BY <1>1, <1>4
  <2>2. IsScan(tsaved) => batch = arm
    BY <1>1, <2>1 DEF FInv, Exact
  <2>3. CASE IsScan(tsaved)
    BY <1>1, <1>3, <2>2, <2>3 DEF Exact
  <2>4. CASE ~IsScan(tsaved)
    BY <1>1, <1>2, <1>3, <2>4 DEF Exact
  <2> QED BY <2>3, <2>4
<1> QED BY <1>2, <1>4 DEF FInv

LEMMA MeasureFwd == ASSUME FInv, Measure PROVE FInv'
<1>1. /\ At = "measure" /\ UNCHANGED queue
      /\ UNCHANGED <<arm, cnt, odata, tsaved, frame, batch, dirty>>
      /\ Go("end") \/ Fail("end")
  BY DEF Measure, At, scan, out, hist
<1>2. IInv' /\ Typed /\ Forwards' /\ frame.id = "CMD"
  BY <1>1, MeasureInv, SameForwards DEF FInv, IInv, Counted
<1>3. At' = "end"
  BY <1>1, <1>2, Moved
<1>4. ~dirty' => Exact'
  BY <1>1, <1>2, <1>3 DEF Exact
<1> QED BY <1>2, <1>4 DEF FInv

LEMMA EndFwd == ASSUME FInv, End PROVE FInv'
<1>1. /\ pc = "end" /\ At = "end" /\ At' = "top" /\ UNCHANGED queue
      /\ UNCHANGED <<arm, cnt, odata, tsaved, frame>>
      /\ IF frame.id = "CMD" THEN batch' = 0 /\ dirty' = FALSE ELSE UNCHANGED <<batch, dirty>>
  BY DEF End, Go, At, scan, out, hist
<1>2. IInv /\ IInv' /\ Forwards' /\ odata = << >> /\ (frame.id = "CMD" => cnt = 0)
  BY <1>1, EndInv, SameForwards DEF FInv, IInv, Counted, Packed
<1>3. Held' = 0 /\ Held = 0 /\ frame.id \in {"DAT", "CMD"}
  <2>1. Held = 0 /\ Held' = Held
    BY <1>1, <1>2, HeldType DEF Held
  <2> QED BY <1>2, <2>1 DEF IInv, Typed
<1>4. CASE frame.id = "CMD"
  <2>1. Sent' = 0
    BY <1>1, <1>3, <1>4 DEF Sent
  <2>2. Level' /\ Exact'
    BY <1>1, <1>2, <1>4, <2>1 DEF Level, Exact
  <2> QED BY <1>2, <2>2 DEF FInv
<1>5. CASE frame.id = "DAT"
  <2>1. Sent' = Sent /\ UNCHANGED <<batch, dirty>>
    BY <1>1, <1>5, SameExact
  <2>2. ~dirty' => Exact'
    BY <1>1, <1>5, <2>1 DEF FInv, Level, Exact
  <2> QED BY <1>2, <2>2 DEF FInv
<1> QED BY <1>3, <1>4, <1>5

LEMMA ErrorFwd == ASSUME FInv, Untrap \/ SlotError \/ ErrPop \/ Cls PROVE FInv'
<1>1. IInv' /\ At' = At /\ UNCHANGED <<queue, scan, out, hist>>
  BY ErrorInv DEF FInv
<1>2. UNCHANGED <<arm, cnt, odata, tsaved, frame, batch, dirty>>
  BY <1>1 DEF scan, out, hist
<1>3. Forwards'
  BY <1>1, <1>2, SameForwards DEF FInv
<1>4. ~dirty' => Exact'
  BY <1>1, <1>2, SameExact DEF FInv, Exact
<1> QED BY <1>1, <1>3, <1>4 DEF FInv

LEMMA AcceptFwd ==
  ASSUME FInv, NEW e, Accept(e), e \in Seq(Ops), e # << >>, StreamOK(e), NoNull(e),
         e[1].type # "SEQU", Spanned(e)
  PROVE  FInv'
<1>1. UNCHANGED <<cur, seqend, arm, cnt, odata, tsaved, frame, batch, dirty>>
  BY DEF Accept, scan, out, hist
<1>2. IInv' /\ At' = At /\ (Spanned(Stream) => Spanned(Stream)')
  BY AcceptInv DEF FInv
<1>3. Type' = Type /\ Held' = Held /\ Sent' = Sent /\ Level' = Level
  BY <1>1, SameExact DEF Type
<1>4. Forwards'
  BY <1>1, <1>2, <1>3 DEF FInv, Forwards
<1>5. ~dirty' => Exact'
  BY <1>1, <1>2, <1>3 DEF FInv, Exact
<1> QED BY <1>2, <1>4, <1>5 DEF FInv

LEMMA RouteFwd == ASSUME ProperLists, ForwardLists, FInv, Route \/ RouteWait PROVE FInv'
<1>1. CASE Route
  <2>1. PICK t \in Types, l \in Lists : Accept(Encode(t, l))
    BY <1>1 DEF Route
  <2>2. Forward(t, l) /\ WellFormed(l)
    BY DEF ForwardLists, ProperLists
  <2> QED BY <2>1, <2>2, EncodedOps, AcceptFwd
<1>2. CASE RouteWait
  BY <1>2, WaitOps, AcceptFwd DEF RouteWait
<1> QED BY <1>1, <1>2

LEMMA ArmFwd == ASSUME FInv, RouteArm PROVE FInv' /\ opq = << >>
<1>1. VmBusy = 0 /\ UNCHANGED queue
      /\ UNCHANGED <<cnt, odata, tsaved, frame, batch, dirty>>
  BY DEF RouteArm, out, hist
<1>2. IInv' /\ At' = At
  BY ArmInv DEF FInv
<1>3. At \in {"top", "look"} /\ opq = << >>
  BY <1>1, Idle DEF FInv, Forwards
<1>4. Forwards'
  BY <1>1, SameForwards DEF FInv
<1>5. Level' = Level
  BY <1>1 DEF Level, Sent, Held
<1>6. ~dirty' => Exact'
  BY <1>1, <1>2, <1>3, <1>5 DEF FInv, Exact
<1> QED BY <1>2, <1>3, <1>4, <1>6 DEF FInv

LEMMA ModeFwd == ASSUME FInv, Mode PROVE FInv'
<1>1. VmBusy = 0 /\ cnt' = 0 /\ UNCHANGED queue
      /\ UNCHANGED <<arm, odata, tsaved, frame, batch, dirty>>
  BY DEF Mode, Busy, out, hist
<1>2. IInv' /\ At' = At
  BY ModeInv DEF FInv
<1>3. cnt = 0
  BY <1>1, Idle DEF FInv, Forwards
<1>4. Forwards'
  BY <1>1, SameForwards DEF FInv
<1>5. ~dirty' => Exact'
  BY <1>1, <1>2, <1>3, SameExact DEF FInv, Exact
<1> QED BY <1>2, <1>4, <1>5 DEF FInv


LEMMA SameFwd == ASSUME FInv, UNCHANGED vars PROVE FInv'
<1>1. /\ UNCHANGED queue
      /\ UNCHANGED <<pc, ret, arm, cnt, odata, tsaved, frame, batch, dirty>>
  BY DEF vars, scan, out, err, hist
<1>2. IInv' /\ At' = At
  BY <1>1, SameInv DEF FInv, At
<1>3. Forwards'
  BY <1>1, SameForwards DEF FInv
<1>4. ~dirty' => Exact'
  BY <1>1, <1>2, SameExact DEF FInv, Exact
<1> QED BY <1>2, <1>3, <1>4 DEF FInv

LEMMA StepFwd == ASSUME ProperLists, ForwardLists, FInv, [Next]_vars PROVE FInv'
<1>1. CASE Vm
  BY <1>1, TakeFwd, LookFwd, ResumeFwd, CheckFwd, FlushFwd, PushFwd, TagFwd, GroupFwd,
     LatchFwd, MeasureFwd, EndFwd, ErrorFwd DEF Vm
<1>2. CASE SlotError
  BY <1>2, ErrorFwd
<1>3. CASE Shell
  BY <1>3, RouteFwd, ArmFwd, ModeFwd, ErrorFwd DEF Shell
<1>4. CASE UNCHANGED vars
  BY <1>4, SameFwd
<1> QED BY <1>1, <1>2, <1>3, <1>4 DEF Next

(* With ranges that run forward vm_scan_cnt counts the points of the open  *)
(* group exactly, in the frames sent and in the one being filled, until an *)
(* error is raised.                                                        *)
THEOREM Counts == ASSUME ProperLists, ForwardLists PROVE Spec => []FInv
<1>1. Init => FInv
  BY InitFwd
<1>2. FInv /\ [Next]_vars => FInv'
  BY StepFwd
<1> QED BY <1>1, <1>2, PTL DEF Spec

(* mxc_measure samples a scan group of exactly `arm` points, however the   *)
(* group was spread over lists, ranges and can frames.                     *)
THEOREM GroupsExact == ASSUME ProperLists, ForwardLists PROVE Spec => []ScanGroupExact
<1>1. FInv => ScanGroupExact
  BY DEF FInv, IInv, Counted, Exact, ScanGroupExact, At
<1> QED BY <1>1, Counts, PTL

(* *OPC? answers that the operation is completed only when no relay action *)
(* is left in any queue and no point waits for the rest of its group.      *)
THEOREM OpcTells == ASSUME ProperLists, ForwardLists PROVE Spec => []OpcHonest
<1>1. FInv => OpcHonest
  <2> SUFFICES ASSUME FInv, AtWait, ~Busy PROVE Pending = << >> /\ (~dirty => batch = 0)
    BY DEF OpcHonest
  <2>1. odata = << >> /\ VmBusy = 0
    BY DEF Busy
  <2>2. IInv /\ Typed /\ Fetch
    BY DEF FInv, IInv
  <2>3. cnt = 0 /\ opq = << >> /\ cur = Nul /\ nxt = Nul /\ At \in {"top", "look"}
    BY <2>1, <2>2, Idle DEF FInv, Forwards
  <2>4. Nul \in Ops /\ ~Relay(Nul) /\ Nul.type # "SEQU" /\ seqend \in Ops /\ Coming \in Ops
    BY <2>2, OpType, RelayKinds, Pieces
  <2>5. Waiting = << >> /\ Current = << >>
    BY <2>1, <2>3, <2>4, FetchedEmpty, CurOfIs DEF Waiting, Current
  <2>6. Queued = << >>
    <3>1. ~Relay(Coming)
      BY <2>2, <2>3, Ahead
    <3>2. << >> \in Seq(Ops)
      OBVIOUS
    <3>3. << >> \o << >> = << >>
      BY <3>2, CatEmpty
    <3>4. Actions(<<Coming>> \o << >>) = << >> \o Actions(<< >>)
      BY <2>4, <3>1, <3>2, ActionsCons DEF ActOf
    <3>5. Stream = <<Coming>> \o << >>
      BY <2>3 DEF Stream
    <3> QED BY <3>3, <3>4, <3>5, FetchedEmpty, Zenon DEF Queued
  <2>7. Pending = << >>
    <3>1. << >> \in Seq(Ops)
      OBVIOUS
    <3>2. << >> \o << >> = << >>
      BY <3>1, CatEmpty
    <3> QED BY <2>5, <2>6, <3>2, PendingIs, Zenon
  <2>8. ~dirty => batch = 0
    <3>1. ~dirty => Level
      BY <2>3 DEF FInv, Exact
    <3>2. batch \in Nat /\ Held = 0 /\ Sent = batch + Held
      BY <2>1, <2>2, HeldType DEF Sent
    <3> QED BY <2>1, <2>3, <3>1, <3>2 DEF Level
  <2> QED BY <2>7, <2>8
<1> QED BY <1>1, Counts, PTL
=============================================================================
