--------------------------- MODULE IrtPollProofs ----------------------------
(***************************************************************************)
(* Theorems about IrtPoll, for any set of slots, any number of pings and   *)
(* any bounds: type correctness, and that no slot has two entries.         *)
(***************************************************************************)
EXTENDS IrtPoll, FiniteSetTheorems, TLAPS

Places == {"shell", "free", "walk", "answered", "unsent", "count", "done"}
Frames == [pc : {"walk", "done"}, rest : Seq(Slots), pinged : BOOLEAN]
Entries == [init : BOOLEAN, bad : BOOLEAN, nlost : 0 .. NL]
States == {"OUT", "INIT", "OFFLINE", "READY", "ERROR"}
AtMostOne(S) == S = {} \/ \E e \in S : S = {e}

(* Where irc_update is; a walk that is at an entry has one left. *)
HereOK ==
  /\ pc \in Places /\ rest \in Seq(Slots) /\ pinged \in BOOLEAN /\ load \in 0 .. NL
  /\ pc \in {"answered", "unsent", "count"} => rest # << >>

TableOK == list \in Seq(Slots) /\ due \subseteq Slots /\ info \in [Slots -> Entries]

TrapOK == stack \in Seq(Frames) /\ ecode \in BOOLEAN /\ error \in BOOLEAN

(* An echo on the bus is one of the slot that sends it. *)
CardOK ==
  /\ st \in [Slots -> States] /\ asked \in [Slots -> BOOLEAN]
  /\ echo \in [Slots -> SUBSET Echoes]
  /\ \A s \in Slots : AtMostOne(echo[s]) /\ \A e \in echo[s] : e.slot = s

BoxOK == new \subseteq Echoes /\ AtMostOne(new) /\ ping \in BOOLEAN

Typed == HereOK /\ TableOK /\ TrapOK /\ CardOK /\ BoxOK

(* The slot in the mailbox has no entry yet, except between the two steps  *)
(* that take it over.                                                      *)
Unlisted == pc # "free" => \A e \in new : e.slot \notin Listed

IInv == Typed /\ Unlisted /\ OneEntry

LEMMA OneAtMost == ASSUME NEW S, AtMostOne(S) PROVE Cardinality(S) <= 1
<1>1. CASE S = {}
  BY <1>1, FS_EmptySet
<1>2. CASE \E e \in S : S = {e}
  BY <1>2, FS_Singleton
<1> QED BY <1>1, <1>2 DEF AtMostOne

LEMMA TypedImplies == Typed => TypeOK
<1> SUFFICES ASSUME Typed PROVE TypeOK
  OBVIOUS
<1>1. Cardinality(new) <= 1
  BY OneAtMost DEF Typed, BoxOK
<1>2. \A s \in Slots : echo[s] \subseteq Echoes /\ Cardinality(echo[s]) <= 1
  BY OneAtMost DEF Typed, CardOK
<1>3. \A i \in DOMAIN stack :
         /\ stack[i].pc \in {"walk", "done"} /\ stack[i].rest \in Seq(Slots)
         /\ stack[i].pinged \in BOOLEAN
  <2>1. \A i \in DOMAIN stack : stack[i] \in Frames
    BY DEF Typed, TrapOK
  <2>2. \A f \in Frames : f.pc \in {"walk", "done"} /\ f.rest \in Seq(Slots) /\ f.pinged \in BOOLEAN
    BY DEF Frames
  <2> QED BY <2>1, <2>2
<1> QED BY <1>1, <1>2, <1>3
        DEF TypeOK, Typed, HereOK, TableOK, TrapOK, CardOK, BoxOK, Places, Entries, States

(* No walk and no trap. *)
LEMMA Nothing == << >> \in Seq(Slots) /\ << >> \in Seq(Frames)
<1>1. << >> \in Seq(Slots)
  OBVIOUS
<1>2. << >> \in Seq(Frames)
  OBVIOUS
<1> QED BY <1>1, <1>2

LEMMA InitIInv == Init => IInv
<1> SUFFICES ASSUME Init PROVE IInv
  OBVIOUS
<1>1. HereOK
  <2>1. pc = "shell" /\ rest = << >> /\ pinged = FALSE /\ load = 0
    BY DEF Init
  <2>2. rest \in Seq(Slots)
    BY <2>1, Nothing
  <2>3. pinged \in BOOLEAN
    BY <2>1
  <2>4. load \in 0 .. NL
    BY <2>1, IrtPollAssumption
  <2> QED BY <2>1, <2>2, <2>3, <2>4 DEF HereOK, Places
<1>2. TrapOK
  <2>1. stack = << >> /\ ecode = FALSE /\ error = FALSE
    BY DEF Init
  <2>2. stack \in Seq(Frames)
    BY <2>1, Nothing
  <2>3. ecode \in BOOLEAN /\ error \in BOOLEAN
    BY <2>1
  <2> QED BY <2>2, <2>3 DEF TrapOK
<1>3. TableOK
  BY IrtPollAssumption DEF Init, TableOK, Fresh, Entries
<1>4. CardOK /\ BoxOK
  BY DEF Init, CardOK, BoxOK, AtMostOne, States
<1>5. Unlisted /\ OneEntry
  BY DEF Init, Unlisted, OneEntry, IsInjective
<1> QED BY <1>1, <1>2, <1>3, <1>4, <1>5 DEF IInv, Typed

(* irc_error and the end of irc_update leave a place, or the one saved. *)
LEMMA RaiseType ==
  ASSUME Typed, NEW p \in {"walk", "done"}, NEW r \in Seq(Slots), Raise(p, r)
  PROVE  TrapOK' /\ pc' \in {p, "shell"}
<1> DEFINE f == [pc |-> p, rest |-> r, pinged |-> pinged]
<1>1. f \in Frames
  BY DEF Typed, HereOK, Frames
<1>2. <<f>> \o stack \in Seq(Frames)
  BY <1>1 DEF Typed, TrapOK
<1> QED BY <1>2 DEF Raise, trap, Typed, TrapOK

LEMMA ReturnType ==
  ASSUME Typed, Return, load' = load
  PROVE  HereOK' /\ TrapOK' /\ pc' \in {"shell", "walk", "done"}
<1>1. CASE stack = << >> \/ error
  BY <1>1 DEF Return, trap, Typed, HereOK, TrapOK, Places
<1>2. CASE ~(stack = << >> \/ error)
  <2>1. Head(stack) \in Frames /\ Tail(stack) \in Seq(Frames)
    BY <1>2 DEF Typed, TrapOK
  <2> QED BY <1>2, <2>1 DEF Return, Typed, HereOK, TrapOK, Frames, Places
<1> QED BY <1>1, <1>2

-----------------------------------------------------------------------------
(* Types, one action at a time. *)

LEMMA ShellType == ASSUME Typed, Shell PROVE Typed'
  BY DEF Shell, Mode, Cls, ErrPop, Command, here, table, Typed, HereOK, TableOK, TrapOK,
         CardOK, BoxOK, States

LEMMA RstType == ASSUME Typed, Rst PROVE Typed'
<1>1. HereOK'
  <2>1. pc' = "shell" /\ rest' = << >> /\ pinged' = FALSE /\ load' = 0
    BY DEF Rst
  <2>2. rest' \in Seq(Slots)
    BY <2>1, Nothing
  <2>3. pinged' \in BOOLEAN
    BY <2>1
  <2>4. load' \in 0 .. NL
    BY <2>1, IrtPollAssumption
  <2> QED BY <2>1, <2>2, <2>3, <2>4 DEF HereOK, Places
<1>2. TrapOK'
  <2>1. stack' = << >> /\ ecode' = FALSE /\ error' = FALSE
    BY DEF Rst
  <2>2. stack' \in Seq(Frames)
    BY <2>1, Nothing
  <2>3. ecode' \in BOOLEAN /\ error' \in BOOLEAN
    BY <2>1
  <2> QED BY <2>2, <2>3 DEF TrapOK
<1>3. TableOK'
  BY IrtPollAssumption DEF Rst, TableOK, Fresh, Entries
<1>4. CardOK'
  BY DEF Rst, Typed, CardOK, AtMostOne, States
<1>5. BoxOK'
  BY DEF Rst, BoxOK, AtMostOne
<1> QED BY <1>1, <1>2, <1>3, <1>4, <1>5 DEF Typed

(* The entry made from an echo. *)
LEMMA EntryType == ASSUME NEW e \in Echoes PROVE Entry(e) \in Entries
  BY IrtPollAssumption DEF Echoes, Entry, Entries

LEMMA TakeNewType == ASSUME Typed, TakeNew PROVE Typed'
<1>1. CASE UNCHANGED table /\ Walk
  BY <1>1 DEF TakeNew, Walk, table, trap, card, Typed, HereOK, TableOK, TrapOK, CardOK,
              BoxOK, Places
<1>2. ASSUME NEW e \in new,
             list' = <<e.slot>> \o list, info' = [info EXCEPT ![e.slot] = Entry(e)],
             due' = due \cup {e.slot}, pc' = "free", UNCHANGED <<rest, pinged>>
      PROVE  Typed'
  <2>1. e \in Echoes /\ e.slot \in Slots
    BY <1>2 DEF Typed, BoxOK, Echoes
  <2>2. list' \in Seq(Slots) /\ due' \subseteq Slots
    BY <1>2, <2>1 DEF Typed, TableOK
  <2>3. TableOK'
    BY <1>2, <2>1, <2>2, EntryType DEF Typed, TableOK
  <2> QED BY <1>2, <2>3 DEF TakeNew, trap, card, Typed, HereOK, TrapOK, CardOK, BoxOK, Places
<1> QED BY <1>1, <1>2 DEF TakeNew

LEMMA FreeNewType == ASSUME Typed, FreeNew PROVE Typed'
  BY DEF FreeNew, Walk, table, trap, card, Typed, HereOK, TableOK, TrapOK, CardOK, BoxOK,
         AtMostOne, Places

(* The entry a walk is at, and what is behind it. *)
LEMMA AtType ==
  ASSUME Typed, rest # << >> PROVE At \in Slots /\ Tail(rest) \in Seq(Slots)
  BY DEF Typed, HereOK, At

LEMMA AnswerType == ASSUME Typed, Answer PROVE Typed'
<1>1. At \in Slots
  BY AtType DEF Answer, Walking
<1>2. st' \in [Slots -> States]
  BY <1>1 DEF Answer, Typed, CardOK, States
<1> QED BY <1>2 DEF Answer, Walking, table, trap, Typed, HereOK, TableOK, TrapOK, CardOK,
                    BoxOK, Places

LEMMA ForgetType == ASSUME Typed, Forget PROVE Typed'
<1>1. At \in Slots /\ rest' \in Seq(Slots)
  BY AtType DEF Forget, Typed, HereOK
<1>2. info' \in [Slots -> Entries]
  BY <1>1 DEF Forget, Typed, TableOK, Entries
<1>3. TrapOK' /\ pc' \in {"walk", "shell"}
  <2>1. CASE pc = "unsent"
    BY <1>1, <2>1, RaiseType DEF Forget
  <2>2. CASE pc # "unsent"
    BY <2>2 DEF Forget, trap, Typed, TrapOK
  <2> QED BY <2>1, <2>2
<1> QED BY <1>1, <1>2, <1>3 DEF Forget, card, Typed, HereOK, TableOK, CardOK, BoxOK, Places

LEMMA PingType == ASSUME Typed, Ping PROVE Typed'
<1>1. At \in Slots
  BY AtType DEF Ping, Walking
<1>2. info[At].nlost \in 0 .. NL
  BY <1>1 DEF Typed, TableOK, Entries
<1> QED BY <1>2 DEF Ping, Walking, trap, card, Typed, HereOK, TableOK, TrapOK, CardOK, BoxOK,
                    Places

LEMMA CountType == ASSUME Typed, Count PROVE Typed'
<1>1. At \in Slots /\ rest' \in Seq(Slots)
  BY AtType DEF Count, Typed, HereOK
<1>2. (IF load < NL THEN load + 1 ELSE load) \in 0 .. NL
  BY IrtPollAssumption DEF Typed, HereOK
<1>3. info' \in [Slots -> Entries]
  BY <1>1, <1>2 DEF Count, Typed, TableOK, Entries
<1>4. asked' \in [Slots -> BOOLEAN]
  BY <1>1 DEF Count, Typed, CardOK
<1>5. HereOK'
  BY <1>1, IrtPollAssumption DEF Count, HereOK, Places
<1> QED BY <1>3, <1>4, <1>5 DEF Count, trap, Typed, TableOK, TrapOK, CardOK, BoxOK

LEMMA SkipType == ASSUME Typed, Skip PROVE Typed'
<1>1. rest' \in Seq(Slots)
  BY AtType DEF Skip, Walking
<1> QED BY <1>1 DEF Skip, Walking, table, trap, card, Typed, HereOK, TableOK, TrapOK, CardOK,
                    BoxOK

LEMMA ScanType ==
  ASSUME Typed, Scan \/ Done
  PROVE  Typed' /\ pc' \in {"shell", "walk", "done"} /\ UNCHANGED <<table, new>>
<1>1. HereOK' /\ TrapOK' /\ pc' \in {"shell", "walk", "done"}
  <2>1. CASE Return
    BY <2>1, ReturnType DEF Scan, Done
  <2>2. CASE Raise("done", << >>) /\ UNCHANGED <<rest, pinged, load>>
    <3>1. TrapOK' /\ pc' \in {"done", "shell"}
      BY <2>2, Nothing, RaiseType
    <3> QED BY <2>2, <3>1 DEF Typed, HereOK, Places
  <2> QED BY <2>1, <2>2 DEF Scan, Done
<1> QED BY <1>1 DEF Scan, Done, table, card, Typed, TableOK, CardOK, BoxOK

LEMMA ExpireType == ASSUME Typed, Expire PROVE Typed'
<1>1. Listed \subseteq Slots
  BY DEF Typed, TableOK, Listed, Range
<1> QED BY <1>1 DEF Expire, here, trap, card, Typed, HereOK, TableOK, TrapOK, CardOK, BoxOK

LEMMA CardType ==
  ASSUME Typed, NEW s \in Slots, PlugIn(s) \/ PlugOut(s) \/ Fault(s) PROVE Typed'
<1>1. CardOK'
  BY DEF PlugIn, PlugOut, Fault, Typed, CardOK, AtMostOne, States
<1> QED BY <1>1 DEF PlugIn, PlugOut, Fault, here, table, trap, Typed, HereOK, TableOK, TrapOK,
                    BoxOK

LEMMA TalkType == ASSUME Typed, NEW s \in Slots, Talk(s) PROVE Typed'
<1> DEFINE e == [slot |-> s, init |-> st[s] = "INIT", bad |-> st[s] = "ERROR"]
<1>1. e \in Echoes /\ e.slot = s
  BY DEF Echoes
<1>2. echo' = [echo EXCEPT ![s] = {e}] /\ asked' = [asked EXCEPT ![s] = FALSE] /\ st' = st
  BY DEF Talk
<1>3. CardOK'
  BY <1>1, <1>2 DEF Typed, CardOK, AtMostOne
<1> QED BY <1>3 DEF Talk, here, table, trap, Typed, HereOK, TableOK, TrapOK, BoxOK

LEMMA HearType == ASSUME Typed, NEW s \in Slots, Hear(s) PROVE Typed'
<1> PICK e \in echo[s] :
      /\ echo' = [echo EXCEPT ![s] = {}]
      /\ IF s \in Listed
         THEN info' = [info EXCEPT ![s] = Entry(e)] /\ UNCHANGED new
         ELSE new' = (IF new = {} THEN {e} ELSE new) /\ UNCHANGED info
      /\ UNCHANGED <<here, list, due, ping, trap, st, asked, bound>>
  BY DEF Hear
<1>1. e \in Echoes
  BY DEF Typed, CardOK
<1>2. TableOK'
  BY <1>1, EntryType DEF Typed, TableOK
<1>3. CardOK'
  BY DEF Typed, CardOK, AtMostOne
<1>4. BoxOK'
  BY <1>1 DEF Typed, BoxOK, AtMostOne
<1> QED BY <1>2, <1>3, <1>4 DEF here, trap, Typed, HereOK, TrapOK

-----------------------------------------------------------------------------
(* The list and the mailbox. *)

(* A slot that is not in a list can be put in front of it. *)
LEMMA PutInFront ==
  ASSUME NEW l \in Seq(Slots), IsInjective(l), NEW s \in Slots, s \notin Range(l)
  PROVE  IsInjective(<<s>> \o l)
<1> DEFINE m == <<s>> \o l
<1>1. Len(m) = Len(l) + 1 /\ m[1] = s /\ \A i \in 2 .. Len(m) : m[i] = l[i - 1]
  OBVIOUS
<1>2. \A i \in DOMAIN l : l[i] # s
  BY DEF Range
<1>3. \A i, j \in DOMAIN l : l[i] = l[j] => i = j
  BY DEF IsInjective
<1>4. DOMAIN m = 1 .. Len(m) /\ DOMAIN l = 1 .. Len(l) /\ Len(l) \in Nat
  OBVIOUS
<1>5. ASSUME NEW i \in DOMAIN m, NEW j \in DOMAIN m, m[i] = m[j] PROVE i = j
  <2>1. CASE i = 1 \/ j = 1
    BY <1>1, <1>2, <1>4, <1>5, <2>1
  <2>2. CASE i # 1 /\ j # 1
    <3>1. i - 1 \in DOMAIN l /\ j - 1 \in DOMAIN l /\ l[i - 1] = l[j - 1]
      BY <1>1, <1>4, <1>5, <2>2
    <3> QED BY <1>3, <1>4, <1>5, <3>1
  <2> QED BY <2>1, <2>2
<1> QED BY <1>5 DEF IsInjective

(* Steps that leave the list and the mailbox alone. *)
LEMMA KeepsEntries ==
  ASSUME Unlisted, OneEntry, UNCHANGED <<list, new>>, pc = "free" => pc' = "free"
  PROVE  Unlisted' /\ OneEntry'
  BY DEF Unlisted, OneEntry, Listed, Range, IsInjective

LEMMA NextIInv == IInv /\ [Next]_vars => IInv'
<1> SUFFICES ASSUME IInv, [Next]_vars PROVE IInv'
  OBVIOUS
<1> USE DEF IInv
<1>1. CASE Shell
  BY <1>1, ShellType, KeepsEntries DEF Shell, Mode, Cls, ErrPop, Command, here, table
<1>2. CASE Rst
  <2>1. Unlisted' /\ OneEntry'
    BY <1>2 DEF Rst, Unlisted, OneEntry, IsInjective
  <2> QED BY <1>2, <2>1, RstType
<1>3. CASE TakeNew
  <2>1. CASE UNCHANGED table
    <3>1. UNCHANGED <<list, new>> /\ pc # "free"
      BY <1>3, <2>1 DEF TakeNew, table
    <3> QED BY <1>3, <3>1, TakeNewType, KeepsEntries
  <2>2. CASE ~UNCHANGED table
    <3>1. PICK e \in new : list' = <<e.slot>> \o list /\ pc' = "free" /\ pc = "shell"
      BY <1>3, <2>2 DEF TakeNew
    <3>2. e.slot \in Slots /\ e.slot \notin Range(list) /\ list \in Seq(Slots)
      BY <3>1 DEF Unlisted, Listed, Typed, BoxOK, TableOK, Echoes
    <3>3. OneEntry'
      BY <3>1, <3>2, PutInFront DEF OneEntry
    <3>4. Unlisted'
      BY <3>1 DEF Unlisted
    <3> QED BY <1>3, <3>3, <3>4, TakeNewType
  <2> QED BY <2>1, <2>2
<1>4. CASE FreeNew
  <2>1. Unlisted' /\ OneEntry'
    BY <1>4 DEF FreeNew, table, Unlisted, OneEntry, IsInjective
  <2> QED BY <1>4, <2>1, FreeNewType
<1>5. CASE Answer
  BY <1>5, AnswerType, KeepsEntries DEF Answer, Walking, table
<1>6. CASE Forget
  BY <1>6, ForgetType, KeepsEntries DEF Forget
<1>7. CASE Ping
  BY <1>7, PingType, KeepsEntries DEF Ping, Walking
<1>8. CASE Count
  BY <1>8, CountType, KeepsEntries DEF Count
<1>9. CASE Skip
  BY <1>9, SkipType, KeepsEntries DEF Skip, Walking, table
<1>10. CASE Scan \/ Done
  <2>1. pc # "free"
    BY <1>10 DEF Scan, Done
  <2> QED BY <1>10, <2>1, ScanType, KeepsEntries DEF table
<1>11. CASE Expire
  BY <1>11, ExpireType, KeepsEntries DEF Expire, here
<1>12. ASSUME NEW s \in Slots, PlugIn(s) \/ PlugOut(s) \/ Fault(s) PROVE IInv'
  BY <1>12, CardType, KeepsEntries DEF PlugIn, PlugOut, Fault, here, table
<1>13. ASSUME NEW s \in Slots, Talk(s) PROVE IInv'
  BY <1>13, TalkType, KeepsEntries DEF Talk, here, table
<1>14. ASSUME NEW s \in Slots, Hear(s) PROVE IInv'
  <2>1. list' = list /\ pc' = pc /\ Listed' = Listed
    BY <1>14 DEF Hear, here, Listed
  <2>2. \A e \in new' : e \in new \/ (e \in echo[s] /\ s \notin Listed)
    BY <1>14 DEF Hear
  <2>3. \A e \in echo[s] : e.slot = s
    BY DEF Typed, CardOK
  <2>4. Unlisted'
    BY <2>1, <2>2, <2>3 DEF Unlisted
  <2>5. OneEntry'
    BY <2>1 DEF OneEntry
  <2> QED BY <1>14, <2>4, <2>5, HearType
<1>15. CASE UNCHANGED vars
  BY <1>15, KeepsEntries DEF vars, here, table, trap, card, bound, Typed, HereOK, TableOK, TrapOK,
              CardOK, BoxOK
<1> QED BY <1>1, <1>2, <1>3, <1>4, <1>5, <1>6, <1>7, <1>8, <1>9, <1>10, <1>11, <1>12, <1>13,
           <1>14, <1>15
        DEF Next, Update

(* Whatever the slots, irc and the host do, the types are kept, and the    *)
(* slot in the mailbox has no entry but while it is taken over.            *)
THEOREM Inductive == Spec => []IInv
  BY InitIInv, NextIInv, PTL DEF Spec

(* For any number of slots and pings the lost counters, the mailbox, the   *)
(* walk and the calls saved in the trap keep their types.                  *)
THEOREM TypeCorrect == Spec => []TypeOK
<1>1. IInv => TypeOK
  BY TypedImplies DEF IInv
<1> QED BY <1>1, Inductive, PTL

(* For any number of slots, mxc_list never has two entries of one slot.    *)
THEOREM OneEntryEach == Spec => []OneEntry
<1>1. IInv => OneEntry
  BY DEF IInv
<1> QED BY <1>1, Inductive, PTL
=============================================================================
