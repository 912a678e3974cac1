------------------------------- MODULE IrtPoll --------------------------------
(***************************************************************************)
(* tasks/irt: how the irc board keeps track of its slot cards.  A slot     *)
(* echoes over can: on its own while it starts or has an error, otherwise  *)
(* when pinged.  The can interrupt of irc updates the slot's entry, or     *)
(* leaves a new slot in a one place mailbox.  irc_update, run by the main  *)
(* loop and by every wait, takes the mailbox (mxc_update), answers or      *)
(* pings the slots, and raises an error when one has failed.  irc_error    *)
(* traps its caller in a loop of irc_update until *CLS.                    *)
(*                                                                         *)
(* irc sends a frame when the last one is gone, so a slot that is on has   *)
(* it at once.  Time is left out: timers may run out, each as often as     *)
(* the others.  The LE line and the relays are in IrtBus.                  *)
(***************************************************************************)
EXTENDS Integers, Sequences, FiniteSets, SequencesExt

CONSTANTS
  Slots,   (* slot cards                                                    *)
  NL,      (* IRC_POL_NL: pings without an echo that make a slot lost       *)
  MaxPlug, (* bound: times slots are plugged in                             *)
  MaxCmd,  (* bound: commands                                               *)
  MaxErr   (* bound: OFFLINE frames that cannot be sent                     *)

ASSUME IrtPollAssumption ==
  NL \in Nat \ {0} /\ MaxPlug \in Nat /\ MaxCmd \in Nat /\ MaxErr \in Nat

VARIABLES
  (* irc *)
  pc,     (* where irc_update is                                            *)
  rest,   (* entries the walk of mxc_update still has to visit              *)
  pinged, (* ping_is_done                                                   *)
  load,   (* nlost as read by the walk                                      *)
  stack,  (* the calls trapped in irc_error, the innermost first            *)
  list,   (* mxc_list                                                       *)
  info,   (* an entry: INIT flag, ecode # 0, nlost                          *)
  due,    (* entries whose timer ran out                                    *)
  new,    (* the mailbox mxc_new and mxc_tmp: at most one echo              *)
  ping,   (* mxc_ping_enable                                                *)
  ecode,  (* irc_ecode # 0                                                  *)
  error,  (* irc_status.error                                               *)
  (* a slot *)
  st,     (* mxc_status, "OUT" when it is not plugged in                    *)
  asked,  (* mxc_flag_ping                                                  *)
  echo,   (* the echo it is sending, if any                                 *)
  nplug, ncmd, nerr

here  == <<pc, rest, pinged, load>>
table == <<list, info, due>>
trap  == <<stack, ecode, error>>
card  == <<st, asked, echo>>
bound == <<nplug, ncmd, nerr>>
vars  == <<here, table, new, ping, trap, card, bound>>

Fresh == [init |-> FALSE, bad |-> FALSE, nlost |-> 0]

Init ==
  /\ pc = "shell" /\ rest = << >> /\ pinged = FALSE /\ load = 0
  /\ stack = << >> /\ ecode = FALSE /\ error = FALSE
  /\ list = << >> /\ info = [s \in Slots |-> Fresh] /\ due = {}
  /\ new = {} /\ ping = FALSE
  /\ st = [s \in Slots |-> "OUT"] /\ asked = [s \in Slots |-> FALSE]
  /\ echo = [s \in Slots |-> {}]
  /\ nplug = 0 /\ ncmd = 0 /\ nerr = 0

Listed == Range(list)
Silent(s) == info[s].nlost >= NL

-----------------------------------------------------------------------------
(* irc_error: the caller is left where it is and irc_update starts over.   *)
Raise(then, left) ==
  IF ecode
  THEN pc' = then /\ UNCHANGED trap
  ELSE /\ ecode' = TRUE /\ error' = TRUE
       /\ stack' = <<[pc |-> then, rest |-> left, pinged |-> pinged]>> \o stack
       /\ pc' = "shell"

(* Commands are executed where irc_update begins. *)
Command ==
  /\ pc = "shell"
  /\ ncmd < MaxCmd /\ ncmd' = ncmd + 1
  /\ UNCHANGED <<here, table, new, stack, asked, echo, nplug, nerr>>

(* MODE starts the pings and makes the slots ready. *)
Mode ==
  /\ ~ecode /\ Command
  /\ ping' = TRUE
  /\ st' = [s \in Slots |-> IF st[s] = "OFFLINE" THEN "READY" ELSE st[s]]
  /\ UNCHANGED <<ecode, error>>

(* *CLS leaves the innermost trap, *ERR? only forgets the code. *)
Cls ==
  /\ error /\ Command
  /\ ecode' = FALSE /\ error' = FALSE
  /\ UNCHANGED <<ping, st>>

ErrPop ==
  /\ ecode /\ Command
  /\ ecode' = FALSE
  /\ UNCHANGED <<ping, st, error>>

(* *RST: irc and all slots restart. *)
Rst ==
  /\ pc = "shell" /\ ncmd < MaxCmd /\ ncmd' = ncmd + 1
  /\ pc' = "shell" /\ rest' = << >> /\ pinged' = FALSE /\ load' = 0
  /\ stack' = << >> /\ ecode' = FALSE /\ error' = FALSE
  /\ list' = << >> /\ info' = [s \in Slots |-> Fresh] /\ due' = {}
  /\ new' = {} /\ ping' = FALSE
  /\ st' = [s \in Slots |-> IF st[s] = "OUT" THEN "OUT" ELSE "INIT"]
  /\ asked' = [s \in Slots |-> FALSE] /\ echo' = [s \in Slots |-> {}]
  /\ UNCHANGED <<nplug, nerr>>

-----------------------------------------------------------------------------
(* mxc_update *)

Entry(e) == [init |-> e.init, bad |-> e.bad, nlost |-> 0]

Walk == pc' = "walk" /\ rest' = list' /\ pinged' = FALSE

(* Mutant: the mailbox is emptied even if nothing was taken from it. *)
TakeNewAlways ==
  /\ pc = "shell"
  /\ pc' = "free"
  /\ \/ new = {} /\ UNCHANGED table
     \/ \E e \in new :
          /\ list' = <<e.slot>> \o list
          /\ info' = [info EXCEPT ![e.slot] = Entry(e)]
          /\ due' = due \cup {e.slot}
  /\ UNCHANGED <<rest, pinged, load, new, ping, trap, card, bound>>

(* A new slot is put in front of the list while the mailbox is full ... *)
TakeNew ==
  /\ pc = "shell"
  /\ \/ new = {} /\ UNCHANGED table /\ Walk
     \/ \E e \in new :
          /\ list' = <<e.slot>> \o list
          /\ info' = [info EXCEPT ![e.slot] = Entry(e)]
          /\ due' = due \cup {e.slot}
          /\ pc' = "free" /\ UNCHANGED <<rest, pinged>>
  /\ UNCHANGED <<load, new, ping, trap, card, bound>>

(* ... and the mailbox is emptied. *)
FreeNew ==
  /\ pc = "free"
  /\ new' = {}
  /\ UNCHANGED table /\ Walk
  /\ UNCHANGED <<load, ping, trap, card, bound>>

At == Head(rest)
Walking == pc = "walk" /\ rest # << >>

(* Before the first MODE a slot that starts is told to go offline. *)
Answer ==
  /\ Walking /\ ~ping /\ info[At].init
  /\ \/ pc' = "answered" /\ UNCHANGED nerr
        /\ st' = [st EXCEPT ![At] = IF @ = "INIT" THEN "OFFLINE" ELSE @]
     \/ pc' = "unsent" /\ nerr < MaxErr /\ nerr' = nerr + 1 /\ UNCHANGED st
  /\ UNCHANGED <<rest, pinged, load, table, new, ping, trap, asked, echo, nplug, ncmd>>

(* Its request is forgotten; it will ask again if that was too early. *)
Forget ==
  /\ pc \in {"answered", "unsent"}
  /\ info' = [info EXCEPT ![At].init = FALSE]
  /\ rest' = Tail(rest)
  /\ IF pc = "unsent" THEN Raise("walk", rest') ELSE pc' = "walk" /\ UNCHANGED trap
  /\ UNCHANGED <<pinged, load, list, due, new, ping, card, bound>>

(* Later each walk pings one of the slots whose timer ran out: its lost    *)
(* counter is read, ...                                                    *)
Ping ==
  /\ Walking /\ ping /\ ~pinged /\ At \in due
  /\ pc' = "count"
  /\ due' = due \ {At}
  /\ load' = info[At].nlost
  /\ UNCHANGED <<rest, pinged, list, info, new, ping, trap, card, bound>>

(* Mutant: the counter has no limit. *)
CountOver ==
  /\ pc = "count"
  /\ pc' = "walk" /\ rest' = Tail(rest) /\ pinged' = TRUE
  /\ info' = [info EXCEPT ![At].nlost = load + 1]
  /\ load' = 0
  /\ asked' = [asked EXCEPT ![At] = st[At] # "OUT"]
  /\ UNCHANGED <<list, due, new, ping, trap, st, echo, bound>>

(* ... written back, and the ping is sent. *)
Count ==
  /\ pc = "count"
  /\ pc' = "walk" /\ rest' = Tail(rest) /\ pinged' = TRUE
  /\ info' = [info EXCEPT ![At].nlost = IF load < NL THEN load + 1 ELSE load]
  /\ load' = 0
  /\ asked' = [asked EXCEPT ![At] = st[At] # "OUT"]
  /\ UNCHANGED <<list, due, new, ping, trap, st, echo, bound>>

Skip ==
  /\ Walking
  /\ IF ping THEN pinged \/ At \notin due ELSE ~info[At].init
  /\ rest' = Tail(rest)
  /\ UNCHANGED <<pc, pinged, load, table, new, ping, trap, card, bound>>

(* The timers of all entries run at the same pace. *)
Expire ==
  /\ ping /\ due = {} /\ list # << >>
  /\ due' = Listed
  /\ UNCHANGED <<here, list, info, new, ping, trap, card, bound>>

(* The end of irc_update, in the main loop or in the trap of an irc_error. *)
Return ==
  IF stack = << >> \/ error
  THEN pc' = "shell" /\ UNCHANGED <<rest, pinged, trap>>
  ELSE /\ pc' = Head(stack).pc /\ rest' = Head(stack).rest
       /\ pinged' = Head(stack).pinged
       /\ stack' = Tail(stack)
       /\ UNCHANGED <<ecode, error>>

(* Mutant: a slot that does not answer any more is not looked for. *)
FailedBad == {s \in Listed : info[s].bad}
Failed == {s \in Listed : info[s].bad \/ Silent(s)}

(* irc_update: a slot that failed or is lost is an error. *)
Scan ==
  /\ pc = "walk" /\ rest = << >>
  /\ IF Failed # {} /\ ~ecode
     THEN Raise("done", << >>) /\ UNCHANGED <<rest, pinged>>
     ELSE Return
  /\ UNCHANGED <<load, table, new, ping, card, bound>>

Done ==
  /\ pc = "done"
  /\ Return
  /\ UNCHANGED <<load, table, new, ping, card, bound>>

-----------------------------------------------------------------------------
(* A slot *)

PlugIn(s) ==
  /\ st[s] = "OUT" /\ nplug < MaxPlug /\ nplug' = nplug + 1
  /\ st' = [st EXCEPT ![s] = "INIT"]
  /\ UNCHANGED <<here, table, new, ping, trap, asked, echo, ncmd, nerr>>

PlugOut(s) ==
  /\ st[s] # "OUT"
  /\ st' = [st EXCEPT ![s] = "OUT"]
  /\ asked' = [asked EXCEPT ![s] = FALSE] /\ echo' = [echo EXCEPT ![s] = {}]
  /\ UNCHANGED <<here, table, new, ping, trap, bound>>

Fault(s) ==
  /\ st[s] = "READY"
  /\ st' = [st EXCEPT ![s] = "ERROR"]
  /\ UNCHANGED <<here, table, new, ping, trap, asked, echo, bound>>

(* mxc_update of the slot: the status is read here and echoed later. *)
Talk(s) ==
  /\ asked[s] \/ st[s] \in {"INIT", "ERROR"}
  /\ echo[s] = {}
  /\ asked' = [asked EXCEPT ![s] = FALSE]
  /\ echo' = [echo EXCEPT ![s] =
       {[slot |-> s, init |-> st[s] = "INIT", bad |-> st[s] = "ERROR"]}]
  /\ UNCHANGED <<here, table, new, ping, trap, st, bound>>

(* Mutant: the list is not searched. *)
HearBlind(s) ==
  \E e \in echo[s] :
    /\ echo' = [echo EXCEPT ![s] = {}]
    /\ new' = (IF new = {} THEN {e} ELSE new)
    /\ UNCHANGED <<here, table, ping, trap, st, asked, bound>>

(* Mutant: an entry keeps its first error code. *)
HearOnce(s) ==
  \E e \in echo[s] :
    /\ echo' = [echo EXCEPT ![s] = {}]
    /\ IF s \in Listed
       THEN info' = [info EXCEPT ![s] = [Entry(e) EXCEPT !.bad = info[s].bad]] /\ UNCHANGED new
       ELSE new' = (IF new = {} THEN {e} ELSE new) /\ UNCHANGED info
    /\ UNCHANGED <<here, list, due, ping, trap, st, asked, bound>>

(* mxc_can_handler, the can interrupt of irc. *)
Hear(s) ==
  \E e \in echo[s] :
    /\ echo' = [echo EXCEPT ![s] = {}]
    /\ IF s \in Listed
       THEN info' = [info EXCEPT ![s] = Entry(e)] /\ UNCHANGED new
       ELSE new' = (IF new = {} THEN {e} ELSE new) /\ UNCHANGED info
    /\ UNCHANGED <<here, list, due, ping, trap, st, asked, bound>>

-----------------------------------------------------------------------------
Shell == Mode \/ Cls \/ ErrPop

Update ==
  TakeNew \/ FreeNew \/ Answer \/ Forget \/ Ping \/ Count \/ Skip \/ Scan \/ Done

Next ==
  \/ Shell \/ Rst \/ Update \/ Expire
  \/ \E s \in Slots : PlugIn(s) \/ PlugOut(s) \/ Fault(s) \/ Talk(s) \/ Hear(s)

(* The loops of irc and of the slots run on, timers run out, and a frame   *)
(* that a slot started to send arrives.                                    *)
Fairness ==
  /\ WF_vars(Update) /\ WF_vars(Expire)
  /\ \A s \in Slots : WF_vars(Talk(s)) /\ WF_vars(Hear(s))

Spec == Init /\ [][Next]_vars /\ Fairness

-----------------------------------------------------------------------------
Echoes == [slot : Slots, init : BOOLEAN, bad : BOOLEAN]

TypeOK ==
  /\ pc \in {"shell", "free", "walk", "answered", "unsent", "count", "done"}
  /\ rest \in Seq(Slots) /\ pinged \in BOOLEAN /\ load \in 0 .. NL
  /\ list \in Seq(Slots) /\ due \subseteq Slots
  /\ info \in [Slots -> [init : BOOLEAN, bad : BOOLEAN, nlost : 0 .. NL]]
  /\ new \subseteq Echoes /\ Cardinality(new) <= 1
  /\ ping \in BOOLEAN /\ ecode \in BOOLEAN /\ error \in BOOLEAN
  /\ \A i \in DOMAIN stack :
       /\ stack[i].pc \in {"walk", "done"} /\ stack[i].rest \in Seq(Slots)
       /\ stack[i].pinged \in BOOLEAN
  /\ st \in [Slots -> {"OUT", "INIT", "OFFLINE", "READY", "ERROR"}]
  /\ asked \in [Slots -> BOOLEAN]
  /\ \A s \in Slots : echo[s] \subseteq Echoes /\ Cardinality(echo[s]) <= 1

(* A slot has one entry, however its echoes fall on the steps that move it *)
(* from the mailbox to the list: mxc_search finds only the first.          *)
OneEntry == IsInjective(list)

(* "slot send INT msg once 100mS if it's in INIT state, irc response with  *)
(* OFFLINE": it gets through, past the other slots, failed transmissions   *)
(* and traps, as long as MODE was not sent.                                *)
InitAnswered == \A s \in Slots : st[s] = "INIT" ~> st[s] # "INIT" \/ ping

(* A slot that stays in error stops irc, also when *CLS, *ERR? or other    *)
(* slots come in between.                                                  *)
ErrorReported == \A s \in Slots : st[s] = "ERROR" ~> ecode \/ st[s] # "ERROR"

(* So does a slot that is pulled out, once MODE has started the pings.     *)
LostReported ==
  \A s \in Slots : st[s] = "OUT" /\ s \in Listed /\ ping
                     ~> ecode \/ st[s] # "OUT" \/ ~ping
=============================================================================
