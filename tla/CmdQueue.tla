------------------------------- MODULE CmdQueue -------------------------------
(***************************************************************************)
(* lib/shell/cmd.c and the shell's part of the main loop: command lines    *)
(* run in the background, "read &100,10" every 100 ms for 10 loops; "read" *)
(* that returned a positive code runs until it returns an error.           *)
(*                                                                         *)
(* shell_Update runs what is due (cmd_queue_update) and then executes the  *)
(* line that was typed (cmd_queue_exec).  A command may wait for something *)
(* and call the main loop meanwhile, as vm_wait of the irc board does, so  *)
(* that shell_Update is entered again.  One console; traps, commands that  *)
(* take over its lines, are left out, and pauses of a second console.      *)
(***************************************************************************)
EXTENDS Integers, Sequences, SequencesExt

CONSTANTS
    Lines,   \* lines that may be typed: see MCCmdQueue
    BgWait,  \* commands in the background may wait, too
    MaxLine, \* bound: lines typed
    MaxNest  \* bound: calls of shell_Update inside each other

ASSUME CmdQueueAssumption ==
    /\ Lines \subseteq [cmd : STRING, arg : STRING, ms : BOOLEAN, loops : Int]
    /\ BgWait \in BOOLEAN /\ MaxLine \in Nat /\ MaxNest \in Nat \ {0}

VARIABLES
    list,  \* cmd_list: nodes, the newest first
    flag,  \* the background is paused
    due,   \* nodes whose deadline has passed
    stack, \* the calls of shell_Update, the innermost first
    nline, \* lines typed so far; a node has the number of its line
    last   \* the node that has just left with its work done, if one has

vars == <<list, flag, due, stack, nline, last>>

(* A line is a command, the argument of kill and pause, its period (TRUE   *)
(* when there is one) and its loops: 0 without '&', -1 without a number.   *)
(* Of a node, runs counts the executions that are over, whatever they      *)
(* returned, up to one more than were asked for; more tells that one in    *)
(* the background returned a positive code.                                *)
Node(ln, id) == [id |-> id, ln |-> ln, repeat |-> 0, runs |-> 0, more |-> FALSE]
NoNode == [id |-> 0, ln |-> [loops |-> 0], repeat |-> 0, runs |-> 0, more |-> FALSE]

(* Where a call of shell_Update is: in the walk with the node to come, in  *)
(* a node of the walk, before shell_ReadLine, or in the line typed.        *)
Frame(pc, cur, nxt, node) == [pc |-> pc, cur |-> cur, nxt |-> nxt, node |-> node]
Walk(nxt) == Frame("walk", 0, nxt, NoNode)
Run(cur, nxt) == Frame("run", cur, nxt, NoNode)
ReadLine == Frame("read", 0, 0, NoNode)
Exec(n) == Frame("exec", 0, 0, n)

Init ==
    /\ list = << >> /\ flag = FALSE /\ due = {} /\ stack = << >>
    /\ nline = 0 /\ last = NoNode

-----------------------------------------------------------------------------
Ids == {list[i].id : i \in DOMAIN list}
At(id) == CHOOSE i \in DOMAIN list : list[i].id = id
First == IF list = << >> THEN 0 ELSE list[1].id
After(id) == IF At(id) = Len(list) THEN 0 ELSE list[At(id) + 1].id

In(pc) == stack # << >> /\ stack[1].pc = pc
Goto(f) == stack' = <<f>> \o Tail(stack)

(* Mutant: the first execution is not taken off. *)
PreprocessAll(n) == [n EXCEPT !.repeat = n.ln.loops]

(* __cmd_preprocess *)
Preprocess(n) == [n EXCEPT !.repeat = IF n.ln.loops = 0 THEN 0 ELSE n.ln.loops - 1]

(* cmd_kill_func: the first node that matches is taken out; every node     *)
(* matches "all", but the first one is the only one that goes.  Its        *)
(* command is called once more before, to close, and what it returns is    *)
(* ignored; one that waits in that call is left out.                       *)
KillFirst(arg) ==
    LET m == SelectInSeq(list, LAMBDA n : arg \in {n.ln.cmd, "all"})
    IN  IF m = 0 THEN list ELSE RemoveAt(list, m)

(* What the function of a command does ... *)
Call(ln) ==
    /\ list' = IF ln.cmd = "kill" THEN KillFirst(ln.arg) ELSE list
    /\ flag' = CASE ln.cmd # "pause" -> flag
                 [] ln.arg = "toggle" -> ~flag
                 [] OTHER -> ln.arg = "on"

(* ... and what it returns. *)
Returns(ln) == IF ln.cmd \in {"kill", "pause"} THEN {0} ELSE {-1, 0, 1}

-----------------------------------------------------------------------------
(* shell_Update is called, by the main loop or by a command that waits. *)
Update ==
    /\ \/ stack = << >>
       \/ /\ Len(stack) < MaxNest /\ nline < MaxLine
          /\ In("exec") \/ (In("run") /\ BgWait)
    /\ stack' = <<IF flag THEN ReadLine ELSE Walk(First)>> \o stack
    /\ UNCHANGED <<list, flag, due, nline, last>>

(* cmd_queue_update: a node that is not due is passed over, ... *)
Pass ==
    /\ In("walk") /\ stack[1].nxt \in Ids
    /\ LET n == list[At(stack[1].nxt)]
       IN  n.ln.ms /\ n.id \notin due /\ Goto(Walk(After(n.id)))
    /\ UNCHANGED <<list, flag, due, nline, last>>

(* ... another one gets a new deadline and its command is called ... *)
Begin ==
    /\ In("walk") /\ stack[1].nxt \in Ids
    /\ LET n == list[At(stack[1].nxt)]
       IN  /\ n.ln.ms => n.id \in due
           /\ due' = IF n.repeat # 0 THEN due \ {n.id} ELSE due
           /\ Goto(Run(n.id, After(n.id)))
           /\ Call(n.ln)
    /\ UNCHANGED <<nline, last>>

(* A node after one more execution. *)
Again(n, ret) ==
    [n EXCEPT !.repeat = IF ret = 0 /\ @ > 0 THEN @ - 1 ELSE @,
              !.runs = IF @ > n.ln.loops THEN @ ELSE @ + 1,
              !.more = @ \/ ret > 0]

Finished(n, ret) == ret < 0 \/ (ret = 0 /\ n.repeat > 0 /\ Again(n, ret).repeat = 0)

(* Mutant: after each command the walk starts over. *)
FinishRestart ==
    /\ In("run") /\ stack[1].cur \in Ids
    /\ LET i == At(stack[1].cur)
           n == list[i]
       IN  \E ret \in Returns(n.ln) :
              /\ list' = IF Finished(n, ret) THEN RemoveAt(list, i)
                         ELSE ReplaceAt(list, i, Again(n, ret))
              /\ Goto(Walk(IF list' = << >> THEN 0 ELSE list'[1].id))
    /\ UNCHANGED <<flag, due, nline, last>>

(* ... and returns: an error or the last loop takes it out of the list. *)
Finish ==
    /\ In("run") /\ stack[1].cur \in Ids
    /\ LET i == At(stack[1].cur)
           n == list[i]
       IN  \E ret \in Returns(n.ln) :
              /\ list' = IF Finished(n, ret) THEN RemoveAt(list, i)
                         ELSE ReplaceAt(list, i, Again(n, ret))
              /\ last' = IF Finished(n, ret) /\ ret = 0 THEN Again(n, ret) ELSE NoNode
    /\ Goto(Walk(stack[1].nxt))
    /\ UNCHANGED <<flag, due, nline>>

WalkEnd ==
    /\ In("walk") /\ stack[1].nxt = 0
    /\ Goto(ReadLine)
    /\ UNCHANGED <<list, flag, due, nline, last>>

-----------------------------------------------------------------------------
(* No line was typed. *)
Return ==
    /\ In("read")
    /\ stack' = Tail(stack)
    /\ UNCHANGED <<list, flag, due, nline, last>>

(* cmd_queue_exec of a line: its command is called ... *)
Type ==
    /\ In("read")
    /\ nline < MaxLine /\ nline' = nline + 1
    /\ \E ln \in Lines :
          /\ Goto(Exec(Preprocess(Node(ln, nline'))))
          /\ Call(ln)
    /\ UNCHANGED <<due, last>>

(* Mutant: the old node of the command stays. *)
QueueBoth(n) == <<n>> \o list

(* A node takes the place of the one of the same command. *)
Queue(n) ==
    LET m == SelectInSeq(list, LAMBDA o : o.ln.cmd = n.ln.cmd)
    IN  <<n>> \o (IF m = 0 THEN list ELSE RemoveAt(list, m))

(* ... and returns; whatever it returns, this was the first loop. *)
Execute ==
    /\ In("exec")
    /\ LET n == [stack[1].node EXCEPT !.runs = 1]
       IN  \E ret \in Returns(n.ln) :
              list' = IF ret > 0 \/ n.repeat # 0 THEN Queue(n) ELSE list
    /\ stack' = Tail(stack)
    /\ UNCHANGED <<flag, due, nline, last>>

(* A deadline passes. *)
Tick(id) ==
    /\ id \in Ids \ due /\ list[At(id)].ln.ms
    /\ due' = due \cup {id}
    /\ UNCHANGED <<list, flag, stack, nline, last>>

Shell == Update \/ Pass \/ Begin \/ Finish \/ WalkEnd \/ Return \/ Execute

Next == Shell \/ Type \/ \E id \in 1 .. MaxLine : Tick(id)

(* The main loop runs, commands return, and deadlines pass; nobody has to  *)
(* type anything.                                                          *)
Spec ==
    /\ Init /\ [][Next]_vars
    /\ WF_vars(Shell) /\ WF_vars(Return) /\ WF_vars(Execute)
    /\ \A id \in 1 .. MaxLine : WF_vars(Tick(id))

-----------------------------------------------------------------------------
(* Types, and one node for each command: the list never grows beyond the   *)
(* commands there are, however calls of the shell are nested.              *)
TypeOK ==
    /\ \A i \in DOMAIN list : /\ list[i].id \in 1 .. nline /\ list[i].ln \in Lines
                              /\ list[i].repeat \in Int /\ list[i].runs \in Nat
                              /\ list[i].more \in BOOLEAN
    /\ \A i, j \in DOMAIN list : list[i].ln.cmd = list[j].ln.cmd => i = j
    /\ flag \in BOOLEAN /\ due \subseteq 1 .. nline /\ nline \in 0 .. MaxLine
    /\ Len(stack) <= MaxNest
    /\ \A i \in DOMAIN stack : /\ stack[i].pc \in {"walk", "run", "read", "exec"}
                               /\ stack[i].cur \in 0 .. nline /\ stack[i].nxt \in 0 .. nline
    /\ \A i \in 2 .. Len(stack) : stack[i].pc \in {"run", "exec"}

(* "read &100,10 for 10 loops" (cmd.c:104): a node that leaves the queue    *)
(* with its work done was executed as often as asked, the first time when  *)
(* it was typed, though other calls of the shell replace, kill and pause   *)
(* nodes meanwhile - never less, and more often only if its command        *)
(* returned a positive code in the background, which is not counted as a   *)
(* loop (cmd.c:305).                                                       *)
LoopsExact ==
    last.runs >= last.ln.loops /\ (last.runs > last.ln.loops => last.more)

(* A node that is due gets executed, removed or paused, whatever the other *)
(* nodes do and however the calls of the shell are nested.                 *)
Due(id) == id \in Ids /\ (list[At(id)].ln.ms => id \in due)
Served ==
    \A id \in 1 .. MaxLine :
        Due(id) ~> ~Due(id) \/ flag \/ (In("run") /\ stack[1].cur = id)
=============================================================================
