----------------------------- MODULE MCCmdQueue ------------------------------
(* Two commands in the foreground and in the background, kill and pause. *)
EXTENDS CmdQueue

Line(cmd, arg, ms, loops) == [cmd |-> cmd, arg |-> arg, ms |-> ms, loops |-> loops]

MCLines ==
    {Line("a", "", FALSE, 0),   \* a
     Line("a", "", FALSE, -1),  \* a&
     Line("a", "", TRUE, 3),    \* a&100,3
     Line("b", "", TRUE, -1),   \* b&100
     Line("kill", "a", FALSE, 0), Line("kill", "all", FALSE, 0),
     Line("pause", "toggle", FALSE, 0)}
=============================================================================
