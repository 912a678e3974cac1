------------------------------- MODULE MCIrtVm -------------------------------
(* Small relay lists for IrtVm: two buses, up to four lines. *)
EXTENDS IrtVm

At1(p) == [sep |-> "@", p |-> p]
And(p) == [sep |-> ",", p |-> p]
To(p) == [sep |-> ":", p |-> p]

\* a point; two points and two ranges, more than a frame holds
MCLists == {<<At1(2)>>, <<At1(1), And(0), To(6), And(3), To(5)>>}
=============================================================================
