------------------------------ MODULE MoshInput ------------------------------
(***************************************************************************)
(* What a mosh session promises about what the user types (and about the   *)
(* resizes, which go the same way): the server takes every input once, in  *)
(* the order it was made, and what it took never changes afterwards.       *)
(*                                                                         *)
(* The n-th input of the session is the number n.                          *)
(***************************************************************************)
EXTENDS Naturals, Sequences

VARIABLES
  typed,      \* inputs made so far
  received    \* the inputs the server's program got, in order

vars == <<typed, received>>

\* The inputs from a to b, in order.
Run(a, b) == [i \in 1 .. (b + 1) - a |-> (a + i) - 1]

Init == typed = 1 /\ received = <<>>

\* The user types a key or the screen changes its size.
Type == typed' = typed + 1 /\ UNCHANGED received

\* The server's newest state has more of the input.
Deliver ==
  /\ \E n \in Len(received) + 1 .. typed : received' = Run(1, n)
  /\ UNCHANGED typed

Next == Type \/ Deliver

Spec == Init /\ [][Next]_vars
=============================================================================
