------------------------------- MODULE MCVote -------------------------------
(* A small instance of Vote: three codes, a unit of cost divides a weight  *)
(* by 5/4.                                                                 *)
EXTENDS Vote

FiveQuarters == [c \in 0 .. 3 |-> <<125, 100, 80, 64>>[c + 1]]
=============================================================================
