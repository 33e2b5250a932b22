------------------------------- MODULE MCGateway -------------------------------
(* Instances of Gateway for TLC. *)
EXTENDS Gateway, TLC

CONSTANTS c1, i1, i2, a1, a2

OneCard == {c1}
OneCardOf == [i \in Invocations |-> c1]
Top1 == [c \in OneCard |-> 1]
Top2 == [c \in OneCard |-> 2]
Top9 == [c \in OneCard |-> 9]

Alike == Permutations(Attempts) \cup Permutations(Invocations)
=============================================================================
