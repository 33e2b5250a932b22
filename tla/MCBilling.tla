------------------------------ MODULE MCBilling ------------------------------
(* Instances of Billing small enough to check exhaustively. *)
EXTENDS Billing

CONSTANTS alice, bob, i1, i2, i3, k1

OneCard == {alice}
TwoCards == {alice, bob}
OneCardOf == [i \in Invocations |-> alice]
UpAndDown == {-1, 2}
Top1 == [c \in Cards |-> 1]
Top2 == [c \in Cards |-> 2]
Top3 == [c \in Cards |-> 3]
Top9 == [c \in Cards |-> 9]

\* The requests of one card differ in nothing but their ids.
Interchangeable == Permutations(Invocations)
=============================================================================
