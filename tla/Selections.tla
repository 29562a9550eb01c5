----------------------------- MODULE Selections -----------------------------
(***************************************************************************)
(* Sets of positions of a sequence, read in order.                         *)
(***************************************************************************)
EXTENDS Naturals, FiniteSets

First(S) == CHOOSE i \in S : \A j \in S : i <= j

(* The n-th element of S has n elements of S up to it.                     *)
InOrder(S) ==
    [n \in 1 .. Cardinality(S) |->
        CHOOSE i \in S : Cardinality({j \in S : j <= i}) = n]

(* The items of s at the positions S, in order.                            *)
At(s, S) == [n \in 1 .. Cardinality(S) |-> s[InOrder(S)[n]]]
=============================================================================
