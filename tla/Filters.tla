------------------------------- MODULE Filters --------------------------------
(***************************************************************************)
(* Array.prototype.filter by the places it keeps, without recursion.       *)
(***************************************************************************)
EXTENDS Naturals, FiniteSets

(* The places in S from the first to the last: up to the k-th there are k. *)
Ascending(S) ==
    [k \in 1 .. Cardinality(S) |->
        CHOOSE i \in S : Cardinality({j \in S : j <= i}) = k]

(* The entries of l at the places in S, in their order. *)
Selected(l, S) ==
    LET place == Ascending(S)
    IN  [k \in 1 .. Cardinality(S) |-> l[place[k]]]
=============================================================================
