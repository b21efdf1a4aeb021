--------------------------- MODULE AscendingOrder ---------------------------
(***************************************************************************)
(* The numbers of a finite set in ascending order: the i-th is the one     *)
(* with i - 1 smaller ones in the set.  A walk of the code that visits     *)
(* numbers upwards and keeps those of S keeps them in this order.          *)
(***************************************************************************)
EXTENDS Naturals, FiniteSets

Ascending(S) ==
  [i \in 1 .. Cardinality(S) |->
     CHOOSE n \in S : Cardinality({m \in S : m < n}) = i - 1]
=============================================================================
