-------------------------------- MODULE Rows --------------------------------
(***************************************************************************)
(* Lists whose members are named by their place: the rules of the router's *)
(* tables and those of an iptables chain.                                  *)
(***************************************************************************)
EXTENDS Naturals, FiniteSets

\* The i-th smallest of a set of numbers.
Nth(S, i) == CHOOSE n \in S : Cardinality({k \in S : k <= n}) = i

\* The list without the given rows; the others keep their order.
DropRows(list, rows) ==
  LET kept == DOMAIN list \ rows
  IN  [i \in 1..Cardinality(kept) |-> list[Nth(kept, i)]]
=============================================================================
