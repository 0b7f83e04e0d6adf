------------------------------ MODULE Weights ------------------------------
(***************************************************************************)
(* The total cost of a set of buffers, c[x] for each x of S.  It is counted *)
(* as the number of storage cells the buffers occupy, c[x] cells for x,     *)
(* which is their sum and needs no recursion over the set.                  *)
(***************************************************************************)
EXTENDS Integers, FiniteSets

Cells(S, c) == UNION {{x} \X (1..c[x]) : x \in S}

Weight(S, c) == Cardinality(Cells(S, c))
=============================================================================
