------------------------------ MODULE MCFactory ------------------------------
(***************************************************************************)
(* Instances of Factory for TLC.                                           *)
(***************************************************************************)
EXTENDS Factory, TLC

Symmetry == Permutations(Accounts) \union Permutations(Tokens)

\* A rejected amount and two that differ, so that escrows cannot stand in
\* for one another.
SmallAmounts == {0, 1, 2}
=============================================================================
