---------------------------- MODULE MCReputation ----------------------------
(***************************************************************************)
(* An instance of Reputation for TLC.                                      *)
(***************************************************************************)
EXTENDS Reputation, TLC

Symmetry == Permutations(Accounts) \union Permutations(Callers)
=============================================================================
