------------------------------ MODULE MCClient ------------------------------
(***************************************************************************)
(* Instances of Client for TLC.                                            *)
(***************************************************************************)
EXTENDS Client, TLC

Symmetry == Permutations(Accounts)

Once == { <<[amount |-> 2, status |-> "Submitted"]>> }

NoRecurrence == { <<0, 0>> }

=============================================================================
