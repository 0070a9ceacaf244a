------------------------------ MODULE MCEscrow ------------------------------
(***************************************************************************)
(* Instances of Escrow for TLC.                                            *)
(***************************************************************************)
EXTENDS Escrow, TLC

Symmetry == Permutations(Accounts)

M(amount, status) == [amount |-> amount, status |-> status]

\* Pending milestones only; the first three are inputs create must reject.
PlainVecs == { << >>, <<M(0, "Pending")>>, <<M(2, "Pending"), M(-1, "Pending")>>,
               <<M(2, "Pending")>>, <<M(1, "Pending"), M(2, "Pending")>> }

\* create also accepts milestones that arrive submitted or approved.
OpenVecs == { <<M(1, "Approved"), M(2, "Submitted"), M(1, "Pending")>> }

OncePending == { <<M(2, "Pending")>> }
TwoPending  == { <<M(1, "Pending"), M(2, "Pending")>> }

NoRecurrence  == { <<0, 0>> }
EveryLedger   == { <<1, 2>> }

=============================================================================
