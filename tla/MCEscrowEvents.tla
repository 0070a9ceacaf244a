--------------------------- MODULE MCEscrowEvents ---------------------------
(***************************************************************************)
(* Instances of EscrowEvents for TLC.                                      *)
(***************************************************************************)
EXTENDS EscrowEvents, MCEscrow
=============================================================================
