--------------------------- MODULE MCEscrowYield ---------------------------
(***************************************************************************)
(* Instances of EscrowYield for TLC.                                       *)
(***************************************************************************)
EXTENDS EscrowYield, MCEscrow
=============================================================================
