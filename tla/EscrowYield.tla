---------------------------- MODULE EscrowYield ----------------------------
(***************************************************************************)
(* contracts/escrow: the calls the contract makes to the yield protocol    *)
(* its escrow names.  create asks it to take the principal on deposit.     *)
(* withdraw is called by withdraw_funds alone, and no entry point calls    *)
(* withdraw_funds, so no other step reaches the protocol.                  *)
(***************************************************************************)
EXTENDS Escrow

VARIABLE lent   \* deposited with the yield protocol and not withdrawn since

yvars == <<vars, lent>>

YieldInit == Init /\ lent = 0

\* The yield protocol is called by the step that creates the escrow, with the
\* amount that step records as principal_deposited.
YieldCalls ==
    lent' = lent + IF escrow = None /\ escrow' # None
                   THEN escrow'.principal_deposited ELSE 0

YieldNext == Next /\ YieldCalls

YieldSpec == YieldInit /\ [][YieldNext]_yvars

-----------------------------------------------------------------------------
(***************************************************************************)
(* What the documentation says and the code does not do: "On any terminal  *)
(* transition (approve, cancel, expire), the contract calls                *)
(* yield_protocol.withdraw(principal_deposited)" (docs/PROTOCOL.md 299),   *)
(* so an escrow that has ended has nothing left on deposit.  approve,      *)
(* cancel and expire in lib.rs pay from the contract's own balance and     *)
(* never call it.                                                          *)
(***************************************************************************)
WithdrawnAtEnd == Terminal => lent = 0

=============================================================================
