------------------------------- MODULE Token -------------------------------
(***************************************************************************)
(* The SEP-41 token contract as the escrow contracts call it: balances are *)
(* a function from holders to amounts, and transfer(from, to, amt) either  *)
(* moves the whole amount or panics, which rolls the calling transaction   *)
(* back.  The token is not part of the repository.                         *)
(***************************************************************************)
EXTENDS Integers

\* transfer panics on a negative amount and on an insufficient balance.
TransferOK(b, from, amt) == amt >= 0 /\ b[from] >= amt

\* The balances after a transfer that did not panic; from = to is harmless.
Transfer(b, from, to, amt) ==
    [b EXCEPT ![from] = @ - amt, ![to] = @ + amt]

=============================================================================
