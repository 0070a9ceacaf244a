---------------------------- MODULE MCRateLimit ----------------------------
(***************************************************************************)
(* An instance of RateLimit and AllowList for TLC: the unused helpers of   *)
(* storage.rs, side by side.  They share no storage entry, and every       *)
(* property is about one of them, so each moves while the other rests in   *)
(* its initial state and no behaviour of either is lost.                   *)
(***************************************************************************)
EXTENDS RateLimit, AllowList, TLC

Symmetry == Permutations(Payers) \union Permutations(Tokens)

StorageInit == Init /\ AllowInit

StorageNext ==
    \/ Next /\ AllowInit /\ UNCHANGED allow_vars
    \/ AllowNext /\ Init /\ UNCHANGED vars

StorageSpec == StorageInit /\ [][StorageNext]_<<vars, allow_vars>>
=============================================================================
