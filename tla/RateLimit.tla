----------------------------- MODULE RateLimit -----------------------------
(***************************************************************************)
(* contracts/escrow/src/storage.rs, the fixed-window rate limiter.  No     *)
(* entry point uses it yet (it is marked dead code); its caller, which     *)
(* does not exist, is taken to pass the stored configuration.              *)
(*                                                                         *)
(* A payer's window starts with an admitted call and is only replaced by   *)
(* the first call at or after its end, so windows are not aligned to       *)
(* anything.  Left out: the configuration's admin, min_amount and          *)
(* max_amount, which nothing reads.                                        *)
(***************************************************************************)
EXTENDS Integers, Sequences

CONSTANTS
    Payers,      \* addresses whose calls are limited
    None,        \* an absent storage entry
    Durations,   \* window_duration values written to the configuration
    Limits,      \* max_per_window values written to the configuration
    MinDuration, \* a lower bound of Durations
    MaxLimit,    \* an upper bound of Limits
    U64Max,      \* the largest timestamp, where additions saturate
    MaxCalls     \* bound on the admitted calls of a payer

RateLimitConfig == [max_per_window : Limits, window_duration : Durations]
PayerStats      == [window_start : Nat, count : Nat]

ASSUME LimitAssumption ==
    /\ U64Max \in Nat /\ MaxCalls \in Nat
    /\ MinDuration \in Nat /\ MaxLimit \in Nat \ {0}
    /\ Durations \subseteq Nat /\ \A d \in Durations : MinDuration =< d
    /\ Limits \subseteq Nat /\ \A m \in Limits : m =< MaxLimit
    /\ None \notin RateLimitConfig /\ None \notin PayerStats

VARIABLES
    now,      \* the ledger's timestamp
    config,   \* RateKey::Config
    stats,    \* RateKey::PayerStats(payer)
    admitted  \* history: the times of each payer's admitted calls, in order

vars == <<now, config, stats, admitted>>

-----------------------------------------------------------------------------
\* u64::saturating_add
saturating_add(x, y) == IF x + y > U64Max THEN U64Max ELSE x + y

\* read_payer_stats, and the fresh window of a payer who has none
read_payer_stats(payer) ==
    IF stats[payer] = None THEN [window_start |-> now, count |-> 0] ELSE stats[payer]

\* Mutant: the window ends one second early.
Ended_early(s, c) == now + 1 >= saturating_add(s.window_start, c.window_duration)

Ended(s, c) == now >= saturating_add(s.window_start, c.window_duration)

\* Mutant: an ended window is not reset.
Current_kept(payer, c) == read_payer_stats(payer)

\* Mutant: the counter of an ended window is reset, its start is not.
Current_same_start(payer, c) ==
    LET s == read_payer_stats(payer)
    IN  IF Ended(s, c) THEN [s EXCEPT !.count = 0] ELSE s

\* The payer's window at the time of the call, reset if it has ended.
Current(payer, c) ==
    LET s == read_payer_stats(payer)
    IN  IF Ended(s, c) THEN [window_start |-> now, count |-> 0] ELSE s

\* Mutant: one call too many.
Rejected_late(payer, c) == Current(payer, c).count > c.max_per_window

\* The call returns Err(()) and writes nothing.
Rejected(payer, c) == Current(payer, c).count >= c.max_per_window

\* The timestamps before the first one are of no interest: the clock starts anywhere.
Init ==
    /\ now \in 0..U64Max
    /\ config = None
    /\ stats = [p \in Payers |-> None]
    /\ admitted = [p \in Payers |-> << >>]

write_config(c) ==
    /\ config' = c
    /\ UNCHANGED <<now, stats, admitted>>

\* The call returns Ok(()).  The counter's saturating_add never saturates: the
\* count is below max_per_window, a u32.
check_and_update_rate_limit(payer) ==
    /\ Len(admitted[payer]) < MaxCalls
    /\ config # None
    /\ ~ Rejected(payer, config)
    /\ LET s == Current(payer, config)
       IN  stats' = [stats EXCEPT ![payer] =
                        [window_start |-> s.window_start, count |-> s.count + 1]]
    /\ admitted' = [admitted EXCEPT ![payer] = Append(@, now)]
    /\ UNCHANGED <<now, config>>

\* Ledgers close: time never goes back, and may jump.
CloseLedger ==
    /\ now' \in (now + 1)..U64Max
    /\ UNCHANGED <<config, stats, admitted>>

Next ==
    \/ \E c \in RateLimitConfig : write_config(c)
    \/ \E p \in Payers : check_and_update_rate_limit(p)
    \/ CloseLedger

Spec == Init /\ [][Next]_vars

-----------------------------------------------------------------------------
(* Properties *)

(***************************************************************************)
(* Storage is well typed; the current window began in the past, and counts *)
(* at most the largest limit and only calls that were admitted.            *)
(***************************************************************************)
RateTypeOK ==
    /\ now \in 0..U64Max
    /\ config \in RateLimitConfig \union {None}
    /\ stats \in [Payers -> PayerStats \union {None}]
    /\ admitted \in [Payers -> Seq(0..U64Max)]
    /\ \A p \in Payers :
          IF stats[p] = None THEN admitted[p] = << >>
          ELSE /\ stats[p].window_start =< now
               /\ stats[p].count =< MaxLimit
               /\ stats[p].count =< Len(admitted[p])

(***************************************************************************)
(* The worst burst check_and_update_rate_limit lets through: of any        *)
(* 2 * MaxLimit + 1 calls of a payer that are admitted one after the other *)
(* the last comes at least a whole window after the first.  Two windows    *)
(* may meet inside such a span, three never do, however the configuration  *)
(* is changed in between.  (At the end of u64 time the addition saturates  *)
(* and so does the bound.)                                                 *)
(***************************************************************************)
BurstBound ==
    \A p \in Payers : \A i \in 1..Len(admitted[p]) :
        i + 2 * MaxLimit =< Len(admitted[p]) =>
            admitted[p][i + 2 * MaxLimit] >= saturating_add(admitted[p][i], MinDuration)

(***************************************************************************)
(* No payer is locked out: a call is rejected only if max_per_window calls *)
(* of the same payer were admitted less than window_duration ago.  In      *)
(* particular a counter left over from an old window, or raised under an   *)
(* earlier and larger limit, never rejects a call after the window ended.  *)
(***************************************************************************)
RejectionEarned ==
    \A p \in Payers :
        (config # None /\ Rejected(p, config)) =>
            LET n == Len(admitted[p])
                m == config.max_per_window
            IN  /\ m =< n
                /\ \A i \in (n - m + 1)..n : now < admitted[p][i] + config.window_duration

-----------------------------------------------------------------------------
(* Inductive invariant *)

(***************************************************************************)
(* Where the admitted calls of a payer lie: no later than now; the last    *)
(* `count` of them in the current window, the others no later than its     *)
(* start, and all but MaxLimit of those a whole window before it.          *)
(***************************************************************************)
WindowInv ==
    \A p \in Payers : stats[p] # None =>
        LET n == Len(admitted[p])
            s == stats[p].window_start
            c == stats[p].count
        IN  \A i \in 1..n :
               /\ admitted[p][i] =< now
               /\ i > n - c => admitted[p][i] >= s
               /\ i =< n - c => admitted[p][i] =< s
               /\ i =< n - c - MaxLimit => saturating_add(admitted[p][i], MinDuration) =< s
=============================================================================
