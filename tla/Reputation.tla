----------------------------- MODULE Reputation -----------------------------
(***************************************************************************)
(* contracts/reputation: counts the completed and cancelled escrows of     *)
(* every address, as reported by escrow contracts its admin registered,    *)
(* and computes a score from the counts.                                   *)
(*                                                                         *)
(* As in Escrow, an entry point is one atomic transaction and one action;  *)
(* an Err, a panic or a missing authorisation changes nothing, and integer *)
(* overflow panics.  A caller cannot be unregistered.                      *)
(***************************************************************************)
EXTENDS Integers, SequencesExt, Sums

CONSTANTS
    Accounts,   \* addresses that are reported about; one of them is the admin
    Callers,    \* addresses that may be registered and report
    None,       \* no admin yet
    U32Max,     \* the largest u32
    MaxReports  \* bound on the reports of one kind by a caller about an address

ReputationStats == [completed : 0..U32Max, cancelled : 0..U32Max]

ASSUME ReputationAssumption ==
    /\ None \notin Accounts /\ IsFiniteSet(Callers)
    /\ U32Max \in Nat /\ MaxReports \in Nat

VARIABLES
    admin,    \* DataKey::Admin
    callers,  \* the addresses with an entry DataKey::Caller(address)
    stats,    \* DataKey::Stats(address), for the addresses that have an entry
    reports   \* history: the reports made, by caller, address and kind

vars == <<admin, callers, stats, reports>>

-----------------------------------------------------------------------------
load_stats(address) ==
    IF address \in DOMAIN stats THEN stats[address]
    ELSE [completed |-> 0, cancelled |-> 0]

save_stats(address, s) ==
    stats' = [a \in DOMAIN stats \union {address} |->
                 IF a = address THEN s ELSE stats[a]]

\* Mutant: overflow checks are off, so the products wrap around.
ScorePanics_never(address) == FALSE

\* The products of get_reputation do not fit in a u32.
ScorePanics(address) ==
    \/ load_stats(address).completed * 10 > U32Max
    \/ load_stats(address).cancelled * 5 > U32Max

\* What get_reputation returns when it does not panic (saturating_sub).
get_reputation(address) ==
    LET positive == (load_stats(address).completed * 10) % (U32Max + 1)
        negative == (load_stats(address).cancelled * 5) % (U32Max + 1)
    IN  IF positive > negative THEN positive - negative ELSE 0

Init ==
    /\ admin = None
    /\ callers = {}
    /\ stats = [a \in {} |-> a]
    /\ reports = [c \in Callers |-> [a \in Accounts |->
                     [completed |-> 0, cancelled |-> 0]]]

init(a) ==
    /\ admin = None
    /\ admin' = a
    /\ UNCHANGED <<callers, stats, reports>>

register_caller(caller) ==
    /\ admin # None
    /\ callers' = callers \union {caller}
    /\ UNCHANGED <<admin, stats, reports>>

\* Mutant: an unregistered caller is not turned away.
record_completion_open(caller, address) ==
    /\ reports[caller][address].completed < MaxReports
    /\ load_stats(address).completed < U32Max
    /\ save_stats(address, [load_stats(address) EXCEPT !.completed = @ + 1])
    /\ reports' = [reports EXCEPT ![caller][address].completed = @ + 1]
    /\ UNCHANGED <<admin, callers>>

record_completion(caller, address) ==
    /\ reports[caller][address].completed < MaxReports
    /\ caller \in callers
    /\ load_stats(address).completed < U32Max
    /\ save_stats(address, [load_stats(address) EXCEPT !.completed = @ + 1])
    /\ reports' = [reports EXCEPT ![caller][address].completed = @ + 1]
    /\ UNCHANGED <<admin, callers>>

record_cancellation(caller, address) ==
    /\ reports[caller][address].cancelled < MaxReports
    /\ caller \in callers
    /\ load_stats(address).cancelled < U32Max
    /\ save_stats(address, [load_stats(address) EXCEPT !.cancelled = @ + 1])
    /\ reports' = [reports EXCEPT ![caller][address].cancelled = @ + 1]
    /\ UNCHANGED <<admin, callers>>

Next ==
    \/ \E a \in Accounts : init(a)
    \/ \E c \in Callers : register_caller(c)
    \/ \E c \in Callers, a \in Accounts : record_completion(c, a)
    \/ \E c \in Callers, a \in Accounts : record_cancellation(c, a)

Spec == Init /\ [][Next]_vars

-----------------------------------------------------------------------------
(* Properties *)

(***************************************************************************)
(* Storage is well typed, and nobody reports who was not registered by an  *)
(* admin: neither a caller before init nor a report before registration.   *)
(***************************************************************************)
ReputationTypeOK ==
    /\ admin \in Accounts \union {None}
    /\ callers \subseteq Callers
    /\ callers # {} => admin # None
    /\ DOMAIN stats \subseteq Accounts
    /\ \A a \in DOMAIN stats : stats[a] \in ReputationStats
    /\ \A c \in Callers \ callers, a \in Accounts :
          reports[c][a].completed = 0 /\ reports[c][a].cancelled = 0

\* The callers in some order, and the completed and cancelled escrows of an
\* address over all of them.
CallerSeq        == SetToSeq(Callers)
Completions(a)   == SumTo([i \in 1..Len(CallerSeq) |-> reports[CallerSeq[i]][a].completed],
                          Len(CallerSeq))
Cancellations(a) == SumTo([i \in 1..Len(CallerSeq) |-> reports[CallerSeq[i]][a].cancelled],
                          Len(CallerSeq))

(***************************************************************************)
(* Whenever get_reputation answers, the score is ten per completion minus  *)
(* five per cancellation, at least zero, over everything registered        *)
(* callers ever reported about the address.  The floor applies to the      *)
(* total and not report by report, so the order of reports does not        *)
(* matter, reports about others do not count, and no product wraps around. *)
(***************************************************************************)
ScoreEarned ==
    \A a \in Accounts : ~ ScorePanics(a) =>
        get_reputation(a) = Max({0, 10 * Completions(a) - 5 * Cancellations(a)})
=============================================================================
