---------------------------- MODULE StorageProofs ---------------------------
(***************************************************************************)
(* Theorems about RateLimit and about AllowList, the helpers of storage.rs *)
(* that no entry point calls yet, for every value of their constants.      *)
(***************************************************************************)
EXTENDS RateLimit, AllowList, HelperTheorems, FiniteSetTheorems

RateInv == RateTypeOK /\ WindowInv /\ BurstBound

(***************************************************************************)
(* The saturating end of a window is a natural and never moves back when   *)
(* its start does not.                                                     *)
(***************************************************************************)
LEMMA SaturatingMono ==
    ASSUME NEW x \in Nat, NEW y \in Nat, x =< y
    PROVE  /\ saturating_add(x, MinDuration) \in Nat
           /\ saturating_add(y, MinDuration) \in Nat
           /\ saturating_add(x, MinDuration) =< saturating_add(y, MinDuration)
    BY LimitAssumption DEF saturating_add

(***************************************************************************)
(* The window check_and_update_rate_limit works on is either the stored    *)
(* one, not yet ended, or a new one that starts now, empty, when there was *)
(* none or the stored one lies at least MinDuration back.                  *)
(***************************************************************************)
LEMMA CurrentFacts ==
    ASSUME RateTypeOK, NEW p \in Payers, config # None
    PROVE  /\ config \in RateLimitConfig
           /\ Current(p, config) \in PayerStats
           /\ \/ /\ stats[p] # None /\ Current(p, config) = stats[p]
                 /\ now < saturating_add(stats[p].window_start, config.window_duration)
              \/ /\ Current(p, config) = [window_start |-> now, count |-> 0]
                 /\ \/ stats[p] = None
                    \/ saturating_add(stats[p].window_start, MinDuration) =< now
<1>1. /\ config \in RateLimitConfig /\ now \in Nat
      /\ stats[p] \in PayerStats \union {None}
    BY LimitAssumption DEF RateTypeOK
<1>2. config.window_duration \in Nat /\ MinDuration =< config.window_duration /\ MinDuration \in Nat
    BY <1>1, LimitAssumption DEF RateLimitConfig
<1>3. [window_start |-> now, count |-> 0] \in PayerStats
    BY <1>1 DEF PayerStats
<1>4. CASE stats[p] = None
    BY <1>1, <1>3, <1>4 DEF Current, read_payer_stats
<1>5. CASE stats[p] # None
  <2>1. stats[p] \in PayerStats /\ stats[p].window_start \in Nat
    BY <1>1, <1>5 DEF PayerStats
  <2>2. /\ saturating_add(stats[p].window_start, MinDuration)
              =< saturating_add(stats[p].window_start, config.window_duration)
        /\ saturating_add(stats[p].window_start, MinDuration) \in Nat
        /\ saturating_add(stats[p].window_start, config.window_duration) \in Nat
    BY <1>2, <2>1, LimitAssumption DEF saturating_add
  <2> QED
    BY <1>1, <1>3, <1>5, <2>1, <2>2 DEF Current, read_payer_stats, Ended
<1> QED
    BY <1>4, <1>5

(***************************************************************************)
(* An admitted call keeps the invariant of the payer who made it.          *)
(***************************************************************************)
LEMMA AdmitKeepsPayer ==
    ASSUME RateInv, NEW p \in Payers, check_and_update_rate_limit(p)
    PROVE  LET A == admitted'[p]
               n == Len(A)
               s == stats'[p].window_start
               c == stats'[p].count
           IN  /\ stats'[p] \in PayerStats /\ stats'[p] # None
               /\ A \in Seq(0..U64Max)
               /\ s =< now /\ c =< MaxLimit /\ c =< n
               /\ \A i \in 1..n :
                     /\ A[i] =< now
                     /\ i > n - c => A[i] >= s
                     /\ i =< n - c => A[i] =< s
                     /\ i =< n - c - MaxLimit => saturating_add(A[i], MinDuration) =< s
                     /\ i + 2 * MaxLimit =< n =>
                           A[i + 2 * MaxLimit] >= saturating_add(A[i], MinDuration)
<1> DEFINE A == admitted[p]
           n == Len(A)
           w == Current(p, config)
           B == Append(A, now)
<1>1. /\ now \in 0..U64Max /\ now \in Nat /\ U64Max \in Nat
      /\ MinDuration \in Nat /\ MaxLimit \in Nat \ {0}
      /\ A \in Seq(0..U64Max) /\ n \in Nat
      /\ stats \in [Payers -> PayerStats \union {None}]
      /\ admitted \in [Payers -> Seq(0..U64Max)]
    BY LimitAssumption DEF RateInv, RateTypeOK
<1>2. /\ config # None /\ config \in RateLimitConfig /\ w \in PayerStats
      /\ w.count < config.max_per_window
      /\ stats'[p] = [window_start |-> w.window_start, count |-> w.count + 1]
      /\ admitted'[p] = B
  <2>1. config # None /\ ~ (w.count >= config.max_per_window)
    BY DEF check_and_update_rate_limit, Rejected
  <2>2. config \in RateLimitConfig /\ w \in PayerStats
    BY <2>1, CurrentFacts DEF RateInv
  <2>3. w.count \in Nat /\ config.max_per_window \in Nat
    BY <2>2, LimitAssumption DEF PayerStats, RateLimitConfig
  <2> QED
    BY <1>1, <2>1, <2>2, <2>3 DEF check_and_update_rate_limit
<1>3. /\ w.window_start \in Nat /\ w.count \in Nat
      /\ w.count + 1 =< MaxLimit
  <2>1. config.max_per_window \in Limits
    BY <1>2 DEF RateLimitConfig
  <2>2. config.max_per_window \in Nat /\ config.max_per_window =< MaxLimit
    BY <2>1, LimitAssumption
  <2>3. w.window_start \in Nat /\ w.count \in Nat
    BY <1>2 DEF PayerStats
  <2> QED
    BY <1>1, <1>2, <2>2, <2>3
<1>4. /\ stats'[p] \in PayerStats /\ stats'[p] # None
      /\ stats'[p].window_start = w.window_start /\ stats'[p].count = w.count + 1
    BY <1>2, <1>3, LimitAssumption DEF PayerStats
<1>5. /\ B \in Seq(0..U64Max) /\ Len(B) = n + 1 /\ B[n + 1] = now
      /\ \A i \in 1..n : B[i] = A[i] /\ A[i] \in Nat
    BY <1>1
\* Where the earlier calls lie relative to the window the call is counted in.
<1>6. /\ w.window_start =< now /\ w.count =< n
      /\ \A i \in 1..n :
            /\ A[i] =< now
            /\ i > n - w.count => A[i] >= w.window_start
            /\ i =< n - w.count => A[i] =< w.window_start
            /\ i =< n - w.count - MaxLimit =>
                  saturating_add(A[i], MinDuration) =< w.window_start
  <2>1. CASE stats[p] = None
    <3>1. n = 0 /\ w.window_start = now /\ w.count = 0
      BY <2>1, <1>1, <1>2, CurrentFacts DEF RateInv, RateTypeOK
    <3> QED
      BY <3>1, <1>1
  <2>2. CASE stats[p] # None
    <3> DEFINE s == stats[p].window_start
               c == stats[p].count
    <3>1. s \in Nat /\ c \in Nat /\ s =< now /\ c =< MaxLimit /\ c =< n
      BY <2>2, <1>1 DEF RateInv, RateTypeOK, PayerStats
    <3>2. \A i \in 1..n :
            /\ A[i] =< now
            /\ i > n - c => A[i] >= s
            /\ i =< n - c => A[i] =< s
            /\ i =< n - c - MaxLimit => saturating_add(A[i], MinDuration) =< s
      BY <2>2 DEF RateInv, WindowInv
    <3>3. CASE w = stats[p]
      BY <3>1, <3>2, <3>3
    <3>4. CASE w # stats[p]
      <4>1. /\ w.window_start = now /\ w.count = 0
            /\ saturating_add(s, MinDuration) =< now
        BY <2>2, <3>4, <1>2, CurrentFacts DEF RateInv
      <4>2. ASSUME NEW i \in 1..n, i =< n - MaxLimit
            PROVE  saturating_add(A[i], MinDuration) =< now
        <5>1. A[i] \in Nat /\ A[i] =< s
          BY <1>1, <1>5, <3>1, <3>2, <4>2
        <5>2. /\ saturating_add(A[i], MinDuration) \in Nat
              /\ saturating_add(s, MinDuration) \in Nat
              /\ saturating_add(A[i], MinDuration) =< saturating_add(s, MinDuration)
          BY <3>1, <5>1, SaturatingMono
        <5> QED
          BY <1>1, <4>1, <5>2
      <4> HIDE DEF w, A, n
      <4> QED
        BY <1>1, <3>2, <4>1, <4>2
    <3> QED
      BY <3>3, <3>4
  <2> QED
    BY <2>1, <2>2
<1>7. ASSUME NEW i \in 1..n, i + 2 * MaxLimit = n + 1
      PROVE  now >= saturating_add(A[i], MinDuration)
  <2>1. i =< n - w.count - MaxLimit
    BY <1>1, <1>3, <1>7
  <2>2. saturating_add(A[i], MinDuration) =< w.window_start /\ w.window_start =< now
    BY <1>6, <2>1
  <2>3. saturating_add(A[i], MinDuration) \in Nat
    BY <1>1, <1>5, LimitAssumption DEF saturating_add
  <2> QED
    BY <1>1, <1>3, <2>2, <2>3
<1>8. \A i \in 1..n : i + 2 * MaxLimit =< n =>
          A[i + 2 * MaxLimit] >= saturating_add(A[i], MinDuration)
    BY DEF RateInv, BurstBound
<1> HIDE DEF A, n, w, B
<1>9. ASSUME NEW i \in 1..(n + 1)
      PROVE  /\ B[i] =< now
             /\ i > n - w.count => B[i] >= w.window_start
             /\ i =< n - w.count => B[i] =< w.window_start
             /\ i =< n - w.count - MaxLimit =>
                   saturating_add(B[i], MinDuration) =< w.window_start
             /\ i + 2 * MaxLimit =< n + 1 =>
                   B[i + 2 * MaxLimit] >= saturating_add(B[i], MinDuration)
  <2>1. CASE i = n + 1
    <3>1. B[i] = now /\ now \in Nat /\ w.window_start =< now
      BY <1>1, <1>5, <1>6, <2>1
    <3>2. ~ (i =< n - w.count) /\ ~ (i =< n - w.count - MaxLimit) /\ ~ (i + 2 * MaxLimit =< n + 1)
      BY <1>1, <1>3, <2>1
    <3> QED
      BY <1>3, <3>1, <3>2
  <2>2. CASE i \in 1..n
    <3>1. B[i] = A[i]
      BY <1>5, <2>2
    <3>2. ASSUME i + 2 * MaxLimit =< n + 1
          PROVE  B[i + 2 * MaxLimit] >= saturating_add(B[i], MinDuration)
      <4>1. CASE i + 2 * MaxLimit = n + 1
        BY <1>5, <1>7, <2>2, <3>1, <4>1
      <4>2. CASE i + 2 * MaxLimit # n + 1
        <5>1. i + 2 * MaxLimit \in 1..n
          BY <1>1, <2>2, <3>2, <4>2
        <5> QED
          BY <1>5, <1>8, <2>2, <3>1, <5>1
      <4> QED
        BY <4>1, <4>2
    <3> QED
      BY <1>6, <2>2, <3>1, <3>2
  <2> QED
    BY <1>1, <2>1, <2>2
<1> QED
  <2>1. n \in Nat /\ w.count \in Nat /\ w.count =< n
    BY <1>1, <1>3, <1>6
  <2>2. (n + 1) - (w.count + 1) = n - w.count /\ w.count + 1 =< n + 1
    BY <2>1
  <2> QED
    BY <1>2, <1>3, <1>4, <1>5, <1>6, <1>9, <2>2

(***************************************************************************)
(* The invariant holds initially and every step keeps it.                  *)
(***************************************************************************)
LEMMA RateInvInit == Init => RateInv
BY LimitAssumption DEF Init, RateInv, RateTypeOK, WindowInv, BurstBound

LEMMA RateInvNext == RateInv /\ [Next]_vars => RateInv'
<1> SUFFICES ASSUME RateInv, [Next]_vars PROVE RateInv'
    OBVIOUS
<1>1. CASE UNCHANGED vars
    BY <1>1 DEF RateInv, RateTypeOK, WindowInv, BurstBound, vars
<1>2. ASSUME NEW c \in RateLimitConfig, write_config(c) PROVE RateInv'
    BY <1>2 DEF write_config, RateInv, RateTypeOK, WindowInv, BurstBound
<1>3. ASSUME NEW p \in Payers, check_and_update_rate_limit(p) PROVE RateInv'
  <2>1. /\ now' = now /\ config' = config
        /\ stats' \in [Payers -> PayerStats \union {None}]
        /\ admitted' \in [Payers -> Seq(0..U64Max)]
    <3>1. /\ stats'[p] \in PayerStats /\ admitted'[p] \in Seq(0..U64Max)
      BY <1>3, AdmitKeepsPayer
    <3>2. /\ stats \in [Payers -> PayerStats \union {None}]
          /\ admitted \in [Payers -> Seq(0..U64Max)]
      BY DEF RateInv, RateTypeOK
    <3>3. /\ stats' = [stats EXCEPT ![p] = stats'[p]]
          /\ admitted' = [admitted EXCEPT ![p] = admitted'[p]]
      BY <1>3, <3>2 DEF check_and_update_rate_limit
    <3> QED
      BY <1>3, <3>1, <3>2, <3>3 DEF check_and_update_rate_limit
  <2>2. \A q \in Payers : q # p => stats'[q] = stats[q] /\ admitted'[q] = admitted[q]
    BY <1>3 DEF check_and_update_rate_limit, RateInv, RateTypeOK
  <2>3. RateTypeOK'
    BY <1>3, <2>1, <2>2, AdmitKeepsPayer DEF RateInv, RateTypeOK
  <2>4. WindowInv'
    <3> SUFFICES ASSUME NEW q \in Payers, stats'[q] # None, NEW i \in 1..Len(admitted'[q])
                 PROVE  LET n == Len(admitted'[q])
                            s == stats'[q].window_start
                            c == stats'[q].count
                        IN  /\ admitted'[q][i] =< now'
                            /\ i > n - c => admitted'[q][i] >= s
                            /\ i =< n - c => admitted'[q][i] =< s
                            /\ i =< n - c - MaxLimit =>
                                 saturating_add(admitted'[q][i], MinDuration) =< s
      BY DEF WindowInv, saturating_add
    <3>1. CASE q = p
      BY <1>3, <2>1, <3>1, AdmitKeepsPayer
    <3>2. CASE q # p
      BY <2>1, <2>2, <3>2 DEF RateInv, WindowInv
    <3> QED
      BY <3>1, <3>2
  <2>5. BurstBound'
    <3> SUFFICES ASSUME NEW q \in Payers, NEW i \in 1..Len(admitted'[q]),
                        i + 2 * MaxLimit =< Len(admitted'[q])
                 PROVE  admitted'[q][i + 2 * MaxLimit]
                           >= saturating_add(admitted'[q][i], MinDuration)
      BY DEF BurstBound, saturating_add
    <3>1. CASE q = p
      BY <1>3, <3>1, AdmitKeepsPayer
    <3>2. CASE q # p
      BY <2>2, <3>2 DEF RateInv, BurstBound
    <3> QED
      BY <3>1, <3>2
  <2> QED
    BY <2>3, <2>4, <2>5 DEF RateInv
<1>4. ASSUME CloseLedger PROVE RateInv'
  <2>1. /\ now' \in 0..U64Max /\ now < now' /\ now \in Nat /\ now' \in Nat
        /\ config' = config /\ stats' = stats /\ admitted' = admitted
    BY <1>4, LimitAssumption DEF CloseLedger, RateInv, RateTypeOK
  <2>2. RateTypeOK'
    BY <2>1 DEF RateInv, RateTypeOK, PayerStats
  <2>3. WindowInv'
    <3>1. \A q \in Payers : \A i \in 1..Len(admitted[q]) : admitted[q][i] \in Nat
      BY LimitAssumption DEF RateInv, RateTypeOK
    <3> QED
      BY <2>1, <3>1 DEF RateInv, WindowInv, saturating_add
  <2>4. BurstBound'
    BY <2>1 DEF RateInv, BurstBound, saturating_add
  <2> QED
    BY <2>2, <2>3, <2>4 DEF RateInv
<1> QED
    BY <1>1, <1>2, <1>3, <1>4 DEF Next

LEMMA RateInvAlways == Spec => []RateInv
BY RateInvInit, RateInvNext, PTL DEF Spec

(***************************************************************************)
(* Type correctness of the rate limit: whatever the configuration, the     *)
(* stored window began in the past and its counter is within the limits.   *)
(***************************************************************************)
THEOREM RateTypeCorrect == Spec => []RateTypeOK
<1>1. RateInv => RateTypeOK
    BY DEF RateInv
<1> QED
    BY <1>1, RateInvAlways, PTL

(***************************************************************************)
(* The calls the stored counter counts are the ones since the start of the *)
(* stored window, through every change of the configuration.               *)
(***************************************************************************)
THEOREM WindowsKept == Spec => []WindowInv
<1>1. RateInv => WindowInv
    BY DEF RateInv
<1> QED
    BY <1>1, RateInvAlways, PTL

(***************************************************************************)
(* No payer ever gets more than 2 * MaxLimit calls through                 *)
(* check_and_update_rate_limit within one window's length, whatever the    *)
(* limits and however the configuration changes.                           *)
(***************************************************************************)
THEOREM BurstsBounded == Spec => []BurstBound
BY RateInvAlways, PTL DEF RateInv

(***************************************************************************)
(* A rejection by check_and_update_rate_limit is always earned: the payer  *)
(* used up the limit less than one window ago.                             *)
(***************************************************************************)
THEOREM RejectionsEarned == Spec => []RejectionEarned
<1>1. RateInv => RejectionEarned
  <2> SUFFICES ASSUME RateInv, NEW p \in Payers, config # None, Rejected(p, config)
               PROVE  LET n == Len(admitted[p])
                          m == config.max_per_window
                      IN  /\ m =< n
                          /\ \A i \in (n - m + 1)..n :
                                now < admitted[p][i] + config.window_duration
    BY DEF RejectionEarned
  <2> DEFINE n == Len(admitted[p])
             m == config.max_per_window
             d == config.window_duration
  <2>1. /\ m \in Nat /\ d \in Nat /\ now \in Nat /\ n \in Nat
        /\ \A i \in 1..n : admitted[p][i] \in Nat
        /\ admitted[p] \in Seq(0..U64Max)
    <3>1. config \in RateLimitConfig
      BY CurrentFacts DEF RateInv
    <3>2. m \in Nat /\ d \in Nat
      BY <3>1, LimitAssumption DEF RateLimitConfig
    <3>3. admitted[p] \in Seq(0..U64Max) /\ now \in Nat
      BY LimitAssumption DEF RateInv, RateTypeOK
    <3> QED
      BY <3>2, <3>3, LimitAssumption
  <2>2. CASE m = 0
    BY <2>1, <2>2
  <2>3. CASE m > 0
    <3> DEFINE s == stats[p].window_start
               c == stats[p].count
    <3>1. /\ stats[p] # None /\ c >= m
          /\ now < saturating_add(s, d)
      BY <2>1, <2>3, CurrentFacts DEF RateInv, Rejected
    <3>2. s \in Nat /\ c \in Nat /\ c =< n
      BY <3>1 DEF RateInv, RateTypeOK, PayerStats
    <3>3. saturating_add(s, d) \in Nat /\ saturating_add(s, d) =< s + d
      BY <2>1, <3>2, LimitAssumption DEF saturating_add
    <3>4. ASSUME NEW i \in (n - m + 1)..n PROVE now < admitted[p][i] + d
      <4>1. i \in 1..n /\ i > n - c
        BY <2>1, <3>1, <3>2, <3>4
      <4>2. admitted[p][i] >= s
        BY <3>1, <4>1 DEF RateInv, WindowInv
      <4> QED
        BY <2>1, <3>1, <3>2, <3>3, <4>1, <4>2
    <3> QED
      BY <2>1, <3>1, <3>2, <3>4
  <2> QED
    BY <2>1, <2>2, <2>3
<1> QED
    BY <1>1, RateInvAlways, PTL
-----------------------------------------------------------------------------
(* The token allowlist *)

NoRepeats(list) == \A i, j \in 1..Len(list) : list[i] = list[j] => i = j

AllowInv == tokens \in Seq(Tokens) \union {NoList} /\ NoRepeats(read_allowed_tokens)

(***************************************************************************)
(* A list without repetitions has as many members as entries.              *)
(***************************************************************************)
LEMMA NoRepeatsCount ==
    ASSUME NEW list \in Seq(Tokens), NoRepeats(list)
    PROVE  Cardinality(Listed(list)) = Len(list)
<1>1. Len(list) \in Nat /\ DOMAIN list = 1..Len(list)
    OBVIOUS
<1>2. IsFiniteSet(1..Len(list)) /\ Cardinality(1..Len(list)) = Len(list)
    BY <1>1, FS_Interval
<1>3. list \in Bijection(1..Len(list), Listed(list))
  <2>1. list \in [1..Len(list) -> Listed(list)]
      BY <1>1 DEF Listed
  <2>2. list \in Injection(1..Len(list), Listed(list))
      BY <2>1 DEF Injection, IsInjective, NoRepeats
  <2>3. list \in Surjection(1..Len(list), Listed(list))
      BY <1>1, <2>1 DEF Surjection, Listed
  <2> QED BY <2>2, <2>3 DEF Bijection
<1>4. ExistsBijection(1..Len(list), Listed(list))
    BY <1>3 DEF ExistsBijection
<1> QED
    BY <1>2, <1>4, FS_Bijection

(***************************************************************************)
(* The list a call works on, with an absent storage entry read as empty.   *)
(***************************************************************************)
LEMMA ReadTokens ==
    ASSUME AllowInv
    PROVE  /\ read_allowed_tokens \in Seq(Tokens)
           /\ DOMAIN read_allowed_tokens = 1..Len(read_allowed_tokens)
           /\ Len(read_allowed_tokens) \in Nat
           /\ NoRepeats(read_allowed_tokens)
<1>1. read_allowed_tokens \in Seq(Tokens)
    BY DEF AllowInv, read_allowed_tokens
<1> QED
    BY <1>1 DEF AllowInv

(***************************************************************************)
(* What a call that changes the list does to it: t goes to the end of a    *)
(* list without it, or is left out of a list with it.                      *)
(***************************************************************************)
LEMMA AddedFacts ==
    ASSUME NEW old \in Seq(Tokens), NEW t \in Tokens, t \notin Listed(old), NoRepeats(old)
    PROVE  /\ Append(old, t) \in Seq(Tokens)
           /\ NoRepeats(Append(old, t))
           /\ Listed(Append(old, t)) = Listed(old) \union {t}
           /\ Only(Append(old, t), Tokens \ {t}) = Only(old, Tokens \ {t})
<1> DEFINE new == Append(old, t)
<1>1. /\ new \in Seq(Tokens) /\ Len(old) \in Nat /\ Len(new) = Len(old) + 1
      /\ DOMAIN new = 1..(Len(old) + 1) /\ DOMAIN old = 1..Len(old)
      /\ new[Len(old) + 1] = t /\ \A i \in 1..Len(old) : new[i] = old[i]
    OBVIOUS
<1>2. \A i \in 1..Len(old) : old[i] # t
    BY <1>1 DEF Listed
<1> HIDE DEF new
<1>3. NoRepeats(new)
    BY <1>1, <1>2 DEF NoRepeats
<1>4. Listed(new) = Listed(old) \union {t}
  <2>1. Listed(new) \subseteq Listed(old) \union {t}
      BY <1>1 DEF Listed
  <2>2. Listed(old) \subseteq Listed(new)
      BY <1>1 DEF Listed
  <2>3. t \in Listed(new)
      BY <1>1 DEF Listed
  <2> QED BY <2>1, <2>2, <2>3
<1>5. Only(new, Tokens \ {t}) = Only(old, Tokens \ {t})
  <2> DEFINE U == Tokens \ {t}
  <2>1. t \notin U
      OBVIOUS
  <2> HIDE DEF U
  <2>2. OnlyTo(new, U, Len(old) + 1) = OnlyTo(new, U, Len(old))
    <3>1. Len(old) \in Nat /\ new[Len(old) + 1] \notin U
        BY <1>1, <2>1
    <3> QED BY <3>1, OnlyToDef
  <2>3. OnlyTo(new, U, Len(old)) = OnlyTo(old, U, Len(old))
      BY <1>1, OnlyToEq
  <2> QED BY <1>1, <2>2, <2>3 DEF Only, U
<1> QED
    BY <1>1, <1>3, <1>4, <1>5 DEF new

LEMMA RemovedFacts ==
    ASSUME NEW old \in Seq(Tokens), NEW t \in Tokens, NoRepeats(old)
    PROVE  /\ Only(old, Tokens \ {t}) \in Seq(Tokens)
           /\ NoRepeats(Only(old, Tokens \ {t}))
           /\ Listed(Only(old, Tokens \ {t})) = Listed(old) \ {t}
           /\ Only(Only(old, Tokens \ {t}), Tokens \ {t}) = Only(old, Tokens \ {t})
           /\ Len(Only(old, Tokens \ {t})) < Len(old) <=> t \in Listed(old)
<1> DEFINE U == Tokens \ {t}
           new == Only(old, U)
<1>1. /\ new \in Seq(Tokens \intersect U)
      /\ \A k \in 1..Len(old) : old[k] \in U => \E i \in 1..Len(new) : new[i] = old[k]
      /\ \A i \in 1..Len(new) : \E k \in 1..Len(old) : new[i] = old[k]
      /\ (\A k, l \in 1..Len(old) : old[k] = old[l] => k = l) =>
            \A i, j \in 1..Len(new) : new[i] = new[j] => i = j
      /\ Len(new) <= Len(old)
      /\ (\E k \in 1..Len(old) : old[k] \notin U) => Len(new) < Len(old)
    BY OnlyFacts
<1>2. Tokens \intersect U = U
    OBVIOUS
<1>3. U \subseteq Tokens /\ \A u \in Tokens : u \in U <=> u # t
    OBVIOUS
<1>4. Only(new, U) = new
    BY <1>1, <1>2, OnlyAll
<1>5. t \notin Listed(old) => new = old
  <2> SUFFICES ASSUME t \notin Listed(old) PROVE new = old
      OBVIOUS
  <2>1. old \in Seq(U)
    <3>1. \A i \in 1..Len(old) : old[i] \in U
        BY <1>3 DEF Listed
    <3> QED BY <3>1
  <2> QED BY <2>1, OnlyAll
<1> HIDE DEF U, new
<1>6. new \in Seq(U) /\ new \in Seq(Tokens) /\ DOMAIN new = 1..Len(new) /\ DOMAIN old = 1..Len(old)
  <2>1. new \in Seq(U)
      BY <1>1, <1>2
  <2> QED BY <1>3, <2>1
<1>7. NoRepeats(new)
    BY <1>1 DEF NoRepeats
<1>8. Listed(new) = Listed(old) \ {t}
  <2>1. ASSUME NEW u \in Listed(new) PROVE u \in Listed(old) /\ u # t
    <3>1. PICK i \in 1..Len(new) : new[i] = u
        BY <1>6, <2>1 DEF Listed
    <3>2. u \in U
        BY <1>6, <3>1
    <3>3. PICK k \in 1..Len(old) : new[i] = old[k]
        BY <1>1
    <3>4. u \in Listed(old)
        BY <1>6, <3>1, <3>3 DEF Listed
    <3> QED BY <1>3, <3>2, <3>4
  <2>2. ASSUME NEW u \in Listed(old), u # t PROVE u \in Listed(new)
    <3>1. PICK k \in 1..Len(old) : old[k] = u
        BY <1>6 DEF Listed
    <3>2. u \in U
        BY <1>3, <2>2, <3>1
    <3>3. PICK i \in 1..Len(new) : new[i] = u
        BY <1>1, <3>1, <3>2
    <3> QED BY <1>6, <3>3 DEF Listed
  <2> QED BY <2>1, <2>2
<1>9. Len(new) < Len(old) <=> t \in Listed(old)
  <2>1. CASE t \in Listed(old)
    <3>1. PICK k \in 1..Len(old) : old[k] = t
        BY <1>6, <2>1 DEF Listed
    <3>2. t \notin U
        BY <1>3
    <3> QED BY <1>1, <2>1, <3>1, <3>2
  <2>2. CASE t \notin Listed(old)
      BY <1>5, <2>2
  <2> QED BY <2>1, <2>2
<1> QED
    BY <1>4, <1>6, <1>7, <1>8, <1>9 DEF U, new

LEMMA AllowInvInit == AllowInit => AllowInv
    BY DEF AllowInit, AllowInv, read_allowed_tokens, NoRepeats

(***************************************************************************)
(* One step: the list stays, or one token is added to or taken off it.     *)
(***************************************************************************)
LEMMA AllowStep ==
    ASSUME AllowInv, AllowNext
    PROVE  \/ tokens' = tokens /\ answer' # TRUE
           \/ /\ answer' = TRUE
              /\ \E t \in Tokens :
                    \/ t \notin Listed(read_allowed_tokens) /\ tokens' = Append(read_allowed_tokens, t)
                    \/ /\ t \in Listed(read_allowed_tokens)
                       /\ tokens' = Only(read_allowed_tokens, Tokens \ {t})
<1>1. PICK t \in Tokens : add_to_allowlist(t) \/ remove_from_allowlist(t) \/ create(t)
    BY DEF AllowNext
<1>2. CASE add_to_allowlist(t)
    BY <1>2 DEF add_to_allowlist
<1>3. CASE remove_from_allowlist(t)
  <2>1. Len(Only(read_allowed_tokens, Tokens \ {t})) < Len(read_allowed_tokens)
          <=> t \in Listed(read_allowed_tokens)
      BY ReadTokens, RemovedFacts
  <2> QED BY <1>3, <2>1 DEF remove_from_allowlist
<1>4. CASE create(t)
    BY <1>4, AllowAssumption DEF create
<1> QED
    BY <1>1, <1>2, <1>3, <1>4

LEMMA ReadNext ==
    /\ tokens' = tokens => read_allowed_tokens' = read_allowed_tokens
    /\ tokens' \in Seq(Tokens) => read_allowed_tokens' = tokens'
    BY AllowAssumption DEF read_allowed_tokens

LEMMA AllowInvNext == AllowInv /\ [AllowNext]_allow_vars => AllowInv'
<1> SUFFICES ASSUME AllowInv, [AllowNext]_allow_vars PROVE AllowInv'
    OBVIOUS
<1> DEFINE old == read_allowed_tokens
<1>1. old \in Seq(Tokens) /\ NoRepeats(old)
    BY ReadTokens
<1>2. CASE tokens' = tokens
    BY <1>2 DEF AllowInv, read_allowed_tokens
<1>3. CASE tokens' \in Seq(Tokens) /\ NoRepeats(tokens')
    BY <1>3, ReadNext DEF AllowInv
<1>4. CASE UNCHANGED allow_vars
    BY <1>2, <1>4 DEF allow_vars
<1>5. CASE AllowNext
  <2>1. \/ tokens' = tokens
        \/ \E t \in Tokens : \/ t \notin Listed(old) /\ tokens' = Append(old, t)
                             \/ t \in Listed(old) /\ tokens' = Only(old, Tokens \ {t})
      BY <1>5, AllowStep
  <2>2. ASSUME NEW t \in Tokens, t \notin Listed(old), tokens' = Append(old, t) PROVE AllowInv'
      BY <1>1, <1>3, <2>2, AddedFacts
  <2>3. ASSUME NEW t \in Tokens, t \in Listed(old), tokens' = Only(old, Tokens \ {t}) PROVE AllowInv'
      BY <1>1, <1>3, <2>3, RemovedFacts
  <2> HIDE DEF old
  <2> QED BY <1>2, <2>1, <2>2, <2>3
<1> QED
    BY <1>4, <1>5

(***************************************************************************)
(* No token is ever listed twice, so one remove_from_allowlist is enough   *)
(* to take a token off the list.                                           *)
(***************************************************************************)
THEOREM AlwaysListedOnce == AllowSpec => []ListedOnce
<1>1. AllowInv => ListedOnce
    BY ReadTokens, NoRepeatsCount DEF ListedOnce
<1> QED
    BY <1>1, AllowInvInit, AllowInvNext, PTL DEF AllowSpec

(***************************************************************************)
(* The answers of add_to_allowlist and remove_from_allowlist tell whether  *)
(* the list changed, by one token and in no one else's place; create never *)
(* changes it.                                                             *)
(***************************************************************************)
THEOREM AlwaysOneAtATime == AllowSpec => OneAtATime
<1> DEFINE old == read_allowed_tokens
           Step == IF answer' = TRUE
                   THEN \E t \in Tokens :
                           /\ t \in Listed(old) <=> t \notin Listed(old')
                           /\ Only(old, Tokens \ {t}) = Only(old', Tokens \ {t})
                           /\ \A u \in Tokens \ {t} :
                                 Accepts(u)' # Accepts(u) => old = << >> \/ old' = << >>
                   ELSE old' = old
<1>1. ASSUME AllowInv, AllowNext PROVE Step
  <2>1. old \in Seq(Tokens) /\ NoRepeats(old)
      BY <1>1, ReadTokens
  <2>2. ASSUME NEW t \in Tokens, answer' = TRUE,
               t \in Listed(old) <=> t \notin Listed(old'),
               Only(old, Tokens \ {t}) = Only(old', Tokens \ {t}),
               Listed(old) \ {t} = Listed(old') \ {t}
        PROVE  Step
    <3>1. ASSUME NEW u \in Tokens \ {t}, old # << >>, old' # << >>
          PROVE  Accepts(u)' = Accepts(u)
      <4>1. Accepts(u) = (u \in Listed(old)) /\ Accepts(u)' = (u \in Listed(old'))
          BY <3>1 DEF Accepts
      <4> HIDE DEF old
      <4> QED BY <2>2, <4>1
    <3> QED BY <2>2, <3>1
  <2>3. ASSUME tokens' = tokens, answer' # TRUE PROVE Step
      BY <2>3, ReadNext
  <2>4. ASSUME NEW t \in Tokens, answer' = TRUE, t \notin Listed(old), tokens' = Append(old, t)
        PROVE  Step
    <3>1. /\ old' = Append(old, t)
          /\ Listed(old') = Listed(old) \union {t}
          /\ Only(old', Tokens \ {t}) = Only(old, Tokens \ {t})
        BY <2>1, <2>4, AddedFacts, ReadNext
    <3>2. t \in Listed(old') /\ Listed(old) \ {t} = Listed(old') \ {t}
        BY <3>1
    <3> HIDE DEF old, Step
    <3> QED BY <2>2, <2>4, <3>1, <3>2
  <2>5. ASSUME NEW t \in Tokens, answer' = TRUE, t \in Listed(old),
               tokens' = Only(old, Tokens \ {t})
        PROVE  Step
    <3>1. /\ old' = Only(old, Tokens \ {t})
          /\ Listed(old') = Listed(old) \ {t}
          /\ Only(old', Tokens \ {t}) = Only(old, Tokens \ {t})
        BY <2>1, <2>5, RemovedFacts, ReadNext
    <3>2. t \notin Listed(old') /\ Listed(old) \ {t} = Listed(old') \ {t}
        BY <3>1
    <3> HIDE DEF old, Step
    <3> QED BY <2>2, <2>5, <3>1, <3>2
  <2>6. \/ tokens' = tokens /\ answer' # TRUE
        \/ /\ answer' = TRUE
           /\ \E t \in Tokens : \/ t \notin Listed(old) /\ tokens' = Append(old, t)
                                \/ t \in Listed(old) /\ tokens' = Only(old, Tokens \ {t})
      BY <1>1, AllowStep
  <2> HIDE DEF old, Step
  <2> QED BY <2>3, <2>4, <2>5, <2>6
<1>2. AllowInv /\ [AllowNext]_allow_vars => [Step]_allow_vars
    BY <1>1
<1>3. AllowSpec => [][Step]_allow_vars
    BY <1>2, AllowInvInit, AllowInvNext, PTL DEF AllowSpec
<1> QED
    BY <1>3 DEF OneAtATime

=============================================================================
