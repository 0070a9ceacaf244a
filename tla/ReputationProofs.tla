-------------------------- MODULE ReputationProofs --------------------------
(***************************************************************************)
(* Theorems about Reputation, for every value of its constants.            *)
(***************************************************************************)
EXTENDS Reputation, HelperTheorems, FiniteSetTheorems

\* Every report is counted in the history as a natural of its kind.
ReportsTyped ==
    reports \in [Callers -> [Accounts -> [completed : Nat, cancelled : Nat]]]

ReputationInv == ReputationTypeOK /\ ReportsTyped

(***************************************************************************)
(* The counters of an address, stored or not, are u32.                     *)
(***************************************************************************)
LEMMA LoadedStats ==
    ASSUME ReputationTypeOK, NEW a \in Accounts
    PROVE  load_stats(a) \in ReputationStats
    BY ReputationAssumption DEF ReputationTypeOK, load_stats, ReputationStats

(***************************************************************************)
(* Saving the counters of one address leaves those of the others alone.    *)
(***************************************************************************)
LEMMA SavedStats ==
    ASSUME ReputationTypeOK, NEW a \in Accounts, NEW s \in ReputationStats, save_stats(a, s)
    PROVE  /\ DOMAIN stats' \subseteq Accounts
           /\ \A k \in DOMAIN stats' : stats'[k] \in ReputationStats
           /\ stats'[a] = s /\ \A k \in DOMAIN stats \ {a} : stats'[k] = stats[k]
    BY DEF ReputationTypeOK, save_stats

(***************************************************************************)
(* A report by c leaves the history of unregistered callers empty when c   *)
(* is registered.                                                          *)
(***************************************************************************)
LEMMA ReportKeeps ==
    ASSUME ReputationInv, NEW c \in callers, NEW a \in Accounts,
           record_completion(c, a) \/ record_cancellation(c, a)
    PROVE  ReputationInv'
<1>1. c \in Callers /\ admin' = admin /\ callers' = callers
    BY DEF record_completion, record_cancellation, ReputationInv, ReputationTypeOK
<1>2. load_stats(a) \in ReputationStats
    BY LoadedStats DEF ReputationInv
<1>3. \E s \in ReputationStats : save_stats(a, s)
  <2>1. CASE record_completion(c, a)
    <3>1. load_stats(a).completed < U32Max /\ load_stats(a).completed + 1 \in 0..U32Max
        BY <1>2, <2>1, ReputationAssumption DEF record_completion, ReputationStats
    <3>2. [load_stats(a) EXCEPT !.completed = @ + 1] \in ReputationStats
        BY <1>2, <3>1 DEF ReputationStats
    <3> QED BY <2>1, <3>2 DEF record_completion
  <2>2. CASE record_cancellation(c, a)
    <3>1. load_stats(a).cancelled < U32Max /\ load_stats(a).cancelled + 1 \in 0..U32Max
        BY <1>2, <2>2, ReputationAssumption DEF record_cancellation, ReputationStats
    <3>2. [load_stats(a) EXCEPT !.cancelled = @ + 1] \in ReputationStats
        BY <1>2, <3>1 DEF ReputationStats
    <3> QED BY <2>2, <3>2 DEF record_cancellation
  <2> QED BY <2>1, <2>2
<1>4. DOMAIN stats' \subseteq Accounts /\ \A k \in DOMAIN stats' : stats'[k] \in ReputationStats
    BY <1>3, SavedStats DEF ReputationInv
<1>5. /\ reports' \in [Callers -> [Accounts -> [completed : Nat, cancelled : Nat]]]
      /\ \A d \in Callers \ {c} : reports'[d] = reports[d]
  <2> DEFINE q == reports[c][a]
  <2>1. q \in [completed : Nat, cancelled : Nat]
      BY <1>1 DEF ReputationInv, ReportsTyped
  <2>2. PICK r \in [completed : Nat, cancelled : Nat] :
           reports' = [reports EXCEPT ![c] = [reports[c] EXCEPT ![a] = r]]
    <3>1. CASE record_completion(c, a)
      <4>1. reports' = [reports EXCEPT ![c] = [reports[c] EXCEPT ![a] = [q EXCEPT !.completed = q.completed + 1]]]
          BY <3>1 DEF record_completion
      <4>2. [q EXCEPT !.completed = q.completed + 1] \in [completed : Nat, cancelled : Nat]
          BY <2>1
      <4> QED BY <4>1, <4>2
    <3>2. CASE record_cancellation(c, a)
      <4>1. reports' = [reports EXCEPT ![c] = [reports[c] EXCEPT ![a] = [q EXCEPT !.cancelled = q.cancelled + 1]]]
          BY <3>2 DEF record_cancellation
      <4>2. [q EXCEPT !.cancelled = q.cancelled + 1] \in [completed : Nat, cancelled : Nat]
          BY <2>1
      <4> QED BY <4>1, <4>2
    <3> QED BY <3>1, <3>2
  <2> HIDE DEF q
  <2> QED BY <1>1, <2>2 DEF ReputationInv, ReportsTyped
<1>6. \A d \in Callers \ callers', b \in Accounts :
         reports'[d][b].completed = 0 /\ reports'[d][b].cancelled = 0
    BY <1>1, <1>5 DEF ReputationInv, ReputationTypeOK
<1> QED
    BY <1>1, <1>4, <1>5, <1>6 DEF ReputationInv, ReputationTypeOK, ReportsTyped

(***************************************************************************)
(* The invariant of every reachable state.                                 *)
(***************************************************************************)
LEMMA ReputationInvAlways == Spec => []ReputationInv
<1>1. Init => ReputationInv
    BY DEF Init, ReputationInv, ReputationTypeOK, ReportsTyped
<1>2. ReputationInv /\ [Next]_vars => ReputationInv'
  <2> SUFFICES ASSUME ReputationInv, [Next]_vars PROVE ReputationInv'
      OBVIOUS
  <2>1. ASSUME NEW a \in Accounts, init(a) PROVE ReputationInv'
      BY <2>1 DEF init, ReputationInv, ReputationTypeOK, ReportsTyped
  <2>2. ASSUME NEW c \in Callers, register_caller(c) PROVE ReputationInv'
      BY <2>2 DEF register_caller, ReputationInv, ReputationTypeOK, ReportsTyped
  <2>3. ASSUME NEW c \in Callers, NEW a \in Accounts,
               record_completion(c, a) \/ record_cancellation(c, a)
        PROVE  ReputationInv'
    <3>1. c \in callers
        BY <2>3 DEF record_completion, record_cancellation
    <3> QED BY <2>3, <3>1, ReportKeeps
  <2>4. CASE UNCHANGED vars
      BY <2>4 DEF vars, ReputationInv, ReputationTypeOK, ReportsTyped
  <2> QED
      BY <2>1, <2>2, <2>3, <2>4 DEF Next
<1> QED
    BY <1>1, <1>2, PTL DEF Spec

(***************************************************************************)
(* Type correctness of the reputation contract, and that nobody reports    *)
(* who was not registered before: however many callers and addresses there *)
(* are, an unregistered caller never gets a report counted.                *)
(***************************************************************************)
THEOREM ReputationTypeCorrect == Spec => []ReputationTypeOK
<1>1. ReputationInv => ReputationTypeOK
    BY DEF ReputationInv
<1> QED
    BY <1>1, ReputationInvAlways, PTL

-----------------------------------------------------------------------------
(* The score *)

(***************************************************************************)
(* Every caller has exactly one place in the order of summation.           *)
(***************************************************************************)
LEMMA CallerOrder ==
    /\ Len(CallerSeq) \in Nat
    /\ \A i \in 1..Len(CallerSeq) : CallerSeq[i] \in Callers
    /\ \A i, j \in 1..Len(CallerSeq) : CallerSeq[i] = CallerSeq[j] => i = j
    /\ \A c \in Callers : \E i \in 1..Len(CallerSeq) : CallerSeq[i] = c
<1> DEFINE n == Cardinality(Callers)
<1>1. IsFiniteSet(Callers)
    BY ReputationAssumption
<1>2. n \in Nat /\ ExistsBijection(1..n, Callers)
    BY <1>1, FS_CardinalityType
<1>3. \E f \in [1..n -> Callers] : IsInjective(f)
    BY <1>2 DEF ExistsBijection, Bijection, Injection
<1>4. CallerSeq \in [1..n -> Callers] /\ IsInjective(CallerSeq)
    BY <1>3 DEF CallerSeq, SetToSeq
<1>5. IsFiniteSet(1..n) /\ Cardinality(1..n) = n
    BY <1>2, FS_Interval
<1>6. CallerSeq \in Injection(1..n, Callers)
    BY <1>4 DEF Injection
<1>7. CallerSeq \in Surjection(1..n, Callers)
    BY <1>1, <1>5, <1>6, FS_Injection
<1>8. Len(CallerSeq) = n
  <2> HIDE DEF n
  <2> QED BY <1>2, <1>4
<1> HIDE DEF n
<1> QED
    BY <1>2, <1>4, <1>7, <1>8 DEF IsInjective, Surjection

\* The sum of f over all callers.
CallerSum(f) == SumTo([i \in 1..Len(CallerSeq) |-> f[CallerSeq[i]]], Len(CallerSeq))

(***************************************************************************)
(* Sums over the callers are integers, zero for zeros, and change by what  *)
(* one caller's value changes, wherever that caller comes in the order.    *)
(***************************************************************************)
LEMMA CallerSums ==
    ASSUME NEW f \in [Callers -> Int], NEW g \in [Callers -> Int]
    PROVE  /\ CallerSum(f) \in Int
           /\ (\A c \in Callers : f[c] = 0) => CallerSum(f) = 0
           /\ \A c \in Callers : (\A d \in Callers \ {c} : g[d] = f[d])
                 => CallerSum(g) = CallerSum(f) + (g[c] - f[c])
<1> DEFINE n == Len(CallerSeq)
           F == [i \in 1..n |-> f[CallerSeq[i]]]
           G == [i \in 1..n |-> g[CallerSeq[i]]]
<1>1. /\ n \in Nat /\ \A i \in 1..n : CallerSeq[i] \in Callers
      /\ \A i, j \in 1..n : CallerSeq[i] = CallerSeq[j] => i = j
      /\ \A c \in Callers : \E i \in 1..n : CallerSeq[i] = c
    BY CallerOrder
<1> HIDE DEF n
<1>2. \A i \in 1..n : F[i] = f[CallerSeq[i]] /\ G[i] = g[CallerSeq[i]]
                      /\ F[i] \in Int /\ G[i] \in Int
    BY <1>1
<1>3. CallerSum(f) = SumTo(F, n) /\ CallerSum(g) = SumTo(G, n)
    BY DEF CallerSum, n
<1> HIDE DEF F, G
<1>4. CallerSum(f) \in Int
    BY <1>1, <1>2, <1>3, SumToInt
<1>5. (\A c \in Callers : f[c] = 0) => CallerSum(f) = 0
    BY <1>1, <1>2, <1>3, SumToZero
<1>6. ASSUME NEW c \in Callers, \A d \in Callers \ {c} : g[d] = f[d]
      PROVE  CallerSum(g) = CallerSum(f) + (g[c] - f[c])
  <2>1. PICK i \in 1..n : CallerSeq[i] = c
      BY <1>1
  <2>2. \A k \in 1..n : k # i => G[k] = F[k]
      BY <1>1, <1>2, <1>6, <2>1
  <2>3. SumTo(G, n) = SumTo(F, n) + (G[i] - F[i])
      BY <1>1, <1>2, <2>2, SumToUpdate
  <2> QED BY <1>2, <1>3, <2>1, <2>3
<1> QED BY <1>4, <1>5, <1>6

\* The reports about an address by kind, as functions of the caller.
Completed(a) == [c \in Callers |-> reports[c][a].completed]
Cancelled(a) == [c \in Callers |-> reports[c][a].cancelled]

(***************************************************************************)
(* The history's totals are such sums, before a step and after it.         *)
(***************************************************************************)
LEMMA Totals ==
    ASSUME NEW a \in Accounts
    PROVE  /\ ReportsTyped =>
                 /\ Completed(a) \in [Callers -> Int] /\ Cancelled(a) \in [Callers -> Int]
                 /\ Completions(a) = CallerSum(Completed(a))
                 /\ Cancellations(a) = CallerSum(Cancelled(a))
           /\ ReportsTyped' =>
                 /\ Completed(a)' \in [Callers -> Int] /\ Cancelled(a)' \in [Callers -> Int]
                 /\ Completions(a)' = CallerSum(Completed(a)')
                 /\ Cancellations(a)' = CallerSum(Cancelled(a)')
<1>1. /\ ReportsTyped => /\ Completed(a) \in [Callers -> Int]
                         /\ Cancelled(a) \in [Callers -> Int]
      /\ ReportsTyped' => /\ Completed(a)' \in [Callers -> Int]
                          /\ Cancelled(a)' \in [Callers -> Int]
    BY DEF ReportsTyped, Completed, Cancelled
<1>2. \A i \in 1..Len(CallerSeq) :
         /\ reports[CallerSeq[i]][a].completed = Completed(a)[CallerSeq[i]]
         /\ reports[CallerSeq[i]][a].cancelled = Cancelled(a)[CallerSeq[i]]
         /\ reports'[CallerSeq[i]][a].completed = Completed(a)'[CallerSeq[i]]
         /\ reports'[CallerSeq[i]][a].cancelled = Cancelled(a)'[CallerSeq[i]]
    BY CallerOrder DEF Completed, Cancelled
<1>3. /\ Completions(a) = CallerSum(Completed(a))
      /\ Cancellations(a) = CallerSum(Cancelled(a))
    BY <1>2 DEF Completions, Cancellations, CallerSum
<1>4. CallerSeq' = CallerSeq
    BY DEF CallerSeq
<1>5. /\ Completions(a)' = CallerSum(Completed(a)')
      /\ Cancellations(a)' = CallerSum(Cancelled(a)')
    BY <1>2, <1>4 DEF Completions, Cancellations, CallerSum
<1> QED
    BY <1>1, <1>3, <1>5

\* The counters in storage are the sums of all reports.
CountsExact ==
    \A a \in Accounts : /\ load_stats(a).completed = Completions(a)
                        /\ load_stats(a).cancelled = Cancellations(a)

(***************************************************************************)
(* A report that is counted once in storage and once in the history keeps  *)
(* the two equal.                                                          *)
(***************************************************************************)
LEMMA CountsMove ==
    ASSUME ReputationInv, ReputationInv', CountsExact,
           NEW c \in Callers, NEW a \in Accounts, NEW x \in Nat, NEW y \in Nat,
           \A d \in Callers, b \in Accounts :
              /\ reports'[d][b].completed
                    = reports[d][b].completed + IF d = c /\ b = a THEN x ELSE 0
              /\ reports'[d][b].cancelled
                    = reports[d][b].cancelled + IF d = c /\ b = a THEN y ELSE 0,
           \A b \in Accounts :
              /\ load_stats(b)'.completed = load_stats(b).completed + IF b = a THEN x ELSE 0
              /\ load_stats(b)'.cancelled = load_stats(b).cancelled + IF b = a THEN y ELSE 0
    PROVE  CountsExact'
<1> SUFFICES ASSUME NEW b \in Accounts
             PROVE  /\ load_stats(b)'.completed = Completions(b)'
                    /\ load_stats(b)'.cancelled = Cancellations(b)'
    BY DEF CountsExact
<1>1. /\ Completed(b) \in [Callers -> Int] /\ Cancelled(b) \in [Callers -> Int]
      /\ Completions(b) = CallerSum(Completed(b))
      /\ Cancellations(b) = CallerSum(Cancelled(b))
      /\ Completed(b)' \in [Callers -> Int] /\ Cancelled(b)' \in [Callers -> Int]
      /\ Completions(b)' = CallerSum(Completed(b)')
      /\ Cancellations(b)' = CallerSum(Cancelled(b)')
    BY Totals DEF ReputationInv
<1>2. \A d \in Callers :
         /\ Completed(b)'[d] = Completed(b)[d] + IF d = c /\ b = a THEN x ELSE 0
         /\ Cancelled(b)'[d] = Cancelled(b)[d] + IF d = c /\ b = a THEN y ELSE 0
    BY DEF Completed, Cancelled
<1>3. /\ CallerSum(Completed(b)) \in Int /\ CallerSum(Cancelled(b)) \in Int
      /\ CallerSum(Completed(b)') = CallerSum(Completed(b)) + IF b = a THEN x ELSE 0
      /\ CallerSum(Cancelled(b)') = CallerSum(Cancelled(b)) + IF b = a THEN y ELSE 0
  <2>1. ASSUME NEW f \in [Callers -> Int], NEW g \in [Callers -> Int], NEW z \in Nat,
               \A d \in Callers : g[d] = f[d] + IF d = c /\ b = a THEN z ELSE 0
        PROVE  CallerSum(f) \in Int /\ CallerSum(g) = CallerSum(f) + IF b = a THEN z ELSE 0
    <3>1. /\ \A d \in Callers \ {c} : g[d] = f[d]
          /\ g[c] - f[c] = IF b = a THEN z ELSE 0
        BY <2>1
    <3> QED BY <2>1, <3>1, CallerSums
  <2>2. /\ CallerSum(Completed(b)) \in Int
        /\ CallerSum(Completed(b)') = CallerSum(Completed(b)) + IF b = a THEN x ELSE 0
      BY <1>1, <1>2, <2>1
  <2>3. /\ CallerSum(Cancelled(b)) \in Int
        /\ CallerSum(Cancelled(b)') = CallerSum(Cancelled(b)) + IF b = a THEN y ELSE 0
      BY <1>1, <1>2, <2>1
  <2> QED BY <2>2, <2>3
<1> QED
    BY <1>1, <1>3 DEF CountsExact

(***************************************************************************)
(* Every step counts in storage exactly what the history records.          *)
(***************************************************************************)
LEMMA CountsStep ==
    ASSUME ReputationInv, ReputationInv', CountsExact, [Next]_vars
    PROVE  CountsExact'
<1>1. \A d \in Callers, b \in Accounts :
         /\ reports[d][b] \in [completed : Nat, cancelled : Nat]
         /\ load_stats(b) \in ReputationStats
    BY LoadedStats DEF ReputationInv, ReportsTyped
<1>2. ASSUME NEW c \in Callers, NEW a \in Accounts, record_completion(c, a)
      PROVE  CountsExact'
  <2>1. /\ load_stats(a)' = [load_stats(a) EXCEPT !.completed = @ + 1]
        /\ \A b \in Accounts \ {a} : load_stats(b)' = load_stats(b)
      BY <1>2 DEF record_completion, save_stats, load_stats
  <2>2. \A d \in Callers, b \in Accounts :
           reports'[d][b] = IF d = c /\ b = a
                            THEN [reports[c][a] EXCEPT !.completed = @ + 1] ELSE reports[d][b]
      BY <1>2 DEF record_completion, ReputationInv, ReportsTyped
  <2>3. \A d \in Callers, b \in Accounts :
           /\ reports'[d][b].completed
                 = reports[d][b].completed + IF d = c /\ b = a THEN 1 ELSE 0
           /\ reports'[d][b].cancelled
                 = reports[d][b].cancelled + IF d = c /\ b = a THEN 0 ELSE 0
      BY <1>1, <2>2
  <2>4. \A b \in Accounts :
           /\ load_stats(b)'.completed = load_stats(b).completed + IF b = a THEN 1 ELSE 0
           /\ load_stats(b)'.cancelled = load_stats(b).cancelled + IF b = a THEN 0 ELSE 0
      BY <1>1, <2>1, ReputationAssumption DEF ReputationStats
  <2> QED BY <2>3, <2>4, CountsMove
<1>3. ASSUME NEW c \in Callers, NEW a \in Accounts, record_cancellation(c, a)
      PROVE  CountsExact'
  <2>1. /\ load_stats(a)' = [load_stats(a) EXCEPT !.cancelled = @ + 1]
        /\ \A b \in Accounts \ {a} : load_stats(b)' = load_stats(b)
      BY <1>3 DEF record_cancellation, save_stats, load_stats
  <2>2. \A d \in Callers, b \in Accounts :
           reports'[d][b] = IF d = c /\ b = a
                            THEN [reports[c][a] EXCEPT !.cancelled = @ + 1] ELSE reports[d][b]
      BY <1>3 DEF record_cancellation, ReputationInv, ReportsTyped
  <2>3. \A d \in Callers, b \in Accounts :
           /\ reports'[d][b].completed
                 = reports[d][b].completed + IF d = c /\ b = a THEN 0 ELSE 0
           /\ reports'[d][b].cancelled
                 = reports[d][b].cancelled + IF d = c /\ b = a THEN 1 ELSE 0
      BY <1>1, <2>2
  <2>4. \A b \in Accounts :
           /\ load_stats(b)'.completed = load_stats(b).completed + IF b = a THEN 0 ELSE 0
           /\ load_stats(b)'.cancelled = load_stats(b).cancelled + IF b = a THEN 1 ELSE 0
      BY <1>1, <2>1, ReputationAssumption DEF ReputationStats
  <2> QED BY <2>3, <2>4, CountsMove
<1>4. ASSUME stats' = stats, reports' = reports PROVE CountsExact'
    BY <1>4 DEF CountsExact, load_stats, Completions, Cancellations
<1>5. CASE \/ \E a \in Accounts : init(a)
           \/ \E c \in Callers : register_caller(c)
           \/ UNCHANGED vars
    BY <1>4, <1>5 DEF init, register_caller, vars
<1> QED
    BY <1>2, <1>3, <1>5 DEF Next

(***************************************************************************)
(* Whenever get_reputation answers, the score is ten per completion minus  *)
(* five per cancellation, at least zero, over everything all callers ever  *)
(* reported about the address: for any finite set of callers, in any order *)
(* of reports, and no product or difference wraps around.                  *)
(***************************************************************************)
THEOREM ScoreAlwaysEarned == Spec => []ScoreEarned
<1>1. Init => CountsExact
  <2> SUFFICES ASSUME Init, NEW a \in Accounts
               PROVE  load_stats(a) = [completed |-> 0, cancelled |-> 0]
                      /\ Completions(a) = 0 /\ Cancellations(a) = 0
      BY DEF CountsExact
  <2>1. ReportsTyped
      BY DEF Init, ReportsTyped
  <2>2. \A c \in Callers : Completed(a)[c] = 0 /\ Cancelled(a)[c] = 0
      BY DEF Init, Completed, Cancelled
  <2>3. Completions(a) = 0 /\ Cancellations(a) = 0
      BY <2>1, <2>2, Totals, CallerSums
  <2>4. load_stats(a) = [completed |-> 0, cancelled |-> 0]
      BY DEF Init, load_stats
  <2> QED BY <2>3, <2>4
<1>2. ReputationInv /\ CountsExact => ScoreEarned
  <2> SUFFICES ASSUME ReputationInv, CountsExact, NEW a \in Accounts, ~ ScorePanics(a)
               PROVE  get_reputation(a) = Max({0, 10 * Completions(a) - 5 * Cancellations(a)})
      BY DEF ScoreEarned
  <2> DEFINE s == load_stats(a)
  <2>1. /\ s.completed \in Nat /\ s.cancelled \in Nat
        /\ Completions(a) = s.completed /\ Cancellations(a) = s.cancelled
      BY LoadedStats, ReputationAssumption DEF ReputationInv, CountsExact, ReputationStats
  <2>2. s.completed * 10 <= U32Max /\ s.cancelled * 5 <= U32Max
      BY <2>1, ReputationAssumption DEF ScorePanics
  <2>3. \A k \in 0..U32Max : k % (U32Max + 1) = k
      BY ReputationAssumption
  <2>4. /\ (s.completed * 10) % (U32Max + 1) = s.completed * 10
        /\ (s.cancelled * 5) % (U32Max + 1) = s.cancelled * 5
      BY <2>1, <2>2, <2>3
  <2>5. \A k \in Int : Max({0, k}) = IF k > 0 THEN k ELSE 0
      BY DEF Max
  <2>6. get_reputation(a) = IF s.completed * 10 > s.cancelled * 5
                            THEN s.completed * 10 - s.cancelled * 5 ELSE 0
      BY <2>4 DEF get_reputation
  <2> HIDE DEF s
  <2> QED BY <2>1, <2>5, <2>6
<1>3. Spec => []ReputationInv
    BY ReputationInvAlways
<1> QED
    BY <1>1, <1>2, <1>3, CountsStep, PTL DEF Spec

=============================================================================
