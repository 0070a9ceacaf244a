--------------------------- MODULE HelperTheorems ---------------------------
(***************************************************************************)
(* What the shared operators compute: the sums of Sums for every n, the    *)
(* selections of Lists for every list, and what a token transfer does to   *)
(* balances for every set of holders.  Induction over the naturals is used *)
(* in its set form (a set that contains 0 and is closed under successor    *)
(* contains Nat), derived here from the well-foundedness of <.             *)
(***************************************************************************)
EXTENDS Sums, Lists, Token, TLAPS, WellFoundedInduction

(***************************************************************************)
(* Induction over Nat: a set with 0, closed under successor, contains all  *)
(* naturals.  The loops over milestones and escrow ids rest on it.         *)
(***************************************************************************)
LEMMA SetInduction ==
    ASSUME NEW S, 0 \in S, \A n \in Nat : n \in S => n + 1 \in S
    PROVE  Nat \subseteq S
<1> DEFINE T == Nat \ S
           R == {ss \in Nat \X Nat : ss[1] < ss[2]}
<1> SUFFICES ASSUME T # {} PROVE FALSE
    OBVIOUS
<1>1. IsWellFoundedOn(R, Nat)
    BY NatLessThanWellFounded DEF OpToRel
<1>2. T \subseteq Nat
    OBVIOUS
<1>3. PICK x \in T : \A y \in T : ~(<<y, x>> \in R)
  <2> HIDE DEF R, T
  <2> QED BY <1>1, <1>2, WFMin
<1>4. x \in Nat /\ x # 0
    OBVIOUS
<1>5. x - 1 \in Nat /\ x - 1 < x
    BY <1>4
<1>6. <<x - 1, x>> \in R
    BY <1>4, <1>5
<1>7. x - 1 \in S
    BY <1>3, <1>5, <1>6
<1>8. (x - 1) + 1 = x
    BY <1>4
<1> QED
    BY <1>5, <1>7, <1>8

(***************************************************************************)
(* A table of partial sums exists for every function and length.           *)
(***************************************************************************)
LEMMA PrefixSumExists ==
    ASSUME NEW f, NEW n \in Nat
    PROVE  \E s : IsPrefixSum(s, f, n)
<1> DEFINE S == {m \in Nat : \E s : IsPrefixSum(s, f, m)}
<1>1. 0 \in S
  <2>1. IsPrefixSum([k \in 0..0 |-> 0], f, 0)
      BY DEF IsPrefixSum
  <2> QED BY <2>1
<1>2. ASSUME NEW m \in Nat, m \in S
      PROVE  m + 1 \in S
  <2>1. PICK s : IsPrefixSum(s, f, m)
      BY <1>2
  <2> DEFINE t == [k \in 0..(m+1) |-> IF k = m + 1 THEN s[m] + f[m+1] ELSE s[k]]
  <2>2. ASSUME NEW k \in 0..(m+1)
        PROVE  t[k] = IF k = 0 THEN 0 ELSE t[k-1] + f[k]
    <3>1. CASE k = 0
        BY <2>1, <3>1 DEF IsPrefixSum
    <3>2. CASE k = m + 1
        BY <3>2
    <3>3. CASE k # 0 /\ k # m + 1
      <4>1. k \in 0..m /\ k - 1 \in 0..m
          BY <3>3
      <4>2. t[k] = s[k] /\ t[k-1] = s[k-1]
          BY <3>3, <4>1
      <4>3. s[k] = s[k-1] + f[k]
          BY <2>1, <3>3, <4>1 DEF IsPrefixSum
      <4> QED BY <3>3, <4>2, <4>3
    <3> QED BY <3>1, <3>2, <3>3
  <2>3. IsPrefixSum(t, f, m + 1)
      BY <2>2 DEF IsPrefixSum
  <2> HIDE DEF t
  <2> QED BY <2>3
<1> HIDE DEF S
<1>3. Nat \subseteq S
    BY <1>1, <1>2, SetInduction
<1> QED
    BY <1>3 DEF S

(***************************************************************************)
(* Two tables of partial sums of the same function agree wherever both are *)
(* defined, so the table SumTo reads is the one every other lemma uses.    *)
(***************************************************************************)
LEMMA PrefixSumUnique ==
    ASSUME NEW f, NEW m \in Nat, NEW n \in Nat, m <= n, NEW s, NEW t,
           IsPrefixSum(s, f, m), IsPrefixSum(t, f, n)
    PROVE  \A k \in 0..m : s[k] = t[k]
<1> DEFINE S == {k \in Nat : k <= m => s[k] = t[k]}
<1>1. 0 \in S
    BY DEF IsPrefixSum
<1>2. ASSUME NEW k \in Nat, k \in S
      PROVE  k + 1 \in S
  <2> SUFFICES ASSUME k + 1 <= m PROVE s[k+1] = t[k+1]
      OBVIOUS
  <2>1. s[k+1] = s[k] + f[k+1] /\ t[k+1] = t[k] + f[k+1]
      BY DEF IsPrefixSum
  <2> QED BY <1>2, <2>1
<1> HIDE DEF S
<1>3. Nat \subseteq S
    BY <1>1, <1>2, SetInduction
<1> QED
    BY <1>3 DEF S

(***************************************************************************)
(* The recursion equations of SumTo.                                       *)
(***************************************************************************)
THEOREM SumToDef ==
    ASSUME NEW f, NEW n \in Nat
    PROVE  /\ SumTo(f, 0) = 0
           /\ SumTo(f, n + 1) = SumTo(f, n) + f[n+1]
<1> DEFINE P(m) == CHOOSE s : IsPrefixSum(s, f, m)
<1>1. ASSUME NEW m \in Nat
      PROVE  IsPrefixSum(P(m), f, m) /\ SumTo(f, m) = P(m)[m]
  <2>1. IsPrefixSum(P(m), f, m)
      BY PrefixSumExists
  <2>2. SumTo(f, m) = P(m)[m]
      BY DEF SumTo, IsPrefixSum
  <2> QED BY <2>1, <2>2
<1> HIDE DEF P
<1>2. SumTo(f, 0) = 0
    BY <1>1 DEF IsPrefixSum
<1>3. P(n)[n] = P(n+1)[n]
    BY <1>1, PrefixSumUnique
<1>4. P(n+1)[n+1] = P(n+1)[n] + f[n+1]
    BY <1>1 DEF IsPrefixSum
<1> QED
    BY <1>1, <1>2, <1>3, <1>4

(***************************************************************************)
(* A sum of integers is an integer.                                        *)
(***************************************************************************)
LEMMA SumToInt ==
    ASSUME NEW f, NEW n \in Nat, \A k \in 1..n : f[k] \in Int
    PROVE  SumTo(f, n) \in Int
<1> DEFINE S == {m \in Nat : m <= n => SumTo(f, m) \in Int}
<1>1. 0 \in S
    BY SumToDef
<1>2. ASSUME NEW m \in Nat, m \in S
      PROVE  m + 1 \in S
  <2> SUFFICES ASSUME m + 1 <= n PROVE SumTo(f, m + 1) \in Int
      OBVIOUS
  <2>1. SumTo(f, m) \in Int /\ f[m+1] \in Int
      BY <1>2
  <2> QED BY <2>1, SumToDef
<1> HIDE DEF S
<1>3. Nat \subseteq S
    BY <1>1, <1>2, SetInduction
<1> QED
    BY <1>3 DEF S

(***************************************************************************)
(* Sums are monotone in their terms.                                       *)
(***************************************************************************)
LEMMA SumToMono ==
    ASSUME NEW f, NEW g, NEW n \in Nat,
           \A k \in 1..n : f[k] \in Int /\ g[k] \in Int /\ f[k] <= g[k]
    PROVE  SumTo(f, n) <= SumTo(g, n)
<1> DEFINE S == {m \in Nat : m <= n => SumTo(f, m) <= SumTo(g, m)}
<1>1. 0 \in S
    BY SumToDef
<1>2. ASSUME NEW m \in Nat, m \in S
      PROVE  m + 1 \in S
  <2> SUFFICES ASSUME m + 1 <= n PROVE SumTo(f, m + 1) <= SumTo(g, m + 1)
      OBVIOUS
  <2>1. SumTo(f, m) \in Int /\ SumTo(g, m) \in Int
      BY SumToInt
  <2>2. SumTo(f, m) <= SumTo(g, m)
      BY <1>2
  <2>3. f[m+1] \in Int /\ g[m+1] \in Int /\ f[m+1] <= g[m+1]
      OBVIOUS
  <2>4. /\ SumTo(f, m + 1) = SumTo(f, m) + f[m+1]
        /\ SumTo(g, m + 1) = SumTo(g, m) + g[m+1]
      BY SumToDef
  <2> QED BY <2>1, <2>2, <2>3, <2>4
<1> HIDE DEF S
<1>3. Nat \subseteq S
    BY <1>1, <1>2, SetInduction
<1> QED
    BY <1>3 DEF S

(***************************************************************************)
(* Functions that agree on 1..n have the same sum.                         *)
(***************************************************************************)
LEMMA SumToEq ==
    ASSUME NEW f, NEW g, NEW n \in Nat, \A k \in 1..n : f[k] = g[k]
    PROVE  SumTo(f, n) = SumTo(g, n)
<1> DEFINE S == {m \in Nat : m <= n => SumTo(f, m) = SumTo(g, m)}
<1>1. 0 \in S
    BY SumToDef
<1>2. ASSUME NEW m \in Nat, m \in S
      PROVE  m + 1 \in S
  <2> SUFFICES ASSUME m + 1 <= n PROVE SumTo(f, m + 1) = SumTo(g, m + 1)
      OBVIOUS
  <2>1. SumTo(f, m) = SumTo(g, m) /\ f[m+1] = g[m+1]
      BY <1>2
  <2> QED BY <2>1, SumToDef
<1> HIDE DEF S
<1>3. Nat \subseteq S
    BY <1>1, <1>2, SetInduction
<1> QED
    BY <1>3 DEF S

(***************************************************************************)
(* A sum of zeros is zero.                                                 *)
(***************************************************************************)
LEMMA SumToZero ==
    ASSUME NEW f, NEW n \in Nat, \A k \in 1..n : f[k] = 0
    PROVE  SumTo(f, n) = 0
<1> DEFINE S == {m \in Nat : m <= n => SumTo(f, m) = 0}
<1>1. 0 \in S
    BY SumToDef
<1>2. ASSUME NEW m \in Nat, m \in S
      PROVE  m + 1 \in S
  <2> SUFFICES ASSUME m + 1 <= n PROVE SumTo(f, m + 1) = 0
      OBVIOUS
  <2>1. SumTo(f, m) = 0 /\ f[m+1] = 0
      BY <1>2
  <2> QED BY <2>1, SumToDef
<1> HIDE DEF S
<1>3. Nat \subseteq S
    BY <1>1, <1>2, SetInduction
<1> QED
    BY <1>3 DEF S

(***************************************************************************)
(* Changing one term changes the sum by the same difference.               *)
(***************************************************************************)
LEMMA SumToUpdate ==
    ASSUME NEW f, NEW g, NEW n \in Nat, NEW i \in 1..n,
           \A k \in 1..n : f[k] \in Int /\ g[k] \in Int,
           \A k \in 1..n : k # i => g[k] = f[k]
    PROVE  SumTo(g, n) = SumTo(f, n) + (g[i] - f[i])
<1> DEFINE D(m) == IF m < i THEN 0 ELSE g[i] - f[i]
           S == {m \in Nat : m <= n => SumTo(g, m) = SumTo(f, m) + D(m)}
<1>1. 0 \in S
    BY SumToDef
<1>2. ASSUME NEW m \in Nat, m \in S
      PROVE  m + 1 \in S
  <2> SUFFICES ASSUME m + 1 <= n
               PROVE  SumTo(g, m + 1) = SumTo(f, m + 1) + D(m + 1)
      OBVIOUS
  <2>1. SumTo(f, m) \in Int /\ SumTo(g, m) \in Int
      BY SumToInt
  <2>2. SumTo(g, m) = SumTo(f, m) + D(m)
      BY <1>2
  <2>3. /\ f[m+1] \in Int /\ g[m+1] \in Int /\ f[i] \in Int /\ g[i] \in Int
        /\ m + 1 # i => g[m+1] = f[m+1]
      OBVIOUS
  <2>4. /\ SumTo(f, m + 1) = SumTo(f, m) + f[m+1]
        /\ SumTo(g, m + 1) = SumTo(g, m) + g[m+1]
      BY SumToDef
  <2>5. CASE m + 1 = i
      BY <2>1, <2>2, <2>3, <2>4, <2>5
  <2>6. CASE m + 1 # i
      BY <2>1, <2>2, <2>3, <2>4, <2>6
  <2> QED BY <2>5, <2>6
<1> HIDE DEF S
<1>3. n \in S
    BY <1>1, <1>2, SetInduction
<1> QED
    BY <1>3 DEF S

(***************************************************************************)
(* A term of a sum of naturals is at most the sum, which is a natural.     *)
(***************************************************************************)
LEMMA SumToMember ==
    ASSUME NEW f, NEW n \in Nat, \A k \in 1..n : f[k] \in Nat
    PROVE  /\ SumTo(f, n) \in Nat
           /\ \A i \in 1..n : f[i] <= SumTo(f, n)
<1> DEFINE z == [k \in 1..n |-> 0]
<1>1. \A k \in 1..n : z[k] = 0
    OBVIOUS
<1> HIDE DEF z
<1>2. SumTo(z, n) = 0
  <2> DEFINE S == {m \in Nat : m <= n => SumTo(z, m) = 0}
  <2>1. 0 \in S
      BY SumToDef
  <2>2. ASSUME NEW m \in Nat, m \in S PROVE m + 1 \in S
    <3> SUFFICES ASSUME m + 1 <= n PROVE SumTo(z, m + 1) = 0
        OBVIOUS
    <3>1. SumTo(z, m) = 0 /\ z[m+1] = 0
        BY <1>1, <2>2
    <3> QED BY <3>1, SumToDef
  <2> HIDE DEF S
  <2>3. n \in S
      BY <2>1, <2>2, SetInduction
  <2> QED BY <2>3 DEF S
<1>3. SumTo(f, n) \in Int
    BY SumToInt
<1>4. 0 <= SumTo(f, n)
  <2>1. \A k \in 1..n : z[k] \in Int /\ f[k] \in Int /\ z[k] <= f[k]
      BY <1>1
  <2>2. SumTo(z, n) <= SumTo(f, n)
      BY <2>1, SumToMono
  <2> QED BY <1>2, <2>2
<1>5. ASSUME NEW i \in 1..n PROVE f[i] <= SumTo(f, n)
  <2> DEFINE g == [k \in 1..n |-> IF k = i THEN f[i] ELSE 0]
  <2>1. /\ \A k \in 1..n : z[k] \in Int /\ g[k] \in Int
        /\ \A k \in 1..n : k # i => g[k] = z[k]
        /\ \A k \in 1..n : f[k] \in Int /\ g[k] <= f[k]
        /\ g[i] = f[i] /\ z[i] = 0
      BY <1>1
  <2> HIDE DEF g
  <2>2. SumTo(g, n) = SumTo(z, n) + (g[i] - z[i])
      BY <2>1, SumToUpdate
  <2>3. SumTo(g, n) <= SumTo(f, n)
      BY <2>1, SumToMono
  <2>4. f[i] \in Int
      OBVIOUS
  <2> QED BY <1>2, <1>3, <2>1, <2>2, <2>3, <2>4
<1> QED
    BY <1>3, <1>4, <1>5

-----------------------------------------------------------------------------
(* Selections from lists *)

(***************************************************************************)
(* A table of selections exists for every list, set and length.            *)
(***************************************************************************)
LEMMA SelectionExists ==
    ASSUME NEW f, NEW S, NEW n \in Nat
    PROVE  \E t : IsSelection(t, f, S, n)
<1> DEFINE I == {m \in Nat : \E t : IsSelection(t, f, S, m)}
<1>1. 0 \in I
  <2>1. IsSelection([k \in 0..0 |-> << >>], f, S, 0)
      BY DEF IsSelection
  <2> QED BY <2>1
<1>2. ASSUME NEW m \in Nat, m \in I
      PROVE  m + 1 \in I
  <2>1. PICK t : IsSelection(t, f, S, m)
      BY <1>2
  <2> DEFINE next(a, x) == IF x \in S THEN Append(a, x) ELSE a
  <2> DEFINE u == [k \in 0..(m+1) |-> IF k = m + 1 THEN next(t[m], f[m+1]) ELSE t[k]]
  <2>2. ASSUME NEW k \in 0..(m+1)
        PROVE  u[k] = IF k = 0 THEN << >> ELSE next(u[k-1], f[k])
    <3>1. CASE k = 0
        BY <2>1, <3>1 DEF IsSelection
    <3>2. CASE k = m + 1
        BY <3>2
    <3>3. CASE k # 0 /\ k # m + 1
      <4>1. k \in 0..m /\ k - 1 \in 0..m
          BY <3>3
      <4>2. u[k] = t[k] /\ u[k-1] = t[k-1]
          BY <3>3, <4>1
      <4>3. t[k] = next(t[k-1], f[k])
          BY <2>1, <3>3, <4>1 DEF IsSelection
      <4> QED BY <3>3, <4>2, <4>3
    <3> QED BY <3>1, <3>2, <3>3
  <2>3. IsSelection(u, f, S, m + 1)
      BY <2>2 DEF IsSelection
  <2> HIDE DEF u
  <2> QED BY <2>3
<1> HIDE DEF I
<1>3. Nat \subseteq I
    BY <1>1, <1>2, SetInduction
<1> QED
    BY <1>3 DEF I

(***************************************************************************)
(* The entries of a table of selections, one after the other.              *)
(***************************************************************************)
LEMMA SelectionStep ==
    ASSUME NEW f, NEW S, NEW n \in Nat, NEW t, IsSelection(t, f, S, n)
    PROVE  /\ t[0] = << >>
           /\ \A k \in 0..(n-1) :
                 t[k+1] = IF f[k+1] \in S THEN Append(t[k], f[k+1]) ELSE t[k]
<1>1. \A k \in 0..n : t[k] = IF k = 0 THEN << >>
                             ELSE IF f[k] \in S THEN Append(t[k-1], f[k]) ELSE t[k-1]
    BY Zenon DEF IsSelection
<1>2. t[0] = << >>
    BY <1>1
<1>3. ASSUME NEW k \in 0..(n-1)
      PROVE  t[k+1] = IF f[k+1] \in S THEN Append(t[k], f[k+1]) ELSE t[k]
  <2>1. k + 1 \in 0..n /\ k + 1 # 0 /\ (k + 1) - 1 = k
      OBVIOUS
  <2> QED BY <1>1, <2>1
<1> QED
    BY <1>2, <1>3

(***************************************************************************)
(* Two tables of selections from the same values agree wherever both are   *)
(* defined.                                                                *)
(***************************************************************************)
LEMMA SelectionUnique ==
    ASSUME NEW f, NEW S, NEW m \in Nat, NEW n \in Nat, m <= n, NEW t, NEW u,
           IsSelection(t, f, S, m), IsSelection(u, f, S, n)
    PROVE  \A k \in 0..m : t[k] = u[k]
<1> DEFINE I == {k \in Nat : k <= m => t[k] = u[k]}
<1>1. 0 \in I
    BY DEF IsSelection
<1>2. ASSUME NEW k \in Nat, k \in I
      PROVE  k + 1 \in I
  <2> SUFFICES ASSUME k + 1 <= m PROVE t[k+1] = u[k+1]
      OBVIOUS
  <2>1. /\ t[k+1] = IF f[k+1] \in S THEN Append(t[k], f[k+1]) ELSE t[k]
        /\ u[k+1] = IF f[k+1] \in S THEN Append(u[k], f[k+1]) ELSE u[k]
    <3>1. k \in 0..(m-1) /\ k \in 0..(n-1)
        OBVIOUS
    <3> QED BY <3>1, SelectionStep
  <2> QED BY <1>2, <2>1
<1> HIDE DEF I
<1>3. Nat \subseteq I
    BY <1>1, <1>2, SetInduction
<1> QED
    BY <1>3 DEF I

(***************************************************************************)
(* The recursion equations of OnlyTo.                                      *)
(***************************************************************************)
THEOREM OnlyToDef ==
    ASSUME NEW f, NEW S, NEW n \in Nat
    PROVE  /\ OnlyTo(f, S, 0) = << >>
           /\ OnlyTo(f, S, n + 1) = IF f[n+1] \in S THEN Append(OnlyTo(f, S, n), f[n+1])
                                                    ELSE OnlyTo(f, S, n)
<1> DEFINE P(m) == CHOOSE t : IsSelection(t, f, S, m)
<1>1. ASSUME NEW m \in Nat
      PROVE  IsSelection(P(m), f, S, m) /\ OnlyTo(f, S, m) = P(m)[m]
  <2>1. IsSelection(P(m), f, S, m)
      BY SelectionExists
  <2>2. OnlyTo(f, S, m) = P(m)[m]
      BY DEF OnlyTo, IsSelection
  <2> QED BY <2>1, <2>2
<1> HIDE DEF P
<1>2. OnlyTo(f, S, 0) = << >>
    BY <1>1 DEF IsSelection
<1>3. P(n)[n] = P(n+1)[n]
    BY <1>1, SelectionUnique
<1>4. P(n+1)[n+1] = IF f[n+1] \in S THEN Append(P(n+1)[n], f[n+1]) ELSE P(n+1)[n]
  <2>1. n + 1 \in Nat /\ n \in 0..(n + 1 - 1)
      OBVIOUS
  <2>2. IsSelection(P(n+1), f, S, n + 1)
      BY <1>1, <2>1
  <2>3. ASSUME NEW p \in Nat, n \in 0..(p-1), NEW t, IsSelection(t, f, S, p)
        PROVE  t[n+1] = IF f[n+1] \in S THEN Append(t[n], f[n+1]) ELSE t[n]
      BY <2>3, SelectionStep
  <2> QED BY <2>1, <2>2, <2>3
<1> QED
    BY <1>1, <1>2, <1>3, <1>4

(***************************************************************************)
(* Lists that differ only in values outside S have the same members of S.  *)
(***************************************************************************)
LEMMA OnlyToEq ==
    ASSUME NEW f, NEW g, NEW S, NEW n \in Nat,
           \A k \in 1..n : f[k] = g[k] \/ (f[k] \notin S /\ g[k] \notin S)
    PROVE  OnlyTo(f, S, n) = OnlyTo(g, S, n)
<1> DEFINE I == {m \in Nat : m <= n => OnlyTo(f, S, m) = OnlyTo(g, S, m)}
<1>1. 0 \in I
    BY OnlyToDef
<1>2. ASSUME NEW m \in Nat, m \in I
      PROVE  m + 1 \in I
  <2> SUFFICES ASSUME m + 1 <= n PROVE OnlyTo(f, S, m + 1) = OnlyTo(g, S, m + 1)
      OBVIOUS
  <2>1. OnlyTo(f, S, m) = OnlyTo(g, S, m)
      BY <1>2
  <2>2. f[m+1] = g[m+1] \/ (f[m+1] \notin S /\ g[m+1] \notin S)
      OBVIOUS
  <2> QED BY <2>1, <2>2, OnlyToDef
<1> HIDE DEF I
<1>3. Nat \subseteq I
    BY <1>1, <1>2, SetInduction
<1> QED
    BY <1>3 DEF I

(***************************************************************************)
(* Values outside S at the end of a list add nothing.                      *)
(***************************************************************************)
LEMMA OnlyToSkip ==
    ASSUME NEW f, NEW S, NEW m \in Nat, NEW n \in Nat, m <= n,
           \A k \in (m+1)..n : f[k] \notin S
    PROVE  OnlyTo(f, S, n) = OnlyTo(f, S, m)
<1> DEFINE I == {k \in Nat : m + k <= n => OnlyTo(f, S, m + k) = OnlyTo(f, S, m)}
<1>1. 0 \in I
    OBVIOUS
<1>2. ASSUME NEW k \in Nat, k \in I
      PROVE  k + 1 \in I
  <2> SUFFICES ASSUME m + (k + 1) <= n PROVE OnlyTo(f, S, m + (k + 1)) = OnlyTo(f, S, m)
      OBVIOUS
  <2>1. OnlyTo(f, S, m + k) = OnlyTo(f, S, m)
      BY <1>2
  <2>2. m + (k + 1) = (m + k) + 1 /\ m + k \in Nat /\ f[(m + k) + 1] \notin S
      OBVIOUS
  <2>3. OnlyTo(f, S, (m + k) + 1) = OnlyTo(f, S, m + k)
      BY <2>2, OnlyToDef
  <2> QED BY <2>1, <2>2, <2>3
<1> HIDE DEF I
<1>3. Nat \subseteq I
    BY <1>1, <1>2, SetInduction
<1>4. n - m \in Nat /\ m + (n - m) = n
    OBVIOUS
<1> QED
    BY <1>3, <1>4 DEF I

(***************************************************************************)
(* Only is idempotent: nothing is dropped from a list of members of S.     *)
(***************************************************************************)
LEMMA OnlyAll ==
    ASSUME NEW S, NEW s \in Seq(S)
    PROVE  Only(s, S) = s
<1> DEFINE I == {m \in Nat : m <= Len(s) =>
                     /\ OnlyTo(s, S, m) \in Seq(S)
                     /\ Len(OnlyTo(s, S, m)) = m
                     /\ \A i \in 1..m : OnlyTo(s, S, m)[i] = s[i]}
<1>1. 0 \in I
  <2>1. OnlyTo(s, S, 0) = << >>
      BY OnlyToDef
  <2>2. << >> \in Seq(S) /\ Len(<< >>) = 0 /\ 1..0 = {}
      OBVIOUS
  <2>3. /\ OnlyTo(s, S, 0) \in Seq(S)
        /\ Len(OnlyTo(s, S, 0)) = 0
        /\ \A i \in 1..0 : OnlyTo(s, S, 0)[i] = s[i]
      BY <2>1, <2>2
  <2> QED BY <2>3
<1>2. ASSUME NEW m \in Nat, m \in I
      PROVE  m + 1 \in I
  <2> SUFFICES ASSUME m + 1 <= Len(s)
               PROVE  /\ OnlyTo(s, S, m + 1) \in Seq(S)
                      /\ Len(OnlyTo(s, S, m + 1)) = m + 1
                      /\ \A i \in 1..(m + 1) : OnlyTo(s, S, m + 1)[i] = s[i]
      OBVIOUS
  <2> DEFINE a == OnlyTo(s, S, m)
  <2>1. a \in Seq(S) /\ Len(a) = m /\ \A i \in 1..m : a[i] = s[i]
      BY <1>2
  <2>2. s[m+1] \in S
      OBVIOUS
  <2>3. OnlyTo(s, S, m + 1) = Append(a, s[m+1])
      BY <2>2, OnlyToDef
  <2> HIDE DEF a
  <2> QED BY <2>1, <2>2, <2>3
<1> HIDE DEF I
<1>3. Nat \subseteq I
    BY <1>1, <1>2, SetInduction
<1>4. Len(s) \in Nat
    OBVIOUS
<1>5. Only(s, S) \in Seq(S) /\ Len(Only(s, S)) = Len(s) /\ \A i \in 1..Len(s) : Only(s, S)[i] = s[i]
    BY <1>3, <1>4 DEF I, Only
<1> HIDE DEF I
<1> QED
    BY <1>5

(***************************************************************************)
(* What Only keeps of a list of members of T: members of S, each of them,  *)
(* none of them more often than before; and it shortens every list that    *)
(* has anything else.                                                      *)
(***************************************************************************)
LEMMA OnlyFacts ==
    ASSUME NEW S, NEW T, NEW s \in Seq(T)
    PROVE  /\ Only(s, S) \in Seq(T \intersect S)
           /\ \A k \in 1..Len(s) : s[k] \in S =>
                 \E i \in 1..Len(Only(s, S)) : Only(s, S)[i] = s[k]
           /\ \A i \in 1..Len(Only(s, S)) : \E k \in 1..Len(s) : Only(s, S)[i] = s[k]
           /\ (\A k, l \in 1..Len(s) : s[k] = s[l] => k = l) =>
                 \A i, j \in 1..Len(Only(s, S)) : Only(s, S)[i] = Only(s, S)[j] => i = j
           /\ Len(Only(s, S)) <= Len(s)
           /\ (\E k \in 1..Len(s) : s[k] \notin S) => Len(Only(s, S)) < Len(s)
<1> DEFINE a(m) == OnlyTo(s, S, m)
           Typed(m) == a(m) \in Seq(T \intersect S) /\ Len(a(m)) <= m
           All(m)   == \A k \in 1..m : s[k] \in S => \E i \in 1..Len(a(m)) : a(m)[i] = s[k]
           From(m)  == \A i \in 1..Len(a(m)) : \E k \in 1..m : a(m)[i] = s[k]
           Once(m)  == (\A k, l \in 1..Len(s) : s[k] = s[l] => k = l) =>
                          \A i, j \in 1..Len(a(m)) : a(m)[i] = a(m)[j] => i = j
           Short(m) == (\E k \in 1..m : s[k] \notin S) => Len(a(m)) < m
           I == {m \in Nat : m <= Len(s) => Typed(m) /\ All(m) /\ From(m) /\ Once(m) /\ Short(m)}
<1>1. 0 \in I
  <2>1. a(0) = << >>
      BY OnlyToDef
  <2> HIDE DEF a
  <2>2. << >> \in Seq(T \intersect S) /\ Len(<< >>) = 0 /\ 1..0 = {}
      OBVIOUS
  <2>3. Len(a(0)) = 0 /\ 1..Len(a(0)) = {} /\ a(0) \in Seq(T \intersect S)
      BY <2>1, <2>2, Zenon
  <2>4. Typed(0)
      BY <2>3
  <2>5. All(0)
      BY <2>2
  <2>6. From(0)
      BY <2>3
  <2>7. Once(0)
      BY <2>3
  <2>8. Short(0)
      BY <2>2
  <2> HIDE DEF Typed, All, From, Once, Short
  <2> QED BY <2>4, <2>5, <2>6, <2>7, <2>8
<1>2. ASSUME NEW m \in Nat, m \in I
      PROVE  m + 1 \in I
  <2> SUFFICES ASSUME m + 1 <= Len(s)
               PROVE  Typed(m+1) /\ All(m+1) /\ From(m+1) /\ Once(m+1) /\ Short(m+1)
    <3> HIDE DEF Typed, All, From, Once, Short
    <3> QED OBVIOUS
  <2>1. Typed(m) /\ All(m) /\ From(m) /\ Once(m) /\ Short(m)
      BY <1>2
  <2>2. s[m+1] \in T /\ m \in 0..Len(s) /\ m + 1 \in 1..Len(s)
      OBVIOUS
  <2>3. CASE s[m+1] \notin S
    <3>1. a(m+1) = a(m)
        BY <2>3, OnlyToDef
    <3> HIDE DEF a
    <3>2. Typed(m+1)
        BY <2>1, <3>1
    <3>3. All(m+1)
        BY <2>1, <2>3, <3>1
    <3>4. From(m+1)
        BY <2>1, <3>1
    <3>5. Once(m+1)
        BY <2>1, <3>1
    <3>6. Short(m+1)
        BY <2>1, <3>1
    <3> QED BY <3>2, <3>3, <3>4, <3>5, <3>6
  <2>4. CASE s[m+1] \in S
    <3>1. a(m+1) = Append(a(m), s[m+1])
        BY <2>4, OnlyToDef
    <3> HIDE DEF a
    <3>2. /\ a(m) \in Seq(T \intersect S) /\ s[m+1] \in T \intersect S
          /\ Len(a(m)) \in Nat /\ Len(a(m+1)) = Len(a(m)) + 1
          /\ \A i \in 1..Len(a(m)) : a(m+1)[i] = a(m)[i]
          /\ a(m+1)[Len(a(m)) + 1] = s[m+1]
        BY <2>1, <2>2, <2>4, <3>1
    <3>3. Typed(m+1)
      <4>1. Append(a(m), s[m+1]) \in Seq(T \intersect S) /\ Len(a(m)) + 1 <= m + 1
          BY <2>1, <3>2
      <4> QED BY <3>1, <3>2, <4>1
    <3>4. All(m+1)
      <4> SUFFICES ASSUME NEW k \in 1..(m+1), s[k] \in S
                   PROVE  \E i \in 1..Len(a(m+1)) : a(m+1)[i] = s[k]
          OBVIOUS
      <4>1. CASE k = m + 1
          BY <3>2, <4>1
      <4>2. CASE k \in 1..m
        <5>1. PICK i \in 1..Len(a(m)) : a(m)[i] = s[k]
            BY <2>1, <4>2
        <5> QED BY <3>2, <5>1
      <4> QED BY <4>1, <4>2
    <3>5. From(m+1)
      <4> SUFFICES ASSUME NEW i \in 1..Len(a(m+1))
                   PROVE  \E k \in 1..(m+1) : a(m+1)[i] = s[k]
          OBVIOUS
      <4>1. CASE i = Len(a(m)) + 1
          BY <3>2, <4>1
      <4>2. CASE i \in 1..Len(a(m))
        <5>1. PICK k \in 1..m : a(m)[i] = s[k]
            BY <2>1, <4>2
        <5> QED BY <3>2, <4>2, <5>1
      <4> QED BY <3>2, <4>1, <4>2
    <3>6. Once(m+1)
      <4> SUFFICES ASSUME \A k, l \in 1..Len(s) : s[k] = s[l] => k = l,
                          NEW i \in 1..Len(a(m+1)), NEW j \in 1..Len(a(m+1)),
                          a(m+1)[i] = a(m+1)[j]
                   PROVE  i = j
          OBVIOUS
      <4>1. ASSUME NEW h \in 1..Len(a(m)) PROVE a(m)[h] # s[m+1]
        <5>1. PICK k \in 1..m : a(m)[h] = s[k]
            BY <2>1
        <5>2. k \in 1..Len(s) /\ k # m + 1
            OBVIOUS
        <5> QED BY <2>2, <5>1, <5>2
      <4>2. CASE i \in 1..Len(a(m)) /\ j \in 1..Len(a(m))
          BY <2>1, <3>2, <4>2
      <4>3. CASE i = Len(a(m)) + 1 /\ j \in 1..Len(a(m))
          BY <3>2, <4>1, <4>3
      <4>4. CASE i \in 1..Len(a(m)) /\ j = Len(a(m)) + 1
          BY <3>2, <4>1, <4>4
      <4> QED BY <3>2, <4>2, <4>3, <4>4
    <3>7. Short(m+1)
        BY <2>1, <2>4, <3>2
    <3> QED BY <3>3, <3>4, <3>5, <3>6, <3>7
  <2> QED BY <2>3, <2>4
<1> HIDE DEF I
<1>3. Nat \subseteq I
    BY <1>1, <1>2, SetInduction
<1>4. Len(s) \in Nat /\ Len(s) <= Len(s)
    OBVIOUS
<1>5. Typed(Len(s)) /\ All(Len(s)) /\ From(Len(s)) /\ Once(Len(s)) /\ Short(Len(s))
  <2>1. Len(s) \in I
      BY <1>3, <1>4
  <2> QED BY <1>4, <2>1 DEF I
<1> QED
    BY <1>4, <1>5 DEF Only

-----------------------------------------------------------------------------
(* Transfers *)

(***************************************************************************)
(* A transfer that does not panic keeps balances natural and moves exactly *)
(* the amount between two different holders.                               *)
(***************************************************************************)
LEMMA TransferFacts ==
    ASSUME NEW H, NEW b \in [H -> Nat], NEW from \in H, NEW to \in H,
           NEW amt \in Int, TransferOK(b, from, amt)
    PROVE  /\ Transfer(b, from, to, amt) \in [H -> Nat]
           /\ from # to => /\ Transfer(b, from, to, amt)[from] = b[from] - amt
                           /\ Transfer(b, from, to, amt)[to] = b[to] + amt
           /\ \A h \in H \ {from, to} : Transfer(b, from, to, amt)[h] = b[h]
    BY DEF Transfer, TransferOK

=============================================================================
