---------------------------- MODULE EscrowProofs ----------------------------
(***************************************************************************)
(* Theorems about Escrow, for every value of its constants.                *)
(***************************************************************************)
EXTENDS Escrow, HelperTheorems

-----------------------------------------------------------------------------
(* Milestone vectors *)

(***************************************************************************)
(* The loops of create, cancel and expire compute integers.                *)
(***************************************************************************)
LEMMA SumTypes ==
    ASSUME NEW ms \in Seq(Milestone)
    PROVE  Total(ms) \in Int /\ Released(ms) \in Int
<1> DEFINE f == [i \in 1..Len(ms) |-> ms[i].amount]
           g == [i \in 1..Len(ms) |-> IF ms[i].status = "Approved" THEN ms[i].amount ELSE 0]
<1>1. Len(ms) \in Nat /\ \A i \in 1..Len(ms) : ms[i] \in Milestone
    OBVIOUS
<1>2. \A i \in 1..Len(ms) : f[i] \in Int /\ g[i] \in Int
    BY <1>1 DEF Milestone
<1>3. SumTo(f, Len(ms)) \in Int /\ SumTo(g, Len(ms)) \in Int
  <2> HIDE DEF f, g
  <2> QED BY <1>1, <1>2, SumToInt
<1> QED
    BY <1>3 DEF Total, Released

(***************************************************************************)
(* With positive amounts the released part never exceeds the total, and is *)
(* all of it once every milestone is approved.                             *)
(***************************************************************************)
LEMMA ReleasedBound ==
    ASSUME NEW ms \in Seq(Milestone), \A i \in DOMAIN ms : ms[i].amount > 0
    PROVE  /\ Released(ms) <= Total(ms)
           /\ AllApproved(ms) => Released(ms) = Total(ms)
<1> DEFINE f == [i \in 1..Len(ms) |-> ms[i].amount]
           g == [i \in 1..Len(ms) |-> IF ms[i].status = "Approved" THEN ms[i].amount ELSE 0]
<1>1. /\ Len(ms) \in Nat /\ DOMAIN ms = 1..Len(ms)
      /\ \A i \in 1..Len(ms) : ms[i] \in Milestone
    OBVIOUS
<1>2. \A i \in 1..Len(ms) : g[i] \in Int /\ f[i] \in Int /\ g[i] <= f[i]
    BY <1>1 DEF Milestone
<1>3. AllApproved(ms) => \A i \in 1..Len(ms) : g[i] = f[i]
    BY <1>1 DEF AllApproved
<1>4. SumTo(g, Len(ms)) <= SumTo(f, Len(ms))
  <2> HIDE DEF f, g
  <2> QED BY <1>1, <1>2, SumToMono
<1>5. AllApproved(ms) => SumTo(g, Len(ms)) = SumTo(f, Len(ms))
  <2> HIDE DEF f, g
  <2> QED BY <1>1, <1>3, SumToEq
<1> QED
    BY <1>4, <1>5 DEF Total, Released

(***************************************************************************)
(* What submit_work and approve do to a milestone vector: the amounts and  *)
(* their total stay, and Released grows by the amount exactly when a       *)
(* milestone that was not approved becomes approved.                       *)
(***************************************************************************)
LEMMA SetMilestoneFacts ==
    ASSUME NEW ms \in Seq(Milestone), NEW i \in DOMAIN ms,
           NEW st \in MilestoneStatus, ms[i].status # "Approved"
    PROVE  LET ns == SetMilestone(ms, i, st)
           IN  /\ ns \in Seq(Milestone)
               /\ DOMAIN ns = DOMAIN ms
               /\ \A k \in DOMAIN ms : ns[k].amount = ms[k].amount
               /\ \A k \in DOMAIN ms : k # i => ns[k] = ms[k]
               /\ ns[i].status = st
               /\ Total(ns) = Total(ms)
               /\ Released(ns) = Released(ms)
                      + IF st = "Approved" THEN ms[i].amount ELSE 0
<1> DEFINE ns == SetMilestone(ms, i, st)
           n  == Len(ms)
           F(s) == [k \in 1..n |-> s[k].amount]
           G(s) == [k \in 1..n |-> IF s[k].status = "Approved" THEN s[k].amount ELSE 0]
<1>1. /\ n \in Nat /\ DOMAIN ms = 1..n /\ i \in 1..n
      /\ \A k \in 1..n : ms[k] \in Milestone
    OBVIOUS
<1>2. /\ ns \in Seq(Milestone) /\ Len(ns) = n /\ DOMAIN ns = 1..n
      /\ \A k \in 1..n : k # i => ns[k] = ms[k]
      /\ ns[i].amount = ms[i].amount /\ ns[i].status = st
    BY <1>1 DEF SetMilestone, Milestone
<1> HIDE DEF ns
<1>3. \A k \in 1..n : ns[k].amount = ms[k].amount
    BY <1>2
<1>4. /\ \A k \in 1..n : F(ns)[k] = F(ms)[k]
      /\ \A k \in 1..n : G(ms)[k] \in Int /\ G(ns)[k] \in Int
      /\ \A k \in 1..n : k # i => G(ns)[k] = G(ms)[k]
      /\ G(ms)[i] = 0
      /\ G(ns)[i] = IF st = "Approved" THEN ms[i].amount ELSE 0
    BY <1>1, <1>2, <1>3 DEF Milestone
<1>5. /\ Total(ms) = SumTo(F(ms), n) /\ Total(ns) = SumTo(F(ns), n)
      /\ Released(ms) = SumTo(G(ms), n) /\ Released(ns) = SumTo(G(ns), n)
    BY <1>2 DEF Total, Released
<1> HIDE DEF F, G
<1>6. SumTo(F(ns), n) = SumTo(F(ms), n)
    BY <1>1, <1>4, SumToEq
<1>7. SumTo(G(ns), n) = SumTo(G(ms), n) + (G(ns)[i] - G(ms)[i])
    BY <1>1, <1>4, SumToUpdate
<1>8. G(ns)[i] - G(ms)[i] = IF st = "Approved" THEN ms[i].amount ELSE 0
    BY <1>1, <1>4 DEF Milestone
<1>9. /\ Total(ns) = Total(ms)
      /\ Released(ns) = Released(ms) + IF st = "Approved" THEN ms[i].amount ELSE 0
    BY <1>5, <1>6, <1>7, <1>8
<1> QED
    BY <1>1, <1>2, <1>3, <1>9 DEF ns

-----------------------------------------------------------------------------
(* Payments *)

(***************************************************************************)
(* approve and release_recurring debit the contract by exactly the amount, *)
(* whatever the fee: fee and net add up, and neither can be negative.      *)
(***************************************************************************)
LEMMA PayOutFacts ==
    ASSUME TypeOK, escrow # None, NEW amount \in Nat, PayOut(amount)
    PROVE  /\ bal' \in [Holders -> Nat]
           /\ bal'[Contract] = bal[Contract] - amount
<1> DEFINE fee == FeeOf(amount)
           c == config.fee_collector
           after == IF fee > 0 THEN Transfer(bal, Contract, c, fee) ELSE bal
           f == escrow.freelancer
<1>1. /\ bal \in [Holders -> Nat]
      /\ Contract \in Holders
      /\ f \in Holders /\ f # Contract
    BY AddressAssumption DEF TypeOK, Holders, EscrowData
<1>2. fee \in Int
  <2>1. CASE config = None
      BY <2>1 DEF FeeOf
  <2>2. CASE config # None
    <3>1. config.fee_bps \in Nat
        BY <2>2 DEF TypeOK, ProtocolConfig
    <3>2. amount * config.fee_bps \in Int
        BY <3>1
    <3> QED BY <2>2, <3>2 DEF FeeOf
  <2> QED BY <2>1, <2>2
<1>3. fee > 0 => c \in Holders /\ c # Contract
  <2>1. CASE config = None
      BY <2>1 DEF FeeOf
  <2>2. CASE config # None
      BY <2>2, AddressAssumption DEF TypeOK, ProtocolConfig, Holders
  <2> QED BY <2>1, <2>2
<1>4. /\ fee > 0 => TransferOK(bal, Contract, fee)
      /\ TransferOK(after, Contract, amount - fee)
      /\ bal' = Transfer(after, Contract, f, amount - fee)
    BY DEF PayOut
<1> HIDE DEF fee, c, f
<1>5. /\ after \in [Holders -> Nat]
      /\ fee > 0 => after[Contract] = bal[Contract] - fee
      /\ ~(fee > 0) => after[Contract] = bal[Contract]
    BY <1>1, <1>2, <1>3, <1>4, TransferFacts
<1> HIDE DEF after
<1>6. amount - fee \in Int
    BY <1>2
<1>7. /\ bal' \in [Holders -> Nat]
      /\ bal'[Contract] = after[Contract] - (amount - fee)
    BY <1>1, <1>4, <1>5, <1>6, TransferFacts
<1>8. CASE fee > 0
    BY <1>1, <1>2, <1>5, <1>7, <1>8
<1>9. CASE ~(fee > 0)
  <2>1. fee = 0
    <3>1. CASE config = None
        BY <3>1 DEF FeeOf, fee
    <3>2. CASE config # None
      <4>1. config.fee_bps \in Nat
          BY <3>2 DEF TypeOK, ProtocolConfig
      <4>2. amount * config.fee_bps >= 0 /\ amount * config.fee_bps \in Int
          BY <4>1
      <4>3. fee = (amount * config.fee_bps) \div 10000
          BY <3>2 DEF FeeOf, fee
      <4>4. fee >= 0
          BY <4>2, <4>3
      <4> QED BY <1>2, <1>9, <4>4
    <3> QED BY <3>1, <3>2
  <2> QED BY <1>1, <1>5, <1>7, <1>9, <2>1
<1> QED
    BY <1>7, <1>8, <1>9

(***************************************************************************)
(* A payment is split: the fee, if there is one, goes to the collector and *)
(* the rest to the freelancer; no other account's balance changes.         *)
(***************************************************************************)
LEMMA PaymentSplit ==
    ASSUME TypeOK, escrow # None, NEW amount \in Nat, PayOut(amount)
    PROVE  /\ FeeOf(amount) \in 0..amount
           /\ FeeOf(amount) > 0 => config # None /\ config.fee_collector \in Accounts
           /\ \A h \in Accounts :
                 bal'[h] = bal[h] + (IF FeeOf(amount) > 0 /\ h = config.fee_collector
                                     THEN FeeOf(amount) ELSE 0)
                                  + (IF h = escrow.freelancer THEN amount - FeeOf(amount) ELSE 0)
<1> DEFINE fee == FeeOf(amount)
           c == config.fee_collector
           after == IF fee > 0 THEN Transfer(bal, Contract, c, fee) ELSE bal
           f == escrow.freelancer
<1>1. /\ bal \in [Holders -> Nat] /\ Contract \in Holders /\ Contract \notin Accounts
      /\ Accounts \subseteq Holders /\ f \in Accounts
    BY AddressAssumption DEF TypeOK, Holders, EscrowData
<1>2. fee \in Nat
  <2>1. CASE config = None
      BY <2>1 DEF FeeOf
  <2>2. CASE config # None
    <3>1. config.fee_bps \in Nat
        BY <2>2 DEF TypeOK, ProtocolConfig
    <3>2. amount * config.fee_bps \in Nat
        BY <3>1
    <3>3. \A k \in Nat : k \div 10000 \in Nat
        OBVIOUS
    <3> QED BY <2>2, <3>2, <3>3 DEF FeeOf
  <2> QED BY <2>1, <2>2
<1>3. fee > 0 => config # None /\ c \in Accounts
    BY DEF FeeOf, TypeOK, ProtocolConfig
<1>4. /\ TransferOK(after, Contract, amount - fee)
      /\ bal' = Transfer(after, Contract, f, amount - fee)
    BY DEF PayOut
<1>5. fee \in 0..amount
  <2>1. amount - fee >= 0
      BY <1>4 DEF TransferOK
  <2> HIDE DEF fee
  <2> QED BY <1>2, <2>1
<1> HIDE DEF fee, f, c
<1>6. /\ DOMAIN after = Holders
      /\ \A h \in Accounts : after[h] = bal[h] + IF fee > 0 /\ h = c THEN fee ELSE 0
    BY <1>1, <1>2, <1>3 DEF Transfer
<1> HIDE DEF after
<1>7. \A h \in Accounts : bal'[h] = after[h] + IF h = f THEN amount - fee ELSE 0
    BY <1>1, <1>2, <1>4, <1>6 DEF Transfer
<1> QED
    BY <1>3, <1>5, <1>6, <1>7 DEF fee, f, c

(***************************************************************************)
(* The refund is an integer the contract can owe: never negative.          *)
(***************************************************************************)
LEMMA RemainingFacts ==
    ASSUME TypeOK, escrow # None
    PROVE  /\ Remaining(escrow) \in Int /\ Remaining(escrow) >= 0
           /\ escrow.releases_made = 0 => Remaining(escrow) = Unspent(escrow)
           /\ Unspent(escrow) \in Int
<1>1. /\ escrow.milestones \in Seq(Milestone)
      /\ \A i \in DOMAIN escrow.milestones : escrow.milestones[i].amount > 0
      /\ escrow.total_amount = Total(escrow.milestones)
      /\ escrow.amount \in Nat /\ escrow.releases_made \in Nat
      /\ escrow.recurrence_count \in Nat
    BY DEF TypeOK, EscrowData
<1>2. /\ Total(escrow.milestones) \in Int /\ Released(escrow.milestones) \in Int
      /\ Released(escrow.milestones) <= Total(escrow.milestones)
    BY <1>1, SumTypes, ReleasedBound
<1>3. escrow.amount * escrow.releases_made \in Nat
    BY <1>1
<1>4. escrow.releases_made = 0 => escrow.amount * escrow.releases_made = 0
    BY <1>1
<1> QED
    BY <1>1, <1>2, <1>3, <1>4 DEF Remaining, Unspent

-----------------------------------------------------------------------------
(* Type correctness *)

(***************************************************************************)
(* init, pause and unpause store a well-typed configuration.               *)
(***************************************************************************)
LEMMA ConfigStep ==
    ASSUME TypeOK,
           \/ \E a, c \in Accounts, f \in FeeRates : init(a, f, c)
           \/ pause
           \/ unpause
    PROVE  TypeOK'
<1>1. ASSUME NEW a \in Accounts, NEW c \in Accounts, NEW f \in FeeRates, init(a, f, c)
      PROVE  TypeOK'
  <2>1. config' \in ProtocolConfig
      BY <1>1, AmountAssumption DEF init, ProtocolConfig
  <2> QED BY <1>1, <2>1, TTLAssumption DEF init, TypeOK, extend_ttl
<1>2. ASSUME pause \/ unpause PROVE TypeOK'
  <2>1. config \in ProtocolConfig
      BY <1>2 DEF pause, unpause, TypeOK
  <2>2. config' \in ProtocolConfig /\ auth' \in Accounts
      BY <1>2, <2>1 DEF pause, unpause, ProtocolConfig
  <2> QED BY <1>2, <2>2, TTLAssumption DEF pause, unpause, TypeOK, extend_ttl
<1> QED BY <1>1, <1>2

(***************************************************************************)
(* create stores a well-typed escrow that locks the total of its           *)
(* milestones, and leaves the contract holding it.                         *)
(***************************************************************************)
LEMMA CreateStep ==
    ASSUME TypeOK,
           NEW p \in Accounts, NEW f \in Accounts, NEW ms \in MilestoneVecs,
           NEW d \in Deadlines \union {None}, NEW y \in Protocols,
           NEW r \in Recurrences, NEW a \in ReleaseAmounts,
           create(p, f, ms, d, y, r, a)
    PROVE  /\ TypeOK'
           /\ escrow' # None
           /\ bal'[Contract] = bal[Contract] + Total(ms)
<1>1. /\ ms \in Seq(Milestone) /\ Total(ms) \in Int
    BY AmountAssumption, SumTypes
<1>2. /\ bal \in [Holders -> Nat] /\ p \in Holders /\ Contract \in Holders
      /\ p # Contract /\ TransferOK(bal, p, Total(ms))
      /\ bal' = Transfer(bal, p, Contract, Total(ms))
    BY AddressAssumption DEF TypeOK, Holders, create
<1>3. bal' \in [Holders -> Nat] /\ bal'[Contract] = bal[Contract] + Total(ms)
    BY <1>1, <1>2, TransferFacts
<1>4. escrow' \in EscrowData
  <2>1. y \in {None, Yield} /\ d \in Nat \union {None} /\ a \in Nat /\ now \in Nat
      BY CreateAssumption, AmountAssumption DEF TypeOK
  <2>2. r[1] \in Nat /\ r[2] \in Nat
      BY CreateAssumption
  <2> QED BY <1>1, <2>1, <2>2 DEF create, EscrowData, EscrowStatus
<1>5. /\ escrow'.milestones = ms /\ escrow'.total_amount = Total(ms)
      /\ ValidMilestones(ms) /\ config' = config /\ now' = now /\ auth' = p
      /\ created' = now /\ extend_ttl
    BY DEF create
<1>6. ttl' \in Nat
    BY <1>5, TTLAssumption DEF extend_ttl, TypeOK
<1>7. /\ escrow'.milestones # << >>
      /\ \A i \in DOMAIN escrow'.milestones : escrow'.milestones[i].amount > 0
      /\ escrow'.total_amount = Total(escrow'.milestones)
    BY <1>5 DEF ValidMilestones
<1>8. TypeOK'
    BY <1>3, <1>4, <1>5, <1>6, <1>7 DEF TypeOK
<1> QED
    BY <1>3, <1>4, <1>8, AddressAssumption

(***************************************************************************)
(* submit_work keeps the record well typed and pays nothing.               *)
(***************************************************************************)
LEMMA SubmitStep ==
    ASSUME TypeOK, NEW i, submit_work(i)
    PROVE  /\ TypeOK' /\ escrow' # None
           /\ bal' = bal
           /\ Released(escrow'.milestones) = Released(escrow.milestones)
<1> DEFINE ms == escrow.milestones
           ns == SetMilestone(ms, i, "Submitted")
<1>1. /\ escrow \in EscrowData /\ ms \in Seq(Milestone) /\ i \in DOMAIN ms
      /\ ms[i].status # "Approved" /\ "Submitted" \in MilestoneStatus
      /\ ms # << >> /\ \A k \in DOMAIN ms : ms[k].amount > 0
      /\ escrow.total_amount = Total(ms)
    BY DEF submit_work, TypeOK, EscrowData, MilestoneStatus
<1>2. /\ ns \in Seq(Milestone) /\ DOMAIN ns = DOMAIN ms
      /\ \A k \in DOMAIN ms : ns[k].amount = ms[k].amount
      /\ Total(ns) = Total(ms)
      /\ Released(ns) = Released(ms) + 0
    BY <1>1, SetMilestoneFacts
<1>3. Released(ms) \in Int
    BY <1>1, SumTypes
<1>4. escrow' = [escrow EXCEPT !.milestones = ns]
    BY DEF submit_work
<1> HIDE DEF ns
<1>5. /\ escrow' \in EscrowData /\ escrow'.milestones = ns
      /\ escrow'.total_amount = escrow.total_amount
    BY <1>1, <1>2, <1>4 DEF EscrowData
<1>6. ns # << >>
    BY <1>1, <1>2
<1>7. /\ config' = config /\ bal' = bal /\ now' = now /\ auth' = escrow.freelancer
      /\ created' = created /\ extend_ttl
    BY DEF submit_work
<1>8. ttl' \in Nat /\ auth' \in Accounts
    BY <1>1, <1>7, TTLAssumption DEF extend_ttl, TypeOK, EscrowData
<1>9. TypeOK'
    BY <1>1, <1>2, <1>5, <1>6, <1>7, <1>8 DEF TypeOK
<1> QED
    BY <1>2, <1>3, <1>5, <1>7, <1>9, AddressAssumption

(***************************************************************************)
(* approve pays exactly the milestone it marks, and ends the escrow only   *)
(* when every milestone is approved.                                       *)
(***************************************************************************)
LEMMA ApproveStep ==
    ASSUME TypeOK, NEW i, approve(i)
    PROVE  /\ TypeOK' /\ escrow # None /\ escrow' # None
           /\ i \in DOMAIN escrow.milestones
           /\ escrow.milestones[i].amount \in Nat \ {0}
           /\ bal'[Contract] = bal[Contract] - escrow.milestones[i].amount
           /\ Released(escrow'.milestones)
                  = Released(escrow.milestones) + escrow.milestones[i].amount
           /\ escrow'.status = IF AllApproved(escrow'.milestones)
                               THEN "Completed" ELSE escrow.status
           /\ escrow'.total_amount = escrow.total_amount
           /\ escrow'.amount = escrow.amount
           /\ escrow'.releases_made = escrow.releases_made
           /\ escrow'.interval = escrow.interval
           /\ escrow'.recurrence_count = escrow.recurrence_count
<1> DEFINE ms == escrow.milestones
           ns == SetMilestone(ms, i, "Approved")
<1>1. /\ escrow # None
      /\ escrow \in EscrowData /\ ms \in Seq(Milestone) /\ i \in DOMAIN ms
      /\ ms[i].status # "Approved" /\ "Approved" \in MilestoneStatus
      /\ ms # << >> /\ \A k \in DOMAIN ms : ms[k].amount > 0
      /\ escrow.total_amount = Total(ms)
    BY DEF approve, TypeOK, EscrowData, MilestoneStatus
<1>2. /\ ns \in Seq(Milestone) /\ DOMAIN ns = DOMAIN ms
      /\ \A k \in DOMAIN ms : ns[k].amount = ms[k].amount
      /\ Total(ns) = Total(ms)
      /\ Released(ns) = Released(ms) + ms[i].amount
    BY <1>1, SetMilestoneFacts
<1>3. ms[i].amount \in Nat \ {0}
  <2>1. ms[i] \in Milestone
      BY <1>1
  <2>2. ms[i].amount \in Int /\ ms[i].amount > 0
      BY <1>1, <2>1 DEF Milestone
  <2> QED BY <2>2
<1>4. PayOut(ms[i].amount)
    BY DEF approve
<1>5. bal' \in [Holders -> Nat] /\ bal'[Contract] = bal[Contract] - ms[i].amount
    BY <1>1, <1>3, <1>4, PayOutFacts
<1>6. escrow' = [escrow EXCEPT !.milestones = ns,
                               !.status = IF AllApproved(ns) THEN "Completed" ELSE @]
    BY DEF approve
<1> HIDE DEF ns
<1>7. /\ escrow' \in EscrowData
      /\ escrow'.milestones = ns
      /\ escrow'.status = IF AllApproved(ns) THEN "Completed" ELSE escrow.status
      /\ escrow'.total_amount = escrow.total_amount
      /\ escrow'.amount = escrow.amount
      /\ escrow'.releases_made = escrow.releases_made
      /\ escrow'.interval = escrow.interval
      /\ escrow'.recurrence_count = escrow.recurrence_count
    BY <1>1, <1>2, <1>6 DEF EscrowData, EscrowStatus
<1>8. ns # << >>
    BY <1>1, <1>2
<1>9. /\ config' = config /\ now' = now /\ auth' = escrow.payer /\ created' = created
      /\ extend_ttl
    BY DEF approve
<1>10. ttl' \in Nat /\ auth' \in Accounts
    BY <1>1, <1>9, TTLAssumption DEF extend_ttl, TypeOK, EscrowData
<1>11. TypeOK'
    BY <1>1, <1>2, <1>5, <1>7, <1>8, <1>9, <1>10 DEF TypeOK
<1> QED
    BY <1>1, <1>2, <1>3, <1>5, <1>7, <1>11, AddressAssumption

(***************************************************************************)
(* release_recurring pays exactly amount and counts the release.           *)
(***************************************************************************)
LEMMA ReleaseStep ==
    ASSUME TypeOK, release_recurring
    PROVE  /\ TypeOK' /\ escrow # None /\ escrow' # None
           /\ bal'[Contract] = bal[Contract] - escrow.amount
           /\ escrow'.milestones = escrow.milestones
           /\ escrow'.total_amount = escrow.total_amount
           /\ escrow'.amount = escrow.amount
           /\ escrow'.releases_made = escrow.releases_made + 1
           /\ escrow'.last_release_time = now /\ now' = now
           /\ escrow'.interval = escrow.interval
           /\ escrow'.recurrence_count = escrow.recurrence_count
<1>1. escrow # None /\ escrow \in EscrowData /\ escrow.amount \in Nat
    BY DEF release_recurring, TypeOK, EscrowData
<1>2. bal' \in [Holders -> Nat] /\ bal'[Contract] = bal[Contract] - escrow.amount
    BY <1>1, PayOutFacts DEF release_recurring
<1>3. PICK st \in EscrowStatus :
         escrow' = [escrow EXCEPT !.releases_made = @ + 1,
                                  !.last_release_time = now, !.status = st]
  <2>1. escrow.status \in EscrowStatus /\ "Completed" \in EscrowStatus
      BY <1>1 DEF EscrowData, EscrowStatus
  <2> QED BY <2>1 DEF release_recurring
<1>4. /\ escrow' \in EscrowData
      /\ escrow'.milestones = escrow.milestones
      /\ escrow'.total_amount = escrow.total_amount
      /\ escrow'.amount = escrow.amount
      /\ escrow'.releases_made = escrow.releases_made + 1
      /\ escrow'.last_release_time = now
      /\ escrow'.interval = escrow.interval
      /\ escrow'.recurrence_count = escrow.recurrence_count
  <2>1. now \in Nat
      BY DEF TypeOK
  <2>2. escrow.releases_made + 1 \in Nat
      BY <1>1 DEF EscrowData
  <2> QED BY <1>1, <1>3, <2>1, <2>2 DEF EscrowData
<1>5. config' = config /\ now' = now /\ auth' = None /\ ttl' = ttl /\ created' = created
    BY DEF release_recurring
<1>6. TypeOK'
    BY <1>1, <1>2, <1>4, <1>5 DEF TypeOK
<1> QED
    BY <1>1, <1>2, <1>4, <1>5, <1>6, AddressAssumption

(***************************************************************************)
(* cancel and expire pay the refund and leave the escrow in a final status.*)
(***************************************************************************)
LEMMA RefundStep ==
    ASSUME TypeOK, cancel \/ expire
    PROVE  /\ TypeOK' /\ escrow # None /\ escrow' # None
           /\ escrow.status = "Active"
           /\ escrow'.status \in {"Cancelled", "Expired"}
           /\ bal'[Contract] = bal[Contract] - Remaining(escrow)
           /\ escrow' = [escrow EXCEPT !.status = escrow'.status]
<1>1. PICK st \in {"Cancelled", "Expired"} : Refund(st)
    BY DEF cancel, expire
<1>2. /\ escrow # None /\ escrow \in EscrowData /\ escrow.status = "Active"
      /\ auth' = escrow.payer /\ config' = config /\ now' = now /\ created' = created
      /\ extend_ttl
    BY DEF cancel, expire, TypeOK
<1>3. Remaining(escrow) \in Int
    BY <1>2, RemainingFacts
<1>4. /\ bal \in [Holders -> Nat] /\ Contract \in Holders
      /\ escrow.payer \in Holders /\ escrow.payer # Contract
    BY <1>2, AddressAssumption DEF TypeOK, Holders, EscrowData
<1>5. bal' \in [Holders -> Nat] /\ bal'[Contract] = bal[Contract] - Remaining(escrow)
    BY <1>1, <1>3, <1>4, TransferFacts DEF Refund
<1>6. /\ escrow' = [escrow EXCEPT !.status = st]
      /\ escrow' \in EscrowData /\ escrow'.status = st
      /\ escrow'.milestones = escrow.milestones
      /\ escrow'.total_amount = escrow.total_amount
    BY <1>1, <1>2 DEF Refund, EscrowData, EscrowStatus
<1>7. ttl' \in Nat /\ auth' \in Accounts
    BY <1>2, TTLAssumption DEF extend_ttl, TypeOK, EscrowData
<1>8. TypeOK'
    BY <1>2, <1>5, <1>6, <1>7 DEF TypeOK
<1> QED
    BY <1>1, <1>2, <1>5, <1>6, <1>8, AddressAssumption

\* Two records that differ at most in payer, freelancer and deadline.
SameMoney(e, d) ==
    /\ d.milestones = e.milestones /\ d.total_amount = e.total_amount
    /\ d.status = e.status /\ d.amount = e.amount
    /\ d.releases_made = e.releases_made
    /\ d.last_release_time = e.last_release_time
    /\ d.interval = e.interval /\ d.recurrence_count = e.recurrence_count

(***************************************************************************)
(* transfer_freelancer, transfer_payer and extend_deadline touch neither   *)
(* the money nor the status.                                               *)
(***************************************************************************)
LEMMA RoleStep ==
    ASSUME TypeOK,
           \/ \E f \in Accounts : transfer_freelancer(f)
           \/ \E p \in Accounts : transfer_payer(p)
           \/ \E d \in Deadlines : extend_deadline(d)
    PROVE  /\ TypeOK' /\ escrow # None /\ escrow' # None
           /\ bal' = bal /\ now' = now
           /\ SameMoney(escrow, escrow')
<1>1. /\ escrow # None /\ escrow \in EscrowData
      /\ config' = config /\ bal' = bal /\ now' = now /\ created' = created /\ extend_ttl
    BY DEF transfer_freelancer, transfer_payer, extend_deadline, TypeOK
<1>2. auth' \in Accounts /\ ttl' \in Nat
    BY <1>1, TTLAssumption
    DEF transfer_freelancer, transfer_payer, extend_deadline, TypeOK, EscrowData, extend_ttl
<1>3. escrow' \in EscrowData /\ SameMoney(escrow, escrow')
  <2>1. ASSUME NEW f \in Accounts, transfer_freelancer(f)
        PROVE  escrow' \in EscrowData /\ SameMoney(escrow, escrow')
      BY <1>1, <2>1 DEF transfer_freelancer, EscrowData, SameMoney
  <2>2. ASSUME NEW p \in Accounts, transfer_payer(p)
        PROVE  escrow' \in EscrowData /\ SameMoney(escrow, escrow')
      BY <1>1, <2>2 DEF transfer_payer, EscrowData, SameMoney
  <2>3. ASSUME NEW d \in Deadlines, extend_deadline(d)
        PROVE  escrow' \in EscrowData /\ SameMoney(escrow, escrow')
    <3>1. d \in Nat
        BY CreateAssumption
    <3> QED BY <1>1, <2>3, <3>1 DEF extend_deadline, EscrowData, SameMoney
  <2> QED BY <2>1, <2>2, <2>3
<1>4. TypeOK'
    BY <1>1, <1>2, <1>3 DEF TypeOK, SameMoney
<1> QED
    BY <1>1, <1>3, <1>4, AddressAssumption

(***************************************************************************)
(* The ledger and donations: the escrow stays as it is and the contract's  *)
(* balance never falls.                                                    *)
(***************************************************************************)
LEMMA OutsideStep ==
    ASSUME TypeOK,
           \/ CloseLedger
           \/ RestoreInstance
           \/ \E from \in Accounts, amt \in Gifts : Donate(from, amt)
    PROVE  /\ TypeOK' /\ escrow' = escrow
           /\ bal'[Contract] >= bal[Contract]
           /\ Gifts = {} => bal' = bal
           /\ now' >= now
<1>1. ASSUME CloseLedger \/ RestoreInstance
      PROVE  /\ TypeOK' /\ escrow' = escrow /\ bal' = bal /\ now' >= now
    BY <1>1, TTLAssumption DEF CloseLedger, RestoreInstance, TypeOK
<1>2. bal[Contract] \in Nat
    BY DEF TypeOK, Holders
<1>3. ASSUME NEW from \in Accounts, NEW amt \in Gifts, Donate(from, amt)
      PROVE  /\ TypeOK' /\ escrow' = escrow /\ bal'[Contract] >= bal[Contract]
             /\ now' >= now
  <2>1. /\ bal \in [Holders -> Nat] /\ from \in Holders /\ Contract \in Holders
        /\ from # Contract /\ amt \in Nat
      BY AddressAssumption, AmountAssumption DEF TypeOK, Holders
  <2>2. bal' \in [Holders -> Nat] /\ bal'[Contract] = bal[Contract] + amt
      BY <1>3, <2>1, TransferFacts DEF Donate
  <2>3. TypeOK'
      BY <1>3, <2>2 DEF Donate, TypeOK
  <2>4. escrow' = escrow /\ now' = now /\ now \in Nat
      BY <1>3 DEF Donate, TypeOK
  <2> QED BY <1>2, <2>1, <2>2, <2>3, <2>4
<1> QED
    BY <1>1, <1>2, <1>3

(***************************************************************************)
(* Stuttering keeps everything.                                            *)
(***************************************************************************)
LEMMA StutterStep ==
    ASSUME TypeOK, UNCHANGED vars
    PROVE  TypeOK'
    BY DEF TypeOK, vars

(***************************************************************************)
(* Every step keeps the storage well typed, balances natural and           *)
(* total_amount the sum of the milestones.                                 *)
(***************************************************************************)
LEMMA TypeStep == TypeOK /\ [Next]_vars => TypeOK'
<1> SUFFICES ASSUME TypeOK, [Next]_vars PROVE TypeOK'
    OBVIOUS
<1>1. CASE UNCHANGED vars
    BY <1>1, StutterStep
<1>2. CASE Next
    BY <1>2, ConfigStep, CreateStep, SubmitStep, ApproveStep, ReleaseStep,
       RefundStep, RoleStep, OutsideStep DEF Next
<1> QED BY <1>1, <1>2

(***************************************************************************)
(* Type correctness of the escrow contract: all reachable states satisfy   *)
(* TypeOK, for any accounts, milestone vectors, fees and bounds.           *)
(***************************************************************************)
THEOREM TypeCorrect == Spec => []TypeOK
<1>1. Init => TypeOK
    BY AmountAssumption, TTLAssumption DEF Init, TypeOK, Holders
<1> QED
    BY <1>1, TypeStep, PTL DEF Spec

-----------------------------------------------------------------------------
(* Solvency *)

(***************************************************************************)
(* A fresh escrow is solvent: create moved its whole total to the contract.*)
(***************************************************************************)
LEMMA CreateSolvent ==
    ASSUME TypeOK,
           NEW p \in Accounts, NEW f \in Accounts, NEW ms \in MilestoneVecs,
           NEW d \in Deadlines \union {None}, NEW y \in Protocols,
           NEW r \in Recurrences, NEW a \in ReleaseAmounts,
           create(p, f, ms, d, y, r, a)
    PROVE  Solvent'
<1> SUFFICES bal'[Contract] >= Unspent(escrow')
    BY DEF Solvent
<1>1. TypeOK' /\ escrow' # None /\ bal'[Contract] = bal[Contract] + Total(ms)
    BY CreateStep
<1>2. /\ escrow'.milestones = ms /\ escrow'.total_amount = Total(ms)
      /\ escrow'.releases_made = 0 /\ escrow'.amount = a
      /\ ValidMilestones(ms)
    BY DEF create
<1>3. ms \in Seq(Milestone) /\ a \in Nat
    BY AmountAssumption
<1>4. Total(ms) \in Int /\ Released(ms) \in Int
    BY <1>3, SumTypes
<1>5. Released(ms) >= 0
  <2> DEFINE g == [i \in 1..Len(ms) |-> IF ms[i].status = "Approved" THEN ms[i].amount ELSE 0]
  <2>1. Len(ms) \in Nat /\ \A i \in 1..Len(ms) : g[i] \in Nat
    <3>1. \A i \in 1..Len(ms) : ms[i] \in Milestone /\ ms[i].amount > 0
        BY <1>2, <1>3 DEF ValidMilestones
    <3>2. \A i \in 1..Len(ms) : ms[i].amount \in Nat
        BY <3>1 DEF Milestone
    <3> QED BY <1>3, <3>2
  <2> HIDE DEF g
  <2>2. SumTo(g, Len(ms)) \in Nat
      BY <2>1, SumToMember
  <2> QED BY <2>2 DEF g, Released
<1>6. bal[Contract] \in Nat
    BY DEF TypeOK, Holders
<1>7. Unspent(escrow') = Total(ms) - Released(ms) - 0
    BY <1>2, <1>3 DEF Unspent
<1> QED
    BY <1>1, <1>4, <1>5, <1>6, <1>7

(***************************************************************************)
(* Solvent is inductive given TypeOK.  Payments lower the balance and      *)
(* Unspent by the same amount.  An approval can bring an escrow that was   *)
(* cancelled back as completed, but then no milestone is left to pay.      *)
(***************************************************************************)
LEMMA SolventStep == TypeOK /\ Solvent /\ [Next]_vars => Solvent'
<1> SUFFICES ASSUME TypeOK, Solvent, [Next]_vars PROVE Solvent'
    OBVIOUS
<1>0. bal[Contract] \in Int /\ (escrow # None => Unspent(escrow) \in Int)
    BY RemainingFacts DEF TypeOK, Holders
<1>1. CASE UNCHANGED vars
    BY <1>1 DEF Solvent, Unsettled, vars
<1>2. CASE \/ \E a, c \in Accounts, f \in FeeRates : init(a, f, c)
           \/ pause
           \/ unpause
  <2>1. escrow' = escrow /\ bal' = bal
      BY <1>2 DEF init, pause, unpause
  <2> QED BY <2>1 DEF Solvent, Unsettled
<1>3. CASE \E p, f \in Accounts, ms \in MilestoneVecs, d \in Deadlines \union {None},
              y \in Protocols, r \in Recurrences, a \in ReleaseAmounts :
                 create(p, f, ms, d, y, r, a)
    BY <1>3, CreateSolvent
<1>4. ASSUME NEW i, submit_work(i) PROVE Solvent'
  <2>1. bal' = bal /\ Released(escrow'.milestones) = Released(escrow.milestones)
      BY <1>4, SubmitStep
  <2>2. escrow # None /\ escrow \in EscrowData
      BY <1>4 DEF submit_work, TypeOK
  <2>3. /\ escrow'.status = escrow.status /\ escrow'.total_amount = escrow.total_amount
        /\ escrow'.amount = escrow.amount /\ escrow'.releases_made = escrow.releases_made
        BY <1>4, <2>2 DEF submit_work, EscrowData
  <2> QED BY <2>1, <2>2, <2>3 DEF Solvent, Unsettled, Unspent
<1>5. ASSUME NEW i, approve(i) PROVE Solvent'
  <2> SUFFICES ASSUME escrow'.status \in {"Active", "Completed"}
               PROVE  bal'[Contract] >= Unspent(escrow')
      BY DEF Solvent, Unsettled
  <2> DEFINE m == escrow.milestones[i].amount
  <2>1. /\ TypeOK' /\ escrow # None /\ escrow' # None /\ m \in Int
        /\ bal'[Contract] = bal[Contract] - m
        /\ Released(escrow'.milestones) = Released(escrow.milestones) + m
        /\ escrow'.status = IF AllApproved(escrow'.milestones)
                            THEN "Completed" ELSE escrow.status
        /\ escrow'.total_amount = escrow.total_amount
        /\ escrow'.amount = escrow.amount
        /\ escrow'.releases_made = escrow.releases_made
      BY <1>5, ApproveStep
  <2>2. /\ escrow.total_amount \in Int /\ escrow.milestones \in Seq(Milestone)
        /\ escrow.amount \in Nat /\ escrow.releases_made \in Nat
      BY <2>1 DEF TypeOK, EscrowData
  <2>3. Released(escrow.milestones) \in Int
        /\ escrow.amount * escrow.releases_made \in Nat
      BY <2>2, SumTypes
  <2> HIDE DEF m
  <2>4. CASE AllApproved(escrow'.milestones)
    <3>1. /\ escrow'.milestones \in Seq(Milestone) /\ bal'[Contract] \in Nat
          /\ \A k \in DOMAIN escrow'.milestones : escrow'.milestones[k].amount > 0
          /\ escrow'.total_amount = Total(escrow'.milestones)
        BY <2>1 DEF TypeOK, EscrowData, Holders
    <3>2. Released(escrow'.milestones) = escrow'.total_amount
        BY <2>4, <3>1, ReleasedBound
    <3>3. Unspent(escrow') = 0 - escrow.amount * escrow.releases_made
        BY <2>1, <2>2, <2>3, <3>2 DEF Unspent
    <3> QED BY <2>3, <3>1, <3>3
  <2>5. CASE ~ AllApproved(escrow'.milestones)
    <3>1. bal[Contract] >= Unspent(escrow)
        BY <2>1, <2>5 DEF Solvent, Unsettled
    <3>2. Unspent(escrow') = Unspent(escrow) - m
        BY <2>1, <2>2, <2>3 DEF Unspent
    <3> QED BY <1>0, <2>1, <3>1, <3>2
  <2> QED BY <2>4, <2>5
<1>6. CASE release_recurring
  <2> SUFFICES bal'[Contract] >= Unspent(escrow')
      BY DEF Solvent
  <2>1. /\ escrow # None /\ bal'[Contract] = bal[Contract] - escrow.amount
        /\ escrow'.milestones = escrow.milestones
        /\ escrow'.total_amount = escrow.total_amount
        /\ escrow'.amount = escrow.amount
        /\ escrow'.releases_made = escrow.releases_made + 1
      BY <1>6, ReleaseStep
  <2>2. escrow.status = "Active"
      BY <1>6 DEF release_recurring
  <2>3. /\ escrow.total_amount \in Int /\ escrow.milestones \in Seq(Milestone)
        /\ escrow.amount \in Int /\ escrow.releases_made \in Int
      BY <2>1 DEF TypeOK, EscrowData
  <2>4. Released(escrow.milestones) \in Int
      BY <2>3, SumTypes
  <2>5. escrow.amount * (escrow.releases_made + 1)
            = escrow.amount * escrow.releases_made + escrow.amount
      BY <2>3
  <2>6. escrow.amount * escrow.releases_made \in Int
      BY <2>3
  <2>7. Unspent(escrow') = Unspent(escrow) - escrow.amount
      BY <2>1, <2>3, <2>4, <2>5, <2>6 DEF Unspent
  <2>8. bal[Contract] >= Unspent(escrow)
      BY <2>1, <2>2 DEF Solvent, Unsettled
  <2> QED BY <1>0, <2>1, <2>3, <2>7, <2>8
<1>7. CASE cancel \/ expire
    BY <1>7, RefundStep DEF Solvent, Unsettled
<1>8. CASE \/ \E f \in Accounts : transfer_freelancer(f)
           \/ \E p \in Accounts : transfer_payer(p)
           \/ \E d \in Deadlines : extend_deadline(d)
  <2>1. escrow # None /\ bal' = bal /\ SameMoney(escrow, escrow')
      BY <1>8, RoleStep
  <2> QED BY <2>1 DEF Solvent, Unsettled, Unspent, SameMoney
<1>9. CASE \/ CloseLedger
           \/ RestoreInstance
           \/ \E from \in Accounts, amt \in Gifts : Donate(from, amt)
  <2>1. escrow' = escrow /\ bal'[Contract] >= bal[Contract] /\ TypeOK'
      BY <1>9, OutsideStep
  <2>2. bal'[Contract] \in Int
      BY <2>1 DEF TypeOK, Holders
  <2> QED BY <1>0, <2>1, <2>2 DEF Solvent, Unsettled
<1> QED
    BY <1>1, <1>2, <1>3, <1>4, <1>5, <1>6, <1>7, <1>8, <1>9 DEF Next

(***************************************************************************)
(* Solvency of the contract, for every mix of milestone and recurring      *)
(* payments, fee rates, preset milestone statuses, yield deposits and      *)
(* donations.                                                              *)
(***************************************************************************)
THEOREM AlwaysSolvent == Spec => []Solvent
<1>1. Init => Solvent
    BY DEF Init, Solvent, Unsettled
<1> QED
    BY <1>1, TypeCorrect, SolventStep, PTL DEF Spec

(***************************************************************************)
(* The refund of an escrow without recurring releases so far is always     *)
(* covered, so cancel and expire cannot fail at the token transfer.        *)
(***************************************************************************)
THEOREM RefundAlwaysCovered == Spec => []RefundCovered
<1>1. TypeOK /\ Solvent => RefundCovered
  <2> SUFFICES ASSUME TypeOK, Solvent, Active, escrow.releases_made = 0
               PROVE  TransferOK(bal, Contract, Remaining(escrow))
      BY DEF RefundCovered
  <2>1. bal[Contract] >= Unspent(escrow)
      BY DEF Solvent, Unsettled, Active
  <2>2. Remaining(escrow) >= 0 /\ Remaining(escrow) = Unspent(escrow)
      BY RemainingFacts DEF Active
  <2> QED BY <2>1, <2>2 DEF TransferOK
<1> QED
    BY <1>1, TypeCorrect, AlwaysSolvent, PTL

-----------------------------------------------------------------------------
(* The pace of recurring releases *)

(***************************************************************************)
(* RecurringPace is inductive given TypeOK: last_release_time starts at the*)
(* time of creation, and a release needs a full interval since it and moves*)
(* it to the present.                                                      *)
(***************************************************************************)
LEMMA PaceStep == TypeOK /\ RecurringPace /\ [Next]_vars => RecurringPace'
<1> SUFFICES ASSUME TypeOK, RecurringPace, [Next]_vars PROVE RecurringPace'
    OBVIOUS
<1>1. CASE UNCHANGED vars
    BY <1>1 DEF RecurringPace, vars
<1>2. CASE \/ \E a, c \in Accounts, f \in FeeRates : init(a, f, c)
           \/ pause
           \/ unpause
  <2>1. escrow' = escrow /\ now' = now /\ created' = created
      BY <1>2 DEF init, pause, unpause
  <2> QED BY <2>1 DEF RecurringPace
<1>3. ASSUME NEW p \in Accounts, NEW f \in Accounts, NEW ms \in MilestoneVecs,
             NEW d \in Deadlines \union {None}, NEW y \in Protocols,
             NEW r \in Recurrences, NEW a \in ReleaseAmounts,
             create(p, f, ms, d, y, r, a)
      PROVE  RecurringPace'
  <2>1. /\ escrow'.releases_made = 0 /\ escrow'.interval = r[1]
        /\ escrow'.recurrence_count = r[2] /\ escrow'.last_release_time = now
        /\ created' = now /\ now' = now /\ now \in Nat
      BY <1>3 DEF create, TypeOK
  <2>2. r[1] \in Nat /\ r[2] \in Nat
      BY CreateAssumption
  <2>3. 0 * r[1] = 0
      BY <2>2
  <2> QED BY <2>1, <2>2, <2>3 DEF RecurringPace
<1>4. ASSUME NEW i, submit_work(i) \/ approve(i) PROVE RecurringPace'
  <2>1. escrow # None /\ escrow \in EscrowData /\ now' = now /\ created' = created
      BY <1>4 DEF submit_work, approve, TypeOK
  <2>2. /\ escrow'.releases_made = escrow.releases_made
        /\ escrow'.recurrence_count = escrow.recurrence_count
        /\ escrow'.interval = escrow.interval
        /\ escrow'.last_release_time = escrow.last_release_time
    <3>1. CASE submit_work(i)
        BY <2>1, <3>1 DEF submit_work, EscrowData
    <3>2. CASE approve(i)
        BY <2>1, <3>2 DEF approve, EscrowData
    <3> QED BY <1>4, <3>1, <3>2
  <2> QED BY <2>1, <2>2 DEF RecurringPace
<1>5. CASE release_recurring
  <2>1. /\ escrow # None
        /\ escrow'.releases_made = escrow.releases_made + 1
        /\ escrow'.last_release_time = now /\ now' = now
        /\ escrow'.interval = escrow.interval
        /\ escrow'.recurrence_count = escrow.recurrence_count
      BY <1>5, ReleaseStep
  <2>2. /\ escrow.releases_made < escrow.recurrence_count
        /\ now >= escrow.last_release_time + escrow.interval
        /\ created' = created
      BY <1>5 DEF release_recurring, IntervalElapsed
  <2>3. /\ escrow.releases_made \in Nat /\ escrow.recurrence_count \in Nat
        /\ escrow.interval \in Nat /\ escrow.last_release_time \in Nat
        /\ now \in Nat /\ created \in Nat
      BY <2>1 DEF TypeOK, EscrowData
  <2>4. created + escrow.releases_made * escrow.interval <= escrow.last_release_time
      BY <2>1 DEF RecurringPace
  <2>5. (escrow.releases_made + 1) * escrow.interval
            = escrow.releases_made * escrow.interval + escrow.interval
      BY <2>3
  <2>6. escrow.releases_made * escrow.interval \in Nat
      BY <2>3
  <2>7. created + (escrow.releases_made * escrow.interval + escrow.interval) <= now
      BY <2>2, <2>3, <2>4, <2>6
  <2> QED BY <2>1, <2>2, <2>3, <2>5, <2>7 DEF RecurringPace
<1>6. CASE cancel \/ expire
  <2>1. escrow # None /\ escrow \in EscrowData /\ now' = now /\ created' = created
      BY <1>6 DEF cancel, expire, TypeOK
  <2>2. PICK st : escrow' = [escrow EXCEPT !.status = st]
      BY <1>6 DEF cancel, expire, Refund
  <2>3. /\ escrow'.releases_made = escrow.releases_made
        /\ escrow'.recurrence_count = escrow.recurrence_count
        /\ escrow'.interval = escrow.interval
        /\ escrow'.last_release_time = escrow.last_release_time
      BY <2>1, <2>2 DEF EscrowData
  <2> QED BY <2>1, <2>3 DEF RecurringPace
<1>7. CASE \/ \E f \in Accounts : transfer_freelancer(f)
           \/ \E p \in Accounts : transfer_payer(p)
           \/ \E d \in Deadlines : extend_deadline(d)
  <2>1. escrow # None /\ now' = now /\ SameMoney(escrow, escrow')
      BY <1>7, RoleStep
  <2>2. created' = created
      BY <1>7 DEF transfer_freelancer, transfer_payer, extend_deadline
  <2> QED BY <2>1, <2>2 DEF RecurringPace, SameMoney
<1>8. CASE \/ CloseLedger
           \/ RestoreInstance
           \/ \E from \in Accounts, amt \in Gifts : Donate(from, amt)
  <2>1. escrow' = escrow /\ now' >= now /\ TypeOK'
      BY <1>8, OutsideStep
  <2>2. now \in Int /\ now' \in Int /\ (escrow # None => escrow.last_release_time \in Int)
      BY <2>1 DEF TypeOK, EscrowData
  <2>3. created' = created
      BY <1>8 DEF CloseLedger, RestoreInstance, Donate
  <2> QED BY <2>1, <2>2, <2>3 DEF RecurringPace
<1> QED
    BY <1>1, <1>2, <1>3, <1>4, <1>5, <1>6, <1>7, <1>8 DEF Next

(***************************************************************************)
(* n recurring releases take at least n intervals of ledger time, counted  *)
(* from the moment the escrow was created.                                 *)
(***************************************************************************)
THEOREM PaceKept == Spec => []RecurringPace
<1>1. Init => RecurringPace
    BY DEF Init, RecurringPace
<1> QED
    BY <1>1, TypeCorrect, PaceStep, PTL DEF Spec

-----------------------------------------------------------------------------
(* Exact custody and final statuses, for ClosedInputs *)

(***************************************************************************)
(* A vector none of whose milestones is approved has released nothing.     *)
(***************************************************************************)
LEMMA NothingReleased ==
    ASSUME NEW ms \in Seq(Milestone), \A i \in DOMAIN ms : ms[i].status # "Approved"
    PROVE  Released(ms) = 0
<1> DEFINE g == [i \in 1..Len(ms) |-> IF ms[i].status = "Approved" THEN ms[i].amount ELSE 0]
<1>1. Len(ms) \in Nat /\ DOMAIN ms = 1..Len(ms)
    OBVIOUS
<1>2. \A i \in 1..Len(ms) : g[i] = 0
    BY <1>1
<1> HIDE DEF g
<1>3. SumTo(g, Len(ms)) = 0
    BY <1>1, <1>2, SumToZero
<1> QED
    BY <1>3 DEF g, Released

(***************************************************************************)
(* While the books balance, approve succeeds only on an active or completed*)
(* escrow: its transfer needs funds and any other escrow has none.         *)
(***************************************************************************)
LEMMA ApproveOnlyUnsettled ==
    ASSUME TypeOK, Custody, NEW i, approve(i)
    PROVE  Unsettled
<1>1. /\ TypeOK' /\ escrow # None
      /\ escrow.milestones[i].amount \in Nat \ {0}
      /\ bal'[Contract] = bal[Contract] - escrow.milestones[i].amount
    BY ApproveStep
<1>2. bal'[Contract] \in Nat
    BY <1>1 DEF TypeOK, Holders
<1>3. bal[Contract] # 0
    BY <1>1, <1>2
<1> QED
    BY <1>3 DEF Custody

(***************************************************************************)
(* With balanced books a refund that goes through is one before any        *)
(* recurring release took something out, so it is all the contract holds.  *)
(***************************************************************************)
LEMMA RefundAll ==
    ASSUME TypeOK, RecurringPace, Custody, cancel \/ expire
    PROVE  bal[Contract] = Remaining(escrow)
<1>1. /\ TypeOK' /\ escrow # None /\ escrow.status = "Active"
      /\ bal'[Contract] = bal[Contract] - Remaining(escrow)
    BY RefundStep
<1>2. /\ escrow.amount \in Nat /\ escrow.releases_made \in Nat
      /\ escrow.recurrence_count \in Nat /\ escrow.total_amount \in Int
      /\ escrow.milestones \in Seq(Milestone)
    BY <1>1 DEF TypeOK, EscrowData
<1>3. Released(escrow.milestones) \in Int /\ escrow.amount * escrow.releases_made \in Nat
    BY <1>2, SumTypes
<1>4. bal[Contract] = Unspent(escrow)
    BY <1>1 DEF Custody, Unsettled
<1>5. bal'[Contract] \in Nat
    BY <1>1 DEF TypeOK, Holders
<1>6. CASE escrow.recurrence_count = 0
  <2>1. escrow.releases_made = 0
      BY <1>1, <1>2, <1>6 DEF RecurringPace
  <2> QED BY <1>1, <1>4, <2>1, RemainingFacts
<1>7. CASE escrow.recurrence_count > 0
  <2> DEFINE drawn == escrow.amount * escrow.releases_made
             kept  == escrow.total_amount - Released(escrow.milestones)
  <2>1. Remaining(escrow) = kept + drawn /\ Unspent(escrow) = kept - drawn
      BY <1>7 DEF Remaining, Unspent
  <2>2. kept \in Int /\ drawn \in Nat
      BY <1>2, <1>3
  <2> HIDE DEF kept, drawn
  <2>3. drawn = 0
      BY <1>1, <1>4, <1>5, <2>1, <2>2
  <2> QED BY <1>4, <2>1, <2>2, <2>3
<1> QED BY <1>2, <1>6, <1>7

(***************************************************************************)
(* Custody is inductive given TypeOK, RecurringPace and closed inputs.     *)
(***************************************************************************)
LEMMA CustodyStep ==
    ASSUME ClosedInputs
    PROVE  TypeOK /\ RecurringPace /\ Custody /\ [Next]_vars => Custody'
<1> SUFFICES ASSUME TypeOK, RecurringPace, Custody, [Next]_vars PROVE Custody'
    OBVIOUS
<1>0. bal[Contract] \in Int
    BY DEF TypeOK, Holders
<1>1. CASE UNCHANGED vars
    BY <1>1 DEF Custody, Unsettled, vars
<1>2. CASE \/ \E a, c \in Accounts, f \in FeeRates : init(a, f, c)
           \/ pause
           \/ unpause
  <2>1. escrow' = escrow /\ bal' = bal
      BY <1>2 DEF init, pause, unpause
  <2> QED BY <2>1 DEF Custody, Unsettled
<1>3. ASSUME NEW p \in Accounts, NEW f \in Accounts, NEW ms \in MilestoneVecs,
             NEW d \in Deadlines \union {None}, NEW y \in Protocols,
             NEW r \in Recurrences, NEW a \in ReleaseAmounts,
             create(p, f, ms, d, y, r, a)
      PROVE  Custody'
  <2>1. ms \in Seq(Milestone) /\ a \in Nat
      BY AmountAssumption
  <2>2. escrow' # None /\ bal'[Contract] = bal[Contract] + Total(ms)
      BY <1>3, <2>1, CreateStep
  <2>3. /\ escrow = None /\ escrow'.status = "Active" /\ escrow'.milestones = ms
        /\ escrow'.total_amount = Total(ms) /\ escrow'.releases_made = 0
        /\ escrow'.amount = a
      BY <1>3 DEF create
  <2>4. Released(ms) = 0 /\ Total(ms) \in Int
      BY <2>1, NothingReleased, SumTypes DEF ClosedInputs
  <2>5. bal[Contract] = 0
      BY <2>3 DEF Custody, Unsettled
  <2>6. Unspent(escrow') = Total(ms)
      BY <2>1, <2>3, <2>4 DEF Unspent
  <2> QED BY <2>1, <2>2, <2>3, <2>4, <2>5, <2>6 DEF Custody, Unsettled
<1>4. ASSUME NEW i, submit_work(i) PROVE Custody'
  <2>1. /\ escrow' # None /\ bal' = bal
        /\ Released(escrow'.milestones) = Released(escrow.milestones)
      BY <1>4, SubmitStep
  <2>2. escrow # None /\ escrow \in EscrowData
      BY <1>4 DEF submit_work, TypeOK
  <2>3. /\ escrow'.status = escrow.status /\ escrow'.total_amount = escrow.total_amount
        /\ escrow'.amount = escrow.amount /\ escrow'.releases_made = escrow.releases_made
      BY <1>4, <2>2 DEF submit_work, EscrowData
  <2> QED BY <2>1, <2>2, <2>3 DEF Custody, Unsettled, Unspent
<1>5. ASSUME NEW i, approve(i) PROVE Custody'
  <2> DEFINE m == escrow.milestones[i].amount
  <2>1. /\ escrow # None /\ escrow' # None
        /\ m \in Int /\ bal'[Contract] = bal[Contract] - m
        /\ Released(escrow'.milestones) = Released(escrow.milestones) + m
        /\ escrow'.status = IF AllApproved(escrow'.milestones)
                            THEN "Completed" ELSE escrow.status
        /\ escrow'.total_amount = escrow.total_amount
        /\ escrow'.amount = escrow.amount
        /\ escrow'.releases_made = escrow.releases_made
      BY <1>5, ApproveStep
  <2>2. Unsettled
      BY <1>5, ApproveOnlyUnsettled
  <2>3. /\ escrow.total_amount \in Int /\ escrow.milestones \in Seq(Milestone)
        /\ escrow.amount \in Nat /\ escrow.releases_made \in Nat
      BY <2>1 DEF TypeOK, EscrowData
  <2>4. /\ Released(escrow.milestones) \in Int
        /\ escrow.amount * escrow.releases_made \in Int
      BY <2>3, SumTypes
  <2>5. bal[Contract] = Unspent(escrow)
      BY <2>2 DEF Custody
  <2>6. Unsettled'
      BY <2>1, <2>2 DEF Unsettled
  <2> HIDE DEF m
  <2>7. Unspent(escrow') = Unspent(escrow) - m
      BY <2>1, <2>3, <2>4 DEF Unspent
  <2> QED BY <2>1, <2>5, <2>6, <2>7 DEF Custody
<1>6. CASE release_recurring
  <2>1. /\ escrow # None /\ escrow' # None
        /\ bal'[Contract] = bal[Contract] - escrow.amount
        /\ escrow'.milestones = escrow.milestones
        /\ escrow'.total_amount = escrow.total_amount
        /\ escrow'.amount = escrow.amount
        /\ escrow'.releases_made = escrow.releases_made + 1
        /\ escrow'.status \in {"Active", "Completed"}
    <3>1. escrow \in EscrowData /\ escrow.status = "Active"
        BY <1>6 DEF release_recurring, TypeOK
    <3>2. escrow'.status \in {"Active", "Completed"}
        BY <1>6, <3>1 DEF release_recurring, EscrowData
    <3> QED BY <1>6, <3>2, ReleaseStep
  <2>2. escrow.status = "Active"
      BY <1>6 DEF release_recurring
  <2>3. /\ escrow.total_amount \in Int /\ escrow.milestones \in Seq(Milestone)
        /\ escrow.amount \in Int /\ escrow.releases_made \in Int
      BY <2>1 DEF TypeOK, EscrowData
  <2>4. Released(escrow.milestones) \in Int
      BY <2>3, SumTypes
  <2>5. /\ escrow.amount * (escrow.releases_made + 1)
             = escrow.amount * escrow.releases_made + escrow.amount
        /\ escrow.amount * escrow.releases_made \in Int
      BY <2>3
  <2>6. Unspent(escrow') = Unspent(escrow) - escrow.amount
      BY <2>1, <2>3, <2>4, <2>5 DEF Unspent
  <2>7. bal[Contract] = Unspent(escrow)
      BY <2>1, <2>2 DEF Custody, Unsettled
  <2> QED BY <2>1, <2>6, <2>7 DEF Custody, Unsettled
<1>7. CASE cancel \/ expire
  <2>1. /\ escrow'.status \in {"Cancelled", "Expired"}
        /\ bal'[Contract] = bal[Contract] - Remaining(escrow)
      BY <1>7, RefundStep
  <2>2. bal[Contract] = Remaining(escrow)
      BY <1>7, RefundAll
  <2> QED BY <1>0, <2>1, <2>2 DEF Custody, Unsettled
<1>8. CASE \/ \E f \in Accounts : transfer_freelancer(f)
           \/ \E p \in Accounts : transfer_payer(p)
           \/ \E d \in Deadlines : extend_deadline(d)
  <2>1. escrow # None /\ escrow' # None /\ bal' = bal /\ SameMoney(escrow, escrow')
      BY <1>8, RoleStep
  <2> QED BY <2>1 DEF Custody, Unsettled, Unspent, SameMoney
<1>9. CASE \/ CloseLedger
           \/ RestoreInstance
           \/ \E from \in Accounts, amt \in Gifts : Donate(from, amt)
  <2>1. escrow' = escrow /\ bal' = bal
      BY <1>9, OutsideStep DEF ClosedInputs
  <2> QED BY <2>1 DEF Custody, Unsettled
<1> QED
    BY <1>1, <1>2, <1>3, <1>4, <1>5, <1>6, <1>7, <1>8, <1>9 DEF Next

(***************************************************************************)
(* Exact custody: with closed inputs the contract holds exactly what an    *)
(* active or completed escrow has not paid out, and nothing otherwise,     *)
(* whatever mix of milestones, recurring releases, fees and refunds.       *)
(***************************************************************************)
THEOREM CustodyExact ==
    ASSUME ClosedInputs
    PROVE  Spec => []Custody
<1>1. Init => Custody
    BY AddressAssumption DEF Init, Custody, Unsettled, Holders
<1>2. TypeOK /\ RecurringPace /\ Custody /\ [Next]_vars => Custody'
    BY CustodyStep
<1> QED
    BY <1>1, <1>2, TypeCorrect, PaceKept, PTL DEF Spec

(***************************************************************************)
(* With balanced books no step changes the status of an ended escrow.      *)
(***************************************************************************)
LEMMA FinalStep ==
    ASSUME ClosedInputs, TypeOK, Custody, [Next]_vars, Terminal
    PROVE  escrow' # None /\ escrow'.status = escrow.status
<1>0. escrow # None /\ escrow \in EscrowData /\ escrow.status # "Active"
    BY DEF Terminal, TypeOK
<1>1. CASE \/ \E a, c \in Accounts, f \in FeeRates : init(a, f, c)
           \/ pause
           \/ unpause
           \/ UNCHANGED vars
    BY <1>0, <1>1 DEF init, pause, unpause, vars
<1>2. CASE \E p, f \in Accounts, ms \in MilestoneVecs, d \in Deadlines \union {None},
              y \in Protocols, r \in Recurrences, a \in ReleaseAmounts :
                 create(p, f, ms, d, y, r, a)
    BY <1>0, <1>2 DEF create
<1>3. ASSUME NEW i, submit_work(i) PROVE FALSE
    BY <1>0, <1>3 DEF submit_work
<1>4. ASSUME NEW i, approve(i) PROVE escrow' # None /\ escrow'.status = escrow.status
  <2>1. escrow.status = "Completed"
      BY <1>0, <1>4, ApproveOnlyUnsettled DEF Unsettled
  <2>2. /\ escrow' # None
        /\ escrow'.status = IF AllApproved(escrow'.milestones)
                            THEN "Completed" ELSE escrow.status
      BY <1>4, ApproveStep
  <2> QED BY <2>1, <2>2
<1>5. CASE release_recurring \/ cancel \/ expire
    BY <1>0, <1>5 DEF release_recurring, cancel, expire
<1>6. CASE \/ \E f \in Accounts : transfer_freelancer(f)
           \/ \E p \in Accounts : transfer_payer(p)
           \/ \E d \in Deadlines : extend_deadline(d)
    BY <1>6, RoleStep DEF SameMoney
<1>7. CASE \/ CloseLedger
           \/ RestoreInstance
           \/ \E from \in Accounts, amt \in Gifts : Donate(from, amt)
    BY <1>0, <1>7, OutsideStep
<1> QED
    BY <1>1, <1>2, <1>3, <1>4, <1>5, <1>6, <1>7 DEF Next

(***************************************************************************)
(* With closed inputs Completed, Cancelled and Expired are final, although *)
(* approve never looks at the status: it finds funds in a completed escrow *)
(* only, and leaves it completed.                                          *)
(***************************************************************************)
THEOREM StatusFinal ==
    ASSUME ClosedInputs
    PROVE  Spec => TerminalFinal
<1>1. TypeOK /\ Custody /\ [Next]_vars => [Terminal => escrow'.status = escrow.status]_vars
    BY FinalStep
<1> QED
    BY <1>1, TypeCorrect, CustodyExact, PTL DEF Spec, TerminalFinal

-----------------------------------------------------------------------------
(* Who may move money and roles, and who is paid *)

(***************************************************************************)
(* A payment reaches nobody but the freelancer and the fee collector.      *)
(***************************************************************************)
LEMMA PaidToPayees ==
    ASSUME TypeOK, escrow # None, NEW amount \in Nat, PayOut(amount),
           NEW a \in Accounts, bal'[a] > bal[a]
    PROVE  a \in Payees
<1>1. bal[a] \in Nat
    BY DEF TypeOK, Holders
<1>2. /\ FeeOf(amount) > 0 => config # None
      /\ bal'[a] = bal[a] + (IF FeeOf(amount) > 0 /\ a = config.fee_collector
                             THEN FeeOf(amount) ELSE 0)
                          + (IF a = escrow.freelancer THEN amount - FeeOf(amount) ELSE 0)
    BY PaymentSplit
<1> QED BY <1>1, <1>2 DEF Payees

\* What Consent asks of a step of an existing escrow.
Consented ==
    /\ bal'[Contract] < bal[Contract] =>
          /\ auth' = escrow.payer \/ Due
          /\ \A a \in Accounts : bal'[a] > bal[a] => a \in Payees
    /\ escrow'.payer # escrow.payer => auth' = escrow.payer
    /\ escrow'.freelancer # escrow.freelancer => auth' = escrow.freelancer

(***************************************************************************)
(* Every step moves money and roles only with consent.                     *)
(***************************************************************************)
LEMMA ConsentStep ==
    ASSUME TypeOK, escrow # None, [Next]_vars
    PROVE  Consented
<1>0. escrow \in EscrowData /\ bal[Contract] \in Nat
    BY DEF TypeOK, Holders
<1>1. ASSUME bal' = bal, escrow'.payer = escrow.payer, escrow'.freelancer = escrow.freelancer
      PROVE  Consented
    BY <1>0, <1>1 DEF Consented
<1>2. CASE UNCHANGED vars
    BY <1>1, <1>2 DEF vars
<1>3. CASE \/ \E a, c \in Accounts, f \in FeeRates : init(a, f, c)
           \/ pause
           \/ unpause
    BY <1>1, <1>3 DEF init, pause, unpause
<1>4. CASE \E p, f \in Accounts, ms \in MilestoneVecs, d \in Deadlines \union {None},
              y \in Protocols, r \in Recurrences, a \in ReleaseAmounts :
                 create(p, f, ms, d, y, r, a)
    BY <1>4 DEF create
<1>5. ASSUME NEW i, submit_work(i) PROVE Consented
    BY <1>0, <1>1, <1>5 DEF submit_work, EscrowData
<1>6. ASSUME NEW i, approve(i) PROVE Consented
  <2>1. PayOut(escrow.milestones[i].amount) /\ auth' = escrow.payer
      BY <1>6 DEF approve
  <2>2. escrow.milestones[i].amount \in Nat
      BY <1>6, ApproveStep
  <2>3. \A a \in Accounts : bal'[a] > bal[a] => a \in Payees
      BY <2>1, <2>2, PaidToPayees
  <2>4. escrow'.freelancer = escrow.freelancer
      BY <1>0, <1>6 DEF approve, EscrowData
  <2> QED BY <2>1, <2>3, <2>4 DEF Consented
<1>7. CASE release_recurring
  <2>1. PayOut(escrow.amount) /\ escrow.amount \in Nat /\ Due
      BY <1>0, <1>7 DEF release_recurring, EscrowData, Due, IntervalElapsed
  <2>2. \A a \in Accounts : bal'[a] > bal[a] => a \in Payees
      BY <2>1, PaidToPayees
  <2>3. escrow'.payer = escrow.payer /\ escrow'.freelancer = escrow.freelancer
      BY <1>0, <1>7 DEF release_recurring, EscrowData
  <2> QED BY <2>1, <2>2, <2>3 DEF Consented
<1>8. CASE cancel \/ expire
  <2>1. PICK st : Refund(st)
      BY <1>8 DEF cancel, expire
  <2>2. auth' = escrow.payer
      BY <1>8 DEF cancel, expire
  <2>3. /\ bal \in [Holders -> Nat] /\ Contract \notin Accounts
        /\ Accounts \subseteq Holders
      BY AddressAssumption DEF TypeOK, Holders
  <2>4. \A a \in Accounts : a # escrow.payer => bal'[a] = bal[a]
      BY <2>1, <2>3 DEF Refund, Transfer
  <2>5. \A a \in Accounts : bal'[a] > bal[a] => a \in Payees
      BY <2>3, <2>4 DEF Payees
  <2>6. escrow'.freelancer = escrow.freelancer
      BY <1>0, <2>1 DEF Refund, EscrowData
  <2> QED BY <2>2, <2>5, <2>6 DEF Consented
<1>9. CASE \E f \in Accounts : transfer_freelancer(f)
    BY <1>0, <1>9 DEF transfer_freelancer, EscrowData, Consented
<1>10. CASE \E p \in Accounts : transfer_payer(p)
    BY <1>0, <1>10 DEF transfer_payer, EscrowData, Consented
<1>11. CASE \E d \in Deadlines : extend_deadline(d)
    BY <1>0, <1>1, <1>11 DEF extend_deadline, EscrowData
<1>12. CASE \/ CloseLedger
            \/ RestoreInstance
            \/ \E from \in Accounts, amt \in Gifts : Donate(from, amt)
  <2>1. escrow' = escrow /\ bal'[Contract] >= bal[Contract] /\ TypeOK'
      BY <1>12, OutsideStep
  <2>2. bal'[Contract] \in Nat
      BY <2>1 DEF TypeOK, Holders
  <2> QED BY <1>0, <2>1, <2>2 DEF Consented
<1> QED
    BY <1>2, <1>3, <1>4, <1>5, <1>6, <1>7, <1>8, <1>9, <1>10, <1>11, <1>12 DEF Next

(***************************************************************************)
(* Money and roles move only with the consent of who holds them at that    *)
(* moment, or on the schedule, and money goes to the present roles only.   *)
(***************************************************************************)
THEOREM AlwaysConsent == Spec => Consent
<1>1. TypeOK /\ [Next]_vars => [escrow # None => Consented]_vars
    BY ConsentStep
<1> QED
    BY <1>1, TypeCorrect, PTL DEF Spec, Consent, Consented

(***************************************************************************)
(* The calls that need an authorisation keep the instance alive.           *)
(***************************************************************************)
THEOREM AlwaysKeptAlive == Spec => KeptAlive
<1>1. TypeOK /\ [Next]_vars
        => [auth' # None /\ <<config, escrow>>' # <<config, escrow>>
               => ttl' > TTL_MIN_LEDGERS]_vars
  <2> SUFFICES ASSUME TypeOK, Next, auth' # None, <<config, escrow>>' # <<config, escrow>>
               PROVE  ttl' > TTL_MIN_LEDGERS
      OBVIOUS
  <2>1. extend_ttl => ttl' > TTL_MIN_LEDGERS
      BY TTLAssumption DEF extend_ttl, TypeOK
  <2>2. CASE \/ \E a, c \in Accounts, f \in FeeRates : init(a, f, c)
             \/ pause \/ unpause
      BY <2>1, <2>2 DEF init, pause, unpause
  <2>3. CASE \E p, f \in Accounts, ms \in MilestoneVecs, d \in Deadlines \union {None},
                y \in Protocols, r \in Recurrences, a \in ReleaseAmounts :
                   create(p, f, ms, d, y, r, a)
      BY <2>1, <2>3 DEF create
  <2>4. CASE \/ \E i \in MilestoneIndices : submit_work(i)
             \/ \E i \in MilestoneIndices : approve(i)
             \/ cancel \/ expire
      BY <2>1, <2>4 DEF submit_work, approve, cancel, expire
  <2>5. CASE \/ \E f \in Accounts : transfer_freelancer(f)
             \/ \E p \in Accounts : transfer_payer(p)
             \/ \E d \in Deadlines : extend_deadline(d)
      BY <2>1, <2>5 DEF transfer_freelancer, transfer_payer, extend_deadline
  <2>6. CASE release_recurring \/ CloseLedger \/ RestoreInstance
      BY <2>6 DEF release_recurring, CloseLedger, RestoreInstance
  <2>7. CASE \E from \in Accounts, amt \in Gifts : Donate(from, amt)
      BY <2>7 DEF Donate
  <2> QED BY <2>2, <2>3, <2>4, <2>5, <2>6, <2>7 DEF Next
<1> QED
    BY <1>1, TypeCorrect, PTL DEF Spec, KeptAlive

-----------------------------------------------------------------------------
(***************************************************************************)
(* With plain inputs the escrow contract implements Custody, for every set *)
(* of accounts, milestone vector, fee and deadline.                        *)
(***************************************************************************)

(***************************************************************************)
(* What the mapping needs beside Custody: no recurring release is ever     *)
(* made, and an escrow completes only by the approval of all milestones.   *)
(***************************************************************************)
Plainly ==
    escrow # None =>
        /\ escrow.interval = 0 \/ escrow.recurrence_count = 0
        /\ escrow.releases_made = 0
        /\ escrow.status = "Completed" => AllApproved(escrow.milestones)

PlainInv == TypeOK /\ RecurringPace /\ Custody /\ Plainly

-----------------------------------------------------------------------------
(* Milestone vectors *)

(***************************************************************************)
(* Raising one term of a sum and lowering none raises the sum.             *)
(***************************************************************************)
LEMMA SumToStrict ==
    ASSUME NEW f, NEW g, NEW n \in Nat, NEW i \in 1..n, g[i] < f[i],
           \A k \in 1..n : f[k] \in Int /\ g[k] \in Int /\ g[k] <= f[k]
    PROVE  SumTo(g, n) < SumTo(f, n)
<1> DEFINE h == [k \in 1..n |-> IF k = i THEN f[k] ELSE g[k]]
<1>1. /\ \A k \in 1..n : h[k] \in Int /\ h[k] <= f[k]
      /\ \A k \in 1..n : k # i => h[k] = g[k]
      /\ h[i] = f[i]
    OBVIOUS
<1> HIDE DEF h
<1>2. SumTo(h, n) = SumTo(g, n) + (h[i] - g[i])
    BY <1>1, SumToUpdate
<1>3. SumTo(h, n) <= SumTo(f, n)
    BY <1>1, SumToMono
<1>4. SumTo(g, n) \in Int /\ SumTo(f, n) \in Int
    BY SumToInt
<1> QED
    BY <1>1, <1>2, <1>3, <1>4

(***************************************************************************)
(* Everything is released only when all milestones are approved, and what  *)
(* create locks is positive.                                               *)
(***************************************************************************)
LEMMA ReleasedAll ==
    ASSUME NEW ms \in Seq(Milestone), \A i \in DOMAIN ms : ms[i].amount > 0
    PROVE  /\ Released(ms) = Total(ms) => AllApproved(ms)
           /\ ms # << >> => Total(ms) > 0
<1> DEFINE f == [i \in 1..Len(ms) |-> ms[i].amount]
           g == [i \in 1..Len(ms) |-> IF ms[i].status = "Approved" THEN ms[i].amount ELSE 0]
<1>1. /\ Len(ms) \in Nat /\ DOMAIN ms = 1..Len(ms)
      /\ \A i \in 1..Len(ms) : ms[i] \in Milestone
    OBVIOUS
<1>2. \A i \in 1..Len(ms) : g[i] \in Int /\ f[i] \in Int /\ g[i] <= f[i] /\ f[i] \in Nat /\ f[i] > 0
    BY <1>1 DEF Milestone
<1>3. \A i \in 1..Len(ms) : ms[i].status # "Approved" => g[i] < f[i]
    BY <1>1, <1>2
<1>4. Total(ms) = SumTo(f, Len(ms)) /\ Released(ms) = SumTo(g, Len(ms))
    BY DEF Total, Released
<1> HIDE DEF f, g
<1>5. ASSUME NEW i \in 1..Len(ms), ms[i].status # "Approved" PROVE Released(ms) < Total(ms)
    BY <1>1, <1>2, <1>3, <1>4, <1>5, SumToStrict
<1>6. Total(ms) \in Int /\ Released(ms) \in Int
    BY SumTypes
<1>7. Released(ms) = Total(ms) => AllApproved(ms)
    BY <1>1, <1>5, <1>6 DEF AllApproved
<1>8. ms # << >> => Total(ms) > 0
  <2> SUFFICES ASSUME ms # << >> PROVE Total(ms) > 0
      OBVIOUS
  <2>1. 1 \in 1..Len(ms)
      BY <1>1
  <2>2. f[1] <= SumTo(f, Len(ms)) /\ SumTo(f, Len(ms)) \in Nat
      BY <1>1, <1>2, <2>1, SumToMember
  <2> QED BY <1>2, <1>4, <2>1, <2>2
<1> QED
    BY <1>7, <1>8

-----------------------------------------------------------------------------
(* The mapping *)

(***************************************************************************)
(* The book's only entry, now and in the next state.                       *)
(***************************************************************************)
LEMMA BookEntry ==
    /\ CustodyBook[0] =
          IF escrow = None THEN Promise!Fresh
          ELSE Promise!Entry(IF Active THEN "open" ELSE "done", bal[Contract],
                             escrow.payer, escrow.freelancer, "token")
    /\ CustodyBook'[0] =
          IF escrow' = None THEN Promise!Fresh
          ELSE Promise!Entry(IF Active' THEN "open" ELSE "done", bal'[Contract],
                             escrow'.payer, escrow'.freelancer, "token")
    /\ \A e : CustodyBook'[0] = e => CustodyBook' = [CustodyBook EXCEPT ![0] = e]
<1>1. /\ CustodyBook = [i \in {0} |-> CustodyBook[0]]
      /\ CustodyBook' = [i \in {0} |-> CustodyBook'[0]]
    BY DEF CustodyBook
<1>2. \A e : CustodyBook'[0] = e => CustodyBook' = [CustodyBook EXCEPT ![0] = e]
    BY <1>1
<1> QED
    BY <1>2 DEF CustodyBook, Promise!Fresh, Promise!Entry

(***************************************************************************)
(* The wallets when one account's balance, or that of two, changes.        *)
(***************************************************************************)
LEMMA WalletCredit ==
    ASSUME NEW a \in Accounts, NEW amt \in Int,
           \A h \in Accounts : bal'[h] = IF h = a THEN bal[h] + amt ELSE bal[h]
    PROVE  CustodyWallet' = Promise!Credit(CustodyWallet, "token", a, amt)
<1>1. /\ CustodyWallet = [t \in {"token"} |-> [h \in Accounts |-> bal[h]]]
      /\ CustodyWallet' = [t \in {"token"} |-> [h \in Accounts |-> bal'[h]]]
    BY DEF CustodyWallet
<1>2. CustodyWallet["token"] = [h \in Accounts |-> bal[h]]
    BY <1>1
<1>3. [h \in Accounts |-> bal'[h]]
        = [CustodyWallet["token"] EXCEPT ![a] = CustodyWallet["token"][a] + amt]
    BY <1>2
<1>4. CustodyWallet' = [CustodyWallet EXCEPT !["token"] = [h \in Accounts |-> bal'[h]]]
    BY <1>1
<1> QED
    BY <1>3, <1>4 DEF Promise!Credit

LEMMA WalletCreditTwo ==
    ASSUME NEW a \in Accounts, NEW b \in Accounts, NEW x \in Int, NEW y \in Int,
           \A h \in Accounts : bal[h] \in Int,
           \A h \in Accounts :
              bal'[h] = bal[h] + (IF h = a THEN x ELSE 0) + (IF h = b THEN y ELSE 0)
    PROVE  CustodyWallet' =
              Promise!Credit(Promise!Credit(CustodyWallet, "token", a, x), "token", b, y)
<1> DEFINE w == Promise!Credit(CustodyWallet, "token", a, x)
           v == [h \in Accounts |-> bal[h] + IF h = a THEN x ELSE 0]
<1>1. /\ CustodyWallet = [t \in {"token"} |-> [h \in Accounts |-> bal[h]]]
      /\ CustodyWallet' = [t \in {"token"} |-> [h \in Accounts |-> bal'[h]]]
    BY DEF CustodyWallet
<1>2. CustodyWallet["token"] = [h \in Accounts |-> bal[h]]
    BY <1>1
<1>3. [CustodyWallet["token"] EXCEPT ![a] = CustodyWallet["token"][a] + x] = v
    BY <1>2
<1>4. w = [t \in {"token"} |-> v]
    BY <1>1, <1>3 DEF Promise!Credit
<1>5. w["token"] = v
    BY <1>4
<1>6. [h \in Accounts |-> bal'[h]] = [v EXCEPT ![b] = v[b] + y]
  <2>1. \A h \in Accounts : bal'[h] = IF h = b THEN v[h] + y ELSE v[h]
      OBVIOUS
  <2>2. DOMAIN v = Accounts /\ v = [h \in Accounts |-> v[h]]
      OBVIOUS
  <2> HIDE DEF v
  <2> QED BY <2>1, <2>2
<1> HIDE DEF v, w
<1>7. CustodyWallet' = [w EXCEPT !["token"] = [w["token"] EXCEPT ![b] = w["token"][b] + y]]
    BY <1>1, <1>4, <1>5, <1>6
<1>8. CustodyWallet' = Promise!Credit(w, "token", b, y)
    BY <1>7 DEF Promise!Credit
<1> QED
    BY <1>8 DEF w

(***************************************************************************)
(* A payment credits the fee to one account and the rest to the freelancer.*)
(***************************************************************************)
LEMMA PaymentWallets ==
    ASSUME TypeOK, escrow # None, NEW amount \in Nat, PayOut(amount)
    PROVE  \E c \in Accounts : \E fee \in 0..amount :
              CustodyWallet' =
                 Promise!Credit(Promise!Credit(CustodyWallet, "token", c, fee),
                                "token", escrow.freelancer, amount - fee)
<1> DEFINE fee == FeeOf(amount)
           f == escrow.freelancer
           c == IF fee > 0 THEN config.fee_collector ELSE f
<1>1. /\ fee \in 0..amount
      /\ fee > 0 => config.fee_collector \in Accounts
      /\ \A h \in Accounts :
            bal'[h] = bal[h] + (IF fee > 0 /\ h = config.fee_collector THEN fee ELSE 0)
                             + (IF h = f THEN amount - fee ELSE 0)
    BY PaymentSplit
<1>2. f \in Accounts /\ \A h \in Accounts : bal[h] \in Int
    BY DEF TypeOK, EscrowData, Holders
<1> HIDE DEF fee, f
<1>3. /\ c \in Accounts /\ fee \in Int /\ amount - fee \in Int
      /\ \A h \in Accounts :
            bal'[h] = bal[h] + (IF h = c THEN fee ELSE 0) + (IF h = f THEN amount - fee ELSE 0)
    BY <1>1, <1>2
<1> HIDE DEF c
<1>4. CustodyWallet' =
         Promise!Credit(Promise!Credit(CustodyWallet, "token", c, fee), "token", f, amount - fee)
    BY <1>2, <1>3, WalletCreditTwo
<1> QED
    BY <1>1, <1>3, <1>4, Zenon DEF f

-----------------------------------------------------------------------------
(* Steps *)

(***************************************************************************)
(* create opens the escrow.                                                *)
(***************************************************************************)
LEMMA CreateOpens ==
    ASSUME PlainInputs, PlainInv, NEW p \in Accounts, NEW f \in Accounts,
           NEW ms \in MilestoneVecs, NEW d \in Deadlines \union {None}, NEW y \in Protocols,
           NEW r \in Recurrences, NEW a \in ReleaseAmounts, create(p, f, ms, d, y, r, a)
    PROVE  Promise!Next /\ Plainly'
<1> DEFINE t == Total(ms)
           e == Promise!Entry("open", t, p, f, "token")
<1>1. /\ ms \in Seq(Milestone) /\ t \in Int
      /\ \A i \in DOMAIN ms : ms[i].amount > 0 /\ ms # << >>
      /\ r[1] = 0 \/ r[2] = 0
    BY AmountAssumption, SumTypes DEF PlainInputs, ClosedInputs, create, ValidMilestones
<1>2. t > 0
    BY <1>1, ReleasedAll DEF create, ValidMilestones
<1>3. /\ escrow = None /\ escrow' # None /\ bal'[Contract] = bal[Contract] + t
      /\ bal[Contract] = 0
    BY <1>1, CreateStep DEF PlainInv, Custody, Unsettled, create
<1>4. /\ escrow'.payer = p /\ escrow'.freelancer = f /\ escrow'.status = "Active"
      /\ escrow'.interval = r[1] /\ escrow'.recurrence_count = r[2]
      /\ escrow'.releases_made = 0
    BY DEF create
<1>5. CustodyBook[0] = Promise!Fresh
    BY <1>3, BookEntry
<1>6. CustodyBook'[0] = e
    BY <1>1, <1>3, <1>4, BookEntry DEF Active
<1> HIDE DEF e, t
<1>7. CustodyBook' = [CustodyBook EXCEPT ![0] = e]
    BY <1>6, BookEntry
<1>8. /\ TransferOK(bal, p, t) /\ bal' = Transfer(bal, p, Contract, t)
    BY <1>1 DEF create, t
<1>9. /\ bal \in [Holders -> Nat] /\ p \in Holders /\ Contract \notin Accounts
      /\ Accounts \subseteq Holders /\ Contract \in Holders
    BY AddressAssumption DEF PlainInv, TypeOK, Holders
<1>10. \A h \in Accounts : bal'[h] = IF h = p THEN bal[h] + (-t) ELSE bal[h]
    BY <1>1, <1>8, <1>9 DEF Transfer
<1>11. CustodyWallet' = Promise!Credit(CustodyWallet, "token", p, -t)
  <2>1. -t \in Int
      BY <1>1
  <2> QED BY <1>10, <2>1, WalletCredit
<1>12. CustodyWallet["token"][p] = bal[p]
    BY DEF CustodyWallet
<1>13. t <= CustodyWallet["token"][p] /\ t \in 1..CustodyWallet["token"][p]
    BY <1>1, <1>2, <1>8, <1>9, <1>12 DEF TransferOK
<1>14. Promise!Open(0, p, f, "token", t)
    BY <1>2, <1>5, <1>7, <1>11, <1>13 DEF Promise!Open, e
<1>15. Plainly'
    BY <1>1, <1>4 DEF Plainly
<1> QED
    BY <1>13, <1>14, <1>15 DEF Promise!Next

(***************************************************************************)
(* approve releases one milestone, and the escrow is over exactly when     *)
(* that was all that was left.                                             *)
(***************************************************************************)
LEMMA ApproveReleases ==
    ASSUME PlainInv, NEW i, approve(i)
    PROVE  Promise!Next /\ Plainly'
<1> DEFINE m == escrow.milestones[i].amount
           ns == escrow'.milestones
           e == CustodyBook[0]
<1>1. /\ TypeOK' /\ escrow # None /\ escrow' # None /\ m \in Nat \ {0}
      /\ i \in DOMAIN escrow.milestones
      /\ bal'[Contract] = bal[Contract] - m
      /\ Released(ns) = Released(escrow.milestones) + m
      /\ escrow'.status = IF AllApproved(ns) THEN "Completed" ELSE escrow.status
      /\ escrow'.total_amount = escrow.total_amount
      /\ escrow'.amount = escrow.amount
      /\ escrow'.releases_made = escrow.releases_made
    BY ApproveStep DEF PlainInv
<1>2. escrow.status = "Active"
  <2>1. Unsettled
      BY ApproveOnlyUnsettled DEF PlainInv
  <2>2. ~ AllApproved(escrow.milestones)
      BY <1>1 DEF approve, AllApproved
  <2> QED BY <2>1, <2>2 DEF PlainInv, Plainly, Unsettled
<1>3. escrow \in EscrowData
    BY <1>1 DEF PlainInv, TypeOK
<1>4. /\ escrow'.payer = escrow.payer /\ escrow'.freelancer = escrow.freelancer
      /\ escrow'.interval = escrow.interval
      /\ escrow'.recurrence_count = escrow.recurrence_count
    BY <1>3 DEF approve, EscrowData
<1>5. /\ bal[Contract] = Unspent(escrow)
      /\ bal[Contract] \in Nat /\ bal'[Contract] \in Nat
    BY <1>1, <1>2 DEF PlainInv, Custody, Unsettled, TypeOK, Holders
<1>6. /\ escrow.total_amount \in Int /\ escrow.milestones \in Seq(Milestone)
      /\ ns \in Seq(Milestone) /\ escrow'.total_amount = Total(ns)
      /\ \A k \in DOMAIN ns : ns[k].amount > 0
      /\ escrow.amount \in Nat /\ escrow.releases_made = 0
    BY <1>1, <1>3 DEF PlainInv, Plainly, TypeOK, EscrowData
<1>7. bal'[Contract] = Total(ns) - Released(ns)
  <2>1. Unspent(escrow) = escrow.total_amount - Released(escrow.milestones)
    <3>1. escrow.amount * escrow.releases_made = 0
        BY <1>6
    <3>2. Released(escrow.milestones) \in Int
        BY <1>6, SumTypes
    <3> QED BY <1>6, <3>1, <3>2 DEF Unspent
  <2>2. Released(escrow.milestones) \in Int /\ Released(ns) \in Int /\ Total(ns) \in Int
      BY <1>6, SumTypes
  <2>3. /\ m \in Int /\ bal'[Contract] = bal[Contract] - m
        /\ Released(ns) = Released(escrow.milestones) + m
        /\ Total(ns) = escrow.total_amount /\ bal[Contract] = Unspent(escrow)
      BY <1>1, <1>5, <1>6
  <2> HIDE DEF m, ns
  <2> QED BY <2>1, <2>2, <2>3
<1>8. AllApproved(ns) <=> bal'[Contract] = 0
  <2>1. Released(ns) \in Int /\ Total(ns) \in Int
      BY <1>6, SumTypes
  <2>2. AllApproved(ns) <=> Released(ns) = Total(ns)
      BY <1>6, ReleasedBound, ReleasedAll
  <2> HIDE DEF ns
  <2> QED BY <1>7, <2>1, <2>2
<1>9. Active' <=> bal'[Contract] # 0
    BY <1>1, <1>2, <1>8 DEF Active
<1>10. e = Promise!Entry("open", bal[Contract], escrow.payer, escrow.freelancer, "token")
    BY <1>1, <1>2, BookEntry DEF Active
<1>F. /\ e.phase = "open" /\ e.locked = bal[Contract] /\ e.payer = escrow.payer
           /\ e.payee = escrow.freelancer /\ e.token = "token"
    BY <1>10 DEF Promise!Entry
<1>11. CustodyBook'[0] = Promise!Entry(IF m = e.locked THEN "done" ELSE "open", e.locked - m,
                                      e.payer, e.payee, e.token)
  <2>1. CustodyBook'[0] =
          Promise!Entry(IF Active' THEN "open" ELSE "done", bal'[Contract],
                        escrow.payer, escrow.freelancer, "token")
      BY <1>1, <1>4, BookEntry
  <2>2. m = e.locked <=> bal'[Contract] = 0
      BY <1>1, <1>5, <1>F
  <2>3. /\ bal'[Contract] = e.locked - m
        /\ (IF Active' THEN "open" ELSE "done") = (IF m = e.locked THEN "done" ELSE "open")
      BY <1>1, <1>9, <1>F, <2>2
  <2> HIDE DEF e, m
  <2> QED BY <1>F, <2>1, <2>3
<1>12. PayOut(m)
    BY DEF approve
<1>13. PICK c \in Accounts, fee \in 0..m :
          CustodyWallet' = Promise!Credit(Promise!Credit(CustodyWallet, "token", c, fee),
                                          "token", escrow.freelancer, m - fee)
  <2>1. m \in Nat
      BY <1>1
  <2> HIDE DEF m
  <2> QED BY <1>1, <1>12, <2>1, PaymentWallets DEF PlainInv
<1>14. /\ e.phase = "open" /\ e.token = "token" /\ e.payee = escrow.freelancer
       /\ m \in 1..e.locked
    BY <1>1, <1>5, <1>F
<1>15. Promise!Release(0, m, fee, c)
  <2> HIDE DEF m
  <2> QED BY <1>11, <1>13, <1>14, BookEntry DEF Promise!Release
<1>16. Plainly'
    BY <1>1, <1>2, <1>4 DEF PlainInv, Plainly
<1> HIDE DEF m
<1> QED
    BY <1>13, <1>14, <1>15, <1>16 DEF Promise!Next

(***************************************************************************)
(* cancel and expire refund all that is left.                              *)
(***************************************************************************)
LEMMA EndRefunds ==
    ASSUME PlainInv, cancel \/ expire
    PROVE  Promise!Next /\ Plainly'
<1> DEFINE e == CustodyBook[0]
           n == Remaining(escrow)
<1>1. /\ escrow # None /\ escrow' # None /\ escrow.status = "Active"
      /\ escrow'.status \in {"Cancelled", "Expired"}
      /\ bal'[Contract] = bal[Contract] - n /\ bal[Contract] = n
      /\ escrow' = [escrow EXCEPT !.status = escrow'.status]
    BY RefundStep, RefundAll DEF PlainInv
<1>2. escrow \in EscrowData /\ bal \in [Holders -> Nat] /\ Contract \in Holders
    BY <1>1 DEF PlainInv, TypeOK, Holders
<1>3. /\ escrow'.payer = escrow.payer /\ escrow'.freelancer = escrow.freelancer
      /\ escrow'.interval = escrow.interval /\ escrow'.milestones = escrow.milestones
      /\ escrow'.recurrence_count = escrow.recurrence_count
      /\ escrow'.releases_made = escrow.releases_made
  <2>1. PICK st \in {"Cancelled", "Expired"} : escrow' = [escrow EXCEPT !.status = st]
      BY DEF cancel, expire, Refund
  <2> QED BY <1>2, <2>1 DEF EscrowData
<1>4. bal' = Transfer(bal, Contract, escrow.payer, n)
    BY DEF cancel, expire, Refund
<1>5. n \in Nat /\ bal'[Contract] = 0
    BY <1>1, <1>2
<1>6. e = Promise!Entry("open", n, escrow.payer, escrow.freelancer, "token")
    BY <1>1, BookEntry DEF Active
<1>F. /\ e.phase = "open" /\ e.locked = n /\ e.payer = escrow.payer
           /\ e.payee = escrow.freelancer /\ e.token = "token"
    BY <1>6 DEF Promise!Entry
<1>7. CustodyBook'[0] = Promise!Entry("done", 0, e.payer, e.payee, e.token)
  <2>1. ~ Active'
      BY <1>1 DEF Active
  <2>2. CustodyBook'[0] = Promise!Entry("done", 0, escrow.payer, escrow.freelancer, "token")
      BY <1>1, <1>3, <1>5, <2>1, BookEntry
  <2> HIDE DEF e
  <2> QED BY <1>F, <2>2
<1> HIDE DEF n
<1>8. escrow.payer \in Accounts /\ Contract \notin Accounts /\ Accounts \subseteq Holders
    BY <1>2, AddressAssumption DEF EscrowData, Holders
<1>9. \A h \in Accounts : bal'[h] = IF h = escrow.payer THEN bal[h] + n ELSE bal[h]
    BY <1>2, <1>4, <1>5, <1>8 DEF Transfer
<1>10. CustodyWallet' = Promise!Credit(CustodyWallet, "token", escrow.payer, n)
    BY <1>5, <1>8, <1>9, WalletCredit
<1>11. Promise!Refund(0)
    BY <1>F, <1>7, <1>10, BookEntry DEF Promise!Refund
<1>12. Plainly'
    BY <1>1, <1>3 DEF PlainInv, Plainly
<1> QED
    BY <1>11, <1>12 DEF Promise!Next

(***************************************************************************)
(* The transfers of a role reassign it; extend_deadline is one that        *)
(* changes neither.                                                        *)
(***************************************************************************)
LEMMA RolesReassign ==
    ASSUME PlainInv,
           \/ \E f \in Accounts : transfer_freelancer(f)
           \/ \E p \in Accounts : transfer_payer(p)
           \/ \E d \in Deadlines : extend_deadline(d)
    PROVE  Promise!Next /\ Plainly'
<1> DEFINE p == escrow'.payer
           f == escrow'.freelancer
           e == CustodyBook[0]
<1>1. /\ TypeOK' /\ escrow # None /\ escrow' # None /\ bal' = bal
      /\ escrow'.status = escrow.status /\ escrow'.milestones = escrow.milestones
      /\ escrow'.releases_made = escrow.releases_made
      /\ escrow'.interval = escrow.interval
      /\ escrow'.recurrence_count = escrow.recurrence_count
    BY RoleStep DEF PlainInv, SameMoney
<1>2. p \in Accounts /\ f \in Accounts
    BY <1>1 DEF TypeOK, EscrowData
<1>3. Active' <=> Active
    BY <1>1 DEF Active
<1>4. /\ e = Promise!Entry(IF Active THEN "open" ELSE "done", bal[Contract],
                           escrow.payer, escrow.freelancer, "token")
      /\ CustodyBook'[0] = Promise!Entry(IF Active THEN "open" ELSE "done", bal[Contract],
                                         p, f, "token")
    BY <1>1, <1>3, BookEntry
<1>5. e.phase # "new" /\ CustodyBook'[0] = Promise!Entry(e.phase, e.locked, p, f, e.token)
  <2> HIDE DEF e, p, f
  <2>1. /\ e.phase = IF Active THEN "open" ELSE "done"
        /\ e.locked = bal[Contract] /\ e.token = "token"
      BY <1>4 DEF Promise!Entry
  <2> QED BY <1>4, <2>1
<1>6. CustodyWallet' = CustodyWallet
    BY <1>1 DEF CustodyWallet
<1>7. Promise!Reassign(0, p, f)
    BY <1>5, <1>6, BookEntry DEF Promise!Reassign
<1>8. Plainly'
    BY <1>1 DEF PlainInv, Plainly
<1> QED
    BY <1>2, <1>7, <1>8 DEF Promise!Next

(***************************************************************************)
(* submit_work pays nothing and leaves the escrow active.                  *)
(***************************************************************************)
LEMMA SubmitStutters ==
    ASSUME PlainInv, NEW i, submit_work(i)
    PROVE  CustodyBook' = CustodyBook /\ CustodyWallet' = CustodyWallet /\ Plainly'
<1>1. escrow # None /\ escrow' # None /\ bal' = bal /\ escrow.status = "Active"
    BY SubmitStep DEF PlainInv, submit_work
<1>2. escrow \in EscrowData
    BY <1>1 DEF PlainInv, TypeOK
<1>3. /\ escrow'.status = escrow.status /\ escrow'.payer = escrow.payer
      /\ escrow'.freelancer = escrow.freelancer
      /\ escrow'.releases_made = escrow.releases_made
      /\ escrow'.interval = escrow.interval
      /\ escrow'.recurrence_count = escrow.recurrence_count
    BY <1>2 DEF submit_work, EscrowData
<1>4. CustodyBook' = CustodyBook
    BY <1>1, <1>3 DEF CustodyBook, Active
<1>5. CustodyWallet' = CustodyWallet
    BY <1>1 DEF CustodyWallet
<1>6. Plainly'
    BY <1>1, <1>3 DEF PlainInv, Plainly
<1> QED
    BY <1>4, <1>5, <1>6

(***************************************************************************)
(* Every step maps to one of Custody's or to a stutter.                    *)
(***************************************************************************)
LEMMA StepMaps ==
    ASSUME PlainInputs, PlainInv, [Next]_vars
    PROVE  Plainly' /\ (Promise!Next \/ (CustodyBook' = CustodyBook /\ CustodyWallet' = CustodyWallet))
<1>1. ASSUME escrow' = escrow, bal' = bal
      PROVE  Plainly' /\ CustodyBook' = CustodyBook /\ CustodyWallet' = CustodyWallet
    BY <1>1 DEF PlainInv, Plainly, CustodyBook, CustodyWallet, Active
<1>2. CASE \/ UNCHANGED vars
           \/ \E a, c \in Accounts, f \in FeeRates : init(a, f, c)
           \/ pause
           \/ unpause
           \/ CloseLedger
           \/ RestoreInstance
  <2>1. escrow' = escrow /\ bal' = bal
      BY <1>2 DEF vars, init, pause, unpause, CloseLedger, RestoreInstance
  <2> QED BY <1>1, <2>1
<1>3. ~ release_recurring
    BY DEF PlainInv, Plainly, release_recurring
<1>4. ~ \E from \in Accounts, amt \in Gifts : Donate(from, amt)
    BY DEF PlainInputs, ClosedInputs
<1> QED
    BY <1>2, <1>3, <1>4, CreateOpens, ApproveReleases, EndRefunds, RolesReassign, SubmitStutters
    DEF Next

-----------------------------------------------------------------------------
(***************************************************************************)
(* With plain inputs the escrow contract implements Custody: every call is *)
(* one payment to the freelancer less a fee, one refund of all that is     *)
(* left, a change of roles, or invisible, and the status leaves Active in  *)
(* the very step that empties the contract.                                *)
(***************************************************************************)
THEOREM EscrowImplementsCustody ==
    ASSUME PlainInputs
    PROVE  Spec => ImplementsCustody
<1>1. ClosedInputs
    BY DEF PlainInputs
<1>2. Init => Plainly /\ Promise!Init
  <2> SUFFICES ASSUME Init PROVE Plainly /\ Promise!Init
      OBVIOUS
  <2>1. CustodyBook = [i \in {0} |-> Promise!Fresh]
      BY DEF Init, CustodyBook, Promise!Fresh, Promise!Entry
  <2>2. CustodyWallet \in [{"token"} -> [Accounts -> Nat]]
      BY AmountAssumption DEF Init, CustodyWallet, Holders
  <2> QED BY <2>1, <2>2 DEF Init, Plainly, Promise!Init
<1>3. PlainInv /\ [Next]_vars => Plainly' /\ [Promise!Next]_<<CustodyBook, CustodyWallet>>
    BY StepMaps
<1>4. PlainInv <=> TypeOK /\ RecurringPace /\ Custody /\ Plainly
    BY DEF PlainInv
<1>5. Spec => []Custody
    BY <1>1, CustodyExact
<1> QED
    BY <1>2, <1>3, <1>4, <1>5, TypeCorrect, PaceKept, PTL
    DEF Spec, ImplementsCustody, Promise!Spec, Promise!cvars

=============================================================================
