------------------------------- MODULE Escrow -------------------------------
(***************************************************************************)
(* contracts/escrow: one deployed instance of EscrowContract, the token it *)
(* holds funds in, and the ledger that gives it time and storage rent.     *)
(*                                                                         *)
(* A Soroban invocation is one atomic transaction: an Err, a panic, a      *)
(* missing authorisation or an arithmetic overflow (the release profile    *)
(* keeps overflow checks on) rolls everything back.  An entry point is     *)
(* therefore one action whose guard is the conjunction of everything that  *)
(* must not fail on the way to Ok(()).                                     *)
(*                                                                         *)
(* Left out of the record: the token address (there is one token, and the  *)
(* allowlist, which no entry point can fill, never rejects it), milestone  *)
(* descriptions, and yield_recipient, which only the uncalled              *)
(* withdraw_funds reads.  The field amount is read by release_recurring,   *)
(* cancel and expire but is not declared by EscrowData; its value is left  *)
(* open here (any member of ReleaseAmounts, fixed when the escrow is       *)
(* created).                                                               *)
(***************************************************************************)
EXTENDS Integers, Sequences, Token, Sums

CONSTANTS
    Accounts,          \* addresses that can sign
    Contract,          \* the escrow contract's own address
    Yield,             \* the yield protocol's address
    None,              \* Rust's None, and an absent storage entry
    Funds,             \* what every account holds initially
    MilestoneVecs,     \* milestone vectors passed to create
    Deadlines,         \* timestamps passed to create and extend_deadline
    Protocols,         \* yield_protocol arguments: a subset of {None, Yield}
    Recurrences,       \* <<interval, recurrence_count>> arguments of create
    ReleaseAmounts,    \* values of the undeclared field amount
    FeeRates,          \* fee_bps arguments of init
    Gifts,             \* amounts an outsider may send to the contract
    TTL_MIN_LEDGERS,   \* storage.rs: threshold of extend_ttl
    TTL_MAX_LEDGERS,   \* storage.rs: what extend_ttl extends to
    PersistentTTL,     \* what the network grants a new or restored entry
    I128_MAX,          \* largest amount the arithmetic can represent
    MaxTime            \* bound on the ledger clock

EscrowStatus    == {"Active", "WorkSubmitted", "Completed", "Cancelled", "Expired"}
MilestoneStatus == {"Pending", "Submitted", "Approved"}
Milestone       == [amount : Int, status : MilestoneStatus]
Holders         == Accounts \union {Contract}

EscrowData ==
    [payer : Accounts, freelancer : Accounts, total_amount : Int,
     milestones : Seq(Milestone), status : EscrowStatus,
     deadline : Nat \union {None}, yield_protocol : {None, Yield},
     principal_deposited : Int, interval : Nat, recurrence_count : Nat,
     releases_made : Nat, last_release_time : Nat, amount : Nat]

ProtocolConfig ==
    [admin : Accounts, paused : BOOLEAN, fee_bps : Nat, fee_collector : Accounts]

ASSUME AddressAssumption ==
    /\ Contract \notin Accounts /\ Yield \notin Accounts /\ Contract # Yield
    /\ None \notin Accounts \union {Yield} /\ None \notin Nat
    /\ None \notin EscrowData /\ None \notin ProtocolConfig
ASSUME AmountAssumption ==
    /\ Funds \in Nat /\ I128_MAX \in Nat
    /\ MilestoneVecs \subseteq Seq(Milestone)
    /\ ReleaseAmounts \subseteq Nat /\ FeeRates \subseteq Nat /\ Gifts \subseteq Nat
ASSUME CreateAssumption ==
    /\ Deadlines \subseteq Nat /\ Protocols \subseteq {None, Yield}
    /\ Recurrences \subseteq Nat \X Nat
ASSUME TTLAssumption ==
    /\ TTL_MIN_LEDGERS \in Nat /\ TTL_MAX_LEDGERS \in Nat /\ PersistentTTL \in Nat
    /\ TTL_MIN_LEDGERS < TTL_MAX_LEDGERS /\ PersistentTTL > 0
    /\ MaxTime \in Nat

VARIABLES
    config,   \* DataKey::Config, a ProtocolConfig or None
    escrow,   \* DataKey::Escrow(0), an EscrowData or None
    bal,      \* token balance of every holder
    now,      \* env.ledger().timestamp(), one unit per closed ledger
    ttl,      \* ledgers left before the contract instance is archived
    auth,     \* whose authorisation the last invocation required, or None
    created   \* history: the ledger time at which create succeeded

vars == <<config, escrow, bal, now, ttl, auth, created>>

-----------------------------------------------------------------------------
(* Helpers *)

MilestoneIndices == UNION {DOMAIN ms : ms \in MilestoneVecs}

\* create's running total over a milestone vector.
Total(ms) == SumTo([i \in 1..Len(ms) |-> ms[i].amount], Len(ms))

\* cancel's and expire's released_amount: the approved milestones.
Released(ms) ==
    SumTo([i \in 1..Len(ms) |->
              IF ms[i].status = "Approved" THEN ms[i].amount ELSE 0], Len(ms))

\* Mutant: approved milestones are not deducted from the refund.
RemainingUndeducted(e) ==
    e.total_amount + IF e.recurrence_count > 0 THEN e.amount * e.releases_made ELSE 0

\* What cancel and expire send back to the payer.
Remaining(e) ==
    e.total_amount - Released(e.milestones)
        + IF e.recurrence_count > 0 THEN e.amount * e.releases_made ELSE 0

SetMilestone(ms, i, status) == [ms EXCEPT ![i] = [@ EXCEPT !.status = status]]

AllApproved(ms) == \A i \in DOMAIN ms : ms[i].status = "Approved"

Paused == config # None /\ config.paused

assert_not_paused == ~Paused

\* An archived instance cannot be invoked until somebody restores it.
Live == ttl > 0

\* Mutant: an instance exactly at the threshold is not extended.
extend_ttl_late ==
    ttl' = IF ttl < TTL_MIN_LEDGERS THEN TTL_MAX_LEDGERS ELSE ttl

\* extend_ttl acts only once the remaining TTL has fallen to the threshold.
extend_ttl ==
    ttl' = IF ttl <= TTL_MIN_LEDGERS THEN TTL_MAX_LEDGERS ELSE ttl

FeeOf(amount) ==
    IF config = None THEN 0 ELSE (amount * config.fee_bps) \div 10000

\* The product is computed in i128.
FeeFits(amount) == config # None => amount * config.fee_bps <= I128_MAX

\* Mutant: the fee is withheld from the freelancer but never sent.
PayOutFeeKept(amount) ==
    /\ FeeFits(amount)
    /\ TransferOK(bal, Contract, amount - FeeOf(amount))
    /\ bal' = Transfer(bal, Contract, escrow.freelancer, amount - FeeOf(amount))

\* Mutant: the fee is paid on top of the amount.
PayOutFeeOnTop(amount) ==
    LET fee      == FeeOf(amount)
        afterFee == IF fee > 0
                    THEN Transfer(bal, Contract, config.fee_collector, fee)
                    ELSE bal
    IN  /\ FeeFits(amount)
        /\ fee > 0 => TransferOK(bal, Contract, fee)
        /\ TransferOK(afterFee, Contract, amount)
        /\ bal' = Transfer(afterFee, Contract, escrow.freelancer, amount)

\* The fee first, and only if there is one; then the rest to the freelancer.
PayOut(amount) ==
    LET fee      == FeeOf(amount)
        afterFee == IF fee > 0
                    THEN Transfer(bal, Contract, config.fee_collector, fee)
                    ELSE bal
    IN  /\ FeeFits(amount)
        /\ fee > 0 => TransferOK(bal, Contract, fee)
        /\ TransferOK(afterFee, Contract, amount - fee)
        /\ bal' = Transfer(afterFee, Contract, escrow.freelancer, amount - fee)

\* Shared by cancel and expire: the refund transfer and the final status.
Refund(status) ==
    /\ TransferOK(bal, Contract, Remaining(escrow))
    /\ bal' = Transfer(bal, Contract, escrow.payer, Remaining(escrow))
    /\ escrow' = [escrow EXCEPT !.status = status]

-----------------------------------------------------------------------------
Init ==
    /\ config = None
    /\ escrow = None
    /\ bal = [h \in Holders |-> IF h \in Accounts THEN Funds ELSE 0]
    /\ now = 0
    /\ ttl = PersistentTTL
    /\ auth = None
    /\ created = 0

\* Mutant: init may be called again.
init_again(admin, fee_bps, fee_collector) ==
    /\ Live
    /\ config' = [admin |-> admin, paused |-> FALSE,
                  fee_bps |-> fee_bps, fee_collector |-> fee_collector]
    /\ auth' = admin
    /\ extend_ttl
    /\ UNCHANGED <<escrow, bal, now, created>>

init(admin, fee_bps, fee_collector) ==
    /\ Live
    /\ config = None
    /\ config' = [admin |-> admin, paused |-> FALSE,
                  fee_bps |-> fee_bps, fee_collector |-> fee_collector]
    /\ auth' = admin
    /\ extend_ttl
    /\ UNCHANGED <<escrow, bal, now, created>>

pause ==
    /\ Live
    /\ config # None
    /\ config' = [config EXCEPT !.paused = TRUE]
    /\ auth' = config.admin
    /\ extend_ttl
    /\ UNCHANGED <<escrow, bal, now, created>>

unpause ==
    /\ Live
    /\ config # None
    /\ config' = [config EXCEPT !.paused = FALSE]
    /\ auth' = config.admin
    /\ extend_ttl
    /\ UNCHANGED <<escrow, bal, now, created>>

\* Mutant: amounts are not validated.
ValidMilestonesNoSign(ms) == ms # << >>

ValidMilestones(ms) == ms # << >> /\ \A i \in DOMAIN ms : ms[i].amount > 0

\* A total beyond i128 is beyond every balance, so the transfer rejects it.
\* deposit(total) moves no token: the contract neither sends nor approves any
\* to the yield protocol, which cannot take them of its own accord.
create(payer, freelancer, milestones, deadline, yield_protocol, recurrence, amount) ==
    LET total == Total(milestones)
    IN  /\ Live
        /\ assert_not_paused
        /\ escrow = None
        /\ ValidMilestones(milestones)
        /\ TransferOK(bal, payer, total)
        /\ bal' = Transfer(bal, payer, Contract, total)
        /\ escrow' = [payer |-> payer, freelancer |-> freelancer,
                      total_amount |-> total, milestones |-> milestones,
                      status |-> "Active", deadline |-> deadline,
                      yield_protocol |-> yield_protocol,
                      principal_deposited |->
                          IF yield_protocol = None THEN 0 ELSE total,
                      interval |-> recurrence[1], recurrence_count |-> recurrence[2],
                      releases_made |-> 0, last_release_time |-> now,
                      amount |-> amount]
        /\ auth' = payer
        /\ created' = now
        /\ extend_ttl
        /\ UNCHANGED <<config, now>>

submit_work(i) ==
    /\ Live
    /\ assert_not_paused
    /\ escrow # None
    /\ escrow.status = "Active"
    /\ i \in DOMAIN escrow.milestones
    /\ escrow.milestones[i].status = "Pending"
    /\ escrow' = [escrow EXCEPT !.milestones = SetMilestone(@, i, "Submitted")]
    /\ auth' = escrow.freelancer
    /\ extend_ttl
    /\ UNCHANGED <<config, bal, now, created>>

approve(i) ==
    /\ Live
    /\ assert_not_paused
    /\ escrow # None
    /\ i \in DOMAIN escrow.milestones
    /\ escrow.milestones[i].status = "Submitted"
    /\ PayOut(escrow.milestones[i].amount)
    /\ LET ms == SetMilestone(escrow.milestones, i, "Approved")
       IN  escrow' = [escrow EXCEPT
                         !.milestones = ms,
                         !.status = IF AllApproved(ms) THEN "Completed" ELSE @]
    /\ auth' = escrow.payer
    /\ extend_ttl
    /\ UNCHANGED <<config, now, created>>

\* Mutant: the interval since the last release is forgotten.
IntervalIgnored == now >= escrow.last_release_time

\* last_release_time + interval beyond u64 panics, which the comparison
\* with a u64 timestamp rejects as well.
IntervalElapsed == now >= escrow.last_release_time + escrow.interval

\* No authorisation is required and the TTL is not extended.
release_recurring ==
    /\ Live
    /\ assert_not_paused
    /\ escrow # None
    /\ escrow.interval # 0 /\ escrow.recurrence_count # 0
    /\ escrow.status = "Active"
    /\ escrow.releases_made < escrow.recurrence_count
    /\ IntervalElapsed
    /\ PayOut(escrow.amount)
    /\ escrow' = [escrow EXCEPT
                     !.releases_made = @ + 1,
                     !.last_release_time = now,
                     !.status = IF escrow.releases_made + 1 >= escrow.recurrence_count
                                THEN "Completed" ELSE @]
    /\ auth' = None
    /\ UNCHANGED <<config, now, ttl, created>>

\* Mutant: cancel does not check the status.
cancel_any_status ==
    /\ Live
    /\ assert_not_paused
    /\ escrow # None
    /\ Refund("Cancelled")
    /\ auth' = escrow.payer
    /\ extend_ttl
    /\ UNCHANGED <<config, now, created>>

cancel ==
    /\ Live
    /\ assert_not_paused
    /\ escrow # None
    /\ escrow.status = "Active"
    /\ Refund("Cancelled")
    /\ auth' = escrow.payer
    /\ extend_ttl
    /\ UNCHANGED <<config, now, created>>

expire ==
    /\ Live
    /\ assert_not_paused
    /\ escrow # None
    /\ escrow.status = "Active"
    /\ escrow.deadline # None
    /\ now > escrow.deadline
    /\ Refund("Expired")
    /\ auth' = escrow.payer
    /\ extend_ttl
    /\ UNCHANGED <<config, now, created>>

transfer_freelancer(new_freelancer) ==
    /\ Live
    /\ assert_not_paused
    /\ escrow # None
    /\ escrow' = [escrow EXCEPT !.freelancer = new_freelancer]
    /\ auth' = escrow.freelancer
    /\ extend_ttl
    /\ UNCHANGED <<config, bal, now, created>>

\* Mutant: the incoming payer authorises the transfer of the role.
transfer_payer_by_new(new_payer) ==
    /\ Live
    /\ assert_not_paused
    /\ escrow # None
    /\ escrow' = [escrow EXCEPT !.payer = new_payer]
    /\ auth' = new_payer
    /\ extend_ttl
    /\ UNCHANGED <<config, bal, now, created>>

transfer_payer(new_payer) ==
    /\ Live
    /\ assert_not_paused
    /\ escrow # None
    /\ escrow' = [escrow EXCEPT !.payer = new_payer]
    /\ auth' = escrow.payer
    /\ extend_ttl
    /\ UNCHANGED <<config, bal, now, created>>

extend_deadline(new_deadline) ==
    /\ Live
    /\ assert_not_paused
    /\ escrow # None
    /\ escrow.deadline # None
    /\ new_deadline > escrow.deadline
    /\ escrow' = [escrow EXCEPT !.deadline = new_deadline]
    /\ auth' = escrow.payer
    /\ extend_ttl
    /\ UNCHANGED <<config, bal, now, created>>

-----------------------------------------------------------------------------
(* The ledger and the outside world *)

\* A ledger closes: time passes and rent is used up.
CloseLedger ==
    /\ now < MaxTime
    /\ now' = now + 1
    /\ ttl' = IF ttl > 0 THEN ttl - 1 ELSE 0
    /\ auth' = None
    /\ UNCHANGED <<config, escrow, bal, created>>

\* Anybody may pay to restore an archived instance.
RestoreInstance ==
    /\ ttl = 0
    /\ ttl' = PersistentTTL
    /\ auth' = None
    /\ UNCHANGED <<config, escrow, bal, now, created>>

\* Anybody may transfer tokens to the contract's address.
Donate(from, amt) ==
    /\ TransferOK(bal, from, amt)
    /\ bal' = Transfer(bal, from, Contract, amt)
    /\ auth' = from
    /\ UNCHANGED <<config, escrow, now, ttl, created>>

Next ==
    \/ \E a, c \in Accounts, f \in FeeRates : init(a, f, c)
    \/ pause
    \/ unpause
    \/ \E p, f \in Accounts, ms \in MilestoneVecs, d \in Deadlines \union {None},
          y \in Protocols, r \in Recurrences, a \in ReleaseAmounts :
             create(p, f, ms, d, y, r, a)
    \/ \E i \in MilestoneIndices : submit_work(i)
    \/ \E i \in MilestoneIndices : approve(i)
    \/ release_recurring
    \/ cancel
    \/ expire
    \/ \E f \in Accounts : transfer_freelancer(f)
    \/ \E p \in Accounts : transfer_payer(p)
    \/ \E d \in Deadlines : extend_deadline(d)
    \/ CloseLedger
    \/ RestoreInstance
    \/ \E from \in Accounts, amt \in Gifts : Donate(from, amt)

Spec == Init /\ [][Next]_vars

\* Ledgers keep closing, an archived instance can be restored by anybody, and
\* the payer, once allowed to, eventually gets an expire call through.  The
\* admin is under no obligation whatever.
Fairness ==
    /\ WF_vars(CloseLedger)
    /\ WF_vars(RestoreInstance)
    /\ SF_vars(expire)

FairSpec == Spec /\ Fairness

-----------------------------------------------------------------------------
(* Properties *)

(***************************************************************************)
(* Every storage entry holds a value of its Rust type, balances are never  *)
(* negative, and an escrow's milestones are a non-empty vector of positive *)
(* amounts that add up to total_amount (create, lib.rs 114-126).           *)
(***************************************************************************)
TypeOK ==
    /\ config \in ProtocolConfig \union {None}
    /\ escrow \in EscrowData \union {None}
    /\ bal \in [Holders -> Nat]
    /\ now \in Nat
    /\ ttl \in Nat
    /\ auth \in Accounts \union {None}
    /\ created \in Nat
    /\ escrow # None => /\ escrow.milestones # << >>
                        /\ \A i \in DOMAIN escrow.milestones : escrow.milestones[i].amount > 0
                        /\ escrow.total_amount = Total(escrow.milestones)

Active   == escrow # None /\ escrow.status = "Active"
Terminal == escrow # None /\ escrow.status \in {"Completed", "Cancelled", "Expired"}

\* What was locked and has not been paid out by approve or release_recurring.
Unspent(e) == e.total_amount - Released(e.milestones) - e.amount * e.releases_made

(***************************************************************************)
(* Until an escrow is cancelled or expires, the contract holds at least    *)
(* everything that approve and release_recurring have not paid out: fees,  *)
(* role transfers, donations, preset milestone statuses, yield deposits    *)
(* and the interleaving of milestone and recurring payments never eat into *)
(* it.  After the last recurring release has completed the escrow *)
(* the rest is still there, for approve alone (lib.rs 285).                *)
(***************************************************************************)
Unsettled == escrow # None /\ escrow.status \in {"Active", "Completed"}
Solvent == Unsettled => bal[Contract] >= Unspent(escrow)

(***************************************************************************)
(* As long as no recurring release was made, the amount that cancel and    *)
(* expire compute is covered by the contract's balance, so the payer's way *)
(* out is never blocked by the token transfer.                             *)
(***************************************************************************)
RefundCovered ==
    Active /\ escrow.releases_made = 0 => TransferOK(bal, Contract, Remaining(escrow))

\* The contract's tokens come from create alone and pay for milestones none of
\* which arrives approved.
ClosedInputs ==
    /\ Gifts = {}
    /\ \A ms \in MilestoneVecs : \A i \in DOMAIN ms : ms[i].status # "Approved"

\* Moreover no recurring releases.
PlainInputs == ClosedInputs /\ \A r \in Recurrences : r[1] = 0 \/ r[2] = 0

(***************************************************************************)
(* The books balance to the token: what neither approve nor                *)
(* release_recurring has paid out is in the contract while the escrow is   *)
(* active, and also after it completed, when only approve can still move   *)
(* it; before create, and once the escrow is cancelled or expired, the     *)
(* contract is empty.  Holds for ClosedInputs.                             *)
(***************************************************************************)
Custody ==
    bal[Contract] = IF Unsettled THEN Unspent(escrow) ELSE 0

\* The escrow and the accounts as Custody sees them: one id and one token.
CustodyBook == [i \in {0} |->
    IF escrow = None
    THEN [phase |-> "new", locked |-> 0, payer |-> None, payee |-> None, token |-> None]
    ELSE [phase |-> IF Active THEN "open" ELSE "done", locked |-> bal[Contract],
          payer |-> escrow.payer, payee |-> escrow.freelancer, token |-> "token"]]
CustodyWallet == [t \in {"token"} |-> [a \in Accounts |-> bal[a]]]

Promise == INSTANCE Custody
    WITH Ids <- {0}, Tokens <- {"token"}, book <- CustodyBook, wallet <- CustodyWallet

(***************************************************************************)
(* The escrow contract implements Custody: every call maps to one payment, *)
(* one refund of all that is left, a change of roles or nothing, and the   *)
(* status leaves Active in the very step that empties the contract.  Holds *)
(* for PlainInputs.                                                        *)
(***************************************************************************)
ImplementsCustody == Promise!Spec

(***************************************************************************)
(* Completed, Cancelled and Expired are final.  approve does not look at   *)
(* the escrow's status, so this rests on Custody: a cancelled or expired   *)
(* escrow has no funds left for approve's transfer.  Holds for             *)
(* ClosedInputs.                                                           *)
(***************************************************************************)
TerminalFinal == [][Terminal => escrow'.status = escrow.status]_vars

(***************************************************************************)
(* Tokens leave the contract only with the present payer's authorisation   *)
(* or as a recurring release that is due, and they go to the present payer,*)
(* freelancer or fee collector; a role changes hands only with its present *)
(* holder's authorisation.  Concerns the roles moved by transfer_payer and *)
(* transfer_freelancer between any two other calls.                        *)
(***************************************************************************)
Due == /\ escrow.interval # 0
       /\ escrow.releases_made < escrow.recurrence_count
       /\ now >= escrow.last_release_time + escrow.interval
Payees == {escrow.payer, escrow.freelancer}
              \union IF config = None THEN {} ELSE {config.fee_collector}
Consent ==
    [][escrow # None =>
         /\ bal'[Contract] < bal[Contract] =>
               /\ auth' = escrow.payer \/ Due
               /\ \A a \in Accounts : bal'[a] > bal[a] => a \in Payees
         /\ escrow'.payer # escrow.payer => auth' = escrow.payer
         /\ escrow'.freelancer # escrow.freelancer => auth' = escrow.freelancer]_vars

(***************************************************************************)
(* Recurring releases never run ahead of the clock: n releases take at     *)
(* least n intervals from the moment create succeeded, which is where      *)
(* last_release_time starts (lib.rs 153), and there are never more than    *)
(* recurrence_count.                                                       *)
(***************************************************************************)
RecurringPace ==
    escrow # None =>
        /\ escrow.releases_made <= escrow.recurrence_count
        /\ created + escrow.releases_made * escrow.interval <= escrow.last_release_time
        /\ escrow.last_release_time <= now

(***************************************************************************)
(* A call that somebody had to authorise and that changes the contract's   *)
(* storage leaves the instance with more than TTL_MIN_LEDGERS to live      *)
(* ("extend the instance storage TTL so escrow data doesn't expire",       *)
(* storage.rs 8).  release_recurring needs no authorisation and does not.  *)
(***************************************************************************)
KeptAlive ==
    [][auth' # None /\ <<config, escrow>>' # <<config, escrow>>
          => ttl' > TTL_MIN_LEDGERS]_vars

(***************************************************************************)
(* An escrow with a deadline does not stay active for ever: the payer gets *)
(* the refund through expire (or it ended earlier), despite extensions,    *)
(* archival and pauses, unless the admin keeps the contract paused from    *)
(* some moment on.                                                         *)
(***************************************************************************)
DeadlineRefund ==
    []<>(~Paused) => ((Active /\ escrow.deadline # None) ~> ~Active)

(***************************************************************************)
(* What the documentation says and the code does not do; each is checked   *)
(* by a run that expects the violation.                                    *)
(***************************************************************************)

\* Once work is submitted the payer can neither cancel nor expire
\* (docs/PROTOCOL.md, tests/escrow_tests.rs).
SubmittedWorkHolds ==
    [][(Active /\ \E i \in DOMAIN escrow.milestones :
                      escrow.milestones[i].status = "Submitted")
          => escrow'.status \notin {"Cancelled", "Expired"}]_vars

\* The refund is the remaining, unspent amount (lib.rs 314), so it can be paid.
RefundIsUnspent == Active => Remaining(escrow) = Unspent(escrow)

=============================================================================
