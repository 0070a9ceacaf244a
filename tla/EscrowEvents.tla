---------------------------- MODULE EscrowEvents ----------------------------
(***************************************************************************)
(* contracts/escrow/src/events.rs: the escrow contract together with an    *)
(* observer off the chain, who has nothing but the events the entry points *)
(* publish.  A rolled-back call publishes nothing.  No entry point         *)
(* publishes work_submitted.  The observer keeps what the events say the   *)
(* contract's storage holds (view) and what they say every account owns    *)
(* (told), and applies each event as it arrives, in the order published.   *)
(***************************************************************************)
EXTENDS Escrow, SequencesExt

VARIABLES
    view,   \* the escrow and the pause switch, replayed from the events
    told    \* the accounts' balances, replayed from the events

evars == <<vars, view, told>>

-----------------------------------------------------------------------------
(* The event constructors; descriptions are left out. *)

escrow_created(payer, freelancer, total_amount, milestones) ==
    [topic |-> "escrow_created", payer |-> payer, freelancer |-> freelancer,
     total_amount |-> total_amount, milestones |-> milestones]
milestone_submitted(freelancer, idx) ==
    [topic |-> "milestone_submitted", freelancer |-> freelancer, idx |-> idx]
milestone_approved(freelancer, idx, amount) ==
    [topic |-> "milestone_approved", freelancer |-> freelancer, idx |-> idx, amount |-> amount]
recurring_released(freelancer, amount, release_num) ==
    [topic |-> "recurring_released", freelancer |-> freelancer, amount |-> amount,
     release_num |-> release_num]
payment_released(freelancer, amount) ==
    [topic |-> "payment_released", freelancer |-> freelancer, amount |-> amount]
escrow_cancelled(payer, amount) ==
    [topic |-> "escrow_cancelled", payer |-> payer, amount |-> amount]
escrow_expired(payer, amount) ==
    [topic |-> "escrow_expired", payer |-> payer, amount |-> amount]
freelancer_transferred(old, new) ==
    [topic |-> "freelancer_transferred", old |-> old, new |-> new]
payer_transferred(old_payer, new_payer) ==
    [topic |-> "payer_transferred", old |-> old_payer, new |-> new_payer]
deadline_extended(old_deadline, new_deadline) ==
    [topic |-> "deadline_extended", old |-> old_deadline, new |-> new_deadline]
contract_paused(admin)   == [topic |-> "contract_paused", admin |-> admin]
contract_unpaused(admin) == [topic |-> "contract_unpaused", admin |-> admin]
yield_deposited(protocol, amount) ==
    [topic |-> "yield_deposited", protocol |-> protocol, amount |-> amount]

-----------------------------------------------------------------------------
(* The observer (external) *)

Unseen == [paused |-> FALSE, payer |-> None, freelancer |-> None, total |-> 0,
           milestones |-> << >>, status |-> "Active", releases |-> 0]

Observe(v, e) ==
    CASE e.topic = "contract_paused"        -> [v EXCEPT !.paused = TRUE]
      [] e.topic = "contract_unpaused"      -> [v EXCEPT !.paused = FALSE]
      [] e.topic = "escrow_created"         ->
            [v EXCEPT !.payer = e.payer, !.freelancer = e.freelancer,
                      !.total = e.total_amount, !.milestones = e.milestones]
      [] e.topic = "milestone_submitted"    ->
            [v EXCEPT !.milestones = SetMilestone(@, e.idx, "Submitted")]
      [] e.topic = "milestone_approved"     ->
            LET ms == SetMilestone(v.milestones, e.idx, "Approved")
            IN  [v EXCEPT !.milestones = ms,
                          !.status = IF AllApproved(ms) THEN "Completed" ELSE @]
      [] e.topic = "recurring_released"     -> [v EXCEPT !.releases = e.release_num]
      [] e.topic = "payment_released"       -> [v EXCEPT !.status = "Completed"]
      [] e.topic = "escrow_cancelled"       -> [v EXCEPT !.status = "Cancelled"]
      [] e.topic = "escrow_expired"         -> [v EXCEPT !.status = "Expired"]
      [] e.topic = "freelancer_transferred" -> [v EXCEPT !.freelancer = e.new]
      [] e.topic = "payer_transferred"      -> [v EXCEPT !.payer = e.new]
      [] OTHER                              -> v

\* What event e says account a received, or paid in as an escrow's payer.
\* payment_released only repeats the recurring_released before it.
ToldTo(a, e) ==
    CASE e.topic \in {"milestone_approved", "recurring_released"} /\ e.freelancer = a -> e.amount
      [] e.topic \in {"escrow_cancelled", "escrow_expired"} /\ e.payer = a -> e.amount
      [] e.topic = "escrow_created" /\ e.payer = a -> -e.total_amount
      [] OTHER -> 0

\* The observer's two records after one more event.
Hear(o, e) ==
    [view |-> Observe(o.view, e),
     told |-> [a \in Accounts |-> o.told[a] + ToldTo(a, e)]]

\* All the events of a call, in the order published.
HearAll(o, evs) == FoldLeft(Hear, o, evs)

Publish(evs) ==
    LET heard == HearAll([view |-> view, told |-> told], evs)
    IN  view' = heard.view /\ told' = heard.told

-----------------------------------------------------------------------------
(* The entry points with what they publish *)

Net(amount) == amount - FeeOf(amount)

EventInit == Init /\ view = Unseen /\ told = [a \in Accounts |-> Funds]

init_logged(a, f, c) == init(a, f, c) /\ Publish(<< >>)
pause_logged   == pause /\ Publish(<<contract_paused(config.admin)>>)
unpause_logged == unpause /\ Publish(<<contract_unpaused(config.admin)>>)

create_logged(p, f, ms, d, y, r, a) ==
    /\ create(p, f, ms, d, y, r, a)
    /\ Publish((IF y = None THEN << >> ELSE <<yield_deposited(y, Total(ms))>>)
                   \o <<escrow_created(p, f, Total(ms), ms)>>)

submit_work_logged(i) ==
    submit_work(i) /\ Publish(<<milestone_submitted(escrow.freelancer, i)>>)

\* Mutant: the event is published with the index that comes next.
approve_logged_next(i) ==
    /\ approve(i)
    /\ Publish(<<milestone_approved(escrow.freelancer, (i % Len(escrow.milestones)) + 1,
                                    Net(escrow.milestones[i].amount))>>)

\* Mutant: the amount published is the one before the fee.
approve_logged_gross(i) ==
    /\ approve(i)
    /\ Publish(<<milestone_approved(escrow.freelancer, i, escrow.milestones[i].amount)>>)

approve_logged(i) ==
    /\ approve(i)
    /\ Publish(<<milestone_approved(escrow.freelancer, i, Net(escrow.milestones[i].amount))>>)

release_recurring_logged ==
    /\ release_recurring
    /\ LET net == Net(escrow.amount)
       IN  Publish(<<recurring_released(escrow.freelancer, net, escrow'.releases_made)>>
                       \o IF escrow'.status = "Completed"
                          THEN <<payment_released(escrow.freelancer, net)>> ELSE << >>)

cancel_logged == cancel /\ Publish(<<escrow_cancelled(escrow.payer, Remaining(escrow))>>)
expire_logged == expire /\ Publish(<<escrow_expired(escrow.payer, Remaining(escrow))>>)

transfer_freelancer_logged(f) ==
    transfer_freelancer(f) /\ Publish(<<freelancer_transferred(escrow.freelancer, f)>>)
transfer_payer_logged(p) ==
    transfer_payer(p) /\ Publish(<<payer_transferred(escrow.payer, p)>>)
extend_deadline_logged(d) ==
    extend_deadline(d) /\ Publish(<<deadline_extended(escrow.deadline, d)>>)

\* The contract publishes nothing here; the token reports the donation.
Silent == (CloseLedger \/ RestoreInstance) /\ UNCHANGED <<view, told>>
Donate_logged(from, amt) ==
    Donate(from, amt) /\ told' = [told EXCEPT ![from] = @ - amt] /\ UNCHANGED view

EventNext ==
    \/ \E a, c \in Accounts, f \in FeeRates : init_logged(a, f, c)
    \/ pause_logged
    \/ unpause_logged
    \/ \E p, f \in Accounts, ms \in MilestoneVecs, d \in Deadlines \union {None},
          y \in Protocols, r \in Recurrences, a \in ReleaseAmounts :
             create_logged(p, f, ms, d, y, r, a)
    \/ \E i \in MilestoneIndices : submit_work_logged(i)
    \/ \E i \in MilestoneIndices : approve_logged(i)
    \/ release_recurring_logged
    \/ cancel_logged
    \/ expire_logged
    \/ \E f \in Accounts : transfer_freelancer_logged(f)
    \/ \E p \in Accounts : transfer_payer_logged(p)
    \/ \E d \in Deadlines : extend_deadline_logged(d)
    \/ Silent
    \/ \E from \in Accounts, amt \in Gifts : Donate_logged(from, amt)

EventSpec == EventInit /\ [][EventNext]_evars

-----------------------------------------------------------------------------
(* Properties *)

(***************************************************************************)
(* The events tell the whole story: replaying them gives the roles, the    *)
(* milestones, the status, the number of releases and the pause switch the *)
(* contract has in its storage, at every moment and in every order of      *)
(* calls, although no event says that an approval completed the escrow.    *)
(***************************************************************************)
EventsTell ==
    /\ view.paused = Paused
    /\ IF escrow = None THEN [view EXCEPT !.paused = FALSE] = Unseen
       ELSE /\ view.payer = escrow.payer /\ view.freelancer = escrow.freelancer
            /\ view.total = escrow.total_amount /\ view.milestones = escrow.milestones
            /\ view.status = escrow.status /\ view.releases = escrow.releases_made

(***************************************************************************)
(* The events account for every token an account paid or received, across  *)
(* role transfers, recurring releases, yield deposits and donations.  Fees *)
(* are the one payment no event of events.rs tells of, so the fee          *)
(* collector may hold more than the events say and nobody else does.       *)
(***************************************************************************)
WalletsTold ==
    \A a \in Accounts :
        IF config # None /\ config.fee_collector = a
        THEN bal[a] >= told[a] ELSE bal[a] = told[a]

=============================================================================
