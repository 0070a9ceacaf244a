------------------------------ MODULE Factory ------------------------------
(***************************************************************************)
(* contracts/factory: EscrowFactory keeps many single-payment escrows in   *)
(* one contract.  All escrows of a token share the factory's one balance   *)
(* of it, so every payout draws on money that belongs to the others too.   *)
(*                                                                         *)
(* As in Escrow, an entry point is one atomic transaction and one action;  *)
(* an Err, a panic or a missing authorisation changes nothing.  Left out:  *)
(* the milestone text and the events.                                      *)
(***************************************************************************)
EXTENDS Integers, Sequences, Token, Sums

CONSTANTS
    Accounts,      \* addresses that can sign
    EscrowFactory, \* the factory's own address
    None,          \* no authorisation yet
    Tokens,        \* token contracts
    Amounts,       \* amounts passed to create_escrow
    Gifts,         \* amounts an outsider may send to the factory
    Funds,         \* what every account holds of every token initially
    MaxEscrows     \* bound on the number of escrows created

EscrowStatus == {"Active", "WorkSubmitted", "Completed", "Cancelled"}
Holders      == Accounts \union {EscrowFactory}
EscrowRecord == [id : Nat, payer : Accounts, freelancer : Accounts,
                 token : Tokens, amount : Nat, status : EscrowStatus]

ASSUME FactoryAddressAssumption ==
    EscrowFactory \notin Accounts /\ None \notin Accounts
ASSUME FactoryAmountAssumption ==
    Amounts \subseteq Int /\ Gifts \subseteq Nat /\ Funds \in Nat /\ MaxEscrows \in Nat

VARIABLES
    next_id,          \* DataKey::NextId
    records,          \* DataKey::Escrow(id), for the ids that exist
    payer_index,      \* DataKey::PayerIndex(address)
    freelancer_index, \* DataKey::FreelancerIndex(address)
    bal,              \* balances of every token
    given,            \* history: what outsiders sent to the factory
    auth              \* whose authorisation the last call required, or None

vars == <<next_id, records, payer_index, freelancer_index, bal, given, auth>>

-----------------------------------------------------------------------------
\* Mutant: a saved record replaces all others.
save_escrow_alone(record) == records' = [k \in {record.id} |-> record]

save_escrow(record) ==
    records' = [k \in DOMAIN records \union {record.id} |->
                   IF k = record.id THEN record ELSE records[k]]

\* Mutant: the index is overwritten.
append_to_index_fresh(index, key, id) == [index EXCEPT ![key] = <<id>>]

append_to_index(index, key, id) == [index EXCEPT ![key] = Append(@, id)]

\* load_escrow returns NotFound for an id that was never allocated.
Exists(id) == id \in DOMAIN records

\* Mutant: every payout goes back to the payer.
PayPayer(record, to) ==
    /\ TransferOK(bal[record.token], EscrowFactory, record.amount)
    /\ bal' = [bal EXCEPT ![record.token] =
                  Transfer(@, EscrowFactory, record.payer, record.amount)]

\* The factory pays `to` the whole amount of a record.
Pay(record, to) ==
    /\ TransferOK(bal[record.token], EscrowFactory, record.amount)
    /\ bal' = [bal EXCEPT ![record.token] =
                  Transfer(@, EscrowFactory, to, record.amount)]

\* Mutant: the changed record is not saved.
SetStatusUnsaved(id, status) == UNCHANGED records

SetStatus(id, status) == save_escrow([records[id] EXCEPT !.status = status])

Init ==
    /\ next_id = 0
    /\ records = [k \in {} |-> k]
    /\ payer_index = [a \in Accounts |-> << >>]
    /\ freelancer_index = [a \in Accounts |-> << >>]
    /\ bal = [t \in Tokens |-> [h \in Holders |-> IF h \in Accounts THEN Funds ELSE 0]]
    /\ given = [t \in Tokens |-> 0]
    /\ auth = None

create_escrow(payer, freelancer, token, amount) ==
    /\ next_id < MaxEscrows
    /\ amount > 0
    /\ TransferOK(bal[token], payer, amount)
    /\ bal' = [bal EXCEPT ![token] = Transfer(@, payer, EscrowFactory, amount)]
    /\ next_id' = next_id + 1
    /\ save_escrow([id |-> next_id, payer |-> payer, freelancer |-> freelancer,
                    token |-> token, amount |-> amount, status |-> "Active"])
    /\ payer_index' = append_to_index(payer_index, payer, next_id)
    /\ freelancer_index' = append_to_index(freelancer_index, freelancer, next_id)
    /\ auth' = payer
    /\ UNCHANGED given

submit_work(id) ==
    /\ Exists(id)
    /\ records[id].status = "Active"
    /\ SetStatus(id, "WorkSubmitted")
    /\ auth' = records[id].freelancer
    /\ UNCHANGED <<next_id, payer_index, freelancer_index, bal, given>>

approve(id) ==
    /\ Exists(id)
    /\ records[id].status = "WorkSubmitted"
    /\ Pay(records[id], records[id].freelancer)
    /\ SetStatus(id, "Completed")
    /\ auth' = records[id].payer
    /\ UNCHANGED <<next_id, payer_index, freelancer_index, given>>

\* Mutant: cancel does not check the status.
cancel_any_status(id) ==
    /\ Exists(id)
    /\ Pay(records[id], records[id].payer)
    /\ SetStatus(id, "Cancelled")
    /\ auth' = records[id].payer
    /\ UNCHANGED <<next_id, payer_index, freelancer_index, given>>

cancel(id) ==
    /\ Exists(id)
    /\ records[id].status = "Active"
    /\ Pay(records[id], records[id].payer)
    /\ SetStatus(id, "Cancelled")
    /\ auth' = records[id].payer
    /\ UNCHANGED <<next_id, payer_index, freelancer_index, given>>

\* Anybody may transfer tokens to the factory's address.
Donate(from, token, amount) ==
    /\ TransferOK(bal[token], from, amount)
    /\ bal' = [bal EXCEPT ![token] = Transfer(@, from, EscrowFactory, amount)]
    /\ given' = [given EXCEPT ![token] = @ + amount]
    /\ auth' = from
    /\ UNCHANGED <<next_id, records, payer_index, freelancer_index>>

Next ==
    \/ \E p, f \in Accounts, t \in Tokens, a \in Amounts : create_escrow(p, f, t, a)
    \/ \E id \in 0..MaxEscrows : submit_work(id)
    \/ \E id \in 0..MaxEscrows : approve(id)
    \/ \E id \in 0..MaxEscrows : cancel(id)
    \/ \E a \in Accounts, t \in Tokens, amt \in Gifts : Donate(a, t, amt)

Spec == Init /\ [][Next]_vars

-----------------------------------------------------------------------------
(* Properties *)

(***************************************************************************)
(* Storage is well typed: the stored ids are exactly the ones allocated,   *)
(* each record is stored under its own id and locks a positive amount.     *)
(***************************************************************************)
FactoryTypeOK ==
    /\ next_id \in Nat
    /\ DOMAIN records = 0..(next_id - 1)
    /\ records \in [0..(next_id - 1) -> EscrowRecord]
    /\ \A id \in DOMAIN records : records[id].id = id /\ records[id].amount > 0
    /\ payer_index \in [Accounts -> Seq(Nat)]
    /\ freelancer_index \in [Accounts -> Seq(Nat)]
    /\ bal \in [Tokens -> [Holders -> Nat]]
    /\ given \in [Tokens -> Nat]
    /\ auth \in Accounts \union {None}

\* What escrow id still has locked in token t.
Locked(t, id) ==
    IF records[id].token = t /\ records[id].status \in {"Active", "WorkSubmitted"}
    THEN records[id].amount ELSE 0

Owed(t) == SumTo([k \in 1..next_id |-> Locked(t, k - 1)], next_id)

(***************************************************************************)
(* For every token the factory holds exactly the amounts of the escrows    *)
(* that are still open plus what outsiders sent it: no order of approvals  *)
(* and cancellations of different escrows pays one of them twice, pays it  *)
(* with another's money, or strands it.                                    *)
(***************************************************************************)
PoolExact == \A t \in Tokens : bal[t][EscrowFactory] = Owed(t) + given[t]

(***************************************************************************)
(* list_by_payer and list_by_freelancer return exactly the ids whose       *)
(* record names the address, each once, in the order they were created.    *)
(***************************************************************************)
Lists(index, a, ids) ==
    /\ {index[a][i] : i \in DOMAIN index[a]} = ids
    /\ \A i, j \in DOMAIN index[a] : i < j => index[a][i] < index[a][j]
IndexesExact ==
    \A a \in Accounts :
        /\ Lists(payer_index, a, {id \in DOMAIN records : records[id].payer = a})
        /\ Lists(freelancer_index, a, {id \in DOMAIN records : records[id].freelancer = a})

(***************************************************************************)
(* An open escrow can always be settled: the transfer of approve or cancel *)
(* is covered by the factory's balance, whatever happened to the others.   *)
(***************************************************************************)
SettlementCovered ==
    \A id \in DOMAIN records :
        records[id].status \in {"Active", "WorkSubmitted"} =>
            TransferOK(bal[records[id].token], EscrowFactory, records[id].amount)

(***************************************************************************)
(* Each step touches at most one existing escrow, a settled escrow is      *)
(* final, and money leaves the factory only with the authorisation of that *)
(* escrow's payer, to its freelancer after the freelancer submitted work   *)
(* or back to its payer before that.                                       *)
(***************************************************************************)
Settles(id) ==
    LET r == records[id]
        to == IF r.status = "WorkSubmitted" THEN r.freelancer ELSE r.payer
    IN  /\ r.status \in {"Active", "WorkSubmitted"}
        /\ records'[id].status \in {"Completed", "Cancelled"}
        /\ auth' = r.payer
        /\ bal' = [bal EXCEPT ![r.token] = Transfer(@, EscrowFactory, to, r.amount)]
        /\ \A k \in DOMAIN records \ {id} : records'[k] = records[k]
SettledProperly ==
    [][(\E t \in Tokens : bal'[t][EscrowFactory] < bal[t][EscrowFactory])
          => \E id \in DOMAIN records : Settles(id)]_vars

\* The escrows and the accounts as Custody sees them.
CustodyBook == [id \in 0..(MaxEscrows - 1) |->
    IF Exists(id)
    THEN LET r == records[id]
             open == r.status \in {"Active", "WorkSubmitted"}
         IN  [phase |-> IF open THEN "open" ELSE "done", locked |-> IF open THEN r.amount ELSE 0,
              payer |-> r.payer, payee |-> r.freelancer, token |-> r.token]
    ELSE [phase |-> "new", locked |-> 0, payer |-> None, payee |-> None, token |-> None]]
CustodyWallet == [t \in Tokens |-> [a \in Accounts |-> bal[t][a]]]

Promise == INSTANCE Custody
    WITH Ids <- 0..(MaxEscrows - 1), book <- CustodyBook, wallet <- CustodyWallet

(***************************************************************************)
(* The factory implements Custody with one escrow per id: whatever is done *)
(* to one of them leaves the others as they are, and what an account gets  *)
(* is what left the escrow it belongs to, although all share one balance.  *)
(***************************************************************************)
ImplementsCustody == Promise!Spec

=============================================================================
