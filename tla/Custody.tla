------------------------------ MODULE Custody ------------------------------
(***************************************************************************)
(* What an escrow promises, whoever keeps it: a payer's tokens are locked  *)
(* once, leave only in payments to the payee (less a fee) or in one refund *)
(* of everything that is left, and an escrow is over exactly when nothing  *)
(* is left in it.  Escrow (for plain inputs) implements this with a single *)
(* id, Factory with one id per record.                                     *)
(***************************************************************************)
EXTENDS Integers

CONSTANTS Ids, Accounts, Tokens, None

VARIABLES
    book,   \* the escrows, by id
    wallet  \* what the accounts hold of every token, outside all escrows

cvars == <<book, wallet>>

\* What the book says of an escrow: how far it is, what is still locked in it, and whose.
Entry(phase, locked, payer, payee, token) ==
    [phase |-> phase, locked |-> locked, payer |-> payer, payee |-> payee, token |-> token]

Fresh == Entry("new", 0, None, None, None)

\* The wallets after account a received amt (or gave it, if negative).
Credit(w, t, a, amt) == [w EXCEPT ![t] = [w[t] EXCEPT ![a] = w[t][a] + amt]]

Init ==
    /\ book = [i \in Ids |-> Fresh]
    /\ wallet \in [Tokens -> [Accounts -> Nat]]

Open(i, p, f, t, amt) ==
    /\ book[i] = Fresh
    /\ amt > 0 /\ amt <= wallet[t][p]
    /\ book' = [book EXCEPT ![i] = Entry("open", amt, p, f, t)]
    /\ wallet' = Credit(wallet, t, p, -amt)

\* A payment: the fee goes to c, the rest to the payee.
Release(i, amt, fee, c) ==
    LET e == book[i]
    IN  /\ e.phase = "open"
        /\ book' = [book EXCEPT ![i] =
                       Entry(IF amt = e.locked THEN "done" ELSE "open", e.locked - amt,
                             e.payer, e.payee, e.token)]
        /\ wallet' = Credit(Credit(wallet, e.token, c, fee), e.token, e.payee, amt - fee)

Refund(i) ==
    LET e == book[i]
    IN  /\ e.phase = "open"
        /\ book' = [book EXCEPT ![i] = Entry("done", 0, e.payer, e.payee, e.token)]
        /\ wallet' = Credit(wallet, e.token, e.payer, e.locked)

\* The roles may change hands, even of an escrow that is over.
Reassign(i, p, f) ==
    LET e == book[i]
    IN  /\ e.phase # "new"
        /\ book' = [book EXCEPT ![i] = Entry(e.phase, e.locked, p, f, e.token)]
        /\ UNCHANGED wallet

\* Somebody gives tokens away, to no escrow.
Give(t, a, amt) ==
    /\ amt <= wallet[t][a]
    /\ wallet' = Credit(wallet, t, a, -amt)
    /\ UNCHANGED book

Next ==
    \/ \E i \in Ids, p, f \in Accounts, t \in Tokens :
          \E amt \in 1..wallet[t][p] : Open(i, p, f, t, amt)
    \/ \E i \in Ids, c \in Accounts : \E amt \in 1..book[i].locked :
          \E fee \in 0..amt : Release(i, amt, fee, c)
    \/ \E i \in Ids : Refund(i)
    \/ \E i \in Ids, p, f \in Accounts : Reassign(i, p, f)
    \/ \E t \in Tokens, a \in Accounts : \E amt \in 0..wallet[t][a] : Give(t, a, amt)

Spec == Init /\ [][Next]_cvars
=============================================================================
