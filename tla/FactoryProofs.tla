--------------------------- MODULE FactoryProofs ---------------------------
(***************************************************************************)
(* Theorems about Factory, for every value of its constants.               *)
(***************************************************************************)
EXTENDS Factory, HelperTheorems

(***************************************************************************)
(* Saving a changed status keeps the record table and the other records.   *)
(***************************************************************************)
LEMMA SetStatusFacts ==
    ASSUME FactoryTypeOK, NEW id \in DOMAIN records, NEW st \in EscrowStatus,
           SetStatus(id, st)
    PROVE  /\ records' \in [0..(next_id - 1) -> EscrowRecord]
           /\ DOMAIN records' = DOMAIN records
           /\ \A k \in DOMAIN records : k # id => records'[k] = records[k]
           /\ records'[id] = [records[id] EXCEPT !.status = st]
           /\ \A k \in DOMAIN records : /\ records'[k].id = k
                                        /\ records'[k].amount = records[k].amount
                                        /\ records'[k].token = records[k].token
                                        /\ records'[k].payer = records[k].payer
                                        /\ records'[k].freelancer = records[k].freelancer
<1> DEFINE r == [records[id] EXCEPT !.status = st]
<1>1. /\ records \in [0..(next_id - 1) -> EscrowRecord]
      /\ DOMAIN records = 0..(next_id - 1)
      /\ \A k \in DOMAIN records : records[k].id = k
    BY DEF FactoryTypeOK
<1>2. records[id] \in EscrowRecord
    BY <1>1
<1>3. /\ r \in EscrowRecord /\ r.id = id /\ r.amount = records[id].amount
      /\ r.token = records[id].token /\ r.payer = records[id].payer
      /\ r.freelancer = records[id].freelancer
    BY <1>1, <1>2 DEF EscrowRecord
<1>4. records' = [k \in DOMAIN records \union {r.id} |-> IF k = r.id THEN r ELSE records[k]]
    BY DEF SetStatus, save_escrow
<1> HIDE DEF r
<1>5. DOMAIN records \union {r.id} = DOMAIN records
    BY <1>3
<1>6. records' = [k \in DOMAIN records |-> IF k = id THEN r ELSE records[k]]
    BY <1>3, <1>4, <1>5
<1> QED
    BY <1>1, <1>3, <1>6 DEF r

(***************************************************************************)
(* A payout takes the record's amount out of the pool of its token and     *)
(* leaves the other pools alone.                                           *)
(***************************************************************************)
LEMMA PayFacts ==
    ASSUME FactoryTypeOK, NEW r \in EscrowRecord, NEW to \in Accounts, Pay(r, to)
    PROVE  /\ bal' \in [Tokens -> [Holders -> Nat]]
           /\ bal'[r.token][EscrowFactory] = bal[r.token][EscrowFactory] - r.amount
           /\ \A t \in Tokens : t # r.token => bal'[t] = bal[t]
<1> DEFINE b == bal[r.token]
           c == Transfer(b, EscrowFactory, to, r.amount)
<1>1. r.token \in Tokens /\ r.amount \in Int
    BY DEF EscrowRecord
<1>2. /\ bal \in [Tokens -> [Holders -> Nat]] /\ b \in [Holders -> Nat]
      /\ EscrowFactory \in Holders /\ to \in Holders /\ to # EscrowFactory
    BY <1>1, FactoryAddressAssumption DEF FactoryTypeOK, Holders
<1>3. TransferOK(b, EscrowFactory, r.amount) /\ bal' = [bal EXCEPT ![r.token] = c]
    BY DEF Pay
<1>4. c \in [Holders -> Nat] /\ c[EscrowFactory] = b[EscrowFactory] - r.amount
    BY <1>1, <1>2, <1>3, TransferFacts
<1> HIDE DEF c
<1> QED
    BY <1>1, <1>2, <1>3, <1>4

(***************************************************************************)
(* Money that comes in goes to the pool of its token only.                 *)
(***************************************************************************)
LEMMA ReceiveFacts ==
    ASSUME FactoryTypeOK, NEW from \in Accounts, NEW t \in Tokens, NEW amt \in Int,
           TransferOK(bal[t], from, amt),
           bal' = [bal EXCEPT ![t] = Transfer(@, from, EscrowFactory, amt)]
    PROVE  /\ bal' \in [Tokens -> [Holders -> Nat]]
           /\ bal'[t][EscrowFactory] = bal[t][EscrowFactory] + amt
           /\ \A u \in Tokens : u # t => bal'[u] = bal[u]
<1> DEFINE c == Transfer(bal[t], from, EscrowFactory, amt)
<1>1. /\ bal \in [Tokens -> [Holders -> Nat]] /\ bal[t] \in [Holders -> Nat]
      /\ EscrowFactory \in Holders /\ from \in Holders /\ from # EscrowFactory
    BY FactoryAddressAssumption DEF FactoryTypeOK, Holders
<1>2. c \in [Holders -> Nat] /\ c[EscrowFactory] = bal[t][EscrowFactory] + amt
    BY <1>1, TransferFacts
<1>3. bal' = [bal EXCEPT ![t] = c]
    OBVIOUS
<1> HIDE DEF c
<1> QED
    BY <1>1, <1>2, <1>3

(***************************************************************************)
(* create_escrow allocates the next id and stores an active record.        *)
(***************************************************************************)
LEMMA CreateFacts ==
    ASSUME FactoryTypeOK, NEW p \in Accounts, NEW f \in Accounts, NEW t \in Tokens,
           NEW a \in Amounts, create_escrow(p, f, t, a)
    PROVE  /\ FactoryTypeOK'
           /\ a \in Nat \ {0}
           /\ next_id \in Nat /\ next_id' = next_id + 1
           /\ DOMAIN records = 0..(next_id - 1) /\ DOMAIN records' = 0..next_id
           /\ \A k \in 0..(next_id - 1) : records'[k] = records[k]
           /\ records'[next_id].payer = p /\ records'[next_id].freelancer = f
           /\ records'[next_id].token = t /\ records'[next_id].amount = a
           /\ records'[next_id].status = "Active"
           /\ bal'[t][EscrowFactory] = bal[t][EscrowFactory] + a
           /\ \A u \in Tokens : u # t => bal'[u] = bal[u]
<1> DEFINE r == [id |-> next_id, payer |-> p, freelancer |-> f,
                 token |-> t, amount |-> a, status |-> "Active"]
<1>1. a \in Nat \ {0}
    BY FactoryAmountAssumption DEF create_escrow
<1>2. /\ next_id \in Nat /\ DOMAIN records = 0..(next_id - 1)
      /\ records \in [0..(next_id - 1) -> EscrowRecord]
      /\ \A k \in 0..(next_id - 1) : records[k].id = k /\ records[k].amount > 0
    BY DEF FactoryTypeOK
<1>3. r \in EscrowRecord /\ r.id = next_id /\ r.amount = a
    BY <1>1, <1>2 DEF EscrowRecord, EscrowStatus
<1>4. 0..(next_id - 1) \union {next_id} = 0..next_id
    BY <1>2
<1>5. records' = [k \in 0..next_id |-> IF k = next_id THEN r ELSE records[k]]
    BY <1>2, <1>3, <1>4 DEF create_escrow, save_escrow
<1>6. next_id' = next_id + 1 /\ 0..(next_id' - 1) = 0..next_id
    BY <1>2 DEF create_escrow
<1>7. /\ DOMAIN records' = 0..next_id
      /\ records' \in [0..next_id -> EscrowRecord]
      /\ \A k \in 0..(next_id - 1) : records'[k] = records[k]
      /\ records'[next_id] = r
  <2> HIDE DEF r
  <2> QED BY <1>2, <1>3, <1>5
<1>8. \A k \in 0..next_id : records'[k].id = k /\ records'[k].amount > 0
  <2>1. \A k \in 0..next_id : k = next_id \/ k \in 0..(next_id - 1)
      BY <1>2
  <2> QED BY <1>1, <1>2, <1>3, <1>7, <2>1
<1>9. /\ bal' \in [Tokens -> [Holders -> Nat]]
      /\ bal'[t][EscrowFactory] = bal[t][EscrowFactory] + a
      /\ \A u \in Tokens : u # t => bal'[u] = bal[u]
  <2>1. /\ TransferOK(bal[t], p, a)
        /\ bal' = [bal EXCEPT ![t] = Transfer(@, p, EscrowFactory, a)]
      BY DEF create_escrow
  <2>2. a \in Int
      BY <1>1
  <2> QED BY <2>1, <2>2, ReceiveFacts
<1>10. /\ payer_index' \in [Accounts -> Seq(Nat)]
       /\ freelancer_index' \in [Accounts -> Seq(Nat)]
  <2>1. /\ Append(payer_index[p], next_id) \in Seq(Nat)
        /\ Append(freelancer_index[f], next_id) \in Seq(Nat)
      BY <1>2 DEF FactoryTypeOK
  <2>2. /\ payer_index' = [payer_index EXCEPT ![p] = Append(payer_index[p], next_id)]
        /\ freelancer_index' =
              [freelancer_index EXCEPT ![f] = Append(freelancer_index[f], next_id)]
      BY DEF create_escrow, append_to_index
  <2> QED BY <2>1, <2>2 DEF FactoryTypeOK
<1>11. given' = given /\ auth' = p
    BY DEF create_escrow
<1>12. FactoryTypeOK'
  <2>1. /\ next_id' \in Nat
        /\ DOMAIN records' = 0..(next_id' - 1)
        /\ records' \in [0..(next_id' - 1) -> EscrowRecord]
        /\ \A k \in DOMAIN records' : records'[k].id = k /\ records'[k].amount > 0
    <3> HIDE DEF r
    <3> QED BY <1>2, <1>6, <1>7, <1>8
  <2>2. given' \in [Tokens -> Nat] /\ auth' \in Accounts \union {None}
      BY <1>11 DEF FactoryTypeOK
  <2> QED BY <1>9, <1>10, <2>1, <2>2 DEF FactoryTypeOK
<1> QED
    BY <1>1, <1>2, <1>6, <1>7, <1>9, <1>12

(***************************************************************************)
(* The terms of Owed are naturals.                                         *)
(***************************************************************************)
LEMMA LockedNat ==
    ASSUME FactoryTypeOK, NEW t
    PROVE  \A k \in 1..next_id : k - 1 \in DOMAIN records /\ Locked(t, k - 1) \in Nat
<1>1. ASSUME NEW k \in 1..next_id
      PROVE  k - 1 \in DOMAIN records /\ Locked(t, k - 1) \in Nat
  <2>1. k - 1 \in 0..(next_id - 1)
      BY DEF FactoryTypeOK
  <2>2. records[k - 1] \in EscrowRecord
      BY <2>1 DEF FactoryTypeOK
  <2>3. records[k - 1].amount \in Nat
      BY <2>2 DEF EscrowRecord
  <2>4. Locked(t, k - 1) \in Nat
      BY <2>3 DEF Locked
  <2> QED BY <2>1, <2>4 DEF FactoryTypeOK
<1> QED BY <1>1

(***************************************************************************)
(* Changing the status of one escrow changes what is owed by the change of *)
(* what that escrow has locked.                                            *)
(***************************************************************************)
LEMMA OwedOnStatus ==
    ASSUME FactoryTypeOK, FactoryTypeOK', next_id' = next_id,
           NEW id \in DOMAIN records, NEW st \in EscrowStatus, SetStatus(id, st),
           NEW t \in Tokens
    PROVE  Owed(t)' = Owed(t) + (Locked(t, id)' - Locked(t, id))
<1> DEFINE f == [k \in 1..next_id |-> Locked(t, k - 1)]
           g == [k \in 1..next_id |-> Locked(t, k - 1)']
<1>1. next_id \in Nat /\ id \in 0..(next_id - 1)
    BY DEF FactoryTypeOK
<1>2. id + 1 \in 1..next_id /\ (id + 1) - 1 = id
    BY <1>1
<1>3. \A k \in 1..next_id : f[k] \in Int /\ g[k] \in Int
  <2>1. \A k \in 1..next_id : Locked(t, k - 1) \in Nat
      BY LockedNat
  <2>2. \A k \in 1..next_id' : Locked(t, k - 1)' \in Nat
    <3>1. ASSUME NEW k \in 1..next_id' PROVE Locked(t, k - 1)' \in Nat
      <4>1. k - 1 \in 0..(next_id' - 1)
          BY <1>1, <3>1
      <4>2. records'[k - 1] \in EscrowRecord
          BY <4>1 DEF FactoryTypeOK
      <4>3. records'[k - 1].amount \in Nat
          BY <4>2 DEF EscrowRecord
      <4> QED BY <4>3 DEF Locked
    <3> QED BY <3>1
  <2> QED BY <2>1, <2>2
<1>4. \A k \in 1..next_id : k # id + 1 => g[k] = f[k]
  <2>1. ASSUME NEW k \in 1..next_id, k # id + 1 PROVE g[k] = f[k]
    <3>1. k - 1 \in DOMAIN records /\ k - 1 # id
        BY <1>1, <2>1 DEF FactoryTypeOK
    <3>2. records'[k - 1] = records[k - 1]
        BY <3>1, SetStatusFacts
    <3> QED BY <3>2 DEF Locked
  <2> QED BY <2>1
<1>5. f[id + 1] = Locked(t, id) /\ g[id + 1] = Locked(t, id)'
    BY <1>2
<1>6. Owed(t) = SumTo(f, next_id) /\ Owed(t)' = SumTo(g, next_id)
    BY DEF Owed
<1> HIDE DEF f, g
<1>7. SumTo(g, next_id) = SumTo(f, next_id) + (g[id + 1] - f[id + 1])
    BY <1>1, <1>2, <1>3, <1>4, SumToUpdate
<1> QED
    BY <1>5, <1>6, <1>7

(***************************************************************************)
(* A new escrow adds its amount to what is owed in its token.              *)
(***************************************************************************)
LEMMA OwedOnCreate ==
    ASSUME FactoryTypeOK, NEW p \in Accounts, NEW f \in Accounts, NEW u \in Tokens,
           NEW a \in Amounts, create_escrow(p, f, u, a), NEW t \in Tokens
    PROVE  Owed(t)' = Owed(t) + IF t = u THEN a ELSE 0
<1> DEFINE F == [k \in 1..next_id |-> Locked(t, k - 1)]
           G == [k \in 1..(next_id + 1) |-> Locked(t, k - 1)']
<1>1. /\ next_id \in Nat /\ next_id' = next_id + 1
      /\ \A k \in 0..(next_id - 1) : records'[k] = records[k]
      /\ records'[next_id].token = u /\ records'[next_id].amount = a
      /\ records'[next_id].status = "Active"
    BY CreateFacts
<1>2. \A k \in 1..next_id : G[k] = F[k]
  <2>1. ASSUME NEW k \in 1..next_id PROVE G[k] = F[k]
    <3>1. k - 1 \in 0..(next_id - 1) /\ k \in 1..(next_id + 1)
        BY <1>1
    <3>2. records'[k - 1] = records[k - 1]
        BY <1>1, <3>1
    <3> QED BY <3>1, <3>2 DEF Locked
  <2> QED BY <2>1
<1>3. G[next_id + 1] = IF t = u THEN a ELSE 0
  <2>1. next_id + 1 \in 1..(next_id + 1) /\ (next_id + 1) - 1 = next_id
      BY <1>1
  <2> QED BY <1>1, <2>1 DEF Locked
<1>4. Owed(t) = SumTo(F, next_id) /\ Owed(t)' = SumTo(G, next_id + 1)
    BY <1>1 DEF Owed
<1> HIDE DEF F, G
<1>5. SumTo(G, next_id) = SumTo(F, next_id)
    BY <1>1, <1>2, SumToEq
<1>6. SumTo(G, next_id + 1) = SumTo(G, next_id) + G[next_id + 1]
    BY <1>1, SumToDef
<1> QED
    BY <1>3, <1>4, <1>5, <1>6

(***************************************************************************)
(* Donations reach the pool of their token and are counted.                *)
(***************************************************************************)
LEMMA DonateFacts ==
    ASSUME FactoryTypeOK, NEW a \in Accounts, NEW t \in Tokens, NEW amt \in Gifts,
           Donate(a, t, amt)
    PROVE  /\ FactoryTypeOK'
           /\ next_id' = next_id /\ records' = records
           /\ bal'[t][EscrowFactory] = bal[t][EscrowFactory] + amt
           /\ given' = [given EXCEPT ![t] = @ + amt]
           /\ \A u \in Tokens : u # t => bal'[u] = bal[u]
<1>1. amt \in Nat /\ amt \in Int
    BY FactoryAmountAssumption
<1>2. /\ TransferOK(bal[t], a, amt)
      /\ bal' = [bal EXCEPT ![t] = Transfer(@, a, EscrowFactory, amt)]
      /\ given' = [given EXCEPT ![t] = @ + amt] /\ auth' = a
      /\ next_id' = next_id /\ records' = records
      /\ payer_index' = payer_index /\ freelancer_index' = freelancer_index
    BY DEF Donate
<1>3. /\ bal' \in [Tokens -> [Holders -> Nat]]
      /\ bal'[t][EscrowFactory] = bal[t][EscrowFactory] + amt
      /\ \A u \in Tokens : u # t => bal'[u] = bal[u]
    BY <1>1, <1>2, ReceiveFacts
<1>4. given' \in [Tokens -> Nat]
    BY <1>1, <1>2 DEF FactoryTypeOK
<1>5. FactoryTypeOK'
    BY <1>2, <1>3, <1>4 DEF FactoryTypeOK
<1> QED
    BY <1>2, <1>3, <1>5

(***************************************************************************)
(* submit_work, approve and cancel rewrite one record and keep the storage *)
(* well typed.                                                             *)
(***************************************************************************)
LEMMA SettleFacts ==
    ASSUME FactoryTypeOK, NEW id, submit_work(id) \/ approve(id) \/ cancel(id)
    PROVE  /\ FactoryTypeOK'
           /\ id \in DOMAIN records /\ next_id' = next_id /\ given' = given
           /\ payer_index' = payer_index /\ freelancer_index' = freelancer_index
           /\ records[id].status \in {"Active", "WorkSubmitted"}
           /\ \/ SetStatus(id, "WorkSubmitted") /\ bal' = bal
              \/ /\ SetStatus(id, "Completed") \/ SetStatus(id, "Cancelled")
                 /\ \E to \in Accounts : Pay(records[id], to)
<1>1. /\ id \in DOMAIN records /\ next_id' = next_id /\ given' = given
      /\ payer_index' = payer_index /\ freelancer_index' = freelancer_index
      /\ records[id].status \in {"Active", "WorkSubmitted"}
    BY DEF submit_work, approve, cancel, Exists
<1>2. records[id] \in EscrowRecord
    BY <1>1 DEF FactoryTypeOK
<1>3. records[id].payer \in Accounts /\ records[id].freelancer \in Accounts
    BY <1>2 DEF EscrowRecord
<1>4. \/ SetStatus(id, "WorkSubmitted") /\ bal' = bal
      \/ /\ SetStatus(id, "Completed") \/ SetStatus(id, "Cancelled")
         /\ \E to \in Accounts : Pay(records[id], to)
    BY <1>3 DEF submit_work, approve, cancel
<1>5. PICK st \in EscrowStatus : SetStatus(id, st)
    BY <1>4 DEF EscrowStatus
<1>6. /\ records' \in [0..(next_id - 1) -> EscrowRecord]
      /\ DOMAIN records' = DOMAIN records
      /\ \A k \in DOMAIN records : records'[k].id = k
                                   /\ records'[k].amount = records[k].amount
    BY <1>1, <1>5, SetStatusFacts
<1>7. bal' \in [Tokens -> [Holders -> Nat]]
    BY <1>2, <1>4, PayFacts DEF FactoryTypeOK
<1>8. auth' \in Accounts
    BY <1>3 DEF submit_work, approve, cancel
<1>9. /\ DOMAIN records' = 0..(next_id' - 1)
      /\ records' \in [0..(next_id' - 1) -> EscrowRecord]
      /\ \A k \in DOMAIN records' : records'[k].id = k /\ records'[k].amount > 0
    BY <1>1, <1>6 DEF FactoryTypeOK
<1>10. FactoryTypeOK'
    BY <1>1, <1>7, <1>8, <1>9 DEF FactoryTypeOK
<1> QED
    BY <1>1, <1>4, <1>10

(***************************************************************************)
(* Type correctness of the factory.                                        *)
(***************************************************************************)
THEOREM FactoryTypeCorrect == Spec => []FactoryTypeOK
<1>1. Init => FactoryTypeOK
    BY FactoryAmountAssumption DEF Init, FactoryTypeOK, Holders
<1>2. FactoryTypeOK /\ [Next]_vars => FactoryTypeOK'
  <2> SUFFICES ASSUME FactoryTypeOK, [Next]_vars PROVE FactoryTypeOK'
      OBVIOUS
  <2>1. CASE UNCHANGED vars
      BY <2>1 DEF FactoryTypeOK, vars
  <2>2. CASE Next
      BY <2>2, CreateFacts, SettleFacts, DonateFacts DEF Next
  <2> QED BY <2>1, <2>2
<1> QED
    BY <1>1, <1>2, PTL DEF Spec

-----------------------------------------------------------------------------
(* The shared pools *)

(***************************************************************************)
(* PoolExact is inductive given FactoryTypeOK.                             *)
(***************************************************************************)
LEMMA PoolStep == FactoryTypeOK /\ PoolExact /\ [Next]_vars => PoolExact'
<1> SUFFICES ASSUME FactoryTypeOK, PoolExact, [Next]_vars, NEW t \in Tokens
             PROVE  bal'[t][EscrowFactory] = Owed(t)' + given'[t]
    BY DEF PoolExact
<1>0. /\ bal[t][EscrowFactory] = Owed(t) + given[t]
      /\ bal[t][EscrowFactory] \in Int /\ given[t] \in Int /\ Owed(t) \in Int
  <2> DEFINE f == [k \in 1..next_id |-> Locked(t, k - 1)]
  <2>1. next_id \in Nat /\ \A k \in 1..next_id : f[k] \in Int
      BY LockedNat DEF FactoryTypeOK
  <2>2. SumTo(f, next_id) \in Int
    <3> HIDE DEF f
    <3> QED BY <2>1, SumToInt
  <2>3. Owed(t) \in Int
      BY <2>2 DEF Owed
  <2> QED BY <2>3 DEF PoolExact, FactoryTypeOK, Holders
<1>1. CASE UNCHANGED vars
    BY <1>0, <1>1 DEF vars, Owed, Locked
<1>2. ASSUME NEW p \in Accounts, NEW f \in Accounts, NEW u \in Tokens, NEW a \in Amounts,
             create_escrow(p, f, u, a)
      PROVE  bal'[t][EscrowFactory] = Owed(t)' + given'[t]
  <2>1. Owed(t)' = Owed(t) + IF t = u THEN a ELSE 0
      BY <1>2, OwedOnCreate
  <2>2. /\ a \in Int /\ bal'[u][EscrowFactory] = bal[u][EscrowFactory] + a
        /\ t # u => bal'[t] = bal[t]
      BY <1>2, CreateFacts
  <2>3. given' = given
      BY <1>2 DEF create_escrow
  <2> QED BY <1>0, <2>1, <2>2, <2>3
<1>3. ASSUME NEW id, submit_work(id) \/ approve(id) \/ cancel(id)
      PROVE  bal'[t][EscrowFactory] = Owed(t)' + given'[t]
  <2> DEFINE r == records[id]
  <2>1. /\ FactoryTypeOK' /\ id \in DOMAIN records /\ next_id' = next_id /\ given' = given
        /\ r.status \in {"Active", "WorkSubmitted"}
      BY <1>3, SettleFacts
  <2>2. r \in EscrowRecord /\ r.amount \in Int /\ r.token \in Tokens
      BY <2>1 DEF FactoryTypeOK, EscrowRecord
  <2>3. Locked(t, id) = IF r.token = t THEN r.amount ELSE 0
      BY <2>1 DEF Locked
  <2>4. CASE SetStatus(id, "WorkSubmitted") /\ bal' = bal
    <3>1. Owed(t)' = Owed(t) + (Locked(t, id)' - Locked(t, id))
        BY <2>1, <2>4, OwedOnStatus DEF EscrowStatus
    <3>2. /\ records'[id].status = "WorkSubmitted"
          /\ records'[id].token = r.token /\ records'[id].amount = r.amount
      <4>1. records'[id] = [r EXCEPT !.status = "WorkSubmitted"]
          BY <2>1, <2>4, SetStatusFacts DEF EscrowStatus
      <4> QED BY <2>2, <4>1 DEF EscrowRecord
    <3>3. Locked(t, id)' = Locked(t, id)
        BY <2>3, <3>2 DEF Locked
    <3>4. Locked(t, id) \in Int
        BY <2>2, <2>3
    <3> QED BY <1>0, <2>1, <2>4, <3>1, <3>3, <3>4
  <2>5. ASSUME NEW st \in {"Completed", "Cancelled"}, SetStatus(id, st),
               NEW to \in Accounts, Pay(r, to)
        PROVE  bal'[t][EscrowFactory] = Owed(t)' + given'[t]
    <3>1. st \in EscrowStatus
        BY DEF EscrowStatus
    <3>2. Owed(t)' = Owed(t) + (Locked(t, id)' - Locked(t, id))
        BY <2>1, <2>5, <3>1, OwedOnStatus
    <3>3. records'[id].status = st
      <4>1. records'[id] = [r EXCEPT !.status = st]
          BY <2>1, <2>5, <3>1, SetStatusFacts
      <4> QED BY <2>2, <4>1 DEF EscrowRecord
    <3>4. Locked(t, id)' = 0
        BY <3>3 DEF Locked
    <3>5. /\ bal'[r.token][EscrowFactory] = bal[r.token][EscrowFactory] - r.amount
          /\ t # r.token => bal'[t] = bal[t]
        BY <2>2, <2>5, PayFacts
    <3> QED BY <1>0, <2>1, <2>2, <2>3, <3>2, <3>4, <3>5
  <2> QED BY <1>3, <2>4, <2>5, SettleFacts
<1>4. ASSUME NEW a \in Accounts, NEW u \in Tokens, NEW amt \in Gifts, Donate(a, u, amt)
      PROVE  bal'[t][EscrowFactory] = Owed(t)' + given'[t]
  <2>1. /\ next_id' = next_id /\ records' = records
        /\ bal'[u][EscrowFactory] = bal[u][EscrowFactory] + amt
        /\ given' = [given EXCEPT ![u] = @ + amt]
        /\ t # u => bal'[t] = bal[t]
      BY <1>4, DonateFacts
  <2>2. Owed(t)' = Owed(t)
      BY <2>1 DEF Owed, Locked
  <2>3. amt \in Int
      BY FactoryAmountAssumption
  <2>4. given'[t] = IF t = u THEN given[t] + amt ELSE given[t]
      BY <2>1 DEF FactoryTypeOK
  <2> QED BY <1>0, <2>1, <2>2, <2>3, <2>4
<1> QED
    BY <1>1, <1>2, <1>3, <1>4 DEF Next

(***************************************************************************)
(* The factory holds, of every token, exactly what its open escrows have   *)
(* locked and what it was given.                                           *)
(***************************************************************************)
THEOREM PoolAlwaysExact == Spec => []PoolExact
<1>1. Init => PoolExact
    BY SumToDef, FactoryAddressAssumption DEF Init, PoolExact, Owed, Holders
<1> QED
    BY <1>1, FactoryTypeCorrect, PoolStep, PTL DEF Spec

(***************************************************************************)
(* No open escrow can be left without the funds for its settlement.        *)
(***************************************************************************)
THEOREM SettlementAlwaysCovered == Spec => []SettlementCovered
<1>1. FactoryTypeOK /\ PoolExact => SettlementCovered
  <2> SUFFICES ASSUME FactoryTypeOK, PoolExact, NEW id \in DOMAIN records,
                      records[id].status \in {"Active", "WorkSubmitted"}
               PROVE  TransferOK(bal[records[id].token], EscrowFactory, records[id].amount)
      BY DEF SettlementCovered
  <2> DEFINE r == records[id]
             f == [k \in 1..next_id |-> Locked(r.token, k - 1)]
  <2>1. next_id \in Nat /\ id \in 0..(next_id - 1) /\ r \in EscrowRecord
      BY DEF FactoryTypeOK
  <2>2. r.token \in Tokens /\ r.amount \in Nat
      BY <2>1 DEF EscrowRecord
  <2>3. id + 1 \in 1..next_id /\ (id + 1) - 1 = id
      BY <2>1
  <2>4. f[id + 1] = r.amount
      BY <2>3 DEF Locked
  <2>5. \A k \in 1..next_id : f[k] \in Nat
      BY LockedNat
  <2>6. Owed(r.token) = SumTo(f, next_id)
      BY DEF Owed
  <2> HIDE DEF f
  <2>7. SumTo(f, next_id) \in Nat /\ f[id + 1] <= SumTo(f, next_id)
      BY <2>1, <2>3, <2>5, SumToMember
  <2>8. /\ bal[r.token][EscrowFactory] = Owed(r.token) + given[r.token]
        /\ given[r.token] \in Nat
      BY <2>2 DEF PoolExact, FactoryTypeOK
  <2> HIDE DEF r
  <2>9. bal[r.token][EscrowFactory] >= r.amount /\ r.amount >= 0
      BY <2>2, <2>4, <2>6, <2>7, <2>8
  <2> QED BY <2>9 DEF TransferOK, r
<1> QED
    BY <1>1, FactoryTypeCorrect, PoolAlwaysExact, PTL

-----------------------------------------------------------------------------
(* The indexes *)

(***************************************************************************)
(* append_to_index keeps a list exact when the id it appends is larger     *)
(* than all the ids listed so far.                                         *)
(***************************************************************************)
LEMMA ListsAppend ==
    ASSUME NEW index, NEW index2, NEW a, NEW ids, NEW n \in Nat,
           index[a] \in Seq(Nat), index2[a] = Append(index[a], n),
           \A k \in ids : k < n, Lists(index, a, ids)
    PROVE  Lists(index2, a, ids \union {n})
<1> DEFINE s == index[a]
           t == index2[a]
<1>1. /\ Len(s) \in Nat /\ DOMAIN s = 1..Len(s)
      /\ DOMAIN t = 1..(Len(s) + 1) /\ t[Len(s) + 1] = n
      /\ \A i \in 1..Len(s) : t[i] = s[i]
    OBVIOUS
<1>2. /\ {s[i] : i \in DOMAIN s} = ids
      /\ \A i, j \in DOMAIN s : i < j => s[i] < s[j]
    BY DEF Lists
<1> HIDE DEF s, t
<1>3. \A i \in DOMAIN t : i = Len(s) + 1 \/ i \in DOMAIN s
    BY <1>1
<1>4. {t[i] : i \in DOMAIN t} = ids \union {n}
  <2>1. ASSUME NEW x \in ids PROVE \E i \in DOMAIN t : t[i] = x
    <3>1. PICK i \in DOMAIN s : s[i] = x
        BY <1>2
    <3>2. i \in DOMAIN t /\ t[i] = x
        BY <1>1, <3>1
    <3> QED BY <3>2
  <2>2. ASSUME NEW i \in DOMAIN t PROVE t[i] \in ids \union {n}
      BY <1>1, <1>2, <1>3
  <2>3. Len(s) + 1 \in DOMAIN t
      BY <1>1
  <2> QED BY <1>1, <2>1, <2>2, <2>3
<1>5. ASSUME NEW i \in DOMAIN t, NEW j \in DOMAIN t, i < j PROVE t[i] < t[j]
  <2>1. i \in DOMAIN s
      BY <1>1, <1>5
  <2>2. s[i] \in ids /\ t[i] = s[i]
      BY <1>1, <1>2, <2>1
  <2>3. CASE j = Len(s) + 1
      BY <1>1, <2>2, <2>3
  <2>4. CASE j \in DOMAIN s
      BY <1>1, <1>2, <1>5, <2>1, <2>2, <2>4
  <2> QED BY <1>3, <2>3, <2>4
<1> QED
    BY <1>4, <1>5 DEF Lists, t

(***************************************************************************)
(* The indexes stay exact: create_escrow lists the new id where it belongs *)
(* and no other operation changes the parties of a record.                 *)
(***************************************************************************)
LEMMA IndexStep == FactoryTypeOK /\ IndexesExact /\ [Next]_vars => IndexesExact'
<1> SUFFICES ASSUME FactoryTypeOK, IndexesExact, [Next]_vars
             PROVE  IndexesExact'
    OBVIOUS
<1>1. CASE UNCHANGED vars
    BY <1>1 DEF vars, IndexesExact, Lists
<1>2. ASSUME NEW p \in Accounts, NEW f \in Accounts, NEW t \in Tokens, NEW x \in Amounts,
             create_escrow(p, f, t, x)
      PROVE  IndexesExact'
  <2>1. /\ next_id \in Nat
        /\ DOMAIN records = 0..(next_id - 1) /\ DOMAIN records' = 0..next_id
        /\ \A k \in 0..(next_id - 1) : records'[k] = records[k]
        /\ records'[next_id].payer = p /\ records'[next_id].freelancer = f
      BY <1>2, CreateFacts
  <2>2. /\ payer_index' = [payer_index EXCEPT ![p] = Append(payer_index[p], next_id)]
        /\ freelancer_index' =
              [freelancer_index EXCEPT ![f] = Append(freelancer_index[f], next_id)]
      BY <1>2 DEF create_escrow, append_to_index
  <2>3. \A k : k \in 0..next_id <=> k = next_id \/ k \in 0..(next_id - 1)
      BY <2>1
  <2>4. SUFFICES ASSUME NEW a \in Accounts
        PROVE  /\ Lists(payer_index', a, {id \in DOMAIN records' : records'[id].payer = a})
               /\ Lists(freelancer_index', a,
                        {id \in DOMAIN records' : records'[id].freelancer = a})
      BY DEF IndexesExact, Lists
  <2> DEFINE P == {id \in DOMAIN records : records[id].payer = a}
             F == {id \in DOMAIN records : records[id].freelancer = a}
             P2 == {id \in DOMAIN records' : records'[id].payer = a}
             F2 == {id \in DOMAIN records' : records'[id].freelancer = a}
  <2>5. Lists(payer_index, a, P) /\ Lists(freelancer_index, a, F)
      BY DEF IndexesExact
  <2>6. P2 = (IF a = p THEN P \union {next_id} ELSE P)
      BY <2>1, <2>3
  <2>7. F2 = (IF a = f THEN F \union {next_id} ELSE F)
      BY <2>1, <2>3
  <2>8. \A k \in DOMAIN records : k < next_id
      BY <2>1
  <2>9. /\ payer_index[a] \in Seq(Nat) /\ freelancer_index[a] \in Seq(Nat)
        /\ payer_index'[a] = IF a = p THEN Append(payer_index[a], next_id) ELSE payer_index[a]
        /\ freelancer_index'[a] =
              IF a = f THEN Append(freelancer_index[a], next_id) ELSE freelancer_index[a]
      BY <2>2 DEF FactoryTypeOK
  <2>10. (\A k \in P : k < next_id) /\ (\A k \in F : k < next_id)
      BY <2>8
  <2> HIDE DEF P, F, P2, F2
  <2>11. Lists(payer_index', a, P2)
    <3>1. CASE a = p
        BY <2>1, <2>5, <2>6, <2>9, <2>10, <3>1, ListsAppend
    <3>2. CASE a # p
        BY <2>5, <2>6, <2>9, <3>2 DEF Lists
    <3> QED BY <3>1, <3>2
  <2>12. Lists(freelancer_index', a, F2)
    <3>1. CASE a = f
        BY <2>1, <2>5, <2>7, <2>9, <2>10, <3>1, ListsAppend
    <3>2. CASE a # f
        BY <2>5, <2>7, <2>9, <3>2 DEF Lists
    <3> QED BY <3>1, <3>2
  <2> QED BY <2>11, <2>12 DEF P2, F2
<1>3. ASSUME NEW id, submit_work(id) \/ approve(id) \/ cancel(id)
      PROVE  IndexesExact'
  <2>1. /\ id \in DOMAIN records
        /\ payer_index' = payer_index /\ freelancer_index' = freelancer_index
      BY <1>3, SettleFacts
  <2>2. PICK st \in EscrowStatus : SetStatus(id, st)
      BY <1>3, SettleFacts DEF EscrowStatus
  <2>3. /\ DOMAIN records' = DOMAIN records
        /\ \A k \in DOMAIN records : /\ records'[k].payer = records[k].payer
                                     /\ records'[k].freelancer = records[k].freelancer
      BY <2>1, <2>2, SetStatusFacts
  <2>4. ASSUME NEW a \in Accounts
        PROVE  /\ {k \in DOMAIN records' : records'[k].payer = a}
                     = {k \in DOMAIN records : records[k].payer = a}
               /\ {k \in DOMAIN records' : records'[k].freelancer = a}
                     = {k \in DOMAIN records : records[k].freelancer = a}
      BY <2>3
  <2> QED BY <2>1, <2>4 DEF IndexesExact, Lists
<1>4. ASSUME NEW a \in Accounts, NEW t \in Tokens, NEW amt \in Gifts, Donate(a, t, amt)
      PROVE  IndexesExact'
    BY <1>4 DEF Donate, IndexesExact, Lists
<1> QED
    BY <1>1, <1>2, <1>3, <1>4 DEF Next

(***************************************************************************)
(* list_by_payer and list_by_freelancer are exact and ordered for any      *)
(* number of escrows and addresses.                                        *)
(***************************************************************************)
THEOREM IndexesAlwaysExact == Spec => []IndexesExact
<1>1. Init => IndexesExact
    BY DEF Init, IndexesExact, Lists
<1> QED
    BY <1>1, FactoryTypeCorrect, IndexStep, PTL DEF Spec

-----------------------------------------------------------------------------
(* Settlement *)

(***************************************************************************)
(* Tokens leave the factory only in the settlement of one open escrow, in  *)
(* full, with its payer's authorisation: to its freelancer after work was  *)
(* submitted, back to its payer before.  No other escrow changes.          *)
(***************************************************************************)
THEOREM AlwaysSettledProperly == Spec => SettledProperly
<1> DEFINE Drained == \E t \in Tokens : bal'[t][EscrowFactory] < bal[t][EscrowFactory]
           Settled == \E id \in DOMAIN records : Settles(id)
<1>1. FactoryTypeOK /\ [Next]_vars => [Drained => Settled]_vars
  <2> SUFFICES ASSUME FactoryTypeOK, Next, NEW t \in Tokens,
                      bal'[t][EscrowFactory] < bal[t][EscrowFactory]
               PROVE  Settled
      OBVIOUS
  <2>1. bal[t][EscrowFactory] \in Int
      BY DEF FactoryTypeOK, Holders
  <2>2. ASSUME NEW p \in Accounts, NEW f \in Accounts, NEW u \in Tokens, NEW x \in Amounts,
               create_escrow(p, f, u, x)
        PROVE  FALSE
    <3>1. /\ x \in Nat /\ bal'[u][EscrowFactory] = bal[u][EscrowFactory] + x
          /\ t # u => bal'[t] = bal[t]
        BY <2>2, CreateFacts
    <3> QED BY <2>1, <3>1
  <2>3. ASSUME NEW a \in Accounts, NEW u \in Tokens, NEW amt \in Gifts, Donate(a, u, amt)
        PROVE  FALSE
    <3>1. /\ bal'[u][EscrowFactory] = bal[u][EscrowFactory] + amt
          /\ t # u => bal'[t] = bal[t]
        BY <2>3, DonateFacts
    <3>2. amt \in Nat
        BY FactoryAmountAssumption
    <3> QED BY <2>1, <3>1, <3>2
  <2>4. ASSUME NEW id, submit_work(id) PROVE FALSE
      BY <2>1, <2>4 DEF submit_work
  <2>5. ASSUME NEW id, approve(id) \/ cancel(id) PROVE Settled
    <3>1. id \in DOMAIN records /\ records[id].status \in {"Active", "WorkSubmitted"}
        BY <2>5 DEF approve, cancel, Exists
    <3>2. PICK st \in {"Completed", "Cancelled"} : SetStatus(id, st)
        BY <2>5 DEF approve, cancel
    <3>3. records[id] \in EscrowRecord
        BY <3>1 DEF FactoryTypeOK
    <3>4. /\ \A k \in DOMAIN records \ {id} : records'[k] = records[k]
          /\ records'[id] = [records[id] EXCEPT !.status = st]
        BY <3>1, <3>2, SetStatusFacts DEF EscrowStatus
    <3>5. records'[id].status \in {"Completed", "Cancelled"}
        BY <3>3, <3>4 DEF EscrowRecord
    <3>6. Settles(id)
        BY <2>5, <3>1, <3>4, <3>5 DEF Settles, approve, cancel, Pay
    <3> QED BY <3>1, <3>6
  <2> QED BY <2>2, <2>3, <2>4, <2>5 DEF Next
<1> QED
    BY <1>1, FactoryTypeCorrect, PTL DEF Spec, SettledProperly

-----------------------------------------------------------------------------
(***************************************************************************)
(* The factory implements Custody, for every number of escrows, accounts   *)
(* and tokens: each of its steps maps to a step of Custody or a stutter.   *)
(***************************************************************************)

Ids == 0..(MaxEscrows - 1)

\* What the mapping needs to know of a reachable state.
Bounded == next_id <= MaxEscrows
MapInv  == FactoryTypeOK /\ Bounded

-----------------------------------------------------------------------------
(* The mapping *)

(***************************************************************************)
(* Every stored escrow has an entry in the book.                           *)
(***************************************************************************)
LEMMA StoredIds ==
    ASSUME MapInv
    PROVE  DOMAIN records \subseteq Ids /\ next_id \in Nat /\ next_id \notin DOMAIN records
    BY FactoryAmountAssumption DEF MapInv, Bounded, FactoryTypeOK, Ids

(***************************************************************************)
(* When the balance of one account in one token changes, so does that      *)
(* account's wallet and nothing else.                                      *)
(***************************************************************************)
LEMMA WalletCredit ==
    ASSUME NEW t \in Tokens, NEW a \in Accounts, NEW amt \in Int,
           \A u \in Tokens, h \in Accounts :
              bal'[u][h] = IF u = t /\ h = a THEN bal[u][h] + amt ELSE bal[u][h]
    PROVE  CustodyWallet' = Promise!Credit(CustodyWallet, t, a, amt)
<1>1. CustodyWallet = [u \in Tokens |-> [h \in Accounts |-> bal[u][h]]]
    BY DEF CustodyWallet
<1>2. CustodyWallet' = [u \in Tokens |-> [h \in Accounts |-> bal'[u][h]]]
    BY DEF CustodyWallet
<1>3. [h \in Accounts |-> bal'[t][h]]
        = [CustodyWallet[t] EXCEPT ![a] = CustodyWallet[t][a] + amt]
  <2>1. CustodyWallet[t] = [h \in Accounts |-> bal[t][h]]
      BY <1>1
  <2> QED BY <2>1
<1>4. \A u \in Tokens : u # t => [h \in Accounts |-> bal'[u][h]] = CustodyWallet[u]
    BY <1>1
<1>5. CustodyWallet' = [CustodyWallet EXCEPT ![t] = [h \in Accounts |-> bal'[t][h]]]
    BY <1>1, <1>2, <1>4
<1>6. CustodyWallet' = [CustodyWallet EXCEPT ![t] =
                           [CustodyWallet[t] EXCEPT ![a] = CustodyWallet[t][a] + amt]]
    BY <1>3, <1>5
<1> QED
    BY <1>6 DEF Promise!Credit

(***************************************************************************)
(* What the factory pays reaches that account's wallet and no other.       *)
(***************************************************************************)
LEMMA PayWallets ==
    ASSUME FactoryTypeOK, NEW t \in Tokens, NEW a \in Accounts, NEW amt \in Int,
           bal' = [bal EXCEPT ![t] = Transfer(@, EscrowFactory, a, amt)]
    PROVE  CustodyWallet' = Promise!Credit(CustodyWallet, t, a, amt)
<1>1. /\ bal \in [Tokens -> [Holders -> Nat]] /\ EscrowFactory \notin Accounts
      /\ Accounts \subseteq Holders /\ EscrowFactory \in Holders
    BY FactoryAddressAssumption DEF FactoryTypeOK, Holders
<1>2. bal'[t] = Transfer(bal[t], EscrowFactory, a, amt)
    BY <1>1
<1>3. \A h \in Accounts : bal'[t][h] = IF h = a THEN bal[t][h] + amt ELSE bal[t][h]
    BY <1>1, <1>2 DEF Transfer
<1>4. \A u \in Tokens : u # t => bal'[u] = bal[u]
    BY <1>1
<1>5. \A u \in Tokens, h \in Accounts :
         bal'[u][h] = IF u = t /\ h = a THEN bal[u][h] + amt ELSE bal[u][h]
    BY <1>3, <1>4
<1> QED BY <1>5, WalletCredit

(***************************************************************************)
(* What an account pays into the factory leaves its wallet and no other.   *)
(***************************************************************************)
LEMMA ReceiveWallets ==
    ASSUME FactoryTypeOK, NEW t \in Tokens, NEW a \in Accounts, NEW amt \in Int,
           bal' = [bal EXCEPT ![t] = Transfer(@, a, EscrowFactory, amt)]
    PROVE  CustodyWallet' = Promise!Credit(CustodyWallet, t, a, -amt)
<1>1. /\ bal \in [Tokens -> [Holders -> Nat]] /\ EscrowFactory \notin Accounts
      /\ Accounts \subseteq Holders /\ EscrowFactory \in Holders
    BY FactoryAddressAssumption DEF FactoryTypeOK, Holders
<1>2. bal'[t] = Transfer(bal[t], a, EscrowFactory, amt)
    BY <1>1
<1>3. \A h \in Accounts : bal'[t][h] = IF h = a THEN bal[t][h] + (-amt) ELSE bal[t][h]
    BY <1>1, <1>2 DEF Transfer
<1>4. \A u \in Tokens : u # t => bal'[u] = bal[u]
    BY <1>1
<1>5. \A u \in Tokens, h \in Accounts :
         bal'[u][h] = IF u = t /\ h = a THEN bal[u][h] + (-amt) ELSE bal[u][h]
    BY <1>3, <1>4
<1>6. -amt \in Int
    OBVIOUS
<1> QED BY <1>5, <1>6, WalletCredit

\* The book's entry for an escrow that is open or settled.
OpenEntry(r) == Promise!Entry("open", r.amount, r.payer, r.freelancer, r.token)
DoneEntry(r) == Promise!Entry("done", 0, r.payer, r.freelancer, r.token)

(***************************************************************************)
(* The entries of the book, case by case.                                  *)
(***************************************************************************)
LEMMA BookEntries ==
    ASSUME NEW id \in Ids
    PROVE  /\ id \notin DOMAIN records => CustodyBook[id] = Promise!Fresh
           /\ id \in DOMAIN records =>
                 CustodyBook[id] = IF records[id].status \in {"Active", "WorkSubmitted"}
                                   THEN OpenEntry(records[id]) ELSE DoneEntry(records[id])
    BY DEF CustodyBook, Exists, OpenEntry, DoneEntry, Ids, Promise!Fresh, Promise!Entry

(***************************************************************************)
(* The same for the next state.                                            *)
(***************************************************************************)
LEMMA BookEntriesNext ==
    ASSUME NEW id \in Ids
    PROVE  /\ id \notin DOMAIN records' => CustodyBook'[id] = Promise!Fresh
           /\ id \in DOMAIN records' =>
                 CustodyBook'[id] = IF records'[id].status \in {"Active", "WorkSubmitted"}
                                    THEN OpenEntry(records'[id]) ELSE DoneEntry(records'[id])
    BY DEF CustodyBook, Exists, OpenEntry, DoneEntry, Ids, Promise!Fresh, Promise!Entry

(***************************************************************************)
(* A change of one record changes one entry.                               *)
(***************************************************************************)
LEMMA OneEntry ==
    ASSUME NEW id \in Ids, NEW e,
           CustodyBook'[id] = e,
           DOMAIN records \ {id} = DOMAIN records' \ {id},
           \A k \in DOMAIN records \ {id} : records'[k] = records[k]
    PROVE  CustodyBook' = [CustodyBook EXCEPT ![id] = e]
<1>1. \A k \in Ids \ {id} : CustodyBook'[k] = CustodyBook[k]
    BY BookEntries, BookEntriesNext
<1>2. CustodyBook = [k \in Ids |-> CustodyBook[k]] /\ CustodyBook' = [k \in Ids |-> CustodyBook'[k]]
    BY DEF CustodyBook, Ids
<1> QED BY <1>1, <1>2

-----------------------------------------------------------------------------
(* Steps *)

(***************************************************************************)
(* create_escrow opens the next id.                                        *)
(***************************************************************************)
LEMMA CreateOpens ==
    ASSUME MapInv, NEW p \in Accounts, NEW f \in Accounts, NEW t \in Tokens,
           NEW a \in Amounts, create_escrow(p, f, t, a)
    PROVE  Promise!Next
<1> DEFINE e == Promise!Entry("open", a, p, f, t)
<1>1. /\ a \in Nat \ {0} /\ next_id \in Nat
      /\ DOMAIN records = 0..(next_id - 1) /\ DOMAIN records' = 0..next_id
      /\ \A k \in 0..(next_id - 1) : records'[k] = records[k]
      /\ records'[next_id].payer = p /\ records'[next_id].freelancer = f
      /\ records'[next_id].token = t /\ records'[next_id].amount = a
      /\ records'[next_id].status = "Active"
    BY CreateFacts DEF MapInv
<1>2. next_id \in Ids /\ MaxEscrows \in Nat
    BY <1>1, FactoryAmountAssumption DEF create_escrow, Ids
<1>3. /\ TransferOK(bal[t], p, a)
      /\ bal' = [bal EXCEPT ![t] = Transfer(@, p, EscrowFactory, a)]
    BY DEF create_escrow
<1>4. next_id \notin DOMAIN records /\ next_id \in DOMAIN records'
      /\ DOMAIN records \ {next_id} = DOMAIN records' \ {next_id}
    BY <1>1
<1>5. CustodyBook[next_id] = Promise!Fresh
    BY <1>2, <1>4, BookEntries
<1>6. CustodyBook'[next_id] = e
    BY <1>1, <1>2, <1>4, BookEntriesNext DEF OpenEntry
<1> HIDE DEF e
<1>7. CustodyBook' = [CustodyBook EXCEPT ![next_id] = e]
    BY <1>1, <1>2, <1>4, <1>6, OneEntry
<1>8. CustodyWallet' = Promise!Credit(CustodyWallet, t, p, -a)
  <2>1. FactoryTypeOK /\ a \in Int
      BY <1>1 DEF MapInv
  <2> QED BY <1>3, <2>1, ReceiveWallets
<1>9. CustodyWallet[t][p] \in Nat /\ a <= CustodyWallet[t][p] /\ a > 0
    BY <1>1, <1>3 DEF CustodyWallet, TransferOK, MapInv, FactoryTypeOK, Holders
<1>10. Promise!Open(next_id, p, f, t, a)
    BY <1>5, <1>7, <1>8, <1>9 DEF Promise!Open, e
<1>11. a \in 1..CustodyWallet[t][p]
    BY <1>1, <1>9
<1> QED
    BY <1>2, <1>10, <1>11 DEF Promise!Next, Ids

(***************************************************************************)
(* submit_work is invisible to the book: the escrow stays open.            *)
(***************************************************************************)
LEMMA SubmitStutters ==
    ASSUME MapInv, NEW id, submit_work(id)
    PROVE  CustodyBook' = CustodyBook /\ CustodyWallet' = CustodyWallet
<1>1. /\ id \in DOMAIN records /\ records[id].status = "Active"
      /\ SetStatus(id, "WorkSubmitted") /\ bal' = bal
    BY DEF submit_work, Exists
<1>2. /\ DOMAIN records' = DOMAIN records
      /\ \A k \in DOMAIN records : k # id => records'[k] = records[k]
      /\ records'[id] = [records[id] EXCEPT !.status = "WorkSubmitted"]
    BY <1>1, SetStatusFacts DEF MapInv, EscrowStatus
<1>3. id \in Ids /\ records[id] \in EscrowRecord
    BY <1>1, StoredIds DEF MapInv, FactoryTypeOK
<1>4. records'[id].status = "WorkSubmitted" /\ OpenEntry(records'[id]) = OpenEntry(records[id])
    BY <1>2, <1>3 DEF EscrowRecord, OpenEntry
<1>5. CustodyBook'[id] = CustodyBook[id]
  <2>1. CustodyBook[id] = OpenEntry(records[id])
      BY <1>1, <1>3, BookEntries
  <2>2. CustodyBook'[id] = OpenEntry(records'[id])
      BY <1>1, <1>2, <1>3, <1>4, BookEntriesNext
  <2> QED BY <1>4, <2>1, <2>2
<1>6. CustodyBook' = [CustodyBook EXCEPT ![id] = CustodyBook[id]]
    BY <1>2, <1>3, <1>5, OneEntry
<1> QED
    BY <1>1, <1>6 DEF CustodyBook, CustodyWallet

(***************************************************************************)
(* What approve and cancel do to the book.                                 *)
(***************************************************************************)
LEMMA SettleEntry ==
    ASSUME MapInv, NEW id \in DOMAIN records,
           records[id].status \in {"Active", "WorkSubmitted"},
           SetStatus(id, "Completed") \/ SetStatus(id, "Cancelled")
    PROVE  /\ id \in Ids /\ records[id] \in EscrowRecord /\ records[id].amount \in Nat \ {0}
           /\ CustodyBook[id] = OpenEntry(records[id])
           /\ CustodyBook' = [CustodyBook EXCEPT ![id] = DoneEntry(records[id])]
<1>1. PICK st \in {"Completed", "Cancelled"} : SetStatus(id, st)
    OBVIOUS
<1>2. /\ DOMAIN records' = DOMAIN records
      /\ \A k \in DOMAIN records : k # id => records'[k] = records[k]
      /\ records'[id] = [records[id] EXCEPT !.status = st]
    BY <1>1, SetStatusFacts DEF MapInv, EscrowStatus
<1>3. id \in Ids /\ records[id] \in EscrowRecord /\ records[id].amount \in Nat \ {0}
  <2>1. id \in Ids
      BY StoredIds
  <2>2. records[id] \in EscrowRecord /\ records[id].amount > 0
      BY DEF MapInv, FactoryTypeOK
  <2> QED BY <2>1, <2>2 DEF EscrowRecord
<1>4. records'[id].status = st /\ DoneEntry(records'[id]) = DoneEntry(records[id])
    BY <1>2, <1>3 DEF EscrowRecord, OpenEntry, DoneEntry
<1>5. CustodyBook'[id] = DoneEntry(records[id])
    BY <1>2, <1>3, <1>4, BookEntriesNext
<1>6. CustodyBook' = [CustodyBook EXCEPT ![id] = DoneEntry(records[id])]
    BY <1>2, <1>3, <1>5, OneEntry
<1> QED
    BY <1>3, <1>6, BookEntries

(***************************************************************************)
(* approve releases the whole amount, without a fee.                       *)
(***************************************************************************)
LEMMA ApproveReleases ==
    ASSUME MapInv, NEW id, approve(id)
    PROVE  Promise!Next
<1> DEFINE r == records[id]
           f == r.freelancer
           w == CustodyWallet
<1>1. /\ id \in DOMAIN records /\ r.status \in {"Active", "WorkSubmitted"}
      /\ Pay(r, f) /\ SetStatus(id, "Completed")
    BY DEF approve, Exists
<1>2. /\ id \in Ids /\ r \in EscrowRecord /\ r.amount \in Nat \ {0}
      /\ CustodyBook[id] = OpenEntry(r)
      /\ CustodyBook' = [CustodyBook EXCEPT ![id] = DoneEntry(r)]
    BY <1>1, SettleEntry
<1>3. r.token \in Tokens /\ f \in Accounts
    BY <1>2 DEF EscrowRecord
<1>4. CustodyWallet' = Promise!Credit(w, r.token, f, r.amount)
  <2>1. FactoryTypeOK /\ r.amount \in Int
      BY <1>2 DEF MapInv
  <2>2. bal' = [bal EXCEPT ![r.token] = Transfer(@, EscrowFactory, f, r.amount)]
      BY <1>1 DEF Pay
  <2> QED BY <1>3, <2>1, <2>2, PayWallets
<1>5. Promise!Credit(w, r.token, f, 0) = w
  <2>1. w \in [Tokens -> [Accounts -> Int]]
      BY DEF CustodyWallet, MapInv, FactoryTypeOK, Holders
  <2> HIDE DEF w, f
  <2>2. [w[r.token] EXCEPT ![f] = w[r.token][f] + 0] = w[r.token]
      BY <1>3, <2>1
  <2>3. [w EXCEPT ![r.token] = w[r.token]] = w
      BY <1>3, <2>1
  <2> QED BY <2>2, <2>3 DEF Promise!Credit
<1>6. /\ OpenEntry(r).phase = "open" /\ OpenEntry(r).locked = r.amount
      /\ OpenEntry(r).token = r.token /\ OpenEntry(r).payee = f
      /\ DoneEntry(r) = Promise!Entry("done", 0, OpenEntry(r).payer, f, r.token)
      /\ r.amount - r.amount = 0 /\ r.amount - 0 = r.amount
    BY <1>2 DEF OpenEntry, DoneEntry, Promise!Entry
<1> HIDE DEF r, f, w
<1>7. Promise!Release(id, r.amount, 0, f)
    BY <1>2, <1>4, <1>5, <1>6 DEF Promise!Release, w
<1>8. r.amount \in 1..CustodyBook[id].locked /\ 0 \in 0..r.amount
    BY <1>2, <1>6
<1> QED
    BY <1>2, <1>3, <1>7, <1>8 DEF Promise!Next, Ids

(***************************************************************************)
(* cancel refunds the whole amount.                                        *)
(***************************************************************************)
LEMMA CancelRefunds ==
    ASSUME MapInv, NEW id, cancel(id)
    PROVE  Promise!Next
<1> DEFINE r == records[id]
<1>1. /\ id \in DOMAIN records /\ r.status \in {"Active", "WorkSubmitted"}
      /\ Pay(r, r.payer) /\ SetStatus(id, "Cancelled")
    BY DEF cancel, Exists
<1>2. /\ id \in Ids /\ r \in EscrowRecord /\ r.amount \in Nat \ {0}
      /\ CustodyBook[id] = OpenEntry(r)
      /\ CustodyBook' = [CustodyBook EXCEPT ![id] = DoneEntry(r)]
    BY <1>1, SettleEntry
<1>3. r.token \in Tokens /\ r.payer \in Accounts
    BY <1>2 DEF EscrowRecord
<1>4. CustodyWallet' = Promise!Credit(CustodyWallet, r.token, r.payer, r.amount)
  <2>1. FactoryTypeOK /\ r.amount \in Int
      BY <1>2 DEF MapInv
  <2>2. bal' = [bal EXCEPT ![r.token] = Transfer(@, EscrowFactory, r.payer, r.amount)]
      BY <1>1 DEF Pay
  <2> QED BY <1>3, <2>1, <2>2, PayWallets
<1>5. /\ OpenEntry(r).phase = "open" /\ OpenEntry(r).locked = r.amount
      /\ OpenEntry(r).token = r.token /\ OpenEntry(r).payer = r.payer
      /\ DoneEntry(r) = Promise!Entry("done", 0, r.payer, OpenEntry(r).payee, r.token)
    BY <1>2 DEF OpenEntry, DoneEntry, Promise!Entry
<1> HIDE DEF r
<1>6. Promise!Refund(id)
    BY <1>2, <1>4, <1>5 DEF Promise!Refund
<1> QED
    BY <1>2, <1>6 DEF Promise!Next, Ids

(***************************************************************************)
(* A donation gives tokens away and touches no escrow.                     *)
(***************************************************************************)
LEMMA DonateGives ==
    ASSUME MapInv, NEW a \in Accounts, NEW t \in Tokens, NEW amt \in Gifts, Donate(a, t, amt)
    PROVE  Promise!Next
<1>1. /\ TransferOK(bal[t], a, amt) /\ records' = records
      /\ bal' = [bal EXCEPT ![t] = Transfer(@, a, EscrowFactory, amt)]
    BY DEF Donate
<1>2. amt \in Nat
    BY FactoryAmountAssumption
<1>3. CustodyWallet' = Promise!Credit(CustodyWallet, t, a, -amt)
  <2>1. FactoryTypeOK /\ amt \in Int
      BY <1>2 DEF MapInv
  <2> QED BY <1>1, <2>1, ReceiveWallets
<1>4. CustodyWallet[t][a] \in Nat /\ amt <= CustodyWallet[t][a]
    BY <1>1 DEF CustodyWallet, TransferOK, MapInv, FactoryTypeOK, Holders
<1>5. CustodyBook' = CustodyBook
    BY <1>1 DEF CustodyBook, Exists
<1>6. Promise!Give(t, a, amt)
    BY <1>3, <1>4, <1>5 DEF Promise!Give
<1>7. amt \in 0..CustodyWallet[t][a]
    BY <1>2, <1>4
<1> QED
    BY <1>6, <1>7 DEF Promise!Next

-----------------------------------------------------------------------------
(***************************************************************************)
(* The bound of the model is kept.                                         *)
(***************************************************************************)
LEMMA MapInvAlways == Spec => []MapInv
<1>1. Init => Bounded
    BY FactoryAmountAssumption DEF Init, Bounded
<1>2. FactoryTypeOK /\ Bounded /\ [Next]_vars => Bounded'
  <2> SUFFICES ASSUME FactoryTypeOK, next_id <= MaxEscrows, [Next]_vars
               PROVE  next_id' <= MaxEscrows
      BY DEF Bounded
  <2>1. next_id \in Nat /\ MaxEscrows \in Nat
      BY FactoryAmountAssumption DEF FactoryTypeOK
  <2>2. ASSUME NEW p \in Accounts, NEW f \in Accounts, NEW t \in Tokens, NEW a \in Amounts,
               create_escrow(p, f, t, a)
        PROVE  next_id' <= MaxEscrows
      BY <2>1, <2>2 DEF create_escrow
  <2>3. ASSUME NEW id, submit_work(id) \/ approve(id) \/ cancel(id) PROVE next_id' = next_id
      BY <2>3 DEF submit_work, approve, cancel
  <2>4. ASSUME NEW a \in Accounts, NEW t \in Tokens, NEW amt \in Gifts, Donate(a, t, amt)
        PROVE  next_id' = next_id
      BY <2>4 DEF Donate
  <2>5. CASE UNCHANGED vars
      BY <2>5 DEF vars
  <2> QED
      BY <2>2, <2>3, <2>4, <2>5 DEF Next
<1>3. MapInv <=> FactoryTypeOK /\ Bounded
    BY DEF MapInv
<1> QED
    BY <1>1, <1>2, <1>3, FactoryTypeCorrect, PTL DEF Spec

(***************************************************************************)
(* The factory implements Custody with one escrow per id, although all of  *)
(* them share one balance per token.                                       *)
(***************************************************************************)
THEOREM FactoryImplementsCustody == Spec => ImplementsCustody
<1>1. Init => Promise!Init
  <2> SUFFICES ASSUME Init PROVE Promise!Init
      OBVIOUS
  <2>1. CustodyBook = [i \in 0..(MaxEscrows - 1) |-> Promise!Fresh]
      BY DEF Init, CustodyBook, Exists, Promise!Fresh, Promise!Entry
  <2>2. CustodyWallet \in [Tokens -> [Accounts -> Nat]]
      BY FactoryAmountAssumption DEF Init, CustodyWallet, Holders
  <2> QED BY <2>1, <2>2 DEF Promise!Init
<1>2. MapInv /\ [Next]_vars => [Promise!Next]_<<CustodyBook, CustodyWallet>>
  <2> SUFFICES ASSUME MapInv, [Next]_vars
               PROVE  Promise!Next \/ (CustodyBook' = CustodyBook /\ CustodyWallet' = CustodyWallet)
      OBVIOUS
  <2>1. CASE UNCHANGED vars
      BY <2>1 DEF vars, CustodyBook, CustodyWallet, Exists
  <2>2. CASE Next
      BY <2>2, CreateOpens, SubmitStutters, ApproveReleases, CancelRefunds, DonateGives DEF Next
  <2> QED BY <2>1, <2>2
<1> QED
    BY <1>1, <1>2, MapInvAlways, PTL DEF Spec, ImplementsCustody, Promise!Spec, Promise!cvars

=============================================================================
