# StarEscrow in TLA+

A verification development for StarEscrow, a set of Soroban (Stellar) smart
contracts that hold a payer's tokens until a freelancer's work is approved,
together with a command-line client. The specifications are written from the
Rust source under `src/`; TLC checks them on small instances and TLAPS proves
their safety properties for every value of the constants.

## 1. Inventory

### Components

| Component | Source | State it keeps | Operations |
|---|---|---|---|
| Escrow contract | `contracts/escrow/src/lib.rs`, `storage.rs` | instance storage: one `EscrowData`, one `ProtocolConfig`; its token balance; its storage TTL | `init`, `pause`, `unpause`, `create`, `submit_work`, `approve`, `release_recurring`, `cancel`, `expire`, `transfer_freelancer`, `transfer_payer`, `extend_deadline`; reads `get_status`, `get_escrow` |
| Factory contract | `contracts/factory/src/lib.rs` | id counter, one record per id, an index per payer and per freelancer; one balance per token shared by all escrows | `create_escrow`, `submit_work`, `approve`, `cancel`; reads |
| Reputation contract | `contracts/reputation/src/lib.rs` | admin, registered callers, counters per address | `init`, `register_caller`, `record_completion`, `record_cancellation`, `get_reputation` |
| Rate limit | `storage.rs` 77-98, 144-196 | limiter configuration, one window per payer | `write_config`, `check_and_update_rate_limit` (dead code: no entry point calls them) |
| Token allowlist | `storage.rs` 100-103, 198-239 | vector of tokens | `add_to_allowlist`, `remove_from_allowlist` (dead code) |
| Yield protocol | `yield.rs` (interface only) | external | `deposit`, `withdraw` (never called) |
| Token | external (SEP-41) | balances | `transfer` |
| Ledger | external | time, archival of storage | closing a ledger, restoring an archived instance |
| Events, errors | `events.rs`, `errors.rs` | none; an observer's replay of the events | one event constructor per entry point; error codes are output only |
| Command-line client | `clients/cli/src/main.rs` | an `.env` file; commands on their way through the stellar CLI and the network | one `stellar contract invoke` per command; `deploy` with `upsert_env_var`; read-only `status` and `list` |

The escrow contract calls the token (synchronously, inside its transaction) and
the yield protocol's `deposit`. It never calls the reputation contract. The
factory is independent of the escrow contract: it does not deploy instances but
keeps all its escrows in its own storage and one pool per token.

### What is hard about it

* **Every call is atomic, but calls interleave.** Payer, freelancer, admin,
  passers-by (for `release_recurring`) and the clock act in any order, and roles
  change hands in between. Each guard reads state earlier calls left.
* **Several payouts draw on one balance**: milestones, recurring releases, the
  fee and the refund in the escrow contract; all escrows of a token in the
  factory. The contract keeps no running balance, it recomputes what remains.
* **Guards that are missing.** `approve` does not look at the escrow's status;
  `create` accepts milestone statuses; nothing bounds `fee_bps`. Whether the
  money is safe then depends on the transfer failing at the right moment.
* **Fixed windows and fixed-width numbers.** The rate limiter's windows are aligned
  to nothing and its counters outlive the configuration they were made under; the
  reputation score overflows u32 before its counters do.
* **What others see.** Indexers have only the events, and no event says that an
  approval completed the escrow. A user of the client has only its answer, which may
  be an error although the transaction lands later.
* **A file without a lock.** `deploy` reads, truncates and writes `.env` in three
  steps; runs interleave, fail and crash between them.
* **Time and rent.** Deadlines, recurring intervals, pauses and archival of the
  instance decide when somebody can get at their money.

The full list, each with its source line and the properties that cover it, is
the `hazards` section of `PROJECT.json`.

### State of the source

The escrow crate is in the middle of a change from one payment to several
milestones and does not type-check at this commit. Two places needed a reading:

* `release_recurring`, `cancel` and `expire` read `data.amount`, which
  `EscrowData` does not declare. The model adds the field with an arbitrary
  value, fixed at creation (`ReleaseAmounts`); every result holds whatever it is.
* `approve` passes the pair `(net, fee)` where an amount is expected. As in
  `release_recurring`, the net amount is taken to be transferred.

The tests and snapshots under `contracts/escrow` are from the version before the
change. Where they still state what the contract is meant to do they are quoted
in the findings.

## 2. Modules

| Module | Content |
|---|---|
| `Token` | the token's `transfer`: when it panics, what it does (external) |
| `Sums` | sum of the first n values of a function, by recursion on the index |
| `Lists` | the members of a set among the first n values of a list, in their order, by the same recursion |
| `Custody` | abstract: what any escrow promises about locked tokens, whoever keeps it |
| `Escrow` | the escrow contract with its token, clock, TTL and outsiders; its properties; its mapping to `Custody` |
| `EscrowEvents` | composes `Escrow` with the events its entry points publish and an observer who has only those |
| `EscrowYield` | composes `Escrow` with the calls it makes to the yield protocol |
| `Client` | composes `Escrow` with users who call it through the command-line client and a faulty network |
| `Deploy` | the client's `deploy` runs and their one `.env` file |
| `Factory` | the factory contract with its tokens; its properties; its mapping to `Custody` |
| `RateLimit` | the rate limiter of `storage.rs` with the ledger clock; its properties |
| `AllowList` | the token allowlist of `storage.rs` and `create`'s check against it |
| `Reputation` | the reputation contract; its properties |
| `MC...` | values of the constants for TLC, one per module that is run |
| `HelperTheorems` | what the operators of `Sums`, `Lists` and `Token` compute, for every argument |
| `EscrowProofs`, `FactoryProofs` | theorems about the two contracts that hold tokens, with their refinements of `Custody` |
| `EventProofs`, `ClientProofs` | theorems about the two compositions with `Escrow`, on top of `EscrowProofs` |
| `StorageProofs`, `ReputationProofs`, `DeployProofs` | theorems about `RateLimit` and `AllowList`, `Reputation`, `Deploy` |

### Escrow: correspondence with the code

One action per entry point, named as in the source. An invocation either returns
`Ok(())` and commits or changes nothing (an `Err`, a panic, a missing
authorisation and an overflow all roll back; the release profile keeps overflow
checks on). So an action's guard is the conjunction of all conditions on the way
to `Ok(())`, the token's included, and rejected calls are not steps.

* `config`, `escrow`: the instance entries `DataKey::Config` and
  `DataKey::Escrow(0)`; `None` when absent (`expect` in `load_*` then panics).
  Milestone indices are 1-based in the model.
* `bal`: the token's balances. There is one token: the allowlist that `create`
  consults can be filled by no entry point and is always empty.
* `now`, `ttl`: `CloseLedger` advances the clock by one and uses up one ledger of
  rent. At `ttl = 0` the instance is archived and no entry point can run until
  `RestoreInstance`. `extend_ttl` is part of every entry point except
  `release_recurring`, as in the code.
* `auth`: whose `require_auth` the last call satisfied. It only serves `Consent` and
  `KeptAlive`. `created`, the time of `create`, is a history variable for
  `RecurringPace`.
* Arithmetic: `FeeFits` is the one place where an i128 overflow is not already
  implied by another failing check. A total beyond i128 exceeds any balance; a
  `last_release_time + interval` beyond u64 is later than any timestamp.
* `create` with a yield protocol calls its `deposit(total)`, which moves no token of
  the contract: the contract neither sends the principal nor approves or authorises a
  transfer, so a protocol that tried to pull it would fail and roll `create` back. The
  field `principal_deposited` is set all the same. `EscrowYield` adds `lent`, a history
  variable: what was deposited and not withdrawn. Only the step that creates the escrow
  changes it, as `withdraw_funds` has no caller.
* Addresses of payer, freelancer, admin and fee collector are accounts; a contract
  address in one of these roles is not modelled.

### Factory: correspondence with the code

`next_id`, `records`, `payer_index` and `freelancer_index` are the four kinds of
instance entries, `bal` the balances per token. `given` is a history variable:
what outsiders sent to the factory. The factory has no TTL extension at all, no
pause and no deadline; archival is not modelled for it.

### RateLimit and Reputation: correspondence with the code

In `RateLimit`, `stats[p]` and `config` are the entries `RateKey::PayerStats(p)` and
`RateKey::Config`; `Current` is the window a call works on, `Rejected` the `Err`
return (which writes nothing), `CloseLedger` the clock. `admitted` is a history
variable: the times of the calls that got through. The configuration may be
rewritten at any moment. `U64Max` stands for `u64::MAX`; its additions saturate.

In `Reputation`, `admin`, `callers` and `stats` are the three kinds of instance
entries; `reports` is a history variable. `U32Max` stands for `u32::MAX`;
`get_reputation` is a read, an operator with the condition under which it panics.

### EscrowEvents: correspondence with the code

Every entry point of `Escrow` is conjoined with what it publishes, in the order of
its `events::` calls (`approve_logged`, ...); `yield_deposited` comes before
`escrow_created`, and the last recurring release publishes two events. The observer
is external: `view` is the storage it infers, `told` the balances. It hears the events
of a call one after the other (`HearAll`). `approve` publishes no completion, so the
observer infers it from the milestones.

### Custody: the abstraction

`book` has an entry per escrow (its phase, what is locked, the two parties, the
token) and `wallet` what accounts hold outside all escrows. An escrow is opened once,
pays out some of what is locked (a fee to anybody, the rest to the payee), or refunds
all that is left; it is done exactly when nothing is left. In `Escrow` the locked
amount is the contract's whole balance and there is one id; in `Factory` it is the
record's amount while the record is open, with one id per record, although the tokens
are pooled.

### Client and Deploy: correspondence with the code

In `Client` a command is run (`Run`), its arguments are compared with what the entry
point takes (`ArgumentsFit`), its transaction may land, fail or stay pending, and
`invoke_stellar_cli` gives the user the stellar CLI's verdict: success only for a
transaction it saw succeed, an error in any other case and possibly also then. The user
may run the next command while the previous transaction is still pending. The
contract can be called by others at any time (`Elsewhere`).

In `Deploy` a run goes from `deploy` through `read_to_string`, `create` (truncates) and
`write_all` to `output`; every `?` is a step to "failed" and the process can be killed
anywhere. The file is a sequence of lines (the key, others, blank, torn) and whether
it ends in a newline. A stopped write leaves any beginning; a write over a file that
has grown in between leaves its end. `grade` is a history variable that says whether
the file is the whole text of one run that read a whole file.

### AllowList: correspondence with the code

`tokens` is the entry `AllowListKey::Tokens`, `held` the token of the stored escrow,
`answer` what the last call returned. The loop of `remove_from_allowlist` that copies
the tokens to keep is `Only`.

## 3. Runs

| Run | Instance | Checks |
|---|---|---|
| `escrow_plain` | 3 accounts, one or two pending milestones plus three vectors `create` must reject, up to two recurring releases beside the milestones, 50% fee (rounded down to 0 for amount 1), deadlines 0 and 1, 2 ledgers, archival | `TypeOK`, `Custody`, `TerminalFinal`, `Consent`, `KeptAlive` |
| `escrow_open` | 2 accounts, an approved, a submitted and a pending milestone, recurrence, with and without yield, donations, fees of 50% and 200%, an amount whose fee overflows, archival, events | `Solvent`, `RefundCovered`, `RecurringPace`, `Consent`, `EventsTell`, `WalletsTold` |
| `escrow_live` | 2 accounts, two milestones, extendable deadline, with and without yield, archival, pauses | `DeadlineRefund`, `ImplementsCustody` |
| `factory` | 2 accounts, 2 tokens, 3 escrows with amounts 1 and 2 (0 is rejected), donations | `FactoryTypeOK`, `PoolExact`, `IndexesExact`, `SettlementCovered`, `SettledProperly`, `ImplementsCustody` |
| `rate_limit` | 2 payers, limits 0 to 2, windows of 2 and 3 seconds, 7 timestamps of which the last saturates, 6 admitted calls per payer; beside it an allowlist of 3 tokens | `RateTypeOK`, `BurstBound`, `RejectionEarned`, `WindowInv`, `ListedOnce`, `OneAtATime` |
| `reputation` | 2 callers, 2 addresses, 3 reports of each kind, `U32Max` 25 so that both products of the score overflow | `ReputationTypeOK`, `ScoreEarned` |
| `deploy` | 3 runs; no file, an unterminated one, one with the key twice and a blank last line | `LastIdStands`, `OthersKept` |
| `client` | 1 user of the client with 2 commands, 2 accounts calling elsewhere, a submitted milestone | `ToldTrue`, `LandedOnce` |

`rate_limit` explores `RateLimit` and `AllowList` side by side: they share nothing, so
one moves while the other is in its initial state, and no behaviour of either is lost.

Accounts (and tokens, payers, callers, runs) are symmetric; symmetry is used in the
safety runs only. `escrow_plain` and `escrow_open` split the inputs because their
product is out of reach; escrows without recurrence are those of `escrow_live` and
`client`. Two
milestones are enough for one to be paid and one not when the escrow ends; three
accounts let payer, freelancer and collector differ while a role moves; three
factory escrows let two share a token with a third outside; six admitted
calls are one more than the `2 * MaxLimit + 1` that `BurstBound` speaks about; two
commands are one that is given up and its retry; three deployments are one that tears
the file, one that reads it torn and one that writes after both. Deadlock is
checked for all other runs (some call is always possible); the factory may stop,
all its escrows settled and the bound reached, and `deploy` stops when its runs ended.

Bounds: `MaxTime` (ledgers), `MaxEscrows`, `MaxCalls`, `MaxReports`, `Funds`, `Runs`
and the finite sets of inputs.

Some properties hold for some inputs only, and `Escrow` names them: `ClosedInputs`
(no donation, no milestone that arrives approved) for `Custody`,
`TerminalFinal` and `ToldTrue`; `PlainInputs` (moreover no recurrence) for
`ImplementsCustody`. `escrow_open` is about what remains true without them.

Fairness (`FairSpec`): ledgers keep closing and anybody can restore an archived
instance (weak fairness, the network provides both); the payer, whenever `expire`
is possible again and again, gets one call through (strong fairness: pauses and
archival interrupt it). Nothing is assumed of the admin: `DeadlineRefund` is
conditional on the contract being unpaused infinitely often, since the code lets
the admin pause for ever. Deadlines are below `MaxTime`, so the clock passes them.

### Disagreements between code and documentation

Each is a run that expects the violation:

* `doc_submitted_work`: `submit_work` leaves the escrow `Active`, so the payer can
  cancel or expire after work was submitted.
* `doc_recurring_refund`: `cancel` and `expire` add what was released instead of
  subtracting it; after any release the refund exceeds the balance and fails.
* `doc_yield_withdraw`: nothing calls `withdraw`; an escrow ends and its deposit with
  the yield protocol is never asked back.
* `doc_deployed_id`: an error on the `.env` file ends `deploy` before the id of the
  contract, which exists by then, is printed.

Further ones, seen while modelling and not kept as runs:

* With a milestone that arrives approved, a cancelled escrow still holds its amount and
  `approve` turns it into a completed one (docs/PROTOCOL.md:50).
* An escrow can be created before `init` (lib.rs:21), and the fee of a later `init`
  applies to it.
* `release_recurring` does not extend the TTL (storage.rs:8).
* `approve` publishes no `payment_released` when it completes the escrow
  (docs/PROTOCOL.md:179, 254).
* `transfer_freelancer` works in any status (docs/FAQ.md:31 says only while active);
  `pause` and `unpause` never return the documented `Err(Paused)`.
* Removing the last token of an allowlist admits every token (docs/SECURITY.md:62).
* The client's `create`, `submit-work` and `approve` (README.md:286-291) never pass the
  arguments the contract takes; the stellar CLI turns every such call away.
* `list` reports a failed query as no escrows (main.rs:617), and `status` ignores the
  exit status of the query (main.rs:655).

## 4. Proofs

Every invariant and action property that a run checks is also a theorem, for every
value of the constants that satisfies the named assumptions in `Escrow`, `Factory`,
`RateLimit`, `AllowList`, `Reputation`, `Client` and `Deploy` (addresses distinct,
amounts and rates in their types, finitely many callers); TLC evaluates the assumptions
in every run.

* **Sums and lists.** What `SumTo` and `Only` compute is proved by induction over the
  naturals in set form, derived from the well-foundedness of `<`. For `SumTo`: recursion
  equations, type, monotonicity, effect of changing one term, member at most the sum.
  For `Only`: recursion equations, what changing or appending values outside the set
  does (nothing), which values are kept, that none is repeated and that a list is
  shortened exactly when it has anything to drop.
* **Escrow.** `TypeCorrect`; then `AlwaysSolvent`: `Solvent` is inductive
  relative to `TypeOK`, because `approve` and `release_recurring` lower the balance
  and `Unspent` by the same amount, and after the last recurring release only
  `approve` is left. That needs `PayOutFacts` (fee and net add up to
  the amount, whatever the rate) and `SetMilestoneFacts` (marking one milestone
  adds its amount to `Released`). `RefundAlwaysCovered` follows, as long as no
  recurring release was made. `PaceKept`: `RecurringPace` is inductive relative to
  `TypeOK`, since `last_release_time` starts at the time of creation and every release
  moves it on by an interval or more. `AlwaysConsent` and `AlwaysKeptAlive` hold step by
  step from `TypeOK`.
* **Closed inputs.** `Custody` is inductive relative to `TypeOK`, under `ClosedInputs`:
  every payment lowers both of its sides, and a refund that `cancel` or `expire` can
  pay is all that is left. `CustodyExact` follows, and `StatusFinal` from it: a
  cancelled or expired escrow has no tokens, so
  `approve`'s transfer of a positive amount fails.
* **Factory.** `FactoryTypeCorrect`, `PoolAlwaysExact` (inductive: settling removes
  one term of the sum and the same amount from the pool of its token) and
  `SettlementAlwaysCovered` (one term is at most the sum). `IndexesAlwaysExact`: an
  appended id is larger than all listed ones. `AlwaysSettledProperly`: only `approve` and
  `cancel` lower a pool.
* **Refinement.** `FactoryImplementsCustody`: `create_escrow` is `Open`, `approve` is a
  `Release` of everything without a fee, `cancel` a `Refund`, a donation `Give`, and
  `submit_work` a stutter. The invariant is `FactoryTypeOK` with
  `next_id <= MaxEscrows`, so that every record has an id in the book.
  `EscrowImplementsCustody`, for `PlainInputs`: every approval is a `Release`, `cancel`
  and `expire` are a `Refund`, transfers of a role and `extend_deadline` a `Reassign`,
  `create` an `Open`. The invariant adds to `Custody` that no recurring release is ever
  made and that an escrow completes only when all milestones are approved (`Plainly`).
  Amounts being positive, all are approved exactly when nothing is left
  (`ReleasedAll`), so the status changes in the step that empties the contract.
* **Events.** `AlwaysEventsTell`: no event carries the whole state, so the invariant is
  that `view` is what the stored escrow looks like to an observer, part by part (`Story`).
  It is preserved because a call publishes at most two events, whose replay is written
  out once (`HearAll` of none, one and two events), and because `approve`'s missing
  completion event follows from the milestones: `AllApproved` of the view is
  `AllApproved` of the storage. `AlwaysWalletsTold`: `told` moves with `bal`, since the
  published amount is what the transfers beside it leave with the freelancer
  (`PaymentSplit`); only a fee collector gets more than it was told. Neither assumes
  anything about the inputs.
* **Client.** `AlwaysLandedOnce` for any inputs: `LandedOnce` alone does not say why a
  second transaction cannot land. The invariant adds that whatever was reported as
  successful has landed and that a landed `init` has left its user as the admin, a landed
  `cancel` or `expire` an escrow that is not active any more (`LandedDone`); both stand,
  as nothing replaces a configuration or makes an escrow active again. `AlwaysToldTrue`,
  for `ClosedInputs`, adds the status a landed command left (`LandedStands`): under
  `Custody` an ended escrow has no tokens, so its status never changes and the contract
  stays empty. Every client
  behaviour is a behaviour of `Escrow` (`ClientRunsEscrow`), which carries the theorems
  over.
* **Reputation.** `ReputationTypeCorrect`, together with the types of the history.
  `ScoreAlwaysEarned`: every counter is the sum of all callers' reports about its
  address (`CountsExact`), and a report changes one term of that sum. The set of callers
  is finite; the sum runs over it in a fixed order, in which each caller occurs once.
* **Deployments.** `LastIdAlwaysStands` and `OthersAlwaysKept` come from one inductive
  invariant: between truncation and write the file counts as torn, and a run that is
  alone there still finds it empty (`TruncatedAlone`), so that its write leaves its own
  text and no end of an older one; a run about to write has a text with its own id
  only, and with the first file's other lines if it read them (`ContentReady`); the file
  is the first one or has such a text (`FileKept`, `LastWritten`). `UpsertFacts` is what
  `upsert_env_var` does to any text: the text grows only when it did not have the key,
  which is why the bound of two lines does not depend on the number of deployments.
* **Allowlist.** `AlwaysListedOnce` and `AlwaysOneAtATime`: the list is free of
  repetitions, hence of its length many members, and a removal takes out one token.
* **Rate limit.** `BurstsBounded`: the bound alone is not inductive, since it does not
  say where the current window lies. `WindowInv` adds it: the last `count` admitted
  calls are in the window, the others no later than its start, and all but
  `MaxLimit` of those a whole window before it. A reset re-establishes the last part
  from the one before; a call inside the window uses it. `RejectionsEarned` follows
  from the same invariant; `RateTypeCorrect` and `WindowsKept` state its parts.

Only model-checked: `DeadlineRefund`, since liveness under fairness is out of the
prover's reach, and the four disagreements with the documentation, which are
counterexamples. `ImplementsCustody` of the escrow contract, `Custody`,
`TerminalFinal` and `ToldTrue` are theorems for the inputs named in section 3 only, as
they are false without them.

## 5. Not modelled

* Texts (descriptions, milestone names), the wording of messages, and which error code
  a rejected call returns: none of them changes state.
* `yield_recipient` and `withdraw_funds` (unreachable), and the rate limiter's amount
  bounds, which nothing reads.
* Archival for the factory and the reputation contract; a contract address as payer, freelancer, admin
  or collector; the network's own limits on storage size and transaction resources.
* In the client: the functions nothing calls (setup wizard, fee estimate, export, WASM
  hash), the output of `status` and `list`, and argument parsing.
* The contract deployed by `deploy` is not the one `Client` calls: the id reaches the
  client through the user's environment.

## 6. Plan

1. *Done*: all components but the parts listed above are modelled and run; `Custody` and
   its two refinements; the theorems of section 4.
2. Prove the safety core of `DeadlineRefund`: which steps can take away the payer's
   right to `expire` once the deadline has passed.
