# A TLA+ verification of the EVM contract

The contract runs an EVM inside an Antelope chain. It keeps the EVM's state in
its tables, holds the native tokens that back the EVM's balances, and bridges
value and messages between the two sides. This directory models the parts of it
where money, state and consensus rules can go wrong, checks them with TLC on small
instances, and proves the main properties with TLAPS for every instance.

## The system

| Part | Code | State | Operations |
|---|---|---|---|
| Balance arithmetic | `tables.hpp` `balance_with_dust` | amount (token units), dust (10^-18) | `+=`, `-=`, `is_zero` |
| Bridge ledger | `actions.cpp` | `balances`, `nextnonces`, `inevm`, `egresslist`, `msgreceiver`, frozen flag | `init freeze addegress removeegress open close bridgereg bridgeunreg withdraw transfer call admincall pushtx` |
| Configuration | `config_wrapper.cpp`, `actions.cpp` | `config` singleton, `pricequeue`, `pricesqueue` | `init setfeeparams setversion setgasparam updtgasparam setgasprices`, and the reads of every transaction |
| Value promoter | `value_promoter.hpp` | cached and pending value | `get_value`, `get_value_and_maybe_promote`, `update` |
| Block mapping | silkworm's `block_mapping.hpp`, with a copy in the tests | none | time to EVM block |
| EVM state | `state.cpp` | `account`, `accountcode`, `storage`, `gcstore`, `config2` | `update_account`, `update_account_code`, `update_storage`, `gc`, the destructor |
| Repair actions | `admin_actions.cpp` | the tables above | `rmgcstore setkvstore rmaccount addevmbal addopenbal freezeaccnt` |
| Bridge messages | `bridge.hpp`, `actions.cpp` | none | ABI decoding |
| Read-only calls | `actions.cpp` | none | `exec`, `assertnonce` |
| Formats | `transaction.hpp`, `utils.cpp` | none | RLP decoding, keys, conversions |
| External | silkworm, evmone, the token contract, the chain | EVM balances, token balances, inline actions | |

What makes it hard:

* **Inline actions.** A handler changes tables and sends actions that run later.
  Token transfers notify other contracts, and bridge messages call them; they may
  call back while transfers of the same transaction are still pending. Before EVM
  version 1 the bridge transaction itself is such an inline action.
* **Two units.** Tables hold token units plus dust; the EVM counts in 10^-18.
* **Lazy changes.** Versions, gas parameters and prices are set at one time and
  come into force at a later EVM block, on the first read that notices.
* **One cached front.** `queue_front_block` guards two queues.
* **Deferred removal.** The storage of a removed account stays until `gc`, which
  may stop anywhere, has erased it. Account ids name storage scopes, and code is
  shared by reference counts.
* **Repairs.** The administrator changes one side of the books at a time.

## Modules

| Module | Models |
|---|---|
| `BalanceWithDust` | the two assignments, with the word widths kept (`Word`, `TopBit`) |
| `BalanceCell` | one balance under any sequence of assignments, beside an integer |
| `WeiSums` | totals of holdings, as cardinalities, so that they can be reasoned about |
| `Ledger` | the bridge ledger |
| `BlockMapping`, `ValuePromoter` | pure functions of the two headers |
| `NextBlockValue` | abstract: a value that changes at block boundaries only |
| `ConfigWrapper` | configuration, versions, price queues, the rules `exec` runs by |
| `LedgerRepairs` | `Ledger` with the repair actions that concern money |
| `EvmState` | abstract: accounts by address, each with data, code and storage |
| `StateStore` | the tables of `state.cpp`, `gc`, the repair actions on them |
| `BridgeMessage` | the decoder of bridge messages, beside one that follows the ABI |
| `MC*` | instances for TLC, and the statements of the docs and tests the code does not keep |
| `*Proofs`, `LedgerLemmas` | theorems and lemmas |

A definition marked `mutant` in a comment is a plausible wrong version of the
definition that follows it. No specification uses it; substituting it shows that
a property would notice.

### Ledger

One step is one Antelope action run to its end. `stack` holds the inline actions
still to run, the next one last: a token `transfer`, a `pushtx` to the contract
itself, or `foreign` code, which may call any action (`Calling`). A failed
`check` aborts the transaction; it is a conjunct, and the aborted transaction is
a behaviour that stops in the middle, which is why deadlock is not checked here.
The states inside a transaction are states other contracts see, so the
invariants are required of them too.

What an EVM execution does is external: `process_tx` allows every redistribution
that creates no funds. What follows it in the code is modelled in full: egress
to open and non-open accounts, the miner's portion, messages and their fees,
`inevm`. Abstractions and assumptions:

* the miner's portion and the values of the messages are at the contract's
  reserved address after execution. This is assumed of silkworm, whose source is
  not in the repository; `execute_tx` relies on it where it checks
  `deducted_miner_cut`, `process_tx` where it filters messages to that
  address;
* messages to one receiver are taken together;
* the contract's account makes no token transfers of its own and holds no tokens
  before `init`; all other holders are one number, `Supply - held`;
* `withdraw` with a quantity that is not positive, or to the contract itself, is
  refused by the token contract, in the same transaction;
* fees, gas costs and minimal fees are inputs; `evm_version >= 1` is the flag
  `bridging`, set between transactions; `init` comes before any version change;
* EVM nonces of ordinary addresses are the EVM's and are not modelled.

### ConfigWrapper

One step is one action: constructor, handler, flush. Time is `now`, in ticks. The
five gas parameters are one value of `Params`, since both actions that set them
set all of them. The ingress fee, the token contract and the status flags are
left out (the first and the last are in `Ledger`). At version 3 the base fee is
read from an empty optional; `BaseFees` lets any price come out. Before version 1
the transaction of a `call` is taken to run at once, which it does up to foreign
code in between. `last` and `view` are history: what the latest transaction ran
with, and what the `configchange` events have told so far. `exec` is an operator,
since it changes nothing: the version, parameters and base fee it would run with
in the present state. It processes no queue and promotes nothing. After a
transaction of its block it agrees with that transaction (but from version 3 on,
where its base fee is the former gas price and a transaction has none). Before the
first one its base fee is the superseded price as long as a row that is due is
still queued, and the first transaction of the block then runs at another. This is
what the code does, and nothing says it should not; `ExecAgrees` says that this is
all: within a block exec's version and parameters never change, and its base fee
changes only where due rows are taken, before any transaction of the block has run.

`MinerCutRetired` is about the stored field after the version is promoted. Between
activation and promotion the field still has its value, and both readers
(`execute_tx`, `update_consensus_parameters`) test `get_evm_version()` themselves.

### LedgerRepairs

All of `Ledger`, and between any two of its steps `addevmbal`, `addopenbal` and
`rmaccount`. These move no tokens. `drift` is history: what they added, less what
they took away. As in `Ledger`, an EVM address has a balance and not a row, so the
model also allows a repair of an address whose row is gone, which the code refuses:
more behaviours than the code has, never fewer. `rmaccount` empties the balance.

### StateStore

A transaction is a sequence of calls on one `state` object: `Execute`, when the
EVM has read what it reads, then writes, then the destructor (`EndTx`). The order
in which silkworm's `write_to_db` makes the calls is not in the repository, so any
order is allowed, with these assumptions about silkworm (`stage`): only accounts
that were read are written; `update_account` is called at most once for an
address, and `update_account_code` at most once, for an account the transaction
created; nothing is written to an account it removed. All reads precede all writes
in one object, so its caches `addr2id` and `addr2code` never answer differently
from the tables and are left out. `gc` is one step for every row it erases, which is
finer than the action it is, so the invariants hold wherever it stops. Nonce and
balance are one value; the order of the slots of a scope is arbitrary; code is its
hash; the reference count is unbounded, 2^32 accounts with the same code being out
of reach. The ids the model may hand out are bounded by `Ids`.

`EvmState` is what the tables stand for. `read_account` and `read_storage`, as the
EVM sees them, are the refinement mapping.

`Spec` has the repairs that keep to what is there: of accounts, and of queued rows
whose scope is empty (`DropEmptyRow`). `RepairSpec` adds any `rmgcstore`, and
`setkvstore` on a scope without an account. After those, storage may be forgotten
or an account may be born with slots in its scope, so `ScopesAccounted`,
`NewAccountsStartEmpty`, `StateRefinement` and `GarbageCollected` are claimed of
`Spec` only. The others are proved of both.

### BridgeMessage

A pure algorithm, as one step from an arbitrary call. A message is a sequence of
words; the characters of a name are not modelled, only that it has at most 13 of
them. `resize` to more than the contract's memory ends the action (`MaxMemory`),
which is why the wrap of `len + 31` in 32 bits is harmless.

## What is checked

| Run | States | Shows |
|---|---|---|
| `balance_cell` | 160 | `TypeOK`, `ValueExact`, `ChecksExact` |
| `ledger` | 86005 | `TypeOK`, `Conservation`, `Solvency`, `TransfersCovered`, `RowsConsistent`, `NonceFresh`, `FrozenStandsStill` |
| `config_versions` | 240186 | `TypeOK`, `ParamsNeedVersion`, `MinerCutRetired`, `VersionMonotone`, `OneRuleSetPerBlock`, both refinements of `NextBlockValue` |
| `config_prices` | 254142 | `EnqueueNeverFails`, `FrontCoversQueue`, `DuePricesApplied` on both queues, `OneRuleSetPerBlock`, `GraceRespected` with two values in the first, `ExecAgrees` |
| `config_gas_prices` | 163089 | `GraceRespected` with two values in the second queue, `PricesInOrder` on both |
| `ledger_repairs` | 122669 | `BackingExact`, `Solvency`, `CoveredUnlessAdded`, `RowsConsistent` with repairs and third-party miners |
| `state_store` | 121336 | `TypeOK`, `OneRowPerAddress`, `RefCountsExact`, `GarbageIsDead`, `ScopesAccounted`, `NewAccountsStartEmpty`, `FrozenUntouched`; `StateRefinement`: the tables implement `EvmState`; `GarbageCollected` |
| `bridge_message` | 17228 | `ReceivedIsAbi`, `EncodedIsDecoded` |

Without repairs `BackingExact` is `Conservation` and `CoveredUnlessAdded` is
`TransfersCovered`, so `ledger_repairs` asks the questions of `ledger` again, with
one more account.

Bounds. `balance_cell` has 6-bit words and operands larger than a word, so every
carry, borrow and wrap occurs. The ledger runs have two units of 10^-18 to the
token, so dust occurs; a supply of 2 tokens; `MaxDepth` 2 or 3 pending inline
actions, enough for a call out of a transfer that has a `pushtx` below it; and
`MaxNonce` 2 in `ledger`, enough to close and reopen an account that has used a
nonce and to use another (`ledger_repairs`, which does not ask about nonces, has 1).
Repairs are of less than a token, one ahead of the tokens or one behind. The
configuration runs cover four or five EVM blocks (`MaxTime`), enough to set,
supersede, promote and set again; where prices matter the grace period is one
block, so that a row is queued while an earlier one is pending and two fall due
together. The two price runs have one tick to an EVM block: a price set again later
within the same block is left to the proof of `GraceRespected`. `state_store` has
two addresses, one code and three ids: two accounts that share code, one of them
removed and made again while its old scope is still queued. Its budget of 1 is
such that no call of `gc` empties a scope and takes its row. Three ids cannot give
garbage without end; that new garbage never delays old is `QueueIsFifo`, which is
proved. `bridge_message` has
words of 4 bytes and lengths of 4 bits, so that a name of two words, empty data and
a length that wraps occur.

Fairness. Every operation of the contract is started by a user or the
administrator, and the code schedules nothing, so no fairness of the code's own is
justified. The one liveness property is conditional on what the operator does:
`FairSpec` says that `gc` is called again and again with a budget that is not zero
(strong fairness, as transactions come in between) and that a transaction or `gc`
once started comes to its end, which is what an action is. `GarbageCollected` is
what the comment "true if all garbage has been collected" lets a caller in a loop
expect.

### Where the code and what is said of it differ

* `init_comes_first`: `setversion` before `init` stores the configuration, after
  which `init` is refused; the guide says no action but `init` is allowed.
* `params_announced`: setting gas parameters twice, in different blocks with no
  transaction in between, loses the first `configchange` event, as
  `update` drops the promoted flag; a test comment has the event precede the
  transaction.
* `queue_empty_at_switch`: the queue is checked when version 3 is set, not when it
  comes into force; a price queued in between stays behind.
* `ids_after_upgrade`: a contract upgraded from a release without `config2` takes
  the first new id from the accounts that are left. If the account with the highest
  id is removed before, be it in the same transaction, its id is handed out again
  with its storage, which a test of new accounts says is empty. The test of the
  upgrade itself happens to create another account first. What holds as long as that
  account stays is `UpgradeSafe` (below). A contract that started with `config2` is
  not concerned: there `NewAccountsStartEmpty` holds, and is proved.

## What is proved

For every value of the constants that the named assumptions allow.

* **Balances** (`BalanceWithDustProofs`, `BalanceCellProofs`): `AccumulateExact`
  and `DeductExact`, from `2 * MaxAmount + 1 < TopBit` and `MinAsset <= TopBit`,
  the inequalities the comment in `operator+=` argues from; from both, `CellCorrect`
  with its parts `CellTypes` and `CellChecks`.
* **Ledger** (`LedgerLemmas`, `LedgerProofs`): all seven properties of the run
  `ledger`. The inductive invariant `IInv(0)` is `Sound` (`TypeOK`,
  `RowsConsistent`, `Solvency`, `NoncesTaken`, `NothingBeforeInit`) and `Backed(0)`,
  which is `Conservation`. `Conservation` alone is not inductive: a close or an
  egress preserves it only if accounts that are not open hold nothing.
  `NoncesTaken` says that nonces used or pending are distinct and below
  `next_nonce`, which `NonceFresh` needs because pending transactions run out of
  order. `TransfersCovered` follows from `Conservation`.
* **Repairs** (`LedgerProofs`, second part): all properties of `ledger_repairs`, and
  `NonceFresh`. The operations of `Ledger` preserve `IInv(d)` for every difference
  `d`, so the lemmas about them serve here with `drift` for `d`; what is left are the
  three repairs. These do not look at the frozen flag, so `FrozenStandsStill` is
  false here; `FrozenButForRepairs` is what is left of it: no tokens move, no bridge
  transaction runs, and only a repair changes a balance.
* **Tables** (`StateStoreProofs`): the properties of `state_store` but for the
  refinement and `GarbageCollected`. `StoreConsistent` and `FrozenSafe` are about
  `RepairSpec`. The invariant `Core` is `TypeOK`, `OneRowPerAddress` and
  `RefCountsExact`, that ids in use or queued are below the next id (`Floor`), that
  tables are finite, and what each
  `stage` says of the row of its address; without the last, `update_account_code`
  could overwrite a reference it should release. `Floor` is the id the next account
  gets, wherever that comes from: the object, the stored `config2`, or, without
  `config2`, `available_primary_key` of the accounts. Only the third can fall, and it
  does not as long as the account with the highest id stays (`TopKept`). A contract
  that started with `config2` never meets it with an account present (`Started`).
  `GarbageIsDead` is preserved given `Core` (`DeadStep`) and is not part of it, since
  an upgraded contract may have `Core` only.
* **Ids and queue** (`StateStoreProofs`), of `RepairSpec`: `IdsOnlyGrow`, no id is
  handed out twice, which is why scopes are never shared; and `QueueIsFifo`, new
  garbage waits behind old, though keys of the queue are reused, a row never comes to
  name another scope, and `gc` takes the first. This is the part of
  `GarbageCollected` that is safety.
* **Upgrade** (`StateStoreProofs`, `StateRefinementProofs`): the other side of
  `ids_after_upgrade`. A release without `config2` reuses ids all along, so its
  tables may hold an account whose scope is still queued for its predecessor (the
  test `transition_from_0_5_1` upgrades in such a state); `GarbageIsDead` cannot be
  assumed of them. `UpgradedSpec` assumes:
  1. `TypeOK`, `OneRowPerAddress`, `RefCountsExact`, `ScopesAccounted`, and finite
     tables, but no `config2`;
  2. no queued id is above all accounts, as the first new account would get it;
  3. the account with the highest id is not removed or replaced until a new account
     is made (`TopKept`).

  Then the properties of 1 stay true, new accounts start empty and not queued, and the
  accounts whose scope is queued only become fewer (`UpgradeSafe`). What the earlier
  release has left is not repaired: `gc` still erases slots of such an account. If
  there is none at the upgrade, for instance because `gc` has emptied the queue first,
  there never is one, frozen accounts are left alone (`UpgradeClean`) and every step is
  one of `EvmState` (`UpgradedTablesImplementState`).
* **Refinement** (`StateRefinementProofs`): `TablesImplementState`, call by call,
  from `Core`, `GarbageIsDead` and from new scopes being empty.
* **Messages** (`BridgeMessageProofs`): both properties of `bridge_message`, for words
  and memory of any size. `MessageAssumption` says that a name fits one word and the
  memory (13 characters against 32 bytes) and that the memory is smaller than what a
  length can express by more than a word; `CallsAssumption` that calls are words, and
  that one said to encode a message begins with its encoding. The decoder takes the
  offsets of the two texts for granted. `ReceiverGetsTheMessage` shows that its checks
  on the offset and on the length of the name leave no other place for the data; the
  rounding `len + 31` is exact because a length that wraps is more than the memory
  holds.
* **Configuration** (`ConfigWrapperProofs`): all properties of the three passing
  runs, both refinements and `ExecAgrees` included. `ConfigInv` is `TypeOK`, `Fresh`
  (nothing is set while the singleton is not stored), `PendingOK` (pending values
  were set by now, a pending version is an increase, pending parameters need a
  version), `QueuesOK` (a row's block is the activation block of the time it was
  set, the front block covers the queue in use) and `LastOK` (the latest
  transaction against the values now in force).

Only model-checked: `GarbageCollected`, as liveness under fairness is out of the
prover's reach, and the four differences above, which are counterexamples. Every
other property of a passing run is also a theorem. Only proved: what `RepairSpec`
adds to `Spec`, `IdsOnlyGrow`, `QueueIsFifo`, `FrozenButForRepairs`, and the three
theorems about upgrades.

## Not modelled

* RLP decoding, keys and conversions (`transaction.hpp`, `utils.cpp`): pure
  functions, the first of them silkworm's, whose results are inputs here.
* What an EVM execution computes, and the order in which silkworm writes its
  changes: not in the repository. A slot that were written before the
  `update_account` that replaces its account would go with the old scope; the
  models allow that order and say nothing against it.
* `assertnonce`, and the effects of `exec`: they change no table.
* The value `*base_fee_per_gas` has at version 3, where it is read from an empty
  optional: the model allows any, and nothing says what it should be.
* The price a pending `pushtx` carries against the price when it runs: before
  version 1, where it is pending at all, a change of price can only make it fail.
* The products `updtgasparam` computes in double precision and in 64 bits:
  `ConfigWrapper` takes its five gas parameters as one value.
* The ingress fee's and the token contract's settings: `Ledger` takes fees as inputs.
* `test_actions.cpp` is not part of the deployed contract.
