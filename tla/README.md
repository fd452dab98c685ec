# A verification project for the Bitcoin wallet snap

TLA+ specifications of `packages/bitcoin-wallet-snap`, their TLC runs and their
TLAPS proofs. Paths below are relative to `packages/bitcoin-wallet-snap/src`.

Contents: 1 the system, 2 the modules, 3 the runs, 4 the proofs, 5 what the runs
found, 6 what is not modelled, 7 the plan.

## 1. The system

The snap is a MetaMask plug-in that keeps Bitcoin accounts. It is one JavaScript
thread. The host calls its entry points (`index.ts`): keyring requests, client
RPC, user input, cron jobs, asset lookups. Any number of calls may be in
progress, and each runs alone from one `await` to the next. What outlives a
restart is the state the host keeps for it (`snap_getState`, `snap_setState`);
interfaces and background events also live at the host.

### Components

**Account registry** (`use-cases/AccountUseCases.ts`, `store/BdkAccountRepository.ts`).
State: the persisted maps `accounts` (id to derivation path, network, wallet) and
`derivationPaths` (path to id); in memory, the tail promise `#accountMutationQueue`.
Operations: `create`, `createMany`, `delete` (in the queue), `update` (not in it),
`list`, `get`. Hard: writes land later than they are issued and one by one; a
restart drops the queue and not the writes; `update` and the choice of the lowest
unused index run beside the queue; test networks share derivation paths. Right
when: one mutation at a time, one account per path and network, the two maps
agree, the client knows only accounts that exist, every call ends.

**Batch concurrency limit** (`runWithConcurrencyLimit`, `AccountUseCases.ts` 75-126).
State of one pool: cursor, results, first error. Workers share the cursor across
awaits. Right when: each item is mapped once, a resolved pool has no hole, an
error stops new work, is the first one, and is thrown only when nothing is in
flight.

**Keyring handler** (`handlers/KeyringHandler.ts`). It routes the client's keyring
calls. Two of them have logic of their own: `createAccounts` splits a range of
indices into chunks, and `listAccountTransactions` pages through a list that
changes between the pages. Right when: a range is covered exactly, a client that
reads to the end misses nothing and is told nothing twice.

**Synchronisation and cron** (`AccountUseCases.ts` 406-508 and `#broadcast`,
`handlers/CronHandler.ts`). State: each persisted wallet, and each job's own copy.
`synchronize` and `fullScan` query the chain, `update` the account, and the job tells
the client. Cron runs the selected accounts in a `Promise.allSettled`. Hard:
overlapping jobs on one account, a restart between persisting and telling, one
account failing among many, reorganisations, events dropped while the client is
locked. Right when: nothing is told before it is persisted, no reorganisation is
made up, a failure stays with its account, wallets follow the chain.

**Sending and PSBT** (`AccountUseCases.ts` 526-868, `handlers/KeyringRequestHandler.ts`).
`fillPsbt`, `signPsbt`, `computeFee`, `broadcastPsbt`, `sendTransfer`, `signMessage`.
Hard: requests overlap, the user takes his time, the account goes away or its
coins are spent meanwhile, a transaction is on the network before it is recorded.
Right when: what is signed is what the user saw, what is answered as sent is sent
and recorded, an error the client may rectify leaves nothing behind.

**Send flow** (`use-cases/SendFlowUseCases.ts`, `store/JSXSendFlowRepository.tsx`,
`handlers/UserInputHandler.ts`). State: the context kept with the interface; a
background event every 20 seconds that refreshes the rates and schedules its
successor. Every handler writes back the whole context it was given. Hard: stale
contexts, a loop whose event id can be forgotten, an interface that goes away.
Right when: what is signed was reviewed, fees belong to the form they are shown
with, the loop neither dies nor forks, and ends with the interface.

**Confirmations** (`use-cases/ConfirmationUseCases.ts`,
`store/JSXConfirmationRepository.tsx`): show an interface, wait, go on or reject.
Buttons are handled by a call of their own. Right when: nothing is signed without
the user's press on a dialog that shows it.

**Rates and cache** (`use-cases/AssetsUseCases.ts`, `store/InMemoryCache.ts`,
`handlers/AssetsHandler.ts`): tickers looked up and fetched in parallel, entries with
an expiry. Right when: each asset gets its own rate, one failure costs no other
asset, a history is in the asset's currency, and the age of a price the client uses is
bounded.

**RPC, validation, errors** (`handlers/RpcHandler.ts`, `handlers/validation.ts`,
`handlers/HandlerMiddleware.ts`): the client's own methods, the checks of their
parameters, and the error class each failure is answered with.

The other components (BDK adapters, chain and price clients, the snap client,
mappings, views, the sample snap) are listed in `PROJECT.json`.

### How they interact

Handlers call use cases, use cases call a repository and the clients, and all of
these end in awaited host calls. The registry and the synchronisation share the
persisted accounts. The send flow reads an account, builds a PSBT, and hands it
through the resolved interface to `signPsbt`, which broadcasts and updates the
wallet. Cron and the background events call back into the use cases.

## 2. The modules

| Module | Models | Uses |
|---|---|---|
| `AccountStore` | the registry: create, createMany, delete, update, the queue, the host's state | |
| `AccountRequirements` | its properties | `AccountStore`, `Registry` (INSTANCE) |
| `Registry` | the abstract specification: an atomic registry | |
| `WorkerPool` | the concurrency limit and its properties | |
| `Keyring` | the chunks of createAccounts, the pages of listAccountTransactions | |
| `WalletSync` | the chain, the persisted wallets, cron and single jobs, broadcasts, what is told | |
| `PsbtBuilder` | what the transaction builder promises, `#fillPsbt`, signing | |
| `Requests` | requests to use an account, their dialogs, errors and answers | `PsbtBuilder` |
| `RatesCache` | rates, history, the cache and its expiry | |
| `SendFlow` | the send flow and its properties | |
| `AccountProofs`, `RegistryProofs`, `PoolProofs`, `KeyringProofs`, `WalletSyncProofs`, `RequestsProofs`, `RatesProofs`, `SendFlowProofs` | theorems about the above | their component |
| `MCAccounts`, `MCKeyring`, `MCSync`, `MCRequests`, `MCRates`, `MCSendFlow` | small instances for TLC | their component |

An action is the code from one `await` to the next. A definition whose comment
begins with "Mutant" is a changed form of the one below it. It is used by no
specification, and is there to show that a property notices the change.

### AccountStore

`accounts` and `index` are the two persisted maps, `inflight` the writes the host was handed
and has not performed, `announced` and `scans` what the client and the scheduler were told.
`issued`, `settled` and `ticket` are the promises of `#runAccountMutation`: a call replaces
the tail by its own promise and awaits the one before. `pc` is where a call is suspended. A
call of `createMany` with several new accounts goes `scan` (`getByDerivationPaths`),
`repairing` if the index was incomplete, `batch`, `reading`, `storingAccounts`, `storing`
(`insertMany`). The host may perform `inflight` in any order, lose a write (`Lose`), reject
any other call (`Throw`) and restart the snap (`Crash`). A wallet is the set of updates
merged into it; an update that has inscriptions to store writes them after the wallet, by a
nested write of its own (`merging`, then `marking`). An id is drawn from those not drawn
before, as a uuid. `LandWallet` leaves open what the host does with a nested write into a
removed record, since the source does not say.

`Registry` has three steps: add accounts (none for a path and network that has
one), condemn an id, remove a condemned one. `AccountRegistry` maps `AccountStore`
to it: an entry for each whole persisted record, condemned once its deletion has
begun.

### WorkerPool

`next`, `results`, `firstError` are the closure's variables, `held` the item each
worker awaits. Every worker runs to its first await before the pool returns, so
the initial state has the first items taken.

### Keyring

`batch` is a call of `createAccounts` with its cursor `chunkFrom`, the chunk it awaits and
the accounts it has. `MaxIndex` is the largest safe integer, and `Plus` the addition of
JavaScript numbers, rounded beyond it. What `createMany` does to the store is
AccountStore's. `reader` is a client that reads page by page, `wallet` the transactions in
the list. `told` and `again` record what it was told and what it was told twice, `always`
what was in the list from its first page on, `lost` that a cursor was no longer found: the
code then begins from the start. The order of the list is the library's, taken to be the
same on every page. A page size is at least 1; with 0 the code answers one empty last page.

### WalletSync

A wallet is the status of each transaction. A job is a handler in progress: it loads the
wallets (`before`), learns from the chain (`after`), and each account goes `query`, `read`,
`write`, `mark`, `ok` or `failed` on its own (`Promise.allSettled`). `Read` and `Write` are the
first two awaits of `update`, `Mark` the third, the write of the inscriptions; when it fails
the wallet is persisted but its news are not told. `Staged` is the change set the library
stages, `Merges` its merge. Then the job tells the client, account by account. A wallet
finds what is on revealed addresses; a full scan also finds `Deep` ones. The chain confirms
and reorganises. `Skip` is an event dropped because the client is locked. Balances follow
from the transactions. Deletion is left to AccountStore.

### Requests and PsbtBuilder

A request goes through the steps its method takes (`First`, `After`): `get` and
`build` load the account, `show` and `wait` are the dialog, `load` reads the account
again, `sign`, `broadcast`, `record` and `write` (the two awaits of `update`), `tell`.
`iface` is its dialog with what it shows and which buttons were pressed, `presses`
the presses that wait for `ConfirmationUseCases.onChange`. The dialog of a PSBT or a
message shows it; that of a transfer shows its account, recipient, amount and fee
(`TransferView`). `spent` is the chain's truth, `known` the coins that the persisted
wallets say are spent. `SyncRead` and `SyncWrite` are the awaits of the update of a
synchronisation, which like `Record` and `Write` store whole what they read and merged;
`overwritten` remembers the coins an update dropped since, having read before they were
written. `HostError` is the table of
`HandlerMiddleware`. `reply` is the answer the last step gave.

`Built` is the set of transactions the library may come up with: any selection of coins that
suffices, recipients in order, the change appended unless it is dust. A transfer leaves the
order to the library, so its change may come first. `Drained` sends the whole wallet, less
the fee. Any transaction costs `Fee`. `Filled` is `#fillPsbt` with both attempts. A
transaction is a record of outputs, coins and whether it is final.

### RatesCache

A quote is what it is of, a ticker's rate or the history of a period in a currency, and
the time of its price. `GetPriceIntervals` asks for every period in the currency of one
asset (`VsCurrency`): an asset without a ticker passes none, and the price client then
asks for US dollars. A request for rates looks its tickers up
(`GetRates`) and waits for the missing ones; `Arrive` stores a rate with an expiry of
`Ttl`, `FetchFails` turns it into null, `Reply` answers with an expiry of `Interval` after
the request began. The host's rejection of the tracking call in the catch is left
out.

### SendFlow

`view` and `context` are the interface at the host, `scheduled` its background events,
`task` the handlers in progress with their copy of the context, `flow` and `answer` the
request that displayed the interface. A handler begins with the context of the moment
(`Edit`, `Confirm`, `Cancel`, `Send`, `Back`, `Fire`) and writes it back later (`Show`).
`Edits` are the contexts an input may compute, also those it computes when the input is
invalid, the account is gone, or the transaction cannot be built. `wallet` is the persisted
wallet of each account, one of a few states, and `Synchronize` changes it at any time. `SetMax`
stores the balance of the form, read when the account was chosen, as the amount, and
`drain`; the fee then takes the wallet as it is (`QuoteOf`), and the amount becomes the
balance less the fee. A psbt takes an amount, or a wallet whole; `Pays` is what its
recipient gets. `Whole` is what draining takes, pending coins nobody vouches for included,
`Trusted` the balance the form shows. An event's id is reused only when nobody holds it.
`CloseDialog` is the user closing the dialog itself, `Skip` an event dropped because the
client is locked. `Sign` is the rest of `#executeSendFlow`. A psbt of another account than
the flow's is not finalized (`BdkAccountAdapter.sign`).

## 3. The runs

| Run | Shows | Instance |
|---|---|---|
| `accounts_safety` | idempotence, agreement of the two maps, announced accounts are stored, refinement of `Registry` | 4 calls, 1 network: create, batch, delete, update with and without inscriptions |
| `accounts_faults` | two failures anywhere: exclusion, every call ends, the batch lookup finds what is stored, results are of the network asked for | 2 calls, also createAccount without an index, 3 networks, 2 of which share paths |
| `pool` | every pool property | 6 items, 3 workers |
| `keyring` | ranges are covered, pages are complete | 8 indices in chunks of 3, 4 transactions, pages of 1 or 2 |
| `sync` | persisted before told, no false reorganisation, all that is stored is told, updates lose only to a concurrent write | 2 jobs on 1 account, 2 transactions, 1 failure, 1 reorganisation |
| `sync_follow` | a failure stays with its account, wallets follow the chain | 1 job at a time, 2 accounts, 2 failures, 1 reorganisation |
| `requests` | what is signed was confirmed, what is answered as sent is recorded, rectifiable errors are harmless, transactions pay exactly what was asked | 2 requests, the first of 19, 2 coins, 1 failure |
| `rates` | staleness is bounded, rates and histories are right, requests are answered | 2 requests, 4 assets: 2 share a ticker, 1 has none |
| `sendflow` | six properties of the send flow | 2 handlers at a time, 3 inputs, 2 loops, 2 states of the wallet |
| `sendflow_loop` | the loop ends after the interface | 1 handler at a time, 3 inputs, 2 accounts, 2 rates, 2 failures |
| `accounts_resurrection`, `sendflow_approved` | the disagreements of section 5 | small |

**Bounds.** `Calls`, `Jobs`, `Requests`, `Tasks`, `Callers` and `Readers` bound what is in
progress at once, `Ids` the accounts ever made, `MaxFaults` the failures, `MaxReorgs` the
reorganisations, `MaxTime` the clock, `MaxEdits` the user's inputs, `MaxLoops` and `Events`
the refresh loops and their events, `Slots` and `ReqSlots` the account indices, `Asked` the
requests that may come in a slot. Three calls suffice for a mutation to be overtaken by
another while a third holds the queue, four for an account to be made, removed under an
update and asked for again by a batch. Two jobs, two requests or two handlers suffice for
one to act on what the other has changed; two loops for HeaderBack to start one beside a
forgotten event. The first slot of `requests` is asked for everything; the second sends a
transaction without a dialog, which is enough to spend what the first works on and to
overwrite what it recorded. Its dialogs are thus one at a time: two are alike and share
nothing but the user, and the theorems cover them. Three inputs fill a form, by an amount or
Max and a recipient, and change it once more. Six items for three workers let every worker
claim, fail and find the end; eight indices in chunks of three make ranges of one to three
chunks that end on a boundary, before it and at the largest index, above which sums are
rounded. `createNext` is in `accounts_faults` alone: with four calls it is too many states,
and that the accounts it makes are told apart is the theorem `CreationIsIdempotent`.
Deadlock is checked in every run.

**State reduction.** Calls and ids are symmetric in `accounts_safety`, jobs in `sync`,
handlers in `sendflow`. `sendflow` also identifies states that differ in the names of event
ids alone (`UpToIds`): an id is compared with `scheduled` and is cancelled, nothing else.
Those in the reviews of `approved` are not used at all. The runs with liveness use neither.

**Fairness.** Of the snap only that the engine resumes what can resume (weak
fairness of a call's, job's, request's or handler's next step), of the host that it
performs the writes it was handed, answers what it was asked and fires scheduled
events. No client or user is ever obliged to act, with one exception: `Followed`
assumes the periodic cron job to start time and again (strong fairness, since the
slots for jobs are a bound of the model), as the manifest schedules it and a client
that is unlocked now and then lets it. `AllCallsFinish`, `PoolSettles`, `LoopEnds`,
`RequestsAreAnswered` and `Followed` are checked under this fairness. `LoopEnds` says
of the state after the interface is gone; no user event competes for handlers
then. That a keyring request is answered is not claimed: it waits for the user.

**Mutants.** Every property of a passing run is paired in `PROJECT.json` with a
definition and a changed form that violates it: a dropped await, a race in the
place of an all, an entry not removed, a chunk one too long, a cursor advanced wrongly, a
PSBT filled again after it was confirmed, a currency left out, a swallowed failure that
goes on.

## 4. The proofs

All theorems hold for every value of the constants, under the assumptions named in the
modules: bounds and times are naturals, `BatchNetworks` is a subset of `Networks`, each
transaction has one account and each place in a list, a batch is of at least one, the price
client's default currency is a ticker, a wallet is no number, coins are finitely many, the
parameters of a call fit its struct (only a call that signs a message carries one), a loop
may be started at least once, and the null values (`NoId`, `NoPath`, `NoAccount`, `None`,
`Nobody`) are no values.

| Theorem | States | By |
|---|---|---|
| `TypeCorrect` | `[]TypeOK` of `AccountStore` | `TypeInv` |
| `Exclusion` | `[]MutualExclusion` | `QueueInv` |
| `CreateIsRight` | `[]ResultIsRequested` | `OriginInv` |
| `BatchFinds` | `BatchFindsStored`, if `BatchPathsAreOwn` | `OriginInv` |
| `AnnouncedStay` | `[](faults = 0 => AnnouncedAreStored)` | `AccountsInv` |
| `IndexIsRight`, `CreationIsIdempotent` | `[](faults = 0 => IndexAgrees)`, `[](faults = 0 => Idempotent)`, if `PathsAreOwn` | `RegistryInv` |
| `RegistryIsImplemented` | `[](faults = 0) => RegistryImplemented`, if `PathsAreOwn` | `RegistryInv` |
| `EachItemOnce`, `NoHoles`, `NothingInFlight`, `FirstErrorKept`, `ErrorStops` | the pool's safety properties | `PoolInv` |
| `RangesAreCovered` | `[]RangeCovered` | `RangeInv` |
| `PagesRight` | `[]PagesAreRight` | `PagesInv` |
| `SyncTyped`, `ToldWasPersisted`, `NoFalseReorgs`, `UpdatesAreKept` | `[]TypeOK`, `[]PersistedFirst`, `[]ReorgsAreReal`, `UpdatesKeep` of `WalletSync` | `SyncInv` |
| `StoredIsAnnounced`, `OneFailureIsOne` | `[]StoredIsTold`, `FailuresAreIsolated` | `TellInv` |
| `RectifiableAreHarmless`, `SentAreRecorded` | `[]RectifiableIsHarmless`, `[]SentIsRecorded` | `RequestsInv` |
| `SignedWasConfirmed` | `[]SignedIsConfirmed` | `RequestsInv`, `SubjectsInv` |
| `RequestsTyped`, `BuiltRight` | `[]TypeOK`, `[]BuiltAsAsked` of `Requests` | `SubjectsInv` |
| `RatesTyped`, `StalenessIsBounded`, `RatesRight` | `[]TypeOK`, `[]StalenessBounded`, `[]RatesAreRight` | `RatesInv` |
| `SentReviewed` | `[]SentWasReviewed` | `ApprovalInv` |
| `NoLoopForks` | `[]LoopsBounded` | `LoopInv` |
| `FormsAreTyped`, `FeeBelongs`, `ConfirmHolds` | `[]TypeOK`, `[]FeeIsOfForm`, `[]ConfirmIsConsistent` of `SendFlow` | `FormInv` |
| `LoopStaysAlive` | `[]LoopAlive` | `AliveInv` |

`TypeInv` is the type invariant and that a suspended call has a request of its
operation.

`MutualExclusion` alone is not inductive: nothing in it stops a third call from
holding the same promise. `QueueInv` adds that the resolved promises are an initial
segment of those issued, that calls own different promises, that a call in the
queue or past it has not resolved its own, and that one past it has its
predecessor resolved. Two calls past their predecessors then own the first
unresolved promise, and are one. Failures and restarts are steps like the others:
a restart resolves everything, as a new process has a new queue.

`OriginInv` says that every id drawn has one origin, the path and network its account
was made for, and that what is stored, on its way to the host, copied by a call or
returned by one says nothing else of it. The index may name an id of another network
with the same path, and a call of `create` that has read such an entry holds an
account it may not return: the exception (`Unsure`) ends where the networks are
compared. Nothing is assumed of failures, so this is all that survives a lost write,
and it is enough for `ResultIsRequested`. `BatchFindsStored` needs that the networks a
batch may be asked for share their paths with no other (`BatchPathsAreOwn`).
`KeyringHandler.ts` 324-326 batches bitcoin mainnet alone, and in
`entities/account.ts` 364-370 only the test networks share a coin type.

The other four properties are promises of a registry that has lost no write. A
write that is lost, or a restart between the two writes of an insertion, leaves the
maps apart, and a test network's entry replaces another's in the index (section 5).
So they are proved while `faults = 0`, three of them for networks that do not share
paths (`PathsAreOwn`): the conditions under which `accounts_safety` checks them, here
with any number of networks, accounts and calls. `AccountsInv` needs the first
condition only. Each write under way is of a call that awaits it (`WritesAreHeld`); a
write of the accounts map changes nothing but what its call inserts or removes
(`AccountWritesRight`), although `insertMany` writes a copy of the whole map and updates
do not queue; an id is about to be written, or stored, or was asked to be removed
(`IdsAreKept`). `IndexInv` adds that the index leads to each stored account, except where
the mutation in progress is between its two writes (`IndexLeads`), and what that
mutation knows of the index it read (`Knows`): exclusion makes its copy as good as the
index itself. `UniquePaths` follows, and with it idempotence. For the refinement,
`RegistryInv` joins these, and every step is mapped: a write of accounts that lands is an
`Add` or a `Remove` of `Registry`, the look-up of a deletion is a `Condemn`, any other
step is a stutter.

`PoolInv` says that the items below the cursor, and only they, were given to the
mapper, once; that each is held by one worker or has its result unless there was
an error; and that a worker which returned without one found the items exhausted.

`RangeInv` says that what a batch has is the beginning of its range, up to the cursor it
keeps, where the chunk it awaits begins; two consecutive chunks are one (`ChunksJoin`). Of
the addition only `PlusBounds` is used: it is exact up to the largest safe integer plus
one, and a sum beyond stays beyond, so neither the end of a chunk nor the next cursor is
ever a rounded one. `PagesInv` says that a
client was told all that was always there up to its cursor, and, unless it lost a
cursor, nothing beyond it. A page is the beginning of what remains (`PageIsPrefix`),
which carries both to the next cursor.

`SyncInv` says of every job that its three copies of a wallet call confirmed only
what is or was until a reorganisation (`Grounded`), that an account is queried
before it differs from what was loaded, and that what a succeeded account has seen
is persisted (`Learning`). `PersistedFirst` and `ReorgsAreReal` say nothing of what a job
has yet to write, and a job that overlaps another brings it in. `TellInv` adds the
promise: what is stored, or read by an update, has been told or is in the news of
a job that is going to tell it. A write keeps promises because it stores only what
was stored, read, or is news of its own job.

`RequestsInv` follows a request and its dialog: where a method may be, that the
dialog of a waiting request shows what the request holds, that what goes on to be
signed is authorised by a press on that dialog, and that `sent` holds exactly from
the broadcast to the answer, with the account's coins known, or overwritten, from the
write on (`Sending`). The two sets together only grow, though `known` does not: an update
that stores an older copy moves what it drops to `overwritten`. Nothing is assumed of the
transactions the builder comes up with.

`SubjectsInv` adds what the builder does promise. It says what a request works on after each
step, a message or a transaction, and that a transaction built for it pays the others as
asked (`AsAsked`), which then passes through the dialog and the signature. `AsAsked` is
exact: a transfer has one output with the recipient and the amount due, and all others are
the account's change; the amount due is less by the fee for a drained wallet only, which is
the one built of coins worth the amount. The rest is about data: a transaction of any
selection of coins has outputs of natural value, `Others` of a list with one more output is
`Others` of the list or one more (`OthersOfMore`), so the change, which is the account's
own, disturbs nothing (`BuiltPays`, `FilledPays`). Sums and filtered lists are recursive
functions. The induction they need is stated for sets (`Induct`), from the well-foundedness
of the naturals.

`RatesInv` adds to the properties that an entry of the cache expires at most `Ttl`
after it arrived, that what a request holds could have been in the cache when it began,
and that all it owes its assets has arrived, is waited for or has failed (`Covers`).

`ApprovalInv` says that a handler of Send holds an approved psbt and does nothing but
resolve, and takes from `FormInv` that every review, on the screen, in a handler or
approved, tells what its psbt moves (`SoundReview`, from `Tells`). That is settled when the
review is built: the psbt drains the wallet of that moment, while the form says of which
balance and of which fee its amount is the difference. Stale contexts and
synchronisations can then come in any order without touching either.

`LoopInv` counts: each step stops a loop, goes on with one, turns its event into a
refresh or back, or starts one and counts it. Finiteness of the two sets is part of
the invariant, so no bound on handlers or events is assumed.

`FormInv` says that every form is sound, on the screen, under a review, and in the
copy of every handler that may write one back: a fee is there only with an amount
and a recipient, and, unless an error stands beside it, was computed for them and
for the form's account. `FeeIsOfForm` is that of the screen only, and a stale copy
would break it. A handler of Confirm besides holds a fee, hence an amount and a
recipient. `AliveInv` adds that the loop goes on: until a host call fails, Confirm is
pressed or the interface is about to close, some event is scheduled or some refresh is
under way, also between the event that fired and its successor.

Only model-checked: the liveness properties `AllCallsFinish`, `PoolSettles`, `LoopEnds`,
`RequestsAreAnswered` and `Followed`, since the prover does not handle fairness and
ENABLED here. Every safety property of a passing run is a theorem. What lies
between the model and the library, the coins it selects and the chain's answers, is an
assumption of both: the sets of section 2 from which a step takes its outcome.

## 5. What the runs found

Each is a run that violates one property; the quotes are in `PROJECT.json`.

1. `accounts_resurrection`. An update whose read precedes a deletion and whose write
   follows it leaves a record without a derivation path, if the host accepts the
   nested write.
2. `sendflow_approved`. After the user switches account in the form, the flow still
   signs with the account it was started for, and fails.

Further disagreements between the code and its texts, met while modelling and not
kept as runs:

- `create` promises "only one account per derivation path"
  (`AccountUseCases.ts` 250). The test networks share derivation paths and the index
  holds one id per path, so creating on one, on another and on the first again
  makes a second account. The same happens on one network when the index write of an
  insertion was lost; only `createMany` falls back to the stored accounts.
- `refresh` (`SendFlowUseCases.ts` 533) returns its promise from the `try` without
  awaiting it: an interface removed while the rates are fetched makes it fail,
  against the comment in its `catch`.
- `#fillPsbt` has to "strictly adhere to the template output order"
  (`AccountUseCases.ts` 787), but an output to the account itself becomes the change,
  which the library appends: it moves to the end. `BuiltAsAsked` therefore speaks of
  the order of the other outputs.
- `#signRewardsMessage` documents a ValidationError for an account that is not found
  (`RpcHandler.ts` 353); `get` throws a NotFoundError before.

Behaviours that no text of the repository excludes: a form that comes back after a
failed Confirm has no refresh loop; switching account forgets the event, which
then fires on the review and fails there every 20 seconds; the amount shown for Max
comes from the trusted balance read when the account was chosen and the fee computed
last, while Confirm drains the wallet as it is by then, pending coins included, so the
review may tell another amount than its psbt pays (`Tells` says by how much); two sends at
once, or a send and a synchronisation, may each write the wallet as they read it, and an
answered transaction is then missing from it until the next synchronisation (without
`overwritten`, `SentIsRecorded` fails: a synchronisation reads, a send writes and is
answered, the synchronisation writes); confirmSend of the whole
balance shows the balance as the amount, of which the recipient gets the fee less;
a client may be told of a transaction twice, or of an older status last, when jobs
overlap; after a restart between persisting and telling it is never told (the hazard
list says where); a cursor whose transaction was replaced makes a client read from the start.

## 6. What is not modelled

Out of scope: the BDK library beyond what section 2 says of it, HTTP, views beyond what a
dialog shows, translations, logging, tracking and the sample snap; they compute or display
and keep no state. Mappings between the library's, the keyring's and the client's records
are conversions without a state, and no property here is about their result. What
inscriptions are, and frozen outputs, is left out because `index.ts` configures no
`MetaProtocolsClient`; the write of their empty list is modelled. Keys and entropy are not
modelled: an account is its path and network. Of the methods that only read,
`discoverAccounts`, `resolveAccountAddress`, the balances and `verifyMessage` have no
action. The permission error is thrown nowhere while every account has every capability.
Fees and fee rates are one constant in `PsbtBuilder`; the exchange rate, currency and locale
of the form are display only. The cache's operations without a caller have none here.

## 7. Plan

Done: every component's core, its runs, and every safety property of them as a theorem.

1. `Requests` with `WalletSync`'s wallets in the place of `known`: the coins that come in,
   and when a synchronisation brings back what an update dropped.
2. What remains true of the registry after a failure, as a property and a theorem:
   that the maps agree on every path no failed call was given.
3. Which of the two accounts of section 5 the index names, for networks that share
   paths, and the theorems of the registry for them.
