# ProofCast in TLA+

This directory is a model of ProofCast: the contracts that hold a follower's
money (`src/contracts/src`), the relayer and the indexer that work for them
(`src/apps/worker/src`), the HTTP API (`src/apps/api/src`), the owner's console
in the browser (`src/apps/web/src`), the local models (`src/src`) and the
operator's lifecycle scripts (`src/scripts`). Source paths below are relative to
`src/`.

`PROJECT.json` holds the machine-readable side: the runs, the source lines each
definition stands for, the hazards with the properties that cover them, and for
each property a faulty variant of the code that violates it. The faulty
variants are the operators marked "Faulty variant" in the modules; no action
uses them.

To check: `tlc -workers 2 -config FollowerVault.cfg MCFollowerVault` (run and
module names in the table below), `tlapm FollowerVaultProofs.tla`.

## 1. The system

| Part | Source | State it keeps | Operations |
| --- | --- | --- | --- |
| Follower vault | `contracts/src/ProofCastFollowerVault.sol` | policy, open risk, realized loss, execution log, recovery record per market, collateral | deposit, withdraw, initializePolicy, revoke, executeTrade, recover |
| Session registry | `ProofCastRegistry.sol` | sessions, market references, signals, spent nonces, annotation counts | registerSession, publishSignal(BySig), annotate, withdrawSession |
| Live catalog | `LiveShannonDreamDexCatalog.sol` | none: reads the native module | isCurrentMarket |
| Factory | `ProofCastFactory.sol` | vault per enrollment | createVault |
| Executor | `ProofCastExecutor.sol` | enrollments, consumed signals | setFactory, enroll, revokeEnrollment, execute, recover |
| Native adapter | `ProofCastDreamDexAdapter.sol` | two gates, registered vaults, holdings, consumed recovery nonces; the outcome tokens of *all* vaults in one account | configureProtocol, setNativeExecutionEnabled, registerVault, placeBuyIoc, recover |
| Relayer | `apps/worker/src/executor.js`, `executor-schema.sql` | two Postgres tables: jobs with their signed bytes, and the run's budget | one cycle per timer tick: lock, reconcile, discover, sign, broadcast |
| Indexer | `apps/worker/src/main.js`, `indexer.js` | cursor, known vaults, events | one scan per timer tick |
| HTTP API | `apps/api/src/app.js`, `store.js`, `auth.js` | Postgres rows: challenges, login sessions, session payloads, content | sign-in, logout, drafts, enrollments, public reads |
| Job journal | `apps/worker/src/tx-journal.js` | in-memory lease queue, imported only by its test | enqueue, claim, markBroadcast, classifyBroadcastRecovery |
| Session and receipt models | `src/session.js`, `src/receipt.js` | an immutable value the caller holds | create, enroll, revoke, anchor, withdraw; attach, transition, settle, void |
| Owner console | `apps/web/src/VaultConsole.jsx`, `vault-wallet.js` | one localStorage entry, and a copy of it in every tab | submit, wait, reconcile |
| Lifecycle scripts | `scripts/shannon-lifecycle.mjs`, `verify-lifecycle.mjs`, `receipt-verification.mjs` | the evidence file | commands run, signal and recover; verify |
| Rest | `packages/protocol`, rest of `apps/web`, `deploy.mjs`, older contracts | none or not persistent | encoding, presentation, deployment |

How they interact. The creator registers a session; the follower lets the
factory create a vault, deposits into it and enrolls through the executor, which
installs the policy in the vault. After the enrollment deadline the creator
anchors a signal. Anybody, in practice the relayer, calls `execute`; the
executor reads the registry, derives the order and calls the vault, the vault
calls the adapter, the adapter the exchange. After the market is resolved
anybody calls `recover`, along the same chain. All of one call is one
transaction and rolls back as a whole. The relayer reads the chain to find open
actions; the indexer reads it to record events. The two services share nothing
but the chain. The API keeps drafts and enrollments of accounts that signed in
with their wallet; an observer outside the repository confirms them against the
chain. The owner's console and the operator's script send transactions of their
own and remember them, in the browser and in a file.

What is hard:

* **Sequences of legal calls.** Partial fills, profits, losses, re-listings and
  further trades change four sets of books (vault totals, per-market records,
  adapter holdings, the token account) that must agree, because unsigned
  subtraction turns a disagreement into a position nobody can recover.
* **Deadlines.** Enrollment deadline, market start, cutoff, signal expiry,
  policy expiry, market expiry and session expiry, some inclusive and some not,
  meet in one call, and the order of transactions in a block is arbitrary.
* **Roundings.** The quote rounds down, the cost rounds up, the adapter rounds to
  lots, and each of the contracts checks the other's result.
* **The relayer's crash points.** Signed bytes are made durable before they are
  sent. A database session, and with it the advisory lock, may end while the
  process goes on; a call may time out after it arrived; mined transactions
  may be forgotten.
* **The indexer's reads.** A scan reads the head, the cursor's block, the range's
  last block, the logs and the last block again, while the chain moves and
  different nodes answer.
* **The API's statements.** One SQL statement is atomic, a request is not: other
  requests, the observer, logout and expiry come between two of its statements.
* **Transactions of unknown outcome.** A tab or a script that sent a transaction
  may be gone before it is mined, and whoever comes next must not send another.

What makes each part correct is stated in section 3; the hazards, each at its
line, are in `PROJECT.json`.

## 2. Modules

```
LifetimeRisk   <-- implemented by --   FollowerVault  -- extends -->  OrderResults
                                                                          ^
SessionProtocol            NativeCustody  --------- extends --------------+
Relayer                    ChainIndexer

ApiSessions  -- extends -->  ApiAuth
JobJournal                 OwnerConsole               LifecycleScript
LocalSession + Receipt     (side by side in MCLocalModels)

MC<module>           instances for TLC       (MCFollowerVault, MCSessionProtocol, ...)
<module>Proofs       theorems                (FollowerVault, SessionProtocol, NativeCustody,
                                              Relayer with JobJournal, ChainIndexer,
                                              ApiSessions with ApiAuth)
ClientProofs         theorems                (Receipt, LocalSession, OwnerConsole, LifecycleScript)
SumTheorems          lemmas on sums, used by the proofs about vault, custody and relayer
```

* **OrderResults**: what vault and adapter say to each other about one order
  (sides, statuses, worst cost, `ResultAccepted`). Both contracts' models use
  it, so an answer one of them may give is judged by the other's rule.
* **LifetimeRisk**: the abstract promise about money: one grant, capital at risk
  only inside it and while it is open, losses charged for ever.
* **FollowerVault**: one vault. `executeTrade` and `recover` call the adapter in the
  middle of their work, and neither the vault nor the executor guards them against
  being entered again. Each is two steps, up to the adapter (`BeginTrade`,
  `BeginRecover`) and from its answer on (`EndTrade`, `EndRecover`,
  `EndRecoverPending`), and every other call may come in between; `calls` is the stack
  of those that wait. The adapter reports any status, fill and payout, and the vault's
  checks decide what commits; but it has a lock of its own
  (`ProofCastDreamDexAdapter.sol:61-62`), which keeps it from being entered while it
  works (`AdapterFree`). Without that lock the budget can be booked twice
  (`AdapterFreeTwice`, the faulty variant that violates `LifetimeBudget`). A call that
  reverts is no step; the token's transfers call nobody.
* **SessionProtocol**: registry, catalog, factory, executor and the part of each
  vault these talk to (owner, policy sides and expiry, revoked flag). Money is
  left out, a trade leaves a position or fills nothing.
* **NativeCustody**: the adapter together with the positions of its vaults. The
  exchange lists, moves, re-lists and resolves markets as it likes; strangers
  may send tokens to the account.
* **Relayer**: several worker processes, the two tables, the signer's
  transactions on the chain. A cycle is cut at every round trip after which the
  process can be found in a different world: after the lock, before and after
  the COMMIT, before and after the broadcast, before the last UPDATE.
* **ChainIndexer**: one scan at a time (the advisory lock and the surrounding
  transaction exclude others and make a failed scan traceless), cut at every
  read of the chain. The chain is a sequence of blocks whose end is replaced.
* **ApiAuth**: challenges, verify requests in flight (load, check, consume, create
  the login session: one action per statement), logout, expiry, dying requests.
* **ApiSessions**: drafts (one conditional statement) and enrollments (read the
  payload, extend it, write it back whole) on top of ApiAuth's tokens. The
  observer that confirms drafts and records signals and withdrawals is external.
* **JobJournal**: the lease queue. Workers are slow or never come back.
* **LocalSession**, **Receipt**: the two local models. Every call of LocalSession
  brings its own clock reading; a call that throws changes nothing. Every transition
  of a receipt may overwrite its signal, amount and code with the caller's changes
  (`receipt.js:80`), so `OutcomesAreDistinct` is about the states it went through.
* **OwnerConsole**: the stored entry, the tabs with their own copies, the wallet's
  open questions and the chain. A tab may be closed at any point. A success is
  believed with one block on top (`tx.wait(2)`, `vault-wallet.js:83`, counts the
  transaction's own block), a reconciliation with two (`vault-wallet.js:8`).
* **LifecycleScript**: the three commands as routes of labelled steps, the evidence
  file, the signer's mempool in the order of nonces, and the ledger: one block per
  transaction, with its success and the vault's balance after it. Blocks up to `final`
  have two on top of them; those above can be replaced. A withdrawal takes the balance
  read before it was sent (`shannon-lifecycle.mjs:119,130`), and one of nothing
  succeeds. The script may stop before or after each write; others may execute,
  recover, or send the vault tokens. `Report` is the verifier's first complete report.

Correspondence of names: variables carry the contract's or the table's name
(`openRisk`, `recoveryConfigs`, `holdings`, `consumed`, `job`, `cursor`,
`challenges`, `rows`) and actions the function's (`BeginTrade` and `EndTrade` for
`executeTrade`, `PublishSignalBySig`, `PlaceBuy`, `Discover`). History variables, which no guard
reads, are `netDeposited` (FollowerVault), `enrolledAt` and `executedAt`
(SessionProtocol), `sent` (Relayer), `deep` (ChainIndexer: a confirmed block was
replaced), `minted` (ApiAuth), `observed` and `acked` (ApiSessions), `visited` and
`taken` (Receipt), `beyond` (OwnerConsole: two tabs were open at once, or a
reorganisation took more than the head block), `reported` (LifecycleScript, read only
by `Report`, so that the first report is kept) and `grants` (JobJournal). The modules that share a proof module (JobJournal, LocalSession,
OwnerConsole, LifecycleScript) give their formulas names of their own: `JournalSpec`,
`LocalSpec`, `ConsoleSpec`, `ScriptSpec` and likewise for `Init`, `Next` and `TypeOK`.

Abstractions that a reader should know:

* Resolution module, operator, venue and generation are one value in
  FollowerVault. NativeCustody fixes operator and venue per market and keeps
  generation, pool and token.
* A request's own expiry is the executor's choice; the vault only wants it later
  than `now`. FollowerVault leaves it out, SessionProtocol has it (it is the
  signal's `validUntil`).
* A signature is its signer. Prices and evidence hashes of signals are data no
  session property tells apart. Challenge ids and tokens are random in the code
  and issued once in the model.
* `setFactory` of the adapter only decides who may register a vault; in
  NativeCustody any vault may be registered at any time.
* The relayer's eligibility read is "the action is still open on-chain at that
  height". `signJob`'s reads before it signs are one step: whatever moves between
  them makes it return early, which `Skip` allows at any moment. The signer's
  balance and the fees of the moment only decide whether it returns early. The limits
  of gas and fee a process is configured with also decide whether it sends a lost
  transaction again (`executor.js:151`): a cost stands for gas and fee, and
  `WithinCaps` names the ones within each process's limits. The limit on jobs per tick
  is left out: every discovered job may be tried.
* ChainIndexer starts at block 1 (the configured start block) and reads logs
  block by block, in any order, which is finer than the chunks of
  `getLogsChunked`. Block hashes are never reused, so a chain that is replaced
  and then restored to the very same blocks is not modelled.
* What is paid into a vault from inside a call of its adapter cannot be told from what
  the adapter gives back: the vault books a cost that is smaller by that much. The
  history variable `netDeposited` does not count it.
* In LifecycleScript a deposit brings two units and a fill costs one. The deployments and configuration calls at the start of `run`
  are one step, and the imported rule on resubmission (`lifecycle-journal.mjs`,
  which is not in the repository) is external, taken from how it is called.

## 3. Runs

Every run is exhaustive over its instance. Deadlock checking is off everywhere
because every instance is bounded (time, orders, faults, blocks, challenges), so
behaviours end.

| Run | Module, cfg | Shows |
| --- | --- | --- |
| follower_vault | MCFollowerVault, `FollowerVault.cfg` | `LifetimeBudget`: open risk plus realized loss never exceed the lifetime budget, whatever the adapter reports, whatever is called while it works and however many profitable recoveries lie between. `NetLossWithinBudget`: the same end to end, in the follower's cash. `PositionsRecoverable`: total, per-market counter and recovery record hold the same cost, and none of recover's own checks can ever refuse a held position. `LogExplainsBooks`: counters and positions are explained by the execution log. `QuoteIsAdmitted`: what previewTrade quotes, executeTrade admits. `HeldPositionKeepsItsKey`: a second trade flips neither side nor venue. `ImplementsLifetimeRisk`: refinement of LifetimeRisk. |
| sessions | MCSessionProtocol, `Sessions.cfg` | `ConsentPrecedesSignal`: every policy was accepted strictly before any signal of its session. `ExecutedWithinConsent`: every execution lies inside signal, policy, market and session, in the vault's collateral. `ExecutedOnce`, `EnrollmentMatchesVault`. `NonceAnchorsOneSignal`: a signed signal is anchored once however often it is relayed. `HistoryIsFinal`: nothing recorded changes. `NoExecutionAfterStop`: revocation at either contract and withdrawal are final for execution. `PositionsAreRecovered`: every position is eventually recovered, also after a stop. |
| native_custody | MCNativeCustody, `NativeCustody.cfg` | `CustodyCovers`: the shared token account covers every vault's claim. `HoldingsMatchVaults`: adapter and vaults agree under every key. `RecoveryNeverRefused`: with the gate closed, on another pool or in a later generation, no recovery is refused by the contracts. `AnswersFitVault`: no order reverts on the way back because of the two roundings. |
| relayer | MCRelayer, `Relayer.cfg` | `SentIsJournaled`: no bytes leave before they are durable, so no job has two transactions. `OneInFlight`. `TerminalIsTrue`: CONFIRMED and REVERTED are never wrong. `BudgetHeld`: the run's budget bounds all that was signed, across processes with other limits. `JournalIsFinal`: a late UPDATE never reopens a row. `SignedIsSettled`: what was signed within the gas and fee limits of every process reaches a terminal state. |
| indexer | MCChainIndexer, `Indexer.cfg` | `IndexIsExact`: until a confirmed block is replaced the index is the canonical history up to the cursor, complete and nothing else, vaults created and used in one range included. `ScanReadsOneFork`: under reorganisations of any depth, what a scan commits was read from one fork. `CatchesUp`: once the chain stands still the index reaches every confirmed block. |
| indexer_stale_cursor | MCChainIndexer, `IndexerStaleCursor.cfg` | The first finding of section 5: `CanonicalCursorVouches` is violated. |
| api | MCApiSessions, `Api.cfg` | `OneSessionPerChallenge`: a signed challenge is good for one session, however many requests present it at once. `LoggedOutStaysOut`: a verify request in flight does not bring a token back. `RowsAreSignedFor`: whoever stands in a row as creator or follower signed in as that account. `PublicIsObserved`: what the public is shown of a session comes from the observer: that it is confirmed, by that creator and with that deadline, and a withdrawal or a signal. |
| api_lost_enrollment | MCApiSessions, `ApiLostEnrollment.cfg` | The second finding: `AckedEnrollmentsKept` is violated. |
| local_models | MCLocalModels, `LocalModels.cfg` | `LogExplainsSession`: the event log and the state tell one story under clocks that jump, consent first and nothing but revocations after a withdrawal. `NoSignalIsTrue`: a missing observation is never called a missing signal. `OutcomesAreDistinct`: whatever changes its callers make, no receipt goes through states that conflate abstention, rejection, zero fill and settlement, and its one signal gets its own answer. |
| owner_console | MCOwnerConsole, `OwnerConsole.cfg` | Both until two tabs are open at once or a reorganisation takes more than the head block. `UnknownIsRemembered`: closing the tab, opening another, a lost answer or a timeout never make the console forget a transaction of unknown outcome. `OneOutstanding`: nothing asks for a second while one is outstanding. |
| lifecycle | MCLifecycleScript, `Lifecycle.cfg` | `FileIsTrue`: until a block is replaced, through interrupted commands, unrecorded transactions and interventions of others, the file's phase has happened and nothing on record is submitted again. `CompleteIsFinal`: from the first complete report on, trade and recovery are in final blocks; so are the revocation and an empty vault if the file held everything the script sent. |
| job_journal | MCJobJournal, `JobJournal.cfg` | `LeasesDisjoint`: two leases of one intent never overlap, however late a worker is. |

The types of the remaining modules are part of a property of their run
(`IndexIsExact`, `LogExplainsSession`, `OutcomesAreDistinct`,
`UnknownIsRemembered`, `FileIsTrue`).

### Bounds

* `FollowerVault.cfg`: two markets and two venues (so a position may meet another
  position and another venue), scale 3 with prices 2 and 3 (so roundings lose
  something), quantities 1 and 2, budgets of 3 with orders of 2 (so two orders
  exhaust the budget, and the second is refused after a loss), two executions
  (trade, recover and trade again in the same market, or one in each), any number of
  recoveries, deposits, withdrawals and donations, also while the adapter works, cash
  up to 3, time 0..1 around the policy's expiry. The theorems of FollowerVaultProofs
  have no bound on any of these. Markets and venues are symmetric.
* `Sessions.cfg`: a creator and a follower, one session with two markets in two
  collaterals, one enrollment, time 0..4, which passes every deadline of the
  manifest with a step before and after, one annotation, one nonce (a second
  market can try to use it again), one manifest to refuse, two policies. Two
  sessions of one creator, several followers and more nonces are covered by the
  theorems of SessionProtocolProofs.
* `NativeCustody.cfg`: two vaults (one may redeem the other's tokens), one market,
  two pools (it can move and come back), two generations, three orders (buy, buy
  more, buy in the next generation), lots of 2 with quantities 2 and 3 (one on
  and one off the grid), scale 4, one donation. Vaults and pools are symmetric.
* `Relayer.cfg`: two workers with run budgets of 3 and 1, two jobs of cost 1 or 2 (so
  both fit one worker's budget and not the other's), of which the second worker may
  only send those of cost 1; one fault (a lost session, a crash or
  a lost call, anywhere), one reorganisation or drop, one use of the key outside.
  The theorems of RelayerProofs have no bound on any of these.
* `Indexer.cfg`, `IndexerStaleCursor.cfg`: one confirmation, batches of two blocks,
  reorganisations of up to three blocks, a node one block behind, one crash, four
  blocks of which seven are ever produced, a factory with one vault and two logs
  (creation and deposit, which may be in one block, one range or two ranges).
* `Api.cfg`, `ApiLostEnrollment.cfg`: two accounts, two challenges, two login
  tokens, two requests at a time, one session id (so they meet), two enrollment
  ids, challenges and logins that live one tick, time 0..1, deadlines 0 and 1
  (over and open). Accounts, challenges and slots are symmetric where the
  configuration says so.
* `LocalModels.cfg`: sessions of one or two markets, two enrollments, two followers,
  times 0..4 in any order, two signal ids, fills of at most 2.
* `OwnerConsole.cfg`: two tabs, open one after the other or at once, and three
  transactions (one settled before, one whose outcome is open, and a second that must
  not come). Nothing tells more than two blocks on top of a transaction apart.
* `Lifecycle.cfg`: nine sends (one of each kind; a send that is repeated because the
  first was never recorded takes the place of a later one, and others may execute and
  recover), two of them waiting at a time, at most two blocks that are not final, and
  one disturbance: a replaced block, or a transfer to the vault after the revocation.
  The theorems have no bound on these.
* `JobJournal.cfg`: two workers, two intents, leases of 1 and 2, time 0..2.

Every bound is a constant whose name begins with `Max`; it limits guards and the
ranges inputs are drawn from. `MaxReorg` and `MaxLag` describe the chain and its
nodes. The limits of the code itself (`Confirmations`, `BatchSize`, `Limit`,
`ChallengeLife`, `SessionLife`) are constants of the model.

### Fairness

* sessions: weak fairness of `Tick` (blocks are produced) and of each `Recover`,
  which is permissionless and tried every tick by the relayer. Nothing is assumed
  of creators, followers or of `Execute`.
* relayer: weak fairness of every worker's next step (the interval timer restarts
  a cycle for ever, every call returns or times out), of `Confirm` (blocks are
  produced) and of mining a transaction that is in the mempool with the next
  nonce. Faults and reorganisations have none. `SignedIsSettled` promises nothing
  once the key was used outside: the comment at `executor.js:149` makes a consumed
  nonce stop the service on purpose. Nor does it promise anything of a transaction
  that some process may not send, because its limits are lower than the gas or the fee
  it was signed with: that process holds the lock and waits (section 5).
* indexer: weak fairness of the scan's next step. `CatchesUp` promises nothing
  after a reorganisation deeper than the confirmations: the indexer then stops
  on purpose.

The other parts act when somebody calls them; nothing is promised to happen.

## 4. Theorems

Proved with TLAPS, for every value of the constants that satisfies the modules'
assumptions. Every invariant and every action property of a passing run is proved; what
is left to TLC is liveness. The assumptions: the price scale is a positive natural,
requests, amounts, bounds, policies, costs, limits and deadlines are naturals (prices
and quantities of NativeCustody and its grid, costs, limits, lifetimes and leases
positive where the module says so), and the null values (`NoVenue`, `NoAccount`,
`NoPool`, `NoJob`, `NoChallenge`, `NoWorker`) are no real ones. The sets that sums range
over (markets and vaults, jobs) are finite, which they are in the code: ids are words or
byte strings of a fixed length. Of a vault's adapter it
is assumed that it cannot be entered while it works, and of the token that its transfers
call nobody; nothing else is assumed of adapter, exchange or any caller.

**SumTheorems.** A sum over a finite set is a fold, which takes its elements away in an
order nobody chose, so even that the fold is defined everywhere needs an induction. The
library's induction theorems cannot be instantiated by the provers at hand; the two
inductions are therefore over the *set* of counterexamples, of which the library's
well-founded ordering of finite sets has a smallest (`SubsetInduction`, `SetInduction`).
From them: a sum does not depend on the order, changes by the difference when one
summand changes, is monotone, and splits into an element and the rest.

**FollowerVaultProofs.** The budget alone is not inductive: `executeTrade` checks the
cost against `_remainingRisk`, which is 0 both when the budget is used up and when it is
overdrawn, and the installation of a policy replaces the budget under whatever risk
there is; and it checks before the call of the adapter what it books after it. The
invariant is `TypeOK`, `PolicyOnce` (until a policy is installed the books
are empty and the policy zero; after, its budget is positive), `LifetimeBudget`,
`DepositsExplained` (net deposits are at most cash, open risk and realized loss
together), and `CallHolds`: one call waits at most, the same is true of the balance it
started from, and what an order was checked for still holds (`StillAdmitted`), since
nothing that may be called meanwhile touches budget, risk, loss or positions. From it: `VaultTypeOK` (no unsigned subtraction underflows),
`VaultLifetimeBudget`, `VaultNetLoss`, `VaultImplementsLedger` (initial states and steps
map to LifetimeRisk) and `VaultKeepsKeys`. `VaultRecoverable` adds that a held position
is open and knows its venue (`HeldIsOpen`) and that total, counters and recovery records
move together: the open risk is the sum of the cost bases, so no subtraction in
`recover` can fail. `VaultLog` follows the log column by column (`SpentIsLogged`,
`PositionLogged`): one more entry adds its amounts to the columns it belongs to and to
no other. `VaultQuotes` proves the arithmetic of quote against cost for every scale and
price: rounding the quantity down and its cost up comes back to at most the cost one
started from.

**SessionProtocolProofs.** Consent before signal rests on the enrollment deadline in
between: the invariant adds `VaultsRegistered` (a vault's session exists, hence its
manifest is final), `EnrolledInTime` (strictly before the deadline) and
`AnchoredAfterDeadline` (not before it) to `TypeOK`. From it: `SessionTypeOK`,
`SessionConsent` and `SessionStops`.

On top of that the record is shown to be append-only. Each kind of call leaves the other
parts' records alone; what it may do to a registered session is one operator
(`SessionAdvances`), which gives `SessionHistory`. `SessionExecutedOnce`,
`SessionNonces` and `SessionAgreement` are inductive together with that invariant.
`SessionWithinConsent` needs two things more: the window an execution was checked
against is still the one on record later (the lemmas behind `SessionHistory`), and a
signal's own window lies within market and session (`SignalWindow`).

**NativeCustodyProofs.** That adapter and vault agree is inductive only together with
`NoncesSpent` (consumed recovery nonces lie at or below the vault's recovery count, so
the next one is free) and `HeldIsAdmitted` (execution is enabled only after
configuration; a held position is unresolved, in a registered vault, at a configured
adapter). From it: `CustodyTypeOK`, `CustodyBooksAgree` and `CustodyRecovery`.
`CustodyCoversAll` is about the one account that holds the tokens of all vaults: the
claims to one token are a sum over vaults and keys, and a purchase or a redemption
changes one summand and the account by amounts that fit. `CustodyAnswers` proves, for
every scale, lot size, price and quantity, that the vault accepts what the adapter may
report.

**RelayerProofs.** Every write to the database is made by the worker whose session holds
the lock. The invariant says that there is one such session, what a worker has in hand
at each point of its cycle (`Hand`: before it signs, nothing is active; after the
COMMIT, its job is in the journal; with a session, the job is still active), that a
mined transaction sits at its nonce (`MinedAtNonce`), and the properties themselves. A
worker that has lost its session and goes on can only send bytes that are in the
journal, which is what makes the crash points safe. From it: `RelayerTypeOK`,
`RelayerJournaled`, `RelayerOneInFlight`, `RelayerTerminal` and `RelayerJournalFinal`,
for any number of workers, jobs, faults, reorganisations and outside uses.
`RelayerWithinBudget` needs that the reservation is the sum of the costs in the journal
(`ReservedIsSigned`), each of which is added once, in the transaction that makes its
row.

The same module holds the theorems of the lease queue in memory. A lease ends before the
next one begins because the job holds the latest (`JournalLeases`); a recorded broadcast
is neither leased nor changed again (`JournalRecords`).

**ChainIndexerProofs.** A block's hash is given out once, and a reorganisation gives out
new ones, so a block that has the hash that was read is the block that was read, and all
blocks below it are the ones that were there at the time (`ChainOrderly`, and the lemmas
on a chain whose end was replaced). What a scan has read so far is therefore described
under the condition that the target still stands (`ScanReads`): the re-read of the
target at the end makes the condition true or the scan fails, which gives
`IndexerReadsOneFork` for any depth. `IndexerExact` needs two things more: as long as no
confirmed block was replaced, head and target stand and the database holds the blocks up
to the cursor (`Settled`), and the cursor stays within the confirmed part of the chain
(`ScanInRange`). A vault's first log may be in the block that announces it, which is why
the range is read a second time for new vaults; that the two readings together are one
reading for both sets of addresses is a lemma.

**ApiSessionsProofs.** The sign-in comes first, alone. A challenge is checked by many
requests and consumed by one. The invariant says what a verify request has in hand
(`SlotsSound`: the address it recovered is the challenge's), and that no two requests,
and no request and token, have consumed one challenge (`ConsumedOnce`,
`MintedFromConsumed`). From it: `AuthChallengeOnce`, `AuthSessionsProven` and
`AuthLogoutFinal`. `ApiImplementsAuth`: a step of the API is a step of ApiAuth or leaves
its tables alone, so the above holds under drafts and enrollments too. `ApiRowsSigned`
and `ApiPublicObserved` need to know what a request in flight has in hand
(`PostsSound`): its account signed in, and the payload an enrollment will write back is
a confirmed one with the creator and deadline the observer confirmed and no withdrawal
or signal it did not record, although the row may have moved on since it was read. That
is why a write-back can take an observation back and never invent one.

**ClientProofs.** What lives outside the services.

* Receipt: no transition leads back, whatever it overwrites. The invariant
  (`ReceiptInv`) says where a receipt can still be after the states it went through, and
  that a signal is answered in the first of them; it gives `ReceiptOutcomes`.
* LocalSession: every call brings its own clock reading, so the order of the log and the
  order of the readings are different things. The invariant keeps both: each record has
  one entry (`LogOnce`), and the readings that were kept lie where the manifest wants
  them (`ReadingsInWindow`), consents before `enrollUntil` and signals not before it,
  which keeps the two apart although the readings jump. From it: `LocalSessionLog` and
  `LocalNoSignal`.
* OwnerConsole: `ConsoleRemembers` and `ConsoleOneOutstanding` hold for any tabs and
  any number of transactions, as long as no second tab is opened while one is open and
  no reorganisation takes more than the head block (`beyond`). The invariant is that the
  open tab's copy is the stored entry (`TabFollows`), that one tab and one question to
  the wallet is open at a time, of a closed tab perhaps (`TabsAlone`), and that the
  entry names the one transaction that is not decided (`EntryFollows`).
* LifecycleScript: the invariant has four parts. `ScriptOrder` holds through all
  reorganisations: a transaction is in one place (`OneCopy`), an id names the same
  transaction everywhere, what succeeded has its precondition in the blocks before its
  own (`InOrder`), and command and file are where the route says (`ProcOrder`,
  `FileOrder`). `Strangers` says that blocks of others hold successes, and that a trade
  and a recovery succeed once. `Reported` is what a report rests on when it was made: a
  recovery in a final block, hence the trade before it; and, when the file held
  everything sent, that nothing which waits or could be replaced may still bring the
  vault money but a recovery, which cannot succeed again. It gives
  `ScriptCompleteIsFinal`. `Claims` holds until a block is replaced: receipts on record
  are on the chain (`Recorded`), one entry of a kind is live, also while a transaction
  waits to be written down (`OneLive`), each phase has happened (`Progress`), and after
  the last the vault has been empty and got money only from others or by a deposit that
  was sent and never written down (`Emptied`, `Lost`). From it: `ScriptFileIsTrue`. TLC
  checked the invariant on the instance of `Lifecycle.cfg` before it was proved.

Only model-checked: liveness (`PositionsAreRecovered`, `SignedIsSettled`, `CatchesUp`).
Fairness and ENABLED are outside what the prover handles. A theorem is about one module
and what it extends; that FollowerVault and NativeCustody judge an order's answer by the
same rule rests on their sharing OrderResults. The findings of section 5 are
counterexamples and stay with TLC too.

## 5. Findings

**A stale cursor.** `scan` compares the saved cursor with the chain (`main.js:70-71`)
and only then reads the target block (`main.js:86`). At the end only the target is
read again (`main.js:103-104`). If a reorganisation deeper than the configured
confirmations falls between the first two reads, the scan commits a cursor of the
new fork above events of blocks that no longer exist. From then on every scan
finds the cursor canonical, and `ON CONFLICT DO NOTHING` (`main.js:109`) keeps the
stale rows. `test/worker.test.js:26` says that the indexer "refuses a reorg without
a matching cursor hash"; the run `indexer_stale_cursor` shows one it accepts. Within
the confirmations it cannot happen (`IndexIsExact`), and the mixture is only of old
rows with new ones, never within one scan (`ScanReadsOneFork`).

**A lost enrollment.** The enrollment route reads a session's payload
(`app.js:116`), extends its list and writes the whole payload back
(`app.js:123`, `store.js:65`) without a condition on what it read. Two posts at a
time are both answered with 201, and one of the entries is gone. The test expects
the stored session to hold what was acknowledged (`test/api.test.js:97-99`); the run
`api_lost_enrollment` shows two requests for which it does not. The same
write-back can undo a withdrawal or a signal the observer recorded in between, so that
a withdrawn session is listed and open again; the on-chain enrollment is not affected,
the row is only a copy.

Observations that contradict no statement of the repository:

* The vault admits an order before it calls the adapter and books it afterwards
  (`ProofCastFollowerVault.sol:196-210` and `246`), without a guard of its own; the
  executor sets its mark after the vault's call as well (`ProofCastExecutor.sol:142`).
  The books rest on the adapter's `nonReentrant`, which is why a vault must only be
  created with an adapter that has one.
* A relayer process that is started with lower gas or fee limits than an active
  transaction was signed with never sends it again (`executor.js:151`). If the mempool
  has lost it, the row stays active, and one active row stops all signing.
* Two tabs of the owner's console can both sign: the pending entry is read when a
  tab opens (`VaultConsole.jsx:6`) and nothing listens for its changes.
* The console waits for two confirmations in the count of `tx.wait` and for one more
  block when it reconciles (`vault-wallet.js:83` and `8`). In between a reorganisation
  that takes two blocks makes a transaction pending that the console has forgotten.
* A receipt's transition spreads its caller's changes over the receipt
  (`receipt.js:80`): a settled receipt may say that nothing was filled, or name a
  signal that was never recorded. Its states are protected, its details are not.
* In the job journal an expired lease is reclaimed although its holder may have
  broadcast without saying so yet; leases are disjoint, transactions need not be.
* The local receipt refuses a first signal that has no id as "already recorded"
  (`receipt.js:58`): both ids are undefined.
* In the lifecycle script a transaction that was sent and never recorded can be mined
  after the phase RECOVERED_AND_WITHDRAWN was written. The verifier reads position,
  cash and revocation at the head (`verify-lifecycle.mjs:29-30`): a report may be
  complete because of such a transaction, and a reorganisation may take it back. What
  the report says of trade and recovery cannot be taken back (`CompleteIsFinal`).
* Anybody may send the vault tokens: after the last withdrawal it is not empty again,
  and a second `withdraw` is recorded, which is why `FileIsTrue` leaves that label out.

## 6. Not modelled

* What a worker reports of itself: state and heartbeat rows, the health port, the
  API's ready and status routes. No decision of the services reads them.
* Content storage of the API (one insert of immutable data), the origin guard.
* `packages/protocol`: pure encoding and hashing; what is hard about it are 256-bit
  values, which TLC does not enumerate.
* The rest of the web interface (presentation), `deploy.mjs` (run once, by hand),
  the fixed catalog, the demo creator and the first contract version, which keep
  no state or are not used by the rest.
* The comparison of a market's addresses and token ids with the native module: a
  market is an identifier.
* The settlement's `owed` path, whose outcome depends on an external contract
  (hazard at `ProofCastDreamDexAdapter.sol:163`).
* The relayer's limit on jobs per tick, the fees it bids, and its choice never to retry an
  action whose transaction reverted.
* The rule that decides whether a phase may be submitted again, which
  `shannon-lifecycle.mjs` imports from `lifecycle-journal.mjs`: that file is not in
  the repository. `MaySubmit` is written from how it is called.
