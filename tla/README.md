# Koin Vault: TLA+ models of a wallet that converts, sends and signs

Koin Vault is a Koinos wallet.  Its server turns deposits of ETH, USDC, USDT or
SOL into KOIN, sells KOIN for ETH, creates passkey-governed accounts, submits
what the passkey signed, and lets websites ask for signatures.  Money crosses
three chains on its way, some of the gas is lent by a sponsor wallet that every
user shares, and whatever is under way is driven by one Node process that may be
killed at any moment.  These modules model that server, the process election
around it and the page in front of it; TLC checks them on small instances, and
TLAPS proves part of it for all instances.  Paths are relative to the repository
root, and unqualified `x.js` lives in `tools/` or `tools/eth/`.

## 1. The system

### Components, state, operations

| Component | Source | State it keeps | Operations | Module |
|---|---|---|---|---|
| Fee plan v2 pipeline | `tools/eth/funding-v2.js` | accepted and recovery quotes, a promise queue (memory); the fields of a job | `quote`, `start`, `requote`, `advance` (= skip, `send`, `broadcast`, `confirmed`, `finish`), `resume` | `FundingPlan`, `FundingV2` |
| Gas accounting | `tools/eth/gas-accounting.js` | none (folds over receipts) | `costs`, `exposure`, `admit`, `repayment` | `GasAccounting` |
| Funding driver, job ledger | `tools/funding.js` | `funding.json`: keys, jobs, history, trades; `BUSY`, `STARTING` | `tick`, `saveJob`, `start`, `retry`, `reset`, `failOrRecover`, the driver of earlier jobs | `LegacyDriver`, and part of `FundingV2`, `SolanaLeg`, `Landing` |
| Solana leg | `tools/funding.js:1217-1337`, `tools/sol/` | pending signature and expiry on the job | `advanceSol`, `onSolConfirmed`, `reconcileSol` | `SolanaLeg` |
| Landing on Koinos | `tools/funding.js:1464-1640`, `server.js:819-1038` | the job; prepared transactions (`PREPARED`) | `pollGuardians`, `autoRedeem`, `prepareTapOps`, `submit`, `onTapDone` | `Landing` |
| Trade | `tools/eth/trade.js` | `trades` in the ledger; intents, busy set (memory) | `prepare`, `submit`, `prepareTap`, `beforeKoinBroadcast`, `tick` | `Trade` |
| Sends and the transaction queue | `tools/chain.js`, `server.js`, `tools/vault-token-sends.js` | one promise chain per host; single-use references | `prepare`, `submit`, `queueTx`, `sendTolerant`, `waitMined` | `Sends` |
| Worker election and lock | `tools/wallet-worker.js`, `tools/funding.js:161-234` | a private listener; `funding-worker.lock` and its owner record | `step`, `forward`, `lockDataDirectory` | `WalletWorker`, `OneLedger` |
| Dapp relay | `tools/dapp-*.js`, `server.js:193-403` | sessions, requests, budget file | `dappCreate`, `dappConnect`, `dappRequest`, `dappLaunch`, `dappApprove`, `dappReject`, ... | `DappRelay` |
| Veive accounts | `tools/veive.js`, `tools/chain.js:441-648` | `accounts.json`, runs in progress | `createOrResume`, `runBootstrap`, `ensureReady`, `whoami`, `addCredential`, `reconcile` | `SmartAccount` |
| Browser wallet | `public/js/fund.js`, `trade.js`, `app.js` | what is on screen, calls in flight | the conversion page; the send form | `FundPage`, `Sends` |
| Proxy, RPC failover | `tools/wallet-backend.js`, `tools/chain.js` | none that lasts | forward, fail over | their effects: `Sends`, `DappRelay` |
| Prices, history, quote and calldata builders, Android, contracts | see `PROJECT.json` | caches at most | | not modelled |

### How they interact

The driver's timer (4 s) calls `tick`, which takes each account's job to the
handler of its state; the trade timer does the same for trades, every 15 s per
trade.  Ethereum states of a v2 job go through one promise queue for all
accounts, because they share the sponsor's nonce and float.  Landing, Solana and
trade handlers do not: they await the network and then save what they decided.
API calls (`start`, Retry, `reset`, re-quote, taps) run between any two awaits.
Everything durable is a JSON file, written whole and renamed.  Of the processes
that hosting starts, one at a time may write these files; the others forward
their requests to it.  A conversion and a trade of one account exclude each other
because both spend from the account's transit wallet.

### What is hard, and what makes each component correct

* *Pipeline*: crash between signing, saving and broadcasting; lagging nodes;
  dropped, reverted and reorganised transactions; one nonce sequence and one float
  for all accounts.  Nothing is on the network that the ledger does not hold
  (`WriteAhead`, `NothingForgotten`); no nonce is used twice (`NonceUnique`), no
  step moves money twice (`SpendOnce`); the conversion follows repayment
  (`TailAfterRepayment`), the landing a deposit (`LandingHasDeposit`); the books
  agree with the chain (`LedgerMatchesChain`), the reserve holds
  (`FloorRespected`), no sequence of reverts, Retries and re-quotes exceeds what was
  accepted (`WithinPlan`), and what is journaled is settled (`JournalSettles`).
* *Earlier conversions*: sent first and saved after, so the chain has to be asked
  where the money is (`KeepsTransfer`, `SpentOnce`, `Settles`).
* *Solana*: what was signed may land until its blockhash lapses, and nodes lag
  (`SwappedOnce`, `LeftoverKept`, `SolSettles`).
* *Landing*: snapshots saved after an await, replies that arrive for a job the
  account no longer has (`SaidLandedHasLanded`, `LandsUnattended`, and the theorem
  `LiveJobKept`).
* *Trade*: the lock of a wallet two features share, a journal written outside that
  lock, re-sends on two chains (`OneUserOfWallet`, `MovesOnce`, `GasBookedOnce`,
  `TradeSettles`).
* *Sends*: reorganisations, evictions and lost replies must not make an answer untrue
  when it is given, or let a form pay twice (`AnswersAreTrue`, `PaidOnce`, `Answered`).
* *Worker*: two processes that both find a dead lock, reused process ids, a
  rollout (`ElectionGuardsLock`, `WriterReturns`); handlers that outlive the wait of
  who relayed to them; to a client all processes are one ledger (`IsOneLedger`, the
  refinement).
* *Dapps*: approvals that await the chain while sessions end (`OneAtATime`,
  `HandledOnce`), a budget and a policy checked before they are used
  (`SponsoredWithinBudget`, `SponsoredOnStandard`).
* *Accounts*: a bootstrap key that exists only here, and set-up transactions that
  land late (`KeyKept`, `GovernedByPasskey`, `ActiveIsLive`, `Heals`).
* *Page*: answers that arrive for another amount, asset, account or version
  (`PricesTheBox`, `ReviewIsShown`, `NeverStuck`, `OnlyForward`).

`PROJECT.json` lists each hazard with its line and the properties aimed at it.

## 2. Modules

Each component module is parameterised by CONSTANTS and has one action per
operation or part of an operation between two awaits; `MC<Name>` holds its instances.
An operator whose comment starts with `MUTANT of` is not part of the model: it is
what a plausible bug would make of the definition after it.

### FundingPlan, GasAccounting, FundingV2

`FundingPlan` is `makePlan` as a function from asset, route and wallet to the
steps and ceilings of a plan (`Offered` leaves out the plans it refuses);
`GasAccounting` is what a receipt adds to a job's totals, debt, exposure,
admission and the sum that repays.

| Variable | In the code |
|---|---|
| `jobs`, `past` | `S.store.jobs` and the entries of `S.store.history` that are not current; `Records` is `records()` (funding.js:226) |
| `held` | the operation of the promise queue that has read and decided but not saved |
| `offers` | `recoveryQuotes`, each with the snapshot its hash binds it to |
| `lastId` | job ids handed out |
| `mempool`, `chain`, `deep` | Ethereum: pending transactions, mined ones in order with outcome and gas, how many of them have the configured confirmations |

A signed transaction is a record that also stands for its raw bytes, its hash
and its journal entry.  `pending` and `confirmed` of a job are sets of at most
one element (`pendingEth`, `confirmedEth`); `receipts` is `ethReceipts`, and
`gasPaid`, `spent`, `recovered` are the totals `costs()` folds out of it.

| Action | Code |
|---|---|
| `Start`, `Send`, `ApproveQuote`, then `Commit` or `Abort` | an operation of the queue up to its last read; then its save, or its exception.  Between the two anything outside the queue may happen |
| `Skip`, `Finish`, `Confirm`, `Broadcast` | the branches of `advance()` |
| `CrashInConfirm` | death between `confirmed()`'s two saves |
| `Fail`, `Resume`, `OfferQuote`, `Reset` | `failOrRecover`, `resume`, `requote` without id, `reset` |
| `SolSend`, `SolExpire`, `SolNext` | the Solana leg in three steps (`SolanaLeg` has it in full) |
| `PollGuardians`, `AutoRedeem`, `PrepareTap`, `TapDone` | the landing, one step each (`Landing` has it in full) |
| `Mine`, `Bury`, `Drop`, `Reorg`, `Crash` | Ethereum and the process |

Gas, amounts and balances are small numbers of one unit.  `Send` chooses any gas
up to the step's ceiling and any node view for each of its reads; a node's
pending count lags by being any earlier value (`Counts`).  Token amounts and
prices only decide whether a step fails, which `Fail` always allows.

`TornConfirm` (may the process die between `confirmed()`'s saves) and `Reorgs`
(may unconfirmed blocks be reorganised) are constants so that other properties
can be checked with and without them.  Both can happen; section 5 says which
property fails with which.  The passing runs set `TornConfirm = FALSE`;
`MCFundingTorn.cfg` sets it.

### LegacyDriver

The Ethereum part of a job accepted before fee plan v2: `advanceEth`,
`onEthConfirmed`, `failOrRecover`, `resume`, `reset`, with the fee of
`tools/eth/fees.js`.  `tick` and `retry` are the two handlers between their
awaits, `bal` and `was` the deposit address as it is and as a lagging node
reads it, `allow` the approvals, `pool` and `mined` Ethereum, `vaa` the Wormhole
transfer, `faults` the faults so far.  `Visit` starts the handler, `SaveSent` is its save
after the send, `Dies` the crash before it, `Recovers` what `failOrRecover` does with the
balances, `Resume`/`Retried` the two halves of `resume`.  Swaps are 1:1, the
address's own gas is not followed, logs give exact amounts.

### SolanaLeg

`job`, the tick's handler (`tick`) and Retry (`retry`) between their awaits; and
Solana: `pool`, `lapsed` blockhashes, `landed` transactions, each with the tokens
after it, tokens that were there before (`left`), transfers the guardians signed (`vaa`).  Every read of a
node is a step, and one node may lag by one transaction.  A job of an earlier release
sends first and looks for the money when it fails or is retried (`reconcileSol`);
a v2 job journals its signature.  A Retry pressed while the job looks stalled may
come at any time.  The swap buys one unit; delivery on Ethereum by a third party
is outside the leg.  A job of an earlier release whose transfer has no signature on
record asks a node for nothing, which fails (`NothingToAsk`).

### Landing

| Variable | In the code |
|---|---|
| `job`, `lastId` | the account's job: the deposit it brought to Koinos and its status |
| `driver` | the tick's handler (`BUSY`): where it awaits, and the job it read |
| `readers` | `prepareTapOps` calls awaiting, with the job they read |
| `refs` | `PREPARED` transactions nobody has submitted |
| `queue` | the transaction `queueTx` is waiting for and what became of it |
| `pool`, `landed` | Koinos: pending and successful transactions |

A deposit's `kind` says who may claim it, as sealed into the guardians' record.
`Tick` starts a handler; `PollReady`, `PollNotReady`, `RedeemChecked`,
`RedeemTurnedDown`, `RedeemSend`, `RedeemReply`, `TickFails` are what it does
after its awaits.  `PrepareTap`/`Prepared`/`PrepareFails` are the halves of
`prepareTapOps`; `Submit` is `api.submit` from the moment the queue is free,
`TapReply` its reply with `onTapDone`.  A reply with no result (`"none"`) is the
90 s timeout or a node that never took the transaction.  Ethereum is one step
(`Deposited`); two transactions of one step and signer for one deposit are one
element of `pool`.  Redemption by a third party is not modelled.

### Trade

`trade` and `past` are `S.store.trades` and the history; `conv` is the account's
conversion as `buyBusy` sees it; `intents`, `op`, `taps`, `queue` are memory: the
reviews waiting for a proof, the operation that holds the account's lock, the
prepared taps and the one in `queueTx`.  Koinos (`kpool`, `kchain`, `kfinal`) and
Ethereum (`pool`, `chain`, `deep`) each have a mempool, a chain and its
irreversible part.  `Approve` (review, proof, refusal) and `Advance` (the timer's
step) read and decide under the lock, `Commit` saves; `Tap` is the passkey's path through
`prepareTap`, the queue and `beforeKoinBroadcast`, which takes no lock; `Convert`
is the conversion of the same wallet; `Settling` and `Faults` are the chains and
the process.  Nodes know all transactions with three confirmations; quotes and limits
only decide whether a step fails.

### Sends

`ui` is the form of each person, `told` the answers they got, `known` prepared
transactions and references, `work` the handlers of `/submit`, `line` each host's
queue, `held` the credentials the account store lists; `pool` and `blocks` are
Koinos.  KOIN transfers and credentials go to the account backend, added tokens to
the Vault host.  `Checks`, `Send`, `Polls`, `Refuses`, `TimesOut` are the handler from
the reference check to `waitMined`; `LosesAnswer` is the proxy or the forwarding
worker giving up.  The nonce a form is prepared with may or may not count pending
transactions.  A node may take a transaction and say at once that it reverts, which
`sendTolerant` believes: the form is told so (`foretold`), and the transaction waits on.

`Reorg` takes the block of an account's last transaction off the canonical chain, at
any time: before a handler's poll, after its answer, several in a row.  The
transaction waits again or is forgotten.  `waitMined` answers from the canonical block
it sees and does not wait for irreversibility, so no answer can be a promise for ever;
`recalled` remembers the transactions whose block was taken back after an answer or
the account store relied on it, and the properties say what holds short of that.

### WalletWorker and OneLedger

`at` says where each process is in `step()` and `lockDataDirectory()`, `saw` the lock
as it saw it, `listener` who is bound to the private endpoints, `lock` and
`record` the lock file and the owner record, `disk` and `mem` the ledger and
each process's copy, `req` the requests: which process has one, what it came through,
what was told of it.  Every file-system call is
a step; a process may be killed at each; process ids and inodes are used again.
`unix` is who can use an abstract socket: the rest use a TCP port, and a process
of one release finds the other's listener through its alias.  `stolen` remembers
that a lock was removed whose owner was alive.

A request is handled in steps of its own: `Send` (or `Arrive`) hands it to a handler,
`Finishes` is the handler's save after its awaits, `Reply` its reply.  In between the
relay may give up after its 65 seconds or the client may leave (`GivesUp`), or a
process on the way may die (`Broken`): the sender's answer is lost, the handler goes on.

`OneLedger` is what a client may rely on: an effect is applied at most once, either
before the answer or, when the answer was lost, possibly after it; success is told of
what is in the ledger, and what was refused is never applied.  `WalletWorker` implements
it: `Ledger == INSTANCE OneLedger WITH` the effects on disk, the answers and
`stolen` as `split`, after which nothing is promised; `IsOneLedger` is that
specification as a property, and a theorem (section 6).

### DappRelay

`sess`, `req`, `prep`, `locked` are the relay's maps; `conn` and `call` are
`dappConnect` and `dappApprove` calls between awaits, `line` the queue of broadcasts;
`spent` is the budget file, `hist` each account's transactions with whether its
code is standard after them, `view` what the node in use has applied, `sends` a
ghost count.  A failover may answer from behind; it does so only outside the
pair of reads that `dapp-policy.js` brackets with the account's nonce.  The day's
rollover is not modelled; the site's and the global bucket are charged in the
same step as the account's; the launch's own transaction is not followed further;
sponsor capacity, which the code itself only estimates, is not bounded.

### SmartAccount

`mem` and `disk` are the account store, `boot` each account's `runBootstrap`,
`resume` what `reconcile()` has left, `reg` credential registrations; `world` is
the chain (contract, modules, credential index), `past` the chain one block ago,
`flight` and `done` the transactions.  Every chain read and send is a step; what
was sent may be included after the run gave it up.  The sign module's `register`
and the authorize override are what its contract does.

### FundPage

`page` is the state of the two scripts: flags (`busy`, `working`), the poll's
timer, cards, dialog, prices and `calls`, every fetch or timer in flight.  The
scripts recognise a late answer by a counter copied at the call; `void` is what that
comparison will say, and a void call that releases no flag is forgotten.  `job`
and `spend` are the server's side, where one job stands for the conversion or
trade of an account.  The server may refuse anything.  The initial state is the
page after its first status, with a card open; the account is taken to be active,
the review dialog to be modal, and its address and amount are one value.
`trade.js`'s `refreshWorking` is left out, and a re-quote's button is released
with the answer.

## 3. Runs

| Run | Shows | Instance |
|---|---|---|
| `one_job` | `WriteAhead`, `SpendOnce`, `LedgerMatchesChain`, `TailAfterRepayment`, `LandingHasDeposit`, `NothingForgotten`, `WithinPlan` | 1 account, 1 conversion; 6 plans: a sponsored USDT one with top-up, purchase and repayment, a free and a paying USDC one, ETH by two routes (one with leftover allowances), SOL; 1 revert, reorganisations, drops, crashes, Retry, 1 re-quote |
| `shared` | `NonceUnique`, `FloorRespected`, `JournalSettles` | 2 accounts, a sponsored USDT and a SOL plan, one sponsor; start 4, floor 2, outstanding limit 3: both limits refuse a second loan |
| `legacy` | `KeepsTransfer`, `SpentOnce`, `Settles` | 6 deposits an earlier release may have left, of every asset and route; 2 faults of any kinds |
| `sol` | `SwappedOnce`, `LeftoverKept`, `SolSettles` | a v2 job with and without tokens left at the address: 7 signatures, 4 of which lapse (the code gives up after 3 re-sends); a job of an earlier release: 3 signatures, 1 of which lapses; 1 failure, 1 lagging read |
| `landing` | `SaidLandedHasLanded`, `LandsUnattended` | 2 conversions in a row, both routes, deposits the sponsor may claim; 1 conversion on route C of any kind |
| `trade` | `OneUserOfWallet`, `MovesOnce`, `GasBookedOnce`, `TradeSettles` | 1 sale by either route or a withdrawal, 1 conversion, 1 revert, 1 other Koinos transaction, 1 signature renewal |
| `sends` | `AnswersAreTrue`, `PaidOnce`, `Answered` | a KOIN form (sent off twice), an added token of the same account, a credential of another; 2 faults, reorganisations included |
| `worker` | `ElectionGuardsLock`, `IsOneLedger`, `WriterReturns` | 2 processes, 3 starts, 2 pids, 2 inodes, 1 request that senders may give up at any point |
| `dapp` | `OneAtATime`, `HandledOnce`, `SponsoredWithinBudget`, `SponsoredOnStandard` | 2 sessions, 2 wallets, 2 requests, 2 calls, 1 other transaction, 1 fault; symmetric |
| `account` | `KeyKept`, `GovernedByPasskey`, `ActiveIsLive`, `Heals` | 1 account, 2 credentials, 4 faults |
| `page` | `PricesTheBox`, `ReviewIsShown`, `NeverStuck`, `OnlyForward` | 2 wallets, 2 assets, 2 amounts, 2 calls in flight when the person acts, 3 acts, 1 move of a job, 1 event |
| `sol_retry` | `RetryResumes` is violated | one v2 job, one failed transaction |

*Bounds.*  Every unit of gas is one, so one revert uses up a plan's only slack
(the unit kept for a signature renewal) and the budget guards decide what
follows; recovery quotes offer three units so that a re-quoted conversion can
continue.  Jobs of two accounts meet only in the float and the nonces, and a job
in `past` takes part in both, so one conversion each suffices; `Parked` stops
them once they have repaid, as nothing later touches the sponsor.  Two conversions
suffice in `Landing` since a late reply meets one successor.  `MCTrade` and
`MCLanding` cut their instance by a constraint on steps, stated in the module:
a sale on route B meets either lapsed signatures or another transaction, on route
C, six transactions longer, an approval to be given again before anything reverted.
In `SolanaLeg` an
earlier job may sign its swap, its transfer and one of them again; `SolSettles` accepts,
besides the ends it names, only a leg that asks for one signature more than the instance
has (`Stopped`), so that all it does with what it signed is followed to its end.  It
starts without leftovers, which it would bridge like its own, and which make its
instance too large for a run.
In `Sends` two sends of one account share a queue and a nonce
sequence, which is where sends meet.  In `worker` a third start is what makes a
killed owner, its successor and a reused id possible.  In `page` three acts put
two calls in flight and leave the place they were made for.

*Symmetry* is used where only safety is checked and the permuted values enter
alike (`dapp`, `MCFundingReserveReorg.cfg`).

*Deadlock* is checked where the system runs on: `one_job`, `shared`, `landing`
and `trade`.  Elsewhere the instance may come to rest: the leg or the job ends,
forms have been answered, starts, inputs or faults are used up.

*Kept, but in no run.*  To keep the runs apart and short, some statements hold in
these instances but are checked only when added to a `.cfg`: the `TypeOK`s,
`OutstandingBounded` (`FundingV2`), `NothingLoose` and `CancelledMovedNothing`
(`Trade`), `LiveJobKept` (`Landing`) and `OneWriter` (`WalletWorker`, which excepts a
stolen lock), which are theorems too (section 6).  Others are violated and belong to section 5: `ResetIsFinal`,
`Lands`, `SaleCanBeFinished`, `ConflictIsReal`, `AnswersStand`, `EarlierEnds` and
`NothingOfAnother` (a theorem when a sign-out waits for the calls in flight), each with
a `.cfg` of its own, and `SnagIsRetried`, with `MCAccount.cfg`.

## 4. Fairness

* `FundingV2`: the operation in the queue ends; a broadcast, a confirmation and a
  Retry that are possible again and again happen; so does the mining of what is
  broadcast again and again; blocks get buried.  That is the 4 s timer
  (funding.js:254-257), which visits every account and repeats a failed read.
  Retry is the user's button, and it *is* needed: a failed job's transaction is
  not looked at until then (funding.js:895), and the nonce it holds keeps other
  accounts' sponsored transactions waiting.  Strong, because a crash or a failed
  tick disables a handler for a while.
* `Landing` adds that the guardians sign, that a transaction sent again and again
  is once accepted, mined and seen within the wait, and that the user answers
  taps.  `LandsUnattended` asks the user only for Retry.
* `Trade`, `SolanaLeg`: from some moment on there are no more faults
  (failed reads, crashes, lost blocks); then timer, queue and chains go on and the
  user answers a failure with Retry.  Without that moment no bounded number of
  retries would ever be enough.  In `LegacyDriver` and `Sends` faults are bounded
  and a step counts for fairness only when it is not one.
* `WalletWorker`: hosting restarts its processes, timers and the operating system run
  them.  Weak for a process's own next step; strong for binding the listener, which
  other processes take away.
* `SmartAccount`: sent transactions are included, a run goes on, a booted process
  reaches each account.  Nobody has to call the API again.
* `DappRelay`, `FundPage`: safety only.  In place of liveness `NeverStuck` says
  that for whatever disables the page a call is in flight that releases it.

## 5. Findings

Statements of the repository that the code does not keep; the quotes are in
`PROJECT.json`.

* *Torn settlement* (`funding-v2.js:501`, `MCFundingTorn.cfg`): after a crash
  between the two saves of a reverted settlement the restarted driver treats it
  as paid.  Nothing else violates `TailAfterRepayment` (`one_job`).
* *Reset undone* (`funding-v2.js:329`, `MCFundingReset.cfg`): a reset during the
  approval of a recovery quote is undone by the approval's save.
* *Unconfirmed income* (`funding-v2.js:104`, `MCFundingReserveReorg.cfg`):
  admission lends income that a reorganisation may take back.  Without
  reorganisations the reserve holds (`shared`).
* *Lost tap* (`server.js:865`, `MCLandingLost.cfg`): a KoinDX swap whose reply is
  lost is never discovered.
* *Late reply* (`funding.js:1573`, `MCLandingLate.cfg`): a reply finishes whatever
  conversion the account has.  It takes a passkey redeem prepared before the bridge
  asked for fresh signatures, submitted while the sponsor's own attempt is queued;
  for deposits the sponsor may claim (`landing`) it cannot happen.
* *Failed Solana signature* (`funding.js:1234`, run `sol_retry`): a v2 job keeps
  the signature of a transaction that failed on chain, and every Retry fails
  on it.  A v2 job also stays behind for an operator after four lapsed signatures,
  and when its transfer landed between the reads of `funding.js:1236` and `:1242`.
  With a node that is behind, a deposit may be swapped twice: `SwappedOnce` holds
  for v2 jobs while no node lags, and earlier jobs ask the chain instead of a journal.
* *Previous account's status* (`fund.js:225`, `MCPageSignOut.cfg`): `act`,
  `land` and the recovery review compare no session after their awaits, so a
  sign-out meanwhile shows the previous account's status.  `LeaveAnyTime = FALSE`
  keeps such sign-outs out of `page`.
* *Price with a maximum*: prices that came with a status may be for a maximum that a
  deposit raised before the box was filled; `PricesTheBox` allows it.
* *Stuck sale* (`trade.js:186`, `MCTradeStuck.cfg`): a sale journaled before the
  node had it, whose nonce another transaction took, can be neither cancelled nor
  retried.  `TradeSettles` excepts it, and a used-up gas budget, which the
  documents leave to the operator.
* *Conflict that is none* (`chain.js:609`, `MCAccountConflict.cfg`): set-up that is
  applied between two reads is reported as another passkey's account.
  `SnagIsRetried` fails too: the page says "Setup hit a snag - retrying"
  (`app.js:176`), but only the next sign-in, API call or restart retries.
* *Two transports, one lock* (`funding.js:206`): a Unix and a TCP owner at once may
  steal a live lock; with one transport they cannot (`ElectionGuardsLock`).  A TCP
  owner kept waiting by the other's lock answers 503.
* *Answer lost to the page* (`wallet-backend.js:54`): proxy and forwarder give up
  before `waitMined`; the form then pays twice if it is sent again.  `PaidOnce` excepts it.
* *Forecast believed* (`chain.js:215`, `MCSendsForecast.cfg`): a node takes a
  transaction and says that it reverts; `sendTolerant` reports a failure, the form stays
  filled in, and the transaction may still be included and succeed.  `PaidOnce` excepts it.
* *Earlier jobs* (`funding.js:828`): `KeepsTransfer`, `SpentOnce` and `Settles`
  hold except after four faults that make the driver forget a transaction's hash:
  the reply of a send, or the save after it, is lost (`lost`); a receipt
  cannot be read for a reason the code does not know (`unread`); Retry of a step that merely looks stalled
  (`stalled`, the finding at `bridge_token`); Retry between two awaits of the timer
  (`overlap`).
* *Lost transfer of an earlier job* (`funding.js:948`, `MCSolEarlier.cfg`): a Retry of a
  job that looks stalled saves a new record while `failOrRecover` asks the chain about
  the one before; what it finds is put into the new one.  With a node that is behind, the
  job then waits for a message without the signature of its transfer, and no Retry
  gets it further.  `SolSettles` excepts such a record (`Unrecorded`).

What the chain itself may undo is no finding: an answer read from a block that a
later reorganisation takes back (`chain.js:244`) is out of `AnswersAreTrue` and
`PaidOnce`, as the repository promises a receipt "on the current chain" (README.md:130).

Findings without a run in `PROJECT.json` are shown by the named `.cfg`:
`tlc -config <file>.cfg <MC module>`.

## 6. Proofs

With TLAPS, for every value of the constants.  The only assumptions are the
`ASSUME`s of the models: plans are what `makePlan` returns in shape
(`PlansAreWellFormed`), the sponsor is not an account, limits and bounds are natural
numbers, `None` is nobody, no request is called `"job"`, and a deposit an earlier release left
is at a step of its own transaction, with no transfer under way (`DepositsAreLeft`).  The theorems of
`Landing` have a hypothesis, `Relayed`: every deposit is one the sponsor may claim.
Those of `FundPage` have `Apart`: there is an account, `None` is none, and `None` is no
panel; `PricesHold` and `OwnHolds` also ask that a sign-out waits for the calls that
check no session (`~LeaveAnyTime`), without which they are false (section 5).
Each theorem follows from an inductive invariant, whose parts TLC checked on small
instances before they were proved.

| Module | Invariant | Theorems, and the property each states |
|---|---|---|
| `FundingV2Proofs` | `TypeInv` | `TypeCorrect` (`TypeOK`) |
| | `JournalInv` | `NothingUnjournaled` (`WriteAhead`), `NoNonceReused` (`NonceUnique`), `NothingIsForgotten` (`NothingForgotten`) |
| | `SettlementInv` | `MoneyMovesOnce` (`SpendOnce`), `RepaidBeforeTail` (`TailAfterRepayment`), `DepositBeforeLanding` (`LandingHasDeposit`) |
| | `LimitInv` | `CeilingsHold` (`WithinPlan`) |
| | `BooksInv` | `BooksAreTrue` (`LedgerMatchesChain`) |
| | `ReserveInv` | `FloorHolds` (`FloorRespected`), `OutstandingIsBounded` |
| `TradeProofs` | `TradeInv` | `OneUserAtATime` (`OneUserOfWallet`), `MovedOnce` (`MovesOnce`), `GasWithinApproval` (`GasBookedOnce`), `NothingIsLoose`, `CancelledStaysUnmoved` |
| `DappRelayProofs` | `RelayInv` | `OneRequestAtATime` (`OneAtATime`), `SubmittedOnce` (`HandledOnce`), `SponsorWithinBudget` (`SponsoredWithinBudget`), `SponsorOnStandardCode` (`SponsoredOnStandard`) |
| `SmartAccountProofs` | `AccountInv` | `TypeCorrect` (`TypeOK`), `KeyIsKept` (`KeyKept`), `PasskeyGoverns` (`GovernedByPasskey`), `ActiveAccountsLive` (`ActiveIsLive`) |
| `ServerProofs` | `WorkerInv` | `LiveLockStays` (`ElectionGuardsLock`), `ImplementsLedger` (`IsOneLedger`), `OneWriterHolds` (`OneWriter`), `AnswersTruthful` |
| | | `LedgerTruthful` (`Truthful` of `OneLedger`) |
| | `LegacyInv` | `TransferKept` (`KeepsTransfer`) |
| `LandingProofs` | `LandingInv` | `SaidLandedHolds` (`SaidLandedHasLanded`), `LiveJobStays` (`LiveJobKept`) |
| `BrowserProofs` | `PageInv` | `PricesHold` (`PricesTheBox`), `ReviewHolds` (`ReviewIsShown`), `StuckNever` (`NeverStuck`), `OwnHolds` (`NothingOfAnother`), `ForwardHolds` (`OnlyForward`) |
| | `SendsInv` | `AnswersTrue` (`AnswersAreTrue`), `PaysOnce` (`PaidOnce`) |
| `SolanaProofs` | `SolInv` | `SwapsOnce` (`SwappedOnce`), `LeftoverStays` (`LeftoverKept`) |

`JournalHolds`, `SettlementHolds`, `BooksHold`, `ReserveHolds`, `TradeHolds`,
`RelayHolds`, `AccountHolds`, `WorkerHolds`, `LegacyHolds`, `LandingHolds`, `PageHolds`,
`SendsHold` and `SolHolds` state the invariants themselves.  `BrowserProofs` extends both
modules the browser has a part in, and `ServerProofs` both about the wallet's process, for
which the names of `FundPage` and `LegacyDriver` are their own (`PageInit`, `PageNext`,
`PageSpec`; `LegacyInit`, `LegacyNext`, `LegacySpec`).

* *Types of a conversion.*  `TypeOK` is not inductive: `Retry` restores `failedAt`,
  and it has to be known that a failed job's `failedAt` is a working status, and that
  a plan with a recovery purchase has steps to begin with.  `TypeInv` adds both for
  every job in the ledger, the queue and the offers.
* *Journal.*  Each current job is its account's only one and no id occurs twice
  (`Identity`); a job waits for at most one transaction, of its own id, and outside
  Ethereum states for none (*tidy*); an operation in the queue extends the current
  record of its job, and its nonce is above every journaled one (`HeldKnown`).  The
  argument turns on `EvolveKeeps`: a save that keeps the id and every transaction of
  the record it replaces preserves the journal.  `Send` adds a transaction whose
  nonce exceeds all journaled ones; `Broadcast` only puts journaled transactions on
  the network; nothing else creates one.  `TornConfirm` and `Reorgs` are either way.
* *Settlement.*  Every step has a rank.  What succeeded is behind the job, or is the
  confirmed receipt that `finish()` will put behind it, and a job never goes back
  (`Behind`); only steps before the settlement cost the sponsor money, and the
  settlement in flight repays all of it (`Priced`, `Ordered`); a receipt is of a
  transaction that is deep enough to stay (`Backed`); a wallet's transactions are
  executed in the order of their nonces (`ChainOrdered`), so that a second success of
  a step would have to be signed after the first was read.  `SpendOnce` holds in any
  case.  The two others assume `~TornConfirm`, the hypothesis of their theorems: with a
  crash between the two saves they are false, which is the first finding of section 5.
* *Ceilings.*  On top of it a mined transaction costs no more than its ceiling
  (`GasLimited`), and what an operation in the queue is about to save is within the
  plan it was checked against; a re-quote replaces plan and totals together.
* *Books.*  A record's totals are the sums over the places of its receipts in the
  chain (`Booked`).  Those places are final, a signed transaction has no receipt, and
  no transaction is on the chain twice, so a receipt adds its entry to the sums
  once and nothing else moves them.  A sum is a fold over a set, and the library's
  induction theorems cannot be used; the lemmas about sums (adding an element,
  splitting, bounding, a sum of sums) are proved from a smallest subset on which
  the statement would fail.
* *Reserve.*  What a record has drawn from the sponsor and what it may still draw make
  up its draw, which no step of its job makes larger (`Spares`): a receipt turns one
  into the other.  `ReserveInv` says that what the sponsor started with and was paid
  covers the reserve and the draws of all records, with the operation in the queue
  saved or not (`Backs`).  A new commitment is admitted on a view that has every
  sponsor receipt of the ledger, hence deducts all that the records have spent
  (`ViewCovers`); income it has not seen only helps.  The chain has cost the sponsor no
  more than the draws (`RecordsCover`).  `FloorHolds` assumes `~Reorgs`, as a
  reorganisation may take back income that was lent (section 5), and that the
  sponsor's wallet starts above its reserve, without which it is below it at the
  start; `OutstandingIsBounded` needs neither.
* *Trades.*  What may still take effect on either chain is journaled in the current
  trade (`Held`); what succeeded and is journaled no more is behind the trade
  (`Passed`); a transaction stands at the place its nonce says, so one that settled
  is alone there (`Placed`); gas counts settled transactions that have left the
  journal (`Booked`); a sale that may be cancelled has sent nothing (`Untouched`); and
  what is to be saved under the lock fits the trade as it is then, though taps do not
  take the lock (`Saving`).  Crashes, reorganisations above the final block, drops,
  reverts and the conversion of the same wallet are all steps of this `Spec`.
* *Dapps.*  Whatever occupies an account, except a request waiting for its passkey,
  holds its lock, and nothing else occupies it (`Exclusive`); a request is sent by the
  last await of the one call that submits it (`Submitted`); every request that was or
  will be co-signed is covered by the budget file (`Budgeted`); the two reads of the
  account's nonce pin the read of its code to the place the transaction will have
  (`Bracket`).
* *Accounts.*  The chain only grows, and no passkey changes hands, because the index
  names nobody but the account the store or a registration has for it (`Known`); the
  setup a run waits for, and any in flight, completes modules and passkey together
  (`Completes`), so the validator never governs alone (`Governed`); a run is told of
  a success only after its effect (`Awaited`).  `Lag` is either way.  `ActiveIsLive`
  survives a recheck of a lost setup on a stale node since nothing is uninstalled.
* *Worker.*  Only the process bound to its endpoint goes for the lock (`Elected`), so
  with one transport whoever is at the unlink is the only process past standby, and no
  holder is left to steal from.  Until a live lock is stolen the holder is unique and
  its lock file exists (`Locked`), so a second exclusive create fails; hence the
  writer's copy is the ledger on disk (`Fresh`) and every save adds to it (`Served`).
* *Refinement.*  `ImplementsLedger` maps each step: the writer's save of a request is
  the ledger's `Apply`, also when the sender was told before that its answer is lost; an
  answer is its `Tell`, a relay that gives up or dies its `Lose`, the removal of a live
  lock its `Split`, and elections, checks of the lock and connects are stutters.  `WorkerInv`
  supplies what the ledger's guards ask.  With `LedgerTruthful`, which is about
  `OneLedger` alone, `AnswersTruthful` follows: until a live lock is removed, an
  answered request was applied once, a refused one never and any other at most once.
* *Landing.*  With deposits the sponsor may claim, the handler's snapshot is still the
  account's job when it saves it (`DriverCurrent`), a result in the queue that a
  handler waits for is of that handler's own redeem (`QueueSound`), and a passkey's
  swap is of a deposit whose job still waits for it or that is swapped already
  (`SwapIsDue`): a late reply can then only repeat what is so.  With other deposits
  both theorems are false, which is a finding of section 5.
* *Sends.*  A try of a form has one transaction (`OneOfTry`), which one handler sends
  once and which is at most once on the canonical chain (`SentOnce`); "sent" is said
  of what is on that chain and did not revert, "failed" of what cannot be included any
  more, or the block that said so is in `recalled` (`Truth`).  Of a form whose answers
  are all closed (not `Open`: lost, forecast or recalled) everything alive is of the
  latest try, and what the page shows says how far that came (`LatestOnly`): a new try
  starts with nothing alive.  Alive is also what is on the chain and reverted while
  nobody was told: a reorganisation may make that transaction wait again, and it then is
  still of the latest try.  The taking back of a block is a step of this `Spec` like any
  other (`ReorgKeeps`).
* *Page.*  Every handler ends in `render()`, whose parts are operators from page to page;
  the lemmas say of each what it keeps.  A reply that will be heeded was asked for by the
  wallet, the asset and the amount that are on screen now (`Heard`, `Priced`), because
  whatever changes one of them voids the calls that priced it.  A review that may still
  come is of the fields as they stand (`Reviews`).  A flag is set only by a call that
  still releases it (`Flags`), and the poll's timer or a status that counts is always
  there (`Polls`).  A status that is not void is no older than the one shown, as the
  server's job only moves on (`Forwards`).  TLC checked `PageInv` with and without
  `LeaveAnyTime`.
* *Solana.*  A job of an earlier release stays one, and neither property speaks of it.
  The handler of a v2 job works on the job as it is (`TickSound`), because its Retry is
  one save of a failed job.  Only the journaled transaction can land, and once, until
  its blockhash is seen to have lapsed (`ChainSound`).  Before anything is bridged the
  tokens at the address are what was left there and what the swaps bought, and `before`
  is what was left (`SwapStage`): with no stale answer a second swap is signed only
  when nothing was bought (`Once`).  A transfer takes no more than was bought, and one
  that the job overlooked stays overlooked (`Keeps`), which is the exception that
  `LeftoverKept` names.

* *Earlier jobs.*  Transactions have numbers of their own, and one is waiting or mined,
  once (`Numbered`), so one that reverted or that no node knows has no effect any more.
  Until a hash is forgotten, the timer's handler works on the job as it is
  (`TickKnows`), Retry begins only where nothing that may take the money is pending, and
  excludes the timer (`RetryKnows`), and a job's record says which step its pending
  transaction is of (`Good`).  So a save that drops a hash drops one that does
  not hand the money over, or moves it to `bridge`, where it stays: a job with a
  transfer under way has no step on Ethereum left, and Retry and reset leave it alone.  The four faults of section 5 are the steps that break
  `TickKnows` or `RetryKnows`; no other does.

Model-checked only: liveness and fairness, which are out of TLAPS' reach; `FundingPlan`,
whose operators are checked through the plans they give; and `SpentOnce` of
`LegacyDriver`, which is also about amounts: that a step finds nothing left to pay
twice with depends on which tokens each deposit has, and those are given by the run.

## 7. What is not modelled

* The demo simulator, key handling, prices, calldata, wording and layout.
* A save that fails: `saveJob` changes memory first, so after a full disk memory is
  ahead of the file.  All modules take a save as atomic and durable.
* Token amounts of a v2 conversion: an output below `koinOutMin` is just a step
  that fails.
* Nodes that invent data; reorganisations deeper than the configured
  confirmations or below Koinos' irreversible block, which the repository excludes
  as well.
* Static files, health pages, rate limits and header authentication of the
  server; endpoint rotation of the RPC client beyond its effect.
* In the browser: receiving, portfolio, passkey management, dapp dialogs.
* `PROJECT.json` gives the reason for every other part.

## 8. Plan

1. Done: the modules of section 2, their runs, and the proofs of section 6.
2. Proofs: `SpentOnce` of `LegacyDriver`, with its amounts.
3. Memory and file apart, with saves that fail, composed with a small journal.
4. Abstract specifications: a journal that signs, publishes and remembers, which
   `FundingV2` implements; a loan that is opened, repaid and closed.
5. Amounts delivered by a swap, and the last step's check of them.
