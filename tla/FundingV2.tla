------------------------------ MODULE FundingV2 ------------------------------
(***************************************************************************)
(* The fee-plan-v2 conversion pipeline: tools/eth/funding-v2.js driven by  *)
(* the ticks, taps and API calls of tools/funding.js, over an Ethereum     *)
(* chain that loses, delays, reverts and reorganises transactions and a    *)
(* server process that may be killed at any moment.                        *)
(*                                                                         *)
(* Durable state is the ledger file (jobs, past); the promise queue that   *)
(* serialises v2 operations (held) and the recovery quotes (offers) are    *)
(* memory and vanish in a crash.  An operation of the queue that reads the *)
(* chain, awaits, and then saves takes two steps: what it has read and     *)
(* decided is in held, its save is a second action, and everything the     *)
(* queue does not serialise may happen between.                            *)
(***************************************************************************)
EXTENDS GasAccounting, Sequences, FiniteSets

CONSTANTS
  Accounts,      \* wallet accounts; each has one transit wallet
  Sponsor,       \* the gas sponsor's wallet, shared by every job
  Plans,         \* the fee plans quote() can offer
  Cfg,           \* [maxJob, maxOutstanding, floor]: gas-accounting config()
  SponsorStart,  \* the sponsor's balance when the ledger starts
  TornConfirm,   \* may the process die between confirmed()'s two saves?
  Reorgs,        \* may unconfirmed blocks be reorganised?
  Parked,        \* bound: statuses this instance does not drive further
  MaxJobs,       \* bound: conversions started
  MaxReverts,    \* bound: transactions that revert when mined
  RequoteGas,    \* what a recovery quote may price the remaining gas at
  MaxRevisions   \* bound: recovery quotes approved per job

SolSteps == {"sol_swap", "sol_bridge", "awaiting_vaa"}
PreSteps == {"gas_approve_reset", "gas_approve", "gas_buy_eth"}
TailSteps == {"approve_v3_usdc", "swap_usdc_usdt", "swap_eth_usdt",
              "approve_permit2_reset", "approve_permit2", "approve_ur",
              "swap_usdt_vkoin", "approve_bridge", "bridge_token", "deposit_eth"}
EthSteps == {"front_gas", "wh_redeem", "collect_fee", "request_signatures"}
              \cup PreSteps \cup TailSteps
LandSteps == {"awaiting_signatures", "awaiting_redeem", "awaiting_swap"}
Status == SolSteps \cup EthSteps \cup LandSteps \cup {"done", "error"}

\* Steps that move the user's or the sponsor's money: never to succeed twice.
SpendSteps == {"front_gas", "gas_buy_eth", "wh_redeem", "collect_fee",
               "swap_usdc_usdt", "swap_eth_usdt", "swap_usdt_vkoin",
               "bridge_token", "deposit_eth"}
BridgeSteps == {"bridge_token", "deposit_eth"}
PermitSteps == {"approve_permit2_reset", "approve_permit2", "approve_ur",
                "swap_usdt_vkoin"}

Wallets == Accounts \cup {Sponsor}

Plan == [asset : {"eth", "usdc", "usdt", "sol"}, route : {"B", "C", "D", "S", "T"},
         pre : Seq(PreSteps), tail : Seq(TailSteps), limit : [EthSteps -> Nat],
         gasMax : Nat, sponsorMax : Nat, advanceMax : Nat, service : Nat,
         riskBps : Nat, sponsoredRedeem : BOOLEAN]

\* A signed transaction.  Its hash is a function of this content, so the
\* record stands for the raw bytes, the hash and the journal entry at once.
Tx == [id : Nat, from : Wallets, nonce : Nat, step : EthSteps, sponsored : BOOLEAN,
       value : Nat, advance : Nat, recovered : Nat, maxGas : Nat]
Receipt == [tx : Tx, ok : BOOLEAN]

Job == [id : Nat, acct : Accounts, plan : Plan,
        status : Status, failedAt : Status \cup {"none"},
        pending : SUBSET Tx, confirmed : SUBSET Receipt, receipts : SUBSET Receipt,
        gasPaid : Nat, spent : Nat, recovered : Nat,
        settled : BOOLEAN, released : BOOLEAN,
        pendingSig : BOOLEAN, solSwapSig : BOOLEAN, needsTap : BOOLEAN, revision : Nat]

\* What makePlan guarantees of the steps it lists.
WellFormed(p) ==
  /\ p \in Plan
  /\ p.tail # << >>
  /\ p.advanceMax > 0 => p.pre # << >>

ASSUME PlansAreWellFormed == \A p \in Plans : WellFormed(p)
ASSUME SponsorIsNoAccount == Sponsor \notin Accounts
ASSUME BoundsAreNumbers   ==
  /\ MaxJobs \in Nat
  /\ MaxRevisions \in Nat
  /\ MaxReverts \in Nat
  /\ RequoteGas \subseteq Nat
ASSUME CfgIsNumbers ==
  /\ Cfg \in [maxJob : Nat, maxOutstanding : Nat, floor : Nat]
  /\ SponsorStart \in Nat

VARIABLES
  jobs,     \* S.store.jobs: the current job of each account that has one
  past,     \* S.store.history of jobs that are no longer current
  held,     \* the operation in the promise queue that has read but not saved
  offers,   \* recoveryQuotes: job snapshots a live recovery quote is bound to
  lastId,   \* ids issued so far (crypto.randomUUID)
  mempool,  \* transactions some node may still mine
  chain,    \* mined transactions [tx, ok, gas], oldest first
  deep      \* how many of them have the configured confirmations

ledger == <<jobs, past, lastId>>
network == <<mempool, chain, deep>>
vars == <<jobs, past, held, offers, lastId, mempool, chain, deep>>

Records == jobs \cup past
Mined == {chain[i].tx : i \in 1..Len(chain)}

\* The transactions a ledger record remembers: its journal and its receipts.
TxsOf(j) == j.pending \cup {r.tx : r \in j.receipts}
Journaled == UNION {TxsOf(j) : j \in Records}

\* Where a job is: a failed one is where it failed.
At(j) == IF j.status = "error" THEN j.failedAt ELSE j.status

Init ==
  /\ jobs = {} /\ past = {} /\ held = {} /\ offers = {}
  /\ lastId = 0
  /\ mempool = {} /\ chain = << >> /\ deep = 0

\* saveJob(account, k): k replaces whatever the account has, the replaced job
\* stays in the history under its own id, and the ledger file is renamed into
\* place.  Any save moves the snapshot a recovery quote was bound to.
SaveJob(k) ==
  LET prev == {j \in jobs : j.acct = k.acct}
  IN  /\ jobs' = (jobs \ prev) \cup {k}
      /\ past' = {h \in past \cup prev : h.id # k.id}
      /\ offers' = {o \in offers : o.id # k.id}

\* The promise queue is free: v2 operations run one at a time.
Unlocked == held = {}

-----------------------------------------------------------------------------
(* The sponsor's money, as a node that has seen v mined transactions tells it. *)

Flow(e) ==
  (IF e.tx.step = "collect_fee" /\ e.ok THEN e.tx.value ELSE 0)
    - (IF e.tx.from = Sponsor
       THEN e.gas + (IF e.ok THEN e.tx.value ELSE 0) ELSE 0)

SponsorBalance(v) == SponsorStart + MapThenSumSet(LAMBDA i : Flow(chain[i]), 1..v)

\* MUTANT of CurrentViews: the block number of the answering node is not compared.
AnyView == 0..Len(chain)

\* capacity() refuses a node that is behind a sponsor receipt of the ledger.
CurrentViews ==
  {v \in 0..Len(chain) :
     \A i \in 1..Len(chain) :
       /\ \E j \in Records : \E r \in j.receipts : r.tx = chain[i].tx
       /\ chain[i].tx.from = Sponsor \/ chain[i].tx.step = "collect_fee"
       => i <= v}

HasCapacity(want, others) ==
  want > 0 => \E v \in CurrentViews : Admits(SponsorBalance(v), others, want, Cfg)

Others(j) == {k \in Records : k.id # j.id}
Remaining(j) == Shortfall(j.plan.sponsorMax, j.spent)

-----------------------------------------------------------------------------
(* Starting a conversion. *)

FirstStatus(p) ==
  IF p.asset = "sol" THEN "sol_swap"
  ELSE IF p.advanceMax > 0 THEN "front_gas"
  ELSE IF p.pre # << >> THEN Head(p.pre)
  ELSE "collect_fee"

NewJob(i, a, p) ==
  [id |-> i, acct |-> a, plan |-> p, status |-> FirstStatus(p), failedAt |-> "none",
   pending |-> {}, confirmed |-> {}, receipts |-> {},
   gasPaid |-> 0, spent |-> 0, recovered |-> 0,
   settled |-> FALSE, released |-> FALSE,
   pendingSig |-> FALSE, solSwapSig |-> FALSE, needsTap |-> FALSE, revision |-> 0]

Start(a, p) ==
  /\ Unlocked
  /\ lastId < MaxJobs
  /\ \A j \in jobs : j.acct = a => j.status = "done"
  /\ HasCapacity(p.sponsorMax, Records)
  /\ held' = {[op |-> "start", new |-> NewJob(lastId + 1, a, p)]}
  /\ UNCHANGED <<ledger, offers, network>>

\* The save of the operation in the queue: the new job, the journal of a
\* signed transaction, or the approved recovery quote becomes durable.
Commit ==
  \E h \in held :
    /\ SaveJob(h.new)
    /\ held' = {}
    /\ lastId' = IF h.op = "start" THEN h.new.id ELSE lastId
    /\ UNCHANGED network

\* The operation in the queue throws before it saves; nothing became durable.
Abort ==
  /\ held # {}
  /\ held' = {}
  /\ UNCHANGED <<ledger, offers, network>>

-----------------------------------------------------------------------------
(* advance(): one step of a job's Ethereum leg. *)

\* MUTANT of Ready: a confirmed step that is not finished yet may be sent again.
ReadyToRepeat(j) ==
  /\ Unlocked
  /\ j.status \in EthSteps \ Parked
  /\ j.pending = {}
  /\ j.status \in Range(j.plan.tail) => j.settled

\* No transaction of the job is waiting for its receipt or for finish().
Ready(j) ==
  /\ Unlocked
  /\ j.status \in EthSteps \ Parked
  /\ j.pending = {} /\ j.confirmed = {}
  /\ j.status \in Range(j.plan.tail) => j.settled

\* setState(): the step is behind, and so is its transaction.
Settle(j)   == [j EXCEPT !.settled = TRUE, !.released = TRUE]
Move(j, s)  == [j EXCEPT !.status = s, !.pending = {}, !.confirmed = {}]

\* Steps whose effect the chain already shows, or that are not needed.
Skips(p) ==
  {<<"front_gas", "collect_fee">>,
   <<"gas_approve_reset", "gas_buy_eth">>, <<"gas_approve_reset", "gas_approve">>,
   <<"gas_approve", "gas_buy_eth">>, <<"wh_redeem", "collect_fee">>,
   <<"approve_v3_usdc", "swap_usdc_usdt">>,
   <<"approve_permit2_reset", "approve_ur">>, <<"approve_permit2_reset", "approve_permit2">>,
   <<"approve_permit2", "approve_ur">>, <<"approve_ur", "swap_usdt_vkoin">>,
   <<"swap_usdt_vkoin", "approve_ur">>, <<"approve_bridge", "bridge_token">>}
  \cup (IF p.pre # << >> THEN {<<"front_gas", Head(p.pre)>>} ELSE {})

\* MUTANT of Skip: nothing owed to the sponsor passes for nothing owed.
SkipServiceFee(j) ==
  /\ Ready(j)
  /\ \/ \E s \in EthSteps : <<j.status, s>> \in Skips(j.plan) /\ SaveJob(Move(j, s))
     \/ /\ j.status = "collect_fee"
        /\ j.settled \/ Debt(j) = 0
        /\ SaveJob(Move(Settle(j), Head(j.plan.tail)))
  /\ UNCHANGED <<held, lastId, network>>

Skip(j) ==
  /\ Ready(j)
  /\ \/ \E s \in EthSteps : <<j.status, s>> \in Skips(j.plan) /\ SaveJob(Move(j, s))
     \/ /\ j.status = "collect_fee"
        /\ j.settled \/ Due(j) = 0
        /\ SaveJob(Move(Settle(j), Head(j.plan.tail)))
  /\ UNCHANGED <<held, lastId, network>>

\* What the step's transaction carries: whose money, how much, repaying what.
ByUser(value, recovered) ==
  [sponsored |-> FALSE, value |-> value, advance |-> 0, recovered |-> recovered]

Terms(j) ==
  CASE j.status = "front_gas" ->
         {[sponsored |-> TRUE, value |-> a, advance |-> a, recovered |-> 0] :
            a \in {b \in 1..j.plan.advanceMax :
                     \A r \in j.receipts : r.ok => r.tx.advance = 0}}
    [] j.status = "wh_redeem" ->
         {[sponsored |-> s, value |-> 0, advance |-> 0, recovered |-> 0] :
            s \in {FALSE, j.plan.sponsoredRedeem}}
    [] j.status = "collect_fee" ->
         IF Due(j) > 0 /\ ~j.settled /\ j.spent <= j.plan.sponsorMax
         THEN {ByUser(Due(j), Debt(j))} ELSE {}
    [] OTHER -> {ByUser(0, 0)}

\* The next nonce: the node's pending count, which may lag, and one past every
\* nonce the ledger has journaled for the wallet.
Counts(w) == {0} \cup {t.nonce + 1 : t \in {u \in mempool \cup Mined : u.from = w}}
NonceFloor(w, seen) == {seen} \cup {t.nonce + 1 : t \in {u \in Journaled : u.from = w}}
\* MUTANT of IsNextNonce: the node's pending count is believed.
IsSeenNonce(n, w, seen) == n = seen

IsNextNonce(n, w, seen) ==
  n \in NonceFloor(w, seen) /\ \A m \in NonceFloor(w, seen) : m <= n

\* MUTANT of WithinBudget: the gas the job has already paid is not counted.
WithinBudgetAfresh(j, c, gas) ==
  /\ gas <= j.plan.gasMax
  /\ c.sponsored =>
       /\ c.advance + gas <= Remaining(j)
       /\ HasCapacity(Remaining(j), Others(j))
       /\ \E v \in 0..Len(chain) : SponsorBalance(v) >= c.value + gas

\* The limits a send must fit in: step gas, job gas, sponsorship, float.
WithinBudget(j, c, gas) ==
  /\ j.gasPaid + gas <= j.plan.gasMax
  /\ c.sponsored =>
       /\ c.advance + gas <= Remaining(j)
       /\ HasCapacity(Remaining(j), Others(j))
       /\ \E v \in 0..Len(chain) : SponsorBalance(v) >= c.value + gas

Send(j) ==
  /\ Ready(j)
  /\ \E c \in Terms(j), gas \in 1..j.plan.limit[j.status] :
       LET w == IF c.sponsored THEN Sponsor ELSE j.acct
       IN  /\ WithinBudget(j, c, gas)
           /\ \E seen \in Counts(w) : \E n \in NonceFloor(w, seen) :
                LET t == [id |-> j.id, from |-> w, nonce |-> n, step |-> j.status,
                          sponsored |-> c.sponsored, value |-> c.value,
                          advance |-> c.advance, recovered |-> c.recovered, maxGas |-> gas]
                IN  /\ IsNextNonce(n, w, seen)
                    /\ held' = {[op |-> "send", new |-> [j EXCEPT !.pending = {t}]]}
  /\ UNCHANGED <<ledger, offers, network>>

\* broadcast(): the journaled bytes reach a node, now or again.  A lost reply
\* changes nothing; a refusal is Fail.  "nonce too low" is swallowed.
Broadcast(j) ==
  /\ Unlocked
  /\ j.status \in EthSteps
  /\ \E t \in j.pending :
       /\ \A u \in Mined : u.from = t.from => u.nonce # t.nonce
       /\ mempool' = mempool \cup {t}
  /\ UNCHANGED <<ledger, held, offers, chain, deep>>

\* MUTANT of Recorded: a reverted transaction's gas is not booked.
RecordedOnSuccess(j, r, gas) ==
  IF r.ok
  THEN [j EXCEPT !.pending = {}, !.confirmed = {r}, !.receipts = @ \cup {r},
                 !.gasPaid = @ + gas, !.spent = @ + SpentOf(r.tx, r.ok, gas),
                 !.recovered = @ + r.tx.recovered]
  ELSE [j EXCEPT !.pending = {}, !.confirmed = {r}, !.receipts = @ \cup {r}]

\* The job after receipt r of its pending transaction, mined at a cost of gas.
Recorded(j, r, gas) ==
  [j EXCEPT !.pending = {}, !.confirmed = {r}, !.receipts = @ \cup {r},
            !.gasPaid = @ + GasOf(r.tx, r.ok, gas),
            !.spent = @ + SpentOf(r.tx, r.ok, gas),
            !.recovered = @ + RecoveredOf(r.tx, r.ok, gas)]

Reverted(j) == [j EXCEPT !.status = "error", !.failedAt = j.status, !.confirmed = {}]

\* Mined transactions with the configured confirmations.
Final == {chain[i] : i \in 1..deep}

\* confirmed(): record the receipt; a revert is an error, success is finished.
Confirm(j) ==
  /\ Unlocked
  /\ j.status \in EthSteps
  /\ \E e \in Final :
       LET k == Recorded(j, [tx |-> e.tx, ok |-> e.ok], e.gas)
       IN  /\ e.tx \in j.pending
           /\ SaveJob(IF e.ok THEN k ELSE Reverted(k))
  /\ UNCHANGED <<held, lastId, network>>

\* The process dies after the first of the two saves a revert makes.
CrashInConfirm(j) ==
  /\ TornConfirm
  /\ Unlocked
  /\ j.status \in EthSteps
  /\ \E e \in Final :
       /\ e.tx \in j.pending /\ ~e.ok
       /\ jobs' = (jobs \ {j}) \cup {Recorded(j, [tx |-> e.tx, ok |-> FALSE], e.gas)}
  /\ held' = {} /\ offers' = {}
  /\ UNCHANGED <<past, lastId, network>>

AfterStableSwap(tail) ==
  IF "approve_permit2_reset" \in Range(tail) THEN "approve_permit2_reset"
  ELSE IF "approve_permit2" \in Range(tail) THEN "approve_permit2"
  ELSE "approve_ur"

\* MUTANT of FinishTo: an approval of the bridge passes for the bridge transfer.
FinishAtApproval(s, p) ==
  CASE s = "front_gas" /\ p.pre # << >>      -> Head(p.pre)
    [] s = "gas_approve_reset"               -> "gas_approve"
    [] s = "gas_approve"                     -> "gas_buy_eth"
    [] s \in {"gas_buy_eth", "wh_redeem"}    -> "collect_fee"
    [] s = "collect_fee"                     -> Head(p.tail)
    [] s = "approve_v3_usdc"                 -> "swap_usdc_usdt"
    [] s \in {"swap_usdc_usdt", "swap_eth_usdt"} -> AfterStableSwap(p.tail)
    [] s = "approve_permit2_reset"           -> "approve_permit2"
    [] s = "approve_permit2"                 -> "approve_ur"
    [] s = "approve_ur"                      -> "swap_usdt_vkoin"
    [] s = "swap_usdt_vkoin"                 -> "approve_bridge"
    [] OTHER                                 -> "awaiting_signatures"

\* finish(): the state a confirmed step leads to.
FinishTo(s, p) ==
  CASE s = "front_gas" /\ p.pre # << >>      -> Head(p.pre)
    [] s = "gas_approve_reset"               -> "gas_approve"
    [] s = "gas_approve"                     -> "gas_buy_eth"
    [] s \in {"gas_buy_eth", "wh_redeem"}    -> "collect_fee"
    [] s = "collect_fee"                     -> Head(p.tail)
    [] s = "approve_v3_usdc"                 -> "swap_usdc_usdt"
    [] s \in {"swap_usdc_usdt", "swap_eth_usdt"} -> AfterStableSwap(p.tail)
    [] s = "approve_permit2_reset"           -> "approve_permit2"
    [] s = "approve_permit2"                 -> "approve_ur"
    [] s = "approve_ur"                      -> "swap_usdt_vkoin"
    [] s = "swap_usdt_vkoin"                 -> "approve_bridge"
    [] s = "approve_bridge"                  -> "bridge_token"
    [] OTHER                                 -> "awaiting_signatures"

Finish(j) ==
  /\ Unlocked
  /\ j.status \in EthSteps
  /\ \E r \in j.confirmed :
       LET s == r.tx.step
       IN  SaveJob(Move(IF s = "collect_fee" THEN Settle(j) ELSE j, FinishTo(s, j.plan)))
  /\ UNCHANGED <<held, lastId, network>>

-----------------------------------------------------------------------------
(* Failing, retrying, re-quoting, resetting. *)

\* The tick's step threw for good.  A transient failure only keeps a message.
Fail(j) ==
  /\ j.status \in (SolSteps \cup EthSteps \cup {"awaiting_signatures", "awaiting_redeem"}) \ Parked
  /\ j.status \in EthSteps => Unlocked
  /\ j.status = "awaiting_redeem" => ~j.needsTap
  /\ SaveJob([j EXCEPT !.status = "error", !.failedAt = j.status])
  /\ UNCHANGED <<held, lastId, network>>

\* MUTANT of Resume: Retry starts its leg clean, as the legacy driver's does.
ResumeClean(j) ==
  /\ Unlocked
  /\ j.status = "error"
  /\ SaveJob([j EXCEPT !.status = j.failedAt, !.failedAt = "none", !.pending = {}])
  /\ UNCHANGED <<held, lastId, network>>

\* MUTANT of Resume: a failed job with a transaction in flight is not retried.
ResumeSettled(j) ==
  /\ Unlocked
  /\ j.status = "error" /\ j.pending = {}
  /\ SaveJob([j EXCEPT !.status = j.failedAt, !.failedAt = "none"])
  /\ UNCHANGED <<held, lastId, network>>

Resume(j) ==
  /\ Unlocked
  /\ j.status = "error"
  /\ LET steps == {t.step : t \in j.pending} \cup {r.tx.step : r \in j.confirmed}
     IN  \E from \in IF steps # {} THEN steps ELSE {j.failedAt} :
           LET to == IF from = "awaiting_redeem" THEN "awaiting_signatures" ELSE from
           IN  SaveJob([j EXCEPT !.status = to, !.failedAt = "none",
                                 !.needsTap = IF to = "awaiting_signatures" THEN FALSE ELSE @])
  /\ UNCHANGED <<held, lastId, network>>

Bridged(j) == \E r \in j.receipts : r.tx.step \in BridgeSteps /\ r \notin j.confirmed /\ r.ok
BridgeRecovery(j) == j.plan.asset = "sol" /\ j.failedAt = "wh_redeem" /\ ~j.settled

CanRequote(j) ==
  /\ j.status = "error"
  /\ j.settled \/ BridgeRecovery(j)
  /\ j.pending = {} /\ j.confirmed = {}
  /\ ~Bridged(j)
  /\ BridgeRecovery(j) \/ j.failedAt \in PermitSteps
  /\ Debt(j) = 0

\* requote() without a quoteId: a quote bound to the job exactly as it is.
OfferQuote(j) ==
  /\ Unlocked
  /\ CanRequote(j)
  /\ j.revision < MaxRevisions
  /\ offers' = {o \in offers : o.acct # j.acct} \cup {j}
  /\ UNCHANGED <<ledger, held, network>>

\* requote() with a quoteId, up to its chain reads; Commit saves the result.
ApproveQuote(j) ==
  /\ Unlocked
  /\ CanRequote(j)
  /\ j \in offers
  /\ \E gas \in RequoteGas, redeem \in {0} \cup RequoteGas :
       LET sponsorMax == IF BridgeRecovery(j) THEN redeem ELSE j.plan.sponsorMax
           p == [j.plan EXCEPT !.gasMax = j.gasPaid + gas, !.sponsorMax = sponsorMax,
                   !.limit["wh_redeem"] = IF BridgeRecovery(j) /\ redeem > 0 THEN redeem ELSE @,
                   !.sponsoredRedeem = IF BridgeRecovery(j) THEN redeem > 0 ELSE @]
       IN  /\ redeem > 0 => BridgeRecovery(j) /\ j.plan.route = "T"
           /\ BridgeRecovery(j) => HasCapacity(sponsorMax, Others(j))
           /\ held' = {[op |-> "requote",
                        new |-> [j EXCEPT !.plan = p, !.status = j.failedAt, !.failedAt = "none",
                                          !.revision = @ + 1]]}
  /\ UNCHANGED <<ledger, offers, network>>

\* MUTANT of Reset: the job is deleted, history and all.
ResetErasing(j) ==
  /\ j.status \in {"done", "error"}
  /\ j.status = "done" \/ (~Bridged(j) /\ j.receipts = {} /\ ~j.pendingSig /\ ~j.solSwapSig)
  /\ j.pending = {} /\ j.confirmed = {} /\ Debt(j) = 0
  /\ jobs' = jobs \ {j}
  /\ offers' = {o \in offers : o.id # j.id}
  /\ UNCHANGED <<past, held, lastId, network>>

\* reset(): not serialised by the queue.  History keeps the released record.
Reset(j) ==
  /\ j.status \in {"done", "error"}
  /\ j.status = "done" \/ (~Bridged(j) /\ j.receipts = {} /\ ~j.pendingSig /\ ~j.solSwapSig)
  /\ j.pending = {} /\ j.confirmed = {} /\ Debt(j) = 0
  /\ jobs' = jobs \ {j}
  /\ past' = past \cup {[j EXCEPT !.released = TRUE]}
  /\ offers' = {o \in offers : o.id # j.id}
  /\ UNCHANGED <<held, lastId, network>>

-----------------------------------------------------------------------------
(* The Solana leg, whose chain is not modelled here, and the landing. *)

\* advanceSol(): the signed swap or bridge transfer is saved, then sent.  A swap
\* that confirmed once is not sent again.
SolSend(j) ==
  /\ j.status \in {"sol_swap", "sol_bridge"} \ Parked
  /\ ~j.pendingSig
  /\ j.status = "sol_swap" => ~j.solSwapSig /\ HasCapacity(Remaining(j), Others(j))
  /\ SaveJob([j EXCEPT !.pendingSig = TRUE])
  /\ UNCHANGED <<held, lastId, network>>

\* Its blockhash lapsed before anyone saw it: dropped, the step runs again.
SolExpire(j) ==
  /\ j.status \in {"sol_swap", "sol_bridge"} /\ j.pendingSig
  /\ SaveJob([j EXCEPT !.pendingSig = FALSE])
  /\ UNCHANGED <<held, lastId, network>>

\* It confirmed; or, with nothing pending, the bought token is there after all.
\* The guardians' VAA ends the leg.
SolNext(j) ==
  /\ j.status \notin Parked
  /\ \/ /\ j.status = "sol_swap"
        /\ j.pendingSig \/ HasCapacity(Remaining(j), Others(j))
        /\ SaveJob([j EXCEPT !.status = "sol_bridge", !.pendingSig = FALSE,
                            !.solSwapSig = @ \/ j.pendingSig])
     \/ /\ j.status = "sol_bridge" /\ j.pendingSig
        /\ SaveJob([j EXCEPT !.status = "awaiting_vaa", !.pendingSig = FALSE])
     \/ /\ j.status = "awaiting_vaa"
        /\ SaveJob([j EXCEPT !.status = "wh_redeem"])
  /\ UNCHANGED <<held, lastId, network>>

\* pollGuardians(): a full record is redeemable, an expired one is renewed.  The
\* landing's handlers save a job they read before awaiting; here each is one step.
PollGuardians(j) ==
  /\ j.status = "awaiting_signatures" /\ j.status \notin Parked
  /\ \/ SaveJob([j EXCEPT !.status = "awaiting_redeem", !.needsTap = FALSE])
     \/ SaveJob([j EXCEPT !.status = "request_signatures"])
  /\ UNCHANGED <<held, lastId, network>>

\* finishRedeem(): route B still needs the passkey's KoinDX swap.
Landed(j) == [j EXCEPT !.status = IF j.plan.route = "B" THEN "awaiting_swap" ELSE "done"]

AutoRedeem(j) ==
  /\ j.status = "awaiting_redeem" /\ j.status \notin Parked
  /\ ~j.needsTap
  /\ \/ SaveJob(Landed(j))
     \/ SaveJob([j EXCEPT !.status = "awaiting_signatures", !.needsTap = FALSE])
     \/ SaveJob([j EXCEPT !.needsTap = TRUE])
  /\ UNCHANGED <<held, lastId, network>>

\* prepareTapOps(): lapsed signatures or a lost quorum go back to polling.
PrepareTap(j) ==
  /\ j.status = "awaiting_redeem" /\ j.needsTap
  /\ \E tap \in BOOLEAN : SaveJob([j EXCEPT !.status = "awaiting_signatures", !.needsTap = tap])
  /\ UNCHANGED <<held, lastId, network>>

\* onTapDone(): the passkey-signed redeem or swap is on chain.
TapDone(j) ==
  /\ \/ j.status = "awaiting_redeem" /\ j.needsTap /\ SaveJob(Landed(j))
     \/ j.status = "awaiting_swap" /\ SaveJob([j EXCEPT !.status = "done"])
  /\ UNCHANGED <<held, lastId, network>>

-----------------------------------------------------------------------------
(* Ethereum, and the death of the process. *)

\* A transaction is mined when it is its wallet's next and the wallet can pay.
Mine(t) ==
  /\ t \in mempool
  /\ \A u \in Mined : u.from = t.from => u.nonce < t.nonce
  /\ \A n \in 0..(t.nonce - 1) : \E u \in Mined : u.from = t.from /\ u.nonce = n
  /\ t.from = Sponsor => SponsorBalance(Len(chain)) >= t.value + t.maxGas
  /\ \E ok \in BOOLEAN, gas \in 1..t.maxGas :
       /\ ok \/ Cardinality({i \in 1..Len(chain) : ~chain[i].ok}) < MaxReverts
       /\ chain' = Append(chain, [tx |-> t, ok |-> ok, gas |-> gas])
  /\ mempool' = mempool \ {t}
  /\ UNCHANGED <<ledger, held, offers, deep>>

\* One more mined transaction has the configured confirmations.
Bury ==
  /\ deep < Len(chain)
  /\ deep' = deep + 1
  /\ UNCHANGED <<ledger, held, offers, mempool, chain>>

Drop(t) ==
  /\ t \in mempool
  /\ mempool' = mempool \ {t}
  /\ UNCHANGED <<ledger, held, offers, chain, deep>>

Reorg ==
  /\ Reorgs
  /\ \E n \in deep..(Len(chain) - 1) :
       /\ chain' = SubSeq(chain, 1, n)
       /\ mempool' = mempool \cup {chain[i].tx : i \in (n + 1)..Len(chain)}
  /\ UNCHANGED <<ledger, held, offers, deep>>

Crash ==
  /\ held' = {} /\ offers' = {}
  /\ UNCHANGED <<ledger, network>>

JobStep(j) ==
  \/ Skip(j) \/ Send(j) \/ Broadcast(j) \/ Confirm(j) \/ CrashInConfirm(j) \/ Finish(j)
  \/ Fail(j) \/ Resume(j) \/ OfferQuote(j) \/ ApproveQuote(j) \/ Reset(j)
  \/ SolSend(j) \/ SolExpire(j) \/ SolNext(j)
  \/ PollGuardians(j) \/ AutoRedeem(j) \/ PrepareTap(j) \/ TapDone(j)

Next ==
  \/ \E a \in Accounts, p \in Plans : Start(a, p)
  \/ Commit \/ Abort
  \/ \E j \in jobs : JobStep(j)
  \/ \E t \in mempool : Mine(t) \/ Drop(t)
  \/ Bury \/ Reorg \/ Crash

Spec == Init /\ [][Next]_vars

\* The ticks keep running and reach a node that answers, the network mines what
\* keeps being broadcast, and the user presses Retry on a failed conversion.
Of(a) == {j \in jobs : j.acct = a}
Fairness ==
  /\ WF_vars(Commit \/ Abort)
  /\ \A a \in Accounts :
       /\ SF_vars(\E j \in Of(a) : Broadcast(j))
       /\ SF_vars(\E j \in Of(a) : Confirm(j))
       /\ SF_vars(\E j \in Of(a) : Resume(j))
  /\ SF_vars(\E t \in mempool : Mine(t))
  /\ WF_vars(Bury)

FairSpec == Spec /\ Fairness

-----------------------------------------------------------------------------
(* Properties. *)

TypeOK ==
  /\ jobs \subseteq Job /\ past \subseteq Job /\ offers \subseteq Job
  /\ held \subseteq [op : {"start", "send", "requote"}, new : Job]
  /\ lastId \in Nat
  /\ mempool \subseteq Tx
  /\ chain \in Seq([tx : Tx, ok : BOOLEAN, gas : Nat])
  /\ deep \in 0..Len(chain)

\* Every transaction the network can mine or has mined is in the durable
\* ledger: send() journals the signed bytes before the first broadcast, and no
\* save, reset, crash or new conversion forgets one.
WriteAhead == mempool \cup Mined \subseteq Journaled

\* Two transactions of one wallet never share a nonce, whatever a lagging node
\* answers to getTransactionCount and however many jobs share the sponsor.
NonceUnique ==
  \A t, u \in Journaled : t.from = u.from /\ t.nonce = u.nonce => t = u

\* A step that moves money succeeds at most once per conversion: no crash, lost
\* reply, retry, re-quote or failure while finishing repeats it.
SpendOnce ==
  \A m, n \in 1..Len(chain) :
    /\ chain[m].ok /\ chain[n].ok
    /\ chain[m].tx.id = chain[n].tx.id
    /\ chain[m].tx.step = chain[n].tx.step
    /\ chain[m].tx.step \in SpendSteps
    => m = n

\* A job has repaid: its settlement is confirmed and left no debt, or it never
\* owed anything.
Repaid(j) ==
  /\ Debt(j) = 0
  /\ \/ \E r \in j.receipts : r.ok /\ r.tx.step = "collect_fee"
     \/ j.spent = 0 /\ j.plan.service = 0

\* No transaction of the remaining conversion reaches the network before the
\* settlement of its job is confirmed (README: "Before the remaining conversion
\* proceeds, a confirmed ETH payment returns all sponsor advances").
TailAfterRepayment ==
  \A t \in mempool \cup Mined : t.step \in TailSteps =>
    \A j \in Records : j.id = t.id => Repaid(j)

\* A job waiting for the bridge or finished has a bridge deposit that succeeded.
LandingHasDeposit ==
  \A j \in Records : At(j) \in LandSteps \cup {"done", "request_signatures"} =>
    \E r \in j.receipts : r.ok /\ r.tx.step \in BridgeSteps

\* Neither what a job has paid nor the worst case of the transaction it has in
\* flight exceeds the gas and the sponsorship its accepted plan allows.
Within(j) ==
  /\ j.gasPaid <= j.plan.gasMax
  /\ j.spent <= j.plan.sponsorMax
  /\ \A t \in j.pending :
       /\ j.gasPaid + t.maxGas <= j.plan.gasMax
       /\ t.sponsored => j.spent + t.advance + t.maxGas <= j.plan.sponsorMax

WithinPlan == \A j \in Records : Within(j)

\* The ledger's totals are what the chain charged: every mined transaction of a
\* job counts exactly once, reverted gas included, unless its receipt is still
\* to be read.
LedgerMatchesChain ==
  \A j \in Records :
    LET counted == {i \in 1..Len(chain) : chain[i].tx.id = j.id /\ chain[i].tx \notin j.pending}
        Total(amount(_, _, _)) ==
          MapThenSumSet(LAMBDA i : amount(chain[i].tx, chain[i].ok, chain[i].gas), counted)
    IN  /\ j.gasPaid = Total(GasOf)
        /\ j.spent = Total(SpentOf)
        /\ j.recovered = Total(RecoveredOf)

\* The sponsor's balance never drops below the protected reserve.
FloorRespected == SponsorBalance(Len(chain)) >= Cfg.floor

\* Debt plus unspent commitments stay within the outstanding limit.
OutstandingBounded == Exposure(Records) <= Cfg.maxOutstanding

\* No step loses a record, a transaction of it, or sponsor money it owes.
NothingForgotten ==
  [][\A j \in Records : \E k \in Records' :
       /\ k.id = j.id
       /\ TxsOf(j) \subseteq TxsOf(k)
       /\ k.spent >= j.spent /\ k.recovered >= j.recovered]_vars

\* A journaled transaction is settled in the end: lost replies, drops, crashes
\* and failures of its own job or of another that holds an earlier nonce of the
\* shared sponsor only delay it.
JournalSettles ==
  \A a \in Accounts :
    (\E j \in Of(a) : j.pending # {}) ~> (\A j \in Of(a) : j.pending = {})

\* A conversion that was reset is not revived (funding-v2.js:306: "Approval
\* cannot race Retry, another tab, ... or a different conversion").
ResetIsFinal == [][\A h \in past, k \in jobs' : h.id # k.id]_vars
=============================================================================
