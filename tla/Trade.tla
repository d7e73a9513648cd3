-------------------------------- MODULE Trade --------------------------------
(***************************************************************************)
(* KOIN sales and ETH withdrawals of one account: tools/eth/trade.js, with  *)
(* the passkey taps of server.js and the conversions of tools/funding.js    *)
(* that use the same transit wallet.                                        *)
(*                                                                          *)
(* An approved intent (submit) and the timer (tick) take the account's      *)
(* lock, await the network, and save what they decided: the first half is   *)
(* an action that fills op, the save is Commit.  beforeKoinBroadcast runs   *)
(* from the Koinos transaction queue and takes no lock.  Ethereum and       *)
(* Koinos may drop, revert and reorganise; nodes know what is settled.      *)
(***************************************************************************)
EXTENDS Naturals, FiniteSets, SequencesExt

CONSTANTS
  Kinds,       \* what this instance trades: sale routes "B", "C" and "withdraw"
  GasBudget,   \* the gas a sale was approved for, in units of one transaction
  MaxTrades,   \* bound: trades submitted
  MaxReverts,  \* bound: transactions that revert, on either chain
  MaxOther,    \* bound: other Koinos transactions of the account
  MaxOpen,     \* bound: reviews, and prepared taps, that are open at a time
  MaxRefresh   \* bound: signature renewals; without any, approvals do not lapse

TapSteps == {"sell_swap", "sell_bridge", "sell_refresh"}
SwapSteps == <<"approve_vkoin", "approve_sell_router", "swap_vkoin_usdt",
               "approve_sell_usdt_reset", "approve_sell_usdt", "swap_usdt_eth">>
EthSteps == {"withdraw", "eth_redeem", "sell_fee"} \cup Range(SwapSteps)
Done == {"done", "cancelled", "failed"}
Status == TapSteps \cup EthSteps \cup Done
            \cup {"withdraw_pending", "koin_pending", "sell_signatures", "error"}

\* Steps that move money and must not succeed twice for one trade.
SpendSteps == {"sell_swap", "sell_bridge", "withdraw", "eth_redeem",
               "swap_vkoin_usdt", "swap_usdt_eth", "sell_fee"}

Tx == [id : Nat, step : EthSteps \cup TapSteps \cup {"other"}, nonce : Nat]
Trades == [id : Nat, kind : Kinds, status : Status, failedAt : Status \cup {"none"},
           moved : BOOLEAN, eth : SUBSET Tx, koin : SUBSET Tx, gas : Nat]
Intents == [kind : Kinds \cup {"retry", "cancel"}, id : Nat]

ASSUME Bounds == /\ Kinds \subseteq {"B", "C", "withdraw"}
                 /\ {GasBudget, MaxTrades, MaxReverts, MaxOther, MaxOpen, MaxRefresh}
                      \subseteq Nat

VARIABLES
  trade,    \* S.store.trades[account]: at most one record
  past,     \* S.store.tradeHistory of replaced trades
  conv,     \* the account's conversion, as buyBusy sees it
  intents,  \* reviewed payloads waiting for their passkey proof (memory)
  op,       \* what holds the account's lock (memory)
  taps,     \* prepared Koinos transactions of a sale (PREPARED, memory)
  queue,    \* the tap in queueTx (memory): [tx, journaled]
  kpool, kchain, kfinal,  \* Koinos: pending, executed, how many irreversible
  pool, chain, deep       \* Ethereum: pending, mined, how many 3 blocks deep

ledger == <<trade, past>>
memory == <<intents, op, taps, queue>>
koinos == <<kpool, kchain, kfinal>>
ethereum == <<pool, chain, deep>>
vars == <<ledger, conv, memory, koinos, ethereum>>

Live == {j \in trade : j.status \notin Done}
Reverted == Cardinality({i \in DOMAIN chain : ~chain[i].ok})
              + Cardinality({i \in DOMAIN kchain : ~kchain[i].ok})

Init ==
  /\ trade = {} /\ past = {} /\ conv = "none"
  /\ intents = {} /\ op = {} /\ taps = {} /\ queue = {}
  /\ kpool = {} /\ kchain = << >> /\ kfinal = 0
  /\ pool = {} /\ chain = << >> /\ deep = 0

\* save(): the trade before it is remembered.
Save(j) == /\ trade' = {j}
           /\ past' = past \cup {k \in trade : k.id # j.id}

-----------------------------------------------------------------------------
(* Conversions of the same wallet (tools/funding.js). *)

\* trade.blocks(account): the lock is taken or the current trade is not over.
Blocks == op # {} \/ Live # {}
BuyBusy == conv \notin {"none", "done"}

\* MUTANT of ConvStart: the conversion asks for a live trade, not for the lock.
ConvStartUnlocked ==
  \/ conv \in {"none", "done"} /\ Live = {} /\ conv' = "starting"
  \/ conv = "starting" /\ conv' \in {"none", "live"}

\* start() checks and marks STARTING in one go; its save comes after awaits.
ConvStart ==
  \/ conv \in {"none", "done"} /\ ~Blocks /\ conv' = "starting"
  \/ conv = "starting" /\ conv' \in {"none", "live"}

\* The driver ends it or fails; Retry and reset ask trade.blocks, an approved
\* recovery quote does not.
ConvMove ==
  \/ conv = "live" /\ conv' \in {"done", "error"}
  \/ conv = "error" /\ conv' = "live"
  \/ conv = "error" /\ ~Blocks /\ conv' = "none"

Convert ==
  /\ ConvStart \/ ConvMove
  /\ UNCHANGED <<ledger, memory, koinos, ethereum>>

-----------------------------------------------------------------------------
(* Review and approval. *)

Cancellable(j) == ~j.moved /\ j.koin = {} /\ j.eth = {}

\* prepare(): a payload is put aside under a fresh reference.
Prepare ==
  /\ Cardinality(intents) < MaxOpen
  /\ \/ /\ Cardinality(past \cup trade) < MaxTrades
        /\ ~Blocks /\ ~BuyBusy
        /\ \E k \in Kinds : intents' = intents \cup {[kind |-> k, id |-> 0]}
     \/ \E j \in Live : intents' = intents \cup {[kind |-> "retry", id |-> j.id]}
     \/ \E j \in Live : /\ Cancellable(j)
                        /\ intents' = intents \cup {[kind |-> "cancel", id |-> j.id]}
  /\ UNCHANGED <<ledger, conv, op, taps, queue, koinos, ethereum>>

\* submit() up to the passkey proof: the intent is used up, the lock taken.
Submit ==
  /\ op = {}
  /\ \E i \in intents :
       /\ intents' = intents \ {i}
       /\ op' = {[do |-> "approve", intent |-> i]}
  /\ UNCHANGED <<ledger, conv, taps, queue, koinos, ethereum>>

NewTrade(k, n) ==
  LET status == CASE k = "B" -> "sell_swap" [] k = "C" -> "sell_bridge"
                  [] k = "withdraw" -> "withdraw_pending"
  IN [id |-> n, kind |-> k, status |-> status, failedAt |-> "none", moved |-> FALSE,
      eth |-> IF k = "withdraw"
              THEN {[id |-> n, step |-> "withdraw", nonce |-> Len(chain)]} ELSE {},
      koin |-> {}, gas |-> 0]

\* What submit() saves once the proof of a sale or a withdrawal is verified:
\* what the review relied on is looked at again.
Opened(k) ==
  {NewTrade(k, n) : n \in {m \in 1..MaxTrades : ~BuyBusy /\ Live = {}
                              /\ m = 1 + Cardinality(past \cup trade)}}

\* The current trade after an approved retry or cancellation.
Updated(i) ==
  {[j EXCEPT !.status = IF i.kind = "cancel" THEN "cancelled" ELSE j.failedAt] :
     j \in {k \in Live : k.id = i.id
              /\ IF i.kind = "cancel" THEN Cancellable(k) ELSE k.status = "error"}}

\* A retry or cancellation is saved at once; a new trade first reads the chains.
ProofVerified ==
  \E o \in op :
    /\ o.do = "approve"
    /\ \/ /\ o.intent.kind \in Kinds
          /\ \E j \in Opened(o.intent.kind) : op' = {[do |-> "save", new |-> j]}
          /\ UNCHANGED ledger
       \/ /\ o.intent.kind \notin Kinds
          /\ \E j \in Updated(o.intent) : Save(j)
          /\ op' = {}
    /\ UNCHANGED <<conv, intents, taps, queue, koinos, ethereum>>

\* The save of whatever holds the lock.
Commit ==
  \E o \in op :
    /\ o.do = "save"
    /\ Save(o.new)
    /\ op' = {}
    /\ UNCHANGED <<conv, intents, taps, queue, koinos, ethereum>>

\* The proof is good but what was reviewed has changed: the ledger is left alone.
Refused ==
  /\ \E o \in op : /\ o.do = "approve"
                   /\ IF o.intent.kind \in Kinds THEN Opened(o.intent.kind) = {}
                      ELSE Updated(o.intent) = {}
  /\ op' = {}
  /\ UNCHANGED <<ledger, conv, intents, taps, queue, koinos, ethereum>>

\* So it is when a read fails before the save.
ApprovalFails ==
  /\ \E o \in op : o.do = "save" => o.new.id \notin {j.id : j \in trade}
  /\ op' = {}
  /\ UNCHANGED <<ledger, conv, intents, taps, queue, koinos, ethereum>>

\* Reviews last two minutes, prepared taps ten.
Expire ==
  /\ \/ taps' = taps /\ \E i \in intents : intents' = intents \ {i}
     \/ intents' = intents /\ \E t \in taps : taps' = taps \ {t}
  /\ UNCHANGED <<ledger, conv, op, queue, koinos, ethereum>>

-----------------------------------------------------------------------------
(* advance(): the timer takes the lock, reads, and decides what to save. *)

\* The timer visits a trade that is not over, failed or waiting for a tap.
Visits(j) == op = {} /\ j \in Live /\ j.status \notin TapSteps \cup {"error"}
Decide(j) == /\ op' = {[do |-> "save", new |-> j]}
             /\ UNCHANGED <<ledger, conv, intents, taps, queue, koinos, ethereum>>

\* MUTANT of Stage: each transaction alone is held to the sale's budget.
StageStepBudget(j, s) ==
  /\ Visits(j) /\ j.eth = {} /\ j.status = s
  /\ GasBudget >= 1
  /\ Decide([j EXCEPT !.eth = {[id |-> j.id, step |-> s, nonce |-> Len(chain)]}])

\* stageEth(): the step's transaction is signed and journaled.  Both of the
\* node's nonces agree only when nothing of the wallet is on its way.
Stage(j, s) ==
  /\ Visits(j) /\ j.eth = {} /\ j.status = s
  /\ j.gas + 1 <= GasBudget
  /\ Decide([j EXCEPT !.eth = {[id |-> j.id, step |-> s, nonce |-> Len(chain)]}])

Renewals == Cardinality({i \in DOMAIN kchain : kchain[i].tx.step = "sell_refresh"})
Lapses == IF Renewals < MaxRefresh THEN {"sell_refresh"} ELSE {}

\* Steps passed over: nothing to do, or an earlier one has to come again.
Skips(j) ==
  CASE j.status = "sell_signatures" -> {"eth_redeem"} \cup Lapses
    [] j.status = "eth_redeem" -> Lapses
    [] j.status = "swap_vkoin_usdt" -> {"approve_sell_router" : s \in Lapses}
    [] j.status = "approve_sell_usdt_reset" -> {"approve_sell_usdt"}
    [] j.status = "sell_fee" -> {"done"}
    [] OTHER -> {}

Skip(j, s) ==
  /\ Visits(j) /\ j.eth = {} /\ s \in Skips(j)
  /\ Decide([j EXCEPT !.status = s])

After(kind, s) ==
  CASE s \in {"withdraw", "sell_fee"} -> "done"
    [] s = "eth_redeem" -> IF kind = "B" THEN "sell_fee" ELSE SwapSteps[1]
    [] s = "swap_usdt_eth" -> "sell_fee"
    [] OTHER -> SwapSteps[1 + CHOOSE i \in DOMAIN SwapSteps : SwapSteps[i] = s]

\* MUTANT of Confirmed: only a successful receipt settles a step.
ConfirmedOk(i) == i \in 1..deep /\ chain[i].ok

\* A canonical receipt with three confirmations.
Confirmed(i) == i \in 1..deep

\* pollEth() with a receipt: the gas is booked once, the step is behind or failed.
SettleEth(j) ==
  /\ Visits(j)
  /\ \E i \in DOMAIN chain :
       /\ chain[i].tx \in j.eth /\ Confirmed(i)
       /\ LET s == chain[i].tx.step
              paid == [j EXCEPT !.eth = {}, !.gas = @ + 1]
          IN Decide(IF chain[i].ok THEN [paid EXCEPT !.status = After(j.kind, s)]
                    ELSE [paid EXCEPT !.status = IF j.kind = "withdraw" THEN "failed" ELSE "error",
                                      !.failedAt = s])

\* pollEth() without one: the journaled bytes go out, now or again.
Broadcast(j) ==
  /\ Visits(j)
  /\ \E t \in j.eth : /\ t.nonce >= Len(chain)
                       /\ pool' = pool \cup {t}
  /\ UNCHANGED <<ledger, conv, memory, koinos, chain, deep>>

AfterTap(s) == IF s = "sell_swap" THEN "sell_bridge" ELSE "sell_signatures"

\* MUTANT of Irreversible: a block that contains the transaction is enough.
IrreversibleSeen(i) == i \in DOMAIN kchain

Irreversible(i) == i \in 1..kfinal

\* pollKoin() with an irreversible receipt, and without one: the same bytes again.
SettleKoin(j) ==
  /\ Visits(j) /\ j.eth = {}
  /\ \E i \in DOMAIN kchain :
       /\ kchain[i].tx \in j.koin /\ Irreversible(i)
       /\ LET s == kchain[i].tx.step
          IN Decide(IF kchain[i].ok THEN [j EXCEPT !.koin = {}, !.status = AfterTap(s)]
                    ELSE [j EXCEPT !.koin = {}, !.status = "error", !.failedAt = s])

Resend(j) ==
  /\ Visits(j) /\ j.eth = {}
  /\ \E t \in j.koin : /\ t.nonce >= Len(kchain)
                        /\ kpool' = kpool \cup {t}
  /\ UNCHANGED <<ledger, conv, memory, kchain, kfinal, ethereum>>

\* A read, a price or a budget refuses: Retry, unless a transaction is journaled.
Fail(j) ==
  /\ Visits(j) /\ j.eth = {} /\ j.koin = {}
  /\ Decide([j EXCEPT !.status = "error", !.failedAt = j.status])

-----------------------------------------------------------------------------
(* The passkey taps of a sale. *)

\* prepareTap(): the next step's transaction, with the account's nonce now.
PrepareTap ==
  /\ Cardinality(taps) < MaxOpen
  /\ \E j \in Live :
       /\ j.status \in TapSteps /\ j.koin = {}
       /\ taps' = taps \cup {[id |-> j.id, step |-> j.status, nonce |-> Len(kchain)]}
  /\ UNCHANGED <<ledger, conv, intents, op, queue, koinos, ethereum>>

\* api.submit: a signed preparation is used up and waits in the send queue.
SubmitTap ==
  /\ queue = {}
  /\ \E t \in taps : taps' = taps \ {t} /\ queue' = {[tx |-> t, journaled |-> FALSE]}
  /\ UNCHANGED <<ledger, conv, intents, op, koinos, ethereum>>

\* The trade still waits for exactly this tap.
TapExpected(j, t) == j.id = t.id /\ j.status = t.step /\ j.koin = {}

\* beforeKoinBroadcast(): the signed transaction is journaled, or refused.
Journal ==
  \E q \in queue :
    /\ ~q.journaled
    /\ \/ \E j \in trade :
             /\ TapExpected(j, q.tx)
             /\ Save([j EXCEPT !.status = "koin_pending", !.koin = {q.tx}, !.moved = TRUE])
             /\ queue' = {[q EXCEPT !.journaled = TRUE]}
       \/ /\ \A j \in trade : ~TapExpected(j, q.tx)
          /\ queue' = {} /\ UNCHANGED ledger
    /\ UNCHANGED <<conv, intents, op, taps, koinos, ethereum>>

\* The queue sends it: a node takes it, or the reply, the node or the nonce fails.
SendTap ==
  /\ \E q \in queue :
       /\ q.journaled
       /\ \/ kpool' = kpool
          \/ q.tx.nonce >= Len(kchain) /\ kpool' = kpool \cup {q.tx}
  /\ queue' = {}
  /\ UNCHANGED <<ledger, conv, intents, op, taps, kchain, kfinal, ethereum>>

-----------------------------------------------------------------------------
(* The chains and the process. *)

Outcomes == {TRUE} \cup (IF Reverted < MaxReverts THEN {FALSE} ELSE {})

\* Koinos: a pending transaction with the account's next nonce is executed, or
\* another one the account signed elsewhere.
KMine ==
  /\ \E t \in kpool, ok \in Outcomes :
       /\ t.nonce = Len(kchain)
       /\ kchain' = Append(kchain, [tx |-> t, ok |-> ok])
       /\ kpool' = {u \in kpool : u.nonce > Len(kchain)}
  /\ UNCHANGED <<ledger, conv, memory, kfinal, ethereum>>

OtherTx ==
  /\ Cardinality({i \in DOMAIN kchain : kchain[i].tx.step = "other"}) < MaxOther
  /\ kchain' = Append(kchain, [ok |-> TRUE,
                  tx |-> [id |-> 0, step |-> "other", nonce |-> Len(kchain)]])
  /\ kpool' = {u \in kpool : u.nonce > Len(kchain)}
  /\ UNCHANGED <<ledger, conv, memory, kfinal, ethereum>>

KFinal == /\ kfinal < Len(kchain) /\ kfinal' = kfinal + 1
          /\ UNCHANGED <<ledger, conv, memory, kpool, kchain, ethereum>>

\* A block is abandoned; what it held may come back or be forgotten.
KReorg ==
  /\ kfinal < Len(kchain)
  /\ kchain' = Front(kchain)
  /\ kpool' \in {kpool, kpool \cup {t \in {Last(kchain).tx} : t.step # "other"}}
  /\ UNCHANGED <<ledger, conv, memory, kfinal, ethereum>>

KDrop == /\ \E t \in kpool : kpool' = kpool \ {t}
         /\ UNCHANGED <<ledger, conv, memory, kchain, kfinal, ethereum>>

Mine ==
  /\ \E t \in pool, ok \in Outcomes :
       /\ t.nonce = Len(chain)
       /\ chain' = Append(chain, [tx |-> t, ok |-> ok])
       /\ pool' = {u \in pool : u.nonce > Len(chain)}
  /\ UNCHANGED <<ledger, conv, memory, koinos, deep>>

Bury == /\ deep < Len(chain) /\ deep' = deep + 1
        /\ UNCHANGED <<ledger, conv, memory, koinos, pool, chain>>

Reorg ==
  /\ deep < Len(chain)
  /\ chain' = Front(chain)
  /\ pool' \in {pool, pool \cup {Last(chain).tx}}
  /\ UNCHANGED <<ledger, conv, memory, koinos, deep>>

Drop == /\ \E t \in pool : pool' = pool \ {t}
        /\ UNCHANGED <<ledger, conv, memory, koinos, chain, deep>>

\* The process dies: what only memory held is gone, a starting conversion too.
Crash ==
  /\ intents' = {} /\ op' = {} /\ taps' = {} /\ queue' = {}
  /\ conv' = IF conv = "starting" THEN "none" ELSE conv
  /\ UNCHANGED <<ledger, koinos, ethereum>>

Advance == \E j \in trade :
  \/ SettleEth(j) \/ Broadcast(j) \/ SettleKoin(j) \/ Resend(j)
  \/ \E s \in Status : (s \in EthSteps /\ Stage(j, s)) \/ Skip(j, s)

Approve == Prepare \/ Submit \/ ProofVerified \/ Refused
Tap == PrepareTap \/ SubmitTap \/ Journal \/ SendTap
Settling == KMine \/ KFinal \/ Mine \/ Bury
Faults == \/ Crash \/ Expire \/ ApprovalFails \/ \E j \in trade : Fail(j)
          \/ KReorg \/ KDrop \/ Reorg \/ Drop

Next == Convert \/ Approve \/ Commit \/ Advance \/ Tap \/ Settling \/ OtherTx \/ Faults

Spec == Init /\ [][Next]_vars

\* From some moment on the process stays up, reads succeed and the chains keep
\* what they hold; then the timer advances what it may, the queue works, blocks
\* come, and the user approves a Retry and answers taps.
Fairness ==
  /\ <>[][Faults => Commit \/ Approve \/ Advance \/ Tap \/ Settling]_vars
  /\ WF_vars(Commit) /\ WF_vars(ProofVerified \/ Refused) /\ SF_vars(Advance)
  /\ WF_vars(Submit) /\ SF_vars(Tap) /\ WF_vars(Settling)
  /\ SF_vars(/\ \E j \in trade : j.status = "error"
             /\ Prepare /\ \A i \in intents' \ intents : i.kind = "retry")

FairSpec == Spec /\ Fairness

-----------------------------------------------------------------------------
(* Properties. *)

TypeOK ==
  /\ trade \subseteq Trades /\ Cardinality(trade) <= 1 /\ past \subseteq Trades
  /\ conv \in {"none", "starting", "live", "done", "error"}
  /\ intents \subseteq Intents
  /\ op \subseteq [do : {"approve"}, intent : Intents] \cup [do : {"save"}, new : Trades]
  /\ Cardinality(op) <= 1
  /\ taps \subseteq Tx /\ queue \subseteq [tx : Tx, journaled : BOOLEAN]
  /\ kpool \cup pool \subseteq Tx
  /\ {kchain[i].tx : i \in DOMAIN kchain} \cup {chain[i].tx : i \in DOMAIN chain} \subseteq Tx
  /\ kfinal \in 0..Len(kchain) /\ deep \in 0..Len(chain)

\* A conversion and a trade never use the transit wallet at the same time, not
\* even while one of them is between its checks and its save (funding.js:668,
\* trade.js:158).
OneUserOfWallet ==
  BuyBusy => /\ Live = {}
             /\ \A o \in op : o.do # "save"

\* No step that moves the sale's money succeeds twice, on either chain, whatever
\* is retried, re-sent, reorganised or tapped on two devices.
MovesOnce ==
  \A c \in {chain, kchain} : \A i, k \in DOMAIN c :
    c[i].tx.step \in SpendSteps /\ c[i].ok /\ c[k].ok
      /\ c[i].tx.step = c[k].tx.step /\ c[i].tx.id = c[k].tx.id => i = k

\* Every transaction of a trade that can still take effect, or that a reorganisation
\* can still undo, is journaled in the current trade: none is given up (trade.js:196).
NothingLoose ==
  LET journal == UNION {j.eth \cup j.koin : j \in trade}
      open == pool \cup kpool \cup {chain[i].tx : i \in deep + 1..Len(chain)}
                \cup {kchain[i].tx : i \in kfinal + 1..Len(kchain)}
  IN \A t \in open : t.step = "other" \/ t \in journal

\* A cancelled trade has moved nothing, and nothing of it moves later.
CancelledMovedNothing ==
  \A j \in trade \cup past : j.status = "cancelled" =>
    /\ \A t \in pool \cup kpool : t.id # j.id
    /\ \A c \in {chain, kchain} : \A i \in DOMAIN c : c[i].tx.id # j.id

\* Each mined transaction's gas is booked exactly once, and a sale never pays more
\* than the budget its owner approved (trade.js:184, docs/koin-to-eth.md:66).
GasBookedOnce ==
  \A j \in trade \cup past :
    LET mined == {i \in 1..deep : chain[i].tx.id = j.id}
    IN /\ j.gas = Cardinality({i \in mined : chain[i].tx \notin j.eth})
       /\ j.kind # "withdraw" => Cardinality(mined) <= GasBudget

Over(n) == \A j \in trade : j.id = n => j \notin Live
Moved(n) == \E j \in Live : j.id = n /\ (j.moved \/ j.kind = "withdraw")
\* The budget is used up: the documents leave this to the operator.
Exhausted(n) == \E j \in Live : j.id = n /\ j.eth = {} /\ j.gas = GasBudget
\* The account used the journaled transaction's nonce for something else, or
\* the transaction before it is gone.
Overtaken(n) == \E j \in Live : /\ j.id = n
                                /\ \E t \in j.koin : t.nonce < kfinal \/ t.nonce > Len(kchain)

\* A withdrawal, or a sale that has moved funds, comes to an end unless its gas
\* budget is used up or another Koinos transaction of the account overtook it.
TradeSettles ==
  \A n \in 1..MaxTrades : Moved(n) ~> (Over(n) \/ Exhausted(n) \/ Overtaken(n))

\* docs/koin-to-eth.md:67: a paused sale can retry its step; so it ends, unless it
\* needs the operator for its budget.
SaleCanBeFinished ==
  \A n \in 1..MaxTrades : Moved(n) ~> (Over(n) \/ Exhausted(n))
=============================================================================
