----------------------------- MODULE TradeProofs -----------------------------
(***************************************************************************)
(* Theorems about Trade: the transit wallet has one user at a time, no     *)
(* step that moves money succeeds twice, and the gas of every transaction  *)
(* is booked once and stays within what the owner approved.                *)
(***************************************************************************)
EXTENDS Trade, FiniteSetTheorems, SequenceTheorems, TLAPS

(***************************************************************************)
(* The shape of a trade: what is journaled belongs to the step it is at.   *)
(***************************************************************************)
SaleSteps == (EthSteps \ {"withdraw"}) \cup TapSteps \cup {"sell_signatures"}

\* The order in which a trade takes its steps; those of a rank may repeat.
Rank(s) ==
  CASE s \in {"withdraw_pending", "withdraw", "sell_swap"} -> 1
    [] s = "sell_bridge" -> 2
    [] s \in {"sell_refresh", "sell_signatures", "eth_redeem"} -> 3
    [] s \in {"approve_vkoin", "approve_sell_router", "swap_vkoin_usdt"} -> 4
    [] s \in {"approve_sell_usdt_reset", "approve_sell_usdt", "swap_usdt_eth"} -> 5
    [] s = "sell_fee" -> 6
    [] OTHER -> 7

\* A step is behind a trade that is at a later one, or stopped or waits there.
Behind(j, s) ==
  CASE j.status = "error" -> Rank(s) < Rank(j.failedAt)
    [] j.status = "koin_pending" -> \A t \in j.koin : Rank(s) < Rank(t.step)
    [] OTHER -> Rank(s) < Rank(j.status)

Withdrawal(j) ==
  /\ j.status \in {"withdraw_pending", "done", "failed"} /\ j.koin = {}
  /\ IF j.status = "withdraw_pending"
     THEN \E t \in j.eth : j.eth = {t} /\ t.id = j.id /\ t.step = "withdraw"
     ELSE j.eth = {}

Sale(j) ==
  /\ j.status \in SaleSteps \cup {"koin_pending", "error", "done", "cancelled"}
  /\ j.status = "error" => j.failedAt \in SaleSteps
  /\ j.eth # {} => /\ j.gas < GasBudget
                   /\ j.status \in EthSteps
                   /\ \E t \in j.eth : j.eth = {t} /\ t.id = j.id /\ t.step = j.status
  /\ IF j.status = "koin_pending"
     THEN \E t \in j.koin : j.koin = {t} /\ t.id = j.id /\ t.step \in TapSteps
     ELSE j.koin = {}
  /\ j.gas <= GasBudget

Shaped(j) == /\ j \in Trades
             /\ IF j.kind = "withdraw" THEN Withdrawal(j) ELSE Sale(j)

(***************************************************************************)
(* One of the two chains: c is what it has executed, the first d of it for *)
(* good, p what waits; X are transactions sent by other ways.              *)
(***************************************************************************)
Entry == [tx : Tx, ok : BOOLEAN]
History == Seq(Entry)
Others == {t \in Tx : t.step = "other" /\ t.id = 0}

\* A transaction is at the place its nonce says, and waits for no place that is taken.
PlacedOn(c, p) == /\ \A i \in DOMAIN c : c[i].tx.nonce = i - 1
                  /\ \A t \in p : t.nonce >= Len(c)

\* What may still take effect, or be undone, is journaled in E.
HeldOn(c, d, p, E, X) ==
  p \subseteq E /\ \A i \in d + 1..Len(c) : c[i].tx \in E \cup X

\* What has moved money for j and is not journaled in E any more is behind it.
PassedOn(c, j, E) ==
  \A i \in DOMAIN c :
    c[i].ok /\ c[i].tx.id = j.id /\ c[i].tx.step \in SpendSteps =>
      c[i].tx \in E \/ Behind(j, c[i].tx.step)

OnceOn(c) ==
  \A i, k \in DOMAIN c :
    c[i].tx.step \in SpendSteps /\ c[i].ok /\ c[k].ok
      /\ c[i].tx.step = c[k].tx.step /\ c[i].tx.id = c[k].tx.id => i = k

NumberedOn(c, n, X) == \A i \in DOMAIN c : c[i].tx \in X \/ c[i].tx.id \in 1..n
NoneOf(c, n) == \A i \in DOMAIN c : c[i].tx.id # n
BookedOn(c, d, n, E) == {i \in 1..d : c[i].tx.id = n /\ c[i].tx \notin E}

(***************************************************************************)
(* A trade, or the trade about to be saved, and the chains.                *)
(***************************************************************************)
Held(E, K) ==
  /\ HeldOn(chain, deep, pool, E, {}) /\ HeldOn(kchain, kfinal, kpool, K, Others)
  /\ \A q \in queue : q.journaled => q.tx \in K \/ q.tx.nonce < kfinal

Passed(j) == PassedOn(chain, j, j.eth) /\ PassedOn(kchain, j, j.koin)
Booked(j) == j.gas = Cardinality(BookedOn(chain, deep, j.id, j.eth))

\* Before its first tap a sale has sent nothing; only then may it be cancelled.
Untouched(j) ==
  /\ j.status = "cancelled" => ~j.moved
  /\ ~j.moved /\ j.kind # "withdraw" =>
       /\ j.status \in {"sell_swap", "sell_bridge", "cancelled"}
       /\ NoneOf(chain, j.id) /\ NoneOf(kchain, j.id)

Traced(j) == Passed(j) /\ Booked(j) /\ Untouched(j)
Fits(j) == Shaped(j) /\ Held(j.eth, j.koin) /\ Traced(j)

(***************************************************************************)
(* The invariant.                                                          *)
(***************************************************************************)
Typed ==
  /\ trade \subseteq Trades /\ past \subseteq Trades
  /\ conv \in {"none", "starting", "live", "done", "error"}
  /\ intents \subseteq Intents
  /\ op \subseteq [do : {"approve"}, intent : Intents] \cup [do : {"save"}, new : Trades]
  /\ taps \subseteq [id : Nat, step : TapSteps, nonce : Nat]
  /\ queue \subseteq [tx : [id : Nat, step : TapSteps, nonce : Nat], journaled : BOOLEAN]

TypedChains ==
  /\ kpool \subseteq Tx /\ pool \subseteq Tx
  /\ kchain \in History /\ chain \in History
  /\ kfinal \in 0..Len(kchain) /\ deep \in 0..Len(chain)

Placed == PlacedOn(chain, pool) /\ PlacedOn(kchain, kpool)

\* One current trade; every trade there was has an id of its own.
Known == Cardinality(past \cup trade)
Numbered ==
  /\ IsFiniteSet(past) /\ \A j, k \in trade : j = k
  /\ \A j \in past \cup trade : j.id \in 1..Known
  /\ \A j \in trade, p \in past : p.id # j.id
  /\ NumberedOn(chain, Known, {}) /\ NumberedOn(kchain, Known, Others)

PastOver == \A p \in past : Shaped(p) /\ p.status \in Done /\ Traced(p)

Current ==
  /\ \A j \in trade : Fits(j)
  /\ trade = {} => Held({}, {})

\* What is about to be saved is the next state of the current trade, or a new one.
Due(r) ==
  /\ Fits(r)
  /\ \A j \in trade : j.status \notin TapSteps
  /\ (\E j \in trade : j.id = r.id) \/ (r.id = Known + 1 /\ Live = {})

Saving == \A o \in op : o.do = "save" => Due(o.new)

TradeInv == /\ Typed /\ TypedChains /\ Placed /\ Numbered /\ PastOver /\ Current /\ Saving
            /\ OneUserOfWallet /\ OnceOn(chain) /\ OnceOn(kchain)

-----------------------------------------------------------------------------
(* Steps and their order. *)

LEMMA StepNames ==
  /\ EthSteps = {"withdraw", "eth_redeem", "sell_fee", "approve_vkoin",
                 "approve_sell_router", "swap_vkoin_usdt", "approve_sell_usdt_reset",
                 "approve_sell_usdt", "swap_usdt_eth"}
  /\ SpendSteps \subseteq EthSteps \cup TapSteps
  /\ DOMAIN SwapSteps = 1..6
<1>1. DOMAIN SwapSteps = 1..6 BY DEF SwapSteps
<1>2. Range(SwapSteps) = {"approve_vkoin", "approve_sell_router", "swap_vkoin_usdt",
                          "approve_sell_usdt_reset", "approve_sell_usdt", "swap_usdt_eth"}
  <2>1. Range(SwapSteps) = {SwapSteps[i] : i \in 1..6} BY <1>1 DEF Range
  <2>2. \A i \in 1..6 : i = 1 \/ i = 2 \/ i = 3 \/ i = 4 \/ i = 5 \/ i = 6 OBVIOUS
  <2>3. \A x : x \in Range(SwapSteps) <=>
          x \in {SwapSteps[1], SwapSteps[2], SwapSteps[3], SwapSteps[4], SwapSteps[5], SwapSteps[6]}
    BY <2>1, <2>2
  <2> QED BY <2>3 DEF SwapSteps
<1> QED BY <1>1, <1>2 DEF EthSteps, SpendSteps, TapSteps

LEMMA RankType == \A s : Rank(s) \in 1..7
BY DEF Rank

\* What follows a step of Ethereum is not before it, and after one that moves money
\* it is later.
LEMMA AfterIsLater ==
  ASSUME NEW kind, NEW s \in EthSteps
  PROVE  /\ After(kind, s) \in (SaleSteps \ {"withdraw"}) \cup {"done"}
         /\ After(kind, s) \notin TapSteps
         /\ s = "withdraw" => After(kind, s) = "done"
         /\ Rank(s) <= Rank(After(kind, s))
         /\ s \in SpendSteps => Rank(s) < Rank(After(kind, s))
<1> DEFINE at == CHOOSE i \in DOMAIN SwapSteps : SwapSteps[i] = s
           next == SwapSteps[1 + at]
<1>1. s \in {"approve_vkoin", "approve_sell_router", "swap_vkoin_usdt",
             "approve_sell_usdt_reset", "approve_sell_usdt"} =>
        next = CASE s = "approve_vkoin" -> "approve_sell_router"
                 [] s = "approve_sell_router" -> "swap_vkoin_usdt"
                 [] s = "swap_vkoin_usdt" -> "approve_sell_usdt_reset"
                 [] s = "approve_sell_usdt_reset" -> "approve_sell_usdt"
                 [] s = "approve_sell_usdt" -> "swap_usdt_eth"
  <2>1. \A i \in 1..6 : i = 1 \/ i = 2 \/ i = 3 \/ i = 4 \/ i = 5 \/ i = 6 OBVIOUS
  <2>2. ASSUME NEW n \in 1..5, s = SwapSteps[n] PROVE next = SwapSteps[n + 1]
    <3>1. \A i \in 1..6 : SwapSteps[i] = s => i = n
      BY <2>1, <2>2 DEF SwapSteps
    <3>2. n \in DOMAIN SwapSteps /\ DOMAIN SwapSteps = 1..6 BY StepNames
    <3>3. at \in DOMAIN SwapSteps /\ SwapSteps[at] = s BY <2>2, <3>2
    <3> HIDE DEF at
    <3>4. at = n BY <3>1, <3>2, <3>3
    <3> QED BY <3>4
  <2>3. /\ SwapSteps[1] = "approve_vkoin" /\ SwapSteps[2] = "approve_sell_router"
        /\ SwapSteps[3] = "swap_vkoin_usdt" /\ SwapSteps[4] = "approve_sell_usdt_reset"
        /\ SwapSteps[5] = "approve_sell_usdt" /\ SwapSteps[6] = "swap_usdt_eth"
    BY DEF SwapSteps
  <2> HIDE DEF next
  <2>4. /\ s = SwapSteps[1] => next = SwapSteps[1 + 1]
        /\ s = SwapSteps[2] => next = SwapSteps[2 + 1]
        /\ s = SwapSteps[3] => next = SwapSteps[3 + 1]
        /\ s = SwapSteps[4] => next = SwapSteps[4 + 1]
        /\ s = SwapSteps[5] => next = SwapSteps[5 + 1]
    BY <2>2
  <2> QED BY <2>3, <2>4
<1>2. SwapSteps[1] = "approve_vkoin" BY DEF SwapSteps
<1>3. After(kind, s) = CASE s \in {"withdraw", "sell_fee"} -> "done"
                         [] s = "eth_redeem" -> IF kind = "B" THEN "sell_fee" ELSE "approve_vkoin"
                         [] s = "swap_usdt_eth" -> "sell_fee"
                         [] OTHER -> next
  BY <1>2 DEF After
<1> HIDE DEF next
<1> QED BY <1>1, <1>3, StepNames DEF Rank, SaleSteps, SpendSteps, TapSteps

LEMMA AfterTapIsLater ==
  ASSUME NEW s \in TapSteps
  PROVE  /\ AfterTap(s) \in SaleSteps
         /\ Rank(s) <= Rank(AfterTap(s))
         /\ s \in SpendSteps => Rank(s) < Rank(AfterTap(s))
BY DEF AfterTap, SaleSteps, TapSteps, SpendSteps, Rank

-----------------------------------------------------------------------------
(* The chains. *)



LEMMA ChainTypes ==
  ASSUME NEW c \in History
  PROVE  /\ Len(c) \in Nat /\ DOMAIN c = 1..Len(c)
         /\ \A i \in 1..Len(c) : c[i] \in Entry /\ c[i].tx \in Tx /\ c[i].ok \in BOOLEAN
<1>1. Len(c) \in Nat /\ DOMAIN c = 1..Len(c) BY LenProperties DEF History
<1>2. \A i \in 1..Len(c) : c[i] \in Entry BY ElementOfSeq DEF History
<1> QED BY <1>1, <1>2 DEF Entry

LEMMA FrontFacts ==
  ASSUME NEW c \in History, Len(c) > 0
  PROVE  /\ Front(c) \in History /\ Len(Front(c)) = Len(c) - 1
         /\ \A i \in 1..Len(c) - 1 : Front(c)[i] = c[i]
<1>1. Len(c) \in Nat /\ \A i \in 1..Len(c) - 1 : c[i] \in Entry BY ChainTypes
<1> DEFINE k == Len(c) - 1
<1>2. 1 \in Int /\ k \in Int /\ k \in Nat BY <1>1
<1> HIDE DEF k
<1>3. /\ SubSeq(c, 1, k) \in Seq(Entry) /\ Len(SubSeq(c, 1, k)) = IF 1 <= k THEN k - 1 + 1 ELSE 0
      /\ \A i \in 1..k - 1 + 1 : SubSeq(c, 1, k)[i] = c[1 + i - 1]
  BY <1>1, <1>2, SubSeqProperties DEF k
<1>4. Front(c) = SubSeq(c, 1, k) BY DEF Front, k
<1>5. Len(SubSeq(c, 1, k)) = k BY <1>2, <1>3
<1>6. \A i \in 1..k : SubSeq(c, 1, k)[i] = c[i] BY <1>2, <1>3
<1> QED BY <1>3, <1>4, <1>5, <1>6 DEF History, k

LEMMA AppendFacts ==
  ASSUME NEW c \in History, NEW t \in Tx, NEW ok \in BOOLEAN
  PROVE  LET d == Append(c, [tx |-> t, ok |-> ok])
         IN /\ d \in History /\ Len(d) = Len(c) + 1
            /\ \A i \in 1..Len(c) : d[i] = c[i]
            /\ d[Len(c) + 1].tx = t /\ d[Len(c) + 1].ok = ok
<1> DEFINE e == [tx |-> t, ok |-> ok]
<1>1. e \in Entry /\ e.tx = t /\ e.ok = ok BY DEF Entry
<1> HIDE DEF e
<1>2. /\ Append(c, e) \in History /\ Len(Append(c, e)) = Len(c) + 1
      /\ \A i \in 1..Len(c) : Append(c, e)[i] = c[i]
      /\ Append(c, e)[Len(c) + 1] = e
  BY <1>1, AppendProperties DEF History
<1> QED BY <1>1, <1>2 DEF e

\* What a step of a chain does: a transaction is executed, a block becomes final or is
\* abandoned, or some of what waits is forgotten.
Moves(c, d, p, c2, d2, p2, X) ==
  /\ c2 \in History /\ p2 \in SUBSET Tx /\ d2 \in 0..Len(c2)
  /\ \/ /\ Len(c2) = Len(c) + 1 /\ d2 = d
        /\ \A i \in 1..Len(c) : c2[i] = c[i]
        /\ c2[Len(c) + 1].tx \in p \cup X /\ c2[Len(c) + 1].tx.nonce = Len(c)
        /\ p2 = {t \in p : t.nonce > Len(c)}
     \/ c2 = c /\ d2 = d + 1 /\ p2 = p
     \/ /\ Len(c2) = Len(c) - 1 /\ d2 = d
        /\ \A i \in 1..Len(c) - 1 : c2[i] = c[i]
        /\ p2 \subseteq p \cup ({c[Len(c)].tx} \ X)
     \/ c2 = c /\ d2 = d /\ p2 \subseteq p

LEMMA EthMoves ==
  ASSUME TypedChains, Mine \/ Bury \/ Reorg \/ Drop
  PROVE  Moves(chain, deep, pool, chain', deep', pool', {})
<1>1. chain \in History /\ Len(chain) \in Nat /\ deep \in 0..Len(chain) /\ pool \subseteq Tx
  BY ChainTypes DEF TypedChains
<1>2. CASE Mine
  <2>1. PICK t \in pool, ok \in Outcomes :
          /\ t.nonce = Len(chain) /\ chain' = Append(chain, [tx |-> t, ok |-> ok])
          /\ pool' = {u \in pool : u.nonce > Len(chain)} /\ deep' = deep
    BY <1>2 DEF Mine
  <2>2. t \in Tx /\ ok \in BOOLEAN BY <1>1, <2>1 DEF Outcomes
  <2>3. /\ chain' \in History /\ Len(chain') = Len(chain) + 1
        /\ \A i \in 1..Len(chain) : chain'[i] = chain[i]
        /\ chain'[Len(chain) + 1].tx = t
    BY <1>1, <2>1, <2>2, AppendFacts
  <2> QED BY <1>1, <2>1, <2>3 DEF Moves
<1>3. CASE Bury BY <1>1, <1>3 DEF Bury, Moves
<1>4. CASE Reorg
  <2>1. /\ deep < Len(chain) /\ chain' = Front(chain) /\ deep' = deep
        /\ pool' \subseteq pool \cup {chain[Len(chain)].tx}
    BY <1>4 DEF Reorg, Last
  <2>2. /\ chain' \in History /\ Len(chain') = Len(chain) - 1
        /\ \A i \in 1..Len(chain) - 1 : chain'[i] = chain[i]
    BY <1>1, <2>1, FrontFacts
  <2>3. chain[Len(chain)].tx \in Tx BY <1>1, <2>1, ChainTypes
  <2> QED BY <1>1, <2>1, <2>2, <2>3 DEF Moves
<1>5. CASE Drop BY <1>1, <1>5 DEF Drop, Moves
<1> QED BY <1>2, <1>3, <1>4, <1>5

LEMMA KoinosMoves ==
  ASSUME TypedChains, KMine \/ OtherTx \/ KFinal \/ KReorg \/ KDrop
  PROVE  Moves(kchain, kfinal, kpool, kchain', kfinal', kpool', Others)
<1>1. kchain \in History /\ Len(kchain) \in Nat /\ kfinal \in 0..Len(kchain) /\ kpool \subseteq Tx
  BY ChainTypes DEF TypedChains
<1>2. ASSUME NEW t \in Tx, NEW ok \in BOOLEAN, t \in kpool \cup Others, t.nonce = Len(kchain),
             kchain' = Append(kchain, [tx |-> t, ok |-> ok]), kfinal' = kfinal,
             kpool' = {u \in kpool : u.nonce > Len(kchain)}
      PROVE  Moves(kchain, kfinal, kpool, kchain', kfinal', kpool', Others)
  <2>1. /\ kchain' \in History /\ Len(kchain') = Len(kchain) + 1
        /\ \A i \in 1..Len(kchain) : kchain'[i] = kchain[i]
        /\ kchain'[Len(kchain) + 1].tx = t
    BY <1>1, <1>2, AppendFacts
  <2> QED BY <1>1, <1>2, <2>1 DEF Moves
<1>3. CASE KMine
  <2>1. PICK t \in kpool, ok \in Outcomes :
          /\ t.nonce = Len(kchain) /\ kchain' = Append(kchain, [tx |-> t, ok |-> ok])
          /\ kpool' = {u \in kpool : u.nonce > Len(kchain)} /\ kfinal' = kfinal
    BY <1>3 DEF KMine
  <2>2. t \in Tx /\ ok \in BOOLEAN BY <1>1, <2>1 DEF Outcomes
  <2> QED BY <1>2, <2>1, <2>2
<1>4. CASE OtherTx
  <2> DEFINE t == [id |-> 0, step |-> "other", nonce |-> Len(kchain)]
  <2>1. t \in Tx /\ t \in Others /\ t.nonce = Len(kchain) BY <1>1 DEF Tx, Others
  <2>2. kchain' = Append(kchain, [tx |-> t, ok |-> TRUE])
    <3>1. [ok |-> TRUE, tx |-> t] = [tx |-> t, ok |-> TRUE] OBVIOUS
    <3> QED BY <1>4, <3>1 DEF OtherTx
  <2> HIDE DEF t
  <2>3. kpool' = {u \in kpool : u.nonce > Len(kchain)} /\ kfinal' = kfinal BY <1>4 DEF OtherTx
  <2> QED BY <1>2, <2>1, <2>2, <2>3
<1>5. CASE KFinal BY <1>1, <1>5 DEF KFinal, Moves
<1>6. CASE KReorg
  <2>1. kchain[Len(kchain)].tx \in Tx /\ kfinal < Len(kchain)
    BY <1>1, <1>6, ChainTypes DEF KReorg
  <2>2. /\ kchain' = Front(kchain) /\ kfinal' = kfinal
        /\ kpool' \subseteq kpool \cup ({kchain[Len(kchain)].tx} \ Others)
    BY <1>6 DEF KReorg, Last, Others
  <2>3. /\ kchain' \in History /\ Len(kchain') = Len(kchain) - 1
        /\ \A i \in 1..Len(kchain) - 1 : kchain'[i] = kchain[i]
    BY <1>1, <2>1, <2>2, FrontFacts
  <2> QED BY <1>1, <2>1, <2>2, <2>3 DEF Moves
<1>7. CASE KDrop BY <1>1, <1>7 DEF KDrop, Moves
<1> QED BY <1>3, <1>4, <1>5, <1>6, <1>7

-----------------------------------------------------------------------------
(* What a step of a chain keeps, for any set of journaled transactions. *)

LEMMA PlacedMoves ==
  ASSUME NEW c \in History, NEW d \in 0..Len(c), NEW p \in SUBSET Tx, NEW X \in SUBSET Tx,
         NEW c2, NEW d2, NEW p2, Moves(c, d, p, c2, d2, p2, X), PlacedOn(c, p)
  PROVE  PlacedOn(c2, p2)
<1>1. Len(c) \in Nat /\ DOMAIN c = 1..Len(c) /\ \A t \in p : t.nonce \in Nat
  BY ChainTypes DEF Tx
<1>2. Len(c2) \in Nat /\ DOMAIN c2 = 1..Len(c2) BY ChainTypes DEF Moves
<1>3. CASE /\ Len(c2) = Len(c) + 1 /\ \A i \in 1..Len(c) : c2[i] = c[i]
           /\ c2[Len(c) + 1].tx.nonce = Len(c) /\ p2 = {t \in p : t.nonce > Len(c)}
  <2>1. \A i \in 1..Len(c2) : i \in 1..Len(c) \/ i = Len(c) + 1 BY <1>1, <1>3
  <2>2. ASSUME NEW i \in 1..Len(c2) PROVE c2[i].tx.nonce = i - 1
    <3>1. CASE i \in 1..Len(c) BY <1>1, <1>3, <3>1 DEF PlacedOn
    <3>2. CASE i = Len(c) + 1 BY <1>1, <1>3, <3>2
    <3> QED BY <2>1, <3>1, <3>2
  <2>3. ASSUME NEW t \in p2 PROVE t.nonce >= Len(c2)
    <3>1. t \in p /\ t.nonce > Len(c) BY <1>3
    <3>2. t.nonce \in Nat BY <1>1, <3>1
    <3> QED BY <1>1, <1>3, <3>1, <3>2
  <2> QED BY <1>2, <2>2, <2>3 DEF PlacedOn
<1>4. CASE c2 = c /\ p2 \subseteq p BY <1>4 DEF PlacedOn
<1>5. CASE /\ Len(c2) = Len(c) - 1 /\ \A i \in 1..Len(c) - 1 : c2[i] = c[i]
           /\ p2 \subseteq p \cup {c[Len(c)].tx}
  <2>1. Len(c) \in DOMAIN c /\ c[Len(c)].tx.nonce = Len(c) - 1 BY <1>1, <1>2, <1>5 DEF PlacedOn
  <2>2. \A t \in p2 : t.nonce >= Len(c2) BY <1>1, <1>5, <2>1 DEF PlacedOn
  <2>3. \A i \in 1..Len(c2) : c2[i].tx.nonce = i - 1 BY <1>1, <1>2, <1>5 DEF PlacedOn
  <2> QED BY <1>2, <2>2, <2>3 DEF PlacedOn
<1> QED BY <1>3, <1>4, <1>5 DEF Moves

LEMMA HeldMoves ==
  ASSUME NEW c \in History, NEW d \in 0..Len(c), NEW p \in SUBSET Tx, NEW X \in SUBSET Tx,
         NEW c2, NEW d2, NEW p2, Moves(c, d, p, c2, d2, p2, X),
         NEW E, HeldOn(c, d, p, E, X)
  PROVE  HeldOn(c2, d2, p2, E, X)
<1>1. Len(c) \in Nat /\ d \in Nat BY ChainTypes
<1>2. CASE /\ Len(c2) = Len(c) + 1 /\ d2 = d /\ \A i \in 1..Len(c) : c2[i] = c[i]
           /\ c2[Len(c) + 1].tx \in p \cup X /\ p2 = {t \in p : t.nonce > Len(c)}
  <2>1. \A i \in d + 1..Len(c2) : i \in d + 1..Len(c) \/ i = Len(c) + 1 BY <1>1, <1>2
  <2>2. \A i \in d + 1..Len(c) : c2[i] = c[i] BY <1>1, <1>2
  <2> QED BY <1>2, <2>1, <2>2 DEF HeldOn
<1>3. CASE c2 = c /\ d2 \in {d, d + 1} /\ p2 \subseteq p BY <1>1, <1>3 DEF HeldOn
<1>4. CASE /\ Len(c2) = Len(c) - 1 /\ d2 = d /\ \A i \in 1..Len(c) - 1 : c2[i] = c[i]
           /\ p2 \subseteq p \cup ({c[Len(c)].tx} \ X)
  <2>1. Len(c) \in d + 1..Len(c)
    <3>1. Len(c2) \in Nat /\ d2 <= Len(c2) BY ChainTypes DEF Moves
    <3> QED BY <1>1, <1>4, <3>1
  <2>2. c[Len(c)].tx \in E \cup X BY <2>1 DEF HeldOn
  <2>3. p2 \subseteq E BY <1>4, <2>2 DEF HeldOn
  <2>4. \A i \in d + 1..Len(c2) : i \in d + 1..Len(c) /\ c2[i] = c[i] BY <1>1, <1>4
  <2> QED BY <1>4, <2>3, <2>4 DEF HeldOn
<1> QED BY <1>2, <1>3, <1>4 DEF Moves

\* What a step adds to a chain, if anything, is one transaction that waited.
Added(c, p, c2, X) ==
  \A i \in DOMAIN c2 : \/ i \in DOMAIN c /\ c2[i] = c[i]
                       \/ /\ i = Len(c) + 1 /\ i \notin DOMAIN c
                          /\ c2[i].tx \in p \cup X /\ c2[i].tx.nonce = Len(c)

LEMMA MovesAdds ==
  ASSUME NEW c \in History, NEW d, NEW p, NEW X, NEW c2, NEW d2, NEW p2,
         Moves(c, d, p, c2, d2, p2, X)
  PROVE  Added(c, p, c2, X)
<1>1. Len(c) \in Nat /\ DOMAIN c = 1..Len(c) BY ChainTypes
<1>2. Len(c2) \in Nat /\ DOMAIN c2 = 1..Len(c2) BY ChainTypes DEF Moves
<1>3. CASE /\ Len(c2) = Len(c) + 1 /\ \A i \in 1..Len(c) : c2[i] = c[i]
           /\ c2[Len(c) + 1].tx \in p \cup X /\ c2[Len(c) + 1].tx.nonce = Len(c)
  <2>1. \A i \in 1..Len(c2) : i \in 1..Len(c) \/ i = Len(c) + 1 BY <1>1, <1>3
  <2> QED BY <1>1, <1>2, <1>3, <2>1 DEF Added
<1>4. CASE c2 = c BY <1>1, <1>4 DEF Added
<1>5. CASE Len(c2) = Len(c) - 1 /\ \A i \in 1..Len(c) - 1 : c2[i] = c[i]
  BY <1>1, <1>2, <1>5 DEF Added
<1> QED BY <1>3, <1>4, <1>5 DEF Moves

LEMMA PassedMoves ==
  ASSUME NEW c \in History, NEW d \in 0..Len(c), NEW p \in SUBSET Tx, NEW X \in SUBSET Tx,
         NEW c2, NEW d2, NEW p2, Moves(c, d, p, c2, d2, p2, X),
         NEW j, NEW E, PassedOn(c, j, E),
         \A t \in p : t \in E \/ t.id # j.id, \A t \in X : t.id # j.id
  PROVE  PassedOn(c2, j, E)
<1>1. Added(c, p, c2, X) BY MovesAdds
<1> QED BY <1>1 DEF Added, PassedOn

LEMMA NumberedMoves ==
  ASSUME NEW c \in History, NEW d \in 0..Len(c), NEW p \in SUBSET Tx, NEW X \in SUBSET Tx,
         NEW c2, NEW d2, NEW p2, Moves(c, d, p, c2, d2, p2, X),
         NEW n, NumberedOn(c, n, X), \A t \in p : t.id \in 1..n
  PROVE  NumberedOn(c2, n, X)
<1>1. Added(c, p, c2, X) BY MovesAdds
<1> QED BY <1>1 DEF Added, NumberedOn

LEMMA NoneMoves ==
  ASSUME NEW c \in History, NEW d \in 0..Len(c), NEW p \in SUBSET Tx, NEW X \in SUBSET Tx,
         NEW c2, NEW d2, NEW p2, Moves(c, d, p, c2, d2, p2, X),
         NEW n, NoneOf(c, n), \A t \in p \cup X : t.id # n
  PROVE  NoneOf(c2, n)
<1>1. Added(c, p, c2, X) BY MovesAdds
<1> QED BY <1>1 DEF Added, NoneOf

\* A transaction that waits did not succeed yet, nor did its step.
LEMMA OnceMoves ==
  ASSUME NEW c \in History, NEW d \in 0..Len(c), NEW p \in SUBSET Tx, NEW X \in SUBSET Tx,
         NEW c2, NEW d2, NEW p2, Moves(c, d, p, c2, d2, p2, X), OnceOn(c),
         \A t \in X : t.step \notin SpendSteps,
         \A t \in p : t.nonce = Len(c) /\ t.step \in SpendSteps =>
           \A i \in DOMAIN c : ~(c[i].ok /\ c[i].tx.id = t.id /\ c[i].tx.step = t.step)
  PROVE  OnceOn(c2)
<1> SUFFICES ASSUME NEW i \in DOMAIN c2, NEW k \in DOMAIN c2, c2[i].tx.step \in SpendSteps,
                    c2[i].ok, c2[k].ok, c2[i].tx.step = c2[k].tx.step,
                    c2[i].tx.id = c2[k].tx.id
             PROVE  i = k
  BY DEF OnceOn
<1>1. Added(c, p, c2, X) BY MovesAdds
<1>2. ASSUME NEW m \in DOMAIN c2, NEW l \in DOMAIN c2, m \notin DOMAIN c, l \in DOMAIN c,
             c2[m].tx.step \in SpendSteps,
             c2[l].ok, c2[m].tx.step = c2[l].tx.step, c2[m].tx.id = c2[l].tx.id
      PROVE  FALSE
  <2>1. c2[m].tx \in p /\ c2[m].tx.nonce = Len(c) /\ c2[l] = c[l] BY <1>1, <1>2 DEF Added
  <2> QED BY <1>2, <2>1
<1>3. CASE i \in DOMAIN c /\ k \in DOMAIN c
  <2>1. c2[i] = c[i] /\ c2[k] = c[k] BY <1>1, <1>3 DEF Added
  <2> QED BY <1>3, <2>1 DEF OnceOn
<1>4. CASE i \notin DOMAIN c /\ k \notin DOMAIN c BY <1>1, <1>4 DEF Added
<1>5. CASE i \notin DOMAIN c /\ k \in DOMAIN c BY <1>2, <1>5
<1>6. CASE i \in DOMAIN c /\ k \notin DOMAIN c BY <1>2, <1>6
<1> QED BY <1>3, <1>4, <1>5, <1>6

LEMMA BookedMoves ==
  ASSUME NEW c \in History, NEW d \in 0..Len(c), NEW p \in SUBSET Tx, NEW X \in SUBSET Tx,
         NEW c2, NEW d2, NEW p2, Moves(c, d, p, c2, d2, p2, X),
         NEW n, NEW E, \A i \in d + 1..Len(c) : c[i].tx \in E \/ c[i].tx.id # n
  PROVE  BookedOn(c2, d2, n, E) = BookedOn(c, d, n, E)
<1>1. Len(c) \in Nat /\ d \in Nat /\ d <= Len(c) BY ChainTypes
<1>2. CASE c2 = c /\ d2 = d + 1
  <2>1. d + 1 \in d + 1..Len(c) BY <1>1, <1>2, ChainTypes DEF Moves
  <2> QED BY <1>1, <1>2, <2>1 DEF BookedOn
<1>3. CASE d2 = d /\ \A i \in 1..d : c2[i] = c[i] BY <1>3 DEF BookedOn
<1>4. CASE Len(c2) = Len(c) - 1 /\ d2 = d /\ \A i \in 1..Len(c) - 1 : c2[i] = c[i]
  <2>1. Len(c2) \in Nat /\ d <= Len(c2) BY <1>4, ChainTypes DEF Moves
  <2>2. \A i \in 1..d : c2[i] = c[i] BY <1>1, <1>4, <2>1
  <2> QED BY <1>3, <1>4, <2>2
<1>5. CASE d2 = d /\ \A i \in 1..Len(c) : c2[i] = c[i] BY <1>1, <1>3, <1>5
<1> QED BY <1>2, <1>3, <1>4, <1>5 DEF Moves

-----------------------------------------------------------------------------
(* The steps of the chains. *)

ChainStep == \/ Mine \/ Bury \/ Reorg \/ Drop
             \/ KMine \/ OtherTx \/ KFinal \/ KReorg \/ KDrop

BothMove == /\ Moves(chain, deep, pool, chain', deep', pool', {})
            /\ Moves(kchain, kfinal, kpool, kchain', kfinal', kpool', Others)

LEMMA ChainsMove ==
  ASSUME TypedChains, ChainStep
  PROVE  BothMove /\ UNCHANGED <<ledger, conv, memory>>
<1>1. UNCHANGED ethereum => Moves(chain, deep, pool, chain', deep', pool', {})
  BY DEF ethereum, Moves, TypedChains
<1>2. UNCHANGED koinos => Moves(kchain, kfinal, kpool, kchain', kfinal', kpool', Others)
  BY DEF koinos, Moves, TypedChains
<1>3. Mine \/ Bury \/ Reorg \/ Drop => UNCHANGED koinos /\ UNCHANGED <<ledger, conv, memory>>
  BY DEF Mine, Bury, Reorg, Drop
<1>4. KMine \/ OtherTx \/ KFinal \/ KReorg \/ KDrop =>
        UNCHANGED ethereum /\ UNCHANGED <<ledger, conv, memory>>
  BY DEF KMine, OtherTx, KFinal, KReorg, KDrop
<1> QED BY <1>1, <1>2, <1>3, <1>4, EthMoves, KoinosMoves DEF ChainStep, BothMove

LEMMA SideTypes ==
  ASSUME TypedChains
  PROVE  /\ chain \in History /\ deep \in 0..Len(chain) /\ pool \in SUBSET Tx
         /\ kchain \in History /\ kfinal \in 0..Len(kchain) /\ kpool \in SUBSET Tx
         /\ {} \in SUBSET Tx /\ Others \in SUBSET Tx
         /\ \A t \in Others : t.id = 0 /\ t.step = "other"
BY DEF TypedChains, Others

\* One current trade at most; so many trades as there are ids.
LEMMA KnownIsNat ==
  ASSUME Typed, Numbered
  PROVE  IsFiniteSet(trade) /\ IsFiniteSet(past \cup trade) /\ Known \in Nat
<1>1. trade = {} \/ \E j \in trade : trade = {j} BY DEF Numbered
<1>2. IsFiniteSet(trade)
  <2>1. CASE trade = {} BY <2>1, FS_EmptySet
  <2>2. ASSUME NEW j, trade = {j} PROVE IsFiniteSet(trade) BY <2>2, FS_Singleton
  <2> QED BY <1>1, <2>1, <2>2
<1>3. IsFiniteSet(past \cup trade) BY <1>2, FS_Union DEF Numbered
<1> QED BY <1>2, <1>3, FS_CardinalityType DEF Known

\* What waits is journaled in the current trade.
LEMMA WaitingIsJournaled ==
  ASSUME Typed, Current
  PROVE  /\ \A t \in pool : \E j \in trade : j.eth = {t} /\ t.id = j.id
         /\ \A t \in kpool : \E j \in trade : j.koin = {t} /\ t.id = j.id
         /\ \A i \in deep + 1..Len(chain) :
              \E j \in trade : j.eth = {chain[i].tx} /\ chain[i].tx.id = j.id
<1>1. CASE trade = {} BY <1>1 DEF Current, Held, HeldOn
<1>2. ASSUME NEW j \in trade
      PROVE  /\ \A t \in pool : j.eth = {t} /\ t.id = j.id
             /\ \A t \in kpool : j.koin = {t} /\ t.id = j.id
             /\ \A i \in deep + 1..Len(chain) : j.eth = {chain[i].tx} /\ chain[i].tx.id = j.id
  <2>1. Shaped(j) /\ Held(j.eth, j.koin) BY DEF Current, Fits
  <2>2. \A t \in j.eth : j.eth = {t} /\ t.id = j.id BY <2>1 DEF Shaped, Withdrawal, Sale
  <2>3. \A t \in j.koin : j.koin = {t} /\ t.id = j.id BY <2>1 DEF Shaped, Withdrawal, Sale
  <2> QED BY <2>1, <2>2, <2>3 DEF Held, HeldOn
<1> QED BY <1>1, <1>2

LEMMA TracedMoves ==
  ASSUME TypedChains, BothMove, NEW j, Shaped(j), j.id # 0, Traced(j),
         \A t \in pool : t \in j.eth \/ t.id # j.id,
         \A t \in kpool : t \in j.koin \/ t.id # j.id,
         \A i \in deep + 1..Len(chain) : chain[i].tx \in j.eth \/ chain[i].tx.id # j.id
  PROVE  Traced(j)'
<1>0. /\ chain \in History /\ deep \in 0..Len(chain) /\ pool \in SUBSET Tx
      /\ kchain \in History /\ kfinal \in 0..Len(kchain) /\ kpool \in SUBSET Tx
      /\ {} \in SUBSET Tx /\ Others \in SUBSET Tx
      /\ \A t \in Others : t.id # j.id
  BY SideTypes
<1>1. /\ Moves(chain, deep, pool, chain', deep', pool', {})
      /\ Moves(kchain, kfinal, kpool, kchain', kfinal', kpool', Others)
  BY DEF BothMove
<1>2. Passed(j)'
  <2>1. PassedOn(chain, j, j.eth) /\ PassedOn(kchain, j, j.koin) BY DEF Traced, Passed
  <2>2. PassedOn(chain', j, j.eth) BY <1>0, <1>1, <2>1, PassedMoves
  <2>3. PassedOn(kchain', j, j.koin) BY <1>0, <1>1, <2>1, PassedMoves
  <2> QED BY <2>2, <2>3 DEF Passed
<1>3. Booked(j)'
  <2>1. BookedOn(chain', deep', j.id, j.eth) = BookedOn(chain, deep, j.id, j.eth)
    BY <1>0, <1>1, BookedMoves
  <2> QED BY <2>1 DEF Traced, Booked
<1>4. Untouched(j)'
  <2> SUFFICES ASSUME ~j.moved, j.kind # "withdraw"
               PROVE  NoneOf(chain', j.id) /\ NoneOf(kchain', j.id)
    BY DEF Traced, Untouched
  <2>1. j.status \in {"sell_swap", "sell_bridge", "cancelled"} BY DEF Traced, Untouched
  <2>2. j.eth = {} /\ j.koin = {} BY <2>1, StepNames DEF Shaped, Sale, TapSteps
  <2>3. NoneOf(chain, j.id) /\ NoneOf(kchain, j.id) BY DEF Traced, Untouched
  <2>4. (\A t \in pool \cup {} : t.id # j.id) /\ (\A t \in kpool \cup Others : t.id # j.id)
    BY <1>0, <2>2
  <2>5. NoneOf(chain', j.id) BY <1>0, <1>1, <2>3, <2>4, NoneMoves
  <2>6. NoneOf(kchain', j.id) BY <1>0, <1>1, <2>3, <2>4, NoneMoves
  <2> QED BY <2>5, <2>6
<1> QED BY <1>2, <1>3, <1>4 DEF Traced

LEMMA HeldBothMove ==
  ASSUME Typed, TypedChains, BothMove, UNCHANGED queue, NEW E, NEW K, Held(E, K)
  PROVE  Held(E, K)'
<1>0. /\ chain \in History /\ deep \in 0..Len(chain) /\ pool \in SUBSET Tx
      /\ kchain \in History /\ kfinal \in 0..Len(kchain) /\ kpool \in SUBSET Tx
      /\ {} \in SUBSET Tx /\ Others \in SUBSET Tx
  BY SideTypes
<1>1. /\ Moves(chain, deep, pool, chain', deep', pool', {})
      /\ Moves(kchain, kfinal, kpool, kchain', kfinal', kpool', Others)
  BY DEF BothMove
<1>2. HeldOn(chain, deep, pool, E, {}) /\ HeldOn(kchain, kfinal, kpool, K, Others)
  BY DEF Held
<1>3. HeldOn(chain', deep', pool', E, {}) BY <1>0, <1>1, <1>2, HeldMoves
<1>4. HeldOn(kchain', kfinal', kpool', K, Others) BY <1>0, <1>1, <1>2, HeldMoves
<1>5. ASSUME NEW q \in queue', q.journaled PROVE q.tx \in K \/ q.tx.nonce < kfinal'
  <2>1. q \in queue /\ q.tx.nonce \in Nat BY <1>5 DEF Typed
  <2>2. q.tx \in K \/ q.tx.nonce < kfinal BY <1>5, <2>1 DEF Held
  <2>3. kfinal \in Nat /\ kfinal' \in {kfinal, kfinal + 1} BY <1>0, <1>1, ChainTypes DEF Moves
  <2> QED BY <2>1, <2>2, <2>3
<1> QED BY <1>3, <1>4, <1>5 DEF Held

LEMMA FitsMoves ==
  ASSUME Typed, TypedChains, BothMove, UNCHANGED queue, NEW j, j.id # 0, Fits(j)
  PROVE  Fits(j)'
<1>1. Shaped(j) /\ Held(j.eth, j.koin) /\ Traced(j) BY DEF Fits
<1>2. Held(j.eth, j.koin)' BY <1>1, HeldBothMove
<1>3. /\ \A t \in pool : t \in j.eth
      /\ \A t \in kpool : t \in j.koin
      /\ \A i \in deep + 1..Len(chain) : chain[i].tx \in j.eth
  BY <1>1 DEF Held, HeldOn
<1>4. Traced(j)' BY <1>1, <1>3, TracedMoves
<1>5. Shaped(j)' = Shaped(j) BY DEF Shaped, Withdrawal, Sale
<1> QED BY <1>1, <1>2, <1>4, <1>5 DEF Fits

\* What is journaled is not behind its trade.
LEMMA JournaledIsNotBehind ==
  ASSUME NEW j, Shaped(j)
  PROVE  (\A t \in j.eth : ~Behind(j, t.step)) /\ (\A t \in j.koin : ~Behind(j, t.step))
<1>1. \A s : Rank(s) \in Nat BY RankType
<1>2. \A s \in EthSteps : s # "error" /\ s # "koin_pending" BY StepNames
<1>3. ASSUME NEW t \in j.eth PROVE ~Behind(j, t.step)
  <2>1. \/ j.status = "withdraw_pending" /\ t.step = "withdraw"
        \/ j.status \in EthSteps /\ t.step = j.status
    BY <1>3 DEF Shaped, Withdrawal, Sale
  <2>2. Rank("withdraw") = Rank("withdraw_pending") BY DEF Rank
  <2>3. Behind(j, t.step) => Rank(t.step) < Rank(j.status) BY <2>1, <1>2 DEF Behind
  <2>4. Rank(t.step) = Rank(j.status) BY <2>1, <2>2
  <2> QED BY <1>1, <2>3, <2>4
<1>4. ASSUME NEW t \in j.koin PROVE ~Behind(j, t.step)
  <2>1. j.status = "koin_pending" BY <1>4 DEF Shaped, Withdrawal, Sale
  <2>2. Behind(j, t.step) => Rank(t.step) < Rank(t.step) BY <1>4, <2>1 DEF Behind
  <2> QED BY <1>1, <2>2
<1> QED BY <1>3, <1>4

\* A waiting transaction's step has not succeeded for its trade.
LEMMA WaitingIsFirst ==
  ASSUME Typed, TypedChains, Placed, Current
  PROVE  /\ \A t \in pool : t.nonce = Len(chain) /\ t.step \in SpendSteps =>
              \A i \in DOMAIN chain :
                ~(chain[i].ok /\ chain[i].tx.id = t.id /\ chain[i].tx.step = t.step)
         /\ \A t \in kpool : t.nonce = Len(kchain) /\ t.step \in SpendSteps =>
              \A i \in DOMAIN kchain :
                ~(kchain[i].ok /\ kchain[i].tx.id = t.id /\ kchain[i].tx.step = t.step)
<1>1. ASSUME NEW c \in History, PlacedOn(c, {}), NEW j, NEW E, PassedOn(c, j, E), NEW t,
             t.id = j.id, E = {t}, ~Behind(j, t.step), t.nonce = Len(c), t.step \in SpendSteps,
             NEW i \in DOMAIN c, c[i].ok, c[i].tx.id = t.id, c[i].tx.step = t.step
      PROVE  FALSE
  <2>1. c[i].tx = t BY <1>1 DEF PassedOn
  <2>2. c[i].tx.nonce = i - 1 BY <1>1 DEF PlacedOn
  <2>3. Len(c) \in Nat /\ i \in 1..Len(c) BY ChainTypes
  <2> QED BY <1>1, <2>1, <2>2, <2>3
<1>2. chain \in History /\ kchain \in History /\ PlacedOn(chain, {}) /\ PlacedOn(kchain, {})
  BY DEF TypedChains, Placed, PlacedOn
<1>3. ASSUME NEW j \in trade
      PROVE  /\ PassedOn(chain, j, j.eth) /\ PassedOn(kchain, j, j.koin)
             /\ \A t \in j.eth : ~Behind(j, t.step)
             /\ \A t \in j.koin : ~Behind(j, t.step)
  BY JournaledIsNotBehind DEF Current, Fits, Traced, Passed
<1>4. ASSUME NEW t \in pool, t.nonce = Len(chain), t.step \in SpendSteps,
             NEW i \in DOMAIN chain, chain[i].ok, chain[i].tx.id = t.id,
             chain[i].tx.step = t.step
      PROVE  FALSE
  <2>1. PICK j \in trade : j.eth = {t} /\ t.id = j.id BY WaitingIsJournaled
  <2> QED BY <1>1, <1>2, <1>3, <1>4, <2>1
<1>5. ASSUME NEW t \in kpool, t.nonce = Len(kchain), t.step \in SpendSteps,
             NEW i \in DOMAIN kchain, kchain[i].ok, kchain[i].tx.id = t.id,
             kchain[i].tx.step = t.step
      PROVE  FALSE
  <2>1. PICK j \in trade : j.koin = {t} /\ t.id = j.id BY WaitingIsJournaled
  <2> QED BY <1>1, <1>2, <1>3, <1>5, <2>1
<1> QED BY <1>4, <1>5

LEMMA ChainStepKeeps ==
  ASSUME TradeInv, ChainStep
  PROVE  TradeInv'
<1>0. /\ chain \in History /\ deep \in 0..Len(chain) /\ pool \in SUBSET Tx
      /\ kchain \in History /\ kfinal \in 0..Len(kchain) /\ kpool \in SUBSET Tx
      /\ {} \in SUBSET Tx /\ Others \in SUBSET Tx
      /\ \A t \in Others : t.id = 0 /\ t.step = "other"
  BY SideTypes DEF TradeInv
<1>1. BothMove /\ UNCHANGED <<ledger, conv, memory>> BY ChainsMove DEF TradeInv
<1>2. /\ Moves(chain, deep, pool, chain', deep', pool', {})
      /\ Moves(kchain, kfinal, kpool, kchain', kfinal', kpool', Others)
  BY <1>1 DEF BothMove
<1>3. trade' = trade /\ past' = past /\ conv' = conv /\ op' = op /\ intents' = intents
      /\ taps' = taps /\ queue' = queue
  BY <1>1 DEF ledger, memory
<1>4. Known \in Nat BY KnownIsNat DEF TradeInv
<1>5. /\ \A t \in pool : \E j \in trade : j.eth = {t} /\ t.id = j.id
      /\ \A t \in kpool : \E j \in trade : j.koin = {t} /\ t.id = j.id
      /\ \A i \in deep + 1..Len(chain) :
              \E j \in trade : j.eth = {chain[i].tx} /\ chain[i].tx.id = j.id
  BY WaitingIsJournaled DEF TradeInv
<1>6. \A j \in past \cup trade : j.id \in 1..Known /\ j.id # 0
  BY <1>4 DEF TradeInv, Numbered
<1>typed. Typed' BY <1>3 DEF TradeInv, Typed
<1>chains. TypedChains' BY <1>2 DEF Moves, TypedChains
<1>placed. Placed'
  <2>1. PlacedOn(chain, pool) /\ PlacedOn(kchain, kpool) BY DEF TradeInv, Placed
  <2>2. PlacedOn(chain', pool') BY <1>0, <1>2, <2>1, PlacedMoves
  <2>3. PlacedOn(kchain', kpool') BY <1>0, <1>2, <2>1, PlacedMoves
  <2> QED BY <2>2, <2>3 DEF Placed
<1>numbered. Numbered'
  <2>1. NumberedOn(chain, Known, {}) /\ NumberedOn(kchain, Known, Others)
    BY DEF TradeInv, Numbered
  <2>2. (\A t \in pool : t.id \in 1..Known) /\ (\A t \in kpool : t.id \in 1..Known)
    BY <1>5, <1>6
  <2> DEFINE n == Known
  <2>3. n = Known OBVIOUS
  <2> HIDE DEF n
  <2>4. NumberedOn(chain', n, {}) BY <1>0, <1>2, <2>1, <2>2, <2>3, NumberedMoves
  <2>5. NumberedOn(kchain', n, Others) BY <1>0, <1>2, <2>1, <2>2, <2>3, NumberedMoves
  <2>6. Known' = Known BY <1>3 DEF Known
  <2>7. n' = n BY <2>6 DEF n
  <2> QED BY <1>3, <2>4, <2>5, <2>6, <2>3 DEF TradeInv, Numbered
<1>past. PastOver'
  <2> SUFFICES ASSUME NEW p \in past PROVE (Shaped(p) /\ p.status \in Done /\ Traced(p))'
    BY <1>3 DEF PastOver
  <2>1. Shaped(p) /\ p.status \in Done /\ Traced(p) BY DEF TradeInv, PastOver
  <2>2. \A j \in trade : p.id # j.id BY DEF TradeInv, Numbered
  <2>3. Traced(p)' BY <1>1, <1>5, <1>6, <2>1, <2>2, TracedMoves DEF TradeInv
  <2> QED BY <2>1, <2>3 DEF Shaped, Withdrawal, Sale
<1>current. Current'
  <2>1. ASSUME NEW j \in trade PROVE Fits(j)'
    BY <1>1, <1>3, <1>6, FitsMoves DEF TradeInv, Current
  <2>2. ASSUME trade = {} PROVE Held({}, {})'
    BY <1>1, <1>3, <2>2, HeldBothMove DEF TradeInv, Current
  <2> QED BY <1>3, <2>1, <2>2 DEF Current
<1>saving. Saving'
  <2> SUFFICES ASSUME NEW o \in op, o.do = "save" PROVE Due(o.new)'
    BY <1>3 DEF Saving
  <2>1. PICK j : j = o.new OBVIOUS
  <2>2. Due(j) BY <2>1 DEF TradeInv, Saving
  <2>3. j.id # 0 BY <1>4, <1>6, <2>2 DEF Due
  <2>4. Fits(j)' BY <1>1, <1>3, <2>2, <2>3, FitsMoves DEF TradeInv, Due
  <2>5. Due(j)' BY <1>3, <2>2, <2>4 DEF Due, Known, Live
  <2> QED BY <1>3, <2>1, <2>5
<1>one. OneUserOfWallet' BY <1>3 DEF TradeInv, OneUserOfWallet, BuyBusy, Live
<1>once. OnceOn(chain)' /\ OnceOn(kchain)'
  <2>1. OnceOn(chain) /\ OnceOn(kchain) BY DEF TradeInv
  <2>2. \A t \in Others : t.step \notin SpendSteps BY <1>0 DEF SpendSteps
  <2>3. OnceOn(chain') BY <1>0, <1>2, <2>1, WaitingIsFirst, OnceMoves DEF TradeInv
  <2>4. OnceOn(kchain') BY <1>0, <1>2, <2>1, <2>2, WaitingIsFirst, OnceMoves DEF TradeInv
  <2> QED BY <2>3, <2>4
<1> QED BY <1>typed, <1>chains, <1>placed, <1>numbered, <1>past, <1>current, <1>saving,
           <1>one, <1>once DEF TradeInv

-----------------------------------------------------------------------------
(* Steps that leave the trades and what the chains have executed alone. *)

UnmovedVars == <<chain, deep, kchain, kfinal>>

LEMMA TracedStays ==
  ASSUME UNCHANGED UnmovedVars, NEW j
  PROVE  Shaped(j)' = Shaped(j) /\ Traced(j)' = Traced(j)
BY DEF UnmovedVars, Shaped, Withdrawal, Sale, Traced, Passed, PassedOn, Behind, Booked, BookedOn,
       Untouched, NoneOf

LEMMA HeldStays ==
  ASSUME UNCHANGED <<koinos, ethereum>>, NEW E, NEW K, Held(E, K),
         \A q \in queue' : q.journaled => q \in queue
  PROVE  Held(E, K)'
BY DEF koinos, ethereum, Held, HeldOn

LEMMA DueStays ==
  ASSUME UNCHANGED <<ledger, koinos, ethereum>>, \A q \in queue' : q.journaled => q \in queue,
         NEW r, Due(r)
  PROVE  Due(r)'
<1>1. UNCHANGED UnmovedVars BY DEF koinos, ethereum, UnmovedVars
<1>2. Fits(r)' BY <1>1, TracedStays, HeldStays DEF Due, Fits
<1> QED BY <1>2 DEF Due, ledger, Known, Live

LEMMA QuietStep ==
  ASSUME TradeInv, UNCHANGED <<ledger, UnmovedVars>>, Typed', TypedChains', Placed',
         OneUserOfWallet', Saving',
         \A j \in trade : Held(j.eth, j.koin)', trade = {} => Held({}, {})'
  PROVE  TradeInv'
<1>0. trade' = trade /\ past' = past /\ UNCHANGED UnmovedVars BY DEF ledger
<1>1. Numbered' BY <1>0 DEF TradeInv, Numbered, NumberedOn, Known, UnmovedVars
<1>2. PastOver' BY <1>0, TracedStays DEF TradeInv, PastOver
<1>3. Current'
  <2>1. ASSUME NEW j \in trade PROVE Fits(j)'
    BY <1>0, TracedStays DEF TradeInv, Current, Fits
  <2> QED BY <1>0, <2>1 DEF Current
<1>4. OnceOn(chain)' /\ OnceOn(kchain)' BY <1>0 DEF TradeInv, OnceOn, UnmovedVars
<1> QED BY <1>1, <1>2, <1>3, <1>4 DEF TradeInv

\* Nothing but memory and the conversion changes.
LEMMA MemoryStep ==
  ASSUME TradeInv, UNCHANGED <<ledger, koinos, ethereum>>, Typed', OneUserOfWallet',
         \A q \in queue' : q.journaled => q \in queue,
         \A o \in op' : o.do = "save" => o \in op \/ Due(o.new)
  PROVE  TradeInv'
<1>1. UNCHANGED UnmovedVars BY DEF koinos, ethereum, UnmovedVars
<1>2. TypedChains' /\ Placed' BY DEF TradeInv, TypedChains, Placed, PlacedOn, koinos, ethereum
<1>3. Saving'
  <2> SUFFICES ASSUME NEW o \in op', o.do = "save" PROVE Due(o.new)'
    BY DEF Saving
  <2>1. PICK r : r = o.new OBVIOUS
  <2>2. Due(r) BY <2>1 DEF TradeInv, Saving
  <2>3. Due(r)' BY <2>2, DueStays
  <2>4. PICK u : u = o OBVIOUS
  <2>5. Due(u.new)' BY <2>1, <2>3, <2>4
  <2> QED BY <2>4, <2>5
<1>4. ASSUME NEW j \in trade PROVE Held(j.eth, j.koin)'
  BY HeldStays DEF TradeInv, Current, Fits
<1>5. trade = {} => Held({}, {})' BY HeldStays DEF TradeInv, Current
<1> QED BY <1>1, <1>2, <1>3, <1>4, <1>5, QuietStep

LEMMA ConvertKeeps == ASSUME TradeInv, Convert PROVE TradeInv'
<1>1. UNCHANGED <<ledger, koinos, ethereum>> /\ queue' = queue /\ op' = op
  BY DEF Convert, memory
<1>2. Typed' BY DEF TradeInv, Typed, Convert, ConvStart, ConvMove, ledger, memory
<1>3. OneUserOfWallet'
  BY <1>1 DEF Convert, ConvStart, ConvMove, TradeInv, OneUserOfWallet, BuyBusy, Blocks, Live,
              ledger, Typed
<1> QED BY <1>1, <1>2, <1>3, MemoryStep

LEMMA IntentsKeep ==
  ASSUME TradeInv, Prepare \/ Submit \/ Refused \/ ApprovalFails \/ Expire \/ Crash
  PROVE  TradeInv'
<1>1. UNCHANGED <<ledger, koinos, ethereum>> /\ queue' \in {queue, {}}
  BY DEF Prepare, Submit, Refused, ApprovalFails, Expire, Crash
<1>2. \A o \in op' : o.do = "save" => o \in op
  <2>1. CASE Submit BY <2>1 DEF Submit
  <2> QED BY <2>1 DEF Prepare, Refused, ApprovalFails, Expire, Crash
<1>3. conv' = conv \/ (conv = "starting" /\ conv' = "none")
  BY DEF Prepare, Submit, Refused, ApprovalFails, Expire, Crash
<1>4. OneUserOfWallet'
  BY <1>1, <1>2, <1>3 DEF TradeInv, OneUserOfWallet, BuyBusy, Live, ledger
<1>5. Typed'
  <2>1. trade' \subseteq Trades /\ past' \subseteq Trades BY <1>1 DEF TradeInv, Typed, ledger
  <2>2. conv' \in {"none", "starting", "live", "done", "error"} BY <1>3 DEF TradeInv, Typed
  <2>3. intents' \subseteq Intents
    <3>1. CASE Prepare
      <4>1. \A j \in Live : j.id \in Nat BY DEF TradeInv, Typed, Live, Trades
      <4>2. intents \subseteq Intents BY DEF TradeInv, Typed
      <4>3. ASSUME NEW k \in Kinds \cup {"retry", "cancel"}, NEW n \in Nat,
                   intents' = intents \cup {[kind |-> k, id |-> n]}
            PROVE  intents' \subseteq Intents
        BY <4>2, <4>3 DEF Intents
      <4>4. CASE \E k \in Kinds : intents' = intents \cup {[kind |-> k, id |-> 0]}
        BY <4>3, <4>4
      <4>5. CASE \E j \in Live : intents' = intents \cup {[kind |-> "retry", id |-> j.id]}
        BY <4>1, <4>3, <4>5
      <4>6. CASE \E j \in Live : intents' = intents \cup {[kind |-> "cancel", id |-> j.id]}
        BY <4>1, <4>3, <4>6
      <4> QED BY <3>1, <4>4, <4>5, <4>6 DEF Prepare
    <3> QED BY <3>1 DEF TradeInv, Typed, Submit, Refused, ApprovalFails, Expire, Crash
  <2>4. op' \subseteq [do : {"approve"}, intent : Intents] \cup [do : {"save"}, new : Trades]
    <3>1. CASE Submit
      <4>1. PICK i \in intents : op' = {[do |-> "approve", intent |-> i]} BY <3>1 DEF Submit
      <4>2. i \in Intents BY DEF TradeInv, Typed
      <4> HIDE DEF Intents
      <4> QED BY <4>1, <4>2
    <3> QED BY <3>1 DEF TradeInv, Typed, Prepare, Refused, ApprovalFails, Expire, Crash
  <2>5. taps' \subseteq [id : Nat, step : TapSteps, nonce : Nat]
    BY DEF TradeInv, Typed, Prepare, Submit, Refused, ApprovalFails, Expire, Crash
  <2>6. queue' \subseteq [tx : [id : Nat, step : TapSteps, nonce : Nat], journaled : BOOLEAN]
    BY <1>1 DEF TradeInv, Typed
  <2> QED BY <2>1, <2>2, <2>3, <2>4, <2>5, <2>6 DEF Typed
<1> QED BY <1>1, <1>2, <1>4, <1>5, MemoryStep

LEMMA TapsKeep == ASSUME TradeInv, PrepareTap \/ SubmitTap PROVE TradeInv'
<1>1. UNCHANGED <<ledger, koinos, ethereum>> /\ op' = op /\ conv' = conv /\ intents' = intents
  BY DEF PrepareTap, SubmitTap
<1>2. \A q \in queue' : q.journaled => q \in queue BY DEF PrepareTap, SubmitTap
<1>3. OneUserOfWallet' BY <1>1 DEF TradeInv, OneUserOfWallet, BuyBusy, Live, ledger
<1> DEFINE TapTx == [id : Nat, step : TapSteps, nonce : Nat]
<1>4. taps \subseteq TapTx /\ queue \subseteq [tx : TapTx, journaled : BOOLEAN]
  BY DEF TradeInv, Typed
<1>5. taps' \subseteq TapTx /\ queue' \subseteq [tx : TapTx, journaled : BOOLEAN]
  <2>1. CASE PrepareTap
    <3>1. PICK j \in Live : /\ j.status \in TapSteps
                            /\ taps' = taps \cup {[id |-> j.id, step |-> j.status,
                                                   nonce |-> Len(kchain)]}
      BY <2>1 DEF PrepareTap
    <3>2. j.id \in Nat BY DEF TradeInv, Typed, Live, Trades
    <3>3. Len(kchain) \in Nat BY ChainTypes DEF TradeInv, TypedChains
    <3>4. [id |-> j.id, step |-> j.status, nonce |-> Len(kchain)] \in TapTx
      BY <3>1, <3>2, <3>3
    <3> QED BY <1>4, <2>1, <3>1, <3>4 DEF PrepareTap
  <2>2. CASE SubmitTap
    <3>1. PICK t \in taps : taps' = taps \ {t} /\ queue' = {[tx |-> t, journaled |-> FALSE]}
      BY <2>2 DEF SubmitTap
    <3> HIDE DEF TapTx
    <3> QED BY <1>4, <3>1
  <2> QED BY <2>1, <2>2
<1>6. Typed' BY <1>1, <1>5 DEF TradeInv, Typed, ledger
<1> QED BY <1>1, <1>2, <1>3, <1>6, MemoryStep

-----------------------------------------------------------------------------
(* Steps that hand a transaction to a node. *)

LEMMA SendStep ==
  ASSUME TradeInv, UNCHANGED <<ledger, UnmovedVars, conv, intents, op, taps>>,
         pool' \in SUBSET Tx, kpool' \in SUBSET Tx, queue' \subseteq queue,
         \A t \in pool' : t \in pool \/ t.nonce >= Len(chain),
         \A t \in kpool' : t \in kpool \/ t.nonce >= Len(kchain),
         Saving', \A j \in trade : Held(j.eth, j.koin)', trade = {} => Held({}, {})'
  PROVE  TradeInv'
<1>1. Typed' BY DEF TradeInv, Typed, ledger
<1>2. TypedChains' BY DEF TradeInv, TypedChains, UnmovedVars
<1>3. Placed' BY DEF TradeInv, Placed, PlacedOn, UnmovedVars
<1>4. OneUserOfWallet' BY DEF TradeInv, OneUserOfWallet, BuyBusy, Live, ledger
<1> QED BY <1>1, <1>2, <1>3, <1>4, QuietStep

LEMMA ResendKeeps == ASSUME TradeInv, NEW j \in trade, Broadcast(j) \/ Resend(j) PROVE TradeInv'
<1>0. /\ UNCHANGED <<ledger, UnmovedVars, conv, intents, op, taps>> /\ queue' = queue
      /\ op = {}
  BY DEF Broadcast, Resend, memory, koinos, ethereum, UnmovedVars, Visits
<1>1. Shaped(j) /\ Held(j.eth, j.koin) /\ \A k \in trade : k = j
  BY DEF TradeInv, Current, Fits, Numbered
<1>2. j.eth \subseteq Tx /\ j.koin \subseteq Tx BY DEF TradeInv, Typed, Trades
<1>3. pool \in SUBSET Tx /\ kpool \in SUBSET Tx BY DEF TradeInv, TypedChains
<1>4. CASE Broadcast(j)
  <2>1. PICK t \in j.eth : t.nonce >= Len(chain) /\ pool' = pool \cup {t} BY <1>4 DEF Broadcast
  <2>2. kpool' = kpool BY <1>4 DEF Broadcast, koinos
  <2>3. Held(j.eth, j.koin)' BY <1>0, <1>1, <2>1, <2>2 DEF Held, HeldOn, UnmovedVars
  <2> QED BY <1>0, <1>1, <1>2, <1>3, <2>1, <2>2, <2>3, SendStep DEF Saving
<1>5. CASE Resend(j)
  <2>1. PICK t \in j.koin : t.nonce >= Len(kchain) /\ kpool' = kpool \cup {t} BY <1>5 DEF Resend
  <2>2. pool' = pool BY <1>5 DEF Resend, ethereum
  <2>3. Held(j.eth, j.koin)' BY <1>0, <1>1, <2>1, <2>2 DEF Held, HeldOn, UnmovedVars
  <2> QED BY <1>0, <1>1, <1>2, <1>3, <2>1, <2>2, <2>3, SendStep DEF Saving
<1> QED BY <1>4, <1>5

LEMMA SendTapKeeps == ASSUME TradeInv, SendTap PROVE TradeInv'
<1>0. UNCHANGED <<ledger, UnmovedVars, conv, intents, op, taps>> /\ queue' = {} /\ pool' = pool
  BY DEF SendTap, ethereum, UnmovedVars
<1>1. PICK q \in queue : /\ q.journaled
                         /\ \/ kpool' = kpool
                            \/ q.tx.nonce >= Len(kchain) /\ kpool' = kpool \cup {q.tx}
  BY DEF SendTap
<1>2. pool \in SUBSET Tx /\ kpool \in SUBSET Tx /\ q.tx \in Tx /\ q.tx.nonce \in Nat
  BY DEF TradeInv, TypedChains, Typed, Tx
<1>3. kfinal \in Nat /\ Len(kchain) \in Nat /\ kfinal <= Len(kchain)
  BY ChainTypes DEF TradeInv, TypedChains
<1>4. ASSUME NEW E, NEW K, Held(E, K) PROVE Held(E, K)'
  <2>1. q.tx \in K \/ q.tx.nonce < kfinal BY <1>1, <1>4 DEF Held
  <2>2. kpool' \subseteq K BY <1>1, <1>2, <1>3, <1>4, <2>1 DEF Held, HeldOn
  <2> QED BY <1>0, <1>4, <2>2 DEF Held, HeldOn, UnmovedVars
<1>5. Saving'
  <2> SUFFICES ASSUME NEW o \in op, o.do = "save" PROVE Due(o.new)' BY <1>0 DEF Saving
  <2>1. PICK r : r = o.new OBVIOUS
  <2>2. Due(r) BY <2>1 DEF TradeInv, Saving
  <2>3. Fits(r)' BY <1>0, <1>4, <2>2, TracedStays DEF Due, Fits
  <2>4. Due(r)' BY <1>0, <2>2, <2>3 DEF Due, ledger, Known, Live
  <2> QED BY <1>0, <2>1, <2>4
<1>6. (\A j \in trade : Held(j.eth, j.koin)') /\ (trade = {} => Held({}, {})')
  BY <1>4 DEF TradeInv, Current, Fits
<1> QED BY <1>0, <1>1, <1>2, <1>5, <1>6, SendStep

-----------------------------------------------------------------------------
(* Saves. *)

LEMMA NoneIsBooked ==
  ASSUME NEW c \in History, NEW d \in 0..Len(c), NEW n, NEW E, NoneOf(c, n)
  PROVE  BookedOn(c, d, n, E) = {}
<1>1. Len(c) \in Nat /\ DOMAIN c = 1..Len(c) BY ChainTypes
<1>2. \A i \in 1..d : i \in DOMAIN c BY <1>1
<1> QED BY <1>2 DEF BookedOn, NoneOf

\* A trade that is over has nothing journaled.
LEMMA OverIsEmpty ==
  ASSUME NEW j, Shaped(j), j.status \in Done
  PROVE  j.eth = {} /\ j.koin = {}
<1>1. j.status \notin EthSteps /\ j.status # "koin_pending" /\ j.status # "withdraw_pending"
  BY StepNames DEF Done
<1> QED BY <1>1 DEF Shaped, Withdrawal, Sale

\* What is saved becomes the current trade; a different one that was over is remembered.
LEMMA SaveStep ==
  ASSUME TradeInv, UNCHANGED <<koinos, ethereum>>, NEW r, Save(r), Fits(r)',
         \/ \E j \in trade : j.id = r.id
         \/ r.id = Known + 1 /\ Live = {},
         Typed', OneUserOfWallet', \A o \in op' : o.do # "save"
  PROVE  TradeInv'
<1>0. /\ UNCHANGED UnmovedVars /\ trade' = {r}
      /\ past' = past \cup {k \in trade : k.id # r.id}
  BY DEF Save, koinos, ethereum, UnmovedVars
<1>1. TypedChains' /\ Placed' BY DEF TradeInv, TypedChains, Placed, PlacedOn, koinos, ethereum
<1>2. IsFiniteSet(trade) /\ IsFiniteSet(past \cup trade) /\ Known \in Nat /\ IsFiniteSet(past)
  BY KnownIsNat DEF TradeInv, Numbered
<1>3. \A j \in trade : r.id # j.id => j.status \in Done
  BY DEF TradeInv, Numbered, Live
<1>4. PastOver'
  <2>1. ASSUME NEW p \in past' PROVE Shaped(p) /\ p.status \in Done /\ Traced(p)
    BY <1>0, <1>3, <2>1 DEF TradeInv, PastOver, Current, Fits
  <2>2. ASSUME NEW p \in past' PROVE (Shaped(p) /\ p.status \in Done /\ Traced(p))'
    BY <1>0, <2>1, TracedStays
  <2> QED BY <2>2 DEF PastOver
<1>5. Current' BY <1>0 DEF Current
<1>6. Numbered'
  <2>1. past' \subseteq past \cup trade BY <1>0
  <2>2. IsFiniteSet(past') BY <1>2, <2>1, FS_Subset
  <2>3. \A p \in past' : p.id # r.id
    <3>1. CASE \E j \in trade : j.id = r.id BY <1>0, <3>1 DEF TradeInv, Numbered
    <3>2. CASE r.id = Known + 1
      <4>1. \A j \in past \cup trade : j.id \in 1..Known BY DEF TradeInv, Numbered
      <4> QED BY <1>2, <2>1, <3>2, <4>1
    <3> QED BY <3>1, <3>2
  <2>4. r \notin past' BY <2>3
  <2>5. Known' = Cardinality(past') + 1
    <3>1. Cardinality(past' \cup {r}) = Cardinality(past') + 1 BY <2>2, <2>4, FS_AddElement
    <3> QED BY <1>0, <3>1 DEF Known
  <2>6. Known' >= Known /\ Known' \in Nat /\ r.id \in 1..Known'
    <3>1. CASE \E j \in trade : j.id = r.id
      <4>1. PICK j \in trade : j.id = r.id BY <3>1
      <4>2. past' = past /\ trade = {j} /\ j \notin past
        BY <1>0, <4>1 DEF TradeInv, Numbered
      <4>3. Cardinality(past \cup {j}) = Cardinality(past) + 1 BY <1>2, <4>2, FS_AddElement
      <4>4. Known' = Known BY <2>5, <4>2, <4>3 DEF Known
      <4>5. j.id \in 1..Known BY DEF TradeInv, Numbered
      <4> QED BY <1>2, <4>1, <4>4, <4>5
    <3>2. CASE r.id = Known + 1 /\ ~\E j \in trade : j.id = r.id
      <4>1. past' = past \cup trade BY <1>0, <3>2
      <4>2. Known' = Known + 1 BY <2>5, <4>1 DEF Known
      <4> QED BY <1>2, <3>2, <4>2
    <3> QED BY <3>1, <3>2
  <2>7. \A n \in 1..Known : n \in 1..Known' BY <1>2, <2>6
  <2>8. \A j \in past' \cup trade' : j.id \in 1..Known'
    BY <1>0, <2>1, <2>6, <2>7 DEF TradeInv, Numbered
  <2>9. NumberedOn(chain, Known, {})' /\ NumberedOn(kchain, Known, Others)'
    BY <1>0, <2>7 DEF TradeInv, Numbered, NumberedOn, UnmovedVars
  <2> QED BY <1>0, <2>2, <2>3, <2>8, <2>9 DEF Numbered
<1>7. Saving' BY DEF Saving
<1>8. OnceOn(chain)' /\ OnceOn(kchain)' BY <1>0 DEF TradeInv, OnceOn, UnmovedVars
<1> QED BY <1>1, <1>4, <1>5, <1>6, <1>7, <1>8 DEF TradeInv

LEMMA CommitKeeps == ASSUME TradeInv, Commit PROVE TradeInv'
<1>1. PICK o \in op : /\ o.do = "save" /\ Save(o.new) /\ op' = {}
                      /\ UNCHANGED <<conv, intents, taps, queue, koinos, ethereum>>
  BY DEF Commit
<1>2. PICK r : r = o.new OBVIOUS
<1>3. Due(r) /\ r \in Trades
  BY <1>1, <1>2 DEF TradeInv, Saving, Due, Fits, Shaped
<1>4. Save(r) BY <1>1, <1>2
<1>5. UNCHANGED UnmovedVars BY <1>1 DEF koinos, ethereum, UnmovedVars
<1>6. Fits(r)' BY <1>1, <1>3, <1>5, TracedStays, HeldStays DEF Due, Fits
<1>7. Typed' BY <1>1, <1>3, <1>4 DEF TradeInv, Typed, Save
<1>8. ~BuyBusy BY <1>1 DEF TradeInv, OneUserOfWallet
<1>9. OneUserOfWallet' BY <1>1, <1>8 DEF OneUserOfWallet, BuyBusy
<1> QED BY <1>1, <1>3, <1>4, <1>6, <1>7, <1>9, SaveStep DEF Due

\* An approved Retry or cancellation.
LEMMA UpdatedFits ==
  ASSUME TradeInv, NEW i, NEW r \in Updated(i)
  PROVE  Fits(r) /\ \E j \in Live : j.id = r.id
<1>1. PICK j \in Live :
        /\ r = [j EXCEPT !.status = IF i.kind = "cancel" THEN "cancelled" ELSE j.failedAt]
        /\ IF i.kind = "cancel" THEN Cancellable(j) ELSE j.status = "error"
  BY DEF Updated
<1>2. j \in trade /\ j.status \notin Done BY DEF Live
<1>3. Shaped(j) /\ Held(j.eth, j.koin) /\ Passed(j) /\ Booked(j) /\ Untouched(j)
  BY <1>2 DEF TradeInv, Current, Fits, Traced
<1>4. j \in Trades BY <1>3 DEF Shaped
<1>5. PICK s : s = (IF i.kind = "cancel" THEN "cancelled" ELSE j.failedAt) OBVIOUS
<1>6. r = [j EXCEPT !.status = s] BY <1>1, <1>5
<1>7. /\ r.id = j.id /\ r.kind = j.kind /\ r.status = s /\ r.failedAt = j.failedAt
      /\ r.moved = j.moved /\ r.eth = j.eth /\ r.koin = j.koin /\ r.gas = j.gas
  BY <1>4, <1>6 DEF Trades
<1>8. j.kind # "withdraw" /\ j.eth = {} /\ j.koin = {} /\ s \in SaleSteps \cup {"cancelled"}
  <2>1. "error" \notin EthSteps BY StepNames
  <2>2. CASE i.kind = "cancel"
    <3>1. j.eth = {} /\ j.koin = {} BY <1>1, <2>2 DEF Cancellable
    <3>2. j.kind = "withdraw" => FALSE BY <1>2, <1>3, <3>1 DEF Shaped, Withdrawal, Done
    <3> QED BY <1>5, <2>2, <3>1, <3>2
  <2>3. CASE i.kind # "cancel"
    <3>1. j.status = "error" BY <1>1, <2>3
    <3>2. j.kind # "withdraw" BY <1>3, <3>1 DEF Shaped, Withdrawal
    <3>3. j.failedAt \in SaleSteps /\ j.eth = {} /\ j.koin = {}
      BY <1>3, <2>1, <3>1, <3>2 DEF Shaped, Sale
    <3> QED BY <1>5, <2>3, <3>2, <3>3
  <2> QED BY <2>2, <2>3
<1>9. s \in Status /\ s # "error" /\ s # "koin_pending"
  BY <1>8, StepNames DEF SaleSteps, Status, Done, TapSteps
<1>10. r \in Trades BY <1>4, <1>6, <1>9 DEF Trades
<1>11. Shaped(r) BY <1>3, <1>7, <1>8, <1>9, <1>10 DEF Shaped, Sale
<1>12. Held(r.eth, r.koin) BY <1>3, <1>7
<1>13. Untouched(r)
  <2>1. CASE i.kind = "cancel"
    <3>1. ~j.moved /\ s = "cancelled" BY <1>1, <1>5, <2>1 DEF Cancellable
    <3> QED BY <1>3, <1>7, <1>8, <3>1 DEF Untouched
  <2>2. CASE i.kind # "cancel"
    <3>1. j.status = "error" BY <1>1, <2>2
    <3>2. j.moved BY <1>3, <1>4, <1>8, <3>1 DEF Untouched, Trades
    <3>3. s # "cancelled" BY <1>3, <1>5, <1>8, <2>2, <3>1, StepNames
            DEF Shaped, Sale, SaleSteps, TapSteps
    <3> QED BY <1>7, <3>2, <3>3 DEF Untouched
  <2> QED BY <2>1, <2>2
<1>14. Passed(r)
  <2>1. CASE i.kind = "cancel"
    <3>1. NoneOf(chain, j.id) /\ NoneOf(kchain, j.id)
      BY <1>1, <1>3, <1>8, <2>1 DEF Cancellable, Untouched
    <3> QED BY <1>7, <3>1 DEF Passed, PassedOn, NoneOf
  <2>2. CASE i.kind # "cancel"
    <3>1. j.status = "error" /\ s = j.failedAt BY <1>1, <1>5, <2>2
    <3>2. \A x : Behind(j, x) => Behind(r, x) BY <1>7, <1>9, <3>1 DEF Behind
    <3> QED BY <1>3, <1>7, <3>2 DEF Passed, PassedOn
  <2> QED BY <2>1, <2>2
<1>15. Booked(r) BY <1>3, <1>7 DEF Booked
<1> QED BY <1>7, <1>11, <1>12, <1>13, <1>14, <1>15 DEF Fits, Traced

\* Two transactions of a chain have different nonces.
LEMMA PlaceIsUnique ==
  ASSUME NEW c \in History, NEW p, PlacedOn(c, p),
         NEW i \in DOMAIN c, NEW k \in DOMAIN c, c[i].tx = c[k].tx
  PROVE  i = k
<1>1. Len(c) \in Nat /\ DOMAIN c = 1..Len(c) BY ChainTypes
<1>2. i - 1 = k - 1 BY DEF PlacedOn
<1> QED BY <1>1, <1>2

\* An approved new trade: nothing of the one before is left, nothing has its number.
LEMMA NewTradeFits ==
  ASSUME TradeInv, NEW k \in Kinds, Live = {}
  PROVE  Fits(NewTrade(k, Known + 1))
<1>1. PICK n : n = Known + 1 OBVIOUS
<1>2. PICK r : r = NewTrade(k, n) OBVIOUS
<1>3. Known \in Nat /\ n \in Nat /\ n # 0 /\ \A m \in 1..Known : m # n
  BY <1>1, KnownIsNat DEF TradeInv
<1>4. Len(chain) \in Nat /\ chain \in History /\ kchain \in History /\ deep \in 0..Len(chain)
  BY ChainTypes DEF TradeInv, TypedChains
<1>5. PICK t : t = [id |-> n, step |-> "withdraw", nonce |-> Len(chain)] OBVIOUS
<1>6. t \in Tx /\ t.id = n /\ t.step = "withdraw" BY <1>3, <1>4, <1>5, StepNames DEF Tx
<1>7. PICK s : s = CASE k = "B" -> "sell_swap" [] k = "C" -> "sell_bridge"
                     [] k = "withdraw" -> "withdraw_pending"
  OBVIOUS
<1>8. /\ s \in {"sell_swap", "sell_bridge", "withdraw_pending"}
      /\ k = "withdraw" <=> s = "withdraw_pending"
  BY <1>7, Bounds
<1>9. r = [id |-> n, kind |-> k, status |-> s, failedAt |-> "none", moved |-> FALSE,
           eth |-> IF k = "withdraw" THEN {t} ELSE {}, koin |-> {}, gas |-> 0]
  BY <1>2, <1>5, <1>7 DEF NewTrade
<1>10. /\ r.id = n /\ r.kind = k /\ r.status = s /\ r.moved = FALSE
       /\ r.eth = (IF k = "withdraw" THEN {t} ELSE {}) /\ r.koin = {} /\ r.gas = 0
  BY <1>9
<1>11. r \in Trades BY <1>3, <1>6, <1>8, <1>9 DEF Trades, Status, TapSteps
<1>12. Shaped(r)
  <2>1. "withdraw_pending" \notin EthSteps /\ GasBudget \in Nat BY StepNames, Bounds
  <2>2. CASE k = "withdraw" BY <1>6, <1>8, <1>10, <1>11, <2>2 DEF Shaped, Withdrawal
  <2>3. CASE k # "withdraw"
    <3>1. s \in SaleSteps /\ s # "error" /\ s # "koin_pending"
      BY <1>8, <2>3 DEF SaleSteps, TapSteps
    <3>2. Sale(r) BY <1>10, <2>1, <2>3, <3>1 DEF Sale
    <3> QED BY <1>10, <1>11, <2>3, <3>2 DEF Shaped
  <2> QED BY <2>2, <2>3
<1>13. NoneOf(chain, n) /\ NoneOf(kchain, n)
  BY <1>3 DEF TradeInv, Numbered, NumberedOn, NoneOf, Others
<1>14. Held(r.eth, r.koin)
  <2>1. \A j \in trade : j.status \in Done BY DEF Live
  <2>2. Held({}, {})
    <3>1. CASE trade = {} BY <3>1 DEF TradeInv, Current
    <3>2. ASSUME NEW j \in trade PROVE Held({}, {})
      <4>1. j.eth = {} /\ j.koin = {} BY <2>1, OverIsEmpty DEF TradeInv, Current, Fits
      <4> QED BY <4>1 DEF TradeInv, Current, Fits
    <3> QED BY <3>1, <3>2
  <2> QED BY <1>10, <2>2 DEF Held, HeldOn
<1>15. Passed(r) BY <1>10, <1>13 DEF Passed, PassedOn, NoneOf
<1>16. Booked(r)
  <2>1. BookedOn(chain, deep, n, r.eth) = {} BY <1>4, <1>13, NoneIsBooked
  <2> QED BY <1>10, <2>1, FS_EmptySet DEF Booked
<1>17. Untouched(r) BY <1>8, <1>10, <1>13 DEF Untouched
<1> QED BY <1>1, <1>2, <1>12, <1>14, <1>15, <1>16, <1>17 DEF Fits, Traced

LEMMA ProofVerifiedKeeps == ASSUME TradeInv, ProofVerified PROVE TradeInv'
<1>1. PICK o \in op :
        /\ o.do = "approve"
        /\ \/ /\ o.intent.kind \in Kinds
              /\ \E j \in Opened(o.intent.kind) : op' = {[do |-> "save", new |-> j]}
              /\ UNCHANGED ledger
           \/ \E j \in Updated(o.intent) : Save(j) /\ op' = {}
        /\ UNCHANGED <<conv, intents, taps, queue, koinos, ethereum>>
  BY DEF ProofVerified
<1>2. CASE /\ o.intent.kind \in Kinds /\ UNCHANGED ledger
           /\ \E j \in Opened(o.intent.kind) : op' = {[do |-> "save", new |-> j]}
  <2>0. PICK k \in Kinds : \E j \in Opened(k) : op' = {[do |-> "save", new |-> j]} BY <1>2
  <2>1. PICK j \in Opened(k) : op' = {[do |-> "save", new |-> j]} BY <2>0
  <2>2. ~BuyBusy /\ Live = {} /\ j = NewTrade(k, Known + 1)
    <3>1. PICK n : /\ j = NewTrade(k, n) /\ ~BuyBusy /\ Live = {}
                   /\ n = 1 + Cardinality(past \cup trade)
      BY DEF Opened
    <3>2. n = Known + 1 BY <3>1, KnownIsNat DEF TradeInv, Known
    <3> QED BY <3>1, <3>2
  <2>3. Fits(j) BY <2>2, NewTradeFits
  <2>4. j.id = Known + 1 BY <2>2 DEF NewTrade
  <2>5. \A u \in trade : u.status \notin TapSteps BY <2>2 DEF Live, TapSteps, Done
  <2>6. Due(j) BY <2>2, <2>3, <2>4, <2>5 DEF Due
  <2>7. op' \subseteq [do : {"save"}, new : Trades] BY <2>1, <2>3 DEF Fits, Shaped
  <2>8. Typed' BY <1>1, <1>2, <2>7 DEF TradeInv, Typed, ledger
  <2>9. OneUserOfWallet' BY <1>1, <2>2 DEF OneUserOfWallet, BuyBusy
  <2> QED BY <1>1, <1>2, <2>1, <2>6, <2>8, <2>9, MemoryStep
<1>3. CASE \E j \in Updated(o.intent) : Save(j) /\ op' = {}
  <2>1. PICK r \in Updated(o.intent) : Save(r) /\ op' = {} BY <1>3
  <2>2. Fits(r) /\ \E j \in Live : j.id = r.id BY <2>1, UpdatedFits
  <2>3. UNCHANGED UnmovedVars BY <1>1 DEF koinos, ethereum, UnmovedVars
  <2>4. Fits(r)' BY <1>1, <2>2, <2>3, TracedStays, HeldStays DEF Fits
  <2>5. r \in Trades BY <2>2 DEF Fits, Shaped
  <2>6. Typed' BY <1>1, <2>1, <2>5 DEF TradeInv, Typed, Save
  <2>7. ~BuyBusy BY <2>2 DEF TradeInv, OneUserOfWallet
  <2>8. OneUserOfWallet' BY <1>1, <2>7 DEF OneUserOfWallet, BuyBusy
  <2>9. \E j \in trade : j.id = r.id BY <2>2 DEF Live
  <2> QED BY <1>1, <2>1, <2>4, <2>6, <2>8, <2>9, SaveStep
<1> QED BY <1>1, <1>2, <1>3

\* The signed tap of a sale is journaled before it is sent.
LEMMA JournalKeeps == ASSUME TradeInv, Journal PROVE TradeInv'
<1>1. PICK q \in queue :
        /\ ~q.journaled
        /\ \/ \E j \in trade :
                 /\ TapExpected(j, q.tx)
                 /\ Save([j EXCEPT !.status = "koin_pending", !.koin = {q.tx}, !.moved = TRUE])
                 /\ queue' = {[q EXCEPT !.journaled = TRUE]}
           \/ queue' = {} /\ UNCHANGED ledger
        /\ UNCHANGED <<conv, intents, op, taps, koinos, ethereum>>
  BY DEF Journal
<1>2. CASE queue' = {} /\ UNCHANGED ledger
  <2>1. Typed' BY <1>1, <1>2 DEF TradeInv, Typed, ledger
  <2>2. OneUserOfWallet' BY <1>1, <1>2 DEF TradeInv, OneUserOfWallet, BuyBusy, Live, ledger
  <2> QED BY <1>1, <1>2, <2>1, <2>2, MemoryStep
<1>3. CASE \E j \in trade :
             /\ TapExpected(j, q.tx)
             /\ Save([j EXCEPT !.status = "koin_pending", !.koin = {q.tx}, !.moved = TRUE])
             /\ queue' = {[q EXCEPT !.journaled = TRUE]}
  <2>1. PICK j \in trade :
          /\ TapExpected(j, q.tx)
          /\ Save([j EXCEPT !.status = "koin_pending", !.koin = {q.tx}, !.moved = TRUE])
          /\ queue' = {[q EXCEPT !.journaled = TRUE]}
    BY <1>3
  <2>2. PICK r : r = [j EXCEPT !.status = "koin_pending", !.koin = {q.tx}, !.moved = TRUE]
    OBVIOUS
  <2>3. PICK t : t = q.tx OBVIOUS
  <2>4. /\ t \in [id : Nat, step : TapSteps, nonce : Nat] /\ t \in Tx
        /\ q \in [tx : [id : Nat, step : TapSteps, nonce : Nat], journaled : BOOLEAN]
    BY <2>3 DEF TradeInv, Typed, Tx
  <2>5. j.id = t.id /\ j.status = t.step /\ j.koin = {} /\ j.status \in TapSteps
    BY <2>1, <2>3, <2>4 DEF TapExpected
  <2>6. Shaped(j) /\ Held(j.eth, j.koin) /\ Passed(j) /\ Booked(j) /\ Untouched(j)
    BY DEF TradeInv, Current, Fits, Traced
  <2>7. j \in Trades BY <2>6 DEF Shaped
  <2>8. /\ r.id = j.id /\ r.kind = j.kind /\ r.status = "koin_pending" /\ r.moved = TRUE
        /\ r.eth = j.eth /\ r.koin = {t} /\ r.gas = j.gas
    BY <2>2, <2>3, <2>7 DEF Trades
  <2>9. r \in Trades BY <2>2, <2>3, <2>4, <2>7 DEF Trades, Status
  <2>10. j.kind # "withdraw" /\ j.eth = {} /\ j.gas <= GasBudget
    <3>1. j.status \notin EthSteps /\ j.status \notin {"withdraw_pending", "done", "failed"}
      BY <2>5, StepNames DEF TapSteps
    <3> QED BY <2>6, <3>1 DEF Shaped, Withdrawal, Sale
  <2>11. Shaped(r) BY <2>4, <2>5, <2>8, <2>9, <2>10 DEF Shaped, Sale
  <2>12. Passed(r)
    <3>1. \A x : Behind(j, x) => Behind(r, x)
      <4>1. j.status # "error" /\ j.status # "koin_pending" BY <2>5 DEF TapSteps
      <4> QED BY <2>5, <2>8, <4>1 DEF Behind
    <3> QED BY <2>5, <2>6, <2>8, <3>1 DEF Passed, PassedOn
  <2>13. Traced(r) BY <2>6, <2>8, <2>12 DEF Traced, Booked, Untouched
  <2>14. UNCHANGED UnmovedVars BY <1>1 DEF koinos, ethereum, UnmovedVars
  <2>15. Held(r.eth, r.koin)'
    <3>1. \A u \in queue' : u.tx = t BY <2>1, <2>3, <2>4
    <3> QED BY <1>1, <2>5, <2>6, <2>8, <3>1 DEF Held, HeldOn, koinos, ethereum
  <2>16. Fits(r)' BY <2>11, <2>13, <2>14, <2>15, TracedStays DEF Fits
  <2>17. Save(r) BY <2>1, <2>2
  <2>18. queue' \subseteq [tx : [id : Nat, step : TapSteps, nonce : Nat], journaled : BOOLEAN]
    <3>1. [q EXCEPT !.journaled = TRUE]
            \in [tx : [id : Nat, step : TapSteps, nonce : Nat], journaled : BOOLEAN]
      BY <2>4
    <3> QED BY <2>1, <3>1
  <2>19. Typed' BY <1>1, <2>9, <2>17, <2>18 DEF TradeInv, Typed, Save
  <2>20. ~BuyBusy BY <2>5 DEF TradeInv, OneUserOfWallet, Live, TapSteps, Done
  <2>21. OneUserOfWallet' BY <1>1, <2>20 DEF OneUserOfWallet, BuyBusy
  <2>22. \A o \in op' : o.do # "save" BY <1>1, <2>5 DEF TradeInv, Saving, Due
  <2>23. \E k \in trade : k.id = r.id BY <2>8
  <2> QED BY <1>1, <2>16, <2>17, <2>19, <2>21, <2>22, <2>23, SaveStep
<1> QED BY <1>1, <1>2, <1>3

-----------------------------------------------------------------------------
(* What the timer decides. *)

LEMMA DecideStep ==
  ASSUME TradeInv, NEW j \in trade, Visits(j), NEW r, Decide(r), Fits(r), r.id = j.id
  PROVE  TradeInv'
<1>1. op' = {[do |-> "save", new |-> r]}
      /\ UNCHANGED <<ledger, conv, intents, taps, queue, koinos, ethereum>>
  BY DEF Decide
<1>2. \A k \in trade : k.status \notin TapSteps BY DEF Visits, TradeInv, Numbered
<1>3. Due(r) BY <1>2 DEF Due
<1>4. r \in Trades BY DEF Fits, Shaped
<1>5. op' \subseteq [do : {"save"}, new : Trades] BY <1>1, <1>4
<1>6. Typed' BY <1>1, <1>5 DEF TradeInv, Typed, ledger
<1>7. ~BuyBusy BY DEF Visits, TradeInv, OneUserOfWallet
<1>8. OneUserOfWallet' BY <1>1, <1>7 DEF OneUserOfWallet, BuyBusy
<1> QED BY <1>1, <1>3, <1>6, <1>8, MemoryStep

\* What the timer may rely on when it visits a trade.
LEMMA Visited ==
  ASSUME TradeInv, NEW j \in trade, Visits(j)
  PROVE  /\ j \in Trades /\ Shaped(j) /\ Held(j.eth, j.koin) /\ Passed(j) /\ Booked(j)
         /\ Untouched(j)
         /\ \/ /\ j.kind = "withdraw" /\ j.status = "withdraw_pending" /\ j.koin = {}
               /\ \E t \in j.eth : j.eth = {t} /\ t.id = j.id /\ t.step = "withdraw"
            \/ /\ j.kind # "withdraw" /\ j.moved /\ j.gas <= GasBudget
               /\ j.status \in (SaleSteps \ TapSteps) \cup {"koin_pending"}
               /\ j.status = "koin_pending" =>
                    \E t \in j.koin : j.koin = {t} /\ t.id = j.id /\ t.step \in TapSteps
               /\ j.status # "koin_pending" => j.koin = {}
               /\ j.eth # {} => /\ j.gas < GasBudget /\ j.status \in EthSteps
                                /\ \E t \in j.eth : j.eth = {t} /\ t.id = j.id
                                                    /\ t.step = j.status
<1>1. Shaped(j) /\ Held(j.eth, j.koin) /\ Passed(j) /\ Booked(j) /\ Untouched(j) /\ j \in Trades
  BY DEF TradeInv, Current, Fits, Traced, Shaped
<1>2. j.status \notin Done /\ j.status \notin TapSteps /\ j.status # "error"
  BY DEF Visits, Live
<1>3. CASE j.kind = "withdraw" BY <1>1, <1>2, <1>3 DEF Shaped, Withdrawal, Done
<1>4. CASE j.kind # "withdraw"
  <2>1. Sale(j) BY <1>1, <1>4 DEF Shaped
  <2>2. j.moved BY <1>1, <1>2, <1>4 DEF Untouched, TapSteps, Done, Trades
  <2> QED BY <1>1, <1>2, <1>4, <2>1, <2>2 DEF Sale, Done
<1> QED BY <1>1, <1>3, <1>4

LEMMA StageKeeps == ASSUME TradeInv, NEW j \in trade, NEW s \in EthSteps, Stage(j, s) PROVE TradeInv'
<1>1. /\ Visits(j) /\ j.eth = {} /\ j.status = s /\ j.gas + 1 <= GasBudget
      /\ Decide([j EXCEPT !.eth = {[id |-> j.id, step |-> s, nonce |-> Len(chain)]}])
  BY DEF Stage
<1>2. PICK t : t = [id |-> j.id, step |-> s, nonce |-> Len(chain)] OBVIOUS
<1>3. PICK r : r = [j EXCEPT !.eth = {t}] OBVIOUS
<1>4. Decide(r) BY <1>1, <1>2, <1>3
<1>5. /\ j \in Trades /\ Shaped(j) /\ Held(j.eth, j.koin) /\ Passed(j) /\ Booked(j)
      /\ Untouched(j) /\ j.kind # "withdraw" /\ j.koin = {} /\ j.moved
      /\ j.status \in SaleSteps /\ s # "error" /\ s # "koin_pending"
  BY <1>1, Visited, StepNames
<1>6. Len(chain) \in Nat /\ DOMAIN chain = 1..Len(chain) /\ deep \in 0..Len(chain)
      /\ \A i \in DOMAIN chain : chain[i].tx.nonce = i - 1
  BY ChainTypes DEF TradeInv, TypedChains, Placed, PlacedOn
<1>7. j.id \in Nat /\ j.gas \in Nat /\ GasBudget \in Nat BY <1>5, Bounds DEF Trades
<1>8. t \in Tx /\ t.id = j.id /\ t.step = s /\ t.nonce = Len(chain)
  BY <1>2, <1>6, <1>7 DEF Tx
<1>9. /\ r.id = j.id /\ r.kind = j.kind /\ r.status = j.status /\ r.failedAt = j.failedAt
      /\ r.moved = j.moved /\ r.eth = {t} /\ r.koin = j.koin /\ r.gas = j.gas
      /\ r \in Trades
  BY <1>3, <1>5, <1>8 DEF Trades
<1>10. Shaped(r)
  <2>1. j.gas < GasBudget /\ j.gas <= GasBudget BY <1>1, <1>7
  <2>2. Sale(r) BY <1>1, <1>5, <1>8, <1>9, <2>1 DEF Sale
  <2> QED BY <1>5, <1>9, <2>2 DEF Shaped
<1>11. Held(r.eth, r.koin) BY <1>1, <1>5, <1>9 DEF Held, HeldOn
<1>12. Passed(r)
  <2>1. \A x : Behind(j, x) => Behind(r, x) BY <1>9 DEF Behind
  <2> QED BY <1>1, <1>5, <1>9, <2>1 DEF Passed, PassedOn
<1>13. Booked(r)
  <2>1. \A i \in 1..deep : i \in DOMAIN chain /\ i - 1 # Len(chain) BY <1>6
  <2>2. \A i \in 1..deep : chain[i].tx # t BY <1>6, <1>8, <2>1
  <2>3. BookedOn(chain, deep, j.id, {t}) = BookedOn(chain, deep, j.id, {})
    BY <2>2 DEF BookedOn
  <2> QED BY <1>1, <1>5, <1>9, <2>3 DEF Booked
<1>14. Untouched(r) BY <1>5, <1>9 DEF Untouched
<1> QED BY <1>1, <1>4, <1>9, <1>10, <1>11, <1>12, <1>13, <1>14, DecideStep DEF Fits, Traced

\* The two decisions that only change where a sale is.
LEMMA StatusStep ==
  ASSUME TradeInv, NEW j \in trade, Visits(j), j.eth = {}, j.koin = {}, NEW r, Decide(r),
         r \in Trades, r.id = j.id, r.kind = j.kind, r.moved = j.moved, r.eth = j.eth,
         r.koin = j.koin, r.gas = j.gas,
         r.status \in SaleSteps \cup {"error", "done"},
         r.status = "error" => r.failedAt \in SaleSteps,
         \A x : Rank(x) < Rank(j.status) => Behind(r, x)
  PROVE  TradeInv'
<1>1. /\ Held(j.eth, j.koin) /\ Passed(j) /\ Booked(j) /\ Untouched(j)
      /\ j.kind # "withdraw" /\ j.moved /\ j.gas <= GasBudget
      /\ j.status # "error" /\ j.status # "koin_pending"
  BY Visited DEF Visits
<1>2. r.status # "koin_pending" /\ r.status # "cancelled"
  BY StepNames DEF SaleSteps, TapSteps
<1>3. Shaped(r) BY <1>1, <1>2 DEF Shaped, Sale
<1>4. Passed(r)
  <2>1. \A x : Behind(j, x) => Behind(r, x) BY <1>1 DEF Behind
  <2> QED BY <1>1, <2>1 DEF Passed, PassedOn
<1>5. Untouched(r) BY <1>1, <1>2 DEF Untouched
<1>6. Booked(r) BY <1>1 DEF Booked
<1> QED BY <1>1, <1>3, <1>4, <1>5, <1>6, DecideStep DEF Fits, Traced

LEMMA SkipKeeps == ASSUME TradeInv, NEW j \in trade, NEW s \in Status, Skip(j, s) PROVE TradeInv'
<1>1. Visits(j) /\ j.eth = {} /\ s \in Skips(j) /\ Decide([j EXCEPT !.status = s]) BY DEF Skip
<1>2. PICK r : r = [j EXCEPT !.status = s] OBVIOUS
<1>3. j \in Trades BY <1>1, Visited
<1>4. /\ r.id = j.id /\ r.kind = j.kind /\ r.status = s /\ r.moved = j.moved /\ r.eth = j.eth
      /\ r.koin = j.koin /\ r.gas = j.gas /\ r \in Trades
  BY <1>2, <1>3 DEF Trades
<1>5. Lapses \subseteq {"sell_refresh"} BY DEF Lapses
<1>6. \/ /\ j.status \in {"sell_signatures", "eth_redeem"}
         /\ s \in {"eth_redeem", "sell_refresh"}
      \/ j.status = "swap_vkoin_usdt" /\ s = "approve_sell_router"
      \/ j.status = "approve_sell_usdt_reset" /\ s = "approve_sell_usdt"
      \/ j.status = "sell_fee" /\ s = "done"
  BY <1>1, <1>5 DEF Skips
<1>7. s \in SaleSteps \cup {"done"} /\ s # "error" /\ s # "koin_pending"
  BY <1>6, StepNames DEF SaleSteps, TapSteps
<1>8. j.koin = {} BY <1>1, <1>6, Visited
<1>9. Rank(j.status) <= Rank(s) BY <1>6 DEF Rank
<1>10. \A x : Rank(x) < Rank(j.status) => Behind(r, x)
  BY <1>4, <1>7, <1>9, RankType DEF Behind
<1>11. Decide(r) BY <1>1, <1>2
<1> QED BY <1>1, <1>4, <1>7, <1>8, <1>10, <1>11, StatusStep

LEMMA FailKeeps == ASSUME TradeInv, NEW j \in trade, Fail(j) PROVE TradeInv'
<1>1. /\ Visits(j) /\ j.eth = {} /\ j.koin = {}
      /\ Decide([j EXCEPT !.status = "error", !.failedAt = j.status])
  BY DEF Fail
<1>2. PICK r : r = [j EXCEPT !.status = "error", !.failedAt = j.status] OBVIOUS
<1>3. j \in Trades /\ j.status \in SaleSteps BY <1>1, Visited
<1>4. /\ r.id = j.id /\ r.kind = j.kind /\ r.status = "error" /\ r.failedAt = j.status
      /\ r.moved = j.moved /\ r.eth = j.eth /\ r.koin = j.koin /\ r.gas = j.gas /\ r \in Trades
  BY <1>2, <1>3 DEF Trades, Status
<1>5. \A x : Rank(x) < Rank(j.status) => Behind(r, x) BY <1>4 DEF Behind
<1>6. Decide(r) BY <1>1, <1>2
<1> QED BY <1>1, <1>3, <1>4, <1>5, <1>6, StatusStep

\* Once a transaction is where nothing can undo it, nothing of its journal is open.
LEMMA SettledIsAlone ==
  ASSUME NEW c \in History, NEW d \in 0..Len(c), NEW p \in SUBSET Tx, PlacedOn(c, p),
         NEW i \in 1..d, NEW E, NEW X, E = {c[i].tx}, HeldOn(c, d, p, E, X)
  PROVE  HeldOn(c, d, p, {}, X)
<1>1. /\ Len(c) \in Nat /\ DOMAIN c = 1..Len(c) /\ d \in Nat /\ d <= Len(c) /\ i \in DOMAIN c
      /\ c[i].tx.nonce = i - 1 /\ i - 1 < Len(c)
  BY ChainTypes DEF PlacedOn
<1>2. \A t \in p : t # c[i].tx
  <2>1. ASSUME NEW t \in p, t = c[i].tx PROVE FALSE
    <3>1. t.nonce >= Len(c) /\ t.nonce = i - 1 BY <1>1, <2>1 DEF PlacedOn
    <3> QED BY <1>1, <3>1
  <2> QED BY <2>1
<1>3. ASSUME NEW k \in d + 1..Len(c) PROVE c[k].tx \in X
  <2>1. k \in DOMAIN c /\ k # i BY <1>1
  <2>2. c[k].tx # c[i].tx BY <1>1, <2>1, PlaceIsUnique
  <2> QED BY <2>2 DEF HeldOn
<1>4. p = {} BY <1>2 DEF HeldOn
<1> QED BY <1>3, <1>4 DEF HeldOn

LEMMA SettleEthKeeps == ASSUME TradeInv, NEW j \in trade, SettleEth(j) PROVE TradeInv'
<1>1. PICK i \in DOMAIN chain :
        /\ chain[i].tx \in j.eth /\ Confirmed(i)
        /\ LET s == chain[i].tx.step
               paid == [j EXCEPT !.eth = {}, !.gas = @ + 1]
           IN Decide(IF chain[i].ok THEN [paid EXCEPT !.status = After(j.kind, s)]
                     ELSE [paid EXCEPT !.status = IF j.kind = "withdraw" THEN "failed" ELSE "error",
                                       !.failedAt = s])
  BY DEF SettleEth
<1>2. Visits(j) BY DEF SettleEth
<1>3. /\ chain \in History /\ Len(chain) \in Nat /\ DOMAIN chain = 1..Len(chain)
      /\ deep \in 0..Len(chain) /\ pool \in SUBSET Tx /\ PlacedOn(chain, pool)
      /\ i \in 1..deep /\ chain[i] \in Entry
  BY <1>1, ChainTypes DEF TradeInv, TypedChains, Placed, Confirmed
<1>4. PICK t : t = chain[i].tx OBVIOUS
<1>5. PICK s : s = t.step OBVIOUS
<1>6. /\ j \in Trades /\ Held(j.eth, j.koin) /\ Passed(j) /\ Booked(j) /\ Untouched(j)
      /\ j.eth = {t} /\ t.id = j.id /\ j.koin = {}
      /\ \/ j.kind = "withdraw" /\ j.status = "withdraw_pending" /\ s = "withdraw"
         \/ /\ j.kind # "withdraw" /\ j.moved /\ j.gas < GasBudget
            /\ s = j.status /\ s \in SaleSteps
      /\ s \in EthSteps /\ s # "error" /\ s # "koin_pending"
  BY <1>1, <1>2, <1>4, <1>5, Visited, StepNames
<1>7. PICK st : st = (IF chain[i].ok THEN After(j.kind, s)
                      ELSE IF j.kind = "withdraw" THEN "failed" ELSE "error")
  OBVIOUS
<1>8. PICK fa : fa = (IF chain[i].ok THEN j.failedAt ELSE s) OBVIOUS
<1>9. PICK g : g = j.gas + 1 OBVIOUS
<1>10. PICK r : r = [j EXCEPT !.eth = {}, !.gas = g, !.status = st, !.failedAt = fa] OBVIOUS
<1>11. Decide(r)
  <2>1. PICK paid : paid = [j EXCEPT !.eth = {}, !.gas = @ + 1] OBVIOUS
  <2>2. Decide(IF chain[i].ok THEN [paid EXCEPT !.status = After(j.kind, s)]
               ELSE [paid EXCEPT !.status = IF j.kind = "withdraw" THEN "failed" ELSE "error",
                                 !.failedAt = s])
    BY <1>1, <1>4, <1>5, <2>1
  <2>3. paid = [j EXCEPT !.eth = {}, !.gas = g] BY <1>9, <2>1
  <2>4. CASE chain[i].ok
    <3>1. r = [paid EXCEPT !.status = After(j.kind, s)]
      BY <1>6, <1>7, <1>8, <1>10, <2>3, <2>4 DEF Trades
    <3> QED BY <2>2, <2>4, <3>1
  <2>5. CASE ~chain[i].ok
    <3>1. r = [paid EXCEPT !.status = IF j.kind = "withdraw" THEN "failed" ELSE "error",
                           !.failedAt = s]
      BY <1>6, <1>7, <1>8, <1>10, <2>3, <2>5 DEF Trades
    <3> QED BY <2>2, <2>5, <3>1
  <2> QED BY <2>4, <2>5
<1>12. /\ After(j.kind, s) \in (SaleSteps \ {"withdraw"}) \cup {"done"}
       /\ s = "withdraw" => After(j.kind, s) = "done"
       /\ Rank(s) <= Rank(After(j.kind, s))
       /\ s \in SpendSteps => Rank(s) < Rank(After(j.kind, s))
  BY <1>6, AfterIsLater
<1>13. \A x \in SaleSteps : x # "error" /\ x # "koin_pending" /\ x # "cancelled"
  BY StepNames DEF SaleSteps, TapSteps
<1>14. g \in Nat /\ g = j.gas + 1 /\ j.gas \in Nat /\ GasBudget \in Nat
  BY <1>6, <1>9, Bounds DEF Trades
<1>15. /\ st \in Status /\ fa \in Status \cup {"none"}
       /\ SaleSteps \subseteq Status
  BY <1>6, <1>7, <1>8, <1>12 DEF Status, SaleSteps, Done, Trades
<1>16. /\ r.id = j.id /\ r.kind = j.kind /\ r.status = st /\ r.failedAt = fa
       /\ r.moved = j.moved /\ r.eth = {} /\ r.koin = {} /\ r.gas = g /\ r \in Trades
  BY <1>6, <1>10, <1>14, <1>15 DEF Trades
<1>17. Shaped(r)
  <2>1. CASE j.kind = "withdraw"
    <3>1. st \in {"done", "failed"} BY <1>6, <1>7, <1>12, <2>1
    <3> QED BY <1>16, <2>1, <3>1 DEF Shaped, Withdrawal
  <2>2. CASE j.kind # "withdraw"
    <3>1. g <= GasBudget BY <1>6, <1>14, <2>2
    <3>2. st \in SaleSteps \cup {"error", "done"} BY <1>7, <1>12, <2>2
    <3>3. st = "error" => fa \in SaleSteps BY <1>6, <1>7, <1>8, <1>12, <1>13, <2>2
    <3>4. st # "koin_pending" BY <1>13, <3>2
    <3> QED BY <1>16, <2>2, <3>1, <3>2, <3>3, <3>4 DEF Shaped, Sale
  <2> QED BY <2>1, <2>2
<1>18. Held(r.eth, r.koin)
  <2>1. HeldOn(chain, deep, pool, {t}, {}) BY <1>6 DEF Held
  <2>2. HeldOn(chain, deep, pool, {}, {}) BY <1>3, <1>4, <2>1, SettledIsAlone
  <2> QED BY <1>6, <1>16, <2>2 DEF Held
<1>19. Passed(r)
  <2>1. \A x : Rank(x) \in Nat BY RankType
  <2>2. ASSUME NEW x \in SpendSteps, Behind(j, x) PROVE Behind(r, x)
    <3>1. CASE j.kind = "withdraw"
      <4>1. Rank(x) < Rank(j.status) BY <1>6, <2>2, <3>1 DEF Behind
      <4>2. Rank(x) < Rank(st)
        <5>1. st \in {"done", "failed"} BY <1>6, <1>7, <1>12, <3>1
        <5> QED BY <1>6, <3>1, <4>1, <5>1, <2>1 DEF Rank
      <4>3. st # "error" /\ st # "koin_pending" BY <1>6, <1>7, <1>12, <3>1
      <4> QED BY <1>16, <4>2, <4>3 DEF Behind
    <3>2. CASE j.kind # "withdraw"
      <4>1. Rank(x) < Rank(s) BY <1>6, <2>2, <3>2 DEF Behind
      <4>2. CASE chain[i].ok
        <5>1. Rank(x) < Rank(st) BY <1>7, <1>12, <2>1, <4>1, <4>2
        <5>2. st # "error" /\ st # "koin_pending" BY <1>7, <1>12, <1>13, <4>2
        <5> QED BY <1>16, <5>1, <5>2 DEF Behind
      <4>3. CASE ~chain[i].ok
        <5>1. st = "error" /\ fa = s BY <1>7, <1>8, <3>2, <4>3
        <5> QED BY <1>16, <4>1, <5>1 DEF Behind
      <4> QED BY <4>2, <4>3
    <3> QED BY <3>1, <3>2
  <2>3. ASSUME chain[i].ok, s \in SpendSteps PROVE Behind(r, s)
    <3>1. st = After(j.kind, s) BY <1>7, <2>3
    <3>2. Rank(s) < Rank(st) BY <1>12, <2>3, <3>1
    <3>3. st # "error" /\ st # "koin_pending" BY <1>12, <1>13, <3>1
    <3> QED BY <1>16, <3>2, <3>3 DEF Behind
  <2>4. ASSUME NEW k \in DOMAIN chain, chain[k].ok, chain[k].tx.id = j.id,
               chain[k].tx.step \in SpendSteps
        PROVE  Behind(r, chain[k].tx.step)
    <3>1. chain[k].tx = t \/ Behind(j, chain[k].tx.step)
      BY <1>6, <2>4 DEF Passed, PassedOn
    <3>2. CASE chain[k].tx = t
      <4>1. k = i BY <1>3, <1>4, <3>2, PlaceIsUnique
      <4> QED BY <1>4, <1>5, <2>3, <2>4, <4>1
    <3>3. CASE Behind(j, chain[k].tx.step) BY <2>2, <2>4, <3>3
    <3> QED BY <3>1, <3>2, <3>3
  <2>5. PassedOn(chain, r, {}) BY <1>16, <2>4 DEF PassedOn
  <2>6. PassedOn(kchain, j, {}) BY <1>6 DEF Passed
  <2>7. PassedOn(kchain, r, {}) BY <1>16, <2>2, <2>6 DEF PassedOn
  <2> QED BY <1>16, <2>5, <2>7 DEF Passed
<1>20. Booked(r)
  <2> DEFINE B == BookedOn(chain, deep, j.id, {t})
  <2>1. BookedOn(chain, deep, j.id, {}) = B \cup {i}
    <3>1. \A k \in 1..deep : chain[k].tx = t => k = i
      <4>1. ASSUME NEW k \in 1..deep, chain[k].tx = t PROVE k = i
        <5>1. k \in DOMAIN chain BY <1>3
        <5> QED BY <1>3, <1>4, <4>1, <5>1, PlaceIsUnique
      <4> QED BY <4>1
    <3> QED BY <1>3, <1>4, <1>6, <3>1 DEF BookedOn
  <2>2. i \notin B BY <1>4 DEF BookedOn
  <2>3. IsFiniteSet(B)
    <3>1. B \subseteq 1..deep BY DEF BookedOn
    <3>2. IsFiniteSet(1..deep) BY <1>3, FS_Interval
    <3> QED BY <3>1, <3>2, FS_Subset
  <2>4. Cardinality(B \cup {i}) = Cardinality(B) + 1 BY <2>2, <2>3, FS_AddElement
  <2>5. j.gas = Cardinality(B) BY <1>6 DEF Booked
  <2> QED BY <1>14, <1>16, <2>1, <2>4, <2>5 DEF Booked
<1>21. Untouched(r)
  <2>1. st # "cancelled" BY <1>7, <1>12, <1>13
  <2> QED BY <1>6, <1>16, <2>1 DEF Untouched
<1> QED BY <1>2, <1>11, <1>16, <1>17, <1>18, <1>19, <1>20, <1>21, DecideStep DEF Fits, Traced

LEMMA SettleKoinKeeps == ASSUME TradeInv, NEW j \in trade, SettleKoin(j) PROVE TradeInv'
<1>1. PICK i \in DOMAIN kchain :
        /\ kchain[i].tx \in j.koin /\ Irreversible(i)
        /\ LET s == kchain[i].tx.step
           IN Decide(IF kchain[i].ok THEN [j EXCEPT !.koin = {}, !.status = AfterTap(s)]
                     ELSE [j EXCEPT !.koin = {}, !.status = "error", !.failedAt = s])
  BY DEF SettleKoin
<1>2. Visits(j) /\ j.eth = {} BY DEF SettleKoin
<1>3. /\ kchain \in History /\ Len(kchain) \in Nat /\ DOMAIN kchain = 1..Len(kchain)
      /\ kfinal \in 0..Len(kchain) /\ kpool \in SUBSET Tx /\ PlacedOn(kchain, kpool)
      /\ i \in 1..kfinal
  BY <1>1, ChainTypes DEF TradeInv, TypedChains, Placed, Irreversible
<1>4. PICK t : t = kchain[i].tx OBVIOUS
<1>5. PICK s : s = t.step OBVIOUS
<1>6. /\ j \in Trades /\ Held(j.eth, j.koin) /\ Passed(j) /\ Booked(j) /\ Untouched(j)
      /\ j.koin = {t} /\ t.id = j.id /\ j.kind # "withdraw" /\ j.moved /\ j.gas <= GasBudget
      /\ j.status = "koin_pending" /\ s \in TapSteps
  <2>1. t \in j.koin BY <1>1, <1>4
  <2>2. j.status = "koin_pending" /\ j.kind # "withdraw" BY <1>2, <2>1, Visited
  <2>3. /\ j \in Trades /\ Held(j.eth, j.koin) /\ Passed(j) /\ Booked(j) /\ Untouched(j)
    BY <1>2, Visited
  <2>4. /\ j.moved /\ j.gas <= GasBudget
        /\ \E u \in j.koin : j.koin = {u} /\ u.id = j.id /\ u.step \in TapSteps
    BY <1>2, <2>2, Visited
  <2> QED BY <1>5, <2>1, <2>2, <2>3, <2>4
<1>7. PICK st : st = (IF kchain[i].ok THEN AfterTap(s) ELSE "error") OBVIOUS
<1>8. PICK fa : fa = (IF kchain[i].ok THEN j.failedAt ELSE s) OBVIOUS
<1>9. PICK r : r = [j EXCEPT !.koin = {}, !.status = st, !.failedAt = fa] OBVIOUS
<1>10. Decide(r)
  <2>1. Decide(IF kchain[i].ok THEN [j EXCEPT !.koin = {}, !.status = AfterTap(s)]
               ELSE [j EXCEPT !.koin = {}, !.status = "error", !.failedAt = s])
    BY <1>1, <1>4, <1>5
  <2>2. CASE kchain[i].ok
    <3>1. r = [j EXCEPT !.koin = {}, !.status = AfterTap(s)]
      BY <1>6, <1>7, <1>8, <1>9, <2>2 DEF Trades
    <3> QED BY <2>1, <2>2, <3>1
  <2>3. CASE ~kchain[i].ok
    <3>1. r = [j EXCEPT !.koin = {}, !.status = "error", !.failedAt = s]
      BY <1>7, <1>8, <1>9, <2>3
    <3> QED BY <2>1, <2>3, <3>1
  <2> QED BY <2>2, <2>3
<1>11. /\ AfterTap(s) \in SaleSteps /\ Rank(s) <= Rank(AfterTap(s))
       /\ s \in SpendSteps => Rank(s) < Rank(AfterTap(s))
  BY <1>6, AfterTapIsLater
<1>12. /\ \A x \in SaleSteps : x # "error" /\ x # "koin_pending" /\ x # "cancelled"
       /\ SaleSteps \subseteq Status /\ TapSteps \subseteq SaleSteps
  BY StepNames DEF SaleSteps, TapSteps, Status
<1>13. st \in SaleSteps \cup {"error"} /\ (st = "error" => fa \in SaleSteps)
  BY <1>6, <1>7, <1>8, <1>11, <1>12
<1>14. st \in Status /\ fa \in Status \cup {"none"}
  BY <1>6, <1>8, <1>12, <1>13 DEF Status, Trades
<1>15. /\ r.id = j.id /\ r.kind = j.kind /\ r.status = st /\ r.failedAt = fa
       /\ r.moved = j.moved /\ r.eth = {} /\ r.koin = {} /\ r.gas = j.gas /\ r \in Trades
  BY <1>2, <1>6, <1>9, <1>14 DEF Trades
<1>16. st # "koin_pending" /\ st # "cancelled" BY <1>12, <1>13
<1>17. Shaped(r)
  BY <1>6, <1>13, <1>15, <1>16 DEF Shaped, Sale
<1>18. Held(r.eth, r.koin)
  <2>1. HeldOn(kchain, kfinal, kpool, {t}, Others) BY <1>6 DEF Held
  <2>2. HeldOn(kchain, kfinal, kpool, {}, Others) BY <1>3, <1>4, <2>1, SettledIsAlone
  <2>3. t.nonce < kfinal BY <1>3, <1>4 DEF PlacedOn
  <2>4. \A q \in queue : q.journaled => q.tx.nonce < kfinal BY <1>6, <2>3 DEF Held
  <2> QED BY <1>2, <1>6, <1>15, <2>2, <2>4 DEF Held
<1>19. Passed(r)
  <2>1. \A x : Rank(x) \in Nat BY RankType
  <2>2. ASSUME NEW x, Behind(j, x) PROVE Behind(r, x)
    <3>1. Rank(x) < Rank(s) BY <1>5, <1>6, <2>2 DEF Behind
    <3>2. CASE kchain[i].ok
      <4>1. Rank(x) < Rank(st) BY <1>7, <1>11, <2>1, <3>1, <3>2
      <4>2. st # "error" BY <1>7, <1>11, <1>12, <3>2
      <4> QED BY <1>15, <1>16, <4>1, <4>2 DEF Behind
    <3>3. CASE ~kchain[i].ok BY <1>7, <1>8, <1>15, <3>1, <3>3 DEF Behind
    <3> QED BY <3>2, <3>3
  <2>3. ASSUME kchain[i].ok, s \in SpendSteps PROVE Behind(r, s)
    <3>1. Rank(s) < Rank(st) /\ st # "error" BY <1>7, <1>11, <1>12, <2>3
    <3> QED BY <1>15, <1>16, <3>1 DEF Behind
  <2>4. ASSUME NEW k \in DOMAIN kchain, kchain[k].ok, kchain[k].tx.id = j.id,
               kchain[k].tx.step \in SpendSteps
        PROVE  Behind(r, kchain[k].tx.step)
    <3>1. kchain[k].tx = t \/ Behind(j, kchain[k].tx.step)
      BY <1>6, <2>4 DEF Passed, PassedOn
    <3>2. CASE kchain[k].tx = t
      <4>1. k = i BY <1>3, <1>4, <3>2, PlaceIsUnique
      <4> QED BY <1>4, <1>5, <2>3, <2>4, <4>1
    <3>3. CASE Behind(j, kchain[k].tx.step) BY <2>2, <3>3
    <3> QED BY <3>1, <3>2, <3>3
  <2>5. PassedOn(kchain, r, {}) BY <1>15, <2>4 DEF PassedOn
  <2>6. PassedOn(chain, j, {}) BY <1>2, <1>6 DEF Passed
  <2>7. PassedOn(chain, r, {}) BY <1>15, <2>2, <2>6 DEF PassedOn
  <2> QED BY <1>15, <2>5, <2>7 DEF Passed
<1>20. Booked(r) BY <1>2, <1>6, <1>15 DEF Booked
<1>21. Untouched(r) BY <1>6, <1>15, <1>16 DEF Untouched
<1> QED BY <1>2, <1>10, <1>15, <1>17, <1>18, <1>19, <1>20, <1>21, DecideStep DEF Fits, Traced

-----------------------------------------------------------------------------
(* The theorems. *)

LEMMA InitTrade == Init => TradeInv
<1> SUFFICES ASSUME Init PROVE TradeInv OBVIOUS
<1>1. /\ trade = {} /\ past = {} /\ conv = "none" /\ intents = {} /\ op = {} /\ taps = {}
      /\ queue = {} /\ kpool = {} /\ kchain = << >> /\ kfinal = 0 /\ pool = {} /\ chain = << >>
      /\ deep = 0
  BY DEF Init
<1>2. << >> \in History /\ Len(<< >>) = 0 /\ DOMAIN << >> = {}
  BY EmptySeq DEF History
<1>3. Typed BY <1>1 DEF Typed
<1>4. TypedChains BY <1>1, <1>2 DEF TypedChains
<1>5. Placed BY <1>1, <1>2 DEF Placed, PlacedOn
<1>6. Numbered BY <1>1, <1>2, FS_EmptySet DEF Numbered, NumberedOn
<1>7. PastOver /\ Saving BY <1>1 DEF PastOver, Saving
<1>8. Current
  <2>1. 0 + 1..0 = {} OBVIOUS
  <2> QED BY <1>1, <1>2, <2>1 DEF Current, Held, HeldOn
<1>9. OneUserOfWallet BY <1>1 DEF OneUserOfWallet, BuyBusy
<1>10. OnceOn(chain) /\ OnceOn(kchain) BY <1>1, <1>2 DEF OnceOn
<1> QED BY <1>3, <1>4, <1>5, <1>6, <1>7, <1>8, <1>9, <1>10 DEF TradeInv

LEMMA StutterKeeps == ASSUME TradeInv, UNCHANGED vars PROVE TradeInv'
<1>1. UNCHANGED <<ledger, koinos, ethereum>> /\ queue' = queue /\ op' = op /\ conv' = conv
      /\ intents' = intents /\ taps' = taps
  BY DEF vars, memory
<1>2. Typed' BY <1>1 DEF TradeInv, Typed, ledger
<1>3. OneUserOfWallet' BY <1>1 DEF TradeInv, OneUserOfWallet, BuyBusy, Live, ledger
<1> QED BY <1>1, <1>2, <1>3, MemoryStep

\* Whatever the timer, the approvals, the taps, the chains and a crash do, in any
\* order: the ledger and the two chains agree (tools/eth/trade.js).
THEOREM TradeHolds == Spec => []TradeInv
<1>1. ASSUME TradeInv, [Next]_vars PROVE TradeInv'
  <2>1. CASE Convert BY <1>1, <2>1, ConvertKeeps
  <2>2. CASE Approve
    BY <1>1, <2>2, IntentsKeep, ProofVerifiedKeeps DEF Approve
  <2>3. CASE Commit BY <1>1, <2>3, CommitKeeps
  <2>4. CASE Advance
    <3>1. PICK j \in trade :
            \/ SettleEth(j) \/ Broadcast(j) \/ SettleKoin(j) \/ Resend(j)
            \/ \E s \in Status : (s \in EthSteps /\ Stage(j, s)) \/ Skip(j, s)
      BY <2>4 DEF Advance
    <3>2. CASE \E s \in Status : (s \in EthSteps /\ Stage(j, s)) \/ Skip(j, s)
      BY <1>1, <3>2, StageKeeps, SkipKeeps
    <3> QED BY <1>1, <3>1, <3>2, SettleEthKeeps, SettleKoinKeeps, ResendKeeps
  <2>5. CASE Tap BY <1>1, <2>5, TapsKeep, JournalKeeps, SendTapKeeps DEF Tap
  <2>6. CASE Settling \/ OtherTx BY <1>1, <2>6, ChainStepKeeps DEF Settling, ChainStep
  <2>7. CASE Faults
    BY <1>1, <2>7, IntentsKeep, FailKeeps, ChainStepKeeps DEF Faults, ChainStep
  <2>8. CASE UNCHANGED vars BY <1>1, <2>8, StutterKeeps
  <2> QED BY <1>1, <2>1, <2>2, <2>3, <2>4, <2>5, <2>6, <2>7, <2>8 DEF Next
<1> QED BY <1>1, InitTrade, PTL DEF Spec

\* A conversion and a trade never use the transit wallet at the same time.
THEOREM OneUserAtATime == Spec => []OneUserOfWallet
<1>1. TradeInv => OneUserOfWallet BY DEF TradeInv
<1> QED BY <1>1, TradeHolds, PTL

\* No step that moves a trade's money succeeds twice, on either chain.
THEOREM MovedOnce == Spec => []MovesOnce
<1>1. TradeInv => MovesOnce
  <2> SUFFICES ASSUME TradeInv PROVE MovesOnce OBVIOUS
  <2>1. OnceOn(chain) /\ OnceOn(kchain) BY DEF TradeInv
  <2> QED BY <2>1 DEF OnceOn, MovesOnce
<1> QED BY <1>1, TradeHolds, PTL

\* Every mined transaction's gas is booked once, and within the approved budget.
THEOREM GasWithinApproval == Spec => []GasBookedOnce
<1>1. ASSUME TradeInv PROVE GasBookedOnce
  <2>1. ASSUME NEW j \in trade \cup past
        PROVE  LET mined == {i \in 1..deep : chain[i].tx.id = j.id}
               IN /\ j.gas = Cardinality({i \in mined : chain[i].tx \notin j.eth})
                  /\ j.kind # "withdraw" => Cardinality(mined) <= GasBudget
    <3> DEFINE mined == {i \in 1..deep : chain[i].tx.id = j.id}
               B == BookedOn(chain, deep, j.id, j.eth)
    <3>1. Shaped(j) /\ Booked(j)
      BY <1>1 DEF TradeInv, Current, PastOver, Fits, Traced
    <3>2. B = {i \in mined : chain[i].tx \notin j.eth} BY DEF BookedOn
    <3>3. j.gas = Cardinality(B) /\ j.gas \in Nat /\ GasBudget \in Nat
      BY <3>1, Bounds DEF Booked, Shaped, Trades
    <3>4. /\ chain \in History /\ PlacedOn(chain, pool) /\ Len(chain) \in Nat
          /\ DOMAIN chain = 1..Len(chain) /\ deep \in 0..Len(chain)
      BY <1>1, ChainTypes DEF TradeInv, TypedChains, Placed
    <3>5. IsFiniteSet(B)
      <4>1. B \subseteq 1..deep BY DEF BookedOn
      <4>2. IsFiniteSet(1..deep) BY <3>4, FS_Interval
      <4> QED BY <4>1, <4>2, FS_Subset
    <3>6. ASSUME j.kind # "withdraw" PROVE Cardinality(mined) <= GasBudget
      <4>1. j.gas <= GasBudget /\ (j.eth # {} => j.gas < GasBudget /\ \E t \in j.eth : j.eth = {t})
        BY <3>1, <3>6 DEF Shaped, Sale
      <4>2. CASE \A i \in mined : chain[i].tx \notin j.eth
        <5>1. mined = B BY <3>2, <4>2
        <5> QED BY <3>3, <4>1, <5>1
      <4>3. ASSUME NEW i \in mined, chain[i].tx \in j.eth PROVE Cardinality(mined) <= GasBudget
        <5>1. j.gas < GasBudget /\ j.eth = {chain[i].tx} BY <4>1, <4>3
        <5>2. ASSUME NEW k \in mined, chain[k].tx \in j.eth PROVE k = i
          <6>1. k \in DOMAIN chain /\ i \in DOMAIN chain BY <3>4
          <6>2. chain[k].tx = chain[i].tx BY <5>1, <5>2
          <6> QED BY <3>4, <6>1, <6>2, PlaceIsUnique
        <5>3. mined = B \cup {i} /\ i \notin B BY <3>2, <4>3, <5>2
        <5>4. Cardinality(mined) = Cardinality(B) + 1 BY <3>5, <5>3, FS_AddElement
        <5> QED BY <3>3, <5>1, <5>4
      <4> QED BY <4>2, <4>3
    <3> QED BY <3>2, <3>3, <3>6
  <2> QED BY <2>1 DEF GasBookedOnce
<1> QED BY <1>1, TradeHolds, PTL

\* What can still take effect or be undone is journaled; nothing is given up.
THEOREM NothingIsLoose == Spec => []NothingLoose
<1>1. ASSUME TradeInv PROVE NothingLoose
  <2> DEFINE journal == UNION {j.eth \cup j.koin : j \in trade}
  <2>1. PICK E, K : Held(E, K) /\ E \subseteq journal /\ K \subseteq journal
    <3>1. CASE trade = {} BY <1>1, <3>1 DEF TradeInv, Current
    <3>2. ASSUME NEW j \in trade PROVE Held(j.eth, j.koin) /\ j.eth \cup j.koin \subseteq journal
      BY <1>1 DEF TradeInv, Current, Fits
    <3>3. CASE trade # {}
      <4>1. PICK j \in trade : TRUE BY <3>3
      <4> QED BY <3>2, <4>1
    <3> QED BY <3>1, <3>3
  <2>2. /\ pool \subseteq journal /\ kpool \subseteq journal
        /\ \A i \in deep + 1..Len(chain) : chain[i].tx \in journal
        /\ \A i \in kfinal + 1..Len(kchain) : kchain[i].tx \in journal \cup Others
    BY <2>1 DEF Held, HeldOn
  <2> HIDE DEF journal
  <2>3. \A t \in pool \cup kpool \cup {chain[i].tx : i \in deep + 1..Len(chain)}
                \cup {kchain[i].tx : i \in kfinal + 1..Len(kchain)} :
          t.step = "other" \/ t \in journal
    BY <2>2 DEF Others
  <2> QED BY <2>3 DEF NothingLoose, journal
<1> QED BY <1>1, TradeHolds, PTL

\* A cancelled trade has moved nothing, and nothing of it moves later.
THEOREM CancelledStaysUnmoved == Spec => []CancelledMovedNothing
<1>1. ASSUME TradeInv PROVE CancelledMovedNothing
  <2> SUFFICES ASSUME NEW j \in trade \cup past, j.status = "cancelled"
               PROVE  /\ \A t \in pool \cup kpool : t.id # j.id
                      /\ NoneOf(chain, j.id) /\ NoneOf(kchain, j.id)
    BY DEF CancelledMovedNothing, NoneOf
  <2>1. Shaped(j) /\ Untouched(j)
    BY <1>1 DEF TradeInv, Current, PastOver, Fits, Traced
  <2>2. j.kind # "withdraw" /\ ~j.moved BY <2>1 DEF Shaped, Withdrawal, Untouched
  <2>3. NoneOf(chain, j.id) /\ NoneOf(kchain, j.id) BY <2>1, <2>2 DEF Untouched
  <2>4. j.eth = {} /\ j.koin = {} BY <2>1, OverIsEmpty DEF Done
  <2>5. ASSUME NEW t \in pool \cup kpool, t.id = j.id PROVE FALSE
    <3>1. PICK k \in trade : (k.eth = {t} \/ k.koin = {t}) /\ t.id = k.id
      BY <1>1, WaitingIsJournaled DEF TradeInv
    <3>2. k = j BY <1>1, <2>5, <3>1 DEF TradeInv, Numbered
    <3> QED BY <2>4, <3>1, <3>2
  <2> QED BY <2>3, <2>5
<1> QED BY <1>1, TradeHolds, PTL
===============================================================================
