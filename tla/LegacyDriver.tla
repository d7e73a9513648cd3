----------------------------- MODULE LegacyDriver -----------------------------
(***************************************************************************)
(* The Ethereum part of a conversion that an earlier release started, which *)
(* has no fee plan: advanceEth(), onEthConfirmed(), failOrRecover(), Retry  *)
(* and reset of tools/funding.js, with the fee of tools/eth/fees.js.        *)
(*                                                                          *)
(* A transaction is sent first and its hash saved after; a failed step asks *)
(* the balances of the deposit address where the money is.  The address may *)
(* hold other deposits of the user.  The timer's handler runs between two   *)
(* awaits while Retry runs between two of its own.                          *)
(***************************************************************************)
EXTENDS Integers, Sequences, FiniteSets, FiniteSetsExt, SequencesExt, Functions, TLC

CONSTANTS
  Deposits,   \* what an earlier release left: [job, bal, pool]
  Advance,    \* what a gas advance or a sponsored redeem cost the sponsor
  BufferPct, RateBps,  \* of the fee
  Transfer,   \* gas of the transfer that carries a fee, in any token
  Reserve,    \* ETH held back for gas
  MaxTx,      \* bound: transactions sent
  MaxFaults   \* bound: faults, of all kinds together

ASSUME Fees == /\ {Advance, BufferPct, RateBps, Transfer, Reserve} \subseteq Nat
               /\ {MaxTx, MaxFaults} \subseteq Nat

Token == {"eth", "usdc", "usdt", "vkoin"}
Approval == {"approve_v3_usdc", "approve_permit2", "approve_ur", "approve_bridge"}
Spending == {"swap_usdc_usdt", "swap_eth_usdt", "swap_usdt_vkoin", "collect_fee",
             "bridge_token", "deposit_eth"}
EthStep == Approval \cup Spending \cup {"front_gas", "wh_redeem"}
Resting == {"awaiting_signatures", "sol_bridge", "error"}

\* The Ethereum transactions that hand the money to the bridge.
Bridging == {"bridge_token", "deposit_eth"}

\* The job is at a step on Ethereum and what it waits for, if the nodes know it, is a
\* transaction of that step; the deposit of route B is never waited for (Noted below).
ASSUME DepositsAreLeft ==
  \A s \in Deposits :
    /\ {"status", "failedAt", "afterGas", "pend", "bridge", "fee", "amt"} \subseteq DOMAIN s.job
    /\ s.job.status \in EthStep /\ s.job.bridge = 0
    /\ s.job.status = "deposit_eth" => s.job.pend = 0
    /\ s.pool \in Seq(Range(s.pool))
    /\ \A i \in DOMAIN s.pool :
         s.pool[i].id = i /\ (i = s.job.pend => s.pool[i].step = s.job.status)

VARIABLES
  job,     \* the account's job, durable; {} once it is reset
  tick,    \* the timer's handler: {} or [at, of, new]
  retry,   \* resume(): {} or [of, keep]
  bal,     \* balances of the deposit address
  was,     \* the balances before the last transaction: what a lagging node reads
  allow,   \* approvals in force
  pool,    \* transactions waiting to be mined, in nonce order
  mined,   \* what was mined: [tx, ok]
  sent,    \* how many transactions were sent
  vaa,     \* the Wormhole transfer: "none", "posted" or "honoured"
  faults   \* ghost: the faults there were, in order

chain == <<bal, was, allow, pool, mined, vaa>>
legacyVars == <<job, tick, retry, chain, sent, faults>>

LegacyInit ==
  /\ \E s \in Deposits :
       /\ job = {s.job} /\ bal = s.bal /\ was = s.bal /\ pool = s.pool
       /\ vaa = (IF s.job.status = "wh_redeem" THEN "posted" ELSE "none")
       /\ sent = Len(s.pool)
  /\ tick = {} /\ retry = {} /\ allow = {} /\ mined = {} /\ faults = << >>

Fault(kind) == Len(faults) < MaxFaults /\ faults' = Append(faults, kind)
NoFault == UNCHANGED faults

Had(kind) == kind \in Range(faults)

-----------------------------------------------------------------------------
(* The chain. *)

\* What a step pays, and what it leaves at the address.
PaysIn(j) ==
  CASE j.status = "swap_usdc_usdt"  -> "usdc"
    [] j.status \in {"swap_eth_usdt", "deposit_eth"} -> "eth"
    [] j.status = "swap_usdt_vkoin" -> "usdt"
    [] j.status = "collect_fee"     -> j.fee.token
    [] OTHER                        -> "vkoin"
Bought(t) ==
  CASE t.step \in {"swap_usdc_usdt", "swap_eth_usdt"} -> "usdt"
    [] t.step = "wh_redeem" /\ t.to = "eth"           -> "eth"
    [] OTHER                                          -> "vkoin"

\* The approval a step draws on, and whether spending uses it up.
Needs(step) ==
  CASE step = "swap_usdc_usdt"  -> {"approve_v3_usdc"}
    [] step = "swap_usdt_vkoin" -> {"approve_permit2", "approve_ur"}
    [] step = "bridge_token"    -> {"approve_bridge"}
    [] OTHER                    -> {}

\* A transaction that would revert against balances b is refused by the gas
\* estimate, and reverts when it is mined.
Works(t, b) ==
  /\ t.step \in Spending => b[t.from] >= t.amount /\ Needs(t.step) \subseteq allow
  /\ t.step = "wh_redeem" => vaa = "posted"

Effect(t) ==
  LET spent == IF t.step \in Spending THEN [bal EXCEPT ![t.from] = @ - t.amount] ELSE bal
  IN  IF t.step \in {"swap_usdc_usdt", "swap_eth_usdt", "swap_usdt_vkoin", "wh_redeem"}
      THEN [spent EXCEPT ![Bought(t)] = @ + t.amount] ELSE spent

\* The next transaction is mined; a price may have moved against it.
Mine ==
  /\ pool # << >>
  /\ pool' = Tail(pool) /\ was' = bal
  /\ LET t == Head(pool)
     IN \/ /\ Works(t, bal) /\ NoFault
           /\ bal' = Effect(t) /\ mined' = mined \cup {[tx |-> t, ok |-> TRUE]}
           /\ allow' = (allow \ (Needs(t.step) \ {"approve_permit2"})) \cup ({t.step} \cap Approval)
           /\ vaa' = (IF t.step = "wh_redeem" THEN "honoured" ELSE vaa)
        \/ /\ IF Works(t, bal) THEN t.step \in Spending /\ Fault("reverted") ELSE NoFault
           /\ mined' = mined \cup {[tx |-> t, ok |-> FALSE]}
           /\ UNCHANGED <<bal, allow, vaa>>
  /\ UNCHANGED <<job, tick, retry, sent>>

\* Anyone may hand the Wormhole transfer in; it pays the deposit address.
Relayed ==
  /\ vaa = "posted" /\ vaa' = "honoured" /\ was' = bal
  /\ \E j \in job : LET k == IF j.route = "T" THEN "eth" ELSE "vkoin"
                   IN bal' = [bal EXCEPT ![k] = @ + j.amt[k]]
  /\ UNCHANGED <<job, tick, retry, allow, pool, mined, sent>> /\ NoFault

\* A low fee: the nodes forget the newest transaction.
Drop ==
  /\ pool # << >> /\ Fault("dropped") /\ pool' = Front(pool)
  /\ UNCHANGED <<job, tick, retry, bal, was, allow, mined, vaa, sent>>

\* Permit2 approvals last an hour.
Lapse ==
  /\ "approve_ur" \in allow /\ Fault("lapsed") /\ allow' = allow \ {"approve_ur"}
  /\ UNCHANGED <<job, tick, retry, bal, was, pool, mined, vaa, sent>>

Status(id) ==
  CASE \E m \in mined : m.tx.id = id /\ m.ok  -> "ok"
    [] \E m \in mined : m.tx.id = id /\ ~m.ok -> "reverted"
    [] \E t \in Range(pool) : t.id = id       -> "waiting"
    [] OTHER                                  -> "gone"

\* Balances as a current node gives them, or one that is a transaction behind.
Reads(b) ==
  \/ b = bal /\ NoFault
  \/ b = was /\ b # bal /\ Fault("behind")

-----------------------------------------------------------------------------
(* The fee: tools/eth/fees.js and priceFee(). *)

Fee(spent, value) == (spent * (100 + BufferPct)) \div 100 + (value * RateBps) \div 10000
WorthCollecting(fee) == fee > 2 * Transfer

At(j, status) == [j EXCEPT !.status = status]

NoFee == [amount |-> 0, token |-> "none", after |-> "none"]

Collect(j, value, token, next) ==
  [j EXCEPT !.status = "collect_fee",
            !.fee = [amount |-> Fee(j.spent, value), token |-> token, after |-> next]]
SkipFee(j, next) == [j EXCEPT !.status = next, !.fee = NoFee]

\* priceFee(): skipped when it is too small or a token has no price just now; {} when
\* that would leave gas unpaid, and it throws.
PriceFee(j, value, token, next) ==
  LET worth == WorthCollecting(Fee(j.spent, value))
  IN  (IF worth THEN {Collect(j, value, token, next)} ELSE {})
        \cup IF j.spent = 0 /\ (token # "eth" \/ ~worth) THEN {SkipFee(j, next)} ELSE {}

\* gasBeforeStep(): a top-up is put in front of a step while ETH is short.
GasBefore(j, next) == {At(j, next), [At(j, "front_gas") EXCEPT !.afterGas = next]}

\* handOffToRouteC(): the ether that arrived, less gas, is swapped.
HandOff(j, arrived) ==
  LET usable == Min({arrived, bal["eth"]})
      spend  == usable - Reserve
      net(p) == IF spend > p.fee.amount THEN spend - p.fee.amount ELSE spend
  IN  IF spend <= 0 THEN {}
      ELSE {[p EXCEPT !.pend = 0, !.amt["eth"] = net(p)] :
              p \in PriceFee(j, spend, "eth", "swap_eth_usdt")}

-----------------------------------------------------------------------------
(* Where the money is: reconcileRouteC(), reconcileSol(). *)

SolPhase(j) == j.route \in {"S", "T"} /\ "wh_redeem" \in {j.status, j.failedAt}
Want(j, token, have) == IF j.amt[token] = 0 THEN have ELSE Min({have, j.amt[token]})

\* The steps the balances b name: none or one, on the record of a job of which j is
\* the copy that was read.
FoundC(j, now, b) ==
  IF j.route \notin {"C", "T"} \/ j.bridge # 0 THEN {}
  ELSE CASE b["vkoin"] > 0 ->
              {At([now EXCEPT !.amt["vkoin"] = b["vkoin"]], "approve_bridge")}
         [] b["vkoin"] = 0 /\ b["usdt"] > 0 ->
              {At([now EXCEPT !.amt["usdt"] = Want(j, "usdt", b["usdt"])], "approve_permit2")}
         [] j.asset = "usdc" /\ b["vkoin"] = 0 /\ b["usdt"] = 0 /\ b["usdc"] > 0 ->
              {At([now EXCEPT !.amt["usdc"] = Want(j, "usdc", b["usdc"])], "approve_v3_usdc")}
         [] OTHER -> {}

FoundSol(j, now, b) ==
  IF j.bridge # 0 THEN {}
  ELSE IF j.route = "S" /\ b["vkoin"] > 0
  THEN {[At(now, "approve_bridge") EXCEPT !.amt["vkoin"] = b["vkoin"], !.pend = 0]}
  ELSE IF j.route = "S" /\ vaa = "honoured" THEN {}
  ELSE {[At(now, "wh_redeem") EXCEPT !.pend = 0]}

Found(j, now, b) == IF SolPhase(j) THEN FoundSol(j, now, b) ELSE FoundC(j, now, b)

-----------------------------------------------------------------------------
(* The timer: tick() and advanceEth(). *)

Visit ==
  /\ tick = {}
  /\ IF retry = {} THEN NoFault ELSE Fault("overlap")
  /\ \E j \in job : j.status \in EthStep /\ tick' = {[at |-> "read", of |-> j, new |-> j]}
  /\ UNCHANGED <<job, retry, chain, sent>>

Reading == {h.of : h \in {k \in tick : k.at = "read"}}

Saves(j) == job' = {j} /\ tick' = {} /\ UNCHANGED <<retry, chain, sent>>
Throws(j) == tick' = {[at |-> "failed", of |-> j, new |-> j]} /\ UNCHANGED <<job, retry, chain, sent>>

\* MUTANT of Waits: a transaction without a receipt yet counts as failed.
WaitsNot(j) == j.pend # 0 /\ Status(j.pend) \in {"waiting", "gone"} /\ NoFault /\ Throws(j)

\* Nothing to do yet, or an error that will pass.
Waits(j) ==
  /\ j.pend # 0 /\ Status(j.pend) \in {"waiting", "gone"}
  /\ tick' = {} /\ UNCHANGED <<job, retry, chain, sent>> /\ NoFault

\* Any step can fail, on a price or on a read whose error is not known to pass.
Breaks(j) ==
  Fault(IF j.pend # 0 THEN "unread" ELSE "broke") /\ Throws(j)

Reverted(j) == j.pend # 0 /\ Status(j.pend) = "reverted" /\ NoFault /\ Throws(j)

Amount(id) == CHOOSE a \in {m.tx.amount : m \in {n \in mined : n.tx.id = id}} : TRUE

\* onEthConfirmed(): the jobs a receipt leads to; {} when it throws.
Confirms(j) ==
  LET base == [j EXCEPT !.pend = 0]
      got == Amount(j.pend)
      bought(token, next) == [At(base, next) EXCEPT !.amt[token] = got]
  IN CASE j.status = "front_gas" ->
            LET next == [At(base, j.afterGas) EXCEPT !.spent = @ + Advance, !.afterGas = "none"]
                kind == IF j.asset = "usdt" THEN {"usdt"}
                        ELSE IF j.route = "S" /\ j.amt["vkoin"] > 0 THEN {"vkoin"} ELSE {}
            IN IF kind = {} \/ j.paid > 0 THEN {next}
               ELSE UNION {PriceFee(next, j.amt[k], k, j.afterGas) : k \in kind}
       [] j.status = "approve_v3_usdc" -> {At(base, "swap_usdc_usdt")}
       [] j.status \in {"swap_usdc_usdt", "swap_eth_usdt"} ->
            LET withUsdt == bought("usdt", "approve_permit2")
            IN IF j.asset = "eth" \/ j.route = "T" THEN {withUsdt}
               ELSE PriceFee(withUsdt, got, "usdt", "approve_permit2")
       [] j.status = "approve_permit2" -> {At(base, "approve_ur")}
       [] j.status = "approve_ur"      -> {At(base, "swap_usdt_vkoin")}
       [] j.status = "swap_usdt_vkoin" -> {bought("vkoin", "approve_bridge")}
       [] j.status = "wh_redeem" ->
            LET repaid == [j EXCEPT !.spent = @ + IF j.sponsored THEN Advance ELSE 0]
            IN IF j.route = "T" THEN HandOff(repaid, got)
               ELSE LET held == [bought("vkoin", "approve_bridge") EXCEPT !.spent = repaid.spent]
                    IN UNION {IF n.status = "front_gas" THEN {n}
                              ELSE PriceFee(n, got, "vkoin", "approve_bridge") :
                                n \in GasBefore(held, "approve_bridge")}
       [] j.status = "collect_fee" ->
            {[At(base, j.fee.after) EXCEPT
                !.amt = [k \in Token |-> IF k = j.fee.token /\ k # "eth" THEN @[k] - j.paid ELSE @[k]],
                !.fee = NoFee]}
       [] j.status = "approve_bridge"  -> {At(base, "bridge_token")}
       [] j.status = "bridge_token"    -> {[At(base, "awaiting_signatures") EXCEPT !.bridge = j.pend]}
       [] OTHER                        -> {}

Confirmed(j) ==
  /\ j.pend # 0 /\ Status(j.pend) = "ok" /\ NoFault
  /\ IF Confirms(j) = {} THEN Throws(j) ELSE \E n \in Confirms(j) : Saves(n)

\* A step whose work is done already goes on without a transaction.
Ahead(j) ==
  CASE j.status \in Approval /\ j.status \in allow ->
         LET then == [approve_v3_usdc |-> "swap_usdc_usdt", approve_permit2 |-> "approve_ur",
                      approve_ur |-> "swap_usdt_vkoin", approve_bridge |-> "bridge_token"]
         IN {At(j, then[j.status])}
    [] j.status = "swap_usdt_vkoin" /\ "approve_ur" \notin allow -> {At(j, "approve_ur")}
    [] j.status = "collect_fee" /\ j.fee.amount = 0 -> {[At(j, j.fee.after) EXCEPT !.fee = NoFee]}
    [] j.status = "front_gas" -> {[At(j, j.afterGas) EXCEPT !.afterGas = "none"]}
    [] OTHER -> {}

Skips(j) == j.pend = 0 /\ NoFault /\ \E n \in Ahead(j) : Saves(n)

\* wh_redeem asks the bridge first; a transfer honoured without delivering here was
\* another one, and the job looks again from Solana, twice.
Honoured(j) ==
  /\ j.pend = 0 /\ j.status = "wh_redeem" /\ vaa = "honoured" /\ NoFault
  /\ LET next == IF j.route = "T" THEN HandOff(j, j.amt["eth"])
                 ELSE IF bal["vkoin"] > 0
                 THEN GasBefore([j EXCEPT !.amt["vkoin"] = bal["vkoin"]], "approve_bridge")
                 ELSE {At(j, "sol_bridge")}
     IN IF next = {} THEN Throws(j) ELSE \E n \in next : Saves(n)

Tx(j) ==
  [id |-> sent + 1, step |-> j.status, from |-> PaysIn(j),
   amount |-> CASE j.status = "collect_fee" -> j.fee.amount
                [] j.status = "wh_redeem"   -> j.amt[IF j.route = "T" THEN "eth" ELSE "vkoin"]
                [] OTHER                    -> j.amt[PaysIn(j)],
   to |-> IF j.route = "T" THEN "eth" ELSE "vkoin"]

\* The record that is saved once the send has returned.
Noted(j) ==
  LET id == sent + 1
  IN CASE j.status = "deposit_eth" -> [At(j, "awaiting_signatures") EXCEPT !.bridge = id]
       [] j.status = "collect_fee" -> [j EXCEPT !.pend = id, !.paid = j.fee.amount]
       [] j.status = "wh_redeem"   -> [j EXCEPT !.pend = id, !.sponsored = FALSE]
       [] OTHER                    -> [j EXCEPT !.pend = id]

\* The gas left for the route is never paid as a fee.
Affords(j, b) ==
  j.status = "collect_fee" =>
    b[j.fee.token] >= j.fee.amount + IF j.fee.token = "eth" THEN Reserve ELSE 0

Sends(j) ==
  /\ j.pend = 0 /\ Ahead(j) = {} /\ ~(j.status = "wh_redeem" /\ vaa = "honoured")
  /\ sent < MaxTx
  /\ \E b \in {bal, was} :
       /\ Reads(b)
       /\ IF Affords(j, b) /\ Works(Tx(j), b)
          THEN /\ pool' = Append(pool, Tx(j)) /\ sent' = sent + 1
               /\ tick' = {[at |-> "sent", of |-> j, new |-> Noted(j)]}
               /\ UNCHANGED <<job, retry, bal, was, allow, mined, vaa>>
          ELSE Throws(j)

SaveSent ==
  /\ NoFault
  /\ \E h \in tick : h.at = "sent" /\ job' = {h.new}
  /\ tick' = {} /\ UNCHANGED <<retry, chain, sent>>

\* The reply of a send is lost, or the process dies: the hash is not saved.
Dies ==
  /\ \E h \in tick : Fault(IF h.at = "sent" THEN "lost" ELSE "crash")
  /\ tick' = {} /\ retry' = {} /\ UNCHANGED <<job, chain, sent>>

MaxRecoveries == 3

\* failOrRecover(): another step the balances name, or the error.
Recovers ==
  \E h \in tick, now \in job, b \in {bal, was} :
    /\ h.at = "failed" /\ Reads(b)
    /\ LET elsewhere == {n \in Found(h.of, now, b) : n.status # h.of.status}
       IN IF h.of.recoveries < MaxRecoveries /\ elsewhere # {}
          THEN \E n \in elsewhere :
                 Saves([n EXCEPT !.pend = 0, !.recoveries = h.of.recoveries + 1])
          ELSE Saves([At(now, "error") EXCEPT !.failedAt = h.of.status])

Advances(j) ==
  \/ Waits(j) \/ Reverted(j) \/ Confirmed(j) \/ Skips(j) \/ Honoured(j) \/ Sends(j) \/ Breaks(j)

-----------------------------------------------------------------------------
(* Retry, reset and the wait for the guardians. *)

Idempotent == {"wh_redeem", "awaiting_redeem", "bridge_token"}

\* MUTANT of Keeps: a transaction no node knows is kept, as when none answers.
KeepsGone(j) ==
  IF j.status = "error" \/ j.pend = 0 THEN {FALSE}
  ELSE CASE Status(j.pend) \in {"ok", "reverted", "gone"} -> {TRUE}
         [] OTHER -> IF j.status \in Idempotent THEN {FALSE} ELSE {}

\* resume() up to its answer about a pending transaction.  A failed job's is finished
\* with; a stalled one's is kept when it was mined or cannot be read, and refuses the
\* Retry while it waits, unless the step asks the chain before it spends.
Keeps(j) ==
  IF j.status = "error" \/ j.pend = 0 THEN {FALSE}
  ELSE CASE Status(j.pend) \in {"ok", "reverted"} -> {TRUE}
         [] Status(j.pend) = "waiting" -> IF j.status \in Idempotent THEN {FALSE} ELSE {}
         [] OTHER -> {FALSE}

\* A transaction the nodes forgot leaves its job waiting until it counts as stalled.
Stuck(j) == j.status = "error" \/ (j.pend # 0 /\ Status(j.pend) = "gone")

Resume(j) ==
  /\ retry = {} /\ j.status \in EthStep \cup {"error"}
  /\ \/ /\ IF tick # {} THEN Fault("overlap") ELSE IF Stuck(j) THEN NoFault ELSE Fault("stalled")
        /\ \E keep \in Keeps(j) : retry' = {[of |-> j, keep |-> keep]}
     \/ /\ j.status # "error" /\ j.pend # 0 /\ Fault("unread")
        /\ retry' = {[of |-> j, keep |-> TRUE]}
  /\ UNCHANGED <<job, tick, chain, sent>>

\* Its end: where the balances say, or the recorded step when they cannot be read.
Retried ==
  \E r \in retry :
    /\ LET j == r.of
           recorded == At(j, IF j.status = "error" THEN j.failedAt ELSE j.status)
           resumes(n) == job' = {[n EXCEPT !.failedAt = "none", !.pend = IF r.keep THEN @ ELSE 0]}
       IN \/ Fault("unasked") /\ resumes(recorded)
          \/ \E b \in {bal, was} :
               /\ Reads(b)
               /\ \E n \in IF Found(j, j, b) = {} THEN {recorded} ELSE Found(j, j, b) : resumes(n)
    /\ retry' = {} /\ UNCHANGED <<tick, chain, sent>>

\* pollGuardians() gives up after half an hour; Retry goes on waiting.
TimesOut(j) ==
  /\ j.status = "awaiting_signatures" /\ Fault("slow")
  /\ job' = {[At(j, "error") EXCEPT !.failedAt = "awaiting_signatures"]}
  /\ UNCHANGED <<tick, retry, chain, sent>>

\* MUTANT of Reset: a transfer that is under way is not asked about.
ResetAnyway(j) ==
  /\ j.status = "error" /\ ~(j.spent > 0 /\ j.paid = 0)
  /\ NoFault
  /\ job' = {} /\ UNCHANGED <<tick, retry, chain, sent>>

Reset(j) ==
  /\ j.status = "error" /\ j.bridge = 0
  /\ ~(j.spent > 0 /\ j.paid = 0)
  /\ NoFault
  /\ job' = {} /\ UNCHANGED <<tick, retry, chain, sent>>

-----------------------------------------------------------------------------

LegacyNext ==
  \/ Mine \/ Drop \/ Lapse \/ Relayed
  \/ Visit \/ SaveSent \/ Dies \/ Recovers
  \/ \E j \in Reading : Advances(j)
  \/ \E j \in job : Resume(j) \/ TimesOut(j) \/ Reset(j)
  \/ Retried

LegacySpec == LegacyInit /\ [][LegacyNext]_legacyVars

LegacyFairness ==
  /\ WF_legacyVars(Mine /\ faults' = faults) /\ WF_legacyVars(Visit)
  /\ WF_legacyVars(Retried /\ faults' = faults)
  /\ WF_legacyVars((SaveSent \/ Recovers \/ \E j \in Reading : Advances(j)) /\ faults' = faults)
  /\ SF_legacyVars(\E j \in job : Stuck(j) /\ Resume(j) /\ faults' = faults)

LegacyFairSpec == LegacySpec /\ LegacyFairness

-----------------------------------------------------------------------------
(* Properties. *)

\* The four ways a transaction's hash is forgotten: its reply or the save after it is
\* lost, its receipt cannot be read for an unknown reason, Retry of a step that merely
\* looks stalled, and Retry between two steps of the timer.
Forgets == {"lost", "unread", "stalled", "overlap"}
Forgotten == Range(faults) \cap Forgets # {}

Known == UNION {{j.bridge, j.pend} : j \in job \cup {h.new : h \in tick}}
Alive == Range(pool) \cup {m.tx : m \in {n \in mined : n.ok}}
Followed == \A t \in Alive : t.step \in Bridging => t.id \in Known

\* A transfer that was handed to the bridge stays on the job's record until the bridge
\* has answered: whatever reverts, is dropped or times out, no recovery, Retry or reset
\* loses it (the four ways above do: README, findings).
KeepsTransfer == [][Followed /\ ~Followed' => Forgotten']_legacyVars

\* No step pays twice: not the fee, not a swap, not the deposit in the bridge; and what
\* reached the bridge is all the job had.
SpentOnce ==
  Forgotten \/
    LET Paid == {m.tx : m \in {n \in mined : n.ok /\ n.tx.step \in Spending}}
    IN  /\ \A s, t \in Paid : s.step = t.step => s = t
        /\ \A j \in job : \A t \in Paid : t.step = "bridge_token" /\ t.id = j.bridge => bal["vkoin"] = 0

\* Every deposit gets to the bridge, back to Solana or to a reset, the timer and Retry
\* working: no failed, dropped or expired step leaves the job where nothing moves it.
Settles ==
  <>(Forgotten \/ sent = MaxTx \/ job = {} \/ \E j \in job : j.bridge # 0 \/ j.status = "sol_bridge")

=============================================================================
