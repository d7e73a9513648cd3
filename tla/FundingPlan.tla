----------------------------- MODULE FundingPlan -----------------------------
(***************************************************************************)
(* makePlan of tools/eth/funding-v2.js: which Ethereum steps a conversion  *)
(* will take, whose gas pays for them, and the ceilings it is held to.     *)
(* Prices and token amounts are left out; costs are one number per step    *)
(* (gas limit times the accepted price ceiling).                           *)
(***************************************************************************)
EXTENDS GasAccounting, Sequences

TokenC  == <<"approve_permit2_reset", "approve_permit2", "approve_ur",
             "swap_usdt_vkoin", "approve_bridge", "bridge_token">>
NativeC == <<"swap_eth_usdt">> \o TokenC

\* The steps after repayment, before existing allowances are considered.
FullTail(asset, route) ==
  CASE route = "B"                      -> <<"deposit_eth">>
    [] route = "S"                      -> <<"approve_bridge", "bridge_token">>
    [] asset = "usdc" /\ route # "D"    -> <<"approve_v3_usdc", "swap_usdc_usdt">> \o TokenC
    [] asset \in {"usdc", "usdt"} /\ (asset = "usdc" => route = "D") -> TokenC
    [] OTHER                            -> NativeC

\* The transit address' Permit2 allowance: "none", "some" or "max".
PlanTail(asset, route, permit2) ==
  SelectSeq(FullTail(asset, route), LAMBDA s :
    CASE s = "approve_permit2_reset" -> permit2 = "some"
      [] s = "approve_permit2"       -> permit2 # "max"
      [] OTHER                       -> TRUE)

\* Steps that buy the missing ETH with a slice of the deposited stablecoin;
\* router is its V3 router allowance: "none", "some" or "enough".
RecoverySteps(asset, router) ==
  (IF router = "some" /\ asset = "usdt" THEN <<"gas_approve_reset">> ELSE << >>)
    \o (IF router # "enough" THEN <<"gas_approve">> ELSE << >>)
    \o <<"gas_buy_eth">>

Cost(limit, steps) == MapThenSumSet(LAMBDA s : limit[s], steps)

\* env: the transit wallet as quoted, [own |-> ETH, permit2 |-> _, router |-> _];
\* fees: [limit |-> gas ceiling of each step, service |-> _, riskBps |-> _].
MakePlan(asset, route, env, fees) ==
  LET limit    == fees.limit
      service  == fees.service
      tail     == PlanTail(asset, route, env.permit2)
      stable   == asset \in {"usdc", "usdt"}
      redeem   == IF asset = "sol" THEN {"wh_redeem"} ELSE {}
      sponsoredRedeem == asset = "sol" /\ env.own < limit["wh_redeem"]
      collect(max) == IF service > 0 \/ max > 0 THEN {"collect_fee"} ELSE {}
      ordinary == Range(tail) \cup redeem \cup {"request_signatures"}
                    \cup collect(IF sponsoredRedeem THEN 1 ELSE 0)
      recovers == stable /\ env.own < Cost(limit, ordinary) + service
      pre      == IF recovers THEN RecoverySteps(asset, env.router) ELSE << >>
      advance  == IF recovers THEN Shortfall(Cost(limit, Range(pre)), env.own) ELSE 0
      front    == IF advance > 0 THEN {"front_gas"} ELSE {}
      sponsorMax == IF sponsoredRedeem THEN limit["wh_redeem"]
                    ELSE IF advance > 0 THEN advance + limit["front_gas"] ELSE 0
      steps    == ordinary \cup collect(sponsorMax) \cup Range(pre) \cup front
  IN  [asset |-> asset, route |-> route, pre |-> pre, tail |-> tail, limit |-> limit,
       gasMax |-> Cost(limit, steps), sponsorMax |-> sponsorMax, advanceMax |-> advance,
       service |-> service, riskBps |-> fees.riskBps, sponsoredRedeem |-> sponsoredRedeem]

\* What makePlan refuses: ETH conversions must leave their whole gas budget, and
\* route S is never sponsored.
Accepts(p, amount, own) ==
  /\ p.asset = "eth" => own >= amount + p.gasMax
  /\ p.route = "S" =>
       /\ ~p.sponsoredRedeem
       /\ own >= p.gasMax + p.service + Bps(p.sponsorMax, p.riskBps)

\* The plans a quote for amount can offer.
Offered(asset, route, amount, env, fees) ==
  {p \in {MakePlan(asset, route, env, fees)} : Accepts(p, amount, env.own)}
=============================================================================
