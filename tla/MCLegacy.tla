------------------------------ MODULE MCLegacy ------------------------------
EXTENDS LegacyDriver

Nothing == [k \in Token |-> 0]
Only(k, n) == [Nothing EXCEPT ![k] = n]
Job(route, asset, status, amt) ==
  [route |-> route, asset |-> asset, status |-> status, failedAt |-> "none", afterGas |-> "none",
   pend |-> 0, amt |-> amt, spent |-> 0, fee |-> NoFee, paid |-> 0, bridge |-> 0,
   recoveries |-> 0, sponsored |-> FALSE]
Fresh(j, held) == [job |-> j, bal |-> held, pool |-> << >>]

\* The deposits an earlier release may have left, one to an address.
Usdc == Fresh(Job("C", "usdc", "approve_v3_usdc", Only("usdc", 900)), Only("usdc", 900))
Eth == Fresh([Job("C", "eth", "collect_fee", Only("eth", 900))
                EXCEPT !.fee = [amount |-> 9, token |-> "eth", after |-> "swap_eth_usdt"]],
             Only("eth", 919))
Veth == Fresh(Job("B", "eth", "deposit_eth", Only("eth", 900)), Only("eth", 910))
\* Its gas advance is waiting to be mined.
Usdt == [job |-> [Job("C", "usdt", "front_gas", Only("usdt", 900))
                    EXCEPT !.afterGas = "approve_permit2", !.pend = 1],
         bal |-> Only("usdt", 900),
         pool |-> <<[id |-> 1, step |-> "front_gas", from |-> "vkoin", amount |-> 0, to |-> "eth"]>>]
\* SOL deposits on their way, the redeem of the second sponsored and waiting.
SolS == Fresh(Job("S", "sol", "wh_redeem", Only("vkoin", 900)), Nothing)
SolT == [job |-> [Job("T", "sol", "wh_redeem", Only("eth", 900)) EXCEPT !.pend = 1, !.sponsored = TRUE],
         bal |-> Nothing,
         pool |-> <<[id |-> 1, step |-> "wh_redeem", from |-> "vkoin", amount |-> 900, to |-> "eth"]>>]

Left == {Usdc, Eth, Veth, Usdt, SolS, SolT}
=============================================================================
