------------------------------ MODULE MCTrade ------------------------------
(***************************************************************************)
(* Instances of Trade.  In MCSpec a sale on route B meets one disturbance,  *)
(* lapsed signatures or another transaction of the account; on route C,     *)
(* which takes six more transactions, an approval that has to be given      *)
(* again, before anything reverted.                                         *)
(***************************************************************************)
EXTENDS Trade

Seen(step) == \E i \in DOMAIN kchain' : kchain'[i].tx.step = step
Lapsed(j) == j.status = "sell_refresh" \/ Seen("sell_refresh")
Decided == {o.new : o \in {p \in op' : p.do = "save"}}
Undisturbed ==
  /\ \A j \in trade' \cup Decided :
       CASE j.kind = "B" -> ~(Lapsed(j) /\ Seen("other"))
         [] j.kind = "C" -> ~Lapsed(j) /\ ~Seen("other")
         [] OTHER -> TRUE
  /\ \A j \in trade, k \in Decided :
       j.status = "swap_vkoin_usdt" /\ k.status = "approve_sell_router" => j.gas = 2

MCSpec == Init /\ [][Next /\ Undisturbed]_vars /\ Fairness
============================================================================
