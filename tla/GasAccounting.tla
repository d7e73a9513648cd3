---------------------------- MODULE GasAccounting ----------------------------
(***************************************************************************)
(* Integer accounting of fee plan v2 (tools/eth/gas-accounting.js).        *)
(*                                                                         *)
(* A job record carries the totals that costs() folds out of its receipts: *)
(*   gasPaid    all Ethereum gas paid, reverted transactions included      *)
(*   spent      sponsor money: sponsored gas plus successful advances      *)
(*   recovered  sponsor money returned by a successful settlement          *)
(* Amounts are natural numbers of one unit.                                *)
(***************************************************************************)
EXTENDS Naturals, FiniteSetsExt

\* Basis points of an amount, rounded up: the charge never rounds to nothing.
Bps(amount, points) == (amount * points + 9999) \div 10000

Shortfall(required, available) ==
  IF required > available THEN required - available ELSE 0

\* What one receipt adds to each total of its job (a body of costs' loop).
GasOf(tx, ok, gas)       == gas
SpentOf(tx, ok, gas)     == IF tx.sponsored
                            THEN gas + (IF ok THEN tx.advance ELSE 0) ELSE 0
RecoveredOf(tx, ok, gas) == IF ok THEN tx.recovered ELSE 0

Debt(j) == Shortfall(j.spent, j.recovered)

\* Sponsor money a job may still draw: nothing once settled or released.
Unspent(j) == IF j.settled THEN 0 ELSE Shortfall(j.plan.sponsorMax, j.spent)

Reserving(js) == {j \in js : ~j.released}

UnspentOf(js)  == MapThenSumSet(Unspent, Reserving(js))
DebtOf(js)     == MapThenSumSet(Debt, Reserving(js))
Exposure(js)   == UnspentOf(js) + DebtOf(js)

\* Lending control: per-job cap, total outstanding cap, protected reserve.
Admits(balance, js, want, cfg) ==
  /\ want <= cfg.maxJob
  /\ Exposure(js) + want <= cfg.maxOutstanding
  /\ balance >= cfg.floor + UnspentOf(js) + want

\* What the single ETH settlement collects.
Premium(j) == Bps(j.spent, j.plan.riskBps)
Due(j)     == Debt(j) + Premium(j) + j.plan.service
=============================================================================
