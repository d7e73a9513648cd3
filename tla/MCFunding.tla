------------------------------ MODULE MCFunding ------------------------------
EXTENDS FundingV2, TLC
CONSTANTS a1, a2
P == INSTANCE FundingPlan
One == [s \in EthSteps |-> 1]
Fees(limit, service) == [limit |-> limit, service |-> service, riskBps |-> 2000]
Rich == [own |-> 1000, permit2 |-> "max", router |-> "enough"]
Poor == [own |-> 0, permit2 |-> "none", router |-> "none"]
Allowed == [own |-> 0, permit2 |-> "none", router |-> "enough"]
Some == [own |-> 2, permit2 |-> "max", router |-> "some"]
Old == [own |-> 1000, permit2 |-> "some", router |-> "enough"]

OneAccount == {a1}
TwoAccounts == {a1, a2}
Either == Permutations(TwoAccounts)

\* Recovery of gas from the stablecoin, with and without leftover allowances.
PoorUsdt == P!MakePlan("usdt", "C", Poor, Fees(One, 1))
ShortUsdt == P!MakePlan("usdt", "C", Allowed, Fees(One, 1))
TopUsdt == P!MakePlan("usdt", "C", Some, Fees(One, 1))
FreeUsdc == P!MakePlan("usdc", "D", Rich, Fees(One, 0))
PoorSol  == P!MakePlan("sol", "T", Poor, Fees(One, 1))

OnlyPoorUsdt == {PoorUsdt}
OnlyFreeUsdc == {FreeUsdc}
OnlyShortUsdt == {ShortUsdt}
Sponsored    == {ShortUsdt, PoorSol}
AllRoutes    ==
  {TopUsdt, FreeUsdc}
    \cup P!Offered("usdc", "C", 10, Rich, Fees(One, 1))
    \cup P!Offered("eth", "B", 10, Rich, Fees(One, 1))
    \cup P!Offered("eth", "D", 10, Old, Fees(One, 1))
    \cup P!Offered("sol", "S", 10, Rich, Fees(One, 1))

Ample == [maxJob |-> 10, maxOutstanding |-> 10, floor |-> 2]
Tight == [maxJob |-> 2, maxOutstanding |-> 4, floor |-> 2]
Narrow == [maxJob |-> 2, maxOutstanding |-> 3, floor |-> 2]
OneUnit == {1}
ThreeUnits == {3}
Nowhere == {}
\* Conversions stop once they have repaid.
AfterSettlement == TailSteps
=============================================================================
