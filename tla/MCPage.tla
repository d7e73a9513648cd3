------------------------------- MODULE MCPage -------------------------------
EXTENDS FundPage, TLC
CONSTANTS a1, a2
Wallets == {a1, a2}
Either == Permutations(Wallets)
=============================================================================
