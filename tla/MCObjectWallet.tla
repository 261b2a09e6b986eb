-------------------------- MODULE MCObjectWallet --------------------------
EXTENDS ObjectWallet, TLC

CONSTANTS p1, p2, c1, c2, c3

\* The payments are interchangeable, and so are the coins.
Symmetry == Permutations(Payments) \cup Permutations(Coins)
=============================================================================
