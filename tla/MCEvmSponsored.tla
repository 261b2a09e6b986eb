-------------------------- MODULE MCEvmSponsored --------------------------
EXTENDS EvmSponsored, TLC

CONSTANTS p1, p2

\* The payments are interchangeable.
Symmetry == Permutations(Payments)
=============================================================================
