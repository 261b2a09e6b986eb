-------------------------- MODULE MCSolanaWallet --------------------------
EXTENDS SolanaWallet, TLC

CONSTANTS p1, p2

\* The payments are interchangeable.
Symmetry == Permutations(Payments)

\* The accounts that are not derived are the sender's.
Owners == [c \in Named |-> "from"]
=============================================================================
