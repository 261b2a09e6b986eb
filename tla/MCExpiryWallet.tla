-------------------------- MODULE MCExpiryWallet --------------------------
EXTENDS ExpiryWallet, TLC

CONSTANTS p1, p2

\* The payments are interchangeable.
Symmetry == Permutations(Payments)

\* Two units beyond the lifetime, three on EOS, of which its rounds take some;
\* Hyperliquid has none.
Slacks == [d \in AllDrivers |->
    IF d = "eos" THEN 3 ELSE IF d = "hyperliquid" THEN 0 ELSE 2]

\* The numbers of the EOS driver in units of 30 seconds: it waits 90 seconds
\* beyond the lifetime of 5 minutes, and adds up to 255.
EosSlack == [d \in AllDrivers |-> 3]
=============================================================================
