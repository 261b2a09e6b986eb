--------------------------- MODULE MCNonceWallet ---------------------------
EXTENDS NonceWallet

\* The payments.  No symmetry: the runs check liveness.
CONSTANTS p1, p2
=============================================================================
