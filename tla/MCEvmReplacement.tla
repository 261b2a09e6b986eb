------------------------- MODULE MCEvmReplacement -------------------------
(***************************************************************************)
(* An instance of EvmReplacement: fees large enough for percentages to      *)
(* matter, and one market whose tip is small enough to be rounded away.     *)
(***************************************************************************)
EXTENDS EvmReplacement, TLC

CONSTANTS n1, n2

MCMarkets == {[base |-> 30, tip |-> 5], [base |-> 8, tip |-> 12]}

MCOthers == {[cap |-> 10, tip |-> 7]}

Symmetry == Permutations(Nodes)
=============================================================================
