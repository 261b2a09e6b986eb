---------------------------- MODULE ObjectInputs ----------------------------
(***************************************************************************)
(* Transaction inputs of the chains that spend objects whole: the outputs  *)
(* of Bitcoin, Cardano and Kaspa, Canton's contracts and Sui's coins.      *)
(*                                                                         *)
(* An object is an output, a contract, or one version of a coin.  It is    *)
(* spent once, and the transaction that spends it makes new ones.  An      *)
(* input names the objects the transaction will spend.  On Sui one of them *)
(* is the gas coin and the input also names the epoch after which it       *)
(* expires.                                                                *)
(***************************************************************************)
EXTENDS Naturals

AllDrivers == {"bitcoin", "cardano", "kaspa", "canton", "sui"}

\* There is no gas coin: all drivers but Sui.
NoGas == <<"no gas">>

Spends(input) == input.coins \cup ({input.gas} \ {NoGas})

----------------------------------------------------------------------------
\* Canton compares submission ids and keys too, but each fetch of a transfer
\* draws a new id, and transfers have no key.
SpentByBoth(new, old) == new.coins \cap old.coins

UtxoIndependentOf(new, old) == SpentByBoth(new, old) = {}

\* Mutant: the gas coins are not compared with the other input's coins.
MutCoinsDisjoint(new, old) == new.gas # old.gas /\ new.coins \cap old.coins = {}

\* The gas coins are compared with the other's coins in a loop over the pairs
\* of coins, which is not entered if one of the inputs holds none.
CoinsDisjoint(new, old) ==
    /\ new.gas # old.gas
    /\ \A c \in old.coins, d \in new.coins :
          c # d /\ c # new.gas /\ d # old.gas

\* Inputs of different epochs do not meet: the earlier one has expired.
SuiIndependentOf(new, old) == new.epoch # old.epoch \/ CoinsDisjoint(new, old)

SuiSafeFromDoubleSend(new, old) == new.epoch # old.epoch \/ ~CoinsDisjoint(new, old)

IndependentOf(driver, new, old) ==
    IF driver = "sui" THEN SuiIndependentOf(new, old) ELSE UtxoIndependentOf(new, old)

\* Mutant: an input with an output more is taken for a replacement.
MutSafeFromDoubleSend(driver, new, old) ==
    IF driver = "sui" THEN SuiSafeFromDoubleSend(new, old) ELSE new.coins # old.coins

SafeFromDoubleSend(driver, new, old) ==
    IF driver = "sui" THEN SuiSafeFromDoubleSend(new, old) ELSE ~UtxoIndependentOf(new, old)
=============================================================================
