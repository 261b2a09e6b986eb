---------------------------- MODULE ExpiryInputs ----------------------------
(***************************************************************************)
(* Transaction inputs of the chains whose transactions expire: Tron, EOS,  *)
(* Hedera, the Internet Computer and Hyperliquid.                          *)
(*                                                                         *)
(* Every input carries a stamp.  Tron and EOS take it from the caller's    *)
(* clock (SetUnix), the Internet Computer and Hyperliquid from the         *)
(* client's, Hedera from the latest block.  The transaction lives for a    *)
(* time after its stamp, and the conflict rules compare stamps.  Time is   *)
(* in the unit in which the chain reads the stamp; fraction is what the    *)
(* client's clock tells beyond that unit, which only Hyperliquid keeps.    *)
(***************************************************************************)
EXTENDS Naturals

CONSTANTS
    Lifetime,   \* how long after its stamp the chain accepts a transaction
    Slack       \* for each driver, what its rule waits beyond the lifetime

AllDrivers == {"tron", "eos", "hedera", "internet_computer", "hyperliquid"}

ASSUME TimesAssumption == Lifetime \in Nat /\ Slack \in [AllDrivers -> Nat]

\* The drivers whose stamp is the time of the block that was read.
BlockStamped == {"hedera"}

Input == [stamp : Nat, fraction : {0, 1}, block : Nat]

----------------------------------------------------------------------------
\* Mutant: Hedera's rule is forgotten, every two inputs are independent.
MutHederaIndependentOf(new, old) == TRUE

\* Hedera's transaction id is the account and the stamp.
HederaIndependentOf(new, old) == new.stamp # old.stamp

IcpIndependentOf(new, old) == new.stamp # old.stamp

\* Hyperliquid compares the whole time, but sends only its milliseconds.
HyperliquidIndependentOf(new, old) ==
    <<new.stamp, new.fraction>> # <<old.stamp, old.fraction>>

\* Tron and EOS answer that all inputs are independent.
IndependentOf(driver, new, old) ==
    CASE driver \in {"tron", "eos"} -> TRUE
      [] driver = "hedera" -> HederaIndependentOf(new, old)
      [] driver = "internet_computer" -> IcpIndependentOf(new, old)
      [] driver = "hyperliquid" -> HyperliquidIndependentOf(new, old)

----------------------------------------------------------------------------
TronExpiration(i) == i.stamp + Lifetime

\* Mutant: nothing is waited beyond the expiration.
MutTronSafe(new, old) == new.stamp > TronExpiration(old)

\* Mutant: the new input's own expiration is looked at.
MutTronSafeOwn(new, old) == new.stamp > TronExpiration(new) + Slack["tron"]

\* The new timestamp is past the old expiration and a minute more.
TronSafe(new, old) == new.stamp > TronExpiration(old) + Slack["tron"]

\* Mutant: a new head block is enough.
MutEosSafe(new, old) == new.block # old.block

\* Both the period with its grace period and another head block.
EosSafe(new, old) ==
    /\ new.stamp >= old.stamp + Lifetime + Slack["eos"]
    /\ new.block # old.block

\* TIME_MARGIN_MULTIPLIER doubles the valid time, so the slack is one more.
HederaSafe(new, old) == new.stamp > old.stamp + Lifetime + Slack["hedera"]

IcpSafe(new, old) == new.stamp > old.stamp + Lifetime + Slack["internet_computer"]

\* Hyperliquid's margin is the 48 hours the chain accepts a nonce, no more.
HyperliquidSafe(new, old) ==
    \/ new.stamp > old.stamp + Lifetime + Slack["hyperliquid"]
    \/ /\ new.stamp = old.stamp + Lifetime + Slack["hyperliquid"]
       /\ new.fraction > old.fraction

SafeFromDoubleSend(driver, new, old) ==
    CASE driver = "tron" -> TronSafe(new, old)
      [] driver = "eos" -> EosSafe(new, old)
      [] driver = "hedera" -> HederaSafe(new, old)
      [] driver = "internet_computer" -> IcpSafe(new, old)
      [] driver = "hyperliquid" -> HyperliquidSafe(new, old)
=============================================================================
