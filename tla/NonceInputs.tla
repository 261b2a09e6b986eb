---------------------------- MODULE NonceInputs ----------------------------
(***************************************************************************)
(* Transaction inputs of the chains that order an account's transactions   *)
(* by a number: a nonce, a sequence or a seqno.                            *)
(*                                                                         *)
(* An input is what FetchTransferInput returns and the builder signs over. *)
(* Only what the conflict rules and the chain's acceptance of the          *)
(* transaction depend on is kept: the number of the sending account and,   *)
(* when somebody else pays the fee, the number of the fee payer's account. *)
(* EVM transactions with a fee payer have rules of their own and are       *)
(* modelled in EvmSponsored.                                               *)
(***************************************************************************)
EXTENDS Naturals

\* The chains whose fee payer has a number of its own (FeePayerWithConflicts)
\* and signs the transfer together with the sender.
SponsorDrivers == {"xlm", "cosmos"}

\* The chains whose client asks the node for the next number counting the
\* transactions that wait in the node's pool (Filecoin's MpoolGetNonce).
PoolDrivers == {"filecoin"}

\* The chains whose client reads the number from the latest block.
LatestDrivers == {"evm", "xrp", "substrate", "ton", "near", "dusk", "aptos",
                  "egld"} \cup SponsorDrivers

AllDrivers == PoolDrivers \cup LatestDrivers

Accounts == {"from", "payer"}

\* The fee payer's number is 0 exactly when there is no fee payer.
Input == {i \in [sequence : Nat \ {0}, sponsored : BOOLEAN, payerSequence : Nat] :
             i.sponsored <=> i.payerSequence # 0}

\* Mutant: the account's last number is used as it is, without adding one.
MutSenderInput(n) == [sequence |-> n - 1, sponsored |-> FALSE, payerSequence |-> 0]

\* The inputs the clients build from the next number n of the sender, and the
\* next number m of the fee payer.
SenderInput(n) == [sequence |-> n, sponsored |-> FALSE, payerSequence |-> 0]

SponsoredInput(n, m) == [sequence |-> n, sponsored |-> TRUE, payerSequence |-> m]

----------------------------------------------------------------------------
\* The accounts whose number the signed transaction names.  On Stellar the
\* fee payer replaces the sender as the source of the transaction; on Cosmos
\* both are signers, each with its own sequence.
NumberedAccounts(driver, input) ==
    IF ~input.sponsored THEN {"from"}
    ELSE IF driver = "xlm" THEN {"payer"} ELSE Accounts

NumberOf(input, account) ==
    IF account = "payer" THEN input.payerSequence ELSE input.sequence

\* The transaction uses up these pairs, and the chain accepts each pair once.
Slots(driver, input) ==
    {<<c, NumberOf(input, c)>> : c \in NumberedAccounts(driver, input)}

----------------------------------------------------------------------------
\* Mutant: an input that is not older counts as independent.
MutSequenceIndependentOf(new, old) == new.sequence >= old.sequence

\* Two inputs are independent when their numbers differ (XRP, and with the
\* same text Substrate, TON, NEAR, Filecoin, Dusk, Aptos, EGLD, EVM without
\* a fee payer and, within one account number, Cosmos).
SequenceIndependentOf(new, old) == new.sequence # old.sequence

\* Mutants: the fee payer's number is ignored, or looked at only when both
\* inputs have one.
MutXlmPayerIgnored(new, old) == new.sequence # old.sequence

MutXlmBothPayers(new, old) ==
    IF new.payerSequence # 0 /\ old.payerSequence # 0
    THEN new.payerSequence # old.payerSequence
    ELSE new.sequence # old.sequence

\* Stellar: the fee payers' numbers decide as soon as one input has one.
XlmIndependentOf(new, old) ==
    IF new.payerSequence # 0 \/ old.payerSequence # 0
    THEN new.payerSequence # old.payerSequence
    ELSE new.sequence # old.sequence

IndependentOf(driver, new, old) ==
    IF driver = "xlm" THEN XlmIndependentOf(new, old)
                      ELSE SequenceIndependentOf(new, old)

\* Mutant: a newer number is taken to replace an older one.
MutSafeIfNewer(driver, new, old) == new.sequence >= old.sequence

\* Inputs in conflict cannot both land, so re-signing is safe.
SafeIfInConflict(driver, new, old) == ~IndependentOf(driver, new, old)

\* MultiversX answers the opposite: safe when the nonces differ.
EgldSafeFromDoubleSend(driver, new, old) == IndependentOf(driver, new, old)

SafeFromDoubleSend(driver, new, old) ==
    IF driver = "egld" THEN EgldSafeFromDoubleSend(driver, new, old)
                       ELSE SafeIfInConflict(driver, new, old)
=============================================================================
