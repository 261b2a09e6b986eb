---------------------------- MODULE EvmSponsored ----------------------------
(***************************************************************************)
(* Payments of one EVM account, with and without a fee payer.              *)
(*                                                                         *)
(* A payment with a fee payer is an EIP-7702 transaction of the fee payer. *)
(* It carries an authorization by the owner, which turns the owner's       *)
(* account into a BasicSmartAccount, and a batch of calls signed by the    *)
(* owner, which the BasicSmartAccount makes.  Three numbers are involved:  *)
(* the fee payer's nonce orders the transaction, the owner's nonce orders  *)
(* the authorization, and the smart account's own nonce orders the batch.  *)
(* FetchUnsimulatedInput reads them in three requests, so the chain may    *)
(* move between the reads.                                                 *)
(*                                                                         *)
(* The network is the set of signed attempts: each may arrive at any time, *)
(* or never.  The caller follows src/tx.go:56-75, as in NonceWallet.       *)
(***************************************************************************)
EXTENDS Naturals, FiniteSets

CONSTANTS
    Payments,    \* the payments the owner asks for
    Kinds,       \* whether the caller names a fee payer: sometimes, always, never
    MaxTries,    \* bound: attempts of one payment
    MaxAttempts, \* bound: attempts of all payments
    MaxOutside   \* bound: transactions sent from outside

ASSUME ConstantsAssumption ==
    /\ Kinds \subseteq BOOLEAN
    /\ MaxTries \in Nat /\ MaxAttempts \in Nat /\ MaxOutside \in Nat

VARIABLES
    nonce,       \* the owner's nonce
    payerNonce,  \* the fee payer's nonce
    delegated,   \* the owner's account has the smart account's code
    batchNonce,  \* the BasicSmartAccount's own nonce
    held,        \* for each payment, the input being fetched or fetched last
    signed,      \* the attempts signed so far
    executed,    \* the included attempts that moved the payment's funds
    failed,      \* the included attempts that moved nothing
    settled,     \* the payments whose outcome the caller has seen
    outside      \* how often each nonce was used from outside

chain == <<nonce, payerNonce, delegated, batchNonce>>
vars == <<chain, held, signed, executed, failed, settled, outside>>

----------------------------------------------------------------------------
\* torn is no part of the input.  It remembers that the owner's nonce moved
\* on between its read and the last read of the fetch.
Input == [sponsored : BOOLEAN, nonce : Nat, payerNonce : Nat,
          batchNonce : Nat, torn : BOOLEAN]

Attempt == [payment : Payments, input : Input, try : Nat \ {0}]

NoInput == [stage |-> "none"]

Held == {NoInput}
        \cup [stage : {"nonce"}, nonce : Nat]
        \cup [stage : {"payer"}, nonce : Nat, payerNonce : Nat]
        \cup [stage : {"ready"}, input : Input]

Included == executed \cup failed

AttemptsOf(p) == {a \in signed : a.payment = p}

----------------------------------------------------------------------------
\* Mutant: with a fee payer only its nonce is looked at.
MutOnlyFeePayer(new, old) ==
    IF new.sponsored
    THEN ~(old.sponsored /\ new.payerNonce = old.payerNonce)
    ELSE new.nonce # old.nonce

\* Mutant: the smart account's nonce must differ, too.
MutBatchToo(new, old) ==
    /\ new.nonce # old.nonce
    /\ new.sponsored /\ old.sponsored =>
          new.payerNonce # old.payerNonce /\ new.batchNonce # old.batchNonce

\* One owner and one fee payer, so the addresses of two inputs agree.
IndependentOf(new, old) ==
    /\ new.nonce # old.nonce
    /\ new.sponsored /\ old.sponsored => new.payerNonce # old.payerNonce

\* Mutant: a newer input is taken to replace an older one.
MutSafeIfNewer(new, old) == new.nonce >= old.nonce

SafeFromDoubleSend(new, old) == ~IndependentOf(new, old)

\* The caller's rule for signing a transaction with this input now.
MaySign(p, input) ==
    \A a \in signed :
        IF a.payment = p THEN SafeFromDoubleSend(input, a.input)
                         ELSE IndependentOf(input, a.input)

----------------------------------------------------------------------------
Init ==
    /\ nonce = 0 /\ payerNonce = 0
    /\ delegated \in BOOLEAN /\ batchNonce = 0
    /\ held = [p \in Payments |-> NoInput]
    /\ signed = {} /\ executed = {} /\ failed = {} /\ settled = {}
    /\ outside = [nonce |-> 0, payerNonce |-> 0]

\* Without a fee payer the nonce is all there is to read.
FetchInput(p) ==
    /\ FALSE \in Kinds /\ p \notin settled
    /\ Cardinality(signed) < MaxAttempts
    /\ held' = [held EXCEPT ![p] =
          [stage |-> "ready",
           input |-> [sponsored |-> FALSE, nonce |-> nonce, payerNonce |-> 0,
                      batchNonce |-> 0, torn |-> FALSE]]]
    /\ UNCHANGED <<chain, signed, executed, failed, settled, outside>>

\* With a fee payer there are three reads, in this order.
FetchNonce(p) ==
    /\ TRUE \in Kinds /\ p \notin settled
    /\ Cardinality(signed) < MaxAttempts
    /\ held' = [held EXCEPT ![p] = [stage |-> "nonce", nonce |-> nonce]]
    /\ UNCHANGED <<chain, signed, executed, failed, settled, outside>>

FetchPayerNonce(p) ==
    /\ held[p].stage = "nonce"
    /\ Cardinality(signed) < MaxAttempts
    /\ held' = [held EXCEPT ![p] =
          [stage |-> "payer", nonce |-> held[p].nonce, payerNonce |-> payerNonce]]
    /\ UNCHANGED <<chain, signed, executed, failed, settled, outside>>

\* Mutant: the nonce used last instead of the next one.
MutBatchNonceRead == IF delegated THEN batchNonce - 1 ELSE 0

\* "No contract code at given address" is taken for nonce 0.
BatchNonceRead == IF delegated THEN batchNonce ELSE 0

FetchBatchNonce(p) ==
    /\ held[p].stage = "payer"
    /\ Cardinality(signed) < MaxAttempts
    /\ held' = [held EXCEPT ![p] =
          [stage |-> "ready",
           input |-> [sponsored |-> TRUE, nonce |-> held[p].nonce,
                      payerNonce |-> held[p].payerNonce,
                      batchNonce |-> BatchNonceRead,
                      torn |-> held[p].nonce # nonce]]]
    /\ UNCHANGED <<chain, signed, executed, failed, settled, outside>>

\* An input is signed once; every attempt starts with a fetch of its own.
Sign(p) ==
    /\ held[p].stage = "ready"
    /\ Cardinality(signed) < MaxAttempts
    /\ MaySign(p, held[p].input)
    /\ \E t \in 1 .. MaxTries :
          /\ \A u \in 1 .. MaxTries :
                (u < t) <=> \E a \in AttemptsOf(p) : a.try = u
          /\ signed' = signed \cup
                {[payment |-> p, input |-> held[p].input, try |-> t]}
    /\ held' = [held EXCEPT ![p] = NoInput]
    /\ UNCHANGED <<chain, executed, failed, settled, outside>>

----------------------------------------------------------------------------
\* The chain accepts a transaction whose nonce is its sender's next one.
Acceptable(i) == IF i.sponsored THEN i.payerNonce = payerNonce ELSE i.nonce = nonce

\* An authorization with another nonce is skipped; the transaction goes on.
Authorizes(i) == i.sponsored /\ i.nonce = nonce

\* handleOps runs if the account has the code, and checks the nonce the
\* owner signed the batch with.
BatchAccepted(i) == (delegated \/ Authorizes(i)) /\ i.batchNonce = batchNonce

\* What inclusion changes apart from the transfer.
Include(a) ==
    /\ Acceptable(a.input)
    /\ IF a.input.sponsored
       THEN /\ payerNonce' = payerNonce + 1
            /\ nonce' = IF Authorizes(a.input) THEN nonce + 1 ELSE nonce
            /\ delegated' = (delegated \/ Authorizes(a.input))
       ELSE /\ nonce' = nonce + 1
            /\ UNCHANGED <<payerNonce, delegated>>
    /\ UNCHANGED <<held, signed, settled, outside>>

Execute(a) ==
    /\ Include(a)
    /\ a.input.sponsored => BatchAccepted(a.input)
    /\ batchNonce' = IF a.input.sponsored THEN batchNonce + 1 ELSE batchNonce
    /\ executed' = executed \cup {a}
    /\ UNCHANGED failed

\* The call reverts, the batch is refused, or there is no code to run it.
Fail(a) ==
    /\ Include(a)
    /\ failed' = failed \cup {a}
    /\ UNCHANGED <<batchNonce, executed>>

\* Another wallet sends from the owner's account or from the fee payer's.
UseOutside ==
    /\ outside.nonce + outside.payerNonce < MaxOutside
    /\ \/ /\ nonce' = nonce + 1
          /\ outside' = [outside EXCEPT !.nonce = @ + 1]
          /\ UNCHANGED payerNonce
       \/ /\ payerNonce' = payerNonce + 1
          /\ outside' = [outside EXCEPT !.payerNonce = @ + 1]
          /\ UNCHANGED nonce
    /\ UNCHANGED <<delegated, batchNonce, held, signed, executed, failed, settled>>

\* FetchTxInfo reports an attempt of the payment as confirmed.  The caller
\* gives up whatever it was about to sign for it.
Confirm(p) ==
    /\ p \notin settled
    /\ \E a \in Included : a.payment = p
    /\ settled' = settled \cup {p}
    /\ held' = [held EXCEPT ![p] = NoInput]
    /\ UNCHANGED <<chain, signed, executed, failed, outside>>

Next ==
    \/ \E p \in Payments : \/ FetchInput(p)
                           \/ FetchNonce(p)
                           \/ FetchPayerNonce(p)
                           \/ FetchBatchNonce(p)
                           \/ Sign(p)
                           \/ Confirm(p)
    \/ \E a \in signed : Execute(a) \/ Fail(a)
    \/ UseOutside

Spec == Init /\ [][Next]_vars

----------------------------------------------------------------------------
TypeOK ==
    /\ nonce \in Nat /\ payerNonce \in Nat /\ batchNonce \in Nat
    /\ delegated \in BOOLEAN
    /\ held \in [Payments -> Held]
    /\ signed \subseteq Attempt
    /\ executed \subseteq signed /\ failed \subseteq signed
    /\ settled \subseteq Payments
    /\ outside \in [nonce : Nat, payerNonce : Nat]

\* Attempts that conflict in the owner's nonce alone, which stops a second one
\* only through what its authorization or its batch adds: one has a fee payer
\* and the other has none, or the owner's nonce moved on while the input of
\* the one that comes later in the fee payer's order was fetched.
RaceOrMix(a, b) ==
    /\ a.input.nonce = b.input.nonce
    /\ \/ a.input.sponsored # b.input.sponsored
       \/ \E x, y \in {a, b} :
             x.input.payerNonce < y.input.payerNonce /\ y.input.torn

\* What is left of the promise of SafeFromDoubleSend (src/tx.go:66-74), that
\* no two attempts of a payment move its funds: a payment is paid twice only
\* by a race or a mix, and by a mix only while the owner's account has code,
\* so that the attempt with a fee payer need not authorize anything.
DoubleSendNeedsRaceOrMix ==
    \A a, b \in executed :
        (a.payment = b.payment /\ a # b) =>
            /\ RaceOrMix(a, b)
            /\ a.input.sponsored # b.input.sponsored => delegated

\* The payments for which two such attempts were signed.
Exposed ==
    {p \in Payments : \E a, b \in AttemptsOf(p) : a # b /\ RaceOrMix(a, b)}

\* Until such a pair is signed the wallet keeps the whole promise.
Abstract == INSTANCE AtMostOnceUnless
    WITH paidBy <- [p \in Payments |-> {a \in executed : a.payment = p}],
         exposed <- Exposed

ImplementsAtMostOnceUnless == Abstract!Spec

\* The transaction can no longer move the payment's funds.
Dead(i) ==
    IF i.sponsored
    THEN i.payerNonce < payerNonce \/ i.batchNonce < batchNonce
         \/ (~delegated /\ i.nonce < nonce)
    ELSE i.nonce < nonce

\* What IndependentOf is for: an attempt that was signed beside those of
\* other payments is made impossible only from outside or by its own payment.
NoCrossInvalidation ==
    \A b \in signed \ Included :
        Dead(b.input) =>
            \/ outside.nonce + outside.payerNonce > 0
            \/ \E a \in Included : a.payment = b.payment

\* What the client returns if no block falls between its reads.
FreshInput(sponsored) ==
    [sponsored |-> sponsored, nonce |-> nonce, torn |-> FALSE,
     payerNonce |-> IF sponsored THEN payerNonce ELSE 0,
     batchNonce |-> IF sponsored THEN BatchNonceRead ELSE 0]

\* The other side of the two rules: they never leave a payment stuck.  If
\* nobody else uses the two accounts, a payment that no attempt was included
\* of may be signed with a fresh input, with a fee payer or without, unless a
\* signed transaction is in its way that the chain can include right now.
NobodyIsStuck ==
    outside.nonce + outside.payerNonce = 0 =>
        \A p \in Payments :
            \/ \E a \in Included : a.payment = p
            \/ \E a \in signed \ Included : Acceptable(a.input)
            \/ \A k \in Kinds : MaySign(p, FreshInput(k))
=============================================================================
