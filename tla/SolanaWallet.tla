---------------------------- MODULE SolanaWallet ----------------------------
(***************************************************************************)
(* Payments of one Solana address.                                         *)
(*                                                                         *)
(* A transaction is ordered either by a recent blockhash, and then expires *)
(* some time after the blockhash was produced, or by the value stored in a *)
(* durable nonce account, and then stays acceptable until the value is     *)
(* advanced.  The client derives a durable nonce account from the sender   *)
(* and one from the fee payer, or is told which account to use; a derived  *)
(* account that does not exist yet is created by a transaction that still  *)
(* uses a recent blockhash.                                                *)
(*                                                                         *)
(* The network is the set of signed attempts: each may arrive at any time  *)
(* while it is acceptable, or never.  The caller follows src/tx.go:56-75;  *)
(* before it starts an attempt it looks the earlier ones up.               *)
(***************************************************************************)
EXTENDS Naturals, FiniteSets

CONSTANTS
    Payments,     \* the payments the owner asks for
    Kinds,        \* whether the caller names a fee payer: sometimes, always, never
    Named,        \* nonce accounts that are not derived from the addresses
    Owner,        \* for each of them whose authority it takes
    Names,        \* the accounts the caller names: sometimes, always, never
    Faults,       \* whether lookups of existing nonce accounts can fail, or both cases
    Margin,       \* SafetyTimeoutMargin
    Lifetime,     \* how long the chain accepts a blockhash it has handed out
    FetchDelay,   \* the longest time from taking the timestamp to the blockhash
    Shared,       \* the nonce accounts that other wallets use as well
    MaxAttempts,  \* bound: attempts of all payments
    MaxTime,      \* bound: the clock
    MaxOutside    \* bound: uses of a nonce account from outside

ASSUME ConstantsAssumption ==
    /\ Named \cap {"from", "payer", "none", "zero"} = {}
    /\ Owner \in [Named -> {"from", "payer", "other"}]
    /\ Names \subseteq Named \cup {"from", "payer", "none"}
    /\ Shared \subseteq Named \cup {"from", "payer"}
    /\ Kinds \subseteq BOOLEAN /\ Faults \subseteq BOOLEAN
    /\ Margin \in Nat /\ Lifetime \in Nat /\ FetchDelay \in Nat
    /\ FetchDelay + Lifetime < Margin
    /\ MaxAttempts \in Nat /\ MaxTime \in Nat /\ MaxOutside \in Nat

VARIABLES
    flaky,       \* whether lookups can fail in this behaviour
    now,         \* the time
    nonceValue,  \* for each nonce account its value, 0 if it does not exist
    held,        \* for each payment, the input being fetched or fetched last
    signed,      \* the attempts signed so far
    executed,    \* the included attempts that moved the payment's funds
    failed,      \* the included attempts that moved nothing
    outside      \* the accounts and values used up from outside

vars == <<flaky, now, nonceValue, held, signed, executed, failed, outside>>

----------------------------------------------------------------------------
\* The one derived from the sender, the one derived from the fee payer, and
\* those that were made otherwise.
NonceAccounts == {"from", "payer"} \cup Named

Authority(c) == IF c \in Named THEN Owner[c] ELSE c

\* The accounts looked up: the one the caller names is taken for the fee
\* payer's, and without a fee payer for the sender's.
FromAccount(sponsored, n) == IF sponsored \/ n = "none" THEN "from" ELSE n

PayerAccount(sponsored, n) ==
    IF ~sponsored THEN "none" ELSE IF n = "none" THEN "payer" ELSE n

Lookups == [from : NonceAccounts, payer : NonceAccounts \cup {"none"}]

\* What fetchDurableNonce returns: a value, an account to be created, or no
\* account at all.
NonceRead == [mode : {"has"}, value : Nat \ {0}] \cup [mode : {"create", "none"}, value : {0}]

NoNonce == [mode |-> "none", value |-> 0]

ToCreate == [mode |-> "create", value |-> 0]

Input ==
    {i \in [timestamp : Nat, blockhash : Nat, accounts : Lookups,
            from : NonceRead, payer : NonceRead] :
        i.accounts.payer = "none" => i.payer = NoNonce}

Attempt == [payment : Payments, input : Input, try : Nat \ {0}]

NoInput == [stage |-> "none"]

Held == {NoInput}
        \cup [stage : {"args"}, timestamp : Nat, accounts : Lookups]
        \cup [stage : {"hash"}, timestamp : Nat, accounts : Lookups, blockhash : Nat]
        \cup [stage : {"ready"}, input : Input]

Included == executed \cup failed

AttemptsOf(p) == {a \in signed : a.payment = p}

\* The attempts that are signed, or prepared for another payment than p: the
\* bound counts both.
Others(p) == Cardinality(signed) + Cardinality({q \in Payments \ {p} : held[q] # NoInput})

----------------------------------------------------------------------------
\* EffectiveDurableNonceState: the fee payer's account first, as in the
\* transaction the builder makes; "zero" is the zero public key.
EffectiveAccount(i) ==
    IF i.payer.mode # "none" THEN i.accounts.payer
    ELSE IF i.from.mode # "none" THEN i.accounts.from ELSE "zero"

EffectiveNonce(i) == IF i.payer.mode # "none" THEN i.payer ELSE i.from

\* The two results of MatchDurableNonce.
SameAccount(i, j) ==
    EffectiveAccount(i) # "zero" /\ EffectiveAccount(i) = EffectiveAccount(j)

\* Mutant: two attempts to create an account are no match.
MutSameNonce(i, j) ==
    SameAccount(i, j) /\ EffectiveNonce(i) = EffectiveNonce(j) /\ EffectiveNonce(i).mode = "has"

\* Both create the account, or both use the same value.
SameNonce(i, j) == SameAccount(i, j) /\ EffectiveNonce(i) = EffectiveNonce(j)

\* Mutant: a new blockhash is enough, however old the other one is.
MutDidTimeoutOccur(new, old) == new.blockhash # old.blockhash

\* Mutant: the margin leaves out how long the fetch takes.
MutDidTimeoutEarly(new, old) ==
    /\ new.timestamp + FetchDelay >= old.timestamp + Margin
    /\ new.blockhash # old.blockhash

\* Mutant: the margin itself is not enough.
MutDidTimeoutLate(new, old) ==
    /\ new.timestamp > old.timestamp + Margin
    /\ new.blockhash # old.blockhash

DidTimeoutOccur(new, old) ==
    /\ new.timestamp >= old.timestamp + Margin
    /\ new.blockhash # old.blockhash

IndependentOf(new, old) == ~SameNonce(new, old)

HasDurableNonce(i) == i.from.mode = "has" \/ i.payer.mode = "has"

\* A match of accounts decides; otherwise the timeout does.
SafeFromDoubleSend(new, old) ==
    IF HasDurableNonce(new) /\ SameAccount(new, old)
    THEN SameNonce(new, old)
    ELSE DidTimeoutOccur(new, old)

\* The caller's rule for signing a transaction with this input now.
MaySign(p, input) ==
    \A a \in signed :
        IF a.payment = p THEN SafeFromDoubleSend(input, a.input)
                         ELSE IndependentOf(input, a.input)

----------------------------------------------------------------------------
Init ==
    /\ flaky \in Faults
    /\ now = 0
    /\ nonceValue \in [NonceAccounts -> {0, 1}]
    /\ held = [p \in Payments |-> NoInput]
    /\ signed = {} /\ executed = {} /\ failed = {} /\ outside = {}

Tick == now < MaxTime /\ now' = now + 1
        /\ UNCHANGED <<flaky, nonceValue, held, signed, executed, failed, outside>>

\* The caller looks its attempts up and, if none is included, takes the
\* timestamp of a new one (xcbuilder.OptionTimestamp).  It may name a fee
\* payer and a nonce account.  A fetch that failed or took too long is dropped.
Begin(p) ==
    /\ Others(p) < MaxAttempts
    /\ ~\E a \in Included : a.payment = p
    /\ \E s \in Kinds, n \in Names : held' = [held EXCEPT ![p] =
          [stage |-> "args", timestamp |-> now,
           accounts |-> [from |-> FromAccount(s, n), payer |-> PayerAccount(s, n)]]]
    /\ UNCHANGED <<flaky, now, nonceValue, signed, executed, failed, outside>>

\* GetLatestBlockhash.  A caller that took longer than FetchDelay starts over.
FetchBlockhash(p) ==
    /\ held[p].stage = "args"
    /\ Cardinality(signed) < MaxAttempts
    /\ now <= held[p].timestamp + FetchDelay
    /\ held' = [held EXCEPT ![p] =
          [stage |-> "hash", timestamp |-> held[p].timestamp,
           accounts |-> held[p].accounts, blockhash |-> now]]
    /\ UNCHANGED <<flaky, now, nonceValue, signed, executed, failed, outside>>

\* Mutant: a missing account is taken for one whose value is zero.
MutNonceReads(c, authorities) == {[mode |-> "has", value |-> nonceValue[c]]}

\* fetchDurableNonce.  Any error counts as a missing account; what is missing
\* is to be created, if the rent can be paid.  An account of another authority
\* is an error of the whole fetch.
NonceReads(c, authorities) ==
    (IF nonceValue[c] # 0 /\ Authority(c) \in authorities
     THEN {[mode |-> "has", value |-> nonceValue[c]]} ELSE {})
    \cup IF nonceValue[c] = 0 \/ flaky THEN {ToCreate, NoNonce} ELSE {}

\* The account of the sender's input is read, and with a fee payer another
\* for the fee payer's.
FetchDurableNonce(p) ==
    /\ held[p].stage = "hash"
    /\ Cardinality(signed) < MaxAttempts
    /\ \E r \in NonceReads(held[p].accounts.from, {"from"}),
          q \in IF held[p].accounts.payer = "none" THEN {NoNonce}
                ELSE NonceReads(held[p].accounts.payer, {"from", "payer"}) :
          held' = [held EXCEPT ![p] =
             [stage |-> "ready",
              input |-> [timestamp |-> held[p].timestamp, blockhash |-> held[p].blockhash,
                         accounts |-> held[p].accounts, from |-> r, payer |-> q]]]
    /\ UNCHANGED <<flaky, now, nonceValue, signed, executed, failed, outside>>

Sign(p) ==
    /\ held[p].stage = "ready"
    /\ Cardinality(signed) < MaxAttempts
    /\ MaySign(p, held[p].input)
    /\ \E t \in 1 .. MaxAttempts :
          /\ \A u \in 1 .. MaxAttempts :
                (u < t) <=> \E a \in AttemptsOf(p) : a.try = u
          /\ signed' = signed \cup
                {[payment |-> p, input |-> held[p].input, try |-> t]}
    /\ held' = [held EXCEPT ![p] = NoInput]
    /\ UNCHANGED <<flaky, now, nonceValue, executed, failed, outside>>

----------------------------------------------------------------------------
\* The transaction the builder makes is ordered by the effective nonce if it
\* has a value, by the blockhash otherwise.
Durable(i) == EffectiveNonce(i).mode = "has"

Creates(i) == EffectiveNonce(i).mode = "create"

\* The chain lets an authority create the account derived from it and no
\* other; that of an account looked up for the sender's input is the sender.
Creatable(i) ==
    EffectiveAccount(i) = IF i.payer.mode # "none" THEN "payer" ELSE "from"

Acceptable(i) ==
    IF Durable(i) THEN nonceValue[EffectiveAccount(i)] = EffectiveNonce(i).value
                  ELSE now <= i.blockhash + Lifetime

Execute(a) ==
    /\ a \notin Included
    /\ Acceptable(a.input)
    /\ Creates(a.input) =>
          Creatable(a.input) /\ nonceValue[EffectiveAccount(a.input)] = 0
    /\ nonceValue' = [c \in NonceAccounts |->
          IF c = EffectiveAccount(a.input) THEN nonceValue[c] + 1 ELSE nonceValue[c]]
    /\ executed' = executed \cup {a}
    /\ UNCHANGED <<flaky, now, held, signed, failed, outside>>

\* A failed transaction advances the durable nonce it uses, and creates none.
Fail(a) ==
    /\ a \notin Included
    /\ Acceptable(a.input)
    /\ nonceValue' = [c \in NonceAccounts |->
          IF c = EffectiveAccount(a.input) /\ Durable(a.input)
          THEN nonceValue[c] + 1 ELSE nonceValue[c]]
    /\ failed' = failed \cup {a}
    /\ UNCHANGED <<flaky, now, held, signed, executed, outside>>

\* Another wallet creates or advances a nonce account.
UseOutside(c) ==
    /\ c \in Shared
    /\ Cardinality(outside) < MaxOutside
    /\ outside' = outside \cup {<<c, nonceValue[c]>>}
    /\ nonceValue' = [nonceValue EXCEPT ![c] = @ + 1]
    /\ UNCHANGED <<flaky, now, held, signed, executed, failed>>

Next ==
    \/ Tick
    \/ \E p \in Payments : \/ Begin(p)
                           \/ FetchBlockhash(p)
                           \/ FetchDurableNonce(p)
                           \/ Sign(p)
    \/ \E a \in signed : Execute(a) \/ Fail(a)
    \/ \E c \in NonceAccounts : UseOutside(c)

Spec == Init /\ [][Next]_vars

----------------------------------------------------------------------------
TypeOK ==
    /\ flaky \in Faults
    /\ now \in Nat
    /\ nonceValue \in [NonceAccounts -> Nat]
    /\ held \in [Payments -> Held]
    /\ signed \subseteq Attempt
    /\ executed \subseteq signed /\ failed \subseteq signed
    /\ outside \subseteq NonceAccounts \X Nat

\* y is signed when the timeout of x has passed, although x has a durable
\* nonce, which does not time out, and y another account or none: a lookup
\* failed, or the caller asked for other accounts, or the fee payer could not
\* pay the rent of its account when x was fetched.
Abandons(x, y) ==
    /\ x.try < y.try
    /\ Durable(x.input)
    /\ EffectiveAccount(x.input) # EffectiveAccount(y.input)
    /\ \/ flaky
       \/ x.input.accounts # y.input.accounts
       \/ x.input.payer.mode = "none" /\ y.input.payer.mode # "none"

\* The promise of SafeFromDoubleSend (src/tx.go:66-74): no two attempts of a
\* payment move its funds.  The driver does not keep it.
NoDoubleSend ==
    \A a, b \in executed : a.payment = b.payment => a = b

\* What is left of the promise: a payment is paid twice only if the earlier
\* attempt uses a durable nonce that the later one abandons, and only for one
\* of the causes Abandons lists.  Blockhashes alone are safe, so is one durable
\* nonce account, and so is a blockhash that a durable nonce follows.
DoubleSendNeedsAbandonedNonce ==
    \A a, b \in executed :
        (a.payment = b.payment /\ a # b) => Abandons(a, b) \/ Abandons(b, a)

\* The payments for which two such attempts were signed.
Exposed ==
    {p \in Payments : \E a, b \in AttemptsOf(p) : Abandons(a, b)}

\* Until such a pair is signed the wallet keeps the whole promise.
Abstract == INSTANCE AtMostOnceUnless
    WITH paidBy <- [p \in Payments |-> {a \in executed : a.payment = p}],
         exposed <- Exposed

ImplementsAtMostOnceUnless == Abstract!Spec

\* The nonce account is past the value the attempt uses, or there already.
NonceGone(i) ==
    \/ Durable(i) /\ nonceValue[EffectiveAccount(i)] # EffectiveNonce(i).value
    \/ Creates(i) /\ nonceValue[EffectiveAccount(i)] # 0

\* What IndependentOf is for: the nonce of a signed attempt is used up by its
\* own payment or from outside, never by a different payment of the caller.
\* It needs lookups of existing accounts that do not fail.
NoCrossInvalidation ==
    ~flaky => \A b \in signed \ Included :
        NonceGone(b.input) =>
            \/ <<EffectiveAccount(b.input), EffectiveNonce(b.input).value>> \in outside
            \/ \E a \in Included : a.payment = b.payment

\* When the timeout has passed, the rule refuses an input only for an attempt
\* whose nonce is gone from the account they share: one that was included or
\* never can be.  So nothing that may still land is in the caller's way, and
\* what is, as an attempt to create an account that exists, is for ever.
RefusalMeansNonceGone ==
    ~flaky => \A p \in Payments : \A a \in AttemptsOf(p) :
        (/\ held[p].stage = "ready"
         /\ held[p].input.timestamp >= a.input.timestamp + Margin
         /\ ~SafeFromDoubleSend(held[p].input, a.input)) =>
            NonceGone(a.input) /\ SameAccount(held[p].input, a.input)
=============================================================================
