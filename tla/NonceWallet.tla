---------------------------- MODULE NonceWallet ----------------------------
(***************************************************************************)
(* Sending payments from one address of a chain that numbers an account's  *)
(* transactions.                                                           *)
(*                                                                         *)
(* The caller of the library fetches an input for a payment, signs the     *)
(* transaction when the conflict rules allow it, and submits it.  It may   *)
(* fetch and sign again before it knows what became of an earlier attempt. *)
(* The network delivers a signed transaction late, loses it, or receives   *)
(* it twice.  The chain executes a transaction whose numbers are the next  *)
(* ones of their accounts.  The accounts are also used from outside.       *)
(*                                                                         *)
(* The caller is not in the repository.  Its rules are those src/tx.go     *)
(* gives for TxInputConflicts: sign again only if the new input is         *)
(* SafeFromDoubleSend against every previous attempt of the payment, and   *)
(* queue the payment unless the new input is IndependentOf the inputs      *)
(* already signed for other payments.                                      *)
(***************************************************************************)
EXTENDS NonceInputs, FiniteSets

CONSTANTS
    Payments,    \* the payments the owner asks for
    Drivers,     \* the chains looked at; a behaviour is about one of them
    MaxTries,    \* bound: attempts of one payment
    MaxNumber,   \* bound: the largest number an account reaches
    MaxOutside   \* bound: transactions sent from outside

ASSUME ConstantsAssumption ==
    /\ Drivers \subseteq AllDrivers
    /\ MaxTries \in Nat /\ MaxNumber \in Nat /\ MaxOutside \in Nat

VARIABLES
    driver,     \* the chain
    next,       \* for each account, the number the chain expects next
    held,       \* for each payment, the input fetched for it last
    signed,     \* the attempts signed so far
    pool,       \* the attempts waiting in the network
    executed,   \* the attempts that moved the payment's funds
    reverted,   \* the attempts included in a block as failed
    settled,    \* the payments whose outcome the caller has seen
    outside     \* the slots used by transactions from outside

vars == <<driver, next, held, signed, pool, executed, reverted, settled, outside>>

----------------------------------------------------------------------------
Attempt == [payment : Payments, input : Input, try : Nat \ {0}]

NoInput == [stage |-> "none"]

Held == {NoInput}
        \cup [stage : {"payer"}, sequence : Nat \ {0}]
        \cup [stage : {"ready"}, input : Input]

SlotsOf(a) == Slots(driver, a.input)

Included == executed \cup reverted

AttemptsOf(p) == {a \in signed : a.payment = p}

\* The numbers of an account that wait in the pool.
Pending(account) ==
    {s[2] : s \in {t \in UNION {SlotsOf(a) : a \in pool} : t[1] = account}}

\* Mutant: the number is read once and remembered.
MutNumberRemembered(account, n) == n = 1

\* Mutant: one is added to a number that is the next one already.
MutNumberSkipped(account, n) == n = next[account] + 1

\* The number the client reads for the account: the next one of the latest
\* block, or the first one that neither the chain nor the pool has used.
IsNumberRead(account, n) ==
    IF driver \in PoolDrivers
    THEN /\ n >= next[account]
         /\ n \notin Pending(account)
         /\ \A m \in next[account] .. n - 1 : m \in Pending(account)
    ELSE n = next[account]

----------------------------------------------------------------------------
Init ==
    /\ driver \in Drivers
    /\ next = [c \in Accounts |-> 1]
    /\ held = [p \in Payments |-> NoInput]
    /\ signed = {}
    /\ pool = {}
    /\ executed = {}
    /\ reverted = {}
    /\ settled = {}
    /\ outside = {}

\* FetchTransferInput reads the sender's number; without a fee payer the
\* input is complete.  Nothing is fetched that the bound lets nobody sign.
FetchInput(p) ==
    /\ p \notin settled
    /\ Cardinality(AttemptsOf(p)) < MaxTries
    /\ \E n \in 1 .. MaxNumber :
          /\ IsNumberRead("from", n)
          /\ held' = [held EXCEPT ![p] =
                [stage |-> "ready", input |-> SenderInput(n)]]
    /\ UNCHANGED <<driver, next, signed, pool, executed, reverted, settled, outside>>

\* With a fee payer its account is read by a second request, later.
FetchSponsoredInput(p) ==
    /\ p \notin settled
    /\ driver \in SponsorDrivers
    /\ Cardinality(AttemptsOf(p)) < MaxTries
    /\ \E n \in 1 .. MaxNumber :
          /\ IsNumberRead("from", n)
          /\ held' = [held EXCEPT ![p] = [stage |-> "payer", sequence |-> n]]
    /\ UNCHANGED <<driver, next, signed, pool, executed, reverted, settled, outside>>

FetchPayer(p) ==
    /\ held[p].stage = "payer"
    /\ Cardinality(AttemptsOf(p)) < MaxTries
    /\ \E n \in 1 .. MaxNumber :
          /\ IsNumberRead("payer", n)
          /\ held' = [held EXCEPT ![p] =
                [stage |-> "ready", input |-> SponsoredInput(held[p].sequence, n)]]
    /\ UNCHANGED <<driver, next, signed, pool, executed, reverted, settled, outside>>

\* The caller's rule for signing a transaction with this input now.
MaySign(p, input) ==
    \A a \in signed :
        IF a.payment = p THEN SafeFromDoubleSend(driver, input, a.input)
                         ELSE IndependentOf(driver, input, a.input)

\* The input in hand may have been fetched long ago.
Sign(p) ==
    /\ p \notin settled
    /\ held[p].stage = "ready"
    /\ MaySign(p, held[p].input)
    /\ \E t \in 1 .. MaxTries :
          /\ \A u \in 1 .. MaxTries :
                (u < t) <=> \E a \in AttemptsOf(p) : a.try = u
          /\ signed' = signed \cup
                {[payment |-> p, input |-> held[p].input, try |-> t]}
    /\ UNCHANGED <<driver, next, held, pool, executed, reverted, settled, outside>>

\* SubmitTx, also of an attempt submitted before.
Submit(a) ==
    /\ a.payment \notin settled
    /\ a \notin Included
    /\ pool' = pool \cup {a}
    /\ UNCHANGED <<driver, next, held, signed, executed, reverted, settled, outside>>

\* The network forgets a waiting transaction.
Drop(a) ==
    /\ pool' = pool \ {a}
    /\ UNCHANGED <<driver, next, held, signed, executed, reverted, settled, outside>>

Acceptable(a) == \A s \in SlotsOf(a) : s[2] = next[s[1]]

\* A block includes the transaction: its numbers are used up.
Include(a) ==
    /\ Acceptable(a)
    /\ pool' = pool \ {a}
    /\ next' = [c \in Accounts |->
                   IF c \in NumberedAccounts(driver, a.input) THEN next[c] + 1 ELSE next[c]]
    /\ UNCHANGED <<driver, held, signed, settled, outside>>

Execute(a) == Include(a) /\ executed' = executed \cup {a} /\ UNCHANGED reverted

Revert(a) == Include(a) /\ reverted' = reverted \cup {a} /\ UNCHANGED executed

\* Someone else uses the account, for instance another wallet with its key.
UseOutside(c) ==
    /\ Cardinality(outside) < MaxOutside
    /\ next[c] < MaxNumber
    /\ outside' = outside \cup {<<c, next[c]>>}
    /\ next' = [next EXCEPT ![c] = @ + 1]
    /\ UNCHANGED <<driver, held, signed, pool, executed, reverted, settled>>

\* FetchTxInfo reports an attempt of the payment as confirmed.
Confirm(p) ==
    /\ p \notin settled
    /\ \E a \in Included : a.payment = p
    /\ settled' = settled \cup {p}
    /\ UNCHANGED <<driver, next, held, signed, pool, executed, reverted, outside>>

Next ==
    \/ \E p \in Payments : \/ FetchInput(p)
                           \/ FetchSponsoredInput(p)
                           \/ FetchPayer(p)
                           \/ Sign(p)
                           \/ Confirm(p)
    \/ \E a \in signed : Submit(a)
    \/ \E a \in pool : Drop(a) \/ Execute(a) \/ Revert(a)
    \/ \E c \in Accounts : UseOutside(c)

Spec == Init /\ [][Next]_vars

(***************************************************************************)
(* Fairness.  The caller keeps working on a payment it has not seen        *)
(* settled: it fetches again, signs when it may, submits again what is not *)
(* included.  The network may lose a transaction any number of times, but  *)
(* one that keeps being submitted is included.                             *)
(***************************************************************************)
Fairness ==
    /\ \A p \in Payments : WF_vars(FetchInput(p)) /\ SF_vars(Sign(p)) /\ WF_vars(Confirm(p))
    /\ \A p \in Payments :
          /\ WF_vars(\E a \in AttemptsOf(p) : Submit(a))
          /\ SF_vars(\E a \in AttemptsOf(p) \cap pool : Execute(a) \/ Revert(a))

FairSpec == Spec /\ Fairness

----------------------------------------------------------------------------
TypeOK ==
    /\ driver \in Drivers
    /\ next \in [Accounts -> Nat \ {0}]
    /\ held \in [Payments -> Held]
    /\ signed \subseteq Attempt
    /\ pool \subseteq signed
    /\ executed \subseteq signed
    /\ reverted \subseteq signed
    /\ settled \subseteq Payments
    /\ outside \subseteq Accounts \X (Nat \ {0})

\* No two attempts of a payment move its funds: the promise of
\* SafeFromDoubleSend (src/tx.go:66-74).
NoDoubleSend ==
    \A a, b \in executed : a.payment = b.payment => a = b

\* A slot was used by the chain already.
Used(s) == s[2] < next[s[1]]

\* Whatever is signed for a payment that was already paid, unknown to the
\* caller, can never be accepted: a retry that races the late success of an
\* earlier attempt does no harm.
LateRetryIsHarmless ==
    \A a \in executed, b \in signed :
        (a.payment = b.payment /\ a # b) => \E s \in SlotsOf(b) : Used(s)

\* IndependentOf lets a payment be signed while others are pending.  A
\* transaction signed so becomes impossible only through another attempt of
\* its own payment or through a transaction from outside, never through a
\* different payment of the same caller.
NoCrossInvalidation ==
    \A b \in signed \ Included : \A s \in SlotsOf(b) :
        Used(s) => \/ \E t \in SlotsOf(b) : t \in outside
                   \/ \E a \in Included : a.payment = b.payment

\* The attempts signed by this caller take all numbers of the account from
\* the chain's next one up to n.
LeadsUpTo(account, n) ==
    \A m \in next[account] .. n - 1 : \E a \in signed : <<account, m>> \in SlotsOf(a)

\* Nothing the caller signs waits for a number that nobody is going to use: an
\* attempt ahead of the chain is preceded by attempts of the caller's own,
\* without a gap, and with the drivers that read the latest block nothing is
\* ahead of the chain at all.  The network may forget any of them, the node's
\* pool may be read at any time, and the account may be used from outside.
QueueHasNoGap ==
    \A b \in signed : \A s \in SlotsOf(b) :
        /\ LeadsUpTo(s[1], s[2])
        /\ driver \notin PoolDrivers => s[2] <= next[s[1]]

\* The attempts that paid p.
PaidBy(p) == {a \in executed : a.payment = p}

\* An attempt of p was included, or others took all of its numbers.
Decided(p) == \E a \in AttemptsOf(p) : \A s \in SlotsOf(a) : Used(s)

\* The outcome of a payment is final as soon as one attempt's numbers are
\* gone, whoever took them: the re-sign rule only lets attempts follow that
\* compete with it, so a paid payment stays as it is and one that was pushed
\* out by another wallet is never paid, by no attempt signed before or after.
OutcomeIsFinal ==
    [][\A p \in Payments : Decided(p) => PaidBy(p)' = PaidBy(p) /\ Decided(p)']_vars

\* The wallet implements the abstract promise.
Abstract == INSTANCE AtMostOnce
    WITH paidBy <- [p \in Payments |-> {a \in executed : a.payment = p}]

ImplementsAtMostOnce == Abstract!Spec

\* Every payment is eventually seen settled, if nobody else uses the
\* accounts: neither queueing nor retrying leaves a payment stuck.
EveryPaymentSettles == [](outside = {}) => \A p \in Payments : <>(p \in settled)
=============================================================================
