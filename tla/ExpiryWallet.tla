---------------------------- MODULE ExpiryWallet ----------------------------
(***************************************************************************)
(* Payments of one address of a chain whose transactions expire.           *)
(*                                                                         *)
(* Nothing on the chain stops two attempts of a payment from both landing: *)
(* that the first has expired, and was looked up after that, is all there  *)
(* is.  The clocks that stamp the inputs differ from the chain's, and the  *)
(* node that is asked about an attempt is behind the chain.                *)
(*                                                                         *)
(* EOS's signature rounds put the expiration off behind the rule's back.   *)
(*                                                                         *)
(* An attempt that was included as failed moves nothing and cannot be      *)
(* included again; it is not told apart from one that never landed.        *)
(***************************************************************************)
EXTENDS ExpiryInputs, FiniteSets

CONSTANTS
    Payments,     \* the payments the owner asks for
    Drivers,      \* the chains looked at; a behaviour is about one of them
    Skew,         \* how far the caller's clock may be from the chain's
    Lag,          \* how far the node may be behind the chain
    MaxRounds,    \* the signature rounds EOS may need beyond the first
    MaxAttempts,  \* bound: attempts of all payments
    MaxTime       \* bound: the clock

ASSUME ConstantsAssumption ==
    /\ Drivers \subseteq AllDrivers
    /\ Skew \in Nat /\ Lag \in Nat /\ MaxRounds \in Nat
    /\ MaxAttempts \in Nat /\ MaxTime \in Nat

VARIABLES
    driver,   \* the chain
    alike,    \* whether the payments have the same destination and amount
    now,      \* the chain's time
    signed,   \* the attempts signed so far
    landed    \* the attempts that moved the payment's funds, and when

vars == <<driver, alike, now, signed, landed>>

----------------------------------------------------------------------------
Attempt == [payment : Payments, input : Input, try : Nat \ {0}, rounds : 0 .. MaxRounds]

AttemptsOf(p) == {a \in signed : a.payment = p}

Content(p) == IF alike THEN Payments ELSE {p}

\* What the chain accepts once.  Tron and EOS identify a transaction by all
\* it says; the Internet Computer's ledger refuses an equal transfer with an
\* equal creation time; Hedera and Hyperliquid look at the stamp alone.
Slot(a) ==
    CASE driver \in {"tron", "eos"} ->
            <<Content(a.payment), a.input.stamp, a.input.block, a.rounds>>
      [] driver = "internet_computer" -> <<Content(a.payment), a.input.stamp>>
      [] driver \in {"hedera", "hyperliquid"} -> <<a.input.stamp>>

\* The transactions are one and the same, and so is their hash.
Identical(a, b) == Content(a.payment) = Content(b.payment) /\ Slot(a) = Slot(b)

\* Every further EOS signature round adds a second to the expiration.
Expiry(a) == a.input.stamp + Lifetime + a.rounds

\* Hyperliquid takes nonces within two days, both ends excluded.
Acceptable(a) ==
    IF driver = "hyperliquid" THEN now < Expiry(a) ELSE now <= Expiry(a)

----------------------------------------------------------------------------
\* Early enough for no clock to read less than zero.
Start == Skew + Lag

Init ==
    /\ driver \in Drivers
    /\ alike \in BOOLEAN
    /\ now = Start
    /\ signed = {}
    /\ landed = {}

Tick ==
    /\ now < MaxTime
    /\ now' = now + 1
    /\ UNCHANGED <<driver, alike, signed, landed>>

\* What FetchTransferInput may return at time t, with the options the caller
\* sets on it: the stamp is read from a clock that is not the chain's, or it
\* is that of the latest block the node knows.
InputsAt(t) ==
    IF driver \in BlockStamped
    THEN {[stamp |-> b, fraction |-> 0, block |-> b] : b \in t - Lag .. t}
    ELSE [stamp : t - Skew .. t + Skew,
          fraction : IF driver = "hyperliquid" THEN {0, 1} ELSE {0},
          block : t - Lag .. t]

\* The caller's rule for signing a transaction with this input.
MaySign(p, input) ==
    \A a \in signed :
        IF a.payment = p THEN SafeFromDoubleSend(driver, input, a.input)
                         ELSE IndependentOf(driver, input, a.input)

\* FetchTxInfo surely finds a transaction of the payment's: the node is past
\* the block that includes it.
Seen(p) ==
    \E l \in landed, a \in AttemptsOf(p) : l.at + Lag <= now /\ Identical(l.attempt, a)

\* Mutant: the caller does not look its earlier attempts up.
MutSign(p, input) ==
    /\ Cardinality(signed) < MaxAttempts
    /\ MaySign(p, input)
    /\ signed' = signed \cup {[payment |-> p, input |-> input,
                               try |-> Cardinality(AttemptsOf(p)) + 1, rounds |-> 0]}
    /\ UNCHANGED <<driver, alike, now, landed>>

\* Mutant: one signature round too many is allowed.
MutSignRounds(p, input) ==
    /\ Cardinality(signed) < MaxAttempts
    /\ ~Seen(p)
    /\ MaySign(p, input)
    /\ \E r \in IF driver = "eos" THEN 0 .. MaxRounds + 1 ELSE {0} :
          signed' = signed \cup {[payment |-> p, input |-> input,
                                  try |-> Cardinality(AttemptsOf(p)) + 1, rounds |-> r]}
    /\ UNCHANGED <<driver, alike, now, landed>>

\* The caller looks its attempts up and signs again if none has landed.  The
\* input was fetched now or at any time before.  EOS signs in rounds until
\* the signatures are canonical.
Sign(p, input) ==
    /\ Cardinality(signed) < MaxAttempts
    /\ ~Seen(p)
    /\ MaySign(p, input)
    /\ \E r \in IF driver = "eos" THEN 0 .. MaxRounds ELSE {0} :
          signed' = signed \cup {[payment |-> p, input |-> input,
                                  try |-> Cardinality(AttemptsOf(p)) + 1, rounds |-> r]}
    /\ UNCHANGED <<driver, alike, now, landed>>

\* A block includes the transaction.
Land(a) ==
    /\ Acceptable(a)
    /\ \A l \in landed : Slot(l.attempt) # Slot(a)
    /\ landed' = landed \cup {[attempt |-> a, at |-> now]}
    /\ UNCHANGED <<driver, alike, now, signed>>

Next ==
    \/ Tick
    \/ \E p \in Payments, t \in Start .. now : \E i \in InputsAt(t) : Sign(p, i)
    \/ \E a \in signed : Land(a)

Spec == Init /\ [][Next]_vars

----------------------------------------------------------------------------
TypeOK ==
    /\ driver \in Drivers
    /\ alike \in BOOLEAN
    /\ now \in Nat
    /\ signed \subseteq Attempt /\ IsFiniteSet(signed)
    /\ landed \subseteq [attempt : signed, at : Nat]

\* The slack of the chain's rule covers the skew, the lag and the seconds that
\* so many EOS rounds add.  The code's EOS slack is 90 seconds, and up to 255
\* rounds are signed.
Outlasts(d, rounds) ==
    IF d = "eos" THEN Skew + Lag + rounds < Slack[d] ELSE Skew + Lag <= Slack[d]

\* a is signed again, as b, although its rounds have moved its expiration
\* beyond what the rule waits for.
Overtakes(b, a) == a.try < b.try /\ ~Outlasts(driver, a.rounds)

\* The promise of SafeFromDoubleSend (src/tx.go:66-74): two attempts of a
\* payment do not both move its funds.  EOS does not keep it.
NoDoubleSend ==
    \A l, m \in landed : l.attempt.payment = m.attempt.payment => l = m

\* What is left of the promise, however far the clocks are apart and the node
\* is behind: a payment is paid twice only if the earlier attempt was signed
\* in more rounds than the slack covers, or if the slack covers none.
DoubleSendNeedsRounds ==
    \A l, m \in landed :
        (l.attempt.payment = m.attempt.payment /\ l # m) =>
            Overtakes(m.attempt, l.attempt) \/ Overtakes(l.attempt, m.attempt)

\* IndependentOf (src/tx.go:58-64) lets a payment be signed while others are
\* pending; what the chain takes from one of them it must not need for the
\* other.  What is left of that on Tron and EOS: a payment is swallowed by
\* another one only if they are alike and were stamped at the same time from
\* the same block.  On Hyperliquid it needs two fetches within the millisecond
\* that a nonce tells, which IndependentOf tells apart.  The Internet Computer
\* and Hedera keep all payments apart.
LostPaymentNeedsTwin ==
    \A l \in landed, b \in signed :
        (Slot(l.attempt) = Slot(b) /\ l.attempt.payment # b.payment) =>
            \/ driver \in {"tron", "eos"} /\ alike /\ l.attempt.input = b.input
            \/ driver = "hyperliquid" /\ l.attempt.input.fraction # b.input.fraction

\* The attempt's lifetime, the slack and what a stamp may be behind the time
\* it is fetched are over.  EOS's rule alone does not wait for the last unit.
Waited(a) ==
    LET behind == IF driver \in BlockStamped THEN Lag ELSE Skew
        end == a.input.stamp + Lifetime + Slack[driver] + behind
    IN  IF driver = "eos" THEN now >= end ELSE now > end

\* The caution of the rules has an end: after that time whatever the client
\* returns is safe to sign instead of the attempt, however late the clock and
\* however far behind the node, and EOS's node has another head block.
WaitingEnds ==
    Outlasts(driver, 0) =>
        \A a \in signed :
            Waited(a) => \A i \in InputsAt(now) : SafeFromDoubleSend(driver, i, a.input)

\* The payments for which such a pair was signed.
Exposed ==
    {p \in Payments : \E a, b \in AttemptsOf(p) : Overtakes(b, a)}

\* Until such a pair is signed the wallet keeps the whole promise.
Abstract == INSTANCE AtMostOnceUnless
    WITH paidBy <- [p \in Payments |->
                       {l.attempt : l \in {m \in landed : m.attempt.payment = p}}],
         exposed <- Exposed

ImplementsAtMostOnceUnless == Abstract!Spec
=============================================================================
