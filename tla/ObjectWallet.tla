---------------------------- MODULE ObjectWallet ----------------------------
(***************************************************************************)
(* Payments of one address of a chain that spends objects.                 *)
(*                                                                         *)
(* An attempt spends the objects its input names and makes one object of   *)
(* what is left, its change.  Bitcoin's index counts a transaction as soon *)
(* as it is in the pool: what it spends is gone and its change is there,   *)
(* so a payment may be built on one that is not included yet.  Coins that  *)
(* somebody else sends to the address arrive at some time or never.        *)
(*                                                                         *)
(* Amounts are left out: an input may name any of the objects that the     *)
(* driver's choice can take for some amounts.                              *)
(***************************************************************************)
EXTENDS ObjectInputs, FiniteSets

CONSTANTS
    Payments,    \* the payments the owner asks for
    Coins,       \* the objects that are not change of one of these payments
    Drivers,     \* the chains looked at; a behaviour is about one of them
    MaxTries,    \* bound: attempts of a payment
    MaxAttempts, \* bound: attempts of all payments
    MaxEpoch,    \* bound: epochs of Sui
    MaxOutside   \* bound: objects spent by somebody else

ASSUME ConstantsAssumption ==
    /\ Drivers \subseteq AllDrivers
    /\ IsFiniteSet(Coins) /\ Coins \cap (Payments \X Nat) = {}
    /\ NoGas \notin Coins /\ NoGas \notin Payments \X Nat
    /\ MaxTries \in Nat /\ MaxAttempts \in Nat /\ MaxEpoch \in Nat \ {0} /\ MaxOutside \in Nat

VARIABLES
    driver,    \* the chain
    coming,    \* coins somebody may still send
    unspent,   \* the objects the chain lets the owner spend
    epoch,     \* Sui's epoch
    fetched,   \* for each payment, the input in the caller's hand
    tries,     \* for each payment, the attempts signed so far
    signed,    \* the attempts
    pool,      \* those the nodes hold, Bitcoin only
    executed,  \* those the chain executed
    outside    \* how many objects somebody else spent

vars == <<driver, coming, unspent, epoch, fetched, tries, signed, pool, executed, outside>>

----------------------------------------------------------------------------
Object == Coins \cup (Payments \X (1 .. MaxTries))

\* asOf is the epoch in which the coins were read; no rule reads it.
Input == [coins : SUBSET Object, gas : Object \cup {NoGas},
          asOf : 1 .. MaxEpoch, epoch : 0 .. MaxEpoch]

NoInput == [coins |-> {}, gas |-> NoGas, asOf |-> 1, epoch |-> 0]

Attempt == [payment : Payments, try : 1 .. MaxTries, input : Input]

AttemptsOf(p) == {a \in signed : a.payment = p}

Change(a) == <<a.payment, a.try>>

SpentBy(attempts) == UNION {Spends(a.input) : a \in attempts}

\* Nodes hold transactions of which each finds what it spends, alone.
Coherent(held, objects) ==
    /\ \A a \in held : Spends(a.input) \subseteq objects \cup {Change(b) : b \in held}
    /\ \A a, b \in held : a # b => Spends(a.input) \cap Spends(b.input) = {}

----------------------------------------------------------------------------
Init ==
    /\ driver \in Drivers
    /\ coming \in SUBSET Coins
    /\ unspent = Coins \ coming
    /\ epoch = 1
    /\ fetched = [p \in Payments |-> NoInput]
    /\ tries = [p \in Payments |-> 0]
    /\ signed = {}
    /\ pool = {}
    /\ executed = {}
    /\ outside = 0

\* Bitcoin's index lists outputs as soon as nodes have the transaction; the
\* others list what the chain has.
Listed ==
    IF driver = "bitcoin"
    THEN (unspent \cup coming \cup {Change(a) : a \in pool}) \ SpentBy(pool)
    ELSE unspent

\* Bitcoin and Cardano choose some of the outputs and Canton some of the
\* holdings, Kaspa takes all.
FetchOutputs(p) ==
    /\ driver # "sui"
    /\ Cardinality(signed) < MaxAttempts
    /\ \E chosen \in (SUBSET Listed) \ {{}} :
          /\ driver = "kaspa" => chosen = Listed
          /\ fetched' = [fetched EXCEPT ![p] =
                [coins |-> chosen, gas |-> NoGas, asOf |-> 1, epoch |-> 1]]
    /\ UNCHANGED <<driver, coming, unspent, epoch, tries, signed, pool, executed, outside>>

\* The largest coin pays the gas, the rest are for the transfer.
FetchCoins(p) ==
    /\ driver = "sui"
    /\ Cardinality(signed) < MaxAttempts
    /\ \E gas \in Listed :
          fetched' = [fetched EXCEPT ![p] =
              [coins |-> Listed \ {gas}, gas |-> gas, asOf |-> epoch, epoch |-> 0]]
    /\ UNCHANGED <<driver, coming, unspent, epoch, tries, signed, pool, executed, outside>>

\* The epoch of the latest checkpoint is read after the coins.
FetchEpoch(p) ==
    /\ fetched[p].gas # NoGas
    /\ fetched[p].epoch = 0
    /\ Cardinality(signed) < MaxAttempts
    /\ fetched' = [fetched EXCEPT ![p].epoch = epoch]
    /\ UNCHANGED <<driver, coming, unspent, epoch, tries, signed, pool, executed, outside>>

\* The caller's rule for signing a transaction with this input.
MaySign(p, input) ==
    \A a \in signed :
        IF a.payment = p THEN SafeFromDoubleSend(driver, input, a.input)
                         ELSE IndependentOf(driver, input, a.input)

\* Mutant: the caller does not look its earlier attempts up.
MutSeen(p, input) == FALSE

\* FetchTxInfo surely finds an attempt of the payment's: a node that knows
\* the input's epoch has all of the epochs before.
Seen(p, input) == \E a \in executed : a.payment = p /\ a.input.epoch < input.epoch

\* Mutant: the attempts are counted from zero.
MutSign(p) ==
    /\ tries[p] < MaxTries /\ Cardinality(signed) < MaxAttempts
    /\ fetched[p].epoch # 0
    /\ MaySign(p, fetched[p])
    /\ ~Seen(p, fetched[p])
    /\ tries' = [tries EXCEPT ![p] = @ + 1]
    /\ signed' = signed \cup {[payment |-> p, try |-> tries[p], input |-> fetched[p]]}
    /\ fetched' = [fetched EXCEPT ![p] = NoInput]
    /\ UNCHANGED <<driver, coming, unspent, epoch, pool, executed, outside>>

\* The caller's rule, once more when a fetch is done and the attempts have been
\* looked up.
Sign(p) ==
    /\ tries[p] < MaxTries /\ Cardinality(signed) < MaxAttempts
    /\ fetched[p].epoch # 0
    /\ MaySign(p, fetched[p])
    /\ ~Seen(p, fetched[p])
    /\ tries' = [tries EXCEPT ![p] = @ + 1]
    /\ signed' = signed \cup {[payment |-> p, try |-> tries[p] + 1, input |-> fetched[p]]}
    /\ fetched' = [fetched EXCEPT ![p] = NoInput]
    /\ UNCHANGED <<driver, coming, unspent, epoch, pool, executed, outside>>

\* A node takes the transaction; it takes none that spends what another one
\* in its pool spends.
Submit(a) ==
    /\ driver = "bitcoin"
    /\ a \notin pool \cup executed
    /\ Coherent(pool \cup {a}, unspent \cup coming)
    /\ pool' = pool \cup {a}
    /\ UNCHANGED <<driver, coming, unspent, epoch, fetched, tries, signed, executed, outside>>

\* The nodes forget transactions, and with each those that spend its change.
Drop ==
    /\ \E kept \in SUBSET pool :
          kept # pool /\ Coherent(kept, unspent \cup coming) /\ pool' = kept
    /\ UNCHANGED <<driver, coming, unspent, epoch, fetched, tries, signed, executed, outside>>

\* What remains in the pool after a block: nothing that conflicts with it.
Settle(held, objects) ==
    \E kept \in SUBSET held : Coherent(kept, objects) /\ pool' = kept

\* On Sui a transaction expires with the epoch its input names.
Expired(a) == driver = "sui" /\ epoch > a.input.epoch

\* A block includes the transaction, which the pool need not hold any more.
Execute(a) ==
    /\ a \notin executed
    /\ Spends(a.input) \subseteq unspent
    /\ ~Expired(a)
    /\ executed' = executed \cup {a}
    /\ unspent' = (unspent \ Spends(a.input)) \cup {Change(a)}
    /\ Settle(pool \ {a}, unspent' \cup coming)
    /\ UNCHANGED <<driver, coming, epoch, fetched, tries, signed, outside>>

\* Somebody else's transaction to the address is included.
Arrive(c) ==
    /\ coming' = coming \ {c}
    /\ unspent' = unspent \cup {c}
    /\ UNCHANGED <<driver, epoch, fetched, tries, signed, pool, executed, outside>>

\* Another holder of the key spends an object, or the coin that is to come
\* never does.
UseOutside(o) ==
    /\ outside < MaxOutside
    /\ coming' = coming \ {o}
    /\ unspent' = unspent \ {o}
    /\ outside' = outside + 1
    /\ Settle(pool, unspent' \cup coming')
    /\ UNCHANGED <<driver, epoch, fetched, tries, signed, executed>>

NextEpoch ==
    /\ driver = "sui"
    /\ epoch < MaxEpoch
    /\ epoch' = epoch + 1
    /\ UNCHANGED <<driver, coming, unspent, fetched, tries, signed, pool, executed, outside>>

Next ==
    \/ \E p \in Payments :
          FetchOutputs(p) \/ FetchCoins(p) \/ FetchEpoch(p) \/ Sign(p)
    \/ \E a \in signed : Submit(a) \/ Execute(a)
    \/ Drop
    \/ \E c \in coming : Arrive(c)
    \/ \E o \in unspent \cup coming : UseOutside(o)
    \/ NextEpoch

Spec == Init /\ [][Next]_vars

----------------------------------------------------------------------------
TypeOK ==
    /\ driver \in Drivers
    /\ coming \subseteq Coins
    /\ unspent \subseteq Object
    /\ epoch \in 1 .. MaxEpoch
    /\ fetched \in [Payments -> Input]
    /\ tries \in [Payments -> 0 .. MaxTries]
    /\ signed \subseteq Attempt
    /\ pool \subseteq signed
    /\ executed \subseteq signed
    /\ outside \in 0 .. MaxOutside

\* The promise of SafeFromDoubleSend (src/tx.go:66-74): two attempts of a
\* payment are never both executed, whichever outputs the two were built on,
\* what the pool dropped in between and whatever epoch they were for.
NoDoubleSend ==
    \A a, b \in executed : a.payment = b.payment => a = b

\* What IndependentOf is for (src/tx.go:58-64), with the exceptions Sui's
\* text has: what one payment spends, another one that has not
\* expired needs only if one of them
\* holds a gas coin and nothing else, or if the epoch changed during the
\* fetch of one, between the reads of the coins and of the epoch.
CrossInvalidationNeedsBareGasOrTornFetch ==
    \A a \in executed, b \in signed :
        (/\ a.payment # b.payment
         /\ Spends(a.input) \cap Spends(b.input) # {}
         /\ ~Expired(b)) =>
            /\ driver = "sui"
            /\ \/ a.input.coins = {} \/ b.input.coins = {}
               \/ b.input.asOf < b.input.epoch

\* A payment built on the change of another one dies with it; that happens
\* only if the other payment was signed again and a different attempt of it
\* landed, or if somebody else spent what it was built on.  (src/tx.go:58-64
\* does not speak of change, and the rules do not see it.)
OrphanNeedsResign ==
    \A a, b \in signed, c \in executed :
        /\ Change(b) \in Spends(a.input)
        /\ b # c
        /\ Spends(b.input) \cap Spends(c.input) # {}
        => b.payment = c.payment /\ a.payment # b.payment

PaidBy(p) == {a \in executed : a.payment = p}

\* The object was spent, and neither arrives nor is made again.
Gone(o) ==
    /\ o \notin unspent \cup coming
    /\ o \in Coins \/ \E a \in executed : o = Change(a)

\* The object is the change of an attempt that needs what is gone.
NeverMade(o) ==
    \E a \in signed \ executed :
        o = Change(a) /\ \E c \in Spends(a.input) : Gone(c)

\* None of what an attempt of the payment spends is there, nor will be.
Decided(p) ==
    /\ driver # "sui"
    /\ \E a \in AttemptsOf(p) :
          \A o \in Spends(a.input) : Gone(o) \/ NeverMade(o)

\* Safety has its price: whatever is signed for the payment has to share an
\* object with each of its attempts (src/tx.go:66-74), also with one whose
\* objects are all gone or, built on a change that was dropped, never made.
\* From then on nothing pays the payment that has not paid it already.
OutcomeIsFinal ==
    [][\A p \in Payments :
          Decided(p) => PaidBy(p)' = PaidBy(p) /\ Decided(p)']_vars

\* The wallet implements the abstract promise.
Abstract == INSTANCE AtMostOnce
    WITH paidBy <- [p \in Payments |-> PaidBy(p)]

ImplementsAtMostOnce == Abstract!Spec
=============================================================================
