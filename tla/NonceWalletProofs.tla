------------------------- MODULE NonceWalletProofs -------------------------
(***************************************************************************)
(* Proofs about NonceWallet, for every number of payments and every bound. *)
(*                                                                         *)
(* The argument.  SafeFromDoubleSend lets a payment be signed again only   *)
(* with an input that shares a slot (an account and its number) with each  *)
(* earlier attempt.  The chain accepts a slot once: what is included has   *)
(* its slots behind the account's next number, and what is included next   *)
(* takes slots that are exactly the next numbers.  So of the attempts of a *)
(* payment at most one is ever included.  None of this looks at when an    *)
(* input was fetched or how the network treats what is submitted.          *)
(*                                                                         *)
(* The second half is about payments beside each other: each slot that is  *)
(* gone has a user, and IndependentOf keeps the slots of payments apart.   *)
(***************************************************************************)
EXTENDS NonceWallet, TLAPS

\* Any two attempts of a payment compete for a slot.
AttemptsCompete ==
    \A a, b \in signed :
        a.payment = b.payment => SlotsOf(a) \cap SlotsOf(b) # {}

\* What is included has used its slots up.
IncludedIsUsed == \A a \in Included : \A s \in SlotsOf(a) : Used(s)

\* No slot is used by two included transactions.
IncludedApart ==
    \A a, b \in Included : a # b => SlotsOf(a) \cap SlotsOf(b) = {}

IInv == TypeOK /\ AttemptsCompete /\ IncludedIsUsed /\ IncludedApart

----------------------------------------------------------------------------
\* Slots of an input that shares one with itself: every input names an account.
LEMMA SlotsNonempty ==
    ASSUME NEW d, NEW i \in Input
    PROVE  Slots(d, i) # {}
BY DEF Slots, NumberedAccounts, Accounts

\* Whatever the chain (but MultiversX), the re-sign rule admits an input only
\* if it competes with the earlier attempt for a slot.
LEMMA SafeMeansCompeting ==
    ASSUME NEW d, d # "egld", NEW i \in Input, NEW j \in Input,
           SafeFromDoubleSend(d, i, j)
    PROVE  Slots(d, i) \cap Slots(d, j) # {}
<1>1. CASE d = "xlm"
  <2>1. XlmIndependentOf(i, j) = FALSE
    BY <1>1 DEF SafeFromDoubleSend, SafeIfInConflict, IndependentOf, XlmIndependentOf
  <2>2. CASE i.payerSequence # 0 \/ j.payerSequence # 0
    <3>1. i.payerSequence = j.payerSequence /\ i.sponsored /\ j.sponsored
      BY <2>1, <2>2 DEF XlmIndependentOf, Input
    <3>2. <<"payer", i.payerSequence>> \in Slots(d, i)
      BY <3>1, <1>1 DEF Slots, NumberedAccounts, NumberOf
    <3>3. <<"payer", j.payerSequence>> \in Slots(d, j)
      BY <3>1, <1>1 DEF Slots, NumberedAccounts, NumberOf
    <3> QED BY <3>1, <3>2, <3>3
  <2>3. CASE i.payerSequence = 0 /\ j.payerSequence = 0
    <3>1. i.sequence = j.sequence /\ ~i.sponsored /\ ~j.sponsored
      BY <2>1, <2>3 DEF XlmIndependentOf, Input
    <3>2. <<"from", i.sequence>> \in Slots(d, i)
      BY <3>1 DEF Slots, NumberedAccounts, NumberOf
    <3>3. <<"from", j.sequence>> \in Slots(d, j)
      BY <3>1 DEF Slots, NumberedAccounts, NumberOf
    <3> QED BY <3>1, <3>2, <3>3
  <2> QED BY <2>2, <2>3
<1>2. CASE d # "xlm"
  <2>1. i.sequence = j.sequence
    BY <1>2 DEF SafeFromDoubleSend, SafeIfInConflict, IndependentOf, SequenceIndependentOf
  <2>2. <<"from", i.sequence>> \in Slots(d, i)
    BY <1>2 DEF Slots, NumberedAccounts, NumberOf, Accounts
  <2>3. <<"from", j.sequence>> \in Slots(d, j)
    BY <1>2 DEF Slots, NumberedAccounts, NumberOf, Accounts
  <2> QED BY <2>1, <2>2, <2>3
<1> QED BY <1>1, <1>2

----------------------------------------------------------------------------
\* A block includes the attempt, as executed or as failed.
IncludeStep(a) == a \in pool /\ (Execute(a) \/ Revert(a))

\* Typing: every variable keeps its shape, and what waits or is included was
\* signed before.
LEMMA Typing == Spec => []TypeOK
<1>1. Init => TypeOK
  BY DEF Init, TypeOK, Held
<1>2. TypeOK /\ [Next]_vars => TypeOK'
  <2> SUFFICES ASSUME TypeOK, [Next]_vars
               PROVE  TypeOK'
    OBVIOUS
  <2> USE DEF TypeOK
  <2>1. ASSUME NEW p \in Payments, FetchInput(p)
        PROVE  TypeOK'
    <3>1. PICK n \in 1 .. MaxNumber :
             held' = [held EXCEPT ![p] = [stage |-> "ready", input |-> SenderInput(n)]]
      BY <2>1 DEF FetchInput
    <3>2. SenderInput(n) \in Input
      BY ConstantsAssumption DEF Input, SenderInput
    <3>3. held' \in [Payments -> Held]
      BY <3>1, <3>2 DEF Held
    <3> QED BY <2>1, <3>3 DEF FetchInput
  <2>2. ASSUME NEW p \in Payments, FetchSponsoredInput(p)
        PROVE  TypeOK'
    <3>1. PICK n \in 1 .. MaxNumber :
             held' = [held EXCEPT ![p] = [stage |-> "payer", sequence |-> n]]
      BY <2>2 DEF FetchSponsoredInput
    <3>2. held' \in [Payments -> Held]
      BY <3>1, ConstantsAssumption DEF Held
    <3> QED BY <2>2, <3>2 DEF FetchSponsoredInput
  <2>3. ASSUME NEW p \in Payments, FetchPayer(p)
        PROVE  TypeOK'
    <3>1. PICK n \in 1 .. MaxNumber :
             held' = [held EXCEPT ![p] =
                [stage |-> "ready", input |-> SponsoredInput(held[p].sequence, n)]]
      BY <2>3 DEF FetchPayer
    <3>2. held[p] \in [stage : {"payer"}, sequence : Nat \ {0}]
      BY <2>3 DEF FetchPayer, Held, NoInput
    <3>3. held[p].sequence \in Nat \ {0}
      BY <3>2
    <3>4. SponsoredInput(held[p].sequence, n) \in Input
      BY <3>3, ConstantsAssumption DEF Input, SponsoredInput
    <3>5. held' \in [Payments -> Held]
      BY <3>1, <3>4 DEF Held
    <3> QED BY <2>3, <3>5 DEF FetchPayer
  <2>4. ASSUME NEW p \in Payments, Sign(p)
        PROVE  TypeOK'
    <3>1. PICK t \in 1 .. MaxTries :
             signed' = signed \cup {[payment |-> p, input |-> held[p].input, try |-> t]}
      BY <2>4 DEF Sign
    <3>2. held[p] \in [stage : {"ready"}, input : Input]
      BY <2>4 DEF Sign, Held, NoInput
    <3>3. [payment |-> p, input |-> held[p].input, try |-> t] \in Attempt
      BY <3>2, ConstantsAssumption DEF Attempt
    <3> QED BY <2>4, <3>1, <3>3 DEF Sign
  <2>5. ASSUME NEW p \in Payments, Confirm(p)
        PROVE  TypeOK'
    BY <2>5 DEF Confirm
  <2>6. ASSUME NEW a \in signed, Submit(a)
        PROVE  TypeOK'
    BY <2>6 DEF Submit
  <2>7. ASSUME NEW a \in pool, Drop(a)
        PROVE  TypeOK'
    BY <2>7 DEF Drop
  <2>8. ASSUME NEW a, IncludeStep(a)
        PROVE  TypeOK'
    <3>1. next' \in [Accounts -> Nat \ {0}]
      BY <2>8 DEF IncludeStep, Execute, Revert, Include
    <3> QED BY <2>8, <3>1 DEF IncludeStep, Execute, Revert, Include
  <2>9. ASSUME NEW c \in Accounts, UseOutside(c)
        PROVE  TypeOK'
    BY <2>9 DEF UseOutside
  <2>10. CASE UNCHANGED vars
    BY <2>10 DEF vars
  <2> QED
    BY <2>1, <2>2, <2>3, <2>4, <2>5, <2>6, <2>7, <2>8, <2>9, <2>10
    DEF Next, IncludeStep
<1> QED BY <1>1, <1>2, PTL DEF Spec

----------------------------------------------------------------------------
\* A step that includes nothing and signs nothing leaves the three facts
\* alone, if the chain's numbers do not go back.
LEMMA QuietStep ==
    ASSUME IInv, UNCHANGED <<driver, signed, executed, reverted>>,
           TypeOK', \A c \in Accounts : next'[c] >= next[c]
    PROVE  IInv'
<1>1. AttemptsCompete'
  BY DEF IInv, AttemptsCompete, SlotsOf
<1>2. IncludedApart'
  BY DEF IInv, IncludedApart, Included, SlotsOf
<1>3. IncludedIsUsed'
  <2> SUFFICES ASSUME NEW a \in Included, NEW s \in SlotsOf(a)
               PROVE  s[2] < next'[s[1]]
    BY DEF IncludedIsUsed, Included, SlotsOf, Used
  <2>1. s[2] < next[s[1]]
    BY DEF IInv, IncludedIsUsed, Used
  <2>2. a \in Attempt /\ a.input \in Input
    BY DEF IInv, TypeOK, Included, Attempt
  <2>3. s[1] \in Accounts /\ s[2] \in Nat
    BY <2>2 DEF SlotsOf, Slots, NumberedAccounts, NumberOf, Accounts, Input
  <2>4. next[s[1]] \in Nat /\ next'[s[1]] \in Nat
    BY <2>3 DEF IInv, TypeOK
  <2> QED BY <2>1, <2>3, <2>4
<1> QED BY <1>1, <1>2, <1>3 DEF IInv

\* Signing keeps the attempts of a payment in competition: this is where the
\* re-sign rule is used.
LEMMA SignStep ==
    ASSUME "egld" \notin Drivers, IInv, TypeOK', NEW p \in Payments, Sign(p)
    PROVE  IInv'
<1>1. PICK t \in 1 .. MaxTries :
         signed' = signed \cup {[payment |-> p, input |-> held[p].input, try |-> t]}
  BY DEF Sign
<1> DEFINE new == [payment |-> p, input |-> held[p].input, try |-> t]
<1>2. driver # "egld" /\ driver' = driver
  BY DEF IInv, TypeOK, Sign
<1>3. held[p] \in [stage : {"ready"}, input : Input]
  BY DEF Sign, IInv, TypeOK, Held, NoInput
<1>4. SlotsOf(new) # {}
  BY <1>3, SlotsNonempty DEF SlotsOf
<1>5. ASSUME NEW a \in signed, a.payment = p
      PROVE  SlotsOf(new) \cap SlotsOf(a) # {}
  <2>1. SafeFromDoubleSend(driver, held[p].input, a.input)
    BY <1>5 DEF Sign, MaySign
  <2>2. a.input \in Input /\ held[p].input \in Input
    BY <1>3 DEF IInv, TypeOK, Attempt
  <2> QED BY <2>1, <2>2, <1>2, SafeMeansCompeting DEF SlotsOf
<1>6. AttemptsCompete'
  <2> SUFFICES ASSUME NEW a \in signed', NEW b \in signed', a.payment = b.payment
               PROVE  SlotsOf(a) \cap SlotsOf(b) # {}
    BY <1>2 DEF AttemptsCompete, SlotsOf
  <2>1. CASE a \in signed /\ b \in signed
    BY <2>1 DEF IInv, AttemptsCompete
  <2>2. CASE a = new /\ b \in signed
    BY <2>2, <1>5
  <2>3. CASE a \in signed /\ b = new
    BY <2>3, <1>5
  <2>4. CASE a = new /\ b = new
    BY <2>4, <1>4
  <2> QED BY <1>1, <2>1, <2>2, <2>3, <2>4
<1>7. IncludedIsUsed' /\ IncludedApart'
  BY <1>2 DEF IInv, Sign, IncludedIsUsed, IncludedApart, Included, SlotsOf, Used
<1> QED BY <1>6, <1>7 DEF IInv

\* Including an attempt uses slots no included transaction has used: this is
\* where the chain's acceptance rule is used.
LEMMA InclusionStep ==
    ASSUME IInv, TypeOK', NEW a, IncludeStep(a)
    PROVE  IInv'
<1>1. /\ a \in signed /\ a \in Attempt /\ a.input \in Input
      /\ Included' = Included \cup {a}
      /\ driver' = driver /\ signed' = signed
  BY DEF IncludeStep, Execute, Revert, Include, Included, IInv, TypeOK, Attempt
<1>2. \A b \in Included' : b \in Attempt /\ b.input \in Input
  BY <1>1 DEF IInv, TypeOK, Included, Attempt
<1>3. \A b \in Included' : \A s \in SlotsOf(b) : s[1] \in Accounts /\ s[2] \in Nat
  BY <1>2 DEF SlotsOf, Slots, NumberedAccounts, NumberOf, Accounts, Input
<1>4. \A s \in SlotsOf(a) : s[2] = next[s[1]] /\ next'[s[1]] = next[s[1]] + 1
  <2>1. \A s \in SlotsOf(a) : s[1] \in NumberedAccounts(driver, a.input) /\ s[1] \in Accounts
    BY DEF SlotsOf, Slots, NumberedAccounts, Accounts
  <2> QED BY <2>1 DEF IncludeStep, Execute, Revert, Include, Acceptable
<1>5. \A c \in Accounts : next[c] \in Nat /\ next'[c] \in Nat /\ next'[c] >= next[c]
  BY DEF IncludeStep, Execute, Revert, Include, IInv, TypeOK
<1>6. IncludedIsUsed'
  <2> SUFFICES ASSUME NEW b \in Included', NEW s \in SlotsOf(b)
               PROVE  s[2] < next'[s[1]]
    BY <1>1 DEF IncludedIsUsed, SlotsOf, Used
  <2>1. CASE b \in Included
    <3>1. s[2] < next[s[1]]
      BY <2>1 DEF IInv, IncludedIsUsed, Used
    <3> QED BY <3>1, <1>3, <1>5
  <2>2. CASE b = a
    BY <2>2, <1>3, <1>4, <1>5
  <2> QED BY <1>1, <2>1, <2>2
<1>7. \A b \in Included : SlotsOf(a) \cap SlotsOf(b) = {}
  <2> SUFFICES ASSUME NEW b \in Included, NEW s \in SlotsOf(a), s \in SlotsOf(b)
               PROVE  FALSE
    OBVIOUS
  <2>1. s[2] < next[s[1]]
    BY DEF IInv, IncludedIsUsed, Used
  <2>2. s[2] = next[s[1]]
    BY <1>4
  <2> QED BY <2>1, <2>2, <1>1, <1>3, <1>5
<1>8. IncludedApart'
  BY <1>1, <1>7 DEF IInv, IncludedApart, SlotsOf
<1>9. AttemptsCompete'
  BY <1>1 DEF IInv, AttemptsCompete, SlotsOf
<1> QED BY <1>6, <1>8, <1>9 DEF IInv

\* The inductive invariant, on every chain but MultiversX.
LEMMA Invariance ==
    ASSUME "egld" \notin Drivers
    PROVE  Spec => []IInv
<1>1. Init => IInv
  BY DEF Init, IInv, TypeOK, Held, AttemptsCompete, IncludedIsUsed, IncludedApart, Included
<1>2. IInv /\ TypeOK' /\ [Next]_vars => IInv'
  <2> SUFFICES ASSUME IInv, TypeOK', [Next]_vars
               PROVE  IInv'
    OBVIOUS
  <2>1. ASSUME NEW p \in Payments,
               FetchInput(p) \/ FetchSponsoredInput(p) \/ FetchPayer(p) \/ Confirm(p)
        PROVE  IInv'
    BY <2>1, QuietStep
    DEF FetchInput, FetchSponsoredInput, FetchPayer, Confirm, IInv, TypeOK
  <2>2. ASSUME NEW p \in Payments, Sign(p)
        PROVE  IInv'
    BY <2>2, SignStep
  <2>3. ASSUME NEW a, Submit(a) \/ Drop(a)
        PROVE  IInv'
    BY <2>3, QuietStep DEF Submit, Drop, IInv, TypeOK
  <2>4. ASSUME NEW a, IncludeStep(a)
        PROVE  IInv'
    BY <2>4, InclusionStep
  <2>5. ASSUME NEW c \in Accounts, UseOutside(c)
        PROVE  IInv'
    <3>1. \A d \in Accounts : next'[d] >= next[d]
      BY <2>5 DEF UseOutside, IInv, TypeOK
    <3> QED BY <2>5, <3>1, QuietStep DEF UseOutside
  <2>6. CASE UNCHANGED vars
    BY <2>6, QuietStep DEF vars, IInv, TypeOK
  <2> QED BY <2>1, <2>2, <2>3, <2>4, <2>5, <2>6 DEF Next, IncludeStep
<1> QED BY <1>1, <1>2, Typing, PTL DEF Spec

----------------------------------------------------------------------------
\* Every variable of the wallet keeps its type, on every chain.
THEOREM TypeCorrect == Spec => []TypeOK
BY Typing

\* The promise of SafeFromDoubleSend: at most one attempt of a payment moves
\* its funds, whatever is lost, delayed, repeated or sent from outside.
THEOREM DoubleSendIsImpossible ==
    ASSUME "egld" \notin Drivers
    PROVE  Spec => []NoDoubleSend
<1>1. IInv => NoDoubleSend
  <2> SUFFICES ASSUME IInv, NEW a \in executed, NEW b \in executed,
                      a.payment = b.payment, a # b
               PROVE  FALSE
    BY DEF NoDoubleSend
  <2>1. SlotsOf(a) \cap SlotsOf(b) # {}
    BY DEF IInv, AttemptsCompete, TypeOK
  <2>2. SlotsOf(a) \cap SlotsOf(b) = {}
    BY DEF IInv, IncludedApart, Included
  <2> QED BY <2>1, <2>2
<1> QED BY <1>1, Invariance, PTL

\* An attempt signed for a payment that was paid already, before or after the
\* fact, names a number the chain has moved past.
LEMMA InvImpliesHarmless == IInv => LateRetryIsHarmless
<1> SUFFICES ASSUME IInv, NEW a \in executed, NEW b \in signed,
                    a.payment = b.payment, a # b
             PROVE  \E s \in SlotsOf(b) : Used(s)
  BY DEF LateRetryIsHarmless
<1>1. PICK s \in SlotsOf(a) : s \in SlotsOf(b)
  BY DEF IInv, AttemptsCompete, TypeOK
<1>2. Used(s)
  BY DEF IInv, IncludedIsUsed, Included
<1> QED BY <1>1, <1>2

\* A retry that races the late success of an earlier attempt does no harm.
THEOREM LateRetryCannotPay ==
    ASSUME "egld" \notin Drivers
    PROVE  Spec => []LateRetryIsHarmless
BY Invariance, InvImpliesHarmless, PTL

----------------------------------------------------------------------------
\* A step that executes nothing is a stutter of the abstract promise.
LEMMA StutterStep ==
    ASSUME UNCHANGED executed
    PROVE  [p \in Payments |-> {a \in executed : a.payment = p}]'
             = [p \in Payments |-> {a \in executed : a.payment = p}]
OBVIOUS

\* The chain accepts no number twice.
LEMMA AcceptedIsUnused ==
    ASSUME IInv, NEW a, IncludeStep(a)
    PROVE  \A s \in SlotsOf(a) : ~Used(s)
<1> SUFFICES ASSUME NEW s \in SlotsOf(a), s[2] < next[s[1]]
             PROVE  FALSE
  BY DEF Used
<1>1. a.input \in Input
  BY DEF IncludeStep, IInv, TypeOK, Attempt
<1>2. s[1] \in Accounts /\ s[2] \in Nat
  BY <1>1 DEF SlotsOf, Slots, NumberedAccounts, NumberOf, Accounts, Input
<1>3. s[2] = next[s[1]] /\ next[s[1]] \in Nat
  BY <1>2 DEF IncludeStep, Execute, Revert, Include, Acceptable, IInv, TypeOK
<1> QED BY <1>2, <1>3

\* Executing an attempt pays a payment that was not paid before.
LEMMA PayStep ==
    ASSUME IInv, NEW a \in pool, Execute(a)
    PROVE  Abstract!Pay(a.payment)
<1>1. a \in signed /\ a \in Attempt /\ a.payment \in Payments /\ a.input \in Input
  BY DEF IInv, TypeOK, Attempt
<1>2. \A s \in SlotsOf(a) : ~Used(s)
  BY AcceptedIsUnused DEF IncludeStep
<1>3. a \notin executed
  <2> SUFFICES ASSUME a \in executed
               PROVE  FALSE
    OBVIOUS
  <2>1. \A s \in SlotsOf(a) : Used(s)
    BY DEF IInv, IncludedIsUsed, Included
  <2>2. SlotsOf(a) # {}
    BY <1>1, SlotsNonempty DEF SlotsOf
  <2> QED BY <2>1, <2>2, <1>2
<1>4. \A b \in executed : b.payment # a.payment
  <2> SUFFICES ASSUME NEW b \in executed, b.payment = a.payment
               PROVE  FALSE
    OBVIOUS
  <2>1. \E s \in SlotsOf(a) : Used(s)
    BY <1>1, <1>3, InvImpliesHarmless DEF LateRetryIsHarmless
  <2> QED BY <2>1, <1>2
<1>5. executed' = executed \cup {a}
  BY DEF Execute
<1>6. [p \in Payments |-> {b \in executed : b.payment = p}][a.payment] = {}
  BY <1>1, <1>4
<1>7. [p \in Payments |-> {b \in executed : b.payment = p}]'
        = [[p \in Payments |-> {b \in executed : b.payment = p}] EXCEPT ![a.payment] = {a}]
  BY <1>1, <1>4, <1>5
<1>8. a \in [p \in Payments |-> {b \in executed : b.payment = p}]'[a.payment]
  BY <1>1, <1>7
<1> QED BY <1>6, <1>7, <1>8 DEF Abstract!Pay

\* The wallet implements AtMostOnce: its initial states map to the initial
\* state, and every step executes at most one payment, never a paid one.
THEOREM Refinement ==
    ASSUME "egld" \notin Drivers
    PROVE  Spec => ImplementsAtMostOnce
<1>1. Init => Abstract!Init
  BY DEF Init, Abstract!Init
<1>2. IInv /\ [Next]_vars
        => [Abstract!Next]_([p \in Payments |-> {a \in executed : a.payment = p}])
  <2> SUFFICES ASSUME IInv, [Next]_vars
               PROVE  \/ Abstract!Next
                      \/ UNCHANGED [p \in Payments |-> {a \in executed : a.payment = p}]
    OBVIOUS
  <2>1. ASSUME NEW a \in pool, Execute(a)
        PROVE  Abstract!Next
    <3>1. a.payment \in Payments /\ a \in Attempt
      BY DEF IInv, TypeOK, Attempt
    <3> QED BY <2>1, <3>1, PayStep DEF Abstract!Next
  <2>2. CASE UNCHANGED executed
    BY <2>2, StutterStep
  <2>3. UNCHANGED executed \/ \E a \in pool : Execute(a)
    BY DEF Next, vars, FetchInput, FetchSponsoredInput, FetchPayer, Sign, Confirm,
           Submit, Drop, Revert, UseOutside
  <2> QED BY <2>1, <2>2, <2>3
<1> QED BY <1>1, <1>2, Invariance, PTL DEF Spec, ImplementsAtMostOnce, Abstract!Spec

----------------------------------------------------------------------------
\* The numbers of the chain's accounts never go back.
LEMMA UsedStays ==
    ASSUME IInv, TypeOK', [Next]_vars, NEW s \in Accounts \X Nat, Used(s)
    PROVE  s[2] < next'[s[1]]
<1>1. s[1] \in Accounts /\ s[2] \in Nat /\ s[2] < next[s[1]]
  BY DEF Used
<1>2. next[s[1]] \in Nat /\ next'[s[1]] \in Nat
  BY <1>1 DEF IInv, TypeOK
<1>3. next'[s[1]] >= next[s[1]]
  <2>1. CASE UNCHANGED next
    BY <2>1, <1>2
  <2>2. ASSUME NEW a, IncludeStep(a)
        PROVE  next'[s[1]] >= next[s[1]]
    BY <2>2, <1>1, <1>2 DEF IncludeStep, Execute, Revert, Include
  <2>3. ASSUME NEW c \in Accounts, UseOutside(c)
        PROVE  next'[s[1]] >= next[s[1]]
    BY <2>3, <1>1, <1>2 DEF UseOutside, IInv, TypeOK
  <2> QED
    BY <2>1, <2>2, <2>3
    DEF Next, vars, IncludeStep, FetchInput, FetchSponsoredInput, FetchPayer, Sign,
        Confirm, Submit, Drop
<1> QED BY <1>1, <1>2, <1>3

\* A payment that is decided is paid by nobody else: whatever is included for
\* it shares a slot with the attempt whose slots are all gone.
LEMMA DecidedIsNotPaid ==
    ASSUME IInv, [Next]_vars, NEW p \in Payments, Decided(p)
    PROVE  PaidBy(p)' = PaidBy(p)
<1>1. PICK b \in AttemptsOf(p) : \A s \in SlotsOf(b) : Used(s)
  BY DEF Decided
<1>2. ASSUME NEW a \in pool, Execute(a), a.payment = p
      PROVE  FALSE
  <2>1. a \in signed /\ b \in signed /\ b.payment = a.payment
    BY <1>1, <1>2 DEF AttemptsOf, IInv, TypeOK
  <2>2. PICK s \in SlotsOf(a) : s \in SlotsOf(b)
    BY <2>1 DEF IInv, AttemptsCompete
  <2>3. ~Used(s)
    BY <1>2, <2>2, AcceptedIsUnused DEF IncludeStep
  <2> QED BY <1>1, <2>2, <2>3
<1>3. CASE UNCHANGED executed
  BY <1>3 DEF PaidBy
<1>4. ASSUME NEW a \in pool, Execute(a)
      PROVE  PaidBy(p)' = PaidBy(p)
  BY <1>2, <1>4 DEF Execute, PaidBy
<1>5. UNCHANGED executed \/ \E a \in pool : Execute(a)
  BY DEF Next, vars, FetchInput, FetchSponsoredInput, FetchPayer, Sign, Confirm,
         Submit, Drop, Revert, UseOutside
<1> QED BY <1>3, <1>4, <1>5

\* Nor does it come open again: attempts stay signed, and numbers used.
LEMMA DecidedStays ==
    ASSUME IInv, TypeOK', [Next]_vars, NEW p \in Payments, Decided(p)
    PROVE  Decided(p)'
<1>1. PICK b \in AttemptsOf(p) : \A s \in SlotsOf(b) : Used(s)
  BY DEF Decided
<1>2. driver' = driver /\ signed \subseteq signed'
  BY DEF Next, vars, FetchInput, FetchSponsoredInput, FetchPayer, Sign, Confirm,
         Submit, Drop, Execute, Revert, Include, UseOutside
<1>3. b.input \in Input
  BY <1>1 DEF AttemptsOf, IInv, TypeOK, Attempt
<1>4. SlotsOf(b) \subseteq Accounts \X Nat
  BY <1>3 DEF SlotsOf, Slots, NumberedAccounts, NumberOf, Accounts, Input
<1>5. \A s \in SlotsOf(b) : s[2] < next'[s[1]]
  BY <1>1, <1>4, UsedStays
<1> QED BY <1>1, <1>2, <1>5 DEF Decided, AttemptsOf, SlotsOf, Used

\* Once the numbers of one attempt are gone, by whomever, the outcome of the
\* payment never changes: what was paid is paid by the same attempt only, and
\* what others pushed out stays unpaid.
THEOREM OutcomesAreFinal ==
    ASSUME "egld" \notin Drivers
    PROVE  Spec => OutcomeIsFinal
<1>1. IInv /\ TypeOK' /\ [Next]_vars =>
        [\A p \in Payments : Decided(p) => PaidBy(p)' = PaidBy(p) /\ Decided(p)']_vars
  BY DecidedIsNotPaid, DecidedStays
<1> QED BY <1>1, Invariance, Typing, PTL DEF Spec, OutcomeIsFinal

(***************************************************************************)
(* Payments beside each other.  A slot that was used was used by somebody  *)
(* outside or by an attempt, and an attempt of another payment does not    *)
(* share it: the rule IndependentOf sees to that, except on Cosmos, where  *)
(* it compares the senders' numbers only.  There two attempts may share    *)
(* the fee payer's slot, but the sender's number was read first, so one of *)
(* them holds a sender's number that is gone as well.                      *)
(***************************************************************************)
PaymentsApart ==
    \A a, b \in signed :
        a.payment # b.payment => IndependentOf(driver, a.input, b.input)

\* The inputs that were fetched: those in hand and those signed over.
Fetched(i) ==
    \/ \E a \in signed : i = a.input
    \/ \E p \in Payments : held[p].stage = "ready" /\ i = held[p].input

\* Only some chains have a fee payer.
SponsorsOnly ==
    /\ \A i \in Input : Fetched(i) /\ i.sponsored => driver \in SponsorDrivers
    /\ \A p \in Payments : held[p].stage = "payer" => driver \in SponsorDrivers

\* Each slot the chain has moved past has a user.
UsedByOne ==
    \A c \in Accounts : \A n \in Nat \ {0} :
        n < next[c] => \/ <<c, n>> \in outside
                       \/ \E a \in Included : <<c, n>> \in SlotsOf(a)

\* The sender's number was read before the fee payer's: as long as the first
\* is the next one, only somebody outside has used the second.
InOrder(i) ==
    /\ i.sequence <= next["from"]
    /\ i.sponsored /\ i.sequence = next["from"] =>
          \A n \in Nat : i.payerSequence <= n /\ n < next["payer"]
                            => <<"payer", n>> \in outside

ReadInOrder ==
    driver = "cosmos" =>
        /\ \A i \in Input : Fetched(i) => InOrder(i)
        /\ \A p \in Payments : held[p].stage = "payer" => held[p].sequence <= next["from"]

CrossInv == TypeOK /\ PaymentsApart /\ SponsorsOnly /\ UsedByOne /\ ReadInOrder

LEMMA IndependenceIsSymmetric ==
    ASSUME NEW d, NEW i \in Input, NEW j \in Input, IndependentOf(d, i, j)
    PROVE  IndependentOf(d, j, i)
BY DEF IndependentOf, XlmIndependentOf, SequenceIndependentOf

\* Away from Cosmos, independent inputs share no slot.
LEMMA IndependentMeansApart ==
    ASSUME NEW d, d # "cosmos", NEW i \in Input, NEW j \in Input,
           i.sponsored \/ j.sponsored => d \in SponsorDrivers, IndependentOf(d, i, j)
    PROVE  Slots(d, i) \cap Slots(d, j) = {}
<1>1. CASE d = "xlm"
  <2>1. XlmIndependentOf(i, j)
    BY <1>1 DEF IndependentOf
  <2>2. \A k \in Input : Slots(d, k) = IF k.sponsored THEN {<<"payer", k.payerSequence>>}
                                                   ELSE {<<"from", k.sequence>>}
    BY <1>1 DEF Slots, NumberedAccounts, NumberOf
  <2> QED BY <2>1, <2>2 DEF XlmIndependentOf, Input
<1>2. CASE d # "xlm"
  <2>1. ~i.sponsored /\ ~j.sponsored
    BY <1>2 DEF SponsorDrivers, Input
  <2>2. Slots(d, i) = {<<"from", i.sequence>>} /\ Slots(d, j) = {<<"from", j.sequence>>}
    BY <2>1 DEF Slots, NumberedAccounts, NumberOf
  <2>3. i.sequence # j.sequence
    BY <1>2 DEF IndependentOf, SequenceIndependentOf
  <2> QED BY <2>2, <2>3
<1> QED BY <1>1, <1>2

LEMMA CrossInvImplies == CrossInv => NoCrossInvalidation
<1> SUFFICES ASSUME CrossInv, NEW b \in signed \ Included, NEW s \in SlotsOf(b), Used(s),
                    \A a \in Included : a.payment # b.payment
             PROVE  \E t \in SlotsOf(b) : t \in outside
  BY DEF NoCrossInvalidation
<1>1. /\ b.input \in Input /\ Fetched(b.input)
      /\ \A a \in Included : a \in signed /\ a.input \in Input /\ Fetched(a.input)
  BY DEF CrossInv, TypeOK, Included, Attempt, Fetched
<1>2. \A a \in Included : IndependentOf(driver, a.input, b.input)
  BY <1>1 DEF CrossInv, PaymentsApart
<1>3. ASSUME NEW t \in SlotsOf(b), Used(t)
      PROVE  t \in outside \/ \E a \in Included : t \in SlotsOf(a)
  <2>1. PICK c \in NumberedAccounts(driver, b.input) : t = <<c, NumberOf(b.input, c)>>
    BY DEF SlotsOf, Slots
  <2>2. c \in Accounts /\ NumberOf(b.input, c) \in Nat \ {0}
    BY <1>1 DEF NumberedAccounts, NumberOf, Accounts, Input
  <2> QED BY <1>3, <2>1, <2>2 DEF CrossInv, UsedByOne, Used
<1>4. CASE driver # "cosmos"
  <2>1. \A a \in Included : SlotsOf(a) \cap SlotsOf(b) = {}
    BY <1>1, <1>2, <1>4, IndependentMeansApart DEF SlotsOf, CrossInv, SponsorsOnly
  <2> QED BY <1>3, <2>1
<1>5. CASE driver = "cosmos"
  <2>1. <<"from", b.input.sequence>> \in SlotsOf(b)
    BY <1>5 DEF SlotsOf, Slots, NumberedAccounts, NumberOf, Accounts
  <2>2. InOrder(b.input)
    BY <1>1, <1>5 DEF CrossInv, ReadInOrder
  <2>3. CASE b.input.sequence < next["from"]
    <3>1. \A a \in Included : a.input.sequence # b.input.sequence
      BY <1>2, <1>5 DEF IndependentOf, SequenceIndependentOf
    <3>2. \A a \in Included : <<"from", b.input.sequence>> \notin SlotsOf(a)
      BY <3>1 DEF SlotsOf, Slots, NumberOf, Accounts
    <3>3. Used(<<"from", b.input.sequence>>)
      BY <2>3 DEF Used
    <3> QED BY <1>3, <2>1, <3>2, <3>3
  <2>4. CASE ~(b.input.sequence < next["from"])
    <3>1. b.input.sequence = next["from"]
      BY <1>1, <2>2, <2>4 DEF InOrder, Input, CrossInv, TypeOK, Accounts
    <3>2. s = <<"payer", b.input.payerSequence>> /\ b.input.sponsored
      <4>1. PICK c \in NumberedAccounts(driver, b.input) : s = <<c, NumberOf(b.input, c)>>
        BY DEF SlotsOf, Slots
      <4>2. c # "from"
        BY <4>1, <2>4 DEF Used, NumberOf
      <4> QED BY <4>1, <4>2, <1>5 DEF NumberedAccounts, NumberOf, Accounts
    <3>3. b.input.payerSequence \in Nat /\ b.input.payerSequence < next["payer"]
      BY <1>1, <3>2 DEF Used, Input
    <3>4. b.input.payerSequence <= b.input.payerSequence
      BY <3>3
    <3>5. s \in outside
      BY <2>2, <3>1, <3>2, <3>3, <3>4 DEF InOrder
    <3> QED BY <3>5
  <2> QED BY <2>3, <2>4
<1> QED BY <1>4, <1>5

\* A step that fetches: the input in hand is of this chain and in order.
LEMMA FetchStep ==
    ASSUME CrossInv, TypeOK', NEW p \in Payments, NEW h,
           held' = [held EXCEPT ![p] = h],
           UNCHANGED <<driver, next, signed, executed, reverted, outside>>,
           h.stage = "ready" => /\ h.input.sponsored => driver \in SponsorDrivers
                                /\ driver = "cosmos" => InOrder(h.input),
           h.stage = "payer" => /\ driver \in SponsorDrivers
                                /\ driver = "cosmos" => h.sequence <= next["from"]
    PROVE  CrossInv'
<1>1. \A q \in Payments : held'[q] = IF q = p THEN h ELSE held[q]
  BY DEF CrossInv, TypeOK
<1>2. \A i \in Input : Fetched(i)' => Fetched(i) \/ (h.stage = "ready" /\ i = h.input)
  BY <1>1 DEF Fetched
<1>3. SponsorsOnly'
  BY <1>1, <1>2 DEF CrossInv, SponsorsOnly
<1>4. ReadInOrder'
  <2>1. \A i : InOrder(i)' <=> InOrder(i)
    BY DEF InOrder
  <2> QED BY <1>1, <1>2, <2>1 DEF CrossInv, ReadInOrder
<1>5. PaymentsApart' /\ UsedByOne'
  BY DEF CrossInv, PaymentsApart, UsedByOne, Included, SlotsOf
<1> QED BY <1>3, <1>4, <1>5 DEF CrossInv

\* Signing takes the input in hand; the rule IndependentOf is used here.
LEMMA SignKeepsApart ==
    ASSUME CrossInv, TypeOK', NEW p \in Payments, Sign(p)
    PROVE  CrossInv'
<1>1. PICK t \in 1 .. MaxTries :
         signed' = signed \cup {[payment |-> p, input |-> held[p].input, try |-> t]}
  BY DEF Sign
<1> DEFINE new == [payment |-> p, input |-> held[p].input, try |-> t]
<1>2. held[p].stage = "ready" /\ held[p].input \in Input
  BY DEF Sign, CrossInv, TypeOK, Held, NoInput
<1>3. UNCHANGED <<driver, next, held, executed, reverted, outside>>
  BY DEF Sign
<1>4. \A a \in signed : a.payment # p => IndependentOf(driver, held[p].input, a.input)
  BY DEF Sign, MaySign
<1>5. \A a \in signed : a.payment # p => IndependentOf(driver, a.input, held[p].input)
  BY <1>2, <1>4, IndependenceIsSymmetric DEF CrossInv, TypeOK, Attempt
<1>6. PaymentsApart'
  <2> SUFFICES ASSUME NEW a \in signed', NEW b \in signed', a.payment # b.payment
               PROVE  IndependentOf(driver, a.input, b.input)
    BY <1>3 DEF PaymentsApart
  <2>1. CASE a \in signed /\ b \in signed
    BY <2>1 DEF CrossInv, PaymentsApart
  <2>2. CASE a = new /\ b \in signed
    BY <2>2, <1>4
  <2>3. CASE a \in signed /\ b = new
    BY <2>3, <1>5
  <2> QED BY <1>1, <2>1, <2>2, <2>3
<1>7. \A i : Fetched(i)' => Fetched(i)
  BY <1>1, <1>2, <1>3 DEF Fetched
<1>8. SponsorsOnly'
  BY <1>3, <1>7 DEF CrossInv, SponsorsOnly
<1>9. ReadInOrder'
  <2>1. \A i : InOrder(i)' <=> InOrder(i)
    BY <1>3 DEF InOrder
  <2> QED BY <1>3, <1>7, <2>1 DEF CrossInv, ReadInOrder
<1>10. UsedByOne'
  BY <1>3 DEF CrossInv, UsedByOne, Included, SlotsOf
<1> QED BY <1>6, <1>8, <1>9, <1>10 DEF CrossInv

\* What the chain does next it has a user for, and it leaves the inputs in
\* order: a new number of the sender makes those before it old.
LEMMA ChainKeepsOrder ==
    ASSUME CrossInv, TypeOK', UNCHANGED <<driver, signed, held>>,
           \A c \in Accounts : \/ next'[c] = next[c]
                               \/ /\ next'[c] = next[c] + 1
                                  /\ \/ <<c, next[c]>> \in outside'
                                     \/ \E a \in Included' : <<c, next[c]>> \in SlotsOf(a),
           outside \subseteq outside', Included \subseteq Included',
           driver = "cosmos" => \/ next'["from"] # next["from"]
                                \/ next'["payer"] = next["payer"]
                                \/ <<"payer", next["payer"]>> \in outside'
    PROVE  CrossInv'
<1>1. \A c \in Accounts : /\ next[c] \in Nat \ {0} /\ next'[c] \in Nat \ {0}
                          /\ next'[c] = next[c] \/ next'[c] = next[c] + 1
  <2>1. \A c \in Accounts : next'[c] = next[c] \/ next'[c] = next[c] + 1
    OBVIOUS
  <2> QED BY <2>1 DEF CrossInv, TypeOK
<1>2. \A i : Fetched(i)' <=> Fetched(i)
  BY DEF Fetched
<1>3. PaymentsApart' /\ SponsorsOnly'
  BY <1>2 DEF CrossInv, PaymentsApart, SponsorsOnly
<1>4. UsedByOne'
  <2> SUFFICES ASSUME NEW c \in Accounts, NEW n \in Nat \ {0}, n < next'[c]
               PROVE  \/ <<c, n>> \in outside'
                      \/ \E a \in Included' : <<c, n>> \in SlotsOf(a)
    BY DEF UsedByOne, SlotsOf
  <2>1. CASE n < next[c]
    BY <2>1 DEF CrossInv, UsedByOne
  <2>2. CASE ~(n < next[c])
    <3>1. n = next[c] /\ next'[c] = next[c] + 1
      BY <1>1, <2>2
    <3> QED BY <3>1, <1>1
  <2> QED BY <2>1, <2>2
<1>5. ReadInOrder'
  <2> SUFFICES ASSUME driver = "cosmos"
               PROVE  ReadInOrder'
    BY DEF ReadInOrder
  <2>1. "from" \in Accounts /\ "payer" \in Accounts
    BY DEF Accounts
  <2>2. next["from"] <= next'["from"]
    BY <1>1, <2>1
  <2>3. ASSUME NEW i \in Input, InOrder(i)
        PROVE  InOrder(i)'
    <3>1. i.sequence \in Nat /\ i.payerSequence \in Nat
      BY DEF Input
    <3>2. i.sequence <= next'["from"]
      BY <1>1, <2>1, <2>2, <2>3, <3>1 DEF InOrder
    <3>3. ASSUME i.sponsored, i.sequence = next'["from"], NEW n \in Nat,
                 i.payerSequence <= n, n < next'["payer"]
          PROVE  <<"payer", n>> \in outside'
      <4>1. next'["from"] = next["from"]
        BY <1>1, <2>1, <2>2, <2>3, <3>1, <3>3 DEF InOrder
      <4>2. CASE n < next["payer"]
        BY <2>3, <3>3, <4>1, <4>2 DEF InOrder
      <4>3. CASE ~(n < next["payer"])
        <5>1. n = next["payer"] /\ next'["payer"] # next["payer"]
          BY <1>1, <2>1, <3>3, <4>3
        <5> QED BY <5>1, <4>1
      <4> QED BY <4>2, <4>3
    <3> QED BY <3>2, <3>3 DEF InOrder
  <2>4. \A p \in Payments : held[p].stage = "payer" => held[p].sequence \in Nat
    <3> SUFFICES ASSUME NEW p \in Payments, held[p].stage = "payer"
                 PROVE  held[p].sequence \in Nat
      OBVIOUS
    <3>1. held[p] \in Held
      BY DEF CrossInv, TypeOK
    <3> QED BY <3>1 DEF Held, NoInput
  <2>5. \A p \in Payments :
           held'[p].stage = "payer" => held'[p].sequence <= next'["from"]
    BY <1>1, <2>1, <2>2, <2>4 DEF CrossInv, ReadInOrder
  <2> QED BY <1>2, <2>3, <2>5 DEF CrossInv, ReadInOrder
<1> QED BY <1>3, <1>4, <1>5 DEF CrossInv

LEMMA CrossInvariance == Spec => []CrossInv
<1>1. Init => CrossInv
  <2> SUFFICES ASSUME Init PROVE CrossInv
    OBVIOUS
  <2>1. TypeOK
    BY DEF Init, TypeOK, Held
  <2>2. \A p \in Payments : held[p].stage = "none"
    BY DEF Init, NoInput
  <2>3. \A i : ~Fetched(i)
    BY <2>2 DEF Init, Fetched
  <2>4. PaymentsApart /\ SponsorsOnly /\ ReadInOrder
    BY <2>2, <2>3 DEF Init, PaymentsApart, SponsorsOnly, ReadInOrder
  <2>5. UsedByOne
    BY DEF Init, UsedByOne
  <2> QED BY <2>1, <2>4, <2>5 DEF CrossInv
<1>2. CrossInv /\ TypeOK' /\ [Next]_vars => CrossInv'
  <2> SUFFICES ASSUME CrossInv, TypeOK', [Next]_vars
               PROVE  CrossInv'
    OBVIOUS
  <2>1. "from" \in Accounts /\ "payer" \in Accounts
    BY DEF Accounts
  <2>2. \A c \in Accounts : next[c] \in Nat /\ next[c] <= next[c]
    BY DEF CrossInv, TypeOK
  <2>3. driver = "cosmos" => driver \notin PoolDrivers
    BY DEF PoolDrivers
  <2>4. ASSUME NEW p \in Payments, FetchInput(p)
        PROVE  CrossInv'
    <3>1. PICK n \in 1 .. MaxNumber :
             /\ IsNumberRead("from", n)
             /\ held' = [held EXCEPT ![p] = [stage |-> "ready", input |-> SenderInput(n)]]
      BY <2>4 DEF FetchInput
    <3>2. driver = "cosmos" => InOrder(SenderInput(n))
      BY <2>1, <2>2, <2>3, <3>1 DEF IsNumberRead, InOrder, SenderInput
    <3> QED BY <2>4, <3>1, <3>2, FetchStep DEF FetchInput, SenderInput
  <2>5. ASSUME NEW p \in Payments, FetchSponsoredInput(p)
        PROVE  CrossInv'
    <3>1. PICK n \in 1 .. MaxNumber :
             /\ IsNumberRead("from", n)
             /\ held' = [held EXCEPT ![p] = [stage |-> "payer", sequence |-> n]]
      BY <2>5 DEF FetchSponsoredInput
    <3>2. driver = "cosmos" => n <= next["from"]
      BY <2>1, <2>2, <2>3, <3>1 DEF IsNumberRead
    <3> QED BY <2>5, <3>1, <3>2, FetchStep DEF FetchSponsoredInput
  <2>6. ASSUME NEW p \in Payments, FetchPayer(p)
        PROVE  CrossInv'
    <3>1. PICK n \in 1 .. MaxNumber :
             /\ IsNumberRead("payer", n)
             /\ held' = [held EXCEPT ![p] =
                   [stage |-> "ready", input |-> SponsoredInput(held[p].sequence, n)]]
      BY <2>6 DEF FetchPayer
    <3>2. held[p].stage = "payer" /\ driver \in SponsorDrivers
      BY <2>6 DEF FetchPayer, CrossInv, SponsorsOnly
    <3>3. driver = "cosmos" => n = next["payer"] /\ held[p].sequence <= next["from"]
      BY <2>3, <3>1, <3>2 DEF IsNumberRead, CrossInv, ReadInOrder
    <3>4. driver = "cosmos" => InOrder(SponsoredInput(held[p].sequence, n))
      BY <2>1, <2>2, <3>3 DEF InOrder, SponsoredInput
    <3> QED BY <2>6, <3>1, <3>2, <3>4, FetchStep DEF FetchPayer
  <2>7. ASSUME NEW p \in Payments, Sign(p)
        PROVE  CrossInv'
    BY <2>7, SignKeepsApart
  <2>8. ASSUME UNCHANGED <<driver, next, held, signed, executed, reverted, outside>>
        PROVE  CrossInv'
    <3>1. Included' = Included
      BY <2>8 DEF Included
    <3> QED BY <2>1, <2>8, <3>1, ChainKeepsOrder
  <2>9. ASSUME NEW a \in pool, Execute(a) \/ Revert(a)
        PROVE  CrossInv'
    <3>1. /\ Acceptable(a) /\ Included' = Included \cup {a}
          /\ UNCHANGED <<driver, signed, held, outside>>
          /\ \A c \in Accounts : next'[c] = IF c \in NumberedAccounts(driver, a.input)
                                            THEN next[c] + 1 ELSE next[c]
      BY <2>9 DEF Execute, Revert, Include, Included
    <3>2. ASSUME NEW c \in NumberedAccounts(driver, a.input)
          PROVE  <<c, next[c]>> \in SlotsOf(a)
      <4>1. <<c, NumberOf(a.input, c)>> \in SlotsOf(a)
        BY DEF SlotsOf, Slots
      <4>2. NumberOf(a.input, c) = next[c]
        BY <3>1, <4>1 DEF Acceptable
      <4> QED BY <4>1, <4>2
    <3>3. driver = "cosmos" => next'["from"] = next["from"] + 1
      BY <2>1, <3>1 DEF NumberedAccounts, Accounts
    <3> QED BY <2>1, <2>2, <3>1, <3>2, <3>3, ChainKeepsOrder
  <2>10. ASSUME NEW c \in Accounts, UseOutside(c)
         PROVE  CrossInv'
    <3>1. \A d \in Accounts : next'[d] = IF d = c THEN next[d] + 1 ELSE next[d]
      BY <2>10 DEF UseOutside, CrossInv, TypeOK
    <3>2. outside' = outside \cup {<<c, next[c]>>} /\ Included' = Included
      BY <2>10 DEF UseOutside, Included
    <3>3. UNCHANGED <<driver, signed, held>>
      BY <2>10 DEF UseOutside
    <3> QED BY <2>1, <2>2, <3>1, <3>2, <3>3, ChainKeepsOrder DEF Accounts
  <2>11. CASE UNCHANGED vars
    BY <2>8, <2>11 DEF vars
  <2> QED
    BY <2>4, <2>5, <2>6, <2>7, <2>8, <2>9, <2>10, <2>11
    DEF Next, Confirm, Submit, Drop
<1> QED BY <1>1, <1>2, Typing, PTL DEF Spec

\* A payment signed beside others becomes impossible only through an attempt
\* of its own or somebody outside, on every chain.
THEOREM PaymentsDoNotCollide == Spec => []NoCrossInvalidation
BY CrossInvariance, CrossInvImplies, PTL

----------------------------------------------------------------------------
\* An input may be signed: its numbers are used now or the caller's own
\* attempts lead up to them.
Reachable(input) ==
    \A s \in Slots(driver, input) :
        /\ LeadsUpTo(s[1], s[2])
        /\ driver \notin PoolDrivers => s[2] <= next[s[1]]

SignedReachable == \A b \in signed : Reachable(b.input)

HeldReachable ==
    \A p \in Payments :
        /\ held[p].stage = "payer" =>
              /\ LeadsUpTo("from", held[p].sequence)
              /\ driver \notin PoolDrivers => held[p].sequence <= next["from"]
        /\ held[p].stage = "ready" => Reachable(held[p].input)

QueueInv == TypeOK /\ SignedReachable /\ HeldReachable

\* What the client reads leads on from the chain's number, through the pool
\* if the driver asks it.
LEMMA NumberReadIsReachable ==
    ASSUME TypeOK, NEW c \in Accounts, NEW n \in Nat, IsNumberRead(c, n)
    PROVE  /\ LeadsUpTo(c, n)
           /\ driver \notin PoolDrivers => n <= next[c]
<1>1. next[c] \in Nat
  BY DEF TypeOK
<1>2. CASE driver \in PoolDrivers
  <2> SUFFICES ASSUME NEW m \in next[c] .. n - 1
               PROVE  \E a \in signed : <<c, m>> \in SlotsOf(a)
    BY <1>2 DEF LeadsUpTo
  <2>1. m \in Pending(c)
    BY <1>2 DEF IsNumberRead
  <2>2. PICK a \in pool : \E t \in SlotsOf(a) : t[1] = c /\ t[2] = m
    BY <2>1 DEF Pending
  <2>3. <<c, m>> \in SlotsOf(a)
    BY <2>2 DEF SlotsOf, Slots
  <2> QED BY <2>2, <2>3 DEF TypeOK
<1>3. CASE driver \notin PoolDrivers
  <2>1. n = next[c]
    BY <1>3 DEF IsNumberRead
  <2>2. next[c] .. n - 1 = {}
    BY <1>1, <2>1
  <2> QED BY <1>1, <2>1, <2>2 DEF LeadsUpTo
<1> QED BY <1>2, <1>3

\* What leads up to a number goes on doing so: the chain's numbers do not go
\* back and no signature is taken back.
LEMMA LeadStays ==
    ASSUME TypeOK, TypeOK', driver' = driver, signed \subseteq signed',
           \A c \in Accounts : next'[c] >= next[c],
           NEW c \in Accounts, NEW n \in Nat
    PROVE  /\ LeadsUpTo(c, n) => LeadsUpTo(c, n)'
           /\ n <= next[c] => n <= next'[c]
<1>1. next[c] \in Nat /\ next'[c] \in Nat /\ next'[c] >= next[c]
  BY DEF TypeOK
<1>2. next'[c] .. n - 1 \subseteq next[c] .. n - 1
  BY <1>1
<1>3. \A a \in signed : a \in signed' /\ SlotsOf(a)' = SlotsOf(a)
  BY DEF SlotsOf
<1> QED BY <1>1, <1>2, <1>3 DEF LeadsUpTo

LEMMA ReachableStays ==
    ASSUME TypeOK, TypeOK', driver' = driver, signed \subseteq signed',
           \A c \in Accounts : next'[c] >= next[c],
           NEW i \in Input, Reachable(i)
    PROVE  Reachable(i)'
<1> SUFFICES ASSUME NEW s \in Slots(driver, i)
             PROVE  /\ LeadsUpTo(s[1], s[2])'
                    /\ driver \notin PoolDrivers => s[2] <= next'[s[1]]
  BY DEF Reachable
<1>1. s[1] \in Accounts /\ s[2] \in Nat
  BY DEF Slots, NumberedAccounts, NumberOf, Accounts, Input
<1> QED BY <1>1, LeadStays DEF Reachable

\* A step that fetches for p at most, and signs at most what was reachable.
LEMMA QueueStep ==
    ASSUME QueueInv, TypeOK', driver' = driver, signed \subseteq signed',
           \A c \in Accounts : next'[c] >= next[c],
           \A b \in signed' \ signed : Reachable(b.input),
           \A p \in Payments :
              \/ held'[p] = held[p]
              \/ /\ held'[p].stage = "payer"
                 /\ LeadsUpTo("from", held'[p].sequence)
                 /\ driver \notin PoolDrivers => held'[p].sequence <= next["from"]
              \/ held'[p].stage = "ready" /\ Reachable(held'[p].input)
    PROVE  QueueInv'
<1>1. "from" \in Accounts
  BY DEF Accounts
<1>2. SignedReachable'
  <2> SUFFICES ASSUME NEW b \in signed' PROVE Reachable(b.input)'
    BY DEF SignedReachable, Reachable
  <2>1. Reachable(b.input) /\ b.input \in Input
    BY DEF QueueInv, SignedReachable, TypeOK, Attempt
  <2> QED BY <2>1, ReachableStays DEF QueueInv
<1>3. ASSUME NEW p \in Payments, NEW h \in Held, h = held'[p]
      PROVE  /\ h.stage = "payer" =>
                   /\ LeadsUpTo("from", h.sequence)'
                   /\ driver \notin PoolDrivers => h.sequence <= next'["from"]
             /\ h.stage = "ready" => Reachable(h.input)'
  <2>1. ASSUME h.stage = "payer"
        PROVE  /\ LeadsUpTo("from", h.sequence)'
               /\ driver \notin PoolDrivers => h.sequence <= next'["from"]
    <3>1. h.sequence \in Nat
      BY <2>1 DEF Held, NoInput
    <3>2. /\ LeadsUpTo("from", h.sequence)
          /\ driver \notin PoolDrivers => h.sequence <= next["from"]
      BY <1>3, <2>1 DEF QueueInv, HeldReachable
    <3> QED BY <1>1, <3>1, <3>2, LeadStays DEF QueueInv
  <2>2. ASSUME h.stage = "ready"
        PROVE  Reachable(h.input)'
    <3>1. h.input \in Input
      BY <2>2 DEF Held, NoInput
    <3>2. Reachable(h.input)
      BY <1>3, <2>2 DEF QueueInv, HeldReachable
    <3> QED BY <3>1, <3>2, ReachableStays DEF QueueInv
  <2> QED BY <2>1, <2>2
<1>4. HeldReachable'
  <2> SUFFICES ASSUME NEW p \in Payments, NEW h \in Held, h = held'[p]
               PROVE  /\ h.stage = "payer" =>
                            /\ LeadsUpTo("from", h.sequence)'
                            /\ driver \notin PoolDrivers => h.sequence <= next'["from"]
                      /\ h.stage = "ready" => Reachable(h.input)'
    BY DEF HeldReachable, Reachable, LeadsUpTo, TypeOK
  <2> QED BY <1>3
<1> QED BY <1>2, <1>4 DEF QueueInv

LEMMA QueueInvariance == Spec => []QueueInv
<1>1. Init => QueueInv
  <2> SUFFICES ASSUME Init PROVE QueueInv
    OBVIOUS
  <2>1. TypeOK
    BY DEF Init, TypeOK, Held
  <2>2. SignedReachable /\ HeldReachable
    BY DEF Init, SignedReachable, HeldReachable, NoInput
  <2> QED BY <2>1, <2>2 DEF QueueInv
<1>2. QueueInv /\ TypeOK' /\ [Next]_vars => QueueInv'
  <2> SUFFICES ASSUME QueueInv, TypeOK', [Next]_vars
               PROVE  QueueInv'
    OBVIOUS
  <2>1. "from" \in Accounts /\ "payer" \in Accounts
    BY DEF Accounts
  <2>2. \A c \in Accounts : next[c] \in Nat /\ next[c] >= next[c] /\ next[c] + 1 >= next[c]
    BY DEF QueueInv, TypeOK
  <2>3. ASSUME NEW p \in Payments, FetchInput(p)
        PROVE  QueueInv'
    <3>1. PICK n \in 1 .. MaxNumber :
             /\ IsNumberRead("from", n)
             /\ held' = [held EXCEPT ![p] = [stage |-> "ready", input |-> SenderInput(n)]]
      BY <2>3 DEF FetchInput
    <3>2. /\ LeadsUpTo("from", n)
          /\ driver \notin PoolDrivers => n <= next["from"]
      BY <2>1, <3>1, NumberReadIsReachable DEF QueueInv
    <3>3. Slots(driver, SenderInput(n)) = {<<"from", n>>}
      BY DEF Slots, SenderInput, NumberedAccounts, NumberOf
    <3>4. Reachable(SenderInput(n))
      BY <3>2, <3>3 DEF Reachable
    <3>5. \A q \in Payments : held'[q] = IF q = p THEN [stage |-> "ready", input |-> SenderInput(n)]
                                                ELSE held[q]
      BY <3>1 DEF QueueInv, TypeOK
    <3> QED BY <2>2, <2>3, <3>4, <3>5, QueueStep DEF FetchInput
  <2>4. ASSUME NEW p \in Payments, FetchSponsoredInput(p)
        PROVE  QueueInv'
    <3>1. PICK n \in 1 .. MaxNumber :
             /\ IsNumberRead("from", n)
             /\ held' = [held EXCEPT ![p] = [stage |-> "payer", sequence |-> n]]
      BY <2>4 DEF FetchSponsoredInput
    <3>2. /\ LeadsUpTo("from", n)
          /\ driver \notin PoolDrivers => n <= next["from"]
      BY <2>1, <3>1, NumberReadIsReachable DEF QueueInv
    <3>3. \A q \in Payments : held'[q] = IF q = p THEN [stage |-> "payer", sequence |-> n]
                                                ELSE held[q]
      BY <3>1 DEF QueueInv, TypeOK
    <3> QED BY <2>2, <2>4, <3>2, <3>3, QueueStep DEF FetchSponsoredInput
  <2>5. ASSUME NEW p \in Payments, FetchPayer(p)
        PROVE  QueueInv'
    <3> DEFINE input(n) == SponsoredInput(held[p].sequence, n)
    <3>1. PICK n \in 1 .. MaxNumber :
             /\ IsNumberRead("payer", n)
             /\ held' = [held EXCEPT ![p] = [stage |-> "ready", input |-> input(n)]]
      BY <2>5 DEF FetchPayer
    <3>2. /\ LeadsUpTo("payer", n)
          /\ driver \notin PoolDrivers => n <= next["payer"]
      BY <2>1, <3>1, NumberReadIsReachable DEF QueueInv
    <3>3. /\ LeadsUpTo("from", held[p].sequence)
          /\ driver \notin PoolDrivers => held[p].sequence <= next["from"]
      BY <2>5 DEF FetchPayer, QueueInv, HeldReachable
    <3>4. Slots(driver, input(n)) \subseteq {<<"from", held[p].sequence>>, <<"payer", n>>}
      BY DEF Slots, SponsoredInput, NumberedAccounts, NumberOf, Accounts
    <3>5. Reachable(input(n))
      BY <3>2, <3>3, <3>4 DEF Reachable
    <3>6. \A q \in Payments : held'[q] = IF q = p THEN [stage |-> "ready", input |-> input(n)]
                                                ELSE held[q]
      BY <3>1 DEF QueueInv, TypeOK
    <3> QED BY <2>2, <2>5, <3>5, <3>6, QueueStep DEF FetchPayer
  <2>6. ASSUME NEW p \in Payments, Sign(p)
        PROVE  QueueInv'
    <3>1. PICK t \in 1 .. MaxTries :
             signed' = signed \cup {[payment |-> p, input |-> held[p].input, try |-> t]}
      BY <2>6 DEF Sign
    <3>2. Reachable(held[p].input)
      BY <2>6 DEF Sign, QueueInv, HeldReachable
    <3>3. \A b \in signed' \ signed : Reachable(b.input)
      BY <3>1, <3>2
    <3> QED BY <2>2, <2>6, <3>1, <3>3, QueueStep DEF Sign
  <2>7. ASSUME NEW a \in pool, Execute(a) \/ Revert(a)
        PROVE  QueueInv'
    <3>1. /\ UNCHANGED <<driver, signed, held>>
          /\ \A c \in Accounts : next'[c] \in {next[c], next[c] + 1}
      BY <2>7 DEF Execute, Revert, Include
    <3>2. \A c \in Accounts : next'[c] >= next[c]
      BY <2>2, <3>1
    <3> QED BY <3>1, <3>2, QueueStep
  <2>8. ASSUME NEW c \in Accounts, UseOutside(c)
        PROVE  QueueInv'
    <3>1. \A d \in Accounts : next'[d] >= next[d]
      BY <2>8 DEF UseOutside, QueueInv, TypeOK
    <3> QED BY <2>8, <3>1, QueueStep DEF UseOutside
  <2>9. ASSUME UNCHANGED <<driver, next, held, signed>>
        PROVE  QueueInv'
    BY <2>2, <2>9, QueueStep
  <2> QED
    BY <2>3, <2>4, <2>5, <2>6, <2>7, <2>8, <2>9
    DEF Next, vars, Confirm, Submit, Drop
<1> QED BY <1>1, <1>2, Typing, PTL DEF Spec

\* What is signed ahead of the chain is led up to by the caller's own attempts,
\* on every chain, whatever is forgotten, read late or used from outside.
THEOREM NothingIsStranded == Spec => []QueueHasNoGap
<1>1. QueueInv => QueueHasNoGap
  BY DEF QueueInv, SignedReachable, Reachable, QueueHasNoGap, SlotsOf
<1> QED BY <1>1, QueueInvariance, PTL
=============================================================================
