------------------------- MODULE EvmSponsoredProofs -------------------------
(***************************************************************************)
(* Proofs about EvmSponsored, for every number of payments and attempts.   *)
(*                                                                         *)
(* The argument.  An input names numbers the chain had when they were      *)
(* read, so they are never ahead of the chain's.  An attempt that executes *)
(* leaves all of its numbers behind.  A later attempt of the same payment  *)
(* shares one of them.  If it is the fee payer's nonce, the chain refuses  *)
(* the later one.  If it is the owner's, the chain does not, because it    *)
(* only skips the authorization: then what stops the later one is the      *)
(* nonce of the batch.  It was read before the first attempt executed, for *)
(* else the owner's nonce, read earlier in the same fetch, would have been *)
(* seen to move: this is where the fetch must not be torn.                 *)
(***************************************************************************)
EXTENDS EvmSponsored, TLAPS

\* The numbers of an input are not ahead of the chain's.
Past(i) == i.nonce <= nonce /\ i.payerNonce <= payerNonce /\ i.batchNonce <= batchNonce

HeldPast ==
    \A p \in Payments :
        /\ held[p].stage \in {"nonce", "payer"} => held[p].nonce <= nonce
        /\ held[p].stage = "payer" => held[p].payerNonce <= payerNonce
        /\ held[p].stage = "ready" => Past(held[p].input)

SignedPast == \A a \in signed : Past(a.input)

\* What executed has left all of its numbers behind.
ExecutedBehind ==
    \A a \in executed :
        /\ a.input.nonce < nonce
        /\ a.input.sponsored => a.input.payerNonce < payerNonce
                                /\ a.input.batchNonce < batchNonce

\* Once a executed, the batch of this input is refused, or the input was
\* fetched after the owner's nonce had moved past a's.
Outlived(a, i) ==
    (a.input.sponsored /\ i.sponsored /\ ~i.torn) =>
        i.batchNonce < batchNonce \/ a.input.nonce < i.nonce

HeldOutlived ==
    \A a \in executed, p \in Payments :
        held[p].stage = "ready" => Outlived(a, held[p].input)

SignedOutlived == \A a \in executed, b \in signed : Outlived(a, b.input)

\* Any two attempts of a payment are in conflict.
AttemptsConflict ==
    \A a, b \in signed :
        (a.payment = b.payment /\ a # b) => ~IndependentOf(a.input, b.input)

IInv == /\ TypeOK
        /\ HeldPast /\ SignedPast
        /\ ExecutedBehind
        /\ HeldOutlived /\ SignedOutlived
        /\ AttemptsConflict
        /\ DoubleSendNeedsRaceOrMix

----------------------------------------------------------------------------
\* The steps in which the caller reads or signs; the chain stands still.
CallerStep(p) ==
    FetchInput(p) \/ FetchNonce(p) \/ FetchPayerNonce(p) \/ FetchBatchNonce(p)

\* Typing: every variable keeps its shape.
LEMMA Typing == Spec => []TypeOK
<1>1. Init => TypeOK
  BY DEF Init, TypeOK, Held
<1>2. TypeOK /\ [Next]_vars => TypeOK'
  <2> SUFFICES ASSUME TypeOK, [Next]_vars
               PROVE  TypeOK'
    OBVIOUS
  <2> USE DEF TypeOK, chain
  <2>1. ASSUME NEW p \in Payments, FetchInput(p)
        PROVE  TypeOK'
    <3> DEFINE i == [sponsored |-> FALSE, nonce |-> nonce, payerNonce |-> 0,
                     batchNonce |-> 0, torn |-> FALSE]
    <3>1. i \in Input
      BY DEF Input
    <3>2. held' = [held EXCEPT ![p] = [stage |-> "ready", input |-> i]]
      BY <2>1 DEF FetchInput
    <3>3. held' \in [Payments -> Held]
      BY <3>1, <3>2 DEF Held
    <3> QED BY <2>1, <3>3 DEF FetchInput
  <2>2. ASSUME NEW p \in Payments, FetchNonce(p)
        PROVE  TypeOK'
    <3>1. held' \in [Payments -> Held]
      BY <2>2 DEF FetchNonce, Held
    <3> QED BY <2>2, <3>1 DEF FetchNonce
  <2>3. ASSUME NEW p \in Payments, FetchPayerNonce(p)
        PROVE  TypeOK'
    <3>1. held[p] \in [stage : {"nonce"}, nonce : Nat]
      BY <2>3 DEF FetchPayerNonce, Held, NoInput
    <3>2. held' \in [Payments -> Held]
      BY <2>3, <3>1 DEF FetchPayerNonce, Held
    <3> QED BY <2>3, <3>2 DEF FetchPayerNonce
  <2>4. ASSUME NEW p \in Payments, FetchBatchNonce(p)
        PROVE  TypeOK'
    <3> DEFINE i == [sponsored |-> TRUE, nonce |-> held[p].nonce,
                     payerNonce |-> held[p].payerNonce, batchNonce |-> BatchNonceRead,
                     torn |-> held[p].nonce # nonce]
    <3>1. held[p] \in [stage : {"payer"}, nonce : Nat, payerNonce : Nat]
      BY <2>4 DEF FetchBatchNonce, Held, NoInput
    <3>2. i \in Input
      BY <3>1 DEF Input, BatchNonceRead
    <3>3. held' = [held EXCEPT ![p] = [stage |-> "ready", input |-> i]]
      BY <2>4 DEF FetchBatchNonce
    <3>4. held' \in [Payments -> Held]
      BY <3>2, <3>3 DEF Held
    <3> QED BY <2>4, <3>4 DEF FetchBatchNonce
  <2>5. ASSUME NEW p \in Payments, Sign(p)
        PROVE  TypeOK'
    <3>1. PICK t \in 1 .. MaxTries :
             signed' = signed \cup {[payment |-> p, input |-> held[p].input, try |-> t]}
      BY <2>5 DEF Sign
    <3>2. held[p] \in [stage : {"ready"}, input : Input]
      BY <2>5 DEF Sign, Held, NoInput
    <3>3. [payment |-> p, input |-> held[p].input, try |-> t] \in Attempt
      BY <3>2, ConstantsAssumption DEF Attempt
    <3>4. held' \in [Payments -> Held]
      BY <2>5 DEF Sign, Held
    <3> QED BY <2>5, <3>1, <3>3, <3>4 DEF Sign
  <2>6. ASSUME NEW p \in Payments, Confirm(p)
        PROVE  TypeOK'
    <3>1. held' \in [Payments -> Held]
      BY <2>6 DEF Confirm, Held
    <3> QED BY <2>6, <3>1 DEF Confirm
  <2>7. ASSUME NEW a \in signed, Execute(a)
        PROVE  TypeOK'
    BY <2>7 DEF Execute, Include, Authorizes, Attempt, Input
  <2>8. ASSUME NEW a \in signed, Fail(a)
        PROVE  TypeOK'
    BY <2>8 DEF Fail, Include, Authorizes, Attempt, Input
  <2>9. CASE UseOutside
    BY <2>9 DEF UseOutside
  <2>10. CASE UNCHANGED vars
    BY <2>10 DEF vars
  <2> QED
    BY <2>1, <2>2, <2>3, <2>4, <2>5, <2>6, <2>7, <2>8, <2>9, <2>10 DEF Next
<1> QED BY <1>1, <1>2, PTL DEF Spec

----------------------------------------------------------------------------
\* The chain's numbers only grow, and what was in the past stays there.
LEMMA PastStays ==
    ASSUME NEW i \in Input, TypeOK, TypeOK', Past(i),
           nonce <= nonce', payerNonce <= payerNonce', batchNonce <= batchNonce'
    PROVE  Past(i)'
BY DEF Past, Input, TypeOK

\* While the chain's numbers grow, an attempt outlived stays outlived.
LEMMA OutlivedStays ==
    ASSUME NEW a, NEW i \in Input, TypeOK, TypeOK', Outlived(a, i),
           batchNonce <= batchNonce'
    PROVE  Outlived(a, i)'
BY DEF Outlived, Input, TypeOK

LEMMA HeldTyped ==
    ASSUME TypeOK, NEW p \in Payments
    PROVE  /\ held[p].stage = "nonce" => held[p].nonce \in Nat
           /\ held[p].stage = "payer" => held[p].nonce \in Nat /\ held[p].payerNonce \in Nat
           /\ held[p].stage = "ready" => held[p].input \in Input
BY DEF TypeOK, Held, NoInput

\* A fetch reads the present, so what it holds is in the past, and an input
\* that is not torn has a nonce that everything executed left behind.
LEMMA CallerReads ==
    ASSUME IInv, TypeOK', NEW p \in Payments, CallerStep(p)
    PROVE  IInv'
<1> USE DEF chain
<1>1. UNCHANGED <<chain, signed, executed>>
  BY DEF CallerStep, FetchInput, FetchNonce, FetchPayerNonce, FetchBatchNonce
<1>2. \A q \in Payments : q # p => held'[q] = held[q]
  BY DEF CallerStep, FetchInput, FetchNonce, FetchPayerNonce, FetchBatchNonce, IInv, TypeOK
<1>3. /\ held'[p].stage \in {"nonce", "payer"} => held'[p].nonce <= nonce
      /\ held'[p].stage = "payer" => held'[p].payerNonce <= payerNonce
      /\ held'[p].stage = "ready" =>
            /\ Past(held'[p].input)
            /\ held'[p].input.torn \/ held'[p].input.nonce = nonce
  <2>1. CASE FetchInput(p)
    <3>1. held'[p] = [stage |-> "ready",
             input |-> [sponsored |-> FALSE, nonce |-> nonce, payerNonce |-> 0,
                        batchNonce |-> 0, torn |-> FALSE]]
      BY <2>1 DEF FetchInput, IInv, TypeOK
    <3> QED BY <3>1 DEF Past, IInv, TypeOK
  <2>2. CASE FetchNonce(p)
    <3>1. held'[p] = [stage |-> "nonce", nonce |-> nonce]
      BY <2>2 DEF FetchNonce, IInv, TypeOK
    <3> QED BY <3>1 DEF IInv, TypeOK
  <2>3. CASE FetchPayerNonce(p)
    <3>1. held'[p] = [stage |-> "payer", nonce |-> held[p].nonce, payerNonce |-> payerNonce]
      BY <2>3 DEF FetchPayerNonce, IInv, TypeOK
    <3>2. held[p].nonce <= nonce
      BY <2>3 DEF FetchPayerNonce, IInv, HeldPast
    <3> QED BY <3>1, <3>2 DEF IInv, TypeOK
  <2>4. CASE FetchBatchNonce(p)
    <3>1. held'[p] = [stage |-> "ready",
             input |-> [sponsored |-> TRUE, nonce |-> held[p].nonce,
                        payerNonce |-> held[p].payerNonce, batchNonce |-> BatchNonceRead,
                        torn |-> held[p].nonce # nonce]]
      BY <2>4 DEF FetchBatchNonce, IInv, TypeOK
    <3>2. held[p].nonce <= nonce /\ held[p].payerNonce <= payerNonce
      BY <2>4 DEF FetchBatchNonce, IInv, HeldPast
    <3>3. BatchNonceRead <= batchNonce
      BY DEF BatchNonceRead, IInv, TypeOK
    <3>4. held'[p].stage = "ready" /\ Past(held'[p].input)
      BY <3>1, <3>2, <3>3 DEF Past
    <3>5. held'[p].input.torn = (held[p].nonce # nonce)
      BY <3>1
    <3>6. held'[p].input.nonce = held[p].nonce
      BY <3>1
    <3> QED BY <3>4, <3>5, <3>6
  <2> QED BY <2>1, <2>2, <2>3, <2>4 DEF CallerStep
<1>4. HeldPast' /\ SignedPast' /\ ExecutedBehind' /\ SignedOutlived' /\ AttemptsConflict'
      /\ DoubleSendNeedsRaceOrMix'
  BY <1>1, <1>2, <1>3 DEF IInv, HeldPast, SignedPast, ExecutedBehind, SignedOutlived,
     AttemptsConflict, DoubleSendNeedsRaceOrMix, Past, Outlived
<1>5. HeldOutlived'
  <2> SUFFICES ASSUME NEW a \in executed, NEW q \in Payments, held'[q].stage = "ready"
               PROVE  Outlived(a, held'[q].input)
    BY <1>1 DEF HeldOutlived, Outlived
  <2>1. CASE q = p
    BY <2>1, <1>3 DEF Outlived, IInv, ExecutedBehind
  <2>2. CASE q # p
    BY <2>2, <1>2 DEF IInv, HeldOutlived
  <2> QED BY <2>1, <2>2
<1> QED BY <1>4, <1>5 DEF IInv

\* A new attempt comes from a held input, and conflicts with every earlier
\* attempt of its payment.
LEMMA CallerSigns ==
    ASSUME IInv, TypeOK', NEW p \in Payments, Sign(p)
    PROVE  IInv'
<1> USE DEF chain
<1>1. PICK t \in 1 .. MaxTries :
         signed' = signed \cup {[payment |-> p, input |-> held[p].input, try |-> t]}
  BY DEF Sign
<1> DEFINE new == [payment |-> p, input |-> held[p].input, try |-> t]
<1>2. UNCHANGED <<chain, executed>> /\ held[p].stage = "ready" /\ MaySign(p, held[p].input)
  BY DEF Sign
<1>3. \A q \in Payments : held'[q].stage # "none" => held'[q] = held[q]
  BY DEF Sign, NoInput, IInv, TypeOK
<1>4. HeldPast' /\ HeldOutlived'
  <2>1. HeldPast'
    BY <1>2, <1>3 DEF IInv, HeldPast, Past
  <2>2. HeldOutlived'
    BY <1>2, <1>3 DEF IInv, HeldOutlived, Outlived
  <2> QED BY <2>1, <2>2
<1>5. SignedPast'
  BY <1>1, <1>2 DEF IInv, HeldPast, SignedPast, Past
<1>6. SignedOutlived'
  BY <1>1, <1>2 DEF IInv, HeldOutlived, SignedOutlived, Outlived
<1>7. ExecutedBehind' /\ DoubleSendNeedsRaceOrMix'
  BY <1>2 DEF IInv, ExecutedBehind, DoubleSendNeedsRaceOrMix
<1>8. AttemptsConflict'
  <2>1. \A a \in signed : a.payment = p =>
           ~IndependentOf(new.input, a.input) /\ ~IndependentOf(a.input, new.input)
    BY <1>2 DEF MaySign, SafeFromDoubleSend, IndependentOf
  <2> QED BY <1>1, <2>1 DEF AttemptsConflict, IInv
<1> QED BY <1>4, <1>5, <1>6, <1>7, <1>8 DEF IInv

\* It does not matter which of the two attempts is named first.
LEMMA RaceOrMixIsSymmetric ==
    ASSUME NEW a, NEW b, RaceOrMix(a, b)
    PROVE  RaceOrMix(b, a)
BY DEF RaceOrMix

\* What executes leaves all of its numbers behind and outlives every input
\* there is: their batches are not ahead of the chain's.
LEMMA AttemptExecutes ==
    ASSUME IInv, TypeOK', NEW b \in signed, Execute(b)
    PROVE  IInv'
<1>1. UNCHANGED <<held, signed>> /\ executed' = executed \cup {b} /\ Acceptable(b.input)
  BY DEF Execute, Include
<1>2. b \in Attempt /\ b.input \in Input /\ Past(b.input)
  BY DEF IInv, TypeOK, SignedPast, Attempt
<1>3. nonce <= nonce' /\ payerNonce <= payerNonce' /\ batchNonce <= batchNonce'
  BY DEF Execute, Include, IInv, TypeOK
<1>4. b.input.nonce < nonce'
  <2>1. CASE b.input.sponsored
    BY <2>1, <1>2 DEF Execute, Include, Authorizes, Past, Input, IInv, TypeOK
  <2>2. CASE ~b.input.sponsored
    BY <2>2, <1>2 DEF Execute, Include, Acceptable, Input, IInv, TypeOK
  <2> QED BY <2>1, <2>2
<1>5. b.input.sponsored =>
         /\ b.input.payerNonce = payerNonce /\ b.input.batchNonce = batchNonce
         /\ payerNonce < payerNonce' /\ batchNonce < batchNonce'
  BY DEF Execute, Include, Acceptable, BatchAccepted, IInv, TypeOK
<1>6. HeldPast' /\ SignedPast'
  <2>1. HeldPast'
    <3> SUFFICES ASSUME NEW p \in Payments
                 PROVE  /\ held[p].stage \in {"nonce", "payer"} => held[p].nonce <= nonce'
                        /\ held[p].stage = "payer" => held[p].payerNonce <= payerNonce'
                        /\ held[p].stage = "ready" => Past(held[p].input)'
      BY <1>1 DEF HeldPast, Past
    <3>1. /\ held[p].stage \in {"nonce", "payer"} => held[p].nonce <= nonce'
          /\ held[p].stage = "payer" => held[p].payerNonce <= payerNonce'
      BY <1>3, HeldTyped DEF IInv, HeldPast, TypeOK
    <3>2. held[p].stage = "ready" => Past(held[p].input)'
      BY <1>1, <1>3, HeldTyped, PastStays DEF IInv, HeldPast, Past, Input, TypeOK
    <3> QED BY <3>1, <3>2
  <2>2. SignedPast'
    BY <1>1, <1>3, PastStays DEF IInv, SignedPast, TypeOK, Attempt, Past, Input
  <2> QED BY <2>1, <2>2
<1>7. ExecutedBehind'
  <2> SUFFICES ASSUME NEW a \in executed'
               PROVE  /\ a.input.nonce < nonce'
                      /\ a.input.sponsored => a.input.payerNonce < payerNonce'
                                              /\ a.input.batchNonce < batchNonce'
    BY DEF ExecutedBehind
  <2>1. CASE a = b
    BY <2>1, <1>4, <1>5
  <2>2. CASE a \in executed
    BY <2>2, <1>3 DEF IInv, ExecutedBehind, TypeOK, Attempt, Input
  <2> QED BY <1>1, <2>1, <2>2
<1>8. ASSUME NEW i \in Input, Past(i), \A a \in executed : Outlived(a, i)
      PROVE  \A a \in executed' : Outlived(a, i)'
  <2>1. Outlived(b, i)'
    BY <1>5, <1>8 DEF Outlived, Past, Input, IInv, TypeOK
  <2>2. \A a \in executed : Outlived(a, i)'
    BY <1>3, <1>8, OutlivedStays DEF IInv
  <2> QED BY <1>1, <2>1, <2>2
<1>9. HeldOutlived' /\ SignedOutlived'
  <2>1. HeldOutlived'
    <3> SUFFICES ASSUME NEW p \in Payments, held[p].stage = "ready"
                 PROVE  \A a \in executed' : Outlived(a, held[p].input)'
      BY <1>1 DEF HeldOutlived, Outlived
    <3>1. held[p].input \in Input /\ Past(held[p].input)
      BY HeldTyped DEF IInv, HeldPast
    <3>2. \A a \in executed : Outlived(a, held[p].input)
      BY DEF IInv, HeldOutlived
    <3> DEFINE i == held[p].input
    <3>3. \A a \in executed' : Outlived(a, i)'
      BY <3>1, <3>2, <1>1, <1>3, <1>5 DEF Outlived, Past, Input, IInv, TypeOK
    <3> QED BY <3>3
  <2>2. SignedOutlived'
    <3> SUFFICES ASSUME NEW c \in signed
                 PROVE  \A a \in executed' : Outlived(a, c.input)'
      BY <1>1 DEF SignedOutlived, Outlived
    <3>1. c.input \in Input /\ Past(c.input)
      BY DEF IInv, SignedPast, TypeOK, Attempt
    <3>2. \A a \in executed : Outlived(a, c.input)
      BY DEF IInv, SignedOutlived
    <3> QED BY <3>1, <3>2, <1>8
  <2> QED BY <2>1, <2>2
<1>10. AttemptsConflict'
  BY <1>1 DEF IInv, AttemptsConflict
<1>11. ASSUME NEW a \in executed, a.payment = b.payment, a # b
       PROVE  RaceOrMix(a, b) /\ (a.input.sponsored # b.input.sponsored => delegated')
  <2>1. a \in signed /\ a.input \in Input /\ ~IndependentOf(a.input, b.input)
    BY <1>11 DEF IInv, TypeOK, AttemptsConflict, Attempt
  <2>2. a.input.nonce < nonce /\ (a.input.sponsored => a.input.payerNonce < payerNonce)
    BY <1>11 DEF IInv, ExecutedBehind
  <2>3. a.input.nonce = b.input.nonce
    BY <2>1, <2>2, <1>2, <1>5 DEF IndependentOf, Input, IInv, TypeOK
  <2>4. b.input.sponsored
    BY <2>2, <2>3, <1>1, <1>2 DEF Acceptable, Input, IInv, TypeOK
  <2>5. CASE a.input.sponsored
    <3>1. Outlived(a, b.input)
      BY <1>11 DEF IInv, SignedOutlived
    <3>2. b.input.torn
      BY <2>1, <2>3, <2>4, <2>5, <3>1, <1>2, <1>5 DEF Outlived, Input, IInv, TypeOK
    <3>3. a.input.payerNonce < b.input.payerNonce
      BY <2>2, <2>4, <2>5, <1>5
    <3> QED BY <2>3, <2>4, <2>5, <3>2, <3>3 DEF RaceOrMix
  <2>6. CASE ~a.input.sponsored
    <3>1. ~Authorizes(b.input)
      BY <2>1, <2>2, <2>3, <1>2 DEF Authorizes, Input, IInv, TypeOK
    <3>2. delegated'
      BY <2>4, <3>1 DEF Execute, Include, BatchAccepted
    <3> QED BY <2>3, <2>4, <2>6, <3>2 DEF RaceOrMix
  <2> QED BY <2>5, <2>6
<1>12. DoubleSendNeedsRaceOrMix'
  <2>1. delegated => delegated'
    BY DEF Execute, Include
  <2> QED BY <1>1, <1>11, <2>1, RaceOrMixIsSymmetric DEF IInv, DoubleSendNeedsRaceOrMix
<1> QED BY <1>6, <1>7, <1>9, <1>10, <1>12 DEF IInv

\* Failed attempts and the world outside only let the chain's numbers grow.
ChainMoves == (\E a \in signed : Fail(a)) \/ UseOutside

LEMMA ChainMovesOn ==
    ASSUME IInv, TypeOK', ChainMoves
    PROVE  IInv'
<1>1. UNCHANGED <<held, signed, executed, batchNonce>>
  BY DEF ChainMoves, Fail, Include, UseOutside
<1>2. nonce <= nonce' /\ payerNonce <= payerNonce'
  BY DEF ChainMoves, Fail, Include, UseOutside, IInv, TypeOK
<1>3. HeldPast'
  <2> SUFFICES ASSUME NEW p \in Payments
               PROVE  /\ held[p].stage \in {"nonce", "payer"} => held[p].nonce <= nonce'
                      /\ held[p].stage = "payer" => held[p].payerNonce <= payerNonce'
                      /\ held[p].stage = "ready" => Past(held[p].input)'
    BY <1>1 DEF HeldPast, Past
  <2>1. /\ held[p].stage \in {"nonce", "payer"} => held[p].nonce <= nonce'
        /\ held[p].stage = "payer" => held[p].payerNonce <= payerNonce'
    BY <1>2, HeldTyped DEF IInv, HeldPast, TypeOK
  <2>2. held[p].stage = "ready" => Past(held[p].input)'
    BY <1>1, <1>2, HeldTyped DEF IInv, HeldPast, Past, Input, TypeOK
  <2> QED BY <2>1, <2>2
<1>4. SignedPast'
  BY <1>1, <1>2 DEF IInv, SignedPast, Past, TypeOK, Attempt, Input
<1>5. ExecutedBehind'
  BY <1>1, <1>2 DEF IInv, ExecutedBehind, TypeOK, Attempt, Input
<1>6. HeldOutlived' /\ SignedOutlived' /\ AttemptsConflict'
  BY <1>1 DEF IInv, HeldOutlived, SignedOutlived, Outlived, AttemptsConflict
<1>7. DoubleSendNeedsRaceOrMix'
  <2>1. delegated => delegated'
    BY DEF ChainMoves, Fail, Include, UseOutside
  <2> QED BY <1>1, <2>1 DEF IInv, DoubleSendNeedsRaceOrMix
<1> QED BY <1>3, <1>4, <1>5, <1>6, <1>7 DEF IInv

\* A payment that is settled is forgotten.
LEMMA CallerConfirms ==
    ASSUME IInv, TypeOK', NEW p \in Payments, Confirm(p)
    PROVE  IInv'
<1>1. UNCHANGED <<chain, signed, executed>>
  BY DEF Confirm
<1>2. \A q \in Payments : held'[q].stage # "none" => held'[q] = held[q]
  BY DEF Confirm, NoInput, IInv, TypeOK
<1>3. HeldPast' /\ HeldOutlived'
  BY <1>1, <1>2 DEF chain, IInv, HeldPast, HeldOutlived, Past, Outlived
<1>4. SignedPast' /\ ExecutedBehind' /\ SignedOutlived' /\ AttemptsConflict'
      /\ DoubleSendNeedsRaceOrMix'
  BY <1>1 DEF chain, IInv, SignedPast, ExecutedBehind, SignedOutlived, AttemptsConflict,
     DoubleSendNeedsRaceOrMix, Past, Outlived
<1> QED BY <1>3, <1>4 DEF IInv

----------------------------------------------------------------------------
LEMMA Inductive == Spec => []IInv
<1>1. Init => IInv
  BY DEF Init, NoInput, IInv, TypeOK, Held, HeldPast, SignedPast, ExecutedBehind,
     HeldOutlived, SignedOutlived, AttemptsConflict, DoubleSendNeedsRaceOrMix
<1>2. IInv /\ TypeOK' /\ [Next]_vars => IInv'
  <2> SUFFICES ASSUME IInv, TypeOK', [Next]_vars
               PROVE  IInv'
    OBVIOUS
  <2>1. ASSUME NEW p \in Payments, CallerStep(p)
        PROVE  IInv'
    BY <2>1, CallerReads
  <2>2. ASSUME NEW p \in Payments, Sign(p)
        PROVE  IInv'
    BY <2>2, CallerSigns
  <2>3. ASSUME NEW p \in Payments, Confirm(p)
        PROVE  IInv'
    BY <2>3, CallerConfirms
  <2>4. ASSUME NEW b \in signed, Execute(b)
        PROVE  IInv'
    BY <2>4, AttemptExecutes
  <2>5. CASE ChainMoves
    BY <2>5, ChainMovesOn
  <2>6. CASE UNCHANGED vars
    BY <2>6 DEF vars, chain, IInv, TypeOK, HeldPast, SignedPast, ExecutedBehind,
       HeldOutlived, SignedOutlived, AttemptsConflict, DoubleSendNeedsRaceOrMix, Past, Outlived
  <2> QED
    BY <2>1, <2>2, <2>3, <2>4, <2>5, <2>6 DEF Next, CallerStep, ChainMoves
<1> QED BY <1>1, <1>2, Typing, PTL DEF Spec

\* Every variable keeps its shape, and every outcome is one of a signed
\* attempt, whatever order reads, signatures and blocks come in.
THEOREM TypeCorrect == Spec => []TypeOK
BY Typing

\* A payment of an EVM account is paid twice only by attempts of two kinds,
\* of an account that has code, or if the owner's nonce moved on during the
\* fetch of the second: in every other case SafeFromDoubleSend keeps the
\* promise of src/tx.go:66-74.
THEOREM DoubleSendNeedsRace == Spec => []DoubleSendNeedsRaceOrMix
BY Inductive, PTL DEF IInv

----------------------------------------------------------------------------
\* What the abstract promise sees of a state.
Seen == <<[p \in Payments |-> {a \in executed : a.payment = p}], Exposed>>

\* A pair of attempts stays signed.
LEMMA ExposureStep ==
    ASSUME IInv, NEW p \in Payments, Sign(p)
    PROVE  Abstract!Expose(p) \/ UNCHANGED Seen
<1>1. UNCHANGED executed /\ signed \subseteq signed'
  BY DEF Sign
<1>2. \A q \in Payments : q # p => AttemptsOf(q)' = AttemptsOf(q)
  BY DEF Sign, AttemptsOf
<1>3. \A q \in Payments : q \in Exposed => q \in Exposed'
  BY <1>1 DEF Exposed, AttemptsOf
<1>4. \A q \in Payments : q # p => (q \in Exposed' <=> q \in Exposed)
  BY <1>2 DEF Exposed
<1>5. Exposed \subseteq Payments /\ Exposed' \subseteq Payments
  BY DEF Exposed
<1>6. Exposed' = Exposed \/ Exposed' = Exposed \cup {p}
  BY <1>3, <1>4, <1>5
<1> QED BY <1>1, <1>6 DEF Abstract!Expose, Seen

\* An attempt that executes pays a payment that is exposed or was not paid.
LEMMA PayStep ==
    ASSUME IInv, IInv', NEW b \in signed, Execute(b)
    PROVE  Abstract!Pay(b.payment)
<1> DEFINE paidBy == [p \in Payments |-> {a \in executed : a.payment = p}]
<1>1. b.payment \in Payments /\ executed \subseteq signed
  BY DEF IInv, TypeOK, Attempt
<1>2. executed' = executed \cup {b} /\ UNCHANGED signed
  BY DEF Execute, Include
<1>3. b \notin executed
  <2>1. b.input \in Input
    BY DEF IInv, TypeOK, Attempt
  <2>2. CASE b.input.sponsored
    BY <2>1, <2>2 DEF Execute, Include, Acceptable, IInv, ExecutedBehind, TypeOK, Input
  <2>3. CASE ~b.input.sponsored
    BY <2>1, <2>3 DEF Execute, Include, Acceptable, IInv, ExecutedBehind, TypeOK, Input
  <2> QED BY <2>2, <2>3
<1>4. paidBy[b.payment] = {} \/ b.payment \in Exposed
  <2> SUFFICES ASSUME NEW a \in executed, a.payment = b.payment
               PROVE  b.payment \in Exposed
    BY <1>1
  <2>1. RaceOrMix(a, b)
    BY <1>2, <1>3 DEF IInv, DoubleSendNeedsRaceOrMix
  <2> QED BY <2>1, <1>1, <1>3 DEF Exposed, AttemptsOf
<1>5. paidBy' = [paidBy EXCEPT ![b.payment] = @ \cup {b}]
  BY <1>1, <1>2
<1>6. b \in paidBy'[b.payment]
  BY <1>1, <1>2
<1>7. Exposed' = Exposed
  BY <1>2 DEF Exposed, AttemptsOf
<1> QED BY <1>4, <1>5, <1>6, <1>7 DEF Abstract!Pay

\* The wallet implements AtMostOnceUnless: every step pays a payment that was
\* not paid, or one that a race or a mix had exposed, or exposes one.
THEOREM Refinement == Spec => ImplementsAtMostOnceUnless
<1>1. Init => Abstract!Init
  BY DEF Init, Abstract!Init, Exposed, AttemptsOf
<1>2. IInv /\ IInv' /\ [Next]_vars => [Abstract!Next]_Seen
  <2> SUFFICES ASSUME IInv, IInv', [Next]_vars
               PROVE  Abstract!Next \/ UNCHANGED Seen
    OBVIOUS
  <2>1. CASE UNCHANGED <<executed, signed>>
    BY <2>1 DEF Seen, Exposed, AttemptsOf
  <2>2. ASSUME NEW p \in Payments, Sign(p)
        PROVE  Abstract!Next \/ UNCHANGED Seen
    BY <2>2, ExposureStep DEF Abstract!Next
  <2>3. ASSUME NEW b \in signed, Execute(b)
        PROVE  Abstract!Next
    <3>1. b.payment \in Payments
      BY DEF IInv, TypeOK, Attempt
    <3> QED BY <2>3, <3>1, PayStep DEF Abstract!Next
  <2>4. \/ UNCHANGED <<executed, signed>>
        \/ \E p \in Payments : Sign(p)
        \/ \E b \in signed : Execute(b)
    BY DEF Next, vars, FetchInput, FetchNonce, FetchPayerNonce, FetchBatchNonce, Confirm,
           Fail, Include, UseOutside
  <2> QED BY <2>1, <2>2, <2>3, <2>4
<1> QED BY <1>1, <1>2, Inductive, PTL
        DEF Spec, ImplementsAtMostOnceUnless, Abstract!Spec, Seen

(***************************************************************************)
(* The owner who pays alone.  Inputs without a fee payer agree in its      *)
(* nonce and were read in one request, so there is neither race nor mix.   *)
(***************************************************************************)
PaidBy == [p \in Payments |-> {a \in executed : a.payment = p}]

Promise == INSTANCE AtMostOnce
    WITH paidBy <- [p \in Payments |-> {a \in executed : a.payment = p}]

Plain ==
    /\ \A p \in Payments :
          /\ held[p].stage \notin {"nonce", "payer"}
          /\ held[p].stage = "ready" =>
                held[p].input.sponsored = FALSE /\ held[p].input.payerNonce = 0
    /\ \A a \in signed : a.input.sponsored = FALSE /\ a.input.payerNonce = 0

\* A caller that never names a fee payer fetches no input with one.
LEMMA PlainStays ==
    ASSUME TRUE \notin Kinds, IInv, Plain, [Next]_vars
    PROVE  Plain'
<1>1. ASSUME NEW p \in Payments, FetchInput(p) PROVE Plain'
  BY <1>1 DEF FetchInput, Plain, IInv, TypeOK
<1>2. \A p \in Payments : ~FetchNonce(p) /\ ~FetchPayerNonce(p) /\ ~FetchBatchNonce(p)
  BY DEF FetchNonce, FetchPayerNonce, FetchBatchNonce, Plain
<1>3. ASSUME NEW p \in Payments, Sign(p) PROVE Plain'
  BY <1>3 DEF Sign, Plain, IInv, TypeOK, NoInput
<1>4. ASSUME NEW p \in Payments, Confirm(p) PROVE Plain'
  BY <1>4 DEF Confirm, Plain, IInv, TypeOK, NoInput
<1>5. CASE UNCHANGED <<held, signed>>
  BY <1>5 DEF Plain
<1> QED BY <1>1, <1>2, <1>3, <1>4, <1>5 DEF Next, vars, Execute, Fail, Include, UseOutside

\* An account whose payments name no fee payer pays every payment once at
\* most, also when another wallet uses its nonces and whatever the network
\* delivers and however late: the promise of src/tx.go:66-74.
THEOREM PlainPaymentsKeepPromise ==
    ASSUME TRUE \notin Kinds
    PROVE  Spec => Promise!Spec
<1>1. Init => Plain /\ Promise!Init
  BY DEF Init, Plain, NoInput, Promise!Init
<1>2. IInv /\ Plain /\ [Next]_vars => Plain'
  BY PlainStays
<1>3. Plain => Exposed = {}
  <2> SUFFICES ASSUME Plain, NEW a \in signed, NEW b \in signed, RaceOrMix(a, b)
               PROVE  FALSE
    BY DEF Exposed, AttemptsOf
  <2>1. \A x \in {a, b} : x.input.sponsored = FALSE /\ x.input.payerNonce = 0
    BY DEF Plain
  <2>2. \A x, y \in {a, b} : ~(x.input.payerNonce < y.input.payerNonce)
    BY <2>1
  <2> QED BY <2>1, <2>2 DEF RaceOrMix
<1>4. Exposed = {} /\ [Abstract!Next]_Seen => [Promise!Next]_PaidBy
  <2> SUFFICES ASSUME Exposed = {}, [Abstract!Next]_Seen
               PROVE  Promise!Next \/ UNCHANGED PaidBy
    OBVIOUS
  <2>1. ASSUME NEW p \in Payments, Abstract!Pay(p)
        PROVE  Promise!Next
    <3>1. PaidBy[p] = {} /\ \E a \in PaidBy'[p] : PaidBy' = [PaidBy EXCEPT ![p] = @ \cup {a}]
      BY <2>1 DEF Abstract!Pay, PaidBy
    <3>2. [PaidBy EXCEPT ![p] = {}] = PaidBy
      BY <3>1 DEF PaidBy
    <3>3. \A a : PaidBy[p] \cup {a} = {a}
      BY <3>1
    <3>4. \E a \in PaidBy'[p] : PaidBy' = [PaidBy EXCEPT ![p] = {a}]
      BY <3>1, <3>3
    <3> QED BY <3>1, <3>4 DEF Promise!Pay, Promise!Next, PaidBy
  <2>2. ASSUME NEW p \in Payments, Abstract!Expose(p)
        PROVE  UNCHANGED PaidBy
    BY <2>2 DEF Abstract!Expose, PaidBy
  <2>3. CASE UNCHANGED Seen
    BY <2>3 DEF Seen, PaidBy
  <2> QED BY <2>1, <2>2, <2>3 DEF Abstract!Next
<1>5. Spec => [][Abstract!Next]_Seen
  BY Refinement, PTL DEF ImplementsAtMostOnceUnless, Abstract!Spec, Seen
<1> QED BY <1>1, <1>2, <1>3, <1>4, <1>5, Inductive, PTL DEF Spec, Promise!Spec, PaidBy

(***************************************************************************)
(* Payments beside each other, while nobody else uses the two accounts.    *)
(* Each number that is gone was used by an attempt, and an attempt of      *)
(* another payment has other numbers: IndependentOf compares the owner's   *)
(* and the fee payer's.  It does not compare the batch's, but that one     *)
(* moves only with the fee payer's, which was read before it.              *)
(***************************************************************************)
PaymentsApart ==
    \A a, b \in signed : a.payment # b.payment => IndependentOf(a.input, b.input)

Quiet == outside.nonce + outside.payerNonce = 0

\* Each number of the two accounts has a user.
NumbersHaveUsers ==
    Quiet => /\ \A n \in Nat : n < nonce => \E a \in Included : a.input.nonce = n
             /\ \A n \in Nat : n < payerNonce =>
                   \E a \in Included : a.input.sponsored /\ a.input.payerNonce = n

\* The smart account counts nothing before it exists.
CodeBeforeBatch == ~delegated => batchNonce = 0

\* An input whose fee payer's nonce is the next one has the batch's next.
InStep(i) == i.sponsored /\ i.payerNonce = payerNonce => i.batchNonce = batchNonce

HeldInStep == \A p \in Payments : held[p].stage = "ready" => InStep(held[p].input)

SignedInStep == \A a \in signed : InStep(a.input)

CrossInv == PaymentsApart /\ NumbersHaveUsers /\ CodeBeforeBatch /\ HeldInStep /\ SignedInStep

LEMMA CrossInvImplies == IInv /\ CrossInv => NoCrossInvalidation
<1> SUFFICES ASSUME IInv, CrossInv, NEW b \in signed \ Included, Dead(b.input),
                    ~(outside.nonce + outside.payerNonce > 0),
                    \A a \in Included : a.payment # b.payment
             PROVE  FALSE
  BY DEF NoCrossInvalidation
<1>1. b.input \in Input /\ Past(b.input)
  BY DEF IInv, TypeOK, Attempt, SignedPast
<1>2. Quiet
  <2>1. outside.nonce \in Nat /\ outside.payerNonce \in Nat
    BY DEF IInv, TypeOK
  <2> QED BY <2>1 DEF Quiet
<1>3. \A a \in Included : IndependentOf(a.input, b.input)
  BY DEF CrossInv, PaymentsApart, Included, IInv, TypeOK
<1>4. ~(b.input.nonce < nonce)
  BY <1>1, <1>2, <1>3 DEF CrossInv, NumbersHaveUsers, IndependentOf, Input
<1>5. b.input.sponsored => ~(b.input.payerNonce < payerNonce)
  BY <1>1, <1>2, <1>3 DEF CrossInv, NumbersHaveUsers, IndependentOf, Input
<1>6. b.input.sponsored => b.input.batchNonce = batchNonce
  BY <1>1, <1>5 DEF CrossInv, SignedInStep, InStep, Past, Input, IInv, TypeOK
<1> QED BY <1>1, <1>4, <1>5, <1>6 DEF Dead, Input, IInv, TypeOK

----------------------------------------------------------------------------
\* The batch's nonce is read last, so an input is in step when it is ready.
LEMMA ReadsKeepApart ==
    ASSUME IInv, CrossInv, NEW p \in Payments, CallerStep(p) \/ Confirm(p)
    PROVE  CrossInv'
<1>1. UNCHANGED <<nonce, payerNonce, delegated, batchNonce, signed, executed, failed, outside>>
  BY DEF CallerStep, FetchInput, FetchNonce, FetchPayerNonce, FetchBatchNonce, Confirm, chain
<1>2. PaymentsApart' /\ NumbersHaveUsers' /\ CodeBeforeBatch' /\ SignedInStep'
  BY <1>1 DEF CrossInv, PaymentsApart, NumbersHaveUsers, Quiet, Included, CodeBeforeBatch,
     SignedInStep, InStep
<1>3. \A q \in Payments : q # p => held'[q] = held[q]
  BY DEF CallerStep, FetchInput, FetchNonce, FetchPayerNonce, FetchBatchNonce, Confirm,
     IInv, TypeOK
<1>4. held'[p].stage = "ready" => InStep(held'[p].input)
  <2>1. CASE FetchInput(p)
    <3>1. held'[p].input.sponsored = FALSE
      BY <2>1 DEF FetchInput, IInv, TypeOK
    <3> QED BY <3>1 DEF InStep
  <2>2. CASE FetchNonce(p) \/ FetchPayerNonce(p) \/ Confirm(p)
    <3>1. CASE FetchNonce(p)
      BY <3>1 DEF FetchNonce, IInv, TypeOK
    <3>2. CASE FetchPayerNonce(p)
      BY <3>2 DEF FetchPayerNonce, IInv, TypeOK
    <3>3. CASE Confirm(p)
      BY <3>3 DEF Confirm, NoInput, IInv, TypeOK
    <3> QED BY <2>2, <3>1, <3>2, <3>3
  <2>3. CASE FetchBatchNonce(p)
    <3>1. held'[p].input.batchNonce = BatchNonceRead
      BY <2>3 DEF FetchBatchNonce, IInv, TypeOK
    <3>2. BatchNonceRead = batchNonce
      BY DEF BatchNonceRead, CrossInv, CodeBeforeBatch
    <3> QED BY <3>1, <3>2 DEF InStep
  <2> QED BY <2>1, <2>2, <2>3 DEF CallerStep
<1>5. HeldInStep'
  <2> SUFFICES ASSUME NEW q \in Payments, held'[q].stage = "ready"
               PROVE  InStep(held'[q].input)
    BY <1>1 DEF HeldInStep, InStep
  <2>1. CASE q = p
    BY <2>1, <1>4
  <2>2. CASE q # p
    BY <2>2, <1>3 DEF CrossInv, HeldInStep
  <2> QED BY <2>1, <2>2
<1> QED BY <1>2, <1>5 DEF CrossInv

\* The rule IndependentOf is used here.
LEMMA SignKeepsApart ==
    ASSUME IInv, CrossInv, NEW p \in Payments, Sign(p)
    PROVE  CrossInv'
<1>1. PICK t \in 1 .. MaxTries :
         signed' = signed \cup {[payment |-> p, input |-> held[p].input, try |-> t]}
  BY DEF Sign
<1> DEFINE new == [payment |-> p, input |-> held[p].input, try |-> t]
<1>2. /\ UNCHANGED <<nonce, payerNonce, delegated, batchNonce, executed, failed, outside>>
      /\ held[p].stage = "ready" /\ MaySign(p, held[p].input)
  BY DEF Sign, chain
<1>3. \A q \in Payments : held'[q].stage = "ready" => held'[q] = held[q]
  BY DEF Sign, NoInput, IInv, TypeOK
<1>4. PaymentsApart'
  <2>1. \A a \in signed : a.payment # p => /\ IndependentOf(new.input, a.input)
                                          /\ IndependentOf(a.input, new.input)
    BY <1>2 DEF MaySign, IndependentOf
  <2> QED BY <1>1, <2>1 DEF PaymentsApart, CrossInv
<1>5. NumbersHaveUsers' /\ CodeBeforeBatch'
  BY <1>2 DEF CrossInv, NumbersHaveUsers, Quiet, Included, CodeBeforeBatch
<1>6. HeldInStep'
  BY <1>2, <1>3 DEF CrossInv, HeldInStep, InStep
<1>7. SignedInStep'
  BY <1>1, <1>2 DEF CrossInv, HeldInStep, SignedInStep, InStep
<1> QED BY <1>4, <1>5, <1>6, <1>7 DEF CrossInv

\* An attempt that is included is the user of the numbers it uses up.
LEMMA ChainKeepsApart ==
    ASSUME IInv, CrossInv, TypeOK', NEW a \in signed, Execute(a) \/ Fail(a)
    PROVE  CrossInv'
<1>1. /\ UNCHANGED <<held, signed, outside>> /\ Included' = Included \cup {a}
      /\ Acceptable(a.input)
  BY DEF Execute, Fail, Include, Included
<1>2. a.input \in Input
  BY DEF IInv, TypeOK, Attempt
<1>3. /\ nonce' = nonce \/ (nonce' = nonce + 1 /\ a.input.nonce = nonce)
      /\ \/ ~a.input.sponsored /\ payerNonce' = payerNonce /\ batchNonce' = batchNonce
         \/ a.input.sponsored /\ payerNonce' = payerNonce + 1 /\ a.input.payerNonce = payerNonce
  BY DEF Execute, Fail, Include, Acceptable, Authorizes
<1>4. nonce \in Nat /\ payerNonce \in Nat
  BY DEF IInv, TypeOK
<1>5. NumbersHaveUsers'
  <2> SUFFICES ASSUME Quiet
               PROVE  /\ \A n \in Nat : n < nonce' => \E b \in Included' : b.input.nonce = n
                      /\ \A n \in Nat : n < payerNonce' =>
                            \E b \in Included' : b.input.sponsored /\ b.input.payerNonce = n
    BY <1>1 DEF NumbersHaveUsers, Quiet
  <2>1. ASSUME NEW n \in Nat, n < nonce'
        PROVE  \E b \in Included' : b.input.nonce = n
    <3>1. CASE n < nonce
      BY <3>1, <1>1 DEF CrossInv, NumbersHaveUsers
    <3>2. CASE ~(n < nonce)
      <4>1. a.input.nonce = n
        BY <2>1, <3>2, <1>3, <1>4
      <4> QED BY <4>1, <1>1
    <3> QED BY <3>1, <3>2
  <2>2. ASSUME NEW n \in Nat, n < payerNonce'
        PROVE  \E b \in Included' : b.input.sponsored /\ b.input.payerNonce = n
    <3>1. CASE n < payerNonce
      BY <3>1, <1>1 DEF CrossInv, NumbersHaveUsers
    <3>2. CASE ~(n < payerNonce)
      <4>1. a.input.sponsored /\ a.input.payerNonce = n
        BY <2>2, <3>2, <1>3, <1>4
      <4> QED BY <4>1, <1>1
    <3> QED BY <3>1, <3>2
  <2> QED BY <2>1, <2>2
<1>6. CodeBeforeBatch'
  BY DEF Execute, Fail, Include, BatchAccepted, CrossInv, CodeBeforeBatch, IInv, TypeOK
<1>7. ASSUME NEW i \in Input, Past(i), InStep(i)
      PROVE  InStep(i)'
  <2>1. i.payerNonce \in Nat /\ i.payerNonce <= payerNonce
    BY <1>7 DEF Past, Input
  <2> QED BY <1>3, <1>4, <1>7, <2>1 DEF InStep
<1>8. HeldInStep'
  BY <1>1, <1>7, HeldTyped DEF CrossInv, HeldInStep, IInv, HeldPast
<1>9. SignedInStep'
  <2>1. \A b \in signed : b.input \in Input
    BY DEF IInv, TypeOK, Attempt
  <2> QED BY <1>1, <1>7, <2>1 DEF CrossInv, SignedInStep, IInv, SignedPast
<1>10. PaymentsApart'
  BY <1>1 DEF CrossInv, PaymentsApart
<1> QED BY <1>5, <1>6, <1>8, <1>9, <1>10 DEF CrossInv

\* Somebody else's transaction ends the quiet, and is no batch.
LEMMA OutsideKeepsApart ==
    ASSUME IInv, CrossInv, TypeOK', UseOutside
    PROVE  CrossInv'
<1>1. UNCHANGED <<delegated, batchNonce, held, signed>>
  BY DEF UseOutside
<1>2. payerNonce' = payerNonce \/ payerNonce' = payerNonce + 1
  BY DEF UseOutside
<1>3. ~Quiet'
  BY DEF UseOutside, Quiet, IInv, TypeOK
<1>4. ASSUME NEW i \in Input, Past(i), InStep(i)
      PROVE  InStep(i)'
  <2>1. i.payerNonce \in Nat /\ i.payerNonce <= payerNonce /\ payerNonce \in Nat
    BY <1>4 DEF Past, Input, IInv, TypeOK
  <2> QED BY <1>1, <1>2, <1>4, <2>1 DEF InStep
<1>5. HeldInStep'
  BY <1>1, <1>4, HeldTyped DEF CrossInv, HeldInStep, IInv, HeldPast
<1>6. SignedInStep'
  <2>1. \A b \in signed : b.input \in Input
    BY DEF IInv, TypeOK, Attempt
  <2> QED BY <1>1, <1>4, <2>1 DEF CrossInv, SignedInStep, IInv, SignedPast
<1>7. PaymentsApart' /\ CodeBeforeBatch' /\ NumbersHaveUsers'
  BY <1>1, <1>3 DEF CrossInv, PaymentsApart, CodeBeforeBatch, NumbersHaveUsers
<1> QED BY <1>5, <1>6, <1>7 DEF CrossInv

\* Payments stay apart.
LEMMA KeptApart == Spec => []CrossInv
<1>1. Init => CrossInv
  BY DEF Init, NoInput, CrossInv, PaymentsApart, NumbersHaveUsers, CodeBeforeBatch,
     HeldInStep, SignedInStep
<1>2. IInv /\ CrossInv /\ TypeOK' /\ [Next]_vars => CrossInv'
  <2> SUFFICES ASSUME IInv, CrossInv, TypeOK', [Next]_vars
               PROVE  CrossInv'
    OBVIOUS
  <2>1. CASE UNCHANGED vars
    BY <2>1 DEF vars, chain, CrossInv, PaymentsApart, NumbersHaveUsers, Quiet, Included,
       CodeBeforeBatch, HeldInStep, SignedInStep, InStep
  <2> QED
    BY <2>1, ReadsKeepApart, SignKeepsApart, ChainKeepsApart, OutsideKeepsApart
    DEF Next, CallerStep
<1> QED BY <1>1, <1>2, Typing, Inductive, PTL DEF Spec, IInv

\* A payment signed beside others becomes impossible only through an attempt
\* of its own or somebody outside, with and without fee payers.
THEOREM PaymentsDoNotCollide == Spec => []NoCrossInvalidation
BY Inductive, KeptApart, CrossInvImplies, PTL

(***************************************************************************)
(* Nobody is stuck.  What a fresh input could conflict with is an attempt  *)
(* that names the next number of the owner or of the fee payer.  If the    *)
(* chain cannot include it, its fee payer's nonce is gone, and then so is  *)
(* the owner's, which was read before it: each inclusion either uses the   *)
(* owner's next number, or names one that an attempt of the same payment   *)
(* had used, with which every other attempt must share a number, too.      *)
(***************************************************************************)
\* The owner's number is gone, or no attempt with these numbers can be signed
\* after u unless it shares the owner's number with d, which is gone.
Late(n, payers) ==
    \/ n < nonce
    \/ \E u, d \in Included :
          /\ u.input.sponsored /\ u.input.payerNonce = payers
          /\ d.payment = u.payment /\ d.input.nonce < nonce
          /\ ~(d.input.sponsored /\ d.input.payerNonce = payers)

HeldLate ==
    Quiet => \A p \in Payments :
        /\ (held[p].stage = "payer" /\ held[p].payerNonce < payerNonce) =>
              Late(held[p].nonce, held[p].payerNonce)
        /\ (/\ held[p].stage = "ready" /\ held[p].input.sponsored
            /\ held[p].input.payerNonce < payerNonce) =>
              Late(held[p].input.nonce, held[p].input.payerNonce)

\* No signed attempt names a fee payer's nonce that is gone and an owner's
\* that is not.
SignedLate ==
    Quiet => \A a \in signed :
        (a.input.sponsored /\ a.input.payerNonce < payerNonce) => a.input.nonce < nonce

\* An included attempt is behind the nonce of the account that sent it.
IncludedBehind ==
    \A a \in Included :
        IF a.input.sponsored THEN a.input.payerNonce < payerNonce ELSE a.input.nonce < nonce

FreeInv == HeldLate /\ SignedLate /\ IncludedBehind

LEMMA FreeInvImplies == IInv /\ CrossInv /\ FreeInv => NobodyIsStuck
<1> SUFFICES ASSUME IInv, CrossInv, FreeInv, Quiet, NEW p \in Payments,
                    \A a \in Included : a.payment # p,
                    \A a \in signed \ Included : ~Acceptable(a.input),
                    NEW k \in Kinds, NEW a \in signed
             PROVE  IF a.payment = p THEN SafeFromDoubleSend(FreshInput(k), a.input)
                                     ELSE IndependentOf(FreshInput(k), a.input)
  BY DEF NobodyIsStuck, MaySign, Quiet
<1>1. a.input \in Input /\ Past(a.input) /\ nonce \in Nat /\ payerNonce \in Nat
  BY DEF IInv, TypeOK, Attempt, SignedPast
<1>2. IF a.input.sponsored THEN a.input.payerNonce < payerNonce ELSE a.input.nonce < nonce
  <2>1. CASE a \in Included
    BY <2>1 DEF FreeInv, IncludedBehind
  <2>2. CASE a \notin Included
    BY <2>2, <1>1 DEF Acceptable, Past, Input
  <2> QED BY <2>1, <2>2
<1>3. a.input.nonce < nonce
  BY <1>2 DEF FreeInv, SignedLate
<1>4. a.payment # p
  <2> SUFFICES ASSUME a.payment = p PROVE FALSE
    OBVIOUS
  <2>1. PICK u \in Included :
           IF a.input.sponsored THEN u.input.sponsored /\ u.input.payerNonce = a.input.payerNonce
                                ELSE u.input.nonce = a.input.nonce
    BY <1>1, <1>2 DEF CrossInv, NumbersHaveUsers, Input
  <2>2. u \in signed /\ u.payment # a.payment
    BY DEF Included, IInv, TypeOK
  <2>3. IndependentOf(u.input, a.input)
    BY <2>2 DEF CrossInv, PaymentsApart
  <2> QED BY <2>1, <2>3 DEF IndependentOf
<1>5. IndependentOf(FreshInput(k), a.input)
  BY <1>1, <1>2, <1>3 DEF IndependentOf, FreshInput, Input
<1> QED BY <1>4, <1>5

----------------------------------------------------------------------------
\* The fee payer's nonce is the next one when it is read.
LEMMA ReadsLeaveFree ==
    ASSUME IInv, FreeInv, NEW p \in Payments, CallerStep(p) \/ Confirm(p)
    PROVE  FreeInv'
<1>1. UNCHANGED <<nonce, payerNonce, signed, executed, failed, outside>>
  BY DEF CallerStep, FetchInput, FetchNonce, FetchPayerNonce, FetchBatchNonce, Confirm, chain
<1>2. SignedLate' /\ IncludedBehind'
  BY <1>1 DEF FreeInv, SignedLate, IncludedBehind, Included, Quiet
<1>3. \A q \in Payments : q # p => held'[q] = held[q]
  BY DEF CallerStep, FetchInput, FetchNonce, FetchPayerNonce, FetchBatchNonce, Confirm,
     IInv, TypeOK
<1>4. \A n, m : Late(n, m)' <=> Late(n, m)
  BY <1>1 DEF Late, Included
<1> SUFFICES ASSUME Quiet, NEW q \in Payments
             PROVE  /\ (held'[q].stage = "payer" /\ held'[q].payerNonce < payerNonce) =>
                          Late(held'[q].nonce, held'[q].payerNonce)
                    /\ (/\ held'[q].stage = "ready" /\ held'[q].input.sponsored
                        /\ held'[q].input.payerNonce < payerNonce) =>
                          Late(held'[q].input.nonce, held'[q].input.payerNonce)
  BY <1>1, <1>2, <1>4 DEF FreeInv, HeldLate, Quiet
<1>5. CASE q # p
  BY <1>5, <1>3 DEF FreeInv, HeldLate
<1>6. CASE q = p /\ FetchInput(p)
  <2>1. held'[q].stage = "ready" /\ held'[q].input.sponsored = FALSE
    BY <1>6 DEF FetchInput, IInv, TypeOK
  <2> QED BY <2>1
<1>7. CASE q = p /\ FetchNonce(p)
  <2>1. held'[q].stage = "nonce"
    BY <1>7 DEF FetchNonce, IInv, TypeOK
  <2> QED BY <2>1
<1>8. CASE q = p /\ FetchPayerNonce(p)
  <2>1. held'[q].stage = "payer" /\ held'[q].payerNonce = payerNonce
    BY <1>8 DEF FetchPayerNonce, IInv, TypeOK
  <2>2. payerNonce \in Nat
    BY DEF IInv, TypeOK
  <2> QED BY <2>1, <2>2
<1>9. CASE q = p /\ FetchBatchNonce(p)
  <2>1. /\ held[q].stage = "payer" /\ held'[q].stage = "ready"
        /\ held'[q].input.nonce = held[q].nonce
        /\ held'[q].input.payerNonce = held[q].payerNonce
    BY <1>9 DEF FetchBatchNonce, IInv, TypeOK
  <2> QED BY <2>1 DEF FreeInv, HeldLate
<1>10. CASE q = p /\ Confirm(p)
  <2>1. held'[q].stage = "none"
    BY <1>10 DEF Confirm, NoInput, IInv, TypeOK
  <2> QED BY <2>1
<1> QED BY <1>5, <1>6, <1>7, <1>8, <1>9, <1>10 DEF CallerStep

\* Both rules are used here: a late input is refused beside another payment's
\* u, and against its own payment's d it must share the owner's number.
LEMMA SignLeavesFree ==
    ASSUME IInv, FreeInv, NEW p \in Payments, Sign(p)
    PROVE  FreeInv'
<1>1. PICK t \in 1 .. MaxTries :
         signed' = signed \cup {[payment |-> p, input |-> held[p].input, try |-> t]}
  BY DEF Sign
<1> DEFINE i == held[p].input
<1>2. /\ UNCHANGED <<nonce, payerNonce, executed, failed, outside>>
      /\ held[p].stage = "ready" /\ MaySign(p, i)
  BY DEF Sign, chain
<1>3. \A q \in Payments : held'[q].stage \in {"ready", "payer"} => held'[q] = held[q]
  BY DEF Sign, NoInput, IInv, TypeOK
<1>4. HeldLate'
  BY <1>2, <1>3 DEF FreeInv, HeldLate, Late, Included, Quiet
<1>5. SignedLate'
  <2> SUFFICES ASSUME Quiet, i.sponsored, i.payerNonce < payerNonce
               PROVE  i.nonce < nonce
    BY <1>1, <1>2 DEF FreeInv, SignedLate, Quiet
  <2>1. CASE ~(i.nonce < nonce)
    <3>1. PICK u, d \in Included :
             /\ u.input.sponsored /\ u.input.payerNonce = i.payerNonce
             /\ d.payment = u.payment /\ d.input.nonce < nonce
             /\ ~(d.input.sponsored /\ d.input.payerNonce = i.payerNonce)
      BY <2>1, <1>2 DEF FreeInv, HeldLate, Late
    <3>2. u \in signed /\ d \in signed
      BY DEF Included, IInv, TypeOK
    <3>3. u.payment = p
      BY <1>2, <3>1, <3>2 DEF MaySign, IndependentOf
    <3>4. ~IndependentOf(i, d.input)
      BY <1>2, <3>1, <3>2, <3>3 DEF MaySign, SafeFromDoubleSend
    <3>5. i.nonce = d.input.nonce
      BY <3>1, <3>4 DEF IndependentOf
    <3> QED BY <3>1, <3>5
  <2> QED BY <2>1
<1>6. IncludedBehind'
  BY <1>2 DEF FreeInv, IncludedBehind, Included
<1> QED BY <1>4, <1>5, <1>6 DEF FreeInv

\* Where an inclusion leaves the owner's next number alone, an earlier attempt
\* of the same payment used the number it names.
LEMMA ChainLeavesFree ==
    ASSUME IInv, CrossInv, FreeInv, NEW a \in signed, Execute(a) \/ Fail(a)
    PROVE  FreeInv'
<1>1. /\ UNCHANGED <<held, signed, outside>> /\ Included' = Included \cup {a}
      /\ Acceptable(a.input)
  BY DEF Execute, Fail, Include, Included
<1>2. /\ a.input \in Input /\ Past(a.input) /\ nonce \in Nat /\ payerNonce \in Nat
      /\ \A b \in signed : b.input \in Input /\ Past(b.input)
  BY DEF IInv, TypeOK, Attempt, SignedPast
<1>3. IF a.input.sponsored
      THEN /\ payerNonce' = payerNonce + 1 /\ a.input.payerNonce = payerNonce
           /\ nonce' = IF a.input.nonce = nonce THEN nonce + 1 ELSE nonce
      ELSE payerNonce' = payerNonce /\ nonce' = nonce + 1 /\ a.input.nonce = nonce
  BY DEF Execute, Fail, Include, Acceptable, Authorizes
<1>4. nonce <= nonce' /\ nonce' \in Nat /\ payerNonce <= payerNonce' /\ payerNonce' \in Nat
  BY <1>2, <1>3
<1>5. IncludedBehind'
  <2> SUFFICES ASSUME NEW b \in Included'
               PROVE  IF b.input.sponsored THEN b.input.payerNonce < payerNonce'
                                           ELSE b.input.nonce < nonce'
    BY DEF IncludedBehind
  <2>1. CASE b = a
    BY <2>1, <1>2, <1>3
  <2>2. CASE b \in Included
    <3>1. b.input \in Input
      BY <2>2, <1>2 DEF Included, IInv, TypeOK
    <3> QED BY <2>2, <3>1, <1>2, <1>4 DEF FreeInv, IncludedBehind, Input
  <2> QED BY <2>1, <2>2, <1>1
<1>6. ASSUME Quiet, a.input.sponsored, a.input.nonce # nonce
      PROVE  \E d \in Included : /\ d.payment = a.payment /\ d.input.nonce = a.input.nonce
                                /\ d.input.nonce < nonce
                                /\ ~(d.input.sponsored /\ d.input.payerNonce = payerNonce)
  <2>1. a.input.nonce < nonce
    BY <1>2, <1>6 DEF Past, Input
  <2>2. PICK d \in Included : d.input.nonce = a.input.nonce
    BY <1>2, <1>6, <2>1 DEF CrossInv, NumbersHaveUsers, Input
  <2>3. d \in signed
    BY DEF Included, IInv, TypeOK
  <2>4. d.payment = a.payment
    BY <2>2, <2>3 DEF CrossInv, PaymentsApart, IndependentOf
  <2>5. d.input.sponsored => d.input.payerNonce < payerNonce
    BY DEF FreeInv, IncludedBehind
  <2> QED BY <1>2, <2>1, <2>2, <2>4, <2>5
<1>7. ASSUME NEW n \in Nat, NEW m \in Nat, n <= nonce, m < payerNonce', Quiet,
             m < payerNonce => Late(n, m)
      PROVE  Late(n, m)'
  <2>1. CASE m < payerNonce
    <3>1. \A d \in Included : d.input.nonce < nonce => d.input.nonce < nonce'
      BY <1>2, <1>4 DEF Included, IInv, TypeOK, Input
    <3>2. n < nonce => n < nonce'
      BY <1>2, <1>4
    <3> QED BY <2>1, <1>1, <1>7, <3>1, <3>2 DEF Late
  <2>2. CASE ~(m < payerNonce)
    <3>1. a.input.sponsored /\ m = payerNonce /\ a.input.payerNonce = m
      BY <2>2, <1>2, <1>3, <1>7
    <3>2. CASE a.input.nonce = nonce
      BY <3>1, <3>2, <1>2, <1>3, <1>7 DEF Late
    <3>3. CASE a.input.nonce # nonce
      <4>1. nonce' = nonce
        BY <3>1, <3>3, <1>3
      <4> QED BY <3>1, <3>3, <4>1, <1>1, <1>6, <1>7 DEF Late
    <3> QED BY <3>2, <3>3
  <2> QED BY <2>1, <2>2
<1>8. HeldLate'
  <2> SUFFICES ASSUME Quiet, NEW q \in Payments
               PROVE  /\ (held[q].stage = "payer" /\ held[q].payerNonce < payerNonce') =>
                            Late(held[q].nonce, held[q].payerNonce)'
                      /\ (/\ held[q].stage = "ready" /\ held[q].input.sponsored
                          /\ held[q].input.payerNonce < payerNonce') =>
                            Late(held[q].input.nonce, held[q].input.payerNonce)'
    BY <1>1 DEF HeldLate, Quiet
  <2>1. ASSUME held[q].stage = "payer", held[q].payerNonce < payerNonce'
        PROVE  Late(held[q].nonce, held[q].payerNonce)'
    <3>1. held[q].nonce \in Nat /\ held[q].payerNonce \in Nat /\ held[q].nonce <= nonce
      BY <2>1, HeldTyped DEF IInv, HeldPast
    <3>2. held[q].payerNonce < payerNonce => Late(held[q].nonce, held[q].payerNonce)
      BY <2>1 DEF FreeInv, HeldLate
    <3> QED BY <2>1, <3>1, <3>2, <1>1, <1>7
  <2>2. ASSUME held[q].stage = "ready", held[q].input.sponsored,
               held[q].input.payerNonce < payerNonce'
        PROVE  Late(held[q].input.nonce, held[q].input.payerNonce)'
    <3>1. held[q].input \in Input /\ held[q].input.nonce <= nonce
      BY <2>2, HeldTyped DEF IInv, HeldPast, Past
    <3>2. held[q].input.payerNonce < payerNonce =>
             Late(held[q].input.nonce, held[q].input.payerNonce)
      BY <2>2 DEF FreeInv, HeldLate
    <3> QED BY <2>2, <3>1, <3>2, <1>1, <1>7 DEF Input
  <2> QED BY <2>1, <2>2
<1>9. SignedLate'
  <2> SUFFICES ASSUME Quiet, NEW b \in signed, b.input.sponsored,
                      b.input.payerNonce < payerNonce'
               PROVE  b.input.nonce < nonce'
    BY <1>1 DEF SignedLate, Quiet
  <2>1. CASE b.input.payerNonce < payerNonce
    BY <2>1, <1>2, <1>4 DEF FreeInv, SignedLate, Input
  <2>2. CASE ~(b.input.payerNonce < payerNonce)
    <3>1. a.input.sponsored /\ b.input.payerNonce = a.input.payerNonce
          /\ a.input.payerNonce = payerNonce
      BY <2>2, <1>2, <1>3 DEF Input
    <3>2. CASE a.input.nonce = nonce
      BY <3>1, <3>2, <1>2, <1>3 DEF Past, Input
    <3>3. CASE a.input.nonce # nonce
      <4>1. PICK d \in Included : /\ d.payment = a.payment /\ d.input.nonce < nonce
                                  /\ ~(d.input.sponsored /\ d.input.payerNonce = payerNonce)
        BY <3>1, <3>3, <1>6
      <4>2. b.payment = a.payment
        BY <3>1 DEF CrossInv, PaymentsApart, IndependentOf
      <4>3. b = d \/ ~IndependentOf(b.input, d.input)
        BY <4>1, <4>2 DEF IInv, AttemptsConflict, Included, TypeOK
      <4>4. b.input.nonce = d.input.nonce
        BY <3>1, <4>1, <4>3 DEF IndependentOf
      <4> QED BY <4>1, <4>4, <3>1, <3>3, <1>3
    <3> QED BY <3>2, <3>3
  <2> QED BY <2>1, <2>2
<1> QED BY <1>5, <1>8, <1>9 DEF FreeInv

\* Nobody is stuck while nobody else uses the accounts: what stands in the way
\* of a payment can be included.
THEOREM ThereIsAWayOn == Spec => []NobodyIsStuck
<1>1. Init => FreeInv
  BY DEF Init, NoInput, FreeInv, HeldLate, SignedLate, IncludedBehind, Included
<1>2. IInv /\ CrossInv /\ FreeInv /\ [Next]_vars => FreeInv'
  <2> SUFFICES ASSUME IInv, CrossInv, FreeInv, [Next]_vars
               PROVE  FreeInv'
    OBVIOUS
  <2>1. CASE UNCHANGED vars
    BY <2>1 DEF vars, chain, FreeInv, HeldLate, SignedLate, IncludedBehind, Included, Quiet, Late
  <2>2. CASE UseOutside
    <3>1. ~Quiet'
      BY <2>2 DEF UseOutside, Quiet, IInv, TypeOK
    <3>2. IncludedBehind'
      BY <2>2 DEF UseOutside, FreeInv, IncludedBehind, Included, IInv, TypeOK, Attempt, Input
    <3> QED BY <3>1, <3>2 DEF FreeInv, HeldLate, SignedLate
  <2> QED
    BY <2>1, <2>2, ReadsLeaveFree, SignLeavesFree, ChainLeavesFree DEF Next, CallerStep
<1> QED BY <1>1, <1>2, Inductive, KeptApart, FreeInvImplies, PTL DEF Spec
=============================================================================
