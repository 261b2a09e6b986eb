------------------------- MODULE ObjectWalletProofs -------------------------
(***************************************************************************)
(* Proofs about ObjectWallet, for every set of payments, coins and bounds. *)
(*                                                                         *)
(* The argument.  Two attempts of a payment share an object, which the     *)
(* chain spends once; on Sui they may share none if their epochs differ,   *)
(* but then the earlier one had expired, unexecuted, when the later was    *)
(* signed.  What is spent never comes back: only the execution of an       *)
(* attempt makes its change, so nothing spends it before.                  *)
(***************************************************************************)
EXTENDS ObjectWallet, FiniteSetTheorems, TLAPS

Overlap(i, j) == Spends(i) \cap Spends(j) # {}

\* The attempts of a payment are numbered apart.
Numbered ==
    /\ \A a \in signed : a.try <= tries[a.payment]
    /\ \A a, b \in signed : Change(a) = Change(b) => a = b

\* Sui's inputs have a gas coin, and they have been read by now.
ReadBefore ==
    /\ driver = "sui" =>
         /\ \A p \in Payments : /\ fetched[p].asOf <= epoch /\ fetched[p].epoch <= epoch
                                /\ fetched[p].epoch # 0 => fetched[p].gas # NoGas
         /\ \A a \in signed : /\ a.input.asOf <= epoch /\ a.input.epoch <= epoch
                              /\ a.input.gas # NoGas
    /\ driver # "sui" =>
         /\ \A p \in Payments : fetched[p].gas = NoGas /\ fetched[p].asOf = 1
         /\ \A a \in signed : a.input.gas = NoGas

\* What an executed attempt spent is gone, and no other executed one spent it.
SpentIsGone ==
    /\ \A a \in executed : Spends(a.input) \cap (unspent \cup coming) = {}
    /\ \A a, b \in executed : Overlap(a.input, b.input) => a = b
    /\ pool \cap executed = {} /\ unspent \cap coming = {}

\* There is no change of an attempt that was not executed.
ChangeIsMade ==
    \A a \in signed :
        (\/ Change(a) \in unspent
         \/ \E b \in executed : Change(a) \in Spends(b.input)) => a \in executed

\* Nothing names the change of an attempt that was not signed.
ChangeIsKnown ==
    \A p \in Payments, n \in 1 .. MaxTries :
        (\/ <<p, n>> \in unspent
         \/ \E q \in Payments : <<p, n>> \in Spends(fetched[q])
         \/ \E b \in signed : <<p, n>> \in Spends(b.input)) => n <= tries[p]

\* Two attempts of a payment compete for an object or are of two epochs.
Competing ==
    \A a, b \in signed :
        (a.payment = b.payment /\ a # b) =>
            \/ Overlap(a.input, b.input)
            \/ driver = "sui" /\ a.input.epoch # b.input.epoch

\* Of two epochs, the attempt of the earlier one was not executed.
EarlierIsDead ==
    driver = "sui" =>
        \A a, b \in signed :
            (a.payment = b.payment /\ a.input.epoch < b.input.epoch) => a \notin executed

\* Attempts of two payments share nothing, but for the exceptions of Sui.
Apart ==
    \A a, b \in signed :
        (a.payment # b.payment /\ Overlap(a.input, b.input)) =>
            /\ driver = "sui"
            /\ \/ a.input.coins = {} \/ b.input.coins = {}
               \/ a.input.epoch # b.input.epoch

\* Coins read in an epoch are not spent by attempts of the epochs before.
ReadUnspent ==
    driver = "sui" =>
        \A a \in executed :
            /\ \A b \in signed :
                  a.input.epoch < b.input.asOf => ~Overlap(a.input, b.input)
            /\ \A p \in Payments :
                  (fetched[p].gas # NoGas /\ a.input.epoch < fetched[p].asOf)
                      => ~Overlap(a.input, fetched[p])

\* What names the change of an attempt names nothing that the attempt spent;
\* on Sui it names only the change of executed ones.
BuiltOnTop ==
    \A b \in signed :
        /\ \A p \in Payments : Change(b) \in Spends(fetched[p]) =>
              ~Overlap(b.input, fetched[p]) /\ (driver = "sui" => b \in executed)
        /\ \A a \in signed : Change(b) \in Spends(a.input) =>
              /\ driver # "sui" => a.payment # b.payment
              /\ driver = "sui" => b \in executed

IInv == /\ TypeOK /\ Numbered /\ ReadBefore /\ SpentIsGone /\ ChangeIsMade
        /\ ChangeIsKnown /\ Competing /\ EarlierIsDead /\ Apart /\ ReadUnspent
        /\ BuiltOnTop

----------------------------------------------------------------------------
\* What an input names are objects.
LEMMA SpendsObjects ==
    ASSUME NEW i \in Input
    PROVE  Spends(i) \subseteq Object
BY DEF Input, Spends

\* The change of an attempt is an object that is no coin, nor no gas coin.
LEMMA ChangeIsObject ==
    ASSUME NEW a \in Attempt
    PROVE  Change(a) \in Object /\ Change(a) \notin Coins /\ Change(a) # NoGas
BY ConstantsAssumption DEF Attempt, Change, Object

\* What is listed are objects, coins and change of attempts.
LEMMA ListedObjects ==
    ASSUME TypeOK
    PROVE  Listed \subseteq Object /\ NoGas \notin Listed
<1>1. unspent \subseteq Object /\ coming \subseteq Object
  BY DEF TypeOK, Object
<1>2. \A a \in pool : Change(a) \in Object
  BY ChangeIsObject DEF TypeOK
<1>3. NoGas \notin Object
  BY ConstantsAssumption DEF Object
<1> QED BY <1>1, <1>2, <1>3 DEF Listed

\* Typing: what is executed or in the pool was signed.
LEMMA Typing == Spec => []TypeOK
<1>1. Init => TypeOK
  <2>1. 1 \in 1 .. MaxEpoch
    BY ConstantsAssumption
  <2>2. NoInput \in Input
    BY <2>1, ConstantsAssumption DEF NoInput, Input
  <2> QED BY <2>1, <2>2, ConstantsAssumption DEF Init, TypeOK, Object
<1>2. TypeOK /\ [Next]_vars => TypeOK'
  <2> SUFFICES ASSUME TypeOK, [Next]_vars
               PROVE  TypeOK'
    OBVIOUS
  <2>0. MaxEpoch \in Nat \ {0} /\ 1 \in 1 .. MaxEpoch /\ epoch \in 1 .. MaxEpoch
    BY ConstantsAssumption DEF TypeOK
  <2>1. ASSUME NEW p \in Payments, FetchOutputs(p)
        PROVE  TypeOK'
    <3>1. PICK chosen \in (SUBSET Listed) \ {{}} :
             fetched' = [fetched EXCEPT ![p] =
                [coins |-> chosen, gas |-> NoGas, asOf |-> 1, epoch |-> 1]]
      BY <2>1 DEF FetchOutputs
    <3>2. [coins |-> chosen, gas |-> NoGas, asOf |-> 1, epoch |-> 1] \in Input
      BY <2>0, ListedObjects DEF Input
    <3> QED BY <2>1, <3>1, <3>2 DEF FetchOutputs, TypeOK
  <2>2. ASSUME NEW p \in Payments, FetchCoins(p)
        PROVE  TypeOK'
    <3>1. PICK gas \in Listed :
             fetched' = [fetched EXCEPT ![p] =
                [coins |-> Listed \ {gas}, gas |-> gas, asOf |-> epoch, epoch |-> 0]]
      BY <2>2 DEF FetchCoins
    <3>2. [coins |-> Listed \ {gas}, gas |-> gas, asOf |-> epoch, epoch |-> 0] \in Input
      BY <2>0, ListedObjects DEF Input
    <3> QED BY <2>2, <3>1, <3>2 DEF FetchCoins, TypeOK
  <2>3. ASSUME NEW p \in Payments, FetchEpoch(p)
        PROVE  TypeOK'
    <3>1. [fetched[p] EXCEPT !.epoch = epoch] \in Input
      BY <2>0 DEF TypeOK, Input
    <3>2. fetched' = [fetched EXCEPT ![p] = [fetched[p] EXCEPT !.epoch = epoch]]
      BY <2>3 DEF FetchEpoch, TypeOK
    <3> QED BY <2>3, <3>1, <3>2 DEF FetchEpoch, TypeOK
  <2>4. ASSUME NEW p \in Payments, Sign(p)
        PROVE  TypeOK'
    <3>1. NoInput \in Input
      BY <2>0 DEF NoInput, Input
    <3>2. tries[p] + 1 \in 1 .. MaxTries
      BY <2>4, ConstantsAssumption DEF Sign, TypeOK
    <3>3. [payment |-> p, try |-> tries[p] + 1, input |-> fetched[p]] \in Attempt
      BY <3>2 DEF TypeOK, Attempt
    <3>4. tries' \in [Payments -> 0 .. MaxTries] /\ fetched' \in [Payments -> Input]
      BY <2>4, <3>1, <3>2 DEF Sign, TypeOK
    <3> QED BY <2>4, <3>3, <3>4 DEF Sign, TypeOK
  <2>5. ASSUME NEW a \in signed, Submit(a)
        PROVE  TypeOK'
    BY <2>5 DEF Submit, TypeOK
  <2>6. ASSUME NEW a \in signed, Execute(a)
        PROVE  TypeOK'
    <3>1. unspent' \subseteq Object
      BY <2>6, ChangeIsObject DEF Execute, TypeOK
    <3>2. pool' \subseteq pool
      BY <2>6 DEF Execute, Settle
    <3> QED BY <2>6, <3>1, <3>2 DEF Execute, TypeOK
  <2>7. CASE Drop
    BY <2>7 DEF Drop, TypeOK
  <2>8. ASSUME NEW c \in coming, Arrive(c)
        PROVE  TypeOK'
    BY <2>8 DEF Arrive, TypeOK, Object
  <2>9. ASSUME NEW o \in unspent \cup coming, UseOutside(o)
        PROVE  TypeOK'
    <3>1. pool' \subseteq pool
      BY <2>9 DEF UseOutside, Settle
    <3>2. outside + 1 \in 0 .. MaxOutside
      BY <2>9, ConstantsAssumption DEF UseOutside, TypeOK
    <3> QED BY <2>9, <3>1, <3>2 DEF UseOutside, TypeOK
  <2>10. CASE NextEpoch
    BY <2>10, <2>0 DEF NextEpoch, TypeOK
  <2>11. CASE UNCHANGED vars
    BY <2>11 DEF vars, TypeOK
  <2> QED BY <2>1, <2>2, <2>3, <2>4, <2>5, <2>6, <2>7, <2>8, <2>9, <2>10, <2>11 DEF Next
<1> QED BY <1>1, <1>2, PTL DEF Spec

\* Typing of the specification (TypeOK).
THEOREM TypeCorrect == Spec => []TypeOK
BY Typing

----------------------------------------------------------------------------
\* The re-sign rule admits an input that competes with the old one for an
\* object, or on Sui is of another epoch.
LEMMA SafeMeansCompeting ==
    ASSUME NEW d, NEW new \in Input, NEW old \in Input,
           d = "sui" => new.gas # NoGas,
           SafeFromDoubleSend(d, new, old)
    PROVE  Overlap(new, old) \/ (d = "sui" /\ new.epoch # old.epoch)
<1>1. CASE d # "sui"
  BY <1>1 DEF SafeFromDoubleSend, UtxoIndependentOf, SpentByBoth, Overlap, Spends
<1>2. CASE d = "sui" /\ new.epoch = old.epoch
  <2>1. ~CoinsDisjoint(new, old)
    BY <1>2 DEF SafeFromDoubleSend, SuiSafeFromDoubleSend
  <2>2. CASE new.gas = old.gas
    BY <2>2, <1>2 DEF Overlap, Spends
  <2>3. CASE new.gas # old.gas
    <3>1. PICK c \in old.coins, e \in new.coins : c = e \/ c = new.gas \/ e = old.gas
      BY <2>1, <2>3 DEF CoinsDisjoint
    <3>2. e # NoGas /\ c # NoGas
      BY ConstantsAssumption DEF Input, Object
    <3> QED BY <3>1, <3>2 DEF Overlap, Spends
  <2> QED BY <2>2, <2>3
<1> QED BY <1>1, <1>2

\* Independent inputs have no object in common, but on Sui if one holds a
\* gas coin only or the epochs differ.
LEMMA IndependentMeansApart ==
    ASSUME NEW d, NEW new \in Input, NEW old \in Input,
           d # "sui" => new.gas = NoGas /\ old.gas = NoGas,
           IndependentOf(d, new, old), Overlap(new, old)
    PROVE  /\ d = "sui"
           /\ new.coins = {} \/ old.coins = {} \/ new.epoch # old.epoch
<1>1. CASE d # "sui"
  BY <1>1 DEF IndependentOf, UtxoIndependentOf, SpentByBoth, Overlap, Spends
<1>2. CASE d = "sui" /\ new.coins # {} /\ old.coins # {} /\ new.epoch = old.epoch
  <2>1. CoinsDisjoint(new, old)
    BY <1>2 DEF IndependentOf, SuiIndependentOf
  <2>2. PICK c \in old.coins, e \in new.coins : TRUE
    BY <1>2
  <2>3. PICK o \in Spends(new) : o \in Spends(old)
    BY DEF Overlap
  <2> QED BY <2>1, <2>2, <2>3 DEF CoinsDisjoint, Spends
<1> QED BY <1>1, <1>2

\* What is fetched is unspent as far as the caller can know: a listed change
\* is not listed together with what its attempt spent.
LEMMA ListedOnTop ==
    ASSUME IInv, NEW b \in signed, Change(b) \in Listed
    PROVE  /\ Spends(b.input) \cap Listed = {}
           /\ driver = "sui" => b \in executed
<1>1. b \in Attempt /\ Change(b) \notin Coins
  BY ChangeIsObject DEF IInv, TypeOK
<1>2. CASE Change(b) \in unspent
  <2>1. b \in executed
    BY <1>2 DEF IInv, ChangeIsMade
  <2>2. Spends(b.input) \cap (unspent \cup coming) = {}
    BY <2>1 DEF IInv, SpentIsGone
  <2>3. \A a \in pool : Change(a) \notin Spends(b.input)
    BY <2>1 DEF IInv, ChangeIsMade, SpentIsGone, TypeOK
  <2> QED BY <2>1, <2>2, <2>3 DEF Listed
<1>3. CASE Change(b) \notin unspent
  <2>1. driver = "bitcoin" /\ \E a \in pool : Change(a) = Change(b)
    BY <1>1, <1>3 DEF Listed, IInv, TypeOK
  <2>2. b \in pool
    BY <2>1 DEF IInv, Numbered, TypeOK
  <2> QED BY <2>1, <2>2 DEF Listed, SpentBy
<1> QED BY <1>2, <1>3

\* What is listed of change is of attempts that were signed.
LEMMA ListedKnown ==
    ASSUME IInv, NEW p \in Payments, NEW n \in 1 .. MaxTries, <<p, n>> \in Listed
    PROVE  n <= tries[p]
<1>1. CASE <<p, n>> \in unspent
  BY <1>1 DEF IInv, ChangeIsKnown
<1>2. CASE <<p, n>> \notin unspent
  <2>1. <<p, n>> \notin coming
    BY ConstantsAssumption DEF IInv, TypeOK
  <2>2. PICK a \in pool : Change(a) = <<p, n>>
    BY <1>2, <2>1 DEF Listed
  <2>3. a \in signed /\ a.payment = p /\ a.try = n
    BY <2>2 DEF Change, IInv, TypeOK
  <2> QED BY <2>3 DEF IInv, Numbered
<1> QED BY <1>1, <1>2

\* A fetch of outputs or coins keeps the invariant.
LEMMA FetchKeeps ==
    ASSUME IInv, TypeOK', NEW p \in Payments, NEW i \in Input,
           fetched' = [fetched EXCEPT ![p] = i],
           Spends(i) \subseteq Listed, i.epoch <= epoch, i.asOf <= epoch,
           driver = "sui" => /\ i.asOf = epoch /\ (i.epoch # 0 => i.gas # NoGas),
           driver # "sui" => i.gas = NoGas /\ i.asOf = 1,
           UNCHANGED <<driver, coming, unspent, epoch, tries, signed, pool, executed, outside>>
    PROVE  IInv'
<1> USE DEF Overlap
<1>1. TypeOK /\ fetched \in [Payments -> Input]
  BY DEF IInv, TypeOK
<1>2. \A q \in Payments : fetched'[q] = IF q = p THEN i ELSE fetched[q]
  BY <1>1
<1>3. /\ Numbered' /\ SpentIsGone' /\ ChangeIsMade' /\ Competing' /\ EarlierIsDead' /\ Apart'
  <2>1. Numbered' /\ SpentIsGone' /\ ChangeIsMade'
    BY DEF IInv, Numbered, SpentIsGone, ChangeIsMade
  <2>2. Competing' /\ EarlierIsDead' /\ Apart'
    BY DEF IInv, Competing, EarlierIsDead, Apart
  <2> QED BY <2>1, <2>2
<1>4. ReadBefore'
  BY <1>2 DEF IInv, ReadBefore
<1>5. ChangeIsKnown'
  BY <1>2, ListedKnown DEF IInv, ChangeIsKnown
<1>6. ReadUnspent'
  <2> SUFFICES ASSUME driver = "sui", NEW a \in executed
               PROVE  Spends(a.input) \cap Spends(i) = {}
    <3>1. driver' = driver /\ executed' = executed /\ signed' = signed
      BY <1>2
    <3>2. CASE driver # "sui"
      BY <3>1, <3>2 DEF ReadUnspent
    <3>3. CASE driver = "sui"
      <4>1. \A a \in executed : Spends(a.input) \cap Spends(i) = {}
        BY <3>3
      <4>2. \A a \in executed, q \in Payments :
               (fetched'[q].gas # NoGas /\ a.input.epoch < fetched'[q].asOf)
                   => ~Overlap(a.input, fetched'[q])
        BY <4>1, <1>2, <3>3 DEF IInv, ReadUnspent
      <4> QED BY <4>2, <3>1, <3>3 DEF IInv, ReadUnspent
    <3> QED BY <3>2, <3>3
  <2>1. Spends(a.input) \cap (unspent \cup coming) = {}
    BY DEF IInv, SpentIsGone
  <2> QED BY <2>1 DEF Listed
<1>7. BuiltOnTop'
  BY <1>2, ListedOnTop DEF IInv, BuiltOnTop
<1> QED BY <1>3, <1>4, <1>5, <1>6, <1>7 DEF IInv

\* Signing keeps the invariant: the rule makes the new attempt compete with
\* those of its payment and stay apart from the others.
LEMMA SignKeeps ==
    ASSUME IInv, TypeOK', NEW p \in Payments, Sign(p)
    PROVE  IInv'
<1> DEFINE new == [payment |-> p, try |-> tries[p] + 1, input |-> fetched[p]]
<1> USE DEF Overlap
<1>1. /\ TypeOK /\ fetched \in [Payments -> Input] /\ fetched[p] \in Input
      /\ tries \in [Payments -> 0 .. MaxTries] /\ MaxTries \in Nat
      /\ signed \subseteq Attempt /\ executed \subseteq signed
  BY ConstantsAssumption DEF IInv, TypeOK
<1>2. /\ signed' = signed \cup {new}
      /\ \A q \in Payments : tries'[q] = IF q = p THEN tries[p] + 1 ELSE tries[q]
      /\ \A q \in Payments : fetched'[q] = IF q = p THEN NoInput ELSE fetched[q]
      /\ UNCHANGED <<driver, coming, unspent, epoch, pool, executed, outside>>
  BY <1>1 DEF Sign
<1>3. Spends(NoInput) = {} /\ NoInput.gas = NoGas /\ NoInput.asOf = 1 /\ NoInput.epoch = 0
  BY DEF NoInput, Spends
<1>4. /\ new.payment = p /\ new.try = tries[p] + 1 /\ new.input = fetched[p]
      /\ Change(new) = <<p, tries[p] + 1>>
  BY DEF Change
<1>5. tries[p] + 1 \in 1 .. MaxTries /\ tries[p] \in Nat /\ ~(tries[p] + 1 <= tries[p])
  BY <1>1, ConstantsAssumption DEF Sign
<1>6. \A a \in signed : Change(a) = <<a.payment, a.try>> /\ a.payment \in Payments /\ a.try \in Nat
      /\ a.input \in Input
  BY <1>1, ConstantsAssumption DEF Change, Attempt
<1>7. new \notin signed /\ \A a \in signed : Change(a) # Change(new)
  BY <1>4, <1>5, <1>6 DEF IInv, Numbered
<1>8. \A a \in signed : a.payment = p => SafeFromDoubleSend(driver, fetched[p], a.input)
  BY DEF Sign, MaySign
<1>9. \A a \in signed : a.payment # p => IndependentOf(driver, fetched[p], a.input)
  BY DEF Sign, MaySign
<1>10. /\ driver = "sui" => fetched[p].gas # NoGas /\ fetched[p].epoch <= epoch /\ fetched[p].asOf <= epoch
       /\ driver # "sui" => fetched[p].gas = NoGas
  BY DEF Sign, IInv, ReadBefore
<1>11. /\ Change(new) \notin unspent
       /\ \A q \in Payments : Change(new) \notin Spends(fetched[q])
       /\ \A b \in signed : Change(new) \notin Spends(b.input)
  BY <1>4, <1>5 DEF IInv, ChangeIsKnown
<1>12. Numbered'
  BY <1>1, <1>2, <1>4, <1>5, <1>6, <1>7 DEF IInv, Numbered
<1>13. ReadBefore'
  BY <1>1, <1>2, <1>3, <1>4, <1>10, ConstantsAssumption DEF IInv, ReadBefore, TypeOK
<1>14. SpentIsGone'
  BY <1>2 DEF IInv, SpentIsGone
<1>15. ChangeIsMade'
  BY <1>1, <1>2, <1>11 DEF IInv, ChangeIsMade
<1>16. ChangeIsKnown'
  <2> SUFFICES ASSUME NEW q \in Payments, NEW n \in 1 .. MaxTries,
                      \/ <<q, n>> \in unspent
                      \/ \E r \in Payments : <<q, n>> \in Spends(fetched'[r])
                      \/ \E b \in signed' : <<q, n>> \in Spends(b.input)
               PROVE  n <= tries'[q]
    BY <1>2 DEF ChangeIsKnown
  <2>1. n <= tries[q]
    BY <1>2, <1>3, <1>4 DEF IInv, ChangeIsKnown
  <2> QED BY <2>1, <1>1, <1>2, <1>5
<1>17. Competing'
  <2>1. \A a \in signed : a.payment = p =>
           Overlap(fetched[p], a.input) \/ (driver = "sui" /\ fetched[p].epoch # a.input.epoch)
    BY <1>1, <1>6, <1>8, <1>10, SafeMeansCompeting
  <2> QED BY <2>1, <1>2, <1>4 DEF IInv, Competing
<1>18. EarlierIsDead'
  <2> SUFFICES ASSUME driver = "sui", NEW a \in signed', NEW b \in signed',
                      a.payment = b.payment, a.input.epoch < b.input.epoch, a \in executed
               PROVE  FALSE
    BY <1>2 DEF EarlierIsDead
  <2>1. a \in signed
    BY <1>1
  <2>2. CASE b \in signed
    BY <2>1, <2>2 DEF IInv, EarlierIsDead
  <2>3. CASE b = new
    BY <2>3, <1>4 DEF Sign, Seen
  <2> QED BY <2>2, <2>3, <1>2
<1>19. Apart'
  <2>1. \A a \in signed : (a.payment # p /\ Overlap(fetched[p], a.input)) =>
           /\ driver = "sui"
           /\ \/ fetched[p].coins = {} \/ a.input.coins = {}
              \/ fetched[p].epoch # a.input.epoch
    <3> SUFFICES ASSUME NEW a \in signed, a.payment # p, Overlap(fetched[p], a.input)
                 PROVE  /\ driver = "sui"
                        /\ \/ fetched[p].coins = {} \/ a.input.coins = {}
                           \/ fetched[p].epoch # a.input.epoch
      OBVIOUS
    <3>1. driver # "sui" => a.input.gas = NoGas
      BY DEF IInv, ReadBefore
    <3> QED BY <3>1, <1>1, <1>6, <1>9, <1>10, IndependentMeansApart
  <2> QED BY <2>1, <1>2, <1>4 DEF IInv, Apart
<1>20. ReadUnspent'
  <2> SUFFICES ASSUME driver = "sui", NEW a \in executed
               PROVE  /\ \A b \in signed' :
                            a.input.epoch < b.input.asOf => ~Overlap(a.input, b.input)
                      /\ \A q \in Payments :
                            (fetched'[q].gas # NoGas /\ a.input.epoch < fetched'[q].asOf)
                                => ~Overlap(a.input, fetched'[q])
    BY <1>2 DEF ReadUnspent
  <2>1. /\ \A b \in signed : a.input.epoch < b.input.asOf => ~Overlap(a.input, b.input)
        /\ \A q \in Payments : (fetched[q].gas # NoGas /\ a.input.epoch < fetched[q].asOf)
                                   => ~Overlap(a.input, fetched[q])
    BY DEF IInv, ReadUnspent
  <2>2. a.input.epoch < new.input.asOf => ~Overlap(a.input, new.input)
    BY <2>1, <1>4, <1>10
  <2>3. \A b \in signed' : a.input.epoch < b.input.asOf => ~Overlap(a.input, b.input)
    BY <2>1, <2>2, <1>2
  <2>4. \A q \in Payments : (fetched'[q].gas # NoGas /\ a.input.epoch < fetched'[q].asOf)
                               => ~Overlap(a.input, fetched'[q])
    BY <2>1, <1>2, <1>3
  <2> QED BY <2>3, <2>4
<1>21. BuiltOnTop'
  <2> SUFFICES ASSUME NEW b \in signed'
               PROVE  /\ \A q \in Payments : Change(b) \in Spends(fetched'[q]) =>
                            /\ ~Overlap(b.input, fetched'[q])
                            /\ driver = "sui" => b \in executed
                      /\ \A a \in signed' : Change(b) \in Spends(a.input) =>
                            /\ driver # "sui" => a.payment # b.payment
                            /\ driver = "sui" => b \in executed
    BY <1>2 DEF BuiltOnTop
  <2>1. CASE b = new
    BY <2>1, <1>2, <1>3, <1>4, <1>11
  <2>2. CASE b \in signed
    <3>1. \A q \in Payments : Change(b) \in Spends(fetched'[q]) =>
             ~Overlap(b.input, fetched'[q]) /\ (driver = "sui" => b \in executed)
      BY <2>2, <1>2, <1>3 DEF IInv, BuiltOnTop
    <3>2. ASSUME Change(b) \in Spends(fetched[p]), driver # "sui"
          PROVE  b.payment # p
      <4>1. ~Overlap(b.input, fetched[p])
        BY <2>2, <3>2 DEF IInv, BuiltOnTop
      <4>2. b.payment = p => Overlap(fetched[p], b.input)
        BY <2>2, <3>2, <1>1, <1>6, <1>8, SafeMeansCompeting
      <4> QED BY <4>1, <4>2
    <3>3. Change(b) \in Spends(fetched[p]) /\ driver = "sui" => b \in executed
      BY <2>2 DEF IInv, BuiltOnTop
    <3> QED BY <2>2, <3>1, <3>2, <3>3, <1>2, <1>4 DEF IInv, BuiltOnTop
  <2> QED BY <2>1, <2>2, <1>2
<1> QED BY <1>12, <1>13, <1>14, <1>15, <1>16, <1>17, <1>18, <1>19, <1>20, <1>21 DEF IInv

\* Execution keeps the invariant: what the attempt spends was unspent, and the
\* change it makes is new.
LEMMA ExecuteKeeps ==
    ASSUME IInv, TypeOK', NEW a \in signed, Execute(a)
    PROVE  IInv'
<1> USE DEF Overlap
<1>1. /\ TypeOK /\ signed \subseteq Attempt /\ executed \subseteq signed /\ a \in Attempt
      /\ epoch \in Nat
  BY ConstantsAssumption DEF IInv, TypeOK
<1>2. /\ a \notin executed /\ Spends(a.input) \subseteq unspent
      /\ executed' = executed \cup {a}
      /\ unspent' = (unspent \ Spends(a.input)) \cup {Change(a)}
      /\ UNCHANGED <<driver, coming, epoch, fetched, tries, signed, outside>>
      /\ pool' \subseteq pool \ {a}
  BY DEF Execute, Settle
<1>3. \A b \in executed : Change(a) \notin Spends(b.input)
  BY <1>1, <1>2 DEF IInv, ChangeIsMade
<1>4. Change(a) \notin Spends(a.input) /\ Change(a) \notin coming
  BY <1>1, <1>2, ChangeIsObject DEF IInv, ChangeIsMade, TypeOK
<1>5. \A b \in executed : Spends(b.input) \cap (unspent \cup coming) = {}
  BY DEF IInv, SpentIsGone
<1>6. \A b \in signed : Change(b) = Change(a) => b = a
  BY DEF IInv, Numbered
<1>7. ReadBefore' /\ Numbered' /\ Competing' /\ Apart'
  BY <1>2 DEF IInv, ReadBefore, Numbered, Competing, Apart
<1>8. SpentIsGone'
  <2>1. \A b \in executed' : Spends(b.input) \cap (unspent' \cup coming') = {}
    <3>1. Spends(a.input) \cap (unspent' \cup coming') = {}
      BY <1>2, <1>4 DEF IInv, SpentIsGone
    <3>2. \A b \in executed : Spends(b.input) \cap (unspent' \cup coming') = {}
      BY <1>2, <1>3, <1>5
    <3> QED BY <3>1, <3>2, <1>2
  <2>2. \A b, c \in executed' : Overlap(b.input, c.input) => b = c
    BY <1>2, <1>5 DEF IInv, SpentIsGone
  <2>3. pool' \cap executed' = {} /\ unspent' \cap coming' = {}
    BY <1>2, <1>4 DEF IInv, SpentIsGone
  <2> QED BY <2>1, <2>2, <2>3 DEF SpentIsGone
<1>9. ChangeIsMade'
  BY <1>2, <1>6 DEF IInv, ChangeIsMade
<1>10. ChangeIsKnown'
  <2> SUFFICES ASSUME NEW q \in Payments, NEW n \in 1 .. MaxTries,
                      \/ <<q, n>> \in unspent'
                      \/ \E r \in Payments : <<q, n>> \in Spends(fetched[r])
                      \/ \E b \in signed : <<q, n>> \in Spends(b.input)
               PROVE  n <= tries[q]
    BY <1>2 DEF ChangeIsKnown
  <2>1. CASE <<q, n>> = Change(a)
    BY <2>1, <1>1 DEF IInv, Numbered, Change, Attempt
  <2>2. CASE <<q, n>> # Change(a)
    BY <2>2, <1>2 DEF IInv, ChangeIsKnown
  <2> QED BY <2>1, <2>2
<1>11. driver = "sui" => epoch <= a.input.epoch
  <2>1. a.input.epoch \in Nat
    BY <1>1, ConstantsAssumption DEF Attempt, Input
  <2> QED BY <2>1, <1>1 DEF Execute, Expired
<1>12. EarlierIsDead'
  <2> SUFFICES ASSUME driver = "sui", NEW b \in signed, a.payment = b.payment,
                      a.input.epoch < b.input.epoch
               PROVE  FALSE
    BY <1>2 DEF IInv, EarlierIsDead
  <2>1. b.input.epoch <= epoch /\ b.input.epoch \in Nat /\ a.input.epoch \in Nat
    BY <1>1, ConstantsAssumption DEF IInv, ReadBefore, Attempt, Input
  <2> QED BY <2>1, <1>1, <1>11
<1>13. ReadUnspent'
  <2> SUFFICES ASSUME driver = "sui"
               PROVE  /\ \A b \in signed : ~(a.input.epoch < b.input.asOf)
                      /\ \A p \in Payments : ~(a.input.epoch < fetched[p].asOf)
    BY <1>2 DEF IInv, ReadUnspent
  <2>1. a.input.epoch \in Nat
    BY <1>1, ConstantsAssumption DEF Attempt, Input
  <2>2. \A b \in signed : b.input.asOf <= epoch /\ b.input.asOf \in Nat
    BY <1>1, ConstantsAssumption DEF IInv, ReadBefore, Attempt, Input
  <2>3. \A p \in Payments : fetched[p].asOf <= epoch /\ fetched[p].asOf \in Nat
    BY ConstantsAssumption DEF IInv, TypeOK, ReadBefore, Input
  <2> QED BY <2>1, <2>2, <2>3, <1>1, <1>11
<1>14. BuiltOnTop'
  BY <1>2 DEF IInv, BuiltOnTop
<1> QED BY <1>7, <1>8, <1>9, <1>10, <1>12, <1>13, <1>14 DEF IInv

\* A step that signs and executes nothing, fetches nothing and makes no change
\* unspent keeps the invariant.
LEMMA OthersKeep ==
    ASSUME IInv, TypeOK',
           UNCHANGED <<driver, fetched, tries, signed, executed>>,
           unspent' \cup coming' \subseteq unspent \cup coming,
           unspent' \cap coming' = {}, unspent' \subseteq unspent \cup Coins,
           pool' \cap executed = {}, epoch <= epoch'
    PROVE  IInv'
<1> USE DEF Overlap
<1>1. /\ Numbered' /\ Competing' /\ EarlierIsDead' /\ Apart' /\ ReadUnspent' /\ BuiltOnTop'
  <2>1. Numbered' /\ Competing' /\ Apart'
    BY DEF IInv, Numbered, Competing, Apart
  <2>2. EarlierIsDead' /\ ReadUnspent'
    BY DEF IInv, EarlierIsDead, ReadUnspent
  <2>3. BuiltOnTop'
    BY DEF IInv, BuiltOnTop
  <2> QED BY <2>1, <2>2, <2>3
<1>2. SpentIsGone'
  BY DEF IInv, SpentIsGone
<1>3. ChangeIsMade'
  <2>1. \A a \in signed : Change(a) \notin Coins
    BY ChangeIsObject DEF IInv, TypeOK
  <2> QED BY <2>1 DEF IInv, ChangeIsMade
<1>4. ChangeIsKnown'
  <2>1. \A p \in Payments, n \in 1 .. MaxTries : <<p, n>> \notin Coins
    BY ConstantsAssumption
  <2> QED BY <2>1 DEF IInv, ChangeIsKnown
<1>5. ReadBefore'
  <2>1. epoch \in Nat /\ epoch' \in Nat
    BY ConstantsAssumption DEF IInv, TypeOK
  <2>2. \A p \in Payments : fetched[p].asOf \in Nat /\ fetched[p].epoch \in Nat
    BY ConstantsAssumption DEF IInv, TypeOK, Input
  <2>3. \A a \in signed : a.input.asOf \in Nat /\ a.input.epoch \in Nat
    BY ConstantsAssumption DEF IInv, TypeOK, Attempt, Input
  <2> QED BY <2>1, <2>2, <2>3 DEF IInv, ReadBefore
<1> QED BY <1>1, <1>2, <1>3, <1>4, <1>5 DEF IInv

----------------------------------------------------------------------------
LEMMA Invariance == Spec => []IInv
<1>1. Init => IInv
  <2> SUFFICES ASSUME Init
               PROVE  IInv
    OBVIOUS
  <2>1. 1 \in 1 .. MaxEpoch /\ NoInput \in Input /\ TypeOK
    <3>1. 1 \in 1 .. MaxEpoch
      BY ConstantsAssumption
    <3>2. NoInput \in Input
      BY <3>1, ConstantsAssumption DEF NoInput, Input
    <3> QED BY <3>1, <3>2, ConstantsAssumption DEF Init, TypeOK, Object
  <2>2. Spends(NoInput) = {} /\ NoInput.gas = NoGas /\ NoInput.asOf = 1 /\ NoInput.epoch = 0
    BY DEF NoInput, Spends
  <2>3. /\ signed = {} /\ executed = {} /\ pool = {} /\ epoch = 1
        /\ unspent = Coins \ coming
        /\ \A p \in Payments : fetched[p] = NoInput
    BY DEF Init
  <2>4. Numbered /\ SpentIsGone /\ ChangeIsMade /\ Competing /\ EarlierIsDead /\ Apart
        /\ ReadUnspent /\ BuiltOnTop /\ ReadBefore
    BY <2>2, <2>3 DEF Numbered, SpentIsGone, ChangeIsMade, Competing, EarlierIsDead, Apart,
                      ReadUnspent, BuiltOnTop, ReadBefore
  <2>5. ChangeIsKnown
    <3>1. \A p \in Payments, n \in 1 .. MaxTries : <<p, n>> \notin Coins
      BY ConstantsAssumption
    <3> QED BY <3>1, <2>2, <2>3 DEF ChangeIsKnown
  <2> QED BY <2>1, <2>4, <2>5 DEF IInv
<1>2. IInv /\ TypeOK' /\ [Next]_vars => IInv'
  <2> SUFFICES ASSUME IInv, TypeOK', [Next]_vars
               PROVE  IInv'
    OBVIOUS
  <2>0. /\ TypeOK /\ MaxEpoch \in Nat \ {0} /\ epoch \in 1 .. MaxEpoch /\ epoch \in Nat
        /\ 1 \in 1 .. MaxEpoch /\ 1 <= epoch /\ 0 <= epoch /\ epoch <= epoch
    BY ConstantsAssumption DEF IInv, TypeOK
  <2>00. /\ unspent \cap coming = {} /\ pool \cap executed = {} /\ coming \subseteq Coins
    BY DEF IInv, SpentIsGone, TypeOK
  <2>1. ASSUME NEW p \in Payments, FetchOutputs(p)
        PROVE  IInv'
    <3>1. PICK chosen \in (SUBSET Listed) \ {{}} :
             fetched' = [fetched EXCEPT ![p] =
                [coins |-> chosen, gas |-> NoGas, asOf |-> 1, epoch |-> 1]]
      BY <2>1 DEF FetchOutputs
    <3> DEFINE i == [coins |-> chosen, gas |-> NoGas, asOf |-> 1, epoch |-> 1]
    <3>2. i \in Input /\ Spends(i) \subseteq Listed
      BY <2>0, ListedObjects DEF Input, Spends
    <3>3. driver # "sui"
      BY <2>1 DEF FetchOutputs
    <3> QED BY <2>1, <2>0, <3>1, <3>2, <3>3, FetchKeeps DEF FetchOutputs
  <2>2. ASSUME NEW p \in Payments, FetchCoins(p)
        PROVE  IInv'
    <3>1. PICK gas \in Listed :
             fetched' = [fetched EXCEPT ![p] =
                [coins |-> Listed \ {gas}, gas |-> gas, asOf |-> epoch, epoch |-> 0]]
      BY <2>2 DEF FetchCoins
    <3> DEFINE i == [coins |-> Listed \ {gas}, gas |-> gas, asOf |-> epoch, epoch |-> 0]
    <3>2. i \in Input /\ Spends(i) \subseteq Listed
      BY <2>0, ListedObjects DEF Input, Spends
    <3>3. driver = "sui"
      BY <2>2 DEF FetchCoins
    <3> QED BY <2>2, <2>0, <3>1, <3>2, <3>3, FetchKeeps DEF FetchCoins
  <2>3. ASSUME NEW p \in Payments, FetchEpoch(p)
        PROVE  IInv'
    <3> USE DEF Overlap
    <3>1. /\ fetched' = [fetched EXCEPT ![p] = [fetched[p] EXCEPT !.epoch = epoch]]
          /\ fetched[p].gas # NoGas
          /\ UNCHANGED <<driver, coming, unspent, epoch, tries, signed, pool, executed, outside>>
      BY <2>3 DEF FetchEpoch
    <3>2. \A q \in Payments : /\ Spends(fetched'[q]) = Spends(fetched[q])
                              /\ fetched'[q].gas = fetched[q].gas
                              /\ fetched'[q].asOf = fetched[q].asOf
                              /\ fetched'[q].epoch = IF q = p THEN epoch ELSE fetched[q].epoch
      BY <2>0, <3>1 DEF TypeOK, Input, Spends
    <3>3. /\ Numbered' /\ SpentIsGone' /\ ChangeIsMade' /\ Competing' /\ EarlierIsDead' /\ Apart'
      <4>1. Numbered' /\ SpentIsGone' /\ ChangeIsMade'
        BY <3>1 DEF IInv, Numbered, SpentIsGone, ChangeIsMade
      <4>2. Competing' /\ EarlierIsDead' /\ Apart'
        BY <3>1 DEF IInv, Competing, EarlierIsDead, Apart
      <4> QED BY <4>1, <4>2
    <3>4. ReadBefore'
      BY <2>0, <3>1, <3>2 DEF IInv, ReadBefore
    <3>5. ChangeIsKnown'
      BY <3>1, <3>2 DEF IInv, ChangeIsKnown
    <3>6. ReadUnspent'
      BY <3>1, <3>2 DEF IInv, ReadUnspent
    <3>7. BuiltOnTop'
      BY <3>1, <3>2 DEF IInv, BuiltOnTop
    <3> QED BY <3>3, <3>4, <3>5, <3>6, <3>7 DEF IInv
  <2>4. ASSUME NEW p \in Payments, Sign(p)
        PROVE  IInv'
    BY <2>4, SignKeeps
  <2>5. ASSUME NEW a \in signed, Submit(a)
        PROVE  IInv'
    BY <2>5, <2>0, <2>00, OthersKeep DEF Submit
  <2>6. ASSUME NEW a \in signed, Execute(a)
        PROVE  IInv'
    BY <2>6, ExecuteKeeps
  <2>7. CASE Drop
    BY <2>7, <2>0, <2>00, OthersKeep DEF Drop
  <2>8. ASSUME NEW c \in coming, Arrive(c)
        PROVE  IInv'
    BY <2>8, <2>0, <2>00, OthersKeep DEF Arrive
  <2>9. ASSUME NEW o \in unspent \cup coming, UseOutside(o)
        PROVE  IInv'
    BY <2>9, <2>0, <2>00, OthersKeep DEF UseOutside, Settle
  <2>10. CASE NextEpoch
    BY <2>10, <2>0, <2>00, OthersKeep DEF NextEpoch
  <2>11. CASE UNCHANGED vars
    BY <2>11, <2>0, <2>00, OthersKeep DEF vars
  <2> QED BY <2>1, <2>2, <2>3, <2>4, <2>5, <2>6, <2>7, <2>8, <2>9, <2>10, <2>11 DEF Next
<1> QED BY <1>1, <1>2, Typing, PTL DEF Spec

----------------------------------------------------------------------------
\* Of the attempts of a payment, one that is executed leaves the others
\* without an object they need, or was preceded by expired ones only.
LEMMA ExecutedAlone ==
    ASSUME IInv, NEW a \in executed, NEW b \in executed, a.payment = b.payment
    PROVE  a = b
<1> SUFFICES ASSUME a # b
             PROVE  FALSE
  OBVIOUS
<1>1. /\ a \in signed /\ b \in signed
      /\ a.input.epoch \in Nat /\ b.input.epoch \in Nat
  BY ConstantsAssumption DEF IInv, TypeOK, Attempt, Input
<1>2. ~Overlap(a.input, b.input)
  BY DEF IInv, SpentIsGone
<1>3. driver = "sui" /\ a.input.epoch # b.input.epoch
  BY <1>1, <1>2 DEF IInv, Competing
<1> QED BY <1>1, <1>3 DEF IInv, EarlierIsDead

\* No payment is paid twice, whichever outputs or coins its attempts were
\* built on (NoDoubleSend).
THEOREM ObjectsPreventDoubleSend == Spec => []NoDoubleSend
<1>1. IInv => NoDoubleSend
  BY ExecutedAlone DEF NoDoubleSend
<1> QED BY <1>1, Invariance, PTL

\* A payment takes what another one needs only on Sui, if one of them holds a
\* gas coin only, or if an epoch ended during the later fetch.
THEOREM CrossInvalidationIsRare == Spec => []CrossInvalidationNeedsBareGasOrTornFetch
<1>1. IInv => CrossInvalidationNeedsBareGasOrTornFetch
  <2> SUFFICES ASSUME IInv, NEW a \in executed, NEW b \in signed, a.payment # b.payment,
                      Spends(a.input) \cap Spends(b.input) # {}, ~Expired(b)
               PROVE  /\ driver = "sui"
                      /\ \/ a.input.coins = {} \/ b.input.coins = {}
                         \/ b.input.asOf < b.input.epoch
    BY DEF CrossInvalidationNeedsBareGasOrTornFetch
  <2>1. a \in signed
    BY DEF IInv, TypeOK
  <2>2. /\ driver = "sui"
        /\ a.input.coins = {} \/ b.input.coins = {} \/ a.input.epoch # b.input.epoch
    BY <2>1 DEF IInv, Apart, Overlap
  <2>3. ASSUME a.input.epoch # b.input.epoch
        PROVE  b.input.asOf < b.input.epoch
    <3>1. /\ epoch \in Nat /\ a.input.epoch \in Nat /\ b.input.epoch \in Nat
          /\ b.input.asOf \in Nat
      BY <2>1, ConstantsAssumption DEF IInv, TypeOK, Attempt, Input
    <3>2. a.input.epoch <= epoch /\ b.input.epoch <= epoch
      BY <2>1, <2>2 DEF IInv, ReadBefore
    <3>3. epoch <= b.input.epoch
      BY <3>1, <2>2 DEF Expired
    <3>4. ~(a.input.epoch < b.input.asOf)
      BY <2>2 DEF IInv, ReadUnspent, Overlap
    <3> QED BY <2>3, <3>1, <3>2, <3>3, <3>4
  <2> QED BY <2>2, <2>3
<1> QED BY <1>1, Invariance, PTL

\* A payment that is built on another one's change is orphaned only by another
\* attempt of that other payment (OrphanNeedsResign).
THEOREM OrphansComeFromResigning == Spec => []OrphanNeedsResign
<1>1. IInv => OrphanNeedsResign
  <2> SUFFICES ASSUME IInv, NEW a \in signed, NEW b \in signed, NEW c \in executed,
                      Change(b) \in Spends(a.input), b # c,
                      Spends(b.input) \cap Spends(c.input) # {}
               PROVE  b.payment = c.payment /\ a.payment # b.payment
    BY DEF OrphanNeedsResign
  <2>1. driver # "sui"
    BY DEF IInv, BuiltOnTop, SpentIsGone, Overlap
  <2>2. c \in signed
    BY DEF IInv, TypeOK
  <2>3. b.payment = c.payment
    BY <2>1, <2>2 DEF IInv, Apart, Overlap
  <2>4. a.payment # b.payment
    BY <2>1 DEF IInv, BuiltOnTop
  <2> QED BY <2>3, <2>4
<1> QED BY <1>1, Invariance, PTL

\* The wallet implements the abstract promise (ImplementsAtMostOnce): an
\* execution pays a payment that was not paid, all else changes nothing there.
THEOREM ObjectRefinement == Spec => ImplementsAtMostOnce
<1> DEFINE paid == [p \in Payments |-> PaidBy(p)]
<1> USE DEF PaidBy
<1>1. Init => Abstract!Init
  BY DEF Init, Abstract!Init
<1>2. IInv => NoDoubleSend
  BY ExecutedAlone DEF NoDoubleSend
<1>3. TypeOK /\ NoDoubleSend' /\ [Next]_vars => [Abstract!Next]_paid
  <2> SUFFICES ASSUME TypeOK, NoDoubleSend', [Next]_vars
               PROVE  [Abstract!Next]_paid
    OBVIOUS
  <2>1. CASE executed' = executed
    BY <2>1
  <2>2. ASSUME NEW a \in signed, Execute(a)
        PROVE  Abstract!Next
    <3>1. executed' = executed \cup {a} /\ a \notin executed
      BY <2>2 DEF Execute
    <3>2. a.payment \in Payments
      BY DEF TypeOK, Attempt
    <3>3. \A b \in executed : b.payment # a.payment
      BY <3>1 DEF NoDoubleSend
    <3>4. paid[a.payment] = {}
      BY <3>2, <3>3
    <3>5. paid' = [paid EXCEPT ![a.payment] = {a}]
      BY <3>1, <3>2, <3>3
    <3> HIDE DEF paid
    <3>6. a \in paid'[a.payment]
      BY <3>1, <3>2 DEF paid
    <3> QED BY <3>2, <3>4, <3>5, <3>6 DEF Abstract!Next, Abstract!Pay, paid
  <2> QED BY <2>1, <2>2 DEF Next, FetchOutputs, FetchCoins, FetchEpoch, Sign, Submit, Drop,
                            Arrive, UseOutside, NextEpoch, vars
<1> QED BY <1>1, <1>2, <1>3, Typing, Invariance, PTL
        DEF Spec, ImplementsAtMostOnce, Abstract!Spec

(***************************************************************************)
(* The outcome of a payment.  What is gone stays gone, so an attempt that  *)
(* spends it is never executed; and where there are no epochs all attempts *)
(* of a payment share an object with each other.                           *)
(***************************************************************************)
\* An object that was spent is not made a second time.
LEMMA GoneStays ==
    ASSUME IInv, [Next]_vars, NEW o, Gone(o)
    PROVE  Gone(o)'
<1>1. executed \subseteq executed'
  BY DEF Next, FetchOutputs, FetchCoins, FetchEpoch, Sign, Submit, Execute, Drop, Arrive,
         UseOutside, NextEpoch, vars
<1>2. ASSUME NEW a \in signed, Execute(a)
      PROVE  o \notin unspent' \cup coming'
  <2>1. /\ unspent' \cup coming' \subseteq unspent \cup coming \cup {Change(a)}
        /\ a \notin executed
    BY <1>2 DEF Execute
  <2>2. o # Change(a)
    <3>1. Change(a) \notin Coins
      BY ChangeIsObject DEF IInv, TypeOK
    <3>2. \A b \in executed : Change(b) # Change(a)
      BY <2>1 DEF IInv, TypeOK, Numbered
    <3> QED BY <3>1, <3>2 DEF Gone
  <2> QED BY <2>1, <2>2 DEF Gone
<1>3. CASE \A a \in signed : ~Execute(a)
  <2>1. unspent' \cup coming' \subseteq unspent \cup coming
    BY <1>3 DEF Next, FetchOutputs, FetchCoins, FetchEpoch, Sign, Submit, Drop, Arrive,
       UseOutside, NextEpoch, vars
  <2> QED BY <2>1, <1>1 DEF Gone
<1> QED BY <1>1, <1>2, <1>3 DEF Gone

\* An attempt that needs what is gone is not executed.
LEMMA GoneStops ==
    ASSUME NEW a \in signed, NEW c \in Spends(a.input), Gone(c)
    PROVE  ~Execute(a)
BY DEF Gone, Execute

\* Only Execute changes what was executed, and attempts stay signed.
LEMMA OnlyExecutePays ==
    ASSUME [Next]_vars
    PROVE  /\ signed \subseteq signed' /\ driver' = driver
           /\ \/ executed' = executed
              \/ \E a \in signed : Execute(a) /\ executed' = executed \cup {a}
BY DEF Next, FetchOutputs, FetchCoins, FetchEpoch, Sign, Submit, Execute, Drop, Arrive,
       UseOutside, NextEpoch, vars

LEMMA NeverMadeStays ==
    ASSUME IInv, [Next]_vars, NEW o, NeverMade(o)
    PROVE  NeverMade(o)'
<1>1. PICK a \in signed \ executed : o = Change(a) /\ \E c \in Spends(a.input) : Gone(c)
  BY DEF NeverMade
<1>2. PICK c \in Spends(a.input) : Gone(c)
  BY <1>1
<1>3. ~Execute(a)
  BY <1>2, GoneStops
<1>4. a \in signed' \ executed'
  BY <1>3, OnlyExecutePays
<1>5. Gone(c)'
  BY <1>2, GoneStays
<1> QED BY <1>1, <1>4, <1>5 DEF NeverMade

\* Inputs that may be signed name something.
NamesSomething ==
    driver # "sui" =>
        /\ \A p \in Payments : fetched[p].epoch # 0 => fetched[p].coins # {}
        /\ \A a \in signed : a.input.coins # {}

LEMMA NothingIsEmpty == Spec => []NamesSomething
<1>1. Init => NamesSomething
  BY DEF Init, NamesSomething, NoInput
<1>2. IInv /\ NamesSomething /\ [Next]_vars => NamesSomething'
  <2> SUFFICES ASSUME IInv, NamesSomething, [Next]_vars, driver # "sui"
               PROVE  /\ \A p \in Payments : fetched'[p].epoch # 0 => fetched'[p].coins # {}
                      /\ \A a \in signed' : a.input.coins # {}
    BY OnlyExecutePays DEF NamesSomething
  <2>1. ASSUME NEW p \in Payments, FetchOutputs(p)
        PROVE  /\ \A q \in Payments : fetched'[q].epoch # 0 => fetched'[q].coins # {}
               /\ signed' = signed
    BY <2>1 DEF FetchOutputs, IInv, TypeOK, NamesSomething
  <2>2. \A p \in Payments : ~FetchCoins(p) /\ ~FetchEpoch(p)
    BY DEF FetchCoins, FetchEpoch, IInv, ReadBefore
  <2>3. ASSUME NEW p \in Payments, Sign(p)
        PROVE  /\ \A q \in Payments : fetched'[q].epoch # 0 => fetched'[q].coins # {}
               /\ \A a \in signed' : a.input.coins # {}
    BY <2>3 DEF Sign, IInv, TypeOK, NamesSomething, NoInput
  <2>4. CASE UNCHANGED <<fetched, signed>>
    BY <2>4 DEF NamesSomething
  <2> QED BY <2>1, <2>2, <2>3, <2>4 DEF Next, Submit, Execute, Drop, Arrive, UseOutside,
      NextEpoch, vars, NamesSomething
<1> QED BY <1>1, <1>2, Invariance, PTL DEF Spec

\* The attempt all of whose objects are missing shares one with any other.
LEMMA DecidedExecutesNothing ==
    ASSUME IInv, NamesSomething, NEW p \in Payments, Decided(p),
           NEW a \in signed, a.payment = p
    PROVE  ~Execute(a)
<1>1. PICK b \in AttemptsOf(p) : \A o \in Spends(b.input) : Gone(o) \/ NeverMade(o)
  BY DEF Decided
<1>2. PICK o \in Spends(b.input) : o \in Spends(a.input)
  <2>1. CASE a = b
    <3>1. a.input.coins # {} /\ a.input.coins \subseteq Spends(a.input)
      BY DEF Decided, NamesSomething, Spends
    <3> QED BY <2>1, <3>1
  <2>2. CASE a # b
    BY <1>1, <2>2 DEF Decided, IInv, Competing, Overlap, AttemptsOf
  <2> QED BY <2>1, <2>2
<1>3. CASE Gone(o)
  BY <1>2, <1>3, GoneStops
<1>4. CASE NeverMade(o)
  <2>1. o \notin unspent
    BY <1>4 DEF NeverMade, IInv, ChangeIsMade
  <2> QED BY <1>2, <2>1 DEF Execute
<1> QED BY <1>1, <1>3, <1>4

\* The outcome of a payment is final when one of its attempts can not be
\* executed any more (OutcomeIsFinal): from then on the re-sign rule of
\* src/tx.go:66-74 admits only inputs that can not be executed either.
THEOREM OutcomesAreFinal == Spec => OutcomeIsFinal
<1>1. IInv /\ NamesSomething /\ [Next]_vars =>
        [\A p \in Payments : Decided(p) => PaidBy(p)' = PaidBy(p) /\ Decided(p)']_vars
  <2> SUFFICES ASSUME IInv, NamesSomething, [Next]_vars, NEW p \in Payments, Decided(p)
               PROVE  PaidBy(p)' = PaidBy(p) /\ Decided(p)'
    OBVIOUS
  <2>1. PaidBy(p)' = PaidBy(p)
    <3>1. CASE executed' = executed
      BY <3>1 DEF PaidBy
    <3>2. ASSUME NEW a \in signed, Execute(a), executed' = executed \cup {a}
          PROVE  PaidBy(p)' = PaidBy(p)
      BY <3>2, DecidedExecutesNothing DEF PaidBy
    <3> QED BY <3>1, <3>2, OnlyExecutePays
  <2>2. Decided(p)'
    <3>1. PICK b \in AttemptsOf(p) : \A o \in Spends(b.input) : Gone(o) \/ NeverMade(o)
      BY DEF Decided
    <3>2. \A o \in Spends(b.input) : Gone(o)' \/ NeverMade(o)'
      BY <3>1, GoneStays, NeverMadeStays
    <3>3. b \in AttemptsOf(p)' /\ driver' # "sui"
      BY OnlyExecutePays DEF AttemptsOf, Decided
    <3> QED BY <3>2, <3>3 DEF Decided
  <2> QED BY <2>1, <2>2
<1> QED BY <1>1, Invariance, NothingIsEmpty, PTL DEF Spec, OutcomeIsFinal
=============================================================================
