------------------------- MODULE ExpiryWalletProofs -------------------------
(***************************************************************************)
(* Proofs about ExpiryWallet, for every lifetime, slack, skew, lag and     *)
(* number of payments.                                                     *)
(*                                                                         *)
(* The argument.  When an attempt is signed again, the new stamp is past   *)
(* the old expiration by the slack, and the stamp is at most the skew      *)
(* ahead of the chain.  So the old attempt has expired, and by more than   *)
(* the node's lag: had it landed, the caller would have seen it.  From     *)
(* then on the old attempt is dead, it neither landed nor ever will.  This *)
(* fails only for attempts whose signature rounds have used up the slack,  *)
(* and the tries say which of two attempts is the earlier.                 *)
(***************************************************************************)
EXTENDS ExpiryWallet, FiniteSetTheorems, TLAPS

\* The attempt has not landed and cannot land any more.
Dead(a) == ~Acceptable(a) /\ \A l \in landed : l.attempt # a

\* Of two attempts of a payment one is dead, or the earlier has used up the
\* slack of its rule.
OneIsDead ==
    \A a, b \in signed :
        (a.payment = b.payment /\ a # b) =>
            Dead(a) \/ Dead(b) \/ Overtakes(a, b) \/ Overtakes(b, a)

\* The tries of a payment are counted.
TriesCounted ==
    \A p \in Payments : \A a \in AttemptsOf(p) : a.try <= Cardinality(AttemptsOf(p))

\* What landed did so while it was acceptable.
LandedInTime ==
    \A l \in landed : l.at <= now /\ l.at <= Expiry(l.attempt)

\* The chain takes a slot once.
SlotsOnce ==
    \A l, m \in landed : Slot(l.attempt) = Slot(m.attempt) => l = m

\* Only EOS signs in rounds, only Hyperliquid's stamp has a fraction.
Shapes ==
    \A a \in signed : /\ driver # "eos" => a.rounds = 0
                      /\ driver # "hyperliquid" => a.input.fraction = 0

\* Attempts of different payments were independent when the later was signed.
Independent ==
    \A a, b \in signed :
        a.payment # b.payment => \/ IndependentOf(driver, a.input, b.input)
                                \/ IndependentOf(driver, b.input, a.input)

IInv == /\ TypeOK /\ Shapes /\ LandedInTime /\ SlotsOnce /\ Independent
        /\ OneIsDead /\ TriesCounted

----------------------------------------------------------------------------
\* What a fetch returns at a time: a stamp as far off as the clock or the node
\* can be, and a block that the node may have.
LEMMA InputsRead ==
    ASSUME NEW t \in Nat, Start <= t, NEW i \in InputsAt(t)
    PROVE  /\ i \in Input
           /\ i.block <= t /\ t <= i.block + Lag
           /\ driver \in BlockStamped => i.stamp = i.block
           /\ driver \notin BlockStamped => i.stamp <= t + Skew /\ t <= i.stamp + Skew
           /\ driver # "hyperliquid" => i.fraction = 0
<1>1. Skew \in Nat /\ Lag \in Nat
  BY ConstantsAssumption
<1>2. /\ t - Lag \in Nat /\ t - Skew \in Nat
      /\ \A b \in t - Lag .. t : b \in Nat /\ b <= t /\ t <= b + Lag
      /\ \A c \in t - Skew .. t + Skew : c \in Nat /\ c <= t + Skew /\ t <= c + Skew
  BY <1>1 DEF Start
<1>3. CASE driver \in BlockStamped
  <2>1. PICK b \in t - Lag .. t : i = [stamp |-> b, fraction |-> 0, block |-> b]
    BY <1>3 DEF InputsAt
  <2>2. i.stamp = b /\ i.block = b /\ i.fraction = 0
    BY <2>1
  <2>3. i \in Input
    BY <1>2, <2>1 DEF Input
  <2> QED BY <1>2, <1>3, <2>2, <2>3
<1>4. CASE driver \notin BlockStamped
  <2>1. i \in [stamp : t - Skew .. t + Skew,
               fraction : IF driver = "hyperliquid" THEN {0, 1} ELSE {0},
               block : t - Lag .. t]
    BY <1>4 DEF InputsAt
  <2>2. /\ i.stamp \in t - Skew .. t + Skew /\ i.block \in t - Lag .. t
        /\ i.fraction \in {0, 1} /\ (driver # "hyperliquid" => i.fraction = 0)
    BY <2>1
  <2>3. i = [stamp |-> i.stamp, fraction |-> i.fraction, block |-> i.block]
    BY <2>1
  <2>4. i \in Input
    BY <1>2, <2>2, <2>3 DEF Input
  <2> QED BY <1>2, <1>4, <2>2, <2>4
<1> QED BY <1>3, <1>4

\* An input some fetch can have returned is an input, stamped at most the
\* skew ahead of the time it was fetched.
LEMMA InputsStamped ==
    ASSUME TypeOK, NEW t \in Start .. now, NEW i \in InputsAt(t)
    PROVE  i \in Input /\ i.stamp <= now + Skew
<1>1. t \in Nat /\ Start <= t /\ t <= now /\ now \in Nat /\ Skew \in Nat
  BY ConstantsAssumption DEF Start, TypeOK
<1>2. /\ i \in Input
      /\ i.block <= t
      /\ driver \in BlockStamped => i.stamp = i.block
      /\ driver \notin BlockStamped => i.stamp <= t + Skew
  BY <1>1, InputsRead
<1>3. i.stamp \in Nat /\ i.block \in Nat
  BY <1>2 DEF Input
<1>4. i.stamp <= t + Skew
  BY <1>1, <1>2, <1>3
<1> QED BY <1>1, <1>2, <1>3, <1>4

\* Typing: what landed was signed before.
LEMMA Typing == Spec => []TypeOK
<1>1. Init => TypeOK
  BY ConstantsAssumption, FS_EmptySet DEF Init, Start, TypeOK
<1>2. TypeOK /\ [Next]_vars => TypeOK'
  <2> SUFFICES ASSUME TypeOK, [Next]_vars
               PROVE  TypeOK'
    OBVIOUS
  <2>1. CASE Tick
    BY <2>1 DEF Tick, TypeOK
  <2>2. ASSUME NEW p \in Payments, NEW t \in Start .. now, NEW i \in InputsAt(t), Sign(p, i)
        PROVE  TypeOK'
    <3>1. PICK r \in IF driver = "eos" THEN 0 .. MaxRounds ELSE {0} :
             signed' = signed \cup {[payment |-> p, input |-> i,
                           try |-> Cardinality(AttemptsOf(p)) + 1, rounds |-> r]}
      BY <2>2 DEF Sign
    <3>2. r \in 0 .. MaxRounds
      BY <3>1, ConstantsAssumption
    <3>3. IsFiniteSet(AttemptsOf(p))
      BY FS_Subset DEF AttemptsOf, TypeOK
    <3>4. Cardinality(AttemptsOf(p)) + 1 \in Nat \ {0}
      BY <3>3, FS_CardinalityType
    <3>5. [payment |-> p, input |-> i,
             try |-> Cardinality(AttemptsOf(p)) + 1, rounds |-> r] \in Attempt
      BY <3>2, <3>4, InputsStamped DEF Attempt
    <3>6. IsFiniteSet(signed')
      BY <3>1, FS_AddElement DEF TypeOK
    <3> QED BY <2>2, <3>1, <3>5, <3>6 DEF Sign, TypeOK
  <2>3. ASSUME NEW a \in signed, Land(a)
        PROVE  TypeOK'
    BY <2>3 DEF Land, TypeOK
  <2>4. CASE UNCHANGED vars
    BY <2>4 DEF vars, TypeOK
  <2> QED BY <2>1, <2>2, <2>3, <2>4 DEF Next
<1> QED BY <1>1, <1>2, PTL DEF Spec

\* Typing of the specification (TypeOK).
THEOREM TypeCorrect == Spec => []TypeOK
BY Typing

----------------------------------------------------------------------------
\* Each driver's rule puts the new stamp past the old expiration (without
\* EOS's extra seconds) and the slack, strictly but on EOS and Hyperliquid.
LEMMA SafeMeansOutlived ==
    ASSUME NEW d \in AllDrivers, NEW i \in Input, NEW j \in Input,
           SafeFromDoubleSend(d, i, j)
    PROVE  /\ i.stamp >= j.stamp + Lifetime + Slack[d]
           /\ d \notin {"eos", "hyperliquid"} => i.stamp > j.stamp + Lifetime + Slack[d]
<1>1. i.stamp \in Nat /\ j.stamp \in Nat /\ Lifetime \in Nat /\ Slack[d] \in Nat
  BY TimesAssumption DEF Input
<1>2. CASE d = "tron"
  BY <1>1, <1>2 DEF SafeFromDoubleSend, TronSafe, TronExpiration
<1>3. CASE d = "eos"
  BY <1>1, <1>3 DEF SafeFromDoubleSend, EosSafe
<1>4. CASE d = "hedera"
  BY <1>1, <1>4 DEF SafeFromDoubleSend, HederaSafe
<1>5. CASE d = "internet_computer"
  BY <1>1, <1>5 DEF SafeFromDoubleSend, IcpSafe
<1>6. CASE d = "hyperliquid"
  BY <1>1, <1>6 DEF SafeFromDoubleSend, HyperliquidSafe
<1> QED BY <1>2, <1>3, <1>4, <1>5, <1>6 DEF AllDrivers

\* An attempt that the caller does not see and may sign again is dead, if the
\* slack covers its rounds.
LEMMA UnseenIsDead ==
    ASSUME IInv, NEW p \in Payments, ~Seen(p),
           NEW a \in AttemptsOf(p), Outlasts(driver, a.rounds), NEW i \in Input, i.stamp <= now + Skew,
           SafeFromDoubleSend(driver, i, a.input)
    PROVE  Dead(a)
<1>1. a \in signed /\ a \in Attempt /\ a.input \in Input /\ a.payment = p /\ a.rounds \in Nat
  BY ConstantsAssumption DEF AttemptsOf, IInv, TypeOK, Attempt
<1>2. driver \in AllDrivers /\ now \in Nat
  BY ConstantsAssumption DEF IInv, TypeOK
<1>3. a.input.stamp \in Nat /\ i.stamp \in Nat /\ Slack[driver] \in Nat /\ Lifetime \in Nat
      /\ Skew \in Nat /\ Lag \in Nat
  BY <1>1, <1>2, TimesAssumption, ConstantsAssumption DEF Input
<1>4. /\ i.stamp >= a.input.stamp + Lifetime + Slack[driver]
      /\ driver \notin {"eos", "hyperliquid"}
            => i.stamp > a.input.stamp + Lifetime + Slack[driver]
  BY <1>1, <1>2, SafeMeansOutlived
<1>5. driver # "eos" => a.rounds = 0
  BY <1>1 DEF IInv, Shapes
<1>6. /\ driver = "eos" => Skew + Lag + a.rounds < Slack[driver]
      /\ driver # "eos" => Skew + Lag <= Slack[driver]
  BY DEF Outlasts
<1>7. Expiry(a) \in Nat /\ Expiry(a) = a.input.stamp + Lifetime + a.rounds
  BY <1>1, <1>3 DEF Expiry
<1>8. Expiry(a) + Lag <= now /\ (driver # "hyperliquid" => Expiry(a) < now)
  <2>1. CASE driver = "eos"
    BY <2>1, <1>1, <1>2, <1>3, <1>4, <1>5, <1>6, <1>7
  <2>2. CASE driver # "eos"
    BY <2>2, <1>1, <1>2, <1>3, <1>4, <1>5, <1>6, <1>7
  <2> QED BY <2>1, <2>2
<1>9. ~Acceptable(a)
  BY <1>2, <1>3, <1>7, <1>8 DEF Acceptable
<1>10. ASSUME NEW l \in landed, l.attempt = a
       PROVE  FALSE
  <2>1. l.at \in Nat /\ l.at <= Expiry(a)
    BY <1>10 DEF IInv, TypeOK, LandedInTime
  <2>2. l.at + Lag <= now
    BY <2>1, <1>2, <1>3, <1>7, <1>8
  <2> QED BY <2>2, <1>10 DEF Seen, Identical
<1> QED BY <1>9, <1>10 DEF Dead

\* A dead attempt stays dead: time passes, and only acceptable ones land.
LEMMA DeadForGood ==
    ASSUME TypeOK, NEW a \in signed, Dead(a), [Next]_vars
    PROVE  Dead(a)'
<1> USE DEF Dead
<1>1. a \in Attempt /\ a.rounds \in Nat /\ a.input.stamp \in Nat /\ now \in Nat
  BY ConstantsAssumption DEF TypeOK, Attempt, Input
<1>2. Expiry(a) \in Nat /\ Expiry(a)' = Expiry(a)
  BY <1>1, TimesAssumption DEF Expiry
<1>3. CASE Tick
  BY <1>1, <1>2, <1>3 DEF Tick, Acceptable
<1>4. ASSUME NEW p \in Payments, NEW i, Sign(p, i)
      PROVE  Dead(a)'
  BY <1>2, <1>4 DEF Sign, Acceptable
<1>5. ASSUME NEW b \in signed, Land(b)
      PROVE  Dead(a)'
  <2>1. b # a
    BY <1>5 DEF Land
  <2> QED BY <2>1, <1>2, <1>5 DEF Land, Acceptable
<1>6. CASE UNCHANGED vars
  BY <1>2, <1>6 DEF vars, Acceptable
<1> QED BY <1>3, <1>4, <1>5, <1>6 DEF Next

\* A new attempt of a payment is the last one tried.
LEMMA TriesGoOn ==
    ASSUME TypeOK, TriesCounted, NEW p \in Payments, NEW new,
           new.payment = p, new.try = Cardinality(AttemptsOf(p)) + 1,
           signed' = signed \cup {new}
    PROVE  TriesCounted' /\ \A a \in AttemptsOf(p) : a.try < new.try
<1> DEFINE n == Cardinality(AttemptsOf(p))
<1>1. IsFiniteSet(AttemptsOf(p)) /\ n \in Nat
  BY FS_Subset, FS_CardinalityType DEF AttemptsOf, TypeOK
<1>2. \A a \in AttemptsOf(p) : a.try \in Nat /\ a.try <= n
  BY DEF TriesCounted, AttemptsOf, TypeOK, Attempt
<1>3. \A a \in AttemptsOf(p) : a.try < new.try
  BY <1>1, <1>2
<1>4. new \notin AttemptsOf(p)
  BY <1>1, <1>3
<1>5. AttemptsOf(p)' = AttemptsOf(p) \cup {new}
  BY DEF AttemptsOf
<1>6. Cardinality(AttemptsOf(p))' = n + 1
  BY <1>1, <1>4, <1>5, FS_AddElement
<1>7. ASSUME NEW q \in Payments, q # p
      PROVE  AttemptsOf(q)' = AttemptsOf(q)
  BY <1>7 DEF AttemptsOf
<1>8. TriesCounted'
  <2>1. \A a \in AttemptsOf(p)' : a.try <= n + 1
    BY <1>1, <1>2, <1>5
  <2>2. \A q \in Payments : \A a \in AttemptsOf(q)' : a.try <= Cardinality(AttemptsOf(q))'
    BY <1>6, <1>7, <2>1 DEF TriesCounted
  <2> QED BY <2>2 DEF TriesCounted
<1> QED BY <1>3, <1>8

----------------------------------------------------------------------------
LEMMA Invariance == Spec => []IInv
<1>1. Init => IInv
  <2>1. Init => TypeOK
    BY ConstantsAssumption, FS_EmptySet DEF Init, Start, TypeOK
  <2> QED BY <2>1 DEF Init, IInv, Shapes, LandedInTime, SlotsOnce, OneIsDead, Independent,
                      TriesCounted, AttemptsOf
<1>2. IInv /\ TypeOK' /\ [Next]_vars => IInv'
  <2> SUFFICES ASSUME IInv, TypeOK', [Next]_vars
               PROVE  IInv'
    OBVIOUS
  <2>0. TypeOK /\ now \in Nat
    BY DEF IInv, TypeOK
  <2>1. ASSUME NEW p \in Payments, NEW t \in Start .. now, NEW i \in InputsAt(t), Sign(p, i)
        PROVE  IInv'
    <3>0. PICK r \in IF driver = "eos" THEN 0 .. MaxRounds ELSE {0} :
             signed' = signed \cup {[payment |-> p, input |-> i,
                           try |-> Cardinality(AttemptsOf(p)) + 1, rounds |-> r]}
      BY <2>1 DEF Sign
    <3>1. PICK new :
             /\ new = [payment |-> p, input |-> i,
                       try |-> Cardinality(AttemptsOf(p)) + 1, rounds |-> r]
             /\ signed' = signed \cup {new}
      BY <3>0
    <3>2. i \in Input /\ i.stamp <= now + Skew
      BY <2>0, InputsStamped
    <3>3. UNCHANGED <<driver, alike, now, landed>>
      BY <2>1 DEF Sign
    <3>4. Shapes'
      <4>1. driver # "eos" => new.rounds = 0
        BY <3>0, <3>1
      <4>2. driver # "hyperliquid" => new.input.fraction = 0
        <5>1. t \in Nat /\ Start <= t
          BY <2>0, ConstantsAssumption DEF Start
        <5>2. new.input = i
          BY <3>1
        <5> QED BY <5>1, <5>2, InputsRead
      <4>3. \A a \in signed' : a \in signed \/ a = new
        BY <3>1
      <4> QED BY <3>3, <4>1, <4>2, <4>3 DEF IInv, Shapes
    <3>5. LandedInTime'
      BY <3>3 DEF IInv, LandedInTime, Expiry
    <3>6. SlotsOnce'
      BY <3>3 DEF IInv, SlotsOnce, Slot, Content
    <3>7. TriesCounted' /\ \A a \in AttemptsOf(p) : a.try < new.try
      <4>1. new.payment = p /\ new.try = Cardinality(AttemptsOf(p)) + 1
        BY <3>1
      <4> QED BY <3>1, <4>1, TriesGoOn DEF IInv
    <3>8. OneIsDead'
      <4>1. \A a \in AttemptsOf(p) : Outlasts(driver, a.rounds) => Dead(a)
        BY <3>2, <2>1, UnseenIsDead DEF Sign, MaySign, AttemptsOf
      <4>2. \A a \in signed : Dead(a) => Dead(a)'
        BY <2>0, DeadForGood
      <4>3. \A a, b : Overtakes(a, b)' <=> Overtakes(a, b)
        BY <3>3 DEF Overtakes, Outlasts
      <4>4. \A a \in signed : a.payment = p => Dead(a)' \/ Overtakes(new, a)'
        BY <4>1, <4>2, <4>3, <3>7 DEF AttemptsOf, Overtakes
      <4>5. signed' = signed \cup {new} /\ new.payment = p
        BY <3>1
      <4>6. SUFFICES ASSUME NEW a \in signed', NEW b \in signed', a.payment = b.payment, a # b
                     PROVE  Dead(a)' \/ Dead(b)' \/ Overtakes(a, b)' \/ Overtakes(b, a)'
        BY DEF OneIsDead
      <4>7. CASE a \in signed /\ b \in signed
        BY <4>2, <4>3, <4>6, <4>7 DEF IInv, OneIsDead
      <4>8. CASE a = new \/ b = new
        BY <4>4, <4>5, <4>6, <4>8
      <4> QED BY <4>5, <4>7, <4>8
    <3>9. Independent'
      <4>1. \A a \in signed : a.payment # p => IndependentOf(driver, i, a.input)
        BY <2>1 DEF Sign, MaySign
      <4> QED BY <4>1, <3>1, <3>3 DEF IInv, Independent
    <3> QED BY <3>4, <3>5, <3>6, <3>7, <3>8, <3>9 DEF IInv
  <2>2. ASSUME NEW a \in signed, Land(a)
        PROVE  IInv'
    <3>1. UNCHANGED <<driver, alike, now, signed>> /\ Acceptable(a)
          /\ landed' = landed \cup {[attempt |-> a, at |-> now]}
      BY <2>2 DEF Land
    <3>2. Shapes'
      BY <3>1 DEF IInv, Shapes
    <3>3. LandedInTime'
      <4>1. now <= Expiry(a)
        BY <3>1, <2>0, ConstantsAssumption, TimesAssumption
           DEF Acceptable, Expiry, TypeOK, Attempt, Input
      <4> QED BY <4>1, <3>1, <2>0 DEF IInv, LandedInTime, Expiry
    <3>4. SlotsOnce'
      <4>1. \A x : Slot(x)' = Slot(x)
        BY <3>1 DEF Slot, Content
      <4>2. \A l \in landed : Slot(l.attempt) # Slot(a)
        BY <2>2 DEF Land
      <4>3. SUFFICES ASSUME NEW l \in landed', NEW m \in landed',
                            Slot(l.attempt) = Slot(m.attempt)
                     PROVE  l = m
        BY <4>1 DEF SlotsOnce
      <4> QED BY <4>2, <4>3, <3>1 DEF IInv, SlotsOnce
    <3>5. OneIsDead'
      <4>1. \A b \in signed : Dead(b) => Dead(b)'
        BY <2>0, DeadForGood
      <4>2. \A b, c : Overtakes(b, c)' <=> Overtakes(b, c)
        BY <3>1 DEF Overtakes, Outlasts
      <4> QED BY <4>1, <4>2, <3>1 DEF IInv, OneIsDead
    <3>6. TriesCounted'
      BY <3>1 DEF IInv, TriesCounted, AttemptsOf
    <3>7. Independent'
      BY <3>1 DEF IInv, Independent
    <3> QED BY <3>2, <3>3, <3>4, <3>5, <3>6, <3>7 DEF IInv
  <2>3. ASSUME Tick \/ UNCHANGED vars
        PROVE  IInv'
    <3>1. UNCHANGED <<driver, alike, signed, landed>> /\ now' \in Nat /\ now' >= now
      BY <2>0, <2>3 DEF Tick, vars
    <3>2. Shapes' /\ SlotsOnce'
      <4>1. \A x : Slot(x)' = Slot(x)
        BY <3>1 DEF Slot, Content
      <4>2. Shapes'
        BY <3>1 DEF IInv, Shapes
      <4>3. SlotsOnce'
        BY <3>1, <4>1 DEF IInv, SlotsOnce
      <4> QED BY <4>2, <4>3
    <3>3. LandedInTime'
      <4>1. \A l \in landed : l.at' = l.at /\ l.at \in Nat
        BY <2>0 DEF TypeOK
      <4> QED BY <3>1, <2>0, <4>1 DEF IInv, LandedInTime, Expiry, TypeOK
    <3>4. OneIsDead'
      <4>1. \A b \in signed : Dead(b) => Dead(b)'
        BY <2>0, DeadForGood
      <4>2. \A b, c : Overtakes(b, c)' <=> Overtakes(b, c)
        BY <3>1 DEF Overtakes, Outlasts
      <4> QED BY <4>1, <4>2, <3>1 DEF IInv, OneIsDead
    <3>5. TriesCounted'
      BY <3>1 DEF IInv, TriesCounted, AttemptsOf
    <3>6. Independent'
      BY <3>1 DEF IInv, Independent
    <3> QED BY <3>2, <3>3, <3>4, <3>5, <3>6 DEF IInv
  <2> QED BY <2>1, <2>2, <2>3 DEF Next
<1> QED BY <1>1, <1>2, Typing, PTL DEF Spec

\* Attempts of a payment that both landed are one, or the earlier has used up
\* the slack.
LEMMA InvImpliesRounds == IInv => DoubleSendNeedsRounds
<1> SUFFICES ASSUME IInv, NEW l \in landed, NEW m \in landed,
                    l.attempt.payment = m.attempt.payment, l # m
             PROVE  Overtakes(m.attempt, l.attempt) \/ Overtakes(l.attempt, m.attempt)
  BY DEF DoubleSendNeedsRounds
<1>1. l.attempt \in signed /\ m.attempt \in signed
  BY DEF IInv, TypeOK
<1>2. l.attempt # m.attempt
  BY DEF IInv, SlotsOnce
<1> QED BY <1>1, <1>2 DEF IInv, OneIsDead, Dead

\* Whatever the rounds, a payment is paid twice only if the earlier attempt
\* took more of them than the slack covers (DoubleSendNeedsRounds).
THEOREM DoubleSendsNeedRounds == Spec => []DoubleSendNeedsRounds
BY Invariance, InvImpliesRounds, PTL

\* No payment is paid twice (NoDoubleSend) on a chain without rounds whose
\* slack covers skew and lag, nor on EOS if no more rounds were signed than
\* the slack covers.
THEOREM ExpiryPreventsDoubleSend ==
    ASSUME \A d \in Drivers : Outlasts(d, MaxRounds)
    PROVE  Spec => []NoDoubleSend
<1>1. TypeOK /\ DoubleSendNeedsRounds => NoDoubleSend
  <2> SUFFICES ASSUME TypeOK, DoubleSendNeedsRounds, NEW l \in landed, NEW m \in landed,
                      l.attempt.payment = m.attempt.payment, l # m
               PROVE  FALSE
    BY DEF NoDoubleSend
  <2>1. PICK a \in signed : ~Outlasts(driver, a.rounds)
    BY DEF DoubleSendNeedsRounds, Overtakes, TypeOK
  <2>2. driver \in Drivers /\ a.rounds \in Nat /\ a.rounds <= MaxRounds
    BY ConstantsAssumption DEF TypeOK, Attempt
  <2>3. driver \in AllDrivers /\ Slack[driver] \in Nat
    BY <2>2, ConstantsAssumption, TimesAssumption
  <2>4. CASE driver = "eos"
    BY <2>1, <2>2, <2>3, <2>4, ConstantsAssumption DEF Outlasts
  <2>5. CASE driver # "eos"
    BY <2>1, <2>2, <2>5 DEF Outlasts
  <2> QED BY <2>4, <2>5
<1> QED BY <1>1, Typing, DoubleSendsNeedRounds, PTL

----------------------------------------------------------------------------
\* Where two attempts of different payments compete for a slot, they are
\* twins on Tron or EOS, or told apart on Hyperliquid by what no nonce tells:
\* the other rules tell their stamps apart.
LEMMA InvImpliesTwin == IInv => LostPaymentNeedsTwin
<1> SUFFICES ASSUME IInv, NEW l \in landed, NEW b \in signed,
                    Slot(l.attempt) = Slot(b), l.attempt.payment # b.payment
             PROVE  \/ driver \in {"tron", "eos"} /\ alike /\ l.attempt.input = b.input
                    \/ driver = "hyperliquid" /\ l.attempt.input.fraction # b.input.fraction
  BY DEF LostPaymentNeedsTwin
<1> DEFINE a == l.attempt
<1>1. /\ a \in signed /\ a.input \in Input /\ b.input \in Input
      /\ driver \in AllDrivers
  BY ConstantsAssumption DEF IInv, TypeOK, Attempt
<1>2. \/ IndependentOf(driver, a.input, b.input)
      \/ IndependentOf(driver, b.input, a.input)
  BY <1>1 DEF IInv, Independent
<1>3. CASE driver = "hedera"
  BY <1>2, <1>3 DEF IndependentOf, HederaIndependentOf, Slot
<1>4. CASE driver = "internet_computer"
  BY <1>2, <1>4 DEF IndependentOf, IcpIndependentOf, Slot
<1>5. CASE driver \in {"tron", "eos"}
  <2>1. /\ Content(a.payment) = Content(b.payment)
        /\ a.input.stamp = b.input.stamp /\ a.input.block = b.input.block
    BY <1>5 DEF Slot
  <2>2. alike
    BY <2>1 DEF Content
  <2>3. a.input.fraction = b.input.fraction
    BY <1>1, <1>5 DEF IInv, Shapes
  <2>4. a.input = b.input
    BY <1>1, <2>1, <2>3 DEF Input
  <2> QED BY <1>5, <2>2, <2>4
<1>6. CASE driver = "hyperliquid"
  <2>1. a.input.stamp = b.input.stamp
    BY <1>6 DEF Slot
  <2>2. a.input.fraction # b.input.fraction
    BY <1>2, <1>6, <2>1 DEF IndependentOf, HyperliquidIndependentOf
  <2> QED BY <1>6, <2>2
<1> QED BY <1>1, <1>3, <1>4, <1>5, <1>6 DEF AllDrivers

\* Hedera and the Internet Computer keep payments apart, Tron and EOS all but
\* twins, Hyperliquid all but those fetched within one millisecond
\* (LostPaymentNeedsTwin).
THEOREM OnlyTwinsAreLost == Spec => []LostPaymentNeedsTwin
BY Invariance, InvImpliesTwin, PTL

----------------------------------------------------------------------------
\* What the abstract promise sees of the wallet.
PaidBy == [p \in Payments |-> {l.attempt : l \in {m \in landed : m.attempt.payment = p}}]

\* Landing pays a payment that is exposed or was not paid before.
LEMMA PayStep ==
    ASSUME IInv, NEW a \in signed, Land(a)
    PROVE  Abstract!Pay(a.payment)
<1> DEFINE new == [attempt |-> a, at |-> now]
<1>1. a.payment \in Payments
  BY DEF IInv, TypeOK, Attempt
<1>2. landed' = landed \cup {new} 
  BY DEF Land
<1>3. Acceptable(a) /\ \A l \in landed : l.attempt # a
  BY DEF Land
<1>4. ASSUME a.payment \notin Exposed
      PROVE  \A l \in landed : l.attempt.payment # a.payment
  <2> SUFFICES ASSUME NEW l \in landed, l.attempt.payment = a.payment
               PROVE  FALSE
    OBVIOUS
  <2>1. l.attempt \in signed /\ l.attempt # a
    BY <1>3 DEF IInv, TypeOK
  <2>2. Overtakes(a, l.attempt) \/ Overtakes(l.attempt, a)
    BY <1>3, <2>1 DEF IInv, OneIsDead, Dead
  <2> QED BY <1>1, <1>4, <2>1, <2>2 DEF Exposed, AttemptsOf
<1>5. PaidBy[a.payment] = {} \/ a.payment \in Exposed
  BY <1>1, <1>4 DEF PaidBy
<1>6. PaidBy' = [PaidBy EXCEPT ![a.payment] = @ \cup {a}]
  <2>1. ASSUME NEW p \in Payments
        PROVE  PaidBy'[p] = IF p = a.payment THEN PaidBy[p] \cup {a} ELSE PaidBy[p]
    <3>1. PaidBy'[p] = {l.attempt : l \in {m \in landed' : m.attempt.payment = p}}
      BY DEF PaidBy
    <3>2. PaidBy[p] = {l.attempt : l \in {m \in landed : m.attempt.payment = p}}
      BY DEF PaidBy
    <3>3. CASE p = a.payment
      <4>1. {m \in landed' : m.attempt.payment = p}
               = {m \in landed : m.attempt.payment = p} \cup {new}
        BY <1>2, <3>3
      <4>2. {l.attempt : l \in {m \in landed : m.attempt.payment = p} \cup {new}}
               = {l.attempt : l \in {m \in landed : m.attempt.payment = p}} \cup {new.attempt}
        BY Zenon
      <4>3. PaidBy'[p] = PaidBy[p] \cup {a}
        <5>1. new.attempt = a
          OBVIOUS
        <5> QED BY <3>1, <3>2, <4>1, <4>2, <5>1
      <4> QED BY <3>3, <4>3
    <3>4. CASE p # a.payment
      <4>1. {m \in landed' : m.attempt.payment = p} = {m \in landed : m.attempt.payment = p}
        BY <1>2, <3>4
      <4> QED BY <3>1, <3>2, <3>4, <4>1
    <3> QED BY <3>3, <3>4
  <2> QED BY <2>1, <1>1 DEF PaidBy
<1>7. a \in PaidBy'[a.payment]
  BY <1>1, <1>6 DEF PaidBy
<1>8. UNCHANGED Exposed
  BY DEF Land, Exposed, AttemptsOf, Overtakes, Outlasts
<1> QED BY <1>5, <1>6, <1>7, <1>8 DEF Abstract!Pay, PaidBy

\* Signing exposes the payment signed, or none.
LEMMA ExposureStep ==
    ASSUME IInv, NEW p \in Payments, NEW i, Sign(p, i)
    PROVE  Abstract!Expose(p) \/ UNCHANGED <<PaidBy, Exposed>>
<1>1. PICK new : signed' = signed \cup {new} /\ new.payment = p
  <2>1. PICK r \in IF driver = "eos" THEN 0 .. MaxRounds ELSE {0} :
           signed' = signed \cup {[payment |-> p, input |-> i,
                         try |-> Cardinality(AttemptsOf(p)) + 1, rounds |-> r]}
    BY DEF Sign
  <2> DEFINE n == [payment |-> p, input |-> i,
                   try |-> Cardinality(AttemptsOf(p)) + 1, rounds |-> r]
  <2>2. signed' = signed \cup {n} /\ n.payment = p
    BY <2>1
  <2> HIDE DEF n
  <2> QED BY <2>2
<1>2. UNCHANGED <<driver, landed>>
  BY DEF Sign
<1>3. \A a, b : Overtakes(b, a)' <=> Overtakes(b, a)
  BY <1>2 DEF Overtakes, Outlasts
<1>4. Exposed \subseteq Exposed'
  BY <1>1, <1>3 DEF Exposed, AttemptsOf
<1>5. Exposed' \subseteq Exposed \cup {p}
  BY <1>1, <1>3 DEF Exposed, AttemptsOf
<1>6. UNCHANGED PaidBy
  BY <1>2 DEF PaidBy
<1>7. Exposed' = Exposed \/ Exposed' = Exposed \cup {p}
  BY <1>4, <1>5
<1> QED BY <1>6, <1>7 DEF Abstract!Expose, PaidBy

\* The wallet implements AtMostOnceUnless (ImplementsAtMostOnceUnless), on all
\* five chains and for every slack: a payment is exposed when it is signed
\* again after rounds that its slack does not cover, and not before.
THEOREM ExpiryRefinement == Spec => ImplementsAtMostOnceUnless
<1>1. Init => Abstract!Init
  BY DEF Init, Abstract!Init, Exposed, AttemptsOf
<1>2. IInv /\ [Next]_vars => [Abstract!Next]_<<PaidBy, Exposed>>
  <2> SUFFICES ASSUME IInv, [Next]_vars
               PROVE  Abstract!Next \/ UNCHANGED <<PaidBy, Exposed>>
    OBVIOUS
  <2>1. ASSUME NEW a \in signed, Land(a)
        PROVE  Abstract!Next
    <3>1. a.payment \in Payments
      BY DEF IInv, TypeOK, Attempt
    <3> QED BY <2>1, <3>1, PayStep DEF Abstract!Next
  <2>2. ASSUME NEW p \in Payments, NEW i, Sign(p, i)
        PROVE  Abstract!Next \/ UNCHANGED <<PaidBy, Exposed>>
    BY <2>2, ExposureStep DEF Abstract!Next
  <2>3. CASE UNCHANGED <<driver, signed, landed>>
    BY <2>3 DEF PaidBy, Exposed, AttemptsOf, Overtakes, Outlasts
  <2> QED BY <2>1, <2>2, <2>3 DEF Next, vars, Tick
<1> QED BY <1>1, <1>2, Invariance, PTL
        DEF Spec, ImplementsAtMostOnceUnless, Abstract!Spec, PaidBy

----------------------------------------------------------------------------
\* The block an attempt names was there when the attempt was stamped, up to
\* what the clock is off.
StampedAfterBlock ==
    \A a \in signed :
        driver \notin BlockStamped => a.input.block <= a.input.stamp + Skew

LEMMA InputsAfterBlock ==
    ASSUME TypeOK, NEW t \in Start .. now, NEW i \in InputsAt(t), driver \notin BlockStamped
    PROVE  i.block <= i.stamp + Skew
<1>1. t \in Nat /\ Start <= t /\ Skew \in Nat
  BY ConstantsAssumption DEF Start, TypeOK
<1>2. i.stamp \in Nat /\ i.block \in Nat
  BY InputsStamped DEF Input
<1>3. i.block <= t /\ t <= i.stamp + Skew
  BY <1>1, InputsRead
<1> QED BY <1>1, <1>2, <1>3

LEMMA StampsInvariance == Spec => []StampedAfterBlock
<1>1. Init => StampedAfterBlock
  BY DEF Init, StampedAfterBlock
<1>2. TypeOK /\ StampedAfterBlock /\ [Next]_vars => StampedAfterBlock'
  <2> SUFFICES ASSUME TypeOK, StampedAfterBlock, [Next]_vars
               PROVE  StampedAfterBlock'
    OBVIOUS
  <2>1. ASSUME NEW p \in Payments, NEW t \in Start .. now, NEW i \in InputsAt(t), Sign(p, i)
        PROVE  StampedAfterBlock'
    <3>1. \A a \in signed' : a \in signed \/ a.input = i
      BY <2>1 DEF Sign
    <3>2. driver' = driver
      BY <2>1 DEF Sign
    <3> QED BY <3>1, <3>2, InputsAfterBlock DEF StampedAfterBlock
  <2>2. CASE UNCHANGED <<driver, signed>>
    BY <2>2 DEF StampedAfterBlock
  <2> QED BY <2>1, <2>2 DEF Next, Tick, Land, vars
<1> QED BY <1>1, <1>2, Typing, PTL DEF Spec

\* What the client returns after the wait is past the old expiration by more
\* than the slack, in time and, on EOS, in blocks.
LEMMA WaitedIsSafe ==
    ASSUME TypeOK, StampedAfterBlock, Outlasts(driver, 0),
           NEW a \in signed, Waited(a), NEW i \in InputsAt(now)
    PROVE  SafeFromDoubleSend(driver, i, a.input)
<1> DEFINE end == a.input.stamp + Lifetime + Slack[driver]
<1>1. driver \in AllDrivers /\ now \in Nat /\ Skew \in Nat /\ Lag \in Nat
      /\ Lifetime \in Nat /\ Slack[driver] \in Nat
  BY ConstantsAssumption, TimesAssumption DEF TypeOK
<1>2. a.input.stamp \in Nat /\ a.input.block \in Nat
  BY DEF TypeOK, Attempt, Input
<1>0. Start <= now
  <2>1. Skew + Lag <= Slack[driver]
    BY <1>1 DEF Outlasts
  <2>2. end <= now
    <3>1. end \in Nat
      BY <1>1, <1>2
    <3>2. now >= end + Lag \/ now >= end + Skew \/ now > end + Lag \/ now > end + Skew
      BY DEF Waited
    <3> QED BY <1>1, <3>1, <3>2
  <2> QED BY <1>1, <1>2, <2>1, <2>2 DEF Start
<1>3. i.stamp \in Nat /\ i.block \in Nat
  BY <1>0, <1>1, InputsRead DEF Input
<1>4. /\ i.block + Lag >= now
      /\ driver \in BlockStamped => i.stamp = i.block
      /\ driver \notin BlockStamped => i.stamp + Skew >= now
  <2>1. /\ now <= i.block + Lag
        /\ driver \in BlockStamped => i.stamp = i.block
        /\ driver \notin BlockStamped => now <= i.stamp + Skew
    BY <1>0, <1>1, InputsRead
  <2> QED BY <1>1, <1>3, <2>1
<1>5. CASE driver = "eos"
  <2>1. now >= end + Skew /\ i.stamp + Skew >= now
    BY <1>1, <1>2, <1>4, <1>5 DEF Waited, BlockStamped
  <2>2. a.input.block <= a.input.stamp + Skew
    BY <1>5 DEF StampedAfterBlock, BlockStamped
  <2>3. Skew + Lag + 0 < Slack[driver]
    BY <1>5 DEF Outlasts
  <2>4. i.stamp >= end
    BY <1>1, <1>2, <1>3, <2>1
  <2>5. i.block # a.input.block
    BY <1>1, <1>2, <1>3, <1>4, <2>1, <2>2, <2>3
  <2> QED BY <1>5, <2>4, <2>5 DEF SafeFromDoubleSend, EosSafe
<1>6. ASSUME driver # "eos"
      PROVE  i.stamp > end
  <2>1. CASE driver \in BlockStamped
    <3>1. now > end + Lag
      BY <1>6, <2>1 DEF Waited
    <3> QED BY <3>1, <2>1, <1>1, <1>2, <1>3, <1>4
  <2>2. CASE driver \notin BlockStamped
    <3>1. now > end + Skew
      BY <1>6, <2>2 DEF Waited
    <3> QED BY <3>1, <2>2, <1>1, <1>2, <1>3, <1>4
  <2> QED BY <2>1, <2>2
<1>7. CASE driver \in {"tron", "hedera", "internet_computer", "hyperliquid"}
  BY <1>6, <1>7 DEF SafeFromDoubleSend, TronSafe, TronExpiration, HederaSafe, IcpSafe,
     HyperliquidSafe
<1> QED BY <1>1, <1>5, <1>7 DEF AllDrivers

\* Nobody waits for ever: after the lifetime, the slack and what a stamp may be
\* behind, each input the client returns is safe (WaitingEnds), with any clock
\* and any node within the bounds; on all five chains.
THEOREM RetryIsAllowed == Spec => []WaitingEnds
<1>1. TypeOK /\ StampedAfterBlock => WaitingEnds
  BY WaitedIsSafe DEF WaitingEnds
<1> QED BY <1>1, Typing, StampsInvariance, PTL
=============================================================================
