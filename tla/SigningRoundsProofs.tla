------------------------ MODULE SigningRoundsProofs ------------------------
(***************************************************************************)
(* Proofs about SigningRounds, for every limit and every set of fee payers  *)
(* that does not hold the sender's own address.                             *)
(***************************************************************************)
EXTENDS SigningRounds, SequenceTheorems, TLAPS

\* A signature an address makes over a part.
Made(a, part, seconds, under) ==
    [by |-> a, over |-> Payload(part, seconds, under),
     canonical |-> seconds \in canonical[a]]

Body(n) == Payload("transfer", n, {})

-----------------------------------------------------------------------------
(* Types. *)

Requests == [signer : Addresses \union {NoPayer}, payload : Payloads]

\* Short tuples are sequences.
LEMMA ShortTuples ==
    ASSUME NEW S, NEW a \in S, NEW b \in S
    PROVE  << >> \in Seq(S) /\ <<a>> \in Seq(S) /\ <<a, b>> \in Seq(S)
OBVIOUS

\* A request to a known address is a request.
LEMMA RequestTyped ==
    ASSUME NEW a \in Addresses \union {NoPayer}, NEW p \in Payloads
    PROVE  Request(a, p) \in Requests
BY DEF Request, Requests

\* Asking a transaction of the right type gives requests of the right type.
LEMMA HashesTyped ==
    ASSUME TypeOK, NEW t \in Holdings, SigCount(t) \in Seconds
    PROVE  EosHashes(t) \in Seq(Requests)
<1>1. Payload("transfer", SigCount(t), {}) \in Payloads
  BY DEF Payload, Payloads, Parts
<1>2. payer # NoPayer => payer \in Addresses
  BY DEF TypeOK, Addresses
<1> DEFINE body == Payload("transfer", SigCount(t), {})
<1>3. /\ Request(NoPayer, body) \in Requests
      /\ payer # NoPayer => Request(payer, body) \in Requests
  BY <1>1, <1>2, RequestTyped
<1> HIDE DEF body
<1>4. /\ <<Request(NoPayer, body)>> \in Seq(Requests)
      /\ payer # NoPayer =>
            <<Request(NoPayer, body), Request(payer, body)>> \in Seq(Requests)
  BY <1>3, ShortTuples
<1> QED
  BY <1>4 DEF EosHashes, body

\* The expirations asked for stay below the limit.
LEMMA CountBounded ==
    ASSUME TypeOK, NEW t \in Holdings,
           LastSignatures(t) # {} => Len(t.own) <= Limit
    PROVE  SigCount(t) \in Seconds
<1>1. LastSignatures(t) # {} => Len(t.own) \in Nat \ {0}
  BY DEF Holdings, LastSignatures
<1> QED
  BY <1>1, LimitAssumption DEF SigCount, Seconds

\* The EVM driver's requests have the right type.
LEMMA EvmTyped ==
    ASSUME TypeOK, NEW t \in Holdings
    PROVE  /\ EvmHashes \in Seq(Requests)
           /\ EvmAdditional(t) \in Seq(Requests)
<1>1. 0 \in Seconds
  BY LimitAssumption DEF Seconds
<1>2. \A p \in Parts : Payload(p, 0, {}) \in Payloads
  BY <1>1 DEF Payload, Payloads
<1>3. Covered(t) \in SUBSET (Addresses \X Parts)
  <2>1. \A i \in 1 .. Len(t.own) : t.own[i] \in Signatures
    BY DEF Holdings
  <2> QED
    BY <2>1 DEF Covered, Signatures, Payloads
<1>4. Payload("sponsored", 0, Covered(t)) \in Payloads
  BY <1>1, <1>3 DEF Payload, Payloads, Parts
<1>5. payer # NoPayer => payer \in Addresses
  BY DEF TypeOK, Addresses
<1>6. Sender \in Addresses
  BY DEF Addresses
<1> DEFINE plain == Request(NoPayer, Payload("transfer", 0, {}))
           auth == Request(Sender, Payload("authorization", 0, {}))
           calls == Request(Sender, Payload("calls", 0, {}))
           last == Request(payer, Payload("sponsored", 0, Covered(t)))
<1>7. /\ plain \in Requests
      /\ auth \in Requests
      /\ calls \in Requests
      /\ payer # NoPayer => last \in Requests
  BY <1>2, <1>4, <1>5, <1>6, RequestTyped DEF Parts
<1> HIDE DEF plain, auth, calls, last
<1>8. /\ <<plain>> \in Seq(Requests)
      /\ <<auth, calls>> \in Seq(Requests)
      /\ << >> \in Seq(Requests)
      /\ payer # NoPayer => <<last>> \in Seq(Requests)
  BY <1>7, ShortTuples
<1> QED
  BY <1>8 DEF EvmHashes, EvmAdditional, plain, auth, calls, last

\* Each variable keeps its type; the seconds asked for never pass the limit.
THEOREM TypeCorrect == Spec => []TypeOK
<1>1. Init => TypeOK
  BY DEF Init, TypeOK, Fresh, Stages, Holdings
<1>2. TypeOK /\ [Next]_vars => TypeOK'
  <2> SUFFICES ASSUME TypeOK, [Next]_vars
               PROVE  TypeOK'
    OBVIOUS
  <2>f. Fresh \in Holdings
    BY DEF Fresh, Holdings
  <2>1. CASE Prepare
    <3>1. SigCount(Fresh) \in Seconds
      BY <2>f, CountBounded DEF Fresh, LastSignatures
    <3>2. Sighashes(Fresh) \in Seq(Requests)
      BY <2>f, <3>1, HashesTyped, EvmTyped DEF Sighashes
    <3> QED
      BY <2>1, <3>2 DEF Prepare, TypeOK, Stages, Requests
  <2>2. CASE Sign
    <3> DEFINE over == Head(requests).payload
               by == GetSigner(Head(requests).signer)
               made == [by |-> by, over |-> over,
                        canonical |-> over.seconds \in canonical[by]]
    <3>0. requests \in Seq(Requests) /\ requests # <<>>
      BY <2>2 DEF Sign, TypeOK, Requests
    <3>1. Head(requests) \in Requests
      BY <3>0
    <3>2. by \in Addresses
      BY <3>1 DEF GetSigner, Addresses, Requests
    <3>3. made \in Signatures
      BY <3>1, <3>2 DEF Signatures, Requests
    <3>4. responses' = [responses EXCEPT ![by] = Append(@, made)]
      BY <2>2 DEF Sign
    <3>5. Append(responses[by], made) \in Seq(Signatures)
      BY <3>2, <3>3 DEF TypeOK
    <3>6. responses' \in [Addresses -> Seq(Signatures)]
      BY <3>2, <3>4, <3>5 DEF TypeOK
    <3> QED
      BY <2>2, <3>6 DEF Sign, TypeOK
  <2>3. CASE Complete
    <3>1. PICK t \in Holdings : tx' = SetSignatures(t)
      BY <2>3, <2>f DEF Complete, TypeOK
    <3>2. responses[Sender] \in Seq(Signatures)
      BY DEF TypeOK, Addresses
    <3>3. payer # NoPayer => responses[payer] \in Seq(Signatures)
      BY DEF TypeOK, Addresses
    <3>4. EosSetSignatures(t) \in Holdings
      <4>1. CASE payer = NoPayer
        BY <3>1, <3>2, <4>1 DEF EosSetSignatures, Holdings
      <4>2. CASE payer # NoPayer
        <5>1. t.payers \o responses[payer] \in Seq(Signatures)
          BY <3>1, <3>3, <4>2 DEF Holdings
        <5> QED
          BY <3>2, <4>2, <5>1 DEF EosSetSignatures, Holdings
      <4> QED
        BY <4>1, <4>2
    <3>5. EvmSetSignatures \in Holdings
      BY <2>f, <3>2, <3>3 DEF EvmSetSignatures, Holdings
    <3> QED
      BY <2>3, <3>1, <3>4, <3>5 DEF Complete, TypeOK, SetSignatures, Stages
  <2>4. CASE AskMore
    <3>1. tx \in Holdings
      BY DEF TypeOK
    <3>2. AdditionalSighashes(tx) \in Seq(Requests)
      <4>1. CASE driver = "evm"
        BY <3>1, <4>1, EvmTyped DEF AdditionalSighashes
      <4>2. CASE AllCanonical(tx) /\ driver # "evm"
        BY <4>2 DEF AdditionalSighashes
      <4>3. CASE ~AllCanonical(tx) /\ driver = "eos"
        <5>1. ~(Len(tx.own) > Limit)
          BY <2>4, <4>3 DEF AskMore, GivesUp, EosGivesUp
        <5>2. Len(tx.own) <= Limit
          BY <3>1, <5>1, LimitAssumption DEF Holdings
        <5>3. SigCount(tx) \in Seconds
          BY <3>1, <5>2, CountBounded
        <5> QED
          BY <3>1, <4>3, <5>3, HashesTyped DEF AdditionalSighashes
      <4> QED
        BY <4>1, <4>2, <4>3, DriversAssumption DEF TypeOK
    <3> QED
      BY <2>4, <3>2 DEF AskMore, TypeOK, Stages, Requests
  <2>5. CASE GiveUp
    BY <2>5 DEF GiveUp, TypeOK, Stages
  <2>6. CASE UNCHANGED vars
    BY <2>6 DEF vars, TypeOK
  <2> QED
    BY <2>1, <2>2, <2>3, <2>4, <2>5, <2>6 DEF Next
<1> QED
  BY <1>1, <1>2, PTL DEF Spec

-----------------------------------------------------------------------------
(* The inductive invariant. *)

Silent == \A a \in Addresses \ Signers : responses[a] = <<>>

\* EOS: the n-th signature of an address covers n - 1 additional seconds.
Indexed ==
    \A a \in Signers : \A i \in 1 .. Len(responses[a]) :
        responses[a][i] = Made(a, "transfer", i - 1, {})

\* In a round: who has still to sign, and that all rounds before failed.
InRound ==
    LET k == Len(tx.own)
    IN  /\ k <= Limit
        /\ \A n \in Seconds : n < k => Hopeless(n)
        /\ \/ /\ requests = <<>>
              /\ \A a \in Signers : Len(responses[a]) = k + 1
           \/ /\ payer = NoPayer
              /\ requests = <<Request(NoPayer, Body(k))>>
              /\ Len(responses[Sender]) = k
           \/ /\ payer # NoPayer
              /\ requests = <<Request(payer, Body(k))>>
              /\ Len(responses[Sender]) = k + 1
              /\ Len(responses[payer]) = k
           \/ /\ payer # NoPayer
              /\ requests =
                   <<Request(NoPayer, Body(k)), Request(payer, Body(k))>>
              /\ Len(responses[Sender]) = k
              /\ Len(responses[payer]) = k

\* After a round: the transaction ends with the signatures of that round.
AfterRound ==
    /\ requests = <<>>
    /\ tx.own = responses[Sender]
    /\ Len(tx.own) \in 1 .. Limit + 1
    /\ payer # NoPayer =>
          /\ Len(responses[payer]) = Len(tx.own)
          /\ tx.payers # <<>>
          /\ Final(tx.payers) = Final(responses[payer])
    /\ \A n \in Seconds : n < Len(tx.own) - 1 => Hopeless(n)

EosInv ==
    driver = "eos" =>
        /\ Indexed
        /\ stage = "new" =>
              /\ tx = Fresh
              /\ \A a \in Signers : responses[a] = <<>>
        /\ stage = "first" => tx = Fresh
        /\ stage \in {"first", "more"} => InRound
        /\ stage \in {"ask", "done", "failed"} => AfterRound
        /\ stage = "done" => AllCanonical(tx)
        /\ stage = "failed" => EosGivesUp(tx)

Transfer == Made(Sender, "transfer", 0, {})
Authorization == Made(Sender, "authorization", 0, {})
Calls == Made(Sender, "calls", 0, {})
OwnersParts == {Sender} \X {"authorization", "calls"}
Sponsored == Made(payer, "sponsored", 0, OwnersParts)

\* EVM without a fee payer is signed once.
EvmPlain ==
    \/ /\ stage = "new"
       /\ tx = Fresh
       /\ requests = <<>>
       /\ responses[Sender] = <<>>
    \/ /\ stage = "first"
       /\ tx = Fresh
       /\ \/ /\ requests = <<Request(NoPayer, Body(0))>>
             /\ responses[Sender] = <<>>
          \/ requests = <<>> /\ responses[Sender] = <<Transfer>>
    \/ /\ stage \in {"ask", "done"}
       /\ requests = <<>>
       /\ responses[Sender] = <<Transfer>>
       /\ tx = [own |-> <<Transfer>>, payers |-> <<>>]

\* EVM with a fee payer is signed by the owner twice, then by the payer.
EvmThreeParts ==
    \/ /\ stage = "new"
       /\ tx = Fresh
       /\ requests = <<>>
       /\ responses[Sender] = <<>>
       /\ responses[payer] = <<>>
    \/ /\ stage = "first"
       /\ tx = Fresh
       /\ responses[payer] = <<>>
       /\ \/ /\ requests = <<Request(Sender, Payload("authorization", 0, {})),
                            Request(Sender, Payload("calls", 0, {}))>>
             /\ responses[Sender] = <<>>
          \/ /\ requests = <<Request(Sender, Payload("calls", 0, {}))>>
             /\ responses[Sender] = <<Authorization>>
          \/ requests = <<>> /\ responses[Sender] = <<Authorization, Calls>>
    \/ /\ stage \in {"ask", "more"}
       /\ tx = [own |-> <<Authorization, Calls>>, payers |-> <<>>]
       /\ responses[Sender] = <<Authorization, Calls>>
       /\ \/ /\ stage = "ask"
             /\ requests = <<>>
             /\ responses[payer] = <<>>
          \/ /\ stage = "more"
             /\ requests =
                  <<Request(payer, Payload("sponsored", 0, OwnersParts))>>
             /\ responses[payer] = <<>>
          \/ /\ stage = "more"
             /\ requests = <<>>
             /\ responses[payer] = <<Sponsored>>
    \/ /\ stage \in {"ask", "done"}
       /\ requests = <<>>
       /\ responses[Sender] = <<Authorization, Calls>>
       /\ responses[payer] = <<Sponsored>>
       /\ tx = [own |-> <<Authorization, Calls>>, payers |-> <<Sponsored>>]

EvmInv ==
    driver = "evm" =>
        /\ payer = NoPayer => EvmPlain
        /\ payer # NoPayer => EvmThreeParts

IInv == TypeOK /\ Silent /\ EosInv /\ EvmInv

-----------------------------------------------------------------------------
(* Facts about one state. *)

Apart == Sender \notin Payers

\* The signers are the sender and the fee payer, if there is one.
LEMMA WhoSigns ==
    ASSUME TypeOK, Apart
    PROVE  /\ Sender \in Signers
           /\ Signers \subseteq Addresses
           /\ payer = NoPayer => Signers = {Sender}
           /\ payer # NoPayer => /\ Signers = {Sender, payer}
                                /\ payer \in Addresses
                                /\ payer # Sender
           /\ Sender # NoPayer
           /\ Sender \in Addresses
BY NoPayerAssumption DEF TypeOK, Apart, Signers, Addresses

\* After a round the transaction's last signatures are those of the round.
LEMMA LastRound ==
    ASSUME TypeOK, Apart, Indexed, AfterRound
    PROVE  /\ LastSignatures(tx) =
                {Made(a, "transfer", Len(tx.own) - 1, {}) : a \in Signers}
           /\ AllCanonical(tx) <=> ~Hopeless(Len(tx.own) - 1)
           /\ AllCanonical(tx) => SigCount(tx) = Len(tx.own) - 1
           /\ ~AllCanonical(tx) => SigCount(tx) = Len(tx.own)
<1> DEFINE n == Len(tx.own)
<1>1. n \in 1 .. Limit + 1 /\ n \in Nat
  BY LimitAssumption DEF AfterRound
<1>2. Final(tx.own) = Made(Sender, "transfer", n - 1, {})
  BY <1>1, WhoSigns DEF AfterRound, Indexed, Final
<1>3. payer # NoPayer =>
        Final(tx.payers) = Made(payer, "transfer", n - 1, {})
  BY <1>1, WhoSigns DEF AfterRound, Indexed, Final
<1>4. tx.own # <<>>
  BY <1>1
<1>5. LastSignatures(tx) = {Made(a, "transfer", n - 1, {}) : a \in Signers}
  <2>1. CASE payer = NoPayer
    BY <1>2, <1>4, <2>1, WhoSigns DEF LastSignatures
  <2>2. CASE payer # NoPayer
    BY <1>2, <1>3, <1>4, <2>2, WhoSigns DEF LastSignatures, AfterRound
  <2> QED
    BY <2>1, <2>2
<1>6. LastSignatures(tx) # {}
  BY <1>5, WhoSigns
<1>7. AllCanonical(tx) <=> ~Hopeless(n - 1)
  <2> HIDE DEF n
  <2>1. AllCanonical(tx) <=>
          \A a \in Signers : Made(a, "transfer", n - 1, {}).canonical
    BY <1>5, <1>6, Zenon DEF AllCanonical
  <2>2. \A a : Made(a, "transfer", n - 1, {}).canonical <=>
                n - 1 \in canonical[a]
    BY DEF Made
  <2> QED
    BY <2>1, <2>2, Zenon DEF Hopeless
<1> QED
  BY <1>5, <1>6, <1>7 DEF SigCount

\* A built transaction without signatures asks for the plain expiration.
LEMMA FreshCount == SigCount(Fresh) = 0 /\ Len(Fresh.own) = 0
BY DEF SigCount, LastSignatures, Fresh

\* What EOS asks for, the signers in the order of asking.
LEMMA EosAsks ==
    ASSUME NEW t
    PROVE  /\ payer = NoPayer =>
                EosHashes(t) = <<Request(NoPayer, Body(SigCount(t)))>>
           /\ payer # NoPayer =>
                EosHashes(t) = <<Request(NoPayer, Body(SigCount(t))),
                                 Request(payer, Body(SigCount(t)))>>
BY DEF EosHashes, Body

\* One signature more for one address, made over its next expiration.
LEMMA OneMore ==
    ASSUME TypeOK, Apart, Indexed, Silent, NEW a \in Signers, NEW k \in Nat,
           Len(responses[a]) = k,
           responses' = [responses EXCEPT
                           ![a] = Append(@, Made(a, "transfer", k, {}))],
           UNCHANGED <<payer, canonical>>
    PROVE  /\ Indexed'
           /\ Silent'
           /\ Len(responses'[a]) = k + 1
           /\ \A b \in Addresses \ {a} : responses'[b] = responses[b]
<1>1. Signers' = Signers /\ a \in Addresses
  BY WhoSigns DEF Signers
<1>2. \A b \in Addresses \ {a} : responses'[b] = responses[b]
  BY DEF TypeOK
<1>3. /\ responses[a] \in Seq(Signatures)
      /\ responses'[a] = Append(responses[a], Made(a, "transfer", k, {}))
  BY <1>1 DEF TypeOK
<1>4. /\ Len(responses'[a]) = k + 1
      /\ \A i \in 1 .. k : responses'[a][i] = responses[a][i]
      /\ responses'[a][k + 1] = Made(a, "transfer", k, {})
  BY <1>3
<1>5. \A b, p, n, u : Made(b, p, n, u)' = Made(b, p, n, u)
  BY DEF Made
<1>6. Indexed'
  <2> SUFFICES ASSUME NEW b \in Signers, NEW i \in 1 .. Len(responses'[b])
               PROVE  responses'[b][i] = Made(b, "transfer", i - 1, {})
    BY <1>1, <1>5 DEF Indexed
  <2>1. CASE b # a
    BY <1>2, <2>1, WhoSigns DEF Indexed
  <2>2. CASE b = a /\ i \in 1 .. k
    BY <1>4, <2>2 DEF Indexed
  <2>3. CASE b = a /\ i = k + 1
    BY <1>4, <2>3
  <2> QED
    BY <1>4, <2>1, <2>2, <2>3
<1> QED
  BY <1>1, <1>2, <1>4, <1>6 DEF Silent

-----------------------------------------------------------------------------
(* EOS, one lemma per action. *)

LEMMA EosPrepare ==
    ASSUME IInv, Apart, Prepare, driver = "eos"
    PROVE  EosInv'
<1>1. /\ tx' = Fresh
      /\ stage' = "first"
      /\ \A a \in Signers : responses'[a] = <<>>
      /\ requests' = EosHashes(Fresh)
  BY DEF Prepare, IInv, EosInv, Sighashes
<1>2. Signers' = Signers /\ payer' = payer
  BY DEF Prepare, Signers
<1>3. Indexed'
  BY <1>1, <1>2 DEF Indexed
<1>4. InRound'
  <2>1. Len(tx'.own) = 0
    BY <1>1, FreshCount
  <2>2. /\ Len(responses'[Sender]) = 0
        /\ payer # NoPayer => Len(responses'[payer]) = 0
    BY <1>1, WhoSigns DEF IInv
  <2>3. /\ payer = NoPayer => requests' = <<Request(NoPayer, Body(0))>>
        /\ payer # NoPayer =>
             requests' = <<Request(NoPayer, Body(0)), Request(payer, Body(0))>>
    BY <1>1, FreshCount, EosAsks
  <2>4. \A n \in Seconds : ~(n < 0)
    BY LimitAssumption DEF Seconds
  <2> QED
    BY <1>2, <2>1, <2>2, <2>3, <2>4, LimitAssumption DEF InRound
<1> QED
  BY <1>1, <1>3, <1>4 DEF EosInv

LEMMA EosSign ==
    ASSUME IInv, Apart, Sign, driver = "eos"
    PROVE  EosInv' /\ Silent'
<1> DEFINE k == Len(tx.own)
           r == Head(requests)
           by == GetSigner(r.signer)
<1>1. TypeOK /\ Indexed /\ Silent /\ InRound /\ requests # <<>>
  BY DEF Sign, IInv, EosInv
<1>2. /\ UNCHANGED <<driver, payer, canonical, stage, tx>>
      /\ stage \in {"first", "more"}
      /\ requests' = Tail(requests)
  BY DEF Sign
<1>3. k \in Nat
  BY <1>1 DEF TypeOK, Holdings
<1>4. responses' = [responses EXCEPT ![by] = Append(@,
         [by |-> by, over |-> r.payload,
          canonical |-> r.payload.seconds \in canonical[by]])]
  BY DEF Sign
<1>5. \A a : [by |-> a, over |-> Body(k),
              canonical |-> Body(k).seconds \in canonical[a]]
             = Made(a, "transfer", k, {})
  BY DEF Made, Body, Payload
<1>6. Signers' = Signers
  BY <1>2 DEF Signers
<1>7. /\ \A n : Hopeless(n)' <=> Hopeless(n)
      /\ \A n : Body(n)' = Body(n)
  BY <1>2, <1>6 DEF Hopeless, Body
<1>8. /\ Request(NoPayer, Body(k)).signer = NoPayer
      /\ Request(payer, Body(k)).signer = payer
      /\ Request(NoPayer, Body(k)).payload = Body(k)
      /\ Request(payer, Body(k)).payload = Body(k)
  BY DEF Request
<1>9. ASSUME payer = NoPayer, requests = <<Request(NoPayer, Body(k))>>,
             Len(responses[Sender]) = k
      PROVE  Indexed' /\ Silent' /\ InRound'
  <2>1. r = Request(NoPayer, Body(k)) /\ Tail(requests) = <<>>
    BY <1>9
  <2>2. by = Sender
    BY <1>8, <2>1 DEF GetSigner
  <2>3. responses' = [responses EXCEPT
                        ![Sender] = Append(@, Made(Sender, "transfer", k, {}))]
    BY <1>4, <1>5, <1>8, <2>1, <2>2
  <2>4. /\ Indexed' /\ Silent'
        /\ Len(responses'[Sender]) = k + 1
    BY <1>1, <1>2, <1>3, <1>9, <2>3, OneMore, WhoSigns
  <2> QED
    BY <1>1, <1>2, <1>6, <1>7, <1>9, <2>1, <2>4, WhoSigns DEF InRound
<1>10. ASSUME payer # NoPayer, requests = <<Request(payer, Body(k))>>,
              Len(responses[Sender]) = k + 1, Len(responses[payer]) = k
       PROVE  Indexed' /\ Silent' /\ InRound'
  <2>1. r = Request(payer, Body(k)) /\ Tail(requests) = <<>>
    BY <1>10
  <2>2. by = payer
    BY <1>8, <1>10, <2>1 DEF GetSigner
  <2>3. responses' = [responses EXCEPT
                        ![payer] = Append(@, Made(payer, "transfer", k, {}))]
    BY <1>4, <1>5, <1>8, <2>1, <2>2
  <2>4. /\ Indexed' /\ Silent'
        /\ Len(responses'[payer]) = k + 1
        /\ responses'[Sender] = responses[Sender]
    BY <1>1, <1>2, <1>3, <1>10, <2>3, OneMore, WhoSigns
  <2> QED
    BY <1>1, <1>2, <1>6, <1>7, <1>10, <2>1, <2>4, WhoSigns DEF InRound
<1>11. ASSUME payer # NoPayer,
              requests = <<Request(NoPayer, Body(k)), Request(payer, Body(k))>>,
              Len(responses[Sender]) = k, Len(responses[payer]) = k
       PROVE  Indexed' /\ Silent' /\ InRound'
  <2>1. r = Request(NoPayer, Body(k))
        /\ Tail(requests) = <<Request(payer, Body(k))>>
    BY <1>11
  <2>2. by = Sender
    BY <1>8, <2>1 DEF GetSigner
  <2>3. responses' = [responses EXCEPT
                        ![Sender] = Append(@, Made(Sender, "transfer", k, {}))]
    BY <1>4, <1>5, <1>8, <2>1, <2>2
  <2>4. /\ Indexed' /\ Silent'
        /\ Len(responses'[Sender]) = k + 1
        /\ responses'[payer] = responses[payer]
    BY <1>1, <1>2, <1>3, <1>11, <2>3, OneMore, WhoSigns
  <2> QED
    BY <1>1, <1>2, <1>6, <1>7, <1>11, <2>1, <2>4, WhoSigns DEF InRound
<1>12. Indexed' /\ Silent' /\ InRound'
  BY <1>1, <1>9, <1>10, <1>11 DEF InRound
<1> QED
  BY <1>2, <1>12 DEF EosInv, IInv

\* A list that grows at its end ends as the appended list does.
LEMMA Joined ==
    ASSUME NEW S, NEW s \in Seq(S), NEW t \in Seq(S), t # <<>>
    PROVE  s \o t # <<>> /\ Final(s \o t) = Final(t)
BY DEF Final

LEMMA EosComplete ==
    ASSUME IInv, Apart, Complete, driver = "eos"
    PROVE  EosInv'
<1> DEFINE k == Len(tx.own)
<1>1. TypeOK /\ Indexed /\ InRound /\ requests = <<>>
  BY DEF Complete, IInv, EosInv
<1>2. /\ UNCHANGED <<driver, payer, canonical, requests, responses>>
      /\ stage' = "ask"
      /\ tx' = EosSetSignatures(tx)
  BY DEF Complete, SetSignatures, IInv, EosInv
<1>3. k \in Nat /\ tx.payers \in Seq(Signatures)
  BY <1>1 DEF TypeOK, Holdings
<1>4. /\ Len(responses[Sender]) = k + 1
      /\ payer # NoPayer => Len(responses[payer]) = k + 1
  BY <1>1, WhoSigns DEF InRound
<1>5. tx'.own = responses[Sender]
  BY <1>2, WhoSigns, <1>1 DEF EosSetSignatures, TypeOK, Holdings
<1>6. ASSUME payer # NoPayer
      PROVE  tx'.payers # <<>> /\ Final(tx'.payers) = Final(responses[payer])
  <2>1. tx'.payers = tx.payers \o responses[payer]
    BY <1>2, <1>6 DEF EosSetSignatures
  <2>2. responses[payer] \in Seq(Signatures)
    BY <1>1, <1>6, WhoSigns DEF TypeOK
  <2>3. responses[payer] # <<>>
    BY <1>3, <1>4, <1>6
  <2> QED
    BY <1>3, <2>1, <2>2, <2>3, Joined
<1>7. Signers' = Signers /\ \A b, p, n, u : Made(b, p, n, u)' = Made(b, p, n, u)
  BY <1>2 DEF Signers, Made
<1>8. \A n : Hopeless(n)' <=> Hopeless(n)
  BY <1>2, <1>7 DEF Hopeless
<1>9. Indexed'
  BY <1>1, <1>2, <1>7 DEF Indexed
<1>10. AfterRound'
  <2>1. k <= Limit /\ \A n \in Seconds : n < k => Hopeless(n)
    BY <1>1 DEF InRound
  <2>2. Len(tx'.own) = k + 1
    BY <1>4, <1>5
  <2> QED
    BY <1>1, <1>2, <1>3, <1>4, <1>5, <1>6, <1>8, <2>1, <2>2, LimitAssumption
    DEF AfterRound
<1> QED
  BY <1>2, <1>9, <1>10 DEF EosInv

LEMMA EosAskMore ==
    ASSUME IInv, Apart, AskMore, driver = "eos"
    PROVE  EosInv'
<1> DEFINE n == Len(tx.own)
<1>1. TypeOK /\ Indexed /\ AfterRound /\ ~EosGivesUp(tx)
  BY DEF AskMore, IInv, EosInv, GivesUp
<1>2. /\ UNCHANGED <<driver, payer, canonical, responses, tx>>
      /\ requests' = IF AllCanonical(tx) THEN <<>> ELSE EosHashes(tx)
      /\ stage' = IF requests' = <<>> THEN "done" ELSE "more"
  BY DEF AskMore, AdditionalSighashes
<1>3. n \in Nat /\ n \in 1 .. Limit + 1
  BY <1>1, LimitAssumption DEF AfterRound
<1>4. Signers' = Signers /\ \A b, p, m, u : Made(b, p, m, u)' = Made(b, p, m, u)
  BY <1>2 DEF Signers, Made
<1>5. /\ \A m : Hopeless(m)' <=> Hopeless(m)
      /\ AllCanonical(tx)' <=> AllCanonical(tx)
      /\ Indexed'
  BY <1>1, <1>2, <1>4 DEF Hopeless, AllCanonical, LastSignatures, Indexed
<1>6. CASE AllCanonical(tx)
  <2>1. requests' = <<>> /\ stage' = "done"
    BY <1>2, <1>6
  <2>2. AfterRound'
    BY <1>1, <1>2, <1>5, <2>1 DEF AfterRound
  <2> QED
    BY <1>5, <1>6, <2>1, <2>2 DEF EosInv
<1>7. CASE ~AllCanonical(tx)
  <2>1. requests' = EosHashes(tx) /\ requests' # <<>> /\ stage' = "more"
    BY <1>2, <1>7, EosAsks
  <2>2. SigCount(tx) = n /\ Hopeless(n - 1)
    BY <1>1, <1>7, LastRound
  <2>3. n <= Limit
    BY <1>1, <1>3, <1>7, LimitAssumption DEF EosGivesUp
  <2>4. \A m \in Seconds : m < n => Hopeless(m)
    <3>1. \A m \in Seconds : m < n - 1 => Hopeless(m)
      BY <1>1 DEF AfterRound
    <3>2. \A m \in Seconds : m < n => m < n - 1 \/ m = n - 1
      BY <1>3, LimitAssumption DEF Seconds
    <3> QED
      BY <2>2, <3>1, <3>2
  <2>5. /\ Len(responses[Sender]) = n
        /\ payer # NoPayer => Len(responses[payer]) = n
    BY <1>1 DEF AfterRound
  <2>6. InRound'
    BY <1>2, <1>5, <2>1, <2>2, <2>3, <2>4, <2>5, EosAsks DEF InRound, Body
  <2> QED
    BY <1>5, <2>1, <2>6 DEF EosInv
<1> QED
  BY <1>6, <1>7

LEMMA EosGiveUp ==
    ASSUME IInv, Apart, GiveUp, driver = "eos"
    PROVE  EosInv'
<1>1. Indexed /\ AfterRound /\ EosGivesUp(tx)
  BY DEF GiveUp, IInv, EosInv, GivesUp
<1>2. /\ UNCHANGED <<driver, payer, canonical, requests, responses, tx>>
      /\ stage' = "failed"
  BY DEF GiveUp
<1>3. Signers' = Signers
  BY <1>2 DEF Signers
<1>4. Indexed' /\ AfterRound' /\ EosGivesUp(tx)'
  BY <1>1, <1>2, <1>3
  DEF Indexed, Made, AfterRound, Hopeless, EosGivesUp, AllCanonical,
      LastSignatures
<1> QED
  BY <1>2, <1>4 DEF EosInv

-----------------------------------------------------------------------------
(* EVM, one lemma per action. *)

LEMMA EvmPrepare ==
    ASSUME IInv, Apart, Prepare, driver = "evm"
    PROVE  EvmInv'
<1>1. /\ UNCHANGED <<driver, payer, canonical, responses, tx>>
      /\ stage = "new"
      /\ stage' = "first"
      /\ requests' = EvmHashes
  BY DEF Prepare, Sighashes
<1>2. CASE payer = NoPayer
  BY <1>1, <1>2 DEF IInv, EvmInv, EvmPlain, EvmHashes, Body, Transfer, Made
<1>3. CASE payer # NoPayer
  <2>1. /\ tx = Fresh
        /\ responses[Sender] = <<>>
        /\ responses[payer] = <<>>
    BY <1>1, <1>3 DEF IInv, EvmInv, EvmThreeParts
  <2>2. requests' = <<Request(Sender, Payload("authorization", 0, {})),
                      Request(Sender, Payload("calls", 0, {}))>>
    BY <1>1, <1>3 DEF EvmHashes
  <2> QED
    BY <1>1, <1>3, <2>1, <2>2 DEF EvmInv, EvmThreeParts
<1> QED
  BY <1>2, <1>3

\* One signature more for one address.
LEMMA OneMorePart ==
    ASSUME TypeOK, Apart, Silent, Sign, requests # <<>>,
           NEW a \in Signers, GetSigner(Head(requests).signer) = a,
           NEW part, NEW under,
           Head(requests).payload = Payload(part, 0, under)
    PROVE  /\ Silent'
           /\ responses'[a] = Append(responses[a], Made(a, part, 0, under))
           /\ \A b \in Addresses \ {a} : responses'[b] = responses[b]
<1>1. Signers' = Signers /\ a \in Addresses
  BY WhoSigns DEF Signers, Sign
<1>2. Head(requests).payload.seconds = 0
  BY DEF Payload
<1>3. responses' =
        [responses EXCEPT ![a] = Append(@, Made(a, part, 0, under))]
  BY <1>2 DEF Sign, Made
<1> QED
  BY <1>1, <1>3 DEF Silent, TypeOK

\* A second element.
LEMMA Pair == ASSUME NEW a, NEW b PROVE Append(<<a>>, b) = <<a, b>>
<1>1. <<a>> \in Seq({a, b}) /\ <<a, b>> \in Seq({a, b})
  OBVIOUS
<1>2. /\ Append(<<a>>, b) \in Seq({a, b})
      /\ Len(Append(<<a>>, b)) = 2
      /\ Append(<<a>>, b)[1] = a
      /\ Append(<<a>>, b)[2] = b
  BY <1>1
<1>3. \A i \in 1 .. 2 : Append(<<a>>, b)[i] = <<a, b>>[i]
  BY <1>2
<1> QED
  BY <1>1, <1>2, <1>3, SeqEqual

LEMMA EvmSign ==
    ASSUME IInv, Apart, Sign, driver = "evm"
    PROVE  EvmInv' /\ Silent'
<1>1. /\ UNCHANGED <<driver, payer, canonical, stage, tx>>
      /\ stage \in {"first", "more"}
      /\ requests # <<>>
      /\ requests' = Tail(requests)
  BY DEF Sign
<1>2. /\ TypeOK
      /\ Silent
  BY DEF IInv
<1>3. \A a, p : Request(a, p).signer = a /\ Request(a, p).payload = p
  BY DEF Request
<1>4. \A b, p, n, u : Made(b, p, n, u)' = Made(b, p, n, u)
  BY <1>1 DEF Made
<1>5. CASE payer = NoPayer
  <2>1. /\ stage = "first"
        /\ tx = Fresh
        /\ requests = <<Request(NoPayer, Body(0))>>
        /\ responses[Sender] = <<>>
    BY <1>1, <1>5 DEF IInv, EvmInv, EvmPlain
  <2>2. Head(requests) = Request(NoPayer, Body(0)) /\ Tail(requests) = <<>>
    BY <2>1
  <2>3. GetSigner(Head(requests).signer) = Sender
        /\ Head(requests).payload = Payload("transfer", 0, {})
    BY <1>3, <2>2 DEF GetSigner, Body
  <2>4. Silent' /\ responses'[Sender] = Append(<<>>, Transfer)
    BY <1>1, <1>2, <2>1, <2>3, OneMorePart, WhoSigns DEF Transfer
  <2> QED
    BY <1>1, <1>4, <1>5, <2>1, <2>2, <2>4 DEF EvmInv, EvmPlain, Transfer
<1>6. CASE payer # NoPayer
  <2> DEFINE auth == Request(Sender, Payload("authorization", 0, {}))
             calls == Request(Sender, Payload("calls", 0, {}))
             last == Request(payer, Payload("sponsored", 0, OwnersParts))
  <2>0. /\ payer \in Signers
        /\ Sender \in Signers
        /\ payer \in Addresses \ {Sender}
        /\ Sender \in Addresses \ {payer}
    BY <1>2, <1>6, WhoSigns
  <2>a. Sender # NoPayer /\ GetSigner(Sender) = Sender /\ GetSigner(payer) = payer
    BY <1>2, <1>6, WhoSigns DEF GetSigner
  <2>1. CASE /\ stage = "first"
             /\ tx = Fresh
             /\ responses[payer] = <<>>
             /\ requests = <<auth, calls>>
             /\ responses[Sender] = <<>>
    <3>1. Head(requests) = auth /\ Tail(requests) = <<calls>>
      BY <2>1
    <3>2. /\ Silent'
          /\ responses'[Sender] = Append(responses[Sender], Authorization)
          /\ responses'[payer] = responses[payer]
      BY <1>1, <1>2, <1>3, <2>0, <2>a, <3>1, OneMorePart DEF Authorization
    <3>3. responses'[Sender] = <<Authorization>>
      BY <2>1, <3>2
    <3> QED
      BY <1>1, <1>4, <1>6, <2>1, <3>1, <3>2, <3>3
      DEF EvmInv, EvmThreeParts, Authorization
  <2>2. CASE /\ stage = "first"
             /\ tx = Fresh
             /\ responses[payer] = <<>>
             /\ requests = <<calls>>
             /\ responses[Sender] = <<Authorization>>
    <3>1. Head(requests) = calls /\ Tail(requests) = <<>>
      BY <2>2
    <3>2. /\ Silent'
          /\ responses'[Sender] = Append(responses[Sender], Calls)
          /\ responses'[payer] = responses[payer]
      BY <1>1, <1>2, <1>3, <2>0, <2>a, <3>1, OneMorePart DEF Calls
    <3>3. responses'[Sender] = <<Authorization, Calls>>
      BY <2>2, <3>2, Pair
    <3> QED
      BY <1>1, <1>4, <1>6, <2>2, <3>1, <3>2, <3>3
      DEF EvmInv, EvmThreeParts, Authorization, Calls
  <2>3. CASE /\ stage = "more"
             /\ tx = [own |-> <<Authorization, Calls>>, payers |-> <<>>]
             /\ responses[Sender] = <<Authorization, Calls>>
             /\ requests = <<last>>
             /\ responses[payer] = <<>>
    <3>1. Head(requests) = last /\ Tail(requests) = <<>>
      BY <2>3
    <3>2. /\ Silent'
          /\ responses'[payer] = Append(responses[payer], Sponsored)
          /\ responses'[Sender] = responses[Sender]
      BY <1>1, <1>2, <1>3, <2>0, <2>a, <3>1, OneMorePart DEF Sponsored
    <3>3. responses'[payer] = <<Sponsored>>
      BY <2>3, <3>2
    <3>4. /\ OwnersParts' = OwnersParts
          /\ Authorization' = Authorization
          /\ Calls' = Calls
          /\ Sponsored' = Sponsored
      BY <1>1, <1>4 DEF OwnersParts, Authorization, Calls, Sponsored, Made
    <3> QED
      BY <1>1, <1>6, <2>3, <3>1, <3>2, <3>3, <3>4 DEF EvmInv, EvmThreeParts
  <2> QED
    BY <1>1, <1>6, <2>1, <2>2, <2>3 DEF IInv, EvmInv, EvmThreeParts
<1> QED
  BY <1>5, <1>6

LEMMA EvmComplete ==
    ASSUME IInv, Apart, Complete, driver = "evm"
    PROVE  EvmInv'
<1>1. /\ UNCHANGED <<driver, payer, canonical, requests, responses>>
      /\ stage \in {"first", "more"}
      /\ requests = <<>>
      /\ stage' = "ask"
      /\ tx' = EvmSetSignatures
  BY DEF Complete, SetSignatures
<1>2. /\ Transfer' = Transfer
      /\ Authorization' = Authorization
      /\ Calls' = Calls
      /\ Sponsored' = Sponsored
  BY <1>1 DEF Transfer, OwnersParts, Authorization, Calls, Sponsored, Made
<1>3. CASE payer = NoPayer
  <2>1. responses[Sender] = <<Transfer>>
    BY <1>1, <1>3 DEF IInv, EvmInv, EvmPlain
  <2>2. tx' = [own |-> <<Transfer>>, payers |-> <<>>]
    BY <1>1, <1>3, <2>1 DEF EvmSetSignatures, Fresh
  <2> QED
    BY <1>1, <1>2, <1>3, <2>1, <2>2 DEF EvmInv, EvmPlain
<1>4. CASE payer # NoPayer
  <2>1. /\ responses[Sender] = <<Authorization, Calls>>
        /\ responses[payer] \in {<<>>, <<Sponsored>>}
    BY <1>1, <1>4 DEF IInv, EvmInv, EvmThreeParts
  <2>2. tx' = [own |-> <<Authorization, Calls>>, payers |-> responses[payer]]
    BY <1>1, <1>4, <2>1 DEF EvmSetSignatures
  <2> QED
    BY <1>1, <1>2, <1>4, <2>1, <2>2 DEF EvmInv, EvmThreeParts
<1> QED
  BY <1>3, <1>4

LEMMA EvmAskMore ==
    ASSUME IInv, Apart, AskMore, driver = "evm"
    PROVE  EvmInv'
<1>1. /\ UNCHANGED <<driver, payer, canonical, responses, tx>>
      /\ stage = "ask"
      /\ requests' = EvmAdditional(tx)
      /\ stage' = IF requests' = <<>> THEN "done" ELSE "more"
  BY DEF AskMore, AdditionalSighashes
<1>2. /\ Transfer' = Transfer
      /\ Authorization' = Authorization
      /\ Calls' = Calls
      /\ Sponsored' = Sponsored
      /\ OwnersParts' = OwnersParts
  BY <1>1 DEF Transfer, OwnersParts, Authorization, Calls, Sponsored, Made
<1>3. CASE payer = NoPayer
  <2>1. requests' = <<>> /\ stage' = "done"
    BY <1>1, <1>3 DEF EvmAdditional
  <2> QED
    BY <1>1, <1>2, <1>3, <2>1 DEF IInv, EvmInv, EvmPlain
<1>4. CASE payer # NoPayer
  <2>1. CASE /\ tx = [own |-> <<Authorization, Calls>>, payers |-> <<>>]
             /\ responses[Sender] = <<Authorization, Calls>>
             /\ responses[payer] = <<>>
    <3>1. Covered(tx) = OwnersParts
      BY <2>1 DEF Covered, OwnersParts, Authorization, Calls, Made, Payload
    <3>2. requests' = <<Request(payer, Payload("sponsored", 0, OwnersParts))>>
      BY <1>1, <1>4, <2>1, <3>1 DEF EvmAdditional
    <3>3. stage' = "more"
      BY <1>1, <3>2
    <3> QED
      BY <1>1, <1>2, <1>4, <2>1, <3>2, <3>3 DEF EvmInv, EvmThreeParts
  <2>2. CASE /\ tx = [own |-> <<Authorization, Calls>>,
                      payers |-> <<Sponsored>>]
             /\ responses[Sender] = <<Authorization, Calls>>
             /\ responses[payer] = <<Sponsored>>
    <3>1. requests' = <<>> /\ stage' = "done"
      BY <1>1, <2>2 DEF EvmAdditional
    <3> QED
      BY <1>1, <1>2, <1>4, <2>2, <3>1 DEF EvmInv, EvmThreeParts
  <2> QED
    BY <1>1, <1>4, <2>1, <2>2 DEF IInv, EvmInv, EvmThreeParts
<1> QED
  BY <1>3, <1>4

-----------------------------------------------------------------------------
(* The theorems. *)

\* The invariant holds when the fee payer is not the sender.
LEMMA Invariance == ASSUME Apart PROVE Spec => []IInv
<1>1. Init => IInv
  <2> SUFFICES ASSUME Init PROVE IInv
    OBVIOUS
  <2>1. TypeOK
    BY DEF Init, TypeOK, Fresh, Stages, Holdings
  <2>2. /\ \A a \in Addresses : responses[a] = <<>>
        /\ stage = "new"
        /\ requests = <<>>
        /\ tx = Fresh
    BY DEF Init
  <2>3. Silent /\ Indexed
    BY <2>1, <2>2, WhoSigns DEF Silent, Indexed
  <2>4. EosInv
    BY <2>1, <2>2, <2>3, WhoSigns DEF EosInv
  <2>5. EvmInv
    BY <2>1, <2>2, WhoSigns DEF EvmInv, EvmPlain, EvmThreeParts
  <2> QED
    BY <2>1, <2>3, <2>4, <2>5 DEF IInv
<1>2. TypeOK' /\ IInv /\ [Next]_vars => IInv'
  <2> SUFFICES ASSUME TypeOK', IInv, [Next]_vars PROVE IInv'
    OBVIOUS
  <2>1. driver' = driver
    BY DEF Next, Prepare, Sign, Complete, AskMore, GiveUp, vars
  <2>2. driver = "eos" \/ driver = "evm"
    BY DriversAssumption DEF IInv, TypeOK
  <2>3. ~Sign => Silent'
    BY DEF IInv, Silent, Signers, Next, Prepare, Complete, AskMore, GiveUp, vars
  <2>4. Sign => Silent'
    BY <2>2, EosSign, EvmSign
  <2>5. EosInv'
    <3>1. CASE driver = "eos" /\ Next
      BY <3>1, EosPrepare, EosSign, EosComplete, EosAskMore, EosGiveUp DEF Next
    <3>2. CASE UNCHANGED vars
      BY <3>2
      DEF IInv, vars, EosInv, Indexed, Made, InRound, AfterRound, Signers,
          Hopeless, EosGivesUp, AllCanonical, LastSignatures, Body
    <3>3. CASE driver = "evm"
      BY <2>1, <3>3 DEF EosInv
    <3> QED
      BY <2>2, <3>1, <3>2, <3>3
  <2>6. EvmInv'
    <3>1. CASE driver = "evm" /\ Next
      <4>1. ~GiveUp
        BY <3>1 DEF GiveUp, GivesUp
      <4> QED
        BY <3>1, <4>1, EvmPrepare, EvmSign, EvmComplete, EvmAskMore DEF Next
    <3>2. CASE UNCHANGED vars
      BY <3>2
      DEF IInv, vars, EvmInv, EvmPlain, EvmThreeParts, Transfer, OwnersParts,
          Authorization, Calls, Sponsored, Made, Body
    <3>3. CASE driver = "eos"
      BY <2>1, <3>3 DEF EvmInv
    <3> QED
      BY <2>2, <3>1, <3>2, <3>3
  <2> QED
    BY <2>3, <2>4, <2>5, <2>6 DEF IInv
<1>3. Spec => []TypeOK
  BY TypeCorrect
<1> QED
  BY <1>1, <1>2, <1>3, PTL DEF Spec

\* What EOS sends is signed by everybody over what is sent.
LEMMA EosSigned ==
    ASSUME IInv, Apart, driver = "eos"
    PROVE  SignedAsSent
<1> SUFFICES ASSUME stage = "done" PROVE SignedAsSent
  BY DEF SignedAsSent
<1> DEFINE n == Len(tx.own) - 1
<1>1. /\ TypeOK
      /\ Indexed
      /\ AfterRound
      /\ AllCanonical(tx)
  BY DEF IInv, EosInv
<1>2. /\ LastSignatures(tx) = {Made(a, "transfer", n, {}) : a \in Signers}
      /\ SigCount(tx) = n
  BY <1>1, LastRound
<1> HIDE DEF n
<1>3. Serialize(tx).seconds = n /\ Serialize(tx).carried = LastSignatures(tx)
  BY <1>2 DEF Serialize
<1>4. {<<s.by, s.over>> : s \in LastSignatures(tx)} = Expected(n)
  <2>1. \A a : /\ Made(a, "transfer", n, {}).by = a
               /\ Made(a, "transfer", n, {}).over = Payload("transfer", n, {})
    BY DEF Made
  <2>2. {<<s.by, s.over>> : s \in LastSignatures(tx)} =
          {<<a, Payload("transfer", n, {})>> : a \in Signers}
    BY <1>2, <2>1
  <2> QED
    BY <2>2 DEF Expected
<1>5. \A s \in LastSignatures(tx) : s.canonical
  BY <1>1, Zenon DEF AllCanonical
<1>6. /\ {<<s.by, s.over>> : s \in Serialize(tx).carried}
           = Expected(Serialize(tx).seconds)
      /\ \A s \in Serialize(tx).carried : s.canonical
  BY <1>3, <1>4, <1>5, Zenon
<1> QED
  BY <1>6, Zenon DEF SignedAsSent

\* What EVM sends carries the owner's signatures and the fee payer's over
\* them.
LEMMA EvmSigned ==
    ASSUME IInv, Apart, driver = "evm"
    PROVE  SignedAsSent
<1> SUFFICES ASSUME stage = "done" PROVE SignedAsSent
  BY DEF SignedAsSent
<1>1. TypeOK
  BY DEF IInv
<1>2. /\ Serialize(tx).seconds = 0
      /\ Serialize(tx).carried =
            {tx.own[i] : i \in 1 .. Len(tx.own)}
              \union {tx.payers[i] : i \in 1 .. Len(tx.payers)}
  BY DEF Serialize
<1>3. CASE payer = NoPayer
  <2>1. tx.own = <<Transfer>> /\ tx.payers = <<>>
    BY <1>3 DEF IInv, EvmInv, EvmPlain
  <2>2. Serialize(tx).carried = {Transfer}
    BY <1>2, <2>1
  <2>3. Expected(0) = {<<Sender, Payload("transfer", 0, {})>>}
    BY <1>1, <1>3, WhoSigns DEF Expected
  <2>4. Transfer.by = Sender /\ Transfer.over = Payload("transfer", 0, {})
    BY DEF Transfer, Made
  <2>5. {<<s.by, s.over>> : s \in Serialize(tx).carried} = Expected(0)
    BY <2>2, <2>3, <2>4
  <2> QED
    BY <1>2, <2>5 DEF SignedAsSent
<1>4. CASE payer # NoPayer
  <2>1. tx.own = <<Authorization, Calls>> /\ tx.payers = <<Sponsored>>
    BY <1>4 DEF IInv, EvmInv, EvmThreeParts
  <2>2. Serialize(tx).carried = {Authorization, Calls, Sponsored}
    BY <1>2, <2>1
  <2>3. /\ Authorization.by = Sender
        /\ Authorization.over = Payload("authorization", 0, {})
        /\ Calls.by = Sender
        /\ Calls.over = Payload("calls", 0, {})
        /\ Sponsored.by = payer
        /\ Sponsored.over = Payload("sponsored", 0, OwnersParts)
    BY DEF Authorization, Calls, Sponsored, Made
  <2>4. {<<s.by, s.over>> : s \in Serialize(tx).carried} =
          {<<Sender, Payload("authorization", 0, {})>>,
           <<Sender, Payload("calls", 0, {})>>,
           <<payer, Payload("sponsored", 0, OwnersParts)>>}
    BY <2>2, <2>3
  <2>5. Expected(0) =
          {<<Sender, Payload("authorization", 0, {})>>,
           <<Sender, Payload("calls", 0, {})>>,
           <<payer, Payload("sponsored", 0, OwnersParts)>>}
    BY <1>4 DEF Expected, OwnersParts
  <2> QED
    BY <1>2, <2>4, <2>5 DEF SignedAsSent
<1> QED
  BY <1>3, <1>4

\* Every transaction that leaves the loop is signed by every required signer
\* over exactly what is sent, for any limit, and whichever signatures are
\* canonical.
THEOREM SentAsSigned == ASSUME Apart PROVE Spec => []SignedAsSent
<1>1. IInv => SignedAsSent
  BY EosSigned, EvmSigned, DriversAssumption DEF IInv, TypeOK
<1> QED
  BY <1>1, Invariance, PTL

\* EOS takes the first expiration that everybody signs canonically, and
\* fails only if there is none up to the limit.
THEOREM FirstChanceTaken == ASSUME Apart PROVE Spec => []NoSecondIsSkipped
<1>1. IInv => NoSecondIsSkipped
  <2> SUFFICES ASSUME IInv, driver = "eos" PROVE NoSecondIsSkipped
    BY DEF NoSecondIsSkipped
  <2>1. stage \in {"done", "failed"} => TypeOK /\ Indexed /\ AfterRound
    BY DEF IInv, EosInv
  <2>2. stage = "done" =>
          /\ AllCanonical(tx)
          /\ SigCount(tx) = Len(tx.own) - 1
    BY <2>1, LastRound DEF IInv, EosInv
  <2>3. ASSUME stage = "failed", NEW m \in Seconds PROVE Hopeless(m)
    <3>1. EosGivesUp(tx)
      BY <2>3 DEF IInv, EosInv
    <3>2. Len(tx.own) = Limit + 1
      BY <2>1, <2>3, <3>1, LimitAssumption DEF AfterRound, EosGivesUp
    <3>3. Hopeless(Limit)
      <4>1. ~AllCanonical(tx)
        BY <3>1 DEF EosGivesUp
      <4>2. Hopeless(Len(tx.own) - 1)
        BY <2>1, <2>3, <4>1, LastRound
      <4>3. Len(tx.own) - 1 = Limit
        BY <3>2, LimitAssumption
      <4> QED
        BY <4>2, <4>3
    <3>4. m < Limit \/ m = Limit
      BY LimitAssumption DEF Seconds
    <3> QED
      BY <2>1, <2>3, <3>2, <3>3, <3>4, LimitAssumption DEF AfterRound
  <2> QED
    BY <2>1, <2>2, <2>3 DEF NoSecondIsSkipped, AfterRound
<1> QED
  BY <1>1, Invariance, PTL

\* No address signs the same hash twice.
THEOREM HashesAreNew == ASSUME Apart PROVE Spec => []EveryHashOnce
<1>1. IInv => EveryHashOnce
  <2> SUFFICES ASSUME IInv, NEW a \in Addresses,
                      NEW i \in 1 .. Len(responses[a]),
                      NEW j \in 1 .. Len(responses[a]),
                      responses[a][i].over = responses[a][j].over
               PROVE  i = j
    BY DEF EveryHashOnce
  <2>1. a \in Signers
    <3>1. responses[a] # <<>>
      OBVIOUS
    <3> QED
      BY <3>1 DEF IInv, Silent
  <2>2. CASE driver = "eos"
    <3>a. /\ responses[a][i] = Made(a, "transfer", i - 1, {})
          /\ responses[a][j] = Made(a, "transfer", j - 1, {})
      BY <2>1, <2>2 DEF IInv, EosInv, Indexed
    <3>b. \A n : Made(a, "transfer", n, {}).over.seconds = n
      BY DEF Made, Payload
    <3>1. /\ responses[a][i].over.seconds = i - 1
          /\ responses[a][j].over.seconds = j - 1
      BY <3>a, <3>b
    <3> QED
      BY <3>1
  <2>3. CASE driver = "evm"
    <3>1. a = Sender \/ a = payer
      BY <2>1 DEF Signers
    <3>2. \/ responses[a] \in {<<>>, <<Transfer>>}
          \/ responses[a] \in {<<>>, <<Authorization>>, <<Authorization, Calls>>}
          \/ responses[a] \in {<<>>, <<Sponsored>>}
      <4>1. CASE payer = NoPayer
        <5>1. a = Sender
          BY <2>1, <4>1, WhoSigns DEF IInv
        <5> QED
          BY <2>3, <4>1, <5>1 DEF IInv, EvmInv, EvmPlain
      <4>2. CASE payer # NoPayer
        BY <2>3, <3>1, <4>2 DEF IInv, EvmInv, EvmThreeParts
      <4> QED
        BY <4>1, <4>2
    <3>3. Authorization.over # Calls.over
      BY DEF Authorization, Calls, Made, Payload
    <3>4. CASE responses[a] = <<Authorization, Calls>>
      BY <3>3, <3>4
    <3>5. CASE responses[a] # <<Authorization, Calls>>
      <4>1. Len(responses[a]) \in {0, 1}
        BY <3>2, <3>5
      <4> QED
        BY <4>1
    <3> QED
      BY <3>4, <3>5
  <2> QED
    BY <2>2, <2>3, DriversAssumption DEF IInv, TypeOK
<1> QED
  BY <1>1, Invariance, PTL

\* An EOS transaction goes through Limit + 1 rounds at most, so it costs each
\* address that many signatures (RoundsAreBounded).
THEOREM RoundsEnd == ASSUME Apart PROVE Spec => []RoundsAreBounded
<1>1. IInv => RoundsAreBounded
  <2> SUFFICES ASSUME IInv, driver = "eos", NEW a \in Addresses
               PROVE  Len(responses[a]) <= Limit + 1
    <3>1. IInv => payer # Sender
      BY NoPayerAssumption DEF IInv, TypeOK, Apart, Addresses
    <3> QED BY <3>1 DEF RoundsAreBounded
  <2>1. CASE a \notin Signers
    BY <2>1, LimitAssumption DEF IInv, Silent
  <2>2. CASE a \in Signers
    <3>1. a = Sender \/ (a = payer /\ payer # NoPayer)
      BY <2>2 DEF Signers
    <3>2. tx.own \in Seq(Signatures)
      BY DEF IInv, TypeOK, Holdings
    <3>3. CASE stage = "new"
      BY <2>2, <3>3, LimitAssumption DEF IInv, EosInv
    <3>4. CASE stage \in {"first", "more"}
      BY <2>2, <3>1, <3>2, <3>4, LimitAssumption DEF IInv, EosInv, InRound
    <3>5. CASE stage \in {"ask", "done", "failed"}
      BY <3>1, <3>2, <3>5, LimitAssumption DEF IInv, EosInv, AfterRound
    <3> QED
      BY <3>3, <3>4, <3>5 DEF IInv, TypeOK, Stages
  <2> QED
    BY <2>1, <2>2
<1> QED
  BY <1>1, Invariance, PTL

-----------------------------------------------------------------------------
(* The loop runs out. *)

\* Nobody signs an EVM transaction more than twice.
LEMMA EvmIsShort ==
    ASSUME IInv, driver = "evm"
    PROVE  /\ Len(responses[Sender]) <= 2
           /\ payer # NoPayer => Len(responses[payer]) <= 2
<1>1. payer = NoPayer => responses[Sender] \in {<<>>, <<Transfer>>}
  BY DEF IInv, EvmInv, EvmPlain
<1>2. payer # NoPayer =>
        /\ responses[Sender] \in {<<>>, <<Authorization>>, <<Authorization, Calls>>}
        /\ responses[payer] \in {<<>>, <<Sponsored>>}
  BY DEF IInv, EvmInv, EvmThreeParts
<1>3. \A x, y : Len(<<>>) <= 2 /\ Len(<<x>>) <= 2 /\ Len(<<x, y>>) <= 2
  OBVIOUS
<1> QED BY <1>1, <1>2, <1>3

\* An EOS transaction costs the sender and the fee payer Limit + 1 each.
LEMMA EosIsShort ==
    ASSUME IInv, Apart, driver = "eos"
    PROVE  /\ Len(responses[Sender]) <= Limit + 1
           /\ payer # NoPayer => Len(responses[payer]) <= Limit + 1
<1>1. tx.own \in Seq(Signatures) /\ stage \in Stages /\ TypeOK
  BY DEF IInv, TypeOK, Holdings
<1>2. Sender \in Signers /\ (payer # NoPayer => payer \in Signers)
  BY <1>1, WhoSigns
<1>3. CASE stage = "new"
  BY <1>2, <1>3, LimitAssumption DEF IInv, EosInv
<1>4. CASE stage \in {"first", "more"}
  BY <1>1, <1>2, <1>4, LimitAssumption DEF IInv, EosInv, InRound
<1>5. CASE stage \in {"ask", "done", "failed"}
  BY <1>1, <1>5, LimitAssumption DEF IInv, EosInv, AfterRound
<1> QED BY <1>1, <1>3, <1>4, <1>5 DEF Stages

\* The signatures left are never less than none.
LEMMA LeftCounted ==
    ASSUME IInv, Apart
    PROVE  SignaturesLeft \in Nat /\ StepsLeft \in Nat
<1>1. /\ Len(responses[Sender]) \in Nat
      /\ payer # NoPayer => Len(responses[payer]) \in Nat
  BY WhoSigns DEF IInv, TypeOK
<1>2. SignaturesLeft \in Nat
  <2> DEFINE most == IF driver = "eos" THEN Limit + 1 ELSE 2
  <2>1. SignaturesLeft =
          (most - Len(responses[Sender]))
          + (IF payer = NoPayer THEN 0 ELSE most - Len(responses[payer]))
    BY DEF SignaturesLeft
  <2>2. driver \in {"eos", "evm"}
    BY DriversAssumption DEF IInv, TypeOK
  <2>3. most \in Nat
    BY LimitAssumption
  <2>4. /\ Len(responses[Sender]) <= most
        /\ payer # NoPayer => Len(responses[payer]) <= most
    BY <2>2, EosIsShort, EvmIsShort
  <2> HIDE DEF most
  <2> QED BY <1>1, <2>1, <2>3, <2>4
<1>3. StepsLeft \in Nat
  <2> DEFINE n == SignaturesLeft
  <2>1. n \in Nat
    BY <1>2
  <2>2. StepsLeft \in {0, 4 * n + 1, 4 * n + 2, 4 * n + 0}
    BY DEF StepsLeft, IInv, TypeOK, Stages
  <2> HIDE DEF n
  <2> QED BY <2>1, <2>2
<1> QED BY <1>2, <1>3

\* A signature is one signature less to ask for.
LEMMA SigningTakesOne ==
    ASSUME IInv, Apart, Sign
    PROVE  SignaturesLeft' = SignaturesLeft - 1
<1> DEFINE by == GetSigner(Head(requests).signer)
<1>1. TypeOK
  BY DEF IInv
<1>2. /\ UNCHANGED <<driver, payer>>
      /\ requests # <<>>
      /\ stage \in {"first", "more"}
  BY DEF Sign
<1>3. by = Sender \/ (by = payer /\ payer # NoPayer)
  <2>1. \A a, p : Request(a, p).signer = a
    BY DEF Request
  <2>2. Head(requests).signer \in {NoPayer, Sender, payer}
    <3>1. CASE driver = "eos"
      BY <1>2, <2>1, <3>1 DEF IInv, EosInv, InRound
    <3>2. CASE driver = "evm" /\ payer = NoPayer
      BY <1>2, <2>1, <3>2 DEF IInv, EvmInv, EvmPlain
    <3>3. CASE driver = "evm" /\ payer # NoPayer
      BY <1>2, <2>1, <3>3 DEF IInv, EvmInv, EvmThreeParts
    <3> QED BY <1>1, <3>1, <3>2, <3>3, DriversAssumption DEF TypeOK
  <2> QED BY <2>2 DEF GetSigner
<1>4. PICK made \in Signatures : responses' = [responses EXCEPT ![by] = Append(@, made)]
  <2> DEFINE over == Head(requests).payload
             made == [by |-> by, over |-> over,
                      canonical |-> over.seconds \in canonical[by]]
  <2>0. requests \in Seq(Requests) /\ requests # <<>>
    BY <1>1, <1>2 DEF TypeOK, Requests
  <2>1. Head(requests) \in Requests
    BY <2>0
  <2>2. by \in Addresses
    BY <2>1 DEF GetSigner, Addresses, Requests
  <2>3. made \in Signatures
    BY <2>1, <2>2 DEF Signatures, Requests
  <2>4. responses' = [responses EXCEPT ![by] = Append(@, made)]
    BY DEF Sign
  <2> HIDE DEF made
  <2> QED BY <2>3, <2>4
<1>5. by \in Addresses /\ Sender \in Addresses /\ (payer # NoPayer => payer \in Addresses)
  BY <1>1, <1>3, WhoSigns
<1>6. \A a \in Addresses :
         Len(responses'[a]) = IF a = by THEN Len(responses[a]) + 1 ELSE Len(responses[a])
  <2>1. \A q \in Seq(Signatures) : Len(Append(q, made)) = Len(q) + 1
    OBVIOUS
  <2> HIDE DEF by
  <2> QED BY <1>1, <1>4, <1>5, <2>1 DEF TypeOK
<1>7. \A a \in Addresses : Len(responses[a]) \in Nat
  BY <1>1 DEF TypeOK
<1> HIDE DEF by
<1>8. payer # NoPayer => payer # Sender
  BY <1>1, WhoSigns
<1> DEFINE most == IF driver = "eos" THEN Limit + 1 ELSE 2
<1>9. most \in Nat /\ most' = most
  BY <1>1, LimitAssumption DEF Sign
<1>10. SignaturesLeft =
         (most - Len(responses[Sender]))
         + (IF payer = NoPayer THEN 0 ELSE most - Len(responses[payer]))
  BY DEF SignaturesLeft
<1>11. SignaturesLeft' =
         (most - Len(responses'[Sender]))
         + (IF payer = NoPayer THEN 0 ELSE most - Len(responses'[payer]))
  BY <1>2, <1>9 DEF SignaturesLeft
<1> HIDE DEF most
<1>12. CASE by = Sender
  <2>1. Len(responses'[Sender]) = Len(responses[Sender]) + 1
    BY <1>5, <1>6, <1>12
  <2>2. payer # NoPayer => Len(responses'[payer]) = Len(responses[payer])
    BY <1>5, <1>6, <1>8, <1>12
  <2> QED BY <1>5, <1>7, <1>9, <1>10, <1>11, <2>1, <2>2
<1>13. CASE by = payer /\ payer # NoPayer
  <2>1. Len(responses'[Sender]) = Len(responses[Sender])
    BY <1>5, <1>6, <1>8, <1>13
  <2>2. Len(responses'[payer]) = Len(responses[payer]) + 1
    BY <1>5, <1>6, <1>13
  <2> QED BY <1>5, <1>7, <1>9, <1>10, <1>11, <1>13, <2>1, <2>2
<1> QED BY <1>3, <1>12, <1>13

\* The first hashes are never none.
LEMMA SomethingToSign ==
    ASSUME NEW t
    PROVE  EosHashes(t) # <<>> /\ EvmHashes # <<>>
<1>1. \A x, y : <<x>> # <<>> /\ <<x, y>> # <<>>
  OBVIOUS
<1> QED BY <1>1 DEF EosHashes, EvmHashes

\* The limit bounds the rounds: each step of the loop, signing, completing or
\* asking again, lowers a number that is never below zero, for any limit and
\* whichever signatures are canonical.
THEOREM LimitBoundsRounds ==
    ASSUME Apart PROVE Spec => RoundsRunOut /\ [](StepsLeft \in Nat)
<1>1. IInv /\ IInv' /\ [Next]_vars => [StepsLeft' < StepsLeft]_vars
  <2> SUFFICES ASSUME IInv, IInv', Next
               PROVE  StepsLeft' < StepsLeft
    OBVIOUS
  <2>1. SignaturesLeft \in Nat /\ SignaturesLeft' \in Nat
    <3>1. SignaturesLeft \in Nat
      BY LeftCounted
    <3>2. Apart'
      BY DEF Apart
    <3>3. (SignaturesLeft \in Nat)'
      BY <3>2, LeftCounted, PTL
    <3> QED BY <3>1, <3>3
  <2> DEFINE n == SignaturesLeft
             m == SignaturesLeft'
  <2>2. UNCHANGED <<driver, payer, responses>> => m = n
    BY DEF SignaturesLeft
  <2>3. CASE Prepare
    <3>1. m = n
      BY <2>2, <2>3 DEF Prepare
    <3>2. requests' # <<>>
      BY <2>3, SomethingToSign DEF Prepare, Sighashes
    <3>3. StepsLeft = 4 * n + 1 /\ StepsLeft' = 4 * m + 0
      BY <2>3, <3>2 DEF Prepare, StepsLeft
    <3> QED BY <2>1, <3>1, <3>3
  <2>4. CASE Sign
    <3>1. m = n - 1
      BY <2>4, SigningTakesOne
    <3>2. StepsLeft = 4 * n + 0 /\ StepsLeft' \in {4 * m + 0, 4 * m + 2}
      BY <2>4 DEF Sign, StepsLeft
    <3> QED BY <2>1, <3>1, <3>2
  <2>5. CASE Complete
    <3>1. m = n
      BY <2>2, <2>5 DEF Complete
    <3>2. StepsLeft = 4 * n + 2 /\ StepsLeft' = 4 * m + 1
      BY <2>5 DEF Complete, StepsLeft
    <3> QED BY <2>1, <3>1, <3>2
  <2>6. CASE AskMore
    <3>1. m = n
      BY <2>2, <2>6 DEF AskMore
    <3>2. StepsLeft = 4 * n + 1 /\ StepsLeft' \in {0, 4 * m + 0}
      BY <2>6 DEF AskMore, StepsLeft
    <3> QED BY <2>1, <3>1, <3>2
  <2>7. CASE GiveUp
    <3>1. StepsLeft = 4 * n + 1 /\ StepsLeft' = 0
      BY <2>7 DEF GiveUp, StepsLeft
    <3> QED BY <2>1, <3>1
  <2> QED BY <2>3, <2>4, <2>5, <2>6, <2>7 DEF Next
<1>2. IInv => StepsLeft \in Nat
  BY LeftCounted
<1> QED BY <1>1, <1>2, Invariance, PTL DEF Spec, RoundsRunOut
=============================================================================
