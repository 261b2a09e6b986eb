--------------------------- MODULE SigningRounds ---------------------------
(***************************************************************************)
(* How a built transaction gets its signatures: the caller asks for the     *)
(* first hashes, has them signed, and then asks again and again for hashes  *)
(* that depend on the signatures so far.  Two drivers need the later        *)
(* rounds.  With a fee payer an EVM transaction is signed by the fee payer  *)
(* over the owner's two signatures.  EOS accepts canonical signatures only, *)
(* so its driver lengthens the expiration by a second and asks everybody    *)
(* anew until all signatures of a round are canonical.                      *)
(*                                                                          *)
(* A signer answers the same hash with the same signature; whether the      *)
(* signature over an expiration is canonical is drawn once, in canonical.   *)
(* The list of signatures is kept by address, in the order of signing.      *)
(***************************************************************************)
EXTENDS Integers, Sequences

CONSTANTS
    Drivers,    \* among "evm" and "eos"
    Sender,     \* the owner of the money, the collection's main signer
    Payers,     \* the addresses that may be the fee payer
    NoPayer,    \* the absent address
    Limit       \* signatures after which EOS gives up; 255 in the code

ASSUME DriversAssumption == Drivers \subseteq {"evm", "eos"}
ASSUME LimitAssumption == Limit \in Nat
ASSUME NoPayerAssumption == NoPayer \notin {Sender} \union Payers

VARIABLES
    driver,     \* the transaction's driver
    payer,      \* its fee payer, or NoPayer
    canonical,  \* the seconds at which each address signs canonically
    stage,      \* where the caller's loop is
    requests,   \* the hashes still to be signed in this round
    responses,  \* every signature made so far, by address
    tx          \* the signatures that the transaction holds

vars == <<driver, payer, canonical, stage, requests, responses, tx>>

Addresses == {Sender} \union Payers

Seconds == 0 .. Limit

Stages == {"new", "first", "ask", "more", "done", "failed"}

(***************************************************************************)
(* What is signed: the transfer with its expiration lengthened, or one of   *)
(* the parts of a sponsored EVM transaction, the last of which covers the   *)
(* signatures made over the others.                                         *)
(***************************************************************************)
Parts == {"transfer", "authorization", "calls", "sponsored"}

Payload(part, seconds, under) ==
    [part |-> part, seconds |-> seconds, under |-> under]

Payloads ==
    [part : Parts, seconds : Seconds, under : SUBSET (Addresses \X Parts)]

Signatures == [by : Addresses, over : Payloads, canonical : BOOLEAN]

Request(signer, payload) == [signer |-> signer, payload |-> payload]

\* The collection's main signer answers for the absent address.
GetSigner(address) == IF address = NoPayer THEN Sender ELSE address

Fresh == [own |-> <<>>, payers |-> <<>>]

Final(s) == s[Len(s)]

-----------------------------------------------------------------------------
(* EOS. *)

\* The signatures of the last round; none while somebody's is missing.
LastSignatures(t) ==
    IF t.own = <<>> THEN {}
    ELSE IF payer = NoPayer THEN {Final(t.own)}
    ELSE IF t.payers = <<>> THEN {}
    ELSE {Final(t.own), Final(t.payers)}

AllCanonical(t) ==
    /\ LastSignatures(t) # {}
    /\ \A s \in LastSignatures(t) : s.canonical

MutSigCount(t) == IF LastSignatures(t) = {} THEN 0 ELSE Len(t.own)
MutSigCountStill(t) == 0

\* The seconds added to the expiration; canonical signatures do not count
\* themselves.
SigCount(t) ==
    IF LastSignatures(t) = {} THEN 0
    ELSE IF AllCanonical(t) THEN Len(t.own) - 1
    ELSE Len(t.own)

EosHashes(t) ==
    LET body == Payload("transfer", SigCount(t), {})
    IN  IF payer = NoPayer
        THEN << Request(NoPayer, body) >>
        ELSE << Request(NoPayer, body), Request(payer, body) >>

MutEosGivesUp(t) == ~AllCanonical(t) /\ Len(t.own) >= Limit
MutEosGivesUpLate(t) == ~AllCanonical(t) /\ Len(t.own) > Limit + 1

EosGivesUp(t) == ~AllCanonical(t) /\ Len(t.own) > Limit

\* A signature of the fee payer's address goes to its list alone; that list
\* is not emptied first.
EosSetSignatures(t) ==
    IF payer = NoPayer THEN [t EXCEPT !.own = responses[Sender]]
    ELSE [own |-> IF payer = Sender THEN <<>> ELSE responses[Sender],
          payers |-> t.payers \o responses[payer]]

-----------------------------------------------------------------------------
(* EVM. *)

EvmHashes ==
    IF payer = NoPayer
    THEN << Request(NoPayer, Payload("transfer", 0, {})) >>
    ELSE << Request(Sender, Payload("authorization", 0, {})),
            Request(Sender, Payload("calls", 0, {})) >>

\* What the fee payer signs: everything, the owner's signatures included.
Covered(t) == {<<t.own[i].by, t.own[i].over.part>> : i \in 1 .. Len(t.own)}

EvmAdditional(t) ==
    IF payer = NoPayer \/ t.payers # <<>> THEN <<>>
    ELSE << Request(payer, Payload("sponsored", 0, Covered(t))) >>

EvmSetSignatures ==
    IF payer = NoPayer THEN [Fresh EXCEPT !.own = responses[Sender]]
    ELSE [own |-> responses[Sender], payers |-> responses[payer]]

-----------------------------------------------------------------------------
(* What every driver offers the caller. *)

Sighashes(t) == IF driver = "eos" THEN EosHashes(t) ELSE EvmHashes

GivesUp(t) == driver = "eos" /\ EosGivesUp(t)

AdditionalSighashes(t) ==
    IF driver = "evm" THEN EvmAdditional(t)
    ELSE IF AllCanonical(t) THEN <<>>
    ELSE EosHashes(t)

SetSignatures(t) ==
    IF driver = "eos" THEN EosSetSignatures(t) ELSE EvmSetSignatures

\* The transaction as it is sent, with the signatures that it carries.
Serialize(t) ==
    [seconds |-> IF driver = "eos" THEN SigCount(t) ELSE 0,
     carried |-> IF driver = "eos" THEN LastSignatures(t)
                 ELSE {t.own[i] : i \in 1 .. Len(t.own)}
                      \union {t.payers[i] : i \in 1 .. Len(t.payers)}]

-----------------------------------------------------------------------------
(* The caller's loop. *)

Init ==
    /\ driver \in Drivers
    /\ payer \in Payers \union {NoPayer}
    /\ canonical \in [Addresses -> SUBSET Seconds]
    /\ stage = "new"
    /\ requests = <<>>
    /\ responses = [a \in Addresses |-> <<>>]
    /\ tx = Fresh

Prepare ==
    /\ stage = "new"
    /\ requests' = Sighashes(Fresh)
    /\ stage' = "first"
    /\ UNCHANGED <<driver, payer, canonical, responses, tx>>

Sign ==
    /\ stage \in {"first", "more"}
    /\ requests # <<>>
    /\ LET over == Head(requests).payload
           by == GetSigner(Head(requests).signer)
           made == [by |-> by, over |-> over,
                    canonical |-> over.seconds \in canonical[by]]
       IN  responses' = [responses EXCEPT ![by] = Append(@, made)]
    /\ requests' = Tail(requests)
    /\ UNCHANGED <<driver, payer, canonical, stage, tx>>

\* After the first round the transaction is built again, which leaves it
\* without signatures; later rounds keep it.
Complete ==
    /\ stage \in {"first", "more"}
    /\ requests = <<>>
    /\ tx' = SetSignatures(IF stage = "first" THEN Fresh ELSE tx)
    /\ stage' = "ask"
    /\ UNCHANGED <<driver, payer, canonical, requests, responses>>

AskMore ==
    /\ stage = "ask"
    /\ ~GivesUp(tx)
    /\ requests' = AdditionalSighashes(tx)
    /\ stage' = IF requests' = <<>> THEN "done" ELSE "more"
    /\ UNCHANGED <<driver, payer, canonical, responses, tx>>

MutGiveUp ==
    /\ stage = "ask"
    /\ GivesUp(tx)
    /\ stage' = "ask"
    /\ UNCHANGED <<driver, payer, canonical, requests, responses, tx>>

GiveUp ==
    /\ stage = "ask"
    /\ GivesUp(tx)
    /\ stage' = "failed"
    /\ UNCHANGED <<driver, payer, canonical, requests, responses, tx>>

Next == Prepare \/ Sign \/ Complete \/ AskMore \/ GiveUp

Spec == Init /\ [][Next]_vars

FairSpec == Spec /\ WF_vars(Next)

-----------------------------------------------------------------------------
(* Properties. *)

Holdings == [own : Seq(Signatures), payers : Seq(Signatures)]

\* The variables hold what the code's types allow; in particular no
\* expiration is lengthened by more than Limit seconds.
TypeOK ==
    /\ driver \in Drivers
    /\ payer \in Payers \union {NoPayer}
    /\ canonical \in [Addresses -> SUBSET Seconds]
    /\ stage \in Stages
    /\ requests \in
         Seq([signer : Addresses \union {NoPayer}, payload : Payloads])
    /\ responses \in [Addresses -> Seq(Signatures)]
    /\ tx \in Holdings

Signers == {Sender} \union ({payer} \ {NoPayer})

\* Who must have signed what, given the lengthened expiration.
Expected(seconds) ==
    IF driver = "eos" \/ payer = NoPayer
    THEN {<<a, Payload("transfer", seconds, {})>> : a \in Signers}
    ELSE LET owners == {"authorization", "calls"}
         IN  {<<Sender, Payload(p, 0, {})>> : p \in owners}
             \union {<<payer, Payload("sponsored", 0, {Sender} \X owners)>>}

\* What is sent carries a signature of every required signer over exactly
\* what is sent, and nothing else: no signature of an earlier round, of an
\* earlier build or over another expiration.  EOS signatures are canonical.
SignedAsSent ==
    stage = "done" =>
        LET sent == Serialize(tx)
        IN  /\ {<<s.by, s.over>> : s \in sent.carried} = Expected(sent.seconds)
            /\ driver = "eos" => \A s \in sent.carried : s.canonical

Hopeless(seconds) == \E a \in Signers : seconds \notin canonical[a]

\* EOS stops at the first expiration that everybody signs canonically, and
\* gives up only after the last one it may use.
NoSecondIsSkipped ==
    driver = "eos" =>
        /\ stage = "done" =>
               \A n \in Seconds : n < SigCount(tx) => Hopeless(n)
        /\ stage = "failed" => \A n \in Seconds : Hopeless(n)

\* No address is asked twice for a signature over the same hash: a signer
\* that always gives the same answer would never get any further.
EveryHashOnce ==
    \A a \in Addresses : \A i, j \in 1 .. Len(responses[a]) :
        responses[a][i].over = responses[a][j].over => i = j

\* An EOS transaction goes through Limit + 1 rounds at most, and each of them
\* asks an address once, or twice if it is both sender and fee payer.
RoundsAreBounded ==
    driver = "eos" => \A a \in Addresses :
        Len(responses[a]) <=
            IF a = Sender /\ a = payer THEN 2 * (Limit + 1) ELSE Limit + 1

\* The signatures that the signers may still be asked for.
SignaturesLeft ==
    LET most == IF driver = "eos" THEN Limit + 1 ELSE 2
        left(a) == most - Len(responses[a])
    IN  left(Sender) + (IF payer = NoPayer THEN 0 ELSE left(payer))

\* A bound on the steps left: four for each signature, and what is left of
\* the round.
StepsLeft ==
    CASE stage \in {"done", "failed"} -> 0
      [] stage \in {"new", "ask"}     -> 4 * SignaturesLeft + 1
      [] stage \in {"first", "more"}  ->
             4 * SignaturesLeft + (IF requests = <<>> THEN 2 ELSE 0)

\* Every step of the loop brings it nearer to its end, so that the limit
\* bounds the rounds and with them the caller's work.
RoundsRunOut == [][StepsLeft' < StepsLeft]_vars

\* Signing ends, with a transaction to send or with an error.
SigningEnds == <>(stage \in {"done", "failed"})

=============================================================================
