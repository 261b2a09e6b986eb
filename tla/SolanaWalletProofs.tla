------------------------- MODULE SolanaWalletProofs -------------------------
(***************************************************************************)
(* Proofs about SolanaWallet, for every margin, lifetime and delay that    *)
(* fit together, every set of payments and every bound.                    *)
(*                                                                         *)
(* The argument.  Two attempts of a payment that share a nonce, or both    *)
(* create it, exclude each other.  Otherwise the timeout let the later one *)
(* be signed.  If the earlier one has a blockhash, it had expired when the *)
(* later one began: the timestamp is taken at most FetchDelay before the   *)
(* blockhash.  It had not landed either, for the caller looked.  What is   *)
(* left are earlier attempts with a durable nonce, which do not expire.    *)
(***************************************************************************)
EXTENDS SolanaWallet, TLAPS

\* The attempt did not execute and never will, for it has expired or the
\* account it is to create exists.
Dead(a) ==
    /\ a \notin executed /\ ~Durable(a.input)
    /\ \/ now > a.input.blockhash + Lifetime
       \/ Creates(a.input) /\ nonceValue[EffectiveAccount(a.input)] # 0

\* Why two attempts of a payment may both have been signed.
Explained ==
    \A a, b \in signed : (a.payment = b.payment /\ a # b) =>
        \/ SameNonce(a.input, b.input)
        \/ Dead(a) \/ Dead(b)
        \/ Abandons(a, b) \/ Abandons(b, a)

\* Inputs that were fetched to the end.
Fetched(i) ==
    \/ \E a \in signed : i = a.input
    \/ \E p \in Payments : held[p].stage = "ready" /\ i = held[p].input

\* A durable nonce that was read is not ahead of the chain's, and the
\* blockhash is not much younger than the timestamp.
ReadBefore ==
    \A i \in Input : Fetched(i) =>
        /\ Durable(i) => EffectiveNonce(i).value <= nonceValue[EffectiveAccount(i)]
        /\ i.blockhash <= i.timestamp + FetchDelay

HashInTime ==
    \A p \in Payments : held[p].stage = "hash" =>
        held[p].blockhash <= held[p].timestamp + FetchDelay

\* An attempt that executed is past its nonce.
ExecutedPast ==
    \A a \in executed :
        /\ Durable(a.input) =>
              EffectiveNonce(a.input).value < nonceValue[EffectiveAccount(a.input)]
        /\ Creates(a.input) => nonceValue[EffectiveAccount(a.input)] > 0

ExecutedOnce ==
    \A a, b \in executed : SameNonce(a.input, b.input) => a = b

StampOf(h) == IF h.stage = "ready" THEN h.input.timestamp ELSE h.timestamp

\* Attempts that have timed out for the input in the caller's hand are dead.
TimedOutIsDead ==
    \A p \in Payments, a \in signed :
        (/\ held[p].stage # "none" /\ a.payment = p /\ ~Durable(a.input)
         /\ StampOf(held[p]) >= a.input.timestamp + Margin) => Dead(a)

\* When lookups do not fail, the account an attempt used is found again by an
\* input that is looked up in the same accounts.
Finds(i, j) ==
    (Durable(j) /\ i.accounts = j.accounts) =>
        IF j.payer.mode # "none" THEN i.payer.mode = "has" ELSE i.from.mode = "has"

AccountsAreFound ==
    ~flaky => \A p \in Payments, a \in signed :
        (held[p].stage = "ready" /\ a.payment = p) => Finds(held[p].input, a.input)

TriesInBound == \A a \in signed : a.try <= MaxAttempts

IInv == /\ TypeOK /\ Explained /\ ReadBefore /\ HashInTime /\ ExecutedPast
        /\ ExecutedOnce /\ TimedOutIsDead /\ AccountsAreFound /\ TriesInBound

----------------------------------------------------------------------------
(* Reads and nonces. *)

\* What a lookup has returned, of account c.
ReadOf(n, c) ==
    /\ n.mode = "has" => n.value = nonceValue[c]
    /\ ~flaky => (n.mode = "has" <=> nonceValue[c] # 0)

LEMMA Reads ==
    ASSUME TypeOK, NEW c \in NonceAccounts, NEW authorities
    PROVE  \A n \in NonceReads(c, authorities) : n \in NonceRead /\ ReadOf(n, c)
BY DEF TypeOK, NonceReads, NonceRead, ToCreate, NoNonce, ReadOf

\* The accounts that are looked up.
LEMMA LookupsTyped ==
    ASSUME NEW sponsored \in Kinds, NEW n \in Names
    PROVE  [from |-> FromAccount(sponsored, n), payer |-> PayerAccount(sponsored, n)]
              \in Lookups
BY ConstantsAssumption DEF ConstantsAssumption, FromAccount, PayerAccount, Lookups, NonceAccounts

\* The nonce account of an input, and what is read of it.
LEMMA Effective ==
    ASSUME NEW i \in Input
    PROVE  /\ EffectiveNonce(i) \in NonceRead
           /\ EffectiveAccount(i) \in NonceAccounts \cup {"zero"}
           /\ EffectiveAccount(i) = "zero" <=> EffectiveNonce(i).mode = "none"
           /\ Durable(i) => EffectiveNonce(i).value \in Nat \ {0}
           /\ Creates(i) => EffectiveNonce(i).value = 0
           /\ Durable(i) => ~Creates(i) /\ HasDurableNonce(i)
           /\ EffectiveAccount(i) # "zero" /\ ~Durable(i) => Creates(i)
<1>1. /\ i.from \in NonceRead /\ i.payer \in NonceRead
      /\ i.accounts.from \in NonceAccounts
      /\ i.payer.mode # "none" => i.accounts.payer \in NonceAccounts
  BY DEF Input, Lookups, NoNonce
<1>2. EffectiveNonce(i) \in NonceRead
  BY <1>1 DEF EffectiveNonce
<1>3. \A r \in NonceRead : /\ r.mode \in {"has", "create", "none"}
                           /\ r.mode = "has" => r.value \in Nat \ {0}
                           /\ r.mode = "create" => r.value = 0
  BY DEF NonceRead
<1>4. EffectiveAccount(i) \in NonceAccounts \cup {"zero"}
  BY <1>1 DEF EffectiveAccount
<1>5. EffectiveAccount(i) = "zero" <=> EffectiveNonce(i).mode = "none"
  <2>1. "zero" \notin NonceAccounts
    BY ConstantsAssumption DEF ConstantsAssumption, NonceAccounts
  <2> QED BY <1>1, <2>1 DEF EffectiveAccount, EffectiveNonce
<1>6. Durable(i) => HasDurableNonce(i)
  BY DEF Durable, HasDurableNonce, EffectiveNonce
<1> QED BY <1>2, <1>3, <1>4, <1>5, <1>6 DEF Durable, Creates

\* What is read alike is the same nonce.
LEMMA SameRead ==
    ASSUME NEW i \in Input, NEW j \in Input,
           EffectiveAccount(i) = EffectiveAccount(j), EffectiveAccount(i) # "zero",
           \/ Creates(i) /\ Creates(j)
           \/ Durable(i) /\ Durable(j) /\ EffectiveNonce(i).value = EffectiveNonce(j).value
    PROVE  SameNonce(i, j)
<1>1. \A r, s \in NonceRead : (r.mode = s.mode /\ r.value = s.value) => r = s
  BY DEF NonceRead
<1>2. EffectiveNonce(i).mode = EffectiveNonce(j).mode
      /\ EffectiveNonce(i).value = EffectiveNonce(j).value
  BY Effective DEF Creates, Durable
<1> QED BY <1>1, <1>2, Effective DEF SameNonce, SameAccount

\* The input a fetch ends with.
LEMMA FreshInput ==
    ASSUME TypeOK, NEW p \in Payments, FetchDurableNonce(p)
    PROVE  LET i == held'[p].input
           IN  /\ held' = [held EXCEPT ![p] = [stage |-> "ready", input |-> i]]
               /\ held'[p].stage = "ready" /\ i \in Input
               /\ i.timestamp = held[p].timestamp /\ i.blockhash = held[p].blockhash
               /\ ReadOf(i.from, i.accounts.from)
               /\ i.payer.mode # "none" => ReadOf(i.payer, i.accounts.payer)
               /\ i.accounts.payer # "none" => ReadOf(i.payer, i.accounts.payer)
<1>1. held[p] \in [stage : {"hash"}, timestamp : Nat, accounts : Lookups, blockhash : Nat]
  BY DEF FetchDurableNonce, TypeOK, Held, NoInput
<1>2. PICK l \in Lookups : l = held[p].accounts
  BY <1>1
<1>3. l.from \in NonceAccounts /\ (l.payer # "none" => l.payer \in NonceAccounts)
  BY DEF Lookups
<1>4. PICK r \in NonceReads(l.from, {"from"}),
           q \in IF l.payer = "none" THEN {NoNonce} ELSE NonceReads(l.payer, {"from", "payer"}) :
           held' = [held EXCEPT ![p] =
              [stage |-> "ready",
               input |-> [timestamp |-> held[p].timestamp, blockhash |-> held[p].blockhash,
                          accounts |-> l, from |-> r, payer |-> q]]]
  BY <1>2 DEF FetchDurableNonce
<1> DEFINE i == [timestamp |-> held[p].timestamp, blockhash |-> held[p].blockhash,
                 accounts |-> l, from |-> r, payer |-> q]
<1>5. /\ held' = [held EXCEPT ![p] = [stage |-> "ready", input |-> i]]
      /\ held'[p].input = i /\ held'[p].stage = "ready"
  BY <1>4 DEF TypeOK
<1>6. /\ i.timestamp = held[p].timestamp /\ i.blockhash = held[p].blockhash
      /\ i.accounts = l /\ i.from = r /\ i.payer = q
  OBVIOUS
<1>7. r \in NonceRead /\ ReadOf(r, l.from)
  BY <1>3, Reads
<1>8. CASE l.payer = "none"
  <2>1. q = NoNonce
    BY <1>4, <1>8
  <2>2. q \in NonceRead /\ q.mode = "none"
    BY <2>1 DEF NoNonce, NonceRead
  <2>3. i \in Input
    BY <1>1, <1>7, <2>1, <2>2 DEF Input
  <2> HIDE DEF i
  <2> QED BY <1>5, <1>7, <1>8, <1>6, <2>2, <2>3
<1>9. CASE l.payer # "none"
  <2>1. q \in NonceReads(l.payer, {"from", "payer"})
    BY <1>4, <1>9
  <2>2. q \in NonceRead /\ ReadOf(q, l.payer)
    BY <1>3, <1>9, <2>1, Reads
  <2>3. i \in Input
    BY <1>1, <1>7, <1>9, <2>2 DEF Input
  <2> HIDE DEF i
  <2> QED BY <1>5, <1>7, <1>6, <2>2, <2>3
<1> QED BY <1>8, <1>9

\* The nonce it uses or makes.
LEMMA FreshNonce ==
    ASSUME TypeOK, NEW p \in Payments, FetchDurableNonce(p), NEW i, i = held'[p].input
    PROVE  /\ Durable(i) => EffectiveNonce(i).value = nonceValue[EffectiveAccount(i)]
           /\ ~flaky /\ EffectiveAccount(i) # "zero" =>
                 (Durable(i) <=> nonceValue[EffectiveAccount(i)] # 0)
BY FreshInput DEF Durable, EffectiveNonce, EffectiveAccount, ReadOf

----------------------------------------------------------------------------
LEMMA Typing == Spec => []TypeOK
<1>1. Init => TypeOK
  BY DEF Init, TypeOK, Held, NoInput, NonceAccounts
<1>2. TypeOK /\ [Next]_vars => TypeOK'
  <2> SUFFICES ASSUME TypeOK, [Next]_vars
               PROVE  TypeOK'
    OBVIOUS
  <2>1. CASE Tick
    BY <2>1 DEF Tick, TypeOK
  <2>2. ASSUME NEW p \in Payments, Begin(p) PROVE TypeOK'
    <3>1. \A l \in Lookups : [stage |-> "args", timestamp |-> now, accounts |-> l] \in Held
      BY DEF Held, TypeOK
    <3>2. PICK s \in Kinds, n \in Names : held' = [held EXCEPT ![p] =
             [stage |-> "args", timestamp |-> now,
              accounts |-> [from |-> FromAccount(s, n), payer |-> PayerAccount(s, n)]]]
      BY <2>2 DEF Begin
    <3> QED BY <2>2, <3>1, <3>2, LookupsTyped DEF Begin, TypeOK
  <2>3. ASSUME NEW p \in Payments, FetchBlockhash(p) PROVE TypeOK'
    <3>1. held[p] \in [stage : {"args"}, timestamp : Nat, accounts : Lookups]
      BY <2>3 DEF FetchBlockhash, TypeOK, Held, NoInput
    <3>2. [stage |-> "hash", timestamp |-> held[p].timestamp,
           accounts |-> held[p].accounts, blockhash |-> now] \in Held
      BY <3>1 DEF Held, TypeOK
    <3> QED BY <2>3, <3>2 DEF FetchBlockhash, TypeOK
  <2>4. ASSUME NEW p \in Payments, FetchDurableNonce(p) PROVE TypeOK'
    <3>1. held'[p].stage = "ready" /\ held'[p].input \in Input
          /\ held' = [held EXCEPT ![p] = [stage |-> "ready", input |-> held'[p].input]]
      BY <2>4, FreshInput
    <3> QED BY <2>4, <3>1 DEF FetchDurableNonce, TypeOK, Held
  <2>5. ASSUME NEW p \in Payments, Sign(p) PROVE TypeOK'
    <3>1. held[p].input \in Input
      BY <2>5 DEF Sign, TypeOK, Held, NoInput
    <3>2. 1 .. MaxAttempts \subseteq Nat \ {0}
      BY ConstantsAssumption DEF ConstantsAssumption
    <3>3. signed' \subseteq Attempt /\ signed \subseteq signed'
      BY <2>5, <3>1, <3>2 DEF Sign, Attempt, TypeOK
    <3>4. held' \in [Payments -> Held]
      BY <2>5 DEF Sign, TypeOK, Held
    <3> QED BY <2>5, <3>3, <3>4 DEF Sign, TypeOK
  <2>6. ASSUME NEW a \in signed, Execute(a) PROVE TypeOK'
    BY <2>6 DEF Execute, TypeOK
  <2>7. ASSUME NEW a \in signed, Fail(a) PROVE TypeOK'
    BY <2>7 DEF Fail, TypeOK
  <2>8. ASSUME NEW c \in NonceAccounts, UseOutside(c) PROVE TypeOK'
    BY <2>8 DEF UseOutside, TypeOK
  <2>9. CASE UNCHANGED vars
    BY <2>9 DEF vars, TypeOK
  <2> QED BY <2>1, <2>2, <2>3, <2>4, <2>5, <2>6, <2>7, <2>8, <2>9 DEF Next
<1> QED BY <1>1, <1>2, PTL DEF Spec

\* Every variable keeps its type: in particular only attempts that were
\* signed have an outcome.
THEOREM TypeCorrect == Spec => []TypeOK
BY Typing

----------------------------------------------------------------------------
(* What the chain does. *)

\* Time and nonces go forward.
LEMMA Forward ==
    ASSUME TypeOK, [Next]_vars
    PROVE  /\ now <= now' /\ signed \subseteq signed' /\ executed \subseteq executed'
           /\ \A c \in NonceAccounts : nonceValue[c] <= nonceValue'[c]
<1>1. CASE Tick \/ \E p \in Payments : Begin(p) \/ FetchBlockhash(p) \/ FetchDurableNonce(p) \/ Sign(p)
  BY <1>1 DEF Tick, Begin, FetchBlockhash, FetchDurableNonce, Sign, TypeOK
<1>2. ASSUME NEW a \in signed, Execute(a) \/ Fail(a)
      PROVE  /\ UNCHANGED <<now, signed>> /\ executed \subseteq executed'
             /\ \A c \in NonceAccounts : nonceValue[c] <= nonceValue'[c]
  BY <1>2 DEF Execute, Fail, TypeOK
<1>3. ASSUME NEW d \in NonceAccounts, UseOutside(d)
      PROVE  /\ UNCHANGED <<now, signed, executed>>
             /\ \A c \in NonceAccounts : nonceValue[c] <= nonceValue'[c]
  BY <1>3 DEF UseOutside, TypeOK
<1>4. CASE UNCHANGED vars
  BY <1>4 DEF vars, TypeOK
<1> QED BY <1>1, <1>2, <1>3, <1>4 DEF Next, TypeOK

\* Only Execute makes an attempt execute, and never a dead one.
LEMMA DeadStays ==
    ASSUME TypeOK, TypeOK', [Next]_vars, NEW a \in signed, Dead(a)
    PROVE  Dead(a)'
<1>1. a \in Attempt /\ a.input \in Input
  BY DEF TypeOK, Attempt
<1>2. Creates(a.input) => EffectiveAccount(a.input) \in NonceAccounts
  BY <1>1, Effective DEF Creates
<1>3. Dead(a) => ~Durable(a.input) /\ a \notin executed
  BY DEF Dead
<1>4. \/ now' > a.input.blockhash + Lifetime
      \/ Creates(a.input) /\ nonceValue'[EffectiveAccount(a.input)] # 0
  <2>1. a.input.blockhash + Lifetime \in Nat
    BY <1>1, ConstantsAssumption DEF Input, ConstantsAssumption
  <2>2. CASE now > a.input.blockhash + Lifetime
    BY <2>1, <2>2, Forward DEF TypeOK
  <2>3. CASE Creates(a.input) /\ nonceValue[EffectiveAccount(a.input)] # 0
    BY <2>3, <1>2, Forward DEF TypeOK
  <2> QED BY <2>2, <2>3 DEF Dead
<1>5. a \notin executed'
  <2>1. ASSUME NEW b \in signed, Execute(b) PROVE a # b
    <3>1. b.input.blockhash + Lifetime \in Nat
      BY ConstantsAssumption DEF TypeOK, Attempt, Input, ConstantsAssumption
    <3>2. ~Durable(b.input) => now <= b.input.blockhash + Lifetime
      BY <2>1 DEF Execute, Acceptable
    <3>3. Creates(b.input) => nonceValue[EffectiveAccount(b.input)] = 0
      BY <2>1 DEF Execute
    <3> QED BY <3>1, <3>2, <3>3 DEF Dead, TypeOK
  <2>2. ASSUME NEW b \in signed, Execute(b) PROVE executed' = executed \cup {b}
    BY <2>2 DEF Execute
  <2>3. CASE \A b \in signed : ~Execute(b)
    <3>1. executed' = executed
      BY <2>3 DEF Next, Tick, Begin, FetchBlockhash, FetchDurableNonce, Sign, Fail,
         UseOutside, vars
    <3> QED BY <3>1, <1>3
  <2> QED BY <2>1, <2>2, <2>3, <1>3
<1> QED BY <1>3, <1>4, <1>5 DEF Dead

\* The account an attempt uses moves on when it executes.
LEMMA ExecuteKeeps ==
    ASSUME IInv, NEW b \in signed, Execute(b)
    PROVE  ExecutedPast' /\ ExecutedOnce'
<1>1. executed' = executed \cup {b} /\ b \notin executed
  BY DEF Execute, Included
<1>2. \A c \in NonceAccounts : nonceValue'[c] =
          IF c = EffectiveAccount(b.input) THEN nonceValue[c] + 1 ELSE nonceValue[c]
  BY DEF Execute
<1>3. \A a \in signed : a.input \in Input
  BY DEF IInv, TypeOK, Attempt
<1>4. \A a \in signed : Durable(a.input) \/ Creates(a.input)
                          => EffectiveAccount(a.input) \in NonceAccounts
  BY <1>3, Effective DEF Durable, Creates
<1>5. /\ Durable(b.input) =>
            nonceValue[EffectiveAccount(b.input)] = EffectiveNonce(b.input).value
      /\ Creates(b.input) => nonceValue[EffectiveAccount(b.input)] = 0
  BY DEF Execute, Acceptable
<1>6. executed \subseteq signed /\ nonceValue \in [NonceAccounts -> Nat]
  BY DEF IInv, TypeOK
<1>7. ExecutedPast'
  <2> SUFFICES ASSUME NEW a \in executed \cup {b}
               PROVE  /\ Durable(a.input) =>
                            EffectiveNonce(a.input).value < nonceValue'[EffectiveAccount(a.input)]
                      /\ Creates(a.input) => nonceValue'[EffectiveAccount(a.input)] > 0
    BY <1>1 DEF ExecutedPast
  <2>1. a \in signed
    BY <1>6
  <2>2. Durable(a.input) => EffectiveNonce(a.input).value \in Nat
    BY <2>1, <1>3, Effective
  <2>3. CASE a = b
    BY <2>1, <2>2, <2>3, <1>2, <1>4, <1>5, <1>6
  <2>4. CASE a \in executed
    <3>1. Durable(a.input) => EffectiveNonce(a.input).value < nonceValue[EffectiveAccount(a.input)]
      BY <2>4 DEF IInv, ExecutedPast
    <3>2. Creates(a.input) => nonceValue[EffectiveAccount(a.input)] > 0
      BY <2>4 DEF IInv, ExecutedPast
    <3> QED BY <3>1, <3>2, <2>1, <2>2, <1>2, <1>4, <1>6
  <2> QED BY <2>3, <2>4
<1>8. \A a \in executed : ~SameNonce(a.input, b.input) /\ ~SameNonce(b.input, a.input)
  <2> SUFFICES ASSUME NEW a \in executed,
                      EffectiveAccount(a.input) = EffectiveAccount(b.input),
                      EffectiveAccount(b.input) # "zero",
                      EffectiveNonce(a.input) = EffectiveNonce(b.input)
               PROVE  FALSE
    BY DEF SameNonce, SameAccount
  <2>1. a \in signed
    BY <1>6
  <2>2. CASE Durable(b.input)
    <3>1. Durable(a.input) /\ EffectiveNonce(b.input).value \in Nat
      BY <2>2, <1>3, Effective DEF Durable
    <3>2. EffectiveNonce(b.input).value < nonceValue[EffectiveAccount(b.input)]
      BY <3>1 DEF IInv, ExecutedPast
    <3> QED BY <3>1, <3>2, <2>2, <1>5
  <2>3. CASE ~Durable(b.input)
    <3>1. Creates(b.input) /\ Creates(a.input)
      BY <2>3, <1>3, Effective DEF Creates
    <3>2. nonceValue[EffectiveAccount(b.input)] > 0
      BY <3>1 DEF IInv, ExecutedPast
    <3> QED BY <3>1, <3>2, <1>5
  <2> QED BY <2>2, <2>3
<1>9. ExecutedOnce'
  BY <1>1, <1>8 DEF IInv, ExecutedOnce
<1> QED BY <1>7, <1>9

\* Nothing else makes an attempt execute.
LEMMA OthersKeep ==
    ASSUME IInv, [Next]_vars, \A b \in signed : ~Execute(b)
    PROVE  ExecutedPast' /\ ExecutedOnce'
<1>1. executed' = executed
  BY DEF Next, Tick, Begin, FetchBlockhash, FetchDurableNonce, Sign, Fail, UseOutside, vars
<1>2. ASSUME NEW a \in executed
      PROVE  /\ Durable(a.input) =>
                   EffectiveNonce(a.input).value < nonceValue'[EffectiveAccount(a.input)]
             /\ Creates(a.input) => nonceValue'[EffectiveAccount(a.input)] > 0
  <2>1. a.input \in Input /\ TypeOK
    BY DEF IInv, TypeOK, Attempt
  <2>2. Durable(a.input) \/ Creates(a.input) => EffectiveAccount(a.input) \in NonceAccounts
    BY <2>1, Effective DEF Durable, Creates
  <2>3. Durable(a.input) => EffectiveNonce(a.input).value \in Nat
    BY <2>1, Effective
  <2>4. \A c \in NonceAccounts : /\ nonceValue[c] <= nonceValue'[c]
                                 /\ nonceValue[c] \in Nat
    BY <2>1, Forward DEF TypeOK
  <2>5. nonceValue' \in [NonceAccounts -> Nat]
    BY DEF IInv, TypeOK, Next, Tick, Begin, FetchBlockhash, FetchDurableNonce, Sign, Fail,
       UseOutside, vars
  <2>6. /\ Durable(a.input) =>
              EffectiveNonce(a.input).value < nonceValue[EffectiveAccount(a.input)]
        /\ Creates(a.input) => nonceValue[EffectiveAccount(a.input)] > 0
    BY DEF IInv, ExecutedPast
  <2> QED BY <2>2, <2>3, <2>4, <2>5, <2>6
<1> QED BY <1>1, <1>2 DEF ExecutedPast, ExecutedOnce, IInv

----------------------------------------------------------------------------
(* What the caller does. *)

\* Whoever has timed out when an attempt begins had expired, and the caller
\* has looked: it is dead.
LEMMA BeginKeeps ==
    ASSUME IInv, NEW p \in Payments, Begin(p)
    PROVE  TimedOutIsDead'
<1>1. /\ UNCHANGED <<now, nonceValue, signed, executed>>
      /\ \A a \in Included : a.payment # p
      /\ held'[p].stage = "args" /\ held'[p].timestamp = now
      /\ \A q \in Payments : q # p => held'[q] = held[q]
  BY DEF Begin, IInv, TypeOK
<1> SUFFICES ASSUME NEW q \in Payments, NEW a \in signed,
                    held'[q].stage # "none", a.payment = q, ~Durable(a.input),
                    StampOf(held'[q]) >= a.input.timestamp + Margin
             PROVE  Dead(a)
  BY <1>1 DEF TimedOutIsDead, Dead, StampOf
<1>2. CASE q # p
  BY <1>1, <1>2 DEF IInv, TimedOutIsDead
<1>3. CASE q = p
  <2>1. a \notin executed
    BY <1>1, <1>3 DEF Included
  <2>2. a.input \in Input /\ Fetched(a.input)
    BY DEF IInv, TypeOK, Attempt, Fetched
  <2>3. a.input.blockhash <= a.input.timestamp + FetchDelay
    BY <2>2 DEF IInv, ReadBefore
  <2>4. now >= a.input.timestamp + Margin
    BY <1>1, <1>3 DEF StampOf
  <2>5. a.input.blockhash \in Nat /\ a.input.timestamp \in Nat /\ now \in Nat
    BY <2>2 DEF Input, IInv, TypeOK
  <2>6. now > a.input.blockhash + Lifetime
    BY <2>3, <2>4, <2>5, ConstantsAssumption DEF ConstantsAssumption
  <2> QED BY <2>1, <2>6 DEF Dead
<1> QED BY <1>2, <1>3

\* A fetch keeps its timestamp to the end.
LEMMA FetchKeepsStamp ==
    ASSUME IInv, NEW p \in Payments, FetchBlockhash(p) \/ FetchDurableNonce(p)
    PROVE  TimedOutIsDead'
<1>1. /\ UNCHANGED <<now, nonceValue, signed, executed>>
      /\ held[p].stage \in {"args", "hash"}
      /\ held'[p].stage # "none" /\ StampOf(held'[p]) = held[p].timestamp
      /\ \A q \in Payments : q # p => held'[q] = held[q]
  <2>1. CASE FetchBlockhash(p)
    BY <2>1 DEF FetchBlockhash, StampOf, IInv, TypeOK
  <2>2. CASE FetchDurableNonce(p)
    BY <2>2 DEF FetchDurableNonce, StampOf, IInv, TypeOK
  <2> QED BY <2>1, <2>2
<1>2. StampOf(held[p]) = held[p].timestamp
  BY <1>1 DEF StampOf
<1> SUFFICES ASSUME NEW q \in Payments, NEW a \in signed,
                    held'[q].stage # "none", a.payment = q, ~Durable(a.input),
                    StampOf(held'[q]) >= a.input.timestamp + Margin
             PROVE  Dead(a)
  BY <1>1 DEF TimedOutIsDead, Dead, StampOf
<1>3. held[q].stage # "none" /\ StampOf(held[q]) = StampOf(held'[q])
  BY <1>1, <1>2
<1> QED BY <1>3 DEF IInv, TimedOutIsDead

\* What is read is what the chain has.
LEMMA ReadsKeep ==
    ASSUME IInv, NEW p \in Payments,
           Begin(p) \/ FetchBlockhash(p) \/ FetchDurableNonce(p)
    PROVE  ReadBefore' /\ HashInTime'
<1>1. /\ UNCHANGED <<nonceValue, signed>>
      /\ \A q \in Payments : q # p => held'[q] = held[q]
  BY DEF Begin, FetchBlockhash, FetchDurableNonce, IInv, TypeOK
<1>2. HashInTime'
  <2>1. held'[p].stage = "hash" => held'[p].blockhash <= held'[p].timestamp + FetchDelay
    <3>1. CASE Begin(p)
      BY <3>1 DEF Begin, IInv, TypeOK
    <3>2. CASE FetchBlockhash(p)
      BY <3>2 DEF FetchBlockhash, IInv, TypeOK
    <3>3. CASE FetchDurableNonce(p)
      BY <3>3 DEF FetchDurableNonce, IInv, TypeOK
    <3> QED BY <3>1, <3>2, <3>3
  <2> QED BY <2>1, <1>1 DEF HashInTime, IInv
<1>3. ASSUME NEW i \in Input, held'[p].stage = "ready", i = held'[p].input
      PROVE  /\ Durable(i) => EffectiveNonce(i).value <= nonceValue[EffectiveAccount(i)]
             /\ i.blockhash <= i.timestamp + FetchDelay
  <2>1. FetchDurableNonce(p)
    BY <1>3 DEF Begin, FetchBlockhash, IInv, TypeOK
  <2>2. TypeOK
    BY DEF IInv
  <2>3. i.blockhash = held[p].blockhash /\ i.timestamp = held[p].timestamp
    BY <1>3, <2>1, <2>2, FreshInput
  <2>6. Durable(i) => EffectiveNonce(i).value = nonceValue[EffectiveAccount(i)]
    BY <1>3, <2>1, <2>2, FreshNonce
  <2>7. Durable(i) => EffectiveNonce(i).value \in Nat
    BY Effective
  <2>8. held[p].blockhash <= held[p].timestamp + FetchDelay
    BY <2>1 DEF FetchDurableNonce, IInv, HashInTime
  <2> QED BY <2>3, <2>6, <2>7, <2>8
<1>4. ReadBefore'
  <2> SUFFICES ASSUME NEW i \in Input, Fetched(i)'
               PROVE  /\ Durable(i) => EffectiveNonce(i).value <= nonceValue[EffectiveAccount(i)]
                      /\ i.blockhash <= i.timestamp + FetchDelay
    BY <1>1 DEF ReadBefore
  <2>1. CASE Fetched(i)
    BY <2>1 DEF IInv, ReadBefore
  <2>2. CASE ~Fetched(i)
    <3>1. held'[p].stage = "ready" /\ i = held'[p].input
      BY <1>1, <2>2 DEF Fetched
    <3> QED BY <3>1, <1>3
  <2> QED BY <2>1, <2>2
<1> QED BY <1>2, <1>4

\* SafeFromDoubleSend, on an earlier attempt that has not timed out alive.
LEMMA SafeIsExplained ==
    ASSUME IInv, NEW a \in signed, NEW i \in Input, SafeFromDoubleSend(i, a.input),
           DidTimeoutOccur(i, a.input) /\ ~Durable(a.input) => Dead(a)
    PROVE  \/ SameNonce(a.input, i)
           \/ Dead(a)
           \/ Creates(i) /\ nonceValue[EffectiveAccount(i)] # 0
           \/ Durable(a.input) /\ EffectiveAccount(a.input) # EffectiveAccount(i)
<1>1. a.input \in Input /\ Fetched(a.input)
  BY DEF IInv, TypeOK, Attempt, Fetched
<1>2. CASE HasDurableNonce(i) /\ SameAccount(i, a.input)
  BY <1>2 DEF SafeFromDoubleSend, SameNonce, SameAccount
<1>3. CASE ~(HasDurableNonce(i) /\ SameAccount(i, a.input))
  <2>1. DidTimeoutOccur(i, a.input)
    BY <1>3 DEF SafeFromDoubleSend
  <2>2. CASE Durable(a.input) /\ EffectiveAccount(a.input) = EffectiveAccount(i)
    <3>1. EffectiveAccount(i) # "zero"
      BY <2>2, <1>1, Effective DEF Durable
    <3>2. Creates(i)
      BY <3>1, <2>2, <1>3, Effective DEF SameAccount
    <3>3. EffectiveNonce(a.input).value <= nonceValue[EffectiveAccount(i)]
          /\ EffectiveNonce(a.input).value \in Nat \ {0}
      BY <2>2, <1>1, Effective DEF IInv, ReadBefore
    <3> QED BY <3>2, <3>3
  <2>3. CASE Durable(a.input) /\ EffectiveAccount(a.input) # EffectiveAccount(i)
    BY <2>3
  <2>4. CASE ~Durable(a.input)
    BY <2>1, <2>4
  <2> QED BY <2>2, <2>3, <2>4
<1> QED BY <1>2, <1>3

\* An account whose value an attempt of the payment names exists, and a lookup
\* that does not fail finds it.
LEMMA FetchFindsAccounts ==
    ASSUME IInv, NEW p \in Payments,
           Begin(p) \/ FetchBlockhash(p) \/ FetchDurableNonce(p)
    PROVE  AccountsAreFound'
<1>1. /\ UNCHANGED <<flaky, nonceValue, signed>>
      /\ \A q \in Payments : q # p => held'[q] = held[q]
  BY DEF Begin, FetchBlockhash, FetchDurableNonce, IInv, TypeOK
<1> SUFFICES ASSUME ~flaky, NEW q \in Payments, NEW a \in signed,
                    held'[q].stage = "ready", a.payment = q
             PROVE  Finds(held'[q].input, a.input)
  BY <1>1 DEF AccountsAreFound
<1>2. CASE q # p
  BY <1>1, <1>2 DEF IInv, AccountsAreFound
<1>3. CASE q = p
  <2> DEFINE i == held'[p].input
  <2> SUFFICES ASSUME Durable(a.input), i.accounts = a.input.accounts
               PROVE  IF a.input.payer.mode # "none" THEN i.payer.mode = "has"
                                                     ELSE i.from.mode = "has"
    BY <1>3 DEF Finds
  <2>1. FetchDurableNonce(p) /\ TypeOK
    BY <1>3 DEF Begin, FetchBlockhash, IInv, TypeOK
  <2>2. a.input \in Input /\ Fetched(a.input)
    BY DEF IInv, TypeOK, Attempt, Fetched
  <2>3. nonceValue[EffectiveAccount(a.input)] # 0
    <3>1. EffectiveNonce(a.input).value <= nonceValue[EffectiveAccount(a.input)]
      BY <2>2 DEF IInv, ReadBefore
    <3>2. EffectiveNonce(a.input).value \in Nat \ {0}
      BY <2>2, Effective
    <3> QED BY <3>1, <3>2
  <2>4. CASE a.input.payer.mode # "none"
    <3>1. EffectiveAccount(a.input) = i.accounts.payer /\ i.accounts.payer # "none"
      BY <2>2, <2>4 DEF EffectiveAccount, Input, NoNonce
    <3>2. ReadOf(i.payer, i.accounts.payer)
      BY <2>1, <3>1, FreshInput
    <3> QED BY <2>3, <2>4, <3>1, <3>2 DEF ReadOf
  <2>5. CASE a.input.payer.mode = "none"
    <3>1. EffectiveAccount(a.input) = i.accounts.from
      BY <2>5 DEF EffectiveAccount, Durable, EffectiveNonce
    <3>2. ReadOf(i.from, i.accounts.from)
      BY <2>1, FreshInput
    <3> QED BY <2>3, <2>5, <3>1, <3>2 DEF ReadOf
  <2> QED BY <2>4, <2>5
<1> QED BY <1>2, <1>3

\* Whether lookups can fail does not change.
LEMMA FlakyStays == [Next]_vars => UNCHANGED flaky
BY DEF Next, Tick, Begin, FetchBlockhash, FetchDurableNonce, Sign, Execute, Fail,
   UseOutside, vars

\* The rule SafeFromDoubleSend is used here.
LEMMA SignKeeps ==
    ASSUME IInv, NEW p \in Payments, Sign(p)
    PROVE  /\ Explained' /\ ReadBefore' /\ HashInTime' /\ TimedOutIsDead'
           /\ AccountsAreFound' /\ TriesInBound'
<1>1. PICK t \in 1 .. MaxAttempts :
         /\ signed' = signed \cup {[payment |-> p, input |-> held[p].input, try |-> t]}
         /\ \A a \in AttemptsOf(p) : a.try < t
  <2>1. PICK t \in 1 .. MaxAttempts :
           /\ \A u \in 1 .. MaxAttempts : (u < t) <=> \E a \in AttemptsOf(p) : a.try = u
           /\ signed' = signed \cup {[payment |-> p, input |-> held[p].input, try |-> t]}
    BY DEF Sign
  <2>2. \A a \in AttemptsOf(p) : a.try \in 1 .. MaxAttempts
    BY ConstantsAssumption DEF AttemptsOf, IInv, TypeOK, Attempt, TriesInBound, ConstantsAssumption
  <2> QED BY <2>1, <2>2
<1> DEFINE new == [payment |-> p, input |-> held[p].input, try |-> t]
<1>2. /\ UNCHANGED <<now, nonceValue, executed>>
      /\ held[p].stage = "ready" /\ MaySign(p, held[p].input)
      /\ held'[p].stage = "none"
      /\ \A q \in Payments : q # p => held'[q] = held[q]
  BY DEF Sign, NoInput, IInv, TypeOK
<1>3. held[p].input \in Input /\ Fetched(held[p].input)
  BY <1>2 DEF IInv, TypeOK, Held, NoInput, Fetched
<1>4. new \notin signed /\ new \notin executed /\ t \in Nat /\ t <= MaxAttempts
  BY <1>1, ConstantsAssumption DEF AttemptsOf, IInv, TypeOK, ConstantsAssumption
<1>5. \A a \in signed : Dead(a) => Dead(a)'
  BY <1>2 DEF Dead
<1>6. ASSUME NEW a \in signed, a.payment = p
      PROVE  SameNonce(a.input, new.input) \/ Dead(a) \/ Dead(new) \/ Abandons(a, new)
  <2>1. SafeFromDoubleSend(held[p].input, a.input)
    BY <1>2, <1>6 DEF MaySign
  <2>2. DidTimeoutOccur(held[p].input, a.input) /\ ~Durable(a.input) => Dead(a)
    BY <1>2, <1>6 DEF DidTimeoutOccur, IInv, TimedOutIsDead, StampOf
  <2>3. Creates(held[p].input) => ~Durable(held[p].input)
    BY DEF Creates, Durable
  <2>4. CASE Durable(a.input) /\ EffectiveAccount(a.input) # EffectiveAccount(held[p].input)
    <3>1. a.try < t
      BY <1>1, <1>6 DEF AttemptsOf
    <3>2. ~flaky => Finds(held[p].input, a.input)
      BY <1>2, <1>6 DEF IInv, AccountsAreFound
    <3>3. \/ flaky
          \/ a.input.accounts # held[p].input.accounts
          \/ a.input.payer.mode = "none" /\ held[p].input.payer.mode # "none"
      BY <3>2, <2>4 DEF Finds, EffectiveAccount, EffectiveNonce, Durable
    <3> QED BY <3>1, <3>2, <3>3, <2>4 DEF Abandons
  <2>5. \/ SameNonce(a.input, held[p].input) \/ Dead(a)
        \/ Creates(held[p].input) /\ nonceValue[EffectiveAccount(held[p].input)] # 0
        \/ Durable(a.input) /\ EffectiveAccount(a.input) # EffectiveAccount(held[p].input)
    BY <2>1, <2>2, <1>3, SafeIsExplained
  <2> QED BY <2>3, <2>4, <2>5, <1>4 DEF Dead
<1>7. Explained'
  <2> SUFFICES ASSUME NEW a \in signed', NEW b \in signed', a.payment = b.payment, a # b
               PROVE  \/ SameNonce(a.input, b.input)
                      \/ Dead(a)' \/ Dead(b)'
                      \/ Abandons(a, b)' \/ Abandons(b, a)'
    BY DEF Explained
  <2>0. \A x, y : Abandons(x, y)' <=> Abandons(x, y)
    BY DEF Abandons, Sign
  <2>1. CASE a \in signed /\ b \in signed
    BY <2>1, <2>0, <1>5 DEF IInv, Explained
  <2>2. CASE a \in signed /\ b = new
    BY <2>2, <2>0, <1>2, <1>6 DEF Dead
  <2>3. CASE b \in signed /\ a = new
    <3>1. \/ SameNonce(b.input, a.input) \/ Abandons(b, a)
          \/ Dead(a)' \/ Dead(b)'
      BY <2>3, <1>2, <1>6 DEF Dead
    <3> QED BY <3>1, <2>0 DEF SameNonce, SameAccount
  <2> QED BY <2>1, <2>2, <2>3, <1>1
<1>8. ReadBefore'
  <2>1. \A i \in Input : Fetched(i)' => Fetched(i)
    BY <1>1, <1>2, <1>3 DEF Fetched
  <2> QED BY <2>1, <1>2 DEF IInv, ReadBefore
<1>9. HashInTime'
  BY <1>2 DEF IInv, HashInTime
<1>10. TimedOutIsDead'
  <2> SUFFICES ASSUME NEW q \in Payments, NEW a \in signed',
                      held'[q].stage # "none", a.payment = q, ~Durable(a.input),
                      StampOf(held'[q]) >= a.input.timestamp + Margin
               PROVE  Dead(a)'
    BY DEF TimedOutIsDead, StampOf
  <2>1. q # p /\ held'[q] = held[q] /\ a \in signed
    BY <1>1, <1>2
  <2> QED BY <2>1, <1>5 DEF IInv, TimedOutIsDead
<1>11. AccountsAreFound'
  <2> SUFFICES ASSUME ~flaky, NEW q \in Payments, NEW a \in signed',
                      held'[q].stage = "ready", a.payment = q
               PROVE  Finds(held'[q].input, a.input)
    BY DEF AccountsAreFound, Sign
  <2>1. q # p /\ held'[q] = held[q] /\ a \in signed
    BY <1>1, <1>2
  <2> QED BY <2>1 DEF IInv, AccountsAreFound
<1>12. TriesInBound'
  BY <1>1, <1>4 DEF IInv, TriesInBound
<1> QED BY <1>7, <1>8, <1>9, <1>10, <1>11, <1>12

----------------------------------------------------------------------------
LEMMA Invariance == Spec => []IInv
<1>1. Init => IInv
  <2> SUFFICES ASSUME Init PROVE IInv
    OBVIOUS
  <2>1. TypeOK
    BY DEF Init, TypeOK, Held, NoInput, NonceAccounts
  <2>2. \A p \in Payments : held[p].stage = "none"
    BY DEF Init, NoInput
  <2> QED BY <2>1, <2>2 DEF Init, IInv, Explained, ReadBefore, Fetched, HashInTime,
      ExecutedPast, ExecutedOnce, TimedOutIsDead, AccountsAreFound, TriesInBound
<1>2. IInv /\ TypeOK' /\ [Next]_vars => IInv'
  <2> SUFFICES ASSUME IInv, TypeOK', [Next]_vars
               PROVE  IInv'
    OBVIOUS
  <2>1. ExecutedPast' /\ ExecutedOnce'
    BY ExecuteKeeps, OthersKeep
  <2>2. \A a \in signed : Dead(a) => Dead(a)'
    BY DeadStays DEF IInv
  <2>3. signed' = signed => Explained' /\ TriesInBound'
    <3>1. \A x, y : Abandons(x, y)' <=> Abandons(x, y)
      BY FlakyStays DEF Abandons
    <3> QED BY <2>2, <3>1 DEF IInv, Explained, TriesInBound
  <2>4. CASE \E p \in Payments : Sign(p)
    BY <2>4, <2>1, SignKeeps DEF IInv
  <2>5. CASE \E p \in Payments : Begin(p) \/ FetchBlockhash(p) \/ FetchDurableNonce(p)
    <3>1. signed' = signed
      BY <2>5 DEF Begin, FetchBlockhash, FetchDurableNonce
    <3> QED BY <2>5, <3>1, <2>1, <2>3, ReadsKeep, BeginKeeps, FetchKeepsStamp, FetchFindsAccounts
        DEF IInv
  <2>6. CASE \/ Tick \/ UNCHANGED vars
             \/ \E a \in signed : Execute(a) \/ Fail(a)
             \/ \E c \in NonceAccounts : UseOutside(c)
    <3>1. signed' = signed /\ held' = held
      BY <2>6 DEF Tick, vars, Execute, Fail, UseOutside
    <3>2. TimedOutIsDead' /\ HashInTime' /\ AccountsAreFound'
      BY <3>1, <2>2, FlakyStays DEF IInv, TimedOutIsDead, HashInTime, AccountsAreFound
    <3>3. ReadBefore'
      <4> SUFFICES ASSUME NEW i \in Input, Fetched(i)
                   PROVE  /\ Durable(i) => EffectiveNonce(i).value <= nonceValue'[EffectiveAccount(i)]
                          /\ i.blockhash <= i.timestamp + FetchDelay
        BY <3>1 DEF ReadBefore, Fetched
      <4>1. Durable(i) => /\ EffectiveAccount(i) \in NonceAccounts
                         /\ EffectiveNonce(i).value \in Nat
        BY Effective DEF Durable
      <4>2. \A c \in NonceAccounts : /\ nonceValue[c] \in Nat /\ nonceValue'[c] \in Nat
                                     /\ nonceValue[c] <= nonceValue'[c]
        BY Forward DEF IInv, TypeOK
      <4>3. /\ Durable(i) => EffectiveNonce(i).value <= nonceValue[EffectiveAccount(i)]
            /\ i.blockhash <= i.timestamp + FetchDelay
        BY DEF IInv, ReadBefore
      <4> QED BY <4>1, <4>2, <4>3
    <3> QED BY <3>1, <3>2, <3>3, <2>1, <2>3 DEF IInv
  <2> QED BY <2>4, <2>5, <2>6 DEF Next
<1> QED BY <1>1, <1>2, Typing, PTL DEF Spec

LEMMA PaidTwiceIsAbandoned == IInv => DoubleSendNeedsAbandonedNonce
<1> SUFFICES ASSUME IInv, NEW a \in executed, NEW b \in executed,
                    a.payment = b.payment, a # b
             PROVE  Abandons(a, b) \/ Abandons(b, a)
  BY DEF DoubleSendNeedsAbandonedNonce
<1>1. ~SameNonce(a.input, b.input)
  BY DEF IInv, ExecutedOnce
<1>2. ~Dead(a) /\ ~Dead(b)
  BY DEF Dead
<1> QED BY <1>1, <1>2 DEF IInv, TypeOK, Explained

\* A payment from Solana is paid twice only if the earlier attempt has a
\* durable nonce and the later one, signed after the timeout, has not the same
\* account: blockhashes, and one nonce account, keep the promise of
\* src/tx.go:66-74; and while lookups do not fail so does every owner who names
\* the same fee payer, or none, and the same nonce account, or none, again, but
\* for a fee payer that could not pay the rent of its account at first.
THEOREM DoubleSendNeedsAbandoned == Spec => []DoubleSendNeedsAbandonedNonce
<1>1. IInv => DoubleSendNeedsAbandonedNonce
  BY PaidTwiceIsAbandoned
<1> QED BY <1>1, Invariance, PTL

(***************************************************************************)
(* The wallet implements AtMostOnceUnless: a payment is exposed when one   *)
(* of its attempts abandons the durable nonce of an earlier one.           *)
(***************************************************************************)
Seen == <<[p \in Payments |-> {a \in executed : a.payment = p}], Exposed>>

\* Signing exposes at most the payment that is signed.
LEMMA ExposureStep ==
    ASSUME IInv, NEW p \in Payments, Sign(p)
    PROVE  Abstract!Expose(p) \/ UNCHANGED Seen
<1>1. UNCHANGED <<executed, flaky>> /\ signed \subseteq signed'
  BY DEF Sign
<1>2. \A x, y : Abandons(x, y)' <=> Abandons(x, y)
  BY <1>1 DEF Abandons
<1>3. \A q \in Payments : q \in Exposed => q \in Exposed'
  BY <1>1, <1>2 DEF Exposed, AttemptsOf
<1>4. \A q \in Payments : q # p => AttemptsOf(q)' = AttemptsOf(q)
  BY DEF Sign, AttemptsOf
<1>5. \A q \in Payments : q # p => (q \in Exposed' <=> q \in Exposed)
  BY <1>2, <1>4 DEF Exposed
<1>6. Exposed \subseteq Payments /\ Exposed' \subseteq Payments
  BY DEF Exposed
<1>7. Exposed' = Exposed \/ Exposed' = Exposed \cup {p}
  BY <1>3, <1>5, <1>6
<1> QED BY <1>1, <1>7 DEF Abstract!Expose, Seen

\* An attempt that executes pays a payment that is exposed or was not paid.
LEMMA PayStep ==
    ASSUME IInv, IInv', NEW b \in signed, Execute(b)
    PROVE  Abstract!Pay(b.payment)
<1> DEFINE paidBy == [p \in Payments |-> {a \in executed : a.payment = p}]
<1>1. b.payment \in Payments /\ executed \subseteq signed
  BY DEF IInv, TypeOK, Attempt
<1>2. executed' = executed \cup {b} /\ b \notin executed /\ UNCHANGED <<signed, flaky>>
  BY DEF Execute, Included
<1>3. \A x, y : Abandons(x, y)' <=> Abandons(x, y)
  BY <1>2 DEF Abandons
<1>4. paidBy[b.payment] = {} \/ b.payment \in Exposed
  <2> SUFFICES ASSUME NEW a \in executed, a.payment = b.payment
               PROVE  b.payment \in Exposed
    BY <1>1
  <2>1. DoubleSendNeedsAbandonedNonce'
    BY PaidTwiceIsAbandoned, PTL
  <2>2. Abandons(a, b) \/ Abandons(b, a)
    BY <2>1, <1>2, <1>3 DEF DoubleSendNeedsAbandonedNonce
  <2> QED BY <2>2, <1>1 DEF Exposed, AttemptsOf
<1>5. paidBy' = [paidBy EXCEPT ![b.payment] = @ \cup {b}]
  BY <1>1, <1>2
<1>6. b \in paidBy'[b.payment]
  BY <1>1, <1>2
<1>7. Exposed' = Exposed
  BY <1>2, <1>3 DEF Exposed, AttemptsOf
<1> QED BY <1>4, <1>5, <1>6, <1>7 DEF Abstract!Pay

\* Every step of the wallet pays a payment that was not paid, or one that an
\* abandoned nonce had exposed, or exposes one, or is not seen.
THEOREM Refinement == Spec => ImplementsAtMostOnceUnless
<1>1. Init => Abstract!Init
  BY DEF Init, Abstract!Init, Exposed, AttemptsOf
<1>2. IInv /\ IInv' /\ [Next]_vars => [Abstract!Next]_Seen
  <2> SUFFICES ASSUME IInv, IInv', [Next]_vars
               PROVE  Abstract!Next \/ UNCHANGED Seen
    OBVIOUS
  <2>1. CASE UNCHANGED <<executed, signed>>
    BY <2>1, FlakyStays DEF Seen, Exposed, AttemptsOf, Abandons
  <2>2. ASSUME NEW p \in Payments, Sign(p)
        PROVE  Abstract!Next \/ UNCHANGED Seen
    BY <2>2, ExposureStep DEF Abstract!Next
  <2>3. ASSUME NEW b \in signed, Execute(b)
        PROVE  Abstract!Next
    <3>1. b.payment \in Payments
      BY DEF IInv, TypeOK, Attempt
    <3> QED BY <2>3, <3>1, PayStep DEF Abstract!Next
  <2>4. \/ UNCHANGED <<executed, signed>>
        \/ \E p \in Payments : Sign(p)
        \/ \E b \in signed : Execute(b)
    BY DEF Next, vars, Tick, Begin, FetchBlockhash, FetchDurableNonce, Fail, UseOutside
  <2> QED BY <2>1, <2>2, <2>3, <2>4
<1> QED BY <1>1, <1>2, Invariance, PTL
        DEF Spec, ImplementsAtMostOnceUnless, Abstract!Spec, Seen

(***************************************************************************)
(* The owner who pays alone.  While lookups do not fail, an input without  *)
(* a fee payer that names the same nonce account as all others, or none as *)
(* they do, abandons nothing, and the whole promise is kept.               *)
(***************************************************************************)
PaidBy == [p \in Payments |-> {a \in executed : a.payment = p}]

Promise == INSTANCE AtMostOnce
    WITH paidBy <- [p \in Payments |-> {a \in executed : a.payment = p}]

PlainLookups == [from : {FromAccount(FALSE, n) : n \in Names}, payer : {"none"}]

Plain ==
    /\ ~flaky
    /\ \A p \in Payments :
          /\ held[p].stage \in {"args", "hash"} => held[p].accounts \in PlainLookups
          /\ held[p].stage = "ready" => held[p].input.accounts \in PlainLookups
    /\ \A a \in signed : a.input.accounts \in PlainLookups

\* What the caller asks for, and so what is looked up, stays the same.
LEMMA PlainStays ==
    ASSUME TRUE \notin Kinds, IInv, Plain, [Next]_vars
    PROVE  Plain'
<1>1. UNCHANGED flaky
  BY FlakyStays
<1>2. ASSUME NEW p \in Payments, Begin(p) PROVE Plain'
  <2>1. \A s \in Kinds : s = FALSE
    BY ConstantsAssumption DEF ConstantsAssumption
  <2>2. PICK s \in Kinds, n \in Names : held' = [held EXCEPT ![p] =
           [stage |-> "args", timestamp |-> now,
            accounts |-> [from |-> FromAccount(s, n), payer |-> PayerAccount(s, n)]]]
    BY <1>2 DEF Begin
  <2>3. held'[p].stage = "args" /\ held'[p].accounts \in PlainLookups
    BY <2>1, <2>2 DEF PlainLookups, PayerAccount, IInv, TypeOK
  <2> QED BY <1>2, <2>2, <2>3 DEF Begin, Plain, IInv, TypeOK
<1>3. ASSUME NEW p \in Payments, FetchBlockhash(p) PROVE Plain'
  BY <1>3 DEF FetchBlockhash, Plain, IInv, TypeOK
<1>4. ASSUME NEW p \in Payments, FetchDurableNonce(p) PROVE Plain'
  BY <1>4 DEF FetchDurableNonce, Plain, IInv, TypeOK
<1>5. ASSUME NEW p \in Payments, Sign(p) PROVE Plain'
  BY <1>5 DEF Sign, Plain, IInv, TypeOK, NoInput
<1>6. CASE UNCHANGED <<held, signed>>
  BY <1>1, <1>6 DEF Plain
<1> QED BY <1>2, <1>3, <1>4, <1>5, <1>6 DEF Next, vars, Tick, Execute, Fail, UseOutside

\* A wallet whose payments name no fee payer and all name the same nonce
\* account or none, and whose lookups do not fail, pays every payment once at
\* most, by blockhash or by durable nonce, whatever the network delivers and
\* however late: the promise of src/tx.go:66-74.
THEOREM PlainPaymentsKeepPromise ==
    ASSUME TRUE \notin Kinds, TRUE \notin Faults, \A m, n \in Names : m = n
    PROVE  Spec => Promise!Spec
<1>1. Init => Plain /\ Promise!Init
  <2> SUFFICES ASSUME Init PROVE Plain /\ Promise!Init
    OBVIOUS
  <2>1. ~flaky
    <3>1. flaky \in Faults /\ Faults \subseteq BOOLEAN
      BY ConstantsAssumption DEF Init, ConstantsAssumption
    <3> QED BY <3>1, Zenon
  <2>2. \A p \in Payments : held[p].stage = "none"
    BY DEF Init, NoInput
  <2> QED BY <2>1, <2>2 DEF Init, Plain, Promise!Init
<1>2. IInv /\ Plain /\ [Next]_vars => Plain'
  BY PlainStays
<1>3. IInv /\ Plain => Exposed = {}
  <2> SUFFICES ASSUME IInv, Plain, NEW x \in signed, NEW y \in signed
               PROVE  ~Abandons(x, y)
    BY DEF Exposed, AttemptsOf
  <2>1. ASSUME NEW k \in PlainLookups, NEW l \in PlainLookups
        PROVE  k = l
    <3>1. k.payer = "none" /\ l.payer = "none"
      BY DEF PlainLookups
    <3>2. PICK m \in Names, n \in Names : k.from = FromAccount(FALSE, m) /\ l.from = FromAccount(FALSE, n)
      BY DEF PlainLookups
    <3>3. k.from = l.from
      BY <3>2
    <3> QED BY <3>1, <3>3 DEF PlainLookups
  <2>2. x.input.accounts = y.input.accounts
    BY <2>1 DEF Plain
  <2>3. y.input.accounts.payer = "none"
    BY DEF Plain, PlainLookups
  <2>4. y.input.payer.mode = "none"
    BY <2>3 DEF IInv, TypeOK, Attempt, Input, NoNonce
  <2> QED BY <2>2, <2>4 DEF Abandons, Plain
<1>4. Exposed = {} /\ [Abstract!Next]_Seen => [Promise!Next]_PaidBy
  <2> SUFFICES ASSUME Exposed = {}, [Abstract!Next]_Seen
               PROVE  Promise!Next \/ UNCHANGED PaidBy
    OBVIOUS
  <2>1. ASSUME NEW p \in Payments, Abstract!Pay(p)
        PROVE  Promise!Next
    <3>1. PaidBy[p] = {} /\ \E a \in PaidBy'[p] : PaidBy' = [PaidBy EXCEPT ![p] = @ \cup {a}]
      BY <2>1 DEF Abstract!Pay, PaidBy
    <3>2. [PaidBy EXCEPT ![p] = {}] = PaidBy
      BY <3>1 DEF PaidBy
    <3>3. \A a : PaidBy[p] \cup {a} = {a}
      BY <3>1
    <3>4. \E a \in PaidBy'[p] : PaidBy' = [PaidBy EXCEPT ![p] = {a}]
      BY <3>1, <3>3
    <3> QED BY <3>1, <3>4 DEF Promise!Pay, Promise!Next, PaidBy
  <2>2. ASSUME NEW p \in Payments, Abstract!Expose(p)
        PROVE  UNCHANGED PaidBy
    BY <2>2 DEF Abstract!Expose, PaidBy
  <2>3. CASE UNCHANGED Seen
    BY <2>3 DEF Seen, PaidBy
  <2> QED BY <2>1, <2>2, <2>3 DEF Abstract!Next
<1>5. Spec => [][Abstract!Next]_Seen
  BY Refinement, PTL DEF ImplementsAtMostOnceUnless, Abstract!Spec, Seen
<1> QED BY <1>1, <1>2, <1>3, <1>4, <1>5, Invariance, PTL DEF Spec, Promise!Spec, PaidBy

(***************************************************************************)
(* Payments beside each other, when lookups do not fail.  A nonce that an  *)
(* input names was there when it was read; the one that used it up since   *)
(* has the same nonce, and IndependentOf keeps other payments from that.   *)
(***************************************************************************)
PaymentsApart ==
    \A a, b \in signed : a.payment # b.payment => ~SameNonce(a.input, b.input)

UsedOutside(i) == <<EffectiveAccount(i), EffectiveNonce(i).value>> \in outside

GoneHasUser ==
    ~flaky => \A i \in Input : (Fetched(i) /\ NonceGone(i)) =>
        UsedOutside(i) \/ \E a \in Included : SameNonce(a.input, i)

CrossInv == IInv /\ PaymentsApart /\ GoneHasUser

\* Whether an input's nonce is still there, and whose it is.
LEMMA StillThere ==
    ASSUME IInv, NEW i \in Input, Fetched(i), Durable(i) \/ Creates(i), ~NonceGone(i)
    PROVE  /\ EffectiveAccount(i) \in NonceAccounts
           /\ nonceValue[EffectiveAccount(i)] = EffectiveNonce(i).value
<1>1. EffectiveAccount(i) \in NonceAccounts
  BY Effective DEF Durable, Creates
<1> QED BY <1>1, Effective DEF NonceGone

\* What is read when lookups do not fail is there.
LEMMA FreshIsThere ==
    ASSUME IInv, ~flaky, NEW p \in Payments, FetchDurableNonce(p)
    PROVE  ~NonceGone(held'[p].input)
<1>1. TypeOK
  BY DEF IInv
<1>2. held'[p].input \in Input
  BY <1>1, FreshInput
<1> DEFINE i == held'[p].input
<1>3. CASE Durable(i)
  BY <1>1, <1>2, <1>3, FreshNonce, Effective DEF NonceGone
<1>4. CASE Creates(i)
  <2>1. EffectiveAccount(i) # "zero" /\ ~Durable(i)
    BY <1>2, <1>4, Effective DEF Creates
  <2> QED BY <1>1, <2>1, FreshNonce DEF NonceGone
<1> QED BY <1>3, <1>4 DEF NonceGone

\* The chain moves past a nonce by an attempt that names it.
LEMMA MoverHasNonce ==
    ASSUME IInv, NEW b \in signed, Execute(b) \/ Fail(b),
           NEW i \in Input, Fetched(i), ~NonceGone(i), NonceGone(i)'
    PROVE  SameNonce(b.input, i)
<1>1. b.input \in Input
  BY DEF IInv, TypeOK, Attempt
<1>2. Durable(i) \/ Creates(i)
  BY DEF NonceGone
<1>3. /\ EffectiveAccount(i) \in NonceAccounts
      /\ nonceValue[EffectiveAccount(i)] = EffectiveNonce(i).value
  BY <1>2, StillThere
<1>4. nonceValue'[EffectiveAccount(i)] # nonceValue[EffectiveAccount(i)]
  BY <1>3 DEF NonceGone
<1>5. EffectiveAccount(b.input) = EffectiveAccount(i)
  BY <1>3, <1>4 DEF Execute, Fail
<1>6. EffectiveAccount(i) # "zero"
  BY <1>3, ConstantsAssumption DEF ConstantsAssumption, NonceAccounts
<1>7. CASE Durable(b.input)
  <2>1. nonceValue[EffectiveAccount(i)] = EffectiveNonce(b.input).value
        /\ EffectiveNonce(b.input).value # 0
    BY <1>1, <1>5, <1>7, Effective DEF Execute, Fail, Acceptable
  <2>2. Durable(i)
    BY <1>2, <1>3, <2>1, Effective
  <2> QED BY <1>1, <1>3, <1>5, <1>6, <1>7, <2>1, <2>2, SameRead
<1>8. CASE ~Durable(b.input)
  <2>1. Creates(b.input)
    BY <1>1, <1>5, <1>6, <1>8, Effective
  <2>2. Execute(b)
    BY <1>3, <1>4, <1>8 DEF Fail
  <2>3. nonceValue[EffectiveAccount(i)] = 0
    BY <1>5, <2>1, <2>2 DEF Execute
  <2>4. Creates(i)
    BY <1>2, <1>3, <2>3, Effective
  <2> QED BY <1>1, <1>5, <1>6, <2>1, <2>4, SameRead
<1> QED BY <1>7, <1>8

LEMMA CrossInvariance == Spec => []CrossInv
<1>1. Init /\ IInv => CrossInv
  BY DEF Init, CrossInv, PaymentsApart, GoneHasUser, Fetched, NoInput
<1>2. CrossInv /\ IInv' /\ [Next]_vars => CrossInv'
  <2> SUFFICES ASSUME CrossInv, [Next]_vars
               PROVE  PaymentsApart' /\ GoneHasUser'
    BY DEF CrossInv
  <2>1. UNCHANGED flaky /\ Included \subseteq Included'
    BY DEF Included, Next, Tick, Begin, FetchBlockhash, FetchDurableNonce, Sign, Execute,
       Fail, UseOutside, vars
  <2>2. ASSUME NEW p \in Payments, Sign(p)
        PROVE  PaymentsApart' /\ GoneHasUser'
    <3>0. PICK t \in 1 .. MaxAttempts :
             signed' = signed \cup {[payment |-> p, input |-> held[p].input, try |-> t]}
      BY <2>2 DEF Sign
    <3> DEFINE new == [payment |-> p, input |-> held[p].input, try |-> t]
    <3>1. /\ signed' = signed \cup {new}
          /\ new.payment = p /\ new.input = held[p].input
      BY <3>0
    <3> HIDE DEF new
    <3>2. \A a \in signed : a.payment # p => ~SameNonce(new.input, a.input)
      BY <2>2, <3>1 DEF Sign, MaySign, IndependentOf
    <3>3. PaymentsApart'
      BY <3>1, <3>2 DEF CrossInv, PaymentsApart, SameNonce, SameAccount
    <3>4. UNCHANGED <<nonceValue, executed, failed, outside, flaky>>
          /\ held[p].stage = "ready" /\ held'[p].stage = "none"
          /\ \A q \in Payments : q # p => held'[q] = held[q]
      BY <2>2 DEF Sign, CrossInv, IInv, TypeOK, NoInput
    <3>5. \A i \in Input : Fetched(i)' => Fetched(i)
      BY <3>1, <3>4 DEF Fetched
    <3> QED BY <3>3, <3>4, <3>5 DEF CrossInv, GoneHasUser, NonceGone, UsedOutside, Included
  <2>3. CASE \A p \in Payments : ~Sign(p)
    <3>1. signed' = signed
      BY <2>3 DEF Next, Tick, Begin, FetchBlockhash, FetchDurableNonce, Execute, Fail,
         UseOutside, vars
    <3>2. PaymentsApart'
      BY <3>1 DEF CrossInv, PaymentsApart
    <3>3. ASSUME ~flaky, NEW i \in Input, Fetched(i)', NonceGone(i)'
          PROVE  UsedOutside(i)' \/ \E a \in Included' : SameNonce(a.input, i)
      <4>1. outside \subseteq outside'
        BY DEF Next, Tick, Begin, FetchBlockhash, FetchDurableNonce, Sign, Execute,
           Fail, UseOutside, vars
      <4>2. CASE Fetched(i) /\ NonceGone(i)
        BY <2>1, <3>3, <4>1, <4>2 DEF CrossInv, GoneHasUser, UsedOutside
      <4>3. CASE ~Fetched(i)
        <5>1. PICK p \in Payments : held'[p].stage = "ready" /\ i = held'[p].input
                                    /\ held'[p] # held[p]
          BY <3>1, <3>3, <4>3 DEF Fetched
        <5>2. PICK q \in Payments : Begin(q) \/ FetchBlockhash(q) \/ FetchDurableNonce(q)
          BY <5>1, <2>3 DEF Next, Tick, Execute, Fail, UseOutside, vars
        <5>3. p = q /\ FetchDurableNonce(p)
          BY <5>1, <5>2 DEF Begin, FetchBlockhash, FetchDurableNonce, CrossInv, IInv, TypeOK
        <5>4. ~NonceGone(i)
          BY <3>3, <5>1, <5>3, FreshIsThere DEF CrossInv
        <5>5. nonceValue' = nonceValue
          BY <5>3 DEF FetchDurableNonce
        <5> QED BY <3>3, <5>4, <5>5 DEF NonceGone
      <4>4. CASE Fetched(i) /\ ~NonceGone(i)
        <5>1. nonceValue' # nonceValue
          BY <3>3, <4>4 DEF NonceGone
        <5>2. CASE \E a \in signed : Execute(a) \/ Fail(a)
          <6>1. PICK a \in signed : Execute(a) \/ Fail(a)
            BY <5>2
          <6>2. a \in Included'
            BY <6>1 DEF Execute, Fail, Included
          <6> QED BY <3>3, <4>4, <6>1, <6>2, MoverHasNonce DEF CrossInv
        <5>3. CASE \E c \in NonceAccounts : UseOutside(c)
          <6>1. PICK c \in NonceAccounts : UseOutside(c)
            BY <5>3
          <6>2. EffectiveAccount(i) \in NonceAccounts
                /\ nonceValue[EffectiveAccount(i)] = EffectiveNonce(i).value
            BY <3>3, <4>4, StillThere DEF CrossInv, NonceGone
          <6>3. nonceValue'[EffectiveAccount(i)] # nonceValue[EffectiveAccount(i)]
            BY <3>3, <4>4 DEF NonceGone
          <6>4. c = EffectiveAccount(i)
            BY <6>1, <6>2, <6>3 DEF UseOutside, CrossInv, IInv, TypeOK
          <6> QED BY <6>1, <6>2, <6>4 DEF UseOutside, UsedOutside
        <5> QED BY <2>3, <5>1, <5>2, <5>3 DEF Next, Tick, Begin, FetchBlockhash,
            FetchDurableNonce, vars
      <4> QED BY <4>2, <4>3, <4>4
    <3> QED BY <2>1, <3>2, <3>3 DEF GoneHasUser
  <2> QED BY <2>2, <2>3
<1> QED BY <1>1, <1>2, Invariance, PTL DEF Spec

\* When lookups do not fail, no payment from Solana uses up the nonce of
\* another one that IndependentOf let stand beside it.
THEOREM PaymentsDoNotCollide == Spec => []NoCrossInvalidation
<1>1. CrossInv => NoCrossInvalidation
  <2> SUFFICES ASSUME CrossInv, ~flaky, NEW b \in signed \ Included, NonceGone(b.input)
               PROVE  UsedOutside(b.input) \/ \E a \in Included : a.payment = b.payment
    BY DEF NoCrossInvalidation, UsedOutside
  <2>1. b.input \in Input /\ Fetched(b.input) /\ Included \subseteq signed
    BY DEF CrossInv, IInv, TypeOK, Attempt, Fetched, Included
  <2>2. UsedOutside(b.input) \/ \E a \in Included : SameNonce(a.input, b.input)
    BY <2>1 DEF CrossInv, GoneHasUser
  <2> QED BY <2>1, <2>2 DEF CrossInv, PaymentsApart
<1> QED BY <1>1, CrossInvariance, PTL

----------------------------------------------------------------------------
(* What the rule refuses after the timeout. *)

\* The blockhash is read after the timestamp was taken.
HashAfterStamp ==
    \A p \in Payments :
        /\ held[p].stage = "args" => held[p].timestamp <= now
        /\ held[p].stage = "hash" => held[p].timestamp <= held[p].blockhash
        /\ held[p].stage = "ready" =>
              held[p].input.timestamp <= held[p].input.blockhash

\* When lookups do not fail, an input fetched after an attempt with a durable
\* nonce has a value of the same account too, and none that is older.
ReadInOrder(i, j) ==
    (Durable(j) /\ EffectiveAccount(i) = EffectiveAccount(j)) =>
        Durable(i) /\ EffectiveNonce(j).value <= EffectiveNonce(i).value

LaterReads ==
    ~flaky => \A p \in Payments, a \in signed :
        (held[p].stage = "ready" /\ a.payment = p) => ReadInOrder(held[p].input, a.input)

RefusalInv == IInv /\ HashAfterStamp /\ LaterReads

\* What is read of an account that has a value is this value.
LEMMA FreshIsLater ==
    ASSUME IInv, ~flaky, NEW p \in Payments, FetchDurableNonce(p), NEW a \in signed,
           NEW i \in Input, i = held'[p].input
    PROVE  ReadInOrder(i, a.input)
<1> SUFFICES ASSUME Durable(a.input), EffectiveAccount(i) = EffectiveAccount(a.input)
             PROVE  Durable(i) /\ EffectiveNonce(a.input).value <= EffectiveNonce(i).value
  BY DEF ReadInOrder
<1>1. a.input \in Input /\ Fetched(a.input)
  BY DEF IInv, TypeOK, Attempt, Fetched
<1> DEFINE c == EffectiveAccount(a.input)
<1>2. c \in NonceAccounts /\ EffectiveNonce(a.input).value \in Nat \ {0}
  BY <1>1, Effective DEF Durable
<1>3. EffectiveNonce(a.input).value <= nonceValue[c] /\ nonceValue[c] \in Nat
  BY <1>1, <1>2 DEF IInv, ReadBefore, TypeOK
<1>4. nonceValue[c] # 0
  BY <1>2, <1>3
<1>5. Durable(i) /\ EffectiveNonce(i).value = nonceValue[c]
  <2>1. TypeOK /\ EffectiveAccount(i) # "zero"
    BY <1>1, Effective DEF IInv, Durable
  <2> QED BY <1>4, <2>1, FreshNonce
<1> QED BY <1>3, <1>5

\* A fetch gets nearer to an input that is read in order.
LEMMA FetchingReadsInOrder ==
    ASSUME RefusalInv, TypeOK', NEW p \in Payments,
           Begin(p) \/ FetchBlockhash(p) \/ FetchDurableNonce(p)
    PROVE  HashAfterStamp' /\ LaterReads'
<1>1. /\ UNCHANGED <<flaky, now, signed>> /\ now \in Nat
      /\ \A q \in Payments : q # p => held'[q] = held[q]
  BY DEF Begin, FetchBlockhash, FetchDurableNonce, RefusalInv, IInv, TypeOK
<1>2. CASE Begin(p)
  <2>1. held'[p].stage = "args" /\ held'[p].timestamp = now
    BY <1>2 DEF Begin, RefusalInv, IInv, TypeOK
  <2> QED BY <1>1, <2>1 DEF RefusalInv, HashAfterStamp, LaterReads
<1>3. CASE FetchBlockhash(p)
  <2>1. /\ held[p].stage = "args" /\ held'[p].stage = "hash"
        /\ held'[p].timestamp = held[p].timestamp /\ held'[p].blockhash = now
    BY <1>3 DEF FetchBlockhash, RefusalInv, IInv, TypeOK
  <2> QED BY <1>1, <2>1 DEF RefusalInv, HashAfterStamp, LaterReads
<1>4. CASE FetchDurableNonce(p)
  <2>1. held[p].stage = "hash" /\ held'[p].stage = "ready"
    BY <1>4 DEF FetchDurableNonce, RefusalInv, IInv, TypeOK
  <2>2. held'[p].input.timestamp = held[p].timestamp
        /\ held'[p].input.blockhash = held[p].blockhash
    BY <1>4, FreshInput DEF RefusalInv, IInv
  <2>3. held'[p].input \in Input
    BY <2>1 DEF TypeOK, Held, NoInput
  <2>4. HashAfterStamp'
    BY <1>1, <2>1, <2>2 DEF RefusalInv, HashAfterStamp
  <2>5. ASSUME ~flaky, NEW a \in signed
        PROVE  ReadInOrder(held'[p].input, a.input)
    BY <1>4, <2>3, <2>5, FreshIsLater DEF RefusalInv
  <2>6. LaterReads'
    <3> SUFFICES ASSUME ~flaky, NEW q \in Payments, NEW a \in signed,
                        held'[q].stage = "ready", a.payment = q
                 PROVE  ReadInOrder(held'[q].input, a.input)
      BY <1>1 DEF LaterReads
    <3> QED BY <1>1, <2>5 DEF RefusalInv, LaterReads
  <2> QED BY <2>4, <2>6
<1> QED BY <1>2, <1>3, <1>4

LEMMA RefusalInvariance == Spec => []RefusalInv
<1>1. Init => HashAfterStamp /\ LaterReads
  BY DEF Init, HashAfterStamp, LaterReads, NoInput
<1>2. RefusalInv /\ TypeOK' /\ [Next]_vars => HashAfterStamp' /\ LaterReads'
  <2> SUFFICES ASSUME RefusalInv, TypeOK', [Next]_vars
               PROVE  HashAfterStamp' /\ LaterReads'
    OBVIOUS
  <2>1. ASSUME NEW p \in Payments,
               Begin(p) \/ FetchBlockhash(p) \/ FetchDurableNonce(p)
        PROVE  HashAfterStamp' /\ LaterReads'
    BY <2>1, FetchingReadsInOrder
  <2>2. ASSUME NEW p \in Payments, Sign(p)
        PROVE  HashAfterStamp' /\ LaterReads'
    <3>1. /\ UNCHANGED <<flaky, now>> /\ held'[p].stage = "none"
          /\ \A q \in Payments : q # p => held'[q] = held[q]
          /\ \A a \in signed' : a.payment # p => a \in signed
      BY <2>2 DEF Sign, RefusalInv, IInv, TypeOK, NoInput
    <3> QED BY <3>1 DEF RefusalInv, HashAfterStamp, LaterReads
  <2>3. ASSUME UNCHANGED <<flaky, held, signed>>, now' >= now, now \in Nat, now' \in Nat
        PROVE  HashAfterStamp' /\ LaterReads'
    <3>1. \A p \in Payments : held[p].stage = "args" => held[p].timestamp \in Nat
      <4> SUFFICES ASSUME NEW p \in Payments, held[p].stage = "args"
                   PROVE  held[p].timestamp \in Nat
        OBVIOUS
      <4>1. held[p] \in Held
        BY DEF RefusalInv, IInv, TypeOK
      <4> QED BY <4>1 DEF Held, NoInput
    <3> QED BY <2>3, <3>1 DEF RefusalInv, HashAfterStamp, LaterReads
  <2>4. now \in Nat
    BY DEF RefusalInv, IInv, TypeOK
  <2> QED BY <2>1, <2>2, <2>3, <2>4 DEF Next, Tick, Execute, Fail, UseOutside, vars
<1> QED BY <1>1, <1>2, Invariance, Typing, PTL DEF Spec, RefusalInv

\* What the rule refuses after the timeout is gone: two accounts that match
\* leave either two values, of which the older is gone, or one value of an
\* account that was to be created.
LEMMA RefusedIsGone ==
    ASSUME RefusalInv, ~flaky, NEW p \in Payments, NEW a \in AttemptsOf(p),
           held[p].stage = "ready", NEW i \in Input, i = held[p].input,
           i.timestamp >= a.input.timestamp + Margin,
           ~SafeFromDoubleSend(i, a.input)
    PROVE  NonceGone(a.input) /\ SameAccount(i, a.input)
<1>1. /\ a \in signed /\ a.payment = p /\ a.input \in Input
      /\ Fetched(a.input) /\ Fetched(i)
  BY DEF AttemptsOf, Fetched, RefusalInv, IInv, TypeOK, Attempt
<1>2. DidTimeoutOccur(i, a.input)
  <2>1. /\ a.input.timestamp \in Nat /\ a.input.blockhash \in Nat
        /\ i.timestamp \in Nat /\ i.blockhash \in Nat
    BY <1>1 DEF Input
  <2>2. a.input.blockhash <= a.input.timestamp + FetchDelay /\ i.timestamp <= i.blockhash
    BY <1>1 DEF RefusalInv, IInv, ReadBefore, HashAfterStamp
  <2>3. i.blockhash # a.input.blockhash
    BY <2>1, <2>2, ConstantsAssumption DEF ConstantsAssumption
  <2> QED BY <2>3 DEF DidTimeoutOccur
<1>3. HasDurableNonce(i) /\ SameAccount(i, a.input) /\ ~SameNonce(i, a.input)
  BY <1>2 DEF SafeFromDoubleSend
<1>4. EffectiveAccount(i) = EffectiveAccount(a.input) /\ EffectiveAccount(i) # "zero"
  BY <1>3 DEF SameAccount
<1>5. nonceValue[EffectiveAccount(i)] \in Nat
  BY <1>1, <1>4, Effective DEF RefusalInv, IInv, TypeOK
<1>6. Durable(i) => /\ EffectiveNonce(i).value <= nonceValue[EffectiveAccount(i)]
                    /\ EffectiveNonce(i).value \in Nat \ {0}
  BY <1>1, Effective DEF RefusalInv, IInv, ReadBefore
<1>7. CASE Durable(a.input)
  <2>1. Durable(i) /\ EffectiveNonce(a.input).value <= EffectiveNonce(i).value
    BY <1>1, <1>4, <1>7 DEF RefusalInv, LaterReads, ReadInOrder
  <2>2. EffectiveNonce(a.input).value # EffectiveNonce(i).value
    BY <1>1, <1>3, <1>4, <1>7, <2>1, SameRead
  <2>3. EffectiveNonce(a.input).value \in Nat
    BY <1>1, <1>7, Effective
  <2>4. nonceValue[EffectiveAccount(a.input)] # EffectiveNonce(a.input).value
    BY <1>4, <1>5, <1>6, <2>1, <2>2, <2>3
  <2> QED BY <1>3, <1>7, <2>4 DEF NonceGone
<1>8. CASE ~Durable(a.input)
  <2>1. Creates(a.input)
    BY <1>1, <1>4, <1>8, Effective
  <2>2. Durable(i)
    BY <1>1, <1>3, <1>4, <2>1, Effective, SameRead
  <2>3. nonceValue[EffectiveAccount(a.input)] # 0
    BY <1>4, <1>5, <1>6, <2>2
  <2> QED BY <1>3, <2>1, <2>3 DEF NonceGone
<1> QED BY <1>7, <1>8

\* Nothing that may still land keeps a payment waiting beyond the timeout
\* (RefusalMeansNonceGone): for every margin, lifetime and delay that fit.
THEOREM RefusalsAreForTheDead == Spec => []RefusalMeansNonceGone
<1>1. RefusalInv => RefusalMeansNonceGone
  <2> SUFFICES ASSUME RefusalInv, ~flaky, NEW p \in Payments, NEW a \in AttemptsOf(p),
                      held[p].stage = "ready",
                      held[p].input.timestamp >= a.input.timestamp + Margin,
                      ~SafeFromDoubleSend(held[p].input, a.input)
               PROVE  NonceGone(a.input) /\ SameAccount(held[p].input, a.input)
    BY DEF RefusalMeansNonceGone
  <2>1. held[p].input \in Input
    BY DEF RefusalInv, IInv, TypeOK, Held, NoInput
  <2> QED BY <2>1, RefusedIsGone
<1> QED BY <1>1, RefusalInvariance, PTL
=============================================================================
