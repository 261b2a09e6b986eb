----------------------- MODULE EvmReplacementProofs -----------------------
(***************************************************************************)
(* Proofs about EvmReplacement, for every market, priority, raise and       *)
(* number of nodes and attempts.                                            *)
(***************************************************************************)
EXTENDS EvmReplacement, TLAPS

-----------------------------------------------------------------------------
(* Percentages. *)

\* Products of amounts and percentages keep the order.
LEMMA Scale ==
    ASSUME NEW x \in Nat, NEW m \in Nat, NEW k \in Nat, m <= k
    PROVE  x * m \in Nat /\ x * k \in Nat /\ x * m <= x * k
OBVIOUS

LEMMA ScaleAmount ==
    ASSUME NEW x \in Nat, NEW y \in Nat, NEW m \in Nat, x <= y
    PROVE  x * m <= y * m
OBVIOUS

\* Whole hundreds and what is lost by rounding down.
LEMMA Hundreds ==
    ASSUME NEW a \in Nat, NEW b \in Nat, a <= b
    PROVE  a \div 100 \in Nat /\ a \div 100 <= b \div 100
OBVIOUS

LEMMA AtLeast ==
    ASSUME NEW x \in Nat, NEW y \in Nat
    PROVE  /\ 100 * x <= y => x <= y \div 100
           /\ 100 * x + 100 <= y => x < y \div 100
OBVIOUS

\* A percentage of an amount is an amount.
LEMMA PercentTyped ==
    ASSUME NEW m \in Nat, NEW x \in Nat
    PROVE  Percent(m, x) \in Nat
BY Scale, Hundreds DEF Percent

\* A higher percentage, or one of a larger amount, is no less.
LEMMA PercentMonotone ==
    ASSUME NEW m \in Nat, NEW k \in Nat, NEW x \in Nat, NEW y \in Nat,
           m <= k, x <= y
    PROVE  Percent(m, x) <= Percent(k, y)
<1>1. x * m \in Nat /\ x * k \in Nat /\ x * m <= x * k
  BY Scale
<1>2. y * k \in Nat /\ x * k <= y * k
  BY Scale, ScaleAmount
<1>3. x * m <= y * k
  BY <1>1, <1>2
<1> QED
  BY <1>1, <1>2, <1>3, Hundreds DEF Percent

\* A hundred per cent or more takes nothing off.
LEMMA PercentKeeps ==
    ASSUME NEW m \in Nat, NEW x \in Nat, 100 <= m
    PROVE  x <= Percent(m, x)
<1>1. x * m \in Nat /\ x * 100 <= x * m
  BY Scale
<1>2. 100 * x <= x * m
  BY <1>1
<1> QED
  BY <1>1, <1>2, AtLeast DEF Percent

\* A raise that is not rounded away adds something.
LEMMA RaiseAdds ==
    ASSUME NEW x \in Nat, 100 <= x * (Bump - 100)
    PROVE  x < Percent(Bump, x)
<1>1. Bump \in Nat /\ 100 < Bump
  BY EvmReplacementAssumption
<1>2. x * Bump \in Nat /\ 100 * x + 100 <= x * Bump
  BY <1>1
<1> QED
  BY <1>2, AtLeast DEF Percent

-----------------------------------------------------------------------------
(* Prices. *)

\* Fees whose cap covers the tip.
Covered(f) == f \in Fees /\ f.tip <= f.cap

\* What the nodes suggest is covered.
LEMMA SuggestedCovered ==
    ASSUME NEW m \in Markets
    PROVE  Covered(Suggested(m))
<1>1. m \in [base : Nat, tip : Nat]
  BY EvmReplacementAssumption
<1> QED
  BY <1>1 DEF Covered, Fees, Suggested, Larger

\* A raise of covered fees is covered.
LEMMA OutbidCovered ==
    ASSUME NEW f, NEW old, Covered(f), Covered(old)
    PROVE  Covered(Outbid(f, old))
<1>1. /\ Bump \in Nat
      /\ f.cap \in Nat /\ f.tip \in Nat /\ f.tip <= f.cap
      /\ old.cap \in Nat /\ old.tip \in Nat /\ old.tip <= old.cap
  BY EvmReplacementAssumption DEF Covered, Fees
<1>2. Percent(Bump, old.cap) \in Nat /\ Percent(Bump, old.tip) \in Nat
  BY <1>1, PercentTyped
<1>3. Percent(Bump, old.tip) <= Percent(Bump, old.cap)
  <2>1. Bump <= Bump
    BY <1>1
  <2> QED
    BY <1>1, <2>1, PercentMonotone
<1> QED
  BY <1>1, <1>2, <1>3 DEF Covered, Fees, Outbid, Raised, Larger

\* The priority leaves covered fees covered.
LEMMA PriorityCovered ==
    ASSUME NEW f, NEW m \in Priorities, Covered(f)
    PROVE  Covered(WithTxInputOptions(f, m))
<1>1. m \in Nat /\ f.cap \in Nat /\ f.tip \in Nat
  BY EvmReplacementAssumption DEF Covered, Fees
<1>2. Percent(m, f.cap) \in Nat /\ Percent(m, f.tip) \in Nat
  BY <1>1, PercentTyped
<1> QED
  BY <1>2 DEF Covered, Fees, WithTxInputOptions, SetGasFeePriority, Larger

\* Fees that were raised over others, and not lowered by the priority,
\* replace them.
LEMMA OutbidReplaces ==
    ASSUME NEW f, NEW old, NEW m \in Priorities, Covered(f), Covered(old),
           Keeps(m), ~Tiny(old)
    PROVE  Replaces(WithTxInputOptions(Outbid(f, old), m), old)
<1> DEFINE out == Outbid(f, old)
           fee == WithTxInputOptions(out, m)
<1>1. /\ Bump \in Nat /\ Threshold \in Nat /\ Threshold <= Bump /\ 100 < Bump
      /\ m \in Nat /\ (m = 0 \/ 100 <= m)
      /\ f.cap \in Nat /\ f.tip \in Nat
      /\ old.cap \in Nat /\ old.tip \in Nat
  BY EvmReplacementAssumption DEF Covered, Fees, Keeps
<1>2. 100 <= old.cap * (Bump - 100) /\ 100 <= old.tip * (Bump - 100)
  <2>1. old.cap * (Bump - 100) \in Nat /\ old.tip * (Bump - 100) \in Nat
    BY <1>1
  <2> QED
    BY <2>1 DEF Tiny
<1>3. /\ Percent(Bump, old.cap) \in Nat /\ Percent(Bump, old.tip) \in Nat
      /\ Percent(Threshold, old.cap) \in Nat /\ Percent(Threshold, old.tip) \in Nat
  BY <1>1, PercentTyped
<1>4. old.cap < Percent(Bump, old.cap) /\ old.tip < Percent(Bump, old.tip)
  BY <1>1, <1>2, RaiseAdds
<1>5. /\ Percent(Threshold, old.cap) <= Percent(Bump, old.cap)
      /\ Percent(Threshold, old.tip) <= Percent(Bump, old.tip)
  BY <1>1, PercentMonotone
<1>6. /\ out.cap \in Nat /\ out.tip \in Nat
      /\ Percent(Bump, old.cap) <= out.cap /\ Percent(Bump, old.tip) <= out.tip
  BY <1>1, <1>3 DEF Outbid, Raised, Larger
<1>7. /\ fee.cap \in Nat /\ fee.tip \in Nat
      /\ out.cap <= fee.cap /\ out.tip <= fee.tip
  <2>1. CASE m = 0
    BY <2>1, <1>6 DEF WithTxInputOptions
  <2>2. CASE m # 0
    <3>1. /\ Percent(m, out.cap) \in Nat /\ Percent(m, out.tip) \in Nat
          /\ out.cap <= Percent(m, out.cap) /\ out.tip <= Percent(m, out.tip)
      BY <2>2, <1>1, <1>6, PercentTyped, PercentKeeps
    <3> HIDE DEF out
    <3> QED
      BY <2>2, <3>1, <1>6 DEF WithTxInputOptions, SetGasFeePriority, Larger
  <2> QED
    BY <2>1, <2>2
<1> HIDE DEF out, fee
<1>8. Replaces(fee, old)
  BY <1>1, <1>3, <1>4, <1>5, <1>6, <1>7 DEF Replaces
<1> QED
  BY <1>8 DEF fee, out

-----------------------------------------------------------------------------
(* Attempts. *)

\* A request sees earlier attempts only.
NamedEarlier == \A i \in Tries : attempts[i].named \subseteq 1 .. i - 1

\* Of any two attempts, whatever the nodes hold, each replaces the other or
\* has a reason not to.
AllExplained ==
    \A i, h \in Tries :
        i # h => \/ Replaces(attempts[i].fee, attempts[h].fee)
                 \/ Explained(attempts[i], h)

Inv ==
    /\ TypeOK
    /\ CapCoversTip
    /\ FindingIsOutbidding
    /\ NamedEarlier
    /\ AllExplained

\* The explained refusals at the nodes are some of all pairs of attempts.
LEMMA AllIsEnough == Inv => RefusalsAreExplained
<1> SUFFICES ASSUME Inv, NEW n \in Nodes, NEW i \in Tries, pool[n] # 0, pool[n] # i
             PROVE  \/ Replaces(attempts[i].fee, attempts[pool[n]].fee)
                    \/ Explained(attempts[i], pool[n])
  BY DEF RefusalsAreExplained
<1>1. pool[n] \in Tries
  BY DEF Inv, TypeOK, Tries
<1> QED
  BY <1>1 DEF Inv, AllExplained

\* Attempts' fees, and the other number's, are covered.
LEMMA FeesCovered ==
    ASSUME TypeOK, CapCoversTip
    PROVE  /\ \A i \in Tries : Covered(attempts[i].fee)
           /\ other # NoFee => Covered(other)
<1>1. \A i \in Tries : attempts[i] \in Attempt
  BY DEF TypeOK, Tries
<1>2. other # NoFee => other \in Fees /\ other.tip <= other.cap
  BY EvmReplacementAssumption DEF TypeOK
<1> QED
  BY <1>1, <1>2 DEF CapCoversTip, Covered, Attempt

\* A lookup names an attempt there is, the other number's transaction if
\* there is one, or nothing.
LEMMA LookupTyped ==
    ASSUME TypeOK, NEW given \in BOOLEAN, NEW failed \in BOOLEAN,
           NEW l \in LookupPreviousTxAttempt(given, failed)
    PROVE  \/ l = 0
           \/ l \in Tries
           \/ l = Other /\ other # NoFee
<1>1. \A k \in InPool(failed) : k = 0 \/ k \in Tries \/ (k = Other /\ other # NoFee)
  BY DEF InPool, InfoFor
<1>2. \A k \in ByHash(failed) : k \in Tries
  BY DEF ByHash
<1> QED
  BY <1>1, <1>2 DEF LookupPreviousTxAttempt

\* If every node holds the one attempt and no request fails, the lookup
\* names it.
LEMMA HeldIsFound ==
    ASSUME TypeOK, NEW given \in BOOLEAN, NEW failed \in BOOLEAN,
           NEW l \in LookupPreviousTxAttempt(given, failed),
           Asked(given, failed),
           NEW h \in Tries, {pool[n] : n \in Nodes} = {h}
    PROVE  l = h
<1>1. ~failed /\ (given \/ (txPool /\ other = NoFee))
  BY DEF Asked
<1>2. \A n \in Nodes : pool[n] = h
  OBVIOUS
<1>3. h # 0
  BY DEF Tries, TypeOK
<1>4. \A i \in Tries : Finds(i) => i = h
  BY <1>2 DEF Finds
<1>5. ~Misses(h, failed)
  BY <1>1, <1>2 DEF Misses
<1>6. CASE given
  BY <1>4, <1>5, <1>6 DEF LookupPreviousTxAttempt, ByHash
<1>7. CASE ~given
  <2>1. InfoFor = {}
    BY <1>1, <1>2, <1>3, <1>7 DEF InfoFor
  <2>2. l \in {i \in Tries : Finds(i)}
    BY <1>1, <1>7, <2>1 DEF LookupPreviousTxAttempt, InPool
  <2> QED
    BY <1>4, <2>2
<1> QED
  BY <1>6, <1>7

\* The other number is not mistaken for an attempt.
LEMMA OtherIsNone == TypeOK => Other \notin Tries /\ Other # 0
BY EvmReplacementAssumption DEF TypeOK, Tries, Other

\* What was found, as fees.
LEMMA FoundCovered ==
    ASSUME TypeOK, CapCoversTip, NEW l,
           l \in Tries \/ (l = Other /\ other # NoFee)
    PROVE  Covered(FeeOf(l))
BY FeesCovered, OtherIsNone DEF FeeOf

-----------------------------------------------------------------------------
(* The invariant. *)

LEMMA InitInv == Init => Inv
<1> SUFFICES ASSUME Init PROVE Inv
  OBVIOUS
<1>1. attempts = <<>> /\ Tries = {} /\ Len(attempts) = 0
  BY DEF Init, Tries
<1>2. TypeOK
  BY <1>1, EvmReplacementAssumption DEF Init, TypeOK
<1> QED
  BY <1>1, <1>2 DEF Inv, CapCoversTip, FindingIsOutbidding, NamedEarlier, AllExplained

\* The steps of the nodes leave the attempts alone.
LEMMA OthersKeepInv ==
    ASSUME Inv, UNCHANGED <<txPool, other, attempts>>,
           pool' \in [Nodes -> 0 .. Len(attempts)]
    PROVE  Inv'
<1>1. Tries' = Tries
  BY DEF Tries
<1>2. TypeOK'
  BY <1>1 DEF Inv, TypeOK
<1>3. CapCoversTip' /\ NamedEarlier'
  BY <1>1 DEF Inv, CapCoversTip, NamedEarlier
<1>4. FindingIsOutbidding'
  BY <1>1 DEF Inv, FindingIsOutbidding, Tiny, FeeOf, Replaces, Keeps
<1>5. AllExplained'
  BY <1>1 DEF Inv, AllExplained, Explained, Tiny, Replaces, Keeps
<1> QED
  BY <1>2, <1>3, <1>4, <1>5 DEF Inv

\* A new attempt is typed, covered and outbids what it found.
LEMMA SignKeepsInv == Inv /\ Sign => Inv'
<1> SUFFICES ASSUME Inv, Sign PROVE Inv'
  OBVIOUS
<1> DEFINE k == Len(attempts) + 1
<1>1. PICK given \in BOOLEAN, failed \in BOOLEAN, m \in Priorities,
              market \in Markets :
         \E l \in LookupPreviousTxAttempt(given, failed) :
            attempts' = Append(attempts,
                [fee |-> WithTxInputOptions(Fetched(l, market), m), priority |-> m,
                 looked |-> l, named |-> Named(given, failed)])
  BY DEF Sign
<1>2. PICK l \in LookupPreviousTxAttempt(given, failed) :
            attempts' = Append(attempts,
                [fee |-> WithTxInputOptions(Fetched(l, market), m), priority |-> m,
                 looked |-> l, named |-> Named(given, failed)])
  BY <1>1
<1> DEFINE a == [fee |-> WithTxInputOptions(Fetched(l, market), m), priority |-> m,
                 looked |-> l, named |-> Named(given, failed)]
<1>3. /\ attempts' = Append(attempts, a)
      /\ k \in Nat /\ k <= MaxAttempts
      /\ UNCHANGED <<txPool, other, pool>>
      /\ a.fee = WithTxInputOptions(Fetched(l, market), m) /\ a.priority = m
      /\ a.looked = l /\ a.named = Named(given, failed)
  BY <1>2, EvmReplacementAssumption DEF Sign, Inv, TypeOK
<1>4. l = 0 \/ l \in Tries \/ (l = Other /\ other # NoFee)
  BY LookupTyped DEF Inv
<1>5. Covered(Fetched(l, market))
  BY <1>4, SuggestedCovered, OutbidCovered, FoundCovered DEF Inv, TypeOK, Fetched
<1>6. Covered(a.fee)
  BY <1>3, <1>5, PriorityCovered
<1>7. a \in Attempt
  <2>1. a.named \subseteq 1 .. Len(attempts)
    BY <1>3 DEF Named, Tries
  <2>2. 1 .. Len(attempts) \subseteq 1 .. MaxAttempts
    BY EvmReplacementAssumption DEF Inv, TypeOK
  <2>3. l \in 0 .. Other
    BY <1>4, EvmReplacementAssumption DEF Inv, TypeOK, Tries, Other
  <2> QED
    BY <1>3, <1>6, <2>1, <2>2, <2>3 DEF Attempt, Covered
<1> HIDE DEF a
<1>8. /\ attempts' \in Seq(Attempt) /\ Len(attempts') = k
      /\ Tries' = Tries \union {k} /\ k \notin Tries
      /\ attempts'[k] = a
      /\ \A i \in Tries : attempts'[i] = attempts[i]
  BY <1>3, <1>7 DEF Inv, TypeOK, Tries
<1>10. TypeOK'
  <2>1. \A i \in Tries' : /\ attempts'[i].looked \in 0 .. i - 1 \union {Other}
                          /\ attempts'[i].looked = Other => other' # NoFee
    BY <1>3, <1>4, <1>8, OtherIsNone DEF Inv, TypeOK, Tries
  <2>2. pool' \in [Nodes -> 0 .. Len(attempts')]
    <3>1. 0 .. Len(attempts) \subseteq 0 .. Len(attempts')
      BY <1>8 DEF Inv, TypeOK
    <3> QED
      BY <1>3, <3>1 DEF Inv, TypeOK
  <2> QED
    BY <1>3, <1>8, <2>1, <2>2 DEF Inv, TypeOK
<1>11. CapCoversTip'
  BY <1>6, <1>8 DEF Inv, CapCoversTip, Covered
<1>12. NamedEarlier'
  <2>1. a.named \subseteq 1 .. k - 1
    BY <1>3 DEF Named, Tries, Inv, TypeOK
  <2> QED
    BY <1>8, <2>1 DEF Inv, NamedEarlier
<1>13. l \in Tries /\ Keeps(m) /\ ~Tiny(attempts[l].fee)
         => Replaces(a.fee, attempts[l].fee)
  <2> SUFFICES ASSUME l \in Tries, Keeps(m), ~Tiny(attempts[l].fee)
               PROVE  Replaces(a.fee, attempts[l].fee)
    OBVIOUS
  <2>1. FeeOf(l) = attempts[l].fee /\ l # 0
    BY OtherIsNone DEF FeeOf, Inv, TypeOK, Tries
  <2>2. Fetched(l, market) = Outbid(Suggested(market), attempts[l].fee)
    BY <2>1 DEF Fetched
  <2>3. Covered(attempts[l].fee) /\ Covered(Suggested(market))
    BY FeesCovered, SuggestedCovered DEF Inv, TypeOK
  <2> QED
    BY <1>3, <2>2, <2>3, OutbidReplaces
<1>14. FindingIsOutbidding'
  <2>1. Other \notin Tries /\ Other \notin Tries' /\ 0 \notin Tries'
    BY <1>3, <1>8, EvmReplacementAssumption DEF Inv, TypeOK, Tries, Other
  <2> SUFFICES ASSUME NEW i \in Tries', NEW h \in Tries', h = attempts'[i].looked,
                      Keeps(attempts'[i].priority), ~Tiny(attempts'[h].fee)
               PROVE  Replaces(attempts'[i].fee, attempts'[h].fee)
    BY <2>1 DEF FindingIsOutbidding, FeeOf, Replaces, Tiny, Keeps, Percent
  <2>2. CASE i = k
    <3>1. h = l /\ l \in Tries
      BY <1>3, <1>4, <1>8, <2>1, <2>2
    <3> QED
      BY <1>3, <1>8, <1>13, <2>2, <3>1
  <2>3. CASE i \in Tries
    <3>1. h \in Tries
      BY <1>8, <2>1, <2>3 DEF Inv, TypeOK, Tries
    <3>2. h # Other
      BY <2>1
    <3> QED
      BY <1>8, <2>3, <3>1, <3>2 DEF Inv, FindingIsOutbidding, FeeOf
  <2> QED
    BY <1>8, <2>2, <2>3
<1>15. AllExplained'
  <2> SUFFICES ASSUME NEW i \in Tries', NEW h \in Tries', i # h,
                      ~Explained(attempts[i], h)'
               PROVE  Replaces(attempts[i].fee, attempts[h].fee)'
    BY DEF AllExplained
  <2>1. CASE i \in Tries /\ h \in Tries
    BY <1>8, <2>1 DEF Inv, AllExplained, Explained, Replaces, Tiny, Keeps
  <2>2. CASE i \in Tries /\ h = k
    \* An earlier attempt cannot have been raised over this one.
    BY <1>8, <2>2 DEF Inv, TypeOK, NamedEarlier, Explained, Tries
  <2>3. CASE i = k /\ h \in Tries
    <3>1. /\ Keeps(m) /\ ~Tiny(attempts[h].fee)
          /\ {pool[n] : n \in Nodes} = {h} /\ Asked(given, failed)
      BY <1>3, <1>8, <2>3 DEF Named, Explained, Tiny, Keeps
    <3>2. l = h
      BY <2>3, <3>1, HeldIsFound DEF Inv
    <3> QED
      BY <1>8, <1>13, <2>3, <3>1, <3>2 DEF Replaces
  <2> QED
    BY <1>8, <2>1, <2>2, <2>3
<1> QED
  BY <1>10, <1>11, <1>12, <1>14, <1>15 DEF Inv

LEMMA NextInv == Inv /\ [Next]_vars => Inv'
<1> SUFFICES ASSUME Inv, [Next]_vars PROVE Inv'
  OBVIOUS
<1>1. CASE Sign
  BY <1>1, SignKeepsInv
<1>2. ASSUME NEW n \in Nodes, Drop(n) PROVE Inv'
  BY <1>2, OthersKeepInv DEF Drop, Inv, TypeOK
<1>3. ASSUME NEW n \in Nodes, NEW i \in Tries, Deliver(i, n) PROVE Inv'
  <2>1. i \in 0 .. Len(attempts)
    BY DEF Tries, Inv, TypeOK
  <2> QED
    BY <1>3, <2>1, OthersKeepInv DEF Deliver, Inv, TypeOK
<1>4. CASE UNCHANGED vars
  BY <1>4, OthersKeepInv DEF vars, Inv, TypeOK
<1> QED
  BY <1>1, <1>2, <1>3, <1>4 DEF Next

LEMMA Invariant == Spec => []Inv
BY InitInv, NextInv, PTL DEF Spec

-----------------------------------------------------------------------------
(* Theorems. *)

\* Every variable keeps its type, and a lookup never names an attempt that
\* was not there.
THEOREM TypeCorrect == Spec => []TypeOK
<1>1. Inv => TypeOK
  BY DEF Inv
<1> QED
  BY <1>1, Invariant, PTL

\* The fee cap covers the tip however often FetchUnsimulatedInput raises both
\* and SetGasFeePriority rounds them.
THEOREM CapsCoverTips == Spec => []CapCoversTip
<1>1. Inv => CapCoversTip
  BY DEF Inv
<1> QED
  BY <1>1, Invariant, PTL

\* What LookupPreviousTxAttempt finds is outbid by what a node demands, unless
\* rounding or the priority takes the raise away.
THEOREM FoundIsOutbid == Spec => []FindingIsOutbidding
<1>1. Inv => FindingIsOutbidding
  BY DEF Inv
<1> QED
  BY <1>1, Invariant, PTL

\* A retry is refused for its price only for one of the four reasons.
THEOREM RetriesReplace == Spec => []RefusalsAreExplained
<1>1. Inv => RefusalsAreExplained
  BY AllIsEnough
<1> QED
  BY <1>1, Invariant, PTL
=============================================================================
