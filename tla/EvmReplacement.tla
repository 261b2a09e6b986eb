--------------------------- MODULE EvmReplacement ---------------------------
(***************************************************************************)
(* The fees of an EVM payment that is tried again under the same number     *)
(* while its first attempt waits in the nodes' pools.  A node replaces a    *)
(* waiting transaction only by one that pays so many percent more.  The    *)
(* client looks for a waiting transaction, by the hashes of the earlier     *)
(* attempts and then in the pool, outbids the first one it finds, and then  *)
(* applies the caller's priority.  A request is answered by any of the      *)
(* nodes behind the endpoint, or fails; both count as "not found".          *)
(*                                                                          *)
(* Fees are integers, percentages are rounded down.  Which attempt is       *)
(* included in the end is the matter of NonceWallet and EvmSponsored.       *)
(***************************************************************************)
EXTENDS Integers, Sequences

CONSTANTS
    Nodes,       \* the nodes behind the endpoint
    Markets,     \* the base fees and tips the nodes may suggest
    Priorities,  \* the caller's multipliers, in percent; 0 when none is given
    Bump,        \* the raise over a waiting transaction, in percent
    Threshold,   \* what a node demands of a replacement, in percent
    Others,      \* fees that another waiting transaction may have
    TxPools,     \* whether nodes answer txpool_contentFrom
    MaxAttempts  \* bound: attempts signed

Fees == [cap : Nat, tip : Nat]

\* There is no such transaction.
NoFee == [cap |-> 0, tip |-> 0]

ASSUME EvmReplacementAssumption ==
    /\ Markets \subseteq [base : Nat, tip : Nat]
    /\ Priorities \subseteq Nat
    /\ Bump \in Nat /\ Threshold \in Nat /\ Threshold <= Bump /\ 100 < Bump
    /\ Others \subseteq {f \in Fees : f.tip <= f.cap /\ f # NoFee}
    /\ TxPools \subseteq BOOLEAN
    /\ MaxAttempts \in Nat

VARIABLES
    txPool,    \* whether the nodes answer txpool_contentFrom
    other,     \* the fees of another number of the account waiting, or NoFee
    attempts,  \* the attempts signed so far
    pool       \* the attempt waiting at each node, or 0

vars == <<txPool, other, attempts, pool>>

-----------------------------------------------------------------------------
(* Prices. *)

Larger(a, b) == IF a < b THEN b ELSE a

Percent(m, x) == (x * m) \div 100

Raised(f) == [cap |-> Percent(Bump, f.cap), tip |-> Percent(Bump, f.tip)]

MutSuggested(m) == [cap |-> m.base, tip |-> m.tip]

\* The cap is at least the tip.
Suggested(m) == [cap |-> Larger(m.base, m.tip), tip |-> m.tip]

Outbid(f, old) ==
    [cap |-> Larger(f.cap, Raised(old).cap), tip |-> Larger(f.tip, Raised(old).tip)]

SetGasFeePriority(f, m) ==
    [cap |-> Larger(Percent(m, f.cap), Percent(m, f.tip)), tip |-> Percent(m, f.tip)]

WithTxInputOptions(f, m) == IF m = 0 THEN f ELSE SetGasFeePriority(f, m)

\* The priority takes nothing off the fees.
Keeps(m) == m = 0 \/ m >= 100

\* A node's rule: both fees are higher, and by the threshold.
Replaces(new, old) ==
    /\ new.cap > old.cap /\ new.cap >= Percent(Threshold, old.cap)
    /\ new.tip > old.tip /\ new.tip >= Percent(Threshold, old.tip)

-----------------------------------------------------------------------------
(* Attempts. *)

Tries == 1 .. Len(attempts)

\* Stands for the other number's transaction where an attempt is meant.
Other == MaxAttempts + 1

Attempt ==
    [fee : Fees, priority : Priorities, looked : 0 .. Other,
     named : SUBSET (1 .. MaxAttempts)]

FeeOf(i) == IF i = Other THEN other ELSE attempts[i].fee

Finds(i) == \E n \in Nodes : pool[n] = i

Misses(i, failed) == failed \/ \E n \in Nodes : pool[n] # i

\* LookupPreviousTxAttempt by the hashes the caller gives, in their order.
ByHash(failed) ==
    {i \in Tries : Finds(i) /\ \A j \in 1 .. i - 1 : Misses(j, failed)}

MutInPool(failed) == {0}

\* The flag that tells whether anything was found is ignored.
MutInfoFor == {Other}

\* InfoFor: any number of the account will do.
InfoFor == IF other # NoFee THEN {Other} ELSE {0 : n \in {m \in Nodes : pool[m] = 0}}

\* LookupPreviousTxAttempt in the pool.
InPool(failed) ==
    IF ~txPool THEN {0}
    ELSE {i \in Tries : Finds(i)}
         \union InfoFor
         \union (IF failed THEN {0} ELSE {})

LookupPreviousTxAttempt(given, failed) ==
    IF ~given THEN InPool(failed)
    ELSE ByHash(failed)
         \union (IF \A j \in Tries : Misses(j, failed) THEN InPool(failed) ELSE {})

-----------------------------------------------------------------------------
Init ==
    /\ txPool \in TxPools
    /\ other \in Others \union {NoFee}
    /\ attempts = <<>>
    /\ pool = [n \in Nodes |-> 0]

\* Whether the answers, by their form, name the account's one waiting attempt.
Asked(given, failed) == ~failed /\ (given \/ (txPool /\ other = NoFee))

\* The attempt that every answer has to name, if there is one: all nodes hold it.
Named(given, failed) ==
    {i \in Tries : Asked(given, failed) /\ {pool[n] : n \in Nodes} = {i}}

\* The fees of the input: what the nodes suggest, raised over what was found.
Fetched(looked, market) ==
    IF looked = 0 THEN Suggested(market)
    ELSE Outbid(Suggested(market), FeeOf(looked))

\* The input is fetched, the priority applied and the transaction signed.  The
\* market may be another one at each fetch.
Sign ==
    /\ Len(attempts) < MaxAttempts
    /\ \E given, failed \in BOOLEAN, m \in Priorities, market \in Markets :
          \E l \in LookupPreviousTxAttempt(given, failed) :
             attempts' = Append(attempts,
                [fee |-> WithTxInputOptions(Fetched(l, market), m), priority |-> m,
                 looked |-> l, named |-> Named(given, failed)])
    /\ UNCHANGED <<txPool, other, pool>>

\* A node gets an attempt from the caller or from another node, perhaps late
\* and perhaps again.
Deliver(i, n) ==
    /\ i \in Tries
    /\ pool[n] # 0 => Replaces(attempts[i].fee, attempts[pool[n]].fee)
    /\ pool' = [pool EXCEPT ![n] = i]
    /\ UNCHANGED <<txPool, other, attempts>>

Drop(n) ==
    /\ pool[n] # 0
    /\ pool' = [pool EXCEPT ![n] = 0]
    /\ UNCHANGED <<txPool, other, attempts>>

Next ==
    \/ Sign
    \/ \E n \in Nodes : Drop(n) \/ \E i \in Tries : Deliver(i, n)

Spec == Init /\ [][Next]_vars

-----------------------------------------------------------------------------
(* Properties. *)

\* The variables hold what the code's types allow.
TypeOK ==
    /\ txPool \in TxPools
    /\ other \in Others \union {NoFee}
    /\ attempts \in Seq(Attempt)
    /\ Len(attempts) <= MaxAttempts
    /\ pool \in [Nodes -> 0 .. Len(attempts)]
    /\ \A i \in Tries : attempts[i].looked \in 0 .. i - 1 \union {Other}
    /\ \A i \in Tries : attempts[i].looked = Other => other # NoFee

\* No attempt promises a tip above its cap, whatever it was raised over and
\* however it was rounded; a node rejects such a transaction.
CapCoversTip == \A i \in Tries : attempts[i].fee.tip <= attempts[i].fee.cap

\* A raise of these fees is rounded to nothing.
Tiny(f) == f.cap * (Bump - 100) < 100 \/ f.tip * (Bump - 100) < 100

\* Why attempt a may not replace attempt h.
Explained(a, h) ==
    \/ ~Keeps(a.priority)     \* the priority undoes the raise
    \/ Tiny(attempts[h].fee)  \* the raise is rounded away
    \/ h \notin a.named       \* not all nodes held h at the fetch, or no
                              \* answer had to name it

\* The promise of a retry: it replaces the waiting attempt.  An attempt is
\* refused for its price only for one of the reasons named.
RefusalsAreExplained ==
    \A n \in Nodes, i \in Tries :
        LET h == pool[n]
        IN  (h # 0 /\ h # i /\ ~Replaces(attempts[i].fee, attempts[h].fee))
               => Explained(attempts[i], h)

\* A client that finds the attempt in its way always outbids it, at every
\* fee, market and priority, when the raise is not rounded away or undone.
FindingIsOutbidding ==
    \A i \in Tries :
        LET a == attempts[i]
        IN  (a.looked \in Tries /\ Keeps(a.priority) /\ ~Tiny(FeeOf(a.looked)))
               => Replaces(a.fee, FeeOf(a.looked))
=============================================================================
