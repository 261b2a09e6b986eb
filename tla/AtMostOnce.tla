----------------------------- MODULE AtMostOnce -----------------------------
(***************************************************************************)
(* What crosschain promises the owner of an address about a payment.       *)
(*                                                                         *)
(* A payment may be signed more than once: the first transaction timed     *)
(* out, or its fee was too low.  Each signed transaction is an attempt.    *)
(* src/tx.go:66-74 gives the promise: "a valid re-sign should only occur   *)
(* if it's only possible for one transaction to land out of the total set  *)
(* of attempts".  Here every payment is paid by at most one attempt, and   *)
(* once it is paid nothing changes that any more.  The wallets of this     *)
(* project are shown to implement this module.                             *)
(***************************************************************************)

CONSTANT Payments   \* the payments the owner has asked for

VARIABLE paidBy \* for each payment, the attempts that moved its funds

Init == paidBy = [p \in Payments |-> {}]

\* Exactly one attempt pays p, which was not paid before.
Pay(p) ==
    /\ paidBy[p] = {}
    /\ \E a \in paidBy'[p] : paidBy' = [paidBy EXCEPT ![p] = {a}]

Next == \E p \in Payments : Pay(p)

Spec == Init /\ [][Next]_paidBy
=============================================================================
