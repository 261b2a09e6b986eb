-------------------------- MODULE AtMostOnceUnless --------------------------
(***************************************************************************)
(* The promise of AtMostOnce where a driver's rules keep it only for some  *)
(* payments.  src/tx.go:66-74 promises that of all attempts of a payment   *)
(* one can land.  A payment becomes exposed when it is signed again        *)
(* although its driver's rule cannot tell that the attempts exclude each   *)
(* other; until then it is paid once at most.  A wallet that implements    *)
(* this module says through exposed which payments those are.              *)
(***************************************************************************)

CONSTANT Payments   \* the payments the owner has asked for

VARIABLES
    paidBy,  \* for each payment, the attempts that moved its funds
    exposed  \* the payments that more than one attempt may pay

Init == paidBy = [p \in Payments |-> {}] /\ exposed = {}

\* One more attempt pays p, which is exposed or was not paid before.
Pay(p) ==
    /\ paidBy[p] = {} \/ p \in exposed
    /\ \E a \in paidBy'[p] : paidBy' = [paidBy EXCEPT ![p] = @ \cup {a}]
    /\ UNCHANGED exposed

\* p is signed again, and the promise is gone for it.
Expose(p) ==
    /\ exposed' = exposed \cup {p}
    /\ UNCHANGED paidBy

Next == \E p \in Payments : Pay(p) \/ Expose(p)

Spec == Init /\ [][Next]_<<paidBy, exposed>>
=============================================================================
