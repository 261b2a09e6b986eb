-------------------------- MODULE OrderedOperation --------------------------
(***************************************************************************)
(* What a user may rely on who sends an operation of one or two            *)
(* transactions and then gets an answer: the transactions take effect one  *)
(* after the other, each once, the second only on top of a first one that  *)
(* was valid; the answer comes once and never changes; and if it is good,  *)
(* nothing is open any more.  After a bad answer transactions that have    *)
(* left may still take effect.                                             *)
(***************************************************************************)
EXTENDS Naturals

VARIABLES
    outcome,  \* for each transaction, what came of it
    answer    \* what the user was told in the end

Transactions == DOMAIN outcome

Init ==
    /\ \E n \in {1, 2} : outcome = [i \in 1 .. n |-> "open"]
    /\ answer = "none"

\* The chain decides on transaction i, for good.
Settle(i) ==
    /\ outcome[i] = "open"
    /\ \A j \in 1 .. i - 1 : outcome[j] = "done"
    /\ \E o \in {"done", "void"} : outcome' = [outcome EXCEPT ![i] = o]
    /\ UNCHANGED answer

Answer ==
    /\ answer = "none"
    /\ answer' \in {"ok", "error"}
    /\ answer' = "ok" => \A i \in Transactions : outcome[i] # "open"
    /\ UNCHANGED outcome

Next == Answer \/ \E i \in Transactions : Settle(i)

Spec == Init /\ [][Next]_<<outcome, answer>>
=============================================================================
