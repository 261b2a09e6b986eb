----------------------------- MODULE Submission -----------------------------
(***************************************************************************)
(* Sending a signed transaction from the command line until it is seen on  *)
(* the chain: the loop of "xc transfer" and the loop of "xc staking".      *)
(*                                                                         *)
(* Both submit again, every three seconds until a deadline, while the      *)
(* client answers FailedPrecondition.  Tron relies on this: its stake,     *)
(* unstake and withdraw operations are two transactions, and its SubmitTx  *)
(* sends the first, asks to be called again, and sends the second once it  *)
(* finds the first on the chain.                                           *)
(*                                                                         *)
(* A node takes a transaction, may lose it, includes it in a block, and    *)
(* some time later can tell how it went.                                   *)
(***************************************************************************)
EXTENDS Naturals

CONSTANT Timeout   \* how many sleeps the deadline leaves room for

ASSUME TimeoutAssumption == Timeout \in Nat

VARIABLES
    loop,      \* which of the two loops runs
    last,      \* the number of transactions, so the index of the last one
    pc,        \* where the loop is
    clock,     \* time since the loop began, counted up to Timeout + 1
    tx,        \* for each transaction, what became of it
    reported,  \* the loop has reported the transaction as submitted
    result,    \* how the command ended
    cause      \* the error it ended with

vars == <<loop, last, pc, clock, tx, reported, result, cause>>

Transactions == 1 .. last

\* "lost": the node took it and forgot it.  "mined": it is in a block but
\* cannot be looked up yet.
Fates == {"unsent", "pending", "lost", "mined", "success", "reverted"}

Errors == {"none", "deadline", "network", "refused", "exists", "not indexed",
           "reverted", "not found"}

Init ==
    /\ loop \in {"transfer", "staking"}
    /\ last \in IF loop = "staking" THEN {1, 2} ELSE {1}
    /\ pc = "top" /\ clock = 0
    /\ tx = [i \in Transactions |-> "unsent"]
    /\ reported = FALSE
    /\ result = "none" /\ cause = "none"

----------------------------------------------------------------------------
\* Mutant: the loop has no deadline.
MutExpired == FALSE

Expired == IF loop = "transfer" THEN clock >= Timeout ELSE clock > Timeout

Later == IF clock > Timeout THEN clock ELSE clock + 1

\* Mutant: the error is dropped on the way out.
MutStop(how, why) ==
    /\ pc' = "done" /\ result' = "ok" /\ cause' = why
    /\ UNCHANGED <<clock, reported>>

Stop(how, why) ==
    /\ pc' = "done" /\ result' = how /\ cause' = why
    /\ UNCHANGED <<clock, reported>>

Go(where) == pc' = where /\ UNCHANGED <<clock, reported, result, cause>>

\* "submitted tx"; the wait for the confirmation has a deadline of its own.
Report ==
    /\ reported' = TRUE /\ pc' = "wait" /\ clock' = 0
    /\ UNCHANGED <<result, cause>>

\* The transfer loop falls through its deadline and returns no error.
Top ==
    /\ pc = "top"
    /\ IF Expired
       THEN IF loop = "transfer" THEN Report ELSE Stop("error", "deadline")
       ELSE Go(IF last = 2 THEN "look" ELSE "send")
    /\ UNCHANGED <<loop, last, tx>>

\* Mutant: a transaction that waits at a node counts as found.
MutIndexed(i) == tx[i] # "unsent"

\* What FetchTxInfo finds of a transaction.
Indexed(i) == tx[i] \in {"success", "reverted"}

NotFound(i) == tx[i] \in {"unsent", "pending", "lost"}

\* Mutant: a first transaction that reverted counts as done.
MutMayFollow == Indexed(1)

\* The first transaction is on the chain and is valid.
MayFollow == tx[1] = "success"

\* Tron's SubmitTx of two transactions looks the first one up.
LookFirst ==
    /\ pc = "look"
    /\ \/ NotFound(1) /\ Go("send first")
       \/ tx[1] = "mined" /\ Stop("error", "not indexed")
       \/ MayFollow /\ Go("send")
       \/ Indexed(1) /\ ~MayFollow /\ Stop("error", "reverted")
       \/ Stop("error", "network")
    /\ UNCHANGED <<loop, last, tx>>

\* A node answers a broadcast of transaction i by taking it.
Taken(i) ==
    /\ tx[i] \in {"unsent", "lost"}
    /\ tx' = [tx EXCEPT ![i] = "pending"]

\* Or the broadcast fails: the node refuses, the request is lost or its
\* answer is, or the node knows the transaction already.
BroadcastFails(i) ==
    \/ tx[i] = "unsent" /\ Stop("error", "refused") /\ UNCHANGED tx
    \/ tx[i] # "unsent" /\ Stop("error", "exists") /\ UNCHANGED tx
    \/ Stop("error", "network") /\ UNCHANGED tx
    \/ Stop("error", "network") /\ Taken(i)

\* FailedPrecondition "required resubmission" makes the loop come back.
SendFirst ==
    /\ pc = "send first"
    /\ \/ Taken(1) /\ Go("sleep")
       \/ BroadcastFails(1)
    /\ UNCHANGED <<loop, last>>

\* The only transaction, or the second of two.  The nodes of some chains
\* answer FailedPrecondition themselves.
Send ==
    /\ pc = "send"
    /\ \/ Taken(last) /\ Report
       \/ last = 1 /\ tx[1] = "unsent" /\ Go("sleep") /\ UNCHANGED tx
       \/ BroadcastFails(last)
    /\ UNCHANGED <<loop, last>>

Sleep ==
    /\ pc = "sleep"
    /\ pc' = "top" /\ clock' = Later
    /\ UNCHANGED <<loop, last, tx, reported, result, cause>>

\* The transaction is looked up until it is confirmed.  Whatever goes wrong
\* with a lookup, and an unconfirmed block, make the loop sleep and come back.
Wait ==
    /\ pc = "wait"
    /\ \/ Expired /\ Stop("error", "not found")
       \/ ~Expired /\ Indexed(last) /\ Stop("ok", "none")
       \/ /\ ~Expired
          /\ clock' = Later
          /\ UNCHANGED <<pc, reported, result, cause>>
    /\ UNCHANGED <<loop, last, tx>>

LoopStep == Top \/ LookFirst \/ SendFirst \/ Send \/ Sleep \/ Wait

----------------------------------------------------------------------------
\* A request may take any time.
Tick ==
    /\ pc # "done" /\ clock' = Later
    /\ UNCHANGED <<loop, last, pc, tx, reported, result, cause>>

Fate(i, from, to) ==
    /\ tx[i] = from
    /\ tx' = [tx EXCEPT ![i] = to]
    /\ UNCHANGED <<loop, last, pc, clock, reported, result, cause>>

Mine(i) == Fate(i, "pending", "mined")

Index(i) == Fate(i, "mined", "success") \/ Fate(i, "mined", "reverted")

Lose(i) == Fate(i, "pending", "lost")

Next ==
    \/ LoopStep
    \/ Tick
    \/ \E i \in Transactions : Mine(i) \/ Index(i) \/ Lose(i)

Spec == Init /\ [][Next]_vars

\* The command runs on.  Nothing is assumed of the network or the chain.
FairSpec == Spec /\ WF_vars(LoopStep)

----------------------------------------------------------------------------
\* Every variable has its type, and only a command that ends with an error
\* names a cause.
TypeOK ==
    /\ loop \in {"transfer", "staking"}
    /\ last \in {1, 2}
    /\ pc \in {"top", "look", "send first", "send", "sleep", "wait", "done"}
    /\ clock \in 0 .. Timeout + 1
    /\ tx \in [Transactions -> Fates]
    /\ reported \in BOOLEAN
    /\ result \in {"none", "ok", "error"}
    /\ cause \in Errors
    /\ (pc = "done") <=> (result # "none")
    /\ (cause # "none") <=> (result = "error")

\* A vote is never sent for a stake that is not on the chain: the second of
\* two transactions leaves only after the first one succeeded.
SecondFollowsFirst ==
    last = 2 => (tx[2] # "unsent" => tx[1] = "success")

\* "submited tx" in the staking loop is true of the last transaction.
StakingReportsTruly ==
    (loop = "staking" /\ reported) => tx[last] # "unsent"

\* The transfer loop goes on when its deadline passes, and may report what no
\* node took as "submitted tx" (src/cmd/xc/commands/transfer.go:350).  The user
\* is not left with that: the command then ends, and with an error.
FalseReportEndsInError ==
    (reported /\ tx[last] = "unsent") ~> (pc = "done" /\ result = "error")

\* A command that ends well has seen its last transaction on the chain, and
\* with it the first.
OkMeansIncluded ==
    result = "ok" =>
        /\ tx[last] \in {"success", "reverted"}
        /\ last = 2 => tx[1] = "success"

\* The chain's decision on a transaction; one that waits, is lost or cannot be
\* looked up yet may still go either way.
Outcome(i) ==
    IF tx[i] = "success" THEN "done" ELSE IF tx[i] = "reverted" THEN "void" ELSE "open"

\* Both loops keep what an operation promises its user, through resubmission,
\* loss, reverts and deadlines.
Abstract == INSTANCE OrderedOperation
    WITH outcome <- [i \in Transactions |-> Outcome(i)], answer <- result

ImplementsOrderedOperation == Abstract!Spec

\* How much of a turn of the submission loop is left.
PartLeft ==
    CASE pc = "top"   -> 4
      [] pc = "look"  -> 3
      [] pc = "sleep" -> 1
      [] OTHER        -> 2

\* A bound on the steps left: the wait has one per unit of time, the turns of
\* the submission loop have five.
StepsLeft ==
    CASE pc = "done"          -> 0
      [] pc = "wait"          -> Timeout + 2 - clock
      [] pc = "top" /\ Expired -> Timeout + 3
      [] OTHER                -> Timeout + 3 + 5 * (Timeout + 1 - clock) + PartLeft

\* The deadlines bound the work: each request, sleep or report brings the
\* command nearer to its end, although reporting starts the clock again, and
\* nothing that time or the network does puts it back.
WorkRunsOut == [][(LoopStep => StepsLeft' < StepsLeft) /\ StepsLeft' <= StepsLeft]_vars

\* Whatever the network does, the command ends.
CommandEnds == <>(pc = "done")
=============================================================================
