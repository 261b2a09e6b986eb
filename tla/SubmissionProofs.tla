-------------------------- MODULE SubmissionProofs --------------------------
(***************************************************************************)
(* Proofs about the submission loops, for every Timeout: the types, that   *)
(* the second of two transactions follows a first one that succeeded, that *)
(* a command which ends well has seen its transactions on the chain, and   *)
(* that the staking loop reports only what has left.                       *)
(***************************************************************************)
EXTENDS Submission, TLAPS

OneInTransfer == loop = "transfer" => last = 1

\* When the second transaction is about to be sent, is waited for, or has
\* left, the first one has succeeded.
SecondIsTurn ==
    last = 2 => (pc \in {"send", "wait"} \/ tx[2] # "unsent" => MayFollow)

EndsWell == result = "ok" => Indexed(last) /\ (last = 2 => MayFollow)

IInv == TypeOK /\ OneInTransfer /\ SecondIsTurn /\ EndsWell

----------------------------------------------------------------------------
\* The clock stops one past the deadline.
LEMMA LaterBounded ==
    ASSUME clock \in 0 .. Timeout + 1
    PROVE  Later \in 0 .. Timeout + 1
BY TimeoutAssumption DEF TimeoutAssumption, Later

LEMMA InitTyped ==
    ASSUME Init
    PROVE  TypeOK
<1> USE TimeoutAssumption DEF TimeoutAssumption
<1>1. last \in {1, 2} /\ loop \in {"transfer", "staking"}
  BY DEF Init
<1>2. clock \in 0 .. Timeout + 1
  BY DEF Init
<1>3. tx \in [Transactions -> Fates]
  BY DEF Init, Fates
<1>4. (pc = "done") <=> (result # "none")
  BY DEF Init
<1>5. (cause # "none") <=> (result = "error")
  BY DEF Init
<1> QED
  BY <1>1, <1>2, <1>3, <1>4, <1>5 DEF Init, TypeOK, Errors

\* One step of any kind keeps the types.
LEMMA Typing == Spec => []TypeOK
<1> USE TimeoutAssumption DEF TimeoutAssumption
<1>1. Init => TypeOK
  BY InitTyped
<1>2. TypeOK /\ [Next]_vars => TypeOK'
  <2> SUFFICES ASSUME TypeOK, [Next]_vars
               PROVE  TypeOK'
    OBVIOUS
  <2> USE DEF TypeOK, Transactions, Fates, Errors
  <2>1. ASSUME Top PROVE TypeOK'
    <3>1. clock' \in 0 .. Timeout + 1 /\ UNCHANGED <<loop, last, tx>>
      BY <2>1 DEF Top, Stop, Go, Report
    <3>2. CASE Report
      BY <2>1, <3>1, <3>2 DEF Top, Report
    <3>3. CASE Stop("error", "deadline")
      BY <2>1, <3>1, <3>3 DEF Top, Stop
    <3>4. CASE Go("look") \/ Go("send")
      BY <2>1, <3>1, <3>4 DEF Top, Go
    <3> QED
      BY <2>1, <3>2, <3>3, <3>4 DEF Top
  <2>2. ASSUME LookFirst PROVE TypeOK'
    BY <2>2 DEF LookFirst, Stop, Go
  <2>3. ASSUME SendFirst PROVE TypeOK'
    BY <2>3 DEF SendFirst, Taken, BroadcastFails, Stop, Go
  <2>4. ASSUME Send PROVE TypeOK'
    <3>1. /\ clock' \in 0 .. Timeout + 1 /\ tx' \in [Transactions -> Fates]
          /\ UNCHANGED <<loop, last>>
      BY <2>4 DEF Send, Taken, BroadcastFails, Stop, Go, Report
    <3>2. CASE Report
      BY <2>4, <3>1, <3>2 DEF Send, Report
    <3>3. CASE Go("sleep")
      BY <2>4, <3>1, <3>3 DEF Send, Go
    <3>4. CASE BroadcastFails(last)
      BY <2>4, <3>1, <3>4 DEF Send, BroadcastFails, Stop
    <3> QED
      BY <2>4, <3>2, <3>3, <3>4 DEF Send
  <2>5. ASSUME Sleep PROVE TypeOK'
    BY <2>5, LaterBounded DEF Sleep
  <2>6. ASSUME Wait PROVE TypeOK'
    <3>1. clock' \in 0 .. Timeout + 1 /\ UNCHANGED <<loop, last, tx>>
      BY <2>6, LaterBounded DEF Wait, Stop
    <3>2. CASE Stop("error", "not found") \/ Stop("ok", "none")
      BY <2>6, <3>1, <3>2 DEF Wait, Stop
    <3>3. CASE UNCHANGED <<pc, reported, result, cause>>
      BY <2>6, <3>1, <3>3 DEF Wait
    <3> QED
      BY <2>6, <3>2, <3>3 DEF Wait
  <2>7. ASSUME Tick PROVE TypeOK'
    <3>1. clock' \in 0 .. Timeout + 1
      BY <2>7, LaterBounded DEF Tick
    <3> QED
      BY <2>7, <3>1 DEF Tick
  <2>8. ASSUME NEW i \in Transactions, Mine(i) \/ Index(i) \/ Lose(i)
        PROVE  TypeOK'
    <3>1. tx' \in [Transactions -> Fates]
      BY <2>8 DEF Mine, Index, Lose, Fate
    <3>2. UNCHANGED <<loop, last, pc, clock, reported, result, cause>>
      BY <2>8 DEF Mine, Index, Lose, Fate
    <3> QED
      BY <3>1, <3>2
  <2>9. CASE UNCHANGED vars
    BY <2>9 DEF vars
  <2> QED
    BY <2>1, <2>2, <2>3, <2>4, <2>5, <2>6, <2>7, <2>8, <2>9 DEF Next, LoopStep
<1> QED
  BY <1>1, <1>2, PTL DEF Spec

\* Every variable keeps its type, and only errors name a cause.
THEOREM TypeCorrect == Spec => []TypeOK
BY Typing

----------------------------------------------------------------------------
LEMMA Numbered ==
    ASSUME last \in {1, 2}
    PROVE  /\ 1 \in Transactions /\ last \in Transactions
           /\ last = 2 => 2 \in Transactions
<1>1. CASE last = 1
  BY <1>1 DEF Transactions
<1>2. CASE last = 2
  BY <1>2 DEF Transactions
<1> QED
  BY <1>1, <1>2

\* What is on the chain stays there, and what has left stays sent.
LEMMA ChainStep ==
    ASSUME IInv, NEW i \in Transactions, Mine(i) \/ Index(i) \/ Lose(i)
    PROVE  OneInTransfer' /\ SecondIsTurn' /\ EndsWell'
<1>1. /\ UNCHANGED <<loop, last, pc, result>>
      /\ tx[i] \in {"pending", "mined"}
      /\ tx' = [tx EXCEPT ![i] = tx'[i]]
  BY DEF Mine, Index, Lose, Fate, IInv, TypeOK
<1>2. \A j \in Transactions : Indexed(j) => tx'[j] = tx[j]
  BY <1>1 DEF Indexed, IInv, TypeOK
<1>3. 1 \in Transactions /\ last \in Transactions /\ (last = 2 => 2 \in Transactions)
  BY Numbered DEF IInv, TypeOK
<1>4. MayFollow => MayFollow'
  BY <1>2, <1>3 DEF MayFollow, Indexed
<1>5. OneInTransfer'
  BY <1>1 DEF OneInTransfer, IInv
<1>6. SecondIsTurn'
  <2>1. last = 2 /\ tx[2] = "unsent" => tx'[2] = "unsent"
    BY <1>1, <1>3 DEF IInv, TypeOK
  <2> QED
    BY <1>1, <1>4, <2>1 DEF SecondIsTurn, IInv
<1>7. EndsWell'
  BY <1>1, <1>2, <1>3, <1>4 DEF EndsWell, Indexed, IInv
<1> QED
  BY <1>5, <1>6, <1>7

\* A broadcast changes nothing but the transaction it sends.
LEMMA SendStep ==
    ASSUME IInv, SendFirst \/ Send
    PROVE  OneInTransfer' /\ SecondIsTurn' /\ EndsWell'
<1>1. 1 \in Transactions /\ last \in Transactions /\ (last = 2 => 2 \in Transactions)
  BY Numbered DEF IInv, TypeOK
<1>2. result' # "ok" /\ UNCHANGED <<loop, last>>
  BY DEF SendFirst, Send, BroadcastFails, Stop, Go, Report, IInv, TypeOK
<1>3. SecondIsTurn'
  <2>1. CASE SendFirst
    <3>1. pc' \in {"sleep", "done"}
      BY <2>1 DEF SendFirst, BroadcastFails, Stop, Go
    <3>2. UNCHANGED tx \/ (tx[1] \in {"unsent", "lost"} /\ tx' = [tx EXCEPT ![1] = "pending"])
      BY <2>1 DEF SendFirst, BroadcastFails, Taken
    <3>3. last = 2 => tx'[2] = tx[2] /\ (tx[1] = "success" => tx'[1] = tx[1])
      <4>1. tx \in [Transactions -> Fates]
        BY DEF IInv, TypeOK
      <4> QED
        BY <1>1, <3>2, <4>1
    <3>4. last = 2 /\ tx[2] # "unsent" => tx[1] = "success"
      BY DEF IInv, SecondIsTurn, MayFollow
    <3> QED
      BY <1>2, <3>1, <3>3, <3>4 DEF SecondIsTurn, MayFollow
  <2>2. CASE Send
    <3>1. UNCHANGED tx \/ (tx[last] \in {"unsent", "lost"} /\ tx' = [tx EXCEPT ![last] = "pending"])
      BY <2>2 DEF Send, BroadcastFails, Taken
    <3>2. last = 2 => MayFollow
      BY <2>2 DEF Send, SecondIsTurn, IInv
    <3> QED
      BY <1>1, <1>2, <3>1, <3>2 DEF SecondIsTurn, MayFollow, IInv, TypeOK
  <2> QED
    BY <2>1, <2>2
<1> QED
  BY <1>2, <1>3 DEF OneInTransfer, EndsWell, IInv

LEMMA Invariance == Spec => []IInv
<1>1. Init => IInv
  <2> SUFFICES ASSUME Init PROVE IInv
    OBVIOUS
  <2>1. OneInTransfer /\ SecondIsTurn /\ EndsWell
    BY DEF Init, OneInTransfer, SecondIsTurn, EndsWell, Transactions
  <2>2. TypeOK
    BY InitTyped
  <2> QED
    BY <2>1, <2>2 DEF IInv
<1>2. IInv /\ TypeOK' /\ [Next]_vars => IInv'
  <2> SUFFICES ASSUME IInv, TypeOK', [Next]_vars
               PROVE  OneInTransfer' /\ SecondIsTurn' /\ EndsWell'
    BY DEF IInv
  <2> USE DEF IInv, OneInTransfer, SecondIsTurn, EndsWell, MayFollow, Indexed
  <2>1. ASSUME Top PROVE OneInTransfer' /\ SecondIsTurn' /\ EndsWell'
    <3>1. UNCHANGED <<loop, last, tx>> /\ result' # "ok"
      BY <2>1 DEF Top, Stop, Go, Report, TypeOK
    <3>2. last = 2 => pc' \in {"look", "done"}
      BY <2>1 DEF Top, Stop, Go, Report
    <3> QED
      BY <3>1, <3>2
  <2>2. ASSUME LookFirst PROVE OneInTransfer' /\ SecondIsTurn' /\ EndsWell'
    BY <2>2 DEF LookFirst, Stop, Go, TypeOK
  <2>3. ASSUME Sleep PROVE OneInTransfer' /\ SecondIsTurn' /\ EndsWell'
    BY <2>3 DEF Sleep
  <2>4. ASSUME Wait PROVE OneInTransfer' /\ SecondIsTurn' /\ EndsWell'
    BY <2>4 DEF Wait, Stop
  <2>5. ASSUME Tick PROVE OneInTransfer' /\ SecondIsTurn' /\ EndsWell'
    BY <2>5 DEF Tick
  <2>6. CASE UNCHANGED vars
    BY <2>6 DEF vars
  <2> QED
    BY <2>1, <2>2, <2>3, <2>4, <2>5, <2>6, SendStep, ChainStep DEF Next, LoopStep
<1> QED
  BY <1>1, <1>2, Typing, PTL DEF Spec

\* The second of two transactions leaves only after the first succeeded,
\* whatever the network loses, delays or reverts.
THEOREM VoteFollowsStake == Spec => []SecondFollowsFirst
<1>1. IInv => SecondFollowsFirst
  BY DEF IInv, SecondIsTurn, SecondFollowsFirst, MayFollow
<1> QED
  BY <1>1, Invariance, PTL

\* A command that ends well has seen its transactions on the chain.
THEOREM OkIsTrue == Spec => []OkMeansIncluded
<1>1. IInv => OkMeansIncluded
  BY DEF IInv, EndsWell, OkMeansIncluded, Indexed, MayFollow
<1> QED
  BY <1>1, Invariance, PTL

----------------------------------------------------------------------------
\* The staking loop reports in Send only, right after the broadcast.
LEMMA StakingReports ==
    ASSUME TypeOK, StakingReportsTruly, [Next]_vars
    PROVE  StakingReportsTruly'
<1>1. UNCHANGED <<loop, last>>
  BY DEF Next, LoopStep, Top, LookFirst, SendFirst, Send, Sleep, Wait, Tick,
     Mine, Index, Lose, Fate, vars
<1>2. 1 \in Transactions /\ last \in Transactions
  BY Numbered DEF TypeOK
<1>3. tx[last] # "unsent" => tx'[last] # "unsent"
  <2>1. CASE SendFirst \/ Send
    BY <2>1, <1>2 DEF SendFirst, Send, Taken, BroadcastFails, TypeOK
  <2>2. ASSUME NEW i \in Transactions, Mine(i) \/ Index(i) \/ Lose(i)
        PROVE  tx[last] # "unsent" => tx'[last] # "unsent"
    BY <2>2, <1>2 DEF Mine, Index, Lose, Fate, TypeOK
  <2>3. CASE Top \/ LookFirst \/ Sleep \/ Wait \/ Tick \/ UNCHANGED vars
    BY <2>3 DEF Top, LookFirst, Sleep, Wait, Tick, vars
  <2> QED BY <2>1, <2>2, <2>3 DEF Next, LoopStep
<1>4. loop = "staking" /\ reported' => reported \/ tx'[last] # "unsent"
  <2>1. CASE Top
    BY <2>1 DEF Top, Stop, Go
  <2>2. CASE Send
    <3>1. CASE Taken(last) /\ Report
      BY <3>1, <1>2 DEF Taken, TypeOK
    <3>2. CASE ~(Taken(last) /\ Report)
      BY <2>2, <3>2 DEF Send, BroadcastFails, Stop, Go
    <3> QED BY <3>1, <3>2
  <2>3. CASE LookFirst \/ SendFirst
    BY <2>3 DEF LookFirst, SendFirst, BroadcastFails, Stop, Go
  <2>4. CASE Sleep \/ Wait \/ Tick \/ UNCHANGED vars
    BY <2>4 DEF Sleep, Wait, Stop, Tick, vars
  <2>5. CASE \E i \in Transactions : Mine(i) \/ Index(i) \/ Lose(i)
    BY <2>5 DEF Mine, Index, Lose, Fate
  <2> QED BY <2>1, <2>2, <2>3, <2>4, <2>5 DEF Next, LoopStep
<1> QED BY <1>1, <1>3, <1>4 DEF StakingReportsTruly

\* What the staking loop reports as submitted has left, whatever the network
\* does with it.
THEOREM StakingReportIsTrue == Spec => []StakingReportsTruly
<1>1. Init => StakingReportsTruly
  BY DEF Init, StakingReportsTruly
<1>2. TypeOK /\ StakingReportsTruly /\ [Next]_vars => StakingReportsTruly'
  BY StakingReports
<1> QED BY <1>1, <1>2, Typing, PTL DEF Spec

(***************************************************************************)
(* The command implements OrderedOperation: Index is the only step that    *)
(* settles a transaction, and the loop's last step gives the answer.       *)
(***************************************************************************)
Outcomes == [i \in Transactions |-> Outcome(i)]

\* A transaction that is open stays so unless it is indexed.
LEMMA SettlesOnlyByIndex ==
    ASSUME TypeOK, [Next]_vars, \A i \in Transactions : ~Index(i)
    PROVE  UNCHANGED Outcomes
<1>1. UNCHANGED last /\ UNCHANGED Transactions
  BY DEF Next, LoopStep, Top, LookFirst, SendFirst, Send, Sleep, Wait, Tick, Mine, Lose,
     Fate, vars, Transactions
<1>2. 1 \in Transactions /\ last \in Transactions /\ tx \in [Transactions -> Fates]
  BY Numbered DEF TypeOK
<1>3. SUFFICES \A i \in Transactions : Outcome(i)' = Outcome(i)
  BY <1>1 DEF Outcomes
<1>4. CASE tx' = tx
  BY <1>4 DEF Outcome
<1>5. ASSUME NEW i \in Transactions, NEW fate \in {"pending", "mined", "lost"},
             tx[i] \notin {"success", "reverted"}, tx' = [tx EXCEPT ![i] = fate]
      PROVE  \A j \in Transactions : Outcome(j)' = Outcome(j)
  BY <1>2, <1>5 DEF Outcome
<1>6. \/ tx' = tx
      \/ \E i \in Transactions, fate \in {"pending", "mined", "lost"} :
            tx[i] \notin {"success", "reverted"} /\ tx' = [tx EXCEPT ![i] = fate]
  <2>1. CASE Top \/ LookFirst \/ Sleep \/ Wait \/ Tick \/ UNCHANGED vars
    BY <2>1 DEF Top, LookFirst, Sleep, Wait, Tick, vars
  <2>2. CASE SendFirst
    BY <1>2, <2>2 DEF SendFirst, Taken, BroadcastFails
  <2>3. CASE Send
    BY <1>2, <2>3 DEF Send, Taken, BroadcastFails
  <2>4. ASSUME NEW i \in Transactions, Mine(i) \/ Lose(i)
        PROVE  \E fate \in {"mined", "lost"} :
                  tx[i] \notin {"success", "reverted"} /\ tx' = [tx EXCEPT ![i] = fate]
    BY <2>4 DEF Mine, Lose, Fate
  <2> QED BY <2>1, <2>2, <2>3, <2>4 DEF Next, LoopStep
<1> QED BY <1>4, <1>5, <1>6

\* The chain decides on the second transaction after the first was valid.
LEMMA SettleStep ==
    ASSUME IInv, NEW i \in Transactions, Index(i)
    PROVE  Abstract!Settle(i)
<1>1. /\ tx[i] = "mined" /\ UNCHANGED <<last, result>>
      /\ \E o \in {"success", "reverted"} : tx' = [tx EXCEPT ![i] = o]
  BY DEF Index, Fate
<1>2. tx \in [Transactions -> Fates] /\ last \in {1, 2}
  BY DEF IInv, TypeOK
<1>3. Outcomes[i] = "open"
  BY <1>1 DEF Outcomes, Outcome
<1>4. \E o \in {"done", "void"} : Outcomes' = [Outcomes EXCEPT ![i] = o]
  <2>1. PICK o \in {"success", "reverted"} : tx' = [tx EXCEPT ![i] = o]
    BY <1>1
  <2>2. Transactions' = Transactions
    BY <1>1 DEF Transactions
  <2>3. Outcomes' = [Outcomes EXCEPT ![i] = IF o = "success" THEN "done" ELSE "void"]
    BY <2>1, <2>2, <1>2 DEF Outcomes, Outcome
  <2> QED BY <2>3
<1>5. \A j \in 1 .. i - 1 : Outcomes[j] = "done"
  <2> SUFFICES ASSUME NEW j \in 1 .. i - 1 PROVE Outcomes[j] = "done"
    OBVIOUS
  <2>1. last = 2 /\ i = 2 /\ j = 1 /\ 1 \in Transactions
    BY <1>2 DEF Transactions
  <2>2. tx[1] = "success"
    BY <1>1, <2>1 DEF IInv, SecondIsTurn, MayFollow
  <2> QED BY <2>1, <2>2 DEF Outcomes, Outcome
<1> QED BY <1>1, <1>3, <1>4, <1>5 DEF Abstract!Settle, Outcomes

\* A good answer is given when the last transaction is found, and then the
\* first one was.
LEMMA AnswerStep ==
    ASSUME IInv, TypeOK', [Next]_vars, UNCHANGED Outcomes, result' # result
    PROVE  Abstract!Answer
<1>1. pc # "done"
  BY DEF Next, LoopStep, Top, LookFirst, SendFirst, Send, Sleep, Wait, Tick, Mine, Index,
     Lose, Fate, vars, Stop, Go, Report, BroadcastFails
<1>2. result = "none" /\ result' \in {"ok", "error"}
  BY <1>1 DEF IInv, TypeOK
<1>3. ASSUME result' = "ok"
      PROVE  \A i \in Transactions : Outcomes[i] # "open"
  <2>1. Wait /\ Indexed(last)
    BY <1>2, <1>3 DEF Next, LoopStep, Top, LookFirst, SendFirst, Send, Sleep, Wait, Tick,
       Mine, Index, Lose, Fate, vars, Stop, Go, Report, BroadcastFails
  <2>2. last = 2 => tx[1] = "success"
    BY <2>1 DEF Wait, IInv, SecondIsTurn, MayFollow
  <2>3. last \in {1, 2}
    BY DEF IInv, TypeOK
  <2>4. \A i \in Transactions : i = last \/ (i = 1 /\ last = 2)
    BY <2>3 DEF Transactions
  <2>5. \A i \in Transactions : Indexed(i)
    BY <2>1, <2>2, <2>4 DEF Indexed
  <2> QED BY <2>5 DEF Outcomes, Outcome, Indexed
<1> QED BY <1>2, <1>3 DEF Abstract!Answer, Abstract!Transactions, Outcomes

\* Whatever is lost, resent, reverted or timed out, the command implements
\* OrderedOperation: what is on the chain is final and in order, and its
\* answer comes once and is never better than what happened.
THEOREM Refinement == Spec => ImplementsOrderedOperation
<1>1. Init => Abstract!Init
  BY DEF Init, Abstract!Init, Transactions, Outcome
<1>2. IInv /\ TypeOK' /\ [Next]_vars => [Abstract!Next]_<<Outcomes, result>>
  <2> SUFFICES ASSUME IInv, TypeOK', [Next]_vars
               PROVE  Abstract!Next \/ UNCHANGED <<Outcomes, result>>
    OBVIOUS
  <2>1. CASE \E i \in Transactions : Index(i)
    BY <2>1, SettleStep DEF Abstract!Next, Abstract!Transactions
  <2>2. CASE \A i \in Transactions : ~Index(i)
    <3>1. UNCHANGED Outcomes
      BY <2>2, SettlesOnlyByIndex DEF IInv
    <3> QED BY <3>1, AnswerStep DEF Abstract!Next
  <2> QED BY <2>1, <2>2
<1> QED BY <1>1, <1>2, Invariance, Typing, PTL
        DEF Spec, ImplementsOrderedOperation, Abstract!Spec, Outcomes
(***************************************************************************)
(* The command runs out of work.                                           *)
(***************************************************************************)
MostSteps == 6 * Timeout + 12

\* Each unit of time left is worth five steps, the wait one, on top of which
\* comes the part of the current turn.
LEMMA StepsCounted ==
    ASSUME TypeOK
    PROVE  /\ StepsLeft \in 0 .. MostSteps
           /\ pc = "done" <=> StepsLeft = 0
           /\ pc = "wait" => StepsLeft = Timeout + 2 - clock
           /\ pc \notin {"wait", "done"} => StepsLeft >= Timeout + 3
           /\ PartLeft \in 1 .. 4
<1>1. Timeout \in Nat /\ clock \in 0 .. Timeout + 1
  BY TimeoutAssumption DEF TimeoutAssumption, TypeOK
<1>2. PartLeft \in 1 .. 4
  BY DEF PartLeft
<1>3. CASE pc = "done"
  BY <1>1, <1>2, <1>3 DEF StepsLeft, MostSteps
<1>4. CASE pc = "wait"
  BY <1>1, <1>2, <1>4 DEF StepsLeft, MostSteps
<1>5. CASE pc = "top" /\ Expired
  BY <1>1, <1>2, <1>5 DEF StepsLeft, MostSteps
<1>6. CASE pc \notin {"wait", "done"} /\ ~(pc = "top" /\ Expired)
  <2>1. StepsLeft = Timeout + 3 + 5 * (Timeout + 1 - clock) + PartLeft
    BY <1>6 DEF StepsLeft
  <2> QED BY <1>1, <1>2, <1>6, <2>1 DEF MostSteps
<1> QED BY <1>2, <1>3, <1>4, <1>5, <1>6

LEMMA BaseCounted ==
    ASSUME TypeOK
    PROVE  Timeout + 3 + 5 * (Timeout + 1 - clock) \in Nat
<1>1. Timeout \in Nat /\ clock \in 0 .. Timeout + 1
  BY TimeoutAssumption DEF TimeoutAssumption, TypeOK
<1> QED BY <1>1

LEMMA LessAdded == \A b, x, y \in Nat : x < y => b + x < b + y
  OBVIOUS

\* What stays in the submission loop without sleeping is further on in its
\* turn.
LEMMA TurnGoesOn ==
    ASSUME TypeOK, clock' = clock,
           pc \in {"top", "look", "send first", "send"}, ~(pc = "top" /\ Expired),
           pc' \in {"look", "send first", "send", "sleep"}, PartLeft' < PartLeft
    PROVE  StepsLeft' < StepsLeft
<1> DEFINE base == Timeout + 3 + 5 * (Timeout + 1 - clock)
<1>1. base \in Nat
  BY BaseCounted
<1>2. PartLeft \in Nat
  BY DEF PartLeft
<1>3. PartLeft' \in Nat
  BY DEF PartLeft
<1>4. StepsLeft = base + PartLeft
  BY DEF StepsLeft
<1>5. StepsLeft' = base + PartLeft'
  BY DEF StepsLeft
<1>6. base + PartLeft' < base + PartLeft
  <2> HIDE DEF base
  <2> QED BY <1>1, <1>2, <1>3, LessAdded, Zenon
<1> QED BY <1>4, <1>5, <1>6, Zenon

\* Reporting leaves the submission loop for the wait.
LEMMA ReportGoesOn ==
    ASSUME TypeOK, TypeOK', pc \notin {"wait", "done"}, Report
    PROVE  StepsLeft' < StepsLeft
<1>1. StepsLeft >= Timeout + 3 /\ StepsLeft \in Nat
  BY StepsCounted
<1>2. StepsLeft' = Timeout + 2
  BY TimeoutAssumption DEF Report, StepsLeft, TimeoutAssumption
<1> QED BY <1>1, <1>2, TimeoutAssumption DEF TimeoutAssumption

LEMMA StopGoesOn ==
    ASSUME TypeOK, TypeOK', pc # "done", pc' = "done"
    PROVE  StepsLeft' < StepsLeft
<1>1. StepsLeft \in Nat /\ StepsLeft # 0
  BY StepsCounted
<1>2. StepsLeft' = 0
  BY DEF StepsLeft
<1> QED BY <1>1, <1>2

\* A step of the loop is one step less to make.
LEMMA LoopGoesOn ==
    ASSUME TypeOK, TypeOK', LoopStep
    PROVE  StepsLeft' < StepsLeft
<1>1. ASSUME Top PROVE StepsLeft' < StepsLeft
  <2>1. CASE Expired
    BY <1>1, <2>1, ReportGoesOn, StopGoesOn DEF Top, Stop
  <2>2. CASE ~Expired
    <3>1. pc = "top" /\ clock' = clock /\ pc' \in {"look", "send"}
      BY <1>1, <2>2 DEF Top, Go
    <3>2. PartLeft = 4 /\ PartLeft' \in {2, 3}
      BY <3>1 DEF PartLeft
    <3>3. PartLeft' < PartLeft
      BY <3>2
    <3> QED BY <2>2, <3>1, <3>3, TurnGoesOn
  <2> QED BY <2>1, <2>2
<1>2. ASSUME LookFirst PROVE StepsLeft' < StepsLeft
  <2>1. CASE Go("send first") \/ Go("send")
    <3>1. pc = "look" /\ clock' = clock /\ pc' \in {"send first", "send"}
      BY <1>2, <2>1 DEF LookFirst, Go
    <3>2. PartLeft = 3 /\ PartLeft' = 2
      BY <3>1 DEF PartLeft
    <3>3. PartLeft' < PartLeft
      BY <3>2
    <3> QED BY <3>1, <3>3, TurnGoesOn
  <2>2. CASE ~(Go("send first") \/ Go("send"))
    BY <1>2, <2>2, StopGoesOn DEF LookFirst, Stop
  <2> QED BY <2>1, <2>2
<1>3. ASSUME SendFirst PROVE StepsLeft' < StepsLeft
  <2>1. CASE Go("sleep")
    <3>1. pc = "send first" /\ clock' = clock /\ pc' = "sleep"
      BY <1>3, <2>1 DEF SendFirst, Go
    <3>2. PartLeft = 2 /\ PartLeft' = 1
      BY <3>1 DEF PartLeft
    <3>3. PartLeft' < PartLeft
      BY <3>2
    <3> QED BY <3>1, <3>3, TurnGoesOn
  <2>2. CASE BroadcastFails(1)
    BY <1>3, <2>2, StopGoesOn DEF SendFirst, BroadcastFails, Stop
  <2> QED BY <1>3, <2>1, <2>2 DEF SendFirst
<1>4. ASSUME Send PROVE StepsLeft' < StepsLeft
  <2>1. CASE Report
    BY <1>4, <2>1, ReportGoesOn DEF Send
  <2>2. CASE Go("sleep")
    <3>1. pc = "send" /\ clock' = clock /\ pc' = "sleep"
      BY <1>4, <2>2 DEF Send, Go
    <3>2. PartLeft = 2 /\ PartLeft' = 1
      BY <3>1 DEF PartLeft
    <3>3. PartLeft' < PartLeft
      BY <3>2
    <3> QED BY <3>1, <3>3, TurnGoesOn
  <2>3. CASE BroadcastFails(last)
    BY <1>4, <2>3, StopGoesOn DEF Send, BroadcastFails, Stop
  <2> QED BY <1>4, <2>1, <2>2, <2>3 DEF Send
<1>5. ASSUME Sleep PROVE StepsLeft' < StepsLeft
  <2>1. Timeout \in Nat /\ clock \in 0 .. Timeout + 1
    BY TimeoutAssumption DEF TimeoutAssumption, TypeOK
  <2>2. StepsLeft = Timeout + 3 + 5 * (Timeout + 1 - clock) + 1
    BY <1>5 DEF Sleep, StepsLeft, PartLeft
  <2>3. CASE Expired'
    <3>1. StepsLeft' = Timeout + 3
      BY <1>5, <2>3 DEF Sleep, StepsLeft
    <3> QED BY <2>1, <2>2, <3>1
  <2>4. CASE ~Expired'
    <3>1. clock' = clock + 1
      BY <1>5, <2>1, <2>4 DEF Sleep, Later, Expired
    <3>2. StepsLeft' = Timeout + 3 + 5 * (Timeout + 1 - clock') + 4
      BY <1>5, <2>4 DEF Sleep, StepsLeft, PartLeft
    <3> QED BY <2>1, <2>2, <3>1, <3>2
  <2> QED BY <2>3, <2>4
<1>6. ASSUME Wait PROVE StepsLeft' < StepsLeft
  <2>1. CASE pc' = "done"
    BY <1>6, <2>1, StopGoesOn DEF Wait
  <2>2. CASE pc' # "done"
    <3>1. Timeout \in Nat /\ clock \in 0 .. Timeout + 1
      BY TimeoutAssumption DEF TimeoutAssumption, TypeOK
    <3>2. pc = "wait" /\ pc' = "wait" /\ clock' = clock + 1
      <4>1. ~Expired /\ clock' = Later /\ pc = "wait" /\ pc' = "wait"
        BY <1>6, <2>2 DEF Wait, Stop
      <4>2. ~(clock > Timeout)
        BY <3>1, <4>1 DEF Expired
      <4> QED BY <4>1, <4>2 DEF Later
    <3>3. StepsLeft = Timeout + 2 - clock /\ StepsLeft' = Timeout + 2 - clock'
      BY <3>2 DEF StepsLeft
    <3> QED BY <3>1, <3>2, <3>3
  <2> QED BY <2>1, <2>2
<1> QED BY <1>1, <1>2, <1>3, <1>4, <1>5, <1>6 DEF LoopStep

\* Time takes steps away, and the chain none.
LEMMA NothingPutsBack ==
    ASSUME TypeOK, TypeOK', [Next]_vars, ~LoopStep
    PROVE  StepsLeft' <= StepsLeft
<1>1. Timeout \in Nat /\ clock \in 0 .. Timeout + 1 /\ StepsLeft \in Nat
  <2>1. Timeout \in Nat /\ clock \in 0 .. Timeout + 1
    BY TimeoutAssumption DEF TimeoutAssumption, TypeOK
  <2>2. StepsLeft \in 0 .. MostSteps
    BY StepsCounted
  <2> QED BY <2>1, <2>2
<1>2. UNCHANGED <<loop, pc>> /\ clock' \in {clock, Later}
  BY DEF Next, Tick, Mine, Index, Lose, Fate, vars
<1>3. CASE clock' = clock
  <2>1. StepsLeft' = StepsLeft
    BY <1>2, <1>3 DEF StepsLeft, PartLeft, Expired
  <2> QED BY <1>1, <2>1
<1>4. CASE clock' = clock + 1
  <2>1. CASE pc = "top" /\ Expired'
    <3>1. StepsLeft' = Timeout + 3
      BY <1>2, <2>1 DEF StepsLeft
    <3> QED BY <1>1, <2>1, <3>1, StepsCounted
  <2>2. CASE pc \in {"wait", "done"}
    BY <1>1, <1>2, <1>4, <2>2 DEF StepsLeft
  <2>3. CASE pc \notin {"wait", "done"} /\ ~(pc = "top" /\ Expired')
    <3>1. ~(pc = "top" /\ Expired)
      BY <1>1, <1>2, <1>4, <2>3 DEF Expired
    <3>2. StepsLeft = Timeout + 3 + 5 * (Timeout + 1 - clock) + PartLeft
      BY <2>3, <3>1 DEF StepsLeft
    <3>3. StepsLeft' = Timeout + 3 + 5 * (Timeout + 1 - clock') + PartLeft
      BY <1>2, <2>3 DEF StepsLeft, PartLeft
    <3> QED BY <1>1, <1>4, <3>2, <3>3, StepsCounted
  <2> QED BY <2>1, <2>2, <2>3
<1> QED BY <1>1, <1>2, <1>3, <1>4 DEF Later

\* The deadlines of the two loops bound the command's work, whatever the
\* network loses, delays or reverts: every step of the loops leaves one step
\* less to make, nothing else adds one, and none is left only at the end.
THEOREM DeadlinesBoundWork ==
    Spec => /\ WorkRunsOut
            /\ [](StepsLeft \in 0 .. MostSteps /\ (pc = "done" <=> StepsLeft = 0))
<1>1. TypeOK /\ TypeOK' /\ [Next]_vars =>
        [(LoopStep => StepsLeft' < StepsLeft) /\ StepsLeft' <= StepsLeft]_vars
  <2> SUFFICES ASSUME TypeOK, TypeOK', [Next]_vars
               PROVE  (LoopStep => StepsLeft' < StepsLeft) /\ StepsLeft' <= StepsLeft
    OBVIOUS
  <2>1. StepsLeft \in Nat /\ StepsLeft' \in Nat
    <3>1. StepsLeft \in Nat
      BY StepsCounted
    <3>2. (StepsLeft \in Nat)'
      <4>1. Timeout \in Nat /\ clock' \in 0 .. Timeout + 1
        BY TimeoutAssumption DEF TimeoutAssumption, TypeOK
      <4> QED BY <4>1 DEF StepsLeft, PartLeft
    <3> QED BY <3>1, <3>2
  <2>2. CASE LoopStep
    BY <2>1, <2>2, LoopGoesOn
  <2>3. CASE ~LoopStep
    BY <2>3, NothingPutsBack
  <2> QED BY <2>2, <2>3
<1>2. TypeOK => StepsLeft \in 0 .. MostSteps /\ (pc = "done" <=> StepsLeft = 0)
  BY StepsCounted
<1> QED BY <1>1, <1>2, Typing, PTL DEF Spec, WorkRunsOut
=============================================================================
