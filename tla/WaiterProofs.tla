---------------------------- MODULE WaiterProofs ----------------------------
(***************************************************************************)
(* Proofs about the waiter for every interval, timeout and finality.       *)
(***************************************************************************)
EXTENDS TransactionWaiter, TLAPS

USE WaiterConstants

\* The invariant behind the properties: the clock never falls behind the round,
\* a sleep covers the rest of the interval, a receipt that is no longer pending
\* agrees with the chain from then on, and an outcome records why it was reached.
IInv ==
    /\ TypeOK
    /\ issued <= clock
    /\ pc = "sleeping" => wake >= issued + Interval
    /\ reply.status \in Accepted =>
           Rank[status] >= Rank[reply.status] /\ result = reply.result
    /\ pc # "done" => outcome = "NONE"
    /\ outcome \in {"OK", "REVERTED"} =>
           /\ reply.status \in Statuses
           /\ Finality # NoFinality => reply.status = Finality
           /\ outcome = "REVERTED" => reply.result = "REVERTED"
           /\ outcome = "OK" /\ MustSucceed /\ Finality # NoFinality
                  => reply.result = "SUCCEEDED"

LEMMA InitIInv == Init => IInv
BY DEF Init, IInv, TypeOK, NoReply, Replies, Statuses, Accepted, Results, WaiterConstants

LEMMA NextKeepsIInv ==
    ASSUME IInv, [Next]_vars
    PROVE  IInv'
<1> USE DEF IInv, TypeOK, WaiterConstants
<1>1. CASE ChainMoves
  BY <1>1 DEF ChainMoves, Statuses, Accepted, Results, Rank, Replies, NoReply
<1>2. CASE NodeAnswers
  BY <1>2 DEF NodeAnswers, chain, Replies, NoReply, Statuses, Accepted, Results, Rank
<1>3. CASE NodeFails
  BY <1>3 DEF NodeFails, chain, Replies, NoReply, Statuses, Accepted, Results
<1>4. CASE Tick
  BY <1>4 DEF Tick, chain
<1>5. CASE TakeReply
  <2>1. CASE verdict(reply) # "AGAIN" /\ pc' = "done" /\ outcome' = verdict(reply)
             /\ UNCHANGED <<reply, wake, chain, issued, clock>>
    BY <1>5, <2>1
       DEF TakeReply, verdict, checked, chain, Replies, NoReply, Statuses, Accepted, Results
  <2>2. CASE pc' = "sleeping" /\ wake' = clock + remaining(clock - issued)
             /\ reply' = NoReply /\ UNCHANGED <<outcome, chain, issued, clock>>
    <3>1. wake' \in Nat /\ wake' >= issued + Interval
      BY <2>2 DEF remaining
    <3>2. QED
      BY <1>5, <2>2, <3>1 DEF TakeReply, chain, NoReply, Accepted, Statuses
  <2>3. QED
    BY <1>5, <2>1, <2>2 DEF TakeReply
<1>6. CASE Poll
  BY <1>6 DEF Poll, chain
<1>7. CASE TimesOut
  BY <1>7 DEF TimesOut, timer_fired, chain
<1>8. CASE UNCHANGED vars
  BY <1>8 DEF vars, chain
<1>9. QED
  BY <1>1, <1>2, <1>3, <1>4, <1>5, <1>6, <1>7, <1>8 DEF Next, Done

LEMMA WaiterInductive == Spec => []IInv
<1>1. IInv /\ [Next]_vars => IInv'
  BY NextKeepsIInv
<1>2. QED
  BY <1>1, InitIInv, PTL DEF Spec

\* Every variable of the waiter keeps its type.
THEOREM WaiterTyped == Spec => []TypeOK
<1>1. IInv => TypeOK
  BY DEF IInv
<1>2. QED
  BY <1>1, WaiterInductive, PTL

\* With a finality asked for, success and revert are reported only once the chain
\* has settled them, whatever the delay between the node's look and its answer.
THEOREM VerdictsAreFinal == Spec => []VerdictIsFinal
<1>1. IInv => VerdictIsFinal
  <2>1. SUFFICES ASSUME IInv, outcome \in {"OK", "REVERTED"}, Finality # NoFinality
                 PROVE  /\ Rank[status] >= Rank[Finality]
                        /\ outcome = "REVERTED" => result = "REVERTED"
    BY DEF VerdictIsFinal
  <2>2. reply.status = Finality /\ reply.status \in Accepted
    BY <2>1 DEF IInv, WaiterConstants
  <2>3. QED
    BY <2>1, <2>2 DEF IInv
<1>2. QED
  BY <1>1, WaiterInductive, PTL

\* With a finality asked for, must_succeed means what its comment says.  Without
\* one it does not: the receipt of a block is then returned unread.
THEOREM FinalMustSucceed ==
    ASSUME Finality # NoFinality
    PROVE  Spec => []MustSucceedHonoured
<1>1. IInv => MustSucceedHonoured
  BY DEF IInv, MustSucceedHonoured
<1>2. QED
  BY <1>1, WaiterInductive, PTL

\* Two rounds begin at least an interval apart, however slow the answers are.
PacedStep == pc = "sleeping" /\ pc' = "awaiting" => clock - issued >= Interval

THEOREM RoundsArePaced == Spec => Paced
<1>1. IInv /\ [Next]_vars => [PacedStep]_vars
  <2>1. SUFFICES ASSUME IInv, [Next]_vars, pc = "sleeping", pc' = "awaiting"
                 PROVE  clock - issued >= Interval
    BY DEF PacedStep
  <2>2. clock >= wake
    BY <2>1 DEF Next, ChainMoves, NodeAnswers, NodeFails, Tick, TakeReply, Poll, TimesOut,
                Done, vars, chain
  <2>3. QED
    BY <2>1, <2>2 DEF IInv, TypeOK, WaiterConstants
<1>2. Paced <=> [][PacedStep]_vars
  BY PTL DEF Paced, PacedStep
<1>3. QED
  BY <1>1, <1>2, WaiterInductive, PTL DEF Spec
=============================================================================
