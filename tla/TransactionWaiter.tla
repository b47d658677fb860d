------------------------- MODULE TransactionWaiter -------------------------
(***************************************************************************)
(* TransactionWaiter (account_sdk/src/transaction_waiter.rs): polls a node *)
(* for the receipt of a transaction until it has the finality asked for,   *)
(* in a select! with a timer.  The chain moves on by itself, the node      *)
(* answers from what it knows when it looks, and the answer takes its time *)
(* to arrive, if it does.                                                  *)
(***************************************************************************)
EXTENDS Integers

CONSTANTS
    Finality,      \* finality_status: what to wait for, or NoFinality
    NoFinality,    \* None
    MustSucceed,   \* must_succeed
    Interval,      \* the polling interval
    Timeout,       \* the timer of the select!
    MaxClock       \* bound on the clock

Accepted == {"ACCEPTED_ON_L2", "ACCEPTED_ON_L1"}
Statuses == {"UNKNOWN", "PENDING"} \union Accepted
Results == {"SUCCEEDED", "REVERTED"}

ASSUME WaiterConstants ==
    /\ Finality \in Accepted \union {NoFinality}
    /\ NoFinality \notin Accepted
    /\ MustSucceed \in BOOLEAN
    /\ Interval \in Nat /\ Timeout \in Nat /\ MaxClock \in Nat

VARIABLES
    status, result,   \* the chain's view of the transaction
    pc,               \* where wait_without_timeout stands
    reply,            \* the answer on its way, or the last one taken
    issued,           \* the Instant at which the current round began
    wake,             \* when the sleep between two rounds is over
    clock,
    outcome           \* what wait returned

chain == <<status, result>>
vars == <<chain, pc, reply, issued, wake, clock, outcome>>

Replies == [status : Statuses \union {"ERROR"}, result : Results]
NoReply == [status |-> "NONE", result |-> "SUCCEEDED"]

-----------------------------------------------------------------------------
(* The node.                                                               *)

\* The transaction enters the pending block, is dropped from it, or advances.
ChainMoves ==
    /\ \/ /\ status = "UNKNOWN" /\ status' = "PENDING" /\ result' \in Results
       \/ /\ status = "PENDING" /\ status' = "UNKNOWN" /\ UNCHANGED result
       \/ /\ status = "PENDING" /\ status' = "ACCEPTED_ON_L2" /\ UNCHANGED result
       \/ /\ status = "ACCEPTED_ON_L2" /\ status' = "ACCEPTED_ON_L1" /\ UNCHANGED result
    /\ UNCHANGED <<pc, reply, issued, wake, clock, outcome>>

\* UNKNOWN is answered with TransactionHashNotFound.
NodeAnswers ==
    /\ pc = "awaiting" /\ reply = NoReply
    /\ reply' = [status |-> status, result |-> result]
    /\ UNCHANGED <<chain, pc, issued, wake, clock, outcome>>

\* Any other provider error, of the node or of the transport.
NodeFails ==
    /\ pc = "awaiting" /\ reply = NoReply
    /\ reply' = [status |-> "ERROR", result |-> result]
    /\ UNCHANGED <<chain, pc, issued, wake, clock, outcome>>

Tick ==
    /\ clock < MaxClock
    /\ clock' = clock + 1
    /\ UNCHANGED <<chain, pc, reply, issued, wake, outcome>>

-----------------------------------------------------------------------------
(* The waiter.                                                             *)

\* MUTANT: the execution status is not looked at.
always_ok(r) == "OK"

\* MUTANT: the execution status itself is returned.
execution_status(r) == r.result

checked(r) == IF MustSucceed /\ r.result = "REVERTED" THEN "REVERTED" ELSE "OK"

\* MUTANT: a receipt that is no longer pending is left for another round.
pending_only(r) ==
    IF r.status = "ERROR" THEN "PROVIDER_ERROR"
    ELSE IF r.status = "PENDING" /\ Finality = NoFinality THEN checked(r)
    ELSE "AGAIN"

\* MUTANT: a receipt of the pending block settles every wait.
eager(r) ==
    IF r.status = "ERROR" THEN "PROVIDER_ERROR"
    ELSE IF r.status = "UNKNOWN" THEN "AGAIN"
    ELSE IF r.status \in {"PENDING", Finality} THEN checked(r)
    ELSE "AGAIN"

\* What one answer makes of the wait.  A receipt that is no longer pending is
\* returned as it is when no finality is asked for.
verdict(r) ==
    IF r.status = "ERROR" THEN "PROVIDER_ERROR"
    ELSE IF r.status = "UNKNOWN" THEN "AGAIN"
    ELSE IF r.status = "PENDING"
         THEN IF Finality = NoFinality THEN checked(r) ELSE "AGAIN"
    ELSE IF Finality = NoFinality THEN "OK"
    ELSE IF r.status = Finality THEN checked(r)
    ELSE "AGAIN"

\* MUTANT: the time since the wait began counts, not since the round began.
remaining_since_start(elapsed) == IF clock > Interval THEN 0 ELSE Interval - clock

\* interval.checked_sub(elapsed).unwrap_or_default()
remaining(elapsed) == IF elapsed > Interval THEN 0 ELSE Interval - elapsed

\* The await on the receipt resumes: return, or sleep for the rest of the round.
TakeReply ==
    /\ pc = "awaiting" /\ reply # NoReply
    /\ \/ /\ verdict(reply) # "AGAIN"
          /\ pc' = "done" /\ outcome' = verdict(reply)
          /\ UNCHANGED <<reply, wake>>
       \/ /\ verdict(reply) = "AGAIN"
          /\ pc' = "sleeping" /\ wake' = clock + remaining(clock - issued)
          /\ reply' = NoReply
          /\ UNCHANGED outcome
    /\ UNCHANGED <<chain, issued, clock>>

\* The sleep is over, perhaps long since: the next round begins.
Poll ==
    /\ pc = "sleeping" /\ clock >= wake
    /\ pc' = "awaiting" /\ issued' = clock
    /\ UNCHANGED <<chain, reply, wake, clock, outcome>>

\* MUTANT: the timer never fires.
timer_never == FALSE

timer_fired == clock >= Timeout

\* The other branch of the select!; a reply that is already there may lose to it.
TimesOut ==
    /\ pc # "done" /\ timer_fired
    /\ pc' = "done" /\ outcome' = "TIMEOUT"
    /\ UNCHANGED <<chain, reply, issued, wake, clock>>

-----------------------------------------------------------------------------
Init ==
    /\ status \in Statuses /\ result \in Results
    /\ pc = "awaiting" /\ reply = NoReply
    /\ issued = 0 /\ wake = 0 /\ clock = 0
    /\ outcome = "NONE"

\* The wait is over; the chain and the clock go on.
Done == pc = "done" /\ UNCHANGED vars

Next ==
    \/ ChainMoves
    \/ NodeAnswers
    \/ NodeFails
    \/ Tick
    \/ TakeReply
    \/ Poll
    \/ TimesOut
    \/ Done

Spec == Init /\ [][Next]_vars

\* Time passes, and the executor polls the select! once its timer is due.  The
\* node owes no answer.
FairSpec == Spec /\ WF_vars(Tick) /\ WF_vars(TimesOut)

-----------------------------------------------------------------------------
(* Type correctness.                                                       *)
TypeOK ==
    /\ status \in Statuses /\ result \in Results
    /\ pc \in {"awaiting", "sleeping", "done"}
    /\ reply \in Replies \union {NoReply}
    /\ issued \in Nat /\ wake \in Nat /\ clock \in Nat
    /\ outcome \in {"NONE", "OK", "REVERTED", "PROVIDER_ERROR", "TIMEOUT"}

(* must_succeed, as its doc comment puts it: with the flag set, wait never *)
(* returns Ok for a transaction that was reverted.                         *)
MustSucceedHonoured ==
    outcome = "OK" /\ MustSucceed => reply.result = "SUCCEEDED"

\* How far a transaction has come.
Rank == [UNKNOWN |-> 0, PENDING |-> 1, ACCEPTED_ON_L2 |-> 2, ACCEPTED_ON_L1 |-> 3]

(* Asked for a finality, the waiter reports success or a revert only when  *)
(* the chain has reached it, and with the result the chain has settled on: *)
(* what a pending block says of a transaction is no verdict on it.         *)
VerdictIsFinal ==
    outcome \in {"OK", "REVERTED"} /\ Finality # NoFinality =>
        /\ Rank[status] >= Rank[Finality]
        /\ outcome = "REVERTED" => result = "REVERTED"

(* The waiter polls every interval, not more often: a round begins at      *)
(* least Interval after the one before, however slow the answers were.     *)
Paced == [][pc = "sleeping" /\ pc' = "awaiting" => clock - issued >= Interval]_vars

(* The doc comment of the waiter: it polls until the transaction achieves  *)
(* the desired status.  An answer that shows it achieved ends the wait.    *)
AchievedEndsWait ==
    [][(/\ pc = "awaiting" /\ pc' = "sleeping"
        /\ reply.status \in Statuses)
       => Rank[reply.status] <
            (IF Finality = NoFinality THEN Rank.PENDING ELSE Rank[Finality])]_vars

(* The wait ends, even if the node never answers.                          *)
Ends == <>(pc = "done")
=============================================================================
