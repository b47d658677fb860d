-------------------------- MODULE DeploymentProofs --------------------------
(***************************************************************************)
(* Proofs about declaring and deploying an account, for any polling        *)
(* interval, timeout and bound on the clock: the caller, the chain and the *)
(* waiter are well typed, and what is handed out has been in a block.      *)
(***************************************************************************)
EXTENDS Deployment, TLAPS

InBlock == {"PENDING", "ACCEPTED_ON_L2", "ACCEPTED_ON_L1"}

\* The waiter looks at the transaction that the caller is waiting for, which has
\* been sent.
Watched ==
    /\ stage = "waiting to declare" => waited = "declare"
    /\ stage = "waiting to deploy" => waited = "deploy"
    /\ stage \in {"PendingDeclaration", "waiting to declare"} =>
           ledger["declare"].status # "UNSENT"
    /\ stage \in {"PendingDeployment", "waiting to deploy"} =>
           ledger["deploy"].status # "UNSENT"

\* What is in a block, or was when the node looked, has been seen; an OK is the
\* last word of the waiter, on an answer that shows the transaction in a block.
Witnessed ==
    /\ \A tx \in Txs : ledger[tx].status \in InBlock => tx \in seen
    /\ stage \in Waiting /\ reply.status \in InBlock => waited \in seen
    /\ stage \in Waiting /\ outcome = "OK" =>
           /\ pc = "done"
           /\ reply.status \in InBlock
           /\ reply.status = "PENDING" => reply.result = "SUCCEEDED"

IInv == TypeOK /\ Watched /\ Witnessed

-----------------------------------------------------------------------------
LEMMA InitHolds == Init => IInv
<1> SUFFICES ASSUME Init PROVE IInv
  OBVIOUS
<1>1. ledger \in [Txs -> [status : {"UNSENT"} \union W!Statuses, result : W!Results]]
  BY DEF Init, W!Results
<1>2. TypeOK
  BY <1>1 DEF Init, TypeOK, Txs
<1>3. Watched /\ Witnessed
  BY DEF Init, Watched, Witnessed, Txs, Waiting, InBlock
<1> QED
  BY <1>2, <1>3 DEF IInv

\* A change of one transaction's status alone.
LEMMA StatusChange ==
    ASSUME TypeOK, NEW tx \in Txs, NEW status \in W!Statuses,
           ledger' = [ledger EXCEPT ![tx].status = status]
    PROVE  /\ ledger' \in [Txs -> [status : {"UNSENT"} \union W!Statuses, result : W!Results]]
           /\ ledger'[tx].status = status
           /\ \A other \in Txs \ {tx} : ledger'[other] = ledger[other]
<1>1. ledger[tx] \in [status : {"UNSENT"} \union W!Statuses, result : W!Results]
  BY DEF TypeOK
<1>2. [ledger[tx] EXCEPT !.status = status] = [status |-> status, result |-> ledger[tx].result]
  BY <1>1
<1> QED
  BY <1>1, <1>2 DEF TypeOK

\* The chain's steps.
LEMMA ChainKeeps ==
    ASSUME IInv, NEW tx \in Txs, Include(tx) \/ Drop(tx) \/ Accept(tx)
    PROVE  IInv'
<1> USE DEF IInv
<1>1. UNCHANGED <<stage, waited, taken, pc, reply, issued, wake, clock, outcome>>
  BY DEF Include, Drop, Accept, caller, waiter
<1>2. /\ ledger' \in [Txs -> [status : {"UNSENT"} \union W!Statuses, result : W!Results]]
      /\ ledger'[tx].status # "UNSENT"
      /\ \A other \in Txs \ {tx} : ledger'[other] = ledger[other]
      /\ seen \subseteq seen' /\ seen' \subseteq Txs
      /\ ledger'[tx].status \in InBlock => tx \in seen'
  <2>1. CASE Include(tx)
    BY <2>1 DEF Include, TypeOK, possible_results, W!Statuses, W!Results
  <2>2. CASE Drop(tx)
    BY <2>2, StatusChange DEF Drop, TypeOK, W!Statuses, InBlock
  <2>3. CASE Accept(tx)
    <3>1. PICK status \in W!Statuses \ {"UNKNOWN"} :
              /\ ledger[tx].status \in InBlock
              /\ ledger' = [ledger EXCEPT ![tx].status = status]
      BY <2>3 DEF Accept, W!Statuses, W!Accepted, InBlock
    <3> QED
      BY <2>3, <3>1, StatusChange DEF Accept, TypeOK, Witnessed, W!Statuses, W!Accepted
  <2> QED
    BY <2>1, <2>2, <2>3
<1>3. TypeOK'
  BY <1>1, <1>2 DEF TypeOK
<1>4. Watched'
  BY <1>1, <1>2 DEF Watched, Txs
<1>5. Witnessed'
  BY <1>1, <1>2 DEF Witnessed
<1> QED
  BY <1>3, <1>4, <1>5

\* The waiter's steps.
LEMMA WaiterKeeps ==
    ASSUME IInv, WaiterSteps \/ Tick \/ TimesOut
    PROVE  IInv'
<1> USE DEF IInv
<1>1. UNCHANGED <<stage, waited, ledger, taken, seen>> /\ stage \in Waiting
  BY DEF WaiterSteps, Tick, TimesOut, caller, chain
<1>2. ledger[waited].status \in W!Statuses /\ ledger[waited].result \in W!Results
  BY <1>1 DEF TypeOK, Watched, Waiting, Txs
<1>3. CASE W!NodeAnswers
  <2>1. TypeOK'
    BY <1>1, <1>2, <1>3 DEF TypeOK, W!NodeAnswers, W!Replies
  <2>2. Witnessed'
    BY <1>1, <1>3 DEF Witnessed, W!NodeAnswers, TypeOK
  <2> QED
    BY <1>1, <2>1, <2>2 DEF Watched
<1>4. CASE W!NodeFails
  <2>1. TypeOK'
    BY <1>1, <1>2, <1>4 DEF TypeOK, W!NodeFails, W!Replies
  <2>2. Witnessed'
    BY <1>1, <1>4 DEF Witnessed, W!NodeFails, InBlock
  <2> QED
    BY <1>1, <2>1, <2>2 DEF Watched
<1>5. CASE W!TakeReply
  <2>1. TypeOK'
    BY <1>1, <1>5, DeploymentConstants
       DEF TypeOK, W!TakeReply, W!verdict, W!checked, W!remaining
  <2>2. Witnessed'
    <3>1. CASE W!verdict(reply) = "AGAIN"
      <4>1. pc = "awaiting" /\ reply' = W!NoReply /\ UNCHANGED outcome
        BY <1>5, <3>1 DEF W!TakeReply
      <4> QED
        BY <1>1, <4>1 DEF Witnessed, W!NoReply, InBlock
    <3>2. CASE W!verdict(reply) # "AGAIN"
      <4>1. pc' = "done" /\ outcome' = W!verdict(reply) /\ UNCHANGED reply
        BY <1>5, <3>2 DEF W!TakeReply
      <4>2. reply.status \in W!Statuses \union {"ERROR"} /\ reply.result \in W!Results
        BY <1>5 DEF W!TakeReply, TypeOK, W!Replies
      <4>3. W!verdict(reply) = "OK" =>
                reply.status \in InBlock /\ (reply.status = "PENDING" => reply.result = "SUCCEEDED")
        BY <4>2 DEF W!verdict, W!checked, W!Statuses, W!Accepted, W!Results, InBlock
      <4> QED
        BY <1>1, <4>1, <4>3 DEF Witnessed
    <3> QED
      BY <3>1, <3>2
  <2> QED
    BY <1>1, <2>1, <2>2 DEF Watched
<1>6. CASE W!Poll
  <2>1. TypeOK'
    BY <1>1, <1>6 DEF TypeOK, W!Poll
  <2>2. Witnessed'
    BY <1>1, <1>6 DEF Witnessed, W!Poll
  <2> QED
    BY <1>1, <2>1, <2>2 DEF Watched
<1>7. CASE Tick
  <2>1. TypeOK'
    BY <1>1, <1>7 DEF TypeOK, Tick, W!Tick
  <2>2. Witnessed'
    BY <1>1, <1>7 DEF Witnessed, Tick, W!Tick
  <2> QED
    BY <1>1, <2>1, <2>2 DEF Watched
<1>8. CASE TimesOut
  <2>1. TypeOK'
    BY <1>1, <1>8 DEF TypeOK, TimesOut, W!TimesOut
  <2>2. Witnessed'
    BY <1>1, <1>8 DEF Witnessed, TimesOut, W!TimesOut
  <2> QED
    BY <1>1, <2>1, <2>2 DEF Watched
<1> QED
  BY <1>3, <1>4, <1>5, <1>6, <1>7, <1>8 DEF WaiterSteps

\* The caller's steps.
LEMMA SendKeeps ==
    ASSUME IInv, NEW tx \in Txs, NEW next, Send(tx, next),
           \/ tx = "declare" /\ next = "PendingDeclaration"
           \/ tx = "deploy" /\ next = "PendingDeployment"
    PROVE  IInv'
<1> USE DEF IInv
<1>1. UNCHANGED <<waited, taken, seen, pc, reply, issued, wake, clock, outcome>>
  BY DEF Send, waiter
<1>2. /\ ledger' \in [Txs -> [status : {"UNSENT"} \union W!Statuses, result : W!Results]]
      /\ ledger'[tx].status = "UNKNOWN"
      /\ \A other \in Txs \ {tx} : ledger'[other] = ledger[other]
  BY StatusChange DEF Send, W!Statuses
<1>3. TypeOK'
  BY <1>1, <1>2 DEF Send, TypeOK, Pending
<1>4. Watched'
  BY <1>2 DEF Send, Watched, Txs
<1>5. Witnessed'
  BY <1>1, <1>2 DEF Send, Witnessed, InBlock, Waiting
<1> QED
  BY <1>3, <1>4, <1>5

LEMMA PanicKeeps ==
    ASSUME IInv, UNCHANGED <<waited, chain, waiter>>, stage' \in {"Err", "PANIC"}
    PROVE  IInv'
BY DEF IInv, TypeOK, Watched, Witnessed, Waiting, Pending, chain, waiter

LEMMA DeclareKeeps ==
    ASSUME IInv, declare \/ deploy
    PROVE  IInv'
<1>1. CASE Send("declare", "PendingDeclaration")
  BY <1>1, SendKeeps DEF Txs
<1>2. CASE Send("deploy", "PendingDeployment")
  BY <1>2, SendKeeps DEF Txs
<1>3. CASE UNCHANGED <<waited, chain, waiter>> /\ stage' \in {"Err", "PANIC"}
  BY <1>3, PanicKeeps
<1> QED
  BY <1>1, <1>2, <1>3 DEF declare, deploy, Panic

LEMMA CallerKeeps ==
    ASSUME IInv, skip_waiting \/ wait_for_completion \/ complete \/ OtherDeploys \/ UNCHANGED vars
    PROVE  IInv'
<1> USE DEF IInv
<1>1. UNCHANGED <<ledger, seen>>
  BY DEF skip_waiting, wait_for_completion, complete, OtherDeploys, Panic, chain, vars
<1>2. CASE skip_waiting
  BY <1>1, <1>2 DEF skip_waiting, TypeOK, Watched, Witnessed, Waiting, Pending, chain, waiter
<1>3. CASE wait_for_completion
  <2>1. TypeOK'
    BY <1>1, <1>3
       DEF wait_for_completion, TypeOK, transaction_of, Waiting, Pending, Txs, chain
  <2>2. Watched'
    BY <1>1, <1>3 DEF wait_for_completion, Watched, transaction_of, Pending
  <2>3. Witnessed'
    BY <1>1, <1>3 DEF wait_for_completion, Witnessed, InBlock, W!NoReply
  <2> QED
    BY <2>1, <2>2, <2>3
<1>4. CASE complete
  <2>1. /\ UNCHANGED <<waited, taken, waiter>>
        /\ stage' \in {"PANIC", "declared", "deployed"}
    BY <1>4 DEF complete, handed_out, Panic, chain
  <2>2. UNCHANGED <<waited, ledger, taken, seen, pc, reply, issued, wake, clock, outcome>>
    BY <1>1, <2>1 DEF waiter
  <2>3. TypeOK'
    BY <2>1, <2>2 DEF TypeOK
  <2>4. Watched' /\ Witnessed'
    BY <2>1, <2>2 DEF Watched, Witnessed, Waiting
  <2> QED
    BY <2>3, <2>4
<1>5. CASE OtherDeploys
  <2>1. UNCHANGED <<stage, waited, ledger, seen, pc, reply, issued, wake, clock, outcome>>
    BY <1>1, <1>5 DEF OtherDeploys, caller, waiter
  <2>2. taken' \in BOOLEAN
    BY <1>5 DEF OtherDeploys
  <2>3. TypeOK'
    BY <2>1, <2>2 DEF TypeOK
  <2>4. Watched' /\ Witnessed'
    BY <2>1 DEF Watched, Witnessed
  <2> QED
    BY <2>3, <2>4
<1>6. CASE UNCHANGED vars
  <2>1. UNCHANGED <<stage, waited, ledger, taken, seen, pc, reply, issued, wake, clock, outcome>>
    BY <1>6 DEF vars, caller, chain, waiter
  <2>2. TypeOK'
    BY <2>1 DEF TypeOK
  <2>3. Watched' /\ Witnessed'
    BY <2>1 DEF Watched, Witnessed
  <2> QED
    BY <2>2, <2>3
<1> QED
  BY <1>2, <1>3, <1>4, <1>5, <1>6

LEMMA Inductive == IInv /\ [Next]_vars => IInv'
<1> SUFFICES ASSUME IInv, [Next]_vars PROVE IInv'
  OBVIOUS
<1>1. CASE \E tx \in Txs : Include(tx) \/ Drop(tx) \/ Accept(tx)
  BY <1>1, ChainKeeps
<1>2. CASE declare \/ deploy
  BY <1>2, DeclareKeeps
<1>3. CASE WaiterSteps \/ Tick \/ TimesOut
  BY <1>3, WaiterKeeps
<1>4. CASE skip_waiting \/ wait_for_completion \/ complete \/ OtherDeploys \/ UNCHANGED vars
  BY <1>4, CallerKeeps
<1> QED
  BY <1>1, <1>2, <1>3, <1>4 DEF Next, Over

-----------------------------------------------------------------------------
\* The caller, the chain and the waiter are well typed: the waiter is never started
\* for a transaction that was not sent.
THEOREM DeploymentTyped == Spec => []TypeOK
<1>1. IInv => TypeOK
  BY DEF IInv
<1> QED
  BY InitHolds, Inductive, <1>1, PTL DEF Spec

HandsOutStep ==
    \A tx \in Txs :
        stage \in Waiting /\ stage' = handed_out(tx) =>
            /\ tx \in seen
            /\ reply.status = "PENDING" => reply.result = "SUCCEEDED"

\* Whatever happens to the two transactions, wait_for_completion hands out a result
\* only when the transaction sent for it has been in a block, and never what a
\* pending block showed reverted.
THEOREM HandsOutOnlyWhatItSaw == Spec => HandsOutWhatItSaw
<1>1. ASSUME IInv, [Next]_vars, NEW tx \in Txs, stage \in Waiting, stage' = handed_out(tx)
      PROVE  /\ tx \in seen
             /\ reply.status = "PENDING" => reply.result = "SUCCEEDED"
  <2>1. stage' \in {"declared", "deployed"} /\ stage' # stage
    BY <1>1 DEF handed_out, Waiting
  <2>2. complete
    BY <1>1, <2>1 DEF Next, vars, Include, Drop, Accept, OtherDeploys, declare, deploy,
                      skip_waiting, wait_for_completion, WaiterSteps, Tick, TimesOut, Over,
                      caller, Waiting, Pending, Send, Panic
  <2>3. outcome = "OK" /\ tx = waited
    BY <1>1, <2>1, <2>2 DEF complete, Panic, handed_out, IInv, Watched, Txs, Waiting
  <2> QED
    BY <1>1, <2>3 DEF IInv, Witnessed
<1>2. IInv /\ [Next]_vars => [HandsOutStep]_vars
  BY <1>1 DEF HandsOutStep
<1>3. HandsOutWhatItSaw <=> [][HandsOutStep]_vars
  BY PTL DEF HandsOutWhatItSaw, HandsOutStep
<1> QED
  BY InitHolds, Inductive, <1>2, <1>3, PTL DEF Spec

AchievedStep ==
    (/\ pc = "awaiting" /\ pc' = "sleeping"
     /\ reply.status \in W!Statuses)
    => W!Rank[reply.status] <
         (IF NoFinality = NoFinality THEN W!Rank.PENDING ELSE W!Rank[NoFinality])

\* The waiter that a deployment starts goes back to sleep only on an answer that
\* shows the transaction in no block.
THEOREM AchievedEnds == Spec => AchievedEndsWait
<1>1. [Next]_vars => [AchievedStep]_(W!vars)
  <2>1. SUFFICES ASSUME [Next]_vars, pc = "awaiting", pc' = "sleeping",
                        reply.status \in W!Statuses
                 PROVE  W!Rank[reply.status] < W!Rank.PENDING
    BY DEF AchievedStep
  <2>2. W!TakeReply
    BY <2>1 DEF Next, vars, Include, Drop, Accept, OtherDeploys, declare, deploy,
                skip_waiting, wait_for_completion, complete, WaiterSteps, Tick, TimesOut, Over,
                Send, Panic, waiter, chain, W!NodeAnswers, W!NodeFails, W!Poll,
                W!Tick, W!TimesOut
  <2>3. W!verdict(reply) = "AGAIN"
    BY <2>1, <2>2 DEF W!TakeReply
  <2>4. reply.status = "UNKNOWN"
    BY <2>1, <2>3 DEF W!verdict, W!checked, W!Statuses, W!Accepted
  <2> QED
    BY <2>4 DEF W!Rank
<1>2. AchievedEndsWait <=> [][AchievedStep]_(W!vars)
  BY PTL DEF AchievedEndsWait, W!AchievedEndsWait, AchievedStep
<1> QED
  BY <1>1, <1>2, PTL DEF Spec
=============================================================================
