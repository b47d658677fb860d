----------------------------- MODULE Deployment -----------------------------
(***************************************************************************)
(* How the SDK puts an account on the chain                                *)
(* (account_sdk/src/deploy_contract): declare the account's class, then    *)
(* deploy it through the universal deployer.  Each step sends a            *)
(* transaction and gives the caller a PendingTransaction, whose result is  *)
(* handed out at once or after a TransactionWaiter is through with it.     *)
(* Meanwhile either transaction may be reverted or fall out of the pending *)
(* block, and another deployer may take the address.                       *)
(***************************************************************************)
EXTENDS Integers

CONSTANTS Interval, Timeout, MaxClock, NoFinality  \* see TransactionWaiter

ASSUME DeploymentConstants ==
    Interval \in Nat /\ Timeout \in Nat /\ MaxClock \in Nat

VARIABLES
    stage,     \* where the caller stands
    ledger,    \* of a transaction: its status on the chain and its result
    taken,     \* another deployer has a contract at the address
    seen,      \* the transactions that have been in a block
    waited,    \* the transaction a waiter was last started for
    pc, reply, issued, wake, clock, outcome   \* the waiter

caller == <<stage, waited>>
chain == <<ledger, taken, seen>>
waiter == <<pc, reply, issued, wake, clock, outcome>>
vars == <<caller, chain, waiter>>

Txs == {"declare", "deploy"}

\* TransactionWaiter::new: no finality, must_succeed.
W == INSTANCE TransactionWaiter WITH
    Finality <- NoFinality, MustSucceed <- TRUE,
    status <- ledger[waited].status, result <- ledger[waited].result

-----------------------------------------------------------------------------
(* The chain.                                                              *)
included(tx) == ledger[tx].status \in {"PENDING", "ACCEPTED_ON_L2", "ACCEPTED_ON_L1"}
succeeded(tx) == included(tx) /\ ledger[tx].result = "SUCCEEDED"

\* What a transaction simulated on the pending block finds.
deployable == succeeded("declare") /\ ~ taken /\ ~ succeeded("deploy")

\* The deployer's address is no part of the contract's, as unique is false.
possible_results(tx) ==
    IF tx = "declare" \/ deployable THEN {"SUCCEEDED", "REVERTED"} ELSE {"REVERTED"}

Include(tx) ==
    /\ ledger[tx].status = "UNKNOWN"
    /\ \E result \in possible_results(tx) :
          ledger' = [ledger EXCEPT ![tx] = [status |-> "PENDING", result |-> result]]
    /\ seen' = seen \union {tx}
    /\ UNCHANGED <<taken, caller, waiter>>

\* A pending block loses what is last in it first.
Drop(tx) ==
    /\ ledger[tx].status = "PENDING"
    /\ tx = "declare" => ~ succeeded("deploy") /\ ~ taken
    /\ ledger' = [ledger EXCEPT ![tx].status = "UNKNOWN"]
    /\ UNCHANGED <<taken, seen, caller, waiter>>

Accept(tx) ==
    /\ \/ /\ ledger[tx].status = "PENDING"
          /\ tx = "deploy" /\ succeeded("deploy") => ledger["declare"].status # "PENDING"
          /\ ledger' = [ledger EXCEPT ![tx].status = "ACCEPTED_ON_L2"]
       \/ /\ ledger[tx].status = "ACCEPTED_ON_L2"
          /\ ledger' = [ledger EXCEPT ![tx].status = "ACCEPTED_ON_L1"]
    /\ UNCHANGED <<taken, seen, caller, waiter>>

OtherDeploys ==
    /\ deployable
    /\ taken' = TRUE
    /\ UNCHANGED <<ledger, seen, caller, waiter>>

-----------------------------------------------------------------------------
(* The caller.                                                             *)
Init ==
    /\ stage = "start" /\ waited = "declare"
    /\ ledger = [tx \in Txs |-> [status |-> "UNSENT", result |-> "SUCCEEDED"]]
    /\ taken = FALSE /\ seen = {}
    /\ pc = "done" /\ reply = W!NoReply
    /\ issued = 0 /\ wake = 0 /\ clock = 0 /\ outcome = "NONE"

Send(tx, next) ==
    /\ ledger' = [ledger EXCEPT ![tx].status = "UNKNOWN"]
    /\ stage' = next
    /\ UNCHANGED <<waited, taken, seen, waiter>>

Panic ==
    /\ stage' = "PANIC"
    /\ UNCHANGED <<waited, chain, waiter>>

\* AccountDeclaration::declare: a class that cannot be hashed or flattened is an
\* error, a transaction that cannot be sent a panic.
declare ==
    /\ stage = "start"
    /\ \/ stage' = "Err" /\ UNCHANGED <<waited, chain, waiter>>
       \/ Panic
       \/ Send("declare", "PendingDeclaration")

\* AccountDeployment::deploy, with the class hash the declaration gave: sending
\* simulates first, and nothing that is not deployable passes.
deploy ==
    /\ stage = "declared"
    /\ Panic \/ (deployable /\ Send("deploy", "PendingDeployment"))

\* MUTANT: the deployment waits for the declaration's hash.
transaction_of_declare(pending) == "declare"

\* MUTANT: the deployment waits for its result, not for its hash.
transaction_of_result(pending) == IF pending = "PendingDeclaration" THEN "declare" ELSE "address"

\* The hash that From gives a PendingTransaction.
transaction_of(pending) == IF pending = "PendingDeclaration" THEN "declare" ELSE "deploy"

Pending == {"PendingDeclaration", "PendingDeployment"}

\* What its owner has once the result is handed out.
handed_out(tx) == IF tx = "declare" THEN "declared" ELSE "deployed"

skip_waiting ==
    /\ stage \in Pending
    /\ stage' = IF stage = "PendingDeclaration" THEN "declared" ELSE "skipped"
    /\ UNCHANGED <<waited, chain, waiter>>

\* wait_for_completion starts a waiter and awaits it ...
wait_for_completion ==
    /\ stage \in Pending
    /\ waited' = transaction_of(stage)
    /\ stage' = IF stage = "PendingDeclaration" THEN "waiting to declare" ELSE "waiting to deploy"
    /\ pc' = "awaiting" /\ reply' = W!NoReply /\ outcome' = "NONE"
    /\ issued' = 0 /\ wake' = 0 /\ clock' = 0
    /\ UNCHANGED chain

Waiting == {"waiting to declare", "waiting to deploy"}

\* ... and unwraps its outcome before it hands out the result.
complete ==
    /\ stage \in Waiting /\ pc = "done"
    /\ \/ outcome # "OK" /\ Panic
       \/ /\ outcome = "OK"
          /\ stage' = handed_out(IF stage = "waiting to declare" THEN "declare" ELSE "deploy")
          /\ UNCHANGED <<waited, chain, waiter>>

\* The waiter's own steps, while it is awaited.
WaiterSteps ==
    /\ stage \in Waiting
    /\ UNCHANGED <<caller, chain>>
    /\ W!NodeAnswers \/ W!NodeFails \/ W!TakeReply \/ W!Poll

Tick == stage \in Waiting /\ UNCHANGED <<caller, chain>> /\ W!Tick
TimesOut == stage \in Waiting /\ UNCHANGED <<caller, chain>> /\ W!TimesOut

\* The caller has its account, or none; the chain goes on.
Over == stage \in {"Err", "PANIC", "skipped", "deployed"} /\ UNCHANGED vars

Next ==
    \/ \E tx \in Txs : Include(tx) \/ Drop(tx) \/ Accept(tx)
    \/ OtherDeploys
    \/ declare \/ deploy \/ skip_waiting \/ wait_for_completion \/ complete
    \/ WaiterSteps \/ Tick \/ TimesOut
    \/ Over

\* Time passes, and the executor polls a caller whose wait is over.  Sending has no
\* time limit: a caller may stay in declare or deploy.
Spec ==
    /\ Init /\ [][Next]_vars
    /\ WF_vars(Tick) /\ WF_vars(TimesOut) /\ WF_vars(complete)

-----------------------------------------------------------------------------
(* Type correctness.                                                       *)
TypeOK ==
    /\ stage \in {"start", "declared", "deployed", "skipped", "Err", "PANIC"}
                     \union Pending \union Waiting
    /\ waited \in Txs /\ seen \subseteq Txs /\ taken \in BOOLEAN
    /\ ledger \in [Txs -> [status : {"UNSENT"} \union W!Statuses, result : W!Results]]
    /\ pc \in {"awaiting", "sleeping", "done"}
    /\ reply \in W!Replies \union {W!NoReply}
    /\ issued \in Nat /\ wake \in Nat /\ clock \in Nat
    /\ outcome \in {"NONE", "OK", "REVERTED", "PROVIDER_ERROR", "TIMEOUT"}

(* wait_for_completion hands out a result only when the transaction that   *)
(* was sent for it has been in a block, and never what a pending block     *)
(* showed reverted: not after a timeout or an error, and not on the word   *)
(* of the other transaction (the hash that From takes, and the unwrap).    *)
HandsOutWhatItSaw ==
    [][\A tx \in Txs :
          stage \in Waiting /\ stage' = handed_out(tx) =>
              /\ tx \in seen
              /\ reply.status = "PENDING" => reply.result = "SUCCEEDED"]_vars

(* A caller that waits for a transaction does not wait for ever, whatever  *)
(* the node answers and wherever the transaction goes.                     *)
WaitsEnd == (stage \in Waiting) ~> (stage \notin Waiting)

(* The doc comment of the waiter: it polls until the transaction achieves  *)
(* the desired status.  An answer that shows a transaction in a block,     *)
(* pending or accepted meanwhile, ends the wait for it, and the caller is  *)
(* not sent back to sleep until the timeout.                               *)
AchievedEndsWait == W!AchievedEndsWait
=============================================================================
