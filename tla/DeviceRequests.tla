--------------------------- MODULE DeviceRequests ---------------------------
(***************************************************************************)
(* How a device signer asks the browser                                    *)
(* (account_sdk/src/webauthn_signer/signers/device.rs): each request       *)
(* spawns a task on the browser's event loop and awaits a one-shot channel *)
(* to it.  Requests overlap; the browser shows one prompt at a time, and   *)
(* the caller may drop its future at any moment.                           *)
(***************************************************************************)
EXTENDS Integers, Sequences

CONSTANTS
    Requests,  \* the calls of sign and register that may be under way at a time
    Wants,     \* what a request may ask for
    Answers    \* what the browser may give it

VARIABLES
    asked,    \* of a request: what it asks for, and [op |-> "none"] when it is over
    task,     \* of a request: its spawned task
    waiting,  \* the requests whose caller awaits the channel
    channel   \* of a request: what its task has sent and nobody has received yet

vars == <<asked, task, waiting, channel>>

Nothing == [op |-> "none"]
Error == [ok |-> FALSE]

\* What its users grant; they INSTANCE this module.
DeviceConstants == Nothing \notin Wants

Init ==
    /\ asked = [q \in Requests |-> Nothing]
    /\ task = [q \in Requests |-> "none"]
    /\ waiting = {}
    /\ channel = [q \in Requests |-> <<>>]

\* get_assertion and create_credential up to rx.await: the task is spawned with
\* what it captured.
Ask(q, what) ==
    /\ task[q] = "none" /\ q \notin waiting
    /\ asked' = [asked EXCEPT ![q] = what]
    /\ task' = [task EXCEPT ![q] = "spawned"]
    /\ waiting' = waiting \union {q}
    /\ UNCHANGED channel

\* MUTANT: the task keeps its sender when it cannot send.
answer_kept(q, value) ==
    /\ task' = [task EXCEPT ![q] = IF q \in waiting THEN "none" ELSE "prompted"]
    /\ IF q \in waiting THEN channel' = [channel EXCEPT ![q] = <<value>>] /\ UNCHANGED asked
                        ELSE asked' = [asked EXCEPT ![q] = Nothing] /\ UNCHANGED channel

\* The end of the task: its send is for nobody when the caller has given up.
answer(q, value) ==
    /\ task' = [task EXCEPT ![q] = "none"]
    /\ IF q \in waiting THEN channel' = [channel EXCEPT ![q] = <<value>>] /\ UNCHANGED asked
                        ELSE asked' = [asked EXCEPT ![q] = Nothing] /\ UNCHANGED channel

prompted == {q \in Requests : task[q] = "prompted"}

\* The browser shows one prompt at a time ...
Prompt(q) ==
    /\ task[q] = "spawned" /\ prompted = {}
    /\ task' = [task EXCEPT ![q] = "prompted"]
    /\ UNCHANGED <<asked, waiting, channel>>

\* MUTANT: a task that the browser refuses asks again until the prompt is free.
RefuseAndRetry(q) ==
    /\ task[q] = "spawned" /\ prompted # {}
    /\ UNCHANGED vars

\* ... and refuses another meanwhile.
Refuse(q) ==
    /\ task[q] = "spawned" /\ prompted # {}
    /\ answer(q, Error)
    /\ UNCHANGED waiting

\* The user approves, cancels, or lets the browser's time limit pass.
Settle(q, value) ==
    /\ q \in prompted
    /\ answer(q, value)
    /\ UNCHANGED waiting

\* The caller is polled again and takes the answer off the channel.
Receive(q) ==
    /\ q \in waiting /\ channel[q] # <<>>
    /\ waiting' = waiting \ {q}
    /\ channel' = [channel EXCEPT ![q] = <<>>]
    /\ asked' = [asked EXCEPT ![q] = Nothing]
    /\ UNCHANGED task

\* The application drops the future; the task and its prompt stay.
GiveUp(q) ==
    /\ q \in waiting
    /\ waiting' = waiting \ {q}
    /\ channel' = [channel EXCEPT ![q] = <<>>]
    /\ asked' = IF task[q] = "none" THEN [asked EXCEPT ![q] = Nothing] ELSE asked
    /\ UNCHANGED task

Next ==
    \E q \in Requests :
        \/ \E what \in Wants : Ask(q, what)
        \/ Prompt(q) \/ Refuse(q)
        \/ \E value \in Answers \union {Error} : Settle(q, value)
        \/ Receive(q) \/ GiveUp(q)

\* The executor polls every task and every caller that can go on, and the browser
\* ends every prompt.
Fairness ==
    \A q \in Requests :
        /\ WF_vars(Prompt(q) \/ Refuse(q))
        /\ WF_vars(\E value \in Answers \union {Error} : Settle(q, value))
        /\ WF_vars(Receive(q))

Spec == Init /\ [][Next]_vars /\ Fairness

-----------------------------------------------------------------------------
(* Type correctness.                                                       *)
TypeOK ==
    /\ asked \in [Requests -> Wants \union {Nothing}]
    /\ task \in [Requests -> {"none", "spawned", "prompted"}]
    /\ waiting \subseteq Requests
    /\ channel \in [Requests -> {<<>>} \union {<<a>> : a \in Answers \union {Error}}]

(* A request is answered once and by its own task: an answer on its way    *)
(* means a caller still there and a task at its end, a task or a caller    *)
(* that is left still belongs to a request not over, and the browser never *)
(* holds two prompts (the sender moved into the task, the receiver kept by *)
(* the caller).                                                            *)
AnsweredOnce ==
    /\ \A q \in Requests :
          /\ channel[q] # <<>> => q \in waiting /\ task[q] = "none"
          /\ q \in waiting => task[q] # "none" \/ channel[q] # <<>>
          /\ asked[q] = Nothing <=> q \notin waiting /\ task[q] = "none"
    /\ \A p, q \in prompted : p = q

(* A call of sign or register comes to an end, or its caller gives up: no  *)
(* request waits for the prompt that another one holds, nor for one that   *)
(* was given up (the two arms of the match that sends over the channel).   *)
RequestsEnd == \A q \in Requests : q \in waiting ~> q \notin waiting
=============================================================================
