------------------------- MODULE WebauthnFlowProofs -------------------------
(***************************************************************************)
(* Proofs about transactions signed with an authenticator, for any number  *)
(* of requests, transactions and credentials, and for bytes and halves of  *)
(* integers of any size.  First DeviceRequests, the abstract               *)
(* specification: however many requests overlap and whatever they ask for, *)
(* each is answered once and by its own task.  Its invariants are          *)
(* inductive as they stand, the second given the first: an answer on its   *)
(* way is the task's last act, and a caller without one still has its      *)
(* task.  Then the flow, which implements it.                              *)
(*                                                                         *)
(* Last what is signed and sent.  Integers survive their split into halves *)
(* and bytes; a search in client data finds its own key; and FlowIInv      *)
(* follows an assertion from its approval through the channel to the       *)
(* transaction.                                                            *)
(***************************************************************************)
EXTENDS WebauthnFlow, Groundwork

\* No request asks for nothing.
LEMMA WantsSomething == D!DeviceConstants
<1>1. SUFFICES ASSUME D!Nothing \in Wants PROVE FALSE
  BY DEF D!DeviceConstants
<1>2. CASE D!Nothing \in Assertions
  BY <1>2 DEF D!Nothing, Assertions
<1>3. CASE D!Nothing = [op |-> "create"]
  <2>1. D!Nothing.op = "none"
    BY DEF D!Nothing
  <2> QED
    BY <1>3, <2>1
<1> QED
  BY <1>1, <1>2, <1>3 DEF Wants

RequestsIInv == D!TypeOK /\ D!AnsweredOnce

AnswerValues == Answers \union {D!Error}

-----------------------------------------------------------------------------
(* Nothing is under way at the start.                                      *)
LEMMA InitRequests == ASSUME D!Init PROVE RequestsIInv
<1>1. D!TypeOK
  BY DEF D!Init, D!TypeOK
<1>2. \A q \in Requests :
         /\ channel[q] = <<>> /\ q \notin waiting /\ task[q] = "none"
         /\ asked[q] = D!Nothing
  BY DEF D!Init
<1>3. D!prompted = {}
  BY <1>2 DEF D!prompted
<1> QED
  BY <1>1, <1>2, <1>3 DEF RequestsIInv, D!AnsweredOnce

(* A request that is asked for was over before.                            *)
LEMMA AskKeepsRequests ==
    ASSUME RequestsIInv,
           NEW q \in Requests, NEW what \in Wants, D!Ask(q, what)
    PROVE  RequestsIInv'
<1>1. D!TypeOK'
  BY DEF RequestsIInv, D!TypeOK, D!Ask
<1>2. channel[q] = <<>>
  BY DEF RequestsIInv, D!AnsweredOnce, D!Ask
<1>3. what # D!Nothing
  BY WantsSomething DEF D!DeviceConstants
<1>4. ASSUME NEW p \in Requests
      PROVE  /\ channel'[p] # <<>> => p \in waiting' /\ task'[p] = "none"
             /\ p \in waiting' => task'[p] # "none" \/ channel'[p] # <<>>
             /\ asked'[p] = D!Nothing <=> p \notin waiting' /\ task'[p] = "none"
  <2>1. CASE p = q
    BY <1>2, <1>3, <2>1 DEF RequestsIInv, D!TypeOK, D!Ask
  <2>2. CASE p # q
    BY <2>2 DEF RequestsIInv, D!TypeOK, D!AnsweredOnce, D!Ask
  <2> QED
    BY <2>1, <2>2
<1>5. D!prompted' = D!prompted
  BY DEF RequestsIInv, D!TypeOK, D!Ask, D!prompted
<1>6. \A x, y \in D!prompted' : x = y
  BY <1>5 DEF RequestsIInv, D!AnsweredOnce
<1> QED
  BY <1>1, <1>4, <1>6 DEF RequestsIInv, D!AnsweredOnce

(* A task that ends has not answered before.                               *)
LEMMA AnswerKeepsRequests ==
    ASSUME RequestsIInv, NEW q \in Requests, task[q] # "none",
           NEW value \in AnswerValues, D!answer(q, value), UNCHANGED waiting
    PROVE  RequestsIInv'
<1>1. D!TypeOK'
  <2>1. CASE q \in waiting
    BY <2>1 DEF RequestsIInv, D!TypeOK, D!answer, AnswerValues
  <2>2. CASE q \notin waiting
    BY <2>2 DEF RequestsIInv, D!TypeOK, D!answer, AnswerValues
  <2> QED
    BY <2>1, <2>2
<1>2. channel[q] = <<>>
  BY DEF RequestsIInv, D!AnsweredOnce
<1>3. ASSUME NEW p \in Requests
      PROVE  /\ channel'[p] # <<>> => p \in waiting' /\ task'[p] = "none"
             /\ p \in waiting' => task'[p] # "none" \/ channel'[p] # <<>>
             /\ asked'[p] = D!Nothing <=> p \notin waiting' /\ task'[p] = "none"
  <2>1. CASE p = q /\ q \in waiting
    BY <2>1 DEF RequestsIInv, D!TypeOK, D!AnsweredOnce, D!answer
  <2>2. CASE p = q /\ q \notin waiting
    BY <1>2, <2>2 DEF RequestsIInv, D!TypeOK, D!AnsweredOnce, D!answer
  <2>3. CASE p # q
    BY <2>3 DEF RequestsIInv, D!TypeOK, D!AnsweredOnce, D!answer
  <2> QED
    BY <2>1, <2>2, <2>3
<1>4. D!prompted' \subseteq D!prompted
  BY DEF RequestsIInv, D!TypeOK, D!answer, D!prompted
<1>5. \A x, y \in D!prompted' : x = y
  BY <1>4 DEF RequestsIInv, D!AnsweredOnce
<1> QED
  BY <1>1, <1>3, <1>5 DEF RequestsIInv, D!AnsweredOnce

(* The prompt is free when it is taken.                                    *)
LEMMA PromptKeepsRequests ==
    ASSUME RequestsIInv, NEW q \in Requests, D!Prompt(q)
    PROVE  RequestsIInv'
<1>1. D!TypeOK'
  BY DEF RequestsIInv, D!TypeOK, D!Prompt
<1>2. ASSUME NEW p \in Requests
      PROVE  /\ channel'[p] # <<>> => p \in waiting' /\ task'[p] = "none"
             /\ p \in waiting' => task'[p] # "none" \/ channel'[p] # <<>>
             /\ asked'[p] = D!Nothing <=> p \notin waiting' /\ task'[p] = "none"
  BY DEF RequestsIInv, D!TypeOK, D!AnsweredOnce, D!Prompt
<1>3. D!prompted' = {q}
  BY DEF RequestsIInv, D!TypeOK, D!Prompt, D!prompted
<1> QED
  BY <1>1, <1>2, <1>3 DEF RequestsIInv, D!AnsweredOnce

(* A caller that goes on has been answered, so its task is over.           *)
LEMMA ReceiveKeepsRequests ==
    ASSUME RequestsIInv, NEW q \in Requests, D!Receive(q)
    PROVE  RequestsIInv'
<1>1. D!TypeOK'
  BY DEF RequestsIInv, D!TypeOK, D!Receive
<1>2. ASSUME NEW p \in Requests
      PROVE  /\ channel'[p] # <<>> => p \in waiting' /\ task'[p] = "none"
             /\ p \in waiting' => task'[p] # "none" \/ channel'[p] # <<>>
             /\ asked'[p] = D!Nothing <=> p \notin waiting' /\ task'[p] = "none"
  <2>1. CASE p = q
    BY <2>1 DEF RequestsIInv, D!TypeOK, D!AnsweredOnce, D!Receive
  <2>2. CASE p # q
    BY <2>2 DEF RequestsIInv, D!TypeOK, D!AnsweredOnce, D!Receive
  <2> QED
    BY <2>1, <2>2
<1>3. D!prompted' = D!prompted
  BY DEF D!Receive, D!prompted
<1>4. \A x, y \in D!prompted' : x = y
  BY <1>3 DEF RequestsIInv, D!AnsweredOnce
<1> QED
  BY <1>1, <1>2, <1>4 DEF RequestsIInv, D!AnsweredOnce

(* A caller that gives up leaves its task, or nothing.                     *)
LEMMA GiveUpKeepsRequests ==
    ASSUME RequestsIInv, NEW q \in Requests, D!GiveUp(q)
    PROVE  RequestsIInv'
<1>1. D!TypeOK'
  BY DEF RequestsIInv, D!TypeOK, D!GiveUp
<1>2. ASSUME NEW p \in Requests
      PROVE  /\ channel'[p] # <<>> => p \in waiting' /\ task'[p] = "none"
             /\ p \in waiting' => task'[p] # "none" \/ channel'[p] # <<>>
             /\ asked'[p] = D!Nothing <=> p \notin waiting' /\ task'[p] = "none"
  <2>1. CASE p = q /\ task[q] = "none"
    BY <2>1 DEF RequestsIInv, D!TypeOK, D!AnsweredOnce, D!GiveUp
  <2>2. CASE p = q /\ task[q] # "none"
    BY <2>2 DEF RequestsIInv, D!TypeOK, D!AnsweredOnce, D!GiveUp
  <2>3. CASE p # q
    BY <2>3 DEF RequestsIInv, D!TypeOK, D!AnsweredOnce, D!GiveUp
  <2> QED
    BY <2>1, <2>2, <2>3
<1>3. D!prompted' = D!prompted
  BY DEF D!GiveUp, D!prompted
<1>4. \A x, y \in D!prompted' : x = y
  BY <1>3 DEF RequestsIInv, D!AnsweredOnce
<1> QED
  BY <1>1, <1>2, <1>4 DEF RequestsIInv, D!AnsweredOnce

(* Every step keeps the invariant.                                         *)
LEMMA NextKeepsRequests ==
    ASSUME RequestsIInv, [D!Next]_D!vars
    PROVE  RequestsIInv'
<1>1. ASSUME NEW q \in Requests, NEW what \in Wants, D!Ask(q, what)
      PROVE  RequestsIInv'
  BY <1>1, AskKeepsRequests
<1>2. ASSUME NEW q \in Requests, D!Prompt(q)
      PROVE  RequestsIInv'
  BY <1>2, PromptKeepsRequests
<1>3. ASSUME NEW q \in Requests, D!Refuse(q)
      PROVE  RequestsIInv'
  <2>1. /\ task[q] # "none" /\ D!Error \in AnswerValues
        /\ D!answer(q, D!Error) /\ UNCHANGED waiting
    BY <1>3 DEF D!Refuse, AnswerValues
  <2> QED
    BY <2>1, AnswerKeepsRequests
<1>4. ASSUME NEW q \in Requests, NEW value \in AnswerValues, D!Settle(q, value)
      PROVE  RequestsIInv'
  <2>1. task[q] # "none" /\ D!answer(q, value) /\ UNCHANGED waiting
    BY <1>4 DEF D!Settle, D!prompted
  <2> QED
    BY <2>1, AnswerKeepsRequests
<1>5. ASSUME NEW q \in Requests, D!Receive(q)
      PROVE  RequestsIInv'
  BY <1>5, ReceiveKeepsRequests
<1>6. ASSUME NEW q \in Requests, D!GiveUp(q)
      PROVE  RequestsIInv'
  BY <1>6, GiveUpKeepsRequests
<1>7. CASE UNCHANGED D!vars
  BY <1>7 DEF RequestsIInv, D!TypeOK, D!AnsweredOnce, D!prompted, D!vars
<1> QED
  BY <1>1, <1>2, <1>3, <1>4, <1>5, <1>6, <1>7 DEF D!Next, AnswerValues

-----------------------------------------------------------------------------
(* The invariant holds throughout.                                         *)
LEMMA Invariance == D!Spec => []RequestsIInv
<1>1. D!Init => RequestsIInv
  BY InitRequests
<1>2. RequestsIInv /\ [D!Next]_D!vars => RequestsIInv'
  BY NextKeepsRequests
<1> QED
  BY <1>1, <1>2, PTL DEF D!Spec

(* Type correctness.                                                       *)
THEOREM TypeCorrect == D!Spec => []D!TypeOK
<1>1. RequestsIInv => D!TypeOK
  BY DEF RequestsIInv
<1> QED
  BY <1>1, Invariance, PTL

(* Each request is answered once, by its own task, one prompt at a time.   *)
THEOREM AnswersOnce == D!Spec => []D!AnsweredOnce
<1>1. RequestsIInv => D!AnsweredOnce
  BY DEF RequestsIInv
<1> QED
  BY <1>1, Invariance, PTL

-----------------------------------------------------------------------------
\* A request for an assertion is one of the assertions to be asked for.
LEMMA AsksForAssertion ==
    ASSUME D!TypeOK, NEW q \in Requests, asked[q].op = "get"
    PROVE  asked[q] \in Assertions
<1>1. asked[q] \in Wants \union {D!Nothing}
  BY DEF D!TypeOK
<1>2. asked[q] # D!Nothing
  BY DEF D!Nothing
<1>3. asked[q] # [op |-> "create"]
  OBVIOUS
<1> QED
  BY <1>1, <1>2, <1>3 DEF Wants

\* An assertion is asked for a credential, and answered over its own challenge.
LEMMA ResponsesAreAnswers ==
    ASSUME D!TypeOK, NEW q \in Requests, asked[q].op = "get",
           NEW response \in responses(asked[q].credential, captured_challenge(q))
    PROVE  response \in Answers
<1>1. asked[q] \in Assertions
  BY AsksForAssertion
<1>2. response \in UNION {responses(a.credential, transaction_hash(a.execution, a.query_only)) :
                             a \in Assertions}
  BY <1>1 DEF captured_challenge
<1> QED
  BY <1>2 DEF Answers

LEMMA NextRefines ==
    ASSUME D!TypeOK, [Next]_vars
    PROVE  [D!Next]_D!vars
<1>1. ASSUME NEW q \in Requests, NEW what \in Assertions, get_assertion(q, what)
      PROVE  D!Next
  <2>1. D!Ask(q, what) /\ what \in Wants
    BY <1>1 DEF get_assertion, Wants
  <2> QED
    BY <2>1 DEF D!Next
<1>2. ASSUME NEW q \in Requests, create_credential(q)
      PROVE  D!Next
  <2>1. D!Ask(q, [op |-> "create"]) /\ [op |-> "create"] \in Wants
    BY <1>2 DEF create_credential, Wants
  <2> QED
    BY <2>1 DEF D!Next
<1>3. ASSUME NEW q \in Requests, Browser(q)
      PROVE  D!Next
  BY <1>3 DEF Browser, D!Next
<1>4. ASSUME NEW q \in Requests, Approve(q)
      PROVE  D!Next
  <2>1. PICK response \in responses(asked[q].credential, captured_challenge(q)) :
            D!Settle(q, response)
    BY <1>4 DEF Approve
  <2>2. response \in Answers
    BY <1>4, ResponsesAreAnswers DEF Approve
  <2> QED
    BY <2>1, <2>2 DEF D!Next
<1>5. ASSUME NEW q \in Requests, Create(q)
      PROVE  D!Next
  BY <1>5 DEF Create, Answers, D!Next
<1>6. ASSUME NEW q \in Requests, Receive(q)
      PROVE  D!Next
  BY <1>6 DEF Receive, D!Next
<1>7. ASSUME NEW q \in Requests, GiveUp(q)
      PROVE  D!Next
  BY <1>7 DEF GiveUp, D!Next
<1>8. ASSUME NEW execution \in Executions, NEW query_only \in BOOLEAN,
             SignInMemory(execution, query_only)
      PROVE  UNCHANGED D!vars
  BY <1>8 DEF SignInMemory, requests, D!vars
<1>9. ASSUME NEW c \in Credentials, SetKey(c)
      PROVE  UNCHANGED D!vars
  BY <1>9 DEF SetKey, requests, D!vars
<1>10. ASSUME NEW t \in sent, Judge(t)
       PROVE  UNCHANGED D!vars
  BY <1>10 DEF Judge, requests, D!vars
<1>11. CASE UNCHANGED vars
  BY <1>11 DEF vars, requests, D!vars
<1> QED
  BY <1>1, <1>2, <1>3, <1>4, <1>5, <1>6, <1>7, <1>8, <1>9, <1>10, <1>11 DEF Next

LEMMA RequestsInvariance == Spec => []RequestsIInv
<1>1. Init => RequestsIInv
  BY InitRequests DEF Init
<1>2. RequestsIInv /\ [Next]_vars => RequestsIInv'
  BY NextRefines, NextKeepsRequests DEF RequestsIInv
<1> QED
  BY <1>1, <1>2, PTL DEF Spec

(* A signer's requests are answered once and by their own tasks, however   *)
(* many transactions are signed, credentials registered and calls given up *)
(* at a time (get_assertion and create_credential under sign_execution).   *)
THEOREM RequestsAnsweredOnce == Spec => []AnsweredOnce
<1>1. RequestsIInv => AnsweredOnce
  BY DEF RequestsIInv, AnsweredOnce
<1> QED
  BY <1>1, RequestsInvariance, PTL

(* The flow implements DeviceRequests, fairness included: every step of    *)
(* the signers, the browser and the contract is a step of the requests or  *)
(* leaves them alone (get_assertion, create_credential, sign_execution).   *)
THEOREM FlowImplementsRequests == Spec => D!Spec
<1>1. Init => D!Init
  BY DEF Init
<1>2. RequestsIInv /\ [Next]_vars => [D!Next]_D!vars
  BY NextRefines DEF RequestsIInv
<1> QED
  BY <1>1, <1>2, RequestsInvariance, PTL DEF Spec, D!Spec

-----------------------------------------------------------------------------
\* from_bytes_be reads the bytes, the first ones first.
LEMMA BytesRead ==
    ASSUME NEW bytes \in Seq(Nat)
    PROVE  \E f \in [0 .. Len(bytes) -> Nat] :
              Reads(f, Base, bytes, Len(bytes)) /\ from_bytes_be(bytes) = f[Len(bytes)]
<1> DEFINE n == Len(bytes)
           Computes(f) ==
              f = [i \in 0 .. n |-> IF i = 0 THEN 0 ELSE Base * f[i - 1] + bytes[i]]
           g == CHOOSE h : Computes(h)
<1>1. n \in Nat /\ bytes \in [1 .. n -> Nat] /\ Base \in Nat
  BY AssertionConstants
<1>2. from_bytes_be(bytes) = g[n]
  BY DEF from_bytes_be
<1> HIDE DEF n
<1>3. PICK f \in [0 .. n -> Nat] : Reads(f, Base, bytes, n)
  BY <1>1, ReadingExists, Zenon
<1>4. Computes(f)
  <2>1. \A k \in 0 .. n : f[k] = IF k = 0 THEN 0 ELSE Base * f[k - 1] + bytes[k]
    BY <1>1, <1>3 DEF Reads
  <2> QED
    BY <1>3, <2>1
<1>5. Computes(g)
  <2> HIDE DEF Computes
  <2> QED
    BY <1>4
<1>6. Reads(g, Base, bytes, n)
  <2>1. g[0] = 0 /\ \A k \in 1 .. n : g[k] = Base * g[k - 1] + bytes[k]
    <3> HIDE DEF g
    <3> QED
      BY <1>1, <1>5
  <2> HIDE DEF g, Computes
  <2> QED
    BY <2>1 DEF Reads
<1> HIDE DEF g
<1>7. f[n] = g[n]
  <2>1. \A k \in 0 .. n : f[k] = g[k]
    BY <1>1, <1>3, <1>6, ReadingsAgree
  <2> QED
    BY <1>1, <2>1
<1> HIDE DEF Computes
<1> QED
  BY <1>2, <1>3, <1>7 DEF n

LEMMA BytesTyped ==
    ASSUME NEW bytes \in Seq(Nat)
    PROVE  from_bytes_be(bytes) \in Nat
<1>1. PICK f \in [0 .. Len(bytes) -> Nat] :
          Reads(f, Base, bytes, Len(bytes)) /\ from_bytes_be(bytes) = f[Len(bytes)]
  BY BytesRead, Zenon
<1>2. Len(bytes) \in 0 .. Len(bytes)
  OBVIOUS
<1> QED
  BY <1>1, <1>2, Zenon

LEMMA ExtendedValue ==
    ASSUME NEW bytes \in Seq(Nat), Len(bytes) <= 2 * HalfLen
    PROVE  from_bytes_be(extend_to_32(bytes)) = from_bytes_be(bytes)
<1> DEFINE n == Len(bytes)
           h == 2 * HalfLen - n
           longer == extend_to_32(bytes)
<1>1. n \in Nat /\ h \in Nat /\ Base \in Nat
  BY AssertionConstants
<1>2. /\ longer \in Seq(Nat) /\ Len(longer) = h + n
      /\ ZerosUpTo(longer, h) /\ Continues(longer, h, bytes, n)
  <2>1. longer = [i \in 1 .. h |-> 0] \o bytes
    BY DEF extend_to_32
  <2> HIDE DEF longer, h
  <2> QED
    BY <1>1, <2>1, ZerosJoined
<1> HIDE DEF longer, h
<1>3. PICK f \in [0 .. Len(longer) -> Nat] :
          Reads(f, Base, longer, Len(longer)) /\ from_bytes_be(longer) = f[Len(longer)]
  BY <1>2, BytesRead, Zenon
<1>4. PICK g \in [0 .. Len(bytes) -> Nat] :
          Reads(g, Base, bytes, Len(bytes)) /\ from_bytes_be(bytes) = g[Len(bytes)]
  BY BytesRead, Zenon
<1>5. Reads(f, Base, longer, h + n)
  BY <1>2, <1>3
<1> HIDE DEF n
<1>6. Reads(shifted(f, h, n), Base, bytes, n)
  BY <1>1, <1>2, <1>5, LeadingZeros
<1>7. shifted(f, h, n)[n] = f[h + n]
  BY <1>1 DEF shifted
<1>8. shifted(f, h, n)[n] = g[n]
  <2>1. Reads(g, Base, bytes, n)
    BY <1>4 DEF n
  <2>2. \A k \in 0 .. n : shifted(f, h, n)[k] = g[k]
    BY <1>1, <1>6, <2>1, ReadingsAgree
  <2> QED
    BY <1>1, <2>2
<1> QED
  BY <1>2, <1>3, <1>4, <1>7, <1>8 DEF n, longer

\* Bytes that fill an integer of the contract.
LEMMA CoordinateBytes ==
    ASSUME NEW bytes \in Coordinates
    PROVE  /\ bytes \in Seq(Nat) /\ Len(bytes) = 2 * HalfLen
           /\ HalfLen \in Nat /\ 2 * HalfLen \in Nat
<1>1. HalfLen \in Nat /\ 2 * HalfLen \in Nat /\ Base \in Nat
  BY AssertionConstants
<1>2. bytes \in [1 .. 2 * HalfLen -> Nat]
  BY <1>1 DEF Coordinates
<1>3. \A n \in Nat : \A s \in [1 .. n -> Nat] : s \in Seq(Nat) /\ Len(s) = n
  OBVIOUS
<1> QED
  BY <1>1, <1>2, <1>3

\* The halves of an integer.
LEMMA SplitValue ==
    ASSUME NEW bytes \in Coordinates
    PROVE  from_bytes_be(bytes) =
               from_bytes_be(SubSeq(bytes, 1, HalfLen)) * power(Base, HalfLen)
               + from_bytes_be(SubSeq(bytes, HalfLen + 1, 2 * HalfLen))
<1> DEFINE h == HalfLen
           high == SubSeq(bytes, 1, h)
           low == SubSeq(bytes, h + 1, 2 * h)
<1>1. /\ bytes \in Seq(Nat) /\ Len(bytes) = 2 * h /\ h \in Nat /\ Base \in Nat
      /\ h + h = 2 * h /\ 0 + 1 = 1 /\ 0 + h = h
  BY CoordinateBytes, AssertionConstants
<1>2. high \in Seq(Nat) /\ Len(high) = h /\ Continues(bytes, 0, high, h)
  <2>1. 0 \in Nat /\ 0 + h <= Len(bytes)
    BY <1>1
  <2>2. /\ SubSeq(bytes, 0 + 1, 0 + h) \in Seq(Nat)
        /\ Len(SubSeq(bytes, 0 + 1, 0 + h)) = h
        /\ Continues(bytes, 0, SubSeq(bytes, 0 + 1, 0 + h), h)
    <3> HIDE DEF h
    <3> QED
      BY <1>1, <2>1, HalfOf
  <2> QED
    BY <1>1, <2>2
<1>3. /\ low \in Seq(Nat) /\ low \in [1 .. h -> Nat] /\ Len(low) = h
      /\ Continues(bytes, h, low, h)
  <2>1. h + h <= Len(bytes)
    BY <1>1
  <2>2. /\ SubSeq(bytes, h + 1, h + h) \in Seq(Nat)
        /\ SubSeq(bytes, h + 1, h + h) \in [1 .. h -> Nat]
        /\ Len(SubSeq(bytes, h + 1, h + h)) = h
        /\ Continues(bytes, h, SubSeq(bytes, h + 1, h + h), h)
    <3> HIDE DEF h
    <3> QED
      BY <1>1, <2>1, HalfOf
  <2> QED
    BY <1>1, <2>2
<1> HIDE DEF h, high, low
<1>4. PICK f : f \in [0 .. h + h -> Nat] /\
          Reads(f, Base, bytes, h + h) /\ from_bytes_be(bytes) = f[h + h]
  <2>1. \E f \in [0 .. Len(bytes) -> Nat] :
           Reads(f, Base, bytes, Len(bytes)) /\ from_bytes_be(bytes) = f[Len(bytes)]
    BY <1>1, BytesRead, Zenon
  <2>2. Len(bytes) = h + h
    BY <1>1
  <2> QED
    BY <2>1, <2>2
<1>5. PICK u : u \in [0 .. h -> Nat] /\
          Reads(u, Base, high, h) /\ from_bytes_be(high) = u[h]
  <2>1. \E g \in [0 .. Len(high) -> Nat] :
           Reads(g, Base, high, Len(high)) /\ from_bytes_be(high) = g[Len(high)]
    BY <1>2, BytesRead, Zenon
  <2> QED
    BY <1>2, <2>1
<1>6. PICK v : v \in [0 .. h -> Nat] /\
          Reads(v, Base, low, h) /\ from_bytes_be(low) = v[h]
  <2>1. \E g \in [0 .. Len(low) -> Nat] :
           Reads(g, Base, low, Len(low)) /\ from_bytes_be(low) = g[Len(low)]
    BY <1>3, BytesRead, Zenon
  <2> QED
    BY <1>3, <2>1
<1>7. f[h] = u[h]
  <2>1. Reads(f, Base, high, h)
    BY <1>1, <1>2, <1>4, ReadsPart
  <2>2. Base \in Nat /\ h \in Nat /\ Reads(u, Base, high, h)
    BY <1>1, <1>5
  <2> QED
    BY <2>1, <2>2, SameReading
<1>8. f[h + h] = f[h] * power(Base, h) + v[h]
  <2>1. Base \in Nat /\ h \in Nat /\ f \in [0 .. h + h -> Nat] /\ v \in [0 .. h -> Nat]
    BY <1>1, <1>4, <1>6
  <2>2. /\ Reads(f, Base, bytes, h + h) /\ Reads(v, Base, low, h)
        /\ low \in [1 .. h -> Nat] /\ Continues(bytes, h, low, h)
    BY <1>3, <1>4, <1>6
  <2> QED
    BY <2>1, <2>2, ReadsOn, Zenon
<1>9. from_bytes_be(bytes) = from_bytes_be(high) * power(Base, h) + from_bytes_be(low)
  BY <1>4, <1>5, <1>6, <1>7, <1>8
<1> QED
  BY <1>9 DEF h, high, low

\* The contract's integer is the one that the bytes are.
LEMMA FeltPairValue ==
    ASSUME NEW bytes \in Coordinates
    PROVE  AbiU256(felt_pair(bytes)) = from_bytes_be(bytes)
<1> DEFINE h == HalfLen
           high == SubSeq(bytes, 1, h)
           low == SubSeq(bytes, h + 1, 2 * h)
<1>1. /\ bytes \in Seq(Nat) /\ Len(bytes) = 2 * h /\ h \in Nat /\ Base \in Nat
  BY CoordinateBytes, AssertionConstants
<1>2. high \in Seq(Nat) /\ Len(high) <= 2 * h
  <2> HIDE DEF h
  <2> QED
    BY <1>1
<1>3. low \in Seq(Nat) /\ Len(low) <= 2 * h
  <2> HIDE DEF h
  <2> QED
    BY <1>1
<1> HIDE DEF high, low
<1>4. /\ from_bytes_be(extend_to_32(high)) = from_bytes_be(high)
      /\ from_bytes_be(extend_to_32(low)) = from_bytes_be(low)
  BY <1>2, <1>3, ExtendedValue
<1>5. felt_pair(bytes) = <<from_bytes_be(low), from_bytes_be(high)>>
  BY <1>4 DEF felt_pair, high, low
<1>6. AbiU256(felt_pair(bytes)) = from_bytes_be(low) + from_bytes_be(high) * power(Base, h)
  BY <1>5 DEF AbiU256
<1>7. from_bytes_be(bytes) = from_bytes_be(high) * power(Base, h) + from_bytes_be(low)
  BY SplitValue DEF high, low
<1>8. from_bytes_be(low) \in Int /\ from_bytes_be(high) * power(Base, h) \in Int
  <2>1. from_bytes_be(low) \in Nat /\ from_bytes_be(high) \in Nat /\ power(Base, h) \in Nat
    BY <1>1, <1>2, <1>3, BytesTyped, PowerTyped
  <2>2. \A x, y \in Nat : x * y \in Int
    OBVIOUS
  <2> QED
    BY <2>1, <2>2
<1> QED
  BY <1>6, <1>7, <1>8

LEMMA ScalarBytesTyped ==
    ASSUME NEW n \in Nat
    PROVE  scalar_bytes(n) \in Coordinates
<1>1. ASSUME NEW i \in 1 .. 2 * HalfLen
      PROVE  (n \div power(Base, 2 * HalfLen - i)) % Base \in 0 .. Base - 1
  <2>1. 2 * HalfLen - i \in Nat /\ Base \in Nat \ {0}
    BY AssertionConstants
  <2>2. power(Base, 2 * HalfLen - i) \in Nat \ {0}
    BY <2>1, PowerPositive
  <2>3. n \div power(Base, 2 * HalfLen - i) \in Nat
    BY <2>2, Division
  <2> QED
    BY <2>1, <2>3, Division
<1> QED
  BY <1>1 DEF scalar_bytes, Coordinates

\* The bytes of an integer that fits are read as that integer.
LEMMA ScalarRoundTrip ==
    ASSUME NEW n \in Nat, n < power(Base, 2 * HalfLen)
    PROVE  from_bytes_be(scalar_bytes(n)) = n
<1> DEFINE len == 2 * HalfLen
           bytes == scalar_bytes(n)
           q(k) == n \div power(Base, len - k)
           g == [k \in 0 .. len |-> q(k)]
<1>1. /\ bytes \in Seq(Nat) /\ Len(bytes) = len /\ len \in Nat
      /\ Base \in Nat /\ Base \in Nat \ {0}
  BY ScalarBytesTyped, CoordinateBytes, AssertionConstants
<1>2. g[0] = 0
  <2>1. power(Base, len) \in Nat \ {0} /\ 0 \in 0 .. len /\ len - 0 = len
    <3> HIDE DEF len
    <3>1. power(Base, len) \in Nat \ {0}
      BY <1>1, PowerPositive
    <3> QED
      BY <1>1, <3>1
  <2>2. n \in 0 .. power(Base, len) - 1
    BY <2>1
  <2>3. n = power(Base, len) * 0 + n
    BY <2>1
  <2> HIDE DEF len
  <2>4. n \div power(Base, len) = 0
    <3> DEFINE m == power(Base, len)
    <3>1. m \in Nat \ {0} /\ n \in 0 .. m - 1 /\ n = m * 0 + n /\ 0 \in Nat
      BY <2>1, <2>2, <2>3
    <3> HIDE DEF m
    <3>2. n \div m = 0
      BY <3>1, QuotientIs
    <3> QED
      BY <3>2 DEF m
  <2> QED
    BY <2>1, <2>4
<1>3. ASSUME NEW k \in 1 .. len
      PROVE  g[k] = Base * g[k - 1] + bytes[k]
  <2> DEFINE m == power(Base, len - k)
             x == n \div m
  <2>1. len - k \in Nat /\ (len - k) + 1 = len - (k - 1) /\ k - 1 \in 0 .. len /\ k \in 0 .. len
    BY <1>1
  <2>2. power(Base, (len - k) + 1) = Base * m /\ m \in Nat \ {0}
    <3> HIDE DEF len
    <3> QED
      BY <1>1, <2>1, PowerNext, PowerPositive
  <2>3. bytes[k] = x % Base
    BY DEF scalar_bytes
  <2>4. g[k] = x /\ g[k - 1] = n \div (Base * m)
    BY <2>1, <2>2
  <2> HIDE DEF len, bytes, g, m
  <2>5. n \div (Base * m) = x \div Base
    BY <1>1, <2>2, QuotientOfQuotient
  <2>6. x \in Nat
    BY <2>2, Division
  <2> HIDE DEF x
  <2>7. x = Base * (x \div Base) + (x % Base)
    BY <1>1, <2>6, Division
  <2> QED
    BY <2>3, <2>4, <2>5, <2>7
<1>4. g[len] = n
  <2>1. len \in 0 .. len /\ len - len = 0
    BY <1>1
  <2>2. power(Base, 0) = 1 /\ n \div 1 = n
    BY <1>1, PowerZero
  <2> QED
    BY <2>1, <2>2
<1> HIDE DEF bytes, g
<1>5. Reads(g, Base, bytes, len)
  BY <1>2, <1>3 DEF Reads
<1>6. PICK f \in [0 .. Len(bytes) -> Nat] :
          Reads(f, Base, bytes, Len(bytes)) /\ from_bytes_be(bytes) = f[Len(bytes)]
  BY <1>1, BytesRead, Zenon
<1>7. Reads(f, Base, bytes, len)
  BY <1>1, <1>6
<1>8. f[len] = g[len]
  <2> HIDE DEF len
  <2>1. \A k \in 0 .. len : f[k] = g[k]
    BY <1>1, <1>5, <1>7, ReadingsAgree
  <2> QED
    BY <1>1, <2>1
<1>9. from_bytes_be(bytes) = n
  BY <1>1, <1>4, <1>6, <1>8
<1> QED
  BY <1>9 DEF bytes

\* The contract has a credential's true coordinates.
LEMMA KeyPoint ==
    ASSUME NEW c \in Credentials
    PROVE  key_point(c) = true_point(c) /\ true_point(c) \in OnCurve
<1>1. PublicKey[c] \in Coordinates \X Coordinates
  BY KeyConstants
<1> DEFINE x == PublicKey[c][1]
           y == PublicKey[c][2]
<1>2. x \in Coordinates /\ y \in Coordinates
  BY <1>1
<1>3. key_point(c) = <<AbiU256(felt_pair(x)), AbiU256(felt_pair(y))>>
  BY DEF key_point, pub_key_to_felts
<1>4. true_point(c) = <<from_bytes_be(x), from_bytes_be(y)>>
  BY DEF true_point
<1> HIDE DEF x, y
<1> QED
  BY <1>2, <1>3, <1>4, FeltPairValue, KeyConstants

\* Two strings of bytes, end to end, are cut apart where they were joined.
LEMMA CutApart ==
    ASSUME NEW s \in Coordinates, NEW t \in Coordinates
    PROVE  /\ Len(s \o t) = 4 * HalfLen
           /\ SubSeq(s \o t, 1, 2 * HalfLen) = s
           /\ SubSeq(s \o t, 2 * HalfLen + 1, 4 * HalfLen) = t
<1> DEFINE joined == s \o t
           n == 2 * HalfLen
<1>0. /\ n \in Nat /\ 2 * n = 4 * HalfLen
      /\ s \in Seq(Nat) /\ Len(s) = n /\ t \in Seq(Nat) /\ Len(t) = n
  BY CoordinateBytes, AssertionConstants
<1> HIDE DEF n
<1>1. /\ joined \in Seq(Nat) /\ Len(joined) = 2 * n
      /\ \A i \in 1 .. n : joined[i] = s[i]
      /\ \A i \in 1 .. n : joined[n + i] = t[i]
  BY <1>0
<1> HIDE DEF joined
<1>2. SubSeq(joined, 1, n) = s
  <2> DEFINE part == SubSeq(joined, 1, n)
  <2>1. part \in Seq(Nat) /\ Len(part) = n /\ \A i \in 1 .. n : part[i] = joined[i]
    BY <1>0, <1>1
  <2> HIDE DEF part
  <2>2. part = s
    BY <1>0, <1>1, <2>1
  <2> QED
    BY <2>2 DEF part
<1>3. SubSeq(joined, n + 1, 2 * n) = t
  <2> DEFINE part == SubSeq(joined, n + 1, 2 * n)
  <2>1. part \in Seq(Nat) /\ Len(part) = n
    <3>1. n + n = 2 * n /\ n + n <= Len(joined)
      BY <1>0, <1>1
    <3>2. SubSeq(joined, n + 1, n + n) \in Seq(Nat) /\ Len(SubSeq(joined, n + 1, n + n)) = n
      BY <1>0, <1>1, <3>1, HalfOf
    <3> QED
      BY <3>1, <3>2
  <2>2. ASSUME NEW i \in 1 .. n
        PROVE  part[i] = joined[n + i]
    <3>1. part[i] = joined[(n + 1) + i - 1]
      BY <1>0, <1>1
    <3>2. (n + 1) + i - 1 = n + i
      BY <1>0
    <3> QED
      BY <3>1, <3>2
  <2> HIDE DEF part
  <2>3. part = t
    BY <1>0, <1>1, <2>1, <2>2
  <2> QED
    BY <2>3 DEF part
<1> QED
  BY <1>0, <1>1, <1>2, <1>3 DEF joined, n

\* What the signer sends as a signature reaches the contract as it was.
LEMMA SignatureRoundTrip ==
    ASSUME NEW signature \in Scalars \X Scalars
    PROVE  LET bytes == signature_bytes(signature)
           IN  /\ Len(bytes) = 4 * HalfLen
               /\ AbiU256(felt_pair(SubSeq(bytes, 1, 2 * HalfLen))) = signature[1]
               /\ AbiU256(felt_pair(SubSeq(bytes, 2 * HalfLen + 1, 4 * HalfLen))) = signature[2]
<1> DEFINE n == 2 * HalfLen
           s == scalar_bytes(signature[1])
           t == scalar_bytes(signature[2])
<1>1. n \in Nat /\ 2 * n = 4 * HalfLen
  BY AssertionConstants
<1>2. power(Base, n) \in Nat
  BY <1>1, AssertionConstants, PowerTyped
<1>3. /\ signature[1] \in Nat /\ signature[1] < power(Base, n)
      /\ signature[2] \in Nat /\ signature[2] < power(Base, n)
  <2>1. signature[1] \in Scalars /\ signature[2] \in Scalars
    OBVIOUS
  <2>2. Scalars \subseteq 0 .. power(Base, n) - 1
    BY KeyConstants
  <2> DEFINE m == power(Base, n)
  <2>3. \A x \in Scalars : x \in Nat /\ x < m
    <3>1. m \in Nat /\ Scalars \subseteq 0 .. m - 1
      BY <1>2, <2>2
    <3> HIDE DEF m
    <3> QED
      BY <3>1
  <2> HIDE DEF m
  <2>4. signature[1] < m /\ signature[2] < m /\ signature[1] \in Nat /\ signature[2] \in Nat
    BY <2>1, <2>3
  <2> QED
    BY <2>4 DEF m
<1>4. s \in Coordinates /\ t \in Coordinates
  BY <1>3, ScalarBytesTyped
<1>6. AbiU256(felt_pair(s)) = signature[1] /\ AbiU256(felt_pair(t)) = signature[2]
  BY <1>3, <1>4, FeltPairValue, ScalarRoundTrip
<1>7. signature_bytes(signature) = s \o t
  BY DEF signature_bytes
<1> HIDE DEF s, t
<1>8. /\ Len(s \o t) = 4 * HalfLen
      /\ SubSeq(s \o t, 1, n) = s
      /\ SubSeq(s \o t, n + 1, 4 * HalfLen) = t
  BY <1>4, CutApart
<1> QED
  BY <1>6, <1>7, <1>8

-----------------------------------------------------------------------------
\* The words are at a position, and at none from another on until there.
FirstAt(text, words, from, v) ==
    /\ from <= v /\ v <= Len(text) - Len(words) + 1
    /\ SubSeq(text, v, v + Len(words) - 1) = words
    /\ \A i \in from .. v - 1 : SubSeq(text, i, i + Len(words) - 1) # words

LEMMA FindIs ==
    ASSUME NEW text, NEW words, NEW from \in Int, NEW v \in Int,
           Len(text) \in Nat, Len(words) \in Nat, FirstAt(text, words, from, v)
    PROVE  find(text, words, from) = v
<1> DEFINE places == {i \in from .. Len(text) - Len(words) + 1 :
                         SubSeq(text, i, i + Len(words) - 1) = words}
<1>1. v \in places
  BY DEF FirstAt
<1>2. \A i \in places : v <= i
  BY DEF FirstAt
<1>3. places \subseteq Int
  OBVIOUS
<1>4. find(text, words, from) = IF places = {} THEN NoIndex ELSE Min(places)
  BY DEF find
<1> HIDE DEF places
<1>5. Min(places) = CHOOSE x \in places : \A y \in places : x <= y
  BY DEF Min
<1>6. ASSUME NEW x \in places, \A y \in places : x <= y
      PROVE  x = v
  BY <1>1, <1>2, <1>3, <1>6
<1>7. Min(places) = v
  BY <1>1, <1>2, <1>5, <1>6
<1> QED
  BY <1>1, <1>4, <1>7

LEMMA FindWord ==
    ASSUME NEW S, NEW text \in Seq(S), NEW word, NEW from \in Nat \ {0}, NEW v \in Nat,
           from <= v, v <= Len(text), text[v] = word,
           \A i \in from .. v - 1 : text[i] # word
    PROVE  find(text, <<word>>, from) = v
<1>1. Len(<<word>>) = 1 /\ Len(text) \in Nat
  OBVIOUS
<1>2. ASSUME NEW i \in from .. v
      PROVE  SubSeq(text, i, i + 1 - 1) = <<text[i]>>
  <2>1. i + 1 - 1 = i /\ i \in 1 .. Len(text)
    OBVIOUS
  <2>2. SubSeq(text, i, i) = <<text[i]>>
    BY <2>1, OneWord
  <2> QED
    BY <2>1, <2>2
<1>3. SubSeq(text, v, v + Len(<<word>>) - 1) = <<word>>
  BY <1>1, <1>2
<1>4. ASSUME NEW i \in from .. v - 1
      PROVE  SubSeq(text, i, i + Len(<<word>>) - 1) # <<word>>
  <2>1. SubSeq(text, i, i + Len(<<word>>) - 1) = <<text[i]>> /\ text[i] # word
    BY <1>1, <1>2
  <2>2. <<text[i]>>[1] = text[i] /\ <<word>>[1] = word
    OBVIOUS
  <2> QED
    BY <2>1, <2>2
<1>5. FirstAt(text, <<word>>, from, v)
  BY <1>1, <1>3, <1>4 DEF FirstAt
<1>6. from \in Int /\ v \in Int /\ Len(text) \in Nat /\ Len(<<word>>) \in Nat
  BY <1>1
<1> QED
  BY <1>5, <1>6, FindIs

\* The quoted key is found where it comes first.
LEMMA FindKey ==
    ASSUME NEW S, NEW text \in Seq(S), NEW pre \in Seq(S), NEW key,
           NEW keyword \in Seq(S), keyword = quoted(<<Name(key)>>),
           Name(key) # Quote,
           At(text, 0, pre), At(text, Len(pre), keyword),
           \A i \in 1 .. Len(pre) : pre[i] # Name(key)
    PROVE  find(text, quoted(<<Name(key)>>), 1) = Len(pre) + 1
<1> DEFINE n == Len(pre)
<1>1. /\ Len(keyword) = 3 /\ keyword[1] = Quote /\ keyword[2] = Name(key)
      /\ keyword[3] = Quote
  BY DEF quoted
<1>2. /\ n \in Nat /\ Len(text) \in Nat /\ n + 3 <= Len(text)
      /\ At(text, n, keyword) /\ At(text, 0, pre)
      /\ \A i \in 1 .. n : pre[i] # Name(key)
  BY <1>1 DEF At
<1>3. \A i \in 1 .. n : text[0 + i] = pre[i]
  BY DEF At
<1> HIDE DEF n
<1>4. SubSeq(text, n + 1, n + 1 + Len(keyword) - 1) = keyword
  <2>1. n + 1 + Len(keyword) - 1 = n + Len(keyword)
    BY <1>1, <1>2
  <2>2. SubSeq(text, n + 1, n + Len(keyword)) = keyword
    BY <1>2, CutAt
  <2> QED
    BY <2>1, <2>2
<1>5. ASSUME NEW i \in 1 .. n
      PROVE  text[i + 1] # Name(key)
  <2>1. CASE i < n
    <3>1. i + 1 \in 1 .. n /\ 0 + (i + 1) = i + 1
      BY <1>2, <2>1
    <3>2. text[i + 1] = pre[i + 1]
      BY <1>3, <3>1
    <3> QED
      BY <1>2, <3>1, <3>2
  <2>2. CASE i = n
    <3>1. text[n + 1] = keyword[1]
      BY <1>1, <1>2 DEF At
    <3> QED
      BY <1>1, <2>2, <3>1
  <2> QED
    BY <1>2, <2>1, <2>2
<1>6. /\ \A i \in 1 .. n : /\ i + Len(keyword) - 1 = i + 2 /\ i + 2 <= Len(text)
                            /\ i \in Nat /\ i >= 1
      /\ (n + 1) - 1 = n /\ 1 <= n + 1 /\ n + 1 <= Len(text) - Len(keyword) + 1
  <2> DEFINE k == Len(keyword)
             m == Len(text)
  <2>1. k = 3 /\ n \in Nat /\ m \in Nat /\ n + 3 <= m
    BY <1>1, <1>2
  <2> HIDE DEF k, m
  <2>2. \A i \in 1 .. n : i + k - 1 = i + 2 /\ i + 2 <= m /\ i \in Nat /\ i >= 1
    BY <2>1
  <2>3. (n + 1) - 1 = n /\ 1 <= n + 1 /\ n + 1 <= m - k + 1
    BY <2>1
  <2> QED
    BY <2>2, <2>3 DEF k, m
<1>7. ASSUME NEW i \in 1 .. n
      PROVE  SubSeq(text, i, i + Len(keyword) - 1) # keyword
  <2>1. i + Len(keyword) - 1 = i + 2 /\ i + 2 <= Len(text) /\ i \in Nat /\ i >= 1
    BY <1>6
  <2>2. SubSeq(text, i, i + 2)[2] = text[i + 1]
    BY <1>2, <2>1
  <2> QED
    BY <1>1, <1>5, <2>1, <2>2
<1>8. FirstAt(text, keyword, 1, n + 1)
  BY <1>4, <1>6, <1>7 DEF FirstAt
<1>9. n + 1 \in Int /\ 1 \in Int /\ Len(keyword) \in Nat
  BY <1>1, <1>2
<1>10. find(text, keyword, 1) = n + 1
  BY <1>2, <1>8, <1>9, FindIs
<1> QED
  BY <1>10 DEF n

LEMMA QuotedText ==
    ASSUME NEW S, NEW words, NEW k \in Nat, Text(S, words, k), Quote \in S
    PROVE  /\ Text(S, quoted(words), k + 2)
           /\ Text(S, <<Quote>>, 1) /\ Text(S, <<Quote>> \o words, 1 + k)
<1> DEFINE q == <<Quote>>
           u == q \o words
<1>1. Text(S, q, 1)
  BY DEF Text
<1> HIDE DEF q
<1>2. Text(S, u, 1 + k)
  BY <1>1, Joined
<1>3. quoted(words) = u \o q
  BY DEF quoted, q
<1>4. Text(S, u \o q, (1 + k) + 1)
  <2> HIDE DEF u
  <2>1. 1 + k \in Nat /\ 1 \in Nat
    OBVIOUS
  <2> QED
    BY <1>1, <1>2, <2>1, Joined
<1>5. (1 + k) + 1 = k + 2
  OBVIOUS
<1> QED
  BY <1>1, <1>2, <1>3, <1>4, <1>5 DEF q

LEMMA QuotedTyped ==
    ASSUME NEW S, NEW words \in Seq(S), Quote \in S
    PROVE  quoted(words) \in Seq(S)
<1>1. Len(words) \in Nat /\ Text(S, words, Len(words))
  BY DEF Text
<1>2. Text(S, quoted(words), Len(words) + 2)
  BY <1>1, QuotedText
<1> QED
  BY <1>2 DEF Text

LEMMA QuotedParts ==
    ASSUME NEW S, NEW text \in Seq(S), NEW words \in Seq(S), Quote \in S,
           NEW p \in Nat, At(text, p, quoted(words))
    PROVE  At(text, p, <<Quote>>) /\ At(text, p + 1, words)
<1> DEFINE q == <<Quote>>
           u == q \o words
<1>1. q \in Seq(S) /\ Len(q) = 1
  OBVIOUS
<1>2. u \in Seq(S)
  OBVIOUS
<1>3. At(text, p, u \o q)
  BY DEF quoted
<1> HIDE DEF q, u
<1>4. At(text, p, u)
  BY <1>1, <1>2, <1>3, JoinedWithin
<1>5. At(text, p, q) /\ At(text, p + Len(q), words)
  <2>1. At(text, p, q \o words)
    BY <1>4 DEF u
  <2> QED
    BY <1>1, <2>1, JoinedWithin
<1> QED
  BY <1>1, <1>5 DEF q

LEMMA MemberParts ==
    ASSUME NEW S, NEW text \in Seq(S), NEW key, NEW gap \in Seq(S), NEW words \in Seq(S),
           NEW n \in Nat, NEW g \in Nat, g = Len(gap),
           Quote \in S, Colon \in S, Name(key) \in S,
           At(text, n, member(key, gap, quoted(words)))
    PROVE  /\ At(text, n, quoted(<<Name(key)>>))
           /\ At(text, n + 3, gap)
           /\ At(text, n + 3 + g, <<Colon>>)
           /\ At(text, n + 4 + g, gap)
           /\ At(text, n + 4 + 2 * g, <<Quote>>)
           /\ At(text, n + 5 + 2 * g, words)
<1> DEFINE a == quoted(<<Name(key)>>)
           c == <<Colon>>
           v == quoted(words)
           a1 == a \o gap
           a2 == a1 \o c
           a3 == a2 \o gap
<1>1. /\ 3 \in Nat /\ 1 \in Nat /\ 1 + 2 = 3
      /\ 3 + g \in Nat /\ (3 + g) + 1 = 4 + g
      /\ 4 + g \in Nat /\ (4 + g) + g = 4 + 2 * g
  OBVIOUS
<1>2. Text(S, a, 3)
  <2>1. Text(S, <<Name(key)>>, 1)
    BY DEF Text
  <2>2. Text(S, quoted(<<Name(key)>>), 1 + 2)
    BY <1>1, <2>1, QuotedText
  <2> QED
    BY <1>1, <2>2
<1>3. Text(S, c, 1) /\ Text(S, gap, g)
  BY DEF Text
<1>4. v \in Seq(S)
  <2>1. Len(words) \in Nat /\ Text(S, words, Len(words))
    BY DEF Text
  <2>2. Text(S, quoted(words), Len(words) + 2)
    BY <2>1, QuotedText
  <2> QED
    BY <2>2 DEF Text
<1>5. member(key, gap, v) = a3 \o v
  BY DEF member
<1> HIDE DEF a, c, v
<1>6. Text(S, a1, 3 + g)
  BY <1>1, <1>2, <1>3, Joined
<1> HIDE DEF a1
<1>7. Text(S, a2, 4 + g)
  <2>1. Text(S, a1 \o c, (3 + g) + 1)
    BY <1>1, <1>3, <1>6, Joined
  <2> QED
    BY <1>1, <2>1
<1> HIDE DEF a2
<1>8. Text(S, a3, 4 + 2 * g)
  <2>1. Text(S, a2 \o gap, (4 + g) + g)
    BY <1>1, <1>3, <1>7, Joined
  <2> QED
    BY <1>1, <2>1
<1> HIDE DEF a3
<1>9. /\ a \in Seq(S) /\ Len(a) = 3 /\ c \in Seq(S)
       /\ a1 \in Seq(S) /\ Len(a1) = 3 + g
       /\ a2 \in Seq(S) /\ Len(a2) = 4 + g
       /\ a3 \in Seq(S) /\ Len(a3) = 4 + 2 * g
  BY <1>2, <1>3, <1>6, <1>7, <1>8 DEF Text
<1>10. At(text, n, a3) /\ At(text, n + Len(a3), v)
  <2>1. At(text, n, a3 \o v)
    BY <1>5 DEF v
  <2> QED
    BY <1>4, <1>9, <2>1, JoinedWithin
<1>11. At(text, n, a2) /\ At(text, n + Len(a2), gap)
  <2>1. At(text, n, a2 \o gap)
    BY <1>10 DEF a3
  <2> QED
    BY <1>4, <1>9, <2>1, JoinedWithin
<1>12. At(text, n, a1) /\ At(text, n + Len(a1), c)
  <2>1. At(text, n, a1 \o c)
    BY <1>11 DEF a2
  <2> QED
    BY <1>4, <1>9, <2>1, JoinedWithin
<1>13. At(text, n, a) /\ At(text, n + Len(a), gap)
  <2>1. At(text, n, a \o gap)
    BY <1>12 DEF a1
  <2> QED
    BY <1>4, <1>9, <2>1, JoinedWithin
<1>14. n + (4 + 2 * g) = n + 4 + 2 * g /\ n + (4 + g) = n + 4 + g /\ n + (3 + g) = n + 3 + g
       /\ n + 4 + 2 * g \in Nat /\ (n + 4 + 2 * g) + 1 = n + 5 + 2 * g
  OBVIOUS
<1>15. At(text, n + 4 + 2 * g, <<Quote>>) /\ At(text, n + 5 + 2 * g, words)
  <2>1. At(text, n + 4 + 2 * g, quoted(words))
    BY <1>9, <1>10, <1>14 DEF v
  <2>2. At(text, n + 4 + 2 * g, <<Quote>>) /\ At(text, (n + 4 + 2 * g) + 1, words)
    BY <1>14, <2>1, QuotedParts
  <2> QED
    BY <1>14, <2>2
<1> QED
  BY <1>9, <1>11, <1>12, <1>13, <1>14, <1>15 DEF a, c

LEMMA MemberTyped ==
    ASSUME NEW S, NEW key, NEW gap \in Seq(S), NEW value \in Seq(S),
           Quote \in S, Colon \in S, Name(key) \in S
    PROVE  member(key, gap, value) \in Seq(S)
<1> DEFINE a == quoted(<<Name(key)>>)
           c == <<Colon>>
<1>1. a \in Seq(S)
  <2>1. Text(S, <<Name(key)>>, 1)
    BY DEF Text
  <2>2. Text(S, quoted(<<Name(key)>>), 1 + 2)
    BY <2>1, QuotedText
  <2> QED
    BY <2>2 DEF Text
<1>2. c \in Seq(S)
  OBVIOUS
<1>3. member(key, gap, value) = a \o gap \o c \o gap \o value
  BY DEF member
<1> HIDE DEF a, c
<1>4. a \o gap \in Seq(S)
  BY <1>1
<1>5. a \o gap \o c \in Seq(S)
  BY <1>2, <1>4, JoinedTyped
<1>6. a \o gap \o c \o gap \in Seq(S)
  BY <1>5, JoinedTyped
<1> QED
  BY <1>3, <1>6, JoinedTyped

\* The value of a member is found, after whatever the text begins with.
LEMMA ValueFound ==
    ASSUME NEW S, NEW text \in Seq(S), NEW pre \in Seq(S), NEW key,
           NEW gap \in Seq({Space}), NEW words \in Seq(S),
           {Quote, Colon, Space, Name(key)} \subseteq S, Name(key) \notin {Quote, Colon},
           At(text, 0, pre), At(text, Len(pre), member(key, gap, quoted(words))),
           \A i \in 1 .. Len(pre) : pre[i] # Name(key)
    PROVE  /\ find_value_index(text, key) \in Nat \ {0}
           /\ At(text, find_value_index(text, key) - 1, words)
           /\ words_at(text, find_value_index(text, key), words)
<1> DEFINE n == Len(pre)
           g == Len(gap)
           m == Len(text)
           keyword == quoted(<<Name(key)>>)
<1>1. gap \in Seq(S) /\ n \in Nat /\ g \in Nat /\ m \in Nat
  OBVIOUS
<1>2. \A i \in 1 .. g : gap[i] = Space
  OBVIOUS
<1>3. At(text, n, member(key, gap, quoted(words)))
  OBVIOUS
<1> HIDE DEF n, g, m
<1>4. /\ At(text, n, quoted(<<Name(key)>>))
      /\ At(text, n + 3, gap)
      /\ At(text, n + 3 + g, <<Colon>>)
      /\ At(text, n + 4 + g, gap)
      /\ At(text, n + 4 + 2 * g, <<Quote>>)
      /\ At(text, n + 5 + 2 * g, words)
  <2>1. g = Len(gap)
    BY DEF g
  <2> QED
    BY <1>1, <1>3, <2>1, MemberParts
<1>5. /\ keyword \in Seq(S) /\ Len(keyword) = 3
      /\ keyword[1] = Quote /\ keyword[2] = Name(key) /\ keyword[3] = Quote
  <2>1. Text(S, <<Name(key)>>, 1)
    BY DEF Text
  <2>2. Text(S, quoted(<<Name(key)>>), 1 + 2)
    BY <2>1, QuotedText
  <2>3. keyword[1] = Quote /\ keyword[2] = Name(key) /\ keyword[3] = Quote
    BY DEF quoted
  <2> QED
    BY <2>2, <2>3 DEF Text
<1>6. find(text, keyword, 1) = n + 1
  <2>1. At(text, Len(pre), keyword) /\ Name(key) # Quote
    BY <1>4 DEF n
  <2> HIDE DEF keyword
  <2>2. find(text, quoted(<<Name(key)>>), 1) = Len(pre) + 1
    BY <1>5, <2>1, FindKey DEF keyword
  <2> QED
    BY <2>2 DEF n, keyword
\* The words from the key to the quote that opens the value.
<1>7. /\ \A i \in 1 .. 3 : text[n + i] \in {Quote, Name(key)}
      /\ \A i \in 1 .. g : text[(n + 3) + i] = Space
      /\ text[(n + 3 + g) + 1] = Colon
      /\ \A i \in 1 .. g : text[(n + 4 + g) + i] = Space
      /\ text[(n + 4 + 2 * g) + 1] = Quote
      /\ (n + 4 + 2 * g) + 1 <= m /\ (n + 3 + g) + 1 <= m
  <2>1. /\ Len(keyword) = 3 /\ Len(<<Colon>>) = 1 /\ Len(<<Quote>>) = 1
        /\ keyword[1] = Quote /\ keyword[2] = Name(key) /\ keyword[3] = Quote
        /\ <<Colon>>[1] = Colon /\ <<Quote>>[1] = Quote
    BY <1>5
  <2>2. \A i \in 1 .. 3 : text[n + i] \in {Quote, Name(key)}
    <3> HIDE DEF keyword
    <3>1. At(text, n, keyword)
      BY <1>4 DEF keyword
    <3>2. \A i \in 1 .. 3 : text[n + i] = keyword[i]
      BY <2>1, <3>1 DEF At
    <3>3. \A i \in 1 .. 3 : i = 1 \/ i = 2 \/ i = 3
      OBVIOUS
    <3>4. \A i \in 1 .. 3 : keyword[i] \in {Quote, Name(key)}
      BY <2>1, <3>3
    <3> QED
      BY <3>2, <3>4
  <2>3. \A i \in 1 .. g : text[(n + 3) + i] = Space
    BY <1>2, <1>4 DEF At, g
  <2>4. text[(n + 3 + g) + 1] = Colon
    BY <1>4, <2>1 DEF At
  <2>5. \A i \in 1 .. g : text[(n + 4 + g) + i] = Space
    BY <1>2, <1>4 DEF At, g
  <2>6. text[(n + 4 + 2 * g) + 1] = Quote
    BY <1>4, <2>1 DEF At
  <2>7. (n + 4 + 2 * g) + 1 <= m /\ (n + 3 + g) + 1 <= m
    BY <1>4, <2>1 DEF At, m
  <2> QED
    BY <2>2, <2>3, <2>4, <2>5, <2>6, <2>7
<1>8. Space # Quote /\ Space # Colon /\ Colon # Quote /\ Name(key) # Colon
  BY DEF Space, Quote, Colon
<1>9. find(text, <<Colon>>, n + 1) = n + 4 + g
  <2>1. ASSUME NEW i \in n + 1 .. (n + 4 + g) - 1
        PROVE  text[i] # Colon
    <3>1. CASE i <= n + 3
      <4>1. i - n \in 1 .. 3 /\ n + (i - n) = i
        BY <1>1, <3>1
      <4> QED
        BY <1>7, <1>8, <4>1
    <3>2. CASE i > n + 3
      <4>1. i - (n + 3) \in 1 .. g /\ (n + 3) + (i - (n + 3)) = i
        BY <1>1, <3>2
      <4> QED
        BY <1>7, <1>8, <4>1
    <3> QED
      BY <1>1, <3>1, <3>2
  <2>2. /\ n + 1 \in Nat \ {0} /\ n + 4 + g \in Nat /\ n + 1 <= n + 4 + g
        /\ n + 4 + g <= Len(text) /\ text[n + 4 + g] = Colon
    <3>1. (n + 3 + g) + 1 = n + 4 + g
      BY <1>1
    <3>2. n + 4 + g <= m
      BY <1>7, <3>1
    <3>3. text[n + 4 + g] = Colon
      BY <1>7, <3>1
    <3> QED
      BY <1>1, <3>2, <3>3 DEF m
  <2> QED
    BY <2>1, <2>2, FindWord
<1>10. find(text, <<Quote>>, (n + 4 + g) + 1) = n + 5 + 2 * g
  <2>1. ASSUME NEW i \in (n + 4 + g) + 1 .. (n + 5 + 2 * g) - 1
        PROVE  text[i] # Quote
    <3>1. i - (n + 4 + g) \in 1 .. g /\ (n + 4 + g) + (i - (n + 4 + g)) = i
      BY <1>1
    <3> QED
      BY <1>7, <1>8, <3>1
  <2>2. /\ (n + 4 + g) + 1 \in Nat \ {0} /\ n + 5 + 2 * g \in Nat
        /\ (n + 4 + g) + 1 <= n + 5 + 2 * g
        /\ n + 5 + 2 * g <= Len(text) /\ text[n + 5 + 2 * g] = Quote
    <3>1. (n + 4 + 2 * g) + 1 = n + 5 + 2 * g
      BY <1>1
    <3>2. n + 5 + 2 * g <= m
      BY <1>7, <3>1
    <3>3. text[n + 5 + 2 * g] = Quote
      BY <1>7, <3>1
    <3> QED
      BY <1>1, <3>2, <3>3 DEF m
  <2> QED
    BY <2>1, <2>2, FindWord
<1>11. find_value_index(text, key) = (n + 5 + 2 * g) + 1
  <2>1. n + 1 \in Nat /\ n + 4 + g \in Nat /\ n + 5 + 2 * g \in Nat
    BY <1>1
  <2>2. n + 1 # NoIndex /\ n + 4 + g # NoIndex /\ n + 5 + 2 * g # NoIndex
    BY <2>1, AssertionConstants
  <2> HIDE DEF keyword
  <2>3. find(text, quoted(<<Name(key)>>), 1) = n + 1
    BY <1>6 DEF keyword
  <2> QED
    BY <1>9, <1>10, <2>2, <2>3 DEF find_value_index
<1>12. words_at(text, (n + 5 + 2 * g) + 1, words)
  <2> DEFINE p == n + 5 + 2 * g
  <2>1. p \in Nat
    BY <1>1
  <2>2. At(text, p, words)
    BY <1>4
  <2> HIDE DEF p
  <2>3. SubSeq(text, p + 1, p + Len(words)) = words
    BY <2>1, <2>2, CutAt
  <2>4. (p + 1) + Len(words) - 1 = p + Len(words)
    BY <2>1
  <2>5. words_at(text, p + 1, words)
    BY <2>3, <2>4 DEF words_at
  <2> QED
    BY <2>5 DEF p
<1>13. (n + 5 + 2 * g) + 1 \in Nat \ {0} /\ ((n + 5 + 2 * g) + 1) - 1 = n + 5 + 2 * g
  BY <1>1
<1> QED
  BY <1>4, <1>11, <1>12, <1>13

\* In client data of any spacing, each key's value is found.
ValuesFound(text, challenge) ==
    /\ Len(text) \in Nat
    /\ \A key \in {"type", "challenge", "origin"} :
          find_value_index(text, key) \in Nat \ {0}
    /\ At(text, find_value_index(text, "challenge") - 1, <<challenge>>)
    /\ words_at(text, find_value_index(text, "type"), <<Name("webauthn.get")>>)
    /\ words_at(text, find_value_index(text, "challenge"), <<challenge>>)
    /\ words_at(text, find_value_index(text, "origin"), Origin)

LEMMA ClientDataValues ==
    ASSUME NEW execution, NEW query_only, NEW gap \in Seq({Space})
    PROVE  LET challenge == transaction_hash(execution, query_only)
           IN  ValuesFound(json(CliendData(challenge, Origin), gap), challenge)
<1> DEFINE challenge == transaction_hash(execution, query_only)
           P2 == {Open, Quote, Name("type"), Space, Colon, Name("webauthn.get"), Comma}
           P3 == P2 \union {Name("challenge"), challenge}
           S == P3 \union {Closed, Name("origin"), Name("crossOrigin"), Name("false")}
                   \union {Origin[i] : i \in DOMAIN Origin}
           text == json(CliendData(challenge, Origin), gap)
           o == <<Open>>
           c == <<Comma>>
           e == <<Closed>>
           m1 == member("type", gap, quoted(<<Name("webauthn.get")>>))
           m2 == member("challenge", gap, quoted(<<challenge>>))
           m3 == member("origin", gap, quoted(Origin))
           m4 == member("crossOrigin", gap, <<Name("false")>>)
           j1 == o \o m1
           j1c == j1 \o c
           j2 == j1c \o gap
           j3 == j2 \o m2
           j3c == j3 \o c
           j4 == j3c \o gap
           j5 == j4 \o m3
           j5c == j5 \o c
           j6 == j5c \o gap
           j7 == j6 \o m4
<1>1. text = j7 \o e
  BY DEF json, CliendData
<1>2. Seq(P2) \subseteq Seq(P3) /\ Seq(P3) \subseteq Seq(S)
  <2>1. P2 \subseteq P3 /\ P3 \subseteq S
    OBVIOUS
  <2> HIDE DEF P2, P3, S
  <2> QED
    BY <2>1, SeqOfMore
<1>3. o \in Seq(P2) /\ c \in Seq(P2) /\ gap \in Seq(P2) /\ m1 \in Seq(P2)
  <2>1. o \in Seq(P2) /\ c \in Seq(P2) /\ <<Name("webauthn.get")>> \in Seq(P2)
    OBVIOUS
  <2>2. Quote \in P2 /\ Colon \in P2 /\ Name("type") \in P2 /\ {Space} \subseteq P2
    OBVIOUS
  <2> HIDE DEF o, c, P2
  <2>3. gap \in Seq(P2)
    BY <2>2, SeqOfMore
  <2>4. quoted(<<Name("webauthn.get")>>) \in Seq(P2)
    BY <2>1, <2>2, QuotedTyped
  <2>5. m1 \in Seq(P2)
    BY <2>2, <2>3, <2>4, MemberTyped
  <2> QED
    BY <2>1, <2>3, <2>5
<1>4. m2 \in Seq(P3)
  <2>1. /\ Quote \in P3 /\ Colon \in P3 /\ Name("challenge") \in P3 /\ {Space} \subseteq P3
        /\ <<challenge>> \in Seq(P3)
    OBVIOUS
  <2> HIDE DEF P3, challenge
  <2>2. gap \in Seq(P3)
    BY <2>1, SeqOfMore
  <2>3. quoted(<<challenge>>) \in Seq(P3)
    BY <2>1, QuotedTyped
  <2> QED
    BY <2>1, <2>2, <2>3, MemberTyped
<1>5. /\ {Quote, Colon, Space, Name("type"), Name("challenge"), Name("origin"),
          Name("crossOrigin")} \subseteq S
      /\ <<Name("webauthn.get")>> \in Seq(S) /\ <<challenge>> \in Seq(S)
      /\ <<Name("false")>> \in Seq(S) /\ e \in Seq(S)
  OBVIOUS
<1>6. Origin \in Seq(S)
  <2>1. Origin \in Seq({Origin[i] : i \in DOMAIN Origin})
    BY TextConstants
  <2>2. {Origin[i] : i \in DOMAIN Origin} \subseteq S
    OBVIOUS
  <2> HIDE DEF S
  <2> QED
    BY <2>1, <2>2, SeqOfMore
<1>7. /\ Name("challenge") \notin P2
      /\ Name("origin") \notin P3
      /\ Open # Name("type")
  <2>1. Name("challenge") \notin P2
    BY DEF Name, Open, Quote, Space, Colon, Comma
  <2>2. Name("origin") \notin P2 /\ Name("origin") # Name("challenge")
    BY DEF Name, Open, Quote, Space, Colon, Comma
  <2>3. challenge # Name("origin")
    BY DEF transaction_hash, Name
  <2>4. Open # Name("type")
    BY DEF Open, Name
  <2> QED
    BY <2>1, <2>2, <2>3, <2>4
<1>8. \A key \in {"type", "challenge", "origin"} : Name(key) \notin {Quote, Colon}
  BY DEF Name, Quote, Colon
<1> HIDE DEF challenge, P2, P3, S, text, o, c, e, m1, m2, m3, m4,
             j1, j1c, j2, j3, j3c, j4, j5, j5c, j6, j7
<1>9. gap \in Seq(P3) /\ gap \in Seq(S) /\ c \in Seq(P3) /\ c \in Seq(S) /\ o \in Seq(S)
      /\ m1 \in Seq(S) /\ m2 \in Seq(S)
  BY <1>2, <1>3, <1>4
<1>10. m3 \in Seq(S) /\ m4 \in Seq(S)
  <2>1. quoted(Origin) \in Seq(S)
    BY <1>5, <1>6, QuotedTyped
  <2> QED
    BY <1>5, <1>9, <2>1, MemberTyped DEF m3, m4
<1>11. j1 \in Seq(P2)
  BY <1>3, JoinedTyped DEF j1
<1>12. j1c \in Seq(P2)
  BY <1>3, <1>11, JoinedTyped DEF j1c
<1>13. j2 \in Seq(P2)
  BY <1>3, <1>12, JoinedTyped DEF j2
<1>14. j3 \in Seq(P3)
  BY <1>2, <1>4, <1>13, JoinedTyped DEF j3
<1>15. j3c \in Seq(P3)
  BY <1>9, <1>14, JoinedTyped DEF j3c
<1>16. j4 \in Seq(P3)
  BY <1>9, <1>15, JoinedTyped DEF j4
<1>17. j1 \in Seq(S) /\ j1c \in Seq(S) /\ j2 \in Seq(S)
       /\ j3 \in Seq(S) /\ j3c \in Seq(S) /\ j4 \in Seq(S)
  BY <1>2, <1>11, <1>12, <1>13, <1>14, <1>15, <1>16
<1>18. j5 \in Seq(S)
  BY <1>10, <1>17, JoinedTyped DEF j5
<1>19. j5c \in Seq(S)
  BY <1>9, <1>18, JoinedTyped DEF j5c
<1>20. j6 \in Seq(S)
  BY <1>9, <1>19, JoinedTyped DEF j6
<1>21. j7 \in Seq(S)
  BY <1>10, <1>20, JoinedTyped DEF j7
<1>22. text \in Seq(S)
  BY <1>1, <1>5, <1>21, JoinedTyped
<1>23. At(text, 0, j7)
  <2>1. At(text, 0, j7 \o e)
    BY <1>1, <1>22, AtItself
  <2> QED
    BY <1>5, <1>21, <1>22, <2>1, BeginsWith
<1>24. At(text, 0, j6)
  BY <1>10, <1>20, <1>22, <1>23, BeginsWith DEF j7
<1>25. At(text, 0, j5c)
  BY <1>9, <1>19, <1>22, <1>24, BeginsWith DEF j6
<1>26. At(text, 0, j5)
  BY <1>9, <1>18, <1>22, <1>25, BeginsWith DEF j5c
<1>27. At(text, 0, j4) /\ At(text, Len(j4), m3)
  BY <1>10, <1>17, <1>22, <1>26, BeginsWith DEF j5
<1>28. At(text, 0, j3c)
  BY <1>9, <1>17, <1>22, <1>27, BeginsWith DEF j4
<1>29. At(text, 0, j3)
  BY <1>9, <1>17, <1>22, <1>28, BeginsWith DEF j3c
<1>30. At(text, 0, j2) /\ At(text, Len(j2), m2)
  BY <1>9, <1>17, <1>22, <1>29, BeginsWith DEF j3
<1>31. At(text, 0, j1c)
  BY <1>9, <1>17, <1>22, <1>30, BeginsWith DEF j2
<1>32. At(text, 0, j1)
  BY <1>9, <1>17, <1>22, <1>31, BeginsWith DEF j1c
<1>33. At(text, 0, o) /\ At(text, Len(o), m1)
  BY <1>9, <1>22, <1>32, BeginsWith DEF j1
<1>34. /\ \A i \in 1 .. Len(o) : o[i] # Name("type")
       /\ \A i \in 1 .. Len(j2) : j2[i] # Name("challenge")
       /\ \A i \in 1 .. Len(j4) : j4[i] # Name("origin")
  <2>1. \A i \in 1 .. Len(o) : o[i] # Name("type")
    <3>1. Len(o) = 1 /\ o[1] = Open
      BY DEF o
    <3> QED
      BY <1>7, <3>1
  <2>2. \A i \in 1 .. Len(j2) : j2[i] \in P2
    BY <1>13
  <2>3. \A i \in 1 .. Len(j4) : j4[i] \in P3
    BY <1>16
  <2> QED
    BY <1>7, <2>1, <2>2, <2>3
<1>35. /\ find_value_index(text, "type") \in Nat \ {0}
       /\ words_at(text, find_value_index(text, "type"), <<Name("webauthn.get")>>)
  BY <1>5, <1>8, <1>9, <1>22, <1>33, <1>34, ValueFound DEF m1
<1>36. /\ find_value_index(text, "challenge") \in Nat \ {0}
       /\ At(text, find_value_index(text, "challenge") - 1, <<challenge>>)
       /\ words_at(text, find_value_index(text, "challenge"), <<challenge>>)
  BY <1>5, <1>8, <1>17, <1>22, <1>30, <1>34, ValueFound DEF m2
<1>37. /\ find_value_index(text, "origin") \in Nat \ {0}
       /\ words_at(text, find_value_index(text, "origin"), Origin)
  BY <1>5, <1>6, <1>8, <1>17, <1>22, <1>27, <1>34, ValueFound DEF m3
<1>38. Len(text) \in Nat
  BY <1>22
<1> QED
  BY <1>35, <1>36, <1>37, <1>38 DEF ValuesFound, text, challenge

-----------------------------------------------------------------------------
LEMMA SignaturesSigned ==
    ASSUME NEW c, NEW authenticator_data, NEW client_data,
           NEW signature \in signatures(c, authenticator_data, client_data)
    PROVE  /\ signature \in Scalars \X Scalars
           /\ <<<<data_bytes(authenticator_data), client_data>>, true_point(c), signature>>
                  \in P256Signed
<1>1. PICK s \in P256Signed :
          /\ s[1] = <<data_bytes(authenticator_data), client_data>>
          /\ s[2] = true_point(c)
          /\ signature = s[3]
  BY DEF signatures
<1>2. s = <<s[1], s[2], s[3]>> /\ s[3] \in Scalars \X Scalars
  BY KeyConstants
<1> QED
  BY <1>1, <1>2

\* What is sent of a transaction: offsets at the values, the challenge among them,
\* and the signature as it was made.
WellSigned(t) ==
    LET text == t.signature.client_data_json
    IN  /\ points_at_values(t)
        /\ t.signature.challenge_offset \in 1 .. Len(text)
        /\ text[t.signature.challenge_offset] = transaction_hash(t.execution, t.query_only)

LEMMA SentAsSigned ==
    ASSUME NEW execution, NEW query_only, NEW c, NEW authenticator_data,
           NEW gap \in Gaps \union {<<>>}, NEW signature \in Scalars \X Scalars,
           NEW response,
           response = [authenticator_data |-> authenticator_data,
                       client_data_json |->
                           json(CliendData(transaction_hash(execution, query_only), Origin), gap),
                       signature |-> signature_bytes(signature)]
    PROVE  /\ ~ from_response_panics(response)
           /\ LET t == signed_transaction(execution, query_only, c, response)
              IN  /\ WellSigned(t)
                  /\ t.execution = execution /\ t.query_only = query_only /\ t.by = c
                  /\ t.signature.authenticator_data = data_bytes(authenticator_data)
                  /\ t.signature.client_data_json = response.client_data_json
                  /\ t.signature.signature = signature
<1> DEFINE challenge == transaction_hash(execution, query_only)
           text == json(CliendData(challenge, Origin), gap)
           t == signed_transaction(execution, query_only, c, response)
<1>1. gap \in Seq({Space})
  <2> HIDE DEF text, t
  <2>1. <<>> \in Seq({Space}) /\ Gaps \subseteq Seq({Space})
    BY TextConstants
  <2> QED
    BY <2>1
<1>2. ValuesFound(text, challenge)
  BY <1>1, ClientDataValues
<1>3. /\ response.client_data_json = text
      /\ response.signature = signature_bytes(signature)
      /\ response.authenticator_data = authenticator_data
  OBVIOUS
<1> HIDE DEF text
<1>4. LET bytes == signature_bytes(signature)
      IN  /\ Len(bytes) = 4 * HalfLen
          /\ AbiU256(felt_pair(SubSeq(bytes, 1, 2 * HalfLen))) = signature[1]
          /\ AbiU256(felt_pair(SubSeq(bytes, 2 * HalfLen + 1, 4 * HalfLen))) = signature[2]
  BY SignatureRoundTrip
<1>5. ~ from_response_panics(response)
  <2>1. ~ (Len(response.signature) < 4 * HalfLen)
    BY <1>3, <1>4, AssertionConstants
  <2>2. \A key \in {"type", "challenge", "origin"} :
           find_value_index(response.client_data_json, key) # NoIndex
    BY <1>2, <1>3, AssertionConstants DEF ValuesFound
  <2> QED
    BY <2>1, <2>2 DEF from_response_panics
<1>6. /\ t.execution = execution /\ t.query_only = query_only /\ t.by = c
      /\ t.signature.authenticator_data = data_bytes(authenticator_data)
      /\ t.signature.client_data_json = text
      /\ t.signature.type_offset = find_value_index(text, "type")
      /\ t.signature.challenge_offset = find_value_index(text, "challenge")
      /\ t.signature.origin_offset = find_value_index(text, "origin")
  BY <1>3 DEF signed_transaction, from_response
<1>7. t.signature.signature = signature
  <2>1. t.signature.signature =
           <<AbiU256(felt_pair(SubSeq(response.signature, 1, 2 * HalfLen))),
             AbiU256(felt_pair(SubSeq(response.signature, 2 * HalfLen + 1, 4 * HalfLen)))>>
    BY DEF signed_transaction, from_response
  <2>2. t.signature.signature = <<signature[1], signature[2]>>
    BY <1>3, <1>4, <2>1
  <2> QED
    BY <2>2
<1> HIDE DEF t
<1>8. points_at_values(t)
  BY <1>2, <1>6 DEF points_at_values, ValuesFound
<1>9. /\ t.signature.challenge_offset \in 1 .. Len(text)
      /\ text[t.signature.challenge_offset] = challenge
  <2> DEFINE o == find_value_index(text, "challenge")
  <2>1. o \in Nat \ {0} /\ At(text, o - 1, <<challenge>>)
    BY <1>2 DEF ValuesFound
  <2> HIDE DEF o, challenge
  <2>2. (o - 1) + 1 = o /\ o >= 1
    BY <2>1
  <2>3. Len(<<challenge>>) = 1 /\ <<challenge>>[1] = challenge
    OBVIOUS
  <2>4. o <= Len(text) /\ text[o] = challenge
    BY <2>1, <2>2, <2>3 DEF At
  <2>5. Len(text) \in Nat
    BY <1>2 DEF ValuesFound
  <2> QED
    BY <1>6, <2>1, <2>2, <2>4, <2>5 DEF o
<1>10. WellSigned(t)
  BY <1>6, <1>8, <1>9 DEF WellSigned
<1> QED
  BY <1>3, <1>5, <1>6, <1>7, <1>10 DEF t

-----------------------------------------------------------------------------
\* What an authenticator's answer is made of.
LEMMA ResponseParts ==
    ASSUME NEW c, NEW challenge, NEW response \in responses(c, challenge)
    PROVE  LET data == [rp_id_hash |-> RpIdHash, flags |-> {"UP", "UV"}, sign_count |-> 0]
           IN  \E gap \in Gaps :
                   LET client_data == json(CliendData(challenge, Origin), gap)
                   IN  \E signature \in signatures(c, data, client_data) :
                          response = [ok |-> TRUE, signature |-> signature_bytes(signature),
                                      client_data_json |-> client_data,
                                      flags |-> data.flags, counter |-> data.sign_count]
  BY DEF responses

\* A key, an approval, and what may have come of them.
Settled ==
    /\ signer \in {"p256", "device"}
    /\ credential \in Credentials \union {NoCredential}
    /\ signer = "p256" => credential \in Credentials /\ waiting = {}
    /\ result \in {"none", "OK", "Device error", "VALIDATED", "INVALID_SIGNATURE"}
    /\ webauthn_public_key \in {NoPoint} \union {key_point(c) : c \in Credentials}

\* An answer on its way is what the user of its request approved.
ApprovedAnswer(q) ==
    channel[q] \notin {<<>>, <<D!Error>>} =>
        /\ asked[q].op = "create" => channel[q][1] \in MakeCredentialResponses
        /\ asked[q].op = "get" =>
              /\ approved[q] = <<asked[q].credential, captured_challenge(q)>>
              /\ channel[q][1] \in responses(asked[q].credential, captured_challenge(q))

Approvals ==
    /\ approved \in [Requests -> {<<>>} \union (Credentials \X hashes)]
    /\ \A q \in Requests : ApprovedAnswer(q)

\* A transaction signed in memory.
SignedInMemory(t) ==
    LET args == t.signature
    IN  /\ t.by \in Credentials
        /\ args.authenticator_data =
              data_bytes([rp_id_hash |-> ZeroHash, flags |-> {"UP", "UV"}, sign_count |-> 0])
        /\ args.signature \in Scalars \X Scalars
        /\ <<<<args.authenticator_data, args.client_data_json>>, true_point(t.by),
             args.signature>> \in P256Signed

SentInv ==
    \A t \in sent : WellSigned(t) /\ (signer = "p256" => SignedInMemory(t))

FlowIInv == RequestsIInv /\ Settled /\ Approvals /\ SentInv

-----------------------------------------------------------------------------
LEMMA InitFlow == ASSUME Init PROVE FlowIInv
<1>1. RequestsIInv
  BY InitRequests DEF Init
<1>2. Settled
  BY DEF Init, D!Init, Settled
<1>3. Approvals
  BY DEF Init, D!Init, Approvals, ApprovedAnswer
<1>4. SentInv
  BY DEF Init, SentInv
<1> QED
  BY <1>1, <1>2, <1>3, <1>4 DEF FlowIInv

\* A transaction as an authenticator's answer to a request makes it.
LEMMA AnsweredTransaction ==
    ASSUME NEW execution, NEW query_only, NEW c,
           NEW answered \in responses(c, transaction_hash(execution, query_only))
    PROVE  /\ ~ from_response_panics(assertion_response(answered))
           /\ LET t == signed_transaction(execution, query_only, c,
                                          assertion_response(answered))
              IN  /\ WellSigned(t)
                  /\ t.execution = execution /\ t.query_only = query_only /\ t.by = c
                  /\ <<<<[t.signature.authenticator_data EXCEPT !.rp_id_hash = RpIdHash],
                         t.signature.client_data_json>>,
                       true_point(c), t.signature.signature>> \in P256Signed
<1> DEFINE challenge == transaction_hash(execution, query_only)
           data == [rp_id_hash |-> RpIdHash, flags |-> {"UP", "UV"}, sign_count |-> 0]
           own == [rp_id_hash |-> ZeroHash, flags |-> {"UP", "UV"}, sign_count |-> 0]
           text(gap) == json(CliendData(challenge, Origin), gap)
           response == assertion_response(answered)
           t == signed_transaction(execution, query_only, c, response)
<1>0. PICK gap \in Gaps : \E signature \in signatures(c, data, text(gap)) :
          answered = [ok |-> TRUE, signature |-> signature_bytes(signature),
                      client_data_json |-> text(gap),
                      flags |-> data.flags, counter |-> data.sign_count]
  BY ResponseParts
<1>1. PICK signature \in signatures(c, data, text(gap)) :
          answered = [ok |-> TRUE, signature |-> signature_bytes(signature),
                      client_data_json |-> text(gap),
                      flags |-> data.flags, counter |-> data.sign_count]
  BY <1>0
<1>2. /\ signature \in Scalars \X Scalars
      /\ <<<<data_bytes(data), text(gap)>>, true_point(c), signature>> \in P256Signed
  BY SignaturesSigned
<1>3. response = [authenticator_data |-> own, client_data_json |-> text(gap),
                  signature |-> signature_bytes(signature)]
  BY <1>1 DEF assertion_response
<1>4. gap \in Gaps \union {<<>>}
  OBVIOUS
<1>5. /\ ~ from_response_panics(response)
      /\ WellSigned(t)
      /\ t.execution = execution /\ t.query_only = query_only /\ t.by = c
      /\ t.signature.authenticator_data = data_bytes(own)
      /\ t.signature.client_data_json = response.client_data_json
      /\ t.signature.signature = signature
  <2> HIDE DEF response, own
  <2> QED
    BY <1>2, <1>3, <1>4, SentAsSigned
<1>6. [data_bytes(own) EXCEPT !.rp_id_hash = RpIdHash] = data_bytes(data)
  BY DEF data_bytes
<1>7. response.client_data_json = text(gap)
  BY <1>3
<1> HIDE DEF t, response, data, own
<1>8. <<<<[t.signature.authenticator_data EXCEPT !.rp_id_hash = RpIdHash],
          t.signature.client_data_json>>,
        true_point(c), t.signature.signature>> \in P256Signed
  BY <1>2, <1>5, <1>6, <1>7
<1> QED
  BY <1>5, <1>8 DEF t, response

\* The answer of the signer in memory.
in_memory(challenge, signature) ==
    [authenticator_data |->
         [rp_id_hash |-> ZeroHash, flags |-> {"UP", "UV"}, sign_count |-> 0],
     client_data_json |-> to_json(CliendData(challenge, Origin)),
     signature |-> signature_bytes(signature)]

\* A transaction as the signer in memory makes it.
LEMMA MemoryTransaction ==
    ASSUME NEW execution, NEW query_only, NEW c \in Credentials, NEW signature,
           signature \in signatures(c,
               [rp_id_hash |-> ZeroHash, flags |-> {"UP", "UV"}, sign_count |-> 0],
               to_json(CliendData(transaction_hash(execution, query_only), Origin))),
           NEW response,
           response = in_memory(transaction_hash(execution, query_only), signature)
    PROVE  /\ ~ from_response_panics(response)
           /\ LET t == signed_transaction(execution, query_only, c, response)
              IN  WellSigned(t) /\ SignedInMemory(t)
<1> DEFINE own == [rp_id_hash |-> ZeroHash, flags |-> {"UP", "UV"}, sign_count |-> 0]
           gap == <<>>
           text == json(CliendData(transaction_hash(execution, query_only), Origin), gap)
           t == signed_transaction(execution, query_only, c, response)
<1>1. signature \in signatures(c, own, text)
  BY DEF to_json
<1>2. response = [authenticator_data |-> own, client_data_json |-> text,
                  signature |-> signature_bytes(signature)]
  BY DEF to_json, in_memory
<1>3. /\ signature \in Scalars \X Scalars
      /\ <<<<data_bytes(own), text>>, true_point(c), signature>> \in P256Signed
  <2> HIDE DEF own, text
  <2> QED
    BY <1>1, SignaturesSigned
<1>4. gap \in Gaps \union {<<>>}
  OBVIOUS
<1>5. /\ ~ from_response_panics(response)
      /\ WellSigned(t) /\ t.by = c
      /\ t.signature.authenticator_data = data_bytes(own)
      /\ t.signature.client_data_json = response.client_data_json
      /\ t.signature.signature = signature
  <2> HIDE DEF own, gap
  <2> QED
    BY <1>2, <1>3, <1>4, SentAsSigned
<1>6. response.client_data_json = text
  BY <1>2
<1> HIDE DEF t, text
<1>7. SignedInMemory(t)
  BY <1>3, <1>5, <1>6 DEF SignedInMemory
<1> QED
  BY <1>5, <1>7 DEF t

(* The contract finds the challenge it computes, so its check of a         *)
(* transaction that was sent never panics.                                 *)
LEMMA ChallengeFound ==
    ASSUME NEW t, WellSigned(t)
    PROVE  verify_challenge(t.signature.client_data_json, t.signature.challenge_offset,
                            transaction_hash(t.execution, t.query_only)) = "OK"
  BY DEF WellSigned, verify_challenge

LEMMA JudgementIsClean ==
    ASSUME NEW t, WellSigned(t)
    PROVE  verify_webauthn_signer(t.signature, transaction_hash(t.execution, t.query_only))
               \in {"VALIDATED", "INVALID_SIGNATURE"}
<1> DEFINE challenge == transaction_hash(t.execution, t.query_only)
           found == verify_challenge(t.signature.client_data_json,
                                     t.signature.challenge_offset, challenge)
           result_ == verify(webauthn_public_key, t.signature, challenge)
<1>1. found = "OK"
  BY ChallengeFound
<1>2. result_ \in {"OK", "USER_FLAGS_MISMATCH", "INVALID_SIGNATURE"}
  <2> HIDE DEF challenge
  <2> QED
    BY <1>1 DEF verify
<1>3. verify_webauthn_signer(t.signature, challenge) =
          IF webauthn_public_key \notin OnCurve THEN "INVALID_SIGNATURE"
          ELSE IF result_ = "OK" THEN "VALIDATED"
               ELSE IF result_ = "PANIC" THEN "PANIC"
               ELSE "INVALID_SIGNATURE"
  BY DEF verify_webauthn_signer
<1> HIDE DEF result_
<1> QED
  BY <1>2, <1>3

\* A request that a step leaves alone keeps its approval.
LEMMA ApprovalFrame ==
    ASSUME NEW p, ApprovedAnswer(p),
           channel'[p] = channel[p], asked'[p] = asked[p], approved'[p] = approved[p]
    PROVE  ApprovedAnswer(p)'
  BY DEF ApprovedAnswer, captured_challenge

\* Steps that leave the requests alone.
LEMMA ApprovalsFrame ==
    ASSUME Approvals, UNCHANGED <<requests, approved>>
    PROVE  Approvals'
<1>1. UNCHANGED <<asked, channel, approved>>
  BY DEF requests
<1>2. \A p \in Requests : ApprovedAnswer(p)'
  BY <1>1, ApprovalFrame DEF Approvals
<1> QED
  BY <1>1, <1>2 DEF Approvals

LEMMA SentFrame ==
    ASSUME SentInv, sent' \subseteq sent, UNCHANGED signer
    PROVE  SentInv'
  BY DEF SentInv, WellSigned, SignedInMemory, points_at_values, words_at

LEMMA SettledFrame ==
    ASSUME Settled, waiting' \subseteq waiting, UNCHANGED <<signer, credential, result, webauthn_public_key>>
    PROVE  Settled'
  BY DEF Settled

-----------------------------------------------------------------------------
LEMMA SignInMemoryKeepsFlow ==
    ASSUME FlowIInv, NEW execution \in Executions, NEW query_only \in BOOLEAN,
           SignInMemory(execution, query_only)
    PROVE  Settled' /\ Approvals' /\ SentInv'
<1> DEFINE challenge == transaction_hash(execution, query_only)
           data == [rp_id_hash |-> ZeroHash, flags |-> {"UP", "UV"}, sign_count |-> 0]
           client_data == to_json(CliendData(challenge, Origin))
<1>1. /\ signer = "p256"
      /\ UNCHANGED <<signer, credential, requests, approved, webauthn_public_key>>
  BY DEF SignInMemory
<1>2. credential \in Credentials
  BY <1>1 DEF FlowIInv, Settled
<1>3. PICK signature \in signatures(credential, data, client_data) :
          finish(execution, query_only, credential, in_memory(challenge, signature))
  BY DEF SignInMemory, in_memory
<1> DEFINE response == in_memory(challenge, signature)
           t == signed_transaction(execution, query_only, credential, response)
<1>4. ~ from_response_panics(response) /\ WellSigned(t) /\ SignedInMemory(t)
  BY <1>2, <1>3, MemoryTransaction
<1>5. result' = "OK" /\ sent' = sent \union {t}
  BY <1>3, <1>4 DEF finish
<1>6. Settled'
  BY <1>1, <1>5 DEF FlowIInv, Settled, requests
<1>7. Approvals'
  BY <1>1, ApprovalsFrame DEF FlowIInv
<1>8. SentInv'
  <2> HIDE DEF t
  <2> QED
    BY <1>1, <1>4, <1>5 DEF FlowIInv, SentInv
<1> QED
  BY <1>6, <1>7, <1>8

LEMMA AskKeepsFlow ==
    ASSUME FlowIInv, NEW q \in Requests, NEW what \in Wants, D!Ask(q, what),
           signer = "device",
           UNCHANGED <<signer, credential, approved, result, sent, webauthn_public_key>>
    PROVE  Settled' /\ Approvals' /\ SentInv'
<1>1. Settled'
  BY DEF FlowIInv, Settled
<1>2. SentInv'
  BY SentFrame DEF FlowIInv
<1>3. channel[q] = <<>> /\ UNCHANGED channel
  BY DEF FlowIInv, RequestsIInv, D!AnsweredOnce, D!Ask
<1>4. ASSUME NEW p \in Requests PROVE ApprovedAnswer(p)'
  <2>1. CASE p = q
    BY <1>3, <2>1 DEF ApprovedAnswer
  <2>2. CASE p # q
    <3>1. asked'[p] = asked[p]
      BY <2>2 DEF FlowIInv, RequestsIInv, D!TypeOK, D!Ask
    <3>2. ApprovedAnswer(p)
      BY DEF FlowIInv, Approvals
    <3> QED
      BY <1>3, <3>1, <3>2, ApprovalFrame
  <2> QED
    BY <2>1, <2>2
<1>5. Approvals'
  BY <1>4 DEF FlowIInv, Approvals
<1> QED
  BY <1>1, <1>2, <1>5

\* A task that ends: its answer, if someone waits for it, has to be the one asked for.
LEMMA AnswerKeepsApprovals ==
    ASSUME FlowIInv, NEW q \in Requests, NEW value, task[q] # "none", D!answer(q, value),
           \A p \in Requests \ {q} : approved'[p] = approved[p],
           approved' \in [Requests -> {<<>>} \union (Credentials \X hashes)],
           q \in waiting /\ value # D!Error =>
               /\ asked[q].op = "create" => value \in MakeCredentialResponses
               /\ asked[q].op = "get" =>
                     /\ approved'[q] = <<asked[q].credential, captured_challenge(q)>>
                     /\ value \in responses(asked[q].credential, captured_challenge(q))
    PROVE  Approvals'
<1>1. D!TypeOK
  BY DEF FlowIInv, RequestsIInv
<1>2. channel[q] = <<>>
  BY DEF FlowIInv, RequestsIInv, D!AnsweredOnce
<1>3. ASSUME NEW p \in Requests PROVE ApprovedAnswer(p)'
  <2>1. CASE p = q /\ q \in waiting
    <3>1. channel'[q] = <<value>> /\ asked' = asked
      BY <1>1, <2>1 DEF D!answer, D!TypeOK
    <3>2. captured_challenge(q)' = captured_challenge(q)
      BY <3>1 DEF captured_challenge
    <3>3. channel'[q] \notin {<<>>, <<D!Error>>} => value # D!Error /\ channel'[q][1] = value
      BY <3>1
    <3> QED
      BY <2>1, <3>1, <3>2, <3>3 DEF ApprovedAnswer
  <2>2. CASE p = q /\ q \notin waiting
    <3>1. channel'[q] = <<>>
      BY <1>2, <2>2 DEF D!answer
    <3> QED
      BY <2>2, <3>1 DEF ApprovedAnswer
  <2>3. CASE p # q
    <3>1. channel'[p] = channel[p] /\ asked'[p] = asked[p]
      BY <1>1, <2>3 DEF D!answer, D!TypeOK
    <3>2. ApprovedAnswer(p) /\ approved'[p] = approved[p]
      BY <2>3 DEF FlowIInv, Approvals
    <3> QED
      BY <3>1, <3>2, ApprovalFrame
  <2> QED
    BY <2>1, <2>2, <2>3
<1> QED
  BY <1>3 DEF Approvals

LEMMA BrowserKeepsFlow ==
    ASSUME FlowIInv, NEW q \in Requests, Browser(q)
    PROVE  Settled' /\ Approvals' /\ SentInv'
<1>1. UNCHANGED <<signer, credential, approved, result, sent, webauthn_public_key>>
  BY DEF Browser
<1>2. UNCHANGED waiting
  BY DEF Browser, D!Prompt, D!Refuse, D!Settle
<1>3. Settled' /\ SentInv'
  BY <1>1, <1>2, SettledFrame, SentFrame DEF FlowIInv
<1>4. approved' \in [Requests -> {<<>>} \union (Credentials \X hashes)]
  BY <1>1 DEF FlowIInv, Approvals
<1>5. CASE D!Prompt(q)
  <2>1. \A p \in Requests : ApprovedAnswer(p)'
    BY <1>1, <1>5, ApprovalFrame DEF FlowIInv, Approvals, D!Prompt
  <2> QED
    BY <1>3, <1>4, <2>1 DEF Approvals
<1>6. CASE D!Refuse(q) \/ D!Settle(q, D!Error)
  <2>1. task[q] # "none" /\ D!answer(q, D!Error)
    BY <1>6 DEF D!Refuse, D!Settle, D!prompted
  <2> QED
    BY <1>1, <1>3, <1>4, <2>1, AnswerKeepsApprovals
<1> QED
  BY <1>5, <1>6 DEF Browser

LEMMA ApproveKeepsFlow ==
    ASSUME FlowIInv, NEW q \in Requests, Approve(q)
    PROVE  Settled' /\ Approvals' /\ SentInv'
<1>1. /\ asked[q].op = "get"
      /\ UNCHANGED <<signer, credential, result, sent, webauthn_public_key>>
  BY DEF Approve
<1>2. PICK response \in responses(asked[q].credential, captured_challenge(q)) :
          D!Settle(q, response)
  BY DEF Approve
<1>3. /\ task[q] # "none" /\ D!answer(q, response) /\ UNCHANGED waiting
  BY <1>2 DEF D!Settle, D!prompted
<1>4. Settled' /\ SentInv'
  BY <1>1, <1>3, SettledFrame, SentFrame DEF FlowIInv
<1>5. <<asked[q].credential, captured_challenge(q)>> \in Credentials \X hashes
  <2>1. asked[q] \in Assertions
    BY <1>1, AsksForAssertion DEF FlowIInv, RequestsIInv
  <2> QED
    BY <2>1 DEF Assertions, captured_challenge, hashes
<1>6. /\ approved' \in [Requests -> {<<>>} \union (Credentials \X hashes)]
      /\ \A p \in Requests \ {q} : approved'[p] = approved[p]
      /\ q \in waiting => approved'[q] = <<asked[q].credential, captured_challenge(q)>>
  BY <1>5 DEF Approve, FlowIInv, Approvals
<1>7. asked[q].op # "create"
  BY <1>1
<1> QED
  BY <1>2, <1>3, <1>4, <1>6, <1>7, AnswerKeepsApprovals

LEMMA CreateKeepsFlow ==
    ASSUME FlowIInv, NEW q \in Requests, Create(q)
    PROVE  Settled' /\ Approvals' /\ SentInv'
<1>1. /\ asked[q].op = "create"
      /\ UNCHANGED <<signer, credential, approved, result, sent, webauthn_public_key>>
  BY DEF Create
<1>2. PICK response \in MakeCredentialResponses : D!Settle(q, response)
  BY DEF Create
<1>3. /\ task[q] # "none" /\ D!answer(q, response) /\ UNCHANGED waiting
  BY <1>2 DEF D!Settle, D!prompted
<1>4. Settled' /\ SentInv'
  BY <1>1, <1>3, SettledFrame, SentFrame DEF FlowIInv
<1>5. /\ approved' \in [Requests -> {<<>>} \union (Credentials \X hashes)]
      /\ \A p \in Requests \ {q} : approved'[p] = approved[p]
  BY <1>1 DEF FlowIInv, Approvals
<1>6. asked[q].op # "get"
  BY <1>1
<1> QED
  BY <1>1, <1>2, <1>3, <1>4, <1>5, <1>6, AnswerKeepsApprovals

\* A request that is over has no answer on its way.
LEMMA OverKeepsApprovals ==
    ASSUME FlowIInv, NEW q \in Requests, D!Receive(q) \/ D!GiveUp(q),
           approved' = [approved EXCEPT ![q] = <<>>]
    PROVE  Approvals'
<1>1. ASSUME NEW p \in Requests PROVE ApprovedAnswer(p)'
  <2>1. CASE p = q
    <3>1. channel'[q] = <<>>
      BY DEF FlowIInv, RequestsIInv, D!TypeOK, D!Receive, D!GiveUp
    <3> QED
      BY <2>1, <3>1 DEF ApprovedAnswer
  <2>2. CASE p # q
    <3>1. channel'[p] = channel[p] /\ asked'[p] = asked[p]
      BY <2>2 DEF FlowIInv, RequestsIInv, D!TypeOK, D!Receive, D!GiveUp
    <3>2. approved'[p] = approved[p] /\ ApprovedAnswer(p)
      BY <2>2 DEF FlowIInv, Approvals
    <3> QED
      BY <3>1, <3>2, ApprovalFrame
  <2> QED
    BY <2>1, <2>2
<1>2. approved' \in [Requests -> {<<>>} \union (Credentials \X hashes)]
  BY DEF FlowIInv, Approvals
<1> QED
  BY <1>1, <1>2 DEF Approvals

\* The last disjunct of Receive, taken for the approval of its own request.
LEMMA ReceivesOwnAnswer ==
    ASSUME FlowIInv, NEW q \in Requests, D!Receive(q),
           channel[q][1].ok, asked[q].op = "get"
    PROVE  /\ asked[q] \in Assertions
           /\ approved[q] = <<asked[q].credential, captured_challenge(q)>>
           /\ channel[q][1] \in responses(asked[q].credential, captured_challenge(q))
<1>1. asked[q] \in Assertions
  BY AsksForAssertion DEF FlowIInv, RequestsIInv
<1>2. channel[q] \notin {<<>>, <<D!Error>>}
  <2>1. D!Error.ok = FALSE
    BY DEF D!Error
  <2>2. channel[q] # <<>>
    BY DEF D!Receive
  <2> QED
    BY <2>1, <2>2
<1>3. ApprovedAnswer(q)
  BY DEF FlowIInv, Approvals
<1> QED
  BY <1>1, <1>2, <1>3 DEF ApprovedAnswer

\* What it sends.
LEMMA SendsApproved ==
    ASSUME FlowIInv, NEW q \in Requests, D!Receive(q),
           channel[q][1].ok, asked[q].op = "get",
           finish(asked[q].execution, asked[q].query_only, asked[q].credential,
                  assertion_response(channel[q][1]))
    PROVE  /\ result' = "OK"
           /\ \E t : /\ sent' = sent \union {t}
                     /\ WellSigned(t)
                     /\ approved[q] = <<t.by, transaction_hash(t.execution, t.query_only)>>
                     /\ asked[q].credential = t.by
                     /\ <<<<[t.signature.authenticator_data EXCEPT !.rp_id_hash = RpIdHash],
                            t.signature.client_data_json>>,
                          true_point(t.by), t.signature.signature>> \in P256Signed
<1> DEFINE execution == asked[q].execution
           query_only == asked[q].query_only
           c == asked[q].credential
           answered == channel[q][1]
           response == assertion_response(answered)
           t == signed_transaction(execution, query_only, c, response)
<1>1. /\ approved[q] = <<c, transaction_hash(execution, query_only)>>
      /\ answered \in responses(c, transaction_hash(execution, query_only))
  BY ReceivesOwnAnswer DEF captured_challenge
<1>2. finish(execution, query_only, c, response)
  OBVIOUS
<1> HIDE DEF execution, query_only, c, answered
<1>3. /\ ~ from_response_panics(response)
      /\ WellSigned(t)
      /\ t.execution = execution /\ t.query_only = query_only /\ t.by = c
      /\ <<<<[t.signature.authenticator_data EXCEPT !.rp_id_hash = RpIdHash],
             t.signature.client_data_json>>,
           true_point(c), t.signature.signature>> \in P256Signed
  BY <1>1, AnsweredTransaction
<1>4. result' = "OK" /\ sent' = sent \union {t}
  BY <1>2, <1>3 DEF finish
<1> HIDE DEF t
<1>5. asked[q].credential = t.by
  BY <1>3 DEF c
<1> QED
  BY <1>1, <1>3, <1>4, <1>5

LEMMA ReceiveKeepsFlow ==
    ASSUME FlowIInv, NEW q \in Requests, Receive(q)
    PROVE  Settled' /\ Approvals' /\ SentInv'
<1>1. /\ D!Receive(q)
      /\ approved' = [approved EXCEPT ![q] = <<>>]
      /\ UNCHANGED <<signer, webauthn_public_key>>
  BY DEF Receive
<1>2. Approvals'
  BY <1>1, OverKeepsApprovals
<1>3. signer = "device" /\ waiting' \subseteq waiting
  BY <1>1 DEF D!Receive, FlowIInv, Settled
<1>4. CASE /\ channel[q] = <<D!Error>>
           /\ result' = "Device error"
           /\ UNCHANGED <<credential, sent>>
  <2>1. Settled'
    BY <1>1, <1>3, <1>4 DEF FlowIInv, Settled
  <2>2. SentInv'
    BY <1>1, <1>4, SentFrame DEF FlowIInv
  <2> QED
    BY <1>2, <2>1, <2>2
<1>5. CASE /\ channel[q][1].ok /\ asked[q].op = "create"
           /\ credential' = channel[q][1].credential
           /\ result' = "OK"
           /\ UNCHANGED sent
  <2>1. channel[q] \notin {<<>>, <<D!Error>>}
    <3>1. D!Error.ok = FALSE /\ channel[q] # <<>>
      BY <1>1 DEF D!Error, D!Receive
    <3> QED
      BY <1>5, <3>1
  <2>2. channel[q][1] \in MakeCredentialResponses
    BY <1>5, <2>1 DEF FlowIInv, Approvals, ApprovedAnswer
  <2>3. credential' \in Credentials
    BY <1>5, <2>2 DEF MakeCredentialResponses
  <2>4. Settled'
    BY <1>1, <1>3, <1>5, <2>3 DEF FlowIInv, Settled
  <2>5. SentInv'
    BY <1>1, <1>5, SentFrame DEF FlowIInv
  <2> QED
    BY <1>2, <2>4, <2>5
<1>6. CASE /\ channel[q][1].ok /\ asked[q].op = "get"
           /\ finish(asked[q].execution, asked[q].query_only, asked[q].credential,
                     assertion_response(channel[q][1]))
           /\ UNCHANGED credential
  <2>1. result' = "OK" /\ \E t : sent' = sent \union {t} /\ WellSigned(t)
    BY <1>1, <1>6, SendsApproved
  <2>2. Settled'
    BY <1>1, <1>3, <1>6, <2>1 DEF FlowIInv, Settled
  <2>3. SentInv'
    BY <1>1, <1>3, <2>1 DEF FlowIInv, SentInv
  <2> QED
    BY <1>2, <2>2, <2>3
<1> QED
  BY <1>4, <1>5, <1>6 DEF Receive

LEMMA GiveUpKeepsFlow ==
    ASSUME FlowIInv, NEW q \in Requests, GiveUp(q)
    PROVE  Settled' /\ Approvals' /\ SentInv'
<1>1. /\ D!GiveUp(q)
      /\ approved' = [approved EXCEPT ![q] = <<>>]
      /\ UNCHANGED <<signer, credential, result, sent, webauthn_public_key>>
  BY DEF GiveUp
<1>2. waiting' \subseteq waiting
  BY <1>1 DEF D!GiveUp
<1> QED
  BY <1>1, <1>2, OverKeepsApprovals, SettledFrame, SentFrame DEF FlowIInv

LEMMA SetKeyKeepsFlow ==
    ASSUME FlowIInv, NEW c \in Credentials, SetKey(c)
    PROVE  Settled' /\ Approvals' /\ SentInv'
<1>1. /\ webauthn_public_key' = key_point(c)
      /\ UNCHANGED <<signer, credential, requests, approved, result, sent>>
  BY DEF SetKey
<1>2. Settled'
  BY <1>1 DEF FlowIInv, Settled, requests
<1> QED
  BY <1>1, <1>2, ApprovalsFrame, SentFrame DEF FlowIInv

LEMMA JudgeKeepsFlow ==
    ASSUME FlowIInv, NEW t \in sent, Judge(t)
    PROVE  Settled' /\ Approvals' /\ SentInv'
<1>1. /\ result' = verify_webauthn_signer(t.signature,
                                          transaction_hash(t.execution, t.query_only))
      /\ sent' \subseteq sent
      /\ UNCHANGED <<signer, credential, requests, approved, webauthn_public_key>>
  BY DEF Judge
<1>2. WellSigned(t)
  BY DEF FlowIInv, SentInv
<1>3. result' \in {"VALIDATED", "INVALID_SIGNATURE"}
  BY <1>1, <1>2, JudgementIsClean
<1>4. Settled'
  BY <1>1, <1>3 DEF FlowIInv, Settled, requests
<1> QED
  BY <1>1, <1>4, ApprovalsFrame, SentFrame DEF FlowIInv

LEMMA NextKeepsFlow ==
    ASSUME FlowIInv, [Next]_vars
    PROVE  FlowIInv'
<1>1. RequestsIInv'
  BY NextRefines, NextKeepsRequests DEF FlowIInv, RequestsIInv
<1>2. ASSUME NEW execution \in Executions, NEW query_only \in BOOLEAN,
             SignInMemory(execution, query_only)
      PROVE  FlowIInv'
  BY <1>1, <1>2, SignInMemoryKeepsFlow DEF FlowIInv
<1>3. ASSUME NEW q \in Requests, NEW what \in Assertions, get_assertion(q, what)
      PROVE  FlowIInv'
  BY <1>1, <1>3, AskKeepsFlow DEF FlowIInv, get_assertion, Wants
<1>4. ASSUME NEW q \in Requests, create_credential(q)
      PROVE  FlowIInv'
  BY <1>1, <1>4, AskKeepsFlow DEF FlowIInv, create_credential, Wants
<1>5. ASSUME NEW q \in Requests, Browser(q)
      PROVE  FlowIInv'
  BY <1>1, <1>5, BrowserKeepsFlow DEF FlowIInv
<1>6. ASSUME NEW q \in Requests, Approve(q)
      PROVE  FlowIInv'
  BY <1>1, <1>6, ApproveKeepsFlow DEF FlowIInv
<1>7. ASSUME NEW q \in Requests, Create(q)
      PROVE  FlowIInv'
  BY <1>1, <1>7, CreateKeepsFlow DEF FlowIInv
<1>8. ASSUME NEW q \in Requests, Receive(q)
      PROVE  FlowIInv'
  BY <1>1, <1>8, ReceiveKeepsFlow DEF FlowIInv
<1>9. ASSUME NEW q \in Requests, GiveUp(q)
      PROVE  FlowIInv'
  BY <1>1, <1>9, GiveUpKeepsFlow DEF FlowIInv
<1>10. ASSUME NEW c \in Credentials, SetKey(c)
       PROVE  FlowIInv'
  BY <1>1, <1>10, SetKeyKeepsFlow DEF FlowIInv
<1>11. ASSUME NEW t \in sent, Judge(t)
       PROVE  FlowIInv'
  BY <1>1, <1>11, JudgeKeepsFlow DEF FlowIInv
<1>12. CASE UNCHANGED vars
  <2>1. /\ UNCHANGED <<requests, approved>> /\ UNCHANGED <<signer, sent>>
        /\ UNCHANGED <<signer, credential, result, webauthn_public_key>>
        /\ waiting' = waiting
    BY <1>12 DEF vars, requests
  <2>2. Settled' /\ Approvals' /\ SentInv'
    BY <2>1, SettledFrame, ApprovalsFrame, SentFrame DEF FlowIInv
  <2> QED
    BY <1>1, <2>2 DEF FlowIInv
<1> QED
  BY <1>2, <1>3, <1>4, <1>5, <1>6, <1>7, <1>8, <1>9, <1>10, <1>11, <1>12 DEF Next

(* The invariant of the whole flow.                                        *)
LEMMA FlowInvariance == Spec => []FlowIInv
<1>1. Init => FlowIInv
  BY InitFlow
<1>2. FlowIInv /\ [Next]_vars => FlowIInv'
  BY NextKeepsFlow
<1> QED
  BY <1>1, <1>2, PTL DEF Spec

-----------------------------------------------------------------------------
(* Type correctness: whatever is asked, approved, refused and sent, no     *)
(* answer makes from_response panic and no judgement makes the contract    *)
(* panic (finish, verify_webauthn_signer).                                 *)
THEOREM FlowTypeCorrect == Spec => []TypeOK
<1>1. FlowIInv => TypeOK
  BY DEF FlowIInv, RequestsIInv, Settled, Approvals, TypeOK
<1> QED
  BY <1>1, FlowInvariance, PTL

(* The offsets sent point at the type, at the challenge of the transaction *)
(* and at the origin, whatever the white space of the client data and      *)
(* whatever words name the relying party (find_value_index).               *)
THEOREM OffsetsAtValues == Spec => []OffsetsPointAtValues
<1>1. FlowIInv => OffsetsPointAtValues
  BY DEF FlowIInv, SentInv, WellSigned, OffsetsPointAtValues
<1> QED
  BY <1>1, FlowInvariance, PTL

(* What a request sends is what its own user approved, signed with the     *)
(* credential it was made with, however many requests overlap              *)
(* (get_assertion's captures and its channel).                             *)
THEOREM SendsOwnAnswer == Spec => OwnAnswer
<1> DEFINE Own ==
        signer = "device" => \A t \in sent' \ sent : \E q \in waiting \ waiting' :
          /\ approved[q] = <<t.by, transaction_hash(t.execution, t.query_only)>>
          /\ asked[q].credential = t.by
          /\ <<<<[t.signature.authenticator_data EXCEPT !.rp_id_hash = RpIdHash],
                 t.signature.client_data_json>>,
               true_point(t.by), t.signature.signature>> \in P256Signed
<1>1. FlowIInv /\ [Next]_vars => [Own]_vars
  <2> SUFFICES ASSUME FlowIInv, [Next]_vars, signer = "device"
               PROVE  Own
    OBVIOUS
  <2>1. ASSUME NEW q \in Requests, Receive(q), sent' # sent
        PROVE  Own
    <3>1. /\ D!Receive(q)
          /\ channel[q][1].ok /\ asked[q].op = "get"
          /\ finish(asked[q].execution, asked[q].query_only, asked[q].credential,
                    assertion_response(channel[q][1]))
      BY <2>1 DEF Receive
    <3>2. q \in waiting \ waiting'
      BY <3>1 DEF D!Receive
    <3> QED
      BY <3>1, <3>2, SendsApproved
  <2>2. CASE sent' \subseteq sent
    BY <2>2
  <2>3. CASE ~ (sent' \subseteq sent)
    <3>1. PICK q \in Requests : Receive(q)
      BY <2>3 DEF Next, vars, SignInMemory, get_assertion, create_credential, Browser,
                  Approve, Create, GiveUp, SetKey, Judge
    <3> QED
      BY <2>1, <2>3, <3>1
  <2> QED
    BY <2>2, <2>3
<1> QED
  BY <1>1, FlowInvariance, PTL DEF Spec, OwnAnswer

\* The contract accepts what was signed in memory, while it has the signer's key.
LEMMA MemoryAccepted ==
    ASSUME NEW t, WellSigned(t), SignedInMemory(t), webauthn_public_key = key_point(t.by)
    PROVE  verify_webauthn_signer(t.signature, transaction_hash(t.execution, t.query_only))
               = "VALIDATED"
<1> DEFINE challenge == transaction_hash(t.execution, t.query_only)
<1>1. webauthn_public_key \in OnCurve /\ webauthn_public_key = true_point(t.by)
  BY KeyPoint DEF SignedInMemory
<1>2. verify_challenge(t.signature.client_data_json, t.signature.challenge_offset,
                       challenge) = "OK"
  BY ChallengeFound
<1>3. t.signature.authenticator_data.len = 37 /\
      t.signature.authenticator_data.flags = {"UP", "UV"}
  BY DEF SignedInMemory, data_bytes
<1>4. /\ well_formed(t.signature.authenticator_data)
      /\ verify_user_flags(t.signature.authenticator_data)
  BY <1>3 DEF well_formed, verify_user_flags
<1>5. verify_ecdsa(webauthn_public_key,
                   <<t.signature.authenticator_data, t.signature.client_data_json>>,
                   t.signature.signature) = "OK"
  BY <1>1 DEF SignedInMemory, verify_ecdsa, curve_equation
<1> HIDE DEF challenge
<1>6. verify(webauthn_public_key, t.signature, challenge) = "OK"
  BY <1>2, <1>4, <1>5 DEF verify
<1> QED
  BY <1>1, <1>6 DEF verify_webauthn_signer, challenge

(* What the signer in memory signs is accepted while the contract has its  *)
(* key: for every key on the curve, relying party, execution and signature *)
(* of it, both sides agree on the bytes, the halves and the offsets        *)
(* (P256r1Signer::sign and from_response against verify).                  *)
THEOREM SignedInMemoryAccepted == Spec => SignedIsAccepted
<1> DEFINE Accepted ==
        signer = "p256" =>
          \A t \in sent \ sent' :
             webauthn_public_key = key_point(t.by) => result' = "VALIDATED"
<1>1. FlowIInv /\ [Next]_vars => [Accepted]_vars
  <2> SUFFICES ASSUME FlowIInv, [Next]_vars, signer = "p256",
                      NEW t \in sent \ sent', webauthn_public_key = key_point(t.by)
               PROVE  result' = "VALIDATED"
    OBVIOUS
  <2>1. PICK u \in sent : Judge(u)
    BY DEF Next, vars, SignInMemory, get_assertion, create_credential, Browser,
           Approve, Create, Receive, finish, GiveUp, SetKey
  <2>2. t = u
    BY <2>1 DEF Judge
  <2>3. WellSigned(t) /\ SignedInMemory(t)
    BY DEF FlowIInv, SentInv
  <2> QED
    BY <2>1, <2>2, <2>3, MemoryAccepted DEF Judge
<1> QED
  BY <1>1, FlowInvariance, PTL DEF Spec, SignedIsAccepted
=============================================================================
