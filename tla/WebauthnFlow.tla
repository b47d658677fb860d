---------------------------- MODULE WebauthnFlow ----------------------------
(***************************************************************************)
(* A transaction signed with an authenticator, end to end: the             *)
(* WebauthnAccount that asks for a signature (webauthn_signer/account.rs), *)
(* its signer -- a key in memory (signers/p256r1.rs) or the browser's      *)
(* credentials (signers/device.rs) -- and the contract that judges the     *)
(* answer.  Requests to the browser overlap: each runs in a spawned task   *)
(* that answers over a one-shot channel, while the caller may give up.     *)
(***************************************************************************)
EXTENDS WebauthnComponent, Assertion

CONSTANTS
    Requests,      \* calls of sign and register under way at a time
    Executions,    \* the transactions to sign
    Credentials,   \* the key pairs that there may be
    NoCredential,
    PublicKey,     \* of a credential: the bytes of its two coordinates
    RpIdHash,      \* sha256 of the relying party, as the authenticator has it
    ZeroHash,      \* [0; 32]
    Origin,        \* the relying party, as client data carries it
    Gaps,          \* the white space a browser may leave in client data
    MaxSent        \* bound on the signed transactions under way

ASSUME FlowConstants ==
    /\ NoCredential \notin Credentials
    /\ MaxSent \in Nat

VARIABLES
    signer,      \* the Signer of the account: "p256" or "device"
    credential,  \* what the signer signs with
    asked, task, waiting, channel,  \* the requests to the browser: DeviceRequests
    approved,    \* of a request: the credential and challenge its user has approved
    result,      \* what the last call of the SDK, or the last judgement, gave
    sent         \* the signed transactions under way

requests == <<asked, task, waiting, channel>>
vars == <<signer, credential, requests, approved, result, sent, webauthn_public_key>>

-----------------------------------------------------------------------------
\* RawExecution::transaction_hash: a query is hashed under another version.
transaction_hash(execution, query_only) == <<"transaction", execution, query_only>>

key_point(c) ==
    LET felts == pub_key_to_felts(PublicKey[c])
    IN  <<AbiU256(felts[1]), AbiU256(felts[2])>>

\* The bytes of a scalar, most significant first.
scalar_bytes(n) == [i \in 1 .. 2 * HalfLen |-> (n \div power(Base, 2 * HalfLen - i)) % Base]

signature_bytes(signature) == scalar_bytes(signature[1]) \o scalar_bytes(signature[2])

\* The key's true coordinates: the integers that its bytes are.
true_point(c) == <<from_bytes_be(PublicKey[c][1]), from_bytes_be(PublicKey[c][2])>>

\* A coordinate and a scalar fill an integer of the contract, and no more; a key
\* is a point of the curve.
Coordinates == [1 .. 2 * HalfLen -> 0 .. Base - 1]

ASSUME KeyConstants ==
    /\ PublicKey \in [Credentials -> Coordinates \X Coordinates]
    /\ \A c \in Credentials : true_point(c) \in OnCurve
    /\ Scalars \subseteq 0 .. power(Base, 2 * HalfLen) - 1
    /\ \A signed \in P256Signed :
          /\ signed = <<signed[1], signed[2], signed[3]>>
          /\ signed[3] \in Scalars \X Scalars

\* White space is white space, and the relying party is some words.
ASSUME TextConstants ==
    /\ Gaps \subseteq Seq({Space})
    /\ Origin \in Seq({Origin[i] : i \in DOMAIN Origin})

\* The signatures the holder of a credential makes over authenticator data and
\* client data.
signatures(c, authenticator_data, client_data_json) ==
    {signed[3] : signed \in
        {s \in P256Signed : /\ s[1] = <<data_bytes(authenticator_data), client_data_json>>
                            /\ s[2] = true_point(c)}}

\* sign_execution, once the signer has answered.
signed_transaction(execution, query_only, c, response) ==
    LET args == from_response(<<Name("starknet")>>, response)
    IN  [execution |-> execution, query_only |-> query_only, by |-> c,
         signature |->
            [type_offset |-> args.type_offset,
             challenge_offset |-> args.challenge_offset,
             origin_offset |-> args.origin_offset,
             client_data_json |-> args.client_data_json,
             origin |-> args.origin,
             authenticator_data |-> args.authenticator_data,
             signature |-> <<AbiU256(args.r), AbiU256(args.s)>>]]

finish(execution, query_only, c, response) ==
    IF from_response_panics(response)
    THEN result' = "PANIC" /\ UNCHANGED sent
    ELSE /\ result' = "OK"
         /\ sent' = sent \union {signed_transaction(execution, query_only, c, response)}

-----------------------------------------------------------------------------
Assertions ==
    [op : {"get"}, credential : Credentials, execution : Executions, query_only : BOOLEAN]

\* GetAssertionResponse: what an authenticator, once the user approves, signs over
\* the hash of the relying party.  Its signature is taken to be r and s end to end,
\* which is how from_response cuts it; one in another encoding is not modelled.
responses(c, challenge) ==
    LET data == [rp_id_hash |-> RpIdHash, flags |-> {"UP", "UV"}, sign_count |-> 0]
    IN  UNION {LET client_data == json(CliendData(challenge, Origin), gap)
               IN  {[ok |-> TRUE, signature |-> signature_bytes(signature),
                     client_data_json |-> client_data,
                     flags |-> data.flags, counter |-> data.sign_count] :
                        signature \in signatures(c, data, client_data)} : gap \in Gaps}

MakeCredentialResponses == [ok : {TRUE}, credential : Credentials]

Wants == Assertions \union {[op |-> "create"]}

Answers ==
    MakeCredentialResponses \union
        UNION {responses(a.credential, transaction_hash(a.execution, a.query_only)) :
                   a \in Assertions}

D == INSTANCE DeviceRequests

Init ==
    /\ \/ signer = "p256" /\ credential \in Credentials
       \/ signer = "device" /\ credential = NoCredential
    /\ D!Init
    /\ approved = [q \in Requests |-> <<>>]
    /\ result = "none" /\ sent = {}
    /\ webauthn_public_key = NoPoint

\* P256r1Signer::sign never waits: it plays authenticator and user at once.
SignInMemory(execution, query_only) ==
    /\ signer = "p256" /\ Cardinality(sent) < MaxSent
    /\ LET challenge == transaction_hash(execution, query_only)
           data == [rp_id_hash |-> ZeroHash, flags |-> {"UP", "UV"}, sign_count |-> 0]
           client_data == to_json(CliendData(challenge, Origin))
       IN  \E signature \in signatures(credential, data, client_data) :
               finish(execution, query_only, credential,
                      [authenticator_data |-> data, client_data_json |-> client_data,
                       signature |-> signature_bytes(signature)])
    /\ UNCHANGED <<signer, credential, requests, approved, webauthn_public_key>>

get_assertion(q, what) ==
    /\ signer = "device" /\ what.credential = credential
    /\ D!Ask(q, what)
    /\ UNCHANGED <<signer, credential, approved, result, sent, webauthn_public_key>>

create_credential(q) ==
    /\ signer = "device"
    /\ D!Ask(q, [op |-> "create"])
    /\ UNCHANGED <<signer, credential, approved, result, sent, webauthn_public_key>>

\* MUTANT: the challenge is kept on the signer, where a later request replaces it.
captured_by_signer(q) ==
    LET others == {p \in waiting \ {q} : asked[p].op = "get"}
        last == IF others = {} THEN q ELSE CHOOSE p \in others : TRUE
    IN  transaction_hash(asked[last].execution, asked[last].query_only)

\* The challenge moved into the task.
captured_challenge(q) == transaction_hash(asked[q].execution, asked[q].query_only)

\* What the browser does without an answer: prompt, refuse, be cancelled.
Browser(q) ==
    /\ D!Prompt(q) \/ D!Refuse(q) \/ D!Settle(q, D!Error)
    /\ UNCHANGED <<signer, credential, approved, result, sent, webauthn_public_key>>

\* The user approves.
Approve(q) ==
    /\ asked[q].op = "get"
    /\ \E response \in responses(asked[q].credential, captured_challenge(q)) :
          D!Settle(q, response)
    /\ approved' = IF q \in waiting
                   THEN [approved EXCEPT ![q] = <<asked[q].credential, captured_challenge(q)>>]
                   ELSE approved
    /\ UNCHANGED <<signer, credential, result, sent, webauthn_public_key>>

Create(q) ==
    /\ asked[q].op = "create"
    /\ \E response \in MakeCredentialResponses : D!Settle(q, response)
    /\ UNCHANGED <<signer, credential, approved, result, sent, webauthn_public_key>>

\* DeviceSigner::sign puts the authenticator data together again.
assertion_response(answered) ==
    [authenticator_data |-> [rp_id_hash |-> ZeroHash, flags |-> answered.flags,
                             sign_count |-> answered.counter],
     client_data_json |-> answered.client_data_json,
     signature |-> answered.signature]

\* The caller goes on: with an error, with a new signer (register), or with the
\* rest of sign_execution.
Receive(q) ==
    /\ D!Receive(q)
    /\ \/ /\ channel[q] = <<D!Error>>
          /\ result' = "Device error"
          /\ UNCHANGED <<credential, sent>>
       \/ /\ channel[q][1].ok /\ asked[q].op = "create"
          /\ credential' = channel[q][1].credential
          /\ result' = "OK"
          /\ UNCHANGED sent
       \/ /\ channel[q][1].ok /\ asked[q].op = "get"
          /\ Cardinality(sent) < MaxSent
          /\ finish(asked[q].execution, asked[q].query_only, asked[q].credential,
                    assertion_response(channel[q][1]))
          /\ UNCHANGED credential
    /\ approved' = [approved EXCEPT ![q] = <<>>]
    /\ UNCHANGED <<signer, webauthn_public_key>>

GiveUp(q) ==
    /\ D!GiveUp(q)
    /\ approved' = [approved EXCEPT ![q] = <<>>]
    /\ UNCHANGED <<signer, credential, result, sent, webauthn_public_key>>

\* set_webauthn_pub_key, sent by the owner with the coordinates of a credential.
SetKey(c) ==
    /\ webauthn_public_key' = key_point(c)
    /\ UNCHANGED <<signer, credential, requests, approved, result, sent>>

Judge(t) ==
    /\ result' = verify_webauthn_signer(t.signature,
                                         transaction_hash(t.execution, t.query_only))
    /\ sent' = sent \ {t}
    /\ UNCHANGED <<signer, credential, requests, approved, webauthn_public_key>>

Next ==
    \/ \E execution \in Executions, query_only \in BOOLEAN :
          SignInMemory(execution, query_only)
    \/ \E q \in Requests :
          \/ \E what \in Assertions : get_assertion(q, what)
          \/ create_credential(q) \/ Browser(q) \/ Approve(q) \/ Create(q)
          \/ Receive(q) \/ GiveUp(q)
    \/ \E c \in Credentials : SetKey(c)
    \/ \E t \in sent : Judge(t)

\* The fairness of the requests: see DeviceRequests.
Spec == Init /\ [][Next]_vars /\ D!Fairness

-----------------------------------------------------------------------------
\* What there is to approve.
hashes == {transaction_hash(e, b) : e \in Executions, b \in BOOLEAN}

(* Type correctness; in particular no response makes from_response panic.  *)
TypeOK ==
    /\ signer \in {"p256", "device"}
    /\ credential \in Credentials \union {NoCredential}
    /\ D!TypeOK
    /\ approved \in [Requests -> {<<>>} \union (Credentials \X hashes)]
    /\ result \in {"none", "OK", "Device error", "VALIDATED", "INVALID_SIGNATURE"}
    /\ webauthn_public_key \in {NoPoint} \union {key_point(c) : c \in Credentials}

(* DeviceRequests keeps its promises here, where a request is made with    *)
(* the signer's credential of the moment and its answer lets the caller go *)
(* on: a request is answered once and by its own task, and every call of   *)
(* sign or register comes to an end.                                       *)
AnsweredOnce == D!AnsweredOnce
RequestsEnd == D!RequestsEnd

\* The words of a text from a position on.
words_at(text, position, words) ==
    SubSeq(text, position, position + Len(words) - 1) = words

\* A transaction's offsets point at the values of its client data.
points_at_values(t) ==
    LET text == t.signature.client_data_json
    IN  /\ words_at(text, t.signature.type_offset, <<Name("webauthn.get")>>)
        /\ words_at(text, t.signature.challenge_offset,
                    <<transaction_hash(t.execution, t.query_only)>>)
        /\ words_at(text, t.signature.origin_offset, Origin)

(* Whatever white space client data have, and with a relying party whose   *)
(* name holds a colon, the offsets sent point at the type, at the          *)
(* challenge of this very transaction and at the origin                    *)
(* (find_value_index).                                                     *)
OffsetsPointAtValues == \A t \in sent : points_at_values(t)

(* What a request sends is its own answer: the user has approved this very *)
(* transaction, in the prompt of this request, with the credential the     *)
(* signer had when the request was made, and the authenticator signed it   *)
(* -- however many requests overlap, are refused or given up               *)
(* (get_assertion's task, its captures and its channel).                   *)
OwnAnswer ==
    [][signer = "device" => \A t \in sent' \ sent : \E q \in waiting \ waiting' :
          /\ approved[q] = <<t.by, transaction_hash(t.execution, t.query_only)>>
          /\ asked[q].credential = t.by
          /\ <<<<[t.signature.authenticator_data EXCEPT !.rp_id_hash = RpIdHash],
                 t.signature.client_data_json>>,
               true_point(t.by), t.signature.signature>> \in P256Signed]_vars

(* A transaction signed in memory is accepted whenever it arrives, while   *)
(* the contract has the signer's key: both sides agree on the bytes that   *)
(* are signed, on the halves of the integers and on the offset of the      *)
(* challenge (P256r1Signer::sign and from_response against verify).        *)
SignedIsAccepted ==
    [][signer = "p256" =>
          \A t \in sent \ sent' :
             webauthn_public_key = key_point(t.by) => result' = "VALIDATED"]_vars

(* The authenticator data sent with an assertion begin with the hash of    *)
(* the relying party, as the contract's account of the format says.        *)
CarriesRpIdHash ==
    signer = "device" =>
        \A t \in sent : t.signature.authenticator_data.rp_id_hash = RpIdHash
=============================================================================
