----------------------------- MODULE SessionFlow -----------------------------
(***************************************************************************)
(* A session end to end: the Session object of the SDK                     *)
(* (account_sdk/src/session_token/session.rs), the SessionAccount that     *)
(* signs with it (account.rs), and the contract that judges what they      *)
(* sign.  Between signing and judging, the application may give its        *)
(* session another policy or token, the owner may be replaced, the token   *)
(* revoked, and time may pass.                                             *)
(***************************************************************************)
EXTENDS SessionComponent, FiniteSets, Powers

CONSTANTS
    Policies,     \* the arguments of set_policy considered
    Bundles,      \* the calls of a transaction to sign
    Tokens,       \* the arguments of set_token, good and bad
    Revocations,  \* the arguments of revoke_session
    Owners,       \* the keys the account may have
    SessionKey,   \* Session.session_key
    Expires,      \* Session.expires
    MaxTime,      \* bound on the block timestamp
    MaxSent       \* bound on the transactions under way

ASSUME FlowConstants ==
    /\ Tokens \union Revocations \subseteq Felts \X Felts /\ NoFelt \in Felts
    /\ \A list \in Bundles \union Policies :
          list \in Seq({list[i] : i \in DOMAIN list})
    /\ \A signed \in EcdsaSigned :
          signed = <<signed[1], signed[2], signed[3], signed[4]>>
    /\ Expires \in Nat /\ MaxTime \in Nat /\ MaxSent \in Nat

VARIABLES
    calls,          \* Session.calls: the permitted calls, each with its proof
    root,           \* Session.root
    session_token,  \* Session.session_token
    result,         \* what the last call of the SDK, or the last judgement, gave
    sent,           \* the signed transactions under way
    public_key,     \* the account's key
    now,            \* the block timestamp
    ran             \* the last transaction accepted; its bit tells two in a row apart

client == <<calls, root, session_token>>
chain == <<public_key, revoked, now>>
vars == <<client, result, sent, chain, ran>>

-----------------------------------------------------------------------------
NoRoot == [leaves |-> {}, height |-> 0]    \* FieldElement::ZERO

\* A tree over n leaves is as high as its proofs are long (module Merkle).
height(n) ==
    CHOOSE h \in 0 .. n : n <= power(2, h) /\ (h > 0 => power(2, h - 1) < n)

\* The SDK's own compute_call_hash.
call_hash(call) == <<call.to, call.selector>>

policy_root(policy) ==
    [leaves |-> {call_hash(policy[i]) : i \in DOMAIN policy},
     height |-> height(Len(policy))]

with_proofs(policy) ==
    [i \in DOMAIN policy |->
        [call |-> policy[i],
         proof |-> merkle_proof(policy_root(policy), call_hash(policy[i]))]]

\* The SDK's own compute_session_hash, for this account.
session_hash(signature) ==
    <<"session", signature.session_key, signature.session_expires, signature.root, Self>>

partial_signature(policy) ==
    [session_key |-> SessionKey, session_expires |-> Expires, root |-> policy_root(policy)]

tx_hash(bundle) == <<"transaction", Self, bundle>>

same_call(c, call) == c.to = call.to /\ c.selector = call.selector

permitted(call) == \E i \in DOMAIN calls : same_call(calls[i].call, call)

\* call_proof: the first of the permitted calls that matches; calldata does not count.
call_proof(call) ==
    LET first == CHOOSE i \in DOMAIN calls :
                     /\ same_call(calls[i].call, call)
                     /\ \A j \in 1 .. i - 1 : ~ same_call(calls[j].call, call)
    IN  calls[first].proof

\* The proofs of a bundle, laid end to end.
flatten(bundle) ==
    LET upto[i \in 0 .. Len(bundle)] ==
            IF i = 0 THEN <<>> ELSE upto[i - 1] \o call_proof(bundle[i])
    IN  upto[Len(bundle)]

\* Session::signature with the r and s of the transaction's signature.
session_signature(bundle, r, s) ==
    [type |-> "session", r |-> r, s |-> s, session_key |-> SessionKey,
     session_expires |-> Expires, root |-> root,
     proofs |-> [single_proof_len |-> Len(flatten(bundle)) \div Len(bundle),
                 proofs_flat |-> flatten(bundle)],
     session_token |-> session_token]

-----------------------------------------------------------------------------
Init ==
    /\ calls = <<>> /\ root = NoRoot /\ session_token = <<>>
    /\ result = "NONE"
    /\ sent = {}
    /\ public_key \in Owners
    /\ revoked = [r \in Felts |-> NoFelt]
    /\ now = 0
    /\ ran = [calls |-> <<>>, permit |-> "none", bit |-> 0]

\* A new policy leaves the old token in place; its hash is for the owner to sign.
set_policy(policy) ==
    /\ \/ /\ policy = <<>>
          /\ result' = "NoCallsPermited"
          /\ UNCHANGED <<calls, root>>
       \/ /\ policy # <<>>
          /\ calls' = with_proofs(policy)
          /\ root' = policy_root(policy)
          /\ result' = session_hash(partial_signature(policy))
    /\ UNCHANGED <<session_token, sent, chain, ran>>

\* MUTANT: the new token is added behind the old one.
token_vec_pushed(token) == session_token \o token

token_vec(token) == token

\* The application stores whatever it takes for the owner's grant.
set_token(token) ==
    /\ session_token' = token_vec(token)
    /\ UNCHANGED <<calls, root, result, sent, chain, ran>>

\* sign_execution: the session key signs the hash, which its signer may fail to
\* do (SignError::Signer); then the proofs are collected.
\* An empty token and, when the token is there, an empty bundle panic.
sign_execution(bundle) ==
    /\ \/ result' = "Signer" /\ UNCHANGED sent
       \/ /\ \E i \in DOMAIN bundle : ~ permitted(bundle[i])
          /\ result' = "CallNotInPolicy"
          /\ UNCHANGED sent
       \/ /\ \A i \in DOMAIN bundle : permitted(bundle[i])
          /\ session_token = <<>> \/ bundle = <<>>
          /\ result' = "PANIC"
          /\ UNCHANGED sent
       \/ /\ \A i \in DOMAIN bundle : permitted(bundle[i])
          /\ session_token # <<>> /\ bundle # <<>>
          /\ Cardinality(sent) < MaxSent
          /\ \E signed \in EcdsaSigned :
                /\ signed[1] = tx_hash(bundle) /\ signed[2] = SessionKey
                /\ sent' = sent \union
                      {[calls |-> bundle,
                        signature |-> session_signature(bundle, signed[3], signed[4])]}
          /\ result' = "OK"
    /\ UNCHANGED <<client, chain, ran>>

\* The permit that a transaction's token stands for.
Permit(grant) ==
    [owner |-> grant[2], token |-> <<grant[3], grant[4]>>,
     calls |-> grant[1][4].leaves, expires |-> grant[1][3]]

Grants ==
    {signed \in EcdsaSigned : signed[1][1] = "session" /\ signed[1][2] = SessionKey}

\* A signature that verifies has no half that is zero.
ASSUME GrantConstants ==
    \A grant \in Grants : grant[3] \in Felts /\ grant[4] \in Felts \ {NoFelt}

granted(t, grant) ==
    /\ grant[1] = compute_session_hash(t.signature, Self)
    /\ <<grant[3], grant[4]>> = t.signature.session_token

\* The sequencer asks the account to validate one of the transactions, whichever
\* reaches it first.  What its calls then do to the account are the steps below.
Judge(t) ==
    /\ LET verdict == validate_signature(public_key, t.signature, t.calls,
                                         tx_hash(t.calls), now)
       IN  /\ result' = verdict
           /\ \/ /\ verdict = "VALIDATED"
                 /\ \E grant \in Grants :
                       /\ granted(t, grant) /\ grant[2] = public_key
                       /\ ran' = [calls |-> t.calls, permit |-> Permit(grant),
                                  bit |-> 1 - ran.bit]
              \/ verdict # "VALIDATED" /\ UNCHANGED ran
    /\ sent' = sent \ {t}
    /\ UNCHANGED <<client, chain>>

\* set_public_key, in a transaction the owner signed.
Rotate(owner) ==
    /\ public_key' = owner
    /\ UNCHANGED <<client, result, sent, revoked, now, ran>>

\* revoke_session, by whoever calls it.
Revoke(token) ==
    /\ revoked' = revoke_session(token)
    /\ UNCHANGED <<client, result, sent, public_key, now, ran>>

Tick ==
    /\ now < MaxTime
    /\ now' = now + 1
    /\ UNCHANGED <<client, result, sent, public_key, revoked, ran>>

Next ==
    \/ \E policy \in Policies : set_policy(policy)
    \/ \E token \in Tokens : set_token(token)
    \/ \E bundle \in Bundles : sign_execution(bundle)
    \/ \E t \in sent : Judge(t)
    \/ \E owner \in Owners : Rotate(owner)
    \/ \E token \in Revocations : Revoke(token)
    \/ Tick

Spec == Init /\ [][Next]_vars

-----------------------------------------------------------------------------
(* Type correctness.                                                       *)
TypeOK ==
    /\ root \in {NoRoot} \union {policy_root(policy) : policy \in Policies \ {<<>>}}
    /\ calls = <<>> \/ \E policy \in Policies : calls = with_proofs(policy)
    /\ session_token \in Tokens \union {<<>>}
    /\ \A t \in sent : t.calls \in Bundles /\ t.signature.session_token \in Tokens
    /\ public_key \in Owners
    /\ revoked \in [Felts -> Felts]
    /\ now \in 0 .. MaxTime
    /\ ran.bit \in {0, 1}

\* The owner of the moment has granted the token the transaction carries, by
\* signing the hash that set_policy returned for the policy it was signed under,
\* and the grant still holds.
Holds(t) ==
    \E grant \in Grants :
        /\ grant[1] = session_hash(t.signature) /\ grant[2] = public_key
        /\ <<grant[3], grant[4]>> = t.signature.session_token
        /\ now < Expires
        /\ ~ token_revoked(t.signature.session_token)

(* What the SDK signs without an error, the contract accepts, whenever it  *)
(* arrives, as long as the session holds: the two agree on hashes, on the  *)
(* order of the proofs and on how they are cut (Session::signature against *)
(* validate_signature).                                                    *)
SignedIsAccepted ==
    [][\A t \in sent \ sent' : Holds(t) => result' = "VALIDATED"]_vars

AllPermits == {Permit(grant) : grant \in Grants}
EndedPermits == {permit \in AllPermits : token_revoked(permit.token)}

Permits == INSTANCE SessionPermit WITH
    Permits <- AllPermits, Revocable <- Revocations, owner <- public_key, ended <- EndedPermits, time <- now

(* The machinery of keys, tokens, proofs and slots keeps the promise of a  *)
(* session: nothing runs but what a permit of the current owner allows     *)
(* that has not expired and whose token is not revoked, and no revocation  *)
(* is lost but to that of a token with the same r (revoke_session).        *)
KeepsPromise == Permits!Spec
=============================================================================
