-------------------------- MODULE SessionComponent --------------------------
(***************************************************************************)
(* session_component (webauthn/session/src/lib.cairo): an owner signs a    *)
(* token for a session key, an expiry and the Merkle root of the permitted *)
(* calls; the session key then signs transactions made of those calls,     *)
(* until the token expires or is revoked.                                  *)
(***************************************************************************)
EXTENDS Primitives

CONSTANTS
    Felts,     \* the values the r and s halves of a token take
    NoFelt,    \* 0, what a storage slot holds before it is written
    Self       \* the address of this account

VARIABLE
    revoked    \* r |-> s: the token <<r, s>> is revoked when revoked[r] = s

-----------------------------------------------------------------------------
\* struct SignatureProofs: the proofs of all calls, laid end to end.
proofs_len(proofs) ==
    IF proofs.single_proof_len = 0
    THEN 1
    ELSE Len(proofs.proofs_flat) \div proofs.single_proof_len

\* MUTANT: the index is not scaled by the length of a proof.
proofs_at_unscaled(proofs, i) ==
    SubSeq(proofs.proofs_flat, i, i + proofs.single_proof_len - 1)

\* The slice for call i (calls are numbered from 1 here, from 0 in the code).
proofs_at(proofs, i) ==
    SubSeq(proofs.proofs_flat, (i - 1) * proofs.single_proof_len + 1,
                               i * proofs.single_proof_len)

\* The hash of a call covers its target and its selector, not its calldata.
compute_call_hash(call) == <<call.to, call.selector>>

\* MUTANT: one call short.
check_policy_but_last(calls, root, proofs) ==
    \A i \in 1 .. Len(calls) - 1 :
        merkle_verify(root, compute_call_hash(calls[i]), proofs_at(proofs, i))

check_policy(calls, root, proofs) ==
    \A i \in 1 .. Len(calls) :
        merkle_verify(root, compute_call_hash(calls[i]), proofs_at(proofs, i))

\* Only these fields are hashed, under the account's address.
compute_session_hash(signature, account) ==
    <<"session", signature.session_key, signature.session_expires,
      signature.root, account>>

-----------------------------------------------------------------------------
\* MUTANT: the last second counts as well.
session_expired_late(signature, now) == signature.session_expires < now

session_expired(signature, now) == signature.session_expires <= now

token_revoked(token) == revoked[token[1]] = token[2]

\* The checks in the order the code makes them; the first that fails names the
\* error.  A token of fewer than two felts panics when it is read.
validate_signature(public_key, signature, calls, tx_hash, now) ==
    LET token == signature.session_token
    IN  IF proofs_len(signature.proofs) # Len(calls)   THEN "LENGHT_MISMATCH"
        ELSE IF session_expired(signature, now)        THEN "SESSION_EXPIRED"
        ELSE IF Len(token) < 2                         THEN "PANIC"
        ELSE IF token_revoked(token)                   THEN "SESSION_REVOKED"
        ELSE IF ~ check_ecdsa_signature(compute_session_hash(signature, Self),
                                        public_key, token[1], token[2])
             THEN "SESSION_TOKEN_INVALID"
        ELSE IF ~ check_ecdsa_signature(tx_hash, signature.session_key,
                                        signature.r, signature.s)
             THEN "SESSION_SIGNATURE_INVALID"
        ELSE IF ~ check_policy(calls, signature.root, signature.proofs)
             THEN "POLICY_CHECK_FAILED"
        ELSE "VALIDATED"

\* revoke_session has no access check; reading past a short token panics.
revoke_session_accepts(token) == Len(token) >= 2

\* MUTANT: the slot holds the token instead of its second half.
revoke_session_keeps_token(token) == [revoked EXCEPT ![token[1]] = token]

\* MUTANT: one revocation is remembered, the last.
revoke_session_last(token) ==
    [r \in Felts |-> IF r = token[1] THEN token[2] ELSE NoFelt]

\* One slot for each r: a later token with the same r replaces the earlier one.
revoke_session(token) == [revoked EXCEPT ![token[1]] = token[2]]
=============================================================================
