------------------------- MODULE WebauthnComponent -------------------------
(***************************************************************************)
(* webauthn_component (webauthn/auth/src/component.cairo) and the verify   *)
(* function it calls (webauthn.cairo): the owner registers a secp256r1     *)
(* point and an authenticator's assertion over the transaction hash then   *)
(* authorises a transaction.                                               *)
(***************************************************************************)
EXTENDS Primitives

CONSTANTS
    Points,    \* the coordinate pairs that may be registered
    OnCurve,   \* those of them that are points of the curve
    NoPoint,   \* Option::None
    Scalars    \* the values r and s may take: 1 to the order of the curve less 1

VARIABLE
    webauthn_public_key   \* the component's public_key: Option<WebauthnPubKey>

-----------------------------------------------------------------------------
\* client_data_json is a sequence of words, the word at an offset standing for
\* the bytes from there on that are compared with the encoded challenge.
verify_challenge(client_data_json, challenge_offset, challenge) ==
    IF challenge_offset \notin 1 .. Len(client_data_json) THEN "PANIC"
    ELSE IF client_data_json[challenge_offset] # challenge THEN "CHALLENGE_MISMATCH"
    ELSE "OK"

\* flags is the set of the bits that are set; the call site asks for both.
verify_user_flags(authenticator_data) ==
    {"UP", "UV"} \subseteq authenticator_data.flags

\* ImplArrayu8TryIntoAuthData: 32 bytes of rp id hash, one of flags, four of counter.
well_formed(authenticator_data) == authenticator_data.len >= 37

\* verify_hashed_ecdsa: a signature entry out of range is refused before any
\* arithmetic is done with it.
verify_ecdsa(public_key_pt, msg, signature) ==
    IF ~ ({signature[1], signature[2]} \subseteq Scalars) THEN "WrongArgument"
    ELSE IF curve_equation(public_key_pt, msg, signature) THEN "OK"
    ELSE "InvalidSignature"

verify(pub_key, assertion, challenge) ==
    LET found == verify_challenge(assertion.client_data_json,
                                  assertion.challenge_offset, challenge)
    IN  IF found # "OK" THEN found
        ELSE IF ~ well_formed(assertion.authenticator_data)
             THEN "USER_FLAGS_MISMATCH"
        ELSE IF ~ verify_user_flags(assertion.authenticator_data)
             THEN "USER_FLAGS_MISMATCH"
        ELSE IF verify_ecdsa(pub_key,
                             <<assertion.authenticator_data, assertion.client_data_json>>,
                             assertion.signature) # "OK"
             THEN "INVALID_SIGNATURE"
        ELSE "OK"

\* A missing key, or coordinates that are no point of the curve, is a plain
\* refusal; every AuthnError is turned into one, a panic is not.
verify_webauthn_signer(assertion, tx_hash) ==
    IF webauthn_public_key \notin OnCurve THEN "INVALID_SIGNATURE"
    ELSE LET result == verify(webauthn_public_key, assertion, tx_hash)
         IN  IF result = "OK" THEN "VALIDATED"
             ELSE IF result = "PANIC" THEN "PANIC"
             ELSE "INVALID_SIGNATURE"
=============================================================================
