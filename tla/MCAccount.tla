----------------------------- MODULE MCAccount -----------------------------
(* A small account: two owner keys, one session key, one other contract.   *)
EXTENDS Account

CONSTANTS k1, k2, sk, p1, noPoint, self, zero, erc20, ghost,
          r1, r2, r3, s1, s2, s3, zeroFelt

MCFelts == {r1, r2, r3, s1, s2, s3, zeroFelt}

(* The calls.  The last is an attempt to run another call through the      *)
(* account's own __execute__.                                              *)
transfer == [to |-> erc20, selector |-> "transfer", data |-> <<>>]
approve == [to |-> erc20, selector |-> "approve", data |-> <<>>]
rotate == [to |-> self, selector |-> "set_public_key", data |-> <<k2>>]
rotateBack == [to |-> self, selector |-> "set_public_key", data |-> <<k1>>]
register == [to |-> self, selector |-> "set_webauthn_pub_key", data |-> <<p1>>]
revoke == [to |-> self, selector |-> "revoke_session", data |-> <<r2, s2>>]
nested == [to |-> self, selector |-> "__execute__", data |-> <<rotate>>]
lost == [to |-> ghost, selector |-> "transfer", data |-> <<>>]

MCCalls == {transfer, approve, rotate, rotateBack, register, revoke, nested, lost}

leaf(call) == <<call.to, call.selector>>
solo == [leaves |-> {leaf(transfer)}, height |-> 0]
wide == [leaves |-> {leaf(transfer), leaf(approve), leaf(nested)}, height |-> 2]

invoke(version, calls) == [kind |-> "invoke", version |-> version, calls |-> calls]

(* The transactions: by the first owner ...                                *)
rotation == invoke(1, <<rotate>>)
revocation == invoke(1, <<revoke, transfer>>)
registration == invoke(1, <<register>>)
declaration == [kind |-> "declare", version |-> 1, calls |-> <<>>]
simulated == invoke(2, <<transfer>>)
unsupported == invoke(3, <<transfer>>)
handover == invoke(1, <<rotate, register, transfer, rotateBack>>)
misdirected == invoke(1, <<transfer, lost>>)
(* ... by the second ...                                                   *)
restoration == invoke(1, <<rotateBack, transfer>>)
(* ... by the authenticator, and by the session key.                       *)
assertion == invoke(1, <<approve, rotate>>)
single == invoke(1, <<transfer>>)
double == invoke(1, <<transfer, approve>>)
detour == invoke(1, <<nested>>)
excess == invoke(1, <<approve, rotate>>)

ofOwner(owner) ==
    IF owner = k1
    THEN {rotation, revocation, registration, declaration, simulated, unsupported, misdirected,
          handover}
    ELSE {restoration}

proofs(flat, size) == [single_proof_len |-> size, proofs_flat |-> flat]
wideProof(call) == merkle_proof(wide, leaf(call))
ecdsa == [type |-> "ecdsa", r |-> r1, s |-> s1]
session(expires, root, theProofs, sessionToken) ==
    [type |-> "session", r |-> r1, s |-> s1, session_key |-> sk,
     session_expires |-> expires, root |-> root, proofs |-> theProofs,
     session_token |-> sessionToken]

tokenA == <<r1, s1>>  \* one call, by the first owner
tokenB == <<r2, s2>>  \* three calls, by the first owner
tokenC == <<r3, s3>>  \* three calls, by the second owner
sessionA == session(1, solo, proofs(<<>>, 0), tokenA)
sessionB(flat) == session(2, wide, proofs(flat, 2), tokenB)
sessionC(flat) == session(2, wide, proofs(flat, 2), tokenC)

presence(bits) == [len |-> 37, flags |-> bits]
Hash(body) == <<"transaction", self, body>>
clientData(body) == <<<<"type">>, Hash(body)>>
assertedAs(bits, body, offset, entries) ==
    [type |-> "webauthn", challenge_offset |-> offset, client_data_json |-> clientData(body),
     authenticator_data |-> presence(bits), signature |-> entries]
webauthn(bits, body, offset) == assertedAs(bits, body, offset, <<r1, s1>>)

signedAs(body, signature) == [body |-> body, signature |-> signature]

MCTxs ==
    {signedAs(body, ecdsa) : body \in ofOwner(k1) \union ofOwner(k2)}
    \union
    {signedAs(single, sessionA), signedAs(double, sessionA),
     signedAs(double, sessionB(wideProof(transfer) \o wideProof(approve))),
     signedAs(double, sessionC(wideProof(transfer) \o wideProof(approve))),
     signedAs(detour, sessionB(wideProof(nested))),
     signedAs(excess, sessionB(wideProof(approve) \o wideProof(transfer))),
     signedAs(single, session(2, wide, proofs(wideProof(transfer), 2), <<r2>>)),
     signedAs(single, session(2, solo, proofs(<<>>, 0), tokenB)),
     signedAs(assertion, webauthn({"UP", "UV", "AT"}, assertion, 2)),
     signedAs(assertion, webauthn({"UP"}, assertion, 2)),
     signedAs(assertion, webauthn({"UP", "UV"}, assertion, 3)),
     signedAs(assertion, assertedAs({"UP", "UV"}, assertion, 2, <<r1, zeroFelt>>)),
     signedAs(rotation, webauthn({"UP", "UV"}, assertion, 2)),
     signedAs(single, [type |-> "malformed"]), signedAs(single, [type |-> "other"]),
     signedAs(single, [type |-> "empty"])}

sessionHash(expires, root) == <<"session", sk, expires, root, self>>

(* Everything that verifies: the owners' own transactions, the tokens they *)
(* grant, and what the session key signs.                                  *)
MCEcdsaSigned ==
    {<<Hash(body), owner, r1, s1>> : <<owner, body>> \in
        {pair \in {k1, k2} \X (ofOwner(k1) \union ofOwner(k2)) : pair[2] \in ofOwner(pair[1])}}
    \union
    {<<Hash(body), sk, r1, s1>> : body \in {single, double, detour, excess}}
    \union
    {<<sessionHash(1, solo), k1, r1, s1>>, <<sessionHash(2, wide), k1, r2, s2>>,
     <<sessionHash(2, wide), k2, r3, s3>>}

MCP256Signed ==
    {<<<<presence(bits), clientData(assertion)>>, p1, <<r1, s>>>> :
        bits \in {{"UP"}, {"UP", "UV"}, {"UP", "UV", "AT"}}, s \in {s1, zeroFelt}}

(* What the other contract may call back with.  The third revokes a token  *)
(* whose r is that of the first's; the last four always panic.             *)
MCEntries == {[selector |-> "revoke_session", data |-> tokenA],
              [selector |-> "revoke_session", data |-> tokenC],
              [selector |-> "revoke_session", data |-> <<r1, s2>>],
              [selector |-> "get_public_key", data |-> <<>>],
              [selector |-> "validate_session", data |-> <<>>],
              [selector |-> "revoke_session", data |-> <<r1>>],
              [selector |-> "set_public_key", data |-> <<k2>>],
              [selector |-> "set_webauthn_pub_key", data |-> <<p1>>],
              [selector |-> "__execute__", data |-> <<rotate>>]}
=============================================================================
