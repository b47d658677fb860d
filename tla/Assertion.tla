----------------------------- MODULE Assertion -----------------------------
(***************************************************************************)
(* What an authenticator's answer is made of and how the SDK turns it into *)
(* the contract's arguments: client data and authenticator data            *)
(* (account_sdk/src/webauthn_signer/credential.rs), and the offsets and    *)
(* the two integers of the signature (cairo_args.rs).                      *)
(*                                                                         *)
(* A text is a sequence of words, each a tuple: marks such as Quote, names *)
(* and values.  Bytes are digits to the base Base, and HalfLen of them     *)
(* stand for the 16 that fill half of an integer of the contract.          *)
(* Positions count from 1, where those of the code count from 0.           *)
(***************************************************************************)
EXTENDS Sequences, FiniteSetsExt, Powers

CONSTANTS
    Base,     \* 256 in the code
    HalfLen,  \* 16 in the code
    NoIndex   \* Option::None of find_value_index

ASSUME AssertionConstants ==
    /\ Base \in Nat \ {0, 1} /\ HalfLen \in Nat \ {0}
    /\ NoIndex \notin Nat

-----------------------------------------------------------------------------
Quote == <<"quote">>
Colon == <<"colon">>
Comma == <<"comma">>
Space == <<"space">>
Open == <<"open">>
Closed == <<"close">>
Name(word) == <<word>>

quoted(words) == <<Quote>> \o words \o <<Quote>>

CliendData(challenge, origin) ==
    [type_ |-> <<Name("webauthn.get")>>, challenge |-> <<challenge>>,
     origin |-> origin, cross_origin |-> <<Name("false")>>]

\* One member of a JSON object; the gap is the white space about the colon.
member(name, gap, value) == quoted(<<Name(name)>>) \o gap \o <<Colon>> \o gap \o value

\* The fields in their order, under their serialized names.
json(data, gap) ==
    <<Open>> \o member("type", gap, quoted(data.type_))
    \o <<Comma>> \o gap \o member("challenge", gap, quoted(data.challenge))
    \o <<Comma>> \o gap \o member("origin", gap, quoted(data.origin))
    \o <<Comma>> \o gap \o member("crossOrigin", gap, data.cross_origin) \o <<Closed>>

\* serde_json::to_string leaves no gaps.
to_json(data) == json(data, <<>>)

\* AuthenticatorData into bytes: the hash, the flags and the counter, end to end.
data_bytes(authenticator_data) ==
    [len |-> 32 + 1 + 4,
     rp_id_hash |-> authenticator_data.rp_id_hash,
     flags |-> authenticator_data.flags,
     sign_count |-> authenticator_data.sign_count]

-----------------------------------------------------------------------------
\* The first place at or after a position where the words occur.
find(text, words, from) ==
    LET places == {i \in from .. Len(text) - Len(words) + 1 :
                      SubSeq(text, i, i + Len(words) - 1) = words}
    IN  IF places = {} THEN NoIndex ELSE Min(places)

\* MUTANT: the index of the quote that opens the value.
find_quote_index(text, key) ==
    LET key_index == find(text, quoted(<<Name(key)>>), 1)
        colon_index == find(text, <<Colon>>, key_index)
    IN  find(text, <<Quote>>, colon_index + 1)

\* The place after the first quote after the first colon after the quoted key.
find_value_index(text, key) ==
    LET key_index == find(text, quoted(<<Name(key)>>), 1)
        colon_index == IF key_index = NoIndex THEN NoIndex ELSE find(text, <<Colon>>, key_index)
        quote_index == IF colon_index = NoIndex THEN NoIndex
                       ELSE find(text, <<Quote>>, colon_index + 1)
    IN  IF quote_index = NoIndex THEN NoIndex ELSE quote_index + 1

extend_to_32(bytes) == [i \in 1 .. 2 * HalfLen - Len(bytes) |-> 0] \o bytes

\* FieldElement::from_bytes_be.
from_bytes_be(bytes) ==
    LET upto[i \in 0 .. Len(bytes)] ==
            IF i = 0 THEN 0 ELSE Base * upto[i - 1] + bytes[i]
    IN  upto[Len(bytes)]

\* MUTANT: the halves in the order of the bytes.
felt_pair_big_endian(bytes) ==
    <<from_bytes_be(extend_to_32(SubSeq(bytes, 1, HalfLen))),
      from_bytes_be(extend_to_32(SubSeq(bytes, HalfLen + 1, 2 * HalfLen)))>>

\* The low half first, as the contract's integers have it.
felt_pair(bytes) ==
    <<from_bytes_be(extend_to_32(SubSeq(bytes, HalfLen + 1, 2 * HalfLen))),
      from_bytes_be(extend_to_32(SubSeq(bytes, 1, HalfLen)))>>

pub_key_to_felts(pub_key) == <<felt_pair(pub_key[1]), felt_pair(pub_key[2])>>

\* The pair as the integer the contract takes it for.
AbiU256(pair) == pair[1] + pair[2] * power(Base, HalfLen)

\* MUTANT: the signature has to be longer than its two integers.
from_response_panics_at_full(response) ==
    \/ Len(response.signature) <= 4 * HalfLen
    \/ \E key \in {"type", "challenge", "origin"} :
           find_value_index(response.client_data_json, key) = NoIndex

\* The signature's length and every key are unwrapped: without them, a panic.
from_response_panics(response) ==
    \/ Len(response.signature) < 4 * HalfLen
    \/ \E key \in {"type", "challenge", "origin"} :
           find_value_index(response.client_data_json, key) = NoIndex

from_response(origin, response) ==
    [r |-> felt_pair(SubSeq(response.signature, 1, 2 * HalfLen)),
     s |-> felt_pair(SubSeq(response.signature, 2 * HalfLen + 1, 4 * HalfLen)),
     type_offset |-> find_value_index(response.client_data_json, "type"),
     challenge_offset |-> find_value_index(response.client_data_json, "challenge"),
     origin_offset |-> find_value_index(response.client_data_json, "origin"),
     client_data_json |-> response.client_data_json,
     origin |-> origin,
     authenticator_data |-> data_bytes(response.authenticator_data)]
=============================================================================
