---------------------------- MODULE CallEncoding ----------------------------
(***************************************************************************)
(* The three forms in which the SDK writes the calls of a transaction: as  *)
(* the value the WebAuthn account serializes                               *)
(* (webauthn_signer/account.rs), as the calldata the session account       *)
(* builds by hand, and as what the session account reads back out of the   *)
(* transaction's Debug text to collect one proof per call                  *)
(* (session_token/account.rs).                                             *)
(*                                                                         *)
(* A call is [to, selector, calldata], of field elements.  A text is a     *)
(* sequence of words; a printed field element is one of them, written in   *)
(* another form than serde's.                                              *)
(***************************************************************************)
EXTENDS Integers, SequencesExt

CONSTANTS
    text,         \* the text a field element is serialized as
    hex,          \* the text it is printed as: all its digits, to the base 16
    from_hex_be,  \* FieldElement::from_hex_be, of the texts that it reads
    NotHex        \* what any other text gives: parse_calls unwraps it and panics

-----------------------------------------------------------------------------
felt(f) == [kind |-> "str", text |-> text[f]]

vec(items) == [kind |-> "seq", len |-> Len(items), items |-> items]

SerializableCall(call) ==
    [kind |-> "struct",
     items |-> <<felt(call.to), felt(call.selector),
                 vec([i \in DOMAIN call.calldata |-> felt(call.calldata[i])])>>]

\* The argument that WebauthnAccount::encode_calls gives to_felts.
webauthn_calls(calls) == vec([i \in DOMAIN calls |-> SerializableCall(calls[i])])

\* MUTANT: the number of felts follows from the call, so it is not written.
session_encode_calls_bare(calls) ==
    LET serialized[k \in 0 .. Len(calls)] ==
            IF k = 0 THEN <<Len(calls)>>
            ELSE serialized[k - 1] \o <<calls[k].to, calls[k].selector>> \o calls[k].calldata
    IN  serialized[Len(calls)]

\* SessionAccount::encode_calls.
session_encode_calls(calls) ==
    LET serialized[k \in 0 .. Len(calls)] ==
            IF k = 0 THEN <<Len(calls)>>
            ELSE serialized[k - 1]
                     \o <<calls[k].to, calls[k].selector, Len(calls[k].calldata)>>
                     \o calls[k].calldata
    IN  serialized[Len(calls)]

-----------------------------------------------------------------------------
CallTo == "Call { to: FieldElement { inner: "
Selector == " }, selector: FieldElement { inner: "
Inner == "FieldElement { inner: "
Close == " }"

printed_call(call) ==
    <<CallTo, hex[call.to], Selector, hex[call.selector], Close, ", calldata: [">>
        \o FlattenSeq([i \in DOMAIN call.calldata |-> <<Inner, hex[call.calldata[i]], Close>>])
        \o <<"]", Close>>

\* The derived Debug of starknet-rs' RawExecution.
printed(calls) ==
    <<"RawExecution { calls: [">>
        \o FlattenSeq([i \in DOMAIN calls |-> printed_call(calls[i])])
        \o <<"], nonce: ", Inner, hex[0], Close, ", max_fee: ", Inner, hex[0], Close, Close>>

\* The pieces of a text between the occurrences of a word.
split(words, word) ==
    FoldLeft(LAMBDA pieces, w :
                 IF w = word THEN Append(pieces, <<>>)
                 ELSE [pieces EXCEPT ![Len(pieces)] = Append(@, w)],
             <<<<>>>>, words)

\* What a piece of the text is read as.
read(piece) ==
    IF Len(piece) = 1 /\ piece[1] \in DOMAIN from_hex_be THEN from_hex_be[piece[1]] ELSE NotHex

\* MUTANT: the text before the first call is taken for a call.
parse_calls_all(words) ==
    [k \in DOMAIN split(words, CallTo) |->
        LET parts == split(split(words, CallTo)[k], Selector)
        IN  [to |-> read(parts[1]),
             selector |-> IF Len(parts) > 1 THEN read(split(parts[2], Close)[1]) ELSE NotHex]]

\* The first piece is not a call; the others give a target and a selector.
parse_calls(words) ==
    LET individual_calls == Tail(split(words, CallTo))
        parts(k) == split(individual_calls[k], Selector)
    IN  [k \in DOMAIN individual_calls |->
            [to |-> read(parts(k)[1]), selector |-> read(split(parts(k)[2], Close)[1])]]
=============================================================================
