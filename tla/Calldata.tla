------------------------------ MODULE Calldata ------------------------------
(***************************************************************************)
(* The calldata of a transaction: what the serializer makes of the value   *)
(* that stands for the calls in the WebAuthn account is what the session   *)
(* account writes by hand.                                                 *)
(***************************************************************************)
EXTENDS FeltSerializer, CallEncoding

\* An input that stands for the calls of a transaction says for which, as the
\* only element of its calls; the text a field element is serialized as stands for it.
ASSUME BundlesEncoded ==
    /\ \A f \in DOMAIN text : from_str[text[f]] = f
    /\ NotAFelt \notin DOMAIN text
    /\ \A i \in Inputs : \A calls \in i.calls :
          /\ calls \in Seq([to : DOMAIN text, selector : DOMAIN text,
                            calldata : Seq(DOMAIN text)])
          /\ i.value = webauthn_calls(calls)

(* The two accounts encode the same calls alike: the hash signed for one   *)
(* is the hash signed for the other (the two encode_calls).                *)
EncodersAgree ==
    outcome = "Returned" =>
        \A calls \in input.calls : output = session_encode_calls(calls)
=============================================================================
