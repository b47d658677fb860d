-------------------------- MODULE MCFeltSerializer --------------------------
(* Values of every kind the serializer takes, nested two deep, values it   *)
(* must refuse, and the calls of a transaction: none, one or two, each     *)
(* with up to two felts of calldata.                                       *)
EXTENDS Calldata, CairoSerde

MCFrom_str == [t \in {"0", "1", "2", "starknet"} |->
                  CASE t = "0" -> 0 [] t = "1" -> 1 [] t = "2" -> 2 [] OTHER -> -1]
MCNotAFelt == -1
MCText == [f \in 0 .. 2 |-> CASE f = 0 -> "0" [] f = 1 -> "1" [] f = 2 -> "2"]
MCHex == [f \in 0 .. 2 |-> CASE f = 0 -> "0x00" [] f = 1 -> "0x01" [] f = 2 -> "0x02"]
MCFrom_hex_be == [t \in {"0x00", "0x01", "0x02"} |->
                     CASE t = "0x00" -> 0 [] t = "0x01" -> 1 [] t = "0x02" -> 2]
MCNotHex == -1

Felt == [kind |-> "felt"]
Array(t) == [kind |-> "array", of |-> t]
Fields(ts) == [kind |-> "fields", of |-> ts]
CallType == Fields(<<Felt, Felt, Array(Felt)>>)

int(kind, n) == [kind |-> kind, number |-> n]
compound(kind, items) == [kind |-> kind, items |-> items]
bare(kind) == [kind |-> kind]
unsized(items) == [kind |-> "seq", len |-> NoLen, items |-> items]

Felts == {felt(f) : f \in 0 .. 2}
Leaves == Felts \union {int("bool", 1), int("u32", 2), int("u64", 0)}
Refused == {bare(kind) : kind \in Unsupported}
               \union {unsized(<<felt(1)>>), [kind |-> "str", text |-> "starknet"]}
Vecs == {vec(<<>>), vec(<<felt(0)>>), vec(<<felt(2), felt(1)>>)}
Pairs(kind) ==
    {compound(kind, <<a, v>>) : a \in Leaves, v \in Vecs}

given(type, values) == {[type |-> type, value |-> v, calls |-> {}] : v \in values}

callsOf == {[to |-> 1, selector |-> s, calldata |-> d] :
               s \in {0, 2}, d \in {<<>>, <<0>>, <<2>>, <<1, 0>>, <<2, 2>>}}
bundles == UNION {[1 .. n -> callsOf] : n \in 0 .. 2}

MCInputs ==
    given(Felt, Leaves \union Refused)
    \union given(Array(Felt), Vecs)
    \union given(Array(Array(Felt)), {vec(<<a, b>>) : a \in Vecs, b \in Vecs} \union {vec(<<>>)})
    \union given(Fields(<<Felt, Array(Felt)>>), Pairs("tuple") \union Pairs("struct"))
    \union given(Array(Fields(<<Felt, Array(Felt)>>)),
                 {vec(<<a, b>>) : a \in Pairs("struct"), b \in Pairs("tuple")})
    \union given(Fields(<<Felt, Fields(<<Felt>>), Felt>>),
                 {compound("struct",
                     <<a, compound("newtype_struct", <<compound("tuple", <<b>>)>>), c>>) :
                        a \in Leaves, b \in Leaves \union Refused, c \in Leaves})
    \union {[type |-> Array(CallType), value |-> webauthn_calls(calls), calls |-> {calls}] :
               calls \in bundles}

-----------------------------------------------------------------------------
RECURSIVE Plain(_)

\* A value without the names of its kinds: felts, and sequences of felts.
Plain(v) ==
    CASE v.kind \in UnsignedInts -> v.number
      [] v.kind = "str" -> from_str[v.text]
      [] v.kind = "newtype_struct" -> Plain(v.items[1])
      [] OTHER -> [i \in DOMAIN v.items |-> Plain(v.items[i])]

(* What to_felts returns, a contract that expects the value's type reads   *)
(* as that value, to the last felt (serialize_seq's length prefix, and its *)
(* absence from tuples and structs).                                       *)
ReadsBack ==
    outcome = "Returned" =>
        LET reading == deserialize(input.type, output)
        IN  reading.ok /\ reading.value = Plain(input.value) /\ reading.rest = <<>>

(* The calls a session account collects proofs for are the calls that the  *)
(* contract reads, one for one and in the same order (parse_calls against  *)
(* encode_calls and the check of proof i against call i); none panics.     *)
ParsedAsRun ==
    \A calls \in input.calls :
        LET parsed == parse_calls(printed(calls))
            run == deserialize(Array(CallType), session_encode_calls(calls))
        IN  /\ run.ok /\ run.rest = <<>> /\ Len(parsed) = Len(run.value)
            /\ \A i \in DOMAIN run.value :
                   /\ parsed[i].to = run.value[i][1]
                   /\ parsed[i].selector = run.value[i][2]
=============================================================================
