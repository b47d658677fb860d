--------------------------- MODULE FeltSerializer ---------------------------
(***************************************************************************)
(* The serializer behind the calldata of a WebAuthn account                *)
(* (account_sdk/src/felt_ser.rs): to_felts hands a value to serde, whose   *)
(* derived code walks the value and calls back one method of Serializer    *)
(* for each part.  One action is one such call; the compound values whose  *)
(* parts are still to be written form a stack.                             *)
(*                                                                         *)
(* A value is a record: its kind names the method serde calls for it.      *)
(*   integers      [kind, number]       text      [kind |-> "str", text]   *)
(*   compounds     [kind, items], and for a sequence its len (or NoLen)    *)
(* A field element serializes itself as its text.                          *)
(***************************************************************************)
EXTENDS Integers, Sequences

CONSTANTS
    Inputs,    \* the arguments of to_felts considered: [type, value] records
    from_str,  \* FieldElement::from_str: what a text stands for, or NotAFelt
    NotAFelt,
    NoLen,     \* the len of a sequence whose length serde does not know
    NoValue,
    MaxDepth   \* bound on how deep the parts of a value lie

VARIABLES
    input,    \* the argument of to_felts
    value,    \* the value being serialized, or NoValue between two of them
    frames,   \* the compounds begun and not ended, the innermost first
    output,   \* Serializer.output
    outcome   \* "Serializing", "Returned", or the Error that to_felts unwraps

serializer == <<input, value, frames, output, outcome>>

-----------------------------------------------------------------------------
\* The enum Error.
Errors == {"Message", "TypeNotSupported", "UnknownLength"}

UnsignedInts == {"bool", "u8", "u16", "u32", "u64"}

\* The kinds whose method is Err(TypeNotSupported), in the order of the code.
SignedInts == {"i8", "i16", "i32", "i64"}
FloatsAndChar == {"f32", "f64", "char"}
BytesAndOptions == {"bytes", "none", "some", "unit", "unit_struct", "unit_variant"}
NewtypeVariants == {"newtype_variant"}
TuplesByName == {"tuple_struct", "tuple_variant", "map"}
StructVariants == {"struct_variant"}

Unsupported ==
    SignedInts \union FloatsAndChar \union BytesAndOptions
        \union NewtypeVariants \union TuplesByName \union StructVariants

Compounds == {"seq", "tuple", "struct", "newtype_struct"}

\* What serde hands over for a value, part by part.
ItemsOf(v) == IF v.kind \in Compounds THEN {v.items[i] : i \in DOMAIN v.items} ELSE {}
AllItems(values) == UNION {ItemsOf(v) : v \in values}

\* A value and everything in it.
Parts(v) ==
    LET below[depth \in 0 .. MaxDepth] ==
            IF depth = 0 THEN {v} ELSE AllItems(below[depth - 1])
    IN  UNION {below[depth] : depth \in 0 .. MaxDepth}

WellFormed(v, parts) ==
    /\ v # NoValue
    /\ v.kind \in UnsignedInts \union {"str"} \union Unsupported \union Compounds
    /\ v.kind \in Compounds => v.items \in Seq(parts)
    /\ v.kind = "newtype_struct" => Len(v.items) = 1

ASSUME ValuesTyped ==
    /\ MaxDepth \in Nat /\ NoLen \notin Nat
    /\ \A i \in Inputs : \A v \in Parts(i.value) : WellFormed(v, Parts(i.value))

\* An error passes through every frame, by the ? of the derived code.
Fail(error) ==
    /\ outcome' = error
    /\ value' = NoValue /\ frames' = <<>>
    /\ UNCHANGED <<input, output>>

Push(felt) ==
    /\ output' = Append(output, felt)
    /\ value' = NoValue
    /\ UNCHANGED <<input, frames, outcome>>

Begin(prefix) ==
    /\ output' = output \o prefix
    /\ frames' = <<[kind |-> value.kind, rest |-> value.items]>> \o frames
    /\ value' = NoValue
    /\ UNCHANGED <<input, outcome>>

-----------------------------------------------------------------------------
\* serialize_bool and the smaller integers widen to u64; true is 1.
serialize_u64 ==
    /\ value # NoValue /\ value.kind \in UnsignedInts
    /\ Push(value.number)

\* Field elements arrive here, and so does any other text.
serialize_str ==
    /\ value # NoValue /\ value.kind = "str"
    /\ \/ from_str[value.text] = NotAFelt /\ Fail("Message")
       \/ from_str[value.text] # NotAFelt /\ Push(from_str[value.text])

\* MUTANT: an option that is none writes nothing.
unsupported_skipping ==
    /\ value # NoValue /\ value.kind \in Unsupported
    /\ \/ value.kind = "none" /\ value' = NoValue /\ UNCHANGED <<input, frames, output, outcome>>
       \/ value.kind # "none" /\ Fail("TypeNotSupported")

unsupported ==
    /\ value # NoValue /\ value.kind \in Unsupported
    /\ Fail("TypeNotSupported")

\* serialize_newtype_struct: the value inside, and no trace of the wrapper.
serialize_newtype_struct ==
    /\ value # NoValue /\ value.kind = "newtype_struct"
    /\ value' = value.items[1]
    /\ UNCHANGED <<input, frames, output, outcome>>

\* MUTANT: a sequence is written like a tuple.
serialize_seq_bare ==
    /\ value # NoValue /\ value.kind = "seq"
    /\ \/ value.len = NoLen /\ Fail("UnknownLength")
       \/ value.len # NoLen /\ Begin(<<>>)

serialize_seq ==
    /\ value # NoValue /\ value.kind = "seq"
    /\ \/ value.len = NoLen /\ Fail("UnknownLength")
       \/ value.len # NoLen /\ Begin(<<value.len>>)

serialize_tuple ==
    /\ value # NoValue /\ value.kind = "tuple"
    /\ Begin(<<>>)

serialize_struct ==
    /\ value # NoValue /\ value.kind = "struct"
    /\ Begin(<<>>)

\* What serialize_element and serialize_field do, once serde calls them: the
\* next part is the value to serialize.
NextPart(kind) ==
    /\ outcome = "Serializing" /\ value = NoValue
    /\ frames # <<>> /\ Head(frames).kind = kind /\ Head(frames).rest # <<>>
    /\ value' = Head(Head(frames).rest)
    /\ frames' = <<[kind |-> kind, rest |-> Tail(Head(frames).rest)]>> \o Tail(frames)
    /\ UNCHANGED <<input, output, outcome>>

SeqElement == NextPart("seq")
TupleElement == NextPart("tuple")
StructField == NextPart("struct")

\* The end of a compound writes nothing.
end ==
    /\ outcome = "Serializing" /\ value = NoValue
    /\ frames # <<>> /\ Head(frames).rest = <<>>
    /\ frames' = Tail(frames)
    /\ UNCHANGED <<input, value, output, outcome>>

\* to_felts begins with the whole value and nothing written,
SerializerInit ==
    /\ input \in Inputs
    /\ value = input.value
    /\ frames = <<>> /\ output = <<>>
    /\ outcome = "Serializing"

\* and hands its caller the output, unless the unwrap has panicked.
Return ==
    /\ outcome = "Serializing" /\ value = NoValue /\ frames = <<>>
    /\ outcome' = "Returned"
    /\ UNCHANGED <<input, value, frames, output>>

\* The program has its output or has panicked.
Over == outcome # "Serializing" /\ UNCHANGED serializer

SerializerNext ==
    \/ serialize_u64 \/ serialize_str \/ unsupported \/ serialize_newtype_struct
    \/ serialize_seq \/ serialize_tuple \/ serialize_struct
    \/ SeqElement \/ TupleElement \/ StructField \/ end
    \/ Return \/ Over

SerializerSpec == SerializerInit /\ [][SerializerNext]_serializer

-----------------------------------------------------------------------------
\* Whether there is an encoding for it, its own items apart.
Encodable(v) ==
    \/ v.kind \in UnsignedInts
    \/ v.kind = "str" /\ from_str[v.text] # NotAFelt
    \/ v.kind \in Compounds /\ (v.kind = "seq" => v.len # NoLen)

(* A value with a part that has no encoding is refused as a whole, however *)
(* deep the part lies, and no other value is: a part is never left out     *)
(* (the Err arms of Serializer and the unwrap of to_felts).                *)
RefusesExactly ==
    /\ outcome = "Returned" => \A v \in Parts(input.value) : Encodable(v)
    /\ outcome \in Errors => \E v \in Parts(input.value) : ~ Encodable(v)
=============================================================================
