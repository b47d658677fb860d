----------------------------- MODULE CairoSerde -----------------------------
(***************************************************************************)
(* How a Cairo contract reads felts back: the derived Serde of core, which *)
(* is not code of the repository.  A reader knows the type it expects and  *)
(* nothing else:                                                           *)
(*    [kind |-> "felt"]                one felt                            *)
(*    [kind |-> "array", of |-> t]     a length, then that many of t       *)
(*    [kind |-> "fields", of |-> ts]   one of each of ts, in turn          *)
(*                                                                         *)
(* A reading is [ok, value, rest].                                         *)
(***************************************************************************)
EXTENDS Integers, Sequences

RECURSIVE deserialize(_, _), deserialize_each(_, _)

deserialize(type, felts) ==
    CASE type.kind = "felt" ->
            IF felts = <<>> THEN [ok |-> FALSE]
            ELSE [ok |-> TRUE, value |-> Head(felts), rest |-> Tail(felts)]
      [] type.kind = "array" ->
            IF felts = <<>> THEN [ok |-> FALSE]
            ELSE deserialize_each([i \in 1 .. Head(felts) |-> type.of], Tail(felts))
      [] type.kind = "fields" -> deserialize_each(type.of, felts)

deserialize_each(types, felts) ==
    IF types = <<>> THEN [ok |-> TRUE, value |-> <<>>, rest |-> felts]
    ELSE LET first == deserialize(Head(types), felts)
             others == deserialize_each(Tail(types), first.rest)
         IN  IF first.ok /\ others.ok
             THEN [ok |-> TRUE, value |-> <<first.value>> \o others.value,
                   rest |-> others.rest]
             ELSE [ok |-> FALSE]
=============================================================================
