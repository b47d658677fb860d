------------------------------ MODULE ModArith ------------------------------
(***************************************************************************)
(* extended_gcd and what rests on it (webauthn/auth/src/                   *)
(* mod_arithmetic.cairo).  The integers are unsigned and of bounded width, *)
(* and arithmetic that leaves the range panics; so the coefficients, whose *)
(* signs alternate from round to round, are kept as magnitudes and the     *)
(* negative one is lifted into range after the last round.                 *)
(***************************************************************************)
EXTENDS Integers

CONSTANT MaxU256    \* the largest u256

ASSUME ModArithConstants == MaxU256 \in Nat \ {0}

U256 == 0 .. MaxU256

VARIABLES
    a, b,      \* the arguments of extended_gcd
    r0, r1, s0, s1, t0, t1, parity,
    outcome    \* "Running", "Returned" or "PANIC"

vars == <<a, b, r0, r1, s0, s1, t0, t1, parity, outcome>>

-----------------------------------------------------------------------------
Start(x, y) ==
    /\ a = x /\ b = y
    /\ r0 = x /\ r1 = y
    /\ s0 = 1 /\ s1 = 0
    /\ t0 = 0 /\ t1 = 1
    /\ parity = FALSE
    /\ outcome = "Running"

Init == \E x, y \in U256 : Start(x, y)

\* What the code puts for a difference whose sign it does not know.
distance(x, y) == IF x > y THEN x - y ELSE y - x

\* MUTANT: the coefficients are swapped before the new one is computed.
grown_swapped(c0, c1, q) == c1 + q * c0

\* The magnitude of a coefficient grows by q times that of its successor.
grown(c0, c1, q) == c0 + q * c1

\* MUTANT: the loop ends with the remainder one as well.
finished_at_one == r1 <= 1

finished == r1 = 0

\* MUTANT: the swaps are forgotten.
RoundUnswapped ==
    /\ outcome = "Running" /\ ~ finished
    /\ LET q == r0 \div r1
       IN  /\ r0' = distance(r0, q * r1)
           /\ s0' = grown(s0, s1, q) /\ t0' = grown(t0, t1, q)
    /\ parity' = ~ parity
    /\ UNCHANGED <<a, b, r1, s1, t1, outcome>>

\* One pass of the loop; a product or a sum out of range panics.
Round ==
    /\ outcome = "Running" /\ ~ finished
    /\ LET q == r0 \div r1
       IN  /\ r0' = r1 /\ r1' = distance(r0, q * r1)
           /\ s0' = s1 /\ s1' = grown(s0, s1, q)
           /\ t0' = t1 /\ t1' = grown(t0, t1, q)
           /\ outcome' = IF {q * r1, s1', t1'} \subseteq U256 THEN "Running" ELSE "PANIC"
    /\ parity' = ~ parity
    /\ UNCHANGED <<a, b>>

\* MUTANT: the parities are mixed up.
s_is_negative_even == ~ parity

s_is_negative == parity

\* MUTANT: the coefficient is negated, as in signed integers.
negated(coefficient, bound) == - coefficient

lifted(coefficient, bound) == bound - coefficient

\* After the loop: the negative coefficient is lifted into range, or panics when
\* its magnitude exceeds the bound.
Lift ==
    /\ outcome = "Running" /\ finished
    /\ s0' = IF s_is_negative THEN lifted(s0, b) ELSE s0
    /\ t0' = IF s_is_negative THEN t0 ELSE lifted(t0, a)
    /\ outcome' = IF {s0', t0'} \subseteq U256 THEN "Returned" ELSE "PANIC"
    /\ UNCHANGED <<a, b, r0, r1, s1, t1, parity>>

Done == outcome # "Running" /\ UNCHANGED vars

Next == Round \/ Lift \/ Done

Spec == Init /\ [][Next]_vars /\ WF_vars(Round \/ Lift)

-----------------------------------------------------------------------------
\* MUTANT: an inverse is taken to exist.
mod_inv_always == <<s0 % b>>

\* mod_inv, of a modulo b, from what extended_gcd has returned: <<x>> or None.
mod_inv == IF r0 = 1 THEN <<s0 % b>> ELSE <<>>

\* The product has twice the width: it cannot overflow.
mod_mul(x, y, modulo) == IF modulo = 0 THEN 0 ELSE (x * y) % modulo

-----------------------------------------------------------------------------
(* Type correctness.                                                       *)
TypeOK ==
    /\ a \in U256 /\ b \in U256
    /\ r0 \in U256 /\ r1 \in U256
    /\ s0 \in U256 /\ s1 \in U256
    /\ t0 \in U256 /\ t1 \in U256
    /\ parity \in BOOLEAN
    /\ outcome \in {"Running", "Returned", "PANIC"}

(* No argument makes extended_gcd panic: no product or sum of the loop     *)
(* leaves the width of its arguments, zero among them, and neither b - s0  *)
(* nor a - t0 falls below zero.                                            *)
NeverPanics == outcome # "PANIC"

Divides(d, n) == \E k \in U256 : d * k = n

(* Bezout's identity, lifted into the unsigned range: the coefficients     *)
(* returned combine the arguments to their gcd and one product ab more --  *)
(* which vanishes modulo a and modulo b.                                   *)
Bezout == outcome = "Returned" => s0 * a + t0 * b = r0 + a * b

(* What extended_gcd returns first is the greatest common divisor: it      *)
(* divides both arguments, and every common divisor divides it.            *)
Greatest ==
    outcome = "Returned" =>
        /\ Divides(r0, a) /\ Divides(r0, b)
        /\ \A d \in U256 : Divides(d, a) /\ Divides(d, b) => Divides(d, r0)

(* mod_inv gives the inverse, or None when there is none.                  *)
Inverse ==
    outcome = "Returned" /\ b > 1 =>
        /\ mod_inv = <<>> => \A x \in 0 .. b - 1 : (x * a) % b # 1
        /\ mod_inv # <<>> => mod_inv[1] \in 0 .. b - 1 /\ (mod_inv[1] * a) % b = 1
=============================================================================
