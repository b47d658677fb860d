------------------------------ MODULE MCEcdsa ------------------------------
(* The curve y^2 = x^3 + 2x + 2 over the field of 17 elements, of order 19 *)
(* with the generator (5, 1), and every string of up to four of its bytes, *)
(* with some of five.                                                      *)
EXTENDS Ecdsa

half == <<5, 6, 10, 3, 9, 16, 0, 13, 7>>
MCAbscissa ==
    [k \in 0 .. 18 |-> IF k = 0 THEN 0 ELSE IF k <= 9 THEN half[k] ELSE half[19 - k]]

Byte == 0 .. 4
MCSignatures ==
    UNION {[1 .. n -> Byte] : n \in 0 .. 4} \union {<<x, x, y, y, x>> : x, y \in Byte}
=============================================================================
