------------------------------- MODULE Powers -------------------------------
(* Powers of a natural number, by recursion on the exponent.               *)
EXTENDS Integers

power(base, exponent) ==
    LET raised[n \in 0 .. exponent] == IF n = 0 THEN 1 ELSE base * raised[n - 1]
    IN  raised[exponent]
=============================================================================
