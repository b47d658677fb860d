---------------------------- MODULE EcdsaProofs ----------------------------
(***************************************************************************)
(* extended_gcd stays within the width of its arguments and returns their  *)
(* greatest common divisor with the coefficients of Bezout's identity, for *)
(* integers of any width; and the verification of a signature, which rests *)
(* on it, accepts exactly what the holder of the key can sign, on any      *)
(* group of prime order.                                                   *)
(*                                                                         *)
(* The argument for extended_gcd: each round keeps s1 r0 + s0 r1 = b and   *)
(* t1 r0 + t0 r1 = a.  While r1 is positive, the next s1 and t1 are        *)
(* therefore at most b and a; and once r1 is 0, r0 divides both.  The      *)
(* signs that the code leaves out alternate with the parity.               *)
(*                                                                         *)
(* The argument for the verification: the order is a prime, so s has an    *)
(* inverse x; the point that is computed stands for x (hash + r key) up to *)
(* a multiple of the order, and that is the only nonce which the signature *)
(* can have been made with.                                                *)
(***************************************************************************)
EXTENDS Ecdsa, Groundwork

-----------------------------------------------------------------------------
(* The two sums that a round keeps.                                        *)
Sums ==
    /\ s1 * r0 + s0 * r1 = b
    /\ t1 * r0 + t0 * r1 = a

(* What the remainders are of the arguments, the signs put back.           *)
Signs ==
    /\ parity => t0 * b = r0 + s0 * a /\ s1 * a = r1 + t1 * b
    /\ ~ parity => s0 * a = r0 + t0 * b /\ t1 * b = r1 + s1 * a

(* The coefficients that are to be lifted are within their bounds.         *)
Bounds ==
    /\ s1 <= b
    /\ parity => s0 <= b /\ t1 <= a
    /\ ~ parity => t0 <= a

(* The inductive invariant.                                                *)
IInv ==
    /\ TypeOK /\ NeverPanics
    /\ Sums
    /\ outcome = "Running" => Signs /\ Bounds
    /\ outcome = "Returned" => r1 = 0 /\ s0 * a + t0 * b = r0 + a * b

-----------------------------------------------------------------------------
(* Division leaves a remainder, from zero to below the divisor (q of the   *)
(* loop).                                                                  *)
LEMMA QuotientBelow ==
    ASSUME NEW x \in Nat, NEW y \in Nat, y # 0
    PROVE  /\ x \div y \in Nat
           /\ (x \div y) * y <= x
           /\ x - (x \div y) * y \in Nat
  OBVIOUS

(* A product of naturals is at least each factor that the other does not   *)
(* annul.                                                                  *)
LEMMA Factor ==
    ASSUME NEW c \in Nat, NEW m \in Nat, NEW rest \in Nat, m # 0
    PROVE  c <= c * m + rest
  OBVIOUS

(* The first sum, over one round.                                          *)
LEMMA SumKept ==
    ASSUME NEW c0 \in Nat, NEW c1 \in Nat, NEW x \in Nat, NEW y \in Nat, NEW q \in Nat
    PROVE  (c0 + q * c1) * y + c1 * (x - q * y) = c1 * x + c0 * y
  OBVIOUS

(* The signed sums, over one round.                                        *)
LEMMA SignKept ==
    ASSUME NEW c0 \in Nat, NEW c1 \in Nat, NEW d0 \in Nat, NEW d1 \in Nat,
           NEW x \in Nat, NEW y \in Nat, NEW q \in Nat, NEW m \in Nat, NEW n \in Nat,
           c0 * m = x + d0 * n, d1 * n = y + c1 * m
    PROVE  (c0 + q * c1) * m = (x - q * y) + (d0 + q * d1) * n
  <1>1. (c0 + q * c1) * m = c0 * m + q * (c1 * m)
    OBVIOUS
  <1>2. (d0 + q * d1) * n = d0 * n + q * (d1 * n)
    OBVIOUS
  <1>3. c1 * m = d1 * n - y
    OBVIOUS
  <1>4. q * (c1 * m) = q * (d1 * n) - q * y
    BY <1>3
  <1> QED
    BY <1>1, <1>2, <1>4

-----------------------------------------------------------------------------
(* The invariant holds of every pair of arguments.                         *)
LEMMA InitIInv == ASSUME Init PROVE IInv
<1>1. PICK x \in U256, y \in U256 : Start(x, y)
  BY DEF Init
<1>2. 0 \in U256 /\ 1 \in U256
  BY ModArithConstants DEF U256
<1>3. TypeOK /\ NeverPanics
  BY <1>1, <1>2 DEF Start, TypeOK, NeverPanics
<1>4. x \in Nat /\ y \in Nat
  BY DEF U256
<1>5. Sums /\ Signs /\ Bounds
  BY <1>1, <1>4 DEF Start, Sums, Signs, Bounds
<1>6. outcome = "Running"
  BY <1>1 DEF Start
<1> QED
  BY <1>3, <1>5, <1>6 DEF IInv

(* A round leaves nothing out of range and keeps the invariant.            *)
LEMMA RoundIInv == ASSUME IInv, Round PROVE IInv'
<1> DEFINE q == r0 \div r1
<1>1. /\ a \in Nat /\ b \in Nat /\ r0 \in Nat /\ r1 \in Nat
      /\ s0 \in Nat /\ s1 \in Nat /\ t0 \in Nat /\ t1 \in Nat
      /\ a <= MaxU256 /\ b <= MaxU256 /\ r0 <= MaxU256 /\ r1 <= MaxU256
      /\ s1 <= MaxU256 /\ t1 <= MaxU256 /\ MaxU256 \in Nat
      /\ parity \in BOOLEAN
  BY ModArithConstants DEF IInv, TypeOK, U256
<1>2. outcome = "Running" /\ r1 # 0 /\ Sums /\ Signs /\ Bounds
  BY DEF IInv, Round, finished
<1>3. q \in Nat /\ q * r1 \in Nat /\ q * r1 <= r0 /\ r0 - q * r1 \in Nat
  BY <1>1, <1>2, QuotientBelow
<1>4. distance(r0, q * r1) = r0 - q * r1
  BY <1>1, <1>3 DEF distance
<1>5. /\ r0' = r1 /\ r1' = r0 - q * r1
      /\ s0' = s1 /\ s1' = s0 + q * s1
      /\ t0' = t1 /\ t1' = t0 + q * t1
      /\ outcome' = IF {q * r1, s1', t1'} \subseteq U256 THEN "Running" ELSE "PANIC"
      /\ parity' = ~ parity
      /\ a' = a /\ b' = b
  BY <1>4 DEF Round, grown
<1> HIDE DEF q
<1>6. s1' \in Nat /\ t1' \in Nat
  BY <1>1, <1>3, <1>5
<1>7. Sums'
  <2>1. (s0 + q * s1) * r1 + s1 * (r0 - q * r1) = s1 * r0 + s0 * r1
    BY <1>1, <1>3, SumKept
  <2>2. (t0 + q * t1) * r1 + t1 * (r0 - q * r1) = t1 * r0 + t0 * r1
    BY <1>1, <1>3, SumKept
  <2> QED
    BY <1>2, <1>5, <2>1, <2>2 DEF Sums
<1>8. s1' <= b /\ t1' <= a
  <2>1. s1' <= s1' * r0' + s0' * r1'
    <3>1. s0' * r1' \in Nat
      BY <1>1, <1>3, <1>5
    <3> QED
      BY <1>1, <1>2, <1>5, <1>6, <3>1, Factor
  <2>2. t1' <= t1' * r0' + t0' * r1'
    <3>1. t0' * r1' \in Nat
      BY <1>1, <1>3, <1>5
    <3> QED
      BY <1>1, <1>2, <1>5, <1>6, <3>1, Factor
  <2> QED
    BY <1>5, <1>7, <2>1, <2>2 DEF Sums
<1>9. outcome' = "Running"
  BY <1>1, <1>3, <1>5, <1>6, <1>8 DEF U256
<1>10. TypeOK' /\ NeverPanics'
  BY <1>1, <1>3, <1>5, <1>6, <1>8, <1>9 DEF IInv, TypeOK, NeverPanics, U256
<1>11. Signs'
  <2>1. CASE parity
    <3>1. (t0 + q * t1) * b = (r0 - q * r1) + (s0 + q * s1) * a
      BY <1>1, <1>2, <1>3, <2>1, SignKept DEF Signs
    <3> QED
      BY <1>2, <1>5, <2>1, <3>1 DEF Signs
  <2>2. CASE ~ parity
    <3>1. (s0 + q * s1) * a = (r0 - q * r1) + (t0 + q * t1) * b
      BY <1>1, <1>2, <1>3, <2>2, SignKept DEF Signs
    <3> QED
      BY <1>2, <1>5, <2>2, <3>1 DEF Signs
  <2> QED
    BY <2>1, <2>2
<1>12. Bounds'
  BY <1>2, <1>5, <1>8 DEF Bounds
<1> QED
  BY <1>7, <1>9, <1>10, <1>11, <1>12 DEF IInv

(* Lifting a negative coefficient does not underflow, and turns the signed *)
(* identity into the one of Bezout.                                        *)
LEMMA LiftIInv == ASSUME IInv, Lift PROVE IInv'
<1>1. /\ a \in Nat /\ b \in Nat /\ r0 \in Nat /\ s0 \in Nat /\ t0 \in Nat
      /\ a <= MaxU256 /\ b <= MaxU256 /\ MaxU256 \in Nat
      /\ parity \in BOOLEAN
  BY ModArithConstants DEF IInv, TypeOK, U256
<1>2. outcome = "Running" /\ r1 = 0 /\ Sums /\ Signs /\ Bounds
  BY DEF IInv, Lift, finished
<1>3. /\ s0' = IF parity THEN b - s0 ELSE s0
      /\ t0' = IF parity THEN t0 ELSE a - t0
      /\ outcome' = IF {s0', t0'} \subseteq U256 THEN "Returned" ELSE "PANIC"
      /\ UNCHANGED <<a, b, r0, r1, s1, t1, parity>>
  BY DEF Lift, lifted, s_is_negative
<1>4. s0' \in U256 /\ t0' \in U256
  BY <1>1, <1>2, <1>3 DEF Bounds, IInv, TypeOK, U256
<1>5. outcome' = "Returned"
  BY <1>3, <1>4
<1>6. TypeOK' /\ NeverPanics'
  BY <1>3, <1>4, <1>5 DEF IInv, TypeOK, NeverPanics
<1>7. s0' * a + t0' * b = r0 + a * b
  <2>1. CASE parity
    <3>1. (b - s0) * a + t0 * b = r0 + a * b
      BY <1>1, <1>2, <2>1 DEF Signs
    <3> QED
      BY <1>3, <2>1, <3>1
  <2>2. CASE ~ parity
    <3>1. s0 * a + (a - t0) * b = r0 + a * b
      BY <1>1, <1>2, <2>2 DEF Signs
    <3> QED
      BY <1>3, <2>2, <3>1
  <2> QED
    BY <2>1, <2>2
<1>8. Sums'
  <2>1. s1 * r0 = b /\ t1 * r0 = a
    BY <1>1, <1>2 DEF Sums, IInv, TypeOK, U256
  <2>2. s0' * r1 = 0 /\ t0' * r1 = 0
    <3>1. s0' \in Int /\ t0' \in Int
      BY <1>1, <1>4 DEF U256
    <3>2. \A c \in Int : c * 0 = 0
      OBVIOUS
    <3>3. r1 = 0
      BY <1>2
    <3> QED
      BY <3>1, <3>2, <3>3
  <2> QED
    BY <1>1, <1>2, <1>3, <2>1, <2>2 DEF Sums, IInv, TypeOK, U256
<1> QED
  BY <1>2, <1>3, <1>5, <1>6, <1>7, <1>8 DEF IInv

(* Every step keeps the invariant.                                         *)
LEMMA NextIInv == ASSUME IInv, [Next]_vars PROVE IInv'
<1>1. CASE Round
  BY <1>1, RoundIInv
<1>2. CASE Lift
  BY <1>2, LiftIInv
<1>3. CASE UNCHANGED vars
  BY <1>3 DEF IInv, TypeOK, NeverPanics, Sums, Signs, Bounds, vars
<1> QED
  BY <1>1, <1>2, <1>3 DEF Next, Done

(* The invariant holds throughout.                                         *)
LEMMA Invariance == Spec => []IInv
<1>1. Init => IInv
  BY InitIInv
<1>2. IInv /\ [Next]_vars => IInv'
  BY NextIInv
<1> QED
  BY <1>1, <1>2, PTL DEF Spec

-----------------------------------------------------------------------------
(* Type correctness.                                                       *)
THEOREM TypeCorrect == Spec => []TypeOK
<1>1. IInv => TypeOK
  BY DEF IInv
<1> QED
  BY <1>1, Invariance, PTL

(* Nothing overflows or falls below zero, whatever the arguments and the   *)
(* width.                                                                  *)
THEOREM NoPanic == Spec => []NeverPanics
<1>1. IInv => NeverPanics
  BY DEF IInv
<1> QED
  BY <1>1, Invariance, PTL

(* Bezout's identity.                                                      *)
THEOREM BezoutHolds == Spec => []Bezout
<1>1. IInv => Bezout
  BY DEF IInv, Bezout
<1> QED
  BY <1>1, Invariance, PTL

(* A quotient of two u256 is a u256, or may be chosen so.                  *)
LEMMA QuotientFits ==
    ASSUME NEW d \in U256, NEW g \in U256, NEW m \in Int, d * m = g
    PROVE  Divides(d, g)
<1>1. d \in Nat /\ g \in Nat /\ g <= MaxU256 /\ MaxU256 \in Nat
  BY ModArithConstants DEF U256
<1>2. CASE d = 0
  <2>1. g = 0
    BY <1>1, <1>2
  <2>2. 0 \in U256 /\ d * 0 = g
    BY <1>1, <1>2, <2>1 DEF U256
  <2> QED
    BY <2>2 DEF Divides
<1>3. CASE d # 0
  <2>1. m >= 0
    BY <1>1, <1>3
  <2>2. m <= d * m
    BY <1>1, <1>3, <2>1
  <2>3. m \in U256
    BY <1>1, <2>1, <2>2 DEF U256
  <2> QED
    BY <2>3 DEF Divides
<1> QED
  BY <1>2, <1>3

LEMMA IsGreatest == IInv => Greatest
<1>1. ASSUME IInv, outcome = "Returned"
      PROVE  /\ Divides(r0, a) /\ Divides(r0, b)
             /\ \A d \in U256 : Divides(d, a) /\ Divides(d, b) => Divides(d, r0)
  <2>1. /\ a \in U256 /\ b \in U256 /\ r0 \in U256 /\ s0 \in Nat /\ t0 \in Nat
        /\ s1 \in Nat /\ t1 \in Nat /\ a \in Nat /\ b \in Nat /\ r0 \in Nat
    BY <1>1, ModArithConstants DEF IInv, TypeOK, U256
  <2>2. r0 * t1 = a /\ r0 * s1 = b
    BY <1>1, <2>1 DEF IInv, Sums, TypeOK, U256
  <2>3. Divides(r0, a) /\ Divides(r0, b)
    BY <2>1, <2>2, QuotientFits
  <2>4. ASSUME NEW d \in U256, Divides(d, a), Divides(d, b)
        PROVE  Divides(d, r0)
    <3>1. PICK k \in U256 : d * k = a
      BY <2>4 DEF Divides
    <3>2. PICK l \in U256 : d * l = b
      BY <2>4 DEF Divides
    <3>3. d \in Nat /\ k \in Nat /\ l \in Nat
      BY <2>4, <3>1, <3>2, ModArithConstants DEF U256
    <3> DEFINE m == s0 * k + t0 * l - k * (d * l)
    <3>4. s0 * (d * k) + t0 * (d * l) = r0 + (d * k) * (d * l)
      BY <1>1, <3>1, <3>2 DEF IInv
    <3>5. d * m = s0 * (d * k) + t0 * (d * l) - (d * k) * (d * l)
      BY <2>1, <3>3
    <3>6. m \in Int /\ d * m = r0
      BY <2>1, <3>3, <3>4, <3>5
    <3> QED
      BY <2>1, <3>6, QuotientFits
  <2> QED
    BY <2>3, <2>4
<1> QED
  BY <1>1 DEF Greatest

(* What is returned is the greatest common divisor.                        *)
THEOREM ReturnsGcd == Spec => []Greatest
  BY IsGreatest, Invariance, PTL

(* What is one more than a multiple leaves the remainder one.              *)
LEMMA OneMore ==
    ASSUME NEW v \in Nat, NEW n \in Nat, n > 1, NEW m \in Int, v = 1 + n * m
    PROVE  v % n = 1
<1> DEFINE k == v \div n
           e == v % n
<1>1. v = n * k + e /\ k \in Nat /\ e \in 0 .. n - 1
  BY Division
<1> HIDE DEF k, e
<1>2. n * (m - k) = e - 1
  BY <1>1
<1>3. m - k = 0
  <2>1. CASE m - k >= 1
    <3>1. n * (m - k) >= n
      BY <2>1, <1>1
    <3> QED
      BY <1>1, <1>2, <3>1
  <2>2. CASE m - k <= -1
    <3>1. n * (m - k) <= - n
      BY <2>2, <1>1
    <3> QED
      BY <1>1, <1>2, <3>1
  <2> QED
    BY <1>1, <2>1, <2>2
<1>4. e = 1
  BY <1>1, <1>2, <1>3
<1> QED
  BY <1>4 DEF e

(* Only one divides one.                                                   *)
LEMMA UnitDivisor ==
    ASSUME NEW g \in Nat, NEW m \in Int, g * m = 1
    PROVE  g = 1
<1>1. CASE g >= 2
  <2>1. m >= 1
    BY <1>1
  <2>2. g * m >= g
    BY <1>1, <2>1
  <2> QED
    BY <1>1, <2>2
<1> QED
  BY <1>1

(* Bezout's coefficient, reduced, is an inverse.                           *)
LEMMA ReducedInverse ==
    ASSUME NEW u \in Nat, NEW v \in Nat, NEW c \in Nat, NEW n \in Nat, n > 1,
           u * c + v * n = 1 + c * n
    PROVE  u % n \in 0 .. n - 1 /\ ((u % n) * c) % n = 1
<1> DEFINE x == u % n
           k == u \div n
<1>1. u = n * k + x /\ k \in Nat /\ x \in 0 .. n - 1
  BY Division
<1> HIDE DEF x, k
<1>2. u * c = n * (k * c) + x * c
  BY <1>1
<1>3. x * c = 1 + n * (c - v - k * c)
  BY <1>1, <1>2
<1>4. x * c \in Nat /\ c - v - k * c \in Int
  BY <1>1
<1>5. (x * c) % n = 1
  BY <1>3, <1>4, OneMore
<1> QED
  BY <1>1, <1>5 DEF x

LEMMA IsInverse == IInv => Inverse
<1>1. ASSUME IInv, outcome = "Returned", b > 1, r0 = 1
      PROVE  s0 % b \in 0 .. b - 1 /\ ((s0 % b) * a) % b = 1
  <2>1. /\ a \in Nat /\ b \in Nat /\ s0 \in Nat /\ t0 \in Nat
        /\ s0 * a + t0 * b = 1 + a * b
    BY <1>1, ModArithConstants DEF IInv, TypeOK, U256
  <2> QED
    BY <1>1, <2>1, ReducedInverse
<1>2. ASSUME IInv, outcome = "Returned", b > 1, NEW x \in 0 .. b - 1, (x * a) % b = 1
      PROVE  r0 = 1
  <2> DEFINE k == (x * a) \div b
  <2>1. /\ a \in Nat /\ b \in Nat /\ r0 \in Nat /\ s1 \in Nat /\ t1 \in Nat /\ x \in Nat
    BY <1>2, ModArithConstants DEF IInv, TypeOK, U256
  <2>2. r0 * t1 = a /\ r0 * s1 = b
    BY <1>2, <2>1 DEF IInv, Sums, TypeOK, U256
  <2>3. x * a = b * k + 1 /\ k \in Nat
    <3>1. x * a \in Nat
      BY <2>1
    <3> QED
      BY <1>2, <2>1, <3>1, Division
  <2> HIDE DEF k
  <2>4. r0 * (x * t1 - s1 * k) = x * (r0 * t1) - (r0 * s1) * k
    BY <2>1, <2>3
  <2>5. r0 * (x * t1 - s1 * k) = 1 /\ x * t1 - s1 * k \in Int
    BY <2>1, <2>2, <2>3, <2>4
  <2> QED
    BY <2>1, <2>5, UnitDivisor
<1> QED
  BY <1>1, <1>2 DEF Inverse, mod_inv

(* mod_inv returns the inverse exactly when there is one.                  *)
THEOREM ReturnsInverse == Spec => []Inverse
  BY IsInverse, Invariance, PTL

-----------------------------------------------------------------------------
(* Numbers a multiple apart leave the same remainder.                      *)
LEMMA SameRemainder ==
    ASSUME NEW m \in Nat, NEW v \in Nat, NEW n \in Nat \ {0}, NEW q \in Int, m = v + n * q
    PROVE  m % n = v % n
<1> DEFINE k == m \div n
           l == v \div n
           e == m % n
           g == v % n
<1>1. /\ m = n * k + e /\ k \in Nat /\ e \in 0 .. n - 1
      /\ v = n * l + g /\ l \in Nat /\ g \in 0 .. n - 1
  BY Division
<1> HIDE DEF k, l, e, g
<1> DEFINE d == l + q - k
<1>2. n * d = e - g /\ d \in Int
  BY <1>1
<1> HIDE DEF d
<1>3. d = 0
  <2>1. CASE d >= 1
    <3>1. n * d >= n
      BY <1>2, <2>1
    <3> QED
      BY <1>1, <1>2, <3>1
  <2>2. CASE d <= -1
    <3>1. n * d <= - n
      BY <1>2, <2>2
    <3> QED
      BY <1>1, <1>2, <3>1
  <2> QED
    BY <1>2, <2>1, <2>2
<1>4. e = g
  BY <1>1, <1>2, <1>3
<1> QED
  BY <1>4 DEF e, g

LEMMA BelowItself ==
    ASSUME NEW n \in Nat \ {0}, NEW m \in 0 .. n - 1
    PROVE  m % n = m
  OBVIOUS

\* What the lemmas below relate, each opaque until it is needed.
Combined(h, d, r_, x, n) == (((h * x) % n) + (((r_ * x) % n) * d)) % n
Undoes(x, s_, n) == (x * s_) % n = 1
MultipleOf(p, x, v, n) == \E q \in Int : p = x * v + n * q
OnlyQuotient(p, s_, v, n) ==
    /\ (p * s_) % n = v % n
    /\ \A k \in 0 .. n - 1 : (k * s_) % n = v % n => k = p

(* The two multiples, as the contract computes them: the quotients that    *)
(* the remainders leave out add up.                                        *)
LEMMA PointParts ==
    ASSUME NEW h \in Nat, NEW d \in Nat, NEW r_ \in Nat, NEW x \in Nat, NEW n \in Nat \ {0}
    PROVE  MultipleOf(Combined(h, d, r_, x, n), x, h + r_ * d, n)
<1> DEFINE hx == h * x
           rx == r_ * x
           q1 == hx \div n
           q2 == rx \div n
           e1 == hx % n
           e2 == rx % n
           sum == e1 + e2 * d
           q3 == sum \div n
<1>1. hx \in Nat /\ rx \in Nat
  OBVIOUS
<1> HIDE DEF hx, rx
<1>2. /\ hx = n * q1 + e1 /\ q1 \in Nat /\ e1 \in 0 .. n - 1
      /\ rx = n * q2 + e2 /\ q2 \in Nat /\ e2 \in 0 .. n - 1
  BY <1>1, Division
<1> HIDE DEF q1, q2, e1, e2
<1>3. sum \in Nat
  BY <1>2
<1> HIDE DEF sum
<1>4. sum = n * q3 + (sum % n) /\ q3 \in Nat /\ sum % n \in Nat
  BY <1>3, Division
<1> HIDE DEF q3
<1> DEFINE q == 0 - q1 - q2 * d - q3
           p == sum % n
<1>5. q \in Int /\ p \in Nat /\ sum = n * q3 + p
  BY <1>2, <1>4
<1> HIDE DEF p
<1>6. p = x * (h + r_ * d) + n * q
  <2>1. p = (hx - n * q1) + (rx - n * q2) * d - n * q3
    BY <1>1, <1>2, <1>4, <1>5 DEF sum
  <2>2. (hx - n * q1) + (rx - n * q2) * d - n * q3 = hx + rx * d + n * q
    BY <1>1, <1>2, <1>4
  <2>3. hx + rx * d = x * (h + r_ * d)
    BY DEF hx, rx
  <2>4. x * (h + r_ * d) \in Nat /\ n * q \in Int
    BY <1>5
  <2> QED
    BY <2>1, <2>2, <2>3
<1> QED
  BY <1>5, <1>6 DEF p, sum, e1, e2, hx, rx, Combined, MultipleOf

(* A number times the inverse of s: its product with s is congruent to it. *)
LEMMA InverseUndoes ==
    ASSUME NEW v \in Nat, NEW s_ \in Nat, NEW x \in Nat, NEW n \in Nat \ {0}, n > 1,
           Undoes(x, s_, n), NEW p \in 0 .. n - 1, MultipleOf(p, x, v, n)
    PROVE  OnlyQuotient(p, s_, v, n)
<1>0. PICK q \in Int : p = x * v + n * q
  BY DEF MultipleOf
<1>a. v = n * (v \div n) + (v % n) /\ v \div n \in Nat /\ v % n \in Nat
  <2>1. v = n * (v \div n) + (v % n) /\ v \div n \in Nat /\ v % n \in 0 .. n - 1
    BY Division, Zenon
  <2>2. \A e \in 0 .. n - 1 : e \in Nat
    OBVIOUS
  <2> QED
    BY <2>1, <2>2, Zenon
<1> DEFINE xs == x * s_
           q4 == xs \div n
<1>1. xs \in Nat
  OBVIOUS
<1>2. xs = 1 + n * q4 /\ q4 \in Nat
  <2> HIDE DEF xs
  <2>1. xs = n * q4 + (xs % n) /\ q4 \in Nat
    BY <1>1, Division
  <2>2. xs % n = 1
    BY DEF xs, Undoes
  <2> QED
    BY <1>1, <2>1, <2>2
<1> HIDE DEF q4
<1>3. (p * s_) % n = v % n
  <2> DEFINE m == q4 * v + q * s_
  <2>1. p * s_ \in Nat /\ m \in Int
    BY <1>2
  <2>2. p * s_ = xs * v + n * (q * s_)
    BY <1>0
  <2>3. xs * v = v + n * (q4 * v)
    <3> HIDE DEF xs
    <3> QED
      BY <1>1, <1>2
  <2>4. p * s_ = v + n * m
    BY <1>2, <2>2, <2>3
  <2> HIDE DEF m
  <2> DEFINE ps == p * s_
  <2> HIDE DEF ps
  <2>5. ps \in Nat /\ ps = v + n * m
    BY <2>1, <2>4 DEF ps
  <2>6. ps % n = v % n
    BY <2>1, <2>5, SameRemainder
  <2> QED
    BY <2>6 DEF ps
<1>4. ASSUME NEW k \in 0 .. n - 1, (k * s_) % n = v % n PROVE k = p
  <2> DEFINE ks == k * s_
             l1 == ks \div n
             l2 == v \div n
             e == v % n
             m == q + x * (l2 - l1) + k * q4
  <2>1. ks \in Nat /\ k \in Nat
    OBVIOUS
  <2> HIDE DEF ks
  <2>2. ks = n * l1 + (ks % n) /\ l1 \in Nat /\ v = n * l2 + e /\ l2 \in Nat /\ e \in Nat
    <3>1. ks = n * l1 + (ks % n) /\ l1 \in Nat
      BY <2>1, Division
    <3>2. v = n * l2 + e /\ l2 \in Nat /\ e \in Nat
      BY <1>a
    <3> QED
      BY <3>1, <3>2
  <2>3. ks % n = e
    BY <1>4 DEF ks
  <2> HIDE DEF l1, l2, e
  <2>4. ks = v + n * (l1 - l2)
    BY <2>1, <2>2, <2>3
  <2>5. k * xs = x * ks
    BY DEF ks
  <2>6. k * xs = k + n * (k * q4)
    <3> HIDE DEF xs
    <3> QED
      BY <1>1, <1>2, <2>1
  <2>7. x * ks = x * v + n * (x * (l1 - l2))
    BY <2>1, <2>2, <2>4
  <2>8. p = k + n * m
    <3> DEFINE c1 == x * v
               c2 == x * (l1 - l2)
               c3 == k * q4
    <3>1. k + n * c3 = c1 + n * c2
      BY <2>5, <2>6, <2>7
    <3>2. c1 \in Nat /\ c2 \in Int /\ c3 \in Int /\ m = q - c2 + c3
      BY <1>2, <2>1, <2>2
    <3>3. p = c1 + n * q
      BY <1>0
    <3> HIDE DEF c1, c2, c3, m
    <3> QED
      BY <2>1, <3>1, <3>2, <3>3
  <2>9. m \in Int
    BY <1>2, <2>1, <2>2
  <2> HIDE DEF m
  <2>10. p % n = k % n
    BY <2>1, <2>8, <2>9, SameRemainder
  <2> QED
    BY <2>10, BelowItself
<1> QED
  BY <1>3, <1>4 DEF OnlyQuotient

(* What divides a prime and a smaller positive number is one.              *)
LEMMA PrimeCommonDivisor ==
    ASSUME NEW g \in Nat, NEW n \in Nat \ {0}, \A d \in 2 .. n - 1 : n % d # 0,
           NEW c \in 1 .. n - 1, NEW k \in Nat, g * k = c, NEW l \in Nat, g * l = n
    PROVE  g = 1
<1>1. g # 0
  OBVIOUS
<1>2. k # 0
  OBVIOUS
<1>3. g <= c
  <2>1. k - 1 \in Nat
    BY <1>2
  <2>2. g * (k - 1) \in Nat /\ g * k = g + g * (k - 1)
    BY <2>1
  <2> QED
    BY <2>2
<1>4. g >= 2 => FALSE
  <2> SUFFICES ASSUME g >= 2 PROVE FALSE
    OBVIOUS
  <2>1. g \in 2 .. n - 1
    BY <1>3
  <2>2. n = 0 + g * l /\ 0 \in Nat /\ l \in Int /\ g \in Nat \ {0}
    BY <1>1
  <2>3. n % g = 0 % g
    BY <2>2, SameRemainder
  <2>4. 0 % g = 0
    BY <2>1, BelowItself
  <2> QED
    BY <2>1, <2>3, <2>4
<1> QED
  BY <1>1, <1>4

-----------------------------------------------------------------------------
(* The inductive invariant of the verification.                            *)
Inverting ==
    /\ r \in 1 .. Order - 1 /\ s \in 1 .. Order - 1
    /\ a = s /\ b = Order
    /\ Len(sig) >= 2 * WordLen

Decided == verdict = "OK" <=> Len(sig) >= 2 * WordLen /\ Signed

EInv ==
    /\ IInv
    /\ msg_hash \in Nat /\ public_key_pt \in Nat /\ sig \in Seq(0 .. Base - 1)
    /\ verdict \in {"extract", "invert", "direct"} \union Verdicts
    /\ verdict = "invert" => Inverting
    /\ verdict \in Verdicts => Decided

(* The constants, one by one.                                              *)
LEMMA Curve ==
    /\ Order \in Nat /\ Order > 1 /\ Order <= MaxU256 /\ MaxU256 \in Nat
    /\ Order \in Nat \ {0} /\ Order # 0
    /\ Base \in Nat /\ WordLen \in Nat /\ WordLen > 0
  BY EcdsaConstants, ModArithConstants

LEMMA CallIInv ==
    ASSUME NEW x \in U256, NEW y \in U256, call_extended_gcd(x, y)
    PROVE  IInv' /\ a' = x /\ b' = y
<1>1. 0 \in U256 /\ 1 \in U256
  BY ModArithConstants DEF U256
<1>2. TypeOK' /\ NeverPanics'
  BY <1>1 DEF call_extended_gcd, TypeOK, NeverPanics
<1>3. x \in Nat /\ y \in Nat
  BY ModArithConstants DEF U256
<1>4. Sums' /\ Signs' /\ Bounds'
  BY <1>3 DEF call_extended_gcd, Sums, Signs, Bounds
<1> QED
  BY <1>2, <1>4 DEF IInv, call_extended_gcd

(* Before and beside the calls nothing is decided.                         *)
LEMMA InitEInv == ASSUME EcdsaInit \/ DirectInit PROVE EInv
<1>1. CASE EcdsaInit
  <2>1. 0 \in U256 /\ 1 \in U256
    BY ModArithConstants DEF U256
  <2>2. Start(0, 0) /\ verdict = "extract"
    BY <1>1 DEF EcdsaInit
  <2>3. TypeOK /\ NeverPanics
    BY <2>1, <2>2 DEF Start, TypeOK, NeverPanics
  <2>4. Sums /\ Signs /\ Bounds
    BY <2>2 DEF Start, Sums, Signs, Bounds
  <2>5. IInv
    BY <2>2, <2>3, <2>4 DEF IInv, Start
  <2>6. msg_hash \in Nat /\ public_key_pt \in Nat /\ sig \in Seq(0 .. Base - 1)
    BY <1>1, EcdsaConstants DEF EcdsaInit
  <2> QED
    BY <2>2, <2>5, <2>6 DEF EInv, Verdicts
<1>2. CASE DirectInit
  <2>1. IInv
    BY <1>2, InitIInv DEF DirectInit
  <2>2. msg_hash \in Nat /\ public_key_pt \in Nat /\ sig \in Seq(0 .. Base - 1)
    BY <1>2, EcdsaConstants DEF DirectInit
  <2> QED
    BY <1>2, <2>1, <2>2 DEF EInv, DirectInit, Verdicts
<1> QED
  BY <1>1, <1>2

(* There are an r and an s exactly when there are bytes enough for both.   *)
LEMMA BothFound ==
    ASSUME NEW bytes \in Seq(0 .. Base - 1)
    PROVE  /\ extract_r_and_s_from_array(bytes) = "Some" <=> Len(bytes) >= 2 * WordLen
           /\ extract_r_and_s_from_array(bytes) # "PANIC"
<1> DEFINE n == Len(bytes)
<1>1. n \in Nat
  OBVIOUS
<1> HIDE DEF n
<1>2. /\ extract_u256_from_u8_array(bytes, 0) =
            IF n < WordLen THEN "None" ELSE "Some"
      /\ n >= WordLen => extract_u256_from_u8_array(bytes, WordLen) =
            IF n - WordLen < WordLen THEN "None" ELSE "Some"
  BY <1>1, Curve DEF extract_u256_from_u8_array, n
<1>3. CASE n < WordLen
  <2>1. extract_r_and_s_from_array(bytes) = "None"
    BY <1>2, <1>3 DEF extract_r_and_s_from_array
  <2>2. ~ (n >= 2 * WordLen)
    BY <1>1, <1>3, Curve
  <2> QED
    BY <2>1, <2>2 DEF n
<1>4. CASE ~ (n < WordLen)
  <2>1. extract_r_and_s_from_array(bytes) =
            IF n - WordLen < WordLen THEN "None" ELSE "Some"
    BY <1>1, <1>2, <1>4, Curve DEF extract_r_and_s_from_array
  <2>2. n - WordLen < WordLen <=> ~ (n >= 2 * WordLen)
    BY <1>1, <1>4, Curve
  <2> QED
    BY <2>1, <2>2 DEF n
<1> QED
  BY <1>3, <1>4

(* An integer that passes for an entry is one of the curve.                *)
LEMMA EntryRange ==
    ASSUME NEW n \in Nat
    PROVE  is_signature_entry_valid(n) <=> n \in 1 .. Order - 1
  BY Curve DEF is_signature_entry_valid

(* The value of bytes is a natural number.                                 *)
LEMMA BigEndianTyped ==
    ASSUME NEW bytes \in Seq(0 .. Base - 1), NEW offset \in Nat,
           Len(bytes) >= offset + WordLen
    PROVE  big_endian(bytes, offset) \in Nat
<1> DEFINE Computes(f) ==
              f = [i \in 0 .. WordLen |->
                      IF i = 0 THEN 0 ELSE Base * f[i - 1] + bytes[offset + i]]
           g == CHOOSE f : Computes(f)
           digits == [i \in 1 .. WordLen |-> bytes[offset + i]]
<1>1. digits \in [1 .. WordLen -> Nat]
  <2>1. ASSUME NEW i \in 1 .. WordLen
        PROVE  bytes[offset + i] \in Nat
    <3> DEFINE k == offset + i
    <3>1. k \in 1 .. Len(bytes)
      BY Curve
    <3> HIDE DEF k
    <3>2. bytes[k] \in 0 .. Base - 1
      <4> DEFINE Bytes == 0 .. Base - 1
      <4>1. bytes \in Seq(Bytes)
        OBVIOUS
      <4> HIDE DEF Bytes
      <4>2. bytes[k] \in Bytes
        BY <3>1, <4>1
      <4> QED
        BY <4>2 DEF Bytes
    <3> QED
      BY <3>2, Curve DEF k
  <2> QED
    BY <2>1
<1>2. PICK f \in [0 .. WordLen -> Nat] : Reads(f, Base, digits, WordLen)
  <2> HIDE DEF digits
  <2> QED
    BY <1>1, ReadingExists, Curve, Zenon
<1>3. Computes(f)
  <2>1. ASSUME NEW i \in 0 .. WordLen
        PROVE  f[i] = IF i = 0 THEN 0 ELSE Base * f[i - 1] + bytes[offset + i]
    <3>1. CASE i = 0
      BY <1>2, <3>1 DEF Reads
    <3>2. CASE i # 0
      <4>1. i \in 1 .. WordLen
        BY <3>2, Curve
      <4> QED
        BY <1>2, <3>2, <4>1 DEF Reads
    <3> QED
      BY <3>1, <3>2
  <2> QED
    BY <1>2, <2>1
<1>4. Computes(g)
  <2> HIDE DEF Computes
  <2> QED
    BY <1>3
<1>5. g[WordLen] \in Nat
  <2>1. Reads(g, Base, digits, WordLen)
    <3>1. g[0] = 0
      <4>1. 0 \in 0 .. WordLen
        BY Curve
      <4> QED
        BY <1>4, <4>1
    <3>2. ASSUME NEW i \in 1 .. WordLen
          PROVE  g[i] = Base * g[i - 1] + digits[i]
      <4>1. i \in 0 .. WordLen /\ i # 0
        BY Curve
      <4> HIDE DEF g
      <4> QED
        BY <1>4, <4>1
    <3> HIDE DEF g, digits
    <3> QED
      BY <3>1, <3>2 DEF Reads
  <2> HIDE DEF g, digits
  <2>2. g[WordLen] = f[WordLen]
    BY <1>2, <2>1, SameReading, Curve
  <2> QED
    BY <1>2, <2>2, Curve
<1>6. big_endian(bytes, offset) = g[WordLen]
  BY DEF big_endian
<1> QED
  BY <1>5, <1>6

LEMMA VerifySignatureEInv == ASSUME EInv, verify_signature PROVE EInv'
<1>1. /\ IInv /\ verdict = "extract"
      /\ msg_hash \in Nat /\ public_key_pt \in Nat /\ sig \in Seq(0 .. Base - 1)
  BY DEF EInv, verify_signature
<1>2. msg_hash' = msg_hash /\ public_key_pt' = public_key_pt /\ sig' = sig
  BY DEF verify_signature, arguments
<1>3. ASSUME extract_r_and_s_from_array(sig) = "Some",
             r' = big_endian(sig, 0), s' = big_endian(sig, WordLen)
      PROVE  r' \in Nat /\ s' \in Nat /\ Len(sig) >= 2 * WordLen
  <2>1. Len(sig) >= 2 * WordLen /\ Len(sig) \in Nat
    BY <1>1, <1>3, BothFound
  <2>2. Len(sig) >= 0 + WordLen /\ Len(sig) >= WordLen + WordLen
    BY <2>1, Curve
  <2>3. big_endian(sig, 0) \in Nat /\ big_endian(sig, WordLen) \in Nat
    BY <1>1, <2>2, BigEndianTyped, Curve
  <2> QED
    BY <1>3, <2>1, <2>3
<1>4. CASE /\ extract_r_and_s_from_array(sig) = "Some"
           /\ r' = big_endian(sig, 0) /\ s' = big_endian(sig, WordLen)
           /\ is_signature_entry_valid(r') /\ is_signature_entry_valid(s')
           /\ verdict' = "invert"
           /\ call_extended_gcd(s', Order)
  <2>1. r' \in 1 .. Order - 1 /\ s' \in 1 .. Order - 1 /\ Len(sig) >= 2 * WordLen
    BY <1>3, <1>4, EntryRange
  <2>2. s' \in U256 /\ Order \in U256
    BY <2>1, Curve DEF U256
  <2>3. IInv' /\ a' = s' /\ b' = Order
    BY <1>4, <2>2, CallIInv
  <2> QED
    BY <1>1, <1>2, <1>4, <2>1, <2>3 DEF EInv, Inverting, Verdicts
<1>5. CASE /\ extract_r_and_s_from_array(sig) = "Some"
           /\ r' = big_endian(sig, 0) /\ s' = big_endian(sig, WordLen)
           /\ ~ (is_signature_entry_valid(r') /\ is_signature_entry_valid(s'))
           /\ verdict' = "WrongArgument"
           /\ UNCHANGED vars
  <2>1. ~ (r' \in 1 .. Order - 1 /\ s' \in 1 .. Order - 1)
    BY <1>3, <1>5, EntryRange
  <2>2. Decided'
    BY <1>5, <2>1 DEF Decided, Signed
  <2>3. IInv'
    BY <1>1, <1>5, NextIInv
  <2> QED
    BY <1>1, <1>2, <1>5, <2>2, <2>3 DEF EInv, Verdicts
<1>6. CASE /\ extract_r_and_s_from_array(sig) # "Some"
           /\ verdict' = IF extract_r_and_s_from_array(sig) = "None"
                         THEN "InvalidSignature" ELSE "PANIC"
           /\ UNCHANGED <<vars, r, s>>
  <2>1. ~ (Len(sig) >= 2 * WordLen) /\ extract_r_and_s_from_array(sig) # "PANIC"
    BY <1>1, <1>6, BothFound
  <2>2. extract_r_and_s_from_array(sig) = "None"
    BY <1>6, <2>1 DEF extract_r_and_s_from_array, extract_u256_from_u8_array
  <2>3. verdict' = "InvalidSignature"
    BY <1>6, <2>2
  <2>4. Decided'
    BY <1>2, <2>1, <2>3 DEF Decided
  <2>5. IInv'
    BY <1>1, <1>6, NextIInv
  <2> QED
    BY <1>1, <1>2, <2>3, <2>4, <2>5 DEF EInv, Verdicts
<1> QED
  BY <1>4, <1>5, <1>6 DEF verify_signature

(* The arguments of the call stay what they are.                           *)
LEMMA ExtendedGcdEInv == ASSUME EInv, extended_gcd PROVE EInv'
<1>1. [Next]_vars
  BY DEF extended_gcd, Next
<1>2. IInv'
  BY <1>1, NextIInv DEF EInv
<1>3. a' = a /\ b' = b
  BY DEF extended_gcd, Round, Lift
<1>4. /\ msg_hash' = msg_hash /\ public_key_pt' = public_key_pt /\ sig' = sig
      /\ r' = r /\ s' = s /\ verdict' = verdict
      /\ verdict \in {"invert", "direct"}
  BY DEF extended_gcd, arguments
<1>5. Inverting => Inverting'
  BY <1>3, <1>4 DEF Inverting
<1> QED
  BY <1>2, <1>4, <1>5 DEF EInv, Verdicts

(* What extended_gcd has returned for s and the order: s has an inverse.   *)
LEMMA HasInverse ==
    ASSUME IInv, Inverting, outcome = "Returned"
    PROVE  \E x \in 0 .. Order - 1 : mod_inv = <<x>> /\ (x * s) % Order = 1
<1>1. /\ s \in 1 .. Order - 1 /\ a = s /\ b = Order
      /\ s \in Nat /\ r0 \in Nat /\ s0 \in Nat /\ t0 \in Nat /\ s1 \in Nat /\ t1 \in Nat
      /\ r1 = 0 /\ s0 * s + t0 * Order = r0 + s * Order
  BY Curve DEF IInv, Inverting, TypeOK, U256
<1>2. r0 * t1 = s /\ r0 * s1 = Order
  <2>1. s1 * r0 + s0 * 0 = Order /\ t1 * r0 + t0 * 0 = s
    BY <1>1 DEF IInv, Sums
  <2> QED
    BY <1>1, <2>1
<1>3. r0 = 1
  <2>1. \A d \in 2 .. Order - 1 : Order % d # 0
    BY EcdsaConstants
  <2> QED
    BY <1>1, <1>2, <2>1, Curve, PrimeCommonDivisor
<1>4. s0 * s + t0 * Order = 1 + s * Order
  BY <1>1, <1>3
<1>5. s0 % Order \in 0 .. Order - 1 /\ ((s0 % Order) * s) % Order = 1
  BY <1>1, <1>4, Curve, ReducedInverse
<1>6. mod_inv = <<s0 % Order>>
  BY <1>1, <1>3 DEF mod_inv
<1> QED
  BY <1>5, <1>6

(* The point computed is the multiple that the signer's nonce would be.    *)
LEMMA PointIsNonce ==
    ASSUME msg_hash \in Nat, public_key_pt \in Nat, r \in Nat, s \in Nat,
           NEW x \in 0 .. Order - 1, (x * s) % Order = 1
    PROVE  /\ point(x) \in 0 .. Order - 1
           /\ OnlyQuotient(point(x), s, msg_hash + r * public_key_pt, Order)
<1> DEFINE v == msg_hash + r * public_key_pt
           p == Combined(msg_hash, public_key_pt, r, x, Order)
<1>1. x \in Nat /\ v \in Nat /\ Undoes(x, s, Order)
  BY Curve DEF Undoes
<1>2. point(x) = p
  BY Curve DEF point, mod_mul, Combined
<1>3. MultipleOf(p, x, v, Order)
  BY <1>1, Curve, PointParts
<1>4. p \in 0 .. Order - 1
  <2> DEFINE h1 == msg_hash * x
             h2 == r * x
             e1 == h1 % Order
             e2 == h2 % Order
             sum == e1 + (e2 * public_key_pt)
  <2>1. h1 \in Nat /\ h2 \in Nat
    BY <1>1
  <2> HIDE DEF h1, h2
  <2>2. e1 \in Nat /\ e2 \in Nat
    BY <2>1, Curve, Division
  <2> HIDE DEF e1, e2
  <2>3. sum \in Nat
    BY <2>2
  <2> HIDE DEF sum
  <2>4. sum % Order \in 0 .. Order - 1
    BY <2>3, Curve, Division
  <2> QED
    BY <2>4 DEF sum, e1, e2, h1, h2, Combined
<1> HIDE DEF p, v
<1>5. OnlyQuotient(p, s, v, Order)
  BY <1>1, <1>3, <1>4, Curve, InverseUndoes
<1> QED
  BY <1>2, <1>4, <1>5 DEF v

LEMMA VerifyHashedEcdsaEInv == ASSUME EInv, verify_hashed_ecdsa PROVE EInv'
<1>1. /\ IInv /\ verdict = "invert" /\ Inverting
      /\ msg_hash \in Nat /\ public_key_pt \in Nat /\ sig \in Seq(0 .. Base - 1)
  BY DEF EInv, verify_hashed_ecdsa
<1>2. outcome = "Returned"
  BY <1>1 DEF IInv, TypeOK, NeverPanics, verify_hashed_ecdsa
<1>3. /\ r \in 1 .. Order - 1 /\ s \in 1 .. Order - 1 /\ r \in Nat /\ s \in Nat
      /\ Len(sig) >= 2 * WordLen
  BY <1>1, Curve DEF Inverting
<1>4. PICK x \in 0 .. Order - 1 : mod_inv = <<x>> /\ (x * s) % Order = 1
  BY <1>1, <1>2, HasInverse
<1> DEFINE p == point(x)
           v == msg_hash + r * public_key_pt
<1>5. p \in 0 .. Order - 1 /\ OnlyQuotient(p, s, v, Order)
  BY <1>1, <1>3, <1>4, PointIsNonce
<1>6. verdict' = IF r = Abscissa[p] % Order THEN "OK" ELSE "InvalidSignature"
  BY <1>2, <1>4 DEF verify_hashed_ecdsa
<1> HIDE DEF p
<1>7. r = Abscissa[p] % Order => p # 0
  <2>1. Abscissa[0] = 0 /\ 0 % Order = 0
    BY EcdsaConstants, Curve, BelowItself
  <2> QED
    BY <1>3, <2>1
<1>8. Signed <=> r = Abscissa[p] % Order
  <2>1. ASSUME Signed PROVE r = Abscissa[p] % Order
    <3>1. PICK k \in 1 .. Order - 1 :
             r = Abscissa[k] % Order /\ (k * s) % Order = v % Order
      BY <2>1 DEF Signed
    <3>2. k \in 0 .. Order - 1
      BY Curve
    <3>3. k = p
      BY <1>5, <3>1, <3>2 DEF OnlyQuotient
    <3> QED
      BY <3>1, <3>3
  <2>2. ASSUME r = Abscissa[p] % Order PROVE Signed
    <3>1. p \in 1 .. Order - 1
      BY <1>5, <1>7, <2>2, Curve
    <3>2. (p * s) % Order = v % Order
      BY <1>5 DEF OnlyQuotient
    <3> QED
      BY <1>3, <2>2, <3>1, <3>2 DEF Signed
  <2> QED
    BY <2>1, <2>2
<1>9. UNCHANGED <<vars, arguments, r, s>>
  BY DEF verify_hashed_ecdsa
<1>10. IInv'
  BY <1>1, <1>9, NextIInv
<1>11. msg_hash' = msg_hash /\ public_key_pt' = public_key_pt /\ sig' = sig /\ r' = r /\ s' = s
  BY <1>9 DEF arguments
<1>12. Signed' <=> Signed
  BY <1>11 DEF Signed
<1>13. Decided'
  BY <1>3, <1>6, <1>8, <1>11, <1>12 DEF Decided
<1> QED
  BY <1>1, <1>6, <1>10, <1>11, <1>13 DEF EInv, Verdicts

LEMMA EcdsaNextEInv == ASSUME EInv, [EcdsaNext]_ecdsa_vars PROVE EInv'
<1>1. CASE verify_signature
  BY <1>1, VerifySignatureEInv
<1>2. CASE extended_gcd
  BY <1>2, ExtendedGcdEInv
<1>3. CASE verify_hashed_ecdsa
  BY <1>3, VerifyHashedEcdsaEInv
<1>4. CASE UNCHANGED ecdsa_vars
  <2>1. /\ UNCHANGED vars /\ UNCHANGED arguments
        /\ r' = r /\ s' = s /\ verdict' = verdict
    BY <1>4 DEF ecdsa_vars
  <2>2. msg_hash' = msg_hash /\ public_key_pt' = public_key_pt /\ sig' = sig
    BY <2>1 DEF arguments
  <2>3. IInv'
    BY <2>1, NextIInv DEF EInv
  <2>4. (Inverting' <=> Inverting) /\ (Decided' <=> Decided)
    <3>1. a' = a /\ b' = b
      BY <2>1 DEF vars
    <3> QED
      BY <2>1, <2>2, <3>1 DEF Inverting, Decided, Signed
  <2> QED
    BY <2>1, <2>2, <2>3, <2>4 DEF EInv
<1> QED
  BY <1>1, <1>2, <1>3, <1>4 DEF EcdsaNext, Judged

LEMMA EcdsaInvariance == EcdsaSpec => []EInv
<1>1. EcdsaInit \/ DirectInit => EInv
  BY InitEInv
<1>2. EInv /\ [EcdsaNext]_ecdsa_vars => EInv'
  BY EcdsaNextEInv
<1> QED
  BY <1>1, <1>2, PTL DEF EcdsaSpec

(* Neither more nor fewer signatures are accepted than the holder of the   *)
(* key can make, and no signature makes the verification panic (its panics *)
(* are those of extended_gcd and of the offsets).                          *)
THEOREM AcceptsExactlySigned == EcdsaSpec => []AcceptsWhatIsSigned
<1>1. EInv => AcceptsWhatIsSigned
  BY DEF EInv, AcceptsWhatIsSigned, Decided, Verdicts
<1> QED
  BY <1>1, EcdsaInvariance, PTL

(* Every call of extended_gcd that the verification or a test makes is as  *)
(* the theorems above have it: in range, without a panic, and the gcd, its *)
(* coefficients and the inverse are what they should be.                   *)
THEOREM GcdWithinVerification ==
    EcdsaSpec => [](TypeOK /\ NeverPanics /\ Bezout /\ Greatest /\ Inverse)
<1>1. EInv => TypeOK /\ NeverPanics /\ Bezout /\ Greatest /\ Inverse
  BY IsGreatest, IsInverse DEF EInv, IInv, Bezout
<1> QED
  BY <1>1, EcdsaInvariance, PTL
=============================================================================
