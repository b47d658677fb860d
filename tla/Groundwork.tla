----------------------------- MODULE Groundwork -----------------------------
(***************************************************************************)
(* What the proofs about several parts rest on: induction and recursion    *)
(* over the natural numbers, stated for sets and functions instead of      *)
(* operators so that every lemma is first-order; powers, quotients and the *)
(* value of digits to a base; and sequences that are joined and cut.       *)
(***************************************************************************)
EXTENDS Powers, Sequences, WellFoundedInduction, TLAPS

LEMMA LeastNumber ==
    ASSUME NEW T, T \subseteq Nat, T # {}
    PROVE  \E n \in T : \A m \in T : ~ (m < n)
<1> DEFINE Less == {p \in Nat \X Nat : p[1] < p[2]}
<1>1. IsWellFoundedOn(Less, Nat)
  BY NatLessThanWellFounded DEF OpToRel
<1>2. \E n \in T : \A m \in T : ~ (<<m, n>> \in Less)
  <2> HIDE DEF Less
  <2> QED
    BY <1>1, WFMin
<1> QED
  BY <1>2

LEMMA SetInduction ==
    ASSUME NEW S, 0 \in S, \A n \in Nat : n \in S => n + 1 \in S
    PROVE  Nat \subseteq S
<1> DEFINE Missing == Nat \ S
<1>1. SUFFICES ASSUME Missing # {} PROVE FALSE
  OBVIOUS
<1>2. \E n \in Missing : \A m \in Missing : ~ (m < n)
  <2>1. Missing \subseteq Nat
    OBVIOUS
  <2> HIDE DEF Missing
  <2> QED
    BY <1>1, <2>1, LeastNumber
<1>3. PICK n \in Missing : \A m \in Missing : ~ (m < n)
  BY <1>2
<1>4. n - 1 \in Nat /\ n - 1 < n /\ n = (n - 1) + 1
  BY <1>3
<1>5. n - 1 \in S
  BY <1>3, <1>4
<1> QED
  BY <1>3, <1>4, <1>5

\* Two functions start alike and go on alike.
Alike(f, g, n) ==
    f[0] = g[0] /\ \A k \in 1 .. n : f[k - 1] = g[k - 1] => f[k] = g[k]

LEMMA RecursionAgrees ==
    ASSUME NEW f, NEW g, NEW n \in Nat, Alike(f, g, n)
    PROVE  \A k \in 0 .. n : f[k] = g[k]
<1> DEFINE S == {k \in Nat : k <= n => f[k] = g[k]}
<1>1. 0 \in S
  BY DEF Alike
<1>2. ASSUME NEW k \in Nat, k \in S
      PROVE  k + 1 \in S
  <2>1. SUFFICES ASSUME k + 1 <= n PROVE f[k + 1] = g[k + 1]
    OBVIOUS
  <2>2. k + 1 \in 1 .. n /\ (k + 1) - 1 = k /\ f[k] = g[k]
    BY <1>2, <2>1
  <2> QED
    BY <2>2 DEF Alike
<1>3. Nat \subseteq S
  <2> HIDE DEF S
  <2> QED
    BY <1>1, <1>2, SetInduction
<1> QED
  BY <1>3

\* A function starts at base and goes on by a step of its own for each argument.
Follows(f, base, step, n) ==
    f[0] = base /\ \A k \in 1 .. n : f[k] = step[k][f[k - 1]]

\* There is such a function whenever the steps stay within some set.
LEMMA RecursionExists ==
    ASSUME NEW T, NEW base \in T, NEW step \in [Nat -> [T -> T]], NEW n \in Nat
    PROVE  \E f \in [0 .. n -> T] : Follows(f, base, step, n)
<1> DEFINE S == {m \in Nat : \E f \in [0 .. m -> T] : Follows(f, base, step, m)}
<1>1. 0 \in S
  <2>1. /\ [k \in 0 .. 0 |-> base] \in [0 .. 0 -> T]
        /\ Follows([k \in 0 .. 0 |-> base], base, step, 0)
    BY DEF Follows
  <2> QED
    BY <2>1
<1>2. ASSUME NEW m \in Nat, m \in S
      PROVE  m + 1 \in S
  <2>1. PICK f \in [0 .. m -> T] : Follows(f, base, step, m)
    BY <1>2
  <2> DEFINE g == [k \in 0 .. m + 1 |-> IF k = m + 1 THEN step[m + 1][f[m]] ELSE f[k]]
  <2>2. step[m + 1][f[m]] \in T
    <3>1. m + 1 \in Nat /\ f[m] \in T
      BY <2>1
    <3> QED
      BY <3>1
  <2>3. g \in [0 .. m + 1 -> T]
    BY <2>1, <2>2
  <2>4. g[0] = base
    BY <2>1 DEF Follows
  <2>5. ASSUME NEW k \in 1 .. m + 1
        PROVE  g[k] = step[k][g[k - 1]]
    <3>1. CASE k = m + 1
      <4>1. g[k] = step[m + 1][f[m]] /\ g[k - 1] = f[m]
        BY <3>1
      <4> QED
        BY <3>1, <4>1
    <3>2. CASE k \in 1 .. m
      <4>1. g[k] = f[k] /\ g[k - 1] = f[k - 1]
        BY <3>2
      <4> QED
        BY <2>1, <3>2, <4>1 DEF Follows
    <3> QED
      BY <3>1, <3>2
  <2>6. Follows(g, base, step, m + 1)
    <3> HIDE DEF g
    <3> QED
      BY <2>4, <2>5 DEF Follows
  <2>7. \E h \in [0 .. m + 1 -> T] : Follows(h, base, step, m + 1)
    <3> HIDE DEF g
    <3> QED
      BY <2>3, <2>6
  <2> QED
    BY <2>7
<1>3. Nat \subseteq S
  <2> HIDE DEF S
  <2> QED
    BY <1>1, <1>2, SetInduction
<1> QED
  BY <1>3

-----------------------------------------------------------------------------
\* The recursive definition of power computes powers.
LEMMA PowerFunction ==
    ASSUME NEW base \in Nat, NEW m \in Nat
    PROVE  \E f \in [0 .. m -> Nat] :
              /\ f[0] = 1
              /\ \A k \in 1 .. m : f[k] = base * f[k - 1]
              /\ power(base, m) = f[m]
<1> DEFINE step == [k \in Nat |-> [x \in Nat |-> base * x]]
           Computes(f) == f = [k \in 0 .. m |-> IF k = 0 THEN 1 ELSE base * f[k - 1]]
<1>1. \E f \in [0 .. m -> Nat] : Follows(f, 1, step, m)
  <2>1. 1 \in Nat /\ step \in [Nat -> [Nat -> Nat]]
    OBVIOUS
  <2> HIDE DEF step
  <2> QED
    BY <2>1, RecursionExists, Zenon
<1>2. PICK f \in [0 .. m -> Nat] : Follows(f, 1, step, m)
  BY <1>1
<1>3. ASSUME NEW k \in 1 .. m
      PROVE  f[k] = base * f[k - 1]
  <2>1. k \in Nat /\ k - 1 \in 0 .. m
    OBVIOUS
  <2>2. f[k - 1] \in Nat
    BY <1>2, <2>1
  <2>3. f[k] = step[k][f[k - 1]]
    BY <1>2 DEF Follows
  <2> QED
    BY <2>1, <2>2, <2>3
<1>4. f[0] = 1
  BY <1>2 DEF Follows
<1> HIDE DEF step
<1>5. Computes(f)
  <2>1. \A k \in 0 .. m : f[k] = IF k = 0 THEN 1 ELSE base * f[k - 1]
    BY <1>3, <1>4
  <2> QED
    BY <1>2, <2>1
<1> DEFINE g == CHOOSE h : Computes(h)
<1>6. Computes(g)
  <2> HIDE DEF Computes
  <2> QED
    BY <1>5
<1>7. power(base, m) = g[m]
  BY DEF power
<1>8. \A k \in 0 .. m : f[k] = g[k]
  <2> HIDE DEF g
  <2>1. g[0] = 1
    BY <1>6
  <2>2. ASSUME NEW k \in 1 .. m, f[k - 1] = g[k - 1]
        PROVE  f[k] = g[k]
    BY <1>3, <1>6, <2>2
  <2>3. Alike(f, g, m)
    BY <1>4, <2>1, <2>2 DEF Alike
  <2> QED
    BY <2>3, RecursionAgrees
<1>9. power(base, m) = f[m]
  BY <1>7, <1>8
<1> HIDE DEF g, Computes
<1> QED
  BY <1>2, <1>3, <1>4, <1>9

LEMMA PowerZero == ASSUME NEW base \in Nat PROVE power(base, 0) = 1
BY PowerFunction

LEMMA PowerTyped ==
    ASSUME NEW base \in Nat, NEW m \in Nat
    PROVE  power(base, m) \in Nat
<1>1. PICK f \in [0 .. m -> Nat] :
          /\ f[0] = 1
          /\ \A k \in 1 .. m : f[k] = base * f[k - 1]
          /\ power(base, m) = f[m]
  BY PowerFunction, Zenon
<1>2. m \in 0 .. m
  OBVIOUS
<1> QED
  BY <1>1, <1>2, Zenon

LEMMA PowerNext ==
    ASSUME NEW base \in Nat, NEW m \in Nat
    PROVE  power(base, m + 1) = base * power(base, m)
<1>1. PICK f \in [0 .. m -> Nat] :
          /\ f[0] = 1
          /\ \A k \in 1 .. m : f[k] = base * f[k - 1]
          /\ power(base, m) = f[m]
  BY PowerFunction, Zenon
<1>2. PICK g \in [0 .. m + 1 -> Nat] :
          /\ g[0] = 1
          /\ \A k \in 1 .. m + 1 : g[k] = base * g[k - 1]
          /\ power(base, m + 1) = g[m + 1]
  <2>1. m + 1 \in Nat
    OBVIOUS
  <2> QED
    BY <2>1, PowerFunction, Zenon
<1>3. \A k \in 0 .. m : f[k] = g[k]
  <2>1. ASSUME NEW k \in 1 .. m, f[k - 1] = g[k - 1]
        PROVE  f[k] = g[k]
    BY <1>1, <1>2, <2>1
  <2>2. Alike(f, g, m)
    BY <1>1, <1>2, <2>1 DEF Alike
  <2> QED
    BY <2>2, RecursionAgrees
<1>4. g[m + 1] = base * g[m]
  BY <1>2
<1> QED
  BY <1>1, <1>2, <1>3, <1>4

LEMMA PowerPositive ==
    ASSUME NEW base \in Nat \ {0}, NEW m \in Nat
    PROVE  power(base, m) \in Nat \ {0}
<1> DEFINE S == {k \in Nat : power(base, k) \in Nat \ {0}}
<1>1. 0 \in S
  BY PowerZero
<1>2. ASSUME NEW k \in Nat, k \in S
      PROVE  k + 1 \in S
  <2>1. power(base, k + 1) = base * power(base, k)
    BY PowerNext
  <2>2. \A x \in Nat \ {0}, y \in Nat \ {0} : x * y \in Nat \ {0}
    OBVIOUS
  <2> QED
    BY <1>2, <2>1, <2>2
<1>3. Nat \subseteq S
  <2> HIDE DEF S
  <2> QED
    BY <1>1, <1>2, SetInduction
<1> QED
  BY <1>3

-----------------------------------------------------------------------------
LEMMA Division ==
    ASSUME NEW v \in Nat, NEW n \in Nat \ {0}
    PROVE  /\ v = n * (v \div n) + (v % n)
           /\ v \div n \in Nat /\ v % n \in 0 .. n - 1
  OBVIOUS

LEMMA MultiplesApart ==
    ASSUME NEW n \in Nat \ {0}, NEW q \in Int, NEW k \in Int, q < k
    PROVE  n * q + n <= n * k
<1>1. \A x \in Nat \ {0}, y \in Nat \ {0} : x <= x * y
  OBVIOUS
<1>2. k - q \in Nat \ {0}
  OBVIOUS
<1>3. n <= n * (k - q)
  BY <1>1, <1>2
<1>4. n * (k - q) = n * k - n * q
  OBVIOUS
<1>5. n * q \in Int /\ n * k \in Int
  OBVIOUS
<1> QED
  BY <1>3, <1>4, <1>5

LEMMA QuotientIs ==
    ASSUME NEW v \in Nat, NEW n \in Nat \ {0}, NEW q \in Nat, NEW e \in 0 .. n - 1,
           v = n * q + e
    PROVE  v \div n = q
<1> DEFINE k == v \div n
           d == v % n
<1>1. v = n * k + d /\ k \in Nat /\ d \in 0 .. n - 1
  BY Division
<1> HIDE DEF k, d
<1>2. n * k \in Int /\ n * q \in Int
  BY <1>1
<1>3. CASE k < q
  <2>1. n * k + n <= n * q
    BY <1>1, <1>3, MultiplesApart
  <2> QED
    BY <1>1, <1>2, <2>1
<1>4. CASE q < k
  <2>1. n * q + n <= n * k
    BY <1>1, <1>4, MultiplesApart
  <2> QED
    BY <1>1, <1>2, <2>1
<1>5. k = q
  BY <1>1, <1>3, <1>4
<1> QED
  BY <1>5 DEF k

\* A quotient by a product is a quotient of a quotient.
LEMMA QuotientOfQuotient ==
    ASSUME NEW v \in Nat, NEW n \in Nat \ {0}, NEW base \in Nat \ {0}
    PROVE  v \div (base * n) = (v \div n) \div base
<1> DEFINE k == v \div n
           d == v % n
           q == k \div base
           e == k % base
<1>1. v = n * k + d /\ k \in Nat /\ d \in 0 .. n - 1
  BY Division
<1>2. k = base * q + e /\ q \in Nat /\ e \in 0 .. base - 1
  <2> HIDE DEF k
  <2> QED
    BY <1>1, Division
<1> HIDE DEF k, d, q, e
<1>3. v = n * (base * q + e) + d
  BY <1>1, <1>2
<1>4. n * (base * q + e) = (base * n) * q + n * e
  BY <1>2
<1>5. v = (base * n) * q + (n * e + d)
  <2> DEFINE x == n * (base * q + e)
             y == (base * n) * q
             z == n * e
  <2>1. v = x + d /\ x = y + z /\ y \in Int /\ z \in Int
    BY <1>2, <1>3, <1>4
  <2> HIDE DEF x, y, z
  <2>2. v = y + (z + d)
    BY <1>1, <2>1
  <2> QED
    BY <2>2 DEF y, z
<1>6. base * n \in Nat \ {0}
  <2>1. \A x \in Nat \ {0}, y \in Nat \ {0} : x * y \in Nat \ {0}
    OBVIOUS
  <2> QED
    BY <2>1
<1>7. n * e + d \in 0 .. base * n - 1
  <2>1. n * e + n <= n * base
    <3>1. e \in Int /\ base \in Int /\ e < base
      BY <1>2
    <3> QED
      BY <3>1, MultiplesApart
  <2>2. n * e \in Nat
    BY <1>2
  <2>3. n * base = base * n
    OBVIOUS
  <2> QED
    BY <1>1, <1>6, <2>1, <2>2, <2>3
<1>8. v \div (base * n) = q
  <2> DEFINE m == base * n
             w == n * e + d
  <2>1. m \in Nat \ {0} /\ w \in 0 .. m - 1 /\ v = m * q + w
    BY <1>5, <1>6, <1>7
  <2> HIDE DEF m, w
  <2>2. v \div m = q
    BY <1>2, <2>1, QuotientIs
  <2> QED
    BY <2>2 DEF m
<1> QED
  BY <1>8 DEF q, k

\* The value of digits to a base, up to each of them.
Reads(f, base, digits, n) ==
    f[0] = 0 /\ \A k \in 1 .. n : f[k] = base * f[k - 1] + digits[k]

LEMMA ReadingExists ==
    ASSUME NEW base \in Nat, NEW n \in Nat, NEW digits \in [1 .. n -> Nat]
    PROVE  \E f \in [0 .. n -> Nat] : Reads(f, base, digits, n)
<1> DEFINE step == [k \in Nat |-> [x \in Nat |->
                       IF k \in 1 .. n THEN base * x + digits[k] ELSE 0]]
<1>1. step \in [Nat -> [Nat -> Nat]]
  <2>1. ASSUME NEW k \in Nat, NEW x \in Nat
        PROVE  (IF k \in 1 .. n THEN base * x + digits[k] ELSE 0) \in Nat
    <3>1. CASE k \in 1 .. n
      <4>1. digits[k] \in Nat /\ base * x \in Nat
        BY <3>1
      <4> QED
        BY <3>1, <4>1
    <3> QED
      BY <3>1
  <2> QED
    BY <2>1
<1>2. PICK f \in [0 .. n -> Nat] : Follows(f, 0, step, n)
  <2>1. 0 \in Nat
    OBVIOUS
  <2> HIDE DEF step
  <2> QED
    BY <1>1, <2>1, RecursionExists, Zenon
<1>3. ASSUME NEW k \in 1 .. n
      PROVE  f[k] = base * f[k - 1] + digits[k]
  <2>1. k \in Nat /\ k - 1 \in 0 .. n
    OBVIOUS
  <2>2. f[k - 1] \in Nat
    BY <1>2, <2>1
  <2>3. f[k] = step[k][f[k - 1]]
    BY <1>2 DEF Follows
  <2> QED
    BY <2>1, <2>2, <2>3
<1>4. f[0] = 0
  BY <1>2 DEF Follows
<1> HIDE DEF step
<1>5. Reads(f, base, digits, n)
  BY <1>3, <1>4 DEF Reads
<1> QED
  BY <1>2, <1>5

\* Any two of them agree.
LEMMA ReadingsAgree ==
    ASSUME NEW base \in Nat, NEW n \in Nat, NEW digits, NEW f, NEW g,
           Reads(f, base, digits, n), Reads(g, base, digits, n)
    PROVE  \A k \in 0 .. n : f[k] = g[k]
<1>1. ASSUME NEW k \in 1 .. n, f[k - 1] = g[k - 1]
      PROVE  f[k] = g[k]
  BY <1>1 DEF Reads
<1>2. Alike(f, g, n)
  BY <1>1 DEF Alike, Reads
<1> QED
  BY <1>2, RecursionAgrees

LEMMA SameReading ==
    ASSUME NEW base \in Nat, NEW n \in Nat, NEW digits, NEW f, NEW g,
           Reads(f, base, digits, n), Reads(g, base, digits, n)
    PROVE  f[n] = g[n]
<1>1. \A k \in 0 .. n : f[k] = g[k]
  BY ReadingsAgree
<1>2. n \in 0 .. n
  OBVIOUS
<1> QED
  BY <1>1, <1>2

\* Digits that come from a place on, zeros up to a place, values from a place on.
Continues(longer, h, digits, n) == \A k \in 1 .. n : longer[h + k] = digits[k]
ZerosUpTo(longer, h) == \A k \in 1 .. h : longer[k] = 0
shifted(f, h, n) == [k \in 0 .. n |-> f[h + k]]

\* Zeros in front count for nothing.
LEMMA LeadingZeros ==
    ASSUME NEW base \in Nat, NEW h \in Nat, NEW n \in Nat, NEW digits, NEW longer,
           NEW f, Reads(f, base, longer, h + n),
           ZerosUpTo(longer, h), Continues(longer, h, digits, n)
    PROVE  Reads(shifted(f, h, n), base, digits, n)
<1> DEFINE g == shifted(f, h, n)
<1>0. /\ \A k \in 1 .. h : longer[k] = 0
      /\ \A k \in 1 .. n : longer[h + k] = digits[k]
      /\ \A k \in 0 .. n : g[k] = f[h + k]
  BY DEF ZerosUpTo, Continues, shifted
<1> HIDE DEF g
<1> DEFINE S == {k \in Nat : k <= h => f[k] = 0}
<1>1. 0 \in S
  BY DEF Reads
<1>2. ASSUME NEW k \in Nat, k \in S
      PROVE  k + 1 \in S
  <2>1. SUFFICES ASSUME k + 1 <= h PROVE f[k + 1] = 0
    OBVIOUS
  <2>2. /\ k + 1 \in 1 .. h + n /\ k + 1 \in 1 .. h /\ (k + 1) - 1 = k
        /\ f[k] = 0 /\ base * 0 = 0
    BY <1>2, <2>1
  <2>3. f[k + 1] = base * f[k] + longer[k + 1]
    BY <2>2 DEF Reads
  <2> QED
    BY <1>0, <2>2, <2>3
<1>3. f[h] = 0
  <2>1. Nat \subseteq S
    <3> HIDE DEF S
    <3> QED
      BY <1>1, <1>2, SetInduction
  <2> QED
    BY <2>1
<1>4. g[0] = 0
  <2>1. 0 \in 0 .. n /\ h + 0 = h
    OBVIOUS
  <2> QED
    BY <1>0, <1>3, <2>1
<1>5. ASSUME NEW k \in 1 .. n
      PROVE  g[k] = base * g[k - 1] + digits[k]
  <2>1. /\ g[k] = f[h + k] /\ g[k - 1] = f[h + (k - 1)]
        /\ h + k \in 1 .. h + n /\ (h + k) - 1 = h + (k - 1)
    <3>1. k \in 0 .. n /\ k - 1 \in 0 .. n
      OBVIOUS
    <3> QED
      BY <1>0, <3>1
  <2>2. f[h + k] = base * f[(h + k) - 1] + longer[h + k]
    BY <2>1 DEF Reads
  <2> QED
    BY <1>0, <2>1, <2>2
<1> QED
  BY <1>4, <1>5 DEF Reads, g

LEMMA ZerosJoined ==
    ASSUME NEW h \in Nat, NEW bytes \in Seq(Nat),
           NEW longer, longer = [i \in 1 .. h |-> 0] \o bytes
    PROVE  /\ longer \in Seq(Nat) /\ Len(longer) = h + Len(bytes)
           /\ ZerosUpTo(longer, h) /\ Continues(longer, h, bytes, Len(bytes))
<1> DEFINE zeros == [i \in 1 .. h |-> 0]
<1>1. zeros \in Seq(Nat) /\ Len(zeros) = h /\ \A k \in 1 .. h : zeros[k] = 0
  OBVIOUS
<1>2. longer = zeros \o bytes
  OBVIOUS
<1> HIDE DEF zeros
<1>3. longer \in Seq(Nat) /\ Len(longer) = h + Len(bytes)
  BY <1>1, <1>2
<1>4. \A k \in 1 .. h : longer[k] = 0
  BY <1>1, <1>2
<1>5. \A k \in 1 .. Len(bytes) : longer[h + k] = bytes[k]
  BY <1>1, <1>2
<1> QED
  BY <1>3, <1>4, <1>5 DEF ZerosUpTo, Continues

LEMMA OneMoreDigit ==
    ASSUME NEW high \in Nat, NEW raised \in Nat, NEW low \in Nat,
           NEW digit \in Nat, NEW base \in Nat
    PROVE  base * (high * raised + low) + digit
               = high * (base * raised) + (base * low + digit)
  OBVIOUS

\* What the low digits stand for is added to what the high ones do, raised.
LEMMA ReadsOn ==
    ASSUME NEW base \in Nat, NEW h \in Nat, NEW n \in Nat, NEW digits, NEW low,
           NEW f \in [0 .. h + n -> Nat], Reads(f, base, digits, h + n),
           NEW g \in [0 .. n -> Nat], Reads(g, base, low, n),
           low \in [1 .. n -> Nat],
           Continues(digits, h, low, n)
    PROVE  f[h + n] = f[h] * power(base, n) + g[n]
<1> DEFINE S == {k \in Nat : k <= n => f[h + k] = f[h] * power(base, k) + g[k]}
<1>1. f[h] \in Nat
  <2>1. h \in 0 .. h + n
    OBVIOUS
  <2> QED
    BY <2>1
<1>2. 0 \in S
  <2>1. power(base, 0) = 1 /\ g[0] = 0 /\ h + 0 = h
    BY PowerZero DEF Reads
  <2>2. f[h + 0] = f[h] * 1 + 0
    BY <1>1, <2>1
  <2> QED
    BY <2>1, <2>2
<1>3. ASSUME NEW k \in Nat, k \in S
      PROVE  k + 1 \in S
  <2>1. SUFFICES ASSUME k + 1 <= n
                 PROVE  f[h + (k + 1)] = f[h] * power(base, k + 1) + g[k + 1]
    OBVIOUS
  <2>2. /\ h + (k + 1) \in 1 .. h + n /\ (h + (k + 1)) - 1 = h + k
        /\ k + 1 \in 1 .. n /\ (k + 1) - 1 = k /\ k \in 0 .. n
    BY <2>1
  <2>3. f[h + (k + 1)] = base * f[h + k] + digits[h + (k + 1)]
    BY <2>2 DEF Reads
  <2>4. g[k + 1] = base * g[k] + low[k + 1]
    BY <2>2 DEF Reads
  <2>5. digits[h + (k + 1)] = low[k + 1] /\ low[k + 1] \in Nat /\ g[k] \in Nat
    BY <2>2 DEF Continues
  <2>6. f[h + k] = f[h] * power(base, k) + g[k]
    BY <1>3, <2>1
  <2>7. power(base, k + 1) = base * power(base, k) /\ power(base, k) \in Nat
    BY PowerNext, PowerTyped
  <2>8. base * (f[h] * power(base, k) + g[k]) + low[k + 1]
            = f[h] * (base * power(base, k)) + (base * g[k] + low[k + 1])
    <3>1. f[h] \in Nat /\ power(base, k) \in Nat /\ g[k] \in Nat /\ low[k + 1] \in Nat
      BY <1>1, <2>5, <2>7
    <3> DEFINE x == f[h]
               y == power(base, k)
               z == g[k]
               d == low[k + 1]
    <3>2. x \in Nat /\ y \in Nat /\ z \in Nat /\ d \in Nat
      BY <3>1
    <3> HIDE DEF x, y, z, d
    <3>3. base * (x * y + z) + d = x * (base * y) + (base * z + d)
      BY <3>2, OneMoreDigit
    <3> QED
      BY <3>3 DEF x, y, z, d
  <2>9. f[h + (k + 1)] = base * (f[h] * power(base, k) + g[k]) + low[k + 1]
    BY <2>3, <2>5, <2>6
  <2> QED
    BY <2>4, <2>7, <2>8, <2>9
<1>4. Nat \subseteq S
  <2> HIDE DEF S
  <2> QED
    BY <1>2, <1>3, SetInduction
<1> QED
  BY <1>4

LEMMA ReadsPart ==
    ASSUME NEW base, NEW h \in Nat, NEW n \in Nat, NEW digits, NEW part, NEW f,
           Reads(f, base, digits, h + n), Continues(digits, 0, part, h)
    PROVE  Reads(f, base, part, h)
<1>1. ASSUME NEW k \in 1 .. h
      PROVE  f[k] = base * f[k - 1] + part[k]
  <2>1. k \in 1 .. h + n /\ 0 + k = k
    OBVIOUS
  <2>2. digits[k] = part[k]
    BY <2>1 DEF Continues
  <2>3. f[k] = base * f[k - 1] + digits[k]
    BY <2>1 DEF Reads
  <2> QED
    BY <2>2, <2>3
<1>2. f[0] = 0
  BY DEF Reads
<1> QED
  BY <1>1, <1>2 DEF Reads

LEMMA HalfOf ==
    ASSUME NEW bytes \in Seq(Nat), NEW h \in Nat, NEW n \in Nat, h + n <= Len(bytes)
    PROVE  /\ SubSeq(bytes, h + 1, h + n) \in Seq(Nat)
           /\ SubSeq(bytes, h + 1, h + n) \in [1 .. n -> Nat]
           /\ Len(SubSeq(bytes, h + 1, h + n)) = n
           /\ Continues(bytes, h, SubSeq(bytes, h + 1, h + n), n)
<1> DEFINE part == SubSeq(bytes, h + 1, h + n)
<1>1. part \in Seq(Nat) /\ Len(part) = n
  OBVIOUS
<1>2. ASSUME NEW k \in 1 .. n
      PROVE  bytes[h + k] = part[k]
  <2>1. part[k] = bytes[(h + 1) + k - 1]
    OBVIOUS
  <2>2. (h + 1) + k - 1 = h + k
    OBVIOUS
  <2> QED
    BY <2>1, <2>2
<1> HIDE DEF part
<1>3. part \in [1 .. n -> Nat]
  BY <1>1
<1> QED
  BY <1>1, <1>2, <1>3 DEF part, Continues

-----------------------------------------------------------------------------
\* The words from a place on.
At(text, p, words) ==
    /\ p + Len(words) <= Len(text)
    /\ \A i \in 1 .. Len(words) : text[p + i] = words[i]

LEMMA AtItself ==
    ASSUME NEW S, NEW text \in Seq(S)
    PROVE  At(text, 0, text)
  BY DEF At

LEMMA AtJoined ==
    ASSUME NEW S, NEW s \in Seq(S), NEW t \in Seq(S)
    PROVE  At(s \o t, 0, s) /\ At(s \o t, Len(s), t)
<1> DEFINE u == s \o t
<1>1. /\ Len(u) = Len(s) + Len(t) /\ Len(s) \in Nat /\ Len(t) \in Nat
      /\ \A i \in 1 .. Len(s) : u[i] = s[i]
      /\ \A i \in 1 .. Len(t) : u[Len(s) + i] = t[i]
  OBVIOUS
<1> HIDE DEF u
<1>2. At(u, 0, s)
  BY <1>1 DEF At
<1>3. At(u, Len(s), t)
  BY <1>1 DEF At
<1> QED
  BY <1>2, <1>3 DEF u

\* A place in a place.
LEMMA AtWithin ==
    ASSUME NEW S, NEW text \in Seq(S), NEW s \in Seq(S), NEW t \in Seq(S),
           NEW p \in Nat, NEW q \in Nat, At(text, p, s), At(s, q, t)
    PROVE  At(text, p + q, t)
<1>1. (p + q) + Len(t) <= Len(text)
  BY DEF At
<1>2. ASSUME NEW i \in 1 .. Len(t)
      PROVE  text[(p + q) + i] = t[i]
  <2>1. q + i \in 1 .. Len(s) /\ p + (q + i) = (p + q) + i /\ s[q + i] = t[i]
    BY DEF At
  <2>2. text[p + (q + i)] = s[q + i]
    BY <2>1 DEF At
  <2> QED
    BY <2>1, <2>2
<1> QED
  BY <1>1, <1>2 DEF At

LEMMA OneWord ==
    ASSUME NEW S, NEW text \in Seq(S), NEW i \in 1 .. Len(text)
    PROVE  SubSeq(text, i, i) = <<text[i]>>
<1> DEFINE part == SubSeq(text, i, i)
<1>1. part \in Seq(S) /\ Len(part) = 1 /\ part[1] = text[i] /\ text[i] \in S
  OBVIOUS
<1> HIDE DEF part
<1>2. part = <<text[i]>>
  BY <1>1
<1> QED
  BY <1>2 DEF part

LEMMA CutAt ==
    ASSUME NEW S, NEW text \in Seq(S), NEW words \in Seq(S), NEW p \in Nat,
           At(text, p, words)
    PROVE  SubSeq(text, p + 1, p + Len(words)) = words
<1> DEFINE n == Len(words)
           part == SubSeq(text, p + 1, p + n)
<1>1. n \in Nat /\ p + n <= Len(text) /\ \A i \in 1 .. n : text[p + i] = words[i]
  BY DEF At
<1>2. part \in Seq(S) /\ Len(part) = n
  <2> HIDE DEF n
  <2> QED
    BY <1>1
<1>3. ASSUME NEW i \in 1 .. n
      PROVE  part[i] = words[i]
  <2>1. part[i] = text[(p + 1) + i - 1]
    <3> HIDE DEF n
    <3> QED
      BY <1>1
  <2>2. (p + 1) + i - 1 = p + i
    BY <1>1
  <2> QED
    BY <1>1, <2>1, <2>2
<1> HIDE DEF part
<1>4. part = words
  BY <1>2, <1>3 DEF n
<1> QED
  BY <1>4 DEF part, n

LEMMA JoinedWithin ==
    ASSUME NEW S, NEW text \in Seq(S), NEW s \in Seq(S), NEW t \in Seq(S),
           NEW p \in Nat, At(text, p, s \o t)
    PROVE  /\ s \o t \in Seq(S) /\ Len(s \o t) = Len(s) + Len(t)
           /\ At(text, p, s) /\ At(text, p + Len(s), t)
<1> DEFINE u == s \o t
<1>1. /\ u \in Seq(S) /\ Len(u) = Len(s) + Len(t) /\ Len(s) \in Nat /\ Len(t) \in Nat
  OBVIOUS
<1>2. At(u, 0, s) /\ At(u, Len(s), t)
  BY AtJoined
<1>3. At(text, p, u)
  OBVIOUS
<1> HIDE DEF u
<1>4. At(text, p + 0, s) /\ At(text, p + Len(s), t)
  BY <1>1, <1>2, <1>3, AtWithin
<1>5. p + 0 = p
  OBVIOUS
<1> QED
  BY <1>1, <1>4, <1>5 DEF u

LEMMA BeginsWith ==
    ASSUME NEW S, NEW text \in Seq(S), NEW s \in Seq(S), NEW t \in Seq(S),
           At(text, 0, s \o t)
    PROVE  At(text, 0, s) /\ At(text, Len(s), t)
<1>1. At(text, 0, s) /\ At(text, 0 + Len(s), t)
  BY JoinedWithin
<1>2. 0 + Len(s) = Len(s)
  OBVIOUS
<1> QED
  BY <1>1, <1>2

\* A sequence of so many words.
Text(S, s, n) == s \in Seq(S) /\ Len(s) = n

LEMMA Joined ==
    ASSUME NEW S, NEW s, NEW t, NEW k \in Nat, NEW m \in Nat, Text(S, s, k), Text(S, t, m)
    PROVE  Text(S, s \o t, k + m)
<1>0. s \in Seq(S) /\ t \in Seq(S) /\ Len(s) = k /\ Len(t) = m
  BY DEF Text
<1>1. s \o t \in Seq(S)
  BY <1>0
<1>2. Len(s \o t) = Len(s) + Len(t)
  BY <1>0
<1> QED
  BY <1>0, <1>1, <1>2 DEF Text

LEMMA SeqOfMore == ASSUME NEW A, NEW B, A \subseteq B PROVE Seq(A) \subseteq Seq(B)
  OBVIOUS

LEMMA JoinedTyped ==
    ASSUME NEW S, NEW s \in Seq(S), NEW t \in Seq(S)
    PROVE  s \o t \in Seq(S)
  OBVIOUS

\* Powers of two leave every number behind.
LEMMA PowerExceeds ==
    ASSUME NEW n \in Nat
    PROVE  n < power(2, n)
<1> DEFINE S == {k \in Nat : k < power(2, k)}
<1>1. 0 \in S
  BY PowerZero
<1>2. ASSUME NEW k \in Nat, k \in S PROVE k + 1 \in S
  <2>1. power(2, k + 1) = 2 * power(2, k) /\ power(2, k) \in Nat
    BY PowerNext, PowerTyped
  <2>2. k < power(2, k)
    BY <1>2
  <2>3. k + 1 < power(2, k + 1)
    BY <2>1, <2>2
  <2> QED
    BY <2>3
<1>3. Nat \subseteq S
  <2> HIDE DEF S
  <2> QED
    BY <1>1, <1>2, SetInduction
<1> QED
  BY <1>3

\* The smallest power of two that reaches a number.
LEMMA LeastPower ==
    ASSUME NEW n \in Nat \ {0}
    PROVE  \E h \in 0 .. n : n <= power(2, h) /\ (h > 0 => power(2, h - 1) < n)
<1> DEFINE T == {h \in Nat : n <= power(2, h)}
<1>1. n \in T
  <2>1. n < power(2, n) /\ power(2, n) \in Nat
    BY PowerExceeds, PowerTyped
  <2> QED
    BY <2>1
<1>2. PICK h \in T : \A m \in T : ~ (m < h)
  <2>1. T \subseteq Nat /\ T # {}
    BY <1>1
  <2> HIDE DEF T
  <2> QED
    BY <2>1, LeastNumber
<1>3. h \in 0 .. n
  BY <1>1, <1>2
<1>4. ASSUME h > 0 PROVE power(2, h - 1) < n
  <2>1. h - 1 \in Nat /\ h - 1 < h
    BY <1>3, <1>4
  <2>2. h - 1 \notin T
    BY <1>2, <2>1
  <2>3. power(2, h - 1) \in Nat
    BY <2>1, PowerTyped
  <2> QED
    BY <2>1, <2>2, <2>3
<1> QED
  BY <1>2, <1>3, <1>4

-----------------------------------------------------------------------------
\* Parts laid end to end, up to each of them.
Laid(f, parts, n) ==
    f[0] = <<>> /\ \A k \in 1 .. n : f[k] = f[k - 1] \o parts[k]

LEMMA LayingExists ==
    ASSUME NEW S, NEW n \in Nat, NEW parts, \A k \in 1 .. n : parts[k] \in Seq(S)
    PROVE  \E f \in [0 .. n -> Seq(S)] : Laid(f, parts, n)
<1> DEFINE part(k) == IF k \in 1 .. n THEN parts[k] ELSE <<>>
           step == [k \in Nat |-> [x \in Seq(S) |-> x \o part(k)]]
<1>1. \A k \in Nat : part(k) \in Seq(S)
  OBVIOUS
<1>2. ASSUME NEW k \in Nat, NEW x \in Seq(S) PROVE x \o part(k) \in Seq(S)
  <2> HIDE DEF part
  <2> QED
    BY <1>1, JoinedTyped
<1>3. step \in [Nat -> [Seq(S) -> Seq(S)]]
  <2> HIDE DEF part
  <2> QED
    BY <1>2
<1>4. <<>> \in Seq(S)
  OBVIOUS
<1>5. PICK f \in [0 .. n -> Seq(S)] : Follows(f, <<>>, step, n)
  <2> HIDE DEF step
  <2> QED
    BY <1>3, <1>4, RecursionExists
<1>6. ASSUME NEW k \in 1 .. n PROVE f[k] = f[k - 1] \o parts[k]
  <2>1. f[k] = step[k][f[k - 1]]
    BY <1>5 DEF Follows
  <2>2. k \in Nat /\ k - 1 \in 0 .. n
    OBVIOUS
  <2>3. f[k - 1] \in Seq(S)
    BY <2>2
  <2>4. step[k] = [x \in Seq(S) |-> x \o part(k)]
    BY <2>2
  <2>5. step[k][f[k - 1]] = f[k - 1] \o part(k)
    BY <2>3, <2>4
  <2>6. part(k) = parts[k]
    OBVIOUS
  <2> QED
    BY <2>1, <2>5, <2>6
<1>7. f[0] = <<>>
  BY <1>5 DEF Follows
<1> QED
  BY <1>5, <1>6, <1>7 DEF Laid

LEMMA LayingsAgree ==
    ASSUME NEW n \in Nat, NEW parts, NEW f, NEW g, Laid(f, parts, n), Laid(g, parts, n)
    PROVE  \A k \in 0 .. n : f[k] = g[k]
<1>1. Alike(f, g, n)
  BY DEF Laid, Alike
<1> QED
  BY <1>1, RecursionAgrees

LEMMA TimesMore ==
    ASSUME NEW k \in Nat, NEW h \in Nat
    PROVE  /\ k * h \in Nat /\ (k + 1) * h = k * h + h
           /\ ((k + 1) - 1) * h = k * h
  OBVIOUS

LEMMA QuotientOfProduct ==
    ASSUME NEW n \in Nat, NEW h \in Nat \ {0}
    PROVE  (n * h) \div h = n
<1>1. n * h \in Nat /\ n * h = h * n + 0 /\ 0 \in 0 .. h - 1
  OBVIOUS
<1> DEFINE v == n * h
<1> HIDE DEF v
<1>2. v \in Nat /\ v = h * n + 0
  BY <1>1 DEF v
<1>3. v \div h = n
  BY <1>1, <1>2, QuotientIs
<1> QED
  BY <1>3 DEF v

\* Parts of one length, laid end to end, are found at multiples of that length.
LEMMA PartsFound ==
    ASSUME NEW S, NEW n \in Nat, NEW h \in Nat, NEW parts,
           \A k \in 1 .. n : Text(S, parts[k], h),
           NEW f \in [0 .. n -> Seq(S)], Laid(f, parts, n)
    PROVE  \A k \in 0 .. n :
              /\ Text(S, f[k], k * h)
              /\ \A i \in 1 .. k : At(f[k], (i - 1) * h, parts[i])
<1> DEFINE Found(k) ==
              /\ Text(S, f[k], k * h)
              /\ \A i \in 1 .. k : At(f[k], (i - 1) * h, parts[i])
           K == {k \in Nat : k <= n => Found(k)}
<1>1. 0 \in K
  <2>1. f[0] = <<>> /\ Len(<<>>) = 0 * h /\ <<>> \in Seq(S)
    BY DEF Laid
  <2> QED
    BY <2>1 DEF Text
<1>2. ASSUME NEW k \in Nat, k \in K, k + 1 <= n PROVE Found(k + 1)
  <2> DEFINE longer == f[k + 1]
             p == k * h
  <2>1. Found(k)
    BY <1>2
  <2>2. k + 1 \in 1 .. n /\ (k + 1) - 1 = k
    BY <1>2
  <2>3. longer = f[k] \o parts[k + 1]
    BY <2>2 DEF Laid
  <2>4. p \in Nat /\ (k + 1) * h = p + h /\ ((k + 1) - 1) * h = p
    BY TimesMore
  <2>5. Text(S, f[k], p) /\ Text(S, parts[k + 1], h)
    BY <2>1, <2>2
  <2> HIDE DEF p, longer
  <2>6. Text(S, longer, p + h)
    BY <2>3, <2>4, <2>5, Joined
  <2>7. At(longer, 0, f[k]) /\ At(longer, p, parts[k + 1])
    <3>1. f[k] \in Seq(S) /\ parts[k + 1] \in Seq(S) /\ Len(f[k]) = p
      BY <2>5 DEF Text
    <3> QED
      BY <2>3, <3>1, AtJoined
  <2>8. ASSUME NEW i \in 1 .. k PROVE At(longer, (i - 1) * h, parts[i])
    <3>1. At(f[k], (i - 1) * h, parts[i])
      BY <2>1
    <3>2. i \in 1 .. n
      BY <1>2
    <3>3. longer \in Seq(S) /\ f[k] \in Seq(S) /\ parts[i] \in Seq(S)
      BY <2>5, <2>6, <3>2 DEF Text
    <3> DEFINE q == (i - 1) * h
    <3>4. q \in Nat
      <4>1. i - 1 \in Nat
        OBVIOUS
      <4> QED
        BY <4>1
    <3>5. At(f[k], q, parts[i])
      BY <3>1
    <3> HIDE DEF q
    <3>6. At(longer, 0 + q, parts[i])
      BY <2>7, <3>3, <3>4, <3>5, AtWithin
    <3>7. 0 + q = q
      BY <3>4
    <3>8. At(longer, q, parts[i])
      BY <3>6, <3>7
    <3> QED
      BY <3>8 DEF q
  <2>9. \A i \in 1 .. k + 1 : At(longer, (i - 1) * h, parts[i])
    <3>1. \A i \in 1 .. k + 1 : i \in 1 .. k \/ i = k + 1
      OBVIOUS
    <3>2. At(longer, ((k + 1) - 1) * h, parts[k + 1])
      BY <2>4, <2>7
    <3> QED
      BY <2>8, <3>1, <3>2
  <2> QED
    BY <2>4, <2>6, <2>9 DEF longer
<1>3. Nat \subseteq K
  <2>1. ASSUME NEW k \in Nat, k \in K PROVE k + 1 \in K
    <3> HIDE DEF Found
    <3> QED
      BY <1>2, <2>1
  <2> HIDE DEF K
  <2> QED
    BY <1>1, <2>1, SetInduction
<1> QED
  BY <1>3
=============================================================================
