----------------------------- MODULE Printk_proofs -----------------------------
(***************************************************************************)
(* What printing keeps true on a screen of any size, whatever the kernel   *)
(* and its handlers print and wherever a handler comes in between.         *)
(***************************************************************************)
EXTENDS Printk, SequenceTheorems, FiniteSetTheorems, WellFoundedInduction, TLAPS

-----------------------------------------------------------------------------
(***************************************************************************)
(* Functions defined by recursion on the natural numbers: the value at k   *)
(* is made of the value at a smaller number, down to where it stops.       *)
(***************************************************************************)
\* The natural numbers are well-founded.
LEMMA LeastNat ==
    ASSUME NEW T \in SUBSET Nat, T # {}
    PROVE  \E m \in T : \A k \in T : m <= k
<1> DEFINE R == OpToRel(<, Nat)
<1>1. IsWellFoundedOn(R, Nat)
  BY NatLessThanWellFounded
<1>2. \A x, y \in Nat : <<y, x>> \in R <=> y < x
  BY DEF OpToRel
<1> HIDE DEF R
<1>3. PICK m \in T : \A y \in T : ~(<<y, m>> \in R)
  BY <1>1, WFMin
<1>4. ASSUME NEW k \in T
      PROVE  m <= k
  <2>1. m \in Nat /\ k \in Nat
    OBVIOUS
  <2>2. ~(k < m)
    BY <1>2, <1>3, <2>1
  <2> QED
    BY <2>1, <2>2
<1> QED
  BY <1>4

Recursion(V, stop, last, before, step) ==
    /\ stop \in SUBSET Nat /\ last \in [Nat -> V]
    /\ before \in [Nat -> Nat] /\ step \in [Nat \X V -> V]
    /\ \A k \in Nat : k \notin stop => before[k] < k
Recurses(V, stop, last, before, step, g) ==
    /\ g \in [Nat -> V]
    /\ \A k \in Nat : g[k] = IF k \in stop THEN last[k] ELSE step[<<k, g[before[k]]>>]

LEMMA RecursiveFcn ==
    ASSUME NEW V, NEW stop, NEW last, NEW before, NEW step,
           Recursion(V, stop, last, before, step)
    PROVE  \E g : Recurses(V, stop, last, before, step, g)
<1> /\ stop \in SUBSET Nat /\ last \in [Nat -> V]
    /\ before \in [Nat -> Nat] /\ step \in [Nat \X V -> V]
    /\ \A k \in Nat : k \notin stop => before[k] < k
  BY DEF Recursion
<1> DEFINE Made(k, g) == IF k \in stop THEN last[k] ELSE step[<<k, g[before[k]]>>]
           Upto(n, g) == g \in [Nat -> V] /\ \A k \in Nat : k <= n => g[k] = Made(k, g)
           Missing == {n \in Nat : ~ \E g : Upto(n, g)}
<1>1. ASSUME NEW g \in [Nat -> V], NEW k \in Nat
      PROVE  Made(k, g) \in V
  OBVIOUS
<1>2. ASSUME NEW n \in Nat, NEW m \in Nat, NEW g, Upto(n, g), NEW h, Upto(m, h),
             NEW j \in Nat, j <= n, j <= m
      PROVE  g[j] = h[j]
  <2> DEFINE Differ == {k \in Nat : k <= n /\ k <= m /\ g[k] # h[k]}
  <2>1. Differ = {}
    <3> SUFFICES ASSUME Differ # {} PROVE FALSE
      OBVIOUS
    <3>1. PICK k \in Differ : \A i \in Differ : k <= i
      <4>1. Differ \in SUBSET Nat
        OBVIOUS
      <4> HIDE DEF Differ
      <4> QED BY <4>1, LeastNat
    <3>2. k \in Nat /\ k <= n /\ k <= m /\ g[k] # h[k]
      OBVIOUS
    <3>3. g[k] = Made(k, g) /\ h[k] = Made(k, h)
      BY <1>2, <3>2
    <3>4. k \notin stop
      BY <3>2, <3>3
    <3> DEFINE b == before[k]
    <3>5. b \in Nat /\ b < k
      BY <3>2, <3>4
    <3>6. b <= n /\ b <= m
      BY <3>2, <3>5
    <3>7. b \notin Differ
      <4>1. ~(k <= b)
        BY <3>2, <3>5
      <4> HIDE DEF Differ, b
      <4> QED BY <3>1, <4>1
    <3>8. g[b] = h[b]
      BY <3>5, <3>6, <3>7
    <3> QED BY <3>2, <3>3, <3>4, <3>8
  <2> QED BY <1>2, <2>1
<1>3. \E g : Upto(0, g)
  <2> DEFINE g == [k \in Nat |-> last[k]]
  <2>1. ASSUME NEW k \in Nat, k <= 0
        PROVE  k \in stop
    <3> SUFFICES ASSUME k \notin stop PROVE FALSE
      OBVIOUS
    <3>1. before[k] < k /\ before[k] \in Nat
      OBVIOUS
    <3> QED BY <2>1, <3>1
  <2>2. Upto(0, g)
    BY <2>1
  <2> QED BY <2>2
<1>4. ASSUME NEW n \in Nat, NEW g, Upto(n, g)
      PROVE  \E h : Upto(n + 1, h)
  <2> DEFINE h == [k \in Nat |-> IF k <= n THEN g[k] ELSE Made(k, g)]
  <2>1. h \in [Nat -> V]
    BY <1>1, <1>4
  <2>2. \A k \in Nat : h[k] = Made(k, g) \/ ~(k <= n + 1)
    BY <1>4
  <2>3. ASSUME NEW k \in Nat, k <= n + 1
        PROVE  h[k] = Made(k, h)
    <3>1. CASE k \in stop
      BY <2>2, <2>3, <3>1
    <3>2. CASE k \notin stop
      <4> DEFINE b == before[k]
      <4>1. b \in Nat /\ b < k
        BY <3>2
      <4>2. b <= n
        BY <2>3, <4>1
      <4>3. h[b] = g[b]
        BY <4>1, <4>2
      <4>4. h[k] = Made(k, g)
        BY <2>2, <2>3
      <4> HIDE DEF h
      <4> QED BY <3>2, <4>3, <4>4
    <3> QED BY <3>1, <3>2
  <2>4. Upto(n + 1, h)
    BY <2>1, <2>3
  <2> QED BY <2>4
<1>5. Missing = {}
  <2> SUFFICES ASSUME Missing # {} PROVE FALSE
    OBVIOUS
  <2>1. PICK m \in Missing : \A k \in Missing : m <= k
    <3>1. Missing \in SUBSET Nat
      OBVIOUS
    <3> HIDE DEF Missing
    <3> QED BY <3>1, LeastNat
  <2>2. m # 0
    <3> HIDE DEF Upto
    <3> QED BY <1>3
  <2>3. m \in Nat /\ m - 1 \in Nat /\ m - 1 \notin Missing
    <3>1. m \in Nat
      OBVIOUS
    <3> HIDE DEF Missing
    <3> QED BY <2>1, <2>2, <3>1
  <2> HIDE DEF Upto
  <2>4. PICK g : Upto(m - 1, g)
    BY <2>3
  <2>5. \E h : Upto((m - 1) + 1, h)
    BY <1>4, <2>3, <2>4
  <2>6. (m - 1) + 1 = m
    BY <2>3
  <2> QED BY <2>5, <2>6
<1> DEFINE G(k) == CHOOSE g : Upto(k, g)
           h == [k \in Nat |-> G(k)[k]]
<1>6. \A k \in Nat : Upto(k, G(k))
  <2> HIDE DEF Upto
  <2> QED BY <1>5
<1>7. h \in [Nat -> V]
  <2>1. \A k \in Nat : G(k) \in [Nat -> V]
    BY <1>6
  <2> HIDE DEF G
  <2> QED BY <2>1
<1>8. ASSUME NEW k \in Nat
      PROVE  h[k] = Made(k, h)
  <2>1. h[k] = Made(k, G(k))
    <3>1. k <= k
      OBVIOUS
    <3>2. G(k)[k] = Made(k, G(k))
      BY <1>6, <3>1
    <3> HIDE DEF Made, G
    <3> QED BY <3>2
  <2>2. CASE k \in stop
    <3> HIDE DEF h
    <3> QED BY <2>1, <2>2
  <2>3. CASE k \notin stop
    <3> DEFINE b == before[k]
    <3>1. b \in Nat /\ b <= k /\ b <= b
      BY <2>3
    <3>2. G(k)[b] = G(b)[b]
      <4> HIDE DEF Upto, G, b
      <4> QED BY <1>2, <1>6, <3>1
    <3>3. h[b] = G(b)[b]
      BY <3>1
    <3> HIDE DEF h, G
    <3> QED BY <2>1, <2>3, <3>2, <3>3
  <2> QED BY <2>2, <2>3
<1> HIDE DEF h
<1> QED BY <1>7, <1>8 DEF Recurses

-----------------------------------------------------------------------------
(***************************************************************************)
(* Powers of two and two's complement.                                     *)
(***************************************************************************)
LEMMA PowersOfTwo ==
    /\ Pow2 \in [Nat -> Nat]
    /\ Pow2[0] = 1
    /\ \A n \in Nat : n > 0 => Pow2[n] = 2 * Pow2[n - 1]
<1> DEFINE P(g) == g = [n \in Nat |-> IF n = 0 THEN 1 ELSE 2 * g[n - 1]]
<1>1. \E g : P(g) /\ g \in [Nat -> Nat]
  <2> DEFINE last == [k \in Nat |-> 1]
             before == [k \in Nat |-> IF k = 0 THEN 0 ELSE k - 1]
             step == [p \in Nat \X Nat |-> 2 * p[2]]
             stop == {0}
  <2>1. /\ stop \in SUBSET Nat /\ last \in [Nat -> Nat] /\ before \in [Nat -> Nat]
        /\ \A k \in Nat : k \notin stop => before[k] < k
    OBVIOUS
  <2>2. step \in [Nat \X Nat -> Nat]
    <3>1. \A m \in Nat : 2 * m \in Nat
      OBVIOUS
    <3> QED BY <3>1
  <2>3. Recursion(Nat, stop, last, before, step)
    BY <2>1, <2>2 DEF Recursion
  <2>4. PICK g : Recurses(Nat, stop, last, before, step, g)
    <3> HIDE DEF stop, last, before, step
    <3> QED BY <2>3, RecursiveFcn
  <2>5. ASSUME NEW k \in Nat
        PROVE  g[k] = IF k = 0 THEN 1 ELSE 2 * g[k - 1]
    <3>1. g \in [Nat -> Nat]
      BY <2>4 DEF Recurses
    <3>2. g[k] = IF k \in stop THEN last[k] ELSE step[<<k, g[before[k]]>>]
      BY <2>4 DEF Recurses
    <3>3. CASE k = 0
      BY <3>2, <3>3
    <3>4. CASE k # 0
      <4>1. g[k] = step[<<k, g[k - 1]>>] /\ k - 1 \in Nat
        BY <3>2, <3>4
      <4>2. step[<<k, g[k - 1]>>] = 2 * g[k - 1]
        BY <3>1, <4>1
      <4> QED BY <3>4, <4>1, <4>2
    <3> QED BY <3>3, <3>4
  <2>6. g \in [Nat -> Nat]
    BY <2>4 DEF Recurses
  <2>7. P(g)
    BY <2>5, <2>6
  <2> QED BY <2>6, <2>7
<1>2. Pow2 = CHOOSE g : P(g)
  BY DEF Pow2
<1> HIDE DEF P
<1>3. P(Pow2)
  BY <1>1, <1>2
<1>4. \A n \in Nat : Pow2[n] = IF n = 0 THEN 1 ELSE 2 * Pow2[n - 1]
  BY <1>3 DEF P
<1>5. DOMAIN Pow2 = Nat /\ Pow2 = [n \in Nat |-> Pow2[n]]
  BY <1>3 DEF P
<1> DEFINE Wrong == {n \in Nat : Pow2[n] \notin Nat}
<1>6. Wrong = {}
  <2> SUFFICES ASSUME Wrong # {} PROVE FALSE
    OBVIOUS
  <2>1. PICK n \in Wrong : \A k \in Wrong : n <= k
    <3>1. Wrong \in SUBSET Nat
      OBVIOUS
    <3> HIDE DEF Wrong
    <3> QED BY <3>1, LeastNat
  <2>2. n \in Nat /\ Pow2[n] \notin Nat
    OBVIOUS
  <2>3. n # 0
    BY <1>4, <2>2
  <2>4. n - 1 \in Nat /\ n - 1 \notin Wrong
    <3>1. n - 1 \in Nat /\ ~(n <= n - 1)
      BY <2>2, <2>3
    <3> HIDE DEF Wrong
    <3> QED BY <2>1, <3>1
  <2>5. Pow2[n - 1] \in Nat
    BY <2>4
  <2>6. \A m \in Nat : 2 * m \in Nat
    OBVIOUS
  <2>7. Pow2[n] = 2 * Pow2[n - 1]
    BY <1>4, <2>2, <2>3
  <2> QED BY <2>2, <2>5, <2>6, <2>7
<1>7. \A n \in Nat : Pow2[n] \in Nat
  BY <1>6
<1>8. Pow2 \in [Nat -> Nat]
  BY <1>5, <1>7
<1>9. Pow2[0] = 1
  BY <1>4
<1>10. \A n \in Nat : n > 0 => Pow2[n] = 2 * Pow2[n - 1]
  BY <1>4
<1> QED BY <1>8, <1>9, <1>10

\* They are positive and grow.
LEMMA PowersGrow ==
    ASSUME NEW m \in Nat, NEW n \in Nat, m <= n
    PROVE  Pow2[m] \in Nat /\ Pow2[n] \in Nat /\ 0 < Pow2[m] /\ Pow2[m] <= Pow2[n]
<1>1. Pow2 \in [Nat -> Nat] /\ Pow2[0] = 1 /\ \A k \in Nat : k > 0 => Pow2[k] = 2 * Pow2[k - 1]
  BY PowersOfTwo
<1>2. \A k \in Nat : Pow2[k] \in Nat
  BY <1>1
<1>3. \A a, b \in Nat : a = 2 * b => b <= a /\ (b > 0 => a > 0)
  OBVIOUS
<1> DEFINE Wrong == {k \in Nat : ~(Pow2[k] > 0 /\ (m <= k => Pow2[m] <= Pow2[k]))}
<1>4. Wrong = {}
  <2> SUFFICES ASSUME Wrong # {} PROVE FALSE
    OBVIOUS
  <2>1. PICK k \in Wrong : \A j \in Wrong : k <= j
    <3>1. Wrong \in SUBSET Nat
      OBVIOUS
    <3> HIDE DEF Wrong
    <3> QED BY <3>1, LeastNat
  <2>2. k \in Nat
    OBVIOUS
  <2>3. k # 0
    <3>1. k = 0 => Pow2[k] > 0
      BY <1>1
    <3>2. k = 0 /\ m <= k => Pow2[m] <= Pow2[k]
      BY <1>2, <2>2
    <3> QED BY <3>1, <3>2
  <2>4. k - 1 \in Nat /\ k - 1 \notin Wrong
    <3>1. k - 1 \in Nat /\ ~(k <= k - 1)
      BY <2>2, <2>3
    <3> HIDE DEF Wrong
    <3> QED BY <2>1, <3>1
  <2>5. Pow2[k - 1] > 0 /\ (m <= k - 1 => Pow2[m] <= Pow2[k - 1])
    BY <2>4
  <2>6. Pow2[k] = 2 * Pow2[k - 1]
    BY <1>1, <2>2, <2>3
  <2>7. Pow2[k] > 0 /\ Pow2[k - 1] <= Pow2[k]
    BY <1>2, <1>3, <2>2, <2>4, <2>5, <2>6
  <2>8. m <= k => Pow2[m] <= Pow2[k]
    <3>1. CASE m = k
      BY <1>2, <3>1
    <3>2. CASE m # k
      <4>1. m <= k => m <= k - 1
        BY <2>2, <3>2
      <4>2. Pow2[m] \in Nat /\ Pow2[k] \in Nat /\ Pow2[k - 1] \in Nat
        BY <1>2, <2>2, <2>4
      <4> QED BY <2>5, <2>7, <4>1, <4>2
    <3> QED BY <3>1, <3>2
  <2> QED BY <2>2, <2>7, <2>8
<1>5. ~(m \in Wrong) /\ ~(n \in Wrong)
  BY <1>4
<1> QED BY <1>2, <1>5

LEMMA Remainder ==
    ASSUME NEW x \in Int, NEW m \in Nat, m > 0
    PROVE  /\ x % m \in 0 .. m - 1
           /\ (x - m) % m = x % m
           /\ 0 <= x /\ x < m => x % m = x
           /\ x < 0 /\ 0 <= x + m => x % m = x + m
           /\ (x % m) % m = x % m
<1>1. x % m \in 0 .. m - 1
  OBVIOUS
<1>2. ASSUME NEW y \in Int
      PROVE  (y - m) % m = y % m
  <2> DEFINE q == y \div m
             p == (y - m) \div m
             r == y % m
             s == (y - m) % m
             d == q - p - 1
  <2>1. q \in Int /\ p \in Int /\ r \in 0 .. m - 1 /\ s \in 0 .. m - 1
    OBVIOUS
  <2>2. y = m * q + r /\ y - m = m * p + s
    <3>1. y = m * q + r
      OBVIOUS
    <3>2. y - m = m * p + s
      OBVIOUS
    <3> QED BY <3>1, <3>2
  <2> HIDE DEF q, p, r, s
  <2>3. m * d = m * q - m * p - m
    BY <2>1
  <2>4. m * d \in Int /\ m * d < m /\ -m < m * d
    BY <2>1, <2>2, <2>3
  <2>5. d = 0
    <3>1. d \in Int
      BY <2>1
    <3> HIDE DEF d
    <3>2. d >= 1 => m * d >= m
      BY <3>1
    <3>3. d <= -1 => m * d <= -m
      BY <3>1
    <3> QED BY <2>4, <3>1, <3>2, <3>3
  <2>6. s = r
    BY <2>1, <2>2, <2>3, <2>5
  <2> QED BY <2>6 DEF s, r
<1>3. \A y \in Int : 0 <= y /\ y < m => y % m = y
  OBVIOUS
<1>4. x < 0 /\ 0 <= x + m => x % m = x + m
  <2> SUFFICES ASSUME x < 0, 0 <= x + m PROVE x % m = x + m
    OBVIOUS
  <2> DEFINE y == x + m
  <2>1. y \in Int /\ 0 <= y /\ y < m /\ x = y - m
    OBVIOUS
  <2> HIDE DEF y
  <2>2. (y - m) % m = y % m /\ y % m = y
    BY <1>2, <1>3, <2>1
  <2>3. x % m = y
    BY <2>1, <2>2
  <2> QED BY <2>3 DEF y
<1>5. (x % m) % m = x % m
  <2> DEFINE y == x % m
  <2>1. y \in Int /\ 0 <= y /\ y < m
    BY <1>1
  <2> HIDE DEF y
  <2>2. y % m = y
    BY <1>3, <2>1
  <2> QED BY <2>2 DEF y
<1> QED BY <1>1, <1>2, <1>3, <1>4, <1>5

\* Signed keeps a number modulo the width, and the numbers of the width as they are.
LEMMA SignedIs ==
    ASSUME NEW x \in Int, NEW bits \in Nat, bits > 0
    PROVE  /\ Signed(x, bits) \in Int
           /\ Signed(x, bits) % Pow2[bits] = x % Pow2[bits]
           /\ x \in -Pow2[bits - 1] .. Pow2[bits - 1] - 1 => Signed(x, bits) = x
<1> DEFINE M == Pow2[bits]
           H == Pow2[bits - 1]
<1>1. M \in Nat /\ H \in Nat /\ H > 0 /\ M = 2 * H
  <2>1. bits - 1 \in Nat /\ bits - 1 <= bits - 1
    OBVIOUS
  <2>2. H \in Nat /\ H > 0
    BY <2>1, PowersGrow
  <2> QED BY <2>2, PowersOfTwo
<1>2. Signed(x, bits) = IF x % M < H THEN x % M ELSE (x % M) - M
  BY DEF Signed
<1> HIDE DEF M, H
<1>3. M > 0
  BY <1>1
<1> DEFINE r == x % M
<1>4. r \in Int /\ r \in 0 .. M - 1
  BY <1>1, <1>3, Remainder
<1>5. r % M = r /\ (r - M) % M = r % M
  <2> HIDE DEF r
  <2> QED BY <1>1, <1>3, <1>4, Remainder
<1>6. Signed(x, bits) \in Int /\ Signed(x, bits) % M = r
  <2> HIDE DEF r
  <2>1. Signed(x, bits) = IF r < H THEN r ELSE r - M
    BY <1>2 DEF r
  <2> QED BY <1>1, <1>4, <1>5, <2>1
<1>7. ASSUME x \in -H .. H - 1
      PROVE  Signed(x, bits) = x
  <2>1. CASE x >= 0
    <3>1. x < M
      BY <1>1, <1>7, <2>1
    <3>2. x % M = x
      BY <1>1, <1>3, <2>1, <3>1, Remainder
    <3> QED BY <1>1, <1>2, <1>7, <3>2
  <2>2. CASE x < 0
    <3>1. 0 <= x + M /\ ~(x + M < H)
      BY <1>1, <1>7, <2>2
    <3>2. x % M = x + M
      BY <1>1, <1>3, <2>2, <3>1, Remainder
    <3> QED BY <1>1, <1>2, <3>1, <3>2
  <2> QED BY <2>1, <2>2
<1> QED BY <1>6, <1>7 DEF M, H

-----------------------------------------------------------------------------
(***************************************************************************)
(* Digits and what they are worth.                                         *)
(***************************************************************************)
Bases == {8, 10, 16}
DigitsOf(base) == {DigitChars[k] : k \in 1 .. base}

\* The division of get_remainder, by each of the bases.
LEMMA Division ==
    ASSUME NEW n \in Nat, NEW base \in Bases
    PROVE  /\ n \div base \in Nat /\ n % base \in 0 .. base - 1 /\ base \in 2 .. 16
           /\ (n \div base) * base + (n % base) = n
           /\ n >= base => n \div base < n /\ n \div base > 0
<1>1. CASE base = 8
  BY <1>1
<1>2. CASE base = 10
  BY <1>2
<1>3. CASE base = 16
  BY <1>3
<1> QED BY <1>1, <1>2, <1>3 DEF Bases

LEMMA SixteenDigits ==
    /\ DOMAIN DigitChars = 1 .. 16
    /\ \A i \in 1 .. 16 : DigitValue(DigitChars[i]) = i - 1
    /\ \A i \in 2 .. 16 : DigitChars[i] # "0"
    /\ DigitChars[1] = "0"
<1>1. DOMAIN DigitChars = 1 .. 16
  BY DEF DigitChars
<1>2. \A i, j \in 1 .. 16 : DigitChars[i] = DigitChars[j] => i = j
  BY DEF DigitChars
<1>3. ASSUME NEW i \in 1 .. 16
      PROVE  DigitValue(DigitChars[i]) = i - 1
  <2>1. (CHOOSE j \in DOMAIN DigitChars : DigitChars[j] = DigitChars[i]) = i
    BY <1>1, <1>2
  <2> QED BY <2>1 DEF DigitValue
<1>4. DigitChars[1] = "0"
  BY DEF DigitChars
<1>5. \A i \in 2 .. 16 : DigitChars[i] # "0"
  <2>1. \A i \in 2 .. 16 : i \in 1 .. 16 /\ i # 1
    OBVIOUS
  <2>2. 1 \in 1 .. 16
    OBVIOUS
  <2> QED BY <1>2, <1>4, <2>1, <2>2
<1> QED BY <1>1, <1>3, <1>4, <1>5

\* get_remainder's loop: the digits of a quotient, then that of the remainder.
LEMMA DigitsAre ==
    ASSUME NEW base \in Bases
    PROVE  \A n \in Nat :
               /\ Digits(n, base) \in Seq(DigitsOf(base))
               /\ n < base => Digits(n, base) = <<DigitChars[n + 1]>>
               /\ n >= base => Digits(n, base) =
                      Append(Digits(n \div base, base), DigitChars[(n % base) + 1])
<1> DEFINE V == Seq(DigitsOf(base))
           stop == 0 .. base - 1
           last == [k \in Nat |-> IF k < base THEN <<DigitChars[k + 1]>> ELSE <<>>]
           before == [k \in Nat |-> k \div base]
           step == [p \in Nat \X V |-> Append(p[2], DigitChars[(p[1] % base) + 1])]
           P(g) == g = [k \in Nat |-> IF k < base THEN <<DigitChars[k + 1]>>
                                      ELSE Append(g[k \div base], DigitChars[(k % base) + 1])]
<1>1. base \in Nat /\ base > 1
  BY DEF Bases
<1>2. ASSUME NEW k \in Nat
      PROVE  DigitChars[(k % base) + 1] \in DigitsOf(base)
  <2>1. (k % base) + 1 \in 1 .. base
    BY <1>1, Division
  <2> QED BY <2>1 DEF DigitsOf
<1>3. Recursion(V, stop, last, before, step)
  <2>1. stop \in SUBSET Nat
    BY <1>1
  <2>2. last \in [Nat -> V]
    <3>1. ASSUME NEW k \in Nat, k < base
          PROVE  <<DigitChars[k + 1]>> \in V
      <4>1. k + 1 \in 1 .. base
        BY <1>1, <3>1
      <4>2. DigitChars[k + 1] \in DigitsOf(base)
        BY <4>1 DEF DigitsOf
      <4> QED BY <4>2
    <3>2. <<>> \in V
      OBVIOUS
    <3> HIDE DEF V
    <3> QED BY <3>1, <3>2
  <2>3. before \in [Nat -> Nat] /\ \A k \in Nat : k \notin stop => before[k] < k
    <3>1. ASSUME NEW k \in Nat
          PROVE  k \div base \in Nat /\ (k \notin stop => k \div base < k)
      <4>1. k \notin stop => k >= base
        BY <1>1
      <4> QED BY <4>1, Division
    <3> QED BY <3>1
  <2>4. step \in [Nat \X V -> V]
    <3>1. ASSUME NEW k \in Nat, NEW s \in V
          PROVE  Append(s, DigitChars[(k % base) + 1]) \in V
      BY <1>2, AppendProperties
    <3> HIDE DEF V
    <3> QED BY <3>1
  <2> HIDE DEF V, stop, last, before, step
  <2> QED BY <2>1, <2>2, <2>3, <2>4 DEF Recursion
<1>4. PICK g : Recurses(V, stop, last, before, step, g)
  <2> HIDE DEF V, stop, last, before, step
  <2> QED BY <1>3, RecursiveFcn
<1>5. g \in [Nat -> V]
  BY <1>4 DEF Recurses
<1>6. ASSUME NEW k \in Nat
      PROVE  g[k] = IF k < base THEN <<DigitChars[k + 1]>>
                    ELSE Append(g[k \div base], DigitChars[(k % base) + 1])
  <2>1. g[k] = IF k \in stop THEN last[k] ELSE step[<<k, g[before[k]]>>]
    BY <1>4 DEF Recurses
  <2>2. k \in stop <=> k < base
    BY <1>1
  <2>3. before[k] = k \div base /\ k \div base \in Nat
    BY Division
  <2>4. g[k \div base] \in V
    BY <1>5, <2>3
  <2>5. step[<<k, g[k \div base]>>] = Append(g[k \div base], DigitChars[(k % base) + 1])
    <3> HIDE DEF V
    <3> QED BY <2>4
  <2>6. last[k] = IF k < base THEN <<DigitChars[k + 1]>> ELSE <<>>
    OBVIOUS
  <2> HIDE DEF stop, last, before, step
  <2> QED BY <2>1, <2>2, <2>3, <2>5, <2>6
<1>7. P(g)
  <2>1. g = [k \in Nat |-> g[k]]
    <3> HIDE DEF V
    <3> QED BY <1>5
  <2> QED BY <1>6, <2>1
<1> DEFINE D == CHOOSE h : P(h)
<1>8. \A n \in Nat : Digits(n, base) = D[n]
  BY DEF Digits
<1>9. P(D)
  <2> HIDE DEF P
  <2> QED BY <1>7
<1>10. \A k \in Nat : D[k] = IF k < base THEN <<DigitChars[k + 1]>>
                             ELSE Append(D[k \div base], DigitChars[(k % base) + 1])
  <2> HIDE DEF D
  <2> QED BY <1>9
<1> HIDE DEF D
<1> DEFINE Wrong == {k \in Nat : D[k] # g[k]}
<1>11. Wrong = {}
  <2> SUFFICES ASSUME Wrong # {} PROVE FALSE
    OBVIOUS
  <2>1. PICK k \in Wrong : \A j \in Wrong : k <= j
    <3>1. Wrong \in SUBSET Nat
      OBVIOUS
    <3> HIDE DEF Wrong
    <3> QED BY <3>1, LeastNat
  <2>2. k \in Nat /\ D[k] # g[k]
    OBVIOUS
  <2>3. ~(k < base)
    BY <1>6, <1>10, <2>2
  <2>4. k \div base \in Nat /\ ~(k <= k \div base)
    BY <1>1, <2>2, <2>3, Division
  <2>5. D[k \div base] = g[k \div base]
    <3>1. k \div base \notin Wrong
      <4> HIDE DEF Wrong
      <4> QED BY <2>1, <2>4
    <3> QED BY <2>4, <3>1
  <2> QED BY <1>6, <1>10, <2>2, <2>3, <2>5
<1>12. \A k \in Nat : D[k] \in V
  BY <1>5, <1>11
<1>13. ASSUME NEW n \in Nat
       PROVE  /\ Digits(n, base) \in V
              /\ n < base => Digits(n, base) = <<DigitChars[n + 1]>>
              /\ n >= base => Digits(n, base) =
                     Append(Digits(n \div base, base), DigitChars[(n % base) + 1])
  <2>1. n \div base \in Nat
    BY Division
  <2>2. n >= base => ~(n < base)
    BY <1>1
  <2> HIDE DEF V
  <2> QED BY <1>8, <1>10, <1>12, <2>1, <2>2
<1> QED BY <1>13

\* A set of indices has a highest one.
LEMMA Highest ==
    ASSUME NEW n \in Nat, NEW s \in SUBSET (1 .. n), s # {}
    PROVE  /\ Max(s) \in s
           /\ \A y \in s : y <= Max(s)
<1> DEFINE Above == {m \in Nat : \A y \in s : y <= m}
<1>1. n \in Above
  OBVIOUS
<1>2. PICK m \in Above : \A k \in Above : m <= k
  <2>1. Above \in SUBSET Nat /\ Above # {}
    BY <1>1
  <2> HIDE DEF Above
  <2> QED BY <2>1, LeastNat
<1>3. m \in Nat /\ \A y \in s : y <= m
  OBVIOUS
<1>4. m \in s
  <2> SUFFICES ASSUME m \notin s PROVE FALSE
    OBVIOUS
  <2>1. \A y \in s : y \in Nat /\ y > 0 /\ y <= m /\ y # m
    BY <1>3
  <2>2. m > 0 /\ \A y \in s : y <= m - 1
    <3>1. m > 0
      <4>1. PICK y \in s : TRUE
        OBVIOUS
      <4> QED BY <1>3, <2>1, <4>1
    <3>2. ASSUME NEW y \in s
          PROVE  y <= m - 1
      <4>1. y \in Nat /\ y <= m /\ y # m
        BY <2>1
      <4> QED BY <1>3, <4>1
    <3> QED BY <3>1, <3>2
  <2>3. m - 1 \in Above
    BY <1>3, <2>2
  <2>4. m <= m - 1
    <3> HIDE DEF Above
    <3> QED BY <1>2, <2>3
  <2> QED BY <1>3, <2>4
<1>5. \E x \in s : \A y \in s : x >= y
  BY <1>3, <1>4
<1>6. Max(s) \in s /\ \A y \in s : Max(s) >= y
  BY <1>5 DEF Max
<1> QED BY <1>6

\* The value of digits, as FoldLeft computes it: by a function on the sets of their
\* indices, which takes the highest last.
ValueOver(l, base, s, g) ==
    IF s = {} THEN 0 ELSE g[s \ {Max(s)}] * base + DigitValue(l[Max(s)])
ValueFn(l, base, g) == g = [s \in SUBSET DOMAIN l |-> ValueOver(l, base, s, g)]

\* Such a function exists: one that is right for the sets of up to n indices gives
\* one that is right for those of n + 1.
LEMMA ValueFnExists ==
    ASSUME NEW S, NEW l \in Seq(S), NEW base
    PROVE  \E g : ValueFn(l, base, g)
<1> DEFINE D == DOMAIN l
           Upto(n, g) == \A s \in SUBSET D : Cardinality(s) <= n => g[s] = ValueOver(l, base, s, g)
           Missing == {n \in Nat : ~ \E g : Upto(n, g)}
<1>1. D = 1 .. Len(l) /\ Len(l) \in Nat
  BY LenProperties
<1>2. IsFiniteSet(D) /\ Cardinality(D) \in Nat
  BY <1>1, FS_Interval, FS_CardinalityType
<1>3. \A s \in SUBSET D : IsFiniteSet(s) /\ Cardinality(s) \in Nat
  BY <1>2, FS_Subset, FS_CardinalityType
<1>4. Upto(0, [s \in SUBSET D |-> 0])
  <2> SUFFICES ASSUME NEW s \in SUBSET D, Cardinality(s) <= 0
               PROVE  s = {}
    BY DEF ValueOver
  <2> QED BY <1>3, FS_EmptySet
<1>5. ASSUME NEW n \in Nat, NEW g, Upto(n, g)
      PROVE  \E h : Upto(n + 1, h)
  <2> DEFINE h == [s \in SUBSET D |-> IF Cardinality(s) <= n THEN g[s] ELSE ValueOver(l, base, s, g)]
  <2>1. \A s \in SUBSET D : h[s] = ValueOver(l, base, s, g)
    BY <1>5
  <2>2. ASSUME NEW s \in SUBSET D, Cardinality(s) <= n + 1
        PROVE  h[s] = ValueOver(l, base, s, h)
    <3>1. CASE s = {}
      BY <2>1, <3>1 DEF ValueOver
    <3>2. CASE s # {}
      <4> DEFINE t == s \ {Max(s)}
      <4>1. Max(s) \in s
        BY <1>1, <3>2, Highest
      <4>2. t \in SUBSET D /\ Cardinality(t) = Cardinality(s) - 1
        BY <1>3, <4>1, FS_RemoveElement
      <4>3. Cardinality(t) <= n
        BY <1>3, <2>2, <4>2
      <4>4. h[t] = g[t]
        BY <4>2, <4>3
      <4> QED BY <2>1, <3>2, <4>4 DEF ValueOver
    <3> QED BY <3>1, <3>2
  <2>3. Upto(n + 1, h)
    BY <2>2
  <2> QED BY <2>3
<1>6. Missing = {}
  <2> SUFFICES ASSUME Missing # {} PROVE FALSE
    OBVIOUS
  <2>1. PICK m \in Missing : \A k \in Missing : m <= k
    BY LeastNat
  <2>2. m # 0
    BY <1>4
  <2>3. m \in Nat /\ m - 1 \in Nat /\ m - 1 \notin Missing
    <3>1. m \in Nat
      OBVIOUS
    <3> HIDE DEF Missing
    <3> QED BY <2>1, <2>2, <3>1
  <2>4. PICK g : Upto(m - 1, g)
    BY <2>3
  <2>5. \E h : Upto(m, h)
    <3> HIDE DEF Upto
    <3>1. \E h : Upto((m - 1) + 1, h)
      BY <1>5, <2>3, <2>4
    <3>2. (m - 1) + 1 = m
      BY <2>3
    <3> QED BY <3>1, <3>2
  <2> QED BY <2>5
<1>7. PICK g : Upto(Cardinality(D), g)
  BY <1>2, <1>6
<1>8. \A s \in SUBSET D : g[s] = ValueOver(l, base, s, g)
  BY <1>2, <1>7, FS_Subset
<1> DEFINE h == [s \in SUBSET D |-> g[s]]
<1>9. ASSUME NEW s \in SUBSET D
      PROVE  h[s] = ValueOver(l, base, s, h)
  BY <1>8 DEF ValueOver
<1>10. ValueFn(l, base, h)
  BY <1>9 DEF ValueFn
<1> QED BY <1>10

LEMMA ValueOfDef ==
    ASSUME NEW S, NEW l \in Seq(S), NEW base
    PROVE  \E g : ValueFn(l, base, g) /\ ValueOf(l, base) = g[DOMAIN l]
<1> DEFINE G == CHOOSE g : ValueFn(l, base, g)
<1>1. ValueOf(l, base) = G[DOMAIN l]
  BY DEF ValueOf, FoldLeft, MapThenFoldSet, ValueFn, ValueOver
<1>2. ValueFn(l, base, G)
  BY ValueFnExists
<1> QED BY <1>1, <1>2

\* On the first k indices the function has the digit of the k-th last.
DigitByDigit(l, base, g) ==
    /\ g[1 .. 0] = 0
    /\ \A k \in 1 .. Len(l) : g[1 .. k] = g[1 .. k - 1] * base + DigitValue(l[k])

LEMMA ValuePrefix ==
    ASSUME NEW S, NEW l \in Seq(S), NEW base, NEW g, ValueFn(l, base, g)
    PROVE  DigitByDigit(l, base, g)
<1>1. DOMAIN l = 1 .. Len(l) /\ Len(l) \in Nat
  BY LenProperties
<1>2. \A s \in SUBSET (1 .. Len(l)) : g[s] = ValueOver(l, base, s, g)
  BY <1>1 DEF ValueFn
<1>3. 1 .. 0 = {}
  OBVIOUS
<1>4. ASSUME NEW k \in 1 .. Len(l)
      PROVE  g[1 .. k] = g[1 .. k - 1] * base + DigitValue(l[k])
  <2>1. /\ 1 .. k \in SUBSET (1 .. Len(l)) /\ k \in 1 .. k
        /\ k \in Nat
    BY <1>1
  <2>2. Max(1 .. k) \in 1 .. k /\ \A y \in 1 .. k : y <= Max(1 .. k)
    BY <2>1, Highest
  <2>3. Max(1 .. k) = k
    <3>1. k <= Max(1 .. k)
      BY <2>1, <2>2
    <3> QED BY <2>1, <2>2, <3>1
  <2>4. (1 .. k) \ {k} = 1 .. k - 1
    BY <2>1
  <2> QED BY <1>2, <2>1, <2>3, <2>4 DEF ValueOver
<1> QED BY <1>2, <1>3, <1>4 DEF ValueOver, DigitByDigit

\* One digit more: the value times the base, and the digit.
LEMMA ValueOfMore ==
    ASSUME NEW S, NEW l \in Seq(S), NEW ch \in S, NEW base
    PROVE  ValueOf(Append(l, ch), base) = ValueOf(l, base) * base + DigitValue(ch)
<1> DEFINE m == Append(l, ch)
           n == Len(l)
<1>1. /\ m \in Seq(S) /\ Len(m) = n + 1 /\ n \in Nat /\ m[n + 1] = ch
      /\ \A k \in 1 .. n : m[k] = l[k]
      /\ DOMAIN l = 1 .. n /\ DOMAIN m = 1 .. n + 1
  BY AppendProperties, LenProperties
<1> HIDE DEF m
<1>2. PICK g : ValueFn(l, base, g) /\ ValueOf(l, base) = g[DOMAIN l]
  BY ValueOfDef
<1>3. PICK h : ValueFn(m, base, h) /\ ValueOf(m, base) = h[DOMAIN m]
  BY <1>1, ValueOfDef
<1>4. /\ g[1 .. 0] = 0 /\ h[1 .. 0] = 0
      /\ \A k \in 1 .. n : g[1 .. k] = g[1 .. k - 1] * base + DigitValue(l[k])
      /\ \A k \in 1 .. n + 1 : h[1 .. k] = h[1 .. k - 1] * base + DigitValue(m[k])
  <2>1. /\ g[1 .. 0] = 0
        /\ \A k \in 1 .. n : g[1 .. k] = g[1 .. k - 1] * base + DigitValue(l[k])
    BY <1>2, ValuePrefix DEF DigitByDigit
  <2> HIDE DEF n
  <2>2. /\ h[1 .. 0] = 0
        /\ \A k \in 1 .. Len(m) : h[1 .. k] = h[1 .. k - 1] * base + DigitValue(m[k])
    BY <1>1, <1>3, ValuePrefix DEF DigitByDigit
  <2> QED BY <1>1, <2>1, <2>2
<1> DEFINE Differ == {k \in 0 .. n : g[1 .. k] # h[1 .. k]}
<1>5. Differ = {}
  <2> SUFFICES ASSUME Differ # {} PROVE FALSE
    OBVIOUS
  <2>1. PICK k \in Differ : \A j \in Differ : k <= j
    <3>1. Differ \in SUBSET Nat
      BY <1>1
    <3> HIDE DEF Differ
    <3> QED BY <3>1, LeastNat
  <2>2. k \in 1 .. n /\ k \in 1 .. n + 1 /\ k - 1 \in 0 .. n
    <3>1. k \in 0 .. n /\ g[1 .. k] # h[1 .. k]
      OBVIOUS
    <3> HIDE DEF Differ, n
    <3>2. k # 0
      BY <1>4, <3>1
    <3> QED BY <1>1, <3>1, <3>2
  <2>3. k - 1 \notin Differ
    <3>1. ~(k <= k - 1)
      BY <2>2
    <3> HIDE DEF Differ
    <3> QED BY <2>1, <3>1
  <2>4. g[1 .. k - 1] = h[1 .. k - 1]
    BY <2>2, <2>3
  <2>5. g[1 .. k] = h[1 .. k]
    BY <1>1, <1>4, <2>2, <2>4
  <2> QED BY <2>5
<1>6. g[1 .. n] = h[1 .. n]
  BY <1>1, <1>5
<1>7. n + 1 \in 1 .. n + 1 /\ (n + 1) - 1 = n
  BY <1>1
<1>8. h[1 .. n + 1] = h[1 .. n] * base + DigitValue(m[n + 1])
  BY <1>4, <1>7
<1> QED BY <1>1, <1>2, <1>3, <1>6, <1>8 DEF m

LEMMA ValueOfOne ==
    ASSUME NEW ch, NEW base, DigitValue(ch) \in Int, base \in Int
    PROVE  ValueOf(<<ch>>, base) = DigitValue(ch)
<1> DEFINE l == <<ch>>
<1>1. l \in Seq({ch}) /\ DOMAIN l = 1 .. 1 /\ Len(l) = 1 /\ l[1] = ch
  OBVIOUS
<1> HIDE DEF l
<1>2. PICK g : ValueFn(l, base, g) /\ ValueOf(l, base) = g[DOMAIN l]
  BY <1>1, ValueOfDef
<1>3. g[1 .. 0] = 0 /\ \A k \in 1 .. 1 : g[1 .. k] = g[1 .. k - 1] * base + DigitValue(l[k])
  <2>1. DigitByDigit(l, base, g)
    BY <1>1, <1>2, ValuePrefix
  <2> QED BY <1>1, <2>1 DEF DigitByDigit
<1>4. 1 \in 1 .. 1 /\ 1 - 1 = 0
  OBVIOUS
<1>5. g[1 .. 1] = g[1 .. 0] * base + DigitValue(l[1])
  BY <1>3, <1>4
<1>6. ValueOf(l, base) = 0 * base + DigitValue(ch)
  BY <1>1, <1>2, <1>3, <1>5
<1> QED BY <1>6 DEF l

\* Padding: as many characters as are asked for, or none.
LEMMA PadIs ==
    ASSUME NEW c, NEW n \in Int
    PROVE  /\ Pad(c, n) \in Seq({c})
           /\ Len(Pad(c, n)) = IF n > 0 THEN n ELSE 0
           /\ \A i \in 1 .. Len(Pad(c, n)) : Pad(c, n)[i] = c
<1>1. CASE n > 0
  <2>1. n \in Nat
    BY <1>1
  <2> QED BY <1>1, <2>1 DEF Pad
<1>2. CASE ~(n > 0)
  <2>1. 1 .. n = {} /\ 1 .. 0 = {}
    BY <1>2
  <2>2. Pad(c, n) = [i \in 1 .. 0 |-> c]
    BY <2>1 DEF Pad
  <2> QED BY <1>2, <2>2
<1> QED BY <1>1, <1>2

\* Zeros before a number do not change it.
LEMMA LeadingZeros ==
    ASSUME NEW S, NEW z \in Seq(S), NEW s \in Seq(S), \A i \in 1 .. Len(z) : z[i] = "0",
           NEW base \in Int
    PROVE  ValueOf(z \o s, base) = ValueOf(s, base)
<1> DEFINE t == z \o s
           m == Len(z)
           n == Len(s)
<1>1. /\ m \in Nat /\ n \in Nat /\ t \in Seq(S) /\ Len(t) = m + n
      /\ \A i \in 1 .. m : t[i] = "0"
      /\ \A i \in 1 .. n : t[m + i] = s[i]
      /\ DOMAIN t = 1 .. m + n /\ DOMAIN s = 1 .. n
  <2>1. m \in Nat /\ n \in Nat /\ DOMAIN s = 1 .. n
    BY LenProperties
  <2>2. t \in Seq(S) /\ Len(t) = m + n
    BY ConcatProperties
  <2>3. \A i \in 1 .. Len(z) + Len(s) : t[i] = IF i <= Len(z) THEN z[i] ELSE s[i - Len(z)]
    BY ConcatProperties
  <2>4. \A i \in 1 .. m : t[i] = "0"
    BY <2>1, <2>3
  <2>5. ASSUME NEW i \in 1 .. n
        PROVE  t[m + i] = s[i]
    <3>1. m + i \in 1 .. m + n /\ ~(m + i <= m) /\ (m + i) - m = i
      BY <2>1
    <3> QED BY <2>3, <3>1
  <2>6. DOMAIN t = 1 .. m + n
    BY <2>2, LenProperties
  <2> QED BY <2>1, <2>2, <2>4, <2>5, <2>6
<1> HIDE DEF t, m, n
<1>2. PICK g : ValueFn(s, base, g) /\ ValueOf(s, base) = g[1 .. n]
  BY <1>1, ValueOfDef
<1>3. PICK h : ValueFn(t, base, h) /\ ValueOf(t, base) = h[1 .. m + n]
  BY <1>1, ValueOfDef
<1>4. /\ g[1 .. 0] = 0
      /\ \A k \in 1 .. n : g[1 .. k] = g[1 .. k - 1] * base + DigitValue(s[k])
  <2>1. DigitByDigit(s, base, g)
    BY <1>2, ValuePrefix
  <2> QED BY <2>1 DEF DigitByDigit, n
<1>5. /\ h[1 .. 0] = 0
      /\ \A k \in 1 .. m + n : h[1 .. k] = h[1 .. k - 1] * base + DigitValue(t[k])
  <2>1. DigitByDigit(t, base, h)
    BY <1>1, <1>3, ValuePrefix
  <2> QED BY <1>1, <2>1 DEF DigitByDigit
<1>6. DigitValue("0") = 0
  <2>1. 1 \in 1 .. 16 /\ 1 - 1 = 0
    OBVIOUS
  <2> QED BY <2>1, SixteenDigits
<1> DEFINE NotZero == {k \in 0 .. m : h[1 .. k] # 0}
<1>7. NotZero = {}
  <2> SUFFICES ASSUME NotZero # {} PROVE FALSE
    OBVIOUS
  <2>1. PICK k \in NotZero : \A j \in NotZero : k <= j
    <3>1. NotZero \in SUBSET Nat
      BY <1>1
    <3> HIDE DEF NotZero
    <3> QED BY <3>1, LeastNat
  <2>2. k \in 1 .. m /\ k \in 1 .. m + n /\ k - 1 \in 0 .. m
    BY <1>1, <1>5
  <2>3. k - 1 \notin NotZero
    <3>1. ~(k <= k - 1)
      BY <2>2
    <3> HIDE DEF NotZero
    <3> QED BY <2>1, <3>1
  <2>4. h[1 .. k - 1] = 0
    BY <2>2, <2>3
  <2>5. h[1 .. k] = 0 * base + 0
    BY <1>1, <1>5, <1>6, <2>2, <2>4
  <2> QED BY <2>5
<1> DEFINE Differ == {k \in 0 .. n : g[1 .. k] # h[1 .. m + k]}
<1>8. Differ = {}
  <2> SUFFICES ASSUME Differ # {} PROVE FALSE
    OBVIOUS
  <2>1. PICK k \in Differ : \A j \in Differ : k <= j
    <3>1. Differ \in SUBSET Nat
      BY <1>1
    <3> HIDE DEF Differ
    <3> QED BY <3>1, LeastNat
  <2>2. k \in 0 .. n /\ g[1 .. k] # h[1 .. m + k]
    OBVIOUS
  <2>3. k # 0
    <3>1. m \in 0 .. m /\ m + 0 = m
      BY <1>1
    <3>2. h[1 .. m + 0] = 0
      BY <1>7, <3>1
    <3> QED BY <1>4, <2>2, <3>2
  <2>4. k \in 1 .. n /\ m + k \in 1 .. m + n /\ k - 1 \in 0 .. n /\ (m + k) - 1 = m + (k - 1)
    BY <1>1, <2>2, <2>3
  <2>5. k - 1 \notin Differ
    <3>1. ~(k <= k - 1)
      BY <2>4
    <3> HIDE DEF Differ
    <3> QED BY <2>1, <3>1
  <2>6. g[1 .. k - 1] = h[1 .. m + (k - 1)]
    BY <2>4, <2>5
  <2>7. h[1 .. m + k] = h[1 .. m + (k - 1)] * base + DigitValue(t[m + k])
    BY <1>5, <2>4
  <2>8. g[1 .. k] = g[1 .. k - 1] * base + DigitValue(s[k])
    BY <1>4, <2>4
  <2>9. t[m + k] = s[k]
    BY <1>1, <2>4
  <2> QED BY <2>2, <2>6, <2>7, <2>8, <2>9
<1>9. g[1 .. n] = h[1 .. m + n]
  <2>1. n \in 0 .. n
    BY <1>1
  <2> QED BY <1>8, <2>1
<1> QED BY <1>2, <1>3, <1>9 DEF t

\* What the division writes down reads back as the number divided, and starts with
\* a zero only if it is one.
LEMMA DigitsReadBack ==
    ASSUME NEW base \in Bases, NEW n \in Nat
    PROVE  /\ Digits(n, base) \in Seq(DigitsOf(base))
           /\ Len(Digits(n, base)) > 0
           /\ ValueOf(Digits(n, base), base) = n
           /\ n > 0 => Digits(n, base)[1] # "0"
           /\ n = 0 => Len(Digits(n, base)) = 1
<1> DEFINE Right(k) == /\ Len(Digits(k, base)) > 0
                       /\ ValueOf(Digits(k, base), base) = k
                       /\ k > 0 => Digits(k, base)[1] # "0"
                       /\ k = 0 => Len(Digits(k, base)) = 1
           Wrong == {k \in Nat : ~Right(k)}
<1>1. base \in Nat /\ base > 1 /\ base <= 16
  BY DEF Bases
<1>2. ASSUME NEW k \in Nat, k < base
      PROVE  Right(k)
  <2>1. Digits(k, base) = <<DigitChars[k + 1]>>
    BY <1>2, DigitsAre
  <2>2. k + 1 \in 1 .. 16 /\ (k > 0 => k + 1 \in 2 .. 16) /\ (k + 1) - 1 = k
    BY <1>1, <1>2
  <2>3. DigitValue(DigitChars[k + 1]) = k
    BY <2>2, SixteenDigits
  <2>4. ValueOf(<<DigitChars[k + 1]>>, base) = k
    <3>1. DigitValue(DigitChars[k + 1]) \in Int /\ base \in Int
      BY <1>1, <2>3
    <3> QED BY <2>3, <3>1, ValueOfOne
  <2>5. k > 0 => DigitChars[k + 1] # "0"
    BY <2>2, SixteenDigits
  <2>6. Len(<<DigitChars[k + 1]>>) = 1 /\ <<DigitChars[k + 1]>>[1] = DigitChars[k + 1]
    OBVIOUS
  <2> QED BY <2>1, <2>4, <2>5, <2>6
<1>3. ASSUME NEW k \in Nat, k >= base, Right(k \div base)
      PROVE  Right(k)
  <2> DEFINE q == k \div base
             r == k % base
             d == Digits(q, base)
  <2>1. q \in Nat /\ q > 0 /\ r \in 0 .. base - 1 /\ q * base + r = k
    BY <1>3, Division
  <2>2. Digits(k, base) = Append(d, DigitChars[r + 1])
    BY <1>3, DigitsAre
  <2> HIDE DEF r
  <2>3. d \in Seq(DigitsOf(base))
    BY <2>1, DigitsAre
  <2>4. Len(d) > 0 /\ ValueOf(d, base) = q /\ d[1] # "0"
    BY <1>3, <2>1
  <2> HIDE DEF q, d
  <2>5. r + 1 \in 1 .. base /\ r + 1 \in 1 .. 16 /\ (r + 1) - 1 = r
    BY <1>1, <2>1
  <2>6. DigitChars[r + 1] \in DigitsOf(base) /\ DigitValue(DigitChars[r + 1]) = r
    <3>1. DigitChars[r + 1] \in DigitsOf(base)
      BY <2>5 DEF DigitsOf
    <3> QED BY <2>5, <3>1, SixteenDigits
  <2>7. ValueOf(Append(d, DigitChars[r + 1]), base) = q * base + r
    BY <2>3, <2>4, <2>6, ValueOfMore
  <2>8. /\ Len(Append(d, DigitChars[r + 1])) = Len(d) + 1 /\ Len(d) \in Nat
        /\ Append(d, DigitChars[r + 1])[1] = d[1]
    <3>1. Len(d) \in Nat
      BY <2>3, LenProperties
    <3>2. 1 \in 1 .. Len(d)
      BY <2>4, <3>1
    <3> QED BY <2>3, <2>6, <3>1, <3>2, AppendProperties
  <2>9. k # 0
    BY <1>1, <1>3
  <2> QED BY <2>1, <2>2, <2>4, <2>7, <2>8, <2>9
<1>4. Wrong = {}
  <2> SUFFICES ASSUME Wrong # {} PROVE FALSE
    OBVIOUS
  <2>1. PICK k \in Wrong : \A j \in Wrong : k <= j
    <3>1. Wrong \in SUBSET Nat
      OBVIOUS
    <3> HIDE DEF Wrong
    <3> QED BY <3>1, LeastNat
  <2>2. k \in Nat /\ ~Right(k)
    OBVIOUS
  <2> HIDE DEF Right
  <2>3. k >= base
    BY <1>1, <1>2, <2>2
  <2>4. k \div base \in Nat /\ ~(k <= k \div base)
    <3>1. k \div base \in Nat /\ k \div base < k
      BY <2>2, <2>3, Division
    <3> QED BY <2>2, <3>1
  <2>5. Right(k \div base)
    <3>1. k \div base \notin Wrong
      <4> HIDE DEF Wrong
      <4> QED BY <2>1, <2>4
    <3> QED BY <2>4, <3>1
  <2> QED BY <1>3, <2>2, <2>3, <2>5
<1>5. Right(n)
  BY <1>4
<1> QED BY <1>5, DigitsAre

\* What three texts one after another are cut into again.
LEMMA Middle ==
    ASSUME NEW S, NEW s \in Seq(S), NEW t \in Seq(S), NEW u \in Seq(S)
    PROVE  /\ (s \o t) \o u \in Seq(S)
           /\ Len((s \o t) \o u) = Len(s) + Len(t) + Len(u)
           /\ SubSeq((s \o t) \o u, 1, Len(s)) = s
           /\ SubSeq((s \o t) \o u, Len(s) + 1, Len(s) + Len(t)) = t
           /\ SubSeq((s \o t) \o u, Len(s) + Len(t) + 1, Len(s) + Len(t) + Len(u)) = u
<1> DEFINE v == (s \o t) \o u
           a == Len(s)
           b == Len(t)
           c == Len(u)
<1>1. a \in Nat /\ b \in Nat /\ c \in Nat
  BY LenProperties
<1>2. /\ v \in Seq(S) /\ Len(v) = a + b + c
      /\ \A i \in 1 .. a : v[i] = s[i]
      /\ \A i \in 1 .. b : v[a + i] = t[i]
      /\ \A i \in 1 .. c : v[a + b + i] = u[i]
  <2> DEFINE w == s \o t
  <2>1. /\ w \in Seq(S) /\ Len(w) = a + b
        /\ \A i \in 1 .. a + b : w[i] = IF i <= a THEN s[i] ELSE t[i - a]
    BY ConcatProperties
  <2> HIDE DEF w, a, b, c
  <2>2. /\ w \o u \in Seq(S) /\ Len(w \o u) = Len(w) + c
        /\ \A i \in 1 .. Len(w) + c : (w \o u)[i] = IF i <= Len(w) THEN w[i] ELSE u[i - Len(w)]
    BY <2>1, ConcatProperties DEF c
  <2>3. v = w \o u
    BY DEF w
  <2> HIDE DEF v
  <2>4. \A i \in 1 .. a + b + c : v[i] = IF i <= a + b THEN w[i] ELSE u[i - (a + b)]
    BY <2>1, <2>2, <2>3
  <2>5. ASSUME NEW i \in 1 .. a
        PROVE  v[i] = s[i]
    <3>1. i \in 1 .. a + b + c /\ i \in 1 .. a + b /\ i <= a + b /\ i <= a
      BY <1>1
    <3> QED BY <2>1, <2>4, <3>1
  <2>6. ASSUME NEW i \in 1 .. b
        PROVE  v[a + i] = t[i]
    <3>1. /\ a + i \in 1 .. a + b + c /\ a + i \in 1 .. a + b /\ a + i <= a + b /\ ~(a + i <= a)
          /\ (a + i) - a = i
      BY <1>1
    <3> QED BY <2>1, <2>4, <3>1
  <2>7. ASSUME NEW i \in 1 .. c
        PROVE  v[a + b + i] = u[i]
    <3>1. a + b + i \in 1 .. a + b + c /\ ~(a + b + i <= a + b) /\ (a + b + i) - (a + b) = i
      BY <1>1
    <3> QED BY <2>4, <3>1
  <2>8. v \in Seq(S) /\ Len(v) = a + b + c
    BY <2>1, <2>2, <2>3
  <2> QED BY <2>5, <2>6, <2>7, <2>8
<1>3. \A i \in 1 .. a + b + c : v[i] \in S
  BY <1>1, <1>2, ElementOfSeq
<1>4. ASSUME NEW r \in Seq(S), NEW k \in Nat, k + Len(r) <= a + b + c,
             \A i \in 1 .. Len(r) : v[k + i] = r[i]
      PROVE  SubSeq(v, k + 1, k + Len(r)) = r
  <2> DEFINE n == Len(r)
             q == SubSeq(v, k + 1, k + n)
  <2>1. n \in Nat
    BY LenProperties
  <2>2. \A i \in k + 1 .. k + n : v[i] \in S
    BY <1>1, <1>3, <1>4, <2>1
  <2>3. k + 1 \in Int /\ k + n \in Int
    BY <2>1
  <2> HIDE DEF n, v
  <2>4. /\ q \in Seq(S) /\ Len(q) = IF k + 1 <= k + n THEN (k + n) - (k + 1) + 1 ELSE 0
        /\ \A i \in 1 .. (k + n) - (k + 1) + 1 : q[i] = v[(k + 1) + i - 1]
    BY <2>2, <2>3, SubSeqProperties
  <2> HIDE DEF q
  <2>5. Len(q) = n
    BY <2>1, <2>4
  <2>6. ASSUME NEW i \in 1 .. n
        PROVE  q[i] = r[i]
    <3>1. i \in 1 .. (k + n) - (k + 1) + 1 /\ (k + 1) + i - 1 = k + i
      BY <2>1
    <3> QED BY <1>4, <2>4, <3>1 DEF n
  <2>7. q = r
    BY <2>4, <2>5, <2>6, SeqEqual DEF n
  <2> QED BY <2>7 DEF q, n
<1> HIDE DEF v
<1>5. SubSeq(v, 1, a) = s
  <2>1. 0 + a <= a + b + c /\ 0 + 1 = 1 /\ 0 + a = a /\ 0 \in Nat /\ \A i \in 1 .. a : 0 + i = i
    BY <1>1
  <2>2. \A i \in 1 .. a : v[0 + i] = s[i]
    BY <1>2, <2>1
  <2>3. SubSeq(v, 0 + 1, 0 + a) = s
    BY <1>4, <2>1, <2>2
  <2> QED BY <2>1, <2>3
<1>6. SubSeq(v, a + 1, a + b) = t
  <2>1. a + b <= a + b + c
    BY <1>1
  <2> QED BY <1>1, <1>2, <1>4, <2>1
<1>7. SubSeq(v, a + b + 1, a + b + c) = u
  <2>1. a + b \in Nat /\ (a + b) + c <= a + b + c
    BY <1>1
  <2> QED BY <1>2, <1>4, <2>1
<1> QED BY <1>2, <1>5, <1>6, <1>7 DEF v

\* The same of two.
LEMMA TwoParts ==
    ASSUME NEW S, NEW s \in Seq(S), NEW t \in Seq(S)
    PROVE  /\ s \o t \in Seq(S) /\ Len(s \o t) = Len(s) + Len(t)
           /\ SubSeq(s \o t, Len(s) + 1, Len(s \o t)) = t
           /\ IsPrefix(s, s \o t)
<1> DEFINE v == s \o t
           e == <<>>
<1>1. e \in Seq(S) /\ Len(e) = 0 /\ e \o s = s
  BY EmptySeq, ConcatEmptySeq
<1>2. Len(s) \in Nat /\ Len(t) \in Nat
  BY LenProperties
<1>3. v \in Seq(S) /\ Len(v) = Len(s) + Len(t)
  BY ConcatProperties
<1> HIDE DEF e
<1>4. SubSeq((e \o s) \o t, Len(e) + Len(s) + 1, Len(e) + Len(s) + Len(t)) = t
  BY <1>1, Middle
<1>5. SubSeq((e \o s) \o t, Len(e) + 1, Len(e) + Len(s)) = s
  BY <1>1, Middle
<1>6. 0 + Len(s) = Len(s) /\ 0 + 1 = 1 /\ Len(s) <= Len(s) + Len(t)
  BY <1>2
<1>7. SubSeq(v, Len(s) + 1, Len(s) + Len(t)) = t
  BY <1>1, <1>4, <1>6
<1>8. SubSeq(v, 1, Len(s)) = s
  BY <1>1, <1>5, <1>6
<1>9. SubSeq(s, 1, Len(s)) = s
  BY SubSeqFull
<1> HIDE DEF v
<1>10. IsPrefix(s, v)
  BY <1>3, <1>6, <1>8, <1>9 DEF IsPrefix
<1> QED BY <1>3, <1>7, <1>10 DEF v

-----------------------------------------------------------------------------
(***************************************************************************)
(* What __number lays out.                                                 *)
(***************************************************************************)
\* The sign depends on nothing but whether the number is negative.
LEMMA HeadIs ==
    ASSUME NEW num, NEW base, NEW type
    PROVE  /\ SignChars(num, type) \o Prefix(base, type) \in Seq(Chars)
           /\ \A m : (Negative(m, type) <=> Negative(num, type)) =>
                         SignChars(m, type) = SignChars(num, type)
<1>1. \A m : SignChars(m, type) \in {<<>>, <<"-">>, <<"+">>, <<" ">>}
  BY DEF SignChars
<1>2. Prefix(base, type) \in {<<>>, <<"0">>, <<"0", "x">>}
  BY DEF Prefix
<1>3. <<>> \in Seq(Chars) /\ <<"-">> \in Seq(Chars) /\ <<"+">> \in Seq(Chars)
      /\ <<" ">> \in Seq(Chars) /\ <<"0">> \in Seq(Chars)
      /\ <<"0", "x">> \in Seq(Chars)
  <2>1. " " \in Chars /\ "-" \in Chars /\ "+" \in Chars /\ "x" \in Chars
    BY CharAssumption
  <2>0. "0" \in Chars
    <3>1. 1 \in 1 .. 16
      OBVIOUS
    <3>2. DigitChars[1] \in Chars
      BY <3>1, CharAssumption
    <3> QED BY <3>2, SixteenDigits
  <2>2. \A S, c : c \in S => <<c>> \in Seq(S)
    OBVIOUS
  <2>3. \A S, c, d : c \in S /\ d \in S => <<c, d>> \in Seq(S)
    OBVIOUS
  <2> QED BY <2>0, <2>1, <2>2, <2>3, EmptySeq
<1>4. SignChars(num, type) \in Seq(Chars) /\ Prefix(base, type) \in Seq(Chars)
  BY <1>1, <1>2, <1>3
<1>5. \A m : (Negative(m, type) <=> Negative(num, type)) =>
                 SignChars(m, type) = SignChars(num, type)
  BY DEF SignChars
<1> QED BY <1>4, <1>5, ConcatProperties

\* The digits with the zeros before them are digits, and worth the same.
LEMMA ZerosAndDigits ==
    ASSUME NEW base \in Bases, NEW n \in Nat, NEW z \in Seq({"0"})
    PROVE  LET tmp == Digits(n, base)
               digits == z \o tmp
           IN  /\ digits \in Seq(DigitsOf(base))
               /\ IsDigits(digits, base) /\ ValueOf(digits, base) = n
               /\ Len(digits) = Len(z) + Len(tmp) /\ Len(z) \in Nat /\ Len(tmp) \in Nat
               /\ Len(z) = 0 /\ digits[1] = "0" => Len(digits) = 1
<1> DEFINE tmp == Digits(n, base)
           digits == z \o tmp
           S == DigitsOf(base)
<1>1. /\ tmp \in Seq(S) /\ Len(tmp) > 0 /\ ValueOf(tmp, base) = n
      /\ n > 0 => tmp[1] # "0"
      /\ n = 0 => Len(tmp) = 1
  BY DigitsReadBack
<1> HIDE DEF tmp
<1>2. base \in Int /\ base >= 1
  BY DEF Bases
<1>3. "0" \in S
  <2>1. 1 \in 1 .. base
    BY <1>2
  <2> QED BY <2>1, SixteenDigits DEF DigitsOf
<1> HIDE DEF S
<1>4. z \in Seq(S) /\ \A i \in 1 .. Len(z) : z[i] = "0"
  <2>1. {"0"} \subseteq S
    BY <1>3
  <2>2. z \in Seq(S)
    BY <2>1, SeqMonotonic
  <2>3. \A i \in 1 .. Len(z) : z[i] \in {"0"}
    BY ElementOfSeq
  <2> QED BY <2>2, <2>3
<1>5. ValueOf(digits, base) = n
  <2>1. ValueOf(z \o tmp, base) = ValueOf(tmp, base)
    BY <1>1, <1>2, <1>4, LeadingZeros
  <2> QED BY <1>1, <2>1
<1>6. Len(z) \in Nat /\ Len(tmp) \in Nat
  BY <1>1, LenProperties
<1>7. /\ digits \in Seq(S) /\ Len(digits) = Len(z) + Len(tmp)
      /\ \A i \in 1 .. Len(z) + Len(tmp) : digits[i] = IF i <= Len(z) THEN z[i] ELSE tmp[i - Len(z)]
  BY <1>1, <1>4, ConcatProperties
<1> HIDE DEF digits
<1>8. IsDigits(digits, base)
  <2>1. digits # <<>>
    <3>1. Len(digits) # 0
      BY <1>1, <1>6, <1>7
    <3> QED BY <3>1
  <2>2. DOMAIN digits = 1 .. Len(digits)
    BY <1>7, LenProperties
  <2>3. \A i \in DOMAIN digits : digits[i] \in S
    BY <1>7, <2>2, ElementOfSeq
  <2> QED BY <2>1, <2>3 DEF IsDigits, S, DigitsOf
<1>9. Len(z) = 0 /\ digits[1] = "0" => Len(digits) = 1
  <2> SUFFICES ASSUME Len(z) = 0, digits[1] = "0" PROVE Len(digits) = 1
    OBVIOUS
  <2>1. 1 \in 1 .. Len(z) + Len(tmp) /\ ~(1 <= Len(z)) /\ 1 - Len(z) = 1
    BY <1>1, <1>6
  <2>2. digits[1] = tmp[1]
    BY <1>7, <2>1
  <2>3. n = 0
    BY <1>1, <2>2
  <2> QED BY <1>1, <1>6, <1>7, <2>3
<1> QED BY <1>5, <1>6, <1>7, <1>8, <1>9 DEF tmp, digits, S

\* A text of blanks, a head, digits and blanks.
LaidOut(text, pre, head, digits, post) ==
    /\ pre \in Seq(Chars) /\ head \in Seq(Chars)
    /\ digits \in Seq(Chars) /\ post \in Seq(Chars)
    /\ text = (pre \o (head \o digits)) \o post
    /\ \A i \in 1 .. Len(pre) : pre[i] = " "
    /\ \A i \in 1 .. Len(post) : post[i] = " "

\* How a number fills its field.
Fills(a, h, d, b, size, precision, first, type) ==
    /\ a \in Nat /\ h \in Nat /\ d \in Nat /\ b \in Nat
    /\ d >= precision
    /\ a + h + d + b >= size
    /\ a + b > 0 => a + h + d + b = size
    /\ "LEFT" \in type => a = 0
    /\ "LEFT" \notin type => b = 0
    /\ a > 0 => "ZEROPAD" \notin type
    /\ first = "0" /\ d > 1 => d = precision \/ a + h + d + b = size

\* Concatenation grouped otherwise; under a name, so that the provers regroup by
\* these equations and no others.
Glue(s, t) == s \o t

LEMMA GlueIs ==
    ASSUME NEW S, NEW s \in Seq(S), NEW t \in Seq(S), NEW u \in Seq(S)
    PROVE  Glue(s, t) \in Seq(S) /\ Glue(Glue(s, t), u) = Glue(s, Glue(t, u))
<1>1. (s \o t) \o u = s \o (t \o u)
  BY ConcatAssociative, SMTT(20)
<1>2. s \o t \in Seq(S)
  BY ConcatProperties
<1> QED BY <1>1, <1>2 DEF Glue

Regroups(p, h, f, z, t) ==
    (((p \o h) \o f) \o z) \o t = p \o (h \o ((f \o z) \o t))

LEMMA Regrouped ==
    ASSUME NEW S, NEW p \in Seq(S), NEW h \in Seq(S), NEW f \in Seq(S), NEW z \in Seq(S),
           NEW t \in Seq(S)
    PROVE  Regroups(p, h, f, z, t)
<1>1. Glue(p, h) \in Seq(S) /\ Glue(f, z) \in Seq(S) /\ Glue(Glue(f, z), t) \in Seq(S)
  BY GlueIs
<1>2. Glue(Glue(Glue(p, h), f), z) = Glue(Glue(p, h), Glue(f, z))
  BY <1>1, GlueIs
<1>3. Glue(Glue(Glue(p, h), Glue(f, z)), t) = Glue(Glue(p, h), Glue(Glue(f, z), t))
  BY <1>1, GlueIs
<1>4. Glue(Glue(p, h), Glue(Glue(f, z), t)) = Glue(p, Glue(h, Glue(Glue(f, z), t)))
  BY <1>1, GlueIs
<1>5. Glue(Glue(Glue(Glue(p, h), f), z), t) = Glue(p, Glue(h, Glue(Glue(f, z), t)))
  BY <1>2, <1>3, <1>4
<1> QED BY <1>5 DEF Glue, Regroups

\* What __number returns is such a text, and its parts fill the field.
LEMMA NumberParts ==
    ASSUME NEW num, NEW base \in Bases, NEW size \in Int, NEW precision \in Int, NEW type,
           Magnitude(num, type) \in Nat
    PROVE  LET head == SignChars(num, type) \o Prefix(base, type)
           IN  \E pre, digits, post :
                   /\ LaidOut(__number(num, base, size, precision, type), pre, head, digits, post)
                   /\ IsDigits(digits, base)
                   /\ ValueOf(digits, base) = Magnitude(num, type)
                   /\ Fills(Len(pre), Len(head), Len(digits), Len(post), size, precision,
                            digits[1], type)
<1> DEFINE head == SignChars(num, type) \o Prefix(base, type)
           n == Magnitude(num, type)
           tmp == Digits(n, base)
           zeros == Pad("0", precision - Len(tmp))
           left == size - Len(head) - Len(zeros) - Len(tmp)
           padded(where) == IF where THEN left ELSE 0
           pre == Pad(" ", padded(type \cap {"ZEROPAD", "LEFT"} = {}))
           fill == Pad("0", padded("ZEROPAD" \in type /\ "LEFT" \notin type))
           post == Pad(" ", padded("LEFT" \in type))
           digits == (fill \o zeros) \o tmp
           text == __number(num, base, size, precision, type)
<1>1. text = ((((pre \o head) \o fill) \o zeros) \o tmp) \o post
  BY DEF __number
<1> HIDE DEF text
<1>2. head \in Seq(Chars)
  BY HeadIs
<1> HIDE DEF head
<1>3. n \in Nat
  OBVIOUS
<1> HIDE DEF n
<1>4. tmp \in Seq(DigitsOf(base)) /\ Len(tmp) \in Nat /\ Len(tmp) > 0
  BY <1>3, DigitsReadBack, LenProperties
<1>5. Len(head) \in Nat
  BY <1>2, LenProperties
<1> HIDE DEF tmp
<1>6. /\ zeros \in Seq({"0"})
      /\ Len(zeros) = IF precision - Len(tmp) > 0 THEN precision - Len(tmp) ELSE 0
  <2>1. precision - Len(tmp) \in Int
    BY <1>4
  <2> QED BY <2>1, PadIs
<1> HIDE DEF zeros
<1>7. Len(zeros) \in Nat /\ left \in Int
  BY <1>4, <1>5, <1>6
<1> HIDE DEF left
<1>8. \A where : padded(where) \in Int
  BY <1>7
<1>9. /\ pre \in Seq({" "}) /\ \A i \in 1 .. Len(pre) : pre[i] = " "
      /\ Len(pre) = IF padded(type \cap {"ZEROPAD", "LEFT"} = {}) > 0
                    THEN padded(type \cap {"ZEROPAD", "LEFT"} = {}) ELSE 0
  <2> DEFINE k == padded(type \cap {"ZEROPAD", "LEFT"} = {})
  <2>1. k \in Int
    BY <1>8
  <2> HIDE DEF k
  <2>2. /\ Pad(" ", k) \in Seq({" "}) /\ \A i \in 1 .. Len(Pad(" ", k)) : Pad(" ", k)[i] = " "
        /\ Len(Pad(" ", k)) = IF k > 0 THEN k ELSE 0
    BY <2>1, PadIs
  <2>3. pre = Pad(" ", k)
    BY DEF k
  <2> HIDE DEF pre
  <2> QED BY <2>2, <2>3 DEF k
<1>10. /\ post \in Seq({" "}) /\ \A i \in 1 .. Len(post) : post[i] = " "
       /\ Len(post) = IF padded("LEFT" \in type) > 0 THEN padded("LEFT" \in type) ELSE 0
  <2> HIDE DEF padded
  <2> QED BY <1>8, PadIs
<1>11. /\ fill \in Seq({"0"})
       /\ Len(fill) = IF padded("ZEROPAD" \in type /\ "LEFT" \notin type) > 0
                      THEN padded("ZEROPAD" \in type /\ "LEFT" \notin type) ELSE 0
  <2> HIDE DEF padded
  <2> QED BY <1>8, PadIs
<1> HIDE DEF pre, post, fill
<1>12. fill \o zeros \in Seq({"0"}) /\ Len(fill \o zeros) = Len(fill) + Len(zeros)
  BY <1>6, <1>11, ConcatProperties
<1>13. /\ digits \in Seq(DigitsOf(base))
       /\ IsDigits(digits, base) /\ ValueOf(digits, base) = n
       /\ Len(digits) = Len(fill \o zeros) + Len(tmp)
       /\ Len(fill \o zeros) = 0 /\ digits[1] = "0" => Len(digits) = 1
  BY <1>3, <1>12, ZerosAndDigits DEF tmp
<1>14. {" "} \subseteq Chars /\ {"0"} \subseteq Chars /\ DigitsOf(base) \subseteq Chars
  <2>1. base \in 1 .. 16
    BY DEF Bases
  <2>2. 1 .. base \subseteq 1 .. 16
    BY <2>1
  <2>3. DigitsOf(base) \subseteq DigitsOf(16)
    BY <2>2 DEF DigitsOf
  <2>4. DigitsOf(16) \subseteq Chars /\ "0" \in DigitsOf(16)
    <3>1. 1 \in 1 .. 16
      OBVIOUS
    <3>2. "0" \in DigitsOf(16)
      BY <3>1, SixteenDigits DEF DigitsOf
    <3> QED BY <3>2, CharAssumption DEF DigitsOf
  <2>5. " " \in Chars
    BY CharAssumption
  <2> QED BY <2>3, <2>4, <2>5
<1>15. /\ pre \in Seq(Chars) /\ post \in Seq(Chars) /\ fill \in Seq(Chars)
       /\ zeros \in Seq(Chars) /\ tmp \in Seq(Chars) /\ digits \in Seq(Chars)
  BY <1>4, <1>6, <1>9, <1>10, <1>11, <1>13, <1>14, SeqMonotonic
<1>16. (((pre \o head) \o fill) \o zeros) \o tmp = pre \o (head \o digits)
  <2>1. Regroups(pre, head, fill, zeros, tmp)
    BY <1>2, <1>15, Regrouped
  <2> QED BY <2>1 DEF Regroups
<1> HIDE DEF digits
<1>17. LaidOut(text, pre, head, digits, post)
  BY <1>1, <1>2, <1>9, <1>10, <1>15, <1>16 DEF LaidOut
<1>18. Fills(Len(pre), Len(head), Len(digits), Len(post), size, precision, digits[1], type)
  <2> DEFINE a == Len(pre)
             h == Len(head)
             f == Len(fill)
             z == Len(zeros)
             t == Len(tmp)
             b == Len(post)
             d == Len(digits)
  <2>1. /\ d = f + z + t /\ left = size - h - z - t
        /\ h \in Nat /\ z \in Nat /\ t \in Nat /\ t > 0
        /\ z = IF precision - t > 0 THEN precision - t ELSE 0
        /\ f = 0 /\ z = 0 /\ digits[1] = "0" => d = 1
    <3>1. left = size - h - z - t
      BY DEF left
    <3>2. f \in Nat
      BY <1>11, LenProperties
    <3>3. d = f + z + t
      BY <1>12, <1>13
    <3>4. f = 0 /\ z = 0 => Len(fill \o zeros) = 0
      BY <1>12
    <3> QED BY <1>4, <1>5, <1>6, <1>7, <1>13, <3>1, <3>3, <3>4
  <2>2. /\ a = IF ("ZEROPAD" \notin type /\ "LEFT" \notin type) /\ left > 0 THEN left ELSE 0
        /\ f = IF ("ZEROPAD" \in type /\ "LEFT" \notin type) /\ left > 0 THEN left ELSE 0
        /\ b = IF "LEFT" \in type /\ left > 0 THEN left ELSE 0
    <3>1. type \cap {"ZEROPAD", "LEFT"} = {} <=> "ZEROPAD" \notin type /\ "LEFT" \notin type
      OBVIOUS
    <3> QED BY <1>7, <1>9, <1>10, <1>11, <3>1
  <2> HIDE DEF a, h, f, z, t, b, d
  <2>3. a \in Nat /\ f \in Nat /\ b \in Nat /\ d \in Nat
    BY <1>7, <2>1, <2>2
  <2>4. /\ a + f + b = IF left > 0 THEN left ELSE 0
        /\ "LEFT" \in type => a = 0
        /\ "LEFT" \notin type => b = 0
        /\ a > 0 => "ZEROPAD" \notin type
    BY <1>7, <2>2
  <2>5. d >= precision /\ a + h + d + b >= size
    BY <1>7, <2>1, <2>3, <2>4
  <2>6. a > 0 \/ b > 0 \/ f > 0 => a + h + d + b = size
    BY <1>7, <2>1, <2>3, <2>4
  <2>7. digits[1] = "0" /\ d > 1 => d = precision \/ a + h + d + b = size
    <3>1. z > 0 /\ f = 0 => d = precision
      BY <2>1, <2>3
    <3> QED BY <2>1, <2>3, <2>6, <3>1
  <2>8. a + b > 0 => a + h + d + b = size
    BY <2>3, <2>6
  <2>9. Fills(a, h, d, b, size, precision, digits[1], type)
    BY <2>1, <2>3, <2>4, <2>5, <2>7, <2>8 DEF Fills
  <2> QED BY <2>9 DEF a, h, d, b
<1> QED BY <1>13, <1>17, <1>18 DEF text, head, n

-----------------------------------------------------------------------------
(***************************************************************************)
(* A conversion's text reads back as its argument.                         *)
(***************************************************************************)
\* The value a conversion's argument has, and whether it is shown with a minus.
Below(c) == c.conv \in {"d", "i"} /\ c.num < 0
Value(c) == IF Below(c) THEN -c.num ELSE c.num % Pow2[LongBits]

LEMMA TypeIs ==
    ASSUME NEW c \in NumberConversion
    PROVE  /\ "SIGN" \in NumberType(c) <=> c.conv \in {"d", "i"}
           /\ "LEFT" \in NumberType(c) <=> "LEFT" \in Flags(c)
           /\ "ZEROPAD" \in NumberType(c) <=> "ZEROPAD" \in Flags(c)
           /\ BaseOf(c) \in Bases /\ FieldWidth(c) \in Int /\ Precision(c) \in Int
           /\ c.num \in Int /\ c.long \in BOOLEAN
<1>1. c.flags \in SUBSET FormatFlags /\ c.width \in Int /\ c.precision \in Int
      /\ c.num \in Int /\ c.long \in BOOLEAN
  BY DEF NumberConversion
<1>2. "SIGN" \notin Flags(c)
  BY <1>1 DEF Flags, FormatFlags
<1>3. /\ "SIGN" \in NumberType(c) <=> c.conv \in {"d", "i"}
      /\ "LEFT" \in NumberType(c) <=> "LEFT" \in Flags(c)
      /\ "ZEROPAD" \in NumberType(c) <=> "ZEROPAD" \in Flags(c)
  BY <1>2 DEF NumberType
<1>4. BaseOf(c) \in Bases
  BY DEF BaseOf, Bases
<1>5. FieldWidth(c) \in Int /\ Precision(c) \in Int
  BY <1>1 DEF FieldWidth, Precision, None
<1> QED BY <1>1, <1>3, <1>4, <1>5

\* What va_arg reads and __number negates is the argument's value, at the limits of
\* the widths too: there num = -num wraps, and the unsigned division undoes it.
LEMMA ArgumentIs ==
    ASSUME NEW c \in NumberConversion, ArgumentFits(c)
    PROVE  /\ Negative(va_arg(c), NumberType(c)) <=> Below(c)
           /\ Magnitude(va_arg(c), NumberType(c)) = Value(c)
           /\ Value(c) \in Nat
<1> DEFINE bits == ArgumentBits(c)
           M == Pow2[LongBits]
           v == va_arg(c)
           type == NumberType(c)
<1>1. /\ bits \in Nat /\ LongBits \in Nat /\ bits > 0 /\ bits <= LongBits
      /\ (c.long => bits = LongBits)
  BY WidthAssumption DEF ArgumentBits
<1>2. c.num \in Int /\ ("SIGN" \in type <=> c.conv \in {"d", "i"})
  BY TypeIs
<1>3. v = Signed(c.num, bits)
  BY DEF va_arg
<1>4. Negative(v, type) <=> "SIGN" \in type /\ v < 0
  BY DEF Negative
<1>5. Magnitude(v, type) = (IF Negative(v, type) THEN Signed(-v, LongBits) ELSE v) % M
  BY DEF Magnitude
<1>6. ArgumentFits(c) <=> \/ c.long /\ c.conv \notin {"d", "i"}
                  \/ c.num \in -Pow2[bits - 1] .. Pow2[bits - 1] - 1
  BY DEF ArgumentFits
<1> HIDE DEF type, v, bits
<1>7. M \in Nat /\ M > 0
  BY <1>1, PowersGrow
<1>8. v \in Int /\ (c.num \in -Pow2[bits - 1] .. Pow2[bits - 1] - 1 => v = c.num)
  BY <1>1, <1>2, <1>3, SignedIs
<1>9. CASE Below(c)
  <2>1. c.conv \in {"d", "i"} /\ c.num < 0 /\ Value(c) = -c.num
    BY <1>9 DEF Below, Value
  <2>2. c.num \in -Pow2[bits - 1] .. Pow2[bits - 1] - 1
    BY <1>6, <2>1
  <2>3. v = c.num /\ Negative(v, type)
    BY <1>2, <1>4, <1>8, <2>1, <2>2
  <2>4. /\ Pow2[bits - 1] <= Pow2[LongBits - 1] /\ Pow2[LongBits - 1] \in Nat
        /\ Pow2[bits - 1] \in Nat /\ Pow2[LongBits - 1] > 0
    <3>1. bits - 1 \in Nat /\ LongBits - 1 \in Nat /\ bits - 1 <= LongBits - 1
      BY <1>1
    <3>2. Pow2[bits - 1] \in Nat /\ 0 < Pow2[bits - 1]
      BY <3>1, PowersGrow
    <3>3. Pow2[LongBits - 1] \in Nat /\ Pow2[bits - 1] <= Pow2[LongBits - 1]
      BY <3>1, PowersGrow
    <3> QED BY <3>2, <3>3
  <2>5. M = 2 * Pow2[LongBits - 1]
    BY <1>1, PowersOfTwo
  <2> DEFINE n == -c.num
  <2>6. n \in Nat /\ n < M
    BY <1>2, <1>7, <2>1, <2>2, <2>4, <2>5
  <2> HIDE DEF n, M
  <2>7. n % M = n
    BY <1>7, <2>6, Remainder
  <2>8. Signed(n, LongBits) % M = n % M
    BY <1>1, <2>6, SignedIs DEF M
  <2>9. Magnitude(v, type) = Signed(n, LongBits) % M
    BY <1>5, <2>3 DEF n
  <2> QED BY <1>9, <2>1, <2>3, <2>6, <2>7, <2>8, <2>9 DEF n, v, type
<1>10. CASE ~Below(c)
  <2>1. Value(c) = c.num % M /\ ~(c.conv \in {"d", "i"} /\ c.num < 0)
    BY <1>10 DEF Below, Value
  <2>2. ~Negative(v, type)
    BY <1>2, <1>4, <1>6, <1>8, <2>1
  <2>3. v % M = c.num % M
    <3>1. CASE c.num \in -Pow2[bits - 1] .. Pow2[bits - 1] - 1
      BY <1>8, <3>1
    <3>2. CASE c.long
      BY <1>1, <1>2, <1>3, <3>2, SignedIs
    <3> QED BY <1>6, <3>1, <3>2
  <2>4. c.num % M \in Nat
    <3> HIDE DEF M
    <3>1. c.num % M \in 0 .. M - 1
      BY <1>2, <1>7, Remainder
    <3> QED BY <1>7, <3>1
  <2> QED BY <1>5, <1>10, <2>1, <2>2, <2>3, <2>4 DEF v, type
<1> QED BY <1>9, <1>10

LEMMA NumberReads ==
    ASSUME NEW c \in NumberConversion, ArgumentFits(c)
    PROVE  ReadsAs(NumberOf(c), c, Below(c), Value(c))
<1> DEFINE text == NumberOf(c)
           type == NumberType(c)
           base == BaseOf(c)
           v == va_arg(c)
           head == SignChars(v, type) \o Prefix(base, type)
           head0 == SignChars(IF Below(c) THEN -1 ELSE 0, type) \o Prefix(base, type)
<1>1. /\ "LEFT" \in type <=> "LEFT" \in Flags(c)
      /\ "ZEROPAD" \in type <=> "ZEROPAD" \in Flags(c)
      /\ base \in Bases /\ FieldWidth(c) \in Int /\ Precision(c) \in Int
  BY TypeIs
<1>2. /\ Negative(v, type) <=> Below(c)
      /\ Magnitude(v, type) = Value(c) /\ Value(c) \in Nat
  BY ArgumentIs
<1>3. head0 = head
  <2>1. "SIGN" \in type <=> c.conv \in {"d", "i"}
    BY TypeIs
  <2>2. Negative(IF Below(c) THEN -1 ELSE 0, type) <=> Below(c)
    BY <2>1 DEF Negative, Below
  <2>3. SignChars(IF Below(c) THEN -1 ELSE 0, type) = SignChars(v, type)
    <3> HIDE DEF type, v
    <3> QED BY <1>2, <2>2, HeadIs
  <2> QED BY <2>3
<1>4. text = __number(v, base, FieldWidth(c), Precision(c), type)
  BY DEF NumberOf
<1> HIDE DEF text, type, base, v
<1>5. PICK pre, digits, post :
          /\ LaidOut(text, pre, head, digits, post)
          /\ IsDigits(digits, base) /\ ValueOf(digits, base) = Value(c)
          /\ Fills(Len(pre), Len(head), Len(digits), Len(post), FieldWidth(c), Precision(c),
                   digits[1], type)
  BY <1>1, <1>2, <1>4, NumberParts
<1> DEFINE a == Len(pre)
           b == Len(post)
           h == Len(head)
           d == Len(digits)
<1> HIDE DEF head, head0
<1>6. /\ pre \in Seq(Chars) /\ head \in Seq(Chars)
      /\ digits \in Seq(Chars) /\ post \in Seq(Chars)
      /\ text = (pre \o (head \o digits)) \o post
      /\ \A i \in 1 .. a : pre[i] = " "
      /\ \A i \in 1 .. b : post[i] = " "
  BY <1>5 DEF LaidOut
<1> DEFINE rest == head \o digits
<1>7. /\ rest \in Seq(Chars) /\ Len(rest) = h + d
      /\ SubSeq(rest, h + 1, Len(rest)) = digits
      /\ IsPrefix(head, rest)
  BY <1>6, TwoParts
<1>8. text = (pre \o rest) \o post
  BY <1>6
<1> HIDE DEF rest
<1>9. /\ Len(text) = a + Len(rest) + b
      /\ SubSeq(text, 1, a) = pre
      /\ SubSeq(text, a + 1, a + Len(rest)) = rest
      /\ SubSeq(text, a + Len(rest) + 1, a + Len(rest) + b) = post
  <2>1. pre \in Seq(Chars) /\ rest \in Seq(Chars) /\ post \in Seq(Chars)
    BY <1>6, <1>7
  <2> DEFINE w == (pre \o rest) \o post
  <2>2. /\ Len(w) = a + Len(rest) + b
        /\ SubSeq(w, 1, a) = pre
        /\ SubSeq(w, a + 1, a + Len(rest)) = rest
        /\ SubSeq(w, a + Len(rest) + 1, a + Len(rest) + b) = post
    BY <2>1, Middle
  <2> HIDE DEF w
  <2>3. text = w
    BY <1>8 DEF w
  <2> QED BY <2>2, <2>3
<1>10. /\ a \in Nat /\ h \in Nat /\ d \in Nat /\ b \in Nat
       /\ d >= Precision(c)
       /\ a + h + d + b >= FieldWidth(c)
       /\ a + b > 0 => a + h + d + b = FieldWidth(c)
       /\ "LEFT" \in type => a = 0
       /\ "LEFT" \notin type => b = 0
       /\ a > 0 => "ZEROPAD" \notin type
       /\ digits[1] = "0" /\ d > 1 => d = Precision(c) \/ a + h + d + b = FieldWidth(c)
  BY <1>5 DEF Fills
<1>11. DOMAIN pre = 1 .. a /\ DOMAIN post = 1 .. b
  BY <1>6, LenProperties
<1> DEFINE n == Len(text)
<1> HIDE DEF a, b, h, d, n
<1>12. n = a + h + d + b
  BY <1>7, <1>9, <1>10 DEF n
<1>13. SubSeq(text, a + 1, n - b) = rest
  <2>1. n - b = a + (h + d)
    BY <1>10, <1>12
  <2> QED BY <1>7, <1>9, <2>1
<1>14. SubSeq(text, n - b + 1, n) = post
  <2>1. n - b + 1 = a + (h + d) + 1 /\ n = a + (h + d) + b
    BY <1>10, <1>12
  <2> QED BY <1>7, <1>9, <2>1
<1>15. Blank(pre) /\ Blank(post)
  BY <1>6, <1>11 DEF Blank
<1>16. a \in 0 .. n /\ b \in 0 .. n /\ a + b <= n
  BY <1>10, <1>12
<1>17. ReadsBetween(text, c, head, Value(c), a, b)
  <2>1. SubSeq(rest, Len(head) + 1, Len(rest)) = digits
    BY <1>7 DEF h
  <2>2. Len(digits) = d
    BY DEF d
  <2>3. SubSeq(text, 1, a) = pre
    BY <1>9
  <2>4. /\ a + b <= n
        /\ Blank(SubSeq(text, 1, a)) /\ Blank(SubSeq(text, n - b + 1, n))
    BY <1>14, <1>15, <1>16, <2>3
  <2>5. /\ d >= Precision(c) /\ n >= FieldWidth(c) /\ (a + b > 0 => n = FieldWidth(c))
        /\ ("LEFT" \in Flags(c) => a = 0) /\ ("LEFT" \notin Flags(c) => b = 0)
        /\ (a > 0 => "ZEROPAD" \notin Flags(c))
        /\ (digits[1] = "0" /\ d > 1 => d = Precision(c) \/ n = FieldWidth(c))
    BY <1>1, <1>10, <1>12
  <2>6. IsPrefix(head, rest) /\ IsDigits(digits, base) /\ ValueOf(digits, base) = Value(c)
    BY <1>5, <1>7
  <2> QED BY <1>13, <2>1, <2>2, <2>4, <2>5, <2>6 DEF ReadsBetween, n, base
<1>18. \E x, y \in 0 .. Len(text) : ReadsBetween(text, c, head0, Value(c), x, y)
  BY <1>3, <1>16, <1>17 DEF n
<1>19. ReadsAs(text, c, Below(c), Value(c))
  BY <1>18 DEF ReadsAs, head0, type, base
<1> QED BY <1>19 DEF text

\* Whether or not the argument is one of its type.
LEMMA NumberIsText ==
    ASSUME NEW c \in NumberConversion
    PROVE  NumberOf(c) \in Seq(Chars)
<1> DEFINE v == va_arg(c)
           type == NumberType(c)
<1>1. BaseOf(c) \in Bases /\ FieldWidth(c) \in Int /\ Precision(c) \in Int /\ c.num \in Int
  BY TypeIs
<1>2. Magnitude(v, type) \in Nat
  <2>1. LongBits \in Nat /\ LongBits > 0 /\ ArgumentBits(c) \in Nat /\ ArgumentBits(c) > 0
    BY WidthAssumption DEF ArgumentBits
  <2>2. v \in Int
    BY <1>1, <2>1, SignedIs DEF va_arg
  <2> HIDE DEF v, type
  <2>3. -v \in Int
    BY <2>2
  <2>4. Signed(-v, LongBits) \in Int
    BY <2>1, <2>3, SignedIs
  <2> DEFINE x == IF Negative(v, type) THEN Signed(-v, LongBits) ELSE v
  <2>5. x \in Int
    BY <2>2, <2>4
  <2>6. Magnitude(v, type) = x % Pow2[LongBits]
    BY DEF Magnitude
  <2>7. Pow2[LongBits] \in Nat /\ Pow2[LongBits] > 0
    BY <2>1, PowersGrow
  <2> HIDE DEF x
  <2> QED BY <2>5, <2>6, <2>7
<1> DEFINE head == SignChars(v, type) \o Prefix(BaseOf(c), type)
<1>3. PICK pre, digits, post : LaidOut(NumberOf(c), pre, head, digits, post)
  BY <1>1, <1>2, NumberParts DEF NumberOf
<1> HIDE DEF head
<1> DEFINE rest == head \o digits
<1>4. /\ pre \in Seq(Chars) /\ rest \in Seq(Chars) /\ post \in Seq(Chars)
      /\ NumberOf(c) = (pre \o rest) \o post
  BY <1>3, ConcatProperties DEF LaidOut
<1> HIDE DEF rest
<1> QED BY <1>4, Middle

-----------------------------------------------------------------------------
(***************************************************************************)
(* What __vsprintf makes of a format is a text, item by item.              *)
(***************************************************************************)
\* The text of the items in s, as FoldLeft computes it.
TextOver(l, s, g) == IF s = {} THEN <<>> ELSE g[s \ {Max(s)}] \o Item(l[Max(s)])
TextFn(l, g) == g = [s \in SUBSET DOMAIN l |-> TextOver(l, s, g)]

\* Such a function exists, for the same reason as ValueFn.
LEMMA TextFnExists ==
    ASSUME NEW S, NEW l \in Seq(S)
    PROVE  \E g : TextFn(l, g)
<1> DEFINE D == DOMAIN l
           Upto(n, g) == \A s \in SUBSET D : Cardinality(s) <= n => g[s] = TextOver(l, s, g)
           Missing == {n \in Nat : ~ \E g : Upto(n, g)}
<1>1. D = 1 .. Len(l) /\ Len(l) \in Nat
  BY LenProperties
<1>2. IsFiniteSet(D) /\ Cardinality(D) \in Nat
  BY <1>1, FS_Interval, FS_CardinalityType
<1>3. \A s \in SUBSET D : IsFiniteSet(s) /\ Cardinality(s) \in Nat
  BY <1>2, FS_Subset, FS_CardinalityType
<1>4. Upto(0, [s \in SUBSET D |-> <<>>])
  <2> SUFFICES ASSUME NEW s \in SUBSET D, Cardinality(s) <= 0
               PROVE  s = {}
    BY DEF TextOver
  <2> QED BY <1>3, FS_EmptySet
<1>5. ASSUME NEW n \in Nat, NEW g, Upto(n, g)
      PROVE  \E h : Upto(n + 1, h)
  <2> DEFINE h == [s \in SUBSET D |-> IF Cardinality(s) <= n THEN g[s] ELSE TextOver(l, s, g)]
  <2>1. \A s \in SUBSET D : h[s] = TextOver(l, s, g)
    BY <1>5
  <2>2. ASSUME NEW s \in SUBSET D, Cardinality(s) <= n + 1
        PROVE  h[s] = TextOver(l, s, h)
    <3>1. CASE s = {}
      BY <2>1, <3>1 DEF TextOver
    <3>2. CASE s # {}
      <4> DEFINE t == s \ {Max(s)}
      <4>1. Max(s) \in s
        BY <1>1, <3>2, Highest
      <4>2. t \in SUBSET D /\ Cardinality(t) = Cardinality(s) - 1
        BY <1>3, <4>1, FS_RemoveElement
      <4>3. Cardinality(t) <= n
        BY <1>3, <2>2, <4>2
      <4>4. h[t] = g[t]
        BY <4>2, <4>3
      <4> QED BY <2>1, <3>2, <4>4 DEF TextOver
    <3> QED BY <3>1, <3>2
  <2>3. Upto(n + 1, h)
    BY <2>2
  <2> QED BY <2>3
<1>6. Missing = {}
  <2> SUFFICES ASSUME Missing # {} PROVE FALSE
    OBVIOUS
  <2>1. PICK m \in Missing : \A k \in Missing : m <= k
    BY LeastNat
  <2>2. m # 0
    BY <1>4
  <2>3. m \in Nat /\ m - 1 \in Nat /\ m - 1 \notin Missing
    <3>1. m \in Nat
      OBVIOUS
    <3> HIDE DEF Missing
    <3> QED BY <2>1, <2>2, <3>1
  <2>4. PICK g : Upto(m - 1, g)
    BY <2>3
  <2>5. \E h : Upto(m, h)
    <3> HIDE DEF Upto
    <3>1. \E h : Upto((m - 1) + 1, h)
      BY <1>5, <2>3, <2>4
    <3>2. (m - 1) + 1 = m
      BY <2>3
    <3> QED BY <3>1, <3>2
  <2> QED BY <2>5
<1>7. PICK g : Upto(Cardinality(D), g)
  BY <1>2, <1>6
<1>8. \A s \in SUBSET D : g[s] = TextOver(l, s, g)
  BY <1>2, <1>7, FS_Subset
<1> DEFINE h == [s \in SUBSET D |-> g[s]]
<1>9. ASSUME NEW s \in SUBSET D
      PROVE  h[s] = TextOver(l, s, h)
  BY <1>8 DEF TextOver
<1>10. TextFn(l, h)
  BY <1>9 DEF TextFn
<1> QED BY <1>10

\* The text of the first k items is that of the first k - 1 and the k-th's.
ItemByItem(l, g) ==
    /\ g[1 .. 0] = <<>>
    /\ \A k \in 1 .. Len(l) : g[1 .. k] = g[1 .. k - 1] \o Item(l[k])

LEMMA FormatText ==
    ASSUME NEW S, NEW l \in Seq(S)
    PROVE  \E g : ItemByItem(l, g) /\ __vsprintf(l) = g[1 .. Len(l)]
<1> DEFINE G == CHOOSE g : TextFn(l, g)
<1>1. __vsprintf(l) = G[DOMAIN l]
  BY DEF __vsprintf, FoldLeft, MapThenFoldSet, TextFn, TextOver
<1>2. TextFn(l, G)
  BY TextFnExists
<1> HIDE DEF G
<1>3. DOMAIN l = 1 .. Len(l) /\ Len(l) \in Nat
  BY LenProperties
<1>4. \A s \in SUBSET (1 .. Len(l)) : G[s] = TextOver(l, s, G)
  BY <1>2, <1>3 DEF TextFn
<1>5. 1 .. 0 = {}
  OBVIOUS
<1>6. ASSUME NEW k \in 1 .. Len(l)
      PROVE  G[1 .. k] = G[1 .. k - 1] \o Item(l[k])
  <2>1. 1 .. k \in SUBSET (1 .. Len(l)) /\ k \in 1 .. k /\ k \in Nat
    BY <1>3
  <2>2. Max(1 .. k) \in 1 .. k /\ \A y \in 1 .. k : y <= Max(1 .. k)
    BY <2>1, Highest
  <2>3. Max(1 .. k) = k
    <3>1. k <= Max(1 .. k)
      BY <2>1, <2>2
    <3> QED BY <2>1, <2>2, <3>1
  <2>4. (1 .. k) \ {k} = 1 .. k - 1
    BY <2>1
  <2> QED BY <1>4, <2>1, <2>3, <2>4 DEF TextOver
<1>7. ItemByItem(l, G)
  BY <1>4, <1>5, <1>6 DEF TextOver, ItemByItem
<1> QED BY <1>1, <1>3, <1>7

LEMMA OneItem ==
    ASSUME NEW c, Item(c) \in Seq(Chars)
    PROVE  __vsprintf(<<c>>) = Item(c)
<1> DEFINE l == <<c>>
<1>1. l \in Seq({c}) /\ Len(l) = 1 /\ l[1] = c
  OBVIOUS
<1> HIDE DEF l
<1>2. PICK g : ItemByItem(l, g) /\ __vsprintf(l) = g[1 .. Len(l)]
  BY <1>1, FormatText
<1>3. 1 \in 1 .. 1 /\ 1 - 1 = 0
  OBVIOUS
<1>4. g[1 .. 0] = <<>> /\ g[1 .. 1] = g[1 .. 0] \o Item(c)
  BY <1>1, <1>2, <1>3 DEF ItemByItem
<1>5. <<>> \o Item(c) = Item(c)
  BY ConcatEmptySeq
<1> QED BY <1>1, <1>2, <1>4, <1>5 DEF l

\* %p is a number with l.
LEMMA NumberItem ==
    ASSUME NEW c \in NumberConversion
    PROVE  Plain(c) \in NumberConversion /\ Item(c) = NumberOf(Plain(c))
<1>1. DOMAIN c = {"conv", "flags", "width", "precision", "long", "num"}
  BY DEF NumberConversion
<1>2. "num" \in DOMAIN c /\ "lit" \notin DOMAIN c /\ "str" \notin DOMAIN c /\ "chr" \notin DOMAIN c
      /\ "other" \notin DOMAIN c
  BY <1>1
<1>3. Item(c) = NumberOf(Plain(c))
  BY <1>2 DEF Item
<1>4. LongBits \div 4 \in Int
  BY WidthAssumption
<1>5. [c EXCEPT !.long = TRUE] \in NumberConversion
  BY DEF NumberConversion
<1>6. [c EXCEPT !.long = TRUE, !.width = LongBits \div 4, !.flags = c.flags \cup {"ZEROPAD"}]
          \in NumberConversion
  <2>1. c.flags \cup {"ZEROPAD"} \in SUBSET FormatFlags
    BY DEF NumberConversion, FormatFlags
  <2> QED BY <1>4, <2>1 DEF NumberConversion
<1>7. Plain(c) \in NumberConversion
  BY <1>5, <1>6 DEF Plain
<1> QED BY <1>3, <1>7

LEMMA JustifyIs ==
    ASSUME NEW c, c.width \in Int, NEW text \in Seq(Chars)
    PROVE  Justify(c, text) \in Seq(Chars)
<1> DEFINE pad == Pad(" ", FieldWidth(c) - Len(text))
<1>1. FieldWidth(c) - Len(text) \in Int
  <2>1. FieldWidth(c) \in Int
    BY DEF FieldWidth, None
  <2>2. Len(text) \in Nat
    BY LenProperties
  <2> QED BY <2>1, <2>2
<1>2. pad \in Seq({" "})
  BY <1>1, PadIs
<1>3. {" "} \subseteq Chars
  BY CharAssumption
<1>4. pad \in Seq(Chars)
  <2> HIDE DEF pad
  <2> QED BY <1>2, <1>3, SeqMonotonic
<1>5. text \o pad \in Seq(Chars) /\ pad \o text \in Seq(Chars)
  <2> HIDE DEF pad
  <2> QED BY <1>4, ConcatProperties
<1> QED BY <1>5 DEF Justify

LEMMA ItemIsText ==
    ASSUME NEW c \in Items
    PROVE  Item(c) \in Seq(Chars)
<1>1. CASE c \in [lit : Chars]
  <2>1. DOMAIN c = {"lit"} /\ c.lit \in Chars
    BY <1>1
  <2>2. Item(c) = <<c.lit>>
    BY <2>1 DEF Item
  <2> QED BY <2>1, <2>2
<1>2. CASE c \in NumberConversion
  <2>1. Plain(c) \in NumberConversion /\ Item(c) = NumberOf(Plain(c))
    BY <1>2, NumberItem
  <2> QED BY <2>1, NumberIsText
<1>3. CASE c \in StringConversion
  <2>1. /\ DOMAIN c = {"conv", "flags", "width", "precision", "str"}
        /\ c.width \in Int /\ c.precision \in Int /\ c.str \in Seq(Chars)
    BY <1>3 DEF StringConversion
  <2>2. Item(c) = StringOf(c)
    <3>1. "str" \in DOMAIN c /\ "lit" \notin DOMAIN c /\ "num" \notin DOMAIN c
          /\ "chr" \notin DOMAIN c /\ "other" \notin DOMAIN c
      BY <2>1
    <3> QED BY <3>1 DEF Item
  <2> DEFINE n == Precision(c)
  <2>3. n \in Int /\ n >= -1
    BY <2>1 DEF Precision, None
  <2>4. Len(c.str) \in Nat
    BY <2>1, LenProperties
  <2> HIDE DEF n
  <2>5. n # None /\ Len(c.str) > n => SubSeq(c.str, 1, n) \in Seq(Chars)
    <3> SUFFICES ASSUME Len(c.str) > n PROVE SubSeq(c.str, 1, n) \in Seq(Chars)
      OBVIOUS
    <3>1. \A i \in 1 .. n : i \in 1 .. Len(c.str)
      BY <2>3, <2>4
    <3>2. \A i \in 1 .. n : c.str[i] \in Chars
      BY <2>1, <3>1, ElementOfSeq
    <3> QED BY <2>3, <3>2, SubSeqProperties
  <2>6. (IF n # None /\ Len(c.str) > n THEN SubSeq(c.str, 1, n) ELSE c.str) \in Seq(Chars)
    BY <2>1, <2>5
  <2>7. Justify(c, IF n # None /\ Len(c.str) > n THEN SubSeq(c.str, 1, n) ELSE c.str) \in Seq(Chars)
    BY <2>1, <2>6, JustifyIs
  <2> QED BY <2>2, <2>7 DEF StringOf, n
<1>4. CASE c \in CharConversion
  <2>1. /\ DOMAIN c = {"conv", "flags", "width", "precision", "chr"}
        /\ c.width \in Int /\ c.chr \in Chars
    BY <1>4 DEF CharConversion
  <2>2. Item(c) = Justify(c, <<c.chr>>)
    <3>1. "chr" \in DOMAIN c /\ "lit" \notin DOMAIN c /\ "num" \notin DOMAIN c
          /\ "str" \notin DOMAIN c /\ "other" \notin DOMAIN c
      BY <2>1
    <3> QED BY <3>1 DEF Item
  <2>3. <<c.chr>> \in Seq(Chars)
    BY <2>1
  <2> QED BY <2>1, <2>2, <2>3, JustifyIs
<1>5. CASE c \in [other : Chars]
  <2>1. DOMAIN c = {"other"} /\ c.other \in Chars /\ "%" \in Chars
    BY <1>5, CharAssumption
  <2>2. Item(c) = IF c.other \in {"%", NUL} THEN <<"%">> ELSE <<"%", c.other>>
    BY <2>1 DEF Item
  <2>3. <<"%">> \in Seq(Chars) /\ <<"%", c.other>> \in Seq(Chars)
    BY <2>1
  <2> QED BY <2>2, <2>3
<1> QED BY <1>1, <1>2, <1>3, <1>4, <1>5 DEF Items

LEMMA FormatIsText ==
    ASSUME NEW fmt \in Seq(Items)
    PROVE  __vsprintf(fmt) \in Seq(Chars)
<1> DEFINE n == Len(fmt)
<1>1. n \in Nat
  BY LenProperties
<1>2. PICK g : ItemByItem(fmt, g) /\ __vsprintf(fmt) = g[1 .. n]
  BY FormatText
<1>3. /\ g[1 .. 0] = <<>>
      /\ \A k \in 1 .. n : g[1 .. k] = g[1 .. k - 1] \o Item(fmt[k])
  BY <1>2 DEF ItemByItem
<1>4. \A k \in 1 .. n : Item(fmt[k]) \in Seq(Chars)
  BY ElementOfSeq, ItemIsText
<1> HIDE DEF n
<1> DEFINE Wrong == {k \in 0 .. n : g[1 .. k] \notin Seq(Chars)}
<1>5. Wrong = {}
  <2> SUFFICES ASSUME Wrong # {} PROVE FALSE
    OBVIOUS
  <2>1. PICK k \in Wrong : \A j \in Wrong : k <= j
    <3>1. Wrong \in SUBSET Nat
      BY <1>1
    <3> HIDE DEF Wrong
    <3> QED BY <3>1, LeastNat
  <2>2. k \in 0 .. n /\ g[1 .. k] \notin Seq(Chars)
    OBVIOUS
  <2>3. k # 0
    BY <1>3, <2>2, EmptySeq
  <2>4. k \in 1 .. n /\ k - 1 \in 0 .. n
    BY <1>1, <2>2, <2>3
  <2>5. k - 1 \notin Wrong
    <3>1. ~(k <= k - 1)
      BY <2>4
    <3> HIDE DEF Wrong
    <3> QED BY <2>1, <3>1
  <2>6. g[1 .. k - 1] \in Seq(Chars)
    BY <2>4, <2>5
  <2>7. g[1 .. k - 1] \o Item(fmt[k]) \in Seq(Chars)
    BY <1>4, <2>4, <2>6, ConcatProperties
  <2> QED BY <1>3, <2>2, <2>4, <2>7
<1>6. n \in 0 .. n
  BY <1>1
<1> QED BY <1>2, <1>5, <1>6

\* Whatever is printed, its text is a sequence of characters.
LEMMA CallIsText ==
    ASSUME NEW call \in Prints
    PROVE  Text(call) \in Seq(Chars)
<1>0. call \in Calls
  BY CallAssumption
<1>1. CASE call \in [fmt : Seq(Items)]
  <2>1. DOMAIN call = {"fmt"} /\ call.fmt \in Seq(Items)
    BY <1>1
  <2>2. Text(call) = __vsprintf(call.fmt)
    BY <2>1 DEF Text
  <2> QED BY <2>1, <2>2, FormatIsText
<1>2. CASE call \in [hex : Int]
  <2>1. DOMAIN call = {"hex"} /\ call.hex \in Int
    BY <1>2
  <2>2. Text(call) = __vsprintf(HexFormat(call.hex))
    BY <2>1 DEF Text
  <2> DEFINE c == [conv |-> "x", flags |-> {"SPECIAL", "ZEROPAD"}, width |-> 16,
                   precision |-> None, long |-> FALSE, num |-> call.hex]
  <2>3. c \in NumberConversion
    BY <2>1 DEF NumberConversion, FormatFlags, None
  <2>4. HexFormat(call.hex) = <<c>>
    BY DEF HexFormat
  <2> HIDE DEF c
  <2>5. <<c>> \in Seq(Items)
    BY <2>3 DEF Items
  <2> QED BY <2>2, <2>4, <2>5, FormatIsText
<1>3. CASE call \in [bin : Int]
  <2>1. DOMAIN call = {"bin"} /\ call.bin \in Int
    BY <1>3
  <2>2. Text(call) = BinaryText(call.bin)
    BY <2>1 DEF Text
  <2> DEFINE i == call.bin
             d(k) == DigitChars[1 + (((i % Pow2[LongBits]) \div Pow2[LongBits - k]) % 2)]
  <2>3. LongBits \in Nat
    BY WidthAssumption
  <2>4. ASSUME NEW k \in 1 .. LongBits
        PROVE  d(k) \in Chars
    <3>1. LongBits - k \in Nat /\ LongBits - k <= LongBits
      BY <2>3
    <3>2. Pow2[LongBits - k] \in Nat /\ 0 < Pow2[LongBits - k] /\ Pow2[LongBits] \in Nat
          /\ 0 < Pow2[LongBits]
      <4>1. Pow2[LongBits - k] \in Nat /\ 0 < Pow2[LongBits - k]
            /\ Pow2[LongBits] \in Nat /\ Pow2[LongBits - k] <= Pow2[LongBits]
        BY <2>3, <3>1, PowersGrow
      <4> QED BY <4>1
    <3>3. \A x \in Int, m, p \in Nat : m > 0 /\ p > 0 => ((x % m) \div p) \in Int
      OBVIOUS
    <3>4. \A x \in Int : 1 + (x % 2) \in 1 .. 16
      OBVIOUS
    <3>5. 1 + (((i % Pow2[LongBits]) \div Pow2[LongBits - k]) % 2) \in 1 .. 16
      BY <2>1, <3>2, <3>3, <3>4
    <3> QED BY <3>5, CharAssumption
  <2> DEFINE bits == [k \in 1 .. LongBits |-> d(k)]
  <2>5. bits \in Seq(Chars)
    <3> HIDE DEF d
    <3> QED BY <2>3, <2>4
  <2>6. <<"0", "b">> \in Seq(Chars)
    <3>1. "b" \in Chars /\ DigitChars[1] \in Chars
      <4>1. 1 \in 1 .. 16
        OBVIOUS
      <4> QED BY <4>1, CharAssumption
    <3> QED BY <3>1, SixteenDigits
  <2>7. BinaryText(call.bin) = <<"0", "b">> \o bits
    BY DEF BinaryText
  <2> HIDE DEF bits
  <2> QED BY <2>2, <2>5, <2>6, <2>7, ConcatProperties
<1>4. CASE call \in [ch : Chars]
  <2>1. DOMAIN call = {"ch"} /\ call.ch \in Chars
    BY <1>4
  <2>2. Text(call) = <<call.ch>>
    BY <2>1 DEF Text
  <2> QED BY <2>1, <2>2
<1> QED BY <1>0, <1>1, <1>2, <1>3, <1>4 DEF Calls

\* A print of one number reads back as its argument.
LEMMA NumberText ==
    ASSUME NEW call \in Prints, OneNumber(call)
    PROVE  LET c == Plain(call.fmt[1])
           IN  ReadsAs(Text(call), c, Below(c), Value(c))
<1> DEFINE item == call.fmt[1]
           c == Plain(item)
<1>1. call \in Calls /\ ArgumentFits(c)
  BY CallAssumption
<1>2. "fmt" \in DOMAIN call /\ Len(call.fmt) = 1 /\ "num" \in DOMAIN item
  BY DEF OneNumber
<1>3. DOMAIN call = {"fmt"} /\ call.fmt \in Seq(Items)
  BY <1>1, <1>2 DEF Calls
<1>4. item \in Items /\ call.fmt = <<item>>
  <2>1. item \in Items
    BY <1>2, <1>3, ElementOfSeq
  <2> QED BY <1>2, <1>3, <2>1
<1>5. Text(call) = __vsprintf(call.fmt)
  BY <1>3 DEF Text
<1> HIDE DEF c, item
<1>6. item \in NumberConversion
  BY <1>2, <1>4 DEF Items, StringConversion, CharConversion
<1>7. c \in NumberConversion /\ Item(item) = NumberOf(c)
  BY <1>6, NumberItem DEF c
<1>8. ReadsAs(NumberOf(c), c, Below(c), Value(c)) /\ Item(item) \in Seq(Chars)
  BY <1>1, <1>4, <1>7, NumberReads, ItemIsText
<1>9. Text(call) = NumberOf(c)
  BY <1>4, <1>5, <1>7, <1>8, OneItem
<1> QED BY <1>8, <1>9 DEF c, item

-----------------------------------------------------------------------------
(***************************************************************************)
(* What holds of the prints in progress.                                   *)
(***************************************************************************)
Ops == {"draw", "tab", "turn", "loadX", "incX", "decX", "zeroX", "lastX", "testX", "testLeft",
        "loadY", "incY", "decY", "zeroY", "lastY", "testY", "testTop"}

FrameType ==
    [who : {"kernel", "trap", "IRQ"}, call : Prints, text : Seq(Chars),
     pc : {"format", "print", "loop"}, n : Nat, todo : Seq(Ops), reg : Int, tab_cnt : Int,
     ch : Chars, shown : Seq(Chars), over : SUBSET [call : Prints, shown : Nat, stored : Nat]]

Marks == fault \in {"none", "glyph", "buffer"} /\ strayed \subseteq {"home", "edge", "tab"}
BufTyped == DOMAIN buf \subseteq 1 .. BufSize /\ \A k \in DOMAIN buf : buf[k] \in Chars

\* What __buf holds for a print in progress: the characters stored so far, or all.
Stored(f) == 1 .. (IF f.pc = "format" THEN f.n ELSE Len(f.text))

Typed ==
    /\ calls \in Seq(FrameType)
    /\ \A i \in DOMAIN calls : calls[i].n <= Len(calls[i].text)
    /\ Pos \in [x : Int, y : Int]
    /\ Marks
    /\ script \in [prints : Seq(Prints), x : 0 .. XChars - 1, y : 0 .. YChars - 1,
                   handlers : BOOLEAN]
    /\ BufTyped
    /\ \A i \in DOMAIN calls : Buffered(calls[i].call) => Stored(calls[i]) \subseteq DOMAIN buf

Bounded == handled \subseteq {"trap", "IRQ"} /\ Depth <= Cardinality(handled) + 1

-----------------------------------------------------------------------------
(***************************************************************************)
(* Every step begins a print, ends the innermost, or changes it.           *)
(***************************************************************************)
LEMMA Constants ==
    /\ XCharSize \in Nat \ {0} /\ YCharSize \in Nat \ {0}
    /\ XChars \in Nat \ {0} /\ YChars \in Nat \ {0} /\ TabStop \in Nat \ {0}
    /\ \A call \in Prints : Text(call) \in Seq(Chars)
    /\ LastX \in Nat /\ LastY \in Nat
<1>1. XCharSize \in Nat \ {0} /\ YCharSize \in Nat \ {0} /\ XChars \in Nat \ {0} /\ YChars \in Nat \ {0}
  BY ScreenAssumption
<1>2. \A a, b \in Nat : a * b \in Nat
  OBVIOUS
<1>3. XChars - 1 \in Nat /\ YChars - 1 \in Nat
  BY <1>1
<1>4. \A call \in Prints : Text(call) \in Seq(Chars)
  BY CallIsText
<1> QED BY <1>1, <1>2, <1>3, <1>4, ScreenAssumption DEF LastX, LastY

LEMMA NewFrame ==
    ASSUME NEW who \in {"kernel", "trap", "IRQ"}, NEW call \in Prints
    PROVE  /\ Frame(who, call) \in FrameType
           /\ Frame(who, call).n = 0 /\ Frame(who, call).text = Text(call)
           /\ Frame(who, call).call = call
           /\ Frame(who, call).todo = <<>> /\ Frame(who, call).shown = <<>>
           /\ Frame(who, call).tab_cnt = 0
           /\ Frame(who, call).pc = IF Buffered(call) THEN "format" ELSE "print"
           /\ Frame(who, call).who = who
<1>1. Text(call) \in Seq(Chars)
  BY Constants
<1>2. NUL \in Chars
  BY CharAssumption
<1> QED BY <1>1, <1>2 DEF Frame, FrameType

\* The innermost print, and what is left of the stack when it alone changes.
LEMMA TopFrame ==
    ASSUME Typed, calls # <<>>
    PROVE  /\ Depth \in Nat \ {0} /\ DOMAIN calls = 1 .. Depth /\ Depth \in DOMAIN calls
           /\ Me \in FrameType /\ Me.n <= Len(Me.text) /\ Len(Me.text) \in Nat
<1>1. calls \in Seq(FrameType)
  BY DEF Typed
<1>2. Depth \in Nat \ {0} /\ DOMAIN calls = 1 .. Depth /\ Depth \in DOMAIN calls
  BY <1>1 DEF Depth
<1>3. Me \in FrameType /\ Me.n <= Len(Me.text)
  BY <1>1, <1>2 DEF Me, Typed
<1>4. Len(Me.text) \in Nat
  BY <1>3 DEF FrameType
<1> QED BY <1>2, <1>3, <1>4

LEMMA Updated ==
    ASSUME Typed, calls # <<>>, NEW f \in FrameType, Update(f)
    PROVE  /\ calls' \in Seq(FrameType) /\ Len(calls') = Depth /\ calls' # <<>>
           /\ DOMAIN calls' = DOMAIN calls
           /\ calls'[Depth] = f
           /\ \A i \in DOMAIN calls \ {Depth} : calls'[i] = calls[i]
<1>1. calls \in Seq(FrameType) /\ Depth \in DOMAIN calls /\ Depth = Len(calls)
  BY TopFrame DEF Typed, Depth
<1>2. calls' = [calls EXCEPT ![Depth] = f]
  BY DEF Update
<1> HIDE DEF Depth
<1>3. calls' \in Seq(FrameType) /\ Len(calls') = Len(calls)
  BY <1>1, <1>2, ExceptSeq
<1> QED BY <1>1, <1>2, <1>3

LEMMA TypedUpdate ==
    ASSUME Typed, calls # <<>>, NEW f \in FrameType, Update(f),
           f.n <= Len(f.text), f.call = Me.call,
           Buffered(f.call) => Stored(f) \subseteq DOMAIN buf',
           DOMAIN buf \subseteq DOMAIN buf', BufTyped',
           UNCHANGED script, Pos' \in [x : Int, y : Int],
           Marks'
    PROVE  Typed'
<1>1. /\ calls' \in Seq(FrameType) /\ DOMAIN calls' = DOMAIN calls
      /\ calls'[Depth] = f
      /\ \A i \in DOMAIN calls \ {Depth} : calls'[i] = calls[i]
  BY Updated
<1>2. \A i \in DOMAIN calls' : calls'[i].n <= Len(calls'[i].text)
  BY <1>1 DEF Typed
<1>3. \A i \in DOMAIN calls' : Buffered(calls'[i].call) => Stored(calls'[i]) \subseteq DOMAIN buf'
  BY <1>1 DEF Typed
<1> QED BY <1>1, <1>2, <1>3 DEF Typed

\* The innermost print after some of its accesses: it keeps all but todo, reg and
\* tab_cnt.
Moved(ops, r, m) == [Me EXCEPT !.todo = ops \o Tail(@), !.reg = r, !.tab_cnt = m]

LEMMA MovedFrame ==
    ASSUME Typed, calls # <<>>, Me.todo # <<>>, NEW ops \in Seq(Ops), NEW r \in Int, NEW m \in Int
    PROVE  /\ Moved(ops, r, m) \in FrameType
           /\ Moved(ops, r, m).todo = ops \o Tail(Me.todo) /\ Moved(ops, r, m).reg = r
           /\ Moved(ops, r, m).tab_cnt = m
           /\ Moved(ops, r, m).n = Me.n /\ Moved(ops, r, m).text = Me.text
           /\ Moved(ops, r, m).call = Me.call /\ Moved(ops, r, m).pc = Me.pc
           /\ Moved(ops, r, m).shown = Me.shown /\ Moved(ops, r, m).over = Me.over
           /\ Moved(ops, r, m).who = Me.who
<1>1. Me \in FrameType
  BY TopFrame
<1>2. Me.todo \in Seq(Ops)
  BY <1>1 DEF FrameType
<1>3. Tail(Me.todo) \in Seq(Ops)
  BY <1>2, HeadTailProperties
<1>4. ops \o Tail(Me.todo) \in Seq(Ops)
  BY <1>3, ConcatProperties
<1> DEFINE t == ops \o Tail(Me.todo)
           g == [[Me EXCEPT !.todo = t] EXCEPT !.reg = r]
<1>5. Moved(ops, r, m) = [g EXCEPT !.tab_cnt = m]
  BY DEF Moved
<1> HIDE DEF t
<1>6. [Me EXCEPT !.todo = t] \in FrameType
  BY <1>1, <1>4 DEF FrameType, t
<1>7. g \in FrameType
  BY <1>6 DEF FrameType
<1>8. /\ g.todo = t /\ g.reg = r
      /\ g.n = Me.n /\ g.text = Me.text /\ g.call = Me.call /\ g.pc = Me.pc
      /\ g.shown = Me.shown /\ g.over = Me.over /\ g.who = Me.who
  BY <1>1 DEF FrameType
<1> HIDE DEF g
<1>9. Moved(ops, r, m) \in FrameType
  BY <1>5, <1>7 DEF FrameType
<1>10. /\ Moved(ops, r, m).todo = g.todo /\ Moved(ops, r, m).reg = g.reg
       /\ Moved(ops, r, m).tab_cnt = m
       /\ Moved(ops, r, m).n = g.n /\ Moved(ops, r, m).text = g.text
       /\ Moved(ops, r, m).call = g.call /\ Moved(ops, r, m).pc = g.pc
       /\ Moved(ops, r, m).shown = g.shown /\ Moved(ops, r, m).over = g.over
       /\ Moved(ops, r, m).who = g.who
  BY <1>5, <1>7 DEF FrameType
<1> QED BY <1>8, <1>9, <1>10 DEF t

\* Which accesses the first one of todo may leave to make, and what it does to Pos.
TurnOps == <<"loadY", "draw", "loadX", "incX", "turn">>

Outcome(op, ops, r, m) ==
    /\ op \notin {"tab", "turn"} => m = Me.tab_cnt
    /\ CASE op = "tab" -> ops = <<>> /\ r = 0 /\ m = NextStop(Me.reg) - Pos.x
         [] op = "turn" ->
               /\ r = Me.reg
               /\ ops = (IF Me.tab_cnt = 0 THEN <<>> ELSE TurnOps)
               /\ m = (IF Me.tab_cnt = 0 THEN 0 ELSE Me.tab_cnt - 1)
         [] op = "loadX" -> ops = <<>> /\ r = Pos.x
         [] op = "loadY" -> ops = <<>> /\ r = Pos.y
         [] op = "testX" -> ops = (IF Pos.x >= XChars THEN <<"loadY", "incY", "zeroX">> ELSE <<>>) /\ r = 0
         [] op = "testY" -> ops = (IF Pos.y >= YChars THEN <<"zeroY">> ELSE <<>>) /\ r = 0
         [] op = "testLeft" ->
               ops = (IF Pos.x < 0 THEN <<"lastX", "loadY", "decY", "testTop">> ELSE <<>>) /\ r = 0
         [] op = "testTop" -> ops = (IF Pos.y < 0 THEN <<"lastY">> ELSE <<>>) /\ r = 0
         [] OTHER -> ops = <<>> /\ r = Me.reg

NextPos(op) ==
    CASE op = "incX" -> [Pos EXCEPT !.x = Me.reg + 1]
      [] op = "decX" -> [Pos EXCEPT !.x = Me.reg - 1]
      [] op = "incY" -> [Pos EXCEPT !.y = Me.reg + 1]
      [] op = "decY" -> [Pos EXCEPT !.y = Me.reg - 1]
      [] op = "zeroX" -> [Pos EXCEPT !.x = 0]
      [] op = "zeroY" -> [Pos EXCEPT !.y = 0]
      [] op = "lastX" -> [Pos EXCEPT !.x = LastX]
      [] op = "lastY" -> [Pos EXCEPT !.y = LastY]
      [] OTHER -> Pos

Access == Draw \/ Tab \/ Turn \/ Load \/ Store \/ Test

LEMMA Joined ==
    ASSUME NEW s \in Seq(Ops), NEW u \in Seq(Ops), NEW t \in Seq(Ops), Len(t) = Len(s) + Len(u),
           \A i \in 1 .. Len(s) : t[i] = s[i],
           \A i \in 1 .. Len(u) : t[Len(s) + i] = u[i]
    PROVE  s \o u = t
<1>1. Len(s) \in Nat /\ Len(u) \in Nat
  OBVIOUS
<1>2. s \o u \in Seq(Ops) /\ Len(s \o u) = Len(s) + Len(u)
  BY ConcatProperties
<1>3. \A i \in 1 .. Len(s) + Len(u) : (s \o u)[i] = IF i <= Len(s) THEN s[i] ELSE u[i - Len(s)]
  BY ConcatProperties
<1>4. ASSUME NEW i \in 1 .. Len(s \o u) PROVE (s \o u)[i] = t[i]
  <2>1. CASE i <= Len(s)
    BY <1>1, <1>2, <1>3, <2>1
  <2>2. CASE i > Len(s)
    <3>1. i - Len(s) \in 1 .. Len(u) /\ Len(s) + (i - Len(s)) = i
      BY <1>1, <1>2, <2>2
    <3>2. t[Len(s) + (i - Len(s))] = u[i - Len(s)]
      BY <3>1
    <3> QED BY <1>1, <1>2, <1>3, <2>2, <3>1, <3>2
  <2> QED BY <1>1, <1>2, <2>1, <2>2
<1> QED BY <1>2, <1>4, SeqEqual

LEMMA TurnIs == Glyph \o <<"loadX", "incX", "turn">> = TurnOps
<1> DEFINE s == Glyph
           u == <<"loadX", "incX", "turn">>
           t == TurnOps
<1>1. /\ s \in Seq(Ops) /\ u \in Seq(Ops) /\ t \in Seq(Ops)
      /\ Len(s) = 2 /\ Len(u) = 3 /\ Len(t) = 5
      /\ t[1] = s[1] /\ t[2] = s[2] /\ t[3] = u[1] /\ t[4] = u[2] /\ t[5] = u[3]
  BY DEF Ops, Glyph, TurnOps
<1> HIDE DEF s, u, t
<1>2. /\ (\A i \in 1 .. Len(s) : t[i] = s[i])
      /\ (\A i \in 1 .. Len(u) : t[Len(s) + i] = u[i])
      /\ Len(t) = Len(s) + Len(u)
  BY <1>1
<1>3. s \o u = t
  BY <1>1, <1>2, Joined
<1> QED BY <1>3 DEF s, u, t

\* An access is the first of the innermost print's, which goes on to Outcome.
LEMMA AccessIs ==
    ASSUME Typed, Access
    PROVE  /\ calls # <<>> /\ Me.todo # <<>> /\ Me.pc = "print"
           /\ \E ops, r, m : Update(Moved(ops, r, m)) /\ Outcome(Head(Me.todo), ops, r, m)
           /\ Pos' = NextPos(Head(Me.todo))
           /\ UNCHANGED <<script, handled, buf>>
<1>0. calls # <<>> /\ Me.todo # <<>> /\ Me.pc = "print"
  BY DEF Access, Draw, Tab, Turn, Load, Store, Test, Todo, At
<1> DEFINE op == Head(Me.todo)
<1>1. /\ \A ops, r : Then(ops, r) <=> Update(Moved(ops, r, Me.tab_cnt))
      /\ \A ops, r, m : Go(ops, r, m) <=> Update(Moved(ops, r, m))
  BY DEF Then, Go, Moved
<1> USE DEF Outcome, NextPos, Todo, Done
<1>2. CASE Draw
  BY <1>0, <1>1, <1>2 DEF Draw
<1>3. CASE Tab
  BY <1>0, <1>1, <1>3 DEF Tab
<1>7. CASE Turn
  <2>1. CASE Me.tab_cnt = 0
    <3>1. Update(Moved(<<>>, Me.reg, Me.tab_cnt))
      BY <1>1, <1>7, <2>1 DEF Turn
    <3>2. Outcome(op, <<>>, Me.reg, Me.tab_cnt)
      BY <1>7, <2>1 DEF Turn
    <3> QED BY <1>0, <1>7, <3>1, <3>2 DEF Turn
  <2>2. CASE Me.tab_cnt # 0
    <3>1. Update(Moved(TurnOps, Me.reg, Me.tab_cnt - 1))
      BY <1>1, <1>7, <2>2, TurnIs DEF Turn
    <3>2. Outcome(op, TurnOps, Me.reg, Me.tab_cnt - 1)
      BY <1>7, <2>2 DEF Turn
    <3> QED BY <1>0, <1>7, <3>1, <3>2 DEF Turn
  <2> QED BY <2>1, <2>2
<1>4. CASE Load
  BY <1>0, <1>1, <1>4 DEF Load
<1>5. CASE Store
  BY <1>0, <1>1, <1>5 DEF Store
<1>6. CASE Test
  BY <1>0, <1>1, <1>6 DEF Test, Overflows
<1> QED BY <1>2, <1>3, <1>4, <1>5, <1>6, <1>7 DEF Access

\* What the accesses that are not the last of their kind leave to make.
LEMMA OutcomeOps ==
    ASSUME NEW op \in Ops, NEW ops, NEW r, NEW m, Outcome(op, ops, r, m)
    PROVE  \/ ops = <<>>
           \/ op = "turn" /\ ops = TurnOps
           \/ op = "testX" /\ ops = <<"loadY", "incY", "zeroX">>
           \/ op = "testY" /\ ops = <<"zeroY">>
           \/ op = "testLeft" /\ ops = <<"lastX", "loadY", "decY", "testTop">>
           \/ op = "testTop" /\ ops = <<"lastY">> /\ Pos.y < 0
  BY DEF Outcome, Ops

LEMMA OutcomeTyped ==
    ASSUME Typed, calls # <<>>, NEW op \in Ops, NEW ops, NEW r, NEW m, Outcome(op, ops, r, m)
    PROVE  ops \in Seq(Ops) /\ r \in Int /\ m \in Int /\ NextPos(op) \in [x : Int, y : Int]
<1>1. Pos \in [x : Int, y : Int] /\ Me.reg \in Int /\ Me.tab_cnt \in Int
  BY TopFrame DEF Typed, FrameType
<1>2. Pos.x \in Int /\ Pos.y \in Int
  BY <1>1
<1>3. r \in Int
  BY <1>1, <1>2 DEF Outcome, Ops
<1>5. m \in Int
  <2>1. NextStop(Me.reg) \in Int
    BY <1>1, Constants DEF NextStop
  <2>2. CASE op = "tab"
    BY <1>2, <2>1, <2>2 DEF Outcome
  <2>3. CASE op = "turn"
    BY <1>1, <2>3 DEF Outcome
  <2>4. CASE op \notin {"tab", "turn"}
    BY <1>1, <2>4 DEF Outcome
  <2> QED BY <2>2, <2>3, <2>4
<1>4. NextPos(op) \in [x : Int, y : Int]
  <2>1. LastX \in Int /\ LastY \in Int
    <3>1. LastX \in Nat /\ LastY \in Nat
      BY Constants
    <3> QED BY <3>1
  <2>2. \A v \in Int : [Pos EXCEPT !.x = v] \in [x : Int, y : Int]
    BY <1>1
  <2>3. \A v \in Int : [Pos EXCEPT !.y = v] \in [x : Int, y : Int]
    BY <1>1
  <2>4. Me.reg + 1 \in Int /\ Me.reg - 1 \in Int /\ 0 \in Int
    BY <1>1
  <2>5. \/ NextPos(op) = Pos
        \/ \E v \in {Me.reg + 1, Me.reg - 1, 0, LastX, LastY} :
              NextPos(op) = [Pos EXCEPT !.x = v] \/ NextPos(op) = [Pos EXCEPT !.y = v]
    BY DEF NextPos, Ops
  <2> QED BY <1>1, <2>1, <2>2, <2>3, <2>4, <2>5
<1>6. ops \in Seq(Ops)
  <2>1. /\ <<>> \in Seq(Ops) /\ TurnOps \in Seq(Ops)
        /\ <<"loadY", "incY", "zeroX">> \in Seq(Ops) /\ <<"zeroY">> \in Seq(Ops)
        /\ <<"lastX", "loadY", "decY", "testTop">> \in Seq(Ops) /\ <<"lastY">> \in Seq(Ops)
    BY DEF Ops, TurnOps
  <2> QED BY <2>1, OutcomeOps
<1> QED BY <1>3, <1>4, <1>5, <1>6

-----------------------------------------------------------------------------
(***************************************************************************)
(* Type correctness.                                                       *)
(***************************************************************************)
LEMMA InitTyped == Init => Typed /\ Bounded
<1> SUFFICES ASSUME Init PROVE Typed /\ Bounded
  OBVIOUS
<1>1. script \in [prints : Seq(Prints), x : 0 .. XChars - 1, y : 0 .. YChars - 1, handlers : BOOLEAN]
  BY ScriptAssumption DEF Init
<1>2. Pos \in [x : Int, y : Int]
  BY <1>1, Constants DEF Init
<1>3. Typed
  <2>1. calls = <<>> /\ buf = <<>> /\ fault = "none" /\ strayed = {}
    BY DEF Init
  <2>2. \A S : <<>> \in Seq(S)
    OBVIOUS
  <2>3. calls \in Seq(FrameType)
    BY <2>1, <2>2
  <2>4. DOMAIN calls = {} /\ DOMAIN buf = {}
    BY <2>1
  <2> QED BY <1>1, <1>2, <2>1, <2>3, <2>4 DEF Typed, Marks, BufTyped
<1>4. Bounded
  BY FS_EmptySet DEF Init, Bounded, Depth
<1> QED BY <1>3, <1>4

\* A print begins on top of the others, which record it.
LEMMA PushTyped ==
    ASSUME Typed, NEW lower \in Seq(FrameType), Len(lower) = Depth,
           \A i \in DOMAIN lower : /\ lower[i].n = calls[i].n /\ lower[i].text = calls[i].text
                                   /\ lower[i].pc = calls[i].pc /\ lower[i].call = calls[i].call,
           NEW who \in {"kernel", "trap", "IRQ"}, NEW call \in Prints,
           calls' = Append(lower, Frame(who, call)),
           UNCHANGED <<buf, Pos>>, Marks', script' \in
               [prints : Seq(Prints), x : 0 .. XChars - 1, y : 0 .. YChars - 1, handlers : BOOLEAN]
    PROVE  Typed' /\ Len(calls') = Depth + 1
<1> DEFINE new == Frame(who, call)
<1>0. calls \in Seq(FrameType) /\ DOMAIN lower = DOMAIN calls /\ Depth \in Nat /\ DOMAIN calls = 1 .. Depth
  BY DEF Typed, Depth
<1>1. /\ new \in FrameType /\ new.n = 0 /\ new.text = Text(call) /\ new.call = call
      /\ new.pc = IF Buffered(call) THEN "format" ELSE "print"
  BY NewFrame
<1>2. Len(new.text) \in Nat
  BY <1>1, Constants
<1> HIDE DEF new
<1>3. /\ calls' \in Seq(FrameType) /\ Len(calls') = Depth + 1 /\ DOMAIN calls' = 1 .. Depth + 1
      /\ calls'[Depth + 1] = new
      /\ \A i \in 1 .. Depth : calls'[i] = lower[i]
  BY <1>0, <1>1, AppendProperties DEF new
<1>4. \A i \in DOMAIN calls' : calls'[i].n <= Len(calls'[i].text)
  <2> TAKE i \in DOMAIN calls'
  <2>1. CASE i = Depth + 1
    BY <1>1, <1>2, <1>3, <2>1
  <2>2. CASE i # Depth + 1
    <3>1. i \in DOMAIN calls /\ calls'[i] = lower[i]
      BY <1>0, <1>3, <2>2
    <3> QED BY <1>0, <3>1 DEF Typed
  <2> QED BY <2>1, <2>2
<1>5. ASSUME NEW i \in DOMAIN calls', Buffered(calls'[i].call) PROVE Stored(calls'[i]) \subseteq DOMAIN buf
  <2>1. CASE i = Depth + 1
    BY <1>1, <1>3, <1>5, <2>1 DEF Stored
  <2>2. CASE i # Depth + 1
    <3>1. i \in DOMAIN calls /\ calls'[i] = lower[i] /\ Buffered(calls[i].call)
      BY <1>0, <1>3, <1>5, <2>2
    <3>2. Stored(lower[i]) = Stored(calls[i])
      BY <1>0, <3>1 DEF Stored
    <3> QED BY <3>1, <3>2 DEF Typed
  <2> QED BY <2>1, <2>2
<1> QED BY <1>3, <1>4, <1>5 DEF Typed, BufTyped

\* The others when a handler's print begins.
Interrupted(call) == [i \in DOMAIN calls |-> Covered(calls[i], call)]

\* What an interrupted print records of the one that begins.
Cover(f, call) == [call |-> call, shown |-> Len(f.shown), stored |-> StoredIn(f)]

LEMMA CoveredSame ==
    ASSUME NEW f \in FrameType, NEW call \in Prints
    PROVE  LET g == Covered(f, call)
           IN  /\ g \in FrameType /\ g.over = f.over \cup {Cover(f, call)}
               /\ g.n = f.n /\ g.text = f.text /\ g.pc = f.pc /\ g.call = f.call
               /\ g.todo = f.todo /\ g.reg = f.reg /\ g.tab_cnt = f.tab_cnt
               /\ g.shown = f.shown /\ g.who = f.who
<1>1. f.n \in Nat /\ f.text \in Seq(Chars) /\ f.shown \in Seq(Chars)
      /\ f.over \in SUBSET [call : Prints, shown : Nat, stored : Nat]
  BY DEF FrameType
<1>2. Cover(f, call) \in [call : Prints, shown : Nat, stored : Nat]
  BY <1>1 DEF Cover, StoredIn
<1> DEFINE o == f.over \cup {Cover(f, call)}
<1>3. Covered(f, call) = [f EXCEPT !.over = o]
  BY DEF Covered, Cover
<1>4. o \in SUBSET [call : Prints, shown : Nat, stored : Nat]
  BY <1>1, <1>2
<1> HIDE DEF o
<1> QED BY <1>3, <1>4 DEF FrameType, o

LEMMA InterruptedSame ==
    ASSUME Typed, NEW call \in Prints
    PROVE  /\ Interrupted(call) \in Seq(FrameType) /\ Len(Interrupted(call)) = Depth
           /\ \A i \in DOMAIN Interrupted(call) :
                 LET g == Interrupted(call)[i]
                 IN  /\ i \in DOMAIN calls /\ calls[i] \in FrameType
                     /\ g.over = calls[i].over \cup {Cover(calls[i], call)}
                     /\ g.n = calls[i].n /\ g.text = calls[i].text
                     /\ g.pc = calls[i].pc /\ g.call = calls[i].call
                     /\ g.todo = calls[i].todo /\ g.reg = calls[i].reg
                     /\ g.tab_cnt = calls[i].tab_cnt /\ g.shown = calls[i].shown
<1>1. calls \in Seq(FrameType) /\ DOMAIN calls = 1 .. Depth /\ Depth \in Nat
  BY DEF Typed, Depth
<1>2. \A i \in 1 .. Depth : calls[i] \in FrameType
  BY <1>1
<1>3. \A i \in 1 .. Depth : Covered(calls[i], call) \in FrameType
  BY <1>2, CoveredSame
<1>4. /\ Interrupted(call) \in Seq(FrameType) /\ Len(Interrupted(call)) = Depth
      /\ DOMAIN Interrupted(call) = 1 .. Depth
      /\ \A i \in 1 .. Depth : Interrupted(call)[i] = Covered(calls[i], call)
  BY <1>1, <1>3 DEF Interrupted
<1> QED BY <1>1, <1>2, <1>4, CoveredSame

LEMMA CallTyped ==
    ASSUME Typed, Call
    PROVE  Typed' /\ Len(calls') = 1
<1>1. script.prints \in Seq(Prints) /\ script.prints # <<>>
  BY DEF Call, Typed
<1>2. Head(script.prints) \in Prints /\ Tail(script.prints) \in Seq(Prints)
  BY <1>1, HeadTailProperties
<1>3. script' = [script EXCEPT !.prints = Tail(script.prints)]
  BY DEF Call
<1>4. script' \in [prints : Seq(Prints), x : 0 .. XChars - 1, y : 0 .. YChars - 1, handlers : BOOLEAN]
  BY <1>2, <1>3 DEF Typed
<1>5. <<>> \in Seq(FrameType) /\ Len(<<>>) = 0 /\ DOMAIN <<>> = {} /\ Depth = 0
  BY DEF Call, Depth
<1>6. calls' = Append(<<>>, Frame("kernel", Head(script.prints)))
  BY DEF Call
<1>7. UNCHANGED <<buf, Pos>> /\ Marks'
  BY DEF Call, Typed, Marks
<1>8. \E lower \in Seq(FrameType) :
          lower = <<>> /\ Len(lower) = Depth /\ DOMAIN lower = {}
  BY <1>5
<1>9. PICK lower \in Seq(FrameType) : lower = <<>> /\ Len(lower) = Depth /\ DOMAIN lower = {}
  BY <1>8
<1>10. calls' = Append(lower, Frame("kernel", Head(script.prints)))
  BY <1>6, <1>9
<1>11. Typed' /\ Len(calls') = Depth + 1
  BY <1>2, <1>4, <1>7, <1>9, <1>10, PushTyped
<1> QED BY <1>5, <1>11

LEMMA HandlerTyped ==
    ASSUME Typed, NEW who \in {"trap", "IRQ"}, Handler(who)
    PROVE  Typed' /\ Len(calls') = Depth + 1
<1>1. PICK call \in HandlerCalls : calls' = Append(Interrupted(call), Frame(who, call))
  BY DEF Handler, Interrupted
<1>2. call \in Prints
  BY DEF Prints
<1>3. UNCHANGED <<script, buf, Pos>> /\ Marks'
  BY DEF Handler, Typed, Marks
<1>4. script' \in [prints : Seq(Prints), x : 0 .. XChars - 1, y : 0 .. YChars - 1, handlers : BOOLEAN]
  BY <1>3 DEF Typed
<1> QED BY <1>1, <1>2, <1>3, <1>4, InterruptedSame, PushTyped

\* __vsprintf stores one more character, or the NUL that ends the text, or would
\* store past the end of the buffer.
OverrunStep ==
    /\ Me.n >= BufSize /\ fault' = "buffer"
    /\ UNCHANGED <<script, handled, calls, buf, Pos, strayed>>
StoreStep ==
    /\ Me.n < BufSize
    /\ UNCHANGED <<script, handled, Pos, fault, strayed>>
    /\ DOMAIN buf' = DOMAIN buf \cup {Me.n + 1}
    /\ \A k \in DOMAIN buf : k # Me.n + 1 => buf'[k] = buf[k]
    /\ \/ /\ Me.n < Len(Me.text) /\ buf'[Me.n + 1] = Me.text[Me.n + 1]
          /\ Update([Me EXCEPT !.n = Me.n + 1])
       \/ /\ Me.n = Len(Me.text) /\ buf'[Me.n + 1] = NUL
          /\ Update([Me EXCEPT !.pc = "print", !.n = 0])

LEMMA FormatIs ==
    ASSUME Typed, Format
    PROVE  calls # <<>> /\ Me.pc = "format" /\ (OverrunStep \/ StoreStep)
<1>1. calls # <<>> /\ Me.pc = "format"
  BY DEF Format, At
<1>2. Me.n \in Nat /\ Len(Me.text) \in Nat /\ Me.n <= Len(Me.text) /\ BufSize \in Nat
  BY <1>1, TopFrame, ScreenAssumption DEF FrameType
<1> DEFINE n == Me.n + 1
           atEnd == n > Len(Me.text)
           c == IF atEnd THEN NUL ELSE Me.text[n]
<1>7. CASE Overrun
  BY <1>1, <1>7 DEF Format, Overrun, OverrunStep
<1>8. CASE ~Overrun
  <2>1. /\ buf' = [k \in DOMAIN buf \cup {n} |-> IF k = n THEN c ELSE buf[k]]
        /\ Update(IF atEnd THEN [Me EXCEPT !.pc = "print", !.n = 0] ELSE [Me EXCEPT !.n = n])
        /\ UNCHANGED <<script, handled, Pos, fault, strayed>>
    BY <1>8 DEF Format
  <2>2. buf'[n] = c /\ DOMAIN buf' = DOMAIN buf \cup {n} /\ \A k \in DOMAIN buf : k # n => buf'[k] = buf[k]
    BY <2>1
  <2>3. Me.n < BufSize
    BY <1>2, <1>8 DEF Overrun
  <2>4. CASE atEnd
    <3>1. Me.n = Len(Me.text)
      BY <1>2, <2>4
    <3>2. buf'[Me.n + 1] = NUL /\ Update([Me EXCEPT !.pc = "print", !.n = 0])
      BY <2>1, <2>2, <2>4
    <3> QED BY <1>1, <2>1, <2>2, <2>3, <3>1, <3>2 DEF StoreStep
  <2>5. CASE ~atEnd
    <3>1. Me.n < Len(Me.text)
      BY <1>2, <2>5
    <3>2. buf'[Me.n + 1] = Me.text[Me.n + 1] /\ Update([Me EXCEPT !.n = Me.n + 1])
      BY <2>1, <2>2, <2>5
    <3> QED BY <1>1, <2>1, <2>2, <2>3, <3>1, <3>2 DEF StoreStep
  <2> QED BY <1>1, <2>4, <2>5
<1> QED BY <1>7, <1>8

LEMMA FormatTyped ==
    ASSUME Typed, Format
    PROVE  Typed' /\ Len(calls') = Depth
<1>0. CASE OverrunStep
  BY <1>0 DEF OverrunStep, Typed, Marks, BufTyped, Stored, Depth
<1> SUFFICES ASSUME StoreStep PROVE Typed' /\ Len(calls') = Depth
  BY <1>0, FormatIs
<1>1. /\ calls # <<>> /\ Me.pc = "format" /\ Me.n < BufSize
      /\ UNCHANGED <<script, handled, Pos, fault, strayed>>
      /\ DOMAIN buf' = DOMAIN buf \cup {Me.n + 1}
      /\ \A k \in DOMAIN buf : k # Me.n + 1 => buf'[k] = buf[k]
      /\ \/ /\ Me.n < Len(Me.text) /\ buf'[Me.n + 1] = Me.text[Me.n + 1]
            /\ Update([Me EXCEPT !.n = Me.n + 1])
         \/ /\ Me.n = Len(Me.text) /\ buf'[Me.n + 1] = NUL
            /\ Update([Me EXCEPT !.pc = "print", !.n = 0])
  BY FormatIs DEF StoreStep
<1>2. /\ Me \in FrameType /\ Me.n \in Nat /\ Len(Me.text) \in Nat /\ Me.text \in Seq(Chars)
      /\ Depth \in DOMAIN calls
  BY <1>1, TopFrame DEF FrameType
<1>3. Buffered(Me.call) => 1 .. Me.n \subseteq DOMAIN buf
  BY <1>1, <1>2 DEF Typed, Stored, Me
<1>4. BufTyped'
  <2>1. buf'[Me.n + 1] \in Chars
    <3>1. NUL \in Chars
      BY CharAssumption
    <3>2. Me.n < Len(Me.text) => Me.text[Me.n + 1] \in Chars
      BY <1>2
    <3> QED BY <1>1, <3>1, <3>2
  <2>2. Me.n + 1 \in 1 .. BufSize
    BY <1>1, <1>2, ScreenAssumption
  <2>3. DOMAIN buf \subseteq 1 .. BufSize /\ \A k \in DOMAIN buf : buf[k] \in Chars
    BY DEF Typed, BufTyped
  <2> QED BY <1>1, <2>1, <2>2, <2>3 DEF BufTyped
<1>5. Pos' \in [x : Int, y : Int] /\ Marks'
  BY <1>1 DEF Typed, Marks
<1>6. CASE Me.n < Len(Me.text) /\ Update([Me EXCEPT !.n = Me.n + 1])
  <2> DEFINE f == [Me EXCEPT !.n = Me.n + 1]
  <2>1. f \in FrameType
    <3>1. \A g \in FrameType, k \in Nat : [g EXCEPT !.n = k] \in FrameType
      BY DEF FrameType
    <3>2. Me.n + 1 \in Nat
      BY <1>2
    <3> QED BY <1>2, <3>1, <3>2
  <2>2. f.n = Me.n + 1 /\ f.text = Me.text /\ f.call = Me.call /\ f.pc = "format"
    BY <1>1, <1>2 DEF FrameType
  <2> HIDE DEF f
  <2>3. f.n <= Len(f.text) /\ (Buffered(f.call) => Stored(f) \subseteq DOMAIN buf')
    BY <1>1, <1>2, <1>3, <1>6, <2>2 DEF Stored
  <2>4. Update(f)
    BY <1>6 DEF f
  <2> QED BY <1>1, <1>4, <1>5, <2>1, <2>2, <2>3, <2>4, TypedUpdate, Updated
<1>7. CASE Me.n = Len(Me.text) /\ Update([Me EXCEPT !.pc = "print", !.n = 0])
  <2> DEFINE f == [Me EXCEPT !.pc = "print", !.n = 0]
  <2>0. f = [[Me EXCEPT !.pc = "print"] EXCEPT !.n = 0]
    OBVIOUS
  <2>1. f \in FrameType
    <3>1. [Me EXCEPT !.pc = "print"] \in FrameType
      BY <1>2 DEF FrameType
    <3> QED BY <2>0, <3>1 DEF FrameType
  <2>2. f.n = 0 /\ f.text = Me.text /\ f.call = Me.call /\ f.pc = "print"
    BY <1>1, <1>2 DEF FrameType
  <2> HIDE DEF f
  <2>3. f.n <= Len(f.text) /\ (Buffered(f.call) => Stored(f) \subseteq DOMAIN buf')
    BY <1>1, <1>2, <1>3, <1>7, <2>2 DEF Stored
  <2>4. Update(f)
    BY <1>7 DEF f
  <2> QED BY <1>1, <1>4, <1>5, <2>1, <2>2, <2>3, <2>4, TypedUpdate, Updated
<1> QED BY <1>1, <1>6, <1>7

\* The accesses a character takes.
CharOps(c) ==
    CASE c = "\n" -> <<"loadY", "incY", "zeroX", "testX", "testY">>
      [] c = BS -> <<"loadX", "decX", "testLeft", "loadY", "draw", "testX", "testY">>
      [] c = "\t" -> <<"loadX", "tab", "turn", "testX", "testY">>
      [] OTHER -> <<"loadY", "draw", "loadX", "incX", "testX", "testY">>

LEMMA CharOpsTyped == \A c : CharOps(c) \in Seq(Ops)
<1> TAKE c
<1>1. /\ <<"loadY", "incY", "zeroX", "testX", "testY">> \in Seq(Ops)
      /\ <<"loadX", "decX", "testLeft", "loadY", "draw", "testX", "testY">> \in Seq(Ops)
      /\ <<"loadX", "tab", "turn", "testX", "testY">> \in Seq(Ops)
      /\ <<"loadY", "draw", "loadX", "incX", "testX", "testY">> \in Seq(Ops)
  BY DEF Ops
<1>2. \/ CharOps(c) = <<"loadY", "incY", "zeroX", "testX", "testY">>
      \/ CharOps(c) = <<"loadX", "decX", "testLeft", "loadY", "draw", "testX", "testY">>
      \/ CharOps(c) = <<"loadX", "tab", "turn", "testX", "testY">>
      \/ CharOps(c) = <<"loadY", "draw", "loadX", "incX", "testX", "testY">>
  BY DEF CharOps
<1> QED BY <1>1, <1>2

LEMMA WithTests ==
    ASSUME NEW s \in Seq(Ops), NEW t \in Seq(Ops), Len(t) = Len(s) + 2,
           \A i \in 1 .. Len(s) : t[i] = s[i],
           t[Len(s) + 1] = "testX", t[Len(s) + 2] = "testY"
    PROVE  s \o <<"testX", "testY">> = t
<1> DEFINE w == <<"testX", "testY">>
<1>1. w \in Seq(Ops) /\ Len(w) = 2 /\ w[1] = "testX" /\ w[2] = "testY" /\ Len(s) \in Nat
  BY DEF Ops
<1> HIDE DEF w, Ops
<1>2. s \o w \in Seq(Ops) /\ Len(s \o w) = Len(s) + Len(w)
  BY <1>1, ConcatProperties
<1>3. \A i \in 1 .. Len(s) + Len(w) : (s \o w)[i] = IF i <= Len(s) THEN s[i] ELSE w[i - Len(s)]
  BY <1>1, ConcatProperties
<1>4. ASSUME NEW i \in 1 .. Len(s \o w) PROVE (s \o w)[i] = t[i]
  <2>1. CASE i <= Len(s)
    BY <1>1, <1>2, <1>3, <2>1
  <2>2. CASE i = Len(s) + 1
    BY <1>1, <1>2, <1>3, <2>2
  <2>3. CASE i = Len(s) + 2
    BY <1>1, <1>2, <1>3, <2>3
  <2> QED BY <1>1, <1>2, <2>1, <2>2, <2>3
<1> QED BY <1>1, <1>2, <1>4, SeqEqual DEF w

LEMMA CharOpsAre ==
    /\ <<"loadY", "incY", "zeroX">> \o <<"testX", "testY">>
         = <<"loadY", "incY", "zeroX", "testX", "testY">>
    /\ <<"loadX", "decX", "testLeft", "loadY", "draw">> \o <<"testX", "testY">>
         = <<"loadX", "decX", "testLeft", "loadY", "draw", "testX", "testY">>
    /\ <<"loadX", "tab", "turn">> \o <<"testX", "testY">>
         = <<"loadX", "tab", "turn", "testX", "testY">>
    /\ <<"loadY", "draw", "loadX", "incX">> \o <<"testX", "testY">>
         = <<"loadY", "draw", "loadX", "incX", "testX", "testY">>
<1>1. <<"loadY", "incY", "zeroX">> \o <<"testX", "testY">>
        = <<"loadY", "incY", "zeroX", "testX", "testY">>
  <2> DEFINE s == <<"loadY", "incY", "zeroX">>
             t == <<"loadY", "incY", "zeroX", "testX", "testY">>
  <2>1. s \in Seq(Ops) /\ t \in Seq(Ops)
    BY DEF Ops
  <2>2. /\ Len(s) = 3 /\ Len(t) = 5
        /\ t[1] = s[1] /\ t[2] = s[2] /\ t[3] = s[3]
        /\ t[4] = "testX" /\ t[5] = "testY"
    OBVIOUS
  <2> HIDE DEF s, t
  <2>3. \A i \in 1 .. Len(s) : t[i] = s[i]
    BY <2>2
  <2>4. Len(t) = Len(s) + 2 /\ t[Len(s) + 1] = "testX" /\ t[Len(s) + 2] = "testY"
    BY <2>2
  <2>5. s \o <<"testX", "testY">> = t
    BY <2>1, <2>3, <2>4, WithTests
  <2> QED BY <2>5 DEF s, t
<1>2. <<"loadX", "decX", "testLeft", "loadY", "draw">> \o <<"testX", "testY">>
        = <<"loadX", "decX", "testLeft", "loadY", "draw", "testX", "testY">>
  <2> DEFINE s == <<"loadX", "decX", "testLeft", "loadY", "draw">>
             t == <<"loadX", "decX", "testLeft", "loadY", "draw", "testX", "testY">>
  <2>1. s \in Seq(Ops) /\ t \in Seq(Ops)
    BY DEF Ops
  <2>2. /\ Len(s) = 5 /\ Len(t) = 7
        /\ t[1] = s[1] /\ t[2] = s[2] /\ t[3] = s[3] /\ t[4] = s[4] /\ t[5] = s[5]
        /\ t[6] = "testX" /\ t[7] = "testY"
    OBVIOUS
  <2> HIDE DEF s, t
  <2>3. \A i \in 1 .. Len(s) : t[i] = s[i]
    BY <2>2
  <2>4. Len(t) = Len(s) + 2 /\ t[Len(s) + 1] = "testX" /\ t[Len(s) + 2] = "testY"
    BY <2>2
  <2>5. s \o <<"testX", "testY">> = t
    BY <2>1, <2>3, <2>4, WithTests
  <2> QED BY <2>5 DEF s, t
<1>3. <<"loadX", "tab", "turn">> \o <<"testX", "testY">>
        = <<"loadX", "tab", "turn", "testX", "testY">>
  <2> DEFINE s == <<"loadX", "tab", "turn">>
             t == <<"loadX", "tab", "turn", "testX", "testY">>
  <2>1. s \in Seq(Ops) /\ t \in Seq(Ops)
    BY DEF Ops
  <2>2. /\ Len(s) = 3 /\ Len(t) = 5
        /\ t[1] = s[1] /\ t[2] = s[2] /\ t[3] = s[3]
        /\ t[4] = "testX" /\ t[5] = "testY"
    OBVIOUS
  <2> HIDE DEF s, t
  <2>3. \A i \in 1 .. Len(s) : t[i] = s[i]
    BY <2>2
  <2>4. Len(t) = Len(s) + 2 /\ t[Len(s) + 1] = "testX" /\ t[Len(s) + 2] = "testY"
    BY <2>2
  <2>5. s \o <<"testX", "testY">> = t
    BY <2>1, <2>3, <2>4, WithTests
  <2> QED BY <2>5 DEF s, t
<1>4. <<"loadY", "draw", "loadX", "incX">> \o <<"testX", "testY">>
        = <<"loadY", "draw", "loadX", "incX", "testX", "testY">>
  <2> DEFINE s == <<"loadY", "draw", "loadX", "incX">>
             t == <<"loadY", "draw", "loadX", "incX", "testX", "testY">>
  <2>1. s \in Seq(Ops) /\ t \in Seq(Ops)
    BY DEF Ops
  <2>2. /\ Len(s) = 4 /\ Len(t) = 6
        /\ t[1] = s[1] /\ t[2] = s[2] /\ t[3] = s[3] /\ t[4] = s[4]
        /\ t[5] = "testX" /\ t[6] = "testY"
    OBVIOUS
  <2> HIDE DEF s, t
  <2>3. \A i \in 1 .. Len(s) : t[i] = s[i]
    BY <2>2
  <2>4. Len(t) = Len(s) + 2 /\ t[Len(s) + 1] = "testX" /\ t[Len(s) + 2] = "testY"
    BY <2>2
  <2>5. s \o <<"testX", "testY">> = t
    BY <2>1, <2>3, <2>4, WithTests
  <2> QED BY <2>5 DEF s, t
<1> QED BY <1>1, <1>2, <1>3, <1>4

LEMMA GlyphOps ==
    /\ <<"loadX", "decX", "testLeft">> \o Glyph = <<"loadX", "decX", "testLeft", "loadY", "draw">>
    /\ Glyph \o <<"loadX", "incX">> = <<"loadY", "draw", "loadX", "incX">>
<1>1. <<"loadX", "decX", "testLeft">> \o Glyph = <<"loadX", "decX", "testLeft", "loadY", "draw">>
  <2> DEFINE s == <<"loadX", "decX", "testLeft">>
             u == Glyph
             t == <<"loadX", "decX", "testLeft", "loadY", "draw">>
  <2>1. /\ s \in Seq(Ops) /\ u \in Seq(Ops) /\ t \in Seq(Ops)
        /\ Len(s) = 3 /\ Len(u) = 2 /\ Len(t) = 5
        /\ t[1] = s[1] /\ t[2] = s[2] /\ t[3] = s[3]
        /\ t[4] = u[1] /\ t[5] = u[2]
    BY DEF Ops, Glyph
  <2> HIDE DEF s, u, t
  <2>2. /\ (\A i \in 1 .. Len(s) : t[i] = s[i])
        /\ (\A i \in 1 .. Len(u) : t[Len(s) + i] = u[i])
        /\ Len(t) = Len(s) + Len(u)
    BY <2>1
  <2>3. s \o u = t
    BY <2>1, <2>2, Joined
  <2> QED BY <2>3 DEF s, u, t
<1>2. Glyph \o <<"loadX", "incX">> = <<"loadY", "draw", "loadX", "incX">>
  <2> DEFINE s == Glyph
             u == <<"loadX", "incX">>
             t == <<"loadY", "draw", "loadX", "incX">>
  <2>1. /\ s \in Seq(Ops) /\ u \in Seq(Ops) /\ t \in Seq(Ops)
        /\ Len(s) = 2 /\ Len(u) = 2 /\ Len(t) = 4
        /\ t[1] = s[1] /\ t[2] = s[2]
        /\ t[3] = u[1] /\ t[4] = u[2]
    BY DEF Ops, Glyph
  <2> HIDE DEF s, u, t
  <2>2. /\ (\A i \in 1 .. Len(s) : t[i] = s[i])
        /\ (\A i \in 1 .. Len(u) : t[Len(s) + i] = u[i])
        /\ Len(t) = Len(s) + Len(u)
    BY <2>1
  <2>3. s \o u = t
    BY <2>1, <2>2, Joined
  <2> QED BY <2>3 DEF s, u, t
<1> QED BY <1>1, <1>2

LEMMA NextCharIs ==
    ASSUME Typed, NextChar
    PROVE  /\ calls # <<>> /\ Me.pc = "print" /\ Me.todo = <<>> /\ Me.n < Len(Me.text)
           /\ UNCHANGED <<script, handled, buf, Pos, fault, strayed>>
           /\ \E c \in Chars, f \in FrameType :
                 /\ c = IF Buffered(Me.call) THEN buf[Me.n + 1] ELSE Me.text[Me.n + 1]
                 /\ Update(f)
                 /\ f.n = Me.n + 1 /\ f.shown = Append(Me.shown, c) /\ f.todo = CharOps(c)
                 /\ f.text = Me.text /\ f.call = Me.call /\ f.pc = Me.pc /\ f.reg = Me.reg
                 /\ f.over = Me.over /\ f.tab_cnt = Me.tab_cnt
<1>1. calls # <<>> /\ Me.pc = "print" /\ Me.todo = <<>> /\ Me.n < Len(Me.text)
  BY DEF NextChar, At, Printed
<1>2. /\ Me \in FrameType /\ Me.n \in Nat /\ Len(Me.text) \in Nat /\ Me.text \in Seq(Chars)
      /\ Me.shown \in Seq(Chars) /\ Depth \in DOMAIN calls
  BY <1>1, TopFrame DEF FrameType
<1> DEFINE c == IF Buffered(Me.call) THEN buf[Me.n + 1] ELSE Me.text[Me.n + 1]
           glyph == IF c \in {BS, "\t"} THEN " " ELSE c
           shown == Append(Me.shown, c)
           f == [Me EXCEPT !.n = Me.n + 1, !.shown = shown, !.ch = glyph, !.todo = CharOps(c)]
<1>3. c \in Chars
  <2>1. CASE Buffered(Me.call)
    <3>1. Stored(Me) \subseteq DOMAIN buf
      BY <1>2, <2>1 DEF Typed, Me
    <3>2. Me.n + 1 \in Stored(Me)
      BY <1>1, <1>2 DEF Stored
    <3> QED BY <2>1, <3>1, <3>2 DEF Typed, BufTyped
  <2>2. CASE ~Buffered(Me.call)
    BY <1>1, <1>2, <2>2
  <2> QED BY <2>1, <2>2
<1>5. CharOps(c) = CASE c = "\n" -> <<"loadY", "incY", "zeroX">> \o <<"testX", "testY">>
                     [] c = BS -> <<"loadX", "decX", "testLeft">> \o Glyph \o <<"testX", "testY">>
                     [] c = "\t" -> <<"loadX", "tab", "turn">> \o <<"testX", "testY">>
                     [] OTHER -> Glyph \o <<"loadX", "incX">> \o <<"testX", "testY">>
  BY CharOpsAre, GlyphOps DEF CharOps
<1>6. CharOps(c) \in Seq(Ops)
  BY CharOpsTyped
<1>7. Update(f)
  BY <1>5 DEF NextChar
<1>8. glyph \in Chars /\ shown \in Seq(Chars)
  <2>1. " " \in Chars
    BY CharAssumption
  <2> QED BY <1>2, <1>3, <2>1, AppendProperties
<1> DEFINE ops == CharOps(c)
<1>9. f = [[[[Me EXCEPT !.n = Me.n + 1] EXCEPT !.shown = shown] EXCEPT !.ch = glyph] EXCEPT !.todo = ops]
  OBVIOUS
<1>10. /\ \A g \in FrameType, v \in Nat : [g EXCEPT !.n = v] \in FrameType
       /\ \A g \in FrameType, v \in Seq(Chars) : [g EXCEPT !.shown = v] \in FrameType
       /\ \A g \in FrameType, v \in Chars : [g EXCEPT !.ch = v] \in FrameType
       /\ \A g \in FrameType, v \in Seq(Ops) : [g EXCEPT !.todo = v] \in FrameType
  BY DEF FrameType
<1>12. Me.n + 1 \in Nat
  BY <1>2
<1>11. /\ f.n = Me.n + 1 /\ f.shown = shown /\ f.todo = ops
       /\ f.text = Me.text /\ f.call = Me.call /\ f.pc = Me.pc /\ f.reg = Me.reg
       /\ f.over = Me.over /\ f.tab_cnt = Me.tab_cnt
  <2> DEFINE n == Me.n + 1
             g1 == [Me EXCEPT !.n = n]
             g2 == [g1 EXCEPT !.shown = shown]
             g3 == [g2 EXCEPT !.ch = glyph]
  <2>1. f = [g3 EXCEPT !.todo = ops]
    BY <1>9
  <2> HIDE DEF ops, shown, glyph, c, n, f
  <2>2. /\ g1 \in FrameType /\ g2 \in FrameType /\ g3 \in FrameType
    BY <1>2, <1>8, <1>10, <1>12 DEF n
  <2>3. /\ g1.n = n /\ g1.text = Me.text /\ g1.call = Me.call /\ g1.pc = Me.pc /\ g1.reg = Me.reg
        /\ g1.over = Me.over /\ g1.tab_cnt = Me.tab_cnt
    BY <1>2 DEF FrameType
  <2> HIDE DEF g1
  <2>4. /\ g2.n = g1.n /\ g2.text = g1.text /\ g2.call = g1.call /\ g2.pc = g1.pc /\ g2.reg = g1.reg
        /\ g2.over = g1.over /\ g2.shown = shown /\ g2.tab_cnt = g1.tab_cnt
    BY <2>2 DEF FrameType
  <2> HIDE DEF g2
  <2>5. /\ g3.n = g2.n /\ g3.text = g2.text /\ g3.call = g2.call /\ g3.pc = g2.pc /\ g3.reg = g2.reg
        /\ g3.over = g2.over /\ g3.shown = g2.shown /\ g3.tab_cnt = g2.tab_cnt
    BY <2>2 DEF FrameType
  <2> HIDE DEF g3
  <2>6. /\ f.n = g3.n /\ f.text = g3.text /\ f.call = g3.call /\ f.pc = g3.pc /\ f.reg = g3.reg
        /\ f.over = g3.over /\ f.shown = g3.shown /\ f.todo = ops /\ f.tab_cnt = g3.tab_cnt
    BY <2>1, <2>2 DEF FrameType
  <2> QED BY <2>3, <2>4, <2>5, <2>6 DEF n
<1> HIDE DEF ops, shown, glyph
<1>13. f \in FrameType
  BY <1>2, <1>6, <1>8, <1>9, <1>10, <1>12 DEF ops
<1> HIDE DEF f
<1>14. UNCHANGED <<script, handled, buf, Pos, fault, strayed>>
  BY DEF NextChar
<1> QED BY <1>1, <1>3, <1>7, <1>11, <1>13, <1>14 DEF ops, shown

LEMMA NextCharTyped ==
    ASSUME Typed, NextChar
    PROVE  Typed' /\ Len(calls') = Depth
<1>1. /\ calls # <<>> /\ Me.pc = "print" /\ Me.n < Len(Me.text)
      /\ UNCHANGED <<script, handled, buf, Pos, fault, strayed>>
  BY NextCharIs
<1>2. PICK f \in FrameType : /\ Update(f) /\ f.n = Me.n + 1 /\ f.text = Me.text
                             /\ f.call = Me.call /\ f.pc = Me.pc
  BY NextCharIs
<1>3. /\ Me \in FrameType /\ Me.n \in Nat /\ Len(Me.text) \in Nat /\ Depth \in DOMAIN calls
  BY <1>1, TopFrame DEF FrameType
<1>4. Stored(f) = Stored(Me)
  BY <1>1, <1>2 DEF Stored
<1>5. Buffered(f.call) => Stored(f) \subseteq DOMAIN buf'
  BY <1>1, <1>2, <1>3, <1>4 DEF Typed, Me
<1>6. Pos' \in [x : Int, y : Int] /\ Marks' /\ BufTyped'
  BY <1>1 DEF Typed, Marks, BufTyped
<1>7. f.n <= Len(f.text)
  BY <1>1, <1>2, <1>3
<1>8. UNCHANGED script /\ DOMAIN buf \subseteq DOMAIN buf'
  BY <1>1
<1> QED BY <1>1, <1>2, <1>5, <1>6, <1>7, <1>8, TypedUpdate, Updated

\* The innermost print ends, or loops for ever.
LEMMA ReturnIs ==
    ASSUME Typed, Return
    PROVE  /\ calls # <<>> /\ Me.pc = "print" /\ Me.todo = <<>> /\ Me.n = Len(Me.text)
           /\ UNCHANGED <<script, handled, buf, Pos, fault, strayed>>
           /\ \/ Update([Me EXCEPT !.pc = "loop"])
              \/ /\ calls' \in Seq(FrameType) /\ Len(calls') = Depth - 1
                 /\ DOMAIN calls' = 1 .. Depth - 1
                 /\ \A i \in 1 .. Depth - 1 : calls'[i] = calls[i]
<1>1. /\ calls # <<>> /\ Me.pc = "print" /\ Me.todo = <<>> /\ Me.n >= Len(Me.text)
      /\ UNCHANGED <<script, handled, buf, Pos, fault, strayed>>
      /\ \/ Update([Me EXCEPT !.pc = "loop"])
         \/ calls' = SubSeq(calls, 1, Depth - 1)
  BY DEF Return, At, Printed
<1>2. /\ Me.n <= Len(Me.text) /\ Me.n \in Nat /\ Len(Me.text) \in Nat /\ Depth \in Nat \ {0}
      /\ calls \in Seq(FrameType) /\ Depth = Len(calls)
  BY <1>1, TopFrame DEF FrameType, Typed, Depth
<1>3. Me.n = Len(Me.text)
  BY <1>1, <1>2
<1>4. ASSUME calls' = SubSeq(calls, 1, Depth - 1)
      PROVE  /\ calls' \in Seq(FrameType) /\ Len(calls') = Depth - 1
             /\ DOMAIN calls' = 1 .. Depth - 1
             /\ \A i \in 1 .. Depth - 1 : calls'[i] = calls[i]
  <2> HIDE DEF Depth
  <2>1. 1 \in 1 .. Len(calls) + 1 /\ Depth - 1 \in 0 .. Len(calls)
    BY <1>2
  <2> DEFINE d == Depth - 1
  <2>2. /\ SubSeq(calls, 1, d) \in Seq(FrameType)
        /\ Len(SubSeq(calls, 1, d)) = IF 1 <= d THEN d - 1 + 1 ELSE 0
        /\ \A i \in 1 .. d - 1 + 1 : SubSeq(calls, 1, d)[i] = calls[1 + i - 1]
    BY <1>2, <2>1, SubSeqProperties
  <2>3. Len(calls') = Depth - 1 /\ calls' \in Seq(FrameType)
    BY <1>2, <1>4, <2>2
  <2>4. \A i \in 1 .. Depth - 1 : calls'[i] = calls[i]
    BY <1>2, <1>4, <2>2
  <2> QED BY <2>3, <2>4
<1> QED BY <1>1, <1>3, <1>4

LEMMA ReturnTyped ==
    ASSUME Typed, Return
    PROVE  Typed' /\ Len(calls') \in {Depth, Depth - 1}
<1>1. /\ calls # <<>> /\ Me.pc = "print" /\ Me.todo = <<>> /\ Me.n = Len(Me.text)
      /\ UNCHANGED <<script, handled, buf, Pos, fault, strayed>>
      /\ \/ Update([Me EXCEPT !.pc = "loop"])
         \/ /\ calls' \in Seq(FrameType) /\ Len(calls') = Depth - 1
            /\ DOMAIN calls' = 1 .. Depth - 1
            /\ \A i \in 1 .. Depth - 1 : calls'[i] = calls[i]
  BY ReturnIs
<1>2. /\ Me \in FrameType /\ Me.n \in Nat /\ Depth \in DOMAIN calls /\ Depth \in Nat \ {0}
      /\ DOMAIN calls = 1 .. Depth
  BY <1>1, TopFrame DEF FrameType
<1>3. /\ Pos' \in [x : Int, y : Int] /\ Marks' /\ BufTyped'
      /\ UNCHANGED script /\ DOMAIN buf \subseteq DOMAIN buf'
  BY <1>1 DEF Typed, Marks, BufTyped
<1>4. CASE Update([Me EXCEPT !.pc = "loop"])
  <2> DEFINE f == [Me EXCEPT !.pc = "loop"]
  <2>1. f \in FrameType /\ f.n = Me.n /\ f.text = Me.text /\ f.call = Me.call /\ f.pc = "loop"
    BY <1>2 DEF FrameType
  <2> HIDE DEF f
  <2>2. Stored(f) = Stored(Me)
    BY <1>1, <2>1 DEF Stored
  <2>3. (Buffered(f.call) => Stored(f) \subseteq DOMAIN buf') /\ f.n <= Len(f.text)
    BY <1>1, <1>2, <2>1, <2>2 DEF Typed, Me
  <2>4. Update(f)
    BY <1>4 DEF f
  <2> QED BY <1>1, <1>3, <2>1, <2>3, <2>4, TypedUpdate, Updated
<1>5. CASE /\ calls' \in Seq(FrameType) /\ Len(calls') = Depth - 1
           /\ DOMAIN calls' = 1 .. Depth - 1
           /\ \A i \in 1 .. Depth - 1 : calls'[i] = calls[i]
  <2>1. \A i \in DOMAIN calls' : i \in DOMAIN calls /\ calls'[i] = calls[i]
    BY <1>2, <1>5
  <2>2. /\ \A i \in DOMAIN calls' : calls'[i].n <= Len(calls'[i].text)
        /\ \A i \in DOMAIN calls' : Buffered(calls'[i].call) => Stored(calls'[i]) \subseteq DOMAIN buf'
    BY <1>1, <2>1 DEF Typed
  <2>3. script' \in [prints : Seq(Prints), x : 0 .. XChars - 1, y : 0 .. YChars - 1, handlers : BOOLEAN]
    BY <1>3 DEF Typed
  <2> QED BY <1>3, <1>5, <2>2, <2>3 DEF Typed
<1> QED BY <1>1, <1>4, <1>5

LEMMA AccessTyped ==
    ASSUME Typed, Access
    PROVE  Typed' /\ Len(calls') = Depth
<1>1. /\ calls # <<>> /\ Me.todo # <<>> /\ Me.pc = "print"
      /\ Pos' = NextPos(Head(Me.todo)) /\ UNCHANGED <<script, handled, buf>>
  BY AccessIs
<1>2. PICK ops, r, m : Update(Moved(ops, r, m)) /\ Outcome(Head(Me.todo), ops, r, m)
  BY AccessIs
<1>3. Me \in FrameType /\ Me.n <= Len(Me.text) /\ Depth \in DOMAIN calls
  BY <1>1, TopFrame
<1>4. Head(Me.todo) \in Ops
  <2>1. Me.todo \in Seq(Ops)
    BY <1>3 DEF FrameType
  <2> QED BY <1>1, <2>1, HeadTailProperties
<1>5. ops \in Seq(Ops) /\ r \in Int /\ m \in Int /\ Pos' \in [x : Int, y : Int]
  BY <1>1, <1>2, <1>4, OutcomeTyped
<1> DEFINE f == Moved(ops, r, m)
<1>6. /\ f \in FrameType /\ f.n = Me.n /\ f.text = Me.text /\ f.call = Me.call /\ f.pc = Me.pc
  BY <1>1, <1>5, MovedFrame
<1> HIDE DEF f
<1>7. Stored(f) = Stored(Me)
  BY <1>6 DEF Stored
<1>8. (Buffered(f.call) => Stored(f) \subseteq DOMAIN buf') /\ f.n <= Len(f.text)
  BY <1>1, <1>3, <1>6, <1>7 DEF Typed, Me
<1>9. BufTyped' /\ UNCHANGED script /\ DOMAIN buf \subseteq DOMAIN buf'
  BY <1>1 DEF Typed, BufTyped
<1>10. Marks'
  BY DEF Access, Draw, Tab, Turn, Load, Store, Test, Typed, Marks
<1>11. Update(f)
  BY <1>2 DEF f
<1> QED BY <1>1, <1>5, <1>6, <1>8, <1>9, <1>10, <1>11, TypedUpdate, Updated

LEMMA NextIs ==
    ASSUME Next
    PROVE  \/ Call \/ (\E who \in {"trap", "IRQ"} : Handler(who)) \/ Format \/ NextChar \/ Return
           \/ Access \/ UNCHANGED vars
  BY DEF Next, Access, Stop

LEMMA StutterTyped == Typed /\ Bounded /\ UNCHANGED vars => Typed' /\ Bounded'
<1> SUFFICES ASSUME Typed, Bounded, UNCHANGED vars PROVE Typed' /\ Bounded'
  OBVIOUS
<1>1. UNCHANGED <<script, handled, calls, buf, Pos, fault, strayed>>
  BY DEF vars
<1>2. Typed'
  BY <1>1 DEF Typed, Stored, Marks, BufTyped
<1> QED BY <1>1, <1>2 DEF Bounded, Depth

LEMMA StepTyped == Typed /\ Bounded /\ [Next]_vars => Typed' /\ Bounded'
<1> SUFFICES ASSUME Typed, Bounded, [Next]_vars PROVE Typed' /\ Bounded'
  OBVIOUS
<1>1. /\ handled \subseteq {"trap", "IRQ"} /\ Depth <= Cardinality(handled) + 1 /\ Depth \in Nat
      /\ Cardinality(handled) \in Nat /\ IsFiniteSet(handled)
  <2>1. handled \subseteq {"trap", "IRQ"} /\ Depth <= Cardinality(handled) + 1 /\ Depth \in Nat
    BY DEF Bounded, Typed, Depth
  <2>2. IsFiniteSet({"trap", "IRQ"})
    <3>1. IsFiniteSet({}) /\ IsFiniteSet({} \cup {"trap"})
      BY FS_EmptySet, FS_AddElement
    <3>2. IsFiniteSet(({} \cup {"trap"}) \cup {"IRQ"})
      BY <3>1, FS_AddElement
    <3>3. ({} \cup {"trap"}) \cup {"IRQ"} = {"trap", "IRQ"}
      OBVIOUS
    <3> QED BY <3>2, <3>3
  <2> QED BY <2>1, <2>2, FS_Subset, FS_CardinalityType
<1>2. CASE Call
  <2>1. Typed' /\ Len(calls') = 1 /\ UNCHANGED handled
    BY <1>2, CallTyped DEF Call
  <2> QED BY <1>1, <2>1 DEF Bounded, Depth
<1>3. ASSUME NEW who \in {"trap", "IRQ"}, Handler(who) PROVE Typed' /\ Bounded'
  <2>1. Typed' /\ Len(calls') = Depth + 1
    BY <1>3, HandlerTyped
  <2>2. who \notin handled /\ handled' = handled \cup {who}
    BY <1>3 DEF Handler
  <2>3. Cardinality(handled') = Cardinality(handled) + 1
    BY <1>1, <2>2, FS_AddElement
  <2>4. handled' \subseteq {"trap", "IRQ"}
    BY <1>1, <2>2
  <2>5. Len(calls') <= Cardinality(handled') + 1
    BY <1>1, <2>1, <2>3
  <2> QED BY <2>1, <2>4, <2>5 DEF Bounded, Depth
<1>4. CASE Format
  BY <1>1, <1>4, FormatTyped DEF Bounded, Depth, Format
<1>5. CASE NextChar
  BY <1>1, <1>5, NextCharTyped DEF Bounded, Depth, NextChar
<1>6. CASE Return
  <2>1. Typed' /\ Len(calls') \in {Depth, Depth - 1} /\ UNCHANGED handled
    BY <1>6, ReturnTyped DEF Return
  <2> QED BY <1>1, <2>1 DEF Bounded, Depth
<1>7. CASE Access
  <2>1. Typed' /\ Len(calls') = Depth /\ UNCHANGED handled
    BY <1>7, AccessTyped, AccessIs
  <2> QED BY <1>1, <2>1 DEF Bounded, Depth
<1>8. CASE UNCHANGED vars
  BY <1>8, StutterTyped
<1> QED BY <1>2, <1>3, <1>4, <1>5, <1>6, <1>7, <1>8, NextIs

LEMMA TypedImpliesTypeOK == Typed /\ Bounded => TypeOK
<1> SUFFICES ASSUME Typed, Bounded PROVE TypeOK
  OBVIOUS
<1>1. ASSUME NEW i \in DOMAIN calls
      PROVE  /\ calls[i].pc \in {"format", "print", "loop"}
             /\ calls[i].n \in 0 .. Len(calls[i].text)
             /\ calls[i].reg \in Int /\ calls[i].tab_cnt \in Int
  <2>1. calls[i] \in FrameType /\ calls[i].n <= Len(calls[i].text)
    BY <1>1 DEF Typed
  <2>2. /\ calls[i].pc \in {"format", "print", "loop"} /\ calls[i].n \in Nat
        /\ calls[i].reg \in Int /\ calls[i].tab_cnt \in Int /\ Len(calls[i].text) \in Nat
    BY <2>1 DEF FrameType
  <2> QED BY <2>1, <2>2
<1> QED BY <1>1 DEF Typed, Bounded, TypeOK, Marks, BufTyped

\* No more prints nest than the kernel's own and one of each handler, each has
\* printed no more than its text, and the cursor is a pair of numbers: for every
\* screen, whatever is printed (printk.c: color_printk, __print_char).
THEOREM TypeCorrect == Spec => []TypeOK
<1> USE InitTyped, StepTyped, TypedImpliesTypeOK
<1>1. Init => Typed /\ Bounded
  OBVIOUS
<1>2. Typed /\ Bounded /\ [Next]_vars => Typed' /\ Bounded'
  OBVIOUS
<1>3. Typed /\ Bounded => TypeOK
  OBVIOUS
<1> QED BY <1>1, <1>2, <1>3, PTL DEF Spec

-----------------------------------------------------------------------------
(***************************************************************************)
(* The cursor.  A store may put any stale X or Y back, but then a test of   *)
(* it is still to be made, by the same print or by one it interrupted.      *)
(***************************************************************************)
Later(t, k, op) == \E m \in DOMAIN t : m > k /\ t[m] = op
Has(t, op) == \E m \in DOMAIN t : t[m] = op

\* What must, and what cannot, come after an access.
Needs(op) ==
    CASE op = "tab" -> {"testX", "turn"}
      [] op = "turn" -> {"testX"}
      [] op = "incX" -> {"testX"}
      [] op = "decX" -> {"testX", "testLeft"}
      [] op = "lastX" -> {"testX"}
      [] op = "testX" -> {"testY"}
      [] op = "testLeft" -> {"testX", "testY"}
      [] op = "incY" -> {"testY"}
      [] op = "decY" -> {"testY", "testTop"}
      [] op = "lastY" -> {"testY"}
      [] op = "testTop" -> {"testY"}
      [] OTHER -> {}

Bars(op) ==
    CASE op = "tab" -> {"testLeft", "lastX", "tab", "incX"}
      [] op = "turn" -> {"testLeft", "lastX", "tab", "incX", "turn"}
      [] op = "incX" -> {"testLeft", "lastX", "tab", "incX"}
      [] op = "incY" -> {"testTop", "lastY", "incY"}
      [] op = "testX" -> {"testTop", "lastY", "tab", "turn", "incX", "incY", "testX"}
      [] op \in {"testLeft", "testTop", "testY"} -> {"tab", "turn", "incX"}
      [] OTHER -> {}

\* A load and the access that uses what it loaded stand together, and so do a
\* step back and its test.
Uses == {"incX", "decX", "tab", "incY", "decY", "draw"}
Loaded(op, use) ==
    /\ use \in {"incX", "decX", "tab"} => op = "loadX"
    /\ use \in {"incY", "decY", "draw"} => op = "loadY"
    /\ op = "decX" => use = "testLeft"
    /\ op = "decY" => use = "testTop"

InOrder(t) ==
    \A k \in DOMAIN t :
        /\ \A op \in Needs(t[k]) : Later(t, k, op)
        /\ \A op \in Bars(t[k]) : ~Later(t, k, op)
        /\ k + 1 \in DOMAIN t => Loaded(t[k], t[k + 1])

\* One of the prints in progress, or of those that the i-th interrupted, has one
\* of these accesses to make.
Awaits(ops) == \E j \in DOMAIN calls : \E op \in ops : Has(calls[j].todo, op)
Under(i, ops) == \E j \in DOMAIN calls : j < i /\ \E op \in ops : Has(calls[j].todo, op)

OrderInv == \A i \in DOMAIN calls : InOrder(calls[i].todo)

CursorInv ==
    /\ Pos.x < 0 => Awaits({"testLeft", "lastX"})
    /\ Pos.x >= XChars => Awaits({"testX", "zeroX"})
    /\ Pos.y < 0 => Awaits({"testTop", "lastY"})
    /\ Pos.y >= YChars => Awaits({"testY", "zeroY"})

StaleInv ==
    \A i \in DOMAIN calls :
        calls[i].todo # <<>> /\ calls[i].reg < 0 =>
            /\ Head(calls[i].todo) = "incX" => Under(i, {"testLeft", "lastX"})
            /\ Head(calls[i].todo) = "incY" => Under(i, {"testTop", "lastY"})

LEMMA TailHas ==
    ASSUME NEW t \in Seq(Ops), t # <<>>
    PROVE  /\ Tail(t) \in Seq(Ops) /\ Head(t) \in Ops /\ Head(t) = t[1] /\ 1 \in DOMAIN t
           /\ Len(Tail(t)) = Len(t) - 1 /\ Len(t) \in Nat \ {0}
           /\ \A i \in DOMAIN Tail(t) : i + 1 \in DOMAIN t /\ Tail(t)[i] = t[i + 1]
           /\ \A op : Has(Tail(t), op) <=> Later(t, 1, op)
           /\ \A op : Has(t, op) <=> t[1] = op \/ Has(Tail(t), op)
<1>1. /\ Tail(t) \in Seq(Ops) /\ Head(t) \in Ops /\ Head(t) = t[1]
      /\ Len(Tail(t)) = Len(t) - 1 /\ Len(t) \in Nat \ {0}
      /\ DOMAIN t = 1 .. Len(t) /\ DOMAIN Tail(t) = 1 .. Len(t) - 1
      /\ \A i \in DOMAIN Tail(t) : Tail(t)[i] = t[i + 1]
  <2>1. Tail(t) \in Seq(Ops) /\ Head(t) \in Ops /\ Len(Tail(t)) = Len(t) - 1
    BY HeadTailProperties
  <2>2. \A i \in 1 .. Len(Tail(t)) : Tail(t)[i] = t[i + 1]
    BY HeadTailProperties
  <2>3. Head(t) = t[1] /\ Len(t) \in Nat \ {0}
    OBVIOUS
  <2> QED BY <2>1, <2>2, <2>3
<1>2. \A i \in DOMAIN Tail(t) : i + 1 \in DOMAIN t /\ Tail(t)[i] = t[i + 1]
  BY <1>1
<1>3. ASSUME NEW m \in DOMAIN t, m > 1 PROVE m - 1 \in DOMAIN Tail(t) /\ Tail(t)[m - 1] = t[m]
  BY <1>1, <1>3
<1>4. \A op : Has(Tail(t), op) => Later(t, 1, op)
  BY <1>1, <1>2 DEF Has, Later
<1>5. \A op : Later(t, 1, op) => Has(Tail(t), op)
  BY <1>3 DEF Has, Later
<1>6. \A op : Has(t, op) <=> t[1] = op \/ Later(t, 1, op)
  BY <1>1 DEF Has, Later
<1> QED BY <1>1, <1>2, <1>4, <1>5, <1>6

LEMMA TailInOrder ==
    ASSUME NEW t \in Seq(Ops), t # <<>>, InOrder(t)
    PROVE  /\ InOrder(Tail(t))
           /\ \A op \in Needs(Head(t)) : Has(Tail(t), op)
           /\ \A op \in Bars(Head(t)) : ~Has(Tail(t), op)
           /\ Tail(t) # <<>> => Loaded(Head(t), Head(Tail(t)))
<1> DEFINE u == Tail(t)
<1>1. /\ u \in Seq(Ops) /\ Head(t) = t[1] /\ 1 \in DOMAIN t
      /\ Len(u) = Len(t) - 1 /\ Len(t) \in Nat \ {0}
      /\ \A i \in DOMAIN u : i + 1 \in DOMAIN t /\ u[i] = t[i + 1]
      /\ \A op : Has(u, op) <=> Later(t, 1, op)
  BY TailHas
<1> HIDE DEF u
<1>2. DOMAIN t = 1 .. Len(t) /\ DOMAIN u = 1 .. Len(t) - 1
  BY <1>1
<1>3. ASSUME NEW k \in DOMAIN u, NEW op PROVE Later(u, k, op) <=> Later(t, k + 1, op)
  <2>1. \A m \in DOMAIN t : m > k + 1 => m - 1 \in DOMAIN u /\ m - 1 > k /\ u[m - 1] = t[m]
    BY <1>1, <1>2
  <2>2. \A m \in DOMAIN u : m > k => m + 1 \in DOMAIN t /\ m + 1 > k + 1 /\ u[m] = t[m + 1]
    BY <1>1, <1>2
  <2> QED BY <2>1, <2>2 DEF Later
<1>4. ASSUME NEW k \in DOMAIN u
      PROVE  /\ \A op \in Needs(u[k]) : Later(u, k, op)
             /\ \A op \in Bars(u[k]) : ~Later(u, k, op)
             /\ k + 1 \in DOMAIN u => Loaded(u[k], u[k + 1])
  <2>1. k + 1 \in DOMAIN t /\ u[k] = t[k + 1]
    BY <1>1
  <2>2. k + 1 \in DOMAIN u => k + 1 + 1 \in DOMAIN t /\ u[k + 1] = t[k + 1 + 1]
    BY <1>1
  <2> QED BY <1>3, <2>1, <2>2 DEF InOrder
<1>5. InOrder(u)
  BY <1>4 DEF InOrder
<1>6. u # <<>> => 1 + 1 \in DOMAIN t /\ Head(u) = t[1 + 1]
  BY <1>1, <1>2
<1>7. /\ \A op \in Needs(t[1]) : Later(t, 1, op)
      /\ \A op \in Bars(t[1]) : ~Later(t, 1, op)
      /\ 1 + 1 \in DOMAIN t => Loaded(t[1], t[1 + 1])
  BY <1>1 DEF InOrder
<1> QED BY <1>1, <1>5, <1>6, <1>7 DEF u

\* Accesses that may come before those of u.
Fits(s, u) ==
    /\ \A k \in DOMAIN s :
          /\ \A op \in Needs(s[k]) : Later(s, k, op) \/ Has(u, op)
          /\ \A op \in Bars(s[k]) : ~Later(s, k, op) /\ ~Has(u, op)
          /\ k + 1 \in DOMAIN s => Loaded(s[k], s[k + 1])
          /\ s[k] \in {"decX", "decY"} => k + 1 \in DOMAIN s
    /\ u # <<>> => Head(u) \notin Uses

LEMMA ConcatHas ==
    ASSUME NEW s \in Seq(Ops), NEW u \in Seq(Ops)
    PROVE  /\ s \o u \in Seq(Ops)
           /\ \A op : Has(s \o u, op) <=> Has(s, op) \/ Has(u, op)
           /\ s # <<>> => s \o u # <<>> /\ Head(s \o u) = Head(s)
           /\ s = <<>> => s \o u = u
<1> DEFINE t == s \o u
<1>1. t \in Seq(Ops) /\ Len(t) = Len(s) + Len(u) /\ Len(s) \in Nat /\ Len(u) \in Nat
  BY ConcatProperties
<1>2. \A i \in 1 .. Len(s) + Len(u) : t[i] = IF i <= Len(s) THEN s[i] ELSE u[i - Len(s)]
  BY ConcatProperties
<1>3. s = <<>> => t = u
  BY ConcatEmptySeq
<1> HIDE DEF t
<1>4. /\ \A i \in DOMAIN s : i \in DOMAIN t /\ t[i] = s[i]
      /\ \A i \in DOMAIN u : i + Len(s) \in DOMAIN t /\ t[i + Len(s)] = u[i]
      /\ \A i \in DOMAIN t : \/ i \in DOMAIN s /\ t[i] = s[i]
                             \/ i - Len(s) \in DOMAIN u /\ t[i] = u[i - Len(s)]
  BY <1>1, <1>2
<1>5. \A op : Has(t, op) <=> Has(s, op) \/ Has(u, op)
  BY <1>4 DEF Has
<1>6. s # <<>> => t # <<>> /\ Head(t) = Head(s)
  BY <1>1, <1>4
<1> QED BY <1>1, <1>3, <1>5, <1>6 DEF t

LEMMA ConcatInOrder ==
    ASSUME NEW s \in Seq(Ops), NEW u \in Seq(Ops), InOrder(u), Fits(s, u)
    PROVE  InOrder(s \o u)
<1> DEFINE t == s \o u
           n == Len(s)
<1>1. t \in Seq(Ops) /\ Len(t) = n + Len(u) /\ n \in Nat /\ Len(u) \in Nat
  BY ConcatProperties
<1>2. \A i \in 1 .. n + Len(u) : t[i] = IF i <= n THEN s[i] ELSE u[i - n]
  BY ConcatProperties
<1>3. DOMAIN s = 1 .. n /\ DOMAIN u = 1 .. Len(u)
  OBVIOUS
<1> HIDE DEF t, n
<1>4. /\ \A i \in DOMAIN s : i \in DOMAIN t /\ t[i] = s[i]
      /\ \A i \in DOMAIN u : i + n \in DOMAIN t /\ t[i + n] = u[i]
      /\ \A i \in DOMAIN t : i > n => i - n \in DOMAIN u /\ t[i] = u[i - n]
      /\ DOMAIN t = 1 .. n + Len(u)
  BY <1>1, <1>2, <1>3
<1>5. ASSUME NEW k \in DOMAIN s
      PROVE  /\ \A op \in Needs(t[k]) : Later(t, k, op)
             /\ \A op \in Bars(t[k]) : ~Later(t, k, op)
             /\ k + 1 \in DOMAIN t => Loaded(t[k], t[k + 1])
  <2>1. ASSUME NEW op PROVE Later(t, k, op) <=> Later(s, k, op) \/ Has(u, op)
    <3>1. ASSUME Later(t, k, op) PROVE Later(s, k, op) \/ Has(u, op)
      <4>1. PICK m \in DOMAIN t : m > k /\ t[m] = op
        BY <3>1 DEF Later
      <4>2. CASE m <= n
        BY <1>3, <1>4, <4>1, <4>2 DEF Later
      <4>3. CASE m > n
        BY <1>4, <4>1, <4>3 DEF Has
      <4> QED BY <1>1, <1>4, <4>2, <4>3
    <3>2. ASSUME Later(s, k, op) PROVE Later(t, k, op)
      BY <1>4, <3>2 DEF Later
    <3>3. ASSUME Has(u, op) PROVE Later(t, k, op)
      <4>1. PICK m \in DOMAIN u : u[m] = op
        BY <3>3 DEF Has
      <4>2. m + n \in DOMAIN t /\ t[m + n] = op /\ m + n > k
        BY <1>1, <1>3, <1>4, <4>1
      <4> QED BY <4>2 DEF Later
    <3> QED BY <3>1, <3>2, <3>3
  <2>2. t[k] = s[k]
    BY <1>4
  <2>3. /\ \A op \in Needs(s[k]) : Later(s, k, op) \/ Has(u, op)
        /\ \A op \in Bars(s[k]) : ~Later(s, k, op) /\ ~Has(u, op)
        /\ k + 1 \in DOMAIN s => Loaded(s[k], s[k + 1])
        /\ s[k] \in {"decX", "decY"} => k + 1 \in DOMAIN s
        /\ u # <<>> => Head(u) \notin Uses
    BY DEF Fits
  <2>4. k + 1 \in DOMAIN t => \/ k + 1 \in DOMAIN s /\ t[k + 1] = s[k + 1]
                              \/ u # <<>> /\ t[k + 1] = Head(u)
    <3>1. CASE k + 1 <= n
      BY <1>1, <1>3, <1>4, <3>1
    <3>2. CASE k + 1 > n /\ k + 1 \in DOMAIN t
      <4>1. k = n /\ 1 \in DOMAIN u /\ t[k + 1] = u[1]
        BY <1>1, <1>3, <1>4, <3>2
      <4> QED BY <4>1
    <3> QED BY <1>1, <1>3, <3>1, <3>2
  <2>5. k + 1 \in DOMAIN t => Loaded(t[k], t[k + 1])
    <3>1. CASE k + 1 \in DOMAIN s
      BY <1>4, <2>2, <2>3, <3>1
    <3>2. CASE k + 1 \notin DOMAIN s
      BY <2>2, <2>3, <2>4, <3>2 DEF Loaded, Uses
    <3> QED BY <3>1, <3>2
  <2>6. /\ \A op \in Needs(t[k]) : Later(t, k, op)
        /\ \A op \in Bars(t[k]) : ~Later(t, k, op)
    BY <2>1, <2>2, <2>3
  <2> QED BY <2>5, <2>6
<1>6. ASSUME NEW k \in DOMAIN t, k > n
      PROVE  /\ \A op \in Needs(t[k]) : Later(t, k, op)
             /\ \A op \in Bars(t[k]) : ~Later(t, k, op)
             /\ k + 1 \in DOMAIN t => Loaded(t[k], t[k + 1])
  <2>1. k - n \in DOMAIN u /\ t[k] = u[k - n]
    BY <1>4, <1>6
  <2>2. ASSUME NEW op PROVE Later(t, k, op) <=> Later(u, k - n, op)
    <3>1. \A m \in DOMAIN t : m > k => m - n \in DOMAIN u /\ m - n > k - n /\ t[m] = u[m - n]
      BY <1>1, <1>4, <1>6
    <3>2. \A m \in DOMAIN u : m > k - n => m + n \in DOMAIN t /\ m + n > k /\ t[m + n] = u[m]
      BY <1>1, <1>3, <1>4
    <3> QED BY <3>1, <3>2 DEF Later
  <2>3. k + 1 \in DOMAIN t => (k - n) + 1 \in DOMAIN u /\ t[k + 1] = u[(k - n) + 1]
    BY <1>1, <1>3, <1>4, <1>6
  <2> QED BY <2>1, <2>2, <2>3 DEF InOrder
<1>7. \A k \in DOMAIN t : k \in DOMAIN s \/ k > n
  BY <1>1, <1>3, <1>4
<1>8. InOrder(t)
  BY <1>5, <1>6, <1>7 DEF InOrder
<1> QED BY <1>8 DEF t

LEMMA CharOpsInOrder ==
    \A c : InOrder(CharOps(c)) /\ CharOps(c) # <<>> /\ Head(CharOps(c)) \notin Uses
<1> TAKE c
<1>1. \/ CharOps(c) = <<"loadY", "incY", "zeroX", "testX", "testY">>
      \/ CharOps(c) = <<"loadX", "decX", "testLeft", "loadY", "draw", "testX", "testY">>
      \/ CharOps(c) = <<"loadX", "tab", "turn", "testX", "testY">>
      \/ CharOps(c) = <<"loadY", "draw", "loadX", "incX", "testX", "testY">>
  BY DEF CharOps
<1>2. ASSUME CharOps(c) = <<"loadY", "incY", "zeroX", "testX", "testY">>
      PROVE  InOrder(CharOps(c))
  BY <1>2 DEF InOrder, Needs, Bars, Later, Loaded
<1>3. ASSUME CharOps(c) = <<"loadX", "decX", "testLeft", "loadY", "draw", "testX", "testY">>
      PROVE  InOrder(CharOps(c))
  BY <1>3 DEF InOrder, Needs, Bars, Later, Loaded
<1>4. ASSUME CharOps(c) = <<"loadX", "tab", "turn", "testX", "testY">>
      PROVE  InOrder(CharOps(c))
  BY <1>4 DEF InOrder, Needs, Bars, Later, Loaded
<1>5. ASSUME CharOps(c) = <<"loadY", "draw", "loadX", "incX", "testX", "testY">>
      PROVE  InOrder(CharOps(c))
  BY <1>5 DEF InOrder, Needs, Bars, Later, Loaded
<1> QED BY <1>1, <1>2, <1>3, <1>4, <1>5 DEF Uses

\* What an access leaves to make is again in order.
LEMMA OutcomeInOrder ==
    ASSUME Typed, calls # <<>>, Me.todo # <<>>, InOrder(Me.todo), NEW ops \in Seq(Ops),
           NEW r, NEW m, Outcome(Head(Me.todo), ops, r, m)
    PROVE  InOrder(ops \o Tail(Me.todo))
<1> DEFINE op == Head(Me.todo)
           u == Tail(Me.todo)
<1>1. Me.todo \in Seq(Ops)
  BY TopFrame DEF FrameType
<1>2. /\ u \in Seq(Ops) /\ op \in Ops /\ InOrder(u)
      /\ \A o \in Needs(op) : Has(u, o)
      /\ \A o \in Bars(op) : ~Has(u, o)
      /\ u # <<>> => Loaded(op, Head(u))
  BY <1>1, TailHas, TailInOrder
<1>3. Outcome(op, ops, r, m)
  OBVIOUS
<1> HIDE DEF op, u
<1>4. CASE ops = <<>>
  BY <1>2, <1>4, ConcatHas DEF u
<1>5. CASE op = "turn" /\ ops = TurnOps
  <2>1. /\ Has(u, "testX") /\ ~Has(u, "testLeft") /\ ~Has(u, "lastX") /\ ~Has(u, "tab")
        /\ ~Has(u, "incX") /\ ~Has(u, "turn")
        /\ u # <<>> => Head(u) \notin Uses
    BY <1>2, <1>5 DEF Needs, Bars, Uses, Loaded
  <2>2. Fits(ops, u)
    BY <1>5, <2>1 DEF TurnOps, Fits, Needs, Bars, Later, Loaded, Uses
  <2> QED BY <1>2, <2>2, ConcatInOrder DEF u
<1>6. CASE op = "testX" /\ ops = <<"loadY", "incY", "zeroX">>
  <2>1. /\ Has(u, "testY") /\ ~Has(u, "testTop") /\ ~Has(u, "lastY") /\ ~Has(u, "incY")
        /\ u # <<>> => Head(u) \notin Uses
    BY <1>2, <1>6 DEF Needs, Bars, Uses, Loaded
  <2>2. Fits(ops, u)
    BY <1>6, <2>1 DEF Fits, Needs, Bars, Later, Loaded, Uses
  <2> QED BY <1>2, <2>2, ConcatInOrder DEF u
<1>7. CASE op = "testY" /\ ops = <<"zeroY">>
  <2>1. u # <<>> => Head(u) \notin Uses
    BY <1>2, <1>7 DEF Uses, Loaded
  <2>2. Fits(ops, u)
    BY <1>7, <2>1 DEF Fits, Needs, Bars
  <2> QED BY <1>2, <2>2, ConcatInOrder DEF u
<1>8. CASE op = "testLeft" /\ ops = <<"lastX", "loadY", "decY", "testTop">>
  <2>1. /\ Has(u, "testX") /\ Has(u, "testY") /\ ~Has(u, "tab") /\ ~Has(u, "incX")
        /\ u # <<>> => Head(u) \notin Uses
    BY <1>2, <1>8 DEF Needs, Bars, Uses, Loaded
  <2>3. ~Has(u, "turn")
    BY <1>2, <1>8 DEF Bars
  <2>2. Fits(ops, u)
    BY <1>8, <2>1, <2>3 DEF Fits, Needs, Bars, Later, Loaded, Uses
  <2> QED BY <1>2, <2>2, ConcatInOrder DEF u
<1>9. CASE op = "testTop" /\ ops = <<"lastY">>
  <2>1. /\ Has(u, "testY")
        /\ u # <<>> => Head(u) \notin Uses
    BY <1>2, <1>9 DEF Needs, Uses, Loaded
  <2>2. Fits(ops, u)
    BY <1>9, <2>1 DEF Fits, Needs, Bars
  <2> QED BY <1>2, <2>2, ConcatInOrder DEF u
<1> QED BY <1>2, <1>3, <1>4, <1>5, <1>6, <1>7, <1>8, <1>9, OutcomeOps

\* The use of a register is first only when the load before it is done.
LEMMA UseIsLoaded ==
    ASSUME Typed, calls # <<>>, Me.todo # <<>>, InOrder(Me.todo), NEW ops \in Seq(Ops),
           NEW r, NEW m, Outcome(Head(Me.todo), ops, r, m),
           ops \o Tail(Me.todo) # <<>>, Head(ops \o Tail(Me.todo)) \in Uses
    PROVE  /\ ops \o Tail(Me.todo) = Tail(Me.todo)
           /\ Head(ops \o Tail(Me.todo)) \in {"incX", "decX", "tab"} => Head(Me.todo) = "loadX"
           /\ Head(ops \o Tail(Me.todo)) \in {"incY", "decY", "draw"} => Head(Me.todo) = "loadY"
<1> DEFINE op == Head(Me.todo)
           u == Tail(Me.todo)
           t == ops \o u
<1>1. Me.todo \in Seq(Ops)
  BY TopFrame DEF FrameType
<1>2. u \in Seq(Ops) /\ op \in Ops /\ (u # <<>> => Loaded(op, Head(u)))
  BY <1>1, TailHas, TailInOrder
<1>3. Outcome(op, ops, r, m) /\ t # <<>> /\ Head(t) \in Uses
  OBVIOUS
<1> HIDE DEF op, u
<1>4. /\ ops # <<>> => Head(t) = Head(ops)
      /\ ops = <<>> => t = u
  BY <1>2, ConcatHas
<1> HIDE DEF t
<1>5. ops = <<>>
  <2> SUFFICES ASSUME ops # <<>> PROVE Head(ops) \notin Uses
    BY <1>3, <1>4
  <2>1. \/ ops = TurnOps
        \/ ops = <<"loadY", "incY", "zeroX">> \/ ops = <<"zeroY">>
        \/ ops = <<"lastX", "loadY", "decY", "testTop">> \/ ops = <<"lastY">>
    BY <1>2, <1>3, OutcomeOps
  <2> QED BY <2>1 DEF Uses, TurnOps
<1>6. t = u /\ u # <<>> /\ Loaded(op, Head(u))
  BY <1>2, <1>3, <1>4, <1>5
<1> QED BY <1>6 DEF Loaded, t, op, u

Sound == Typed /\ OrderInv /\ CursorInv /\ StaleInv

\* Who else has an access to make does not change while the innermost print moves.
LEMMA AwaitsKept ==
    ASSUME Typed, calls # <<>>, NEW f \in FrameType, Update(f), NEW S
    PROVE  /\ (\E op \in S : Has(f.todo, op)) => Awaits(S)'
           /\ Under(Depth, S) => Awaits(S)'
           /\ Awaits(S) /\ (\A op \in S : Has(Me.todo, op) => Has(f.todo, op)) => Awaits(S)'
           /\ \A i \in DOMAIN calls : Under(i, S)' <=> Under(i, S)
<1>1. /\ DOMAIN calls' = DOMAIN calls /\ calls'[Depth] = f /\ DOMAIN calls = 1 .. Depth
      /\ \A i \in DOMAIN calls \ {Depth} : calls'[i] = calls[i]
      /\ Depth \in DOMAIN calls /\ Depth \in Nat
  BY TopFrame, Updated
<1> HIDE DEF Depth
<1>2. (\E op \in S : Has(f.todo, op)) => Awaits(S)'
  BY <1>1 DEF Awaits
<1>3. \A j \in DOMAIN calls : j < Depth => j \in DOMAIN calls \ {Depth} /\ calls'[j] = calls[j]
  BY <1>1
<1>4. Under(Depth, S) => Awaits(S)'
  BY <1>1, <1>3 DEF Awaits, Under
<1>5. \A i \in DOMAIN calls : Under(i, S)' <=> Under(i, S)
  <2> TAKE i \in DOMAIN calls
  <2>1. \A j \in DOMAIN calls : j < i => calls'[j] = calls[j]
    BY <1>1, <1>3
  <2> QED BY <1>1, <2>1 DEF Under
<1>6. ASSUME Awaits(S), \A op \in S : Has(Me.todo, op) => Has(f.todo, op) PROVE Awaits(S)'
  <2>1. PICK j \in DOMAIN calls : \E op \in S : Has(calls[j].todo, op)
    BY <1>6 DEF Awaits
  <2>2. CASE j = Depth
    BY <1>1, <1>6, <2>1, <2>2 DEF Awaits, Me
  <2>3. CASE j # Depth
    BY <1>1, <2>1, <2>3 DEF Awaits
  <2> QED BY <2>2, <2>3
<1> QED BY <1>2, <1>4, <1>5, <1>6

\* Every step of the innermost print that makes no access.
LEMMA QuietSound ==
    ASSUME Sound, calls # <<>>, NEW f \in FrameType, Update(f), Typed', UNCHANGED Pos,
           f.reg = Me.reg, InOrder(f.todo),
           \/ f.todo = Me.todo
           \/ Me.todo = <<>> /\ f.todo # <<>> /\ Head(f.todo) \notin Uses
    PROVE  Sound'
<1>1. Typed /\ OrderInv /\ CursorInv /\ StaleInv
  BY DEF Sound
<1>2. /\ DOMAIN calls' = DOMAIN calls /\ calls'[Depth] = f
      /\ \A i \in DOMAIN calls \ {Depth} : calls'[i] = calls[i]
      /\ Depth \in DOMAIN calls
  BY <1>1, TopFrame, Updated
<1> HIDE DEF Depth
<1>3. \A op : Has(Me.todo, op) => Has(f.todo, op)
  BY DEF Has
<1>4. \A S : Awaits(S) => Awaits(S)'
  BY <1>1, <1>3, AwaitsKept
<1>5. CursorInv'
  BY <1>1, <1>4 DEF CursorInv
<1>6. \A S : \A i \in DOMAIN calls : Under(i, S)' <=> Under(i, S)
  BY <1>1, AwaitsKept
<1>7. OrderInv'
  BY <1>1, <1>2 DEF OrderInv
<1>8. ASSUME NEW i \in DOMAIN calls', calls'[i].todo # <<>>, calls'[i].reg < 0
      PROVE  /\ Head(calls'[i].todo) = "incX" => Under(i, {"testLeft", "lastX"})'
             /\ Head(calls'[i].todo) = "incY" => Under(i, {"testTop", "lastY"})'
  <2>1. i \in DOMAIN calls
    BY <1>2
  <2>2. CASE i = Depth /\ f.todo # Me.todo
    BY <1>2, <2>2 DEF Uses
  <2>3. CASE i # Depth \/ f.todo = Me.todo
    <3>1. calls'[i].todo = calls[i].todo /\ calls'[i].reg = calls[i].reg
      BY <1>2, <2>1, <2>3 DEF Me
    <3>2. /\ Head(calls[i].todo) = "incX" => Under(i, {"testLeft", "lastX"})
          /\ Head(calls[i].todo) = "incY" => Under(i, {"testTop", "lastY"})
      BY <1>1, <1>8, <2>1, <3>1 DEF StaleInv
    <3> QED BY <1>6, <2>1, <3>1, <3>2
  <2> QED BY <2>2, <2>3
<1>9. StaleInv'
  BY <1>8 DEF StaleInv
<1> QED BY <1>5, <1>7, <1>9 DEF Sound

LEMMA AccessSound ==
    ASSUME Sound, Access, Typed'
    PROVE  Sound'
<1>1. Typed /\ OrderInv /\ CursorInv /\ StaleInv
  BY DEF Sound
<1>2. calls # <<>> /\ Me.todo # <<>> /\ Pos' = NextPos(Head(Me.todo))
  BY <1>1, AccessIs
<1>3. PICK ops, r, m : Update(Moved(ops, r, m)) /\ Outcome(Head(Me.todo), ops, r, m)
  BY <1>1, AccessIs
<1> DEFINE op == Head(Me.todo)
           u == Tail(Me.todo)
           f == Moved(ops, r, m)
<1>4. /\ Me.todo \in Seq(Ops) /\ Me.reg \in Int /\ Depth \in DOMAIN calls /\ DOMAIN calls = 1 .. Depth
      /\ Pos \in [x : Int, y : Int] /\ Pos.x \in Int /\ Pos.y \in Int
  BY <1>1, <1>2, TopFrame DEF FrameType, Typed
<1>5. InOrder(Me.todo)
  BY <1>1, <1>4 DEF OrderInv, Me
<1>6. /\ u \in Seq(Ops) /\ op \in Ops
      /\ \A o : Has(u, o) <=> Later(Me.todo, 1, o)
      /\ \A o : Has(Me.todo, o) <=> op = o \/ Has(u, o)
  BY <1>2, <1>4, TailHas
<1>7. /\ \A o \in Needs(op) : Has(u, o)
      /\ \A o \in Bars(op) : ~Has(u, o)
      /\ u # <<>> => Loaded(op, Head(u))
      /\ InOrder(u)
  BY <1>2, <1>4, <1>5, TailInOrder
<1>8. ops \in Seq(Ops) /\ r \in Int /\ m \in Int
  BY <1>1, <1>2, <1>3, <1>6, OutcomeTyped
<1>9. /\ f \in FrameType /\ f.todo = ops \o u /\ f.reg = r
      /\ InOrder(f.todo)
  BY <1>1, <1>2, <1>3, <1>5, <1>8, MovedFrame, OutcomeInOrder
<1>10. /\ \A o : Has(f.todo, o) <=> Has(ops, o) \/ Has(u, o)
       /\ ops # <<>> => f.todo # <<>> /\ Head(f.todo) = Head(ops)
       /\ ops = <<>> => f.todo = u
  <2> HIDE DEF f, u
  <2>1. /\ \A o : Has(ops \o u, o) <=> Has(ops, o) \/ Has(u, o)
        /\ ops # <<>> => ops \o u # <<>> /\ Head(ops \o u) = Head(ops)
        /\ ops = <<>> => ops \o u = u
    BY <1>6, <1>8, ConcatHas
  <2> QED BY <1>9, <2>1
<1>11. Update(f) /\ Outcome(op, ops, r, m) /\ Pos' = NextPos(op)
  BY <1>2, <1>3
<1> HIDE DEF op, u, f, Depth
<1>12. /\ DOMAIN calls' = DOMAIN calls /\ calls'[Depth] = f
       /\ \A i \in DOMAIN calls \ {Depth} : calls'[i] = calls[i]
  BY <1>1, <1>2, <1>9, <1>11, Updated
<1>13. OrderInv'
  BY <1>1, <1>9, <1>12 DEF OrderInv
<1>14. ASSUME NEW S
       PROVE  /\ \A o \in S : Has(u, o) \/ Has(ops, o) => Awaits(S)'
              /\ Under(Depth, S) => Awaits(S)'
              /\ Awaits(S) /\ op \notin S => Awaits(S)'
              /\ \A i \in DOMAIN calls : Under(i, S)' <=> Under(i, S)
  <2>1. /\ (\E o \in S : Has(f.todo, o)) => Awaits(S)'
        /\ Under(Depth, S) => Awaits(S)'
        /\ Awaits(S) /\ (\A o \in S : Has(Me.todo, o) => Has(f.todo, o)) => Awaits(S)'
        /\ \A i \in DOMAIN calls : Under(i, S)' <=> Under(i, S)
    BY <1>1, <1>2, <1>9, <1>11, AwaitsKept
  <2>2. op \notin S => \A o \in S : Has(Me.todo, o) => Has(f.todo, o)
    BY <1>6, <1>10
  <2> QED BY <1>10, <2>1, <2>2
<1>15. Me.reg < 0 => /\ op = "incX" => Under(Depth, {"testLeft", "lastX"})
                     /\ op = "incY" => Under(Depth, {"testTop", "lastY"})
  BY <1>1, <1>2, <1>4 DEF StaleInv, Me, op
<1>16. LastX \in Nat /\ LastY \in Nat /\ XChars \in Nat \ {0} /\ YChars \in Nat \ {0}
  BY Constants
<1>17. Pos'.x < 0 => Awaits({"testLeft", "lastX"})'
  <2> SUFFICES ASSUME Pos'.x < 0 PROVE Awaits({"testLeft", "lastX"})'
    OBVIOUS
  <2>1. CASE op = "incX"
    <3>1. Pos'.x = Me.reg + 1
      BY <1>4, <1>11, <2>1 DEF NextPos
    <3> QED BY <1>4, <1>14, <1>15, <2>1, <3>1
  <2>2. CASE op = "decX"
    BY <1>7, <1>14, <2>2 DEF Needs
  <2>3. CASE op = "zeroX" \/ op = "lastX"
    <3>1. Pos'.x = 0 \/ Pos'.x = LastX
      BY <1>4, <1>11, <2>3 DEF NextPos
    <3> QED BY <1>16, <3>1
  <2>4. CASE op \notin {"incX", "decX", "zeroX", "lastX"}
    <3>1. Pos'.x = Pos.x
      BY <1>4, <1>11, <2>4 DEF NextPos
    <3>2. CASE op = "testLeft"
      <4>1. ops = <<"lastX", "loadY", "decY", "testTop">>
        BY <1>11, <3>1, <3>2 DEF Outcome
      <4>2. Has(ops, "lastX")
        BY <4>1 DEF Has
      <4> QED BY <1>14, <4>2
    <3>3. CASE op # "testLeft"
      BY <1>1, <1>14, <2>4, <3>1, <3>3 DEF CursorInv
    <3> QED BY <3>2, <3>3
  <2> QED BY <2>1, <2>2, <2>3, <2>4
<1>18. Pos'.x >= XChars => Awaits({"testX", "zeroX"})'
  <2> SUFFICES ASSUME Pos'.x >= XChars PROVE Awaits({"testX", "zeroX"})'
    OBVIOUS
  <2>1. CASE op \in {"incX", "decX", "lastX"}
    BY <1>7, <1>14, <2>1 DEF Needs
  <2>2. CASE op = "zeroX"
    <3>1. Pos'.x = 0
      BY <1>4, <1>11, <2>2 DEF NextPos
    <3> QED BY <1>16, <3>1
  <2>3. CASE op \notin {"incX", "decX", "zeroX", "lastX"}
    <3>1. Pos'.x = Pos.x
      BY <1>4, <1>11, <2>3 DEF NextPos
    <3>2. CASE op = "testX"
      <4>1. ops = <<"loadY", "incY", "zeroX">>
        BY <1>11, <3>1, <3>2 DEF Outcome
      <4>2. Has(ops, "zeroX")
        BY <4>1 DEF Has
      <4> QED BY <1>14, <4>2
    <3>3. CASE op # "testX"
      BY <1>1, <1>14, <2>3, <3>1, <3>3 DEF CursorInv
    <3> QED BY <3>2, <3>3
  <2> QED BY <2>1, <2>2, <2>3
<1>19. Pos'.y < 0 => Awaits({"testTop", "lastY"})'
  <2> SUFFICES ASSUME Pos'.y < 0 PROVE Awaits({"testTop", "lastY"})'
    OBVIOUS
  <2>1. CASE op = "incY"
    <3>1. Pos'.y = Me.reg + 1
      BY <1>4, <1>11, <2>1 DEF NextPos
    <3> QED BY <1>4, <1>14, <1>15, <2>1, <3>1
  <2>2. CASE op = "decY"
    BY <1>7, <1>14, <2>2 DEF Needs
  <2>3. CASE op = "zeroY" \/ op = "lastY"
    <3>1. Pos'.y = 0 \/ Pos'.y = LastY
      BY <1>4, <1>11, <2>3 DEF NextPos
    <3> QED BY <1>16, <3>1
  <2>4. CASE op \notin {"incY", "decY", "zeroY", "lastY"}
    <3>1. Pos'.y = Pos.y
      BY <1>4, <1>11, <2>4 DEF NextPos
    <3>2. CASE op = "testTop"
      <4>1. ops = <<"lastY">>
        BY <1>11, <3>1, <3>2 DEF Outcome
      <4>2. Has(ops, "lastY")
        BY <4>1 DEF Has
      <4> QED BY <1>14, <4>2
    <3>3. CASE op # "testTop"
      BY <1>1, <1>14, <2>4, <3>1, <3>3 DEF CursorInv
    <3> QED BY <3>2, <3>3
  <2> QED BY <2>1, <2>2, <2>3, <2>4
<1>20. Pos'.y >= YChars => Awaits({"testY", "zeroY"})'
  <2> SUFFICES ASSUME Pos'.y >= YChars PROVE Awaits({"testY", "zeroY"})'
    OBVIOUS
  <2>1. CASE op \in {"incY", "decY", "lastY"}
    BY <1>7, <1>14, <2>1 DEF Needs
  <2>2. CASE op = "zeroY"
    <3>1. Pos'.y = 0
      BY <1>4, <1>11, <2>2 DEF NextPos
    <3> QED BY <1>16, <3>1
  <2>3. CASE op \notin {"incY", "decY", "zeroY", "lastY"}
    <3>1. Pos'.y = Pos.y
      BY <1>4, <1>11, <2>3 DEF NextPos
    <3>2. CASE op = "testY"
      <4>1. ops = <<"zeroY">>
        BY <1>11, <3>1, <3>2 DEF Outcome
      <4>2. Has(ops, "zeroY")
        BY <4>1 DEF Has
      <4> QED BY <1>14, <4>2
    <3>3. CASE op # "testY"
      BY <1>1, <1>14, <2>3, <3>1, <3>3 DEF CursorInv
    <3> QED BY <3>2, <3>3
  <2> QED BY <2>1, <2>2, <2>3
<1>21. CursorInv'
  BY <1>17, <1>18, <1>19, <1>20 DEF CursorInv
\* A register is loaded from a cursor that some other print still has to test.
<1>22. ASSUME f.todo # <<>>, Head(f.todo) \in {"incX", "incY"}
       PROVE  u # <<>> /\ Head(u) = Head(f.todo)
  <2>1. ops \o u # <<>> /\ Head(ops \o u) \in Uses
    BY <1>9, <1>22 DEF Uses
  <2>2. ops \o u = u
    BY <1>1, <1>2, <1>5, <1>8, <1>11, <2>1, UseIsLoaded DEF op, u
  <2> QED BY <1>9, <1>22, <2>2
<1>23. ASSUME NEW S, Awaits(S), "incX" \notin S, "incY" \notin S, op \notin S,
              u # <<>>, \A o \in S : ~Later(u, 1, o), Head(u) \in {"incX", "incY"}
       PROVE  Under(Depth, S)
  <2>1. PICK j \in DOMAIN calls : \E o \in S : Has(calls[j].todo, o)
    BY <1>23 DEF Awaits
  <2>2. j # Depth
    <3> SUFFICES ASSUME j = Depth PROVE FALSE
      OBVIOUS
    <3>1. PICK o \in S : Has(u, o)
      BY <1>6, <1>23, <2>1 DEF Me
    <3>2. Has(u, o) <=> u[1] = o \/ Later(u, 1, o)
      BY <1>6, <1>23, TailHas
    <3> QED BY <1>6, <1>23, <3>1, <3>2, TailHas
  <2>3. j < Depth
    BY <1>4, <2>2
  <2> QED BY <2>1, <2>3 DEF Under
<1>24. ASSUME f.todo # <<>>, f.reg < 0
       PROVE  /\ Head(f.todo) = "incX" => Under(Depth, {"testLeft", "lastX"})
              /\ Head(f.todo) = "incY" => Under(Depth, {"testTop", "lastY"})
  <2>1. u # <<>> => Head(u) = u[1] /\ 1 \in DOMAIN u
    BY <1>6, TailHas
  <2>2. ASSUME Head(f.todo) = "incX" PROVE Under(Depth, {"testLeft", "lastX"})
    <3>1. u # <<>> /\ Head(u) = "incX" /\ op = "loadX"
      BY <1>7, <1>22, <1>24, <2>2 DEF Loaded
    <3>2. r = Pos.x
      BY <1>11, <3>1 DEF Outcome
    <3>3. Awaits({"testLeft", "lastX"})
      BY <1>1, <1>9, <1>24, <3>2 DEF CursorInv
    <3>4. \A o \in {"testLeft", "lastX"} : ~Later(u, 1, o)
      BY <1>7, <2>1, <3>1 DEF InOrder, Bars
    <3> QED BY <1>23, <3>1, <3>3, <3>4
  <2>3. ASSUME Head(f.todo) = "incY" PROVE Under(Depth, {"testTop", "lastY"})
    <3>1. u # <<>> /\ Head(u) = "incY" /\ op = "loadY"
      BY <1>7, <1>22, <1>24, <2>3 DEF Loaded
    <3>2. r = Pos.y
      BY <1>11, <3>1 DEF Outcome
    <3>3. Awaits({"testTop", "lastY"})
      BY <1>1, <1>9, <1>24, <3>2 DEF CursorInv
    <3>4. \A o \in {"testTop", "lastY"} : ~Later(u, 1, o)
      BY <1>7, <2>1, <3>1 DEF InOrder, Bars
    <3> QED BY <1>23, <3>1, <3>3, <3>4
  <2> QED BY <2>2, <2>3
<1>25. StaleInv'
  <2>1. ASSUME NEW i \in DOMAIN calls', calls'[i].todo # <<>>, calls'[i].reg < 0
        PROVE  /\ Head(calls'[i].todo) = "incX" => Under(i, {"testLeft", "lastX"})'
               /\ Head(calls'[i].todo) = "incY" => Under(i, {"testTop", "lastY"})'
    <3>1. i \in DOMAIN calls
      BY <1>12
    <3>2. CASE i = Depth
      BY <1>12, <1>14, <1>24, <2>1, <3>1, <3>2
    <3>3. CASE i # Depth
      <4>1. calls'[i] = calls[i]
        BY <1>12, <3>1, <3>3
      <4>2. /\ Head(calls[i].todo) = "incX" => Under(i, {"testLeft", "lastX"})
            /\ Head(calls[i].todo) = "incY" => Under(i, {"testTop", "lastY"})
        BY <1>1, <2>1, <3>1, <4>1 DEF StaleInv
      <4> QED BY <1>14, <3>1, <4>1, <4>2
    <3> QED BY <3>2, <3>3
  <2> QED BY <2>1 DEF StaleInv
<1> QED BY <1>13, <1>21, <1>25 DEF Sound

\* A print begins, with nothing left to make, on top of the others.
LEMMA PushSound ==
    ASSUME Sound, Typed', UNCHANGED Pos, Len(calls') = Depth + 1, calls'[Depth + 1].todo = <<>>,
           \A i \in DOMAIN calls : calls'[i].todo = calls[i].todo /\ calls'[i].reg = calls[i].reg
    PROVE  Sound'
<1>1. Typed /\ OrderInv /\ CursorInv /\ StaleInv
  BY DEF Sound
<1>2. Depth \in Nat /\ DOMAIN calls = 1 .. Depth /\ DOMAIN calls' = 1 .. Depth + 1
  BY <1>1 DEF Typed, Depth
<1> HIDE DEF Depth
<1>3. \A S : Awaits(S) => Awaits(S)'
  BY <1>2 DEF Awaits
<1>4. \A S : \A i \in DOMAIN calls : Under(i, S) => Under(i, S)'
  BY <1>2 DEF Under
<1>5. \A i \in DOMAIN calls' : calls'[i].todo # <<>> => i \in DOMAIN calls
  BY <1>2
<1>6. CursorInv'
  BY <1>1, <1>3 DEF CursorInv
<1>7. OrderInv'
  <2>1. InOrder(<<>>)
    BY DEF InOrder
  <2> QED BY <1>1, <1>2, <1>5, <2>1 DEF OrderInv
<1>8. StaleInv'
  BY <1>1, <1>4, <1>5 DEF StaleInv
<1> QED BY <1>6, <1>7, <1>8 DEF Sound

LEMMA ReturnSound ==
    ASSUME Sound, Return, Typed'
    PROVE  Sound'
<1>1. Typed /\ OrderInv /\ CursorInv /\ StaleInv
  BY DEF Sound
<1>2. /\ calls # <<>> /\ Me.todo = <<>> /\ UNCHANGED Pos
      /\ \/ Update([Me EXCEPT !.pc = "loop"])
         \/ /\ calls' \in Seq(FrameType) /\ Len(calls') = Depth - 1
            /\ DOMAIN calls' = 1 .. Depth - 1
            /\ \A i \in 1 .. Depth - 1 : calls'[i] = calls[i]
  BY <1>1, ReturnIs
<1>3. Me \in FrameType /\ Depth \in Nat \ {0} /\ DOMAIN calls = 1 .. Depth /\ Depth \in DOMAIN calls
  BY <1>1, <1>2, TopFrame
<1>4. CASE Update([Me EXCEPT !.pc = "loop"])
  <2> DEFINE f == [Me EXCEPT !.pc = "loop"]
  <2>1. f \in FrameType /\ f.todo = Me.todo /\ f.reg = Me.reg
    BY <1>3 DEF FrameType
  <2>2. InOrder(f.todo)
    BY <1>1, <1>3, <2>1 DEF OrderInv, Me
  <2>3. Update(f)
    BY <1>4
  <2> HIDE DEF f
  <2> QED BY <1>2, <2>1, <2>2, <2>3, QuietSound
<1>5. CASE /\ Len(calls') = Depth - 1 /\ DOMAIN calls' = 1 .. Depth - 1
           /\ \A i \in 1 .. Depth - 1 : calls'[i] = calls[i]
  <2>0. Me = calls[Depth]
    BY DEF Me
  <2> HIDE DEF Depth, Me
  <2>1. \A i \in DOMAIN calls' : i \in DOMAIN calls /\ calls'[i] = calls[i]
    BY <1>3, <1>5
  <2>2. \A i \in DOMAIN calls : i \in DOMAIN calls' \/ i = Depth
    BY <1>3, <1>5
  <2>3. \A op : ~Has(calls[Depth].todo, op)
    BY <1>2, <2>0 DEF Has
  <2>4. \A S : Awaits(S) => Awaits(S)'
    BY <2>1, <2>2, <2>3 DEF Awaits
  <2>5. \A S : \A i \in DOMAIN calls : Under(i, S) => Under(i, S)'
    BY <2>1, <2>2, <2>3 DEF Under
  <2>6. CursorInv'
    BY <1>1, <1>2, <2>4 DEF CursorInv
  <2>7. OrderInv'
    BY <1>1, <2>1 DEF OrderInv
  <2>8. StaleInv'
    BY <1>1, <2>1, <2>5 DEF StaleInv
  <2> QED BY <2>6, <2>7, <2>8 DEF Sound
<1> QED BY <1>2, <1>4, <1>5

LEMMA BeginSound ==
    ASSUME Sound, Typed', Call \/ \E who \in {"trap", "IRQ"} : Handler(who)
    PROVE  Sound'
<1>1. Typed
  BY DEF Sound
<1>2. calls \in Seq(FrameType) /\ Depth = Len(calls) /\ DOMAIN calls = 1 .. Depth /\ Depth \in Nat
  BY <1>1 DEF Typed, Depth
<1>3. CASE Call
  <2>1. calls = <<>> /\ UNCHANGED Pos /\ calls' = <<Frame("kernel", Head(script.prints))>>
    BY <1>3 DEF Call
  <2>2. Len(calls') = Depth + 1 /\ calls'[Depth + 1] = Frame("kernel", Head(script.prints))
    BY <2>1 DEF Depth
  <2>3. calls'[Depth + 1].todo = <<>>
    BY <2>2 DEF Frame
  <2>4. DOMAIN calls = {}
    BY <2>1
  <2> QED BY <2>1, <2>2, <2>3, <2>4, PushSound
<1>4. ASSUME NEW who \in {"trap", "IRQ"}, Handler(who) PROVE Sound'
  <2>1. PICK call \in HandlerCalls : calls' = Append(Interrupted(call), Frame(who, call))
    BY <1>4 DEF Handler, Interrupted
  <2>0. call \in Prints
    BY DEF Prints
  <2> DEFINE lower == Interrupted(call)
  <2>2. /\ lower \in Seq(FrameType) /\ Len(lower) = Depth
        /\ \A i \in DOMAIN lower : lower[i].todo = calls[i].todo /\ lower[i].reg = calls[i].reg
    BY <1>1, <2>0, InterruptedSame
  <2>3. Frame(who, call) \in FrameType /\ Frame(who, call).todo = <<>>
    BY <2>0, NewFrame
  <2>5. DOMAIN lower = DOMAIN calls
    BY DEF Interrupted
  <2> HIDE DEF lower
  <2>4. /\ Len(calls') = Depth + 1 /\ calls'[Depth + 1] = Frame(who, call)
        /\ \A i \in 1 .. Depth : calls'[i] = lower[i]
    <3> HIDE DEF Depth
    <3>1. calls' = Append(lower, Frame(who, call))
      BY <2>1 DEF lower
    <3> QED BY <1>2, <2>2, <2>3, <3>1, AppendProperties
  <2>6. \A i \in DOMAIN calls : calls'[i].todo = calls[i].todo /\ calls'[i].reg = calls[i].reg
    BY <1>2, <2>2, <2>4, <2>5
  <2>7. UNCHANGED Pos
    BY <1>4 DEF Handler
  <2> QED BY <2>3, <2>4, <2>6, <2>7, PushSound
<1> QED BY <1>3, <1>4

\* What does not change calls or Pos changes nothing of this.
LEMMA SameSound ==
    ASSUME Sound, Typed', UNCHANGED <<calls, Pos>>
    PROVE  Sound'
<1>1. \A S : (Awaits(S) <=> Awaits(S)') /\ \A i : Under(i, S) <=> Under(i, S)'
  BY DEF Awaits, Under
<1> QED BY <1>1 DEF Sound, OrderInv, CursorInv, StaleInv

LEMMA FormatSound ==
    ASSUME Sound, Format, Typed'
    PROVE  Sound'
<1>1. Typed /\ OrderInv
  BY DEF Sound
<1>0. CASE OverrunStep
  BY <1>0, SameSound DEF OverrunStep
<1> SUFFICES ASSUME StoreStep PROVE Sound'
  BY <1>0, <1>1, FormatIs
<1>2. calls # <<>> /\ UNCHANGED Pos
  BY <1>1, FormatIs DEF StoreStep
<1>3. PICK f : /\ Update(f)
               /\ \/ f = [Me EXCEPT !.n = Me.n + 1]
                  \/ f = [Me EXCEPT !.pc = "print", !.n = 0]
  BY DEF StoreStep
<1>4. Me \in FrameType /\ Depth \in DOMAIN calls
  BY <1>1, <1>2, TopFrame
<1>5. f.todo = Me.todo /\ f.reg = Me.reg
  BY <1>3, <1>4 DEF FrameType
<1>6. f \in FrameType
  <2>1. calls' = [calls EXCEPT ![Depth] = f] /\ calls' \in Seq(FrameType) /\ calls \in Seq(FrameType)
    BY <1>1, <1>3 DEF Update, Typed
  <2>2. DOMAIN calls' = DOMAIN calls /\ calls'[Depth] = f
    BY <1>4, <2>1
  <2>3. calls'[Depth] \in FrameType
    BY <1>4, <2>1, <2>2
  <2> QED BY <2>2, <2>3
<1>7. InOrder(f.todo)
  BY <1>1, <1>4, <1>5 DEF OrderInv, Me
<1> QED BY <1>2, <1>3, <1>5, <1>6, <1>7, QuietSound

LEMMA NextCharSound ==
    ASSUME Sound, NextChar, Typed'
    PROVE  Sound'
<1>1. Typed
  BY DEF Sound
<1>2. calls # <<>> /\ Me.todo = <<>> /\ UNCHANGED Pos
  BY <1>1, NextCharIs
<1>3. PICK c \in Chars, f \in FrameType : Update(f) /\ f.todo = CharOps(c) /\ f.reg = Me.reg
  BY <1>1, NextCharIs
<1>4. InOrder(f.todo) /\ f.todo # <<>> /\ Head(f.todo) \notin Uses
  BY <1>3, CharOpsInOrder
<1> QED BY <1>2, <1>3, <1>4, QuietSound

LEMMA InitSound == Init => Sound
<1> SUFFICES ASSUME Init PROVE Sound
  OBVIOUS
<1>1. Typed
  BY InitTyped
<1>2. calls = <<>> /\ DOMAIN calls = {}
  BY DEF Init
<1>3. Pos.x \in 0 .. XChars - 1 /\ Pos.y \in 0 .. YChars - 1
  BY <1>1 DEF Typed, Init
<1>4. XChars \in Nat /\ YChars \in Nat
  BY Constants
<1>5. CursorInv
  BY <1>3, <1>4 DEF CursorInv
<1> QED BY <1>1, <1>2, <1>5 DEF Sound, OrderInv, StaleInv

LEMMA StepSound == Sound /\ Bounded /\ [Next]_vars => Sound'
<1> SUFFICES ASSUME Sound, Bounded, [Next]_vars PROVE Sound'
  OBVIOUS
<1>1. Typed'
  BY StepTyped DEF Sound
<1>2. CASE UNCHANGED vars
  <2>1. UNCHANGED <<calls, Pos>>
    BY <1>2 DEF vars
  <2> QED BY <1>1, <2>1, SameSound
<1> QED BY <1>1, <1>2, NextIs, AccessSound, BeginSound, FormatSound, NextCharSound, ReturnSound

LEMMA SoundImpliesOnScreen == Sound => CursorOnScreen
<1> SUFFICES ASSUME Sound, \A i \in DOMAIN calls : Idle(i)
             PROVE  Pos.x \in 0 .. XChars - 1 /\ Pos.y \in 0 .. YChars - 1
  BY DEF CursorOnScreen
<1>1. \A S : ~Awaits(S)
  BY DEF Idle, Awaits, Has
<1>2. Pos.x \in Int /\ Pos.y \in Int
  BY DEF Sound, Typed
<1>3. XChars \in Nat /\ YChars \in Nat
  BY Constants
<1>4. ~(Pos.x < 0) /\ ~(Pos.x >= XChars) /\ ~(Pos.y < 0) /\ ~(Pos.y >= YChars)
  BY <1>1 DEF Sound, CursorInv
<1> QED BY <1>2, <1>3, <1>4

\* When no print is in the middle of a character the cursor is on the screen, for
\* every screen, tab stop and text, and for any accesses of __print_char between
\* which a handler's print may come (printk.c:289-338).
THEOREM CursorStaysOnScreen == Spec => []CursorOnScreen
<1>1. Init => Sound /\ Bounded
  BY InitTyped, InitSound
<1>2. (Sound /\ Bounded) /\ [Next]_vars => (Sound /\ Bounded)'
  BY StepTyped, StepSound DEF Sound
<1>3. Sound => CursorOnScreen
  BY SoundImpliesOnScreen
<1> QED BY <1>1, <1>2, <1>3, PTL DEF Spec

-----------------------------------------------------------------------------
(***************************************************************************)
(* What is printed is what the call asked for.                             *)
(***************************************************************************)
\* Every print in progress has the text of its call.
Formatted == \A i \in DOMAIN calls : calls[i].text = Text(calls[i].call)

LEMMA FormattedUpdate ==
    ASSUME Typed, Formatted, calls # <<>>, NEW f \in FrameType, Update(f),
           f.text = Me.text, f.call = Me.call
    PROVE  Formatted'
<1>1. /\ DOMAIN calls' = DOMAIN calls /\ calls'[Depth] = f /\ Depth \in DOMAIN calls
      /\ \A i \in DOMAIN calls \ {Depth} : calls'[i] = calls[i]
  BY Updated, TopFrame
<1>2. Me.text = Text(Me.call)
  BY <1>1 DEF Me, Formatted
<1> HIDE DEF Depth, Me
<1>3. ASSUME NEW i \in DOMAIN calls' PROVE calls'[i].text = Text(calls'[i].call)
  <2>1. CASE i = Depth
    BY <1>1, <1>2, <2>1
  <2>2. CASE i # Depth
    BY <1>1, <1>3, <2>2 DEF Formatted
  <2> QED BY <2>1, <2>2
<1> QED BY <1>3 DEF Formatted

LEMMA FormatFormatted == Typed /\ Formatted /\ Format => Formatted'
<1> SUFFICES ASSUME Typed, Formatted, Format PROVE Formatted'
  OBVIOUS
<1>0. CASE OverrunStep
  BY <1>0 DEF OverrunStep, Formatted
<1>1. /\ calls # <<>>
      /\ \/ OverrunStep
         \/ Update([Me EXCEPT !.n = Me.n + 1])
         \/ Update([Me EXCEPT !.pc = "print", !.n = 0])
  BY FormatIs DEF StoreStep
<1>2. Me \in FrameType /\ Me.n \in Nat
  BY <1>1, TopFrame DEF FrameType
<1>3. CASE Update([Me EXCEPT !.n = Me.n + 1])
  <2> DEFINE f == [Me EXCEPT !.n = Me.n + 1]
  <2>1. f \in FrameType
    <3>1. \A g \in FrameType, k \in Nat : [g EXCEPT !.n = k] \in FrameType
      BY DEF FrameType
    <3> QED BY <1>2, <3>1
  <2>2. f.text = Me.text /\ f.call = Me.call
    BY <1>2 DEF FrameType
  <2>3. Update(f)
    BY <1>3
  <2> HIDE DEF f
  <2> QED BY <1>1, <2>1, <2>2, <2>3, FormattedUpdate
<1>4. CASE Update([Me EXCEPT !.pc = "print", !.n = 0])
  <2> DEFINE f == [Me EXCEPT !.pc = "print", !.n = 0]
  <2>1. f \in FrameType
    <3>1. f = [[Me EXCEPT !.pc = "print"] EXCEPT !.n = 0]
      OBVIOUS
    <3>2. [Me EXCEPT !.pc = "print"] \in FrameType
      BY <1>2 DEF FrameType
    <3> QED BY <3>1, <3>2 DEF FrameType
  <2>2. f.text = Me.text /\ f.call = Me.call
    BY <1>2 DEF FrameType
  <2>3. Update(f)
    BY <1>4
  <2> HIDE DEF f
  <2> QED BY <1>1, <2>1, <2>2, <2>3, FormattedUpdate
<1> QED BY <1>0, <1>1, <1>3, <1>4

LEMMA NextCharFormatted == Typed /\ Formatted /\ NextChar => Formatted'
<1> SUFFICES ASSUME Typed, Formatted, NextChar PROVE Formatted'
  OBVIOUS
<1>1. calls # <<>>
  BY NextCharIs
<1>2. PICK f \in FrameType : Update(f) /\ f.text = Me.text /\ f.call = Me.call
  BY NextCharIs
<1> QED BY <1>1, <1>2, FormattedUpdate

LEMMA ReturnFormatted == Typed /\ Formatted /\ Return => Formatted'
<1> SUFFICES ASSUME Typed, Formatted, Return PROVE Formatted'
  OBVIOUS
<1>1. /\ calls # <<>>
      /\ \/ Update([Me EXCEPT !.pc = "loop"])
         \/ /\ DOMAIN calls' = 1 .. Depth - 1
            /\ \A i \in 1 .. Depth - 1 : calls'[i] = calls[i]
  BY ReturnIs
<1>2. Me \in FrameType /\ Depth \in Nat \ {0} /\ DOMAIN calls = 1 .. Depth
  BY <1>1, TopFrame
<1>3. CASE Update([Me EXCEPT !.pc = "loop"])
  <2> DEFINE f == [Me EXCEPT !.pc = "loop"]
  <2>1. f \in FrameType /\ f.text = Me.text /\ f.call = Me.call
    BY <1>2 DEF FrameType
  <2>2. Update(f)
    BY <1>3
  <2> HIDE DEF f
  <2> QED BY <1>1, <2>1, <2>2, FormattedUpdate
<1>4. CASE DOMAIN calls' = 1 .. Depth - 1 /\ \A i \in 1 .. Depth - 1 : calls'[i] = calls[i]
  <2> HIDE DEF Depth
  <2>1. \A i \in DOMAIN calls' : i \in DOMAIN calls /\ calls'[i] = calls[i]
    BY <1>2, <1>4
  <2> QED BY <2>1 DEF Formatted
<1> QED BY <1>1, <1>3, <1>4

LEMMA AccessFormatted == Typed /\ Formatted /\ Access => Formatted'
<1> SUFFICES ASSUME Typed, Formatted, Access PROVE Formatted'
  OBVIOUS
<1>1. calls # <<>> /\ Me.todo # <<>>
  BY AccessIs
<1>2. PICK ops, r, m : Update(Moved(ops, r, m)) /\ Outcome(Head(Me.todo), ops, r, m)
  BY AccessIs
<1>3. Me.todo \in Seq(Ops)
  BY <1>1, TopFrame DEF FrameType
<1>4. Head(Me.todo) \in Ops
  BY <1>1, <1>3, HeadTailProperties
<1>5. ops \in Seq(Ops) /\ r \in Int /\ m \in Int
  BY <1>1, <1>2, <1>4, OutcomeTyped
<1>6. /\ Moved(ops, r, m) \in FrameType
      /\ Moved(ops, r, m).text = Me.text /\ Moved(ops, r, m).call = Me.call
  BY <1>1, <1>5, MovedFrame
<1> QED BY <1>1, <1>2, <1>6, FormattedUpdate

LEMMA BeginFormatted ==
    Typed /\ Formatted /\ (Call \/ \E who \in {"trap", "IRQ"} : Handler(who)) => Formatted'
<1> SUFFICES ASSUME Typed, Formatted, Call \/ \E who \in {"trap", "IRQ"} : Handler(who)
             PROVE  Formatted'
  OBVIOUS
<1>1. Depth = Len(calls) /\ DOMAIN calls = 1 .. Depth /\ Depth \in Nat
  BY DEF Typed, Depth
<1>2. CASE Call
  <2>1. calls' = <<Frame("kernel", Head(script.prints))>> /\ script.prints # <<>>
    BY <1>2 DEF Call
  <2>2. script.prints \in Seq(Prints)
    BY DEF Typed
  <2>3. Head(script.prints) \in Prints
    BY <2>1, <2>2, HeadTailProperties
  <2> DEFINE f == Frame("kernel", Head(script.prints))
  <2>4. f.text = Text(f.call)
    BY <2>3, NewFrame
  <2> HIDE DEF f
  <2>5. DOMAIN calls' = {1} /\ calls'[1] = f
    BY <2>1 DEF f
  <2> QED BY <2>4, <2>5 DEF Formatted
<1>3. ASSUME NEW who \in {"trap", "IRQ"}, Handler(who) PROVE Formatted'
  <2>1. PICK call \in HandlerCalls : calls' = Append(Interrupted(call), Frame(who, call))
    BY <1>3 DEF Handler, Interrupted
  <2>0. call \in Prints
    BY DEF Prints
  <2> DEFINE lower == Interrupted(call)
  <2>2. /\ lower \in Seq(FrameType) /\ Len(lower) = Depth
        /\ DOMAIN lower = DOMAIN calls
    <3>1. lower \in Seq(FrameType) /\ Len(lower) = Depth
      BY <2>0, InterruptedSame
    <3>2. DOMAIN lower = 1 .. Depth
      <4> HIDE DEF lower, Depth
      <4> QED BY <3>1, LenProperties
    <3> QED BY <1>1, <3>1, <3>2
  <2>3. \A i \in DOMAIN lower : /\ lower[i].text = calls[i].text
                                      /\ lower[i].call = calls[i].call
    BY <2>0, InterruptedSame
  <2> DEFINE f == Frame(who, call)
  <2>4. f \in FrameType /\ f.text = Text(f.call)
    BY <2>0, NewFrame
  <2> HIDE DEF f
  <2>5. /\ DOMAIN calls' = 1 .. Depth + 1
        /\ calls'[Depth + 1] = f
        /\ \A i \in 1 .. Depth : calls'[i] = lower[i]
    <3>1. calls' = Append(lower, f)
      BY <2>1 DEF f
    <3> HIDE DEF lower, Depth
    <3> QED BY <1>1, <2>2, <2>4, <3>1, AppendProperties
  <2>6. \A i \in DOMAIN calls' : i \in 1 .. Depth \/ i = Depth + 1
    BY <1>1, <2>5
  <2>7. ASSUME NEW i \in 1 .. Depth PROVE calls'[i].text = Text(calls'[i].call)
    <3> HIDE DEF lower, Depth
    <3>1. calls'[i] = lower[i] /\ i \in DOMAIN lower /\ i \in DOMAIN calls
      BY <1>1, <2>2, <2>5
    <3>2. calls[i].text = Text(calls[i].call)
      BY <3>1 DEF Formatted
    <3> QED BY <2>3, <3>1, <3>2
  <2> HIDE DEF lower, Depth
  <2> QED BY <2>4, <2>5, <2>6, <2>7 DEF Formatted
<1> QED BY <1>2, <1>3

LEMMA StepFormatted == Typed /\ Formatted /\ [Next]_vars => Formatted'
<1> SUFFICES ASSUME Typed, Formatted, [Next]_vars PROVE Formatted'
  OBVIOUS
<1>1. CASE UNCHANGED vars
  BY <1>1 DEF vars, Formatted
<1> QED BY <1>1, NextIs, AccessFormatted, BeginFormatted, FormatFormatted, NextCharFormatted,
           ReturnFormatted

LEMMA FormattedReads == Typed /\ Formatted => NumbersReadBack
<1> SUFFICES ASSUME Typed, Formatted, NEW i \in DOMAIN calls, OneNumber(calls[i].call)
             PROVE  LET c == Plain(calls[i].call.fmt[1])
                        negative == c.conv \in {"d", "i"} /\ c.num < 0
                    IN  ReadsAs(calls[i].text, c, negative,
                                IF negative THEN -c.num ELSE c.num % Pow2[LongBits])
  BY DEF NumbersReadBack
<1> DEFINE call == calls[i].call
           c == Plain(call.fmt[1])
<1>1. call \in Prints
  <2>1. calls[i] \in FrameType
    BY DEF Typed
  <2> QED BY <2>1 DEF FrameType
<1>2. calls[i].text = Text(call)
  BY DEF Formatted
<1> HIDE DEF call
<1>3. ReadsAs(Text(call), c, Below(c), Value(c))
  <2>1. OneNumber(call)
    BY DEF call
  <2> QED BY <1>1, <2>1, NumberText
<1> HIDE DEF c
<1>4. /\ Below(c) <=> c.conv \in {"d", "i"} /\ c.num < 0
      /\ Value(c) = IF Below(c) THEN -c.num ELSE c.num % Pow2[LongBits]
  BY DEF Below, Value
<1>5. ReadsAs(calls[i].text, c, c.conv \in {"d", "i"} /\ c.num < 0,
              IF c.conv \in {"d", "i"} /\ c.num < 0 THEN -c.num ELSE c.num % Pow2[LongBits])
  BY <1>2, <1>3, <1>4 DEF Below, Value
<1> QED BY <1>5 DEF c, call

\* A conversion of a number prints as a text that reads back as its argument, with
\* the sign, prefix, zeros and blanks its flags, width and precision ask for, in
\* every base and for every argument of its type, the least int64 with its wrapping
\* negation among them, on machines of any word size (printk.c:79-287).
THEOREM NumbersAreReadBack == Spec => []NumbersReadBack
<1>1. Init => Formatted
  <2>1. Init => DOMAIN calls = {}
    BY DEF Init
  <2> QED BY <2>1 DEF Formatted
<1>2. (Typed /\ Bounded) /\ Formatted /\ [Next]_vars => (Typed /\ Bounded)' /\ Formatted'
  BY StepTyped, StepFormatted
<1>3. (Typed /\ Bounded) /\ Formatted => NumbersReadBack
  BY FormattedReads
<1>4. Init => Typed /\ Bounded
  BY InitTyped
<1> QED BY <1>1, <1>2, <1>3, <1>4, PTL DEF Spec

-----------------------------------------------------------------------------
(***************************************************************************)
(* What a print shows.  Only prints that began during it, and that it has  *)
(* recorded, store in __buf before it goes on.                             *)
(***************************************************************************)
\* The character c stands at f's k-th place by way of o, or rightly.
Hides(o, f, k, c) ==
    /\ Buffered(o.call) /\ Buffered(f.call)
    /\ k > o.shown /\ k <= o.stored /\ k <= Len(Text(o.call)) + 1
    /\ c = Append(Text(o.call), NUL)[k]
Accounts(f, k, c) == c = f.text[k] \/ \E o \in f.over : Hides(o, f, k, c)

Counted(f) ==
    /\ f.pc = "format" => f.shown = <<>> /\ Buffered(f.call)
    /\ f.pc # "format" => Len(f.shown) = f.n
    /\ f.pc = "loop" => f.n = Len(f.text)
ShownInv(f) == \A k \in DOMAIN f.shown : Accounts(f, k, f.shown[k])
HeldInv(f, b) ==
    Buffered(f.call) => \A k \in Stored(f) : k > Len(f.shown) => Accounts(f, k, b[k])

Keeps(f, b) == Counted(f) /\ ShownInv(f) /\ HeldInv(f, b)

KeepsInv == \A i \in DOMAIN calls : Keeps(calls[i], buf)
OverInv ==
    \A i, j \in DOMAIN calls : i < j => Cover(calls[i], calls[j].call) \in calls[i].over

LEMMA KeepsSame ==
    ASSUME NEW f \in FrameType, NEW g \in FrameType, NEW b, Keeps(f, b),
           g.text = f.text, g.call = f.call, g.n = f.n, g.pc = f.pc, g.shown = f.shown,
           f.over \subseteq g.over
    PROVE  Keeps(g, b)
<1>1. ASSUME NEW k, NEW c, Accounts(f, k, c) PROVE Accounts(g, k, c)
  BY <1>1 DEF Accounts, Hides
<1>2. Counted(g)
  BY DEF Keeps, Counted
<1>3. ShownInv(g)
  BY <1>1 DEF Keeps, ShownInv
<1>4. HeldInv(g, b)
  <2>1. Stored(g) = Stored(f)
    BY DEF Stored
  <2> QED BY <1>1, <2>1 DEF Keeps, HeldInv
<1> QED BY <1>2, <1>3, <1>4 DEF Keeps

LEMMA OverUpdate ==
    ASSUME Typed, OverInv, calls # <<>>, NEW f \in FrameType, Update(f), f.call = Me.call
    PROVE  OverInv'
<1>1. /\ DOMAIN calls' = DOMAIN calls /\ calls'[Depth] = f
      /\ \A i \in DOMAIN calls \ {Depth} : calls'[i] = calls[i]
      /\ Depth \in Nat /\ DOMAIN calls = 1 .. Depth
  BY Updated, TopFrame
<1>2. Me.call = calls[Depth].call
  BY DEF Me
<1> HIDE DEF Depth, Me
<1>3. ASSUME NEW i \in DOMAIN calls', NEW j \in DOMAIN calls', i < j
      PROVE  Cover(calls'[i], calls'[j].call) \in calls'[i].over
  <2>1. i # Depth /\ i \in DOMAIN calls /\ j \in DOMAIN calls
    BY <1>1, <1>3
  <2>2. calls'[i] = calls[i] /\ calls'[j].call = calls[j].call
    BY <1>1, <1>2, <2>1
  <2> QED BY <1>3, <2>1, <2>2 DEF OverInv
<1> QED BY <1>3 DEF OverInv

LEMMA KeepsUpdate ==
    ASSUME Typed, KeepsInv, calls # <<>>, NEW f \in FrameType, Update(f),
           UNCHANGED buf, Keeps(f, buf)
    PROVE  KeepsInv'
<1>1. /\ DOMAIN calls' = DOMAIN calls /\ calls'[Depth] = f
      /\ \A i \in DOMAIN calls \ {Depth} : calls'[i] = calls[i]
  BY Updated
<1> HIDE DEF Depth, Keeps
<1>2. ASSUME NEW i \in DOMAIN calls' PROVE Keeps(calls'[i], buf)
  <2>1. CASE i = Depth
    BY <1>1, <2>1
  <2>2. CASE i # Depth
    BY <1>1, <2>2 DEF KeepsInv
  <2> QED BY <2>1, <2>2
<1> QED BY <1>2 DEF KeepsInv

LEMMA KeepsMe ==
    ASSUME Typed, calls # <<>>, KeepsInv
    PROVE  Keeps(Me, buf)
<1>1. Depth \in DOMAIN calls
  BY TopFrame
<1> HIDE DEF Keeps, Depth
<1> QED BY <1>1 DEF KeepsInv, Me

\* A print stores its own text or NUL, at a place the ones below it have covered.
LEMMA StoreOthers ==
    ASSUME Typed, Formatted, KeepsInv, OverInv, calls # <<>>, Me.pc = "format", StoreStep,
           NEW i \in DOMAIN calls, i < Depth
    PROVE  HeldInv(calls[i], buf')
<1> DEFINE g == calls[i]
           p == Me.n + 1
           o == Cover(g, Me.call)
<1>1. /\ Me \in FrameType /\ Me.n \in Nat /\ Len(Me.text) \in Nat /\ Depth \in DOMAIN calls
      /\ Me.text \in Seq(Chars)
  BY TopFrame DEF FrameType
<1>2. Me.text = Text(Me.call) /\ Buffered(Me.call)
  BY <1>1, KeepsMe DEF Formatted, Me, Keeps, Counted
<1>3. o \in g.over
  BY <1>1 DEF OverInv, Me
<1>4. o.call = Me.call /\ o.shown = Len(g.shown) /\ o.stored = StoredIn(g)
  BY DEF Cover
<1>5. buf'[p] = Append(Text(Me.call), NUL)[p] /\ p \in 1 .. Len(Text(Me.call)) + 1
  <2>1. CASE Me.n < Len(Me.text) /\ buf'[p] = Me.text[p]
    BY <1>1, <1>2, <2>1
  <2>2. CASE Me.n = Len(Me.text) /\ buf'[p] = NUL
    BY <1>1, <1>2, <2>2
  <2> QED BY <2>1, <2>2 DEF StoreStep
<1>6. \A k \in DOMAIN buf : k # p => buf'[k] = buf[k]
  BY DEF StoreStep
<1>7. /\ HeldInv(g, buf)
      /\ Buffered(g.call) => Stored(g) \subseteq DOMAIN buf
  BY DEF KeepsInv, Keeps, Typed
<1>8. ASSUME Buffered(g.call), NEW k \in Stored(g), k > Len(g.shown)
      PROVE  Accounts(g, k, buf'[k])
  <2>1. CASE k = p
    <3>1. k <= StoredIn(g)
      BY DEF Stored, StoredIn
    <3> HIDE DEF g, o, p, Me
    <3>2. Hides(o, g, k, buf'[k])
      BY <1>2, <1>4, <1>5, <1>8, <2>1, <3>1 DEF Hides
    <3> QED BY <1>3, <3>2 DEF Accounts
  <2>2. CASE k # p
    <3> HIDE DEF g, p
    <3>1. buf'[k] = buf[k]
      BY <1>6, <1>7, <1>8, <2>2
    <3> QED BY <1>7, <1>8, <3>1 DEF HeldInv
  <2> QED BY <2>1, <2>2
<1> QED BY <1>8 DEF HeldInv

LEMMA StoreOwn ==
    ASSUME Typed, KeepsInv, calls # <<>>, Me.pc = "format", StoreStep
    PROVE  \E f \in FrameType : Update(f) /\ f.call = Me.call /\ f.text = Me.text /\ Keeps(f, buf')
<1>1. /\ Me \in FrameType /\ Me.n \in Nat /\ Len(Me.text) \in Nat /\ Me.shown = <<>>
      /\ Buffered(Me.call) /\ HeldInv(Me, buf)
  BY TopFrame, KeepsMe DEF FrameType, Keeps, Counted
<1>2. 1 .. Me.n \subseteq DOMAIN buf
  <2>1. Stored(Me) \subseteq DOMAIN buf
    BY <1>1, TopFrame DEF Typed, Me
  <2> QED BY <2>1 DEF Stored
<1>3. \A k \in DOMAIN buf : k # Me.n + 1 => buf'[k] = buf[k]
  BY DEF StoreStep
<1>0. Len(<<>>) = 0
  OBVIOUS
<1>4. \A k \in 1 .. Me.n : Accounts(Me, k, buf'[k])
  <2> TAKE k \in 1 .. Me.n
  <2>1. buf'[k] = buf[k] /\ k \in Stored(Me) /\ k > Len(Me.shown)
    BY <1>0, <1>1, <1>2, <1>3 DEF Stored
  <2> QED BY <1>1, <2>1 DEF HeldInv
<1>5. ASSUME NEW f \in FrameType, f.call = Me.call, f.text = Me.text, f.shown = <<>>,
             f.over = Me.over, f.pc # "loop", f.pc # "format" => f.n = 0,
             \A k \in Stored(f) : k \in 1 .. Me.n \/ buf'[k] = f.text[k]
      PROVE  Keeps(f, buf')
  <2>1. Counted(f) /\ ShownInv(f)
    <3>1. DOMAIN f.shown = {} /\ Len(f.shown) = 0
      BY <1>0, <1>5
    <3> QED BY <1>1, <1>5, <3>1 DEF Counted, ShownInv
  <2>2. \A k \in Stored(f) : Accounts(f, k, buf'[k])
    BY <1>4, <1>5 DEF Accounts, Hides
  <2> QED BY <2>1, <2>2 DEF Keeps, HeldInv
<1>6. CASE Me.n < Len(Me.text) /\ buf'[Me.n + 1] = Me.text[Me.n + 1] /\ Update([Me EXCEPT !.n = Me.n + 1])
  <2> DEFINE f == [Me EXCEPT !.n = Me.n + 1]
  <2>1. f \in FrameType
    <3>1. \A g \in FrameType, k \in Nat : [g EXCEPT !.n = k] \in FrameType
      BY DEF FrameType
    <3> QED BY <1>1, <3>1
  <2>2. /\ f.n = Me.n + 1 /\ f.text = Me.text /\ f.call = Me.call /\ f.pc = "format"
        /\ f.shown = Me.shown /\ f.over = Me.over
    BY <1>1 DEF FrameType
  <2>3. Update(f)
    BY <1>6
  <2> HIDE DEF f
  <2>4. \A k \in Stored(f) : k \in 1 .. Me.n \/ buf'[k] = f.text[k]
    BY <1>1, <1>6, <2>2 DEF Stored
  <2> QED BY <1>1, <1>5, <2>1, <2>2, <2>3, <2>4
<1>7. CASE Me.n = Len(Me.text) /\ Update([Me EXCEPT !.pc = "print", !.n = 0])
  <2> DEFINE f == [Me EXCEPT !.pc = "print", !.n = 0]
  <2>0. f = [[Me EXCEPT !.pc = "print"] EXCEPT !.n = 0]
    OBVIOUS
  <2>1. f \in FrameType
    <3>1. [Me EXCEPT !.pc = "print"] \in FrameType
      BY <1>1 DEF FrameType
    <3> QED BY <2>0, <3>1 DEF FrameType
  <2>2. /\ f.n = 0 /\ f.text = Me.text /\ f.call = Me.call /\ f.pc = "print"
        /\ f.shown = Me.shown /\ f.over = Me.over
    BY <1>1 DEF FrameType
  <2>3. Update(f)
    BY <1>7
  <2> HIDE DEF f
  <2>4. \A k \in Stored(f) : k \in 1 .. Me.n \/ buf'[k] = f.text[k]
    BY <1>1, <1>7, <2>2 DEF Stored
  <2> QED BY <1>1, <1>5, <2>1, <2>2, <2>3, <2>4
<1> QED BY <1>6, <1>7 DEF StoreStep

LEMMA FormatKeeps ==
    ASSUME Typed, Formatted, KeepsInv, OverInv, Format
    PROVE  KeepsInv' /\ OverInv'
<1>0. CASE OverrunStep
  BY <1>0 DEF OverrunStep, KeepsInv, OverInv
<1> SUFFICES ASSUME StoreStep PROVE KeepsInv' /\ OverInv'
  BY <1>0, FormatIs
<1>1. calls # <<>> /\ Me.pc = "format"
  BY FormatIs
<1>2. PICK f \in FrameType : Update(f) /\ f.call = Me.call /\ Keeps(f, buf')
  BY <1>1, StoreOwn
<1>3. OverInv'
  BY <1>1, <1>2, OverUpdate
<1>4. /\ DOMAIN calls' = DOMAIN calls /\ calls'[Depth] = f
      /\ \A i \in DOMAIN calls \ {Depth} : calls'[i] = calls[i]
      /\ DOMAIN calls = 1 .. Depth /\ Depth \in Nat
  BY <1>1, <1>2, Updated, TopFrame
<1>5. ASSUME NEW i \in DOMAIN calls', i # Depth PROVE Keeps(calls'[i], buf')
  <2>1. i \in DOMAIN calls /\ i < Depth /\ calls'[i] = calls[i]
    BY <1>4, <1>5
  <2>2. HeldInv(calls[i], buf')
    BY <1>1, <2>1, StoreOthers
  <2>3. Keeps(calls[i], buf)
    BY <2>1 DEF KeepsInv
  <2> QED BY <2>1, <2>2, <2>3 DEF Keeps
<1>6. \A i \in DOMAIN calls' : Keeps(calls'[i], buf')
  BY <1>2, <1>4, <1>5
<1> QED BY <1>3, <1>6 DEF KeepsInv

LEMMA NextCharKeeps ==
    ASSUME Typed, KeepsInv, OverInv, NextChar
    PROVE  KeepsInv' /\ OverInv'
<1>1. /\ calls # <<>> /\ Me.pc = "print" /\ Me.n < Len(Me.text) /\ UNCHANGED buf
  BY NextCharIs
<1>2. PICK c \in Chars, f \in FrameType :
         /\ c = IF Buffered(Me.call) THEN buf[Me.n + 1] ELSE Me.text[Me.n + 1]
         /\ Update(f)
         /\ f.n = Me.n + 1 /\ f.shown = Append(Me.shown, c)
         /\ f.text = Me.text /\ f.call = Me.call /\ f.pc = Me.pc /\ f.over = Me.over
  BY NextCharIs
<1>3. /\ Me \in FrameType /\ Me.n \in Nat /\ Len(Me.text) \in Nat /\ Me.shown \in Seq(Chars)
  BY <1>1, TopFrame DEF FrameType
<1>4. Len(Me.shown) = Me.n /\ ShownInv(Me) /\ HeldInv(Me, buf)
  BY <1>1, KeepsMe DEF Keeps, Counted
<1>5. /\ Len(f.shown) = f.n /\ DOMAIN f.shown = 1 .. f.n
      /\ \A k \in 1 .. Me.n : f.shown[k] = Me.shown[k]
      /\ f.shown[Me.n + 1] = c
  BY <1>2, <1>3, <1>4, AppendProperties
<1>6. Accounts(Me, Me.n + 1, c)
  <2>1. CASE Buffered(Me.call)
    <3>1. Me.n + 1 \in Stored(Me) /\ Me.n + 1 > Len(Me.shown)
      BY <1>1, <1>3, <1>4 DEF Stored
    <3> QED BY <1>2, <1>4, <2>1, <3>1 DEF HeldInv
  <2>2. CASE ~Buffered(Me.call)
    BY <1>2, <2>2 DEF Accounts
  <2> QED BY <2>1, <2>2
<1>7. \A k, d : Accounts(Me, k, d) => Accounts(f, k, d)
  BY <1>2 DEF Accounts, Hides
<1>8. Counted(f)
  BY <1>1, <1>2, <1>5 DEF Counted
<1>9. ShownInv(f)
  <2>1. \A k \in DOMAIN f.shown : k \in 1 .. Me.n \/ k = Me.n + 1
    BY <1>2, <1>3, <1>5
  <2>2. \A k \in 1 .. Me.n : Accounts(Me, k, f.shown[k])
    BY <1>3, <1>4, <1>5 DEF ShownInv
  <2> QED BY <1>5, <1>6, <1>7, <2>1, <2>2 DEF ShownInv
<1>10. HeldInv(f, buf)
  <2>1. Stored(f) = Stored(Me)
    BY <1>1, <1>2 DEF Stored
  <2>2. \A k \in Stored(f) : k > Len(f.shown) => k > Len(Me.shown)
    BY <1>2, <1>3, <1>4, <1>5 DEF Stored
  <2> QED BY <1>2, <1>4, <1>7, <2>1, <2>2 DEF HeldInv
<1>11. Keeps(f, buf)
  BY <1>8, <1>9, <1>10 DEF Keeps
<1> QED BY <1>1, <1>2, <1>11, KeepsUpdate, OverUpdate

LEMMA ReturnKeeps ==
    ASSUME Typed, KeepsInv, OverInv, Return
    PROVE  KeepsInv' /\ OverInv'
<1>1. /\ calls # <<>> /\ Me.pc = "print" /\ Me.n = Len(Me.text) /\ UNCHANGED buf
      /\ \/ Update([Me EXCEPT !.pc = "loop"])
         \/ /\ DOMAIN calls' = 1 .. Depth - 1
            /\ \A i \in 1 .. Depth - 1 : calls'[i] = calls[i]
  BY ReturnIs
<1>2. Me \in FrameType /\ Depth \in Nat \ {0} /\ DOMAIN calls = 1 .. Depth
  BY <1>1, TopFrame
<1>3. CASE Update([Me EXCEPT !.pc = "loop"])
  <2> DEFINE f == [Me EXCEPT !.pc = "loop"]
  <2>1. /\ f \in FrameType /\ f.n = Me.n /\ f.text = Me.text /\ f.call = Me.call /\ f.pc = "loop"
        /\ f.shown = Me.shown /\ f.over = Me.over
    BY <1>2 DEF FrameType
  <2>2. Update(f)
    BY <1>3
  <2> HIDE DEF f
  <2>3. Counted(Me) /\ ShownInv(Me) /\ HeldInv(Me, buf)
    BY <1>1, KeepsMe DEF Keeps
  <2>4. Counted(f)
    BY <1>1, <2>1, <2>3 DEF Counted
  <2>5. \A k, c : Accounts(Me, k, c) => Accounts(f, k, c)
    BY <2>1 DEF Accounts, Hides
  <2>6. ShownInv(f)
    BY <2>1, <2>3, <2>5 DEF ShownInv
  <2>7. HeldInv(f, buf)
    <3>1. Stored(f) = Stored(Me)
      BY <1>1, <2>1 DEF Stored
    <3> QED BY <2>1, <2>3, <2>5, <3>1 DEF HeldInv
  <2>8. Keeps(f, buf)
    BY <2>4, <2>6, <2>7 DEF Keeps
  <2> QED BY <1>1, <2>1, <2>2, <2>8, KeepsUpdate, OverUpdate
<1>4. CASE DOMAIN calls' = 1 .. Depth - 1 /\ \A i \in 1 .. Depth - 1 : calls'[i] = calls[i]
  <2> HIDE DEF Depth
  <2>1. \A i \in DOMAIN calls' : i \in DOMAIN calls /\ calls'[i] = calls[i]
    BY <1>2, <1>4
  <2>2. KeepsInv'
    BY <1>1, <2>1 DEF KeepsInv
  <2>3. OverInv'
    BY <2>1 DEF OverInv
  <2> QED BY <2>2, <2>3
<1> QED BY <1>1, <1>3, <1>4

LEMMA AccessKeeps ==
    ASSUME Typed, KeepsInv, OverInv, Access
    PROVE  KeepsInv' /\ OverInv'
<1>1. calls # <<>> /\ Me.todo # <<>> /\ UNCHANGED buf
  BY AccessIs
<1>2. PICK ops, r, m : Update(Moved(ops, r, m)) /\ Outcome(Head(Me.todo), ops, r, m)
  BY AccessIs
<1>3. Me.todo \in Seq(Ops) /\ Me \in FrameType
  BY <1>1, TopFrame DEF FrameType
<1>4. Head(Me.todo) \in Ops
  BY <1>1, <1>3, HeadTailProperties
<1>5. ops \in Seq(Ops) /\ r \in Int /\ m \in Int
  BY <1>1, <1>2, <1>4, OutcomeTyped
<1> DEFINE f == Moved(ops, r, m)
<1>6. /\ f \in FrameType /\ f.text = Me.text /\ f.call = Me.call /\ f.n = Me.n /\ f.pc = Me.pc
      /\ f.shown = Me.shown /\ f.over = Me.over
  BY <1>1, <1>5, MovedFrame
<1>7. Update(f)
  BY <1>2
<1> HIDE DEF f
<1>8. Keeps(f, buf)
  BY <1>1, <1>3, <1>6, KeepsMe, KeepsSame
<1> QED BY <1>1, <1>6, <1>7, <1>8, KeepsUpdate, OverUpdate

LEMMA NewKeeps ==
    ASSUME NEW who \in {"kernel", "trap", "IRQ"}, NEW call \in Prints, NEW b
    PROVE  Keeps(Frame(who, call), b)
<1> DEFINE f == Frame(who, call)
<1>1. /\ f.n = 0 /\ f.shown = <<>> /\ f.text = Text(call) /\ f.call = call
      /\ f.pc = IF Buffered(call) THEN "format" ELSE "print"
  BY NewFrame
<1>2. Len(<<>>) = 0 /\ DOMAIN <<>> = {}
  OBVIOUS
<1> HIDE DEF f
<1>3. Counted(f)
  BY <1>1, <1>2 DEF Counted
<1>4. ShownInv(f)
  BY <1>1, <1>2 DEF ShownInv
<1>5. HeldInv(f, b)
  BY <1>1 DEF HeldInv, Stored
<1> QED BY <1>3, <1>4, <1>5 DEF Keeps, f

LEMMA CallKeeps ==
    ASSUME Typed, Call
    PROVE  KeepsInv' /\ OverInv'
<1>1. calls' = <<Frame("kernel", Head(script.prints))>> /\ script.prints # <<>>
  BY DEF Call
<1>2. script.prints \in Seq(Prints)
  BY DEF Typed
<1>3. Head(script.prints) \in Prints
  BY <1>1, <1>2, HeadTailProperties
<1> DEFINE f == Frame("kernel", Head(script.prints))
<1>4. Keeps(f, buf')
  BY <1>3, NewKeeps
<1> HIDE DEF f
<1>5. DOMAIN calls' = {1} /\ calls'[1] = f
  BY <1>1 DEF f
<1>6. KeepsInv'
  BY <1>4, <1>5 DEF KeepsInv
<1>7. OverInv'
  BY <1>5 DEF OverInv
<1> QED BY <1>6, <1>7

LEMMA HandlerKeeps ==
    ASSUME Typed, KeepsInv, OverInv, NEW who \in {"trap", "IRQ"}, Handler(who)
    PROVE  KeepsInv' /\ OverInv'
<1>1. PICK call \in HandlerCalls : calls' = Append(Interrupted(call), Frame(who, call))
  BY DEF Handler, Interrupted
<1>2. call \in Prints /\ UNCHANGED buf
  BY DEF Prints, Handler
<1> DEFINE lower == Interrupted(call)
           f == Frame(who, call)
<1>3. /\ lower \in Seq(FrameType) /\ Len(lower) = Depth
      /\ \A i \in DOMAIN lower :
            /\ i \in DOMAIN calls /\ calls[i] \in FrameType
            /\ lower[i].over = calls[i].over \cup {Cover(calls[i], call)}
            /\ lower[i].n = calls[i].n /\ lower[i].text = calls[i].text
            /\ lower[i].pc = calls[i].pc /\ lower[i].call = calls[i].call
            /\ lower[i].shown = calls[i].shown
  BY <1>2, InterruptedSame
<1>4. f \in FrameType /\ f.call = call /\ Keeps(f, buf)
  BY <1>2, NewFrame, NewKeeps
<1>5. calls' = Append(lower, f)
  BY <1>1
<1>6. Depth \in Nat
  BY DEF Typed, Depth
<1> HIDE DEF lower, f, Depth
<1>7. /\ DOMAIN calls' = 1 .. Depth + 1 /\ DOMAIN lower = 1 .. Depth
      /\ calls'[Depth + 1] = f
      /\ \A i \in 1 .. Depth : calls'[i] = lower[i]
  BY <1>3, <1>4, <1>5, <1>6, AppendProperties
<1>8. \A i \in DOMAIN calls' : i \in DOMAIN lower \/ i = Depth + 1
  BY <1>6, <1>7
<1>9. ASSUME NEW i \in DOMAIN lower
      PROVE  /\ Keeps(lower[i], buf)
             /\ \A c : Cover(lower[i], c) = Cover(calls[i], c)
  <2>1. Keeps(calls[i], buf)
    BY <1>3 DEF KeepsInv
  <2>2. lower[i] \in FrameType /\ calls[i] \in FrameType
    BY <1>3
  <2>3. Keeps(lower[i], buf)
    BY <1>3, <2>1, <2>2, KeepsSame
  <2>4. \A c : Cover(lower[i], c) = Cover(calls[i], c)
    BY <1>3 DEF Cover, StoredIn
  <2> QED BY <2>3, <2>4
<1>10. KeepsInv'
  <2>1. ASSUME NEW i \in DOMAIN calls' PROVE Keeps(calls'[i], buf)
    BY <1>4, <1>7, <1>8, <1>9
  <2> QED BY <1>2, <2>1 DEF KeepsInv
<1>11. ASSUME NEW i \in DOMAIN calls', NEW j \in DOMAIN calls', i < j
       PROVE  Cover(calls'[i], calls'[j].call) \in calls'[i].over
  <2>1. i \in DOMAIN lower /\ calls'[i] = lower[i]
    BY <1>6, <1>7, <1>11
  <2>2. CASE j = Depth + 1
    BY <1>3, <1>4, <1>7, <1>9, <2>1, <2>2
  <2>3. CASE j \in DOMAIN lower
    <3>1. calls'[j] = lower[j] /\ lower[j].call = calls[j].call
      BY <1>3, <1>7, <2>3
    <3>2. Cover(calls[i], calls[j].call) \in calls[i].over
      BY <1>3, <1>11, <2>1, <2>3 DEF OverInv
    <3> QED BY <1>3, <1>9, <2>1, <3>1, <3>2
  <2> QED BY <1>8, <2>2, <2>3
<1>12. OverInv'
  BY <1>11 DEF OverInv
<1> QED BY <1>10, <1>12

\* A print runs past the end of __buf only in storing its own text.
BufferInv == fault = "buffer" => calls # <<>> /\ Len(Me.text) >= BufSize

LEMMA StepBuffer ==
    ASSUME Typed, BufferInv, [Next]_vars
    PROVE  BufferInv'
<1> SUFFICES ASSUME fault' = "buffer" PROVE BufferInv'
  BY DEF BufferInv
<1>1. CASE UNCHANGED vars
  BY <1>1 DEF vars, BufferInv, Me, Depth
<1>2. CASE Format
  <2>1. calls # <<>> /\ (OverrunStep \/ StoreStep)
    BY <1>2, FormatIs
  <2>2. ~StoreStep
    BY <1>2 DEF StoreStep, Format, At
  <2>3. Me.n >= BufSize /\ UNCHANGED calls
    BY <2>1, <2>2 DEF OverrunStep
  <2>4. Len(Me.text) >= BufSize
    <3>1. Me.n \in Nat /\ Len(Me.text) \in Nat /\ BufSize \in Nat /\ Me.n <= Len(Me.text)
      BY <2>1, TopFrame, ScreenAssumption DEF FrameType
    <3> QED BY <2>3, <3>1
  <2> QED BY <2>1, <2>3, <2>4 DEF BufferInv, Me, Depth
<1>3. CASE Call
  BY <1>3 DEF Call, BufferInv
<1>4. ~(\E who \in {"trap", "IRQ"} : Handler(who))
  BY DEF Handler
<1>5. ~NextChar /\ ~Return
  BY DEF NextChar, Return, At
<1>6. ~Access
  BY DEF Access, Draw, Tab, Turn, Load, Store, Test, Todo, At
<1> QED BY <1>1, <1>2, <1>3, <1>4, <1>5, <1>6, NextIs

Whole == Typed /\ Bounded /\ Formatted /\ KeepsInv /\ OverInv /\ BufferInv

LEMMA StepWhole == Whole /\ [Next]_vars => Whole'
<1> SUFFICES ASSUME Whole, [Next]_vars PROVE Whole'
  OBVIOUS
<1>1. Typed /\ Bounded /\ Formatted /\ KeepsInv /\ OverInv /\ BufferInv
  BY DEF Whole
<1>2. Typed' /\ Bounded' /\ Formatted' /\ BufferInv'
  BY <1>1, StepTyped, StepFormatted, StepBuffer
<1>3. KeepsInv' /\ OverInv'
  <2>1. CASE UNCHANGED vars
    BY <1>1, <2>1 DEF vars, KeepsInv, OverInv
  <2> QED BY <1>1, <2>1, NextIs, CallKeeps, HandlerKeeps, FormatKeeps, NextCharKeeps,
             ReturnKeeps, AccessKeeps
<1> QED BY <1>2, <1>3 DEF Whole

LEMMA InitWhole == Init => Whole
<1> SUFFICES ASSUME Init PROVE Whole
  OBVIOUS
<1>1. DOMAIN calls = {} /\ fault = "none"
  BY DEF Init
<1> QED BY <1>1, InitTyped DEF Whole, Formatted, KeepsInv, OverInv, BufferInv

LEMMA WholeImplies == Whole => TextIsWhole
<1> SUFFICES ASSUME Whole PROVE TextIsWhole
  OBVIOUS
<1>1. ASSUME NEW i \in DOMAIN calls
      PROVE  /\ Len(calls[i].shown) <= Len(calls[i].text)
             /\ calls[i].pc = "loop" => Len(calls[i].shown) = Len(calls[i].text)
             /\ \A k \in DOMAIN calls[i].shown :
                   \/ calls[i].shown[k] = calls[i].text[k]
                   \/ \E o \in calls[i].over : Overwrote(o, calls[i], k)
  <2> DEFINE f == calls[i]
  <2>1. f \in FrameType /\ f.n <= Len(f.text) /\ Counted(f) /\ ShownInv(f)
    BY DEF Whole, Typed, KeepsInv, Keeps
  <2> HIDE DEF f
  <2>2. /\ f.n \in Nat /\ Len(f.text) \in Nat /\ Len(<<>>) = 0
    BY <2>1 DEF FrameType
  <2>3. Len(f.shown) <= Len(f.text) /\ (f.pc = "loop" => Len(f.shown) = Len(f.text))
    BY <2>1, <2>2 DEF Counted
  <2>4. \A k \in DOMAIN f.shown : f.shown[k] = f.text[k] \/ \E o \in f.over : Overwrote(o, f, k)
    BY <2>1 DEF ShownInv, Accounts, Hides, Overwrote
  <2> QED BY <2>3, <2>4 DEF f
<1> QED BY <1>1 DEF TextIsWhole, Whole, BufferInv

\* However prints interrupt one another, each character shown is the print's own or
\* was put over it in __buf by a print that began meanwhile and only where that print
\* stored; __buf is overrun only by a text that does not fit it: for every screen,
\* buffer and text (printk.c: color_printk, __vsprintf, __buf).
THEOREM TextStaysWhole == Spec => []TextIsWhole
<1>1. Init => Whole
  BY InitWhole
<1>2. Whole /\ [Next]_vars => Whole'
  BY StepWhole
<1>3. Whole => TextIsWhole
  BY WholeImplies
<1> QED BY <1>1, <1>2, <1>3, PTL DEF Spec

-----------------------------------------------------------------------------
(***************************************************************************)
(* How far a stale X or Y can go while the cursor has not strayed.  What a  *)
(* print loads was left by one it interrupted or that interrupted it, and a *)
(* tab's count may be taken between a column far out, left over from the    *)
(* one and still to be tested, and a column at the left that the other left *)
(* behind; so the bounds grow with the depth of the stack.                  *)
(***************************************************************************)
\* The columns and rows that a print may still go on from here, the most a tab can
\* come to among them.
Ones(f) == IF Has(f.todo, "incX") THEN 1 ELSE 0
Turns(f) == IF Has(f.todo, "tab") THEN LastX + TabStop ELSE 0
Blanks(f) == f.tab_cnt + Ones(f) + Turns(f)
RisesY(t) == (IF Has(t, "incY") THEN 1 ELSE 0) + (IF Has(t, "testX") THEN 1 ELSE 0)

OwesX(t) == Has(t, "testX") \/ Has(t, "zeroX")
OwesY(t) == Has(t, "testY") \/ Has(t, "zeroY")

XBound(i) == LastX * (i + 1) + TabStop * i
YBound(i) == YChars - 1 + 2 * i

\* A tab is counted down to nothing.
Counting(f) ==
    /\ f.tab_cnt >= 0
    /\ f.tab_cnt = 0 \/ (Has(f.todo, "turn") /\ ~Has(f.todo, "tab"))

CountInv == \A i \in DOMAIN calls : Counting(calls[i]) /\ LastX + Blanks(calls[i]) <= XBound(i)

XInv ==
    \/ Pos.x <= LastX
    \/ \E j \in DOMAIN calls :
          /\ OwesX(calls[j].todo)
          /\ \A k \in DOMAIN calls : k >= j => Pos.x + Blanks(calls[k]) <= XBound(k)

YInv ==
    \/ Pos.y <= YChars - 1
    \/ \E j \in DOMAIN calls : OwesY(calls[j].todo) /\ Pos.y + RisesY(calls[j].todo) <= YBound(j)

RegXInv ==
    \A i \in DOMAIN calls :
        calls[i].todo # <<>> /\ Head(calls[i].todo) \in {"incX", "decX", "tab"} =>
            calls[i].reg + Blanks(calls[i]) <= XBound(i)

RegYInv ==
    \A i \in DOMAIN calls :
        calls[i].todo # <<>> /\ Head(calls[i].todo) \in {"incY", "decY", "draw"} =>
            calls[i].reg + RisesY(calls[i].todo) <= YBound(i)

\* X and Y are at -1 only between a step back and what puts it right, and no print
\* loads them there.
AtHead(ops) == calls # <<>> /\ Me.todo # <<>> /\ Head(Me.todo) \in ops
EdgeInv ==
    /\ Pos.x < 0 => AtHead({"testLeft", "lastX"})
    /\ Pos.y < 0 => AtHead({"testTop"})
NoLastRow == \A i \in DOMAIN calls : ~Has(calls[i].todo, "lastY")
RegLowInv ==
    \A i \in DOMAIN calls :
        calls[i].todo # <<>> /\ Head(calls[i].todo) \in Uses => calls[i].reg >= 0

XWithin == CountInv /\ XInv /\ RegXInv
YWithin == YInv /\ RegYInv
LowWithin == EdgeInv /\ NoLastRow /\ RegLowInv
Within == strayed = {} => XWithin /\ YWithin /\ LowWithin

LEMMA OnScreenIsLow ==
    /\ LastX \in Nat /\ YChars \in Nat \ {0} /\ LastY \in Nat /\ TabStop \in Nat \ {0}
    /\ XChars \in Nat \ {0}
    /\ \A x \in Int : x < XChars => x <= LastX
<1>1. LastX \in Nat /\ YChars \in Nat \ {0} /\ LastY \in Nat /\ TabStop \in Nat \ {0}
      /\ XChars \in Nat \ {0} /\ XCharSize \in Nat \ {0}
  BY Constants
<1>2. \A a, b \in Nat : b > 0 => a <= a * b
  OBVIOUS
<1>3. XChars - 1 \in Nat
  BY <1>1
<1>4. XChars - 1 <= LastX
  BY <1>1, <1>2, <1>3 DEF LastX
<1> QED BY <1>1, <1>4

LEMMA FrameCounts ==
    ASSUME NEW f \in FrameType
    PROVE  /\ f.todo \in Seq(Ops) /\ f.tab_cnt \in Int /\ f.reg \in Int
           /\ RisesY(f.todo) \in 0 .. 2 /\ Blanks(f) \in Int
           /\ Counting(f) => Blanks(f) \in Nat
<1>1. f.todo \in Seq(Ops) /\ f.tab_cnt \in Int /\ f.reg \in Int
  BY DEF FrameType
<1>2. LastX \in Nat /\ TabStop \in Nat
  BY OnScreenIsLow
<1>3. RisesY(f.todo) \in 0 .. 2
  BY DEF RisesY
<1> QED BY <1>1, <1>2, <1>3 DEF Blanks, Ones, Turns, Counting

LEMMA BoundsGrow ==
    /\ \A i \in Nat : XBound(i) \in Nat /\ YBound(i) \in Nat
    /\ \A i, j \in Nat : i < j => /\ XBound(i) + LastX + TabStop <= XBound(j)
                                  /\ YBound(i) + 2 <= YBound(j)
    /\ \A i \in Nat \ {0} : LastX + LastX + TabStop <= XBound(i) /\ YChars - 1 + 2 <= YBound(i)
<1>1. LastX \in Nat /\ TabStop \in Nat /\ YChars \in Nat \ {0}
  BY OnScreenIsLow
<1>2. \A a, i \in Nat : a * i \in Nat
  OBVIOUS
<1>3. ASSUME NEW a \in Nat, NEW i \in Nat, NEW j \in Nat, i < j PROVE a * i + a <= a * j
  <2>1. PICK d \in Nat : j = i + 1 + d
    <3>1. j - i - 1 \in Nat /\ j = i + 1 + (j - i - 1)
      BY <1>3
    <3> QED BY <3>1
  <2>2. a * j = a * i + a + a * d
    BY <2>1
  <2>3. a * d \in Nat /\ a * i \in Nat
    BY <1>2
  <2> QED BY <2>2, <2>3
<1>4. \A a \in Nat : a * 0 = 0 /\ a * (0 + 1) = a
  OBVIOUS
<1>5. \A i \in Nat : /\ LastX * (i + 1) \in Nat /\ TabStop * i \in Nat
                     /\ XBound(i) \in Nat /\ YBound(i) \in Nat
  <2> TAKE i \in Nat
  <2>1. TabStop * i \in Nat /\ LastX * (i + 1) \in Nat
    BY <1>1, <1>2
  <2> QED BY <1>1, <2>1 DEF XBound, YBound
<1>6. ASSUME NEW i \in Nat, NEW j \in Nat, i < j
      PROVE  XBound(i) + LastX + TabStop <= XBound(j) /\ YBound(i) + 2 <= YBound(j)
  <2>1. TabStop * i + TabStop <= TabStop * j
    BY <1>1, <1>3, <1>6
  <2>2. LastX * (i + 1) + LastX <= LastX * (j + 1)
    <3>1. i + 1 < j + 1 /\ i + 1 \in Nat /\ j + 1 \in Nat
      BY <1>6
    <3> QED BY <1>1, <1>3, <3>1
  <2>3. XBound(i) + LastX + TabStop <= XBound(j)
    <3> DEFINE p == LastX * (i + 1)
               q == LastX * (j + 1)
               v == TabStop * i
               w == TabStop * j
    <3>1. p \in Nat /\ q \in Nat /\ v \in Nat /\ w \in Nat /\ v + TabStop <= w /\ p + LastX <= q
      BY <1>5, <2>1, <2>2
    <3>2. XBound(i) = p + v /\ XBound(j) = q + w
      BY DEF XBound
    <3> HIDE DEF p, q, v, w
    <3> QED BY <1>1, <3>1, <3>2
  <2>4. YBound(i) + 2 <= YBound(j)
    BY <1>1, <1>6 DEF YBound
  <2> QED BY <2>3, <2>4
<1>7. XBound(0) = LastX /\ YBound(0) = YChars - 1
  BY <1>1, <1>4 DEF XBound, YBound
<1>8. ASSUME NEW i \in Nat \ {0}
      PROVE  LastX + LastX + TabStop <= XBound(i) /\ YChars - 1 + 2 <= YBound(i)
  <2>1. 0 \in Nat /\ i \in Nat /\ 0 < i
    BY <1>8
  <2>2. XBound(0) + LastX + TabStop <= XBound(i) /\ YBound(0) + 2 <= YBound(i)
    BY <1>6, <2>1
  <2> QED BY <1>7, <2>2
<1>9. \A i, j \in Nat : i < j => /\ XBound(i) + LastX + TabStop <= XBound(j)
                                  /\ YBound(i) + 2 <= YBound(j)
  BY <1>6
<1> QED BY <1>5, <1>8, <1>9

LEMMA LiteralHas ==
    /\ \A o : ~Has(<<>>, o)
    /\ \A o : Has(TurnOps, o) <=> o \in {"loadY", "draw", "loadX", "incX", "turn"}
    /\ \A o : Has(<<"loadY", "incY", "zeroX">>, o) <=> o \in {"loadY", "incY", "zeroX"}
    /\ \A o : Has(<<"zeroY">>, o) <=> o = "zeroY"
    /\ \A o : Has(<<"lastX", "loadY", "decY", "testTop">>, o)
                 <=> o \in {"lastX", "loadY", "decY", "testTop"}
    /\ \A o : Has(<<"lastY">>, o) <=> o = "lastY"
<1>1. \A o : ~Has(<<>>, o)
  BY DEF Has
<1>2. \A o : Has(TurnOps, o) <=> o \in {"loadY", "draw", "loadX", "incX", "turn"}
  BY DEF Has, TurnOps
<1>3. \A o : Has(<<"loadY", "incY", "zeroX">>, o) <=> o \in {"loadY", "incY", "zeroX"}
  BY DEF Has
<1>4. \A o : Has(<<"zeroY">>, o) <=> o = "zeroY"
  BY DEF Has
<1>5. \A o : Has(<<"lastX", "loadY", "decY", "testTop">>, o)
                <=> o \in {"lastX", "loadY", "decY", "testTop"}
  BY DEF Has
<1>6. \A o : Has(<<"lastY">>, o) <=> o = "lastY"
  BY DEF Has
<1> QED BY <1>1, <1>2, <1>3, <1>4, <1>5, <1>6

\* An access that goes on to `ops` leaves no more blanks and rows than it found,
\* save that a tab finds out how many it is.
LEMMA OutcomeMoves ==
    ASSUME Typed, calls # <<>>, Me.todo # <<>>, InOrder(Me.todo), Counting(Me),
           NEW ops \in Seq(Ops), NEW r \in Int, NEW m \in Int,
           Outcome(Head(Me.todo), ops, r, m),
           NEW f \in FrameType, f.todo = ops \o Tail(Me.todo), f.tab_cnt = m
    PROVE  /\ Head(Me.todo) # "tab" => Counting(f) /\ Blanks(f) <= Blanks(Me)
           /\ Head(Me.todo) = "incX" => Blanks(f) + 1 <= Blanks(Me)
           /\ Head(Me.todo) = "tab" =>
                 /\ Blanks(f) = m /\ Blanks(Me) = LastX + TabStop
                 /\ m >= 0 => Counting(f)
           /\ RisesY(f.todo) <= RisesY(Me.todo)
           /\ Head(Me.todo) = "incY" => RisesY(f.todo) + 1 <= RisesY(Me.todo)
<1> DEFINE op == Head(Me.todo)
           u == Tail(Me.todo)
           new == ops \o u
<1>1. Me.todo \in Seq(Ops) /\ Me.tab_cnt \in Int /\ LastX \in Nat /\ TabStop \in Nat
  BY TopFrame, FrameCounts, OnScreenIsLow
<1>2. /\ u \in Seq(Ops) /\ op \in Ops
      /\ \A o \in Needs(op) : Has(u, o)
      /\ \A o \in Bars(op) : ~Has(u, o)
      /\ \A o : Has(Me.todo, o) <=> op = o \/ Has(u, o)
  BY <1>1, TailHas, TailInOrder
<1>3. /\ \A o : Has(new, o) <=> Has(ops, o) \/ Has(u, o)
      /\ Outcome(op, ops, r, m) /\ f.todo = new
  BY <1>2, ConcatHas
<1>4. Me.tab_cnt >= 0 /\ (Me.tab_cnt = 0 \/ (Has(Me.todo, "turn") /\ ~Has(Me.todo, "tab")))
  BY DEF Counting
<1> HIDE DEF op, u, new
<1>5. CASE op = "tab"
  <2>1. ops = <<>> /\ Me.tab_cnt = 0
    BY <1>2, <1>3, <1>4, <1>5 DEF Outcome
  <2>2. Has(u, "turn") /\ ~Has(u, "tab") /\ ~Has(u, "incX")
    BY <1>2, <1>5 DEF Needs, Bars
  <2>3. /\ Has(new, "turn") /\ ~Has(new, "tab") /\ ~Has(new, "incX")
        /\ Has(Me.todo, "tab") /\ ~Has(Me.todo, "incX")
        /\ \A o : Has(new, o) => Has(Me.todo, o)
    BY <1>2, <1>3, <1>5, <2>1, <2>2, LiteralHas
  <2>4. Blanks(f) = m /\ Blanks(Me) = LastX + TabStop /\ (m >= 0 => Counting(f))
    BY <1>1, <1>3, <2>1, <2>3 DEF Blanks, Ones, Turns, Counting
  <2>5. RisesY(new) <= RisesY(Me.todo)
    BY <2>3 DEF RisesY
  <2> QED BY <1>3, <1>5, <2>4, <2>5 DEF op
<1>6. CASE op = "turn"
  <2>1. ~Has(u, "tab") /\ ~Has(u, "incX") /\ ~Has(u, "turn")
    BY <1>2, <1>6 DEF Bars
  <2>2. ~Has(Me.todo, "tab") /\ ~Has(Me.todo, "incX") /\ Blanks(Me) = Me.tab_cnt
    BY <1>1, <1>2, <1>6, <2>1 DEF Blanks, Ones, Turns
  <2>3. CASE Me.tab_cnt = 0
    <3>1. ops = <<>> /\ m = 0
      BY <1>3, <1>6, <2>3 DEF Outcome
    <3>2. /\ ~Has(new, "tab") /\ ~Has(new, "incX")
          /\ \A o : Has(new, o) => Has(Me.todo, o)
      BY <1>2, <1>3, <2>1, <3>1, LiteralHas
    <3>3. Counting(f) /\ Blanks(f) <= Blanks(Me) /\ RisesY(new) <= RisesY(Me.todo)
      BY <1>1, <1>3, <2>2, <2>3, <3>1, <3>2 DEF Blanks, Ones, Turns, Counting, RisesY
    <3> QED BY <1>3, <1>6, <3>3 DEF op
  <2>4. CASE Me.tab_cnt # 0
    <3>1. ops = TurnOps /\ m = Me.tab_cnt - 1
      BY <1>3, <1>6, <2>4 DEF Outcome
    <3>2. /\ ~Has(new, "tab") /\ Has(new, "incX") /\ Has(new, "turn")
          /\ \A o \in {"incY", "testX"} : Has(new, o) => Has(Me.todo, o)
      BY <1>2, <1>3, <2>1, <3>1, LiteralHas
    <3>3. Counting(f) /\ Blanks(f) <= Blanks(Me)
      <4>1. Has(f.todo, "incX") /\ Has(f.todo, "turn") /\ ~Has(f.todo, "tab")
        BY <1>3, <3>2
      <4>2. f.tab_cnt = Me.tab_cnt - 1
        BY <3>1
      <4>3. Blanks(f) = f.tab_cnt + 1
        BY <1>1, <4>1, <4>2 DEF Blanks, Ones, Turns
      <4> QED BY <1>1, <1>4, <2>2, <2>4, <4>1, <4>2, <4>3 DEF Counting
    <3>4. RisesY(new) <= RisesY(Me.todo)
      BY <3>2 DEF RisesY
    <3> QED BY <1>3, <1>6, <3>3, <3>4 DEF op
  <2> QED BY <2>3, <2>4
<1>7. CASE op \notin {"tab", "turn"}
  <2>1. m = Me.tab_cnt
    BY <1>3, <1>7 DEF Outcome
  <2>2. \/ ops = <<>>
        \/ op = "testX" /\ ops = <<"loadY", "incY", "zeroX">>
        \/ op = "testY" /\ ops = <<"zeroY">>
        \/ op = "testLeft" /\ ops = <<"lastX", "loadY", "decY", "testTop">>
        \/ op = "testTop" /\ ops = <<"lastY">>
    BY <1>2, <1>3, <1>7, OutcomeOps
  <2>3. /\ \A o \in {"incX", "tab", "turn", "testX"} : Has(new, o) <=> Has(u, o)
        /\ op # "testX" => (Has(new, "incY") <=> Has(u, "incY"))
    BY <1>3, <2>2, LiteralHas
  <2>4. /\ op = "incX" => ~Has(u, "incX")
        /\ op = "incY" => ~Has(u, "incY")
        /\ op = "testX" => ~Has(u, "incY") /\ ~Has(u, "testX")
    BY <1>2 DEF Bars
  <2>5. /\ Has(new, "incX") => Has(Me.todo, "incX") /\ op # "incX"
        /\ Has(new, "tab") <=> Has(Me.todo, "tab")
        /\ Has(new, "turn") <=> Has(Me.todo, "turn")
        /\ op = "incX" => Has(Me.todo, "incX")
    BY <1>2, <1>7, <2>3, <2>4
  <2>6. /\ Blanks(f) <= Blanks(Me)
        /\ op = "incX" => Blanks(f) + 1 <= Blanks(Me)
    <3>1. f.tab_cnt = Me.tab_cnt /\ f.tab_cnt \in Int
      BY <1>1, <2>1
    <3>2. Turns(f) = Turns(Me)
      BY <1>3, <2>5 DEF Turns
    <3>3. /\ Blanks(f) = f.tab_cnt + Ones(f) + Turns(f)
          /\ Blanks(Me) = Me.tab_cnt + Ones(Me) + Turns(Me)
          /\ Ones(f) \in 0 .. 1 /\ Ones(Me) \in 0 .. 1 /\ Turns(f) \in Nat
      BY <1>1 DEF Blanks, Ones, Turns
    <3>4. Ones(f) <= Ones(Me) /\ (op = "incX" => Ones(f) + 1 <= Ones(Me))
      <4>1. Has(f.todo, "incX") => Has(Me.todo, "incX") /\ op # "incX"
        BY <1>3, <2>5
      <4>2. op = "incX" => Has(Me.todo, "incX")
        BY <2>5
      <4>3. CASE Has(f.todo, "incX")
        BY <4>1, <4>3 DEF Ones
      <4>4. CASE ~Has(f.todo, "incX")
        BY <4>2, <4>4 DEF Ones
      <4> QED BY <4>3, <4>4
    <3> QED BY <3>1, <3>2, <3>3, <3>4
  <2>7. Counting(f)
    BY <1>3, <1>4, <2>1, <2>5 DEF Counting
  <2>8. RisesY(new) <= RisesY(Me.todo) /\ (op = "incY" => RisesY(new) + 1 <= RisesY(Me.todo))
    <3>1. CASE op = "testX"
      BY <1>2, <2>3, <2>4, <3>1 DEF RisesY
    <3>2. CASE op # "testX"
      BY <1>2, <2>3, <2>4, <3>2 DEF RisesY
    <3> QED BY <3>1, <3>2
  <2> QED BY <1>3, <1>7, <2>6, <2>7, <2>8 DEF op
<1> QED BY <1>5, <1>6, <1>7

LEMMA AccessStep ==
    ASSUME Sound, Access
    PROVE  /\ calls # <<>> /\ Me.todo # <<>> /\ Me.todo \in Seq(Ops) /\ InOrder(Me.todo)
           /\ Me \in FrameType /\ Depth \in DOMAIN calls /\ Depth \in Nat \ {0}
           /\ DOMAIN calls = 1 .. Depth /\ Pos.x \in Int /\ Pos.y \in Int
           /\ Pos \in [x : Int, y : Int]
           /\ \A i \in DOMAIN calls : calls[i] \in FrameType
           /\ Pos' = NextPos(Head(Me.todo))
           /\ calls' \in Seq(FrameType) /\ DOMAIN calls' = DOMAIN calls /\ Depth' = Depth
           /\ \A i \in DOMAIN calls \ {Depth} : calls'[i] = calls[i]
           /\ \E ops \in Seq(Ops), r \in Int, m \in Int :
                  /\ Outcome(Head(Me.todo), ops, r, m)
                  /\ calls'[Depth] \in FrameType
                  /\ calls'[Depth].todo = ops \o Tail(Me.todo) /\ calls'[Depth].reg = r
                  /\ calls'[Depth].tab_cnt = m
           /\ strayed \subseteq strayed'
           /\ Head(Me.todo) = "testTop" /\ Pos.y < 0 => strayed' # {}
           /\ Head(Me.todo) = "tab" /\ NextStop(Me.reg) - Pos.x < 0 => strayed' # {}
<1>1. Typed /\ OrderInv
  BY DEF Sound
<1>2. calls # <<>> /\ Me.todo # <<>> /\ Pos' = NextPos(Head(Me.todo))
  BY <1>1, AccessIs
<1>3. PICK ops, r, m : Update(Moved(ops, r, m)) /\ Outcome(Head(Me.todo), ops, r, m)
  BY <1>1, AccessIs
<1>4. /\ Me.todo \in Seq(Ops) /\ Depth \in DOMAIN calls /\ Me \in FrameType
      /\ Depth \in Nat \ {0} /\ DOMAIN calls = 1 .. Depth
  BY <1>1, <1>2, TopFrame DEF FrameType
<1>5. InOrder(Me.todo) /\ Head(Me.todo) \in Ops
  BY <1>1, <1>2, <1>4, TailHas DEF OrderInv, Me
<1>6. ops \in Seq(Ops) /\ r \in Int /\ m \in Int
  BY <1>1, <1>2, <1>3, <1>5, OutcomeTyped
<1>7. /\ Moved(ops, r, m) \in FrameType
      /\ Moved(ops, r, m).todo = ops \o Tail(Me.todo) /\ Moved(ops, r, m).reg = r
      /\ Moved(ops, r, m).tab_cnt = m
  BY <1>1, <1>2, <1>6, MovedFrame
<1>8. /\ DOMAIN calls' = DOMAIN calls /\ calls'[Depth] = Moved(ops, r, m)
      /\ calls' \in Seq(FrameType) /\ Len(calls') = Depth
      /\ \A i \in DOMAIN calls \ {Depth} : calls'[i] = calls[i]
  BY <1>1, <1>2, <1>3, <1>7, Updated
<1>9. /\ strayed \subseteq strayed'
      /\ Head(Me.todo) = "testTop" /\ Pos.y < 0 => strayed' # {}
      /\ Head(Me.todo) = "tab" /\ NextStop(Me.reg) - Pos.x < 0 => strayed' # {}
  <2>1. CASE Test
    <3>1. Head(Me.todo) # "tab"
      BY <2>1 DEF Test, Todo
    <3> QED BY <2>1, <3>1 DEF Test
  <2>2. CASE Tab
    <3>1. Head(Me.todo) = "tab"
      BY <2>2 DEF Tab, Todo
    <3> QED BY <2>2, <3>1 DEF Tab
  <2>3. CASE Draw \/ Turn \/ Load \/ Store
    <3>1. Head(Me.todo) \notin {"testTop", "tab"}
      BY <2>3 DEF Draw, Turn, Load, Store, Todo
    <3>2. UNCHANGED strayed
      BY <2>3 DEF Draw, Turn, Load, Store
    <3> QED BY <3>1, <3>2
  <2> QED BY <2>1, <2>2, <2>3 DEF Access
<1>10. /\ Pos \in [x : Int, y : Int] /\ Pos.x \in Int /\ Pos.y \in Int
       /\ \A i \in DOMAIN calls : calls[i] \in FrameType
  BY <1>1 DEF Typed
<1>11. Depth' = Depth
  BY <1>8 DEF Depth
<1> QED BY <1>2, <1>3, <1>4, <1>5, <1>6, <1>7, <1>8, <1>9, <1>10, <1>11

LEMMA NextStopIs ==
    ASSUME NEW x \in Int
    PROVE  NextStop(x) \in Int /\ NextStop(x) <= x + TabStop
<1>1. TabStop \in Nat \ {0}
  BY OnScreenIsLow
<1>2. \A y \in Int, d \in Nat \ {0} : y \div d \in Int /\ (y \div d) * d \in Int /\ (y \div d) * d <= y
  OBVIOUS
<1>3. x + TabStop \in Int
  BY <1>1
<1> QED BY <1>1, <1>2, <1>3 DEF NextStop

LEMMA AccessWithinX ==
    ASSUME Sound, Access, Within, strayed' = {}
    PROVE  XWithin'
<1> DEFINE op == Head(Me.todo)
           u == Tail(Me.todo)
           new == calls'[Depth]
<1>1. /\ Typed /\ CountInv /\ XInv /\ RegXInv /\ EdgeInv
      /\ op = "tab" => NextStop(Me.reg) - Pos.x >= 0
  <2>1. strayed = {} /\ ~(op = "tab" /\ NextStop(Me.reg) - Pos.x < 0)
    BY AccessStep
  <2>2. NextStop(Me.reg) \in Int /\ Pos.x \in Int
    BY AccessStep, FrameCounts, NextStopIs
  <2> QED BY <2>1, <2>2 DEF Sound, Within, XWithin, LowWithin
<1>2. /\ calls # <<>> /\ Me.todo # <<>> /\ Me.todo \in Seq(Ops) /\ InOrder(Me.todo)
      /\ Me \in FrameType /\ Depth \in DOMAIN calls /\ Depth \in Nat \ {0}
      /\ DOMAIN calls = 1 .. Depth /\ Pos.x \in Int /\ Pos \in [x : Int, y : Int]
      /\ Pos' = NextPos(op)
      /\ DOMAIN calls' = DOMAIN calls
      /\ \A i \in DOMAIN calls \ {Depth} : calls'[i] = calls[i]
      /\ \A i \in DOMAIN calls : calls[i] \in FrameType
  BY AccessStep
<1>3. PICK ops \in Seq(Ops), r \in Int, m \in Int :
         /\ Outcome(op, ops, r, m) /\ new \in FrameType
         /\ new.todo = ops \o u /\ new.reg = r /\ new.tab_cnt = m
  BY AccessStep
<1>4. Counting(Me) /\ LastX + Blanks(Me) <= XBound(Depth)
  BY <1>1, <1>2 DEF CountInv, Me
<1>5. /\ op # "tab" => Counting(new) /\ Blanks(new) <= Blanks(Me)
      /\ op = "incX" => Blanks(new) + 1 <= Blanks(Me)
      /\ op = "tab" => /\ Blanks(new) = m /\ Blanks(Me) = LastX + TabStop
                       /\ m >= 0 => Counting(new)
  <2> HIDE DEF new, Depth, Me
  <2>1. Typed /\ calls # <<>> /\ Me.todo # <<>> /\ InOrder(Me.todo) /\ Counting(Me)
    BY <1>1, <1>2, <1>4
  <2> QED BY <1>3, <2>1, OutcomeMoves
<1>6. /\ u \in Seq(Ops) /\ (\A o \in Needs(op) : Has(u, o))
      /\ \A o : Has(Me.todo, o) <=> op = o \/ Has(u, o)
  BY <1>2, TailHas, TailInOrder
<1>7. \A o : Has(new.todo, o) <=> Has(ops, o) \/ Has(u, o)
  <2> HIDE DEF u, new
  <2> QED BY <1>3, <1>6, ConcatHas
<1>8. new.todo # <<>> /\ Head(new.todo) \in {"incX", "decX", "tab"} => op = "loadX"
  BY <1>1, <1>2, <1>3, UseIsLoaded DEF Uses
<1>9. /\ LastX \in Nat /\ TabStop \in Nat /\ Me.reg \in Int
      /\ Blanks(Me) \in Nat /\ Blanks(new) \in Int
      /\ \A i \in DOMAIN calls : i \in Nat /\ XBound(i) \in Nat /\ Blanks(calls[i]) \in Int
  <2>1. \A i \in DOMAIN calls : i \in Nat
    BY <1>2
  <2> QED BY <1>2, <1>3, <1>4, <2>1, OnScreenIsLow, FrameCounts, BoundsGrow
<1>10. op \in {"incX", "decX", "tab"} => Me.reg + Blanks(Me) <= XBound(Depth)
  BY <1>1, <1>2 DEF RegXInv, Me
<1>11. op = "tab" => Pos.x >= 0 /\ m = NextStop(Me.reg) - Pos.x /\ NextStop(Me.reg) <= Me.reg + TabStop
                     /\ NextStop(Me.reg) \in Int
  <2>1. op = "tab" => Pos.x >= 0
    BY <1>1, <1>2 DEF EdgeInv, AtHead
  <2>2. op = "tab" => m = NextStop(Me.reg) - Pos.x
    BY <1>3 DEF Outcome
  <2> QED BY <1>9, <2>1, <2>2, NextStopIs
<1>12. Me = calls[Depth]
  BY DEF Me
<1>13. \A k \in DOMAIN calls : k >= Depth => k = Depth
  BY <1>2
<1> HIDE DEF op, u, new, Depth, Me, XBound
<1>14. Counting(new) /\ LastX + Blanks(new) <= XBound(Depth)
  <2>1. CASE op = "tab"
    <3>1. m >= 0 /\ LastX + m <= Me.reg + Blanks(Me)
      BY <1>1, <1>2, <1>5, <1>9, <1>11, <2>1
    <3> QED BY <1>2, <1>5, <1>9, <1>10, <2>1, <3>1
  <2>2. CASE op # "tab"
    BY <1>2, <1>4, <1>5, <1>9, <2>2
  <2> QED BY <2>1, <2>2
<1>15. CountInv'
  <2>1. ASSUME NEW i \in DOMAIN calls PROVE Counting(calls'[i]) /\ LastX + Blanks(calls'[i]) <= XBound(i)
    <3>1. CASE i = Depth
      BY <1>14, <3>1 DEF new
    <3>2. CASE i # Depth
      BY <1>1, <1>2, <3>2 DEF CountInv
    <3> QED BY <3>1, <3>2
  <2> QED BY <1>2, <2>1 DEF CountInv
<1>16. ASSUME OwesX(new.todo), Pos'.x + Blanks(new) <= XBound(Depth) PROVE XInv'
  BY <1>2, <1>13, <1>16 DEF XInv, new
<1>17. XInv'
  <2>1. CASE op \in {"incX", "decX"}
    <3>1. Pos'.x = Me.reg + (IF op = "incX" THEN 1 ELSE -1)
      BY <1>2, <2>1 DEF NextPos
    <3>2. OwesX(new.todo)
      BY <1>6, <1>7, <2>1 DEF Needs, OwesX
    <3>3. Pos'.x + Blanks(new) <= XBound(Depth)
      <4>1. Me.reg + Blanks(Me) <= XBound(Depth) /\ XBound(Depth) \in Nat
        BY <1>2, <1>9, <1>10, <2>1
      <4>3. CASE op = "incX"
        <5>1. Pos'.x = Me.reg + 1 /\ Blanks(new) + 1 <= Blanks(Me)
          BY <1>5, <3>1, <4>3
        <5> QED BY <1>9, <4>1, <5>1
      <4>4. CASE op = "decX"
        <5>1. Pos'.x = Me.reg - 1 /\ Blanks(new) <= Blanks(Me)
          BY <1>5, <1>9, <3>1, <4>4
        <5> QED BY <1>9, <4>1, <5>1
      <4> QED BY <2>1, <4>3, <4>4
    <3> QED BY <1>16, <3>2, <3>3
  <2>2. CASE op \in {"zeroX", "lastX"}
    <3>1. Pos'.x = 0 \/ Pos'.x = LastX
      BY <1>2, <2>2 DEF NextPos
    <3> QED BY <1>9, <3>1 DEF XInv
  <2>4. CASE op = "tab"
    <3>1. Pos'.x = Pos.x
      BY <1>2, <2>4 DEF NextPos
    <3>2. OwesX(new.todo)
      BY <1>6, <1>7, <2>4 DEF Needs, OwesX
    <3>3. Pos'.x + Blanks(new) <= Me.reg + Blanks(Me)
      BY <1>2, <1>5, <1>9, <1>11, <2>4, <3>1
    <3>4. Pos'.x + Blanks(new) <= XBound(Depth)
      BY <1>2, <1>9, <1>10, <2>4, <3>1, <3>3
    <3> QED BY <1>16, <3>2, <3>4
  <2>3. CASE op \notin {"incX", "decX", "zeroX", "lastX", "tab"}
    <3>1. Pos'.x = Pos.x
      BY <1>2, <2>3 DEF NextPos
    <3>2. CASE Pos.x <= LastX
      BY <3>1, <3>2 DEF XInv
    <3>3. ASSUME NEW j \in DOMAIN calls, OwesX(calls[j].todo), ~(Pos.x <= LastX),
                 \A k \in DOMAIN calls : k >= j => Pos.x + Blanks(calls[k]) <= XBound(k)
          PROVE  XInv'
      <4>1. OwesX(calls'[j].todo)
        <5>1. CASE j # Depth
          BY <1>2, <3>3, <5>1
        <5>2. CASE j = Depth /\ op = "testX"
          <6>1. Pos.x >= XChars
            BY <1>2, <3>3, OnScreenIsLow
          <6>2. ops = <<"loadY", "incY", "zeroX">>
            BY <1>3, <5>2, <6>1 DEF Outcome
          <6>3. Has(new.todo, "zeroX")
            BY <1>7, <6>2, LiteralHas
          <6> QED BY <5>2, <6>3 DEF OwesX, new
        <5>3. CASE j = Depth /\ op # "testX"
          <6>1. OwesX(Me.todo)
            BY <1>12, <3>3, <5>3
          <6>2. OwesX(new.todo)
            BY <1>6, <1>7, <2>3, <5>3, <6>1 DEF OwesX
          <6> QED BY <5>3, <6>2 DEF new
        <5> QED BY <5>1, <5>2, <5>3
      <4>2. ASSUME NEW k \in DOMAIN calls, k >= j PROVE Pos'.x + Blanks(calls'[k]) <= XBound(k)
        <5>1. CASE k = Depth
          <6>1. Pos.x + Blanks(Me) <= XBound(Depth)
            BY <1>12, <3>3, <4>2, <5>1
          <6>2. Blanks(new) <= Blanks(Me)
            BY <1>5, <2>3
          <6>3. Pos'.x + Blanks(new) <= XBound(Depth)
            BY <1>2, <1>9, <3>1, <6>1, <6>2
          <6> QED BY <5>1, <6>3 DEF new
        <5>2. CASE k # Depth
          BY <1>2, <3>1, <3>3, <4>2, <5>2
        <5> QED BY <5>1, <5>2
      <4> QED BY <1>2, <4>1, <4>2 DEF XInv
    <3> QED BY <1>1, <3>2, <3>3 DEF XInv
  <2> QED BY <2>1, <2>2, <2>3, <2>4
<1>18. ASSUME new.todo # <<>>, Head(new.todo) \in {"incX", "decX", "tab"}
       PROVE  r + Blanks(new) <= XBound(Depth)
  <2>1. r = Pos.x /\ op # "tab"
    BY <1>3, <1>8, <1>18 DEF Outcome
  <2>2. CASE Pos.x <= LastX
    BY <1>2, <1>9, <1>14, <2>1, <2>2
  <2>3. CASE ~(Pos.x <= LastX)
    <3>1. PICK j \in DOMAIN calls :
             \A k \in DOMAIN calls : k >= j => Pos.x + Blanks(calls[k]) <= XBound(k)
      BY <1>1, <2>3 DEF XInv
    <3>2. Pos.x + Blanks(Me) <= XBound(Depth)
      BY <1>2, <1>12, <3>1
    <3>3. Blanks(new) <= Blanks(Me)
      BY <1>5, <2>1
    <3> QED BY <1>2, <1>9, <2>1, <3>2, <3>3
  <2> QED BY <2>2, <2>3
<1>19. RegXInv'
  <2>1. ASSUME NEW i \in DOMAIN calls, calls'[i].todo # <<>>,
               Head(calls'[i].todo) \in {"incX", "decX", "tab"}
        PROVE  calls'[i].reg + Blanks(calls'[i]) <= XBound(i)
    <3>1. CASE i = Depth
      BY <1>3, <1>18, <2>1, <3>1 DEF new
    <3>2. CASE i # Depth
      BY <1>1, <1>2, <2>1, <3>2 DEF RegXInv
    <3> QED BY <3>1, <3>2
  <2> QED BY <1>2, <2>1 DEF RegXInv
<1> QED BY <1>15, <1>17, <1>19 DEF XWithin

LEMMA AccessWithinY ==
    ASSUME Sound, Access, Within, strayed' = {}
    PROVE  YWithin'
<1> DEFINE op == Head(Me.todo)
           u == Tail(Me.todo)
           new == calls'[Depth]
<1>1. /\ Typed /\ CountInv /\ YInv /\ RegYInv /\ NoLastRow
  <2>1. strayed = {}
    BY AccessStep
  <2> QED BY <2>1 DEF Sound, Within, XWithin, YWithin, LowWithin
<1>2. /\ calls # <<>> /\ Me.todo # <<>> /\ Me.todo \in Seq(Ops) /\ InOrder(Me.todo)
      /\ Me \in FrameType /\ Depth \in DOMAIN calls /\ Depth \in Nat \ {0}
      /\ DOMAIN calls = 1 .. Depth /\ Pos.y \in Int /\ Pos \in [x : Int, y : Int]
      /\ Pos' = NextPos(op)
      /\ DOMAIN calls' = DOMAIN calls
      /\ \A i \in DOMAIN calls \ {Depth} : calls'[i] = calls[i]
      /\ \A i \in DOMAIN calls : calls[i] \in FrameType
  BY AccessStep
<1>3. PICK ops \in Seq(Ops), r \in Int, m \in Int :
         /\ Outcome(op, ops, r, m) /\ new \in FrameType
         /\ new.todo = ops \o u /\ new.reg = r /\ new.tab_cnt = m
  BY AccessStep
<1>4. Counting(Me) /\ Me = calls[Depth]
  BY <1>1, <1>2 DEF CountInv, Me
<1>5. /\ RisesY(new.todo) <= RisesY(Me.todo)
      /\ op = "incY" => RisesY(new.todo) + 1 <= RisesY(Me.todo)
  <2> HIDE DEF new, Depth, Me
  <2>1. Typed /\ calls # <<>> /\ Me.todo # <<>> /\ InOrder(Me.todo) /\ Counting(Me)
    BY <1>1, <1>2, <1>4
  <2> QED BY <1>3, <2>1, OutcomeMoves
<1>6. /\ u \in Seq(Ops) /\ (\A o \in Needs(op) : Has(u, o))
      /\ \A o : Has(Me.todo, o) <=> op = o \/ Has(u, o)
  BY <1>2, TailHas, TailInOrder
<1>7. \A o : Has(new.todo, o) <=> Has(ops, o) \/ Has(u, o)
  <2> HIDE DEF u, new
  <2> QED BY <1>3, <1>6, ConcatHas
<1>8. new.todo # <<>> /\ Head(new.todo) \in {"incY", "decY", "draw"} => op = "loadY"
  BY <1>1, <1>2, <1>3, UseIsLoaded DEF Uses
<1>9. /\ RisesY(new.todo) \in 0 .. 2 /\ RisesY(Me.todo) \in 0 .. 2 /\ Me.reg \in Int
      /\ \A i \in DOMAIN calls : RisesY(calls[i].todo) \in 0 .. 2
  BY <1>2, <1>3, FrameCounts
<1>11. YBound(Depth) \in Nat /\ YChars \in Nat \ {0}
       /\ YChars - 1 + 2 <= YBound(Depth)
       /\ \A j \in DOMAIN calls : YBound(j) \in Nat /\ (j < Depth => YBound(j) + 2 <= YBound(Depth))
  <2> HIDE DEF Depth
  <2>1. YChars \in Nat \ {0}
    BY OnScreenIsLow
  <2>2. YBound(Depth) \in Nat /\ YChars - 1 + 2 <= YBound(Depth)
    BY <1>2, BoundsGrow
  <2>3. \A j \in DOMAIN calls : j \in Nat
    BY <1>2
  <2>4. \A j \in DOMAIN calls : YBound(j) \in Nat /\ (j < Depth => YBound(j) + 2 <= YBound(Depth))
    BY <1>2, <2>3, BoundsGrow
  <2> QED BY <2>1, <2>2, <2>4
<1>12. op \in {"incY", "decY"} => Me.reg + RisesY(Me.todo) <= YBound(Depth)
  BY <1>1, <1>2 DEF RegYInv, Me
<1>14. op # "lastY"
  BY <1>1, <1>2, <1>4, <1>6 DEF NoLastRow
<1> HIDE DEF op, u, new, Depth, Me, YBound, RisesY
<1>15. ASSUME OwesY(new.todo), Pos'.y + RisesY(new.todo) <= YBound(Depth) PROVE YInv'
  BY <1>2, <1>15 DEF YInv, new
<1>17. YInv'
  <2>1. CASE op \in {"incY", "decY"}
    <3>1. Pos'.y = Me.reg + (IF op = "incY" THEN 1 ELSE -1)
      BY <1>2, <2>1 DEF NextPos
    <3>2. OwesY(new.todo)
      BY <1>6, <1>7, <2>1 DEF Needs, OwesY
    <3>3. Pos'.y + RisesY(new.todo) <= YBound(Depth)
      <4>2. Me.reg + RisesY(Me.todo) <= YBound(Depth)
        BY <1>12, <2>1
      <4>3. CASE op = "incY"
        <5>1. Pos'.y = Me.reg + 1 /\ RisesY(new.todo) + 1 <= RisesY(Me.todo)
          BY <1>5, <3>1, <4>3
        <5> QED BY <1>9, <1>11, <4>2, <5>1
      <4>4. CASE op = "decY"
        <5>1. Pos'.y = Me.reg - 1 /\ RisesY(new.todo) <= RisesY(Me.todo)
          BY <1>5, <1>9, <3>1, <4>4
        <5> QED BY <1>9, <1>11, <4>2, <5>1
      <4> QED BY <2>1, <4>3, <4>4
    <3> QED BY <1>15, <3>2, <3>3
  <2>2. CASE op = "zeroY"
    <3>1. Pos'.y = 0
      BY <1>2, <2>2 DEF NextPos
    <3> QED BY <1>11, <3>1 DEF YInv
  <2>3. CASE op \notin {"incY", "decY", "zeroY"}
    <3>1. Pos'.y = Pos.y
      BY <1>2, <1>14, <2>3 DEF NextPos
    <3>2. CASE Pos.y <= YChars - 1
      BY <3>1, <3>2 DEF YInv
    <3>3. ASSUME NEW j \in DOMAIN calls, OwesY(calls[j].todo),
                 Pos.y + RisesY(calls[j].todo) <= YBound(j), ~(Pos.y <= YChars - 1)
          PROVE  YInv'
      <4>1. CASE j # Depth
        BY <1>2, <3>1, <3>3, <4>1 DEF YInv
      <4>2. CASE j = Depth
        <5>1. OwesY(new.todo)
          <6>1. CASE op = "testY"
            <7>1. Pos.y >= YChars
              BY <1>2, <1>11, <3>3
            <7>2. ops = <<"zeroY">>
              BY <1>3, <6>1, <7>1 DEF Outcome
            <7> QED BY <1>7, <7>2, LiteralHas DEF OwesY
          <6>2. CASE op # "testY"
            BY <1>4, <1>6, <1>7, <2>3, <3>3, <4>2, <6>2 DEF OwesY
          <6> QED BY <6>1, <6>2
        <5>2. Pos'.y + RisesY(new.todo) <= YBound(Depth)
          BY <1>2, <1>4, <1>5, <1>9, <1>11, <3>1, <3>3, <4>2
        <5> QED BY <1>15, <5>1, <5>2
      <4> QED BY <4>1, <4>2
    <3> QED BY <1>1, <3>2, <3>3 DEF YInv
  <2> QED BY <2>1, <2>2, <2>3
<1>18. ASSUME new.todo # <<>>, Head(new.todo) \in {"incY", "decY", "draw"}
       PROVE  r + RisesY(new.todo) <= YBound(Depth)
  <2>1. r = Pos.y
    BY <1>3, <1>8, <1>18 DEF Outcome
  <2>2. CASE Pos.y <= YChars - 1
    BY <1>2, <1>9, <1>11, <2>1, <2>2
  <2>3. ASSUME NEW j \in DOMAIN calls, Pos.y + RisesY(calls[j].todo) <= YBound(j)
        PROVE  r + RisesY(new.todo) <= YBound(Depth)
    <3>1. CASE j = Depth
      BY <1>2, <1>4, <1>5, <1>9, <1>11, <2>1, <2>3, <3>1
    <3>2. CASE j # Depth
      <4>1. j < Depth
        BY <1>2, <3>2
      <4>2. YBound(j) + 2 <= YBound(Depth) /\ YBound(j) \in Nat /\ RisesY(calls[j].todo) \in 0 .. 2
        BY <1>9, <1>11, <4>1
      <4> QED BY <1>2, <1>9, <1>11, <2>1, <2>3, <4>2
    <3> QED BY <3>1, <3>2
  <2> QED BY <1>1, <2>2, <2>3 DEF YInv
<1>19. RegYInv'
  <2>1. ASSUME NEW i \in DOMAIN calls, calls'[i].todo # <<>>,
               Head(calls'[i].todo) \in {"incY", "decY", "draw"}
        PROVE  calls'[i].reg + RisesY(calls'[i].todo) <= YBound(i)
    <3>1. CASE i = Depth
      BY <1>3, <1>18, <2>1, <3>1 DEF new
    <3>2. CASE i # Depth
      BY <1>1, <1>2, <2>1, <3>2 DEF RegYInv
    <3> QED BY <3>1, <3>2
  <2> QED BY <1>2, <2>1 DEF RegYInv
<1> QED BY <1>17, <1>19 DEF YWithin

LEMMA AccessWithinLow ==
    ASSUME Sound, Access, Within, strayed' = {}
    PROVE  LowWithin'
<1> DEFINE op == Head(Me.todo)
           u == Tail(Me.todo)
           new == calls'[Depth]
<1>1. /\ Typed /\ EdgeInv /\ NoLastRow /\ RegLowInv /\ ~(op = "testTop" /\ Pos.y < 0)
  <2>1. strayed = {} /\ ~(op = "testTop" /\ Pos.y < 0)
    BY AccessStep
  <2> QED BY <2>1 DEF Sound, Within, LowWithin
<1>2. /\ calls # <<>> /\ Me.todo # <<>> /\ Me.todo \in Seq(Ops) /\ InOrder(Me.todo)
      /\ Me \in FrameType /\ Depth \in DOMAIN calls /\ Depth \in Nat \ {0}
      /\ Pos.x \in Int /\ Pos.y \in Int /\ Pos \in [x : Int, y : Int]
      /\ Pos' = NextPos(op)
      /\ calls' \in Seq(FrameType) /\ DOMAIN calls' = DOMAIN calls /\ Depth' = Depth
      /\ \A i \in DOMAIN calls \ {Depth} : calls'[i] = calls[i]
  BY AccessStep
<1>3. PICK ops \in Seq(Ops), r \in Int, m \in Int :
         Outcome(op, ops, r, m) /\ new.todo = ops \o u /\ new.reg = r
  BY AccessStep
<1>4. /\ u \in Seq(Ops) /\ op \in Ops
      /\ \A o \in Needs(op) : Has(u, o)
      /\ u # <<>> => Loaded(op, Head(u))
      /\ \A o : Has(Me.todo, o) <=> op = o \/ Has(u, o)
  BY <1>2, TailHas, TailInOrder
<1>5. /\ \A o : Has(new.todo, o) <=> Has(ops, o) \/ Has(u, o)
      /\ ops # <<>> => new.todo # <<>> /\ Head(new.todo) = Head(ops)
      /\ ops = <<>> => new.todo = u
  <2> HIDE DEF u, new
  <2> QED BY <1>3, <1>4, ConcatHas
<1>6. new.todo # <<>> /\ Head(new.todo) \in Uses =>
         /\ Head(new.todo) \in {"incX", "decX", "tab"} => op = "loadX"
         /\ Head(new.todo) \in {"incY", "decY", "draw"} => op = "loadY"
  BY <1>1, <1>2, <1>3, UseIsLoaded
<1>7. op \in Uses => Me.reg >= 0
  BY <1>1, <1>2 DEF RegLowInv, Me
<1>8. Me = calls[Depth] /\ Me.reg \in Int
  BY <1>2, FrameCounts DEF Me
<1>9. Me' = new /\ calls' # <<>>
  <2>1. calls' # <<>>
    BY <1>2
  <2> QED BY <1>2, <2>1 DEF Me
<1>10. /\ Pos.x < 0 => op \in {"testLeft", "lastX"}
       /\ Pos.y < 0 => op = "testTop"
  BY <1>1 DEF EdgeInv, AtHead
<1>11. ~Has(u, "lastY") /\ op # "lastY"
  BY <1>1, <1>2, <1>4, <1>8 DEF NoLastRow
<1>12. u = <<>> => \A o : ~Has(u, o)
  BY LiteralHas
<1>13. LastX \in Nat
  BY OnScreenIsLow
<1> HIDE DEF op, u, new, Depth, Me
<1>14. Pos'.x < 0 => new.todo # <<>> /\ Head(new.todo) \in {"testLeft", "lastX"}
  <2> SUFFICES ASSUME Pos'.x < 0
               PROVE  new.todo # <<>> /\ Head(new.todo) \in {"testLeft", "lastX"}
    OBVIOUS
  <2>1. CASE op = "decX"
    <3>1. u # <<>> /\ ops = <<>>
      BY <1>3, <1>4, <1>12, <2>1 DEF Needs, Outcome
    <3> QED BY <1>4, <1>5, <2>1, <3>1 DEF Loaded
  <2>2. CASE op = "testLeft"
    <3>1. Pos.x < 0
      BY <1>2, <2>2 DEF NextPos
    <3>2. ops = <<"lastX", "loadY", "decY", "testTop">>
      BY <1>3, <2>2, <3>1 DEF Outcome
    <3> QED BY <1>5, <3>2
  <2>3. CASE op \notin {"decX", "testLeft"}
    <3>1. op \in {"incX", "zeroX", "lastX"} \/ Pos'.x = Pos.x
      BY <1>2, <2>3 DEF NextPos
    <3>2. Pos'.x >= 0
      <4>1. CASE op = "incX"
        BY <1>2, <1>7, <1>8, <4>1 DEF NextPos, Uses
      <4>2. CASE op \in {"zeroX", "lastX"}
        BY <1>2, <1>13, <4>2 DEF NextPos
      <4>3. CASE Pos'.x = Pos.x /\ op \notin {"zeroX", "lastX"}
        BY <1>2, <1>10, <2>3, <4>3
      <4> QED BY <3>1, <4>1, <4>2, <4>3
    <3>3. Pos'.x \in Int
      <4>1. op \in {"incX", "zeroX", "lastX"} => Pos'.x \in Int
        BY <1>2, <1>8, <1>13 DEF NextPos
      <4> QED BY <1>2, <3>1, <4>1
    <3> QED BY <3>2, <3>3
  <2> QED BY <2>1, <2>2, <2>3
<1>15. Pos'.y < 0 => new.todo # <<>> /\ Head(new.todo) = "testTop"
  <2> SUFFICES ASSUME Pos'.y < 0 PROVE new.todo # <<>> /\ Head(new.todo) = "testTop"
    OBVIOUS
  <2>1. CASE op = "decY"
    <3>1. u # <<>> /\ ops = <<>>
      BY <1>3, <1>4, <1>12, <2>1 DEF Needs, Outcome
    <3> QED BY <1>4, <1>5, <2>1, <3>1 DEF Loaded
  <2>2. CASE op # "decY"
    <3>1. op \in {"incY", "zeroY"} \/ Pos'.y = Pos.y
      BY <1>2, <1>11, <2>2 DEF NextPos
    <3>2. CASE op = "incY"
      <4>1. Pos'.y = Me.reg + 1 /\ Me.reg >= 0
        BY <1>2, <1>7, <3>2 DEF NextPos, Uses
      <4> QED BY <1>8, <4>1
    <3>3. CASE op = "zeroY"
      BY <1>2, <3>3 DEF NextPos
    <3>4. CASE Pos'.y = Pos.y
      BY <1>1, <1>10, <3>4 DEF op
    <3> QED BY <3>1, <3>2, <3>3, <3>4
  <2> QED BY <2>1, <2>2
<1>16. EdgeInv'
  <2>1. /\ Pos'.x < 0 => calls' # <<>> /\ Me'.todo # <<>> /\ Head(Me'.todo) \in {"testLeft", "lastX"}
        /\ Pos'.y < 0 => calls' # <<>> /\ Me'.todo # <<>> /\ Head(Me'.todo) \in {"testTop"}
    BY <1>9, <1>14, <1>15
  <2> QED BY <2>1 DEF EdgeInv, AtHead
<1>17. NoLastRow'
  <2>1. ~Has(ops, "lastY")
    <3>1. \/ ops = <<>> \/ ops = TurnOps
          \/ ops = <<"loadY", "incY", "zeroX">> \/ ops = <<"zeroY">>
          \/ ops = <<"lastX", "loadY", "decY", "testTop">>
      BY <1>1, <1>3, <1>4, OutcomeOps DEF op
    <3> QED BY <3>1, LiteralHas
  <2>2. ASSUME NEW i \in DOMAIN calls PROVE ~Has(calls'[i].todo, "lastY")
    <3>1. CASE i = Depth
      BY <1>5, <1>11, <2>1, <3>1 DEF new
    <3>2. CASE i # Depth
      BY <1>1, <1>2, <3>2 DEF NoLastRow
    <3> QED BY <3>1, <3>2
  <2> QED BY <1>2, <2>2 DEF NoLastRow
<1>18. ASSUME new.todo # <<>>, Head(new.todo) \in Uses PROVE r >= 0
  <2>1. (op = "loadX" /\ r = Pos.x) \/ (op = "loadY" /\ r = Pos.y)
    BY <1>3, <1>6, <1>18 DEF Outcome, Uses
  <2> QED BY <1>2, <1>10, <2>1
<1>19. RegLowInv'
  <2>1. ASSUME NEW i \in DOMAIN calls, calls'[i].todo # <<>>, Head(calls'[i].todo) \in Uses
        PROVE  calls'[i].reg >= 0
    <3>1. CASE i = Depth
      BY <1>3, <1>18, <2>1, <3>1 DEF new
    <3>2. CASE i # Depth
      BY <1>1, <1>2, <2>1, <3>2 DEF RegLowInv
    <3> QED BY <3>1, <3>2
  <2> QED BY <1>2, <2>1 DEF RegLowInv
<1> QED BY <1>16, <1>17, <1>19 DEF LowWithin

\* Steps that leave the cursor alone: a print begins, ends, or takes a character.
Fresh(f) ==
    /\ f.tab_cnt = 0 /\ Blanks(f) <= LastX + TabStop /\ ~Has(f.todo, "lastY")
    /\ f.todo # <<>> => Head(f.todo) \notin Uses
Kept(f, g) == g.todo = f.todo /\ g.reg = f.reg /\ g.tab_cnt = f.tab_cnt

LEMMA KeptCounts ==
    ASSUME NEW f, NEW g, Kept(f, g)
    PROVE  Blanks(g) = Blanks(f) /\ (Counting(g) <=> Counting(f))
  BY DEF Kept, Blanks, Ones, Turns, Counting

LEMMA QuietWithin ==
    ASSUME Within, strayed = {}, UNCHANGED Pos, Pos.x \in Int, EdgeInv',
           calls \in Seq(FrameType), calls' \in Seq(FrameType),
           \A i \in DOMAIN calls' :
               \/ i \in DOMAIN calls /\ Kept(calls[i], calls'[i])
               \/ /\ i = Len(calls') /\ Fresh(calls'[i])
                  /\ i \in DOMAIN calls => calls[i].todo = <<>>,
           \A j \in DOMAIN calls :
               calls[j].todo = <<>> \/ (j \in DOMAIN calls' /\ Kept(calls[j], calls'[j]))
    PROVE  XWithin' /\ YWithin' /\ LowWithin'
<1> DEFINE fresh(i) == /\ i = Len(calls') /\ Fresh(calls'[i])
                       /\ i \in DOMAIN calls => calls[i].todo = <<>>
           kept(i) == i \in DOMAIN calls /\ Kept(calls[i], calls'[i])
<1>1. CountInv /\ XInv /\ RegXInv /\ YInv /\ RegYInv /\ NoLastRow /\ RegLowInv
  BY DEF Within, XWithin, YWithin, LowWithin
<1>2. /\ \A i \in DOMAIN calls' : kept(i) \/ fresh(i)
      /\ \A j \in DOMAIN calls : calls[j].todo = <<>> \/ (j \in DOMAIN calls' /\ kept(j))
  OBVIOUS
<1>3. /\ \A i \in DOMAIN calls' : i \in Nat \ {0} /\ i <= Len(calls') /\ calls'[i] \in FrameType
      /\ \A i \in DOMAIN calls : i \in Nat \ {0} /\ calls[i] \in FrameType
      /\ LastX \in Nat /\ TabStop \in Nat
  BY OnScreenIsLow
<1>4. /\ \A i \in DOMAIN calls' : Blanks(calls'[i]) \in Int /\ XBound(i) \in Nat
                                  /\ LastX + LastX + TabStop <= XBound(i)
      /\ \A i \in DOMAIN calls : Counting(calls[i]) /\ Blanks(calls[i]) \in Nat /\ XBound(i) \in Nat
      /\ \A i \in DOMAIN calls, j \in DOMAIN calls' : i < j => XBound(i) + LastX + TabStop <= XBound(j)
  BY <1>1, <1>3, FrameCounts, BoundsGrow DEF CountInv
<1>5. \A i \in DOMAIN calls' : kept(i) =>
         /\ Blanks(calls'[i]) = Blanks(calls[i])
         /\ Counting(calls'[i]) <=> Counting(calls[i])
         /\ calls'[i].todo = calls[i].todo /\ calls'[i].reg = calls[i].reg
  BY KeptCounts DEF Kept
<1>6. \A i \in DOMAIN calls' : fresh(i) =>
         /\ i = Len(calls') /\ Blanks(calls'[i]) <= LastX + TabStop
         /\ Counting(calls'[i]) /\ ~Has(calls'[i].todo, "lastY")
         /\ calls'[i].todo # <<>> => Head(calls'[i].todo) \notin Uses
         /\ i \in DOMAIN calls => calls[i].todo = <<>>
  BY DEF Fresh, Counting
<1>7. \A i : kept(i) => i \in DOMAIN calls
  OBVIOUS
<1>8. \A op : ~Has(<<>>, op)
  BY LiteralHas
<1> HIDE DEF fresh, kept, Blanks, Counting, XBound, YBound, RisesY, Uses, Has
<1>9. CountInv'
  <2>1. ASSUME NEW i \in DOMAIN calls' PROVE Counting(calls'[i]) /\ LastX + Blanks(calls'[i]) <= XBound(i)
    <3>1. CASE kept(i)
      BY <1>1, <1>5, <1>7, <3>1 DEF CountInv
    <3>2. CASE fresh(i)
      BY <1>3, <1>4, <1>6, <3>2
    <3> QED BY <1>2, <3>1, <3>2
  <2> QED BY <2>1 DEF CountInv
<1>10. XInv'
  <2>1. CASE Pos.x <= LastX
    BY <2>1 DEF XInv
  <2>2. ASSUME NEW j \in DOMAIN calls, OwesX(calls[j].todo),
               \A k \in DOMAIN calls : k >= j => Pos.x + Blanks(calls[k]) <= XBound(k)
        PROVE  XInv'
    <3>1. calls[j].todo # <<>> /\ kept(j) /\ j \in DOMAIN calls'
      BY <1>2, <1>8, <2>2 DEF OwesX
    <3>2. OwesX(calls'[j].todo)
      BY <1>5, <2>2, <3>1
    <3>3. ASSUME NEW k \in DOMAIN calls', k >= j PROVE Pos.x + Blanks(calls'[k]) <= XBound(k)
      <4>1. CASE kept(k)
        BY <1>5, <1>7, <2>2, <3>3, <4>1
      <4>2. CASE fresh(k)
        <5>1. j < k
          BY <1>3, <1>6, <3>1, <3>3, <4>2
        <5>2. XBound(j) + LastX + TabStop <= XBound(k) /\ Blanks(calls'[k]) <= LastX + TabStop
          BY <1>4, <1>6, <4>2, <5>1
        <5>3. Pos.x + Blanks(calls[j]) <= XBound(j)
          BY <1>3, <2>2
        <5> QED BY <1>3, <1>4, <5>2, <5>3
      <4> QED BY <1>2, <4>1, <4>2
    <3> QED BY <3>1, <3>2, <3>3 DEF XInv
  <2> QED BY <1>1, <2>1, <2>2 DEF XInv
<1>11. YInv'
  <2>1. CASE Pos.y <= YChars - 1
    BY <2>1 DEF YInv
  <2>2. ASSUME NEW j \in DOMAIN calls, OwesY(calls[j].todo),
               Pos.y + RisesY(calls[j].todo) <= YBound(j)
        PROVE  YInv'
    <3>1. kept(j) /\ j \in DOMAIN calls'
      BY <1>2, <1>8, <2>2 DEF OwesY
    <3> QED BY <1>5, <2>2, <3>1 DEF YInv
  <2> QED BY <1>1, <2>1, <2>2 DEF YInv
<1>12. RegXInv'
  BY <1>1, <1>2, <1>5, <1>6, <1>7 DEF RegXInv, Uses
<1>13. RegYInv'
  BY <1>1, <1>2, <1>5, <1>6, <1>7 DEF RegYInv, Uses
<1>14. NoLastRow'
  BY <1>1, <1>2, <1>5, <1>6, <1>7 DEF NoLastRow
<1>15. RegLowInv'
  BY <1>1, <1>2, <1>5, <1>6, <1>7 DEF RegLowInv
<1> QED BY <1>9, <1>10, <1>11, <1>12, <1>13, <1>14, <1>15 DEF XWithin, YWithin, LowWithin

LEMMA FreshFrames ==
    ASSUME NEW f \in FrameType, f.tab_cnt = 0
    PROVE  /\ f.todo = <<>> => Fresh(f)
           /\ \A c : f.todo = CharOps(c) => Fresh(f)
<1>1. LastX \in Nat /\ TabStop \in Nat \ {0}
  BY OnScreenIsLow
<1>2. CASE f.todo = <<>>
  BY <1>1, <1>2, LiteralHas DEF Fresh, Blanks, Ones, Turns
<1>3. ASSUME NEW c, f.todo = CharOps(c) PROVE Fresh(f)
  <2>1. \/ f.todo = <<"loadY", "incY", "zeroX", "testX", "testY">>
        \/ f.todo = <<"loadX", "decX", "testLeft", "loadY", "draw", "testX", "testY">>
        \/ f.todo = <<"loadX", "tab", "turn", "testX", "testY">>
        \/ f.todo = <<"loadY", "draw", "loadX", "incX", "testX", "testY">>
    BY <1>3 DEF CharOps
  <2>2. ~Has(f.todo, "lastY") /\ ~(Has(f.todo, "tab") /\ Has(f.todo, "incX"))
    BY <2>1 DEF Has
  <2>3. f.todo # <<>> => Head(f.todo) \notin Uses
    BY <1>3, CharOpsInOrder
  <2>4. Blanks(f) <= LastX + TabStop
    <3>1. CASE Has(f.todo, "tab")
      <4>1. Ones(f) = 0 /\ Turns(f) = LastX + TabStop
        BY <2>2, <3>1 DEF Ones, Turns
      <4> QED BY <1>1, <4>1 DEF Blanks
    <3>2. CASE ~Has(f.todo, "tab")
      <4>1. Ones(f) \in 0 .. 1 /\ Turns(f) = 0
        BY <3>2 DEF Ones, Turns
      <4> QED BY <1>1, <4>1 DEF Blanks
    <3> QED BY <3>1, <3>2
  <2> QED BY <2>2, <2>3, <2>4 DEF Fresh
<1> QED BY <1>2, <1>3

\* The innermost print changes, but not its accesses, or takes its next character.
LEMMA TopWithin ==
    ASSUME Typed, calls # <<>>, Within, strayed = {}, UNCHANGED Pos,
           NEW f \in FrameType, Update(f),
           Kept(Me, f) \/ (Me.todo = <<>> /\ Fresh(f))
    PROVE  XWithin' /\ YWithin' /\ LowWithin'
<1>1. /\ calls' \in Seq(FrameType) /\ Len(calls') = Depth /\ calls' # <<>>
      /\ DOMAIN calls' = DOMAIN calls /\ calls'[Depth] = f /\ Depth \in DOMAIN calls
      /\ \A i \in DOMAIN calls \ {Depth} : calls'[i] = calls[i]
  BY TopFrame, Updated
<1>2. Me' = f
  BY <1>1 DEF Me, Depth
<1>3. calls \in Seq(FrameType) /\ Pos.x \in Int
  BY DEF Typed
<1>4. EdgeInv'
  <2>1. EdgeInv
    BY DEF Within, LowWithin
  <2>2. CASE Kept(Me, f)
    BY <1>1, <1>2, <2>1, <2>2 DEF EdgeInv, AtHead, Kept
  <2>3. CASE Me.todo = <<>>
    BY <2>1, <2>3 DEF EdgeInv, AtHead
  <2> QED BY <2>2, <2>3
<1>5. Me = calls[Depth]
  BY DEF Me
<1> HIDE DEF Me, Depth
<1>6. \A i \in DOMAIN calls' :
         \/ i \in DOMAIN calls /\ Kept(calls[i], calls'[i])
         \/ /\ i = Len(calls') /\ Fresh(calls'[i])
            /\ i \in DOMAIN calls => calls[i].todo = <<>>
  BY <1>1, <1>5 DEF Kept
<1>7. \A j \in DOMAIN calls :
         calls[j].todo = <<>> \/ (j \in DOMAIN calls' /\ Kept(calls[j], calls'[j]))
  BY <1>1, <1>5 DEF Kept
<1> QED BY <1>1, <1>3, <1>4, <1>6, <1>7, QuietWithin

LEMMA FormatWithin ==
    ASSUME Typed, Typed', Format, Within, strayed = {}
    PROVE  XWithin' /\ YWithin' /\ LowWithin'
<1>1. calls # <<>> /\ UNCHANGED Pos /\ (OverrunStep \/ StoreStep)
  BY FormatIs DEF Format
<1>2. Me \in FrameType
  BY <1>1, TopFrame
<1>3. CASE OverrunStep
  <2>1. UNCHANGED calls
    BY <1>3 DEF OverrunStep
  <2>2. calls \in Seq(FrameType) /\ Depth \in DOMAIN calls
    BY <1>1, TopFrame DEF Typed
  <2>3. Update(Me)
    <3>1. calls = [calls EXCEPT ![Depth] = calls[Depth]]
      BY <2>2
    <3> QED BY <2>1, <3>1 DEF Update, Me
  <2> QED BY <1>1, <1>2, <2>3, TopWithin DEF Kept
<1>4. CASE StoreStep
  <2> DEFINE g == [Me EXCEPT !.n = Me.n + 1]
             h == [Me EXCEPT !.pc = "print", !.n = 0]
  <2>0. Kept(Me, g) /\ Kept(Me, h)
    BY <1>2 DEF Kept, FrameType
  <2>a. Update(g) \/ Update(h)
    BY <1>4 DEF StoreStep
  <2> HIDE DEF g, h
  <2>1. PICK f : Update(f) /\ Kept(Me, f)
    BY <2>0, <2>a
  <2>2. f \in FrameType
    <3>1. calls' = [calls EXCEPT ![Depth] = f] /\ calls' \in Seq(FrameType) /\ calls \in Seq(FrameType)
      BY <2>1 DEF Update, Typed
    <3>2. Depth \in DOMAIN calls
      BY <1>1, TopFrame
    <3>3. DOMAIN calls' = DOMAIN calls /\ calls'[Depth] = f
      BY <3>1, <3>2
    <3>4. calls'[Depth] \in FrameType
      BY <3>1, <3>2, <3>3
    <3> QED BY <3>3, <3>4
  <2> QED BY <1>1, <2>1, <2>2, TopWithin
<1> QED BY <1>1, <1>3, <1>4

LEMMA NextCharWithin ==
    ASSUME Typed, NextChar, Within, strayed = {}
    PROVE  XWithin' /\ YWithin' /\ LowWithin'
<1>1. calls # <<>> /\ Me.todo = <<>> /\ UNCHANGED Pos
  BY NextCharIs
<1>2. PICK c \in Chars, f \in FrameType :
         Update(f) /\ f.todo = CharOps(c) /\ f.reg = Me.reg /\ f.tab_cnt = Me.tab_cnt
  BY NextCharIs
<1>3. Me.tab_cnt = 0
  <2>1. Depth \in DOMAIN calls
    BY <1>1, TopFrame
  <2>2. Counting(Me)
    BY <2>1 DEF Within, XWithin, CountInv, Me
  <2> QED BY <1>1, <2>2, LiteralHas DEF Counting
<1>4. Fresh(f)
  BY <1>2, <1>3, FreshFrames
<1> QED BY <1>1, <1>2, <1>4, TopWithin

LEMMA ReturnWithin ==
    ASSUME Typed, Return, Within, strayed = {}
    PROVE  XWithin' /\ YWithin' /\ LowWithin'
<1>1. /\ calls # <<>> /\ Me.todo = <<>> /\ UNCHANGED Pos
      /\ \/ Update([Me EXCEPT !.pc = "loop"])
         \/ /\ calls' \in Seq(FrameType) /\ Len(calls') = Depth - 1
            /\ DOMAIN calls' = 1 .. Depth - 1
            /\ \A i \in 1 .. Depth - 1 : calls'[i] = calls[i]
  BY ReturnIs
<1>2. Me \in FrameType /\ Depth \in Nat \ {0} /\ DOMAIN calls = 1 .. Depth /\ Depth \in DOMAIN calls
  BY <1>1, TopFrame
<1>3. CASE Update([Me EXCEPT !.pc = "loop"])
  <2> DEFINE f == [Me EXCEPT !.pc = "loop"]
  <2>1. f \in FrameType /\ Kept(Me, f)
    BY <1>2 DEF FrameType, Kept
  <2>2. Update(f)
    BY <1>3
  <2> HIDE DEF f
  <2> QED BY <1>1, <2>1, <2>2, TopWithin
<1>4. CASE /\ calls' \in Seq(FrameType) /\ DOMAIN calls' = 1 .. Depth - 1
           /\ \A i \in 1 .. Depth - 1 : calls'[i] = calls[i]
  <2>1. EdgeInv'
    BY <1>1 DEF Within, LowWithin, EdgeInv, AtHead
  <2>2. calls[Depth].todo = <<>>
    BY <1>1 DEF Me
  <2>3. calls \in Seq(FrameType) /\ Pos.x \in Int
    BY DEF Typed
  <2> HIDE DEF Depth
  <2>4. \A i \in DOMAIN calls' : i \in DOMAIN calls /\ Kept(calls[i], calls'[i])
    BY <1>2, <1>4 DEF Kept
  <2>5. \A j \in DOMAIN calls :
           calls[j].todo = <<>> \/ (j \in DOMAIN calls' /\ Kept(calls[j], calls'[j]))
    <3>1. \A j \in DOMAIN calls : j \in DOMAIN calls' \/ j = Depth
      BY <1>2, <1>4
    <3> QED BY <2>2, <2>4, <3>1
  <2>6. calls' \in Seq(FrameType)
    BY <1>4
  <2> QED BY <1>1, <2>1, <2>3, <2>4, <2>5, <2>6, QuietWithin
<1> QED BY <1>1, <1>3, <1>4

\* A print begins on top of the others.
LEMMA PushWithin ==
    ASSUME Typed, Within, strayed = {}, UNCHANGED Pos, Pos.x >= 0, Pos.y >= 0,
           calls' \in Seq(FrameType), Len(calls') = Depth + 1, Fresh(calls'[Depth + 1]),
           \A i \in DOMAIN calls : Kept(calls[i], calls'[i])
    PROVE  XWithin' /\ YWithin' /\ LowWithin'
<1>1. /\ Depth \in Nat /\ DOMAIN calls = 1 .. Depth /\ DOMAIN calls' = 1 .. Depth + 1
      /\ calls \in Seq(FrameType) /\ Pos.x \in Int /\ Pos.y \in Int
  BY DEF Typed, Depth
<1>2. EdgeInv'
  BY <1>1 DEF EdgeInv
<1> HIDE DEF Depth
<1>3. \A i \in DOMAIN calls' : i \in DOMAIN calls \/ (i = Depth + 1 /\ i \notin DOMAIN calls)
  BY <1>1
<1>4. \A i \in DOMAIN calls' :
         \/ i \in DOMAIN calls /\ Kept(calls[i], calls'[i])
         \/ /\ i = Len(calls') /\ Fresh(calls'[i])
            /\ i \in DOMAIN calls => calls[i].todo = <<>>
  BY <1>3
<1>5. \A j \in DOMAIN calls :
         calls[j].todo = <<>> \/ (j \in DOMAIN calls' /\ Kept(calls[j], calls'[j]))
  BY <1>1
<1> QED BY <1>1, <1>2, <1>4, <1>5, QuietWithin

LEMMA BeginWithin ==
    ASSUME Typed, Typed', Within, strayed = {}, strayed' = {},
           Call \/ \E who \in {"trap", "IRQ"} : Handler(who)
    PROVE  XWithin' /\ YWithin' /\ LowWithin'
<1>1. /\ calls \in Seq(FrameType) /\ Depth = Len(calls) /\ DOMAIN calls = 1 .. Depth
      /\ Depth \in Nat /\ calls' \in Seq(FrameType) /\ Pos.x \in Int /\ Pos.y \in Int
      /\ script.prints \in Seq(Prints)
  BY DEF Typed, Depth
<1>2. UNCHANGED Pos
  BY DEF Call, Handler
<1>3. CASE Call
  <2>1. calls = <<>> /\ calls' = <<Frame("kernel", Head(script.prints))>> /\ script.prints # <<>>
    BY <1>3 DEF Call
  <2>2. Head(script.prints) \in Prints
    BY <1>1, <2>1, HeadTailProperties
  <2>3. Len(calls') = Depth + 1 /\ calls'[Depth + 1] = Frame("kernel", Head(script.prints))
    BY <2>1 DEF Depth
  <2>4. Fresh(calls'[Depth + 1])
    BY <2>2, <2>3, NewFrame, FreshFrames
  <2>5. DOMAIN calls = {}
    BY <2>1
  <2>6. Pos.x >= 0 /\ Pos.y >= 0
    BY <1>1, <2>1 DEF Within, LowWithin, EdgeInv, AtHead
  <2> QED BY <1>1, <1>2, <2>3, <2>4, <2>5, <2>6, PushWithin
<1>4. ASSUME NEW who \in {"trap", "IRQ"}, Handler(who) PROVE XWithin' /\ YWithin' /\ LowWithin'
  <2>1. PICK call \in HandlerCalls : calls' = Append(Interrupted(call), Frame(who, call))
    BY <1>4 DEF Handler, Interrupted
  <2>2. /\ Interrupted(call) \in Seq(FrameType) /\ Len(Interrupted(call)) = Depth
        /\ \A i \in DOMAIN Interrupted(call) : Kept(calls[i], Interrupted(call)[i])
    BY <2>1, InterruptedSame DEF Prints, Kept
  <2>3. Frame(who, call) \in FrameType /\ Fresh(Frame(who, call))
    BY <2>1, NewFrame, FreshFrames DEF Prints
  <2>4. /\ Len(calls') = Depth + 1 /\ calls'[Depth + 1] = Frame(who, call)
        /\ \A i \in 1 .. Depth : calls'[i] = Interrupted(call)[i]
    <3> HIDE DEF Interrupted, Depth
    <3> QED BY <1>1, <2>1, <2>2, <2>3, AppendProperties
  <2>5. DOMAIN Interrupted(call) = DOMAIN calls
    BY DEF Interrupted
  <2>6. \A i \in DOMAIN calls : Kept(calls[i], calls'[i])
    BY <1>1, <2>2, <2>4, <2>5
  <2>7. Pos.x >= 0 /\ Pos.y >= 0
    <3>1. strayed' = strayed \cup (IF Pos.x < 0 \/ Pos.y < 0 THEN {"edge"} ELSE {})
      BY <1>4 DEF Handler
    <3>2. CASE Pos.x < 0 \/ Pos.y < 0
      BY <3>1, <3>2
    <3> QED BY <1>1, <3>2
  <2> QED BY <1>1, <1>2, <2>3, <2>4, <2>6, <2>7, PushWithin
<1> QED BY <1>3, <1>4

\* Behind the screen are as many mapped rows as three prints, the kernel's and two
\* handlers', can add up to: 1.47 of the 4.19 million pixels that head.sx maps for
\* the screen of 1440 by 900 that main.c asks for.
EnoughMemory == LastPixel(XBound(3), YBound(3)) < Mapped

GlyphsInv == Sound /\ Bounded /\ Within /\ GlyphsInVideoMemory

LEMMA ThreePrints ==
    ASSUME Typed, Bounded
    PROVE  \A j \in DOMAIN calls : /\ j \in Nat /\ XBound(j) \in Nat /\ YBound(j) \in Nat
                                   /\ XBound(j) <= XBound(3) /\ YBound(j) <= YBound(3)
<1>1. IsFiniteSet(handled) /\ Cardinality(handled) \in Nat /\ Cardinality(handled) <= 2
  <2>1. IsFiniteSet({"trap", "IRQ"}) /\ Cardinality({"trap", "IRQ"}) <= 2
    <3>1. IsFiniteSet({}) /\ Cardinality({}) = 0
      BY FS_EmptySet
    <3>2. IsFiniteSet({} \cup {"trap"}) /\ Cardinality({} \cup {"trap"}) \in 0 .. 1
      BY <3>1, FS_AddElement
    <3>3. /\ IsFiniteSet(({} \cup {"trap"}) \cup {"IRQ"})
          /\ Cardinality(({} \cup {"trap"}) \cup {"IRQ"}) \in 0 .. 2
      BY <3>2, FS_AddElement
    <3>4. ({} \cup {"trap"}) \cup {"IRQ"} = {"trap", "IRQ"}
      OBVIOUS
    <3> QED BY <3>3, <3>4
  <2>2. IsFiniteSet(handled) /\ Cardinality(handled) <= Cardinality({"trap", "IRQ"})
    BY <2>1, FS_Subset DEF Bounded
  <2>3. Cardinality({"trap", "IRQ"}) \in Nat /\ Cardinality(handled) \in Nat
    BY <2>1, <2>2, FS_CardinalityType
  <2> QED BY <2>1, <2>2, <2>3
<1>2. Depth \in Nat /\ DOMAIN calls = 1 .. Depth
  <2>1. calls \in Seq(FrameType)
    BY DEF Typed
  <2> QED BY <2>1 DEF Depth
<1>3. Depth <= 3
  BY <1>1, <1>2 DEF Bounded
<1> HIDE DEF Depth
<1> SUFFICES ASSUME NEW j \in DOMAIN calls
             PROVE  /\ j \in Nat /\ XBound(j) \in Nat /\ YBound(j) \in Nat
                    /\ XBound(j) <= XBound(3) /\ YBound(j) <= YBound(3)
  OBVIOUS
<1>4. j \in Nat /\ j <= 3
  BY <1>2, <1>3
<1>5. /\ XBound(j) \in Nat /\ YBound(j) \in Nat /\ XBound(3) \in Nat /\ YBound(3) \in Nat
      /\ LastX \in Nat /\ TabStop \in Nat
  BY <1>4, BoundsGrow, OnScreenIsLow
<1> HIDE DEF XBound, YBound
<1>6. CASE j = 3
  BY <1>4, <1>5, <1>6
<1>7. CASE j < 3
  <2>1. XBound(j) + LastX + TabStop <= XBound(3) /\ YBound(j) + 2 <= YBound(3)
    BY <1>4, <1>7, BoundsGrow
  <2> QED BY <1>4, <1>5, <2>1
<1> QED BY <1>4, <1>6, <1>7

\* A glyph's pixels are further on the further right and down it is.
LEMMA PixelsGrow ==
    ASSUME NEW x \in Int, NEW y \in Int, NEW X \in Int, NEW Y \in Int, x <= X, y <= Y
    PROVE  /\ FirstPixel(x, y) \in Int /\ FirstPixel(X, Y) \in Int
           /\ LastPixel(x, y) \in Int /\ LastPixel(X, Y) \in Int
           /\ FirstPixel(x, y) <= FirstPixel(X, Y) /\ LastPixel(x, y) <= LastPixel(X, Y)
<1>1. XResolution \in Nat /\ XCharSize \in Nat /\ YCharSize \in Nat
  BY ScreenAssumption
<1>2. \A a, b \in Int : a * b \in Int
  OBVIOUS
<1>3. ASSUME NEW a \in Int, NEW b \in Int, NEW c \in Nat, a <= b PROVE a * c <= b * c
  <2>1. b * c = a * c + (b - a) * c
    OBVIOUS
  <2>2. b - a \in Nat
    BY <1>3
  <2>3. (b - a) * c \in Nat
    BY <2>2
  <2> QED BY <1>2, <2>1, <2>3
<1>4. ASSUME NEW v \in Int, NEW V \in Int, v <= V
      PROVE  /\ FirstPixel(x, v) \in Int /\ FirstPixel(X, V) \in Int
             /\ FirstPixel(x, v) <= FirstPixel(X, V)
  <2> DEFINE r == v * YCharSize
             R == V * YCharSize
             p == XResolution * r
             P == XResolution * R
             q == x * XCharSize
             Q == X * XCharSize
  <2>1. r \in Int /\ R \in Int /\ r <= R
    BY <1>1, <1>2, <1>3, <1>4
  <2>2. q \in Int /\ Q \in Int /\ q <= Q
    BY <1>1, <1>2, <1>3
  <2>3. FirstPixel(x, v) = p + q /\ FirstPixel(X, V) = P + Q
    BY DEF FirstPixel
  <2> HIDE DEF r, R, q, Q
  <2>4. r * XResolution <= R * XResolution /\ r * XResolution \in Int /\ R * XResolution \in Int
    BY <1>1, <1>2, <1>3, <2>1
  <2>5. p = r * XResolution /\ P = R * XResolution
    BY <1>1, <2>1
  <2> HIDE DEF p, P
  <2> QED BY <2>2, <2>3, <2>4, <2>5
<1>5. /\ FirstPixel(x, y) \in Int /\ FirstPixel(X, Y) \in Int
      /\ FirstPixel(x, y) <= FirstPixel(X, Y)
  BY <1>4
<1>6. /\ FirstPixel(x, y + 1) \in Int /\ FirstPixel(X, Y + 1) \in Int
      /\ FirstPixel(x, y + 1) <= FirstPixel(X, Y + 1)
  <2>1. y + 1 \in Int /\ Y + 1 \in Int /\ y + 1 <= Y + 1
    OBVIOUS
  <2> QED BY <1>4, <2>1
<1> HIDE DEF FirstPixel
<1>7. /\ LastPixel(x, y) = FirstPixel(x, y + 1) - XResolution + XCharSize - 1
      /\ LastPixel(X, Y) = FirstPixel(X, Y + 1) - XResolution + XCharSize - 1
  BY DEF LastPixel
<1> QED BY <1>1, <1>5, <1>6, <1>7

LEMMA AllPixelsGrow ==
    \A x, y, X, Y \in Int :
        x <= X /\ y <= Y =>
            /\ FirstPixel(x, y) \in Int /\ LastPixel(x, y) \in Int /\ LastPixel(X, Y) \in Int
            /\ FirstPixel(x, y) <= FirstPixel(X, Y) /\ LastPixel(x, y) <= LastPixel(X, Y)
<1> TAKE x, y, X, Y \in Int
<1> HAVE x <= X /\ y <= Y
<1> HIDE DEF FirstPixel, LastPixel
<1> QED BY PixelsGrow

LEMMA DrawnInside ==
    ASSUME EnoughMemory, Typed, Bounded, Within, strayed = {}, Todo("draw")
    PROVE  FirstPixel(Pos.x, Me.reg) >= 0 /\ LastPixel(Pos.x, Me.reg) < Mapped
<1>1. calls # <<>> /\ Me.todo # <<>> /\ Head(Me.todo) = "draw"
  BY DEF Todo, At
<1>2. /\ Depth \in DOMAIN calls /\ Me \in FrameType /\ Me.reg \in Int
      /\ Pos.x \in Int /\ Pos.y \in Int /\ Me = calls[Depth]
  BY <1>1, TopFrame DEF FrameType, Typed, Me
<1>3. \A j \in DOMAIN calls : calls[j] \in FrameType
  BY DEF Typed
<1> HIDE DEF Me, Depth
<1>4. /\ XBound(3) \in Nat /\ YBound(3) \in Nat /\ LastX \in Nat /\ LastX <= XBound(3)
      /\ TabStop \in Nat
  <2>1. /\ XBound(3) \in Nat /\ YBound(3) \in Nat /\ LastX \in Nat /\ TabStop \in Nat
        /\ LastX + LastX + TabStop <= XBound(3)
    BY BoundsGrow, OnScreenIsLow
  <2> HIDE DEF XBound, YBound
  <2> QED BY <2>1
<1> HIDE DEF XBound, YBound
<1>5. CountInv /\ XInv /\ RegYInv /\ EdgeInv /\ RegLowInv
  BY DEF Within, XWithin, YWithin, LowWithin
<1>6. Pos.x <= XBound(3)
  <2>1. CASE Pos.x <= LastX
    BY <1>2, <1>4, <2>1
  <2>2. ASSUME NEW j \in DOMAIN calls,
               \A k \in DOMAIN calls : k >= j => Pos.x + Blanks(calls[k]) <= XBound(k)
        PROVE  Pos.x <= XBound(3)
    <3>1. j \in Nat /\ XBound(j) \in Nat /\ XBound(j) <= XBound(3)
      BY ThreePrints
    <3>2. Blanks(calls[j]) \in Nat
      BY <1>3, <1>5, FrameCounts DEF CountInv
    <3>3. Pos.x + Blanks(calls[j]) <= XBound(j)
      BY <2>2, <3>1
    <3> QED BY <1>2, <1>4, <3>1, <3>2, <3>3
  <2> QED BY <1>5, <2>1, <2>2 DEF XInv
<1>7. Me.reg <= YBound(3)
  <2>1. Me.reg + RisesY(Me.todo) <= YBound(Depth)
    BY <1>1, <1>2, <1>5 DEF RegYInv
  <2>2. RisesY(Me.todo) \in 0 .. 2
    BY <1>2, FrameCounts
  <2>3. YBound(Depth) \in Nat /\ YBound(Depth) <= YBound(3)
    BY <1>2, ThreePrints
  <2> QED BY <1>2, <1>4, <2>1, <2>2, <2>3
<1>8. Pos.x >= 0 /\ Me.reg >= 0
  <2>1. ~AtHead({"testLeft", "lastX"})
    BY <1>1 DEF AtHead
  <2>2. Pos.x >= 0
    BY <1>2, <1>5, <2>1 DEF EdgeInv
  <2>3. Me.reg >= 0
    BY <1>1, <1>2, <1>5 DEF RegLowInv, Uses
  <2> QED BY <2>2, <2>3
<1>9. FirstPixel(0, 0) = 0
  BY ScreenAssumption DEF FirstPixel
<1> DEFINE x == Pos.x
           y == Me.reg
<1>a. x \in Int /\ y \in Int /\ 0 <= x /\ 0 <= y /\ x <= XBound(3) /\ y <= YBound(3)
  BY <1>2, <1>6, <1>7, <1>8
<1> HIDE DEF x, y
<1>10. FirstPixel(0, 0) <= FirstPixel(x, y) /\ FirstPixel(x, y) \in Int
  <2>1. FirstPixel(0, 0) <= FirstPixel(x, y)
    BY <1>a, AllPixelsGrow
  <2>2. FirstPixel(x, y) \in Int
    BY <1>a, AllPixelsGrow
  <2> QED BY <2>1, <2>2
<1>11. /\ LastPixel(x, y) <= LastPixel(XBound(3), YBound(3))
       /\ LastPixel(x, y) \in Int /\ LastPixel(XBound(3), YBound(3)) \in Int
  <2>1. XBound(3) \in Int /\ YBound(3) \in Int
    BY <1>4
  <2> QED BY <1>a, <2>1, AllPixelsGrow
<1>12. Mapped \in Nat
  BY ScreenAssumption
<1> HIDE DEF FirstPixel, LastPixel
<1>13. FirstPixel(x, y) >= 0 /\ LastPixel(x, y) < Mapped
  BY <1>9, <1>10, <1>11, <1>12 DEF EnoughMemory
<1> QED BY <1>13 DEF x, y

LEMMA InitGlyphs == Init => GlyphsInv
<1> SUFFICES ASSUME Init PROVE GlyphsInv
  OBVIOUS
<1>1. Sound /\ Bounded
  BY InitTyped, InitSound
<1>2. calls = <<>> /\ DOMAIN calls = {} /\ fault = "none"
  BY DEF Init
<1>3. Pos.x \in 0 .. XChars - 1 /\ Pos.y \in 0 .. YChars - 1
  BY <1>1 DEF Sound, Typed, Init
<1>4. Pos.x <= LastX /\ Pos.y <= YChars - 1 /\ ~(Pos.x < 0) /\ ~(Pos.y < 0)
  <2>1. XChars \in Nat /\ YChars \in Nat
    BY Constants
  <2>2. Pos.x \in Int /\ Pos.x < XChars
    BY <1>3, <2>1
  <2> QED BY <1>3, <2>1, <2>2, OnScreenIsLow
<1>5. XWithin
  BY <1>2, <1>4 DEF XWithin, XInv, CountInv, RegXInv
<1>6. YWithin
  BY <1>2, <1>4 DEF YWithin, YInv, RegYInv
<1>7. LowWithin
  BY <1>2, <1>4 DEF LowWithin, EdgeInv, NoLastRow, RegLowInv
<1> QED BY <1>1, <1>2, <1>5, <1>6, <1>7 DEF GlyphsInv, GlyphsInVideoMemory, Within

LEMMA StepWithin ==
    ASSUME Sound, Bounded, Within, [Next]_vars
    PROVE  Within' /\ strayed \subseteq strayed'
<1>1. Typed /\ Typed'
  BY StepTyped DEF Sound
<1>2. strayed \subseteq strayed'
  <2>1. CASE Access
    BY <2>1, AccessStep
  <2>2. CASE Call \/ (\E who \in {"trap", "IRQ"} : Handler(who)) \/ Format \/ NextChar \/ Return
    BY <2>2 DEF Call, Handler, Format, NextChar, Return
  <2>3. CASE UNCHANGED vars
    BY <2>3 DEF vars
  <2> QED BY <2>1, <2>2, <2>3, NextIs
<1>3. SUFFICES ASSUME strayed' = {} PROVE XWithin' /\ YWithin' /\ LowWithin'
  BY <1>2 DEF Within
<1>4. strayed = {}
  BY <1>2, <1>3
<1>5. CASE Access
  BY <1>3, <1>5, AccessWithinX, AccessWithinY, AccessWithinLow
<1>6. CASE Call \/ (\E who \in {"trap", "IRQ"} : Handler(who)) \/ Format \/ NextChar \/ Return
  BY <1>1, <1>3, <1>4, <1>6, BeginWithin, FormatWithin, NextCharWithin, ReturnWithin
<1>7. CASE UNCHANGED vars
  <2>1. UNCHANGED <<calls, Pos, strayed>>
    BY <1>7 DEF vars
  <2>2. XWithin /\ YWithin /\ LowWithin
    BY <1>4 DEF Within
  <2>3. XWithin'
    BY <2>1, <2>2 DEF XWithin, CountInv, XInv, RegXInv
  <2>4. YWithin'
    BY <2>1, <2>2 DEF YWithin, YInv, RegYInv
  <2>5. LowWithin'
    BY <2>1, <2>2 DEF LowWithin, EdgeInv, AtHead, Me, Depth, NoLastRow, RegLowInv
  <2> QED BY <2>3, <2>4, <2>5
<1> QED BY <1>5, <1>6, <1>7, NextIs

LEMMA StepGlyphs ==
    ASSUME EnoughMemory, GlyphsInv, [Next]_vars
    PROVE  GlyphsInv'
<1>1. Sound /\ Typed /\ Bounded /\ Within /\ GlyphsInVideoMemory
  BY DEF GlyphsInv, Sound
<1>2. Sound' /\ Bounded'
  BY <1>1, StepTyped, StepSound
<1>3. Within' /\ strayed \subseteq strayed'
  BY <1>1, StepWithin
<1>4. GlyphsInVideoMemory'
  <2>1. CASE Draw
    <3>1. /\ Todo("draw") /\ UNCHANGED strayed
          /\ fault' = IF FirstPixel(Pos.x, Me.reg) < 0 \/ LastPixel(Pos.x, Me.reg) >= Mapped
                      THEN "glyph" ELSE "none"
      BY <2>1 DEF Draw
    <3>2. ASSUME strayed = {} PROVE fault' = "none"
      <4>1. FirstPixel(Pos.x, Me.reg) >= 0 /\ LastPixel(Pos.x, Me.reg) < Mapped
        BY <1>1, <3>1, <3>2, DrawnInside
      <4>2. FirstPixel(Pos.x, Me.reg) \in Int /\ LastPixel(Pos.x, Me.reg) \in Int /\ Mapped \in Nat
        <5>1. calls # <<>>
          BY <3>1 DEF Todo, At
        <5>2. Me.reg \in Int /\ Pos.x \in Int
          BY <1>1, <5>1, TopFrame DEF FrameType, Typed
        <5>3. \A x, y \in Int : FirstPixel(x, y) \in Int /\ LastPixel(x, y) \in Int
          BY AllPixelsGrow
        <5> QED BY <5>2, <5>3, ScreenAssumption
      <4> HIDE DEF FirstPixel, LastPixel
      <4> QED BY <3>1, <4>1, <4>2
    <3> QED BY <3>1, <3>2 DEF GlyphsInVideoMemory
  <2>2. CASE Tab \/ Turn \/ Load \/ Store \/ Test \/ Call \/ NextChar \/ Return
    <3>1. UNCHANGED fault
      BY <2>2 DEF Tab, Turn, Load, Store, Test, Call, NextChar, Return
    <3> QED BY <1>1, <1>3, <3>1 DEF GlyphsInVideoMemory
  <2>3. CASE \E who \in {"trap", "IRQ"} : Handler(who)
    <3>1. UNCHANGED fault
      BY <2>3 DEF Handler
    <3> QED BY <1>1, <1>3, <3>1 DEF GlyphsInVideoMemory
  <2>4. CASE Format
    <3>1. fault' = "buffer" \/ fault' = fault
      BY <2>4 DEF Format
    <3> QED BY <1>1, <1>3, <3>1 DEF GlyphsInVideoMemory
  <2>5. CASE UNCHANGED vars
    <3>1. UNCHANGED <<fault, strayed>>
      BY <2>5 DEF vars
    <3> QED BY <1>1, <3>1 DEF GlyphsInVideoMemory
  <2> QED BY <2>1, <2>2, <2>3, <2>4, <2>5, NextIs DEF Access
<1> QED BY <1>2, <1>3, <1>4 DEF GlyphsInv

\* Prints that interrupt one another never draw outside the mapped video memory,
\* above it or below, on any screen that leaves room behind it for what three of them
\* can add up to, and although __putchar checks nothing, unless one of three things
\* happened before: a '\b' in the first cell (printk.c:306), a print that began while
\* another's '\b' had the cursor left of or above the screen (printk.c:300, 304), or a
\* print that came between the two loads of a tab and left the cursor beyond the stop
\* (printk.c:314).
THEOREM GlyphsStayInMemory ==
    ASSUME EnoughMemory
    PROVE  Spec => []GlyphsInVideoMemory
<1>1. Init => GlyphsInv
  BY InitGlyphs
<1>2. GlyphsInv /\ [Next]_vars => GlyphsInv'
  BY StepGlyphs
<1>3. GlyphsInv => GlyphsInVideoMemory
  BY DEF GlyphsInv
<1> QED BY <1>1, <1>2, <1>3, PTL DEF Spec

=============================================================================
