---------------------------- MODULE NumberLemmas ----------------------------
(***************************************************************************)
(* What the proofs need to know of numbers: products, quotients and        *)
(* remainders; induction, and functions defined by recursion, both from    *)
(* the least-number principle; sums.                                       *)
(***************************************************************************)
EXTENDS Integers, WellFoundedInduction, TLAPS

LEMMA ProductNat == ASSUME NEW a \in Nat, NEW b \in Nat PROVE a * b \in Nat
  OBVIOUS

LEMMA QuotientNat == ASSUME NEW a \in Nat, NEW b \in Nat \ {0} PROVE a \div b \in Nat
  OBVIOUS

LEMMA RemainderNat == ASSUME NEW a \in Int, NEW b \in Nat \ {0} PROVE a % b \in 0 .. b - 1
  OBVIOUS

LEMMA DivisionRanges ==
  ASSUME NEW a \in Nat, NEW b \in Nat \ {0}
  PROVE  a \div b \in Nat /\ a % b \in 0 .. b - 1
<1>1. a \div b \in Nat
  BY QuotientNat
<1>2. a % b \in 0 .. b - 1
  <2>1. a \in Int
    OBVIOUS
  <2> QED BY <2>1, RemainderNat
<1> QED BY <1>1, <1>2

LEMMA ProductInt == ASSUME NEW a \in Int, NEW b \in Int PROVE a * b \in Int
  OBVIOUS

LEMMA ProductPositive ==
  ASSUME NEW a \in Nat \ {0}, NEW b \in Nat \ {0}
  PROVE  a * b \in Nat \ {0}
  OBVIOUS

LEMMA Quotient ==
  ASSUME NEW a \in Nat, NEW b \in Nat \ {0}
  PROVE  /\ a \div b \in Nat /\ a % b \in 0 .. b - 1
         /\ a = b * (a \div b) + (a % b)
<1>1. a \div b \in Nat
  OBVIOUS
<1>2. a % b \in 0 .. b - 1
  OBVIOUS
<1>3. a = b * (a \div b) + (a % b)
  OBVIOUS
<1> QED BY <1>1, <1>2, <1>3

LEMMA SmallQuotient ==
  ASSUME NEW a \in Nat, NEW b \in Nat \ {0}, b <= a
  PROVE  a \div b \in Nat \ {0}
<1>1. CASE a \div b = 0
  BY <1>1, Quotient
<1> QED BY <1>1, Quotient

LEMMA Multiples ==
  ASSUME NEW a \in Nat, NEW b \in Nat, NEW d \in Nat \ {0}, a < b
  PROVE  a * d + d <= b * d
<1>1. PICK k \in Nat : b = a + 1 + k
  <2>1. b - a - 1 \in Nat /\ b = a + 1 + (b - a - 1)
    OBVIOUS
  <2> QED BY <2>1
<1>2. b * d = a * d + d + k * d
  BY <1>1
<1>3. k * d \in Nat /\ a * d \in Nat /\ b * d \in Nat
  BY ProductNat
<1> QED BY <1>2, <1>3

LEMMA IntegerQuotient ==
  ASSUME NEW a \in Int, NEW b \in Nat \ {0}
  PROVE  /\ a \div b \in Int /\ a % b \in 0 .. b - 1
         /\ a = b * (a \div b) + (a % b)
<1>1. a \div b \in Int
  OBVIOUS
<1>2. a % b \in 0 .. b - 1
  OBVIOUS
<1>3. a = b * (a \div b) + (a % b)
  OBVIOUS
<1> QED BY <1>1, <1>2, <1>3

LEMMA IntegerMultiples ==
  ASSUME NEW a \in Int, NEW b \in Int, NEW d \in Nat \ {0}, a < b
  PROVE  a * d + d <= b * d
<1>1. PICK k \in Nat : b = a + 1 + k
  <2>1. b - a - 1 \in Nat /\ b = a + 1 + (b - a - 1)
    OBVIOUS
  <2> QED BY <2>1
<1>2. b * d = a * d + d + k * d
  BY <1>1
<1>3. k * d \in Nat /\ a * d \in Int /\ b * d \in Int
  BY ProductNat, ProductInt
<1> QED BY <1>2, <1>3

(* A quotient and a remainder are found again in what they make up. *)
LEMMA DivisionUnique ==
  ASSUME NEW d \in Nat \ {0}, NEW q \in Int, NEW r \in 0 .. d - 1
  PROVE  /\ (q * d + r) \div d = q
         /\ (q * d + r) % d = r
<1> DEFINE n  == q * d + r
           q1 == n \div d
           r1 == n % d
<1>1. q * d \in Int /\ n \in Int
  BY ProductInt
<1>2. q1 \in Int /\ r1 \in 0 .. d - 1
  BY <1>1, IntegerQuotient
<1>3. n = d * q1 + r1
  BY <1>1, IntegerQuotient
<1>4. q1 * d = d * q1 /\ q1 * d \in Int
  BY <1>2, ProductInt
<1>5. n = q * d + r
  OBVIOUS
<1> HIDE DEF n, q1, r1
<1>6. ~ (q < q1)
  <2>1. SUFFICES ASSUME q < q1 PROVE FALSE
    OBVIOUS
  <2>2. q * d + d <= q1 * d
    BY <1>2, <2>1, IntegerMultiples
  <2> QED BY <1>1, <1>2, <1>3, <1>4, <1>5, <2>2
<1>7. ~ (q1 < q)
  <2>1. SUFFICES ASSUME q1 < q PROVE FALSE
    OBVIOUS
  <2>2. q1 * d + d <= q * d
    BY <1>2, <2>1, IntegerMultiples
  <2> QED BY <1>1, <1>2, <1>3, <1>4, <1>5, <2>2
<1>8. q1 = q
  BY <1>2, <1>6, <1>7
<1>9. r1 = r
  BY <1>1, <1>2, <1>3, <1>4, <1>5, <1>8
<1> QED BY <1>8, <1>9 DEF n, q1, r1

-----------------------------------------------------------------------------
(* Induction.  The library's theorem for it takes the property as an       *)
(* operator; here it is a set of numbers.                                  *)

LEMMA LeastNatural ==
  ASSUME NEW T, T \subseteq Nat, T # {}
  PROVE  \E x \in T : \A y \in T : x <= y
<1>1. IsWellFoundedOn(OpToRel(<, Nat), Nat)
  BY NatLessThanWellFounded
<1>2. PICK x \in T : \A y \in T : ~ (<<y, x>> \in OpToRel(<, Nat))
  BY <1>1, WFMin
<1>3. ASSUME NEW y \in T PROVE x <= y
  <2>1. x \in Nat /\ y \in Nat
    OBVIOUS
  <2>2. ~ (y < x)
    BY <1>2, <2>1 DEF OpToRel
  <2> QED BY <2>1, <2>2
<1> QED BY <1>3

LEMMA SetInduction ==
  ASSUME NEW T, 0 \in T, \A n \in Nat : n \in T => n + 1 \in T
  PROVE  Nat \subseteq T
<1> SUFFICES ASSUME Nat \ T # {} PROVE FALSE
  OBVIOUS
<1>1. PICK x \in Nat \ T : \A y \in Nat \ T : x <= y
  BY LeastNatural
<1>2. x # 0
  OBVIOUS
<1>3. x - 1 \in Nat /\ x - 1 \in T
  BY <1>1, <1>2
<1> QED BY <1>3

LEMMA BoundedInduction ==
  ASSUME NEW n \in Nat, NEW T, 0 \in T, \A i \in 0 .. n - 1 : i \in T => i + 1 \in T
  PROVE  0 .. n \subseteq T
<1> DEFINE U == {i \in Nat : i <= n => i \in T}
<1>1. 0 \in U
  OBVIOUS
<1>2. ASSUME NEW i \in Nat, i \in U PROVE i + 1 \in U
  BY <1>2
<1> HIDE DEF U
<1>3. Nat \subseteq U
  BY <1>1, <1>2, SetInduction
<1> QED BY <1>3 DEF U

-----------------------------------------------------------------------------
(* Recursion: what a step makes of a number and a value can be iterated    *)
(* from any start, so that a function defined by recursion satisfies its   *)
(* equation.                                                               *)

StepOn(step, S) == step \in [Nat \X S -> S]

Iterates(f, S, base, step) ==
    /\ f \in [Nat -> S]
    /\ f[0] = base
    /\ \A n \in Nat : f[n + 1] = step[<<n, f[n]>>]

LEMMA Iteration ==
  ASSUME NEW S, NEW base \in S, NEW step, StepOn(step, S)
  PROVE  \E f : Iterates(f, S, base, step)
<1> USE DEF StepOn
<1> DEFINE Run(n, g) == /\ g \in [0 .. n -> S] /\ g[0] = base
                        /\ \A i \in Nat : i < n => g[i + 1] = step[<<i, g[i]>>]
           T == {n \in Nat : \E g : Run(n, g)}
<1>1. 0 \in T
  <2>1. Run(0, [i \in 0 .. 0 |-> base])
    OBVIOUS
  <2> QED BY <2>1
<1>2. ASSUME NEW n \in Nat, n \in T PROVE n + 1 \in T
  <2>1. PICK g : Run(n, g)
    BY <1>2
  <2> DEFINE h == [i \in 0 .. n + 1 |-> IF i <= n THEN g[i] ELSE step[<<n, g[n]>>]]
  <2>2. h \in [0 .. n + 1 -> S]
    BY <2>1
  <2>3. h[0] = base
    BY <2>1
  <2>4. ASSUME NEW i \in Nat, i < n + 1 PROVE h[i + 1] = step[<<i, h[i]>>]
    <3>1. CASE i < n
      BY <2>1, <3>1
    <3>2. CASE i = n
      <4>1. h[n + 1] = step[<<n, g[n]>>]
        <5>1. n + 1 \in 0 .. n + 1 /\ ~ (n + 1 <= n)
          OBVIOUS
        <5> QED BY <5>1
      <4>2. h[n] = g[n]
        OBVIOUS
      <4> HIDE DEF h
      <4> QED BY <4>1, <4>2, <3>2
    <3> QED BY <3>1, <3>2, <2>4
  <2> HIDE DEF h
  <2>5. Run(n + 1, h)
    BY <2>2, <2>3, <2>4
  <2> HIDE DEF Run
  <2>6. \E k : Run(n + 1, k)
    BY <2>5
  <2> QED BY <2>6
<1>3. \A n \in Nat : \E g : Run(n, g)
  <2> HIDE DEF T
  <2>1. Nat \subseteq T
    BY <1>1, <1>2, SetInduction
  <2> QED BY <2>1 DEF T
<1>4. ASSUME NEW m \in Nat, NEW n \in Nat, NEW g, NEW h, Run(m, g), Run(n, h), m <= n
      PROVE  \A i \in 0 .. m : g[i] = h[i]
  <2> DEFINE U == {i \in Nat : i <= m => g[i] = h[i]}
  <2>1. 0 \in U
    BY <1>4
  <2>2. ASSUME NEW i \in Nat, i \in U PROVE i + 1 \in U
    <3>1. CASE i < m
      <4>1. g[i] = h[i] /\ i < n
        BY <2>2, <3>1, <1>4
      <4>2. g[i + 1] = step[<<i, g[i]>>] /\ h[i + 1] = step[<<i, h[i]>>]
        BY <4>1, <3>1, <1>4
      <4> QED BY <4>1, <4>2
    <3>2. CASE ~ (i < m)
      BY <3>2
    <3> QED BY <3>1, <3>2
  <2> HIDE DEF U
  <2>3. Nat \subseteq U
    BY <2>1, <2>2, SetInduction
  <2> QED BY <2>3 DEF U
<1> DEFINE r == [n \in Nat |-> CHOOSE g : Run(n, g)]
           f == [n \in Nat |-> r[n][n]]
<1>5. \A n \in Nat : Run(n, r[n])
  <2> HIDE DEF Run
  <2> TAKE n \in Nat
  <2>1. \E g : Run(n, g)
    BY <1>3
  <2>2. Run(n, CHOOSE g : Run(n, g))
    BY <2>1
  <2> QED BY <2>2
<1> HIDE DEF r
<1>6. f \in [Nat -> S]
  BY <1>5
<1>7. f[0] = base
  BY <1>5
<1>8. ASSUME NEW n \in Nat PROVE f[n + 1] = step[<<n, f[n]>>]
  <2>1. Run(n, r[n]) /\ Run(n + 1, r[n + 1])
    BY <1>5
  <2>2. r[n][n] = r[n + 1][n]
    <3> HIDE DEF Run
    <3>1. \A i \in 0 .. n : r[n][i] = r[n + 1][i]
      BY <1>4, <2>1
    <3> QED BY <3>1
  <2>3. r[n + 1][n + 1] = step[<<n, r[n + 1][n]>>]
    BY <2>1
  <2> QED BY <2>2, <2>3
<1> HIDE DEF f
<1>9. Iterates(f, S, base, step)
  BY <1>6, <1>7, <1>8 DEF Iterates
<1> QED BY <1>9

(* The same from 1 to n, as the LET functions of the models are defined *)
Iterated(h, n, S, base, step) ==
    /\ h \in [0 .. n -> S]
    /\ h[0] = base
    /\ \A k \in 1 .. n : h[k] = step[<<k, h[k - 1]>>]

LEMMA BoundedIteration ==
  ASSUME NEW n \in Nat, NEW S, NEW base \in S, NEW step, StepOn(step, S)
  PROVE  \E h : Iterated(h, n, S, base, step)
<1> DEFINE next == [q \in Nat \X S |-> step[<<q[1] + 1, q[2]>>]]
<1>1. StepOn(next, S)
  <2>1. ASSUME NEW q \in Nat \X S PROVE step[<<q[1] + 1, q[2]>>] \in S
    <3>1. <<q[1] + 1, q[2]>> \in Nat \X S
      OBVIOUS
    <3> QED BY <3>1 DEF StepOn
  <2> QED BY <2>1 DEF StepOn
<1>2. \A k \in Nat, x \in S : next[<<k, x>>] = step[<<k + 1, x>>]
  OBVIOUS
<1> HIDE DEF next
<1>3. PICK f : Iterates(f, S, base, next)
  BY <1>1, Iteration
<1>4. f \in [Nat -> S] /\ f[0] = base /\ \A k \in Nat : f[k + 1] = step[<<k + 1, f[k]>>]
  BY <1>2, <1>3 DEF Iterates
<1> DEFINE h == [k \in 0 .. n |-> f[k]]
<1>5. h \in [0 .. n -> S] /\ h[0] = base
  BY <1>4
<1>6. ASSUME NEW k \in 1 .. n PROVE h[k] = step[<<k, h[k - 1]>>]
  <2>1. k - 1 \in Nat /\ (k - 1) + 1 = k /\ k \in 0 .. n /\ k - 1 \in 0 .. n
    OBVIOUS
  <2> QED BY <1>4, <2>1
<1> HIDE DEF h
<1>7. Iterated(h, n, S, base, step)
  BY <1>5, <1>6 DEF Iterated
<1> QED BY <1>7

LEMMA StaysIn ==
  ASSUME NEW n \in Nat, NEW S, NEW g, g[0] \in S,
         \A k \in 1 .. n : g[k - 1] \in S => g[k] \in S
  PROVE  \A k \in 0 .. n : g[k] \in S
<1> DEFINE T == {k \in 0 .. n : g[k] \in S}
<1>1. 0 \in T
  OBVIOUS
<1>2. ASSUME NEW i \in 0 .. n - 1, i \in T PROVE i + 1 \in T
  <2>1. i + 1 \in 1 .. n /\ (i + 1) - 1 = i
    OBVIOUS
  <2> QED BY <1>2, <2>1
<1> HIDE DEF T
<1>3. 0 .. n \subseteq T
  BY <1>1, <1>2, BoundedInduction
<1> QED BY <1>3 DEF T

-----------------------------------------------------------------------------
(* Sums of the first m values of a function *)

IsSum(g, f, m) ==
    g = [n \in 0 .. m |-> IF n = 0 THEN 0 ELSE g[n - 1] + f[n]]

LEMMA SumExists ==
  ASSUME NEW m \in Nat, NEW f \in [1 .. m -> Int]
  PROVE  \E g : IsSum(g, f, m)
<1> DEFINE step == [p \in Nat \X Int |-> IF p[1] < m THEN p[2] + f[p[1] + 1] ELSE 0]
<1>1. \A n \in Nat, k \in Int : n < m => step[<<n, k>>] = k + f[n + 1]
  OBVIOUS
<1>2. StepOn(step, Int)
  BY DEF StepOn
<1> HIDE DEF step
<1>3. 0 \in Int
  OBVIOUS
<1>4. PICK h : Iterates(h, Int, 0, step)
  BY <1>2, <1>3, Iteration
<1>5. /\ h \in [Nat -> Int] /\ h[0] = 0
      /\ \A n \in Nat : n < m => h[n + 1] = h[n] + f[n + 1]
  BY <1>1, <1>4 DEF Iterates
<1> DEFINE g == [n \in 0 .. m |-> h[n]]
<1>6. ASSUME NEW n \in 0 .. m PROVE g[n] = IF n = 0 THEN 0 ELSE g[n - 1] + f[n]
  <2>1. CASE n = 0
    BY <1>5, <2>1
  <2>2. CASE n # 0
    <3>1. n - 1 \in Nat /\ n - 1 < m /\ (n - 1) + 1 = n /\ n - 1 \in 0 .. m
      BY <2>2
    <3>2. h[n] = h[n - 1] + f[n]
      BY <1>5, <3>1
    <3> QED BY <2>2, <3>1, <3>2
  <2> QED BY <2>1, <2>2
<1>7. IsSum(g, f, m)
  <2>1. g = [n \in 0 .. m |-> g[n]]
    OBVIOUS
  <2> HIDE DEF g
  <2> QED BY <1>6, <2>1 DEF IsSum
<1> QED BY <1>7

LEMMA SumValues ==
  ASSUME NEW m \in Nat, NEW f \in [1 .. m -> Int], NEW g, IsSum(g, f, m)
  PROVE  /\ g[0] = 0
         /\ \A n \in 1 .. m : g[n] = g[n - 1] + f[n]
         /\ \A n \in 0 .. m : g[n] \in Int
<1>1. g[0] = 0 /\ \A n \in 1 .. m : g[n] = g[n - 1] + f[n]
  BY DEF IsSum
<1> DEFINE T == {n \in Nat : n <= m => g[n] \in Int}
<1>2. 0 \in T
  BY <1>1
<1>3. ASSUME NEW n \in Nat, n \in T PROVE n + 1 \in T
  <2>1. CASE n + 1 <= m
    <3>1. n + 1 \in 1 .. m /\ (n + 1) - 1 = n
      BY <2>1
    <3>2. g[n + 1] = g[n] + f[n + 1]
      BY <1>1, <3>1
    <3> QED BY <1>3, <2>1, <3>1, <3>2
  <2>2. CASE ~ (n + 1 <= m)
    BY <2>2
  <2> QED BY <2>1, <2>2
<1> HIDE DEF T
<1>4. Nat \subseteq T
  BY <1>2, <1>3, SetInduction
<1>5. \A n \in 0 .. m : g[n] \in Int
  BY <1>4 DEF T
<1> QED BY <1>1, <1>5

DifferAt(e, f, k, m) == \A i \in 1 .. m : i # k => e[i] = f[i]

(* Changing one value changes the sum by the difference. *)
LEMMA SumChange ==
  ASSUME NEW m \in Nat, NEW f \in [1 .. m -> Int], NEW e \in [1 .. m -> Int],
         NEW k \in 1 .. m, DifferAt(e, f, k, m),
         NEW g, NEW h, IsSum(g, f, m), IsSum(h, e, m)
  PROVE  g[m] \in Int /\ h[m] = g[m] + (e[k] - f[k])
<1>1. /\ g[0] = 0 /\ h[0] = 0
      /\ \A n \in 1 .. m : g[n] = g[n - 1] + f[n]
      /\ \A n \in 1 .. m : h[n] = h[n - 1] + e[n]
      /\ \A n \in 0 .. m : g[n] \in Int /\ h[n] \in Int
  BY SumValues
<1> DEFINE d == e[k] - f[k]
           T == {n \in Nat : n <= m => h[n] = g[n] + (IF n < k THEN 0 ELSE d)}
<1>2. d \in Int
  OBVIOUS
<1>3. 0 \in T
  BY <1>1
<1>4. ASSUME NEW n \in Nat, n \in T PROVE n + 1 \in T
  <2>1. CASE n + 1 <= m
    <3>1. n + 1 \in 1 .. m /\ (n + 1) - 1 = n /\ n \in 0 .. m
      BY <2>1
    <3>2. /\ g[n + 1] = g[n] + f[n + 1] /\ h[n + 1] = h[n] + e[n + 1]
          /\ h[n] = g[n] + (IF n < k THEN 0 ELSE d)
          /\ f[n + 1] \in Int /\ e[n + 1] \in Int /\ g[n] \in Int
      <4>1. g[n + 1] = g[n] + f[n + 1] /\ h[n + 1] = h[n] + e[n + 1]
        BY <1>1, <3>1
      <4>2. h[n] = g[n] + (IF n < k THEN 0 ELSE d)
        BY <1>4, <3>1
      <4>3. f[n + 1] \in Int /\ e[n + 1] \in Int /\ g[n] \in Int
        BY <1>1, <3>1
      <4> QED BY <4>1, <4>2, <4>3
    <3>3. CASE n + 1 = k
      <4>1. n < k /\ ~ (n + 1 < k) /\ d = e[n + 1] - f[n + 1]
        BY <3>3
      <4> HIDE DEF d
      <4> QED BY <3>2, <4>1
    <3>4. CASE n + 1 # k
      <4>1. e[n + 1] = f[n + 1] /\ (n < k <=> n + 1 < k)
        BY <3>1, <3>4 DEF DifferAt
      <4> HIDE DEF d
      <4> QED BY <1>2, <3>2, <4>1
    <3> QED BY <3>3, <3>4
  <2>2. CASE ~ (n + 1 <= m)
    BY <2>2
  <2> QED BY <2>1, <2>2
<1> HIDE DEF T
<1>5. m \in T
  BY <1>3, <1>4, SetInduction
<1>6. h[m] = g[m] + (IF m < k THEN 0 ELSE d)
  BY <1>5 DEF T
<1>7. ~ (m < k) /\ m \in 0 .. m
  OBVIOUS
<1> QED BY <1>1, <1>6, <1>7

(* Dividing twice divides by the product. *)
LEMMA QuotientOfQuotient ==
  ASSUME NEW v \in Nat, NEW a \in Nat \ {0}, NEW b \in Nat \ {0}
  PROVE  (v \div a) \div b = v \div (a * b)
<1> DEFINE q == v \div a
           r == v % a
           t == q \div b
           u == q % b
           d == a * b
           x == a * u
           y == t * d
<1>1. q \in Nat /\ r \in 0 .. a - 1 /\ v = a * q + r
  BY Quotient
<1> HIDE DEF q, r
<1>2. t \in Nat /\ u \in 0 .. b - 1 /\ q = b * t + u
  BY <1>1, Quotient
<1> HIDE DEF t, u
<1>3. a * q = y + x
  BY <1>1, <1>2
<1>4. d \in Nat \ {0} /\ x \in Nat /\ y \in Nat
  <2>1. d \in Nat \ {0}
    BY ProductPositive
  <2>2. x \in Nat
    BY <1>2, ProductNat
  <2> HIDE DEF d, x
  <2> QED BY <1>2, <2>1, <2>2, ProductNat
<1>5. x + a <= d
  <2>1. u * a + a <= b * a
    BY <1>2, Multiples
  <2>2. u * a = x /\ b * a = d
    BY <1>2
  <2> QED BY <2>1, <2>2
<1> HIDE DEF x
<1>6. v = y + (x + r) /\ x + r \in 0 .. d - 1
  <2> HIDE DEF d, y
  <2> QED BY <1>1, <1>3, <1>4, <1>5
<1>7. (t * d + (x + r)) \div d = t
  <2> HIDE DEF d
  <2> QED BY <1>2, <1>4, <1>6, DivisionUnique
<1> QED BY <1>6, <1>7 DEF t, q

=============================================================================
