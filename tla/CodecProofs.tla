---------------------------- MODULE CodecProofs ----------------------------
(***************************************************************************)
(* How a double travels, for any number of bits: what pack754 makes of a   *)
(* normal value, how far the rounding on the line can move it, and that    *)
(* two values never change places.                                         *)
(***************************************************************************)
EXTENDS Codec, TLAPS, FiniteSetTheorems

-----------------------------------------------------------------------------
(***************************************************************************)
(* Induction over numbers, for a set of them: a downward closed set that   *)
(* is bounded is an interval, as the number of its members tells.          *)
(***************************************************************************)
\* The last point of a downward closed set of numbers.
LEMMA Highest ==
  ASSUME NEW n \in Nat, NEW S \in SUBSET (0 .. n), 0 \in S,
         \A k \in S : 0 .. k \subseteq S
  PROVE  \E k \in S : S = 0 .. k
<1> DEFINE c == Cardinality(S)
<1> HIDE DEF c
<1>1. IsFiniteSet(0 .. n) /\ IsFiniteSet(S) /\ c \in Nat
  <2>1. IsFiniteSet(0 .. n)
    BY FS_Interval
  <2>2. IsFiniteSet(S)
    BY <2>1, FS_Subset
  <2> QED BY <2>1, <2>2, FS_CardinalityType DEF c
<1>2. c # 0
  BY <1>1, FS_EmptySet DEF c
<1>3. \A k \in S : k + 1 <= c
  <2> TAKE k \in S
  <2>1. k \in Nat /\ (0 .. k) \in SUBSET S
    OBVIOUS
  <2>2. Cardinality(0 .. k) = k + 1
    BY <2>1, FS_Interval
  <2> QED BY <2>1, <2>2, <1>1, FS_Subset DEF c
<1>4. S \in SUBSET (0 .. c - 1)
  BY <1>1, <1>3
<1>5. IsFiniteSet(0 .. c - 1) /\ Cardinality(0 .. c - 1) = c
  <2>1. c - 1 \in Int /\ ~(0 > c - 1) /\ (c - 1) - 0 + 1 = c
    BY <1>1, <1>2
  <2> QED BY <2>1, FS_Interval
<1>6. S = 0 .. c - 1
  BY <1>4, <1>5, FS_Subset DEF c
<1>7. c - 1 \in S
  BY <1>1, <1>2, <1>6
<1> QED BY <1>6, <1>7

\* Induction.
LEMMA Inductive ==
  ASSUME NEW S, 0 \in S, \A n \in Nat : n \in S => n + 1 \in S
  PROVE  Nat \subseteq S
<1> SUFFICES ASSUME NEW n \in Nat, n \notin S PROVE FALSE
  OBVIOUS
<1> DEFINE T == {k \in 0 .. n : 0 .. k \subseteq S}
<1>1. T \in SUBSET (0 .. n) /\ 0 \in T /\ \A k \in T : 0 .. k \subseteq T
  OBVIOUS
<1> HIDE DEF T
<1>2. PICK k \in T : T = 0 .. k
  BY <1>1, Highest
<1>3. k \in 0 .. n /\ 0 .. k \subseteq S
  BY <1>2, <1>1 DEF T
<1>4. k # n
  BY <1>3
<1>5. k + 1 \in S /\ k + 1 \in 0 .. n
  BY <1>3, <1>4
<1>6. k + 1 \in T
  BY <1>3, <1>5 DEF T
<1> QED BY <1>2, <1>3, <1>6

-----------------------------------------------------------------------------
(***************************************************************************)
(* Powers of two: the recursion of Pow2 has a solution, and what it says.  *)
(***************************************************************************)
\* The first k + 1 powers.
IsTable(g, k) ==
  /\ g \in [0 .. k -> Nat \ {0}]
  /\ \A i \in 0 .. k : g[i] = IF i = 0 THEN 1 ELSE 2 * g[i - 1]

\* In a table each power is twice the one before.
LEMMA TableStep ==
  ASSUME NEW k \in Nat, NEW g, IsTable(g, k), NEW i \in Nat, i + 1 <= k
  PROVE  g[i + 1] = 2 * g[i]
<1>1. i + 1 \in 0 .. k /\ i + 1 # 0 /\ (i + 1) - 1 = i
  OBVIOUS
<1>2. g[i + 1] = IF i + 1 = 0 THEN 1 ELSE 2 * g[(i + 1) - 1]
  BY <1>1 DEF IsTable
<1> QED BY <1>1, <1>2

\* Two tables have the same powers as far as both go.
LEMMA OneTable ==
  ASSUME NEW j \in Nat, NEW k \in Nat, NEW g, NEW h, IsTable(g, j), IsTable(h, k),
         NEW i \in Nat, i <= j, i <= k
  PROVE  g[i] = h[i]
<1> DEFINE S == {m \in Nat : m <= j /\ m <= k => g[m] = h[m]}
<1>1. 0 \in S
  BY DEF IsTable
<1>2. ASSUME NEW m \in Nat, m \in S
      PROVE  m + 1 \in S
  <2> SUFFICES ASSUME m + 1 <= j, m + 1 <= k
               PROVE  g[m + 1] = h[m + 1]
    OBVIOUS
  <2>1. g[m] = h[m]
    BY <1>2
  <2> QED BY <2>1, TableStep
<1> HIDE DEF S
<1>3. i \in S
  BY <1>1, <1>2, Inductive
<1> QED BY <1>3 DEF S

\* There are tables of any length.
LEMMA Tables == \A k \in Nat : \E g : IsTable(g, k)
<1> DEFINE S == {k \in Nat : \E g : IsTable(g, k)}
<1>1. 0 \in S
  <2>1. IsTable([i \in 0 .. 0 |-> 1], 0)
    BY DEF IsTable
  <2> QED BY <2>1
<1>2. ASSUME NEW k \in Nat, k \in S
      PROVE  k + 1 \in S
  <2>1. PICK g : IsTable(g, k)
    BY <1>2
  <2> DEFINE h == [i \in 0 .. k + 1 |-> IF i = k + 1 THEN 2 * g[k] ELSE g[i]]
  <2>2. h \in [0 .. k + 1 -> Nat \ {0}]
    <3>1. ASSUME NEW i \in 0 .. k + 1 PROVE (IF i = k + 1 THEN 2 * g[k] ELSE g[i]) \in Nat \ {0}
      <4>1. CASE i = k + 1
        <5>1. g[k] \in Nat \ {0}
          BY <2>1 DEF IsTable
        <5> QED BY <4>1, <5>1
      <4>2. CASE i # k + 1
        BY <4>2, <2>1 DEF IsTable
      <4> QED BY <4>1, <4>2
    <3> QED BY <3>1
  <2>3. ASSUME NEW i \in 0 .. k + 1
        PROVE  h[i] = IF i = 0 THEN 1 ELSE 2 * h[i - 1]
    BY <2>1 DEF IsTable
  <2>4. IsTable(h, k + 1)
    BY <2>2, <2>3 DEF IsTable
  <2> QED BY <2>4
<1> HIDE DEF S
<1>3. Nat \subseteq S
  BY <1>1, <1>2, Inductive
<1> QED BY <1>3 DEF S

\* What the recursion of Pow2 says, by the table of every length.
LEMMA Powers ==
  /\ Pow2 \in [Nat -> Nat \ {0}]
  /\ Pow2[0] = 1
  /\ \A n \in Nat : Pow2[n + 1] = 2 * Pow2[n]
<1> DEFINE Table(n) == CHOOSE g : IsTable(g, n)
           F == [n \in Nat |-> Table(n)[n]]
           Rec(f) == [n \in Nat |-> IF n = 0 THEN 1 ELSE 2 * f[n - 1]]
<1>1. \A n \in Nat : IsTable(Table(n), n)
  BY Tables
<1> HIDE DEF Table
<1>2. \A n \in Nat : Table(n)[n] \in Nat \ {0}
  BY <1>1 DEF IsTable
<1>3. ASSUME NEW n \in Nat PROVE F[n] = IF n = 0 THEN 1 ELSE 2 * F[n - 1]
  <2>1. CASE n = 0
    BY <2>1, <1>1 DEF IsTable
  <2>2. CASE n # 0
    <3>1. n - 1 \in Nat /\ n - 1 <= n - 1 /\ n - 1 <= n
      BY <2>2
    <3>2. Table(n)[n - 1] = Table(n - 1)[n - 1]
      BY <3>1, <1>1, OneTable
    <3>3. Table(n)[n] = 2 * Table(n)[n - 1]
      BY <2>2, <1>1 DEF IsTable
    <3> QED BY <3>1, <3>2, <3>3, <2>2
  <2> QED BY <2>1, <2>2
<1>4. F = Rec(F)
  BY <1>3
<1>5. Pow2 = CHOOSE f : f = Rec(f)
  BY DEF Pow2
<1> HIDE DEF Rec, F
<1>6. Pow2 = Rec(Pow2)
  BY <1>4, <1>5
<1>7. \A n \in Nat : Pow2[n] = IF n = 0 THEN 1 ELSE 2 * Pow2[n - 1]
  BY <1>6 DEF Rec
<1>8. Pow2 \in [Nat -> Nat \ {0}]
  <2> DEFINE S == {n \in Nat : Pow2[n] \in Nat \ {0}}
  <2>1. 0 \in S
    BY <1>7
  <2>2. ASSUME NEW n \in Nat, n \in S
        PROVE  n + 1 \in S
    <3>1. n + 1 \in Nat /\ n + 1 # 0 /\ (n + 1) - 1 = n
      OBVIOUS
    <3>2. Pow2[n + 1] = 2 * Pow2[n]
      BY <1>7, <3>1
    <3> QED BY <3>2, <2>2
  <2> HIDE DEF S
  <2>3. Nat \subseteq S
    BY <2>1, <2>2, Inductive
  <2>4. \A n \in Nat : Pow2[n] \in Nat \ {0}
    BY <2>3 DEF S
  <2>5. Pow2 = [n \in Nat |-> Pow2[n]]
    BY <1>6 DEF Rec
  <2> QED BY <2>4, <2>5
<1>9. ASSUME NEW n \in Nat PROVE Pow2[n + 1] = 2 * Pow2[n]
  <2>1. n + 1 \in Nat /\ n + 1 # 0 /\ (n + 1) - 1 = n
    OBVIOUS
  <2> QED BY <1>7, <2>1
<1> QED BY <1>7, <1>8, <1>9

\* The law of exponents.
LEMMA PowSum ==
  ASSUME NEW m \in Nat, NEW n \in Nat
  PROVE  Pow2[m + n] = Pow2[m] * Pow2[n]
<1> DEFINE S == {k \in Nat : Pow2[m + k] = Pow2[m] * Pow2[k]}
<1>1. 0 \in S
  BY Powers
<1>2. ASSUME NEW k \in Nat, k \in S PROVE k + 1 \in S
  <2> DEFINE a == Pow2[m]
             b == Pow2[k]
  <2>1. a \in Nat /\ b \in Nat /\ Pow2[m + k] = a * b
    BY <1>2, Powers
  <2>2. Pow2[k + 1] = 2 * b /\ Pow2[m + (k + 1)] = 2 * Pow2[m + k]
    BY Powers
  <2> HIDE DEF a, b
  <2>3. 2 * (a * b) = a * (2 * b)
    BY <2>1
  <2> QED BY <2>1, <2>2, <2>3 DEF a, b
<1> HIDE DEF S
<1>3. n \in S
  BY <1>1, <1>2, Inductive
<1> QED BY <1>3 DEF S

\* Each power is a multiple of the lower ones.
LEMMA Multiple ==
  ASSUME NEW m \in Nat, NEW n \in Nat, m <= n
  PROVE  /\ n - m \in Nat
         /\ Pow2[n] = Pow2[n - m] * Pow2[m]
         /\ Pow2[m] <= Pow2[n]
<1>1. n - m \in Nat /\ (n - m) + m = n
  OBVIOUS
<1>2. Pow2[n] = Pow2[n - m] * Pow2[m]
  BY <1>1, PowSum
<1>3. ASSUME NEW a \in Nat \ {0}, NEW b \in Nat PROVE b <= a * b
  OBVIOUS
<1>4. Pow2[n - m] \in Nat \ {0} /\ Pow2[m] \in Nat
  BY <1>1, Powers
<1> QED BY <1>1, <1>2, <1>3, <1>4

\* The recursion, read downwards.
LEMMA Doubled ==
  ASSUME NEW n \in Nat \ {0}
  PROVE  n - 1 \in Nat /\ Pow2[n] = 2 * Pow2[n - 1]
<1>1. n - 1 \in Nat /\ (n - 1) + 1 = n
  OBVIOUS
<1> QED BY <1>1, Powers

-----------------------------------------------------------------------------
(***************************************************************************)
(* Arithmetic that the solver is led through.                              *)
(***************************************************************************)
LEMMA Grows ==
  ASSUME NEW a \in Int, NEW b \in Int, NEW c \in Nat, a <= b
  PROVE  a * c <= b * c /\ c * a <= c * b
<1>1. (b - a) * c >= 0
  OBVIOUS
<1>2. (b - a) * c = b * c - a * c
  OBVIOUS
<1> QED BY <1>1, <1>2

\* What division by b says of a number.
LEMMA Parts ==
  ASSUME NEW n \in Int, NEW b \in Int, b > 0
  PROVE  /\ n \div b \in Int /\ n % b \in 0 .. b - 1
         /\ n = b * (n \div b) + (n % b)
         /\ n >= 0 => n \div b >= 0
<1>1. n \div b \in Int /\ n % b \in 0 .. b - 1
  OBVIOUS
<1>2. n = b * (n \div b) + (n % b)
  OBVIOUS
<1>3. n >= 0 => n \div b >= 0
  <2> DEFINE d == n \div b
             t == n % b
  <2>1. d \in Int /\ t \in 0 .. b - 1 /\ n = b * d + t
    BY <1>1, <1>2
  <2> HIDE DEF d, t
  <2>2. d <= -1 => b * d <= b * (-1)
    BY <2>1, Grows
  <2>3. b * (-1) = -b
    OBVIOUS
  <2>4. n >= 0 => d >= 0
    BY <2>1, <2>2, <2>3
  <2> QED BY <2>4 DEF d
<1> QED BY <1>1, <1>2, <1>3

\* A number has one quotient and one remainder.
LEMMA Unique ==
  ASSUME NEW b \in Nat, NEW q \in Int, NEW d \in Int, NEW r \in 0 .. b - 1, NEW t \in 0 .. b - 1,
         b * q + r = b * d + t
  PROVE  q = d /\ r = t
<1>1. ~(d < q)
  <2> SUFFICES ASSUME d + 1 <= q PROVE FALSE
    OBVIOUS
  <2>1. b * (d + 1) <= b * q
    BY Grows
  <2>2. b * (d + 1) = b * d + b
    OBVIOUS
  <2> QED BY <2>1, <2>2
<1>2. ~(q < d)
  <2> SUFFICES ASSUME q + 1 <= d PROVE FALSE
    OBVIOUS
  <2>1. b * (q + 1) <= b * d
    BY Grows
  <2>2. b * (q + 1) = b * q + b
    OBVIOUS
  <2> QED BY <2>1, <2>2
<1> QED BY <1>1, <1>2

\* What div and mod make of a quotient and a remainder.
LEMMA Divided ==
  ASSUME NEW b \in Int, b > 0, NEW q \in Int, NEW r \in 0 .. b - 1
  PROVE  /\ (b * q + r) \div b = q
         /\ (b * q + r) % b = r
<1> DEFINE n == b * q + r
           d == n \div b
           t == n % b
<1>1. n \in Int
  OBVIOUS
<1>2. d \in Int /\ t \in 0 .. b - 1 /\ n = b * d + t
  BY <1>1, Parts
<1> HIDE DEF d, t
<1>3. q = d /\ r = t
  BY <1>2, Unique
<1> QED BY <1>3 DEF d, t

-----------------------------------------------------------------------------
(***************************************************************************)
(* The format.  A pattern without its sign bit is the number of the value  *)
(* it stands for: the values rise with the patterns, up to the infinity.   *)
(***************************************************************************)
LEMMA Widths ==
  /\ Hidden \in Nat \ {0} /\ Hidden = 2 * Pow2[SigBits - 1] /\ Pow2[SigBits - 1] \in Nat \ {0}
  /\ Bias \in Nat \ {0}
  /\ Pow2[ExpBits - 1] = Bias + 1
  /\ Pow2[ExpBits] = 2 * Bias + 2
  /\ Width - 1 \in Nat /\ Width \in Nat
  /\ Pow2[Width - 1] = Hidden * (2 * Bias + 2)
  /\ Pow2[Width] = Hidden * (2 * Bias + 2) + Hidden * (2 * Bias + 2)
<1>1. SigBits \in Nat \ {0} /\ ExpBits \in Nat \ {0} /\ ExpBits - 1 \in Nat \ {0}
  BY CodecAssumption
<1>2. Hidden \in Nat \ {0} /\ Hidden = 2 * Pow2[SigBits - 1] /\ Pow2[SigBits - 1] \in Nat \ {0}
  BY <1>1, Doubled, Powers DEF Hidden
<1>3. Pow2[ExpBits - 1] = 2 * Pow2[(ExpBits - 1) - 1] /\ Pow2[(ExpBits - 1) - 1] \in Nat \ {0}
  BY <1>1, Doubled, Powers
<1>4. Bias \in Nat \ {0} /\ Pow2[ExpBits - 1] = Bias + 1
  BY <1>3 DEF Bias
<1>5. Pow2[ExpBits] = 2 * Bias + 2
  BY <1>1, <1>4, Doubled
<1>6. Width - 1 \in Nat /\ Width \in Nat \ {0} /\ Width - 1 = SigBits + ExpBits
  BY <1>1 DEF Width
<1>7. Pow2[Width - 1] = Hidden * (2 * Bias + 2)
  BY <1>1, <1>5, <1>6, PowSum DEF Hidden
<1>8. Pow2[Width] = 2 * Pow2[Width - 1]
  BY <1>6, Doubled
<1>9. Hidden * (2 * Bias + 2) \in Nat
  BY <1>2, <1>4
<1>10. Pow2[Width] = Hidden * (2 * Bias + 2) + Hidden * (2 * Bias + 2)
  BY <1>7, <1>8, <1>9
<1> QED BY <1>2, <1>4, <1>5, <1>6, <1>7, <1>10

\* The pattern of the infinity, and the value of every pattern below it that
\* is not subnormal.
Top == Hidden * (2 * Bias + 1)

Value(i) == Magnitude(i \div Hidden, i % Hidden)

\* Where the patterns below the sign bit end.
LEMMA Tops ==
  /\ Top \in Nat /\ Hidden * 1 = Hidden /\ Hidden <= Top
  /\ Pow2[Width - 1] = Top + Hidden
  /\ Pow2[Width] = 2 * Top + 2 * Hidden
  /\ Hidden < Top
<1>1. Hidden * 1 = Hidden /\ Hidden * (2 * Bias + 2) = Hidden * (2 * Bias + 1) + Hidden
  BY Widths
<1>2. Hidden * 3 <= Hidden * (2 * Bias + 1) /\ Hidden * (2 * Bias + 1) \in Nat
  BY Widths, Grows
<1> QED BY <1>1, <1>2, Widths DEF Top

\* Exponent and significand of a pattern.
LEMMA Fields ==
  ASSUME NEW i \in Hidden .. Top
  PROVE  /\ i \div Hidden \in 1 .. 2 * Bias + 1
         /\ i % Hidden \in 0 .. Hidden - 1
         /\ i = Hidden * (i \div Hidden) + (i % Hidden)
         /\ i < Top => i \div Hidden <= 2 * Bias
         /\ i = Top => i \div Hidden = 2 * Bias + 1 /\ i % Hidden = 0
<1> DEFINE e == i \div Hidden
           m == i % Hidden
<1>1. Hidden \in Int /\ Hidden > 0 /\ i \in Int /\ Bias \in Nat \ {0}
  BY Widths, Tops
<1>2. e \in Int /\ m \in 0 .. Hidden - 1 /\ i = Hidden * e + m
  BY <1>1, Parts
<1>3. i = Top => e = 2 * Bias + 1 /\ m = 0
  <2> SUFFICES ASSUME i = Top PROVE e = 2 * Bias + 1 /\ m = 0
    OBVIOUS
  <2>1. i = Hidden * (2 * Bias + 1) + 0
    BY <1>1, Tops DEF Top
  <2> QED BY <2>1, <1>1, Divided
<1> HIDE DEF e, m
<1>4. e >= 1
  <2> SUFFICES ASSUME e <= 0 PROVE FALSE
    BY <1>2
  <2>1. Hidden * e <= Hidden * 0 /\ Hidden * 0 = 0
    BY <1>1, <1>2, Grows
  <2> QED BY <2>1, <1>1, <1>2
<1>5. i < Top => e <= 2 * Bias
  <2> SUFFICES ASSUME i < Top, 2 * Bias + 1 <= e PROVE FALSE
    BY <1>1, <1>2
  <2>1. Hidden * (2 * Bias + 1) <= Hidden * e
    BY <1>1, <1>2, Grows
  <2> QED BY <2>1, <1>1, <1>2 DEF Top
<1>6. e \in 1 .. 2 * Bias + 1
  BY <1>1, <1>2, <1>3, <1>4, <1>5, Tops
<1> QED BY <1>2, <1>3, <1>5, <1>6 DEF e, m

\* A pattern from its exponent and significand.
LEMMA FieldsMake ==
  ASSUME NEW e \in 1 .. 2 * Bias, NEW m \in 0 .. Hidden - 1
  PROVE  /\ Hidden * e + m \in Hidden .. Top - 1
         /\ (Hidden * e + m) \div Hidden = e
         /\ (Hidden * e + m) % Hidden = m
         /\ Value(Hidden * e + m) = Magnitude(e, m)
<1>1. Hidden \in Int /\ Hidden > 0 /\ Bias \in Nat \ {0} /\ Hidden \in Nat /\ Top \in Nat /\ e \in Int
  BY Widths, Tops
<1>2. Hidden * 1 <= Hidden * e /\ Hidden * e <= Hidden * (2 * Bias)
  BY <1>1, Grows
<1>3. Hidden * (2 * Bias) + Hidden = Top /\ Hidden * (2 * Bias) \in Nat /\ Hidden * e \in Nat
  BY <1>1 DEF Top
<1>4. Hidden * e + m \in Hidden .. Top - 1
  BY <1>1, <1>2, <1>3
<1>5. (Hidden * e + m) \div Hidden = e /\ (Hidden * e + m) % Hidden = m
  BY <1>1, Divided
<1> QED BY <1>4, <1>5 DEF Value

\* The values with one exponent lie between two powers of two.
LEMMA Magnitudes ==
  ASSUME NEW e \in 1 .. 2 * Bias + 1, NEW m \in 0 .. Hidden - 1
  PROVE  /\ Pow2[e - 1] \in Nat \ {0}
         /\ Magnitude(e, m) = Hidden * Pow2[e - 1] + m * Pow2[e - 1]
         /\ Magnitude(e, m) \in Nat /\ Magnitude(e, m) >= Hidden
         /\ Magnitude(e, m) + Pow2[e - 1] <= Hidden * Pow2[e]
         /\ Hidden * Pow2[e - 1] <= Magnitude(e, m)
<1> DEFINE p == Pow2[e - 1]
<1>1. /\ Hidden \in Nat \ {0} /\ e - 1 \in Nat /\ e \in Nat \ {0}
      /\ Pow2[e] = 2 * Pow2[e - 1] /\ Pow2[e - 1] \in Nat \ {0}
  BY Widths, Doubled, Powers
<1>2. p \in Nat \ {0} /\ p >= 1
  BY <1>1
<1>3. Magnitude(e, m) = (Hidden + m) * p
  BY DEF Magnitude
<1>4. Hidden * Pow2[e] = Hidden * (2 * p)
  BY <1>1
<1> HIDE DEF p
<1>5. (Hidden + m) * p = Hidden * p + m * p /\ Hidden * p \in Nat /\ m * p \in Nat
  BY <1>1, <1>2
<1>6. Hidden * 1 <= Hidden * p /\ Hidden * 1 = Hidden
  BY <1>1, <1>2, Grows
<1>7. (m + 1) * p <= Hidden * p /\ (m + 1) * p = m * p + p
  BY <1>1, <1>2, Grows
<1>8. Hidden * (2 * p) = Hidden * p + Hidden * p
  BY <1>1, <1>2
<1>9. Hidden * Pow2[e] = Hidden * p + Hidden * p /\ Hidden <= Hidden * p /\ m * p + p <= Hidden * p
  BY <1>4, <1>6, <1>7, <1>8
<1>10. Magnitude(e, m) = Hidden * p + m * p
  BY <1>3, <1>5
<1>11. /\ Magnitude(e, m) \in Nat /\ Magnitude(e, m) >= Hidden
       /\ Magnitude(e, m) + p <= Hidden * Pow2[e]
       /\ Hidden * p <= Magnitude(e, m)
  <2> DEFINE a == Hidden * p
             c == m * p
             M == Magnitude(e, m)
  <2>1. a \in Nat /\ c \in Nat /\ M = a + c /\ Hidden <= a /\ c + p <= a /\ Hidden * Pow2[e] = a + a
    BY <1>5, <1>9, <1>10
  <2> HIDE DEF a, c, M
  <2>2. M \in Nat /\ M >= Hidden /\ M + p <= a + a /\ a <= M
    BY <1>1, <1>2, <2>1
  <2> QED BY <2>1, <2>2 DEF a, M
<1> QED BY <1>1, <1>10, <1>11 DEF p

\* A larger exponent, or a larger significand under the same, is a larger value.
LEMMA MagnitudeUp ==
  ASSUME NEW d \in 1 .. 2 * Bias + 1, NEW k \in 0 .. Hidden - 1,
         NEW e \in 1 .. 2 * Bias + 1, NEW m \in 0 .. Hidden - 1,
         d < e \/ (d = e /\ k < m)
  PROVE  Magnitude(d, k) < Magnitude(e, m)
<1>1. Hidden \in Nat /\ Bias \in Nat
  BY Widths
<1>2. CASE d < e
  <2>1. /\ Magnitude(d, k) \in Nat /\ Pow2[d - 1] \in Nat \ {0}
        /\ Magnitude(d, k) + Pow2[d - 1] <= Hidden * Pow2[d]
    BY Magnitudes
  <2>2. Magnitude(e, m) \in Nat /\ Hidden * Pow2[e - 1] <= Magnitude(e, m)
    BY Magnitudes
  <2>3. d \in Nat /\ e - 1 \in Nat /\ d <= e - 1
    BY <1>1, <1>2
  <2>4. Pow2[d] <= Pow2[e - 1] /\ Pow2[d] \in Nat /\ Pow2[e - 1] \in Nat
    BY <2>3, Multiple, Powers
  <2>5. Hidden * Pow2[d] <= Hidden * Pow2[e - 1]
    BY <2>4, <1>1, Grows
  <2>6. Hidden * Pow2[d] \in Nat /\ Hidden * Pow2[e - 1] \in Nat
    BY <2>4, <1>1
  <2> QED BY <2>1, <2>2, <2>5, <2>6
<1>3. CASE d = e /\ k < m
  <2> DEFINE p == Pow2[e - 1]
  <2>1. /\ Magnitude(d, k) = Hidden * p + k * p /\ Magnitude(e, m) = Hidden * p + m * p
        /\ p \in Nat \ {0}
    BY <1>3, Magnitudes
  <2> HIDE DEF p
  <2>2. (k + 1) * p <= m * p /\ (k + 1) * p = k * p + p
    BY <1>1, <1>3, <2>1, Grows
  <2>3. Hidden * p \in Nat /\ k * p \in Nat /\ m * p \in Nat
    BY <1>1, <2>1
  <2> QED BY <2>1, <2>2, <2>3
<1> QED BY <1>2, <1>3

\* The values rise with their patterns.
LEMMA ValueUp ==
  ASSUME NEW i \in Hidden .. Top, NEW j \in Hidden .. Top, i < j
  PROVE  Value(i) < Value(j)
<1> DEFINE d == i \div Hidden
           k == i % Hidden
           e == j \div Hidden
           m == j % Hidden
<1>1. /\ d \in 1 .. 2 * Bias + 1 /\ k \in 0 .. Hidden - 1 /\ i = Hidden * d + k
      /\ e \in 1 .. 2 * Bias + 1 /\ m \in 0 .. Hidden - 1 /\ j = Hidden * e + m
  BY Fields
<1>2. Hidden \in Nat /\ Bias \in Nat
  BY Widths
<1>3. Value(i) = Magnitude(d, k) /\ Value(j) = Magnitude(e, m)
  BY DEF Value
<1> HIDE DEF d, k, e, m
<1>4. ~(e < d)
  <2> SUFFICES ASSUME e + 1 <= d PROVE FALSE
    BY <1>1, <1>2
  <2>1. Hidden * (e + 1) <= Hidden * d /\ Hidden * (e + 1) = Hidden * e + Hidden
    BY <1>1, <1>2, Grows
  <2> QED BY <2>1, <1>1, <1>2
<1>5. d < e \/ (d = e /\ k < m)
  BY <1>1, <1>2, <1>4
<1> QED BY <1>1, <1>3, <1>5, MagnitudeUp

\* The normal values and the infinity are those of the patterns, one each.
LEMMA Values ==
  /\ \A i \in Hidden .. Top : Value(i) \in Nat /\ Value(i) >= Hidden
  /\ Value(Top) = Infinity
  /\ \A i \in Hidden .. Top - 1 : Value(i) \in Normals
  /\ \A v \in Normals : \E i \in Hidden .. Top - 1 : v = Value(i)
  /\ \A i, j \in Hidden .. Top : Value(i) = Value(j) => i = j
<1>1. Hidden \in Nat \ {0} /\ Bias \in Nat \ {0} /\ Top \in Nat /\ Hidden <= Top
  BY Widths, Tops
<1>2. ASSUME NEW i \in Hidden .. Top PROVE Value(i) \in Nat /\ Value(i) >= Hidden
  BY Fields, Magnitudes DEF Value
<1>3. Value(Top) = Infinity
  <2>1. Top \in Hidden .. Top
    BY <1>1
  <2>2. Value(Top) = Magnitude(2 * Bias + 1, 0)
    BY <2>1, Fields DEF Value
  <2>3. (2 * Bias + 1) - 1 = 2 * Bias /\ Hidden + 0 = Hidden
    BY <1>1
  <2>4. Value(Top) = Pow2[SigBits] * Pow2[2 * Bias]
    BY <2>2, <2>3 DEF Magnitude, Hidden
  <2>5. Infinity = Pow2[SigBits + 2 * Bias]
    <3>1. SigBits + Pow2[ExpBits] - 2 = SigBits + 2 * Bias
      BY <1>1, Widths, CodecAssumption
    <3> QED BY <3>1 DEF Infinity
  <2> QED BY <2>4, <2>5, <1>1, PowSum, CodecAssumption
<1>4. ASSUME NEW i \in Hidden .. Top - 1 PROVE Value(i) \in Normals
  <2>1. i \in Hidden .. Top /\ i < Top
    BY <1>1
  <2>2. i \div Hidden \in 1 .. Pow2[ExpBits] - 2 /\ i % Hidden \in 0 .. Hidden - 1
    BY <2>1, <1>1, Fields, Widths
  <2> QED BY <2>2 DEF Value, Normals
<1>5. ASSUME NEW v \in Normals PROVE \E i \in Hidden .. Top - 1 : v = Value(i)
  <2>1. PICK e \in 1 .. 2 * Bias, m \in 0 .. Hidden - 1 : v = Magnitude(e, m)
    BY <1>1, Widths DEF Normals
  <2> QED BY <2>1, FieldsMake
<1>6. ASSUME NEW i \in Hidden .. Top, NEW j \in Hidden .. Top, Value(i) = Value(j)
      PROVE  i = j
  BY <1>1, <1>2, <1>6, ValueUp
<1> QED BY <1>2, <1>3, <1>4, <1>5, <1>6

\* The two signs of the same value.
Signed(s, n) == IF s THEN -n ELSE n

\* Encoding finds the pattern of a value again.
LEMMA Encodings ==
  /\ Encoding(0) = 0
  /\ \A i \in Hidden .. Top, s \in BOOLEAN : Encoding(Signed(s, Value(i))) = i
<1>1. Hidden \in Nat \ {0} /\ Bias \in Nat \ {0} /\ Top \in Nat /\ Hidden <= Top
  BY Widths, Tops
<1>2. (Pow2[ExpBits] - 1) * Hidden = Top
  BY <1>1, Widths DEF Top
<1>3. ASSUME NEW i \in Hidden .. Top, NEW s \in BOOLEAN
      PROVE  Encoding(Signed(s, Value(i))) = i
  <2> DEFINE v == Signed(s, Value(i))
  <2>1. Value(i) \in Nat /\ Value(i) >= Hidden
    BY Values
  <2>2. v # 0 /\ Abs(v) = Value(i)
    BY <1>1, <2>1 DEF Signed, Abs
  <2>3. CASE i = Top
    BY <1>2, <2>2, <2>3, Values DEF Encoding
  <2>4. CASE i # Top
    <3> DEFINE Fits(j) == /\ j \div Hidden \in 1 .. Pow2[ExpBits] - 2
                          /\ Magnitude(j \div Hidden, j % Hidden) = Abs(v)
    <3>1. i \in Hidden .. Top - 1 /\ Top \in Hidden .. Top
      BY <1>1, <2>4
    <3>2. Abs(v) # Infinity
      BY <2>2, <2>4, <3>1, Values
    <3>3. i \in 0 .. Pow2[Width - 1] - 1 /\ Fits(i)
      <4>1. i \in 0 .. Pow2[Width - 1] - 1 /\ i \in Hidden .. Top /\ i < Top
        BY <1>1, <3>1, Tops
      <4>2. i \div Hidden \in 1 .. Pow2[ExpBits] - 2
        BY <4>1, <1>1, Fields, Widths
      <4>3. Magnitude(i \div Hidden, i % Hidden) = Abs(v)
        BY <2>2 DEF Value
      <4> QED BY <4>1, <4>2, <4>3
    <3>4. ASSUME NEW j \in 0 .. Pow2[Width - 1] - 1, Fits(j)
          PROVE  j = i
      <4> DEFINE e == j \div Hidden
                 m == j % Hidden
      <4>1. e \in 1 .. 2 * Bias /\ m \in 0 .. Hidden - 1 /\ j = Hidden * e + m
        <5>1. j \in Int /\ Hidden \in Int /\ Hidden > 0
          BY <1>1, Tops, Widths
        <5>2. m \in 0 .. Hidden - 1 /\ j = Hidden * e + m
          BY <5>1, Parts
        <5>3. Pow2[ExpBits] - 2 = 2 * Bias
          BY <1>1, Widths
        <5>4. e \in 1 .. Pow2[ExpBits] - 2
          BY <3>4
        <5> QED BY <5>2, <5>3, <5>4
      <4>2. Magnitude(e, m) = Value(i)
        BY <3>4, <2>2
      <4> HIDE DEF e, m
      <4>3. j \in Hidden .. Top - 1 /\ Value(j) = Value(i)
        BY <4>1, <4>2, FieldsMake
      <4> QED BY <4>3, <1>1, Values
    <3>5. Encoding(v) = CHOOSE j \in 0 .. Pow2[Width - 1] - 1 : Fits(j)
      BY <2>2, <3>2 DEF Encoding
    <3> HIDE DEF Fits, v
    <3>6. Encoding(v) = i
      BY <3>3, <3>4, <3>5
    <3> QED BY <3>6 DEF v
  <2> QED BY <2>3, <2>4
<1> QED BY <1>3 DEF Encoding

\* Which numbers are doubles.
LEMMA DoubleValues ==
  /\ Doubles \subseteq Int
  /\ 0 \in Doubles
  /\ \A i \in Hidden .. Top, s \in BOOLEAN : Signed(s, Value(i)) \in Doubles
  /\ \A n \in 1 .. Hidden, s \in BOOLEAN : Signed(s, n) \in Doubles
  /\ \A v \in Doubles : v = 0 \/ v = NaN \/ Abs(v) \in Nat \ {0}
<1>1. Hidden \in Nat \ {0} /\ Bias \in Nat \ {0} /\ Top \in Nat /\ Hidden < Top
  BY Widths, Tops
<1>2. Infinity \in Nat \ {0} /\ Infinity = Value(Top)
  <2>1. Top \in Hidden .. Top
    BY <1>1
  <2> QED BY <1>1, <2>1, Values
<1>3. Normals \subseteq Nat \ {0}
  <2> SUFFICES ASSUME NEW v \in Normals PROVE v \in Nat \ {0}
    OBVIOUS
  <2>1. PICK i \in Hidden .. Top - 1 : v = Value(i)
    BY Values
  <2>2. i \in Hidden .. Top
    BY <1>1
  <2> QED BY <2>1, <2>2, <1>1, Values
<1>4. Subnormals \subseteq Nat \ {0}
  BY DEF Subnormals
<1>5. Doubles \subseteq Int /\ 0 \in Doubles
  <2>1. Finite \subseteq Int /\ 0 \in Finite
    <3>1. \A n \in Normals \cup Subnormals : n \in Int /\ -n \in Int
      BY <1>3, <1>4
    <3>2. {-n : n \in Normals \cup Subnormals} \subseteq Int
      BY <3>1
    <3> QED BY <3>1, <3>2 DEF Finite
  <2>2. Infinity \in Int /\ -Infinity \in Int /\ NaN \in Int
    BY <1>2 DEF NaN
  <2> QED BY <2>1, <2>2 DEF Doubles
<1>6. ASSUME NEW n \in Normals \cup Subnormals \cup {Infinity}, NEW s \in BOOLEAN
      PROVE  Signed(s, n) \in Doubles
  BY <1>6 DEF Signed, Doubles, Finite
<1>7. ASSUME NEW i \in Hidden .. Top, NEW s \in BOOLEAN
      PROVE  Signed(s, Value(i)) \in Doubles
  <2>1. Value(i) \in Normals \cup {Infinity}
    <3>1. CASE i = Top
      BY <3>1, <1>2
    <3>2. CASE i # Top
      <4>1. i \in Hidden .. Top - 1
        BY <3>2, <1>1
      <4> QED BY <4>1, Values
    <3> QED BY <3>1, <3>2
  <2> QED BY <2>1, <1>6
<1>8. ASSUME NEW n \in 1 .. Hidden, NEW s \in BOOLEAN
      PROVE  Signed(s, n) \in Doubles
  <2>1. CASE n < Hidden
    BY <2>1, <1>1, <1>6 DEF Subnormals
  <2>2. CASE n = Hidden
    <3>1. Hidden \in Hidden .. Top - 1
      BY <1>1
    <3>2. Value(Hidden) = Hidden
      <4>1. 1 \in 1 .. 2 * Bias /\ 0 \in 0 .. Hidden - 1 /\ Hidden * 1 + 0 = Hidden
        BY <1>1
      <4>2. Value(Hidden) = Magnitude(1, 0)
        BY <4>1, FieldsMake
      <4> QED BY <4>2, <1>1, Powers DEF Magnitude
    <3> QED BY <2>2, <3>1, <3>2, <1>6, Values
  <2> QED BY <1>1, <2>1, <2>2
<1>9. ASSUME NEW v \in Doubles PROVE v = 0 \/ v = NaN \/ Abs(v) \in Nat \ {0}
  <2>1. v \in Int
    BY <1>5
  <2> QED BY <2>1 DEF Abs
<1> QED BY <1>5, <1>7, <1>8, <1>9

\* A normal value is its sign and the value of a pattern.
LEMMA OrdinaryValues ==
  ASSUME NEW v \in Int, Ordinary(v), v # 0
  PROVE  /\ \E i \in Hidden .. Top - 1 : v = Signed(v < 0, Value(i))
         /\ Abs(v) \in Normals
<1>1. Abs(v) \in Normals
  BY DEF Ordinary
<1>2. PICK i \in Hidden .. Top - 1 : Abs(v) = Value(i)
  BY <1>1, Values
<1>3. v = Signed(v < 0, Value(i))
  BY <1>2 DEF Abs, Signed
<1> QED BY <1>1, <1>2, <1>3

-----------------------------------------------------------------------------
(***************************************************************************)
(* Rounding.                                                               *)
(***************************************************************************)
Sent == 0 .. Pow2[Width] - 1

\* The doubles around a pattern are a power of two apart that leaves it at most
\* SigBits + 1 bits.
LEMMA SpacingIs ==
  ASSUME NEW n \in Sent
  PROVE  \E d \in 0 .. ExpBits :
           /\ Spacing(n) = Pow2[d]
           /\ d # 0 => Pow2[SigBits + d] <= n
           /\ n < Pow2[SigBits + d + 1]
<1> DEFINE cut == {d \in 0 .. Width : n >= Pow2[SigBits + d]}
<1>1. /\ SigBits \in Nat /\ ExpBits \in Nat /\ Width \in Nat /\ Width = SigBits + ExpBits + 1
      /\ n \in Nat /\ n < Pow2[Width]
  BY CodecAssumption, Widths, Powers DEF Width, Sent
<1>2. Spacing(n) = IF cut = {} THEN 1 ELSE Pow2[CHOOSE d \in cut : \A c \in cut : c <= d]
  BY DEF Spacing
<1>3. ASSUME NEW j \in Nat, NEW k \in Nat, j <= k PROVE Pow2[SigBits + j] <= Pow2[SigBits + k]
  <2>1. SigBits + j \in Nat /\ SigBits + k \in Nat /\ SigBits + j <= SigBits + k
    BY <1>1, <1>3
  <2> QED BY <2>1, Multiple
<1>4. \A k \in Nat : Pow2[SigBits + k] \in Nat
  BY <1>1, Powers
<1>5. CASE cut = {}
  <2>1. 0 \in 0 .. Width /\ 0 \notin cut
    BY <1>1, <1>5
  <2>2. n < Pow2[SigBits + 0]
    BY <2>1, <1>1, <1>4
  <2>3. n < Pow2[SigBits + 1]
    BY <2>2, <1>1, <1>3, <1>4
  <2>4. SigBits + 0 + 1 = SigBits + 1 /\ 0 \in 0 .. ExpBits
    BY <1>1
  <2> QED BY <2>3, <2>4, <1>2, <1>5, Powers
<1>6. CASE cut # {}
  <2>1. cut \in SUBSET (0 .. Width)
    OBVIOUS
  <2>2. \A k \in cut : 0 .. k \subseteq cut
    <3> SUFFICES ASSUME NEW k \in cut, NEW j \in 0 .. k PROVE j \in cut
      OBVIOUS
    <3>1. j \in 0 .. Width /\ j \in Nat /\ k \in Nat /\ n >= Pow2[SigBits + k]
      BY <1>1
    <3>2. Pow2[SigBits + j] <= Pow2[SigBits + k]
      BY <3>1, <1>3
    <3> QED BY <3>1, <3>2, <1>1, <1>4
  <2>3. 0 \in cut
    <3>1. PICK k \in cut : TRUE
      BY <1>6
    <3>2. 0 \in 0 .. k
      BY <3>1
    <3> QED BY <3>1, <3>2, <2>2
  <2> HIDE DEF cut
  <2>4. PICK k \in cut : cut = 0 .. k
    BY <2>1, <2>2, <2>3, <1>1, Highest
  <2>5. (CHOOSE d \in cut : \A c \in cut : c <= d) = k
    <3>1. k \in Nat /\ \A c \in cut : c <= k
      BY <2>1, <2>4
    <3>2. \A d \in cut : d \in Nat
      BY <2>1
    <3>3. ASSUME NEW d \in cut, \A c \in cut : c <= d PROVE d = k
      <4>1. d <= k /\ k <= d
        BY <3>1, <3>3
      <4> QED BY <4>1, <3>1, <3>2
    <3> QED BY <3>1, <3>3
  <2>6. k \in 0 .. Width /\ n >= Pow2[SigBits + k]
    BY DEF cut
  <2>7. k <= ExpBits
    <3> SUFFICES ASSUME ExpBits + 1 <= k PROVE FALSE
      BY <2>6, <1>1
    <3>1. Pow2[SigBits + (ExpBits + 1)] <= Pow2[SigBits + k]
      BY <1>1, <1>3, <2>6
    <3>2. SigBits + (ExpBits + 1) = Width
      BY <1>1
    <3> QED BY <3>1, <3>2, <2>6, <1>1, <1>4, Powers
  <2>8. n < Pow2[SigBits + (k + 1)]
    <3>1. k + 1 \in 0 .. Width /\ k + 1 \notin cut
      BY <2>4, <2>6, <2>7, <1>1
    <3> QED BY <3>1, <1>1, <1>4 DEF cut
  <2>9. SigBits + (k + 1) = SigBits + k + 1 /\ k \in 0 .. ExpBits
    BY <2>6, <2>7, <1>1
  <2> QED BY <2>5, <2>6, <2>8, <2>9, <1>2, <1>6
<1> QED BY <1>5, <1>6

\* The spacing is never wider than the exponent field.
LEMMA SpacingType ==
  ASSUME NEW n \in Sent
  PROVE  Spacing(n) \in Nat \ {0} /\ Spacing(n) <= Pow2[ExpBits] /\ n \in Nat
<1>1. PICK d \in 0 .. ExpBits : Spacing(n) = Pow2[d]
  BY SpacingIs
<1>2. d \in Nat /\ ExpBits \in Nat /\ d <= ExpBits
  BY CodecAssumption
<1> QED BY <1>1, <1>2, Multiple, Powers DEF Sent

\* The rounded number is at most half the spacing away, and passes no multiple
\* of the spacing.
LEMMA Nearest ==
  ASSUME NEW n \in Sent
  PROVE  /\ Rounded(n) \in Nat
         /\ 2 * (Rounded(n) - n) <= Spacing(n) /\ 2 * (n - Rounded(n)) <= Spacing(n)
         /\ \A c \in Int : Spacing(n) * c <= n => Spacing(n) * c <= Rounded(n)
         /\ \A c \in Int : n <= Spacing(n) * c => Rounded(n) <= Spacing(n) * c
<1> DEFINE g == Spacing(n)
           q == n \div g
           r == n % g
           up == 2 * r > g \/ (2 * r = g /\ q % 2 = 1)
<1>1. g \in Int /\ g > 0 /\ g \in Nat /\ n \in Nat
  BY SpacingType
<1>2. Rounded(n) = g * (IF up THEN q + 1 ELSE q)
  BY DEF Rounded
<1> HIDE DEF g
<1>3. q \in Int /\ r \in 0 .. g - 1 /\ n = g * q + r /\ q >= 0
  BY <1>1, Parts
<1>4. up => 2 * r >= g
  BY <1>1, <1>3
<1>5. ~up => 2 * r <= g
  BY <1>1, <1>3
<1>6. up \in BOOLEAN
  OBVIOUS
<1> HIDE DEF q, r, up
<1>7. g * (q + 1) = g * q + g /\ g * q \in Nat
  BY <1>1, <1>3
<1>8. CASE up
  <2>1. Rounded(n) = g * q + g
    BY <1>2, <1>7, <1>8
  <2>2. /\ Rounded(n) \in Nat
        /\ 2 * (Rounded(n) - n) <= g /\ 2 * (n - Rounded(n)) <= g
    BY <2>1, <1>1, <1>3, <1>4, <1>7, <1>8
  <2>3. ASSUME NEW c \in Int, g * c <= n PROVE g * c <= Rounded(n)
    BY <2>1, <2>3, <1>1, <1>3, <1>7
  <2>4. ASSUME NEW c \in Int, n <= g * c PROVE Rounded(n) <= g * c
    <3>1. ~(c <= q)
      <4> SUFFICES ASSUME c <= q PROVE FALSE
        OBVIOUS
      <4>1. g * c <= g * q /\ g * c \in Int
        BY <1>1, <1>3, Grows
      <4>2. r <= 0
        BY <4>1, <2>4, <1>1, <1>3, <1>7
      <4> QED BY <4>2, <1>1, <1>3, <1>4, <1>8
    <3>2. g * (q + 1) <= g * c
      BY <3>1, <1>1, <1>3, Grows
    <3> QED BY <3>2, <2>1, <1>7
  <2> QED BY <2>2, <2>3, <2>4 DEF g
<1>9. CASE ~up
  <2>1. Rounded(n) = g * q
    BY <1>2, <1>9
  <2>2. /\ Rounded(n) \in Nat
        /\ 2 * (Rounded(n) - n) <= g /\ 2 * (n - Rounded(n)) <= g
    BY <2>1, <1>1, <1>3, <1>5, <1>7, <1>9
  <2>3. ASSUME NEW c \in Int, g * c <= n PROVE g * c <= Rounded(n)
    <3>1. c <= q
      <4> SUFFICES ASSUME q + 1 <= c PROVE FALSE
        BY <1>3
      <4>1. g * (q + 1) <= g * c /\ g * c \in Int
        BY <1>1, <1>3, Grows
      <4> QED BY <4>1, <2>3, <1>1, <1>3, <1>7
    <3> QED BY <3>1, <2>1, <1>1, <1>3, Grows
  <2>4. ASSUME NEW c \in Int, n <= g * c PROVE Rounded(n) <= g * c
    BY <2>1, <2>4, <1>1, <1>3, <1>7
  <2> QED BY <2>2, <2>3, <2>4 DEF g
<1> QED BY <1>8, <1>9

\* Every multiple of Hidden is a multiple of the spacing, and stays.
LEMMA Landmark ==
  ASSUME NEW n \in Sent, NEW c \in Int
  PROVE  /\ Hidden * c <= n => Hidden * c <= Rounded(n)
         /\ n <= Hidden * c => Rounded(n) <= Hidden * c
<1>1. PICK d \in 0 .. ExpBits : Spacing(n) = Pow2[d]
  BY SpacingIs
<1>2. d \in Nat /\ SigBits \in Nat /\ d <= SigBits
  BY CodecAssumption
<1>3. Hidden = Pow2[SigBits - d] * Pow2[d] /\ Pow2[SigBits - d] \in Nat /\ Pow2[d] \in Nat
  BY <1>2, Multiple, Powers DEF Hidden
<1> DEFINE a == Pow2[SigBits - d]
           g == Pow2[d]
<1>4. a \in Nat /\ g \in Nat /\ Hidden = a * g /\ g = Spacing(n)
  BY <1>1, <1>3
<1> HIDE DEF a, g
<1>5. Hidden * c = g * (a * c) /\ a * c \in Int
  BY <1>4
<1> QED BY <1>4, <1>5, Nearest

\* Rounding keeps the order.
LEMMA RoundedUp ==
  ASSUME NEW n \in Sent, NEW m \in Sent, n <= m
  PROVE  Rounded(n) <= Rounded(m)
<1>1. PICK d \in 0 .. ExpBits : /\ Spacing(n) = Pow2[d]
                                /\ d # 0 => Pow2[SigBits + d] <= n
                                /\ n < Pow2[SigBits + d + 1]
  BY SpacingIs
<1>2. PICK e \in 0 .. ExpBits : /\ Spacing(m) = Pow2[e]
                                /\ e # 0 => Pow2[SigBits + e] <= m
                                /\ m < Pow2[SigBits + e + 1]
  BY SpacingIs
<1>3. d \in Nat /\ e \in Nat /\ SigBits \in Nat
  BY CodecAssumption
<1>4. n \in Nat /\ m \in Nat /\ Rounded(n) \in Nat /\ Rounded(m) \in Nat
  BY SpacingType, Nearest
<1>5. CASE e < d
  <2>1. SigBits + e + 1 \in Nat /\ SigBits + d \in Nat /\ SigBits + e + 1 <= SigBits + d /\ d # 0
    BY <1>3, <1>5
  <2>2. Pow2[SigBits + e + 1] <= Pow2[SigBits + d] /\ Pow2[SigBits + e + 1] \in Nat
        /\ Pow2[SigBits + d] \in Nat
    BY <2>1, Multiple, Powers
  <2> QED BY <2>1, <2>2, <1>1, <1>2, <1>4
<1>6. CASE d < e
  <2> DEFINE b == Pow2[SigBits + e]
  <2>1. SigBits + d + 1 \in Nat /\ SigBits + e \in Nat /\ SigBits + d + 1 <= SigBits + e /\ e # 0
    BY <1>3, <1>6
  <2>2. Pow2[SigBits + d + 1] <= b /\ Pow2[SigBits + d + 1] \in Nat /\ b \in Nat
    BY <2>1, Multiple, Powers
  <2>3. n <= b /\ b <= m
    BY <2>1, <2>2, <1>1, <1>2, <1>4
  <2>4. b = Pow2[SigBits] * Pow2[e]
    BY <1>3, PowSum
  <2>5. b = Hidden * Pow2[e] /\ Pow2[e] \in Int
    BY <2>4, <1>3, Powers DEF Hidden
  <2> HIDE DEF b
  <2>6. Rounded(n) <= b /\ b <= Rounded(m)
    BY <2>3, <2>5, Landmark
  <2> QED BY <2>2, <2>6, <1>4
<1>7. CASE d = e
  <2> DEFINE g == Spacing(n)
             q == n \div g
             r == n % g
             upn == 2 * r > g \/ (2 * r = g /\ q % 2 = 1)
             p == m \div g
             s == m % g
             upm == 2 * s > g \/ (2 * s = g /\ p % 2 = 1)
  <2>1. g \in Int /\ g > 0 /\ g \in Nat /\ Spacing(m) = g
    BY <1>1, <1>2, <1>7, SpacingType
  <2>2. Rounded(n) = g * (IF upn THEN q + 1 ELSE q) /\ Rounded(m) = g * (IF upm THEN p + 1 ELSE p)
    BY <2>1 DEF Rounded
  <2> HIDE DEF g
  <2>3. /\ q \in Int /\ r \in 0 .. g - 1 /\ n = g * q + r
        /\ p \in Int /\ s \in 0 .. g - 1 /\ m = g * p + s
    BY <2>1, <1>4, Parts
  <2>4. (q = p /\ r <= s /\ upn) => upm
    BY <2>1, <2>3
  <2>5. upn \in BOOLEAN /\ upm \in BOOLEAN
    OBVIOUS
  <2> HIDE DEF q, r, p, s, upn, upm
  <2>6. q <= p
    <3> SUFFICES ASSUME p + 1 <= q PROVE FALSE
      BY <2>3
    <3>1. g * (p + 1) <= g * q /\ g * (p + 1) = g * p + g /\ g * p \in Int /\ g * q \in Int
      BY <2>1, <2>3, Grows
    <3> QED BY <3>1, <2>1, <2>3, <1>4
  <2>7. CASE q = p
    <3>1. r <= s
      <4>1. g * q \in Int /\ g * p = g * q
        BY <2>1, <2>3, <2>7
      <4> QED BY <4>1, <2>3, <1>4
    <3>2. (IF upn THEN q + 1 ELSE q) <= (IF upm THEN p + 1 ELSE p)
      BY <2>3, <2>4, <2>5, <2>7, <3>1
    <3>3. (IF upn THEN q + 1 ELSE q) \in Int /\ (IF upm THEN p + 1 ELSE p) \in Int
      BY <2>3
    <3> QED BY <2>1, <2>2, <3>2, <3>3, Grows
  <2>8. CASE q < p
    <3>1. (IF upn THEN q + 1 ELSE q) <= (IF upm THEN p + 1 ELSE p)
      BY <2>3, <2>8
    <3>3. (IF upn THEN q + 1 ELSE q) \in Int /\ (IF upm THEN p + 1 ELSE p) \in Int
      BY <2>3
    <3> QED BY <2>1, <2>2, <3>1, <3>3, Grows
  <2> QED BY <2>3, <2>6, <2>7, <2>8
<1> QED BY <1>3, <1>5, <1>6, <1>7

\* What is sent of a normal value: its pattern, under the sign bit s.
WithSign(s, i) == i + (IF s THEN Pow2[Width - 1] ELSE 0)

\* It arrives with its sign, within half the widest spacing, and as no
\* subnormal value.
LEMMA RoundedPattern ==
  ASSUME NEW i \in Hidden .. Top - 1, NEW s \in BOOLEAN
  PROVE  /\ WithSign(s, i) \in Sent
         /\ \E j \in Hidden .. Top :
              /\ Rounded(WithSign(s, i)) = WithSign(s, j)
              /\ i - j <= Pow2[ExpBits - 1] /\ j - i <= Pow2[ExpBits - 1]
<1> DEFINE h == IF s THEN Pow2[Width - 1] ELSE 0
           R == Rounded(WithSign(s, i))
<1>1. /\ Hidden \in Nat \ {0} /\ Bias \in Nat /\ Top \in Nat /\ Hidden < Top
      /\ Pow2[Width - 1] = Top + Hidden /\ Pow2[Width] = 2 * Top + 2 * Hidden
      /\ i \in Nat
  BY Widths, Tops
<1>2. h \in Nat /\ h <= Top + Hidden
  BY <1>1
<1>3. WithSign(s, i) = i + h
  BY DEF WithSign
<1>4. WithSign(s, i) \in Sent
  BY <1>1, <1>2, <1>3 DEF Sent
<1>5. \E c \in Int : h = Hidden * c
  <2>1. Hidden * 0 = 0 /\ 2 * Bias + 2 \in Int
    BY <1>1
  <2> QED BY <2>1, Widths
<1>6. PICK c \in Int : h = Hidden * c
  BY <1>5
<1>7. R \in Nat /\ 2 * (R - (i + h)) <= Pow2[ExpBits] /\ 2 * ((i + h) - R) <= Pow2[ExpBits]
  <2>1. /\ R \in Nat /\ 2 * (R - (i + h)) <= Spacing(WithSign(s, i))
        /\ 2 * ((i + h) - R) <= Spacing(WithSign(s, i))
    BY <1>3, <1>4, Nearest
  <2>2. Spacing(WithSign(s, i)) \in Nat /\ Spacing(WithSign(s, i)) <= Pow2[ExpBits]
    BY <1>4, SpacingType
  <2> QED BY <2>1, <2>2, <1>1, <1>2, Widths
<1> HIDE DEF h, R
<1>8. Hidden + h <= R
  <2>1. Hidden * (c + 1) = Hidden + h /\ c + 1 \in Int
    BY <1>1, <1>6
  <2>2. Hidden * (c + 1) <= WithSign(s, i)
    BY <2>1, <1>1, <1>2, <1>3
  <2> QED BY <2>1, <2>2, <1>4, Landmark DEF R
<1>9. R <= Top + h
  <2>1. Hidden * (c + (2 * Bias + 1)) = Top + h /\ c + (2 * Bias + 1) \in Int
    BY <1>1, <1>6 DEF Top
  <2>2. WithSign(s, i) <= Hidden * (c + (2 * Bias + 1))
    BY <2>1, <1>1, <1>2, <1>3
  <2> QED BY <2>1, <2>2, <1>4, Landmark DEF R
<1> DEFINE j == R - h
<1>10. j \in Hidden .. Top /\ R = j + h
  BY <1>1, <1>2, <1>7, <1>8, <1>9
<1>11. R = WithSign(s, j)
  BY <1>10 DEF WithSign, h
<1>12. i - j <= Pow2[ExpBits - 1] /\ j - i <= Pow2[ExpBits - 1]
  BY <1>1, <1>2, <1>7, <1>10, Widths
<1> QED BY <1>4, <1>10, <1>11, <1>12 DEF R

-----------------------------------------------------------------------------
(***************************************************************************)
(* Packing and unpacking.                                                  *)
(***************************************************************************)
LEMMA UnpackedValue ==
  ASSUME NEW j \in Hidden .. Top, NEW s \in BOOLEAN
  PROVE  Unpacked(WithSign(s, j)) = Signed(s, Value(j))
<1> DEFINE i == WithSign(s, j)
           e == j \div Hidden
           m == j % Hidden
           k == IF s THEN Pow2[ExpBits] ELSE 0
<1>1. /\ Hidden \in Nat \ {0} /\ Bias \in Nat \ {0} /\ Top \in Nat /\ Hidden < Top
      /\ Pow2[Width - 1] = Top + Hidden /\ Pow2[ExpBits] = 2 * Bias + 2
      /\ Pow2[Width - 1] = Hidden * (2 * Bias + 2)
  BY Widths, Tops
<1>2. /\ e \in 1 .. 2 * Bias + 1 /\ m \in 0 .. Hidden - 1 /\ j = Hidden * e + m
      /\ j < Top => e <= 2 * Bias
      /\ j = Top => e = 2 * Bias + 1 /\ m = 0
  BY Fields
<1>3. k \in Nat
  BY <1>1
<1> HIDE DEF e, m
<1>4. i = Hidden * (e + k) + m
  <2>1. CASE s
    <3>1. i = Hidden * e + m + Hidden * (2 * Bias + 2)
      BY <1>1, <1>2, <2>1 DEF WithSign
    <3>2. Hidden * (e + k) = Hidden * e + Hidden * (2 * Bias + 2)
      BY <1>1, <1>2, <2>1
    <3> QED BY <3>1, <3>2, <1>1, <1>2
  <2>2. CASE ~s
    <3>1. i = Hidden * e + m /\ e + k = e
      BY <1>1, <1>2, <2>2 DEF WithSign
    <3> QED BY <3>1
  <2> QED BY <2>1, <2>2
<1>5. i \div Hidden = e + k /\ i % Hidden = m
  BY <1>1, <1>2, <1>3, <1>4, Divided
<1>6. (i \div Hidden) % Pow2[ExpBits] = e
  <2>1. e \in 0 .. Pow2[ExpBits] - 1 /\ Pow2[ExpBits] \in Int /\ Pow2[ExpBits] > 0
    BY <1>1, <1>2
  <2>2. e + k = Pow2[ExpBits] * (IF s THEN 1 ELSE 0) + e
    BY <1>1, <1>2
  <2>3. (IF s THEN 1 ELSE 0) \in Int
    OBVIOUS
  <2> QED BY <1>5, <2>1, <2>2, <2>3, Divided
<1>7. i # 0 /\ e # 0 /\ (i >= Pow2[Width - 1]) = s
  BY <1>1, <1>2 DEF WithSign
<1> DEFINE sign == IF s THEN -1 ELSE 1
<1>8. Unpacked(i) = IF e = 2 * Bias + 1 THEN sign * Infinity ELSE sign * Magnitude(e, m)
  <2>1. (IF i >= Pow2[Width - 1] THEN -1 ELSE 1) = sign
    BY <1>7
  <2>2. Pow2[ExpBits] - 1 = 2 * Bias + 1
    BY <1>1
  <2> HIDE DEF i, sign
  <2> QED BY <1>5, <1>6, <1>7, <2>1, <2>2 DEF Unpacked
<1>9. Value(j) = Magnitude(e, m) /\ Value(j) \in Nat
  BY Values DEF Value, e, m
<1>10. CASE j = Top
  <2>1. e = 2 * Bias + 1 /\ Value(j) = Infinity
    BY <1>2, <1>10, Values
  <2>2. sign * Infinity = Signed(s, Value(j))
    BY <2>1, <1>9 DEF Signed
  <2> QED BY <2>1, <2>2, <1>8
<1>11. CASE j # Top
  <2>1. e # 2 * Bias + 1
    BY <1>1, <1>2, <1>11
  <2>2. sign * Magnitude(e, m) = Signed(s, Value(j))
    BY <1>9 DEF Signed
  <2> QED BY <2>1, <2>2, <1>8
<1> QED BY <1>10, <1>11

\* Whatever the bits are, they are read as a double.
LEMMA UnpackedType ==
  ASSUME NEW i \in Sent
  PROVE  Unpacked(i) \in Doubles
<1> DEFINE sig == i % Hidden
           exp == (i \div Hidden) % Pow2[ExpBits]
           sign == IF i >= Pow2[Width - 1] THEN -1 ELSE 1
           half == (Hidden + sig) \div 2
           v == IF sig % 2 = 1 /\ half % 2 = 1 THEN half + 1 ELSE half
           s == i >= Pow2[Width - 1]
<1>1. /\ Hidden \in Nat \ {0} /\ Bias \in Nat \ {0} /\ Top \in Nat /\ Hidden < Top
      /\ Pow2[ExpBits] = 2 * Bias + 2 /\ i \in Nat
      /\ Pow2[SigBits - 1] \in Nat \ {0} /\ Hidden = 2 * Pow2[SigBits - 1]
  BY Widths, Tops, SpacingType
<1>2. sig \in 0 .. Hidden - 1 /\ i \div Hidden \in Int
  BY <1>1, Parts
<1>3. exp \in 0 .. 2 * Bias + 1
  <2>1. Pow2[ExpBits] \in Int /\ Pow2[ExpBits] > 0
    BY <1>1
  <2>2. exp \in 0 .. Pow2[ExpBits] - 1
    BY <2>1, <1>2, Parts
  <2> QED BY <2>2, <1>1
<1>4. Unpacked(i) = IF i = 0 THEN 0
                    ELSE IF exp = 0 THEN sign * v
                    ELSE IF exp = Pow2[ExpBits] - 1 THEN sign * Infinity
                    ELSE sign * Magnitude(exp, sig)
  BY DEF Unpacked
<1>5. s \in BOOLEAN /\ sign = IF s THEN -1 ELSE 1
  BY <1>1
<1> HIDE DEF s, sign
<1>6. \A n \in Int : sign * n = Signed(s, n)
  BY <1>5 DEF Signed
<1> HIDE DEF exp, sig
<1>7. v \in 1 .. Hidden
  <2> DEFINE a == Pow2[SigBits - 1]
  <2>1. a \in Nat \ {0} /\ Hidden = 2 * a
    BY <1>1
  <2> HIDE DEF a
  <2> QED BY <2>1, <1>2
<1>8. sign * v \in Doubles
  BY <1>5, <1>6, <1>7, DoubleValues
<1>9. ASSUME exp # 0, exp # Pow2[ExpBits] - 1 PROVE sign * Magnitude(exp, sig) \in Doubles
  <2>1. exp \in 1 .. 2 * Bias
    BY <1>1, <1>3, <1>9
  <2>2. /\ Hidden * exp + sig \in Hidden .. Top - 1
        /\ Value(Hidden * exp + sig) = Magnitude(exp, sig)
    BY <2>1, <1>2, FieldsMake
  <2>3. Hidden * exp + sig \in Hidden .. Top
    BY <2>2, <1>1
  <2> QED BY <2>2, <2>3, <1>5, <1>6, Values, DoubleValues
<1>10. sign * Infinity \in Doubles
  <2>1. Top \in Hidden .. Top /\ Value(Top) = Infinity
    BY <1>1, Values
  <2> QED BY <2>1, <1>5, <1>6, Values, DoubleValues
<1> HIDE DEF v
<1> QED BY <1>4, <1>8, <1>9, <1>10, DoubleValues

\* The number on the line has at most one bit too many.
LEMMA RoundedType ==
  ASSUME NEW n \in Sent
  PROVE  Rounded(n) \in 0 .. Pow2[Width]
<1>1. Hidden \in Nat /\ Bias \in Nat /\ n \in Nat /\ n <= Pow2[Width] /\ Pow2[Width] \in Nat
  BY Widths, SpacingType, Powers DEF Sent
<1>2. Pow2[Width] = Hidden * (2 * Bias + 2) + Hidden * (2 * Bias + 2)
  BY Widths
<1>3. Pow2[Width] = Hidden * (4 * Bias + 4) /\ 4 * Bias + 4 \in Int
  BY <1>1, <1>2
<1>4. Rounded(n) <= Pow2[Width]
  BY <1>1, <1>3, Landmark
<1> QED BY <1>1, <1>4, Nearest

\* The bounds that the two loops test.
LEMMA LoopBounds ==
  /\ One \in Nat \ {0} /\ One = Hidden * Pow2[Bias - 1] /\ Pow2[Bias - 1] \in Nat \ {0}
  /\ ShiftBound \in Nat /\ Bias <= ShiftBound
  /\ \A f \in 1 .. 2 * Bias, m \in 0 .. Hidden - 1 :
       /\ Magnitude(f, m) >= 2 * One <=> f >= Bias + 1
       /\ Magnitude(f, m) < One <=> f < Bias
       /\ Magnitude(f, m) < Infinity
<1>1. Hidden \in Nat \ {0} /\ Bias \in Nat \ {0} /\ SigBits \in Nat
  BY Widths, CodecAssumption
<1>2. ShiftBound \in Nat /\ Bias <= ShiftBound
  BY <1>1 DEF ShiftBound
<1>3. /\ Bias - 1 \in Nat /\ SigBits + Bias - 1 = SigBits + (Bias - 1)
      /\ Pow2[Bias - 1] \in Nat \ {0} /\ Pow2[Bias] = 2 * Pow2[Bias - 1]
  BY <1>1, Doubled, Powers
<1>4. One = Hidden * Pow2[Bias - 1]
  BY <1>1, <1>3, PowSum DEF One, Hidden
<1>5. One \in Nat \ {0}
  BY <1>1, <1>3, <1>4
<1>6. One = Magnitude(Bias, 0) /\ 2 * One = Magnitude(Bias + 1, 0)
  <2>1. Hidden + 0 = Hidden /\ (Bias + 1) - 1 = Bias
    BY <1>1
  <2>2. 2 * (Hidden * Pow2[Bias - 1]) = Hidden * (2 * Pow2[Bias - 1])
    BY <1>1, <1>3
  <2> QED BY <2>1, <2>2, <1>3, <1>4 DEF Magnitude
<1>7. Infinity = Magnitude(2 * Bias + 1, 0)
  <2>1. Top \in Hidden .. Top
    BY Tops, <1>1
  <2> QED BY <2>1, Fields, Values DEF Value
<1>8. ASSUME NEW f \in 1 .. 2 * Bias, NEW m \in 0 .. Hidden - 1
      PROVE  /\ Magnitude(f, m) >= 2 * One <=> f >= Bias + 1
             /\ Magnitude(f, m) < One <=> f < Bias
             /\ Magnitude(f, m) < Infinity
  <2>1. /\ f \in 1 .. 2 * Bias + 1 /\ 0 \in 0 .. Hidden - 1 /\ Bias \in 1 .. 2 * Bias + 1
        /\ Bias + 1 \in 1 .. 2 * Bias + 1 /\ 2 * Bias + 1 \in 1 .. 2 * Bias + 1
    BY <1>1
  <2>2. Magnitude(f, m) \in Nat
    BY <2>1, Magnitudes
  <2>3. ASSUME NEW e \in 1 .. 2 * Bias + 1, f < e
        PROVE  Magnitude(f, m) < Magnitude(e, 0)
    BY <2>1, <2>3, MagnitudeUp
  <2>4. ASSUME NEW e \in 1 .. 2 * Bias + 1, e <= f
        PROVE  Magnitude(e, 0) <= Magnitude(f, m)
    <3>1. Magnitude(e, 0) \in Nat
      BY <2>1, Magnitudes
    <3>2. CASE e = f /\ m = 0
      BY <3>1, <3>2
    <3>3. CASE e < f \/ 0 < m
      <4>1. e < f \/ (e = f /\ 0 < m)
        BY <2>4, <3>3
      <4> QED BY <4>1, <2>1, <2>2, <3>1, MagnitudeUp
    <3> QED BY <2>4, <3>2, <3>3
  <2>5. f >= Bias + 1 => Magnitude(f, m) >= 2 * One
    BY <2>1, <2>2, <2>4, <1>5, <1>6
  <2>6. f < Bias + 1 => Magnitude(f, m) < 2 * One
    BY <2>1, <2>3, <1>6
  <2>7. f < Bias => Magnitude(f, m) < One
    BY <2>1, <2>3, <1>6
  <2>8. f >= Bias => Magnitude(f, m) >= One
    BY <2>1, <2>2, <2>4, <1>5, <1>6
  <2>9. Magnitude(f, m) < Infinity
    <3>1. f < 2 * Bias + 1
      BY <1>1
    <3> QED BY <3>1, <2>1, <2>3, <1>7
  <2> QED BY <2>2, <2>5, <2>6, <2>7, <2>8, <2>9, <1>1, <1>5
<1> QED BY <1>2, <1>3, <1>4, <1>5, <1>8

\* One step of a loop moves a value to the next exponent and keeps the rest.
LEMMA HalfMagnitude ==
  ASSUME NEW f \in 2 .. 2 * Bias + 1, NEW m \in 0 .. Hidden - 1
  PROVE  /\ Magnitude(f, m) = 2 * Magnitude(f - 1, m)
         /\ Magnitude(f, m) \div 2 = Magnitude(f - 1, m)
<1>1. /\ f - 1 \in Nat \ {0} /\ Pow2[f - 1] = 2 * Pow2[(f - 1) - 1]
      /\ Pow2[(f - 1) - 1] \in Nat /\ Hidden + m \in Nat
  <2>1. f - 1 \in Nat \ {0} /\ Hidden + m \in Nat
    BY Widths
  <2> QED BY <2>1, Doubled, Powers
<1> DEFINE p == Pow2[(f - 1) - 1]
           h == Hidden + m
<1>2. Magnitude(f, m) = h * (2 * p) /\ Magnitude(f - 1, m) = h * p
  BY <1>1 DEF Magnitude
<1>3. p \in Nat /\ h \in Nat
  BY <1>1
<1> HIDE DEF p, h
<1>4. h * (2 * p) = 2 * (h * p) /\ h * p \in Nat
  BY <1>3
<1>5. \A n \in Nat : (2 * n) \div 2 = n
  OBVIOUS
<1> QED BY <1>2, <1>4, <1>5

\* The pattern fits the packet, whatever is left of the value.
LEMMA PatternType ==
  ASSUME fnorm \in Int, shift \in Int, x \in Int
  PROVE  Pattern \in Sent
<1> DEFINE sig  == ((fnorm - One) * Hidden) \div One
           exp  == shift + Bias
           body == (exp * Hidden + sig) % Pow2[Width]
<1>1. /\ One \in Int /\ One > 0 /\ Hidden \in Int /\ Bias \in Int
      /\ Pow2[Width] \in Int /\ Pow2[Width] > 0 /\ Pow2[Width - 1] \in Nat
      /\ Pow2[Width] = Pow2[Width - 1] + Pow2[Width - 1]
  BY LoopBounds, Widths, Powers
<1>2. (fnorm - One) * Hidden \in Int
  BY <1>1
<1>3. sig \in Int
  BY <1>1, <1>2, Parts
<1> HIDE DEF sig
<1>4. exp * Hidden + sig \in Int
  BY <1>1, <1>3
<1>5. body \in 0 .. Pow2[Width] - 1
  BY <1>1, <1>4, Parts
<1>6. Pattern = IF x < 0 /\ body < Pow2[Width - 1] THEN body + Pow2[Width - 1] ELSE body
  BY DEF Pattern, sig
<1> HIDE DEF body
<1> QED BY <1>1, <1>5, <1>6 DEF Sent

\* For a normal value it is the one of IEEE 754.
LEMMA PatternValue ==
  ASSUME NEW i \in Hidden .. Top - 1, x \in Int,
         shift = (i \div Hidden) - Bias, fnorm = Magnitude(Bias, i % Hidden)
  PROVE  Pattern = WithSign(x < 0, i)
<1> DEFINE sig  == ((fnorm - One) * Hidden) \div One
           exp  == shift + Bias
           body == (exp * Hidden + sig) % Pow2[Width]
           e == i \div Hidden
           m == i % Hidden
           p == Pow2[Bias - 1]
<1>1. /\ Hidden \in Nat \ {0} /\ Bias \in Nat \ {0} /\ Top \in Nat
      /\ Pow2[Width - 1] = Top + Hidden /\ Pow2[Width] = 2 * Top + 2 * Hidden
  BY Widths, Tops
<1>2. e \in 1 .. 2 * Bias + 1 /\ m \in 0 .. Hidden - 1 /\ i = Hidden * e + m
  <2>1. i \in Hidden .. Top
    BY <1>1
  <2> QED BY <2>1, Fields
<1>3. One \in Nat \ {0} /\ One = Hidden * p /\ p \in Nat \ {0}
  BY LoopBounds
<1>4. fnorm = Hidden * p + m * p
  <2>1. Bias \in 1 .. 2 * Bias + 1
    BY <1>1
  <2> QED BY <2>1, <1>2, Magnitudes
<1>5. exp = e
  BY <1>1, <1>2
<1> HIDE DEF e, m, p, exp
<1>6. (fnorm - One) * Hidden = One * m + 0
  <2>1. Hidden * p \in Nat /\ m * p \in Nat
    BY <1>1, <1>2, <1>3
  <2>2. fnorm - One = m * p
    BY <2>1, <1>3, <1>4
  <2>3. (m * p) * Hidden = (Hidden * p) * m /\ (Hidden * p) * m \in Nat
    BY <1>1, <1>2, <1>3
  <2> QED BY <2>2, <2>3, <1>3
<1>7. sig = m
  <2>1. 0 \in 0 .. One - 1 /\ One \in Int /\ One > 0 /\ m \in Int
    BY <1>2, <1>3
  <2> QED BY <2>1, <1>6, Divided
<1> HIDE DEF sig
<1>8. exp * Hidden + sig = i
  BY <1>1, <1>2, <1>5, <1>7
<1>9. body = i
  <2>1. i \in 0 .. Pow2[Width] - 1 /\ Pow2[Width] \in Int /\ Pow2[Width] > 0
    BY <1>1
  <2>2. i = Pow2[Width] * 0 + i
    BY <2>1
  <2> QED BY <2>1, <2>2, <1>8, Divided
<1>10. Pattern = IF x < 0 /\ body < Pow2[Width - 1] THEN body + Pow2[Width - 1] ELSE body
  BY DEF Pattern, sig, exp
<1> HIDE DEF body
<1>11. i < Pow2[Width - 1]
  BY <1>1
<1> QED BY <1>9, <1>10, <1>11 DEF WithSign

-----------------------------------------------------------------------------
(***************************************************************************)
(* The invariant.  Both loops keep the significand of a normal value; only *)
(* the distance to the exponent that they aim at gets smaller, on the side *)
(* where it began.                                                         *)
(***************************************************************************)
Normalising(i) ==
  LET e == (i \div Hidden) - shift IN
  /\ x = Signed(x < 0, Value(i))
  /\ e \in 1 .. 2 * Bias
  /\ fnorm = Magnitude(e, i % Hidden)
  /\ shift > 0 => e >= Bias
  /\ shift < 0 => e <= Bias

\* Value v is on the line as n.
OnLine(v, n) ==
  \/ v = 0 /\ n = 0
  \/ \E i \in Hidden .. Top - 1 :
       v = Signed(v < 0, Value(i)) /\ n = Rounded(WithSign(v < 0, i))

\* Value v has arrived as w.
Arrives(v, w) ==
  \/ v = 0 /\ w = 0
  \/ \E i \in Hidden .. Top - 1, j \in Hidden .. Top :
       /\ v = Signed(v < 0, Value(i)) /\ w = Signed(v < 0, Value(j))
       /\ Rounded(WithSign(v < 0, i)) = WithSign(v < 0, j)

NormaliseInv ==
  pc = "normalise" =>
    /\ fnorm \in Nat /\ x # 0
    /\ Ordinary(x) => \E i \in Hidden .. Top - 1 : Normalising(i)

LineInv    == (pc = "line" /\ Ordinary(x)) => OnLine(x, stored)
ArrivedInv == (pc = "arrived" /\ Ordinary(x)) => Arrives(x, y)
LastInv    == last # << >> =>
                /\ last[1] \in Int
                /\ Ordinary(last[1]) => Arrives(last[1], last[2])

IInv == CodecTypeOK /\ NormaliseInv /\ LineInv /\ ArrivedInv /\ LastInv

\* No NaN is a normal value.
LEMMA NaNIsNone == ~Ordinary(NaN) /\ NaN # 0
<1>1. Top \in Nat /\ Hidden \in Nat \ {0} /\ Hidden < Top
  BY Widths, Tops
<1>2. Infinity \in Nat /\ Infinity = Value(Top) /\ Top \in Hidden .. Top
  BY <1>1, Values
<1>3. Abs(NaN) = Infinity + 1 /\ NaN # 0
  BY <1>2 DEF Abs, NaN
<1>4. ASSUME NEW i \in Hidden .. Top - 1 PROVE Value(i) < Infinity
  <2>1. i \in Hidden .. Top /\ i < Top
    BY <1>1
  <2> QED BY <2>1, <1>2, ValueUp
<1>5. Infinity + 1 \notin Normals
  <2> SUFFICES ASSUME Infinity + 1 \in Normals PROVE FALSE
    OBVIOUS
  <2>1. PICK i \in Hidden .. Top - 1 : Infinity + 1 = Value(i)
    BY Values
  <2> QED BY <2>1, <1>2, <1>4
<1> QED BY <1>3, <1>5 DEF Ordinary

\* One lemma for each action.
LEMMA InitInv == Init => IInv
<1> SUFFICES ASSUME Init PROVE IInv
  OBVIOUS
<1>1. CodecTypeOK
  BY DoubleValues, LoopBounds, Widths, Powers DEF Init, CodecTypeOK
<1> QED BY <1>1 DEF Init, IInv, NormaliseInv, LineInv, ArrivedInv, LastInv

LEMMA BeginInv ==
  ASSUME IInv, NEW v \in Doubles, Begin(v)
  PROVE  IInv'
<1>1. v \in Int /\ (v \in {0, NaN} \/ Abs(v) \in Nat \ {0})
  BY DoubleValues
<1>2. CodecTypeOK'
  BY LoopBounds, Widths, Powers DEF Begin, CodecTypeOK, IInv
<1>3. x' = v /\ fnorm' = Abs(v) /\ shift' = 0 /\ UNCHANGED <<y, last>>
  BY DEF Begin
<1>4. CASE v \in {0, NaN}
  <2>1. pc' = "line" /\ stored' = 0
    BY <1>4 DEF Begin
  <2>2. LineInv'
    BY <1>3, <1>4, <2>1, NaNIsNone DEF LineInv, OnLine
  <2> QED BY <1>2, <1>3, <2>1, <2>2 DEF IInv, NormaliseInv, ArrivedInv, LastInv
<1>5. CASE v \notin {0, NaN}
  <2>1. pc' = "normalise" /\ fnorm' \in Nat \ {0} /\ x' # 0
    BY <1>1, <1>3, <1>5 DEF Begin
  <2>2. ASSUME Ordinary(v) PROVE \E i \in Hidden .. Top - 1 : Normalising(i)'
    <3>1. PICK i \in Hidden .. Top - 1 : v = Signed(v < 0, Value(i))
      BY <1>1, <1>5, <2>2, OrdinaryValues
    <3>2. /\ Hidden \in Nat \ {0} /\ Bias \in Nat \ {0} /\ Top \in Nat
          /\ i \in Hidden .. Top /\ i < Top
      BY Widths, Tops
    <3>3. /\ i \div Hidden \in 1 .. 2 * Bias /\ Value(i) \in Nat
          /\ (i \div Hidden) - 0 = i \div Hidden
      <4>1. Value(i) \in Nat
        BY <3>2, Values
      <4>2. i \div Hidden \in 1 .. 2 * Bias
        <5>1. i \in Hidden .. Top /\ i < Top /\ Bias \in Nat
          BY <3>2
        <5>2. i \div Hidden \in 1 .. 2 * Bias + 1 /\ i \div Hidden <= 2 * Bias
          BY <5>1, Fields
        <5> QED BY <5>1, <5>2
      <4> QED BY <4>1, <4>2
    <3>4. Abs(v) = Value(i)
      BY <1>1, <3>1, <3>3 DEF Signed, Abs
    <3>5. Normalising(i)'
      BY <1>3, <3>1, <3>2, <3>3, <3>4 DEF Normalising, Value
    <3> QED BY <3>5
  <2>3. NormaliseInv'
    BY <1>3, <2>1, <2>2 DEF NormaliseInv, Ordinary
  <2> QED BY <1>2, <1>3, <2>1, <2>3 DEF IInv, LineInv, ArrivedInv, LastInv
<1> QED BY <1>4, <1>5

LEMMA HalveInv ==
  ASSUME IInv, Halve
  PROVE  IInv'
<1>1. /\ pc = "normalise" /\ pc' = "normalise" /\ UNCHANGED <<x, stored, y, last>>
      /\ fnorm >= 2 * One /\ shift' = Counted(shift + 1)
      /\ fnorm' = IF fnorm = Infinity THEN fnorm ELSE fnorm \div 2
      /\ fnorm \in Nat /\ x # 0 /\ shift \in -ShiftBound .. ShiftBound
  BY DEF Halve, IInv, NormaliseInv, CodecTypeOK
<1>2. One \in Nat /\ ShiftBound \in Nat /\ Bias <= ShiftBound /\ Bias \in Nat \ {0} /\ Top \in Nat
  BY LoopBounds, Widths, Tops
<1>3. shift' \in -ShiftBound .. ShiftBound
  BY <1>1, <1>2 DEF Counted
<1>4. fnorm' \in Nat
  <2>1. fnorm \div 2 \in Nat
    BY <1>1
  <2> QED BY <1>1, <2>1
<1>5. ASSUME NEW i \in Hidden .. Top - 1, Normalising(i)
      PROVE  Normalising(i)'
  <2> DEFINE e == (i \div Hidden) - shift
             m == i % Hidden
  <2>1. /\ i \div Hidden \in 1 .. 2 * Bias /\ m \in 0 .. Hidden - 1
    <3>1. i \in Hidden .. Top /\ i < Top
      BY <1>2, Widths
    <3> QED BY <3>1, <1>2, Fields
  <2>2. /\ x = Signed(x < 0, Value(i)) /\ e \in 1 .. 2 * Bias /\ fnorm = Magnitude(e, m)
        /\ shift > 0 => e >= Bias /\ (shift < 0 => e <= Bias)
    BY <1>5 DEF Normalising
  <2>3. e >= Bias + 1 /\ fnorm < Infinity
    BY <1>1, <2>1, <2>2, LoopBounds
  <2>4. shift >= 0 /\ shift + 1 <= Bias
    BY <1>1, <1>2, <2>1, <2>2, <2>3, <1>5 DEF Normalising
  <2>5. shift' = shift + 1
    BY <1>1, <1>2, <2>4 DEF Counted
  <2>6. (i \div Hidden) - shift' = e - 1
    BY <1>1, <2>1, <2>5
  <2>7. fnorm' = Magnitude(e - 1, m)
    <3>1. fnorm # Infinity
      BY <1>1, <2>3
    <3>2. e \in 2 .. 2 * Bias + 1
      BY <1>2, <2>2, <2>3
    <3> QED BY <1>1, <2>1, <2>2, <3>1, <3>2, HalfMagnitude
  <2>8. e - 1 \in 1 .. 2 * Bias /\ e - 1 >= Bias /\ shift' > 0
    BY <1>1, <1>2, <2>2, <2>3, <2>4, <2>5
  <2>9. x' = Signed(x' < 0, Value(i))
    BY <1>1, <2>2
  <2> HIDE DEF e, m
  <2>10. /\ (i \div Hidden) - shift' \in 1 .. 2 * Bias
         /\ fnorm' = Magnitude((i \div Hidden) - shift', i % Hidden)
         /\ (i \div Hidden) - shift' >= Bias /\ ~(shift' < 0)
    BY <2>6, <2>7, <2>8, <1>3, <1>2 DEF m
  <2> QED BY <2>9, <2>10 DEF Normalising
<1>6. NormaliseInv'
  BY <1>1, <1>4, <1>5 DEF IInv, NormaliseInv, Ordinary
<1>7. CodecTypeOK'
  BY <1>1, <1>3 DEF IInv, CodecTypeOK
<1> QED BY <1>1, <1>6, <1>7 DEF IInv, LineInv, ArrivedInv, LastInv

LEMMA DoubleInv ==
  ASSUME IInv, Double
  PROVE  IInv'
<1>1. /\ pc = "normalise" /\ pc' = "normalise" /\ UNCHANGED <<x, stored, y, last>>
      /\ fnorm < One /\ shift' = Counted(shift - 1) /\ fnorm' = fnorm * 2
      /\ fnorm \in Nat /\ x # 0 /\ shift \in -ShiftBound .. ShiftBound
  BY DEF Double, IInv, NormaliseInv, CodecTypeOK
<1>2. One \in Nat /\ ShiftBound \in Nat /\ Bias <= ShiftBound /\ Bias \in Nat \ {0} /\ Top \in Nat
  BY LoopBounds, Widths, Tops
<1>3. shift' \in -ShiftBound .. ShiftBound
  BY <1>1, <1>2 DEF Counted
<1>4. fnorm' \in Nat
  BY <1>1
<1>5. ASSUME NEW i \in Hidden .. Top - 1, Normalising(i)
      PROVE  Normalising(i)'
  <2> DEFINE e == (i \div Hidden) - shift
             m == i % Hidden
  <2>1. /\ i \div Hidden \in 1 .. 2 * Bias /\ m \in 0 .. Hidden - 1
    <3>1. i \in Hidden .. Top /\ i < Top
      BY <1>2, Widths
    <3> QED BY <3>1, <1>2, Fields
  <2>2. x = Signed(x < 0, Value(i)) /\ e \in 1 .. 2 * Bias /\ fnorm = Magnitude(e, m)
    BY <1>5 DEF Normalising
  <2>3. e < Bias
    BY <1>1, <2>1, <2>2, LoopBounds
  <2>4. shift <= 0 /\ -Bias <= shift - 1
    BY <1>1, <1>2, <2>1, <2>2, <2>3, <1>5 DEF Normalising
  <2>5. shift' = shift - 1
    BY <1>1, <1>2, <2>4 DEF Counted
  <2>6. (i \div Hidden) - shift' = e + 1
    BY <1>1, <2>1, <2>5
  <2>7. fnorm' = Magnitude(e + 1, m)
    <3>1. e + 1 \in 2 .. 2 * Bias + 1 /\ (e + 1) - 1 = e
      BY <1>2, <2>2
    <3>2. Magnitude(e + 1, m) = 2 * Magnitude(e, m)
      BY <3>1, <2>1, HalfMagnitude
    <3> QED BY <1>1, <2>2, <3>2
  <2>8. e + 1 \in 1 .. 2 * Bias /\ e + 1 <= Bias /\ shift' < 0
    BY <1>1, <1>2, <2>2, <2>3, <2>4, <2>5
  <2>9. x' = Signed(x' < 0, Value(i))
    BY <1>1, <2>2
  <2> HIDE DEF e, m
  <2>10. /\ (i \div Hidden) - shift' \in 1 .. 2 * Bias
         /\ fnorm' = Magnitude((i \div Hidden) - shift', i % Hidden)
         /\ (i \div Hidden) - shift' <= Bias /\ ~(shift' > 0)
    BY <2>6, <2>7, <2>8, <1>3, <1>2 DEF m
  <2> QED BY <2>9, <2>10 DEF Normalising
<1>6. NormaliseInv'
  BY <1>1, <1>4, <1>5 DEF IInv, NormaliseInv, Ordinary
<1>7. CodecTypeOK'
  BY <1>1, <1>3 DEF IInv, CodecTypeOK
<1> QED BY <1>1, <1>6, <1>7 DEF IInv, LineInv, ArrivedInv, LastInv

\* At the end of the loops a normal value has its own exponent.
LEMMA Packed ==
  ASSUME IInv, pc = "normalise", Ordinary(x), One <= fnorm, fnorm < 2 * One
  PROVE  \E i \in Hidden .. Top - 1 :
           x = Signed(x < 0, Value(i)) /\ Pattern = WithSign(x < 0, i)
<1>1. PICK i \in Hidden .. Top - 1 : Normalising(i)
  BY DEF IInv, NormaliseInv
<1> DEFINE e == (i \div Hidden) - shift
           m == i % Hidden
<1>2. Bias \in Nat \ {0} /\ One \in Nat /\ i \in Hidden .. Top
  BY Widths, LoopBounds, Tops
<1>3. m \in 0 .. Hidden - 1 /\ i \div Hidden \in Int
  BY <1>2, Fields
<1>4. x = Signed(x < 0, Value(i)) /\ e \in 1 .. 2 * Bias /\ fnorm = Magnitude(e, m)
  BY <1>1 DEF Normalising
<1>5. shift \in Int /\ x \in Int
  BY DoubleValues, LoopBounds DEF IInv, CodecTypeOK
<1>6. fnorm \in Nat
  BY DEF IInv, NormaliseInv
<1>7. e = Bias
  <2>1. ~(e >= Bias + 1) /\ ~(e < Bias)
    BY <1>2, <1>3, <1>4, <1>6, LoopBounds
  <2> QED BY <2>1, <1>2, <1>4
<1>8. shift = (i \div Hidden) - Bias
  BY <1>2, <1>3, <1>5, <1>7
<1>9. fnorm = Magnitude(Bias, i % Hidden)
  BY <1>4, <1>7
<1> QED BY <1>4, <1>5, <1>8, <1>9, PatternValue

LEMMA EmitInv ==
  ASSUME IInv, Emit
  PROVE  IInv'
<1>1. /\ pc = "normalise" /\ One <= fnorm /\ fnorm < 2 * One
      /\ pc' = "line" /\ stored' = Rounded(Pattern)
      /\ UNCHANGED <<x, fnorm, shift, y, last>>
  BY DEF Emit
<1>2. Pattern \in Sent
  BY <1>1, DoubleValues, LoopBounds, PatternType DEF IInv, CodecTypeOK, NormaliseInv
<1>3. CodecTypeOK'
  BY <1>1, <1>2, RoundedType DEF IInv, CodecTypeOK
<1>4. ASSUME Ordinary(x) PROVE OnLine(x, stored')
  BY <1>1, <1>4, Packed DEF OnLine
<1>5. LineInv'
  BY <1>1, <1>4 DEF LineInv, Ordinary
<1> QED BY <1>1, <1>3, <1>5 DEF IInv, NormaliseInv, ArrivedInv, LastInv

\* What is received of a value on the line.
LEMMA Received ==
  ASSUME NEW v, NEW n, OnLine(v, n), NEW i \in Converted(n)
  PROVE  Arrives(v, Unpacked(i))
<1>1. Top \in Nat /\ Hidden \in Nat \ {0} /\ Pow2[Width] = 2 * Top + 2 * Hidden
      /\ Pow2[Width - 1] = Top + Hidden
  BY Widths, Tops
<1>2. CASE v = 0 /\ n = 0
  <2>1. i = 0
    BY <1>1, <1>2 DEF Converted
  <2> QED BY <2>1, <1>2 DEF Unpacked, Arrives
<1>3. ASSUME NEW k \in Hidden .. Top - 1, v = Signed(v < 0, Value(k)),
             n = Rounded(WithSign(v < 0, k))
      PROVE  Arrives(v, Unpacked(i))
  <2>1. (v < 0) \in BOOLEAN
    OBVIOUS
  <2>2. PICK j \in Hidden .. Top : n = WithSign(v < 0, j)
    BY <2>1, <1>3, RoundedPattern
  <2>3. n < Pow2[Width]
    BY <1>1, <2>2 DEF WithSign
  <2>4. i = n
    BY <2>3 DEF Converted
  <2>5. Unpacked(i) = Signed(v < 0, Value(j))
    BY <2>1, <2>2, <2>4, UnpackedValue
  <2> QED BY <1>3, <2>2, <2>5 DEF Arrives
<1> QED BY <1>2, <1>3 DEF OnLine

LEMMA ReceiveInv ==
  ASSUME IInv, Receive
  PROVE  IInv'
<1>1. PICK i \in Converted(stored) : y' = Unpacked(i)
  BY DEF Receive
<1>2. pc = "line" /\ pc' = "arrived" /\ UNCHANGED <<x, fnorm, shift, stored, last>>
  BY DEF Receive
<1>3. i \in Sent
  <2>1. stored \in 0 .. Pow2[Width] /\ Pow2[Width] \in Nat
    BY Widths, Powers DEF IInv, CodecTypeOK
  <2> QED BY <2>1 DEF Converted, Sent
<1>4. CodecTypeOK'
  BY <1>1, <1>2, <1>3, UnpackedType DEF IInv, CodecTypeOK
<1>5. Ordinary(x) => Arrives(x, y')
  BY <1>1, <1>2, Received DEF IInv, LineInv
<1>6. ArrivedInv'
  BY <1>2, <1>5 DEF ArrivedInv, Ordinary
<1> QED BY <1>2, <1>4, <1>6 DEF IInv, NormaliseInv, LineInv, LastInv

LEMMA AgainInv ==
  ASSUME IInv, Again
  PROVE  IInv'
<1>1. /\ pc = "arrived" /\ pc' = "idle" /\ last' = <<x, y>>
      /\ x' = 0 /\ fnorm' = 0 /\ shift' = 0 /\ stored' = 0 /\ y' = 0
  BY DEF Again
<1>2. CodecTypeOK'
  BY <1>1, DoubleValues, LoopBounds, Widths, Powers DEF CodecTypeOK
<1>3. x \in Int /\ (Ordinary(x) => Arrives(x, y))
  BY <1>1, DoubleValues DEF IInv, CodecTypeOK, ArrivedInv
<1>4. LastInv'
  BY <1>1, <1>3 DEF LastInv, Ordinary
<1> QED BY <1>1, <1>2, <1>4 DEF IInv, NormaliseInv, LineInv, ArrivedInv

LEMMA StepInv == IInv /\ [Next]_vars => IInv'
<1> SUFFICES ASSUME IInv, [Next]_vars PROVE IInv'
  OBVIOUS
<1>1. CASE UNCHANGED vars
  <2>1. UNCHANGED <<pc, x, fnorm, shift, stored, y, last>>
    BY <1>1 DEF vars
  <2> QED BY <2>1 DEF IInv, CodecTypeOK, NormaliseInv, Normalising, LineInv, ArrivedInv, LastInv,
                      Ordinary
<1>2. CASE \E v \in Doubles : Begin(v)
  BY <1>2, BeginInv
<1> QED BY <1>1, <1>2, HalveInv, DoubleInv, EmitInv, ReceiveInv, AgainInv DEF Next, Step

\* The invariant holds in every reachable state.
LEMMA Inv == Spec => []IInv
BY InitInv, StepInv, PTL DEF Spec

-----------------------------------------------------------------------------
(***************************************************************************)
(* CodecTypes: whatever double is sent, a pattern of Width bits goes out,  *)
(* rounded to at most one more, and a double is read from it.              *)
(***************************************************************************)
THEOREM CodecTypes == Spec => []CodecTypeOK
<1>1. IInv => CodecTypeOK
  BY DEF IInv
<1> QED BY <1>1, Inv, PTL

(***************************************************************************)
(* PackingIsIEEE: pack754 gives a normal value the bits of IEEE 754, with  *)
(* any number of bits for the exponent and the significand.                *)
(***************************************************************************)
THEOREM PackingIsIEEE == Spec => []PacksIEEE
<1>1. IInv => PacksIEEE
  <2> SUFFICES ASSUME IInv, pc = "normalise", Abs(x) \in Normals, One <= fnorm, fnorm < 2 * One
               PROVE  Pattern = Encoding(x) + (IF x < 0 THEN Pow2[Width - 1] ELSE 0)
    BY DEF PacksIEEE
  <2>1. Ordinary(x)
    BY DEF Ordinary
  <2>2. PICK i \in Hidden .. Top - 1 : x = Signed(x < 0, Value(i)) /\ Pattern = WithSign(x < 0, i)
    BY <2>1, Packed
  <2>3. i \in Hidden .. Top /\ (x < 0) \in BOOLEAN
    BY Tops, Widths
  <2>4. Encoding(x) = i
    BY <2>2, <2>3, Encodings
  <2> QED BY <2>2, <2>4 DEF WithSign
<1> QED BY <1>1, Inv, PTL

(***************************************************************************)
(* ValuesArriveClose: what rounding the pattern to a double can do to the  *)
(* value: 2 ^ (ExpBits - 1) neighbours away at most, and never a change of *)
(* sign, as long as the significand is not shorter than the exponent.      *)
(***************************************************************************)
THEOREM ValuesArriveClose == Spec => []ArrivesClose
<1>1. IInv => ArrivesClose
  <2> SUFFICES ASSUME IInv, pc = "arrived", Ordinary(x)
               PROVE  /\ (x < 0) = (y < 0) /\ (x = 0) = (y = 0)
                      /\ Abs(Encoding(x) - Encoding(y)) <= Pow2[ExpBits - 1]
    BY DEF ArrivesClose
  <2>1. Arrives(x, y)
    BY DEF IInv, ArrivedInv
  <2>2. Bias \in Nat /\ Pow2[ExpBits - 1] = Bias + 1 /\ Top \in Nat /\ Hidden \in Nat \ {0}
    BY Widths, Tops
  <2>3. CASE x = 0 /\ y = 0
    BY <2>2, <2>3, Encodings DEF Abs
  <2>4. ASSUME NEW i \in Hidden .. Top - 1, NEW j \in Hidden .. Top,
               x = Signed(x < 0, Value(i)), y = Signed(x < 0, Value(j)),
               Rounded(WithSign(x < 0, i)) = WithSign(x < 0, j)
        PROVE  /\ (x < 0) = (y < 0) /\ (x = 0) = (y = 0)
               /\ Abs(Encoding(x) - Encoding(y)) <= Pow2[ExpBits - 1]
    <3>1. i \in Hidden .. Top /\ (x < 0) \in BOOLEAN
      BY <2>2
    <3>2. Value(i) \in Nat \ {0} /\ Value(j) \in Nat \ {0}
      BY <3>1, <2>2, Values
    <3>3. Encoding(x) = i /\ Encoding(y) = j
      BY <3>1, <2>4, Encodings
    <3>4. PICK k \in Hidden .. Top :
            /\ WithSign(x < 0, j) = WithSign(x < 0, k)
            /\ i - k <= Pow2[ExpBits - 1] /\ k - i <= Pow2[ExpBits - 1]
      BY <3>1, <2>4, RoundedPattern
    <3>5. Pow2[Width - 1] \in Nat
      BY Widths, Powers
    <3>6. j = k
      BY <3>4, <3>5, <2>2 DEF WithSign
    <3>7. Abs(i - j) <= Pow2[ExpBits - 1]
      BY <3>4, <3>6, <2>2 DEF Abs
    <3>8. (x < 0) = (y < 0) /\ (x = 0) = (y = 0)
      BY <2>4, <3>2 DEF Signed
    <3> QED BY <3>3, <3>7, <3>8
  <2> QED BY <2>1, <2>3, <2>4 DEF Arrives
<1> QED BY <1>1, Inv, PTL

\* Under one sign the larger value does not arrive as the smaller.
LEMMA SameSign ==
  ASSUME NEW s \in BOOLEAN,
         NEW i \in Hidden .. Top - 1, NEW j \in Hidden .. Top,
         NEW k \in Hidden .. Top - 1, NEW l \in Hidden .. Top,
         Rounded(WithSign(s, i)) = WithSign(s, j),
         Rounded(WithSign(s, k)) = WithSign(s, l),
         Value(i) <= Value(k)
  PROVE  Value(j) <= Value(l)
<1>1. /\ Top \in Nat /\ Hidden \in Nat /\ Pow2[Width - 1] \in Nat
      /\ i \in Hidden .. Top /\ k \in Hidden .. Top
  BY Widths, Tops, Powers
<1>2. Value(i) \in Nat /\ Value(k) \in Nat /\ Value(j) \in Nat /\ Value(l) \in Nat
  BY <1>1, Values
<1>3. i <= k
  <2> SUFFICES ASSUME k < i PROVE FALSE
    BY <1>1
  <2>1. Value(k) < Value(i)
    BY <1>1, ValueUp
  <2> QED BY <2>1, <1>2
<1>4. WithSign(s, i) <= WithSign(s, k)
  BY <1>1, <1>3 DEF WithSign
<1>5. WithSign(s, i) \in Sent /\ WithSign(s, k) \in Sent
  BY RoundedPattern
<1>6. WithSign(s, j) <= WithSign(s, l)
  BY <1>4, <1>5, RoundedUp
<1>7. j <= l
  BY <1>1, <1>6 DEF WithSign
<1>8. CASE j = l
  BY <1>2, <1>8
<1>9. CASE j < l
  BY <1>2, <1>9, ValueUp
<1> QED BY <1>7, <1>8, <1>9

\* Nor under two signs.
LEMMA InOrder ==
  ASSUME NEW u \in Int, NEW v \in Int, NEW a, NEW b,
         Arrives(u, a), Arrives(v, b), u <= v
  PROVE  a <= b
<1>1. \A i \in Hidden .. Top : Value(i) \in Nat \ {0}
  BY Values, Widths
<1>2. \A i \in Hidden .. Top - 1 : i \in Hidden .. Top
  BY Widths, Tops
<1>3. CASE u = 0 /\ a = 0
  <2>1. CASE v = 0 /\ b = 0
    BY <1>3, <2>1
  <2>2. ASSUME NEW k \in Hidden .. Top - 1, NEW l \in Hidden .. Top,
               v = Signed(v < 0, Value(k)), b = Signed(v < 0, Value(l))
        PROVE  a <= b
    BY <1>1, <1>3, <2>2 DEF Signed
  <2> QED BY <2>1, <2>2 DEF Arrives
<1>4. ASSUME NEW i \in Hidden .. Top - 1, NEW j \in Hidden .. Top,
             u = Signed(u < 0, Value(i)), a = Signed(u < 0, Value(j)),
             Rounded(WithSign(u < 0, i)) = WithSign(u < 0, j)
      PROVE  a <= b
  <2>1. Value(i) \in Nat \ {0} /\ Value(j) \in Nat \ {0}
    BY <1>1, <1>2
  <2>2. CASE v = 0 /\ b = 0
    <3>1. u < 0
      BY <1>4, <2>1, <2>2 DEF Signed
    <3> QED BY <3>1, <1>4, <2>1, <2>2 DEF Signed
  <2>3. ASSUME NEW k \in Hidden .. Top - 1, NEW l \in Hidden .. Top,
               v = Signed(v < 0, Value(k)), b = Signed(v < 0, Value(l)),
               Rounded(WithSign(v < 0, k)) = WithSign(v < 0, l)
        PROVE  a <= b
    <3>1. Value(k) \in Nat \ {0} /\ Value(l) \in Nat \ {0}
      BY <1>1, <1>2
    <3>2. CASE u < 0 /\ ~(v < 0)
      BY <1>4, <2>1, <2>3, <3>1, <3>2 DEF Signed
    <3>3. CASE ~(u < 0) /\ ~(v < 0)
      <4>1. u = Value(i) /\ v = Value(k) /\ a = Value(j) /\ b = Value(l)
        BY <1>4, <2>3, <3>3 DEF Signed
      <4>2. (u < 0) = FALSE /\ (v < 0) = FALSE
        BY <3>3
      <4>3. Rounded(WithSign(FALSE, i)) = WithSign(FALSE, j)
        BY <1>4, <4>2
      <4>4. Rounded(WithSign(FALSE, k)) = WithSign(FALSE, l)
        BY <2>3, <4>2
      <4> QED BY <4>1, <4>3, <4>4, SameSign
    <3>4. CASE u < 0 /\ v < 0
      <4>1. u = -Value(i) /\ v = -Value(k) /\ a = -Value(j) /\ b = -Value(l)
        BY <1>4, <2>3, <3>4 DEF Signed
      <4>2. (u < 0) = TRUE /\ (v < 0) = TRUE
        BY <3>4
      <4>3. Rounded(WithSign(TRUE, i)) = WithSign(TRUE, j)
        BY <1>4, <4>2
      <4>4. Rounded(WithSign(TRUE, k)) = WithSign(TRUE, l)
        BY <2>3, <4>2
      <4>5. Value(k) <= Value(i)
        BY <2>1, <3>1, <4>1
      <4>6. Value(l) <= Value(j)
        BY <4>3, <4>4, <4>5, SameSign
      <4> QED BY <2>1, <3>1, <4>1, <4>6
    <3> QED BY <3>2, <3>3, <3>4
  <2> QED BY <2>2, <2>3 DEF Arrives
<1> QED BY <1>3, <1>4 DEF Arrives

(***************************************************************************)
(* OrderIsKept: rounding, packing and unpacking are monotone, so that a    *)
(* measurement that rises is not seen to fall, and sign and infinity do    *)
(* not break that.                                                         *)
(***************************************************************************)
THEOREM OrderIsKept == Spec => []OrderKept
<1>1. IInv => OrderKept
  <2> SUFFICES ASSUME IInv, pc = "arrived", last # << >>, Ordinary(x), Ordinary(last[1]),
                      last[1] <= x
               PROVE  last[2] <= y
    BY DEF OrderKept
  <2>1. Arrives(x, y) /\ x \in Int
    BY DoubleValues DEF IInv, ArrivedInv, CodecTypeOK
  <2>2. Arrives(last[1], last[2]) /\ last[1] \in Int
    BY DEF IInv, LastInv
  <2> QED BY <2>1, <2>2, InOrder
<1> QED BY <1>1, Inv, PTL
=============================================================================
