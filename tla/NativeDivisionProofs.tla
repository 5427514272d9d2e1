------------------------ MODULE NativeDivisionProofs ------------------------
(***************************************************************************)
(* Division by a constant is exact for every register width and every      *)
(* divisor that has a short form.                                          *)
(***************************************************************************)
EXTENDS NativeDivision, TLAPS

----------------------------------------------------------------------------
\* Arithmetic.

\* Order is preserved by multiplication.
LEMMA MonoMult ==
  ASSUME NEW a \in Int, NEW b \in Int, NEW c \in Nat, a <= b
  PROVE  a * c <= b * c
  <1>1. (b - a) * c >= 0
    OBVIOUS
  <1>2. (b - a) * c = b * c - a * c
    OBVIOUS
  <1> QED
    BY <1>1, <1>2

\* And reflected by it.
LEMMA CancelMult ==
  ASSUME NEW a \in Int, NEW b \in Int, NEW c \in Nat \ {0}, a * c < b * c
  PROVE  a < b
  <1>1. SUFFICES ASSUME b <= a PROVE FALSE
    OBVIOUS
  <1> QED
    BY <1>1, MonoMult

\* What \div rounds to.
LEMMA DivBounds ==
  ASSUME NEW a \in Int, NEW b \in Nat \ {0}
  PROVE  /\ a \div b \in Int
         /\ (a \div b) * b <= a
         /\ a < (a \div b + 1) * b
  <1>1. a \div b \in Int /\ a % b \in 0..(b - 1)
    OBVIOUS
  <1>2. a = b * (a \div b) + (a % b)
    OBVIOUS
  <1>3. b * (a \div b) = (a \div b) * b
    BY <1>1
  <1>4. (a \div b + 1) * b = (a \div b) * b + b
    BY <1>1
  <1> QED
    BY <1>1, <1>2, <1>3, <1>4

LEMMA DivUnique ==
  ASSUME NEW a \in Int, NEW b \in Nat \ {0}, NEW q \in Int,
         q * b <= a, a < (q + 1) * b
  PROVE  a \div b = q
  <1> DEFINE r == a \div b
  <1>1. r \in Int /\ r * b <= a /\ a < (r + 1) * b
    BY DivBounds
  <1> HIDE DEF r
  <1>2. q * b < (r + 1) * b /\ r * b < (q + 1) * b
    BY <1>1
  <1>3. q < r + 1 /\ r < q + 1
    BY <1>1, <1>2, CancelMult
  <1>4. q = r
    BY <1>1, <1>3
  <1> QED
    BY <1>4 DEF r

LEMMA NoRemainder ==
  ASSUME NEW c \in Nat \ {0}, NEW b \in Nat
  PROVE  (c * b) % c = 0
  <1>1. (c * b) \div c = b
    <2>1. b * c <= c * b /\ c * b < (b + 1) * c
      OBVIOUS
    <2> QED
      BY <2>1, DivUnique
  <1> DEFINE a == c * b
  <1>2. a \in Int /\ a \div c = b
    BY <1>1
  <1> HIDE DEF a
  <1>3. a = c * (a \div c) + (a % c) /\ a % c \in Nat
    BY <1>2
  <1>4. a = c * b
    BY DEF a
  <1>5. a % c = 0
    BY <1>2, <1>3, <1>4
  <1> QED
    BY <1>5 DEF a

\* A register keeps what fits.
LEMMA WrapFits ==
  ASSUME NEW v \in Word, Half \in Nat
  PROVE  Wrap(v) = v
  <1> DEFINE x == v + Half
             w == 2 * Half
  <1>1. x \in Nat /\ w \in Nat \ {0} /\ x < w
    BY DEF Word
  <1> HIDE DEF x, w
  <1>2. x \div w = 0
    BY <1>1, DivUnique
  <1>3. x = w * (x \div w) + (x % w) /\ x % w \in Nat
    BY <1>1
  <1>4. x % w = x
    BY <1>1, <1>2, <1>3
  <1> QED
    BY <1>4, DivisionAssumption DEF x, w, Wrap, Word, DivisionAssumption

LEMMA WrapInWord ==
  ASSUME NEW v \in Int, Half \in Nat \ {0}
  PROVE  Wrap(v) \in Word
  <1>1. (v + Half) % (2 * Half) \in 0..(2 * Half - 1)
    OBVIOUS
  <1> QED
    BY <1>1 DEF Wrap, Word

----------------------------------------------------------------------------
\* The multiplier.  With P = 2 * Half * power and an excess e the product is
\* too large by v * e / b, which never reaches the next quotient.

LEMMA MagicProduct ==
  ASSUME NEW P \in Nat \ {0}, NEW m \in Nat, NEW b \in Nat \ {0},
         NEW v \in Nat, m * b - P > 0
  PROVE  LET q == v \div b
             t == v * m - q * P
         IN  /\ q \in Nat
             /\ t \in Nat
             /\ v > 0 => t > 0
             /\ t * b <= v * (m * b - P) + (b - 1) * P
  <1> DEFINE e == m * b - P
             q == v \div b
             r == v - q * b
             t == v * m - q * P
  <1>1. e \in Nat /\ e > 0 /\ m * b = P + e /\ m > 0
    OBVIOUS
  <1>2. q \in Int /\ q * b <= v /\ v < (q + 1) * b
    BY DivBounds
  <1>3. q \in Nat
    <2>1. 0 * b < (q + 1) * b
      BY <1>2
    <2> QED
      BY <2>1, <1>2, CancelMult
  <1> HIDE DEF e, q
  <1>4. r \in Nat /\ r <= b - 1 /\ v = q * b + r
    <2>1. (q + 1) * b = q * b + b
      BY <1>3
    <2> QED
      BY <1>2, <1>3, <2>1
  <1> HIDE DEF r
  <1>5. t = q * e + r * m
    <2>1. v * m = q * (m * b) + r * m
      BY <1>3, <1>4
    <2>2. q * (m * b) = q * P + q * e
      BY <1>1, <1>3
    <2> QED
      BY <2>1, <2>2, <1>1, <1>3, <1>4
  <1> HIDE DEF t
  <1>6. t \in Nat
    BY <1>1, <1>3, <1>4, <1>5
  <1>7. v > 0 => t > 0
    <2>1. CASE q > 0
      BY <2>1, <1>1, <1>3, <1>4, <1>5
    <2>2. CASE q = 0
      <3>1. r = v /\ t = r * m
        BY <2>2, <1>1, <1>4, <1>5
      <3> QED
        BY <3>1, <1>1
    <2> QED
      BY <2>1, <2>2, <1>3
  <1>8. t * b <= v * e + (b - 1) * P
    <2>1. t * b = (q * b) * e + r * (m * b)
      BY <1>1, <1>3, <1>4, <1>5
    <2>2. r * (m * b) = r * P + r * e
      BY <1>1, <1>4
    <2>3. v * e = (q * b) * e + r * e
      BY <1>1, <1>3, <1>4
    <2>4. r * P <= (b - 1) * P
      BY <1>4, MonoMult
    <2> QED
      BY <2>1, <2>2, <2>3, <2>4, <1>1, <1>3, <1>4, <1>6
  <1> QED
    BY <1>3, <1>6, <1>7, <1>8 DEF e, q, t

LEMMA MagicNonnegative ==
  ASSUME NEW P \in Nat \ {0}, NEW m \in Nat, NEW b \in Nat \ {0},
         NEW v \in Nat, m * b - P > 0, v * (m * b - P) < P
  PROVE  (v * m) \div P = v \div b
  <1> DEFINE q == v \div b
             t == v * m - q * P
  <1>1. q \in Nat /\ t \in Nat /\ t * b <= v * (m * b - P) + (b - 1) * P
    BY MagicProduct
  <1> HIDE DEF q
  <1>2. v * m = q * P + t
    BY <1>1
  <1> HIDE DEF t
  <1>3. t < P
    <2>1. (b - 1) * P = P * b - P
      OBVIOUS
    <2>2. t * b < P * b
      BY <2>1, <1>1
    <2> QED
      BY <2>2, <1>1, CancelMult
  <1>4. (q + 1) * P = q * P + P
    BY <1>1
  <1>5. v * m \in Int /\ q * P <= v * m /\ v * m < (q + 1) * P
    BY <1>1, <1>2, <1>3, <1>4
  <1>6. (v * m) \div P = q
    BY <1>1, <1>5, DivUnique
  <1> QED
    BY <1>6 DEF q

LEMMA MagicNegative ==
  ASSUME NEW P \in Nat \ {0}, NEW m \in Nat, NEW b \in Nat \ {0},
         NEW u \in Nat \ {0}, m * b - P > 0, u * (m * b - P) <= P
  PROVE  ((-u) * m) \div P + 1 = -(u \div b)
  <1> DEFINE q == u \div b
             t == u * m - q * P
  <1>1. /\ q \in Nat /\ t \in Nat /\ t > 0
        /\ t * b <= u * (m * b - P) + (b - 1) * P
    BY MagicProduct
  <1> HIDE DEF q
  <1>2. u * m = q * P + t
    BY <1>1
  <1> HIDE DEF t
  <1>3. t <= P
    <2>1. (b - 1) * P = P * b - P
      OBVIOUS
    <2>2. t * b < (P + 1) * b
      BY <2>1, <1>1
    <2>3. t < P + 1
      BY <2>2, <1>1, CancelMult
    <2> QED
      BY <2>3, <1>1
  <1> DEFINE x == (-u) * m
  <1>4. x \in Int /\ x = -(q * P) - t
    BY <1>1, <1>2
  <1> HIDE DEF x
  <1>5. (-q - 1) * P = -(q * P) - P /\ (-q - 1 + 1) * P = -(q * P)
    BY <1>1
  <1>6. (-q - 1) * P <= x /\ x < (-q - 1 + 1) * P
    BY <1>1, <1>3, <1>4, <1>5
  <1>7. x \div P = -q - 1
    BY <1>1, <1>4, <1>6, DivUnique
  <1>8. x \div P + 1 = -q
    BY <1>7, <1>1
  <1> QED
    BY <1>8 DEF x, q

----------------------------------------------------------------------------
\* The quotient that truncates, by a positive divisor.

LEMMA TruncatedDivision ==
  ASSUME NEW v \in Int, NEW b \in Nat \ {0}
  PROVE  /\ v >= 0 => Truncated(v, b) = v \div b
         /\ v < 0  => Truncated(v, b) = -((-v) \div b)
         /\ Truncated(v, b) \in Int
         /\ Truncated(v, -b) = -Truncated(v, b)
  <1>1. v \div b \in Int /\ (-v) \div b \in Int
    BY DivBounds
  <1>2. CASE v >= 0
    BY <1>1, <1>2 DEF Truncated
  <1>3. CASE v < 0
    BY <1>1, <1>3 DEF Truncated
  <1> QED
    BY <1>2, <1>3

\* It moves toward zero, and by a divisor above one never to an end of the
\* range: neither its negation nor the remainder wraps.
LEMMA TruncatedBounds ==
  ASSUME NEW v \in Word, NEW b \in Nat, b >= 2, Half \in Nat
  PROVE  LET q == Truncated(v, b)
         IN  /\ q \in Word
             /\ -q \in Word
             /\ q * b \in Word
             /\ v - q * b \in Word
  <1> DEFINE a == IF v < 0 THEN -v ELSE v
             q == a \div b
  <1>1. a \in Nat /\ a <= Half /\ (v >= 0 => a < Half) /\ v \in Int
    BY DEF Word
  <1>2. q \in Int /\ q * b <= a /\ a < (q + 1) * b
    BY <1>1, DivBounds
  <1>3. /\ v >= 0 => Truncated(v, b) = q
        /\ v < 0 => Truncated(v, b) = -q
    BY <1>1, TruncatedDivision
  <1> HIDE DEF q, a
  <1>4. q \in Nat
    <2>1. 0 * b < (q + 1) * b
      BY <1>1, <1>2
    <2> QED
      BY <2>1, <1>2, CancelMult
  <1>5. 2 * q <= q * b
    BY <1>4, MonoMult
  <1>6. 2 * q <= a /\ (a > 0 => q < Half) /\ (a = 0 => q = 0)
    BY <1>1, <1>2, <1>4, <1>5
  <1>7. CASE v >= 0
    <2>1. a = v
      BY <1>1, <1>7 DEF a
    <2> QED
      BY <2>1, <1>1, <1>2, <1>3, <1>4, <1>6, <1>7 DEF Word
  <1>8. CASE v < 0
    <2>1. a = -v
      BY <1>1, <1>8 DEF a
    <2>2. (-q) * b = -(q * b)
      BY <1>4
    <2> QED
      BY <2>1, <2>2, <1>1, <1>2, <1>3, <1>4, <1>6, <1>8 DEF Word
  <1> QED
    BY <1>1, <1>7, <1>8

----------------------------------------------------------------------------
\* The emitted code.

LEMMA DivDiv ==
  ASSUME NEW a \in Int, NEW b \in Nat \ {0}, NEW c \in Nat \ {0}
  PROVE  (a \div b) \div c = a \div (b * c)
  <1> DEFINE h == a \div b
             k == h \div c
  <1>1. h \in Int /\ h * b <= a /\ a < (h + 1) * b
    BY DivBounds
  <1> HIDE DEF h
  <1>2. k \in Int /\ k * c <= h /\ h < (k + 1) * c
    BY <1>1, DivBounds
  <1> HIDE DEF k
  <1>3. (k * c) * b <= h * b /\ (h + 1) * b <= ((k + 1) * c) * b
    BY <1>1, <1>2, MonoMult
  <1>4. (k * c) * b = k * (b * c) /\ ((k + 1) * c) * b = (k + 1) * (b * c)
    BY <1>2
  <1>5. b * c \in Nat \ {0}
    OBVIOUS
  <1>6. k * (b * c) <= a /\ a < (k + 1) * (b * c)
    BY <1>1, <1>2, <1>3, <1>4
  <1>7. a \div (b * c) = k
    BY <1>2, <1>5, <1>6, DivUnique
  <1> QED
    BY <1>7 DEF h, k

\* Half is not zero once there is a divisor.
LEMMA HalfPositive ==
  ASSUME dabs \in Nat, dabs >= 2, d \in -MaxDivisor..MaxDivisor
  PROVE  Half \in Nat /\ Half >= 4 /\ MaxDivisor \in Nat /\ 2 * dabs <= Half
  BY DivisionAssumption DEF DivisionAssumption, dabs

\* Reading the multiplier as signed costs v, which is added back.
LEMMA HighHalfExact ==
  ASSUME NEW v \in Word, Half \in Nat \ {0}, magic \in 1..(2 * Half - 1)
  PROVE  HighHalf(v) = (v * magic) \div (2 * Half)
  <1> DEFINE w == 2 * Half
             a == v * magic
             h == a \div w
  <1>1. v \in Int /\ w \in Nat \ {0} /\ a \in Int
    BY DEF Word
  <1>2. h \in Int /\ h * w <= a /\ a < (h + 1) * w
    BY <1>1, DivBounds
  <1>3. CASE magic < Half
    BY <1>3 DEF HighHalf
  <1>4. CASE magic >= Half
    <2> HIDE DEF h
    <2>1. v * (magic - w) = a - v * w
      BY <1>1
    <2> HIDE DEF a, w
    <2>2. /\ (h - v) * w = h * w - v * w
          /\ (h - v + 1) * w = (h + 1) * w - v * w
      BY <1>1, <1>2
    <2>3. (h - v) * w <= a - v * w /\ a - v * w < (h - v + 1) * w
      BY <1>1, <1>2, <2>2
    <2>4. (a - v * w) \div w = h - v
      <3>1. a - v * w \in Int /\ h - v \in Int
        BY <1>1, <1>2
      <3> QED
        BY <3>1, <1>1, <2>3, DivUnique
    <2>5. h \in Word
      <3>1. magic <= w /\ magic \in Nat
        BY DEF w
      <3>2. CASE v >= 0
        <4>1. 0 * magic <= v * magic /\ v * magic <= v * w
          BY <1>1, <3>1, <3>2
        <4>2. 0 * w < (h + 1) * w /\ h * w < (v + 1) * w
          BY <1>1, <1>2, <4>1 DEF a
        <4>3. 0 < h + 1 /\ h < v + 1
          BY <4>2, <1>1, <1>2, CancelMult
        <4> QED
          BY <4>3, <1>2, <3>2 DEF Word
      <3>3. CASE v < 0
        <4>1. v * magic < 0 /\ v * w <= v * magic
          BY <1>1, <3>1, <3>3
        <4>2. h * w < 0 * w /\ v * w < (h + 1) * w
          BY <1>1, <1>2, <4>1 DEF a
        <4>3. h < 0 /\ v < h + 1
          BY <4>2, <1>1, <1>2, CancelMult
        <4> QED
          BY <4>3, <1>2, <3>3 DEF Word
      <3> QED
        BY <1>1, <3>2, <3>3
    <2>6. h - v + v = h
      BY <1>1, <1>2
    <2>7. HighHalf(v) = Wrap(h)
      BY <1>4, <2>1, <2>4, <2>6 DEF HighHalf, w
    <2>8. HighHalf(v) = h
      BY <2>5, <2>7, WrapFits
    <2> QED
      BY <2>8 DEF h, a, w
  <1> QED
    BY <1>3, <1>4

\* What the search has found.
Found ==
  /\ magic \in 1..(2 * Half - 1)
  /\ magic * dabs - 2 * Half * power \in 1..(2 * power)

LEMMA MultiplyExact ==
  ASSUME NEW v \in Word, TypeOK, dabs \in Nat, dabs >= 2, Found
  PROVE  Wrap(HighHalf(v) \div power - Sign(v)) = Truncated(v, dabs)
  <1> DEFINE w == 2 * Half
             P == w * power
             e == magic * dabs - P
             q == Truncated(v, dabs)
  <1>1. Half \in Nat \ {0} /\ w \in Nat \ {0} /\ v \in Int
    BY HalfPositive DEF TypeOK, Word
  <1>2. power \in Nat \ {0} /\ magic \in Nat /\ magic # 0
    BY DEF TypeOK, Found
  <1>3. P \in Nat \ {0}
    BY <1>1, <1>2
  <1>4. e \in Nat /\ e > 0 /\ e <= 2 * power
    BY <1>2, <1>3 DEF Found
  <1>5. HighHalf(v) \div power = (v * magic) \div P
    <2>1. HighHalf(v) = (v * magic) \div w
      BY <1>1, HighHalfExact DEF Found
    <2> DEFINE a == v * magic
    <2>2. a \in Int
      BY <1>1, <1>2
    <2> HIDE DEF a, w
    <2>3. (a \div w) \div power = a \div (w * power)
      BY <2>2, <1>1, <1>2, DivDiv
    <2> QED
      BY <2>1, <2>3 DEF a
  <1>6. P = Half * (2 * power)
    BY <1>1, <1>2
  <1> HIDE DEF w
  <1>7. CASE v >= 0
    <2>1. v <= Half - 1 /\ v \in Nat
      BY <1>1, <1>7 DEF Word
    <2>2. v * e <= (Half - 1) * e
      BY <2>1, <1>1, <1>4, MonoMult
    <2>3. e * (Half - 1) <= (2 * power) * (Half - 1)
      BY <1>1, <1>2, <1>4, MonoMult
    <2>4. (2 * power) * (Half - 1) < P
      BY <1>1, <1>2, <1>6
    <2> HIDE DEF P
    <2>5. v * e < P
      <3> HIDE DEF e
      <3> QED
        BY <2>1, <2>2, <2>3, <2>4, <1>1, <1>2, <1>3, <1>4
    <2>6. (v * magic) \div P = v \div dabs
      BY <2>1, <2>5, <1>2, <1>3, <1>4, MagicNonnegative
    <2>7. (v * magic) \div P - Sign(v) = q
      <3>1. v \div dabs \in Int
        BY <2>1, DivBounds
      <3> QED
        BY <3>1, <2>6, <1>1, <1>7, TruncatedDivision DEF Sign
    <2> QED
      BY <2>7, <1>1, <1>5, TruncatedBounds, WrapFits
  <1>8. CASE v < 0
    <2> DEFINE u == -v
    <2>1. u <= Half /\ u \in Nat \ {0} /\ v = -u
      BY <1>1, <1>8 DEF Word
    <2> HIDE DEF u
    <2>2. u * e <= Half * e
      BY <2>1, <1>1, <1>4, MonoMult
    <2>3. e * Half <= (2 * power) * Half
      BY <1>1, <1>2, <1>4, MonoMult
    <2>4. u * e <= P
      <3> HIDE DEF e, P
      <3> QED
        BY <2>1, <2>2, <2>3, <1>1, <1>2, <1>3, <1>4, <1>6
    <2> HIDE DEF P
    <2>5. ((-u) * magic) \div P + 1 = -(u \div dabs)
      BY <2>1, <2>4, <1>2, <1>3, <1>4, MagicNegative
    <2>6. (v * magic) \div P - Sign(v) = q
      <3>1. q = -(u \div dabs)
        BY <2>1, <1>1, <1>8, TruncatedDivision DEF u
      <3>2. v * magic \in Int
        BY <1>1, <1>2
      <3>3. (v * magic) \div P \in Int
        BY <3>2, <1>3, DivBounds
      <3>4. Sign(v) = -1
        BY <1>8 DEF Sign
      <3>5. (v * magic) \div P + 1 = q
        BY <2>1, <2>5, <3>1
      <3> HIDE DEF q
      <3> QED
        BY <3>3, <3>4, <3>5
    <2> QED
      BY <2>6, <1>1, <1>5, TruncatedBounds, WrapFits
  <1> QED
    BY <1>1, <1>7, <1>8

LEMMA ShiftExact ==
  ASSUME NEW v \in Word, TypeOK, dabs \in Nat, dabs >= 2, power = dabs
  PROVE  Wrap(v + (IF Sign(v) = -1 THEN dabs - 1 ELSE 0)) \div power
           = Truncated(v, dabs)
  <1>1. Half \in Nat \ {0} /\ 2 * dabs <= Half /\ v \in Int
    BY HalfPositive DEF TypeOK, Word
  <1>2. CASE v >= 0
    <2>1. Wrap(v) = v
      BY <1>1, WrapFits
    <2>2. v + 0 = v /\ Sign(v) = 0
      BY <1>1, <1>2 DEF Sign
    <2> QED
      BY <2>1, <2>2, <1>1, <1>2, TruncatedDivision
  <1>3. CASE v < 0
    <2> DEFINE u == -v
               q == u \div dabs
    <2>1. u \in Nat /\ u > 0
      BY <1>1, <1>3
    <2>2. q \in Int /\ q * dabs <= u /\ u < (q + 1) * dabs
      BY <2>1, DivBounds
    <2> DEFINE x == v + (dabs - 1)
    <2>3. x \in Word /\ x \in Int /\ x = dabs - 1 - u
      BY <1>1, <1>3 DEF Word
    <2>4. Truncated(v, dabs) = -q
      BY <1>1, <1>3, TruncatedDivision
    <2> HIDE DEF u, q, x
    <2>5. /\ (q + 1) * dabs = q * dabs + dabs
          /\ (-q) * dabs = -(q * dabs)
          /\ (-q + 1) * dabs = dabs - q * dabs
      BY <2>2
    <2>6. (-q) * dabs <= x /\ x < (-q + 1) * dabs
      BY <2>1, <2>2, <2>3, <2>5
    <2>7. x \div dabs = -q
      BY <2>2, <2>3, <2>6, DivUnique
    <2>8. Wrap(x) = x /\ Sign(v) = -1
      BY <1>1, <1>3, <2>3, WrapFits DEF Sign
    <2> QED
      BY <2>4, <2>7, <2>8 DEF x
  <1> QED
    BY <1>1, <1>2, <1>3

----------------------------------------------------------------------------
\* The inductive invariant.

\* While a shift is counted it divides the divisor; while a multiplier is
\* sought the shift is too small.
SearchInv ==
  phase = "search" =>
    /\ magic = 0
    /\ IF IsPower(dabs) THEN \E c \in Nat : dabs = c * power ELSE power < dabs

\* The code that is emitted has one of its two forms.
FormInv ==
  phase \in {"emitted", "quotient", "done"} =>
    \/ magic = 0 /\ power = dabs
    \/ Found

\* Only the sign of the divisor is still to be seen to.
QuotientInv == phase = "quotient" => rax = Truncated(n, dabs)

IInv ==
  /\ TypeOK
  /\ dabs \in Nat /\ dabs >= 2
  /\ SearchInv
  /\ FormInv
  /\ QuotientInv
  /\ Exact
  /\ NeverFails

\* The next multiplier fits a register, and is too large by one to dabs.
LEMMA NextMultiplier ==
  ASSUME TypeOK, dabs \in Nat, dabs >= 2, power < dabs
  PROVE  /\ Multiplier \in 1..(2 * Half - 1)
         /\ Excess \in 1..dabs
  <1> DEFINE w == 2 * Half
             a == w * power
             f == a \div dabs
  <1>1. /\ w \in Nat \ {0} /\ 2 * dabs <= w /\ power \in Nat /\ power >= 1
        /\ a \in Nat
    BY HalfPositive DEF TypeOK
  <1>2. f \in Int /\ f * dabs <= a /\ a < (f + 1) * dabs
    BY <1>1, DivBounds
  <1>3. f >= 0
    <2>1. 0 * dabs < (f + 1) * dabs
      BY <1>1, <1>2
    <2> HIDE DEF f
    <2> QED
      BY <2>1, <1>2, CancelMult
  <1>4. Multiplier = f + 1 /\ Excess = (f + 1) * dabs - a
    BY DEF Multiplier, Excess
  <1>5. a <= (dabs - 1) * w
    <2>1. power * w <= (dabs - 1) * w
      BY <1>1, MonoMult
    <2>2. a = power * w
      BY <1>1
    <2> QED
      BY <2>1, <2>2
  <1> HIDE DEF w, a, f
  <1>6. (dabs - 1) * w = dabs * w - w /\ (w - 1) * dabs = dabs * w - dabs
    BY <1>1
  <1>7. f * dabs < (w - 1) * dabs
    BY <1>1, <1>2, <1>5, <1>6
  <1>8. f < w - 1
    BY <1>1, <1>2, <1>7, CancelMult
  <1>9. (f + 1) * dabs = f * dabs + dabs
    BY <1>2
  <1> QED
    BY <1>1, <1>2, <1>3, <1>4, <1>8, <1>9 DEF w

LEMMA InitHolds == Init => IInv
  <1> SUFFICES ASSUME Init PROVE IInv
    OBVIOUS
  <1>1. d \in Int /\ (d < -1 \/ d > 1) /\ d \in -MaxDivisor..MaxDivisor
    BY DivisionAssumption DEF Init, DivisionAssumption
  <1>2. dabs \in Nat /\ dabs >= 2
    BY <1>1 DEF dabs
  <1>3. Half \in Nat /\ Half >= 4
    BY <1>1, <1>2, HalfPositive
  <1>4. TypeOK
    BY <1>1, <1>2, <1>3 DEF Init, TypeOK, Word
  <1>5. SearchInv
    <2>1. dabs = dabs * power /\ power < dabs /\ magic = 0
      BY <1>2 DEF Init
    <2> QED
      BY <1>2, <2>1 DEF SearchInv
  <1> QED
    BY <1>2, <1>4, <1>5 DEF Init, IInv, FormInv, QuotientInv, Exact, NeverFails

\* The shift that is counted, a power dividing a power, ends at the divisor.
LEMMA CountShiftKeeps == IInv /\ CountShift => IInv'
  <1> SUFFICES ASSUME IInv, CountShift PROVE IInv'
    OBVIOUS
  <1> USE DEF CountShift
  <1>1. TypeOK /\ dabs \in Nat /\ dabs >= 2 /\ power \in Nat \ {0} /\ magic = 0
    BY DEF IInv, TypeOK, SearchInv
  <1>2. dabs' = dabs /\ IsPower(dabs)' = IsPower(dabs)
    BY DEF dabs, IsPower
  <1>3. PICK c \in Nat : dabs = c * power
    BY DEF IInv, SearchInv
  <1>4. c # 0
    BY <1>1, <1>3
  <1>5. CASE power < dabs
    <2>1. c >= 2
      BY <1>1, <1>3, <1>4, <1>5
    <2>2. c <= dabs
      <3>1. 1 * c <= power * c
        BY <1>1, MonoMult
      <3> QED
        BY <3>1, <1>1, <1>3
    <2>3. dabs % c = 0
      BY <1>1, <1>3, <1>4, NoRemainder
    <2>4. c % 2 = 0
      BY <2>1, <2>2, <2>3, <1>1 DEF IsPower
    <2>5. PICK k \in Nat : c = 2 * k
      <3>1. c = 2 * (c \div 2) + (c % 2) /\ c \div 2 \in Nat
        OBVIOUS
      <3> QED
        BY <2>4, <3>1
    <2>6. dabs = k * (2 * power) /\ k >= 1
      BY <2>1, <2>5, <1>1, <1>3
    <2>7. 2 * power <= dabs
      <3>1. 1 * (2 * power) <= k * (2 * power)
        BY <2>6, <1>1, MonoMult
      <3> QED
        BY <3>1, <2>6, <1>1
    <2>8. power' = 2 * power /\ phase' = "search"
      BY <1>5
    <2>9. TypeOK'
      BY <1>1, <1>2, <2>7, <2>8 DEF TypeOK
    <2>10. SearchInv'
      BY <1>1, <1>2, <2>6, <2>8 DEF SearchInv
    <2> QED
      BY <1>1, <1>2, <2>8, <2>9, <2>10
      DEF IInv, FormInv, QuotientInv, Exact, NeverFails
  <1>6. CASE ~(power < dabs)
    <2>1. power = dabs
      BY <1>1, <1>6 DEF TypeOK
    <2>2. TypeOK'
      BY <1>1, <1>2, <1>6 DEF TypeOK
    <2> QED
      BY <1>1, <1>2, <1>6, <2>1, <2>2
      DEF IInv, SearchInv, FormInv, QuotientInv, Exact, NeverFails
  <1> QED
    BY <1>5, <1>6

\* A multiplier that is refused is too large by more than twice the power,
\* and by no more than the divisor: so twice the power is still too small.
LEMMA FindMagicKeeps == IInv /\ FindMagic => IInv'
  <1> SUFFICES ASSUME IInv, FindMagic PROVE IInv'
    OBVIOUS
  <1> USE DEF FindMagic
  <1>1. /\ TypeOK /\ dabs \in Nat /\ dabs >= 2 /\ power \in Nat \ {0}
        /\ power < dabs /\ ~IsPower(dabs) /\ magic = 0
    BY DEF IInv, TypeOK, SearchInv
  <1>2. dabs' = dabs /\ IsPower(dabs)' = IsPower(dabs)
    BY DEF dabs, IsPower
  <1>3. Multiplier \in 1..(2 * Half - 1) /\ Excess \in 1..dabs
    BY <1>1, NextMultiplier
  <1>4. Half \in Nat /\ 2 * dabs <= Half
    BY <1>1, HalfPositive DEF TypeOK
  <1>5. CASE GoodMultiplier
    <2>1. magic' = Multiplier /\ power' = power /\ phase' = "emitted"
      BY <1>5
    <2>2. Found'
      BY <1>1, <1>2, <1>3, <1>5, <2>1 DEF Found, GoodMultiplier, Excess
    <2>3. TypeOK'
      BY <1>1, <1>2, <1>3, <1>4, <2>1 DEF TypeOK
    <2> QED
      BY <1>1, <1>2, <2>1, <2>2, <2>3
      DEF IInv, SearchInv, FormInv, QuotientInv, Exact, NeverFails
  <1>6. CASE ~GoodMultiplier
    <2>1. 2 * power < dabs
      BY <1>1, <1>3, <1>4, <1>6 DEF GoodMultiplier
    <2>2. ~LastShift
      BY <1>1, <1>4, <2>1 DEF LastShift
    <2>3. power' = 2 * power /\ magic' = 0 /\ phase' = "search"
      BY <1>1, <1>6, <2>2
    <2>4. TypeOK'
      BY <1>1, <1>2, <2>1, <2>3 DEF TypeOK
    <2>5. SearchInv'
      BY <1>1, <1>2, <2>1, <2>3 DEF SearchInv
    <2> QED
      BY <1>1, <1>2, <2>3, <2>4, <2>5
      DEF IInv, FormInv, QuotientInv, Exact, NeverFails
  <1> QED
    BY <1>5, <1>6

LEMMA DivideKeeps ==
  ASSUME NEW v \in Word, IInv, ShiftDividend(v) \/ MultiplyDividend(v)
  PROVE  IInv'
  <1>1. TypeOK /\ dabs \in Nat /\ dabs >= 2 /\ phase = "emitted"
    BY DEF IInv, ShiftDividend, MultiplyDividend, Enter
  <1>2. /\ d' = d /\ power' = power /\ magic' = magic /\ n' = v
        /\ want_rem' = want_rem /\ phase' = "quotient"
    BY DEF ShiftDividend, MultiplyDividend, Enter
  <1>3. dabs' = dabs
    BY <1>2 DEF dabs
  <1>4. rax' = Truncated(v, dabs)
    <2>1. CASE ShiftDividend(v)
      <3>1. power = dabs
        BY <1>1, <2>1 DEF IInv, FormInv, Found, ShiftDividend
      <3> QED
        BY <1>1, <2>1, <3>1, ShiftExact DEF ShiftDividend
    <2>2. CASE MultiplyDividend(v)
      <3>1. Found
        BY <1>1, <2>2 DEF IInv, FormInv, MultiplyDividend
      <3> QED
        BY <1>1, <2>2, <3>1, MultiplyExact DEF MultiplyDividend
    <2> QED
      BY <2>1, <2>2
  <1>5. rax' \in Word
    <2>1. Half \in Nat
      BY <1>1, HalfPositive DEF TypeOK
    <2> QED
      BY <1>1, <1>4, <2>1, TruncatedBounds
  <1>6. TypeOK'
    BY <1>1, <1>2, <1>3, <1>5 DEF TypeOK, Word
  <1>7. FormInv'
    BY <1>1, <1>2, <1>3 DEF IInv, FormInv, Found
  <1>8. QuotientInv'
    BY <1>2, <1>3, <1>4 DEF QuotientInv, Truncated
  <1> QED
    BY <1>1, <1>2, <1>3, <1>6, <1>7, <1>8
    DEF IInv, SearchInv, Exact, NeverFails

LEMMA FinishKeeps == IInv /\ Finish => IInv'
  <1> SUFFICES ASSUME IInv, Finish PROVE IInv'
    OBVIOUS
  <1>1. /\ TypeOK /\ dabs \in Nat /\ dabs >= 2 /\ phase = "quotient"
        /\ rax = Truncated(n, dabs) /\ n \in Word
    BY DEF IInv, Finish, QuotientInv, TypeOK
  <1>2. /\ d' = d /\ power' = power /\ magic' = magic /\ n' = n
        /\ want_rem' = want_rem /\ phase' = "done"
    BY DEF Finish
  <1>3. dabs' = dabs
    BY <1>2 DEF dabs
  <1>4. Half \in Nat /\ d \in Int /\ n \in Int
    BY <1>1, HalfPositive DEF TypeOK, Word, DivisionAssumption
  <1> DEFINE t == Truncated(n, dabs)
             q == IF d < 0 THEN Wrap(-rax) ELSE rax
  <1>5. /\ t \in Int /\ t \in Word /\ -t \in Word
        /\ t * dabs \in Word /\ n - t * dabs \in Word
    <2>1. t \in Int
      BY <1>1, <1>4, TruncatedDivision
    <2>2. t \in Word /\ -t \in Word /\ t * dabs \in Word /\ n - t * dabs \in Word
      BY <1>1, <1>4, TruncatedBounds
    <2> QED
      BY <2>1, <2>2
  <1>6. q \in Word /\ q = Truncated(n, d) /\ q * d = t * dabs
    <2>1. CASE d < 0
      <3>1. q = -t
        BY <2>1, <1>1, <1>4, <1>5, WrapFits
      <3>2. Truncated(n, -dabs) = -t
        BY <1>1, <1>4, TruncatedDivision
      <3>3. d = -dabs
        BY <2>1, <1>4 DEF dabs
      <3> HIDE DEF t, q
      <3>4. (-t) * (-dabs) = t * dabs
        BY <1>1, <1>5
      <3> QED
        BY <3>1, <3>2, <3>3, <3>4, <1>5
    <2>2. CASE d >= 0
      <3>1. d = dabs
        BY <2>2, <1>4 DEF dabs
      <3> QED
        BY <2>2, <3>1, <1>1, <1>4, <1>5
    <2> QED
      BY <2>1, <2>2, <1>4
  <1> HIDE DEF q, t
  <1>7. rax' = IF want_rem THEN n - q * d ELSE q
    <2>1. rax' = IF want_rem THEN Wrap(n - Wrap(q * d)) ELSE q
      BY DEF Finish, q
    <2>2. Wrap(q * d) = q * d
      BY <1>4, <1>5, <1>6, WrapFits
    <2>3. Wrap(n - q * d) = n - q * d
      BY <1>4, <1>5, <1>6, WrapFits
    <2> QED
      BY <2>1, <2>2, <2>3
  <1>8. TypeOK'
    BY <1>1, <1>2, <1>3, <1>5, <1>6, <1>7 DEF TypeOK, Word
  <1>9. FormInv'
    BY <1>1, <1>2, <1>3 DEF IInv, FormInv, Found
  <1>10. Exact'
    BY <1>2, <1>6, <1>7 DEF Exact, Truncated
  <1> QED
    BY <1>1, <1>2, <1>3, <1>8, <1>9, <1>10
    DEF IInv, SearchInv, QuotientInv, NeverFails

\* IInv is an inductive invariant: the search keeps what makes the form it
\* ends with right, and the emitted code turns that into the quotient.
THEOREM Invariance == Spec => []IInv
  <1>1. IInv /\ UNCHANGED vars => IInv'
    BY DEF IInv, vars, TypeOK, SearchInv, FormInv, QuotientInv, Exact,
           NeverFails, Found, Truncated, dabs, IsPower, Word
  <1>2. IInv /\ [Next]_vars => IInv'
    BY <1>1, CountShiftKeeps, FindMagicKeeps, DivideKeeps, FinishKeeps DEF Next
  <1> QED
    BY <1>2, InitHolds, PTL DEF Spec

\* What is in a register fits it, and the shift is shorter than the divisor,
\* at every step of the search and of the code.
THEOREM TypeCorrect == Spec => []TypeOK
  BY Invariance, PTL DEF IInv

\* Division and remainder by a literal are those of the language, for every
\* register width, divisor in range and dividend.
THEOREM ExactDivision == Spec => []Exact
  BY Invariance, PTL DEF IInv

\* The search for a multiplier always ends with one.
THEOREM SearchSucceeds == Spec => []NeverFails
  BY Invariance, PTL DEF IInv
=============================================================================
