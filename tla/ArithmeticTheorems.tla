------------------------- MODULE ArithmeticTheorems -------------------------
(***************************************************************************)
(* The arithmetic the proofs rest on.                                      *)
(*                                                                         *)
(* Rounded quotients of LegacyDec, as far as staking, rewards and fees     *)
(* rely on them: while a validator has no more tokens than shares (counted *)
(* in units), a token buys at least one unit of shares, and unbonding      *)
(* takes out tokens in such a way that this stays so, however the          *)
(* quotients are rounded.                                                  *)
(*                                                                         *)
(* SumFunctionOnSet on a finite set.  The sum is defined as a fold; the    *)
(* lemmas say what the proofs need of it: taking one element out, agreeing *)
(* functions, bounds, the change of one value.  Induction on a finite set  *)
(* is done by minimal counterexample: among the subsets for which a        *)
(* statement fails, one has no smaller failing subset (MinimalSubset).     *)
(***************************************************************************)
EXTENDS Dec, Functions, FiniteSetsExt, FiniteSetTheorems, WellFoundedInduction, TLAPS
-----------------------------------------------------------------------------
(* Rounded quotients. *)

\* Multiplication of natural numbers is monotone.
LEMMA MulMono ==
    ASSUME NEW a \in Nat, NEW b \in Nat, NEW c \in Nat, a <= b
    PROVE  a * c <= b * c /\ c * a <= c * b /\ a * c \in Nat
<1>1. PICK k \in Nat : b = a + k
  <2>1. b - a \in Nat /\ b = a + (b - a)
    OBVIOUS
  <2> QED BY <2>1
<1>2. b * c = a * c + k * c /\ k * c >= 0 /\ a * c \in Int /\ k * c \in Int /\ a * c >= 0
  BY <1>1
<1> QED BY <1>2

\* The quotient of a division is the largest whose product does not exceed the dividend.
LEMMA DivBounds ==
    ASSUME NEW a \in Nat, NEW b \in Nat \ {0}
    PROVE  /\ a \div b \in Nat
           /\ b * (a \div b) <= a
           /\ a < b * ((a \div b) + 1)
           /\ a = b * (a \div b) + (a % b)
           /\ a % b \in 0 .. b - 1
<1> DEFINE q == a \div b
           m == a % b
<1>1. q \in Int /\ m \in Int
  OBVIOUS
<1>2. a = b * q + m
  OBVIOUS
<1>3. 0 <= m /\ m < b
  OBVIOUS
<1> HIDE DEF q, m
<1>4. b * q \in Int /\ b * (q + 1) = b * q + b
  BY <1>1
<1>5. q >= 0
  <2>1. SUFFICES ASSUME q <= -1 PROVE FALSE
    BY <1>1
  <2>2. b * q <= -b
    BY <1>1, <2>1
  <2> QED BY <1>1, <1>2, <1>3, <1>4, <2>2
<1>6. /\ q \in Nat
      /\ b * q <= a
      /\ a < b * (q + 1)
      /\ m \in 0 .. b - 1
  BY <1>1, <1>2, <1>3, <1>4, <1>5
<1> QED BY <1>2, <1>6 DEF q, m

\* A product below the dividend bounds the quotient from below,
LEMMA DivLower ==
    ASSUME NEW a \in Nat, NEW b \in Nat \ {0}, NEW c \in Nat, b * c <= a
    PROVE  c <= a \div b
<1> DEFINE q == a \div b
<1>1. q \in Nat /\ a < b * (q + 1)
  BY DivBounds
<1> HIDE DEF q
<1>2. SUFFICES ASSUME q < c PROVE FALSE
  BY <1>1 DEF q
<1>3. q + 1 <= c
  BY <1>1, <1>2
<1>4. b * (q + 1) <= b * c
  BY <1>1, <1>3, MulMono
<1>5. b * (q + 1) \in Int /\ b * c \in Int
  BY <1>1
<1> QED BY <1>1, <1>4, <1>5

\* and one above it bounds the quotient from above.
LEMMA DivUpper ==
    ASSUME NEW a \in Nat, NEW b \in Nat \ {0}, NEW c \in Nat, a <= b * c
    PROVE  a \div b <= c
<1> DEFINE q == a \div b
<1>1. q \in Nat /\ b * q <= a
  BY DivBounds
<1> HIDE DEF q
<1>2. SUFFICES ASSUME c < q PROVE FALSE
  BY <1>1 DEF q
<1>3. c + 1 <= q
  BY <1>1, <1>2
<1>4. b * (c + 1) <= b * q
  BY <1>1, <1>3, MulMono
<1>5. b * (c + 1) = b * c + b
  OBVIOUS
<1>6. b * q \in Int /\ b * c \in Int
  BY <1>1
<1> QED BY <1>1, <1>4, <1>5, <1>6

\* Rounding half to even never crosses a whole number of units: it keeps the bounds x has.
LEMMA ChopBounds ==
    ASSUME NEW x \in Nat, NEW c \in Nat
    PROVE  /\ ChopPrecisionAndRound(x) \in Nat
           /\ x <= Precision * c => ChopPrecisionAndRound(x) <= c
           /\ Precision * c <= x => c <= ChopPrecisionAndRound(x)
<1> DEFINE q == x \div Precision
           r == x % Precision
<1>1. q \in Nat /\ r \in Nat /\ x = Precision * q + r
  BY DivBounds, PrecisionAssumption
<1>2. ChopPrecisionAndRound(x) \in {q, q + 1}
  BY DEF ChopPrecisionAndRound
<1>3. ChopPrecisionAndRound(x) = q + 1 => r > 0
  BY PrecisionAssumption, <1>1 DEF ChopPrecisionAndRound
<1>4. ASSUME x <= Precision * c PROVE ChopPrecisionAndRound(x) <= c
  <2>1. q <= c
    BY <1>4, DivUpper, PrecisionAssumption
  <2>2. CASE q = c
    <3>1. r = 0
      <4> HIDE DEF q, r
      <4>1. Precision * q \in Int
        BY <1>1, PrecisionAssumption
      <4> QED BY <4>1, <2>2, <1>4, <1>1, PrecisionAssumption
    <3> HIDE DEF q, r
    <3> QED BY <3>1, <2>2, <1>2, <1>3, <1>1
  <2>3. CASE q < c
    <3> HIDE DEF q, r
    <3> QED BY <2>3, <1>2, <1>1
  <2> HIDE DEF q, r
  <2> QED BY <1>1, <2>1, <2>2, <2>3
<1>5. ASSUME Precision * c <= x PROVE c <= ChopPrecisionAndRound(x)
  <2>1. c <= q
    BY <1>5, DivLower, PrecisionAssumption
  <2> HIDE DEF q, r
  <2> QED BY <1>1, <1>2, <2>1
<1> HIDE DEF q, r
<1> QED BY <1>1, <1>2, <1>4, <1>5

\* The greater of two numbers.
LEMMA MaxOfTwo ==
    ASSUME NEW a \in Int, NEW b \in Int
    PROVE  Max({a, b}) \in Int /\ Max({a, b}) = IF a >= b THEN a ELSE b
<1> DEFINE m == IF a >= b THEN a ELSE b
<1>1. m \in {a, b} /\ \A y \in {a, b} : m >= y
  OBVIOUS
<1>2. \A x \in {a, b} : (\A y \in {a, b} : x >= y) => x = m
  OBVIOUS
<1> QED BY <1>1, <1>2 DEF Max

\* The smaller of two numbers.
LEMMA MinOfTwo ==
    ASSUME NEW a \in Int, NEW b \in Int
    PROVE  Min({a, b}) \in Int /\ Min({a, b}) = IF a <= b THEN a ELSE b
<1> DEFINE m == IF a <= b THEN a ELSE b
<1>1. m \in {a, b} /\ \A y \in {a, b} : m <= y
  OBVIOUS
<1>2. \A x \in {a, b} : (\A y \in {a, b} : x <= y) => x = m
  OBVIOUS
<1> QED BY <1>1, <1>2 DEF Min

\* Rounding keeps the sign.
LEMMA ChopSign ==
    ASSUME NEW x \in Int
    PROVE  /\ ChopPrecisionAndRound(x) \in Int
           /\ x >= 0 => ChopPrecisionAndRound(x) >= 0
           /\ x <= 0 => ChopPrecisionAndRound(x) <= 0
<1> DEFINE P == Precision
           q == x \div P
           r == x % P
<1>0. P \in Nat \ {0}
  BY PrecisionAssumption
<1>1. q \in Int /\ r \in 0 .. P - 1 /\ x = P * q + r
  BY <1>0
<1>2. ChopPrecisionAndRound(x) \in {q, q + 1}
  BY DEF ChopPrecisionAndRound
<1>3. x >= 0 => ChopPrecisionAndRound(x) >= 0
  <2> SUFFICES ASSUME x >= 0 PROVE ChopPrecisionAndRound(x) >= 0
    OBVIOUS
  <2>1. x \in Nat /\ 0 \in Nat
    OBVIOUS
  <2> QED BY <2>1, ChopBounds
<1> HIDE DEF P, q, r
<1>4. x < 0 => q + 1 <= 0
  <2> SUFFICES ASSUME x < 0, q >= 0 PROVE FALSE
    BY <1>1
  <2>1. P * 0 <= P * q
    BY <1>0, <1>1, MulMono
  <2>2. P * q \in Int /\ P * 0 = 0
    BY <1>0, <1>1
  <2> QED BY <2>1, <2>2, <1>1
<1>5. x = 0 => ChopPrecisionAndRound(x) <= 0
  <2> SUFFICES ASSUME x = 0 PROVE ChopPrecisionAndRound(x) <= 0
    OBVIOUS
  <2>1. x \in Nat /\ 0 \in Nat /\ x <= Precision * 0
    BY PrecisionAssumption
  <2> QED BY <2>1, ChopBounds
<1> QED BY <1>1, <1>2, <1>3, <1>4, <1>5

\* A positive factor cancels.
LEMMA Cancel ==
    ASSUME NEW a \in Int, NEW b \in Int, NEW c \in Nat \ {0}, a * c <= b * c
    PROVE  a <= b
<1>1. SUFFICES ASSUME a > b PROVE FALSE
  OBVIOUS
<1>2. PICK k \in Nat \ {0} : a = b + k
  <2>1. a - b \in Nat \ {0} /\ a = b + (a - b)
    BY <1>1
  <2> QED BY <2>1
<1>3. a * c = b * c + k * c /\ k * c \in Nat \ {0} /\ b * c \in Int
  BY <1>2
<1> QED BY <1>3

\* Rounding to a unit moves by half a unit at most.
LEMMA ChopRounds ==
    ASSUME NEW x \in Nat
    PROVE  LET c == ChopPrecisionAndRound(x)
           IN  2 * x <= Precision * (2 * c + 1) /\ Precision * (2 * c - 1) <= 2 * x
<1> DEFINE P == Precision
           q == x \div P
           r == x % P
           c == ChopPrecisionAndRound(x)
<1>0. P \in Nat \ {0}
  BY PrecisionAssumption
<1>1. q \in Nat /\ r \in 0 .. P - 1 /\ x = P * q + r
  BY <1>0, DivBounds
<1>2. \/ c = q /\ 2 * r <= P
      \/ c = q + 1 /\ 2 * r >= P
  BY <1>0, <1>1 DEF ChopPrecisionAndRound
<1> HIDE DEF q, r, c, P
<1>3. P * q \in Nat
  BY <1>0, <1>1
<1>4. CASE c = q /\ 2 * r <= P
  <2>1. P * (2 * c + 1) = 2 * (P * q) + P /\ P * (2 * c - 1) = 2 * (P * q) - P
    BY <1>0, <1>1, <1>4
  <2> QED BY <2>1, <1>0, <1>1, <1>3, <1>4 DEF c, P
<1>5. CASE c = q + 1 /\ 2 * r >= P
  <2>1. P * (2 * c + 1) = 2 * (P * q) + 3 * P /\ P * (2 * c - 1) = 2 * (P * q) + P
    BY <1>0, <1>1, <1>5
  <2> QED BY <2>1, <1>0, <1>1, <1>3, <1>5 DEF c, P
<1> QED BY <1>2, <1>4, <1>5

\* Quo rounds to a unit what it has divided to 1/Precision of a unit.
LEMMA QuoRounds ==
    ASSUME NEW a \in Nat, NEW b \in Nat \ {0}, NEW x \in Nat
    PROVE  /\ Quo(a, b) \in Nat
           /\ Quo(a, b) <= x => 2 * (a * Precision * Precision) < b * (Precision * (2 * x + 1) + 2)
           /\ Quo(a, b) >= x => b * (Precision * (2 * x - 1)) <= 2 * (a * Precision * Precision)
           /\ b * (Precision * x) <= a * Precision * Precision => x <= Quo(a, b)
<1> DEFINE P == Precision
           n == a * P * P
           y == n \div b
           c == ChopPrecisionAndRound(y)
<1>0. P \in Nat \ {0}
  BY PrecisionAssumption
<1>1. n \in Nat
  BY <1>0
<1>2. Quo(a, b) = c
  BY DEF Quo
<1> HIDE DEF n
<1>3. y \in Nat /\ b * y <= n /\ n < b * (y + 1)
  BY <1>1, DivBounds
<1>4. ASSUME b * (P * x) <= n PROVE P * x <= y
  <2>1. P * x \in Nat
    BY <1>0
  <2> QED BY <2>1, <1>1, <1>4, DivLower
<1> HIDE DEF y, P
<1>5. c \in Nat /\ 2 * y <= P * (2 * c + 1) /\ P * (2 * c - 1) <= 2 * y /\ (P * x <= y => x <= c)
  BY <1>3, ChopRounds, ChopBounds DEF P
<1> HIDE DEF c
<1>6. ASSUME c <= x PROVE 2 * n < b * (P * (2 * x + 1) + 2)
  <2> DEFINE k == P * (2 * x + 1)
  <2>1. P * (2 * c + 1) <= k /\ k \in Nat
    BY <1>0, <1>5, <1>6, MulMono
  <2>2. 2 * y + 2 <= k + 2 /\ k + 2 \in Nat /\ 2 * y + 2 \in Nat
    BY <2>1, <1>0, <1>3, <1>5
  <2> HIDE DEF k
  <2>3. b * (2 * y + 2) <= b * (k + 2)
    BY <2>2, MulMono
  <2>4. b * (2 * y + 2) = 2 * (b * (y + 1))
    BY <1>3
  <2>5. b * (y + 1) \in Nat /\ b * (k + 2) \in Nat
    BY <1>3, <2>2
  <2> QED BY <2>3, <2>4, <2>5, <1>1, <1>3 DEF k
<1>7. ASSUME c >= x PROVE b * (P * (2 * x - 1)) <= 2 * n
  <2> DEFINE k == P * (2 * x - 1)
  <2>1. k <= 2 * y /\ k \in Int
    <3>1. PICK d \in Nat : c = x + d
      <4>1. c - x \in Nat /\ c = x + (c - x)
        BY <1>5, <1>7
      <4> QED BY <4>1
    <3>2. P * (2 * c - 1) = k + 2 * (P * d) /\ P * d \in Nat /\ k \in Int
      BY <3>1, <1>0
    <3> HIDE DEF k
    <3> QED BY <3>2, <1>3, <1>5
  <2> HIDE DEF k
  <2>2. PICK d \in Nat : 2 * y = k + d
    <3>1. 2 * y - k \in Nat /\ 2 * y = k + (2 * y - k)
      BY <2>1, <1>3
    <3> QED BY <3>1
  <2>3. b * (2 * y) = b * k + b * d /\ b * d \in Nat /\ b * k \in Int /\ b * (2 * y) = 2 * (b * y)
    BY <2>1, <2>2, <1>3
  <2>4. b * y \in Nat
    BY <1>3
  <2> QED BY <2>3, <2>4, <1>1, <1>3 DEF k
<1> QED BY <1>2, <1>4, <1>5, <1>6, <1>7 DEF n, P

\* SharesFromTokens: with T <= S, amt tokens buy at least amt units of shares.
LEMMA SharesBought ==
    ASSUME NEW S \in Nat, NEW T \in Nat \ {0}, NEW amt \in Nat, T <= S
    PROVE  /\ QuoInt(MulInt(S, amt), T) \in Nat
           /\ amt <= QuoInt(MulInt(S, amt), T)
<1>1. S * amt \in Nat /\ T * amt <= S * amt
  BY MulMono
<1> QED BY <1>1, DivBounds, DivLower DEF QuoInt, MulInt

\* RemoveDelShares: with T <= S, the tokens x that leave with sh of the S shares are at
\* most T, and what remains still has no more tokens than shares.
LEMMA TokensLeave ==
    ASSUME NEW S \in Nat \ {0}, NEW T \in Nat, NEW sh \in Nat, sh <= S, T <= S
    PROVE  LET x == TruncateInt(Quo(MulInt(sh, T), S))
           IN  x \in Nat /\ x <= T /\ T - x <= S - sh
<1> DEFINE P == Precision
           w == sh * T
           q == w \div S
           y == (w * P * P) \div S
           z == ChopPrecisionAndRound(y)
           x == z \div P
<1>0. P \in Nat \ {0}
  BY PrecisionAssumption
<1>1. w \in Nat /\ w <= S * T
  BY MulMono
<1>2. q \in Nat /\ S * q <= w /\ w < S * (q + 1)
  <2> HIDE DEF w
  <2> QED BY <1>1, DivBounds
<1> HIDE DEF P, w, q
<1>3. w * P * P \in Nat
  BY <1>0, <1>1
<1>4. w * P * P <= S * (T * P * P)
  <2>1. w * (P * P) <= (S * T) * (P * P)
    BY <1>0, <1>1, MulMono
  <2> QED BY <2>1, <1>0, <1>1
<1>5. S * (q * P * P) <= w * P * P
  <2>1. (S * q) * (P * P) <= w * (P * P)
    BY <1>0, <1>1, <1>2, MulMono
  <2> QED BY <2>1, <1>0, <1>1, <1>2
<1>6. y \in Nat /\ y <= T * P * P /\ q * P * P <= y
  <2>1. T * P * P \in Nat /\ q * P * P \in Nat
    BY <1>0, <1>2
  <2> QED BY <1>3, <1>4, <1>5, <2>1, DivBounds, DivLower, DivUpper
<1> HIDE DEF y
<1>7. z \in Nat /\ z <= T * P /\ q * P <= z
  <2>1. T * P \in Nat /\ q * P \in Nat
    BY <1>0, <1>2
  <2>2. T * P * P = P * (T * P) /\ q * P * P = P * (q * P)
    BY <1>0, <1>2
  <2> QED BY <1>6, <2>1, <2>2, ChopBounds DEF P
<1> HIDE DEF z
<1>8. x \in Nat /\ x <= T /\ q <= x
  <2>1. T * P = P * T /\ q * P = P * q
    BY <1>0, <1>2
  <2> QED BY <1>0, <1>2, <1>7, <2>1, DivBounds, DivLower, DivUpper
<1> HIDE DEF x
<1>9. T - q <= S - sh
  <2>1. SUFFICES ASSUME q + 1 <= T - S + sh PROVE FALSE
    BY <1>2
  <2>2. T - S + sh \in Nat
    BY <1>2, <2>1
  <2>3. S * (q + 1) <= S * (T - S + sh)
    BY <1>2, <2>1, <2>2, MulMono
  <2>4. PICK a \in Nat, b \in Nat : S = sh + a /\ S = T + b
    <3>1. S - sh \in Nat /\ S - T \in Nat /\ S = sh + (S - sh) /\ S = T + (S - T)
      OBVIOUS
    <3> QED BY <3>1
  <2>5. S * (T - S + sh) = sh * T - a * b
    BY <2>4
  <2>6. a * b >= 0 /\ a * b \in Int /\ sh * T \in Int
    BY <2>4
  <2>7. S * (q + 1) \in Int /\ S * (T - S + sh) \in Int
    BY <1>2, <2>2
  <2> QED BY <1>2, <2>3, <2>5, <2>6, <2>7 DEF w
<1>10. TruncateInt(Quo(MulInt(sh, T), S)) = x
  BY DEF TruncateInt, Quo, MulInt, x, z, y, w, P
<1> QED BY <1>2, <1>8, <1>9, <1>10
-----------------------------------------------------------------------------
(* Sums over finite sets. *)

\* g gives every subset of A the sum of f over it.
IsSum(g, f, A) ==
    /\ g \in [SUBSET A -> Int]
    /\ g[{}] = 0
    /\ \A T \in SUBSET A : \A x \in T : g[T] = f[x] + g[T \ {x}]

\* A non-empty collection of subsets of a finite set has a member none of whose
\* subsets with one element less is in it: the induction principle of this module.
LEMMA MinimalSubset ==
    ASSUME NEW A, IsFiniteSet(A), NEW Bad \in SUBSET (SUBSET A), Bad # {}
    PROVE  \E S \in Bad : \A x \in S : S \ {x} \notin Bad
<1>1. FiniteSubsetsOf(A) = SUBSET A
  BY FS_FiniteSubsetsOfFinite
<1>2. IsWellFoundedOn(StrictSubsetOrdering(A), SUBSET A)
  BY <1>1, FS_StrictSubsetOrderingWellFounded
<1>3. PICK S \in Bad : \A T \in Bad : ~ (<<T, S>> \in StrictSubsetOrdering(A))
  BY <1>2, WFMin
<1>4. ASSUME NEW x \in S, S \ {x} \in Bad PROVE FALSE
  BY <1>3, <1>4 DEF StrictSubsetOrdering
<1> QED BY <1>3, <1>4

\* A function that sums f over every subset of a finite set exists.
LEMMA SumExists ==
    ASSUME NEW A, IsFiniteSet(A), NEW f \in [A -> Int]
    PROVE  \E g : IsSum(g, f, A)
<1> DEFINE Bad == {S \in SUBSET A : ~ \E g : IsSum(g, f, S)}
<1>1. SUFFICES ASSUME Bad # {} PROVE FALSE
  OBVIOUS
<1>2. PICK S \in Bad : \A x \in S : S \ {x} \notin Bad
  BY <1>1, MinimalSubset
<1>3. CASE S = {}
  <2> DEFINE g == [T \in SUBSET S |-> 0]
  <2>1. IsSum(g, f, S)
    BY <1>3 DEF IsSum
  <2> QED BY <2>1
<1>4. CASE S # {}
  <2>1. PICK x \in S : TRUE
    BY <1>4
  <2>2. PICK h : IsSum(h, f, S \ {x})
    BY <1>2, <2>1
  <2> DEFINE g == [T \in SUBSET S |-> IF x \in T THEN f[x] + h[T \ {x}] ELSE h[T]]
  <2>3. g \in [SUBSET S -> Int]
    BY <2>2 DEF IsSum
  <2>4. g[{}] = 0
    BY <2>2 DEF IsSum
  <2>5. ASSUME NEW T \in SUBSET S, NEW y \in T PROVE g[T] = f[y] + g[T \ {y}]
    <3>0. f[x] \in Int /\ f[y] \in Int
      OBVIOUS
    <3>1. CASE y = x
      BY <3>1
    <3>2. CASE y # x /\ x \in T
      <4>1. h[T \ {x}] = f[y] + h[(T \ {x}) \ {y}]
        BY <3>2, <2>2 DEF IsSum
      <4>2. (T \ {x}) \ {y} = (T \ {y}) \ {x}
        OBVIOUS
      <4>3. g[T \ {y}] = f[x] + h[(T \ {y}) \ {x}]
        BY <3>2
      <4>4. h[(T \ {y}) \ {x}] \in Int
        BY <2>2 DEF IsSum
      <4>5. g[T] = f[x] + h[T \ {x}]
        BY <3>2
      <4> HIDE DEF g
      <4>6. h[T \ {x}] = f[y] + h[(T \ {y}) \ {x}]
        BY <4>1, <4>2
      <4>7. \A a, b, c \in Int : b + (a + c) = a + (b + c)
        OBVIOUS
      <4>8. g[T] = f[x] + (f[y] + h[(T \ {y}) \ {x}])
        BY <4>5, <4>6
      <4> QED BY <4>3, <4>4, <4>7, <4>8, <3>0
    <3>3. CASE x \notin T
      BY <3>3, <2>2 DEF IsSum
    <3> QED BY <3>1, <3>2, <3>3
  <2> HIDE DEF g
  <2>6. IsSum(g, f, S)
    BY <2>3, <2>4, <2>5 DEF IsSum
  <2> QED BY <2>6
<1> QED BY <1>3, <1>4

\* The fold SumFunctionOnSet is that function.
LEMMA SumIsFold ==
    ASSUME NEW A, IsFiniteSet(A), NEW f \in [A -> Int], NEW S \in SUBSET A,
           NEW g, IsSum(g, f, A)
    PROVE  SumFunctionOnSet(f, S) = g[S]
<1> DEFINE Step(h) == [s \in SUBSET S |->
                         IF s = {} THEN 0
                         ELSE f[CHOOSE x \in s : TRUE] + h[s \ {CHOOSE x \in s : TRUE}]]
           iter == CHOOSE h : h = Step(h)
<1>1. SumFunctionOnSet(f, S) = iter[S]
  BY DEF SumFunctionOnSet, FoldFunctionOnSet, MapThenFoldSet
<1> DEFINE k == [s \in SUBSET S |-> g[s]]
<1>2. k = Step(k)
  BY DEF IsSum
<1>3. iter = Step(iter)
  BY <1>2
<1> HIDE DEF iter
<1> DEFINE Bad == {T \in SUBSET S : iter[T] # g[T]}
<1>4. SUFFICES ASSUME Bad # {} PROVE FALSE
  BY <1>1
<1>5. IsFiniteSet(S)
  BY FS_Subset
<1>6. PICK T \in Bad : \A x \in T : T \ {x} \notin Bad
  BY <1>4, <1>5, MinimalSubset
<1>7. CASE T = {}
  BY <1>3, <1>6, <1>7 DEF IsSum
<1>8. CASE T # {}
  <2> DEFINE x == CHOOSE y \in T : TRUE
  <2>1. x \in T
    BY <1>8
  <2>2. iter[T] = f[x] + iter[T \ {x}]
    BY <1>3, <1>8
  <2>3. g[T] = f[x] + g[T \ {x}]
    BY <2>1 DEF IsSum
  <2> QED BY <2>1, <2>2, <2>3, <1>6
<1> QED BY <1>7, <1>8

\* The sum is an integer, 0 on the empty set, and loses f[x] when x leaves.
LEMMA SumRemove ==
    ASSUME NEW A, IsFiniteSet(A), NEW f \in [A -> Int], NEW S \in SUBSET A
    PROVE  /\ SumFunctionOnSet(f, S) \in Int
           /\ SumFunctionOnSet(f, {}) = 0
           /\ \A x \in S : SumFunctionOnSet(f, S) = f[x] + SumFunctionOnSet(f, S \ {x})
<1>1. PICK g : IsSum(g, f, A)
  BY SumExists
<1>2. \A T \in SUBSET A : SumFunctionOnSet(f, T) = g[T]
  BY <1>1, SumIsFold
<1> QED BY <1>1, <1>2 DEF IsSum

\* Two functions that agree on S have the same sum over S.
LEMMA SumAgree ==
    ASSUME NEW A, IsFiniteSet(A), NEW f \in [A -> Int], NEW h \in [A -> Int],
           NEW S \in SUBSET A, \A x \in S : f[x] = h[x]
    PROVE  SumFunctionOnSet(f, S) = SumFunctionOnSet(h, S)
<1> DEFINE Bad == {T \in SUBSET S : SumFunctionOnSet(f, T) # SumFunctionOnSet(h, T)}
<1>1. SUFFICES ASSUME Bad # {} PROVE FALSE
  OBVIOUS
<1>2. PICK T \in Bad : \A x \in T : T \ {x} \notin Bad
  BY <1>1, FS_Subset, MinimalSubset
<1>3. CASE T = {}
  BY <1>3, SumRemove
<1>4. CASE T # {}
  <2>1. PICK x \in T : TRUE
    BY <1>4
  <2>2. SumFunctionOnSet(f, T) = f[x] + SumFunctionOnSet(f, T \ {x})
    BY SumRemove
  <2>3. SumFunctionOnSet(h, T) = h[x] + SumFunctionOnSet(h, T \ {x})
    BY SumRemove
  <2> QED BY <1>2, <2>1, <2>2, <2>3
<1> QED BY <1>3, <1>4

\* A sum of non-negative values is non-negative and at least each of them.
LEMMA SumNat ==
    ASSUME NEW A, IsFiniteSet(A), NEW f \in [A -> Int], NEW S \in SUBSET A,
           \A x \in S : f[x] >= 0
    PROVE  /\ SumFunctionOnSet(f, S) >= 0
           /\ \A x \in S : f[x] <= SumFunctionOnSet(f, S)
<1> DEFINE Bad == {T \in SUBSET S : SumFunctionOnSet(f, T) < 0}
<1>1. ASSUME Bad # {} PROVE FALSE
  <2>1. PICK T \in Bad : \A x \in T : T \ {x} \notin Bad
    BY <1>1, FS_Subset, MinimalSubset
  <2>2. T # {}
    BY SumRemove
  <2>3. PICK x \in T : TRUE
    BY <2>2
  <2>4. SumFunctionOnSet(f, T) = f[x] + SumFunctionOnSet(f, T \ {x})
    BY SumRemove
  <2>5. SumFunctionOnSet(f, T \ {x}) \in Int
    BY SumRemove
  <2> QED BY <2>1, <2>3, <2>4, <2>5
<1>2. \A T \in SUBSET S : SumFunctionOnSet(f, T) \in Int
  BY SumRemove
<1>3. \A T \in SUBSET S : SumFunctionOnSet(f, T) >= 0
  BY <1>1, <1>2
<1>4. \A x \in S : SumFunctionOnSet(f, S) = f[x] + SumFunctionOnSet(f, S \ {x})
  BY SumRemove
<1>5. ASSUME NEW x \in S PROVE f[x] <= SumFunctionOnSet(f, S)
  <2>1. SumFunctionOnSet(f, S) = f[x] + SumFunctionOnSet(f, S \ {x})
    BY <1>4
  <2>2. S \ {x} \in SUBSET S
    OBVIOUS
  <2>3. SumFunctionOnSet(f, S \ {x}) >= 0 /\ SumFunctionOnSet(f, S \ {x}) \in Int
    BY <1>2, <1>3, <2>2
  <2>4. f[x] \in Int
    OBVIOUS
  <2> QED BY <2>1, <2>3, <2>4
<1> QED BY <1>3, <1>5

\* When f and h differ at d only, their sums differ by h[d] - f[d] if d is in S.
LEMMA SumChange ==
    ASSUME NEW A, IsFiniteSet(A), NEW f \in [A -> Int], NEW h \in [A -> Int],
           NEW S \in SUBSET A, NEW d, \A x \in S \ {d} : f[x] = h[x]
    PROVE  SumFunctionOnSet(h, S) =
             IF d \in S THEN SumFunctionOnSet(f, S) - f[d] + h[d] ELSE SumFunctionOnSet(f, S)
<1>1. CASE d \notin S
  BY <1>1, SumAgree
<1>2. CASE d \in S
  <2>1. SumFunctionOnSet(f, S \ {d}) = SumFunctionOnSet(h, S \ {d})
    BY SumAgree
  <2>2. SumFunctionOnSet(f, S) = f[d] + SumFunctionOnSet(f, S \ {d})
    BY <1>2, SumRemove
  <2>3. SumFunctionOnSet(h, S) = h[d] + SumFunctionOnSet(h, S \ {d})
    BY <1>2, SumRemove
  <2>4. SumFunctionOnSet(h, S \ {d}) \in Int
    BY SumRemove
  <2>5. f[d] \in Int /\ h[d] \in Int
    BY <1>2
  <2> QED BY <1>2, <2>1, <2>2, <2>3, <2>4, <2>5
<1> QED BY <1>1, <1>2

\* A function that is 0 everywhere sums to 0.
LEMMA SumOfZeros ==
    ASSUME NEW A, IsFiniteSet(A), NEW f \in [A -> Int], NEW S \in SUBSET A, \A x \in A : f[x] = 0
    PROVE  SumFunctionOnSet(f, S) = 0
<1> DEFINE Bad == {T \in SUBSET S : SumFunctionOnSet(f, T) # 0}
<1>1. SUFFICES ASSUME Bad # {} PROVE FALSE
  OBVIOUS
<1>2. PICK T \in Bad : \A x \in T : T \ {x} \notin Bad
  BY <1>1, FS_Subset, MinimalSubset
<1>3. T # {}
  BY SumRemove
<1>4. PICK x \in T : TRUE
  BY <1>3
<1>5. SumFunctionOnSet(f, T) = f[x] + SumFunctionOnSet(f, T \ {x})
  BY SumRemove
<1> QED BY <1>2, <1>4, <1>5

\* The sum over two disjoint sets is the sum of the sums over each.
LEMMA SumSplit ==
    ASSUME NEW A, IsFiniteSet(A), NEW f \in [A -> Int], NEW S \in SUBSET A, NEW T \in SUBSET A,
           S \cap T = {}
    PROVE  SumFunctionOnSet(f, S \cup T) = SumFunctionOnSet(f, S) + SumFunctionOnSet(f, T)
<1> DEFINE Bad == {U \in SUBSET S :
                     SumFunctionOnSet(f, U \cup T) # SumFunctionOnSet(f, U) + SumFunctionOnSet(f, T)}
<1>1. SUFFICES ASSUME Bad # {} PROVE FALSE
  OBVIOUS
<1>2. PICK U \in Bad : \A x \in U : U \ {x} \notin Bad
  BY <1>1, FS_Subset, MinimalSubset
<1>3. SumFunctionOnSet(f, T) \in Int
  BY SumRemove
<1>4. CASE U = {}
  <2>1. U \cup T = T
    BY <1>4
  <2>2. SumFunctionOnSet(f, U) = 0
    BY <1>4, SumRemove
  <2> QED BY <1>2, <1>3, <2>1, <2>2
<1>5. CASE U # {}
  <2>1. PICK x \in U : TRUE
    BY <1>5
  <2>2. (U \cup T) \ {x} = (U \ {x}) \cup T
    BY <2>1
  <2>3. SumFunctionOnSet(f, U) = f[x] + SumFunctionOnSet(f, U \ {x})
    BY SumRemove
  <2>4. SumFunctionOnSet(f, U \cup T) = f[x] + SumFunctionOnSet(f, (U \ {x}) \cup T)
    BY <2>2, SumRemove
  <2>5. SumFunctionOnSet(f, (U \ {x}) \cup T) = SumFunctionOnSet(f, U \ {x}) + SumFunctionOnSet(f, T)
    BY <1>2, <2>1
  <2>6. SumFunctionOnSet(f, U \ {x}) \in Int /\ f[x] \in Int
    BY SumRemove
  <2> QED BY <1>2, <1>3, <2>3, <2>4, <2>5, <2>6
<1> QED BY <1>4, <1>5

\* Bounds on the values, scaled by k and m, are bounds on the sums.
LEMMA SumScaled ==
    ASSUME NEW A, IsFiniteSet(A), NEW f \in [A -> Int], NEW h \in [A -> Int],
           NEW k \in Int, NEW m \in Int, \A x \in A : k * f[x] <= m * h[x]
    PROVE  k * SumFunctionOnSet(f, A) <= m * SumFunctionOnSet(h, A)
<1> DEFINE Bad == {T \in SUBSET A :
                     ~(k * SumFunctionOnSet(f, T) <= m * SumFunctionOnSet(h, T))}
<1>1. SUFFICES ASSUME Bad # {} PROVE FALSE
  OBVIOUS
<1>2. PICK T \in Bad : \A x \in T : T \ {x} \notin Bad
  BY <1>1, MinimalSubset
<1>3. T # {}
  <2>1. SumFunctionOnSet(f, {}) = 0 /\ SumFunctionOnSet(h, {}) = 0
    BY SumRemove
  <2>2. k * 0 = 0 /\ m * 0 = 0
    OBVIOUS
  <2> QED BY <1>2, <2>1, <2>2
<1>4. PICK x \in T : TRUE
  BY <1>3
<1> DEFINE F == SumFunctionOnSet(f, T \ {x})
           H == SumFunctionOnSet(h, T \ {x})
<1>5. /\ SumFunctionOnSet(f, T) = f[x] + F /\ F \in Int
      /\ SumFunctionOnSet(h, T) = h[x] + H /\ H \in Int
  BY SumRemove
<1>6. k * F <= m * H
  BY <1>2, <1>4
<1>7. f[x] \in Int /\ h[x] \in Int /\ k * f[x] <= m * h[x]
  BY <1>4
<1> HIDE DEF F, H
<1>8. k * (f[x] + F) = k * f[x] + k * F /\ m * (h[x] + H) = m * h[x] + m * H
      /\ k * f[x] \in Int /\ k * F \in Int /\ m * h[x] \in Int /\ m * H \in Int
  BY <1>5, <1>7
<1>9. k * (f[x] + F) <= m * (h[x] + H)
  BY <1>6, <1>7, <1>8
<1> QED BY <1>2, <1>5, <1>9

\* Adding the same amount to every value adds it once for every element.
LEMMA SumShifted ==
    ASSUME NEW A, IsFiniteSet(A), NEW f \in [A -> Int], NEW h \in [A -> Int],
           NEW c \in Int, \A x \in A : h[x] = f[x] + c
    PROVE  SumFunctionOnSet(h, A) = SumFunctionOnSet(f, A) + Cardinality(A) * c
<1> DEFINE Bad == {T \in SUBSET A :
                     SumFunctionOnSet(h, T) # SumFunctionOnSet(f, T) + Cardinality(T) * c}
<1>1. SUFFICES ASSUME Bad # {} PROVE FALSE
  OBVIOUS
<1>2. PICK T \in Bad : \A x \in T : T \ {x} \notin Bad
  BY <1>1, MinimalSubset
<1>3. T # {}
  <2>1. SumFunctionOnSet(f, {}) = 0 /\ SumFunctionOnSet(h, {}) = 0
    BY SumRemove
  <2>2. Cardinality({}) * c = 0
    <3>1. Cardinality({}) = 0
      BY FS_EmptySet
    <3> QED BY <3>1
  <2>3. {} \notin Bad
    BY <2>1, <2>2
  <2> QED BY <1>2, <2>3
<1>4. PICK x \in T : TRUE
  BY <1>3
<1> DEFINE F == SumFunctionOnSet(f, T \ {x})
           H == SumFunctionOnSet(h, T \ {x})
           n == Cardinality(T \ {x})
<1>5. /\ SumFunctionOnSet(f, T) = f[x] + F /\ F \in Int
      /\ SumFunctionOnSet(h, T) = h[x] + H /\ H \in Int
  BY SumRemove
<1>6. Cardinality(T) = n + 1 /\ n \in Nat
  <2>1. IsFiniteSet(T) /\ IsFiniteSet(T \ {x})
    BY FS_Subset
  <2>2. Cardinality(T \ {x}) = Cardinality(T) - 1 /\ Cardinality(T) \in Nat
        /\ Cardinality(T \ {x}) \in Nat
    BY <2>1, <1>4, FS_RemoveElement, FS_CardinalityType
  <2> QED BY <2>2
<1>7. H = F + n * c
  BY <1>2, <1>4
<1>8. f[x] \in Int /\ h[x] = f[x] + c
  BY <1>4
<1> HIDE DEF F, H, n
<1>9. (n + 1) * c = n * c + c /\ n * c \in Int
  BY <1>6
<1>10. h[x] + H = (f[x] + F) + (n + 1) * c
  BY <1>5, <1>7, <1>8, <1>9
<1> QED BY <1>2, <1>5, <1>6, <1>10

\* The sum of two functions, taken value by value, is the sum of their sums.
LEMMA SumPlus ==
    ASSUME NEW A, IsFiniteSet(A), NEW f \in [A -> Int], NEW g \in [A -> Int],
           NEW h \in [A -> Int], \A x \in A : h[x] = f[x] + g[x]
    PROVE  SumFunctionOnSet(h, A) = SumFunctionOnSet(f, A) + SumFunctionOnSet(g, A)
<1> DEFINE Bad == {T \in SUBSET A :
                     SumFunctionOnSet(h, T) # SumFunctionOnSet(f, T) + SumFunctionOnSet(g, T)}
<1>1. SUFFICES ASSUME Bad # {} PROVE FALSE
  OBVIOUS
<1>2. PICK T \in Bad : \A x \in T : T \ {x} \notin Bad
  BY <1>1, MinimalSubset
<1>3. {} \notin Bad
  BY SumRemove
<1>4. PICK x \in T : TRUE
  BY <1>2, <1>3
<1> DEFINE F == SumFunctionOnSet(f, T \ {x})
           G == SumFunctionOnSet(g, T \ {x})
           H == SumFunctionOnSet(h, T \ {x})
<1>5. /\ SumFunctionOnSet(f, T) = f[x] + F /\ F \in Int
      /\ SumFunctionOnSet(g, T) = g[x] + G /\ G \in Int
      /\ SumFunctionOnSet(h, T) = h[x] + H /\ H \in Int
  BY SumRemove
<1>6. H = F + G
  BY <1>2, <1>4
<1>7. f[x] \in Int /\ g[x] \in Int /\ h[x] = f[x] + g[x]
  BY <1>4
<1> QED BY <1>2, <1>5, <1>6, <1>7

\* p finds each number of f on A in a place of its own in h on B, and all
\* other places hold 0.
Places(p, A, f, B, h) ==
    /\ p \in [A -> B] /\ \A x, y \in A : p[x] = p[y] => x = y
    /\ \A x \in A : h[p[x]] = f[x]
    /\ \A y \in B : (\A x \in A : p[x] # y) => h[y] = 0

\* A sum is the sum of the same numbers elsewhere, among zeros.
LEMMA SumInjected ==
    ASSUME NEW A, IsFiniteSet(A), NEW f \in [A -> Int],
           NEW B, IsFiniteSet(B), NEW h \in [B -> Int], NEW p, Places(p, A, f, B, h)
    PROVE  SumFunctionOnSet(f, A) = SumFunctionOnSet(h, B)
<1>0. /\ p \in [A -> B] /\ \A x, y \in A : p[x] = p[y] => x = y
      /\ \A x \in A : h[p[x]] = f[x]
      /\ \A y \in B : (\A x \in A : p[x] # y) => h[y] = 0
  BY Zenon DEF Places
<1> DEFINE Image(S) == {p[x] : x \in S}
           Bad == {S \in SUBSET A : SumFunctionOnSet(f, S) # SumFunctionOnSet(h, Image(S))}
<1>1. ASSUME Bad # {} PROVE FALSE
  <2>1. PICK S \in Bad : \A x \in S : S \ {x} \notin Bad
    BY <1>1, MinimalSubset, Zenon
  <2>2. S # {}
    <3>1. Image({}) = {}
      OBVIOUS
    <3>2. SumFunctionOnSet(f, {}) = 0 /\ SumFunctionOnSet(h, {}) = 0
      BY SumRemove
    <3> QED BY <2>1, <3>1, <3>2
  <2>3. PICK x \in S : TRUE
    BY <2>2
  <2>4. SumFunctionOnSet(f, S \ {x}) = SumFunctionOnSet(h, Image(S \ {x}))
    BY <2>1, <2>3
  <2>5. Image(S \ {x}) = Image(S) \ {p[x]} /\ p[x] \in Image(S) /\ Image(S) \in SUBSET B
    BY <1>0, <2>1, <2>3
  <2>6. SumFunctionOnSet(f, S) = f[x] + SumFunctionOnSet(f, S \ {x})
    BY <2>1, <2>3, SumRemove
  <2> HIDE DEF Image
  <2>7. SumFunctionOnSet(h, Image(S)) = h[p[x]] + SumFunctionOnSet(h, Image(S) \ {p[x]})
    BY <2>5, SumRemove
  <2>8. h[p[x]] = f[x]
    BY <1>0, <2>1, <2>3
  <2> QED BY <2>1, <2>4, <2>5, <2>6, <2>7, <2>8
<1>2. SumFunctionOnSet(f, A) = SumFunctionOnSet(h, Image(A))
  BY <1>1
<1>3. Image(A) \in SUBSET B /\ \A y \in B \ Image(A) : h[y] = 0
  BY <1>0
<1> HIDE DEF Image
<1> DEFINE rest == B \ Image(A)
           zero == [y \in B |-> 0]
<1>4. SumFunctionOnSet(h, rest) = 0
  <2>1. zero \in [B -> Int] /\ rest \in SUBSET B /\ (\A y \in rest : h[y] = zero[y])
        /\ \A y \in B : zero[y] = 0
    BY <1>3
  <2> HIDE DEF zero, rest
  <2>2. SumFunctionOnSet(h, rest) = SumFunctionOnSet(zero, rest)
    BY <2>1, SumAgree
  <2>3. SumFunctionOnSet(zero, rest) = 0
    BY <2>1, SumOfZeros
  <2> QED BY <2>2, <2>3
<1>5. Image(A) \cup rest = B /\ Image(A) \cap rest = {} /\ rest \in SUBSET B
  BY <1>3
<1> HIDE DEF rest
<1>6. SumFunctionOnSet(h, Image(A) \cup rest) = SumFunctionOnSet(h, Image(A)) + SumFunctionOnSet(h, rest)
  BY <1>3, <1>5, SumSplit
<1>7. SumFunctionOnSet(h, Image(A)) \in Int
  BY <1>3, SumRemove
<1>8. SumFunctionOnSet(h, B) = SumFunctionOnSet(h, Image(A)) + 0
  BY <1>4, <1>5, <1>6, Zenon
<1> QED BY <1>2, <1>7, <1>8

\* A sum over part of B is a sum over B, among zeros.
LEMMA SumExtended ==
    ASSUME NEW B, IsFiniteSet(B), NEW D \in SUBSET B, NEW f \in [D -> Int], NEW h \in [B -> Int],
           \A x \in D : h[x] = f[x], \A x \in B \ D : h[x] = 0
    PROVE  SumFunction(f) = SumFunctionOnSet(h, B)
<1> DEFINE p == [x \in D |-> x]
<1>1. IsFiniteSet(D)
  BY FS_Subset
<1>2. Places(p, D, f, B, h)
  <2>1. p \in [D -> B] /\ \A x \in D : p[x] = x
    OBVIOUS
  <2>2. \A y \in B : (\A x \in D : p[x] # y) => h[y] = 0
    BY <2>1
  <2> HIDE DEF p
  <2> QED BY <2>1, <2>2 DEF Places
<1> HIDE DEF p
<1>3. SumFunctionOnSet(f, D) = SumFunctionOnSet(h, B)
  BY <1>1, <1>2, SumInjected
<1>4. DOMAIN f = D
  OBVIOUS
<1> QED BY <1>3, <1>4, Zenon DEF SumFunction

\* The sum of the rows and the sum of the columns of f.
Column(f, A, b) == [a \in A |-> f[a][b]]
LEMMA SumSwap ==
    ASSUME NEW A, IsFiniteSet(A), NEW B, IsFiniteSet(B), NEW f \in [A -> [B -> Int]]
    PROVE  SumFunctionOnSet([a \in A |-> SumFunctionOnSet(f[a], B)], A)
             = SumFunctionOnSet([b \in B |-> SumFunctionOnSet(Column(f, A, b), A)], B)
<1> DEFINE rows == [a \in A |-> SumFunctionOnSet(f[a], B)]
           cols(S) == [b \in B |-> SumFunctionOnSet(Column(f, A, b), S)]
           Bad == {S \in SUBSET A : SumFunctionOnSet(rows, S) # SumFunctionOnSet(cols(S), B)}
<1>1. \A b \in B : Column(f, A, b) \in [A -> Int] /\ \A a \in A : Column(f, A, b)[a] = f[a][b]
  BY DEF Column
<1>2. rows \in [A -> Int] /\ \A a \in A : rows[a] = SumFunctionOnSet(f[a], B)
  <2>1. ASSUME NEW a \in A PROVE SumFunctionOnSet(f[a], B) \in Int
    <3>1. f[a] \in [B -> Int]
      OBVIOUS
    <3> QED BY <3>1, SumRemove
  <2> QED BY <2>1
<1>3. ASSUME NEW S \in SUBSET A
      PROVE  cols(S) \in [B -> Int] /\ \A b \in B : cols(S)[b] = SumFunctionOnSet(Column(f, A, b), S)
  <2>1. \A b \in B : SumFunctionOnSet(Column(f, A, b), S) \in Int
    BY <1>1, SumRemove
  <2> QED BY <2>1
<1> HIDE DEF rows
<1>4. ASSUME Bad # {} PROVE FALSE
  <2>1. PICK S \in Bad : \A x \in S : S \ {x} \notin Bad
    BY <1>4, MinimalSubset, Zenon
  <2>2. S \in SUBSET A /\ SumFunctionOnSet(rows, S) # SumFunctionOnSet(cols(S), B)
    BY <2>1
  <2>3. CASE S = {}
    <3>1. SumFunctionOnSet(rows, {}) = 0
      BY <1>2, SumRemove
    <3>2. {} \in SUBSET A
      OBVIOUS
    <3>3. \A b \in B : cols({})[b] = 0
      BY <1>1, <3>2, SumRemove
    <3>4. cols({}) \in [B -> Int]
      BY <1>3, <3>2
    <3> DEFINE c == cols({})
    <3>5. c \in [B -> Int] /\ (\A b \in B : c[b] = 0) /\ B \in SUBSET B
      BY <3>3, <3>4
    <3> HIDE DEF c
    <3>6. SumFunctionOnSet(c, B) = 0
      BY <3>5, SumOfZeros
    <3> QED BY <2>2, <2>3, <3>1, <3>6 DEF c
  <2>4. CASE S # {}
    <3>1. PICK x \in S : TRUE
      BY <2>4
    <3>2. x \in A /\ S \ {x} \in SUBSET A
      BY <2>2, <3>1
    <3>3. SumFunctionOnSet(rows, S \ {x}) = SumFunctionOnSet(cols(S \ {x}), B)
      BY <2>1, <3>1, <3>2
    <3>4. SumFunctionOnSet(rows, S) = SumFunctionOnSet(f[x], B) + SumFunctionOnSet(rows, S \ {x})
      BY <1>2, <2>2, <3>1, <3>2, SumRemove
    <3> DEFINE c == cols(S)
               e == cols(S \ {x})
    <3>5. c \in [B -> Int] /\ e \in [B -> Int] /\ f[x] \in [B -> Int]
      BY <1>3, <2>2, <3>2
    <3>6. ASSUME NEW b \in B PROVE c[b] = f[x][b] + e[b]
      <4> DEFINE k == Column(f, A, b)
      <4>1. k \in [A -> Int] /\ k[x] = f[x][b] /\ c[b] = SumFunctionOnSet(k, S)
              /\ e[b] = SumFunctionOnSet(k, S \ {x})
        BY <1>1, <3>2
      <4> HIDE DEF k, c, e
      <4>2. SumFunctionOnSet(k, S) = k[x] + SumFunctionOnSet(k, S \ {x})
        BY <4>1, <2>2, <3>1, SumRemove
      <4> QED BY <4>1, <4>2
    <3> HIDE DEF c, e
    <3>7. SumFunctionOnSet(c, B) = SumFunctionOnSet(f[x], B) + SumFunctionOnSet(e, B)
      BY <3>5, <3>6, SumPlus
    <3> QED BY <2>2, <3>3, <3>4, <3>7, Zenon DEF c, e
  <2> QED BY <2>3, <2>4
<1>5. SumFunctionOnSet(rows, A) = SumFunctionOnSet(cols(A), B)
  BY <1>4
<1> QED BY <1>5, Zenon DEF rows

\* As SumExtended, where the part is of the domain of f.
LEMMA SumPart ==
    ASSUME NEW B, IsFiniteSet(B), NEW E \in SUBSET B, NEW f \in [B -> Int], NEW h \in [B -> Int],
           \A x \in E : h[x] = f[x], \A x \in B \ E : h[x] = 0
    PROVE  SumFunctionOnSet(f, E) = SumFunctionOnSet(h, B)
<1> DEFINE R == B \ E
           z == [x \in B |-> 0]
<1>1. z \in [B -> Int] /\ (\A x \in B : z[x] = 0) /\ R \in SUBSET B /\ E \cap R = {} /\ E \cup R = B
  OBVIOUS
<1>2. \A x \in R : h[x] = z[x]
  OBVIOUS
<1> HIDE DEF R, z
<1>3. SumFunctionOnSet(h, E \cup R) = SumFunctionOnSet(h, E) + SumFunctionOnSet(h, R)
  BY <1>1, SumSplit
<1>4. SumFunctionOnSet(h, E) = SumFunctionOnSet(f, E)
  BY SumAgree
<1>5. SumFunctionOnSet(h, R) = SumFunctionOnSet(z, R)
  BY <1>1, <1>2, SumAgree
<1>6. SumFunctionOnSet(z, R) = 0
  BY <1>1, SumOfZeros
<1>7. SumFunctionOnSet(f, E) \in Int
  BY SumRemove
<1>8. SumFunctionOnSet(h, B) = SumFunctionOnSet(f, E) + 0
  BY <1>1, <1>3, <1>4, <1>5, <1>6, Zenon
<1> QED BY <1>7, <1>8

\* A sum of smaller numbers is smaller.
LEMMA SumAtMost ==
    ASSUME NEW A, IsFiniteSet(A), NEW f \in [A -> Int], NEW h \in [A -> Int],
           \A x \in A : f[x] <= h[x]
    PROVE  SumFunctionOnSet(f, A) <= SumFunctionOnSet(h, A)
<1> DEFINE g == [x \in A |-> h[x] - f[x]]
<1>1. g \in [A -> Int] /\ (\A x \in A : h[x] = f[x] + g[x]) /\ (\A x \in A : g[x] >= 0) /\ A \in SUBSET A
  OBVIOUS
<1> HIDE DEF g
<1>2. SumFunctionOnSet(h, A) = SumFunctionOnSet(f, A) + SumFunctionOnSet(g, A)
  BY <1>1, SumPlus
<1>3. SumFunctionOnSet(g, A) >= 0 /\ SumFunctionOnSet(g, A) \in Int /\ SumFunctionOnSet(f, A) \in Int
  BY <1>1, SumNat, SumRemove
<1> QED BY <1>2, <1>3

\* The sum of ones.
LEMMA SumOnes ==
    ASSUME NEW B, IsFiniteSet(B), NEW D \in SUBSET B
    PROVE  SumFunctionOnSet([x \in B |-> IF x \in D THEN 1 ELSE 0], B) = Cardinality(D)
<1> DEFINE h == [x \in B |-> IF x \in D THEN 1 ELSE 0]
           o == [x \in D |-> 1]
           z == [x \in D |-> 0]
<1>1. /\ h \in [B -> Int] /\ o \in [D -> Int] /\ z \in [D -> Int] /\ D \in SUBSET D
      /\ \A x \in D : h[x] = o[x]
      /\ \A x \in B \ D : h[x] = 0
      /\ \A x \in D : o[x] = z[x] + 1
      /\ \A x \in D : z[x] = 0
  OBVIOUS
<1>2. DOMAIN o = D
  OBVIOUS
<1> HIDE DEF h, o, z
<1>3. IsFiniteSet(D) /\ Cardinality(D) \in Nat
  BY FS_Subset, FS_CardinalityType
<1>4. SumFunction(o) = SumFunctionOnSet(h, B)
  BY <1>1, SumExtended
<1>5. SumFunction(o) = SumFunctionOnSet(o, D)
  BY <1>2, Zenon DEF SumFunction
<1>6. SumFunctionOnSet(o, D) = SumFunctionOnSet(z, D) + Cardinality(D) * 1
  BY <1>1, <1>3, SumShifted
<1>7. SumFunctionOnSet(z, D) = 0
  BY <1>1, <1>3, SumOfZeros
<1>8. SumFunctionOnSet(h, B) = Cardinality(D)
  BY <1>3, <1>4, <1>5, <1>6, <1>7
<1> QED BY <1>8, Zenon DEF h

\* What each element of D owns of B weighs c.
Owns(D, own, B, w, c) == \A a \in D : c[a] = SumFunctionOnSet(w, {e \in B : own[e] = a})

\* The elements of A own disjoint parts of B, so what they own weighs no more than B.
LEMMA SumOwned ==
    ASSUME NEW A, IsFiniteSet(A), NEW B, IsFiniteSet(B), NEW w \in [B -> Nat],
           NEW own, NEW D \in SUBSET A, NEW c \in [A -> Int],
           Owns(D, own, B, w, c),
           \A a \in A \ D : c[a] = 0
    PROVE  SumFunctionOnSet(c, A) <= SumFunctionOnSet(w, B)
<1> DEFINE m == [a \in A |-> [e \in B |-> IF a \in D /\ own[e] = a THEN w[e] ELSE 0]]
           rows == [a \in A |-> SumFunctionOnSet(m[a], B)]
           cols == [e \in B |-> SumFunctionOnSet(Column(m, A, e), A)]
<1>0. w \in [B -> Int]
  OBVIOUS
<1>1. m \in [A -> [B -> Int]]
  OBVIOUS
<1>2. \A a \in A, e \in B : m[a][e] = IF a \in D /\ own[e] = a THEN w[e] ELSE 0
  OBVIOUS
<1> HIDE DEF m
<1>3. ASSUME NEW a \in A PROVE rows[a] = c[a] /\ rows[a] \in Int
  <2> DEFINE r == m[a]
             E == {e \in B : own[e] = a}
  <2>1. r \in [B -> Int] /\ E \in SUBSET B
    BY <1>1
  <2>2. \A e \in B : r[e] = IF a \in D /\ e \in E THEN w[e] ELSE 0
    BY <1>2
  <2>3. rows[a] = SumFunctionOnSet(r, B)
    OBVIOUS
  <2>4. a \in D => c[a] = SumFunctionOnSet(w, E)
    BY DEF Owns
  <2> HIDE DEF r, E, rows
  <2>5. CASE a \in D
    <3>1. (\A e \in E : r[e] = w[e]) /\ (\A e \in B \ E : r[e] = 0)
      BY <2>1, <2>2, <2>5
    <3>2. SumFunctionOnSet(w, E) = SumFunctionOnSet(r, B)
      BY <1>0, <2>1, <3>1, SumPart
    <3> QED BY <2>3, <2>4, <2>5, <3>2
  <2>6. CASE a \notin D
    <3>1. \A e \in B : r[e] = 0
      BY <2>2, <2>6
    <3>2. SumFunctionOnSet(r, B) = 0
      BY <2>1, <3>1, SumOfZeros
    <3> QED BY <2>3, <2>6, <3>2
  <2> QED BY <2>5, <2>6
<1>4. ASSUME NEW e \in B PROVE cols[e] \in Int /\ cols[e] <= w[e]
  <2> DEFINE k == Column(m, A, e)
             z == [a \in A |-> 0]
             o == own[e]
  <2>1. k \in [A -> Int] /\ \A a \in A : k[a] = IF a \in D /\ o = a THEN w[e] ELSE 0
    BY <1>1, <1>2 DEF Column
  <2>2. z \in [A -> Int] /\ \A a \in A : z[a] = 0
    OBVIOUS
  <2>3. cols[e] = SumFunctionOnSet(k, A) /\ A \in SUBSET A
    OBVIOUS
  <2>4. w[e] \in Nat
    OBVIOUS
  <2> HIDE DEF k, z, o, cols
  <2>5. \A a \in A \ {o} : z[a] = k[a]
    BY <2>1, <2>2
  <2>6. SumFunctionOnSet(k, A) =
          IF o \in A THEN SumFunctionOnSet(z, A) - z[o] + k[o] ELSE SumFunctionOnSet(z, A)
    BY <2>1, <2>2, <2>3, <2>5, SumChange
  <2>7. SumFunctionOnSet(z, A) = 0
    BY <2>2, <2>3, SumOfZeros
  <2>8. o \in A => z[o] = 0 /\ k[o] \in {0, w[e]}
    BY <2>1, <2>2
  <2> QED BY <2>3, <2>4, <2>6, <2>7, <2>8
<1>5. SumFunctionOnSet(rows, A) = SumFunctionOnSet(cols, B)
  BY <1>1, SumSwap
<1>6. rows \in [A -> Int] /\ cols \in [B -> Int]
  BY <1>3, <1>4
<1> HIDE DEF rows, cols
<1>7. SumFunctionOnSet(rows, A) = SumFunctionOnSet(c, A)
  BY <1>3, <1>6, SumAgree
<1>8. SumFunctionOnSet(cols, B) <= SumFunctionOnSet(w, B)
  BY <1>0, <1>4, <1>6, SumAtMost
<1> QED BY <1>5, <1>7, <1>8
=============================================================================
