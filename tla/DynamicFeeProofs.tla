-------------------------- MODULE DynamicFeeProofs --------------------------
(***************************************************************************)
(* For every precision, window, gas, consensus parameter and set of        *)
(* parameters that validate: the base gas price and the learning rate of   *)
(* x/dynamicfee keep to their bounds, the price follows the block, an      *)
(* exported state can be imported, the window is the gas of the last       *)
(* blocks, and the learning rate follows it.                               *)
(***************************************************************************)
EXTENDS DynamicFee, ArithmeticTheorems, SequenceTheorems

-----------------------------------------------------------------------------
(***************************************************************************)
(* Arithmetic                                                              *)
(***************************************************************************)

\* The sign of the net utilization is the one of used - target.
LEMMA NetSign ==
    ASSUME NEW used \in Nat, NEW target \in Nat \ {0}
    PROVE  /\ NetUtilization(used, target) \in Int
           /\ used >= target => NetUtilization(used, target) >= 0
           /\ used <= target => NetUtilization(used, target) <= 0
<1> DEFINE P == Precision
           b == target * P
<1>0. P \in Nat \ {0} /\ b \in Nat \ {0}
  BY PrecisionAssumption
<1>1. ASSUME NEW a \in Nat
      PROVE  /\ Quo(a, b) \in Nat
             /\ a = 0 => Quo(a, b) = 0
  <2> DEFINE n == a * P * P
             y == n \div b
  <2> HIDE DEF b
  <2>1. n \in Nat /\ (a = 0 => n = 0)
    BY <1>0
  <2> HIDE DEF n
  <2>2. y \in Nat /\ (n <= b * 0 => y <= 0)
    BY <2>1, <1>0, DivBounds, DivUpper
  <2>3. b * 0 = 0
    BY <1>0
  <2> HIDE DEF y
  <2>4. ChopPrecisionAndRound(y) \in Int /\ ChopPrecisionAndRound(y) >= 0
        /\ (y <= 0 => ChopPrecisionAndRound(y) <= 0)
    BY <2>2, ChopSign
  <2>5. Quo(a, b) = ChopPrecisionAndRound(y)
    BY DEF Quo, y, n
  <2> QED BY <2>1, <2>2, <2>3, <2>4, <2>5
<1> DEFINE a == (used - target) * P
<1>2. /\ a \in Int
      /\ used > target => a >= 0
      /\ used = target => a = 0
      /\ used < target => a < 0
  <2>1. CASE used > target
    <3>1. used - target \in Nat
      BY <2>1
    <3> QED BY <3>1, <2>1, <1>0
  <2>2. CASE used = target
    BY <2>2, <1>0
  <2>3. CASE used < target
    <3>1. PICK k \in Nat \ {0} : used - target = -k
      <4>1. target - used \in Nat \ {0} /\ used - target = -(target - used)
        BY <2>3
      <4> QED BY <4>1
    <3>2. (-k) * P = -(k * P) /\ k * P \in Nat \ {0}
      BY <1>0
    <3> QED BY <3>1, <3>2, <2>3
  <2> QED BY <2>1, <2>2, <2>3
<1>3. NetUtilization(used, target) = IF a < 0 THEN -Quo(-a, b) ELSE Quo(a, b)
  BY DEF NetUtilization, QuoSigned, NewDecFromInt
<1> HIDE DEF a, b
<1>4. a < 0 => -a \in Nat
  BY <1>2
<1>5. a >= 0 => a \in Nat
  BY <1>2
<1> QED BY <1>1, <1>2, <1>3, <1>4, <1>5

\* A block above its target does not lower the adjustment below 1, one below
\* its target does not raise it above 1.
LEMMA AdjustmentSide ==
    ASSUME NEW rate \in Nat, NEW used \in Nat, NEW target \in Nat \ {0}
    PROVE  /\ LearningRateAdjustment(rate, used, target) \in Int
           /\ used >= target => LearningRateAdjustment(rate, used, target) >= Precision
           /\ used <= target => LearningRateAdjustment(rate, used, target) <= Precision
<1> DEFINE net == NetUtilization(used, target)
           x == rate * net
<1>1. net \in Int /\ (used >= target => net >= 0) /\ (used <= target => net <= 0)
  BY NetSign
<1> HIDE DEF net
<1>2. x \in Int /\ (net >= 0 => x >= 0) /\ (net <= 0 => x <= 0)
  BY <1>1
<1> HIDE DEF x
<1>3. ChopPrecisionAndRound(x) \in Int /\ (x >= 0 => ChopPrecisionAndRound(x) >= 0)
      /\ (x <= 0 => ChopPrecisionAndRound(x) <= 0)
  BY <1>2, ChopSign
<1>4. LearningRateAdjustment(rate, used, target) = Precision + ChopPrecisionAndRound(x)
  BY DEF LearningRateAdjustment, Mul, x, net
<1> QED BY <1>1, <1>2, <1>3, <1>4, PrecisionAssumption

\* Multiplying by a factor on one side of 1 leaves the price on that side.
LEMMA PriceSide ==
    ASSUME NEW price \in Nat, NEW adj \in Int
    PROVE  /\ Mul(price, adj) \in Int
           /\ adj >= Precision => Mul(price, adj) >= price
           /\ adj <= Precision => Mul(price, adj) <= price
<1> DEFINE x == price * adj
<1>1. Mul(price, adj) = ChopPrecisionAndRound(x)
  BY DEF Mul
<1>2. x \in Int /\ Precision \in Nat \ {0}
  BY PrecisionAssumption
<1>3. ChopPrecisionAndRound(x) \in Int /\ (x <= 0 => ChopPrecisionAndRound(x) <= 0)
  BY <1>2, ChopSign
<1>4. ASSUME adj >= Precision PROVE ChopPrecisionAndRound(x) >= price
  <2>1. adj \in Nat
    BY <1>2, <1>4
  <2>2. Precision * price <= adj * price
    BY <2>1, <1>2, <1>4, MulMono
  <2>3. adj * price = x /\ x \in Nat
    BY <2>1
  <2> HIDE DEF x
  <2> QED BY <2>2, <2>3, ChopBounds
<1>5. ASSUME adj <= Precision PROVE ChopPrecisionAndRound(x) <= price
  <2>1. CASE adj >= 0
    <3>1. adj \in Nat
      BY <2>1
    <3>2. adj * price <= Precision * price
      BY <3>1, <1>2, <1>5, MulMono
    <3>3. adj * price = x /\ x \in Nat
      BY <3>1
    <3> HIDE DEF x
    <3> QED BY <3>2, <3>3, ChopBounds
  <2>2. CASE adj < 0
    <3>1. x <= 0
      BY <2>2
    <3> HIDE DEF x
    <3> QED BY <3>1, <1>3
  <2> QED BY <2>1, <2>2
<1> QED BY <1>1, <1>3, <1>4, <1>5

-----------------------------------------------------------------------------
(***************************************************************************)
(* One block                                                               *)
(***************************************************************************)

\* The limit, the target and the recorded gas are natural numbers.
LEMMA GasTypes ==
    ASSUME params \in ParamSets, maxGas \in MaxGasValues, NEW gas \in BlockGas
    PROVE  /\ GetMaxBlockGas(params) \in Nat
           /\ GetTargetBlockGas(GetMaxBlockGas(params), params) \in Nat
           /\ RecordedGas(gas, GetMaxBlockGas(params)) \in Nat
<1> DEFINE g == GetMaxBlockGas(params)
           u == params.TargetBlockUtilization
           x == g * Precision * u
<1>1. g \in Nat /\ u \in Nat /\ gas \in Nat
  BY DynamicFeeAssumption DEF GetMaxBlockGas, ValidParams, Unlimited
<1> HIDE DEF g, u
<1>2. x \in Nat
  BY <1>1, PrecisionAssumption
<1> HIDE DEF x
<1>3. ChopPrecisionAndRound(x) \in Nat
  BY <1>2, ChopSign
<1>4. ChopPrecisionAndRound(x) \div Precision \in Nat
  BY <1>3, PrecisionAssumption, DivBounds
<1>5. GetTargetBlockGas(g, params) = ChopPrecisionAndRound(x) \div Precision
  BY DEF GetTargetBlockGas, TruncateInt, Mul, NewDecFromInt, x, u
<1>6. RecordedGas(gas, g) \in Nat
  BY <1>1 DEF RecordedGas
<1> QED BY <1>1, <1>4, <1>5, <1>6 DEF g

\* Whatever the average gas, the next rate is between its bounds.
LEMMA RateBounds ==
    ASSUME NEW p \in ParamSets, NEW avg,
           NEW rate \in p.MinLearningRate .. p.MaxLearningRate
    PROVE  UpdateLearningRate(rate, avg, p)
               \in p.MinLearningRate .. p.MaxLearningRate
<1> DEFINE lo == p.MinLearningRate
           hi == p.MaxLearningRate
           grown == rate + p.Alpha
           shrunk == Mul(rate, p.Beta)
<1>1. /\ lo \in Nat /\ hi \in Nat /\ lo <= hi /\ p.Alpha \in Nat
      /\ p.Beta \in Int /\ p.Beta <= Precision
  BY DynamicFeeAssumption, PrecisionAssumption DEF ValidParams
<1>2. rate \in Nat
  BY <1>1
<1>3. shrunk \in Int /\ shrunk <= rate
  BY <1>1, <1>2, PriceSide
<1>4. grown \in Int /\ grown >= lo
  BY <1>1, <1>2
<1> HIDE DEF lo, hi, grown, shrunk
<1>5. Min({grown, hi}) \in lo .. hi
  BY <1>1, <1>4, MinOfTwo
<1>6. rate \in lo .. hi
  BY DEF lo, hi
<1>7. Max({shrunk, lo}) \in lo .. hi
  BY <1>1, <1>2, <1>3, <1>6, MaxOfTwo
<1>8. UpdateLearningRate(rate, avg, p) \in {lo, Min({grown, hi}), Max({shrunk, lo})}
  BY DEF UpdateLearningRate, lo, hi, grown, shrunk
<1>9. lo \in lo .. hi
  BY <1>1
<1> QED BY <1>5, <1>7, <1>8, <1>9 DEF lo, hi

\* The next price keeps to its bounds, and follows the block unless both
\* price and rate are reset.
LEMMA PriceBounds ==
    ASSUME NEW p \in ParamSets, NEW used \in Nat, NEW target \in Nat,
           NEW rate \in p.MinLearningRate .. p.MaxLearningRate,
           NEW price \in p.MinBaseGasPrice .. MaxDec
    PROVE  LET priced == UpdateBaseGasPrice(price, rate, used, target, p)
           IN  /\ priced[1] \in p.MinBaseGasPrice .. MaxDec
               /\ priced[2] \in p.MinLearningRate .. p.MaxLearningRate
               /\ \/ /\ priced[1] = p.MinBaseGasPrice
                     /\ priced[2] = p.MinLearningRate
                  \/ /\ used >= target => priced[1] >= price
                     /\ used <= target => priced[1] <= price
<1> DEFINE lo == p.MinBaseGasPrice
           priced == UpdateBaseGasPrice(price, rate, used, target, p)
           adj == LearningRateAdjustment(rate, used, target)
           moved == Mul(price, adj)
<1>1. /\ lo \in Nat /\ lo <= MaxDec /\ MaxDec \in Nat
      /\ p.MinLearningRate \in Nat /\ p.MaxLearningRate \in Nat
      /\ p.MinLearningRate <= p.MaxLearningRate
  BY DynamicFeeAssumption DEF ValidParams
<1>2. CASE Panics(price, rate, used, target)
  <2>1. priced = <<lo, p.MinLearningRate>>
    BY <1>2 DEF UpdateBaseGasPrice
  <2> QED BY <2>1, <1>1
<1>3. CASE ~Panics(price, rate, used, target)
  <2>1. target \in Nat \ {0} /\ ~(moved > MaxDec)
    BY <1>3 DEF Panics, Overflows
  <2>2. rate \in Nat /\ price \in Nat
    BY <1>1
  <2>3. /\ adj \in Int
        /\ used >= target => adj >= Precision
        /\ used <= target => adj <= Precision
    BY <2>1, <2>2, AdjustmentSide
  <2> HIDE DEF adj
  <2>4. /\ moved \in Int
        /\ used >= target => moved >= price
        /\ used <= target => moved <= price
    BY <2>2, <2>3, PriceSide
  <2>5. priced = <<Max({moved, lo}), rate>>
    BY <1>3 DEF UpdateBaseGasPrice, adj
  <2>6. price \in lo .. MaxDec
    OBVIOUS
  <2> HIDE DEF moved, lo
  <2>7. Max({moved, lo}) = IF moved >= lo THEN moved ELSE lo
    BY <2>4, <1>1, MaxOfTwo
  <2> HIDE DEF priced
  <2>8. /\ priced[1] \in lo .. MaxDec
        /\ used >= target => priced[1] >= price
        /\ used <= target => priced[1] <= price
    BY <2>1, <2>2, <2>4, <2>5, <2>6, <2>7, <1>1
  <2>9. priced[2] \in p.MinLearningRate .. p.MaxLearningRate
    BY <2>5
  <2> QED BY <2>8, <2>9 DEF lo, priced
<1> QED BY <1>2, <1>3

-----------------------------------------------------------------------------
(***************************************************************************)
(* The window and the blocks it stands for                                 *)
(***************************************************************************)

\* The slot, from 0, of the block i before the one at Index a, in a window of n.
Slot(a, n, i) == IF i <= a THEN a - i ELSE a + n - i

\* In a window of n an index wraps around at most once.
LEMMA ModWrap ==
    ASSUME NEW n \in Nat \ {0}, NEW x \in 0 .. 2 * n - 1
    PROVE  x % n = IF x < n THEN x ELSE x - n
<1> DEFINE q == x \div n
           r == x % n
<1>0. x \in Nat
  OBVIOUS
<1>1. q \in Nat /\ r \in 0 .. n - 1 /\ x = n * q + r
  BY <1>0, DivBounds
<1> HIDE DEF q, r
<1>2. CASE q = 0
  BY <1>1, <1>2 DEF r
<1>3. CASE q = 1
  BY <1>1, <1>3 DEF r
<1>4. CASE q > 1
  <2>1. 2 * n <= q * n /\ q * n = n * q
    BY <1>1, <1>4, MulMono
  <2> QED BY <2>1, <1>1
<1> QED BY <1>1, <1>2, <1>3, <1>4

\* IncrementHeight moves Index to the next slot, or back to the first.
LEMMA NextIndex ==
    ASSUME NEW n \in Nat \ {0}, NEW a \in 0 .. n - 1
    PROVE  (a + 1) % n = IF a + 1 = n THEN 0 ELSE a + 1
<1> DEFINE x == a + 1
<1>1. x \in 0 .. 2 * n - 1
  OBVIOUS
<1> HIDE DEF x
<1>2. x % n = IF x < n THEN x ELSE x - n
  BY <1>1, ModWrap
<1> QED BY <1>2 DEF x

\* Between blocks the slot at Index is empty, and going back from it the
\* window w holds the last gas of h.
Remembers(w, a, h) ==
    \A i \in 1 .. Len(w) :
        w[Slot(a, Len(w), i) + 1] = IF i < Len(w) /\ i <= Len(h) THEN h[Len(h) - i + 1] ELSE 0

\* While a block is processed, so does the slot at Index.
Filled(w, a, h) ==
    \A i \in 0 .. Len(w) - 1 :
        w[Slot(a, Len(w), i) + 1] = IF i < Len(h) THEN h[Len(h) - i] ELSE 0

\* What WindowIsHistory says of window, index and history.
Holds(w, a, h) ==
    LET n == Len(w)
        slot(i) == (a + n - i) % n
    IN  \A i \in 1 .. n :
            w[slot(i) + 1] = IF i < n /\ i <= Len(h) THEN h[Len(h) - i + 1] ELSE 0

\* The same, without remainders.
LEMMA HistoryRemembered ==
    ASSUME NEW n \in Nat \ {0}, NEW w, Len(w) = n, NEW a \in 0 .. n - 1, NEW h
    PROVE  Holds(w, a, h) <=> Remembers(w, a, h)
<1>1. ASSUME NEW i \in 1 .. n PROVE (a + n - i) % n = Slot(a, n, i)
  <2> DEFINE x == a + n - i
  <2>1. x \in 0 .. 2 * n - 1
    OBVIOUS
  <2> HIDE DEF x
  <2>2. x % n = IF x < n THEN x ELSE x - n
    BY <2>1, ModWrap
  <2> QED BY <2>2 DEF x, Slot
<1>2. Holds(w, a, h) <=>
        \A i \in 1 .. n : w[((a + n - i) % n) + 1] =
            IF i < n /\ i <= Len(h) THEN h[Len(h) - i + 1] ELSE 0
  BY Zenon DEF Holds
<1>3. Remembers(w, a, h) <=>
        \A i \in 1 .. n : w[Slot(a, n, i) + 1] =
            IF i < n /\ i <= Len(h) THEN h[Len(h) - i + 1] ELSE 0
  BY Zenon DEF Remembers
<1> QED BY <1>1, <1>2, <1>3, Zenon

\* k is the history h of at most n blocks and, after it, a block that used u.
Longer(k, h, u, n) ==
    /\ k \in Seq(Nat)
    /\ Len(k) = IF Len(h) < n THEN Len(h) + 1 ELSE n
    /\ \A i \in 0 .. Len(k) - 1 : k[Len(k) - i] = IF i = 0 THEN u ELSE h[Len(h) - i + 1]

\* What EndBlock adds to the history, and what it keeps of it.
LEMMA LastOfAppend ==
    ASSUME NEW h \in Seq(Nat), NEW u \in Nat, NEW n \in Nat \ {0}, Len(h) <= n
    PROVE  Longer(LastOf(Append(h, u), n), h, u, n)
<1> DEFINE b == Append(h, u)
           k == LastOf(b, n)
<1>1. /\ b \in Seq(Nat) /\ Len(b) = Len(h) + 1 /\ b[Len(b)] = u
      /\ \A j \in 1 .. Len(h) : b[j] = h[j]
  OBVIOUS
<1> HIDE DEF b
<1>2. CASE Len(h) < n
  <2>0. Len(b) <= n
    BY <1>1, <1>2
  <2>1. k = b
    BY <2>0, Zenon DEF LastOf
  <2>2. ASSUME NEW i \in 0 .. Len(b) - 1
        PROVE  b[Len(b) - i] = IF i = 0 THEN u ELSE h[Len(h) - i + 1]
    <3>1. CASE i = 0
      BY <3>1, <1>1
    <3>2. CASE i # 0
      <4>1. Len(b) - i \in 1 .. Len(h) /\ Len(b) - i = Len(h) - i + 1
        BY <3>2, <1>1
      <4> QED BY <4>1, <3>2, <1>1, Zenon
    <3> QED BY <3>1, <3>2
  <2> QED BY <2>1, <2>2, <1>1, <1>2 DEF Longer, b
<1>3. CASE Len(h) = n
  <2>1. k = SubSeq(b, 2, Len(b))
    <3>1. ~(Len(b) <= n) /\ Len(b) - n + 1 = 2
      BY <1>1, <1>3
    <3> QED BY <3>1, Zenon DEF LastOf
  <2>2. k \in Seq(Nat) /\ Len(k) = n /\ \A j \in 1 .. n : k[j] = b[j + 1]
    <3> DEFINE m == Len(b)
    <3>1. m = n + 1 /\ m \in Int /\ 2 \in Int /\ \A i \in 2 .. m : b[i] \in Nat
      BY <1>1, <1>3
    <3> HIDE DEF m
    <3>2. /\ SubSeq(b, 2, m) \in Seq(Nat)
          /\ Len(SubSeq(b, 2, m)) = IF 2 <= m THEN m - 2 + 1 ELSE 0
          /\ \A i \in 1 .. m - 2 + 1 : SubSeq(b, 2, m)[i] = b[2 + i - 1]
      BY <3>1, SubSeqProperties
    <3>3. k = SubSeq(b, 2, m)
      BY <2>1 DEF m
    <3> HIDE DEF k
    <3>4. \A j \in 1 .. n : 2 + j - 1 = j + 1 /\ j \in 1 .. m - 2 + 1
      BY <3>1
    <3> QED BY <3>1, <3>2, <3>3, <3>4
  <2> HIDE DEF k
  <2>3. ASSUME NEW i \in 0 .. n - 1
        PROVE  k[n - i] = IF i = 0 THEN u ELSE h[Len(h) - i + 1]
    <3>1. n - i \in 1 .. n /\ k[n - i] = b[n - i + 1]
      BY <2>2
    <3>2. CASE i = 0
      BY <3>1, <3>2, <1>1, <1>3
    <3>3. CASE i # 0
      <4>1. n - i + 1 \in 1 .. Len(h) /\ Len(h) - i + 1 = n - i + 1
        BY <3>3, <1>3
      <4>2. b[n - i + 1] = h[n - i + 1]
        BY <4>1, <1>1
      <4> QED BY <3>1, <3>3, <4>1, <4>2, Zenon
    <3> QED BY <3>2, <3>3
  <2> QED BY <2>2, <2>3, <1>3 DEF Longer, k, b
<1> QED BY <1>2, <1>3

\* SetWindow: the gas of the block fills the slot at Index.
LEMMA RecordFills ==
    ASSUME NEW n \in Nat \ {0}, NEW w \in Seq(Nat), Len(w) = n, NEW a \in 0 .. n - 1,
           NEW h \in Seq(Nat), Len(h) <= n, Remembers(w, a, h), NEW u \in Nat
    PROVE  Filled([w EXCEPT ![a + 1] = u], a, LastOf(Append(h, u), n))
<1> DEFINE k == LastOf(Append(h, u), n)
           v == [w EXCEPT ![a + 1] = u]
<1>0. Longer(k, h, u, n)
  BY LastOfAppend
<1> HIDE DEF k
<1>1. /\ k \in Seq(Nat) /\ Len(k) = IF Len(h) < n THEN Len(h) + 1 ELSE n
      /\ \A i \in 0 .. Len(k) - 1 : k[Len(k) - i] = IF i = 0 THEN u ELSE h[Len(h) - i + 1]
  BY <1>0, Zenon DEF Longer
<1>2. v \in Seq(Nat) /\ Len(v) = n /\ v[a + 1] = u /\ \A j \in 1 .. n : j # a + 1 => v[j] = w[j]
  BY ExceptSeq
<1> HIDE DEF v
<1>3. ASSUME NEW i \in 0 .. n - 1
      PROVE  v[Slot(a, n, i) + 1] = IF i < Len(k) THEN k[Len(k) - i] ELSE 0
  <2>1. CASE i = 0
    <3>1. Slot(a, n, i) = a /\ i < Len(k)
      BY <2>1, <1>1 DEF Slot
    <3>2. v[Slot(a, n, i) + 1] = u
      BY <3>1, <1>2
    <3>3. k[Len(k) - i] = u
      <4>1. i \in 0 .. Len(k) - 1
        BY <3>1, <1>1
      <4> QED BY <4>1, <2>1, <1>1, Zenon
    <3> QED BY <3>1, <3>2, <3>3
  <2>2. CASE i > 0
    <3>1. Slot(a, n, i) + 1 \in 1 .. n /\ Slot(a, n, i) + 1 # a + 1
      BY <2>2 DEF Slot
    <3>2. v[Slot(a, n, i) + 1] = w[Slot(a, n, i) + 1]
      BY <3>1, <1>2, Zenon
    <3>3. w[Slot(a, n, i) + 1] = IF i <= Len(h) THEN h[Len(h) - i + 1] ELSE 0
      BY <2>2 DEF Remembers
    <3> QED BY <3>2, <3>3, <2>2, <1>1
  <2> QED BY <2>1, <2>2
<1> QED BY <1>2, <1>3 DEF Filled, v, k

\* IncrementHeight: clearing the next slot forgets the oldest block.
LEMMA IncrementForgets ==
    ASSUME NEW n \in Nat \ {0}, NEW w \in Seq(Nat), Len(w) = n, NEW a \in 0 .. n - 1,
           NEW h \in Seq(Nat), Filled(w, a, h)
    PROVE  Remembers(IncrementHeight(w, a).Window, IncrementHeight(w, a).Index, h)
<1> DEFINE b == (a + 1) % n
           v == [w EXCEPT ![b + 1] = 0]
<1>1. b = IF a + 1 = n THEN 0 ELSE a + 1
  BY NextIndex
<1>2. IncrementHeight(w, a) = [Window |-> v, Index |-> b]
  BY DEF IncrementHeight
<1> HIDE DEF b
<1>3. v \in Seq(Nat) /\ Len(v) = n /\ v[b + 1] = 0 /\ \A j \in 1 .. n : j # b + 1 => v[j] = w[j]
  BY <1>1, ExceptSeq
<1> HIDE DEF v
<1>4. ASSUME NEW i \in 1 .. n
      PROVE  v[Slot(b, n, i) + 1] = IF i < n /\ i <= Len(h) THEN h[Len(h) - i + 1] ELSE 0
  <2>1. CASE i = n
    <3>1. Slot(b, n, i) = b
      BY <2>1, <1>1 DEF Slot
    <3> QED BY <3>1, <2>1, <1>3
  <2>2. CASE i < n
    <3>1. /\ Slot(b, n, i) = Slot(a, n, i - 1)
          /\ Slot(b, n, i) + 1 \in 1 .. n /\ Slot(b, n, i) + 1 # b + 1
      BY <2>2, <1>1 DEF Slot
    <3>2. v[Slot(b, n, i) + 1] = w[Slot(a, n, i - 1) + 1]
      BY <3>1, <1>3, SMTT(30)
    <3>3. i - 1 \in 0 .. n - 1
      OBVIOUS
    <3>4. w[Slot(a, n, i - 1) + 1] = IF i - 1 < Len(h) THEN h[Len(h) - (i - 1)] ELSE 0
      BY <3>3 DEF Filled
    <3> QED BY <3>2, <3>4, <2>2
  <2> QED BY <2>1, <2>2
<1>5. Remembers(v, b, h)
  BY <1>3, <1>4, SMTT(30) DEF Remembers
<1>6. IncrementHeight(w, a).Window = v /\ IncrementHeight(w, a).Index = b
  BY <1>2
<1> QED BY <1>5, <1>6, Zenon

\* The total that GetAverageGas divides is the gas of the last blocks.
LEMMA WindowSum ==
    ASSUME NEW n \in Nat \ {0}, NEW w \in Seq(Nat), Len(w) = n, NEW a \in 0 .. n - 1,
           NEW h \in Seq(Nat), Len(h) <= n, Filled(w, a, h)
    PROVE  TotalGas(w) = TotalGas(h) /\ TotalGas(h) \in Nat
<1> DEFINE m == Len(h)
           p == [j \in 1 .. m |-> Slot(a, n, m - j) + 1]
<1>1. m \in 0 .. n
  OBVIOUS
<1>2. IsFiniteSet(1 .. m) /\ IsFiniteSet(1 .. n)
  BY <1>1, FS_Interval
<1>3. h \in [1 .. m -> Nat] /\ w \in [1 .. n -> Nat]
  OBVIOUS
<1>4. \A i \in 0 .. n - 1 : w[Slot(a, n, i) + 1] = IF i < m THEN h[m - i] ELSE 0
  BY Zenon DEF Filled
<1>5. TotalGas(w) = SumFunctionOnSet(w, 1 .. n) /\ TotalGas(h) = SumFunctionOnSet(h, 1 .. m)
  BY <1>3, Zenon DEF TotalGas, SumFunction
<1> HIDE DEF m
<1>6. p \in [1 .. m -> 1 .. n]
  BY <1>1 DEF Slot
<1>7. \A x, y \in 1 .. m : p[x] = p[y] => x = y
  BY <1>1 DEF Slot
<1>8. ASSUME NEW x \in 1 .. m PROVE w[p[x]] = h[x]
  <2>1. m - x \in 0 .. n - 1 /\ m - x < m /\ m - (m - x) = x
    BY <1>1
  <2>2. p[x] = Slot(a, n, m - x) + 1
    OBVIOUS
  <2> HIDE DEF p
  <2> QED BY <1>4, <2>1, <2>2
<1>9. ASSUME NEW y \in 1 .. n, \A x \in 1 .. m : p[x] # y PROVE w[y] = 0
  <2> DEFINE i == IF y - 1 <= a THEN a - (y - 1) ELSE a + n - (y - 1)
  <2>1. i \in 0 .. n - 1 /\ Slot(a, n, i) + 1 = y
    BY DEF Slot
  <2> HIDE DEF i
  <2>2. ASSUME i < m PROVE FALSE
    <3>1. m - i \in 1 .. m /\ m - (m - i) = i
      BY <2>1, <2>2, <1>1
    <3>2. p[m - i] = Slot(a, n, m - (m - i)) + 1
      BY <3>1
    <3> QED BY <3>1, <3>2, <2>1, <1>9, Zenon
  <2> QED BY <2>1, <2>2, <1>4, Zenon
<1>10. h \in [1 .. m -> Int] /\ w \in [1 .. n -> Int]
  BY <1>3 DEF m
<1> HIDE DEF p
<1>11. SumFunctionOnSet(h, 1 .. m) = SumFunctionOnSet(w, 1 .. n)
  <2>1. \A x \in 1 .. m : w[p[x]] = h[x]
    BY <1>8
  <2>2. \A y \in 1 .. n : (\A x \in 1 .. m : p[x] # y) => w[y] = 0
    BY <1>9
  <2> DEFINE A == 1 .. m
             B == 1 .. n
  <2>3. /\ IsFiniteSet(A) /\ IsFiniteSet(B) /\ h \in [A -> Int] /\ w \in [B -> Int]
        /\ Places(p, A, h, B, w)
    BY <1>2, <1>6, <1>7, <2>1, <2>2, <1>10, Zenon DEF Places
  <2> HIDE DEF A, B
  <2>4. SumFunctionOnSet(h, A) = SumFunctionOnSet(w, B)
    BY <2>3, SumInjected
  <2> QED BY <2>4, Zenon DEF A, B
<1>12. SumFunctionOnSet(h, 1 .. m) \in Int /\ SumFunctionOnSet(h, 1 .. m) >= 0
  <2>1. \A x \in 1 .. m : h[x] >= 0
    BY <1>3 DEF m
  <2> QED BY <2>1, <1>2, <1>10, SumRemove, SumNat
<1> QED BY <1>5, <1>11, <1>12 DEF m

-----------------------------------------------------------------------------
(***************************************************************************)
(* The inductive invariant                                                 *)
(***************************************************************************)

\* What the bounds rest on: the window has the length the parameters say,
\* Index is one of its slots, and price and rate are within bounds.
FInv ==
    /\ params \in ParamSets
    /\ maxGas \in MaxGasValues
    /\ state.Window \in Seq(Nat) /\ Len(state.Window) = params.Window
    /\ state.Index \in 0 .. params.Window - 1
    /\ state.BaseGasPrice \in params.MinBaseGasPrice .. MaxDec
    /\ state.LearningRate \in params.MinLearningRate .. params.MaxLearningRate

\* What the learning rate rests on as well: the window is the history.
HInv ==
    /\ FInv
    /\ history \in Seq(Nat) /\ Len(history) <= params.Window
    /\ WindowIsHistory

\* A new state satisfies the invariant for the parameters it is made for.
LEMMA NewStateFits ==
    ASSUME NEW p \in ParamSets
    PROVE  LET s == StateFor(p)
           IN  /\ s.Window \in Seq(Nat) /\ Len(s.Window) = p.Window
               /\ s.Index \in 0 .. p.Window - 1
               /\ s.BaseGasPrice \in p.MinBaseGasPrice .. MaxDec
               /\ s.LearningRate \in p.MinLearningRate .. p.MaxLearningRate
<1>1. /\ p.Window \in Nat \ {0} /\ p.MinBaseGasPrice \in Nat
      /\ p.MinBaseGasPrice <= MaxDec /\ MaxDec \in Nat
      /\ p.MinLearningRate \in Nat /\ p.MaxLearningRate \in Nat
      /\ p.MinLearningRate <= p.MaxLearningRate
  BY DynamicFeeAssumption DEF ValidParams
<1> DEFINE w == [i \in 1 .. p.Window |-> 0]
<1>2. w \in Seq(Nat) /\ Len(w) = p.Window
  BY <1>1
<1> HIDE DEF w
<1>3. StateFor(p) = [Window |-> w, BaseGasPrice |-> p.MinBaseGasPrice,
                     Index |-> 0, LearningRate |-> p.MinLearningRate]
  BY DEF StateFor, NewState, w
<1> QED BY <1>1, <1>2, <1>3

\* What one block does to the state.
LEMMA BlockStep ==
    ASSUME FInv, NEW gas \in BlockGas
    PROVE  LET s == UpdateDynamicfee(gas)
               target == GetTargetBlockGas(GetMaxBlockGas(params), params)
               used == RecordedGas(gas, GetMaxBlockGas(params))
               price == state.BaseGasPrice
           IN  /\ s.Window \in Seq(Nat) /\ Len(s.Window) = params.Window
               /\ s.Index \in 0 .. params.Window - 1
               /\ s.BaseGasPrice \in params.MinBaseGasPrice .. MaxDec
               /\ s.LearningRate \in params.MinLearningRate .. params.MaxLearningRate
               /\ \/ /\ s.BaseGasPrice = params.MinBaseGasPrice
                     /\ s.LearningRate = params.MinLearningRate
                  \/ /\ used >= target => s.BaseGasPrice >= price
                     /\ used <= target => s.BaseGasPrice <= price
<1> DEFINE maxBlockGas == GetMaxBlockGas(params)
           used == RecordedGas(gas, maxBlockGas)
           target == GetTargetBlockGas(maxBlockGas, params)
           n == params.Window
           window == [state.Window EXCEPT ![state.Index + 1] = used]
           avg == GetAverageGas(window, maxBlockGas)
           rate == UpdateLearningRate(state.LearningRate, avg, params)
           priced == UpdateBaseGasPrice(state.BaseGasPrice, rate, used, target, params)
           next == (state.Index + 1) % Len(window)
           cleared == [window EXCEPT ![next + 1] = 0]
<1>1. used \in Nat /\ target \in Nat
  BY GasTypes DEF FInv
<1>2. n \in Nat \ {0} /\ params \in ParamSets
  BY DynamicFeeAssumption DEF FInv, ValidParams
<1>3. UpdateDynamicfee(gas) = [Window |-> cleared, Index |-> next,
          BaseGasPrice |-> priced[1], LearningRate |-> priced[2]]
  BY DEF UpdateDynamicfee, IncrementHeight
<1>4. rate \in params.MinLearningRate .. params.MaxLearningRate
  <2> HIDE DEF avg
  <2> QED BY <1>2, RateBounds DEF FInv
<1> HIDE DEF used, target, avg, rate, maxBlockGas
<1>5. window \in Seq(Nat) /\ Len(window) = n
  BY <1>1, <1>2, ExceptSeq DEF FInv
<1> HIDE DEF window
<1>6. next \in 0 .. n - 1
  BY SMTT(60), <1>2, <1>5 DEF FInv
<1> HIDE DEF next
<1>7. cleared \in Seq(Nat) /\ Len(cleared) = n
  BY <1>2, <1>5, <1>6, ExceptSeq
<1> HIDE DEF cleared
<1>8. /\ priced[1] \in params.MinBaseGasPrice .. MaxDec
      /\ priced[2] \in params.MinLearningRate .. params.MaxLearningRate
      /\ \/ /\ priced[1] = params.MinBaseGasPrice
            /\ priced[2] = params.MinLearningRate
         \/ /\ used >= target => priced[1] >= state.BaseGasPrice
            /\ used <= target => priced[1] <= state.BaseGasPrice
  BY <1>1, <1>2, <1>4, PriceBounds DEF FInv
<1> HIDE DEF priced
<1> QED BY <1>3, <1>6, <1>7, <1>8 DEF used, target, maxBlockGas

\* The invariant holds at genesis, and every step keeps it.
LEMMA InitFits == Init => FInv
BY NewStateFits DEF Init, FInv

\* A block, a parameter change and a change of the block limit keep it.
LEMMA NextFits == FInv /\ [Next]_vars => FInv'
<1> SUFFICES ASSUME FInv, [Next]_vars PROVE FInv'
  OBVIOUS
<1>1. ASSUME NEW gas \in BlockGas, EndBlock(gas) PROVE FInv'
  <2>1. CASE params.Enabled
    <3>1. state' = UpdateDynamicfee(gas) /\ UNCHANGED <<params, maxGas>>
      BY <1>1, <2>1 DEF EndBlock
    <3> QED BY <3>1, BlockStep DEF FInv
  <2>2. CASE ~params.Enabled
    BY <1>1, <2>2 DEF EndBlock, FInv
  <2> QED BY <2>1, <2>2
<1>2. ASSUME NEW p \in ParamSets, UpdateParams(p) PROVE FInv'
  BY <1>2, NewStateFits DEF UpdateParams, FInv
<1>3. ASSUME NEW g \in MaxGasValues, UpdateMaxGas(g) PROVE FInv'
  BY <1>3 DEF UpdateMaxGas, FInv
<1>4. CASE UNCHANGED vars
  BY <1>4 DEF vars, FInv
<1> QED BY <1>1, <1>2, <1>3, <1>4 DEF Next

\* The invariant always holds.
LEMMA AlwaysFits == Spec => []FInv
BY InitFits, NextFits, PTL DEF Spec

\* What a block makes of the window and of the rate.
LEMMA BlockRecords ==
    ASSUME HInv, NEW gas \in BlockGas
    PROVE  LET s == UpdateDynamicfee(gas)
               room == GetMaxBlockGas(params)
               h == LastOf(Append(history, RecordedGas(gas, room)), params.Window)
               avg == Quo(NewDecFromInt(TotalGas(h) % 2 ^ Width),
                          NewDecFromInt(room * params.Window))
           IN  /\ h \in Seq(Nat) /\ Len(h) <= params.Window /\ TotalGas(h) \in Nat
               /\ Remembers(s.Window, s.Index, h)
               /\ \/ s.LearningRate = UpdateLearningRate(state.LearningRate, avg, params)
                  \/ /\ s.LearningRate = params.MinLearningRate
                     /\ s.BaseGasPrice = params.MinBaseGasPrice
<1> DEFINE room == GetMaxBlockGas(params)
           used == RecordedGas(gas, room)
           target == GetTargetBlockGas(room, params)
           n == params.Window
           a == state.Index
           w == [state.Window EXCEPT ![a + 1] = used]
           h == LastOf(Append(history, used), n)
           rate == UpdateLearningRate(state.LearningRate, GetAverageGas(w, room), params)
           priced == UpdateBaseGasPrice(state.BaseGasPrice, rate, used, target, params)
           moved == IncrementHeight(w, a)
<1>1. used \in Nat
  BY GasTypes DEF HInv, FInv
<1>2. /\ n \in Nat \ {0} /\ a \in 0 .. n - 1 /\ state.Window \in Seq(Nat) /\ Len(state.Window) = n
      /\ history \in Seq(Nat) /\ Len(history) <= n
  BY DynamicFeeAssumption DEF HInv, FInv, ValidParams
<1>3. UpdateDynamicfee(gas) = [Window |-> moved.Window, Index |-> moved.Index,
          BaseGasPrice |-> priced[1], LearningRate |-> priced[2]]
  BY DEF UpdateDynamicfee
<1>4. priced = <<params.MinBaseGasPrice, params.MinLearningRate>> \/ priced[2] = rate
  BY DEF UpdateBaseGasPrice
<1> HIDE DEF priced, used, n, a, room
<1>5. Remembers(state.Window, a, history)
  <2>1. Holds(state.Window, a, history)
    BY Zenon DEF HInv, WindowIsHistory, Holds, a
  <2> QED BY <1>2, <2>1, HistoryRemembered
<1>6. w \in Seq(Nat) /\ Len(w) = n
  <2>1. a + 1 \in 1 .. Len(state.Window)
    BY <1>2
  <2> QED BY <2>1, <1>1, <1>2, ExceptSeq
<1>7. Longer(h, history, used, n)
  BY <1>1, <1>2, LastOfAppend
<1>8. Filled(w, a, h)
  BY <1>1, <1>2, <1>5, RecordFills
<1> HIDE DEF w, h
<1>9. h \in Seq(Nat) /\ Len(h) <= n
  BY <1>2, <1>7 DEF Longer
<1>10. Remembers(moved.Window, moved.Index, h)
  BY <1>2, <1>6, <1>8, <1>9, IncrementForgets
<1>11. TotalGas(w) = TotalGas(h) /\ TotalGas(h) \in Nat
  BY <1>2, <1>6, <1>8, <1>9, WindowSum
<1>12. GetAverageGas(w, room) = Quo(NewDecFromInt(TotalGas(h) % 2 ^ Width), NewDecFromInt(room * n))
  BY <1>6, <1>11, Zenon DEF GetAverageGas
<1> HIDE DEF moved
<1>13. /\ UpdateDynamicfee(gas).Window = moved.Window /\ UpdateDynamicfee(gas).Index = moved.Index
       /\ UpdateDynamicfee(gas).BaseGasPrice = priced[1]
       /\ UpdateDynamicfee(gas).LearningRate = priced[2]
  BY <1>3
<1> DEFINE lo == params.MinBaseGasPrice
           least == params.MinLearningRate
<1>14. priced[2] = rate \/ (priced[1] = lo /\ priced[2] = least)
  <2>1. priced = <<lo, least>> \/ priced[2] = rate
    BY <1>4, Zenon
  <2>2. <<lo, least>>[1] = lo /\ <<lo, least>>[2] = least
    OBVIOUS
  <2> QED BY <2>1, <2>2, Zenon
<1>15. rate = UpdateLearningRate(state.LearningRate,
                  Quo(NewDecFromInt(TotalGas(h) % 2 ^ Width), NewDecFromInt(room * n)), params)
  BY <1>12, Zenon
<1> HIDE DEF rate
<1> QED BY <1>9, <1>10, <1>11, <1>13, <1>14, <1>15, Zenon DEF h, used, n, room

\* A state for new parameters remembers nothing.
LEMMA NewStateForgets ==
    ASSUME NEW p \in ParamSets
    PROVE  Remembers(StateFor(p).Window, StateFor(p).Index, <<>>)
<1> DEFINE n == p.Window
           w == [i \in 1 .. n |-> 0]
<1>1. n \in Nat \ {0}
  BY DynamicFeeAssumption DEF ValidParams
<1>2. StateFor(p).Window = w /\ StateFor(p).Index = 0
  BY DEF StateFor, NewState
<1>3. Len(w) = n
  BY <1>1
<1> HIDE DEF n
<1>4. ASSUME NEW i \in 1 .. n
      PROVE  w[Slot(0, n, i) + 1] = 0 /\ ~(i <= Len(<<>>))
  BY <1>1 DEF Slot
<1> HIDE DEF w
<1> QED BY <1>2, <1>3, <1>4 DEF Remembers

\* The window is the history at genesis and after every step.
LEMMA HistoryKept ==
    /\ Init => HInv
    /\ HInv /\ [Next]_vars => HInv'
<1>1. ASSUME FInv', history' \in Seq(Nat), Len(history') <= params'.Window,
             Remembers(state'.Window, state'.Index, history')
      PROVE  HInv'
  <2> DEFINE n == params'.Window
  <2>1. n \in Nat \ {0} /\ Len(state'.Window) = n /\ state'.Index \in 0 .. n - 1
    BY <1>1, DynamicFeeAssumption DEF FInv, ValidParams
  <2>2. Holds(state'.Window, state'.Index, history')
    BY <1>1, <2>1, HistoryRemembered
  <2>3. WindowIsHistory'
    BY <2>2, Zenon DEF Holds, WindowIsHistory
  <2> QED BY <1>1, <2>3 DEF HInv
<1>2. ASSUME Init PROVE HInv
  <2>1. FInv /\ params \in ParamSets /\ state = StateFor(params) /\ history = <<>>
    BY <1>2, InitFits DEF Init
  <2>2. Remembers(state.Window, state.Index, history)
    BY <2>1, NewStateForgets
  <2> DEFINE n == params.Window
  <2>3. n \in Nat \ {0} /\ Len(state.Window) = n /\ state.Index \in 0 .. n - 1
    BY <2>1, DynamicFeeAssumption DEF FInv, ValidParams
  <2>4. Holds(state.Window, state.Index, history)
    BY <2>2, <2>3, HistoryRemembered
  <2>5. WindowIsHistory
    BY <2>4, Zenon DEF Holds, WindowIsHistory
  <2>6. history \in Seq(Nat) /\ Len(history) <= n
    BY <2>1, <2>3
  <2> QED BY <2>1, <2>5, <2>6 DEF HInv
<1>3. ASSUME HInv, [Next]_vars PROVE HInv'
  <2>0. FInv /\ FInv'
    BY <1>3, NextFits DEF HInv
  <2>1. ASSUME NEW gas \in BlockGas, EndBlock(gas), params.Enabled PROVE HInv'
    <3>1. /\ state' = UpdateDynamicfee(gas) /\ params' = params
          /\ history' = LastOf(Append(history, RecordedGas(gas, GetMaxBlockGas(params))), params.Window)
      BY <2>1, Zenon DEF EndBlock
    <3>2. /\ history' \in Seq(Nat) /\ Len(history') <= params'.Window
          /\ Remembers(state'.Window, state'.Index, history')
      BY <1>3, <3>1, BlockRecords
    <3> QED BY <3>2, <2>0, <1>1
  <2>2. ASSUME UNCHANGED <<params, state, history>> PROVE HInv'
    <3>1. history \in Seq(Nat) /\ Len(history) <= params.Window /\ WindowIsHistory
      BY <1>3 DEF HInv
    <3> QED BY <2>0, <2>2, <3>1, Zenon DEF HInv, WindowIsHistory
  <2>3. ASSUME NEW p \in ParamSets, UpdateParams(p) PROVE HInv'
    <3>1. state' = StateFor(p) /\ history' = <<>> /\ params' = p
      BY <2>3 DEF UpdateParams
    <3>2. Remembers(state'.Window, state'.Index, history')
      BY <3>1, NewStateForgets
    <3>3. history' \in Seq(Nat) /\ Len(history') <= params'.Window
      BY <3>1, DynamicFeeAssumption DEF ValidParams
    <3> QED BY <2>0, <3>2, <3>3, <1>1
  <2>4. ASSUME NEW gas \in BlockGas, EndBlock(gas) PROVE HInv'
    <3>1. CASE params.Enabled
      BY <3>1, <2>1, <2>4
    <3>2. CASE ~params.Enabled
      BY <3>2, <2>2, <2>4, Zenon DEF EndBlock
    <3> QED BY <3>1, <3>2
  <2>5. ASSUME NEW g \in MaxGasValues, UpdateMaxGas(g) PROVE HInv'
    BY <2>2, <2>5 DEF UpdateMaxGas
  <2>6. CASE UNCHANGED vars
    BY <2>2, <2>6 DEF vars
  <2> QED BY <1>3, <2>3, <2>4, <2>5, <2>6, Zenon DEF Next
<1> QED BY <1>2, <1>3

\* The average that GetAverageGas returns against x.
LEMMA AverageSides ==
    ASSUME NEW tot \in Nat, NEW room \in Nat \ {0}, NEW x \in Nat
    PROVE  LET avg == Quo(NewDecFromInt(tot), NewDecFromInt(room))
           IN  /\ avg \in Nat
               /\ avg <= x => AtMost(tot, room, x)
               /\ avg >= x => AtLeast(tot, room, x)
<1> DEFINE P == Precision
           a == tot * P
           b == room * P
           avg == Quo(a, b)
<1>0. P \in Nat \ {0} /\ P * P \in Nat \ {0}
  BY PrecisionAssumption
<1>1. a \in Nat /\ b \in Nat \ {0}
  BY <1>0
<1>2. Quo(NewDecFromInt(tot), NewDecFromInt(room)) = avg
  BY DEF NewDecFromInt
<1> HIDE DEF a, b
<1>3. /\ avg \in Nat
      /\ avg <= x => 2 * (a * P * P) < b * (P * (2 * x + 1) + 2)
      /\ avg >= x => b * (P * (2 * x - 1)) <= 2 * (a * P * P)
  BY <1>1, QuoRounds
<1> HIDE DEF avg, P
<1>4. ASSUME avg <= x PROVE AtMost(tot, room, x)
  <2> DEFINE l == 2 * P * P * tot
             r == ((2 * x + 1) * P + 2) * room
  <2>1. l \in Nat /\ r \in Nat
    BY <1>0
  <2>2. 2 * (a * P * P) = l * P /\ b * (P * (2 * x + 1) + 2) = r * P
    BY <1>0 DEF a, b
  <2>3. l * P < r * P
    BY <1>3, <1>4, <2>2
  <2> HIDE DEF l, r
  <2>4. ASSUME r <= l PROVE FALSE
    <3>1. r * P <= l * P /\ r * P \in Nat /\ l * P \in Nat
      BY <1>0, <2>1, <2>4, MulMono
    <3> QED BY <3>1, <2>3
  <2>5. l < r
    BY <2>1, <2>4
  <2> QED BY <2>5 DEF AtMost, l, r, P
<1>5. ASSUME avg >= x PROVE AtLeast(tot, room, x)
  <2> DEFINE l == (2 * x - 1) * room
             r == 2 * P * tot
             c == P * P
  <2>1. l \in Int /\ r \in Int /\ c \in Nat \ {0}
    BY <1>0
  <2>2. b * (P * (2 * x - 1)) = l * c /\ 2 * (a * P * P) = r * c
    BY <1>0 DEF a, b
  <2>3. l * c <= r * c
    BY <1>3, <1>5, <2>2
  <2> HIDE DEF l, r, c
  <2>4. l <= r
    BY <2>1, <2>3, Cancel
  <2> QED BY <2>1, <2>4 DEF AtLeast, l, r, P
<1> QED BY <1>2, <1>3, <1>4, <1>5

\* The side of the thresholds that a change of the rate tells.
LEMMA RateSides ==
    ASSUME NEW p \in ParamSets, NEW avg \in Nat,
           NEW rate \in p.MinLearningRate .. p.MaxLearningRate,
           NEW new, new = UpdateLearningRate(rate, avg, p)
    PROVE  /\ new > rate => avg <= p.Gamma \/ avg >= Precision - p.Gamma
           /\ new < rate => \/ avg > p.Gamma /\ avg < Precision - p.Gamma
                            \/ new = p.MinLearningRate /\ rate + p.Alpha > MaxDec
<1> DEFINE lo == p.MinLearningRate
           hi == p.MaxLearningRate
           grown == rate + p.Alpha
           shrunk == Mul(rate, p.Beta)
           extreme == avg <= p.Gamma \/ avg >= Precision - p.Gamma
<1>1. /\ lo \in Nat /\ hi \in Nat /\ lo <= hi /\ p.Alpha \in Nat /\ p.Gamma \in Nat
      /\ p.Beta \in Int /\ p.Beta <= Precision
  BY DynamicFeeAssumption, PrecisionAssumption DEF ValidParams
<1>2. rate \in Nat /\ rate >= lo /\ rate <= hi
  BY <1>1
<1>3. shrunk \in Int /\ shrunk <= rate
  BY <1>1, <1>2, PriceSide
<1>4. grown \in Int /\ grown >= rate
  BY <1>1, <1>2
<1>5. new = IF extreme THEN IF grown > MaxDec THEN lo ELSE Min({grown, hi})
            ELSE Max({shrunk, lo})
  BY Zenon DEF UpdateLearningRate
<1>6. extreme \/ (avg > p.Gamma /\ avg < Precision - p.Gamma)
  BY <1>1, PrecisionAssumption
<1> HIDE DEF lo, hi, grown, shrunk, extreme
<1>7. Min({grown, hi}) >= rate
  BY <1>1, <1>2, <1>4, MinOfTwo
<1>8. Max({shrunk, lo}) <= rate
  BY <1>1, <1>2, <1>3, MaxOfTwo
<1>9. /\ new > rate => extreme
      /\ new < rate => ~extreme \/ (new = lo /\ grown > MaxDec)
  <2> DEFINE mn == Min({grown, hi})
             mx == Max({shrunk, lo})
  <2>1. mn \in Int /\ mx \in Int
    BY <1>1, <1>3, <1>4, MinOfTwo, MaxOfTwo
  <2>2. mn >= rate /\ mx <= rate
    BY <1>7, <1>8
  <2>3. new = IF extreme THEN IF grown > MaxDec THEN lo ELSE mn ELSE mx
    BY <1>5, Zenon
  <2> HIDE DEF mn, mx
  <2> QED BY <2>1, <2>2, <2>3, <1>2
<1> QED BY <1>6, <1>9, Zenon DEF lo, grown, extreme

\* UpdateDynamicfee moves the rate the way the window says.
LEMMA BlockRate ==
    ASSUME HInv, NEW gas \in BlockGas, params.Enabled, EndBlock(gas)
    PROVE  RateFollows
<1> DEFINE used == TotalGas(history')
           max == GetMaxBlockGas(params)
           room == params.Window * max
           low == params.Gamma
           high == Precision - params.Gamma
           rate == state.LearningRate
           new == state'.LearningRate
           avg == Quo(NewDecFromInt(used), NewDecFromInt(room))
           reset == new = params.MinLearningRate /\ state'.BaseGasPrice = params.MinBaseGasPrice
<1>1. SUFFICES ASSUME used < 2 ^ Width
               PROVE  /\ new > rate => AtMost(used, room, low) \/ AtLeast(used, room, high)
                      /\ new < rate =>
                            \/ AtLeast(used, room, low) /\ AtMost(used, room, high)
                            \/ /\ new = params.MinLearningRate
                               /\ \/ state'.BaseGasPrice = params.MinBaseGasPrice
                                  \/ rate + params.Alpha > MaxDec
  BY Zenon DEF RateFollows
<1>2. /\ params \in ParamSets /\ params.Window \in Nat \ {0} /\ params.Gamma \in Nat
      /\ 2 * params.Gamma <= Precision /\ Precision \in Nat
      /\ rate \in params.MinLearningRate .. params.MaxLearningRate
  BY DynamicFeeAssumption, PrecisionAssumption DEF HInv, FInv, ValidParams
<1>3. max \in Nat \ {0}
  <2>1. params.DefaultMaxBlockGas \in Nat \ {0}
    BY <1>2, DynamicFeeAssumption DEF ValidParams
  <2>2. maxGas \notin Unlimited => maxGas \in 1 .. 2 ^ (Width - 1) - 1
    BY DynamicFeeAssumption, Zenon DEF HInv, FInv
  <2>3. maxGas \notin Unlimited => maxGas \in Nat \ {0}
    BY <2>2
  <2> QED BY <2>1, <2>3, Zenon DEF GetMaxBlockGas
<1>4. /\ state' = UpdateDynamicfee(gas)
      /\ history' = LastOf(Append(history, RecordedGas(gas, max)), params.Window)
  BY Zenon DEF EndBlock
<1>5. /\ used \in Nat
      /\ \/ new = UpdateLearningRate(rate, Quo(NewDecFromInt(used % 2 ^ Width),
                                               NewDecFromInt(max * params.Window)), params)
         \/ reset
  BY <1>4, BlockRecords, Zenon
<1> HIDE DEF used, max
<1>6. used % 2 ^ Width = used /\ max * params.Window = room /\ room \in Nat \ {0}
  <2> DEFINE cap == 2 ^ Width
  <2>1. cap \in Int
    BY DynamicFeeAssumption
  <2>2. used < cap
    BY <1>1
  <2> HIDE DEF cap
  <2>3. cap \in Nat \ {0} /\ used \in 0 .. 2 * cap - 1
    BY <2>1, <2>2, <1>5
  <2>4. used % cap = used
    BY <2>2, <2>3, ModWrap
  <2> QED BY <2>4, <1>2, <1>3 DEF cap
<1>7. new = UpdateLearningRate(rate, avg, params) \/ reset
  BY <1>5, <1>6, Zenon
<1>8. low \in Nat /\ high \in Nat
  BY <1>2
<1> HIDE DEF room
<1>9. /\ avg \in Nat
      /\ avg <= low => AtMost(used, room, low)
      /\ avg >= low => AtLeast(used, room, low)
      /\ avg <= high => AtMost(used, room, high)
      /\ avg >= high => AtLeast(used, room, high)
  <2>1. used \in Nat /\ room \in Nat \ {0}
    BY <1>5, <1>6
  <2> HIDE DEF low, high
  <2>2. avg \in Nat /\ (avg <= low => AtMost(used, room, low)) /\ (avg >= low => AtLeast(used, room, low))
    BY <2>1, <1>8, AverageSides, Zenon
  <2>3. (avg <= high => AtMost(used, room, high)) /\ (avg >= high => AtLeast(used, room, high))
    BY <2>1, <1>8, AverageSides, Zenon
  <2> QED BY <2>2, <2>3, Zenon
<1> HIDE DEF avg
<1>10. CASE reset
  <2>1. ~(new > rate)
    BY <1>2, <1>10, DynamicFeeAssumption DEF ValidParams
  <2> QED BY <2>1, <1>10, Zenon
<1>11. CASE new = UpdateLearningRate(rate, avg, params)
  <2>1. /\ new > rate => avg <= low \/ avg >= high
        /\ new < rate => \/ avg > low /\ avg < high
                         \/ new = params.MinLearningRate /\ rate + params.Alpha > MaxDec
    BY <1>2, <1>9, <1>11, RateSides
  <2> HIDE DEF new
  <2>2. /\ avg > low => avg >= low
        /\ avg < high => avg <= high
    BY <1>8, <1>9
  <2> QED BY <2>1, <2>2, <1>9, Zenon
<1> QED BY <1>7, <1>10, <1>11

-----------------------------------------------------------------------------
(***************************************************************************)
(* Theorems                                                                *)
(***************************************************************************)

\* UpdateDynamicfee, its recoveries from panics and UpdateParams never leave
\* a price below its minimum or a learning rate outside its bounds.
THEOREM PriceAndRateBounded == Spec => []WithinBounds
<1>1. FInv => WithinBounds
  BY DynamicFeeAssumption DEF FInv, WithinBounds, ValidParams
<1> QED BY <1>1, AlwaysFits, PTL

\* With positive minima InitGenesis accepts what ExportGenesis writes.
THEOREM ExportsImport == Spec => []ExportImports
<1>1. FInv => ExportImports
  <2> SUFFICES ASSUME FInv, params.MinBaseGasPrice > 0, params.MinLearningRate > 0
               PROVE  ValidGenesis(params, state)
    BY DEF ExportImports
  <2>1. ValidParams(params)
    BY DynamicFeeAssumption DEF FInv
  <2>2. /\ Len(state.Window) \in Nat \ {0} /\ state.Index < Len(state.Window)
        /\ state.BaseGasPrice > 0 /\ state.LearningRate > 0
    <3>1. /\ params.Window \in Nat \ {0} /\ params.MinBaseGasPrice \in Nat
          /\ params.MinLearningRate \in Nat /\ params.MaxLearningRate \in Nat
      BY <2>1 DEF ValidParams
    <3>2. Len(state.Window) = params.Window /\ state.Index < params.Window
      BY <3>1 DEF FInv
    <3>3. state.BaseGasPrice > 0
      BY <3>1, DynamicFeeAssumption DEF FInv
    <3>4. state.LearningRate > 0
      BY <3>1 DEF FInv
    <3> QED BY <3>1, <3>2, <3>3, <3>4
  <2>3. Len(<<>>) = 0
    OBVIOUS
  <2>4. state.Window # <<>>
    BY <2>2, <2>3
  <2> QED BY <2>1, <2>2, <2>4 DEF ValidGenesis, ValidState, FInv
<1> QED BY <1>1, AlwaysFits, PTL

\* UpdateBaseGasPrice moves the price in the direction of the block, unless
\* it recovered from a panic.
THEOREM PriceMovesWithBlock == Spec => PriceFollowsBlock
<1> DEFINE Follows ==
        \A gas \in BlockGas :
          params.Enabled /\ EndBlock(gas) =>
              LET target == GetTargetBlockGas(GetMaxBlockGas(params), params)
                  used == RecordedGas(gas, GetMaxBlockGas(params))
                  price == state.BaseGasPrice
                  reset == /\ state'.BaseGasPrice = params.MinBaseGasPrice
                           /\ state'.LearningRate = params.MinLearningRate
              IN  \/ reset
                  \/ /\ used >= target => state'.BaseGasPrice >= price
                     /\ used <= target => state'.BaseGasPrice <= price
<1>1. FInv => Follows
  <2> SUFFICES ASSUME FInv, NEW gas \in BlockGas, params.Enabled, EndBlock(gas)
               PROVE  LET target == GetTargetBlockGas(GetMaxBlockGas(params), params)
                          used == RecordedGas(gas, GetMaxBlockGas(params))
                          price == state.BaseGasPrice
                          reset == /\ state'.BaseGasPrice = params.MinBaseGasPrice
                                   /\ state'.LearningRate = params.MinLearningRate
                      IN  \/ reset
                          \/ /\ used >= target => state'.BaseGasPrice >= price
                             /\ used <= target => state'.BaseGasPrice <= price
    OBVIOUS
  <2>1. state' = UpdateDynamicfee(gas)
    BY DEF EndBlock
  <2> QED BY <2>1, BlockStep
<1> HIDE DEF Follows
<1>2. Spec => [][Follows]_vars
  BY <1>1, AlwaysFits, PTL DEF Spec
<1> QED BY <1>2 DEF PriceFollowsBlock, Follows

\* Outside EndBlock the window that GetAverageGas sums is the gas of the last
\* Window - 1 blocks since the parameters were set, in order.
THEOREM WindowKeepsHistory == Spec => []WindowIsHistory
<1>1. HInv => WindowIsHistory
  BY DEF HInv
<1> QED BY <1>1, HistoryKept, PTL DEF Spec

\* UpdateLearningRate moves the rate the way the gas of the last Window blocks
\* says, unless it or UpdateBaseGasPrice recovered from a panic.
THEOREM RateMovesWithWindow == Spec => RateFollowsWindow
<1> DEFINE Follows == \A gas \in BlockGas : params.Enabled /\ EndBlock(gas) => RateFollows
<1>1. HInv => Follows
  BY BlockRate
<1>2. HInv /\ [Next]_vars => HInv'
  BY HistoryKept
<1>3. Init => HInv
  BY HistoryKept
<1> HIDE DEF Follows
<1>4. Spec => [][Follows]_vars
  BY <1>1, <1>2, <1>3, PTL DEF Spec
<1> QED BY <1>4 DEF RateFollowsWindow, Follows
=============================================================================
