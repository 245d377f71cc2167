------------------------ MODULE NakamotoBonusProofs ------------------------
(***************************************************************************)
(* For every precision, set of validators, stake, fees and parameters that *)
(* validate: AllocateTokens never divides more than was collected; the     *)
(* coefficient moves as its parameters allow; and the epochs of x/epochs   *)
(* stay on the grid of their duration.                                     *)
(***************************************************************************)
EXTENDS NakamotoBonus, ArithmeticTheorems

-----------------------------------------------------------------------------
(***************************************************************************)
(* AllocateTokens                                                          *)
(***************************************************************************)

\* A fraction of at most 1 of an amount, truncated, is at most the amount.
LEMMA FractionBounds ==
    ASSUME NEW a \in Nat, NEW f \in 0 .. Precision
    PROVE  /\ MulTruncate(a, f) \in 0 .. a
           /\ Precision * MulTruncate(a, f) <= a * f
<1>0. Precision \in Nat \ {0} /\ f \in Nat
  BY PrecisionAssumption
<1>1. a * f \in Nat /\ a * f <= a * Precision
  BY <1>0, MulMono
<1>2. a * Precision = Precision * a
  BY <1>0
<1> DEFINE x == a * f
           q == x \div Precision
<1>3. q \in Nat /\ Precision * q <= x /\ q <= a
  <2> HIDE DEF x
  <2>1. x \in Nat /\ x <= Precision * a
    BY <1>1, <1>2 DEF x
  <2> QED BY <2>1, <1>0, DivBounds, DivUpper
<1>4. MulTruncate(a, f) = q
  BY DEF MulTruncate
<1> HIDE DEF q
<1> QED BY <1>3, <1>4

\* Equal parts of an amount, truncated, together do not exceed it.
LEMMA PartsBound ==
    ASSUME NEW b \in Nat, NEW n \in Nat \ {0}
    PROVE  /\ QuoTruncate(b, NewDecFromInt(n)) \in Nat
           /\ n * QuoTruncate(b, NewDecFromInt(n)) <= b
<1> DEFINE P == Precision
           q == (b * P) \div (n * P)
<1>0. P \in Nat \ {0}
  BY PrecisionAssumption
<1> HIDE DEF P
<1>1. b * P \in Nat /\ n * P \in Nat \ {0}
  BY <1>0
<1>2. q \in Nat /\ (n * P) * q <= b * P
  BY <1>1, DivBounds
<1> HIDE DEF q
<1>3. n * q <= b
  <2>1. SUFFICES ASSUME b + 1 <= n * q PROVE FALSE
    BY <1>2
  <2>2. (b + 1) * P <= (n * q) * P
    BY <2>1, <1>0, <1>2, MulMono
  <2>3. (b + 1) * P = b * P + P /\ (n * q) * P = (n * P) * q
    BY <1>0, <1>2
  <2>4. (n * P) * q \in Int
    BY <1>1, <1>2
  <2> QED BY <2>2, <2>3, <2>4, <1>0, <1>1, <1>2
<1> QED BY <1>2, <1>3 DEF QuoTruncate, NewDecFromInt, q, P

\* The power fraction of a validator, truncated, times the total power.
LEMMA PowerFraction ==
    ASSUME NEW p \in Nat, NEW T \in Nat \ {0}
    PROVE  LET f == QuoTruncate(NewDecFromInt(p), NewDecFromInt(T))
           IN  f \in Nat /\ T * f <= Precision * p
<1> DEFINE P == Precision
           q == ((p * P) * P) \div (T * P)
<1>0. P \in Nat \ {0}
  BY PrecisionAssumption
<1> HIDE DEF P
<1>1. (p * P) * P \in Nat /\ T * P \in Nat \ {0} /\ p * P \in Nat
  BY <1>0
<1>2. q \in Nat /\ (T * P) * q <= (p * P) * P
  BY <1>1, DivBounds
<1> HIDE DEF q
<1>3. T * q <= p * P
  <2>1. SUFFICES ASSUME p * P + 1 <= T * q PROVE FALSE
    BY <1>1, <1>2
  <2>2. (p * P + 1) * P <= (T * q) * P
    BY <2>1, <1>0, <1>1, <1>2, MulMono
  <2>3. (p * P + 1) * P = (p * P) * P + P /\ (T * q) * P = (T * P) * q
    BY <1>0, <1>2
  <2>4. (T * P) * q \in Int
    BY <1>1, <1>2
  <2> QED BY <2>2, <2>3, <2>4, <1>0, <1>1, <1>2
<1>4. p * P = P * p
  BY <1>0
<1> QED BY <1>2, <1>3, <1>4 DEF QuoTruncate, NewDecFromInt, q, P

\* What every validator of the last commit gets in proportion to its power.
Fractions(votes) ==
    [v \in DOMAIN votes |->
        QuoTruncate(NewDecFromInt(votes[v]), NewDecFromInt(TotalPower(votes)))]
Shares(amount, votes) ==
    [v \in DOMAIN votes |-> MulTruncate(amount, Fractions(votes)[v])]

\* The proportional rewards together never exceed the amount they divide.
LEMMA SharesBound ==
    ASSUME NEW V, IsFiniteSet(V), NEW votes \in [V -> Nat], TotalPower(votes) > 0,
           NEW amount \in Nat
    PROVE  /\ Shares(amount, votes) \in [V -> Nat]
           /\ SumFunctionOnSet(Shares(amount, votes), V) <= amount
<1> DEFINE P == Precision
           T == TotalPower(votes)
           F == Fractions(votes)
           S == Shares(amount, votes)
           SF == SumFunctionOnSet(F, V)
           SS == SumFunctionOnSet(S, V)
<1>0. P \in Nat \ {0}
  BY PrecisionAssumption
<1>1. votes \in [V -> Int] /\ T = SumFunctionOnSet(votes, V) /\ T \in Nat \ {0}
  BY SumRemove DEF TotalPower
<1>2. F \in [V -> Nat] /\ \A v \in V : T * F[v] <= P * votes[v]
  BY <1>1, PowerFraction DEF Fractions
<1>3. F \in [V -> Int]
  BY <1>2
<1>4. T * SF <= P * T
  <2> HIDE DEF P, T, F
  <2>1. T \in Int /\ P \in Int
    BY <1>0, <1>1
  <2>2. T * SumFunctionOnSet(F, V) <= P * SumFunctionOnSet(votes, V)
    BY <2>1, <1>1, <1>2, <1>3, SumScaled, Zenon
  <2> QED BY <2>2, <1>1
<1>5. SF \in Int /\ SF >= 0 /\ \A v \in V : F[v] <= SF
  <2> HIDE DEF F
  <2> QED BY <1>2, <1>3, SumRemove, SumNat
<1> HIDE DEF P, T, F, SF
<1>6. SF <= P
  <2>1. SUFFICES ASSUME P + 1 <= SF PROVE FALSE
    BY <1>0, <1>5
  <2>2. T * (P + 1) <= T * SF
    BY <2>1, <1>0, <1>1, <1>5, MulMono
  <2>3. T * (P + 1) = P * T + T /\ P * T \in Int /\ T * SF \in Int
    BY <1>0, <1>1, <1>5
  <2> QED BY <2>2, <2>3, <1>1, <1>4
<1>7. \A v \in V : F[v] \in 0 .. P
  BY <1>0, <1>2, <1>5, <1>6
<1>8. S \in [V -> Nat] /\ \A v \in V : P * S[v] <= amount * F[v]
  <2>1. \A v \in V : /\ MulTruncate(amount, F[v]) \in 0 .. amount
                     /\ P * MulTruncate(amount, F[v]) <= amount * F[v]
    BY <1>7, FractionBounds DEF P
  <2> QED BY <2>1 DEF Shares, F
<1>9. S \in [V -> Int]
  BY <1>8
<1> HIDE DEF S
<1>10. P * SS <= amount * SF /\ SS \in Int /\ SS >= 0
  <2>1. P \in Int /\ amount \in Int
    BY <1>0
  <2>2. P * SumFunctionOnSet(S, V) <= amount * SumFunctionOnSet(F, V)
    BY <2>1, <1>3, <1>8, <1>9, SumScaled, Zenon
  <2>3. V \in SUBSET V /\ \A v \in V : S[v] >= 0
    BY <1>8
  <2>4. SumFunctionOnSet(S, V) \in Int
    BY <2>3, <1>9, SumRemove, Zenon
  <2>5. SumFunctionOnSet(S, V) >= 0
    BY <2>3, <1>9, SumNat, Zenon
  <2> QED BY <2>2, <2>4, <2>5 DEF SF
<1> HIDE DEF SS
<1>11. amount * SF <= amount * P
  BY <1>0, <1>5, <1>6, MulMono
<1>12. SS <= amount
  <2>1. SUFFICES ASSUME amount + 1 <= SS PROVE FALSE
    BY <1>10
  <2>2. P * (amount + 1) <= P * SS
    BY <2>1, <1>0, <1>10, MulMono
  <2>3. P * (amount + 1) = amount * P + P /\ amount * P \in Int /\ P * SS \in Int
        /\ amount * SF \in Int
    BY <1>0, <1>5, <1>10
  <2> QED BY <2>2, <2>3, <1>0, <1>10, <1>11
<1> QED BY <1>8, <1>12 DEF S, SS

\* The rewards of all validators together do not exceed the fees: whatever the
\* fees, the powers, the tax and the coefficient, AllocateTokens never panics
\* in Sub, and the community pool gets what the truncations leave.
THEOREM RewardsNeverExceedFees ==
    ASSUME NEW V, IsFiniteSet(V), NEW votes \in [V -> Nat], TotalPower(votes) > 0,
           NEW fees \in Nat, NEW p, p.CommunityTax \in 0 .. Precision, p.Enabled \in BOOLEAN,
           NEW c \in 0 .. Precision
    PROVE  Remaining(fees, votes, p, c) >= 0
<1> DEFINE A == AfterTax(fees, p)
           B == Bonus(fees, p, c)
           n == Cardinality(V)
           per == BonusPerValidator(fees, votes, p, c)
           S == Shares(A - B, votes)
           R == Rewards(fees, votes, p, c)
           SS == SumFunctionOnSet(S, V)
           SR == SumFunctionOnSet(R, V)
<1>1. A \in 0 .. fees
  <2>1. Precision - p.CommunityTax \in 0 .. Precision
    BY PrecisionAssumption
  <2> QED BY <2>1, FractionBounds DEF AfterTax
<1>2. B \in 0 .. A
  BY <1>1, FractionBounds DEF Bonus
<1>3. n \in Nat \ {0}
  <2>1. V # {}
    <3>1. votes \in [V -> Int] /\ V \in SUBSET V /\ TotalPower(votes) = SumFunctionOnSet(votes, V)
      BY DEF TotalPower
    <3>2. SumFunctionOnSet(votes, {}) = 0
      BY <3>1, SumRemove, Zenon
    <3> QED BY <3>1, <3>2
  <2> QED BY <2>1, FS_CardinalityType, FS_EmptySet
<1>4. per \in Nat /\ n * per <= B
  BY <1>1, <1>2, <1>3, PartsBound DEF BonusPerValidator
<1>5. A - B \in Nat
  BY <1>1, <1>2
<1>6. S \in [V -> Nat] /\ SS <= A - B
  BY <1>5, SharesBound
<1>7. R \in [V -> Int] /\ \A v \in V : R[v] = S[v] + per
  <2>1. \A v \in V : R[v] = Proportional(fees, votes, v, p, c) + per
    BY DEF Rewards, Reward
  <2>2. \A v \in V : Proportional(fees, votes, v, p, c) = S[v]
    BY DEF Proportional, Shares, Fractions
  <2>3. R = [v \in V |-> S[v] + per]
    BY <2>1, <2>2 DEF Rewards
  <2> HIDE DEF S, per, R
  <2> QED BY <2>1, <2>2, <2>3, <1>4, <1>6
<1>8. SR = SS + n * per /\ SS \in Int
  <2>1. S \in [V -> Int] /\ per \in Int /\ V \in SUBSET V
    BY <1>4, <1>6
  <2> HIDE DEF S, R, per
  <2>2. SumFunctionOnSet(R, V) = SumFunctionOnSet(S, V) + Cardinality(V) * per
    BY <2>1, <1>7, SumShifted, Zenon
  <2>3. SumFunctionOnSet(S, V) \in Int
    BY <2>1, SumRemove, Zenon
  <2> QED BY <2>2, <2>3
<1>9. Remaining(fees, votes, p, c) = fees - SR
  BY DEF Remaining
<1> HIDE DEF A, B, n, per, S, R, SS, SR
<1>10. n * per \in Int
  BY <1>3, <1>4
<1> QED BY <1>1, <1>2, <1>4, <1>6, <1>8, <1>9, <1>10

-----------------------------------------------------------------------------
(***************************************************************************)
(* The coefficient                                                         *)
(***************************************************************************)

\* Governance sets parameters that validate, and the coefficient is set only
\* if it lies between 0 and 1.
NInv ==
    /\ params \in ParamSets
    /\ coefficient \in 0 .. Precision
    /\ bonded \in Stakes

\* The coefficient stays between 0 and 1.
LEMMA CoefficientInRange == Spec => []NInv
<1>1. Init => NInv
  BY NakamotoAssumption DEF Init, NInv
<1>2. NInv /\ [Next]_vars => NInv'
  <2> SUFFICES ASSUME NInv, [Next]_vars PROVE NInv'
    OBVIOUS
  <2>1. ASSUME NEW dt \in Gaps, NEW failing \in SUBSET Identifiers, BeginBlock(dt, failing)
        PROVE  NInv'
    <3>1. AdjustNakamotoBonusCoefficient(params, coefficient, bonded) \in 0 .. Precision
      BY DEF NInv, AdjustNakamotoBonusCoefficient
    <3> QED BY <2>1, <3>1 DEF NInv, BeginBlock
  <2>2. ASSUME NEW i \in Identifiers, NEW s \in StartTimes, NewEpochInfo(i, s)
        PROVE  NInv'
    BY <2>2 DEF NInv, NewEpochInfo
  <2>3. ASSUME NEW p \in ParamSets, UpdateParams(p) PROVE NInv'
    BY <2>3 DEF NInv, UpdateParams
  <2>4. ASSUME NEW vals \in Stakes, StakeChanges(vals) PROVE NInv'
    BY <2>4 DEF NInv, StakeChanges
  <2>5. CASE UNCHANGED vars
    BY <2>5 DEF NInv, vars
  <2> QED BY <2>1, <2>2, <2>3, <2>4, <2>5 DEF Next
<1> QED BY <1>1, <1>2, PTL DEF Spec

\* Whatever the parameters, the stake and the coefficient that the epochs have
\* led to, the next AllocateTokens divides no more than the fees collected.
THEOREM AllocationAlwaysCovered == Spec => []AllocationCovered
<1>1. NInv => AllocationCovered
  <2> SUFFICES ASSUME NInv PROVE AllocationCovered
    OBVIOUS
  <2> DEFINE votes == [v \in DOMAIN bonded |-> bonded[v]]
  <2>1. bonded \in Seq(Nat) /\ ValidParams(params) /\ coefficient \in 0 .. Precision
    BY NakamotoAssumption DEF NInv
  <2>2. IsFiniteSet(DOMAIN bonded) /\ votes \in [DOMAIN bonded -> Nat]
    <3>1. DOMAIN bonded = 1 .. Len(bonded) /\ Len(bonded) \in Nat
      BY <2>1
    <3>2. IsFiniteSet(1 .. Len(bonded))
      BY <3>1, FS_Interval
    <3> QED BY <2>1, <3>1, <3>2
  <2>3. \A fees \in 1 .. Precision : fees \in Nat
    BY PrecisionAssumption
  <2> HIDE DEF votes
  <2>4. ASSUME TotalPower(votes) > 0, NEW fees \in 1 .. Precision
        PROVE  Remaining(fees, votes, params, coefficient) >= 0
    BY <2>1, <2>2, <2>3, <2>4, RewardsNeverExceedFees DEF ValidParams
  <2> QED BY <2>4 DEF AllocationCovered, votes
<1> QED BY <1>1, CoefficientInRange, PTL

\* The coefficient moves only at the end of an epoch of the parameters'
\* identifier, in a block whose hooks succeed, and by a step within the range
\* of the parameters or to its nearest end.
THEOREM CoefficientMovesAsAllowed == Spec => AdjustedAtEpochEnd
<1> DEFINE Moves ==
        coefficient' # coefficient =>
          /\ params.PeriodEpochIdentifier \in ended' \ failed'
          /\ coefficient' \in params.MinimumCoefficient .. params.MaximumCoefficient
          /\ \/ coefficient' - coefficient \in -params.Step .. params.Step
             \/ coefficient' \in {params.MinimumCoefficient, params.MaximumCoefficient}
<1>1. NInv /\ [Next]_vars => [Moves]_vars
  <2> SUFFICES ASSUME NInv, Next, coefficient' # coefficient PROVE Moves
    OBVIOUS
  <2>1. PICK dt \in Gaps, failing \in SUBSET Identifiers : BeginBlock(dt, failing)
    BY DEF Next, NewEpochInfo, UpdateParams, StakeChanges
  <2>2. /\ params.PeriodEpochIdentifier \in ended' \ failing /\ failed' = failing
        /\ coefficient' = AdjustNakamotoBonusCoefficient(params, coefficient, bonded)
    BY <2>1 DEF BeginBlock
  <2>3. coefficient' = NewCoefficient(params, coefficient, bonded)
    BY <2>2 DEF AdjustNakamotoBonusCoefficient
  <2>4. PICK d \in {params.Step, -params.Step} : coefficient' = Clamped(params, coefficient + d)
    BY <2>3 DEF NewCoefficient, NInv
  <2>5. ValidParams(params) /\ coefficient \in Int /\ Precision \in Nat
    BY NakamotoAssumption, PrecisionAssumption DEF NInv
  <2> QED BY <2>2, <2>4, <2>5 DEF Clamped, ValidParams
<1> QED BY <1>1, CoefficientInRange, PTL DEF Spec, AdjustedAtEpochEnd

-----------------------------------------------------------------------------
(***************************************************************************)
(* The epochs                                                              *)
(***************************************************************************)

\* Division with remainder is unique.
LEMMA ModUnique ==
    ASSUME NEW D \in Nat \ {0}, NEW a \in Int, NEW q \in Int, NEW r \in 0 .. D - 1,
           a = D * q + r
    PROVE  a % D = r
<1> DEFINE q2 == a \div D
           r2 == a % D
<1>1. q2 \in Int /\ r2 \in 0 .. D - 1 /\ a = D * q2 + r2
  OBVIOUS
<1> HIDE DEF q2, r2
<1>2. D * q \in Int /\ D * q2 \in Int /\ D * (q - q2) = D * q - D * q2
  BY <1>1
<1>3. q = q2
  <2>1. ASSUME q - q2 >= 1 PROVE FALSE
    <3>1. D * 1 <= D * (q - q2)
      BY <2>1, <1>1, MulMono
    <3> QED BY <3>1, <1>1, <1>2
  <2>2. ASSUME q2 - q >= 1 PROVE FALSE
    <3>1. D * 1 <= D * (q2 - q)
      BY <2>2, <1>1, MulMono
    <3>2. D * (q2 - q) = D * q2 - D * q
      BY <1>1
    <3> QED BY <3>1, <3>2, <1>1, <1>2
  <2> QED BY <2>1, <2>2, <1>1
<1> QED BY <1>1, <1>2, <1>3 DEF r2

\* The position in an epoch after t more, and after taking out a whole epoch.
LEMMA ModSteps ==
    ASSUME NEW D \in Nat \ {0}, NEW a \in Int, NEW t \in Int
    PROVE  /\ a % D \in 0 .. D - 1
           /\ (a + t) % D = ((a % D) + t) % D
           /\ (a - D) % D = a % D
<1> DEFINE q == a \div D
           r == a % D
           u == (r + t) \div D
           w == (r + t) % D
<1>1. q \in Int /\ r \in 0 .. D - 1 /\ a = D * q + r
  OBVIOUS
<1> HIDE DEF q, r
<1>2. u \in Int /\ w \in 0 .. D - 1 /\ r + t = D * u + w
  BY <1>1
<1> HIDE DEF u, w
<1>3. D * q \in Int /\ D * u \in Int /\ D * (q + u) = D * q + D * u
      /\ D * (q - 1) = D * q - D
  BY <1>1, <1>2
<1>4. a + t = D * (q + u) + w
  BY <1>1, <1>2, <1>3
<1>5. (a + t) % D = w
  <2> DEFINE x == a + t
             k == q + u
  <2>1. x \in Int /\ k \in Int /\ x = D * k + w
    BY <1>1, <1>2, <1>4
  <2> HIDE DEF x, k
  <2>2. x % D = w
    BY <2>1, <1>2, ModUnique
  <2> QED BY <2>2 DEF x
<1>6. a - D = D * (q - 1) + r
  BY <1>1, <1>3
<1>7. (a - D) % D = r
  BY <1>1, <1>6, ModUnique
<1> QED BY <1>1, <1>5, <1>7 DEF r, w

\* Every EpochInfo, counting or not, keeps its distance to the grid.
EpochInv(i) ==
    /\ epochs[i].exists => epochs[i].elapsed % Duration[i] = clock[i]
    /\ epochs[i].started => epochs[i].exists /\ epochs[i].elapsed >= 0

EInv ==
    /\ epochs \in [Identifiers -> [exists : BOOLEAN, started : BOOLEAN, elapsed : Int]]
    /\ clock \in [Identifiers -> Int]
    /\ \A i \in Identifiers : EpochInv(i)

\* The BeginBlocker of x/epochs moves an EpochInfo along the grid.
LEMMA BeginBlockerOnGrid ==
    ASSUME EInv, NEW dt \in Gaps, BeginBlocker(dt)
    PROVE  EInv'
<1>1. \A i \in Identifiers : Duration[i] \in Nat \ {0}
  BY EpochsAssumption
<1>2. dt \in Nat \ {0}
  BY EpochsAssumption
<1>3. ASSUME NEW i \in Identifiers
      PROVE  /\ Later(dt)[i] \in [exists : BOOLEAN, started : BOOLEAN, elapsed : Int]
             /\ Later(dt)[i].exists = epochs[i].exists
             /\ Later(dt)[i].started = epochs[i].started
             /\ Later(dt)[i].elapsed = IF epochs[i].exists THEN epochs[i].elapsed + dt
                                       ELSE epochs[i].elapsed
  <2>1. epochs[i] \in [exists : BOOLEAN, started : BOOLEAN, elapsed : Int]
    BY DEF EInv
  <2>2. PICK e \in Int : e = epochs[i].elapsed + dt
    BY <2>1, <1>2
  <2>3. Later(dt)[i] = IF epochs[i].exists THEN [epochs[i] EXCEPT !.elapsed = e] ELSE epochs[i]
    BY <2>2 DEF Later
  <2> QED BY <2>1, <2>2, <2>3
<1> DEFINE L == Later(dt)
<1>4. ASSUME NEW i \in Identifiers
      PROVE  /\ Started(i, L[i]) \in [exists : BOOLEAN, started : BOOLEAN, elapsed : Int]
             /\ Started(i, L[i]).exists = L[i].exists
             /\ Started(i, L[i]).started =>
                    L[i].started \/ (L[i].exists /\ Started(i, L[i]).elapsed >= 0)
             /\ \/ Started(i, L[i]).elapsed = L[i].elapsed
                \/ /\ Started(i, L[i]).elapsed = L[i].elapsed - Duration[i]
                   /\ L[i].elapsed > Duration[i]
  <2> HIDE DEF L
  <2>1. L[i] \in [exists : BOOLEAN, started : BOOLEAN, elapsed : Int]
    BY <1>3 DEF L
  <2>2. PICK e \in Int : e = L[i].elapsed - Duration[i]
    BY <2>1, <1>1
  <2>3. \/ Started(i, L[i]) = L[i]
        \/ /\ Started(i, L[i]) = [L[i] EXCEPT !.elapsed = e]
           /\ L[i].started /\ L[i].elapsed > Duration[i]
        \/ /\ Started(i, L[i]) = [L[i] EXCEPT !.started = TRUE]
           /\ L[i].exists /\ L[i].elapsed >= 0
    BY <2>1, <2>2 DEF Started, ShouldEpochStart
  <2> QED BY <2>1, <2>2, <2>3, <1>1
<1>5. /\ epochs' \in [Identifiers -> [exists : BOOLEAN, started : BOOLEAN, elapsed : Int]]
      /\ \A i \in Identifiers : epochs'[i] = Started(i, L[i])
  BY <1>4 DEF BeginBlocker
<1>6. /\ clock' \in [Identifiers -> Int]
      /\ \A i \in Identifiers :
             clock'[i] = IF epochs[i].exists THEN (clock[i] + dt) % Duration[i] ELSE clock[i]
  <2>1. \A i \in Identifiers : (clock[i] + dt) % Duration[i] \in Int
    <3> TAKE i \in Identifiers
    <3>1. PICK x \in Int : x = clock[i] + dt
      BY <1>2 DEF EInv
    <3>2. x % Duration[i] \in Int
      BY <1>1
    <3> QED BY <3>1, <3>2
  <2> QED BY <2>1 DEF BeginBlocker, EInv
<1>7. ASSUME NEW i \in Identifiers PROVE EpochInv(i)'
  <2> DEFINE D == Duration[i]
             e == epochs[i].elapsed
  <2>1. e \in Int /\ D \in Nat \ {0} /\ EpochInv(i)
    BY <1>1 DEF EInv
  <2>2. CASE epochs[i].exists
    <3>1. L[i].elapsed = e + dt /\ L[i].exists
      BY <2>2, <1>3
    <3>2. (e + dt) % D = clock'[i]
      <4>1. (e + dt) % D = ((e % D) + dt) % D
        <5>1. e \in Int /\ D \in Nat \ {0} /\ dt \in Int
          BY <2>1, <1>2
        <5> HIDE DEF e, D
        <5> QED BY <5>1, ModSteps, Zenon
      <4> QED BY <4>1, <2>1, <2>2, <1>6 DEF EpochInv
    <3>3. ((e + dt) - D) % D = (e + dt) % D
      <4>1. PICK x \in Int : x = e + dt
        BY <2>1, <1>2
      <4> HIDE DEF e, D
      <4>2. (x - D) % D = x % D
        BY <2>1, ModSteps
      <4> QED BY <4>1, <4>2
    <3>4. epochs'[i].elapsed % D = clock'[i]
      BY <3>1, <3>2, <3>3, <1>4, <1>5
    <3>5. epochs'[i].started => epochs'[i].elapsed >= 0
      <4>1. epochs[i].started => e >= 0
        BY <2>1 DEF EpochInv
      <4> QED BY <4>1, <3>1, <2>1, <1>2, <1>3, <1>4, <1>5
    <3>6. epochs'[i].exists
      BY <3>1, <1>4, <1>5
    <3> QED BY <3>4, <3>5, <3>6 DEF EpochInv
  <2>3. CASE ~epochs[i].exists
    <3>1. ~epochs'[i].exists
      BY <2>3, <1>3, <1>4, <1>5
    <3>2. ~epochs[i].started
      BY <2>1, <2>3 DEF EpochInv
    <3>3. ~epochs'[i].started
      BY <2>3, <3>2, <1>3, <1>4, <1>5
    <3> QED BY <3>1, <3>3 DEF EpochInv
  <2> QED BY <2>2, <2>3
<1> QED BY <1>5, <1>6, <1>7 DEF EInv

\* Epochs never drift: however irregular the blocks, every epoch starts a
\* whole number of durations after StartTime and never ahead of its time.
THEOREM EpochsNeverDrift == Spec => []EpochsOnGrid
<1>1. Init => EInv
  <2> SUFFICES ASSUME Init PROVE EInv
    OBVIOUS
  <2>1. NoEpochInfo \in [exists : BOOLEAN, started : BOOLEAN, elapsed : Int]
        /\ ~NoEpochInfo.exists /\ ~NoEpochInfo.started
    BY DEF NoEpochInfo
  <2> QED BY <2>1 DEF Init, EpochsInit, EInv, EpochInv
<1>2. EInv /\ [Next]_vars => EInv'
  <2> SUFFICES ASSUME EInv, [Next]_vars PROVE EInv'
    OBVIOUS
  <2>1. ASSUME NEW dt \in Gaps, NEW failing \in SUBSET Identifiers, BeginBlock(dt, failing)
        PROVE  EInv'
    BY <2>1, BeginBlockerOnGrid DEF BeginBlock
  <2>2. ASSUME NEW i \in Identifiers, NEW s \in StartTimes, NewEpochInfo(i, s)
        PROVE  EInv'
    <3>1. s \in Int /\ Duration[i] \in Nat \ {0}
      BY EpochsAssumption
    <3>2. (-s) % Duration[i] \in Int
      BY <3>1, ModSteps
    <3>3. /\ epochs' = [epochs EXCEPT ![i] = [exists |-> TRUE, started |-> FALSE, elapsed |-> -s]]
          /\ clock' = [clock EXCEPT ![i] = (-s) % Duration[i]]
      BY <2>2 DEF NewEpochInfo, AddEpochInfo
    <3>4. ASSUME NEW j \in Identifiers PROVE EpochInv(j)'
      BY <3>1, <3>3 DEF EInv, EpochInv
    <3> QED BY <3>1, <3>2, <3>3, <3>4 DEF EInv
  <2>3. CASE epochs' = epochs /\ clock' = clock
    BY <2>3 DEF EInv, EpochInv
  <2> QED BY <2>1, <2>2, <2>3 DEF Next, UpdateParams, StakeChanges, vars
<1>3. EInv => EpochsOnGrid
  BY DEF EInv, EpochInv, EpochsOnGrid
<1> QED BY <1>1, <1>2, <1>3, PTL DEF Spec
=============================================================================
