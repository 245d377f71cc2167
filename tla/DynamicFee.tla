----------------------------- MODULE DynamicFee -----------------------------
(***************************************************************************)
(* x/dynamicfee: the base gas price, moved by every block towards filling  *)
(* blocks to their target, and its learning rate, which grows while the    *)
(* blocks of the last Window heights are nearly empty or nearly full and   *)
(* shrinks otherwise.                                                      *)
(*                                                                         *)
(* Prices and rates are LegacyDecs (see Dec).  A LegacyDec above MaxDec    *)
(* and a division by zero panic; both update functions recover.  Gas is a  *)
(* uint64 of Width bits, the sum of the window included.                   *)
(***************************************************************************)
EXTENDS Dec, FiniteSetsExt, Functions, Sequences

CONSTANTS ParamSets,    \* parameters governance may set
          MaxGasValues, \* values of the consensus parameter block.max_gas
          BlockGas,     \* gas that the transactions of a block may consume
          Width,        \* bits of a uint64
          MaxDec        \* the largest LegacyDec

Unlimited == {-1, 0}

\* Params.ValidateBasic.
ValidParams(p) ==
    /\ p.Window \in Nat \ {0}
    /\ p.Alpha \in Nat /\ p.Beta \in 0 .. Precision
    /\ p.Gamma \in Nat /\ 2 * p.Gamma <= Precision
    /\ p.MinBaseGasPrice \in Nat
    /\ p.TargetBlockUtilization \in 1 .. Precision
    /\ p.DefaultMaxBlockGas \in 1 .. 2 ^ (Width - 1) - 1
    /\ p.MinLearningRate \in Nat /\ p.MaxLearningRate \in Nat
    /\ p.MinLearningRate <= p.MaxLearningRate
    /\ p.Enabled \in BOOLEAN

ASSUME DynamicFeeAssumption ==
    /\ Width \in Nat \ {0} /\ MaxDec \in Nat
    /\ \A p \in ParamSets : ValidParams(p) /\ p.MinBaseGasPrice <= MaxDec
    /\ BlockGas \subseteq Nat
    /\ MaxGasValues \subseteq Unlimited \cup 1 .. 2 ^ (Width - 1) - 1

VARIABLES params,
          state,        \* State: Window, BaseGasPrice, Index (from 0), LearningRate
          maxGas,       \* consensus_params.block.max_gas
          height,       \* the block height, modulo 2
          last,         \* the gas the last block consumed
          history       \* what the last blocks recorded since NewState, in
                        \* order, as many as the window has room for
vars == <<params, state, maxGas, height, last, history>>

NewState(window, baseGasPrice, learningRate) ==
    [Window |-> [i \in 1 .. window |-> 0], BaseGasPrice |-> baseGasPrice,
     Index |-> 0, LearningRate |-> learningRate]

StateFor(p) == NewState(p.Window, p.MinBaseGasPrice, p.MinLearningRate)

Init ==
    /\ params \in ParamSets
    /\ state = StateFor(params)
    /\ maxGas \in MaxGasValues
    /\ height = 0
    /\ last = 0
    /\ history = <<>>

-----------------------------------------------------------------------------
(***************************************************************************)
(* The update of one block                                                 *)
(***************************************************************************)

GetMaxBlockGas(p) == IF maxGas \in Unlimited THEN p.DefaultMaxBlockGas ELSE maxGas

GetTargetBlockGas(maxBlockGas, p) ==
    TruncateInt(Mul(NewDecFromInt(maxBlockGas), p.TargetBlockUtilization))

\* What the sliding window records of a block.
RecordedGas(gas, maxBlockGas) == IF gas > maxBlockGas THEN maxBlockGas ELSE gas

TotalGas(window) == SumFunction(window)

GetAverageGas(window, maxBlockGas) ==
    Quo(NewDecFromInt(TotalGas(window) % 2 ^ Width),
        NewDecFromInt(maxBlockGas * Len(window)))

\* Mutant: a quiet window shrinks the rate.
OneSidedLearningRate(rate, avg, p) ==
    IF avg >= Precision - p.Gamma THEN Min({rate + p.Alpha, p.MaxLearningRate})
    ELSE Max({Mul(rate, p.Beta), p.MinLearningRate})

\* The next rate, from the average gas of the window.
UpdateLearningRate(rate, avg, p) ==
    IF avg <= p.Gamma \/ avg >= Precision - p.Gamma
    THEN IF rate + p.Alpha > MaxDec THEN p.MinLearningRate
         ELSE Min({rate + p.Alpha, p.MaxLearningRate})
    ELSE Max({Mul(rate, p.Beta), p.MinLearningRate})

\* Mutant: the operands are swapped.
MutantNetUtilization(used, target) ==
    QuoSigned(NewDecFromInt(target - used), NewDecFromInt(target))

NetUtilization(used, target) ==
    QuoSigned(NewDecFromInt(used - target), NewDecFromInt(target))

\* 1 + rate * (used - target) / target
LearningRateAdjustment(rate, used, target) ==
    Precision + Mul(rate, NetUtilization(used, target))

Overflows(x) == x > MaxDec \/ -x > MaxDec

\* Dividing by a target of zero, or an overflow on the way, panics.
Panics(price, rate, used, target) ==
    \/ target = 0
    \/ Overflows(NetUtilization(used, target))
    \/ Overflows(Mul(rate, NetUtilization(used, target)))
    \/ Overflows(LearningRateAdjustment(rate, used, target))
    \/ Overflows(Mul(price, LearningRateAdjustment(rate, used, target)))

\* The next price and rate; UpdateBaseGasPrice resets both when it recovers
\* from a panic.
UpdateBaseGasPrice(price, rate, used, target, p) ==
    IF Panics(price, rate, used, target)
    THEN <<p.MinBaseGasPrice, p.MinLearningRate>>
    ELSE <<Max({Mul(price, LearningRateAdjustment(rate, used, target)),
                p.MinBaseGasPrice}), rate>>

\* Mutant: the slot of the next block keeps the gas of Window blocks ago.
MutantIncrementHeight(window, index) ==
    [Window |-> window, Index |-> (index + 1) % Len(window)]

IncrementHeight(window, index) ==
    LET next == (index + 1) % Len(window)
    IN  [Window |-> [window EXCEPT ![next + 1] = 0], Index |-> next]

\* The state after a block that consumed gas.
UpdateDynamicfee(gas) ==
    LET maxBlockGas == GetMaxBlockGas(params)
        used == RecordedGas(gas, maxBlockGas)
        window == [state.Window EXCEPT ![state.Index + 1] = used]
        rate == UpdateLearningRate(state.LearningRate,
                                   GetAverageGas(window, maxBlockGas), params)
        priced == UpdateBaseGasPrice(state.BaseGasPrice, rate, used,
                                     GetTargetBlockGas(maxBlockGas, params), params)
        moved == IncrementHeight(window, state.Index)
    IN  [Window |-> moved.Window, Index |-> moved.Index,
         BaseGasPrice |-> priced[1], LearningRate |-> priced[2]]

-----------------------------------------------------------------------------
(***************************************************************************)
(* Actions                                                                 *)
(***************************************************************************)

\* The last n elements of s.
LastOf(s, n) == IF Len(s) <= n THEN s ELSE SubSeq(s, Len(s) - n + 1, Len(s))

\* Mutant: an empty block updates nothing.
MutantEndBlock(gas) ==
    /\ UNCHANGED <<params, maxGas>>
    /\ height' = 1 - height
    /\ last' = gas
    /\ IF params.Enabled /\ gas > 0
       THEN /\ state' = UpdateDynamicfee(gas)
            /\ history' = LastOf(
                   Append(history, RecordedGas(gas, GetMaxBlockGas(params))),
                   params.Window)
       ELSE UNCHANGED <<state, history>>

\* EndBlock of a block whose transactions consumed gas.
EndBlock(gas) ==
    /\ UNCHANGED <<params, maxGas>>
    /\ height' = 1 - height
    /\ last' = gas
    /\ IF params.Enabled
       THEN /\ state' = UpdateDynamicfee(gas)
            /\ history' = LastOf(
                   Append(history, RecordedGas(gas, GetMaxBlockGas(params))),
                   params.Window)
       ELSE UNCHANGED <<state, history>>

UpdateParams(p) ==
    /\ params' = p
    /\ state' = StateFor(p)
    /\ history' = <<>>
    /\ UNCHANGED <<maxGas, height, last>>

\* A consensus parameter change; the window keeps what it recorded.
UpdateMaxGas(g) ==
    /\ maxGas' = g
    /\ UNCHANGED <<params, state, height, last, history>>

Next ==
    \/ \E gas \in BlockGas : EndBlock(gas)
    \/ \E p \in ParamSets : UpdateParams(p)
    \/ \E g \in MaxGasValues : UpdateMaxGas(g)

Spec == Init /\ [][Next]_vars

\* The chain goes on making blocks.
FairSpec == Spec /\ []<>(height = 0) /\ []<>(height = 1)

-----------------------------------------------------------------------------
(***************************************************************************)
(* Genesis: ExportGenesis writes params and state, InitGenesis panics      *)
(* unless they validate.                                                   *)
(***************************************************************************)

ValidState(s) ==
    /\ s.Window # <<>> /\ s.Index < Len(s.Window)
    /\ s.BaseGasPrice > 0 /\ s.LearningRate > 0

ValidGenesis(p, s) ==
    /\ ValidParams(p) /\ ValidState(s)
    /\ p.Window = Len(s.Window)

-----------------------------------------------------------------------------
(***************************************************************************)
(* Properties                                                              *)
(***************************************************************************)

TypeOK ==
    /\ params \in ParamSets
    /\ state \in [Window : Seq(Nat), BaseGasPrice : 0 .. MaxDec, Index : Nat,
                 LearningRate : Nat]
    /\ state.Index < Len(state.Window)
    /\ maxGas \in MaxGasValues
    /\ height \in {0, 1}
    /\ last \in {0} \cup BlockGas
    /\ history \in Seq(Nat) /\ Len(history) <= params.Window

\* However full or empty the blocks, whatever overflowed and whichever
\* parameters were set on the way, the price is at least the minimum and
\* the learning rate between its bounds.
WithinBounds ==
    /\ state.BaseGasPrice >= params.MinBaseGasPrice
    /\ state.LearningRate \in params.MinLearningRate .. params.MaxLearningRate

\* Outside EndBlock the window holds the gas of the last Window - 1 blocks,
\* the most recent one just before Index, and nothing of older blocks or of
\* the time before the last parameter change: the slot of the block being
\* made, and the slots that no block has filled, are 0.
WindowIsHistory ==
    LET n == Len(state.Window)
        slot(i) == (state.Index + n - i) % n    \* of i blocks before this one
    IN  \A i \in 1 .. n :
            state.Window[slot(i) + 1] =
                IF i < n /\ i <= Len(history) THEN history[Len(history) - i + 1] ELSE 0

\* A block above its target never lowers the price, a block below it never
\* raises it and a block on target leaves it, unless a panic has reset price
\* and rate to their minima.
PriceFollowsBlock ==
    [][\A gas \in BlockGas :
          params.Enabled /\ EndBlock(gas) =>
              LET target == GetTargetBlockGas(GetMaxBlockGas(params), params)
                  used == RecordedGas(gas, GetMaxBlockGas(params))
                  price == state.BaseGasPrice
                  reset == /\ state'.BaseGasPrice = params.MinBaseGasPrice
                           /\ state'.LearningRate = params.MinLearningRate
              IN  \/ reset
                  \/ /\ used >= target => state'.BaseGasPrice >= price
                     /\ used <= target => state'.BaseGasPrice <= price]_vars

\* used / room against the LegacyDec x, up to the half unit Quo rounds; what
\* Quo cuts off before it rounds, less than 1 / Precision of a unit, may turn
\* a share just above x + 1/2 into a tie, and a tie may round down.
AtMost(used, room, x) == 2 * Precision * Precision * used < ((2 * x + 1) * Precision + 2) * room
AtLeast(used, room, x) == 2 * Precision * used >= (2 * x - 1) * room

\* From one state to the next the rate grows only if the window says so, and
\* shrinks only if it says so or a panic has reset it, with the price in
\* UpdateBaseGasPrice or alone in UpdateLearningRate.
RateFollows ==
    LET used == TotalGas(history')
        room == params.Window * GetMaxBlockGas(params)
        low == params.Gamma
        high == Precision - params.Gamma
        rate == state.LearningRate
    IN  used < 2 ^ Width =>
        /\ state'.LearningRate > rate =>
              AtMost(used, room, low) \/ AtLeast(used, room, high)
        /\ state'.LearningRate < rate =>
              \/ AtLeast(used, room, low) /\ AtMost(used, room, high)
              \/ /\ state'.LearningRate = params.MinLearningRate
                 /\ \/ state'.BaseGasPrice = params.MinBaseGasPrice
                    \/ rate + params.Alpha > MaxDec

\* A block makes the rate grow only if the last Window blocks, itself
\* included, used at most Gamma or at least 1 - Gamma of what they could have,
\* and shrink only if they did not or a panic has reset the rate; as long as
\* the gas of the window fits a uint64.
RateFollowsWindow ==
    [][\A gas \in BlockGas : params.Enabled /\ EndBlock(gas) => RateFollows]_vars

\* With positive minima an exported chain can be started again: InitGenesis
\* accepts what ExportGenesis writes in any state.
ExportImports ==
    params.MinBaseGasPrice > 0 /\ params.MinLearningRate > 0 =>
        ValidGenesis(params, state)

\* While blocks stay empty the price falls back to its minimum.
PriceReturns ==
    <>[](params.Enabled /\ last = 0)
        => []<>(state.BaseGasPrice = params.MinBaseGasPrice)
=============================================================================
