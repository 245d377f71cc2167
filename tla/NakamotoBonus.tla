--------------------------- MODULE NakamotoBonus ---------------------------
(***************************************************************************)
(* The Nakamoto bonus coefficient of x/distribution, adjusted at the end   *)
(* of every epoch of the identifier its parameters name, on top of the     *)
(* BeginBlocker of x/epochs.  The hooks of one epoch run on a cache of the *)
(* store that is dropped when any of them fails.                           *)
(***************************************************************************)
EXTENDS Epochs, Allocation, SequencesExt

CONSTANTS ParamSets,    \* parameters governance may set: CommunityTax and the
                        \* fields of NakamotoBonus
          Stakes,       \* the bonded tokens of the bonded validators
          Coefficients  \* initial values

\* Params.ValidateBasic; the identifier need not be one of x/epochs.
ValidParams(p) ==
    /\ p.CommunityTax \in 0 .. Precision
    /\ p.Enabled \in BOOLEAN
    /\ p.Step \in 1 .. Precision
    /\ p.MinimumCoefficient \in 1 .. Precision
    /\ p.MaximumCoefficient \in p.MinimumCoefficient .. Precision

ASSUME NakamotoAssumption ==
    /\ \A p \in ParamSets : ValidParams(p)
    /\ Stakes \subseteq Seq(Nat)
    /\ Coefficients \subseteq 0 .. Precision

VARIABLES params,
          coefficient,  \* NakamotoBonusCoefficient
          bonded,       \* GetBondedTokens of GetBondedValidatorsByPower
          failed        \* identifiers with a failing AfterEpochEnd hook
vars == <<epochs, ended, gap, height, clock, params, coefficient, bonded, failed>>

Init ==
    /\ EpochsInit
    /\ params \in ParamSets
    /\ coefficient \in Coefficients
    /\ bonded \in Stakes
    /\ failed = {}

-----------------------------------------------------------------------------
SumOf(vals) == SumFunction(vals)
Avg(vals) == IF vals = <<>> THEN 0 ELSE QuoInt(NewDecFromInt(SumOf(vals)), Len(vals))

High(vals) == SubSeq(SortSeq(vals, >), 1, Len(vals) \div 3)
Low(vals) == SubSeq(SortSeq(vals, >), Len(vals) - Len(vals) \div 3 + 1, Len(vals))

\* Mutant: the threshold itself is not enough.
AboveThreshold(vals) ==
    \/ Avg(Low(vals)) = 0
    \/ Quo(Avg(High(vals)), Avg(Low(vals))) > NewDecFromInt(3)

\* Whether the stake is concentrated enough to raise the coefficient.
ShouldIncrease(vals) ==
    \/ Avg(Low(vals)) = 0
    \/ Quo(Avg(High(vals)), Avg(Low(vals))) >= NewDecFromInt(3)

Clamped(p, c) ==
    IF c < p.MinimumCoefficient THEN p.MinimumCoefficient
    ELSE IF c > p.MaximumCoefficient THEN p.MaximumCoefficient
    ELSE c

NewCoefficient(p, c, vals) ==
    Clamped(p, IF ShouldIncrease(vals) THEN c + p.Step ELSE c - p.Step)

\* AdjustNakamotoBonusCoefficient, and the check SetNakamotoBonusCoefficient
\* makes: the coefficient it leaves, or the error that drops it.
AdjustNakamotoBonusCoefficient(p, c, vals) ==
    LET new == NewCoefficient(p, c, vals)
    IN  IF p.Enabled /\ Len(vals) >= 3 /\ new \in 0 .. Precision THEN new ELSE c

\* A block dt after the last one, in which the AfterEpochEnd hooks of other
\* modules fail for the identifiers failing.
BeginBlock(dt, failing) ==
    /\ BeginBlocker(dt)
    /\ failed' = failing
    /\ coefficient' = IF params.PeriodEpochIdentifier \in ended' \ failing
                      THEN AdjustNakamotoBonusCoefficient(params, coefficient, bonded)
                      ELSE coefficient
    /\ UNCHANGED <<params, bonded>>

NewEpochInfo(i, startTime) ==
    /\ AddEpochInfo(i, startTime)
    /\ UNCHANGED <<params, coefficient, bonded, failed>>

\* The coefficient is left as it is, in the new range or not.
UpdateParams(p) ==
    /\ params' = p
    /\ ended' = {}
    /\ UNCHANGED <<epochs, gap, height, clock, coefficient, bonded, failed>>

\* x/staking moves stake, bonds and unbonds validators.
StakeChanges(vals) ==
    /\ bonded' = vals
    /\ ended' = {}
    /\ UNCHANGED <<epochs, gap, height, clock, params, coefficient, failed>>

Next ==
    \/ \E dt \in Gaps, failing \in SUBSET Identifiers : BeginBlock(dt, failing)
    \/ \E i \in Identifiers, s \in StartTimes : NewEpochInfo(i, s)
    \/ \E p \in ParamSets : UpdateParams(p)
    \/ \E vals \in Stakes : StakeChanges(vals)

Spec == Init /\ [][Next]_vars

\* The chain goes on making blocks.
FairSpec == Spec /\ []<>(height = 0) /\ []<>(height = 1)

-----------------------------------------------------------------------------
(* Properties *)

TypeOK ==
    /\ EpochsTypeOK
    /\ params \in ParamSets
    /\ coefficient \in 0 .. Precision
    /\ bonded \in Stakes
    /\ failed \subseteq Identifiers

\* In every state the next AllocateTokens can divide any fees among the bonded
\* validators: the rewards of all of them together never exceed what was
\* collected, so that Sub does not panic in the BeginBlocker.
AllocationCovered ==
    LET votes == [v \in DOMAIN bonded |-> bonded[v]]
    IN  TotalPower(votes) > 0 =>
            \A fees \in 1 .. Precision : Remaining(fees, votes, params, coefficient) >= 0

\* The coefficient moves only in a block that ends an epoch of the identifier
\* the parameters name and in which no hook fails, and then by a step towards
\* the range of the parameters or within it.
AdjustedAtEpochEnd ==
    [][coefficient' # coefficient =>
          /\ params.PeriodEpochIdentifier \in ended' \ failed'
          /\ coefficient' \in params.MinimumCoefficient .. params.MaximumCoefficient
          /\ \/ coefficient' - coefficient \in -params.Step .. params.Step
             \/ coefficient' \in {params.MinimumCoefficient, params.MaximumCoefficient}]_vars

\* Whether the high third holds at least three times what the low third holds.
Concentrated(vals) == SumOf(High(vals)) >= 3 * SumOf(Low(vals))

Settled(p, concentrated) ==
    /\ params = p /\ p.Enabled
    /\ p.PeriodEpochIdentifier \in Identifiers
    /\ epochs[p.PeriodEpochIdentifier].exists
    /\ p.PeriodEpochIdentifier \notin failed
    /\ Len(bonded) >= 3 /\ Concentrated(bonded) = concentrated

\* The feedback works: as long as the stake stays concentrated and the hooks
\* succeed, the coefficient rises to its maximum, and as long as the stake
\* stays spread it falls to its minimum, however blocks and epochs interleave.
CoefficientFollowsStake ==
    \A p \in ParamSets :
        /\ <>[]Settled(p, TRUE) => <>[](coefficient = p.MaximumCoefficient)
        /\ <>[]Settled(p, FALSE) => <>[](coefficient = p.MinimumCoefficient)
=============================================================================
