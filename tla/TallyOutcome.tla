---------------------------- MODULE TallyOutcome ----------------------------
(***************************************************************************)
(* What a tally decides, and the dynamic quorums it moves.  Each kind of   *)
(* proposal has an average of the participation in past votes; the quorum  *)
(* for the kind lies between its bounds in proportion to that average.     *)
(*                                                                         *)
(* A count t holds the voting power for each option, the total voting      *)
(* power (LegacyDecs, see Tally) and the bonded tokens.  Splitting a       *)
(* ballot rounds, so the options need not add up to the total.  Precision  *)
(* is a multiple of 10, as in the library, so that 0.8 and 0.2 are exact.  *)
(***************************************************************************)
EXTENDS Dec, FiniteSetsExt

Kinds == {"any", "law", "amendment"}

CONSTANTS QuorumRange,      \* [Kinds -> [min, max]]
          Threshold,        \* [Kinds -> LegacyDec]
          BurnDepositNoThreshold,
          BurnVoteQuorum,
          InitialEMA,       \* the averages the genesis state sets
          Counts            \* the counts explored

\* What Params.ValidateBasic demands.
ASSUME OutcomeParamsAssumption ==
    /\ Precision % 10 = 0
    /\ \A k \in Kinds :
          /\ QuorumRange[k].min \in 0 .. Precision /\ QuorumRange[k].max \in QuorumRange[k].min .. Precision
          /\ Threshold[k] \in 1 .. Precision
          /\ BurnDepositNoThreshold >= Precision - Threshold[k]
    /\ Threshold["any"] <= Threshold["law"] /\ Threshold["law"] <= Threshold["amendment"]
    /\ BurnDepositNoThreshold <= Precision /\ BurnVoteQuorum \in BOOLEAN

\* No option has more than the total, which exceeds the bonded tokens by
\* rounding only (TurnoutWithinBonded of Tally).
ASSUME CountsAssumption ==
    /\ InitialEMA \in [Kinds -> 0 .. Precision]
    /\ \A t \in Counts :
          /\ {t.bonded, t.total} \subseteq Nat
          /\ {t.yes, t.abstain, t.no} \subseteq 0 .. t.total
          /\ t.bonded = 0 => t.total = 0
          /\ t.bonded > 0 => 2 * (t.total - NewDecFromInt(t.bonded)) < t.bonded

VARIABLE ema    \* ParticipationEMA and its siblings, one for each kind

OutcomeInit == ema = InitialEMA

ComputeQuorum(participationEma, range) == range.min + Mul(range.max - range.min, participationEma)

GetQuorum(k) == ComputeQuorum(ema[k], QuorumRange[k])

\* Mutant: the last kind found decides.
LastKind(kinds, endorsed) ==
    LET k == IF "law" \in kinds THEN "law" ELSE IF "amendment" \in kinds THEN "amendment" ELSE "any"
    IN  [quorum |-> GetQuorum(k), threshold |-> Threshold[k]]

\* The default quorum and threshold, or those of a kind if higher.  An
\* endorsed law needs the default threshold only.
GetQuorumAndThreshold(kinds, endorsed) ==
    LET applying == kinds \cup {"any"}
        threshold(k) == IF k = "law" /\ endorsed THEN Threshold["any"] ELSE Threshold[k]
    IN  [quorum    |-> Max({GetQuorum(k) : k \in applying}),
         threshold |-> Max({threshold(k) : k \in applying})]

PercentVoting(t) == IF t.bonded = 0 THEN 0 ELSE Quo(t.total, NewDecFromInt(t.bonded))

\* Mutant: abstaining power takes sides.
VerdictCountingAbstain(kinds, endorsed, t) ==
    LET needed == GetQuorumAndThreshold(kinds, endorsed)
    IN  IF t.bonded = 0 \/ PercentVoting(t) < needed.quorum \/ t.total = 0 THEN "rejected"
        ELSE IF Quo(t.yes, t.total) > needed.threshold THEN "passed" ELSE "rejected"

\* Tally: "burned" is a rejection that burns the deposits.
Verdict(kinds, endorsed, t) ==
    LET needed == GetQuorumAndThreshold(kinds, endorsed)
        activeVotingPower == t.total - t.abstain
        percent(power) == Quo(power, activeVotingPower)
    IN  IF t.bonded = 0 THEN "rejected"
        ELSE IF PercentVoting(t) < needed.quorum THEN IF BurnVoteQuorum THEN "burned" ELSE "rejected"
        ELSE IF activeVotingPower = 0 THEN "rejected"
        ELSE IF percent(t.yes) > needed.threshold THEN "passed"
        ELSE IF percent(t.no) > BurnDepositNoThreshold THEN "burned"
        ELSE "rejected"

\* Mutant: the new participation weighs 0.3.
FormulaOverweight(old, new) == Mul(old, 8 * (Precision \div 10)) + Mul(new, 3 * (Precision \div 10))

Formula(old, new) == Mul(old, 8 * (Precision \div 10)) + Mul(new, 2 * (Precision \div 10))

\* The end of a vote on a proposal with messages of the given kinds.
UpdateParticipationEMA(kinds, participation) ==
    ema' = [k \in Kinds |-> IF k \in kinds THEN Formula(ema[k], participation) ELSE ema[k]]

Participations == {PercentVoting(t) : t \in Counts}

OutcomeNext ==
    \E kinds \in SUBSET Kinds \ {{}}, participation \in Participations :
        UpdateParticipationEMA(kinds, participation)

OutcomeSpec == OutcomeInit /\ [][OutcomeNext]_ema
----------------------------------------------------------------------------
\* Whatever the participation was, a quorum stays within its bounds; in
\* particular a quorum never exceeds what all the stake can reach.
\* (UpdateParticipationEMA, computeQuorum)
QuorumWithinRange == \A k \in Kinds : GetQuorum(k) \in QuorumRange[k].min .. QuorumRange[k].max

\* A proposal passes only if the exact share of Yes among the power that takes
\* sides is above the threshold, and the participation is not short of the
\* quorum by more than the half unit it may be rounded up.  One that exceeds
\* both by a unit does pass.  (Tally: "more than threshold of non-abstaining
\* voters vote Yes")
PassedHasMajority ==
    \A kinds \in SUBSET Kinds \ {{}}, endorsed \in BOOLEAN, t \in Counts :
        LET needed == GetQuorumAndThreshold(kinds, endorsed)
            active == t.total - t.abstain
            passed == Verdict(kinds, endorsed, t) = "passed"
        IN  /\ passed => /\ t.yes * Precision > needed.threshold * active
                         /\ 2 * t.total >= (2 * needed.quorum - 1) * t.bonded
            /\ /\ t.bonded > 0 /\ active > 0
               /\ t.total >= needed.quorum * t.bonded
               /\ t.yes * Precision >= (needed.threshold + 1) * active
               => passed

\* Bundling messages of several kinds makes a proposal no easier to pass than
\* each of its kinds is alone.  (getQuorumAndThreshold: "the highest quorum and
\* threshold is returned")
BundlingIsNoShortcut ==
    \A kinds \in SUBSET Kinds \ {{}}, endorsed \in BOOLEAN, t \in Counts :
        Verdict(kinds, endorsed, t) = "passed" =>
            \A k \in kinds : Verdict({k}, endorsed, t) = "passed"
=============================================================================
