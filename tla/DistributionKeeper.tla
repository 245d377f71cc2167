------------------------- MODULE DistributionKeeper -------------------------
(***************************************************************************)
(* The x/distribution keeper: the rewards of validators and of those who   *)
(* delegate to them, kept by period ("F1").  Whenever a delegation or the  *)
(* tokens of a validator change, its current period ends and a historical  *)
(* record of the rewards per token up to then is written; a delegation     *)
(* remembers the period it started in, and its rewards are the difference  *)
(* of two records times its stake, cut at every slash in between.          *)
(*                                                                         *)
(* Coins are of one denomination.  dist, the stores of the keeper:         *)
(*   outstanding[v]    ValidatorOutstandingRewards                         *)
(*   commission[v]     ValidatorAccumulatedCommission                      *)
(*   rewards[v], period[v]  ValidatorCurrentRewards                        *)
(*   historical[v]     ValidatorHistoricalRewards, by period: the ratio    *)
(*                     and its reference count                             *)
(*   starting[d][v]    DelegatorStartingInfo, if set                       *)
(*   slashes[v]        ValidatorSlashEvents; their keys (height, period)   *)
(*                     only grow, so the sequence is in key order          *)
(*   pool              FeePool.CommunityPool                               *)
(*   balance           coins of the module account                         *)
(*   panicked          a function called panic, or failed on a store it    *)
(*                     found inconsistent                                  *)
(* stk holds the validators and delegations of x/staking that the keeper   *)
(* reads; h is the block height.                                           *)
(***************************************************************************)
EXTENDS StakingShares, Allocation, SequencesExt

CONSTANTS Delegators, Validators,
          CommissionRate        \* of every validator, a LegacyDec

ASSUME CommissionAssumption == CommissionRate \in 0 .. Precision
ASSUME FiniteAssumption == IsFiniteSet(Delegators) /\ IsFiniteSet(Validators)

Panic(dist) == [dist EXCEPT !.panicked = TRUE]
PanicIf(condition, dist) == IF condition THEN Panic(dist) ELSE dist

NoRecord == [ratio |-> 0, refs |-> 0]
NotStarted == [set |-> FALSE, period |-> 0, stake |-> 0, height |-> 0]

\* GetValidatorHistoricalRewards: a record that is not there decodes to zeros.
Historical(dist, v, p) ==
    IF p \in DOMAIN dist.historical[v] THEN dist.historical[v][p] ELSE NoRecord

SetHistorical(dist, v, p, record) ==
    [dist EXCEPT !.historical[v] =
        [q \in DOMAIN @ \cup {p} |-> IF q = p THEN record ELSE @[q]]]

DeleteHistorical(dist, v, p) ==
    [dist EXCEPT !.historical[v] = [q \in DOMAIN @ \ {p} |-> @[q]]]

-----------------------------------------------------------------------------
(* validator.go *)

initializeValidator(dist, v) ==
    [dist EXCEPT !.historical[v] = 0 :> [ratio |-> 0, refs |-> 1],
                 !.rewards[v] = 0,
                 !.period[v] = 1,
                 !.commission[v] = 0,
                 !.outstanding[v] = 0]

incrementReferenceCount(dist, v, p) ==
    LET record == Historical(dist, v, p)
    IN  PanicIf(record.refs > 2,
                SetHistorical(dist, v, p, [record EXCEPT !.refs = @ + 1]))

decrementReferenceCount(dist, v, p) ==
    LET record == Historical(dist, v, p)
    IN  CASE record.refs = 0 -> Panic(dist)
          [] record.refs = 1 -> DeleteHistorical(dist, v, p)
          [] record.refs > 1 -> SetHistorical(dist, v, p, [record EXCEPT !.refs = @ - 1])

\* End the current period.  Without tokens there is no ratio: the rewards go
\* to the community pool.
IncrementValidatorPeriod(dist, stk, v) ==
    LET rewards == dist.rewards[v]
        ended == dist.period[v]
        worthless == stk.tokens[v] = 0
        current == IF worthless THEN 0
                   ELSE QuoTruncate(rewards, NewDecFromInt(stk.tokens[v]))
        pooled == IF ~worthless THEN dist
                  ELSE PanicIf(dist.outstanding[v] < rewards,
                               [dist EXCEPT !.pool = @ + rewards,
                                            !.outstanding[v] = @ - rewards])
        ratio == Historical(dist, v, ended - 1).ratio
    IN  [SetHistorical(decrementReferenceCount(pooled, v, ended - 1), v, ended,
                       [ratio |-> ratio + current, refs |-> 1])
           EXCEPT !.rewards[v] = 0, !.period[v] = ended + 1]

\* Mutant: the slash event holds no reference to its record.
SlashUncounted(dist, stk, v, fraction, h) ==
    LET ended == dist.period[v]
    IN  [IncrementValidatorPeriod(dist, stk, v) EXCEPT !.slashes[v] =
            Append(@, [height |-> h, period |-> ended, fraction |-> fraction])]

\* The period that ends holds one more reference, for the slash event.
updateValidatorSlashFraction(dist, stk, v, fraction, h) ==
    LET ended == dist.period[v]
        counted == incrementReferenceCount(IncrementValidatorPeriod(dist, stk, v), v, ended)
    IN  PanicIf(fraction > Precision,
                [counted EXCEPT !.slashes[v] =
                    Append(@, [height |-> h, period |-> ended, fraction |-> fraction])])

-----------------------------------------------------------------------------
(* delegation.go *)

initializeDelegation(dist, stk, d, v, h) ==
    LET previous == dist.period[v] - 1
        stake == QuoTruncate(MulInt(stk.del[d][v], stk.tokens[v]), stk.shares[v])
    IN  [incrementReferenceCount(dist, v, previous) EXCEPT
            !.starting[d][v] = [set |-> TRUE, period |-> previous,
                                stake |-> stake, height |-> h]]

\* Mutant: rounds to the nearest unit.
RewardsBetweenRounded(dist, v, from, to, stake) ==
    LET difference == Historical(dist, v, to).ratio - Historical(dist, v, from).ratio
    IN  [rewards |-> Mul(difference, stake),
         panics  |-> from > to \/ stake < 0 \/ difference < 0]

\* The rewards of a stake between two periods; negative ones panic.
calculateDelegationRewardsBetween(dist, v, from, to, stake) ==
    LET difference == Historical(dist, v, to).ratio - Historical(dist, v, from).ratio
    IN  [rewards |-> MulTruncate(difference, stake),
         panics  |-> from > to \/ stake < 0 \/ difference < 0]

\* Mutant: the stake before the slash is the stake after it too.
SlashForgotten(dist, v, acc, event) ==
    LET between == calculateDelegationRewardsBetween(dist, v, acc.period, event.period, acc.stake)
    IN  IF event.period <= acc.period THEN acc
        ELSE [acc EXCEPT !.rewards = @ + between.rewards, !.period = event.period]

\* Mutant: the slash also takes from the rewards earned before it.
SlashFirst(dist, v, acc, event) ==
    LET stake == MulTruncate(acc.stake, Precision - event.fraction)
        between == calculateDelegationRewardsBetween(dist, v, acc.period, event.period, stake)
    IN  IF event.period <= acc.period THEN acc
        ELSE [acc EXCEPT !.rewards = @ + between.rewards, !.stake = stake,
                         !.period = event.period]

\* One slash event on the way: rewards up to it, then the stake it left.
AcrossSlash(dist, v, acc, event) ==
    LET between == calculateDelegationRewardsBetween(dist, v, acc.period, event.period, acc.stake)
    IN  IF event.period <= acc.period THEN acc
        ELSE [rewards |-> acc.rewards + between.rewards,
              stake   |-> MulTruncate(acc.stake, Precision - event.fraction),
              period  |-> event.period,
              panics  |-> acc.panics \/ between.panics]

\* The stake recorded may exceed the stake held by this much, from rounding.
MarginOfErr == 3

CalculateDelegationRewards(dist, stk, d, v, endingPeriod, h) ==
    LET info == dist.starting[d][v]
        events == SelectSeq(dist.slashes[v], LAMBDA e : e.height \in info.height .. h)
        acc == FoldLeft(LAMBDA a, e : AcrossSlash(dist, v, a, e),
                        [rewards |-> 0, stake |-> info.stake,
                         period |-> info.period, panics |-> FALSE],
                        events)
        currentStake == Quo(MulInt(stk.del[d][v], stk.tokens[v]), stk.shares[v])
        final == calculateDelegationRewardsBetween(dist, v, acc.period, endingPeriod,
                                                   Min({acc.stake, currentStake}))
    IN  IF info.height = h THEN [rewards |-> 0, panics |-> FALSE]
        ELSE [rewards |-> acc.rewards + final.rewards,
              panics  |-> \/ acc.panics \/ final.panics
                          \/ acc.stake > currentStake + MarginOfErr]

\* Mutant: the fraction of a coin is dropped.
WithdrawWholeCoins(dist, stk, d, v, h) ==
    LET ended == IncrementValidatorPeriod(dist, stk, v)
        due == CalculateDelegationRewards(ended, stk, d, v, dist.period[v], h)
        rewards == Min({due.rewards, ended.outstanding[v]})
        coins == TruncateInt(rewards)
        paid == [ended EXCEPT !.balance = @ - coins, !.outstanding[v] = @ - rewards]
    IN  [decrementReferenceCount(paid, v, dist.starting[d][v].period)
           EXCEPT !.starting[d][v] = NotStarted]

\* Pay what the outstanding rewards cover in whole coins; the fraction goes to
\* the community pool.
withdrawDelegationRewards(dist, stk, d, v, h) ==
    LET ended == IncrementValidatorPeriod(dist, stk, v)
        due == CalculateDelegationRewards(ended, stk, d, v, dist.period[v], h)
        rewards == Min({due.rewards, ended.outstanding[v]})
        coins == TruncateInt(rewards)
        paid == [ended EXCEPT !.balance = @ - coins,
                              !.outstanding[v] = @ - rewards,
                              !.pool = @ + rewards - NewDecFromInt(coins)]
    IN  PanicIf(\/ due.panics \/ coins > ended.balance \/ ~dist.starting[d][v].set,
                [decrementReferenceCount(paid, v, dist.starting[d][v].period)
                   EXCEPT !.starting[d][v] = NotStarted])

-----------------------------------------------------------------------------
(* allocation.go *)

AllocateTokensToValidator(dist, v, tokens) ==
    LET commission == Mul(tokens, CommissionRate)
    IN  PanicIf(commission > tokens,
                [dist EXCEPT !.commission[v] = @ + commission,
                             !.rewards[v] = @ + tokens - commission,
                             !.outstanding[v] = @ + tokens])

\* The fees move to the module account.  Without any voting power all of them
\* go to the community pool, else what the validators do not get.
AllocateTokens(dist, fees, votes, params, coefficient) ==
    LET amount == NewDecFromInt(fees)
        moved == [dist EXCEPT !.balance = @ + fees]
        rewarded == FoldSet(LAMBDA v, acc : AllocateTokensToValidator(acc, v,
                                Reward(amount, votes, v, params, coefficient)),
                            moved, DOMAIN votes)
        remaining == Remaining(amount, votes, params, coefficient)
    IN  IF TotalPower(votes) = 0 THEN [moved EXCEPT !.pool = @ + amount]
        ELSE PanicIf(remaining < 0, [rewarded EXCEPT !.pool = @ + remaining])

-----------------------------------------------------------------------------
(* hooks.go *)

AfterValidatorCreated(dist, v) == initializeValidator(dist, v)
BeforeDelegationCreated(dist, stk, v) == IncrementValidatorPeriod(dist, stk, v)
BeforeDelegationSharesModified(dist, stk, d, v, h) == withdrawDelegationRewards(dist, stk, d, v, h)
AfterDelegationModified(dist, stk, d, v, h) == initializeDelegation(dist, stk, d, v, h)
BeforeValidatorSlashed(dist, stk, v, fraction, h) ==
    updateValidatorSlashFraction(dist, stk, v, fraction, h)

\* The commission is paid out in whole coins, everything else goes to the
\* community pool and the records of the validator are deleted.
AfterValidatorRemoved(dist, v) ==
    LET coins == TruncateInt(dist.commission[v])
    IN  PanicIf(dist.outstanding[v] < dist.commission[v] \/ coins > dist.balance,
                [dist EXCEPT !.balance = @ - coins,
                             !.pool = @ + dist.outstanding[v] - NewDecFromInt(coins),
                             !.outstanding[v] = 0,
                             !.commission[v] = 0,
                             !.slashes[v] = <<>>,
                             !.historical[v] = <<>>,
                             !.rewards[v] = 0,
                             !.period[v] = 0])
=============================================================================
