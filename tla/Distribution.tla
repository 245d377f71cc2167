---------------------------- MODULE Distribution ----------------------------
(***************************************************************************)
(* Rewards under the messages of x/distribution and the stake movements of *)
(* x/staking that call its hooks.  A block first allocates the fees of the *)
(* one before, then slashes (x/slashing and x/evidence), then executes     *)
(* messages, and changes the status of validators at its end; one message  *)
(* or one step of Begin/EndBlock is one action.                            *)
(*                                                                         *)
(* Of x/staking there are the stores the hooks read, as in Governors.  A   *)
(* redelegation is an unbonding and a delegation in one message: for the   *)
(* rewards the same as the two one after the other.                        *)
(***************************************************************************)
EXTENDS DistributionKeeper

CONSTANTS Fees,         \* fees one block may have collected
          Powers,       \* voting powers
          Params,       \* CommunityTax and Enabled
          Coefficients, \* values of the Nakamoto bonus coefficient
          Amounts,      \* tokens of one message
          Burns,        \* tokens burned by one slash
          Gifts,        \* coins given to a pool or spent from it by one message
          MaxTokens,    \* bound: tokens of one validator
          MaxBalance,   \* bound: coins of the module account after a gift
          MaxPeriod,    \* bound: periods of one validator
          MaxHeight     \* bound: block height

ASSUME DistributionAssumption ==
    /\ Fees \subseteq Nat /\ Powers \subseteq Nat \ {0}
    /\ Params.CommunityTax \in 0 .. Precision /\ Params.Enabled \in BOOLEAN
    /\ Coefficients \subseteq 0 .. Precision
    /\ Amounts \subseteq Nat \ {0} /\ Burns \subseteq Nat \ {0} /\ Gifts \subseteq Nat \ {0}
    /\ MaxTokens \in Nat /\ MaxBalance \in Nat /\ MaxPeriod \in Nat /\ MaxHeight \in Nat

VARIABLES dist,     \* the stores of the distribution keeper
          stk,      \* the stores of the staking keeper the hooks read
          height,
          phase     \* of the block: "begin" (slashes), "txs", "end"
vars == <<dist, stk, height, phase>>

Init ==
    /\ dist = [outstanding |-> [v \in Validators |-> 0],
               commission  |-> [v \in Validators |-> 0],
               rewards     |-> [v \in Validators |-> 0],
               period      |-> [v \in Validators |-> 0],
               historical  |-> [v \in Validators |-> <<>>],
               starting    |-> [d \in Delegators |-> [v \in Validators |-> NotStarted]],
               slashes     |-> [v \in Validators |-> <<>>],
               pool        |-> 0,
               balance     |-> 0,
               panicked    |-> FALSE]
    /\ stk = [status |-> [v \in Validators |-> "none"],
              tokens |-> [v \in Validators |-> 0],
              shares |-> [v \in Validators |-> 0],
              del    |-> [d \in Delegators |-> [v \in Validators |-> 0]]]
    /\ height = 1
    /\ phase = "txs"

\* The bound on periods, for an action that ends one.
PeriodLeft(v) == dist.period[v] < MaxPeriod

-----------------------------------------------------------------------------
(* x/staking *)

\* keeper.Delegate on the stores k and s.
DelegateShares(k, s, d, v, amt) ==
    LET before == IF s.del[d][v] > 0
                  THEN BeforeDelegationSharesModified(k, s, d, v, height)
                  ELSE BeforeDelegationCreated(k, s, v)
        issued == IssuedShares(s, v, amt)
        moved == [s EXCEPT !.tokens[v] = @ + amt,
                           !.shares[v] = @ + issued,
                           !.del[d][v] = @ + issued]
    IN  /\ dist' = AfterDelegationModified(before, moved, d, v, height)
        /\ stk' = moved

CreateValidator(d, v, amt) ==
    /\ phase = "txs"
    /\ stk.status[v] = "none"
    /\ DelegateShares(AfterValidatorCreated(dist, v),
                      [stk EXCEPT !.status[v] = "unbonded"], d, v, amt)
    /\ UNCHANGED <<height, phase>>

Delegate(d, v, amt) ==
    /\ phase = "txs"
    /\ stk.status[v] # "none" /\ ~InvalidExRate(stk, v)
    /\ PeriodLeft(v) /\ stk.tokens[v] + amt <= MaxTokens
    /\ DelegateShares(dist, stk, d, v, amt)
    /\ UNCHANGED <<height, phase>>

\* keeper.Unbond: the hook that starts the delegation anew runs before the
\* validator loses the tokens and the shares.
UnbondShares(d, v, shares) ==
    LET before == BeforeDelegationSharesModified(dist, stk, d, v, height)
        reduced == [stk EXCEPT !.del[d][v] = @ - shares]
        hooked == IF reduced.del[d][v] = 0 THEN before
                  ELSE AfterDelegationModified(before, reduced, d, v, height)
        left == [reduced EXCEPT !.tokens[v] = @ - IssuedTokens(stk, v, shares),
                                !.shares[v] = @ - shares]
        removed == left.shares[v] = 0 /\ left.status[v] = "unbonded"
    IN  /\ dist' = IF removed THEN AfterValidatorRemoved(hooked, v) ELSE hooked
        /\ stk' = IF removed THEN [left EXCEPT !.status[v] = "none"] ELSE left

\* Undelegate; ValidateUnbondAmount turns amt into shares.
Undelegate(d, v, amt) ==
    LET shares == QuoInt(MulInt(stk.shares[v], amt), stk.tokens[v])
    IN  /\ phase = "txs"
        /\ stk.tokens[v] > 0 /\ stk.del[d][v] > 0
        /\ shares <= stk.del[d][v]
        /\ PeriodLeft(v)
        /\ UnbondShares(d, v, shares)
        /\ UNCHANGED <<height, phase>>

\* SlashRedelegation unbonds shares that a slashed validator lost to v; it
\* fails when that removes v, so the block would.
SlashRedelegation(d, v, shares) ==
    /\ phase = "begin"
    /\ stk.status[v] # "none" /\ PeriodLeft(v)
    /\ shares \in 1 .. stk.del[d][v]
    /\ ~(stk.status[v] = "unbonded" /\ shares = stk.shares[v])
    /\ UnbondShares(d, v, shares)
    /\ UNCHANGED <<height, phase>>

\* Slash burns tokens of a validator, after it reported the fraction.
Slash(v, burn) ==
    LET fraction == Min({QuoRoundUp(NewDecFromInt(burn), NewDecFromInt(stk.tokens[v])),
                         Precision})
    IN  /\ phase = "begin"
        /\ stk.status[v] \in {"bonded", "unbonding"}
        /\ burn <= stk.tokens[v] /\ PeriodLeft(v)
        /\ dist' = BeforeValidatorSlashed(dist, stk, v, fraction, height)
        /\ stk' = [stk EXCEPT !.tokens[v] = @ - burn]
        /\ UNCHANGED <<height, phase>>

\* The changes of status at the end of a block; a validator that finishes
\* unbonding without delegations is removed.
BondValidator(v) ==
    /\ phase = "end"
    /\ stk.status[v] \in {"unbonded", "unbonding"} /\ stk.tokens[v] > 0
    /\ stk' = [stk EXCEPT !.status[v] = "bonded"]
    /\ UNCHANGED <<dist, height, phase>>

BeginUnbondingValidator(v) ==
    /\ phase = "end"
    /\ stk.status[v] = "bonded"
    /\ stk' = [stk EXCEPT !.status[v] = "unbonding"]
    /\ UNCHANGED <<dist, height, phase>>

CompleteUnbondingValidator(v) ==
    /\ phase = "end"
    /\ stk.status[v] = "unbonding"
    /\ IF stk.shares[v] = 0
       THEN /\ stk' = [stk EXCEPT !.status[v] = "none"]
            /\ dist' = AfterValidatorRemoved(dist, v)
       ELSE /\ stk' = [stk EXCEPT !.status[v] = "unbonded"]
            /\ UNCHANGED dist
    /\ UNCHANGED <<height, phase>>

-----------------------------------------------------------------------------
(* x/distribution *)

\* BeginBlocker of the next block; the voters of the last commit are
\* validators that were bonded when it was made.
BeginBlock(fees, votes, coefficient) ==
    /\ phase = "end" /\ height < MaxHeight
    /\ DOMAIN votes \subseteq {v \in Validators : stk.status[v] \in {"bonded", "unbonding"}}
    /\ dist' = AllocateTokens(dist, fees, votes, Params, coefficient)
    /\ height' = height + 1
    /\ phase' = "begin"
    /\ UNCHANGED stk

DeliverTxs == phase = "begin" /\ phase' = "txs" /\ UNCHANGED <<dist, stk, height>>
EndBlock == phase = "txs" /\ phase' = "end" /\ UNCHANGED <<dist, stk, height>>

WithdrawDelegatorReward(d, v) ==
    /\ phase = "txs"
    /\ stk.del[d][v] > 0 /\ PeriodLeft(v)
    /\ dist' = initializeDelegation(withdrawDelegationRewards(dist, stk, d, v, height),
                                    stk, d, v, height)
    /\ UNCHANGED <<stk, height, phase>>

\* The whole coins are paid, the fraction stays to be withdrawn later.
WithdrawValidatorCommission(v) ==
    LET coins == TruncateInt(dist.commission[v])
    IN  /\ phase = "txs"
        /\ dist.commission[v] > 0
        /\ dist' = PanicIf(\/ dist.outstanding[v] < NewDecFromInt(coins)
                           \/ dist.balance < coins,
                           [dist EXCEPT !.commission[v] = @ - NewDecFromInt(coins),
                                        !.outstanding[v] = @ - NewDecFromInt(coins),
                                        !.balance = @ - coins])
        /\ UNCHANGED <<stk, height, phase>>

\* Rewards from an account instead of from fees.
DepositValidatorRewardsPool(v, amt) ==
    /\ phase = "txs"
    /\ stk.status[v] # "none"
    /\ dist.balance + amt <= MaxBalance
    /\ dist' = AllocateTokensToValidator([dist EXCEPT !.balance = @ + amt], v,
                                         NewDecFromInt(amt))
    /\ UNCHANGED <<stk, height, phase>>

FundCommunityPool(amt) ==
    /\ phase = "txs"
    /\ dist.balance + amt <= MaxBalance
    /\ dist' = [dist EXCEPT !.balance = @ + amt, !.pool = @ + NewDecFromInt(amt)]
    /\ UNCHANGED <<stk, height, phase>>

CommunityPoolSpend(amt) ==
    /\ phase = "txs"
    /\ NewDecFromInt(amt) <= dist.pool
    /\ dist' = PanicIf(dist.balance < amt,
                       [dist EXCEPT !.balance = @ - amt, !.pool = @ - NewDecFromInt(amt)])
    /\ UNCHANGED <<stk, height, phase>>

-----------------------------------------------------------------------------
Votes == UNION {[V -> Powers] : V \in SUBSET Validators}

StakingMsg ==
    \E d \in Delegators, v \in Validators, amt \in Amounts :
        \/ CreateValidator(d, v, amt)
        \/ Delegate(d, v, amt)
        \/ Undelegate(d, v, amt)

StakingBlock ==
    \E v \in Validators :
        \/ BondValidator(v)
        \/ BeginUnbondingValidator(v)
        \/ CompleteUnbondingValidator(v)
        \/ \E burn \in Burns : Slash(v, burn)
        \/ \E d \in Delegators, amt \in Amounts :
              SlashRedelegation(d, v, NewDecFromInt(amt))

DistributionMsg ==
    \/ \E d \in Delegators, v \in Validators : WithdrawDelegatorReward(d, v)
    \/ \E v \in Validators : WithdrawValidatorCommission(v)
    \/ \E v \in Validators, amt \in Gifts : DepositValidatorRewardsPool(v, amt)
    \/ \E amt \in Gifts : FundCommunityPool(amt)
    \/ \E amt \in Gifts : CommunityPoolSpend(amt)

Next ==
    \/ \E fees \in Fees, votes \in Votes, c \in Coefficients : BeginBlock(fees, votes, c)
    \/ DeliverTxs
    \/ EndBlock
    \/ StakingMsg
    \/ StakingBlock
    \/ DistributionMsg

Spec == Init /\ [][Next]_vars

-----------------------------------------------------------------------------
(* Properties *)

TypeOK ==
    /\ \A v \in Validators :
          /\ dist.outstanding[v] \in Nat /\ dist.commission[v] \in Nat
          /\ dist.rewards[v] \in Nat /\ dist.period[v] \in 0 .. MaxPeriod + 1
          /\ stk.tokens[v] \in Nat /\ stk.shares[v] \in Nat
          /\ \A d \in Delegators : stk.del[d][v] \in Nat
    /\ dist.pool \in Nat /\ dist.balance \in Nat
    /\ height \in 1 .. MaxHeight /\ phase \in {"begin", "txs", "end"}

\* None of the panics and failures that guard against inconsistent rewards is
\* reached, in whatever order stake moves, is slashed and is rewarded: a
\* reference count above 2 or below 0, rewards or pools that would become
\* negative, a recorded stake that the slashes do not bring down to the stake
\* held (up to MarginOfErr), a payment the module account cannot make.
NeverPanics == ~dist.panicked

\* Who refers to a record of v: the current period, delegations, slashes.
References(v, p) ==
    (IF p = dist.period[v] - 1 THEN 1 ELSE 0)
    + Cardinality({d \in Delegators : dist.starting[d][v].set /\ dist.starting[d][v].period = p})
    + Cardinality({i \in DOMAIN dist.slashes[v] : dist.slashes[v][i].period = p})

\* Every historical record is kept exactly as long as the current period, a
\* delegation or a slash event refers to it, and counts them: a record deleted
\* too early reads as a ratio of zero and overpays, one never deleted leaks.
\* The invariant of the code ("reference-count") compares only the totals.
ReferencesExact ==
    \A v \in Validators :
        stk.status[v] # "none" =>
            /\ \A p \in 0 .. dist.period[v] :
                  Historical(dist, v, p).refs = References(v, p)
            /\ \A p \in DOMAIN dist.historical[v] : References(v, p) > 0

\* The coins of the module account are, to the last fraction, the outstanding
\* rewards of all validators and the community pool.
ModuleAccountExact ==
    NewDecFromInt(dist.balance)
        = dist.pool + MapThenSumSet(LAMBDA v : dist.outstanding[v], Validators)

\* What d could withdraw at v in the next block, in the stores ended that
\* ending the current period leaves.
Due(ended, d, v) ==
    CalculateDelegationRewards(ended, stk, d, v, dist.period[v], height + 1).rewards

\* The outstanding rewards of a validator cover its commission and what all its
\* delegators could withdraw together ("can-withdraw"), so that no order of
\* withdrawals leaves the last one short and the clipping to the outstanding
\* rewards in withdrawDelegationRewards is never needed.
RewardsCovered ==
    \A v \in Validators :
        \A ended \in {IncrementValidatorPeriod(dist, stk, v)} :
            stk.shares[v] > 0 =>
                ended.commission[v]
                  + MapThenSumSet(LAMBDA d : Due(ended, d, v),
                                  {d \in Delegators : stk.del[d][v] > 0})
                <= ended.outstanding[v]

\* What rounding takes of the rewards of a stake when a period ends.
Slack(d, v) == TruncateInt(dist.starting[d][v].stake) + 2

\* Until the next allocation, nothing others do with their stake, and no slash,
\* changes what a delegation has earned: ending a period never adds to it and
\* takes no more than what rounding the ratio takes.
RewardsUndisturbed ==
    [][\A d \in Delegators, v \in Validators :
          /\ dist.starting[d][v].set /\ dist'.starting[d][v] = dist.starting[d][v]
          /\ height' = height /\ dist'.outstanding[v] <= dist.outstanding[v]
          => \A ended \in {IncrementValidatorPeriod(dist, stk, v)},
                ended1 \in {IncrementValidatorPeriod(dist', stk', v)} :
                \A due \in {Due(ended, d, v)} :
                    CalculateDelegationRewards(ended1, stk', d, v, dist'.period[v], height + 1).rewards
                         \in due - Slack(d, v) .. due]_vars
=============================================================================
