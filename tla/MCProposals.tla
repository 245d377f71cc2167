---------------------------- MODULE MCProposals ----------------------------
(* Proposals on two accounts, with small durations and thresholds. *)
EXTENDS Proposals, TLC

Symmetry == Permutations(Accounts)

\* Deposits of 2 and more start the vote; the thresholds rise by a half and
\* fall by a half.
Throttler(floor) ==
    [floor |-> floor, target |-> 1, updatePeriod |-> 2, increase |-> 1, decrease |-> 1]

Params ==
    [maxDepositPeriod |-> 2, votingPeriod |-> 2, quorumTimeout |-> 1,
     maxVotingPeriodExtension |-> 1, quorumCheckCount |-> 1, minDepositRatio |-> 1,
     burnProposalDepositPrevote |-> FALSE,
     minDeposit |-> Throttler(2), minInitialDeposit |-> Throttler(1)]

\* Checks switched off, other periods, higher floors, deposits burned.
OtherParams ==
    [Params EXCEPT !.votingPeriod = 3, !.maxVotingPeriodExtension = 3, !.quorumCheckCount = 0,
                   !.burnProposalDepositPrevote = TRUE, !.minDeposit.floor = 3,
                   !.minInitialDeposit.floor = 2]

\* Two quorum checks, the first as soon as the vote starts.
EagerChecks ==
    [Params EXCEPT !.quorumTimeout = 0, !.quorumCheckCount = 2, !.maxVotingPeriodExtension = 2]

EagerOrOther == {EagerChecks, OtherParams}
OnlyParams == {Params}
=============================================================================
