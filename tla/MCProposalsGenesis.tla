------------------------- MODULE MCProposalsGenesis -------------------------
(* ProposalsGenesis, with the parameters of MCProposals. *)
EXTENDS ProposalsGenesis, TLC

Throttler == [floor |-> 1, target |-> 1, updatePeriod |-> 2, increase |-> 1, decrease |-> 1]

\* Two quorum checks, the first as soon as the vote starts.
EagerChecks ==
    [maxDepositPeriod |-> 2, votingPeriod |-> 2, quorumTimeout |-> 0,
     maxVotingPeriodExtension |-> 2, quorumCheckCount |-> 2, minDepositRatio |-> 1,
     burnProposalDepositPrevote |-> FALSE,
     minDeposit |-> [Throttler EXCEPT !.floor = 2], minInitialDeposit |-> Throttler]

\* One check, later than a vote under the other parameters ends.
LateCheck ==
    [EagerChecks EXCEPT !.votingPeriod = 4, !.quorumTimeout = 3, !.quorumCheckCount = 1]

MCParamSets == {EagerChecks, LateCheck}
=============================================================================
