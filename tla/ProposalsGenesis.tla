-------------------------- MODULE ProposalsGenesis --------------------------
(***************************************************************************)
(* Proposals on a chain that is also exported and started again from the   *)
(* exported state.  ExportGenesis writes the parameters, the proposals,    *)
(* deposits, votes and thresholds; InitGenesis rebuilds the queues, and    *)
(* the quorum checks from the parameters and the votes alone.              *)
(***************************************************************************)
EXTENDS Proposals

CONSTANT RestartUntil   \* bound: no restart after this time

\* Mutant: a vote is queued at the time it was first to end.
InitGenesisUnextended(t, reached) ==
    LET End(id) == gov.proposals[id].votingStart + gov.params.votingPeriod
    IN  [gov EXCEPT !.active = {<<End(id), id>> : id \in Ids("voting")}]

\* Mutant: the imported checks count as the first ones.
InitGenesisFirstCheck(t, reached) ==
    LET Timeout(id) == gov.proposals[id].votingStart + gov.params.quorumTimeout
    IN  [gov EXCEPT
            !.quorumChecks = {[time |-> Timeout(id), id |-> id, timeout |-> Timeout(id),
                               count |-> gov.params.quorumCheckCount, done |-> 0] :
                                id \in {x \in Ids("voting") : gov.params.quorumCheckCount > 0}}]

\* InitGenesis at time t, when the proposals in reached have their quorum.
\* What was done of the checks is not exported: an entry whose timeout has
\* passed counts as checked once.
InitGenesis(t, reached) ==
    LET Timeout(id) == gov.proposals[id].votingStart + gov.params.quorumTimeout
        Entry(id) == [time |-> Timeout(id), id |-> id, timeout |-> Timeout(id),
                      count |-> gov.params.quorumCheckCount,
                      done |-> IF t > Timeout(id) THEN 1 ELSE 0]
        unchecked == {id \in Ids("voting") : t > Timeout(id) => id \notin reached}
    IN  IF gov.escrow < TotalDeposits(gov) THEN Err(gov)
        ELSE [gov EXCEPT
                 !.inactive = {<<gov.proposals[id].depositEnd, id>> : id \in Ids("deposit")},
                 !.active = {<<gov.proposals[id].votingEnd, id>> : id \in Ids("voting")},
                 !.votingPeriod = Ids("voting"),
                 !.quorumChecks = IF gov.params.quorumCheckCount > 0
                                  THEN {Entry(id) : id \in unchecked} ELSE {},
                 !.lastMinDeposit.time = now,
                 !.lastMinInitialDeposit.time = now]

\* The export reads every proposal, so that it fails when one does not decode.
\* The new chain starts, and makes its first block, later than the old ended.
ExportAndRestart(gap, reached) ==
    /\ phase = "commit" /\ now + gap <= RestartUntil
    /\ gov.undecodable = {}
    /\ reached \subseteq {id \in Ids("voting") : gov.votes[id] # {}}
    /\ gov' = InitGenesis(now + gap, reached)
    /\ now' = now + gap
    /\ phase' = "txs"

NextGenesis ==
    \/ Next
    \/ \E gap \in 1 .. MaxBlockGap, reached \in SUBSET ProposalIds : ExportAndRestart(gap, reached)

FairSpecGenesis == Init /\ [][NextGenesis]_vars /\ Fairness

-----------------------------------------------------------------------------
\* A restart leaves a proposal whose quorum was not reached in time its chance
\* of an extension: while the parameters ask for checks and leave the timeout
\* where it was, a check that was pending is pending again, and one that has
\* failed before is not taken for the first.
ChecksSurviveRestart ==
    [][\A gap \in 1 .. MaxBlockGap :
          ExportAndRestart(gap, {}) =>
              \A e \in gov.quorumChecks :
                  gov.params.quorumCheckCount > 0
                  /\ e.timeout = gov.proposals[e.id].votingStart + gov.params.quorumTimeout
                      => \E f \in gov'.quorumChecks : f.id = e.id /\ (e.done > 0 => f.done > 0)]_vars
=============================================================================
