--------------------------- MODULE ProposalKeeper ---------------------------
(***************************************************************************)
(* The part of the x/gov keeper that keeps proposals, their deposits and   *)
(* votes, the three time-keyed queues the EndBlocker walks and the two     *)
(* dynamic deposit thresholds.  As in GovernorKeeper, every function of    *)
(* the keeper is an operator from a state of the stores to a state of the  *)
(* stores, because handlers call several of them in a row.                 *)
(*                                                                         *)
(* gov, the stores:                                                        *)
(*   params          Params                                                *)
(*   nextId          ProposalID, the sequence                              *)
(*   proposals[id]   Proposals, status "none" when there is no record      *)
(*   undecodable     proposals whose record no longer decodes, because a   *)
(*                   message type in it lost its registration              *)
(*   votingPeriod    VotingPeriodProposals                                 *)
(*   inactive, active  InactiveProposalsQueue, ActiveProposalsQueue: pairs *)
(*                   <<time, id>>                                          *)
(*   quorumChecks    QuorumCheckQueue: key (time, id) and entry            *)
(*   deposits[id][a], votes[id]   Deposits, Votes                          *)
(*   lastMinDeposit, lastMinInitialDeposit   [value, time]                 *)
(*   error           the EndBlocker returned an error: the chain halts     *)
(* and of x/bank:                                                          *)
(*   balances[a], escrow, burned   accounts, the gov module account, coins *)
(*                   destroyed                                             *)
(*                                                                         *)
(* Coins are amounts of one denomination.                                  *)
(***************************************************************************)
EXTENDS Dec, FiniteSetsExt, Functions

CONSTANTS Accounts,     \* proposers and depositors
          Voters,
          ProposalIds   \* 1 .. the number of proposals explored

ASSUME FiniteAssumption ==
    /\ IsFiniteSet(Accounts)
    /\ IsFiniteSet(ProposalIds) /\ ProposalIds \subseteq Nat

Nil == -1               \* a nil *time.Time
Open == {"deposit", "voting"}
Closed == {"passed", "rejected", "failed"}

NoProposal ==
    [status |-> "none", total |-> 0, depositEnd |-> Nil,
     votingStart |-> Nil, votingEnd |-> Nil, extended |-> 0]

Err(gov) == [gov EXCEPT !.error = TRUE]
DepositsOn(gov, id) == SumFunction(gov.deposits[id])
TotalDeposits(gov) == SumFunction([id \in ProposalIds |-> DepositsOn(gov, id)])
----------------------------------------------------------------------------
(* Proposal records. *)

SetProposal(gov, id, p) ==
    [gov EXCEPT !.proposals[id] = p,
                !.votingPeriod = IF p.status = "voting" THEN @ \cup {id} ELSE @ \ {id}]

\* The first QuorumCheckQueue entry of the proposal, as the walk finds it.
FirstEntry(gov, id) ==
    {e \in gov.quorumChecks : e.id = id
        /\ \A f \in gov.quorumChecks : f.id = id => e.time <= f.time}

DeleteProposal(gov, id) ==
    LET p == gov.proposals[id]
        g == [gov EXCEPT !.proposals[id] = NoProposal,
                         !.inactive = @ \ {<<p.depositEnd, id>>}]
    IN  IF p.status = "none" \/ id \in gov.undecodable THEN Err(gov)
        ELSE IF p.votingEnd = Nil THEN g
        ELSE [g EXCEPT !.active = @ \ {<<p.votingEnd, id>>},
                       !.votingPeriod = @ \ {id},
                       !.quorumChecks = @ \ FirstEntry(gov, id)]
----------------------------------------------------------------------------
(* The dynamic deposit thresholds.  A throttler is [floor, target,         *)
(* updatePeriod, increase, decrease]; increase and decrease are Decs.      *)

GetNewMinDeposit(floor, last, percChange) ==
    Max({floor, TruncateInt(MulInt(percChange, last))})

\* ApproxRoot of the (negative) distance to the target, for a
\* DecreaseSensitivityTargetDistance of 1.
ApproxRoot(distance) == NewDecFromInt(distance)

\* The body UpdateMinDeposit and UpdateMinInitialDeposit share: n proposals
\* are queued, and the threshold goes up when one was just added, down when
\* time has passed.
Throttled(throttler, last, n, now, checkElapsedTime) ==
    LET updated(alpha) ==
          [value |-> GetNewMinDeposit(throttler.floor, last.value, NewDecFromInt(1) + alpha),
           time  |-> now]
        elapsed == now - last.time >= throttler.updatePeriod
    IN  CASE n >= throttler.target /\ ~checkElapsedTime -> updated(throttler.increase)
          [] n < throttler.target /\ checkElapsedTime /\ elapsed ->
                 updated(Mul(throttler.decrease, ApproxRoot(n - throttler.target)))
          [] OTHER -> last

UpdateMinDeposit(gov, now, checkElapsedTime) ==
    [gov EXCEPT !.lastMinDeposit =
        Throttled(gov.params.minDeposit, @, Cardinality(gov.active), now, checkElapsedTime)]

UpdateMinInitialDeposit(gov, now, checkElapsedTime) ==
    [gov EXCEPT !.lastMinInitialDeposit =
        Throttled(gov.params.minInitialDeposit, @, Cardinality(gov.inactive), now, checkElapsedTime)]

\* The last value under a new floor; its time moves only when it changes.
Refloored(floor, last, now) ==
    LET value == GetNewMinDeposit(floor, last.value, NewDecFromInt(1))
    IN  IF value = last.value THEN last ELSE [value |-> value, time |-> now]

\* Mutant: the thresholds are left as they were under the old floors.
UpdateParamsOnly(gov, now, params) == [gov EXCEPT !.params = params]

UpdateParams(gov, now, params) ==
    [gov EXCEPT !.params = params,
                !.lastMinDeposit = Refloored(params.minDeposit.floor, @, now),
                !.lastMinInitialDeposit = Refloored(params.minInitialDeposit.floor, @, now)]
----------------------------------------------------------------------------
(* The voting period. *)

\* Mutant: the proposal stays in the inactive queue.
ActivateVotingPeriodQueued(gov, now, id) ==
    LET p == [gov.proposals[id] EXCEPT !.status = "voting", !.votingStart = now,
                                       !.votingEnd = now + gov.params.votingPeriod]
    IN  [SetProposal(gov, id, p) EXCEPT !.active = @ \cup {<<p.votingEnd, id>>}]

ActivateVotingPeriod(gov, now, id) ==
    LET p == [gov.proposals[id] EXCEPT !.status = "voting", !.votingStart = now,
                                       !.votingEnd = now + gov.params.votingPeriod]
        queued == [SetProposal(gov, id, p) EXCEPT
                      !.inactive = @ \ {<<p.depositEnd, id>>},
                      !.active = @ \cup {<<p.votingEnd, id>>}]
        timeout == now + gov.params.quorumTimeout
        entry == [time |-> timeout, id |-> id, timeout |-> timeout,
                  count |-> gov.params.quorumCheckCount, done |-> 0]
    IN  [UpdateMinDeposit(queued, now, FALSE) EXCEPT
            !.quorumChecks = IF gov.params.quorumCheckCount > 0 THEN @ \cup {entry} ELSE @]

\* When to look for the quorum again: one interval on, or as many as it
\* takes to be in the future, but never after the vote ends.
NextQuorumCheckTime(e, votingEnd, now) ==
    LET t == Max({1, (votingEnd - e.timeout) \div e.count})
        next == e.time + t
        future == IF next > now THEN next ELSE next + t * ((now - next) \div t + 1)
    IN  Min({future, votingEnd})
----------------------------------------------------------------------------
(* Deposits and votes. *)

\* What AddDeposit requires of the proposal, the amount and the depositor.
Depositable(gov, id, a, amount, skipMinDepositRatioCheck) ==
    LET p == gov.proposals[id]
        min == gov.lastMinDeposit.value
        enough == p.status = "deposit" /\ p.total >= min
    IN  /\ p.status \in Open
        /\ id \notin gov.undecodable
        /\ \/ skipMinDepositRatioCheck \/ enough
           \/ amount >= TruncateInt(MulInt(gov.params.minDepositRatio, min))
        /\ amount <= gov.balances[a]

\* Mutant: only the first deposit of an account is recorded.
AddDepositFirstOnly(gov, now, id, a, amount) ==
    [gov EXCEPT !.balances[a] = @ - amount, !.escrow = @ + amount,
                !.proposals[id].total = @ + amount,
                !.deposits[id][a] = IF @ = 0 THEN amount ELSE @]

AddDeposit(gov, now, id, a, amount) ==
    LET p == [gov.proposals[id] EXCEPT !.total = @ + amount]
        paid == [SetProposal(gov, id, p) EXCEPT !.balances[a] = @ - amount, !.escrow = @ + amount]
        activated == IF p.status = "deposit" /\ p.total >= gov.lastMinDeposit.value
                     THEN ActivateVotingPeriod(paid, now, id) ELSE paid
    IN  [activated EXCEPT !.deposits[id][a] = @ + amount]

DeleteAndBurnDeposits(gov, id) ==
    IF DepositsOn(gov, id) > gov.escrow THEN Err(gov)
    ELSE [gov EXCEPT !.deposits[id] = [a \in Accounts |-> 0],
                     !.escrow = @ - DepositsOn(gov, id),
                     !.burned = @ + DepositsOn(gov, id)]

RefundAndDeleteDeposits(gov, id) ==
    IF DepositsOn(gov, id) > gov.escrow THEN Err(gov)
    ELSE [gov EXCEPT !.deposits[id] = [a \in Accounts |-> 0],
                     !.escrow = @ - DepositsOn(gov, id),
                     !.balances = [a \in Accounts |-> @[a] + gov.deposits[id][a]]]

AddVote(gov, id, voter) == [gov EXCEPT !.votes[id] = @ \cup {voter}]

\* Submission takes the next id and queues the proposal for its deposits.
SubmitProposal(gov, now) ==
    LET id == gov.nextId
        p == [NoProposal EXCEPT !.status = "deposit",
                                !.depositEnd = now + gov.params.maxDepositPeriod]
    IN  UpdateMinInitialDeposit(
            [SetProposal(gov, id, p) EXCEPT !.nextId = @ + 1,
                                            !.inactive = @ \cup {<<p.depositEnd, id>>}],
            now, FALSE)
=============================================================================
