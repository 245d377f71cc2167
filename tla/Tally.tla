------------------------------- MODULE Tally -------------------------------
(***************************************************************************)
(* How the votes on a proposal are counted, on the stores that Governors   *)
(* keeps.  A voter's stake counts for the voter's own ballot.  What is     *)
(* left of a governor's shares, once the shares of its delegators who      *)
(* voted themselves are deducted, counts for the governor's ballot.        *)
(*                                                                         *)
(* voters are the accounts with an entry in Votes for the proposal.  The   *)
(* walks over votes, delegations and governors only add, so their order is *)
(* left out; so is the division of a voting power among the options of a   *)
(* ballot, which TallyOutcome takes up.                                    *)
(***************************************************************************)
EXTENDS Governors

BondedValidators == {v \in Validators : stk.status[v] = "bonded"}
TotalBondedTokens == SumFunctionOnSet(stk.tokens, BondedValidators)

\* shares * bonded tokens / total shares
VotingPower(v, shares) == Quo(MulInt(shares, stk.tokens[v]), stk.shares[v])

\* ValSharesDeductions: the shares at v of g's delegators who voted.
ValSharesDeductions(voters, g, v) ==
    IF gov.valShares[g][v] = 0 THEN 0
    ELSE SumFunctionOnSet([d \in Accounts |-> stk.del[d][v]],
                          {d \in voters : gov.delegation[d] = g})

\* Mutant: governors below the minimum take part.
GetVotingGovernors(voters) == {g \in voters : gov.delegation[g] = g /\ gov.status[g] # "none"}

\* The governors that voted, are active and hold the minimum.
GetCurrGovernors(voters) ==
    {g \in voters :
        /\ gov.delegation[g] = g
        /\ ValidateMinSelfDelegation(gov, g, GetGovernorBondedTokens(stk, g), minSelf)}

SharesAfterDeductions(voters, g, v) == gov.valShares[g][v] - ValSharesDeductions(voters, g, v)

GetGovernorVotingPower(voters, g) ==
    SumFunction([v \in {w \in BondedValidators : gov.valShares[g][w] > 0} |->
                    VotingPower(v, SharesAfterDeductions(voters, g, v))])

\* Mutant: stake with validators that are not bonded counts too.
VoterPowerUnbonded(d) == SumFunction([v \in DelegatedTo(stk, d) |-> VotingPower(v, stk.del[d][v])])

\* The power of d's own delegations.
VoterPower(d) ==
    SumFunction([v \in BondedValidators \cap DelegatedTo(stk, d) |-> VotingPower(v, stk.del[d][v])])

\* tallyVotes: the total voting power of the votes.
TotalVotingPower(voters) ==
    SumFunction([d \in voters |-> VoterPower(d)])
    + SumFunction([g \in GetCurrGovernors(voters) |-> GetGovernorVotingPower(voters, g)])

\* The shares at v whose power goes to the ballot of d.
SharesCountedFor(voters, d, v) ==
    stk.del[d][v] + IF d \in GetCurrGovernors(voters) THEN SharesAfterDeductions(voters, d, v) ELSE 0
----------------------------------------------------------------------------
\* Whose ballot the stake of d should count for: d's own, else that of d's
\* governor if it voted, is active and holds the minimum, else nobody's.
Speaker(voters, d) ==
    LET g == gov.delegation[d]
    IN  IF d \in voters THEN d
        ELSE IF /\ g \in voters
                /\ IsActive(gov, g)
                /\ GetGovernorBondedTokens(stk, g) >= minSelf
             THEN g ELSE None

\* At every validator, each ballot counts the shares of exactly those it speaks
\* for: a delegator's own vote takes its stake away from its governor's ballot
\* and from no other, nobody is counted twice or left out, and a governor that
\* is inactive or below the minimum speaks for itself only.  (tallyVotes)
StakeCountedOnce ==
    \A voters \in SUBSET Accounts : \A d \in voters, v \in Validators :
        SharesCountedFor(voters, d, v) =
            SumFunctionOnSet([e \in Accounts |-> stk.del[e][v]],
                             {e \in Accounts : Speaker(voters, e) = d})

\* The deductions never exceed the governor's shares, so that no governor is
\* ever counted with negative power.  (getGovernorVotingPower)
DeductionsCovered ==
    \A voters \in SUBSET Accounts : \A g \in Accounts, v \in Validators :
        ValSharesDeductions(voters, g, v) <= gov.valShares[g][v]

\* The votes never carry more power than there are bonded tokens, but for the
\* half unit by which each of the powers added may have been rounded up.  The
\* participation is this power over the bonded tokens.  (tallyVotes, Tally)
TurnoutWithinBonded ==
    \A voters \in SUBSET Accounts :
        2 * (TotalVotingPower(voters) - NewDecFromInt(TotalBondedTokens))
            <= Cardinality(Validators) * (Cardinality(voters) + Cardinality(GetCurrGovernors(voters)))
=============================================================================
