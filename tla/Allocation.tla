----------------------------- MODULE Allocation -----------------------------
(***************************************************************************)
(* How AllocateTokens of x/distribution divides the fees of a block: the   *)
(* community tax, the Nakamoto bonus every voter gets the same part of,    *)
(* and the rest in proportion to voting power.                             *)
(*                                                                         *)
(* fees is a LegacyDec amount of one denomination; votes maps the          *)
(* validators of the last commit to their power; params has the fields     *)
(* CommunityTax and Enabled (of NakamotoBonus), coefficient is the         *)
(* Nakamoto bonus coefficient.                                             *)
(***************************************************************************)
EXTENDS Dec, FiniteSets, Functions

TotalPower(votes) == SumFunctionOnSet(votes, DOMAIN votes)

\* What the validators get in all, and the part of it that is the bonus.
AfterTax(fees, params) == MulTruncate(fees, Precision - params.CommunityTax)
Bonus(fees, params, coefficient) ==
    IF params.Enabled THEN MulTruncate(AfterTax(fees, params), coefficient) ELSE 0

BonusPerValidator(fees, votes, params, coefficient) ==
    QuoTruncate(Bonus(fees, params, coefficient), NewDecFromInt(Cardinality(DOMAIN votes)))

\* PowerFraction truncates; a total power of zero never gets here.
Proportional(fees, votes, v, params, coefficient) ==
    MulTruncate(AfterTax(fees, params) - Bonus(fees, params, coefficient),
                QuoTruncate(NewDecFromInt(votes[v]), NewDecFromInt(TotalPower(votes))))

Reward(fees, votes, v, params, coefficient) ==
    Proportional(fees, votes, v, params, coefficient)
        + BonusPerValidator(fees, votes, params, coefficient)

Rewards(fees, votes, params, coefficient) ==
    [v \in DOMAIN votes |-> Reward(fees, votes, v, params, coefficient)]

\* What is left for the community pool; Sub panics when this is negative.
Remaining(fees, votes, params, coefficient) ==
    fees - SumFunctionOnSet(Rewards(fees, votes, params, coefficient), DOMAIN votes)
=============================================================================
