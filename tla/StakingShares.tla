--------------------------- MODULE StakingShares ---------------------------
(***************************************************************************)
(* The exchange of tokens and shares at a validator (x/staking): s is a    *)
(* record with the Tokens and the DelegatorShares of every validator.      *)
(***************************************************************************)
EXTENDS Dec

InvalidExRate(s, v) == s.tokens[v] = 0 /\ s.shares[v] > 0

\* validator.AddTokensFromDel: the shares amt tokens buy.
IssuedShares(s, v, amt) ==
    IF s.shares[v] = 0 THEN NewDecFromInt(amt)
                       ELSE QuoInt(MulInt(s.shares[v], amt), s.tokens[v])

\* validator.RemoveDelShares: the tokens that leave with the shares.
IssuedTokens(s, v, shares) ==
    IF s.shares[v] = shares
    THEN s.tokens[v]
    ELSE TruncateInt(Quo(MulInt(shares, s.tokens[v]), s.shares[v]))
=============================================================================
