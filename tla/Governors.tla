------------------------------ MODULE Governors ------------------------------
(***************************************************************************)
(* Governors under the messages of x/gov and the stake movements of        *)
(* x/staking.  A message runs atomically on the store, so one message or   *)
(* one Begin/EndBlock step is one action; the interleaving that matters is *)
(* the order of messages of different users and validators, and the order  *)
(* in which one staking operation calls the hooks and updates its stores.  *)
(*                                                                         *)
(* x/staking appears with the stores the hooks read (delegations and       *)
(* validators).  Its pools, unbonding and redelegation entries and the     *)
(* power index, which no gov hook reads, are left out: any bonded          *)
(* validator may start unbonding and any validator with tokens may be      *)
(* bonded, as jailing and the ranking by power decide, and a redelegated   *)
(* stake may lose shares by SlashRedelegation at any time.                 *)
(***************************************************************************)
EXTENDS GovernorKeeper

CONSTANTS MinSelfDelegations,   \* the values MinGovernorSelfDelegation may take
          StatusChangePeriod,   \* GovernorStatusChangePeriod
          Amounts,              \* token amounts of one staking operation
          SlashFactor,          \* the slash factor of redelegated stake, a LegacyDec
          MaxShares,            \* bound: whole shares of one validator
          MaxTime               \* bound: block time

ASSUME GovernorsAssumption ==
    /\ MinSelfDelegations \subseteq Nat /\ MinSelfDelegations # {}
    /\ StatusChangePeriod \in Nat
    /\ Amounts \subseteq Nat \ {0}
    /\ SlashFactor \in 1 .. Precision
    /\ MaxShares \in Nat
    /\ MaxTime \in Nat /\ MaxTime >= StatusChangePeriod

VARIABLES gov,      \* the stores of the gov keeper (GovernorKeeper)
          stk,      \* the stores of the staking keeper the hooks read
          minSelf,  \* params.MinGovernorSelfDelegation
          now       \* block time

vars == <<gov, stk, minSelf, now>>

Init ==
    /\ gov = [status      |-> [g \in Accounts |-> "none"],
              changeTime  |-> [g \in Accounts |-> 0],
              delegation  |-> [d \in Accounts |-> None],
              byGovernor  |-> {},
              valShares   |-> [a \in Accounts |-> [v \in Validators |-> 0]],
              activeIndex |-> {},
              panicked    |-> FALSE]
    /\ stk = [status |-> [v \in Validators |-> "none"],
              tokens |-> [v \in Validators |-> 0],
              shares |-> [v \in Validators |-> 0],
              del    |-> [a \in Accounts |-> [v \in Validators |-> 0]]]
    /\ minSelf \in MinSelfDelegations
    /\ now = StatusChangePeriod    \* time 0 is long past

-----------------------------------------------------------------------------
(* Messages of x/gov *)

CreateGovernor(a) ==
    LET created == [gov EXCEPT !.status[a] = "active", !.changeTime[a] = now]
    IN  /\ gov.status[a] = "none"
        /\ GetGovernorBondedTokens(stk, a) >= minSelf
        /\ gov' = IF gov.delegation[a] = None
                  THEN DelegateToGovernor(created, stk, a, a)
                  ELSE RedelegateToGovernor(created, stk, a, a)
        /\ UNCHANGED <<stk, minSelf, now>>

\* UpdateGovernorStatus to active.
ActivateGovernor(a) ==
    LET changed == [gov EXCEPT !.status[a] = "active", !.changeTime[a] = now]
        selfDelegated == CASE gov.delegation[a] = None ->
                                DelegateToGovernor(changed, stk, a, a)
                           [] gov.delegation[a] \notin {None, a} ->
                                RedelegateToGovernor(changed, stk, a, a)
                           [] gov.delegation[a] = a -> changed
    IN  /\ gov.status[a] = "inactive"
        /\ gov.changeTime[a] + StatusChangePeriod <= now
        /\ GetGovernorBondedTokens(stk, a) >= minSelf
        /\ gov' = SetActiveGovernorIndexEntries(selfDelegated, stk, a)
        /\ UNCHANGED <<stk, minSelf, now>>

\* UpdateGovernorStatus to inactive.
DeactivateGovernor(a) ==
    /\ gov.status[a] = "active"
    /\ gov.changeTime[a] + StatusChangePeriod <= now
    /\ gov' = RemoveActiveGovernorIndexEntries(
                [gov EXCEPT !.status[a] = "inactive", !.changeTime[a] = now], stk, a)
    /\ UNCHANGED <<stk, minSelf, now>>

DelegateGovernor(d, g) ==
    /\ ~IsActive(gov, d)
    /\ IsActive(gov, g)
    /\ gov.delegation[d] # g
    /\ gov' = IF gov.delegation[d] = None
              THEN DelegateToGovernor(gov, stk, d, g)
              ELSE RedelegateToGovernor(gov, stk, d, g)
    /\ UNCHANGED <<stk, minSelf, now>>

\* The last delegation of an inactive governor takes the governor with it.
UndelegateGovernor(d) ==
    LET g == gov.delegation[d]
        undelegated == UndelegateFromGovernor(gov, stk, d)
        abandoned == /\ gov.status[g] = "inactive"
                     /\ \A x \in Accounts : <<g, x>> \notin undelegated.byGovernor
    IN  /\ g # None
        /\ ~(IsActive(gov, d) /\ g = d)
        /\ gov' = CASE IsActive(gov, d) /\ g # d -> Panic(gov)
                    [] ~IsActive(gov, d) /\ gov.status[g] = "none" -> Panic(undelegated)
                    [] ~IsActive(gov, d) /\ gov.status[g] # "none" ->
                         IF abandoned THEN [undelegated EXCEPT !.status[g] = "none"]
                                      ELSE undelegated
        /\ UNCHANGED <<stk, minSelf, now>>

\* UpdateParams: the governors already active are not looked at.
UpdateParams(m) ==
    /\ minSelf' = m
    /\ UNCHANGED <<gov, stk, now>>

-----------------------------------------------------------------------------
(* x/staking: the operations that call the hooks *)

\* Mutant: the hook for an existing delegation is called for a new one too.
DelegateSharesAlwaysModified(g, s, d, v, amt) ==
    LET issued == IssuedShares(s, v, amt)
        moved == [s EXCEPT !.tokens[v] = @ + amt,
                           !.shares[v] = @ + issued,
                           !.del[d][v] = @ + issued]
    IN  [gov |-> AfterDelegationModified(BeforeDelegationSharesModified(g, s, d, v),
                                         moved, d, v, minSelf, now),
         stk |-> moved]

\* keeper.Delegate on the stores g and s; the validator v exists.
DelegateShares(g, s, d, v, amt) ==
    LET before == IF s.del[d][v] > 0 THEN BeforeDelegationSharesModified(g, s, d, v) ELSE g
        issued == IssuedShares(s, v, amt)
        moved == [s EXCEPT !.tokens[v] = @ + amt,
                           !.shares[v] = @ + issued,
                           !.del[d][v] = @ + issued]
    IN  [gov |-> AfterDelegationModified(before, moved, d, v, minSelf, now), stk |-> moved]

\* keeper.Unbond: the hooks run between the update of the delegation and the
\* update of the validator; BeforeDelegationRemoved even before the first.
UnbondShares(g, s, d, v, shares) ==
    LET before == BeforeDelegationSharesModified(g, s, d, v)
        reduced == [s EXCEPT !.del[d][v] = @ - shares]
        hooked == IF reduced.del[d][v] = 0
                  THEN BeforeDelegationRemoved(before, s, d, v, minSelf, now)
                  ELSE AfterDelegationModified(before, reduced, d, v, minSelf, now)
        amount == IssuedTokens(s, v, shares)
        left == [reduced EXCEPT !.tokens[v] = @ - amount, !.shares[v] = @ - shares]
    IN  [gov |-> hooked,
         stk |-> IF left.shares[v] = 0 /\ left.status[v] = "unbonded"
                 THEN [left EXCEPT !.status[v] = "none"]
                 ELSE left,
         amount |-> amount]

\* ValidateUnbondAmount: the shares of d at v worth amt tokens.
UnbondableShares(d, v, amt) ==
    LET shares == QuoInt(MulInt(stk.shares[v], amt), stk.tokens[v])
    IN  IF stk.tokens[v] > 0 /\ stk.del[d][v] > 0
        THEN {shares} \cap (0 .. stk.del[d][v])
        ELSE {}

CreateValidator(d, v, amt) ==
    LET created == [stk EXCEPT !.status[v] = "unbonded"]
        result == DelegateShares(gov, created, d, v, amt)
    IN  /\ stk.status[v] = "none"
        /\ gov' = result.gov
        /\ stk' = result.stk
        /\ UNCHANGED <<minSelf, now>>

Delegate(d, v, amt) ==
    LET result == DelegateShares(gov, stk, d, v, amt)
    IN  /\ stk.status[v] # "none"
        /\ ~InvalidExRate(stk, v)
        /\ result.stk.shares[v] <= NewDecFromInt(MaxShares)
        /\ gov' = result.gov
        /\ stk' = result.stk
        /\ UNCHANGED <<minSelf, now>>

Undelegate(d, v, amt) ==
    \E shares \in UnbondableShares(d, v, amt) :
        LET result == UnbondShares(gov, stk, d, v, shares)
        IN  /\ gov' = result.gov
            /\ stk' = result.stk
            /\ UNCHANGED <<minSelf, now>>

BeginRedelegate(d, src, dst, amt) ==
    \E shares \in UnbondableShares(d, src, amt) :
        LET unbonded == UnbondShares(gov, stk, d, src, shares)
            result == DelegateShares(unbonded.gov, unbonded.stk, d, dst, unbonded.amount)
        IN  /\ src # dst
            /\ stk.status[dst] # "none"
            /\ unbonded.amount > 0
            /\ ~InvalidExRate(stk, dst)
            /\ result.stk.shares[dst] <= NewDecFromInt(MaxShares)
            /\ gov' = result.gov
            /\ stk' = result.stk
            /\ UNCHANGED <<minSelf, now>>

\* SlashRedelegation: of the stake d moved to v, sharesDst, unbond the slashed
\* part (or all that is left of it) and burn its tokens.
SlashRedelegation(d, v, sharesDst) ==
    LET sharesToUnbond == Min({Mul(SlashFactor, sharesDst), stk.del[d][v]})
        result == UnbondShares(gov, stk, d, v, sharesToUnbond)
    IN  /\ sharesToUnbond > 0
        /\ result.stk.status[v] # "none"
        /\ gov' = result.gov
        /\ stk' = result.stk
        /\ UNCHANGED <<minSelf, now>>

\* Slash at the current height burns tokensToBurn of the validator's tokens.
Slash(v, tokensToBurn) ==
    LET fraction == QuoRoundUp(NewDecFromInt(tokensToBurn), NewDecFromInt(stk.tokens[v]))
    IN  /\ stk.status[v] \in {"bonded", "unbonding"}
        /\ tokensToBurn <= stk.tokens[v]
        /\ gov' = BeforeValidatorSlashed(gov, stk, v, fraction, minSelf, now)
        /\ stk' = [stk EXCEPT !.tokens[v] = @ - tokensToBurn]
        /\ UNCHANGED <<minSelf, now>>

BondValidator(v) ==
    /\ stk.status[v] \in {"unbonded", "unbonding"}
    /\ stk.tokens[v] > 0
    /\ stk' = [stk EXCEPT !.status[v] = "bonded"]
    /\ UNCHANGED <<gov, minSelf, now>>

BeginUnbondingValidator(v) ==
    LET begun == [stk EXCEPT !.status[v] = "unbonding"]
    IN  /\ stk.status[v] = "bonded"
        /\ stk' = begun
        /\ gov' = AfterValidatorBeginUnbonding(gov, begun, v, minSelf, now)
        /\ UNCHANGED <<minSelf, now>>

\* UnbondAllMatureValidators: a validator nobody delegates to is removed.
CompleteUnbondingValidator(v) ==
    /\ stk.status[v] = "unbonding"
    /\ stk' = [stk EXCEPT !.status[v] = IF stk.shares[v] = 0 THEN "none" ELSE "unbonded"]
    /\ UNCHANGED <<gov, minSelf, now>>

AdvanceTime ==
    /\ now < MaxTime
    /\ now' = now + 1
    /\ UNCHANGED <<gov, stk, minSelf>>

-----------------------------------------------------------------------------
GovMsg ==
    \E a \in Accounts :
        \/ CreateGovernor(a)
        \/ ActivateGovernor(a)
        \/ DeactivateGovernor(a)
        \/ UndelegateGovernor(a)
        \/ \E g \in Accounts : DelegateGovernor(a, g)

StakingMsg ==
    \E d \in Accounts, v \in Validators, amt \in Amounts :
        \/ CreateValidator(d, v, amt)
        \/ Delegate(d, v, amt)
        \/ Undelegate(d, v, amt)
        \/ \E dst \in Validators : BeginRedelegate(d, v, dst, amt)

StakingBlock ==
    \E v \in Validators :
        \/ BondValidator(v)
        \/ BeginUnbondingValidator(v)
        \/ CompleteUnbondingValidator(v)
        \/ \E tokens \in Amounts : Slash(v, tokens)
        \/ \E d \in Accounts, amt \in Amounts : SlashRedelegation(d, v, NewDecFromInt(amt))

Next ==
    \/ GovMsg
    \/ StakingMsg
    \/ StakingBlock
    \/ \E m \in MinSelfDelegations : UpdateParams(m)
    \/ AdvanceTime

Spec == Init /\ [][Next]_vars

-----------------------------------------------------------------------------
TypeOK ==
    /\ gov \in GovStores
    /\ stk \in StakingStores
    /\ minSelf \in MinSelfDelegations
    /\ now \in 0 .. MaxTime

\* No hook and no message reaches one of the panics that guard against
\* inconsistent stores: a decrease of shares that were never added, an active
\* governor without its self-delegation, an index entry without governor or
\* without staking delegation, a delegation to a governor that is gone.
NeverPanics == ~gov.panicked

\* GovernanceDelegations and its reverse mapping name the same delegations,
\* and every delegation names a governor that has a record.
DelegationsConsistent ==
    /\ gov.byGovernor = {p \in Accounts \X Accounts : gov.delegation[p[2]] = p[1]}
    /\ \A d \in Accounts : gov.delegation[d] # None => gov.status[gov.delegation[d]] # "none"

\* The index holds exactly the pairs of a validator and an active governor
\* whose own account delegates to it (the "active-only invariant" of
\* removeActiveGovernorIndexEntries), and every active governor delegates its
\* governance power to itself.
ActiveIndexExact ==
    /\ gov.activeIndex = {e \in Validators \X Accounts :
                            IsActive(gov, e[2]) /\ e[1] \in DelegatedTo(stk, e[2])}
    /\ \A g \in Accounts : IsActive(gov, g) => gov.delegation[g] = g

\* The shares kept for a governor and a validator are the shares of its
\* delegators at that validator, whatever order of hooks brought them there.
GovernorSharesMatchStake ==
    \A g \in Accounts, v \in Validators :
        gov.valShares[g][v] =
            SumFunctionOnSet([d \in Accounts |-> stk.del[d][v]],
                             {d \in Accounts : gov.delegation[d] = g})

\* A validator's DelegatorShares are the shares of its delegations (the
\* DelegatorSharesInvariant of x/staking), a validator without record has none,
\* and however unbonding rounds and slashes fall, a token never buys less than
\* one unit of shares: no delegation is ever recorded with zero shares.
DelegatorSharesMatch ==
    \A v \in Validators :
        /\ stk.shares[v] = SumFunctionOnSet([d \in Accounts |-> stk.del[d][v]], Accounts)
        /\ stk.status[v] = "none" => stk.shares[v] = 0
        /\ stk.tokens[v] <= stk.shares[v]

\* g's own stake moved, or a validator it delegates to was slashed or left the
\* bonded set: the steps after which the hooks judge g anew.
Revalidated(g) ==
    \/ \E v \in Validators : stk'.del[g][v] # stk.del[g][v]
    \/ \E v \in DelegatedTo(stk, g) :
          \/ stk'.shares[v] = stk.shares[v] /\ stk'.tokens[v] < stk.tokens[v]
          \/ stk.status[v] = "bonded" /\ stk'.status[v] = "unbonding"

\* A governor that is still active after such a step holds the minimum in
\* bonded stake, up to one token: the hooks project the stake from rounded
\* numbers and, when unbonding, from the validator before its tokens leave.
RevalidatedGovernorsHoldMinimum ==
    [][\A g \in Accounts :
         Revalidated(g) /\ IsActive(gov, g)' => GetGovernorBondedTokens(stk', g) >= minSelf - 1]_vars

\* A governor that did not ask for it is deactivated only when the stake it is
\* left with is below the minimum, up to the same one token.  A redelegation is
\* the exception: it removes the stake before it adds it, and the hooks judge
\* the state between.
DeactivationJustified ==
    [][\A g \in Accounts :
         IsActive(gov, g) /\ ~IsActive(gov, g)' =>
            \/ DeactivateGovernor(g)
            \/ GetGovernorBondedTokens(stk', g) <= minSelf
            \/ \E src, dst \in Validators, amt \in Amounts : BeginRedelegate(g, src, dst, amt)]_vars

\* Every active governor holds the minimum, as InitGenesis asserts of the state
\* it is given: it panics on an exported state in which one does not.
ExportedStateImports ==
    \A g \in Accounts : IsActive(gov, g) => GetGovernorBondedTokens(stk, g) >= minSelf
=============================================================================
