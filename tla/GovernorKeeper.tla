--------------------------- MODULE GovernorKeeper ---------------------------
(***************************************************************************)
(* The part of the x/gov keeper that keeps governors, the governance       *)
(* delegations made to them and the validator shares those delegations     *)
(* stand for, with the x/staking hooks that keep all of it in step with    *)
(* the stake.                                                              *)
(*                                                                         *)
(* One message or one staking operation calls several of these functions   *)
(* in a row, each on the store the previous one left, so they are written  *)
(* as operators from a keeper state to a keeper state.                     *)
(*                                                                         *)
(* gov, the stores of the keeper:                                          *)
(*   status[g]         Governors: "none" when g has no governor record     *)
(*   changeTime[g]     LastStatusChangeTime (left in place when the record *)
(*                     is removed; nothing reads it then)                  *)
(*   delegation[d]     GovernanceDelegations: d's governor, or None        *)
(*   byGovernor        GovernanceDelegationsByGovernor: pairs <<g, d>>     *)
(*   valShares[g][v]   ValidatorSharesByGovernor, 0 when there is no entry *)
(*   activeIndex       ActiveGovernorsByDelegatedValidator: pairs <<v, g>> *)
(*   panicked          a function called panic, or gave up on a store it   *)
(*                     found inconsistent                                  *)
(*                                                                         *)
(* stk, what the hooks read of x/staking:                                  *)
(*   status[v]         bond status, "none" when v has no record            *)
(*   tokens[v], shares[v]  Tokens and DelegatorShares                      *)
(*   del[d][v]         shares of d's delegation to v, 0 when there is none *)
(***************************************************************************)
EXTENDS StakingShares, FiniteSetsExt, Functions

CONSTANTS Accounts,     \* users; a governor address is the account's bytes
          Validators,   \* operator addresses
          None          \* no governor

ASSUME NoneAssumption == None \notin Accounts
ASSUME FiniteAssumption == IsFiniteSet(Accounts)
ASSUME ValidatorsAssumption == IsFiniteSet(Validators)

GovernorStatus == {"none", "active", "inactive"}
BondStatus == {"none", "unbonded", "unbonding", "bonded"}

GovStores ==
    [status      : [Accounts -> GovernorStatus],
     changeTime  : [Accounts -> Nat],
     delegation  : [Accounts -> Accounts \cup {None}],
     byGovernor  : SUBSET (Accounts \X Accounts),
     valShares   : [Accounts -> [Validators -> Nat]],
     activeIndex : SUBSET (Validators \X Accounts),
     panicked    : BOOLEAN]

StakingStores ==
    [status : [Validators -> BondStatus],
     tokens : [Validators -> Nat],
     shares : [Validators -> Nat],
     del    : [Accounts -> [Validators -> Nat]]]

IsActive(gov, g) == gov.status[g] = "active"

\* The validators IterateDelegations visits for d.
DelegatedTo(stk, d) == {v \in Validators : stk.del[d][v] > 0}

Panic(gov) == [gov EXCEPT !.panicked = TRUE]

-----------------------------------------------------------------------------
(* governor.go *)

BondedTokens(stk, v) == IF stk.status[v] = "bonded" THEN stk.tokens[v] ELSE 0

\* The bonded tokens d's delegation to v is worth, before truncation.
BondedWorth(stk, d, v) ==
    Quo(MulInt(stk.del[d][v], BondedTokens(stk, v)), stk.shares[v])

GetGovernorBondedTokensWithExclusions(stk, g, excluded) ==
    MapThenSumSet(LAMBDA v : TruncateInt(BondedWorth(stk, g, v)),
                  DelegatedTo(stk, g) \ excluded)

GetGovernorBondedTokens(stk, g) == GetGovernorBondedTokensWithExclusions(stk, g, {})

\* validateGovernorMinSelfDelegation panics for an active governor whose
\* governance delegation does not go to itself.
SelfDelegationMissing(gov, g) == IsActive(gov, g) /\ gov.delegation[g] # g

ValidateMinSelfDelegation(gov, g, totalBonded, minSelf) ==
    IsActive(gov, g) /\ totalBonded >= minSelf

-----------------------------------------------------------------------------
(* delegation.go *)

IncreaseGovernorShares(gov, g, v, shares) ==
    [gov EXCEPT !.valShares[g][v] = @ + shares]

DecreaseGovernorShares(gov, g, v, shares) ==
    IF gov.valShares[g][v] = 0 \/ gov.valShares[g][v] < shares
    THEN Panic(gov)
    ELSE [gov EXCEPT !.valShares[g][v] = @ - shares]

UndelegateFromGovernor(gov, stk, d) ==
    LET g == gov.delegation[d]
    IN  IF \E v \in DelegatedTo(stk, d) :
              gov.valShares[g][v] = 0 \/ gov.valShares[g][v] < stk.del[d][v]
        THEN Panic(gov)
        ELSE [gov EXCEPT
                !.valShares[g] = [v \in Validators |-> @[v] - stk.del[d][v]],
                !.activeIndex = IF d = g THEN @ \ (DelegatedTo(stk, d) \X {g}) ELSE @,
                !.delegation[d] = None,
                !.byGovernor = @ \ {<<g, d>>}]

DelegateToGovernor(gov, stk, d, g) ==
    [gov EXCEPT
       !.delegation[d] = g,
       !.byGovernor = @ \cup {<<g, d>>},
       !.valShares[g] = [v \in Validators |-> @[v] + stk.del[d][v]],
       !.activeIndex = IF d = g THEN @ \cup (DelegatedTo(stk, d) \X {g}) ELSE @]

RedelegateToGovernor(gov, stk, d, g) ==
    DelegateToGovernor(UndelegateFromGovernor(gov, stk, d), stk, d, g)

\* Mutant: the index is left as it is.
IndexEntriesKept(gov, stk, g) == gov

SetActiveGovernorIndexEntries(gov, stk, g) ==
    [gov EXCEPT !.activeIndex = @ \cup (DelegatedTo(stk, g) \X {g})]

RemoveActiveGovernorIndexEntries(gov, stk, g) ==
    [gov EXCEPT !.activeIndex = @ \ (DelegatedTo(stk, g) \X {g})]

-----------------------------------------------------------------------------
(* staking_hooks.go *)

\* setGovernorInactive for each governor of the set G.
SetGovernorsInactive(gov, stk, G, now) ==
    [gov EXCEPT
       !.status = [g \in Accounts |-> IF g \in G THEN "inactive" ELSE @[g]],
       !.changeTime = [g \in Accounts |-> IF g \in G THEN now ELSE @[g]],
       !.activeIndex = {e \in @ : ~(e[2] \in G /\ e[1] \in DelegatedTo(stk, e[2]))}]

BeforeDelegationSharesModified(gov, stk, d, v) ==
    IF gov.delegation[d] = None
    THEN gov
    ELSE DecreaseGovernorShares(gov, gov.delegation[d], v, stk.del[d][v])

\* Mutant: the shares of an inactive governor's own stake are not added back.
AfterDelegationModifiedActiveOnly(gov, stk, d, v, minSelf, now) ==
    LET increased == IncreaseGovernorShares(gov, gov.delegation[d], v, stk.del[d][v])
    IN  IF gov.delegation[d] \in {None, d} /\ ~IsActive(gov, d)
        THEN gov
        ELSE IF gov.delegation[d] # d
             THEN increased
             ELSE [increased EXCEPT !.activeIndex = @ \cup {<<v, d>>}]

AfterDelegationModified(gov, stk, d, v, minSelf, now) ==
    LET increased == IncreaseGovernorShares(gov, gov.delegation[d], v, stk.del[d][v])
    IN  CASE gov.delegation[d] = None -> gov
          [] gov.delegation[d] \notin {None, d} -> increased
          [] gov.delegation[d] = d /\ gov.status[d] = "none" -> Panic(increased)
          [] gov.delegation[d] = d /\ gov.status[d] = "inactive" -> increased
          [] gov.delegation[d] = d /\ IsActive(gov, d) ->
               IF ValidateMinSelfDelegation(gov, d, GetGovernorBondedTokens(stk, d), minSelf)
               THEN [increased EXCEPT !.activeIndex = @ \cup {<<v, d>>}]
               ELSE SetGovernorsInactive(increased, stk, {d}, now)

\* Mutant: the stake about to be removed is counted.
BeforeDelegationRemovedCounting(gov, stk, d, v, minSelf, now) ==
    LET unindexed == [gov EXCEPT !.activeIndex = @ \ {<<v, d>>}]
    IN  IF ~IsActive(gov, d) \/ GetGovernorBondedTokens(stk, d) >= minSelf
        THEN unindexed
        ELSE SetGovernorsInactive(unindexed, stk, {d}, now)

BeforeDelegationRemoved(gov, stk, d, v, minSelf, now) ==
    LET unindexed == [gov EXCEPT !.activeIndex = @ \ {<<v, d>>}]
        left == GetGovernorBondedTokensWithExclusions(stk, d, {v})
    IN  CASE gov.status[d] = "none" -> gov
          [] gov.status[d] = "inactive" -> unindexed
          [] SelfDelegationMissing(gov, d) -> Panic(unindexed)
          [] IsActive(gov, d) /\ gov.delegation[d] = d ->
               IF ValidateMinSelfDelegation(gov, d, left, minSelf)
               THEN unindexed
               ELSE SetGovernorsInactive(unindexed, stk, {d}, now)

\* The governors walkGovernorsForValidator visits for v.
Indexed(gov, v) == {g \in Accounts : <<v, g>> \in gov.activeIndex}

\* Mutant: the whole stake at v is counted as lost.
BeforeValidatorSlashedWhole(gov, stk, v, fraction, minSelf, now) ==
    SetGovernorsInactive(gov, stk,
        {g \in Indexed(gov, v) :
            GetGovernorBondedTokens(stk, g) - TruncateInt(BondedWorth(stk, g, v)) < minSelf}, now)

BeforeValidatorSlashed(gov, stk, v, fraction, minSelf, now) ==
    LET visited == {g \in Indexed(gov, v) : IsActive(gov, g)}
        postSlashBonded(g) == GetGovernorBondedTokens(stk, g)
                                - TruncateInt(Mul(BondedWorth(stk, g, v), fraction))
        toDeactivate == {g \in visited :
                           ~ValidateMinSelfDelegation(gov, g, postSlashBonded(g), minSelf)}
    IN  CASE stk.shares[v] = 0 -> gov
          [] stk.shares[v] # 0 /\ ( \/ \E g \in Indexed(gov, v) : gov.status[g] = "none"
                                    \/ \E g \in visited : \/ stk.del[g][v] = 0
                                                          \/ SelfDelegationMissing(gov, g) ) ->
               Panic(gov)
          [] OTHER -> SetGovernorsInactive(gov, stk, toDeactivate, now)

AfterValidatorBeginUnbonding(gov, stk, v, minSelf, now) ==
    LET visited == {g \in Indexed(gov, v) : IsActive(gov, g)}
        toDeactivate == {g \in visited :
                           ~ValidateMinSelfDelegation(gov, g, GetGovernorBondedTokens(stk, g), minSelf)}
    IN  IF \/ \E g \in Indexed(gov, v) : gov.status[g] = "none"
           \/ \E g \in visited : SelfDelegationMissing(gov, g)
        THEN Panic(gov)
        ELSE SetGovernorsInactive(gov, stk, toDeactivate, now)
=============================================================================
