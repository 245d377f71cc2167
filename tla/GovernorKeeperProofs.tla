------------------------ MODULE GovernorKeeperProofs ------------------------
(***************************************************************************)
(* What the hooks, keeper.Delegate, keeper.Unbond and the governance       *)
(* delegation functions do to the sums of shares and to the index, proved  *)
(* for every set of accounts and validators and every precision.  The      *)
(* proofs of the actions in GovernorsProofs rest on these lemmas.          *)
(***************************************************************************)
EXTENDS Governors, ArithmeticTheorems

DelType == [Accounts -> [Validators -> Nat]]

Delegators(g, a) == {d \in Accounts : g.delegation[d] = a}

SharesAt(del, v) == [d \in Accounts |-> del[d][v]]

\* The shares kept for governor a at v are those of its delegators.
SharesOK(g, del) ==
    \A a \in Accounts, v \in Validators :
        g.valShares[a][v] = SumFunctionOnSet(SharesAt(del, v), Delegators(g, a))

\* The index holds v for a exactly when a is active and delegates to v.
IndexOK(g, del) ==
    \A w \in Validators, a \in Accounts :
        <<w, a>> \in g.activeIndex <=> IsActive(g, a) /\ del[a][w] > 0

\* The governors, the delegations and their reverse mapping agree.
Linked(g) ==
    /\ \A x, d \in Accounts : <<x, d>> \in g.byGovernor <=> g.delegation[d] = x
    /\ \A d \in Accounts : g.delegation[d] # None => g.status[g.delegation[d]] # "none"
    /\ \A a \in Accounts : IsActive(g, a) => g.delegation[a] = a

Sound(g) == g \in GovStores /\ ~g.panicked /\ Linked(g)

\* r differs from g in the governors' shares only.
OnlySharesDiffer(r, g) ==
    /\ r \in GovStores
    /\ r.panicked = g.panicked
    /\ r.status = g.status
    /\ r.delegation = g.delegation
    /\ r.byGovernor = g.byGovernor
    /\ r.activeIndex = g.activeIndex

\* The shares at one validator, as a function of the delegator, are natural numbers.
LEMMA SharesAtType ==
    ASSUME NEW del \in DelType, NEW v \in Validators
    PROVE  /\ SharesAt(del, v) \in [Accounts -> Int]
           /\ \A d \in Accounts : SharesAt(del, v)[d] = del[d][v] /\ del[d][v] \in Nat
BY DEF DelType, SharesAt

\* A governor's shares cover those of each of its delegators: the reason why
\* decreaseGovernorShares never panics.
LEMMA DelegatorHasShares ==
    ASSUME NEW g, g \in GovStores, NEW del \in DelType, SharesOK(g, del),
           NEW d \in Accounts, g.delegation[d] # None, NEW v \in Validators
    PROVE  /\ g.delegation[d] \in Accounts
           /\ d \in Delegators(g, g.delegation[d])
           /\ del[d][v] <= g.valShares[g.delegation[d]][v]
<1> DEFINE a == g.delegation[d]
           S == Delegators(g, a)
<1>1. a \in Accounts
  BY DEF GovStores
<1>2. d \in S /\ S \in SUBSET Accounts
  BY DEF Delegators
<1>3. \A x \in S : SharesAt(del, v)[x] >= 0
  BY <1>2, SharesAtType
<1>4. SharesAt(del, v)[d] <= SumFunctionOnSet(SharesAt(del, v), S)
  BY <1>2, <1>3, SharesAtType, SumNat, FiniteAssumption
<1>5. SharesAt(del, v)[d] = del[d][v]
  BY SharesAtType
<1>6. g.valShares[a][v] = SumFunctionOnSet(SharesAt(del, v), S)
  BY <1>1 DEF SharesOK
<1> QED BY <1>1, <1>2, <1>4, <1>5, <1>6

\* Stake moves of an account without governor leave the governors' shares right.
LEMMA StrangerShares ==
    ASSUME NEW g, g \in GovStores, NEW d \in Accounts, g.delegation[d] = None,
           NEW del \in DelType, NEW del2 \in DelType, SharesOK(g, del),
           \A x \in Accounts \ {d}, w \in Validators : del[x][w] = del2[x][w]
    PROVE  SharesOK(g, del2)
<1>1. ASSUME NEW b \in Accounts, NEW w \in Validators
      PROVE  SumFunctionOnSet(SharesAt(del, w), Delegators(g, b))
               = SumFunctionOnSet(SharesAt(del2, w), Delegators(g, b))
  <2>1. \A x \in Delegators(g, b) : SharesAt(del, w)[x] = SharesAt(del2, w)[x]
    BY NoneAssumption DEF Delegators, SharesAt
  <2>2. Delegators(g, b) \in SUBSET Accounts
    BY DEF Delegators
  <2> QED BY <2>1, <2>2, SharesAtType, SumAgree, FiniteAssumption
<1> QED BY <1>1 DEF SharesOK

\* BeforeDelegationSharesModified takes d's shares at v out of its governor's, without
\* panic, and touches nothing else.
LEMMA BeforeSharesModified ==
    ASSUME NEW g, g \in GovStores, ~g.panicked, NEW s, s.del \in DelType, SharesOK(g, s.del),
           NEW d \in Accounts, NEW v \in Validators, s.del[d][v] > 0
    PROVE  LET r == BeforeDelegationSharesModified(g, s, d, v)
           IN  OnlySharesDiffer(r, g) /\ SharesOK(r, [s.del EXCEPT ![d][v] = 0])
<1> DEFINE r == BeforeDelegationSharesModified(g, s, d, v)
           a == g.delegation[d]
           del == s.del
           none == [s.del EXCEPT ![d][v] = 0]
<1>0. none \in DelType
  BY DEF DelType
<1>1. CASE a = None
  <2>1. r = g
    BY <1>1 DEF BeforeDelegationSharesModified
  <2>2. \A x \in Accounts \ {d}, w \in Validators : del[x][w] = none[x][w]
    BY DEF DelType
  <2>3. SharesOK(g, none)
    <3> HIDE DEF none
    <3> QED BY <1>0, <1>1, <2>2, StrangerShares, SMTT(30)
  <2> QED BY <2>1, <2>3 DEF OnlySharesDiffer
<1>2. CASE a # None
  <2>1. /\ a \in Accounts
        /\ d \in Delegators(g, a)
        /\ del[d][v] <= g.valShares[a][v]
    BY <1>2, DelegatorHasShares
  <2>2. del[d][v] \in Nat /\ g.valShares[a][v] \in Nat
    BY <2>1 DEF DelType, GovStores
  <2>3. r = [g EXCEPT !.valShares[a][v] = @ - del[d][v]]
    BY <1>2, <2>1, <2>2 DEF BeforeDelegationSharesModified, DecreaseGovernorShares
  <2>4. /\ r.panicked = g.panicked /\ r.status = g.status /\ r.changeTime = g.changeTime
        /\ r.delegation = g.delegation /\ r.byGovernor = g.byGovernor
        /\ r.activeIndex = g.activeIndex
        /\ r.valShares = [g.valShares EXCEPT ![a][v] = @ - del[d][v]]
    BY <2>3 DEF GovStores
  <2>5. r \in GovStores
    <3> DEFINE X == [g.valShares EXCEPT ![a][v] = @ - del[d][v]]
    <3>1. X \in [Accounts -> [Validators -> Nat]]
      <4>1. g.valShares \in [Accounts -> [Validators -> Nat]]
        BY DEF GovStores
      <4>2. g.valShares[a][v] - del[d][v] \in Nat
        BY <2>1, <2>2
      <4> HIDE DEF a, del
      <4> QED BY <4>1, <4>2, Zenon
    <3>2. r = [g EXCEPT !.valShares = X]
      BY <2>3
    <3> HIDE DEF X, r
    <3> QED BY <3>1, <3>2, Zenon DEF GovStores
  <2>6. ASSUME NEW b \in Accounts, NEW w \in Validators
        PROVE  r.valShares[b][w] = SumFunctionOnSet(SharesAt(none, w), Delegators(r, b))
    <3> DEFINE S == Delegators(g, b)
    <3>1. S \in SUBSET Accounts /\ S = Delegators(r, b)
      BY <2>4 DEF Delegators
    <3>2. d \in S <=> b = a
      BY DEF Delegators
    <3>3. \A x \in S \ {d} : SharesAt(del, w)[x] = SharesAt(none, w)[x]
      BY <3>1 DEF SharesAt, DelType
    <3>4. SumFunctionOnSet(SharesAt(none, w), S) =
            IF d \in S THEN SumFunctionOnSet(SharesAt(del, w), S)
                              - SharesAt(del, w)[d] + SharesAt(none, w)[d]
                       ELSE SumFunctionOnSet(SharesAt(del, w), S)
      <4> HIDE DEF S
      <4> QED BY <1>0, <3>1, <3>3, SharesAtType, SumChange, FiniteAssumption, SMTT(30)
    <3>5. g.valShares[b][w] = SumFunctionOnSet(SharesAt(del, w), S) /\ g.valShares[b][w] \in Nat
      BY DEF SharesOK, GovStores
    <3>6. /\ SharesAt(del, w)[d] = del[d][w]
          /\ SharesAt(none, w)[d] = IF w = v THEN 0 ELSE del[d][w]
          /\ del[d][w] \in Nat
      BY DEF SharesAt, DelType
    <3>7. r.valShares[b][w] = IF b = a /\ w = v THEN g.valShares[b][w] - del[d][v]
                                                ELSE g.valShares[b][w]
      BY <2>1, <2>4 DEF GovStores
    <3> HIDE DEF S, none, r, a, del
    <3> QED BY <3>1, <3>2, <3>4, <3>5, <3>6, <3>7
  <2> QED BY <2>4, <2>5, <2>6 DEF SharesOK, OnlySharesDiffer
<1> QED BY <1>1, <1>2

\* IncreaseGovernorShares puts d's new shares at v back.
LEMMA IncreaseShares ==
    ASSUME NEW g, g \in GovStores, NEW del \in DelType,
           NEW d \in Accounts, NEW v \in Validators, g.delegation[d] # None,
           SharesOK(g, [del EXCEPT ![d][v] = 0])
    PROVE  LET r == IncreaseGovernorShares(g, g.delegation[d], v, del[d][v])
           IN  OnlySharesDiffer(r, g) /\ SharesOK(r, del)
<1> DEFINE a == g.delegation[d]
           r == IncreaseGovernorShares(g, a, v, del[d][v])
           none == [del EXCEPT ![d][v] = 0]
           X == [g.valShares EXCEPT ![a][v] = @ + del[d][v]]
<1>1. none \in DelType
  BY DEF DelType
<1>2. a \in Accounts
  BY DEF GovStores
<1>3. g.valShares \in [Accounts -> [Validators -> Nat]] /\ del[d][v] \in Nat
  BY DEF GovStores, DelType
<1>4. X \in [Accounts -> [Validators -> Nat]]
  <2> HIDE DEF a
  <2> QED BY <1>2, <1>3
<1>5. r = [g EXCEPT !.valShares = X]
  BY DEF IncreaseGovernorShares
<1>6. /\ r \in GovStores
      /\ r.panicked = g.panicked /\ r.status = g.status /\ r.delegation = g.delegation
      /\ r.byGovernor = g.byGovernor /\ r.activeIndex = g.activeIndex
      /\ r.valShares = X
  <2> HIDE DEF X, r
  <2> QED BY <1>4, <1>5, Zenon DEF GovStores
<1>7. ASSUME NEW b \in Accounts, NEW w \in Validators
      PROVE  r.valShares[b][w] = SumFunctionOnSet(SharesAt(del, w), Delegators(r, b))
  <2> DEFINE S == Delegators(g, b)
  <2>1. S \in SUBSET Accounts /\ S = Delegators(r, b)
    BY <1>6 DEF Delegators
  <2>2. d \in S <=> b = a
    BY DEF Delegators
  <2>3. \A x \in S \ {d} : SharesAt(none, w)[x] = SharesAt(del, w)[x]
    BY <2>1 DEF SharesAt, DelType
  <2>4. SumFunctionOnSet(SharesAt(del, w), S) =
          IF d \in S THEN SumFunctionOnSet(SharesAt(none, w), S)
                            - SharesAt(none, w)[d] + SharesAt(del, w)[d]
                     ELSE SumFunctionOnSet(SharesAt(none, w), S)
    <3> HIDE DEF S, none
    <3> QED BY <1>1, <2>1, <2>3, SharesAtType, SumChange, FiniteAssumption
  <2>5. g.valShares[b][w] = SumFunctionOnSet(SharesAt(none, w), S) /\ g.valShares[b][w] \in Nat
    BY Zenon DEF SharesOK, GovStores
  <2>6. /\ SharesAt(del, w)[d] = del[d][w]
        /\ SharesAt(none, w)[d] = IF w = v THEN 0 ELSE del[d][w]
        /\ del[d][w] \in Nat
    BY DEF SharesAt, DelType
  <2>7. X[b][w] = IF b = a /\ w = v THEN g.valShares[b][w] + del[d][v] ELSE g.valShares[b][w]
    <3> HIDE DEF a
    <3> QED BY <1>2, <1>3
  <2> HIDE DEF S, none, r, a, X
  <2> QED BY <1>6, <2>1, <2>2, <2>4, <2>5, <2>6, <2>7
<1> QED BY <1>6, <1>7, Zenon DEF SharesOK, OnlySharesDiffer

\* r is g with the governors of G deactivated and their index entries removed.
Deactivated(r, g, s, G) ==
    /\ Sound(r)
    /\ r.delegation = g.delegation
    /\ r.valShares = g.valShares
    /\ \A a \in Accounts : IsActive(r, a) <=> IsActive(g, a) /\ a \notin G
    /\ \A w \in Validators, a \in Accounts :
          <<w, a>> \in r.activeIndex <=>
             <<w, a>> \in g.activeIndex /\ ~(a \in G /\ s.del[a][w] > 0)

\* setGovernorInactive on active governors: they keep their delegations and shares and
\* lose their index entries.
LEMMA SetInactive ==
    ASSUME NEW g, Sound(g), NEW s, NEW G \in SUBSET Accounts, NEW t \in Nat,
           \A a \in G : IsActive(g, a)
    PROVE  Deactivated(SetGovernorsInactive(g, s, G, t), g, s, G)
<1> DEFINE r == SetGovernorsInactive(g, s, G, t)
           st == [a \in Accounts |-> IF a \in G THEN "inactive" ELSE g.status[a]]
           ct == [a \in Accounts |-> IF a \in G THEN t ELSE g.changeTime[a]]
           ai == {e \in g.activeIndex : ~(e[2] \in G /\ e[1] \in DelegatedTo(s, e[2]))}
<1>1. g \in GovStores /\ ~g.panicked /\ Linked(g)
  BY DEF Sound
<1>2. r = [g EXCEPT !.status = st, !.changeTime = ct, !.activeIndex = ai]
  BY DEF SetGovernorsInactive
<1>3. st \in [Accounts -> GovernorStatus] /\ ct \in [Accounts -> Nat]
  BY <1>1 DEF GovStores, GovernorStatus
<1>4. ai \in SUBSET (Validators \X Accounts)
  BY <1>1 DEF GovStores
<1> HIDE DEF r, st, ct, ai
<1>5. /\ r \in GovStores
      /\ r.panicked = g.panicked /\ r.status = st /\ r.delegation = g.delegation
      /\ r.byGovernor = g.byGovernor /\ r.activeIndex = ai /\ r.valShares = g.valShares
  BY <1>1, <1>2, <1>3, <1>4, Zenon DEF GovStores
<1>6. Linked(r)
  <2>1. \A a \in Accounts : (st[a] = "active" => g.status[a] = "active")
                            /\ (g.status[a] # "none" => st[a] # "none")
    BY DEF st
  <2>2. g.delegation \in [Accounts -> Accounts \cup {None}]
    BY <1>1 DEF GovStores
  <2> QED BY <1>1, <1>5, <2>1, <2>2 DEF Linked, IsActive
<1>7. \A a \in Accounts : IsActive(r, a) <=> IsActive(g, a) /\ a \notin G
  BY <1>5 DEF IsActive, st
<1>8. \A w \in Validators, a \in Accounts :
        <<w, a>> \in r.activeIndex <=>
           <<w, a>> \in g.activeIndex /\ ~(a \in G /\ s.del[a][w] > 0)
  BY <1>5 DEF ai, DelegatedTo
<1>9. Sound(r)
  BY <1>1, <1>5, <1>6 DEF Sound
<1> QED BY <1>5, <1>7, <1>8, <1>9 DEF r, Deactivated

\* What the index is when the stake of d at v has moved and no hook has said so.
IndexBut(g, del, d, v) ==
    /\ \A w \in Validators, a \in Accounts :
          <<w, a>> # <<v, d>> =>
             (<<w, a>> \in g.activeIndex <=> IsActive(g, a) /\ del[a][w] > 0)
    /\ <<v, d>> \in g.activeIndex => IsActive(g, d)

\* AfterDelegationModified brings shares and index back in step with d's stake at v,
\* whether or not it deactivates d.
LEMMA AfterModified ==
    ASSUME NEW g, Sound(g), NEW s, s.del \in DelType,
           NEW d \in Accounts, NEW v \in Validators, s.del[d][v] > 0,
           SharesOK(g, [s.del EXCEPT ![d][v] = 0]), IndexBut(g, s.del, d, v),
           NEW m, NEW t \in Nat
    PROVE  LET r == AfterDelegationModified(g, s, d, v, m, t)
           IN  Sound(r) /\ SharesOK(r, s.del) /\ IndexOK(r, s.del)
<1> DEFINE r == AfterDelegationModified(g, s, d, v, m, t)
           inc == IncreaseGovernorShares(g, g.delegation[d], v, s.del[d][v])
<1> SUFFICES Sound(r) /\ SharesOK(r, s.del) /\ IndexOK(r, s.del)
  OBVIOUS
<1>1. g \in GovStores /\ ~g.panicked /\ Linked(g)
  BY DEF Sound
<1>2. CASE g.delegation[d] = None
  <2>1. r = g
    BY <1>2, NoneAssumption DEF AfterDelegationModified
  <2>2. SharesOK(g, s.del)
    <3> DEFINE none == [s.del EXCEPT ![d][v] = 0]
    <3>1. none \in DelType /\ SharesOK(g, none)
      BY DEF DelType
    <3>2. \A x \in Accounts \ {d}, w \in Validators : none[x][w] = s.del[x][w]
      BY DEF DelType
    <3> HIDE DEF none
    <3> QED BY <1>1, <1>2, <3>1, <3>2, StrangerShares
  <2>3. ~IsActive(g, d)
    BY <1>1, <1>2, NoneAssumption DEF Linked
  <2>4. IndexOK(g, s.del)
    BY <2>3, Zenon DEF IndexOK, IndexBut
  <2> QED BY <2>1, <2>2, <2>4
<1>3. CASE g.delegation[d] # None
  <2>0. OnlySharesDiffer(inc, g) /\ SharesOK(inc, s.del)
    BY <1>1, <1>3, IncreaseShares
  <2> HIDE DEF inc
  <2>1. /\ inc \in GovStores /\ inc.panicked = g.panicked /\ inc.status = g.status
        /\ inc.delegation = g.delegation /\ inc.byGovernor = g.byGovernor
        /\ inc.activeIndex = g.activeIndex /\ SharesOK(inc, s.del)
    BY <2>0 DEF OnlySharesDiffer
  <2>2. Sound(inc)
    BY <1>1, <2>1 DEF Sound, Linked, IsActive
  <2>3. ASSUME ~IsActive(g, d), r = inc PROVE Sound(r) /\ SharesOK(r, s.del) /\ IndexOK(r, s.del)
    BY <2>1, <2>2, <2>3 DEF IndexOK, IndexBut, IsActive
  <2>4. CASE g.delegation[d] # d
    <3>1. ~IsActive(g, d)
      BY <1>1, <2>4 DEF Linked
    <3>2. r = inc
      BY <1>3, <2>4 DEF AfterDelegationModified, inc
    <3> QED BY <2>3, <3>1, <3>2
  <2>5. CASE g.delegation[d] = d /\ ~IsActive(g, d)
    <3>1. g.status[d] = "inactive"
      BY <1>1, <1>3, <2>5 DEF Linked, GovStores, GovernorStatus, IsActive
    <3>2. r = inc
      BY <1>3, <2>5, <3>1 DEF AfterDelegationModified, inc
    <3> QED BY <2>3, <2>5, <3>2
  <2>6. CASE g.delegation[d] = d /\ IsActive(g, d)
    <3> DEFINE kept == [inc EXCEPT !.activeIndex = @ \cup {<<v, d>>}]
               off == SetGovernorsInactive(inc, s, {d}, t)
    <3>1. r = kept \/ r = off
      BY <1>3, <2>6 DEF AfterDelegationModified, inc, IsActive
    <3>2. CASE r = kept
      <4>1. inc.activeIndex \cup {<<v, d>>} \in SUBSET (Validators \X Accounts)
        BY <2>1 DEF GovStores
      <4> HIDE DEF r
      <4>2. /\ r \in GovStores
            /\ r.panicked = inc.panicked /\ r.status = inc.status
            /\ r.delegation = inc.delegation /\ r.byGovernor = inc.byGovernor
            /\ r.valShares = inc.valShares
            /\ r.activeIndex = inc.activeIndex \cup {<<v, d>>}
        BY <2>1, <3>2, <4>1, Zenon DEF GovStores
      <4>3. Sound(r)
        BY <2>2, <4>2 DEF Sound, Linked, IsActive
      <4>4. SharesOK(r, s.del)
        BY <2>1, <4>2 DEF SharesOK, Delegators
      <4>5. IndexOK(r, s.del)
        BY <2>1, <2>6, <4>2, ZenonT(30) DEF IndexOK, IndexBut, IsActive
      <4> QED BY <4>3, <4>4, <4>5
    <3>3. CASE r = off
      <4>1. Deactivated(off, inc, s, {d})
        BY <2>1, <2>2, <2>6, SetInactive DEF IsActive
      <4> HIDE DEF off, r
      <4>2. SharesOK(off, s.del)
        BY <2>1, <4>1 DEF SharesOK, Delegators, Deactivated
      <4>3. ASSUME NEW w \in Validators, NEW a \in Accounts
            PROVE  <<w, a>> \in off.activeIndex <=> IsActive(off, a) /\ s.del[a][w] > 0
        <5>1. CASE a = d
          <6>1. ~IsActive(off, a)
            BY <4>1, <5>1 DEF Deactivated
          <6>2. <<w, a>> \notin off.activeIndex
            BY <4>1, <2>1, <5>1 DEF IndexBut, Deactivated
          <6> QED BY <6>1, <6>2
        <5>2. CASE a # d
          BY <4>1, <2>1, <5>2 DEF IndexBut, IsActive, Deactivated
        <5> QED BY <5>1, <5>2
      <4> QED BY <3>3, <4>1, <4>2, <4>3 DEF IndexOK, Deactivated
    <3> QED BY <3>1, <3>2, <3>3
  <2> QED BY <2>4, <2>5, <2>6
<1> QED BY <1>2, <1>3

\* del2 is del with d's shares at v set to k.
Moved(del, del2, d, v, k) ==
    \A a \in Accounts, w \in Validators :
        del2[a][w] = IF a = d /\ w = v THEN k ELSE del[a][w]

\* BeforeDelegationRemoved leaves the index as it must be once d's stake at v is gone.
LEMMA BeforeRemoved ==
    ASSUME NEW g, Sound(g), NEW s, s.del \in DelType, NEW d \in Accounts, NEW v \in Validators,
           NEW del2 \in DelType, Moved(s.del, del2, d, v, 0),
           SharesOK(g, del2), IndexOK(g, s.del), NEW m, NEW t \in Nat
    PROVE  LET r == BeforeDelegationRemoved(g, s, d, v, m, t)
           IN  Sound(r) /\ SharesOK(r, del2) /\ IndexOK(r, del2)
<1> DEFINE r == BeforeDelegationRemoved(g, s, d, v, m, t)
           un == [g EXCEPT !.activeIndex = @ \ {<<v, d>>}]
           off == SetGovernorsInactive(un, s, {d}, t)
<1> SUFFICES Sound(r) /\ SharesOK(r, del2) /\ IndexOK(r, del2)
  OBVIOUS
<1>1. g \in GovStores /\ ~g.panicked /\ Linked(g)
  BY DEF Sound
<1>2. \A a \in Accounts, w \in Validators :
        del2[a][w] = IF a = d /\ w = v THEN 0 ELSE s.del[a][w]
  BY DEF Moved
<1>3. /\ un \in GovStores
      /\ un.panicked = g.panicked /\ un.status = g.status /\ un.delegation = g.delegation
      /\ un.byGovernor = g.byGovernor /\ un.valShares = g.valShares
      /\ un.activeIndex = g.activeIndex \ {<<v, d>>}
  BY <1>1, Zenon DEF GovStores
<1>4. \/ r = g /\ g.status[d] = "none"
      \/ r = un
      \/ r = off /\ IsActive(g, d)
  <2>1. g.status[d] \in {"none", "inactive", "active"}
    BY <1>1 DEF GovStores, GovernorStatus
  <2>2. CASE g.status[d] = "none"
    <3>1. r = g
      <4> HIDE DEF un, off
      <4> QED BY <2>2 DEF SelfDelegationMissing, IsActive, BeforeDelegationRemoved
    <3> QED BY <2>2, <3>1
  <2>3. CASE g.status[d] = "inactive"
    <3>1. r = un
      <4> HIDE DEF off
      <4> QED BY <2>3 DEF SelfDelegationMissing, IsActive, BeforeDelegationRemoved
    <3> QED BY <3>1
  <2>4. CASE g.status[d] = "active"
    <3>1. IsActive(g, d) /\ g.delegation[d] = d /\ ~SelfDelegationMissing(g, d)
      BY <1>1, <2>4 DEF IsActive, Linked, SelfDelegationMissing
    <3> QED BY <2>4, <3>1 DEF BeforeDelegationRemoved
  <2> QED BY <2>1, <2>2, <2>3, <2>4
<1> HIDE DEF r, un, off
<1>5. Sound(un) /\ SharesOK(un, del2) /\ IndexOK(un, del2)
  <2>1. Sound(un)
    BY <1>1, <1>3 DEF Sound, Linked, IsActive
  <2>2. SharesOK(un, del2)
    BY <1>3 DEF SharesOK, Delegators
  <2>3. IndexOK(un, del2)
    <3> SUFFICES ASSUME NEW w \in Validators, NEW a \in Accounts
                 PROVE  <<w, a>> \in un.activeIndex <=> IsActive(un, a) /\ del2[a][w] > 0
      BY Zenon DEF IndexOK
    <3>1. <<w, a>> \in g.activeIndex <=> IsActive(g, a) /\ s.del[a][w] > 0
      BY DEF IndexOK
    <3>2. <<w, a>> = <<v, d>> <=> w = v /\ a = d
      OBVIOUS
    <3> QED BY <1>2, <1>3, <3>1, <3>2 DEF IsActive
  <2> QED BY <2>1, <2>2, <2>3
<1>6. CASE r = un
  BY <1>5, <1>6
<1>7. CASE r = g /\ g.status[d] = "none"
  <2>1. ~IsActive(g, d)
    BY <1>7 DEF IsActive
  <2>2. IndexOK(g, del2)
    BY <1>2, <2>1, Zenon DEF IndexOK
  <2> QED BY <1>7, <2>2
<1>8. CASE r = off /\ IsActive(g, d)
  <2>1. Deactivated(off, un, s, {d})
    BY <1>3, <1>5, <1>8, SetInactive DEF IsActive, off
  <2>2. SharesOK(off, del2)
    BY <1>5, <2>1 DEF SharesOK, Delegators, Deactivated
  <2>3. ASSUME NEW w \in Validators, NEW a \in Accounts
        PROVE  <<w, a>> \in off.activeIndex <=> IsActive(off, a) /\ del2[a][w] > 0
    <3>1. CASE a = d
      <4>1. ~IsActive(off, a)
        BY <2>1, <3>1 DEF Deactivated
      <4>2. <<w, a>> \in un.activeIndex => s.del[a][w] > 0
        BY <1>3 DEF IndexOK
      <4> QED BY <2>1, <3>1, <4>1, <4>2 DEF Deactivated
    <3>2. CASE a # d
      BY <1>5, <2>1, <3>2 DEF IndexOK, Deactivated
    <3> QED BY <3>1, <3>2
  <2> QED BY <1>8, <2>1, <2>2, <2>3 DEF Deactivated, IndexOK
<1> QED BY <1>4, <1>6, <1>7, <1>8

GInv(g, s) == Sound(g) /\ SharesOK(g, s.del) /\ IndexOK(g, s.del)

SInv(s) ==
    /\ s \in StakingStores
    /\ \A v \in Validators :
          /\ s.shares[v] = SumFunctionOnSet(SharesAt(s.del, v), Accounts)
          /\ s.status[v] = "none" => s.shares[v] = 0
          /\ s.tokens[v] <= s.shares[v]

\* Moving the stake of d at v by k units moves the sum of v's shares by k.
LEMMA StakeMoves ==
    ASSUME NEW del \in DelType, NEW del2 \in DelType, NEW d \in Accounts, NEW v \in Validators,
           NEW k \in Nat, Moved(del, del2, d, v, k)
    PROVE  /\ \A w \in Validators \ {v} :
                SumFunctionOnSet(SharesAt(del2, w), Accounts) = SumFunctionOnSet(SharesAt(del, w), Accounts)
           /\ SumFunctionOnSet(SharesAt(del2, v), Accounts)
                = SumFunctionOnSet(SharesAt(del, v), Accounts) - del[d][v] + k
<1>1. \A a \in Accounts, w \in Validators : del2[a][w] = IF a = d /\ w = v THEN k ELSE del[a][w]
  BY DEF Moved
<1>2. ASSUME NEW w \in Validators \ {v}
      PROVE  SumFunctionOnSet(SharesAt(del2, w), Accounts) = SumFunctionOnSet(SharesAt(del, w), Accounts)
  <2>1. \A x \in Accounts : SharesAt(del2, w)[x] = SharesAt(del, w)[x]
    BY <1>1 DEF SharesAt
  <2> QED BY <2>1, SharesAtType, SumAgree, FiniteAssumption
<1>3. \A x \in Accounts \ {d} : SharesAt(del, v)[x] = SharesAt(del2, v)[x]
  BY <1>1 DEF SharesAt
<1>4. SumFunctionOnSet(SharesAt(del2, v), Accounts)
        = SumFunctionOnSet(SharesAt(del, v), Accounts) - SharesAt(del, v)[d] + SharesAt(del2, v)[d]
  BY <1>3, SharesAtType, SumChange, FiniteAssumption
<1>5. SharesAt(del, v)[d] = del[d][v] /\ SharesAt(del2, v)[d] = k
  BY <1>1, SharesAtType
<1> QED BY <1>2, <1>4, <1>5

\* A delegation holds no more shares than its validator has.
LEMMA DelegationBound ==
    ASSUME NEW s, SInv(s), NEW d \in Accounts, NEW v \in Validators
    PROVE  /\ s.del \in DelType
           /\ s.del[d][v] \in Nat
           /\ s.shares[v] \in Nat
           /\ s.tokens[v] \in Nat
           /\ s.del[d][v] <= s.shares[v]
<1>1. s.del \in DelType /\ s.del[d][v] \in Nat /\ s.shares[v] \in Nat /\ s.tokens[v] \in Nat
  BY DEF SInv, StakingStores, DelType
<1>2. \A x \in Accounts : SharesAt(s.del, v)[x] >= 0
  BY <1>1, SharesAtType
<1>3. SharesAt(s.del, v)[d] <= SumFunctionOnSet(SharesAt(s.del, v), Accounts)
  BY <1>1, <1>2, SharesAtType, SumNat, FiniteAssumption
<1> QED BY <1>1, <1>3, SharesAtType DEF SInv

\* Moved determines the delegations.
LEMMA MovedUnique ==
    ASSUME NEW del \in DelType, NEW del2 \in DelType, NEW d \in Accounts, NEW v \in Validators,
           NEW k, Moved(del, del2, d, v, k)
    PROVE  del2 = [del EXCEPT ![d][v] = k]
BY DEF Moved, DelType

\* Two states that differ in d's shares at v agree once those are set to 0.
LEMMA MovedTwice ==
    ASSUME NEW del \in DelType, NEW del2 \in DelType, NEW d \in Accounts, NEW v \in Validators,
           NEW k, Moved(del, del2, d, v, k)
    PROVE  [del EXCEPT ![d][v] = 0] = [del2 EXCEPT ![d][v] = 0]
<1> DEFINE z == [del2 EXCEPT ![d][v] = 0]
<1>1. z \in DelType
  BY DEF DelType
<1>2. Moved(del, z, d, v, 0)
  BY DEF Moved, DelType
<1> HIDE DEF z
<1>3. z = [del EXCEPT ![d][v] = 0]
  BY <1>1, <1>2, MovedUnique
<1> QED BY <1>3 DEF z

\* r is s with v's status, tokens and shares and d's delegation to v replaced.
Restaked(r, s, d, v, b, T, S, k) ==
    /\ r \in StakingStores
    /\ Moved(s.del, r.del, d, v, k)
    /\ \A w \in Validators :
          /\ r.status[w] = IF w = v THEN b ELSE s.status[w]
          /\ r.tokens[w] = IF w = v THEN T ELSE s.tokens[w]
          /\ r.shares[w] = IF w = v THEN S ELSE s.shares[w]

\* A change of d's shares at v together with v's total keeps the staking invariant.
LEMMA StakeStep ==
    ASSUME NEW s, SInv(s), NEW r, NEW d \in Accounts, NEW v \in Validators,
           NEW k \in Nat, NEW S \in Nat, NEW T \in Nat, NEW b,
           S = s.shares[v] - s.del[d][v] + k, T <= S, b = "none" => S = 0,
           Restaked(r, s, d, v, b, T, S, k)
    PROVE  SInv(r)
<1>1. s.del \in DelType /\ r.del \in DelType /\ r \in StakingStores
  BY DEF SInv, StakingStores, DelType, Restaked
<1>2. ASSUME NEW w \in Validators
      PROVE  /\ r.shares[w] = SumFunctionOnSet(SharesAt(r.del, w), Accounts)
             /\ r.status[w] = "none" => r.shares[w] = 0
             /\ r.tokens[w] <= r.shares[w]
  <2>1. s.shares[w] = SumFunctionOnSet(SharesAt(s.del, w), Accounts)
    BY DEF SInv
  <2>2. CASE w = v
    <3>1. SumFunctionOnSet(SharesAt(r.del, v), Accounts)
            = SumFunctionOnSet(SharesAt(s.del, v), Accounts) - s.del[d][v] + k
      BY <1>1, StakeMoves DEF Restaked
    <3> QED BY <2>1, <2>2, <3>1 DEF Restaked
  <2>3. CASE w # v
    <3>1. SumFunctionOnSet(SharesAt(r.del, w), Accounts) = SumFunctionOnSet(SharesAt(s.del, w), Accounts)
      BY <1>1, <2>3, StakeMoves, SMTT(30) DEF Restaked
    <3> QED BY <2>1, <2>3, <3>1 DEF SInv, Restaked
  <2> QED BY <2>2, <2>3
<1> QED BY <1>1, <1>2 DEF SInv

\* keeper.Unbond keeps the invariant of both keepers, although its hooks run before the
\* validator is updated, and touches no other validator.
LEMMA UnbondPreserves ==
    ASSUME NEW g, NEW s, GInv(g, s), SInv(s), NEW d \in Accounts, NEW v \in Validators,
           NEW shares \in Nat, shares <= s.del[d][v], s.del[d][v] > 0, now \in Nat
    PROVE  LET r == UnbondShares(g, s, d, v, shares)
           IN  /\ GInv(r.gov, r.stk)
               /\ SInv(r.stk)
               /\ r.amount \in Nat
               /\ \A w \in Validators \ {v} : /\ r.stk.status[w] = s.status[w]
                                              /\ r.stk.tokens[w] = s.tokens[w]
                                              /\ r.stk.shares[w] = s.shares[w]
<1> DEFINE before == BeforeDelegationSharesModified(g, s, d, v)
           reduced == [s EXCEPT !.del[d][v] = @ - shares]
           hooked == IF reduced.del[d][v] = 0
                     THEN BeforeDelegationRemoved(before, s, d, v, minSelf, now)
                     ELSE AfterDelegationModified(before, reduced, d, v, minSelf, now)
           amount == IssuedTokens(s, v, shares)
           left == [reduced EXCEPT !.tokens[v] = @ - amount, !.shares[v] = @ - shares]
           stk2 == IF left.shares[v] = 0 /\ left.status[v] = "unbonded"
                   THEN [left EXCEPT !.status[v] = "none"] ELSE left
           r == UnbondShares(g, s, d, v, shares)
           none == [s.del EXCEPT ![d][v] = 0]
           k == s.del[d][v] - shares
<1>1. r = [gov |-> hooked, stk |-> stk2, amount |-> amount]
  BY DEF UnbondShares
<1>2. /\ s.del \in DelType /\ s.del[d][v] \in Nat /\ s.shares[v] \in Nat /\ s.tokens[v] \in Nat
      /\ s.del[d][v] <= s.shares[v] /\ s.tokens[v] <= s.shares[v]
  BY DelegationBound DEF SInv
<1>3. k \in Nat
  BY <1>2
<1>4. s \in StakingStores
  BY DEF SInv
<1>5. amount \in Nat /\ amount <= s.tokens[v] /\ s.tokens[v] - amount <= s.shares[v] - shares
  <2>1. CASE s.shares[v] = shares
    BY <1>2, <2>1 DEF IssuedTokens
  <2>2. CASE s.shares[v] # shares
    <3>1. amount = TruncateInt(Quo(MulInt(shares, s.tokens[v]), s.shares[v]))
      BY <2>2 DEF IssuedTokens
    <3>2. s.shares[v] \in Nat \ {0} /\ shares <= s.shares[v]
      BY <1>2
    <3> HIDE DEF amount
    <3> QED BY <1>2, <3>1, <3>2, TokensLeave, Zenon
  <2> QED BY <2>1, <2>2
<1> HIDE DEF amount
<1>6. /\ SInv(stk2)
      /\ stk2.del \in DelType /\ reduced.del = stk2.del /\ reduced.del[d][v] = k
      /\ Moved(s.del, stk2.del, d, v, k)
      /\ \A w \in Validators \ {v} : /\ stk2.status[w] = s.status[w]
                                     /\ stk2.tokens[w] = s.tokens[w]
                                     /\ stk2.shares[w] = s.shares[w]
  <2> DEFINE S == s.shares[v] - shares
             T == s.tokens[v] - amount
             b == IF S = 0 /\ s.status[v] = "unbonded" THEN "none" ELSE s.status[v]
             de == [s.del EXCEPT ![d][v] = @ - shares]
             tk == [s.tokens EXCEPT ![v] = @ - amount]
             sh == [s.shares EXCEPT ![v] = @ - shares]
  <2>1. S \in Nat /\ T \in Nat /\ T <= S /\ S = s.shares[v] - s.del[d][v] + k
    BY <1>2, <1>5
  <2>2. de \in DelType /\ Moved(s.del, de, d, v, k) /\ de[d][v] = k
    BY <1>2, <1>3 DEF DelType, Moved
  <2>3. /\ tk \in [Validators -> Nat] /\ sh \in [Validators -> Nat]
        /\ sh[v] = S
        /\ \A w \in Validators : /\ tk[w] = IF w = v THEN T ELSE s.tokens[w]
                                 /\ sh[w] = IF w = v THEN S ELSE s.shares[w]
    BY <1>4, <2>1 DEF StakingStores
  <2>4. /\ reduced \in StakingStores /\ reduced.del = de
        /\ reduced.status = s.status /\ reduced.tokens = s.tokens /\ reduced.shares = s.shares
    <3>1. reduced = [s EXCEPT !.del = de]
      OBVIOUS
    <3> HIDE DEF de, reduced
    <3> QED BY <1>4, <2>2, <3>1, ZenonT(30) DEF StakingStores, DelType
  <2>5. /\ left \in StakingStores /\ left.del = de
        /\ left.status = s.status /\ left.tokens = tk /\ left.shares = sh
    <3>1. left = [reduced EXCEPT !.tokens = tk, !.shares = sh]
      BY <2>4
    <3> HIDE DEF left, reduced, tk, sh, de
    <3> QED BY <2>3, <2>4, <3>1, Zenon DEF StakingStores
  <2>6. Restaked(stk2, s, d, v, b, T, S, k) /\ stk2.del = de
    <3> HIDE DEF left, tk, sh, de, S, T, k
    <3>1. CASE S = 0 /\ s.status[v] = "unbonded"
      <4> DEFINE st == [left.status EXCEPT ![v] = "none"]
      <4>1. stk2 = [left EXCEPT !.status = st]
        BY <2>3, <2>5, <3>1
      <4>2. st \in [Validators -> BondStatus] /\ \A w \in Validators : st[w] = IF w = v THEN b ELSE s.status[w]
        BY <2>5, <3>1 DEF StakingStores, BondStatus
      <4> HIDE DEF st, stk2, b
      <4>3. /\ stk2 \in StakingStores /\ stk2.del = de
            /\ stk2.status = st /\ stk2.tokens = tk /\ stk2.shares = sh
        BY <2>5, <4>1, <4>2, SMTT(30) DEF StakingStores
      <4> QED BY <2>2, <2>3, <4>2, <4>3 DEF Restaked
    <3>2. CASE ~(S = 0 /\ s.status[v] = "unbonded")
      <4>1. stk2 = left /\ b = s.status[v]
        BY <2>3, <2>5, <3>2
      <4> HIDE DEF stk2, b
      <4> QED BY <2>2, <2>3, <2>5, <4>1 DEF Restaked
    <3> QED BY <3>1, <3>2
  <2>7. b = "none" => S = 0
    <3>1. s.status[v] = "none" => s.shares[v] = 0
      BY DEF SInv
    <3> QED BY <1>2, <2>1, <3>1
  <2> HIDE DEF stk2, reduced, de, S, T, b, k
  <2>8. SInv(stk2)
    BY <1>3, <2>1, <2>6, <2>7, StakeStep, SMTT(30)
  <2>9. \A w \in Validators \ {v} : /\ stk2.status[w] = s.status[w]
                                     /\ stk2.tokens[w] = s.tokens[w]
                                     /\ stk2.shares[w] = s.shares[w]
    BY <2>6, SMTT(30) DEF Restaked
  <2> QED BY <2>2, <2>4, <2>6, <2>8, <2>9
<1>8. OnlySharesDiffer(before, g) /\ SharesOK(before, none)
  BY <1>2, BeforeSharesModified DEF GInv, Sound
<1>9. none \in DelType
  BY <1>2 DEF DelType
<1> HIDE DEF before, reduced, stk2, none
<1>10. Sound(before) /\ IndexOK(before, s.del)
  BY <1>8 DEF OnlySharesDiffer, GInv, Sound, Linked, IndexOK, IsActive
<1>11. GInv(hooked, stk2)
  <2>1. CASE k = 0
    <3>1. hooked = BeforeDelegationRemoved(before, s, d, v, minSelf, now)
      BY <1>6, <2>1
    <3>2. none = stk2.del /\ Moved(s.del, stk2.del, d, v, 0)
      BY <1>2, <1>6, <2>1, MovedUnique, SMTT(30) DEF none
    <3> HIDE DEF hooked, k
    <3>3. /\ Sound(before) /\ IndexOK(before, s.del) /\ SharesOK(before, stk2.del)
          /\ s.del \in DelType /\ stk2.del \in DelType
      BY <1>2, <1>6, <1>8, <1>9, <1>10, <3>2
    <3>4. Sound(hooked) /\ SharesOK(hooked, stk2.del) /\ IndexOK(hooked, stk2.del)
      BY <3>1, <3>2, <3>3, BeforeRemoved, ZenonT(60)
    <3> QED BY <3>4 DEF GInv
  <2>2. CASE k # 0
    <3>1. hooked = AfterDelegationModified(before, reduced, d, v, minSelf, now)
      BY <1>6, <2>2, SMTT(30)
    <3>2. none = [reduced.del EXCEPT ![d][v] = 0]
      <4> DEFINE del == s.del
                 del2 == stk2.del
      <4>1. del \in DelType /\ del2 \in DelType /\ Moved(del, del2, d, v, k)
        BY <1>2, <1>6
      <4> HIDE DEF k, del, del2
      <4>2. [del EXCEPT ![d][v] = 0] = [del2 EXCEPT ![d][v] = 0]
        BY <4>1, MovedTwice, SMTT(30)
      <4> QED BY <1>6, <4>2, SMTT(30) DEF none, del, del2
    <3>3. IndexBut(before, reduced.del, d, v)
      BY <1>6, <1>10 DEF IndexOK, IndexBut, Moved
    <3>4. reduced.del[d][v] > 0
      BY <1>3, <1>6, <2>2
    <3> HIDE DEF hooked, k
    <3>5. /\ Sound(before) /\ SharesOK(before, [reduced.del EXCEPT ![d][v] = 0])
          /\ reduced.del \in DelType /\ stk2.del = reduced.del
      BY <1>6, <1>8, <1>10, <3>2
    <3>6. Sound(hooked) /\ SharesOK(hooked, reduced.del) /\ IndexOK(hooked, reduced.del)
      BY <3>1, <3>3, <3>4, <3>5, AfterModified, ZenonT(60)
    <3> QED BY <3>5, <3>6 DEF GInv
  <2> QED BY <2>1, <2>2, SMTT(30)
<1> HIDE DEF hooked, r
<1> QED BY <1>1, <1>5, <1>6, <1>11 DEF r

\* Replacing tokens, shares and delegations by well-typed ones keeps the type.
LEMMA StakingUpdate ==
    ASSUME NEW s \in StakingStores, NEW tk \in [Validators -> Nat],
           NEW sh \in [Validators -> Nat], NEW de \in [Accounts -> [Validators -> Nat]]
    PROVE  [s EXCEPT !.tokens = tk, !.shares = sh, !.del = de] \in StakingStores
BY Zenon DEF StakingStores

\* AddTokensFromDel issues at least one unit of shares per token.
LEMMA SharesIssued ==
    ASSUME NEW s, SInv(s), NEW v \in Validators, NEW amt \in Nat \ {0},
           ~InvalidExRate(s, v), s.status[v] # "none"
    PROVE  IssuedShares(s, v, amt) \in Nat /\ amt <= IssuedShares(s, v, amt)
<1>1. s.shares[v] \in Nat /\ s.tokens[v] \in Nat /\ s.tokens[v] <= s.shares[v]
  BY DEF SInv, StakingStores
<1>2. CASE s.shares[v] = 0
  <2>1. Precision \in Nat /\ 1 <= Precision
    BY PrecisionAssumption
  <2>2. 1 * amt <= Precision * amt /\ Precision * amt \in Nat
    BY <2>1, MulMono
  <2>3. IssuedShares(s, v, amt) = amt * Precision
    BY <1>2 DEF IssuedShares, NewDecFromInt
  <2>4. amt * Precision = Precision * amt /\ 1 * amt = amt
    BY <2>1
  <2> QED BY <2>2, <2>3, <2>4
<1>3. CASE s.shares[v] # 0
  <2>1. s.tokens[v] \in Nat \ {0}
    BY <1>1, <1>3 DEF InvalidExRate
  <2>2. IssuedShares(s, v, amt) = QuoInt(MulInt(s.shares[v], amt), s.tokens[v])
    BY <1>3 DEF IssuedShares
  <2> DEFINE S == s.shares[v]
             T == s.tokens[v]
  <2>3. S \in Nat /\ T \in Nat \ {0} /\ T <= S
    BY <1>1, <2>1
  <2> HIDE DEF S, T
  <2>4. QuoInt(MulInt(S, amt), T) \in Nat /\ amt <= QuoInt(MulInt(S, amt), T)
    BY <2>3, SharesBought
  <2> QED BY <2>2, <2>4 DEF S, T
<1> QED BY <1>2, <1>3

\* keeper.Delegate keeps the invariant of both keepers.
LEMMA DelegatePreserves ==
    ASSUME NEW g, NEW s, GInv(g, s), SInv(s), NEW d \in Accounts, NEW v \in Validators,
           NEW amt \in Nat \ {0}, ~InvalidExRate(s, v), s.status[v] # "none", now \in Nat
    PROVE  LET r == DelegateShares(g, s, d, v, amt)
           IN  GInv(r.gov, r.stk) /\ SInv(r.stk)
<1> DEFINE before == IF s.del[d][v] > 0 THEN BeforeDelegationSharesModified(g, s, d, v) ELSE g
           issued == IssuedShares(s, v, amt)
           moved == [s EXCEPT !.tokens[v] = @ + amt, !.shares[v] = @ + issued,
                              !.del[d][v] = @ + issued]
           hooked == AfterDelegationModified(before, moved, d, v, minSelf, now)
           r == DelegateShares(g, s, d, v, amt)
           del == s.del
           none == [del EXCEPT ![d][v] = 0]
           k == s.del[d][v] + issued
<1>1. r = [gov |-> hooked, stk |-> moved]
  BY DEF DelegateShares
<1>2. /\ del \in DelType /\ del[d][v] \in Nat /\ s.shares[v] \in Nat /\ s.tokens[v] \in Nat
      /\ del[d][v] <= s.shares[v] /\ s.tokens[v] <= s.shares[v]
  BY DelegationBound DEF SInv
<1>3. s \in StakingStores
  BY DEF SInv
<1>4. issued \in Nat /\ amt <= issued
  BY SharesIssued
<1> HIDE DEF issued
<1>5. k \in Nat /\ k > 0
  BY <1>2, <1>4
<1>6. moved.del \in DelType /\ Moved(del, moved.del, d, v, k) /\ SInv(moved)
  <2> DEFINE S == s.shares[v] + issued
             T == s.tokens[v] + amt
             b == s.status[v]
             de == [s.del EXCEPT ![d][v] = @ + issued]
             tk == [s.tokens EXCEPT ![v] = @ + amt]
             sh == [s.shares EXCEPT ![v] = @ + issued]
  <2>1. S \in Nat /\ T \in Nat /\ T <= S /\ S = s.shares[v] - s.del[d][v] + k
    BY <1>2, <1>4, SMTT(30)
  <2>2. de \in DelType /\ Moved(s.del, de, d, v, k)
    BY <1>2, <1>5 DEF DelType, Moved
  <2>3. /\ tk \in [Validators -> Nat] /\ sh \in [Validators -> Nat]
        /\ \A w \in Validators : /\ tk[w] = IF w = v THEN T ELSE s.tokens[w]
                                 /\ sh[w] = IF w = v THEN S ELSE s.shares[w]
    BY <1>3, <2>1 DEF StakingStores
  <2>4. moved = [s EXCEPT !.tokens = tk, !.shares = sh, !.del = de]
    OBVIOUS
  <2> HIDE DEF moved, tk, sh, de, S, T, k
  <2>5. /\ moved \in StakingStores /\ moved.del = de /\ moved.status = s.status
        /\ moved.tokens = tk /\ moved.shares = sh
    <3>1. /\ de \in [Accounts -> [Validators -> Nat]]
          /\ tk \in [Validators -> Nat] /\ sh \in [Validators -> Nat]
      BY <2>2, <2>3 DEF DelType
    <3>2. moved.del = de /\ moved.tokens = tk /\ moved.shares = sh /\ moved.status = s.status
      BY <1>3, <2>4 DEF StakingStores
    <3>3. moved \in StakingStores
      BY <1>3, <2>4, <3>1, StakingUpdate, ZenonT(30)
    <3> QED BY <3>2, <3>3
  <2>6. Restaked(moved, s, d, v, b, T, S, k)
    BY <2>2, <2>3, <2>5 DEF Restaked
  <2> HIDE DEF b
  <2>7. SInv(moved)
    BY <1>5, <2>1, <2>6, StakeStep DEF b
  <2> QED BY <2>2, <2>5, <2>7 DEF del
<1>7. moved.del[d][v] = k
  <2> HIDE DEF moved, k, del
  <2> QED BY <1>6, SMTT(30) DEF Moved
<1>8. OnlySharesDiffer(before, g) /\ SharesOK(before, none)
  <2>1. CASE del[d][v] > 0
    BY <1>2, <2>1, BeforeSharesModified DEF GInv, Sound
  <2>2. CASE ~(del[d][v] > 0)
    <3>1. Moved(del, del, d, v, 0)
      BY <1>2, <2>2 DEF Moved
    <3>2. none = del
      <4> HIDE DEF del
      <4> QED BY <1>2, <3>1, MovedUnique
    <3>3. before = g
      BY <2>2
    <3> HIDE DEF before, none
    <3> QED BY <3>2, <3>3 DEF OnlySharesDiffer, GInv, Sound
  <2> HIDE DEF before, none, del
  <2> QED BY <2>1, <2>2, Zenon
<1> HIDE DEF before, moved, k, none
<1>9. Sound(before) /\ IndexOK(before, del)
  BY <1>8 DEF OnlySharesDiffer, GInv, Sound, Linked, IndexOK, IsActive
<1>10. none = [moved.del EXCEPT ![d][v] = 0]
  <2> DEFINE del2 == moved.del
  <2>1. del2 \in DelType /\ Moved(del, del2, d, v, k)
    BY <1>6
  <2> HIDE DEF del, del2
  <2>2. [del EXCEPT ![d][v] = 0] = [del2 EXCEPT ![d][v] = 0]
    BY <1>2, <2>1, MovedTwice, SMTT(30)
  <2> QED BY <2>2 DEF none, del2
<1>11. IndexBut(before, moved.del, d, v)
  BY <1>6, <1>9, SMTT(30) DEF IndexOK, IndexBut, Moved
<1>12. GInv(hooked, moved)
  <2> HIDE DEF del
  <2> QED BY <1>5, <1>6, <1>7, <1>8, <1>9, <1>10, <1>11, AfterModified, ZenonT(30) DEF GInv, hooked
<1> HIDE DEF hooked, r
<1> QED BY <1>1, <1>6, <1>12 DEF r

\* r is g without the governance delegation of d.
Undelegated(r, g, s, d) ==
    /\ r \in GovStores
    /\ r.panicked = g.panicked
    /\ r.status = g.status
    /\ r.delegation = [g.delegation EXCEPT ![d] = None]
    /\ r.byGovernor = g.byGovernor \ {<<g.delegation[d], d>>}
    /\ SharesOK(r, s.del)
    /\ \A w \in Validators, x \in Accounts :
          <<w, x>> \in r.activeIndex <=>
             <<w, x>> \in g.activeIndex /\ ~(g.delegation[d] = d /\ x = d /\ s.del[d][w] > 0)

\* r is g with a governance delegation of d to a.
NowDelegated(r, g, s, d, a) ==
    /\ r \in GovStores
    /\ r.panicked = g.panicked
    /\ r.status = g.status
    /\ r.delegation = [g.delegation EXCEPT ![d] = a]
    /\ r.byGovernor = g.byGovernor \cup {<<a, d>>}
    /\ SharesOK(r, s.del)
    /\ \A w \in Validators, x \in Accounts :
          <<w, x>> \in r.activeIndex <=>
             <<w, x>> \in g.activeIndex \/ (a = d /\ x = d /\ s.del[d][w] > 0)

\* UndelegateFromGovernor removes d's delegation, its shares and, for a self-delegation,
\* its index entries, and does not panic.
LEMMA UndelegateEffect ==
    ASSUME NEW g, g \in GovStores, NEW s, s.del \in DelType, SharesOK(g, s.del),
           NEW d \in Accounts, g.delegation[d] # None
    PROVE  Undelegated(UndelegateFromGovernor(g, s, d), g, s, d)
<1> DEFINE a == g.delegation[d]
           del == s.del
           r == UndelegateFromGovernor(g, s, d)
           vs == [g.valShares EXCEPT ![a] = [v \in Validators |-> @[v] - del[d][v]]]
           ai == IF d = a THEN g.activeIndex \ (DelegatedTo(s, d) \X {a}) ELSE g.activeIndex
           de == [g.delegation EXCEPT ![d] = None]
           bg == g.byGovernor \ {<<a, d>>}
<1>1. /\ a \in Accounts /\ d \in Delegators(g, a)
      /\ \A v \in Validators : del[d][v] <= g.valShares[a][v]
  BY DelegatorHasShares, ZenonT(30) DEF GovStores, Delegators
<1>2. \A v \in Validators : del[d][v] \in Nat /\ g.valShares[a][v] \in Nat
  BY <1>1 DEF DelType, GovStores
<1>3. r = [g EXCEPT !.valShares = vs, !.activeIndex = ai, !.delegation = de, !.byGovernor = bg]
  <2>1. ~ \E v \in DelegatedTo(s, d) : g.valShares[a][v] = 0 \/ g.valShares[a][v] < s.del[d][v]
    BY <1>1, <1>2 DEF DelegatedTo
  <2> QED BY <2>1, SMTT(30) DEF UndelegateFromGovernor
<1>4. vs \in [Accounts -> [Validators -> Nat]]
  <2>1. g.valShares \in [Accounts -> [Validators -> Nat]]
    BY SMTT(30) DEF GovStores
  <2>2. [v \in Validators |-> g.valShares[a][v] - del[d][v]] \in [Validators -> Nat]
    BY <1>1, <1>2
  <2> HIDE DEF a, del
  <2> QED BY <2>1, <2>2, Zenon
<1>5. /\ ai \in SUBSET (Validators \X Accounts)
      /\ de \in [Accounts -> Accounts \cup {None}]
      /\ bg \in SUBSET (Accounts \X Accounts)
  BY DEF GovStores
<1>6. \A w \in Validators, x \in Accounts :
        <<w, x>> \in ai <=> <<w, x>> \in g.activeIndex /\ ~(a = d /\ x = d /\ s.del[d][w] > 0)
  BY DEF DelegatedTo
<1>7. \A b \in Accounts, w \in Validators :
        vs[b][w] = IF b = a THEN g.valShares[b][w] - del[d][w] ELSE g.valShares[b][w]
  <2> HIDE DEF a
  <2> QED BY <1>1 DEF GovStores
<1> HIDE DEF r, vs, ai, de, bg
<1>8. /\ r \in GovStores
      /\ r.panicked = g.panicked /\ r.status = g.status /\ r.delegation = de
      /\ r.byGovernor = bg /\ r.activeIndex = ai /\ r.valShares = vs
  BY <1>3, <1>4, <1>5, ZenonT(30) DEF GovStores
<1>9. SharesOK(r, del)
  <2> SUFFICES ASSUME NEW b \in Accounts, NEW w \in Validators
               PROVE  r.valShares[b][w] = SumFunctionOnSet(SharesAt(del, w), Delegators(r, b))
    BY DEF SharesOK
  <2> DEFINE S == Delegators(g, b)
             f == SharesAt(del, w)
  <2>1. S \in SUBSET Accounts /\ f \in [Accounts -> Int] /\ f[d] = del[d][w]
    BY SharesAtType DEF Delegators
  <2>2. Delegators(r, b) = S \ {d}
    BY <1>8, NoneAssumption DEF Delegators, de, GovStores
  <2>3. d \in S <=> b = a
    BY DEF Delegators
  <2>4. g.valShares[b][w] = SumFunctionOnSet(f, S)
    BY SMTT(30) DEF SharesOK
  <2>5. CASE b = a
    <3> HIDE DEF S, f
    <3>1. SumFunctionOnSet(f, S) = f[d] + SumFunctionOnSet(f, S \ {d})
      BY <2>1, <2>3, <2>5, SumRemove, FiniteAssumption, SMTT(30)
    <3>2. SumFunctionOnSet(f, S \ {d}) \in Int
      BY <2>1, SumRemove, FiniteAssumption, SMTT(30)
    <3>3. vs[b][w] = g.valShares[b][w] - del[d][w] /\ del[d][w] \in Nat
      BY <1>2, <1>7, <2>5
    <3>4. SumFunctionOnSet(SharesAt(del, w), Delegators(r, b)) = SumFunctionOnSet(f, S \ {d})
      BY <2>2 DEF f
    <3> QED BY <1>8, <2>1, <2>4, <3>1, <3>2, <3>3, <3>4, SMTT(30)
  <2>6. CASE b # a
    <3>1. S \ {d} = S
      BY <2>3, <2>6, SMTT(30)
    <3> QED BY <1>7, <1>8, <2>2, <2>4, <2>6, <3>1, ZenonT(30)
  <2> QED BY <2>5, <2>6
<1> QED BY <1>6, <1>8, <1>9 DEF Undelegated, r, de, bg

\* DelegateToGovernor adds d's delegation, its shares and, for a self-delegation, its
\* index entries.
LEMMA DelegateEffect ==
    ASSUME NEW g, g \in GovStores, NEW s, s.del \in DelType, SharesOK(g, s.del),
           NEW d \in Accounts, g.delegation[d] = None, NEW a \in Accounts
    PROVE  NowDelegated(DelegateToGovernor(g, s, d, a), g, s, d, a)
<1> DEFINE del == s.del
           r == DelegateToGovernor(g, s, d, a)
           vs == [g.valShares EXCEPT ![a] = [v \in Validators |-> @[v] + del[d][v]]]
           ai == IF d = a THEN g.activeIndex \cup (DelegatedTo(s, d) \X {a}) ELSE g.activeIndex
           de == [g.delegation EXCEPT ![d] = a]
           bg == g.byGovernor \cup {<<a, d>>}
<1>1. \A v \in Validators : del[d][v] \in Nat /\ g.valShares[a][v] \in Nat
  BY DEF DelType, GovStores
<1>2. r = [g EXCEPT !.delegation = de, !.byGovernor = bg, !.valShares = vs, !.activeIndex = ai]
  BY DEF DelegateToGovernor
<1>3. vs \in [Accounts -> [Validators -> Nat]]
  <2>1. g.valShares \in [Accounts -> [Validators -> Nat]]
    BY DEF GovStores
  <2>2. [v \in Validators |-> g.valShares[a][v] + del[d][v]] \in [Validators -> Nat]
    BY <1>1
  <2> HIDE DEF del
  <2> QED BY <2>1, <2>2
<1>4. /\ ai \in SUBSET (Validators \X Accounts)
      /\ de \in [Accounts -> Accounts \cup {None}]
      /\ bg \in SUBSET (Accounts \X Accounts)
  BY DEF GovStores, DelegatedTo
<1>5. \A w \in Validators, x \in Accounts :
        <<w, x>> \in ai <=> <<w, x>> \in g.activeIndex \/ (a = d /\ x = d /\ s.del[d][w] > 0)
  BY DEF DelegatedTo
<1>6. \A b \in Accounts, w \in Validators :
        vs[b][w] = IF b = a THEN g.valShares[b][w] + del[d][w] ELSE g.valShares[b][w]
  BY DEF GovStores
<1> HIDE DEF r, vs, ai, de, bg
<1>7. /\ r \in GovStores
      /\ r.panicked = g.panicked /\ r.status = g.status /\ r.delegation = de
      /\ r.byGovernor = bg /\ r.activeIndex = ai /\ r.valShares = vs
  BY <1>2, <1>3, <1>4, ZenonT(30) DEF GovStores
<1>8. SharesOK(r, del)
  <2> SUFFICES ASSUME NEW b \in Accounts, NEW w \in Validators
               PROVE  r.valShares[b][w] = SumFunctionOnSet(SharesAt(del, w), Delegators(r, b))
    BY DEF SharesOK
  <2> DEFINE S == Delegators(g, b)
             U == Delegators(r, b)
             f == SharesAt(del, w)
  <2>1. S \in SUBSET Accounts /\ U \in SUBSET Accounts /\ f \in [Accounts -> Int] /\ f[d] = del[d][w]
    BY SharesAtType DEF Delegators
  <2>2. U = IF b = a THEN S \cup {d} ELSE S
    BY <1>7, NoneAssumption DEF Delegators, de, GovStores
  <2>3. d \notin S
    BY NoneAssumption DEF Delegators
  <2>4. g.valShares[b][w] = SumFunctionOnSet(f, S)
    BY SMTT(30) DEF SharesOK
  <2>5. CASE b = a
    <3> HIDE DEF S, U, f
    <3>1. SumFunctionOnSet(f, U) = f[d] + SumFunctionOnSet(f, U \ {d})
      BY <2>1, <2>2, <2>5, SumRemove, FiniteAssumption, SMTT(30)
    <3>2. SumFunctionOnSet(f, U \ {d}) \in Int
      BY <2>1, SumRemove, FiniteAssumption
    <3>3. vs[b][w] = g.valShares[b][w] + del[d][w] /\ del[d][w] \in Nat
      BY <1>1, <1>6, <2>5
    <3>4. U \ {d} = S
      BY <2>2, <2>3, <2>5
    <3>5. SumFunctionOnSet(SharesAt(del, w), Delegators(r, b)) = SumFunctionOnSet(f, U)
      BY DEF U, f
    <3>6. SumFunctionOnSet(f, U \ {d}) = SumFunctionOnSet(f, S)
      BY <3>4, Zenon
    <3>7. r.valShares[b][w] = SumFunctionOnSet(f, S) + f[d]
      BY <1>7, <2>1, <2>4, <3>3, SMTT(30)
    <3>8. f[d] \in Int /\ SumFunctionOnSet(f, S) \in Int
      BY <2>1, <3>2, <3>6
    <3>9. SumFunctionOnSet(f, U) = f[d] + SumFunctionOnSet(f, S)
      BY <3>1, <3>6, Zenon
    <3>10. r.valShares[b][w] = SumFunctionOnSet(f, U)
      BY <3>7, <3>8, <3>9
    <3> QED BY <3>5, <3>10, Zenon
  <2>6. CASE b # a
    BY <1>6, <1>7, <2>2, <2>4, <2>6, SMTT(30)
  <2> QED BY <2>5, <2>6
<1> QED BY <1>5, <1>7, <1>8 DEF NowDelegated, r, de, bg

\* r is g with the governance delegation of d now to a, whatever it was before.
Reassigned(r, g, s, d, a) ==
    /\ r \in GovStores
    /\ r.panicked = g.panicked
    /\ r.status = g.status
    /\ r.delegation = [g.delegation EXCEPT ![d] = a]
    /\ \A x, y \in Accounts : <<x, y>> \in r.byGovernor <=> r.delegation[y] = x
    /\ SharesOK(r, s.del)
    /\ \A w \in Validators, x \in Accounts :
          <<w, x>> \in r.activeIndex <=>
             \/ <<w, x>> \in g.activeIndex /\ ~(g.delegation[d] = d /\ x = d /\ s.del[d][w] > 0)
             \/ a = d /\ x = d /\ s.del[d][w] > 0

\* DelegateToGovernor, or RedelegateToGovernor when d has a governor, moves d to a.
LEMMA Reassignment ==
    ASSUME NEW g, g \in GovStores, NEW s, s.del \in DelType, SharesOK(g, s.del),
           \A x, y \in Accounts : <<x, y>> \in g.byGovernor <=> g.delegation[y] = x,
           NEW d \in Accounts, NEW a \in Accounts
    PROVE  Reassigned(IF g.delegation[d] = None THEN DelegateToGovernor(g, s, d, a)
                                                ELSE RedelegateToGovernor(g, s, d, a), g, s, d, a)
<1> DEFINE h == IF g.delegation[d] = None THEN g ELSE UndelegateFromGovernor(g, s, d)
           r == DelegateToGovernor(h, s, d, a)
<1>1. r = IF g.delegation[d] = None THEN DelegateToGovernor(g, s, d, a)
                                    ELSE RedelegateToGovernor(g, s, d, a)
  BY DEF RedelegateToGovernor
<1>2. g.delegation \in [Accounts -> Accounts \cup {None}]
  BY DEF GovStores
<1>3. /\ h \in GovStores /\ h.panicked = g.panicked /\ h.status = g.status
      /\ h.delegation = [g.delegation EXCEPT ![d] = None]
      /\ SharesOK(h, s.del)
      /\ \A x, y \in Accounts : <<x, y>> \in h.byGovernor <=> g.delegation[y] = x /\ y # d
      /\ \A w \in Validators, x \in Accounts :
            <<w, x>> \in h.activeIndex <=>
               <<w, x>> \in g.activeIndex /\ ~(g.delegation[d] = d /\ x = d /\ s.del[d][w] > 0)
  <2>1. CASE g.delegation[d] = None
    <3>1. h = g
      BY <2>1
    <3>2. g.delegation = [g.delegation EXCEPT ![d] = None]
      BY <1>2, <2>1
    <3> HIDE DEF h
    <3> QED BY <2>1, <3>1, <3>2, NoneAssumption
  <2>2. CASE g.delegation[d] # None
    <3>1. Undelegated(h, g, s, d)
      BY <2>2, UndelegateEffect
    <3> HIDE DEF h
    <3>2. \A x, y \in Accounts : <<x, y>> \in h.byGovernor <=> g.delegation[y] = x /\ y # d
      BY <3>1, ZenonT(30) DEF Undelegated
    <3> QED BY <3>1, <3>2, Zenon DEF Undelegated
  <2> QED BY <2>1, <2>2, Zenon
<1>4. h.delegation[d] = None
  BY <1>2, <1>3
<1>5. NowDelegated(r, h, s, d, a)
  <2> HIDE DEF h
  <2> QED BY <1>3, <1>4, DelegateEffect, ZenonT(30)
<1> HIDE DEF h, r
<1>6. r.delegation = [g.delegation EXCEPT ![d] = a]
  BY <1>2, <1>3, <1>5 DEF NowDelegated
<1>7. ASSUME NEW x \in Accounts, NEW y \in Accounts
      PROVE  <<x, y>> \in r.byGovernor <=> r.delegation[y] = x
  <2>1. <<x, y>> \in r.byGovernor <=> <<x, y>> \in h.byGovernor \/ (x = a /\ y = d)
    BY <1>5 DEF NowDelegated
  <2> QED BY <1>2, <1>3, <1>6, <2>1
<1>8. Reassigned(r, g, s, d, a)
  <2>1. r \in GovStores /\ r.panicked = g.panicked /\ r.status = g.status /\ SharesOK(r, s.del)
    BY <1>3, <1>5 DEF NowDelegated
  <2>2. \A w \in Validators, x \in Accounts :
          <<w, x>> \in r.activeIndex <=>
             \/ <<w, x>> \in g.activeIndex /\ ~(g.delegation[d] = d /\ x = d /\ s.del[d][w] > 0)
             \/ a = d /\ x = d /\ s.del[d][w] > 0
    BY <1>3, <1>5, Zenon DEF NowDelegated
  <2> QED BY <1>6, <1>7, <2>1, <2>2 DEF Reassigned
<1> QED BY <1>1, <1>8
=============================================================================
