-------------------------- MODULE GovernorsProofs --------------------------
(***************************************************************************)
(* The safety invariants of Governors hold for every set of accounts and   *)
(* validators, every precision and every parameter; and from them, the     *)
(* votes on a proposal are counted right.                                  *)
(*                                                                         *)
(* The inductive invariant IInv relates the two keepers.  On the gov side  *)
(* (GInv) the stores did not panic and are linked: the reverse mapping     *)
(* mirrors the delegations, a delegation names an existing governor, an    *)
(* active governor delegates to itself; the shares kept for a governor are *)
(* the sum of its delegators' shares; the index holds the validators of    *)
(* active governors.  On the staking side (SInv) a validator's shares are  *)
(* the sum of its delegations, and its tokens never exceed its shares.     *)
(* The last bound is what rules out a delegation of zero shares, which     *)
(* the hooks could not tell from no delegation.                            *)
(*                                                                         *)
(* The hooks are proved one by one (what each does to the sums and to the  *)
(* index), then keeper.Delegate and keeper.Unbond that call several, then  *)
(* every action of Next.  For the votes, the sum of a governor's shares is *)
(* split into those of its delegators who voted and those who did not.     *)
(* The power of all ballots is bounded validator by validator: the shares  *)
(* behind it are owned once, and every quotient adds half a unit at most.  *)
(* The last section is about TallyOutcome: the averages stay between 0 and *)
(* 1, and comparing rounded quotients is nearly comparing the fractions.   *)
(***************************************************************************)
EXTENDS Tally, TallyOutcome, GovernorKeeperProofs

\* The inductive invariant.
IInv ==
    /\ GInv(gov, stk)
    /\ SInv(stk)
    /\ minSelf \in MinSelfDelegations
    /\ now \in 0 .. MaxTime

\* r is g with the status of a set to b.
Marked(r, g, a, b) ==
    /\ r \in GovStores
    /\ r.panicked = g.panicked
    /\ r.status = [g.status EXCEPT ![a] = b]
    /\ r.delegation = g.delegation
    /\ r.byGovernor = g.byGovernor
    /\ r.valShares = g.valShares
    /\ r.activeIndex = g.activeIndex

\* Writing a governor's status and LastStatusChangeTime changes nothing else.
LEMMA StatusChange ==
    ASSUME NEW g, g \in GovStores, NEW a \in Accounts, NEW b \in GovernorStatus, NEW t \in Nat
    PROVE  Marked([g EXCEPT !.status[a] = b, !.changeTime[a] = t], g, a, b)
<1> DEFINE r == [g EXCEPT !.status[a] = b, !.changeTime[a] = t]
           st == [g.status EXCEPT ![a] = b]
           ct == [g.changeTime EXCEPT ![a] = t]
<1>1. r = [g EXCEPT !.status = st, !.changeTime = ct]
  OBVIOUS
<1>2. st \in [Accounts -> GovernorStatus] /\ ct \in [Accounts -> Nat]
  BY DEF GovStores
<1> HIDE DEF r, st, ct
<1>3. /\ r \in GovStores
      /\ r.panicked = g.panicked /\ r.status = st /\ r.delegation = g.delegation
      /\ r.byGovernor = g.byGovernor /\ r.activeIndex = g.activeIndex /\ r.valShares = g.valShares
  BY <1>1, <1>2, Zenon DEF GovStores
<1> QED BY <1>3 DEF Marked, r, st

\* What the proofs of the actions use of the invariant.
LEMMA TypeFacts ==
    ASSUME IInv
    PROVE  /\ stk \in StakingStores /\ stk.del \in DelType /\ now \in Nat
           /\ gov \in GovStores /\ ~gov.panicked /\ Linked(gov)
           /\ SharesOK(gov, stk.del) /\ IndexOK(gov, stk.del)
BY GovernorsAssumption DEF IInv, SInv, StakingStores, DelType, GInv, Sound

\* A governor that is marked active and delegates to itself.
LEMMA BecomeActive ==
    ASSUME NEW g, NEW s, GInv(g, s), s.del \in DelType, NEW a \in Accounts,
           NEW g1, Marked(g1, g, a, "active"), NEW r, Reassigned(r, g1, s, a, a)
    PROVE  GInv(r, s) /\ IsActive(r, a)
<1>1. /\ g \in GovStores /\ ~g.panicked /\ Linked(g) /\ IndexOK(g, s.del)
      /\ g.status \in [Accounts -> GovernorStatus]
      /\ g.delegation \in [Accounts -> Accounts \cup {None}]
  BY DEF GInv, Sound, GovStores
<1>2. /\ r \in GovStores /\ ~r.panicked /\ SharesOK(r, s.del)
      /\ \A x, y \in Accounts : <<x, y>> \in r.byGovernor <=> r.delegation[y] = x
      /\ \A x \in Accounts : r.status[x] = IF x = a THEN "active" ELSE g.status[x]
      /\ \A x \in Accounts : r.delegation[x] = IF x = a THEN a ELSE g.delegation[x]
  BY <1>1 DEF Marked, Reassigned
<1>3. \A w \in Validators, x \in Accounts :
        <<w, x>> \in r.activeIndex <=>
           \/ <<w, x>> \in g.activeIndex /\ ~(g.delegation[a] = a /\ x = a /\ s.del[a][w] > 0)
           \/ x = a /\ s.del[a][w] > 0
  BY Zenon DEF Marked, Reassigned
<1>4. Linked(r)
  BY <1>1, <1>2 DEF Linked, IsActive
<1>5. IndexOK(r, s.del)
  <2> SUFFICES ASSUME NEW w \in Validators, NEW x \in Accounts
               PROVE  <<w, x>> \in r.activeIndex <=> IsActive(r, x) /\ s.del[x][w] > 0
    BY Zenon DEF IndexOK
  <2>1. <<w, x>> \in g.activeIndex <=> IsActive(g, x) /\ s.del[x][w] > 0
    BY <1>1 DEF IndexOK
  <2>2. CASE x = a
    BY <1>2, <1>3, <2>1, <2>2 DEF IsActive
  <2>3. CASE x # a
    BY <1>2, <1>3, <2>1, <2>3, Zenon DEF IsActive
  <2> QED BY <2>2, <2>3
<1> QED BY <1>2, <1>4, <1>5 DEF GInv, Sound, IsActive

\* MsgCreateGovernor keeps the invariant.
LEMMA CreateGovernorKeeps ==
    ASSUME IInv, NEW a \in Accounts, CreateGovernor(a)
    PROVE  IInv'
<1> DEFINE g1 == [gov EXCEPT !.status[a] = "active", !.changeTime[a] = now]
           r == IF g1.delegation[a] = None THEN DelegateToGovernor(g1, stk, a, a)
                                           ELSE RedelegateToGovernor(g1, stk, a, a)
<1>1. Marked(g1, gov, a, "active")
  BY TypeFacts, StatusChange, Zenon DEF GovernorStatus
<1>2. gov' = r
  BY <1>1 DEF CreateGovernor, Marked
<1>3. Reassigned(r, g1, stk, a, a)
  <2> HIDE DEF g1
  <2>1. g1 \in GovStores /\ SharesOK(g1, stk.del)
    BY <1>1, TypeFacts DEF Marked, SharesOK, Delegators
  <2>2. \A x, y \in Accounts : <<x, y>> \in g1.byGovernor <=> g1.delegation[y] = x
    <3>1. g1.byGovernor = gov.byGovernor /\ g1.delegation = gov.delegation
      BY <1>1 DEF Marked
    <3>2. \A x, y \in Accounts : <<x, y>> \in gov.byGovernor <=> gov.delegation[y] = x
      BY TypeFacts, Zenon DEF Linked
    <3> QED BY <3>1, <3>2, Zenon
  <2> QED BY <2>1, <2>2, TypeFacts, Reassignment, Zenon
<1> HIDE DEF g1, r
<1>4. GInv(r, stk)
  BY <1>1, <1>3, TypeFacts, BecomeActive DEF IInv
<1> QED BY <1>2, <1>4 DEF IInv, CreateGovernor

\* setActiveGovernorIndexEntries completes the index for a governor that became active.
LEMMA SetEntries ==
    ASSUME NEW g, Sound(g), NEW s, s.del \in DelType, SharesOK(g, s.del),
           NEW a \in Accounts, IsActive(g, a),
           \A w \in Validators, x \in Accounts :
              IF x = a THEN <<w, x>> \in g.activeIndex => s.del[x][w] > 0
                       ELSE <<w, x>> \in g.activeIndex <=> IsActive(g, x) /\ s.del[x][w] > 0
    PROVE  GInv(SetActiveGovernorIndexEntries(g, s, a), s)
<1> DEFINE r == SetActiveGovernorIndexEntries(g, s, a)
           ai == g.activeIndex \cup (DelegatedTo(s, a) \X {a})
<1>1. g \in GovStores
  BY DEF Sound
<1>2. ai \in SUBSET (Validators \X Accounts)
  BY <1>1 DEF GovStores, DelegatedTo
<1>3. r = [g EXCEPT !.activeIndex = ai]
  BY DEF SetActiveGovernorIndexEntries
<1>4. \A w \in Validators, x \in Accounts :
        <<w, x>> \in ai <=> <<w, x>> \in g.activeIndex \/ (x = a /\ s.del[x][w] > 0)
  BY Zenon DEF DelegatedTo
<1> HIDE DEF r, ai
<1>5. /\ r \in GovStores
      /\ r.panicked = g.panicked /\ r.status = g.status /\ r.delegation = g.delegation
      /\ r.byGovernor = g.byGovernor /\ r.activeIndex = ai /\ r.valShares = g.valShares
  BY <1>1, <1>2, <1>3, Zenon DEF GovStores
<1>6. Sound(r) /\ SharesOK(r, s.del)
  BY <1>5 DEF Sound, Linked, IsActive, SharesOK, Delegators
<1>7. IndexOK(r, s.del)
  <2> SUFFICES ASSUME NEW w \in Validators, NEW x \in Accounts
               PROVE  <<w, x>> \in r.activeIndex <=> IsActive(r, x) /\ s.del[x][w] > 0
    BY Zenon DEF IndexOK
  <2>1. CASE x = a
    BY <1>4, <1>5, <2>1 DEF IsActive
  <2>2. CASE x # a
    BY <1>4, <1>5, <2>2 DEF IsActive
  <2> QED BY <2>1, <2>2
<1> QED BY <1>6, <1>7 DEF GInv, r

\* MsgUpdateGovernorStatus to active keeps the invariant, from any of the three places the
\* governor's own delegation may be.
LEMMA ActivateGovernorKeeps ==
    ASSUME IInv, NEW a \in Accounts, ActivateGovernor(a)
    PROVE  IInv'
<1> DEFINE g1 == [gov EXCEPT !.status[a] = "active", !.changeTime[a] = now]
           r == IF g1.delegation[a] = None THEN DelegateToGovernor(g1, stk, a, a)
                                           ELSE RedelegateToGovernor(g1, stk, a, a)
           h == IF gov.delegation[a] = a THEN g1 ELSE r
<1>1. Marked(g1, gov, a, "active")
  BY TypeFacts, StatusChange, Zenon DEF GovernorStatus
<1>2. gov' = SetActiveGovernorIndexEntries(h, stk, a)
  <2>1. g1.delegation = gov.delegation
    BY <1>1 DEF Marked
  <2>2. gov' = SetActiveGovernorIndexEntries(
                 CASE gov.delegation[a] = None -> DelegateToGovernor(g1, stk, a, a)
                   [] gov.delegation[a] \notin {None, a} -> RedelegateToGovernor(g1, stk, a, a)
                   [] gov.delegation[a] = a -> g1, stk, a)
    BY DEF ActivateGovernor
  <2> HIDE DEF g1
  <2> QED BY <2>1, <2>2, NoneAssumption
<1>3. gov.status[a] = "inactive" /\ ~IsActive(gov, a)
  BY DEF ActivateGovernor, IsActive
<1> HIDE DEF g1
<1>4. /\ Sound(h) /\ SharesOK(h, stk.del) /\ IsActive(h, a)
      /\ \A w \in Validators, x \in Accounts :
            IF x = a THEN <<w, x>> \in h.activeIndex => stk.del[x][w] > 0
                     ELSE <<w, x>> \in h.activeIndex <=> IsActive(h, x) /\ stk.del[x][w] > 0
  <2>0. g1 \in GovStores /\ SharesOK(g1, stk.del)
    BY <1>1, TypeFacts DEF Marked, SharesOK, Delegators
  <2>1. CASE gov.delegation[a] = a
    <3>1. h = g1
      BY <2>1
    <3>2. \A x \in Accounts : g1.status[x] = IF x = a THEN "active" ELSE gov.status[x]
      BY <1>1, TypeFacts DEF Marked, GovStores
    <3>3. Sound(g1)
      <4>1. ~g1.panicked /\ g1.delegation = gov.delegation /\ g1.byGovernor = gov.byGovernor
        BY <1>1, TypeFacts DEF Marked
      <4>2. gov.delegation \in [Accounts -> Accounts \cup {None}]
        BY TypeFacts DEF GovStores
      <4>3. Linked(g1)
        BY <2>1, <3>2, <4>1, <4>2, TypeFacts DEF Linked, IsActive
      <4> QED BY <2>0, <4>1, <4>3 DEF Sound
    <3>4. g1.activeIndex = gov.activeIndex
      BY <1>1 DEF Marked
    <3> HIDE DEF h
    <3>5. \A w \in Validators, x \in Accounts :
            IF x = a THEN <<w, x>> \in h.activeIndex => stk.del[x][w] > 0
                     ELSE <<w, x>> \in h.activeIndex <=> IsActive(h, x) /\ stk.del[x][w] > 0
      BY <1>3, <3>1, <3>2, <3>4, TypeFacts, Zenon DEF IndexOK, IsActive
    <3> QED BY <2>0, <3>1, <3>2, <3>3, <3>5, Zenon DEF IsActive
  <2>2. CASE gov.delegation[a] # a
    <3>1. Reassigned(r, g1, stk, a, a)
      <4>1. \A x, y \in Accounts : <<x, y>> \in g1.byGovernor <=> g1.delegation[y] = x
        <5>1. g1.byGovernor = gov.byGovernor /\ g1.delegation = gov.delegation
          BY <1>1 DEF Marked
        <5>2. \A x, y \in Accounts : <<x, y>> \in gov.byGovernor <=> gov.delegation[y] = x
          BY TypeFacts, Zenon DEF Linked
        <5> QED BY <5>1, <5>2, Zenon
      <4> QED BY <2>0, <4>1, TypeFacts, Reassignment, SMTT(30)
    <3> HIDE DEF r
    <3>2. GInv(r, stk) /\ IsActive(r, a)
      BY <1>1, <3>1, TypeFacts, BecomeActive DEF IInv
    <3>3. h = r
      BY <2>2
    <3> HIDE DEF h
    <3> QED BY <3>2, <3>3 DEF GInv, IndexOK
  <2> QED BY <2>1, <2>2, Zenon
<1> HIDE DEF h
<1>5. GInv(gov', stk)
  BY <1>2, <1>4, TypeFacts, SetEntries, Zenon
<1> QED BY <1>5 DEF IInv, ActivateGovernor

\* Deactivating governors keeps the invariant of the gov stores.
LEMMA DeactivatedKeeps ==
    ASSUME NEW g, NEW s, GInv(g, s), NEW G \in SUBSET Accounts, NEW r, Deactivated(r, g, s, G)
    PROVE  GInv(r, s)
<1>1. Sound(r) /\ r.delegation = g.delegation /\ r.valShares = g.valShares
  BY DEF Deactivated
<1>2. SharesOK(r, s.del)
  BY <1>1 DEF GInv, SharesOK, Delegators
<1>3. IndexOK(r, s.del)
  BY Zenon DEF GInv, Deactivated, IndexOK
<1> QED BY <1>1, <1>2, <1>3 DEF GInv

\* MsgUpdateGovernorStatus to inactive keeps the invariant.
LEMMA DeactivateGovernorKeeps ==
    ASSUME IInv, NEW a \in Accounts, DeactivateGovernor(a)
    PROVE  IInv'
<1> DEFINE g1 == [gov EXCEPT !.status[a] = "inactive", !.changeTime[a] = now]
           ai == gov.activeIndex \ (DelegatedTo(stk, a) \X {a})
           r == RemoveActiveGovernorIndexEntries(g1, stk, a)
<1>1. Marked(g1, gov, a, "inactive")
  BY TypeFacts, StatusChange, Zenon DEF GovernorStatus
<1>2. gov' = r /\ gov.status[a] = "active"
  BY DEF DeactivateGovernor
<1>3. r = [g1 EXCEPT !.activeIndex = ai]
  BY <1>1 DEF RemoveActiveGovernorIndexEntries, Marked
<1>4. ai \in SUBSET (Validators \X Accounts)
  BY TypeFacts DEF GovStores
<1>5. \A w \in Validators, x \in Accounts :
        <<w, x>> \in ai <=> <<w, x>> \in gov.activeIndex /\ ~(x \in {a} /\ stk.del[x][w] > 0)
  BY DEF DelegatedTo
<1> HIDE DEF g1, ai, r
<1>6. /\ r \in GovStores
      /\ r.panicked = gov.panicked /\ r.status = g1.status /\ r.delegation = gov.delegation
      /\ r.byGovernor = gov.byGovernor /\ r.activeIndex = ai /\ r.valShares = gov.valShares
  BY <1>1, <1>3, <1>4, Zenon DEF GovStores, Marked
<1>7. \A x \in Accounts : r.status[x] = IF x = a THEN "inactive" ELSE gov.status[x]
  BY <1>1, <1>6, TypeFacts DEF Marked, GovStores
<1>8. Sound(r)
  <2>1. \A x, y \in Accounts : <<x, y>> \in r.byGovernor <=> r.delegation[y] = x
    <3>1. \A x, y \in Accounts : <<x, y>> \in gov.byGovernor <=> gov.delegation[y] = x
      BY TypeFacts, Zenon DEF Linked
    <3>2. r.byGovernor = gov.byGovernor /\ r.delegation = gov.delegation
      BY <1>6
    <3> QED BY <3>1, <3>2, Zenon
  <2>2. gov.delegation \in [Accounts -> Accounts \cup {None}]
    BY TypeFacts DEF GovStores
  <2>3. Linked(r)
    BY <1>2, <1>6, <1>7, <2>1, <2>2, TypeFacts DEF Linked, IsActive
  <2> QED BY <1>6, <2>3, TypeFacts DEF Sound
<1>9. Deactivated(r, gov, stk, {a})
  BY <1>5, <1>6, <1>7, <1>8 DEF Deactivated, IsActive
<1>10. GInv(r, stk)
  BY <1>9, DeactivatedKeeps DEF IInv
<1> QED BY <1>2, <1>10 DEF IInv, DeactivateGovernor

\* MsgDelegateGovernor keeps the invariant.
LEMMA DelegateGovernorKeeps ==
    ASSUME IInv, NEW d \in Accounts, NEW a \in Accounts, DelegateGovernor(d, a)
    PROVE  IInv'
<1> DEFINE r == IF gov.delegation[d] = None THEN DelegateToGovernor(gov, stk, d, a)
                                            ELSE RedelegateToGovernor(gov, stk, d, a)
<1>1. gov' = r /\ ~IsActive(gov, d) /\ IsActive(gov, a) /\ a # d
  BY DEF DelegateGovernor
<1>2. Reassigned(r, gov, stk, d, a)
  BY TypeFacts, Reassignment, Zenon DEF Linked
<1> HIDE DEF r
<1>3. gov.delegation \in [Accounts -> Accounts \cup {None}]
  BY TypeFacts DEF GovStores
<1>4. r \in GovStores /\ ~r.panicked /\ r.status = gov.status /\ SharesOK(r, stk.del)
  BY <1>2, TypeFacts, Zenon DEF Reassigned
<1>5. \A x \in Accounts : r.delegation[x] = IF x = d THEN a ELSE gov.delegation[x]
  BY <1>2, <1>3 DEF Reassigned
<1>6. Linked(r)
  BY <1>1, <1>2, <1>3, <1>4, <1>5, TypeFacts, ZenonT(30) DEF Linked, IsActive, Reassigned
<1>7. IndexOK(r, stk.del)
  <2> SUFFICES ASSUME NEW w \in Validators, NEW x \in Accounts
               PROVE  <<w, x>> \in r.activeIndex <=> IsActive(r, x) /\ stk.del[x][w] > 0
    BY Zenon DEF IndexOK
  <2>1. <<w, x>> \in r.activeIndex <=>
           <<w, x>> \in gov.activeIndex /\ ~(gov.delegation[d] = d /\ x = d /\ stk.del[d][w] > 0)
    BY <1>1, <1>2 DEF Reassigned
  <2>2. <<w, x>> \in gov.activeIndex <=> IsActive(gov, x) /\ stk.del[x][w] > 0
    BY TypeFacts DEF IndexOK
  <2> QED BY <1>1, <1>4, <2>1, <2>2, Zenon DEF IsActive
<1>8. GInv(r, stk)
  BY <1>4, <1>6, <1>7, SMTT(30) DEF GInv, Sound
<1> QED BY <1>1, <1>8 DEF IInv, DelegateGovernor

\* MsgUndelegateGovernor keeps the invariant: the governor it removes has no delegator
\* left, and neither of its two panics is reached.
LEMMA UndelegateGovernorKeeps ==
    ASSUME IInv, NEW d \in Accounts, UndelegateGovernor(d)
    PROVE  IInv'
<1> DEFINE a == gov.delegation[d]
           u == UndelegateFromGovernor(gov, stk, d)
           abandoned == gov.status[a] = "inactive" /\ \A x \in Accounts : <<a, x>> \notin u.byGovernor
<1>1. gov.delegation \in [Accounts -> Accounts \cup {None}] /\ gov.status \in [Accounts -> GovernorStatus]
  BY TypeFacts DEF GovStores
<1>2. a \in Accounts /\ ~IsActive(gov, d) /\ gov.status[a] # "none"
  BY <1>1, TypeFacts DEF UndelegateGovernor, Linked
<1>3. gov' = IF abandoned THEN [u EXCEPT !.status[a] = "none"] ELSE u
  BY <1>2 DEF UndelegateGovernor
<1>4. Undelegated(u, gov, stk, d)
  BY <1>2, TypeFacts, UndelegateEffect, NoneAssumption, Zenon
<1>5. PICK r : r = IF abandoned THEN [u EXCEPT !.status[a] = "none"] ELSE u
  BY Zenon
<1> HIDE DEF u
<1>6. /\ u \in GovStores /\ u.panicked = gov.panicked /\ u.status = gov.status
      /\ u.delegation = [gov.delegation EXCEPT ![d] = None]
      /\ SharesOK(u, stk.del)
  BY <1>4, Zenon DEF Undelegated
<1>7. \A x, y \in Accounts : <<x, y>> \in u.byGovernor <=> gov.delegation[y] = x /\ y # d
  <2>1. \A x, y \in Accounts : <<x, y>> \in gov.byGovernor <=> gov.delegation[y] = x
    BY TypeFacts, Zenon DEF Linked
  <2> QED BY <1>2, <1>4, <2>1, Zenon DEF Undelegated
<1>8. /\ r \in GovStores /\ r.panicked = u.panicked /\ r.delegation = u.delegation
      /\ r.byGovernor = u.byGovernor /\ r.valShares = u.valShares /\ r.activeIndex = u.activeIndex
      /\ \A x \in Accounts : r.status[x] = IF abandoned /\ x = a THEN "none" ELSE gov.status[x]
  <2>1. CASE abandoned
    <3> DEFINE st == [u.status EXCEPT ![a] = "none"]
    <3>1. r = [u EXCEPT !.status = st]
      BY <1>5, <2>1
    <3>2. st \in [Accounts -> GovernorStatus] /\ \A x \in Accounts : st[x] = IF x = a THEN "none" ELSE gov.status[x]
      BY <1>1, <1>6, Zenon DEF GovernorStatus
    <3> HIDE DEF st
    <3>3. /\ r \in GovStores /\ r.panicked = u.panicked /\ r.delegation = u.delegation
          /\ r.byGovernor = u.byGovernor /\ r.valShares = u.valShares /\ r.activeIndex = u.activeIndex
          /\ r.status = st
      BY <1>6, <3>1, <3>2, ZenonT(30) DEF GovStores
    <3> HIDE DEF abandoned
    <3> QED BY <2>1, <3>2, <3>3
  <2>2. CASE ~abandoned
    BY <1>5, <1>6, <2>2
  <2> QED BY <2>1, <2>2, Zenon
<1>9. \A x \in Accounts : r.delegation[x] = IF x = d THEN None ELSE gov.delegation[x]
  BY <1>1, <1>6, <1>8
<1>10. \A x, y \in Accounts : <<x, y>> \in r.byGovernor <=> r.delegation[y] = x
  <2> SUFFICES ASSUME NEW x \in Accounts, NEW y \in Accounts
               PROVE  <<x, y>> \in r.byGovernor <=> r.delegation[y] = x
    BY Zenon
  <2>1. r.byGovernor = u.byGovernor
    BY <1>8
  <2>2. <<x, y>> \in r.byGovernor <=> gov.delegation[y] = x /\ y # d
    BY <1>7, <2>1
  <2> QED BY <1>9, <2>2, NoneAssumption, Zenon
<1>11. \A x \in Accounts : IsActive(r, x) <=> IsActive(gov, x)
  BY <1>8 DEF IsActive
<1>12. Linked(r)
  <2>1. ASSUME NEW x \in Accounts, r.delegation[x] # None
        PROVE  r.status[r.delegation[x]] # "none"
    <3>1. x # d /\ r.delegation[x] = gov.delegation[x] /\ gov.delegation[x] \in Accounts
      BY <1>1, <1>9, <2>1
    <3>2. gov.status[gov.delegation[x]] # "none"
      BY <2>1, <3>1, TypeFacts DEF Linked
    <3>3. abandoned => gov.delegation[x] # a
      BY <1>2, <1>7, <3>1, Zenon
    <3> QED BY <1>8, <3>1, <3>2, <3>3, Zenon
  <2>2. ASSUME NEW x \in Accounts, IsActive(r, x)
        PROVE  r.delegation[x] = x
    BY <1>2, <1>9, <1>11, <2>2, TypeFacts DEF Linked
  <2> QED BY <1>10, <2>1, <2>2 DEF Linked
<1>13. IndexOK(r, stk.del)
  <2> SUFFICES ASSUME NEW w \in Validators, NEW x \in Accounts
               PROVE  <<w, x>> \in r.activeIndex <=> IsActive(r, x) /\ stk.del[x][w] > 0
    BY Zenon DEF IndexOK
  <2>1. <<w, x>> \in u.activeIndex <=>
           <<w, x>> \in gov.activeIndex /\ ~(gov.delegation[d] = d /\ x = d /\ stk.del[d][w] > 0)
    BY <1>4 DEF Undelegated
  <2>2. <<w, x>> \in gov.activeIndex <=> IsActive(gov, x) /\ stk.del[x][w] > 0
    BY TypeFacts, Zenon DEF IndexOK
  <2>3. <<w, x>> \in r.activeIndex <=> <<w, x>> \in u.activeIndex
    BY <1>8
  <2> QED BY <1>2, <1>11, <2>1, <2>2, <2>3
<1>14. SharesOK(r, stk.del)
  BY <1>6, <1>8 DEF SharesOK, Delegators
<1>15. GInv(r, stk)
  BY <1>6, <1>8, <1>12, <1>13, <1>14, TypeFacts, Zenon DEF GInv, Sound
<1> QED BY <1>3, <1>5, <1>15 DEF IInv, UndelegateGovernor

\* A governor the index names exists, is active and has stake at the validator, and no
\* active governor lacks its self-delegation: the hooks that walk the index do not panic.
LEMMA VisitedAreSound ==
    ASSUME NEW g, NEW s, GInv(g, s), NEW v \in Validators
    PROVE  /\ \A a \in Indexed(g, v) : /\ a \in Accounts /\ g.status[a] # "none"
                                       /\ s.del[a][v] > 0 /\ IsActive(g, a)
           /\ \A a \in Accounts : ~SelfDelegationMissing(g, a)
BY Zenon DEF GInv, Sound, IndexOK, Linked, Indexed, SelfDelegationMissing, IsActive

\* BeforeValidatorSlashed keeps the invariant, whatever fraction is slashed.
LEMMA SlashHook ==
    ASSUME NEW g, NEW s, GInv(g, s), NEW v \in Validators, s.del \in DelType,
           NEW fraction, NEW m, NEW t \in Nat
    PROVE  GInv(BeforeValidatorSlashed(g, s, v, fraction, m, t), s)
<1> DEFINE visited == {a \in Indexed(g, v) : IsActive(g, a)}
           postSlashBonded(a) == GetGovernorBondedTokens(s, a)
                                   - TruncateInt(Mul(BondedWorth(s, a, v), fraction))
           G == {a \in visited : ~ValidateMinSelfDelegation(g, a, postSlashBonded(a), m)}
           r == BeforeValidatorSlashed(g, s, v, fraction, m, t)
<1>1. G \in SUBSET Accounts /\ \A a \in G : IsActive(g, a)
  BY VisitedAreSound, Zenon
<1>2. \A a \in visited : s.del[a][v] # 0 /\ ~SelfDelegationMissing(g, a)
  <2> TAKE a \in visited
  <2>1. a \in Accounts /\ s.del[a][v] > 0 /\ ~SelfDelegationMissing(g, a)
    BY VisitedAreSound, Zenon
  <2> QED BY <2>1 DEF DelType
<1>3. r = IF s.shares[v] = 0 THEN g ELSE SetGovernorsInactive(g, s, G, t)
  <2>1. \A a \in Indexed(g, v) : g.status[a] # "none"
    BY VisitedAreSound, Zenon
  <2>2. r = CASE s.shares[v] = 0 -> g
              [] s.shares[v] # 0 /\ ( \/ \E a \in Indexed(g, v) : g.status[a] = "none"
                                      \/ \E a \in visited : s.del[a][v] = 0 \/ SelfDelegationMissing(g, a) ) ->
                   Panic(g)
              [] OTHER -> SetGovernorsInactive(g, s, G, t)
    BY DEF BeforeValidatorSlashed
  <2> HIDE DEF r, G, visited
  <2> QED BY <1>2, <2>1, <2>2
<1> HIDE DEF G, visited, r
<1>4. GInv(SetGovernorsInactive(g, s, G, t), s)
  <2>1. Deactivated(SetGovernorsInactive(g, s, G, t), g, s, G)
    BY <1>1, SetInactive DEF GInv
  <2> QED BY <1>1, <2>1, DeactivatedKeeps
<1>5. GInv(r, s)
  BY <1>3, <1>4, Zenon
<1> QED BY <1>5 DEF r

\* AfterValidatorBeginUnbonding keeps the invariant.
LEMMA UnbondingHook ==
    ASSUME NEW g, NEW s, GInv(g, s), NEW v \in Validators, NEW m, NEW t \in Nat
    PROVE  GInv(AfterValidatorBeginUnbonding(g, s, v, m, t), s)
<1> DEFINE visited == {a \in Indexed(g, v) : IsActive(g, a)}
           G == {a \in visited : ~ValidateMinSelfDelegation(g, a, GetGovernorBondedTokens(s, a), m)}
           r == AfterValidatorBeginUnbonding(g, s, v, m, t)
<1>1. G \in SUBSET Accounts /\ \A a \in G : IsActive(g, a)
  BY VisitedAreSound, Zenon
<1>2. /\ \A a \in visited : ~SelfDelegationMissing(g, a)
      /\ \A a \in Indexed(g, v) : g.status[a] # "none"
  BY VisitedAreSound
<1>3. r = SetGovernorsInactive(g, s, G, t)
  BY <1>2 DEF AfterValidatorBeginUnbonding
<1> HIDE DEF G, visited, r
<1>4. GInv(r, s)
  <2>1. Deactivated(r, g, s, G)
    BY <1>1, <1>3, SetInactive DEF GInv
  <2> QED BY <1>1, <2>1, DeactivatedKeeps
<1> QED BY <1>4 DEF r

\* The governors' stores depend on the delegations only.
LEMMA SameDelegations ==
    ASSUME NEW g, NEW s, GInv(g, s), NEW s2, s2.del = s.del
    PROVE  GInv(g, s2)
BY DEF GInv

\* A validator's bond status may change as long as it loses its record only without shares.
LEMMA StatusKeeps ==
    ASSUME NEW s, SInv(s), NEW v \in Validators, NEW b \in BondStatus,
           b = "none" => s.shares[v] = 0
    PROVE  LET r == [s EXCEPT !.status[v] = b]
           IN  /\ SInv(r)
               /\ r.del = s.del /\ r.tokens = s.tokens /\ r.shares = s.shares
               /\ r.status[v] = b
               /\ \A w \in Validators \ {v} : r.status[w] = s.status[w]
<1> DEFINE st == [s.status EXCEPT ![v] = b]
           r == [s EXCEPT !.status[v] = b]
<1>1. r = [s EXCEPT !.status = st] /\ s \in StakingStores
  BY DEF SInv
<1>2. st \in [Validators -> BondStatus] /\ \A w \in Validators : st[w] = IF w = v THEN b ELSE s.status[w]
  BY <1>1 DEF StakingStores
<1> HIDE DEF st, r
<1>3. /\ r \in StakingStores /\ r.status = st
      /\ r.del = s.del /\ r.tokens = s.tokens /\ r.shares = s.shares
  BY <1>1, <1>2 DEF StakingStores
<1>4. SInv(r)
  BY <1>2, <1>3 DEF SInv
<1> QED BY <1>2, <1>3, <1>4 DEF r

\* MsgCreateValidator keeps the invariant.
LEMMA CreateValidatorKeeps ==
    ASSUME IInv, NEW d \in Accounts, NEW v \in Validators, NEW amt \in Amounts, CreateValidator(d, v, amt)
    PROVE  IInv'
<1> DEFINE created == [stk EXCEPT !.status[v] = "unbonded"]
           r == DelegateShares(gov, created, d, v, amt)
<1>1. gov' = r.gov /\ stk' = r.stk /\ stk.status[v] = "none" /\ minSelf' = minSelf /\ now' = now
  BY DEF CreateValidator
<1>2. /\ SInv(created) /\ created.status[v] = "unbonded" /\ created.del = stk.del
      /\ created.shares = stk.shares
  <2>1. "unbonded" \in BondStatus /\ "unbonded" # "none" /\ SInv(stk)
    BY DEF BondStatus, IInv
  <2> QED BY <2>1, StatusKeeps
<1>3. ~InvalidExRate(created, v)
  BY <1>1, <1>2 DEF IInv, SInv, InvalidExRate
<1>4. amt \in Nat \ {0}
  BY GovernorsAssumption
<1> HIDE DEF created
<1>5. GInv(gov, created)
  BY <1>2, SameDelegations DEF IInv
<1>6. GInv(r.gov, r.stk) /\ SInv(r.stk)
  BY <1>2, <1>3, <1>4, <1>5, TypeFacts, DelegatePreserves, Zenon
<1> HIDE DEF r
<1> QED BY <1>1, <1>6 DEF IInv

\* MsgDelegate keeps the invariant.
LEMMA DelegateKeeps ==
    ASSUME IInv, NEW d \in Accounts, NEW v \in Validators, NEW amt \in Amounts, Delegate(d, v, amt)
    PROVE  IInv'
<1> DEFINE r == DelegateShares(gov, stk, d, v, amt)
<1>1. /\ gov' = r.gov /\ stk' = r.stk /\ stk.status[v] # "none" /\ minSelf' = minSelf /\ now' = now
      /\ ~InvalidExRate(stk, v)
  BY Zenon DEF Delegate
<1>2. amt \in Nat \ {0}
  BY GovernorsAssumption
<1>3. GInv(r.gov, r.stk) /\ SInv(r.stk)
  BY <1>1, <1>2, TypeFacts, DelegatePreserves, Zenon DEF IInv
<1> HIDE DEF r
<1> QED BY <1>1, <1>3 DEF IInv

\* MsgUndelegate keeps the invariant.
LEMMA UndelegateKeeps ==
    ASSUME IInv, NEW d \in Accounts, NEW v \in Validators, NEW amt \in Amounts, Undelegate(d, v, amt)
    PROVE  IInv'
<1>1. PICK shares \in UnbondableShares(d, v, amt) :
        LET r == UnbondShares(gov, stk, d, v, shares)
        IN  gov' = r.gov /\ stk' = r.stk /\ minSelf' = minSelf /\ now' = now
  BY DEF Undelegate
<1>2. shares \in Nat /\ shares <= stk.del[d][v] /\ stk.del[d][v] > 0
  BY TypeFacts DEF UnbondableShares, DelType
<1> DEFINE r == UnbondShares(gov, stk, d, v, shares)
<1>3. GInv(r.gov, r.stk) /\ SInv(r.stk)
  BY <1>2, TypeFacts, UnbondPreserves, Zenon DEF IInv
<1>4. gov' = r.gov /\ stk' = r.stk /\ minSelf' = minSelf /\ now' = now
  BY <1>1
<1> HIDE DEF r
<1> QED BY <1>3, <1>4 DEF IInv

\* MsgBeginRedelegate, an Unbond followed by a Delegate, keeps the invariant.
LEMMA BeginRedelegateKeeps ==
    ASSUME IInv, NEW d \in Accounts, NEW v \in Validators, NEW dst \in Validators, NEW amt \in Amounts,
           BeginRedelegate(d, v, dst, amt)
    PROVE  IInv'
<1>1. PICK shares \in UnbondableShares(d, v, amt) :
        LET u == UnbondShares(gov, stk, d, v, shares)
            r == DelegateShares(u.gov, u.stk, d, dst, u.amount)
        IN  /\ v # dst /\ stk.status[dst] # "none" /\ u.amount > 0 /\ ~InvalidExRate(stk, dst)
            /\ gov' = r.gov /\ stk' = r.stk /\ minSelf' = minSelf /\ now' = now
  BY Zenon DEF BeginRedelegate
<1>2. shares \in Nat /\ shares <= stk.del[d][v] /\ stk.del[d][v] > 0
  BY TypeFacts, SMTT(30) DEF UnbondableShares, DelType
<1> DEFINE u == UnbondShares(gov, stk, d, v, shares)
           r == DelegateShares(u.gov, u.stk, d, dst, u.amount)
<1>3. /\ GInv(u.gov, u.stk) /\ SInv(u.stk) /\ u.amount \in Nat
      /\ \A w \in Validators \ {v} : /\ u.stk.status[w] = stk.status[w]
                                     /\ u.stk.tokens[w] = stk.tokens[w]
                                     /\ u.stk.shares[w] = stk.shares[w]
  <2>1. GInv(gov, stk) /\ SInv(stk) /\ now \in Nat
    BY TypeFacts, Zenon DEF IInv
  <2> QED BY <1>2, <2>1, UnbondPreserves, SMTT(30)
<1>4. /\ v # dst /\ stk.status[dst] # "none" /\ u.amount > 0 /\ ~InvalidExRate(stk, dst)
      /\ gov' = r.gov /\ stk' = r.stk /\ minSelf' = minSelf /\ now' = now
  BY <1>1, ZenonT(30)
<1> HIDE DEF u
<1>5. u.amount \in Nat \ {0} /\ u.stk.status[dst] # "none" /\ ~InvalidExRate(u.stk, dst)
  BY <1>3, <1>4 DEF InvalidExRate
<1>6. GInv(r.gov, r.stk) /\ SInv(r.stk)
  BY <1>3, <1>5, TypeFacts, DelegatePreserves, Zenon
<1> HIDE DEF r
<1> QED BY <1>4, <1>6 DEF IInv

\* SlashRedelegation keeps the invariant.
LEMMA SlashRedelegationKeeps ==
    ASSUME IInv, NEW d \in Accounts, NEW v \in Validators, NEW dst \in Nat, SlashRedelegation(d, v, dst)
    PROVE  IInv'
<1> DEFINE slashed == Mul(SlashFactor, dst)
           k == stk.del[d][v]
           shares == Min({slashed, k})
           r == UnbondShares(gov, stk, d, v, shares)
<1>1. /\ gov' = r.gov /\ stk' = r.stk /\ minSelf' = minSelf /\ now' = now /\ shares > 0
  BY Zenon DEF SlashRedelegation
<1>2. slashed \in Int /\ k \in Nat
  <2>1. Precision \in Nat \ {0} /\ SlashFactor \in Nat
    BY PrecisionAssumption, GovernorsAssumption
  <2>2. SlashFactor * dst \in Int
    BY <2>1
  <2> QED BY <2>1, <2>2, TypeFacts DEF DelType, Mul, ChopPrecisionAndRound
<1> HIDE DEF slashed, k
<1>3. shares = IF slashed <= k THEN slashed ELSE k
  BY <1>2 DEF Min
<1>4. shares \in Nat /\ shares <= k /\ k > 0
  <2> HIDE DEF shares
  <2> QED BY <1>1, <1>2, <1>3
<1> HIDE DEF shares
<1>5. GInv(r.gov, r.stk) /\ SInv(r.stk)
  BY <1>4, TypeFacts, UnbondPreserves, Zenon DEF IInv, k
<1> HIDE DEF r
<1> QED BY <1>1, <1>5 DEF IInv

\* Slash keeps the invariant: it takes tokens and leaves the shares.
LEMMA SlashKeeps ==
    ASSUME IInv, NEW v \in Validators, NEW tokens \in Amounts, Slash(v, tokens)
    PROVE  IInv'
<1> DEFINE fraction == QuoRoundUp(NewDecFromInt(tokens), NewDecFromInt(stk.tokens[v]))
           r == BeforeValidatorSlashed(gov, stk, v, fraction, minSelf, now)
           tk == [stk.tokens EXCEPT ![v] = @ - tokens]
           s == [stk EXCEPT !.tokens[v] = @ - tokens]
<1>1. /\ gov' = r /\ stk' = s /\ minSelf' = minSelf /\ now' = now /\ tokens <= stk.tokens[v]
  BY DEF Slash
<1>2. GInv(r, stk)
  <2> HIDE DEF fraction
  <2> QED BY TypeFacts, SlashHook DEF IInv
<1>3. tokens \in Nat \ {0} /\ stk.tokens \in [Validators -> Nat] /\ stk.shares \in [Validators -> Nat]
  BY GovernorsAssumption, TypeFacts DEF StakingStores
<1>4. tk \in [Validators -> Nat] /\ \A w \in Validators : tk[w] <= stk.tokens[w]
  BY <1>1, <1>3
<1>5. s = [stk EXCEPT !.tokens = tk]
  OBVIOUS
<1> HIDE DEF s, r, tk
<1>6. s \in StakingStores /\ s.tokens = tk /\ s.del = stk.del /\ s.shares = stk.shares /\ s.status = stk.status
  BY <1>4, <1>5, TypeFacts DEF StakingStores
<1>7. SInv(s)
  <2> SUFFICES ASSUME NEW w \in Validators
               PROVE  /\ s.shares[w] = SumFunctionOnSet(SharesAt(s.del, w), Accounts)
                      /\ s.status[w] = "none" => s.shares[w] = 0
                      /\ s.tokens[w] <= s.shares[w]
    BY <1>6 DEF SInv
  <2>1. /\ stk.shares[w] = SumFunctionOnSet(SharesAt(stk.del, w), Accounts)
        /\ stk.status[w] = "none" => stk.shares[w] = 0
        /\ stk.tokens[w] <= stk.shares[w]
    BY DEF IInv, SInv
  <2>2. s.tokens[w] <= s.shares[w]
    BY <1>3, <1>4, <1>6, <2>1
  <2> QED BY <1>6, <2>1, <2>2
<1>8. GInv(r, s)
  BY <1>2, <1>6, SameDelegations
<1> QED BY <1>1, <1>7, <1>8, Zenon DEF IInv

\* The validator state changes of the staking end blocker keep the invariant.
LEMMA BondStatusKeeps ==
    ASSUME IInv, NEW v \in Validators,
           BondValidator(v) \/ BeginUnbondingValidator(v) \/ CompleteUnbondingValidator(v)
    PROVE  IInv'
<1>1. CASE BondValidator(v)
  <2> DEFINE s == [stk EXCEPT !.status[v] = "bonded"]
  <2>1. gov' = gov /\ stk' = s /\ minSelf' = minSelf /\ now' = now
    BY <1>1 DEF BondValidator
  <2>2. SInv(s) /\ s.del = stk.del
    BY StatusKeeps, Zenon DEF BondStatus, IInv
  <2> HIDE DEF s
  <2>3. GInv(gov, s)
    BY <2>2, SameDelegations DEF IInv
  <2> QED BY <2>1, <2>2, <2>3 DEF IInv
<1>2. CASE BeginUnbondingValidator(v)
  <2> DEFINE s == [stk EXCEPT !.status[v] = "unbonding"]
             r == AfterValidatorBeginUnbonding(gov, s, v, minSelf, now)
  <2>1. gov' = r /\ stk' = s /\ minSelf' = minSelf /\ now' = now
    BY <1>2 DEF BeginUnbondingValidator
  <2>2. SInv(s) /\ s.del = stk.del
    BY StatusKeeps, Zenon DEF BondStatus, IInv
  <2> HIDE DEF s
  <2>3. GInv(gov, s)
    BY <2>2, SameDelegations DEF IInv
  <2>4. GInv(r, s)
    BY <2>3, UnbondingHook, TypeFacts
  <2> HIDE DEF r
  <2> QED BY <2>1, <2>2, <2>4 DEF IInv
<1>3. CASE CompleteUnbondingValidator(v)
  <2> DEFINE b == IF stk.shares[v] = 0 THEN "none" ELSE "unbonded"
             s == [stk EXCEPT !.status[v] = b]
  <2>1. gov' = gov /\ stk' = s /\ minSelf' = minSelf /\ now' = now
    BY <1>3 DEF CompleteUnbondingValidator
  <2>2. b \in BondStatus /\ (b = "none" => stk.shares[v] = 0)
    BY DEF BondStatus
  <2> HIDE DEF b
  <2>3. SInv(s) /\ s.del = stk.del
    BY <2>2, StatusKeeps DEF IInv
  <2> HIDE DEF s
  <2>4. GInv(gov, s)
    BY <2>3, SameDelegations DEF IInv
  <2> QED BY <2>1, <2>3, <2>4 DEF IInv
<1> QED BY <1>1, <1>2, <1>3

\* The empty stores satisfy the invariant.
LEMMA InitEstablishes == Init => IInv
<1> SUFFICES ASSUME Init PROVE IInv
  OBVIOUS
<1>1. gov \in GovStores /\ stk \in StakingStores
  BY GovernorsAssumption, Zenon DEF Init, GovStores, StakingStores, GovernorStatus, BondStatus
<1>2. Sound(gov)
  BY <1>1, NoneAssumption DEF Init, Sound, Linked, IsActive
<1>3. ASSUME NEW v \in Validators, NEW S \in SUBSET Accounts
      PROVE  SumFunctionOnSet(SharesAt(stk.del, v), S) = 0
  <2>1. SharesAt(stk.del, v) \in [Accounts -> Int] /\ \A d \in Accounts : SharesAt(stk.del, v)[d] = 0
    BY DEF Init, SharesAt
  <2> QED BY <2>1, FiniteAssumption, SumOfZeros
<1>4. SharesOK(gov, stk.del)
  <2> SUFFICES ASSUME NEW a \in Accounts, NEW v \in Validators
               PROVE  gov.valShares[a][v] = SumFunctionOnSet(SharesAt(stk.del, v), Delegators(gov, a))
    BY DEF SharesOK
  <2>1. gov.valShares[a][v] = 0
    BY DEF Init
  <2>2. Delegators(gov, a) \in SUBSET Accounts
    BY DEF Delegators
  <2> QED BY <1>3, <2>1, <2>2
<1>5. IndexOK(gov, stk.del)
  BY DEF Init, IndexOK, IsActive
<1>6. SInv(stk)
  <2>1. \A v \in Validators : stk.shares[v] = 0 /\ stk.tokens[v] = 0
    BY DEF Init
  <2> QED BY <1>1, <1>3, <2>1 DEF SInv
<1>7. minSelf \in MinSelfDelegations /\ now \in 0 .. MaxTime
  BY GovernorsAssumption DEF Init
<1> QED BY <1>2, <1>4, <1>5, <1>6, <1>7 DEF IInv, GInv

\* Every message and every block step keeps the invariant.
LEMMA NextKeeps == IInv /\ [Next]_vars => IInv'
<1> SUFFICES ASSUME IInv, [Next]_vars PROVE IInv'
  OBVIOUS
<1>1. CASE GovMsg
  BY <1>1, CreateGovernorKeeps, ActivateGovernorKeeps, DeactivateGovernorKeeps,
     UndelegateGovernorKeeps, DelegateGovernorKeeps, SMTT(30) DEF GovMsg
<1>2. CASE StakingMsg
  BY <1>2, CreateValidatorKeeps, DelegateKeeps, UndelegateKeeps, BeginRedelegateKeeps DEF StakingMsg
<1>3. CASE StakingBlock
  <2>1. \A amt \in Amounts : NewDecFromInt(amt) \in Nat
    BY GovernorsAssumption, PrecisionAssumption DEF NewDecFromInt
  <2> QED BY <1>3, <2>1, BondStatusKeeps, SlashKeeps, SlashRedelegationKeeps DEF StakingBlock
<1>4. CASE \E m \in MinSelfDelegations : UpdateParams(m)
  BY <1>4 DEF UpdateParams, IInv
<1>5. CASE AdvanceTime
  BY <1>5, GovernorsAssumption DEF AdvanceTime, IInv
<1>6. CASE UNCHANGED vars
  BY <1>6 DEF vars, IInv
<1> QED BY <1>1, <1>2, <1>3, <1>4, <1>5, <1>6 DEF Next

\* The inductive invariant holds in every reachable state, for every set of accounts and
\* validators, every precision, every parameter.
THEOREM Invariance == Spec => []IInv
BY InitEstablishes, NextKeeps, PTL DEF Spec

\* The stores keep their types: no share count of a governor, a validator or a delegation
\* ever goes below zero.
THEOREM TypeCorrect == Spec => []TypeOK
<1>1. IInv => TypeOK
  BY DEF IInv, GInv, Sound, SInv, TypeOK
<1> QED BY <1>1, Invariance, PTL

\* None of the panics of the governor hooks and messages is reachable: shares are never
\* decreased below what was added, the index never names a missing governor or delegation.
THEOREM NoPanic == Spec => []NeverPanics
<1>1. IInv => NeverPanics
  BY DEF IInv, GInv, Sound, NeverPanics
<1> QED BY <1>1, Invariance, PTL

\* GovernanceDelegations and GovernanceDelegationsByGovernor always mirror each other,
\* and no delegation outlives its governor.
THEOREM ConsistentDelegations == Spec => []DelegationsConsistent
<1>1. IInv => DelegationsConsistent
  <2> SUFFICES ASSUME IInv PROVE DelegationsConsistent
    OBVIOUS
  <2>1. gov.byGovernor \in SUBSET (Accounts \X Accounts)
    BY TypeFacts DEF GovStores
  <2>2. gov.byGovernor = {p \in Accounts \X Accounts : gov.delegation[p[2]] = p[1]}
    BY <2>1, TypeFacts, SMTT(30) DEF Linked
  <2> QED BY <2>2, TypeFacts DEF DelegationsConsistent, Linked
<1> QED BY <1>1, Invariance, PTL

\* ActiveGovernorsByDelegatedValidator, which the slashing and unbonding hooks trust to
\* find the governors they must judge, is always exact.
THEOREM ExactActiveIndex == Spec => []ActiveIndexExact
<1>1. IInv => ActiveIndexExact
  <2> SUFFICES ASSUME IInv PROVE ActiveIndexExact
    OBVIOUS
  <2>1. gov.activeIndex \in SUBSET (Validators \X Accounts)
    BY TypeFacts DEF GovStores
  <2>2. gov.activeIndex = {e \in Validators \X Accounts :
                             IsActive(gov, e[2]) /\ e[1] \in DelegatedTo(stk, e[2])}
    BY <2>1, TypeFacts DEF IndexOK, DelegatedTo
  <2> QED BY <2>2, TypeFacts DEF ActiveIndexExact, Linked
<1> QED BY <1>1, Invariance, PTL

\* ValidatorSharesByGovernor, which the tally reads, is always the stake of the governor's
\* delegators, and a validator's DelegatorShares the sum of its delegations.
THEOREM SharesMatchStake == Spec => [](GovernorSharesMatchStake /\ DelegatorSharesMatch)
<1>1. IInv => GovernorSharesMatchStake
  BY DEF IInv, GInv, SharesOK, SharesAt, Delegators, GovernorSharesMatchStake
<1>2. IInv => DelegatorSharesMatch
  BY DEF IInv, SInv, SharesAt, DelegatorSharesMatch
<1> QED BY <1>1, <1>2, Invariance, PTL

\* A validator's DelegatorShares are always the sum of its delegations, so unbonding and
\* slashing never leave shares without a delegation or a delegation without shares.
THEOREM ValidatorSharesMatch == Spec => []DelegatorSharesMatch
BY SharesMatchStake, PTL
-----------------------------------------------------------------------------
(***************************************************************************)
(* The tally                                                               *)
(***************************************************************************)

\* The shares at v, the delegators of g who voted and those who did not.
StakeAt(v) == [d \in Accounts |-> stk.del[d][v]]
Voted(voters, g) == {d \in voters : gov.delegation[d] = g}
Silent(voters, g) == {d \in Accounts \ voters : gov.delegation[d] = g}

\* A governor's shares are those of its delegators who voted plus the rest, and none of
\* the sums is negative.
LEMMA GovernorSharesSplit ==
    ASSUME TypeOK, GovernorSharesMatchStake,
           NEW voters \in SUBSET Accounts, NEW g \in Accounts, NEW v \in Validators
    PROVE  /\ StakeAt(v) \in [Accounts -> Int]
           /\ SumFunctionOnSet(StakeAt(v), Voted(voters, g)) \in Nat
           /\ SumFunctionOnSet(StakeAt(v), Silent(voters, g)) \in Nat
           /\ gov.valShares[g][v] = SumFunctionOnSet(StakeAt(v), Voted(voters, g))
                                     + SumFunctionOnSet(StakeAt(v), Silent(voters, g))
<1> DEFINE f == StakeAt(v)
           W == Voted(voters, g)
           U == Silent(voters, g)
<1>1. f \in [Accounts -> Int] /\ \A d \in Accounts : f[d] >= 0
  BY DEF TypeOK, StakingStores, StakeAt
<1>2. W \in SUBSET Accounts /\ U \in SUBSET Accounts /\ W \cap U = {}
  BY DEF Voted, Silent
<1>3. W \cup U = {d \in Accounts : gov.delegation[d] = g}
  BY DEF Voted, Silent
<1>4. gov.valShares[g][v] = SumFunctionOnSet(f, W \cup U)
  BY <1>3, Zenon DEF GovernorSharesMatchStake, StakeAt
<1> HIDE DEF f, W, U
<1>5. SumFunctionOnSet(f, W \cup U) = SumFunctionOnSet(f, W) + SumFunctionOnSet(f, U)
  BY <1>1, <1>2, FiniteAssumption, SumSplit
<1>6. SumFunctionOnSet(f, W) \in Int /\ SumFunctionOnSet(f, U) \in Int
  BY <1>1, <1>2, FiniteAssumption, SumRemove
<1>7. SumFunctionOnSet(f, W) >= 0 /\ SumFunctionOnSet(f, U) >= 0
  BY <1>1, <1>2, FiniteAssumption, SumNat
<1> QED BY <1>1, <1>4, <1>5, <1>6, <1>7 DEF f, W, U

\* The deductions in these terms.
LEMMA DeductionsAre ==
    ASSUME NEW voters, NEW g, NEW v
    PROVE  ValSharesDeductions(voters, g, v) =
             IF gov.valShares[g][v] = 0 THEN 0 ELSE SumFunctionOnSet(StakeAt(v), Voted(voters, g))
BY Zenon DEF ValSharesDeductions, StakeAt, Voted

\* No governor is ever counted with negative power: the shares of the delegators who voted
\* are part of the shares kept for the governor (tallyVotes, getGovernorVotingPower).
THEOREM CoveredDeductions == Spec => []DeductionsCovered
<1>1. TypeOK /\ GovernorSharesMatchStake => DeductionsCovered
  <2> SUFFICES ASSUME TypeOK, GovernorSharesMatchStake,
                      NEW voters \in SUBSET Accounts, NEW g \in Accounts, NEW v \in Validators
               PROVE  ValSharesDeductions(voters, g, v) <= gov.valShares[g][v]
    BY DEF DeductionsCovered
  <2> QED BY GovernorSharesSplit, DeductionsAre
<1> QED BY <1>1, TypeCorrect, SharesMatchStake, PTL

\* The accounts a voter's ballot speaks for: the voter and, if it is a governor that takes
\* part, its delegators who did not vote.
LEMMA SpokenFor ==
    ASSUME TypeOK, ActiveIndexExact,
           NEW voters \in SUBSET Accounts, NEW d \in voters
    PROVE  {e \in Accounts : Speaker(voters, e) = d} =
             IF d \in GetCurrGovernors(voters)
             THEN {d} \cup {e \in Accounts \ voters : gov.delegation[e] = d}
             ELSE {d}
<1>1. ASSUME NEW e \in Accounts
      PROVE  Speaker(voters, e) = d <=>
               e = d \/ (e \notin voters /\ gov.delegation[e] = d /\ d \in GetCurrGovernors(voters))
  <2>1. IsActive(gov, d) => gov.delegation[d] = d
    BY DEF ActiveIndexExact
  <2>2. d # None
    BY NoneAssumption
  <2>3. CASE e \in voters
    BY <2>3 DEF Speaker
  <2>4. CASE e \notin voters
    <3>1. e # d
      BY <2>4
    <3>2. d \in GetCurrGovernors(voters) <=>
            IsActive(gov, d) /\ GetGovernorBondedTokens(stk, d) >= minSelf
      BY <2>1 DEF GetCurrGovernors, ValidateMinSelfDelegation
    <3>3. Speaker(voters, e) =
            IF /\ gov.delegation[e] \in voters
               /\ IsActive(gov, gov.delegation[e])
               /\ GetGovernorBondedTokens(stk, gov.delegation[e]) >= minSelf
            THEN gov.delegation[e] ELSE None
      BY <2>4 DEF Speaker
    <3> QED BY <2>2, <2>4, <3>1, <3>2, <3>3
  <2> QED BY <2>3, <2>4
<1>2. CASE d \in GetCurrGovernors(voters)
  BY <1>1, <1>2
<1>3. CASE d \notin GetCurrGovernors(voters)
  BY <1>1, <1>3
<1> QED BY <1>2, <1>3

\* At every validator each ballot counts the shares of exactly those it speaks for: nobody
\* is counted twice or left out, whatever the governors and the stake (tallyVotes).
THEOREM CountedOnce == Spec => []StakeCountedOnce
<1>1. TypeOK /\ GovernorSharesMatchStake /\ ActiveIndexExact => StakeCountedOnce
  <2> SUFFICES ASSUME TypeOK, GovernorSharesMatchStake, ActiveIndexExact,
                      NEW voters \in SUBSET Accounts, NEW d \in voters, NEW v \in Validators
               PROVE  SharesCountedFor(voters, d, v) =
                        SumFunctionOnSet([e \in Accounts |-> stk.del[e][v]],
                                         {e \in Accounts : Speaker(voters, e) = d})
    BY DEF StakeCountedOnce
  <2> DEFINE f == StakeAt(v)
             U == Silent(voters, d)
             W == Voted(voters, d)
  <2>1. /\ f \in [Accounts -> Int]
        /\ SumFunctionOnSet(f, W) \in Nat /\ SumFunctionOnSet(f, U) \in Nat
        /\ gov.valShares[d][v] = SumFunctionOnSet(f, W) + SumFunctionOnSet(f, U)
    BY GovernorSharesSplit, Zenon
  <2>2. f[d] = stk.del[d][v]
    BY DEF StakeAt
  <2>3. ValSharesDeductions(voters, d, v) =
          IF gov.valShares[d][v] = 0 THEN 0 ELSE SumFunctionOnSet(f, W)
    BY DeductionsAre
  <2>4. {d} \in SUBSET Accounts /\ U \in SUBSET Accounts /\ {d} \cap U = {}
    BY DEF Silent
  <2> HIDE DEF f, U, W
  <2>5. SumFunctionOnSet(f, {d}) = f[d]
    <3>1. SumFunctionOnSet(f, {d}) = f[d] + SumFunctionOnSet(f, {d} \ {d})
      BY <2>1, <2>4, FiniteAssumption, SumRemove
    <3>2. {d} \ {d} = {} /\ SumFunctionOnSet(f, {}) = 0
      BY <2>1, <2>4, FiniteAssumption, SumRemove
    <3>3. f[d] \in Int
      BY <2>1
    <3> QED BY <3>1, <3>2, <3>3
  <2>6. SumFunctionOnSet(f, {d} \cup U) = f[d] + SumFunctionOnSet(f, U)
    <3> DEFINE S == {d}
    <3>1. S \in SUBSET Accounts /\ U \in SUBSET Accounts /\ S \cap U = {}
      BY <2>4
    <3> HIDE DEF S
    <3>2. SumFunctionOnSet(f, S \cup U) = SumFunctionOnSet(f, S) + SumFunctionOnSet(f, U)
      BY <2>1, <3>1, FiniteAssumption, SumSplit
    <3> QED BY <2>5, <3>2 DEF S
  <2>7. f[d] \in Int
    BY <2>1
  <2>8. CASE d \in GetCurrGovernors(voters)
    <3>1. {e \in Accounts : Speaker(voters, e) = d} = {d} \cup U
      BY <2>8, SpokenFor, Zenon DEF U, Silent
    <3>2. SharesCountedFor(voters, d, v) =
            f[d] + (gov.valShares[d][v] - ValSharesDeductions(voters, d, v))
      BY <2>2, <2>8 DEF SharesCountedFor, SharesAfterDeductions
    <3>3. gov.valShares[d][v] - ValSharesDeductions(voters, d, v) = SumFunctionOnSet(f, U)
      BY <2>1, <2>3
    <3>4. SharesCountedFor(voters, d, v) = SumFunctionOnSet(f, {d} \cup U)
      BY <2>6, <3>2, <3>3
    <3> QED BY <3>1, <3>4, Zenon DEF f, StakeAt
  <2>9. CASE d \notin GetCurrGovernors(voters)
    <3>1. {e \in Accounts : Speaker(voters, e) = d} = {d}
      BY <2>9, SpokenFor
    <3>2. SharesCountedFor(voters, d, v) = f[d] + 0
      BY <2>2, <2>9 DEF SharesCountedFor
    <3>3. SharesCountedFor(voters, d, v) = SumFunctionOnSet(f, {d})
      BY <2>5, <2>7, <3>2
    <3> QED BY <3>1, <3>3, Zenon DEF f, StakeAt
  <2> QED BY <2>8, <2>9
<1> QED BY <1>1, TypeCorrect, SharesMatchStake, ExactActiveIndex, PTL
-----------------------------------------------------------------------------
(***************************************************************************)
(* The turnout                                                             *)
(***************************************************************************)

\* A power is at most half a unit more than the exact share of the tokens.
LEMMA PowerRounds ==
    ASSUME NEW sh \in Nat, NEW T \in Nat, NEW S \in Nat \ {0}
    PROVE  LET p == Quo(MulInt(sh, T), S)
           IN  p \in Nat /\ S * (2 * p) <= (2 * Precision * T) * sh + S
<1> DEFINE P == Precision
           a == sh * T
           p == Quo(a, S)
<1>0. P \in Nat \ {0}
  BY PrecisionAssumption
<1>1. a \in Nat /\ MulInt(sh, T) = a
  BY DEF MulInt
<1> HIDE DEF a
<1>2. p \in Nat /\ (p >= p => S * (P * (2 * p - 1)) <= 2 * (a * P * P))
  <2>1. p \in Nat
    BY <1>1, QuoRounds
  <2> QED BY <2>1, <1>1, QuoRounds
<1> HIDE DEF p, P
<1>3. S * (P * (2 * p - 1)) = (S * (2 * p - 1)) * P /\ 2 * (a * P * P) = (2 * (a * P)) * P
  BY <1>0, <1>1, <1>2
<1> DEFINE l == S * (2 * p - 1)
           r == 2 * (a * P)
<1>4. l \in Int /\ r \in Int /\ l * P <= r * P
  BY <1>0, <1>1, <1>2, <1>3
<1> HIDE DEF l, r
<1>5. l <= r
  BY <1>0, <1>4, Cancel
<1>6. S * (2 * p) = l + S
  BY <1>2 DEF l
<1>7. (2 * P * T) * sh = r
  BY <1>0 DEF r, a
<1> QED BY <1>1, <1>2, <1>4, <1>5, <1>6, <1>7 DEF p, P

\* The power that a's stake at v, and that the shares at v left to the governor a, bring to
\* the tally.
OwnPower(voters) ==
    [a \in Accounts |-> [v \in Validators |->
        IF a \in voters /\ v \in BondedValidators \cap DelegatedTo(stk, a)
        THEN VotingPower(v, stk.del[a][v]) ELSE 0]]
GovernorPower(voters) ==
    [a \in Accounts |-> [v \in Validators |->
        IF a \in GetCurrGovernors(voters) /\ v \in BondedValidators /\ gov.valShares[a][v] > 0
        THEN VotingPower(v, SharesAfterDeductions(voters, a, v)) ELSE 0]]
BallotPower(voters) ==
    [a \in Accounts |-> [v \in Validators |-> OwnPower(voters)[a][v] + GovernorPower(voters)[a][v]]]

\* The shares behind these powers, and how many powers are added for a.
SharesBehind(voters, v) ==
    [a \in Accounts |-> IF a \in voters THEN SharesCountedFor(voters, a, v) ELSE 0]
Roundings(voters) ==
    [a \in Accounts |-> (IF a \in voters THEN 1 ELSE 0) + (IF a \in GetCurrGovernors(voters) THEN 1 ELSE 0)]

\* One power that is counted or not, of shares that are there or not.
LEMMA PowerOrNothing ==
    ASSUME NEW sh \in Nat, NEW T \in Nat, NEW S \in Nat, NEW counts \in BOOLEAN, counts => S > 0,
           NEW x, x = IF counts THEN Quo(MulInt(sh, T), S) ELSE 0,
           NEW c \in Nat, NEW u \in Nat, counts => c = sh /\ u = 1
    PROVE  x \in Nat /\ S * (2 * x) <= (2 * Precision * T) * c + S * u
<1>0. Precision \in Nat
  BY PrecisionAssumption
<1>1. CASE counts
  <2>1. S \in Nat \ {0}
    BY <1>1
  <2>2. x \in Nat /\ S * (2 * x) <= (2 * Precision * T) * sh + S
    BY <1>1, <2>1, PowerRounds
  <2> QED BY <1>1, <2>2
<1>2. CASE ~counts
  <2>1. x = 0 /\ S * (2 * x) = 0
    BY <1>2
  <2> DEFINE q == 2 * Precision * T
  <2>2. q \in Nat
    BY <1>0
  <2> HIDE DEF q
  <2>3. q * c \in Nat /\ S * u \in Nat
    BY <2>2
  <2> QED BY <2>1, <2>3 DEF q
<1> QED BY <1>1, <1>2

\* A validator without shares has no delegations and stands for no governor's shares.
LEMMA NoSharesNoStake ==
    ASSUME TypeOK, GovernorSharesMatchStake, DelegatorSharesMatch, NEW v \in Validators, stk.shares[v] = 0
    PROVE  \A a \in Accounts : stk.del[a][v] = 0 /\ gov.valShares[a][v] = 0
<1> DEFINE f == StakeAt(v)
<1>1. f \in [Accounts -> Int] /\ (\A a \in Accounts : f[a] = stk.del[a][v] /\ f[a] >= 0)
        /\ Accounts \in SUBSET Accounts
  BY DEF TypeOK, StakingStores, StakeAt
<1>2. SumFunctionOnSet(f, Accounts) = 0
  BY DEF DelegatorSharesMatch, StakeAt
<1>3. \A a \in Accounts :
        gov.valShares[a][v] = SumFunctionOnSet(f, {d \in Accounts : gov.delegation[d] = a})
  BY Zenon DEF GovernorSharesMatchStake, StakeAt
<1> HIDE DEF f
<1>4. \A a \in Accounts : f[a] = 0
  <2>1. \A a \in Accounts : f[a] <= SumFunctionOnSet(f, Accounts)
    BY <1>1, FiniteAssumption, SumNat
  <2> QED BY <1>1, <1>2, <2>1
<1>5. ASSUME NEW a \in Accounts PROVE gov.valShares[a][v] = 0
  <2> DEFINE E == {d \in Accounts : gov.delegation[d] = a}
  <2>1. E \in SUBSET Accounts /\ gov.valShares[a][v] = SumFunctionOnSet(f, E)
    BY <1>3
  <2> HIDE DEF E
  <2>2. SumFunctionOnSet(f, E) = 0
    BY <1>1, <1>4, <2>1, FiniteAssumption, SumOfZeros
  <2> QED BY <2>1, <2>2
<1> QED BY <1>1, <1>4, <1>5

\* The two powers of a at v, and the shares behind them.
LEMMA PowerAt ==
    ASSUME TypeOK, GovernorSharesMatchStake, DelegatorSharesMatch,
           NEW voters \in SUBSET Accounts, NEW a \in Accounts, NEW v \in Validators
    PROVE  LET x == BallotPower(voters)[a][v]
               S == stk.shares[v]
               c == SharesBehind(voters, v)[a]
               u == Roundings(voters)[a]
           IN  /\ OwnPower(voters)[a][v] \in Nat /\ GovernorPower(voters)[a][v] \in Nat
               /\ x = OwnPower(voters)[a][v] + GovernorPower(voters)[a][v]
               /\ c \in Nat /\ u \in Nat
               /\ v \notin BondedValidators \/ S = 0 => x = 0
               /\ S * (2 * x) <= (2 * Precision * stk.tokens[v]) * c + S * u
<1> DEFINE S == stk.shares[v]
           T == stk.tokens[v]
           C == GetCurrGovernors(voters)
           x1 == OwnPower(voters)[a][v]
           x2 == GovernorPower(voters)[a][v]
           k1 == a \in voters /\ v \in BondedValidators \cap DelegatedTo(stk, a)
           k2 == a \in C /\ v \in BondedValidators /\ gov.valShares[a][v] > 0
           s1 == stk.del[a][v]
           s2 == SharesAfterDeductions(voters, a, v)
           c1 == IF a \in voters THEN s1 ELSE 0
           c2 == IF a \in C THEN s2 ELSE 0
           u1 == IF a \in voters THEN 1 ELSE 0
           u2 == IF a \in C THEN 1 ELSE 0
           c == SharesBehind(voters, v)[a]
           u == Roundings(voters)[a]
           x == BallotPower(voters)[a][v]
<1>1. S \in Nat /\ T \in Nat /\ s1 \in Nat
  BY DEF TypeOK, StakingStores
<1>2. s2 \in Nat
  <2> DEFINE y == SumFunctionOnSet(StakeAt(v), Voted(voters, a))
             z == SumFunctionOnSet(StakeAt(v), Silent(voters, a))
             d == ValSharesDeductions(voters, a, v)
  <2>1. y \in Nat /\ z \in Nat /\ gov.valShares[a][v] = y + z
    BY GovernorSharesSplit, Zenon
  <2>2. d = IF gov.valShares[a][v] = 0 THEN 0 ELSE y
    BY DeductionsAre, Zenon
  <2>3. s2 = gov.valShares[a][v] - d
    BY DEF SharesAfterDeductions
  <2> HIDE DEF y, z, d, s2
  <2> QED BY <2>1, <2>2, <2>3
<1>3. C \in SUBSET voters
  BY DEF GetCurrGovernors
<1>4. x1 = (IF k1 THEN Quo(MulInt(s1, T), S) ELSE 0) /\ x2 = (IF k2 THEN Quo(MulInt(s2, T), S) ELSE 0)
        /\ x = x1 + x2
  BY DEF OwnPower, GovernorPower, BallotPower, VotingPower
<1>5. c = c1 + c2 /\ u = u1 + u2
  BY <1>1, <1>3 DEF SharesBehind, Roundings, SharesCountedFor
<1>6. S = 0 => ~k1 /\ ~k2
  BY NoSharesNoStake DEF DelegatedTo
<1>7. v \notin BondedValidators => ~k1 /\ ~k2
  OBVIOUS
<1>8. k1 \in BOOLEAN /\ k2 \in BOOLEAN
  OBVIOUS
<1>9. c1 \in Nat /\ c2 \in Nat /\ u1 \in Nat /\ u2 \in Nat
        /\ (k1 => c1 = s1 /\ u1 = 1) /\ (k2 => c2 = s2 /\ u2 = 1)
  BY <1>1, <1>2
<1> HIDE DEF S, T, C, x1, x2, k1, k2, s1, s2, c1, c2, u1, u2, c, u, x
<1>10. (k1 => S > 0) /\ (k2 => S > 0)
  BY <1>1, <1>6
<1>11. x1 \in Nat /\ S * (2 * x1) <= (2 * Precision * T) * c1 + S * u1
  <2>1. /\ s1 \in Nat /\ T \in Nat /\ S \in Nat /\ k1 \in BOOLEAN /\ (k1 => S > 0)
        /\ x1 = IF k1 THEN Quo(MulInt(s1, T), S) ELSE 0
        /\ c1 \in Nat /\ u1 \in Nat /\ (k1 => c1 = s1 /\ u1 = 1)
    BY <1>1, <1>4, <1>8, <1>9, <1>10, Zenon
  <2> QED BY <2>1, PowerOrNothing, Zenon
<1>12. x2 \in Nat /\ S * (2 * x2) <= (2 * Precision * T) * c2 + S * u2
  <2>1. /\ s2 \in Nat /\ T \in Nat /\ S \in Nat /\ k2 \in BOOLEAN /\ (k2 => S > 0)
        /\ x2 = IF k2 THEN Quo(MulInt(s2, T), S) ELSE 0
        /\ c2 \in Nat /\ u2 \in Nat /\ (k2 => c2 = s2 /\ u2 = 1)
    BY <1>1, <1>2, <1>4, <1>8, <1>9, <1>10, Zenon
  <2> QED BY <2>1, PowerOrNothing, Zenon
<1>13. v \notin BondedValidators \/ S = 0 => x = 0
  BY <1>4, <1>6, <1>7
<1>14. S * (2 * x) <= (2 * Precision * T) * c + S * u
  <2> DEFINE q == 2 * Precision * T
  <2>1. q \in Nat
    BY <1>1, PrecisionAssumption
  <2>2. S * (2 * x1) <= q * c1 + S * u1 /\ S * (2 * x2) <= q * c2 + S * u2
    BY <1>11, <1>12
  <2> HIDE DEF q
  <2>3. S * (2 * x) = S * (2 * x1) + S * (2 * x2) /\ q * c + S * u = (q * c1 + S * u1) + (q * c2 + S * u2)
    BY <1>1, <1>4, <1>5, <1>9, <1>11, <1>12, <2>1
  <2>4. S * (2 * x1) \in Int /\ S * (2 * x2) \in Int /\ q * c1 + S * u1 \in Int /\ q * c2 + S * u2 \in Int
    BY <1>1, <1>9, <1>11, <1>12, <2>1
  <2>5. S * (2 * x) <= q * c + S * u
    BY <2>2, <2>3, <2>4
  <2> QED BY <2>5 DEF q
<1>15. c \in Nat /\ u \in Nat
  BY <1>5, <1>9
<1> QED BY <1>4, <1>11, <1>12, <1>13, <1>14, <1>15 DEF S, T, x, x1, x2, c, u

\* How many powers are added at a validator.
LEMMA RoundingsCount ==
    ASSUME NEW voters \in SUBSET Accounts
    PROVE  /\ Roundings(voters) \in [Accounts -> Int]
           /\ Cardinality(voters) \in Nat /\ Cardinality(GetCurrGovernors(voters)) \in Nat
           /\ SumFunctionOnSet(Roundings(voters), Accounts)
                = Cardinality(voters) + Cardinality(GetCurrGovernors(voters))
<1> DEFINE C == GetCurrGovernors(voters)
           i == [x \in Accounts |-> IF x \in voters THEN 1 ELSE 0]
           j == [x \in Accounts |-> IF x \in C THEN 1 ELSE 0]
           r == Roundings(voters)
<1>1. C \in SUBSET Accounts
  BY DEF GetCurrGovernors
<1>2. i \in [Accounts -> Int] /\ j \in [Accounts -> Int] /\ r \in [Accounts -> Int]
        /\ \A a \in Accounts : r[a] = i[a] + j[a]
  BY DEF Roundings
<1>3. SumFunctionOnSet(i, Accounts) = Cardinality(voters)
  BY FiniteAssumption, SumOnes
<1> HIDE DEF C
<1>4. SumFunctionOnSet(j, Accounts) = Cardinality(C)
  BY <1>1, FiniteAssumption, SumOnes
<1> HIDE DEF i, j, r
<1>5. SumFunctionOnSet(r, Accounts) = SumFunctionOnSet(i, Accounts) + SumFunctionOnSet(j, Accounts)
  BY <1>2, FiniteAssumption, SumPlus
<1>6. Cardinality(voters) \in Nat /\ Cardinality(C) \in Nat
  BY <1>1, FiniteAssumption, FS_Subset, FS_CardinalityType
<1> QED BY <1>2, <1>3, <1>4, <1>5, <1>6, Zenon DEF C, r

\* Nobody is counted twice, so the shares behind the powers at v are at most v's shares.
LEMMA SharesBehindWithin ==
    ASSUME TypeOK, DelegatorSharesMatch, StakeCountedOnce,
           NEW voters \in SUBSET Accounts, NEW v \in Validators,
           SharesBehind(voters, v) \in [Accounts -> Int]
    PROVE  SumFunctionOnSet(SharesBehind(voters, v), Accounts) <= stk.shares[v]
<1> DEFINE c == SharesBehind(voters, v)
           w == StakeAt(v)
           own == [e \in Accounts |-> Speaker(voters, e)]
<1>1. w \in [Accounts -> Nat]
  BY DEF TypeOK, StakingStores, StakeAt
<1>2. ASSUME NEW a \in voters
      PROVE  c[a] = SumFunctionOnSet(w, {e \in Accounts : own[e] = a})
  <2>1. {e \in Accounts : own[e] = a} = {e \in Accounts : Speaker(voters, e) = a}
    OBVIOUS
  <2>2. SharesCountedFor(voters, a, v) = SumFunctionOnSet(w, {e \in Accounts : Speaker(voters, e) = a})
    BY Zenon DEF StakeCountedOnce, StakeAt
  <2>3. c[a] = SharesCountedFor(voters, a, v)
    BY DEF SharesBehind
  <2> QED BY <2>1, <2>2, <2>3, Zenon
<1>3. \A a \in Accounts \ voters : c[a] = 0
  BY DEF SharesBehind
<1>4. SumFunctionOnSet(w, Accounts) = stk.shares[v]
  BY Zenon DEF DelegatorSharesMatch, StakeAt
<1>5. c \in [Accounts -> Int]
  OBVIOUS
<1> HIDE DEF c, w, own
<1>6. Owns(voters, own, Accounts, w, c)
  BY <1>2, Zenon DEF Owns
<1>7. SumFunctionOnSet(c, Accounts) <= SumFunctionOnSet(w, Accounts)
  BY <1>1, <1>3, <1>5, <1>6, FiniteAssumption, SumOwned
<1> QED BY <1>4, <1>7 DEF c

\* At each validator the powers add up to at most its bonded tokens, but for the roundings.
LEMMA PowerOfValidator ==
    ASSUME TypeOK, GovernorSharesMatchStake, DelegatorSharesMatch, StakeCountedOnce,
           NEW voters \in SUBSET Accounts, NEW v \in Validators
    PROVE  LET k == Column(BallotPower(voters), Accounts, v)
           IN  /\ SumFunctionOnSet(k, Accounts) \in Int
               /\ 2 * SumFunctionOnSet(k, Accounts)
                    <= (2 * Precision) * (IF v \in BondedValidators THEN stk.tokens[v] ELSE 0)
                       + (Cardinality(voters) + Cardinality(GetCurrGovernors(voters)))
<1> DEFINE k == Column(BallotPower(voters), Accounts, v)
           S == stk.shares[v]
           T == stk.tokens[v]
           n == Cardinality(voters) + Cardinality(GetCurrGovernors(voters))
           c == SharesBehind(voters, v)
           u == Roundings(voters)
           x == [a \in Accounts |-> 2 * k[a] - u[a]]
           e == [a \in Accounts |-> 2 * k[a]]
           q == 2 * Precision * T
           sk == SumFunctionOnSet(k, Accounts)
<1>0. Accounts \in SUBSET Accounts /\ S \in Nat /\ T \in Nat /\ Precision \in Nat
  BY PrecisionAssumption DEF TypeOK, StakingStores
<1>1. q \in Nat
  BY <1>0
<1>2. DOMAIN k = Accounts /\ (\A a \in Accounts : k[a] = BallotPower(voters)[a][v]) /\ k = [a \in Accounts |-> k[a]]
  BY DEF Column
<1>3. ASSUME NEW a \in Accounts
      PROVE  /\ k[a] \in Nat /\ c[a] \in Nat /\ u[a] \in Nat
             /\ v \notin BondedValidators \/ S = 0 => k[a] = 0
             /\ S * (2 * k[a]) <= q * c[a] + S * u[a]
  <2>1. k[a] = BallotPower(voters)[a][v]
    BY <1>2
  <2>2. OwnPower(voters)[a][v] \in Nat /\ GovernorPower(voters)[a][v] \in Nat
          /\ BallotPower(voters)[a][v] = OwnPower(voters)[a][v] + GovernorPower(voters)[a][v]
    BY PowerAt, Zenon
  <2>3. c[a] \in Nat /\ u[a] \in Nat
    BY PowerAt, Zenon
  <2>4. v \notin BondedValidators \/ S = 0 => BallotPower(voters)[a][v] = 0
    BY PowerAt, Zenon
  <2>5. S * (2 * BallotPower(voters)[a][v]) <= q * c[a] + S * u[a]
    BY PowerAt, Zenon
  <2>6. k[a] \in Nat
    BY <2>1, <2>2
  <2> HIDE DEF k, c, u, S, q
  <2> QED BY <2>1, <2>3, <2>4, <2>5, <2>6, Zenon
<1>4. c \in [Accounts -> Int]
  BY <1>3 DEF SharesBehind
<1>5. u \in [Accounts -> Int] /\ n \in Nat /\ SumFunctionOnSet(u, Accounts) = n
  BY RoundingsCount
<1>6. SumFunctionOnSet(c, Accounts) <= S /\ SumFunctionOnSet(c, Accounts) \in Int
  BY <1>0, <1>4, SharesBehindWithin, FiniteAssumption, SumRemove
<1> HIDE DEF k, c, u, S, T, q, n
<1>7. k \in [Accounts -> Int]
  BY <1>2, <1>3
<1>8. sk \in Int
  BY <1>0, <1>7, FiniteAssumption, SumRemove
<1>9. CASE v \notin BondedValidators \/ S = 0
  <2>1. sk = 0
    BY <1>0, <1>3, <1>7, <1>9, FiniteAssumption, SumOfZeros
  <2> DEFINE t == IF v \in BondedValidators THEN T ELSE 0
             p == 2 * Precision
  <2>2. t \in Nat /\ p \in Nat
    BY <1>0
  <2> HIDE DEF sk, t, p
  <2>3. p * t \in Nat
    BY <2>2
  <2>4. 2 * sk <= p * t + n
    BY <1>5, <2>1, <2>3
  <2> QED BY <1>8, <2>4 DEF sk, k, t, T, p, n
<1>10. CASE v \in BondedValidators /\ S # 0
  <2>1. x \in [Accounts -> Int] /\ e \in [Accounts -> Int] /\ (\A a \in Accounts : e[a] = x[a] + u[a])
          /\ \A a \in Accounts : e[a] = k[a] + k[a]
    BY <1>5, <1>7
  <2>2. ASSUME NEW a \in Accounts PROVE S * x[a] <= q * c[a]
    <3>1. S * x[a] = S * (2 * k[a]) - S * u[a]
      BY <1>0, <1>3
    <3> DEFINE l == S * (2 * k[a])
               r == S * u[a]
               m == q * c[a]
    <3>2. l \in Int /\ r \in Int /\ m \in Int /\ l <= m + r /\ S * x[a] = l - r
      BY <1>0, <1>1, <1>3, <3>1
    <3> HIDE DEF l, r, m, x
    <3>3. S * x[a] <= m
      BY <3>2
    <3> QED BY <3>3 DEF m
  <2> HIDE DEF x, e
  <2>3. S * SumFunctionOnSet(x, Accounts) <= q * SumFunctionOnSet(c, Accounts)
    <3>1. S \in Int /\ q \in Int
      BY <1>0, <1>1
    <3> QED BY <3>1, <1>4, <2>1, <2>2, FiniteAssumption, SumScaled, Zenon
  <2>4. SumFunctionOnSet(x, Accounts) \in Int
    BY <1>0, <2>1, FiniteAssumption, SumRemove
  <2>5. SumFunctionOnSet(e, Accounts) = SumFunctionOnSet(x, Accounts) + n
    BY <1>5, <2>1, FiniteAssumption, SumPlus
  <2>6. SumFunctionOnSet(e, Accounts) = sk + sk
    BY <1>7, <2>1, FiniteAssumption, SumPlus
  <2> DEFINE sx == SumFunctionOnSet(x, Accounts)
             sc == SumFunctionOnSet(c, Accounts)
  <2>7. q * sc <= q * S
    <3> HIDE DEF sc
    <3> QED BY <1>0, <1>1, <1>6 DEF sc
  <2>8. sx <= q
    <3> HIDE DEF sx, sc
    <3>1. q * sc \in Int /\ S * sx \in Int /\ q * S \in Int
      BY <1>0, <1>1, <1>6, <2>4 DEF sc, sx
    <3>2. S * sx <= q * S
      BY <2>3, <2>7, <3>1 DEF sx, sc
    <3>3. sx * S <= q * S /\ sx \in Int /\ q \in Int /\ S \in Nat \ {0}
      BY <1>0, <1>1, <1>10, <2>4, <3>2 DEF sx
    <3> QED BY <3>3, Cancel
  <2>9. 2 * sk <= q + n
    <3> HIDE DEF sk
    <3> QED BY <1>1, <1>5, <1>8, <2>4, <2>5, <2>6, <2>8 DEF sx
  <2>10. q = (2 * Precision) * (IF v \in BondedValidators THEN T ELSE 0)
    BY <1>10 DEF q
  <2> HIDE DEF sk
  <2> QED BY <1>8, <2>9, <2>10 DEF sk, k, T, n
<1> QED BY <1>9, <1>10

\* The total voting power is the sum of the powers of the ballots at the validators.
LEMMA TotalIsBallots ==
    ASSUME TypeOK, GovernorSharesMatchStake, DelegatorSharesMatch, NEW voters \in SUBSET Accounts
    PROVE  /\ BallotPower(voters) \in [Accounts -> [Validators -> Int]]
           /\ TotalVotingPower(voters)
                = SumFunctionOnSet([a \in Accounts |-> SumFunctionOnSet(BallotPower(voters)[a], Validators)], Accounts)
<1> DEFINE C == GetCurrGovernors(voters)
           V == Validators
           A == Accounts
           x == OwnPower(voters)
           y == GovernorPower(voters)
           b == BallotPower(voters)
           sx == [a \in A |-> SumFunctionOnSet(x[a], V)]
           sy == [a \in A |-> SumFunctionOnSet(y[a], V)]
           sb == [a \in A |-> SumFunctionOnSet(b[a], V)]
           fx == [d \in voters |-> VoterPower(d)]
           fy == [g \in C |-> GetGovernorVotingPower(voters, g)]
<1>0. C \in SUBSET A
  BY DEF GetCurrGovernors
<1>1. \A a \in A, v \in V : x[a][v] \in Int /\ y[a][v] \in Int /\ b[a][v] = x[a][v] + y[a][v]
  <2> SUFFICES ASSUME NEW a \in A, NEW v \in V
               PROVE  x[a][v] \in Int /\ y[a][v] \in Int /\ b[a][v] = x[a][v] + y[a][v]
    OBVIOUS
  <2>1. x[a][v] \in Nat /\ y[a][v] \in Nat /\ b[a][v] = x[a][v] + y[a][v]
    BY PowerAt, Zenon
  <2> HIDE DEF x, y, b
  <2> QED BY <2>1
<1>2. /\ x = [a \in A |-> [v \in V |-> x[a][v]]]
      /\ y = [a \in A |-> [v \in V |-> y[a][v]]]
      /\ b = [a \in A |-> [v \in V |-> b[a][v]]]
  BY DEF OwnPower, GovernorPower, BallotPower
<1>3. ASSUME NEW a \in A
      PROVE  /\ a \in voters => \A v \in V : x[a][v] = IF v \in BondedValidators \cap DelegatedTo(stk, a)
                                              THEN VotingPower(v, stk.del[a][v]) ELSE 0
             /\ a \notin voters => \A v \in V : x[a][v] = 0
             /\ a \in C => \A v \in V : y[a][v] = IF v \in {w \in BondedValidators : gov.valShares[a][w] > 0}
                                         THEN VotingPower(v, SharesAfterDeductions(voters, a, v)) ELSE 0
             /\ a \notin C => \A v \in V : y[a][v] = 0
  BY DEF OwnPower, GovernorPower
<1>4. BondedValidators \in SUBSET V
  BY DEF BondedValidators
<1>5. \A d \in voters : fx[d] = VoterPower(d)
  OBVIOUS
<1>6. \A g \in C : fy[g] = GetGovernorVotingPower(voters, g)
  OBVIOUS
<1>7. TotalVotingPower(voters) = SumFunction(fx) + SumFunction(fy)
  BY DEF TotalVotingPower
<1>8. DOMAIN fx = voters /\ DOMAIN fy = C /\ fx = [d \in voters |-> fx[d]] /\ fy = [d \in C |-> fy[d]]
  OBVIOUS
<1> HIDE DEF x, y, b, C, fx, fy
<1>9. x \in [A -> [V -> Int]] /\ y \in [A -> [V -> Int]] /\ b \in [A -> [V -> Int]]
  BY <1>1, <1>2
<1>10. ASSUME NEW a \in A PROVE x[a] \in [V -> Int] /\ y[a] \in [V -> Int] /\ b[a] \in [V -> Int]
  BY <1>9
<1>11. ASSUME NEW a \in A PROVE sb[a] = sx[a] + sy[a] /\ sx[a] \in Int /\ sy[a] \in Int /\ sb[a] \in Int
  <2> DEFINE p == x[a]
             q == y[a]
             r == b[a]
  <2>1. p \in [V -> Int] /\ q \in [V -> Int] /\ r \in [V -> Int] /\ (\A v \in V : r[v] = p[v] + q[v])
          /\ V \in SUBSET V
    BY <1>1, <1>10
  <2> HIDE DEF p, q, r
  <2>2. SumFunctionOnSet(r, V) = SumFunctionOnSet(p, V) + SumFunctionOnSet(q, V)
    BY <2>1, ValidatorsAssumption, SumPlus
  <2>3. SumFunctionOnSet(r, V) \in Int /\ SumFunctionOnSet(p, V) \in Int /\ SumFunctionOnSet(q, V) \in Int
    BY <2>1, ValidatorsAssumption, SumRemove
  <2> QED BY <2>2, <2>3 DEF p, q, r
<1>12. sx \in [A -> Int] /\ sy \in [A -> Int] /\ sb \in [A -> Int]
  BY <1>11
<1>13. ASSUME NEW a \in voters PROVE fx[a] = sx[a]
  <2> DEFINE D == BondedValidators \cap DelegatedTo(stk, a)
             f == [v \in D |-> VotingPower(v, stk.del[a][v])]
             h == x[a]
  <2>1. D \in SUBSET V /\ h \in [V -> Int]
    BY <1>4, <1>10
  <2>2. \A v \in V : h[v] = IF v \in D THEN VotingPower(v, stk.del[a][v]) ELSE 0
    BY <1>3
  <2>3. (\A v \in D : h[v] = f[v]) /\ (\A v \in V \ D : h[v] = 0) /\ f = [v \in D |-> f[v]]
    BY <2>1, <2>2
  <2>4. fx[a] = SumFunction(f)
    BY <1>5 DEF VoterPower
  <2>5. sx[a] = SumFunctionOnSet(h, V)
    OBVIOUS
  <2> HIDE DEF D, f, h, sx
  <2>6. f \in [D -> Int]
    BY <2>1, <2>3
  <2>7. SumFunction(f) = SumFunctionOnSet(h, V)
    BY <2>1, <2>3, <2>6, ValidatorsAssumption, SumExtended
  <2> QED BY <2>4, <2>5, <2>7
<1>14. ASSUME NEW a \in C PROVE fy[a] = sy[a]
  <2> DEFINE D == {w \in BondedValidators : gov.valShares[a][w] > 0}
             f == [v \in D |-> VotingPower(v, SharesAfterDeductions(voters, a, v))]
             h == y[a]
  <2>0. a \in A
    BY <1>0
  <2>1. D \in SUBSET V /\ h \in [V -> Int]
    BY <1>4, <1>10, <2>0
  <2>2. \A v \in V : h[v] = IF v \in D THEN VotingPower(v, SharesAfterDeductions(voters, a, v)) ELSE 0
    BY <1>3, <2>0
  <2>3. (\A v \in D : h[v] = f[v]) /\ (\A v \in V \ D : h[v] = 0) /\ f = [v \in D |-> f[v]]
    BY <2>1, <2>2
  <2>4. fy[a] = SumFunction(f)
    BY <1>6 DEF GetGovernorVotingPower
  <2>5. sy[a] = SumFunctionOnSet(h, V)
    BY <2>0
  <2> HIDE DEF D, f, h, sy
  <2>6. f \in [D -> Int]
    BY <2>1, <2>3
  <2>7. SumFunction(f) = SumFunctionOnSet(h, V)
    BY <2>1, <2>3, <2>6, ValidatorsAssumption, SumExtended
  <2> QED BY <2>4, <2>5, <2>7
<1>15. \A a \in A \ voters : sx[a] = 0
  <2> SUFFICES ASSUME NEW a \in A \ voters PROVE SumFunctionOnSet(x[a], V) = 0
    OBVIOUS
  <2>1. x[a] \in [V -> Int] /\ (\A v \in V : x[a][v] = 0) /\ V \in SUBSET V
    BY <1>3, <1>10
  <2> QED BY <2>1, ValidatorsAssumption, SumOfZeros
<1>16. \A a \in A \ C : sy[a] = 0
  <2> SUFFICES ASSUME NEW a \in A \ C PROVE SumFunctionOnSet(y[a], V) = 0
    OBVIOUS
  <2>1. y[a] \in [V -> Int] /\ (\A v \in V : y[a][v] = 0) /\ V \in SUBSET V
    BY <1>3, <1>10
  <2> QED BY <2>1, ValidatorsAssumption, SumOfZeros
<1> HIDE DEF sx, sy, sb
<1>17. fx \in [voters -> Int] /\ fy \in [C -> Int]
  BY <1>0, <1>8, <1>12, <1>13, <1>14
<1>18. SumFunction(fx) = SumFunctionOnSet(sx, A)
  BY <1>12, <1>13, <1>15, <1>17, FiniteAssumption, SumExtended
<1>19. SumFunction(fy) = SumFunctionOnSet(sy, A)
  BY <1>0, <1>12, <1>14, <1>16, <1>17, FiniteAssumption, SumExtended
<1>20. SumFunctionOnSet(sb, A) = SumFunctionOnSet(sx, A) + SumFunctionOnSet(sy, A)
  BY <1>11, <1>12, FiniteAssumption, SumPlus
<1>21. TotalVotingPower(voters) = SumFunctionOnSet(sb, A)
  BY <1>7, <1>18, <1>19, <1>20, Zenon
<1> QED BY <1>9, <1>21, Zenon DEF b, sb

\* The turnout is bounded in every state in which the shares are in order.
LEMMA TurnoutFrom ==
    ASSUME TypeOK, GovernorSharesMatchStake, DelegatorSharesMatch, StakeCountedOnce
    PROVE  TurnoutWithinBonded
<1> SUFFICES ASSUME NEW voters \in SUBSET Accounts
             PROVE  2 * (TotalVotingPower(voters) - NewDecFromInt(TotalBondedTokens))
                      <= Cardinality(Validators) * (Cardinality(voters) + Cardinality(GetCurrGovernors(voters)))
  BY DEF TurnoutWithinBonded
<1> DEFINE V == Validators
           n == Cardinality(voters) + Cardinality(GetCurrGovernors(voters))
           b == BallotPower(voters)
           k == [v \in V |-> SumFunctionOnSet(Column(b, Accounts, v), Accounts)]
           e == [v \in V |-> k[v] + k[v]]
           y == [v \in V |-> e[v] - n]
           t == [v \in V |-> IF v \in BondedValidators THEN stk.tokens[v] ELSE 0]
           p == 2 * Precision
           sk == SumFunctionOnSet(k, V)
           st == SumFunctionOnSet(t, V)
<1>0. n \in Nat /\ Cardinality(V) \in Nat /\ V \in SUBSET V /\ Precision \in Nat \ {0}
  BY RoundingsCount, ValidatorsAssumption, FS_CardinalityType, PrecisionAssumption
<1>1. b \in [Accounts -> [V -> Int]]
        /\ TotalVotingPower(voters) = SumFunctionOnSet([a \in Accounts |-> SumFunctionOnSet(b[a], V)], Accounts)
  BY TotalIsBallots, Zenon
<1> HIDE DEF b
<1>2. TotalVotingPower(voters) = sk
  BY <1>1, FiniteAssumption, ValidatorsAssumption, SumSwap, Zenon
<1>3. ASSUME NEW v \in V PROVE k[v] \in Int /\ t[v] \in Nat /\ 2 * k[v] <= p * t[v] + n
  <2>1. k[v] = SumFunctionOnSet(Column(b, Accounts, v), Accounts)
    OBVIOUS
  <2>2. SumFunctionOnSet(Column(b, Accounts, v), Accounts) \in Int
    BY PowerOfValidator, Zenon DEF b
  <2>3. 2 * SumFunctionOnSet(Column(b, Accounts, v), Accounts)
          <= p * (IF v \in BondedValidators THEN stk.tokens[v] ELSE 0) + n
    BY PowerOfValidator, Zenon DEF b
  <2>4. t[v] = (IF v \in BondedValidators THEN stk.tokens[v] ELSE 0) /\ stk.tokens[v] \in Nat
    BY DEF TypeOK, StakingStores
  <2> HIDE DEF k, t, p, n
  <2>5. t[v] \in Nat
    BY <2>4
  <2> QED BY <2>1, <2>2, <2>3, <2>4, <2>5, Zenon
<1>4. k \in [V -> Int] /\ t \in [V -> Int]
  BY <1>3
<1> HIDE DEF k, t, n
<1>5. e \in [V -> Int] /\ y \in [V -> Int] /\ (\A v \in V : e[v] = k[v] + k[v]) /\ (\A v \in V : e[v] = y[v] + n)
  BY <1>0, <1>4
<1> HIDE DEF e, y
<1>6. SumFunctionOnSet(e, V) = sk + sk
  BY <1>4, <1>5, ValidatorsAssumption, SumPlus
<1>7. SumFunctionOnSet(e, V) = SumFunctionOnSet(y, V) + Cardinality(V) * n
  <2>1. n \in Int
    BY <1>0
  <2> QED BY <2>1, <1>5, ValidatorsAssumption, SumShifted, Zenon
<1>8. SumFunctionOnSet(y, V) <= p * st
  <2>1. PICK i \in Int : i = 1
    OBVIOUS
  <2>2. p \in Int
    BY <1>0
  <2> HIDE DEF p
  <2>3. ASSUME NEW v \in V PROVE i * y[v] <= p * t[v]
    <3> DEFINE q == p * t[v]
    <3>1. q \in Int /\ 2 * k[v] <= q + n /\ k[v] \in Int /\ y[v] \in Int
      BY <1>3, <1>4, <1>5, <2>2
    <3> HIDE DEF q
    <3>2. i * y[v] <= q
      BY <1>0, <1>5, <2>1, <3>1
    <3> QED BY <3>2 DEF q
  <2>4. i * SumFunctionOnSet(y, V) <= p * st
    BY <1>4, <1>5, <2>2, <2>3, ValidatorsAssumption, SumScaled, Zenon
  <2>5. SumFunctionOnSet(y, V) \in Int
    BY <1>0, <1>5, ValidatorsAssumption, SumRemove
  <2> QED BY <2>1, <2>4, <2>5
<1>9. NewDecFromInt(TotalBondedTokens) = st * Precision /\ st \in Int
  <2>1. stk.tokens \in [V -> Int] /\ BondedValidators \in SUBSET V
    BY DEF TypeOK, StakingStores, BondedValidators
  <2>2. (\A v \in BondedValidators : t[v] = stk.tokens[v]) /\ (\A v \in V \ BondedValidators : t[v] = 0)
    BY <2>1 DEF t
  <2>3. SumFunctionOnSet(stk.tokens, BondedValidators) = SumFunctionOnSet(t, V)
    BY <1>4, <2>1, <2>2, ValidatorsAssumption, SumPart
  <2>4. SumFunctionOnSet(t, V) \in Int
    BY <1>0, <1>4, ValidatorsAssumption, SumRemove
  <2> QED BY <2>3, <2>4 DEF TotalBondedTokens, NewDecFromInt
<1>10. sk \in Int /\ SumFunctionOnSet(y, V) \in Int
  BY <1>0, <1>4, <1>5, ValidatorsAssumption, SumRemove
<1> DEFINE N == Cardinality(V) * n
           sy == SumFunctionOnSet(y, V)
           z == st * Precision
<1>11. N \in Int /\ z \in Int /\ p * st = 2 * z
  BY <1>0, <1>9
<1> HIDE DEF N, sy, z, sk, st, p
<1>12. 2 * sk = sy + N /\ sy <= 2 * z
  BY <1>6, <1>7, <1>8, <1>10, <1>11 DEF N, sy
<1>13. 2 * (sk - z) <= N
  BY <1>10, <1>11, <1>12 DEF sy
<1> QED BY <1>2, <1>9, <1>13 DEF N, z, n

\* The votes never carry more power than there are bonded tokens, but for the half unit by
\* which each of the powers added may have been rounded up: nobody's stake is counted twice
\* at any validator, and none beyond the validator's shares (tallyVotes, Tally).
THEOREM TurnoutBounded == Spec => []TurnoutWithinBonded
BY TurnoutFrom, TypeCorrect, SharesMatchStake, CountedOnce, PTL
-----------------------------------------------------------------------------
(***************************************************************************)
(* The outcome                                                             *)
(***************************************************************************)

\* The averages stay shares of 1.
EMAInRange == ema \in [Kinds -> 0 .. Precision]

\* The parameters of a kind, as Params.ValidateBasic admits them.
LEMMA KindParams ==
    ASSUME NEW k \in Kinds
    PROVE  /\ QuorumRange[k].min \in Nat /\ QuorumRange[k].max \in Nat
           /\ QuorumRange[k].min <= QuorumRange[k].max /\ QuorumRange[k].max <= Precision
           /\ Threshold[k] \in Nat
BY OutcomeParamsAssumption, PrecisionAssumption

\* computeQuorum stays within the range of the kind.
LEMMA QuorumBetween ==
    ASSUME EMAInRange, NEW k \in Kinds
    PROVE  GetQuorum(k) \in QuorumRange[k].min .. QuorumRange[k].max
<1> DEFINE lo == QuorumRange[k].min
           hi == QuorumRange[k].max
           d == hi - lo
           e == ema[k]
           x == d * e
<1>1. lo \in Nat /\ hi \in Nat /\ lo <= hi
  BY KindParams
<1>2. d \in Nat /\ e \in Nat /\ e <= Precision /\ Precision \in Nat
  BY <1>1, PrecisionAssumption DEF EMAInRange
<1>3. GetQuorum(k) = lo + ChopPrecisionAndRound(x)
  BY DEF GetQuorum, ComputeQuorum, Mul
<1> HIDE DEF e
<1>4. d = hi - lo
  OBVIOUS
<1> HIDE DEF d, lo, hi
<1>5. x \in Nat /\ x <= Precision * d
  <2>1. e * d <= Precision * d /\ e * d \in Nat
    BY <1>2, MulMono
  <2> QED BY <2>1, <1>2
<1> HIDE DEF x
<1>6. ChopPrecisionAndRound(x) \in Nat /\ ChopPrecisionAndRound(x) <= d
  BY <1>2, <1>5, ChopBounds
<1> QED BY <1>1, <1>3, <1>4, <1>6 DEF lo, hi

\* No participation exceeds 1: what rounding adds to the total rounds away.
LEMMA ParticipationWithinOne ==
    ASSUME NEW t \in Counts
    PROVE  PercentVoting(t) \in 0 .. Precision
<1> DEFINE P == Precision
           b == t.bonded
           n == t.total
           d == b * P
<1>0. P \in Nat \ {0} /\ P * P \in Nat \ {0}
  BY PrecisionAssumption
<1>1. b \in Nat /\ n \in Nat /\ (b > 0 => 2 * (n - d) < b)
  BY CountsAssumption DEF NewDecFromInt
<1> HIDE DEF b, n
<1>2. CASE b = 0
  BY <1>0, <1>2 DEF PercentVoting, b
<1>3. CASE b > 0
  <2> DEFINE c == Quo(n, d)
  <2>1. PercentVoting(t) = c
    BY <1>3, <1>1 DEF PercentVoting, NewDecFromInt, b, n
  <2>2. d \in Nat \ {0} /\ P + 1 \in Nat
    BY <1>0, <1>1, <1>3
  <2> HIDE DEF d
  <2>3. c \in Nat /\ (c >= P + 1 => d * (P * (2 * (P + 1) - 1)) <= 2 * (n * P * P))
    BY <2>2, <1>1, QuoRounds
  <2> HIDE DEF c
  <2>4. ASSUME c >= P + 1 PROVE FALSE
    <3> DEFINE l == b * (2 * P + 1)
               r == 2 * n
               pp == P * P
    <3>1. d * (P * (2 * (P + 1) - 1)) = l * pp /\ 2 * (n * P * P) = r * pp
      BY <1>0, <1>1 DEF d
    <3>2. l \in Int /\ r \in Int /\ pp \in Nat \ {0}
      BY <1>0, <1>1
    <3>3. l * pp <= r * pp
      BY <2>3, <2>4, <3>1
    <3>4. l = 2 * d + b
      BY <1>0, <1>1 DEF d
    <3> HIDE DEF l, r, pp
    <3>5. l <= r
      BY <3>2, <3>3, Cancel
    <3>6. l <= 2 * n
      BY <3>5 DEF r
    <3> QED BY <1>1, <1>3, <2>2, <3>4, <3>6
  <2> QED BY <1>0, <2>1, <2>3, <2>4
<1> QED BY <1>1, <1>2, <1>3

\* The weights 0.8 and 0.2 add up to 1, so the average of two shares is one.
LEMMA FormulaWithinOne ==
    ASSUME NEW old \in 0 .. Precision, NEW new \in 0 .. Precision
    PROVE  Formula(old, new) \in 0 .. Precision
<1> DEFINE m == Precision \div 10
           x == old * (8 * m)
           y == new * (2 * m)
<1>1. m \in Nat /\ Precision = 10 * m /\ Precision \in Nat /\ old \in Nat /\ new \in Nat
  BY PrecisionAssumption, OutcomeParamsAssumption
<1>2. Formula(old, new) = ChopPrecisionAndRound(x) + ChopPrecisionAndRound(y)
  BY DEF Formula, Mul
<1> HIDE DEF m
<1>3. 8 * m \in Nat /\ 2 * m \in Nat
  BY <1>1
<1>4. x \in Nat /\ x <= Precision * (8 * m)
  BY <1>1, <1>3, MulMono
<1>5. y \in Nat /\ y <= Precision * (2 * m)
  BY <1>1, <1>3, MulMono
<1> HIDE DEF x, y
<1>6. ChopPrecisionAndRound(x) \in Nat /\ ChopPrecisionAndRound(x) <= 8 * m
  BY <1>3, <1>4, ChopBounds
<1>7. ChopPrecisionAndRound(y) \in Nat /\ ChopPrecisionAndRound(y) <= 2 * m
  BY <1>3, <1>5, ChopBounds
<1> QED BY <1>1, <1>2, <1>6, <1>7

\* The averages are shares of 1 at genesis and after every vote.
LEMMA AveragesInRange == OutcomeSpec => []EMAInRange
<1>1. OutcomeInit => EMAInRange
  BY CountsAssumption DEF OutcomeInit, EMAInRange
<1>2. ASSUME EMAInRange, [OutcomeNext]_ema PROVE EMAInRange'
  <2>1. CASE UNCHANGED ema
    BY <1>2, <2>1 DEF EMAInRange
  <2>2. CASE OutcomeNext
    <3>1. PICK kinds \in SUBSET Kinds \ {{}}, t \in Counts :
              UpdateParticipationEMA(kinds, PercentVoting(t))
      BY <2>2 DEF OutcomeNext, Participations
    <3>2. PercentVoting(t) \in 0 .. Precision
      BY ParticipationWithinOne
    <3>3. \A k \in Kinds : ema[k] \in 0 .. Precision
      BY <1>2 DEF EMAInRange
    <3>4. \A k \in Kinds : Formula(ema[k], PercentVoting(t)) \in 0 .. Precision
      BY <3>2, <3>3, FormulaWithinOne
    <3> QED BY <3>1, <3>3, <3>4, Zenon DEF UpdateParticipationEMA, EMAInRange
  <2> QED BY <1>2, <2>1, <2>2
<1> QED BY <1>1, <1>2, PTL DEF OutcomeSpec

\* The highest of the numbers of some kinds.
LEMMA MaxOverKinds ==
    ASSUME NEW f \in [Kinds -> Int], NEW S \in SUBSET Kinds, "any" \in S
    PROVE  /\ Max({f[k] : k \in S}) \in Int
           /\ \E l \in S : Max({f[k] : k \in S}) = f[l]
           /\ \A l \in S : f[l] <= Max({f[k] : k \in S})
<1> DEFINE V == {f[k] : k \in S}
<1>1. \E k \in S : \A l \in S : f[k] >= f[l]
  <2> DEFINE m == IF "law" \in S /\ f["law"] > f["any"] THEN "law" ELSE "any"
             n == IF "amendment" \in S /\ f["amendment"] > f[m] THEN "amendment" ELSE m
  <2>1. \A k \in S : f[k] \in Int
    OBVIOUS
  <2>2. m \in S /\ f[m] >= f["any"] /\ ("law" \in S => f[m] >= f["law"])
    BY <2>1
  <2> HIDE DEF m
  <2>3. n \in S /\ f[n] >= f[m] /\ ("amendment" \in S => f[n] >= f["amendment"])
    BY <2>1, <2>2
  <2> HIDE DEF n
  <2>4. \A l \in S : l \in {"any", "law", "amendment"}
    BY DEF Kinds
  <2>5. \A l \in S : f[n] >= f[l]
    BY <2>1, <2>2, <2>3, <2>4
  <2> QED BY <2>3, <2>5
<1>2. PICK x \in V : \A y \in V : x >= y
  BY <1>1
<1>3. Max(V) \in V /\ \A y \in V : Max(V) >= y
  BY <1>2 DEF Max
<1>4. \A k \in S : f[k] \in V /\ f[k] \in Int
  OBVIOUS
<1> QED BY <1>3, <1>4, Zenon

\* What getQuorumAndThreshold asks of one kind.
NeededThreshold(k, endorsed) == IF k = "law" /\ endorsed THEN Threshold["any"] ELSE Threshold[k]

\* A proposal needs the quorum and the threshold of a kind it applies to, and
\* for no kind it applies to less than that kind needs.
LEMMA NeededIs ==
    ASSUME EMAInRange, NEW kinds \in SUBSET Kinds, NEW endorsed \in BOOLEAN
    PROVE  LET needed == GetQuorumAndThreshold(kinds, endorsed)
               applying == kinds \cup {"any"}
           IN  /\ \E k \in applying : needed.quorum = GetQuorum(k)
               /\ \E k \in applying : needed.threshold = NeededThreshold(k, endorsed)
               /\ \A k \in applying : /\ GetQuorum(k) <= needed.quorum
                                      /\ NeededThreshold(k, endorsed) <= needed.threshold
               /\ needed.quorum \in Nat /\ needed.threshold \in Nat
<1> DEFINE needed == GetQuorumAndThreshold(kinds, endorsed)
           S == kinds \cup {"any"}
           q == [k \in Kinds |-> GetQuorum(k)]
           h == [k \in Kinds |-> NeededThreshold(k, endorsed)]
<1>1. S \in SUBSET Kinds /\ "any" \in S
  BY DEF Kinds
<1>2. \A k \in Kinds : GetQuorum(k) \in Nat
  BY QuorumBetween, KindParams
<1>3. \A k \in Kinds : NeededThreshold(k, endorsed) \in Nat
  BY KindParams DEF NeededThreshold, Kinds
<1>4. q \in [Kinds -> Int] /\ h \in [Kinds -> Int]
  BY <1>2, <1>3
<1>5. {q[k] : k \in S} = {GetQuorum(k) : k \in S} /\ {h[k] : k \in S} = {NeededThreshold(k, endorsed) : k \in S}
  BY <1>1, Zenon
<1>6. needed.quorum = Max({q[k] : k \in S}) /\ needed.threshold = Max({h[k] : k \in S})
  BY <1>5, Zenon DEF GetQuorumAndThreshold, NeededThreshold
<1>7. \A k \in S : q[k] = GetQuorum(k) /\ h[k] = NeededThreshold(k, endorsed)
  BY <1>1
<1> HIDE DEF needed, q, h, S
<1>8. (\E k \in S : needed.quorum = q[k]) /\ \A k \in S : q[k] <= needed.quorum
  BY <1>1, <1>4, <1>6, MaxOverKinds, Zenon
<1>9. (\E k \in S : needed.threshold = h[k]) /\ \A k \in S : h[k] <= needed.threshold
  BY <1>1, <1>4, <1>6, MaxOverKinds, Zenon
<1>10. needed.quorum \in Nat /\ needed.threshold \in Nat
  BY <1>1, <1>2, <1>3, <1>7, <1>8, <1>9
<1> QED BY <1>7, <1>8, <1>9, <1>10, Zenon DEF needed, S

\* What Tally asks of the votes for a proposal to pass.
LEMMA PassedIff ==
    ASSUME NEW kinds, NEW endorsed, NEW t
    PROVE  LET needed == GetQuorumAndThreshold(kinds, endorsed)
               active == t.total - t.abstain
           IN  Verdict(kinds, endorsed, t) = "passed" <=>
                   /\ t.bonded # 0 /\ ~(PercentVoting(t) < needed.quorum)
                   /\ active # 0 /\ Quo(t.yes, active) > needed.threshold
BY DEF Verdict

\* Bundling adds requirements only.
LEMMA BundlingAdds ==
    ASSUME EMAInRange, NEW kinds \in SUBSET Kinds, NEW endorsed \in BOOLEAN, NEW k \in kinds,
           NEW t \in Counts, Verdict(kinds, endorsed, t) = "passed"
    PROVE  Verdict({k}, endorsed, t) = "passed"
<1> DEFINE all == GetQuorumAndThreshold(kinds, endorsed)
           one == GetQuorumAndThreshold({k}, endorsed)
           active == t.total - t.abstain
<1>1. all.quorum \in Nat /\ all.threshold \in Nat /\ one.quorum \in Nat /\ one.threshold \in Nat
  BY NeededIs, Zenon
<1>2. one.quorum <= all.quorum /\ one.threshold <= all.threshold
  <2>1. PICK l \in {k} \cup {"any"} : one.quorum = GetQuorum(l)
    BY NeededIs, Zenon
  <2>2. PICK m \in {k} \cup {"any"} : one.threshold = NeededThreshold(m, endorsed)
    BY NeededIs, Zenon
  <2>3. l \in kinds \cup {"any"} /\ m \in kinds \cup {"any"}
    OBVIOUS
  <2>4. GetQuorum(l) <= all.quorum /\ NeededThreshold(m, endorsed) <= all.threshold
    BY <2>3, NeededIs, Zenon
  <2> QED BY <2>1, <2>2, <2>4
<1>3. PercentVoting(t) \in Nat
  BY ParticipationWithinOne, PrecisionAssumption
<1>4. active # 0 => Quo(t.yes, active) \in Nat
  <2>1. t.yes \in Nat /\ active \in Nat
    BY CountsAssumption
  <2> HIDE DEF active
  <2> QED BY <2>1, QuoRounds
<1>5. /\ t.bonded # 0 /\ ~(PercentVoting(t) < all.quorum)
      /\ active # 0 /\ Quo(t.yes, active) > all.threshold
  BY PassedIff
<1> HIDE DEF all, one, active
<1>6. ~(PercentVoting(t) < one.quorum) /\ Quo(t.yes, active) > one.threshold
  BY <1>1, <1>2, <1>3, <1>4, <1>5
<1> QED BY <1>5, <1>6, PassedIff DEF one, active

\* The exact shares behind the two comparisons of Tally.
LEMMA MajorityIs ==
    ASSUME EMAInRange, NEW kinds \in SUBSET Kinds, NEW endorsed \in BOOLEAN, NEW t \in Counts
    PROVE  LET needed == GetQuorumAndThreshold(kinds, endorsed)
               active == t.total - t.abstain
               passed == Verdict(kinds, endorsed, t) = "passed"
           IN  /\ passed => /\ t.yes * Precision > needed.threshold * active
                            /\ 2 * t.total >= (2 * needed.quorum - 1) * t.bonded
               /\ /\ t.bonded > 0 /\ active > 0
                  /\ t.total >= needed.quorum * t.bonded
                  /\ t.yes * Precision >= (needed.threshold + 1) * active
                  => passed
<1> DEFINE P == Precision
           pp == P * P
           needed == GetQuorumAndThreshold(kinds, endorsed)
           q == needed.quorum
           h == needed.threshold
           n == t.total
           b == t.bonded
           yes == t.yes
           active == t.total - t.abstain
           d == b * P
           passed == Verdict(kinds, endorsed, t) = "passed"
<1>0. P \in Nat \ {0} /\ pp \in Nat \ {0}
  BY PrecisionAssumption
<1>1. q \in Nat /\ h \in Nat
  BY NeededIs, Zenon
<1>2. b \in Nat /\ n \in Nat /\ yes \in Nat /\ active \in Nat
  BY CountsAssumption
<1>3. passed <=> /\ b # 0 /\ ~(PercentVoting(t) < q)
                 /\ active # 0 /\ Quo(yes, active) > h
  BY PassedIff, Zenon
<1>4. b # 0 => PercentVoting(t) = Quo(n, d)
  BY DEF PercentVoting, NewDecFromInt
<1> HIDE DEF P, q, h, n, b, yes, active, passed, needed
<1>5. ASSUME b # 0
      PROVE  /\ Quo(n, d) \in Nat
             /\ Quo(n, d) >= q => (2 * q - 1) * b <= 2 * n
             /\ n >= q * b => q <= Quo(n, d)
  <2>1. d \in Nat \ {0}
    BY <1>0, <1>2, <1>5
  <2>2. d * (P * (2 * q - 1)) = ((2 * q - 1) * b) * pp /\ 2 * (n * P * P) = (2 * n) * pp
    BY <1>0, <1>1, <1>2
  <2>3. d * (P * q) = (q * b) * pp /\ n * P * P = n * pp
    BY <1>0, <1>1, <1>2
  <2> HIDE DEF d
  <2>4. /\ Quo(n, d) \in Nat
        /\ Quo(n, d) >= q => d * (P * (2 * q - 1)) <= 2 * (n * P * P)
        /\ d * (P * q) <= n * P * P => q <= Quo(n, d)
    BY <2>1, <1>1, <1>2, QuoRounds DEF P
  <2> HIDE DEF pp
  <2>5. ASSUME Quo(n, d) >= q PROVE (2 * q - 1) * b <= 2 * n
    <3> DEFINE l == (2 * q - 1) * b
               r == 2 * n
    <3>1. l \in Int /\ r \in Int
      BY <1>1, <1>2
    <3>2. l * pp <= r * pp
      BY <2>2, <2>4, <2>5
    <3> HIDE DEF l, r
    <3>3. l <= r
      BY <3>1, <3>2, <1>0, Cancel
    <3> QED BY <3>3 DEF l, r
  <2>6. ASSUME n >= q * b PROVE q <= Quo(n, d)
    <3> DEFINE l == q * b
    <3>1. l \in Nat /\ l <= n
      BY <1>1, <1>2, <2>6
    <3> HIDE DEF l
    <3>2. l * pp <= n * pp
      BY <3>1, <1>0, <1>2, MulMono
    <3> QED BY <3>2, <2>3, <2>4 DEF l
  <2> QED BY <2>4, <2>5, <2>6
<1>6. ASSUME active # 0
      PROVE  /\ Quo(yes, active) \in Nat
             /\ Quo(yes, active) >= h + 1 => yes * P > h * active
             /\ yes * P >= (h + 1) * active => h + 1 <= Quo(yes, active)
  <2>1. active \in Nat \ {0} /\ h + 1 \in Nat
    BY <1>1, <1>2, <1>6
  <2>2. /\ Quo(yes, active) \in Nat
        /\ Quo(yes, active) >= h + 1 => active * (P * (2 * (h + 1) - 1)) <= 2 * (yes * P * P)
        /\ active * (P * (h + 1)) <= yes * P * P => h + 1 <= Quo(yes, active)
    BY <2>1, <1>2, QuoRounds DEF P
  <2>3. active * (P * (2 * (h + 1) - 1)) = (2 * (h * active) + active) * P
        /\ 2 * (yes * P * P) = (2 * (yes * P)) * P
    BY <1>0, <1>1, <1>2
  <2>4. active * (P * (h + 1)) = ((h + 1) * active) * P
    BY <1>0, <1>1, <1>2
  <2>5. ASSUME Quo(yes, active) >= h + 1 PROVE yes * P > h * active
    <3> DEFINE x == h * active
               y == yes * P
               l == 2 * x + active
               r == 2 * y
    <3>1. x \in Nat /\ y \in Nat
      BY <1>0, <1>1, <1>2
    <3>2. l * P <= r * P
      BY <2>2, <2>3, <2>5
    <3> HIDE DEF x, y
    <3>3. l \in Int /\ r \in Int
      BY <3>1, <1>2
    <3> HIDE DEF l, r
    <3>4. l <= r
      BY <3>2, <3>3, <1>0, Cancel
    <3>5. x < y
      BY <3>1, <3>4, <2>1 DEF l, r
    <3> QED BY <3>1, <3>5 DEF x, y
  <2>6. ASSUME yes * P >= (h + 1) * active PROVE h + 1 <= Quo(yes, active)
    <3> DEFINE l == (h + 1) * active
               r == yes * P
    <3>1. l \in Nat /\ r \in Nat /\ l <= r
      BY <1>0, <1>1, <1>2, <2>6
    <3> HIDE DEF l, r
    <3>2. l * P <= r * P
      BY <3>1, <1>0, MulMono
    <3> QED BY <3>2, <2>2, <2>4 DEF l, r
  <2> QED BY <2>2, <2>5, <2>6
<1>7. ASSUME passed PROVE yes * P > h * active /\ 2 * n >= (2 * q - 1) * b
  <2>1. b # 0 /\ active # 0 /\ Quo(n, d) >= q /\ Quo(yes, active) >= h + 1
    BY <1>1, <1>3, <1>4, <1>5, <1>6, <1>7
  <2> QED BY <2>1, <1>1, <1>2, <1>5, <1>6
<1>8. ASSUME b > 0, active > 0, n >= q * b, yes * P >= (h + 1) * active PROVE passed
  <2>1. b # 0 /\ active # 0
    BY <1>2, <1>8
  <2>2. q <= Quo(n, d) /\ h + 1 <= Quo(yes, active) /\ Quo(n, d) \in Nat /\ Quo(yes, active) \in Nat
    BY <2>1, <1>5, <1>6, <1>8
  <2> HIDE DEF d
  <2>3. ~(PercentVoting(t) < q) /\ Quo(yes, active) > h
    BY <2>1, <2>2, <1>1, <1>4
  <2> QED BY <2>1, <2>3, <1>3
<1> QED BY <1>7, <1>8, Zenon DEF P, q, h, n, b, yes, active, passed, needed

\* Whatever the participation was, each quorum stays within the bounds that
\* the parameters set for its kind (UpdateParticipationEMA, computeQuorum).
THEOREM QuorumsBounded == OutcomeSpec => []QuorumWithinRange
<1>1. EMAInRange => QuorumWithinRange
  BY QuorumBetween DEF QuorumWithinRange
<1> QED BY <1>1, AveragesInRange, PTL

\* A proposal passes only with the exact majority and turnout that Tally
\* promises, and does pass a unit above them, whatever was rounded.
THEOREM PassingNeedsMajority == OutcomeSpec => []PassedHasMajority
<1>1. EMAInRange => PassedHasMajority
  BY MajorityIs DEF PassedHasMajority
<1> QED BY <1>1, AveragesInRange, PTL

\* A proposal that bundles messages of several kinds passes only if it would
\* pass as a proposal of each kind alone (getQuorumAndThreshold).
THEOREM BundlingNeverHelps == OutcomeSpec => []BundlingIsNoShortcut
<1>1. EMAInRange => BundlingIsNoShortcut
  BY BundlingAdds DEF BundlingIsNoShortcut
<1> QED BY <1>1, AveragesInRange, PTL
=============================================================================
