-------------------------- MODULE ProposalsProofs --------------------------
(***************************************************************************)
(* The properties of Proposals, for every set of accounts, voters, amounts *)
(* and valid parameters: the callbacks of EndBlocker and the messages keep *)
(* the inductive invariant, which implies the properties.                  *)
(***************************************************************************)
EXTENDS ProposalKeeperProofs

\* What the walks that are over have left behind.
Walked ==
    /\ phase \in {"quorum", "active", "commit"} => \A k \in gov.inactive : k[1] > now
    /\ phase \in {"active", "commit"} => \A e \in gov.quorumChecks : e.time > now
    /\ phase = "commit" => \A k \in gov.active : k[1] > now

IInv == Sound(gov) /\ Escrowed(gov) /\ Walked /\ TypeOK
-----------------------------------------------------------------------------
(***************************************************************************)
(* The callbacks of EndBlocker                                             *)
(***************************************************************************)

\* The proposal leaves the queues with its last record q, or with none.
Ended(h, g, id, q) ==
    /\ h \in Stores
    /\ h.proposals = [g.proposals EXCEPT ![id] = q]
    /\ h.inactive = g.inactive \ {<<g.proposals[id].depositEnd, id>>}
    /\ h.active = g.active \ {<<g.proposals[id].votingEnd, id>>}
    /\ h.votingPeriod = g.votingPeriod \ {id}
    /\ h.quorumChecks = g.quorumChecks
    /\ h.nextId = g.nextId /\ h.error = g.error
    /\ h.undecodable \subseteq g.undecodable

LEMMA EndedSound ==
    ASSUME NEW g, Sound(g), Escrowed(g), NEW id \in ProposalIds, g.proposals[id].status \in Open,
           \A e \in g.quorumChecks : e.id # id,
           NEW q \in ProposalRecords, WellFormed(q), q.status \notin Open,
           NEW h, Ended(h, g, id, q), Floored(h), Refunded(h, g, id) \/ Burned(h, g, id)
    PROVE  /\ Sound(h) /\ Escrowed(h)
           /\ h.proposals[id] = q
           /\ \A x \in ProposalIds \ {id} : h.proposals[x] = g.proposals[x]
<1>1. g \in Stores /\ g.nextId \in Nat /\ g.proposals \in [ProposalIds -> ProposalRecords]
  BY DEF Sound, Typed, Stores
<1>2. Requeued(h, g, id, q)
  BY DEF Ended, Requeued, Open
<1>3. id < g.nextId
  BY <1>1, FiniteAssumption DEF Sound, Recorded, Open
<1>4. Typed(h) /\ Recorded(h) /\ Queued(h)
  BY <1>2, <1>3, RequeuedSound DEF Sound, Ended
<1>5. Checked(h)
  BY ChecksKept DEF Sound, Ended
<1>6. Decodable(h)
  BY DEF Sound, Decodable, Ended
<1>7. h.proposals[id] = q /\ \A x \in ProposalIds \ {id} : h.proposals[x] = g.proposals[x]
  BY <1>1 DEF Ended
<1>8. Escrowed(h)
  BY <1>1, <1>7, ReleaseEscrowed DEF Ended
<1> QED BY <1>4, <1>5, <1>6, <1>7, <1>8 DEF Sound

\* The record of a failed proposal is replaced, its deposits are paid back, and the queues
\* are left to the caller.
LEMMA FailUnsupportedIs ==
    ASSUME Sound(gov), Escrowed(gov), NEW id \in ProposalIds
    PROVE  LET h == FailUnsupportedProposal(id)
               q == [gov.proposals[id] EXCEPT !.status = "failed"]
           IN  /\ h \in Stores /\ q \in ProposalRecords
               /\ h.proposals = [gov.proposals EXCEPT ![id] = q]
               /\ h.undecodable = gov.undecodable \ {id}
               /\ h.votingPeriod = gov.votingPeriod \ {id}
               /\ h.inactive = gov.inactive /\ h.active = gov.active
               /\ h.quorumChecks = gov.quorumChecks
               /\ h.nextId = gov.nextId /\ h.error = gov.error /\ h.params = gov.params
               /\ h.lastMinDeposit = gov.lastMinDeposit
               /\ h.lastMinInitialDeposit = gov.lastMinInitialDeposit
               /\ Refunded(h, gov, id)
<1> DEFINE q == [gov.proposals[id] EXCEPT !.status = "failed"]
           s == SetProposal(gov, id, q)
           u == [s EXCEPT !.undecodable = @ \ {id}]
           h == RefundAndDeleteDeposits(u, id)
<1>1. gov \in Stores /\ gov.proposals[id] \in ProposalRecords
  BY DEF Sound, Typed, Stores
<1>2. FailUnsupportedProposal(id) = h
  BY DEF FailUnsupportedProposal
<1>3. q \in ProposalRecords /\ q.status = "failed"
  BY <1>1 DEF ProposalRecords, Closed
<1> HIDE DEF q
<1>4. SetTo(s, gov, id, q)
  BY <1>1, <1>3, SetProposalIs
<1> HIDE DEF s
<1>5. /\ u \in Stores /\ u.proposals = s.proposals /\ u.undecodable = gov.undecodable \ {id}
      /\ u.votingPeriod = gov.votingPeriod \ {id}
      /\ u.inactive = gov.inactive /\ u.active = gov.active /\ u.quorumChecks = gov.quorumChecks
      /\ u.nextId = gov.nextId /\ u.error = gov.error /\ u.params = gov.params
      /\ u.lastMinDeposit = gov.lastMinDeposit
      /\ u.lastMinInitialDeposit = gov.lastMinInitialDeposit
      /\ SameMoney(u, gov)
  BY <1>3, <1>4, Zenon DEF SetTo, Stores, SameMoney
<1> HIDE DEF u
<1>6. DepositsOn(u, id) = DepositsOn(gov, id) /\ DepositsOn(gov, id) <= gov.escrow
  BY <1>1, <1>5, EscrowCovers DEF SameMoney, DepositsOn
<1>7. SameLife(h, u) /\ Refunded(h, u, id)
  BY <1>5, <1>6, PaymentsSucceed DEF SameMoney
<1> HIDE DEF h
<1>8. Refunded(h, gov, id)
  BY <1>5, <1>6, <1>7 DEF Refunded, SameMoney
<1>9. /\ h \in Stores /\ h.proposals = [gov.proposals EXCEPT ![id] = q]
      /\ h.undecodable = gov.undecodable \ {id} /\ h.votingPeriod = gov.votingPeriod \ {id}
      /\ h.inactive = gov.inactive /\ h.active = gov.active /\ h.quorumChecks = gov.quorumChecks
      /\ h.nextId = gov.nextId /\ h.error = gov.error /\ h.params = gov.params
      /\ h.lastMinDeposit = gov.lastMinDeposit
      /\ h.lastMinInitialDeposit = gov.lastMinInitialDeposit
  BY <1>4, <1>5, <1>7 DEF SameLife, SetTo
<1> QED BY <1>2, <1>3, <1>8, <1>9 DEF q

\* A proposal that never came to a vote is deleted.
LEMMA DeleteUnvoted ==
    ASSUME NEW g \in Stores, NEW id \in ProposalIds, g.proposals[id].status # "none",
           g.proposals[id].votingEnd = Nil, id \notin g.undecodable
    PROVE  LET h == DeleteProposal(g, id)
           IN  /\ h \in Stores
               /\ h.proposals = [g.proposals EXCEPT ![id] = NoProposal]
               /\ h.inactive = g.inactive \ {<<g.proposals[id].depositEnd, id>>}
               /\ h.active = g.active /\ h.votingPeriod = g.votingPeriod
               /\ h.quorumChecks = g.quorumChecks /\ h.undecodable = g.undecodable
               /\ h.nextId = g.nextId /\ h.error = g.error /\ h.params = g.params
               /\ h.lastMinDeposit = g.lastMinDeposit
               /\ h.lastMinInitialDeposit = g.lastMinInitialDeposit
               /\ SameMoney(h, g)
<1> DEFINE x == <<g.proposals[id].depositEnd, id>>
           h == [g EXCEPT !.proposals[id] = NoProposal, !.inactive = @ \ {x}]
<1>1. DeleteProposal(g, id) = h
  BY DEF DeleteProposal
<1>2. NoProposal \in ProposalRecords
  BY DEF NoProposal, ProposalRecords, Times
<1> HIDE DEF x
<1>3. /\ h \in Stores
      /\ h.proposals = [g.proposals EXCEPT ![id] = NoProposal]
      /\ h.inactive = g.inactive \ {x}
      /\ h.active = g.active /\ h.votingPeriod = g.votingPeriod
      /\ h.quorumChecks = g.quorumChecks /\ h.undecodable = g.undecodable
      /\ h.nextId = g.nextId /\ h.error = g.error /\ h.params = g.params
      /\ h.lastMinDeposit = g.lastMinDeposit
      /\ h.lastMinInitialDeposit = g.lastMinInitialDeposit
      /\ SameMoney(h, g)
  BY <1>2, Zenon DEF Stores, SameMoney
<1> QED BY <1>1, <1>3 DEF x

\* The end of a deposit period: the proposal goes to a vote or disappears, and its deposits
\* with it.
LEMMA EndDepositPeriodSound ==
    ASSUME Sound(gov), Escrowed(gov), now \in Nat, NEW id \in ProposalIds,
           gov.proposals[id].status = "deposit"
    PROVE  LET h == EndDepositPeriod(id)
           IN  /\ Sound(h) /\ Escrowed(h)
               /\ \A x \in ProposalIds \ {id} : h.proposals[x] = gov.proposals[x]
               /\ h.proposals[id].status \in {"none", "voting"}
<1> DEFINE p == gov.proposals[id]
           h == EndDepositPeriod(id)
<1>1. /\ gov \in Stores /\ gov.proposals \in [ProposalIds -> ProposalRecords]
      /\ p.depositEnd \in Nat /\ p.votingEnd = Nil /\ p.extended = 0
      /\ id \notin gov.votingPeriod /\ <<Nil, id>> \notin gov.active
      /\ \A e \in gov.quorumChecks : e.id # id
  BY DEF Sound, Typed, Stores, Recorded, WellFormed, Queued, Checked, Nil
<1>2. NoProposal \in ProposalRecords /\ WellFormed(NoProposal) /\ NoProposal.status = "none"
  BY DEF NoProposal, ProposalRecords, Times, WellFormed
<1>3. ASSUME NEW r, Ended(r, gov, id, NoProposal), r.params = gov.params,
             r.lastMinDeposit = gov.lastMinDeposit,
             r.lastMinInitialDeposit = gov.lastMinInitialDeposit,
             Refunded(r, gov, id) \/ Burned(r, gov, id)
      PROVE  /\ Sound(r) /\ Escrowed(r)
             /\ \A x \in ProposalIds \ {id} : r.proposals[x] = gov.proposals[x]
             /\ r.proposals[id].status \in {"none", "voting"}
  <2>1. Floored(r)
    BY <1>3, Zenon DEF Sound, Floored
  <2>2. gov.proposals[id].status \in Open /\ NoProposal.status \notin Open
    BY <1>2 DEF Open
  <2>3. /\ Sound(r) /\ Escrowed(r) /\ r.proposals[id] = NoProposal
        /\ \A x \in ProposalIds \ {id} : r.proposals[x] = gov.proposals[x]
    BY <1>1, <1>2, <1>3, <2>1, <2>2, EndedSound
  <2> QED BY <1>2, <2>3
<1>4. CASE id \in gov.undecodable
  <2> DEFINE f == FailUnsupportedProposal(id)
             q == [gov.proposals[id] EXCEPT !.status = "failed"]
  <2>1. h = DeleteProposal(f, id)
    BY <1>4 DEF EndDepositPeriod
  <2>2. /\ f \in Stores /\ q \in ProposalRecords
        /\ f.proposals = [gov.proposals EXCEPT ![id] = q]
        /\ f.undecodable = gov.undecodable \ {id}
        /\ f.votingPeriod = gov.votingPeriod \ {id}
        /\ f.inactive = gov.inactive /\ f.active = gov.active
        /\ f.quorumChecks = gov.quorumChecks
        /\ f.nextId = gov.nextId /\ f.error = gov.error /\ f.params = gov.params
        /\ f.lastMinDeposit = gov.lastMinDeposit
        /\ f.lastMinInitialDeposit = gov.lastMinInitialDeposit
        /\ Refunded(f, gov, id)
    BY FailUnsupportedIs
  <2>3. q.status = "failed" /\ q.depositEnd = p.depositEnd /\ q.votingEnd = Nil
    BY <1>1 DEF ProposalRecords
  <2> HIDE DEF f, q, h
  <2>4. f.proposals[id].depositEnd = p.depositEnd
    BY <1>1, <2>2, <2>3
  <2>5. /\ h \in Stores
        /\ h.proposals = [f.proposals EXCEPT ![id] = NoProposal]
        /\ h.inactive = f.inactive \ {<<f.proposals[id].depositEnd, id>>}
        /\ h.active = f.active /\ h.votingPeriod = f.votingPeriod
        /\ h.quorumChecks = f.quorumChecks /\ h.undecodable = f.undecodable
        /\ h.nextId = f.nextId /\ h.error = f.error /\ h.params = f.params
        /\ h.lastMinDeposit = f.lastMinDeposit
        /\ h.lastMinInitialDeposit = f.lastMinInitialDeposit
        /\ SameMoney(h, f)
    <3>1. /\ f \in Stores /\ f.proposals[id].status # "none"
          /\ f.proposals[id].votingEnd = Nil /\ id \notin f.undecodable
      BY <1>1, <2>2, <2>3
    <3> QED BY <2>1, <3>1, DeleteUnvoted, Zenon
  <2>6. Ended(h, gov, id, NoProposal)
    <3>1. h.proposals = [gov.proposals EXCEPT ![id] = NoProposal]
      BY <1>1, <2>2, <2>5
    <3>2. h.active = gov.active \ {<<p.votingEnd, id>>} /\ h.votingPeriod = gov.votingPeriod \ {id}
      BY <1>1, <2>2, <2>5
    <3>3. h.inactive = gov.inactive \ {<<p.depositEnd, id>>}
      BY <2>2, <2>4, <2>5
    <3> QED BY <2>2, <2>5, <3>1, <3>2, <3>3 DEF Ended
  <2>7. Refunded(h, gov, id)
    BY <2>2, <2>5, Zenon DEF Refunded, SameMoney
  <2>8. h.params = gov.params /\ h.lastMinDeposit = gov.lastMinDeposit
        /\ h.lastMinInitialDeposit = gov.lastMinInitialDeposit
    BY <2>2, <2>5
  <2> QED BY <1>3, <2>6, <2>7, <2>8, Zenon DEF h
<1>5. CASE id \notin gov.undecodable /\ p.total >= gov.lastMinDeposit.value
  <2>1. h = ActivateVotingPeriod(gov, now, id)
    BY <1>5 DEF EndDepositPeriod
  <2> DEFINE q == [p EXCEPT !.status = "voting", !.votingStart = now,
                            !.votingEnd = now + gov.params.votingPeriod]
  <2>2. Sound(h) /\ h.proposals = [gov.proposals EXCEPT ![id] = q] /\ SameMoney(h, gov)
    <3> HIDE DEF h
    <3> QED BY <1>5, <2>1, ActivateSound, Zenon
  <2>3. q.status = "voting" /\ q.total = p.total
    BY <1>1 DEF ProposalRecords
  <2> HIDE DEF q, h
  <2>4. /\ \A x \in ProposalIds \ {id} : h.proposals[x] = gov.proposals[x]
        /\ h.proposals[id] = q
    BY <1>1, <2>2
  <2>5. \A x \in ProposalIds : /\ h.proposals[x].status \in Open <=> gov.proposals[x].status \in Open
                               /\ h.proposals[x].total = gov.proposals[x].total
    BY <2>3, <2>4 DEF Open
  <2>6. Escrowed(h)
    BY <2>2, <2>5, SameEscrowed, Zenon
  <2> QED BY <2>2, <2>3, <2>4, <2>6 DEF h
<1>6. CASE id \notin gov.undecodable /\ ~(p.total >= gov.lastMinDeposit.value)
  <2> DEFINE d == DeleteProposal(gov, id)
  <2>1. h \in {DeleteAndBurnDeposits(d, id), RefundAndDeleteDeposits(d, id)}
    BY <1>6 DEF EndDepositPeriod
  <2>2. /\ d \in Stores
        /\ d.proposals = [gov.proposals EXCEPT ![id] = NoProposal]
        /\ d.inactive = gov.inactive \ {<<p.depositEnd, id>>}
        /\ d.active = gov.active /\ d.votingPeriod = gov.votingPeriod
        /\ d.quorumChecks = gov.quorumChecks /\ d.undecodable = gov.undecodable
        /\ d.nextId = gov.nextId /\ d.error = gov.error /\ d.params = gov.params
        /\ d.lastMinDeposit = gov.lastMinDeposit
        /\ d.lastMinInitialDeposit = gov.lastMinInitialDeposit
        /\ SameMoney(d, gov)
    BY <1>1, <1>6, DeleteUnvoted, Zenon
  <2> HIDE DEF d, h
  <2>3. DepositsOn(d, id) = DepositsOn(gov, id) /\ DepositsOn(d, id) <= d.escrow
    BY <1>1, <2>2, EscrowCovers DEF SameMoney, DepositsOn
  <2>4. SameLife(h, d) /\ (Refunded(h, d, id) \/ Burned(h, d, id))
    BY <2>1, <2>2, <2>3, PaymentsSucceed
  <2>5. Ended(h, gov, id, NoProposal)
    BY <1>1, <2>2, <2>4 DEF Ended, SameLife
  <2>6. Refunded(h, gov, id) \/ Burned(h, gov, id)
    BY <2>2, <2>3, <2>4 DEF Refunded, Burned, SameMoney
  <2>7. h.params = gov.params /\ h.lastMinDeposit = gov.lastMinDeposit
        /\ h.lastMinInitialDeposit = gov.lastMinInitialDeposit
    BY <2>2, <2>4 DEF SameLife
  <2> QED BY <1>3, <2>5, <2>6, <2>7, Zenon DEF h
<1> QED BY <1>4, <1>5, <1>6

\* What a callback of the walk over the quorum checks may do to the stores: everything but
\* the record of one proposal, which is extended at most, stays as it was.
Rechecked(h, g, id) ==
    /\ h.inactive = g.inactive
    /\ \A x \in ProposalIds \ {id} : h.proposals[x] = g.proposals[x]
    /\ h.proposals[id].status = "voting"
    /\ h.proposals[id].votingEnd >= g.proposals[id].votingEnd

LEMMA CheckQuorumSound ==
    ASSUME Sound(gov), Escrowed(gov), now \in Nat, NEW e \in gov.quorumChecks, NEW reached \in BOOLEAN
    PROVE  LET h == CheckQuorum(e, reached)
           IN  Sound(h) /\ Escrowed(h) /\ Rechecked(h, gov, e.id)
<1> DEFINE id == e.id
           p == gov.proposals[id]
           q == [p EXCEPT !.votingEnd = now + gov.params.maxVotingPeriodExtension, !.extended = @ + 1]
           removed == [gov EXCEPT !.quorumChecks = @ \ {e}]
           next == [e EXCEPT !.time = NextQuorumCheckTime(e, p.votingEnd, now), !.done = @ + 1]
           h == CheckQuorum(e, reached)
<1>1. /\ gov \in Stores /\ e \in QuorumCheckEntries /\ id \in ProposalIds
      /\ gov.proposals \in [ProposalIds -> ProposalRecords] /\ p \in ProposalRecords
      /\ p.status = "voting" /\ p.votingEnd \in Nat /\ p.extended = 0
      /\ \A f \in gov.quorumChecks : f.id = id => f = e
  BY DEF Sound, Typed, Stores, QuorumCheckEntries, Checked, Recorded, WellFormed
<1>2. id < gov.nextId
  <2>1. gov.nextId \in Nat /\ id \in Nat
    BY <1>1, FiniteAssumption, Zenon DEF Stores
  <2>2. id >= gov.nextId => p.status = "none"
    BY <1>1, Zenon DEF Sound, Recorded
  <2> QED BY <1>1, <2>1, <2>2
<1>3. /\ removed \in Stores /\ removed.quorumChecks = gov.quorumChecks \ {e}
      /\ SameMoney(removed, gov)
  BY <1>1, Zenon DEF Stores, SameMoney
<1>4. /\ removed.params = gov.params /\ removed.nextId = gov.nextId
      /\ removed.proposals = gov.proposals
      /\ removed.undecodable = gov.undecodable /\ removed.error = gov.error
      /\ removed.votingPeriod = gov.votingPeriod
      /\ removed.inactive = gov.inactive /\ removed.active = gov.active
      /\ removed.lastMinDeposit = gov.lastMinDeposit
      /\ removed.lastMinInitialDeposit = gov.lastMinInitialDeposit
  BY <1>1 DEF Stores
<1>5. /\ Sound(removed) /\ Escrowed(removed)
      /\ \A f \in removed.quorumChecks : f.id # id
  <2>1. Sound(removed)
    BY <1>3, <1>4 DEF Sound, Typed, Recorded, Queued, Checked, Floored, Decodable
  <2>2. Escrowed(removed)
    BY <1>3, <1>4, SameEscrowed, Zenon
  <2> QED BY <1>1, <1>3, <2>1, <2>2
<1>6. CASE id \in gov.undecodable
  <2>1. h = [gov EXCEPT !.error = TRUE]
    BY <1>6 DEF CheckQuorum, Err
  <2>2. /\ h \in Stores /\ h.quorumChecks = gov.quorumChecks
        /\ h.params = gov.params /\ h.nextId = gov.nextId /\ h.proposals = gov.proposals
        /\ h.undecodable = gov.undecodable
        /\ h.votingPeriod = gov.votingPeriod /\ h.inactive = gov.inactive /\ h.active = gov.active
        /\ h.lastMinDeposit = gov.lastMinDeposit
        /\ h.lastMinInitialDeposit = gov.lastMinInitialDeposit
        /\ SameMoney(h, gov)
    <3> HIDE DEF h
    <3> QED BY <1>1, <2>1, Zenon DEF Stores, SameMoney
  <2>3. Unregistering = "anytime"
    BY <1>6 DEF Sound, Decodable
  <2> HIDE DEF h
  <2>4. Sound(h)
    BY <2>2, <2>3 DEF Sound, Typed, Recorded, Queued, Checked, Floored, Decodable
  <2>5. Escrowed(h)
    BY <2>2, SameEscrowed
  <2>6. Rechecked(h, gov, id)
    BY <1>1, <2>2 DEF Rechecked
  <2> QED BY <2>4, <2>5, <2>6 DEF h
<1> HIDE DEF removed
<1>7. CASE id \notin gov.undecodable /\ reached /\ e.done > 0 /\ q.votingEnd > p.votingEnd
  <2> DEFINE s == SetProposal(removed, id, q)
             x == <<p.votingEnd, id>>
             y == <<q.votingEnd, id>>
             r == [s EXCEPT !.active = (@ \ {x}) \cup {y}]
  <2>1. h = r
    BY <1>1, <1>7 DEF CheckQuorum, removed
  <2>2. /\ q \in ProposalRecords /\ q.status = "voting" /\ q.votingEnd \in Nat
        /\ q.extended = 1 /\ q.total = p.total /\ WellFormed(q)
    <3> DEFINE v == now + gov.params.maxVotingPeriodExtension
    <3>1. v \in Nat
      BY <1>1, ParamsValid DEF Stores
    <3> HIDE DEF v
    <3>2. q = [p EXCEPT !.votingEnd = v, !.extended = 1]
      BY <1>1 DEF v
    <3> HIDE DEF p, q
    <3>3. q \in ProposalRecords /\ q.votingEnd = v /\ q.extended = 1
      BY <1>1, <3>1, <3>2, Zenon DEF ProposalRecords, Times
    <3>4. q.status = "voting" /\ q.total = p.total
      BY <1>1, <3>2 DEF ProposalRecords
    <3> QED BY <3>1, <3>3, <3>4 DEF WellFormed
  <2> HIDE DEF q
  <2>3. SetTo(s, removed, id, q)
    BY <1>1, <1>3, <2>2, SetProposalIs
  <2>4. y \in Nat \X ProposalIds
    BY <1>1, <2>2
  <2> HIDE DEF s, x, y, h
  <2>5. /\ r \in Stores /\ r.active = (removed.active \ {x}) \cup {y}
    BY <2>3, <2>4, Zenon DEF SetTo, Stores
  <2>6. /\ r.proposals = [removed.proposals EXCEPT ![id] = q]
        /\ r.votingPeriod = removed.votingPeriod \cup {id}
        /\ r.params = removed.params /\ r.nextId = removed.nextId
        /\ r.undecodable = removed.undecodable /\ r.error = removed.error
        /\ r.inactive = removed.inactive /\ r.quorumChecks = removed.quorumChecks
        /\ r.lastMinDeposit = removed.lastMinDeposit
        /\ r.lastMinInitialDeposit = removed.lastMinInitialDeposit
        /\ SameMoney(r, removed)
    BY <2>2, <2>3 DEF SetTo, Stores, SameMoney
  <2> HIDE DEF r
  <2>7. Requeued(r, removed, id, q)
    <3>1. <<p.depositEnd, id>> \notin removed.inactive
      BY <1>1, <1>4 DEF Sound, Queued, Stores
    <3> QED BY <1>4, <2>2, <2>5, <2>6, <3>1 DEF Requeued, x, y
  <2>8. Typed(r) /\ Recorded(r) /\ Queued(r)
    <3>1. id < r.nextId
      BY <1>2, <1>4, <2>6
    <3> QED BY <1>1, <1>5, <2>2, <2>5, <2>6, <2>7, <3>1, RequeuedSound DEF Sound
  <2>9. Checked(r)
    BY <1>1, <1>5, <2>2, <2>6, ChecksKept DEF Sound
  <2>10. Sound(r)
    BY <1>5, <2>6, <2>8, <2>9 DEF Sound, Floored, Decodable
  <2>11. r.proposals[id] = q /\ \A z \in ProposalIds \ {id} : r.proposals[z] = gov.proposals[z]
    BY <1>1, <1>4, <2>6
  <2>12. Escrowed(r)
    <3>1. \A z \in ProposalIds :
             /\ r.proposals[z].status \in Open <=> removed.proposals[z].status \in Open
             /\ r.proposals[z].total = removed.proposals[z].total
      BY <1>1, <1>4, <2>2, <2>11
    <3> QED BY <1>5, <2>6, <3>1, SameEscrowed, Zenon
  <2>13. Rechecked(r, gov, id)
    BY <1>1, <1>4, <1>7, <2>2, <2>6, <2>11 DEF Rechecked
  <2> QED BY <2>1, <2>10, <2>12, <2>13 DEF h
<1>8. CASE id \notin gov.undecodable /\ ~reached /\ e.done < e.count /\ p.votingEnd > now
  <2> DEFINE r == [removed EXCEPT !.quorumChecks = @ \cup {next}]
  <2>1. h = r
    BY <1>1, <1>8 DEF CheckQuorum, removed
  <2>2. /\ next \in QuorumCheckEntries /\ next.id = id /\ next.time <= p.votingEnd
        /\ next.done <= next.count
    <3> DEFINE t == NextQuorumCheckTime(e, p.votingEnd, now)
    <3>1. t \in Nat /\ t <= p.votingEnd
      BY <1>1, <1>8, NextCheckInTime
    <3> HIDE DEF t
    <3> DEFINE d == e.done + 1
    <3>2. d \in Nat /\ d <= e.count
      BY <1>1, <1>8 DEF QuorumCheckEntries
    <3>3. next = [e EXCEPT !.time = t, !.done = d]
      BY DEF t
    <3> HIDE DEF next, d
    <3> QED BY <1>1, <3>1, <3>2, <3>3, Zenon DEF QuorumCheckEntries
  <2> HIDE DEF next, h
  <2>3. /\ r \in Stores /\ r.quorumChecks = removed.quorumChecks \cup {next}
    BY <1>3, <2>2, Zenon DEF Stores
  <2>4. /\ r.params = removed.params /\ r.nextId = removed.nextId
        /\ r.proposals = removed.proposals /\ r.votingPeriod = removed.votingPeriod
        /\ r.undecodable = removed.undecodable /\ r.error = removed.error
        /\ r.inactive = removed.inactive /\ r.active = removed.active
        /\ r.lastMinDeposit = removed.lastMinDeposit
        /\ r.lastMinInitialDeposit = removed.lastMinInitialDeposit
        /\ SameMoney(r, removed)
    BY <1>3 DEF Stores, SameMoney
  <2> HIDE DEF r
  <2>5. Checked(r)
    <3>1. /\ Checked(removed) /\ \A f \in removed.quorumChecks : f.id # id
          /\ p = r.proposals[id] /\ p.status = "voting" /\ p.extended = 0
      BY <1>1, <1>4, <1>5, <2>4 DEF Sound
    <3>2. r.proposals = removed.proposals
      BY <2>4
    <3>3. \A f \in r.quorumChecks : f \in removed.quorumChecks \/ f = next
      BY <2>3
    <3> HIDE DEF p
    <3> QED BY <2>2, <3>1, <3>2, <3>3, SMTT(30) DEF Checked
  <2>6. Decodable(r)
    BY <1>4, <1>5, <1>8, <2>2, <2>3, <2>4 DEF Sound, Decodable
  <2>7. Sound(r)
    BY <1>5, <2>3, <2>4, <2>5, <2>6 DEF Sound, Typed, Recorded, Queued, Floored
  <2>8. Escrowed(r)
    BY <1>5, <2>4, SameEscrowed
  <2>9. Rechecked(r, gov, id)
    BY <1>1, <1>4, <2>4 DEF Rechecked
  <2> QED BY <2>1, <2>7, <2>8, <2>9 DEF h
<1>9. CASE /\ id \notin gov.undecodable
           /\ ~(reached /\ e.done > 0 /\ q.votingEnd > p.votingEnd)
           /\ ~(~reached /\ e.done < e.count /\ p.votingEnd > now)
  <2>1. h = removed
    BY <1>1, <1>9 DEF CheckQuorum, removed
  <2>2. Rechecked(removed, gov, id)
    BY <1>1, <1>4 DEF Rechecked
  <2> HIDE DEF h
  <2> QED BY <1>5, <2>1, <2>2 DEF h
<1> QED BY <1>6, <1>7, <1>8, <1>9

\* The stores after a vote was closed with a status and the deposits paid out, whatever the
\* messages of the proposal did to the parameters.
VoteEnds(h, id, status) ==
    /\ h \in Stores
    /\ h.proposals = [gov.proposals EXCEPT ![id] = [gov.proposals[id] EXCEPT !.status = status]]
    /\ h.active = gov.active \ {<<gov.proposals[id].votingEnd, id>>}
    /\ h.votingPeriod = gov.votingPeriod \ {id}
    /\ h.inactive = gov.inactive /\ h.quorumChecks = gov.quorumChecks
    /\ h.nextId = gov.nextId /\ h.error = gov.error
    /\ h.undecodable \subseteq gov.undecodable
    /\ Floored(h)
    /\ Refunded(h, gov, id) \/ Burned(h, gov, id)

\* What the walk over the active queue may do: one proposal is decided.
Decided(h, g, id) ==
    /\ h.inactive = g.inactive /\ h.quorumChecks = g.quorumChecks
    /\ \A x \in ProposalIds \ {id} : h.proposals[x] = g.proposals[x]
    /\ h.proposals[id].status \in Closed

LEMMA VoteEndsSound ==
    ASSUME Sound(gov), Escrowed(gov), NEW id \in ProposalIds, gov.proposals[id].status = "voting",
           \A e \in gov.quorumChecks : e.id # id,
           NEW status \in Closed, NEW h, VoteEnds(h, id, status)
    PROVE  Sound(h) /\ Escrowed(h) /\ Decided(h, gov, id)
<1> DEFINE p == gov.proposals[id]
           q == [p EXCEPT !.status = status]
<1>1. /\ gov.proposals \in [ProposalIds -> ProposalRecords] /\ p \in ProposalRecords
      /\ p.extended <= 1 /\ <<p.depositEnd, id>> \notin gov.inactive
  BY DEF Sound, Typed, Stores, Recorded, WellFormed, Queued
<1>2. q \in ProposalRecords /\ q.status = status /\ q.extended = p.extended
  BY <1>1 DEF ProposalRecords
<1>3. WellFormed(q) /\ q.status \notin Open
  BY <1>1, <1>2 DEF WellFormed, Closed, Open
<1>4. h.proposals = [gov.proposals EXCEPT ![id] = q]
  BY Zenon DEF VoteEnds
<1> HIDE DEF q
<1>5. Ended(h, gov, id, q)
  BY <1>1, <1>4 DEF Ended, VoteEnds
<1>6. /\ Sound(h) /\ Escrowed(h) /\ h.proposals[id] = q
      /\ \A x \in ProposalIds \ {id} : h.proposals[x] = gov.proposals[x]
  <2>1. p.status \in Open /\ Floored(h) /\ (Refunded(h, gov, id) \/ Burned(h, gov, id))
    BY DEF Open, VoteEnds
  <2> QED BY <1>2, <1>3, <1>5, <2>1, EndedSound
<1> QED BY <1>2, <1>6 DEF Decided, VoteEnds

\* What a tally, and the messages of a passed proposal after it, leave.
Settled(g, id) ==
    /\ g \in Stores
    /\ g.nextId = gov.nextId /\ g.proposals = gov.proposals
    /\ g.undecodable = gov.undecodable /\ g.error = gov.error
    /\ g.votingPeriod = gov.votingPeriod /\ g.inactive = gov.inactive /\ g.active = gov.active
    /\ g.quorumChecks = gov.quorumChecks
    /\ Floored(g)
    /\ Refunded(g, gov, id) \/ Burned(g, gov, id)

\* The tally takes the votes, and the deposits follow its verdict.
LEMMA TallySettles ==
    ASSUME Sound(gov), Escrowed(gov), NEW id \in ProposalIds, NEW burnDeposits \in BOOLEAN
    PROVE  Settled(Tallied(id, burnDeposits), id)
<1> DEFINE c == [gov EXCEPT !.votes[id] = {}]
           h == Tallied(id, burnDeposits)
<1>1. gov \in Stores
  BY DEF Sound, Typed
<1>2. SameLife(c, gov) /\ SameMoney(c, gov)
  BY <1>1, Zenon DEF SameLife, SameMoney, Stores
<1>3. h \in {DeleteAndBurnDeposits(c, id), RefundAndDeleteDeposits(c, id)}
  BY DEF Tallied
<1> HIDE DEF c, h
<1>4. c \in Stores /\ DepositsOn(c, id) = DepositsOn(gov, id) /\ DepositsOn(c, id) <= c.escrow
  BY <1>1, <1>2, EscrowCovers DEF SameLife, SameMoney, DepositsOn
<1>5. SameLife(h, c) /\ (Refunded(h, c, id) \/ Burned(h, c, id))
  BY <1>3, <1>4, PaymentsSucceed
<1>6. Refunded(h, gov, id) \/ Burned(h, gov, id)
  BY <1>2, <1>4, <1>5 DEF Refunded, Burned, SameMoney
<1>7. SameLife(h, gov)
  BY <1>2, <1>5 DEF SameLife
<1>8. Floored(h)
  BY <1>7 DEF SameLife, Sound, Floored
<1> QED BY <1>6, <1>7, <1>8 DEF Settled, SameLife, h

\* New parameters bring the thresholds above their floors.
LEMMA UpdateParamsSettles ==
    ASSUME Sound(gov), NEW id \in ProposalIds, NEW g, Settled(g, id),
           now \in Nat, NEW params \in ParamSets
    PROVE  Settled(UpdateParams(g, now, params), id)
<1> DEFINE k == Refloored(params.minDeposit.floor, g.lastMinDeposit, now)
           l == Refloored(params.minInitialDeposit.floor, g.lastMinInitialDeposit, now)
           h == [g EXCEPT !.params = params, !.lastMinDeposit = k, !.lastMinInitialDeposit = l]
<1>1. UpdateParams(g, now, params) = h
  BY DEF UpdateParams
<1>2. /\ g \in Stores
      /\ k \in Thresholds /\ k.value >= params.minDeposit.floor
      /\ l \in Thresholds /\ l.value >= params.minInitialDeposit.floor
  <2>1. /\ params.minDeposit.floor \in Nat /\ params.minInitialDeposit.floor \in Nat
    BY ParamsValid
  <2>2. g \in Stores /\ g.lastMinDeposit \in Thresholds /\ g.lastMinInitialDeposit \in Thresholds
    BY DEF Settled, Stores
  <2> QED BY <2>1, <2>2, ReflooredAboveFloor, Zenon
<1> HIDE DEF k, l
<1>3. h \in Stores /\ Floored(h)
  BY <1>2, Zenon DEF Stores, Floored
<1>4. /\ h.nextId = g.nextId /\ h.proposals = g.proposals
      /\ h.undecodable = g.undecodable /\ h.error = g.error
      /\ h.votingPeriod = g.votingPeriod /\ h.inactive = g.inactive /\ h.active = g.active
      /\ h.quorumChecks = g.quorumChecks
      /\ SameMoney(h, g)
  BY <1>2 DEF Stores, SameMoney
<1> HIDE DEF h
<1>5. Refunded(h, gov, id) \/ Burned(h, gov, id)
  BY <1>4 DEF Settled, Refunded, Burned, SameMoney
<1>6. Settled(h, id)
  BY <1>3, <1>4, <1>5 DEF Settled
<1> QED BY <1>1, <1>6

\* The end of a vote: the record gets its last status and leaves the active queue.
LEMMA CloseProposalSound ==
    ASSUME Sound(gov), Escrowed(gov), NEW id \in ProposalIds, gov.proposals[id].status = "voting",
           \A e \in gov.quorumChecks : e.id # id,
           NEW status \in Closed, NEW g, Settled(g, id)
    PROVE  LET h == CloseProposal(g, id, status)
           IN  Sound(h) /\ Escrowed(h) /\ Decided(h, gov, id)
<1> DEFINE p == gov.proposals[id]
           q == [p EXCEPT !.status = status]
           x == <<p.votingEnd, id>>
           u == [g EXCEPT !.active = @ \ {x}]
           h == SetProposal(u, id, q)
<1>1. CloseProposal(g, id, status) = h
  BY DEF CloseProposal
<1>2. q \in ProposalRecords /\ q.status # "voting"
  BY DEF Sound, Typed, Stores, ProposalRecords, Closed
<1> HIDE DEF q, x
<1>3. u \in Stores /\ u.active = gov.active \ {x}
  BY Zenon DEF Settled, Stores
<1>4. /\ u.nextId = gov.nextId /\ u.proposals = gov.proposals
      /\ u.undecodable = gov.undecodable /\ u.error = gov.error
      /\ u.votingPeriod = gov.votingPeriod /\ u.inactive = gov.inactive
      /\ u.quorumChecks = gov.quorumChecks
      /\ u.params = g.params /\ u.lastMinDeposit = g.lastMinDeposit
      /\ u.lastMinInitialDeposit = g.lastMinInitialDeposit
      /\ SameMoney(u, g)
  BY DEF Settled, Stores, SameMoney
<1> HIDE DEF u
<1>5. SetTo(h, u, id, q)
  BY <1>2, <1>3, SetProposalIs
<1> HIDE DEF h
<1>6. Floored(h)
  BY <1>4, <1>5 DEF SetTo, Settled, Floored
<1>7. Refunded(h, gov, id) \/ Burned(h, gov, id)
  BY <1>4, <1>5 DEF SetTo, Settled, SameMoney, Refunded, Burned
<1>8. VoteEnds(h, id, status)
  BY <1>2, <1>3, <1>4, <1>5, <1>6, <1>7 DEF VoteEnds, SetTo, q, x
<1> QED BY <1>1, <1>8, VoteEndsSound

\* The end of a vote on a proposal that no longer decodes.
LEMMA FailActiveSound ==
    ASSUME Sound(gov), Escrowed(gov), NEW id \in ProposalIds, gov.proposals[id].status = "voting",
           \A e \in gov.quorumChecks : e.id # id
    PROVE  LET h == [FailUnsupportedProposal(id) EXCEPT
                        !.active = @ \ {<<gov.proposals[id].votingEnd, id>>}]
           IN  Sound(h) /\ Escrowed(h) /\ Decided(h, gov, id)
<1> DEFINE q == [gov.proposals[id] EXCEPT !.status = "failed"]
           x == <<gov.proposals[id].votingEnd, id>>
           f == FailUnsupportedProposal(id)
           h == [f EXCEPT !.active = @ \ {x}]
<1>1. /\ f \in Stores /\ f.proposals = [gov.proposals EXCEPT ![id] = q]
      /\ f.undecodable = gov.undecodable \ {id}
      /\ f.votingPeriod = gov.votingPeriod \ {id}
      /\ f.inactive = gov.inactive /\ f.active = gov.active
      /\ f.quorumChecks = gov.quorumChecks
      /\ f.nextId = gov.nextId /\ f.error = gov.error /\ f.params = gov.params
      /\ f.lastMinDeposit = gov.lastMinDeposit
      /\ f.lastMinInitialDeposit = gov.lastMinInitialDeposit
      /\ Refunded(f, gov, id)
  BY FailUnsupportedIs, Zenon
<1> HIDE DEF q, x, f
<1>2. h \in Stores /\ h.active = f.active \ {x}
  BY <1>1, Zenon DEF Stores
<1>3. /\ h.proposals = f.proposals /\ h.undecodable = f.undecodable
      /\ h.votingPeriod = f.votingPeriod /\ h.inactive = f.inactive
      /\ h.quorumChecks = f.quorumChecks
      /\ h.nextId = f.nextId /\ h.error = f.error /\ h.params = f.params
      /\ h.lastMinDeposit = f.lastMinDeposit
      /\ h.lastMinInitialDeposit = f.lastMinInitialDeposit
      /\ SameMoney(h, f)
  BY <1>1 DEF Stores, SameMoney
<1> HIDE DEF h
<1>4. Floored(h)
  BY <1>1, <1>3 DEF Sound, Floored
<1>5. Refunded(h, gov, id)
  BY <1>1, <1>3 DEF Refunded, SameMoney
<1>6. VoteEnds(h, id, "failed")
  BY <1>1, <1>2, <1>3, <1>4, <1>5 DEF VoteEnds, q, x
<1>7. "failed" \in Closed
  BY DEF Closed
<1>8. Sound(h) /\ Escrowed(h) /\ Decided(h, gov, id)
  BY <1>6, <1>7, VoteEndsSound
<1> QED BY <1>8 DEF h, f, x

-----------------------------------------------------------------------------
(***************************************************************************)
(* The steps                                                               *)
(***************************************************************************)

\* What every step is shown to do.
Kept == IInv' /\ \A id \in ProposalIds : PeriodRespected(id)

\* A record that stays the same respects its periods.
LEMMA SamePeriods ==
    ASSUME Sound(gov), NEW id \in ProposalIds, gov'.proposals[id] = gov.proposals[id]
    PROVE  PeriodRespected(id)
<1>1. gov.proposals[id].status = "voting" => gov.proposals[id].votingEnd \in Nat
  BY Zenon DEF Sound, Recorded, WellFormed
<1> QED BY <1>1 DEF PeriodRespected

\* What the steps have in common.
LEMMA KeptFrom ==
    ASSUME Sound(gov), Sound(gov'), Escrowed(gov'), Walked', now' \in 0 .. MaxTime,
           phase' \in {"txs", "inactive", "quorum", "active", "commit"},
           \A id \in ProposalIds : gov'.proposals[id] = gov.proposals[id] \/ PeriodRespected(id)
    PROVE  Kept
<1>1. \A id \in ProposalIds : PeriodRespected(id)
  BY SamePeriods
<1>2. gov' \in Stores
  BY DEF Sound, Typed
<1> QED BY <1>1, <1>2 DEF Kept, IInv, TypeOK

\* The key that a walk visits leads to a proposal of the right status that is due.
LEMMA DueKeys ==
    ASSUME Sound(gov), NEW id \in ProposalIds
    PROVE  /\ NextDue(gov.inactive, id) =>
                  gov.proposals[id].status = "deposit" /\ gov.proposals[id].depositEnd <= now
           /\ NextDue(gov.active, id) =>
                  gov.proposals[id].status = "voting" /\ gov.proposals[id].votingEnd <= now
<1>1. ASSUME NEW keys, keys \subseteq Nat \X ProposalIds, NextDue(keys, id)
      PROVE  \E t \in Nat : <<t, id>> \in keys /\ t <= now
  BY <1>1 DEF NextDue
<1>2. gov.inactive \subseteq Nat \X ProposalIds /\ gov.active \subseteq Nat \X ProposalIds
  BY DEF Sound, Typed, Stores
<1>3. ASSUME NextDue(gov.inactive, id)
      PROVE  gov.proposals[id].status = "deposit" /\ gov.proposals[id].depositEnd <= now
  <2>1. PICK t \in Nat : <<t, id>> \in gov.inactive /\ t <= now
    BY <1>1, <1>2, <1>3
  <2> QED BY <2>1 DEF Sound, Queued
<1>4. ASSUME NextDue(gov.active, id)
      PROVE  gov.proposals[id].status = "voting" /\ gov.proposals[id].votingEnd <= now
  <2>1. PICK t \in Nat : <<t, id>> \in gov.active /\ t <= now
    BY <1>1, <1>2, <1>4
  <2> QED BY <2>1 DEF Sound, Queued
<1> QED BY <1>3, <1>4

LEMMA MsgSubmitProposalKeeps ==
    ASSUME IInv, NEW a \in Accounts, NEW amount \in Amounts, MsgSubmitProposal(a, amount)
    PROVE  Kept
<1> DEFINE id == gov.nextId
           p == [NoProposal EXCEPT !.status = "deposit", !.depositEnd = now + gov.params.maxDepositPeriod]
           g == SubmitProposal(gov, now)
<1>1. /\ Sound(gov) /\ Escrowed(gov) /\ now \in Nat /\ id \in ProposalIds /\ amount \in Nat
      /\ gov' = AddDeposit(g, now, id, a, amount) /\ phase' = "txs" /\ now' = now
      /\ now \in 0 .. MaxTime
  BY BoundsAssumption DEF IInv, TypeOK, MsgSubmitProposal
<1>2. amount <= g.balances[a] /\ g.proposals[id].status \in Open /\ id \notin g.undecodable
  BY DEF MsgSubmitProposal, Depositable
<1>3. /\ Sound(g) /\ g.proposals = [gov.proposals EXCEPT ![id] = p]
      /\ gov.proposals[id] = NoProposal /\ SameMoney(g, gov)
  BY <1>1, SubmitProposalSound, Zenon
<1> HIDE DEF g, p, id
<1>4. p.total = 0 /\ gov.proposals \in [ProposalIds -> ProposalRecords]
  BY <1>1 DEF p, NoProposal, Sound, Typed, Stores
<1>5. /\ g.proposals[id].total = 0 /\ gov.proposals[id].status = "none"
      /\ \A x \in ProposalIds \ {id} : g.proposals[x] = gov.proposals[x]
  <2>1. g.proposals[id] = p /\ \A x \in ProposalIds \ {id} : g.proposals[x] = gov.proposals[x]
    BY <1>1, <1>3, <1>4
  <2>2. NoProposal.status = "none"
    BY DEF NoProposal
  <2> QED BY <1>3, <1>4, <2>1, <2>2, Zenon
<1>6. Escrowed(g)
  <2>1. DepositsOn(gov, id) = 0
    BY <1>1, <1>5 DEF Escrowed, Open
  <2>2. \A x \in ProposalIds : DepositsOn(g, x) = DepositsOn(gov, x)
    BY <1>3 DEF SameMoney, DepositsOn
  <2>3. TotalDeposits(g) = TotalDeposits(gov)
    BY <1>3 DEF SameMoney, DepositsOn, TotalDeposits
  <2>4. \A x \in ProposalIds :
            DepositsOn(g, x) = IF g.proposals[x].status \in Open THEN g.proposals[x].total ELSE 0
    BY <1>1, <1>2, <1>5, <2>1, <2>2 DEF Escrowed
  <2> QED BY <1>1, <1>3, <2>3, <2>4 DEF Escrowed, SameMoney
<1>7. /\ Sound(gov') /\ Escrowed(gov')
      /\ \A x \in ProposalIds \ {id} : gov'.proposals[x] = g.proposals[x]
  <2> DEFINE h == AddDeposit(g, now, id, a, amount)
  <2>1. /\ Sound(h) /\ Escrowed(h)
        /\ \A x \in ProposalIds \ {id} : h.proposals[x] = g.proposals[x]
    <3>1. /\ Sound(g) /\ Escrowed(g) /\ now \in Nat /\ id \in ProposalIds /\ amount \in Nat
          /\ amount <= g.balances[a] /\ g.proposals[id].status \in Open /\ id \notin g.undecodable
      BY <1>1, <1>2, <1>3, <1>6
    <3> QED BY <3>1, AddDepositSound, SMTT(20)
  <2> HIDE DEF h
  <2>2. gov' = h
    BY <1>1, Zenon DEF h
  <2> QED BY <2>1, <2>2
<1>8. PeriodRespected(id)
  BY <1>5 DEF PeriodRespected, Closed
<1>9. Walked'
  BY <1>1 DEF Walked
<1>10. \A x \in ProposalIds : gov'.proposals[x] = gov.proposals[x] \/ PeriodRespected(x)
  BY <1>5, <1>7, <1>8, Zenon
<1> QED BY <1>1, <1>7, <1>9, <1>10, KeptFrom

LEMMA MsgDepositKeeps ==
    ASSUME IInv, NEW id \in ProposalIds, NEW a \in Accounts, NEW amount \in Amounts,
           MsgDeposit(id, a, amount)
    PROVE  Kept
<1>1. /\ Sound(gov) /\ Escrowed(gov) /\ now \in Nat /\ amount \in Nat
      /\ gov' = AddDeposit(gov, now, id, a, amount) /\ phase' = "txs" /\ now' = now
      /\ now \in 0 .. MaxTime
      /\ amount <= gov.balances[a] /\ gov.proposals[id].status \in Open /\ id \notin gov.undecodable
  BY BoundsAssumption DEF IInv, TypeOK, MsgDeposit, Depositable
<1>2. /\ Sound(gov') /\ Escrowed(gov')
      /\ \A x \in ProposalIds \ {id} : gov'.proposals[x] = gov.proposals[x]
      /\ gov'.proposals[id].status \in Open
      /\ gov.proposals[id].status = "voting" =>
            /\ gov'.proposals[id].status = "voting"
            /\ gov'.proposals[id].votingEnd = gov.proposals[id].votingEnd
  <2> DEFINE h == AddDeposit(gov, now, id, a, amount)
  <2>1. /\ Sound(h) /\ Escrowed(h)
        /\ \A x \in ProposalIds \ {id} : h.proposals[x] = gov.proposals[x]
        /\ h.proposals[id].status \in Open
        /\ gov.proposals[id].status = "voting" =>
              /\ h.proposals[id].status = "voting"
              /\ h.proposals[id].votingEnd = gov.proposals[id].votingEnd
    BY <1>1, AddDepositSound, Zenon
  <2> HIDE DEF h
  <2>2. gov' = h
    BY <1>1, Zenon DEF h
  <2> QED BY <2>1, <2>2
<1>3. PeriodRespected(id)
  <2>1. gov.proposals[id].status = "voting" => gov.proposals[id].votingEnd \in Nat
    BY <1>1, Zenon DEF Sound, Recorded, WellFormed
  <2>2. gov.proposals[id].status \in {"deposit", "voting"} /\ gov'.proposals[id].status \in {"deposit", "voting"}
    BY <1>1, <1>2, Zenon DEF Open
  <2> QED BY <1>2, <2>1, <2>2 DEF PeriodRespected, Closed
<1>4. Walked'
  BY <1>1 DEF Walked
<1>5. \A x \in ProposalIds : gov'.proposals[x] = gov.proposals[x] \/ PeriodRespected(x)
  BY <1>2, <1>3, Zenon
<1> QED BY <1>1, <1>2, <1>4, <1>5, KeptFrom

LEMMA MsgVoteKeeps ==
    ASSUME IInv, NEW id \in ProposalIds, NEW voter \in Voters, MsgVote(id, voter)
    PROVE  Kept
<1>1. /\ Sound(gov) /\ Escrowed(gov) /\ now \in 0 .. MaxTime /\ gov \in Stores
      /\ gov' = [gov EXCEPT !.votes[id] = @ \cup {voter}] /\ phase' = "txs" /\ now' = now
  BY DEF IInv, TypeOK, MsgVote, AddVote
<1>2. SameLife(gov', gov) /\ SameMoney(gov', gov)
  BY <1>1, Zenon DEF Stores, SameLife, SameMoney
<1>3. Sound(gov') /\ Escrowed(gov') /\ gov'.proposals = gov.proposals
  BY <1>1, <1>2, SameLifeSound, SameEscrowed, Zenon DEF SameLife
<1>4. Walked'
  BY <1>1 DEF Walked
<1> QED BY <1>1, <1>3, <1>4, KeptFrom

\* Steps that leave the stores alone: the walks start and end, the next block begins.
LEMMA PhaseStepsKeep ==
    ASSUME IInv, gov' = gov,
           \/ BeginEndBlocker \/ EndInactiveWalk \/ EndQuorumWalk
           \/ \E gap \in 1 .. MaxBlockGap : NewBlock(gap)
           \/ UNCHANGED vars
    PROVE  Kept
<1>1. /\ Sound(gov) /\ Escrowed(gov) /\ Walked /\ now \in 0 .. MaxTime
      /\ phase \in {"txs", "inactive", "quorum", "active", "commit"} /\ MaxTime \in Nat
  BY BoundsAssumption DEF IInv, TypeOK
<1>2. /\ now' \in 0 .. MaxTime /\ phase' \in {"txs", "inactive", "quorum", "active", "commit"}
  BY <1>1, BoundsAssumption DEF BeginEndBlocker, EndInactiveWalk, EndQuorumWalk, NewBlock, vars
<1>3. Walked'
  <2>1. CASE BeginEndBlocker \/ \E gap \in 1 .. MaxBlockGap : NewBlock(gap)
    BY <2>1 DEF BeginEndBlocker, NewBlock, Walked
  <2>2. CASE EndInactiveWalk
    BY <2>2 DEF EndInactiveWalk, WalkDone, Walked
  <2>3. CASE EndQuorumWalk
    <3>1. \A e \in gov.quorumChecks : e.time > now
      <4> SUFFICES ASSUME NEW e \in gov.quorumChecks PROVE e.time > now
        OBVIOUS
      <4>1. <<e.time, e.id>> \in QuorumKeys
        BY Zenon DEF QuorumKeys
      <4> QED BY <2>3, <4>1 DEF EndQuorumWalk, WalkDone
    <3> QED BY <1>1, <2>3, <3>1 DEF EndQuorumWalk, Walked
  <2>4. CASE UNCHANGED vars
    BY <1>1, <2>4 DEF vars, Walked
  <2> QED BY <2>1, <2>2, <2>3, <2>4
<1> QED BY <1>1, <1>2, <1>3, KeptFrom

\* The last walk ends: the thresholds decay and the block is committed.
LEMMA EndActiveWalkKeeps ==
    ASSUME IInv, EndActiveWalk
    PROVE  Kept
<1> DEFINE g == UpdateMinInitialDeposit(gov, now, TRUE)
           h == UpdateMinDeposit(g, now, TRUE)
<1>1. /\ Sound(gov) /\ Escrowed(gov) /\ Walked /\ now \in Nat /\ now \in 0 .. MaxTime
      /\ phase = "active" /\ gov' = h /\ phase' = "commit" /\ now' = now
      /\ \A k \in gov.active : k[1] > now
  BY BoundsAssumption DEF IInv, TypeOK, EndActiveWalk, WalkDone
<1>2. Sound(g) /\ Unthrottled(g, gov)
  BY <1>1, UpdateMinInitialDepositSound, Zenon
<1> HIDE DEF g
<1>3. Sound(h) /\ Unthrottled(h, g)
  BY <1>1, <1>2, UpdateMinDepositSound, Zenon
<1> HIDE DEF h
<1>4. /\ Sound(gov') /\ SameMoney(gov', gov) /\ gov'.proposals = gov.proposals
      /\ gov'.inactive = gov.inactive /\ gov'.active = gov.active
      /\ gov'.quorumChecks = gov.quorumChecks
  BY <1>1, <1>2, <1>3 DEF Unthrottled, SameMoney
<1>5. Escrowed(gov')
  BY <1>1, <1>4, SameEscrowed, Zenon
<1>6. Walked'
  BY <1>1, <1>4 DEF Walked
<1> QED BY <1>1, <1>4, <1>5, <1>6, KeptFrom

\* A release that drops a message type.
LEMMA UnregisterMessageKeeps ==
    ASSUME IInv, NEW id \in ProposalIds, UnregisterMessage(id)
    PROVE  Kept
<1>1. /\ Sound(gov) /\ Escrowed(gov) /\ Walked /\ now \in 0 .. MaxTime /\ gov \in Stores
      /\ gov' = [gov EXCEPT !.undecodable = @ \cup {id}]
      /\ phase = "commit" /\ phase' = "commit" /\ now' = now
      /\ Unregistering # "anytime" => \A e \in gov.quorumChecks : e.id # id
  BY DEF IInv, TypeOK, UnregisterMessage
<1>2. /\ gov' \in Stores /\ gov'.undecodable = gov.undecodable \cup {id}
  BY <1>1, Zenon DEF Stores
<1>3. /\ gov'.params = gov.params /\ gov'.nextId = gov.nextId /\ gov'.proposals = gov.proposals
      /\ gov'.error = gov.error /\ gov'.votingPeriod = gov.votingPeriod
      /\ gov'.inactive = gov.inactive /\ gov'.active = gov.active
      /\ gov'.quorumChecks = gov.quorumChecks
      /\ gov'.lastMinDeposit = gov.lastMinDeposit
      /\ gov'.lastMinInitialDeposit = gov.lastMinInitialDeposit
      /\ SameMoney(gov', gov)
  BY <1>1 DEF Stores, SameMoney
<1>4. Sound(gov')
  <2>1. Decodable(gov')
    BY <1>1, <1>2, <1>3 DEF Sound, Decodable
  <2> QED BY <1>1, <1>2, <1>3, <2>1 DEF Sound, Typed, Recorded, Queued, Checked, Floored
<1>5. Escrowed(gov')
  BY <1>1, <1>3, SameEscrowed, Zenon
<1>6. Walked'
  BY <1>1, <1>3 DEF Walked
<1> QED BY <1>1, <1>3, <1>4, <1>5, <1>6, KeptFrom

LEMMA WalkInactiveKeeps ==
    ASSUME IInv, NEW id \in ProposalIds, WalkInactive(id)
    PROVE  Kept
<1> DEFINE h == EndDepositPeriod(id)
<1>1. /\ Sound(gov) /\ Escrowed(gov) /\ now \in Nat /\ now \in 0 .. MaxTime
      /\ gov' = h /\ phase' = "inactive" /\ now' = now
      /\ NextDue(gov.inactive, id)
  BY BoundsAssumption DEF IInv, TypeOK, WalkInactive
<1>2. gov.proposals[id].status = "deposit" /\ gov.proposals[id].depositEnd <= now
  BY <1>1, DueKeys
<1>3. /\ Sound(h) /\ Escrowed(h)
      /\ \A x \in ProposalIds \ {id} : h.proposals[x] = gov.proposals[x]
  BY <1>1, <1>2, EndDepositPeriodSound
<1> HIDE DEF h
<1>4. PeriodRespected(id)
  BY <1>2 DEF PeriodRespected, Closed
<1>5. \A x \in ProposalIds : gov'.proposals[x] = gov.proposals[x] \/ PeriodRespected(x)
  BY <1>1, <1>3, <1>4, Zenon
<1>6. Walked'
  BY <1>1 DEF Walked
<1> QED BY <1>1, <1>3, <1>5, <1>6, KeptFrom

LEMMA WalkQuorumChecksKeeps ==
    ASSUME IInv, NEW e \in gov.quorumChecks, NEW reached \in BOOLEAN, WalkQuorumChecks(e, reached)
    PROVE  Kept
<1> DEFINE h == CheckQuorum(e, reached)
<1>1. /\ Sound(gov) /\ Escrowed(gov) /\ Walked /\ now \in Nat /\ now \in 0 .. MaxTime
      /\ gov' = h /\ phase = "quorum" /\ phase' = "quorum" /\ now' = now
  BY BoundsAssumption DEF IInv, TypeOK, WalkQuorumChecks
<1>2. Sound(h) /\ Escrowed(h) /\ Rechecked(h, gov, e.id)
  BY <1>1, CheckQuorumSound
<1> HIDE DEF h
<1>3. gov.proposals[e.id].status = "voting"
  BY <1>1, Zenon DEF Sound, Checked
<1>4. PeriodRespected(e.id)
  BY <1>1, <1>2, <1>3 DEF PeriodRespected, Rechecked, Closed
<1>5. \A x \in ProposalIds : gov'.proposals[x] = gov.proposals[x] \/ PeriodRespected(x)
  BY <1>1, <1>2, <1>4, Zenon DEF Rechecked
<1>6. Walked'
  BY <1>1, <1>2 DEF Walked, Rechecked
<1> QED BY <1>1, <1>2, <1>5, <1>6, KeptFrom

\* When the walk over the active queue visits a proposal, no quorum check is pending for it:
\* the walk over these is over, and none is due after the vote ends.
LEMMA NoCheckPending ==
    ASSUME Sound(gov), Walked, now \in Nat, phase = "active", NEW id \in ProposalIds,
           NextDue(gov.active, id)
    PROVE  /\ gov.proposals[id].status = "voting" /\ gov.proposals[id].votingEnd <= now
           /\ \A e \in gov.quorumChecks : e.id # id
<1>1. gov.proposals[id].status = "voting" /\ gov.proposals[id].votingEnd <= now
  BY DueKeys
<1>2. ASSUME NEW e \in gov.quorumChecks, e.id = id PROVE FALSE
  <2>1. e.time > now /\ e.time <= gov.proposals[id].votingEnd
    BY <1>2, Zenon DEF Walked, Sound, Checked
  <2>2. e.time \in Nat /\ gov.proposals[id].votingEnd \in Nat
    BY <1>1 DEF Sound, Typed, Stores, QuorumCheckEntries, Recorded, WellFormed
  <2> QED BY <1>1, <2>1, <2>2
<1> QED BY <1>1, <1>2

\* A vote that ends, whichever way.
LEMMA DecidedKeeps ==
    ASSUME IInv, NEW id \in ProposalIds, phase = "active", NextDue(gov.active, id),
           Sound(gov'), Escrowed(gov'), Decided(gov', gov, id), UNCHANGED <<now, phase>>
    PROVE  Kept
<1>1. /\ Sound(gov) /\ Walked /\ now \in Nat /\ now \in 0 .. MaxTime
      /\ phase' = "active" /\ now' = now
  BY BoundsAssumption DEF IInv, TypeOK
<1>2. gov.proposals[id].status = "voting" /\ gov.proposals[id].votingEnd <= now
  BY <1>1, NoCheckPending
<1>3. PeriodRespected(id)
  BY <1>2 DEF PeriodRespected, Decided, Closed
<1>4. \A x \in ProposalIds : gov'.proposals[x] = gov.proposals[x] \/ PeriodRespected(x)
  BY <1>3, Zenon DEF Decided
<1>5. Walked'
  BY <1>1 DEF Walked, Decided
<1> QED BY <1>1, <1>4, <1>5, KeptFrom

LEMMA WalkActiveKeeps ==
    ASSUME IInv, NEW id \in ProposalIds,
           \/ FailProposal(id) \/ PassProposal(id) \/ FailActiveUnsupported(id)
           \/ \E burnDeposits \in BOOLEAN : RejectProposal(id, burnDeposits)
           \/ \E params \in ParamSets : PassUpdateParams(id, params)
    PROVE  Kept
<1>1. /\ Sound(gov) /\ Escrowed(gov) /\ Walked /\ now \in Nat
      /\ phase = "active" /\ NextDue(gov.active, id) /\ UNCHANGED <<now, phase>>
  <2>1. phase = "active" /\ NextDue(gov.active, id) /\ UNCHANGED <<now, phase>>
    BY Zenon DEF FailProposal, PassProposal, FailActiveUnsupported, RejectProposal,
                 PassUpdateParams, Tallies
  <2> QED BY <2>1, BoundsAssumption DEF IInv, TypeOK
<1>2. gov.proposals[id].status = "voting" /\ \A e \in gov.quorumChecks : e.id # id
  BY <1>1, NoCheckPending
<1>3. \A burnDeposits \in BOOLEAN : Settled(Tallied(id, burnDeposits), id)
  BY <1>1, TallySettles
<1>4. ASSUME NEW g, NEW status \in Closed, Settled(g, id), gov' = CloseProposal(g, id, status)
      PROVE  Kept
  <2> DEFINE h == CloseProposal(g, id, status)
  <2>1. Sound(h) /\ Escrowed(h) /\ Decided(h, gov, id)
    BY <1>1, <1>2, <1>4, CloseProposalSound
  <2> HIDE DEF h
  <2>2. gov' = h
    BY <1>4, Zenon DEF h
  <2> QED BY <1>1, <2>1, <2>2, DecidedKeeps
<1>5. "failed" \in Closed /\ "passed" \in Closed /\ "rejected" \in Closed
  BY DEF Closed
<1>6. CASE FailProposal(id)
  BY <1>3, <1>4, <1>5, <1>6, Zenon DEF FailProposal
<1>7. CASE PassProposal(id)
  BY <1>3, <1>4, <1>5, <1>7, Zenon DEF PassProposal
<1>8. CASE \E burnDeposits \in BOOLEAN : RejectProposal(id, burnDeposits)
  BY <1>3, <1>4, <1>5, <1>8, Zenon DEF RejectProposal
<1>9. CASE \E params \in ParamSets : PassUpdateParams(id, params)
  <2>1. PICK params \in ParamSets : gov' = CloseProposal(UpdateParams(Tallied(id, FALSE), now, params), id, "passed")
    BY <1>9, Zenon DEF PassUpdateParams
  <2>2. Settled(UpdateParams(Tallied(id, FALSE), now, params), id)
    BY <1>1, <1>3, UpdateParamsSettles, Zenon
  <2> QED BY <1>4, <1>5, <2>1, <2>2, Zenon
<1>10. CASE FailActiveUnsupported(id)
  <2> DEFINE h == [FailUnsupportedProposal(id) EXCEPT
                      !.active = @ \ {<<gov.proposals[id].votingEnd, id>>}]
  <2>1. Sound(h) /\ Escrowed(h) /\ Decided(h, gov, id)
    BY <1>1, <1>2, FailActiveSound, Zenon
  <2>2. gov' = h
    BY <1>10, Zenon DEF FailActiveUnsupported
  <2> HIDE DEF h
  <2> QED BY <1>1, <2>1, <2>2, DecidedKeeps
<1> QED BY <1>6, <1>7, <1>8, <1>9, <1>10

\* The invariant is inductive, and every step respects the periods.
LEMMA StepsKeep ==
    IInv /\ [Next]_vars => Kept
<1> SUFFICES ASSUME IInv, [Next]_vars PROVE Kept
  OBVIOUS
<1>1. CASE \E a \in Accounts, amount \in Amounts : MsgSubmitProposal(a, amount)
  BY <1>1, MsgSubmitProposalKeeps
<1>2. CASE \E id \in ProposalIds, a \in Accounts, amount \in Amounts : MsgDeposit(id, a, amount)
  BY <1>2, MsgDepositKeeps
<1>3. CASE \E id \in ProposalIds, voter \in Voters : MsgVote(id, voter)
  BY <1>3, MsgVoteKeeps
<1>4. CASE EndBlocker
  <2>1. CASE BeginEndBlocker \/ EndInactiveWalk \/ EndQuorumWalk
    BY <2>1, PhaseStepsKeep DEF BeginEndBlocker, EndInactiveWalk, EndQuorumWalk
  <2>2. CASE EndActiveWalk
    BY <2>2, EndActiveWalkKeeps
  <2>3. CASE \E id \in ProposalIds : WalkInactive(id)
    BY <2>3, WalkInactiveKeeps
  <2>4. CASE \E id \in ProposalIds :
                \/ FailProposal(id) \/ PassProposal(id) \/ FailActiveUnsupported(id)
                \/ \E burnDeposits \in BOOLEAN : RejectProposal(id, burnDeposits)
                \/ \E params \in ParamSets : PassUpdateParams(id, params)
    BY <2>4, WalkActiveKeeps, Zenon
  <2>5. CASE \E e \in gov.quorumChecks, reached \in BOOLEAN : WalkQuorumChecks(e, reached)
    BY <2>5, WalkQuorumChecksKeeps
  <2> QED BY <1>4, <2>1, <2>2, <2>3, <2>4, <2>5, Zenon DEF EndBlocker
<1>5. CASE \E gap \in 1 .. MaxBlockGap : NewBlock(gap)
  BY <1>5, PhaseStepsKeep DEF NewBlock
<1>6. CASE \E id \in ProposalIds : UnregisterMessage(id)
  BY <1>6, UnregisterMessageKeeps
<1>7. CASE LastBlock \/ UNCHANGED vars
  BY <1>7, PhaseStepsKeep DEF LastBlock, vars
<1> QED BY <1>1, <1>2, <1>3, <1>4, <1>5, <1>6, <1>7, Zenon DEF Next

\* A new chain satisfies the invariant.
LEMMA InitSatisfies ==
    Init => IInv
<1> SUFFICES ASSUME Init PROVE IInv
  OBVIOUS
<1>1. NoProposal \in ProposalRecords /\ NoProposal.status = "none" /\ WellFormed(NoProposal)
  BY DEF NoProposal, ProposalRecords, Times, WellFormed
<1>2. /\ InitialParams \in ParamSets /\ InitialParams.minDeposit.floor \in Nat
      /\ InitialParams.minInitialDeposit.floor \in Nat
  BY ParamsAssumption, ParamsValid
<1>3. gov \in Stores
  BY <1>1, <1>2, BoundsAssumption DEF Init, Stores, Thresholds
<1>4. Sound(gov)
  <2>1. Typed(gov)
    BY <1>3, FS_EmptySet DEF Init, Typed
  <2>2. /\ \A x \in ProposalIds : gov.proposals[x] = NoProposal
        /\ gov.inactive = {} /\ gov.active = {} /\ gov.votingPeriod = {}
    BY DEF Init
  <2>3. Recorded(gov)
    BY <1>1, <2>2, Zenon DEF Recorded
  <2>4. Queued(gov)
    BY <1>1, <2>2 DEF Queued
  <2>5. Checked(gov) /\ Floored(gov) /\ Decodable(gov)
    BY <1>2 DEF Init, Checked, Floored, Decodable
  <2> QED BY <2>1, <2>3, <2>4, <2>5, Zenon DEF Sound
<1>5. Escrowed(gov)
  <2> DEFINE D == DepositsById(gov)
             b == gov.balances
  <2>1. \A id \in ProposalIds : DepositsOn(gov, id) = 0
    <3> SUFFICES ASSUME NEW id \in ProposalIds PROVE DepositsOn(gov, id) = 0
      OBVIOUS
    <3> DEFINE d == gov.deposits[id]
    <3>1. d \in [Accounts -> Int] /\ \A a \in Accounts : d[a] = 0
      BY DEF Init
    <3>2. DepositsOn(gov, id) = SumFunctionOnSet(d, Accounts)
      BY <1>3, DepositSums
    <3> HIDE DEF d
    <3> QED BY <3>1, <3>2, FiniteAssumption, SumOfZeros
  <2>2. TotalDeposits(gov) = 0
    <3>1. /\ D \in [ProposalIds -> Int] /\ TotalDeposits(gov) = SumFunctionOnSet(D, ProposalIds)
          /\ \A id \in ProposalIds : D[id] = 0
      BY <1>3, <2>1, DepositSums
    <3> HIDE DEF D
    <3> QED BY <3>1, FiniteAssumption, SumOfZeros, Zenon
  <2>3. SumFunction(b) = Supply * Cardinality(Accounts)
    <3> DEFINE z == [a \in Accounts |-> 0]
    <3>1. /\ b \in [Accounts -> Int] /\ z \in [Accounts -> Int] /\ Supply \in Int
          /\ \A a \in Accounts : z[a] = 0 /\ b[a] = z[a] + Supply
      BY BoundsAssumption DEF Init
    <3>2. SumFunction(b) = SumFunctionOnSet(b, Accounts)
      BY <1>3, DepositSums
    <3> HIDE DEF b, z
    <3>3. SumFunctionOnSet(z, Accounts) = 0
      BY <3>1, FiniteAssumption, SumOfZeros
    <3>4. SumFunctionOnSet(b, Accounts) = SumFunctionOnSet(z, Accounts) + Cardinality(Accounts) * Supply
      BY <3>1, FiniteAssumption, SumShifted, Zenon
    <3>5. Cardinality(Accounts) \in Nat
      BY FiniteAssumption, FS_CardinalityType
    <3> QED BY <3>1, <3>2, <3>3, <3>4, <3>5
  <2>4. gov.escrow = 0 /\ gov.burned = 0 /\ \A id \in ProposalIds : gov.proposals[id].status = "none"
    BY <1>1 DEF Init
  <2>5. Supply * Cardinality(Accounts) \in Int
    BY BoundsAssumption, FiniteAssumption, FS_CardinalityType
  <2> QED BY <2>1, <2>2, <2>3, <2>4, <2>5 DEF Escrowed, Open
<1>6. Walked /\ TypeOK
  BY <1>3, BoundsAssumption DEF Init, Walked, TypeOK
<1> QED BY <1>4, <1>5, <1>6 DEF IInv

-----------------------------------------------------------------------------
(***************************************************************************)
(* The theorems                                                            *)
(***************************************************************************)

\* The inductive invariant implies the invariants.
LEMMA QueuesFollow == IInv => QueuesMatchStatus
<1> SUFFICES ASSUME IInv PROVE QueuesMatchStatus
  OBVIOUS
<1>1. Sound(gov)
  BY DEF IInv
<1>2. /\ gov.inactive \subseteq Nat \X ProposalIds /\ gov.active \subseteq Nat \X ProposalIds
      /\ gov.votingPeriod \subseteq ProposalIds
  BY <1>1 DEF Sound, Typed, Stores
<1>3. \A id \in ProposalIds :
         /\ Status(id) = "deposit" => <<gov.proposals[id].depositEnd, id>> \in gov.inactive
         /\ Status(id) = "voting" => <<gov.proposals[id].votingEnd, id>> \in gov.active
  BY <1>1, Zenon DEF Sound, Recorded, WellFormed, Queued, Status
<1>4. gov.inactive = {<<gov.proposals[id].depositEnd, id>> : id \in Ids("deposit")}
  <2>1. ASSUME NEW k \in gov.inactive
        PROVE  k \in {<<gov.proposals[id].depositEnd, id>> : id \in Ids("deposit")}
    <3>1. PICK t \in Nat, id \in ProposalIds : k = <<t, id>>
      BY <1>2
    <3>2. Status(id) = "deposit" /\ gov.proposals[id].depositEnd = t
      BY <1>1, <3>1 DEF Sound, Queued, Status
    <3> QED BY <3>1, <3>2 DEF Ids
  <2> QED BY <1>3, <2>1, Zenon DEF Ids
<1>5. gov.active = {<<gov.proposals[id].votingEnd, id>> : id \in Ids("voting")}
  <2>1. ASSUME NEW k \in gov.active
        PROVE  k \in {<<gov.proposals[id].votingEnd, id>> : id \in Ids("voting")}
    <3>1. PICK t \in Nat, id \in ProposalIds : k = <<t, id>>
      BY <1>2
    <3>2. Status(id) = "voting" /\ gov.proposals[id].votingEnd = t
      BY <1>1, <3>1 DEF Sound, Queued, Status
    <3> QED BY <3>1, <3>2 DEF Ids
  <2> QED BY <1>3, <2>1, Zenon DEF Ids
<1>6. gov.votingPeriod = Ids("voting")
  BY <1>1, <1>2 DEF Sound, Queued, Ids, Status
<1> QED BY <1>4, <1>5, <1>6 DEF QueuesMatchStatus

LEMMA InvariantsFollow ==
    IInv => /\ QuorumChecksSound /\ DepositsInEscrow /\ NothingOverdue
            /\ MinDepositsAboveFloor /\ TypeOK
            /\ Unregistering # "anytime" => NeverHalts
<1> SUFFICES ASSUME IInv
             PROVE  /\ QuorumChecksSound /\ DepositsInEscrow /\ NothingOverdue
                    /\ MinDepositsAboveFloor /\ TypeOK
                    /\ Unregistering # "anytime" => NeverHalts
  OBVIOUS
<1>1. Sound(gov) /\ Escrowed(gov) /\ Walked /\ TypeOK
  BY DEF IInv
<1>2. QuorumChecksSound
  BY <1>1, Zenon DEF Sound, Checked, Recorded, WellFormed, QuorumChecksSound, Status
<1>3. DepositsInEscrow
  BY <1>1, Zenon DEF Escrowed, DepositsInEscrow, Status
<1>4. NothingOverdue
  <2>1. ASSUME phase = "commit", NEW k \in gov.inactive \cup gov.active \cup QuorumKeys
        PROVE  k[1] > now
    <3>1. CASE k \in gov.inactive \cup gov.active
      BY <1>1, <2>1, <3>1 DEF Walked
    <3>2. CASE k \in QuorumKeys
      <4>1. PICK e \in gov.quorumChecks : k = <<e.time, e.id>>
        BY <3>2 DEF QuorumKeys
      <4> QED BY <1>1, <2>1, <4>1 DEF Walked
    <3> QED BY <3>1, <3>2
  <2> QED BY <2>1 DEF NothingOverdue
<1>5. MinDepositsAboveFloor
  BY <1>1, Zenon DEF Sound, Floored, MinDepositsAboveFloor
<1>6. Unregistering # "anytime" => NeverHalts
  BY <1>1 DEF Sound, Decodable, NeverHalts
<1> QED BY <1>1, <1>2, <1>3, <1>4, <1>5, <1>6

\* The invariant holds in every state that can be reached.
THEOREM ProposalsInvariant == Spec => []IInv
<1>1. IInv /\ [Next]_vars => IInv'
  BY StepsKeep DEF Kept
<1> QED BY <1>1, InitSatisfies, PTL DEF Spec

\* TypeOK: every store always holds values of its type.
THEOREM ProposalsTyped == Spec => []TypeOK
BY ProposalsInvariant, InvariantsFollow, PTL

\* QueuesMatchStatus: however messages and walks interleave, the inactive queue, the active
\* queue and VotingPeriodProposals hold a proposal exactly when its status says so and under
\* the one key it names.
THEOREM ProposalsQueued == Spec => []QueuesMatchStatus
BY ProposalsInvariant, QueuesFollow, PTL

\* QuorumChecksSound: EndBlocker has at most one quorum check pending for a proposal, only
\* while it is voted on and not after the vote ends, and extends a vote at most once.
THEOREM ProposalsChecked == Spec => []QuorumChecksSound
BY ProposalsInvariant, InvariantsFollow, PTL

\* DepositsInEscrow: the gov module account holds exactly the deposits on record, for any
\* number of accounts, proposals and deposits, and no coin is paid out twice.
THEOREM ProposalsEscrowed == Spec => []DepositsInEscrow
BY ProposalsInvariant, InvariantsFollow, PTL

\* NothingOverdue: EndBlocker leaves nothing that was due for a later block.
THEOREM ProposalsOnTime == Spec => []NothingOverdue
BY ProposalsInvariant, InvariantsFollow, PTL

\* MinDepositsAboveFloor: UpdateMinDeposit, UpdateMinInitialDeposit and MsgUpdateParams keep
\* both thresholds at or above the floors of the parameters in force.
THEOREM ProposalsFloored == Spec => []MinDepositsAboveFloor
BY ProposalsInvariant, InvariantsFollow, PTL

\* PeriodsRespected: no message and no callback of EndBlocker ends a period early, brings its
\* end closer or touches a decided proposal.
THEOREM ProposalsRespectPeriods == Spec => PeriodsRespected
<1>1. IInv /\ [Next]_vars => [\A id \in ProposalIds : PeriodRespected(id)]_vars
  BY StepsKeep DEF Kept
<1> QED BY <1>1, ProposalsInvariant, PTL DEF Spec, PeriodsRespected

\* NeverHalts: EndBlocker returns no error as long as no release drops a message type of a
\* proposal that waits for a quorum check.
THEOREM ProposalsNeverHalt == Unregistering # "anytime" => (Spec => []NeverHalts)
<1> SUFFICES ASSUME Unregistering # "anytime" PROVE Spec => []NeverHalts
  OBVIOUS
<1>1. IInv => NeverHalts
  BY InvariantsFollow
<1> QED BY <1>1, ProposalsInvariant, PTL
=============================================================================
