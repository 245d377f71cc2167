------------------------ MODULE ProposalKeeperProofs ------------------------
(***************************************************************************)
(* What the functions of ProposalKeeper keep, for every set of accounts,   *)
(* voters, amounts and valid parameters.                                   *)
(*                                                                         *)
(* The handlers of Proposals are compositions of these functions, so the   *)
(* part of their inductive invariant that speaks of the stores alone is a  *)
(* predicate on any state g of the stores: Sound(g), that records, queues, *)
(* quorum checks and thresholds agree, and Escrowed(g), that the module    *)
(* account holds the deposits.  The two are apart because between the      *)
(* payment and the record of a deposit only the first holds.               *)
(***************************************************************************)
EXTENDS Proposals, ArithmeticTheorems

\* The queues are finite: their sizes move the thresholds.
Typed(g) == g \in Stores /\ IsFiniteSet(g.inactive) /\ IsFiniteSet(g.active)

WellFormed(p) ==
    /\ p.status = "none" => p = NoProposal
    /\ p.status = "deposit" => p.depositEnd \in Nat /\ p.votingEnd = Nil /\ p.extended = 0
    /\ p.status = "voting" => p.votingEnd \in Nat
    /\ p.extended <= 1

\* Records are well formed, and there is none under the ids to come.
Recorded(g) ==
    \A id \in ProposalIds :
        /\ WellFormed(g.proposals[id])
        /\ id >= g.nextId => g.proposals[id].status = "none"

Queued(g) ==
    \A id \in ProposalIds :
        /\ \A t \in Nat :
              /\ <<t, id>> \in g.inactive <=>
                    g.proposals[id].status = "deposit" /\ g.proposals[id].depositEnd = t
              /\ <<t, id>> \in g.active <=>
                    g.proposals[id].status = "voting" /\ g.proposals[id].votingEnd = t
        /\ id \in g.votingPeriod <=> g.proposals[id].status = "voting"

Checked(g) ==
    \A e \in g.quorumChecks :
        /\ g.proposals[e.id].status = "voting"
        /\ e.time <= g.proposals[e.id].votingEnd
        /\ e.done <= e.count
        /\ g.proposals[e.id].extended = 0
        /\ \A f \in g.quorumChecks : f.id = e.id => f = e

Floored(g) ==
    /\ g.lastMinDeposit.value >= g.params.minDeposit.floor
    /\ g.lastMinInitialDeposit.value >= g.params.minInitialDeposit.floor

\* As long as no release drops a message type of a proposal that waits for a
\* quorum check.
Decodable(g) ==
    Unregistering # "anytime" =>
        ~g.error /\ \A e \in g.quorumChecks : e.id \notin g.undecodable

Sound(g) ==
    Typed(g) /\ Recorded(g) /\ Queued(g) /\ Checked(g) /\ Floored(g) /\ Decodable(g)

Escrowed(g) ==
    /\ g.escrow = TotalDeposits(g)
    /\ \A id \in ProposalIds :
          DepositsOn(g, id) = IF g.proposals[id].status \in Open THEN g.proposals[id].total ELSE 0
    /\ SumFunction(g.balances) + g.escrow + g.burned = Supply * Cardinality(Accounts)
-----------------------------------------------------------------------------
(***************************************************************************)
(* The functions of the keeper                                             *)
(***************************************************************************)

\* What validated parameters are, as the lemmas use it.
LEMMA ParamsValid ==
    ASSUME NEW p \in ParamSets
    PROVE  /\ p.maxDepositPeriod \in Nat /\ p.votingPeriod \in Nat
           /\ p.quorumTimeout \in Nat /\ p.quorumTimeout < p.votingPeriod
           /\ p.maxVotingPeriodExtension \in Nat /\ p.quorumCheckCount \in Nat
           /\ \A t \in {p.minDeposit, p.minInitialDeposit} :
                 /\ t.floor \in Nat /\ t.target \in Nat /\ t.updatePeriod \in Nat
                 /\ t.increase \in Int /\ t.decrease \in Int
BY ParamsAssumption, PrecisionAssumption DEF ValidParams

\* A new threshold is a natural number and not below the floor.
LEMMA NewMinDeposit ==
    ASSUME NEW floor \in Nat, NEW last \in Nat, NEW percChange \in Int
    PROVE  /\ GetNewMinDeposit(floor, last, percChange) \in Nat
           /\ GetNewMinDeposit(floor, last, percChange) >= floor
<1> DEFINE x == TruncateInt(MulInt(percChange, last))
<1>1. x \in Int
  BY PrecisionAssumption DEF TruncateInt, MulInt
<1> HIDE DEF x
<1>2. Max({floor, x}) \in Int /\ Max({floor, x}) = IF floor >= x THEN floor ELSE x
  BY <1>1, MaxOfTwo
<1> QED BY <1>1, <1>2 DEF GetNewMinDeposit, x

\* However many proposals are queued, the throttler leaves a threshold above its floor.
LEMMA ThrottledAboveFloor ==
    ASSUME NEW t, t.floor \in Nat, t.target \in Nat, t.increase \in Int, t.decrease \in Int,
           NEW last \in Thresholds, last.value >= t.floor,
           NEW n \in Nat, NEW now0 \in Nat, NEW check \in BOOLEAN
    PROVE  /\ Throttled(t, last, n, now0, check) \in Thresholds
           /\ Throttled(t, last, n, now0, check).value >= t.floor
<1> DEFINE updated(alpha) ==
             [value |-> GetNewMinDeposit(t.floor, last.value, NewDecFromInt(1) + alpha), time |-> now0]
           down == Mul(t.decrease, ApproxRoot(n - t.target))
<1>1. ASSUME NEW alpha \in Int
      PROVE  updated(alpha) \in Thresholds /\ updated(alpha).value >= t.floor
  <2>1. NewDecFromInt(1) + alpha \in Int /\ last.value \in Nat
    BY PrecisionAssumption DEF NewDecFromInt, Thresholds
  <2> QED BY <2>1, NewMinDeposit, Zenon DEF Thresholds
<1>2. down \in Int
  <2>1. t.decrease * ApproxRoot(n - t.target) \in Int
    BY PrecisionAssumption DEF ApproxRoot, NewDecFromInt
  <2> QED BY <2>1, ChopSign DEF Mul
<1>3. Throttled(t, last, n, now0, check) \in {last, updated(t.increase), updated(down)}
  BY DEF Throttled
<1> QED BY <1>1, <1>2, <1>3

\* A threshold under a new floor is above it.
LEMMA ReflooredAboveFloor ==
    ASSUME NEW floor \in Nat, NEW last \in Thresholds, NEW now0 \in Nat
    PROVE  Refloored(floor, last, now0) \in Thresholds /\ Refloored(floor, last, now0).value >= floor
<1> DEFINE v == GetNewMinDeposit(floor, last.value, NewDecFromInt(1))
<1>1. NewDecFromInt(1) \in Int /\ last.value \in Nat
  BY PrecisionAssumption DEF NewDecFromInt, Thresholds
<1>2. v \in Nat /\ v >= floor
  BY <1>1, NewMinDeposit, Zenon
<1> HIDE DEF v
<1> QED BY <1>2 DEF Refloored, Thresholds, v

\* h differs from g in what Sound does not look at.
SameLife(h, g) ==
    /\ h \in Stores
    /\ h.params = g.params /\ h.nextId = g.nextId /\ h.proposals = g.proposals
    /\ h.undecodable = g.undecodable /\ h.error = g.error
    /\ h.votingPeriod = g.votingPeriod /\ h.inactive = g.inactive /\ h.active = g.active
    /\ h.quorumChecks = g.quorumChecks
    /\ h.lastMinDeposit = g.lastMinDeposit /\ h.lastMinInitialDeposit = g.lastMinInitialDeposit

SameMoney(h, g) ==
    /\ h.deposits = g.deposits /\ h.escrow = g.escrow
    /\ h.balances = g.balances /\ h.burned = g.burned

\* Only thresholds and votes may differ.
Unthrottled(h, g) ==
    /\ h \in Stores
    /\ h.params = g.params /\ h.nextId = g.nextId /\ h.proposals = g.proposals
    /\ h.undecodable = g.undecodable /\ h.error = g.error
    /\ h.votingPeriod = g.votingPeriod /\ h.inactive = g.inactive /\ h.active = g.active
    /\ h.quorumChecks = g.quorumChecks
    /\ SameMoney(h, g)

LEMMA SameLifeSound ==
    ASSUME NEW g, Sound(g), NEW h, SameLife(h, g)
    PROVE  Sound(h)
BY DEF Sound, SameLife, Typed, Recorded, Queued, Checked, Floored, Decodable

\* One record changes, and the queues change with it: each holds the proposal under the
\* key that its new status asks for and under no other.
Requeued(h, g, id, p) ==
    /\ h.proposals = [g.proposals EXCEPT ![id] = p]
    /\ h.inactive = (g.inactive \ {<<g.proposals[id].depositEnd, id>>})
                        \cup (IF p.status = "deposit" THEN {<<p.depositEnd, id>>} ELSE {})
    /\ h.active = (g.active \ {<<g.proposals[id].votingEnd, id>>})
                      \cup (IF p.status = "voting" THEN {<<p.votingEnd, id>>} ELSE {})
    /\ h.votingPeriod = IF p.status = "voting" THEN g.votingPeriod \cup {id} ELSE g.votingPeriod \ {id}

LEMMA RequeuedSound ==
    ASSUME NEW g, Typed(g), Recorded(g), Queued(g),
           NEW h, h \in Stores, NEW id \in ProposalIds, NEW p \in ProposalRecords, WellFormed(p),
           Requeued(h, g, id, p),
           h.nextId \in {g.nextId, g.nextId + 1}, p.status # "none" => id < h.nextId
    PROVE  Typed(h) /\ Recorded(h) /\ Queued(h)
<1>1. Typed(h)
  <2>1. ASSUME NEW S, IsFiniteSet(S), NEW x, NEW y
        PROVE  IsFiniteSet((S \ {x}) \cup {}) /\ IsFiniteSet((S \ {x}) \cup {y})
    <3>1. IsFiniteSet(S \ {x}) /\ IsFiniteSet((S \ {x}) \cup {y})
      BY <2>1, FS_RemoveElement, FS_AddElement, SMTT(30)
    <3>2. (S \ {x}) \cup {} = S \ {x}
      OBVIOUS
    <3> QED BY <3>1, <3>2
  <2> DEFINE S == g.inactive
             T == g.active
             x == <<g.proposals[id].depositEnd, id>>
             y == <<g.proposals[id].votingEnd, id>>
             k == <<p.depositEnd, id>>
             l == <<p.votingEnd, id>>
  <2>2. /\ IsFiniteSet(S) /\ IsFiniteSet(T)
        /\ h.inactive = (S \ {x}) \cup (IF p.status = "deposit" THEN {k} ELSE {})
        /\ h.active = (T \ {y}) \cup (IF p.status = "voting" THEN {l} ELSE {})
    BY Zenon DEF Typed, Requeued
  <2> HIDE DEF S, T, x, y, k, l
  <2>3. /\ IsFiniteSet((S \ {x}) \cup {}) /\ IsFiniteSet((S \ {x}) \cup {k})
        /\ IsFiniteSet((T \ {y}) \cup {}) /\ IsFiniteSet((T \ {y}) \cup {l})
    BY <2>1, <2>2, Zenon
  <2>4. IsFiniteSet(h.inactive)
    BY <2>2, <2>3, Zenon
  <2>5. IsFiniteSet(h.active)
    BY <2>2, <2>3
  <2> QED BY <2>4, <2>5 DEF Typed
<1>2. g.proposals \in [ProposalIds -> ProposalRecords] /\ g.nextId \in Nat /\ ProposalIds \subseteq Nat
  BY FiniteAssumption DEF Typed, Stores
<1>3. Recorded(h)
  BY <1>2 DEF Recorded, Requeued
<1>4. Queued(h)
  <2> SUFFICES ASSUME NEW x \in ProposalIds, NEW t \in Nat
               PROVE  /\ <<t, x>> \in h.inactive <=>
                            h.proposals[x].status = "deposit" /\ h.proposals[x].depositEnd = t
                      /\ <<t, x>> \in h.active <=>
                            h.proposals[x].status = "voting" /\ h.proposals[x].votingEnd = t
                      /\ x \in h.votingPeriod <=> h.proposals[x].status = "voting"
    BY Zenon DEF Queued
  <2>1. CASE x = id
    <3>1. h.proposals[x] = p
      BY <1>2, <2>1 DEF Requeued
    <3>2. <<t, x>> \in h.inactive <=> p.status = "deposit" /\ p.depositEnd = t
      BY <2>1 DEF Queued, Requeued
    <3>3. <<t, x>> \in h.active <=> p.status = "voting" /\ p.votingEnd = t
      BY <2>1 DEF Queued, Requeued
    <3>4. x \in h.votingPeriod <=> p.status = "voting"
      BY <2>1 DEF Requeued
    <3> QED BY <3>1, <3>2, <3>3, <3>4
  <2>2. CASE x # id
    <3>1. h.proposals[x] = g.proposals[x]
      BY <1>2, <2>2 DEF Requeued
    <3>2. /\ <<t, x>> \in h.inactive <=> <<t, x>> \in g.inactive
          /\ <<t, x>> \in h.active <=> <<t, x>> \in g.active
          /\ x \in h.votingPeriod <=> x \in g.votingPeriod
      BY <2>2 DEF Requeued
    <3>3. /\ <<t, x>> \in g.inactive <=>
                g.proposals[x].status = "deposit" /\ g.proposals[x].depositEnd = t
          /\ <<t, x>> \in g.active <=>
                g.proposals[x].status = "voting" /\ g.proposals[x].votingEnd = t
          /\ x \in g.votingPeriod <=> g.proposals[x].status = "voting"
      BY Zenon DEF Queued
    <3> QED BY <3>1, <3>2, <3>3
  <2> QED BY <2>1, <2>2
<1> QED BY <1>1, <1>3, <1>4

\* The quorum checks after a change of one record that no check waits for, or
\* that keeps what the checks rely on.
LEMMA ChecksKept ==
    ASSUME NEW g, Typed(g), Checked(g), NEW h, NEW id \in ProposalIds, NEW p \in ProposalRecords,
           h.proposals = [g.proposals EXCEPT ![id] = p],
           h.quorumChecks \subseteq g.quorumChecks,
           \/ \A e \in h.quorumChecks : e.id # id
           \/ /\ p.status = g.proposals[id].status
              /\ p.votingEnd = g.proposals[id].votingEnd
              /\ p.extended = g.proposals[id].extended
    PROVE  Checked(h)
<1>1. g.proposals \in [ProposalIds -> ProposalRecords]
      /\ \A e \in g.quorumChecks : e.id \in ProposalIds
  BY DEF Typed, Stores, QuorumCheckEntries
<1> QED BY <1>1 DEF Checked

\* The threshold updates change a threshold only, and leave it above its floor.
LEMMA UpdateMinDepositSound ==
    ASSUME NEW g, Sound(g), NEW t \in Nat, NEW check \in BOOLEAN
    PROVE  Sound(UpdateMinDeposit(g, t, check)) /\ Unthrottled(UpdateMinDeposit(g, t, check), g)
<1> DEFINE l == Throttled(g.params.minDeposit, g.lastMinDeposit, Cardinality(g.active), t, check)
           h == [g EXCEPT !.lastMinDeposit = l]
<1>1. UpdateMinDeposit(g, t, check) = h
  BY DEF UpdateMinDeposit
<1>2. g \in Stores /\ Cardinality(g.active) \in Nat
  BY FS_CardinalityType DEF Sound, Typed
<1>3. l \in Thresholds /\ l.value >= g.params.minDeposit.floor
  BY <1>2, ParamsValid, ThrottledAboveFloor, Zenon DEF Stores, Sound, Floored
<1> HIDE DEF l
<1>4. /\ Unthrottled(h, g) /\ h.lastMinDeposit = l
      /\ h.lastMinInitialDeposit = g.lastMinInitialDeposit
  BY <1>2, <1>3, Zenon DEF Stores, Unthrottled, SameMoney
<1>5. Sound(h)
  BY <1>3, <1>4 DEF Sound, Typed, Recorded, Queued, Checked, Floored, Decodable, Unthrottled
<1> QED BY <1>1, <1>4, <1>5

LEMMA UpdateMinInitialDepositSound ==
    ASSUME NEW g, Sound(g), NEW t \in Nat, NEW check \in BOOLEAN
    PROVE  /\ Sound(UpdateMinInitialDeposit(g, t, check))
           /\ Unthrottled(UpdateMinInitialDeposit(g, t, check), g)
<1> DEFINE l == Throttled(g.params.minInitialDeposit, g.lastMinInitialDeposit,
                          Cardinality(g.inactive), t, check)
           h == [g EXCEPT !.lastMinInitialDeposit = l]
<1>1. UpdateMinInitialDeposit(g, t, check) = h
  BY DEF UpdateMinInitialDeposit
<1>2. g \in Stores /\ Cardinality(g.inactive) \in Nat
  BY FS_CardinalityType DEF Sound, Typed
<1>3. l \in Thresholds /\ l.value >= g.params.minInitialDeposit.floor
  BY <1>2, ParamsValid, ThrottledAboveFloor, Zenon DEF Stores, Sound, Floored
<1> HIDE DEF l
<1>4. /\ Unthrottled(h, g) /\ h.lastMinInitialDeposit = l
      /\ h.lastMinDeposit = g.lastMinDeposit
  BY <1>2, <1>3, Zenon DEF Stores, Unthrottled, SameMoney
<1>5. Sound(h)
  BY <1>3, <1>4 DEF Sound, Typed, Recorded, Queued, Checked, Floored, Decodable, Unthrottled
<1> QED BY <1>1, <1>4, <1>5

\* h is g with another record for one proposal.
SetTo(h, g, id, p) ==
    /\ h \in Stores
    /\ h.proposals = [g.proposals EXCEPT ![id] = p]
    /\ h.votingPeriod = IF p.status = "voting" THEN g.votingPeriod \cup {id} ELSE g.votingPeriod \ {id}
    /\ h.params = g.params /\ h.nextId = g.nextId
    /\ h.undecodable = g.undecodable /\ h.error = g.error
    /\ h.inactive = g.inactive /\ h.active = g.active
    /\ h.quorumChecks = g.quorumChecks
    /\ h.lastMinDeposit = g.lastMinDeposit /\ h.lastMinInitialDeposit = g.lastMinInitialDeposit
    /\ SameMoney(h, g)

LEMMA SetProposalIs ==
    ASSUME NEW g \in Stores, NEW id \in ProposalIds, NEW p \in ProposalRecords
    PROVE  SetTo(SetProposal(g, id, p), g, id, p)
BY Zenon DEF SetTo, SetProposal, Stores, SameMoney

\* Submission: a fresh record in the deposit period.
LEMMA SubmitProposalSound ==
    ASSUME NEW g, Sound(g), NEW t \in Nat, g.nextId \in ProposalIds
    PROVE  LET h == SubmitProposal(g, t)
               p == [NoProposal EXCEPT !.status = "deposit", !.depositEnd = t + g.params.maxDepositPeriod]
           IN  /\ Sound(h)
               /\ h.proposals = [g.proposals EXCEPT ![g.nextId] = p]
               /\ g.proposals[g.nextId] = NoProposal
               /\ h.params = g.params
               /\ SameMoney(h, g)
<1> DEFINE id == g.nextId
           p == [NoProposal EXCEPT !.status = "deposit", !.depositEnd = t + g.params.maxDepositPeriod]
           m == [SetProposal(g, id, p) EXCEPT !.nextId = @ + 1,
                                              !.inactive = @ \cup {<<p.depositEnd, id>>}]
<1>1. g \in Stores /\ g.params.maxDepositPeriod \in Nat /\ g.proposals[id] = NoProposal
  BY ParamsValid, FiniteAssumption DEF Sound, Typed, Recorded, WellFormed, Stores
<1>2. /\ p \in ProposalRecords /\ p.status = "deposit" /\ p.depositEnd \in Nat
      /\ p.votingEnd = Nil /\ p.extended = 0
  <2>1. /\ NoProposal \in ProposalRecords
        /\ NoProposal.votingEnd = Nil /\ NoProposal.extended = 0
    BY DEF NoProposal, ProposalRecords, Times
  <2>2. t + g.params.maxDepositPeriod \in Nat
    BY <1>1
  <2> QED BY <2>1, <2>2, Zenon DEF ProposalRecords, Open, Times
<1>3. /\ m \in Stores /\ m.nextId = id + 1
      /\ m.proposals = [g.proposals EXCEPT ![id] = p]
      /\ m.inactive = g.inactive \cup {<<p.depositEnd, id>>}
      /\ m.active = g.active /\ m.votingPeriod = g.votingPeriod \ {id}
      /\ m.quorumChecks = g.quorumChecks /\ m.undecodable = g.undecodable /\ m.error = g.error
      /\ m.params = g.params /\ m.lastMinDeposit = g.lastMinDeposit
      /\ m.lastMinInitialDeposit = g.lastMinInitialDeposit
      /\ SameMoney(m, g)
  <2> HIDE DEF p
  <2> DEFINE x == <<p.depositEnd, id>>
             s == SetProposal(g, id, p)
  <2>1. SetTo(s, g, id, p)
    BY <1>1, <1>2, SetProposalIs
  <2>2. x \in Nat \X ProposalIds /\ s.nextId = id /\ s.nextId + 1 \in Nat
    BY <1>1, <1>2, <2>1 DEF SetTo, Stores
  <2> HIDE DEF x, s
  <2>3. m = [s EXCEPT !.nextId = @ + 1, !.inactive = @ \cup {x}]
    BY DEF x, s
  <2> HIDE DEF m
  <2>4. m \in Stores
    BY <2>1, <2>2, <2>3, Zenon DEF SetTo, Stores
  <2>5. m.nextId = id + 1 /\ m.inactive = s.inactive \cup {x}
    BY <2>1, <2>2, <2>3 DEF SetTo, Stores
  <2> QED BY <1>2, <2>1, <2>3, <2>4, <2>5 DEF SetTo, Stores, SameMoney, x
<1> HIDE DEF p, m
<1>4. Requeued(m, g, id, p)
  BY <1>1, <1>2, <1>3 DEF Requeued, NoProposal, Nil, Stores
<1>5. Typed(m) /\ Recorded(m) /\ Queued(m)
  <2>1. WellFormed(p)
    BY <1>2 DEF WellFormed
  <2>2. m.nextId \in {g.nextId, g.nextId + 1} /\ id < m.nextId
    BY <1>3, FiniteAssumption
  <2> QED BY <1>2, <1>3, <1>4, <2>1, <2>2, RequeuedSound DEF Sound
<1>6. Checked(m)
  <2>1. \A e \in m.quorumChecks : e.id # id
    BY <1>1, <1>3 DEF Sound, Checked, NoProposal
  <2> QED BY <1>2, <1>3, <2>1, ChecksKept DEF Sound
<1>7. Sound(m)
  BY <1>3, <1>5, <1>6 DEF Sound, Floored, Decodable
<1>8. SubmitProposal(g, t) = UpdateMinInitialDeposit(m, t, FALSE)
  BY DEF SubmitProposal, m, p
<1>9. Sound(SubmitProposal(g, t)) /\ Unthrottled(SubmitProposal(g, t), m)
  BY <1>7, <1>8, UpdateMinInitialDepositSound, Zenon
<1> QED BY <1>1, <1>3, <1>9 DEF Unthrottled, SameMoney, p

\* The start of the voting period: out of one queue and into the other, and a first
\* quorum check that is due before the vote ends.
LEMMA ActivateSound ==
    ASSUME NEW g, Sound(g), NEW t \in Nat, NEW id \in ProposalIds,
           g.proposals[id].status = "deposit", id \notin g.undecodable
    PROVE  LET h == ActivateVotingPeriod(g, t, id)
               p == [g.proposals[id] EXCEPT !.status = "voting", !.votingStart = t,
                                            !.votingEnd = t + g.params.votingPeriod]
           IN  /\ Sound(h)
               /\ h.proposals = [g.proposals EXCEPT ![id] = p]
               /\ SameMoney(h, g)
<1> DEFINE p == [g.proposals[id] EXCEPT !.status = "voting", !.votingStart = t,
                                        !.votingEnd = t + g.params.votingPeriod]
           s == SetProposal(g, id, p)
           x == <<p.depositEnd, id>>
           y == <<p.votingEnd, id>>
           m == [s EXCEPT !.inactive = @ \ {x}, !.active = @ \cup {y}]
           u == UpdateMinDeposit(m, t, FALSE)
           timeout == t + g.params.quorumTimeout
           entry == [time |-> timeout, id |-> id, timeout |-> timeout,
                     count |-> g.params.quorumCheckCount, done |-> 0]
           h == [u EXCEPT !.quorumChecks = IF g.params.quorumCheckCount > 0 THEN @ \cup {entry} ELSE @]
<1>1. /\ g \in Stores /\ g.proposals[id] \in ProposalRecords
      /\ g.params.votingPeriod \in Nat /\ g.params.quorumTimeout \in Nat
      /\ g.params.quorumTimeout < g.params.votingPeriod /\ g.params.quorumCheckCount \in Nat
  BY ParamsValid DEF Sound, Typed, Stores
<1>2. g.proposals[id].depositEnd \in Nat /\ g.proposals[id].extended = 0 /\ g.proposals[id].votingEnd = Nil
  BY DEF Sound, Recorded, WellFormed
<1>3. ActivateVotingPeriod(g, t, id) = h
  BY DEF ActivateVotingPeriod
<1>4. /\ p \in ProposalRecords /\ p.status = "voting" /\ p.votingEnd = t + g.params.votingPeriod
      /\ p.votingEnd \in Nat /\ p.depositEnd = g.proposals[id].depositEnd /\ p.extended = 0
  <2>1. t + g.params.votingPeriod \in Nat
    BY <1>1
  <2> QED BY <1>1, <1>2, <2>1, Zenon DEF ProposalRecords, Open, Times
<1> HIDE DEF p
<1>5. SetTo(s, g, id, p)
  BY <1>1, <1>4, SetProposalIs
<1>6. x \in Nat \X ProposalIds /\ y \in Nat \X ProposalIds
  BY <1>2, <1>4
<1> HIDE DEF s, x, y
<1>7. /\ m \in Stores /\ m.inactive = g.inactive \ {x} /\ m.active = g.active \cup {y}
  BY <1>5, <1>6, Zenon DEF SetTo, Stores, SameMoney
<1>8. /\ m.proposals = [g.proposals EXCEPT ![id] = p]
      /\ m.votingPeriod = g.votingPeriod \cup {id}
      /\ m.params = g.params /\ m.nextId = g.nextId
      /\ m.undecodable = g.undecodable /\ m.error = g.error
      /\ m.quorumChecks = g.quorumChecks
      /\ m.lastMinDeposit = g.lastMinDeposit /\ m.lastMinInitialDeposit = g.lastMinInitialDeposit
      /\ SameMoney(m, g)
  BY <1>4, <1>5 DEF SetTo, Stores, SameMoney
<1> HIDE DEF m
<1>9. Requeued(m, g, id, p)
  <2>1. <<g.proposals[id].depositEnd, id>> = x
    BY <1>4, Zenon DEF x
  <2>2. <<g.proposals[id].votingEnd, id>> \notin g.active
    <3>1. g.active \in SUBSET (Nat \X ProposalIds) /\ g.proposals[id].votingEnd \notin Nat
      BY <1>1, <1>2 DEF Stores, Nil
    <3> QED BY <3>1
  <2>3. m.inactive = (g.inactive \ {<<g.proposals[id].depositEnd, id>>}) \cup {}
    BY <1>7, <2>1
  <2>4. m.active = (g.active \ {<<g.proposals[id].votingEnd, id>>}) \cup {<<p.votingEnd, id>>}
    BY <1>7, <2>2 DEF y
  <2> QED BY <1>4, <1>8, <2>3, <2>4 DEF Requeued
<1>10. Typed(m) /\ Recorded(m) /\ Queued(m)
  <2>1. WellFormed(p)
    BY <1>4 DEF WellFormed
  <2>2. id < m.nextId
    BY <1>1, <1>8, FiniteAssumption DEF Sound, Recorded, Stores
  <2> QED BY <1>4, <1>7, <1>8, <1>9, <2>1, <2>2, RequeuedSound DEF Sound
<1>11. \A e \in g.quorumChecks : e.id # id
  BY DEF Sound, Checked
<1>12. Sound(m)
  <2>1. Checked(m)
    BY <1>4, <1>8, <1>11, ChecksKept DEF Sound
  <2> QED BY <1>8, <1>10, <2>1 DEF Sound, Floored, Decodable
<1>13. Sound(u) /\ Unthrottled(u, m)
  BY <1>12, UpdateMinDepositSound, Zenon
<1> HIDE DEF u
<1>14. /\ timeout \in Nat /\ timeout <= p.votingEnd
       /\ g.params.quorumCheckCount > 0 => entry \in QuorumCheckEntries
       /\ entry.id = id /\ entry.time = timeout /\ entry.done = 0
       /\ entry.count = g.params.quorumCheckCount
  BY <1>1, <1>4 DEF QuorumCheckEntries
<1> HIDE DEF entry, timeout
<1>15. /\ h \in Stores
       /\ h.quorumChecks = IF g.params.quorumCheckCount > 0 THEN u.quorumChecks \cup {entry} ELSE u.quorumChecks
  BY <1>13, <1>14, Zenon DEF Unthrottled, Stores, SameMoney
<1>16. /\ h.params = u.params /\ h.nextId = u.nextId /\ h.proposals = u.proposals
       /\ h.undecodable = u.undecodable /\ h.error = u.error
       /\ h.votingPeriod = u.votingPeriod /\ h.inactive = u.inactive /\ h.active = u.active
       /\ h.lastMinDeposit = u.lastMinDeposit /\ h.lastMinInitialDeposit = u.lastMinInitialDeposit
       /\ SameMoney(h, u)
  BY <1>13 DEF Unthrottled, Stores, SameMoney
<1> HIDE DEF h
<1>17. Checked(h)
  <2>1. h.proposals[id] = p /\ \A e \in u.quorumChecks : e.id # id
    BY <1>1, <1>8, <1>11, <1>13, <1>16 DEF Unthrottled, Stores
  <2>2. Checked(u)
    BY <1>13 DEF Sound
  <2> QED BY <1>1, <1>4, <1>14, <1>15, <1>16, <2>1, <2>2, SMTT(30) DEF Checked
<1>18. Decodable(h)
  BY <1>8, <1>13, <1>14, <1>15, <1>16, SMTT(30) DEF Sound, Decodable, Unthrottled
<1>19. Sound(h)
  <2>1. Typed(u) /\ Recorded(u) /\ Queued(u) /\ Floored(u)
    BY <1>13 DEF Sound
  <2>2. Typed(h) /\ Floored(h)
    BY <1>15, <1>16, <2>1 DEF Typed, Floored
  <2>3. Recorded(h)
    BY <1>16, <2>1, Zenon DEF Recorded
  <2>4. Queued(h)
    BY <1>16, <2>1, SMTT(30) DEF Queued
  <2> QED BY <1>17, <1>18, <2>2, <2>3, <2>4 DEF Sound
<1> QED BY <1>3, <1>8, <1>13, <1>16, <1>19 DEF Unthrottled, SameMoney, p

\* A check that is put back is due later, and not after the vote ends.
LEMMA NextCheckInTime ==
    ASSUME NEW e \in QuorumCheckEntries, NEW end \in Nat, NEW t \in Nat, end > t
    PROVE  /\ NextQuorumCheckTime(e, end, t) \in Nat
           /\ NextQuorumCheckTime(e, end, t) > t
           /\ NextQuorumCheckTime(e, end, t) <= end
<1> DEFINE i == Max({1, (end - e.timeout) \div e.count})
           next == e.time + i
           n == (t - next) \div i
           future == IF next > t THEN next ELSE next + i * (n + 1)
<1>1. e.time \in Nat /\ e.timeout \in Nat /\ e.count \in Nat \ {0}
  BY DEF QuorumCheckEntries
<1>2. i \in Nat \ {0}
  <2>1. (end - e.timeout) \div e.count \in Int
    BY <1>1
  <2> QED BY <2>1, MaxOfTwo
<1> HIDE DEF i
<1>3. next \in Nat
  BY <1>1, <1>2
<1> HIDE DEF next
<1>4. future \in Nat /\ future > t
  <2>1. CASE next > t
    BY <1>3, <2>1
  <2>2. CASE ~(next > t)
    <3>1. t - next \in Nat
      BY <1>3, <2>2
    <3>2. n \in Nat /\ t - next < i * (n + 1)
      BY <1>2, <3>1, DivBounds, Zenon
    <3> HIDE DEF n
    <3>3. i * (n + 1) \in Nat
      BY <1>2, <3>2
    <3> QED BY <1>3, <2>2, <3>2, <3>3
  <2> QED BY <2>1, <2>2
<1>5. NextQuorumCheckTime(e, end, t) = Min({future, end})
  BY DEF NextQuorumCheckTime, future, n, next, i
<1> HIDE DEF future
<1> QED BY <1>4, <1>5, MinOfTwo
-----------------------------------------------------------------------------
(***************************************************************************)
(* The deposits                                                            *)
(***************************************************************************)

DepositsById(g) == [id \in ProposalIds |-> DepositsOn(g, id)]

\* The deposits as sums over the accounts and the proposals.
LEMMA DepositSums ==
    ASSUME NEW g \in Stores
    PROVE  /\ \A id \in ProposalIds : /\ g.deposits[id] \in [Accounts -> Int]
                                      /\ DepositsOn(g, id) = SumFunctionOnSet(g.deposits[id], Accounts)
                                      /\ DepositsOn(g, id) \in Nat
                                      /\ DepositsById(g)[id] = DepositsOn(g, id)
           /\ DepositsById(g) \in [ProposalIds -> Int]
           /\ TotalDeposits(g) = SumFunctionOnSet(DepositsById(g), ProposalIds)
           /\ SumFunction(g.balances) = SumFunctionOnSet(g.balances, Accounts)
           /\ g.balances \in [Accounts -> Int]
           /\ TotalDeposits(g) \in Nat /\ SumFunction(g.balances) \in Int
<1>1. ASSUME NEW id \in ProposalIds
      PROVE  /\ g.deposits[id] \in [Accounts -> Int]
             /\ DepositsOn(g, id) = SumFunctionOnSet(g.deposits[id], Accounts)
             /\ DepositsOn(g, id) \in Nat
             /\ DepositsById(g)[id] = DepositsOn(g, id)
  <2> DEFINE f == g.deposits[id]
  <2>1. f \in [Accounts -> Int] /\ DOMAIN f = Accounts /\ \A a \in Accounts : f[a] >= 0
    BY DEF Stores
  <2> HIDE DEF f
  <2>2. SumFunctionOnSet(f, Accounts) \in Int /\ SumFunctionOnSet(f, Accounts) >= 0
    BY <2>1, FiniteAssumption, SumRemove, SumNat
  <2>3. DepositsOn(g, id) = SumFunctionOnSet(f, Accounts)
    BY <2>1 DEF DepositsOn, SumFunction, f
  <2>4. DepositsById(g)[id] = DepositsOn(g, id)
    BY DEF DepositsById
  <2> QED BY <2>1, <2>2, <2>3, <2>4 DEF f
<1> DEFINE D == DepositsById(g)
<1>2. D \in [ProposalIds -> Int] /\ DOMAIN D = ProposalIds /\ \A id \in ProposalIds : D[id] >= 0
  BY <1>1 DEF DepositsById
<1>3. TotalDeposits(g) = SumFunction(D)
  BY Zenon DEF TotalDeposits, DepositsById
<1> HIDE DEF D
<1>4. SumFunctionOnSet(D, ProposalIds) \in Int /\ SumFunctionOnSet(D, ProposalIds) >= 0
  BY <1>2, FiniteAssumption, SumRemove, SumNat, Zenon
<1>5. g.balances \in [Accounts -> Int] /\ DOMAIN g.balances = Accounts
  BY DEF Stores
<1>6. SumFunctionOnSet(g.balances, Accounts) \in Int
  BY <1>5, FiniteAssumption, SumRemove
<1> QED BY <1>1, <1>2, <1>3, <1>4, <1>5, <1>6 DEF SumFunction, D

\* What is paid out for one proposal is in escrow.
LEMMA EscrowCovers ==
    ASSUME NEW g \in Stores, Escrowed(g), NEW id \in ProposalIds
    PROVE  DepositsOn(g, id) <= g.escrow
<1> DEFINE D == DepositsById(g)
<1>1. /\ D \in [ProposalIds -> Int] /\ D[id] = DepositsOn(g, id)
      /\ TotalDeposits(g) = SumFunctionOnSet(D, ProposalIds)
      /\ \A x \in ProposalIds : D[x] >= 0
  BY DepositSums
<1> HIDE DEF D
<1>2. D[id] <= SumFunctionOnSet(D, ProposalIds)
  BY <1>1, FiniteAssumption, SumNat, Zenon
<1> QED BY <1>1, <1>2 DEF Escrowed

\* The deposits on one proposal change: by how much the total does.
LEMMA TotalMoves ==
    ASSUME NEW g \in Stores, NEW h \in Stores, NEW id \in ProposalIds,
           \A x \in ProposalIds \ {id} : h.deposits[x] = g.deposits[x]
    PROVE  /\ TotalDeposits(h) = TotalDeposits(g) - DepositsOn(g, id) + DepositsOn(h, id)
           /\ \A x \in ProposalIds \ {id} : DepositsOn(h, x) = DepositsOn(g, x)
<1> DEFINE D == DepositsById(g)
           E == DepositsById(h)
<1>1. \A x \in ProposalIds \ {id} : DepositsOn(h, x) = DepositsOn(g, x)
  BY DEF DepositsOn
<1>2. /\ D \in [ProposalIds -> Int] /\ D[id] = DepositsOn(g, id)
      /\ TotalDeposits(g) = SumFunctionOnSet(D, ProposalIds)
      /\ E \in [ProposalIds -> Int] /\ E[id] = DepositsOn(h, id)
      /\ TotalDeposits(h) = SumFunctionOnSet(E, ProposalIds)
      /\ \A x \in ProposalIds \ {id} : D[x] = E[x]
  BY <1>1, DepositSums
<1> HIDE DEF D, E
<1>3. SumFunctionOnSet(E, ProposalIds) = SumFunctionOnSet(D, ProposalIds) - D[id] + E[id]
  BY <1>2, FiniteAssumption, SumChange, SMTT(30)
<1> QED BY <1>1, <1>2, <1>3

\* The money of h is the one of g after a deposit.
Deposited(h, g, id, a, amount) ==
    /\ h.deposits = [g.deposits EXCEPT ![id][a] = @ + amount]
    /\ h.escrow = g.escrow + amount /\ h.burned = g.burned
    /\ h.balances = [g.balances EXCEPT ![a] = @ - amount]

\* A deposit is paid and recorded.
LEMMA DepositEscrowed ==
    ASSUME NEW g \in Stores, Escrowed(g), NEW h \in Stores, NEW id \in ProposalIds,
           NEW a \in Accounts, NEW amount \in Nat,
           Deposited(h, g, id, a, amount),
           g.proposals[id].status \in Open, h.proposals[id].status \in Open,
           h.proposals[id].total = g.proposals[id].total + amount,
           \A x \in ProposalIds \ {id} : h.proposals[x] = g.proposals[x]
    PROVE  Escrowed(h)
<1>1. /\ g.deposits[id] \in [Accounts -> Int] /\ h.deposits[id] \in [Accounts -> Int]
      /\ g.balances \in [Accounts -> Int] /\ h.balances \in [Accounts -> Int]
      /\ h.deposits[id][a] = g.deposits[id][a] + amount
      /\ h.balances[a] = g.balances[a] - amount
      /\ \A x \in Accounts \ {a} : h.deposits[id][x] = g.deposits[id][x] /\ h.balances[x] = g.balances[x]
      /\ \A x \in ProposalIds \ {id} : h.deposits[x] = g.deposits[x]
      /\ g.escrow \in Nat /\ g.burned \in Nat /\ g.proposals[id].total \in Nat
      /\ h.escrow = g.escrow + amount /\ h.burned = g.burned
  BY DEF Stores, ProposalRecords, Deposited
<1>2. DepositsOn(h, id) = DepositsOn(g, id) + amount
  <2> DEFINE f == g.deposits[id]
             k == h.deposits[id]
  <2>1. DepositsOn(g, id) = SumFunctionOnSet(f, Accounts) /\ DepositsOn(h, id) = SumFunctionOnSet(k, Accounts)
        /\ DepositsOn(g, id) \in Nat
    BY DepositSums, Zenon
  <2>2. f \in [Accounts -> Int] /\ k \in [Accounts -> Int] /\ k[a] = f[a] + amount
        /\ \A x \in Accounts \ {a} : f[x] = k[x]
    BY <1>1
  <2> HIDE DEF f, k
  <2>3. SumFunctionOnSet(k, Accounts) = SumFunctionOnSet(f, Accounts) - f[a] + k[a]
    BY <2>2, FiniteAssumption, SumChange
  <2>4. f[a] \in Int
    BY <2>2
  <2> QED BY <2>1, <2>2, <2>3, <2>4
<1>3. SumFunction(h.balances) = SumFunction(g.balances) - amount
  <2> DEFINE f == g.balances
             k == h.balances
  <2>1. SumFunction(f) = SumFunctionOnSet(f, Accounts) /\ SumFunction(k) = SumFunctionOnSet(k, Accounts)
        /\ SumFunction(f) \in Int
    BY DepositSums
  <2>2. f \in [Accounts -> Int] /\ k \in [Accounts -> Int] /\ k[a] = f[a] - amount
        /\ \A x \in Accounts \ {a} : f[x] = k[x]
    BY <1>1
  <2> HIDE DEF f, k
  <2>3. SumFunctionOnSet(k, Accounts) = SumFunctionOnSet(f, Accounts) - f[a] + k[a]
    BY <2>2, FiniteAssumption, SumChange
  <2>4. f[a] \in Int
    BY <2>2
  <2>5. SumFunction(k) = SumFunction(f) - amount
    BY <2>1, <2>2, <2>3, <2>4
  <2> QED BY <2>5 DEF f, k
<1>4. /\ TotalDeposits(h) = TotalDeposits(g) - DepositsOn(g, id) + DepositsOn(h, id)
      /\ \A x \in ProposalIds \ {id} : DepositsOn(h, x) = DepositsOn(g, x)
  <2>1. \A x \in ProposalIds \ {id} : h.deposits[x] = g.deposits[x]
    BY <1>1
  <2> QED BY <2>1, TotalMoves, Zenon
<1>5. TotalDeposits(g) \in Nat /\ DepositsOn(g, id) \in Nat /\ SumFunction(g.balances) \in Int
  BY DepositSums
<1>6. /\ g.escrow = TotalDeposits(g)
      /\ SumFunction(g.balances) + g.escrow + g.burned = Supply * Cardinality(Accounts)
      /\ DepositsOn(g, id) = g.proposals[id].total
  BY DEF Escrowed
<1>7. h.escrow = TotalDeposits(h)
  <2> DEFINE D == DepositsOn(g, id)
             T == TotalDeposits(g)
  <2>1. D \in Nat /\ T \in Nat /\ h.escrow = T + amount /\ TotalDeposits(h) = T - D + (D + amount)
    BY <1>1, <1>2, <1>4, <1>5, <1>6
  <2> HIDE DEF D, T
  <2> QED BY <2>1
<1>8. SumFunction(h.balances) + h.escrow + h.burned = SumFunction(g.balances) + g.escrow + g.burned
  BY <1>1, <1>3, <1>5
<1>9. ASSUME NEW x \in ProposalIds
      PROVE  DepositsOn(h, x) = IF h.proposals[x].status \in Open THEN h.proposals[x].total ELSE 0
  <2>1. CASE x = id
    BY <1>2, <1>5, <1>6, <2>1
  <2>2. CASE x # id
    <3>1. DepositsOn(h, x) = DepositsOn(g, x) /\ h.proposals[x] = g.proposals[x]
      BY <1>4, <2>2
    <3> QED BY <3>1, Zenon DEF Escrowed
  <2> QED BY <2>1, <2>2
<1> QED BY <1>6, <1>7, <1>8, <1>9, Zenon DEF Escrowed

\* The money of h is the one of g after the deposits on a proposal were paid back.
Refunded(h, g, id) ==
    /\ h.deposits = [g.deposits EXCEPT ![id] = [a \in Accounts |-> 0]]
    /\ h.escrow = g.escrow - DepositsOn(g, id)
    /\ h.balances = [a \in Accounts |-> g.balances[a] + g.deposits[id][a]]
    /\ h.burned = g.burned

Burned(h, g, id) ==
    /\ h.deposits = [g.deposits EXCEPT ![id] = [a \in Accounts |-> 0]]
    /\ h.escrow = g.escrow - DepositsOn(g, id)
    /\ h.balances = g.balances
    /\ h.burned = g.burned + DepositsOn(g, id)

\* A proposal that is over: its deposits leave the escrow, back to their owners or burned.
LEMMA ReleaseEscrowed ==
    ASSUME NEW g \in Stores, Escrowed(g), NEW h \in Stores, NEW id \in ProposalIds,
           Refunded(h, g, id) \/ Burned(h, g, id),
           h.proposals[id].status \notin Open,
           \A x \in ProposalIds \ {id} : h.proposals[x] = g.proposals[x]
    PROVE  Escrowed(h)
<1> DEFINE d == g.deposits[id]
           z == h.deposits[id]
<1>1. /\ z \in [Accounts -> Int] /\ \A a \in Accounts : z[a] = 0
      /\ \A x \in ProposalIds \ {id} : h.deposits[x] = g.deposits[x]
      /\ g.escrow \in Nat /\ g.burned \in Nat /\ h.escrow = g.escrow - DepositsOn(g, id)
  <2>1. /\ g.deposits \in [ProposalIds -> [Accounts -> Nat]] /\ g.escrow \in Nat /\ g.burned \in Nat
    BY DEF Stores
  <2>2. /\ h.deposits = [g.deposits EXCEPT ![id] = [a \in Accounts |-> 0]]
        /\ h.escrow = g.escrow - DepositsOn(g, id)
    BY DEF Refunded, Burned
  <2>3. /\ h.deposits[id] = [a \in Accounts |-> 0]
        /\ \A x \in ProposalIds \ {id} : h.deposits[x] = g.deposits[x]
    BY <2>1, <2>2
  <2> QED BY <2>1, <2>2, <2>3
<1>2. /\ d \in [Accounts -> Int]
      /\ DepositsOn(g, id) = SumFunctionOnSet(d, Accounts) /\ DepositsOn(g, id) \in Nat
      /\ DepositsOn(h, id) = SumFunctionOnSet(z, Accounts)
      /\ TotalDeposits(g) \in Nat /\ SumFunction(g.balances) \in Int
  BY DepositSums
<1>3. DepositsOn(h, id) = 0
  <2> HIDE DEF z
  <2> QED BY <1>1, <1>2, FiniteAssumption, SumOfZeros
<1>4. SumFunction(h.balances) + h.burned = SumFunction(g.balances) + g.burned + DepositsOn(g, id)
  <2>1. CASE Refunded(h, g, id)
    <3> DEFINE b == g.balances
               c == h.balances
    <3>1. /\ b \in [Accounts -> Int] /\ c \in [Accounts -> Int]
          /\ \A a \in Accounts : c[a] = b[a] + d[a]
          /\ h.burned = g.burned
      BY <2>1 DEF Stores, Refunded
    <3>2. SumFunction(b) = SumFunctionOnSet(b, Accounts) /\ SumFunction(c) = SumFunctionOnSet(c, Accounts)
      BY DepositSums
    <3> HIDE DEF b, c, d
    <3>3. SumFunctionOnSet(c, Accounts) = SumFunctionOnSet(b, Accounts) + SumFunctionOnSet(d, Accounts)
      BY <1>2, <3>1, FiniteAssumption, SumPlus
    <3>4. SumFunction(c) = SumFunction(b) + DepositsOn(g, id)
      BY <1>2, <3>2, <3>3
    <3> QED BY <1>1, <1>2, <3>1, <3>4 DEF b, c
  <2>2. CASE Burned(h, g, id)
    <3>1. h.balances = g.balances /\ h.burned = g.burned + DepositsOn(g, id)
      BY <2>2 DEF Burned
    <3> QED BY <1>1, <1>2, <3>1
  <2> QED BY <2>1, <2>2
<1>5. /\ TotalDeposits(h) = TotalDeposits(g) - DepositsOn(g, id) + DepositsOn(h, id)
      /\ \A x \in ProposalIds \ {id} : DepositsOn(h, x) = DepositsOn(g, x)
  <2>1. \A x \in ProposalIds \ {id} : h.deposits[x] = g.deposits[x]
    BY <1>1
  <2> QED BY <2>1, TotalMoves
<1>6. h.burned \in Nat /\ SumFunction(h.balances) \in Int
  BY DepositSums, Zenon DEF Stores
<1>7. /\ g.escrow = TotalDeposits(g)
      /\ SumFunction(g.balances) + g.escrow + g.burned = Supply * Cardinality(Accounts)
  BY DEF Escrowed
<1>8. h.escrow = TotalDeposits(h)
  <2> DEFINE D == DepositsOn(g, id)
  <2>1. D \in Nat /\ TotalDeposits(g) \in Nat /\ h.escrow = g.escrow - D /\ DepositsOn(h, id) = 0
          /\ TotalDeposits(h) = TotalDeposits(g) - D + DepositsOn(h, id)
    BY <1>1, <1>2, <1>3, <1>5
  <2> HIDE DEF D
  <2> QED BY <1>7, <2>1
<1>9. SumFunction(h.balances) + h.escrow + h.burned = SumFunction(g.balances) + g.escrow + g.burned
  <2> DEFINE D == DepositsOn(g, id)
             x == SumFunction(h.balances)
             y == SumFunction(g.balances)
  <2>1. /\ D \in Nat /\ x \in Int /\ y \in Int /\ g.escrow \in Nat /\ g.burned \in Nat /\ h.burned \in Nat
        /\ h.escrow = g.escrow - D /\ x + h.burned = y + g.burned + D
    BY <1>1, <1>2, <1>4, <1>6
  <2> HIDE DEF D, x, y
  <2>2. x + h.escrow + h.burned = y + g.escrow + g.burned
    BY <2>1
  <2> QED BY <2>2 DEF x, y
<1>10. ASSUME NEW x \in ProposalIds
       PROVE  DepositsOn(h, x) = IF h.proposals[x].status \in Open THEN h.proposals[x].total ELSE 0
  <2>1. CASE x = id
    BY <1>3, <2>1
  <2>2. CASE x # id
    <3>1. DepositsOn(h, x) = DepositsOn(g, x) /\ h.proposals[x] = g.proposals[x]
      BY <1>5, <2>2
    <3> QED BY <3>1, Zenon DEF Escrowed
  <2> QED BY <2>1, <2>2
<1> QED BY <1>7, <1>8, <1>9, <1>10, Zenon DEF Escrowed

\* Nothing about the money changes, and no proposal changes its total or becomes open or
\* over.
LEMMA SameEscrowed ==
    ASSUME NEW g, Escrowed(g), NEW h, SameMoney(h, g),
           \A x \in ProposalIds :
              /\ h.proposals[x].status \in Open <=> g.proposals[x].status \in Open
              /\ h.proposals[x].total = g.proposals[x].total
    PROVE  Escrowed(h)
BY DEF Escrowed, SameMoney, DepositsOn, TotalDeposits

\* The payments find the deposits in escrow, so that they change the money and nothing else.
LEMMA PaymentsSucceed ==
    ASSUME NEW g \in Stores, NEW id \in ProposalIds, DepositsOn(g, id) <= g.escrow
    PROVE  /\ SameLife(RefundAndDeleteDeposits(g, id), g)
           /\ Refunded(RefundAndDeleteDeposits(g, id), g, id)
           /\ SameLife(DeleteAndBurnDeposits(g, id), g)
           /\ Burned(DeleteAndBurnDeposits(g, id), g, id)
<1> DEFINE D == DepositsOn(g, id)
           z == [a \in Accounts |-> 0]
           e == g.escrow - D
           c == [a \in Accounts |-> g.balances[a] + g.deposits[id][a]]
           r == [g EXCEPT !.deposits[id] = z, !.escrow = e, !.balances = c]
           w == g.burned + D
           b == [g EXCEPT !.deposits[id] = z, !.escrow = e, !.burned = w]
<1>1. D \in Nat /\ e \in Nat /\ w \in Nat /\ z \in [Accounts -> Nat] /\ c \in [Accounts -> Nat]
  BY DepositSums DEF Stores
<1>2. RefundAndDeleteDeposits(g, id) = r
  BY <1>1 DEF RefundAndDeleteDeposits, Stores
<1>3. DeleteAndBurnDeposits(g, id) = b
  BY <1>1 DEF DeleteAndBurnDeposits, Stores
<1>4. Refunded(r, g, id) /\ Burned(b, g, id)
  <2> HIDE DEF D
  <2> QED BY <1>1 DEF Refunded, Burned, Stores, D
<1> HIDE DEF D, z, e, c, w
<1>5. SameLife(r, g)
  BY <1>1, Zenon DEF SameLife, Stores
<1>6. SameLife(b, g)
  BY <1>1, Zenon DEF SameLife, Stores
<1> QED BY <1>2, <1>3, <1>4, <1>5, <1>6

\* A deposit, with the start of the voting period when the threshold is reached.
LEMMA AddDepositSound ==
    ASSUME NEW g, Sound(g), Escrowed(g), NEW t \in Nat, NEW id \in ProposalIds,
           NEW a \in Accounts, NEW amount \in Nat, amount <= g.balances[a],
           g.proposals[id].status \in Open, id \notin g.undecodable
    PROVE  LET h == AddDeposit(g, t, id, a, amount)
           IN  /\ Sound(h) /\ Escrowed(h)
               /\ \A x \in ProposalIds \ {id} : h.proposals[x] = g.proposals[x]
               /\ h.proposals[id].status \in Open
               /\ g.proposals[id].status = "voting" =>
                     /\ h.proposals[id].status = "voting"
                     /\ h.proposals[id].votingEnd = g.proposals[id].votingEnd
<1> DEFINE p == [g.proposals[id] EXCEPT !.total = @ + amount]
           s == SetProposal(g, id, p)
           paid == [s EXCEPT !.balances[a] = @ - amount, !.escrow = @ + amount]
           activates == p.status = "deposit" /\ p.total >= g.lastMinDeposit.value
           m == IF activates THEN ActivateVotingPeriod(paid, t, id) ELSE paid
           h == [m EXCEPT !.deposits[id][a] = @ + amount]
<1>1. /\ g \in Stores /\ g.proposals[id] \in ProposalRecords /\ g.proposals[id].total \in Nat
      /\ g.balances[a] \in Nat /\ g.escrow \in Nat /\ g.deposits[id][a] \in Nat
  BY DEF Sound, Typed, Stores, ProposalRecords
<1>2. AddDeposit(g, t, id, a, amount) = h
  BY DEF AddDeposit
<1>3. /\ p \in ProposalRecords /\ p.total = g.proposals[id].total + amount
      /\ p.status = g.proposals[id].status /\ p.depositEnd = g.proposals[id].depositEnd
      /\ p.votingEnd = g.proposals[id].votingEnd /\ p.extended = g.proposals[id].extended
  BY <1>1 DEF ProposalRecords
<1> HIDE DEF p
<1>4. SetTo(s, g, id, p)
  BY <1>1, <1>3, SetProposalIs
<1> HIDE DEF s
<1>5. /\ paid \in Stores
      /\ paid.balances = [g.balances EXCEPT ![a] = @ - amount]
      /\ paid.escrow = g.escrow + amount
  <2> DEFINE b == [g.balances EXCEPT ![a] = @ - amount]
             c == g.escrow + amount
  <2>1. s \in Stores /\ s.balances = g.balances /\ s.escrow = g.escrow
    BY <1>4 DEF SetTo, SameMoney
  <2>2. b \in [Accounts -> Nat] /\ c \in Nat
    BY <1>1 DEF Stores
  <2>3. paid = [s EXCEPT !.balances = b, !.escrow = c]
    BY <2>1 DEF Stores
  <2> HIDE DEF b, c, paid
  <2>4. paid \in Stores /\ paid.balances = b /\ paid.escrow = c
    BY <2>1, <2>2, <2>3, Zenon DEF Stores
  <2> QED BY <2>4 DEF b, c
<1>6. /\ paid.proposals = [g.proposals EXCEPT ![id] = p] /\ paid.votingPeriod = s.votingPeriod
      /\ paid.params = g.params /\ paid.nextId = g.nextId
      /\ paid.undecodable = g.undecodable /\ paid.error = g.error
      /\ paid.inactive = g.inactive /\ paid.active = g.active /\ paid.quorumChecks = g.quorumChecks
      /\ paid.lastMinDeposit = g.lastMinDeposit
      /\ paid.lastMinInitialDeposit = g.lastMinInitialDeposit
      /\ paid.deposits = g.deposits /\ paid.burned = g.burned
  BY <1>4 DEF SetTo, Stores, SameMoney
<1> HIDE DEF paid
<1>7. Sound(paid)
  <2>1. Requeued(paid, g, id, p)
    <3> DEFINE old == g.proposals[id]
    <3>1. /\ old.status = "deposit" => old.depositEnd \in Nat /\ old.votingEnd = Nil
          /\ old.status = "voting" => old.votingEnd \in Nat
          /\ g.inactive \subseteq Nat \X ProposalIds /\ g.active \subseteq Nat \X ProposalIds
      BY <1>1, SMTT(30) DEF Sound, Recorded, WellFormed, Stores
    <3>2. g.inactive = (g.inactive \ {<<old.depositEnd, id>>})
                           \cup (IF p.status = "deposit" THEN {<<p.depositEnd, id>>} ELSE {})
      <4>1. CASE old.status = "deposit"
        <5>1. <<old.depositEnd, id>> \in g.inactive
          BY <3>1, <4>1, Zenon DEF Sound, Queued
        <5> QED BY <1>3, <4>1, <5>1
      <4>2. CASE old.status = "voting"
        <5>1. <<old.depositEnd, id>> \notin g.inactive
          BY <3>1, <4>2 DEF Sound, Queued
        <5> QED BY <1>3, <4>2, <5>1
      <4> QED BY <4>1, <4>2 DEF Open
    <3>3. g.active = (g.active \ {<<old.votingEnd, id>>})
                         \cup (IF p.status = "voting" THEN {<<p.votingEnd, id>>} ELSE {})
      <4>1. CASE old.status = "deposit"
        <5>1. <<old.votingEnd, id>> \notin g.active
          BY <3>1, <4>1 DEF Nil
        <5> QED BY <1>3, <4>1, <5>1
      <4>2. CASE old.status = "voting"
        <5>1. <<old.votingEnd, id>> \in g.active
          BY <3>1, <4>2, Zenon DEF Sound, Queued
        <5> QED BY <1>3, <4>2, <5>1
      <4> QED BY <4>1, <4>2 DEF Open
    <3>4. paid.votingPeriod = IF p.status = "voting" THEN g.votingPeriod \cup {id} ELSE g.votingPeriod \ {id}
      BY <1>4, <1>6, Zenon DEF SetTo
    <3>5. /\ paid.proposals = [g.proposals EXCEPT ![id] = p]
          /\ paid.inactive = g.inactive /\ paid.active = g.active
      BY <1>6
    <3> QED BY <3>2, <3>3, <3>4, <3>5, Zenon DEF Requeued
  <2>2. WellFormed(p)
    BY <1>3, Zenon DEF Sound, Recorded, WellFormed, Open
  <2>3. id < paid.nextId
    <3>1. g.proposals[id].status # "none"
      BY DEF Open
    <3>2. ~(id >= g.nextId)
      BY <3>1, Zenon DEF Sound, Recorded
    <3>3. id \in Nat /\ g.nextId \in Nat
      BY <1>1, FiniteAssumption DEF Stores
    <3> QED BY <1>6, <3>2, <3>3
  <2>4. Typed(paid) /\ Recorded(paid) /\ Queued(paid)
    BY <1>3, <1>5, <1>6, <2>1, <2>2, <2>3, RequeuedSound, Zenon DEF Sound
  <2>5. Checked(paid)
    BY <1>3, <1>6, ChecksKept, Zenon DEF Sound
  <2>6. Floored(paid)
    BY <1>6 DEF Sound, Floored
  <2>7. Decodable(paid)
    BY <1>6 DEF Sound, Decodable
  <2> QED BY <2>4, <2>5, <2>6, <2>7, Zenon DEF Sound
<1>8. /\ Sound(m) /\ m.proposals[id].status \in Open
      /\ SameMoney(m, paid)
      /\ \A x \in ProposalIds \ {id} : m.proposals[x] = g.proposals[x]
      /\ m.proposals[id].total = p.total
      /\ p.status = "voting" => m.proposals[id] = p
  <2>1. /\ paid.proposals[id] = p /\ \A x \in ProposalIds \ {id} : paid.proposals[x] = g.proposals[x]
        /\ paid.proposals \in [ProposalIds -> ProposalRecords]
    BY <1>1, <1>3, <1>5, <1>6 DEF Stores
  <2>2. CASE activates
    <3> DEFINE q == [paid.proposals[id] EXCEPT !.status = "voting", !.votingStart = t,
                                               !.votingEnd = t + paid.params.votingPeriod]
    <3>1. /\ Sound(m) /\ m.proposals = [paid.proposals EXCEPT ![id] = q] /\ SameMoney(m, paid)
      <4>1. paid.proposals[id].status = "deposit" /\ id \notin paid.undecodable
        BY <1>6, <2>1, <2>2
      <4>2. m = ActivateVotingPeriod(paid, t, id)
        BY <2>2
      <4> HIDE DEF m
      <4> QED BY <1>7, <4>1, <4>2, ActivateSound, Zenon
    <3>2. q.status = "voting" /\ q.total = p.total
      BY <2>1, SMTT(30) DEF ProposalRecords
    <3> QED BY <2>1, <2>2, <3>1, <3>2, Zenon DEF Open
  <2>3. CASE ~activates
    BY <1>3, <1>7, <2>1, <2>3 DEF SameMoney
  <2> QED BY <2>2, <2>3, Zenon
<1> HIDE DEF m
<1>9. /\ SameLife(h, m)
      /\ h.deposits = [m.deposits EXCEPT ![id][a] = @ + amount]
      /\ h.escrow = m.escrow /\ h.balances = m.balances /\ h.burned = m.burned
  <2>1. m \in Stores /\ m.deposits[id][a] + amount \in Nat
    BY <1>8 DEF Sound, Typed, Stores
  <2> QED BY <2>1, Zenon DEF SameLife, Stores
<1> HIDE DEF h
<1>10. Sound(h)
  <2>1. Sound(m) /\ SameLife(h, m)
    BY <1>8, <1>9, Zenon
  <2> QED BY <2>1, SameLifeSound, Zenon
<1>11. Escrowed(h)
  <2>1. Deposited(h, g, id, a, amount)
    <3>1. m.deposits = g.deposits /\ m.escrow = g.escrow + amount /\ m.burned = g.burned
            /\ m.balances = [g.balances EXCEPT ![a] = @ - amount]
      BY <1>5, <1>6, <1>8, Zenon DEF SameMoney
    <3> QED BY <1>9, <3>1, Zenon DEF Deposited
  <2>2. /\ h \in Stores /\ h.proposals[id].status \in Open
        /\ h.proposals[id].total = g.proposals[id].total + amount
        /\ \A x \in ProposalIds \ {id} : h.proposals[x] = g.proposals[x]
    BY <1>3, <1>8, <1>9 DEF SameLife
  <2>3. g \in Stores
    BY <1>1
  <2> QED BY <2>1, <2>2, <2>3, DepositEscrowed, Zenon
<1> QED BY <1>2, <1>3, <1>8, <1>9, <1>10, <1>11 DEF SameLife
=============================================================================
