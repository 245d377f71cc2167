----------------------------- MODULE Proposals -----------------------------
(***************************************************************************)
(* The life of governance proposals: the messages users send in a block    *)
(* and the EndBlocker that ends deposit periods, checks quorums, tallies   *)
(* votes and lets the deposit thresholds decay.                            *)
(*                                                                         *)
(* A block has a time, executes messages (phase "txs") and then runs the   *)
(* EndBlocker, whose three walks each visit the keys that are due in       *)
(* ascending order.  One step is one callback of a walk (phases            *)
(* "inactive", "quorum", "active"); nothing else runs between two          *)
(* callbacks.  In phase "commit" the block is finished.                    *)
(*                                                                         *)
(* What a tally decides and whether a quorum is reached depend on votes    *)
(* and stake; here they are any value.  A passed proposal executes a       *)
(* message that fails, one that leaves x/gov alone, or MsgUpdateParams.    *)
(***************************************************************************)
EXTENDS ProposalKeeper

CONSTANTS ParamSets,    \* the parameters MsgUpdateParams may set
          InitialParams,
          Supply,       \* what each account owns at the start
          Amounts,      \* amounts deposited by one message
          MaxBlockGap,  \* largest time between two blocks
          SubmitUntil,  \* bound: no submission after this time
          MaxTime,      \* bound: time of the last block
          Unregistering \* when a release may drop a message type

\* What Params.ValidateBasic demands of the fields modelled.
ValidParams(p) ==
    /\ p.maxDepositPeriod \in Nat \ {0} /\ p.votingPeriod \in Nat \ {0}
    /\ p.quorumTimeout \in 0 .. p.votingPeriod - 1
    /\ p.maxVotingPeriodExtension \in Nat
    /\ p.maxVotingPeriodExtension >= p.votingPeriod - p.quorumTimeout
    /\ p.quorumCheckCount \in 0 .. p.votingPeriod - p.quorumTimeout
    /\ p.minDepositRatio \in 0 .. Precision
    /\ \A t \in {p.minDeposit, p.minInitialDeposit} :
          /\ t.floor \in Nat \ {0} /\ t.target \in Nat \ {0} /\ t.updatePeriod \in 1 .. p.votingPeriod
          /\ t.increase \in 1 .. Precision - 1 /\ t.decrease \in 1 .. Precision - 1

ASSUME ParamsAssumption == InitialParams \in ParamSets /\ \A p \in ParamSets : ValidParams(p)
ASSUME BoundsAssumption ==
    /\ Supply \in Nat /\ MaxTime \in Nat /\ SubmitUntil \in Nat
    /\ Amounts \subseteq Nat \ {0} /\ MaxBlockGap \in Nat \ {0}
    /\ Unregistering \in {"never", "unchecked", "anytime"}

VARIABLES gov, now, phase
vars == <<gov, now, phase>>

Init ==
    /\ gov = [params       |-> InitialParams,
              nextId       |-> 1,
              proposals    |-> [id \in ProposalIds |-> NoProposal],
              undecodable  |-> {},
              votingPeriod |-> {},
              inactive     |-> {},
              active       |-> {},
              quorumChecks |-> {},
              deposits     |-> [id \in ProposalIds |-> [a \in Accounts |-> 0]],
              votes        |-> [id \in ProposalIds |-> {}],
              lastMinDeposit        |-> [value |-> InitialParams.minDeposit.floor, time |-> 0],
              lastMinInitialDeposit |-> [value |-> InitialParams.minInitialDeposit.floor, time |-> 0],
              error        |-> FALSE,
              balances     |-> [a \in Accounts |-> Supply],
              escrow       |-> 0,
              burned       |-> 0]
    /\ now = 0
    /\ phase = "txs"
----------------------------------------------------------------------------
(* Messages. *)

\* MsgSubmitProposal: at least the minimum initial deposit, all or nothing.
MsgSubmitProposal(a, amount) ==
    LET id == gov.nextId
        submitted == SubmitProposal(gov, now)
    IN  /\ phase = "txs" /\ now <= SubmitUntil
        /\ id \in ProposalIds
        /\ amount >= gov.lastMinInitialDeposit.value
        /\ Depositable(submitted, id, a, amount, TRUE)
        /\ gov' = AddDeposit(submitted, now, id, a, amount)
        /\ UNCHANGED <<now, phase>>

MsgDeposit(id, a, amount) ==
    /\ phase = "txs"
    /\ Depositable(gov, id, a, amount, FALSE)
    /\ gov' = AddDeposit(gov, now, id, a, amount)
    /\ UNCHANGED <<now, phase>>

MsgVote(id, voter) ==
    /\ phase = "txs"
    /\ id \in gov.votingPeriod
    /\ gov' = AddVote(gov, id, voter)
    /\ UNCHANGED <<now, phase>>
----------------------------------------------------------------------------
(* The EndBlocker. *)

KeyLess(k, l) == k[1] < l[1] \/ (k[1] = l[1] /\ k[2] < l[2])

\* Mutant: the walk is not limited to keys up to the block time.
NextDueAnytime(keys, id) ==
    ~gov.error /\ \E k \in keys : k[2] = id /\ \A l \in keys : l = k \/ KeyLess(k, l)

\* The id whose key a walk up to the block time visits next.
NextDue(keys, id) ==
    /\ ~gov.error
    /\ \E k \in keys : k[1] <= now /\ k[2] = id /\ \A l \in keys : l = k \/ KeyLess(k, l)

QuorumKeys == {<<e.time, e.id>> : e \in gov.quorumChecks}

\* Mutant: the deposits of an unsupported proposal are not paid back.
FailUnsupportedUnpaid(id) ==
    [SetProposal(gov, id, [gov.proposals[id] EXCEPT !.status = "failed"]) EXCEPT !.undecodable = @ \ {id}]

\* failUnsupportedProposal: the record, stripped of its messages, decodes.
FailUnsupportedProposal(id) ==
    LET failed == SetProposal(gov, id, [gov.proposals[id] EXCEPT !.status = "failed"])
    IN  RefundAndDeleteDeposits([failed EXCEPT !.undecodable = @ \ {id}], id)

\* Mutant: a proposal that cannot be decoded is skipped.
EndDepositPeriodSkipping(id) ==
    IF id \in gov.undecodable THEN gov
    ELSE DeleteProposal(RefundAndDeleteDeposits(gov, id), id)

\* The callback of the walk over the inactive queue.
EndDepositPeriod(id) ==
    LET p == gov.proposals[id]
        dropped == DeleteProposal(gov, id)
    IN  CASE p.status = "none" -> Err(gov)
          [] id \in gov.undecodable -> DeleteProposal(FailUnsupportedProposal(id), id)
          [] id \notin gov.undecodable /\ p.status = "deposit" /\ p.total >= gov.lastMinDeposit.value ->
                 ActivateVotingPeriod(gov, now, id)
          [] OTHER -> IF gov.params.burnProposalDepositPrevote
                      THEN DeleteAndBurnDeposits(dropped, id)
                      ELSE RefundAndDeleteDeposits(dropped, id)

\* Mutant: the entry goes back even though the quorum is reached.
CheckQuorumAgain(e, reached) ==
    LET p == gov.proposals[e.id]
        q == [p EXCEPT !.votingEnd = now + gov.params.maxVotingPeriodExtension, !.extended = @ + 1]
        next == [e EXCEPT !.time = NextQuorumCheckTime(e, p.votingEnd, now), !.done = @ + 1]
        requeued == [gov EXCEPT !.quorumChecks =
                        IF e.done < e.count /\ p.votingEnd > now THEN (@ \ {e}) \cup {next} ELSE @ \ {e}]
    IN  IF reached /\ e.done > 0 /\ q.votingEnd > p.votingEnd
        THEN [SetProposal(requeued, e.id, q) EXCEPT
                 !.active = (@ \ {<<p.votingEnd, e.id>>}) \cup {<<q.votingEnd, e.id>>}]
        ELSE requeued

\* The callback of the walk over the quorum check queue.
CheckQuorum(e, reached) ==
    LET p == gov.proposals[e.id]
        q == [p EXCEPT !.votingEnd = now + gov.params.maxVotingPeriodExtension, !.extended = @ + 1]
        removed == [gov EXCEPT !.quorumChecks = @ \ {e}]
        next == [e EXCEPT !.time = NextQuorumCheckTime(e, p.votingEnd, now), !.done = @ + 1]
    IN  CASE p.status = "none" \/ e.id \in gov.undecodable -> Err(gov)
          [] p.status # "none" /\ e.id \notin gov.undecodable
                /\ reached /\ e.done > 0 /\ q.votingEnd > p.votingEnd ->
                 [SetProposal(removed, e.id, q) EXCEPT
                     !.active = (@ \ {<<p.votingEnd, e.id>>}) \cup {<<q.votingEnd, e.id>>}]
          [] p.status # "none" /\ e.id \notin gov.undecodable
                /\ ~reached /\ e.done < e.count /\ p.votingEnd > now ->
                 [removed EXCEPT !.quorumChecks = @ \cup {next}]
          [] OTHER -> removed

\* The tally deletes the votes, and the deposits follow its verdict.
Tallied(id, burnDeposits) ==
    LET counted == [gov EXCEPT !.votes[id] = {}]
    IN  IF burnDeposits THEN DeleteAndBurnDeposits(counted, id)
                        ELSE RefundAndDeleteDeposits(counted, id)

\* Ends the vote with a status, after the messages have had their effect.
CloseProposal(g, id, status) ==
    LET p == gov.proposals[id]
    IN  IF p.status = "none" THEN Err(gov)
        ELSE SetProposal([g EXCEPT !.active = @ \ {<<p.votingEnd, id>>}], id, [p EXCEPT !.status = status])

WalkInactive(id) ==
    /\ phase = "inactive"
    /\ NextDue(gov.inactive, id)
    /\ gov' = EndDepositPeriod(id)
    /\ UNCHANGED <<now, phase>>

\* Without votes no quorum is reached (one of zero is not modelled).
WalkQuorumChecks(e, reached) ==
    /\ phase = "quorum"
    /\ reached => gov.votes[e.id] # {}
    /\ NextDue(QuorumKeys, e.id)
    /\ gov' = CheckQuorum(e, reached)
    /\ UNCHANGED <<now, phase>>

\* The callback of the walk over the active queue has a proposal to tally.
Tallies(id) ==
    /\ phase = "active"
    /\ NextDue(gov.active, id)
    /\ id \notin gov.undecodable

RejectProposal(id, burnDeposits) ==
    /\ Tallies(id)
    /\ gov' = CloseProposal(Tallied(id, burnDeposits), id, "rejected")
    /\ UNCHANGED <<now, phase>>

\* A message of the passed proposal fails or panics: its writes are discarded.
FailProposal(id) ==
    /\ Tallies(id)
    /\ gov' = CloseProposal(Tallied(id, FALSE), id, "failed")
    /\ UNCHANGED <<now, phase>>

PassProposal(id) ==
    /\ Tallies(id)
    /\ gov' = CloseProposal(Tallied(id, FALSE), id, "passed")
    /\ UNCHANGED <<now, phase>>

\* The passed proposal executes MsgUpdateParams.
PassUpdateParams(id, params) ==
    /\ Tallies(id)
    /\ gov' = CloseProposal(UpdateParams(Tallied(id, FALSE), now, params), id, "passed")
    /\ UNCHANGED <<now, phase>>

FailActiveUnsupported(id) ==
    /\ phase = "active"
    /\ NextDue(gov.active, id)
    /\ id \in gov.undecodable
    /\ gov' = [FailUnsupportedProposal(id) EXCEPT
                  !.active = @ \ {<<gov.proposals[id].votingEnd, id>>}]
    /\ UNCHANGED <<now, phase>>

\* The block's messages are done: the EndBlocker starts its first walk.
BeginEndBlocker ==
    /\ phase = "txs"
    /\ phase' = "inactive"
    /\ UNCHANGED <<gov, now>>

\* Mutant: the range of the walk excludes the block time.
WalkDoneBefore(keys) == ~gov.error /\ \A k \in keys : k[1] >= now

WalkDone(keys) == ~gov.error /\ \A k \in keys : k[1] > now

EndInactiveWalk ==
    /\ phase = "inactive" /\ WalkDone(gov.inactive)
    /\ phase' = "quorum"
    /\ UNCHANGED <<gov, now>>

EndQuorumWalk ==
    /\ phase = "quorum" /\ WalkDone(QuorumKeys)
    /\ phase' = "active"
    /\ UNCHANGED <<gov, now>>

EndActiveWalk ==
    /\ phase = "active" /\ WalkDone(gov.active)
    /\ gov' = UpdateMinDeposit(UpdateMinInitialDeposit(gov, now, TRUE), now, TRUE)
    /\ phase' = "commit"
    /\ UNCHANGED now

EndBlocker ==
    \/ BeginEndBlocker \/ EndInactiveWalk \/ EndQuorumWalk \/ EndActiveWalk
    \/ \E id \in ProposalIds :
          \/ WalkInactive(id) \/ FailProposal(id) \/ PassProposal(id) \/ FailActiveUnsupported(id)
          \/ \E burnDeposits \in BOOLEAN : RejectProposal(id, burnDeposits)
          \/ \E params \in ParamSets : PassUpdateParams(id, params)
    \/ \E e \in gov.quorumChecks, reached \in BOOLEAN : WalkQuorumChecks(e, reached)
----------------------------------------------------------------------------
(* Blocks. *)

NewBlock(gap) ==
    /\ phase = "commit" /\ now + gap <= MaxTime
    /\ now' = now + gap
    /\ phase' = "txs"
    /\ UNCHANGED gov

\* A release that no longer registers a message type of a stored proposal, one
\* that waits for a quorum check or not.
UnregisterMessage(id) ==
    /\ \/ Unregistering = "anytime"
       \/ Unregistering = "unchecked" /\ \A e \in gov.quorumChecks : e.id # id
    /\ phase = "commit"
    /\ gov.proposals[id].status \in Open /\ id \notin gov.undecodable
    /\ gov' = [gov EXCEPT !.undecodable = @ \cup {id}]
    /\ UNCHANGED <<now, phase>>

\* The bound on time is reached: the chain goes on, the exploration does not.
LastBlock == phase = "commit" /\ now + MaxBlockGap > MaxTime /\ UNCHANGED vars

Next ==
    \/ \E a \in Accounts, amount \in Amounts : MsgSubmitProposal(a, amount)
    \/ \E id \in ProposalIds, a \in Accounts, amount \in Amounts : MsgDeposit(id, a, amount)
    \/ \E id \in ProposalIds, voter \in Voters : MsgVote(id, voter)
    \/ EndBlocker
    \/ \E gap \in 1 .. MaxBlockGap : NewBlock(gap)
    \/ \E id \in ProposalIds : UnregisterMessage(id)
    \/ LastBlock

Spec == Init /\ [][Next]_vars

\* Blocks keep coming and every EndBlocker runs to its end.
Fairness ==
    /\ WF_vars(EndBlocker)
    /\ WF_vars(\E gap \in 1 .. MaxBlockGap : NewBlock(gap))

FairSpec == Spec /\ Fairness
----------------------------------------------------------------------------
(* Properties. *)

Status(id) == gov.proposals[id].status
Ids(status) == {id \in ProposalIds : Status(id) = status}
Times == Nat \cup {Nil}
ProposalRecords ==
    [status : Open \cup Closed \cup {"none"}, total : Nat, depositEnd : Times,
     votingStart : Times, votingEnd : Times, extended : Nat]
QuorumCheckEntries ==
    [time : Nat, id : ProposalIds, timeout : Nat, count : Nat \ {0}, done : Nat]
Thresholds == [value : Nat, time : Nat]
Stores ==
    [params : ParamSets, nextId : Nat, proposals : [ProposalIds -> ProposalRecords],
     undecodable : SUBSET ProposalIds, votingPeriod : SUBSET ProposalIds,
     inactive : SUBSET (Nat \X ProposalIds), active : SUBSET (Nat \X ProposalIds),
     quorumChecks : SUBSET QuorumCheckEntries,
     deposits : [ProposalIds -> [Accounts -> Nat]], votes : [ProposalIds -> SUBSET Voters],
     lastMinDeposit : Thresholds, lastMinInitialDeposit : Thresholds, error : BOOLEAN,
     balances : [Accounts -> Nat], escrow : Nat, burned : Nat]

\* Every store holds values of its type (the collections of keeper.go).
TypeOK ==
    /\ gov \in Stores
    /\ now \in 0 .. MaxTime
    /\ phase \in {"txs", "inactive", "quorum", "active", "commit"}

\* The three places that say which period a proposal is in agree at every
\* step: it is in the inactive queue at its deposit end time, or in the
\* active queue at its current voting end time and in VotingPeriodProposals,
\* exactly when its status says so, and under no other key.  (SubmitProposal,
\* ActivateVotingPeriod, DeleteProposal and the three walks of EndBlocker.)
QueuesMatchStatus ==
    /\ gov.inactive = {<<gov.proposals[id].depositEnd, id>> : id \in Ids("deposit")}
    /\ gov.active = {<<gov.proposals[id].votingEnd, id>> : id \in Ids("voting")}
    /\ gov.votingPeriod = Ids("voting")

\* A quorum check is pending only for a proposal in its voting period, at
\* most once, never after the vote ends, and never again once the voting
\* period was extended, so that it is extended at most once whatever the
\* parameters become meanwhile.  (QuorumCheckQueue in ActivateVotingPeriod
\* and EndBlocker.)
QuorumChecksSound ==
    /\ \A e \in gov.quorumChecks :
          /\ Status(e.id) = "voting"
          /\ e.time <= gov.proposals[e.id].votingEnd
          /\ e.done <= e.count
          /\ gov.proposals[e.id].extended = 0
          /\ \A f \in gov.quorumChecks : f.id = e.id => f = e
    /\ \A id \in ProposalIds : gov.proposals[id].extended <= 1

\* The gov module account holds exactly the deposits on record, these add up
\* to each open proposal's TotalDeposit, a proposal that is over or dropped
\* has none left, and every coin is with its owner, in escrow or burned: a
\* deposit is refunded or burned once.  (ModuleAccountInvariant, AddDeposit,
\* RefundAndDeleteDeposits, DeleteAndBurnDeposits.)
DepositsInEscrow ==
    /\ gov.escrow = TotalDeposits(gov)
    /\ \A id \in ProposalIds :
          DepositsOn(gov, id) = IF Status(id) \in Open THEN gov.proposals[id].total ELSE 0
    /\ SumFunction(gov.balances) + gov.escrow + gov.burned = Supply * Cardinality(Accounts)

\* When a block is committed nothing that was due at its time is left for
\* later: no deposit or voting period that has ended, no quorum check.  A
\* check that EndBlocker puts back is in the future.
NothingOverdue ==
    phase = "commit" => \A k \in gov.inactive \cup gov.active \cup QuorumKeys : k[1] > now

\* Neither threshold is ever below the floor the current parameters set,
\* also right after the parameters changed.  (UpdateMinDeposit,
\* UpdateMinInitialDeposit, MsgUpdateParams.)
MinDepositsAboveFloor ==
    /\ gov.lastMinDeposit.value >= gov.params.minDeposit.floor
    /\ gov.lastMinInitialDeposit.value >= gov.params.minInitialDeposit.floor

\* EndBlocker returns no error: every queue key leads to a proposal it can
\* process and the escrow covers what it pays out or burns.  An error there
\* halts the chain.
NeverHalts == ~gov.error

PeriodRespected(id) ==
    LET p == gov.proposals[id]
        q == gov'.proposals[id]
    IN  /\ p.status = "deposit" /\ q.status = "none" => p.depositEnd <= now
        /\ p.status = "voting" /\ q.status # "voting" => q.status \in Closed /\ p.votingEnd <= now
        /\ p.status = "voting" /\ q.status = "voting" => q.votingEnd >= p.votingEnd
        /\ p.status \in Closed => q = p

\* A proposal is dropped only at the end of its deposit period, and leaves
\* the voting period only at the end of it; that end never moves closer; and
\* what is decided stays decided.  (The callbacks of EndBlocker, AddDeposit.)
PeriodsRespected == [][\A id \in ProposalIds : PeriodRespected(id)]_vars

\* Every proposal is eventually decided or dropped, its deposits with it.
ProposalsEnd ==
    \A id \in ProposalIds : Status(id) \in Open ~> Status(id) \notin Open
=============================================================================
