---------------------------- MODULE TxLifecycle ----------------------------
(***************************************************************************)
(* The way of a transaction through BaseApp with the priority-nonce        *)
(* mempool and the default proposal handlers: CheckTx and the recheck      *)
(* after Commit, PrepareProposal, ProcessProposal, FinalizeBlock.          *)
(*                                                                         *)
(* The state a transaction is validated against is [sequence, drained]:    *)
(* the sequence number of each account, and the accounts that cannot pay   *)
(* a fee.  A transaction is a record of                                    *)
(*   signers   a sequence of [signer, sequence], the fee payer first       *)
(*   priority  what the ante handler sets ctx.Priority to                  *)
(*   gas       its gas limit                                               *)
(*   drains    the accounts its messages leave without funds               *)
(* The calls of CometBFT on its connections are serialised by the local    *)
(* client; a CheckTx may come between any two of the others, except that   *)
(* Commit and the rechecks after it exclude it.                            *)
(***************************************************************************)
EXTENDS PriorityNonceMempool
LOCAL SE == INSTANCE SequencesExt

CONSTANTS Txs,
          MaxGas,       \* Block.MaxGas, 0 for no limit
          MaxBlockTxs,  \* bound: transactions in a block of another proposer
          Width         \* bound: uint64 counts modulo this

ASSUME TxsAssumption ==
    /\ \A tx \in Txs :
          /\ Len(tx.signers) > 0 /\ tx.priority \in Priorities /\ tx.gas \in Nat \ {0}
          /\ \A i \in DOMAIN tx.signers :
                tx.signers[i].signer \in Senders /\ tx.signers[i].sequence \in 0 .. Width - 2
    /\ MaxGas \in Nat /\ MaxBlockTxs \in Nat

VARIABLES mp,         \* the application's mempool
          comet,      \* the transactions in CometBFT's mempool, in their order
          committed,  \* the state after the last Commit
          check,      \* checkState
          phase,      \* "open", "proposed" (by this node) or "finalized"
          block,      \* the transactions proposed or finalized
          final,      \* finalizeBlockState, when phase is "finalized"
          own         \* whether this node proposed the block finalized last
vars == <<mp, comet, committed, check, phase, block, final, own>>

Genesis == [sequence |-> [s \in Senders |-> 0], drained |-> {}]

Init ==
    /\ mp = NewPriorityMempool
    /\ comet = <<>>
    /\ committed = Genesis /\ check = Genesis /\ final = Genesis
    /\ phase = "open" /\ block = <<>> /\ own = FALSE

-----------------------------------------------------------------------------
(* The ante handler, as far as the sequence of transactions matters to it. *)

GasFits(gas) == MaxGas > 0 => gas <= MaxGas

AntePasses(state, tx) ==
    /\ GasFits(tx.gas)
    /\ Sender(tx) \notin state.drained
    /\ \A i \in DOMAIN tx.signers :
          state.sequence[tx.signers[i].signer] = tx.signers[i].sequence

SignersOf(tx) == {tx.signers[i].signer : i \in DOMAIN tx.signers}

IncrementSequence(state, tx) ==
    [state EXCEPT !.sequence =
        [s \in Senders |-> IF s \in SignersOf(tx) THEN @[s] + 1 ELSE @[s]]]

-----------------------------------------------------------------------------
\* A new transaction.  The ante handler's writes stay in checkState even when
\* the mempool then refuses the transaction, and with it CometBFT.
CheckTx(tx) ==
    /\ ~SE!Contains(comet, tx)
    /\ AntePasses(check, tx)
    /\ check' = IncrementSequence(check, tx)
    /\ mp' = Insert(mp, tx)
    /\ comet' = IF Inserts(mp, tx) THEN Append(comet, tx) ELSE comet
    /\ UNCHANGED <<committed, phase, block, final, own>>

-----------------------------------------------------------------------------
(* PrepareProposal *)

SelectedGas(txs) == SE!FoldLeft(LAMBDA gas, tx : gas + tx.gas, 0, txs)

\* The callback on the next transaction the mempool selects.  acc is a record
\* of the proposal so far, the state the ante handler writes to, the sequences
\* of the signers met (selectedTxsSignersSeqs), the transactions found
\* invalid, and whether the selector has stopped.
SequencesFollow(seqs, tx) ==
    \A i \in DOMAIN tx.signers :
        LET signer == tx.signers[i].signer
        IN  signer \in DOMAIN seqs => (seqs[signer] + 1) % Width = tx.signers[i].sequence

SequenceOf(tx, s) == tx.signers[CHOOSE i \in DOMAIN tx.signers : tx.signers[i].signer = s].sequence

\* Mutant: a transaction that does not fit counts as selected.
SeqsIfSkipped(seqs, tx, added) ==
    [s \in SignersOf(tx) |-> SequenceOf(tx, s)] @@ seqs

\* After a valid transaction: its sequence if it was added; if it did not fit,
\* and the signer is new, the sequence before it, so that none of the signer's
\* later transactions follows.
SeqsAfter(seqs, tx, added) ==
    IF added THEN [s \in SignersOf(tx) |-> SequenceOf(tx, s)] @@ seqs
    ELSE seqs @@ [s \in SignersOf(tx) |-> (SequenceOf(tx, s) - 1) % Width]

SelectTx(acc, tx) ==
    IF acc.stop \/ ~SequencesFollow(acc.seqs, tx) THEN acc
    ELSE IF ~AntePasses(acc.state, tx) THEN [acc EXCEPT !.invalid = Append(@, tx)]
    ELSE LET added == GasFits(SelectedGas(acc.txs) + tx.gas)
             txs == IF added THEN Append(acc.txs, tx) ELSE acc.txs
         IN  [acc EXCEPT !.state = IncrementSequence(@, tx),
                         !.txs = txs,
                         !.seqs = SeqsAfter(@, tx, added),
                         !.stop = MaxGas > 0 /\ SelectedGas(txs) >= MaxGas]

Proposal(pool) ==
    SE!FoldLeft(SelectTx, [txs |-> <<>>, state |-> committed, seqs |-> <<>>, invalid |-> <<>>,
                           stop |-> FALSE],
                Select(pool))

\* Mutant: what is found invalid is left in the mempool.
PrepareKeepingInvalid ==
    /\ phase = "open"
    /\ \E pool \in {reorderPriorityTies(mp)} :
          /\ mp' = pool
          /\ block' = Proposal(pool).txs
    /\ phase' = "proposed"
    /\ UNCHANGED <<comet, committed, check, final, own>>

\* This node's turn: prepareProposalState is a new branch of the committed
\* state, the mempool is iterated under its lock, and what was found invalid
\* is removed from it afterwards.
PrepareProposal ==
    /\ phase = "open"
    /\ \E pool \in {reorderPriorityTies(mp)} :
          \E prepared \in {Proposal(pool)} :
              /\ mp' = SE!FoldLeft(Remove, pool, prepared.invalid)
              /\ block' = prepared.txs
    /\ phase' = "proposed"
    /\ UNCHANGED <<comet, committed, check, final, own>>

\* Another round: the proposal is not decided.
NewRound ==
    /\ phase = "proposed"
    /\ phase' = "open" /\ block' = <<>>
    /\ UNCHANGED <<mp, comet, committed, check, final, own>>

-----------------------------------------------------------------------------
(* ProcessProposal *)

\* The state after the ante handlers of txs, and whether all of them passed.
Verify(state, txs) ==
    SE!FoldLeft(LAMBDA acc, tx : [ok |-> acc.ok /\ AntePasses(acc.state, tx),
                                  state |-> IncrementSequence(acc.state, tx)],
                [ok |-> TRUE, state |-> state], txs)

\* ACCEPT: every transaction passes, and their gas limits fit into a block.
ProcessProposal(txs) == Verify(committed, txs).ok /\ GasFits(SelectedGas(txs))

-----------------------------------------------------------------------------
(* FinalizeBlock and Commit *)

\* runTx in execModeFinalize: a transaction the ante handler refuses stays in
\* the mempool.  Within the gas limit of a block that was accepted, no
\* transaction finds the block out of gas.
DeliverTx(acc, tx) ==
    IF ~AntePasses(acc.state, tx) THEN acc
    ELSE [mp |-> Remove(acc.mp, tx),
          state |-> [IncrementSequence(acc.state, tx) EXCEPT !.drained = @ \cup tx.drains]]

FinalizeBlock(txs, isOwn, funded) ==
    /\ ProcessProposal(txs)
    /\ \E delivered \in {SE!FoldLeft(DeliverTx, [mp |-> mp, state |-> committed], txs)} :
          /\ mp' = delivered.mp
          /\ final' = [delivered.state EXCEPT !.drained = @ \ funded]
    /\ phase' = "finalized" /\ block' = txs /\ own' = isOwn
    /\ UNCHANGED <<comet, committed, check>>

\* The proposal of this node is decided.
FinalizeOwn(funded) == phase = "proposed" /\ FinalizeBlock(block, TRUE, funded)

\* That of another node is; it may hold transactions this node has not seen.
FinalizeOther(txs, funded) == phase = "open" /\ FinalizeBlock(txs, FALSE, funded)

\* CheckTx in execModeReCheck, for the transactions left in CometBFT's mempool.
Recheck(acc, tx) ==
    IF AntePasses(acc.check, tx)
    THEN [acc EXCEPT !.check = IncrementSequence(@, tx), !.comet = Append(@, tx)]
    ELSE [acc EXCEPT !.mp = Remove(@, tx)]

\* checkState starts anew from the committed state; CometBFT drops the
\* transactions of the block, executed or not, and rechecks the others.
Commit ==
    /\ phase = "finalized"
    /\ committed' = final
    /\ \E rechecked \in {SE!FoldLeft(Recheck, [check |-> final, mp |-> mp, comet |-> <<>>],
                                     SelectSeq(comet, LAMBDA tx : ~SE!Contains(block, tx)))} :
          /\ check' = rechecked.check
          /\ mp' = rechecked.mp
          /\ comet' = rechecked.comet
    /\ phase' = "open" /\ block' = <<>> /\ final' = Genesis
    /\ UNCHANGED own

Next ==
    \/ \E tx \in Txs : CheckTx(tx)
    \/ PrepareProposal
    \/ NewRound
    \/ \E funded \in SUBSET Senders : FinalizeOwn(funded)
    \/ \E txs \in SE!BoundedSeq(Txs, MaxBlockTxs), funded \in SUBSET Senders :
          FinalizeOther(txs, funded)
    \/ Commit

Spec == Init /\ [][Next]_vars

\* The proposer is chosen in turn, so that this node's proposals are decided
\* again and again.
FairSpec == Spec /\ []<>(phase = "finalized" /\ own) /\ []<>(phase = "open")

-----------------------------------------------------------------------------
(* Properties *)

TypeOK ==
    /\ DOMAIN mp.scores \subseteq Senders \X (0 .. Width - 2)
    /\ Pool(mp) \subseteq Txs
    /\ SE!IsInjective(comet) /\ SE!ToSet(comet) \subseteq Txs
    /\ {committed, check, final}
          \subseteq [sequence : [Senders -> 0 .. Width - 1], drained : SUBSET Senders]
    /\ phase \in {"open", "proposed", "finalized"}
    /\ block \in Seq(Txs)
    /\ own \in BOOLEAN

\* Whatever order transactions are inserted, replaced, selected, executed and
\* rechecked in, the indices of the mempool agree, as Remove, which looks a
\* transaction up in one of them to delete it from the others, relies on.
IndicesAgree == IndicesMatch(mp)

\* Any Select enumerates the mempool completely, by the rules of
\* priority_nonce_spec.md.
EnumeratedInOrder == SelectsInOrder(mp)

\* PrepareProposal never proposes a block that ProcessProposal, on the same
\* committed state, rejects, although its own state has also run transactions
\* that then did not fit into the block.
ProposalAccepted == phase = "proposed" => ProcessProposal(block)

\* A transaction leaves the mempool again: executed, found invalid by a recheck
\* or, if CometBFT no longer knows it, by this node's next proposals.
EveryTxLeaves == \A tx \in Txs : (tx \in Pool(mp)) ~> (tx \notin Pool(mp))
=============================================================================
