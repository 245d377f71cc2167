------------------------ MODULE PriorityNonceMempool ------------------------
(***************************************************************************)
(* types/mempool/priority_nonce.go: the application's mempool, ordered by  *)
(* priority and, for each sender, by nonce.                                *)
(*                                                                         *)
(* A mempool mp is a record of                                             *)
(*   priorityIndex   the keys of the skip list over all transactions       *)
(*   priorityCounts  the number of transactions of each priority           *)
(*   senderIndices   for each sender the elements of a skip list by nonce  *)
(*   scores          for each sender and nonce the priority and weight     *)
(*                   under which priorityIndex holds the transaction       *)
(* A transaction is a record with signers, a sequence of [signer,          *)
(* sequence], and a priority.  Every method holds the mutex, so that each  *)
(* of them is one step.                                                    *)
(***************************************************************************)
EXTENDS Integers, Sequences, FiniteSets, TLC
LOCAL SE == INSTANCE SequencesExt

CONSTANTS Senders,        \* numbers, in the order of their addresses
          Priorities,
          MaxTx,          \* the configured capacity, 0 for none
          TxReplacement   \* pairs <<old, new>> of priorities that may replace

ASSUME MempoolAssumption ==
    /\ Senders \subseteq Nat /\ Priorities \subseteq Nat
    /\ MaxTx \in Int
    /\ TxReplacement \subseteq Priorities \X Priorities

NewPriorityMempool ==
    [priorityIndex |-> {}, priorityCounts |-> [p \in Priorities |-> 0],
     senderIndices |-> [s \in Senders |-> {}], scores |-> <<>>]

\* The key of a transaction is that of its first signer.
Sender(tx) == tx.signers[1].signer
Nonce(tx) == tx.signers[1].sequence
ScoreKey(tx) == <<Sender(tx), Nonce(tx)>>

Pool(mp) == {key.tx : key \in mp.priorityIndex}

-----------------------------------------------------------------------------
(* Skip lists: both front to back, as their comparators order them. *)

\* skiplistComparable, the greatest key first.
Before(a, b) ==
    IF a.priority # b.priority THEN a.priority > b.priority
    ELSE IF a.weight # b.weight THEN a.weight > b.weight
    ELSE IF a.sender # b.sender THEN a.sender > b.sender
    ELSE a.nonce > b.nonce

PriorityList(mp) == SE!SetToSortSeq(mp.priorityIndex, Before)
SenderList(mp, s) == SE!SetToSortSeq(mp.senderIndices[s], LAMBDA a, b : a.nonce < b.nonce)

\* SkipList.Set: when the list has an element with an equal key, its value
\* changes and its key stays, and so does the priority in it.
SetElement(list, tx) ==
    LET same == {e \in list : e.nonce = Nonce(tx)}
    IN  IF same = {}
        THEN list \cup {[nonce |-> Nonce(tx), priority |-> tx.priority, tx |-> tx]}
        ELSE (list \ same) \cup {[e EXCEPT !.tx = tx] : e \in same}

-----------------------------------------------------------------------------
(* Insert and Remove *)

Full(mp) == MaxTx > 0 /\ Cardinality(mp.priorityIndex) >= MaxTx
Known(mp, tx) == ScoreKey(tx) \in DOMAIN mp.scores

\* The key of priorityIndex that the score of a known transaction leads to.
Scored(mp, tx) ==
    {key \in mp.priorityIndex :
        /\ <<key.sender, key.nonce>> = ScoreKey(tx)
        /\ [priority |-> key.priority, weight |-> key.weight] = mp.scores[ScoreKey(tx)]}

\* Whether Insert returns no error.
Inserts(mp, tx) ==
    \/ MaxTx < 0
    \/ /\ ~Full(mp)
       /\ Known(mp, tx) => <<mp.scores[ScoreKey(tx)].priority, tx.priority>> \in TxReplacement

Insert(mp, tx) ==
    IF MaxTx < 0 \/ ~Inserts(mp, tx) THEN mp
    ELSE LET old == IF Known(mp, tx) THEN {mp.scores[ScoreKey(tx)].priority} ELSE {}
             In(p, set) == IF p \in set THEN 1 ELSE 0
         IN  [priorityIndex |-> (IF Known(mp, tx) THEN mp.priorityIndex \ Scored(mp, tx)
                                                  ELSE mp.priorityIndex)
                  \cup {[priority |-> tx.priority, weight |-> 0, sender |-> Sender(tx),
                         nonce |-> Nonce(tx), tx |-> tx]},
              priorityCounts |-> [p \in Priorities |->
                  mp.priorityCounts[p] - In(p, old) + In(p, {tx.priority})],
              senderIndices |-> [mp.senderIndices EXCEPT ![Sender(tx)] = SetElement(@, tx)],
              scores |-> (ScoreKey(tx) :> [priority |-> tx.priority, weight |-> 0]) @@ mp.scores]

\* Mutant: the transaction is looked for under the weight it was inserted with.
RemoveUnweighted(mp, tx) ==
    IF ~Known(mp, tx) THEN mp
    ELSE [priorityIndex |-> {key \in mp.priorityIndex :
                                <<key.sender, key.nonce>> # ScoreKey(tx) \/ key.weight # 0},
          priorityCounts |-> [mp.priorityCounts EXCEPT ![mp.scores[ScoreKey(tx)].priority] = @ - 1],
          senderIndices |-> [mp.senderIndices EXCEPT ![Sender(tx)] =
                                {e \in @ : e.nonce # Nonce(tx)}],
          scores |-> [k \in DOMAIN mp.scores \ {ScoreKey(tx)} |-> mp.scores[k]]]

\* Removes what is held under the sender and nonce of tx, which need not be tx;
\* ErrTxNotFound leaves everything as it is.
Remove(mp, tx) ==
    IF ~Known(mp, tx) THEN mp
    ELSE [priorityIndex |-> mp.priorityIndex \ Scored(mp, tx),
          priorityCounts |-> [mp.priorityCounts EXCEPT ![mp.scores[ScoreKey(tx)].priority] = @ - 1],
          senderIndices |-> [mp.senderIndices EXCEPT ![Sender(tx)] =
                                {e \in @ : e.nonce # Nonce(tx)}],
          scores |-> [k \in DOMAIN mp.scores \ {ScoreKey(tx)} |-> mp.scores[k]]]

-----------------------------------------------------------------------------
(* Select *)

\* The loop of senderWeight keeps the last priority that differs from the one
\* before it, which is that of the sender's last transaction.
senderWeight(mp, key) ==
    LET from == {e \in mp.senderIndices[key.sender] : e.nonce >= key.nonce}
    IN  (CHOOSE e \in from : \A f \in from : f.nonce <= e.nonce).priority

reorderPriorityTies(mp) ==
    LET tied == {key \in mp.priorityIndex : mp.priorityCounts[key.priority] > 1}
        moved == {[key EXCEPT !.weight = senderWeight(mp, key)] : key \in tied}
        Score(k) == CHOOSE key \in moved : <<key.sender, key.nonce>> = k
    IN  [mp EXCEPT
            !.priorityIndex = (@ \ tied) \cup moved,
            !.scores = [k \in DOMAIN @ |->
                            IF \E key \in moved : <<key.sender, key.nonce>> = k
                            THEN [priority |-> Score(k).priority, weight |-> Score(k).weight]
                            ELSE @[k]]]

\* Mutant: all transactions of a sender are taken at once.
NeverOutranked(mp, list, at, element, s) == FALSE

\* Whether the next transaction in the order of priorities is to be selected
\* before the sender's next one.
Outranked(mp, list, at, element, s) ==
    /\ at < Len(list)
    /\ \/ element.priority < list[at + 1].priority
       \/ /\ element.priority = list[at + 1].priority
          /\ mp.scores[<<s, element.nonce>>].weight < list[at + 1].weight

\* The transactions the iterator still returns when it has come to the node at
\* of the priority list, and to cursor[s] in the list of each sender s.
RECURSIVE Iterate(_, _, _, _)
Iterate(mp, list, at, cursor) ==
    IF at > Len(list) THEN <<>>
    ELSE LET s == list[at].sender
             own == SenderList(mp, s)
             next == cursor[s] + 1
         IN  IF next > Len(own) \/ Outranked(mp, list, at, own[next], s)
             THEN Iterate(mp, list, at + 1, cursor)
             ELSE <<own[next].tx>> \o Iterate(mp, list, at, [cursor EXCEPT ![s] = next])

\* doSelect: what the iterator returns, of a mempool whose ties are reordered.
Select(mp) == Iterate(mp, PriorityList(mp), 1, [s \in Senders |-> 0])

-----------------------------------------------------------------------------
(* Properties *)

\* The four indices describe one set of transactions: a key in priorityIndex
\* for every score, under the priority and weight the score says, an element
\* in the list of its sender, and counts that add up (as IsEmpty of the code
\* asks of an empty mempool).
IndicesMatch(mp) ==
    /\ {<<key.sender, key.nonce>> : key \in mp.priorityIndex} = DOMAIN mp.scores
    /\ Cardinality(mp.priorityIndex) = Cardinality(DOMAIN mp.scores)
    /\ \A key \in mp.priorityIndex :
          mp.scores[<<key.sender, key.nonce>>] = [priority |-> key.priority, weight |-> key.weight]
    /\ \A s \in Senders :
          {<<e.nonce, e.tx>> : e \in mp.senderIndices[s]}
              = {<<key.nonce, key.tx>> : key \in {k \in mp.priorityIndex : k.sender = s}}
    /\ \A p \in Priorities :
          mp.priorityCounts[p] = Cardinality({key \in mp.priorityIndex : key.priority = p})

\* The rules priority_nonce_spec.md says are strictly observed: every
\* transaction is selected, once; those of a sender in the order of their
\* nonces; and one of a lower priority before one of a higher priority only
\* if the latter is held up by an earlier transaction of its sender that is
\* of no higher priority than the former.
InOrder(selected) ==
    \A i, j \in DOMAIN selected :
        i < j =>
            LET a == selected[i]  b == selected[j]
            IN  IF Sender(a) = Sender(b) THEN Nonce(a) < Nonce(b)
                ELSE a.priority < b.priority =>
                        \E k \in i + 1 .. j - 1 :
                            Sender(selected[k]) = Sender(b) /\ selected[k].priority <= a.priority

SelectsInOrder(mp) ==
    \A selected \in {Select(reorderPriorityTies(mp))} :
        /\ Len(selected) = Cardinality(mp.priorityIndex)
        /\ {selected[i] : i \in DOMAIN selected} = Pool(mp)
        /\ InOrder(selected)
=============================================================================
