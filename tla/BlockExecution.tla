--------------------------- MODULE BlockExecution ---------------------------
(***************************************************************************)
(* What BaseApp promises consensus: the application is a state machine     *)
(* that executes the decided blocks in order, and FinalizeBlock answers    *)
(* with the state (the app hash) that executing the decided block on the   *)
(* committed state leaves.  Nothing else a node does, and no crash, shows. *)
(*                                                                         *)
(* A state is the sequence of the writes that led to it.  A block runs its *)
(* begin blockers, its transactions and its end blockers; the first block  *)
(* runs on what InitChain wrote.                                           *)
(***************************************************************************)
EXTENDS Naturals, Sequences

CONSTANTS Blocks,       \* blocks that may be decided
          Txs,          \* [Blocks -> Nat], the number of transactions
          Failing,      \* blocks whose end blockers return an error
          HaltHeight    \* halt-height of the node's configuration, 0 for none

VARIABLES decided,      \* the blocks decided so far
          height,       \* LastBlockHeight
          committed,    \* the committed state
          answer        \* the answer to FinalizeBlock until Commit
vars == <<decided, height, committed, answer>>

None == [result |-> "none", state |-> <<>>]
Error == [result |-> "error", state |-> <<>>]
Genesis == <<"genesis", 0>>

\* The writes of the first n steps of block b: its begin blockers, each of
\* its transactions, its end blockers.
Writes(b, n) == [i \in 1 .. n |-> <<b, i>>]
Steps(b) == Txs[b] + 2

CheckHalt(h) == HaltHeight > 0 /\ h >= HaltHeight

\* The state in which block h starts.
Base(store, h) == IF h = 1 THEN <<Genesis>> ELSE store

Execute(store, h, b) ==
    IF CheckHalt(h) \/ b \in Failing THEN Error
    ELSE [result |-> "ok", state |-> Base(store, h) \o Writes(b, Steps(b))]

Init ==
    /\ decided = <<>>
    /\ height = 0
    /\ committed = <<>>
    /\ answer = None

Decide(b) ==
    /\ Len(decided) = height
    /\ decided' = Append(decided, b)
    /\ UNCHANGED <<height, committed, answer>>

FinalizeBlock ==
    /\ Len(decided) = height + 1
    /\ answer = None
    /\ answer' = Execute(committed, height + 1, decided[height + 1])
    /\ UNCHANGED <<decided, height, committed>>

Commit ==
    /\ answer.result = "ok"
    /\ committed' = answer.state
    /\ height' = height + 1
    /\ answer' = None
    /\ UNCHANGED decided

\* The node stops before it has committed.
Crash ==
    /\ answer' = None
    /\ UNCHANGED <<decided, height, committed>>

Next == (\E b \in Blocks : Decide(b)) \/ FinalizeBlock \/ Commit \/ Crash

Spec == Init /\ [][Next]_vars
=============================================================================
