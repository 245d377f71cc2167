------------------------- MODULE OptimisticExecution -------------------------
(***************************************************************************)
(* The consensus connection of BaseApp (InitChain, ProcessProposal,        *)
(* FinalizeBlock, Commit) with optimistic execution: an accepted proposal  *)
(* is executed by a goroutine before it is decided, and FinalizeBlock      *)
(* takes the goroutine's result when that proposal is the decided block.   *)
(*                                                                         *)
(* Several threads write the one finalizeBlockState: Main, which serves    *)
(* the calls of consensus one at a time, and the goroutines that Execute   *)
(* starts, one for each proposal accepted at a height.  A thread in        *)
(* internalFinalizeBlock takes one step for the begin blockers, one for    *)
(* each transaction and one for the end blockers, and looks at its context *)
(* after each.  A state is the sequence of the writes that led to it; a    *)
(* request is known by its height and its block, which its hash determines.*)
(*                                                                         *)
(* The height is bounded by HaltHeight, the configuration's halt-height.   *)
(***************************************************************************)
EXTENDS Naturals, Sequences

CONSTANTS Blocks, Txs, Failing, HaltHeight,
          MaxRounds,            \* ProcessProposal calls at one height
          MaxCrashes,           \* how often the node stops and restarts
          RejectsAfterAccept    \* may a later round's proposal be rejected
                                \* once one was accepted at the same height?

ASSUME BlocksAssumption ==
    /\ Blocks # {} /\ "none" \notin Blocks
    /\ Txs \in [Blocks -> Nat] /\ Failing \subseteq Blocks
    /\ HaltHeight \in Nat
    /\ MaxRounds \in Nat /\ MaxCrashes \in Nat /\ RejectsAfterAccept \in BOOLEAN

VARIABLES decided,              \* the blocks consensus decided
          round,                \* ProcessProposal calls made at this height
          crashes,
          cms,                  \* the multistore: height, store, working set
          initialHeight,
          finalizeBlockState,   \* a branch of cms, or NoState
          oe,                   \* the OptimisticExecution struct
          exec,                 \* the threads in internalFinalizeBlock
          call                  \* the consensus call being served
vars == <<decided, round, crashes, cms, initialHeight, finalizeBlockState, oe,
          exec, call>>

BE == INSTANCE BlockExecution
          WITH height <- cms.height,
               committed <- cms.store,
               answer <- [result |-> call.result,
                          state |-> IF call.result = "ok" THEN cms.working
                                    ELSE <<>>]

None == "none"
NoState == [set |-> FALSE, state |-> <<>>]
State(writes) == [set |-> TRUE, state |-> writes]
Main == 0
Goroutines == 1 .. MaxRounds    \* the one of the round's Execute
Threads == {Main} \cup Goroutines
NoRequest == [height |-> 0, block |-> None]
Request(b) == [height |-> cms.height + 1, block |-> b]

NewOE ==
    [initialized |-> FALSE, request |-> NoRequest, result |-> None,
     current |-> Main,      \* whom cancelFunc cancels; Main if it is nil
     stopped |-> FALSE]     \* stopCh is closed

\* step: how many steps of the block are done; result: None while running.
Idle == [request |-> NoRequest, step |-> 0, result |-> None,
         cancelled |-> FALSE]
Start(req) == [Idle EXCEPT !.request = req]
Running(t) == exec[t].request # NoRequest

NoCall == [op |-> None, block |-> None, aborted |-> FALSE, result |-> None]
Call(op, b) == [NoCall EXCEPT !.op = op, !.block = b]

Init ==
    /\ decided = <<>>
    /\ round = 0
    /\ crashes = 0
    /\ cms = [height |-> 0, store |-> <<>>, working |-> <<>>]
    /\ initialHeight = 0
    /\ finalizeBlockState = NoState
    /\ oe = NewOE
    /\ exec = [t \in Threads |-> Idle]
    /\ call = NoCall

-----------------------------------------------------------------------------
(***************************************************************************)
(* internalFinalizeBlock                                                   *)
(***************************************************************************)

CheckHalt(h) == HaltHeight > 0 /\ h >= HaltHeight

Return(t, res) == exec' = [exec EXCEPT ![t].result = res]

\* checkHalt and validateFinalizeBlockHeight return before any write.
Refused(req) == CheckHalt(req.height) \/ req.height # cms.height + 1

RefuseBlock(t) ==
    /\ Running(t) /\ exec[t].result = None /\ exec[t].step = 0
    /\ Refused(exec[t].request)
    /\ Return(t, "error")
    /\ UNCHANGED <<decided, round, crashes, cms, initialHeight,
                   finalizeBlockState, oe, call>>

\* One step of the block: begin blockers (on a new branch of the multistore
\* if there is none), a transaction, or end blockers; then the check of ctx.
ExecuteStep(t) ==
    LET req == exec[t].request
        n == exec[t].step
        last == n + 1 = BE!Steps(req.block)
        branch == IF finalizeBlockState.set THEN finalizeBlockState.state
                  ELSE cms.working
    IN  /\ Running(t) /\ exec[t].result = None
        /\ n = 0 => ~Refused(req)
        /\ finalizeBlockState' = State(Append(branch, <<req.block, n + 1>>))
        /\ exec' = [exec EXCEPT
               ![t].step = n + 1,
               ![t].result = IF \/ last /\ req.block \in Failing
                                \/ exec[t].cancelled
                             THEN "error"
                             ELSE IF last THEN "ok" ELSE None]
        /\ UNCHANGED <<decided, round, crashes, cms, initialHeight, oe, call>>

-----------------------------------------------------------------------------
(***************************************************************************)
(* The OptimisticExecution struct                                          *)
(***************************************************************************)

Reset ==
    [oe EXCEPT !.request = NoRequest, !.result = None, !.initialized = FALSE]

Execute(req) ==
    /\ oe' = [oe EXCEPT !.request = req, !.initialized = TRUE,
                        !.current = round, !.stopped = FALSE]
    /\ exec' = [exec EXCEPT ![round] = Start(req)]

\* cancelFunc, which does nothing to a goroutine that has finished.
Cancel == exec' = [exec EXCEPT ![oe.current].cancelled = Running(oe.current)]

\* Mutant: the heights are compared instead of the hashes.
MutantAbortIfNeeded(req) == oe.request.height # req.height

\* The goroutine executes, or executed, another request than the decided one.
AbortIfNeeded(req) == oe.request # req

\* Mutant: a goroutine whose context was cancelled never closes stopCh.
MutantPublish(g) ==
    /\ Running(g) /\ exec[g].result # None
    /\ ~exec[g].cancelled
    /\ oe' = [oe EXCEPT !.result = exec[g].result, !.stopped = TRUE]
    /\ exec' = [exec EXCEPT ![g] = Idle]
    /\ UNCHANGED <<decided, round, crashes, cms, initialHeight,
                   finalizeBlockState, call>>

\* The goroutine publishes its result and closes stopCh.
Publish(g) ==
    /\ Running(g) /\ exec[g].result # None
    /\ oe' = [oe EXCEPT !.result = exec[g].result, !.stopped = TRUE]
    /\ exec' = [exec EXCEPT ![g] = Idle]
    /\ UNCHANGED <<decided, round, crashes, cms, initialHeight,
                   finalizeBlockState, call>>

-----------------------------------------------------------------------------
(***************************************************************************)
(* The calls of consensus                                                  *)
(***************************************************************************)

Up == call = NoCall
Deciding == Len(decided) = cms.height

\* InitChain, which consensus calls as long as nothing is committed.
InitChain ==
    /\ Up /\ cms.height = 0 /\ initialHeight = 0
    /\ initialHeight' = 1
    /\ finalizeBlockState' = State(<<BE!Genesis>>)
    /\ UNCHANGED <<decided, round, crashes, cms, oe, exec, call>>

Initialised == cms.height > 0 \/ initialHeight > 0

\* ProcessProposal up to the wait in Abort.
ProcessProposal(b) ==
    /\ Up /\ Initialised /\ Deciding /\ round < MaxRounds
    /\ round' = round + 1
    /\ call' = Call("ProcessProposal", b)
    /\ IF cms.height + 1 > initialHeight /\ oe.current # Main
       THEN Cancel ELSE UNCHANGED exec
    /\ UNCHANGED <<decided, crashes, cms, initialHeight, finalizeBlockState,
                   oe>>

\* Mutant: Abort cancels the goroutine and does not wait for it.
MutantAbortReturns == TRUE

\* Abort returns once stopCh is closed.
AbortReturns == oe.current # Main => oe.stopped

\* The rest of ProcessProposal; the handler may accept, reject, fail or panic.
ProposalVerdict(accept) ==
    LET req == Request(call.block)
        optimistic == req.height > initialHeight
    IN  /\ call.op = "ProcessProposal"
        /\ optimistic => AbortReturns
        /\ ~accept /\ oe.request.height = req.height => RejectsAfterAccept
        /\ finalizeBlockState' =
               IF optimistic THEN State(cms.working) ELSE finalizeBlockState
        /\ IF accept /\ optimistic THEN Execute(req)
           ELSE UNCHANGED <<oe, exec>>
        /\ call' = NoCall
        /\ UNCHANGED <<decided, round, crashes, cms, initialHeight>>

\* Consensus may decide a block this node rejected or was never shown.
Decide(b) ==
    /\ Up /\ Initialised /\ Deciding
    /\ decided' = Append(decided, b)
    /\ UNCHANGED <<round, crashes, cms, initialHeight, finalizeBlockState, oe,
                   exec, call>>

\* FinalizeBlock up to WaitResult, or into internalFinalizeBlock.
FinalizeBlock ==
    LET req == Request(decided[cms.height + 1])
        aborted == AbortIfNeeded(req)
    IN  /\ Up /\ Initialised /\ ~Deciding
        /\ IF oe.initialized
           THEN /\ IF aborted THEN Cancel ELSE UNCHANGED exec
                /\ call' = [Call("WaitResult", req.block)
                                EXCEPT !.aborted = aborted]
           ELSE /\ call' = Call("FinalizeBlock", req.block)
                /\ exec' = [exec EXCEPT ![Main] = Start(req)]
        /\ UNCHANGED <<decided, round, crashes, cms, initialHeight,
                       finalizeBlockState, oe>>

\* An aborted execution's state is dropped and the block run again.
RunAgain ==
    /\ call.op = "WaitResult" /\ oe.stopped /\ call.aborted
    /\ finalizeBlockState' = NoState
    /\ oe' = Reset
    /\ exec' = [exec EXCEPT ![Main] = Start(Request(call.block))]
    /\ call' = Call("FinalizeBlock", call.block)
    /\ UNCHANGED <<decided, round, crashes, cms, initialHeight>>

\* A result is answered with workingHash, which writes finalizeBlockState
\* into the multistore's working set.
Answer(res) ==
    /\ cms' = IF res = "ok" THEN [cms EXCEPT !.working = finalizeBlockState.state]
              ELSE cms
    /\ call' = [call EXCEPT !.op = "answered", !.result = res]

TakeResult ==
    /\ call.op = "WaitResult" /\ oe.stopped /\ ~call.aborted
    /\ Answer(oe.result)
    /\ UNCHANGED <<decided, round, crashes, initialHeight, finalizeBlockState,
                   oe, exec>>

FinishBlock ==
    /\ call.op = "FinalizeBlock" /\ exec[Main].result # None
    /\ Answer(exec[Main].result)
    /\ exec' = [exec EXCEPT ![Main] = Idle]
    /\ UNCHANGED <<decided, round, crashes, initialHeight, finalizeBlockState,
                   oe>>

\* Consensus stops the node on an error instead.
Commit ==
    /\ call.op = "answered" /\ call.result = "ok"
    /\ cms' = [cms EXCEPT !.height = @ + 1, !.store = cms.working]
    /\ finalizeBlockState' = NoState
    /\ round' = 0
    /\ call' = NoCall
    /\ UNCHANGED <<decided, crashes, initialHeight, oe, exec>>

\* The node stops, by itself or its operator, and starts again: only the
\* committed state and the decided blocks survive.
Crash ==
    /\ crashes < MaxCrashes
    /\ crashes' = crashes + 1
    /\ cms' = [cms EXCEPT !.working = cms.store]
    /\ initialHeight' = 0
    /\ finalizeBlockState' = NoState
    /\ oe' = NewOE
    /\ exec' = [t \in Threads |-> Idle]
    /\ call' = NoCall
    /\ UNCHANGED <<decided, round>>

Next ==
    \/ \E t \in Threads : RefuseBlock(t)
    \/ \E t \in Threads : ExecuteStep(t)
    \/ \E g \in Goroutines : Publish(g)
    \/ InitChain
    \/ \E b \in Blocks : ProcessProposal(b)
    \/ \E accept \in BOOLEAN : ProposalVerdict(accept)
    \/ \E b \in Blocks : Decide(b)
    \/ FinalizeBlock
    \/ RunAgain
    \/ TakeResult
    \/ FinishBlock
    \/ Commit
    \/ Crash

\* The Go scheduler runs every goroutine that can take a step, and consensus
\* finalizes and commits what it decided.
Fairness ==
    /\ \A t \in Threads : WF_vars(RefuseBlock(t) \/ ExecuteStep(t))
    /\ \A g \in Goroutines : WF_vars(Publish(g))
    /\ WF_vars(InitChain)
    /\ WF_vars(\E accept \in BOOLEAN : ProposalVerdict(accept))
    /\ WF_vars(FinalizeBlock)
    /\ WF_vars(RunAgain \/ TakeResult \/ FinishBlock)
    /\ WF_vars(Commit)

Spec == Init /\ [][Next]_vars
FairSpec == Spec /\ Fairness

-----------------------------------------------------------------------------
(***************************************************************************)
(* Properties                                                              *)
(***************************************************************************)

Writes == Seq((Blocks \cup {"genesis"}) \X Nat)
Requests == {NoRequest} \cup [height : Nat \ {0}, block : Blocks]
Results == {None, "ok", "error"}

\* An initialized OE has the request that AbortIfNeeded dereferences.
TypeOK ==
    /\ decided \in Seq(Blocks)
    /\ round \in 0 .. MaxRounds
    /\ crashes \in 0 .. MaxCrashes
    /\ cms \in [height : Nat, store : Writes, working : Writes]
    /\ initialHeight \in {0, 1}
    /\ finalizeBlockState \in [set : BOOLEAN, state : Writes]
    /\ oe \in [initialized : BOOLEAN, request : Requests, result : Results,
              current : Threads, stopped : BOOLEAN]
    /\ oe.initialized <=> oe.request # NoRequest
    /\ exec \in [Threads -> [request : Requests, step : Nat, result : Results,
                            cancelled : BOOLEAN]]
    /\ call \in [op : {None, "ProcessProposal", "WaitResult", "FinalizeBlock",
                      "answered"},
                block : Blocks \cup {None}, aborted : BOOLEAN,
                result : Results]

\* The state that a thread in internalFinalizeBlock writes is its own: it
\* holds what the steps the thread has taken wrote on top of the committed
\* state, and nothing of another execution, aborted, finished or running
\* (ProcessProposal and FinalizeBlock replace it only when no other thread
\* is executing).
ExecutionOwnsState ==
    \A t \in Threads :
        LET req == exec[t].request IN
        Running(t) /\ exec[t].step > 0 =>
            finalizeBlockState =
                State(BE!Base(cms.store, req.height)
                          \o BE!Writes(req.block, exec[t].step))

\* FinalizeBlock answers with the execution of the block it was given on the
\* committed state, or with that execution's error.
ResultIsExecution ==
    call.op = "answered" =>
        [result |-> call.result,
         state |-> IF call.result = "ok" THEN cms.working ELSE <<>>]
            = BE!Execute(cms.store, cms.height + 1, call.block)

\* Optimistic execution is invisible: BaseApp implements the sequential
\* state machine of BlockExecution, whatever was proposed, executed, aborted
\* or lost in a crash before.
ImplementsBlockExecution == BE!Spec

\* Every block decided is eventually committed, or FinalizeBlock answers it
\* with an error: neither Abort nor WaitResult waits for ever.
DecidedBlocksSettle ==
    Len(decided) > cms.height
        ~> Len(decided) = cms.height \/ call.result = "error"
=============================================================================
