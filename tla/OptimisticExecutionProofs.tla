---------------------- MODULE OptimisticExecutionProofs ----------------------
(***************************************************************************)
(* For every set of blocks, number of transactions, rounds, crashes and    *)
(* halt height: the threads of BaseApp with optimistic execution keep to   *)
(* their own states, and BaseApp implements BlockExecution, the latter     *)
(* provided that no later round's proposal is rejected once one was        *)
(* accepted at its height (~RejectsAfterAccept).                           *)
(***************************************************************************)
EXTENDS OptimisticExecution, SequenceTheorems, TLAPS

\* A thread in internalFinalizeBlock, as in TypeOK.
Executions ==
    [request : Requests, step : Nat, result : Results, cancelled : BOOLEAN]

\* The state that the next execution starts on.
Branch ==
    IF finalizeBlockState.set THEN finalizeBlockState.state ELSE cms.working

\* The call being served, what consensus decided and the working set agree.
CallOK ==
    /\ Len(decided) \in {cms.height, cms.height + 1}
    /\ call.op = None => call = NoCall
    /\ call.op # "answered" => call.result = None /\ cms.working = cms.store
    /\ call.op = "ProcessProposal" =>
           round > 0 /\ Initialised /\ Deciding /\ call.block \in Blocks
    /\ call.op \in {"WaitResult", "FinalizeBlock", "answered"} =>
           ~Deciding /\ call.block = decided[cms.height + 1]

\* The struct knows a request of this height or of an earlier one, and
\* never the first block's.
StructOK ==
    /\ oe.initialized =>
           /\ oe.current \in Goroutines
           /\ 1 < oe.request.height /\ oe.request.height <= cms.height + 1
    /\ call.op = "WaitResult" =>
           oe.initialized /\ (call.aborted <=> oe.request # Request(call.block))

\* Only the struct's goroutine runs, and only until its result is taken or
\* dropped; a cancelled one only while a call waits for it in vain.
GoroutineOK(g) ==
    Running(g) =>
        /\ g = oe.current /\ oe.initialized /\ ~oe.stopped
        /\ exec[g].request = oe.request
        /\ oe.request.height = cms.height + 1
        /\ call.op \in {None, "ProcessProposal", "WaitResult"}
        /\ exec[g].cancelled =>
               \/ call.op = "ProcessProposal"
               \/ call.op = "WaitResult" /\ call.aborted

MainOK ==
    /\ Running(Main) <=> call.op = "FinalizeBlock"
    /\ Running(Main) =>
           exec[Main].request = Request(call.block) /\ ~exec[Main].cancelled

\* A thread's progress through its block is what finalizeBlockState holds.
Executed(req, n) ==
    finalizeBlockState =
        State(BE!Base(cms.store, req.height) \o BE!Writes(req.block, n))

Fails(req) == CheckHalt(req.height) \/ req.block \in Failing

ThreadOK(t) ==
    LET req == exec[t].request
        n == exec[t].step
        res == exec[t].result
    IN  Running(t) =>
            /\ n = 0 => Branch = BE!Base(cms.store, req.height)
            /\ n > 0 => Executed(req, n) /\ ~CheckHalt(req.height)
            /\ res = None => n < BE!Steps(req.block)
            /\ res = "ok" => n = BE!Steps(req.block) /\ ~Fails(req)
            /\ res = "error" => exec[t].cancelled \/ Fails(req)

\* A result that FinalizeBlock may take is the one of its block's execution.
ReadyOK ==
    /\ ~RejectsAfterAccept
    /\ oe.initialized /\ oe.stopped /\ oe.request.height = cms.height + 1
    /\ call.op = None \/ (call.op = "WaitResult" /\ ~call.aborted)
    => \/ /\ oe.result = "ok" /\ ~Fails(oe.request)
          /\ Executed(oe.request, BE!Steps(oe.request.block))
       \/ oe.result = "error" /\ Fails(oe.request)

\* Without an execution at this height, the next one starts on its base.
FreshOK ==
    /\ call.op \in {None, "ProcessProposal"} /\ Initialised
    /\ oe.initialized => oe.request.height # cms.height + 1
    => Branch = BE!Base(cms.store, cms.height + 1)

OEInv ==
    /\ TypeOK
    /\ CallOK
    /\ StructOK
    /\ \A g \in Goroutines : GoroutineOK(g)
    /\ MainOK
    /\ \A t \in Threads : ThreadOK(t)
    /\ ReadyOK
    /\ FreshOK

-----------------------------------------------------------------------------
(***************************************************************************)
(* The states as sequences of writes                                       *)
(***************************************************************************)

\* The writes of k steps of a block on top of a state.
LEMMA WritesOn ==
    ASSUME NEW W, NEW base \in Seq(W), NEW b, NEW k \in Nat, \A i \in Nat : <<b, i>> \in W
    PROVE  /\ base \o BE!Writes(b, k) \in Seq(W)
           /\ Len(base \o BE!Writes(b, k)) = Len(base) + k
           /\ \A i \in 1 .. Len(base) : (base \o BE!Writes(b, k))[i] = base[i]
           /\ \A i \in 1 .. k : (base \o BE!Writes(b, k))[Len(base) + i] = <<b, i>>
<1> DEFINE w == BE!Writes(b, k)
           m == Len(base)
<1>1. w \in [1 .. k -> W] /\ \A i \in 1 .. k : w[i] = <<b, i>>
  BY DEF BE!Writes
<1>2. w \in Seq(W) /\ Len(w) = k
  <2> HIDE DEF w
  <2> QED BY <1>1
<1>3. m \in Nat
  OBVIOUS
<1> HIDE DEF w
<1>4. /\ base \o w \in Seq(W)
      /\ Len(base \o w) = m + k
      /\ \A i \in 1 .. m + k : (base \o w)[i] = IF i <= m THEN base[i] ELSE w[i - m]
  BY ZenonT(30), <1>2, ConcatProperties
<1> HIDE DEF m
<1>5. \A i \in 1 .. m : (base \o w)[i] = base[i]
  BY <1>3, <1>4
<1>6. \A i \in 1 .. k : (base \o w)[m + i] = <<b, i>>
  <2> TAKE i \in 1 .. k
  <2>1. m + i \in 1 .. m + k /\ ~(m + i <= m) /\ (m + i) - m = i
    BY <1>3
  <2> QED BY <1>1, <1>4, <2>1, Zenon
<1> QED BY <1>4, <1>5, <1>6 DEF w, m

\* The steps of a block extend the writes of the steps before.
LEMMA WritesExtend ==
    ASSUME NEW base \in Writes, NEW b \in Blocks, NEW n \in Nat
    PROVE  /\ base \o BE!Writes(b, n) \in Writes
           /\ Append(base \o BE!Writes(b, n), <<b, n + 1>>) = base \o BE!Writes(b, n + 1)
           /\ base \o BE!Writes(b, 0) = base
<1> DEFINE s == base \o BE!Writes(b, n)
           u == base \o BE!Writes(b, n + 1)
           a == Append(s, <<b, n + 1>>)
           m == Len(base)
           W == (Blocks \cup {"genesis"}) \X Nat
<1>0. base \in Seq(W) /\ \A i \in Nat : <<b, i>> \in W
  BY DEF Writes
<1> HIDE DEF W
<1>1. /\ s \in Seq(W) /\ Len(s) = m + n
      /\ \A i \in 1 .. m : s[i] = base[i]
      /\ \A i \in 1 .. n : s[m + i] = <<b, i>>
  BY SMTT(30), <1>0, WritesOn
<1>2. n + 1 \in Nat /\ m \in Nat
  BY <1>0
<1>3. /\ u \in Seq(W) /\ Len(u) = m + (n + 1)
      /\ \A i \in 1 .. m : u[i] = base[i]
      /\ \A i \in 1 .. n + 1 : u[m + i] = <<b, i>>
  BY <1>0, <1>2, WritesOn
<1> HIDE DEF s, u, m
<1>4. /\ a \in Seq(W) /\ Len(a) = (m + n) + 1
      /\ \A i \in 1 .. m + n : a[i] = s[i]
      /\ a[(m + n) + 1] = <<b, n + 1>>
  BY <1>0, <1>1, <1>2, AppendProperties
<1> HIDE DEF a
<1>5. ASSUME NEW i \in 1 .. Len(a) PROVE a[i] = u[i]
  <2>1. CASE i <= m
    BY <2>1, <1>1, <1>2, <1>3, <1>4
  <2>2. CASE i > m
    <3>1. PICK j \in 1 .. n + 1 : i = m + j
      <4>1. i - m \in 1 .. n + 1 /\ i = m + (i - m)
        BY <2>2, <1>2, <1>4
      <4> QED BY <4>1, Zenon
    <3>2. u[i] = <<b, j>>
      BY <3>1, <1>3
    <3>3. CASE j <= n
      BY SMTT(30), <3>1, <3>2, <3>3, <1>1, <1>2, <1>4
    <3>4. CASE j = n + 1
      BY <3>1, <3>2, <3>4, <1>2, <1>4
    <3> QED BY <3>1, <3>3, <3>4
  <2> QED BY <2>1, <2>2, <1>2, <1>4
<1>6. a = u
  <2>1. a \in Seq(W) /\ u \in Seq(W) /\ Len(a) = Len(u)
    BY <1>2, <1>3, <1>4
  <2> QED BY <2>1, <1>5, SeqEqual
<1>7. BE!Writes(b, 0) = <<>>
  BY DEF BE!Writes
<1>8. base \o BE!Writes(b, 0) = base
  BY <1>0, <1>7, ConcatEmptySeq
<1> QED BY ZenonT(30), <1>1, <1>6, <1>8 DEF a, s, u, W, Writes

-----------------------------------------------------------------------------
(***************************************************************************)
(* Every action preserves the invariant                                    *)
(***************************************************************************)

\* One step of a thread leaves a thread.
LEMMA StepType ==
    ASSUME NEW e \in [request : Requests, step : Nat, result : Results, cancelled : BOOLEAN],
           NEW r \in Results
    PROVE  [e EXCEPT !.step = e.step + 1, !.result = r]
               \in [request : Requests, step : Nat, result : Results, cancelled : BOOLEAN]
<1>1. PICK n \in Nat : n = e.step + 1
  OBVIOUS
<1>2. [e EXCEPT !.step = n, !.result = r]
          \in [request : Requests, step : Nat, result : Results, cancelled : BOOLEAN]
  BY Zenon
<1> QED BY <1>1, <1>2, Zenon

\* A thread starts a block.
LEMMA StartType ==
    ASSUME NEW r \in Requests
    PROVE  /\ Start(r) \in Executions
           /\ Start(r).request = r /\ Start(r).step = 0 /\ Start(r).result = None
           /\ ~Start(r).cancelled
<1>1. Idle \in Executions
  BY DEF Idle, Executions, Requests, Results
<1> QED BY ZenonT(30), <1>1 DEF Start, Idle, Executions

\* Deciding a block changes nothing that the threads use.
LEMMA DecideInv ==
    ASSUME OEInv, NEW b \in Blocks, Decide(b)
    PROVE  OEInv'
<1>1. TypeOK'
  BY DEF OEInv, TypeOK, Decide
<1>2. CallOK'
  BY DEF OEInv, TypeOK, CallOK, Decide, Up, Deciding, Initialised, NoCall, None
<1>3. StructOK'
  BY DEF OEInv, StructOK, Decide, Up, Request
<1>4. \A g \in Goroutines : GoroutineOK(g)'
  BY DEF OEInv, GoroutineOK, Running, Decide
<1>5. MainOK'
  BY DEF OEInv, MainOK, Running, Request, Decide
<1>6. \A t \in Threads : ThreadOK(t)'
  BY DEF OEInv, ThreadOK, Running, Branch, Executed, Decide
<1>7. ReadyOK'
  BY DEF OEInv, ReadyOK, Executed, Decide
<1>8. FreshOK'
  BY DEF OEInv, FreshOK, Branch, Initialised, Decide
<1> QED BY <1>1, <1>2, <1>3, <1>4, <1>5, <1>6, <1>7, <1>8, Zenon DEF OEInv

\* InitChain writes the base of the first block.
LEMMA InitChainInv ==
    ASSUME OEInv, InitChain
    PROVE  OEInv'
<1>1. TypeOK'
  <2>1. <<BE!Genesis>> \in Writes
    BY DEF Writes, BE!Genesis
  <2> QED BY <2>1 DEF OEInv, TypeOK, InitChain, State
<1>2. CallOK'
  BY ZenonT(30) DEF OEInv, CallOK, InitChain, Up, Deciding, Initialised, NoCall, None
<1>3. StructOK'
  BY DEF OEInv, StructOK, InitChain, Request
<1>4. ~oe.initialized /\ \A g \in Goroutines : ~Running(g)
  BY DEF OEInv, TypeOK, StructOK, GoroutineOK, InitChain, Requests, NoRequest
<1>5. ~Running(Main)
  BY DEF OEInv, MainOK, InitChain, Up, NoCall, None
<1>6. \A g \in Goroutines : GoroutineOK(g)'
  BY DEF OEInv, GoroutineOK, Running, InitChain
<1>7. MainOK'
  BY DEF OEInv, MainOK, Running, Request, InitChain
<1>8. \A t \in Threads : ThreadOK(t)'
  BY <1>4, <1>5 DEF ThreadOK, Running, Threads, InitChain
<1>9. ReadyOK'
  BY <1>4 DEF ReadyOK, InitChain
<1>10. FreshOK'
  BY DEF OEInv, FreshOK, Branch, BE!Base, State, InitChain
<1> QED BY <1>1, <1>2, <1>3, <1>6, <1>7, <1>8, <1>9, <1>10, Zenon DEF OEInv

\* Refusing a block writes nothing.
LEMMA RefuseBlockInv ==
    ASSUME OEInv, NEW t \in Threads, RefuseBlock(t)
    PROVE  OEInv'
<1>1. TypeOK'
  <2>1. exec' \in [Threads -> [request : Requests, step : Nat, result : Results,
                              cancelled : BOOLEAN]]
    BY SMTT(60) DEF OEInv, TypeOK, RefuseBlock, Return, Results
  <2> QED BY <2>1 DEF OEInv, TypeOK, RefuseBlock
<1>2. CallOK'
  BY DEF OEInv, CallOK, RefuseBlock, Deciding, Initialised
<1>3. StructOK'
  BY DEF OEInv, StructOK, RefuseBlock, Request
<1>4. \A g \in Goroutines : GoroutineOK(g)'
  BY DEF OEInv, TypeOK, GoroutineOK, Running, RefuseBlock, Return, Threads
<1>5. MainOK'
  BY DEF OEInv, TypeOK, MainOK, Running, Request, RefuseBlock, Return, Threads
<1>6. exec[t].request.height = cms.height + 1
  BY DEF OEInv, MainOK, GoroutineOK, RefuseBlock, Running, Request, Threads
<1>7. CheckHalt(exec[t].request.height)
  BY <1>6 DEF RefuseBlock, Refused
<1>8. ASSUME NEW u \in Threads PROVE ThreadOK(u)'
  <2>1. CASE u = t
    BY <2>1, <1>7 DEF OEInv, TypeOK, ThreadOK, Running, Branch, Executed, Fails,
                      RefuseBlock, Return, None
  <2>2. CASE u # t
    BY <2>2 DEF OEInv, TypeOK, ThreadOK, Running, Branch, Executed, RefuseBlock, Return
  <2> QED BY <2>1, <2>2, Zenon
<1>9. ReadyOK'
  BY DEF OEInv, ReadyOK, Executed, RefuseBlock
<1>10. FreshOK'
  BY DEF OEInv, FreshOK, Branch, Initialised, RefuseBlock
<1> QED BY <1>1, <1>2, <1>3, <1>4, <1>5, <1>8, <1>9, <1>10, Zenon DEF OEInv

\* At most one thread is in internalFinalizeBlock, with a block of this height.
LEMMA OneThread ==
    ASSUME OEInv, NEW t \in Threads, Running(t)
    PROVE  /\ \A u \in Threads : Running(u) => u = t
           /\ exec[t].request.height = cms.height + 1
           /\ exec[t].request.block \in Blocks
           /\ t # Main => oe.initialized /\ ~oe.stopped /\ oe.request = exec[t].request
           /\ t = Main => call.op = "FinalizeBlock"
<1>1. exec[t].request.block \in Blocks
  BY DEF OEInv, TypeOK, Requests, Running
<1>2. CASE t = Main
  BY <1>1, <1>2 DEF OEInv, MainOK, GoroutineOK, Request, Threads, None
<1>3. CASE t # Main
  <2>1. t \in Goroutines /\ GoroutineOK(t)
    BY <1>3 DEF OEInv, Threads
  <2>2. ~Running(Main)
    BY <2>1 DEF OEInv, MainOK, GoroutineOK, None
  <2> QED BY <1>1, <1>3, <2>1, <2>2 DEF OEInv, GoroutineOK, Threads
<1> QED BY <1>2, <1>3, Zenon

\* A step extends what the thread has written, on a state that is its own.
LEMMA ExecuteStepInv ==
    ASSUME OEInv, NEW t \in Threads, ExecuteStep(t)
    PROVE  OEInv'
<1> DEFINE req == exec[t].request
           n == exec[t].step
           base == BE!Base(cms.store, req.height)
<1>1. /\ \A u \in Threads : Running(u) => u = t
      /\ req.height = cms.height + 1 /\ req.block \in Blocks
      /\ t # Main => oe.initialized /\ ~oe.stopped /\ oe.request = req
      /\ t = Main => call.op = "FinalizeBlock"
  BY OneThread DEF ExecuteStep
<1>2. base \in Writes /\ n \in Nat
  <2>1. <<BE!Genesis>> \in Writes
    BY DEF Writes, BE!Genesis
  <2> QED BY <2>1 DEF OEInv, TypeOK, BE!Base
<1>4. /\ base \o BE!Writes(req.block, n + 1) \in Writes
      /\ Append(base \o BE!Writes(req.block, n), <<req.block, n + 1>>)
             = base \o BE!Writes(req.block, n + 1)
      /\ base \o BE!Writes(req.block, 0) = base
  <2>1. n \in Nat /\ n + 1 \in Nat
    BY <1>2
  <2> HIDE DEF req, n, base
  <2> QED BY ZenonT(30), <1>1, <1>2, <2>1, WritesExtend
<1>5. ThreadOK(t)
  BY DEF OEInv
<1>6. finalizeBlockState' = State(base \o BE!Writes(req.block, n + 1))
  <2>1. CASE n = 0
    BY ZenonT(30), <2>1, <1>4, <1>5 DEF ExecuteStep, ThreadOK, Branch
  <2>2. CASE n # 0
    <3>1. Executed(req, n)
      BY <2>2, <1>2, <1>5 DEF ExecuteStep, ThreadOK
    <3> QED BY ZenonT(30), <3>1, <1>4 DEF ExecuteStep, Executed, State
  <2> QED BY <2>1, <2>2, Zenon
<1>7. ~CheckHalt(req.height)
  BY <1>1, <1>2, <1>5 DEF ExecuteStep, ThreadOK, Refused
<1>8. TypeOK'
  <2>1. finalizeBlockState' \in [set : BOOLEAN, state : Writes]
    BY ZenonT(30), <1>4, <1>6 DEF State
  <2>2. exec' \in [Threads -> [request : Requests, step : Nat, result : Results,
                              cancelled : BOOLEAN]]
    <3>1. PICK r \in Results :
              exec' = [exec EXCEPT ![t].step = n + 1, ![t].result = r]
      BY ZenonT(30) DEF ExecuteStep, Results
    <3>2. exec[t] \in [request : Requests, step : Nat, result : Results,
                       cancelled : BOOLEAN]
      BY DEF OEInv, TypeOK
    <3>3. [exec[t] EXCEPT !.step = n + 1, !.result = r]
              \in [request : Requests, step : Nat, result : Results, cancelled : BOOLEAN]
      BY <3>1, <3>2, StepType, Zenon
    <3>4. exec' = [exec EXCEPT ![t] = [exec[t] EXCEPT !.step = n + 1, !.result = r]]
      BY ZenonT(30), <3>1, <3>2 DEF OEInv, TypeOK
    <3> QED BY <3>3, <3>4 DEF OEInv, TypeOK
  <2> QED BY SMTT(30), <2>1, <2>2 DEF OEInv, TypeOK, ExecuteStep
<1>9. CallOK'
  BY DEF OEInv, CallOK, ExecuteStep, Deciding, Initialised
<1>10. StructOK'
  BY DEF OEInv, StructOK, ExecuteStep, Request
<1>11. \A g \in Goroutines : GoroutineOK(g)'
  BY DEF OEInv, TypeOK, GoroutineOK, Running, ExecuteStep, Threads
<1>12. MainOK'
  BY DEF OEInv, TypeOK, MainOK, Running, Request, ExecuteStep, Threads
<1>13. ASSUME NEW u \in Threads PROVE ThreadOK(u)'
  <2>1. CASE u = t
    <3>1. /\ exec'[t].request = req /\ exec'[t].step = n + 1
          /\ exec'[t].cancelled = exec[t].cancelled
          /\ exec'[t].result = IF \/ n + 1 = BE!Steps(req.block) /\ req.block \in Failing
                                  \/ exec[t].cancelled
                               THEN "error"
                               ELSE IF n + 1 = BE!Steps(req.block) THEN "ok" ELSE None
      BY DEF OEInv, TypeOK, ExecuteStep
    <3>2. n < BE!Steps(req.block) /\ BE!Steps(req.block) \in Nat
      BY <1>1, <1>5, BlocksAssumption DEF ExecuteStep, ThreadOK, BE!Steps
    <3>3. cms' = cms
      BY DEF ExecuteStep
    <3>4. Executed(exec[t].request, exec[t].step)'
      BY <1>6, <3>1, <3>3 DEF Executed
    <3>5. ~CheckHalt(exec'[t].request.height) /\ exec'[t].step # 0
      BY <1>2, <1>7, <3>1
    <3> QED
      BY <2>1, <1>2, <1>7, <3>1, <3>2, <3>4, <3>5 DEF ThreadOK, Fails, None, CheckHalt
  <2>2. CASE u # t
    BY <2>2, <1>1 DEF OEInv, TypeOK, ThreadOK, Running, ExecuteStep
  <2> QED BY <2>1, <2>2, Zenon
<1>14. ReadyOK'
  BY <1>1 DEF ReadyOK, ExecuteStep, None
<1>15. FreshOK'
  BY <1>1 DEF OEInv, StructOK, FreshOK, ExecuteStep, None
<1> QED BY <1>8, <1>9, <1>10, <1>11, <1>12, <1>13, <1>14, <1>15, Zenon DEF OEInv

\* What the goroutine publishes is the result of its execution, unless that
\* was cancelled.
LEMMA PublishInv ==
    ASSUME OEInv, NEW g \in Goroutines, Publish(g)
    PROVE  OEInv'
<1>1. /\ g \in Threads /\ g # Main
      /\ \A u \in Threads : Running(u) => u = g
      /\ exec[g].request.height = cms.height + 1
      /\ oe.initialized /\ ~oe.stopped /\ oe.request = exec[g].request
  BY OneThread DEF Publish, Goroutines, Threads, Main
<1>2. TypeOK'
  <2>1. Idle \in Executions
    BY DEF Idle, Executions, Requests, Results
  <2>2. exec' \in [Threads -> Executions]
    BY ZenonT(30), <2>1 DEF OEInv, TypeOK, Publish, Executions
  <2>3. exec[g].result \in Results
    BY <1>1 DEF OEInv, TypeOK
  <2> QED BY ZenonT(30), <2>2, <2>3 DEF OEInv, TypeOK, Publish, Executions
<1>3. CallOK'
  BY DEF OEInv, CallOK, Publish, Deciding, Initialised
<1>4. StructOK'
  BY DEF OEInv, TypeOK, StructOK, Publish, Request
<1>5. \A u \in Threads : ~Running(u)'
  BY <1>1 DEF OEInv, TypeOK, Running, Publish, Idle
<1>6. \A u \in Goroutines : GoroutineOK(u)'
  BY <1>5 DEF GoroutineOK, Threads
<1>7. MainOK'
  <2>1. ~Running(Main) /\ Main \in Threads
    BY <1>1 DEF Threads
  <2> QED BY <2>1, <1>5 DEF OEInv, MainOK, Publish
<1>8. \A u \in Threads : ThreadOK(u)'
  BY <1>5 DEF ThreadOK
<1>9. ReadyOK'
  <2> SUFFICES ASSUME call.op = None \/ (call.op = "WaitResult" /\ ~call.aborted)
               PROVE  \/ /\ oe'.result = "ok" /\ ~Fails(oe'.request)
                         /\ Executed(oe.request, BE!Steps(oe.request.block))'
                      \/ oe'.result = "error" /\ Fails(oe'.request)
    BY DEF ReadyOK, Publish, Fails, CheckHalt
  <2>1. Running(g) /\ ThreadOK(g) /\ ~exec[g].cancelled /\ exec[g].result \in Results
    BY <1>1 DEF OEInv, TypeOK, GoroutineOK, Publish, None
  <2>2. oe'.request = exec[g].request /\ oe'.result = exec[g].result
    BY <1>1 DEF OEInv, TypeOK, Publish
  <2>3. exec[g].result # None /\ cms' = cms /\ finalizeBlockState' = finalizeBlockState
    BY DEF Publish
  <2>4. exec[g].request.block \in Blocks
    BY <2>1 DEF OEInv, TypeOK, Requests, Running, Threads, Executions
  <2>5. BE!Steps(exec[g].request.block) > 0
    BY <2>4, BlocksAssumption DEF BE!Steps
  <2> QED BY <2>1, <2>2, <2>3, <2>5 DEF ThreadOK, Results, Executed
<1>10. FreshOK'
  BY <1>1 DEF OEInv, TypeOK, FreshOK, Publish
<1> QED BY <1>2, <1>3, <1>4, <1>6, <1>7, <1>8, <1>9, <1>10, Zenon DEF OEInv

\* Cancelling the struct's goroutine changes nothing but that it is cancelled.
LEMMA Cancelling ==
    ASSUME OEInv, oe.current \in Goroutines, Cancel
    PROVE  /\ exec' \in [Threads -> Executions]
           /\ \A t \in Threads :
                 /\ exec'[t].request = exec[t].request
                 /\ exec'[t].step = exec[t].step
                 /\ exec'[t].result = exec[t].result
                 /\ t # oe.current => exec'[t] = exec[t]
           /\ exec'[oe.current].cancelled = Running(oe.current)
<1> DEFINE c == Running(oe.current)
<1>1. c \in BOOLEAN
  BY DEF Running
<1>2. exec' = [exec EXCEPT ![oe.current].cancelled = c]
  BY DEF Cancel
<1>3. exec \in [Threads -> Executions] /\ oe.current \in Threads
  BY DEF OEInv, TypeOK, Executions
<1> HIDE DEF c
<1>4. exec' \in [Threads -> Executions]
  BY <1>1, <1>2, <1>3 DEF Executions
<1>5. \A t \in Threads :
          /\ exec'[t].request = exec[t].request
          /\ exec'[t].step = exec[t].step
          /\ exec'[t].result = exec[t].result
          /\ t # oe.current => exec'[t] = exec[t]
  BY <1>2, <1>3 DEF Executions
<1>6. exec'[oe.current].cancelled = c
  BY <1>2, <1>3 DEF Executions
<1> QED BY <1>4, <1>5, <1>6 DEF c

\* A proposal cancels the goroutine of the proposal before it.
LEMMA ProcessProposalInv ==
    ASSUME OEInv, NEW b \in Blocks, ProcessProposal(b)
    PROVE  OEInv'
<1>1. /\ exec' \in [Threads -> Executions]
      /\ \A t \in Threads :
             /\ exec'[t].request = exec[t].request
             /\ exec'[t].step = exec[t].step
             /\ exec'[t].result = exec[t].result
             /\ Running(t) /\ exec[t].cancelled => exec'[t].cancelled
      /\ exec'[Main] = exec[Main]
  <2>1. CASE cms.height + 1 > initialHeight /\ oe.current # Main
    <3>1. oe.current \in Goroutines /\ Cancel /\ Main # oe.current /\ Main \in Threads
      BY <2>1 DEF ProcessProposal, OEInv, TypeOK, Threads
    <3>2. ASSUME NEW t \in Threads, Running(t), exec[t].cancelled PROVE exec'[t].cancelled
      <4>1. CASE t # oe.current
        BY <3>1, <3>2, <4>1, Cancelling
      <4>2. CASE t = oe.current
        BY <3>1, <3>2, <4>2, Cancelling
      <4> QED BY <4>1, <4>2, Zenon
    <3> QED BY <3>1, <3>2, Cancelling
  <2>2. CASE ~(cms.height + 1 > initialHeight /\ oe.current # Main)
    BY <2>2 DEF ProcessProposal, OEInv, TypeOK, Executions
  <2> QED BY <2>1, <2>2, Zenon
<1>2. TypeOK'
  <2>1. call' \in [op : {None, "ProcessProposal", "WaitResult", "FinalizeBlock", "answered"},
                   block : Blocks \cup {None}, aborted : BOOLEAN, result : Results]
    BY ZenonT(30) DEF ProcessProposal, Call, NoCall, Results
  <2>2. round' \in 0 .. MaxRounds
    BY BlocksAssumption DEF OEInv, TypeOK, ProcessProposal
  <2> QED BY <1>1, <2>1, <2>2 DEF OEInv, TypeOK, ProcessProposal, Executions
<1>3. CallOK'
  BY DEF OEInv, TypeOK, CallOK, ProcessProposal, Up, Call, NoCall, Deciding, Initialised, None
<1>4. StructOK'
  BY DEF OEInv, StructOK, ProcessProposal, Call, NoCall
<1>5. \A g \in Goroutines : GoroutineOK(g)'
  BY <1>1 DEF OEInv, GoroutineOK, Running, ProcessProposal, Call, NoCall, Threads
<1>6. MainOK'
  BY <1>1 DEF OEInv, MainOK, Running, ProcessProposal, Up, Call, NoCall, None
<1>7. \A t \in Threads : ThreadOK(t)'
  BY SMTT(60), <1>1 DEF OEInv, ThreadOK, Running, Branch, Executed, ProcessProposal
<1>8. ReadyOK'
  BY DEF ReadyOK, ProcessProposal, Call, NoCall, None
<1>9. FreshOK'
  BY DEF OEInv, FreshOK, Branch, Initialised, ProcessProposal, Up, NoCall
<1> QED BY <1>2, <1>3, <1>4, <1>5, <1>6, <1>7, <1>8, <1>9, Zenon DEF OEInv

\* At the height of the first block nothing is executed optimistically; at
\* every other the execution of a proposal starts on the committed state.
LEMMA ProposalVerdictInv ==
    ASSUME OEInv, NEW accept \in BOOLEAN, ProposalVerdict(accept)
    PROVE  OEInv'
<1> DEFINE req == Request(call.block)
           optimistic == req.height > initialHeight
<1>1. /\ call.op = "ProcessProposal" /\ round \in Goroutines
      /\ call.block \in Blocks /\ Initialised /\ Deciding
      /\ cms.working = cms.store /\ cms.height \in Nat /\ initialHeight \in {0, 1}
  BY DEF OEInv, TypeOK, CallOK, ProposalVerdict, Goroutines
<1>2. req.height = cms.height + 1 /\ req.block = call.block /\ req \in Requests
      /\ req # NoRequest
  BY <1>1 DEF Request, Requests, NoRequest
<1>3. optimistic <=> cms.height > 0
  BY <1>1, <1>2 DEF Initialised
<1>4. \A u \in Threads : ~Running(u)
  <2>1. ~Running(Main)
    BY <1>1 DEF OEInv, MainOK
  <2>2. ASSUME NEW g \in Goroutines, Running(g) PROVE FALSE
    <3>1. oe.current = g /\ oe.initialized /\ ~oe.stopped /\ oe.request.height > 1
          /\ oe.request.height = cms.height + 1
      BY <2>2 DEF OEInv, GoroutineOK, StructOK
    <3>2. g # Main
      BY DEF Goroutines, Main
    <3> QED BY <3>1, <3>2, <1>1, <1>3 DEF ProposalVerdict, AbortReturns
  <2> QED BY <2>1, <2>2 DEF Threads
<1>5. cms' = cms /\ call' = NoCall /\ decided' = decided /\ initialHeight' = initialHeight
      /\ round' = round /\ crashes' = crashes
  BY DEF ProposalVerdict
<1>6. CallOK'
  BY <1>1, <1>5 DEF OEInv, CallOK, NoCall, None
<1>7. Branch' = BE!Base(cms'.store, cms'.height + 1)
  <2>1. CASE optimistic
    BY <2>1, <1>1, <1>3, <1>5 DEF ProposalVerdict, Branch, State, BE!Base
  <2>2. CASE ~optimistic
    <3>1. ~oe.initialized
      BY <2>2, <1>1, <1>3 DEF OEInv, TypeOK, StructOK, Requests, NoRequest
    <3> QED BY <2>2, <3>1, <1>1, <1>5 DEF ProposalVerdict, OEInv, FreshOK, Branch
  <2> QED BY <2>1, <2>2, Zenon
<1>8. finalizeBlockState' \in [set : BOOLEAN, state : Writes]
  BY <1>1 DEF ProposalVerdict, State, OEInv, TypeOK
<1>9. NoCall \in [op : {None, "ProcessProposal", "WaitResult", "FinalizeBlock", "answered"},
                  block : Blocks \cup {None}, aborted : BOOLEAN, result : Results]
  BY DEF NoCall, Results
<1>10. CASE accept /\ optimistic
  <2>1. /\ oe' = [oe EXCEPT !.request = req, !.initialized = TRUE,
                           !.current = round, !.stopped = FALSE]
        /\ exec' = [exec EXCEPT ![round] = Start(req)]
    BY <1>10 DEF ProposalVerdict, Execute
  <2>2. Start(req) \in Executions /\ round \in Threads /\ round # Main
    <3>1. Start(req) \in Executions
      BY <1>2, StartType
    <3> QED BY <3>1, <1>1 DEF Threads, Goroutines, Main
  <2>3. TypeOK'
    <3>1. exec' \in [Threads -> Executions]
      BY <2>1, <2>2 DEF OEInv, TypeOK, Executions
    <3>2. /\ oe' \in [initialized : BOOLEAN, request : Requests, result : Results,
                      current : Threads, stopped : BOOLEAN]
          /\ oe'.initialized /\ oe'.request # NoRequest
      BY ZenonT(30), <2>1, <2>2, <1>2 DEF OEInv, TypeOK
    <3> QED BY <3>1, <3>2, <1>5, <1>8, <1>9 DEF OEInv, TypeOK, Executions
  <2>4. /\ oe'.initialized /\ oe'.current = round /\ ~oe'.stopped /\ oe'.request = req
        /\ exec'[round] = Start(req)
        /\ \A u \in Threads : u # round => ~Running(u)'
    BY <2>1, <2>2, <1>4 DEF OEInv, TypeOK, Running
  <2>5. StructOK'
    BY <2>4, <1>1, <1>2, <1>3, <1>5, <1>10 DEF StructOK, NoCall, None
  <2>6. \A g \in Goroutines : GoroutineOK(g)'
    BY <2>4, <1>2, <1>5, StartType DEF GoroutineOK, NoCall, Threads
  <2>7. MainOK'
    BY <2>2, <2>4, <1>5 DEF MainOK, NoCall, None, Threads
  <2>8. \A u \in Threads : ThreadOK(u)'
    <3>1. BE!Steps(req.block) > 0
      BY SMTT(30), <1>1, <1>2, BlocksAssumption DEF BE!Steps
    <3>2. ThreadOK(round)'
      <4>1. exec'[round].request = req /\ exec'[round].step = 0 /\ exec'[round].result = None
        BY SMTT(30), <2>4, <1>2, StartType
      <4> QED BY <4>1, <3>1, <1>2, <1>5, <1>7 DEF ThreadOK, None
    <3>3. ASSUME NEW u \in Threads, u # round PROVE ThreadOK(u)'
      BY <3>3, <2>4 DEF ThreadOK
    <3> QED BY <3>2, <3>3, <1>5, Zenon
  <2>9. ReadyOK'
    BY <2>4 DEF ReadyOK
  <2>10. FreshOK'
    BY <1>7 DEF FreshOK
  <2> QED BY <2>3, <1>6, <2>5, <2>6, <2>7, <2>8, <2>9, <2>10, Zenon DEF OEInv
<1>11. CASE ~(accept /\ optimistic)
  <2>1. oe' = oe /\ exec' = exec
    BY <1>11 DEF ProposalVerdict
  <2>2. TypeOK'
    BY <2>1, <1>5, <1>8, <1>9 DEF OEInv, TypeOK
  <2>3. StructOK'
    BY <2>1, <1>5 DEF OEInv, StructOK, NoCall, None
  <2>4. \A u \in Threads : ~Running(u)'
    BY <2>1, <1>4 DEF Running
  <2>5. \A g \in Goroutines : GoroutineOK(g)'
    BY <2>4 DEF GoroutineOK, Threads
  <2>6. MainOK'
    BY <2>4, <1>5 DEF MainOK, NoCall, None, Threads
  <2>7. \A u \in Threads : ThreadOK(u)'
    BY <2>4 DEF ThreadOK
  <2>8. ReadyOK'
    <3>1. ~RejectsAfterAccept /\ oe.initialized => oe.request.height # cms.height + 1
      <4>1. CASE optimistic
        BY <4>1, <1>2, <1>11 DEF ProposalVerdict
      <4>2. CASE ~optimistic
        BY <4>2, <1>1, <1>3 DEF OEInv, StructOK
      <4> QED BY <4>1, <4>2, Zenon
    <3> QED BY <3>1, <2>1, <1>5 DEF ReadyOK
  <2>9. FreshOK'
    BY <1>7 DEF FreshOK
  <2> QED BY <2>2, <1>6, <2>3, <2>5, <2>6, <2>7, <2>8, <2>9, Zenon DEF OEInv
<1> QED BY <1>10, <1>11, Zenon


\* Main starts to execute the decided block, with no other thread running.
LEMMA MainStarts ==
    ASSUME OEInv, \A u \in Threads : ~Running(u),
           NEW b, b = decided[cms.height + 1], b \in Blocks, ~Deciding,
           cms' = cms, decided' = decided, round' = round, crashes' = crashes,
           initialHeight' = initialHeight, cms.working = cms.store,
           exec' = [exec EXCEPT ![Main] = Start(Request(b))],
           call' = Call("FinalizeBlock", b),
           oe' \in {oe, Reset},
           finalizeBlockState' \in {finalizeBlockState, NoState},
           Branch' = BE!Base(cms.store, cms.height + 1)
    PROVE  OEInv'
<1> DEFINE req == Request(b)
<1>1. req.height = cms.height + 1 /\ req.block = b /\ req \in Requests /\ req # NoRequest
  BY SMTT(60) DEF Request, Requests, NoRequest, OEInv, TypeOK
<1>2. /\ call'.op = "FinalizeBlock" /\ call'.block = b /\ call'.result = None
      /\ call' \in [op : {None, "ProcessProposal", "WaitResult", "FinalizeBlock", "answered"},
                    block : Blocks \cup {None}, aborted : BOOLEAN, result : Results]
  BY ZenonT(30) DEF Call, NoCall, Results
<1>3. /\ Start(req).request = req /\ Start(req).step = 0 /\ Start(req).result = None
      /\ ~Start(req).cancelled
  BY <1>1, StartType, Zenon
<1>4. Start(req) \in Executions /\ Main \in Threads
  BY <1>1, StartType, Zenon DEF Threads
<1>5. /\ exec' \in [Threads -> Executions] /\ exec'[Main] = Start(req)
      /\ \A u \in Threads : u # Main => ~Running(u)'
  BY <1>4 DEF OEInv, TypeOK, Executions, Running
<1>6. /\ oe' \in [initialized : BOOLEAN, request : Requests, result : Results,
                  current : Threads, stopped : BOOLEAN]
      /\ oe'.initialized <=> oe'.request # NoRequest
      /\ oe'.initialized => oe' = oe
  <2>1. CASE oe' = oe
    BY <2>1 DEF OEInv, TypeOK
  <2>2. CASE oe' = Reset
    BY ZenonT(30), <2>2 DEF OEInv, TypeOK, Reset, Requests, Results
  <2> QED BY <2>1, <2>2, Zenon
<1>7. TypeOK'
  <2>1. finalizeBlockState' \in [set : BOOLEAN, state : Writes]
    <3>1. finalizeBlockState \in [set : BOOLEAN, state : Writes]
      BY DEF OEInv, TypeOK
    <3>2. NoState \in [set : BOOLEAN, state : Writes]
      <4>1. <<>> \in Writes
        BY DEF Writes
      <4> QED BY <4>1, Zenon DEF NoState
    <3> QED BY <3>1, <3>2, Zenon
  <2> QED BY <2>1, <1>2, <1>5, <1>6 DEF OEInv, TypeOK, Executions
<1>8. CallOK'
  BY <1>2 DEF OEInv, CallOK, Deciding, None
<1>9. StructOK'
  BY <1>2, <1>6, Zenon DEF OEInv, StructOK
<1>10. \A g \in Goroutines : GoroutineOK(g)'
  BY <1>5 DEF GoroutineOK, Goroutines, Threads, Main
<1>11. MainOK'
  BY <1>1, <1>2, <1>3, <1>5, Zenon DEF MainOK, Running, Request
<1>12. \A u \in Threads : ThreadOK(u)'
  <2>1. BE!Steps(b) > 0
    BY BlocksAssumption DEF BE!Steps
  <2>2. exec'[Main].request = req /\ exec'[Main].step = 0 /\ exec'[Main].result = None
    BY <1>3, <1>5
  <2>3. ThreadOK(Main)'
    <3>1. Branch' = BE!Base(cms'.store, exec'[Main].request.height)
      BY <2>2, <1>1
    <3>2. 0 < BE!Steps(exec'[Main].request.block)
      BY <2>1, <2>2, <1>1
    <3>3. ~(exec'[Main].step > 0) /\ exec'[Main].result \notin {"ok", "error"}
      BY <2>2 DEF None
    <3> QED BY <2>2, <3>1, <3>2, <3>3, Zenon DEF ThreadOK
  <2>4. ASSUME NEW u \in Threads, u # Main PROVE ThreadOK(u)'
    BY <2>4, <1>5, Zenon DEF ThreadOK
  <2> QED BY <2>3, <2>4, Zenon
<1>13. ReadyOK'
  BY <1>2 DEF ReadyOK, None
<1>14. FreshOK'
  BY <1>2 DEF FreshOK, None
<1> QED BY <1>7, <1>8, <1>9, <1>10, <1>11, <1>12, <1>13, <1>14, Zenon DEF OEInv

\* FinalizeBlock waits for the goroutine there may be, or executes the block
\* on the base of its height.
LEMMA FinalizeBlockInv ==
    ASSUME OEInv, FinalizeBlock
    PROVE  OEInv'
<1> DEFINE req == Request(decided[cms.height + 1])
<1>1. /\ call = NoCall /\ Initialised /\ ~Deciding /\ Len(decided) = cms.height + 1
      /\ cms.height \in Nat /\ decided[cms.height + 1] \in Blocks
  BY DEF OEInv, TypeOK, CallOK, FinalizeBlock, Up, Deciding
<1>2. req.height = cms.height + 1 /\ req.block = decided[cms.height + 1]
      /\ req \in Requests /\ req # NoRequest
  BY <1>1 DEF Request, Requests, NoRequest
<1>3. cms' = cms /\ decided' = decided /\ oe' = oe /\ round' = round
      /\ crashes' = crashes /\ initialHeight' = initialHeight
      /\ finalizeBlockState' = finalizeBlockState
  BY DEF FinalizeBlock
<1>4. CASE oe.initialized
  <2>1. /\ call'.op = "WaitResult" /\ call'.block = req.block /\ call'.result = None
        /\ call'.aborted = AbortIfNeeded(req)
        /\ call' \in [op : {None, "ProcessProposal", "WaitResult", "FinalizeBlock", "answered"},
                      block : Blocks \cup {None}, aborted : BOOLEAN, result : Results]
    BY ZenonT(30), <1>1, <1>2, <1>4 DEF FinalizeBlock, Call, NoCall, AbortIfNeeded, Results
  <2>2. /\ exec' \in [Threads -> Executions]
        /\ \A t \in Threads :
               /\ exec'[t].request = exec[t].request
               /\ exec'[t].step = exec[t].step
               /\ exec'[t].result = exec[t].result
               /\ Running(t) /\ exec[t].cancelled => exec'[t].cancelled
               /\ ~AbortIfNeeded(req) => exec'[t] = exec[t]
    <3>1. CASE AbortIfNeeded(req)
      <4>1. oe.current \in Goroutines /\ Cancel
        BY <1>4, <3>1 DEF FinalizeBlock, OEInv, StructOK
      <4>2. ASSUME NEW t \in Threads, Running(t), exec[t].cancelled PROVE exec'[t].cancelled
        <5>1. CASE t # oe.current
          BY <4>1, <4>2, <5>1, Cancelling
        <5>2. CASE t = oe.current
          BY <4>1, <4>2, <5>2, Cancelling
        <5> QED BY <5>1, <5>2, Zenon
      <4> QED BY <3>1, <4>1, <4>2, Cancelling
    <3>2. CASE ~AbortIfNeeded(req)
      BY <1>4, <3>2 DEF FinalizeBlock, OEInv, TypeOK, Executions
    <3> QED BY <3>1, <3>2, Zenon
  <2>3. TypeOK'
    BY <2>1, <2>2, <1>3 DEF OEInv, TypeOK, Executions
  <2>4. CallOK'
    BY <2>1, <1>1, <1>2, <1>3 DEF OEInv, CallOK, Deciding, NoCall, None
  <2>5. StructOK'
    BY <2>1, <1>2, <1>3, <1>4 DEF OEInv, StructOK, AbortIfNeeded, Request
  <2>6. ASSUME NEW g \in Goroutines PROVE GoroutineOK(g)'
    <3>1. g \in Threads /\ GoroutineOK(g)
      BY DEF OEInv, Threads
    <3>2. Running(g)' <=> Running(g)
      BY <2>2, <3>1 DEF Running
    <3>3. CASE AbortIfNeeded(req)
      BY <3>1, <3>2, <3>3, <2>1, <2>2, <1>3 DEF GoroutineOK
    <3>4. CASE ~AbortIfNeeded(req)
      BY <3>1, <3>2, <3>4, <2>1, <2>2, <1>1, <1>3, Zenon DEF GoroutineOK, NoCall, None
    <3> QED BY <3>3, <3>4, Zenon
  <2>7. MainOK'
    <3>1. Main \in Threads /\ ~Running(Main)
      BY <1>1 DEF Threads, OEInv, MainOK, NoCall, None
    <3> QED BY <3>1, <2>1, <2>2 DEF MainOK, Running
  <2>8. \A t \in Threads : ThreadOK(t)'
    <3> SUFFICES ASSUME NEW t \in Threads PROVE ThreadOK(t)'
      OBVIOUS
    <3>1. ThreadOK(t) /\ (Running(t)' <=> Running(t))
      BY <2>2 DEF OEInv, Running
    <3>2. Branch' = Branch
      BY <1>3 DEF Branch
    <3>3. \A r, n : Executed(r, n) => Executed(r, n)'
      BY <1>3, Zenon DEF Executed
    <3> QED BY ZenonT(30), <2>2, <1>3, <3>1, <3>2, <3>3 DEF ThreadOK, Fails
  <2>9. ReadyOK'
    BY <1>1, <1>3 DEF OEInv, ReadyOK, Executed, NoCall
  <2>10. FreshOK'
    BY <2>1 DEF FreshOK, None
  <2> QED BY <2>3, <2>4, <2>5, <2>6, <2>7, <2>8, <2>9, <2>10, Zenon DEF OEInv
<1>5. CASE ~oe.initialized
  <2>1. /\ call' = Call("FinalizeBlock", decided[cms.height + 1])
        /\ exec' = [exec EXCEPT ![Main] = Start(req)]
        /\ cms.working = cms.store
    BY <1>1, <1>2, <1>5 DEF FinalizeBlock, OEInv, CallOK, NoCall, None
  <2>2. \A u \in Threads : ~Running(u)
    BY <1>1, <1>5 DEF OEInv, MainOK, GoroutineOK, NoCall, None, Threads
  <2>3. Branch' = BE!Base(cms.store, cms.height + 1)
    BY <1>1, <1>3, <1>5, Zenon DEF OEInv, FreshOK, NoCall, Branch
  <2> QED BY ZenonT(30), <2>1, <2>2, <2>3, <1>1, <1>2, <1>3, MainStarts
<1> QED BY <1>4, <1>5, Zenon

\* An aborted execution is never the first block's, so that Main starts again
\* on the committed state.
LEMMA RunAgainInv ==
    ASSUME OEInv, RunAgain
    PROVE  OEInv'
<1>1. /\ ~Deciding /\ call.block = decided[cms.height + 1] /\ cms.working = cms.store
      /\ call.block \in Blocks /\ cms.height \in Nat
  BY DEF OEInv, TypeOK, CallOK, RunAgain, Deciding
<1>2. oe.initialized /\ cms.height > 0
  BY <1>1 DEF OEInv, StructOK, RunAgain, TypeOK, Requests, NoRequest
<1>3. \A u \in Threads : ~Running(u)
  BY DEF OEInv, MainOK, GoroutineOK, RunAgain, Threads
<1>4. Branch' = BE!Base(cms.store, cms.height + 1)
  BY <1>1, <1>2 DEF Branch, NoState, BE!Base, RunAgain
<1>5. /\ exec' = [exec EXCEPT ![Main] = Start(Request(call.block))]
      /\ call' = Call("FinalizeBlock", call.block)
      /\ oe' \in {oe, Reset} /\ finalizeBlockState' \in {finalizeBlockState, NoState}
      /\ cms' = cms /\ decided' = decided /\ round' = round /\ crashes' = crashes
      /\ initialHeight' = initialHeight
  BY DEF RunAgain
<1> QED BY ZenonT(30), <1>1, <1>3, <1>4, <1>5, MainStarts

\* With the answer the threads are done with the block.
LEMMA Answered ==
    ASSUME OEInv, NEW res \in Results, Answer(res), \A u \in Threads : ~Running(u)',
           call.op \in {"WaitResult", "FinalizeBlock"},
           res = "ok" => finalizeBlockState.state \in Writes,
           exec' \in [Threads -> Executions],
           UNCHANGED <<decided, round, crashes, initialHeight, finalizeBlockState, oe>>
    PROVE  OEInv'
<1>1. /\ cms' \in [height : Nat, store : Writes, working : Writes]
      /\ cms'.height = cms.height /\ cms'.store = cms.store
  BY ZenonT(30) DEF OEInv, TypeOK, Answer
<1>2. /\ call' \in [op : {None, "ProcessProposal", "WaitResult", "FinalizeBlock", "answered"},
                    block : Blocks \cup {None}, aborted : BOOLEAN, result : Results]
      /\ call'.op = "answered" /\ call'.block = call.block
  BY ZenonT(30) DEF OEInv, TypeOK, Answer
<1>3. TypeOK'
  BY <1>1, <1>2 DEF OEInv, TypeOK, Executions
<1>4. CallOK'
  BY <1>1, <1>2 DEF OEInv, CallOK, Deciding, None
<1>5. StructOK'
  BY <1>1, <1>2 DEF OEInv, StructOK
<1>6. \A g \in Goroutines : GoroutineOK(g)'
  BY DEF GoroutineOK, Threads
<1>7. MainOK'
  BY <1>2 DEF MainOK, Threads
<1>8. \A u \in Threads : ThreadOK(u)'
  BY DEF ThreadOK
<1>9. ReadyOK'
  BY <1>2, Zenon DEF ReadyOK, None
<1>10. FreshOK'
  BY <1>2 DEF FreshOK, None
<1> QED BY <1>3, <1>4, <1>5, <1>6, <1>7, <1>8, <1>9, <1>10, Zenon DEF OEInv

\* FinalizeBlock takes the goroutine's result when that has finished.
LEMMA TakeResultInv ==
    ASSUME OEInv, TakeResult
    PROVE  OEInv'
<1>1. \A u \in Threads : ~Running(u)
  BY DEF OEInv, MainOK, GoroutineOK, TakeResult, Threads
<1>2. \A u \in Threads : ~Running(u)'
  BY <1>1 DEF TakeResult, Running
<1>3. oe.result \in Results /\ finalizeBlockState.state \in Writes
      /\ exec' \in [Threads -> Executions]
  BY DEF OEInv, TypeOK, Executions, TakeResult
<1> QED BY <1>2, <1>3, Answered DEF TakeResult

\* FinalizeBlock returns what internalFinalizeBlock returned.
LEMMA FinishBlockInv ==
    ASSUME OEInv, FinishBlock
    PROVE  OEInv'
<1>1. Main \in Threads /\ Running(Main)
  BY DEF OEInv, MainOK, FinishBlock, Threads
<1>2. \A u \in Threads : Running(u) => u = Main
  BY <1>1, OneThread
<1>3. Idle \in Executions
  BY DEF Idle, Executions, Requests, Results
<1>4. exec' \in [Threads -> Executions] /\ \A u \in Threads : ~Running(u)'
  BY <1>1, <1>2, <1>3 DEF OEInv, TypeOK, Executions, FinishBlock, Running, Idle
<1>5. exec[Main].result \in Results /\ finalizeBlockState.state \in Writes
  BY <1>1 DEF OEInv, TypeOK
<1> QED BY <1>4, <1>5, Answered DEF FinishBlock

\* Commit leaves no thread and no branch behind.
LEMMA CommitInv ==
    ASSUME OEInv, Commit
    PROVE  OEInv'
<1>1. \A u \in Threads : ~Running(u)
  BY DEF OEInv, MainOK, GoroutineOK, Commit, Threads, None
<1>2. \A u \in Threads : ~Running(u)'
  BY <1>1 DEF Commit, Running
<1>3. /\ cms' \in [height : Nat, store : Writes, working : Writes]
      /\ cms'.height = cms.height + 1 /\ cms'.store = cms.working /\ cms'.working = cms.working
      /\ cms.height \in Nat
  <2>1. PICK h \in Nat : h = cms.height + 1
    BY DEF OEInv, TypeOK
  <2>2. cms' = [cms EXCEPT !.height = h, !.store = cms.working]
    BY <2>1 DEF Commit
  <2> QED BY ZenonT(30), <2>1, <2>2 DEF OEInv, TypeOK
<1>4. NoState \in [set : BOOLEAN, state : Writes]
  BY SMTT(30) DEF NoState, Writes
<1>5. NoCall \in [op : {None, "ProcessProposal", "WaitResult", "FinalizeBlock", "answered"},
                  block : Blocks \cup {None}, aborted : BOOLEAN, result : Results]
  BY DEF NoCall, Results
<1>6. TypeOK'
  <2>1. 0 \in 0 .. MaxRounds
    BY BlocksAssumption
  <2> QED BY <2>1, <1>3, <1>4, <1>5 DEF OEInv, TypeOK, Commit
<1>7. CallOK'
  BY <1>3 DEF OEInv, TypeOK, CallOK, Commit, Deciding, NoCall, None
<1>8. StructOK'
  BY <1>3 DEF OEInv, TypeOK, StructOK, Commit, NoCall, None, Requests
<1>9. \A g \in Goroutines : GoroutineOK(g)'
  BY <1>2 DEF GoroutineOK, Threads
<1>10. MainOK'
  BY <1>2 DEF MainOK, Threads, Commit, NoCall, None
<1>11. \A u \in Threads : ThreadOK(u)'
  BY <1>2 DEF ThreadOK
<1>12. ReadyOK'
  BY <1>3 DEF OEInv, TypeOK, StructOK, ReadyOK, Commit, Requests, NoRequest
<1>13. FreshOK'
  BY <1>3 DEF FreshOK, Branch, Commit, NoState, BE!Base
<1> QED BY <1>6, <1>7, <1>8, <1>9, <1>10, <1>11, <1>12, <1>13, Zenon DEF OEInv

\* A restart finds the committed state, and waits for InitChain without one.
LEMMA CrashInv ==
    ASSUME OEInv, Crash
    PROVE  OEInv'
<1>1. \A u \in Threads : ~Running(u)'
  BY DEF Crash, Running, Idle
<1>2. /\ cms' \in [height : Nat, store : Writes, working : Writes]
      /\ cms'.height = cms.height /\ cms'.store = cms.store /\ cms'.working = cms.store
      /\ cms.height \in Nat
  BY ZenonT(30) DEF OEInv, TypeOK, Crash
<1>3. NoState \in [set : BOOLEAN, state : Writes]
  BY DEF NoState, Writes
<1>4. NoCall \in [op : {None, "ProcessProposal", "WaitResult", "FinalizeBlock", "answered"},
                  block : Blocks \cup {None}, aborted : BOOLEAN, result : Results]
  BY DEF NoCall, Results
<1>5. Idle \in Executions
  BY DEF Idle, Executions, Requests, Results
<1>6. /\ NewOE \in [initialized : BOOLEAN, request : Requests, result : Results,
                    current : Threads, stopped : BOOLEAN]
      /\ ~NewOE.initialized /\ NewOE.request = NoRequest
  BY DEF NewOE, Requests, Results, Threads
<1>7. TypeOK'
  <2>1. exec' \in [Threads -> Executions]
    BY <1>5 DEF Crash
  <2>2. crashes' \in 0 .. MaxCrashes
    BY BlocksAssumption DEF OEInv, TypeOK, Crash
  <2> QED BY <2>1, <2>2, <1>2, <1>3, <1>4, <1>6 DEF OEInv, TypeOK, Crash, Executions
<1>8. CallOK'
  BY <1>2 DEF OEInv, TypeOK, CallOK, Crash, Deciding, NoCall, None
<1>9. StructOK'
  BY <1>6 DEF StructOK, Crash, NoCall, None
<1>10. \A g \in Goroutines : GoroutineOK(g)'
  BY <1>1 DEF GoroutineOK, Threads
<1>11. MainOK'
  BY <1>1 DEF MainOK, Threads, Crash, NoCall, None
<1>12. \A u \in Threads : ThreadOK(u)'
  BY <1>1 DEF ThreadOK
<1>13. ReadyOK'
  BY <1>6 DEF ReadyOK, Crash
<1>14. FreshOK'
  BY <1>2 DEF FreshOK, Initialised, Branch, Crash, NoState, BE!Base
<1> QED BY <1>7, <1>8, <1>9, <1>10, <1>11, <1>12, <1>13, <1>14, Zenon DEF OEInv

\* A new node has no thread and nothing to execute on before InitChain.
LEMMA InitInv ==
    ASSUME Init
    PROVE  OEInv
<1>1. \A u \in Threads : ~Running(u)
  BY DEF Init, Running, Idle
<1>2. <<>> \in Writes /\ <<>> \in Seq(Blocks) /\ Len(<<>>) = 0
  BY DEF Writes
<1>3. NoState \in [set : BOOLEAN, state : Writes]
  BY <1>2 DEF NoState
<1>4. NoCall \in [op : {None, "ProcessProposal", "WaitResult", "FinalizeBlock", "answered"},
                  block : Blocks \cup {None}, aborted : BOOLEAN, result : Results]
  BY DEF NoCall, Results
<1>5. Idle \in Executions
  BY DEF Idle, Executions, Requests, Results
<1>6. /\ NewOE \in [initialized : BOOLEAN, request : Requests, result : Results,
                    current : Threads, stopped : BOOLEAN]
      /\ ~NewOE.initialized /\ NewOE.request = NoRequest
  BY DEF NewOE, Requests, Results, Threads
<1>7. TypeOK
  BY <1>2, <1>3, <1>4, <1>5, <1>6, BlocksAssumption DEF Init, TypeOK, Executions
<1>8. CallOK
  BY <1>2 DEF Init, CallOK, NoCall, None
<1>9. StructOK
  BY <1>6 DEF Init, StructOK, NoCall, None
<1>10. \A g \in Goroutines : GoroutineOK(g)
  BY <1>1 DEF GoroutineOK, Threads
<1>11. MainOK
  BY <1>1 DEF MainOK, Threads, Init, NoCall, None
<1>12. \A u \in Threads : ThreadOK(u)
  BY <1>1 DEF ThreadOK
<1>13. ReadyOK
  BY <1>6 DEF ReadyOK, Init
<1>14. FreshOK
  BY DEF FreshOK, Initialised, Init
<1> QED BY <1>7, <1>8, <1>9, <1>10, <1>11, <1>12, <1>13, <1>14, Zenon DEF OEInv

-----------------------------------------------------------------------------
(***************************************************************************)
(* The theorems                                                            *)
(***************************************************************************)

\* The inductive invariant.
LEMMA Invariance == Spec => []OEInv
<1>1. OEInv /\ [Next]_vars => OEInv'
  <2> SUFFICES ASSUME OEInv, [Next]_vars PROVE OEInv'
    OBVIOUS
  <2>1. CASE UNCHANGED vars
    <3>1. TypeOK'
      BY <2>1 DEF vars, OEInv, TypeOK
    <3>2. CallOK' /\ StructOK'
      BY <2>1 DEF vars, OEInv, CallOK, StructOK, Initialised, Deciding, Request
    <3>3. \A t \in Threads : Running(t)' <=> Running(t)
      BY <2>1 DEF vars, Running
    <3>4. MainOK'
      BY <2>1, <3>3, Zenon DEF vars, OEInv, MainOK, Request, Threads
    <3>5. ASSUME NEW g \in Goroutines PROVE GoroutineOK(g)'
      <4>1. g \in Threads /\ GoroutineOK(g)
        BY DEF OEInv, Threads
      <4> QED BY <4>1, <2>1, <3>3 DEF vars, GoroutineOK
    <3>6. ASSUME NEW t \in Threads PROVE ThreadOK(t)'
      <4>1. exec' = exec /\ cms' = cms /\ finalizeBlockState' = finalizeBlockState
        BY <2>1 DEF vars
      <4>2. ThreadOK(t) /\ Branch' = Branch
        BY <4>1 DEF OEInv, Branch
      <4> QED BY <4>1, <4>2, <3>3, Zenon DEF ThreadOK, Executed
    <3>7. ReadyOK' /\ FreshOK'
      BY <2>1 DEF vars, OEInv, ReadyOK, FreshOK, Branch, Executed, Initialised
    <3> QED BY <3>1, <3>2, <3>4, <3>5, <3>6, <3>7, Zenon DEF OEInv
  <2>2. CASE \E t \in Threads : RefuseBlock(t)
    BY <2>2, RefuseBlockInv, Zenon
  <2>3. CASE \E t \in Threads : ExecuteStep(t)
    BY <2>3, ExecuteStepInv, Zenon
  <2>4. CASE \E g \in Goroutines : Publish(g)
    BY <2>4, PublishInv, Zenon
  <2>5. CASE InitChain
    BY <2>5, InitChainInv, Zenon
  <2>6. CASE \E b \in Blocks : ProcessProposal(b)
    BY <2>6, ProcessProposalInv, Zenon
  <2>7. CASE \E accept \in BOOLEAN : ProposalVerdict(accept)
    BY <2>7, ProposalVerdictInv, Zenon
  <2>8. CASE \E b \in Blocks : Decide(b)
    BY <2>8, DecideInv, Zenon
  <2>9. CASE FinalizeBlock
    BY <2>9, FinalizeBlockInv, Zenon
  <2>10. CASE RunAgain
    BY <2>10, RunAgainInv, Zenon
  <2>11. CASE TakeResult
    BY <2>11, TakeResultInv, Zenon
  <2>12. CASE FinishBlock
    BY <2>12, FinishBlockInv, Zenon
  <2>13. CASE Commit
    BY <2>13, CommitInv, Zenon
  <2>14. CASE Crash
    BY <2>14, CrashInv, Zenon
  <2> QED BY <2>1, <2>2, <2>3, <2>4, <2>5, <2>6, <2>7, <2>8, <2>9, <2>10, <2>11,
             <2>12, <2>13, <2>14 DEF Next
<1> QED BY <1>1, InitInv, PTL DEF Spec

\* The struct is consistent: AbortIfNeeded never meets an initialized OE
\* without a request, and every variable has its type.
THEOREM TypeCorrect == Spec => []TypeOK
<1>1. OEInv => TypeOK
  BY DEF OEInv
<1> QED BY <1>1, Invariance, PTL

\* Whatever is proposed, rejected, decided or lost in a crash, no two
\* executions mix their writes in the one finalizeBlockState: what a thread
\* in internalFinalizeBlock has written on the committed state is all of it.
THEOREM ThreadsKeepApart == Spec => []ExecutionOwnsState
<1>1. OEInv => ExecutionOwnsState
  <2> SUFFICES ASSUME OEInv, NEW t \in Threads, Running(t), exec[t].step > 0
               PROVE  Executed(exec[t].request, exec[t].step)
    BY ZenonT(30) DEF ExecutionOwnsState, Executed
  <2>1. ThreadOK(t)
    BY DEF OEInv
  <2> QED BY <2>1, ZenonT(30) DEF ThreadOK
<1> QED BY <1>1, Invariance, PTL

\* The result that TakeResult or FinishBlock answers with is the execution's.
LEMMA AnswerIsExecution ==
    ASSUME OEInv, ~RejectsAfterAccept, TakeResult \/ FinishBlock
    PROVE  BE!FinalizeBlock
<1> DEFINE b == decided[cms.height + 1]
           h == cms.height + 1
           full == BE!Base(cms.store, h) \o BE!Writes(b, BE!Steps(b))
<1>1. /\ Len(decided) = h /\ call.block = b /\ call.result = None
      /\ Request(call.block) = [height |-> h, block |-> b]
      /\ call.op \in {"WaitResult", "FinalizeBlock"}
  BY Zenon DEF OEInv, TypeOK, CallOK, Deciding, TakeResult, FinishBlock, Request, None
<1>2. PICK res \in {"ok", "error"} :
        /\ Answer(res)
        /\ res = "ok" => /\ ~(CheckHalt(h) \/ b \in Failing)
                         /\ finalizeBlockState = State(full)
        /\ res = "error" => CheckHalt(h) \/ b \in Failing
  <2>1. CASE TakeResult
    <3>1. oe.initialized /\ oe.stopped /\ ~call.aborted /\ oe.request = Request(call.block)
          /\ call.op = "WaitResult" /\ Answer(oe.result)
      BY <2>1 DEF TakeResult, OEInv, StructOK
    <3>2. oe.request.height = h /\ oe.request.block = b
      <4>1. oe.request = [height |-> h, block |-> b]
        BY SMTT(30), <3>1, <1>1
      <4> QED BY <4>1, SMTT(30)
    <3>3. \/ /\ oe.result = "ok" /\ ~Fails(oe.request)
             /\ Executed(oe.request, BE!Steps(oe.request.block))
          \/ oe.result = "error" /\ Fails(oe.request)
      BY ZenonT(30), <3>1, <3>2 DEF OEInv, ReadyOK
    <3> QED BY SMTT(30), <3>1, <3>2, <3>3 DEF Fails, Executed
  <2>2. CASE FinishBlock
    <3>1. /\ Main \in Threads /\ Running(Main) /\ ThreadOK(Main) /\ ~exec[Main].cancelled
          /\ exec[Main].request = Request(call.block)
          /\ Answer(exec[Main].result) /\ exec[Main].result \in {"ok", "error"}
      BY SMTT(30), <2>2 DEF FinishBlock, OEInv, TypeOK, MainOK, Threads, Results
    <3>2. exec[Main].request.height = h /\ exec[Main].request.block = b
      <4> DEFINE rq == exec[Main].request
      <4>1. rq = [height |-> h, block |-> b]
        BY SMTT(30), <3>1, <1>1
      <4> HIDE DEF rq
      <4>2. rq.height = h /\ rq.block = b
        BY <4>1
      <4> QED BY <4>2 DEF rq
    <3>3. BE!Steps(b) > 0
      BY SMTT(60), <1>1, BlocksAssumption DEF OEInv, TypeOK, BE!Steps
    <3> QED BY <3>1, <3>2, <3>3, Zenon DEF ThreadOK, Fails, Executed, None
  <2> QED BY <2>1, <2>2, Zenon
<1>3. /\ cms'.height = cms.height /\ cms'.store = cms.store /\ decided' = decided
      /\ call'.result = res
      /\ res = "ok" => cms'.working = full
  <2>1. cms \in [height : Nat, store : Writes, working : Writes]
        /\ call \in [op : {None, "ProcessProposal", "WaitResult", "FinalizeBlock", "answered"},
                     block : Blocks \cup {None}, aborted : BOOLEAN, result : Results]
    BY DEF OEInv, TypeOK
  <2>2. decided' = decided
    BY SMTT(30) DEF TakeResult, FinishBlock
  <2> HIDE DEF full
  <2> QED BY <1>2, <2>1, <2>2 DEF Answer, State
<1> HIDE DEF full
<1>4. [result |-> call'.result, state |-> IF call'.result = "ok" THEN cms'.working ELSE <<>>]
          = BE!Execute(cms.store, h, b)
  BY ZenonT(30), <1>2, <1>3 DEF BE!Execute, BE!CheckHalt, CheckHalt, BE!Error, full
<1> QED BY <1>1, <1>3, <1>4 DEF BE!FinalizeBlock, BE!None, None

\* Every step of BaseApp is a step of BlockExecution or changes nothing of it.
LEMMA StepImplements ==
    ASSUME OEInv, ~RejectsAfterAccept, [Next]_vars
    PROVE  [BE!Next]_BE!vars
<1>1. CASE TakeResult \/ FinishBlock
  BY <1>1, AnswerIsExecution DEF BE!Next
<1>2. CASE \E b \in Blocks : Decide(b)
  BY <1>2 DEF Decide, Deciding, BE!Decide, BE!Next
<1>3. CASE Commit
  <2>1. cms' = [cms EXCEPT !.height = @ + 1, !.store = cms.working] /\ call' = NoCall
        /\ decided' = decided /\ call.result = "ok"
    BY <1>3 DEF Commit
  <2> QED BY <2>1 DEF OEInv, TypeOK, NoCall, None, BE!Commit, BE!Next, BE!None
<1>4. CASE Crash
  BY <1>4 DEF Crash, OEInv, TypeOK, NoCall, None, BE!Crash, BE!Next, BE!None
<1>5. CASE \/ UNCHANGED vars
           \/ \E t \in Threads : RefuseBlock(t) \/ ExecuteStep(t)
           \/ \E g \in Goroutines : Publish(g)
           \/ InitChain
  BY ZenonT(30), <1>5 DEF vars, RefuseBlock, ExecuteStep, Publish, InitChain, BE!vars
<1>6. CASE \/ \E b \in Blocks : ProcessProposal(b)
           \/ \E accept \in BOOLEAN : ProposalVerdict(accept)
           \/ FinalizeBlock \/ RunAgain
  <2>1. decided' = decided /\ cms' = cms
    BY <1>6 DEF ProcessProposal, ProposalVerdict, FinalizeBlock, RunAgain
  <2>2. call.result = None
    BY <1>6 DEF OEInv, CallOK, ProcessProposal, ProposalVerdict, FinalizeBlock, RunAgain,
                Up, NoCall, None
  <2>3. call'.result = None
    <3>1. \A op, b, a : /\ Call(op, b).result = None
                        /\ [Call(op, b) EXCEPT !.aborted = a].result = None
      BY DEF Call, NoCall
    <3>2. NoCall.result = None
      BY DEF NoCall
    <3>3. CASE FinalizeBlock
      <4>1. CASE oe.initialized
        <5>1. PICK b, a : call' = [Call("WaitResult", b) EXCEPT !.aborted = a]
          BY <4>1, <3>3, Zenon DEF FinalizeBlock
        <5> QED BY <5>1, <3>1
      <4>2. CASE ~oe.initialized
        BY <4>2, <3>3, <3>1 DEF FinalizeBlock
      <4> QED BY <4>1, <4>2, Zenon
    <3> QED BY <1>6, <3>1, <3>2, <3>3 DEF ProcessProposal, ProposalVerdict, RunAgain
  <2> QED BY <2>1, <2>2, <2>3 DEF BE!vars, None
<1> QED BY <1>1, <1>2, <1>3, <1>4, <1>5, <1>6 DEF Next

\* Optimistic execution is invisible to consensus: if proposals are not
\* rejected after one was accepted at the same height, BaseApp answers every
\* decided block with its execution on the committed state and commits just
\* that, through aborted executions, races of goroutines and crashes.
THEOREM OptimisticExecutionIsInvisible ==
    ASSUME ~RejectsAfterAccept
    PROVE  Spec => ImplementsBlockExecution
<1>1. Init => BE!Init
  BY DEF Init, NoCall, None, BE!Init, BE!None
<1>2. OEInv /\ [Next]_vars => [BE!Next]_BE!vars
  BY StepImplements
<1> QED BY <1>1, <1>2, Invariance, PTL DEF Spec, ImplementsBlockExecution, BE!Spec
=============================================================================
