--------------------------- MODULE AgentCoreProofs ---------------------------
(***************************************************************************)
(* Theorems about AgentCore for every set of clients and prompts.          *)
(***************************************************************************)
EXTENDS AgentCore, SequenceTheorems, TLAPS

(* Every position is one of Pcs: the sets of positions unfolded.           *)
LEMMA PcSets ==
  /\ Pcs = {"idle", "wait", "unwind", "recovering", "interrupting", "locked", "loop", "again",
            "preTurn", "spawn", "prepare", "preCompact", "capCheck", "run", "midCompact",
            "done", "failed", "interrupted", "overflowed", "overflowCompact", "postTurn",
            "takeInject", "popQueue", "fast", "injectPush", "clearing", "compacting"}
  /\ Results \subseteq {"done", "failed", "overflowed"}
  BY CoreAssumption DEF Pcs, LockedPcs, LoopHead, TurnPcs, Prologue, RunRegion, Epilogue,
     OpenPcs, AllResults

LEMMA TypeInit == Init => TypeOK
  BY CoreAssumption, PcSets DEF Init, TypeOK, PromptOps, Fates

LEMMA TypeStep == TypeOK /\ HandsFull /\ [Next]_vars => TypeOK'
<1> SUFFICES ASSUME TypeOK, HandsFull, [Next]_vars PROVE TypeOK'
  OBVIOUS
<1> USE CoreAssumption, PcSets
    DEF TypeOK, Goto, Leave, Return, turnVars, mail, Handles, StoreHandle, ClearHandle
<1>1. CASE UNCHANGED vars
  BY <1>1 DEF vars
<1>2. CASE Call
  <2>1. ASSUME NEW c \in Clients, Submit(c) PROVE TypeOK'
    <3>1. PICK o \in Ops :
             /\ op' = [op EXCEPT ![c] = o]
             /\ \/ o \in CommandOps /\ UNCHANGED <<input, fate>>
                \/ /\ o \in PromptOps
                   /\ \E p \in Prompts : /\ fate' = [fate EXCEPT ![p] = "open"]
                                         /\ input' = [input EXCEPT ![c] = p]
      BY <2>1 DEF Submit
    <3>2. input' \in [Clients -> Prompts \cup {Null, HookPrompt}] /\ fate' \in [Prompts -> Fates]
      <4>1. CASE UNCHANGED <<input, fate>>
        BY <4>1
      <4>2. CASE \E p \in Prompts : /\ fate' = [fate EXCEPT ![p] = "open"]
                                   /\ input' = [input EXCEPT ![c] = p]
        BY <4>2 DEF Fates
      <4>3. QED
        BY <3>1, <4>1, <4>2
    <3>3. op' \in [Clients -> PromptOps \cup CommandOps]
      BY <3>1
    <3>4. QED
      BY <2>1, <3>2, <3>3 DEF Submit, Running
  <2>2. ASSUME NEW c \in Clients, InjectCall(c) PROVE TypeOK'
    BY <2>2 DEF InjectCall, PromptOps, Fates
  <2>3. ASSUME NEW c \in Clients, Interrupt(c) PROVE TypeOK'
    BY <2>3 DEF Interrupt, Running
  <2>4. ASSUME NEW c \in Clients, CancelCtx(c) PROVE TypeOK'
    BY <2>4 DEF CancelCtx
  <2>5. ASSUME NEW p \in Prompts, Queue(p) PROVE TypeOK'
    BY <2>5 DEF Queue, Fates
  <2>6. CASE PopQueue
    BY <2>6 DEF PopQueue, Fates
  <2>7. QED
    BY <1>2, <2>1, <2>2, <2>3, <2>4, <2>5, <2>6 DEF Call
<1>3. ASSUME NEW c \in Clients, AcquireLock(c) PROVE TypeOK'
  BY <1>3 DEF AcquireLock
<1>4. ASSUME NEW c \in Clients, RunReturn(c) PROVE TypeOK'
  BY <1>4 DEF RunReturn
<1>5. ASSUME NEW c \in Clients, InterruptCancel(c) PROVE TypeOK'
  BY <1>5 DEF InterruptCancel, HandsFull
<1>6. ASSUME NEW c \in Clients, Command(c) PROVE TypeOK'
  <2>1. CASE Enqueue(c)
    BY <2>1 DEF Enqueue, AtCommand, HandsFull, PromptOps
  <2>2. CASE EnterLoop(c)
    BY <2>2 DEF EnterLoop
  <2>3. CASE InjectStore(c)
    BY <2>3 DEF InjectStore, AtCommand, HandsFull, PromptOps
  <2>4. CASE InjectFull(c)
    BY <2>4 DEF InjectFull, AtCommand
  <2>5. CASE InjectPush(c)
    BY <2>5 DEF InjectPush, HandsFull
  <2>6. CASE InjectRewrite(c)
    BY <2>6 DEF InjectRewrite, AtCommand, HandsFull, PromptOps, Fates
  <2>7. CASE CommandRefused(c)
    BY <2>7 DEF CommandRefused, AtCommand
  <2>8. CASE ClearCheck(c)
    BY <2>8 DEF ClearCheck, AtCommand
  <2>9. CASE Clear(c)
    BY <2>9 DEF Clear
  <2>10. CASE CompactStart(c)
    BY <2>10 DEF CompactStart, AtCommand
  <2>11. CASE CompactEnd(c)
    BY <2>11 DEF CompactEnd
  <2>12. QED
    BY <1>6, <2>1, <2>2, <2>3, <2>4, <2>5, <2>6, <2>7, <2>8, <2>9, <2>10, <2>11 DEF Command
<1>7. ASSUME NEW c \in Clients, Turn(c) PROVE TypeOK'
  <2>1. CASE LoopExit(c)
    BY <2>1 DEF LoopExit, Fates
  <2>2. CASE TurnStart(c)
    BY <2>2 DEF TurnStart, Fates
  <2>3. CASE PreTurnBlocked(c)
    BY <2>3 DEF PreTurnBlocked
  <2>21. CASE NewSession(c)
    BY <2>21 DEF NewSession
  <2>4. CASE OpenTurn(c)
    BY <2>4 DEF OpenTurn
  <2>5. CASE PreCompact(c)
    BY <2>5 DEF PreCompact
  <2>6. CASE PreCompacted(c)
    BY <2>6 DEF PreCompacted
  <2>7. CASE CapReject(c)
    BY <2>7 DEF CapReject
  <2>8. CASE StartRun(c)
    BY <2>8 DEF StartRun
  <2>9. CASE ToolResult(c)
    BY <2>9 DEF ToolResult, Fates
  <2>10. CASE MidCompact(c)
    BY <2>10 DEF MidCompact
  <2>11. CASE MidCompacted(c)
    BY <2>11 DEF MidCompacted
  <2>12. CASE OverflowCompact(c)
    BY <2>12 DEF OverflowCompact
  <2>13. CASE OverflowRetry(c)
    BY <2>13 DEF OverflowRetry
  <2>14. CASE OverflowGiveUp(c)
    BY <2>14 DEF OverflowGiveUp
  <2>15. CASE EndRun(c)
    BY <2>15 DEF EndRun
  <2>16. CASE HookContinue(c)
    BY <2>16 DEF HookContinue
  <2>17. CASE HookDone(c)
    BY <2>17 DEF HookDone
  <2>18. CASE TakeInject(c)
    BY <2>18 DEF TakeInject
  <2>19. CASE PopNext(c)
    <3>1. fifo # <<>> => Head(fifo) \in Prompts /\ Tail(fifo) \in Seq(Prompts)
      BY HeadTailProperties
    <3>2. input' \in [Clients -> Prompts \cup {Null, HookPrompt}] /\ fifo' \in Seq(Prompts)
      <4>1. CASE fifo = <<>> /\ UNCHANGED <<input, fifo>>
        BY <4>1
      <4>2. CASE fifo # <<>> /\ input' = [input EXCEPT ![c] = Head(fifo)] /\ fifo' = Tail(fifo)
        BY <3>1, <4>2
      <4>3. QED
        BY <2>19, <4>1, <4>2 DEF PopNext
    <3>3. QED
      BY <2>19, <3>2 DEF PopNext
  <2>20. QED
    BY <1>7, <2>1, <2>2, <2>3, <2>4, <2>5, <2>6, <2>7, <2>8, <2>9, <2>10,
       <2>11, <2>12, <2>13, <2>14, <2>15, <2>16, <2>17, <2>18, <2>19, <2>21 DEF Turn
<1>8. ASSUME NEW c \in Clients, Unwind(c) PROVE TypeOK'
  <2>1. CASE Panic(c)
    BY <2>1 DEF Panic
  <2>2. CASE RecoverSwap(c)
    BY <2>2 DEF RecoverSwap
  <2>3. CASE RecoverIdle(c)
    BY <2>3 DEF RecoverIdle
  <2>4. QED
    BY <1>8, <2>1, <2>2, <2>3 DEF Unwind
<1>9. QED
  BY <1>1, <1>2, <1>3, <1>4, <1>5, <1>6, <1>7, <1>8 DEF Next, Step

LEMMA HandsStep == TypeOK /\ HandsFull /\ [Next]_vars => HandsFull'
<1> SUFFICES ASSUME TypeOK, HandsFull, [Next]_vars PROVE HandsFull'
  OBVIOUS
<1> USE CoreAssumption, PcSets
    DEF TypeOK, HandsFull, Goto, Leave, Return, turnVars, mail, StoreHandle, ClearHandle,
        Handles, HandlePcs, RunRegion, LoopHead
<1>1. CASE UNCHANGED vars
  BY <1>1 DEF vars
<1>2. CASE Call
  <2>1. ASSUME NEW c \in Clients, Submit(c) PROVE HandsFull'
    BY <2>1 DEF Submit, Running, PromptOps, CommandOps
  <2>2. ASSUME NEW c \in Clients, InjectCall(c) PROVE HandsFull'
    BY <2>2 DEF InjectCall, PromptOps
  <2>3. ASSUME NEW c \in Clients, Interrupt(c) PROVE HandsFull'
    BY <2>3 DEF Interrupt, Running
  <2>4. ASSUME NEW c \in Clients, CancelCtx(c) PROVE HandsFull'
    BY <2>4 DEF CancelCtx
  <2>5. ASSUME NEW p \in Prompts, Queue(p) PROVE HandsFull'
    BY <2>5 DEF Queue
  <2>6. CASE PopQueue
    BY <2>6 DEF PopQueue
  <2>7. QED
    BY <1>2, <2>1, <2>2, <2>3, <2>4, <2>5, <2>6 DEF Call
<1>3. ASSUME NEW c \in Clients, AcquireLock(c) PROVE HandsFull'
  BY <1>3 DEF AcquireLock
<1>4. ASSUME NEW c \in Clients, RunReturn(c) PROVE HandsFull'
  BY <1>4 DEF RunReturn
<1>5. ASSUME NEW c \in Clients, InterruptCancel(c) PROVE HandsFull'
  BY <1>5 DEF InterruptCancel
<1>6. ASSUME NEW c \in Clients, Command(c) PROVE HandsFull'
  <2>1. CASE Enqueue(c)
    BY <2>1 DEF Enqueue, AtCommand, PromptOps
  <2>2. CASE EnterLoop(c)
    BY <2>2 DEF EnterLoop
  <2>3. CASE InjectStore(c)
    BY <2>3 DEF InjectStore, AtCommand
  <2>4. CASE InjectFull(c)
    BY <2>4 DEF InjectFull, AtCommand, PromptOps
  <2>5. CASE InjectPush(c)
    BY <2>5 DEF InjectPush
  <2>6. CASE InjectRewrite(c)
    BY <2>6 DEF InjectRewrite, AtCommand
  <2>7. CASE CommandRefused(c)
    BY <2>7 DEF CommandRefused, AtCommand
  <2>8. CASE ClearCheck(c)
    BY <2>8 DEF ClearCheck, AtCommand
  <2>9. CASE Clear(c)
    BY <2>9 DEF Clear
  <2>10. CASE CompactStart(c)
    BY <2>10 DEF CompactStart, AtCommand
  <2>11. CASE CompactEnd(c)
    BY <2>11 DEF CompactEnd
  <2>12. QED
    BY <1>6, <2>1, <2>2, <2>3, <2>4, <2>5, <2>6, <2>7, <2>8, <2>9, <2>10, <2>11 DEF Command
<1>7. ASSUME NEW c \in Clients, Turn(c) PROVE HandsFull'
  <2>1. CASE LoopExit(c)
    BY <2>1 DEF LoopExit
  <2>2. CASE TurnStart(c)
    BY <2>2 DEF TurnStart
  <2>3. CASE PreTurnBlocked(c)
    BY <2>3 DEF PreTurnBlocked
  <2>21. CASE NewSession(c)
    BY <2>21 DEF NewSession
  <2>4. CASE OpenTurn(c)
    BY <2>4 DEF OpenTurn
  <2>5. CASE PreCompact(c)
    BY <2>5 DEF PreCompact
  <2>6. CASE PreCompacted(c)
    BY <2>6 DEF PreCompacted
  <2>7. CASE CapReject(c)
    BY <2>7 DEF CapReject
  <2>8. CASE StartRun(c)
    BY <2>8 DEF StartRun
  <2>9. CASE ToolResult(c)
    BY <2>9 DEF ToolResult
  <2>10. CASE MidCompact(c)
    BY <2>10 DEF MidCompact
  <2>11. CASE MidCompacted(c)
    BY <2>11 DEF MidCompacted
  <2>12. CASE OverflowCompact(c)
    BY <2>12 DEF OverflowCompact
  <2>13. CASE OverflowRetry(c)
    BY <2>13 DEF OverflowRetry
  <2>14. CASE OverflowGiveUp(c)
    BY <2>14 DEF OverflowGiveUp
  <2>15. CASE EndRun(c)
    BY <2>15 DEF EndRun
  <2>16. CASE HookContinue(c)
    BY <2>16 DEF HookContinue
  <2>17. CASE HookDone(c)
    BY <2>17 DEF HookDone
  <2>18. CASE TakeInject(c)
    BY <2>18 DEF TakeInject
  <2>19. CASE PopNext(c)
    BY <2>19 DEF PopNext
  <2>20. QED
    BY <1>7, <2>1, <2>2, <2>3, <2>4, <2>5, <2>6, <2>7, <2>8, <2>9, <2>10,
       <2>11, <2>12, <2>13, <2>14, <2>15, <2>16, <2>17, <2>18, <2>19, <2>21 DEF Turn
<1>8. ASSUME NEW c \in Clients, Unwind(c) PROVE HandsFull'
  <2>1. CASE Panic(c)
    BY <2>1 DEF Panic
  <2>2. CASE RecoverSwap(c)
    BY <2>2 DEF RecoverSwap
  <2>3. CASE RecoverIdle(c)
    BY <2>3 DEF RecoverIdle
  <2>4. QED
    BY <1>8, <2>1, <2>2, <2>3 DEF Unwind
<1>9. QED
  BY <1>1, <1>2, <1>3, <1>4, <1>5, <1>6, <1>7, <1>8 DEF Next, Step

LEMMA LockedStep == TypeOK /\ LockedPath /\ [Next]_vars => LockedPath'
<1> SUFFICES ASSUME TypeOK, LockedPath, [Next]_vars PROVE LockedPath'
  OBVIOUS
<1> USE CoreAssumption, PcSets
    DEF TypeOK, LockedPath, Goto, Leave, Return, turnVars, mail, StoreHandle, ClearHandle,
        LockedPcs, LoopHead, TurnPcs, Prologue, RunRegion, Epilogue
<1>1. CASE UNCHANGED vars
  BY <1>1 DEF vars
<1>2. CASE Call
  <2>1. ASSUME NEW c \in Clients, Submit(c) PROVE LockedPath'
    BY <2>1 DEF Submit, Running
  <2>2. ASSUME NEW c \in Clients, InjectCall(c) PROVE LockedPath'
    BY <2>2 DEF InjectCall
  <2>3. ASSUME NEW c \in Clients, Interrupt(c) PROVE LockedPath'
    BY <2>3 DEF Interrupt, Running
  <2>4. ASSUME NEW c \in Clients, CancelCtx(c) PROVE LockedPath'
    BY <2>4 DEF CancelCtx
  <2>5. ASSUME NEW p \in Prompts, Queue(p) PROVE LockedPath'
    BY <2>5 DEF Queue
  <2>6. CASE PopQueue
    BY <2>6 DEF PopQueue
  <2>7. QED
    BY <1>2, <2>1, <2>2, <2>3, <2>4, <2>5, <2>6 DEF Call
<1>3. ASSUME NEW c \in Clients, AcquireLock(c) PROVE LockedPath'
  BY <1>3 DEF AcquireLock
<1>4. ASSUME NEW c \in Clients, RunReturn(c) PROVE LockedPath'
  BY <1>4 DEF RunReturn
<1>5. ASSUME NEW c \in Clients, InterruptCancel(c) PROVE LockedPath'
  BY <1>5 DEF InterruptCancel
<1>6. ASSUME NEW c \in Clients, Command(c) PROVE LockedPath'
  <2>1. CASE Enqueue(c)
    BY <2>1 DEF Enqueue, AtCommand
  <2>2. CASE EnterLoop(c)
    BY <2>2 DEF EnterLoop
  <2>3. CASE InjectStore(c)
    BY <2>3 DEF InjectStore, AtCommand
  <2>4. CASE InjectFull(c)
    BY <2>4 DEF InjectFull, AtCommand
  <2>5. CASE InjectPush(c)
    BY <2>5 DEF InjectPush
  <2>6. CASE InjectRewrite(c)
    BY <2>6 DEF InjectRewrite, AtCommand
  <2>7. CASE CommandRefused(c)
    BY <2>7 DEF CommandRefused, AtCommand
  <2>8. CASE ClearCheck(c)
    BY <2>8 DEF ClearCheck, AtCommand
  <2>9. CASE Clear(c)
    BY <2>9 DEF Clear
  <2>10. CASE CompactStart(c)
    BY <2>10 DEF CompactStart, AtCommand
  <2>11. CASE CompactEnd(c)
    BY <2>11 DEF CompactEnd
  <2>12. QED
    BY <1>6, <2>1, <2>2, <2>3, <2>4, <2>5, <2>6, <2>7, <2>8, <2>9, <2>10, <2>11 DEF Command
<1>7. ASSUME NEW c \in Clients, Turn(c) PROVE LockedPath'
  <2>1. CASE LoopExit(c)
    BY <2>1 DEF LoopExit
  <2>2. CASE TurnStart(c)
    BY <2>2 DEF TurnStart
  <2>3. CASE PreTurnBlocked(c)
    BY <2>3 DEF PreTurnBlocked
  <2>21. CASE NewSession(c)
    BY <2>21 DEF NewSession
  <2>4. CASE OpenTurn(c)
    BY <2>4 DEF OpenTurn
  <2>5. CASE PreCompact(c)
    BY <2>5 DEF PreCompact
  <2>6. CASE PreCompacted(c)
    BY <2>6 DEF PreCompacted
  <2>7. CASE CapReject(c)
    BY <2>7 DEF CapReject
  <2>8. CASE StartRun(c)
    BY <2>8 DEF StartRun
  <2>9. CASE ToolResult(c)
    BY <2>9 DEF ToolResult
  <2>10. CASE MidCompact(c)
    BY <2>10 DEF MidCompact
  <2>11. CASE MidCompacted(c)
    BY <2>11 DEF MidCompacted
  <2>12. CASE OverflowCompact(c)
    BY <2>12 DEF OverflowCompact
  <2>13. CASE OverflowRetry(c)
    BY <2>13 DEF OverflowRetry
  <2>14. CASE OverflowGiveUp(c)
    BY <2>14 DEF OverflowGiveUp
  <2>15. CASE EndRun(c)
    BY <2>15 DEF EndRun
  <2>16. CASE HookContinue(c)
    BY <2>16 DEF HookContinue
  <2>17. CASE HookDone(c)
    BY <2>17 DEF HookDone
  <2>18. CASE TakeInject(c)
    BY <2>18 DEF TakeInject
  <2>19. CASE PopNext(c)
    BY <2>19 DEF PopNext
  <2>20. QED
    BY <1>7, <2>1, <2>2, <2>3, <2>4, <2>5, <2>6, <2>7, <2>8, <2>9, <2>10,
       <2>11, <2>12, <2>13, <2>14, <2>15, <2>16, <2>17, <2>18, <2>19, <2>21 DEF Turn
<1>8. ASSUME NEW c \in Clients, Unwind(c) PROVE LockedPath'
  <2>1. CASE Panic(c)
    BY <2>1 DEF Panic
  <2>2. CASE RecoverSwap(c)
    BY <2>2 DEF RecoverSwap
  <2>3. CASE RecoverIdle(c)
    BY <2>3 DEF RecoverIdle
  <2>4. QED
    BY <1>8, <2>1, <2>2, <2>3 DEF Unwind
<1>9. QED
  BY <1>1, <1>2, <1>3, <1>4, <1>5, <1>6, <1>7, <1>8 DEF Next, Step

(* The types and the lock discipline of the agent hold in every execution: *)
(* only the holder of submitMu is in the turn loop (core.go, Submit).      *)
THEOREM Safety == Spec => []Safe
<1>1. Init => Safe
  BY TypeInit, CoreAssumption, PcSets
     DEF Init, Safe, LockedPath, HandsFull, LockedPcs, LoopHead, TurnPcs, Prologue,
         RunRegion, Epilogue, HandlePcs
<1>2. Safe /\ [Next]_vars => Safe'
  BY TypeStep, HandsStep, LockedStep DEF Safe
<1>3. QED
  BY <1>1, <1>2, PTL DEF Spec

(* Turns are serialized for any number of clients: executeTurn is reached  *)
(* only under submitMu, and nothing releases the lock inside it.           *)
THEOREM TurnsSerialized == Spec => []OneTurn
<1>1. Safe => OneTurn
  BY CoreAssumption DEF Safe, TypeOK, LockedPath, OneTurn, InTurn, LockedPcs
<1>2. QED
  BY <1>1, Safety, PTL

-----------------------------------------------------------------------------
LEMMA InterruptibleStep == Safe /\ RunInterruptible /\ [Next]_vars => RunInterruptible'
<1> SUFFICES ASSUME Safe, RunInterruptible, [Next]_vars PROVE RunInterruptible'
  OBVIOUS
<1> USE CoreAssumption, PcSets
    DEF Safe, TypeOK, LockedPath, RunInterruptible, Goto, Leave, Return, turnVars, mail,
        StoreHandle, ClearHandle, LockedPcs, LoopHead, TurnPcs, Prologue, RunRegion, Epilogue,
        HandlePcs, HandsFull
<1>1. CASE UNCHANGED vars
  BY <1>1 DEF vars
<1>2. CASE Call
  <2>1. ASSUME NEW c \in Clients, Submit(c) PROVE RunInterruptible'
    BY <2>1 DEF Submit, Running
  <2>2. ASSUME NEW c \in Clients, InjectCall(c) PROVE RunInterruptible'
    BY <2>2 DEF InjectCall
  <2>3. ASSUME NEW c \in Clients, Interrupt(c) PROVE RunInterruptible'
    <3> SUFFICES ASSUME NEW e \in Clients, pc'[e] \in HandlePcs
                 PROVE  \/ currentAction' = handle'[e]
                        \/ handle'[e] \in cancelled'
                        \/ \E d \in Clients : pc'[d] = "recovering" /\ handle'[d] = handle'[e]
      OBVIOUS
    <3>1. e # c /\ pc[e] = pc'[e] /\ handle'[e] = handle[e]
      BY <2>3 DEF Interrupt
    <3>2. currentAction' = currentAction /\ cancelled' = cancelled
      BY <2>3 DEF Interrupt
    <3>3. \A d \in Clients : pc[d] = "recovering" => pc'[d] = pc[d] /\ handle'[d] = handle[d]
      BY <2>3 DEF Interrupt
    <3>4. CASE \E d \in Clients : pc[d] = "recovering" /\ handle[d] = handle[e]
      <4>1. PICK d \in Clients : pc[d] = "recovering" /\ handle[d] = handle[e]
        BY <3>4
      <4>2. pc'[d] = "recovering" /\ handle'[d] = handle'[e]
        BY <4>1, <3>1, <3>3
      <4>3. QED
        BY <4>2
    <3>5. currentAction = handle[e] \/ handle[e] \in cancelled \/
            \E d \in Clients : pc[d] = "recovering" /\ handle[d] = handle[e]
      BY <3>1
    <3>6. QED
      BY <3>1, <3>2, <3>4, <3>5
  <2>4. ASSUME NEW c \in Clients, CancelCtx(c) PROVE RunInterruptible'
    BY <2>4 DEF CancelCtx
  <2>5. ASSUME NEW p \in Prompts, Queue(p) PROVE RunInterruptible'
    BY <2>5 DEF Queue
  <2>6. CASE PopQueue
    BY <2>6 DEF PopQueue
  <2>7. QED
    BY <1>2, <2>1, <2>2, <2>3, <2>4, <2>5, <2>6 DEF Call
<1>3. ASSUME NEW c \in Clients, AcquireLock(c) PROVE RunInterruptible'
  BY <1>3 DEF AcquireLock
<1>4. ASSUME NEW c \in Clients, RunReturn(c) PROVE RunInterruptible'
  BY <1>4 DEF RunReturn
<1>5. ASSUME NEW c \in Clients, InterruptCancel(c) PROVE RunInterruptible'
  <2> SUFFICES ASSUME NEW e \in Clients, pc'[e] \in HandlePcs
               PROVE  \/ currentAction' = handle'[e]
                      \/ handle'[e] \in cancelled'
                      \/ \E d \in Clients : pc'[d] = "recovering" /\ handle'[d] = handle'[e]
    OBVIOUS
  <2>1. e # c /\ pc[e] = pc'[e] /\ handle'[e] = handle[e]
    BY <1>5 DEF InterruptCancel
  <2>2. currentAction' = currentAction /\ cancelled \subseteq cancelled'
    BY <1>5 DEF InterruptCancel
  <2>3. \A d \in Clients : pc[d] = "recovering" => pc'[d] = pc[d] /\ handle'[d] = handle[d]
    BY <1>5 DEF InterruptCancel
  <2>4. CASE \E d \in Clients : pc[d] = "recovering" /\ handle[d] = handle[e]
    <3>1. PICK d \in Clients : pc[d] = "recovering" /\ handle[d] = handle[e]
      BY <2>4
    <3>2. pc'[d] = "recovering" /\ handle'[d] = handle'[e]
      BY <3>1, <2>1, <2>3
    <3>3. QED
      BY <3>2
  <2>5. currentAction = handle[e] \/ handle[e] \in cancelled \/
          \E d \in Clients : pc[d] = "recovering" /\ handle[d] = handle[e]
    BY <2>1
  <2>6. QED
    BY <2>1, <2>2, <2>4, <2>5
<1>6. ASSUME NEW c \in Clients, Command(c) PROVE RunInterruptible'
  <2>1. CASE Enqueue(c)
    BY <2>1 DEF Enqueue, AtCommand
  <2>2. CASE EnterLoop(c)
    BY <2>2 DEF EnterLoop
  <2>3. CASE InjectStore(c)
    BY <2>3 DEF InjectStore, AtCommand
  <2>4. CASE InjectFull(c)
    BY <2>4 DEF InjectFull, AtCommand
  <2>5. CASE InjectPush(c)
    BY <2>5 DEF InjectPush
  <2>6. CASE InjectRewrite(c)
    BY <2>6 DEF InjectRewrite, AtCommand
  <2>7. CASE CommandRefused(c)
    BY <2>7 DEF CommandRefused, AtCommand
  <2>8. CASE ClearCheck(c)
    BY <2>8 DEF ClearCheck, AtCommand
  <2>9. CASE Clear(c)
    BY <2>9 DEF Clear
  <2>10. CASE CompactStart(c)
    BY <2>10 DEF CompactStart, AtCommand
  <2>11. CASE CompactEnd(c)
    BY <2>11 DEF CompactEnd
  <2>12. QED
    BY <1>6, <2>1, <2>2, <2>3, <2>4, <2>5, <2>6, <2>7, <2>8, <2>9, <2>10, <2>11 DEF Command
<1>7. ASSUME NEW c \in Clients, Turn(c) PROVE RunInterruptible'
  <2>1. CASE LoopExit(c)
    BY <2>1 DEF LoopExit
  <2>2. CASE TurnStart(c)
    BY <2>2 DEF TurnStart
  <2>3. CASE PreTurnBlocked(c)
    BY <2>3 DEF PreTurnBlocked
  <2>21. CASE NewSession(c)
    BY <2>21 DEF NewSession
  <2>4. CASE OpenTurn(c)
    BY <2>4 DEF OpenTurn
  <2>5. CASE PreCompact(c)
    BY <2>5 DEF PreCompact
  <2>6. CASE PreCompacted(c)
    BY <2>6 DEF PreCompacted
  <2>7. CASE CapReject(c)
    BY <2>7 DEF CapReject
  <2>8. CASE StartRun(c)
    BY <2>8 DEF StartRun
  <2>9. CASE ToolResult(c)
    BY <2>9 DEF ToolResult
  <2>10. CASE MidCompact(c)
    BY <2>10 DEF MidCompact
  <2>11. CASE MidCompacted(c)
    BY <2>11 DEF MidCompacted
  <2>12. CASE OverflowCompact(c)
    BY <2>12 DEF OverflowCompact
  <2>13. CASE OverflowRetry(c)
    BY <2>13 DEF OverflowRetry
  <2>14. CASE OverflowGiveUp(c)
    BY <2>14 DEF OverflowGiveUp
  <2>15. CASE EndRun(c)
    BY <2>15 DEF EndRun
  <2>16. CASE HookContinue(c)
    BY <2>16 DEF HookContinue
  <2>17. CASE HookDone(c)
    BY <2>17 DEF HookDone
  <2>18. CASE TakeInject(c)
    BY <2>18 DEF TakeInject
  <2>19. CASE PopNext(c)
    BY <2>19 DEF PopNext
  <2>20. QED
    BY <1>7, <2>1, <2>2, <2>3, <2>4, <2>5, <2>6, <2>7, <2>8, <2>9, <2>10,
       <2>11, <2>12, <2>13, <2>14, <2>15, <2>16, <2>17, <2>18, <2>19, <2>21 DEF Turn
<1>8. ASSUME NEW c \in Clients, Unwind(c) PROVE RunInterruptible'
  <2>1. CASE Panic(c)
    BY <2>1 DEF Panic
  <2>2. CASE RecoverSwap(c)
    BY <2>2 DEF RecoverSwap
  <2>3. CASE RecoverIdle(c)
    BY <2>3 DEF RecoverIdle
  <2>4. QED
    BY <1>8, <2>1, <2>2, <2>3 DEF Unwind
<1>9. QED
  BY <1>1, <1>2, <1>3, <1>4, <1>5, <1>6, <1>7, <1>8 DEF Next, Step

LEMMA SettlesStep == TypeOK /\ SettlesIdle /\ [Next]_vars => SettlesIdle'
<1> SUFFICES ASSUME TypeOK, SettlesIdle, [Next]_vars PROVE SettlesIdle'
  OBVIOUS
<1> USE CoreAssumption, PcSets
    DEF TypeOK, SettlesIdle, Goto, Leave, Return, turnVars, mail, Busy, HandlePcs, RunRegion, LoopHead
<1>1. CASE UNCHANGED vars
  BY <1>1 DEF vars
<1>2. CASE Call
  <2>1. ASSUME NEW c \in Clients, Submit(c) PROVE SettlesIdle'
    BY <2>1 DEF Submit, Running
  <2>2. ASSUME NEW c \in Clients, InjectCall(c) PROVE SettlesIdle'
    BY <2>2 DEF InjectCall
  <2>3. ASSUME NEW c \in Clients, Interrupt(c) PROVE SettlesIdle'
    BY <2>3 DEF Interrupt, Running
  <2>4. ASSUME NEW c \in Clients, CancelCtx(c) PROVE SettlesIdle'
    BY <2>4 DEF CancelCtx
  <2>5. ASSUME NEW p \in Prompts, Queue(p) PROVE SettlesIdle'
    BY <2>5 DEF Queue
  <2>6. CASE PopQueue
    BY <2>6 DEF PopQueue
  <2>7. QED
    BY <1>2, <2>1, <2>2, <2>3, <2>4, <2>5, <2>6 DEF Call
<1>3. ASSUME NEW c \in Clients, AcquireLock(c) PROVE SettlesIdle'
  BY <1>3 DEF AcquireLock
<1>4. ASSUME NEW c \in Clients, RunReturn(c) PROVE SettlesIdle'
  BY <1>4 DEF RunReturn
<1>5. ASSUME NEW c \in Clients, InterruptCancel(c) PROVE SettlesIdle'
  BY <1>5 DEF InterruptCancel
<1>6. ASSUME NEW c \in Clients, Command(c) PROVE SettlesIdle'
  <2>1. CASE Enqueue(c)
    BY <2>1 DEF Enqueue, AtCommand
  <2>2. CASE EnterLoop(c)
    BY <2>2 DEF EnterLoop
  <2>3. CASE InjectStore(c)
    BY <2>3 DEF InjectStore, AtCommand
  <2>4. CASE InjectFull(c)
    BY <2>4 DEF InjectFull, AtCommand
  <2>5. CASE InjectPush(c)
    BY <2>5 DEF InjectPush
  <2>6. CASE InjectRewrite(c)
    BY <2>6 DEF InjectRewrite, AtCommand
  <2>7. CASE CommandRefused(c)
    BY <2>7 DEF CommandRefused, AtCommand
  <2>8. CASE ClearCheck(c)
    BY <2>8 DEF ClearCheck, AtCommand
  <2>9. CASE Clear(c)
    BY <2>9 DEF Clear
  <2>10. CASE CompactStart(c)
    BY <2>10 DEF CompactStart, AtCommand
  <2>11. CASE CompactEnd(c)
    BY <2>11 DEF CompactEnd
  <2>12. QED
    BY <1>6, <2>1, <2>2, <2>3, <2>4, <2>5, <2>6, <2>7, <2>8, <2>9, <2>10, <2>11 DEF Command
<1>7. ASSUME NEW c \in Clients, Turn(c) PROVE SettlesIdle'
  <2>1. CASE LoopExit(c)
    BY <2>1 DEF LoopExit
  <2>2. CASE TurnStart(c)
    BY <2>2 DEF TurnStart
  <2>3. CASE PreTurnBlocked(c)
    BY <2>3 DEF PreTurnBlocked
  <2>21. CASE NewSession(c)
    BY <2>21 DEF NewSession
  <2>4. CASE OpenTurn(c)
    BY <2>4 DEF OpenTurn
  <2>5. CASE PreCompact(c)
    BY <2>5 DEF PreCompact
  <2>6. CASE PreCompacted(c)
    BY <2>6 DEF PreCompacted
  <2>7. CASE CapReject(c)
    BY <2>7 DEF CapReject
  <2>8. CASE StartRun(c)
    BY <2>8 DEF StartRun
  <2>9. CASE ToolResult(c)
    BY <2>9 DEF ToolResult
  <2>10. CASE MidCompact(c)
    BY <2>10 DEF MidCompact
  <2>11. CASE MidCompacted(c)
    BY <2>11 DEF MidCompacted
  <2>12. CASE OverflowCompact(c)
    BY <2>12 DEF OverflowCompact
  <2>13. CASE OverflowRetry(c)
    BY <2>13 DEF OverflowRetry
  <2>14. CASE OverflowGiveUp(c)
    BY <2>14 DEF OverflowGiveUp
  <2>15. CASE EndRun(c)
    BY <2>15 DEF EndRun
  <2>16. CASE HookContinue(c)
    BY <2>16 DEF HookContinue
  <2>17. CASE HookDone(c)
    BY <2>17 DEF HookDone
  <2>18. CASE TakeInject(c)
    BY <2>18 DEF TakeInject
  <2>19. CASE PopNext(c)
    BY <2>19 DEF PopNext
  <2>20. QED
    BY <1>7, <2>1, <2>2, <2>3, <2>4, <2>5, <2>6, <2>7, <2>8, <2>9, <2>10,
       <2>11, <2>12, <2>13, <2>14, <2>15, <2>16, <2>17, <2>18, <2>19, <2>21 DEF Turn
<1>8. ASSUME NEW c \in Clients, Unwind(c) PROVE SettlesIdle'
  <2>1. CASE Panic(c)
    BY <2>1 DEF Panic
  <2>2. CASE RecoverSwap(c)
    BY <2>2 DEF RecoverSwap
  <2>3. CASE RecoverIdle(c)
    BY <2>3 DEF RecoverIdle
  <2>4. QED
    BY <1>8, <2>1, <2>2, <2>3 DEF Unwind
<1>9. QED
  BY <1>1, <1>2, <1>3, <1>4, <1>5, <1>6, <1>7, <1>8 DEF Next, Step

LEMMA OwnerStep == TypeOK /\ RunningHasOwner /\ [Next]_vars => RunningHasOwner'
<1> SUFFICES ASSUME TypeOK, RunningHasOwner, [Next]_vars PROVE RunningHasOwner'
  OBVIOUS
<1> USE CoreAssumption, PcSets
    DEF TypeOK, RunningHasOwner, Running, Goto, Leave, Return, turnVars, mail,
        ClearHandle, Handles, HandlePcs, RunRegion, LoopHead
<1>1. CASE UNCHANGED vars
  BY <1>1 DEF vars
<1>2. CASE Call
  <2>1. ASSUME NEW c \in Clients, Submit(c) PROVE RunningHasOwner'
    BY <2>1 DEF Submit
  <2>2. ASSUME NEW c \in Clients, InjectCall(c) PROVE RunningHasOwner'
    BY <2>2 DEF InjectCall
  <2>3. ASSUME NEW c \in Clients, Interrupt(c) PROVE RunningHasOwner'
    BY <2>3 DEF Interrupt
  <2>4. ASSUME NEW c \in Clients, CancelCtx(c) PROVE RunningHasOwner'
    BY <2>4 DEF CancelCtx
  <2>5. ASSUME NEW p \in Prompts, Queue(p) PROVE RunningHasOwner'
    BY <2>5 DEF Queue
  <2>6. CASE PopQueue
    BY <2>6 DEF PopQueue
  <2>7. QED
    BY <1>2, <2>1, <2>2, <2>3, <2>4, <2>5, <2>6 DEF Call
<1>3. ASSUME NEW c \in Clients, AcquireLock(c) PROVE RunningHasOwner'
  BY <1>3 DEF AcquireLock
<1>4. ASSUME NEW c \in Clients, RunReturn(c) PROVE RunningHasOwner'
  BY <1>4 DEF RunReturn
<1>5. ASSUME NEW c \in Clients, InterruptCancel(c) PROVE RunningHasOwner'
  BY <1>5 DEF InterruptCancel
<1>6. ASSUME NEW c \in Clients, Command(c) PROVE RunningHasOwner'
  <2>1. CASE Enqueue(c)
    BY <2>1 DEF Enqueue, AtCommand
  <2>2. CASE EnterLoop(c)
    BY <2>2 DEF EnterLoop
  <2>3. CASE InjectStore(c)
    BY <2>3 DEF InjectStore, AtCommand
  <2>4. CASE InjectFull(c)
    BY <2>4 DEF InjectFull, AtCommand
  <2>5. CASE InjectPush(c)
    BY <2>5 DEF InjectPush
  <2>6. CASE InjectRewrite(c)
    BY <2>6 DEF InjectRewrite, AtCommand
  <2>7. CASE CommandRefused(c)
    BY <2>7 DEF CommandRefused, AtCommand
  <2>8. CASE ClearCheck(c)
    BY <2>8 DEF ClearCheck, AtCommand
  <2>9. CASE Clear(c)
    BY <2>9 DEF Clear
  <2>10. CASE CompactStart(c)
    BY <2>10 DEF CompactStart, AtCommand
  <2>11. CASE CompactEnd(c)
    BY <2>11 DEF CompactEnd
  <2>12. QED
    BY <1>6, <2>1, <2>2, <2>3, <2>4, <2>5, <2>6, <2>7, <2>8, <2>9, <2>10, <2>11 DEF Command
<1>7. ASSUME NEW c \in Clients, Turn(c) PROVE RunningHasOwner'
  <2>1. CASE LoopExit(c)
    BY <2>1 DEF LoopExit
  <2>2. CASE TurnStart(c)
    BY <2>2 DEF TurnStart
  <2>3. CASE PreTurnBlocked(c)
    BY <2>3 DEF PreTurnBlocked
  <2>21. CASE NewSession(c)
    BY <2>21 DEF NewSession
  <2>4. CASE OpenTurn(c)
    <3>1. handle'[c] = currentAction' /\ pc'[c] \in HandlePcs
      BY <2>4 DEF StoreHandle, OpenTurn
    <3>2. QED
      BY <3>1
  <2>5. CASE PreCompact(c)
    BY <2>5 DEF PreCompact
  <2>6. CASE PreCompacted(c)
    BY <2>6 DEF PreCompacted
  <2>7. CASE CapReject(c)
    BY <2>7 DEF CapReject
  <2>8. CASE StartRun(c)
    BY <2>8 DEF StartRun
  <2>9. CASE ToolResult(c)
    BY <2>9 DEF ToolResult
  <2>10. CASE MidCompact(c)
    BY <2>10 DEF MidCompact
  <2>11. CASE MidCompacted(c)
    BY <2>11 DEF MidCompacted
  <2>12. CASE OverflowCompact(c)
    BY <2>12 DEF OverflowCompact
  <2>13. CASE OverflowRetry(c)
    <3>1. handle'[c] = currentAction' /\ pc'[c] \in HandlePcs
      BY <2>13 DEF StoreHandle, OverflowRetry
    <3>2. QED
      BY <3>1
  <2>14. CASE OverflowGiveUp(c)
    BY <2>14 DEF OverflowGiveUp
  <2>15. CASE EndRun(c)
    BY <2>15 DEF EndRun
  <2>16. CASE HookContinue(c)
    BY <2>16 DEF HookContinue
  <2>17. CASE HookDone(c)
    BY <2>17 DEF HookDone
  <2>18. CASE TakeInject(c)
    BY <2>18 DEF TakeInject
  <2>19. CASE PopNext(c)
    BY <2>19 DEF PopNext
  <2>20. QED
    BY <1>7, <2>1, <2>2, <2>3, <2>4, <2>5, <2>6, <2>7, <2>8, <2>9, <2>10,
       <2>11, <2>12, <2>13, <2>14, <2>15, <2>16, <2>17, <2>18, <2>19, <2>21 DEF Turn
<1>8. ASSUME NEW c \in Clients, Unwind(c) PROVE RunningHasOwner'
  <2>1. CASE Panic(c)
    BY <2>1 DEF Panic
  <2>2. CASE RecoverSwap(c)
    BY <2>2 DEF RecoverSwap
  <2>3. CASE RecoverIdle(c)
    BY <2>3 DEF RecoverIdle
  <2>4. QED
    BY <1>8, <2>1, <2>2, <2>3 DEF Unwind
<1>9. QED
  BY <1>1, <1>2, <1>3, <1>4, <1>5, <1>6, <1>7, <1>8 DEF Next, Step

(* Interrupt reaches every running turn, for any number of clients.  The   *)
(* lock discipline is needed: without it a second turn could publish its   *)
(* handle over that of the first.                                          *)
THEOREM TurnsInterruptible == Spec => []RunInterruptible
<1>1. Init => RunInterruptible
  BY DEF Init, RunInterruptible, HandlePcs, RunRegion
<1>2. QED
  BY <1>1, InterruptibleStep, Safety, PTL DEF Spec

(* The published state cannot get stuck at "thinking" or "compacting".     *)
THEOREM StateSettles == Spec => []SettlesIdle
<1>1. Init => SettlesIdle
  BY DEF Init, SettlesIdle
<1>2. QED
  BY <1>1, SettlesStep, Safety, PTL DEF Spec, Safe

(* IsRunning cannot get stuck at true.                                     *)
THEOREM RunningEnds == Spec => []RunningHasOwner
<1>1. Init => RunningHasOwner
  BY DEF Init, RunningHasOwner, Running
<1>2. QED
  BY <1>1, OwnerStep, Safety, PTL DEF Spec, Safe

=============================================================================
