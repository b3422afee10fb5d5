----------------------------- MODULE MailboxProofs -----------------------------
(***************************************************************************)
(* What becomes of prompts, for all clients and prompts: AgentCore         *)
(* neither loses a prompt nor serves one twice, and implements the mailbox *)
(* of PromptMailbox.                                                       *)
(*                                                                         *)
(* A prompt has three kinds of places: the hand of a call, the FIFO, the   *)
(* pending inject.  That it is in one of them only is inductive together   *)
(* with the fate that goes with being in a place, and with knowing at      *)
(* which positions a call may hold a prompt at all: everywhere else the    *)
(* code overwrites the variable without looking.                           *)
(***************************************************************************)
EXTENDS AgentCoreProofs, FiniteSetTheorems

Full(c) == input[c] \in Prompts

(* Positions at which a call may hold a prompt.                            *)
MayHold(c) ==
  \/ pc[c] \in {"injectPush", "loop", "again"}
  \/ pc[c] \in {"wait", "fast", "locked"} /\ op[c] \in PromptOps

HandsEmpty == \A c \in Clients : Full(c) => MayHold(c)

(* No prompt is in two places.                                             *)
Apart ==
  /\ \A c, d \in Clients : Full(c) /\ input[c] = input[d] => c = d
  /\ \A i, j \in 1 .. Len(fifo) : fifo[i] = fifo[j] => i = j
  /\ \A c \in Clients, i \in 1 .. Len(fifo) : input[c] # fifo[i]
  /\ \A c \in Clients : Full(c) => input[c] # pendingInject
  /\ \A i \in 1 .. Len(fifo) : fifo[i] # pendingInject

(* A prompt is open if and only if it is in a place.                       *)
InHand(p) == \E c \in Clients : input[c] = p
Queued(p) == \E i \in 1 .. Len(fifo) : fifo[i] = p

Accounted ==
  \A p \in Prompts : fate[p] = "open" <=> InHand(p) \/ Queued(p) \/ pendingInject = p

MailInv == Apart /\ Accounted

-----------------------------------------------------------------------------
(* What a step may do to the prompts.                                      *)

(* No prompt moves.                                                        *)
Still ==
  /\ UNCHANGED <<fate, fifo, pendingInject>>
  /\ input' \in [Clients -> Prompts \cup {Null, HookPrompt}]
  /\ \A c \in Clients : input'[c] = input[c] \/ (~Full(c) /\ input'[c] \notin Prompts)

(* A caller hands one over.                                                *)
Receives(c, p) ==
  /\ ~Full(c) /\ fate[p] = "new"
  /\ fate' = [fate EXCEPT ![p] = "open"]
  /\ input' = [input EXCEPT ![c] = p]
  /\ UNCHANGED <<fifo, pendingInject>>

Enqueues(p) ==
  /\ fate[p] = "new"
  /\ fate' = [fate EXCEPT ![p] = "open"]
  /\ fifo' = Append(fifo, p)
  /\ UNCHANGED <<input, pendingInject>>

(* From a hand to the FIFO, or to the pending inject, where it replaces    *)
(* what is there.                                                          *)
ToQueue(c) ==
  /\ Full(c)
  /\ fifo' = Append(fifo, input[c])
  /\ input' = [input EXCEPT ![c] = Null]
  /\ UNCHANGED <<fate, pendingInject>>

ToInject(c) ==
  /\ Full(c)
  /\ pendingInject' = input[c]
  /\ fate' = [p \in Prompts |-> IF p = pendingInject THEN "replaced" ELSE fate[p]]
  /\ input' = [input EXCEPT ![c] = Null]
  /\ UNCHANGED fifo

(* From the pending inject, or from the FIFO, to a hand.                   *)
FromInject(c) ==
  /\ ~Full(c)
  /\ input' = [input EXCEPT ![c] = pendingInject]
  /\ pendingInject' = Null
  /\ UNCHANGED <<fate, fifo>>

FromQueue(c) ==
  /\ ~Full(c) /\ fifo # <<>>
  /\ input' = [input EXCEPT ![c] = Head(fifo)]
  /\ fifo' = Tail(fifo)
  /\ UNCHANGED <<fate, pendingInject>>

(* Disposed of: from a hand, from the pending inject, from the FIFO.       *)
Spends(c, how) ==
  /\ fate' = [p \in Prompts |-> IF p = input[c] THEN how ELSE fate[p]]
  /\ input' = [input EXCEPT ![c] = Null]
  /\ UNCHANGED <<fifo, pendingInject>>

Delivers ==
  /\ pendingInject # Null
  /\ fate' = [p \in Prompts |-> IF p = pendingInject THEN "tool" ELSE fate[p]]
  /\ pendingInject' = Null
  /\ UNCHANGED <<input, fifo>>

GivesBack ==
  /\ fifo # <<>>
  /\ fate' = [fate EXCEPT ![Head(fifo)] = "popped"]
  /\ fifo' = Tail(fifo)
  /\ UNCHANGED <<input, pendingInject>>

-----------------------------------------------------------------------------
(* The FIFO without its head, and with a prompt more.                      *)
LEMMA TailOf ==
  ASSUME TypeOK, fifo # <<>>
  PROVE  /\ Head(fifo) = fifo[1] /\ 1 \in 1 .. Len(fifo) /\ Head(fifo) \in Prompts
         /\ Tail(fifo) \in Seq(Prompts) /\ Len(Tail(fifo)) = Len(fifo) - 1
         /\ \A i \in 1 .. Len(fifo) - 1 : Tail(fifo)[i] = fifo[i + 1]
  BY HeadTailProperties DEF TypeOK

LEMMA AppendOf ==
  ASSUME TypeOK, NEW p \in Prompts
  PROVE  /\ Append(fifo, p) \in Seq(Prompts) /\ Len(Append(fifo, p)) = Len(fifo) + 1
         /\ \A i \in 1 .. Len(fifo) : Append(fifo, p)[i] = fifo[i]
         /\ Append(fifo, p)[Len(fifo) + 1] = p
  BY AppendProperties DEF TypeOK

LEMMA FifoFacts ==
  ASSUME TypeOK
  PROVE  Len(fifo) \in Nat /\ \A i \in 1 .. Len(fifo) : fifo[i] \in Prompts
  BY LenProperties, ElementOfSeq DEF TypeOK

(* Appending puts one prompt in.                                           *)
LEMMA QueuedAppend ==
  ASSUME TypeOK, NEW p \in Prompts, fifo' = Append(fifo, p)
  PROVE  \A q \in Prompts : Queued(q)' <=> Queued(q) \/ q = p
<1>1. \A i \in 1 .. Len(fifo) : fifo'[i] = fifo[i]
  BY AppendOf
<1>2. Len(fifo') = Len(fifo) + 1 /\ fifo'[Len(fifo) + 1] = p /\ Len(fifo) \in Nat
  BY AppendOf, FifoFacts
<1> QED
  BY <1>1, <1>2 DEF Queued

(* Taking the head off takes one prompt out.                               *)
LEMMA QueuedTail ==
  ASSUME TypeOK, Apart, fifo # <<>>, fifo' = Tail(fifo)
  PROVE  \A q \in Prompts : Queued(q)' <=> Queued(q) /\ q # fifo[1]
<1> SUFFICES ASSUME NEW q \in Prompts PROVE Queued(q)' <=> Queued(q) /\ q # fifo[1]
  OBVIOUS
<1>1. ASSUME Queued(q)' PROVE Queued(q) /\ q # fifo[1]
  BY <1>1, TailOf, FifoFacts DEF Queued, Apart
<1>2. ASSUME Queued(q), q # fifo[1] PROVE Queued(q)'
  <2>1. PICK i \in 1 .. Len(fifo) : fifo[i] = q
    BY <1>2 DEF Queued
  <2>2. i - 1 \in 1 .. Len(fifo') /\ fifo'[i - 1] = q
    BY <1>2, <2>1, TailOf, FifoFacts
  <2> QED
    BY <2>2 DEF Queued
<1> QED
  BY <1>1, <1>2

(* Each of these steps keeps every open prompt in one place.               *)
LEMMA MailMoves ==
  ASSUME TypeOK, MailInv,
         \/ Still \/ Delivers \/ GivesBack
         \/ \E p \in Prompts : Enqueues(p) \/ \E c \in Clients : Receives(c, p)
         \/ \E c \in Clients :
              \/ ToQueue(c) \/ ToInject(c) \/ FromInject(c) \/ FromQueue(c)
              \/ \E how \in Fates \ {"open"} : Spends(c, how)
  PROVE  MailInv'
<1> USE CoreAssumption, FifoFacts DEF TypeOK, MailInv, Full, Fates
<1>0. /\ \A q \in Prompts : q = pendingInject => ~InHand(q) /\ ~Queued(q)
      /\ \A q \in Prompts : ~(InHand(q) /\ Queued(q))
  BY DEF Apart, InHand, Queued
<1>1. CASE Still
  <2>1. Apart'
    BY <1>1 DEF Still, Apart
  <2>2. \A q \in Prompts : (InHand(q)' <=> InHand(q)) /\ (Queued(q)' <=> Queued(q))
    BY <1>1 DEF Still, InHand, Queued
  <2> QED
    BY <1>1, <2>1, <2>2 DEF Still, Accounted
<1>2. CASE Delivers
  <2>1. Apart'
    BY <1>2 DEF Delivers, Apart
  <2>2. \A q \in Prompts : (InHand(q)' <=> InHand(q)) /\ (Queued(q)' <=> Queued(q))
    BY <1>2 DEF Delivers, InHand, Queued
  <2> QED
    BY <1>0, <1>2, <2>1, <2>2 DEF Delivers, Accounted
<1>3. CASE GivesBack
  <2>1. Apart'
    BY <1>3, TailOf DEF GivesBack, Apart
  <2>2. \A q \in Prompts : InHand(q)' <=> InHand(q)
    BY <1>3 DEF GivesBack, InHand
  <2>3. \A q \in Prompts : Queued(q)' <=> Queued(q) /\ q # fifo[1]
    BY <1>3, QueuedTail DEF GivesBack
  <2>4. ~InHand(fifo[1]) /\ pendingInject # fifo[1]
    BY <1>3, TailOf DEF GivesBack, Apart, InHand
  <2> QED
    BY <1>3, <2>1, <2>2, <2>3, <2>4, TailOf DEF GivesBack, Accounted
<1>4. ASSUME NEW p \in Prompts, Enqueues(p) PROVE MailInv'
  <2>1. ~InHand(p) /\ ~Queued(p) /\ pendingInject # p
    BY <1>4 DEF Enqueues, Accounted
  <2>2. Apart'
    BY <1>4, <2>1, AppendOf DEF Enqueues, Apart, InHand, Queued
  <2>3. \A q \in Prompts : InHand(q)' <=> InHand(q)
    BY <1>4 DEF Enqueues, InHand
  <2>4. \A q \in Prompts : Queued(q)' <=> Queued(q) \/ q = p
    BY <1>4, QueuedAppend DEF Enqueues
  <2> QED
    BY <1>4, <2>2, <2>3, <2>4 DEF Enqueues, Accounted
<1>5. ASSUME NEW p \in Prompts, NEW c \in Clients, Receives(c, p) PROVE MailInv'
  <2>1. ~InHand(p) /\ ~Queued(p) /\ pendingInject # p
    BY <1>5 DEF Receives, Accounted
  <2>2. Apart'
    BY <1>5, <2>1 DEF Receives, Apart, InHand, Queued
  <2>3. \A q \in Prompts : InHand(q)' <=> InHand(q) \/ q = p
    BY <1>5 DEF Receives, InHand
  <2>4. \A q \in Prompts : Queued(q)' <=> Queued(q)
    BY <1>5 DEF Receives, Queued
  <2> QED
    BY <1>5, <2>2, <2>3, <2>4 DEF Receives, Accounted
<1>6. ASSUME NEW c \in Clients, ToQueue(c) PROVE MailInv'
  <2>1. Apart'
    BY <1>6, AppendOf DEF ToQueue, Apart
  <2>2. \A q \in Prompts : Queued(q)' <=> Queued(q) \/ q = input[c]
    BY <1>6, QueuedAppend DEF ToQueue
  <2>3. \A q \in Prompts : InHand(q)' <=> InHand(q) /\ q # input[c]
    BY <1>6 DEF ToQueue, Apart, InHand
  <2>4. InHand(input[c])
    BY DEF InHand
  <2> QED
    BY <1>6, <2>1, <2>2, <2>3, <2>4 DEF ToQueue, Accounted
<1>7. ASSUME NEW c \in Clients, ToInject(c) PROVE MailInv'
  <2>1. Apart'
    BY <1>7 DEF ToInject, Apart
  <2>2. \A q \in Prompts : InHand(q)' <=> InHand(q) /\ q # input[c]
    BY <1>7 DEF ToInject, Apart, InHand
  <2>3. \A q \in Prompts : Queued(q)' <=> Queued(q)
    BY <1>7 DEF ToInject, Queued
  <2>4. InHand(input[c])
    BY DEF InHand
  <2> QED
    BY <1>0, <1>7, <2>1, <2>2, <2>3, <2>4 DEF ToInject, Accounted
<1>8. ASSUME NEW c \in Clients, FromInject(c) PROVE MailInv'
  <2>1. Apart'
    BY <1>8 DEF FromInject, Apart
  <2>2. \A q \in Prompts : InHand(q)' <=> InHand(q) \/ q = pendingInject
    BY <1>8 DEF FromInject, InHand
  <2>3. \A q \in Prompts : Queued(q)' <=> Queued(q)
    BY <1>8 DEF FromInject, Queued
  <2> QED
    BY <1>8, <2>1, <2>2, <2>3 DEF FromInject, Accounted
<1>9. ASSUME NEW c \in Clients, FromQueue(c) PROVE MailInv'
  <2>1. Apart'
    BY <1>9, TailOf DEF FromQueue, Apart
  <2>2. \A q \in Prompts : Queued(q)' <=> Queued(q) /\ q # fifo[1]
    BY <1>9, QueuedTail DEF FromQueue
  <2>3. \A q \in Prompts : InHand(q)' <=> InHand(q) \/ q = fifo[1]
    BY <1>9, TailOf DEF FromQueue, InHand
  <2>4. Queued(fifo[1])
    BY <1>9, TailOf DEF FromQueue, Queued
  <2> QED
    BY <1>9, <2>1, <2>2, <2>3, <2>4 DEF FromQueue, Accounted
<1>10. ASSUME NEW c \in Clients, NEW how \in Fates \ {"open"}, Spends(c, how) PROVE MailInv'
  <2>1. Apart'
    BY <1>10 DEF Spends, Apart
  <2>2. \A q \in Prompts : InHand(q)' <=> InHand(q) /\ q # input[c]
    BY <1>10 DEF Spends, Apart, InHand
  <2>3. \A q \in Prompts : Queued(q)' <=> Queued(q)
    BY <1>10 DEF Spends, Queued
  <2>4. InHand(input[c])
    BY DEF InHand
  <2> QED
    BY <1>0, <1>10, <2>1, <2>2, <2>3, <2>4 DEF Spends, Accounted
<1> QED
  BY <1>1, <1>2, <1>3, <1>4, <1>5, <1>6, <1>7, <1>8, <1>9, <1>10

-----------------------------------------------------------------------------
(* Every step of the agent is one of these moves, as far as prompts go.    *)
Move ==
  \/ Still \/ Delivers \/ GivesBack
  \/ \E p \in Prompts : Enqueues(p) \/ \E c \in Clients : Receives(c, p)
  \/ \E c \in Clients :
       \/ ToQueue(c) \/ ToInject(c) \/ FromInject(c) \/ FromQueue(c)
       \/ \E how \in Fates \ {"open"} : Spends(c, how)

(* A call that returns, or panics, without a prompt.                       *)
LEMMA LeaveStill ==
  ASSUME TypeOK, NEW c \in Clients, NEW l \in Pcs, Leave(c, l), ~Full(c),
         UNCHANGED <<fate, fifo, pendingInject>>
  PROVE  Still
  BY CoreAssumption DEF Still, Leave, TypeOK, Full

LEMMA StepMoves ==
  ASSUME Safe, HandsEmpty, [Next]_vars
  PROVE  Move
<1> USE CoreAssumption, PcSets
    DEF Safe, TypeOK, HandsEmpty, HandsFull, MayHold, Full, Goto, Return, turnVars, mail, LoopHead,
        AtCommand, PromptOps, CommandOps, Fates
<1>1. ASSUME UNCHANGED <<input, fate, fifo, pendingInject>> PROVE Move
  BY <1>1 DEF Move, Still
<1>2. CASE UNCHANGED vars
  BY <1>1, <1>2 DEF vars
<1>3. CASE Call
  <2>1. ASSUME NEW c \in Clients, Submit(c) PROVE Move
    <3>1. CASE UNCHANGED <<input, fate>>
      BY <1>1, <2>1, <3>1 DEF Submit
    <3>2. ASSUME NEW p \in Prompts, fate[p] = "new", fate' = [fate EXCEPT ![p] = "open"],
                 input' = [input EXCEPT ![c] = p]
          PROVE  Move
      <4>1. Receives(c, p)
        BY <2>1, <3>2 DEF Submit, Receives
      <4> QED
        BY <4>1 DEF Move
    <3> QED
      BY <2>1, <3>1, <3>2 DEF Submit
  <2>2. ASSUME NEW c \in Clients, InjectCall(c) PROVE Move
    <3>1. PICK p \in Prompts : Receives(c, p)
      BY <2>2 DEF InjectCall, Receives
    <3> QED
      BY <3>1 DEF Move
  <2>3. ASSUME NEW c \in Clients, Interrupt(c) \/ CancelCtx(c) PROVE Move
    BY <1>1, <2>3 DEF Interrupt, CancelCtx
  <2>4. ASSUME NEW p \in Prompts, Queue(p) PROVE Move
    <3>1. Enqueues(p)
      BY <2>4 DEF Queue, Enqueues
    <3> QED
      BY <3>1 DEF Move
  <2>5. CASE PopQueue
    BY <2>5 DEF PopQueue, Move, GivesBack
  <2> QED
    BY <1>3, <2>1, <2>2, <2>3, <2>4, <2>5 DEF Call
<1>4. ASSUME NEW c \in Clients, AcquireLock(c) \/ RunReturn(c) \/ InterruptCancel(c) PROVE Move
  BY <1>1, <1>4 DEF AcquireLock, RunReturn, InterruptCancel
<1>5. ASSUME NEW c \in Clients, Command(c) PROVE Move
  <2>1. CASE Enqueue(c) \/ InjectPush(c)
    <3>1. ToQueue(c)
      BY <2>1 DEF Enqueue, InjectPush, ToQueue, Leave
    <3> QED
      BY <3>1 DEF Move
  <2>2. CASE InjectStore(c) \/ InjectRewrite(c)
    <3>1. ToInject(c)
      BY <2>2 DEF InjectStore, InjectRewrite, ToInject, Leave
    <3> QED
      BY <3>1 DEF Move
  <2>3. CASE EnterLoop(c) \/ InjectFull(c) \/ ClearCheck(c) \/ CompactStart(c)
    BY <1>1, <2>3 DEF EnterLoop, InjectFull, ClearCheck, CompactStart
  <2>4. CASE CommandRefused(c) \/ Clear(c) \/ CompactEnd(c)
    <3>1. ~Full(c)
      BY <2>4 DEF CommandRefused, Clear, CompactEnd
    <3>2. Still
      BY <2>4, <3>1, LeaveStill DEF CommandRefused, Clear, CompactEnd
    <3> QED
      BY <3>2 DEF Move
  <2> QED
    BY <1>5, <2>1, <2>2, <2>3, <2>4 DEF Command
<1>6. ASSUME NEW c \in Clients, Turn(c) PROVE Move
  <2>1. CASE LoopExit(c)
    <3>1. Spends(c, "abandoned")
      BY <2>1 DEF LoopExit, Spends, Leave
    <3> QED
      BY <3>1 DEF Move
  <2>2. CASE TurnStart(c)
    <3>1. Spends(c, "turn")
      BY <2>2 DEF TurnStart, Spends
    <3> QED
      BY <3>1 DEF Move
  <2>3. CASE ToolResult(c)
    BY <2>3 DEF ToolResult, Move, Delivers
  <2>4. CASE HookContinue(c)
    BY <2>4 DEF HookContinue, Move, Still
  <2>5. CASE TakeInject(c)
    <3>1. FromInject(c)
      BY <2>5 DEF TakeInject, FromInject
    <3> QED
      BY <3>1 DEF Move
  <2>6. CASE PopNext(c)
    <3>1. CASE UNCHANGED <<input, fifo>>
      BY <1>1, <2>6, <3>1 DEF PopNext
    <3>2. CASE ~UNCHANGED <<input, fifo>>
      <4>1. FromQueue(c)
        BY <2>6, <3>2 DEF PopNext, FromQueue
      <4> QED
        BY <4>1 DEF Move
    <3> QED
      BY <3>1, <3>2
  <2>7. CASE \/ PreTurnBlocked(c) \/ NewSession(c) \/ OpenTurn(c)
             \/ PreCompact(c) \/ PreCompacted(c)
             \/ CapReject(c) \/ StartRun(c) \/ MidCompact(c) \/ MidCompacted(c)
             \/ OverflowCompact(c) \/ OverflowRetry(c) \/ OverflowGiveUp(c)
             \/ EndRun(c) \/ HookDone(c)
    BY <1>1, <2>7 DEF PreTurnBlocked, NewSession, OpenTurn, PreCompact, PreCompacted, CapReject, StartRun,
       MidCompact, MidCompacted, OverflowCompact, OverflowRetry, OverflowGiveUp, EndRun, HookDone
  <2> QED
    BY <1>6, <2>1, <2>2, <2>3, <2>4, <2>5, <2>6, <2>7 DEF Turn
<1>7. ASSUME NEW c \in Clients, Unwind(c) PROVE Move
  <2>1. CASE Panic(c)
    <3>1. ~Full(c)
      BY <2>1 DEF Panic
    <3>2. Still
      BY <2>1, <3>1, LeaveStill DEF Panic
    <3> QED
      BY <3>2 DEF Move
  <2>2. CASE RecoverSwap(c) \/ RecoverIdle(c)
    BY <1>1, <2>2 DEF RecoverSwap, RecoverIdle
  <2> QED
    BY <1>7, <2>1, <2>2 DEF Unwind
<1> QED
  BY <1>2, <1>3, <1>4, <1>5, <1>6, <1>7 DEF Next, Step

-----------------------------------------------------------------------------
(* A call holds a prompt at few positions only.                            *)
LEMMA HandsEmptyStep == Safe /\ HandsEmpty /\ [Next]_vars => HandsEmpty'
<1> SUFFICES ASSUME Safe, HandsEmpty, [Next]_vars PROVE HandsEmpty'
  OBVIOUS
<1> USE CoreAssumption, PcSets
    DEF Safe, TypeOK, HandsEmpty, MayHold, Full, Goto, Leave, Return, turnVars, mail, LoopHead,
        AtCommand, PromptOps, CommandOps, StoreHandle, ClearHandle
<1>1. CASE UNCHANGED vars
  BY <1>1 DEF vars
<1>2. CASE Call
  <2>1. ASSUME NEW c \in Clients, Submit(c) PROVE HandsEmpty'
    BY <2>1 DEF Submit
  <2>2. ASSUME NEW c \in Clients, InjectCall(c) PROVE HandsEmpty'
    BY <2>2 DEF InjectCall
  <2>3. ASSUME NEW c \in Clients, Interrupt(c) \/ CancelCtx(c) PROVE HandsEmpty'
    BY <2>3 DEF Interrupt, CancelCtx
  <2>4. CASE PopQueue \/ \E p \in Prompts : Queue(p)
    BY <2>4 DEF PopQueue, Queue
  <2> QED
    BY <1>2, <2>1, <2>2, <2>3, <2>4 DEF Call
<1>3. ASSUME NEW c \in Clients, AcquireLock(c) PROVE HandsEmpty'
  BY <1>3 DEF AcquireLock
<1>4. ASSUME NEW c \in Clients, RunReturn(c) PROVE HandsEmpty'
  BY <1>4 DEF RunReturn
<1>5. ASSUME NEW c \in Clients, InterruptCancel(c) PROVE HandsEmpty'
  BY <1>5 DEF InterruptCancel
<1>6. ASSUME NEW c \in Clients, Command(c) PROVE HandsEmpty'
  <2>1. CASE Enqueue(c)
    BY <2>1 DEF Enqueue
  <2>7. CASE InjectPush(c)
    BY <2>7 DEF InjectPush
  <2>2. CASE EnterLoop(c) \/ InjectFull(c)
    BY <2>2 DEF EnterLoop, InjectFull
  <2>3. CASE ClearCheck(c) \/ CompactStart(c)
    BY <2>3 DEF ClearCheck, CompactStart
  <2>4. CASE CommandRefused(c) \/ Clear(c) \/ CompactEnd(c)
    BY <2>4 DEF CommandRefused, Clear, CompactEnd
  <2>5. CASE InjectStore(c)
    BY <2>5 DEF InjectStore
  <2>6. CASE InjectRewrite(c)
    BY <2>6 DEF InjectRewrite
  <2> QED
    BY <1>6, <2>1, <2>2, <2>3, <2>4, <2>5, <2>6, <2>7 DEF Command
<1>7. ASSUME NEW c \in Clients, Turn(c) PROVE HandsEmpty'
  <2>1. CASE LoopExit(c)
    BY <2>1 DEF LoopExit
  <2>8. CASE TurnStart(c)
    BY <2>8 DEF TurnStart
  <2>2. CASE ToolResult(c)
    BY <2>2 DEF ToolResult
  <2>3. CASE HookContinue(c) \/ HookDone(c)
    BY <2>3 DEF HookContinue, HookDone
  <2>9. CASE TakeInject(c)
    BY <2>9 DEF TakeInject
  <2>4. CASE PopNext(c)
    BY <2>4 DEF PopNext
  <2>5. CASE PreTurnBlocked(c) \/ NewSession(c) \/ OpenTurn(c) \/ PreCompact(c) \/ PreCompacted(c)
    BY <2>5 DEF PreTurnBlocked, NewSession, OpenTurn, PreCompact, PreCompacted
  <2>6. CASE CapReject(c) \/ StartRun(c) \/ MidCompact(c) \/ MidCompacted(c)
    BY <2>6 DEF CapReject, StartRun, MidCompact, MidCompacted
  <2>7. CASE OverflowCompact(c) \/ OverflowRetry(c) \/ OverflowGiveUp(c) \/ EndRun(c)
    BY <2>7 DEF OverflowCompact, OverflowRetry, OverflowGiveUp, EndRun
  <2> QED
    BY <1>7, <2>1, <2>2, <2>3, <2>4, <2>5, <2>6, <2>7, <2>8, <2>9 DEF Turn
<1>8. ASSUME NEW c \in Clients, Unwind(c) PROVE HandsEmpty'
  <2>1. CASE Panic(c)
    BY <2>1 DEF Panic
  <2>2. CASE RecoverSwap(c) \/ RecoverIdle(c)
    BY <2>2 DEF RecoverSwap, RecoverIdle
  <2> QED
    BY <1>8, <2>1, <2>2 DEF Unwind
<1> QED
  BY <1>1, <1>2, <1>3, <1>4, <1>5, <1>6, <1>7, <1>8 DEF Next, Step

(* The strengthened invariant holds in every execution.                    *)
THEOREM MailSafety == Spec => [](HandsEmpty /\ MailInv)
<1>1. Init => HandsEmpty /\ MailInv
  BY CoreAssumption DEF Init, HandsEmpty, MailInv, Apart, Accounted, Full, InHand, Queued
<1>2. Safe /\ HandsEmpty /\ MailInv /\ [Next]_vars => HandsEmpty' /\ MailInv'
  BY HandsEmptyStep, StepMoves, MailMoves DEF Move, Safe
<1> QED
  BY <1>1, <1>2, Safety, PTL DEF Spec

(* The places of a prompt, as the invariant counts them.                   *)
LEMMA PlacesOf ==
  ASSUME TypeOK, MailInv, NEW p \in Prompts
  PROVE  /\ Places(p) = {} <=> fate[p] # "open"
         /\ Cardinality(Places(p)) = (IF fate[p] = "open" THEN 1 ELSE 0)
<1> USE DEF TypeOK, MailInv, Full
<1>0. DOMAIN fifo = 1 .. Len(fifo)
  BY LenProperties
<1>1. CASE InHand(p)
  <2>1. PICK c \in Clients : input[c] = p
    BY <1>1 DEF InHand
  <2>2. Places(p) = {<<"call", c>>}
    BY <1>0, <2>1 DEF Places, Apart
  <2> QED
    BY <1>1, <2>2, FS_Singleton DEF Accounted
<1>2. CASE Queued(p)
  <2>1. PICK i \in 1 .. Len(fifo) : fifo[i] = p
    BY <1>2 DEF Queued
  <2>2. Places(p) = {<<"fifo", i>>}
    BY <1>0, <2>1 DEF Places, Apart
  <2> QED
    BY <1>2, <2>2, FS_Singleton DEF Accounted
<1>3. CASE pendingInject = p
  <2>1. Places(p) = {<<"inject", p>>}
    BY <1>0, <1>3 DEF Places, Apart
  <2> QED
    BY <1>3, <2>1, FS_Singleton DEF Accounted
<1>4. CASE ~InHand(p) /\ ~Queued(p) /\ pendingInject # p
  <2>1. Places(p) = {}
    BY <1>0, <1>4 DEF Places, InHand, Queued
  <2> QED
    BY <1>4, <2>1, FS_EmptySet DEF Accounted
<1> QED
  BY <1>1, <1>2, <1>3, <1>4

(* No prompt is lost and none is served twice, for any number of clients   *)
(* and prompts: Submit, Inject, Queue, PopQueue, the turn loop, a tool     *)
(* result and a panic each move a prompt from one place to another, or     *)
(* dispose of it.                                                          *)
THEOREM NoPromptLost == Spec => []PromptsConserved
<1>1. Safe /\ MailInv => PromptsConserved
  BY PlacesOf DEF Safe, PromptsConserved
<1> QED
  BY <1>1, Safety, MailSafety, PTL

-----------------------------------------------------------------------------
(* The refinement.                                                         *)

Serving == \E c \in Clients : InTurn(c)

PendingIsOpen ==
  {p \in Prompts : Places(p) # {}} = {p \in Prompts : fate[p] = "open"}

LEMMA AlwaysPendingIsOpen == Spec => []PendingIsOpen
<1>1. Safe /\ MailInv => PendingIsOpen
  BY PlacesOf DEF Safe, PendingIsOpen
<1> QED
  BY <1>1, Safety, MailSafety, PTL

(* A turn is only begun by TurnStart.                                      *)
LEMMA TurnBegins ==
  ASSUME TypeOK, [Next]_vars, NEW d \in Clients, pc'[d] \in TurnPcs, pc[d] \notin TurnPcs
  PROVE  TurnStart(d)
<1> USE CoreAssumption, PcSets
    DEF TypeOK, Goto, Leave, Return, TurnPcs, Prologue, RunRegion, Epilogue, LoopHead
<1>1. pc' # pc
  OBVIOUS
<1>2. CASE Call
  BY <1>1, <1>2 DEF Call, Submit, InjectCall, Interrupt, CancelCtx, Queue, PopQueue
<1>3. ASSUME NEW c \in Clients, AcquireLock(c) PROVE FALSE
  BY <1>3 DEF AcquireLock
<1>4. ASSUME NEW c \in Clients, RunReturn(c) PROVE FALSE
  BY <1>4 DEF RunReturn
<1>5. ASSUME NEW c \in Clients, InterruptCancel(c) \/ Unwind(c) PROVE FALSE
  BY <1>5 DEF InterruptCancel, Unwind, Panic, RecoverSwap, RecoverIdle
<1>6. ASSUME NEW c \in Clients, Command(c) PROVE FALSE
  BY <1>6 DEF Command, Enqueue, EnterLoop, InjectStore, InjectFull, InjectPush, InjectRewrite,
     CommandRefused, ClearCheck, Clear, CompactStart, CompactEnd
<1>7. ASSUME NEW c \in Clients, Turn(c) PROVE TurnStart(d)
  <2>1. CASE TurnStart(c)
    <3>1. c = d
      BY <2>1 DEF TurnStart
    <3> QED
      BY <2>1, <3>1
  <2>2. CASE \/ LoopExit(c) \/ PreTurnBlocked(c) \/ NewSession(c) \/ OpenTurn(c)
             \/ PreCompact(c) \/ PreCompacted(c)
    BY <2>2 DEF LoopExit, PreTurnBlocked, NewSession, OpenTurn, PreCompact, PreCompacted
  <2>3. CASE CapReject(c) \/ StartRun(c) \/ ToolResult(c) \/ MidCompact(c) \/ MidCompacted(c)
    BY <1>1, <2>3 DEF CapReject, StartRun, ToolResult, MidCompact, MidCompacted
  <2>4. CASE OverflowCompact(c) \/ OverflowRetry(c) \/ OverflowGiveUp(c) \/ EndRun(c)
    BY <2>4 DEF OverflowCompact, OverflowRetry, OverflowGiveUp, EndRun
  <2>5. CASE HookContinue(c) \/ HookDone(c) \/ TakeInject(c) \/ PopNext(c)
    BY <2>5 DEF HookContinue, HookDone, TakeInject, PopNext
  <2> QED
    BY <1>7, <2>1, <2>2, <2>3, <2>4, <2>5 DEF Turn
<1> QED
  BY <1>1, <1>2, <1>3, <1>4, <1>5, <1>6, <1>7 DEF Next, Step, vars

(* What may become of prompts in a step, with the turns it leaves alone.   *)
TurnsKept == \A d \in Clients : InTurn(d)' <=> InTurn(d)

Fated(p, from, to) ==
  p \in Prompts /\ fate[p] = from /\ fate' = [fate EXCEPT ![p] = to]

LEMMA FateSame ==
  ASSUME TypeOK, NEW x, NEW how, x \notin Prompts,
         fate' = [p \in Prompts |-> IF p = x THEN how ELSE fate[p]]
  PROVE  UNCHANGED fate
  BY DEF TypeOK

LEMMA FateSteps ==
  ASSUME Safe, MailInv, [Next]_vars
  PROVE  \/ UNCHANGED fate
         \/ \E c \in Clients : TurnStart(c)
         \/ TurnsKept /\ \E p \in Prompts :
              \/ Fated(p, "new", "open")
              \/ \E how \in {"popped", "replaced", "abandoned"} : Fated(p, "open", how)
              \/ Fated(p, "open", "tool") /\ Serving
<1> USE CoreAssumption, PcSets
    DEF Safe, TypeOK, Goto, Leave, Return, TurnPcs, Prologue, RunRegion, Epilogue, LoopHead,
        TurnsKept, InTurn, Fated, turnVars, mail, AtCommand
<1>1. CASE Call
  <2>1. ASSUME NEW c \in Clients, Submit(c) \/ InjectCall(c)
        PROVE  UNCHANGED fate \/ (TurnsKept /\ \E p \in Prompts : Fated(p, "new", "open"))
    <3>1. TurnsKept
      BY <2>1 DEF Submit, InjectCall
    <3>2. UNCHANGED fate \/ \E p \in Prompts : fate[p] = "new" /\ fate' = [fate EXCEPT ![p] = "open"]
      BY <2>1 DEF Submit, InjectCall
    <3> QED
      BY <3>1, <3>2
  <2>2. ASSUME NEW c \in Clients, Interrupt(c) \/ CancelCtx(c) PROVE UNCHANGED fate
    BY <2>2 DEF Interrupt, CancelCtx
  <2>3. ASSUME NEW p \in Prompts, Queue(p) PROVE TurnsKept /\ Fated(p, "new", "open")
    BY <2>3 DEF Queue
  <2>4. ASSUME PopQueue
        PROVE  TurnsKept /\ Fated(Head(fifo), "open", "popped")
    BY <2>4, TailOf DEF PopQueue, MailInv, Accounted, Queued
  <2> QED
    BY <1>1, <2>1, <2>2, <2>3, <2>4 DEF Call
<1>2. ASSUME NEW c \in Clients, AcquireLock(c) \/ RunReturn(c) \/ InterruptCancel(c) \/ Unwind(c)
      PROVE  UNCHANGED fate
  BY <1>2 DEF AcquireLock, RunReturn, InterruptCancel, Unwind, Panic, RecoverSwap, RecoverIdle
<1>3. ASSUME NEW c \in Clients, Command(c)
      PROVE  UNCHANGED fate \/ (TurnsKept /\ \E p \in Prompts : Fated(p, "open", "replaced"))
  <2>1. CASE InjectRewrite(c)
    <3>1. CASE pendingInject \in Prompts
      <4>1. Fated(pendingInject, "open", "replaced")
        BY <2>1, <3>1 DEF InjectRewrite, MailInv, Accounted
      <4> QED
        BY <2>1, <3>1, <4>1 DEF InjectRewrite
    <3>2. CASE pendingInject \notin Prompts
      <4>1. UNCHANGED fate
        BY <2>1, <3>2, FateSame DEF InjectRewrite
      <4> QED
        BY <4>1
    <3> QED
      BY <3>1, <3>2
  <2>2. CASE ~InjectRewrite(c)
    <3>1. UNCHANGED fate
      BY <1>3, <2>2 DEF Command, Enqueue, EnterLoop, InjectStore, InjectFull, InjectPush,
         CommandRefused, ClearCheck, Clear, CompactStart, CompactEnd
    <3> QED
      BY <3>1
  <2> QED
    BY <2>1, <2>2
<1>4. ASSUME NEW c \in Clients, LoopExit(c)
      PROVE  UNCHANGED fate \/ (TurnsKept /\ Fated(input[c], "open", "abandoned"))
  <2>1. CASE Full(c)
    BY <1>4, <2>1 DEF LoopExit, Full, MailInv, Accounted, InHand
  <2>2. CASE ~Full(c)
    <3>1. UNCHANGED fate
      BY <1>4, <2>2, FateSame DEF LoopExit, Full
    <3> QED
      BY <3>1
  <2> QED
    BY <2>1, <2>2
<1>5. ASSUME NEW c \in Clients, ToolResult(c)
      PROVE  TurnsKept /\ Fated(pendingInject, "open", "tool") /\ Serving
  BY <1>5 DEF ToolResult, MailInv, Accounted, Serving
<1>6. ASSUME NEW c \in Clients, Turn(c), ~LoopExit(c), ~TurnStart(c), ~ToolResult(c)
      PROVE  UNCHANGED fate
  BY <1>6 DEF Turn, PreTurnBlocked, NewSession, OpenTurn, PreCompact, PreCompacted, CapReject, StartRun,
     MidCompact, MidCompacted, OverflowCompact, OverflowRetry, OverflowGiveUp, EndRun,
     HookContinue, HookDone, TakeInject, PopNext
<1>7. CASE UNCHANGED vars
  BY <1>7 DEF vars
<1> QED
  BY <1>1, <1>2, <1>3, <1>4, <1>5, <1>6, <1>7 DEF Next, Step

(* The agent implements the mailbox: for any number of clients and prompts *)
(* turns come one after the other, each prompt that is accepted is pending *)
(* until it is disposed of, once, and only a tool result of a turn takes   *)
(* an inject with it.                                                      *)
THEOREM KeepsMailbox == Spec => ImplementsMailbox
<1>1. Init => Mailbox!Init
  BY CoreAssumption DEF Init, Mailbox!Init, Places, InTurn, TurnPcs, Prologue, RunRegion, Epilogue
<1>2. /\ Safe /\ MailInv /\ PendingIsOpen /\ PendingIsOpen' /\ [Next]_vars
      => [Mailbox!Next]_Mailbox!vars
  <2> SUFFICES ASSUME Safe, MailInv, PendingIsOpen, PendingIsOpen', [Next]_vars
               PROVE  [Mailbox!Next]_Mailbox!vars
    OBVIOUS
  <2>1. CASE \E c \in Clients : TurnStart(c)
    <3>1. PICK c \in Clients : TurnStart(c)
      BY <2>1
    <3>2. ~Serving
      BY <3>1, CoreAssumption, PcSets
         DEF TurnStart, Serving, InTurn, Safe, TypeOK, LockedPath, LockedPcs, LoopHead, TurnPcs,
             Prologue, RunRegion, Epilogue
    <3>3. Serving'
      BY <3>1, PcSets
         DEF TurnStart, Goto, Serving, InTurn, Safe, TypeOK, TurnPcs, Prologue
    <3>4. CASE Full(c)
      <4>1. Fated(input[c], "open", "turn")
        BY <3>1, <3>4 DEF TurnStart, Full, Fated, MailInv, Accounted, InHand, Safe, TypeOK
      <4>2. Mailbox!BeginTurn(input[c])
        BY <3>2, <3>3, <4>1
           DEF Mailbox!BeginTurn, Mailbox!Dispose, Fated, PendingIsOpen, Serving, Safe, TypeOK
      <4> QED
        BY <3>4, <4>2 DEF Mailbox!Next, Full
    <3>5. CASE ~Full(c)
      <4>1. UNCHANGED fate
        BY <3>1, <3>5 DEF TurnStart, Full, Safe, TypeOK
      <4>2. Mailbox!BeginHookTurn
        BY <3>2, <3>3, <4>1 DEF Mailbox!BeginHookTurn, PendingIsOpen, Serving
      <4> QED
        BY <4>2 DEF Mailbox!Next
    <3> QED
      BY <3>4, <3>5
  <2>2. CASE UNCHANGED fate /\ ~\E c \in Clients : TurnStart(c)
    <3>1. Serving' => Serving
      BY <2>2, TurnBegins DEF Serving, InTurn, Safe
    <3>2. CASE Serving /\ ~Serving'
      <4>1. Mailbox!EndTurn
        BY <2>2, <3>2 DEF Mailbox!EndTurn, PendingIsOpen, Serving
      <4> QED
        BY <4>1 DEF Mailbox!Next
    <3>3. CASE Serving' <=> Serving
      BY <2>2, <3>3 DEF Mailbox!vars, PendingIsOpen, Serving
    <3> QED
      BY <3>1, <3>2, <3>3
  <2>3. ASSUME TurnsKept, NEW p \in Prompts, NEW from \in {"new", "open"},
               NEW to \in {"open", "popped", "replaced", "abandoned", "tool"},
               Fated(p, from, to),
               \/ from = "new" /\ to = "open"
               \/ from = "open" /\ to \in {"popped", "replaced", "abandoned"}
               \/ from = "open" /\ to = "tool" /\ Serving
        PROVE  [Mailbox!Next]_Mailbox!vars
    <3>1. Serving' <=> Serving
      BY <2>3 DEF TurnsKept, Serving
    <3>2. CASE from = "new"
      <4>1. Mailbox!Accept(p)
        BY <2>3, <3>1, <3>2 DEF Mailbox!Accept, Fated, PendingIsOpen, Serving, Safe, TypeOK
      <4> QED
        BY <4>1 DEF Mailbox!Next
    <3>3. CASE from = "open"
      <4>1. Mailbox!Dispose(p, to)
        BY <2>3, <3>3 DEF Mailbox!Dispose, Fated, PendingIsOpen, Safe, TypeOK
      <4>2. Mailbox!Withdraw(p) \/ Mailbox!DeliverInTurn(p)
        BY <2>3, <3>1, <3>3, <4>1 DEF Mailbox!Withdraw, Mailbox!DeliverInTurn, Serving
      <4> QED
        BY <4>2 DEF Mailbox!Next
    <3> QED
      BY <3>2, <3>3
  <2> QED
    BY <2>1, <2>2, <2>3, FateSteps
<1> QED
  BY <1>1, <1>2, Safety, MailSafety, AlwaysPendingIsOpen, PTL
     DEF Spec, ImplementsMailbox, Mailbox!Spec

=============================================================================
