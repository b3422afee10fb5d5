------------------------------ MODULE AgentCore ------------------------------
(***************************************************************************)
(* The agent of pkg/agent/core.go as its callers see it: Submit with its   *)
(* lock-free fast path and its serialized slow path, the turn loop, the    *)
(* prompt FIFO, the pending inject, Interrupt through the current action   *)
(* handle, /clear, /compact, and the recovery from a panic.                *)
(*                                                                         *)
(* A client is a goroutine that calls one method of agent.Core at a time.  *)
(* Each atomic read-modify-write of a shared variable (submitMu, fifo,     *)
(* pendingInject, currentAction, state) is a step of its own; what happens *)
(* between two of them without blocking is part of the step before.  The   *)
(* agent loop (loop.go, run) is represented by what it does to this state: *)
(* it consumes injects, compacts, and returns one of Results.  Messages    *)
(* are abstracted: a session is nil or live.                               *)
(***************************************************************************)
EXTENDS Naturals, Sequences, FiniteSets

CONSTANTS Clients,      \* goroutines that call agent.Core
          Prompts,      \* user prompts, each handed to the agent once
          Null,         \* nil pointer, nil handle, empty string
          HookPrompt,   \* a next prompt produced by a postTurn hook
          Ops,          \* what callers do: inputs of Submit, other methods
          Results,      \* how run may return when it is not interrupted
          MaxContinue   \* bound: times the postTurn hook says "continue"

PromptOps  == {"prompt", "/i", "/irw"}       \* inputs that carry a prompt
CommandOps == {"/clear", "/compact"}
AllOps == PromptOps \cup CommandOps \cup {"Inject", "Queue", "PopQueue", "Interrupt", "cancel"}
AllResults == {"done", "failed", "overflowed"}

ASSUME CoreAssumption ==
  /\ Ops \subseteq AllOps
  /\ Results \subseteq AllResults
  /\ MaxContinue \in Nat
  /\ Null \notin Clients /\ Null \notin Prompts /\ HookPrompt \notin Prompts
  /\ HookPrompt # Null /\ Null \notin Clients \X Nat

VARIABLES
  pc,             \* where each client is in the method it called
  op,             \* the input that a client's Submit was given
  input,          \* the prompt a client holds and has not handed on
  ctxDone,        \* the caller's context of a Submit is cancelled
  handle,         \* the action handle a client has created or loaded
  gen,            \* number of handles a client has created
  hadSession,     \* executeTurn's snapSession # nil
  retried,        \* executeTurn's overflowRetried
  submitMu,       \* holder of the submit lock
  currentAction,  \* handle of the running turn, as IsRunning reads it
  cancelled,      \* handles whose context has been cancelled
  state,          \* the published state ("thinking" covers calling, limitretry)
  session,        \* "nil" or "live"
  fifo,           \* queued prompts
  pendingInject,  \* the injected prompt waiting for a tool result
  continues,      \* continuations granted to the postTurn hook so far
  fate            \* history: what has become of every prompt

turnVars == <<handle, gen, hadSession, retried, cancelled, currentAction>>
mail == <<fifo, pendingInject, fate>>
vars == <<pc, op, input, ctxDone, submitMu, state, session, continues,
          turnVars, mail>>

-----------------------------------------------------------------------------
Handles == Clients \X Nat

Running == currentAction # Null          \* IsRunning

(* Positions inside executeTurn; only the holder of submitMu is there.     *)
Prologue  == {"preTurn", "spawn", "prepare", "preCompact", "capCheck"}
RunRegion == {"run", "midCompact"}
Epilogue  == {"done", "failed", "interrupted", "overflowed", "overflowCompact",
              "postTurn", "takeInject", "popQueue"}
TurnPcs   == Prologue \cup RunRegion \cup Epilogue
LoopHead  == {"loop", "again"}           \* before the first turn, before a later one
LockedPcs == {"locked"} \cup LoopHead \cup TurnPcs
OpenPcs   == {"fast", "injectPush", "clearing", "compacting"}  \* with or without the lock
Pcs == {"idle", "wait", "unwind", "recovering", "interrupting"}
         \cup LockedPcs \cup OpenPcs

Fates == {"new", "open", "turn", "tool", "popped", "replaced", "abandoned"}

Init ==
  /\ pc = [c \in Clients |-> "idle"]
  /\ op = [c \in Clients |-> "prompt"]
  /\ input = [c \in Clients |-> Null]
  /\ ctxDone = [c \in Clients |-> FALSE]
  /\ handle = [c \in Clients |-> Null]
  /\ gen = [c \in Clients |-> 0]
  /\ hadSession = [c \in Clients |-> FALSE]
  /\ retried = [c \in Clients |-> FALSE]
  /\ submitMu = Null /\ currentAction = Null /\ cancelled = {}
  /\ state = "idle" /\ session \in {"nil", "live"}
  /\ fifo = <<>> /\ pendingInject = Null /\ continues = 0
  /\ fate = [p \in Prompts |-> "new"]

Goto(c, l) == pc' = [pc EXCEPT ![c] = l]

(* Mutant: the fast path, too, unlocks on return.                          *)
LeaveUnlocksAlways(c, l) ==
  /\ Goto(c, l)
  /\ submitMu' = Null
  /\ input' = [input EXCEPT ![c] = Null]

(* Mutant: the lock is not released on return.                             *)
LeaveKeepsLock(c, l) ==
  /\ Goto(c, l)
  /\ submitMu' = submitMu
  /\ input' = [input EXCEPT ![c] = Null]

(* The call returns: the deferred Unlock releases the lock if it was taken. *)
Leave(c, l) ==
  /\ Goto(c, l)
  /\ submitMu' = IF submitMu = c THEN Null ELSE submitMu
  /\ input' = [input EXCEPT ![c] = Null]

Return(c) == Leave(c, "idle")

-----------------------------------------------------------------------------
(* Calls of agent.Core.                                                    *)

(* Submit up to the fast-path test: the running test decides which way.    *)
Submit(c) ==
  /\ pc[c] = "idle"
  /\ \E o \in Ops :
       /\ op' = [op EXCEPT ![c] = o]
       /\ \/ /\ o \in CommandOps
             /\ UNCHANGED <<input, fate>>
          \/ /\ o \in PromptOps
             /\ \E p \in Prompts :
                  /\ fate[p] = "new"
                  /\ fate' = [fate EXCEPT ![p] = "open"]
                  /\ input' = [input EXCEPT ![c] = p]
  /\ ctxDone' = [ctxDone EXCEPT ![c] = FALSE]
  /\ Goto(c, IF Running THEN "fast" ELSE "wait")
  /\ UNCHANGED <<submitMu, state, session, continues, turnVars, fifo, pendingInject>>

(* Inject called directly on the Core: no lock and no running test.        *)
InjectCall(c) ==
  /\ pc[c] = "idle"
  /\ "Inject" \in Ops
  /\ \E p \in Prompts :
       /\ fate[p] = "new"
       /\ fate' = [fate EXCEPT ![p] = "open"]
       /\ input' = [input EXCEPT ![c] = p]
  /\ op' = [op EXCEPT ![c] = "/i"]
  /\ Goto(c, "fast")
  /\ UNCHANGED <<ctxDone, submitMu, state, session, continues, turnVars, fifo, pendingInject>>

Queue(p) ==
  /\ "Queue" \in Ops
  /\ fate[p] = "new"
  /\ fate' = [fate EXCEPT ![p] = "open"]
  /\ fifo' = Append(fifo, p)
  /\ UNCHANGED <<pc, op, input, ctxDone, submitMu, state, session, continues,
                 turnVars, pendingInject>>

PopQueue ==
  /\ "PopQueue" \in Ops
  /\ fifo # <<>>
  /\ fate' = [fate EXCEPT ![Head(fifo)] = "popped"]
  /\ fifo' = Tail(fifo)
  /\ UNCHANGED <<pc, op, input, ctxDone, submitMu, state, session, continues,
                 turnVars, pendingInject>>

(* Interrupt loads the handle, then cancels what it loaded.                *)
Interrupt(c) ==
  /\ "Interrupt" \in Ops
  /\ pc[c] = "idle"
  /\ Running
  /\ handle' = [handle EXCEPT ![c] = currentAction]
  /\ Goto(c, "interrupting")
  /\ UNCHANGED <<op, input, ctxDone, submitMu, state, session, continues, gen,
                 hadSession, retried, cancelled, currentAction, mail>>

InterruptCancel(c) ==
  /\ pc[c] = "interrupting"
  /\ cancelled' = cancelled \cup {handle[c]}
  /\ handle' = [handle EXCEPT ![c] = Null]
  /\ Goto(c, "idle")
  /\ UNCHANGED <<op, input, ctxDone, submitMu, state, session, continues, gen,
                 hadSession, retried, currentAction, mail>>

(* The caller of a Submit cancels the context it passed.                   *)
CancelCtx(c) ==
  /\ "cancel" \in Ops
  /\ pc[c] \in {"wait"} \cup LockedPcs
  /\ ~ctxDone[c]
  /\ ctxDone' = [ctxDone EXCEPT ![c] = TRUE]
  /\ UNCHANGED <<pc, op, input, submitMu, state, session, continues, turnVars, mail>>

-----------------------------------------------------------------------------
(* Submit: lock, commands and queueing.                                    *)

AcquireLock(c) ==
  /\ pc[c] = "wait"
  /\ submitMu = Null
  /\ submitMu' = c
  /\ Goto(c, "locked")
  /\ UNCHANGED <<op, input, ctxDone, state, session, continues, turnVars, mail>>

(* handleCommand runs both on the fast path and under the lock.            *)
AtCommand(c, ops) == pc[c] \in {"fast", "locked"} /\ op[c] \in ops

(* A plain prompt while a turn is running goes to the FIFO.                *)
Enqueue(c) ==
  /\ AtCommand(c, {"prompt"})
  /\ pc[c] = "fast" \/ Running
  /\ fifo' = Append(fifo, input[c])
  /\ Return(c)
  /\ UNCHANGED <<op, ctxDone, state, session, continues, turnVars, pendingInject, fate>>

EnterLoop(c) ==
  /\ pc[c] = "locked" /\ op[c] = "prompt"
  /\ ~Running
  /\ Goto(c, "loop")
  /\ UNCHANGED <<op, input, ctxDone, submitMu, state, session, continues, turnVars, mail>>

(* Mutant: Inject stores without looking at what is pending.               *)
InjectStoreBlind(c) ==
  /\ AtCommand(c, {"/i"})
  /\ pendingInject' = input[c]
  /\ Return(c)
  /\ UNCHANGED <<op, ctxDone, state, session, continues, turnVars, fifo, fate>>

(* Inject: the compare-and-swap stores the prompt, or finds one pending.   *)
InjectStore(c) ==
  /\ AtCommand(c, {"/i"})
  /\ pendingInject = Null
  /\ pendingInject' = input[c]
  /\ Return(c)
  /\ UNCHANGED <<op, ctxDone, state, session, continues, turnVars, fifo, fate>>

InjectFull(c) ==
  /\ AtCommand(c, {"/i"})
  /\ pendingInject # Null
  /\ Goto(c, "injectPush")
  /\ UNCHANGED <<op, input, ctxDone, submitMu, state, session, continues, turnVars, mail>>

InjectPush(c) ==
  /\ pc[c] = "injectPush"
  /\ fifo' = Append(fifo, input[c])
  /\ Return(c)
  /\ UNCHANGED <<op, ctxDone, state, session, continues, turnVars, pendingInject, fate>>

(* injectRewrite overwrites whatever inject is pending.                    *)
InjectRewrite(c) ==
  /\ AtCommand(c, {"/irw"})
  /\ pendingInject' = input[c]
  /\ fate' = [p \in Prompts |-> IF p = pendingInject THEN "replaced" ELSE fate[p]]
  /\ Return(c)
  /\ UNCHANGED <<op, ctxDone, state, session, continues, turnVars, fifo>>

(* /clear and /compact answer an error while IsRunning; /compact also      *)
(* returns at once without a session.                                      *)
CommandRefused(c) ==
  /\ \/ AtCommand(c, {"/clear", "/compact"}) /\ Running
     \/ AtCommand(c, {"/compact"}) /\ session = "nil"
  /\ Return(c)
  /\ UNCHANGED <<op, ctxDone, state, session, continues, turnVars, mail>>

ClearCheck(c) ==
  /\ AtCommand(c, {"/clear"})
  /\ ~Running
  /\ Goto(c, "clearing")
  /\ UNCHANGED <<op, input, ctxDone, submitMu, state, session, continues, turnVars, mail>>

Clear(c) ==
  /\ pc[c] = "clearing"
  /\ session' = "nil"
  /\ Return(c)
  /\ UNCHANGED <<op, ctxDone, state, continues, turnVars, mail>>

CompactStart(c) ==
  /\ AtCommand(c, {"/compact"})
  /\ ~Running /\ session = "live"
  /\ state' = "compacting"
  /\ Goto(c, "compacting")
  /\ UNCHANGED <<op, input, ctxDone, submitMu, session, continues, turnVars, mail>>

(* runCompact has returned, with or without an error.                      *)
CompactEnd(c) ==
  /\ pc[c] = "compacting"
  /\ state' = "idle"
  /\ Return(c)
  /\ UNCHANGED <<op, ctxDone, session, continues, turnVars, mail>>

-----------------------------------------------------------------------------
(* The turn loop of Submit and executeTurn, by the holder of submitMu.     *)

(* No next prompt, or the context is done: whatever prompt the loop holds  *)
(* then goes nowhere.                                                      *)
LoopExit(c) ==
  /\ pc[c] \in LoopHead
  /\ input[c] = Null \/ ctxDone[c]
  /\ fate' = [p \in Prompts |-> IF p = input[c] THEN "abandoned" ELSE fate[p]]
  /\ Return(c)
  /\ UNCHANGED <<op, ctxDone, state, session, continues, turnVars, fifo, pendingInject>>

(* executeTurn announces the prompt and runs the preTurn hook.             *)
TurnStart(c) ==
  /\ pc[c] \in LoopHead
  /\ input[c] # Null /\ ~ctxDone[c]
  /\ fate' = [p \in Prompts |-> IF p = input[c] THEN "turn" ELSE fate[p]]
  /\ input' = [input EXCEPT ![c] = Null]
  /\ Goto(c, "preTurn")
  /\ UNCHANGED <<op, ctxDone, submitMu, state, session, continues, turnVars, fifo, pendingInject>>

PreTurnBlocked(c) ==
  /\ pc[c] = "preTurn"
  /\ Goto(c, "again")
  /\ UNCHANGED <<op, input, ctxDone, submitMu, state, session, continues, turnVars, mail>>

(* A fresh handle, published as the current action.                        *)
StoreHandle(c) ==
  /\ gen' = [gen EXCEPT ![c] = @ + 1]
  /\ handle' = [handle EXCEPT ![c] = <<c, gen'[c]>>]
  /\ currentAction' = <<c, gen'[c]>>

(* CompareAndSwap(handle, nil).                                            *)
ClearHandle(c) ==
  currentAction' = IF currentAction = handle[c] THEN Null ELSE currentAction

(* A new session, for which the agentSpawn hook is run.                    *)
NewSession(c) ==
  /\ pc[c] = "preTurn" /\ session = "nil"
  /\ session' = "live"
  /\ Goto(c, "spawn")
  /\ UNCHANGED <<op, input, ctxDone, submitMu, state, continues, turnVars, mail>>

(* The prompt is appended to the session, and the turn shows as running.   *)
OpenTurn(c) ==
  /\ pc[c] \in {"preTurn", "spawn"} /\ session = "live"
  /\ hadSession' = [hadSession EXCEPT ![c] = (pc[c] = "preTurn")]
  /\ StoreHandle(c)
  /\ state' = "thinking"
  /\ retried' = [retried EXCEPT ![c] = FALSE]
  /\ Goto(c, "prepare")
  /\ UNCHANGED <<op, input, ctxDone, submitMu, session, continues, cancelled, mail>>

(* The context is over the auto-compact limit.                             *)
PreCompact(c) ==
  /\ pc[c] = "prepare" /\ session = "live"
  /\ state' = "compacting"
  /\ Goto(c, "preCompact")
  /\ UNCHANGED <<op, input, ctxDone, submitMu, session, continues, turnVars, mail>>

PreCompacted(c) ==
  /\ pc[c] = "preCompact"
  /\ state' = "thinking"
  /\ Goto(c, "capCheck")
  /\ UNCHANGED <<op, input, ctxDone, submitMu, session, continues, turnVars, mail>>

(* Mutant: the rejected turn leaves the state "thinking".                  *)
CapRejectKeepsState(c) ==
  /\ pc[c] \in {"prepare", "capCheck"} /\ session = "live"
  /\ ClearHandle(c)
  /\ session' = IF hadSession[c] THEN session ELSE "nil"
  /\ Goto(c, "again")
  /\ UNCHANGED <<op, input, ctxDone, submitMu, state, continues, handle, gen,
                 hadSession, retried, cancelled, mail>>

(* The spending cap rejects the turn and puts the session back.            *)
CapReject(c) ==
  /\ pc[c] \in {"prepare", "capCheck"} /\ session = "live"
  /\ state' = "idle"
  /\ ClearHandle(c)
  /\ session' = IF hadSession[c] THEN session ELSE "nil"
  /\ Goto(c, "again")
  /\ UNCHANGED <<op, input, ctxDone, submitMu, continues, handle, gen,
                 hadSession, retried, cancelled, mail>>

StartRun(c) ==
  /\ pc[c] \in {"prepare", "capCheck"} /\ session = "live"
  /\ Goto(c, "run")
  /\ UNCHANGED <<op, input, ctxDone, submitMu, state, session, continues, turnVars, mail>>

(* A tool result takes the pending inject with it (PopInject).             *)
ToolResult(c) ==
  /\ pc[c] = "run"
  /\ pendingInject # Null
  /\ fate' = [p \in Prompts |-> IF p = pendingInject THEN "tool" ELSE fate[p]]
  /\ pendingInject' = Null
  /\ UNCHANGED <<pc, op, input, ctxDone, submitMu, state, session, continues,
                 turnVars, fifo>>

Cancelled(c) == handle[c] \in cancelled \/ ctxDone[c]

(* AutoCompact between two steps of the agent loop.                        *)
MidCompact(c) ==
  /\ pc[c] = "run" /\ session = "live"
  /\ ~Cancelled(c)
  /\ state' = "compacting"
  /\ Goto(c, "midCompact")
  /\ UNCHANGED <<op, input, ctxDone, submitMu, session, continues, turnVars, mail>>

MidCompacted(c) ==
  /\ pc[c] = "midCompact"
  /\ state' = "thinking"
  /\ Goto(c, "run")
  /\ UNCHANGED <<op, input, ctxDone, submitMu, session, continues, turnVars, mail>>

(* run returns; the handle stops being the current action.                 *)
RunReturn(c) ==
  /\ pc[c] = "run"
  /\ \E r \in Results \cup (IF Cancelled(c) THEN {"interrupted"} ELSE {}) : Goto(c, r)
  /\ ClearHandle(c)
  /\ UNCHANGED <<op, input, ctxDone, submitMu, state, session, continues, handle,
                 gen, hadSession, retried, cancelled, mail>>

(* First context overflow of the turn: roll back, compact, run again.      *)
OverflowCompact(c) ==
  /\ pc[c] = "overflowed"
  /\ ~retried[c] /\ session = "live"
  /\ retried' = [retried EXCEPT ![c] = TRUE]
  /\ state' = "compacting"
  /\ Goto(c, "overflowCompact")
  /\ UNCHANGED <<op, input, ctxDone, submitMu, session, continues, handle, gen,
                 hadSession, cancelled, currentAction, mail>>

(* Mutant: the retry runs under a new handle that is not published.        *)
OverflowRetryUnpublished(c) ==
  /\ pc[c] = "overflowCompact" /\ session = "live"
  /\ state' = "thinking"
  /\ gen' = [gen EXCEPT ![c] = @ + 1]
  /\ handle' = [handle EXCEPT ![c] = <<c, gen'[c]>>]
  /\ Goto(c, "run")
  /\ UNCHANGED <<op, input, ctxDone, submitMu, session, continues, hadSession,
                 retried, cancelled, currentAction, mail>>

OverflowRetry(c) ==
  /\ pc[c] = "overflowCompact" /\ session = "live"
  /\ state' = "thinking"
  /\ StoreHandle(c)
  /\ Goto(c, "run")
  /\ UNCHANGED <<op, input, ctxDone, submitMu, session, continues, hadSession,
                 retried, cancelled, mail>>

(* A second overflow, no session, or a compaction that failed.             *)
OverflowGiveUp(c) ==
  /\ \/ pc[c] = "overflowed" /\ (retried[c] \/ session = "nil")
     \/ pc[c] = "overflowCompact"
  /\ Goto(c, "failed")
  /\ UNCHANGED <<op, input, ctxDone, submitMu, state, session, continues, turnVars, mail>>

(* The reply is published and the state is idle again; an interrupted turn *)
(* is over here, a failed one goes on to the FIFO, a complete one to the   *)
(* postTurn hook.                                                          *)
EndRun(c) ==
  /\ pc[c] \in {"done", "failed", "interrupted"}
  /\ state' = "idle"
  /\ Goto(c, CASE pc[c] = "done"        -> "postTurn"
               [] pc[c] = "failed"      -> "popQueue"
               [] pc[c] = "interrupted" -> "again")
  /\ UNCHANGED <<op, input, ctxDone, submitMu, session, continues, turnVars, mail>>

(* The postTurn hook blocks with a context: that is the next prompt.       *)
HookContinue(c) ==
  /\ pc[c] = "postTurn"
  /\ continues < MaxContinue
  /\ continues' = continues + 1
  /\ input' = [input EXCEPT ![c] = HookPrompt]
  /\ Goto(c, "again")
  /\ UNCHANGED <<op, ctxDone, submitMu, state, session, turnVars, mail>>

HookDone(c) ==
  /\ pc[c] = "postTurn"
  /\ Goto(c, "takeInject")
  /\ UNCHANGED <<op, input, ctxDone, submitMu, state, session, continues, turnVars, mail>>

(* Mutant: the inject is loaded and not cleared.                           *)
TakeInjectKeeps(c) ==
  /\ pc[c] = "takeInject"
  /\ input' = [input EXCEPT ![c] = pendingInject]
  /\ Goto(c, IF pendingInject = Null THEN "popQueue" ELSE "again")
  /\ UNCHANGED <<op, ctxDone, submitMu, state, session, continues, turnVars, mail>>

(* An inject no tool result has taken becomes the next prompt.             *)
TakeInject(c) ==
  /\ pc[c] = "takeInject"
  /\ input' = [input EXCEPT ![c] = pendingInject]
  /\ pendingInject' = Null
  /\ Goto(c, IF pendingInject = Null THEN "popQueue" ELSE "again")
  /\ UNCHANGED <<op, ctxDone, submitMu, state, session, continues, turnVars, fifo, fate>>

(* Otherwise the head of the FIFO does.                                    *)
PopNext(c) ==
  /\ pc[c] = "popQueue"
  /\ \/ fifo = <<>> /\ UNCHANGED <<input, fifo>>
     \/ /\ fifo # <<>>
        /\ input' = [input EXCEPT ![c] = Head(fifo)]
        /\ fifo' = Tail(fifo)
  /\ Goto(c, "again")
  /\ UNCHANGED <<op, ctxDone, submitMu, state, session, continues, turnVars, pendingInject, fate>>

-----------------------------------------------------------------------------
(* Panics.  A failed auto-compaction panics; so does every use of a        *)
(* session that became nil after it was checked.  The deferred Unlock runs *)
(* before the deferred recover.                                            *)

Panic(c) ==
  /\ \/ pc[c] \in {"preCompact", "midCompact"}
     \/ session = "nil" /\ pc[c] \in {"spawn", "prepare", "capCheck", "compacting", "overflowCompact"}
  /\ Leave(c, "unwind")
  /\ UNCHANGED <<op, ctxDone, state, session, continues, turnVars, mail>>

(* Mutant: the recovery loads the handle and leaves it published.          *)
RecoverLoad(c) ==
  /\ pc[c] = "unwind"
  /\ handle' = [handle EXCEPT ![c] = currentAction]
  /\ Goto(c, "recovering")
  /\ UNCHANGED <<op, input, ctxDone, submitMu, state, session, continues, gen,
                 hadSession, retried, cancelled, currentAction, mail>>

(* currentAction.Swap(nil): it takes whatever handle is there.             *)
RecoverSwap(c) ==
  /\ pc[c] = "unwind"
  /\ handle' = [handle EXCEPT ![c] = currentAction]
  /\ currentAction' = Null
  /\ Goto(c, "recovering")
  /\ UNCHANGED <<op, input, ctxDone, submitMu, state, session, continues, gen,
                 hadSession, retried, cancelled, mail>>

(* Mutant: the swapped handle is cancelled without a nil check.            *)
RecoverIdleNoCheck(c) ==
  /\ pc[c] = "recovering"
  /\ cancelled' = cancelled \cup {handle[c]}
  /\ state' = "idle"
  /\ Goto(c, "idle")
  /\ UNCHANGED <<op, input, ctxDone, submitMu, session, continues, handle, gen,
                 hadSession, retried, currentAction, mail>>

RecoverIdle(c) ==
  /\ pc[c] = "recovering"
  /\ cancelled' = IF handle[c] = Null THEN cancelled ELSE cancelled \cup {handle[c]}
  /\ state' = "idle"
  /\ Goto(c, "idle")
  /\ UNCHANGED <<op, input, ctxDone, submitMu, session, continues, handle, gen,
                 hadSession, retried, currentAction, mail>>

-----------------------------------------------------------------------------
Command(c) ==
  \/ Enqueue(c) \/ EnterLoop(c) \/ InjectStore(c) \/ InjectFull(c) \/ InjectPush(c)
  \/ InjectRewrite(c) \/ CommandRefused(c) \/ ClearCheck(c) \/ Clear(c)
  \/ CompactStart(c) \/ CompactEnd(c)

Turn(c) ==
  \/ LoopExit(c) \/ TurnStart(c) \/ PreTurnBlocked(c) \/ NewSession(c) \/ OpenTurn(c)
  \/ PreCompact(c) \/ PreCompacted(c) \/ CapReject(c) \/ StartRun(c)
  \/ ToolResult(c) \/ MidCompact(c) \/ MidCompacted(c)
  \/ OverflowCompact(c) \/ OverflowRetry(c) \/ OverflowGiveUp(c)
  \/ EndRun(c) \/ HookContinue(c) \/ HookDone(c) \/ TakeInject(c) \/ PopNext(c)

Unwind(c) == Panic(c) \/ RecoverSwap(c) \/ RecoverIdle(c)

(* What a call does once it is made.                                       *)
Step(c) == Command(c) \/ Turn(c) \/ Unwind(c) \/ InterruptCancel(c)

(* What the callers choose to do.                                          *)
Call == \/ \E c \in Clients : Submit(c) \/ InjectCall(c) \/ Interrupt(c) \/ CancelCtx(c)
        \/ \E p \in Prompts : Queue(p)
        \/ PopQueue

Next == \/ Call
        \/ \E c \in Clients : AcquireLock(c) \/ RunReturn(c) \/ Step(c)

Spec == Init /\ [][Next]_vars

(* Calls that have been made go on; a waiter for the lock is not passed    *)
(* over for ever (sync.Mutex has a starvation mode); the agent loop does   *)
(* not compact and continue for ever.  Callers need not call.              *)
Fairness == \A c \in Clients :
  WF_vars(Step(c)) /\ SF_vars(AcquireLock(c)) /\ SF_vars(RunReturn(c))

FairSpec == Spec /\ Fairness

-----------------------------------------------------------------------------
(* Properties.                                                             *)

InTurn(c) == pc[c] \in TurnPcs

(* Every variable has its type: the shape of the agent struct.             *)
TypeOK ==
  /\ pc \in [Clients -> Pcs]
  /\ op \in [Clients -> PromptOps \cup CommandOps]
  /\ input \in [Clients -> Prompts \cup {Null, HookPrompt}]
  /\ ctxDone \in [Clients -> BOOLEAN]
  /\ handle \in [Clients -> Handles \cup {Null}]
  /\ gen \in [Clients -> Nat]
  /\ hadSession \in [Clients -> BOOLEAN]
  /\ retried \in [Clients -> BOOLEAN]
  /\ submitMu \in Clients \cup {Null}
  /\ currentAction \in Handles \cup {Null}
  /\ cancelled \in SUBSET Handles
  /\ state \in {"idle", "thinking", "compacting"}
  /\ session \in {"nil", "live"}
  /\ fifo \in Seq(Prompts)
  /\ pendingInject \in Prompts \cup {Null}
  /\ continues \in 0 .. MaxContinue
  /\ fate \in [Prompts -> Fates]

(* The running part of a turn: its handle is published.                    *)
HandlePcs == RunRegion \cup {"prepare", "preCompact", "capCheck"}

(* The strengthening under which these invariants are inductive.  The      *)
(* submit lock is held wherever executeTurn and its loop are; a call that  *)
(* is about to queue or inject holds a prompt; a turn that runs and a call *)
(* that is about to cancel have a handle.                                  *)
LockedPath == \A c \in Clients : pc[c] \in LockedPcs => submitMu = c

HandsFull ==
  /\ \A c \in Clients : pc[c] \in HandlePcs \cup {"interrupting"} => handle[c] # Null
  /\ \A c \in Clients : pc[c] = "injectPush" => input[c] \in Prompts
  /\ \A c \in Clients : pc[c] \in {"wait", "fast", "locked"} /\ op[c] \in PromptOps =>
       input[c] \in Prompts

Safe == TypeOK /\ LockedPath /\ HandsFull

(* Turns are serialized: no two clients are in executeTurn together, even  *)
(* though the fast path of Submit and the commands it runs take no lock.   *)
OneTurn == \A c, d \in Clients : InTurn(c) /\ InTurn(d) => c = d

(* Where an undelivered prompt can be: held by a call, queued, or pending. *)
Places(p) ==
  {<<"call", c>> : c \in {d \in Clients : input[d] = p}}
    \cup {<<"fifo", i>> : i \in {j \in DOMAIN fifo : fifo[j] = p}}
    \cup {<<"inject", pendingInject>> : i \in {j \in {pendingInject} : j = p}}

(* Whatever the interleaving of Submit, Inject, Queue, PopQueue, the turn  *)
(* loop and a panic, a prompt the agent was given and has not disposed of  *)
(* is in exactly one place, and one it has disposed of is in none: it is   *)
(* neither lost nor served twice.                                          *)
PromptsConserved ==
  \A p \in Prompts : Cardinality(Places(p)) = (IF fate[p] = "open" THEN 1 ELSE 0)

(* The mailbox the callers see: what is pending is what is in some place,  *)
(* and a turn is being served while a client is inside executeTurn.        *)
Mailbox == INSTANCE PromptMailbox WITH
             pending <- {p \in Prompts : Places(p) # {}},
             serving <- \E c \in Clients : InTurn(c)

(* The agent implements the mailbox: turns do not overlap, a prompt is     *)
(* disposed of once and only from where it is pending, and a tool result   *)
(* takes an inject only during a turn.                                     *)
ImplementsMailbox == Mailbox!Spec

(* While the agent loop of a turn runs, Interrupt reaches it, or it has    *)
(* been cancelled already, or a recovering call is about to cancel it.     *)
RunInterruptible ==
  \A c \in Clients : pc[c] \in HandlePcs =>
     \/ currentAction = handle[c]
     \/ handle[c] \in cancelled
     \/ \E d \in Clients : pc[d] = "recovering" /\ handle[d] = handle[c]

(* Positions at which a call still owes the agent a setState("idle").      *)
Busy == HandlePcs \cup {"done", "failed", "interrupted", "overflowed", "overflowCompact",
                       "compacting", "unwind", "recovering"}

(* The agent never stays "thinking" or "compacting" once every call that   *)
(* owes it a reset is past the point where it does so, panics and racing   *)
(* commands included.                                                      *)
SettlesIdle == state # "idle" => \E c \in Clients : pc[c] \in Busy

(* IsRunning never stays true: the handle it sees belongs to a turn whose  *)
(* loop is still running or whose panic is still being unwound.            *)
RunningHasOwner ==
  Running => \E c \in Clients : handle[c] = currentAction /\ pc[c] \in HandlePcs \cup {"unwind"}

(* Every call returns, whatever the others do.                             *)
CallsReturn == \A c \in Clients : pc[c] # "idle" ~> pc[c] = "idle"

-----------------------------------------------------------------------------
(* What the comments of the code say and the code does not do.             *)

(* core.go:805 "Serialize commands and turns so that e.g. a /compact       *)
(* arriving via ctl cannot race with an executeTurn arriving via prompt":  *)
(* no command that replaces the session runs while a client is in a turn.  *)
CommandsExcludeTurns ==
  \A c, d \in Clients : pc[c] \in {"clearing", "compacting"} => ~InTurn(d)

(* core.go:774 "If a turn is already in progress the prompt is queued":    *)
(* a prompt goes to the queue only while there is a turn to drain it.      *)
QueuedDuringTurn ==
  [][\A c \in Clients : Enqueue(c) => \E d \in Clients : InTurn(d)]_vars

=============================================================================
