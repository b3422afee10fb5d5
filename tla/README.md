# Verification of ollie-core

TLA+ models of ollie-core, a Go library that runs LLM agents: one `agent.Core`
per session, a loop that talks to a backend and calls tools, a server that
executes code in a sandbox, session files, and the small concurrent parts around
them (streams, tokens, change notification, rate limiter, log).  TLC checks the
models on small instances; TLAPS proves, for all values of the constants, every
safety property that the passing runs check: the main invariants of the core and
that no prompt is lost or served twice; that the agent loop keeps the contract
the core assumes, leaves a valid history without a trace of an interrupt and
with the completed work that has an id of its own, and that every backend can be
sent it; that the replies of the execute server are true; and those of the
session files and of the small components.

## 1. Inventory of the system

| Part | State it keeps | Operations | What makes it correct |
|---|---|---|---|
| Agent core, `pkg/agent/core.go` | `submitMu`, `currentAction`, `pendingInject`, `fifo`, `state`, `session` | `Submit`, `Interrupt`, `Inject`, `Queue`, `PopQueue`, `executeTurn` | turns are serialized; a prompt is neither lost nor served twice; Interrupt reaches a running turn; state returns to idle; every call returns |
| Slash commands, `commands.go` | the core's session, config, agent name | `/i`, `/irw`, `/clear`, `/compact`, `/agent`, `/model`, listings | a command that replaces the session does not race with a turn |
| Agent loop, `loop.go` | step, error counter, result cache, tool batch | `run`: stream, retry, execute tools, deliver injects | every tool call gets one result, in order; an interrupt leaves a valid history; retries and steps are bounded |
| Session, `session.go`, `state.go` | message history | `update`, `appendUserMessage`, `compact`, `removeCancelledToolResults` | history is always one that every provider accepts; completed work is kept |
| Cost, `cost.go`, `session.go` | per-turn and session accumulators | `addUsage`, `resetTurnAccumulators`, `recordTurnCost`, spending cap | a turn is charged for its own requests, each once |
| Change notification, `core.go:408-457` | condition variable | `WaitChange`, `notifyChange` | no announced change is missed; a cancelled waiter returns |
| Session files, `core.go:500-528`, `session.go:39-50` | `<id>.json`, `<id>.compaction.jsonl`, tmp directory, subprocess environment | `SetSessionID`, `saveSession`, `/compact`, `/agent`, restart | what was saved stays on disk under some name, also after a failure or a crash; commands see the id of the session |
| Hooks, `hooks.go` | the processes of a command | `Run` | the outcome is what the commands said; a command that hangs is given up |
| Execute server, `pkg/tools/execute` | lock table, cwd, env, trust, rate limiter | `dispatchSteps`, `dispatchPipe`, `runReadBatch`, `checkRateLimit` | writers exclude other lists; nobody waits for a lock left behind; replies say what happened; failed validations are bounded |
| Backends, `pkg/backend` | stream channel | `ChatStream`, `streamRequest`, parsers, encoders | an accepted answer is whole; the producer always goes away; requests pair calls and results |
| Kiro authentication, `codewhisperer.go` | tokens in a shared SQLite file, cache, mutex | `AccessToken`, `Refresh` | a replaced refresh token is not sent again; a new token is not overwritten by an old one |
| Log, `pkg/log` | buffered channels | `Write`, `Flush` | lines are written in order; Flush waits for them |
| Sandbox, config, env, paths, skills, dispatcher, wire formats | none that changes after start | loading, formatting | not state machines: left out |

How they interact: frontends (goroutines) call `agent.Core` concurrently and
receive events through a callback on the goroutine that called `Submit`.
`Submit` runs the agent loop; the loop calls the backend (a channel fed by
another goroutine), the tools (goroutines of a parallel batch, which reach the
execute server together) and the hooks (subprocesses).  `Inject`, `Queue` and
`Interrupt` reach a running turn through three shared variables only:
`pendingInject`, `fifo`, `currentAction`.  The files, the Kiro tokens and the
flocks are shared with other processes, the Kiro tokens with every other
session of this one too.

The hard behaviours are the interleavings of callers on these variables, the
panics that unwind a turn from its middle, the retry of a turn after a context
overflow, interrupts that arrive while a stream or tools run, steps of several
calls that share locks and fail, files renamed while a turn saves them, crashes
between file operations, and tokens refreshed by several callers.
`PROJECT.json` lists each one with its line.

## 2. Modules

| Module | What it is |
|---|---|
| `AgentCore` | the core, its turn loop and the commands that race with it |
| `PromptMailbox` | what the core promises about prompts, abstractly |
| `AgentLoop` | one turn: the agent loop, the messages of the session, the end of `executeTurn` |
| `RunContract` | what the core relies on when it calls `run`, abstractly |
| `Transcript` | `AgentLoop` with the requests that four backends make of its messages |
| `ExecuteServer` | calls of the execute server: stages, flocks, checks, replies |
| `Subprocess` | a command's processes, and the three functions that run one: hooks, sandboxed and elevated steps |
| `SessionStore` | session files, names, environment; crash and restart |
| `BackendStream` | one answer: parser goroutine, channel, attempts of the loop |
| `KiroAuth` | token refresh |
| `ChangeMonitor` | `WaitChange` and `notifyChange` |
| `ValidationLimiter`, `CostMeter`, `AsyncLog` | the rate limiter, cost accounting, the log sink |
| `AgentCoreMC`, `AgentLoopMC`, `ExecuteMC`, `SessionStoreMC` | symmetry, answers and calls for TLC |
| `ComponentsMC` | the seven small machines side by side, one per behaviour |
| `AgentCoreProofs`, `MailboxProofs`, `AgentLoopProofs`, `HistoryProofs`, `TurnEndProofs`, `ExecuteProofs`, `StoreProofs` | the TLAPS proofs about the core, the loop (three modules), the execute server and the session files |
| `ComponentProofs` | the TLAPS proofs about the modules that `ComponentsMC` runs |

`AgentCore` and `AgentLoop` are two views of a turn.  `AgentCore` has every
caller and leaves out what a turn says; `AgentLoop` has one turn in detail and
leaves out the other callers, except that an interrupt and an inject may come
between any two of its steps.  They meet in `RunContract`: `AgentLoop`
implements it, and the actions of `AgentCore` at `RunRegion` (`ToolResult`,
`MidCompact`, `RunReturn`, `OverflowCompact`, `OverflowRetry`,
`OverflowGiveUp`) are written from the same lines of `executeTurn`.
`Transcript` puts the encoders on top of `AgentLoop`, and `BackendStream` is
`AgentLoop`'s step from request to answer in detail.  `Subprocess` is, in
detail, what is one step elsewhere: `Finish` of `ExecuteServer`, and a hook in
`AgentCore` and `AgentLoop`.

### AgentCore

A client is a goroutine that is in at most one call of `agent.Core` at a time.
`pc[c]` is where it is in that call.  Each action is one atomic operation on a
shared variable (`submitMu`, `currentAction`, `pendingInject`, the FIFO under
its mutex, `state` under `mu`) with the non-blocking code around it; whatever
can block (a hook, the backend, a compaction, the lock) separates two actions.

| Code | Actions |
|---|---|
| `Submit` 778-803, fast path | `Submit`, then `Enqueue`, `InjectStore`, ... at `pc = "fast"` |
| `Submit` 805-821 | `AcquireLock`, `EnterLoop`, `LoopExit`, `Leave` (the deferred Unlock) |
| `Submit` 779-788, recover | `Panic`, `RecoverSwap`, `RecoverIdle` |
| `Inject`, `injectRewrite` | `InjectCall`, `InjectStore`, `InjectFull`, `InjectPush`, `InjectRewrite` |
| `Interrupt` | `Interrupt`, `InterruptCancel` |
| `/clear`, `/compact` | `CommandRefused`, `ClearCheck`, `Clear`, `CompactStart`, `CompactEnd` |
| `executeTurn` up to `run` | `TurnStart`, `PreTurnBlocked`, `NewSession`, `OpenTurn`, `PreCompact`, `PreCompacted`, `CapReject`, `StartRun` |
| `run`, as the core sees it | `ToolResult`, `MidCompact`, `MidCompacted`, `RunReturn` |
| `executeTurn` after `run` | `OverflowCompact`, `OverflowRetry`, `OverflowGiveUp`, `EndRun`, `HookContinue`, `HookDone`, `TakeInject`, `PopNext` |

`fate` is a history variable: what has become of each prompt.  `handle[c]`
stands for the local variable of whichever function holds a handle: the turn,
an Interrupt, a recovery.

Abstractions.  Messages are left out: a session is nil or live.  `state` has
one value for "thinking", "calling: x" and "limitretry".  The mid-turn spending
cap is left out: it compares a total that only changes between turns.  A test
and a non-blocking use right after it are one step, so a session that becomes
nil is noticed only after something blocking.  A prompt is submitted once, so
prompts bound the length of a behaviour; `MaxContinue` bounds how often the
postTurn hook asks for another turn.

### PromptMailbox

Prompts are pending, or have a fate; turns do not overlap; a tool result takes
a prompt only during a turn.  `AgentCore` implements it under the mapping
`pending` = prompts in some place (held by a call, queued, or injected) and
`serving` = some client is inside `executeTurn`.

### AgentLoop

`pc` is where `run`, or the end of `executeTurn`, is; `worker[k]` is where the
goroutine of call `k` is in `execOne`.  Whatever can block ends a step.

| Code | Actions |
|---|---|
| `loop.go` 98-128, `ChatStream` fails | `BackendError` |
| `loop.go` 130-234, the stream | `Answer`, `AnswerRejected`, `StreamEnds` |
| `retryCountdown` | `Wait` |
| `loop.go` 336-428, batches | `ActCancelled`, `StartBatch`, `EndBatch` |
| `execOne` | `ExecOne`, `PreTool`, `ExecReturn`, `PostTool` |
| `loop.go` 431-495, end of a round | `Save`: update, error limits, step budget, plan |
| `AutoCompact`, `runCompact`, `compact` | `NoCompact`, `StartCompact`, `EndCompact` |
| `executeTurn` 997-1036 | `Rollback`, `RunAgain`, `OverflowCompactFails`, `EndTurn` |
| `Interrupt`, `Inject` during the turn | `Cancel`, `Inject` |

A message is its role, its call ids, the kind of a result (ok, error, cancelled
or stopped by an interrupt) and the inject the result carries; a key is a tool
name with its arguments.  `Truncates` says whether a result may exceed the size
limit.  An answer has ids of one of three kinds (`IdOf`, `IdKinds`): its own,
numbered by its round and place, as the providers give them; `dsml`, the tool
and the place only, the same in every round and turn, for calls recovered from
DSML markup (openai.go:329); or none (Ollama).  The end of a turn recognises the
result of a cancelled call by a text in it (session.go:189-192), so a result of
a key in `Quoting` that succeeds (`Success`) is of kind "quoting", and is taken
for a cancelled one (`Recognised`).  `injected` is a history variable that
remembers what came in.  A turn starts on a new session or after a round of an
earlier turn, of any of these kinds, compacted or not.

Left out: texts, events and usage; the session file; the spending cap, which
only interrupts; a second inject while one is pending, which goes to the queue
(`AgentCore`).  The built-in execute server offers tools (`execute_code`,
`call_tool`, ...) whose names are not those of annotated scripts, so batches
and the cache work only for servers whose tool names are; the loop does not
depend on that, nor does the model.

### Transcript

No state of its own: operators that turn the messages of `AgentLoop` into the
blocks of a request (`OpenAIMessages`, which is also Ollama's shape,
`AnthropicMessages`, `KiroMessages`), each as its encoder groups, drops or
rejects them, and `Sendable`, which says that each of them pairs calls with
results.

### ExecuteServer

A request is a goroutine with one call; a call is a list of steps or a pipe.
`phase[r]`, `at[r]` and `work[r]` are the stage it is at and how far each
concurrent member of that stage is; `locks` is the kernel's flock table;
`began` and `good` are history variables.

| Code | Actions |
|---|---|
| `code.go` 108-241, `server.go` 255-267: argument checks, trust | `Dispatch` |
| `dispatchSteps`, `dispatchPipe`: next stage or answer | `FinishStage`, with `StageEnd`, `Mode`, `Members` |
| `acquireFlock` | `AcquireExclusive`, `AcquireShared`, `LockFails` |
| `executeWithStdin`, `executeElevated` | `Begin` (resolve, rate limit), `Match` (`ValidateCode`, interpreter), `Finish` (the command ends) |

Codes and tools are told apart only by what the server asks of them (matches a
pattern, has no interpreter, has no script, is annotated read). The text of a
step is its position. What a script is annotated as is fixed for a call: the
code reads it twice, for the lock (flock.go:28) and for the step (code.go:35),
and a script that changes in between is left out, as are parallel groups within
parallel groups. `Locking` says whether the server has a lock directory; the run
assumes one, and after `/agent` the server has none and takes no flock at all.
Left out: the output limit, the command line, `SetCWD` and `SetEnv`, which a
concurrent call may see at any point.

### Subprocess

A command is `main`, a `child` in its process group and a `daemon` outside of
it; `alive` are those that run, `holding` those that hold the pipe of its
output, and `exit` is what `main` exited with.  `runner` is one of the three
functions; `place` is where it is.

| Code | Actions |
|---|---|
| `Hooks.Run`, `runHookCmd` | `StartCommand`, `StartFails`, `CommandDone`, `GiveUp` and `Drained` (timer or context), each with `NextCommand` |
| `executeWithStdin`, `executeElevated` | `StartCommand`, `StartFails`, `StepDone` |
| `os/exec` | `Reap`, `Waited`, `ContextKills` (the group for `executeWithStdin`, else the process) |
| processes, time, the turn | `ForkChild`, `ForkDaemon`, `Ends`, `TimePasses`, `CancelContext` |

That a process out of reach of the kill (`OutOfReach`) can keep a runner for as
long as it lives is part of the model: no runner sets `Cmd.WaitDelay`.  Output,
environment and the second output pipe of hooks and elevated steps are left
out.

### SessionStore

Every change of the history is a new version; a file holds a version, or is
missing, or truncated.  `saver` is `saveTo` between its file operations,
`rename` is `SetSessionID` between its own.  An open file is followed by inode,
so a rename carries a write along.  `promised` is what the last save of each
session put on disk, `compacted` what `/compact` took out of memory after it
was saved, `lost` what an error or a crash between truncation and write
destroyed, `replaced` what a rename replaced, or gave the name of to another
session.

| Code | Actions |
|---|---|
| a turn, `saveSession`, `saveTo` | `Converse`, `Save`, `SaveOpen`, `SaveWrite`, `EndTurn` |
| `/compact`, `/clear` | `Compact`, `LogSnapshot`, then the save; `Clear` |
| `/agent` | `AgentDispatcher`, `AgentSession`, `AgentPush`, `AgentEnv` |
| `SetSessionID`, `pushSessionEnv` | `RenameStart`, `RenameJson`, `RenameLog`, `RenameId`, `RenamePush`, `RenameEnv` |
| `Close` or a crash, `RestoreSession` | `Restart` |

`SetSessionID` takes no lock: every step of a rename may fall between any two
steps of a turn, a save, `/compact` or `/agent`, each assignment of which that a
rename can see is a step. A rename may go to any id but the present one, in use
or not, as in the code; `os.Rename` then replaces the file, and a save that has
it open writes under no name. `env` is the id that the execute server in use was
told (`pushed` and `rename.push` are the ids read before `SetEnv`), and
`crossed` remembers that a rename and `/agent` have overlapped since. The tmp
directory of a session, which a rename moves too, is left out.

### BackendStream

`sent` is what the server streams in this attempt (text, fragments of calls, and
the tags, parameters and broken values of calls that leak into the text as
markup of DeepSeek models), `producer` the parser goroutine, `channel` the Go
channel, `consumer` the attempt loop of `loop.go:98-216`.  A piece is its
position in `sent`; `accum` are the calls the parser has put together so far,
each the positions of its fragments, `dsmlBuf` the markup it holds back.  The
four parsers differ in `FinalCalls` (Go maps lose the order; OpenAI recovers at
most one call from markup), in the end of a body (`Drop` is an error except for
Kiro), in the request (Kiro makes it behind the channel, `KiroRequest`) and in
the send (`KiroStops` alone looks at the context). `Recovered` is what
`parseDSMLToolCalls` makes of the markup: the first tag with every parameter up
to the end, or nothing when there is no parameter or one has a value that is not
JSON.  That parameters of one name replace each other, and text within a
parameter that is not closed, are left out.

### KiroAuth

A caller asks for the access token or, after a 401, for a refresh.  `store` is
the database, `cached` the state of the first read, `mu` the mutex, `seen[c]`
the local state of a call.  Each action is one read, one request or one
transaction.  The module is about one auth source, that of one backend:
`NewCodeWhisperer` makes a source with a mutex of its own for every backend, so
to each of them the others, in this process or not, are foreign.
`ForeignRefresh` is the answer to another source, `ForeignStore` its update,
possibly much later (`abroad` are the tokens in between).  `retired`, `reused` and
`blind` are history variables.

### ChangeMonitor, ValidationLimiter, CostMeter, AsyncLog

`ChangeMonitor`: a write and its `notifyChange` are two steps; `CondWait` gives
up the lock and falls asleep in one; `AfterFunc` is the goroutine of
`context.AfterFunc`.  `WriteSilently` stands for the changes that nobody
announces.  `ValidationLimiter`: check and report of a worker are two steps of
one clock; `failures` remembers when each failure was.  `CostMeter`: `runLog`
remembers what the requests of the run cost, each at the price of its moment, to
compare with what the accumulators charge.  `AsyncLog`: choosing an output,
sending, writing, closing and waiting are steps of their own.

## 3. Runs

| Run | Instance | Shows |
|---|---|---|
| `AgentCoreAll` | 2 clients, 2 prompts, all operations and results (1.2 million states) | `Safe` (the inductive invariant), `OneTurn`, `RunInterruptible`, `RunningHasOwner`, `SettlesIdle`, no deadlock |
| `AgentCoreMailbox` | 2 clients, 2 prompts, every way to hand over a prompt, one continuation, fair (63 thousand) | `PromptsConserved`, `ImplementsMailbox`, `CallsReturn` |
| `AgentLoopHistory` | 2 rounds of up to 3 calls (batch, duplicate, write, nameless), and an earlier turn, with ids of their own or repeated ones, a tool that quotes the mark, 2 attempts, no inject (2.5 million) | `TypeOK`, `ValidHistory`, `RequestsSendable`, `InterruptLeavesNoTrace`, `CompletedWorkKept` |
| `AgentLoopRun` | 2 rounds of a parallel batch or a failing call, 2 attempts, 1 inject, nudge after 1 error, fair (811 thousand) | `InjectsSurviveRun`, `NudgeOncePerStreak`, `RunEnds`, `ImplementsContract` |
| `ExecuteServer` | 2 requests, 10 calls, fair (24 thousand) | `Safe`, `WriterExclusion`, `RepliesFaithful`, `CallsAnswered`, no deadlock |
| `SessionStore` | 3 ids, 2 versions, renames onto any name and across everything, failures and crashes everywhere (9.4 million) | `StoreTypeOK`, `SavedSurvives`, `HistoryKept`, `EnvFollowsId`, no deadlock |
| `Components` | one of seven machines per behaviour, fair (199 thousand) | see below |

`Components` checks of the stream (4 providers, 7 answers, a channel of one, 2
attempts) `DoneIsLast`, `AnswerIsWhole`, `NobodyBlocked`; of the tokens (2
callers, other sources, 2 issued tokens) `RetiredNotReused`,
`StoreMovesForward`; of the monitor (2 watchers, 1 writer, 2 fields)
`MonitorInv`, `CancelEndsWait`; of the limiter (2 workers, 2 failures)
`BurstBounded`; of the meter (3 requests, 3 prices) `TurnCharged`; of the log (2
loggers, 2 outputs, buffers of one) `FlushDrains`; of the subprocesses (3
runners, a hook of 2 commands, 3 processes) `CommandReturns`, `OutputSettled`,
`HookVerdict`.  The machines share no state, so a behaviour of several of them
at once shows nothing that one does not.  Some of them can stop (an answered
stream, a flushed log), so deadlock is not checked.

Why these bounds. Two clients are enough for a race between a turn and a call,
two prompts fill the pending inject and overflow to the FIFO; for more clients
the invariants of `AgentCoreAll` are proved. In `AgentCoreMailbox`, where nobody
has anything left to submit, and in the `AgentLoop` runs, which follow one turn
to its end, the model stops: deadlock is not checked there; `CallsReturn` and
`RunEnds` say that it gets to the end. The limits of the loop (4 attempts, nudge
after 5 failures, abort after 10, plan every 10 rounds) are constants, and the
runs use the smallest values that keep them apart: one retry, a nudge before the
abort, two rounds so that the later one sees what the earlier one left (cache,
errors, plan, a compaction). Two requests of `ExecuteServer` conflict in every
pair of lock modes, and its calls have every kind of stage first, and before or
after another one. Three ids allow a rename onto a name in use, and a restart or
an `/agent` in its middle or after it; two versions a save and a compaction or a
save over it. A channel of one blocks the producer at every send, a buffer of
one every logger. Two issued tokens are one refresh by each caller, or one by a
caller and one by another source.

Violation runs: what a comment says and the code does not do.

| Run | Comment | What happens |
|---|---|---|
| `AgentCoreCommandRace` | core.go:805 commands and turns are serialized | `/compact` or `/clear` on the fast path runs during another client's turn |
| `AgentCoreStranded` | core.go:773 a prompt during a turn is queued for it | it is queued after the turn looked at the queue for the last time |
| `AgentLoopInjectRemoved` | types.go:46 an inject goes to the next tool result | it is deleted with the result of the interrupted call |
| `AgentLoopNoIds` | session.go:150 completed work is kept | without ids, one cancelled call removes every result |
| `StreamPause` | loop.go:184 a user pause records the partial state | the broken read ends the stream with an error, and the turn fails without a record |

Fairness.  `AgentCore`: a call that has been made goes on (`WF` on its steps:
goroutines are scheduled, hooks and backends answer or fail).  `SF` on
`AcquireLock`: `sync.Mutex` hands over to a starving waiter.  `SF` on
`RunReturn`: the model stops calling tools sooner or later; without it the
agent loop could compact and continue for ever.  Callers need not call, and
nothing is assumed of Interrupt.  `AgentLoop`: the turn takes a step when it
can; it ends because attempts and rounds are bounded, and a turn without a step
budget need not.  `ExecuteServer`: `WF` for a stage, for the members of a stage,
and for the grant of a free exclusive flock; the calls are finite, so nobody
starves, and a command comes back, at its timeout at the latest.
That is `CommandReturns` of `Subprocess`, as long as no process out of reach
holds the output; there, goroutines are scheduled and time passes (`WF`), but
no process need ever end.
`BackendStream`: `WF` for producer and consumer; that a server which neither
sends nor closes is left for ever (the HTTP clients have no timeout) is outside
that assumption.  `ChangeMonitor`: `WF` for a watcher that holds the lock, `SF`
for those that want it.  `SessionStore`, `KiroAuth`, the limiter, the meter and
the log have safety properties only, and no fairness.

### Where code and comments part, without a run

The actions follow the code; no property is stated, or the property says what
it excepts.

- Core: `IsRunning` is false during the preTurn and postTurn hooks and the
  overflow compaction of a turn (types.go:58).  An inject with no turn running
  is kept for a later turn (types.go:47 says it is dropped).  An interrupted
  turn leaves the queue undrained, and a popped prompt is dropped when the
  context of the Submit that drains is done (types.go:39).  A panicking Submit
  unlocks before it recovers (core.go:779-807), so its recovery can cancel the
  next turn of another client.
- Loop: the run ends with the note that the step budget is exhausted; the final
  turn of loop.go:471 does not happen.  A backend error after a dropped stream
  does not run the turnError hook (loop.go:107).  Cached results are not
  invalidated by writes (loop.go:82, "immutable reads"), and carry the inject
  of the result they were made from, as do the results of duplicates.  An
  inject at the end of a long result is cut off with it (types.go:46);
  `InjectsSurviveRun` is therefore about results within the limit.
- Removal of cancelled results (session.go:150, "keeping completed work"): the
  ids of calls recovered from markup start anew with every answer
  (openai.go:329), so one cancelled call also removes the results of earlier
  rounds and turns that had the same tool at the same place; and a completed
  result that quotes the text of a cancelled one (session.go:190) is removed at
  the end of every turn that does not succeed.  `CompletedWorkKept` is therefore
  about results with an id of their own that do not quote the text.
- Session: compaction keeps the summary only, not the user messages
  (session.go:201).  A failed turn leaves its prompt in the session
  (core.go:844); a failed overflow compaction leaves the input in no message.
- Names: `SetSessionID` tests only whether the new id is the present one
  (core.go:505), so a rename to the id of another session replaces its files,
  and one that overlapped a save and goes back replaces the newer file by the
  older one (types.go:96 says only that it renames the files); `SavedSurvives`
  and `HistoryKept` except what was `replaced`.  A rename and `/agent` that
  overlap can leave the execute server with another id than the session has
  (core.go:500); `EnvFollowsId` excepts them.  The server that `/agent` makes is
  never given a lock directory (tools.go:111), and runs its lists without
  flocks.
- Files: a `SetSessionID` that overlaps a save leaves a file under the old name
  too; one that overlaps `/agent` can give the new session the name, and so the
  file, of the old one.  The lock directory of the execute server keeps the old
  name after a rename; after `/agent` the variables of `SetEnv` are not set.
  Auto-compaction writes no compaction log.
- Cost: failed and interrupted turns, the first run of an overflow retry and
  compaction requests are never charged; a turn in which some requests reported
  a cost gives the others away; `/clear` and `/agent` start from zero; `/model`
  reprices a turn under way.  The cap is tested again inside a turn
  (core.go:902), but the total it looks at only changes between turns.
- WaitChange "blocks until the named field changes" (types.go:119): appended
  messages, `/clear`, `/agent` and `/model` change usage, context size or model
  and announce nothing; the context size may ask the backend over the network
  while `changeMu` is held.
- Execute server: one plain step alone runs without the flock (code.go:248);
  waiting for a flock ignores the context; CallTool's error reply drops the
  output of the steps that ended well; a call with a tool and `elevated` runs
  the elevated command without code (server.go:156).  The validation window
  starts over with each failure, so failures less than a minute apart block
  however long they take to reach five.
- Commands: the timeout "applies to each step" (server.go:103, README.md:81),
  but once the command itself has exited, `os/exec` watches the context no
  longer: a background process that holds the output keeps the step, with its
  flock, as long as it lives.  Of an elevated command only the plugin is killed
  at the timeout, of a hook the group, and then either waits for whoever holds
  the output.  A step that ended well while its deadline passed is reported as a
  timeout.  A hook that does not start, times out or is cancelled blocks
  nothing, even if its command went on to exit with 2; `Ran` (hooks.go:40,
  "configured and executed") is true when no command could be started.
- Leaked calls (openai.go:269, "recovers tool calls"): of several calls that leak
  as markup one comes out, the first, with the parameters of all; one without
  parameters (openai.go:326), or with a value that is not JSON, is dropped, and
  the answer is accepted without it.
- Streams: Kiro takes an early end of the body for a regular one, so a cut
  answer is accepted (loop.go:92 says drops are retried); its errors are never
  typed, so they are neither retried nor compacted away.  Anthropic's request
  has consecutive user messages where "strictly alternating roles"
  (anthropic.go:158) are meant; OpenAI's drops the text beside tool calls.
- Tokens: the test for a refresh by another caller (codewhisperer.go:537)
  compares two reads made under the same lock, so it only ever notices another
  source; `load` falls back on the tokens of the first read; a refresh that is
  not stored loses a rotated token; another source's refresh can be
  overwritten, or overwrite, which is why `StoreMovesForward` excludes it.
- Log: a call after `Flush` panics; "writes never block" (log.go:36) holds up
  to 4096 messages.

## 4. Proofs

`AgentCoreProofs`, for every set of clients and prompts, under
`CoreAssumption` (operations and results are among those modelled; null values
differ from real ones):

- `Safety`: `Spec => []Safe`.  `Safe` joins the type invariant with
  `LockedPath` (whoever is in the turn loop holds `submitMu`) and `HandsFull`
  (a call about to queue or inject holds a prompt, a running turn has a
  handle).  Types alone are not inductive: `Enqueue` would append a null, and
  `InterruptCancel` would cancel one.
- `TurnsSerialized`: `[]OneTurn`, from `LockedPath`.
- `TurnsInterruptible`, `StateSettles`, `RunningEnds`: the three invariants
  that relate handles, state and positions, each inductive together with
  `Safe`.

`MailboxProofs`, under the same assumptions:

- `NoPromptLost`: `Spec => []PromptsConserved`, through `MailSafety`.  The
  property alone is not inductive: the code overwrites `input` at many places
  without looking, which is right only because no prompt can be there.
  `HandsEmpty` names the positions at which a call may hold a prompt; `Apart`
  says that no prompt is in two places (hand, FIFO, pending inject);
  `Accounted` that the open prompts are those in a place.  The definitions above
  the first lemma are the few ways prompts move; `StepMoves` shows that every
  action is one of them, `MailMoves` that each keeps the invariant.
- `KeepsMailbox`: `Spec => ImplementsMailbox`.  Pending prompts are the open
  ones; only `TurnStart` begins a turn, and `LockedPath` says that nobody else
  is in one then; every other change of a fate is a step of `PromptMailbox`.

`AgentLoopProofs`, for all tools, answers, injects and limits, under
`LoopAssumption`:

- `KeepsContract`: `Spec => ImplementsContract`.  Every action is one of four
  kinds (`RunSteps`): it goes on quietly, takes the inject, returns, or belongs
  to the end of `executeTurn` (`TurnSteps`), and each kind is a step of
  `RunContract` or a stutter.  That "interrupted" is returned only under a
  cancelled context needs `CancelInv`: a recorded interruption, in a worker or
  in the round, means the context is cancelled.

`HistoryProofs`, under the same assumptions:

- `HistoryStaysValid`: `Spec => [](pc # "closed" => ValidHistory)`.  The history
  grows only by user messages and by whole rounds, an assistant message with its
  results (`Sound` of any history, and the lemmas that extend one), so `LoopInv`
  is about the round under way.  `Answered` says that the calls before `next`
  have a result each, in order; `Batched` that a batch is an interval of calls
  from `next` on, whose workers are those calls and no others (`BatchInterval`;
  its first call is the least one by the well-foundedness of the naturals).
  That the results of a finished batch, appended in order, answer exactly the
  calls of the batch follows from both.
- `LoopBounded`: `Spec => []TypeOK`, from `LoopInv`.
- `InjectsSurvive`: `Spec => []InjectsSurviveRun`.  `TakenKept` says where a
  taken inject is: with a worker of the batch, in the results, or in the session,
  unless the run was truncated, rolled back or summarised.  It needs `RoundOpen`:
  outside a round there are no results to lose, and a duplicate call, which
  takes over the result of another, always has one before it in its batch.

- `NudgedOnce`: `Spec => [](pc # "closed" => NudgeOncePerStreak)`.  `NudgeInv`
  relates the counter of consecutive errors to the messages: below the limit,
  every nudge has a successful result after it (`Settled`); at the limit nothing
  nudges again.  The session an overflow rolls back to is settled as well, since
  the counter starts at 0 there.

`TurnEndProofs` is about the whole turn with its end, under the same assumptions:

- `TurnSafety`: `Spec => []TurnInv`.  What the end of a turn removes can only be
  right if what it may find is known: `EndInv` says that results of interrupted
  calls are in no session that is not about to be cleaned, and after every
  nudge (`TraceLast`), and that an id of a call's own belongs to one result and
  to a round that was asked for (`Fresh`); `ResultsClean` that an interrupt ends
  its round; `Numbered` that such an id is the call's round and its place.
- `HistoryValid`: `Spec => []ValidHistory`, through `Closed`.
  `removeCancelledToolResults` filters lists: `Sublist` is a recursive function,
  and that it exists, and that its value is the elements at the chosen positions
  in order, is shown by the least argument at which it would not be
  (`FiltersExists`); only one function enumerates a set in order
  (`EnumUnique`).  From that, the calls that stay and the results that stay are
  filtered alike (`Without`), whether or not ids are distinct.
- `NoTraceOfInterrupt`: `Spec => []InterruptLeavesNoTrace`.
- `CompletedKept`: `Spec => CompletedWorkKept`, for calls of any kinds of ids side
  by side: a result whose call has an id of its own, and that does not quote the
  mark, stays.  The other results need not (`AgentLoopNoIds`, and section 3).
- `NudgesStay`: `Spec => []NudgeOncePerStreak`.  While the turn goes on this holds
  for all ids; of the closed session it is claimed only where all ids are calls'
  own and nothing quotes the mark (`Distinct`), since otherwise the end of an
  interrupted turn may remove the work between two nudges.
- `RequestsAccepted`: `Spec => []RequestsSendable`, where no answer leaves ids
  out. The results of an answer follow it and end before the next message that
  is no result; so in each of the forms (one message per result; one block for
  consecutive results, with `BlockStarts` enumerated like a filter; Kiro's,
  whose last block is apart) a list of calls meets its results.  `Awaited` says
  that run never asks with an answer at the end, which Kiro rejects.

`ExecuteProofs`, for every set of requests and calls, under `ServerAssumption`
(the call lists are finite, steps and parallel groups are sequences, the empty
string is no call):

- `ServerSafe`: `Spec => []Safe`.  Exclusion alone is not inductive: a stage
  could run under a flock that is not in the table.  `LockTable` adds that
  whoever runs under a flock holds it, that who waits for the exclusive flock is
  at a stage that needs it, and that every flock has a running holder.  That a
  stage ends within its call needs a maximum of a finite set, which comes from
  the well-foundedness of the naturals (`StageEndInCall`).
- `WritersExcluded`: a consequence of `Safe`.
- `RepliesTrue`: `Spec => []RepliesFaithful`, through `Recorded`: while a call is
  under way, what has ended well is exactly the earlier stages and the members
  of this one that are done, nothing later has begun, and the output collected
  is theirs, in order.

`StoreProofs`, for all ids and any number of versions, with renames to any name
that overlap saves, `/compact` and `/agent`:

- `SavesSurvive`: `Spec => []SavedSurvives`.  What is on disk stays because of
  what can be overwritten: `TargetsReplaceable` says that a file a save is about
  to write (under the id, under the name it has already made, or open) holds
  nothing promised but the last save of this very session, or what is already
  given up.  `RenameApart` says that a rename never replaces the file of the
  session it starts with, `FreshIsEmpty` that unused names have no file.  What
  is given up is `lost` (a save of the session that died in its middle) and
  `replaced`; without either the property is false.
- `CompactionLogged`: `Spec => []HistoryKept`, with the same two exceptions,
  through `TargetsDisposable`: what is about to be overwritten is in the log,
  except between the compaction and its log entry, when no save can be under way.
- `EnvFollows`: `Spec => []EnvFollowsId`, through `EnvInv`: while a rename and
  `/agent` have not met, the id that either is about to tell the server is that
  of the session.
- `StoreTyped`: `Spec => []StoreTypeOK`.

`ComponentProofs`, each under the assumption of its module:

- `ChangeMonitor`, for all watchers, writers and fields: `NoWakeupMissed`,
  `[]MonitorInv`.  That no wakeup is missed needs that a watcher holds
  `changeMu` from its check until it sleeps: no broadcast falls between the two.
- `KiroAuth`, for any number of callers: `ReplacedNotSent` and `StoreForward`,
  from an invariant which says that only the holder of `mu` is between its second
  read and its update, and that what it is about to send or store is not older
  than what the store has, unless another source wrote it or one of its reads
  failed.  A token issued to another source is in nobody's hands here before
  that source stores it (`Apart`).
- `Subprocess`, for any number of commands of a hook: `OutputIsSettled`, since a
  runner goes on only after `Waited`, and no process is forked without one that
  lives (`CommandInv`); `HookDecides`, from what the commands that have ended say
  of the verdict to come (`HookInv`).
- `BackendStream`, for all answers, capacities and attempts: `StreamEndsAtDone`.
  `StreamInv` adds that only a consumer that streams has a producer or a channel
  with anything in it.  `AnswersWhole`: while run reads, the text in the answer,
  in the channel and in the producer's hand are, in this order, all that was to
  be shown of the items read (`TextInv`), up to where Kiro stopped; what the
  parser has accumulated are the calls among those items (`ParserInv`); and a
  Done event that is no error was sent by a parser that had read everything,
  with those calls (`EndsWell`).  So nothing is missing when run sees Done, and
  `Ask` has thrown away what an attempt before it had left.  Structured calls
  come out whole, each once; of markup at most one call comes out, and none
  beside a structured one.
- `AsyncLog`, for any number of loggers, outputs and buffer sizes: `LogIsFlushed`.
  The messages of an output, written or buffered, are one list (`Logged`) that
  `WriteOut` does not change; it holds exactly what was sent, each logger's in
  order, and Flush waits until nothing of it is left in the buffer.
- `ValidationLimiter`, for any finite set of workers: `LimiterHolds`.  A failure
  needs room within the window, which is there because a worker that was let
  through has it reserved (the fourth conjunct of `LimiterInv`), and a worker is
  let through only while the recent failures are those of the current count:
  `CountStarts` says that the count began with the first failure, after a pause,
  or with a block, and that a block outlasts the window is `LimiterAssumption`.
- `CostMeter`, for all usages and prices: `TurnsCharged`, an action property.
  `MeterInv` says that what was reported is in the accumulator, and that without
  a reported cost the tokens are worth what the requests cost, at any single
  price.

Only model-checked: liveness under fairness (`CallsReturn`, `RunEnds`,
`CallsAnswered`, `NobodyBlocked`, `CancelEndsWait`, `CommandReturns`), which is
out of the prover's reach.  The properties whose violation a run shows are
claims that the code does not keep.

## 5. What is left

1. The tmp directory that a rename moves, and the lock directory in it.
2. The execute server's output limit, and its `SetCWD` during a call.

## 6. Not modelled

Sandbox command lines, configuration and environment loading, skills, prompt
assembly, provider wire formats and model price tables: text in, text out, no
state that interleaves.  The tool dispatcher is a map filled once, backend
selection a switch over a name, Copilot the OpenAI backend at another address.
Real time is left out, except in the rate limiter: a timeout is a step that may
happen.
