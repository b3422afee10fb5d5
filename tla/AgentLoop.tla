------------------------------ MODULE AgentLoop ------------------------------
(***************************************************************************)
(* One turn of the agent loop: run of pkg/agent/loop.go, the session       *)
(* history it writes (session.go), and the end of executeTurn (core.go)    *)
(* that retries after an overflow or removes what an interrupt cancelled.  *)
(*                                                                         *)
(* A round asks the backend, executes the tool calls of the answer, with   *)
(* runs of consecutive read-safe calls as one concurrent batch, and        *)
(* appends both to the history.  Whatever can block ends a step: the       *)
(* backend, a wait, a hook, a tool, a compaction.  An interrupt and an     *)
(* inject may come between any two steps.                                  *)
(*                                                                         *)
(* Texts are left out: a message is its role, its tool call ids, the kind  *)
(* of a result, and the inject a result carries.  A key stands for a tool  *)
(* with its arguments; two keys are calls of two tools.                    *)
(***************************************************************************)
EXTENDS Naturals, Sequences, FiniteSets

CONSTANTS Keys,          \* tool name and arguments of a call
          ReadSafe,      \* keys whose tool is classified parallel-read
          Unnamed,       \* the key of a call with an empty tool name
          Responses,     \* lists of keys a backend may answer with
          Injects,       \* prompts that may be injected, each once
          Null,
          MaxRetries,    \* maxTransientRetries
          SoftLimit,     \* consecutiveErrorSoftLimit
          HardLimit,     \* consecutiveErrorHardLimit
          MaxSteps,      \* step budget of a turn; 0 is unlimited
          PlanInterval,  \* planReinjectInterval; 0 when there is no plan file
          Truncates,     \* a tool result may exceed ToolResultMaxBytes
          Quoting,       \* keys whose results quote what marks a cancelled one
          IdKinds,       \* the ids the backends of the session give to calls
          Earlier        \* keys of the call an earlier turn may have left

ASSUME LoopAssumption ==
  /\ ReadSafe \subseteq Keys /\ Unnamed \in Keys \ ReadSafe
  /\ Responses \subseteq Seq(Keys)
  /\ Null \notin Injects
  /\ {MaxRetries, MaxSteps, PlanInterval} \subseteq Nat
  /\ SoftLimit \in Nat \ {0} /\ HardLimit \in Nat /\ SoftLimit < HardLimit
  /\ Truncates \in BOOLEAN
  /\ Quoting \subseteq Keys /\ Earlier \subseteq Keys
  /\ IdKinds \subseteq {"own", "dsml", "none"}

VARIABLES
  pc,             \* ask, wait, act, batch, save, round, compact, ended, overflow, closed
  outcome,        \* how run returned
  ctxDone,        \* the context of the run is cancelled
  pendingInject,  \* the agent's pending inject
  injected,       \* history: the prompts injected so far
  step, attempt, consecutiveErrors,
  resultCache,    \* results of read-safe calls in this run, by key
  said,           \* the assistant's answer has text
  calls,          \* tool calls of the answer: key and id
  next,           \* first call not in a batch yet
  worker,         \* where each call of the batch is in execOne
  found,          \* what execOne has found for each call of the batch
  results,        \* results of the calls before the batch
  history,        \* the messages of the session
  snapMessages,   \* executeTurn's copy of the messages before the turn
  overflowRetried

round == <<step, attempt, consecutiveErrors, resultCache>>
batch == <<worker, found>>
answer == <<said, calls, next, results>>
inbox == <<pendingInject, injected>>
turn == <<snapMessages, overflowRetried>>
vars == <<pc, outcome, ctxDone, history, round, batch, answer, inbox, turn>>

-----------------------------------------------------------------------------
(* Messages.                                                               *)
User(what) == [role |-> "user", what |-> what]
Assistant(text, ids) == [role |-> "assistant", text |-> text, ids |-> ids]
Tool(id, r) == [role |-> "tool", id |-> id, kind |-> r.kind, inject |-> r.inject]

Result(kind, p) == [kind |-> kind, inject |-> p]
Interrupted == {"cancelled", "stopped"}      \* results of a cancelled context

(* What a call that succeeds gives.  isCancelledToolResult looks for a     *)
(* text in the content, and takes a result that quotes it for a cancelled  *)
(* one.                                                                    *)
Success(key) == IF key \in Quoting THEN "quoting" ELSE "ok"
Recognised == Interrupted \cup {"quoting"}

Ids(s) == [k \in DOMAIN s |-> s[k].id]
ToolMessages(s, rs) == [k \in DOMAIN s |-> Tool(s[k].id, rs[k])]
Cancelled(s) == [k \in DOMAIN s |-> Result("cancelled", Null)]

(* Mutant: ids start anew with every answer.                               *)
IdOfAnswer(kind, key, k) ==
  CASE kind = "own" -> <<"own", 0, k>>
    [] kind = "dsml" -> <<"dsml", key, k>>
    [] kind = "none" -> <<>>

(* Providers number or name a call by an id of its own.  A call recovered  *)
(* from DSML markup has the name of its tool and its place for an id, the  *)
(* same one in every answer, and Ollama reports no ids.                    *)
IdOf(kind, key, k) ==
  CASE kind = "own" -> <<"own", step + 1, k>>
    [] kind = "dsml" -> <<"dsml", key, k>>
    [] kind = "none" -> <<>>

Calls(keys, kind) == [k \in DOMAIN keys |-> [key |-> keys[k], id |-> IdOf(kind, keys[k], k)]]

(* A round of an earlier turn.                                             *)
OldId(kind, key) == IF kind = "own" THEN <<"own", 0, 1>> ELSE IdOf(kind, key, 1)
OldRound(kind, key) ==
  LET id == OldId(kind, key)
  IN  <<User("prompt"), Assistant(FALSE, <<id>>), Tool(id, Result(Success(key), Null)),
        Assistant(TRUE, <<>>)>>
OldRounds == {OldRound(kind, key) : kind \in IdKinds, key \in Earlier}

(* A hook, or the spawn context, may add a user message.                   *)
WithContext(h) == {h, Append(h, User("context"))}

(* What a compaction that does not fail leaves: the messages when a hook   *)
(* blocked it or they are few, and otherwise the summary; then the spawn   *)
(* context and that of the postCompact hook.                               *)
Compacted(h) ==
  LET preCompact == WithContext(h)
      summed == IF \E g \in preCompact : Len(g) > 4 THEN WithContext(<<User("summary")>>) ELSE {}
      small == {g \in preCompact : Len(g) <= 4}
  IN  {h} \cup UNION {WithContext(g) : g \in summed \cup small}

(* executeTurn has appended the prompt to the session, or to a new one, and *)
(* compacted it when it was too long.                                      *)
Init ==
  /\ pc = "ask" /\ outcome = "none" /\ ctxDone = FALSE
  /\ pendingInject = Null /\ injected = {}
  /\ step = 0 /\ attempt = 0 /\ consecutiveErrors = 0
  /\ resultCache = [k \in ReadSafe |-> "miss"]
  /\ said = FALSE /\ calls = <<>> /\ next = 1 /\ results = <<>>
  /\ worker = <<>> /\ found = <<>>
  /\ snapMessages \in {<<>>} \cup OldRounds
  /\ \E h \in IF snapMessages = <<>> THEN WithContext(<<>>) ELSE {snapMessages} :
       history \in Compacted(Append(h, User("prompt")))
  /\ overflowRetried = FALSE

Return(o) == pc' = "ended" /\ outcome' = o

-----------------------------------------------------------------------------
(* Asking the backend.                                                     *)

Errors == {"rate", "transient", "overflow", "other"}
Retryable == {"rate", "transient"}

Fate(e) == IF e = "overflow" THEN "overflowed" ELSE "failed"

Retry == pc' = "wait" /\ attempt < MaxRetries /\ UNCHANGED outcome

(* ChatStream returned an error.  Only the first attempt of a round runs   *)
(* the turnError hook, which may handle it.                                *)
BackendError ==
  /\ pc = "ask"
  /\ \/ ctxDone /\ Return("interrupted")
     \/ /\ ~ctxDone
        /\ \E e \in Errors :
             \/ attempt = 0 /\ Return(Fate(e))                  \* handled by the hook
             \/ (e \notin Retryable \/ attempt >= MaxRetries) /\ Return(Fate(e))
             \/ e \in Retryable /\ Retry
  /\ UNCHANGED <<ctxDone, history, round, batch, answer, inbox, turn>>

(* The stream ended without Done: interrupted, with what came before it,   *)
(* or dropped.                                                             *)
StreamEnds ==
  /\ pc = "ask"
  /\ \/ /\ ctxDone
        /\ \E keys \in Responses, kind \in IdKinds, text \in BOOLEAN :
             LET cs == Calls(keys, kind)
             IN  history' = history \o <<Assistant(text, Ids(cs))>> \o ToolMessages(cs, Cancelled(cs))
        /\ Return("interrupted")
     \/ /\ ~ctxDone
        /\ IF attempt >= MaxRetries THEN Return("failed") ELSE Retry
        /\ UNCHANGED history
  /\ UNCHANGED <<ctxDone, round, batch, answer, inbox, turn>>

(* Mutant: a retry does not count.                                         *)
WaitUncounted ==
  /\ pc = "wait"
  /\ \/ ctxDone /\ Return("interrupted")
     \/ pc' = "ask" /\ UNCHANGED outcome
  /\ UNCHANGED <<ctxDone, history, round, batch, answer, inbox, turn>>

Wait ==
  /\ pc = "wait"
  /\ \/ ctxDone /\ Return("interrupted") /\ UNCHANGED attempt
     \/ pc' = "ask" /\ attempt' = attempt + 1 /\ UNCHANGED outcome
  /\ UNCHANGED <<ctxDone, history, step, consecutiveErrors, resultCache, batch,
                 answer, inbox, turn>>

(* A complete answer.                                                      *)
Answer ==
  /\ pc = "ask"
  /\ \E keys \in Responses, kind \in IdKinds : calls' = Calls(keys, kind)
  /\ said' \in BOOLEAN
  /\ next' = 1 /\ results' = <<>>
  /\ pc' = "act"
  /\ UNCHANGED <<outcome, ctxDone, history, round, batch, inbox, turn>>

(* A complete answer with another stop reason, or a tool call as text.     *)
AnswerRejected ==
  /\ pc = "ask"
  /\ Return("failed")
  /\ UNCHANGED <<ctxDone, history, round, batch, answer, inbox, turn>>

-----------------------------------------------------------------------------
(* Executing the calls.                                                    *)

IsRead(k) == calls[k].key \in ReadSafe

(* The batch that starts at call i: consecutive read-safe calls together,  *)
(* any other call alone.                                                   *)
BatchFrom(i) ==
  {i} \cup {j \in i .. Len(calls) : \A k \in i .. j : IsRead(k)}

(* Duplicates in a batch share the execution of the first.                 *)
First(k) ==
  CHOOSE m \in DOMAIN worker :
    /\ calls[m].key = calls[k].key
    /\ \A n \in DOMAIN worker : calls[n].key = calls[k].key => m <= n

(* Mutant: the call at hand gets no result.                                *)
ActCancelledSkipsOne ==
  /\ pc = "act" /\ next <= Len(calls) /\ ctxDone
  /\ results' = results \o Cancelled(SubSeq(calls, next + 1, Len(calls)))
  /\ next' = Len(calls) + 1
  /\ pc' = "save"
  /\ UNCHANGED <<outcome, ctxDone, history, round, batch, said, calls, inbox, turn>>

ActCancelled ==
  /\ pc = "act" /\ next <= Len(calls) /\ ctxDone
  /\ results' = results \o Cancelled(SubSeq(calls, next, Len(calls)))
  /\ next' = Len(calls) + 1
  /\ pc' = "save"
  /\ UNCHANGED <<outcome, ctxDone, history, round, batch, said, calls, inbox, turn>>

StartBatch ==
  /\ pc = "act" /\ next <= Len(calls) /\ ~ctxDone
  /\ worker' = [k \in BatchFrom(next) |->
                  IF \E m \in BatchFrom(next) : m < k /\ calls[m].key = calls[k].key
                  THEN "duplicate" ELSE "new"]
  /\ found' = [k \in BatchFrom(next) |-> Result("none", Null)]
  /\ pc' = "batch"
  /\ UNCHANGED <<outcome, ctxDone, history, round, answer, inbox, turn>>

Goto(k, l) == worker' = [worker EXCEPT ![k] = l] /\ UNCHANGED found
Finish(k, r) == worker' = [worker EXCEPT ![k] = "done"] /\ found' = [found EXCEPT ![k] = r]

at(k, l) == pc = "batch" /\ k \in DOMAIN worker /\ worker[k] = l

(* The checks of execOne before the preTool hook.                          *)
ExecOne(k) ==
  /\ at(k, "new")
  /\ \/ calls[k].key = Unnamed /\ Finish(k, Result("error", Null))
     \/ calls[k].key # Unnamed /\ ctxDone /\ Finish(k, Result("cancelled", Null))
     \/ calls[k].key # Unnamed /\ ~ctxDone /\ Goto(k, "preTool")
  /\ UNCHANGED <<pc, outcome, ctxDone, history, round, answer, inbox, turn>>

(* The hook blocks the call, the cache answers it, or it is executed.      *)
PreTool(k) ==
  /\ at(k, "preTool")
  /\ \/ Finish(k, Result("error", Null))
     \/ /\ IsRead(k) /\ resultCache[calls[k].key] # "miss"
        /\ Finish(k, Result(Success(calls[k].key), resultCache[calls[k].key]))
     \/ /\ ~(IsRead(k) /\ resultCache[calls[k].key] # "miss")
        /\ Goto(k, "exec")
  /\ UNCHANGED <<pc, outcome, ctxDone, history, round, answer, inbox, turn>>

(* A tool that fails once the context is cancelled was interrupted: its    *)
(* result takes the pending inject at once.                                *)
ExecReturn(k) ==
  /\ at(k, "exec")
  /\ \/ /\ ctxDone
        /\ Finish(k, Result("stopped", pendingInject))
        /\ pendingInject' = Null
     \/ /\ \E kind \in {Success(calls[k].key)} \cup (IF ctxDone THEN {} ELSE {"error"}) :
             found' = [found EXCEPT ![k] = Result(kind, Null)]
        /\ worker' = [worker EXCEPT ![k] = "postTool"]
        /\ UNCHANGED pendingInject
  /\ UNCHANGED <<pc, outcome, ctxDone, history, round, answer, injected, turn>>

Cache(k, r) ==
  resultCache' = IF IsRead(k) /\ r.kind # "error"
                 THEN [resultCache EXCEPT ![calls[k].key] = r.inject] ELSE resultCache

(* After the postTool hook the result takes the pending inject, is cut to  *)
(* the limit, which takes off its end, and is cached.                      *)
PostTool(k) ==
  /\ at(k, "postTool")
  /\ \E cut \in {FALSE} \cup (IF found[k].kind # "error" THEN {Truncates} ELSE {}) :
       LET r == Result(found[k].kind, IF cut THEN Null ELSE pendingInject)
       IN  Finish(k, r) /\ Cache(k, r)
  /\ pendingInject' = Null
  /\ UNCHANGED <<pc, outcome, ctxDone, history, step, attempt, consecutiveErrors,
                 answer, injected, turn>>

(* Mutant: an interrupt cancels from the start of the batch.               *)
EndBatchFromStart ==
  /\ pc = "batch"
  /\ \A k \in DOMAIN worker : worker[k] \in {"done", "duplicate"}
  /\ LET last == next + Cardinality(DOMAIN worker) - 1
         outs == [k \in 1 .. last + 1 - next |-> found[First(next + k - 1)]]
     IN  IF \E k \in DOMAIN found : found[k].kind \in Interrupted
         THEN /\ results' = results \o Cancelled(SubSeq(calls, next, Len(calls)))
              /\ next' = Len(calls) + 1
              /\ pc' = "save"
         ELSE /\ results' = results \o outs
              /\ next' = last + 1
              /\ pc' = "act"
  /\ worker' = <<>> /\ found' = <<>>
  /\ UNCHANGED <<outcome, ctxDone, history, round, said, calls, inbox, turn>>

(* All goroutines of the batch are done: results in submission order, and  *)
(* after an interrupt a cancelled result for every call that is left.      *)
EndBatch ==
  /\ pc = "batch"
  /\ \A k \in DOMAIN worker : worker[k] \in {"done", "duplicate"}
  /\ LET last == next + Cardinality(DOMAIN worker) - 1
         outs == [k \in 1 .. last + 1 - next |-> found[First(next + k - 1)]]
     IN  IF \E k \in DOMAIN found : found[k].kind \in Interrupted
         THEN /\ results' = results \o outs \o Cancelled(SubSeq(calls, last + 1, Len(calls)))
              /\ next' = Len(calls) + 1
              /\ pc' = "save"
         ELSE /\ results' = results \o outs
              /\ next' = last + 1
              /\ pc' = "act"
  /\ worker' = <<>> /\ found' = <<>>
  /\ UNCHANGED <<outcome, ctxDone, history, round, said, calls, inbox, turn>>

-----------------------------------------------------------------------------
(* The end of a round.                                                     *)

Recorded == history \o <<Assistant(said, Ids(calls))>> \o ToolMessages(calls, results)

WithNudge(h) == IF consecutiveErrors' = SoftLimit THEN Append(h, User("nudge")) ELSE h

OverBudget == MaxSteps > 0 /\ step >= MaxSteps - 1

PlanDue == PlanInterval > 0 /\ step > 0 /\ step % PlanInterval = 0

Forget == said' = FALSE /\ calls' = <<>> /\ next' = 1 /\ results' = <<>>

Save ==
  /\ pc = "save" \/ (pc = "act" /\ next > Len(calls))
  /\ Forget
  /\ \/ pc = "save" /\ history' = Recorded /\ Return("interrupted")
          /\ UNCHANGED consecutiveErrors
     \/ pc = "act" /\ calls = <<>> /\ history' = Recorded /\ Return("done")
          /\ UNCHANGED consecutiveErrors
     \/ /\ pc = "act" /\ calls # <<>>
        /\ consecutiveErrors' = IF \A k \in DOMAIN results : results[k].kind = "error"
                                THEN consecutiveErrors + 1 ELSE 0
        /\ \/ consecutiveErrors' >= HardLimit /\ history' = Recorded /\ Return("failed")
           \/ /\ consecutiveErrors' < HardLimit /\ OverBudget
              /\ history' = Append(WithNudge(Recorded), User("budget"))
              /\ Return("done")
           \/ /\ consecutiveErrors' < HardLimit /\ ~OverBudget
              /\ \/ history' = WithNudge(Recorded)
                 \/ PlanDue /\ history' = Append(WithNudge(Recorded), User("plan"))
              /\ pc' = "round" /\ UNCHANGED outcome
  /\ UNCHANGED <<ctxDone, step, attempt, resultCache, batch, inbox, turn>>

(* Mutant: failures are counted within a round.                            *)
NextRoundForgets ==
  /\ step' = step + 1 /\ attempt' = 0
  /\ consecutiveErrors' = 0
  /\ pc' = "ask"
  /\ UNCHANGED resultCache

NextRound ==
  /\ step' = step + 1 /\ attempt' = 0
  /\ pc' = "ask"
  /\ UNCHANGED <<consecutiveErrors, resultCache>>

(* AutoCompact has nothing to do.                                          *)
NoCompact ==
  /\ pc = "round"
  /\ NextRound
  /\ UNCHANGED <<outcome, ctxDone, history, batch, answer, inbox, turn>>

StartCompact ==
  /\ pc = "round" /\ ~ctxDone
  /\ pc' = "compact"
  /\ UNCHANGED <<outcome, ctxDone, history, round, batch, answer, inbox, turn>>

(* The summary cannot be had from the backend.                             *)
CompactionFails == history' \in {h \in WithContext(history) : Len(h) > 4}

(* A failed compaction panics.                                             *)
EndCompact ==
  /\ pc = "compact"
  /\ \/ /\ history' \in Compacted(history)
        /\ NextRound
        /\ UNCHANGED outcome
     \/ /\ CompactionFails
        /\ Return("panicked")
        /\ UNCHANGED round
  /\ UNCHANGED <<ctxDone, batch, answer, inbox, turn>>

-----------------------------------------------------------------------------
(* The end of executeTurn.                                                 *)

(* Mutant: every overflow does.                                            *)
RollbackAlways ==
  /\ pc = "ended" /\ outcome = "overflowed"
  /\ history' = snapMessages
  /\ overflowRetried' = TRUE
  /\ pc' = "overflow"
  /\ UNCHANGED <<outcome, ctxDone, round, batch, answer, inbox, snapMessages>>

(* The first overflow rolls the session back.                              *)
Rollback ==
  /\ pc = "ended" /\ outcome = "overflowed" /\ ~overflowRetried
  /\ history' = snapMessages
  /\ overflowRetried' = TRUE
  /\ pc' = "overflow"
  /\ UNCHANGED <<outcome, ctxDone, round, batch, answer, inbox, snapMessages>>

(* Compacted, the input is appended again and run starts anew, under a     *)
(* context that only knows of a cancellation by the caller.                *)
RunAgain ==
  /\ pc = "overflow"
  /\ \E h \in Compacted(history) : history' = Append(h, User("prompt"))
  /\ ctxDone' \in {FALSE, ctxDone}
  /\ step' = 0 /\ attempt' = 0 /\ consecutiveErrors' = 0
  /\ resultCache' = [k \in ReadSafe |-> "miss"]
  /\ outcome' = "none" /\ pc' = "ask"
  /\ UNCHANGED <<batch, answer, inbox, turn>>

OverflowCompactFails ==
  /\ pc = "overflow"
  /\ CompactionFails
  /\ pc' = "ended"
  /\ UNCHANGED <<outcome, ctxDone, round, batch, answer, inbox, turn>>

(* The elements of a list at some positions, in order.                     *)
Sublist(s, positions) ==
  LET F[i \in 0 .. Len(s)] ==
        IF i = 0 THEN <<>>
        ELSE IF i \in positions THEN Append(F[i - 1], s[i]) ELSE F[i - 1]
  IN  F[Len(s)]

ResultIds(h, kinds) == {h[i].id : i \in {j \in DOMAIN h : h[j].role = "tool" /\ h[j].kind \in kinds}}

(* Results with certain ids go, with the calls that have these ids, and an *)
(* assistant message that has nothing left goes too.                       *)
Left(ids, gone) == {k \in DOMAIN ids : ids[k] \notin gone}
Stays(m, gone) ==
  CASE m.role = "tool" -> m.id \notin gone
    [] m.role = "assistant" -> m.text \/ m.ids = <<>> \/ Left(m.ids, gone) # {}
    [] OTHER -> TRUE
Prune(m, gone) ==
  IF m.role = "assistant" THEN [m EXCEPT !.ids = Sublist(@, Left(@, gone))] ELSE m

Staying(h, gone) == {i \in DOMAIN h : Stays(h[i], gone)}
Without(h, gone) ==
  LET kept == Sublist(h, Staying(h, gone))
  IN  [i \in DOMAIN kept |-> Prune(kept[i], gone)]

(* Mutant: the calls of the results stay.                                  *)
RemoveResultsOnly(h) ==
  Sublist(h, {i \in DOMAIN h : h[i].role = "tool" => h[i].id \notin ResultIds(h, Recognised)})

(* Mutant: the result of a tool that was stopped is not recognised.        *)
RemoveCancelledOnly(h) == Without(h, ResultIds(h, {"cancelled"}))

(* removeCancelledToolResults: what interrupted calls have left, and what  *)
(* has the id of a result that is taken for one of theirs.                 *)
RemoveCancelledToolResults(h) == Without(h, ResultIds(h, Recognised))

EndTurn ==
  /\ pc = "ended"
  /\ outcome = "overflowed" => overflowRetried
  /\ history' \in CASE outcome = "done" -> WithContext(history)         \* postTurn hook
                     [] outcome = "panicked" -> {history}
                     [] OTHER -> {RemoveCancelledToolResults(history)}
  /\ pc' = "closed"
  /\ UNCHANGED <<outcome, ctxDone, round, batch, answer, inbox, turn>>

-----------------------------------------------------------------------------
(* The rest of the program: Interrupt, and Inject while nothing is pending. *)

Running == pc \notin {"ended", "overflow", "closed"}

Cancel ==
  /\ Running /\ ~ctxDone
  /\ ctxDone' = TRUE
  /\ UNCHANGED <<pc, outcome, history, round, batch, answer, inbox, turn>>

Inject(p) ==
  /\ Running
  /\ p \notin injected /\ pendingInject = Null
  /\ pendingInject' = p /\ injected' = injected \cup {p}
  /\ UNCHANGED <<pc, outcome, ctxDone, history, round, batch, answer, turn>>

-----------------------------------------------------------------------------
Call(k) == ExecOne(k) \/ PreTool(k) \/ ExecReturn(k) \/ PostTool(k)

Run == \/ BackendError \/ StreamEnds \/ Wait \/ Answer \/ AnswerRejected
       \/ ActCancelled \/ StartBatch \/ EndBatch \/ Save
       \/ NoCompact \/ StartCompact \/ EndCompact
       \/ Rollback \/ RunAgain \/ OverflowCompactFails \/ EndTurn
       \/ \E k \in DOMAIN worker : Call(k)

Next == Run \/ Cancel \/ \E p \in Injects : Inject(p)

Spec == Init /\ [][Next]_vars

(* The goroutines run, backends, hooks and tools answer or time out.       *)
FairSpec == Spec /\ WF_vars(Run)
-----------------------------------------------------------------------------
(* Properties.                                                             *)

Outcomes == {"none", "done", "interrupted", "overflowed", "failed", "panicked"}
Pcs == {"ask", "wait", "act", "batch", "save", "round", "compact",
        "ended", "overflow", "closed"}

(* Types, and what every step of run finds: a result for every call before *)
(* the next one, a batch of consecutive calls only while one is executed.  *)
TypeOK ==
  /\ pc \in Pcs /\ outcome \in Outcomes /\ ctxDone \in BOOLEAN
  /\ (outcome = "none") = Running
  /\ pendingInject \in injected \cup {Null} /\ injected \subseteq Injects
  /\ attempt \in 0 .. MaxRetries
  /\ consecutiveErrors \in 0 .. HardLimit
  /\ MaxSteps > 0 => step < MaxSteps
  /\ resultCache \in [ReadSafe -> {"miss", Null} \cup injected]
  /\ Running => Len(results) = next - 1
  /\ (pc = "batch") = (DOMAIN worker # {})
  /\ pc = "batch" => DOMAIN worker = BatchFrom(next) /\ DOMAIN found = DOMAIN worker

(* Every list of tool calls in the session is followed by its results, in  *)
(* order, and no result stands alone: what backends demand of the messages *)
(* they are sent.  Interrupts, dropped streams, hooks that block a call,   *)
(* duplicates, compaction, rollback and the removal of cancelled results   *)
(* all have to keep it.                                                    *)
ValidHistory ==
  /\ \A i \in DOMAIN history : history[i].role = "assistant" =>
       LET n == Len(history[i].ids)
       IN  /\ i + n <= Len(history)
           /\ \A k \in 1 .. n : /\ history[i + k].role = "tool"
                                /\ history[i + k].id = history[i].ids[k]
  /\ \A i \in DOMAIN history : history[i].role = "tool" =>
       \E j \in 1 .. i - 1 : /\ history[j].role = "assistant"
                             /\ i <= j + Len(history[j].ids)

(* Once the turn is over the session holds no result of a cancelled call,  *)
(* whichever of the interrupts' ways out run took.                         *)
InterruptLeavesNoTrace ==
  pc = "closed" /\ outcome # "panicked" =>
    \A i \in DOMAIN history : history[i].role = "tool" => history[i].kind \notin Interrupted

(* The end of a turn removes no result of a completed call that has an id  *)
(* of its own, in this turn or an earlier one, whatever ids the other      *)
(* calls have: the numbering by rounds must not meet an earlier one's, and *)
(* the filter must not take a neighbour.  A result that quotes the text    *)
(* that marks a cancelled one is not spared.                               *)
OwnId(id) == id # <<>> /\ id[1] = "own"
KeptAt(h) ==
  {i \in DOMAIN h : h[i].role = "tool" /\ h[i].kind \notin Recognised /\ OwnId(h[i].id)}
Kept(h) == Sublist(h, KeptAt(h))

CompletedWorkKept == [][pc' = "closed" => Kept(history') = Kept(history)]_vars

(* An inject a tool result has taken is in the session when run returns:   *)
(* no way out of a round drops the results it has.  A result over the size *)
(* limit may lose it: loop.go appends the inject before it cuts.           *)
Taken == injected \ {pendingInject}
Carried == {history[i].inject : i \in {j \in DOMAIN history : history[j].role = "tool"}}
Forgotten == overflowRetried \/ \E i \in DOMAIN history : history[i] = User("summary")

InjectsSurviveRun == pc = "ended" /\ ~Forgotten /\ ~Truncates => Taken \subseteq Carried

(* The model is told to change its approach once per streak of failures:   *)
(* a round that did not fail, or a compaction, is between two nudges.  The *)
(* end of an interrupted turn may remove that round where ids repeat or a  *)
(* result is mistaken, so for the closed session both are excluded.        *)
Distinct == IdKinds = {"own"} /\ Quoting = {}

NudgeOncePerStreak ==
  pc # "closed" \/ Distinct =>
  \A i, j \in DOMAIN history :
    /\ i < j
    /\ history[i] = User("nudge") /\ history[j] = User("nudge")
    => \E m \in i .. j : history[m].role = "tool" /\ history[m].kind # "error"

(* The turn ends, however often the backend fails and the calls fail.      *)
RunEnds == <>(pc = "closed")

(* run and the end of executeTurn keep the contract AgentCore is written   *)
(* against.                                                                *)
Contract == INSTANCE RunContract WITH
  Prompts   <- Injects,
  phase     <- CASE pc = "ended" -> "returned" [] pc = "overflow" -> "retry"
                 [] pc = "closed" -> "closed" [] OTHER -> "running",
  answer    <- outcome,
  cancelled <- ctxDone,
  slot      <- pendingInject,
  delivered <- Taken,
  reran     <- overflowRetried

ImplementsContract == Contract!Spec

-----------------------------------------------------------------------------
(* types.go:46 says that an inject is appended to the next tool result: it *)
(* is in the session when the turn is over.  It is not, when that result   *)
(* is one the end of the turn removes.                                     *)
InjectsSurviveTurn == pc = "closed" /\ ~Forgotten => Taken \subseteq Carried

(* session.go:149 says of removeCancelledToolResults that it filters the   *)
(* cancelled results, "keeping completed work".  It does not where calls   *)
(* share an id, having none or that of a recovered call, nor where a       *)
(* result is mistaken for a cancelled one.                                 *)
CompletedAt(h) == {i \in DOMAIN h : h[i].role = "tool" /\ h[i].kind \notin Interrupted}
Completed(h) == Sublist(h, CompletedAt(h))

KeepsCompletedWork == [][pc' = "closed" => Completed(history') = Completed(history)]_vars

=============================================================================
