---------------------------- MODULE BackendStream ----------------------------
(***************************************************************************)
(* One answer of a backend: the producer, a goroutine that parses what the *)
(* server streams and feeds a channel (streamRequest in backend.go, with   *)
(* the parsers of openai.go, anthropic.go and ollama.go; runStream in      *)
(* codewhisperer.go, "kiro"), and the consumer, the attempts of run in     *)
(* loop.go:98-216.                                                         *)
(*                                                                         *)
(* What the server sends is a sequence of items: a piece of text, a        *)
(* fragment of a tool call, or a piece of a tool call that leaks into the  *)
(* text as DeepSeek markup (openai only): the tag that names the tool, a   *)
(* parameter, or a parameter whose value is not JSON.  Items are           *)
(* represented by their position, a call by the positions of its parts.    *)
(***************************************************************************)
EXTENDS Integers, Sequences, SequencesExt

CONSTANTS Providers,    \* among "openai", "anthropic", "ollama", "kiro"
          Answers,      \* sequences of [kind, call] that a server sends
          Capacity,     \* of the channel: 8
          MaxAttempts   \* maxTransientRetries + 1

ASSUME StreamAssumption ==
  /\ Providers \subseteq {"openai", "anthropic", "ollama", "kiro"}
  /\ Answers \subseteq Seq([kind : {"text", "call", "invoke", "param", "broken"}, call : Nat])
  /\ Capacity \in Nat \ {0} /\ MaxAttempts \in Nat \ {0}

VARIABLES
  provider,
  sent,        \* the answer of the current attempt
  read,        \* how many of its items the producer has read
  producer,    \* "none", "request", "read", "send", "ended" (channel closed)
  refreshed,   \* kiro: the second request, after a token refresh
  stopped,     \* kiro: text is no longer sent
  accum,       \* the calls of which fragments were read, in the order they began
  dsmlBuf,     \* openai: the markup read
  event,       \* the event being sent
  channel,
  consumer,    \* "ask", "stream", "wait", "ended"
  attempt,
  content, toolCalls, stopReason,
  recorded,    \* state.update was given the unfinished answer
  outcome,     \* of the run, as far as this answer decides it
  actDone      \* the context is cancelled

wire == <<sent, read, producer, refreshed, stopped, accum, dsmlBuf, event>>
reply == <<content, toolCalls, stopReason>>
streamVars == <<provider, wire, channel, consumer, attempt, reply, recorded,
                outcome, actDone>>

-----------------------------------------------------------------------------
(* Events and what the parsers accumulate.                                 *)

TextEvent(i) == [text |-> <<i>>, calls |-> <<>>, done |-> FALSE, reason |-> ""]
Done(reason, calls) == [text |-> <<>>, calls |-> calls, done |-> TRUE, reason |-> reason]
NoEvent == [text |-> <<>>, calls |-> <<>>, done |-> FALSE, reason |-> ""]

IsCall(i) == sent[i].kind = "call"
Leaks(i) == sent[i].kind \in {"invoke", "param", "broken"}

(* Fragments are joined by index or id; Ollama sends whole calls.          *)
Joins(k, i) == provider # "ollama" /\ sent[accum[k][1]].call = sent[i].call
Opened(i) == Append(accum, <<i>>)
Accumulated(i) ==
  IF \E k \in DOMAIN accum : Joins(k, i)
  THEN [k \in DOMAIN accum |-> IF Joins(k, i) THEN Append(accum[k], i) ELSE accum[k]]
  ELSE Opened(i)

(* parseDSMLToolCalls on the buffered markup: the first tag takes every    *)
(* parameter to the end, those of later calls too, so that at most one     *)
(* call comes out; none without a parameter or with a value that is not    *)
(* JSON.  That parameters of one name replace each other, and text in a    *)
(* parameter that is not closed, are left out.                             *)
SeenDSML == dsmlBuf # <<>>
Piece(k) == sent[dsmlBuf[k]].kind
Recovered ==
  {<<SubSeq(dsmlBuf, k, Len(dsmlBuf))>> : k \in {k \in DOMAIN dsmlBuf :
     /\ Piece(k) = "invoke" /\ \A l \in 1 .. k - 1 : Piece(l) # "invoke"
     /\ \E l \in k .. Len(dsmlBuf) : Piece(l) = "param"
     /\ \A l \in k .. Len(dsmlBuf) : Piece(l) # "broken"}}

(* The calls of a finished stream; those kept in a Go map in any order.    *)
FinalCalls ==
  IF SeenDSML /\ accum = <<>> THEN IF Recovered = {} THEN {<<>>} ELSE Recovered
  ELSE IF provider \in {"openai", "anthropic"}
  THEN {[k \in DOMAIN accum |-> accum[p[k]]] : p \in Bijection(DOMAIN accum, DOMAIN accum)}
  ELSE {accum}

-----------------------------------------------------------------------------
StreamInit ==
  /\ provider \in Providers
  /\ sent = <<>> /\ read = 0 /\ producer = "none"
  /\ refreshed = FALSE /\ stopped = FALSE /\ event = NoEvent /\ channel = <<>>
  /\ accum = <<>> /\ dsmlBuf = <<>>
  /\ consumer = "ask" /\ attempt = 1
  /\ content = <<>> /\ toolCalls = <<>> /\ stopReason = ""
  /\ recorded = FALSE /\ outcome = "none" /\ actDone = FALSE

EndRunWith(o) == consumer' = "ended" /\ outcome' = o
RetryLater == consumer' = "wait" /\ attempt < MaxAttempts /\ UNCHANGED outcome

(* The error that streamRequest makes of a failed request: no response (0) *)
(* or a status other than 200, with a body that may name the reason.       *)
Statuses == {0, 400, 404, 422, 429, 500}
RequestError(r) ==
  CASE r[1] = 0 \/ r[1] >= 500 -> "transient"
    [] r[1] = 429 -> "rate"
    [] r[1] = 400 /\ r[2] = "overflow" -> "overflow"
    [] r[1] \in {400, 404, 422} /\ r[2] = "tools" -> "unsupported"
    [] OTHER -> "other"

(* Kiro answers with a channel at once, and makes its requests behind it.  *)
Begin(a) ==
  /\ consumer' = "stream"
  /\ sent' = a /\ read' = 0 /\ event' = NoEvent
  /\ refreshed' = FALSE /\ stopped' = FALSE /\ accum' = <<>> /\ dsmlBuf' = <<>>
  /\ producer' = IF provider = "kiro" THEN "request" ELSE "read"
  /\ UNCHANGED <<attempt, outcome>>

(* Mutant: what an attempt that broke off has left is kept.                *)
AskKeepsAnswer ==
  /\ consumer = "ask"
  /\ ~actDone
  /\ \E a \in Answers : Begin(a)
  /\ UNCHANGED <<provider, channel, content, toolCalls, stopReason, recorded, actDone>>

(* run asks the backend, with nothing left of the attempt before.  On the  *)
(* first error the turnError hook may take over, which ends the run.       *)
Retryable(r) == provider # "kiro" /\ RequestError(r) \in {"transient", "rate"}

Ask ==
  /\ consumer = "ask"
  /\ content' = <<>> /\ toolCalls' = <<>>
  /\ \/ actDone /\ EndRunWith("interrupted") /\ UNCHANGED <<wire, attempt>>
     \/ /\ ~actDone
        /\ \E r \in Statuses \X {"overflow", "tools", "plain"} :
             \/ Retryable(r) /\ RetryLater
             \/ /\ ~Retryable(r) \/ attempt \in {1, MaxAttempts}
                /\ EndRunWith("failed")
        /\ UNCHANGED <<wire, attempt>>
     \/ \E a \in Answers : (actDone => provider = "kiro") /\ Begin(a)
  /\ UNCHANGED <<provider, channel, stopReason, recorded, actDone>>

-----------------------------------------------------------------------------
(* The producer.                                                           *)

(* Mutant: a parser goes on after its Done event.                          *)
DeliverAndReadOn ==
  /\ producer = "send" /\ Len(channel) < Capacity
  /\ channel' = Append(channel, event)
  /\ producer' = "read"
  /\ UNCHANGED <<provider, sent, read, refreshed, stopped, accum, dsmlBuf, event,
                 consumer, attempt, reply, recorded, outcome, actDone>>

(* The channel takes the event; after Done the parser returns.             *)
Deliver ==
  /\ producer = "send" /\ Len(channel) < Capacity
  /\ channel' = Append(channel, event)
  /\ producer' = IF event.done THEN "ended" ELSE "read"
  /\ UNCHANGED <<provider, sent, read, refreshed, stopped, accum, dsmlBuf, event,
                 consumer, attempt, reply, recorded, outcome, actDone>>

Sends(e) == producer' = "send" /\ event' = e

(* An error whose cause is the cancelled context, or another one.          *)
Fails == \/ Sends(Done("error", <<>>))
         \/ actDone /\ Sends(Done("canceled", <<>>))

parsed == <<accum, dsmlBuf>>
Quiet == UNCHANGED <<provider, sent, channel, consumer, attempt, reply, recorded,
                     outcome, actDone>>

(* runStream up to the response: token, endpoint, request.  Every error is *)
(* an event, except the first 401 or 403, which refreshes the token.       *)
KiroRequest ==
  /\ producer = "request"
  /\ \/ producer' = "read" /\ UNCHANGED <<refreshed, event>>
     \/ Fails /\ UNCHANGED refreshed
     \/ ~refreshed /\ refreshed' = TRUE /\ UNCHANGED <<producer, event>>
  /\ UNCHANGED <<read, stopped, parsed>> /\ Quiet

(* Text is passed on, unless it follows markup or kiro has stopped; the    *)
(* rest is accumulated.                                                    *)
Buffers(i) == provider = "openai" /\ Leaks(i)
PassesOn(i) == ~IsCall(i) /\ ~stopped /\ ~SeenDSML /\ ~Buffers(i)

ReadItem ==
  /\ producer = "read" /\ read < Len(sent)
  /\ read' = read + 1
  /\ accum' = IF IsCall(read') THEN Accumulated(read') ELSE accum
  /\ dsmlBuf' = IF Buffers(read') THEN Append(dsmlBuf, read') ELSE dsmlBuf
  /\ IF PassesOn(read') THEN Sends(TextEvent(read')) ELSE UNCHANGED <<producer, event>>
  /\ UNCHANGED <<refreshed, stopped>> /\ Quiet

(* OnAssistantDelta selects between the channel and the context.           *)
KiroStops ==
  /\ provider = "kiro" /\ producer = "send" /\ ~event.done /\ actDone
  /\ stopped' = TRUE /\ producer' = "read"
  /\ UNCHANGED <<read, refreshed, parsed, event>> /\ Quiet

(* [DONE], message_stop or done:true; for kiro the end of the body.        *)
ReadEnd ==
  /\ producer = "read"
  /\ provider # "kiro" => read = Len(sent)
  /\ \E calls \in FinalCalls :
       Sends(Done(IF calls = <<>> THEN "stop" ELSE "tool_calls", calls))
  /\ UNCHANGED <<read, refreshed, stopped, parsed>> /\ Quiet

(* The body ends without an end marker: no event, the channel is closed.   *)
Drop ==
  /\ producer = "read" /\ provider # "kiro"
  /\ producer' = "ended"
  /\ UNCHANGED <<read, refreshed, stopped, parsed, event>> /\ Quiet

(* A read error, an item that cannot be decoded, an error event, or a stop *)
(* reason that run does not know.                                          *)
Break ==
  /\ producer = "read" /\ Fails
  /\ UNCHANGED <<read, refreshed, stopped, parsed>> /\ Quiet

Produce == KiroRequest \/ ReadItem \/ KiroStops \/ ReadEnd \/ Drop \/ Break \/ Deliver

-----------------------------------------------------------------------------
(* The consumer.                                                           *)

(* Mutant: run stops reading when its context is cancelled.                *)
ReceiveUnlessCancelled ==
  /\ consumer = "stream" /\ channel # <<>>
  /\ channel' = Tail(channel)
  /\ content' = content \o Head(channel).text
  /\ toolCalls' = toolCalls \o Head(channel).calls
  /\ stopReason' = Head(channel).reason
  /\ IF actDone THEN EndRunWith("interrupted")
     ELSE IF Head(channel).done THEN EndRunWith("answered")
     ELSE UNCHANGED <<consumer, outcome>>
  /\ UNCHANGED <<provider, wire, attempt, recorded, actDone>>

Normal == {"stop", "tool_calls", "length", ""}

Receive ==
  /\ consumer = "stream" /\ channel # <<>>
  /\ channel' = Tail(channel)
  /\ LET e == Head(channel)
     IN  /\ content' = content \o e.text
         /\ toolCalls' = toolCalls \o e.calls
         /\ IF e.done
            THEN /\ stopReason' = e.reason
                 /\ EndRunWith(IF e.reason \in Normal THEN "answered" ELSE "failed")
            ELSE UNCHANGED <<stopReason, consumer, outcome>>
  /\ UNCHANGED <<provider, wire, attempt, recorded, actDone>>

(* The channel is closed without Done: a user pause, or a dropped stream.  *)
Closed ==
  /\ consumer = "stream" /\ channel = <<>> /\ producer = "ended"
  /\ IF actDone THEN recorded' = TRUE /\ EndRunWith("interrupted")
     ELSE UNCHANGED recorded /\ (IF attempt < MaxAttempts THEN RetryLater ELSE EndRunWith("failed"))
  /\ UNCHANGED <<provider, wire, channel, attempt, reply, actDone>>

(* retryCountdown.                                                         *)
Countdown ==
  /\ consumer = "wait"
  /\ \/ actDone /\ EndRunWith("interrupted") /\ UNCHANGED attempt
     \/ consumer' = "ask" /\ attempt' = attempt + 1 /\ UNCHANGED outcome
  /\ UNCHANGED <<provider, wire, channel, reply, recorded, actDone>>

Consume == Ask \/ Receive \/ Closed \/ Countdown

CancelStream ==
  /\ ~actDone /\ consumer # "ended"
  /\ actDone' = TRUE
  /\ UNCHANGED <<provider, wire, channel, consumer, attempt, reply, recorded, outcome>>

StreamNext == Produce \/ Consume \/ CancelStream

(* Goroutines are scheduled; servers send, end or break their streams (the *)
(* HTTP clients have no timeout, an interrupt breaks the stream).          *)
StreamFairness == WF_streamVars(Produce) /\ WF_streamVars(Consume)
StreamSpec == StreamInit /\ [][StreamNext]_streamVars /\ StreamFairness

-----------------------------------------------------------------------------
(* Properties.                                                             *)

(* A stream has one Done event, and nothing follows it: the consumer stops *)
(* reading there (loop.go:175), whatever the parser still has.             *)
DoneIsLast ==
  /\ \A k \in 1 .. Len(channel) - 1 : ~channel[k].done
  /\ channel # <<>> /\ channel[Len(channel)].done => producer = "ended"
  /\ consumer = "ended" /\ stopReason # "" => channel = <<>> /\ producer \in {"none", "ended"}

(* An answer that run accepts is the whole answer of its last attempt: the *)
(* text in order, cut where markup begins, and every structured call once, *)
(* with all its fragments in order and none of another.  Markup makes at   *)
(* most one call, and none beside a structured one: the first invocation   *)
(* takes the parameters of the later ones, which are lost, and one without *)
(* parameters, or with a broken value, is dropped (openai.go:294-333).     *)
(* Kiro, where an early end of the body is a regular one, may lose an end  *)
(* of the text (after n items), and of the rest (after m).                 *)
Shown(i) == ~IsCall(i) /\ (provider = "openai" => \A j \in 1 .. i : ~Leaks(j))

Ascending(s) == \A k, l \in DOMAIN s : k < l => s[k] < s[l]

Parts(calls) == UNION {ToSet(calls[k]) : k \in DOMAIN calls}

WholeCalls(calls, m) ==
  /\ \A k \in DOMAIN calls : Ascending(calls[k])
  /\ \A k, l \in DOMAIN calls : \A i \in ToSet(calls[k]), j \in ToSet(calls[l]) :
       /\ i = j => k = l
       /\ IsCall(i) /\ IsCall(j) /\ provider # "ollama" => (sent[i].call = sent[j].call <=> k = l)
  /\ \A i \in Parts(calls) : i \in 1 .. m /\ sent[i].kind # "text"
  /\ \A i \in 1 .. m : IsCall(i) => i \in Parts(calls)
  /\ \A i \in Parts(calls) : ~IsCall(i) => DOMAIN calls = {1} /\ \A j \in 1 .. m : ~IsCall(j)

AnswerIsWhole ==
  outcome = "answered" =>
    \E n, m \in 0 .. Len(sent) :
      /\ n <= m /\ (provider # "kiro" => n = Len(sent))
      /\ Ascending(content) /\ ToSet(content) = {i \in 1 .. n : Shown(i)}
      /\ WholeCalls(toolCalls, m)

(* Once a request is out, the run gets its answer or its error, and the    *)
(* goroutine and the connection behind the channel go away.                *)
NobodyBlocked ==
  consumer \in {"stream", "wait"} ~> (consumer = "ended" /\ producer \in {"none", "ended"})

(* loop.go:184: a user pause records the partial state.                    *)
PauseRecorded ==
  consumer = "ended" /\ stopReason = "canceled" => recorded /\ outcome = "interrupted"

=============================================================================
