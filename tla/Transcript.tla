----------------------------- MODULE Transcript -----------------------------
(***************************************************************************)
(* What the backends make of the session's messages when run asks them:    *)
(* the encoders of openai.go, ollama.go, anthropic.go and codewhisperer.go *)
(* (Kiro).  A block of a request is the side that speaks, the tool calls   *)
(* it makes and the tool results it carries, by id, and whether it has     *)
(* text; the preamble, which comes first everywhere, is left out.          *)
(***************************************************************************)
EXTENDS AgentLoop

Block(side, made, carried, text) ==
  [side |-> side, calls |-> made, results |-> carried, text |-> text]

(* OpenAI and Ollama: a block for each message.  OpenAI's have no text     *)
(* beside tool calls, Ollama's have no call ids.                           *)
OpenAIMessage(m) ==
  CASE m.role = "user" -> Block("user", <<>>, <<>>, TRUE)
    [] m.role = "assistant" -> Block("assistant", m.ids, <<>>, m.ids = <<>> /\ m.text)
    [] m.role = "tool" -> Block("tool", <<>>, <<m.id>>, TRUE)

OpenAIMessages(h) == [i \in DOMAIN h |-> OpenAIMessage(h[i])]

(* Mutant: one tool result per block.                                      *)
ResultsFromAlone(h, i) == <<h[i].id>>

(* The ids of the consecutive tool messages from the i-th on.              *)
ResultsFrom(h, i) ==
  LET last == CHOOSE j \in i .. Len(h) :
                /\ \A k \in i .. j : h[k].role = "tool"
                /\ j = Len(h) \/ h[j + 1].role # "tool"
  IN  [k \in 1 .. last - i + 1 |-> h[i + k - 1].id]

(* Anthropic and Kiro put consecutive tool messages into one user block.   *)
BlockStarts(h) ==
  Sublist([i \in DOMAIN h |-> i],
          {i \in DOMAIN h : h[i].role # "tool" \/ i = 1 \/ h[i - 1].role # "tool"})

BlockAt(h, i) ==
  CASE h[i].role = "user" -> Block("user", <<>>, <<>>, TRUE)
    [] h[i].role = "assistant" -> Block("assistant", h[i].ids, <<>>, h[i].text)
    [] h[i].role = "tool" -> Block("user", <<>>, ResultsFrom(h, i), FALSE)

AnthropicMessages(h) == [n \in DOMAIN BlockStarts(h) |-> BlockAt(h, BlockStarts(h)[n])]

(* encodeKiroHistory: as Anthropic, but a call without an id gets one.     *)
KiroId(id) == IF id = <<>> THEN <<"made">> ELSE id
KiroHistory(h) ==
  [n \in DOMAIN AnthropicMessages(h) |->
     LET b == AnthropicMessages(h)[n]
     IN  [b EXCEPT !.calls = [k \in DOMAIN b.calls |-> KiroId(b.calls[k])]]]

(* buildKiroRequest: the current message, a prompt or the last results,    *)
(* comes after the history; another last role is an error.                 *)
KiroAccepts(h) == h # <<>> /\ h[Len(h)].role \in {"user", "tool"}

KiroCutoff(h) ==
  IF h[Len(h)].role = "user" THEN Len(h) - 1
  ELSE CHOOSE c \in 0 .. Len(h) :
         /\ \A i \in c + 1 .. Len(h) : h[i].role = "tool"
         /\ c = 0 \/ h[c].role # "tool"

KiroMessages(h) ==
  Append(KiroHistory(SubSeq(h, 1, KiroCutoff(h))), BlockAt(h, KiroCutoff(h) + 1))

-----------------------------------------------------------------------------
(* The results of the calls of a block are in the block after it, all of   *)
(* them and nothing else; and there are no other results.                  *)
Paired(w) ==
  /\ \A n \in DOMAIN w : w[n].calls # <<>> =>
       n < Len(w) /\ w[n + 1].side = "user" /\ w[n + 1].results = w[n].calls
  /\ \A n \in DOMAIN w : w[n].results # <<>> => n > 1 /\ w[n - 1].calls = w[n].results

(* Or, where each result has its own block, in the blocks after it.        *)
PairedSingly(w) ==
  \A n \in DOMAIN w : \A k \in DOMAIN w[n].calls :
    n + k <= Len(w) /\ w[n + k].results = <<w[n].calls[k]>>

Sendable(h) ==
  /\ PairedSingly(OpenAIMessages(h))
  /\ Paired(AnthropicMessages(h))
  /\ KiroAccepts(h) /\ Paired(KiroMessages(h))

(* Whatever an earlier round, a failed or interrupted turn, a hook, a      *)
(* compaction or a retry has left, each backend can be sent the session:   *)
(* in its own form of the request every call is met by its result, and     *)
(* Kiro's request, which must not end with an answer, can be built.        *)
RequestsSendable ==
  /\ pc = "ask" => Sendable(history)
  /\ pc = "closed" => Sendable(Append(history, User("prompt")))

=============================================================================
