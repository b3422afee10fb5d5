---------------------------- MODULE HistoryProofs ----------------------------
(***************************************************************************)
(* What run sends to the backend, for all tools, answers and limits: every *)
(* list of tool calls in the session is followed by its results, in order, *)
(* at every moment of a turn; what a result has taken as an inject is in   *)
(* the session when run returns; and the model is told once per streak of  *)
(* failures to change its approach.                                        *)
(*                                                                         *)
(* The history only grows by user messages and by whole rounds, so the     *)
(* argument is about the round that is under way: the calls before the     *)
(* next one have a result each, and a batch is an interval of calls, each  *)
(* of which has a result once its goroutines are done.                     *)
(***************************************************************************)
EXTENDS AgentLoopProofs, FiniteSetTheorems, SequenceTheorems, WellFoundedInduction

Texts == {"prompt", "context", "summary", "nudge", "budget", "plan"}
Kinds ==
  {"none", "ok", "error", "cancelled", "stopped"} \cup (IF Quoting = {} THEN {} ELSE {"quoting"})
IdSet ==
  UNION {CASE kind = "own" -> {"own"} \X Nat \X Nat
           [] kind = "dsml" -> {"dsml"} \X Keys \X Nat
           [] kind = "none" -> {<<>>} : kind \in IdKinds}
CallSet == [key : Keys, id : IdSet]
ResultSet == [kind : Kinds, inject : Injects \cup {Null}]

Messages ==
  [role : {"user"}, what : Texts]
    \cup [role : {"assistant"}, text : BOOLEAN, ids : Seq(IdSet)]
    \cup [role : {"tool"}, id : IdSet, kind : Kinds, inject : Injects \cup {Null}]

(* ValidHistory of any sequence of messages.                               *)
CallsAnsweredIn(h) ==
  \A i \in 1 .. Len(h) : h[i].role = "assistant" =>
    /\ i + Len(h[i].ids) <= Len(h)
    /\ \A k \in 1 .. Len(h[i].ids) : h[i + k].role = "tool" /\ h[i + k].id = h[i].ids[k]

ResultsCalledIn(h) ==
  \A i \in 1 .. Len(h) : h[i].role = "tool" =>
    \E j \in 1 .. i - 1 : h[j].role = "assistant" /\ i <= j + Len(h[j].ids)

Sound(h) == h \in Seq(Messages) /\ CallsAnsweredIn(h) /\ ResultsCalledIn(h)

-----------------------------------------------------------------------------
LEMMA UserMessage ==
  ASSUME NEW w \in Texts
  PROVE  User(w) \in Messages /\ User(w).role = "user"
  BY DEF User, Messages

LEMMA AssistantMessage ==
  ASSUME NEW t \in BOOLEAN, NEW ids \in Seq(IdSet)
  PROVE  /\ Assistant(t, ids) \in Messages /\ Assistant(t, ids).role = "assistant"
         /\ Assistant(t, ids).ids = ids
  BY DEF Assistant, Messages

LEMMA ToolMessage ==
  ASSUME NEW id \in IdSet, NEW r \in ResultSet
  PROVE  Tool(id, r) \in Messages /\ Tool(id, r).role = "tool" /\ Tool(id, r).id = id
  BY DEF Tool, Messages, ResultSet

(* An assistant message has a list of ids.                                 *)
LEMMA IdsOfAssistant ==
  ASSUME NEW m \in Messages, m.role = "assistant"
  PROVE  m.ids \in Seq(IdSet) /\ Len(m.ids) \in Nat
<1>1. m.ids \in Seq(IdSet)
  BY DEF Messages
<1> QED
  BY <1>1, LenProperties

LEMMA SoundEmpty == Sound(<<>>)
  BY EmptySeq DEF Sound, CallsAnsweredIn, ResultsCalledIn

LEMMA SoundUser ==
  ASSUME NEW h, Sound(h), NEW w \in Texts
  PROVE  Sound(Append(h, User(w)))
<1> DEFINE m == User(w)
           g == Append(h, m)
           n == Len(h)
<1>1. h \in Seq(Messages) /\ n \in Nat /\ m \in Messages /\ m.role = "user"
  BY UserMessage, LenProperties DEF Sound
<1>2. /\ g \in Seq(Messages) /\ Len(g) = n + 1 /\ g[n + 1] = m
      /\ \A i \in 1 .. n : g[i] = h[i]
  BY <1>1, AppendProperties
<1>3. \A i \in 1 .. n : h[i] \in Messages
  BY <1>1, ElementOfSeq
<1> HIDE DEF m, g, n
<1>4. CallsAnsweredIn(g)
  <2> SUFFICES ASSUME NEW i \in 1 .. Len(g), g[i].role = "assistant"
               PROVE  /\ i + Len(g[i].ids) <= Len(g)
                      /\ \A k \in 1 .. Len(g[i].ids) :
                           g[i + k].role = "tool" /\ g[i + k].id = g[i].ids[k]
    BY DEF CallsAnsweredIn
  <2>1. i \in 1 .. n /\ g[i] = h[i]
    BY <1>1, <1>2
  <2>2. Len(h[i].ids) \in Nat
    BY <1>3, <2>1, IdsOfAssistant
  <2>3. /\ i + Len(h[i].ids) <= n
        /\ \A k \in 1 .. Len(h[i].ids) : h[i + k].role = "tool" /\ h[i + k].id = h[i].ids[k]
    BY <2>1 DEF Sound, CallsAnsweredIn, n
  <2>4. ASSUME NEW k \in 1 .. Len(h[i].ids) PROVE g[i + k] = h[i + k]
    <3>1. i + k \in 1 .. n
      BY <1>1, <2>1, <2>2, <2>3
    <3> QED
      BY <1>2, <3>1
  <2>5. i + Len(h[i].ids) <= n + 1
    BY <1>1, <2>1, <2>2, <2>3
  <2> QED
    BY <1>2, <2>1, <2>3, <2>4, <2>5
<1>5. ResultsCalledIn(g)
  <2> SUFFICES ASSUME NEW i \in 1 .. Len(g), g[i].role = "tool"
               PROVE  \E j \in 1 .. i - 1 : g[j].role = "assistant" /\ i <= j + Len(g[j].ids)
    BY DEF ResultsCalledIn
  <2>1. i \in 1 .. n /\ g[i] = h[i]
    BY <1>1, <1>2
  <2>2. PICK j \in 1 .. i - 1 : h[j].role = "assistant" /\ i <= j + Len(h[j].ids)
    BY <2>1 DEF Sound, ResultsCalledIn, n
  <2>3. g[j] = h[j]
    BY <1>1, <1>2, <2>1
  <2> QED
    BY <2>2, <2>3
<1> QED
  BY <1>2, <1>4, <1>5 DEF Sound, g, m

(* A message of the assistant, and a result for each of its calls.         *)
LEMMA SoundRound ==
  ASSUME NEW h, Sound(h), NEW t \in BOOLEAN, NEW ids \in Seq(IdSet), NEW ts \in Seq(Messages),
         Len(ts) = Len(ids),
         \A k \in 1 .. Len(ids) : ts[k].role = "tool" /\ ts[k].id = ids[k]
  PROVE  Sound(h \o <<Assistant(t, ids)>> \o ts)
<1> DEFINE a == Assistant(t, ids)
           f == h \o <<a>>
           g == f \o ts
           n == Len(h)
           l == Len(ids)
<1>1. /\ h \in Seq(Messages) /\ n \in Nat /\ l \in Nat
      /\ a \in Messages /\ a.role = "assistant" /\ a.ids = ids
  BY AssistantMessage, LenProperties DEF Sound
<1>2. <<a>> \in Seq(Messages) /\ Len(<<a>>) = 1 /\ <<a>>[1] = a
  BY <1>1
<1>3. f \in Seq(Messages) /\ Len(f) = n + 1 /\ f[n + 1] = a /\ \A i \in 1 .. n : f[i] = h[i]
  <2> HIDE DEF a
  <2> QED
    BY <1>1, <1>2, ConcatProperties
<1>4. /\ g \in Seq(Messages) /\ Len(g) = n + 1 + l /\ g[n + 1] = a
      /\ \A i \in 1 .. n : g[i] = h[i]
      /\ \A k \in 1 .. l : g[n + 1 + k] = ts[k]
  <2> HIDE DEF f, a
  <2>1. /\ g \in Seq(Messages) /\ Len(g) = Len(f) + Len(ts)
        /\ \A i \in 1 .. Len(f) + Len(ts) :
             g[i] = IF i <= Len(f) THEN f[i] ELSE ts[i - Len(f)]
    BY <1>3, ConcatProperties
  <2>4. Len(ts) = l
    OBVIOUS
  <2> HIDE DEF g, n, l
  <2>2. ASSUME NEW k \in 1 .. l PROVE g[n + 1 + k] = ts[k]
    <3>1. PICK i \in 1 .. n + 1 + l : i = n + 1 + k
      BY <1>1
    <3>2. ~(i <= Len(f)) /\ i - Len(f) = k /\ i \in 1 .. Len(f) + Len(ts)
      BY <1>1, <1>3, <2>4, <3>1
    <3> QED
      BY <2>1, <3>1, <3>2
  <2>3. n + 1 \in 1 .. n + 1 + l /\ \A i \in 1 .. n : i \in 1 .. n + 1 + l /\ i <= n + 1
    BY <1>1
  <2> QED
    BY <1>1, <1>3, <2>1, <2>2, <2>3, <2>4
<1>5. \A i \in 1 .. n : h[i] \in Messages
  BY <1>1, ElementOfSeq
<1>6. \A k \in 1 .. l : ts[k].role = "tool" /\ ts[k].id = ids[k]
  OBVIOUS
<1> HIDE DEF a, f, g, n, l
<1>7. CallsAnsweredIn(g)
  <2> SUFFICES ASSUME NEW i \in 1 .. Len(g), g[i].role = "assistant"
               PROVE  /\ i + Len(g[i].ids) <= Len(g)
                      /\ \A k \in 1 .. Len(g[i].ids) :
                           g[i + k].role = "tool" /\ g[i + k].id = g[i].ids[k]
    BY DEF CallsAnsweredIn
  <2>1. CASE i \in 1 .. n
    <3>1. Len(h[i].ids) \in Nat /\ g[i] = h[i]
      BY <1>4, <1>5, <2>1, IdsOfAssistant
    <3>2. /\ i + Len(h[i].ids) <= n
          /\ \A k \in 1 .. Len(h[i].ids) : h[i + k].role = "tool" /\ h[i + k].id = h[i].ids[k]
      BY <2>1, <3>1 DEF Sound, CallsAnsweredIn, n
    <3>3. ASSUME NEW k \in 1 .. Len(h[i].ids) PROVE g[i + k] = h[i + k]
      <4>1. i + k \in 1 .. n
        BY <1>1, <2>1, <3>1, <3>2
      <4> QED
        BY <1>4, <4>1
    <3>4. i + Len(h[i].ids) <= n + 1 + l
      BY <1>1, <2>1, <3>1, <3>2
    <3> QED
      BY <1>4, <3>1, <3>2, <3>3, <3>4
  <2>2. CASE i = n + 1
    <3>1. g[i].ids = ids /\ Len(g[i].ids) = l
      BY <1>1, <1>4, <2>2 DEF l
    <3>2. \A k \in 1 .. l : g[i + k] = ts[k]
      BY <1>4, <2>2
    <3> QED
      BY <1>1, <1>4, <1>6, <2>2, <3>1, <3>2
  <2>3. CASE i > n + 1
    <3>1. PICK k \in 1 .. l : i = n + 1 + k
      <4>1. i - n - 1 \in 1 .. l /\ i = n + 1 + (i - n - 1)
        BY <1>1, <1>4, <2>3
      <4> QED
        BY <4>1
    <3> QED
      BY <1>4, <1>6, <3>1
  <2> QED
    BY <1>1, <1>4, <2>1, <2>2, <2>3
<1>8. ResultsCalledIn(g)
  <2> SUFFICES ASSUME NEW i \in 1 .. Len(g), g[i].role = "tool"
               PROVE  \E j \in 1 .. i - 1 : g[j].role = "assistant" /\ i <= j + Len(g[j].ids)
    BY DEF ResultsCalledIn
  <2>1. CASE i \in 1 .. n
    <3>1. PICK j \in 1 .. i - 1 : h[j].role = "assistant" /\ i <= j + Len(h[j].ids)
      BY <1>4, <2>1 DEF Sound, ResultsCalledIn, n
    <3>2. j \in 1 .. n
      BY <1>1, <2>1
    <3>3. g[j] = h[j]
      BY <1>4, <3>2
    <3> QED
      BY <3>1, <3>3
  <2>2. CASE i > n
    <3>1. i # n + 1
      BY <1>1, <1>4
    <3>2. n + 1 \in 1 .. i - 1 /\ i <= n + 1 + l /\ Len(g[n + 1].ids) = l
      BY <1>1, <1>4, <2>2, <3>1 DEF l
    <3> QED
      BY <1>1, <1>4, <3>2
  <2> QED
    BY <1>1, <1>4, <2>1, <2>2
<1> QED
  BY <1>4, <1>7, <1>8 DEF Sound, g, f, a

LEMMA SoundIsValid == ASSUME Sound(history) PROVE ValidHistory
<1>1. DOMAIN history = 1 .. Len(history)
  BY LenProperties DEF Sound
<1> QED
  BY <1>1 DEF Sound, CallsAnsweredIn, ResultsCalledIn, ValidHistory

LEMMA SoundContext ==
  ASSUME NEW h, Sound(h), NEW g \in WithContext(h)
  PROVE  Sound(g)
  BY SoundUser DEF WithContext, Texts

LEMMA SoundCompacted ==
  ASSUME NEW h, Sound(h), NEW g \in Compacted(h)
  PROVE  Sound(g)
<1>1. Sound(<<User("summary")>>)
  <2>1. <<User("summary")>> = Append(<<>>, User("summary"))
    BY UserMessage DEF Texts
  <2> QED
    BY <2>1, SoundEmpty, SoundUser DEF Texts
<1>2. \/ g = h
      \/ \E f \in WithContext(<<User("summary")>>) : g \in WithContext(f)
      \/ \E f \in WithContext(h) : g \in WithContext(f)
  BY DEF Compacted
<1> QED
  BY <1>1, <1>2, SoundContext

(* A round as run records it.                                              *)
LEMMA SoundRecord ==
  ASSUME NEW h, Sound(h), NEW t \in BOOLEAN, NEW cs \in Seq(CallSet), NEW rs \in Seq(ResultSet),
         Len(rs) = Len(cs)
  PROVE  Sound(h \o <<Assistant(t, Ids(cs))>> \o ToolMessages(cs, rs))
<1> DEFINE ts == ToolMessages(cs, rs)
<1>1. /\ Len(cs) \in Nat /\ DOMAIN cs = 1 .. Len(cs)
      /\ \A k \in 1 .. Len(cs) : cs[k].id \in IdSet /\ rs[k] \in ResultSet
  <2>1. \A k \in 1 .. Len(cs) : cs[k] \in CallSet /\ rs[k] \in ResultSet
    BY ElementOfSeq
  <2> QED
    BY <2>1, LenProperties DEF CallSet
<1>2. /\ Ids(cs) \in Seq(IdSet) /\ Len(Ids(cs)) = Len(cs)
      /\ \A k \in 1 .. Len(cs) : Ids(cs)[k] = cs[k].id
  <2>1. Ids(cs) = [k \in 1 .. Len(cs) |-> cs[k].id]
    BY <1>1 DEF Ids
  <2>2. Ids(cs) \in [1 .. Len(cs) -> IdSet]
    BY <1>1, <2>1
  <2>3. Ids(cs) \in Seq(IdSet)
    BY <1>1, <2>2, SeqDef
  <2> QED
    BY <1>1, <2>1, <2>3, LenProperties
<1>3. /\ ts \in Seq(Messages) /\ Len(ts) = Len(cs)
      /\ \A k \in 1 .. Len(cs) : ts[k].role = "tool" /\ ts[k].id = cs[k].id
  <2>1. ts = [k \in 1 .. Len(cs) |-> Tool(cs[k].id, rs[k])]
    BY <1>1 DEF ToolMessages
  <2>2. \A k \in 1 .. Len(cs) : /\ Tool(cs[k].id, rs[k]) \in Messages
                                /\ Tool(cs[k].id, rs[k]).role = "tool"
                                /\ Tool(cs[k].id, rs[k]).id = cs[k].id
    BY <1>1, ToolMessage
  <2>3. ts \in [1 .. Len(cs) -> Messages]
    BY <2>1, <2>2
  <2>4. ts \in Seq(Messages)
    BY <1>1, <2>3, SeqDef
  <2> QED
    BY <1>1, <2>1, <2>2, <2>4, LenProperties
<1> QED
  BY <1>2, <1>3, SoundRound

LEMMA IdTyped ==
  ASSUME NEW n \in Nat, NEW kind \in IdKinds, NEW key \in Keys, NEW k \in Nat, NEW id,
         \/ kind = "own" /\ id = <<"own", n, k>>
         \/ kind = "dsml" /\ id = <<"dsml", key, k>>
         \/ kind = "none" /\ id = <<>>
  PROVE  id \in IdSet
<1>1. kind \in {"own", "dsml", "none"}
  BY LoopAssumption
<1>2. CASE kind = "own"
  BY <1>2 DEF IdSet
<1>3. CASE kind = "dsml"
  BY <1>3 DEF IdSet
<1>4. CASE kind = "none"
  BY <1>4 DEF IdSet
<1> QED
  BY <1>1, <1>2, <1>3, <1>4

LEMMA CallsTyped ==
  ASSUME step \in Nat, NEW keys \in Responses, NEW kind \in IdKinds
  PROVE  Calls(keys, kind) \in Seq(CallSet)
<1>1. keys \in Seq(Keys) /\ DOMAIN keys = 1 .. Len(keys) /\ Len(keys) \in Nat
  BY LoopAssumption, LenProperties
<1>2. \A k \in 1 .. Len(keys) : keys[k] \in Keys
  BY <1>1, ElementOfSeq
<1>3. ASSUME NEW k \in 1 .. Len(keys) PROVE IdOf(kind, keys[k], k) \in IdSet
  <2>1. kind \in {"own", "dsml", "none"}
    BY LoopAssumption
  <2>2. keys[k] \in Keys /\ k \in Nat /\ step + 1 \in Nat
    BY <1>1, <1>2
  <2> QED
    BY <2>1, <2>2, IdTyped DEF IdOf
<1>4. Calls(keys, kind) \in [1 .. Len(keys) -> CallSet]
  BY <1>1, <1>2, <1>3 DEF Calls, CallSet
<1> QED
  BY <1>1, <1>4, SeqDef

LEMMA SuccessKind == ASSUME NEW key \in Keys PROVE Success(key) \in Kinds
  BY DEF Success, Kinds

(* What an earlier turn has left.                                          *)
LEMMA OldShape ==
  ASSUME NEW g \in OldRounds
  PROVE  \E id \in IdSet, s \in Kinds \ Interrupted :
           /\ g = <<User("prompt"), Assistant(FALSE, <<id>>), Tool(id, Result(s, Null)),
                    Assistant(TRUE, <<>>)>>
           /\ OwnId(id) => id = <<"own", 0, 1>>
<1>1. PICK kind \in IdKinds, key \in Earlier : g = OldRound(kind, key)
  BY DEF OldRounds
<1>2. key \in Keys /\ kind \in {"own", "dsml", "none"}
  BY LoopAssumption
<1>3. PICK s : s = Success(key)
  OBVIOUS
<1>4. s \in Kinds \ Interrupted
  BY <1>2, <1>3 DEF Success, Kinds, Interrupted
<1>5. PICK id : id = OldId(kind, key)
  OBVIOUS
<1>6. \/ kind = "own" /\ id = <<"own", 0, 1>>
      \/ kind = "dsml" /\ id = <<"dsml", key, 1>>
      \/ kind = "none" /\ id = <<>>
  BY <1>2, <1>5 DEF OldId, IdOf
<1>7. id \in IdSet
  BY <1>2, <1>6, IdTyped
<1>8. OwnId(id) => id = <<"own", 0, 1>>
  BY <1>6 DEF OwnId
<1>9. g = <<User("prompt"), Assistant(FALSE, <<id>>), Tool(id, Result(s, Null)),
            Assistant(TRUE, <<>>)>>
  BY <1>1, <1>3, <1>5 DEF OldRound
<1> QED
  BY <1>4, <1>7, <1>8, <1>9

LEMMA CancelledTyped ==
  ASSUME NEW cs \in Seq(CallSet)
  PROVE  Cancelled(cs) \in Seq(ResultSet) /\ Len(Cancelled(cs)) = Len(cs)
<1>1. DOMAIN cs = 1 .. Len(cs) /\ Len(cs) \in Nat
  BY LenProperties
<1>2. Result("cancelled", Null) \in ResultSet
  BY DEF Result, ResultSet, Kinds
<1>3. Cancelled(cs) \in [1 .. Len(cs) -> ResultSet]
  BY <1>1, <1>2 DEF Cancelled
<1>4. Cancelled(cs) \in Seq(ResultSet)
  BY <1>1, <1>3, SeqDef
<1> QED
  BY <1>1, <1>3, <1>4, LenProperties

-----------------------------------------------------------------------------
(* A batch is an interval of calls.                                        *)

LEMMA LeastIn ==
  ASSUME NEW S \in SUBSET Nat, S # {}
  PROVE  \E j \in S : \A k \in S : j <= k
<1>1. \E j \in S : \A k \in S : <<k, j>> \notin OpToRel(<, Nat)
  BY NatLessThanWellFounded, WFMin, Zenon
<1>2. ASSUME NEW j \in Nat, NEW k \in Nat, <<k, j>> \notin OpToRel(<, Nat)
      PROVE  j <= k
  BY <1>2 DEF OpToRel
<1> QED
  BY <1>1, <1>2

LEMMA BatchInterval ==
  ASSUME Len(calls) \in Nat, NEW i \in Nat, i <= Len(calls)
  PROVE  \E m \in i .. Len(calls) : BatchFrom(i) = i .. m
<1> DEFINE l == Len(calls)
           out == {j \in i + 1 .. l + 1 : j \notin BatchFrom(i)}
<1>1. l + 1 \in out /\ out \in SUBSET Nat
  BY DEF BatchFrom
<1>2. PICK j \in out : \A k \in out : j <= k
  BY <1>1, LeastIn
<1>3. j - 1 \in i .. l /\ j \in i + 1 .. l + 1 /\ j \notin BatchFrom(i)
  BY <1>2
<1>4. ASSUME NEW x \in i .. j - 1 PROVE x \in BatchFrom(i)
  <2>1. CASE x = i
    BY <2>1 DEF BatchFrom
  <2>2. CASE x # i
    <3>1. x \in i + 1 .. l + 1 /\ ~(j <= x)
      BY <1>3, <2>2
    <3> QED
      BY <1>2, <3>1
  <2> QED
    BY <2>1, <2>2
<1>5. ASSUME NEW x \in BatchFrom(i) PROVE x \in i .. j - 1
  <2>1. x \in i .. l /\ (x # i => \A k \in i .. x : IsRead(k))
    BY DEF BatchFrom
  <2>2. CASE x >= j
    <3>1. j \in i .. l /\ \A k \in i .. j : IsRead(k)
      BY <1>3, <2>1, <2>2
    <3> QED
      BY <1>3, <3>1 DEF BatchFrom
  <2> QED
    BY <1>3, <2>1, <2>2
<1>6. BatchFrom(i) = i .. j - 1
  BY <1>4, <1>5
<1> QED
  BY <1>3, <1>6

(* Every call of a batch has an execution that answers it.                 *)
LEMMA FirstInBatch ==
  ASSUME DOMAIN worker \in SUBSET Nat, NEW k \in DOMAIN worker
  PROVE  First(k) \in DOMAIN worker
<1> DEFINE S == {n \in DOMAIN worker : calls[n].key = calls[k].key}
<1>1. S \in SUBSET Nat /\ k \in S
  OBVIOUS
<1>2. PICK j \in S : \A n \in S : j <= n
  BY <1>1, LeastIn
<1>3. \E m \in DOMAIN worker :
         /\ calls[m].key = calls[k].key
         /\ \A n \in DOMAIN worker : calls[n].key = calls[k].key => m <= n
  BY <1>2
<1> QED
  BY <1>3 DEF First

-----------------------------------------------------------------------------
(* The invariant.                                                          *)

(* The budgets: a retry, a failure or a round more is within its limit.    *)
Counts ==
  /\ step \in Nat /\ attempt \in 0 .. MaxRetries
  /\ pc = "wait" => attempt < MaxRetries
  /\ consecutiveErrors \in 0 .. HardLimit
  /\ Running => consecutiveErrors < HardLimit
  /\ MaxSteps > 0 => step < MaxSteps
  /\ MaxSteps > 0 /\ pc \in {"round", "compact"} => step < MaxSteps - 1

(* The answer: a result for every call before the next one.                *)
Answered ==
  /\ said \in BOOLEAN /\ calls \in Seq(CallSet) /\ results \in Seq(ResultSet)
  /\ next \in 1 .. Len(calls) + 1 /\ Len(results) = next - 1
  /\ pc = "save" => next = Len(calls) + 1
  /\ pc = "batch" => next <= Len(calls)

(* The batch under way.                                                    *)
Batched ==
  /\ pc # "batch" => DOMAIN worker = {}
  /\ pc = "batch" => DOMAIN worker = BatchFrom(next) /\ found \in [DOMAIN worker -> ResultSet]

Cached == resultCache \in [ReadSafe -> {"miss", Null} \cup injected]

Histories == Sound(snapMessages) /\ (pc # "closed" => Sound(history))

LoopInv == RunInv /\ Counts /\ Answered /\ Batched /\ Cached /\ Histories

(* What TLC checks of it as TypeOK.                                        *)
LEMMA LoopTypes == LoopInv => TypeOK
<1> SUFFICES ASSUME LoopInv PROVE TypeOK
  OBVIOUS
<1>1. pc = "batch" => DOMAIN worker # {} /\ DOMAIN found = DOMAIN worker
  BY DEF LoopInv, Batched, BatchFrom
<1> QED
  BY <1>1 DEF LoopInv, RunInv, Counts, Answered, Batched, Cached, TypeOK

LEMMA LoopInit == Init => LoopInv
<1> SUFFICES ASSUME Init PROVE LoopInv
  OBVIOUS
<1> USE LoopAssumption DEF Init
<1>1. RunInv
  BY RunInvInit
<1>2. Counts
  BY DEF Counts
<1>3. Answered /\ Batched /\ Cached
  <2>1. calls \in Seq(CallSet) /\ results \in Seq(ResultSet) /\ Len(calls) = 0 /\ Len(results) = 0
    BY EmptySeq
  <2>2. DOMAIN worker = {}
    OBVIOUS
  <2>3. Answered
    <3>1. said = FALSE /\ next = 1 /\ pc = "ask"
      OBVIOUS
    <3>2. said \in BOOLEAN
      BY <3>1
    <3>3. next \in 1 .. Len(calls) + 1 /\ Len(results) = next - 1
      BY ONLY <2>1, <3>1
    <3> QED
      BY ONLY <2>1, <3>1, <3>2, <3>3 DEF Answered
  <2>4. Batched
    BY <2>2 DEF Batched
  <2>5. Cached
    BY DEF Cached
  <2> QED
    BY <2>3, <2>4, <2>5
<1>4. ASSUME NEW g \in OldRounds PROVE Sound(g)
  <2>0. PICK id \in IdSet, s \in Kinds \ Interrupted :
          /\ g = <<User("prompt"), Assistant(FALSE, <<id>>), Tool(id, Result(s, Null)),
                   Assistant(TRUE, <<>>)>>
          /\ OwnId(id) => id = <<"own", 0, 1>>
    BY OldShape
  <2> DEFINE u == User("prompt")
             a == Assistant(FALSE, <<id>>)
             r == Tool(id, Result(s, Null))
             e == Assistant(TRUE, <<>>)
             h == <<u, a, r, e>>
  <2>1. Result(s, Null) \in ResultSet
    BY DEF ResultSet, Result
  <2>2. <<id>> \in Seq(IdSet) /\ <<>> \in Seq(IdSet)
    BY EmptySeq
  <2>3. u \in Messages /\ a \in Messages /\ r \in Messages /\ e \in Messages
    BY <2>1, <2>2, UserMessage, AssistantMessage, ToolMessage DEF Texts
  <2>4. /\ u.role = "user" /\ a.role = "assistant" /\ r.role = "tool" /\ e.role = "assistant"
        /\ a.ids = <<id>> /\ r.id = id /\ e.ids = <<>>
    BY DEF User, Assistant, Tool
  <2>9. Len(<<id>>) = 1 /\ <<id>>[1] = id /\ Len(<<>>) = 0
    OBVIOUS
  <2> HIDE DEF u, a, r, e
  <2>5. /\ h \in Seq(Messages) /\ Len(h) = 4
        /\ h[1] = u /\ h[2] = a /\ h[3] = r /\ h[4] = e
    BY <2>3
  <2> HIDE DEF h
  <2>6. CallsAnsweredIn(h)
    <3> SUFFICES ASSUME NEW i \in 1 .. Len(h), h[i].role = "assistant"
                 PROVE  /\ i + Len(h[i].ids) <= Len(h)
                        /\ \A k \in 1 .. Len(h[i].ids) :
                             h[i + k].role = "tool" /\ h[i + k].id = h[i].ids[k]
      BY DEF CallsAnsweredIn
    <3>1. i = 2 \/ i = 4
      BY <2>4, <2>5
    <3>2. CASE i = 2
      <4>1. h[i].ids = <<id>> /\ Len(h[i].ids) = 1
        BY <2>4, <2>5, <2>9, <3>2
      <4>2. \A k \in 1 .. Len(h[i].ids) : k = 1
        BY <4>1
      <4>3. h[i + 1] = r
        BY <2>5, <3>2
      <4> QED
        BY <2>4, <2>5, <2>9, <3>2, <4>1, <4>2, <4>3
    <3>3. CASE i = 4
      <4>1. Len(h[i].ids) = 0
        BY <2>4, <2>5, <2>9, <3>3
      <4> QED
        BY <2>5, <3>3, <4>1
    <3> QED
      BY <3>1, <3>2, <3>3
  <2>7. ResultsCalledIn(h)
    <3> SUFFICES ASSUME NEW i \in 1 .. Len(h), h[i].role = "tool"
                 PROVE  \E j \in 1 .. i - 1 : h[j].role = "assistant" /\ i <= j + Len(h[j].ids)
      BY DEF ResultsCalledIn
    <3>1. i = 3
      BY <2>4, <2>5
    <3>2. 2 \in 1 .. i - 1 /\ h[2].role = "assistant" /\ i <= 2 + Len(h[2].ids)
      <4>1. Len(h[2].ids) = 1 /\ h[2].role = "assistant"
        BY <2>4, <2>5, <2>9
      <4>2. 2 \in 1 .. 3 - 1
        OBVIOUS
      <4> QED
        BY ONLY <3>1, <4>1, <4>2
    <3> QED
      BY <3>2
  <2>8. Sound(h)
    BY <2>5, <2>6, <2>7 DEF Sound
  <2> QED
    BY <2>0, <2>8 DEF h, u, a, r, e
<1>5. Sound(snapMessages)
  BY <1>4, SoundEmpty
<1>6. PICK h : /\ h \in WithContext(<<>>) \/ h = snapMessages
               /\ history \in Compacted(Append(h, User("prompt")))
  OBVIOUS
<1>7. Sound(h)
  BY <1>5, <1>6, SoundEmpty, SoundContext
<1>8. Sound(Append(h, User("prompt")))
  BY <1>7, SoundUser DEF Texts
<1>9. Sound(history)
  BY <1>6, <1>8, SoundCompacted
<1> QED
  BY <1>1, <1>2, <1>3, <1>5, <1>9 DEF LoopInv, Histories

-----------------------------------------------------------------------------
(* Every step keeps it.                                                    *)

LEMMA CountsStep == ASSUME LoopInv, [Next]_vars PROVE Counts'
<1> USE LoopAssumption DEF LoopInv, Counts, Running
<1>1. CASE UNCHANGED vars
  BY <1>1 DEF vars, round
<1>2. CASE BackendError \/ StreamEnds
  BY <1>2 DEF BackendError, StreamEnds, Return, Retry, round
<1>3. CASE Wait
  BY <1>3 DEF Wait, Return
<1>4. CASE Answer \/ AnswerRejected
  BY <1>4 DEF Answer, AnswerRejected, Return, round
<1>5. CASE ActCancelled \/ StartBatch \/ EndBatch
  BY <1>5 DEF ActCancelled, StartBatch, EndBatch, round
<1>6. CASE Save
  <2>1. UNCHANGED <<step, attempt>> /\ pc \in {"save", "act"}
    BY <1>6 DEF Save
  <2>2. \/ pc' = "ended" /\ UNCHANGED consecutiveErrors
        \/ pc' = "ended" /\ consecutiveErrors' \in {0, consecutiveErrors + 1}
        \/ /\ pc' = "round" /\ consecutiveErrors' \in {0, consecutiveErrors + 1}
           /\ consecutiveErrors' < HardLimit /\ ~OverBudget
    BY <1>6 DEF Save, Return
  <2> QED
    BY <2>1, <2>2 DEF OverBudget
<1>7. CASE NoCompact \/ StartCompact \/ EndCompact
  <2>1. /\ UNCHANGED consecutiveErrors /\ pc \in {"round", "compact"}
        /\ \/ pc' = "ask" /\ step' = step + 1 /\ attempt' = 0
           \/ pc' \in {"compact", "ended"} /\ UNCHANGED <<step, attempt>>
    BY <1>7 DEF NoCompact, StartCompact, EndCompact, NextRound, Return, round
  <2> QED
    BY <2>1
<1>8. CASE Rollback \/ RunAgain \/ OverflowCompactFails \/ EndTurn
  <2>1. \/ pc' \in {"overflow", "ended", "closed"} /\ UNCHANGED <<step, attempt, consecutiveErrors>>
        \/ pc' = "ask" /\ step' = 0 /\ attempt' = 0 /\ consecutiveErrors' = 0
    BY <1>8 DEF Rollback, RunAgain, OverflowCompactFails, EndTurn, round
  <2> QED
    BY <2>1
<1>9. CASE \E k \in DOMAIN worker : Call(k)
  <2> PICK k \in DOMAIN worker : Call(k)
    BY <1>9
  <2>1. UNCHANGED <<pc, step, attempt, consecutiveErrors>>
    BY DEF Call, ExecOne, PreTool, ExecReturn, PostTool, round
  <2> QED
    BY <2>1
<1>10. CASE Cancel \/ \E p \in Injects : Inject(p)
  BY <1>10 DEF Cancel, Inject, round
<1> QED
  BY <1>1, <1>2, <1>3, <1>4, <1>5, <1>6, <1>7, <1>8, <1>9, <1>10 DEF Next, Run

LEMMA BatchedStep == ASSUME LoopInv, [Next]_vars PROVE Batched'
<1> USE DEF LoopInv, Batched
<1>1. CASE UNCHANGED <<pc, batch, answer>>
  BY <1>1 DEF batch, answer, BatchFrom, IsRead
<1>2. CASE pc # "batch" /\ pc' # "batch" /\ UNCHANGED batch
  BY <1>2 DEF batch
<1>3. CASE StartBatch
  <2>1. Result("none", Null) \in ResultSet
    BY DEF Result, ResultSet, Kinds
  <2>2. /\ pc' = "batch" /\ UNCHANGED <<calls, next>> /\ DOMAIN worker' = BatchFrom(next)
        /\ found' \in [BatchFrom(next) -> ResultSet]
    BY <1>3, <2>1 DEF StartBatch, answer
  <2> QED
    BY <2>2 DEF BatchFrom, IsRead
<1>4. CASE EndBatch
  <2>1. DOMAIN <<>> = {}
    OBVIOUS
  <2> QED
    BY <1>4, <2>1 DEF EndBatch
<1>5. ASSUME NEW k \in DOMAIN worker, Call(k) PROVE Batched'
  <2>1. /\ pc = "batch" /\ UNCHANGED <<pc, calls, next>>
        /\ DOMAIN worker' = DOMAIN worker
    BY <1>5 DEF Call, ExecOne, PreTool, ExecReturn, PostTool, at, answer, Goto, Finish
  <2>2. found' \in [DOMAIN worker -> ResultSet]
    <3>1. pendingInject \in Injects \cup {Null}
      BY DEF RunInv
    <3>2. \A kind \in Kinds, p \in Injects \cup {Null} : Result(kind, p) \in ResultSet
      BY DEF Result, ResultSet
    <3>3. found[k] \in ResultSet /\ found[k].kind \in Kinds
      BY <2>1 DEF ResultSet
    <3>4. \A r \in ResultSet : [found EXCEPT ![k] = r] \in [DOMAIN worker -> ResultSet]
      BY <2>1
    <3>9. calls[k].key \in Keys
      <4>1. calls \in Seq(CallSet) /\ k \in 1 .. Len(calls)
        <5>1. Len(calls) \in Nat
          BY LenProperties DEF Answered
        <5> QED
          BY <2>1, <5>1 DEF Answered, BatchFrom
      <4>2. calls[k] \in CallSet
        BY <4>1, ElementOfSeq
      <4> QED
        BY <4>2 DEF CallSet
    <3>5. ASSUME ExecOne(k) PROVE found' \in [DOMAIN worker -> ResultSet]
      BY <2>1, <3>2, <3>4, <3>5 DEF ExecOne, Goto, Finish, Kinds
    <3>6. ASSUME PreTool(k) PROVE found' \in [DOMAIN worker -> ResultSet]
      <4>1. IsRead(k) /\ resultCache[calls[k].key] # "miss" =>
              resultCache[calls[k].key] \in Injects \cup {Null}
        BY DEF Cached, IsRead, RunInv
      <4>2. Success(calls[k].key) \in Kinds
        BY <3>9, SuccessKind
      <4> QED
        BY <2>1, <3>2, <3>4, <3>6, <4>1, <4>2 DEF PreTool, Goto, Finish, Kinds
    <3>7. ASSUME ExecReturn(k) PROVE found' \in [DOMAIN worker -> ResultSet]
      <4>1. Success(calls[k].key) \in Kinds
        BY <3>9, SuccessKind
      <4> QED
        BY <2>1, <3>1, <3>2, <3>4, <3>7, <4>1 DEF ExecReturn, Finish, Kinds
    <3>8. ASSUME PostTool(k) PROVE found' \in [DOMAIN worker -> ResultSet]
      BY <2>1, <3>1, <3>2, <3>3, <3>4, <3>8 DEF PostTool, Finish
    <3> QED
      BY <1>5, <3>5, <3>6, <3>7, <3>8 DEF Call
  <2> QED
    BY <2>1, <2>2 DEF BatchFrom, IsRead
<1>6. ASSUME \/ BackendError \/ StreamEnds \/ Wait \/ Answer \/ AnswerRejected \/ ActCancelled
             \/ NoCompact \/ StartCompact \/ EndCompact
             \/ Rollback \/ RunAgain \/ OverflowCompactFails \/ EndTurn
      PROVE  pc # "batch" /\ pc' # "batch" /\ UNCHANGED batch
  BY <1>6 DEF BackendError, StreamEnds, Wait, Answer, AnswerRejected, ActCancelled, NoCompact,
     StartCompact, EndCompact, NextRound, Rollback, RunAgain, OverflowCompactFails, EndTurn,
     Return, Retry
<1>7. ASSUME Save PROVE pc # "batch" /\ pc' # "batch" /\ UNCHANGED batch
  <2>1. pc \in {"save", "act"} /\ pc' \in {"ended", "round"} /\ UNCHANGED batch
    BY <1>7 DEF Save, Return
  <2> QED
    BY <2>1
<1>8. ASSUME UNCHANGED vars \/ Cancel \/ \E p \in Injects : Inject(p)
      PROVE  UNCHANGED <<pc, batch, answer>>
  BY <1>8 DEF vars, Cancel, Inject
<1> QED
  BY <1>1, <1>2, <1>3, <1>4, <1>5, <1>6, <1>7, <1>8 DEF Next, Run

LEMMA CachedStep == ASSUME LoopInv, [Next]_vars PROVE Cached'
<1> USE DEF LoopInv, Cached
<1>1. CASE UNCHANGED <<resultCache, injected>>
  BY <1>1
<1>2. CASE RunAgain
  BY <1>2 DEF RunAgain
<1>3. ASSUME NEW p \in Injects, Inject(p) PROVE Cached'
  BY <1>3 DEF Inject, round
<1>4. ASSUME NEW k \in DOMAIN worker, PostTool(k) PROVE Cached'
  <2>1. pendingInject \in injected \cup {Null} /\ UNCHANGED injected
    BY <1>4 DEF PostTool, RunInv
  <2>2. PICK p \in {Null, pendingInject} : Cache(k, Result(found[k].kind, p))
    BY <1>4 DEF PostTool
  <2> QED
    BY <2>1, <2>2 DEF Cache, IsRead, Result
<1>5. ASSUME \/ UNCHANGED vars \/ BackendError \/ StreamEnds \/ Wait \/ Answer \/ AnswerRejected
             \/ ActCancelled \/ StartBatch \/ EndBatch \/ NoCompact \/ StartCompact \/ EndCompact
             \/ Rollback \/ OverflowCompactFails \/ EndTurn \/ Cancel
      PROVE  UNCHANGED <<resultCache, injected>>
  BY <1>5 DEF vars, round, inbox, BackendError, StreamEnds, Wait, Answer, AnswerRejected,
     ActCancelled, StartBatch, EndBatch, NoCompact, StartCompact, EndCompact, NextRound,
     Rollback, OverflowCompactFails, EndTurn, Cancel
<1>6. ASSUME Save PROVE UNCHANGED <<resultCache, injected>>
  BY <1>6 DEF Save, inbox
<1>7. ASSUME NEW k \in DOMAIN worker, ExecOne(k) \/ PreTool(k) \/ ExecReturn(k)
      PROVE  UNCHANGED <<resultCache, injected>>
  BY <1>7 DEF ExecOne, PreTool, ExecReturn, round, inbox
<1> QED
  BY <1>1, <1>2, <1>3, <1>4, <1>5, <1>6, <1>7 DEF Next, Run, Call

LEMMA SeqOfFunction ==
  ASSUME NEW S, NEW n \in Nat, NEW f \in [1 .. n -> S]
  PROVE  f \in Seq(S) /\ Len(f) = n
<1>1. f \in Seq(S)
  BY SeqDef
<1>2. DOMAIN f = 1 .. n /\ DOMAIN f = 1 .. Len(f) /\ Len(f) \in Nat
  BY <1>1, LenProperties
<1> QED
  BY <1>1, <1>2

LEMMA ConcatSeqs ==
  ASSUME NEW S, NEW s \in Seq(S), NEW t \in Seq(S)
  PROVE  s \o t \in Seq(S) /\ Len(s \o t) = Len(s) + Len(t)
  BY ConcatProperties

LEMMA AnsweredStep == ASSUME LoopInv, [Next]_vars PROVE Answered'
<1> USE DEF LoopInv, Answered
<1>0. /\ Len(calls) \in Nat /\ Len(results) \in Nat
      /\ \A k \in 1 .. Len(calls) : calls[k] \in CallSet
  BY LenProperties, ElementOfSeq
<1>9. results \in Seq(ResultSet)
  OBVIOUS
<1>1. ASSUME UNCHANGED answer, pc' \notin {"save", "batch"} \/ pc' = pc PROVE Answered'
  BY <1>1 DEF answer
<1>2. CASE Answer
  <2>1. PICK keys \in Responses, kind \in IdKinds : calls' = Calls(keys, kind)
    BY <1>2 DEF Answer
  <2>2. calls' \in Seq(CallSet) /\ Len(calls') \in Nat
    BY <2>1, CallsTyped, LenProperties DEF Counts
  <2>3. <<>> \in Seq(ResultSet) /\ Len(<<>>) = 0
    BY EmptySeq
  <2> QED
    BY <1>2, <2>2, <2>3 DEF Answer
<1>3. CASE ActCancelled
  <2> DEFINE rest == SubSeq(calls, next, Len(calls))
  <2>1. rest \in Seq(CallSet) /\ Len(rest) = Len(calls) + 1 - next
    BY <1>0, <1>3, SubSeqProperties DEF ActCancelled
  <2>2. Cancelled(rest) \in Seq(ResultSet) /\ Len(Cancelled(rest)) = Len(rest)
    BY <2>1, CancelledTyped
  <2>3. /\ results' = results \o Cancelled(rest) /\ UNCHANGED <<said, calls>>
        /\ next' = Len(calls) + 1 /\ pc' = "save"
    BY <1>3 DEF ActCancelled
  <2> HIDE DEF rest
  <2>4. /\ results \o Cancelled(rest) \in Seq(ResultSet)
        /\ Len(results \o Cancelled(rest)) = Len(results) + Len(Cancelled(rest))
    BY <1>9, <2>2, ConcatSeqs
  <2> QED
    BY <1>0, <2>1, <2>2, <2>3, <2>4
<1>4. CASE StartBatch
  BY <1>4 DEF StartBatch, answer
<1>5. CASE EndBatch
  <2> DEFINE last == next + Cardinality(DOMAIN worker) - 1
             outs == [k \in 1 .. last + 1 - next |-> found[First(next + k - 1)]]
             rest == SubSeq(calls, last + 1, Len(calls))
  <2>1. /\ pc = "batch" /\ UNCHANGED <<said, calls>>
        /\ \/ /\ results' = results \o outs \o Cancelled(rest)
              /\ next' = Len(calls) + 1 /\ pc' = "save"
           \/ results' = results \o outs /\ next' = last + 1 /\ pc' = "act"
    BY <1>5 DEF EndBatch
  <2>2. PICK m \in next .. Len(calls) : BatchFrom(next) = next .. m
    BY <1>0, <2>1, BatchInterval
  <2>3. /\ DOMAIN worker = next .. m /\ DOMAIN worker \in SUBSET Nat
        /\ found \in [DOMAIN worker -> ResultSet]
    BY <2>1, <2>2 DEF Batched
  <2>4. Cardinality(next .. m) = m - next + 1
    BY <1>0, <2>2, FS_Interval
  <2>5. last = m
    BY <1>0, <2>2, <2>3, <2>4
  <2>6. outs \in Seq(ResultSet) /\ Len(outs) = m + 1 - next
    <3>1. \A k \in 1 .. m + 1 - next : next + k - 1 \in DOMAIN worker
      BY <1>0, <2>2, <2>3
    <3>2. \A k \in 1 .. m + 1 - next : found[First(next + k - 1)] \in ResultSet
      BY <2>3, <3>1, FirstInBatch
    <3>3. outs \in [1 .. m + 1 - next -> ResultSet]
      BY <2>5, <3>2
    <3>4. m + 1 - next \in Nat
      BY <1>0, <2>2
    <3> HIDE DEF outs
    <3> QED
      BY <3>3, <3>4, SeqOfFunction
  <2>7. rest \in Seq(CallSet) /\ Len(rest) = Len(calls) - m
    <3>1. last + 1 \in 1 .. Len(calls) + 1
      BY <1>0, <2>2, <2>5
    <3> QED
      BY <1>0, <2>2, <2>5, <3>1, SubSeqProperties
  <2>8. Cancelled(rest) \in Seq(ResultSet) /\ Len(Cancelled(rest)) = Len(rest)
    BY <2>7, CancelledTyped
  <2> HIDE DEF last, outs, rest
  <2>9. results \o outs \in Seq(ResultSet) /\ Len(results \o outs) = Len(results) + Len(outs)
    BY <1>9, <2>6, ConcatSeqs
  <2>10. /\ results \o outs \o Cancelled(rest) \in Seq(ResultSet)
         /\ Len(results \o outs \o Cancelled(rest)) = Len(results \o outs) + Len(Cancelled(rest))
    BY <2>8, <2>9, ConcatSeqs
  <2>11. /\ UNCHANGED <<said, calls>> /\ said \in BOOLEAN /\ calls \in Seq(CallSet)
         /\ next \in Nat /\ Len(results) = next - 1
    BY <1>0, <2>1
  <2>14. Len(results) + Len(outs) = m /\ m + Len(Cancelled(rest)) = Len(calls)
    <3>1. Len(results) = next - 1 /\ Len(outs) = m + 1 - next /\ next \in Nat /\ m \in Nat
      BY <1>0, <2>2, <2>6, <2>11
    <3>2. Len(Cancelled(rest)) = Len(calls) - m
      BY <2>7, <2>8
    <3> QED
      BY ONLY <1>0, <3>1, <3>2
  <2>12. CASE /\ results' = results \o outs \o Cancelled(rest)
              /\ next' = Len(calls) + 1 /\ pc' = "save"
    <3>1. results' \in Seq(ResultSet) /\ Len(results') = Len(calls)
      BY ONLY <2>9, <2>10, <2>12, <2>14
    <3> QED
      BY <1>0, <2>11, <2>12, <3>1
  <2>13. CASE results' = results \o outs /\ next' = last + 1 /\ pc' = "act"
    <3>1. results' \in Seq(ResultSet) /\ Len(results') = m
      BY ONLY <2>9, <2>13, <2>14
    <3> QED
      BY <1>0, <2>2, <2>5, <2>11, <2>13, <3>1
  <2> QED
    BY <2>1, <2>12, <2>13
<1>6. CASE Save
  <2>1. Forget /\ pc' \in {"ended", "round"}
    BY <1>6 DEF Save, Return
  <2>2. /\ <<>> \in Seq(ResultSet) /\ <<>> \in Seq(CallSet) /\ Len(<<>>) = 0
    BY EmptySeq
  <2>3. said' \in BOOLEAN /\ calls' = <<>> /\ next' = 1 /\ results' = <<>>
    BY <2>1 DEF Forget
  <2>4. next' \in 1 .. Len(calls') + 1 /\ Len(results') = next' - 1
    BY <2>2, <2>3
  <2>5. calls' \in Seq(CallSet) /\ results' \in Seq(ResultSet)
    BY <2>2, <2>3
  <2>6. pc' # "save" /\ pc' # "batch"
    BY <2>1
  <2> QED
    BY <2>3, <2>4, <2>5, <2>6
<1>7. ASSUME \/ UNCHANGED vars \/ BackendError \/ StreamEnds \/ Wait \/ AnswerRejected
             \/ NoCompact \/ StartCompact \/ EndCompact
             \/ Rollback \/ RunAgain \/ OverflowCompactFails \/ EndTurn
             \/ Cancel \/ \E p \in Injects : Inject(p)
      PROVE  UNCHANGED answer /\ (pc' \notin {"save", "batch"} \/ pc' = pc)
  BY <1>7 DEF vars, BackendError, StreamEnds, Wait, AnswerRejected, NoCompact, StartCompact,
     EndCompact, NextRound, Rollback, RunAgain, OverflowCompactFails, EndTurn, Cancel, Inject,
     Return, Retry
<1>8. ASSUME NEW k \in DOMAIN worker, Call(k) PROVE UNCHANGED answer /\ pc' = pc
  BY <1>8 DEF Call, ExecOne, PreTool, ExecReturn, PostTool
<1> QED
  BY <1>1, <1>2, <1>3, <1>4, <1>5, <1>6, <1>7, <1>8 DEF Next, Run

(* Whatever is appended is a user message or a whole round.                *)
LEMMA HistoriesStep == ASSUME LoopInv, [Next]_vars PROVE Histories'
<1> USE DEF LoopInv, Histories
<1>1. CASE UNCHANGED <<history, turn>> /\ (pc # "closed" \/ pc' = "closed")
  BY <1>1 DEF turn
<1>2. CASE StreamEnds
  <2>1. CASE UNCHANGED history
    BY <1>2, <2>1 DEF StreamEnds, turn
  <2>2. ASSUME NEW keys \in Responses, NEW kind \in IdKinds, NEW text \in BOOLEAN,
               history' = history \o <<Assistant(text, Ids(Calls(keys, kind)))>>
                            \o ToolMessages(Calls(keys, kind), Cancelled(Calls(keys, kind)))
        PROVE  Sound(history')
    <3> DEFINE cs == Calls(keys, kind)
    <3>1. cs \in Seq(CallSet)
      BY CallsTyped DEF Counts
    <3>2. Cancelled(cs) \in Seq(ResultSet) /\ Len(Cancelled(cs)) = Len(cs)
      BY <3>1, CancelledTyped
    <3> HIDE DEF cs
    <3>3. Sound(history \o <<Assistant(text, Ids(cs))>> \o ToolMessages(cs, Cancelled(cs)))
      BY <1>2, <3>1, <3>2, SoundRecord DEF StreamEnds
    <3> QED
      BY <2>2, <3>3 DEF cs
  <2>3. UNCHANGED turn
    BY <1>2 DEF StreamEnds
  <2> QED
    BY <1>2, <2>1, <2>2, <2>3 DEF StreamEnds, turn
<1>3. CASE Save
  <2>1. Len(results) = Len(calls)
    <3>1. Len(calls) \in Nat
      BY LenProperties DEF Answered
    <3>2. next = Len(calls) + 1
      BY <1>3, <3>1 DEF Save, Answered
    <3> QED
      BY <3>1, <3>2 DEF Answered
  <2>2. Sound(Recorded)
    BY <1>3, <2>1, SoundRecord DEF Save, Answered, Recorded
  <2>3. Sound(WithNudge(Recorded))
    BY <2>2, SoundUser DEF WithNudge, Texts
  <2>4. /\ Sound(Append(WithNudge(Recorded), User("budget")))
        /\ Sound(Append(WithNudge(Recorded), User("plan")))
    BY <2>3, SoundUser DEF Texts
  <2>5. \/ history' = Recorded \/ history' = WithNudge(Recorded)
        \/ history' = Append(WithNudge(Recorded), User("budget"))
        \/ history' = Append(WithNudge(Recorded), User("plan"))
    BY <1>3 DEF Save
  <2>6. UNCHANGED turn
    BY <1>3 DEF Save
  <2>7. Sound(history')
    BY <2>2, <2>3, <2>4, <2>5
  <2> QED
    BY <2>6, <2>7 DEF turn
<1>4. CASE EndCompact
  <2>1. pc = "compact" /\ (history' \in Compacted(history) \/ history' \in WithContext(history))
    BY <1>4 DEF EndCompact, CompactionFails
  <2>2. Sound(history')
    BY <2>1, SoundCompacted, SoundContext
  <2>3. UNCHANGED turn
    BY <1>4 DEF EndCompact
  <2> QED
    BY <2>2, <2>3 DEF turn
<1>5. CASE Rollback
  BY <1>5 DEF Rollback
<1>6. CASE RunAgain
  <2>1. PICK h \in Compacted(history) : history' = Append(h, User("prompt"))
    BY <1>6 DEF RunAgain
  <2>2. Sound(h)
    BY <1>6, <2>1, SoundCompacted DEF RunAgain
  <2>3. Sound(history')
    BY <2>1, <2>2, SoundUser DEF Texts
  <2>4. UNCHANGED turn
    BY <1>6 DEF RunAgain
  <2> QED
    BY <2>3, <2>4 DEF turn
<1>7. CASE OverflowCompactFails
  <2>1. history' \in WithContext(history)
    BY <1>7 DEF OverflowCompactFails, CompactionFails
  <2>2. Sound(history')
    BY <1>7, <2>1, SoundContext DEF OverflowCompactFails
  <2>3. UNCHANGED turn
    BY <1>7 DEF OverflowCompactFails
  <2> QED
    BY <2>2, <2>3 DEF turn
<1>8. CASE EndTurn
  BY <1>8 DEF EndTurn, turn
<1>9. ASSUME \/ UNCHANGED vars \/ BackendError \/ Wait \/ Answer \/ AnswerRejected
             \/ ActCancelled \/ StartBatch \/ EndBatch \/ NoCompact \/ StartCompact
             \/ Cancel \/ \E p \in Injects : Inject(p)
      PROVE  UNCHANGED <<history, turn>> /\ (pc # "closed" \/ pc' = "closed")
  BY <1>9 DEF vars, BackendError, Wait, Answer, AnswerRejected, ActCancelled, StartBatch,
     EndBatch, NoCompact, StartCompact, Cancel, Inject, Running
<1>10. ASSUME NEW k \in DOMAIN worker, Call(k)
       PROVE  UNCHANGED <<history, turn>> /\ pc # "closed"
  BY <1>10 DEF Call, ExecOne, PreTool, ExecReturn, PostTool, at
<1> QED
  BY <1>1, <1>2, <1>3, <1>4, <1>5, <1>6, <1>7, <1>8, <1>9, <1>10 DEF Next, Run

LEMMA LoopStep == LoopInv /\ CancelInv /\ [Next]_vars => LoopInv'
<1> SUFFICES ASSUME LoopInv, CancelInv, [Next]_vars PROVE LoopInv'
  OBVIOUS
<1>1. RunInv'
  BY RunInvStep DEF LoopInv
<1> QED
  BY <1>1, CountsStep, AnsweredStep, BatchedStep, CachedStep, HistoriesStep DEF LoopInv

THEOREM LoopSafety == Spec => []LoopInv
<1> QED
  BY LoopInit, LoopStep, RunSafety, PTL DEF Spec

(* Retries, failures, steps, results and batches stay within their bounds, *)
(* whatever the backend and the tools answer (loop.go:98-402).             *)
THEOREM LoopBounded == Spec => []TypeOK
<1> QED
  BY LoopSafety, LoopTypes, PTL

(* Until the turn is over, and so in whatever is sent to the backend, each *)
(* list of tool calls is followed by its results, in order, and no result  *)
(* stands alone (loop.go, session.go).                                     *)
THEOREM HistoryStaysValid == Spec => [](pc # "closed" => ValidHistory)
<1>1. LoopInv => (pc # "closed" => ValidHistory)
  BY SoundIsValid DEF LoopInv, Histories
<1> QED
  BY <1>1, LoopSafety, PTL

-----------------------------------------------------------------------------
(* Injects.  One that was taken is in the batch, in the results, or in the *)
(* session, unless the session was cut.                                    *)

Carries(h, p) == \E i \in 1 .. Len(h) : h[i].role = "tool" /\ h[i].inject = p
Summed(h) == \E i \in 1 .. Len(h) : h[i] = User("summary")

InResults(p) == \E k \in 1 .. Len(results) : results[k].inject = p
InBatch(p) == \E k \in DOMAIN worker : worker[k] = "done" /\ found[k].inject = p

Cut == Truncates \/ overflowRetried \/ Summed(history)

TakenKept ==
  pc # "closed" => \A p \in Taken : Cut \/ Carries(history, p) \/ InResults(p) \/ InBatch(p)

(* A duplicate has one like it before it; nothing else has.                *)
Duplicates ==
  \A k \in DOMAIN worker :
    worker[k] = "duplicate" <=> \E m \in DOMAIN worker : m < k /\ calls[m].key = calls[k].key

RoundOpen ==
  /\ pc \notin {"act", "save", "batch"} => results = <<>>
  /\ pc = "overflow" => overflowRetried
  /\ pc = "batch" => Duplicates

InjectInv == TakenKept /\ RoundOpen

(* Histories only grow, but for compactions and the end of a turn.         *)
Grows(h, g) == Len(h) <= Len(g) /\ \A i \in 1 .. Len(h) : g[i] = h[i]

LEMMA GrowsKeeps ==
  ASSUME NEW h, NEW g, Len(h) \in Nat, Len(g) \in Nat, Grows(h, g)
  PROVE  /\ Summed(h) => Summed(g)
         /\ \A p : Carries(h, p) => Carries(g, p)
<1>1. 1 .. Len(h) \subseteq 1 .. Len(g)
  BY DEF Grows
<1> QED
  BY <1>1 DEF Grows, Summed, Carries

LEMMA GrowsOn ==
  ASSUME NEW h, NEW f, NEW g, Len(h) \in Nat, Len(f) \in Nat, Len(g) \in Nat,
         Grows(h, f), Grows(f, g)
  PROVE  Grows(h, g)
  BY DEF Grows

LEMMA GrowsByUser ==
  ASSUME NEW h, Sound(h), NEW w \in Texts
  PROVE  Grows(h, Append(h, User(w)))
  BY UserMessage, AppendProperties, LenProperties DEF Grows, Sound

LEMMA GrowsByContext ==
  ASSUME NEW h, Sound(h), NEW g \in WithContext(h)
  PROVE  Grows(h, g)
<1>1. Len(h) \in Nat
  BY LenProperties DEF Sound
<1> QED
  BY <1>1, GrowsByUser DEF WithContext, Texts, Grows

LEMMA GrowsBySeq ==
  ASSUME NEW h, Sound(h), NEW t \in BOOLEAN, NEW ids \in Seq(IdSet), NEW ts \in Seq(Messages)
  PROVE  /\ Grows(h, h \o <<Assistant(t, ids)>> \o ts)
         /\ Len(h) \in Nat /\ Len(h \o <<Assistant(t, ids)>> \o ts) = Len(h) + 1 + Len(ts)
         /\ (h \o <<Assistant(t, ids)>> \o ts)[Len(h) + 1] = Assistant(t, ids)
         /\ \A k \in 1 .. Len(ts) : (h \o <<Assistant(t, ids)>> \o ts)[Len(h) + 1 + k] = ts[k]
<1> DEFINE a == Assistant(t, ids)
           f == h \o <<a>>
           g == f \o ts
<1>1. h \in Seq(Messages) /\ Len(h) \in Nat /\ Len(ts) \in Nat /\ a \in Messages
  BY AssistantMessage, LenProperties DEF Sound
<1> HIDE DEF a
<1>2. <<a>> \in Seq(Messages) /\ Len(<<a>>) = 1 /\ <<a>>[1] = a
  BY <1>1
<1>3. /\ f \in Seq(Messages) /\ Len(f) = Len(h) + 1 /\ f[Len(h) + 1] = a
      /\ \A i \in 1 .. Len(h) : f[i] = h[i]
  BY <1>1, <1>2, ConcatProperties
<1> HIDE DEF f
<1>4. /\ Len(g) = Len(f) + Len(ts)
      /\ \A i \in 1 .. Len(f) + Len(ts) : g[i] = IF i <= Len(f) THEN f[i] ELSE ts[i - Len(f)]
  BY <1>3, ConcatProperties
<1> HIDE DEF g
<1>5. Grows(h, g) /\ g[Len(h) + 1] = a
  BY <1>1, <1>3, <1>4 DEF Grows
<1>6. ASSUME NEW k \in 1 .. Len(ts) PROVE g[Len(h) + 1 + k] = ts[k]
  <2>1. PICK i \in 1 .. Len(h) + 1 + Len(ts) : i = Len(h) + 1 + k
    BY <1>1
  <2>2. ~(i <= Len(f)) /\ i - Len(f) = k /\ i \in 1 .. Len(f) + Len(ts)
    BY <1>1, <1>3, <2>1
  <2> QED
    BY <1>4, <2>1, <2>2
<1> QED
  BY <1>1, <1>3, <1>4, <1>5, <1>6 DEF g, f, a

(* A recorded round: the messages so far, the answer, and a message for    *)
(* the result of each call.                                                *)
WithRound(h, t, cs, rs) == h \o <<Assistant(t, Ids(cs))>> \o ToolMessages(cs, rs)

LEMMA RoundShape ==
  ASSUME NEW h, Sound(h), NEW t \in BOOLEAN, NEW cs \in Seq(CallSet), NEW rs \in Seq(ResultSet),
         Len(rs) = Len(cs),
         NEW g, g = WithRound(h, t, cs, rs)
  PROVE  /\ Grows(h, g) /\ Len(h) \in Nat /\ Len(cs) \in Nat
         /\ Len(g) = Len(h) + 1 + Len(cs)
         /\ g[Len(h) + 1] = Assistant(t, Ids(cs))
         /\ \A k \in 1 .. Len(cs) : g[Len(h) + 1 + k] = Tool(cs[k].id, rs[k])
<1> DEFINE ts == ToolMessages(cs, rs)
<1>1. /\ Len(cs) \in Nat /\ DOMAIN cs = 1 .. Len(cs)
      /\ \A k \in 1 .. Len(cs) : cs[k].id \in IdSet /\ rs[k] \in ResultSet
  <2>1. \A k \in 1 .. Len(cs) : cs[k] \in CallSet /\ rs[k] \in ResultSet
    BY ElementOfSeq
  <2> QED
    BY <2>1, LenProperties DEF CallSet
<1>2. Ids(cs) \in Seq(IdSet)
  <2>1. Ids(cs) \in [1 .. Len(cs) -> IdSet]
    BY <1>1 DEF Ids
  <2> QED
    BY <1>1, <2>1, SeqOfFunction
<1>3. ts = [k \in 1 .. Len(cs) |-> Tool(cs[k].id, rs[k])]
  BY <1>1 DEF ToolMessages
<1>4. ts \in Seq(Messages) /\ Len(ts) = Len(cs)
  <2>1. ts \in [1 .. Len(cs) -> Messages]
    BY <1>1, <1>3, ToolMessage
  <2> QED
    BY <1>1, <2>1, SeqOfFunction
<1> HIDE DEF ts
<1>5. /\ Grows(h, g) /\ Len(h) \in Nat /\ Len(g) = Len(h) + 1 + Len(ts)
      /\ g[Len(h) + 1] = Assistant(t, Ids(cs))
      /\ \A k \in 1 .. Len(ts) : g[Len(h) + 1 + k] = ts[k]
  BY <1>2, <1>4, GrowsBySeq DEF ts, WithRound
<1> QED
  BY <1>1, <1>3, <1>4, <1>5

(* A compaction keeps the messages, or leaves a summary.                   *)
LEMMA CompactedKeeps ==
  ASSUME NEW h, Sound(h), NEW g \in Compacted(h)
  PROVE  Grows(h, g) \/ Summed(g)
<1> DEFINE u == <<User("summary")>>
<1>1. Sound(u) /\ Summed(u) /\ Len(u) = 1
  <2>1. u = Append(<<>>, User("summary"))
    BY UserMessage DEF Texts
  <2>2. Len(u) = 1 /\ u[1] = User("summary")
    OBVIOUS
  <2>3. Sound(u)
    BY <2>1, SoundEmpty, SoundUser DEF Texts
  <2> HIDE DEF u
  <2>4. Summed(u)
    BY <2>2 DEF Summed
  <2> QED
    BY <2>2, <2>3, <2>4
<1>2. \/ g = h
      \/ \E f \in WithContext(u) : g \in WithContext(f)
      \/ \E f \in WithContext(h) : g \in WithContext(f)
  BY DEF Compacted
<1> HIDE DEF u
<1>3. CASE g = h
  <2>1. Len(h) \in Nat
    BY LenProperties DEF Sound
  <2> QED
    BY <1>3, <2>1 DEF Grows
<1>4. ASSUME NEW e, Sound(e), NEW f \in WithContext(e), g \in WithContext(f)
      PROVE  Grows(e, g) /\ Len(e) \in Nat /\ Len(g) \in Nat
  <2>1. Sound(f) /\ Sound(g)
    BY <1>4, SoundContext
  <2>2. Len(e) \in Nat /\ Len(f) \in Nat /\ Len(g) \in Nat
    BY <1>4, <2>1, LenProperties DEF Sound
  <2>3. Grows(e, f) /\ Grows(f, g)
    BY <1>4, <2>1, GrowsByContext
  <2> QED
    BY <2>2, <2>3, GrowsOn
<1> QED
  BY <1>1, <1>2, <1>3, <1>4, GrowsKeeps

(* A recorded round carries what its results carry.                        *)
LEMMA RecordCarries ==
  ASSUME NEW h, Sound(h), NEW t \in BOOLEAN, NEW cs \in Seq(CallSet), NEW rs \in Seq(ResultSet),
         Len(rs) = Len(cs)
  PROVE  /\ Grows(h, h \o <<Assistant(t, Ids(cs))>> \o ToolMessages(cs, rs))
         /\ \A k \in 1 .. Len(rs) :
              Carries(h \o <<Assistant(t, Ids(cs))>> \o ToolMessages(cs, rs), rs[k].inject)
<1> PICK g : g = WithRound(h, t, cs, rs)
  OBVIOUS
<1>1. /\ Grows(h, g) /\ Len(h) \in Nat /\ Len(cs) \in Nat
      /\ Len(g) = Len(h) + 1 + Len(cs)
      /\ \A k \in 1 .. Len(cs) : g[Len(h) + 1 + k] = Tool(cs[k].id, rs[k])
  BY RoundShape
<1>2. ASSUME NEW k \in 1 .. Len(rs) PROVE Carries(g, rs[k].inject)
  <2>1. PICK i \in 1 .. Len(g) : i = Len(h) + 1 + k
    BY <1>1
  <2>2. g[i] = Tool(cs[k].id, rs[k])
    BY <1>1, <2>1
  <2> QED
    BY <2>2 DEF Carries, Tool
<1> QED
  BY <1>1, <1>2 DEF WithRound

-----------------------------------------------------------------------------
LEMMA RoundOpenStep == ASSUME LoopInv, RoundOpen, [Next]_vars PROVE RoundOpen'
<1> USE DEF LoopInv, RoundOpen
<1>1. CASE UNCHANGED <<pc, answer, batch, turn>>
  BY <1>1 DEF answer, batch, turn, Duplicates
<1>2. CASE StartBatch
  <2>1. /\ pc' = "batch" /\ UNCHANGED calls /\ DOMAIN worker' = BatchFrom(next)
        /\ \A k \in BatchFrom(next) : worker'[k] = "duplicate" <=>
              \E m \in BatchFrom(next) : m < k /\ calls[m].key = calls[k].key
    BY <1>2 DEF StartBatch, answer
  <2> QED
    BY <2>1 DEF Duplicates
<1>3. ASSUME NEW k \in DOMAIN worker, Call(k) PROVE RoundOpen'
  <2>1. /\ pc = "batch" /\ UNCHANGED <<pc, answer>> /\ worker[k] # "duplicate"
        /\ \E l \in {"preTool", "exec", "postTool", "done"} : worker' = [worker EXCEPT ![k] = l]
    BY <1>3 DEF Call, ExecOne, PreTool, ExecReturn, PostTool, at, Goto, Finish
  <2>2. PICK l \in {"preTool", "exec", "postTool", "done"} : worker' = [worker EXCEPT ![k] = l]
    BY <2>1
  <2>3. /\ DOMAIN worker' = DOMAIN worker
        /\ \A j \in DOMAIN worker : worker'[j] = "duplicate" <=> worker[j] = "duplicate"
    BY <2>1, <2>2
  <2> QED
    BY <2>1, <2>3 DEF Duplicates, answer
<1>4. ASSUME pc' \notin {"batch", "overflow"}, pc' \in {"act", "save"} \/ results' = <<>>
      PROVE  RoundOpen'
  BY <1>4
<1>5. ASSUME \/ BackendError \/ StreamEnds \/ Wait \/ AnswerRejected \/ NoCompact
             \/ StartCompact \/ EndCompact \/ RunAgain \/ OverflowCompactFails \/ EndTurn
      PROVE  pc' \notin {"batch", "overflow"} /\ results' = <<>>
  BY <1>5 DEF BackendError, StreamEnds, Wait, AnswerRejected, NoCompact, StartCompact,
     EndCompact, NextRound, RunAgain, OverflowCompactFails, EndTurn, Return, Retry, answer
<1>6. ASSUME Answer \/ ActCancelled \/ EndBatch PROVE pc' \in {"act", "save"}
  BY <1>6 DEF Answer, ActCancelled, EndBatch
<1>7. ASSUME Save PROVE pc' \in {"ended", "round"} /\ results' = <<>>
  BY <1>7 DEF Save, Return, Forget
<1>8. CASE Rollback
  BY <1>8 DEF Rollback, answer
<1>9. ASSUME UNCHANGED vars \/ Cancel \/ \E p \in Injects : Inject(p)
      PROVE  UNCHANGED <<pc, answer, batch, turn>>
  BY <1>9 DEF vars, Cancel, Inject
<1> QED
  BY <1>1, <1>2, <1>3, <1>4, <1>5, <1>6, <1>7, <1>8, <1>9 DEF Next, Run

(* What is kept when the history grows and the batch and its results stay. *)
LEMMA GrowthKeeps ==
  ASSUME LoopInv, TakenKept, pc # "closed", Taken' = Taken, UNCHANGED overflowRetried,
         Sound(history'), Grows(history, history') \/ Summed(history'),
         \A p \in Taken : InResults(p) => InResults(p)' \/ Carries(history', p),
         \A p \in Taken : InBatch(p) => InBatch(p)' \/ InResults(p)'
  PROVE  TakenKept'
<1>1. Len(history) \in Nat /\ Len(history') \in Nat
  BY LenProperties DEF LoopInv, Histories, Sound
<1>2. Cut => Cut'
  BY <1>1, GrowsKeeps DEF Cut
<1>3. \A p \in Taken : Carries(history, p) => Cut' \/ Carries(history', p)
  BY <1>1, GrowsKeeps DEF Cut
<1> SUFFICES ASSUME NEW p \in Taken
             PROVE  Cut' \/ Carries(history', p) \/ InResults(p)' \/ InBatch(p)'
  BY DEF TakenKept
<1>4. Cut \/ Carries(history, p) \/ InResults(p) \/ InBatch(p)
  BY DEF TakenKept
<1> QED
  BY <1>2, <1>3, <1>4

LEMMA TakenKeptStep ==
  ASSUME LoopInv, LoopInv', InjectInv, [Next]_vars, pc # "closed", pc' # "closed"
  PROVE  TakenKept'
<1> USE DEF InjectInv
<1>0. /\ Sound(history) /\ Sound(history') /\ Len(history) \in Nat
      /\ results \in Seq(ResultSet) /\ Len(results) \in Nat
  BY LenProperties DEF LoopInv, Histories, Answered, Sound
<1>1. Grows(history, history)
  BY <1>0 DEF Grows
(* Neither the session nor the round changes.                              *)
<1>2. ASSUME UNCHANGED <<history, results, batch, overflowRetried>>, Taken' = Taken
      PROVE  TakenKept'
  <2>1. \A p : (InResults(p) => InResults(p)') /\ (InBatch(p) => InBatch(p)')
    BY <1>2 DEF InResults, InBatch, batch
  <2> QED
    BY <1>0, <1>1, <1>2, <2>1, GrowthKeeps
<1>3. ASSUME \/ UNCHANGED vars \/ BackendError \/ Wait \/ Answer \/ AnswerRejected \/ NoCompact
             \/ StartCompact \/ Cancel
      PROVE  UNCHANGED <<history, results, batch, overflowRetried>> /\ Taken' = Taken
  <2>1. UNCHANGED <<history, batch, overflowRetried, inbox>>
    BY <1>3 DEF vars, turn, BackendError, Wait, Answer, AnswerRejected, NoCompact, StartCompact,
       Cancel
  <2>2. UNCHANGED results
    BY <1>3 DEF vars, answer, BackendError, Wait, Answer, AnswerRejected, NoCompact,
       StartCompact, Cancel, RoundOpen
  <2> QED
    BY <2>1, <2>2 DEF inbox, Taken
<1>4. ASSUME NEW p \in Injects, Inject(p)
      PROVE  UNCHANGED <<history, results, batch, overflowRetried>> /\ Taken' = Taken
  BY <1>4, LoopAssumption DEF Inject, answer, turn, Taken, LoopInv, RunInv
<1>5. CASE StartBatch
  <2>1. /\ UNCHANGED <<history, results, overflowRetried, inbox>> /\ pc = "act"
    BY <1>5 DEF StartBatch, answer, turn
  <2>2. DOMAIN worker = {} /\ Taken' = Taken
    BY <2>1 DEF LoopInv, Batched, inbox, Taken
  <2>3. \A p : (InResults(p) => InResults(p)') /\ ~InBatch(p)
    BY <2>1, <2>2 DEF InResults, InBatch
  <2> QED
    BY <1>0, <1>1, <2>1, <2>2, <2>3, GrowthKeeps
<1>6. CASE StreamEnds
  <2>1. /\ UNCHANGED <<results, batch, inbox, overflowRetried>>
        /\ history' = history \/ \E keys \in Responses, kind \in IdKinds, text \in BOOLEAN :
             history' = history \o <<Assistant(text, Ids(Calls(keys, kind)))>>
                          \o ToolMessages(Calls(keys, kind), Cancelled(Calls(keys, kind)))
    BY <1>6 DEF StreamEnds, answer, turn
  <2>2. ASSUME NEW keys \in Responses, NEW kind \in IdKinds, NEW text \in BOOLEAN
        PROVE  Grows(history, history \o <<Assistant(text, Ids(Calls(keys, kind)))>>
                                \o ToolMessages(Calls(keys, kind), Cancelled(Calls(keys, kind))))
    <3>1. Calls(keys, kind) \in Seq(CallSet)
      BY CallsTyped DEF LoopInv, Counts
    <3>2. /\ Cancelled(Calls(keys, kind)) \in Seq(ResultSet)
          /\ Len(Cancelled(Calls(keys, kind))) = Len(Calls(keys, kind))
      BY <3>1, CancelledTyped
    <3> QED
      BY <1>0, <3>1, <3>2, RecordCarries
  <2>3. Grows(history, history')
    BY <1>1, <2>1, <2>2
  <2>4. \A p : (InResults(p) => InResults(p)') /\ (InBatch(p) => InBatch(p)')
    BY <2>1 DEF InResults, InBatch, batch
  <2>5. Taken' = Taken
    BY <2>1 DEF inbox, Taken
  <2> QED
    BY <1>0, <2>1, <2>3, <2>4, <2>5, GrowthKeeps
<1>7. CASE ActCancelled
  <2> DEFINE rest == SubSeq(calls, next, Len(calls))
  <2>1. /\ UNCHANGED <<history, batch, inbox, overflowRetried>>
        /\ results' = results \o Cancelled(rest)
    BY <1>7 DEF ActCancelled, turn
  <2>2. next \in 1 .. Len(calls) + 1 /\ calls \in Seq(CallSet) /\ Len(calls) \in Nat
    BY LenProperties DEF LoopInv, Answered
  <2>3. Cancelled(rest) \in Seq(ResultSet) /\ Len(Cancelled(rest)) \in Nat
    <3>1. rest \in Seq(CallSet)
      BY <2>2, SubSeqProperties
    <3> QED
      BY <3>1, CancelledTyped, LenProperties
  <2> HIDE DEF rest
  <2>4. Len(results) <= Len(results') /\ \A k \in 1 .. Len(results) : results'[k] = results[k]
    BY <1>0, <2>1, <2>3, ConcatProperties
  <2>5. Len(results') \in Nat
    BY LenProperties DEF LoopInv, Answered
  <2>6. \A p : (InResults(p) => InResults(p)') /\ (InBatch(p) => InBatch(p)')
    BY <1>0, <2>1, <2>4, <2>5 DEF InResults, InBatch, batch
  <2>7. Taken' = Taken
    BY <2>1 DEF inbox, Taken
  <2> QED
    BY <1>0, <1>1, <2>1, <2>6, <2>7, GrowthKeeps
<1>8. CASE EndBatch
  <2> DEFINE last == next + Cardinality(DOMAIN worker) - 1
             outs == [k \in 1 .. last + 1 - next |-> found[First(next + k - 1)]]
             rest == SubSeq(calls, last + 1, Len(calls))
  <2>1. /\ pc = "batch" /\ UNCHANGED <<history, inbox, overflowRetried>>
        /\ \/ results' = results \o outs \o Cancelled(rest)
           \/ results' = results \o outs
    BY <1>8 DEF EndBatch, turn
  <2>2. /\ next \in 1 .. Len(calls) + 1 /\ next <= Len(calls) /\ calls \in Seq(CallSet)
        /\ Len(calls) \in Nat
    BY <2>1, LenProperties DEF LoopInv, Answered
  <2>3. PICK m \in next .. Len(calls) : BatchFrom(next) = next .. m
    BY <2>2, BatchInterval
  <2>4. /\ DOMAIN worker = next .. m /\ DOMAIN worker \in SUBSET Nat
        /\ found \in [DOMAIN worker -> ResultSet]
    BY <2>1, <2>2, <2>3 DEF LoopInv, Batched
  <2>5. last = m
    BY <2>2, <2>3, <2>4, FS_Interval
  <2>6. outs \in Seq(ResultSet) /\ Len(outs) = m + 1 - next
    <3>1. m + 1 - next \in Nat /\ \A k \in 1 .. m + 1 - next : next + k - 1 \in DOMAIN worker
      BY <2>2, <2>3, <2>4
    <3>2. \A k \in 1 .. m + 1 - next : found[First(next + k - 1)] \in ResultSet
      BY <2>4, <3>1, FirstInBatch
    <3>3. outs \in [1 .. m + 1 - next -> ResultSet]
      BY <2>5, <3>2
    <3> HIDE DEF outs
    <3> QED
      BY <3>1, <3>3, SeqOfFunction
  <2>7. Cancelled(rest) \in Seq(ResultSet) /\ Len(Cancelled(rest)) \in Nat
    <3>1. last + 1 \in 1 .. Len(calls) + 1
      BY <2>2, <2>3, <2>5
    <3>2. rest \in Seq(CallSet)
      BY <2>2, <3>1, SubSeqProperties
    <3> QED
      BY <3>2, CancelledTyped, LenProperties
  (* What a call that is done has found is its own result.                 *)
  <2>8. ASSUME NEW k \in DOMAIN worker, worker[k] = "done"
        PROVE  k + 1 - next \in 1 .. Len(outs) /\ outs[k + 1 - next] = found[k]
    <3>1. First(k) = k
      <4>1. \A n \in DOMAIN worker : calls[n].key = calls[k].key => k <= n
        BY <2>1, <2>4, <2>8 DEF RoundOpen, Duplicates
      <4>2. \A j \in DOMAIN worker :
              /\ calls[j].key = calls[k].key
              /\ \A n \in DOMAIN worker : calls[n].key = calls[k].key => j <= n
              => j = k
        BY <2>4, <4>1
      <4> QED
        BY <4>1, <4>2 DEF First
    <3>2. k + 1 - next \in 1 .. m + 1 - next /\ next + (k + 1 - next) - 1 = k
      BY <2>2, <2>3, <2>4
    <3> QED
      BY <2>5, <2>6, <3>1, <3>2
  <2> HIDE DEF last, outs, rest
  <2>9. /\ results \o outs \in Seq(ResultSet) /\ Len(results \o outs) = Len(results) + Len(outs)
        /\ \A k \in 1 .. Len(results) + Len(outs) :
             (results \o outs)[k] = IF k <= Len(results) THEN results[k]
                                    ELSE outs[k - Len(results)]
    BY <1>0, <2>6, ConcatProperties
  <2>10. /\ Len(results \o outs) <= Len(results')
         /\ \A k \in 1 .. Len(results \o outs) : results'[k] = (results \o outs)[k]
    <3>1. Len(results \o outs) \in Nat
      BY <2>9, LenProperties
    <3>2. CASE results' = results \o outs
      BY <3>1, <3>2
    <3>3. CASE results' = results \o outs \o Cancelled(rest)
      BY <2>7, <2>9, <3>1, <3>3, ConcatProperties
    <3> QED
      BY <2>1, <3>2, <3>3
  <2>11. Len(outs) \in Nat /\ Len(results') \in Nat
    BY <2>6, LenProperties DEF LoopInv, Answered
  <2>12. ASSUME NEW p, InResults(p) PROVE InResults(p)'
    <3>1. PICK k \in 1 .. Len(results) : results[k].inject = p
      BY <2>12 DEF InResults
    <3>2. k \in 1 .. Len(results \o outs) /\ (results \o outs)[k] = results[k]
      BY <1>0, <2>9, <2>11
    <3>3. k \in 1 .. Len(results') /\ results'[k] = results[k]
      BY <2>9, <2>10, <2>11, <3>2
    <3> QED
      BY <3>1, <3>3 DEF InResults
  <2>13. ASSUME NEW p, InBatch(p) PROVE InResults(p)'
    <3>1. PICK k \in DOMAIN worker : worker[k] = "done" /\ found[k].inject = p
      BY <2>13 DEF InBatch
    <3>2. PICK l \in 1 .. Len(outs) : outs[l] = found[k]
      BY <2>8, <3>1
    <3>3. PICK i \in 1 .. Len(results) + Len(outs) : i = Len(results) + l
      BY <1>0, <2>11
    <3>4. (results \o outs)[i] = found[k]
      <4>1. ~(i <= Len(results)) /\ i - Len(results) = l
        BY <1>0, <2>11, <3>3
      <4> QED
        BY <2>9, <3>2, <4>1
    <3>5. i \in 1 .. Len(results') /\ results'[i] = found[k]
      BY <1>0, <2>9, <2>10, <2>11, <3>4
    <3> QED
      BY <3>1, <3>5 DEF InResults
  <2>14. Taken' = Taken
    BY <2>1 DEF inbox, Taken
  <2> QED
    BY <1>0, <1>1, <2>1, <2>12, <2>13, <2>14, GrowthKeeps
<1>9. CASE Save
  <2>1. Len(results) = Len(calls) /\ said \in BOOLEAN /\ calls \in Seq(CallSet)
    <3>1. Len(calls) \in Nat
      BY LenProperties DEF LoopInv, Answered
    <3>2. next = Len(calls) + 1
      BY <1>9, <3>1 DEF Save, LoopInv, Answered
    <3> QED
      BY <3>1, <3>2 DEF LoopInv, Answered
  <2>2. /\ Grows(history, Recorded)
        /\ \A k \in 1 .. Len(results) : Carries(Recorded, results[k].inject)
    BY <1>0, <2>1, RecordCarries DEF Recorded
  <2>3. Sound(Recorded)
    BY <1>0, <2>1, SoundRecord DEF Recorded
  <2> DEFINE n == WithNudge(Recorded)
             b == Append(n, User("budget"))
             q == Append(n, User("plan"))
  <2>4. Sound(n) /\ Sound(b) /\ Sound(q)
    <3>1. Sound(n)
      BY <2>3, SoundUser DEF WithNudge, Texts
    <3> HIDE DEF n
    <3> QED
      BY <3>1, SoundUser DEF Texts
  <2>5. Len(Recorded) \in Nat /\ Len(n) \in Nat /\ Len(b) \in Nat /\ Len(q) \in Nat
    <3> HIDE DEF n, b, q
    <3> QED
      BY <2>3, <2>4, LenProperties DEF Sound
  <2>6. Grows(Recorded, Recorded) /\ Grows(Recorded, n)
    BY <2>3, <2>5, GrowsByUser DEF WithNudge, Texts, Grows
  <2>7. Grows(n, b) /\ Grows(n, q)
    <3> HIDE DEF n
    <3> QED
      BY <2>4, GrowsByUser DEF Texts
  <2>8. history' = Recorded \/ history' = n \/ history' = b \/ history' = q
    BY <1>9 DEF Save
  <2> HIDE DEF n, b, q, Recorded
  <2>9. Grows(Recorded, b) /\ Grows(Recorded, q)
    BY <2>5, <2>6, <2>7, GrowsOn
  <2>10. Grows(Recorded, history') /\ Len(history') \in Nat
    BY <2>5, <2>6, <2>8, <2>9
  <2>11. Grows(history, history')
    BY <1>0, <2>2, <2>5, <2>10, GrowsOn
  <2>12. \A p : InResults(p) => Carries(history', p)
    BY <2>2, <2>5, <2>10, GrowsKeeps DEF InResults
  <2>13. UNCHANGED <<batch, inbox, overflowRetried>>
    BY <1>9 DEF Save, turn
  <2>14. Taken' = Taken /\ \A p : InBatch(p) => InBatch(p)'
    BY <2>13 DEF inbox, Taken, InBatch, batch
  <2> QED
    BY <1>0, <2>11, <2>12, <2>13, <2>14, GrowthKeeps
<1>10. CASE EndCompact
  <2>1. /\ UNCHANGED <<results, batch, inbox, overflowRetried>>
        /\ history' \in Compacted(history) \/ history' \in WithContext(history)
    BY <1>10 DEF EndCompact, CompactionFails, answer, turn
  <2>2. Grows(history, history') \/ Summed(history')
    BY <1>0, <2>1, CompactedKeeps, GrowsByContext
  <2>3. \A p : (InResults(p) => InResults(p)') /\ (InBatch(p) => InBatch(p)')
    BY <2>1 DEF InResults, InBatch, batch
  <2>4. Taken' = Taken
    BY <2>1 DEF inbox, Taken
  <2> QED
    BY <1>0, <2>1, <2>2, <2>3, <2>4, GrowthKeeps
<1>11. CASE Rollback \/ RunAgain \/ OverflowCompactFails
  <2>1. overflowRetried' = TRUE
    BY <1>11 DEF Rollback, RunAgain, OverflowCompactFails, RoundOpen, turn, LoopInv, RunInv
  <2> QED
    BY <2>1 DEF TakenKept, Cut
<1>12. CASE EndTurn
  BY <1>12 DEF EndTurn
(* A call that ends may take the pending inject.                           *)
<1>13. ASSUME NEW k \in DOMAIN worker, Call(k) PROVE TakenKept'
  <2>1. /\ pc = "batch" /\ worker[k] # "done"
        /\ UNCHANGED <<history, results, injected, overflowRetried>>
    BY <1>13 DEF Call, ExecOne, PreTool, ExecReturn, PostTool, at, answer, inbox, turn
  <2>2. ASSUME NEW j \in DOMAIN worker, j # k
        PROVE  j \in DOMAIN worker' /\ worker'[j] = worker[j] /\ found'[j] = found[j]
    BY <1>13, <2>1, <2>2 DEF Call, ExecOne, PreTool, ExecReturn, PostTool, Goto, Finish,
       LoopInv, Batched
  <2>3. \A p : (InResults(p) => InResults(p)') /\ (InBatch(p) => InBatch(p)')
    BY <2>1, <2>2 DEF InResults, InBatch
  <2>4. CASE UNCHANGED pendingInject
    <3>1. Taken' = Taken
      BY <2>1, <2>4 DEF Taken
    <3> QED
      BY <1>0, <1>1, <2>1, <2>3, <3>1, GrowthKeeps
  <2>5. CASE /\ pendingInject' = Null
             /\ Truncates \/ \E kind : Finish(k, Result(kind, pendingInject))
    <3>1. Taken' \subseteq Taken \cup {pendingInject}
      BY <2>1, <2>5 DEF Taken
    <3>2. Truncates \/ InBatch(pendingInject)
          \/ \E j \in DOMAIN worker' : worker'[j] = "done" /\ found'[j].inject = pendingInject
      <4>1. ASSUME NEW kind, Finish(k, Result(kind, pendingInject))
            PROVE  k \in DOMAIN worker' /\ worker'[k] = "done" /\ found'[k].inject = pendingInject
        BY <2>1, <4>1 DEF Finish, Result, LoopInv, Batched
      <4> QED
        BY <2>5, <4>1
    <3>3. \A p : p = pendingInject => Truncates \/ InBatch(p)'
      BY <2>3, <3>2 DEF InBatch
    <3> SUFFICES ASSUME NEW p \in Taken'
                 PROVE  Cut' \/ Carries(history', p) \/ InResults(p)' \/ InBatch(p)'
      BY DEF TakenKept
    <3>4. CASE p = pendingInject
      BY <3>3, <3>4 DEF Cut
    <3>5. CASE p \in Taken
      BY <2>1, <2>3, <3>5 DEF TakenKept, Cut
    <3> QED
      BY <3>1, <3>4, <3>5
  <2>6. ASSUME ExecOne(k) \/ PreTool(k) PROVE UNCHANGED pendingInject
    BY <2>6 DEF ExecOne, PreTool, inbox
  <2>7. ASSUME ExecReturn(k)
        PROVE  \/ UNCHANGED pendingInject
               \/ pendingInject' = Null /\ \E kind : Finish(k, Result(kind, pendingInject))
    BY <2>7 DEF ExecReturn
  <2>8. ASSUME PostTool(k)
        PROVE  /\ pendingInject' = Null
               /\ Truncates \/ \E kind : Finish(k, Result(kind, pendingInject))
    <3>1. PICK cut \in {FALSE} \cup (IF found[k].kind # "error" THEN {Truncates} ELSE {}) :
            Finish(k, Result(found[k].kind, IF cut THEN Null ELSE pendingInject))
      BY <2>8 DEF PostTool
    <3>2. CASE Truncates
      BY <2>8, <3>2 DEF PostTool
    <3>3. CASE ~Truncates
      <4>1. ~cut
        BY <3>3
      <4>2. Finish(k, Result(found[k].kind, pendingInject))
        BY <3>1, <4>1
      <4> QED
        BY <2>8, <4>2 DEF PostTool
    <3> QED
      BY <3>2, <3>3
  <2> QED
    BY <1>13, <2>4, <2>5, <2>6, <2>7, <2>8 DEF Call
<1> QED
  BY <1>2, <1>3, <1>4, <1>5, <1>6, <1>7, <1>8, <1>9, <1>10, <1>11, <1>12, <1>13 DEF Next, Run

(* What a tool result has taken is in the session when run returns: no way *)
(* out of a round drops the results it has (loop.go:222-330).              *)
THEOREM InjectsSurvive == Spec => []InjectsSurviveRun
<1>1. Init => InjectInv
  BY LoopAssumption DEF Init, InjectInv, TakenKept, RoundOpen, Taken
<1>2. LoopInv /\ LoopInv' /\ InjectInv /\ [Next]_vars => InjectInv'
  <2> SUFFICES ASSUME LoopInv, LoopInv', InjectInv, [Next]_vars PROVE InjectInv'
    OBVIOUS
  <2>1. RoundOpen'
    BY RoundOpenStep DEF InjectInv
  <2>2. CASE pc = "closed" \/ pc' = "closed"
    <3>1. pc = "closed" => pc' = "closed"
      BY DEF Next, Run, vars, BackendError, StreamEnds, Wait, Answer, AnswerRejected,
         ActCancelled, StartBatch, EndBatch, Save, NoCompact, StartCompact, EndCompact, Rollback,
         RunAgain, OverflowCompactFails, EndTurn, Cancel, Inject, Running, Call, ExecOne,
         PreTool, ExecReturn, PostTool, at
    <3> QED
      BY <2>1, <2>2, <3>1 DEF InjectInv, TakenKept
  <2>3. CASE pc # "closed" /\ pc' # "closed"
    BY <2>1, <2>3, TakenKeptStep DEF InjectInv
  <2> QED
    BY <2>2, <2>3
<1>3. LoopInv /\ InjectInv => InjectsSurviveRun
  <2> SUFFICES ASSUME LoopInv, InjectInv, pc = "ended", ~Forgotten, ~Truncates,
                      NEW p \in Taken
               PROVE  p \in Carried
    BY DEF InjectsSurviveRun
  <2>1. DOMAIN history = 1 .. Len(history)
    BY LenProperties DEF LoopInv, Histories, Sound
  <2>2. ~Cut
    BY <2>1 DEF Forgotten, Cut, Summed
  <2>3. results = <<>> /\ DOMAIN worker = {}
    BY DEF InjectInv, RoundOpen, LoopInv, Batched
  <2>4. ~InResults(p) /\ ~InBatch(p)
    BY <2>3 DEF InResults, InBatch
  <2>5. Carries(history, p)
    BY <2>2, <2>4 DEF InjectInv, TakenKept
  <2> QED
    BY <2>1, <2>5 DEF Carries, Carried
<1> QED
  BY <1>1, <1>2, <1>3, LoopSafety, PTL DEF Spec

-----------------------------------------------------------------------------
(* Nudges.  After a nudge the counter is at the limit or past it, until a  *)
(* result that is no error is recorded.                                    *)

Nudge == User("nudge")
Works(m) == m.role = "tool" /\ m.kind # "error"

Streaks(h) ==
  \A i, j \in 1 .. Len(h) :
    i < j /\ h[i] = Nudge /\ h[j] = Nudge => \E m \in i .. j : Works(h[m])
Settled(h) == \A i \in 1 .. Len(h) : h[i] = Nudge => \E m \in i .. Len(h) : Works(h[m])

NudgeInv ==
  /\ Settled(snapMessages) /\ Streaks(snapMessages)
  /\ pc = "overflow" => Settled(history)
  /\ pc # "closed" => Streaks(history) /\ (consecutiveErrors < SoftLimit => Settled(history))

LEMMA QuietGrowth ==
  ASSUME NEW h, NEW g, Len(h) \in Nat, Len(g) \in Nat, Grows(h, g),
         \A i \in Len(h) + 1 .. Len(g) : g[i] # Nudge
  PROVE  (Streaks(h) => Streaks(g)) /\ (Settled(h) => Settled(g))
<1>1. \A i \in 1 .. Len(g) : g[i] = Nudge => i \in 1 .. Len(h) /\ h[i] = Nudge
  BY DEF Grows
<1>2. \A i \in 1 .. Len(h) : i \in 1 .. Len(g) /\ g[i] = h[i]
  BY DEF Grows
<1>3. ASSUME NEW i \in 1 .. Len(h), NEW j \in 1 .. Len(h), NEW m \in i .. j, Works(h[m])
      PROVE  m \in i .. Len(g) /\ Works(g[m])
  <2>1. m \in 1 .. Len(h) /\ m <= Len(g)
    BY <1>2
  <2> QED
    BY <1>2, <1>3, <2>1
<1>4. ASSUME Streaks(h) PROVE Streaks(g)
  <2> SUFFICES ASSUME NEW i \in 1 .. Len(g), NEW j \in 1 .. Len(g), i < j,
                      g[i] = Nudge, g[j] = Nudge
               PROVE  \E m \in i .. j : Works(g[m])
    BY DEF Streaks
  <2>1. i \in 1 .. Len(h) /\ j \in 1 .. Len(h) /\ h[i] = Nudge /\ h[j] = Nudge
    BY <1>1
  <2>2. PICK m \in i .. j : Works(h[m])
    BY <1>4, <2>1 DEF Streaks
  <2> QED
    BY <1>3, <2>1, <2>2
<1>5. ASSUME Settled(h) PROVE Settled(g)
  <2> SUFFICES ASSUME NEW i \in 1 .. Len(g), g[i] = Nudge
               PROVE  \E m \in i .. Len(g) : Works(g[m])
    BY DEF Settled
  <2>1. i \in 1 .. Len(h) /\ h[i] = Nudge
    BY <1>1
  <2>2. PICK m \in i .. Len(h) : Works(h[m])
    BY <1>5, <2>1 DEF Settled
  <2>3. Len(h) \in 1 .. Len(h)
    BY <2>1
  <2> QED
    BY <1>3, <2>1, <2>2, <2>3
<1> QED
  BY <1>4, <1>5

LEMMA QuietUser ==
  ASSUME NEW h, Sound(h), NEW w \in Texts \ {"nudge"}
  PROVE  /\ Streaks(h) => Streaks(Append(h, User(w)))
         /\ Settled(h) => Settled(Append(h, User(w)))
<1>0. PICK g : g = Append(h, User(w))
  OBVIOUS
<1>1. h \in Seq(Messages) /\ Len(h) \in Nat /\ User(w) \in Messages /\ User(w) # Nudge
  BY UserMessage, LenProperties DEF Sound, User, Nudge
<1>2. Len(g) = Len(h) + 1 /\ g[Len(h) + 1] = User(w)
  BY <1>0, <1>1, AppendProperties
<1>3. Grows(h, g)
  BY <1>0, GrowsByUser
<1>4. \A i \in Len(h) + 1 .. Len(g) : i = Len(h) + 1
  BY <1>1, <1>2
<1>5. \A i \in Len(h) + 1 .. Len(g) : g[i] # Nudge
  BY <1>1, <1>2, <1>4
<1>6. Len(g) \in Nat
  BY <1>1, <1>2
<1>7. (Streaks(h) => Streaks(g)) /\ (Settled(h) => Settled(g))
  BY <1>1, <1>3, <1>5, <1>6, QuietGrowth
<1> QED
  BY <1>0, <1>7

LEMMA NudgeSettled ==
  ASSUME NEW h, Sound(h), Streaks(h), Settled(h)
  PROVE  Streaks(Append(h, Nudge))
<1> PICK g : g = Append(h, Nudge)
  OBVIOUS
<1>1. h \in Seq(Messages) /\ Len(h) \in Nat /\ Nudge \in Messages
  BY UserMessage, LenProperties DEF Sound, Nudge, Texts
<1>2. Len(g) = Len(h) + 1 /\ \A i \in 1 .. Len(h) : g[i] = h[i]
  BY <1>1, AppendProperties
<1> SUFFICES ASSUME NEW i \in 1 .. Len(g), NEW j \in 1 .. Len(g), i < j,
                    g[i] = Nudge, g[j] = Nudge
             PROVE  \E m \in i .. j : Works(g[m])
  BY DEF Streaks
<1>3. i \in 1 .. Len(h) /\ h[i] = Nudge
  BY <1>1, <1>2
<1>4. CASE j = Len(h) + 1
  <2>1. PICK m \in i .. Len(h) : Works(h[m])
    BY <1>3 DEF Settled
  <2>2. m \in 1 .. Len(h) /\ m \in i .. j
    BY <1>1, <1>3, <1>4, <2>1
  <2> QED
    BY <1>2, <2>1, <2>2
<1>5. CASE j # Len(h) + 1
  <2>1. j \in 1 .. Len(h) /\ h[j] = Nudge
    BY <1>1, <1>2, <1>5
  <2>2. PICK m \in i .. j : Works(h[m])
    BY <1>3, <2>1 DEF Streaks
  <2>3. m \in 1 .. Len(h)
    BY <1>1, <1>3, <2>1, <2>2
  <2> QED
    BY <1>2, <2>2, <2>3
<1> QED
  BY <1>4, <1>5

LEMMA QuietContext ==
  ASSUME NEW h, Sound(h), NEW g \in WithContext(h)
  PROVE  (Streaks(h) => Streaks(g)) /\ (Settled(h) => Settled(g))
  BY QuietUser DEF WithContext, Texts

LEMMA QuietEmpty == Streaks(<<>>) /\ Settled(<<>>)
  BY EmptySeq DEF Streaks, Settled

LEMMA QuietCompacted ==
  ASSUME NEW h, Sound(h), NEW g \in Compacted(h)
  PROVE  (Streaks(h) => Streaks(g)) /\ (Settled(h) => Settled(g))
<1> PICK u : u = <<User("summary")>>
  OBVIOUS
<1>1. Sound(u) /\ Streaks(u) /\ Settled(u)
  <2>1. u = Append(<<>>, User("summary"))
    BY UserMessage DEF Texts
  <2> QED
    BY <2>1, SoundEmpty, SoundUser, QuietEmpty, QuietUser DEF Texts
<1>2. \/ g = h
      \/ \E f \in WithContext(u) : g \in WithContext(f)
      \/ \E f \in WithContext(h) : g \in WithContext(f)
  BY DEF Compacted
<1> QED
  BY <1>1, <1>2, QuietContext, SoundContext

LEMMA QuietRound ==
  ASSUME NEW h, Sound(h), NEW t \in BOOLEAN, NEW cs \in Seq(CallSet), NEW rs \in Seq(ResultSet),
         Len(rs) = Len(cs),
         NEW g, g = WithRound(h, t, cs, rs)
  PROVE  /\ Streaks(h) => Streaks(g)
         /\ Settled(h) => Settled(g)
         /\ (\E k \in 1 .. Len(rs) : rs[k].kind # "error") => Settled(g)
<1>1. /\ Grows(h, g) /\ Len(h) \in Nat /\ Len(cs) \in Nat
      /\ Len(g) = Len(h) + 1 + Len(cs)
      /\ g[Len(h) + 1] = Assistant(t, Ids(cs))
      /\ \A k \in 1 .. Len(cs) : g[Len(h) + 1 + k] = Tool(cs[k].id, rs[k])
  BY RoundShape
<1>2. ASSUME NEW i \in Len(h) + 1 .. Len(g) PROVE g[i] # Nudge
  <2>1. CASE i = Len(h) + 1
    BY <1>1, <2>1 DEF Assistant, Nudge, User
  <2>2. CASE i # Len(h) + 1
    <3>1. i - Len(h) - 1 \in 1 .. Len(cs) /\ i = Len(h) + 1 + (i - Len(h) - 1)
      BY <1>1, <2>2
    <3>2. PICK k \in 1 .. Len(cs) : i = Len(h) + 1 + k
      BY <3>1
    <3>3. g[i] = Tool(cs[k].id, rs[k])
      BY <1>1, <3>2
    <3> QED
      BY <3>3 DEF Tool, Nudge, User
  <2> QED
    BY <2>1, <2>2
<1>3. (Streaks(h) => Streaks(g)) /\ (Settled(h) => Settled(g))
  BY <1>1, <1>2, QuietGrowth
<1>4. ASSUME NEW k \in 1 .. Len(rs), rs[k].kind # "error" PROVE Settled(g)
  <2> SUFFICES ASSUME NEW i \in 1 .. Len(g), g[i] = Nudge
               PROVE  \E m \in i .. Len(g) : Works(g[m])
    BY DEF Settled
  <2>1. i <= Len(h)
    BY <1>1, <1>2
  <2>2. PICK m \in i .. Len(g) : m = Len(h) + 1 + k
    BY <1>1, <2>1
  <2>3. g[m] = Tool(cs[k].id, rs[k])
    BY <1>1, <2>2
  <2> QED
    BY <1>4, <2>3 DEF Works, Tool
<1> QED
  BY <1>3, <1>4

LEMMA QuietOld == ASSUME NEW g \in OldRounds PROVE Streaks(g) /\ Settled(g)
<1>0. PICK id \in IdSet, s \in Kinds \ Interrupted :
        /\ g = <<User("prompt"), Assistant(FALSE, <<id>>), Tool(id, Result(s, Null)),
                 Assistant(TRUE, <<>>)>>
        /\ OwnId(id) => id = <<"own", 0, 1>>
  BY OldShape
<1> DEFINE a == Assistant(FALSE, <<id>>)
           r == Tool(id, Result(s, Null))
           e == Assistant(TRUE, <<>>)
           p == User("prompt")
<1>1. p # Nudge /\ a # Nudge /\ r # Nudge /\ e # Nudge
  BY DEF User, Assistant, Tool, Nudge
<1>2. g = <<p, a, r, e>>
  BY <1>0
<1> HIDE DEF p, a, r, e
<1>3. /\ Len(g) = 4 /\ g[1] = p /\ g[2] = a
      /\ g[3] = r /\ g[4] = e
  BY <1>2
<1>4. \A i \in 1 .. 4 : g[i] # Nudge
  BY <1>1, <1>3
<1> QED
  BY <1>3, <1>4 DEF Streaks, Settled

LEMMA NudgeInit == Init => NudgeInv
<1> SUFFICES ASSUME Init PROVE NudgeInv
  OBVIOUS
<1> USE DEF Init
<1>1. Streaks(snapMessages) /\ Settled(snapMessages) /\ Sound(snapMessages)
  BY QuietOld, QuietEmpty, LoopInit DEF LoopInv, Histories
<1>2. PICK h : /\ h \in WithContext(<<>>) \/ h = snapMessages
               /\ history \in Compacted(Append(h, User("prompt")))
  OBVIOUS
<1>3. Sound(h) /\ Streaks(h) /\ Settled(h)
  BY <1>1, <1>2, SoundEmpty, SoundContext, QuietEmpty, QuietContext
<1>4. PICK g : g = Append(h, User("prompt"))
  OBVIOUS
<1>5. Sound(g) /\ Streaks(g) /\ Settled(g)
  BY <1>3, <1>4, SoundUser, QuietUser DEF Texts
<1>6. Streaks(history) /\ Settled(history)
  BY <1>2, <1>4, <1>5, QuietCompacted
<1> QED
  BY <1>1, <1>6 DEF NudgeInv

LEMMA NudgeStep == LoopInv /\ NudgeInv /\ [Next]_vars => NudgeInv'
<1> SUFFICES ASSUME LoopInv, NudgeInv, [Next]_vars PROVE NudgeInv'
  OBVIOUS
<1> USE DEF NudgeInv
<1>0. /\ SoftLimit \in Nat \ {0} /\ consecutiveErrors \in Nat
      /\ pc # "closed" => Sound(history)
      /\ Sound(snapMessages)
  BY LoopAssumption DEF LoopInv, Counts, Histories
<1>1. ASSUME UNCHANGED <<history, snapMessages, consecutiveErrors>>,
             pc' # "overflow" \/ pc' = pc, pc # "closed" \/ pc' = "closed"
      PROVE  NudgeInv'
  BY <1>1
<1>2. CASE StreamEnds
  <2>1. /\ UNCHANGED <<snapMessages, consecutiveErrors>> /\ pc = "ask"
        /\ pc' \in {"wait", "ended"}
    BY <1>2 DEF StreamEnds, Return, Retry, round, turn
  <2>2. ASSUME NEW keys \in Responses, NEW kind \in IdKinds, NEW text \in BOOLEAN,
               history' = history \o <<Assistant(text, Ids(Calls(keys, kind)))>>
                            \o ToolMessages(Calls(keys, kind), Cancelled(Calls(keys, kind)))
        PROVE  /\ Streaks(history) => Streaks(history')
               /\ Settled(history) => Settled(history')
    <3>1. Calls(keys, kind) \in Seq(CallSet)
      BY CallsTyped DEF LoopInv, Counts
    <3>2. /\ Cancelled(Calls(keys, kind)) \in Seq(ResultSet)
          /\ Len(Cancelled(Calls(keys, kind))) = Len(Calls(keys, kind))
      BY <3>1, CancelledTyped
    <3>3. history' = WithRound(history, text, Calls(keys, kind), Cancelled(Calls(keys, kind)))
      BY <2>2 DEF WithRound
    <3> QED
      BY <1>0, <2>1, <3>1, <3>2, <3>3, QuietRound
  <2>3. \/ UNCHANGED history
        \/ \E keys \in Responses, kind \in IdKinds, text \in BOOLEAN :
             history' = history \o <<Assistant(text, Ids(Calls(keys, kind)))>>
                          \o ToolMessages(Calls(keys, kind), Cancelled(Calls(keys, kind)))
    BY <1>2 DEF StreamEnds
  <2>4. /\ Streaks(history) => Streaks(history')
        /\ Settled(history) => Settled(history')
    BY <2>2, <2>3
  <2> QED
    BY <2>1, <2>4
<1>3. CASE Save
  <2>1. /\ Len(results) = Len(calls) /\ Len(calls) \in Nat
        /\ said \in BOOLEAN /\ calls \in Seq(CallSet) /\ results \in Seq(ResultSet)
    <3>1. Len(calls) \in Nat
      BY LenProperties DEF LoopInv, Answered
    <3>2. next = Len(calls) + 1
      BY <1>3, <3>1 DEF Save, LoopInv, Answered
    <3> QED
      BY <3>1, <3>2 DEF LoopInv, Answered
  <2>2. pc \in {"save", "act"} /\ pc' \in {"ended", "round"} /\ UNCHANGED snapMessages
    BY <1>3 DEF Save, Return, turn
  <2>3. PICK g : g = WithRound(history, said, calls, results)
    OBVIOUS
  <2>4. Recorded = g
    BY <2>3 DEF Recorded, WithRound
  <2>5. /\ Sound(g) /\ Streaks(g) /\ (Settled(history) => Settled(g))
        /\ (\E k \in 1 .. Len(results) : results[k].kind # "error") => Settled(g)
    <3>1. Sound(g)
      BY <1>0, <2>1, <2>2, <2>3, SoundRecord DEF WithRound
    <3>2. Streaks(history)
      BY <2>2
    <3> QED
      BY <1>0, <2>1, <2>2, <2>3, <3>1, <3>2, QuietRound
  <2>6. CASE history' = g /\ UNCHANGED consecutiveErrors
    BY <2>2, <2>5, <2>6
  (* A round with calls: the counter goes up, or what came before is       *)
  (* settled; at the limit it is nudged.                                   *)
  <2>7. CASE /\ consecutiveErrors' = IF \A k \in DOMAIN results : results[k].kind = "error"
                                     THEN consecutiveErrors + 1 ELSE 0
             /\ history' \in {g, WithNudge(g), Append(WithNudge(g), User("budget")),
                              Append(WithNudge(g), User("plan"))}
    <3>1. consecutiveErrors' <= SoftLimit => Settled(g)
      <4>1. CASE \A k \in DOMAIN results : results[k].kind = "error"
        <5>1. consecutiveErrors' <= SoftLimit => consecutiveErrors < SoftLimit
          BY <1>0, <2>7, <4>1
        <5> QED
          BY <2>2, <2>5, <5>1
      <4>2. CASE ~ \A k \in DOMAIN results : results[k].kind = "error"
        <5>1. DOMAIN results = 1 .. Len(results)
          BY <2>1, LenProperties
        <5> QED
          BY <2>5, <4>2, <5>1
      <4> QED
        BY <4>1, <4>2
    <3>2. consecutiveErrors' \in Nat
      BY <1>0, <2>7
    <3>3. PICK n : n = WithNudge(g)
      OBVIOUS
    <3>4. /\ Sound(n) /\ Streaks(n)
          /\ consecutiveErrors' < SoftLimit => Settled(n)
      <4>1. CASE consecutiveErrors' = SoftLimit
        <5>1. n = Append(g, Nudge)
          BY <3>3, <4>1 DEF WithNudge, Nudge
        <5>2. Sound(n)
          BY <2>5, <5>1, SoundUser DEF Nudge, Texts
        <5>3. Streaks(n)
          BY <1>0, <2>5, <3>1, <4>1, <5>1, NudgeSettled
        <5> QED
          BY <1>0, <4>1, <5>2, <5>3
      <4>2. CASE consecutiveErrors' # SoftLimit
        BY <1>0, <2>5, <3>1, <3>2, <3>3, <4>2 DEF WithNudge
      <4> QED
        BY <4>1, <4>2
    <3>5. history' \in {g, n, Append(n, User("budget")), Append(n, User("plan"))}
      BY <2>7, <3>3
    <3>6. Streaks(history') /\ (consecutiveErrors' < SoftLimit => Settled(history'))
      <4>1. CASE history' = g
        BY <1>0, <2>5, <3>1, <3>2, <4>1
      <4>2. CASE history' = n
        BY <3>4, <4>2
      <4>3. CASE history' = Append(n, User("budget"))
        BY <3>4, <4>3, QuietUser DEF Texts
      <4>4. CASE history' = Append(n, User("plan"))
        BY <3>4, <4>4, QuietUser DEF Texts
      <4> QED
        BY <3>5, <4>1, <4>2, <4>3, <4>4
    <3> QED
      BY <2>2, <3>6
  <2>8. /\ \/ history' = g /\ UNCHANGED consecutiveErrors
           \/ consecutiveErrors' = IF \A k \in DOMAIN results : results[k].kind = "error"
                                  THEN consecutiveErrors + 1 ELSE 0
        /\ history' \in {g, WithNudge(g), Append(WithNudge(g), User("budget")),
                         Append(WithNudge(g), User("plan"))}
    BY <1>3, <2>4 DEF Save
  <2> QED
    BY <2>6, <2>7, <2>8
<1>4. CASE EndCompact
  <2>1. /\ pc = "compact" /\ pc' \in {"ask", "ended"}
        /\ UNCHANGED <<consecutiveErrors, snapMessages>>
        /\ history' \in Compacted(history) \/ history' \in WithContext(history)
    BY <1>4 DEF EndCompact, CompactionFails, NextRound, Return, round, turn
  <2>2. /\ Streaks(history) => Streaks(history')
        /\ Settled(history) => Settled(history')
    BY <1>0, <2>1, QuietCompacted, QuietContext
  <2> QED
    BY <2>1, <2>2
<1>5. CASE Rollback
  BY <1>5 DEF Rollback, round
<1>6. CASE RunAgain
  <2>1. PICK h \in Compacted(history) : history' = Append(h, User("prompt"))
    BY <1>6 DEF RunAgain
  <2>2. pc = "overflow" /\ pc' = "ask" /\ UNCHANGED snapMessages
    BY <1>6 DEF RunAgain, turn
  <2>3. Sound(h) /\ Streaks(h) /\ Settled(h)
    BY <1>0, <2>1, <2>2, SoundCompacted, QuietCompacted
  <2>4. Streaks(history') /\ Settled(history')
    BY <2>1, <2>3, QuietUser DEF Texts
  <2> QED
    BY <2>2, <2>4
<1>7. CASE OverflowCompactFails
  <2>1. /\ history' \in WithContext(history) /\ pc = "overflow" /\ pc' = "ended"
        /\ UNCHANGED <<consecutiveErrors, snapMessages>>
    BY <1>7 DEF OverflowCompactFails, CompactionFails, round, turn
  <2>2. Streaks(history') /\ Settled(history')
    BY <1>0, <2>1, QuietContext
  <2> QED
    BY <2>1, <2>2
<1>8. CASE EndTurn
  BY <1>8 DEF EndTurn, turn
<1>9. ASSUME \/ UNCHANGED vars \/ BackendError \/ Wait \/ Answer \/ AnswerRejected
             \/ ActCancelled \/ StartBatch \/ EndBatch \/ StartCompact
             \/ Cancel \/ \E p \in Injects : Inject(p)
      PROVE  /\ UNCHANGED <<history, snapMessages, consecutiveErrors>>
             /\ pc' # "overflow" \/ pc' = pc
             /\ pc # "closed" \/ pc' = "closed"
  BY <1>9 DEF vars, BackendError, Wait, Answer, AnswerRejected, ActCancelled, StartBatch,
     EndBatch, StartCompact, Cancel, Inject, Running, Return, Retry, round, turn
<1>10. ASSUME NEW k \in DOMAIN worker, Call(k)
       PROVE  UNCHANGED <<history, snapMessages, consecutiveErrors, pc>>
  BY <1>10 DEF Call, ExecOne, PreTool, ExecReturn, PostTool, round, turn
<1>11. ASSUME NoCompact
       PROVE  /\ UNCHANGED <<history, snapMessages, consecutiveErrors>>
              /\ pc' # "overflow" /\ pc # "closed"
  BY <1>11 DEF NoCompact, NextRound, turn
<1> QED
  BY <1>1, <1>2, <1>3, <1>4, <1>5, <1>6, <1>7, <1>8, <1>9, <1>10, <1>11 DEF Next, Run

(* As long as the turn goes on, the model is told to change its approach   *)
(* once per streak of failures, across rounds, compactions and the retry   *)
(* after an overflow (loop.go:440-462).                                    *)
THEOREM NudgedOnce == Spec => [](pc # "closed" => NudgeOncePerStreak)
<1>1. LoopInv /\ NudgeInv => (pc # "closed" => NudgeOncePerStreak)
  <2> SUFFICES ASSUME LoopInv, NudgeInv, pc # "closed" PROVE NudgeOncePerStreak
    OBVIOUS
  <2>1. DOMAIN history = 1 .. Len(history)
    BY LenProperties DEF LoopInv, Histories, Sound
  <2> QED
    BY <2>1 DEF NudgeInv, Streaks, Nudge, Works, NudgeOncePerStreak
<1>2. Spec => []NudgeInv
  BY NudgeInit, NudgeStep, LoopSafety, PTL DEF Spec
<1> QED
  BY <1>1, <1>2, LoopSafety, PTL

=============================================================================
