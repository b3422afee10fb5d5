---------------------------- MODULE TurnEndProofs ----------------------------
(***************************************************************************)
(* The end of a turn, for all tools, answers and limits: what              *)
(* removeCancelledToolResults leaves is a valid history without a trace of *)
(* the interrupt, and, where the backend gives every call an id, with all  *)
(* completed work, the work between two nudges included; and there, each   *)
(* backend can be sent the session, during the turn and after it.          *)
(*                                                                         *)
(* The function filters lists.  A filtered list is its elements at some    *)
(* positions, and those are enumerated in order by one function only       *)
(* (EnumUnique); all that is said of filters below comes from that.        *)
(***************************************************************************)
EXTENDS HistoryProofs, Transcript

-----------------------------------------------------------------------------
(* Sublists.                                                               *)

(* e lists the n elements of K in ascending order.                         *)
Enumerates(e, n, K) ==
  /\ e \in [1 .. n -> K]
  /\ \A i, j \in 1 .. n : i < j => e[i] < e[j]
  /\ \A k \in K : \E i \in 1 .. n : e[i] = k

(* t has the elements of s at the positions in K, in order.                *)
IsSublist(t, s, K) ==
  \E e : Enumerates(e, Len(t), K) /\ \A i \in 1 .. Len(t) : t[i] = s[e[i]]

(* The function Sublist is defined by, on its first n + 1 arguments.       *)
Filters(f, s, K, n) ==
  f = [i \in 0 .. n |-> IF i = 0 THEN <<>>
                        ELSE IF i \in K THEN Append(f[i - 1], s[i]) ELSE f[i - 1]]

LEMMA FiltersExists ==
  ASSUME NEW s, NEW K, NEW n \in Nat
  PROVE  \E f : Filters(f, s, K, n)
<1> DEFINE bad == {m \in Nat : ~ \E f : Filters(f, s, K, m)}
<1> SUFFICES ASSUME bad # {} PROVE FALSE
  OBVIOUS
<1>1. PICK m \in bad : \A k \in bad : m <= k
  <2>1. bad \in SUBSET Nat
    OBVIOUS
  <2> HIDE DEF bad
  <2> QED
    BY <2>1, LeastIn
<1>2. m \in Nat /\ ~ \E f : Filters(f, s, K, m)
  BY <1>1
<1>3. CASE m = 0
  <2> DEFINE f == [i \in 0 .. 0 |-> <<>>]
  <2>1. \A i \in 0 .. 0 : i = 0
    OBVIOUS
  <2>2. Filters(f, s, K, 0)
    BY <2>1 DEF Filters
  <2> QED
    BY <1>2, <1>3, <2>2
<1>4. CASE m # 0
  <2>1. m - 1 \in Nat /\ m - 1 \notin bad
    BY <1>1, <1>2, <1>4
  <2>2. PICK f : Filters(f, s, K, m - 1)
    BY <2>1
  <2> DEFINE g == [i \in 0 .. m |-> IF i = m
                                    THEN IF m \in K THEN Append(f[m - 1], s[m]) ELSE f[m - 1]
                                    ELSE f[i]]
  <2>3. ASSUME NEW i \in 0 .. m
        PROVE  g[i] = IF i = 0 THEN <<>>
                      ELSE IF i \in K THEN Append(g[i - 1], s[i]) ELSE g[i - 1]
    <3>1. CASE i = m
      <4>1. m - 1 \in 0 .. m /\ m - 1 # m /\ m \in 0 .. m
        BY <1>2, <1>4
      <4>2. g[m - 1] = f[m - 1]
        BY <4>1
      <4> QED
        BY <1>4, <3>1, <4>1, <4>2
    <3>2. CASE i # m
      <4>1. i \in 0 .. m - 1 /\ (i # 0 => i - 1 \in 0 .. m /\ i - 1 # m)
        BY <1>2, <3>2
      <4>2. f[i] = IF i = 0 THEN <<>>
                   ELSE IF i \in K THEN Append(f[i - 1], s[i]) ELSE f[i - 1]
        BY <2>2, <4>1 DEF Filters
      <4>3. g[i] = f[i] /\ (i # 0 => g[i - 1] = f[i - 1])
        BY <3>2, <4>1
      <4> QED
        BY <4>2, <4>3
    <3> QED
      BY <3>1, <3>2
  <2>4. g = [i \in 0 .. m |-> g[i]]
    OBVIOUS
  <2> HIDE DEF g
  <2>5. Filters(g, s, K, m)
    BY <2>3, <2>4 DEF Filters
  <2> QED
    BY <1>2, <2>5
<1> QED
  BY <1>3, <1>4

LEMMA SublistFilters ==
  ASSUME NEW s, NEW K, Len(s) \in Nat
  PROVE  \E f : Filters(f, s, K, Len(s)) /\ Sublist(s, K) = f[Len(s)]
<1> DEFINE f == CHOOSE x : Filters(x, s, K, Len(s))
<1>1. Filters(f, s, K, Len(s))
  BY FiltersExists, Zenon
<1>2. Sublist(s, K) = f[Len(s)]
  BY DEF Sublist, Filters
<1> QED
  BY <1>1, <1>2

LEMMA SublistStep ==
  ASSUME NEW S, NEW s \in Seq(S), NEW K, NEW j \in 1 .. Len(s),
         NEW t \in Seq(S), IsSublist(t, s, K \cap (1 .. j - 1)), j \in K
  PROVE  Append(t, s[j]) \in Seq(S) /\ IsSublist(Append(t, s[j]), s, K \cap (1 .. j))
<1>0. PICK u : u = Append(t, s[j])
  OBVIOUS
<1>1. Len(s) \in Nat /\ Len(t) \in Nat /\ s[j] \in S
  BY LenProperties, ElementOfSeq
<1>2. /\ u \in Seq(S) /\ Len(u) = Len(t) + 1 /\ u[Len(t) + 1] = s[j]
      /\ \A i \in 1 .. Len(t) : u[i] = t[i]
  BY <1>0, <1>1, AppendProperties
<1>3. PICK e : /\ Enumerates(e, Len(t), K \cap (1 .. j - 1))
               /\ \A i \in 1 .. Len(t) : t[i] = s[e[i]]
  BY DEF IsSublist
<1>4. PICK n \in Nat : n = Len(t)
  BY <1>1
<1> DEFINE d == [i \in 1 .. n + 1 |-> IF i = n + 1 THEN j ELSE e[i]]
<1>5. \A i \in 1 .. n : e[i] \in K /\ e[i] \in 1 .. j - 1
  BY <1>3, <1>4 DEF Enumerates
<1>6. d[n + 1] = j /\ \A i \in 1 .. n : d[i] = e[i]
  BY <1>4
<1>7. d \in [1 .. n + 1 -> K \cap (1 .. j)]
  BY <1>1, <1>5
<1> HIDE DEF d
<1>8. ASSUME NEW x \in 1 .. n + 1, NEW y \in 1 .. n + 1, x < y PROVE d[x] < d[y]
  <2>1. x \in 1 .. n
    BY <1>4, <1>8
  <2>2. CASE y = n + 1
    <3>1. d[x] \in 1 .. j - 1 /\ d[y] = j
      BY <1>5, <1>6, <2>1, <2>2
    <3> QED
      BY <1>1, <3>1
  <2>3. CASE y # n + 1
    <3>1. y \in 1 .. n
      BY <1>4, <2>3
    <3> QED
      BY <1>3, <1>4, <1>6, <1>8, <2>1, <3>1 DEF Enumerates
  <2> QED
    BY <2>2, <2>3
<1>9. ASSUME NEW k \in K \cap (1 .. j) PROVE \E i \in 1 .. n + 1 : d[i] = k
  <2>1. CASE k = j
    BY <1>6, <2>1
  <2>2. CASE k # j
    <3>1. k \in K \cap (1 .. j - 1)
      BY <1>1, <2>2
    <3>2. PICK i \in 1 .. n : e[i] = k
      BY <1>3, <1>4, <3>1 DEF Enumerates
    <3> QED
      BY <1>6, <3>2
  <2> QED
    BY <2>1, <2>2
<1>10. Enumerates(d, n + 1, K \cap (1 .. j))
  BY <1>7, <1>8, <1>9 DEF Enumerates
<1>11. \A i \in 1 .. n + 1 : u[i] = s[d[i]]
  <2> SUFFICES ASSUME NEW i \in 1 .. n + 1 PROVE u[i] = s[d[i]]
    OBVIOUS
  <2>1. CASE i = n + 1
    BY <1>2, <1>4, <1>6, <2>1
  <2>2. CASE i # n + 1
    <3>1. i \in 1 .. n
      BY <2>2
    <3> QED
      BY <1>2, <1>3, <1>4, <1>6, <3>1
  <2> QED
    BY <2>1, <2>2
<1>12. IsSublist(u, s, K \cap (1 .. j))
  BY <1>2, <1>4, <1>10, <1>11 DEF IsSublist
<1> QED
  BY <1>0, <1>2, <1>12

LEMMA SublistIs ==
  ASSUME NEW S, NEW s \in Seq(S), NEW K \in SUBSET (1 .. Len(s))
  PROVE  Sublist(s, K) \in Seq(S) /\ IsSublist(Sublist(s, K), s, K)
<1>0. Len(s) \in Nat
  BY LenProperties
<1>1. PICK f : Filters(f, s, K, Len(s)) /\ Sublist(s, K) = f[Len(s)]
  BY <1>0, SublistFilters
<1> DEFINE Good(j) == f[j] \in Seq(S) /\ IsSublist(f[j], s, K \cap (1 .. j))
           bad == {j \in 0 .. Len(s) : ~Good(j)}
<1>2. bad = {}
  <2> SUFFICES ASSUME bad # {} PROVE FALSE
    OBVIOUS
  <2>1. PICK j \in bad : \A k \in bad : j <= k
    <3>1. bad \in SUBSET Nat
      BY <1>0
    <3> HIDE DEF bad
    <3> QED
      BY <3>1, LeastIn
  <2>2. j \in 0 .. Len(s) /\ ~Good(j)
    BY <2>1
  <2>3. f[j] = IF j = 0 THEN <<>>
               ELSE IF j \in K THEN Append(f[j - 1], s[j]) ELSE f[j - 1]
    BY <1>1, <2>2 DEF Filters
  <2>4. CASE j = 0
    <3>1. f[j] = <<>> /\ <<>> \in Seq(S) /\ Len(<<>>) = 0
      BY <2>3, <2>4, EmptySeq
    <3>2. K \cap (1 .. 0) = {} /\ 1 .. 0 = {}
      OBVIOUS
    <3>3. Enumerates(<<>>, 0, {})
      <4>1. <<>> \in [{} -> {}]
        OBVIOUS
      <4> QED
        BY <3>2, <4>1 DEF Enumerates
    <3>4. IsSublist(<<>>, s, K \cap (1 .. 0))
      BY <3>1, <3>2, <3>3 DEF IsSublist
    <3> QED
      BY <2>2, <2>4, <3>1, <3>4
  <2>5. CASE j # 0
    <3>1. j \in 1 .. Len(s) /\ j - 1 \in 0 .. Len(s) /\ ~(j <= j - 1)
      BY <1>0, <2>2, <2>5
    <3>2. Good(j - 1)
      BY <2>1, <3>1
    <3>3. CASE j \in K
      <4>0. PICK t : t = f[j - 1]
        OBVIOUS
      <4>1. t \in Seq(S) /\ IsSublist(t, s, K \cap (1 .. j - 1))
        BY <3>2, <4>0
      <4>2. Append(t, s[j]) \in Seq(S) /\ IsSublist(Append(t, s[j]), s, K \cap (1 .. j))
        BY <3>1, <3>3, <4>1, SublistStep
      <4>3. Good(j)
        BY <2>3, <2>5, <3>3, <4>0, <4>2
      <4> QED
        BY <2>2, <4>3
    <3>4. CASE j \notin K
      <4>1. K \cap (1 .. j) = K \cap (1 .. j - 1)
        BY <1>0, <3>1, <3>4
      <4> QED
        BY <2>2, <2>3, <2>5, <3>2, <3>4, <4>1
    <3> QED
      BY <3>3, <3>4
  <2> QED
    BY <2>4, <2>5
<1>3. Good(Len(s))
  <2> HIDE DEF Good
  <2>1. Len(s) \in 0 .. Len(s)
    BY <1>0
  <2> QED
    BY <1>2, <2>1
<1>4. K \cap (1 .. Len(s)) = K
  OBVIOUS
<1> QED
  BY <1>1, <1>3, <1>4

(* Positions can be listed in order in one way only.                       *)
LEMMA EnumBelow ==
  ASSUME NEW K \in SUBSET Nat, NEW e, NEW d, NEW n \in Nat, NEW m \in Nat,
         Enumerates(e, n, K), Enumerates(d, m, K)
  PROVE  n <= m /\ \A i \in 1 .. n : e[i] = d[i]
<1> DEFINE bad == {i \in 1 .. n : i > m \/ e[i] # d[i]}
<1>0. /\ \A i \in 1 .. n : e[i] \in Nat /\ e[i] \in K
      /\ \A i \in 1 .. m : d[i] \in Nat /\ d[i] \in K
  BY DEF Enumerates
<1>1. bad = {}
  <2> SUFFICES ASSUME bad # {} PROVE FALSE
    OBVIOUS
  <2>1. PICK i \in bad : \A k \in bad : i <= k
    <3>1. bad \in SUBSET Nat
      OBVIOUS
    <3> HIDE DEF bad
    <3> QED
      BY <3>1, LeastIn
  <2>2. i \in 1 .. n /\ (i > m \/ e[i] # d[i])
    BY <2>1
  <2>3. ASSUME NEW x \in 1 .. i - 1 PROVE x \in 1 .. m /\ x \in 1 .. n /\ e[x] = d[x]
    <3>1. x \in 1 .. n /\ ~(i <= x)
      BY <2>2
    <3> QED
      BY <2>1, <3>1
  <2>4. PICK x \in 1 .. m : d[x] = e[i]
    BY <1>0, <2>2 DEF Enumerates
  <2>5. ~(x < i)
    <3> SUFFICES ASSUME x < i PROVE FALSE
      OBVIOUS
    <3>1. x \in 1 .. i - 1
      BY <2>2
    <3>2. e[x] = e[i] /\ e[x] < e[i]
      BY <2>2, <2>3, <2>4, <3>1 DEF Enumerates
    <3> QED
      BY <1>0, <2>2, <3>2
  <2>6. i \in 1 .. m
    BY <2>2, <2>5
  <2>7. PICK y \in 1 .. n : e[y] = d[i]
    BY <1>0, <2>6 DEF Enumerates
  <2>8. ~(y < i)
    <3> SUFFICES ASSUME y < i PROVE FALSE
      OBVIOUS
    <3>1. y \in 1 .. i - 1
      BY <2>2
    <3>2. d[y] = d[i] /\ d[y] < d[i]
      BY <2>3, <2>6, <2>7, <3>1 DEF Enumerates
    <3> QED
      BY <1>0, <2>6, <3>2
  <2>9. d[i] <= e[i]
    <3>1. x = i \/ i < x
      BY <2>2, <2>5
    <3>2. i < x => d[i] < d[x]
      BY <2>6 DEF Enumerates
    <3> QED
      BY <1>0, <2>2, <2>4, <2>6, <3>1, <3>2
  <2>10. e[i] <= d[i]
    <3>1. y = i \/ i < y
      BY <2>2, <2>8
    <3>2. i < y => e[i] < e[y]
      BY <2>2 DEF Enumerates
    <3> QED
      BY <1>0, <2>2, <2>6, <2>7, <3>1, <3>2
  <2> QED
    BY <1>0, <2>2, <2>6, <2>9, <2>10
<1>2. \A i \in 1 .. n : i <= m /\ e[i] = d[i]
  BY <1>1
<1>3. n <= m
  <2>1. CASE n = 0
    BY <2>1
  <2>2. CASE n # 0
    <3>1. n \in 1 .. n
      BY <2>2
    <3> QED
      BY <1>2, <3>1
  <2> QED
    BY <2>1, <2>2
<1> QED
  BY <1>2, <1>3

LEMMA EnumUnique ==
  ASSUME NEW K \in SUBSET Nat, NEW e, NEW d, NEW n \in Nat, NEW m \in Nat,
         Enumerates(e, n, K), Enumerates(d, m, K)
  PROVE  n = m /\ \A i \in 1 .. n : e[i] = d[i]
<1>1. n <= m /\ m <= n /\ \A i \in 1 .. n : e[i] = d[i]
  BY EnumBelow
<1> QED
  BY <1>1

LEMMA SublistUnique ==
  ASSUME NEW S, NEW s, NEW K \in SUBSET Nat, NEW t \in Seq(S), NEW u \in Seq(S),
         IsSublist(t, s, K), IsSublist(u, s, K)
  PROVE  t = u
<1>1. Len(t) \in Nat /\ Len(u) \in Nat
  BY LenProperties
<1>2. PICK e : Enumerates(e, Len(t), K) /\ \A i \in 1 .. Len(t) : t[i] = s[e[i]]
  BY DEF IsSublist
<1>3. PICK d : Enumerates(d, Len(u), K) /\ \A i \in 1 .. Len(u) : u[i] = s[d[i]]
  BY DEF IsSublist
<1>4. Len(t) = Len(u) /\ \A i \in 1 .. Len(t) : e[i] = d[i]
  <2>1. ASSUME NEW n \in Nat, NEW m \in Nat, Enumerates(e, n, K), Enumerates(d, m, K)
        PROVE  n = m /\ \A i \in 1 .. n : e[i] = d[i]
    BY <2>1, EnumUnique
  <2> QED
    BY <1>1, <1>2, <1>3, <2>1
<1>5. \A i \in 1 .. Len(t) : t[i] = u[i]
  BY <1>2, <1>3, <1>4
<1> QED
  BY <1>4, <1>5, SeqEqual

-----------------------------------------------------------------------------
(* What is left without some results.                                      *)

LEMMA Pruned ==
  ASSUME NEW m \in Messages, NEW gone
  PROVE  /\ Prune(m, gone) \in Messages /\ Prune(m, gone).role = m.role
         /\ m.role # "assistant" => Prune(m, gone) = m
         /\ m.role = "assistant" =>
              /\ Prune(m, gone).ids \in Seq(IdSet)
              /\ Left(m.ids, gone) \in SUBSET (1 .. Len(m.ids))
              /\ IsSublist(Prune(m, gone).ids, m.ids, Left(m.ids, gone))
<1>1. CASE m.role # "assistant"
  BY <1>1 DEF Prune
<1>2. CASE m.role = "assistant"
  <2>1. m.ids \in Seq(IdSet) /\ DOMAIN m.ids = 1 .. Len(m.ids)
    BY <1>2, IdsOfAssistant, LenProperties
  <2>2. Left(m.ids, gone) \in SUBSET (1 .. Len(m.ids))
    BY <2>1 DEF Left
  <2>3. PICK l : l = Sublist(m.ids, Left(m.ids, gone))
    OBVIOUS
  <2>4. l \in Seq(IdSet) /\ IsSublist(l, m.ids, Left(m.ids, gone))
    BY <2>1, <2>2, <2>3, SublistIs
  <2>5. Prune(m, gone) = [m EXCEPT !.ids = l]
    BY <1>2, <2>3 DEF Prune
  <2>6. m \in [role : {"assistant"}, text : BOOLEAN, ids : Seq(IdSet)]
    BY <1>2 DEF Messages
  <2>7. /\ [m EXCEPT !.ids = l] \in [role : {"assistant"}, text : BOOLEAN, ids : Seq(IdSet)]
        /\ [m EXCEPT !.ids = l].ids = l /\ [m EXCEPT !.ids = l].role = "assistant"
    BY <2>4, <2>6
  <2> QED
    BY <1>2, <2>2, <2>4, <2>5, <2>7 DEF Messages
<1> QED
  BY <1>1, <1>2

LEMMA WithoutShape ==
  ASSUME NEW h \in Seq(Messages), NEW gone, NEW g, g = Without(h, gone)
  PROVE  /\ g \in Seq(Messages) /\ Len(g) \in Nat
         /\ Staying(h, gone) \in SUBSET (1 .. Len(h))
         /\ \E e : /\ Enumerates(e, Len(g), Staying(h, gone))
                   /\ \A i \in 1 .. Len(g) : g[i] = Prune(h[e[i]], gone)
<1>1. Len(h) \in Nat /\ DOMAIN h = 1 .. Len(h) /\ \A i \in 1 .. Len(h) : h[i] \in Messages
  BY LenProperties, ElementOfSeq
<1>2. Staying(h, gone) \in SUBSET (1 .. Len(h))
  BY <1>1 DEF Staying
<1>3. PICK kept : kept = Sublist(h, Staying(h, gone))
  OBVIOUS
<1>4. kept \in Seq(Messages) /\ IsSublist(kept, h, Staying(h, gone))
  BY <1>2, <1>3, SublistIs
<1>5. Len(kept) \in Nat /\ DOMAIN kept = 1 .. Len(kept)
  BY <1>4, LenProperties
<1>6. PICK e : /\ Enumerates(e, Len(kept), Staying(h, gone))
               /\ \A i \in 1 .. Len(kept) : kept[i] = h[e[i]]
  BY <1>4 DEF IsSublist
<1>7. g = [i \in 1 .. Len(kept) |-> Prune(kept[i], gone)]
  BY <1>3, <1>5 DEF Without
<1>8. \A i \in 1 .. Len(kept) : kept[i] \in Messages /\ Prune(kept[i], gone) \in Messages
  BY <1>4, ElementOfSeq, Pruned
<1>9. g \in Seq(Messages) /\ Len(g) = Len(kept)
  <2>1. g \in [1 .. Len(kept) -> Messages]
    BY <1>7, <1>8
  <2> QED
    BY <1>5, <2>1, SeqOfFunction
<1>10. \A i \in 1 .. Len(g) : g[i] = Prune(h[e[i]], gone)
  BY <1>6, <1>7, <1>9
<1> QED
  BY <1>2, <1>5, <1>6, <1>9, <1>10

LEMMA Between ==
  ASSUME NEW p \in Nat, NEW l \in Nat, NEW a \in 0 .. l, NEW b \in 1 .. l, NEW v \in Nat,
         p + a < v, v < p + b
  PROVE  \E k \in 1 .. l : v = p + k /\ a < k /\ k < b
<1>1. v - p \in 1 .. l /\ v = p + (v - p) /\ a < v - p /\ v - p < b
  OBVIOUS
<1> QED
  BY <1>1

(* The results of the calls that are left follow their answer.             *)
LEMMA RoundStays ==
  ASSUME NEW h, Sound(h), NEW gone, NEW e, NEW n \in Nat, Enumerates(e, n, Staying(h, gone)),
         NEW i \in 1 .. n, h[e[i]].role = "assistant",
         NEW l \in Nat, NEW d, Enumerates(d, l, Left(h[e[i]].ids, gone))
  PROVE  \A m \in 1 .. l : i + m <= n /\ e[i + m] = e[i] + d[m]
<1> DEFINE c == [m \in 0 .. l |-> IF m = 0 THEN 0 ELSE d[m]]
           bad == {m \in 0 .. l : ~(i + m <= n /\ e[i + m] = e[i] + c[m])}
<1>1. h \in Seq(Messages) /\ Len(h) \in Nat /\ DOMAIN h = 1 .. Len(h)
  BY LenProperties DEF Sound
<1>2. PICK p \in 1 .. Len(h) : p = e[i] /\ p \in Staying(h, gone)
  BY <1>1 DEF Enumerates, Staying
<1>3. h[p] \in Messages /\ h[p].ids \in Seq(IdSet) /\ Len(h[p].ids) \in Nat
  BY <1>1, <1>2, ElementOfSeq, IdsOfAssistant
<1>4. /\ p + Len(h[p].ids) <= Len(h)
      /\ \A k \in 1 .. Len(h[p].ids) :
           h[p + k].role = "tool" /\ h[p + k].id = h[p].ids[k]
  BY <1>2 DEF Sound, CallsAnsweredIn
<1>5. Left(h[p].ids, gone) = {k \in 1 .. Len(h[p].ids) : h[p].ids[k] \notin gone}
  BY <1>3, LenProperties DEF Left
<1>6. ASSUME NEW k \in 1 .. Len(h[p].ids)
      PROVE  p + k \in Staying(h, gone) <=> k \in Left(h[p].ids, gone)
  <2>1. p + k \in 1 .. Len(h)
    BY <1>1, <1>2, <1>3, <1>4
  <2>2. h[p + k].role = "tool" /\ h[p + k].id = h[p].ids[k]
    BY <1>4
  <2>3. Stays(h[p + k], gone) <=> h[p].ids[k] \notin gone
    BY <2>2 DEF Stays
  <2>4. p + k \in Staying(h, gone) <=> Stays(h[p + k], gone)
    BY <1>1, <2>1 DEF Staying
  <2> QED
    BY <1>5, <2>3, <2>4
<1>7. /\ \A m \in 1 .. l : d[m] \in Left(h[p].ids, gone) /\ d[m] \in 1 .. Len(h[p].ids)
      /\ \A x \in 1 .. n : e[x] \in 1 .. Len(h) /\ e[x] \in Staying(h, gone)
  <2>1. Staying(h, gone) \subseteq 1 .. Len(h)
    BY <1>1 DEF Staying
  <2> QED
    BY <1>2, <1>5, <2>1 DEF Enumerates
<1>8. c[0] = 0 /\ \A m \in 1 .. l : c[m] = d[m]
  OBVIOUS
<1> HIDE DEF c
<1>9. bad = {}
  <2> SUFFICES ASSUME bad # {} PROVE FALSE
    OBVIOUS
  <2>1. PICK m \in bad : \A k \in bad : m <= k
    <3>1. bad \in SUBSET Nat
      OBVIOUS
    <3> HIDE DEF bad
    <3> QED
      BY <3>1, LeastIn
  <2>2. m \in 0 .. l /\ ~(i + m <= n /\ e[i + m] = p + c[m])
    BY <1>2, <2>1
  <2>3. m \in 1 .. l
    <3>1. m # 0
      BY <1>2, <1>8, <2>2
    <3> QED
      BY <2>2, <3>1
  <2>4. i + (m - 1) <= n /\ e[i + (m - 1)] = p + c[m - 1]
    <3>1. m - 1 \in 0 .. l /\ ~(m <= m - 1)
      BY <2>3
    <3> QED
      BY <1>2, <2>1, <3>1
  <2>5. c[m - 1] \in 0 .. Len(h[p].ids) /\ c[m - 1] < d[m]
    <3>1. CASE m = 1
      <4>1. c[m - 1] = 0
        BY <1>8, <3>1
      <4> QED
        BY <1>3, <1>7, <2>3, <4>1
    <3>2. CASE m # 1
      <4>1. m - 1 \in 1 .. l /\ m - 1 < m
        BY <2>3, <3>2
      <4>2. d[m - 1] < d[m]
        BY <1>2, <2>3, <4>1 DEF Enumerates
      <4> QED
        BY <1>3, <1>7, <1>8, <4>1, <4>2
    <3> QED
      BY <3>1, <3>2
  (* The m-th result stays, at some position after the one before it.      *)
  <2>6. PICK x \in 1 .. n : e[x] = p + d[m]
    <3>1. p + d[m] \in Staying(h, gone)
      BY <1>6, <1>7, <2>3
    <3> QED
      BY <3>1 DEF Enumerates
  <2>7. PICK y \in 1 .. n : y = i + (m - 1)
    BY <2>3, <2>4
  <2>8. e[y] = p + c[m - 1]
    BY <2>4, <2>7
  <2>9. y < x
    <3>1. x < y => e[x] < e[y]
      BY DEF Enumerates
    <3>2. e[y] < e[x]
      BY <1>2, <1>3, <1>7, <2>3, <2>5, <2>6, <2>8
    <3>3. e[x] \in Nat /\ e[y] \in Nat
      BY <1>7
    <3> QED
      BY <3>1, <3>2, <3>3
  <2>10. PICK z \in 1 .. n : z = i + m
    BY <2>3, <2>7, <2>9
  <2>11. CASE z = x
    BY <1>8, <2>2, <2>3, <2>6, <2>10, <2>11
  (* Nothing that stays is between the two.                                *)
  <2>12. CASE z # x
    <3>1. y < z /\ z < x
      BY <2>3, <2>7, <2>9, <2>10, <2>12
    <3>2. e[y] < e[z] /\ e[z] < e[x]
      BY <3>1 DEF Enumerates
    <3>3. PICK k \in 1 .. Len(h[p].ids) : e[z] = p + k /\ c[m - 1] < k /\ k < d[m]
      <4>1. p \in Nat /\ e[z] \in Nat /\ d[m] \in 1 .. Len(h[p].ids)
        BY <1>2, <1>7, <2>3
      <4>2. p + c[m - 1] < e[z] /\ e[z] < p + d[m]
        BY <2>6, <2>8, <3>2
      <4>3. c[m - 1] \in 0 .. Len(h[p].ids) /\ Len(h[p].ids) \in Nat
        BY <1>3, <2>5
      <4>4. PICK r \in Nat : r = Len(h[p].ids)
        BY <4>3
      <4>5. PICK v \in Nat : v = e[z]
        BY <4>1
      <4>6. PICK f \in 0 .. r : f = c[m - 1]
        BY <4>3, <4>4
      <4>7. PICK b \in 1 .. r : b = d[m]
        BY <4>1, <4>4
      <4>8. p + f < v /\ v < p + b /\ p \in Nat
        BY <4>1, <4>2, <4>5, <4>6, <4>7
      <4>9. PICK k \in 1 .. r : v = p + k /\ f < k /\ k < b
        BY <4>8, Between
      <4> QED
        BY <4>4, <4>5, <4>6, <4>7, <4>9
    <3>4. k \in Left(h[p].ids, gone)
      BY <1>6, <1>7, <3>3
    <3>5. PICK w \in 1 .. l : d[w] = k
      BY <1>2, <3>4 DEF Enumerates
    <3>6. c[m - 1] < d[w] /\ d[w] < d[m]
      BY <3>3, <3>5
    <3>7. w < m
      <4>1. m < w => d[m] < d[w]
        BY <1>2, <2>3 DEF Enumerates
      <4> QED
        BY <1>7, <2>3, <3>6, <4>1
    <3>8. w > m - 1
      <4>1. CASE m = 1
        BY <4>1
      <4>2. CASE m # 1
        <5>1. m - 1 \in 1 .. l /\ c[m - 1] = d[m - 1]
          BY <1>8, <2>3, <4>2
        <5>2. w < m - 1 => d[w] < d[m - 1]
          BY <1>2, <5>1 DEF Enumerates
        <5>3. d[m - 1] < d[w] /\ d[w] \in Nat /\ d[m - 1] \in Nat
          BY <1>3, <1>7, <3>6, <5>1
        <5>4. ~(d[w] < d[m - 1]) /\ w # m - 1
          BY <5>3
        <5> QED
          BY ONLY <2>3, <5>2, <5>4, w \in 1 .. l, l \in Nat
      <4> QED
        BY <2>3, <4>1, <4>2
    <3> QED
      BY <2>3, <3>7, <3>8
  <2> QED
    BY <2>11, <2>12
<1> SUFFICES ASSUME NEW m \in 1 .. l PROVE i + m <= n /\ e[i + m] = e[i] + d[m]
  OBVIOUS
<1>10. m \in 0 .. l /\ m \notin bad
  BY <1>9
<1> QED
  BY <1>8, <1>10

LEMMA WithoutSound ==
  ASSUME NEW h, Sound(h), NEW gone
  PROVE  Sound(Without(h, gone))
<1>0. PICK g : g = Without(h, gone)
  OBVIOUS
<1>1. h \in Seq(Messages) /\ Len(h) \in Nat /\ DOMAIN h = 1 .. Len(h)
  BY LenProperties DEF Sound
<1>2. g \in Seq(Messages) /\ Len(g) \in Nat /\ Staying(h, gone) \in SUBSET (1 .. Len(h))
  BY <1>0, <1>1, WithoutShape
<1>3. PICK e : /\ Enumerates(e, Len(g), Staying(h, gone))
               /\ \A i \in 1 .. Len(g) : g[i] = Prune(h[e[i]], gone)
  BY <1>0, <1>1, WithoutShape
<1>4. ASSUME NEW i \in 1 .. Len(g)
      PROVE  /\ e[i] \in 1 .. Len(h) /\ e[i] \in Staying(h, gone) /\ h[e[i]] \in Messages
             /\ g[i].role = h[e[i]].role
             /\ g[i].role # "assistant" => g[i] = h[e[i]]
  <2>1. e[i] \in 1 .. Len(h) /\ e[i] \in Staying(h, gone)
    BY <1>2, <1>3 DEF Enumerates
  <2>2. h[e[i]] \in Messages
    BY <1>1, <2>1, ElementOfSeq
  <2> QED
    BY <1>3, <2>1, <2>2, Pruned
(* What is left of a round.                                                *)
<1>5. ASSUME NEW i \in 1 .. Len(g), g[i].role = "assistant"
      PROVE  /\ g[i].ids \in Seq(IdSet) /\ Len(g[i].ids) \in Nat
             /\ \E d : /\ Enumerates(d, Len(g[i].ids), Left(h[e[i]].ids, gone))
                       /\ \A k \in 1 .. Len(g[i].ids) :
                            /\ g[i].ids[k] = h[e[i]].ids[d[k]]
                            /\ i + k <= Len(g) /\ e[i + k] = e[i] + d[k]
                            /\ d[k] \in 1 .. Len(h[e[i]].ids)
  <2>1. h[e[i]].role = "assistant" /\ h[e[i]] \in Messages
    BY <1>4, <1>5
  <2>2. /\ g[i].ids \in Seq(IdSet)
        /\ Left(h[e[i]].ids, gone) \in SUBSET (1 .. Len(h[e[i]].ids))
        /\ IsSublist(g[i].ids, h[e[i]].ids, Left(h[e[i]].ids, gone))
    BY <1>3, <2>1, Pruned
  <2>3. PICK l \in Nat : l = Len(g[i].ids)
    BY <2>2, LenProperties
  <2>4. PICK d : /\ Enumerates(d, l, Left(h[e[i]].ids, gone))
                 /\ \A k \in 1 .. l : g[i].ids[k] = h[e[i]].ids[d[k]]
    BY <2>2, <2>3 DEF IsSublist
  <2>5. \A k \in 1 .. l : i + k <= Len(g) /\ e[i + k] = e[i] + d[k]
    <3>1. PICK n \in Nat : n = Len(g)
      BY <1>2
    <3>2. Enumerates(e, n, Staying(h, gone)) /\ i \in 1 .. n
      BY <1>3, <3>1
    <3>3. \A k \in 1 .. l : i + k <= n /\ e[i + k] = e[i] + d[k]
      BY <2>1, <2>4, <3>2, RoundStays
    <3> QED
      BY <3>1, <3>3
  <2>6. \A k \in 1 .. l : d[k] \in 1 .. Len(h[e[i]].ids)
    BY <2>2, <2>4 DEF Enumerates
  <2> QED
    BY <2>2, <2>3, <2>4, <2>5, <2>6
<1>6. CallsAnsweredIn(g)
  <2> SUFFICES ASSUME NEW i \in 1 .. Len(g), g[i].role = "assistant"
               PROVE  /\ i + Len(g[i].ids) <= Len(g)
                      /\ \A k \in 1 .. Len(g[i].ids) :
                           g[i + k].role = "tool" /\ g[i + k].id = g[i].ids[k]
    BY DEF CallsAnsweredIn
  <2>1. PICK l \in Nat : l = Len(g[i].ids)
    BY <1>5
  <2>2. PICK d : \A k \in 1 .. l :
                   /\ g[i].ids[k] = h[e[i]].ids[d[k]]
                   /\ i + k <= Len(g) /\ e[i + k] = e[i] + d[k]
                   /\ d[k] \in 1 .. Len(h[e[i]].ids)
    BY <1>5, <2>1
  <2>3. \A k \in 1 .. Len(h[e[i]].ids) :
          h[e[i] + k].role = "tool" /\ h[e[i] + k].id = h[e[i]].ids[k]
    BY <1>4 DEF Sound, CallsAnsweredIn
  <2>4. ASSUME NEW k \in 1 .. l
        PROVE  g[i + k].role = "tool" /\ g[i + k].id = g[i].ids[k]
    <3>1. PICK x \in 1 .. Len(g) : x = i + k
      BY <2>2
    <3>2. e[x] = e[i] + d[k]
      BY <2>2, <3>1
    <3>3. h[e[x]].role = "tool" /\ h[e[x]].id = g[i].ids[k]
      BY <2>2, <2>3, <3>2
    <3>4. g[x] = h[e[x]]
      BY <1>4, <3>3
    <3> QED
      BY <3>1, <3>3, <3>4
  <2>5. i + l <= Len(g)
    <3>1. CASE l = 0
      BY <1>2, <3>1
    <3>2. CASE l # 0
      <4>1. l \in 1 .. l
        BY <3>2
      <4> QED
        BY <2>2, <4>1
    <3> QED
      BY <3>1, <3>2
  <2> QED
    BY <2>1, <2>4, <2>5
<1>7. ResultsCalledIn(g)
  <2> SUFFICES ASSUME NEW i \in 1 .. Len(g), g[i].role = "tool"
               PROVE  \E j \in 1 .. i - 1 : g[j].role = "assistant" /\ i <= j + Len(g[j].ids)
    BY DEF ResultsCalledIn
  <2>1. PICK q \in 1 .. Len(h) : q = e[i] /\ h[q].role = "tool" /\ q \in Staying(h, gone)
    BY <1>4
  <2>2. h[q].id \notin gone
    BY <2>1 DEF Staying, Stays
  <2>3. PICK p \in 1 .. q - 1 : h[p].role = "assistant" /\ q <= p + Len(h[p].ids)
    BY <2>1 DEF Sound, ResultsCalledIn
  <2>4. p \in 1 .. Len(h) /\ p < q
    BY <1>1
  <2>5. h[p].ids \in Seq(IdSet) /\ Len(h[p].ids) \in Nat
    BY <1>1, <2>3, <2>4, ElementOfSeq, IdsOfAssistant
  <2>6. PICK c \in 1 .. Len(h[p].ids) : q = p + c
    <3>1. q - p \in 1 .. Len(h[p].ids) /\ q = p + (q - p)
      BY <2>3, <2>5
    <3> QED
      BY <3>1
  <2>7. c \in Left(h[p].ids, gone)
    <3>1. h[q].id = h[p].ids[c]
      BY <2>3, <2>4, <2>6 DEF Sound, CallsAnsweredIn
    <3> QED
      BY <2>2, <2>5, <3>1, LenProperties DEF Left
  <2>8. p \in Staying(h, gone)
    BY <1>1, <2>3, <2>4, <2>7 DEF Staying, Stays
  <2>9. PICK x \in 1 .. Len(g) : e[x] = p
    BY <1>3, <2>8 DEF Enumerates
  <2>10. g[x].role = "assistant"
    BY <1>4, <2>3, <2>9
  <2>11. PICK d : /\ Enumerates(d, Len(g[x].ids), Left(h[p].ids, gone))
                  /\ \A k \in 1 .. Len(g[x].ids) :
                       x + k <= Len(g) /\ e[x + k] = p + d[k]
    BY <1>5, <2>9, <2>10
  <2>12. PICK k \in 1 .. Len(g[x].ids) : d[k] = c
    BY <2>7, <2>11 DEF Enumerates
  <2>13. Len(g[x].ids) \in Nat
    BY <1>5, <2>10
  <2>14. PICK y \in 1 .. Len(g) : y = x + k
    BY <1>2, <2>11, <2>12, <2>13
  <2>15. e[y] = e[i]
    BY <2>1, <2>6, <2>11, <2>12, <2>14
  <2>16. y = i
    <3>1. (y < i => e[y] < e[i]) /\ (i < y => e[i] < e[y])
      BY <1>3 DEF Enumerates
    <3>2. e[i] \in Nat
      BY <2>1
    <3> QED
      BY <1>2, <2>15, <3>1, <3>2
  <2>17. PICK l \in Nat : l = Len(g[x].ids) /\ k \in 1 .. l
    BY <2>13
  <2>18. x \in 1 .. i - 1 /\ i <= x + l
    BY <2>14, <2>16, <2>17
  <2> QED
    BY <2>10, <2>17, <2>18
<1> QED
  BY <1>0, <1>2, <1>6, <1>7 DEF Sound

LEMMA KeptIs ==
  ASSUME NEW h \in Seq(Messages)
  PROVE  /\ KeptAt(h) \in SUBSET (1 .. Len(h))
         /\ Kept(h) \in Seq(Messages) /\ IsSublist(Kept(h), h, KeptAt(h))
<1>1. KeptAt(h) \in SUBSET (1 .. Len(h))
  BY LenProperties DEF KeptAt
<1> QED
  BY <1>1, SublistIs DEF Kept

LEMMA KeptUser ==
  ASSUME NEW h \in Seq(Messages), NEW w \in Texts
  PROVE  Kept(Append(h, User(w))) = Kept(h)
<1>0. PICK g : g = Append(h, User(w))
  OBVIOUS
<1>1. Len(h) \in Nat /\ User(w) \in Messages /\ User(w).role = "user"
  BY UserMessage, LenProperties
<1>2. /\ g \in Seq(Messages) /\ Len(g) = Len(h) + 1 /\ g[Len(h) + 1] = User(w)
      /\ \A i \in 1 .. Len(h) : g[i] = h[i]
  BY <1>0, <1>1, AppendProperties
<1>3. DOMAIN g = 1 .. Len(h) + 1 /\ DOMAIN h = 1 .. Len(h)
  BY <1>2, LenProperties
<1>4. KeptAt(g) = KeptAt(h)
  <2>1. ASSUME NEW i \in DOMAIN g, g[i].role = "tool" PROVE i \in DOMAIN h /\ g[i] = h[i]
    BY <1>1, <1>2, <1>3, <2>1
  <2>2. ASSUME NEW i \in DOMAIN h PROVE i \in DOMAIN g /\ g[i] = h[i]
    BY <1>1, <1>2, <1>3
  <2> QED
    BY <2>1, <2>2 DEF KeptAt
<1>5. PICK t : t = Kept(g)
  OBVIOUS
<1>6. t \in Seq(Messages) /\ IsSublist(t, g, KeptAt(h))
  BY <1>2, <1>4, <1>5, KeptIs
<1>7. KeptAt(h) \in SUBSET (1 .. Len(h)) /\ KeptAt(h) \in SUBSET Nat
  BY KeptIs
<1>8. IsSublist(t, h, KeptAt(h))
  <2>1. PICK e : /\ Enumerates(e, Len(t), KeptAt(h))
                 /\ \A i \in 1 .. Len(t) : t[i] = g[e[i]]
    BY <1>6 DEF IsSublist
  <2>2. \A i \in 1 .. Len(t) : e[i] \in 1 .. Len(h)
    BY <1>7, <2>1 DEF Enumerates
  <2> QED
    BY <1>2, <2>1, <2>2 DEF IsSublist
<1> QED
  BY <1>0, <1>5, <1>6, <1>7, <1>8, KeptIs, SublistUnique

(* Results that stay are all that is kept, when no other result has   *)
(* their ids.                                                              *)
LEMMA KeptStays ==
  ASSUME NEW h \in Seq(Messages), NEW gone, \A i \in KeptAt(h) : h[i].id \notin gone
  PROVE  Kept(Without(h, gone)) = Kept(h)
<1>0. PICK g : g = Without(h, gone)
  OBVIOUS
<1>1. DOMAIN h = 1 .. Len(h) /\ Len(h) \in Nat
  BY LenProperties
<1>2. g \in Seq(Messages) /\ Len(g) \in Nat /\ DOMAIN g = 1 .. Len(g)
  BY <1>0, WithoutShape, LenProperties
<1>3. PICK e : /\ Enumerates(e, Len(g), Staying(h, gone))
               /\ \A i \in 1 .. Len(g) : g[i] = Prune(h[e[i]], gone)
  BY <1>0, WithoutShape
<1>4. ASSUME NEW i \in 1 .. Len(g)
      PROVE  /\ e[i] \in 1 .. Len(h) /\ g[i].role = h[e[i]].role
             /\ g[i].role # "assistant" => g[i] = h[e[i]]
  <2>1. e[i] \in 1 .. Len(h)
    BY <1>3, WithoutShape DEF Enumerates
  <2>2. h[e[i]] \in Messages
    BY <2>1, ElementOfSeq
  <2> QED
    BY <1>3, <2>1, <2>2, Pruned
<1>5. /\ KeptAt(g) \in SUBSET (1 .. Len(g))
      /\ Kept(g) \in Seq(Messages) /\ IsSublist(Kept(g), g, KeptAt(g))
  BY <1>2, KeptIs
<1>6. \A x \in 1 .. Len(g) : x \in KeptAt(g) <=> e[x] \in KeptAt(h)
  BY <1>1, <1>2, <1>4 DEF KeptAt
<1>7. PICK t : t = Kept(g)
  OBVIOUS
<1>8. PICK n \in Nat : n = Len(t)
  BY <1>5, <1>7, LenProperties
<1>9. PICK f : Enumerates(f, n, KeptAt(g)) /\ \A i \in 1 .. n : t[i] = g[f[i]]
  BY <1>5, <1>7, <1>8 DEF IsSublist
<1>10. \A i \in 1 .. n : f[i] \in 1 .. Len(g) /\ f[i] \in KeptAt(g)
  BY <1>5, <1>9 DEF Enumerates
<1> DEFINE d == [i \in 1 .. n |-> e[f[i]]]
<1>11. Enumerates(d, n, KeptAt(h))
  <2>1. d \in [1 .. n -> KeptAt(h)]
    BY <1>6, <1>10
  <2>2. \A i, j \in 1 .. n : i < j => d[i] < d[j]
    BY <1>3, <1>9, <1>10 DEF Enumerates
  <2>3. ASSUME NEW k \in KeptAt(h) PROVE \E i \in 1 .. n : d[i] = k
    <3>1. k \in Staying(h, gone)
      BY DEF KeptAt, Staying, Stays
    <3>2. PICK x \in 1 .. Len(g) : e[x] = k
      BY <1>3, <3>1 DEF Enumerates
    <3>3. x \in KeptAt(g)
      BY <1>6, <3>2
    <3>4. PICK i \in 1 .. n : f[i] = x
      BY <1>9, <3>3 DEF Enumerates
    <3> QED
      BY <3>2, <3>4
  <2> HIDE DEF d
  <2> QED
    BY <2>1, <2>2, <2>3 DEF Enumerates
<1>12. \A i \in 1 .. n : t[i] = h[d[i]]
  <2> SUFFICES ASSUME NEW i \in 1 .. n PROVE t[i] = h[d[i]]
    OBVIOUS
  <2>1. g[f[i]].role = "tool"
    BY <1>10 DEF KeptAt
  <2>2. g[f[i]] = h[e[f[i]]]
    BY <1>4, <1>10, <2>1
  <2> QED
    BY <1>9, <2>2
<1>13. IsSublist(t, h, KeptAt(h))
  <2> HIDE DEF d
  <2> QED
    BY <1>8, <1>11, <1>12 DEF IsSublist
<1>14. t \in Seq(Messages) /\ KeptAt(h) \in SUBSET Nat
  BY <1>5, <1>7, KeptIs
<1>15. Kept(h) = t
  <2>1. PICK u : u = Kept(h)
    OBVIOUS
  <2>2. u \in Seq(Messages) /\ IsSublist(u, h, KeptAt(h))
    BY <2>1, KeptIs
  <2> QED
    BY <1>13, <1>14, <2>1, <2>2, SublistUnique
<1> QED
  BY <1>0, <1>7, <1>15

-----------------------------------------------------------------------------
(* While the turn goes on.  A result of an interrupted call comes with the *)
(* round that ends run, and the ids of a round are new.                    *)

Traces(m) == m.role = "tool" /\ m.kind \in Interrupted
NoTrace(h) == \A i \in 1 .. Len(h) : ~Traces(h[i])
TraceLast(h) == \A i, j \in 1 .. Len(h) : Traces(h[i]) /\ h[j] = Nudge => j < i

Fresh(h, n) ==
  \A i \in 1 .. Len(h) : h[i].role = "tool" /\ OwnId(h[i].id) =>
      /\ h[i].id[2] \in 0 .. n - 1
      /\ \A j \in 1 .. Len(h) : h[j].role = "tool" /\ h[j].id = h[i].id => j = i

Asked == pc \in {"ask", "wait", "act", "batch", "save"}

(* A batch with an interrupted result is the last of its round.            *)
ResultsClean ==
  pc \in {"act", "batch"} => \A k \in 1 .. Len(results) : results[k].kind \notin Interrupted

(* The ids of the n-th answer.                                             *)
NumberedBy(cs, n) ==
  \A k \in 1 .. Len(cs) : OwnId(cs[k].id) => cs[k].id = <<"own", n, k>>

Numbered == pc \in {"act", "batch", "save"} => NumberedBy(calls, step + 1)

EndInv ==
  /\ NoTrace(snapMessages) /\ Fresh(snapMessages, 1)
  /\ pc = "overflow" => Fresh(history, 1)
  /\ pc # "closed" => /\ outcome # "interrupted" => NoTrace(history)
                      /\ TraceLast(history)
                      /\ Fresh(history, IF Asked THEN step + 1 ELSE step + 2)

LEMMA TraceGrowth ==
  ASSUME NEW h, NEW g, Len(h) \in Nat, Len(g) \in Nat, Grows(h, g),
         \A i \in Len(h) + 1 .. Len(g) : g[i].role = "user"
  PROVE  (NoTrace(h) => NoTrace(g)) /\ \A n \in Nat : Fresh(h, n) => Fresh(g, n)
<1>1. \A i \in 1 .. Len(g) : g[i].role = "tool" => i \in 1 .. Len(h) /\ g[i] = h[i]
  <2> SUFFICES ASSUME NEW i \in 1 .. Len(g), g[i].role = "tool"
               PROVE  i \in 1 .. Len(h) /\ g[i] = h[i]
    OBVIOUS
  <2>1. ~(i \in Len(h) + 1 .. Len(g))
    OBVIOUS
  <2>2. i \in 1 .. Len(h)
    BY <2>1
  <2> QED
    BY <2>2 DEF Grows
<1>2. NoTrace(h) => NoTrace(g)
  BY <1>1 DEF NoTrace, Traces
<1>3. \A n \in Nat : Fresh(h, n) => Fresh(g, n)
  BY <1>1 DEF Fresh
<1> QED
  BY <1>2, <1>3

LEMMA TraceUser ==
  ASSUME NEW h, Sound(h), NEW w \in Texts
  PROVE  /\ NoTrace(h) => NoTrace(Append(h, User(w)))
         /\ \A n \in Nat : Fresh(h, n) => Fresh(Append(h, User(w)), n)
<1>0. PICK g : g = Append(h, User(w))
  OBVIOUS
<1>1. h \in Seq(Messages) /\ Len(h) \in Nat /\ User(w) \in Messages /\ User(w).role = "user"
  BY UserMessage, LenProperties DEF Sound
<1>2. Len(g) = Len(h) + 1 /\ g[Len(h) + 1] = User(w)
  BY <1>0, <1>1, AppendProperties
<1>3. Grows(h, g)
  BY <1>0, GrowsByUser
<1>4. \A i \in Len(h) + 1 .. Len(g) : i = Len(h) + 1
  BY <1>1, <1>2
<1>5. (\A i \in Len(h) + 1 .. Len(g) : g[i].role = "user") /\ Len(g) \in Nat
  BY <1>1, <1>2, <1>4
<1>6. (NoTrace(h) => NoTrace(g)) /\ \A n \in Nat : Fresh(h, n) => Fresh(g, n)
  BY <1>1, <1>3, <1>5, TraceGrowth
<1> QED
  BY <1>0, <1>6

LEMMA TraceContext ==
  ASSUME NEW h, Sound(h), NEW g \in WithContext(h)
  PROVE  (NoTrace(h) => NoTrace(g)) /\ \A n \in Nat : Fresh(h, n) => Fresh(g, n)
  BY TraceUser DEF WithContext, Texts

LEMMA TraceEmpty == NoTrace(<<>>) /\ \A n \in Nat : Fresh(<<>>, n)
  BY EmptySeq DEF NoTrace, Fresh

LEMMA TraceCompacted ==
  ASSUME NEW h, Sound(h), NEW g \in Compacted(h)
  PROVE  (NoTrace(h) => NoTrace(g)) /\ \A n \in Nat : Fresh(h, n) => Fresh(g, n)
<1>0. PICK u : u = <<User("summary")>>
  OBVIOUS
<1>1. Sound(u) /\ NoTrace(u) /\ \A n \in Nat : Fresh(u, n)
  <2>1. u = Append(<<>>, User("summary"))
    BY <1>0, UserMessage DEF Texts
  <2> QED
    BY <2>1, SoundEmpty, SoundUser, TraceEmpty, TraceUser DEF Texts
<1>2. \/ g = h
      \/ \E f \in WithContext(u) : g \in WithContext(f)
      \/ \E f \in WithContext(h) : g \in WithContext(f)
  BY <1>0 DEF Compacted
<1> QED
  BY <1>1, <1>2, TraceContext, SoundContext

LEMMA NoTraceLast == ASSUME NEW h, NoTrace(h) PROVE TraceLast(h)
  BY DEF NoTrace, TraceLast

LEMMA TraceRound ==
  ASSUME NEW h, Sound(h), NEW t \in BOOLEAN, NEW cs \in Seq(CallSet), NEW rs \in Seq(ResultSet),
         Len(rs) = Len(cs),
         NEW g, g = WithRound(h, t, cs, rs)
  PROVE  /\ NoTrace(h) => TraceLast(g)
         /\ NoTrace(h) /\ (\A k \in 1 .. Len(rs) : rs[k].kind \notin Interrupted) => NoTrace(g)
         /\ \A n \in Nat : NumberedBy(cs, n + 1) => (Fresh(h, n + 1) => Fresh(g, n + 2))
<1>1. /\ Grows(h, g) /\ Len(h) \in Nat /\ Len(cs) \in Nat
      /\ Len(g) = Len(h) + 1 + Len(cs)
      /\ g[Len(h) + 1] = Assistant(t, Ids(cs))
      /\ \A k \in 1 .. Len(cs) : g[Len(h) + 1 + k] = Tool(cs[k].id, rs[k])
  BY RoundShape
(* A message is an old one, the answer, or a result.                       *)
<1>2. ASSUME NEW i \in 1 .. Len(g)
      PROVE  \/ i \in 1 .. Len(h) /\ g[i] = h[i]
             \/ i = Len(h) + 1 /\ g[i].role = "assistant"
             \/ \E k \in 1 .. Len(cs) : /\ i = Len(h) + 1 + k
                                        /\ g[i].role = "tool" /\ g[i].id = cs[k].id
                                        /\ g[i].kind = rs[k].kind
  <2>1. CASE i <= Len(h)
    BY <1>1, <2>1 DEF Grows
  <2>2. CASE i = Len(h) + 1
    BY <1>1, <2>2 DEF Assistant
  <2>3. CASE i > Len(h) + 1
    <3>1. i - Len(h) - 1 \in 1 .. Len(cs) /\ i = Len(h) + 1 + (i - Len(h) - 1)
      BY <1>1, <2>3
    <3>2. PICK k \in 1 .. Len(cs) : i = Len(h) + 1 + k
      BY <3>1
    <3>3. g[i] = Tool(cs[k].id, rs[k])
      BY <1>1, <3>2
    <3> QED
      BY <3>2, <3>3 DEF Tool
  <2> QED
    BY <1>1, <2>1, <2>2, <2>3
<1>3. ASSUME NoTrace(h) PROVE TraceLast(g)
  <2> SUFFICES ASSUME NEW i \in 1 .. Len(g), NEW j \in 1 .. Len(g), Traces(g[i]), g[j] = Nudge
               PROVE  j < i
    BY DEF TraceLast
  <2>1. i > Len(h)
    <3>1. ~(i \in 1 .. Len(h) /\ g[i] = h[i])
      BY <1>3 DEF NoTrace
    <3> QED
      BY <1>1, <1>2, <3>1
  <2>2. j \in 1 .. Len(h)
    <3>1. g[j].role = "user"
      BY DEF Nudge, User
    <3> QED
      BY <1>2, <3>1
  <2> QED
    BY <1>1, <2>1, <2>2
<1>4. ASSUME NoTrace(h), \A k \in 1 .. Len(rs) : rs[k].kind \notin Interrupted PROVE NoTrace(g)
  BY <1>2, <1>4 DEF NoTrace, Traces
<1>5. ASSUME NEW n \in Nat, NumberedBy(cs, n + 1), Fresh(h, n + 1) PROVE Fresh(g, n + 2)
  <2> SUFFICES ASSUME NEW i \in 1 .. Len(g), g[i].role = "tool", OwnId(g[i].id)
               PROVE  /\ g[i].id[2] \in 0 .. n + 2 - 1
                      /\ \A j \in 1 .. Len(g) : g[j].role = "tool" /\ g[j].id = g[i].id => j = i
    BY DEF Fresh
  <2>2. ASSUME NEW j \in 1 .. Len(g), g[j].role = "tool", OwnId(g[j].id)
        PROVE  \/ j \in 1 .. Len(h) /\ g[j] = h[j] /\ g[j].id[2] \in 0 .. n
               \/ \E k \in 1 .. Len(cs) : j = Len(h) + 1 + k /\ g[j].id = <<"own", n + 1, k>>
    <3>1. CASE j \in 1 .. Len(h) /\ g[j] = h[j]
      BY <1>5, <2>2, <3>1 DEF Fresh
    <3> QED
      BY <1>2, <1>5, <2>2, <3>1 DEF NumberedBy
  <2>3. CASE i \in 1 .. Len(h) /\ g[i] = h[i] /\ g[i].id[2] \in 0 .. n
    <3>1. ASSUME NEW j \in 1 .. Len(g), g[j].role = "tool", g[j].id = g[i].id PROVE j = i
      <4>1. ~ \E k \in 1 .. Len(cs) : g[j].id = <<"own", n + 1, k>>
        <5>1. \A k : <<"own", n + 1, k>>[2] = n + 1
          OBVIOUS
        <5> QED
          BY <2>3, <3>1, <5>1
      <4>2. j \in 1 .. Len(h) /\ g[j] = h[j]
        BY <2>2, <3>1, <4>1
      <4> QED
        BY <1>5, <2>3, <3>1, <4>2 DEF Fresh
    <3> QED
      BY <2>3, <3>1
  <2>4. CASE \E k \in 1 .. Len(cs) : i = Len(h) + 1 + k /\ g[i].id = <<"own", n + 1, k>>
    <3>1. PICK k \in 1 .. Len(cs) : i = Len(h) + 1 + k /\ g[i].id = <<"own", n + 1, k>>
      BY <2>4
    <3>2. g[i].id[2] = n + 1 /\ g[i].id[3] = k
      BY <3>1
    <3>3. ASSUME NEW j \in 1 .. Len(g), g[j].role = "tool", g[j].id = g[i].id PROVE j = i
      <4>1. ~(g[j].id[2] \in 0 .. n)
        BY <3>2, <3>3
      <4>2. PICK l \in 1 .. Len(cs) : j = Len(h) + 1 + l /\ g[j].id = <<"own", n + 1, l>>
        BY <2>2, <3>3, <4>1
      <4>3. g[j].id[3] = l
        BY <4>2
      <4> QED
        BY <3>1, <3>2, <3>3, <4>2, <4>3
    <3> QED
      BY <3>2, <3>3
  <2> QED
    BY <2>2, <2>3, <2>4
<1> QED
  BY <1>3, <1>4, <1>5

LEMMA TraceOld == ASSUME NEW g \in OldRounds PROVE NoTrace(g) /\ Fresh(g, 1)
<1>0. PICK id \in IdSet, s \in Kinds \ Interrupted :
        /\ g = <<User("prompt"), Assistant(FALSE, <<id>>), Tool(id, Result(s, Null)),
                 Assistant(TRUE, <<>>)>>
        /\ OwnId(id) => id = <<"own", 0, 1>>
  BY OldShape
<1> DEFINE a == Assistant(FALSE, <<id>>)
           r == Tool(id, Result(s, Null))
           e == Assistant(TRUE, <<>>)
           p == User("prompt")
<1>1. /\ p.role # "tool" /\ a.role # "tool" /\ e.role # "tool"
      /\ r.kind \notin Interrupted /\ r.id = id
  BY DEF User, Assistant, Tool, Result
<1>2. g = <<p, a, r, e>>
  BY <1>0
<1>3. OwnId(id) => id[2] = 0
  BY <1>0
<1> HIDE DEF p, a, r, e
<1>4. /\ Len(g) = 4 /\ g[1] = p /\ g[2] = a
      /\ g[3] = r /\ g[4] = e
  BY <1>2
<1>5. \A i \in 1 .. 4 : g[i].role = "tool" => i = 3
  BY <1>1, <1>4
<1>6. NoTrace(g)
  BY <1>1, <1>4, <1>5 DEF NoTrace, Traces
<1>7. Fresh(g, 1)
  BY <1>1, <1>3, <1>4, <1>5 DEF Fresh
<1> QED
  BY <1>6, <1>7

LEMMA FreshOn ==
  ASSUME NEW h, NEW n \in Nat, NEW m \in Nat, n <= m, Fresh(h, n)
  PROVE  Fresh(h, m)
  BY DEF Fresh

LEMMA EndInit == Init => EndInv /\ ResultsClean /\ Numbered
<1> SUFFICES ASSUME Init PROVE EndInv /\ ResultsClean /\ Numbered
  OBVIOUS
<1> USE DEF Init
<1>1. NoTrace(snapMessages) /\ Fresh(snapMessages, 1) /\ Sound(snapMessages)
  BY TraceOld, TraceEmpty, LoopInit DEF LoopInv, Histories
<1>2. PICK h : /\ h \in WithContext(<<>>) \/ h = snapMessages
               /\ history \in Compacted(Append(h, User("prompt")))
  OBVIOUS
<1>3. Sound(h) /\ NoTrace(h) /\ Fresh(h, 1)
  BY <1>1, <1>2, SoundEmpty, SoundContext, TraceEmpty, TraceContext
<1>4. PICK g : g = Append(h, User("prompt"))
  OBVIOUS
<1>5. Sound(g) /\ NoTrace(g) /\ Fresh(g, 1)
  BY <1>3, <1>4, SoundUser, TraceUser DEF Texts
<1>6. NoTrace(history) /\ Fresh(history, 1)
  BY <1>2, <1>4, <1>5, TraceCompacted
<1>7. TraceLast(history) /\ step + 1 = 1 /\ Asked /\ pc = "ask"
  BY <1>6, NoTraceLast DEF Asked
<1> QED
  BY <1>1, <1>6, <1>7 DEF EndInv, ResultsClean, Numbered

LEMMA CallsNumbered ==
  ASSUME LoopInv, NEW keys \in Responses, NEW kind \in IdKinds
  PROVE  NumberedBy(Calls(keys, kind), step + 1)
<1>1. PICK cs \in Seq(CallSet) : cs = Calls(keys, kind)
  BY CallsTyped DEF LoopInv, Counts
<1>2. DOMAIN cs = 1 .. Len(cs) /\ DOMAIN cs = DOMAIN keys
  BY <1>1, LenProperties DEF Calls
<1>3. ASSUME NEW k \in 1 .. Len(cs), OwnId(cs[k].id) PROVE cs[k].id = <<"own", step + 1, k>>
  <2>1. cs[k].id = IdOf(kind, keys[k], k)
    BY <1>1, <1>2 DEF Calls
  <2>2. kind \in {"own", "dsml", "none"}
    BY LoopAssumption
  <2> QED
    BY <1>3, <2>1, <2>2 DEF IdOf, OwnId
<1> QED
  BY <1>1, <1>3 DEF NumberedBy

LEMMA NumberedStep == ASSUME LoopInv, Numbered, [Next]_vars PROVE Numbered'
<1> USE DEF Numbered
<1>1. ASSUME UNCHANGED <<calls, step>>, pc' \in {"act", "batch", "save"} => pc \in {"act", "batch", "save"}
      PROVE  Numbered'
  BY <1>1 DEF NumberedBy
<1>2. CASE Answer
  <2>1. PICK keys \in Responses, kind \in IdKinds : calls' = Calls(keys, kind)
    BY <1>2 DEF Answer
  <2>2. UNCHANGED step
    BY <1>2 DEF Answer, round
  <2> QED
    BY <2>1, <2>2, CallsNumbered
<1>3. ASSUME \/ UNCHANGED vars \/ BackendError \/ StreamEnds \/ Wait \/ AnswerRejected
             \/ StartCompact \/ Rollback \/ OverflowCompactFails \/ EndTurn
             \/ ActCancelled \/ StartBatch \/ EndBatch
             \/ Cancel \/ \E p \in Injects : Inject(p)
      PROVE  /\ UNCHANGED <<calls, step>>
             /\ pc' \in {"act", "batch", "save"} => pc \in {"act", "batch", "save"}
  BY <1>3 DEF vars, BackendError, StreamEnds, Wait, AnswerRejected, StartCompact,
     Rollback, OverflowCompactFails, EndTurn, ActCancelled, StartBatch, EndBatch,
     Cancel, Inject, Return, Retry, round, answer
<1>4. ASSUME NEW k \in DOMAIN worker, Call(k) PROVE UNCHANGED <<calls, step, pc>>
  BY <1>4 DEF Call, ExecOne, PreTool, ExecReturn, PostTool, answer, round
<1>5. ASSUME Save \/ NoCompact \/ EndCompact \/ RunAgain
      PROVE  pc' \notin {"act", "batch", "save"}
  BY <1>5 DEF Save, NoCompact, EndCompact, RunAgain, NextRound, Return
<1> QED
  BY <1>1, <1>2, <1>3, <1>4, <1>5 DEF Next, Run

LEMMA ResultsCleanStep == ASSUME LoopInv, ResultsClean, [Next]_vars PROVE ResultsClean'
<1> USE DEF ResultsClean
<1>1. ASSUME UNCHANGED results, pc' \in {"act", "batch"} => pc \in {"act", "batch"}
      PROVE  ResultsClean'
  BY <1>1
<1>2. CASE Answer
  <2>1. results' = <<>> /\ Len(<<>>) = 0
    BY <1>2 DEF Answer
  <2> QED
    BY <2>1
<1>3. CASE EndBatch
  <2> DEFINE last == next + Cardinality(DOMAIN worker) - 1
             outs == [k \in 1 .. last + 1 - next |-> found[First(next + k - 1)]]
  <2>1. pc = "batch"
    BY <1>3 DEF EndBatch
  <2>2. \/ pc' = "save"
        \/ /\ results' = results \o outs
           /\ \A k \in DOMAIN found : found[k].kind \notin Interrupted
    BY <1>3 DEF EndBatch
  <2>3. /\ Len(calls) \in Nat /\ next \in 1 .. Len(calls) /\ results \in Seq(ResultSet)
        /\ DOMAIN worker = BatchFrom(next) /\ found \in [DOMAIN worker -> ResultSet]
    BY <2>1, LenProperties DEF LoopInv, Answered, Batched
  <2>4. PICK m \in next .. Len(calls) : DOMAIN worker = next .. m
    BY <2>3, BatchInterval
  <2>5. last + 1 - next = m + 1 - next
    <3>1. Cardinality(next .. m) = m - next + 1
      BY <2>3, <2>4, FS_Interval
    <3> QED
      BY <2>3, <2>4, <3>1
  <2>6. PICK l \in Nat : l = m + 1 - next
    BY <2>3, <2>4
  <2>7. ASSUME NEW k \in 1 .. l
        PROVE  /\ First(next + k - 1) \in DOMAIN worker
               /\ outs[k] = found[First(next + k - 1)] /\ outs[k] \in ResultSet
    <3>1. next + k - 1 \in DOMAIN worker /\ DOMAIN worker \in SUBSET Nat
      BY <2>3, <2>4, <2>6
    <3>2. First(next + k - 1) \in DOMAIN worker
      BY <3>1, FirstInBatch
    <3> QED
      BY <2>3, <2>5, <2>6, <3>2
  <2>8. outs \in [1 .. l -> ResultSet]
    BY <2>5, <2>6, <2>7
  <2> HIDE DEF outs
  <2>9. outs \in Seq(ResultSet) /\ Len(outs) = l
    BY <2>8, SeqOfFunction
  <2>10. CASE /\ results' = results \o outs
              /\ \A k \in DOMAIN found : found[k].kind \notin Interrupted
    <3>1. \A k \in 1 .. Len(outs) : outs[k].kind \notin Interrupted
      BY <2>3, <2>7, <2>9, <2>10
    <3>2. PICK n \in Nat : n = Len(results)
      BY <2>3, LenProperties
    <3>3. /\ Len(results') = n + l
          /\ \A k \in 1 .. n + l : results'[k] = IF k <= n THEN results[k] ELSE outs[k - n]
      BY <2>3, <2>9, <2>10, <3>2, ConcatProperties
    <3>4. ASSUME NEW k \in 1 .. n + l PROVE results'[k].kind \notin Interrupted
      <4>1. CASE k <= n
        BY <2>1, <3>2, <3>3, <4>1
      <4>2. CASE k > n
        <5>1. k - n \in 1 .. l
          BY <4>2
        <5> QED
          BY <2>9, <3>1, <3>3, <4>2, <5>1
      <4> QED
        BY <4>1, <4>2
    <3> QED
      BY <3>3, <3>4
  <2> QED
    BY <2>2, <2>10
<1>4. ASSUME \/ UNCHANGED vars \/ BackendError \/ StreamEnds \/ Wait \/ AnswerRejected
             \/ NoCompact \/ StartCompact \/ EndCompact
             \/ Rollback \/ RunAgain \/ OverflowCompactFails \/ EndTurn
             \/ StartBatch \/ Cancel \/ \E p \in Injects : Inject(p)
      PROVE  UNCHANGED results /\ (pc' \in {"act", "batch"} => pc \in {"act", "batch"})
  BY <1>4 DEF vars, BackendError, StreamEnds, Wait, AnswerRejected, NoCompact, StartCompact,
     EndCompact, NextRound, Rollback, RunAgain, OverflowCompactFails, EndTurn, StartBatch,
     Cancel, Inject, Return, Retry, answer
<1>5. ASSUME NEW k \in DOMAIN worker, Call(k) PROVE UNCHANGED results /\ pc' = pc
  BY <1>5 DEF Call, ExecOne, PreTool, ExecReturn, PostTool, answer
<1>6. ASSUME ActCancelled \/ Save PROVE pc' \notin {"act", "batch"}
  BY <1>6 DEF ActCancelled, Save, Return
<1> QED
  BY <1>1, <1>2, <1>3, <1>4, <1>5, <1>6 DEF Next, Run

LEMMA EndStep == LoopInv /\ ResultsClean /\ Numbered /\ EndInv /\ [Next]_vars => EndInv'
<1> SUFFICES ASSUME LoopInv, ResultsClean, Numbered, EndInv, [Next]_vars PROVE EndInv'
  OBVIOUS
<1> USE DEF EndInv
<1>0. /\ step \in Nat /\ (pc # "closed" => Sound(history)) /\ Sound(snapMessages)
      /\ pc \in Pcs /\ (outcome = "none") = Running
      /\ pc = "overflow" => outcome = "overflowed"
  BY DEF LoopInv, Counts, Histories, RunInv
<1>1. ASSUME UNCHANGED <<history, snapMessages, step>>, pc' # "overflow" \/ pc' = pc,
             pc # "closed" \/ pc' = "closed", Asked' => Asked,
             outcome' = outcome \/ outcome = "none"
      PROVE  EndInv'
  <2>1. CASE pc' = "closed"
    BY <1>1, <2>1
  <2>2. CASE pc' # "closed"
    <3>1. Fresh(history, IF Asked' THEN step + 1 ELSE step + 2)
      <4>1. Fresh(history, step + 1) => Fresh(history, step + 2)
        BY <1>0, FreshOn
      <4> QED
        BY <1>0, <1>1, <2>2, <4>1
    <3>2. outcome' # "interrupted" => NoTrace(history)
      BY <1>1, <2>2
    <3> QED
      BY <1>1, <2>2, <3>1, <3>2
  <2> QED
    BY <2>1, <2>2
<1>2. CASE StreamEnds
  <2>1. /\ UNCHANGED <<snapMessages, step>> /\ pc = "ask" /\ Asked
        /\ pc' \in {"wait", "ended"}
    BY <1>2 DEF StreamEnds, Return, Retry, round, turn, Asked
  <2>2. outcome = "none"
    BY <1>0, <2>1 DEF Running
  <2>3. CASE UNCHANGED history
    <3>1. Asked' => Asked
      BY <2>1
    <3> QED
      BY <1>1, <2>1, <2>2, <2>3, <3>1
  <2>4. ASSUME NEW keys \in Responses, NEW kind \in IdKinds, NEW text \in BOOLEAN,
               history' = history \o <<Assistant(text, Ids(Calls(keys, kind)))>>
                            \o ToolMessages(Calls(keys, kind), Cancelled(Calls(keys, kind))),
               pc' = "ended", outcome' = "interrupted"
        PROVE  EndInv'
    <3>1. Calls(keys, kind) \in Seq(CallSet)
      BY CallsTyped DEF LoopInv, Counts
    <3>2. /\ Cancelled(Calls(keys, kind)) \in Seq(ResultSet)
          /\ Len(Cancelled(Calls(keys, kind))) = Len(Calls(keys, kind))
      BY <3>1, CancelledTyped
    <3>3. history' = WithRound(history, text, Calls(keys, kind), Cancelled(Calls(keys, kind)))
      BY <2>4 DEF WithRound
    <3>4. NumberedBy(Calls(keys, kind), step + 1)
      BY CallsNumbered
    <3>5. NoTrace(history) /\ Fresh(history, step + 1)
      BY <2>1, <2>2
    <3>6. TraceLast(history') /\ Fresh(history', step + 2)
      <4>1. PICK cs \in Seq(CallSet) : cs = Calls(keys, kind)
        BY <3>1
      <4>2. PICK rs \in Seq(ResultSet) : rs = Cancelled(Calls(keys, kind)) /\ Len(rs) = Len(cs)
        BY <3>2, <4>1
      <4>3. PICK g : g = WithRound(history, text, cs, rs) /\ g = history'
        BY <3>3, <4>1, <4>2
      <4>4. NumberedBy(cs, step + 1)
        BY <3>4, <4>1
      <4>5. TraceLast(g)
        BY <1>0, <2>1, <3>5, <4>2, <4>3, TraceRound
      <4>6. Fresh(g, step + 2)
        BY <1>0, <2>1, <3>5, <4>2, <4>3, <4>4, TraceRound
      <4> QED
        BY <4>3, <4>5, <4>6
    <3>7. ~Asked'
      BY <2>4 DEF Asked
    <3> QED
      BY <2>1, <2>4, <3>6, <3>7
  <2>5. \/ UNCHANGED history
        \/ /\ pc' = "ended" /\ outcome' = "interrupted"
           /\ \E keys \in Responses, kind \in IdKinds, text \in BOOLEAN :
             history' = history \o <<Assistant(text, Ids(Calls(keys, kind)))>>
                          \o ToolMessages(Calls(keys, kind), Cancelled(Calls(keys, kind)))
    BY <1>2 DEF StreamEnds, Return
  <2> QED
    BY <2>3, <2>4, <2>5
<1>3. CASE Save
  <2>1. /\ Len(results) = Len(calls) /\ Len(calls) \in Nat
        /\ said \in BOOLEAN /\ calls \in Seq(CallSet) /\ results \in Seq(ResultSet)
    <3>1. Len(calls) \in Nat
      BY LenProperties DEF LoopInv, Answered
    <3>2. next = Len(calls) + 1
      BY <1>3, <3>1 DEF Save, LoopInv, Answered
    <3> QED
      BY <3>1, <3>2 DEF LoopInv, Answered
  <2>2. /\ pc \in {"save", "act"} /\ pc' \in {"ended", "round"}
        /\ UNCHANGED <<snapMessages, step>> /\ Asked /\ ~Asked'
    BY <1>3 DEF Save, Return, turn, Asked
  <2>3. PICK g : g = WithRound(history, said, calls, results)
    OBVIOUS
  <2>4. Recorded = g
    BY <2>3 DEF Recorded, WithRound
  <2>5. NoTrace(history) /\ Fresh(history, step + 1)
    BY <1>0, <2>2 DEF Running
  <2>6. NumberedBy(calls, step + 1)
    BY <2>2 DEF Numbered
  <2>7. /\ Sound(g) /\ TraceLast(g) /\ Fresh(g, step + 2)
        /\ pc = "act" => NoTrace(g)
    <3>1. Sound(g)
      BY <1>0, <2>1, <2>2, <2>3, SoundRecord DEF WithRound
    <3>2. TraceLast(g) /\ Fresh(g, step + 2)
      BY <1>0, <2>1, <2>2, <2>3, <2>5, <2>6, TraceRound
    <3>3. pc = "act" => NoTrace(g)
      BY <1>0, <2>1, <2>2, <2>3, <2>5, TraceRound DEF ResultsClean
    <3> QED
      BY <3>1, <3>2, <3>3
  <2>8. CASE pc = "save" /\ history' = g /\ outcome' = "interrupted"
    BY <2>2, <2>7, <2>8
  <2>9. CASE /\ pc = "act"
             /\ history' \in {g, WithNudge(g), Append(WithNudge(g), User("budget")),
                              Append(WithNudge(g), User("plan"))}
    <3>1. PICK n : n = WithNudge(g)
      OBVIOUS
    <3>2. Sound(n) /\ NoTrace(n) /\ Fresh(n, step + 2)
      <4>1. CASE n = g
        BY <2>7, <2>9, <4>1
      <4>2. CASE n = Append(g, User("nudge"))
        BY <1>0, <2>7, <2>9, <4>2, SoundUser, TraceUser DEF Texts
      <4> QED
        BY <3>1, <4>1, <4>2 DEF WithNudge
    <3>3. history' \in {g, n, Append(n, User("budget")), Append(n, User("plan"))}
      BY <2>9, <3>1
    <3>4. NoTrace(history') /\ Fresh(history', step + 2)
      <4>1. CASE history' = g
        BY <2>7, <2>9, <4>1
      <4>2. CASE history' = n
        BY <3>2, <4>2
      <4>3. CASE history' = Append(n, User("budget"))
        BY <1>0, <3>2, <4>3, TraceUser DEF Texts
      <4>4. CASE history' = Append(n, User("plan"))
        BY <1>0, <3>2, <4>4, TraceUser DEF Texts
      <4> QED
        BY <3>3, <4>1, <4>2, <4>3, <4>4
    <3> QED
      BY <2>2, <3>4, NoTraceLast
  <2>10. \/ pc = "save" /\ history' = g /\ outcome' = "interrupted"
         \/ /\ pc = "act"
            /\ history' \in {g, WithNudge(g), Append(WithNudge(g), User("budget")),
                             Append(WithNudge(g), User("plan"))}
    BY <1>3, <2>4 DEF Save, Return
  <2> QED
    BY <2>8, <2>9, <2>10
<1>4. CASE EndCompact
  <2>1. /\ pc = "compact" /\ UNCHANGED snapMessages /\ ~Asked /\ outcome = "none"
        /\ \/ pc' = "ask" /\ step' = step + 1 /\ Asked' /\ history' \in Compacted(history)
           \/ pc' = "ended" /\ step' = step /\ ~Asked' /\ history' \in WithContext(history)
    BY <1>0, <1>4 DEF EndCompact, CompactionFails, NextRound, Return, round, turn, Asked, Running
  <2>2. NoTrace(history) /\ Fresh(history, step + 2) /\ step + 2 \in Nat
    BY <1>0, <2>1
  <2>3. NoTrace(history') /\ Fresh(history', step + 2)
    BY <1>0, <2>1, <2>2, TraceCompacted, TraceContext
  <2>4. TraceLast(history')
    BY <2>3, NoTraceLast
  <2>5. Fresh(history', IF Asked' THEN step' + 1 ELSE step' + 2)
    <3>1. step + 1 + 1 = step + 2
      BY <1>0
    <3> QED
      BY <2>1, <2>3, <3>1
  <2> QED
    BY <2>1, <2>3, <2>4, <2>5
<1>5. CASE Rollback
  <2>1. /\ history' = snapMessages /\ UNCHANGED <<snapMessages, step>> /\ pc' = "overflow"
    BY <1>5 DEF Rollback, round
  <2>2. ~Asked' /\ step + 2 \in Nat /\ 1 <= step + 2
    BY <1>0, <2>1 DEF Asked
  <2>3. Fresh(snapMessages, step + 2) /\ TraceLast(snapMessages)
    BY <2>2, FreshOn, NoTraceLast
  <2> QED
    BY <2>1, <2>2, <2>3
<1>6. CASE RunAgain
  <2>1. PICK h \in Compacted(history) : history' = Append(h, User("prompt"))
    BY <1>6 DEF RunAgain
  <2>2. pc = "overflow" /\ pc' = "ask" /\ step' = 0 /\ UNCHANGED snapMessages /\ Asked'
    BY <1>6 DEF RunAgain, turn, Asked
  <2>3. NoTrace(history) /\ Fresh(history, 1)
    BY <1>0, <2>2
  <2>4. Sound(h) /\ NoTrace(h) /\ Fresh(h, 1)
    BY <1>0, <2>1, <2>2, <2>3, SoundCompacted, TraceCompacted
  <2>5. NoTrace(history') /\ Fresh(history', 1)
    BY <2>1, <2>4, TraceUser DEF Texts
  <2>6. TraceLast(history') /\ step' + 1 = 1
    BY <2>2, <2>5, NoTraceLast
  <2> QED
    BY <2>2, <2>5, <2>6
<1>7. CASE OverflowCompactFails
  <2>1. /\ history' \in WithContext(history) /\ pc = "overflow" /\ pc' = "ended"
        /\ UNCHANGED <<outcome, step, snapMessages>> /\ ~Asked'
    BY <1>7 DEF OverflowCompactFails, CompactionFails, round, turn, Asked
  <2>2. NoTrace(history) /\ Fresh(history, 1)
    BY <1>0, <2>1
  <2>3. NoTrace(history') /\ Fresh(history', 1)
    BY <1>0, <2>1, <2>2, TraceContext
  <2>4. TraceLast(history') /\ Fresh(history', step + 2)
    BY <1>0, <2>3, NoTraceLast, FreshOn
  <2> QED
    BY <2>1, <2>3, <2>4
<1>8. CASE EndTurn
  BY <1>8 DEF EndTurn, turn
<1>9. ASSUME \/ UNCHANGED vars \/ BackendError \/ Wait \/ Answer \/ AnswerRejected
             \/ ActCancelled \/ StartBatch \/ EndBatch \/ StartCompact
             \/ Cancel \/ \E p \in Injects : Inject(p)
      PROVE  EndInv'
  <2>1. UNCHANGED <<history, snapMessages, step>>
    BY <1>9 DEF vars, BackendError, Wait, Answer, AnswerRejected, ActCancelled, StartBatch,
       EndBatch, StartCompact, Cancel, Inject, Return, Retry, round, turn
  <2>2. \/ UNCHANGED <<pc, outcome>>
        \/ /\ Running /\ pc' \notin {"overflow", "closed"} /\ pc # "closed"
           /\ Asked' => Asked
    BY <1>9 DEF vars, BackendError, Wait, Answer, AnswerRejected, ActCancelled, StartBatch,
       EndBatch, StartCompact, Cancel, Inject, Return, Retry, Running, Asked
  <2>3. CASE UNCHANGED <<pc, outcome>>
    <3>1. Asked' = Asked
      BY <2>3 DEF Asked
    <3> QED
      BY <1>1, <2>1, <2>3, <3>1
  <2> QED
    BY <1>0, <1>1, <2>1, <2>2, <2>3
<1>10. ASSUME NEW k \in DOMAIN worker, Call(k)
       PROVE  EndInv'
  <2>1. UNCHANGED <<history, snapMessages, step, pc, outcome>>
    BY <1>10 DEF Call, ExecOne, PreTool, ExecReturn, PostTool, round, turn
  <2>2. Asked' = Asked
    BY <2>1 DEF Asked
  <2> QED
    BY <1>1, <2>1, <2>2
<1>11. CASE NoCompact
  <2>1. /\ UNCHANGED <<history, snapMessages, outcome>> /\ step' = step + 1
        /\ pc = "round" /\ pc' = "ask" /\ ~Asked /\ Asked'
    BY <1>11 DEF NoCompact, NextRound, turn, Asked
  <2>2. step' + 1 = step + 2
    BY <1>0, <2>1
  <2> QED
    BY <2>1, <2>2
<1> QED
  BY <1>2, <1>3, <1>4, <1>5, <1>6, <1>7, <1>8, <1>9, <1>10, <1>11 DEF Next, Run

-----------------------------------------------------------------------------
(* The end of the turn.                                                    *)

(* An element of what is left, and the message it was.                     *)
LEMMA WithoutElement ==
  ASSUME NEW h \in Seq(Messages), NEW gone
  PROVE  \E e : /\ Enumerates(e, Len(Without(h, gone)), Staying(h, gone))
                /\ \A i \in 1 .. Len(Without(h, gone)) :
                     /\ e[i] \in 1 .. Len(h) /\ e[i] \in Staying(h, gone)
                     /\ Without(h, gone)[i].role = h[e[i]].role
                     /\ h[e[i]].role # "assistant" => Without(h, gone)[i] = h[e[i]]
<1>1. PICK g : g = Without(h, gone)
  OBVIOUS
<1>2. PICK e : /\ Enumerates(e, Len(g), Staying(h, gone))
               /\ \A i \in 1 .. Len(g) : g[i] = Prune(h[e[i]], gone)
  BY <1>1, WithoutShape
<1>3. ASSUME NEW i \in 1 .. Len(g)
      PROVE  /\ e[i] \in 1 .. Len(h) /\ e[i] \in Staying(h, gone)
             /\ g[i].role = h[e[i]].role
             /\ h[e[i]].role # "assistant" => g[i] = h[e[i]]
  <2>1. e[i] \in 1 .. Len(h) /\ e[i] \in Staying(h, gone)
    BY <1>2, WithoutShape DEF Enumerates
  <2>2. h[e[i]] \in Messages
    BY <2>1, ElementOfSeq
  <2> QED
    BY <1>2, <2>1, <2>2, Pruned
<1> QED
  BY <1>1, <1>2, <1>3

(* No trace is left when all of their ids go.                              *)
LEMMA TracesGo ==
  ASSUME NEW h \in Seq(Messages), NEW gone,
         \A i \in 1 .. Len(h) : Traces(h[i]) => h[i].id \in gone
  PROVE  NoTrace(Without(h, gone))
<1>1. PICK g : g = Without(h, gone)
  OBVIOUS
<1>2. PICK e : /\ Enumerates(e, Len(g), Staying(h, gone))
               /\ \A i \in 1 .. Len(g) :
                    /\ e[i] \in 1 .. Len(h) /\ e[i] \in Staying(h, gone)
                    /\ g[i].role = h[e[i]].role
                    /\ h[e[i]].role # "assistant" => g[i] = h[e[i]]
  BY <1>1, WithoutElement
<1>3. ASSUME NEW i \in 1 .. Len(g), Traces(g[i]) PROVE FALSE
  <2>1. g[i] = h[e[i]] /\ h[e[i]].role = "tool"
    BY <1>2, <1>3 DEF Traces
  <2>2. h[e[i]].id \notin gone
    BY <1>2, <2>1 DEF Staying, Stays
  <2>3. Traces(h[e[i]])
    BY <1>3, <2>1
  <2> QED
    BY <1>2, <2>2, <2>3
<1> QED
  BY <1>1, <1>3 DEF NoTrace

(* The work between two nudges stays, when the traces come after them and  *)
(* no completed work goes.                                                 *)
LEMMA StreaksStay ==
  ASSUME NEW h \in Seq(Messages), NEW gone, Streaks(h), TraceLast(h),
         \A i \in CompletedAt(h) : h[i].id \notin gone
  PROVE  Streaks(Without(h, gone))
<1>1. PICK g : g = Without(h, gone)
  OBVIOUS
<1>2. PICK e : /\ Enumerates(e, Len(g), Staying(h, gone))
               /\ \A i \in 1 .. Len(g) :
                    /\ e[i] \in 1 .. Len(h) /\ e[i] \in Staying(h, gone)
                    /\ g[i].role = h[e[i]].role
                    /\ h[e[i]].role # "assistant" => g[i] = h[e[i]]
  BY <1>1, WithoutElement
<1>3. ASSUME NEW i \in 1 .. Len(g), g[i] = Nudge PROVE h[e[i]] = Nudge
  <2>1. g[i].role = "user"
    BY <1>3 DEF Nudge, User
  <2> QED
    BY <1>2, <1>3, <2>1
<1>4. Len(h) \in Nat /\ DOMAIN h = 1 .. Len(h)
  BY LenProperties
<1>5. SUFFICES ASSUME NEW i \in 1 .. Len(g), NEW j \in 1 .. Len(g), i < j,
                      g[i] = Nudge, g[j] = Nudge
               PROVE  \E m \in i .. j : Works(g[m])
  BY <1>1 DEF Streaks
<1>6. PICK a \in 1 .. Len(h) : a = e[i]
  BY <1>2
<1>7. PICK b \in 1 .. Len(h) : b = e[j]
  BY <1>2
<1>8. a < b /\ h[a] = Nudge /\ h[b] = Nudge
  BY <1>2, <1>3, <1>5, <1>6, <1>7 DEF Enumerates
<1>9. PICK m \in a .. b : Works(h[m])
  BY <1>8 DEF Streaks
<1>10. m \in 1 .. Len(h) /\ m <= b /\ a <= m
  BY <1>4
<1>11. m \in CompletedAt(h)
  <2>1. ~Traces(h[m])
    BY <1>8, <1>10 DEF TraceLast
  <2> QED
    BY <1>4, <1>9, <1>10, <2>1 DEF Traces, Works, CompletedAt
<1>12. m \in Staying(h, gone) /\ h[m].role = "tool"
  BY <1>11 DEF CompletedAt, Staying, Stays
<1>13. PICK x \in 1 .. Len(g) : e[x] = m
  BY <1>2, <1>12 DEF Enumerates
<1>14. Works(g[x])
  BY <1>2, <1>9, <1>12, <1>13
<1>15. x \in i .. j
  <2>1. (x < i => m < a) /\ (j < x => b < m)
    BY <1>2, <1>6, <1>7, <1>13 DEF Enumerates
  <2>2. ~(x < i) /\ ~(j < x)
    BY <1>10, <2>1
  <2> QED
    BY <2>2
<1> QED
  BY <1>14, <1>15

(* An id of its own is not that of an interrupted call.                    *)
LEMMA KeptNotGone ==
  ASSUME NEW h \in Seq(Messages), NEW n, Fresh(h, n)
  PROVE  \A i \in KeptAt(h) : h[i].id \notin ResultIds(h, Recognised)
<1>1. DOMAIN h = 1 .. Len(h)
  BY LenProperties
<1> SUFFICES ASSUME NEW i \in KeptAt(h), h[i].id \in ResultIds(h, Recognised)
             PROVE  FALSE
  OBVIOUS
<1>2. PICK j \in DOMAIN h : h[j].role = "tool" /\ h[j].kind \in Recognised /\ h[j].id = h[i].id
  BY DEF ResultIds
<1>3. i \in DOMAIN h /\ h[i].role = "tool" /\ h[i].kind \notin Recognised /\ OwnId(h[i].id)
  BY DEF KeptAt
<1>4. j = i
  BY <1>1, <1>2, <1>3 DEF Fresh
<1> QED
  BY <1>2, <1>3, <1>4

LEMMA ToolFields ==
  ASSUME NEW h \in Seq(Messages), NEW i \in 1 .. Len(h), h[i].role = "tool"
  PROVE  h[i].id \in IdSet /\ h[i].kind \in Kinds
<1>1. h[i] \in Messages
  BY ElementOfSeq
<1> QED
  BY <1>1 DEF Messages

(* Where every id is a call's own and no result quotes the mark, all that  *)
(* was completed is spared.                                                *)
LEMMA DistinctKept ==
  ASSUME Distinct, NEW h \in Seq(Messages)
  PROVE  CompletedAt(h) \subseteq KeptAt(h)
<1> SUFFICES ASSUME NEW i \in CompletedAt(h) PROVE i \in KeptAt(h)
  OBVIOUS
<1>1. /\ i \in DOMAIN h /\ DOMAIN h = 1 .. Len(h)
      /\ h[i].role = "tool" /\ h[i].kind \notin Interrupted
  BY LenProperties DEF CompletedAt
<1>2. h[i].id \in IdSet /\ h[i].kind \in Kinds
  BY <1>1, ToolFields
<1>3. h[i].kind # "quoting"
  BY <1>2 DEF Distinct, Kinds
<1>4. OwnId(h[i].id)
  <2>1. IdKinds = {"own"}
    BY DEF Distinct
  <2>2. h[i].id \in {"own"} \X Nat \X Nat
    BY <1>2, <2>1 DEF IdSet
  <2> QED
    BY <2>2 DEF OwnId
<1> QED
  BY <1>1, <1>3, <1>4 DEF KeptAt, Recognised

(* Where no backend leaves ids out, every result has one.                  *)
Named(h) == \A i \in 1 .. Len(h) : h[i].role = "tool" => h[i].id # <<>>

LEMMA AllNamed ==
  ASSUME "none" \notin IdKinds, NEW h \in Seq(Messages)
  PROVE  Named(h)
<1> SUFFICES ASSUME NEW i \in 1 .. Len(h), h[i].role = "tool" PROVE h[i].id # <<>>
  BY DEF Named
<1>1. h[i].id \in IdSet
  BY ToolFields
<1>2. IdKinds \subseteq {"own", "dsml"}
  BY LoopAssumption
<1>3. h[i].id \in ({"own"} \X Nat \X Nat) \cup ({"dsml"} \X Keys \X Nat)
  BY <1>1, <1>2 DEF IdSet
<1>4. PICK a, b, c : h[i].id = <<a, b, c>>
  BY <1>3
<1> QED
  BY <1>4

Closed ==
  pc = "closed" => /\ Sound(history) /\ NoTrace(history)
                   /\ Distinct => Streaks(history)

LEMMA TurnEnds ==
  ASSUME LoopInv, NudgeInv, EndInv, EndTurn
  PROVE  Closed' /\ Kept(history') = Kept(history)
<1>1. /\ pc = "ended" /\ pc' = "closed"
      /\ \/ outcome = "done" /\ history' \in WithContext(history)
         \/ outcome = "panicked" /\ history' = history
         \/ outcome \notin {"done", "panicked"}
            /\ history' = Without(history, ResultIds(history, Recognised))
  BY DEF EndTurn, RemoveCancelledToolResults
<1>2. /\ Sound(history) /\ Streaks(history) /\ TraceLast(history)
      /\ outcome # "interrupted" => NoTrace(history)
      /\ Fresh(history, step + 2)
  BY <1>1 DEF LoopInv, Histories, NudgeInv, EndInv, Asked
<1>3. history \in Seq(Messages)
  BY <1>2 DEF Sound
<1>5. CASE outcome = "done" /\ history' \in WithContext(history)
  <2>1. Sound(history') /\ NoTrace(history') /\ Streaks(history')
    BY <1>2, <1>5, SoundContext, TraceContext, QuietContext
  <2>2. Kept(history') = Kept(history)
    BY <1>3, <1>5, KeptUser DEF WithContext, Texts
  <2> QED
    BY <2>1, <2>2 DEF Closed
<1>6. CASE outcome = "panicked" /\ history' = history
  BY <1>2, <1>6 DEF Closed
<1>7. CASE history' = Without(history, ResultIds(history, Recognised))
  <2>1. Sound(history')
    BY <1>2, <1>7, WithoutSound
  <2>2. NoTrace(history')
    <3>1. \A i \in 1 .. Len(history) :
            Traces(history[i]) => history[i].id \in ResultIds(history, Recognised)
      <4>1. DOMAIN history = 1 .. Len(history)
        BY <1>3, LenProperties
      <4> QED
        BY <4>1 DEF Traces, ResultIds, Recognised
    <3> QED
      BY <1>3, <1>7, <3>1, TracesGo
  <2>3. \A i \in KeptAt(history) : history[i].id \notin ResultIds(history, Recognised)
    BY <1>2, <1>3, KeptNotGone
  <2>4. Distinct => Streaks(history')
    <3>1. ASSUME Distinct
          PROVE  \A i \in CompletedAt(history) :
                   history[i].id \notin ResultIds(history, Recognised)
      BY <1>3, <2>3, <3>1, DistinctKept
    <3> QED
      BY <1>2, <1>3, <1>7, <3>1, StreaksStay
  <2>5. Kept(history') = Kept(history)
    BY <1>3, <1>7, <2>3, KeptStays
  <2> QED
    BY <2>1, <2>2, <2>4, <2>5 DEF Closed
<1> QED
  BY <1>1, <1>5, <1>6, <1>7

(* Nothing follows the end, and only EndTurn leads to it.                  *)
LEMMA OnlyEndTurn ==
  ASSUME LoopInv, [Next]_vars, pc' = "closed"
  PROVE  EndTurn \/ UNCHANGED vars
<1>1. pc \in Pcs
  BY DEF LoopInv, RunInv
<1>2. ASSUME NEW k \in DOMAIN worker, Call(k) PROVE FALSE
  BY <1>2 DEF Call, ExecOne, PreTool, ExecReturn, PostTool, at
<1>3. ASSUME Cancel \/ \E p \in Injects : Inject(p) PROVE FALSE
  BY <1>3 DEF Cancel, Inject, Running
<1>4. ASSUME \/ BackendError \/ StreamEnds \/ Wait \/ Answer \/ AnswerRejected
             \/ ActCancelled \/ StartBatch \/ EndBatch \/ Save
             \/ NoCompact \/ StartCompact \/ EndCompact
             \/ Rollback \/ RunAgain \/ OverflowCompactFails
      PROVE  FALSE
  BY <1>4 DEF BackendError, StreamEnds, Wait, Answer, AnswerRejected, ActCancelled, StartBatch,
     EndBatch, Save, NoCompact, StartCompact, EndCompact, NextRound, Rollback, RunAgain,
     OverflowCompactFails, Return, Retry
<1> QED
  BY <1>2, <1>3, <1>4 DEF Next, Run

LEMMA ClosedStep == LoopInv /\ NudgeInv /\ EndInv /\ Closed /\ [Next]_vars => Closed'
<1> SUFFICES ASSUME LoopInv, NudgeInv, EndInv, Closed, [Next]_vars PROVE Closed'
  OBVIOUS
<1>1. CASE pc' # "closed"
  BY <1>1 DEF Closed
<1>2. CASE EndTurn
  BY <1>2, TurnEnds
<1>3. CASE UNCHANGED vars
  BY <1>3 DEF Closed, vars, turn
<1> QED
  BY <1>1, <1>2, <1>3, OnlyEndTurn

TurnInv == LoopInv /\ NudgeInv /\ ResultsClean /\ Numbered /\ EndInv /\ Closed

(* While a turn goes on, only its last round can hold results of           *)
(* interrupted calls; when it is over, none is left, every list of calls   *)
(* has its results, and two nudges have work between them.                 *)
THEOREM TurnSafety == Spec => []TurnInv
<1>1. Init => TurnInv
  BY LoopInit, NudgeInit, EndInit DEF TurnInv, Init, Closed
<1>2. LoopInv' /\ TurnInv /\ [Next]_vars => TurnInv'
  BY NudgeStep, EndStep, NumberedStep, ResultsCleanStep, ClosedStep DEF TurnInv
<1> QED
  BY <1>1, <1>2, LoopSafety, PTL DEF Spec

(* The session stays one backends accept, through the removal of what an   *)
(* interrupt cancelled too (session.go:149-192, core.go:1040-1048).        *)
THEOREM HistoryValid == Spec => []ValidHistory
<1>1. TurnInv => ValidHistory
  BY SoundIsValid DEF TurnInv, LoopInv, Histories, Closed
<1> QED
  BY <1>1, TurnSafety, PTL

(* Once the turn is over the session holds no result of an interrupted     *)
(* call, whichever way out run took (core.go:1040-1048).                   *)
THEOREM NoTraceOfInterrupt == Spec => []InterruptLeavesNoTrace
<1>1. TurnInv => InterruptLeavesNoTrace
  <2> SUFFICES ASSUME TurnInv, pc = "closed"
               PROVE  \A i \in DOMAIN history :
                        history[i].role = "tool" => history[i].kind \notin Interrupted
    BY DEF InterruptLeavesNoTrace
  <2>1. DOMAIN history = 1 .. Len(history) /\ NoTrace(history)
    BY LenProperties DEF TurnInv, Closed, Sound
  <2> QED
    BY <2>1 DEF NoTrace, Traces
<1> QED
  BY <1>1, TurnSafety, PTL

(* Whatever ids the calls of a session have, the end of a turn removes no  *)
(* result of a completed call that has an id of its own, unless it quotes  *)
(* the mark of a cancelled one (session.go:149-192).                       *)
THEOREM CompletedKept == Spec => CompletedWorkKept
<1>1. TurnInv /\ [Next]_vars => [pc' = "closed" => Kept(history') = Kept(history)]_vars
  BY OnlyEndTurn, TurnEnds DEF TurnInv
<1> QED
  BY <1>1, TurnSafety, PTL DEF Spec, CompletedWorkKept

(* The model is told to change its approach once per streak of failures    *)
(* (loop.go:440-462): the work between two nudges is there as long as the  *)
(* turn goes on, and in the closed session too where every call has an id  *)
(* of its own and no result quotes the mark of a cancelled one.            *)
THEOREM NudgesStay == Spec => []NudgeOncePerStreak
<1>1. TurnInv => NudgeOncePerStreak
  <2> SUFFICES ASSUME TurnInv, pc # "closed" \/ Distinct PROVE NudgeOncePerStreak
    BY DEF NudgeOncePerStreak
  <2>1. Sound(history) /\ Streaks(history)
    BY DEF TurnInv, LoopInv, Histories, NudgeInv, Closed
  <2>2. DOMAIN history = 1 .. Len(history)
    BY <2>1, LenProperties DEF Sound
  <2> QED
    BY <2>1, <2>2 DEF Streaks, Nudge, Works, NudgeOncePerStreak
<1> QED
  BY <1>1, TurnSafety, PTL

-----------------------------------------------------------------------------
(* What run sends ends with a prompt or with results.                      *)

Ready(h) == Len(h) > 0 /\ h[Len(h)].role # "assistant"

Awaited == pc \in {"ask", "wait", "round", "compact"} => Ready(history)

LEMMA ReadyUser ==
  ASSUME NEW h \in Seq(Messages), NEW w \in Texts
  PROVE  Ready(Append(h, User(w)))
<1>1. PICK g : g = Append(h, User(w))
  OBVIOUS
<1>2. Len(h) \in Nat /\ User(w) \in Messages /\ User(w).role = "user"
  BY UserMessage, LenProperties
<1>3. Len(g) = Len(h) + 1 /\ g[Len(h) + 1] = User(w)
  BY <1>1, <1>2, AppendProperties
<1> QED
  BY <1>1, <1>2, <1>3 DEF Ready

LEMMA ReadyContext ==
  ASSUME NEW h \in Seq(Messages), Ready(h), NEW g \in WithContext(h)
  PROVE  Ready(g)
  BY ReadyUser DEF WithContext, Texts

LEMMA ReadyCompacted ==
  ASSUME NEW h, Sound(h), Ready(h), NEW g \in Compacted(h)
  PROVE  Ready(g)
<1>0. PICK u : u = <<User("summary")>>
  OBVIOUS
<1>1. Sound(u) /\ Ready(u)
  <2>1. u = Append(<<>>, User("summary"))
    BY <1>0, UserMessage DEF Texts
  <2>2. <<>> \in Seq(Messages)
    BY EmptySeq
  <2> QED
    BY <2>1, <2>2, SoundEmpty, SoundUser, ReadyUser DEF Texts
<1>2. \/ g = h
      \/ \E f \in WithContext(u) : g \in WithContext(f)
      \/ \E f \in WithContext(h) : g \in WithContext(f)
  BY <1>0 DEF Compacted
<1>3. ASSUME NEW v, Sound(v), Ready(v), NEW f \in WithContext(v), g \in WithContext(f)
      PROVE  Ready(g)
  BY <1>3, SoundContext, ReadyContext DEF Sound
<1> QED
  BY <1>1, <1>2, <1>3

LEMMA ReadyRound ==
  ASSUME NEW h, Sound(h), NEW t \in BOOLEAN, NEW cs \in Seq(CallSet), NEW rs \in Seq(ResultSet),
         Len(rs) = Len(cs), cs # <<>>,
         NEW g, g = WithRound(h, t, cs, rs)
  PROVE  Ready(g)
<1>1. /\ Len(h) \in Nat /\ Len(cs) \in Nat /\ Len(g) = Len(h) + 1 + Len(cs)
      /\ \A k \in 1 .. Len(cs) : g[Len(h) + 1 + k] = Tool(cs[k].id, rs[k])
  BY RoundShape
<1>2. Len(cs) # 0
  BY EmptySeq
<1>3. PICK n \in 1 .. Len(cs) : n = Len(cs)
  BY <1>1, <1>2
<1>4. g[Len(g)] = Tool(cs[n].id, rs[n])
  BY <1>1, <1>3
<1> QED
  BY <1>1, <1>4 DEF Ready, Tool

LEMMA AwaitedInit == Init => Awaited
<1> SUFFICES ASSUME Init PROVE Ready(history)
  BY DEF Awaited
<1>1. Sound(snapMessages)
  BY LoopInit DEF LoopInv, Histories
<1>2. PICK h : /\ h \in WithContext(<<>>) \/ h = snapMessages
               /\ history \in Compacted(Append(h, User("prompt")))
  BY DEF Init
<1>3. Sound(h) /\ h \in Seq(Messages)
  BY <1>1, <1>2, SoundEmpty, SoundContext DEF Sound
<1>4. PICK g : g = Append(h, User("prompt"))
  OBVIOUS
<1>5. Sound(g) /\ Ready(g)
  BY <1>3, <1>4, SoundUser, ReadyUser DEF Texts
<1> QED
  BY <1>2, <1>4, <1>5, ReadyCompacted

LEMMA AwaitedStep == LoopInv /\ Awaited /\ [Next]_vars => Awaited'
<1> SUFFICES ASSUME LoopInv, Awaited, [Next]_vars PROVE Awaited'
  OBVIOUS
<1> USE DEF Awaited
<1>0. pc # "closed" => Sound(history) /\ history \in Seq(Messages)
  BY DEF LoopInv, Histories, Sound
<1>1. ASSUME pc' \in {"ask", "wait", "round", "compact"} =>
               UNCHANGED history /\ pc \in {"ask", "wait", "round", "compact"}
      PROVE  Awaited'
  BY <1>1
<1>2. CASE Save
  <2>1. /\ Len(results) = Len(calls) /\ Len(calls) \in Nat
        /\ said \in BOOLEAN /\ calls \in Seq(CallSet) /\ results \in Seq(ResultSet)
    <3>1. Len(calls) \in Nat
      BY LenProperties DEF LoopInv, Answered
    <3>2. next = Len(calls) + 1
      BY <1>2, <3>1 DEF Save, LoopInv, Answered
    <3> QED
      BY <3>1, <3>2 DEF LoopInv, Answered
  <2>2. PICK g : g = WithRound(history, said, calls, results)
    OBVIOUS
  <2>3. Recorded = g
    BY <2>2 DEF Recorded, WithRound
  <2>4. pc \in {"save", "act"} /\ pc' \in {"ended", "round"}
    BY <1>2 DEF Save, Return
  <2>5. CASE /\ pc' = "round" /\ calls # <<>>
             /\ history' \in {WithNudge(g), Append(WithNudge(g), User("plan"))}
    <3>1. Sound(g) /\ Ready(g)
      BY <1>0, <2>1, <2>2, <2>4, <2>5, SoundRecord, ReadyRound DEF WithRound
    <3>2. PICK n : n = WithNudge(g)
      OBVIOUS
    <3>3. Sound(n) /\ Ready(n)
      <4>1. n = g \/ n = Append(g, User("nudge"))
        BY <3>2 DEF WithNudge
      <4> QED
        BY <3>1, <4>1, SoundUser, ReadyUser DEF Sound, Texts
    <3>4. history' = n \/ history' = Append(n, User("plan"))
      BY <2>5, <3>2
    <3> QED
      BY <3>3, <3>4, ReadyUser DEF Sound, Texts
  <2>6. \/ pc' = "ended"
        \/ /\ pc' = "round" /\ calls # <<>>
           /\ history' \in {WithNudge(g), Append(WithNudge(g), User("plan"))}
    BY <1>2, <2>3 DEF Save, Return
  <2> QED
    BY <2>5, <2>6
<1>3. CASE EndCompact
  <2>1. /\ pc = "compact"
        /\ history' \in Compacted(history) \/ pc' = "ended"
    BY <1>3 DEF EndCompact, Return
  <2> QED
    BY <1>0, <2>1, ReadyCompacted
<1>4. CASE RunAgain
  <2>1. PICK h \in Compacted(history) : history' = Append(h, User("prompt"))
    BY <1>4 DEF RunAgain
  <2>2. pc = "overflow"
    BY <1>4 DEF RunAgain
  <2>3. h \in Seq(Messages)
    BY <1>0, <2>1, <2>2, SoundCompacted DEF Sound
  <2> QED
    BY <2>1, <2>3, ReadyUser DEF Texts
<1>5. ASSUME \/ UNCHANGED vars \/ BackendError \/ StreamEnds \/ Wait \/ Answer \/ AnswerRejected
             \/ ActCancelled \/ StartBatch \/ EndBatch \/ NoCompact \/ StartCompact
             \/ Rollback \/ OverflowCompactFails \/ EndTurn
             \/ Cancel \/ \E p \in Injects : Inject(p)
      PROVE  pc' \in {"ask", "wait", "round", "compact"} =>
               UNCHANGED history /\ pc \in {"ask", "wait", "round", "compact"}
  BY <1>5 DEF vars, BackendError, StreamEnds, Wait, Answer, AnswerRejected, ActCancelled,
     StartBatch, EndBatch, NoCompact, StartCompact, NextRound, Rollback, OverflowCompactFails,
     EndTurn, Cancel, Inject, Return, Retry, round, turn
<1>6. ASSUME NEW k \in DOMAIN worker, Call(k) PROVE UNCHANGED <<history, pc>>
  BY <1>6 DEF Call, ExecOne, PreTool, ExecReturn, PostTool
<1> QED
  BY <1>1, <1>2, <1>3, <1>4, <1>5, <1>6 DEF Next, Run

-----------------------------------------------------------------------------
(* The requests.  In a sound history the tool messages after an answer are *)
(* the results of its calls, and the next message is not one.              *)

LEMMA Typed ==
  ASSUME NEW h, Sound(h)
  PROVE  /\ Len(h) \in Nat /\ DOMAIN h = 1 .. Len(h) /\ h \in Seq(Messages)
         /\ \A i \in 1 .. Len(h) : h[i].role \in {"user", "assistant", "tool"}
         /\ \A i \in 1 .. Len(h) : h[i].role = "assistant" =>
              h[i].ids \in Seq(IdSet) /\ Len(h[i].ids) \in Nat
<1>1. \A i \in 1 .. Len(h) : h[i] \in Messages
  BY ElementOfSeq DEF Sound
<1>2. Len(h) \in Nat /\ DOMAIN h = 1 .. Len(h)
  BY LenProperties DEF Sound
<1>3. \A m \in Messages : m.role \in {"user", "assistant", "tool"}
  BY DEF Messages
<1> QED
  BY <1>1, <1>2, <1>3, IdsOfAssistant DEF Sound

(* The tool messages from i to j are all there are in a row.               *)
RunOfTools(h, i, j) ==
  /\ \A k \in i .. j : h[k].role = "tool"
  /\ j = Len(h) \/ h[j + 1].role # "tool"

LEMMA RunAfterCalls ==
  ASSUME NEW h, Sound(h), NEW i \in 1 .. Len(h), h[i].role = "assistant",
         NEW n \in Nat, n = Len(h[i].ids)
  PROVE  i + n <= Len(h) /\ RunOfTools(h, i + 1, i + n)
<1>0. Len(h) \in Nat
  BY Typed
<1>1. /\ i + n <= Len(h)
      /\ \A k \in 1 .. n : h[i + k].role = "tool"
  BY DEF Sound, CallsAnsweredIn
<1>2. \A k \in i + 1 .. i + n : h[k].role = "tool"
  <2> SUFFICES ASSUME NEW k \in i + 1 .. i + n PROVE h[k].role = "tool"
    OBVIOUS
  <2>1. k - i \in 1 .. n /\ k = i + (k - i)
    OBVIOUS
  <2> QED
    BY <1>1, <2>1
<1>3. ASSUME i + n # Len(h), h[i + n + 1].role = "tool" PROVE FALSE
  <2>1. PICK x \in 1 .. Len(h) : x = i + n + 1
    BY <1>0, <1>1, <1>3
  <2>2. PICK j \in 1 .. x - 1 : h[j].role = "assistant" /\ x <= j + Len(h[j].ids)
    BY <1>3, <2>1 DEF Sound, ResultsCalledIn
  <2>3. j \in 1 .. Len(h)
    BY <1>0, <2>1
  <2>4. PICK l \in Nat : l = Len(h[j].ids)
    BY <2>2, <2>3, Typed
  <2>5. \A k \in 1 .. l : h[j + k].role = "tool"
    BY <2>2, <2>3, <2>4 DEF Sound, CallsAnsweredIn
  <2>6. CASE j = i
    BY <2>1, <2>2, <2>6
  <2>7. CASE j > i
    <3>1. j \in i + 1 .. i + n
      BY <2>1, <2>7
    <3> QED
      BY <1>2, <2>2, <3>1
  <2>8. CASE j < i
    <3>1. i - j \in 1 .. l /\ j + (i - j) = i
      BY <2>1, <2>2, <2>4, <2>8
    <3>2. h[i].role = "tool"
      BY <2>5, <3>1
    <3> QED
      BY <3>2
  <2> QED
    BY <2>6, <2>7, <2>8
<1> QED
  BY <1>1, <1>2, <1>3 DEF RunOfTools

(* The first of a run of results comes after the calls.                    *)
LEMMA CallsBeforeRun ==
  ASSUME NEW h, Sound(h), NEW i \in 1 .. Len(h), h[i].role = "tool",
         i = 1 \/ h[i - 1].role # "tool"
  PROVE  /\ i - 1 \in 1 .. Len(h) /\ h[i - 1].role = "assistant" /\ Len(h[i - 1].ids) > 0
<1>0. Len(h) \in Nat
  BY Typed
<1>1. PICK j \in 1 .. i - 1 : h[j].role = "assistant" /\ i <= j + Len(h[j].ids)
  BY DEF Sound, ResultsCalledIn
<1>2. j \in 1 .. Len(h)
  BY <1>0
<1>3. PICK l \in Nat : l = Len(h[j].ids)
  BY <1>1, <1>2, Typed
<1>4. \A k \in 1 .. l : h[j + k].role = "tool"
  BY <1>1, <1>2, <1>3 DEF Sound, CallsAnsweredIn
<1>5. j = i - 1
  <2> SUFFICES ASSUME j # i - 1 PROVE FALSE
    OBVIOUS
  <2>1. i - 1 - j \in 1 .. l /\ j + (i - 1 - j) = i - 1 /\ i # 1
    BY <1>1, <1>3
  <2>2. h[i - 1].role = "tool"
    BY <1>4, <2>1
  <2> QED
    BY <2>1, <2>2
<1>6. l > 0
  BY <1>1, <1>3, <1>5
<1> QED
  BY <1>0, <1>1, <1>2, <1>3, <1>5, <1>6

(* Where a run ends, it ends: the choice of ResultsFrom.                   *)
LEMMA RunResults ==
  ASSUME NEW h, Len(h) \in Nat, NEW i \in 1 .. Len(h), NEW j \in i .. Len(h), RunOfTools(h, i, j)
  PROVE  ResultsFrom(h, i) = [k \in 1 .. j - i + 1 |-> h[i + k - 1].id]
<1> DEFINE Ends(x) == /\ \A k \in i .. x : h[k].role = "tool"
                      /\ x = Len(h) \/ h[x + 1].role # "tool"
<1>1. Ends(j)
  BY DEF RunOfTools
<1>2. ASSUME NEW x \in i .. Len(h), Ends(x) PROVE x = j
  <2>1. ~(x < j)
    <3> SUFFICES ASSUME x < j PROVE FALSE
      OBVIOUS
    <3>1. x # Len(h) /\ x + 1 \in i .. j
      OBVIOUS
    <3> QED
      BY <1>1, <1>2, <3>1
  <2>2. ~(j < x)
    <3> SUFFICES ASSUME j < x PROVE FALSE
      OBVIOUS
    <3>1. j # Len(h) /\ j + 1 \in i .. x
      OBVIOUS
    <3> QED
      BY <1>1, <1>2, <3>1
  <2> QED
    BY <2>1, <2>2
<1>3. (CHOOSE x \in i .. Len(h) : Ends(x)) = j
  <2> HIDE DEF Ends
  <2> QED
    BY <1>1, <1>2
<1> QED
  BY <1>3 DEF ResultsFrom

(* Beginnings of blocks, in order.                                         *)
BeginsBlock(h) == {i \in DOMAIN h : h[i].role # "tool" \/ i = 1 \/ h[i - 1].role # "tool"}

LEMMA Blocks ==
  ASSUME NEW h, Len(h) \in Nat, DOMAIN h = 1 .. Len(h)
  PROVE  /\ BlockStarts(h) \in Seq(Nat) /\ Len(BlockStarts(h)) \in Nat
         /\ DOMAIN BlockStarts(h) = 1 .. Len(BlockStarts(h))
         /\ Enumerates(BlockStarts(h), Len(BlockStarts(h)), BeginsBlock(h))
<1> DEFINE id == [i \in DOMAIN h |-> i]
<1>1. id \in Seq(Nat) /\ Len(id) = Len(h)
  <2>1. id \in [1 .. Len(h) -> Nat]
    OBVIOUS
  <2> HIDE DEF id
  <2> QED
    BY <2>1, SeqOfFunction
<1>2. BeginsBlock(h) \in SUBSET (1 .. Len(h))
  BY DEF BeginsBlock
<1>3. PICK b : b = BlockStarts(h)
  OBVIOUS
<1>4. b = Sublist(id, BeginsBlock(h))
  BY <1>3 DEF BlockStarts, BeginsBlock
<1>5. \A i \in 1 .. Len(h) : id[i] = i
  OBVIOUS
<1> HIDE DEF id
<1>6. b \in Seq(Nat) /\ IsSublist(b, id, BeginsBlock(h))
  BY <1>1, <1>2, <1>4, SublistIs
<1>7. Len(b) \in Nat /\ DOMAIN b = 1 .. Len(b) /\ b = [i \in 1 .. Len(b) |-> b[i]]
  BY <1>6, LenProperties
<1>8. PICK e : /\ Enumerates(e, Len(b), BeginsBlock(h))
               /\ \A i \in 1 .. Len(b) : b[i] = id[e[i]]
  BY <1>6 DEF IsSublist
<1>9. \A i \in 1 .. Len(b) : b[i] = e[i]
  BY <1>2, <1>5, <1>8 DEF Enumerates
<1>10. e = [i \in 1 .. Len(b) |-> e[i]]
  BY <1>8 DEF Enumerates
<1>11. e = b
  BY <1>7, <1>9, <1>10
<1> QED
  BY <1>3, <1>6, <1>7, <1>8, <1>11

LEMMA EnumNext ==
  ASSUME NEW K \in SUBSET Nat, NEW e, NEW l \in Nat, Enumerates(e, l, K),
         NEW n \in 1 .. l
  PROVE  /\ e[n] + 1 \in K => n + 1 \in 1 .. l /\ e[n + 1] = e[n] + 1
         /\ e[n] - 1 \in K => n - 1 \in 1 .. l /\ e[n - 1] = e[n] - 1
<1>0. /\ \A x \in 1 .. l : e[x] \in Nat
      /\ \A x, y \in 1 .. l : x < y => e[x] < e[y]
      /\ \A k \in K : \E x \in 1 .. l : e[x] = k
  BY DEF Enumerates
<1> PICK i \in Nat : i = e[n]
  BY <1>0
<1>1. ASSUME i + 1 \in K PROVE n + 1 \in 1 .. l /\ e[n + 1] = i + 1
  <2>1. PICK x \in 1 .. l : e[x] = i + 1
    BY <1>0, <1>1
  <2>2. ~(x < n) /\ x # n
    BY <1>0, <2>1
  <2>3. n + 1 \in 1 .. l
    BY <2>2
  <2>4. ~(n + 1 < x)
    <3> SUFFICES ASSUME n + 1 < x PROVE FALSE
      OBVIOUS
    <3>1. e[n] < e[n + 1] /\ e[n + 1] < e[x] /\ e[n + 1] \in Nat
      BY <1>0, <2>3
    <3> QED
      BY <2>1, <3>1
  <2>5. x = n + 1
    BY <2>2, <2>4
  <2> QED
    BY <2>1, <2>3, <2>5
<1>2. ASSUME i - 1 \in K PROVE n - 1 \in 1 .. l /\ e[n - 1] = i - 1
  <2>1. PICK x \in 1 .. l : e[x] = i - 1
    BY <1>0, <1>2
  <2>2. ~(n < x) /\ x # n
    BY <1>0, <2>1
  <2>3. n - 1 \in 1 .. l
    BY <2>2
  <2>4. ~(x < n - 1)
    <3> SUFFICES ASSUME x < n - 1 PROVE FALSE
      OBVIOUS
    <3>1. e[x] < e[n - 1] /\ e[n - 1] < e[n] /\ e[n - 1] \in Nat
      BY <1>0, <2>3
    <3> QED
      BY <2>1, <3>1
  <2>5. x = n - 1
    BY <2>2, <2>4
  <2> QED
    BY <2>1, <2>3, <2>5
<1> QED
  BY <1>1, <1>2

LEMMA FunctionSeq ==
  ASSUME NEW n \in Nat, NEW w, w = [i \in 1 .. n |-> w[i]]
  PROVE  w \in Seq({w[i] : i \in 1 .. n}) /\ Len(w) = n /\ DOMAIN w = 1 .. n
<1>1. w \in [1 .. n -> {w[i] : i \in 1 .. n}]
  OBVIOUS
<1> QED
  BY <1>1, SeqOfFunction

(* The results in the block after an answer are those of its calls.        *)
LEMMA ResultsOfCalls ==
  ASSUME NEW h, Sound(h), NEW i \in 1 .. Len(h), h[i].role = "assistant", Len(h[i].ids) > 0
  PROVE  /\ i + 1 \in 1 .. Len(h) /\ h[i + 1].role = "tool"
         /\ ResultsFrom(h, i + 1) = h[i].ids
<1>0. Len(h) \in Nat /\ h[i].ids \in Seq(IdSet)
  BY Typed
<1>1. PICK n \in Nat : n = Len(h[i].ids) /\ n > 0
  BY Typed
<1>2. i + n <= Len(h) /\ RunOfTools(h, i + 1, i + n)
  BY <1>1, RunAfterCalls
<1>3. PICK a \in 1 .. Len(h) : a = i + 1
  BY <1>0, <1>1, <1>2
<1>4. PICK z \in a .. Len(h) : z = i + n
  BY <1>0, <1>1, <1>2, <1>3
<1>5. RunOfTools(h, a, z) /\ a \in a .. z
  BY <1>1, <1>2, <1>3, <1>4
<1>6. h[a].role = "tool"
  BY <1>5 DEF RunOfTools
<1>7. z - a + 1 = n /\ \A k \in 1 .. n : a + k - 1 = i + k
  BY <1>1, <1>3, <1>4
<1>8. PICK r : r = ResultsFrom(h, a)
  OBVIOUS
<1>9. r = [k \in 1 .. z - a + 1 |-> h[a + k - 1].id]
  BY <1>0, <1>5, <1>8, RunResults
<1>10. r = [k \in 1 .. n |-> h[i].ids[k]]
  <2>1. \A k \in 1 .. n : h[a + k - 1].id = h[i].ids[k]
    BY <1>1, <1>7 DEF Sound, CallsAnsweredIn
  <2> QED
    BY <1>7, <1>9, <2>1
<1>11. h[i].ids = [k \in 1 .. n |-> h[i].ids[k]]
  BY <1>0, <1>1, LenProperties
<1> QED
  BY <1>3, <1>6, <1>8, <1>10, <1>11

LEMMA BlockFields ==
  ASSUME NEW h, NEW i, h[i].role \in {"user", "assistant", "tool"}
  PROVE  /\ BlockAt(h, i).side = IF h[i].role = "assistant" THEN "assistant" ELSE "user"
         /\ BlockAt(h, i).calls = IF h[i].role = "assistant" THEN h[i].ids ELSE <<>>
         /\ BlockAt(h, i).results = IF h[i].role = "tool" THEN ResultsFrom(h, i) ELSE <<>>
  BY DEF BlockAt, Block

(* A request with the blocks of a sound history is paired.                 *)
LEMMA PairedBlocks ==
  ASSUME NEW h, Sound(h), NEW w, NEW l \in Nat, l = Len(BlockStarts(h)),
         DOMAIN w = 1 .. l, Len(w) = l,
         \A n \in 1 .. l : w[n] = BlockAt(h, BlockStarts(h)[n])
  PROVE  Paired(w)
<1>0. PICK b : b = BlockStarts(h)
  OBVIOUS
<1>1. Len(h) \in Nat /\ DOMAIN h = 1 .. Len(h)
  BY Typed
<1>2. Enumerates(b, l, BeginsBlock(h))
  BY <1>0, <1>1, Blocks
<1>3. BeginsBlock(h) \in SUBSET (1 .. Len(h)) /\ BeginsBlock(h) \in SUBSET Nat
  BY <1>1 DEF BeginsBlock
<1>4. ASSUME NEW n \in 1 .. l
      PROVE  /\ b[n] \in 1 .. Len(h) /\ b[n] \in BeginsBlock(h)
             /\ w[n].side = IF h[b[n]].role = "assistant" THEN "assistant" ELSE "user"
             /\ w[n].calls = IF h[b[n]].role = "assistant" THEN h[b[n]].ids ELSE <<>>
             /\ w[n].results = IF h[b[n]].role = "tool" THEN ResultsFrom(h, b[n]) ELSE <<>>
  <2>1. b[n] \in 1 .. Len(h) /\ b[n] \in BeginsBlock(h)
    BY <1>2, <1>3 DEF Enumerates
  <2>2. h[b[n]].role \in {"user", "assistant", "tool"}
    BY <2>1, Typed
  <2>3. w[n] = BlockAt(h, b[n])
    BY <1>0
  <2> QED
    BY <2>1, <2>2, <2>3, BlockFields
<1>5. ASSUME NEW n \in 1 .. l
      PROVE  /\ b[n] + 1 \in BeginsBlock(h) => n + 1 \in 1 .. l /\ b[n + 1] = b[n] + 1
             /\ b[n] - 1 \in BeginsBlock(h) => n - 1 \in 1 .. l /\ b[n - 1] = b[n] - 1
  <2>1. PICK K \in SUBSET Nat : K = BeginsBlock(h)
    BY <1>3
  <2>2. Enumerates(b, l, K)
    BY <1>2, <2>1
  <2>3. /\ b[n] + 1 \in K => n + 1 \in 1 .. l /\ b[n + 1] = b[n] + 1
        /\ b[n] - 1 \in K => n - 1 \in 1 .. l /\ b[n - 1] = b[n] - 1
    BY ONLY l \in Nat, n \in 1 .. l, K \in SUBSET Nat, <2>2, EnumNext
  <2> QED
    BY <2>1, <2>3
<1>6. ASSUME NEW n \in DOMAIN w, w[n].calls # <<>>
      PROVE  n < Len(w) /\ w[n + 1].side = "user" /\ w[n + 1].results = w[n].calls
  <2>1. n \in 1 .. l
    OBVIOUS
  <2>2. PICK i \in 1 .. Len(h) : i = b[n]
    BY <1>4, <2>1
  <2>3. h[i].role = "assistant" /\ w[n].calls = h[i].ids
    BY <1>4, <1>6, <2>1, <2>2
  <2>4. Len(h[i].ids) > 0
    <3>1. h[i].ids \in Seq(IdSet) /\ Len(h[i].ids) \in Nat /\ h[i].ids # <<>>
      BY <1>6, <2>3, Typed
    <3>2. Len(h[i].ids) # 0
      BY <3>1, EmptySeq
    <3> QED
      BY <3>1, <3>2
  <2>5. /\ i + 1 \in 1 .. Len(h) /\ h[i + 1].role = "tool"
        /\ ResultsFrom(h, i + 1) = h[i].ids
    BY <2>3, <2>4, ResultsOfCalls
  <2>6. i + 1 \in BeginsBlock(h)
    <3>1. h[i + 1 - 1].role # "tool"
      BY <2>3
    <3> QED
      BY <1>1, <2>5, <3>1 DEF BeginsBlock
  <2>7. n + 1 \in 1 .. l /\ b[n + 1] = i + 1
    BY <1>5, <2>1, <2>2, <2>6
  <2>8. w[n + 1].side = "user" /\ w[n + 1].results = ResultsFrom(h, i + 1)
    BY <1>4, <2>5, <2>7
  <2> QED
    BY <2>1, <2>3, <2>5, <2>7, <2>8
<1>7. ASSUME NEW n \in DOMAIN w, w[n].results # <<>>
      PROVE  n > 1 /\ w[n - 1].calls = w[n].results
  <2>1. n \in 1 .. l
    OBVIOUS
  <2>2. PICK i \in 1 .. Len(h) : i = b[n] /\ i \in BeginsBlock(h)
    BY <1>4, <2>1
  <2>3. h[i].role = "tool" /\ w[n].results = ResultsFrom(h, i)
    BY <1>4, <1>7, <2>1, <2>2
  <2>4. i = 1 \/ h[i - 1].role # "tool"
    BY <2>2, <2>3 DEF BeginsBlock
  <2>5. i - 1 \in 1 .. Len(h) /\ h[i - 1].role = "assistant" /\ Len(h[i - 1].ids) > 0
    BY <2>3, <2>4, CallsBeforeRun
  <2>6. PICK a \in 1 .. Len(h) : a = i - 1 /\ i = a + 1
    BY <2>5
  <2>7. ResultsFrom(h, i) = h[a].ids
    BY <2>5, <2>6, ResultsOfCalls
  <2>8. i - 1 \in BeginsBlock(h)
    BY <1>1, <2>5 DEF BeginsBlock
  <2>9. n - 1 \in 1 .. l /\ b[n - 1] = i - 1
    BY <1>5, <2>1, <2>2, <2>8
  <2>10. w[n - 1].calls = h[a].ids
    BY <1>4, <2>5, <2>6, <2>9
  <2> QED
    BY <2>1, <2>3, <2>7, <2>9, <2>10
<1> QED
  BY <1>6, <1>7 DEF Paired

LEMMA AnthropicPaired == ASSUME NEW h, Sound(h) PROVE Paired(AnthropicMessages(h))
<1>1. PICK w : w = AnthropicMessages(h)
  OBVIOUS
<1>2. PICK l \in Nat : l = Len(BlockStarts(h)) /\ DOMAIN BlockStarts(h) = 1 .. l
  BY Typed, Blocks
<1>3. w = [n \in 1 .. l |-> BlockAt(h, BlockStarts(h)[n])]
  BY <1>1, <1>2 DEF AnthropicMessages
<1>4. DOMAIN w = 1 .. l /\ \A n \in 1 .. l : w[n] = BlockAt(h, BlockStarts(h)[n])
  BY <1>3
<1>5. w = [n \in 1 .. l |-> w[n]]
  BY <1>3, <1>4
<1>6. Len(w) = l
  BY <1>5, FunctionSeq
<1> QED
  BY <1>1, <1>2, <1>4, <1>6, PairedBlocks

LEMMA OpenAIPaired == ASSUME NEW h, Sound(h) PROVE PairedSingly(OpenAIMessages(h))
<1>0. PICK w : w = OpenAIMessages(h)
  OBVIOUS
<1>1. PICK l \in Nat : l = Len(h) /\ DOMAIN h = 1 .. l
  BY Typed
<1>2. DOMAIN w = 1 .. l /\ w = [n \in 1 .. l |-> w[n]]
  <2>1. DOMAIN w = DOMAIN h /\ w = [n \in DOMAIN h |-> w[n]]
    BY <1>0 DEF OpenAIMessages
  <2> QED
    BY <1>1, <2>1
<1>3. Len(w) = l
  BY <1>2, FunctionSeq
<1>4. ASSUME NEW i \in 1 .. l
      PROVE  /\ w[i].calls = IF h[i].role = "assistant" THEN h[i].ids ELSE <<>>
             /\ h[i].role = "tool" => w[i].results = <<h[i].id>>
  <2>1. h[i].role \in {"user", "assistant", "tool"}
    BY <1>1, Typed
  <2> QED
    BY <1>0, <1>1, <2>1 DEF OpenAIMessages, OpenAIMessage, Block
<1>5. ASSUME NEW n \in DOMAIN w, NEW k \in DOMAIN w[n].calls
      PROVE  n + k <= Len(w) /\ w[n + k].results = <<w[n].calls[k]>>
  <2>1. n \in 1 .. l
    BY <1>2
  <2>2. DOMAIN <<>> = {}
    OBVIOUS
  <2>3. h[n].role = "assistant" /\ w[n].calls = h[n].ids
    BY <1>4, <2>1, <2>2
  <2>4. PICK m \in Nat : m = Len(h[n].ids) /\ DOMAIN h[n].ids = 1 .. m
    BY <1>1, <2>1, <2>3, Typed, LenProperties
  <2>5. k \in 1 .. m
    BY <2>3, <2>4
  <2>6. n + m <= l /\ h[n + k].role = "tool" /\ h[n + k].id = h[n].ids[k]
    BY <1>1, <2>1, <2>3, <2>4, <2>5 DEF Sound, CallsAnsweredIn
  <2>7. n + k \in 1 .. l
    BY <2>1, <2>5, <2>6
  <2> QED
    BY <1>3, <1>4, <2>3, <2>6, <2>7
<1> QED
  BY <1>0, <1>5 DEF PairedSingly

(* Kiro's current message begins the last block.                           *)
LEMMA KiroCut ==
  ASSUME NEW h, Sound(h), Ready(h)
  PROVE  /\ KiroCutoff(h) \in 0 .. Len(h) - 1
         /\ KiroCutoff(h) + 1 \in BeginsBlock(h)
         /\ \A i \in BeginsBlock(h) : i <= KiroCutoff(h) + 1
<1>0. PICK l \in Nat : l = Len(h) /\ l > 0 /\ DOMAIN h = 1 .. l
  BY Typed DEF Ready
<1>1. PICK c : c = KiroCutoff(h)
  OBVIOUS
<1>2. \A i \in BeginsBlock(h) : i \in 1 .. l
  BY <1>0 DEF BeginsBlock
<1>3. CASE h[l].role = "user"
  <2>1. c = l - 1
    BY <1>0, <1>1, <1>3 DEF KiroCutoff
  <2>2. l \in BeginsBlock(h) /\ c + 1 = l
    BY <1>0, <1>3, <2>1 DEF BeginsBlock
  <2> QED
    BY <1>0, <1>1, <1>2, <2>1, <2>2
<1>4. CASE h[l].role = "tool"
  <2> DEFINE Tools(x) == \A i \in x + 1 .. l : h[i].role = "tool"
             Good(x) == Tools(x) /\ (x = 0 \/ h[x].role # "tool")
             S == {x \in 0 .. l : Tools(x)}
  <2>1. \E x \in 0 .. l : Good(x)
    <3>1. PICK x \in S : \A y \in S : x <= y
      <4>1. l \in S
        BY <1>0
      <4>2. S \in SUBSET Nat
        BY <1>0
      <4> HIDE DEF S
      <4> QED
        BY <4>1, <4>2, LeastIn
    <3>2. x \in 0 .. l /\ Tools(x)
      BY <3>1
    <3>3. x = 0 \/ h[x].role # "tool"
      <4> SUFFICES ASSUME x # 0, h[x].role = "tool" PROVE FALSE
        OBVIOUS
      <4>1. x - 1 \in 0 .. l /\ ~(x <= x - 1)
        BY <1>0, <3>2
      <4>2. Tools(x - 1)
        <5> SUFFICES ASSUME NEW i \in x - 1 + 1 .. l PROVE h[i].role = "tool"
          OBVIOUS
        <5>1. i = x \/ i \in x + 1 .. l
          BY <1>0, <3>2
        <5> QED
          BY <3>2, <5>1
      <4>3. x - 1 \in S
        BY <4>1, <4>2
      <4> QED
        BY <3>1, <4>1, <4>3
    <3> QED
      BY <3>2, <3>3
  <2>2. c = CHOOSE x \in 0 .. l : Good(x)
    BY <1>0, <1>1, <1>4 DEF KiroCutoff
  <2>3. c \in 0 .. l /\ Good(c)
    <3> HIDE DEF Good
    <3> QED
      BY <2>1, <2>2
  <2>4. c # l
    BY <1>0, <1>4, <2>3
  <2>5. c + 1 \in 1 .. l /\ c \in 0 .. l - 1
    BY <1>0, <2>3, <2>4
  <2>6. c + 1 \in BeginsBlock(h)
    <3>1. c + 1 = 1 \/ h[c + 1 - 1].role # "tool"
      BY <2>3, <2>5
    <3> QED
      BY <1>0, <2>5, <3>1 DEF BeginsBlock
  <2>7. ASSUME NEW i \in BeginsBlock(h), i > c + 1 PROVE FALSE
    <3>1. i \in c + 1 .. l /\ i - 1 \in c + 1 .. l /\ i # 1
      BY <1>0, <1>2, <2>3, <2>5, <2>7
    <3>2. h[i].role = "tool" /\ h[i - 1].role = "tool"
      BY <2>3, <3>1
    <3> QED
      BY <3>1, <3>2 DEF BeginsBlock
  <2>8. \A i \in BeginsBlock(h) : i <= c + 1
    BY <1>0, <1>2, <2>5, <2>7
  <2> QED
    BY <1>0, <1>1, <2>5, <2>6, <2>8
<1>5. h[l].role \in {"user", "tool"}
  <2>1. l \in 1 .. l
    BY <1>0
  <2> QED
    BY <1>0, <2>1, Typed DEF Ready
<1> QED
  BY <1>3, <1>4, <1>5

(* The blocks of what comes before the last block are those of the whole.  *)
LEMMA PrefixBlocks ==
  ASSUME NEW h, Sound(h), NEW c \in 0 .. Len(h) - 1,
         c + 1 \in BeginsBlock(h), \A i \in BeginsBlock(h) : i <= c + 1,
         NEW p, p = SubSeq(h, 1, c)
  PROVE  /\ Len(p) = c /\ DOMAIN p = 1 .. c /\ \A i \in 1 .. c : p[i] = h[i]
         /\ BlockStarts(h) = Append(BlockStarts(p), c + 1)
         /\ \A i \in BeginsBlock(p) : i \in 1 .. c /\ BlockAt(p, i) = BlockAt(h, i)
<1>0. PICK l \in Nat : l = Len(h) /\ DOMAIN h = 1 .. l /\ c \in Nat /\ c < l
  BY Typed
<1>1. /\ p \in Seq(Messages) /\ Len(p) = c /\ DOMAIN p = 1 .. c
      /\ \A i \in 1 .. c : p[i] = h[i]
  <2>1. h \in Seq(Messages) /\ 1 \in 1 .. Len(h) + 1 /\ c \in 0 .. Len(h)
    BY <1>0, Typed
  <2>2. p \in Seq(Messages) /\ Len(p) = c /\ \A i \in 1 .. c : p[i] = h[1 + i - 1]
    <3>1. c = 1 + c - 1 /\ (1 <= c => c - 1 + 1 = c)
      BY <1>0
    <3> QED
      BY <1>0, <2>1, <3>1, SubSeqProperties
  <2>3. DOMAIN p = 1 .. c
    BY <2>2, LenProperties
  <2>4. \A i \in 1 .. c : 1 + i - 1 = i
    BY <1>0
  <2> QED
    BY <2>2, <2>3, <2>4
<1>2. BeginsBlock(p) = BeginsBlock(h) \cap (1 .. c)
  <2>1. ASSUME NEW i \in 1 .. c
        PROVE  /\ i \in 1 .. l /\ p[i] = h[i]
               /\ i # 1 => p[i - 1] = h[i - 1]
    BY <1>0, <1>1
  <2>2. BeginsBlock(p) \in SUBSET (1 .. c) /\ BeginsBlock(h) \cap (1 .. c) \in SUBSET (1 .. c)
    BY <1>1 DEF BeginsBlock
  <2>3. \A i \in 1 .. c : i \in BeginsBlock(p) <=> i \in BeginsBlock(h)
    BY <1>0, <1>1, <2>1 DEF BeginsBlock
  <2> QED
    BY <2>2, <2>3
<1>3. BlockStarts(h) = Append(BlockStarts(p), c + 1)
  <2>1. PICK K \in SUBSET Nat : K = BeginsBlock(h) /\ K \in SUBSET (1 .. l)
    <3>1. BeginsBlock(h) \in SUBSET (1 .. l)
      BY <1>0 DEF BeginsBlock
    <3>2. BeginsBlock(h) \in SUBSET Nat
      BY <1>0, <3>1
    <3> QED
      BY <3>1, <3>2
  <2>2. PICK b : b = BlockStarts(p)
    OBVIOUS
  <2>3. PICK d : d = BlockStarts(h)
    OBVIOUS
  <2>4. b \in Seq(Nat) /\ Len(b) \in Nat /\ Enumerates(b, Len(b), K \cap (1 .. c))
    BY <1>0, <1>1, <1>2, <2>1, <2>2, Blocks
  <2>5. d \in Seq(Nat) /\ Len(d) \in Nat /\ Enumerates(d, Len(d), K)
    BY <1>0, <2>1, <2>3, Blocks
  <2> DEFINE id == [i \in 1 .. l |-> i]
  <2>6. id \in Seq(Nat) /\ Len(id) = l
    <3>1. id \in [1 .. l -> Nat]
      OBVIOUS
    <3> HIDE DEF id
    <3> QED
      BY <3>1, SeqOfFunction
  <2>7. \A i \in 1 .. l : id[i] = i
    OBVIOUS
  <2> HIDE DEF id
  <2>8. \A i \in 1 .. Len(b) : b[i] \in 1 .. l
    BY <1>0, <2>4 DEF Enumerates
  <2>9. IsSublist(b, id, K \cap (1 .. c))
    BY <2>4, <2>7, <2>8 DEF IsSublist
  <2>10. IsSublist(d, id, K)
    BY <2>1, <2>5, <2>7 DEF IsSublist, Enumerates
  <2>11. PICK j \in 1 .. Len(id) : j = c + 1 /\ j - 1 = c /\ id[j] = j /\ j \in K
    BY <1>0, <2>1, <2>6, <2>7
  <2>12. Append(b, j) \in Seq(Nat) /\ IsSublist(Append(b, j), id, K \cap (1 .. j))
    BY <2>4, <2>6, <2>9, <2>11, SublistStep
  <2>13. K \cap (1 .. j) = K
    BY <1>0, <2>1, <2>11
  <2>14. d = Append(b, j)
    BY <2>5, <2>10, <2>12, <2>13, SublistUnique
  <2> QED
    BY <2>2, <2>3, <2>11, <2>14
<1>4. ASSUME NEW i \in BeginsBlock(p) PROVE i \in 1 .. c /\ BlockAt(p, i) = BlockAt(h, i)
  <2>1. i \in 1 .. c /\ i \in BeginsBlock(h) /\ i \in 1 .. l /\ p[i] = h[i]
    BY <1>0, <1>1, <1>2
  <2>2. CASE h[i].role # "tool"
    <3>1. h[i].role \in {"user", "assistant"}
      BY <1>0, <2>1, <2>2, Typed
    <3> QED
      BY <2>1, <3>1 DEF BlockAt
  <2>3. CASE h[i].role = "tool"
    <3>1. i = 1 \/ h[i - 1].role # "tool"
      BY <2>1, <2>3 DEF BeginsBlock
    <3>2. i - 1 \in 1 .. Len(h) /\ h[i - 1].role = "assistant" /\ Len(h[i - 1].ids) > 0
      BY <1>0, <2>1, <2>3, <3>1, CallsBeforeRun
    <3>3. PICK a \in 1 .. Len(h) : a = i - 1 /\ a + 1 = i
      BY <1>0, <2>1, <3>2
    <3>4. PICK n \in Nat : n = Len(h[a].ids) /\ n > 0
      BY <3>2, <3>3, Typed
    <3>5. a + n <= Len(h) /\ RunOfTools(h, a + 1, a + n)
      BY <3>2, <3>3, <3>4, RunAfterCalls
    <3>6. PICK z \in i .. l : z = a + n /\ RunOfTools(h, i, z)
      BY <1>0, <2>1, <3>3, <3>4, <3>5
    <3>7. z <= c
      <4> SUFFICES ASSUME z > c PROVE FALSE
        OBVIOUS
      <4>1. c \in i .. z /\ c + 1 \in i .. z /\ c + 1 # 1
        BY <1>0, <2>1, <3>6
      <4>2. h[c].role = "tool" /\ h[c + 1].role = "tool"
        BY <3>6, <4>1 DEF RunOfTools
      <4>3. c + 1 - 1 = c
        BY <1>0
      <4> QED
        BY <4>1, <4>2, <4>3 DEF BeginsBlock
    <3>8. RunOfTools(p, i, z)
      <4>1. \A k \in i .. z : k \in 1 .. c /\ p[k] = h[k]
        BY <1>0, <1>1, <2>1, <3>6, <3>7
      <4>2. z = c \/ (z # l /\ z + 1 \in 1 .. c /\ p[z + 1] = h[z + 1])
        BY <1>0, <1>1, <2>1, <3>6, <3>7
      <4> QED
        BY <1>0, <1>1, <3>6, <4>1, <4>2 DEF RunOfTools
    <3>9. /\ ResultsFrom(h, i) = [k \in 1 .. z - i + 1 |-> h[i + k - 1].id]
          /\ ResultsFrom(p, i) = [k \in 1 .. z - i + 1 |-> p[i + k - 1].id]
      <4>1. ResultsFrom(h, i) = [k \in 1 .. z - i + 1 |-> h[i + k - 1].id]
        BY <1>0, <2>1, <3>6, RunResults
      <4>2. Len(p) \in Nat /\ i \in 1 .. Len(p) /\ z \in i .. Len(p)
        BY <1>0, <1>1, <2>1, <3>6, <3>7
      <4>3. ResultsFrom(p, i) = [k \in 1 .. z - i + 1 |-> p[i + k - 1].id]
        BY ONLY <3>8, <4>2, RunResults
      <4> QED
        BY <4>1, <4>3
    <3>10. \A k \in 1 .. z - i + 1 : p[i + k - 1] = h[i + k - 1]
      <4> SUFFICES ASSUME NEW k \in 1 .. z - i + 1 PROVE p[i + k - 1] = h[i + k - 1]
        OBVIOUS
      <4>1. i + k - 1 \in 1 .. c
        BY <1>0, <2>1, <3>6, <3>7
      <4> QED
        BY <1>1, <4>1
    <3>11. ResultsFrom(p, i) = ResultsFrom(h, i)
      BY <3>9, <3>10
    <3> QED
      BY <2>1, <2>3, <3>11 DEF BlockAt
  <2> QED
    BY <2>2, <2>3
<1> QED
  BY <1>1, <1>3, <1>4

(* Ids that are not empty stay.                                            *)
LEMMA KiroKeeps ==
  ASSUME NEW h, NEW i, h[i].role \in {"user", "assistant", "tool"},
         h[i].role = "assistant" =>
           h[i].ids \in Seq(IdSet) /\ \A k \in 1 .. Len(h[i].ids) : h[i].ids[k] # <<>>,
         NEW b, b = BlockAt(h, i)
  PROVE  [b EXCEPT !.calls = [k \in DOMAIN b.calls |-> KiroId(b.calls[k])]] = b
<1>1. PICK s : s = b.calls
  OBVIOUS
<1>2. s = IF h[i].role = "assistant" THEN h[i].ids ELSE <<>>
  BY <1>1, BlockFields
<1>3. [k \in DOMAIN s |-> KiroId(s[k])] = s
  <2>1. CASE h[i].role = "assistant"
    <3>1. s \in Seq(IdSet) /\ \A k \in 1 .. Len(s) : s[k] # <<>>
      BY <1>2, <2>1
    <3>2. DOMAIN s = 1 .. Len(s) /\ s = [k \in 1 .. Len(s) |-> s[k]]
      BY <3>1, LenProperties
    <3> QED
      BY <3>1, <3>2 DEF KiroId
  <2>2. CASE h[i].role # "assistant"
    BY <1>2, <2>2
  <2> QED
    BY <2>1, <2>2
<1>4. [b EXCEPT !.calls = b.calls] = b
  BY DEF BlockAt, Block
<1> QED
  BY <1>1, <1>3, <1>4

LEMMA KiroPaired ==
  ASSUME NEW h, Sound(h), Ready(h), Named(h)
  PROVE  Paired(KiroMessages(h))
<1>0. PICK c \in 0 .. Len(h) - 1 :
        /\ c = KiroCutoff(h) /\ c + 1 \in BeginsBlock(h)
        /\ \A i \in BeginsBlock(h) : i <= c + 1
  BY KiroCut
<1>1. PICK p : p = SubSeq(h, 1, c)
  OBVIOUS
<1>2. /\ Len(p) = c /\ DOMAIN p = 1 .. c /\ \A i \in 1 .. c : p[i] = h[i]
      /\ BlockStarts(h) = Append(BlockStarts(p), c + 1)
      /\ \A i \in BeginsBlock(p) : i \in 1 .. c /\ BlockAt(p, i) = BlockAt(h, i)
  BY <1>0, <1>1, PrefixBlocks
<1>3. Len(h) \in Nat /\ c \in Nat /\ c + 1 <= Len(h)
  BY <1>0, Typed
<1>4. PICK b : b = BlockStarts(p)
  OBVIOUS
<1>5. PICK l \in Nat : /\ l = Len(b) /\ DOMAIN b = 1 .. l /\ b \in Seq(Nat)
                       /\ Enumerates(b, l, BeginsBlock(p))
  BY <1>2, <1>3, <1>4, Blocks
<1>6. \A n \in 1 .. l : b[n] \in BeginsBlock(p)
  BY <1>5 DEF Enumerates
(* The history is the blocks before the last.                              *)
<1>7. PICK v : v = AnthropicMessages(p)
  OBVIOUS
<1>8. DOMAIN v = 1 .. l /\ \A n \in 1 .. l : v[n] = BlockAt(p, b[n])
  BY <1>4, <1>5, <1>7 DEF AnthropicMessages
<1>9. ASSUME NEW n \in 1 .. l
      PROVE  /\ [v[n] EXCEPT !.calls = [k \in DOMAIN v[n].calls |-> KiroId(v[n].calls[k])]] = v[n]
             /\ v[n] = BlockAt(h, b[n])
  <2>1. PICK i \in 1 .. c : i = b[n] /\ i \in BeginsBlock(p) /\ BlockAt(p, i) = BlockAt(h, i)
    BY <1>2, <1>6
  <2>2. i \in 1 .. Len(h)
    BY <1>3
  <2>3. v[n] = BlockAt(h, i)
    BY <1>8, <2>1
  <2>4. h[i].role \in {"user", "assistant", "tool"}
    BY <2>2, Typed
  <2>5. ASSUME h[i].role = "assistant"
        PROVE  h[i].ids \in Seq(IdSet) /\ \A k \in 1 .. Len(h[i].ids) : h[i].ids[k] # <<>>
    <3>1. PICK m \in Nat : m = Len(h[i].ids)
      BY <2>2, <2>5, Typed
    <3>2. h[i].ids \in Seq(IdSet)
      BY <2>2, <2>5, Typed
    <3>3. ASSUME NEW k \in 1 .. m PROVE h[i].ids[k] # <<>>
      <4>1. i + m <= Len(h) /\ h[i + k].role = "tool" /\ h[i + k].id = h[i].ids[k]
        BY <2>2, <2>5, <3>1 DEF Sound, CallsAnsweredIn
      <4>2. i + k \in 1 .. Len(h)
        BY <1>3, <4>1
      <4> QED
        BY <4>1, <4>2 DEF Named
    <3> QED
      BY <3>1, <3>2, <3>3
  <2> QED
    BY <2>1, <2>3, <2>4, <2>5, KiroKeeps
<1>10. PICK u : u = KiroHistory(p)
  OBVIOUS
<1>11. DOMAIN u = 1 .. l /\ \A n \in 1 .. l : u[n] = BlockAt(h, b[n])
  BY <1>7, <1>8, <1>9, <1>10 DEF KiroHistory
<1>12. u = [n \in 1 .. l |-> u[n]]
  <2>1. u = [n \in DOMAIN u |-> u[n]]
    BY <1>10 DEF KiroHistory
  <2> QED
    BY <1>11, <2>1
<1>13. u \in Seq({u[n] : n \in 1 .. l}) /\ Len(u) = l
  BY <1>12, FunctionSeq
(* And the current message is the last.                                    *)
<1>14. PICK S : /\ u \in Seq(S) /\ BlockAt(h, c + 1) \in S
  <2> DEFINE T == {u[n] : n \in 1 .. l} \cup {BlockAt(h, c + 1)}
  <2>1. \A n \in 1 .. l : u[n] \in T
    OBVIOUS
  <2>2. BlockAt(h, c + 1) \in T
    OBVIOUS
  <2> HIDE DEF T
  <2>3. u \in [1 .. l -> T]
    BY <1>12, <2>1
  <2> QED
    BY <2>2, <2>3, SeqOfFunction
<1>15. PICK w : w = Append(u, BlockAt(h, c + 1))
  OBVIOUS
<1>16. /\ w \in Seq(S) /\ Len(w) = l + 1 /\ w[l + 1] = BlockAt(h, c + 1)
       /\ \A n \in 1 .. l : w[n] = u[n]
  BY <1>13, <1>14, <1>15, AppendProperties
<1>17. DOMAIN w = 1 .. l + 1
  BY <1>16, LenProperties
<1>18. PICK d : d = BlockStarts(h)
  OBVIOUS
<1>19. /\ Len(d) = l + 1 /\ d[l + 1] = c + 1 /\ \A n \in 1 .. l : d[n] = b[n]
  <2>1. d = Append(b, c + 1) /\ c + 1 \in Nat
    BY <1>2, <1>3, <1>4, <1>18
  <2> QED
    BY <1>5, <2>1, AppendProperties
<1>20. ASSUME NEW n \in 1 .. l + 1 PROVE w[n] = BlockAt(h, d[n])
  <2>1. CASE n = l + 1
    BY <1>16, <1>19, <2>1
  <2>2. CASE n # l + 1
    <3>1. n \in 1 .. l
      BY <2>2
    <3> QED
      BY <1>11, <1>16, <1>19, <3>1
  <2> QED
    BY <2>1, <2>2
<1>21. Paired(w)
  <2>1. l + 1 \in Nat /\ l + 1 = Len(BlockStarts(h))
    BY <1>18, <1>19
  <2>2. \A n \in 1 .. l + 1 : w[n] = BlockAt(h, BlockStarts(h)[n])
    BY <1>18, <1>20
  <2> QED
    BY <1>16, <1>17, <2>1, <2>2, PairedBlocks
<1> QED
  BY <1>0, <1>1, <1>10, <1>15, <1>21 DEF KiroMessages

LEMMA SoundSendable == ASSUME NEW h, Sound(h), Ready(h), Named(h) PROVE Sendable(h)
<1>1. KiroAccepts(h)
  <2>1. PICK l \in Nat : l = Len(h) /\ l > 0
    BY Typed DEF Ready
  <2>2. h # <<>>
    BY <2>1, EmptySeq
  <2>3. l \in 1 .. Len(h)
    BY <2>1
  <2>4. h[l].role \in {"user", "tool"}
    BY <2>1, <2>3, Typed DEF Ready
  <2> QED
    BY <2>1, <2>2, <2>4 DEF KiroAccepts
<1> QED
  BY <1>1, OpenAIPaired, AnthropicPaired, KiroPaired DEF Sendable

(* Whatever a round, an interrupt, a hook, a compaction or a retry has     *)
(* left, each backend can be sent the session in its own form, during the  *)
(* turn and after it, when no backend of the session leaves ids out        *)
(* (openai.go, anthropic.go, codewhisperer.go): every call is met by its   *)
(* result.                                                                 *)
THEOREM RequestsAccepted ==
  ASSUME "none" \notin IdKinds
  PROVE  Spec => []RequestsSendable
<1>1. ASSUME TurnInv, Awaited, pc = "ask" PROVE Sendable(history)
  <2>1. Sound(history) /\ Ready(history)
    BY <1>1 DEF TurnInv, LoopInv, Histories, Awaited
  <2>2. Named(history)
    BY <2>1, AllNamed DEF Sound
  <2> QED
    BY <2>1, <2>2, SoundSendable
<1>2. ASSUME TurnInv, pc = "closed" PROVE Sendable(Append(history, User("prompt")))
  <2>1. PICK g : g = Append(history, User("prompt"))
    OBVIOUS
  <2>2. Sound(history)
    BY <1>2 DEF TurnInv, Closed
  <2>3. Sound(g) /\ Ready(g)
    <3>1. "prompt" \in Texts
      BY DEF Texts
    <3>2. history \in Seq(Messages)
      BY <2>2 DEF Sound
    <3>3. Sound(g)
      BY <2>1, <2>2, <3>1, SoundUser
    <3>4. Ready(g)
      BY <2>1, <3>1, <3>2, ReadyUser
    <3> QED
      BY <3>3, <3>4
  <2>4. Named(g)
    <3>1. g \in Seq(Messages)
      BY <2>3 DEF Sound
    <3> QED
      BY <3>1, AllNamed
  <2> QED
    BY <2>1, <2>3, <2>4, SoundSendable
<1>3. TurnInv /\ Awaited => RequestsSendable
  BY <1>1, <1>2 DEF RequestsSendable
<1>4. Spec => []Awaited
  BY AwaitedInit, AwaitedStep, LoopSafety, PTL DEF Spec
<1> QED
  BY <1>3, <1>4, TurnSafety, PTL

=============================================================================
