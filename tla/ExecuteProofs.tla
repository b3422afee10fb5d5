---------------------------- MODULE ExecuteProofs ----------------------------
(***************************************************************************)
(* Mutual exclusion of the execute server, for all requests, calls, codes  *)
(* and tools: a write step of a list runs alone, no flock is left, and a   *)
(* reply says what happened: which steps ended well, with their output.    *)
(***************************************************************************)
EXTENDS ExecuteServer, WellFoundedInduction, TLAPS

(* Calls are lists of steps, and groups lists of steps.                    *)
LEMMA CallShape ==
  ASSUME NEW c \in Calls
  PROVE  /\ Len(c.steps) \in Nat /\ DOMAIN c.steps = 1 .. Len(c.steps)
         /\ \A i \in 1 .. Len(c.steps) :
              /\ Len(c.steps[i].parallel) \in Nat
              /\ DOMAIN c.steps[i].parallel = 1 .. Len(c.steps[i].parallel)
              /\ Len(c.steps[i].parallel) = 0 => c.steps[i].parallel = <<>>
PROOF
<1>1. ASSUME NEW S, NEW s \in Seq(S)
      PROVE  Len(s) \in Nat /\ DOMAIN s = 1 .. Len(s) /\ (Len(s) = 0 => s = <<>>)
  OBVIOUS
<1>2. \A s : IsSequence(s) =>
        Len(s) \in Nat /\ DOMAIN s = 1 .. Len(s) /\ (Len(s) = 0 => s = <<>>)
  BY <1>1 DEF IsSequence
<1> QED BY <1>2, ServerAssumption

(* A stage ends at a step of its call that is not before its first one.    *)
LEMMA StageEndInCall ==
  ASSUME NEW c, Len(c.steps) \in Nat, NEW i \in Nat \ {0}, i <= Len(c.steps)
  PROVE  StageEnd(c, i) \in i .. Len(c.steps)
PROOF
<1>1. CASE ~(Listed(c) /\ ReadClass(c.steps[i]))
  BY <1>1 DEF StageEnd
<1>2. CASE Listed(c) /\ ReadClass(c.steps[i])
  <2> DEFINE ends == BatchEnds(c, i)
  <2>1. Len(c.steps) \in ends /\ ends \subseteq i .. Len(c.steps) /\ ends \subseteq Nat
    BY DEF BatchEnds
  <2>2. \E j \in ends : \A k \in ends : <<k, j>> \notin OpToRel(<, Nat)
    BY <2>1, NatLessThanWellFounded, WFMin, Zenon
  <2>3. \E j \in ends : \A k \in ends : j <= k
    <3>1. ASSUME NEW j \in Nat, NEW k \in Nat, <<k, j>> \notin OpToRel(<, Nat)
          PROVE  j <= k
      BY <3>1 DEF OpToRel
    <3> QED BY <2>1, <2>2, <3>1
  <2>4. StageEnd(c, i) = CHOOSE j \in ends : \A k \in ends : j <= k
    BY <1>2 DEF StageEnd
  <2>5. StageEnd(c, i) \in ends
    BY <2>3, <2>4
  <2> QED BY <2>1, <2>5
<1> QED BY <1>1, <1>2

LEMMA InitSafe == Init => Safe
BY DEF Init, Safe, TypeOK, LockTable

(* The stage that is entered holds no flock, and needs none yet.           *)
LEMMA EntersSafely ==
  ASSUME Safe, NEW r \in Requests, NEW c \in Calls, NEW i \in 1 .. Len(c.steps),
         EnterStage(r, c, i), call' = [call EXCEPT ![r] = c],
         locks' \subseteq locks, locks \ locks' \subseteq {<<r, 0, "EX">>},
         \A l \in locks' : l[1] # r
  PROVE  Safe'
PROOF
<1> USE DEF Safe, EnterStage
<1>1. TypeOK'
  BY CallShape DEF TypeOK, Statuses
<1>2. LockTable'
  <2>1. \A l \in locks' : l[3] = "EX" => locks' = {l}
    BY DEF LockTable
  <2>2. ASSUME NEW s \in Requests, phase'[s] = "stage"
        PROVE  /\ Mode(call'[s], at'[s]) = "EX" => <<s, 0, "EX">> \in locks'
               /\ Mode(call'[s], at'[s]) = "SH" => \A k \in DOMAIN work'[s] :
                    work'[s][k] \in {"ready", "checked", "running"} => <<s, k, "SH">> \in locks'
    <3>1. CASE s = r
      BY <2>2, <3>1 DEF TypeOK
    <3>2. CASE s # r
      <4>1. phase[s] = "stage" /\ call'[s] = call[s] /\ at'[s] = at[s] /\ work'[s] = work[s]
        BY <2>2, <3>2 DEF TypeOK
      <4>2. \A l \in locks : l # <<r, 0, "EX">> => l \in locks'
        OBVIOUS
      <4> QED BY <3>2, <4>1, <4>2 DEF LockTable
    <3> QED BY <3>1, <3>2
  <2>3. ASSUME NEW l \in locks'
        PROVE  \E s \in Requests : phase'[s] = "stage" /\
                 \/ l = <<s, 0, "EX">>
                 \/ \E k \in DOMAIN work'[s] :
                      l = <<s, k, "SH">> /\ work'[s][k] \in {"ready", "checked", "running"}
    <3>1. PICK s \in Requests : phase[s] = "stage" /\
                 \/ l = <<s, 0, "EX">>
                 \/ \E k \in DOMAIN work[s] :
                      l = <<s, k, "SH">> /\ work[s][k] \in {"ready", "checked", "running"}
      BY <2>3 DEF LockTable
    <3>2. s # r BY <2>3, <3>1
    <3>3. phase'[s] = "stage" /\ work'[s] = work[s]
      BY <3>1, <3>2 DEF TypeOK
    <3> QED BY <3>1, <3>3
  <2>4. \A s \in Requests : phase'[s] = "lock" => Mode(call'[s], at'[s]) = "EX"
    BY DEF TypeOK, LockTable
  <2> QED BY <2>1, <2>2, <2>3, <2>4 DEF LockTable
<1> QED BY <1>1, <1>2

(* The same for a call that is answered.                                   *)
LEMMA AnswersSafely ==
  ASSUME Safe, NEW r \in Requests, NEW kind, NEW i, Answer(r, kind, i),
         call' \in [Requests -> Calls \cup {Null}],
         \A s \in Requests \ {r} : call'[s] = call[s],
         locks' \subseteq locks, locks \ locks' \subseteq {<<r, 0, "EX">>},
         \A l \in locks' : l[1] # r
  PROVE  Safe'
PROOF
<1> USE DEF Safe, Answer
<1>1. TypeOK'
  BY DEF TypeOK
<1>2. LockTable'
  <2>1. \A l \in locks' : l[3] = "EX" => locks' = {l}
    BY DEF LockTable
  <2>2. \A s \in Requests : phase'[s] = "stage" =>
          s # r /\ phase[s] = "stage" /\ call'[s] = call[s]
    BY DEF TypeOK
  <2>3. \A l \in locks : l # <<r, 0, "EX">> => l \in locks'
    OBVIOUS
  <2>4. \A s \in Requests : s # r => phase'[s] = phase[s]
    BY DEF TypeOK
  <2>5. ASSUME NEW l \in locks'
        PROVE  \E s \in Requests : phase'[s] = "stage" /\
                 \/ l = <<s, 0, "EX">>
                 \/ \E k \in DOMAIN work'[s] :
                      l = <<s, k, "SH">> /\ work'[s][k] \in {"ready", "checked", "running"}
    BY <2>4, <2>5 DEF LockTable
  <2>6. \A s \in Requests : phase'[s] = "lock" => Mode(call'[s], at'[s]) = "EX"
    BY DEF TypeOK, LockTable
  <2> QED BY <2>1, <2>2, <2>3, <2>5, <2>6 DEF LockTable
<1> QED BY <1>1, <1>2

(* A member that goes on keeps the flock it has, or takes a shared one;    *)
(* a member that ends gives its shared flock back.                         *)
LEMMA MembersSafely ==
  ASSUME Safe, NEW r \in Requests, phase[r] = "stage", NEW k \in DOMAIN work[r],
         NEW status \in Statuses, Advance(r, k, status), UNCHANGED <<call, phase, at>>,
         \/ /\ status = "ready" /\ Grantable("SH")
            /\ locks' = locks \cup {<<r, k, "SH">>}
         \/ /\ status \in {"checked", "running"} /\ work[r][k] \in {"ready", "checked"}
            /\ locks' = locks
         \/ /\ status \in {"ok", "error"} /\ locks' = locks \ {<<r, k, "SH">>}
         \/ /\ status = "error" /\ work[r][k] = "lock" /\ locks' = locks
  PROVE  Safe'
PROOF
<1> USE DEF Safe, Advance
<1>1. /\ DOMAIN work' = Requests /\ DOMAIN work'[r] = DOMAIN work[r]
      /\ work'[r][k] = status
      /\ \A j \in DOMAIN work[r] : j # k => work'[r][j] = work[r][j]
      /\ \A s \in Requests : s # r => work'[s] = work[s]
      /\ work'[r] \in [DOMAIN work[r] -> Statuses]
  BY DEF TypeOK
<1>2. TypeOK'
  BY <1>1 DEF TypeOK
<1>3. LockTable'
  <2>1. \A l \in locks' : l[3] = "EX" => locks' = {l}
    BY DEF LockTable, Grantable
  <2>2. ASSUME NEW s \in Requests, phase'[s] = "stage", Mode(call'[s], at'[s]) = "EX"
        PROVE  <<s, 0, "EX">> \in locks'
    BY <2>2 DEF LockTable
  <2>3. ASSUME NEW s \in Requests, phase'[s] = "stage", Mode(call'[s], at'[s]) = "SH",
               NEW j \in DOMAIN work'[s], work'[s][j] \in {"ready", "checked", "running"}
        PROVE  <<s, j, "SH">> \in locks'
    <3>1. CASE s = r /\ j = k
      BY <1>1, <2>3, <3>1 DEF LockTable
    <3>2. CASE s # r \/ j # k
      <4>1. j \in DOMAIN work[s] /\ work[s][j] = work'[s][j]
        BY <1>1, <2>3, <3>2
      <4>2. <<s, j, "SH">> \in locks
        BY <2>3, <4>1 DEF LockTable
      <4> QED BY <3>2, <4>2
    <3> QED BY <3>1, <3>2
  <2>4. ASSUME NEW l \in locks'
        PROVE  \E s \in Requests : phase'[s] = "stage" /\
                 \/ l = <<s, 0, "EX">>
                 \/ \E j \in DOMAIN work'[s] :
                      l = <<s, j, "SH">> /\ work'[s][j] \in {"ready", "checked", "running"}
    <3>1. CASE l = <<r, k, "SH">>
      <4>1. work'[r][k] \in {"ready", "checked", "running"}
        <5>1. CASE status \in {"ready", "checked", "running"}
          BY <1>1, <5>1
        <5>2. CASE status \in {"ok", "error"}
          <6>1. work[r][k] = "lock" /\ locks' = locks
            BY <2>4, <3>1, <5>2
          <6>2. <<r, k, "SH">> \in locks BY <2>4, <3>1, <6>1
          <6>3. work[r][k] \in {"ready", "checked", "running"}
            BY <6>2 DEF LockTable
          <6> QED BY <6>1, <6>3
        <5> QED BY <5>1, <5>2
      <4> QED BY <1>1, <3>1, <4>1
    <3>2. CASE l # <<r, k, "SH">>
      <4>1. l \in locks BY <2>4, <3>2
      <4>2. PICK s \in Requests : phase[s] = "stage" /\
                 \/ l = <<s, 0, "EX">>
                 \/ \E j \in DOMAIN work[s] :
                      l = <<s, j, "SH">> /\ work[s][j] \in {"ready", "checked", "running"}
        BY <4>1 DEF LockTable
      <4>3. \A j \in DOMAIN work[s] : l = <<s, j, "SH">> =>
              j \in DOMAIN work'[s] /\ work'[s][j] = work[s][j]
        BY <1>1, <3>2
      <4> QED BY <4>2, <4>3
    <3> QED BY <3>1, <3>2
  <2> QED BY <2>1, <2>2, <2>3, <2>4 DEF LockTable
<1> QED BY <1>2, <1>3

(* Some other request's state is all that an acquired stage flock leaves.  *)
LEMMA AcquiresSafely ==
  ASSUME Safe, NEW r \in Requests, AcquireExclusive(r)
  PROVE  Safe'
PROOF
<1> USE DEF Safe, AcquireExclusive
<1>1. locks = {} /\ locks' = {<<r, 0, "EX">>}
  BY DEF Grantable
<1>2. TypeOK'
  BY DEF TypeOK
<1>3. /\ phase[r] = "lock" /\ phase'[r] = "stage"
      /\ \A s \in Requests : s # r => phase'[s] = phase[s]
  BY DEF TypeOK
<1>4. Mode(call[r], at[r]) = "EX"
  BY <1>3 DEF LockTable
<1>5. LockTable'
  BY <1>1, <1>3, <1>4 DEF LockTable
<1> QED BY <1>2, <1>5

(* A finished stage has only its exclusive flock left, and releases it.    *)
LEMMA FinishesSafely ==
  ASSUME Safe, NEW r \in Requests, FinishStage(r)
  PROVE  Safe'
PROOF
<1> DEFINE next == StageEnd(call[r], at[r]) + 1
<1> USE DEF Safe
<1>1. phase[r] = "stage" /\ Ended(r) /\ call' = call /\ locks' = locks \ {<<r, 0, "EX">>}
  BY DEF FinishStage
<1>2. ASSUME NEW l \in locks' PROVE l[1] # r
  <2>1. PICK s \in Requests :
          \/ l = <<s, 0, "EX">>
          \/ \E k \in DOMAIN work[s] :
               l = <<s, k, "SH">> /\ work[s][k] \in {"ready", "checked", "running"}
    BY <1>1, <1>2 DEF LockTable
  <2> QED BY <1>1, <1>2, <2>1 DEF Ended
<1>3. call[r] \in Calls /\ at[r] \in Nat \ {0} /\ at[r] <= Len(call[r].steps)
      /\ Len(call[r].steps) \in Nat
  BY <1>1, CallShape DEF TypeOK
<1>4. StageEnd(call[r], at[r]) \in at[r] .. Len(call[r].steps)
  BY <1>3, StageEndInCall
<1>5. CASE \E kind, i : Answer(r, kind, i)
  BY <1>1, <1>2, <1>5, AnswersSafely DEF TypeOK
<1>6. CASE next <= Len(call[r].steps) /\ EnterStage(r, call[r], next)
  <2>1. call' = [call EXCEPT ![r] = call[r]]
    BY <1>1 DEF TypeOK
  <2>2. next \in 1 .. Len(call[r].steps)
    BY <1>3, <1>4, <1>6
  <2> QED BY <1>1, <1>2, <1>3, <1>6, <2>1, <2>2, EntersSafely
<1>7. (\E kind, i : Answer(r, kind, i))
      \/ (next <= Len(call[r].steps) /\ EnterStage(r, call[r], next))
  <2>1. next > Len(call[r].steps) \/ next <= Len(call[r].steps)
    BY <1>3, <1>4
  <2> QED BY <2>1 DEF FinishStage
<1> QED BY <1>5, <1>6, <1>7

(* A request whose call has not begun holds no flock.                      *)
LEMMA DispatchesSafely ==
  ASSUME Safe, NEW r \in Requests, Dispatch(r)
  PROVE  Safe'
PROOF
<1> USE DEF Safe
<1>1. phase[r] = "idle" /\ locks' = locks
  BY DEF Dispatch
<1>2. \A l \in locks' : l[1] # r
  BY <1>1 DEF LockTable
<1>3. PICK c \in Calls :
        /\ call' = [call EXCEPT ![r] = c]
        /\ \/ ~Refused(c) /\ EnterStage(r, c, 1)
           \/ Answer(r, "error", 0)
  BY DEF Dispatch
<1>4. CASE ~Refused(c) /\ EnterStage(r, c, 1)
  <2>1. 1 \in 1 .. Len(c.steps)
    BY <1>4, CallShape DEF Refused
  <2> QED BY <1>1, <1>2, <1>3, <1>4, <2>1, EntersSafely
<1>5. CASE Answer(r, "error", 0)
  BY <1>1, <1>2, <1>3, <1>5, AnswersSafely DEF TypeOK
<1> QED BY <1>3, <1>4, <1>5

(* A lock file that cannot be opened leaves the table as it is.            *)
LEMMA LockFailsSafely ==
  ASSUME Safe, NEW r \in Requests, LockFails(r)
  PROVE  Safe'
PROOF
<1> USE DEF Safe, LockFails
<1>1. CASE phase[r] = "lock" /\ Answer(r, "error", at[r])
  <2>1. \A l \in locks' : l[1] # r
    BY <1>1 DEF LockTable
  <2> QED BY <1>1, <2>1, AnswersSafely DEF TypeOK
<1>2. CASE phase[r] = "stage" /\ UNCHANGED <<phase, at>>
           /\ \E k \in DOMAIN work[r] : work[r][k] = "lock" /\ Advance(r, k, "error")
  BY <1>2, MembersSafely DEF Statuses
<1> QED BY <1>1, <1>2

LEMMA MemberStepsSafely ==
  ASSUME Safe, NEW r \in Requests, NEW k \in DOMAIN work[r], MemberStep(r, k)
  PROVE  Safe'
PROOF
<1> USE DEF Statuses
<1>1. CASE AcquireShared(r, k)
  BY <1>1, MembersSafely DEF AcquireShared
<1>2. CASE Begin(r, k)
  BY <1>2, MembersSafely DEF Begin, End
<1>3. CASE Match(r, k)
  BY <1>3, MembersSafely DEF Match, End
<1>4. CASE Finish(r, k)
  BY <1>4, MembersSafely DEF Finish, End
<1> QED BY <1>1, <1>2, <1>3, <1>4 DEF MemberStep

(* The lock table is right in every state: dispatchSteps and pipe.go pair  *)
(* every acquireFlock with the Close that releases it, on every path.      *)
THEOREM ServerSafe == Spec => []Safe
PROOF
<1>1. Safe /\ [Next]_vars => Safe'
  <2> SUFFICES ASSUME Safe, [Next]_vars PROVE Safe'
    OBVIOUS
  <2>1. ASSUME NEW r \in Requests, RequestStep(r) PROVE Safe'
    BY <2>1, DispatchesSafely, AcquiresSafely, LockFailsSafely, FinishesSafely,
       MemberStepsSafely DEF RequestStep
  <2>2. CASE UNCHANGED vars
    BY <2>2 DEF vars, Safe, TypeOK, LockTable
  <2> QED BY <2>1, <2>2 DEF Next, Terminating
<1> QED BY InitSafe, <1>1, PTL DEF Spec

LEMMA SafeExcludesWriters == Safe => WriterExclusion
PROOF
<1> SUFFICES ASSUME Safe, NEW r \in Requests, NEW s \in Requests,
                    NEW k \in DOMAIN work[r], NEW m \in DOMAIN work[s],
                    Locking, r # s, Active(r, k), Active(s, m), Writing(r),
                    Listed(call[s])
             PROVE  FALSE
  BY DEF WriterExclusion
<1> USE DEF Safe, Active
<1>1. <<r, 0, "EX">> \in locks
  <2>1. Mode(call[r], at[r]) = "EX" BY DEF Mode, Writing
  <2> QED BY <2>1 DEF LockTable
<1>2. locks = {<<r, 0, "EX">>}
  BY <1>1 DEF LockTable
<1>3. <<s, 0, "EX">> \in locks \/ <<s, m, "SH">> \in locks
  <2>1. Mode(call[s], at[s]) \in {"EX", "SH"} BY DEF Mode
  <2> QED BY <2>1 DEF LockTable
<1> QED BY <1>2, <1>3

(* A write or global step of a list runs alone among the listed steps.     *)
THEOREM WritersExcluded == Spec => []WriterExclusion
BY ServerSafe, SafeExcludesWriters, PTL

-----------------------------------------------------------------------------
(* The members of a stage.                                                 *)

(* The members that step i is run as, in whatever stage.                   *)
OwnIds(c, i) ==
  IF c.steps[i].parallel = <<>> THEN {<<i, 0>>}
  ELSE {<<i, k>> : k \in DOMAIN c.steps[i].parallel}

EarlierIds(c, i) == UNION {OwnIds(c, j) : j \in 1 .. i - 1}

LEMMA EarlierIn ==
  ASSUME NEW c, NEW i, NEW m
  PROVE  m \in EarlierIds(c, i) <=> \E j \in 1 .. i - 1 : m \in OwnIds(c, j)
BY DEF EarlierIds

(* The steps of a batch are read-class.                                    *)
LEMMA BatchReads ==
  ASSUME NEW c, Len(c.steps) \in Nat, NEW i \in 1 .. Len(c.steps),
         NEW j \in i .. StageEnd(c, i), j # i
  PROVE  ReadClass(c.steps[i]) /\ ReadClass(c.steps[j])
PROOF
<1> DEFINE e == StageEnd(c, i)
<1>1. e \in i .. Len(c.steps)
  BY StageEndInCall
<1>2. Listed(c) /\ ReadClass(c.steps[i])
  BY <1>1 DEF StageEnd
<1>3. e = CHOOSE x \in BatchEnds(c, i) : \A k \in BatchEnds(c, i) : x <= k
  BY <1>2 DEF StageEnd
<1>4. j - 1 \notin BatchEnds(c, i)
  <2>1. SUFFICES ASSUME j - 1 \in BatchEnds(c, i) PROVE FALSE
    OBVIOUS
  <2>2. \E x \in BatchEnds(c, i) : \A k \in BatchEnds(c, i) : x <= k
    <3> DEFINE ends == BatchEnds(c, i)
    <3>1. ends \in SUBSET Nat /\ ends # {}
      BY <2>1 DEF BatchEnds
    <3> HIDE DEF ends
    <3>2. \E x \in ends : \A k \in ends : <<k, x>> \notin OpToRel(<, Nat)
      BY <3>1, NatLessThanWellFounded, WFMin, Zenon
    <3>3. ASSUME NEW x \in Nat, NEW k \in Nat, <<k, x>> \notin OpToRel(<, Nat)
          PROVE  x <= k
      BY <3>3 DEF OpToRel
    <3>4. \E x \in ends : \A k \in ends : x <= k
      BY <3>1, <3>2, <3>3
    <3> QED BY <3>4 DEF ends
  <2>3. e <= j - 1
    BY <1>3, <2>1, <2>2
  <2> QED BY <1>1, <2>3
<1>5. j - 1 \in i .. Len(c.steps) /\ j - 1 # Len(c.steps) /\ j - 1 + 1 = j
  BY <1>1
<1> QED BY <1>2, <1>4, <1>5 DEF BatchEnds

(* The members of a stage are those of its steps, in order.                *)
LEMMA StageMembers ==
  ASSUME NEW c \in Calls, NEW i \in 1 .. Len(c.steps)
  PROVE  /\ Elements(Members(c, i)) = UNION {OwnIds(c, j) : j \in i .. StageEnd(c, i)}
         /\ Members(c, i) \in Seq(Nat \X Nat)
         /\ Members(c, i) # <<>>
         /\ DOMAIN Members(c, i) = 1 .. Len(Members(c, i))
         /\ \A k, l \in DOMAIN Members(c, i) : k < l => Before(Members(c, i)[k], Members(c, i)[l])
PROOF
<1> DEFINE g == c.steps[i].parallel
           e == StageEnd(c, i)
           M == Members(c, i)
<1>1. /\ Len(c.steps) \in Nat /\ Len(g) \in Nat /\ DOMAIN g = 1 .. Len(g)
      /\ e \in i .. Len(c.steps)
  BY CallShape, StageEndInCall
<1>2. CASE g # <<>>
  <2>1. e = i
    <3>1. ~ReadClass(c.steps[i])
      BY <1>2 DEF ReadClass
    <3> QED BY <3>1 DEF StageEnd
  <2>2. M = [k \in 1 .. Len(g) |-> <<i, k>>]
    BY <1>1, <1>2 DEF Members
  <2>3. OwnIds(c, i) = {<<i, k>> : k \in 1 .. Len(g)}
    BY <1>1, <1>2 DEF OwnIds
  <2>4. Len(g) # 0
    BY <1>2, CallShape
  <2> HIDE DEF M, e
  <2>5. M \in [1 .. Len(g) -> Nat \X Nat]
    BY <1>1, <2>2
  <2>6. M \in Seq(Nat \X Nat) /\ Len(M) = Len(g) /\ DOMAIN M = 1 .. Len(M)
    BY <1>1, <2>5
  <2>7. Elements(M) = OwnIds(c, i)
    BY <2>2, <2>3 DEF Elements
  <2>8. UNION {OwnIds(c, j) : j \in i .. e} = OwnIds(c, i)
    <3>1. i .. e = {i}
      BY <2>1
    <3> QED BY <3>1
  <2>9. \A k, l \in DOMAIN M : k < l => Before(M[k], M[l])
    BY <2>2 DEF Before
  <2>10. M # <<>>
    BY <2>4, <2>6
  <2> QED BY <2>6, <2>7, <2>8, <2>9, <2>10 DEF M, e
<1>3. CASE g = <<>>
  <2>1. M = [k \in 1 .. e - i + 1 |-> <<i + k - 1, 0>>]
    BY <1>3 DEF Members
  <2>2. ASSUME NEW j \in i .. e PROVE OwnIds(c, j) = {<<j, 0>>}
    <3>1. CASE j = i
      BY <1>3, <3>1 DEF OwnIds
    <3>2. CASE j # i
      <4>1. ReadClass(c.steps[j])
        BY <1>1, <3>2, BatchReads
      <4> QED BY <4>1 DEF ReadClass, OwnIds
    <3> QED BY <3>1, <3>2
  <2> HIDE DEF M, e
  <2>3. M \in [1 .. e - i + 1 -> Nat \X Nat]
    BY <1>1, <2>1
  <2>4. M \in Seq(Nat \X Nat) /\ Len(M) = e - i + 1 /\ DOMAIN M = 1 .. Len(M) /\ Len(M) # 0
    BY <1>1, <2>3
  <2>5. Elements(M) = {<<j, 0>> : j \in i .. e}
    <3>1. ASSUME NEW j \in i .. e PROVE \E k \in DOMAIN M : M[k] = <<j, 0>>
      <4>1. j - i + 1 \in 1 .. e - i + 1 /\ i + (j - i + 1) - 1 = j
        BY <1>1
      <4> QED BY <2>1, <4>1
    <3>2. ASSUME NEW k \in DOMAIN M PROVE \E j \in i .. e : M[k] = <<j, 0>>
      <4>1. k \in 1 .. e - i + 1 /\ i + k - 1 \in i .. e
        BY <1>1, <2>1
      <4> QED BY <2>1, <4>1
    <3> QED BY <3>1, <3>2 DEF Elements
  <2>6. Elements(M) = UNION {OwnIds(c, j) : j \in i .. e}
    BY <2>2, <2>5
  <2>7. \A k, l \in DOMAIN M : k < l => Before(M[k], M[l])
    BY <1>1, <2>1 DEF Before
  <2>8. M # <<>>
    BY <2>4
  <2> QED BY <2>4, <2>6, <2>7, <2>8 DEF M, e
<1> QED BY <1>2, <1>3

(* The members of a call are those of its steps.                           *)
LEMMA CallMembers ==
  ASSUME NEW c \in Calls
  PROVE  MemberIds(c) = EarlierIds(c, Len(c.steps) + 1)
PROOF
<1> DEFINE n == Len(c.steps)
<1>1. n \in Nat /\ DOMAIN c.steps = 1 .. n
  BY CallShape
<1>2. ASSUME NEW i \in 1 .. n
      PROVE  /\ Elements(Members(c, i)) = UNION {OwnIds(c, j) : j \in i .. StageEnd(c, i)}
             /\ StageEnd(c, i) \in i .. n
  BY <1>1, StageMembers, StageEndInCall
<1>3. ASSUME NEW m \in MemberIds(c) PROVE m \in EarlierIds(c, n + 1)
  <2>1. PICK i \in 1 .. n : m \in Elements(Members(c, i))
    BY <1>1 DEF MemberIds
  <2>2. PICK j \in i .. StageEnd(c, i) : m \in OwnIds(c, j)
    BY <1>2, <2>1
  <2>3. j \in 1 .. n + 1 - 1
    BY <1>1, <1>2
  <2> QED BY <2>2, <2>3 DEF EarlierIds
<1>4. ASSUME NEW m \in EarlierIds(c, n + 1) PROVE m \in MemberIds(c)
  <2>1. PICK j \in 1 .. n + 1 - 1 : m \in OwnIds(c, j)
    BY DEF EarlierIds
  <2>2. j \in 1 .. n /\ j \in j .. StageEnd(c, j)
    BY <1>1, <1>2
  <2>3. m \in Elements(Members(c, j))
    BY <1>2, <2>1, <2>2
  <2> QED BY <1>1, <2>2, <2>3 DEF MemberIds
<1> QED BY <1>3, <1>4

(* The first component of a member is its step.                            *)
LEMMA OwnStep ==
  ASSUME NEW c, NEW i, NEW m \in OwnIds(c, i)
  PROVE  m[1] = i
BY DEF OwnIds

LEMMA EarlierSteps ==
  ASSUME NEW c \in Calls, NEW i \in 1 .. Len(c.steps) + 1, NEW m \in MemberIds(c)
  PROVE  m[1] \in Nat /\ (m \in EarlierIds(c, i) <=> m[1] < i)
PROOF
<1>1. Len(c.steps) \in Nat
  BY CallShape
<1>2. PICK j \in 1 .. Len(c.steps) + 1 - 1 : m \in OwnIds(c, j)
  BY CallMembers DEF EarlierIds
<1>3. m[1] = j
  BY <1>2, OwnStep
<1>4. ASSUME m \in EarlierIds(c, i) PROVE m[1] < i
  <2>1. PICK l \in 1 .. i - 1 : m \in OwnIds(c, l)
    BY <1>4 DEF EarlierIds
  <2> QED BY <1>1, <2>1, OwnStep
<1>5. ASSUME m[1] < i PROVE m \in EarlierIds(c, i)
  <2>1. j \in 1 .. i - 1
    BY <1>1, <1>3, <1>5
  <2> QED BY <1>2, <2>1 DEF EarlierIds
<1> QED BY <1>3, <1>4, <1>5

(* The stages before the next one are the earlier ones and this one.       *)
LEMMA EarlierGrows ==
  ASSUME NEW c \in Calls, NEW i \in 1 .. Len(c.steps)
  PROVE  /\ EarlierIds(c, StageEnd(c, i) + 1) = EarlierIds(c, i) \cup Elements(Members(c, i))
         /\ EarlierIds(c, i) \cup Elements(Members(c, i)) \subseteq MemberIds(c)
PROOF
<1> DEFINE e == StageEnd(c, i)
<1>1. Len(c.steps) \in Nat /\ e \in i .. Len(c.steps)
  BY CallShape, StageEndInCall
<1>2. Elements(Members(c, i)) = UNION {OwnIds(c, j) : j \in i .. e}
  BY StageMembers
<1> HIDE DEF e
<1>3. 1 .. e + 1 - 1 = (1 .. i - 1) \cup (i .. e)
  BY <1>1
<1>4. EarlierIds(c, e + 1) = EarlierIds(c, i) \cup Elements(Members(c, i))
  <2>1. \A m : m \in EarlierIds(c, e + 1) <=> \E j \in 1 .. e + 1 - 1 : m \in OwnIds(c, j)
    BY <1>1, EarlierIn
  <2>2. \A m : m \in EarlierIds(c, i) <=> \E j \in 1 .. i - 1 : m \in OwnIds(c, j)
    BY <1>1, EarlierIn
  <2>3. \A m : m \in Elements(Members(c, i)) <=> \E j \in i .. e : m \in OwnIds(c, j)
    BY <1>2
  <2>4. \A j : j \in 1 .. e + 1 - 1 <=> j \in 1 .. i - 1 \/ j \in i .. e
    BY <1>3, Zenon
  <2> QED BY <2>1, <2>2, <2>3, <2>4, Zenon
<1>5. 1 .. e + 1 - 1 \subseteq 1 .. Len(c.steps) + 1 - 1
  BY <1>1
<1>6. EarlierIds(c, e + 1) \subseteq MemberIds(c)
  <2>1. ASSUME NEW m \in EarlierIds(c, e + 1) PROVE m \in MemberIds(c)
    <3>1. PICK j \in 1 .. e + 1 - 1 : m \in OwnIds(c, j)
      BY <1>1, EarlierIn
    <3>2. m \in EarlierIds(c, Len(c.steps) + 1)
      BY <1>5, <3>1, EarlierIn
    <3> QED BY <3>2, CallMembers
  <2> QED BY <2>1
<1> QED BY <1>4, <1>6 DEF e

-----------------------------------------------------------------------------
(* What a request knows of its call while the call is under way.           *)

Pairs == Nat \X Nat

Sorted(o) == \A k \in 1 .. Len(o) - 1 : Before(o[k], o[k + 1])

OkIds(c, i, w) == {Members(c, i)[k] : k \in {k \in DOMAIN w : w[k] = "ok"}}

(* The output so far: of all earlier stages, or of the last one in a pipe. *)
Collected(c, i, o) ==
  /\ o \in Seq(Pairs) /\ Sorted(o)
  /\ Elements(o) = {m \in EarlierIds(c, i) : c.tool = "pipe" => m[1] = i - 1}

(* At step i of call c, with w the states of the stage's members: g have   *)
(* ended well, b were begun, and o is the output so far.                   *)
Underway(c, i, w, g, b, o) ==
  /\ c \in Calls /\ i \in 1 .. Len(c.steps)
  /\ DOMAIN w = DOMAIN Members(c, i)
  /\ g = EarlierIds(c, i) \cup OkIds(c, i, w)
  /\ b \subseteq EarlierIds(c, i) \cup Elements(Members(c, i))
  /\ Collected(c, i, o)

FaithfulOk(c, g, o) ==
  g = MemberIds(c) /\ Elements(o) = Shown(c) /\ Sorted(o)

FaithfulError(c, step, g, b) ==
  LET stage == IF step = 0 THEN {} ELSE Elements(Members(c, step))
  IN  /\ \A m \in MemberIds(c) : m[1] < step => m \in g
      /\ \A m \in b : m[1] < step \/ m \in stage
      /\ ~(stage \subseteq g) \/ stage = {}

Honest(c, a, g, b, o) ==
  /\ a.kind = "ok" => FaithfulOk(c, g, o)
  /\ a.kind = "error" => FaithfulError(c, a.step, g, b)

AllReady(w) == \A k \in DOMAIN w : w[k] = "ready"

Told(r) ==
  /\ phase[r] = "idle" =>
       reply[r] = NoReply /\ good[r] = {} /\ began[r] = {} /\ out[r] = <<>>
  /\ phase[r] \in {"lock", "stage"} =>
       /\ reply[r] = NoReply
       /\ Underway(call[r], at[r], work[r], good[r], began[r], out[r])
  /\ phase[r] = "lock" => AllReady(work[r])
  /\ phase[r] = "done" => Honest(call[r], reply[r], good[r], began[r], out[r])

(* Safe, and a history of every request that fits where it is.             *)
Recorded ==
  /\ DOMAIN reply = Requests /\ DOMAIN out = Requests
  /\ DOMAIN good = Requests /\ DOMAIN began = Requests
  /\ \A r \in Requests : Told(r)

-----------------------------------------------------------------------------
LEMMA ConcatSorted ==
  ASSUME NEW o \in Seq(Pairs), NEW p \in Seq(Pairs), Sorted(o), Sorted(p),
         \A k \in DOMAIN o, l \in DOMAIN p : Before(o[k], p[l])
  PROVE  /\ o \o p \in Seq(Pairs) /\ Sorted(o \o p)
         /\ Elements(o \o p) = Elements(o) \cup Elements(p)
PROOF
<1> DEFINE q == o \o p
           n == Len(o)
           l == Len(p)
<1>1. /\ q \in Seq(Pairs) /\ n \in Nat /\ l \in Nat /\ Len(q) = n + l
      /\ DOMAIN o = 1 .. n /\ DOMAIN p = 1 .. l /\ DOMAIN q = 1 .. n + l
      /\ \A k \in 1 .. n : q[k] = o[k]
      /\ \A k \in n + 1 .. n + l : q[k] = p[k - n]
  OBVIOUS
<1> HIDE DEF q, n, l
<1>2. Sorted(q)
  <2> SUFFICES ASSUME NEW k \in 1 .. n + l - 1 PROVE Before(q[k], q[k + 1])
    BY <1>1 DEF Sorted
  <2>1. CASE k < n
    <3>1. k \in 1 .. n - 1 /\ q[k] = o[k] /\ q[k + 1] = o[k + 1]
      BY <1>1, <2>1
    <3> QED BY <3>1 DEF Sorted, n
  <2>2. CASE k = n
    <3>1. q[k] = o[n] /\ q[k + 1] = p[1] /\ n \in DOMAIN o /\ 1 \in DOMAIN p
      <4>1. k + 1 \in n + 1 .. n + l /\ k + 1 - n = 1
        BY <1>1, <2>2
      <4> QED BY <1>1, <2>2, <4>1
    <3> QED BY <3>1
  <2>3. CASE k > n
    <3>1. k - n \in 1 .. l - 1
      BY <1>1, <2>3
    <3>2. q[k] = p[k - n] /\ q[k + 1] = p[k - n + 1]
      <4>1. k \in n + 1 .. n + l /\ k + 1 \in n + 1 .. n + l /\ k + 1 - n = k - n + 1
        BY <1>1, <2>3
      <4> QED BY <1>1, <4>1
    <3> QED BY <3>1, <3>2 DEF Sorted, l
  <2> QED BY <1>1, <2>1, <2>2, <2>3
<1>3. Elements(q) = Elements(o) \cup Elements(p)
  <2>1. ASSUME NEW k \in DOMAIN q PROVE q[k] \in Elements(o) \cup Elements(p)
    <3>1. CASE k \in 1 .. n
      BY <1>1, <3>1 DEF Elements
    <3>2. CASE k \in n + 1 .. n + l
      <4>1. k - n \in 1 .. l
        BY <1>1, <3>2
      <4> QED BY <1>1, <3>2, <4>1 DEF Elements
    <3> QED BY <1>1, <2>1, <3>1, <3>2
  <2>2. ASSUME NEW k \in DOMAIN o PROVE o[k] \in Elements(q)
    <3>1. k \in DOMAIN q /\ q[k] = o[k]
      BY <1>1
    <3> QED BY <3>1 DEF Elements
  <2>3. ASSUME NEW k \in DOMAIN p PROVE p[k] \in Elements(q)
    <3>1. n + k \in n + 1 .. n + l /\ n + k - n = k
      BY <1>1
    <3>2. n + k \in DOMAIN q /\ q[n + k] = p[k]
      BY <1>1, <3>1
    <3> QED BY <3>2 DEF Elements
  <2> QED BY <2>1, <2>2, <2>3 DEF Elements
<1> QED BY <1>1, <1>2, <1>3 DEF q

LEMMA MembersListed ==
  ASSUME NEW c \in Calls, NEW i \in 1 .. Len(c.steps)
  PROVE  /\ Members(c, i) \in Seq(Pairs) /\ Sorted(Members(c, i))
         /\ Elements(Members(c, i)) # {}
         /\ Elements(Members(c, i)) \subseteq MemberIds(c)
         /\ \A m \in Elements(Members(c, i)) : m[1] \in i .. StageEnd(c, i)
PROOF
<1> DEFINE M == Members(c, i)
<1>1. /\ M \in Seq(Pairs) /\ M # <<>> /\ DOMAIN M = 1 .. Len(M) /\ Len(M) \in Nat
      /\ \A k, l \in DOMAIN M : k < l => Before(M[k], M[l])
  BY StageMembers DEF Pairs
<1>2. Sorted(M)
  BY <1>1 DEF Sorted
<1>3. Elements(M) # {}
  <2>1. 1 \in DOMAIN M
    BY <1>1
  <2> QED BY <2>1 DEF Elements
<1>4. Elements(M) \subseteq MemberIds(c)
  BY EarlierGrows
<1>5. ASSUME NEW m \in Elements(M) PROVE m[1] \in i .. StageEnd(c, i)
  <2>1. PICK j \in i .. StageEnd(c, i) : m \in OwnIds(c, j)
    BY StageMembers
  <2> QED BY <2>1, OwnStep
<1> QED BY <1>1, <1>2, <1>3, <1>4, <1>5

(* The earlier members are no members of the stage.                        *)
LEMMA StageIsNew ==
  ASSUME NEW c \in Calls, NEW i \in 1 .. Len(c.steps), NEW m \in Elements(Members(c, i))
  PROVE  m \notin EarlierIds(c, i)
PROOF
<1>1. m \in MemberIds(c) /\ m[1] \in i .. StageEnd(c, i)
  BY MembersListed
<1>2. i \in 1 .. Len(c.steps) + 1 /\ Len(c.steps) \in Nat
  BY CallShape
<1>3. ~(m[1] < i)
  BY <1>1, <1>2
<1> QED BY <1>1, <1>2, <1>3, EarlierSteps

(* Different members of a stage have different ids.                        *)
LEMMA IdsDiffer ==
  ASSUME NEW c \in Calls, NEW i \in 1 .. Len(c.steps),
         NEW k \in DOMAIN Members(c, i), NEW l \in DOMAIN Members(c, i), k # l
  PROVE  Members(c, i)[k] # Members(c, i)[l]
PROOF
<1> DEFINE M == Members(c, i)
<1>1. /\ M \in Seq(Nat \X Nat) /\ DOMAIN M = 1 .. Len(M)
      /\ \A x, y \in DOMAIN M : x < y => Before(M[x], M[y])
  BY StageMembers
<1> HIDE DEF M
<1>2. k \in Nat /\ l \in Nat /\ (k < l \/ l < k)
  BY <1>1 DEF M
<1>3. M[k] \in Nat \X Nat /\ M[l] \in Nat \X Nat
  BY <1>1 DEF M
<1>4. Before(M[k], M[l]) \/ Before(M[l], M[k])
  BY <1>1, <1>2 DEF M
<1>5. \A x \in Nat \X Nat : ~Before(x, x)
  BY DEF Before
<1> QED BY <1>3, <1>4, <1>5 DEF M

(* A stage begins with what the stages before it have left.                *)
LEMMA EntersUnderway ==
  ASSUME NEW c \in Calls, NEW i \in 1 .. Len(c.steps), NEW w,
         DOMAIN w = DOMAIN Members(c, i), \A k \in DOMAIN w : w[k] # "ok",
         NEW b, b \subseteq EarlierIds(c, i), NEW o, Collected(c, i, o)
  PROVE  Underway(c, i, w, EarlierIds(c, i), b, o)
BY DEF Underway, OkIds

(* A stage that has ended well leaves its output in order.                 *)
LEMMA StageCollected ==
  ASSUME NEW c \in Calls, NEW i \in 1 .. Len(c.steps), NEW o, Collected(c, i, o)
  PROVE  Collected(c, StageEnd(c, i) + 1,
                   IF c.tool = "pipe" THEN Members(c, i) ELSE o \o Members(c, i))
PROOF
<1> DEFINE M == Members(c, i)
           e == StageEnd(c, i)
<1>1. /\ M \in Seq(Pairs) /\ Sorted(M) /\ Elements(M) \subseteq MemberIds(c)
      /\ \A m \in Elements(M) : m[1] \in i .. e
  BY MembersListed
<1>2. EarlierIds(c, e + 1) = EarlierIds(c, i) \cup Elements(M)
  BY EarlierGrows
<1>3. i \in Nat /\ e \in i .. Len(c.steps) /\ Len(c.steps) \in Nat
  BY CallShape, StageEndInCall
<1>4. EarlierIds(c, i) \subseteq MemberIds(c)
  BY EarlierGrows
<1>5. \A m \in EarlierIds(c, i) : m[1] \in Nat /\ m[1] < i
  BY <1>3, <1>4, EarlierSteps
<1> HIDE DEF M, e
<1>6. CASE c.tool = "pipe"
  <2>1. e = i
    BY <1>6 DEF e, StageEnd, Listed
  <2>2. \A m \in EarlierIds(c, i) : m[1] # e + 1 - 1
    BY <1>3, <1>5, <2>1
  <2>3. \A m \in Elements(M) : m[1] = e + 1 - 1
    BY <1>1, <1>3, <2>1
  <2>4. Elements(M) = {m \in EarlierIds(c, e + 1) : m[1] = e + 1 - 1}
    BY <1>2, <2>2, <2>3
  <2>5. Elements(M) = {m \in EarlierIds(c, e + 1) : c.tool = "pipe" => m[1] = e + 1 - 1}
    BY <1>6, <2>4
  <2>6. Collected(c, e + 1, M)
    BY <1>1, <1>3, <2>5 DEF Collected
  <2> QED BY <1>6, <2>6 DEF M, e
<1>7. CASE c.tool # "pipe"
  <2>1. o \in Seq(Pairs) /\ Sorted(o) /\ Elements(o) = EarlierIds(c, i)
    BY <1>7 DEF Collected
  <2>2. ASSUME NEW k \in DOMAIN o, NEW l \in DOMAIN M PROVE Before(o[k], M[l])
    <3>1. o[k] \in EarlierIds(c, i) /\ M[l] \in Elements(M)
      BY <2>1 DEF Elements
    <3>2. o[k][1] \in Nat /\ o[k][1] < i /\ M[l][1] \in i .. e
      BY <1>1, <1>5, <3>1
    <3>3. o[k][1] < M[l][1]
      BY <1>3, <3>2
    <3> QED BY <3>3 DEF Before
  <2>3. /\ o \o M \in Seq(Pairs) /\ Sorted(o \o M)
        /\ Elements(o \o M) = EarlierIds(c, i) \cup Elements(M)
    BY <1>1, <2>1, <2>2, ConcatSorted
  <2> QED BY <1>2, <1>7, <2>3 DEF Collected, M, e
<1> QED BY <1>6, <1>7

(* Success: after the last stage everything has ended well and is shown.   *)
LEMMA SuccessIsFaithful ==
  ASSUME NEW c \in Calls, NEW o, Collected(c, Len(c.steps) + 1, o)
  PROVE  FaithfulOk(c, EarlierIds(c, Len(c.steps) + 1), o)
PROOF
<1>1. EarlierIds(c, Len(c.steps) + 1) = MemberIds(c) /\ Len(c.steps) \in Nat
  BY CallMembers, CallShape
<1>2. Len(c.steps) + 1 - 1 = Len(c.steps)
  BY <1>1
<1> QED BY <1>1, <1>2 DEF FaithfulOk, Collected, Shown

(* Failure: a member of the stage has not ended well, and none after it    *)
(* was begun.                                                              *)
LEMMA FailureIsFaithful ==
  ASSUME NEW c, NEW i, NEW w, NEW g, NEW b, NEW o, Underway(c, i, w, g, b, o),
         NEW k \in DOMAIN w, w[k] # "ok"
  PROVE  FaithfulError(c, i, g, b)
PROOF
<1> DEFINE M == Members(c, i)
<1>1. /\ c \in Calls /\ i \in 1 .. Len(c.steps) /\ DOMAIN w = DOMAIN M
      /\ g = EarlierIds(c, i) \cup OkIds(c, i, w)
      /\ b \subseteq EarlierIds(c, i) \cup Elements(M)
  BY DEF Underway
<1>2. i \in 1 .. Len(c.steps) + 1 /\ i # 0
  BY <1>1, CallShape
<1>3. \A m \in MemberIds(c) : m[1] < i => m \in g
  BY <1>1, <1>2, EarlierSteps
<1>4. EarlierIds(c, i) \subseteq MemberIds(c)
  BY <1>1, EarlierGrows
<1>5. \A m \in b : m[1] < i \/ m \in Elements(M)
  BY <1>1, <1>2, <1>4, EarlierSteps
<1>6. M[k] \in Elements(M) /\ M[k] \notin g
  <2>1. M[k] \in Elements(M)
    BY <1>1 DEF Elements
  <2>2. M[k] \notin EarlierIds(c, i)
    BY <1>1, <2>1, StageIsNew
  <2>3. ASSUME NEW l \in DOMAIN w, w[l] = "ok" PROVE M[l] # M[k]
    BY <1>1, <2>3, IdsDiffer
  <2> QED BY <1>1, <2>1, <2>2, <2>3 DEF OkIds
<1> QED BY <1>2, <1>3, <1>5, <1>6 DEF FaithfulError

-----------------------------------------------------------------------------
(* Every step of the server keeps the record.                              *)

LEMMA InitRecorded == Init => Recorded
BY DEF Init, Recorded, Told

(* Nothing of the other requests changes.                                  *)
Others(r) ==
  \A s \in Requests : s # r =>
    /\ call'[s] = call[s] /\ phase'[s] = phase[s] /\ at'[s] = at[s]
    /\ work'[s] = work[s] /\ out'[s] = out[s] /\ reply'[s] = reply[s]
    /\ began'[s] = began[s] /\ good'[s] = good[s]

Domains ==
  /\ DOMAIN reply = Requests /\ DOMAIN out = Requests
  /\ DOMAIN good = Requests /\ DOMAIN began = Requests

LEMMA RecordOf ==
  ASSUME Recorded, Domains', NEW r \in Requests, Others(r), Told(r)'
  PROVE  Recorded'
PROOF
<1>1. ASSUME NEW s \in Requests, s # r PROVE Told(s)'
  <2>1. Told(s)
    BY DEF Recorded
  <2> QED BY <1>1, <2>1 DEF Told, Others
<1> QED BY <1>1 DEF Recorded, Domains

LEMMA DispatchRecorded ==
  ASSUME Safe, Recorded, NEW r \in Requests, Dispatch(r)
  PROVE  Recorded'
PROOF
<1>1. /\ phase[r] = "idle" /\ out' = out /\ began' = began /\ good' = good
      /\ \E c \in Calls :
           /\ call' = [call EXCEPT ![r] = c]
           /\ \/ ~Refused(c) /\ EnterStage(r, c, 1) /\ UNCHANGED reply
              \/ Answer(r, "error", 0)
  BY DEF Dispatch, history
<1>2. PICK c \in Calls :
        /\ call' = [call EXCEPT ![r] = c]
        /\ \/ ~Refused(c) /\ EnterStage(r, c, 1) /\ UNCHANGED reply
           \/ Answer(r, "error", 0)
  BY <1>1
<1>3. /\ reply[r] = NoReply /\ good[r] = {} /\ began[r] = {} /\ out[r] = <<>>
  BY <1>1 DEF Recorded, Told
<1>4. Domains' /\ Others(r) /\ call'[r] = c
  BY <1>1, <1>2 DEF Recorded, Domains, Others, EnterStage, Answer, Safe, TypeOK
<1>5. CASE ~Refused(c) /\ EnterStage(r, c, 1) /\ UNCHANGED reply
  <2>1. 1 \in 1 .. Len(c.steps)
    BY <1>5, CallShape DEF Refused
  <2>2. EarlierIds(c, 1) = {}
    BY DEF EarlierIds
  <2>3. Collected(c, 1, <<>>)
    BY <2>2 DEF Collected, Sorted, Elements
  <2>4. /\ at'[r] = 1
        /\ phase'[r] = IF Mode(c, 1) = "EX" THEN "lock" ELSE "stage"
        /\ work'[r] = [k \in DOMAIN Members(c, 1) |-> IF Mode(c, 1) = "SH" THEN "lock" ELSE "ready"]
    BY <1>5 DEF EnterStage, Safe, TypeOK
  <2>5. Underway(c, 1, work'[r], good[r], began[r], out[r])
    <3>1. DOMAIN work'[r] = DOMAIN Members(c, 1) /\ \A k \in DOMAIN work'[r] : work'[r][k] # "ok"
      BY <2>4
    <3> DEFINE w == work'[r]
    <3> HIDE DEF w
    <3>2. DOMAIN w = DOMAIN Members(c, 1) /\ \A k \in DOMAIN w : w[k] # "ok"
      BY <3>1 DEF w
    <3>3. Underway(c, 1, w, {}, {}, <<>>)
      <4>1. Underway(c, 1, w, EarlierIds(c, 1), {}, <<>>)
        BY <2>1, <2>3, <3>2, EntersUnderway
      <4> QED BY <2>2, <4>1
    <3> QED BY <1>3, <3>3 DEF w
  <2>6. phase'[r] = "lock" => AllReady(work'[r])
    BY <2>4 DEF AllReady
  <2>7. Told(r)'
    BY <1>1, <1>3, <1>4, <1>5, <2>4, <2>5, <2>6 DEF Told
  <2> QED BY <1>4, <2>7, RecordOf
<1>6. CASE Answer(r, "error", 0)
  <2>1. /\ phase'[r] = "done" /\ reply'[r] = [kind |-> "error", step |-> 0]
    BY <1>6 DEF Answer, Safe, TypeOK, Recorded
  <2>2. FaithfulError(c, 0, {}, {})
    <3>1. \A m \in MemberIds(c) : ~(m[1] < 0)
      <4>1. ASSUME NEW m \in MemberIds(c) PROVE m[1] \in Nat
        <5>1. 1 \in 1 .. Len(c.steps) + 1
          BY CallShape
        <5> QED BY <5>1, EarlierSteps
      <4> QED BY <4>1
    <3> QED BY <3>1 DEF FaithfulError
  <2>3. Told(r)'
    BY <1>1, <1>3, <1>4, <2>1, <2>2 DEF Told, Honest
  <2> QED BY <1>4, <2>3, RecordOf
<1> QED BY <1>2, <1>5, <1>6

LEMMA AcquireRecorded ==
  ASSUME Safe, Recorded, NEW r \in Requests, AcquireExclusive(r)
  PROVE  Recorded'
PROOF
<1>1. /\ phase[r] = "lock" /\ phase' = [phase EXCEPT ![r] = "stage"]
      /\ UNCHANGED <<call, at, work, out, reply, began, good>>
  BY DEF AcquireExclusive, history
<1>2. Domains' /\ Others(r) /\ phase'[r] = "stage"
  BY <1>1 DEF Recorded, Domains, Others, Safe, TypeOK
<1>3. Told(r)'
  BY <1>1, <1>2 DEF Told, Recorded
<1> QED BY <1>2, <1>3, RecordOf

(* A member that has not ended well changes neither what ended well nor    *)
(* the output, whatever becomes of it short of that.                       *)
LEMMA MemberUnderway ==
  ASSUME NEW c, NEW i, NEW w, NEW g, NEW b, NEW o, Underway(c, i, w, g, b, o),
         NEW k \in DOMAIN w, w[k] # "ok", NEW s, s # "ok", NEW v, v = [w EXCEPT ![k] = s]
  PROVE  Underway(c, i, v, g, b, o)
PROOF
<1>1. DOMAIN v = DOMAIN w /\ {l \in DOMAIN v : v[l] = "ok"} = {l \in DOMAIN w : w[l] = "ok"}
  OBVIOUS
<1>2. OkIds(c, i, v) = OkIds(c, i, w)
  BY <1>1 DEF OkIds
<1> QED BY <1>1, <1>2 DEF Underway

LEMMA MemberEndsWell ==
  ASSUME NEW c, NEW i, NEW w, NEW g, NEW b, NEW o, Underway(c, i, w, g, b, o),
         NEW k \in DOMAIN w, NEW v, v = [w EXCEPT ![k] = "ok"]
  PROVE  Underway(c, i, v, g \cup {Members(c, i)[k]}, b, o)
PROOF
<1>1. /\ DOMAIN v = DOMAIN w
      /\ {l \in DOMAIN v : v[l] = "ok"} = {l \in DOMAIN w : w[l] = "ok"} \cup {k}
  OBVIOUS
<1>2. OkIds(c, i, v) = OkIds(c, i, w) \cup {Members(c, i)[k]}
  BY <1>1 DEF OkIds
<1> QED BY <1>1, <1>2 DEF Underway

(* The members of a stage that has ended well have all ended well.         *)
LEMMA StageEndedWell ==
  ASSUME NEW c, NEW i, NEW w, NEW g, NEW b, NEW o, Underway(c, i, w, g, b, o),
         \A k \in DOMAIN w : w[k] = "ok"
  PROVE  g = EarlierIds(c, StageEnd(c, i) + 1) /\ b \subseteq g
PROOF
<1>1. OkIds(c, i, w) = Elements(Members(c, i))
  BY DEF Underway, OkIds, Elements
<1> QED BY <1>1, EarlierGrows DEF Underway

LEMMA LockFailsRecorded ==
  ASSUME Safe, Recorded, NEW r \in Requests, LockFails(r)
  PROVE  Recorded'
PROOF
<1>1. UNCHANGED <<call, out, began, good>> /\ DOMAIN work = Requests
  BY DEF LockFails, history, Safe, TypeOK
<1>2. CASE phase[r] = "lock" /\ Answer(r, "error", at[r])
  <2>1. /\ phase'[r] = "done" /\ reply'[r] = [kind |-> "error", step |-> at[r]]
        /\ Domains' /\ Others(r)
    BY <1>1, <1>2 DEF Recorded, Domains, Others, Answer, Safe, TypeOK
  <2>2. /\ Underway(call[r], at[r], work[r], good[r], began[r], out[r])
        /\ AllReady(work[r])
    BY <1>2 DEF Recorded, Told
  <2>3. \E k \in DOMAIN work[r] : work[r][k] # "ok"
    <3>1. Elements(Members(call[r], at[r])) # {}
      BY <2>2, MembersListed DEF Underway
    <3>2. DOMAIN work[r] # {}
      BY <2>2, <3>1 DEF Underway, Elements
    <3> QED BY <2>2, <3>2 DEF AllReady
  <2>4. FaithfulError(call[r], at[r], good[r], began[r])
    BY <2>2, <2>3, FailureIsFaithful
  <2>5. Told(r)'
    BY <1>1, <2>1, <2>4 DEF Told, Honest
  <2> QED BY <2>1, <2>5, RecordOf
<1>3. CASE /\ phase[r] = "stage" /\ UNCHANGED <<phase, at, reply>>
           /\ \E k \in DOMAIN work[r] : work[r][k] = "lock" /\ Advance(r, k, "error")
  <2>1. PICK k \in DOMAIN work[r] : work[r][k] = "lock" /\ Advance(r, k, "error")
    BY <1>3
  <2>2. work'[r] = [work[r] EXCEPT ![k] = "error"] /\ Domains' /\ Others(r)
    BY <1>1, <1>3, <2>1 DEF Recorded, Domains, Others, Advance
  <2>3. Underway(call[r], at[r], work'[r], good[r], began[r], out[r])
    <3>1. Underway(call[r], at[r], work[r], good[r], began[r], out[r])
      BY <1>3 DEF Recorded, Told
    <3> QED BY <2>1, <2>2, <3>1, MemberUnderway
  <2>4. Told(r)'
    BY <1>1, <1>3, <2>3 DEF Told, Recorded
  <2> QED BY <2>2, <2>4, RecordOf
<1> QED BY <1>2, <1>3 DEF LockFails

(* A member step of r that is not its good end.                            *)
LEMMA MemberRecorded ==
  ASSUME Safe, Recorded, NEW r \in Requests, NEW k \in DOMAIN work[r], phase[r] = "stage",
         UNCHANGED <<call, phase, at, out, reply, good>>,
         NEW status, status # "ok", work[r][k] # "ok", Advance(r, k, status),
         began' \in {began, [began EXCEPT ![r] = @ \cup {Id(r, k)}]}
  PROVE  Recorded'
PROOF
<1>1. DOMAIN work = Requests
  BY DEF Safe, TypeOK
<1>2. work'[r] = [work[r] EXCEPT ![k] = status] /\ Domains' /\ Others(r)
  BY <1>1 DEF Recorded, Domains, Others, Advance
<1>3. Underway(call[r], at[r], work[r], good[r], began[r], out[r]) /\ reply[r] = NoReply
  BY DEF Recorded, Told
<1>4. Underway(call[r], at[r], work'[r], good[r], began[r], out[r])
  BY <1>2, <1>3, MemberUnderway
<1>5. began'[r] \subseteq began[r] \cup Elements(Members(call[r], at[r]))
  <2>1. Id(r, k) \in Elements(Members(call[r], at[r]))
    BY <1>3 DEF Underway, Id, Elements
  <2> QED BY <2>1 DEF Recorded
<1>6. Underway(call[r], at[r], work'[r], good[r], began'[r], out[r])
  BY <1>4, <1>5 DEF Underway
<1>7. Told(r)'
  BY <1>3, <1>6 DEF Told
<1> QED BY <1>2, <1>7, RecordOf

LEMMA MemberStepRecorded ==
  ASSUME Safe, Recorded, NEW r \in Requests, NEW k \in DOMAIN work[r], MemberStep(r, k)
  PROVE  Recorded'
PROOF
<1>1. CASE AcquireShared(r, k)
  BY <1>1, MemberRecorded DEF AcquireShared, history
<1>2. CASE Begin(r, k)
  BY <1>2, MemberRecorded DEF Begin, End
<1>3. CASE Match(r, k)
  BY <1>3, MemberRecorded DEF Match, End, history
<1>4. CASE Finish(r, k) /\ UNCHANGED good /\ End(r, k, "error")
  BY <1>4, MemberRecorded DEF Finish, End
<1>5. CASE Finish(r, k) /\ End(r, k, "ok") /\ good' = [good EXCEPT ![r] = @ \cup {Id(r, k)}]
  <2>1. phase[r] = "stage" /\ UNCHANGED <<call, phase, at, out, reply, began>>
    BY <1>5 DEF Finish
  <2>2. DOMAIN work = Requests
    BY DEF Safe, TypeOK
  <2>3. /\ work'[r] = [work[r] EXCEPT ![k] = "ok"] /\ Domains' /\ Others(r)
        /\ good'[r] = good[r] \cup {Members(call[r], at[r])[k]}
    BY <1>5, <2>1, <2>2 DEF Recorded, Domains, Others, Advance, End, Id
  <2>4. Underway(call[r], at[r], work[r], good[r], began[r], out[r]) /\ reply[r] = NoReply
    BY <2>1 DEF Recorded, Told
  <2>5. Underway(call[r], at[r], work'[r], good'[r], began[r], out[r])
    BY <2>3, <2>4, MemberEndsWell
  <2>6. Told(r)'
    BY <2>1, <2>4, <2>5 DEF Told
  <2> QED BY <2>3, <2>6, RecordOf
<1> QED BY <1>1, <1>2, <1>3, <1>4, <1>5 DEF MemberStep, Finish

LEMMA FinishStageRecorded ==
  ASSUME Safe, Recorded, NEW r \in Requests, FinishStage(r)
  PROVE  Recorded'
PROOF
<1> DEFINE c == call[r]
           i == at[r]
           next == StageEnd(c, i) + 1
<1>1. /\ phase[r] = "stage" /\ Ended(r) /\ UNCHANGED <<call, began, good>>
      /\ DOMAIN work = Requests
  BY DEF FinishStage, history, Safe, TypeOK
<1>2. Underway(c, i, work[r], good[r], began[r], out[r]) /\ reply[r] = NoReply
  BY <1>1 DEF Recorded, Told
<1>3. c \in Calls /\ i \in 1 .. Len(c.steps) /\ Len(c.steps) \in Nat
      /\ StageEnd(c, i) \in i .. Len(c.steps)
  BY <1>2, CallShape, StageEndInCall DEF Underway
<1>4. CASE Failed(r) # {} /\ Answer(r, "error", i) /\ out' = [out EXCEPT ![r] = <<>>]
  <2>1. /\ phase'[r] = "done" /\ reply'[r] = [kind |-> "error", step |-> i]
        /\ Domains' /\ Others(r)
    BY <1>1, <1>4 DEF Recorded, Domains, Others, Answer, Safe, TypeOK
  <2>2. PICK k \in DOMAIN work[r] : work[r][k] # "ok"
    BY <1>4 DEF Failed
  <2>3. FaithfulError(c, i, good[r], began[r])
    BY <1>2, <2>2, FailureIsFaithful
  <2>4. Told(r)'
    BY <1>1, <2>1, <2>3 DEF Told, Honest
  <2> QED BY <2>1, <2>4, RecordOf
<1>5. CASE /\ Failed(r) = {} /\ Collect(r)
           /\ IF next > Len(c.steps) THEN Answer(r, "ok", 0)
              ELSE EnterStage(r, c, next) /\ UNCHANGED reply
  <2>1. \A k \in DOMAIN work[r] : work[r][k] = "ok"
    BY <1>1, <1>5 DEF Failed, Ended
  <2>2. good[r] = EarlierIds(c, next) /\ began[r] \subseteq good[r]
    BY <1>2, <2>1, StageEndedWell
  <2>3. out'[r] = IF c.tool = "pipe" THEN Members(c, i) ELSE out[r] \o Members(c, i)
    BY <1>5 DEF Collect, Recorded
  <2>4. Collected(c, next, out'[r])
    BY <1>2, <1>3, <2>3, StageCollected DEF Underway
  <2>5. CASE next > Len(c.steps) /\ Answer(r, "ok", 0)
    <3>1. next = Len(c.steps) + 1
      BY <1>3, <2>5
    <3>2. FaithfulOk(c, good[r], out'[r])
      BY <1>3, <2>2, <2>4, <3>1, SuccessIsFaithful
    <3>3. /\ phase'[r] = "done" /\ reply'[r] = [kind |-> "ok", step |-> 0]
          /\ Domains' /\ Others(r)
      BY <1>1, <1>5, <2>5 DEF Recorded, Domains, Others, Answer, Collect, Safe, TypeOK
    <3>4. Told(r)'
      BY <1>1, <3>2, <3>3 DEF Told, Honest
    <3> QED BY <3>3, <3>4, RecordOf
  <2>6. CASE next \in 1 .. Len(c.steps) /\ EnterStage(r, c, next) /\ UNCHANGED reply
    <3>1. /\ at'[r] = next
          /\ phase'[r] = IF Mode(c, next) = "EX" THEN "lock" ELSE "stage"
          /\ work'[r] = [k \in DOMAIN Members(c, next) |->
                            IF Mode(c, next) = "SH" THEN "lock" ELSE "ready"]
      BY <2>6 DEF EnterStage, Safe, TypeOK
    <3>2. Domains' /\ Others(r)
      BY <1>1, <1>5, <2>6 DEF Recorded, Domains, Others, EnterStage, Collect, Safe, TypeOK
    <3>3. Underway(c, next, work'[r], good[r], began[r], out'[r])
      <4> DEFINE w == work'[r]
                 o == out'[r]
      <4>1. DOMAIN w = DOMAIN Members(c, next) /\ \A k \in DOMAIN w : w[k] # "ok"
        BY <3>1
      <4> HIDE DEF w, o
      <4>2. Collected(c, next, o)
        BY <2>4 DEF o
      <4>3. Underway(c, next, w, EarlierIds(c, next), began[r], o)
        BY <1>3, <2>2, <2>6, <4>1, <4>2, EntersUnderway
      <4> QED BY <2>2, <4>3 DEF w, o
    <3>4. phase'[r] = "lock" => AllReady(work'[r])
      BY <3>1 DEF AllReady
    <3>5. Told(r)'
      BY <1>1, <1>2, <2>6, <3>1, <3>3, <3>4 DEF Told
    <3> QED BY <3>2, <3>5, RecordOf
  <2>7. next > Len(c.steps) \/ next \in 1 .. Len(c.steps)
    BY <1>3
  <2> QED BY <1>3, <1>5, <2>5, <2>6, <2>7
<1> QED BY <1>4, <1>5 DEF FinishStage

LEMMA RecordedReplies == Safe /\ Recorded => RepliesFaithful
PROOF
<1> SUFFICES ASSUME Safe, Recorded, NEW r \in Requests PROVE Faithful(r)
  BY DEF RepliesFaithful
<1>1. Told(r)
  BY DEF Recorded
<1>2. CASE phase[r] = "done"
  BY <1>1, <1>2 DEF Told, Honest, FaithfulOk, FaithfulError, Sorted, Faithful
<1>3. CASE reply[r] = NoReply
  BY <1>3 DEF NoReply, Faithful
<1>4. phase[r] = "done" \/ reply[r] = NoReply
  BY <1>1 DEF Told, Safe, TypeOK
<1> QED BY <1>2, <1>3, <1>4

LEMMA RecordStep == Safe /\ Recorded /\ [Next]_vars => Recorded'
PROOF
<1> SUFFICES ASSUME Safe, Recorded, [Next]_vars PROVE Recorded'
  OBVIOUS
<1>1. ASSUME NEW r \in Requests, RequestStep(r) PROVE Recorded'
  BY <1>1, DispatchRecorded, AcquireRecorded, LockFailsRecorded, FinishStageRecorded,
     MemberStepRecorded DEF RequestStep
<1>2. CASE UNCHANGED vars
  BY <1>2 DEF vars, history, Recorded, Told
<1> QED BY <1>1, <1>2 DEF Next, Terminating

(* What a reply says happened did happen: a success means that every step  *)
(* ended well and shows all of their output in order; an error that all    *)
(* earlier stages ended well and no later one was begun (code.go, pipe.go, *)
(* server.go: dispatchSteps, runReadBatch, dispatchPipe, CallTool).        *)
THEOREM RepliesTrue == Spec => []RepliesFaithful
PROOF
<1>1. Spec => []Recorded
  BY ServerSafe, InitRecorded, RecordStep, PTL DEF Spec
<1> QED BY <1>1, ServerSafe, RecordedReplies, PTL

=============================================================================
