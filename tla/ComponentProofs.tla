--------------------------- MODULE ComponentProofs ---------------------------
(***************************************************************************)
(* The components that share no state with each other, each for all values *)
(* of its constants: ChangeMonitor misses no wakeup; KiroAuth sends no     *)
(* refresh token that it has replaced; the runners of Subprocess return    *)
(* when the output is settled, with the verdict of their commands; the     *)
(* answer that BackendStream accepts is whole, and nothing follows the end *)
(* of its stream; Flush leaves no message of AsyncLog behind; the limit of *)
(* ValidationLimiter holds; and CostMeter charges a turn for its requests. *)
(***************************************************************************)
EXTENDS ChangeMonitor, KiroAuth, Subprocess, AsyncLog, BackendStream,
        ValidationLimiter, CostMeter, FiniteSetTheorems, SequenceTheorems, TLAPS

-----------------------------------------------------------------------------
(* ChangeMonitor.                                                          *)

LEMMA InitMonitor == MonitorInit => MonitorInv
BY MonitorAssumption
DEF MonitorInit, MonitorInv, MonitorTypeOK, HoldsWhileChecking, NoMissedWakeup

(* A change, announced later or not at all, is covered by the note left.   *)
LEMMA WritesCovered ==
  ASSUME MonitorInv, NEW f \in Fields,
         WriteSilently(f) \/ \E x \in Writers : Write(x, f)
  PROVE  MonitorInv'
PROOF
<1> USE MonitorAssumption DEF MonitorInv
<1>1. CASE WriteSilently(f)
  <2> USE <1>1 DEF WriteSilently
  <2>1. MonitorTypeOK' BY DEF MonitorTypeOK
  <2>2. HoldsWhileChecking' BY DEF HoldsWhileChecking
  <2>3. NoMissedWakeup' BY DEF NoMissedWakeup, Covered, MonitorTypeOK
  <2> QED BY <2>1, <2>2, <2>3
<1>2. CASE \E x \in Writers : Write(x, f)
  <2>1. PICK x \in Writers : Write(x, f) BY <1>2
  <2> USE <2>1 DEF Write
  <2>2. MonitorTypeOK' BY DEF MonitorTypeOK
  <2>3. HoldsWhileChecking' BY DEF HoldsWhileChecking
  <2>4. NoMissedWakeup'
    <3> SUFFICES ASSUME NEW w \in Watchers, watcher[w] \in {"wait", "asleep"}
                 PROVE  /\ (value[watched[w]] = known[w] \/ Covered(w))'
                        /\ w \in cancelledW => w \in owed
      BY DEF NoMissedWakeup
    <3>1. CASE watched[w] = f BY <3>1 DEF NoMissedWakeup, Covered, MonitorTypeOK
    <3>2. CASE watched[w] # f
      <4>1. pendingNote[x] # watched[w] BY DEF MonitorTypeOK
      <4> QED BY <3>2, <4>1 DEF NoMissedWakeup, Covered, MonitorTypeOK
    <3> QED BY <3>1, <3>2
  <2> QED BY <2>2, <2>3, <2>4
<1> QED BY <1>1, <1>2

(* A broadcast is made under changeMu: no watcher is between its check and *)
(* its sleep, so after it no watcher sleeps or is about to.                *)
LEMMA BroadcastWakesAll ==
  ASSUME MonitorInv, changeMu = Nobody, Broadcast,
         UNCHANGED <<value, changeMu, watched, known, cancelledW>>,
         owed' \subseteq owed, pendingNote' \in [Writers -> Fields \cup {Nobody}]
  PROVE  MonitorInv'
PROOF
<1> USE MonitorAssumption DEF MonitorInv, Broadcast
<1>1. \A w \in Watchers : watcher[w] \notin {"check", "wait"}
  BY DEF HoldsWhileChecking
<1>2. \A w \in Watchers : watcher'[w] \notin {"check", "wait", "asleep"}
  BY <1>1
<1>3. MonitorTypeOK'
  <2>1. watcher' \in [Watchers -> {"away", "lock", "check", "wait", "asleep"}]
    BY DEF MonitorTypeOK
  <2>2. \A w \in Watchers : watcher'[w] # "away" => watcher[w] # "away"
    OBVIOUS
  <2> QED BY <2>1, <2>2 DEF MonitorTypeOK
<1>4. HoldsWhileChecking' BY <1>2 DEF HoldsWhileChecking
<1>5. NoMissedWakeup' BY <1>2 DEF NoMissedWakeup
<1> QED BY <1>3, <1>4, <1>5

(* A watcher goes to sleep on a field that has the value it knows.         *)
LEMMA WatcherSteps ==
  ASSUME MonitorInv, NEW w \in Watchers,
         \/ WaitChange(w) \/ LockChangeMu(w) \/ CheckField(w)
         \/ CondWait(w) \/ CancelWatch(w)
  PROVE  MonitorInv'
PROOF
<1> USE MonitorAssumption DEF MonitorInv
<1>1. CASE WaitChange(w)
  <2> USE <1>1 DEF WaitChange
  <2>1. MonitorTypeOK' BY DEF MonitorTypeOK
  <2>2. HoldsWhileChecking' BY DEF HoldsWhileChecking, MonitorTypeOK
  <2>3. NoMissedWakeup' BY DEF NoMissedWakeup, Covered, MonitorTypeOK
  <2> QED BY <2>1, <2>2, <2>3
<1>2. CASE LockChangeMu(w)
  <2> USE <1>2 DEF LockChangeMu
  <2>1. MonitorTypeOK' BY DEF MonitorTypeOK
  <2>2. HoldsWhileChecking' BY DEF HoldsWhileChecking, MonitorTypeOK
  <2>3. NoMissedWakeup' BY DEF NoMissedWakeup, Covered, MonitorTypeOK
  <2> QED BY <2>1, <2>2, <2>3
<1>3. CASE CheckField(w)
  <2>1. changeMu = w /\ \A v \in Watchers \ {w} : watcher[v] \notin {"check", "wait"}
    BY <1>3 DEF CheckField, HoldsWhileChecking
  <2>2. CASE WaitReturns(w)
    <3> USE <1>3, <2>2 DEF CheckField, WaitReturns
    <3>1. MonitorTypeOK' BY DEF MonitorTypeOK
    <3>2. HoldsWhileChecking' BY <2>1 DEF HoldsWhileChecking, MonitorTypeOK
    <3>3. NoMissedWakeup' BY DEF NoMissedWakeup, Covered, MonitorTypeOK
    <3> QED BY <3>1, <3>2, <3>3
  <2>3. CASE ~WaitReturns(w)
    <3> USE <1>3, <2>3 DEF CheckField
    <3>1. MonitorTypeOK' BY DEF MonitorTypeOK
    <3>2. HoldsWhileChecking' BY <2>1 DEF HoldsWhileChecking, MonitorTypeOK
    <3>3. NoMissedWakeup' BY DEF NoMissedWakeup, Covered, MonitorTypeOK
    <3> QED BY <3>1, <3>2, <3>3
  <2> QED BY <2>2, <2>3
<1>4. CASE CondWait(w)
  <2> USE <1>4 DEF CondWait
  <2>1. MonitorTypeOK' BY DEF MonitorTypeOK
  <2>2. HoldsWhileChecking' BY DEF HoldsWhileChecking, MonitorTypeOK
  <2>3. NoMissedWakeup' BY DEF NoMissedWakeup, Covered, MonitorTypeOK
  <2> QED BY <2>1, <2>2, <2>3
<1>5. CASE CancelWatch(w)
  <2> USE <1>5 DEF CancelWatch
  <2>1. MonitorTypeOK' BY DEF MonitorTypeOK
  <2>2. HoldsWhileChecking' BY DEF HoldsWhileChecking
  <2>3. NoMissedWakeup' BY DEF NoMissedWakeup, Covered
  <2> QED BY <2>1, <2>2, <2>3
<1> QED BY <1>1, <1>2, <1>3, <1>4, <1>5

(* WaitChange and notifyChange (core.go:408-448) lose no wakeup: the field *)
(* is checked, and the sleep begun, under the lock every broadcast takes.  *)
THEOREM NoWakeupMissed == MonitorSpec => []MonitorInv
PROOF
<1>1. MonitorInv /\ [MonitorNext]_monitorVars => MonitorInv'
  <2> SUFFICES ASSUME MonitorInv, [MonitorNext]_monitorVars PROVE MonitorInv'
    OBVIOUS
  <2>1. ASSUME NEW f \in Fields, WriteSilently(f) \/ \E x \in Writers : Write(x, f)
        PROVE  MonitorInv'
    BY <2>1, WritesCovered
  <2>2. ASSUME NEW x \in Writers, NotifyChange(x) PROVE MonitorInv'
    <3>1. pendingNote' \in [Writers -> Fields \cup {Nobody}]
      BY <2>2 DEF NotifyChange, MonitorInv, MonitorTypeOK
    <3> QED BY <2>2, <3>1, BroadcastWakesAll DEF NotifyChange
  <2>3. ASSUME NEW w \in Watchers, AfterFunc(w) PROVE MonitorInv'
    BY <2>3, BroadcastWakesAll DEF AfterFunc, MonitorInv, MonitorTypeOK
  <2>4. ASSUME NEW w \in Watchers,
               \/ WaitChange(w) \/ LockChangeMu(w) \/ CheckField(w)
               \/ CondWait(w) \/ CancelWatch(w)
        PROVE  MonitorInv'
    BY <2>4, WatcherSteps
  <2>5. CASE UNCHANGED monitorVars
    BY <2>5 DEF monitorVars, MonitorInv, MonitorTypeOK, HoldsWhileChecking,
                NoMissedWakeup, Covered
  <2> QED BY <2>1, <2>2, <2>3, <2>4, <2>5 DEF MonitorNext
<1> QED BY InitMonitor, <1>1, PTL DEF MonitorSpec

-----------------------------------------------------------------------------
(* KiroAuth.                                                               *)

States == [access : Nat, refresh : Nat, expiring : BOOLEAN, foreign : BOOLEAN]

Places == {"idle", "load", "lock", "reread", "send", "store", "last", "done"}

AuthTypeOK ==
  /\ store \in States /\ cached \in States \cup {NoToken}
  /\ issued \in Nat /\ mu \in Callers \cup {NoToken}
  /\ where \in [Callers -> Places] /\ seen \in [Callers -> States]
  /\ abroad \subseteq Nat /\ retired \subseteq Nat
  /\ reused \subseteq Callers /\ blind \subseteq Callers

(* Tokens are numbered as they are issued.                                 *)
Numbered ==
  /\ store.access <= issued /\ store.refresh <= issued
  /\ \A t \in retired \cup abroad : t <= issued

(* One caller at a time reads, sends and stores.                           *)
Serialized == \A c \in Callers : where[c] \in {"reread", "send", "store"} => mu = c

(* The token about to be sent, the one about to be stored, and the one in  *)
(* the store have not been replaced.                                       *)
TokensLive ==
  /\ store.refresh \notin retired
  /\ \A c \in Callers :
       /\ where[c] = "send" => c \in blind \/ seen[c].refresh \notin retired
       /\ where[c] = "store" =>
            /\ seen[c].access \notin retired /\ seen[c].access # store.refresh
            /\ seen[c].access >= store.access \/ store.foreign
            /\ seen[c].access <= issued

(* A token of another source is in nobody else's hands before it is stored.*)
Apart ==
  /\ store.refresh \notin abroad
  /\ \A t \in abroad : t \notin retired
  /\ \A c \in Callers : where[c] = "store" => seen[c].access \notin abroad

AuthInv ==
  AuthTypeOK /\ Numbered /\ Serialized /\ TokensLive /\ Apart /\ RetiredNotReused

(* A state that load returns is a state.                                   *)
LEMMA LoadsState ==
  ASSUME AuthInv, NEW c \in Callers, NEW s, Loads(c, s)
  PROVE  /\ s \in States /\ Tokens(s) \in States
         /\ cached' \in States \cup {NoToken}
         /\ blind \subseteq blind' /\ blind' \subseteq blind \cup {c}
BY DEF AuthInv, AuthTypeOK, States, Loads, Tokens, Nothing

LEMMA InitAuth == AuthInit => AuthInv
BY DEF AuthInit, AuthInv, AuthTypeOK, Numbered, Serialized, TokensLive,
       Apart, RetiredNotReused, States, Places, Nothing

(* A caller that holds no token to be sent and does not take mu changes    *)
(* nothing that matters.                                                   *)
LEMMA CallerSteps ==
  ASSUME AuthInv, NEW c \in Callers,
         CallAuth(c) \/ LoadFirst(c) \/ LoadLast(c) \/ AgainAuth(c)
  PROVE  AuthInv'
PROOF
<1> USE DEF AuthInv, Move, authHistory
<1>1. CASE CallAuth(c)
  <2> USE <1>1 DEF CallAuth
  <2>1. AuthTypeOK' BY DEF AuthTypeOK, States, Places, Nothing
  <2>2. Numbered' BY DEF Numbered
  <2>3. Serialized' BY DEF Serialized, AuthTypeOK
  <2>4. TokensLive' BY DEF TokensLive, AuthTypeOK
  <2>5. Apart' BY DEF Apart, TokensLive, Numbered, AuthTypeOK, States
  <2>6. RetiredNotReused' BY DEF RetiredNotReused
  <2> QED BY <2>1, <2>2, <2>3, <2>4, <2>5, <2>6
<1>2. CASE LoadFirst(c)
  <2>0. PICK s \in {store, cached} :
           /\ Loads(c, s)
           /\ IF s.expiring THEN Move(c, "lock") /\ seen' = [seen EXCEPT ![c] = Tokens(s)]
              ELSE Leaves(c)
    BY <1>2 DEF LoadFirst
  <2>1. AuthTypeOK'
    <3>1. s \in States /\ Tokens(s) \in States /\ cached' \in States \cup {NoToken}
          /\ blind' \subseteq blind \cup {c}
      BY <2>0, LoadsState
    <3>2. Nothing \in States BY DEF Nothing, States
    <3> QED BY <1>2, <2>0, <3>1, <3>2 DEF LoadFirst, Leaves, AuthTypeOK, Places
  <2> USE <1>2 DEF LoadFirst, Loads, Leaves
  <2>2. Numbered' BY DEF Numbered
  <2>3. Serialized' BY DEF Serialized, AuthTypeOK
  <2>4. TokensLive' BY DEF TokensLive, AuthTypeOK
  <2>5. Apart' BY DEF Apart, TokensLive, Numbered, AuthTypeOK, States
  <2>6. RetiredNotReused' BY DEF RetiredNotReused
  <2> QED BY <2>1, <2>2, <2>3, <2>4, <2>5, <2>6
<1>3. CASE LoadLast(c)
  <2> USE <1>3 DEF LoadLast, Loads, Leaves
  <2>1. AuthTypeOK' BY LoadsState DEF AuthTypeOK, States, Places, Nothing
  <2>2. Numbered' BY DEF Numbered
  <2>3. Serialized' BY DEF Serialized, AuthTypeOK
  <2>4. TokensLive' BY DEF TokensLive, AuthTypeOK
  <2>5. Apart' BY DEF Apart, TokensLive, Numbered, AuthTypeOK, States
  <2>6. RetiredNotReused' BY DEF RetiredNotReused
  <2> QED BY <2>1, <2>2, <2>3, <2>4, <2>5, <2>6
<1>4. CASE AgainAuth(c)
  <2> USE <1>4 DEF AgainAuth
  <2>1. AuthTypeOK' BY DEF AuthTypeOK, States, Places, Nothing
  <2>2. Numbered' BY DEF Numbered
  <2>3. Serialized' BY DEF Serialized, AuthTypeOK
  <2>4. TokensLive' BY DEF TokensLive, AuthTypeOK
  <2>5. Apart' BY DEF Apart, TokensLive, Numbered, AuthTypeOK, States
  <2>6. RetiredNotReused' BY DEF RetiredNotReused
  <2> QED BY <2>1, <2>2, <2>3, <2>4, <2>5, <2>6
<1> QED BY <1>1, <1>2, <1>3, <1>4

(* Under mu: the refresh token is read, sent, and replaced in the store.   *)
LEMMA RefreshSteps ==
  ASSUME AuthInv, NEW c \in Callers,
         LockRefresh(c) \/ ReadAgain(c) \/ SendRefresh(c) \/ StoreTokens(c)
  PROVE  AuthInv'
PROOF
<1> USE AuthAssumption DEF AuthInv, Move, authHistory
<1>1. CASE LockRefresh(c)
  <2> USE <1>1 DEF LockRefresh, Loads
  <2>1. AuthTypeOK' BY LoadsState DEF AuthTypeOK, States, Places, Nothing
  <2>2. Numbered' BY DEF Numbered, TokensLive, AuthTypeOK, States
  <2>3. Serialized' BY DEF Serialized, AuthTypeOK
  <2>4. TokensLive' BY DEF TokensLive, AuthTypeOK, States, Numbered, Serialized, Nothing
  <2>5. Apart' BY DEF Apart, TokensLive, Numbered, AuthTypeOK, States
  <2>6. RetiredNotReused' BY DEF RetiredNotReused, TokensLive
  <2> QED BY <2>1, <2>2, <2>3, <2>4, <2>5, <2>6
<1>2. CASE ReadAgain(c)
  <2> USE <1>2 DEF ReadAgain, Unlock
  <2>1. AuthTypeOK'
    <3>1. seen[c] \in States /\ store \in States /\ Nothing \in States
      BY DEF AuthTypeOK, States, Nothing
    <3>2. [seen[c] EXCEPT !.refresh = store.refresh] \in States
      BY <3>1 DEF States
    <3>3. seen' \in [Callers -> States]
      BY <3>1, <3>2 DEF AuthTypeOK
    <3> QED BY <3>3 DEF AuthTypeOK, Places
  <2>2. Numbered' BY DEF Numbered, TokensLive, AuthTypeOK, States
  <2>3. Serialized' BY DEF Serialized, AuthTypeOK
  <2>4. TokensLive' BY DEF TokensLive, AuthTypeOK, States, Numbered, Serialized, Nothing
  <2>5. Apart' BY DEF Apart, TokensLive, Numbered, AuthTypeOK, States
  <2>6. RetiredNotReused' BY DEF RetiredNotReused, TokensLive
  <2> QED BY <2>1, <2>2, <2>3, <2>4, <2>5, <2>6
<1>3. CASE SendRefresh(c)
  <2>0. \/ Unlock(c) /\ issued' = issued
        \/ /\ issued' = issued + 1 /\ where' = [where EXCEPT ![c] = "store"] /\ mu' = mu
           /\ \E r \in {seen[c].refresh, issued'} : seen' = [seen EXCEPT ![c] =
                [access |-> issued', refresh |-> r, expiring |-> FALSE, foreign |-> FALSE]]
    BY <1>3 DEF SendRefresh, Nothing
  <2> USE <1>3 DEF SendRefresh, Unlock
  <2>1. AuthTypeOK'
    <3>1. seen[c] \in States /\ seen[c].refresh \in Nat /\ Nothing \in States
          /\ issued \in Nat
      BY DEF AuthTypeOK, States, Nothing
    <3>2. \A r \in {seen[c].refresh, issued + 1} :
            [access |-> issued + 1, refresh |-> r, expiring |-> FALSE, foreign |-> FALSE]
              \in States
      BY <3>1 DEF States
    <3>3. PICK new \in States : seen' = [seen EXCEPT ![c] = new]
      <4>1. CASE Unlock(c)
        BY <3>1, <4>1 DEF Unlock
      <4>2. CASE ~Unlock(c)
        <5>1. PICK r \in {seen[c].refresh, issued + 1} : seen' = [seen EXCEPT ![c] =
                [access |-> issued + 1, refresh |-> r, expiring |-> FALSE, foreign |-> FALSE]]
          BY <2>0, <4>2
        <5> QED BY <3>2, <5>1
      <4> QED BY <4>1, <4>2
    <3>4. seen' \in [Callers -> States]
      BY <3>3 DEF AuthTypeOK
    <3> QED BY <2>0, <3>4 DEF AuthTypeOK, Places
  <2>2. Numbered' BY DEF Numbered, TokensLive, AuthTypeOK, States
  <2>3. Serialized' BY DEF Serialized, AuthTypeOK
  <2>4. TokensLive'
    <3>1. store' = store /\ retired' = retired /\ blind' = blind /\ issued <= issued'
      BY <2>0 DEF AuthTypeOK
    <3>2. ASSUME NEW d \in Callers \ {c}
          PROVE  where'[d] = where[d] /\ seen'[d] = seen[d]
      BY <2>0 DEF AuthTypeOK
    <3>3. where'[c] # "send"
      BY <2>0 DEF AuthTypeOK
    <3>4. where'[c] = "store" => seen'[c].access = issued + 1 /\ issued' = issued + 1
      BY <2>0 DEF AuthTypeOK
    <3>5. /\ issued + 1 \notin retired /\ issued + 1 # store.refresh
          /\ issued + 1 >= store.access /\ issued + 1 <= issued + 1
      BY DEF Numbered, AuthTypeOK, States
    <3>6. \A d \in Callers : seen[d].access <= issued => seen[d].access <= issued'
      BY <2>1, <3>1 DEF AuthTypeOK, States
    <3> QED BY <3>1, <3>2, <3>3, <3>4, <3>5, <3>6 DEF TokensLive
  <2>5. Apart'
    <3>1. store' = store /\ retired' = retired /\ abroad' = abroad
      OBVIOUS
    <3>2. ASSUME NEW d \in Callers \ {c}
          PROVE  where'[d] = where[d] /\ seen'[d] = seen[d]
      BY <2>0 DEF AuthTypeOK
    <3>3. where'[c] = "store" => seen'[c].access = issued + 1
      BY <2>0 DEF AuthTypeOK
    <3>4. issued + 1 \notin abroad
      BY DEF Numbered, AuthTypeOK
    <3> QED BY <3>1, <3>2, <3>3, <3>4 DEF Apart
  <2>6. RetiredNotReused' BY DEF RetiredNotReused, TokensLive
  <2> QED BY <2>1, <2>2, <2>3, <2>4, <2>5, <2>6
<1>4. CASE StoreTokens(c)
  <2> USE <1>4 DEF StoreTokens, Unlock
  <2>1. AuthTypeOK' BY DEF AuthTypeOK, States, Places, Nothing
  <2>2. Numbered' BY DEF Numbered, TokensLive, AuthTypeOK, States
  <2>3. Serialized' BY DEF Serialized, AuthTypeOK
  <2>4. TokensLive' BY DEF TokensLive, AuthTypeOK, States, Numbered, Serialized, Nothing
  <2>5. Apart' BY DEF Apart, TokensLive, Numbered, AuthTypeOK, States
  <2>6. RetiredNotReused' BY DEF RetiredNotReused, TokensLive
  <2> QED BY <2>1, <2>2, <2>3, <2>4, <2>5, <2>6
<1> QED BY <1>1, <1>2, <1>3, <1>4

(* Another source, or the passing of time, changes the store.              *)
LEMMA StoreChanges ==
  ASSUME AuthInv, ExpireSoon \/ ForeignRefresh \/ ForeignStore
  PROVE  AuthInv'
PROOF
<1> USE DEF AuthInv, authHistory
<1>1. AuthTypeOK'
  <2>1. CASE ExpireSoon
    <3>1. [store EXCEPT !.expiring = TRUE] \in States
      BY DEF AuthTypeOK, States
    <3> QED BY <2>1, <3>1 DEF ExpireSoon, AuthTypeOK
  <2>2. CASE ForeignRefresh
    BY <2>2 DEF ForeignRefresh, AuthTypeOK
  <2>3. CASE ForeignStore
    <3>1. PICK n \in abroad : \E r \in {n, store.refresh} :
            /\ store' = [access |-> n, refresh |-> r, expiring |-> FALSE, foreign |-> TRUE]
            /\ abroad' = abroad \ {n}
      BY <2>3 DEF ForeignStore
    <3>2. store' \in States BY <3>1 DEF AuthTypeOK, States
    <3> QED BY <2>3, <3>1, <3>2 DEF ForeignStore, AuthTypeOK
  <2> QED BY <2>1, <2>2, <2>3
<1>2. Numbered'
  BY DEF ExpireSoon, ForeignRefresh, ForeignStore, Numbered, AuthTypeOK, States
<1>3. Serialized' BY DEF ExpireSoon, ForeignRefresh, ForeignStore, Serialized
<1>4. TokensLive'
  BY DEF ExpireSoon, ForeignRefresh, ForeignStore, TokensLive, Apart, Numbered, AuthTypeOK,
         States
<1>5. Apart'
  BY DEF ExpireSoon, ForeignRefresh, ForeignStore, TokensLive, Apart, Numbered, AuthTypeOK,
         States
<1>6. RetiredNotReused' BY DEF ExpireSoon, ForeignRefresh, ForeignStore, RetiredNotReused
<1> QED BY <1>1, <1>2, <1>3, <1>4, <1>5, <1>6

LEMMA AuthInvariant == AuthSpec => []AuthInv
PROOF
<1>1. AuthInv /\ [AuthNext]_authVars => AuthInv'
  <2> SUFFICES ASSUME AuthInv, [AuthNext]_authVars PROVE AuthInv'
    OBVIOUS
  <2>1. CASE UNCHANGED authVars
    BY <2>1 DEF authVars, authHistory, AuthInv, AuthTypeOK, Numbered, Serialized,
                TokensLive, Apart, RetiredNotReused
  <2> QED BY <2>1, CallerSteps, RefreshSteps, StoreChanges DEF AuthNext, AuthStep
<1> QED BY InitAuth, <1>1, PTL DEF AuthSpec

(* Refresh and AccessToken (codewhisperer.go:498-595) send no refresh      *)
(* token that this source has replaced, unless reading  the store failed.  *)
THEOREM ReplacedNotSent == AuthSpec => []RetiredNotReused
PROOF
<1>1. AuthInv => RetiredNotReused BY DEF AuthInv
<1> QED BY AuthInvariant, <1>1, PTL

(* The update is made by the caller that made the request, under the same  *)
(* mutex: it puts no older token over a newer one of this source.          *)
THEOREM StoreForward == AuthSpec => StoreMovesForward
PROOF
<1>1. AuthInv /\ [AuthNext]_authVars
        => [store'.access >= store.access \/ store.foreign \/ store'.foreign]_authVars
  <2> SUFFICES ASSUME AuthInv, AuthNext 
                  PROVE  store'.access >= store.access \/ store.foreign \/ store'.foreign
    OBVIOUS
  <2> USE DEF AuthInv, AuthTypeOK, States
  <2>1. CASE ExpireSoon \/ ForeignRefresh \/ ForeignStore
    BY <2>1 DEF ExpireSoon, ForeignRefresh, ForeignStore
  <2>2. ASSUME NEW c \in Callers, StoreTokens(c)
        PROVE  store'.access >= store.access \/ store.foreign
    BY <2>2 DEF StoreTokens, TokensLive
  <2>3. ASSUME NEW c \in Callers,
               \/ CallAuth(c) \/ LoadFirst(c) \/ LockRefresh(c) \/ ReadAgain(c)
               \/ SendRefresh(c) \/ LoadLast(c) \/ AgainAuth(c)
        PROVE  store' = store
    BY <2>3 DEF CallAuth, LoadFirst, LockRefresh, ReadAgain, SendRefresh, LoadLast, AgainAuth
  <2> QED BY <2>1, <2>2, <2>3 DEF AuthNext, AuthStep
<1> QED BY AuthInvariant, <1>1, PTL DEF AuthSpec, StoreMovesForward

-----------------------------------------------------------------------------
(* Subprocess.                                                             *)

CommandRun == place \in {"wait", "drain"}

(* The command that runs: its exit code is there when it has ended, and    *)
(* nobody writes the output between two commands.                          *)
CommandInv ==
  /\ exit \in {Running, 0, 2, Other}
  /\ reaped => "main" \notin alive
  /\ CommandRun => ("main" \in alive) = (exit = Running)
  /\ ~CommandRun => "main" \notin alive /\ holding = {}
  /\ verdict # "none" => place = "returned"
  /\ verdict = "ok" => exit = 0 /\ context # "deadline"
  /\ runner # "hook" => place # "drain"

LEMMA CommandInit == SubprocessInit => CommandInv
  BY DEF SubprocessInit, CommandInv, CommandRun, Running, Other

LEMMA CommandStep == CommandInv /\ [SubprocessNext]_subprocessVars => CommandInv'
<1> SUFFICES ASSUME CommandInv, [SubprocessNext]_subprocessVars PROVE CommandInv'
  OBVIOUS
<1> USE DEF CommandInv, CommandRun, Running, Other
<1>1. CASE UNCHANGED subprocessVars
  BY <1>1 DEF subprocessVars, process
<1>2. CASE StartCommand
  BY <1>2 DEF StartCommand
<1>3. CASE StartFails
  BY <1>3 DEF StartFails, Returns
<1>4. CASE Reap
  BY <1>4 DEF Reap, process
<1>5. CASE CommandDone
  BY <1>5 DEF CommandDone, NextCommand, Waited, Returns, process
<1>6. CASE GiveUp
  BY <1>6 DEF GiveUp, Kill, Group
<1>7. CASE Drained
  BY <1>7 DEF Drained, NextCommand, Waited, Returns, process
<1>8. CASE StepDone
  BY <1>8 DEF StepDone, Waited, Returns, process
<1>9. CASE ContextKills
  BY <1>9 DEF ContextKills, Kill, Group
<1>10. CASE TimePasses
  BY <1>10 DEF TimePasses, process
<1>11. CASE CancelContext
  BY <1>11 DEF CancelContext, process
<1>12. CASE ForkChild
  BY <1>12 DEF ForkChild
<1>13. CASE ForkDaemon
  BY <1>13 DEF ForkDaemon
<1>14. ASSUME NEW p \in alive, Ends(p) PROVE CommandInv'
  BY <1>14 DEF Ends
<1> QED
  BY <1>1, <1>2, <1>3, <1>4, <1>5, <1>6, <1>7, <1>8, <1>9, <1>10, <1>11, <1>12, <1>13, <1>14
  DEF SubprocessNext, RunnerStep

(* A runner goes on to the next command, or returns, when nobody writes    *)
(* the output any more; the success of a step is that of its command       *)
(* (hooks.go, server.go: executeWithStdin and executeElevated).            *)
THEOREM OutputIsSettled == SubprocessSpec => []OutputSettled
<1>1. CommandInv => OutputSettled
  BY DEF CommandInv, CommandRun, OutputSettled
<1> QED
  BY <1>1, CommandInit, CommandStep, PTL DEF SubprocessSpec

Endings == [exit : {0, 2, Other}, late : BOOLEAN]

(* What the commands of a hook that have ended say of the verdict to come. *)
Clean(r) == \A k \in 1 .. Len(r) : r[k].exit = 0 /\ ~r[k].late
Blocks(r, k) == r[k].exit = 2 /\ ~r[k].late

HookInv ==
  /\ ran \in Seq(Endings)
  /\ ctxError => ContextDone
  /\ place = "drain" => Late
  /\ runner = "hook" /\ place # "returned" =>
       /\ allHandled => \A k \in 1 .. Len(ran) : ran[k].exit = 0
       /\ \A k \in 1 .. Len(ran) : ~Blocks(ran, k)
       /\ Clean(ran) => allHandled
  /\ runner = "hook" /\ place = "returned" =>
       /\ verdict = "blocked" => ran[Len(ran)].exit = 2
       /\ verdict = "handled" =>
            Len(ran) = HookCommands /\ \A k \in 1 .. Len(ran) : ran[k].exit = 0
       /\ \A k \in 1 .. Len(ran) : Blocks(ran, k) => k = Len(ran) /\ verdict = "blocked"
       /\ Clean(ran) => verdict = "handled"

LEMMA HookInit == SubprocessInit => HookInv
<1>1. <<>> \in Seq(Endings) /\ Len(<<>>) = 0
  BY EmptySeq
<1> QED
  BY <1>1 DEF SubprocessInit, HookInv, Clean

(* One more command has ended.                                             *)
LEMMA OneMoreEnding ==
  ASSUME NEW r \in Seq(Endings), NEW x \in Endings
  PROVE  /\ Append(r, x) \in Seq(Endings) /\ Len(Append(r, x)) = Len(r) + 1 /\ Len(r) \in Nat
         /\ Append(r, x)[Len(r) + 1] = x
         /\ \A k \in 1 .. Len(r) : Append(r, x)[k] = r[k]
         /\ \A k \in 1 .. Len(r) + 1 : k = Len(r) + 1 \/ k \in 1 .. Len(r)
<1>1. Len(r) \in Nat
  BY LenProperties
<1> QED
  BY <1>1, AppendProperties

LEMMA EndingFields ==
  ASSUME NEW e \in {0, 2, Other}, NEW x
  PROVE  /\ x = [exit |-> e, late |-> Late] =>
              x \in Endings /\ x.exit = e /\ x.late = Late
         /\ x = [exit |-> e, late |-> ContextDone] =>
              x \in Endings /\ x.exit = e /\ x.late = ContextDone
<1>1. Late \in BOOLEAN /\ ContextDone \in BOOLEAN
  BY Zenon DEF Late, ContextDone
<1>2. ASSUME NEW b \in BOOLEAN, x = [exit |-> e, late |-> b]
      PROVE  x \in Endings /\ x.exit = e /\ x.late = b
  BY <1>2 DEF Endings
<1> QED
  BY ONLY <1>1, <1>2, Zenon

LEMMA HookCommandEnds ==
  ASSUME HookInv, runner = "hook", place \in {"wait", "drain"}, exit \in {0, 2, Other},
         UNCHANGED <<runner, ctxError, context, expired>>,
         NEW as, NextCommand(as),
         \/ as = "blocked" /\ exit = 2
         \/ as = "warned" /\ (exit = Other \/ Late)
         \/ as = "nothing" /\ exit = 0 /\ Late
         \/ as = "ok" /\ exit = 0
  PROVE  HookInv'
<1>0. \/ as = "blocked" /\ exit = 2
      \/ as = "warned" /\ (exit = 1 \/ Late)
      \/ as = "nothing" /\ exit = 0 /\ Late
      \/ as = "ok" /\ exit = 0
  BY DEF Other
<1> USE DEF HookInv
<1>1. PICK x : x = [exit |-> exit, late |-> Late]
  OBVIOUS
<1>2. x \in Endings /\ x.exit = exit /\ x.late = Late
  BY <1>1, EndingFields
<1>3. PICK r : r = Append(ran, x)
  OBVIOUS
<1>4. /\ r \in Seq(Endings) /\ Len(r) = Len(ran) + 1 /\ Len(ran) \in Nat
      /\ r[Len(ran) + 1] = x
      /\ \A k \in 1 .. Len(ran) : r[k] = ran[k]
      /\ \A k \in 1 .. Len(ran) + 1 : k = Len(ran) + 1 \/ k \in 1 .. Len(ran)
      /\ Len(ran) + 1 \in 1 .. Len(ran) + 1 /\ 1 .. Len(ran) \subseteq 1 .. Len(ran) + 1
  BY <1>2, <1>3, OneMoreEnding
<1>5. /\ ran' = r /\ allHandled' = (allHandled /\ as = "ok")
      /\ \/ as = "blocked" /\ place' = "returned" /\ verdict' = "blocked"
         \/ /\ as # "blocked" /\ Len(r) = HookCommands /\ place' = "returned"
            /\ verdict' = IF allHandled' THEN "handled" ELSE "passed"
         \/ as # "blocked" /\ place' = "start"
  BY <1>1, <1>3 DEF NextCommand, Returns
<1>6. allHandled' => \A k \in 1 .. Len(r) : r[k].exit = 0
  BY <1>2, <1>4, <1>5
<1>7. Clean(r) => allHandled'
  <2>1. ASSUME Clean(r) PROVE Clean(ran) /\ x.exit = 0 /\ ~x.late
    <3>1. \A k \in 1 .. Len(ran) + 1 : r[k].exit = 0 /\ ~r[k].late
      BY <2>1, <1>4 DEF Clean
    <3>2. Clean(ran)
      BY ONLY <3>1, <1>4 DEF Clean
    <3> QED
      BY ONLY <3>1, <3>2, <1>4
  <2>2. ASSUME Clean(r) PROVE as = "ok"
    <3>1. exit = 0 /\ ~Late
      BY ONLY <1>2, <2>1, <2>2, Zenon
    <3>2. exit # 2 /\ exit # 1
      BY ONLY <3>1
    <3> QED
      BY ONLY <1>0, <3>1, <3>2, Zenon
  <2> QED
    BY <1>5, <2>1, <2>2
<1>8. \A k \in 1 .. Len(r) : Blocks(r, k) => k = Len(r) /\ as = "blocked"
  <2> SUFFICES ASSUME NEW k \in 1 .. Len(r), Blocks(r, k) PROVE k = Len(r) /\ as = "blocked"
    OBVIOUS
  <2>1. CASE k \in 1 .. Len(ran)
    <3>1. r[k] = ran[k]
      BY <2>1, <1>4
    <3>2. Blocks(ran, k)
      BY ONLY <3>1, Blocks(r, k) DEF Blocks
    <3>3. ~Blocks(ran, k)
      BY <2>1
    <3> QED
      BY ONLY <3>2, <3>3
  <2>2. CASE k = Len(ran) + 1
    <3>1. exit = 2 /\ ~Late
      BY ONLY <1>2, <1>4, <2>2, Blocks(r, k) DEF Blocks
    <3>3. exit # 0 /\ exit # 1
      BY ONLY <3>1
    <3>2. as = "blocked"
      BY ONLY <1>0, <3>1, <3>3, Zenon
    <3> QED
      BY ONLY <3>2, <2>2, <1>4
  <2> QED
    BY <2>1, <2>2, <1>4
<1>9. as = "blocked" => r[Len(r)].exit = 2 /\ ~Clean(r)
  BY <1>2, <1>4 DEF Clean
<1>10. (ctxError' => ContextDone') /\ (place' = "drain" => Late')
  BY <1>5 DEF ContextDone
<1> QED
  BY <1>4, <1>5, <1>6, <1>7, <1>8, <1>9, <1>10

LEMMA HookStep == CommandInv /\ HookInv /\ [SubprocessNext]_subprocessVars => HookInv'
<1> SUFFICES ASSUME CommandInv, HookInv, [SubprocessNext]_subprocessVars PROVE HookInv'
  OBVIOUS
<1> USE DEF HookInv
<1>1. ASSUME UNCHANGED <<runner, allHandled, verdict, ran>>,
             UNCHANGED <<ctxError, context>> \/ (ctxError' => ContextDone'),
             place' = place \/ (place # "returned" /\ place' \notin {"returned", "drain"})
               \/ (place # "returned" /\ place' = "drain" /\ Late'),
             UNCHANGED <<context, expired>> \/ Late' \/ place' # "drain"
      PROVE  HookInv'
  BY <1>1 DEF ContextDone, Late
<1>2. CASE StartFails
  <2>1. PICK x : x = [exit |-> Other, late |-> ContextDone]
    OBVIOUS
  <2>5. x \in Endings /\ x.exit = Other
    BY <2>1, EndingFields DEF Other
  <2>2. /\ place = "start" /\ UNCHANGED <<runner, ctxError, context>>
        /\ \/ /\ runner = "hook" /\ ran' = Append(ran, x) /\ allHandled' = FALSE
              /\ \/ place' = "returned" /\ verdict' = "passed"
                 \/ place' = "start"
           \/ runner # "hook" /\ place' = "returned" /\ UNCHANGED ran
    BY <1>2, <2>1 DEF StartFails, Returns
  <2>3. CASE runner # "hook"
    BY <2>2, <2>3 DEF ContextDone
  <2>4. CASE runner = "hook"
    <3>1. PICK r : r = Append(ran, x)
      OBVIOUS
    <3>2. /\ r \in Seq(Endings) /\ Len(r) = Len(ran) + 1 /\ Len(ran) \in Nat
          /\ r[Len(ran) + 1] = x
          /\ \A k \in 1 .. Len(ran) : r[k] = ran[k]
          /\ \A k \in 1 .. Len(ran) + 1 : k = Len(ran) + 1 \/ k \in 1 .. Len(ran)
          /\ Len(ran) + 1 \in 1 .. Len(ran) + 1
      BY <2>5, <3>1, OneMoreEnding
    <3>4. ~Clean(r) /\ \A k \in 1 .. Len(r) : ~Blocks(r, k)
      BY <2>2, <2>4, <2>5, <3>2 DEF Clean, Blocks, Other
    <3> QED
      BY <2>2, <2>4, <3>1, <3>2, <3>4 DEF ContextDone
  <2> QED
    BY <2>3, <2>4
<1>3. CASE CommandDone
  <2>1. exit \in {0, 2, Other}
    BY <1>3 DEF CommandDone, Waited, CommandInv, CommandRun
  <2>2. ctxError => Late
    BY DEF Late
  <2>3. PICK as : /\ NextCommand(as)
                  /\ as = CASE exit = Other -> "warned"
                            [] exit = 2 -> "blocked"
                            [] exit = 0 -> IF ctxError THEN "nothing" ELSE "ok"
    BY <1>3 DEF CommandDone
  <2>4. \/ as = "blocked" /\ exit = 2
        \/ as = "warned" /\ exit = Other
        \/ as = "nothing" /\ exit = 0 /\ Late
        \/ as = "ok" /\ exit = 0
    BY <2>1, <2>2, <2>3 DEF Other
  <2>5. runner = "hook" /\ place = "wait" /\ UNCHANGED <<runner, ctxError, context, expired>>
    BY <1>3 DEF CommandDone
  <2> QED
    BY <2>1, <2>3, <2>4, <2>5, HookCommandEnds
<1>4. CASE Drained
  <2>1. exit \in {0, 2, Other} /\ runner = "hook"
    BY <1>4 DEF Drained, Waited, CommandInv, CommandRun
  <2>2. /\ place = "drain" /\ UNCHANGED <<runner, ctxError, context, expired>>
        /\ NextCommand("warned") /\ Late
    BY <1>4 DEF Drained
  <2> QED
    BY <2>1, <2>2, HookCommandEnds
<1>5. CASE StepDone
  <2>1. exit \in {0, 2, Other}
    BY <1>5 DEF StepDone, Waited, CommandInv, CommandRun
  <2>2. PICK x : x = [exit |-> exit, late |-> Late]
    OBVIOUS
  <2>5. x \in Endings
    BY <2>1, <2>2, EndingFields
  <2>3. ran' = Append(ran, x) /\ runner' # "hook" /\ place' = "returned"
        /\ UNCHANGED <<ctxError, context>>
    BY <1>5, <2>2 DEF StepDone, Returns
  <2>4. ran' \in Seq(Endings)
    BY <2>3, <2>5, OneMoreEnding
  <2> QED
    BY <2>3, <2>4 DEF ContextDone
<1>6. ASSUME \/ UNCHANGED subprocessVars \/ StartCommand \/ Reap \/ GiveUp \/ ContextKills
             \/ TimePasses \/ CancelContext \/ ForkChild \/ ForkDaemon
             \/ \E p \in alive : Ends(p)
      PROVE  /\ UNCHANGED <<runner, allHandled, verdict, ran>>
             /\ UNCHANGED <<ctxError, context>> \/ (ctxError' => ContextDone')
             /\ \/ place' = place \/ (place # "returned" /\ place' \notin {"returned", "drain"})
                \/ (place # "returned" /\ place' = "drain" /\ Late')
             /\ UNCHANGED <<context, expired>> \/ Late' \/ place' # "drain"
  BY <1>6 DEF subprocessVars, process, StartCommand, Reap, GiveUp, ContextKills, TimePasses,
     CancelContext, ForkChild, ForkDaemon, Ends, ContextDone, Late
<1> QED
  BY <1>1, <1>2, <1>3, <1>4, <1>5, <1>6 DEF SubprocessNext, RunnerStep

(* What a hook decides is what its commands decided (hooks.go:42): nothing *)
(* runs after one that blocks, and only a timeout or a cancelled turn can  *)
(* hide what a command says.                                               *)
THEOREM HookDecides == SubprocessSpec => []HookVerdict
<1>1. HookInv => HookVerdict
  <2> SUFFICES ASSUME HookInv PROVE HookVerdict
    OBVIOUS
  <2>1. DOMAIN ran = 1 .. Len(ran)
    BY LenProperties DEF HookInv
  <2> QED
    BY <2>1 DEF HookInv, HookVerdict, Clean, Blocks
<1>2. SubprocessSpec => []CommandInv
  BY CommandInit, CommandStep, PTL DEF SubprocessSpec
<1> QED
  BY <1>1, <1>2, HookInit, HookStep, PTL DEF SubprocessSpec


-----------------------------------------------------------------------------
(* BackendStream.                                                          *)

StreamInv ==
  /\ \E S : channel \in Seq(S)
  /\ \A k \in 1 .. Len(channel) - 1 : ~channel[k].done
  /\ channel # <<>> /\ channel[Len(channel)].done => producer = "ended"
  /\ consumer # "stream" => channel = <<>> /\ producer \in {"none", "ended"}
  /\ stopReason # "" => consumer = "ended"

LEMMA InitStream == StreamInit => StreamInv
<1> SUFFICES ASSUME StreamInit PROVE StreamInv
  OBVIOUS
<1>1. channel = <<>> /\ consumer = "ask" /\ producer = "none" /\ stopReason = ""
  BY DEF StreamInit
<1>2. channel \in Seq({}) /\ Len(channel) = 0
  BY <1>1, EmptySeq
<1>3. \A k \in 1 .. Len(channel) - 1 : ~channel[k].done
  BY <1>2
<1> QED
  BY <1>1, <1>2, <1>3 DEF StreamInv

(* What the producer delivers comes last, and is the end when it is Done.  *)
LEMMA DeliverKeepsStream == StreamInv /\ Deliver => StreamInv'
<1> SUFFICES ASSUME StreamInv, Deliver PROVE StreamInv'
  OBVIOUS
<1>1. PICK S : channel \in Seq(S)
  BY DEF StreamInv
<1>2. PICK T : T = S \cup {event}
  OBVIOUS
<1>3. channel \in Seq(T) /\ event \in T
  BY <1>1, <1>2
<1>4. PICK n \in Nat : n = Len(channel)
  BY <1>3, LenProperties
<1>5. /\ channel' \in Seq(T) /\ Len(channel') = n + 1
      /\ channel'[n + 1] = event /\ \A k \in 1 .. n : channel'[k] = channel[k]
  BY <1>3, <1>4, AppendProperties DEF Deliver
<1>6. /\ producer = "send" /\ producer' = IF event.done THEN "ended" ELSE "read"
      /\ UNCHANGED <<consumer, stopReason>>
  BY DEF Deliver, reply
<1>7. \A k \in 1 .. n : ~channel[k].done
  <2> SUFFICES ASSUME NEW k \in 1 .. n PROVE ~channel[k].done
    OBVIOUS
  <2>1. channel # <<>>
    BY <1>3, <1>4, EmptySeq
  <2>2. CASE k = n
    BY <2>1, <2>2, <1>4, <1>6 DEF StreamInv
  <2>3. CASE k \in 1 .. n - 1
    BY <2>3, <1>4 DEF StreamInv
  <2> QED
    BY <2>2, <2>3
<1>8. \A k \in 1 .. Len(channel') - 1 : ~channel'[k].done
  BY <1>5, <1>7
<1>9. channel'[Len(channel')].done => producer' = "ended"
  BY <1>5, <1>6
<1>10. consumer = "stream" /\ stopReason = ""
  BY <1>6 DEF StreamInv
<1> QED
  BY <1>5, <1>6, <1>8, <1>9, <1>10 DEF StreamInv

(* When run stops reading, at Done, nothing is left and nothing comes.     *)
LEMMA ReceiveKeepsStream == StreamInv /\ Receive => StreamInv'
<1> SUFFICES ASSUME StreamInv, Receive PROVE StreamInv'
  OBVIOUS
<1>1. PICK S : channel \in Seq(S)
  BY DEF StreamInv
<1>2. PICK n \in Nat : n = Len(channel)
  BY <1>1, LenProperties
<1>3. channel # <<>> /\ n \in Nat \ {0}
  BY <1>1, <1>2, EmptySeq DEF Receive
<1>4. /\ Head(channel) = channel[1] /\ channel' \in Seq(S) /\ Len(channel') = n - 1
      /\ \A k \in 1 .. n - 1 : channel'[k] = channel[k + 1]
  BY <1>1, <1>2, <1>3, HeadTailProperties DEF Receive
<1>5. \A k \in 1 .. n - 1 : ~channel[k].done
  BY <1>2 DEF StreamInv
<1>6. channel[n].done => producer = "ended"
  BY <1>2, <1>3 DEF StreamInv
<1>7. /\ consumer = "stream" /\ stopReason = "" /\ producer' = producer
      /\ IF channel[1].done THEN consumer' = "ended" ELSE UNCHANGED <<stopReason, consumer>>
  BY <1>4 DEF Receive, StreamInv, wire, EndRunWith
<1>8. \A k \in 1 .. Len(channel') - 1 : ~channel'[k].done
  BY <1>3, <1>4, <1>5
<1>9. channel' # <<>> => n - 1 \in 1 .. n - 1 /\ channel'[Len(channel')] = channel[n]
  BY <1>3, <1>4, EmptySeq
<1>10. channel[1].done => channel' = <<>> /\ producer = "ended"
  <2> SUFFICES ASSUME channel[1].done PROVE channel' = <<>> /\ producer = "ended"
    OBVIOUS
  <2>1. n = 1
    BY <1>3, <1>5
  <2> QED
    BY <2>1, <1>4, <1>6, EmptySeq
<1> QED
  BY <1>4, <1>6, <1>7, <1>8, <1>9, <1>10 DEF StreamInv

LEMMA StreamStep == StreamInv /\ [StreamNext]_streamVars => StreamInv'
<1> SUFFICES ASSUME StreamInv, [StreamNext]_streamVars PROVE StreamInv'
  OBVIOUS
<1>1. ASSUME UNCHANGED <<channel, stopReason>>,
             \/ UNCHANGED consumer /\ producer' = producer
             \/ UNCHANGED consumer /\ producer \notin {"none", "ended"}
             \/ consumer = "stream" /\ channel = <<>> /\ producer = "ended" /\ producer' = producer
             \/ consumer \notin {"stream", "ended"}
                /\ (consumer' = "stream" \/ producer' = producer)
      PROVE  StreamInv'
  BY <1>1 DEF StreamInv
<1>2. CASE UNCHANGED streamVars
  BY <1>1, <1>2 DEF streamVars, wire, reply
<1>3. CASE CancelStream
  BY <1>1, <1>3 DEF CancelStream, wire, reply
<1>4. CASE KiroRequest \/ ReadItem \/ KiroStops \/ ReadEnd \/ Drop \/ Break
  <2>1. UNCHANGED <<channel, stopReason, consumer>>
    BY <1>4 DEF KiroRequest, ReadItem, KiroStops, ReadEnd, Drop, Break, Quiet, reply
  <2>2. producer \in {"request", "read", "send"}
    BY <1>4 DEF KiroRequest, ReadItem, KiroStops, ReadEnd, Drop, Break
  <2> QED
    BY <1>1, <2>1, <2>2
<1>5. CASE Ask
  <2>1. UNCHANGED <<channel, stopReason>> /\ consumer = "ask"
    BY <1>5 DEF Ask
  <2>2. consumer' = "stream" \/ producer' = producer
    BY <1>5 DEF Ask, Begin, wire
  <2> QED
    BY <1>1, <2>1, <2>2
<1>6. CASE Closed
  BY <1>1, <1>6 DEF Closed, wire, reply
<1>7. CASE Countdown
  BY <1>1, <1>7 DEF Countdown, wire, reply
<1> QED
  BY <1>2, <1>3, <1>4, <1>5, <1>6, <1>7, DeliverKeepsStream, ReceiveKeepsStream
  DEF StreamNext, Produce, Consume

(* The parsers return at Done and run stops reading there (loop.go:175):   *)
(* a stream has one Done event, and nothing follows it.                    *)
THEOREM StreamEndsAtDone == StreamSpec => []DoneIsLast
<1>1. StreamInv => DoneIsLast
  BY DEF StreamInv, DoneIsLast
<1> QED
  BY <1>1, InitStream, StreamStep, PTL DEF StreamSpec

(* The answer.  While run reads, the text that it has, the text on its way *)
(* and what the parser has accumulated are together what was read.         *)

(* The positions on their way: in the channel, and in the producer's hand. *)
Coming == {i \in 1 .. read : \E k \in DOMAIN channel : channel[k].text = <<i>>}
Going == {i \in 1 .. read : producer = "send" /\ event.text = <<i>>}

(* A Done event carries the calls of all the items that were read.         *)
EndsWell(e) ==
  /\ e.done /\ e.text = <<>>
  /\ e.reason \in Normal =>
       /\ provider # "kiro" => read = Len(sent)
       /\ e.calls \in Seq(Seq(Nat)) /\ WholeCalls(e.calls, read)

TextOrEnd(e) == EndsWell(e) \/ \E i \in 1 .. read : e = TextEvent(i)

(* What the parser has accumulated of the items that were read.            *)
ParserInv ==
  /\ accum \in Seq(Seq(Nat)) /\ WholeCalls(accum, read)
  /\ \A k \in DOMAIN accum : accum[k] # <<>> /\ \A i \in ToSet(accum[k]) : IsCall(i)
  /\ dsmlBuf \in Seq(Nat) /\ Ascending(dsmlBuf)
  /\ \A i \in ToSet(dsmlBuf) : i \in 1 .. read /\ Buffers(i)
  /\ \A i \in 1 .. read : Buffers(i) => i \in ToSet(dsmlBuf)

(* The text that was shown is in order in the answer, then in the channel, *)
(* then with the producer; it is all of it, up to where kiro stopped.      *)
TextInv ==
  /\ content \in Seq(Nat) /\ Ascending(content)
  /\ \A k, l \in DOMAIN channel : \A i, j \in 1 .. read :
       k < l /\ channel[k].text = <<i>> /\ channel[l].text = <<j>> => i < j
  /\ \A i \in ToSet(content), j \in Coming \cup Going : i < j
  /\ \A i \in Coming, j \in Going : i < j
  /\ \E n \in 0 .. read :
       /\ ~stopped => n = read
       /\ ToSet(content) \cup Coming \cup Going = {i \in 1 .. n : Shown(i)}

StreamFlow ==
  /\ sent \in Answers /\ read \in 0 .. Len(sent) /\ toolCalls = <<>>
  /\ provider # "kiro" => ~stopped
  /\ \A k \in DOMAIN channel : TextOrEnd(channel[k])
  /\ producer = "send" => EndsWell(event) \/ (event = TextEvent(read) /\ read # 0 /\ ~stopped)
  /\ ParserInv /\ TextInv

AnswerInv ==
  /\ StreamInv
  /\ consumer = "stream" => StreamFlow
  /\ outcome = "answered" => consumer = "ended"
  /\ AnswerIsWhole

LEMMA SentLength == sent \in Answers => Len(sent) \in Nat
  BY StreamAssumption, LenProperties

(* A larger position at the end keeps positions in order.                  *)
LEMMA AppendAscending ==
  ASSUME NEW s \in Seq(Nat), Ascending(s), NEW x \in Nat, \A i \in ToSet(s) : i < x
  PROVE  /\ Append(s, x) \in Seq(Nat) /\ Append(s, x) # <<>>
         /\ Ascending(Append(s, x)) /\ ToSet(Append(s, x)) = ToSet(s) \cup {x}
<1>1. PICK n \in Nat : n = Len(s) /\ DOMAIN s = 1 .. n
  BY LenProperties
<1>2. PICK t \in Seq(Nat) : t = Append(s, x)
  BY AppendProperties
<1>3. /\ t # <<>> /\ Len(t) = n + 1 /\ t[n + 1] = x /\ \A k \in 1 .. n : t[k] = s[k]
  BY ONLY <1>1, <1>2, s \in Seq(Nat), x \in Nat, AppendProperties
<1>4. DOMAIN t = 1 .. n + 1
  BY ONLY <1>2, <1>3, LenProperties
<1>5. \A k \in 1 .. n : t[k] < x
  BY <1>1, <1>3 DEF ToSet
<1>6. \A k, l \in 1 .. n + 1 : k < l => t[k] < t[l]
  <2> SUFFICES ASSUME NEW k \in 1 .. n + 1, NEW l \in 1 .. n + 1, k < l PROVE t[k] < t[l]
    OBVIOUS
  <2>1. k \in 1 .. n
    BY <1>1
  <2>2. CASE l \in 1 .. n
    BY <1>1, <1>3, <2>1, <2>2 DEF Ascending
  <2>3. CASE l = n + 1
    <3>1. t[k] = s[k] /\ t[l] = x /\ s[k] < x
      BY <1>1, <1>3, <1>5, <2>1, <2>3
    <3> QED
      BY <3>1
  <2>4. l \in 1 .. n \/ l = n + 1
    OBVIOUS
  <2> QED
    BY ONLY <2>2, <2>3, <2>4
<1>7. ToSet(t) = ToSet(s) \cup {x}
  BY <1>1, <1>3, <1>4 DEF ToSet
<1> QED
  BY <1>2, <1>3, <1>4, <1>6, <1>7 DEF Ascending

(* What is left of positions in order is in order.                         *)
LEMMA RestAscending ==
  ASSUME NEW s \in Seq(Nat), Ascending(s), NEW k \in DOMAIN s
  PROVE  \E b \in Seq(Nat) : /\ b = SubSeq(s, k, Len(s))
                             /\ Ascending(b) /\ ToSet(b) \subseteq ToSet(s)
<1>1. PICK n \in Nat : n = Len(s) /\ DOMAIN s = 1 .. n
  BY LenProperties
<1>2. k \in 1 .. n /\ \A i \in k .. n : s[i] \in Nat
  BY <1>1, ElementOfSeq
<1>3. PICK b \in Seq(Nat) : /\ b = SubSeq(s, k, n) /\ Len(b) = n - k + 1
                            /\ \A i \in 1 .. n - k + 1 : b[i] = s[k + i - 1]
  <2>1. k \in Int /\ n \in Int /\ k <= n
    BY <1>2
  <2>2. /\ SubSeq(s, k, n) \in Seq(Nat) /\ Len(SubSeq(s, k, n)) = n - k + 1
        /\ \A i \in 1 .. n - k + 1 : SubSeq(s, k, n)[i] = s[k + i - 1]
    <3>1. Len(SubSeq(s, k, n)) = IF k <= n THEN n - k + 1 ELSE 0
      BY <1>2, <2>1, SubSeqProperties, Zenon
    <3>2. SubSeq(s, k, n) \in Seq(Nat)
      BY <1>2, <2>1, SubSeqProperties, Zenon
    <3>3. \A i \in 1 .. n - k + 1 : SubSeq(s, k, n)[i] = s[k + i - 1]
      BY <1>2, <2>1, SubSeqProperties
    <3> QED
      BY ONLY <2>1, <3>1, <3>2, <3>3
  <2> QED
    BY <2>2
<1>4. DOMAIN b = 1 .. n - k + 1 /\ \A i \in DOMAIN b : k + i - 1 \in DOMAIN s /\ b[i] = s[k + i - 1]
  BY <1>1, <1>2, <1>3, LenProperties
<1>5. Ascending(b)
  <2> SUFFICES ASSUME NEW i \in DOMAIN b, NEW j \in DOMAIN b, i < j PROVE b[i] < b[j]
    BY DEF Ascending
  <2>1. k + i - 1 < k + j - 1
    BY <1>2, <1>4
  <2> QED
    BY <1>4, <2>1 DEF Ascending
<1>6. ToSet(b) \subseteq ToSet(s)
  BY <1>4 DEF ToSet
<1> QED
  BY <1>1, <1>3, <1>5, <1>6

(* In whatever order the calls of a map come, they are the same calls.     *)
LEMMA ArrangedWhole ==
  ASSUME NEW calls \in Seq(Seq(Nat)), NEW m \in Nat, WholeCalls(calls, m),
         NEW p \in Bijection(DOMAIN calls, DOMAIN calls),
         NEW c, c = [k \in DOMAIN calls |-> calls[p[k]]]
  PROVE  c \in Seq(Seq(Nat)) /\ WholeCalls(c, m)
<1>1. PICK n \in Nat : n = Len(calls) /\ DOMAIN calls = 1 .. n
  BY LenProperties
<1>2. PICK D : D = DOMAIN calls
  OBVIOUS
<1>3. /\ p \in [D -> D] /\ \A k, l \in D : p[k] = p[l] => k = l
      /\ \A k \in D : \E l \in D : p[l] = k
  BY <1>2 DEF Bijection, Injection, Surjection, IsInjective
<1>4. DOMAIN c = D /\ \A k \in D : c[k] = calls[p[k]] /\ p[k] \in D
  BY <1>2, <1>3
<1>5. c \in Seq(Seq(Nat))
  <2>1. \A k \in D : calls[k] \in Seq(Nat)
    BY <1>1, <1>2, ElementOfSeq
  <2>2. c \in [1 .. n -> Seq(Nat)]
    BY <1>1, <1>2, <1>4, <2>1
  <2> QED
    BY <2>2, SeqDef
<1>6. \A x : x \in Parts(c) <=> x \in Parts(calls)
  BY <1>2, <1>3, <1>4 DEF Parts
<1>7. \A k \in D : Ascending(c[k])
  BY <1>2, <1>4 DEF WholeCalls
<1>8. ASSUME NEW k \in D, NEW l \in D, NEW i \in ToSet(c[k]), NEW j \in ToSet(c[l])
      PROVE  /\ i = j => k = l
             /\ IsCall(i) /\ IsCall(j) /\ provider # "ollama"
                  => (sent[i].call = sent[j].call <=> k = l)
  <2>1. i \in ToSet(calls[p[k]]) /\ j \in ToSet(calls[p[l]]) /\ p[k] \in D /\ p[l] \in D
    BY <1>4
  <2>2. p[k] = p[l] <=> k = l
    BY <1>3
  <2> QED
    BY <1>2, <2>1, <2>2 DEF WholeCalls
<1>9. WholeCalls(c, m)
  <2>1. \A k, l \in D : \A i \in ToSet(c[k]), j \in ToSet(c[l]) :
         /\ i = j => k = l
         /\ IsCall(i) /\ IsCall(j) /\ provider # "ollama" => (sent[i].call = sent[j].call <=> k = l)
    BY <1>8
  <2>2. /\ \A i \in Parts(c) : i \in 1 .. m /\ sent[i].kind # "text"
        /\ \A i \in 1 .. m : IsCall(i) => i \in Parts(c)
    BY <1>6 DEF WholeCalls
  <2>3. DOMAIN c = D
    BY <1>4
  <2>4. \A i \in Parts(c) : ~IsCall(i) => D = {1} /\ \A j \in 1 .. m : ~IsCall(j)
    BY <1>2, <1>6 DEF WholeCalls
  <2> QED
    BY ONLY <1>7, <2>1, <2>2, <2>3, <2>4 DEF WholeCalls
<1> QED
  BY <1>5, <1>9

(* The fragment after the first m items is added to its call, or begins    *)
(* one: k0 has it in c, and the other calls are what they were in old.     *)
AddsFragment(old, c, k0, m) ==
  /\ WholeCalls(old, m) /\ IsCall(m + 1)
  /\ \A k \in DOMAIN old : \A i \in ToSet(old[k]) : IsCall(i)
  /\ DOMAIN old \subseteq DOMAIN c /\ k0 \in DOMAIN c
  /\ \A k \in DOMAIN c : k # k0 => k \in DOMAIN old /\ c[k] = old[k]
  /\ ToSet(c[k0]) = (IF k0 \in DOMAIN old THEN ToSet(old[k0]) ELSE {}) \cup {m + 1}
  /\ Ascending(c[k0])
  /\ \A k \in DOMAIN old : \A i \in ToSet(old[k]) :
       provider # "ollama" => (sent[i].call = sent[m + 1].call <=> k = k0)

LEMMA FragmentAdded ==
  ASSUME NEW m \in Nat, NEW old, NEW c, NEW k0, AddsFragment(old, c, k0, m)
  PROVE  /\ WholeCalls(c, m + 1)
         /\ \A k \in DOMAIN c : \A i \in ToSet(c[k]) : IsCall(i)
<1>1. PICK D, E, r : D = DOMAIN old /\ E = DOMAIN c /\ r = m + 1
  OBVIOUS
<1>2. /\ WholeCalls(old, m) /\ IsCall(r) /\ D \subseteq E /\ k0 \in E
      /\ \A k \in D : \A i \in ToSet(old[k]) : IsCall(i)
      /\ \A k \in E : k # k0 => k \in D /\ c[k] = old[k]
      /\ ToSet(c[k0]) = (IF k0 \in D THEN ToSet(old[k0]) ELSE {}) \cup {r}
      /\ Ascending(c[k0])
      /\ \A k \in D : \A i \in ToSet(old[k]) :
           provider # "ollama" => (sent[i].call = sent[r].call <=> k = k0)
  BY <1>1 DEF AddsFragment
<1>3. \A k \in D : \A i \in ToSet(old[k]) : i \in 1 .. m
  BY <1>1, <1>2 DEF WholeCalls, Parts
<1>4. \A k \in E : \A i \in ToSet(c[k]) :
        \/ k \in D /\ i \in ToSet(old[k])
        \/ k = k0 /\ i = r
  BY <1>2
<1>5. \A k \in E : \A i \in ToSet(c[k]) : i \in 1 .. r /\ IsCall(i)
  BY <1>1, <1>2, <1>3, <1>4
<1>6. \A k \in E : Ascending(c[k])
  BY <1>1, <1>2 DEF WholeCalls
<1>7. r \notin 1 .. m
  BY <1>1
<1>8. ASSUME NEW k \in E, NEW l \in E, NEW i \in ToSet(c[k]), NEW j \in ToSet(c[l])
      PROVE  /\ i = j => k = l
             /\ IsCall(i) /\ IsCall(j) /\ provider # "ollama"
                  => (sent[i].call = sent[j].call <=> k = l)
  <2>1. CASE k \in D /\ i \in ToSet(old[k]) /\ l \in D /\ j \in ToSet(old[l])
    BY <1>1, <1>2, <2>1 DEF WholeCalls
  <2>2. CASE k \in D /\ i \in ToSet(old[k]) /\ l = k0 /\ j = r
    <3>1. i # j
      BY <1>3, <1>7, <2>2
    <3>2. provider # "ollama" => (sent[i].call = sent[j].call <=> k = l)
      BY <1>2, <2>2
    <3> QED
      BY <3>1, <3>2
  <2>3. CASE k = k0 /\ i = r /\ l \in D /\ j \in ToSet(old[l])
    <3>1. i # j
      BY <1>3, <1>7, <2>3
    <3>2. provider # "ollama" => (sent[j].call = sent[i].call <=> l = k)
      BY <1>2, <2>3
    <3> QED
      BY <3>1, <3>2
  <2>4. CASE k = k0 /\ i = r /\ l = k0 /\ j = r
    BY <2>4
  <2> QED
    BY <1>4, <2>1, <2>2, <2>3, <2>4
<1>9. \A i \in Parts(c) : i \in 1 .. r /\ sent[i].kind # "text" /\ IsCall(i)
  BY <1>1, <1>5 DEF Parts, IsCall
<1>10. ASSUME NEW i \in 1 .. r, IsCall(i) PROVE i \in Parts(c)
  <2>1. CASE i = r
    BY <1>1, <1>2, <2>1 DEF Parts
  <2>2. CASE i # r
    <3>1. i \in 1 .. m
      BY <1>1, <2>2
    <3>2. i \in Parts(old)
      BY <1>2, <1>10, <3>1 DEF WholeCalls
    <3>3. PICK k \in D : i \in ToSet(old[k])
      BY <1>1, <3>2 DEF Parts
    <3>4. k \in E /\ i \in ToSet(c[k])
      BY <1>2, <3>3
    <3> QED
      BY <1>1, <3>4 DEF Parts
  <2> QED
    BY <2>1, <2>2
<1>11. WholeCalls(c, r)
  BY <1>1, <1>6, <1>8, <1>9, <1>10 DEF WholeCalls
<1> QED
  BY <1>1, <1>5, <1>11

LEMMA AccumulatedWhole ==
  ASSUME ParserInv, NEW m \in Nat, m = read, NEW r, r = m + 1, IsCall(r),
         NEW c, c = Accumulated(r)
  PROVE  /\ c \in Seq(Seq(Nat)) /\ WholeCalls(c, r)
         /\ \A k \in DOMAIN c : c[k] # <<>> /\ \A i \in ToSet(c[k]) : IsCall(i)
<1>1. PICK n \in Nat : n = Len(accum) /\ DOMAIN accum = 1 .. n
  BY LenProperties DEF ParserInv
<1>2. PICK D : D = 1 .. n
  OBVIOUS
<1>3. /\ WholeCalls(accum, m) /\ D = DOMAIN accum
      /\ \A k \in D : accum[k] \in Seq(Nat) /\ accum[k] # <<>>
      /\ \A k \in D : \A i \in ToSet(accum[k]) : IsCall(i)
  BY <1>1, <1>2, ElementOfSeq DEF ParserInv
<1>4. \A k \in D : accum[k][1] \in ToSet(accum[k])
  <2> SUFFICES ASSUME NEW k \in D PROVE accum[k][1] \in ToSet(accum[k])
    OBVIOUS
  <2>1. 1 \in DOMAIN accum[k]
    BY <1>3, LenProperties, EmptySeq
  <2> QED
    BY <2>1 DEF ToSet
<1>5. \A k \in D : \A i \in ToSet(accum[k]) :
        provider # "ollama" => (sent[i].call = sent[r].call <=> Joins(k, r))
  BY <1>3, <1>4 DEF WholeCalls, Joins
<1>6. \A k \in D : \A i \in ToSet(accum[k]) : i < r
  <2> SUFFICES ASSUME NEW k \in D, NEW i \in ToSet(accum[k]) PROVE i < r
    OBVIOUS
  <2>1. i \in Parts(accum)
    BY <1>3 DEF Parts
  <2>2. i \in 1 .. m
    BY <1>3, <2>1 DEF WholeCalls
  <2> QED
    BY <2>2
<1>7. r \in Nat
  OBVIOUS
<1>8. CASE \E k \in D : Joins(k, r)
  <2>1. PICK k0 \in D : Joins(k0, r)
    BY <1>8
  <2>2. \A k \in D : Joins(k, r) <=> k = k0
    BY <1>3, <1>4, <2>1 DEF Joins, WholeCalls
  <2>3. /\ Append(accum[k0], r) \in Seq(Nat) /\ Append(accum[k0], r) # <<>>
        /\ Ascending(Append(accum[k0], r))
        /\ ToSet(Append(accum[k0], r)) = ToSet(accum[k0]) \cup {r}
    <3>1. PICK s \in Seq(Nat) : s = accum[k0]
      BY <1>3
    <3>2. Ascending(s) /\ \A i \in ToSet(s) : i < r
      BY <1>3, <1>6, <3>1 DEF WholeCalls
    <3> QED
      BY <1>7, <3>1, <3>2, AppendAscending
  <2>4. c = [k \in D |-> IF k = k0 THEN Append(accum[k0], r) ELSE accum[k]]
    BY <1>3, <1>8, <2>2 DEF Accumulated
  <2>5. /\ DOMAIN c = D /\ c[k0] = Append(accum[k0], r)
        /\ \A k \in D : k # k0 => c[k] = accum[k]
    BY <2>4
  <2>6. c \in Seq(Seq(Nat))
    <3>1. c \in [1 .. n -> Seq(Nat)]
      BY <1>2, <1>3, <2>3, <2>4
    <3> QED
      BY <3>1, SeqDef
  <2>7. WholeCalls(c, r) /\ \A k \in D : \A i \in ToSet(c[k]) : IsCall(i)
    <3>1. /\ DOMAIN accum \subseteq DOMAIN c /\ k0 \in DOMAIN c
          /\ \A k \in DOMAIN c : k # k0 => k \in DOMAIN accum /\ c[k] = accum[k]
          /\ Ascending(c[k0])
      BY <1>3, <2>3, <2>5
    <3>2. ToSet(c[k0]) = (IF k0 \in DOMAIN accum THEN ToSet(accum[k0]) ELSE {}) \cup {r}
      BY <1>3, <2>3, <2>5
    <3>3. \A k \in DOMAIN accum : \A i \in ToSet(accum[k]) :
            provider # "ollama" => (sent[i].call = sent[r].call <=> k = k0)
      BY <1>3, <1>5, <2>2
    <3>4. AddsFragment(accum, c, k0, m)
      BY <1>3, <3>1, <3>2, <3>3 DEF AddsFragment
    <3> QED
      BY <2>5, <3>4, FragmentAdded
  <2> QED
    <3>1. \A k \in D : c[k] # <<>>
      BY <1>3, <2>3, <2>5
    <3> QED
      BY <2>5, <2>6, <2>7, <3>1
<1>9. CASE ~\E k \in D : Joins(k, r)
  <2>0. PICK b \in Seq(Nat) : b = <<r>> /\ b # <<>> /\ DOMAIN b = {1} /\ b[1] = r
    <3>1. <<r>> \in Seq(Nat) /\ <<r>> # <<>> /\ DOMAIN <<r>> = {1} /\ <<r>>[1] = r
      BY <1>7
    <3> QED
      BY ONLY <3>1
  <2>1. Ascending(b) /\ ToSet(b) = {r}
    BY ONLY <2>0 DEF Ascending, ToSet
  <2>2. c = Append(accum, b)
    BY <1>3, <1>9, <2>0 DEF Accumulated, Opened
  <2>3. /\ c \in Seq(Seq(Nat)) /\ Len(c) = n + 1 /\ c[n + 1] = b
        /\ \A k \in 1 .. n : c[k] = accum[k]
    <3>1. PICK S : S = Seq(Nat)
      OBVIOUS
    <3>2. accum \in Seq(S) /\ b \in S
      BY <3>1 DEF ParserInv
    <3>3. c \in Seq(S) /\ Len(c) = n + 1 /\ c[n + 1] = b /\ \A k \in 1 .. n : c[k] = accum[k]
      BY ONLY <1>1, <2>2, <3>2, AppendProperties
    <3> QED
      BY <3>1, <3>3
  <2>4. PICK E : E = DOMAIN c /\ E = 1 .. n + 1
    BY <2>3, LenProperties
  <2>5. /\ D \subseteq E /\ n + 1 \in E /\ n + 1 \notin D
        /\ \A k \in E : k # n + 1 => k \in D /\ c[k] = accum[k]
    <3>1. D \subseteq E /\ n + 1 \in E /\ n + 1 \notin D
      BY <1>2, <2>4
    <3>2. \A k \in E : k # n + 1 => k \in D
      BY <1>2, <2>4
    <3> QED
      BY <1>2, <2>3, <3>1, <3>2
  <2>6. WholeCalls(c, r) /\ \A k \in E : \A i \in ToSet(c[k]) : IsCall(i)
    <3>1. PICK k0 : k0 = n + 1
      OBVIOUS
    <3>2. /\ DOMAIN accum \subseteq DOMAIN c /\ k0 \in DOMAIN c /\ k0 \notin DOMAIN accum
          /\ \A k \in DOMAIN c : k # k0 => k \in DOMAIN accum /\ c[k] = accum[k]
      BY <1>3, <2>4, <2>5, <3>1
    <3>3. c[k0] = b
      BY <2>3, <3>1
    <3>4. /\ Ascending(c[k0])
          /\ ToSet(c[k0]) = (IF k0 \in DOMAIN accum THEN ToSet(accum[k0]) ELSE {}) \cup {r}
      BY <2>1, <3>2, <3>3
    <3>5. \A k \in DOMAIN accum : \A i \in ToSet(accum[k]) :
            provider # "ollama" => (sent[i].call = sent[r].call <=> k = k0)
      BY <1>3, <1>5, <1>9, <3>2
    <3>6. AddsFragment(accum, c, k0, m)
      BY <1>3, <3>2, <3>4, <3>5 DEF AddsFragment
    <3> QED
      BY <2>4, <3>6, FragmentAdded
  <2> QED
    <3>1. \A k \in E : k \in D \/ k = n + 1
      BY <2>5
    <3>2. \A k \in E : c[k] # <<>>
      BY <1>3, <2>0, <2>3, <2>5, <3>1
    <3> QED
      BY <2>3, <2>4, <2>6, <3>2
<1> QED
  BY <1>8, <1>9

(* What an item adds to what the parser has accumulated.                   *)
LEMMA ReadKeepsParser ==
  ASSUME ParserInv, ReadItem, NEW m \in Nat, m = read
  PROVE  ParserInv'
<1>1. PICK r \in Nat : r = m + 1 /\ r = read'
  BY DEF ReadItem
<1>2. /\ UNCHANGED <<sent, provider>>
      /\ accum' = IF IsCall(r) THEN Accumulated(r) ELSE accum
      /\ dsmlBuf' = IF Buffers(r) THEN Append(dsmlBuf, r) ELSE dsmlBuf
  BY <1>1 DEF ReadItem, Quiet
<1>3. /\ accum' \in Seq(Seq(Nat)) /\ WholeCalls(accum', r)
      /\ \A k \in DOMAIN accum' : accum'[k] # <<>> /\ \A i \in ToSet(accum'[k]) : IsCall(i)
  <2>1. CASE IsCall(r)
    BY <1>1, <1>2, <2>1, AccumulatedWhole
  <2>2. CASE ~IsCall(r)
    <3>1. WholeCalls(accum, m)
      BY DEF ParserInv
    <3>2. WholeCalls(accum, r)
      BY <1>1, <2>2, <3>1 DEF WholeCalls
    <3> QED
      BY <1>2, <2>2, <3>2 DEF ParserInv
  <2> QED
    BY <2>1, <2>2
<1>4. /\ dsmlBuf' \in Seq(Nat) /\ Ascending(dsmlBuf')
      /\ ToSet(dsmlBuf') = ToSet(dsmlBuf) \cup (IF Buffers(r) THEN {r} ELSE {})
  <2>1. \A i \in ToSet(dsmlBuf) : i < r
    BY <1>1 DEF ParserInv
  <2> QED
    BY <1>1, <1>2, <2>1, AppendAscending DEF ParserInv
<1>5. /\ \A i \in ToSet(dsmlBuf') : i \in 1 .. r /\ Buffers(i)
      /\ \A i \in 1 .. r : Buffers(i) => i \in ToSet(dsmlBuf')
  BY <1>1, <1>4 DEF ParserInv
<1>6. /\ \A i : Buffers(i)' = Buffers(i) /\ IsCall(i)' = IsCall(i)
      /\ WholeCalls(accum, read)' = WholeCalls(accum', r)
  BY <1>1, <1>2 DEF Buffers, IsCall, Leaks, WholeCalls
<1> QED
  BY <1>1, <1>3, <1>4, <1>5, <1>6 DEF ParserInv

LEMMA FinalCallsWhole ==
  ASSUME ParserInv, NEW m \in Nat, m = read, NEW calls \in FinalCalls
  PROVE  calls \in Seq(Seq(Nat)) /\ WholeCalls(calls, m)
<1>1. accum \in Seq(Seq(Nat)) /\ WholeCalls(accum, m)
  BY DEF ParserInv
<1>2. CASE calls = accum
  BY <1>1, <1>2
<1>3. CASE \E p \in Bijection(DOMAIN accum, DOMAIN accum) : calls = [k \in DOMAIN accum |-> accum[p[k]]]
  BY <1>1, <1>3, ArrangedWhole
<1>4. CASE accum = <<>> /\ calls \in Recovered
  <2>0. PICK first \in DOMAIN dsmlBuf : calls = <<SubSeq(dsmlBuf, first, Len(dsmlBuf))>>
    BY <1>4 DEF Recovered
  <2>1. PICK b \in Seq(Nat) : /\ b = SubSeq(dsmlBuf, first, Len(dsmlBuf))
                              /\ Ascending(b) /\ ToSet(b) \subseteq ToSet(dsmlBuf)
    BY <2>0, RestAscending DEF ParserInv
  <2>2. \A i \in ToSet(b) : i \in 1 .. m /\ Leaks(i)
    BY <2>1 DEF ParserInv, Buffers
  <2>3. \A i \in 1 .. m : ~IsCall(i)
    <3>1. Parts(accum) = {}
      BY <1>4 DEF Parts
    <3> QED
      BY <1>1, <3>1 DEF WholeCalls
  <2>4. calls \in Seq(Seq(Nat)) /\ DOMAIN calls = {1} /\ calls[1] = b
    BY <2>0, <2>1
  <2>5. Parts(calls) = ToSet(b)
    BY ONLY <2>4 DEF Parts
  <2>6. \A i \in ToSet(b) : ~IsCall(i) /\ sent[i].kind # "text"
    BY <2>2 DEF IsCall, Leaks
  <2>7. /\ \A k \in DOMAIN calls : Ascending(calls[k])
        /\ \A k, l \in DOMAIN calls : k = l
        /\ \A k \in DOMAIN calls : calls[k] = b
    BY <2>1, <2>4
  <2> QED
    BY <2>2, <2>3, <2>4, <2>5, <2>6, <2>7 DEF WholeCalls
<1> QED
  BY <1>1, <1>2, <1>3, <1>4 DEF FinalCalls

(* What kiro does not drop and no markup cuts off is shown.                *)
LEMMA PassesOnShown ==
  ASSUME ParserInv, NEW m \in Nat, m = read, NEW r, r = m + 1
  PROVE  PassesOn(r) <=> ~stopped /\ Shown(r)
<1>1. SeenDSML <=> \E i \in 1 .. m : Buffers(i)
  <2>1. dsmlBuf # <<>> <=> \E i : i \in ToSet(dsmlBuf)
    <3>1. PICK n \in Nat : n = Len(dsmlBuf) /\ DOMAIN dsmlBuf = 1 .. n
      BY LenProperties DEF ParserInv
    <3>2. n = 0 <=> dsmlBuf = <<>>
      BY <3>1, EmptySeq DEF ParserInv
    <3>3. n # 0 => dsmlBuf[1] \in ToSet(dsmlBuf)
      BY <3>1 DEF ToSet
    <3>4. n = 0 => \A i : i \notin ToSet(dsmlBuf)
      BY <3>1 DEF ToSet
    <3> QED
      BY <3>1, <3>2, <3>3, <3>4
  <2> QED
    BY <2>1 DEF ParserInv, SeenDSML
<1>2. (\A j \in 1 .. r : ~Buffers(j)) <=> ~SeenDSML /\ ~Buffers(r)
  BY <1>1
<1> QED
  BY <1>2 DEF PassesOn, Shown, Buffers

LEMMA TextFields ==
  \A i : LET e == TextEvent(i) IN e.text = <<i>> /\ ~e.done /\ e.calls = <<>>
  BY DEF TextEvent

LEMMA DoneFields ==
  \A o, calls : LET e == Done(o, calls)
                IN  e.text = <<>> /\ e.done /\ e.reason = o /\ e.calls = calls
  BY DEF Done

(* The text of an event.                                                   *)
LEMMA EventText ==
  ASSUME NEW e, TextOrEnd(e)
  PROVE  /\ e.text = <<>> \/ \E i \in 1 .. read : e.text = <<i>>
         /\ ~e.done => \E i \in 1 .. read : e.text = <<i>> /\ e = TextEvent(i)
         /\ e.done => EndsWell(e) /\ e.text = <<>>
<1>1. CASE EndsWell(e)
  BY <1>1 DEF EndsWell
<1>2. CASE \E i \in 1 .. read : e = TextEvent(i)
  BY <1>2, TextFields
<1> QED
  BY <1>1, <1>2 DEF TextOrEnd

LEMMA OnePosition == \A i, j : (<<i>> = <<j>> => i = j) /\ <<i>> # <<>>
  OBVIOUS

LEMMA ReadKeepsText ==
  ASSUME StreamFlow, ReadItem
  PROVE  TextInv'
<1>1. PICK m \in Nat : m = read
  BY SentLength DEF StreamFlow
<1>2. PICK r \in Nat : r = m + 1 /\ r = read'
  BY <1>1 DEF ReadItem
<1>3. /\ UNCHANGED <<sent, provider, content, channel, stopped>> /\ producer = "read"
      /\ IF PassesOn(r) THEN producer' = "send" /\ event' = TextEvent(r)
         ELSE producer' = "read"
  BY <1>2 DEF ReadItem, Quiet, reply, Sends
<1>4. PassesOn(r) <=> ~stopped /\ Shown(r)
  BY <1>1, <1>2, PassesOnShown DEF StreamFlow
<1>5. PICK C : C = Coming
  OBVIOUS
<1>6. Going = {}
  BY <1>3 DEF Going
<1>7. Coming' = C
  <2>1. \A k \in DOMAIN channel : channel[k].text # <<r>>
    <3> SUFFICES ASSUME NEW k \in DOMAIN channel PROVE channel[k].text # <<r>>
      OBVIOUS
    <3>1. channel[k].text = <<>> \/ \E i \in 1 .. m : channel[k].text = <<i>>
      BY <1>1, EventText DEF StreamFlow
    <3>2. r \notin 1 .. m
      BY <1>2
    <3> QED
      BY <3>1, <3>2, OnePosition
  <2>2. 1 .. r = 1 .. m \cup {r}
    BY <1>2
  <2> QED
    BY <1>1, <1>2, <1>3, <1>5, <2>1, <2>2 DEF Coming
<1>8. Going' = IF PassesOn(r) THEN {r} ELSE {}
  <2>1. CASE PassesOn(r)
    <3>1. producer' = "send" /\ event'.text = <<r>>
      BY <1>3, <2>1, TextFields
    <3>2. \A i \in 1 .. r : event'.text = <<i>> <=> i = r
      BY <3>1, OnePosition
    <3>3. r \in 1 .. r
      BY <1>2
    <3>4. Going' = {i \in 1 .. r : event'.text = <<i>>}
      BY <1>2, <3>1 DEF Going
    <3> QED
      BY ONLY <2>1, <3>2, <3>3, <3>4
  <2>2. CASE ~PassesOn(r)
    BY <1>3, <2>2 DEF Going
  <2> QED
    BY <2>1, <2>2
<1>9. PICK n \in 0 .. m : /\ ~stopped => n = m
                         /\ ToSet(content) \cup C = {i \in 1 .. n : Shown(i)}
  BY <1>1, <1>5, <1>6 DEF StreamFlow, TextInv
<1>10. \A i \in ToSet(content) \cup C : i < r
  BY <1>1, <1>2, <1>9
<1>11. \A i : Shown(i)' = Shown(i)
  BY <1>3 DEF Shown, IsCall, Leaks
<1>12. \E q \in 0 .. r : /\ ~stopped' => q = r
                         /\ (ToSet(content) \cup Coming \cup Going)' = {i \in 1 .. q : Shown(i)'}
  <2>1. CASE stopped
    <3>1. n \in 0 .. r /\ Going' = {}
      BY <1>2, <1>4, <1>8, <2>1
    <3> QED
      BY <1>3, <1>7, <1>9, <1>11, <2>1, <3>1
  <2>2. CASE ~stopped
    <3>1. r \in 0 .. r /\ n = m /\ 1 .. r = 1 .. m \cup {r}
      BY <1>2, <1>9, <2>2
    <3>2. Going' = {i \in {r} : Shown(i)}
      BY <1>4, <1>8, <2>2
    <3>3. {i \in 1 .. r : Shown(i)} = {i \in 1 .. m : Shown(i)} \cup {i \in {r} : Shown(i)}
      BY <3>1
    <3> QED
      BY <1>3, <1>7, <1>9, <1>11, <3>1, <3>2, <3>3
  <2> QED
    BY <2>1, <2>2
<1>13. \A k, l \in DOMAIN channel : \A i, j \in 1 .. r :
         k < l /\ channel[k].text = <<i>> /\ channel[l].text = <<j>> => i < j
  <2> SUFFICES ASSUME NEW k \in DOMAIN channel, NEW l \in DOMAIN channel,
                      NEW i \in 1 .. r, NEW j \in 1 .. r,
                      k < l, channel[k].text = <<i>>, channel[l].text = <<j>>
               PROVE  i < j
    OBVIOUS
  <2>1. i \in C /\ j \in C
    BY <1>2, <1>3, <1>7 DEF Coming
  <2>2. i \in 1 .. m /\ j \in 1 .. m
    BY <1>1, <1>5, <2>1 DEF Coming
  <2> QED
    BY <1>1, <2>2 DEF StreamFlow, TextInv
<1>14. \A i \in ToSet(content), j \in C : i < j
  BY <1>5 DEF StreamFlow, TextInv
<1>15. /\ \A i \in ToSet(content), j \in C \cup Going' : i < j
       /\ \A i \in C, j \in Going' : i < j
  BY <1>8, <1>10, <1>14
<1>16. content \in Seq(Nat) /\ Ascending(content)
  BY DEF StreamFlow, TextInv
<1> QED
  BY <1>2, <1>3, <1>7, <1>12, <1>13, <1>15, <1>16 DEF TextInv, Ascending

(* Until the producer has ended, its channel holds no Done event.          *)
LEMMA InnerNotDone ==
  ASSUME StreamInv, producer # "ended", NEW k \in DOMAIN channel
  PROVE  ~channel[k].done
<1>1. PICK S : channel \in Seq(S)
  BY DEF StreamInv
<1>2. PICK n \in Nat : n = Len(channel) /\ DOMAIN channel = 1 .. n
  BY <1>1, LenProperties
<1>3. channel # <<>>
  BY <1>1, <1>2, EmptySeq
<1>4. CASE k = n
  BY <1>2, <1>3, <1>4 DEF StreamInv
<1>5. CASE k \in 1 .. n - 1
  BY <1>2, <1>5 DEF StreamInv
<1> QED
  BY <1>2, <1>4, <1>5

LEMMA ReadKeepsFlow ==
  ASSUME StreamInv, StreamFlow, ReadItem
  PROVE  StreamFlow'
<1>1. PICK m \in Nat : m = read
  BY SentLength DEF StreamFlow
<1>2. PICK r \in Nat : r = m + 1 /\ r = read'
  BY <1>1 DEF ReadItem
<1>3. /\ UNCHANGED <<sent, provider, channel, stopped, toolCalls>> /\ producer = "read"
      /\ producer' = "send" => PassesOn(r) /\ event' = TextEvent(r)
  BY <1>2 DEF ReadItem, Quiet, reply, Sends
<1>4. sent' \in Answers /\ read' \in 0 .. Len(sent') /\ toolCalls' = <<>>
  <2>1. sent \in Answers /\ toolCalls = <<>> /\ m < Len(sent)
    BY <1>1 DEF StreamFlow, ReadItem
  <2> QED
    BY <1>2, <1>3, <2>1, SentLength
<1>5. \A k \in DOMAIN channel : TextOrEnd(channel[k])'
  <2> SUFFICES ASSUME NEW k \in DOMAIN channel PROVE TextOrEnd(channel[k])'
    OBVIOUS
  <2>1. ~channel[k].done
    BY <1>3, InnerNotDone
  <2>2. PICK i \in 1 .. m : channel[k] = TextEvent(i)
    BY <1>1, <2>1, EventText DEF StreamFlow
  <2>3. i \in 1 .. r
    BY <1>2
  <2>4. TextEvent(i)' = TextEvent(i)
    BY DEF TextEvent
  <2> QED
    BY <1>2, <1>3, <2>2, <2>3, <2>4 DEF TextOrEnd
<1>6. producer' = "send" => event' = TextEvent(read)' /\ read' # 0 /\ ~stopped'
  <2>1. TextEvent(read)' = TextEvent(r)
    BY <1>2 DEF TextEvent
  <2>2. r # 0
    BY <1>2
  <2> QED
    BY <1>2, <1>3, <2>1, <2>2 DEF PassesOn
<1>7. provider' # "kiro" => ~stopped'
  BY <1>3 DEF StreamFlow
<1>8. ParserInv'
  BY <1>1, ReadKeepsParser DEF StreamFlow
<1> QED
  BY <1>3, <1>4, <1>5, <1>6, <1>7, <1>8, ReadKeepsText DEF StreamFlow

(* A step of the producer that reads no item, and has no text in its hand. *)
LEMMA EndKeepsFlow ==
  ASSUME StreamFlow, producer # "send", producer' # "send" \/ EndsWell(event)',
         UNCHANGED <<sent, read, provider, stopped, channel, accum, dsmlBuf, content, toolCalls>>
  PROVE  StreamFlow'
<1>1. Coming' = Coming /\ Going = {}
  BY DEF Coming, Going
<1>2. Going' = {}
  <2>1. producer' = "send" => event'.text = <<>>
    BY DEF EndsWell
  <2> QED
    BY <2>1, OnePosition DEF Going
<1>3. \A i : Shown(i)' = Shown(i)
  BY DEF Shown, IsCall, Leaks
<1>4. TextInv'
  <2>1. TextInv /\ read' = read /\ stopped' = stopped /\ content' = content /\ channel' = channel
    BY DEF StreamFlow
  <2>2. Ascending(content)' = Ascending(content)
    BY <2>1 DEF Ascending
  <2> QED
    BY ONLY <1>1, <1>2, <1>3, <2>1, <2>2 DEF TextInv
<1>5. ParserInv'
  BY DEF StreamFlow, ParserInv, WholeCalls, IsCall, Leaks, Buffers, Ascending
<1>6. \A k \in DOMAIN channel : TextOrEnd(channel[k])'
  <2>1. \A calls : WholeCalls(calls, read)' = WholeCalls(calls, read)
    BY DEF WholeCalls, IsCall
  <2>2. \A e : EndsWell(e)' = EndsWell(e)
    BY <2>1 DEF EndsWell
  <2>3. \A e : TextOrEnd(e)' = TextOrEnd(e)
    BY <2>2 DEF TextOrEnd, TextEvent
  <2> QED
    BY <2>3 DEF StreamFlow
<1> QED
  BY <1>4, <1>5, <1>6 DEF StreamFlow

LEMMA ParseEndKeepsFlow ==
  ASSUME StreamFlow, KiroRequest \/ ReadEnd \/ Drop \/ Break
  PROVE  StreamFlow'
<1>1. /\ UNCHANGED <<sent, read, provider, stopped, channel, accum, dsmlBuf, content, toolCalls>>
      /\ producer # "send"
  BY DEF KiroRequest, ReadEnd, Drop, Break, Quiet, reply, parsed
<1>2. \A e : EndsWell(e)' = EndsWell(e)
  <2>1. \A calls : WholeCalls(calls, read)' = WholeCalls(calls, read)
    BY <1>1 DEF WholeCalls, IsCall
  <2> QED
    BY <1>1, <2>1 DEF EndsWell
<1>3. \A o \in {"error", "canceled"} : EndsWell(Done(o, <<>>))
  BY DoneFields DEF EndsWell, Normal
<1>4. CASE ReadEnd
  <2>1. PICK calls \in FinalCalls :
          Sends(Done(IF calls = <<>> THEN "stop" ELSE "tool_calls", calls))
    BY <1>4 DEF ReadEnd
  <2>2. PICK m \in Nat : m = read
    BY SentLength DEF StreamFlow
  <2>3. calls \in Seq(Seq(Nat)) /\ WholeCalls(calls, m)
    BY <2>2, FinalCallsWhole DEF StreamFlow
  <2>4. provider # "kiro" => read = Len(sent)
    BY <1>4 DEF ReadEnd
  <2>5. EndsWell(event')
    BY <2>1, <2>2, <2>3, <2>4, DoneFields DEF EndsWell, Sends
  <2> QED
    BY <1>1, <1>2, <2>5, EndKeepsFlow
<1>5. CASE KiroRequest \/ Drop \/ Break
  <2>1. producer' # "send" \/ \E o \in {"error", "canceled"} : event' = Done(o, <<>>)
    BY <1>1, <1>5 DEF KiroRequest, Drop, Break, Fails, Sends
  <2> QED
    BY <1>1, <1>2, <1>3, <2>1, EndKeepsFlow
<1> QED
  BY <1>4, <1>5

(* The channel takes what the producer had in its hand.                    *)
LEMMA DeliverKeepsFlow ==
  ASSUME StreamInv, StreamFlow, Deliver
  PROVE  StreamFlow'
<1>1. PICK m \in Nat : m = read
  BY SentLength DEF StreamFlow
<1>2. PICK S : channel \in Seq(S) /\ event \in S
  <2>1. PICK T : channel \in Seq(T)
    BY DEF StreamInv
  <2>2. channel \in Seq(T \cup {event})
    BY <2>1
  <2> QED
    BY <2>2
<1>3. PICK n \in Nat : n = Len(channel) /\ DOMAIN channel = 1 .. n
  BY <1>2, LenProperties
<1>4. /\ UNCHANGED <<sent, read, provider, stopped, accum, dsmlBuf, content, toolCalls, event>>
      /\ producer = "send" /\ producer' # "send"
      /\ channel' = Append(channel, event)
  BY DEF Deliver, reply
<1>5. PICK c : c = channel'
  OBVIOUS
<1>6. DOMAIN c = 1 .. n + 1 /\ c[n + 1] = event /\ \A k \in 1 .. n : c[k] = channel[k]
  <2>1. c \in Seq(S) /\ Len(c) = n + 1 /\ c[n + 1] = event /\ \A k \in 1 .. n : c[k] = channel[k]
    BY ONLY <1>2, <1>3, <1>4, <1>5, AppendProperties
  <2> QED
    BY <2>1, LenProperties
<1>7. \A k \in 1 .. n + 1 : k \in 1 .. n \/ k = n + 1
  OBVIOUS
<1>8. TextOrEnd(event)
  <2>1. read # 0 => read \in 1 .. read
    BY <1>1
  <2> QED
    BY <1>4, <2>1 DEF StreamFlow, TextOrEnd
<1>9. Coming' = Coming \cup Going /\ Going' = {}
  <2>1. Going' = {}
    BY <1>4 DEF Going
  <2>2. \A i : (\E k \in 1 .. n + 1 : c[k].text = <<i>>)
                 <=> (\E k \in 1 .. n : channel[k].text = <<i>>) \/ event.text = <<i>>
    <3>1. 1 .. n \subseteq 1 .. n + 1 /\ n + 1 \in 1 .. n + 1
      OBVIOUS
    <3> QED
      BY <1>6, <1>7, <3>1
  <2>3. Coming' = {i \in 1 .. read : \E k \in 1 .. n + 1 : c[k].text = <<i>>}
    BY <1>4, <1>5, <1>6 DEF Coming
  <2>4. Coming = {i \in 1 .. read : \E k \in 1 .. n : channel[k].text = <<i>>}
    BY <1>3 DEF Coming
  <2>5. Going = {i \in 1 .. read : event.text = <<i>>}
    BY <1>4 DEF Going
  <2> QED
    BY ONLY <2>1, <2>2, <2>3, <2>4, <2>5
<1>10. \A k, l \in 1 .. n + 1 : \A i, j \in 1 .. read :
         k < l /\ c[k].text = <<i>> /\ c[l].text = <<j>> => i < j
  <2> SUFFICES ASSUME NEW k \in 1 .. n + 1, NEW l \in 1 .. n + 1,
                      NEW i \in 1 .. read, NEW j \in 1 .. read,
                      k < l, c[k].text = <<i>>, c[l].text = <<j>>
               PROVE  i < j
    OBVIOUS
  <2>1. k \in 1 .. n
    BY <1>3
  <2>2. channel[k].text = <<i>>
    BY <1>6, <2>1
  <2>3. CASE l \in 1 .. n
    <3>1. channel[l].text = <<j>>
      BY <1>6, <2>3
    <3> QED
      BY <1>3, <2>1, <2>2, <2>3, <3>1 DEF StreamFlow, TextInv
  <2>4. CASE l = n + 1
    <3>1. j \in Going
      BY <1>4, <1>6, <2>4 DEF Going
    <3>2. i \in Coming
      BY <1>3, <2>1, <2>2 DEF Coming
    <3> QED
      BY <3>1, <3>2 DEF StreamFlow, TextInv
  <2> QED
    BY <1>7, <2>3, <2>4
<1>11. \A i : Shown(i)' = Shown(i)
  BY <1>4 DEF Shown, IsCall, Leaks
<1>12. TextInv'
  <2>1. /\ content' \in Seq(Nat) /\ Ascending(content')
        /\ \A i \in ToSet(content'), j \in (Coming \cup Going)' : i < j
        /\ \A i \in Coming', j \in Going' : i < j
    BY <1>4, <1>9 DEF StreamFlow, TextInv
  <2>2. \E q \in 0 .. read :
          /\ ~stopped' => q = read'
          /\ (ToSet(content) \cup Coming \cup Going)' = {i \in 1 .. q : Shown(i)'}
    BY <1>4, <1>9, <1>11 DEF StreamFlow, TextInv
  <2>3. DOMAIN channel' = 1 .. n + 1
    BY <1>5, <1>6
  <2> QED
    BY <1>4, <1>5, <1>10, <2>1, <2>2, <2>3 DEF TextInv, Ascending
<1>13. ParserInv'
  BY <1>4 DEF StreamFlow, ParserInv, WholeCalls, IsCall, Leaks, Buffers, Ascending
<1>14. \A k \in DOMAIN channel' : TextOrEnd(channel'[k])
  BY <1>3, <1>5, <1>6, <1>7, <1>8 DEF StreamFlow
<1>15. \A e : TextOrEnd(e)' = TextOrEnd(e)
  <2>1. \A calls : WholeCalls(calls, read)' = WholeCalls(calls, read)
    BY <1>4 DEF WholeCalls, IsCall
  <2>2. \A e : EndsWell(e)' = EndsWell(e)
    BY <1>4, <2>1 DEF EndsWell
  <2> QED
    BY <1>4, <2>2 DEF TextOrEnd, TextEvent
<1> QED
  BY <1>4, <1>12, <1>13, <1>14, <1>15 DEF StreamFlow

(* The text in kiro's hand is dropped, and no more comes.                  *)
LEMMA KiroStopsKeepsFlow ==
  ASSUME StreamFlow, KiroStops
  PROVE  StreamFlow'
<1>1. PICK m \in Nat : m = read
  BY SentLength DEF StreamFlow
<1>2. /\ UNCHANGED <<sent, read, provider, channel, accum, dsmlBuf, content, toolCalls>>
      /\ producer = "send" /\ producer' = "read" /\ ~event.done /\ provider = "kiro"
  BY DEF KiroStops, Quiet, reply, parsed
<1>3. event = TextEvent(m) /\ m # 0 /\ ~stopped
  BY <1>1, <1>2 DEF StreamFlow, EndsWell
<1>4. Going = {m}
  <2>1. \A i : event.text = <<i>> <=> i = m
    BY <1>3, TextFields, OnePosition
  <2>2. m \in 1 .. m
    BY <1>3
  <2>3. Going = {i \in 1 .. m : event.text = <<i>>}
    BY <1>1, <1>2 DEF Going
  <2> QED
    BY ONLY <2>1, <2>2, <2>3
<1>5. Coming' = Coming /\ Going' = {}
  BY <1>2 DEF Coming, Going
<1>6. \A i : Shown(i)' = Shown(i)
  BY <1>2 DEF Shown, IsCall
<1>7. ToSet(content) \cup Coming = {i \in 1 .. m - 1 : Shown(i)}
  <2>1. ToSet(content) \cup Coming \cup {m} = {i \in 1 .. m : Shown(i)}
    BY <1>1, <1>3, <1>4 DEF StreamFlow, TextInv
  <2>2. \A i \in ToSet(content) \cup Coming : i < m
    BY <1>4 DEF StreamFlow, TextInv
  <2>3. ToSet(content) \cup Coming = {i \in 1 .. m : Shown(i)} \ {m}
    BY <1>1, <2>1, <2>2
  <2>4. 1 .. m - 1 = (1 .. m) \ {m}
    BY <1>3
  <2> QED
    BY ONLY <2>3, <2>4
<1>8. TextInv'
  <2>1. m - 1 \in 0 .. m
    BY <1>3
  <2>2. stopped'
    BY DEF KiroStops
  <2>3. \E n \in 0 .. read' :
          /\ ~stopped' => n = read'
          /\ (ToSet(content) \cup Coming \cup Going)' = {i \in 1 .. n : Shown(i)'}
    BY <1>1, <1>2, <1>5, <1>6, <1>7, <2>1, <2>2
  <2>4. /\ content' \in Seq(Nat) /\ Ascending(content')
        /\ \A i \in ToSet(content'), j \in (Coming \cup Going)' : i < j
        /\ \A i \in Coming', j \in Going' : i < j
    BY <1>2, <1>5 DEF StreamFlow, TextInv
  <2>5. \A k, l \in DOMAIN channel' : \A i, j \in 1 .. read' :
          k < l /\ channel'[k].text = <<i>> /\ channel'[l].text = <<j>> => i < j
    BY <1>2 DEF StreamFlow, TextInv
  <2> QED
    BY ONLY <2>3, <2>4, <2>5 DEF TextInv, Ascending
<1>9. ParserInv'
  BY <1>2 DEF StreamFlow, ParserInv, WholeCalls, IsCall, Buffers, Ascending
<1>10. \A e : TextOrEnd(e)' = TextOrEnd(e)
  <2>1. \A calls : WholeCalls(calls, read)' = WholeCalls(calls, read)
    BY <1>2 DEF WholeCalls, IsCall
  <2>2. \A e : EndsWell(e)' = EndsWell(e)
    BY <1>2, <2>1 DEF EndsWell
  <2> QED
    BY <1>2, <2>2 DEF TextOrEnd, TextEvent
<1> QED
  BY <1>2, <1>8, <1>9, <1>10 DEF StreamFlow

(* Run takes the first event of its channel.                               *)
LEMMA Received ==
  ASSUME StreamInv, Receive
  PROVE  \E n \in Nat \ {0} :
           /\ DOMAIN channel = 1 .. n /\ Head(channel) = channel[1]
           /\ DOMAIN channel' = 1 .. n - 1
           /\ \A k \in 1 .. n - 1 : channel'[k] = channel[k + 1]
           /\ \A k \in 1 .. n - 1 : ~channel[k].done
<1>1. PICK S : channel \in Seq(S)
  BY DEF StreamInv
<1>2. PICK n \in Nat : n = Len(channel) /\ DOMAIN channel = 1 .. n
  BY <1>1, LenProperties
<1>3. channel # <<>> /\ n \in Nat \ {0}
  BY <1>1, <1>2, EmptySeq DEF Receive
<1>4. /\ Head(channel) = channel[1] /\ channel' \in Seq(S) /\ Len(channel') = n - 1
      /\ \A k \in 1 .. n - 1 : channel'[k] = channel[k + 1]
  BY <1>1, <1>2, <1>3, HeadTailProperties DEF Receive
<1>5. \A k \in 1 .. n - 1 : ~channel[k].done
  BY <1>2 DEF StreamInv
<1> QED
  BY <1>2, <1>3, <1>4, <1>5, LenProperties

LEMMA ReceiveTextKeepsFlow ==
  ASSUME StreamInv, StreamFlow, Receive, ~Head(channel).done
  PROVE  StreamFlow'
<1>1. PICK n \in Nat \ {0} :
        /\ DOMAIN channel = 1 .. n /\ Head(channel) = channel[1]
        /\ DOMAIN channel' = 1 .. n - 1
        /\ \A k \in 1 .. n - 1 : channel'[k] = channel[k + 1]
  BY Received
<1>2. PICK m \in Nat : m = read
  BY SentLength DEF StreamFlow
<1>3. PICK h \in 1 .. m : channel[1].text = <<h>> /\ channel[1] = TextEvent(h)
  BY <1>1, <1>2, EventText DEF StreamFlow
<1>4. /\ UNCHANGED <<sent, read, provider, stopped, accum, dsmlBuf, producer, event>>
      /\ content' = content \o <<h>> /\ toolCalls' = toolCalls \o <<>>
  <2>1. channel[1].calls = <<>>
    BY <1>3, TextFields
  <2> QED
    BY <1>1, <1>3, <2>1 DEF Receive, wire
<1>5. toolCalls' = <<>>
  BY <1>4 DEF StreamFlow
<1>6. h \in Coming
  BY <1>1, <1>2, <1>3 DEF Coming
<1>7. \A k \in 1 .. n : \A i \in 1 .. m : channel[k].text = <<i>> => (k = 1 /\ i = h) \/ h < i
  <2> SUFFICES ASSUME NEW k \in 1 .. n, NEW i \in 1 .. m, channel[k].text = <<i>>
               PROVE  (k = 1 /\ i = h) \/ h < i
    OBVIOUS
  <2>1. CASE k = 1
    BY <1>3, <2>1, OnePosition
  <2>2. CASE k # 1
    <3>1. 1 \in 1 .. n /\ 1 < k
      BY <2>2
    <3> QED
      BY <1>1, <1>2, <1>3, <3>1 DEF StreamFlow, TextInv
  <2> QED
    BY <2>1, <2>2
<1>8. Coming' = Coming \ {h}
  <2>1. Coming' = {i \in 1 .. m : \E k \in 1 .. n - 1 : channel[k + 1].text = <<i>>}
    BY <1>1, <1>2, <1>4 DEF Coming
  <2>2. Coming = {i \in 1 .. m : \E k \in 1 .. n : channel[k].text = <<i>>}
    BY <1>1, <1>2 DEF Coming
  <2>3. ASSUME NEW i \in 1 .. m
        PROVE  (\E k \in 1 .. n - 1 : channel[k + 1].text = <<i>>)
                 <=> (\E k \in 1 .. n : channel[k].text = <<i>>) /\ i # h
    <3>1. ASSUME NEW k \in 1 .. n - 1, channel[k + 1].text = <<i>>
          PROVE  (\E l \in 1 .. n : channel[l].text = <<i>>) /\ i # h
      <4>1. k + 1 \in 1 .. n /\ k + 1 # 1
        OBVIOUS
      <4>2. h < i
        BY <1>7, <3>1, <4>1
      <4> QED
        BY <3>1, <4>1, <4>2
    <3>2. ASSUME NEW l \in 1 .. n, channel[l].text = <<i>>, i # h
          PROVE  \E k \in 1 .. n - 1 : channel[k + 1].text = <<i>>
      <4>1. l # 1
        BY <1>3, <3>2, OnePosition
      <4>2. l - 1 \in 1 .. n - 1 /\ (l - 1) + 1 = l
        BY <4>1
      <4> QED
        BY <3>2, <4>2
    <3> QED
      BY <3>1, <3>2
  <2> QED
    BY <2>1, <2>2, <2>3
<1>9. Going' = Going
  BY <1>4 DEF Going
<1>10. content' \in Seq(Nat) /\ Ascending(content') /\ ToSet(content') = ToSet(content) \cup {h}
  <2>1. PICK s \in Seq(Nat) : s = content /\ Ascending(s)
    BY DEF StreamFlow, TextInv
  <2>2. h \in Nat /\ \A i \in ToSet(s) : i < h
    BY <1>6, <2>1 DEF StreamFlow, TextInv
  <2>3. content' = Append(s, h)
    BY <1>4, <2>1, <2>2, AppendIsConcat
  <2> QED
    BY <2>1, <2>2, <2>3, AppendAscending
<1>11. \A i : Shown(i)' = Shown(i)
  BY <1>4 DEF Shown, IsCall, Leaks
<1>12. \A i \in Coming : i = h \/ h < i
  BY <1>1, <1>2, <1>7 DEF Coming
<1>13. \A k, l \in 1 .. n - 1 : \A i, j \in 1 .. read :
         k < l /\ channel'[k].text = <<i>> /\ channel'[l].text = <<j>> => i < j
  <2> SUFFICES ASSUME NEW k \in 1 .. n - 1, NEW l \in 1 .. n - 1,
                      NEW i \in 1 .. read, NEW j \in 1 .. read,
                      k < l, channel'[k].text = <<i>>, channel'[l].text = <<j>>
               PROVE  i < j
    OBVIOUS
  <2>1. channel[k + 1].text = <<i>> /\ channel[l + 1].text = <<j>>
    BY <1>1
  <2>2. k + 1 \in 1 .. n /\ l + 1 \in 1 .. n /\ k + 1 < l + 1
    OBVIOUS
  <2> QED
    BY <1>1, <2>1, <2>2 DEF StreamFlow, TextInv
<1>14. TextInv'
  <2>1. (ToSet(content) \cup Coming \cup Going)' = ToSet(content) \cup Coming \cup Going
    BY <1>6, <1>8, <1>9, <1>10
  <2>2. \E q \in 0 .. read' :
          /\ ~stopped' => q = read'
          /\ (ToSet(content) \cup Coming \cup Going)' = {i \in 1 .. q : Shown(i)'}
    BY <1>4, <1>11, <2>1 DEF StreamFlow, TextInv
  <2>3. \A i \in ToSet(content'), j \in (Coming \cup Going)' : i < j
    <3>1. \A i \in ToSet(content), j \in Coming \cup Going : i < j
      BY DEF StreamFlow, TextInv
    <3>2. \A j \in Going : h < j
      BY <1>6 DEF StreamFlow, TextInv
    <3> QED
      BY <1>8, <1>9, <1>10, <1>12, <3>1, <3>2
  <2>4. \A i \in Coming', j \in Going' : i < j
    BY <1>8, <1>9 DEF StreamFlow, TextInv
  <2> QED
    BY <1>1, <1>4, <1>10, <1>13, <2>2, <2>3, <2>4 DEF TextInv, Ascending
<1>15. ParserInv'
  BY <1>4 DEF StreamFlow, ParserInv, WholeCalls, IsCall, Leaks, Buffers, Ascending
<1>16. \A e : TextOrEnd(e)' = TextOrEnd(e) /\ EndsWell(e)' = EndsWell(e)
  <2>1. \A calls : WholeCalls(calls, read)' = WholeCalls(calls, read)
    BY <1>4 DEF WholeCalls, IsCall
  <2>2. \A e : EndsWell(e)' = EndsWell(e)
    BY <1>4, <2>1 DEF EndsWell
  <2> QED
    BY <1>4, <2>2 DEF TextOrEnd, TextEvent
<1>17. \A k \in DOMAIN channel' : TextOrEnd(channel'[k])
  <2> SUFFICES ASSUME NEW k \in 1 .. n - 1 PROVE TextOrEnd(channel'[k])
    BY <1>1
  <2>1. k + 1 \in 1 .. n /\ channel'[k] = channel[k + 1]
    BY <1>1
  <2> QED
    BY <1>1, <2>1 DEF StreamFlow
<1>18. event' = TextEvent(read)' <=> event = TextEvent(read)
  BY <1>4 DEF TextEvent
<1> QED
  BY <1>4, <1>5, <1>14, <1>15, <1>16, <1>17, <1>18 DEF StreamFlow

(* At Done nothing is on its way, so that run has all of the text.         *)
LEMMA ReceiveEnd ==
  ASSUME StreamInv, StreamFlow, Receive, Head(channel).done
  PROVE  AnswerIsWhole'
<1>1. PICK n \in Nat \ {0} :
        /\ DOMAIN channel = 1 .. n /\ Head(channel) = channel[1]
        /\ \A k \in 1 .. n - 1 : ~channel[k].done
  BY Received
<1>2. PICK m \in Nat : m = read
  BY SentLength DEF StreamFlow
<1>3. PICK e : e = channel[1] /\ e.done /\ EndsWell(e) /\ e.text = <<>>
  BY <1>1, EventText DEF StreamFlow
<1>4. n = 1
  BY <1>1, <1>3
<1>5. producer = "ended"
  BY <1>1, <1>3, InnerNotDone
<1>6. Coming = {} /\ Going = {}
  <2>1. \A k \in DOMAIN channel : channel[k].text = <<>>
    BY <1>1, <1>3, <1>4
  <2> QED
    BY <1>5, <2>1, OnePosition DEF Coming, Going
<1>7. /\ UNCHANGED <<sent, read, provider>>
      /\ content' = content \o <<>> /\ toolCalls' = toolCalls \o e.calls
      /\ outcome' = IF e.reason \in Normal THEN "answered" ELSE "failed"
  BY <1>1, <1>3 DEF Receive, wire, EndRunWith
<1>8. SUFFICES ASSUME e.reason \in Normal PROVE AnswerIsWhole'
  BY <1>7 DEF AnswerIsWhole
<1>9. PICK calls \in Seq(Seq(Nat)) : calls = e.calls /\ WholeCalls(calls, m)
  BY <1>2, <1>3, <1>8 DEF EndsWell
<1>10. provider # "kiro" => m = Len(sent)
  BY <1>2, <1>3, <1>8 DEF EndsWell
<1>11. toolCalls' = calls
  BY <1>7, <1>9 DEF StreamFlow
<1>12. content' = content
  <2>1. content \in Seq(Nat)
    BY DEF StreamFlow, TextInv
  <2> QED
    BY <1>7, <2>1
<1>13. PICK q \in 0 .. m : /\ ~stopped => q = m
                          /\ ToSet(content) = {i \in 1 .. q : Shown(i)}
  BY <1>2, <1>6 DEF StreamFlow, TextInv
<1>14. /\ q \in 0 .. Len(sent) /\ m \in 0 .. Len(sent) /\ q <= m
       /\ provider # "kiro" => q = Len(sent)
  BY <1>2, <1>10, <1>13, SentLength DEF StreamFlow
<1>15. Ascending(content)
  BY DEF StreamFlow, TextInv
<1>16. /\ \A i : Shown(i)' = Shown(i)
       /\ WholeCalls(calls, m)' = WholeCalls(calls, m)
       /\ Ascending(content)' = Ascending(content)
  BY <1>7, <1>12 DEF Shown, WholeCalls, IsCall, Leaks, Ascending
<1>17. WholeCalls(toolCalls, m)' = WholeCalls(calls, m)
  BY <1>7, <1>11 DEF WholeCalls, IsCall
<1> QED
  BY <1>7, <1>9, <1>12, <1>13, <1>14, <1>15, <1>16, <1>17 DEF AnswerIsWhole

(* A new attempt begins with nothing of the one before.                    *)
LEMMA BeginMakesFlow ==
  ASSUME StreamInv, Ask, NEW a \in Answers, Begin(a)
  PROVE  StreamFlow'
<1>1. /\ sent' = a /\ read' = 0 /\ accum' = <<>> /\ dsmlBuf' = <<>> /\ ~stopped'
      /\ content' = <<>> /\ toolCalls' = <<>> /\ channel' = <<>> /\ producer' # "send"
  BY DEF Ask, Begin, StreamInv
<1>2. Len(a) \in Nat
  BY StreamAssumption, LenProperties
<1>3. DOMAIN channel' = {} /\ 0 \in 0 .. Len(a) /\ 0 \in 0 .. 0 /\ 1 .. 0 = {}
  BY <1>1, <1>2
<1>4. PICK none : none = <<>> /\ DOMAIN none = {} /\ none \in Seq(Nat) /\ none \in Seq(Seq(Nat))
  <2>1. <<>> \in Seq(Nat) /\ <<>> \in Seq(Seq(Nat)) /\ DOMAIN <<>> = {}
    BY EmptySeq
  <2> QED
    BY ONLY <2>1
<1>5. ToSet(none) = {} /\ Parts(none) = {} /\ Ascending(none)
  BY ONLY <1>4 DEF ToSet, Parts, Ascending
<1>6. Coming' = {} /\ Going' = {}
  BY <1>1, <1>3 DEF Coming, Going
<1>7. TextInv'
  <2>1. content' = none /\ ToSet(content') = {} /\ Ascending(content)'
    BY <1>1, <1>4, <1>5
  <2> QED
    BY <1>1, <1>3, <1>4, <1>6, <2>1 DEF TextInv
<1>8. WholeCalls(accum, read)'
  <2>1. accum' = none /\ DOMAIN none = {} /\ Parts(accum') = {} /\ 1 .. read' = {}
    BY <1>1, <1>3, <1>4, <1>5
  <2> QED
    BY ONLY <2>1 DEF WholeCalls
<1>9. ParserInv'
  <2>1. accum' = none /\ dsmlBuf' = none /\ ToSet(dsmlBuf') = {} /\ Ascending(dsmlBuf)' /\ 1 .. read' = {}
    BY <1>1, <1>3, <1>4, <1>5
  <2> QED
    BY <1>4, <1>8, <2>1 DEF ParserInv
<1> QED
  BY <1>1, <1>3, <1>7, <1>9 DEF StreamFlow

LEMMA AnswerStep == AnswerInv /\ [StreamNext]_streamVars => AnswerInv'
<1> SUFFICES ASSUME AnswerInv, [StreamNext]_streamVars PROVE AnswerInv'
  OBVIOUS
<1>1. StreamInv /\ StreamInv'
  BY StreamStep DEF AnswerInv
<1>2. ASSUME UNCHANGED <<consumer, outcome>>, producer \notin {"none", "ended"},
             StreamFlow => StreamFlow'
      PROVE  AnswerInv'
  <2>1. consumer = "stream" /\ outcome # "answered"
    BY <1>1, <1>2 DEF AnswerInv, StreamInv
  <2> QED
    BY <1>1, <1>2, <2>1 DEF AnswerInv, AnswerIsWhole
<1>3. CASE KiroRequest \/ ReadItem \/ KiroStops \/ ReadEnd \/ Drop \/ Break \/ Deliver
  <2>1. UNCHANGED <<consumer, outcome>> /\ producer \in {"request", "read", "send"}
    BY <1>3 DEF KiroRequest, ReadItem, KiroStops, ReadEnd, Drop, Break, Deliver, Quiet
  <2>2. StreamFlow => StreamFlow'
    BY <1>1, <1>3, ReadKeepsFlow, ParseEndKeepsFlow, KiroStopsKeepsFlow, DeliverKeepsFlow
  <2> QED
    BY <1>2, <2>1, <2>2
<1>4. ASSUME consumer # "ended", outcome' = outcome \/ outcome' \in {"failed", "interrupted"},
             consumer' = "stream" => StreamFlow'
      PROVE  AnswerInv'
  BY <1>1, <1>4 DEF AnswerInv, AnswerIsWhole
<1>5. CASE Ask
  <2>1. consumer = "ask" /\ (outcome' = outcome \/ outcome' \in {"failed", "interrupted"})
    BY <1>5 DEF Ask, EndRunWith, RetryLater, Begin
  <2>2. consumer' = "stream" => \E a \in Answers : Begin(a)
    BY <1>5, <2>1 DEF Ask, EndRunWith, RetryLater
  <2> QED
    BY <1>1, <1>4, <1>5, <2>1, <2>2, BeginMakesFlow
<1>6. CASE Receive
  <2>1. consumer = "stream" /\ StreamFlow
    BY <1>6 DEF Receive, AnswerInv
  <2>2. CASE Head(channel).done
    <3>1. consumer' = "ended"
      BY <1>6, <2>2 DEF Receive, EndRunWith
    <3> QED
      BY <1>1, <1>6, <2>1, <2>2, <3>1, ReceiveEnd DEF AnswerInv
  <2>3. CASE ~Head(channel).done
    <3>1. UNCHANGED <<consumer, outcome>>
      BY <1>6, <2>3 DEF Receive
    <3>2. StreamFlow'
      BY <1>1, <1>6, <2>1, <2>3, ReceiveTextKeepsFlow
    <3> QED
      BY <1>4, <2>1, <3>1, <3>2
  <2> QED
    BY <2>2, <2>3
<1>7. CASE Closed \/ Countdown
  <2>1. /\ consumer # "ended" /\ consumer' # "stream"
        /\ outcome' = outcome \/ outcome' \in {"failed", "interrupted"}
    BY <1>7 DEF Closed, Countdown, EndRunWith, RetryLater
  <2> QED
    BY <1>4, <2>1
<1>8. CASE CancelStream \/ UNCHANGED streamVars
  <2>1. UNCHANGED <<sent, read, provider, producer, event, stopped, accum, dsmlBuf, channel,
                    consumer, content, toolCalls, outcome>>
    BY <1>8 DEF CancelStream, streamVars, wire, reply
  <2>2. \A calls, m : WholeCalls(calls, m)' = WholeCalls(calls, m)
    BY <2>1 DEF WholeCalls, IsCall
  <2>3. WholeCalls(accum, read)' = WholeCalls(accum, read)
    BY <2>1 DEF WholeCalls, IsCall
  <2>4. \A e : EndsWell(e)' = EndsWell(e)
    BY <2>1, <2>2 DEF EndsWell
  <2>5. \A e : TextOrEnd(e)' = TextOrEnd(e)
    BY <2>1, <2>4 DEF TextOrEnd, TextEvent
  <2>6. ParserInv' = ParserInv
    BY <2>1, <2>3 DEF ParserInv, IsCall, Leaks, Buffers, Ascending
  <2>7. \A i : Shown(i)' = Shown(i)
    BY <2>1 DEF Shown, IsCall, Leaks
  <2>8. Coming' = Coming /\ Going' = Going
    BY <2>1 DEF Coming, Going
  <2>9. TextInv => TextInv'
    BY <2>1, <2>7, <2>8 DEF TextInv, Ascending
  <2>10. StreamFlow => StreamFlow'
    <3>1. event' = TextEvent(read)' <=> event = TextEvent(read)
      BY <2>1 DEF TextEvent
    <3> QED
      BY <2>1, <2>4, <2>5, <2>6, <2>9, <3>1 DEF StreamFlow
  <2>11. AnswerIsWhole => AnswerIsWhole'
    <3>1. \A m : WholeCalls(toolCalls, m)' = WholeCalls(toolCalls, m)
      BY <2>1 DEF WholeCalls, IsCall
    <3> QED
      BY <2>1, <2>7, <3>1 DEF AnswerIsWhole, Ascending
  <2> QED
    BY <1>1, <2>1, <2>10, <2>11 DEF AnswerInv
<1> QED
  BY <1>3, <1>5, <1>6, <1>7, <1>8 DEF StreamNext, Produce, Consume

(* The answer that run accepts from a backend (loop.go:98-177) is all of   *)
(* what its last attempt sent: the text in order, nothing of an attempt    *)
(* that broke off, and every structured call once with its own fragments,  *)
(* whichever parser made it and whenever the context was cancelled.  Calls *)
(* that leak as markup are excluded but for this: they make at most one    *)
(* call, and none beside a structured one (openai.go:384).                 *)
THEOREM AnswersWhole == StreamSpec => []AnswerIsWhole
<1>1. StreamInit => AnswerInv
  BY InitStream DEF StreamInit, AnswerInv, AnswerIsWhole
<1>2. AnswerInv => AnswerIsWhole
  BY DEF AnswerInv
<1> QED
  BY <1>1, <1>2, AnswerStep, PTL DEF StreamSpec


-----------------------------------------------------------------------------
(* AsyncLog.                                                               *)

(* Appending to the second of two sequences appends to their concatenation. *)
LEMMA AppendToConcat ==
  ASSUME NEW S, NEW a \in Seq(S), NEW b \in Seq(S), NEW x \in S
  PROVE  a \o Append(b, x) = Append(a \o b, x)
<1>1. <<x>> \in Seq(S)
  OBVIOUS
<1>2. PICK d \in Seq(S) : d = <<x>>
  BY <1>1
<1>3. Append(b, x) = b \o d
  BY ONLY <1>2, b \in Seq(S), x \in S, AppendIsConcat
<1>4. a \o b \in Seq(S)
  BY ConcatProperties
<1>5. Append(a \o b, x) = (a \o b) \o d
  BY ONLY <1>2, <1>4, x \in S, AppendIsConcat
<1>6. (a \o b) \o d = a \o (b \o d)
  BY ConcatAssociative
<1> QED
  BY ONLY <1>3, <1>5, <1>6

(* The messages an output was given, written or not.                       *)
Logged(o) == sink[o] \o ch[o]
Lists(s, m) == \E i \in 1 .. Len(s) : s[i] = m
InOrder(s) == \A i, j \in 1 .. Len(s) : i < j /\ s[i][1] = s[j][1] => s[i][2] < s[j][2]

HasReturned(l, n) == 1 <= n /\ (n < number[l] \/ (n = number[l] /\ logging[l] = "none"))

LogTypeOK ==
  /\ number \in [Loggers -> 0 .. MaxMessages]
  /\ logging \in [Loggers -> Outs \cup {"none", "panicked"}]
  /\ ch \in [Outs -> Seq(Loggers \X Nat)] /\ sink \in [Outs -> Seq(Loggers \X Nat)]
  /\ flushed \in 0 .. Len(Outputs)

LogInv ==
  /\ LogTypeOK
  /\ \A l \in Loggers : logging[l] # "none" => number[l] # 0
  /\ \A o \in done : o \in closed /\ o \in Outs /\ ch[o] = <<>>
  /\ \A k \in 1 .. flushed : Outputs[k] \in done
  /\ \A o \in Outs : InOrder(Logged(o))
  /\ \A l \in Loggers : \A n \in Nat :
       HasReturned(l, n) <=> \E o \in Outs : Lists(Logged(o), <<l, n>>)

LEMMA OutputsKnown ==
  /\ Outs \subseteq {"out", "errout"} /\ Len(Outputs) \in Nat
  /\ \A k \in 1 .. Len(Outputs) : Outputs[k] \in Outs
  /\ \A o \in Outs : \E k \in 1 .. Len(Outputs) : Outputs[k] = o
<1>1. DOMAIN Outputs = 1 .. Len(Outputs) /\ Len(Outputs) \in Nat
      /\ \A k \in 1 .. Len(Outputs) : Outputs[k] \in {"out", "errout"}
  BY LogAssumption, LenProperties, ElementOfSeq
<1> QED
  BY <1>1 DEF Outs, ToSet

LEMMA LoggedSequence ==
  ASSUME LogTypeOK, NEW o \in Outs
  PROVE  /\ sink[o] \in Seq(Loggers \X Nat) /\ ch[o] \in Seq(Loggers \X Nat)
         /\ Logged(o) \in Seq(Loggers \X Nat)
         /\ Len(Logged(o)) \in Nat /\ Len(sink[o]) \in Nat /\ Len(ch[o]) \in Nat
         /\ Len(Logged(o)) = Len(sink[o]) + Len(ch[o])
         /\ \A i \in 1 .. Len(sink[o]) : i \in 1 .. Len(Logged(o)) /\ Logged(o)[i] = sink[o][i]
<1>1. sink[o] \in Seq(Loggers \X Nat) /\ ch[o] \in Seq(Loggers \X Nat)
  BY DEF LogTypeOK
<1>2. PICK a \in Seq(Loggers \X Nat) : a = sink[o]
  BY <1>1
<1>3. PICK b \in Seq(Loggers \X Nat) : b = ch[o]
  BY <1>1
<1>4. PICK s : s = a \o b
  OBVIOUS
<1>5. Len(a) \in Nat /\ Len(b) \in Nat
  BY LenProperties
<1>6. s \in Seq(Loggers \X Nat) /\ Len(s) = Len(a) + Len(b)
      /\ \A i \in 1 .. Len(a) + Len(b) : s[i] = IF i <= Len(a) THEN a[i] ELSE b[i - Len(a)]
  BY <1>4, ConcatProperties
<1>7. /\ Len(s) \in Nat
      /\ \A i \in 1 .. Len(a) : i \in 1 .. Len(s) /\ s[i] = a[i]
  BY <1>5, <1>6
<1>8. s = Logged(o)
  BY <1>2, <1>3, <1>4 DEF Logged
<1> QED
  BY ONLY <1>1, <1>2, <1>3, <1>5, <1>6, <1>7, <1>8

LEMMA InitLog == LogInit => LogInv
<1> SUFFICES ASSUME LogInit PROVE LogInv
  OBVIOUS
<1> USE OutputsKnown, LogAssumption DEF LogInit
<1>1. <<>> \in Seq(Loggers \X Nat) /\ Len(<<>>) = 0
  BY EmptySeq
<1>2. LogTypeOK
  BY <1>1 DEF LogTypeOK
<1>3. \A o \in Outs : Len(Logged(o)) = 0
  BY <1>1, <1>2, LoggedSequence
<1>4. \A o \in Outs : InOrder(Logged(o)) /\ \A m : ~Lists(Logged(o), m)
  BY <1>3 DEF InOrder, Lists
<1>5. \A l \in Loggers : \A n \in Nat : ~HasReturned(l, n)
  BY DEF HasReturned
<1> QED
  BY <1>2, <1>4, <1>5 DEF LogInv

(* A logger sends its latest message after its earlier ones.               *)
LEMMA SendKeepsLog ==
  ASSUME LogInv, NEW l \in Loggers, SendMessage(l)
  PROVE  LogInv'
<1> USE OutputsKnown
<1>1. PICK o \in Outs : o = logging[l]
  BY DEF SendMessage
<1>2. PICK n \in Nat : n = number[l] /\ n # 0
  BY <1>1, LogAssumption DEF LogInv, LogTypeOK
<1>3. UNCHANGED <<closed, sink, done, number, flushed>>
  BY DEF SendMessage
<1>4. LogTypeOK
  BY DEF LogInv
<1>5. CASE o \in closed
  <2>1. UNCHANGED ch /\ logging' = [logging EXCEPT ![l] = "panicked"]
    BY <1>1, <1>5 DEF SendMessage
  <2>2. LogTypeOK'
    BY <1>3, <1>4, <2>1 DEF LogTypeOK
  <2>3. \A k \in Loggers : \A j \in Nat : HasReturned(k, j)' <=> HasReturned(k, j)
    BY <1>1, <1>3, <1>4, <2>1 DEF HasReturned, LogTypeOK
  <2>4. \A p \in Outs : Logged(p)' = Logged(p)
    BY <1>3, <2>1 DEF Logged
  <2>5. \A k \in Loggers : logging'[k] # "none" => number'[k] # 0
    BY <1>2, <1>3, <1>4, <2>1 DEF LogInv, LogTypeOK
  <2> QED
    BY <1>3, <2>1, <2>2, <2>3, <2>4, <2>5 DEF LogInv
<1>6. CASE o \notin closed
  <2>1. ch' = [ch EXCEPT ![o] = Append(ch[o], <<l, n>>)]
        /\ logging' = [logging EXCEPT ![l] = "none"]
    BY <1>1, <1>2, <1>6 DEF SendMessage
  <2>2. <<l, n>> \in Loggers \X Nat
    BY <1>2
  <2>3. LogTypeOK'
    <3>1. Append(ch[o], <<l, n>>) \in Seq(Loggers \X Nat)
      BY <1>4, <2>2, LoggedSequence, AppendProperties
    <3> QED
      BY <1>3, <1>4, <2>1, <3>1 DEF LogTypeOK
  <2>4. \A p \in Outs : p # o => Logged(p)' = Logged(p)
    BY <1>3, <1>4, <2>1 DEF Logged, LogTypeOK
  <2>5. PICK s \in Seq(Loggers \X Nat) : s = Logged(o)
    BY <1>4, LoggedSequence
  <2>6. PICK t : t = Logged(o)'
    OBVIOUS
  <2>7. t = Append(s, <<l, n>>)
    <3>1. PICK S : S = Loggers \X Nat
      OBVIOUS
    <3>2. sink[o] \in Seq(S) /\ ch[o] \in Seq(S) /\ <<l, n>> \in S
      BY <1>4, <2>2, <3>1, LoggedSequence
    <3>3. PICK a \in Seq(S) : a = sink[o]
      BY ONLY <3>2
    <3>4. PICK b \in Seq(S) : b = ch[o]
      BY ONLY <3>2
    <3>5. PICK e \in S : e = <<l, n>>
      BY ONLY <3>2
    <3>6. t = a \o Append(b, e)
      BY <1>3, <1>4, <2>1, <2>6, <3>3, <3>4, <3>5 DEF Logged, LogTypeOK
    <3>7. s = a \o b
      BY <2>5, <3>3, <3>4 DEF Logged
    <3>8. a \in Seq(S) /\ b \in Seq(S) /\ e \in S
      BY <3>3, <3>4, <3>5
    <3>9. a \o Append(b, e) = Append(a \o b, e)
      BY ONLY <3>8, AppendToConcat
    <3> QED
      BY ONLY <3>5, <3>6, <3>7, <3>9
  <2>8. PICK c \in Nat : c = Len(s)
    BY LenProperties
  <2>9. Len(t) = c + 1 /\ t[c + 1] = <<l, n>> /\ \A i \in 1 .. c : t[i] = s[i]
    BY <2>2, <2>7, <2>8, AppendProperties
  <2>10. \A i \in 1 .. c : s[i] \in Loggers \X Nat
    BY <2>8, ElementOfSeq
  <2>11. \A i \in 1 .. c : s[i][1] = l => s[i][2] < n
    <3> SUFFICES ASSUME NEW i \in 1 .. c, s[i][1] = l PROVE s[i][2] < n
      OBVIOUS
    <3>0. \E k \in Loggers, j \in Nat : s[i] = <<k, j>>
      BY ONLY <2>10, i \in 1 .. c
    <3>1. PICK j \in Nat : s[i] = <<l, j>>
      BY ONLY <3>0, s[i][1] = l
    <3>2. Lists(Logged(o), <<l, j>>)
      BY <2>5, <2>8, <3>1 DEF Lists
    <3>3. HasReturned(l, j)
      BY <3>2 DEF LogInv
    <3>4. logging[l] # "none"
      BY <1>1
    <3>5. j < n
      BY <1>2, <3>3, <3>4 DEF HasReturned
    <3> QED
      BY <3>1, <3>5
  <2>12. InOrder(t)
    <3> SUFFICES ASSUME NEW i \in 1 .. c + 1, NEW j \in 1 .. c + 1, i < j, t[i][1] = t[j][1]
                 PROVE  t[i][2] < t[j][2]
      BY <2>9 DEF InOrder
    <3>4. i \in 1 .. c
      BY ONLY c \in Nat, i \in 1 .. c + 1, j \in 1 .. c + 1, i < j
    <3>1. i \in 1 .. c /\ t[i] = s[i]
      BY <2>9, <3>4
    <3>2. CASE j = c + 1
      BY <2>9, <2>11, <3>1, <3>2
    <3>3. CASE j \in 1 .. c
      <4>1. InOrder(s)
        BY <2>5 DEF LogInv
      <4>2. t[j] = s[j]
        BY <2>9, <3>3
      <4> QED
        BY <2>8, <3>1, <3>3, <4>1, <4>2 DEF InOrder
    <3> QED
      BY <3>2, <3>3
  <2>13. \A p \in Outs : InOrder(Logged(p))'
    <3>1. \A p \in Outs : p # o => InOrder(Logged(p)')
      BY <2>4 DEF LogInv
    <3>2. InOrder(Logged(o)')
      BY <2>6, <2>12
    <3> QED
      BY <3>1, <3>2 DEF InOrder
  <2>14. \A m : Lists(t, m) <=> Lists(s, m) \/ m = <<l, n>>
    <3>1. \A i \in 1 .. c + 1 : i \in 1 .. c \/ i = c + 1
      OBVIOUS
    <3>2. 1 .. c \subseteq 1 .. c + 1 /\ c + 1 \in 1 .. c + 1
      OBVIOUS
    <3> QED
      BY ONLY <2>8, <2>9, <3>1, <3>2, Zenon DEF Lists
  <2>15. \A k \in Loggers : \A j \in Nat :
           HasReturned(k, j)' <=> HasReturned(k, j) \/ (k = l /\ j = n)
    <3>1. \A k \in Loggers : k # l => logging'[k] = logging[k]
      BY <1>4, <2>1 DEF LogTypeOK
    <3>2. logging'[l] = "none" /\ logging[l] # "none"
      BY <1>1, <1>4, <2>1 DEF LogTypeOK
    <3> QED
      BY <1>2, <1>3, <3>1, <3>2 DEF HasReturned
  <2>16. \A k \in Loggers : \A j \in Nat :
           HasReturned(k, j)' <=> \E p \in Outs : Lists(Logged(p)', <<k, j>>)
    <3> SUFFICES ASSUME NEW k \in Loggers, NEW j \in Nat
                 PROVE  HasReturned(k, j)' <=> \E p \in Outs : Lists(Logged(p)', <<k, j>>)
      OBVIOUS
    <3>1. HasReturned(k, j) <=> \E p \in Outs : Lists(Logged(p), <<k, j>>)
      BY DEF LogInv
    <3>2. <<k, j>> = <<l, n>> <=> k = l /\ j = n
      OBVIOUS
    <3>3. Lists(Logged(o)', <<k, j>>) <=> Lists(Logged(o), <<k, j>>) \/ (k = l /\ j = n)
      BY <2>5, <2>6, <2>14, <3>2
    <3>4. \A p \in Outs : p # o => (Lists(Logged(p)', <<k, j>>) <=> Lists(Logged(p), <<k, j>>))
      BY <2>4
    <3>5. HasReturned(k, j)' <=> HasReturned(k, j) \/ (k = l /\ j = n)
      BY <2>15
    <3> QED
      BY ONLY <3>1, <3>3, <3>4, <3>5, o \in Outs, Zenon
  <2>17. \A k \in Loggers : logging'[k] # "none" => number'[k] # 0
    BY <1>3, <1>4, <2>1 DEF LogInv, LogTypeOK
  <2>18. \A p \in done' : p \in closed' /\ p \in Outs /\ ch'[p] = <<>>
    BY <1>3, <1>4, <1>6, <2>1 DEF LogInv, LogTypeOK
  <2>19. \A k \in Loggers : \A j \in Nat :
           HasReturned(k, j)' <=> \E p \in Outs : Lists(Logged(p), <<k, j>>)'
    BY <2>16 DEF Lists
  <2> QED
    BY <1>3, <2>3, <2>13, <2>17, <2>18, <2>19 DEF LogInv
<1> QED
  BY <1>5, <1>6


(* The goroutine of an output takes from the buffer what it adds to the    *)
(* file.                                                                   *)
LEMMA WriteOutMoves ==
  ASSUME LogTypeOK, NEW o \in Outs, WriteOut(o)
  PROVE  /\ LogTypeOK'
         /\ \A p \in Outs : Logged(p)' = Logged(p)
         /\ \A p \in Outs : ch[p] = <<>> => ch'[p] = <<>>
<1>1. PICK a \in Seq(Loggers \X Nat) : a = sink[o]
  BY LoggedSequence
<1>2. PICK b \in Seq(Loggers \X Nat) : b = ch[o]
  BY LoggedSequence
<1>3. /\ b # <<>> /\ UNCHANGED <<closed, done, logging, number, flushed>>
      /\ sink' = [sink EXCEPT ![o] = Append(a, Head(b))] /\ ch' = [ch EXCEPT ![o] = Tail(b)]
  BY <1>1, <1>2 DEF WriteOut
<1>4. /\ Head(b) \in Loggers \X Nat /\ Tail(b) \in Seq(Loggers \X Nat)
      /\ Append(a, Head(b)) \in Seq(Loggers \X Nat)
      /\ <<Head(b)>> \in Seq(Loggers \X Nat)
  BY <1>3, HeadTailProperties, AppendProperties
<1>5. LogTypeOK'
  BY <1>3, <1>4 DEF LogTypeOK
<1>6. sink'[o] = Append(a, Head(b)) /\ ch'[o] = Tail(b)
      /\ \A p \in Outs : p # o => sink'[p] = sink[p] /\ ch'[p] = ch[p]
  BY <1>3 DEF LogTypeOK
<1>7. Append(a, Head(b)) \o Tail(b) = a \o b
  <2>1. PICK h \in Loggers \X Nat : h = Head(b)
    BY <1>4
  <2>2. PICK t \in Seq(Loggers \X Nat) : t = Tail(b)
    BY <1>4
  <2>3. Append(a, h) = a \o <<h>> /\ <<h>> \in Seq(Loggers \X Nat)
    BY <1>4, <2>1, AppendIsConcat
  <2>4. (a \o <<h>>) \o t = a \o (<<h>> \o t)
    BY <2>3, ConcatAssociative
  <2>5. <<h>> \o t = b
    BY <1>3, <2>1, <2>2
  <2> QED
    BY ONLY <2>1, <2>2, <2>3, <2>4, <2>5
<1>8. \A p \in Outs : Logged(p)' = Logged(p)
  BY <1>1, <1>2, <1>6, <1>7 DEF Logged
<1>9. \A p \in Outs : ch[p] = <<>> => ch'[p] = <<>>
  BY <1>2, <1>3, <1>6
<1> QED
  BY <1>5, <1>8, <1>9

LEMMA LogStep == LogInv /\ [LogNext]_logVars => LogInv'
<1> SUFFICES ASSUME LogInv, [LogNext]_logVars PROVE LogInv'
  OBVIOUS
<1> USE OutputsKnown
<1>1. LogTypeOK
  BY DEF LogInv
<1>2. ASSUME LogTypeOK', UNCHANGED closed, done \subseteq done',
             \A o \in done' \ done : o \in closed /\ o \in Outs /\ ch'[o] = <<>>,
             \A o \in Outs : ch[o] = <<>> => ch'[o] = <<>>,
             \A k \in 1 .. flushed' : Outputs[k] \in done',
             \A o \in Outs : Logged(o)' = Logged(o),
             \A l \in Loggers : \A n \in Nat : HasReturned(l, n)' <=> HasReturned(l, n),
             \A l \in Loggers : logging'[l] # "none" => number'[l] # 0
      PROVE  LogInv'
  <2>1. \A o \in Outs : InOrder(Logged(o))'
    BY <1>2 DEF LogInv
  <2>2. \A l \in Loggers : \A n \in Nat :
           HasReturned(l, n)' <=> \E o \in Outs : Lists(Logged(o), <<l, n>>)'
    BY <1>2 DEF LogInv
  <2>3. \A o \in done' : o \in closed' /\ o \in Outs /\ ch'[o] = <<>>
    BY <1>2 DEF LogInv
  <2> QED
    BY <1>2, <2>1, <2>2, <2>3 DEF LogInv
<1>3. ASSUME UNCHANGED <<logging, number>>
      PROVE  /\ \A l \in Loggers : \A n \in Nat : HasReturned(l, n)' <=> HasReturned(l, n)
             /\ \A l \in Loggers : logging'[l] # "none" => number'[l] # 0
  BY <1>3 DEF HasReturned, LogInv
<1>4. ASSUME UNCHANGED <<ch, sink>> PROVE \A o \in Outs : Logged(o)' = Logged(o)
  BY <1>4 DEF Logged
<1>5. CASE UNCHANGED logVars
  <2>1. UNCHANGED <<ch, closed, sink, done, logging, number, flushed>>
    BY <1>5 DEF logVars
  <2>2. LogTypeOK' /\ \A k \in 1 .. flushed' : Outputs[k] \in done'
    BY <2>1 DEF LogTypeOK, LogInv
  <2> QED
    BY <1>2, <1>3, <1>4, <2>1, <2>2
<1>6. ASSUME NEW l \in Loggers, Emit(l) PROVE LogInv'
  <2>1. PICK o \in Outs : logging' = [logging EXCEPT ![l] = o]
    BY <1>6 DEF Emit
  <2>2. /\ logging[l] = "none" /\ number[l] < MaxMessages
        /\ number' = [number EXCEPT ![l] = number[l] + 1]
        /\ UNCHANGED <<ch, closed, sink, done, flushed>>
    BY <1>6 DEF Emit
  <2>3. LogTypeOK' /\ \A k \in 1 .. flushed' : Outputs[k] \in done'
    BY <1>1, <2>1, <2>2, LogAssumption DEF LogTypeOK, LogInv
  <2>4. \A k \in Loggers : logging'[k] # "none" => number'[k] # 0
    BY <1>1, <2>1, <2>2 DEF LogTypeOK, LogInv
  <2>5. /\ number[l] \in Nat /\ number'[l] = number[l] + 1 /\ logging'[l] # "none"
        /\ \A k \in Loggers : k # l => number'[k] = number[k] /\ logging'[k] = logging[k]
    BY <1>1, <2>1, <2>2 DEF LogTypeOK
  <2>6. \A k \in Loggers : \A n \in Nat : HasReturned(k, n)' <=> HasReturned(k, n)
    <3> SUFFICES ASSUME NEW k \in Loggers, NEW n \in Nat
                 PROVE  HasReturned(k, n)' <=> HasReturned(k, n)
      OBVIOUS
    <3>1. CASE k = l
      BY <2>2, <2>5, <3>1 DEF HasReturned
    <3>2. CASE k # l
      BY <2>5, <3>2 DEF HasReturned
    <3> QED
      BY <3>1, <3>2
  <2> QED
    BY <1>2, <1>4, <2>2, <2>3, <2>4, <2>6
<1>7. ASSUME NEW o \in Outs, WriteOut(o) PROVE LogInv'
  <2>1. UNCHANGED <<closed, done, logging, number, flushed>>
    BY <1>7 DEF WriteOut
  <2>2. \A k \in 1 .. flushed' : Outputs[k] \in done'
    BY <2>1 DEF LogInv
  <2> QED
    BY <1>1, <1>2, <1>3, <1>7, <2>1, <2>2, WriteOutMoves
<1>8. ASSUME NEW o \in Outs, EndOut(o) PROVE LogInv'
  <2>1. o \in closed /\ ch[o] = <<>> /\ done' = done \cup {o}
        /\ UNCHANGED <<ch, closed, sink, logging, number, flushed>>
    BY <1>8 DEF EndOut
  <2>2. LogTypeOK' /\ \A k \in 1 .. flushed' : Outputs[k] \in done'
    BY <2>1 DEF LogTypeOK, LogInv
  <2> QED
    BY <1>2, <1>3, <1>4, <2>1, <2>2
<1>9. CASE CloseNext
  <2>1. closed \subseteq closed' /\ UNCHANGED <<ch, sink, done, logging, number, flushed>>
    BY <1>9 DEF CloseNext
  <2>2. LogTypeOK' /\ \A o \in Outs : Logged(o)' = Logged(o)
    BY <1>1, <2>1 DEF LogTypeOK, Logged
  <2>3. \A o \in Outs : InOrder(Logged(o))'
    BY <2>2 DEF LogInv
  <2>4. \A l \in Loggers : \A n \in Nat : HasReturned(l, n)' <=> HasReturned(l, n)
    BY <1>3, <2>1
  <2>5. \A l \in Loggers : \A n \in Nat :
           HasReturned(l, n)' <=> \E o \in Outs : Lists(Logged(o), <<l, n>>)'
    BY <2>2, <2>4 DEF LogInv
  <2> QED
    BY <2>1, <2>2, <2>3, <2>5 DEF LogInv
<1>10. CASE FlushNext
  <2>1. /\ flushed < Len(Outputs) /\ Outputs[flushed + 1] \in done /\ flushed' = flushed + 1
        /\ UNCHANGED <<ch, closed, sink, done, logging, number>>
    BY <1>10 DEF FlushNext
  <2>2. LogTypeOK'
    BY <1>1, <2>1 DEF LogTypeOK
  <2>3. \A k \in 1 .. flushed' : Outputs[k] \in done'
    BY <1>1, <2>1 DEF LogTypeOK, LogInv
  <2> QED
    BY <1>2, <1>3, <1>4, <2>1, <2>2, <2>3
<1> QED
  BY <1>5, <1>6, <1>7, <1>8, <1>9, <1>10, SendKeepsLog DEF LogNext

(* Flush drains all pending log output (log.go:84): once it is done with   *)
(* every output, each message whose log call has returned is in a file,    *)
(* and always, those of a logger are in their file in order.               *)
THEOREM LogIsFlushed == LogSpec => []FlushDrains
<1>1. ASSUME LogInv PROVE FlushDrains
  <2>1. LogTypeOK
    BY <1>1 DEF LogInv
  <2>2. ASSUME NEW o \in Outs, NEW i \in DOMAIN sink[o], NEW j \in DOMAIN sink[o],
               i < j, sink[o][i][1] = sink[o][j][1]
        PROVE  sink[o][i][2] < sink[o][j][2]
    <3>1. InOrder(Logged(o))
      BY <1>1 DEF LogInv
    <3>2. DOMAIN sink[o] = 1 .. Len(sink[o])
      BY <2>1, LoggedSequence, LenProperties
    <3>3. /\ i \in 1 .. Len(Logged(o)) /\ Logged(o)[i] = sink[o][i]
          /\ j \in 1 .. Len(Logged(o)) /\ Logged(o)[j] = sink[o][j]
      BY <2>1, <3>2, LoggedSequence
    <3> QED
      BY <2>2, <3>1, <3>3 DEF InOrder
  <2>3. ASSUME flushed = Len(Outputs) PROVE Returned = UNION {ToSet(sink[o]) : o \in Outs}
    <3>1. \A o \in Outs : ch[o] = <<>>
      BY <1>1, <2>3, OutputsKnown DEF LogInv
    <3>2. ASSUME NEW o \in Outs PROVE Logged(o) = sink[o]
      <4>1. PICK a \in Seq(Loggers \X Nat) : a = sink[o]
        BY <2>1, LoggedSequence
      <4>2. a \o <<>> = a
        BY ConcatEmptySeq
      <4> QED
        BY <3>1, <4>1, <4>2 DEF Logged
    <3>3. ASSUME NEW o \in Outs
          PROVE  /\ \A m : m \in ToSet(sink[o]) <=> Lists(Logged(o), m)
                 /\ ToSet(sink[o]) \subseteq Loggers \X Nat
      <4>1. PICK a \in Seq(Loggers \X Nat) : a = sink[o]
        BY <2>1, LoggedSequence
      <4>2. DOMAIN a = 1 .. Len(a) /\ \A i \in 1 .. Len(a) : a[i] \in Loggers \X Nat
        BY LenProperties, ElementOfSeq
      <4>3. a = Logged(o)
        BY <3>2, <4>1
      <4>4. ToSet(a) = {a[i] : i \in 1 .. Len(a)}
        BY <4>2 DEF ToSet
      <4> QED
        BY ONLY <4>1, <4>2, <4>3, <4>4 DEF Lists
    <3>4. ASSUME NEW l \in Loggers, NEW n \in Nat
          PROVE  <<l, n>> \in Returned <=> HasReturned(l, n)
      <4>1. number[l] \in 0 .. MaxMessages /\ MaxMessages \in Nat
        BY <2>1, LogAssumption DEF LogTypeOK
      <4>2. <<l, n>> \in Begun <=> n \in 1 .. MaxMessages
        BY DEF Begun
      <4>3. <<l, n>>[1] = l /\ <<l, n>>[2] = n
        OBVIOUS
      <4>4. <<l, n>> \in Returned <=>
               <<l, n>> \in Begun /\ (n < number[l] \/ (n = number[l] /\ logging[l] = "none"))
        BY <4>3 DEF Returned
      <4> QED
        BY <4>1, <4>2, <4>4 DEF HasReturned
    <3>5. Returned \subseteq Loggers \X Nat
      BY LogAssumption DEF Returned, Begun
    <3>6. ASSUME NEW l \in Loggers, NEW n \in Nat
          PROVE  <<l, n>> \in Returned <=> \E o \in Outs : <<l, n>> \in ToSet(sink[o])
      BY <1>1, <3>3, <3>4 DEF LogInv
    <3>7. ASSUME NEW m \in Loggers \X Nat
          PROVE  m \in Returned <=> \E o \in Outs : m \in ToSet(sink[o])
      BY <3>6
    <3> QED
      BY <3>3, <3>5, <3>7
  <2> QED
    BY <2>2, <2>3 DEF FlushDrains
<1> QED
  BY <1>1, InitLog, LogStep, PTL DEF LogSpec


-----------------------------------------------------------------------------
(* ValidationLimiter.  The invariant behind BurstBounded: should every     *)
(* worker that was let through fail now, the burst limit would still hold. *)
(* It lets a worker through because the failures that are recent are those *)
(* that validationFailures counts: the count began at 0 after a pause or   *)
(* with a block, and a block lasts longer than the window.                 *)

(* The failure of this number, if any, is outside of the window.           *)
Old(p) == p <= 0 \/ failures[p] < now - FailureWindow

LimiterTypeOK ==
  /\ now \in Nat /\ lastFailure \in Int /\ blockedUntil \in Nat
  /\ failures \in Seq(Nat)
  /\ validationFailures \in 0 .. MaxFailures - 1 /\ validationFailures <= Len(failures)
  /\ allowed \subseteq Workers

FailuresInOrder ==
  /\ \A i, j \in 1 .. Len(failures) : i <= j => failures[i] <= failures[j]
  /\ \A i \in 1 .. Len(failures) : failures[i] <= lastFailure
  /\ Len(failures) # 0 => failures[Len(failures)] = lastFailure /\ lastFailure <= now

CountStarts ==
  LET k == Len(failures) - validationFailures
  IN  \/ k = 0
      \/ validationFailures # 0 /\ failures[k + 1] - failures[k] > FailureWindow
      \/ blockedUntil >= failures[k] + BlockDuration

LimiterInv ==
  /\ LimiterTypeOK /\ FailuresInOrder /\ CountStarts
  /\ Old(Len(failures) + Cardinality(allowed) - BurstLimit)
  /\ BurstBounded

LEMMA WorkersCounted ==
  ASSUME NEW S \in SUBSET Workers
  PROVE  /\ Cardinality(S) \in Nat /\ Cardinality(Workers) \in Nat
         /\ Cardinality(S) <= Cardinality(Workers)
         /\ \A w \in Workers \ S : Cardinality(S \cup {w}) = Cardinality(S) + 1
         /\ \A w \in S : Cardinality(S \ {w}) = Cardinality(S) - 1 /\ Cardinality(S) # 0
<1>1. IsFiniteSet(Workers) /\ IsFiniteSet(S)
  BY LimiterAssumption, FS_Subset
<1>2. /\ Cardinality(S) \in Nat /\ Cardinality(Workers) \in Nat
      /\ Cardinality(S) <= Cardinality(Workers)
  BY <1>1, FS_Subset, FS_CardinalityType
<1>3. \A w \in Workers \ S : Cardinality(S \cup {w}) = Cardinality(S) + 1
  BY <1>1, FS_AddElement
<1>4. ASSUME NEW w \in S PROVE Cardinality(S \ {w}) = Cardinality(S) - 1 /\ Cardinality(S) # 0
  <2>1. Cardinality(S \ {w}) = Cardinality(S) - 1
    BY <1>1, FS_RemoveElement
  <2>2. Cardinality(S \ {w}) \in Nat
    BY <1>1, FS_Subset, FS_CardinalityType
  <2> QED
    BY <1>2, <2>1, <2>2
<1> QED
  BY <1>2, <1>3, <1>4

LEMMA LimiterNumbers ==
  /\ MaxFailures \in Nat /\ MaxFailures # 0 /\ FailureWindow \in Nat
  /\ BlockDuration \in Nat /\ BlockDuration > FailureWindow
BY LimiterAssumption

LEMMA InitLimiter == LimiterInit => LimiterInv
<1> SUFFICES ASSUME LimiterInit PROVE LimiterInv
  OBVIOUS
<1> USE LimiterNumbers
<1>1. failures = <<>> /\ failures \in Seq(Nat) /\ Len(failures) = 0
  BY EmptySeq DEF LimiterInit
<1>2. LimiterTypeOK /\ FailuresInOrder /\ CountStarts
  BY <1>1 DEF LimiterInit, LimiterTypeOK, FailuresInOrder, CountStarts
<1>3. Cardinality(allowed) = 0 /\ Cardinality(Workers) \in Nat
  BY FS_EmptySet, WorkersCounted DEF LimiterInit
<1>4. Old(Len(failures) + Cardinality(allowed) - BurstLimit)
  BY <1>1, <1>3 DEF Old, BurstLimit
<1>5. BurstBounded
  BY <1>1 DEF BurstBounded
<1> QED
  BY <1>2, <1>4, <1>5 DEF LimiterInv

(* A worker is let through when at most MaxFailures - 1 failures are       *)
(* recent.                                                                 *)
LEMMA CheckKeepsLimit ==
  ASSUME LimiterInv, NEW w \in Workers, CheckRateLimit(w)
  PROVE  LimiterInv'
<1> USE LimiterNumbers
<1>1. /\ w \in Workers \ allowed /\ now >= blockedUntil /\ allowed' = allowed \cup {w}
      /\ UNCHANGED <<now, validationFailures, lastFailure, blockedUntil, failures>>
  BY DEF CheckRateLimit
<1>2. LimiterTypeOK' /\ FailuresInOrder' /\ CountStarts' /\ BurstBounded'
  BY <1>1 DEF LimiterInv, LimiterTypeOK, FailuresInOrder, CountStarts, BurstBounded
<1>3. LimiterTypeOK /\ FailuresInOrder /\ CountStarts
  BY DEF LimiterInv
<1>4. PICK n \in Nat : n = Len(failures)
  BY <1>3, LenProperties DEF LimiterTypeOK
<1>5. \A i \in 1 .. n : failures[i] \in Nat
  BY <1>3, <1>4, ElementOfSeq DEF LimiterTypeOK
<1>6. PICK k \in 0 .. n : k = n - validationFailures
  BY <1>3, <1>4 DEF LimiterTypeOK
<1>7. k # 0 => failures[k] < now - FailureWindow
  <2>1. CASE validationFailures # 0 /\ failures[k + 1] - failures[k] > FailureWindow /\ k # 0
    <3>1. k + 1 \in 1 .. n
      BY <1>3, <1>4, <1>6, <2>1 DEF LimiterTypeOK
    <3>2. failures[k + 1] <= now
      BY <1>3, <1>4, <1>5, <3>1 DEF FailuresInOrder, LimiterTypeOK
    <3> QED
      BY <1>3, <1>5, <2>1, <3>1, <3>2 DEF LimiterTypeOK
  <2>2. CASE blockedUntil >= failures[k] + BlockDuration /\ k # 0
    BY <1>1, <1>3, <1>5, <2>2 DEF LimiterTypeOK
  <2> QED
    BY <1>3, <1>4, <1>6, <2>1, <2>2 DEF CountStarts
<1>8. PICK q \in Int : q = n + Cardinality(allowed) + 1 - BurstLimit
  BY <1>3, <1>4, WorkersCounted DEF BurstLimit, LimiterTypeOK
<1>9. /\ Cardinality(allowed') = Cardinality(allowed) + 1 /\ Cardinality(allowed) \in Nat
      /\ Cardinality(allowed') <= Cardinality(Workers) /\ Cardinality(Workers) \in Nat
  BY <1>1, <1>2, <1>3, WorkersCounted DEF LimiterTypeOK
<1>10. q <= k
  BY <1>3, <1>6, <1>8, <1>9 DEF BurstLimit, LimiterTypeOK
<1>11. q <= 0 \/ failures[q] < now - FailureWindow
  <2> SUFFICES ASSUME q \in 1 .. k PROVE failures[q] < now - FailureWindow
    BY <1>10
  <2>1. failures[q] <= failures[k]
    BY <1>3, <1>4, <1>6 DEF FailuresInOrder
  <2> QED
    BY <1>3, <1>5, <1>6, <1>7, <2>1 DEF LimiterTypeOK
<1>12. Old(Len(failures) + Cardinality(allowed) - BurstLimit)'
  <2>1. (n + Cardinality(allowed') - BurstLimit) = q
    BY <1>8, <1>9 DEF BurstLimit
  <2> QED
    BY <1>1, <1>4, <1>11, <2>1 DEF Old, BurstLimit
<1> QED
  BY <1>2, <1>12 DEF LimiterInv


(* A failure is one of those that the limit had room for.                  *)
LEMMA FailureKeepsLimit ==
  ASSUME LimiterInv, NEW w \in Workers, RecordValidationFailure(w)
  PROVE  LimiterInv'
<1> USE LimiterNumbers
<1>1. LimiterTypeOK /\ FailuresInOrder /\ CountStarts /\ BurstBounded
  BY DEF LimiterInv
<1>2. PICK n \in Nat : n = Len(failures)
  BY <1>1, LenProperties DEF LimiterTypeOK
<1>3. \A i \in 1 .. n : failures[i] \in Nat
  BY <1>1, <1>2, ElementOfSeq DEF LimiterTypeOK
<1>4. PICK c \in Nat : c = (IF now - lastFailure > FailureWindow THEN 0 ELSE validationFailures) + 1
  BY <1>1 DEF LimiterTypeOK
<1>5. /\ w \in allowed /\ allowed' = allowed \ {w} /\ lastFailure' = now /\ now' = now
      /\ failures' = Append(failures, now)
      /\ \/ c >= MaxFailures /\ validationFailures' = 0 /\ blockedUntil' = now + BlockDuration
         \/ c < MaxFailures /\ validationFailures' = c /\ blockedUntil' = blockedUntil
  BY <1>4 DEF RecordValidationFailure
<1>6. PICK f : f = failures'
  OBVIOUS
<1>7. /\ f \in Seq(Nat) /\ Len(f) = n + 1 /\ f[n + 1] = now /\ DOMAIN f = 1 .. n + 1
      /\ \A i \in 1 .. n : f[i] = failures[i]
  <2>1. now \in Nat /\ failures \in Seq(Nat)
    BY <1>1 DEF LimiterTypeOK
  <2>2. f \in Seq(Nat) /\ Len(f) = n + 1 /\ f[n + 1] = now /\ \A i \in 1 .. n : f[i] = failures[i]
    BY <1>2, <1>5, <1>6, <2>1, AppendProperties
  <2> QED
    BY <2>2, LenProperties
<1>8. LimiterTypeOK'
  BY <1>1, <1>2, <1>4, <1>5, <1>6, <1>7 DEF LimiterTypeOK
<1>9. \A i \in 1 .. n : failures[i] <= now
  BY <1>1, <1>2, <1>3 DEF FailuresInOrder, LimiterTypeOK
<1>10. FailuresInOrder'
  <2>1. \A i, j \in 1 .. n + 1 : i <= j => f[i] <= f[j]
    <3> SUFFICES ASSUME NEW i \in 1 .. n + 1, NEW j \in 1 .. n + 1, i <= j PROVE f[i] <= f[j]
      OBVIOUS
    <3>1. CASE j \in 1 .. n
      BY <1>1, <1>2, <1>7, <3>1 DEF FailuresInOrder
    <3>2. CASE j = n + 1
      BY <1>1, <1>7, <1>9, <3>2 DEF LimiterTypeOK
    <3> QED
      BY <3>1, <3>2
  <2>2. \A i \in 1 .. n + 1 : f[i] <= now
    BY <1>1, <1>7, <1>9 DEF LimiterTypeOK
  <2> QED
    BY <1>1, <1>5, <1>6, <1>7, <2>1, <2>2 DEF FailuresInOrder, LimiterTypeOK
<1>11. CountStarts'
  <2>1. CASE c >= MaxFailures
    <3>1. validationFailures' = 0 /\ blockedUntil' = f[n + 1] + BlockDuration
      BY <1>1, <1>4, <1>5, <1>7, <2>1 DEF LimiterTypeOK
    <3>2. blockedUntil' >= f[n + 1] + BlockDuration
      BY <1>1, <1>7, <3>1 DEF LimiterTypeOK
    <3> QED
      BY <1>6, <1>7, <3>1, <3>2 DEF CountStarts
  <2>2. CASE c < MaxFailures /\ now - lastFailure > FailureWindow
    <3>1. validationFailures' = 1
      BY <1>1, <1>4, <1>5, <2>2 DEF LimiterTypeOK
    <3>2. n # 0 => f[n + 1] - f[n] > FailureWindow
      BY <1>1, <1>2, <1>7, <2>2 DEF FailuresInOrder
    <3> QED
      BY <1>6, <1>7, <3>1, <3>2 DEF CountStarts
  <2>3. CASE c < MaxFailures /\ ~(now - lastFailure > FailureWindow)
    <3>1. validationFailures' = validationFailures + 1 /\ blockedUntil' = blockedUntil
      BY <1>1, <1>4, <1>5, <2>3 DEF LimiterTypeOK
    <3>2. PICK k \in 0 .. n : k = n - validationFailures
      BY <1>1, <1>2 DEF LimiterTypeOK
    <3>3. k = Len(f) - validationFailures'
      BY <1>1, <1>7, <3>1, <3>2 DEF LimiterTypeOK
    <3>4. CASE k = 0
      BY <1>6, <3>3, <3>4 DEF CountStarts
    <3>5. CASE k # 0 /\ validationFailures # 0 /\ failures[k + 1] - failures[k] > FailureWindow
      <4>1. k + 1 \in 1 .. n
        BY <1>1, <3>2, <3>5 DEF LimiterTypeOK
      <4>2. f[k] = failures[k] /\ f[k + 1] = failures[k + 1]
        BY <1>7, <3>2, <3>5, <4>1
      <4>3. validationFailures' # 0
        BY <1>1, <3>1 DEF LimiterTypeOK
      <4> QED
        BY <1>6, <3>3, <3>5, <4>2, <4>3 DEF CountStarts
    <3>6. CASE k # 0 /\ blockedUntil >= failures[k] + BlockDuration
      BY <1>6, <1>7, <3>1, <3>2, <3>3, <3>6 DEF CountStarts
    <3> QED
      BY <1>1, <1>2, <3>2, <3>4, <3>5, <3>6 DEF CountStarts
  <2> QED
    BY <1>1, <2>1, <2>2, <2>3 DEF LimiterTypeOK
<1>12. /\ Cardinality(allowed') = Cardinality(allowed) - 1 /\ Cardinality(allowed) \in Nat \ {0}
       /\ Cardinality(allowed) <= Cardinality(Workers) /\ Cardinality(Workers) \in Nat
  BY <1>1, <1>5, WorkersCounted DEF LimiterTypeOK
<1>13. PICK q \in Int : q = n + Cardinality(allowed) - BurstLimit
  BY <1>1, <1>12 DEF BurstLimit
<1>14. q <= n /\ BurstLimit \in Nat /\ BurstLimit # 0
  BY <1>12, <1>13 DEF BurstLimit
<1>15. q <= 0 \/ failures[q] < now - FailureWindow
  BY <1>2, <1>13 DEF LimiterInv, Old
<1>16. Old(Len(failures) + Cardinality(allowed) - BurstLimit)'
  <2>1. (n + 1 + Cardinality(allowed') - BurstLimit) = q
    BY <1>12, <1>13, <1>14
  <2>2. q <= 0 \/ f[q] < now - FailureWindow
    BY <1>7, <1>14, <1>15
  <2> QED
    BY <1>5, <1>6, <1>7, <2>1, <2>2 DEF Old, BurstLimit
<1>17. BurstBounded'
  <2> SUFFICES ASSUME NEW i \in 1 .. n + 1, NEW j \in 1 .. n + 1, j = i + BurstLimit
               PROVE  f[j] - f[i] > FailureWindow
    BY <1>6, <1>7 DEF BurstBounded, BurstLimit
  <2>1. i \in 1 .. n
    BY <1>14
  <2>2. CASE j \in 1 .. n
    <3>1. DOMAIN failures = 1 .. n
      BY <1>1, <1>2, LenProperties DEF LimiterTypeOK
    <3>2. failures[j] - failures[i] > FailureWindow
      BY <1>1, <2>1, <2>2, <3>1 DEF BurstBounded
    <3> QED
      BY <1>7, <2>1, <2>2, <3>2
  <2>3. CASE j = n + 1
    <3>1. i <= q /\ q \in 1 .. n
      BY <1>12, <1>13, <1>14, <2>1, <2>3
    <3>2. failures[i] <= failures[q]
      BY <1>1, <1>2, <2>1, <3>1 DEF FailuresInOrder
    <3>3. failures[i] < now - FailureWindow
      BY <1>1, <1>3, <1>15, <2>1, <3>1, <3>2 DEF LimiterTypeOK
    <3>4. f[j] = now /\ f[i] = failures[i] /\ now \in Nat /\ failures[i] \in Nat
      BY <1>1, <1>3, <1>7, <2>1, <2>3 DEF LimiterTypeOK
    <3> QED
      BY ONLY <3>3, <3>4, LimiterNumbers
  <2> QED
    BY <2>2, <2>3
<1> QED
  BY <1>8, <1>10, <1>11, <1>16, <1>17 DEF LimiterInv

LEMMA LimiterStep == LimiterInv /\ [LimiterNext]_limiterVars => LimiterInv'
<1> SUFFICES ASSUME LimiterInv, [LimiterNext]_limiterVars PROVE LimiterInv'
  OBVIOUS
<1> USE LimiterNumbers
<1>1. ASSUME UNCHANGED <<validationFailures, lastFailure, blockedUntil, failures>>,
             now' \in Nat, now' >= now, allowed' \subseteq allowed
      PROVE  LimiterInv'
  <2>1. LimiterTypeOK /\ LimiterTypeOK'
    BY <1>1 DEF LimiterInv, LimiterTypeOK
  <2>2. FailuresInOrder'
    BY <1>1, <2>1 DEF LimiterInv, FailuresInOrder, LimiterTypeOK
  <2>3. CountStarts' /\ BurstBounded'
    BY <1>1 DEF LimiterInv, CountStarts, BurstBounded
  <2>4. PICK n \in Nat : n = Len(failures)
    BY <2>1, LenProperties DEF LimiterTypeOK
  <2>5. /\ Cardinality(allowed') \in Nat /\ Cardinality(allowed) \in Nat
        /\ Cardinality(allowed') <= Cardinality(allowed)
        /\ Cardinality(allowed) <= Cardinality(Workers) /\ Cardinality(Workers) \in Nat
    <3>1. IsFiniteSet(allowed)
      BY <2>1, LimiterAssumption, FS_Subset DEF LimiterTypeOK
    <3> QED
      BY <1>1, <2>1, <3>1, FS_Subset, FS_CardinalityType, WorkersCounted DEF LimiterTypeOK
  <2>6. PICK q \in Int : q = n + Cardinality(allowed) - BurstLimit
    BY <2>5 DEF BurstLimit
  <2>7. PICK p \in Int : p = n + Cardinality(allowed') - BurstLimit
    BY <2>5 DEF BurstLimit
  <2>8. p <= q /\ q <= n
    BY <2>5, <2>6, <2>7 DEF BurstLimit
  <2>9. q <= 0 \/ failures[q] < now - FailureWindow
    BY <2>4, <2>6 DEF LimiterInv, Old
  <2>10. p <= 0 \/ failures[p] < now' - FailureWindow
    <3> SUFFICES ASSUME p \in 1 .. n PROVE failures[p] < now' - FailureWindow
      BY <2>8
    <3>1. q \in 1 .. n /\ failures[p] \in Nat /\ failures[q] \in Nat
      BY <2>1, <2>4, <2>8, ElementOfSeq DEF LimiterTypeOK
    <3>2. failures[p] <= failures[q]
      BY <2>4, <2>8, <3>1 DEF LimiterInv, FailuresInOrder
    <3> QED
      BY <1>1, <2>1, <2>9, <3>1, <3>2 DEF LimiterTypeOK
  <2>11. Old(Len(failures) + Cardinality(allowed) - BurstLimit)'
    BY <1>1, <2>4, <2>7, <2>10 DEF Old, BurstLimit
  <2> QED
    BY <2>1, <2>2, <2>3, <2>11 DEF LimiterInv
<1>2. now \in Nat
  BY DEF LimiterInv, LimiterTypeOK
<1>3. CASE UNCHANGED limiterVars
  BY <1>1, <1>2, <1>3 DEF limiterVars
<1>4. CASE Clock
  BY <1>1, <1>2, <1>4 DEF Clock
<1>5. ASSUME NEW w \in Workers, CodeAccepted(w) PROVE LimiterInv'
  BY <1>1, <1>2, <1>5 DEF CodeAccepted
<1> QED
  BY <1>3, <1>4, <1>5, CheckKeepsLimit, FailureKeepsLimit DEF LimiterNext

(* The rate limiter holds (server.go:359-387): no more failed validations  *)
(* fit into a window than the limit, and those of the workers that were    *)
(* let through before the block, for any number of workers.                *)
THEOREM LimiterHolds == LimiterSpec => []BurstBounded
<1>1. LimiterInv => BurstBounded
  BY DEF LimiterInv
<1> QED
  BY <1>1, InitLimiter, LimiterStep, PTL DEF LimiterSpec


-----------------------------------------------------------------------------
(* CostMeter.  The accumulators of the turn against the requests of the    *)
(* run: what was reported is in turnCost, and the tokens of a run without  *)
(* a reported cost are worth what its requests cost.                       *)
MeterTypeOK ==
  /\ sessionCost \in Nat /\ turnTokens \in Nat /\ turnCost \in Nat /\ price \in Nat
  /\ runLog.cost \in Nat /\ runLog.prices \subseteq Nat
  /\ runLog.kinds \subseteq {"reported", "computed"}

MeterInv ==
  /\ MeterTypeOK
  /\ meter = "running" =>
       /\ turnCost <= runLog.cost
       /\ turnCost = 0 <=> "reported" \notin runLog.kinds
       /\ "computed" \notin runLog.kinds => runLog.cost = turnCost
       /\ "reported" \notin runLog.kinds =>
            \A p \in Nat : runLog.prices \subseteq {p} => runLog.cost = turnTokens * p

LEMMA NothingCharged ==
  /\ NoRequests.cost = 0 /\ NoRequests.prices = {} /\ NoRequests.kinds = {}
  /\ \A p \in Nat : 0 * p = 0
BY DEF NoRequests

LEMMA UsageCounted == MeterInv /\ AddUsage => MeterInv'
<1> SUFFICES ASSUME MeterInv, AddUsage PROVE MeterInv'
  OBVIOUS
<1>1. PICK u \in Usages : /\ turnTokens' = turnTokens + u.tokens
                          /\ turnCost' = turnCost + u.cost
                          /\ runLog' = Charged(runLog, u)
  BY DEF AddUsage
<1>2. u.tokens \in Nat /\ u.cost \in Nat
  BY MeterAssumption
<1>3. meter = "running" /\ UNCHANGED <<sessionCost, price, meter>>
  BY DEF AddUsage
<1>4. PICK t \in Nat : t = turnTokens
  BY DEF MeterInv, MeterTypeOK
<1>5. PICK c \in Nat : c = runLog.cost
  BY DEF MeterInv, MeterTypeOK
<1>6. price \in Nat /\ turnCost \in Nat
  BY DEF MeterInv, MeterTypeOK
<1>7. PICK x \in Nat : x = u.tokens
  BY <1>2
<1>8. PICK y \in Nat : y = x * price
  BY <1>6, <1>7
<1>9. /\ runLog'.cost = c + (IF u.cost > 0 THEN u.cost ELSE y)
      /\ runLog'.prices = runLog.prices \cup {price}
      /\ runLog'.kinds = runLog.kinds \cup {IF u.cost > 0 THEN "reported" ELSE "computed"}
  BY <1>1, <1>5, <1>7, <1>8 DEF Charged
<1>10. MeterTypeOK'
  BY <1>1, <1>2, <1>3, <1>6, <1>9 DEF MeterInv, MeterTypeOK
<1>11. CASE u.cost > 0
  <2>1. turnCost' # 0 /\ "reported" \in runLog'.kinds /\ turnCost' <= runLog'.cost
    BY <1>1, <1>2, <1>3, <1>5, <1>6, <1>9, <1>11 DEF MeterInv
  <2>2. "computed" \notin runLog'.kinds => runLog'.cost = turnCost'
    BY <1>1, <1>2, <1>3, <1>5, <1>6, <1>9, <1>11 DEF MeterInv
  <2> QED
    BY <1>10, <2>1, <2>2 DEF MeterInv
<1>12. CASE u.cost = 0
  <2>1. turnCost' = turnCost /\ runLog'.kinds = runLog.kinds \cup {"computed"}
        /\ runLog'.cost = c + y
    BY <1>1, <1>6, <1>9, <1>12
  <2>2. turnCost' <= runLog'.cost /\ (turnCost' = 0 <=> "reported" \notin runLog'.kinds)
    BY <1>3, <1>5, <1>6, <2>1 DEF MeterInv
  <2>3. ASSUME "reported" \notin runLog'.kinds, NEW p \in Nat, runLog'.prices \subseteq {p}
        PROVE  runLog'.cost = turnTokens' * p
    <3>1. p = price /\ runLog.prices \subseteq {p} /\ "reported" \notin runLog.kinds
      BY <1>9, <2>1, <2>3
    <3>2. c = t * p
      BY <1>3, <1>4, <1>5, <3>1 DEF MeterInv
    <3>3. (t + x) * p = t * p + x * p
      OBVIOUS
    <3>4. runLog'.cost = t * p + x * p
      BY <1>8, <2>1, <3>1, <3>2
    <3> QED
      BY ONLY <1>1, <1>4, <1>7, <3>3, <3>4
  <2> QED
    BY <1>10, <2>1, <2>2, <2>3 DEF MeterInv
<1> QED
  BY <1>2, <1>11, <1>12

LEMMA MeterStep == MeterInv /\ [MeterNext]_meterVars => MeterInv'
<1> SUFFICES ASSUME MeterInv, [MeterNext]_meterVars PROVE MeterInv'
  OBVIOUS
<1> USE MeterAssumption, NothingCharged DEF MeterInv, MeterTypeOK
<1>1. CASE UNCHANGED meterVars
  BY <1>1 DEF meterVars
<1>2. CASE BeginTurn \/ RetryTurn
  <2>1. /\ turnTokens' = 0 /\ turnCost' = 0 /\ runLog' = NoRequests
        /\ UNCHANGED <<sessionCost, price>>
    BY <1>2 DEF BeginTurn, RetryTurn, ResetTurnAccumulators
  <2>2. runLog'.cost = 0 /\ runLog'.prices = {} /\ runLog'.kinds = {}
    BY <2>1
  <2> QED
    BY <2>1, <2>2
<1>3. CASE RecordTurnCost
  <2>1. CostOfTurn \in Nat
    BY DEF CostOfTurn
  <2> QED
    BY <1>3, <2>1 DEF RecordTurnCost
<1>4. CASE AbortTurn
  <2>1. meter' = "idle" /\ runLog' = NoRequests
        /\ UNCHANGED <<sessionCost, turnTokens, turnCost, price>>
    BY <1>4 DEF AbortTurn
  <2>2. runLog'.cost = 0 /\ runLog'.prices = {} /\ runLog'.kinds = {}
    BY <2>1
  <2> QED
    BY <2>1, <2>2
<1>5. CASE SetModel
  <2>1. price' \in Nat /\ UNCHANGED <<sessionCost, turnTokens, turnCost, meter, runLog>>
    BY <1>5 DEF SetModel
  <2> QED
    BY <2>1
<1>6. CASE NewSession
  <2>1. /\ meter = "idle" /\ sessionCost' = 0 /\ turnTokens' = 0 /\ turnCost' = 0
        /\ UNCHANGED <<price, meter, runLog>>
    BY <1>6 DEF NewSession
  <2> QED
    BY <2>1
<1> QED
  BY <1>1, <1>2, <1>3, <1>4, <1>5, <1>6, UsageCounted DEF MeterNext

(* A turn is charged the cost of its last run (session.go:119), all of it  *)
(* when every request, or none, reported its cost.                         *)
THEOREM TurnsCharged == MeterSpec => TurnCharged
<1>1. ASSUME MeterInv, [MeterNext]_meterVars, sessionCost' > sessionCost, SteadyPrice
      PROVE  /\ sessionCost' <= sessionCost + runLog.cost
             /\ Uniform => sessionCost' = sessionCost + runLog.cost
  <2>1. RecordTurnCost
    BY <1>1 DEF MeterNext, meterVars, MeterInv, MeterTypeOK, BeginTurn, AddUsage, RetryTurn,
       AbortTurn, SetModel, NewSession
  <2>2. meter = "running" /\ sessionCost' = sessionCost + CostOfTurn
    BY <2>1 DEF RecordTurnCost
  <2>3. CostOfTurn <= runLog.cost /\ (Uniform => CostOfTurn = runLog.cost) /\ CostOfTurn \in Nat
    <3>1. CASE turnCost = 0
      <4>1. "reported" \notin runLog.kinds
        BY <1>1, <2>2, <3>1 DEF MeterInv
      <4>2. runLog.cost = turnTokens * price
        BY <1>1, <2>2, <4>1 DEF MeterInv, MeterTypeOK, SteadyPrice
      <4>3. CostOfTurn = turnTokens * price
        BY <3>1 DEF CostOfTurn
      <4> QED
        BY <1>1, <4>2, <4>3 DEF MeterInv, MeterTypeOK
    <3>2. CASE turnCost # 0
      <4>1. CostOfTurn = turnCost
        BY <1>1, <3>2 DEF CostOfTurn, MeterInv, MeterTypeOK
      <4> QED
        BY <1>1, <2>2, <3>2, <4>1 DEF MeterInv, MeterTypeOK, Uniform
    <3> QED
      BY <3>1, <3>2
  <2> QED
    BY <1>1, <2>2, <2>3 DEF MeterInv, MeterTypeOK
<1>2. MeterInit => MeterInv
  BY MeterAssumption, NothingCharged DEF MeterInit, MeterInv, MeterTypeOK
<1>3. MeterInv /\ [MeterNext]_meterVars =>
        [sessionCost' > sessionCost /\ SteadyPrice =>
           /\ sessionCost' <= sessionCost + runLog.cost
           /\ Uniform => sessionCost' = sessionCost + runLog.cost]_meterVars
  BY <1>1
<1> QED
  BY <1>2, <1>3, MeterStep, PTL DEF MeterSpec, TurnCharged

=============================================================================
