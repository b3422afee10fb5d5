---------------------------- MODULE ChangeMonitor ----------------------------
(***************************************************************************)
(* WaitChange and notifyChange of pkg/agent/core.go: watchers sleep on a   *)
(* condition variable until the field they watch differs from the value    *)
(* they know; writers change a field and then broadcast, in two steps; a   *)
(* cancelled context broadcasts once, from a goroutine of its own.         *)
(*                                                                         *)
(* Some changes are not announced: a message appended by update, /clear,   *)
(* /agent and the model set by /model (commands.go) change the usage or    *)
(* the context size, and the next announcement is somebody else's.         *)
(***************************************************************************)
EXTENDS FiniteSets

CONSTANTS Watchers, Writers, Fields,
          Nobody

ASSUME MonitorAssumption == Nobody \notin Watchers \cup Fields

VARIABLES
  value,       \* of each field; TRUE and FALSE stand for any two values
  changeMu,    \* the watcher that holds the lock, or Nobody
  watcher,     \* "away", "lock", "check", "wait", "asleep"
  watched,     \* the field a watcher watches
  known,       \* the value it waits to see replaced
  cancelledW,  \* watchers whose context is done
  owed,        \* watchers whose AfterFunc has not run yet
  pendingNote, \* for each writer, the field it has changed, or Nobody
  silent       \* history: fields changed without announcement since the last

monitorVars == <<value, changeMu, watcher, watched, known, cancelledW, owed, pendingNote, silent>>

MonitorInit ==
  /\ value = [f \in Fields |-> FALSE]
  /\ changeMu = Nobody
  /\ watcher = [w \in Watchers |-> "away"]
  /\ watched = [w \in Watchers |-> Nobody]
  /\ known = [w \in Watchers |-> FALSE]
  /\ cancelledW = {} /\ owed = {}
  /\ pendingNote = [x \in Writers |-> Nobody]
  /\ silent = {}

-----------------------------------------------------------------------------
(* Writers.                                                                *)

(* setState, SetCWD, a usage event, recordTurnCost: the write, ...         *)
Write(x, f) ==
  /\ pendingNote[x] = Nobody
  /\ value' = [value EXCEPT ![f] = ~@]
  /\ pendingNote' = [pendingNote EXCEPT ![x] = f]
  /\ UNCHANGED <<changeMu, watcher, watched, known, cancelledW, owed, silent>>

WriteSilently(f) ==
  /\ value' = [value EXCEPT ![f] = ~@]
  /\ silent' = silent \cup {f}
  /\ UNCHANGED <<changeMu, watcher, watched, known, cancelledW, owed, pendingNote>>

Broadcast ==
  /\ watcher' = [w \in Watchers |-> IF watcher[w] = "asleep" THEN "lock" ELSE watcher[w]]
  /\ silent' = {}

(* Mutant: the broadcast does not take changeMu.                           *)
NotifyChangeUnlocked(x) ==
  /\ pendingNote[x] # Nobody
  /\ Broadcast
  /\ pendingNote' = [pendingNote EXCEPT ![x] = Nobody]
  /\ UNCHANGED <<value, changeMu, watched, known, cancelledW, owed>>

(* ... and notifyChange, under changeMu.                                   *)
NotifyChange(x) ==
  /\ pendingNote[x] # Nobody
  /\ changeMu = Nobody
  /\ Broadcast
  /\ pendingNote' = [pendingNote EXCEPT ![x] = Nobody]
  /\ UNCHANGED <<value, changeMu, watched, known, cancelledW, owed>>

-----------------------------------------------------------------------------
(* Watchers.                                                               *)

WaitChange(w) ==
  /\ watcher[w] = "away"
  /\ watcher' = [watcher EXCEPT ![w] = "lock"]
  /\ \E f \in Fields, v \in BOOLEAN :
       watched' = [watched EXCEPT ![w] = f] /\ known' = [known EXCEPT ![w] = v]
  /\ UNCHANGED <<value, changeMu, cancelledW, owed, pendingNote, silent>>

LockChangeMu(w) ==
  /\ watcher[w] = "lock" /\ changeMu = Nobody
  /\ changeMu' = w
  /\ watcher' = [watcher EXCEPT ![w] = "check"]
  /\ UNCHANGED <<value, watched, known, cancelledW, owed, pendingNote, silent>>

(* The deferred stop keeps the AfterFunc from running, or it has begun and *)
(* broadcasts once more to nobody's harm; the latter is left out.          *)
WaitReturns(w) ==
  /\ watcher' = [watcher EXCEPT ![w] = "away"]
  /\ changeMu' = Nobody
  /\ cancelledW' = cancelledW \ {w} /\ owed' = owed \ {w}
  /\ watched' = [watched EXCEPT ![w] = Nobody] /\ known' = [known EXCEPT ![w] = FALSE]

(* The context, then the field, both under changeMu.                       *)
CheckField(w) ==
  /\ watcher[w] = "check"
  /\ \/ /\ w \in cancelledW \/ value[watched[w]] # known[w]
        /\ WaitReturns(w)
     \/ /\ w \notin cancelledW /\ value[watched[w]] = known[w]
        /\ watcher' = [watcher EXCEPT ![w] = "wait"]
        /\ UNCHANGED <<changeMu, watched, known, cancelledW, owed>>
  /\ UNCHANGED <<value, pendingNote, silent>>

(* changeCond.Wait: the lock is released and the sleep begun in one step.  *)
CondWait(w) ==
  /\ watcher[w] = "wait"
  /\ watcher' = [watcher EXCEPT ![w] = "asleep"]
  /\ changeMu' = Nobody
  /\ UNCHANGED <<value, watched, known, cancelledW, owed, pendingNote, silent>>

CancelWatch(w) ==
  /\ watcher[w] # "away" /\ w \notin cancelledW
  /\ cancelledW' = cancelledW \cup {w} /\ owed' = owed \cup {w}
  /\ UNCHANGED <<value, changeMu, watcher, watched, known, pendingNote, silent>>

(* Mutant: the function of a cancelled context broadcasts without the lock. *)
AfterFuncUnlocked(w) ==
  /\ w \in owed
  /\ Broadcast
  /\ owed' = owed \ {w}
  /\ UNCHANGED <<value, changeMu, watched, known, cancelledW, pendingNote>>

AfterFunc(w) ==
  /\ w \in owed /\ changeMu = Nobody
  /\ Broadcast
  /\ owed' = owed \ {w}
  /\ UNCHANGED <<value, changeMu, watched, known, cancelledW, pendingNote>>

MonitorNext ==
  \/ \E f \in Fields : WriteSilently(f) \/ \E x \in Writers : Write(x, f)
  \/ \E x \in Writers : NotifyChange(x)
  \/ \E w \in Watchers : \/ WaitChange(w) \/ LockChangeMu(w) \/ CheckField(w)
                         \/ CondWait(w) \/ CancelWatch(w) \/ AfterFunc(w)

(* Goroutines are scheduled, and the lock goes to a starving waiter; that  *)
(* a writer announces its change is not needed.                            *)
MonitorFairness ==
  /\ WF_monitorVars(\E w \in Watchers : CheckField(w) \/ CondWait(w))
  /\ \A w \in Watchers : SF_monitorVars(LockChangeMu(w)) /\ SF_monitorVars(AfterFunc(w))

MonitorSpec == MonitorInit /\ [][MonitorNext]_monitorVars /\ MonitorFairness

-----------------------------------------------------------------------------
(* Properties.                                                             *)

MonitorTypeOK ==
  /\ value \in [Fields -> BOOLEAN] /\ silent \subseteq Fields
  /\ changeMu \in Watchers \cup {Nobody}
  /\ watcher \in [Watchers -> {"away", "lock", "check", "wait", "asleep"}]
  /\ watched \in [Watchers -> Fields \cup {Nobody}] /\ known \in [Watchers -> BOOLEAN]
  /\ \A w \in Watchers : watcher[w] # "away" => watched[w] \in Fields
  /\ owed \subseteq cancelledW /\ cancelledW \subseteq Watchers
  /\ pendingNote \in [Writers -> Fields \cup {Nobody}]

(* A watcher holds the lock from its check until it sleeps.                *)
HoldsWhileChecking == \A w \in Watchers : watcher[w] \in {"check", "wait"} => changeMu = w

(* A broadcast that is to come covers the watcher.                         *)
Covered(w) == watched[w] \in silent \/ \E x \in Writers : pendingNote[x] = watched[w]

(* No wakeup is missed: a watcher sleeps, or is about to, only while its   *)
(* field has the value it knows, or a broadcast is still owed, or the last *)
(* change was one of those that nobody announces; and only while its       *)
(* context is alive, or the goroutine that wakes it has yet to run.        *)
NoMissedWakeup ==
  \A w \in Watchers : watcher[w] \in {"wait", "asleep"} =>
    /\ value[watched[w]] = known[w] \/ Covered(w)
    /\ w \in cancelledW => w \in owed

(* The strengthening that makes it inductive.                              *)
MonitorInv == MonitorTypeOK /\ HoldsWhileChecking /\ NoMissedWakeup

(* WaitChange returns once its context is cancelled (types.go:120), however *)
(* busy the writers and the other watchers are.                            *)
CancelEndsWait == \A w \in Watchers : w \in cancelledW ~> watcher[w] = "away"

=============================================================================
