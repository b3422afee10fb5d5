----------------------------- MODULE StoreProofs -----------------------------
(***************************************************************************)
(* Session files, for any set of ids and any number of versions: a rename  *)
(* that meets saves, failures, /agent and crashes loses no saved session   *)
(* but one whose name it takes or gives away.                              *)
(*                                                                         *)
(* SavedSurvives is about what is promised; that it stays true rests on    *)
(* what a save may overwrite: the file it is about to write, and the one   *)
(* that has the id of the session, hold nothing promised but the last save *)
(* of this very session, or what a rename has given away.                  *)
(***************************************************************************)
EXTENDS SessionStore, TLAPS

Versions == Nat \ {0}

Shapes ==
  /\ id \in Ids /\ used \subseteq Ids /\ id \in used
  /\ version \in Nat /\ made \in Nat /\ lastSaved \in Nat
  /\ agent = "log" => version # 0
  /\ agent \in {"log", "session", "push", "env"} => saver.pc = "idle"
  /\ promised \subseteq Versions
  /\ json \in [Ids -> Nat \cup {Partial}]
  /\ saver \in [pc : {"idle", "named", "open"}, file : Ids \cup {Null},
                v : Nat, over : Nat \cup {Partial}]
  /\ saver.pc # "idle" => saver.file \in used \cup {Null} /\ saver.v # 0
  /\ saver.pc = "named" => saver.file \in used
  /\ rename \in [pc : {"idle", "json", "clog", "id", "push", "env"},
                 old : Ids \cup {Null}, to : Ids \cup {Null}, push : Ids \cup {Null}]
  /\ rename.pc # "idle" => {rename.old, rename.to} \subseteq used /\ rename.old # rename.to

(* A name that was never given out has no file.                            *)
FreshIsEmpty == \A i \in Ids \ used : json[i] = 0

(* A file that is about to be replaced has not the name of the session,    *)
(* and a save that has made its path of it is of the session that moves.   *)
RenameApart ==
  rename.pc = "json" =>
    /\ rename.to # id
    /\ saver.pc = "named" /\ saver.file = rename.to => rename.old = id

(* While a save is between truncation and write, its file is truncated.    *)
OpenIsPartial == saver.pc = "open" /\ saver.file # Null => json[saver.file] = Partial

(* What a save may overwrite is not promised, unless as the last save of   *)
(* this session, or is given up already.                                   *)
Given == lost \cup replaced
Replaceable(v) == v \in promised => v = lastSaved \/ v \in Given

TargetsReplaceable ==
  /\ Replaceable(json[id])
  /\ saver.pc = "named" => Replaceable(json[saver.file])
  /\ saver.pc = "open" => Replaceable(saver.over)

StoreInv ==
  Shapes /\ FreshIsEmpty /\ RenameApart /\ OpenIsPartial /\ TargetsReplaceable /\ SavedSurvives

-----------------------------------------------------------------------------
LEMMA InitStore == Init => StoreInv
  BY StoreAssumption DEF Init, StoreInv, Shapes, FreshIsEmpty, RenameApart, OpenIsPartial,
     Replaceable, TargetsReplaceable, SavedSurvives, NoSave, NoRename

(* Steps that change neither a file nor who writes it.                     *)
LEMMA MemorySteps ==
  ASSUME StoreInv,
         Converse \/ EndTurn \/ Clear \/ Compact \/ AgentDispatcher \/ AgentPush \/ AgentEnv
  PROVE  StoreInv'
<1>1. /\ UNCHANGED <<id, used, json, saver, lastSaved, promised, lost, replaced>>
      /\ rename' = rename \/ rename' = [rename EXCEPT !.push = Null]
      /\ saver.pc = "idle"
  BY DEF Converse, EndTurn, Clear, Compact, AgentDispatcher, AgentPush, AgentEnv, Free, disk,
     history, StoreInv, Shapes
<1>2. version' \in Nat /\ made' \in Nat /\ (agent' = "log" => version' # 0)
  BY DEF Converse, EndTurn, Clear, Compact, AgentDispatcher, AgentPush, AgentEnv, Revise,
     StoreInv, Shapes
<1>3. Shapes'
  BY <1>1, <1>2 DEF StoreInv, Shapes
<1>4. rename'.pc = rename.pc /\ rename'.old = rename.old /\ rename'.to = rename.to
  BY <1>1 DEF StoreInv, Shapes
<1> QED
  BY <1>1, <1>3, <1>4 DEF StoreInv, FreshIsEmpty, RenameApart, OpenIsPartial, Replaceable, Given,
     TargetsReplaceable, SavedSurvives, OnDisk, BeingReplaced

(* A save is started: by the turn, or after /compact.                      *)
LEMMA SaveStarts ==
  ASSUME StoreInv, Save \/ LogSnapshot
  PROVE  StoreInv'
<1>1. /\ saver.pc = "idle" /\ version # 0
      /\ saver' = [pc |-> "named", file |-> id, v |-> version, over |-> 0]
      /\ UNCHANGED <<id, version, made, used, json, rename, lastSaved, promised, replaced>>
      /\ lost \subseteq lost' /\ agent' \in {"idle", "turn"}
  BY DEF Save, LogSnapshot, Free, memory, disk, history, StoreInv, Shapes
<1>2. Shapes'
  BY <1>1 DEF StoreInv, Shapes
<1> QED
  BY <1>1, <1>2 DEF StoreInv, Shapes, FreshIsEmpty, RenameApart, OpenIsPartial, Replaceable, Given,
     TargetsReplaceable, SavedSurvives, OnDisk, BeingReplaced

LEMMA Opens == ASSUME StoreInv, SaveOpen PROVE StoreInv'
<1> UNCHANGED <<agent, id, version, made, used, rename, lastSaved, promised, lost, replaced>>
    /\ saver.pc = "named"
  BY DEF SaveOpen, memory, history
<1>1. CASE saver' = NoSave /\ UNCHANGED json
  BY <1>1 DEF NoSave, StoreInv, Shapes, FreshIsEmpty, RenameApart, OpenIsPartial, Replaceable,
     Given, TargetsReplaceable, SavedSurvives, OnDisk, BeingReplaced
<1>2. CASE /\ json' = [json EXCEPT ![saver.file] = Partial]
           /\ saver' = [saver EXCEPT !.pc = "open", !.over = json[saver.file]]
  <2>1. Shapes'
    BY <1>2 DEF StoreInv, Shapes, Partial
  <2>2. FreshIsEmpty' /\ OpenIsPartial' /\ RenameApart'
    BY <1>2 DEF StoreInv, Shapes, FreshIsEmpty, OpenIsPartial, RenameApart
  <2>3. TargetsReplaceable'
    BY <1>2 DEF StoreInv, Shapes, Replaceable, Given, TargetsReplaceable, Partial, Versions
  <2>4. SavedSurvives'
    BY <1>2 DEF StoreInv, Shapes, SavedSurvives, OnDisk, BeingReplaced
  <2> QED
    BY <2>1, <2>2, <2>3, <2>4 DEF StoreInv
<1> QED
  BY <1>1, <1>2 DEF SaveOpen

LEMMA Writes == ASSUME StoreInv, SaveWrite PROVE StoreInv'
<1> UNCHANGED <<agent, id, version, made, used, rename>> /\ saver.pc = "open" /\ saver' = NoSave
  BY DEF SaveWrite, memory
<1>1. CASE lost' = lost \cup {saver.over} /\ UNCHANGED <<json, lastSaved, promised, replaced>>
  BY <1>1 DEF NoSave, StoreInv, Shapes, FreshIsEmpty, RenameApart, OpenIsPartial, Replaceable,
     Given, TargetsReplaceable, SavedSurvives, OnDisk, BeingReplaced
<1>2. CASE /\ json' = [i \in Ids |-> IF i = saver.file THEN saver.v ELSE json[i]]
           /\ lastSaved' = saver.v
           /\ promised' = (promised \ {lastSaved}) \cup {saver.v}
           /\ replaced' = IF saver.file = Null THEN replaced \cup {saver.v} ELSE replaced
           /\ UNCHANGED lost
  <2>1. Shapes'
    BY <1>2 DEF StoreInv, Shapes, NoSave, Versions
  <2>2. FreshIsEmpty' /\ OpenIsPartial' /\ RenameApart'
    BY <1>2, StoreAssumption DEF StoreInv, Shapes, FreshIsEmpty, OpenIsPartial, RenameApart, NoSave
  <2>3. TargetsReplaceable'
    BY <1>2 DEF StoreInv, Shapes, Replaceable, Given, TargetsReplaceable, NoSave
  <2>4. ASSUME NEW v \in promised', v \notin lost, v \notin replaced'
        PROVE  OnDisk(v)'
    <3>1. CASE v = saver.v
      BY <1>2, <2>4, <3>1 DEF OnDisk, StoreInv, Shapes
    <3>2. CASE v # saver.v
      <4>1. v \in promised /\ v # lastSaved /\ v \notin Given /\ v > 0
        BY <1>2, <2>4, <3>2 DEF Given, StoreInv, Shapes, Versions
      <4>2. saver.over # v
        BY <4>1 DEF StoreInv, TargetsReplaceable, Replaceable
      <4>3. PICK i \in Ids : json[i] = v
        BY <4>1, <4>2 DEF StoreInv, SavedSurvives, OnDisk, BeingReplaced, Given
      <4>4. i # saver.file
        BY <4>1, <4>3, StoreAssumption DEF StoreInv, OpenIsPartial, Partial, Versions
      <4> QED
        BY <1>2, <4>3, <4>4 DEF OnDisk
    <3> QED
      BY <3>1, <3>2
  <2> QED
    BY <1>2, <2>1, <2>2, <2>3, <2>4 DEF StoreInv, SavedSurvives
<1> QED
  BY <1>1, <1>2 DEF SaveWrite

(* /agent begins a session under a name that has no file.                  *)
LEMMA NewAgent == ASSUME StoreInv, AgentSession PROVE StoreInv'
<1>1. /\ id' \in Fresh /\ used' = used \cup {id'} /\ version' = 0 /\ lastSaved' = 0
      /\ agent' = "push" /\ saver.pc = "idle"
      /\ UNCHANGED <<made, json, saver, rename, promised, lost, replaced>>
  BY DEF AgentSession, disk, StoreInv, Shapes
<1>2. Shapes'
  BY <1>1 DEF StoreInv, Shapes, Fresh
<1>3. TargetsReplaceable' /\ RenameApart'
  BY <1>1 DEF StoreInv, Shapes, Fresh, FreshIsEmpty, RenameApart, Replaceable,
     TargetsReplaceable, Versions
<1> QED
  BY <1>1, <1>2, <1>3 DEF StoreInv, FreshIsEmpty, OpenIsPartial, SavedSurvives, OnDisk, BeingReplaced

-----------------------------------------------------------------------------
(* SetSessionID.                                                           *)

LEMMA Renames == ASSUME StoreInv, RenameStart PROVE StoreInv'
<1>1. PICK to \in Ids \ {id} :
         /\ rename' = [pc |-> "json", old |-> id, to |-> to, push |-> Null]
         /\ used' = used \cup {to}
  BY DEF RenameStart
<1>2. UNCHANGED <<agent, id, version, made, json, saver, lastSaved, promised, lost, replaced>>
  BY DEF RenameStart, disk, history
<1>3. Shapes'
  BY <1>1, <1>2 DEF StoreInv, Shapes
<1> QED
  BY <1>1, <1>2, <1>3 DEF StoreInv, Shapes, FreshIsEmpty, RenameApart, OpenIsPartial,
     Replaceable, Given, TargetsReplaceable, SavedSurvives, OnDisk, BeingReplaced

LEMMA MovesFile == ASSUME StoreInv, RenameJson PROVE StoreInv'
<1> UNCHANGED <<agent, id, version, made, used, lastSaved, promised, lost>> /\ rename.pc = "json"
  BY DEF RenameJson, memory
<1> DEFINE old == rename.old
           to == rename.to
<1>0. to # id /\ to # old /\ old \in Ids /\ to \in Ids /\ to \in used /\ old \in used
  BY DEF StoreInv, Shapes, RenameApart
<1>1. CASE rename' \in {NoRename, [rename EXCEPT !.pc = "clog"]} /\ UNCHANGED <<json, saver, replaced>>
  BY <1>1 DEF NoRename, StoreInv, Shapes, FreshIsEmpty, RenameApart, OpenIsPartial, Replaceable,
     Given, TargetsReplaceable, SavedSurvives, OnDisk, BeingReplaced
<1>2. CASE /\ json' = [json EXCEPT ![to] = json[old], ![old] = 0]
           /\ saver' = IF saver.pc = "open" THEN [saver EXCEPT !.file = FileMoved(@)] ELSE saver
           /\ replaced' = replaced \cup {json[to]}
           /\ rename' = [rename EXCEPT !.pc = "clog"]
  <2>1. /\ json' \in [Ids -> Nat \cup {Partial}]
        /\ json'[to] = json[old] /\ json'[old] = 0
        /\ \A i \in Ids \ {old, to} : json'[i] = json[i]
    BY <1>0, <1>2 DEF StoreInv, Shapes
  <2>2. /\ saver'.pc = saver.pc /\ saver'.over = saver.over /\ saver'.v = saver.v
        /\ saver'.file = IF saver.pc = "open" THEN FileMoved(saver.file) ELSE saver.file
        /\ rename'.pc = "clog" /\ rename'.old = old /\ rename'.to = to
    BY <1>0, <1>2 DEF StoreInv, Shapes
  <2>3. Shapes'
    BY <1>0, <1>2, <2>1, <2>2 DEF StoreInv, Shapes, FileMoved
  <2>4. FreshIsEmpty' /\ RenameApart'
    BY <1>0, <2>1, <2>2 DEF StoreInv, Shapes, FreshIsEmpty, RenameApart
  <2>5. OpenIsPartial'
    <3> SUFFICES ASSUME saver.pc = "open", FileMoved(saver.file) # Null
                 PROVE  json'[FileMoved(saver.file)] = Partial
      BY <2>2 DEF OpenIsPartial
    <3>1. saver.file \in Ids /\ saver.file # to /\ json[saver.file] = Partial
      BY <1>0, StoreAssumption DEF StoreInv, Shapes, OpenIsPartial, FileMoved
    <3> QED
      BY <1>0, <2>1, <3>1 DEF FileMoved
  <2>6. TargetsReplaceable'
    BY <1>0, <1>2, <2>1, <2>2 DEF StoreInv, Shapes, RenameApart, Replaceable, Given,
       TargetsReplaceable, Versions
  <2>7. SavedSurvives'
    BY <1>0, <1>2, <2>1, <2>2 DEF StoreInv, Shapes, SavedSurvives, OnDisk, BeingReplaced, Versions
  <2> QED
    BY <2>3, <2>4, <2>5, <2>6, <2>7 DEF StoreInv
<1> QED
  BY <1>1, <1>2 DEF RenameJson

LEMMA RenameGoesOn ==
  ASSUME StoreInv, RenameLog \/ RenamePush \/ RenameEnv
  PROVE  StoreInv'
<1>1. /\ UNCHANGED <<agent, id, version, made, used, json, saver, lastSaved, promised, lost>>
      /\ replaced \subseteq replaced'
      /\ \/ rename' = NoRename
         \/ rename.pc = "clog" /\ rename' = [rename EXCEPT !.pc = "id"]
         \/ rename.pc = "push" /\ rename' = [rename EXCEPT !.pc = "env", !.push = id]
  BY DEF RenameLog, RenamePush, RenameEnv, memory, disk, history
<1>2. /\ rename' \in [pc : {"idle", "id", "env"},
                       old : Ids \cup {Null}, to : Ids \cup {Null}, push : Ids \cup {Null}]
      /\ rename'.pc # "idle" => rename.pc # "idle" /\ rename'.old = rename.old /\ rename'.to = rename.to
  <2>1. CASE rename' = NoRename
    BY <2>1 DEF NoRename
  <2>2. CASE rename.pc = "clog" /\ rename' = [rename EXCEPT !.pc = "id"]
    BY <2>2 DEF StoreInv, Shapes
  <2>3. CASE rename.pc = "push" /\ rename' = [rename EXCEPT !.pc = "env", !.push = id]
    BY <2>3 DEF StoreInv, Shapes
  <2> QED
    BY <1>1, <2>1, <2>2, <2>3
<1>3. Shapes'
  BY <1>1, <1>2 DEF StoreInv, Shapes
<1>4. RenameApart'
  BY <1>2 DEF RenameApart
<1> QED
  BY <1>1, <1>3, <1>4 DEF StoreInv, FreshIsEmpty, OpenIsPartial, Replaceable, Given,
     TargetsReplaceable, SavedSurvives, OnDisk, BeingReplaced

(* The file of another session that has the name is given up.              *)
LEMMA TakesName == ASSUME StoreInv, RenameId PROVE StoreInv'
<1>1. /\ UNCHANGED <<agent, version, made, used, json, saver, lastSaved, promised, lost>>
      /\ rename.pc = "id" /\ rename' = [rename EXCEPT !.pc = "push"] /\ id' = rename.to
      /\ replaced' = replaced \cup ({json[rename.to]} \ {lastSaved})
  BY DEF RenameId, disk
<1>2. Shapes'
  BY <1>1 DEF StoreInv, Shapes
<1> QED
  BY <1>1, <1>2 DEF StoreInv, Shapes, FreshIsEmpty, RenameApart, OpenIsPartial, Replaceable, Given,
     TargetsReplaceable, SavedSurvives, OnDisk, BeingReplaced

(* A crash in a save destroys what it was replacing, and nothing else.     *)
LEMMA Restarts == ASSUME StoreInv, Restart PROVE StoreInv'
<1>1. /\ \/ id' \in Readable /\ version' = json[id'] /\ lastSaved' = version'
         \/ id' \in Fresh /\ version' = 0 /\ lastSaved' = 0
      /\ used' = used \cup {id'} /\ saver' = NoSave /\ rename' = NoRename
      /\ lost' = IF saver.pc = "open" THEN lost \cup {saver.over} ELSE lost
      /\ UNCHANGED <<made, json, promised, replaced>> /\ agent' = "idle"
  BY DEF Restart
<1>2. id' \in Ids /\ version' \in Nat /\ lastSaved' = version'
  BY <1>1 DEF Readable, Fresh, StoreInv, Shapes, Partial
<1>3. Shapes'
  BY <1>1, <1>2 DEF StoreInv, Shapes, NoSave, NoRename
<1>4. TargetsReplaceable'
  BY <1>1 DEF Readable, Fresh, NoSave, NoRename, StoreInv, Shapes, FreshIsEmpty, Replaceable,
     TargetsReplaceable, Versions
<1>5. SavedSurvives'
  BY <1>1 DEF NoSave, StoreInv, SavedSurvives, OnDisk, BeingReplaced
<1> QED
  BY <1>1, <1>3, <1>4, <1>5 DEF NoSave, NoRename, StoreInv, FreshIsEmpty, RenameApart, OpenIsPartial

-----------------------------------------------------------------------------
LEMMA StoreStep == ASSUME StoreInv, [Next]_vars PROVE StoreInv'
<1>1. CASE UNCHANGED vars
  BY <1>1 DEF vars, memory, disk, history, StoreInv, Shapes, FreshIsEmpty, RenameApart,
     OpenIsPartial, Replaceable, Given, TargetsReplaceable, SavedSurvives, OnDisk, BeingReplaced
<1>2. CASE Next
  <2>1. CASE Converse \/ EndTurn \/ Clear \/ Compact \/ AgentDispatcher \/ AgentPush \/ AgentEnv
    BY <2>1, MemorySteps
  <2>2. CASE Save \/ LogSnapshot
    BY <2>2, SaveStarts
  <2>3. CASE SaveOpen \/ SaveWrite
    BY <2>3, Opens, Writes
  <2>4. CASE AgentSession
    BY <2>4, NewAgent
  <2>5. CASE RenameStart \/ RenameJson \/ RenameLog \/ RenameId \/ RenamePush \/ RenameEnv
    BY <2>5, Renames, MovesFile, RenameGoesOn, TakesName
  <2>6. CASE Restart
    BY <2>6, Restarts
  <2> QED
    BY <1>2, <2>1, <2>2, <2>3, <2>4, <2>5, <2>6 DEF Next
<1> QED
  BY <1>1, <1>2

LEMMA StoreSafe == Spec => []StoreInv
<1>1. StoreInv /\ [Next]_vars => StoreInv'
  BY StoreStep
<1> QED
  BY <1>1, InitStore, PTL DEF Spec

(* SetSessionID may overlap turns, saves, /agent, failures of any and      *)
(* crashes, and its new name may be in use: the last save of every session *)
(* is still on disk, unless a save of the same session died in its middle  *)
(* or a rename gave the name away (core.go:502-528, session.go:49).        *)
THEOREM SavesSurvive == Spec => []SavedSurvives
<1>1. StoreInv => SavedSurvives
  BY DEF StoreInv
<1> QED
  BY <1>1, StoreSafe, PTL

-----------------------------------------------------------------------------
(* The history that /compact replaces.  A version is overwritten only      *)
(* after it is in the compaction log; between the two the command neither  *)
(* saves nor lets anything else save.                                      *)

InLog(v) == \E i \in Ids : v \in clog[i]
Kept(v) == v \in lost \/ v \in replaced \/ InLog(v)

LogShapes ==
  /\ clog \in [Ids -> SUBSET Versions]
  /\ compacted \subseteq 1 .. made /\ snapshot \in Nat
  /\ version <= made /\ \A i \in Ids : json[i] <= made
  /\ version \notin compacted
  /\ saver.pc # "idle" => saver.v = version
  /\ agent = "log" => snapshot # 0

LastThere ==
  lastSaved # 0 => OnDisk(lastSaved) \/ Kept(lastSaved) \/ BeingReplaced(lastSaved)

Disposable(v) == v \in compacted => Kept(v) \/ (agent = "log" /\ v = snapshot)

TargetsDisposable ==
  /\ Disposable(json[id]) /\ Disposable(lastSaved)
  /\ saver.pc = "named" => Disposable(json[saver.file])
  /\ saver.pc = "open" => Disposable(saver.over)

LogInv == LogShapes /\ LastThere /\ TargetsDisposable /\ HistoryKept

LEMMA InitLog == Init => LogInv
  BY StoreAssumption DEF Init, NoSave, NoRename, LogInv, LogShapes, LastThere,
     Disposable, TargetsDisposable, HistoryKept

(* A turn, its end, /clear and the server of /agent change at most the     *)
(* version, to one that no file and no log has.                            *)
LEMMA TalkKeepsLog ==
  ASSUME StoreInv, LogInv,
         Converse \/ EndTurn \/ Clear \/ AgentDispatcher \/ AgentPush \/ AgentEnv
  PROVE  LogInv'
<1>1. /\ UNCHANGED <<id, json, clog, saver, snapshot, lastSaved, compacted, lost, replaced>>
      /\ saver.pc = "idle" /\ agent # "log" /\ agent' # "log"
      /\ \/ version' = made + 1 /\ made' = made + 1
         \/ version' = version /\ made' = made
         \/ version' = 0 /\ made' = made
  BY DEF Converse, EndTurn, Clear, AgentDispatcher, AgentPush, AgentEnv, Free, Revise, disk,
     history, StoreInv, Shapes
<1>2. LogShapes'
  BY <1>1 DEF LogInv, LogShapes, StoreInv, Shapes, Partial
<1> QED
  BY <1>1, <1>2 DEF LogInv, LastThere, OnDisk, BeingReplaced, Kept, InLog, Disposable,
     TargetsDisposable, HistoryKept

LEMMA CompactKeepsLog == ASSUME StoreInv, LogInv, Compact PROVE LogInv'
<1>1. /\ UNCHANGED <<id, json, clog, saver, lastSaved, lost, replaced>>
      /\ saver.pc = "idle" /\ agent = "idle" /\ agent' = "log"
      /\ version # 0 /\ snapshot' = version /\ version' = made + 1 /\ made' = made + 1
      /\ compacted' = IF version = lastSaved THEN compacted \cup {version} ELSE compacted
  BY DEF Compact, Free, Revise, disk
<1>2. LogShapes'
  BY <1>1 DEF LogInv, LogShapes, StoreInv, Shapes, Partial
<1>3. LastThere'
  BY <1>1 DEF LogInv, LastThere, OnDisk, BeingReplaced, Kept, InLog
<1>4. TargetsDisposable'
  BY <1>1 DEF LogInv, Kept, InLog, Disposable, TargetsDisposable
<1>5. HistoryKept'
  BY <1>1 DEF LogInv, LastThere, HistoryKept, OnDisk, BeingReplaced, Kept, InLog
<1> QED
  BY <1>2, <1>3, <1>4, <1>5 DEF LogInv

(* The log entry is written, or lost to an error.                          *)
LEMMA LogKeepsLog == ASSUME StoreInv, LogInv, LogSnapshot PROVE LogInv'
<1>1. /\ UNCHANGED <<id, version, made, json, lastSaved, compacted, replaced>>
      /\ saver' = [pc |-> "named", file |-> id, v |-> version, over |-> 0]
      /\ saver.pc = "idle" /\ agent = "log" /\ agent' = "idle" /\ snapshot' = 0 /\ snapshot # 0
      /\ \/ clog' = [clog EXCEPT ![id] = @ \cup {snapshot}] /\ UNCHANGED lost
         \/ lost' = lost \cup {snapshot} /\ UNCHANGED clog
  BY DEF LogSnapshot, Free
<1>2. id \in Ids /\ snapshot \in Versions /\ clog \in [Ids -> SUBSET Versions]
  BY <1>1 DEF LogInv, LogShapes, StoreInv, Shapes, Versions
<1>3. (\A v : Kept(v) \/ v = snapshot => Kept(v)') /\ lost \subseteq lost'
  BY <1>1, <1>2 DEF Kept, InLog
<1>4. \A v : InLog(v) => InLog(v)'
  BY <1>1, <1>2 DEF InLog
<1>5. LogShapes'
  BY <1>1, <1>2 DEF LogInv, LogShapes
<1>6. LastThere'
  BY <1>1, <1>3 DEF LogInv, LastThere, OnDisk, BeingReplaced
<1>7. TargetsDisposable'
  BY <1>1, <1>3 DEF LogInv, Disposable, TargetsDisposable
<1>8. HistoryKept'
  BY <1>1, <1>3, <1>4 DEF LogInv, HistoryKept, OnDisk, InLog
<1> QED
  BY <1>5, <1>6, <1>7, <1>8 DEF LogInv

(* The path is made; nothing is written yet.                               *)
LEMMA SaveKeepsLog == ASSUME StoreInv, LogInv, Save PROVE LogInv'
  BY DEF Save, Free, memory, disk, history, LogInv, LogShapes, LastThere, OnDisk, BeingReplaced,
     Kept, InLog, Disposable, TargetsDisposable, HistoryKept

(* Truncation: what is there is in the log already.                        *)
LEMMA OpenKeepsLog == ASSUME StoreInv, LogInv, SaveOpen PROVE LogInv'
<1> /\ UNCHANGED <<agent, id, version, made, snapshot, clog, lastSaved, compacted, lost, replaced>>
    /\ saver.pc = "named" /\ agent # "log" /\ saver.v = version
  BY DEF SaveOpen, memory, history, LogInv, LogShapes, StoreInv, Shapes
<1>1. CASE saver' = NoSave /\ UNCHANGED json
  BY <1>1 DEF NoSave, LogInv, LogShapes, LastThere, OnDisk, BeingReplaced, Kept, InLog,
     Disposable, TargetsDisposable, HistoryKept
<1>2. CASE /\ json' = [json EXCEPT ![saver.file] = Partial]
           /\ saver' = [saver EXCEPT !.pc = "open", !.over = json[saver.file]]
  <2>1. /\ saver.file \in Ids /\ json'[saver.file] = -1 /\ json \in [Ids -> Nat \cup {-1}]
        /\ \A i \in Ids \ {saver.file} : json'[i] = json[i]
        /\ saver'.pc = "open" /\ saver'.file = saver.file /\ saver'.v = version
        /\ saver'.over = json[saver.file] /\ -1 \notin compacted /\ made \in Nat
    BY <1>2 DEF StoreInv, Shapes, Partial, LogInv, LogShapes
  <2>2. LogShapes'
    BY <2>1 DEF LogInv, LogShapes
  <2>3. LastThere'
    BY <2>1 DEF LogInv, LastThere, OnDisk, BeingReplaced, Kept, InLog
  <2>4. TargetsDisposable'
    BY <2>1 DEF LogInv, TargetsDisposable, Disposable, Kept, InLog, StoreInv, Shapes
  <2>5. HistoryKept'
    BY <2>1 DEF LogInv, TargetsDisposable, Disposable, Kept, InLog, HistoryKept, OnDisk
  <2> QED
    BY <2>2, <2>3, <2>4, <2>5 DEF LogInv
<1> QED
  BY <1>1, <1>2 DEF SaveOpen

LEMMA WriteKeepsLog == ASSUME StoreInv, LogInv, SaveWrite PROVE LogInv'
<1> /\ UNCHANGED <<agent, id, version, made, snapshot, clog, compacted>>
    /\ saver.pc = "open" /\ saver' = NoSave /\ agent # "log" /\ saver.v = version
    /\ saver.file # Null => saver.file \in Ids /\ json[saver.file] = -1
    /\ -1 \notin compacted /\ version \notin compacted
  BY DEF SaveWrite, memory, LogInv, LogShapes, StoreInv, Shapes, OpenIsPartial, Partial
<1>1. CASE lost' = lost \cup {saver.over} /\ UNCHANGED <<json, lastSaved, replaced>>
  BY <1>1 DEF NoSave, LogInv, LogShapes, LastThere, OnDisk, BeingReplaced, Kept, InLog,
     Disposable, TargetsDisposable, HistoryKept
<1>2. CASE /\ json' = [i \in Ids |-> IF i = saver.file THEN saver.v ELSE json[i]]
           /\ lastSaved' = saver.v /\ UNCHANGED lost
           /\ replaced' = IF saver.file = Null THEN replaced \cup {saver.v} ELSE replaced
  <2>1. /\ saver.file \in Ids => json'[saver.file] = version
        /\ \A i \in Ids \ {saver.file} : json'[i] = json[i]
        /\ replaced \subseteq replaced'
        /\ saver.file \notin Ids => version \in replaced'
    BY <1>2, StoreAssumption DEF StoreInv, Shapes, LogInv, LogShapes
  <2>2. LogShapes'
    BY <1>2, <2>1 DEF NoSave, LogInv, LogShapes
  <2>3. LastThere'
    BY <1>2, <2>1 DEF LogInv, LastThere, OnDisk, Kept
  <2>4. TargetsDisposable'
    BY <1>2, <2>1 DEF NoSave, LogInv, TargetsDisposable, Disposable, Kept, InLog, StoreInv, Shapes
  <2>5. \A v \in compacted : OnDisk(v) => OnDisk(v)'
    BY <2>1, StoreAssumption DEF OnDisk
  <2>6. HistoryKept'
    BY <1>2, <2>1, <2>5 DEF LogInv, HistoryKept
  <2> QED
    BY <2>2, <2>3, <2>4, <2>6 DEF LogInv
<1> QED
  BY <1>1, <1>2 DEF SaveWrite

LEMMA AgentKeepsLog == ASSUME StoreInv, LogInv, AgentSession PROVE LogInv'
<1>1. /\ id' \in Ids \ used /\ version' = 0 /\ lastSaved' = 0
      /\ agent' = "push" /\ agent # "log" /\ saver.pc = "idle" /\ json[id'] = 0
      /\ UNCHANGED <<made, json, clog, saver, snapshot, compacted, lost, replaced>>
  BY DEF AgentSession, Fresh, disk, StoreInv, Shapes, FreshIsEmpty
<1> QED
  BY <1>1 DEF StoreInv, Shapes, LogInv, LogShapes, LastThere, OnDisk, Kept, InLog,
     Disposable, TargetsDisposable, HistoryKept

-----------------------------------------------------------------------------
(* SetSessionID carries the log along.                                     *)

LEMMA RenameKeepsLog ==
  ASSUME StoreInv, LogInv, RenameStart \/ RenamePush \/ RenameEnv
  PROVE  LogInv'
<1>1. UNCHANGED <<agent, id, version, made, json, clog, saver, snapshot, lastSaved, compacted,
                  lost, replaced>>
  BY DEF RenameStart, RenamePush, RenameEnv, memory, disk, history
<1> QED
  BY <1>1 DEF LogInv, LogShapes, LastThere, OnDisk, BeingReplaced, Kept, InLog, Disposable,
     TargetsDisposable, HistoryKept

LEMMA TakesNameKeepsLog == ASSUME StoreInv, LogInv, RenameId PROVE LogInv'
<1>1. /\ UNCHANGED <<agent, version, made, json, clog, saver, snapshot, lastSaved, compacted, lost>>
      /\ id' = rename.to /\ replaced' = replaced \cup ({json[rename.to]} \ {lastSaved})
  BY DEF RenameId, disk
<1> QED
  BY <1>1 DEF LogInv, LogShapes, LastThere, OnDisk, BeingReplaced, Kept, InLog, Disposable,
     TargetsDisposable, HistoryKept

LEMMA FileMoveKeepsLog == ASSUME StoreInv, LogInv, RenameJson PROVE LogInv'
<1> /\ UNCHANGED <<agent, id, version, made, snapshot, clog, lastSaved, compacted, lost>>
    /\ rename.pc = "json"
  BY DEF RenameJson, memory
<1> DEFINE old == rename.old
           to == rename.to
<1>0. to # id /\ to # old /\ old \in Ids /\ to \in Ids /\ 0 \notin compacted
  BY DEF StoreInv, Shapes, RenameApart, LogInv, LogShapes
<1>1. CASE UNCHANGED <<json, saver, replaced>>
  BY <1>1 DEF LogInv, LogShapes, LastThere, OnDisk, BeingReplaced, Kept, InLog, Disposable,
     TargetsDisposable, HistoryKept
<1>2. CASE /\ json' = [json EXCEPT ![to] = json[old], ![old] = 0]
           /\ saver' = IF saver.pc = "open" THEN [saver EXCEPT !.file = FileMoved(@)] ELSE saver
           /\ replaced' = replaced \cup {json[to]}
  <2>1. /\ json'[to] = json[old] /\ json'[old] = 0
        /\ \A i \in Ids \ {old, to} : json'[i] = json[i]
    BY <1>0, <1>2 DEF StoreInv, Shapes
  <2>2. /\ saver'.pc = saver.pc /\ saver'.over = saver.over /\ saver'.v = saver.v
        /\ saver.pc = "named" => saver'.file = saver.file
    BY <1>0, <1>2 DEF StoreInv, Shapes
  <2>3. LogShapes'
    BY <1>0, <2>1, <2>2 DEF LogInv, LogShapes, StoreInv, Shapes
  <2>4. LastThere'
    BY <1>0, <1>2, <2>1, <2>2 DEF LogInv, LastThere, OnDisk, BeingReplaced, Kept, InLog
  <2>5. TargetsDisposable'
    BY <1>0, <1>2, <2>1, <2>2 DEF LogInv, TargetsDisposable, Disposable, Kept, InLog, StoreInv,
       Shapes, RenameApart
  <2>6. \A v : OnDisk(v) => OnDisk(v)' \/ v \in replaced' \/ v = 0
    BY <1>0, <1>2, <2>1 DEF OnDisk
  <2>7. HistoryKept'
    BY <1>0, <1>2, <2>6 DEF LogInv, HistoryKept
  <2> QED
    BY <2>3, <2>4, <2>5, <2>7 DEF LogInv
<1> QED
  BY <1>1, <1>2 DEF RenameJson

LEMMA LogMoveKeepsLog == ASSUME StoreInv, LogInv, RenameLog PROVE LogInv'
<1> /\ UNCHANGED <<agent, id, version, made, snapshot, json, saver, lastSaved, compacted, lost>>
    /\ rename.pc = "clog"
  BY DEF RenameLog, memory
<1> DEFINE old == rename.old
           to == rename.to
<1>0. old \in Ids /\ to \in Ids /\ to # old
  BY DEF StoreInv, Shapes
<1>1. CASE UNCHANGED <<clog, replaced>>
  BY <1>1 DEF LogInv, LogShapes, LastThere, OnDisk, BeingReplaced, Kept, InLog, Disposable,
     TargetsDisposable, HistoryKept
<1>2. CASE /\ clog' = [clog EXCEPT ![to] = clog[old], ![old] = {}]
           /\ replaced' = replaced \cup clog[to]
  <2>1. /\ clog' \in [Ids -> SUBSET Versions] /\ clog'[to] = clog[old] /\ clog'[old] = {}
        /\ \A i \in Ids \ {old, to} : clog'[i] = clog[i]
    BY <1>0, <1>2 DEF LogInv, LogShapes
  <2>2. \A v : InLog(v) => InLog(v)' \/ v \in replaced'
    BY <1>0, <1>2, <2>1 DEF InLog
  <2>3. LogShapes'
    BY <1>0, <2>1 DEF LogInv, LogShapes
  <2>4. \A v : Kept(v) => Kept(v)'
    BY <1>2, <2>2 DEF Kept
  <2>5. LastThere' /\ TargetsDisposable'
    BY <2>4 DEF LogInv, LastThere, OnDisk, BeingReplaced, TargetsDisposable, Disposable
  <2>6. HistoryKept'
    BY <1>2, <2>2 DEF LogInv, HistoryKept, OnDisk, InLog
  <2> QED
    BY <2>3, <2>5, <2>6 DEF LogInv
<1> QED
  BY <1>1, <1>2 DEF RenameLog

(* A restarted process holds what its file holds: nothing compacted.       *)
LEMMA RestartKeepsLog == ASSUME StoreInv, LogInv, Restart PROVE LogInv'
<1>1. /\ \/ id' \in Readable /\ version' = json[id'] /\ lastSaved' = version'
         \/ id' \in Ids \ used /\ version' = 0 /\ lastSaved' = 0 /\ json[id'] = 0
      /\ saver' = NoSave /\ lost \subseteq lost' /\ compacted' = compacted \ {version'}
      /\ agent' = "idle" /\ snapshot' = 0
      /\ UNCHANGED <<made, json, clog, replaced>>
  BY DEF Restart, Fresh, StoreInv, FreshIsEmpty
<1>2. id' \in Ids /\ version' = json[id'] /\ lastSaved' = json[id'] /\ version' \in Nat
  BY <1>1 DEF Readable, StoreInv, Shapes, Partial
<1>3. LogShapes'
  BY <1>1, <1>2 DEF LogInv, LogShapes, NoSave, StoreInv, Shapes
<1>4. LastThere'
  BY <1>1, <1>2 DEF LastThere, OnDisk
<1>5. TargetsDisposable'
  BY <1>1, <1>2 DEF TargetsDisposable, Disposable, NoSave
<1>6. HistoryKept'
  BY <1>1 DEF LogInv, HistoryKept, OnDisk
<1> QED
  BY <1>3, <1>4, <1>5, <1>6 DEF LogInv

-----------------------------------------------------------------------------
LEMMA LogStep ==
  StoreInv /\ LogInv /\ [Next]_vars => LogInv'
<1> SUFFICES ASSUME StoreInv, LogInv, [Next]_vars PROVE LogInv'
  OBVIOUS
<1>1. CASE UNCHANGED vars
  BY <1>1 DEF vars, memory, disk, history, LogInv, LogShapes, LastThere, OnDisk, BeingReplaced,
     Kept, InLog, Disposable, TargetsDisposable, HistoryKept
<1>2. CASE Next
  <2>1. CASE Converse \/ EndTurn \/ Clear \/ AgentDispatcher \/ AgentPush \/ AgentEnv
    BY <2>1, TalkKeepsLog
  <2>2. CASE Compact \/ LogSnapshot \/ AgentSession
    BY <2>2, CompactKeepsLog, LogKeepsLog, AgentKeepsLog
  <2>3. CASE Save \/ SaveOpen \/ SaveWrite
    BY <2>3, SaveKeepsLog, OpenKeepsLog, WriteKeepsLog
  <2>4. CASE RenameStart \/ RenameJson \/ RenameLog \/ RenameId \/ RenamePush \/ RenameEnv
    BY <2>4, RenameKeepsLog, TakesNameKeepsLog, FileMoveKeepsLog, LogMoveKeepsLog
  <2>5. CASE Restart
    BY <2>5, RestartKeepsLog
  <2> QED
    BY <1>2, <2>1, <2>2, <2>3, <2>4, <2>5 DEF Next
<1> QED
  BY <1>1, <1>2

(* What /compact removes from a saved session is in the compaction log, or *)
(* still in a session file (commands.go:224-235), unless writing one of    *)
(* them failed or a rename replaced one of them or gave its name away.     *)
THEOREM CompactionLogged == Spec => []HistoryKept
<1>1. LogInv => HistoryKept
  BY DEF LogInv
<1> QED
  BY <1>1, LogStep, InitLog, StoreSafe, PTL DEF Spec

-----------------------------------------------------------------------------
(* The types.  What is on disk, in memory or being written is a version    *)
(* that was made.                                                          *)
SaverType(m) ==
  [pc : {"idle", "named", "open"}, file : Ids \cup {Null}, v : 0 .. m, over : Nat \cup {Partial}]
RenameType ==
  [pc : {"idle", "json", "clog", "id", "push", "env"},
   old : Ids \cup {Null}, to : Ids \cup {Null}, push : Ids \cup {Null}]

StoreTypes ==
  /\ StoreTypeOK /\ used \subseteq Ids
  /\ \A i \in Ids : json[i] <= made
  /\ snapshot <= made /\ version <= made /\ lastSaved <= made
  /\ saver \in SaverType(made) /\ (saver.pc = "named" => saver.file \in Ids)
  /\ rename \in RenameType /\ (rename.pc # "idle" => {rename.old, rename.to} \subseteq Ids)

LEMMA TypesStep == StoreTypes /\ [Next]_vars => StoreTypes'
<1> SUFFICES ASSUME StoreTypes, [Next]_vars PROVE StoreTypes'
  OBVIOUS
<1> USE StoreAssumption DEF StoreTypes, StoreTypeOK, NoSave, NoRename, SaverType, RenameType
<1>1. CASE UNCHANGED vars
  BY <1>1 DEF vars, memory, disk, server, history
<1>2. CASE Converse \/ EndTurn \/ Clear \/ Save
  BY <1>2 DEF Converse, EndTurn, Clear, Save, Revise, disk, server, history, memory
<1>3. CASE SaveOpen
  <2>1. CASE saver' = NoSave /\ UNCHANGED json
    BY <1>3, <2>1 DEF SaveOpen, memory, server, history
  <2>2. CASE /\ json' = [json EXCEPT ![saver.file] = Partial]
             /\ saver' = [saver EXCEPT !.pc = "open", !.over = json[saver.file]]
    <3>1. /\ saver.pc = "named" /\ saver.file \in Ids
          /\ UNCHANGED <<id, version, made, used, agent, snapshot, pushed, clog, env, crossed,
                         rename, lastSaved>>
      BY <1>3 DEF SaveOpen, memory, server, history
    <3>2. json[saver.file] \in Nat \cup {Partial}
      BY <3>1 DEF Partial
    <3>3. saver'.pc = "open" /\ saver'.file = saver.file /\ saver' \in SaverType(made)
      BY <2>2, <3>2
    <3>4. json' \in [Ids -> -1 .. MaxVersion] /\ \A i \in Ids : json'[i] <= made
      BY <2>2, <3>1 DEF Partial
    <3> QED
      BY <3>1, <3>3, <3>4
  <2> QED
    BY <1>3, <2>1, <2>2 DEF SaveOpen
<1>4. CASE SaveWrite
  BY <1>4 DEF SaveWrite, memory, server
<1>5. CASE Compact
  BY <1>5 DEF Compact, Revise, disk, server
<1>6. CASE LogSnapshot
  BY <1>6 DEF LogSnapshot, server
<1>7. CASE AgentDispatcher
  <2>1. rename' \in RenameType /\ rename'.pc = rename.pc /\ rename'.old = rename.old /\ rename'.to = rename.to
    BY <1>7 DEF AgentDispatcher
  <2> QED
    BY <1>7, <2>1 DEF AgentDispatcher, disk, history
<1>13. CASE AgentSession \/ AgentPush \/ AgentEnv
  BY <1>13 DEF AgentSession, AgentPush, AgentEnv, Fresh, disk, server, history
<1>8. CASE RenameStart
  BY <1>8 DEF RenameStart, disk, server, history
<1>9. CASE RenameJson
  BY <1>9 DEF RenameJson, FileMoved, memory, server
<1>10. CASE RenameLog
  BY <1>10 DEF RenameLog, memory, server
<1>11. CASE RenameId
  BY <1>11 DEF RenameId, disk, server
<1>14. CASE RenamePush
  <2>1. /\ rename' \in RenameType /\ rename.pc # "idle" /\ rename'.pc = "env"
        /\ rename'.old = rename.old /\ rename'.to = rename.to
    BY <1>14 DEF RenamePush
  <2> QED
    BY <1>14, <2>1 DEF RenamePush, memory, disk, server, history
<1>15. CASE RenameEnv
  BY <1>15 DEF RenameEnv, memory, disk, history
<1>12. CASE Restart
  <2>1. crossed' \in BOOLEAN
    BY <1>12, ZenonT(30) DEF Restart
  <2>2. /\ id' \in Ids /\ used' \subseteq Ids /\ env' \in Ids /\ pushed' = Null
        /\ version' \in 0 .. made /\ lastSaved' = version' /\ snapshot' = 0
        /\ agent' = "idle" /\ saver' = NoSave /\ rename' = NoRename
        /\ UNCHANGED <<made, json, clog>>
    BY <1>12 DEF Restart, Readable, Fresh
  <2> QED
    BY <2>1, <2>2
<1> QED
  BY <1>1, <1>2, <1>3, <1>4, <1>5, <1>6, <1>7, <1>8, <1>9, <1>10, <1>11, <1>12,
     <1>13, <1>14, <1>15 DEF Next

(* A session resumed after a restart is one that was made, and a file that *)
(* is written, moved or truncated is that of an id (session.go:25-49).     *)
THEOREM StoreTyped == Spec => []StoreTypeOK
<1>1. Init => StoreTypes
  <2>1. Init => crossed \in BOOLEAN
    BY Zenon DEF Init
  <2> QED
    BY <2>1, StoreAssumption DEF Init, StoreTypes, StoreTypeOK, NoSave, NoRename, SaverType, RenameType
<1>2. StoreTypes => StoreTypeOK
  BY DEF StoreTypes
<1> QED
  BY <1>1, <1>2, TypesStep, PTL DEF Spec

-----------------------------------------------------------------------------
(* The environment.  While a rename and /agent have not met, the id that   *)
(* either is about to tell the server is that of the session.              *)
Telling == {"session", "push", "env"}

EnvInv ==
  ~crossed =>
    /\ agent \in Telling => rename.pc = "idle"
    /\ agent \notin Telling /\ rename.pc # "env" /\ rename.pc # "push" => env = id
    /\ rename.pc = "env" => rename.push = id
    /\ agent = "env" => pushed = id

LEMMA EnvStep == StoreInv /\ EnvInv /\ [Next]_vars => EnvInv'
<1> SUFFICES ASSUME StoreInv, EnvInv, [Next]_vars PROVE EnvInv'
  OBVIOUS
<1> USE StoreAssumption DEF EnvInv, Telling
<1>1. CASE UNCHANGED vars
  BY <1>1 DEF vars, memory, server
<1>2. CASE Converse \/ EndTurn \/ Save \/ Compact \/ LogSnapshot \/ Clear
  BY <1>2 DEF Converse, EndTurn, Save, Compact, LogSnapshot, Clear, server, memory
<1>3. CASE SaveOpen \/ SaveWrite
  BY <1>3 DEF SaveOpen, SaveWrite, server, memory
<1>4. CASE AgentDispatcher \/ AgentSession \/ AgentPush \/ AgentEnv
  <2>1. CASE AgentDispatcher
    <3>1. ~crossed' => rename.pc = "idle"
      BY <2>1 DEF AgentDispatcher
    <3>2. agent' = "session" /\ rename'.pc = rename.pc
      BY <2>1 DEF AgentDispatcher, StoreInv, Shapes
    <3> QED
      BY <3>1, <3>2
  <2>2. CASE AgentSession \/ AgentPush \/ AgentEnv
    BY <2>2 DEF AgentSession, AgentPush, AgentEnv, server
  <2> QED
    BY <1>4, <2>1, <2>2
<1>5. rename.pc # "idle" => rename \in [pc : {"json", "clog", "id", "push", "env"},
        old : Ids \cup {Null}, to : Ids \cup {Null}, push : Ids \cup {Null}]
  BY DEF StoreInv, Shapes
<1>6. CASE RenameStart
  <2>1. /\ rename.pc = "idle" /\ rename'.pc = "json" /\ UNCHANGED <<id, agent, pushed, env>>
        /\ crossed' = (crossed \/ agent \in Telling)
    BY <1>6 DEF RenameStart
  <2>2. ~crossed' => ~crossed /\ agent \notin Telling
    BY <2>1, Zenon
  <2> QED
    BY <2>1, <2>2
<1>7. CASE RenameJson \/ RenameLog
  <2>1. /\ UNCHANGED <<id, agent, pushed, env, crossed>> /\ rename.pc \notin {"idle", "push", "env"}
        /\ rename'.pc \in {"idle", "clog", "id"}
    BY <1>5, <1>7 DEF RenameJson, RenameLog, NoRename, server, memory
  <2> QED
    BY <2>1
<1>8. CASE RenameId
  BY <1>5, <1>8 DEF RenameId, server
<1>9. CASE RenamePush
  BY <1>5, <1>9 DEF RenamePush, server, memory
<1>10. CASE RenameEnv
  <2>1. id \in Ids
    BY DEF StoreInv, Shapes
  <2> QED
    BY <1>10, <2>1 DEF RenameEnv, NoRename, memory
<1>11. CASE Restart
  BY <1>11 DEF Restart, NoRename
<1> QED
  BY <1>1, <1>2, <1>3, <1>4, <1>6, <1>7, <1>8, <1>9, <1>10, <1>11 DEF Next

(* However SetSessionID, saves, failures and restarts interleave, and      *)
(* /agent before and after them, commands see the id of the session; only  *)
(* a rename and /agent that overlapped are excepted (core.go:265-271,      *)
(* commands.go:187-196).                                                   *)
THEOREM EnvFollows == Spec => []EnvFollowsId
<1>1. Init => EnvInv
  BY DEF Init, EnvInv, Telling, NoRename
<1>2. EnvInv => EnvFollowsId
  BY DEF EnvInv, EnvFollowsId, Telling
<1> QED
  BY <1>1, <1>2, EnvStep, StoreSafe, PTL DEF Spec

=============================================================================
