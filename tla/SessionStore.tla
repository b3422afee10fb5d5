----------------------------- MODULE SessionStore -----------------------------
(***************************************************************************)
(* Session files and names: saveSession and the compaction log, written by *)
(* the goroutine that holds the turn or the command; /clear and /agent,    *)
(* run by the same goroutine; SetSessionID, called by another one without  *)
(* a lock, one call at a time; a crash between any two file operations and *)
(* the restart that follows.                                               *)
(*                                                                         *)
(* Every change of the in-memory history makes a new version, a number     *)
(* never used before; 0 is the nil session.  A .json file is 0 when it     *)
(* does not exist, Partial while it is truncated, and the version it holds *)
(* otherwise.  An open file is known by the name its inode has now, so     *)
(* that a rename carries a write in progress along, and Null when a rename *)
(* has replaced it.  An append to the log is one step.  A racing read of   *)
(* the id finds the old or the new one.  The tmpdir, which a rename moves  *)
(* too, is left out.  Which session a restarted process resumes is decided *)
(* outside src/ (RestoreSession's callers): any readable one.              *)
(***************************************************************************)
EXTENDS Integers, FiniteSets

CONSTANTS Ids,         \* session ids
          First,       \* the id the process starts with
          Null,
          MaxVersion   \* bound: changes of a history

ASSUME StoreAssumption ==
  First \in Ids /\ Null \notin Ids /\ MaxVersion \in Nat

VARIABLES
  id,          \* agent.sessionID
  version,     \* the session in memory
  made,        \* versions made so far
  json, clog,  \* <id>.json and <id>.compaction.jsonl
  env,         \* OLLIE_SESSION_ID of the execute server in use
  used,        \* ids given out so far
  agent,       \* "idle", "turn", "log", or the part of /agent to come
  snapshot,    \* PreCompactionSnapshot of /compact
  pushed,      \* the id /agent is about to tell its server
  saver,       \* saveTo: [pc, file, v, over]
  rename,      \* SetSessionID: [pc, old, to, push]
  lastSaved, promised, \* history: last save of this session, of every session
  compacted,   \* history: saved versions that /compact replaced
  lost,        \* history: what a crash or an error during a write destroyed
  replaced,    \* history: what a rename replaced, or gave the name of away
  crossed      \* history: a rename met /agent

memory == <<id, version, made, used, agent, snapshot, pushed>>
disk == <<json, clog>>
server == <<env, crossed>>
history == <<lastSaved, promised, compacted, lost, replaced>>
vars == <<memory, disk, server, saver, rename, history>>

Partial == -1
NoSave == [pc |-> "idle", file |-> Null, v |-> 0, over |-> 0]
NoRename == [pc |-> "idle", old |-> Null, to |-> Null, push |-> Null]

(* NewAgentCore tells its execute server the id.                           *)
Init ==
  /\ id = First /\ version = 0 /\ made = 0 /\ used = {First}
  /\ agent = "idle" /\ snapshot = 0 /\ pushed = Null
  /\ json = [i \in Ids |-> 0] /\ clog = [i \in Ids |-> {}]
  /\ env = First /\ crossed = FALSE
  /\ saver = NoSave /\ rename = NoRename
  /\ lastSaved = 0 /\ promised = {} /\ compacted = {} /\ lost = {} /\ replaced = {}

Fresh == Ids \ used     \* NewSessionID

Revise(v) == made < MaxVersion /\ made' = made + 1 /\ v = made + 1

-----------------------------------------------------------------------------
(* The goroutine of the turn or the command.                               *)

Free == saver.pc = "idle"

(* A turn starts or goes on: the history changes.                          *)
Converse ==
  /\ Free /\ agent \in {"idle", "turn"}
  /\ Revise(version') /\ agent' = "turn"
  /\ UNCHANGED <<id, used, snapshot, pushed, disk, server, saver, rename, history>>

(* A turn ends; a failed one has not been saved.                           *)
EndTurn ==
  /\ Free /\ agent = "turn"
  /\ agent' = "idle"
  /\ UNCHANGED <<id, version, made, used, snapshot, pushed, disk, server, saver, rename, history>>

(* saveSession: the path is made from the id before the file is opened.    *)
Save ==
  /\ Free /\ agent = "turn" /\ version # 0
  /\ saver' = [pc |-> "named", file |-> id, v |-> version, over |-> 0]
  /\ UNCHANGED <<memory, disk, server, rename, history>>

(* os.WriteFile: truncate, or fail and leave the file alone, ...           *)
SaveOpen ==
  /\ saver.pc = "named"
  /\ \/ /\ json' = [json EXCEPT ![saver.file] = Partial]
        /\ saver' = [saver EXCEPT !.pc = "open", !.over = json[saver.file]]
     \/ saver' = NoSave /\ UNCHANGED json
  /\ UNCHANGED <<memory, clog, server, rename, history>>

(* ... write, or fail and leave it truncated; the error is only logged.    *)
(* A file that a rename has replaced takes the write with it.              *)
SaveWrite ==
  /\ saver.pc = "open"
  /\ saver' = NoSave
  /\ \/ /\ json' = [i \in Ids |-> IF i = saver.file THEN saver.v ELSE json[i]]
        /\ lastSaved' = saver.v
        /\ promised' = (promised \ {lastSaved}) \cup {saver.v}
        /\ replaced' = IF saver.file = Null THEN replaced \cup {saver.v} ELSE replaced
        /\ UNCHANGED <<compacted, lost>>
     \/ /\ lost' = lost \cup {saver.over}
        /\ UNCHANGED <<json, lastSaved, promised, compacted, replaced>>
  /\ UNCHANGED <<memory, clog, server, rename>>

(* /compact: the snapshot is taken, then the summary replaces the history. *)
Compact ==
  /\ Free /\ agent = "idle" /\ version # 0
  /\ Revise(version') /\ agent' = "log" /\ snapshot' = version
  /\ compacted' = IF version = lastSaved THEN compacted \cup {version} ELSE compacted
  /\ UNCHANGED <<id, used, pushed, disk, server, saver, rename, lastSaved, promised, lost, replaced>>

(* Mutant: the session is saved before the log is written.                 *)
LogSnapshotAfterSave ==
  /\ agent = "log" /\ snapshot # 0 /\ Free
  /\ \/ /\ lastSaved # version
        /\ saver' = [pc |-> "named", file |-> id, v |-> version, over |-> 0]
        /\ UNCHANGED <<agent, snapshot, clog, lost>>
     \/ /\ lastSaved = version
        /\ clog' = [clog EXCEPT ![id] = @ \cup {snapshot}]
        /\ agent' = "turn" /\ snapshot' = 0
        /\ UNCHANGED <<saver, lost>>
  /\ UNCHANGED <<id, version, made, used, pushed, json, server, rename,
                 lastSaved, promised, compacted, replaced>>

(* ... and is appended to the log, errors ignored; saveSession follows.    *)
LogSnapshot ==
  /\ agent = "log" /\ snapshot # 0 /\ Free
  /\ \/ clog' = [clog EXCEPT ![id] = @ \cup {snapshot}] /\ UNCHANGED lost
     \/ lost' = lost \cup {snapshot} /\ UNCHANGED clog
  /\ saver' = [pc |-> "named", file |-> id, v |-> version, over |-> 0]
  /\ agent' = "idle" /\ snapshot' = 0
  /\ UNCHANGED <<id, version, made, used, pushed, json, server, rename,
                 lastSaved, promised, compacted, replaced>>

Clear ==
  /\ Free /\ agent = "idle"
  /\ version' = 0
  /\ UNCHANGED <<id, made, used, agent, snapshot, pushed, disk, server, saver, rename, history>>

(* /agent, one assignment that a rename can see per step: a new dispatcher *)
(* comes first, whose server knows no id (nor the lock directory).         *)
(* A rename that has the old server at hand tells that one the id.         *)
AgentDispatcher ==
  /\ Free /\ agent = "idle"
  /\ agent' = "session"
  /\ env' = Null
  /\ crossed' = (rename.pc # "idle")
  /\ rename' = [rename EXCEPT !.push = Null]
  /\ UNCHANGED <<id, version, made, used, snapshot, pushed, disk, saver, history>>

(* Mutant: the new session has no id.                                      *)
AgentSessionNoId ==
  /\ agent = "session"
  /\ agent' = "push"
  /\ id' = Null
  /\ version' = 0 /\ lastSaved' = 0
  /\ UNCHANGED <<made, used, snapshot, pushed, disk, server, saver, rename,
                 promised, compacted, lost, replaced>>

(* Mutant: the new session keeps the old one's id, and so its file.        *)
AgentSessionSameId ==
  /\ agent = "session"
  /\ agent' = "push"
  /\ version' = 0 /\ lastSaved' = 0
  /\ UNCHANGED <<id, made, used, snapshot, pushed, disk, server, saver, rename,
                 promised, compacted, lost, replaced>>

(* No session, and a new id for the next one.                              *)
AgentSession ==
  /\ agent = "session"
  /\ agent' = "push"
  /\ id' \in Fresh /\ used' = used \cup {id'}
  /\ version' = 0 /\ lastSaved' = 0
  /\ UNCHANGED <<made, snapshot, pushed, disk, server, saver, rename,
                 promised, compacted, lost, replaced>>

(* pushSessionEnv reads the id ...                                         *)
AgentPush ==
  /\ agent = "push"
  /\ agent' = "env" /\ pushed' = id
  /\ UNCHANGED <<id, version, made, used, snapshot, disk, server, saver, rename, history>>

(* ... and calls SetEnv of the new server.                                 *)
AgentEnv ==
  /\ agent = "env"
  /\ agent' = "idle" /\ pushed' = Null
  /\ env' = pushed
  /\ UNCHANGED <<id, version, made, used, snapshot, disk, crossed, saver, rename, history>>

-----------------------------------------------------------------------------
(* SetSessionID, one file operation or assignment per step.  It asks only  *)
(* whether the new id is the one the session has.                          *)

RenameStart ==
  /\ rename.pc = "idle"
  /\ \E to \in Ids \ {id} :
       /\ rename' = [pc |-> "json", old |-> id, to |-> to, push |-> Null]
       /\ used' = used \cup {to}
  /\ crossed' = (crossed \/ agent \in {"session", "push", "env"})
  /\ UNCHANGED <<id, version, made, agent, snapshot, pushed, disk, env, saver, history>>

(* os.Rename replaces a file that has the new name; one that is open is    *)
(* then written under no name.                                             *)
FileMoved(f) == IF f = rename.old THEN rename.to ELSE IF f = rename.to THEN Null ELSE f

(* A file that does not exist is skipped; an error ends the call there.    *)
RenameJson ==
  /\ rename.pc = "json"
  /\ \/ /\ json[rename.old] = 0
        /\ rename' = [rename EXCEPT !.pc = "clog"]
        /\ UNCHANGED <<json, saver, replaced>>
     \/ /\ json[rename.old] # 0
        /\ json' = [json EXCEPT ![rename.to] = json[rename.old], ![rename.old] = 0]
        /\ saver' = IF saver.pc = "open" THEN [saver EXCEPT !.file = FileMoved(@)] ELSE saver
        /\ replaced' = replaced \cup {json[rename.to]}
        /\ rename' = [rename EXCEPT !.pc = "clog"]
     \/ json[rename.old] # 0 /\ rename' = NoRename /\ UNCHANGED <<json, saver, replaced>>
  /\ UNCHANGED <<memory, clog, server, lastSaved, promised, compacted, lost>>

RenameLog ==
  /\ rename.pc = "clog"
  /\ \/ /\ clog[rename.old] = {}
        /\ rename' = [rename EXCEPT !.pc = "id"]
        /\ UNCHANGED <<clog, replaced>>
     \/ /\ clog[rename.old] # {}
        /\ clog' = [clog EXCEPT ![rename.to] = clog[rename.old], ![rename.old] = {}]
        /\ replaced' = replaced \cup clog[rename.to]
        /\ rename' = [rename EXCEPT !.pc = "id"]
     \/ clog[rename.old] # {} /\ rename' = NoRename /\ UNCHANGED <<clog, replaced>>
  /\ UNCHANGED <<memory, json, server, saver, lastSaved, promised, compacted, lost>>

(* The session in memory, which /agent may have replaced, takes the name,  *)
(* and with it a file that another session has left there.                 *)
RenameId ==
  /\ rename.pc = "id"
  /\ id' = rename.to
  /\ replaced' = replaced \cup ({json[rename.to]} \ {lastSaved})
  /\ rename' = [rename EXCEPT !.pc = "push"]
  /\ UNCHANGED <<version, made, used, agent, snapshot, pushed, disk, server, saver,
                 lastSaved, promised, compacted, lost>>

(* Mutant: the environment is told the name the call started with.         *)
RenamePushOld ==
  /\ rename.pc = "push"
  /\ rename' = [rename EXCEPT !.pc = "env", !.push = rename.old]
  /\ UNCHANGED <<memory, disk, server, saver, history>>

(* pushSessionEnv takes the server and reads the id, then calls SetEnv.    *)
RenamePush ==
  /\ rename.pc = "push"
  /\ rename' = [rename EXCEPT !.pc = "env", !.push = id]
  /\ UNCHANGED <<memory, disk, server, saver, history>>

RenameEnv ==
  /\ rename.pc = "env"
  /\ env' = IF rename.push = Null THEN env ELSE rename.push
  /\ rename' = NoRename
  /\ UNCHANGED <<memory, disk, crossed, saver, history>>

-----------------------------------------------------------------------------
(* Close, then nothing more; or a crash.  The next process resumes a       *)
(* readable session, or starts an unused one.                              *)

Readable == {i \in Ids : json[i] > 0}

Restart ==
  /\ \/ id' \in Readable /\ version' = json[id'] /\ lastSaved' = version'
     \/ id' \in Fresh /\ version' = 0 /\ lastSaved' = 0
  /\ used' = used \cup {id'}
  /\ env' = id' /\ crossed' = FALSE
  /\ agent' = "idle" /\ snapshot' = 0 /\ pushed' = Null
  /\ saver' = NoSave /\ rename' = NoRename
  /\ lost' = IF saver.pc = "open" THEN lost \cup {saver.over} ELSE lost
  /\ compacted' = compacted \ {version'}        \* resumed as it was before
  /\ UNCHANGED <<made, json, clog, promised, replaced>>

Next ==
  \/ Converse \/ EndTurn \/ Save \/ SaveOpen \/ SaveWrite
  \/ Compact \/ LogSnapshot \/ Clear
  \/ AgentDispatcher \/ AgentSession \/ AgentPush \/ AgentEnv
  \/ RenameStart \/ RenameJson \/ RenameLog \/ RenameId \/ RenamePush \/ RenameEnv
  \/ Restart

Spec == Init /\ [][Next]_vars

-----------------------------------------------------------------------------
(* Properties.                                                             *)

StoreTypeOK ==
  /\ id \in Ids /\ {env, pushed} \subseteq Ids \cup {Null} /\ crossed \in BOOLEAN
  /\ {version, lastSaved, snapshot} \subseteq 0 .. made /\ made \in 0 .. MaxVersion
  /\ json \in [Ids -> -1 .. MaxVersion] /\ clog \in [Ids -> SUBSET (1 .. MaxVersion)]
  /\ agent \in {"idle", "turn", "log", "session", "push", "env"}
  /\ saver.pc \in {"idle", "named", "open"}
  /\ rename.pc \in {"idle", "json", "clog", "id", "push", "env"}

OnDisk(v) == \E i \in Ids : json[i] = v
BeingReplaced(v) == saver.pc = "open" /\ saver.over = v

(* The last save of every session is on disk under some name, whatever     *)
(* renames, failed ones too, saves, /agent and restarts meet: it is lost   *)
(* only by a save of the same session that dies between truncation and     *)
(* write (session.go:49), and by a rename to the name it has or, with      *)
(* /agent in its middle, is given (core.go:510-517).                       *)
SavedSurvives == \A v \in promised \ (lost \cup replaced) : OnDisk(v) \/ BeingReplaced(v)

(* What /compact removes from a saved session is in the compaction log, or *)
(* the save that still contains it has not been overwritten, apart from    *)
(* the same two exceptions: the log is written before the session          *)
(* (commands.go:224-235).                                                  *)
HistoryKept ==
  \A v \in compacted \ (lost \cup replaced) : OnDisk(v) \/ \E i \in Ids : v \in clog[i]

(* core.go:500 says that SetSessionID propagates the id to the environment *)
(* of the execute server.  Whatever turns, saves, failures and restarts it *)
(* meets, and in whatever order it and /agent have run: when neither is    *)
(* under way, commands see the id the session has.  A rename and /agent    *)
(* that overlapped are excepted, since each tells its server an id it has  *)
(* read before (core.go:265-271, commands.go:187-196).                     *)
EnvFollowsId ==
  rename.pc = "idle" /\ agent \notin {"session", "push", "env"} /\ ~crossed => env = id

=============================================================================
