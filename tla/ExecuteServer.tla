---------------------------- MODULE ExecuteServer ----------------------------
(***************************************************************************)
(* The execute server of pkg/tools/execute: the tools execute_code,        *)
(* call_tool and pipe, called by several goroutines at once (server.go:306 *)
(* "before the Server handles concurrent requests").  A call is a list of  *)
(* steps.  dispatchSteps cuts it into stages: a run of read-class steps is *)
(* one stage whose steps run concurrently, each under a shared flock; any  *)
(* other step is a stage of its own under the exclusive flock.  A list of  *)
(* one plain step and every pipe stage run without the flock.              *)
(*                                                                         *)
(* A step is a record [code, tool, elevated, parallel], parallel being a   *)
(* sequence of steps without groups of their own (groups in groups are     *)
(* left out); scripts, languages and patterns are abstracted to the        *)
(* subsets of Codes and Tools that the code tells apart.  Text that a step *)
(* prints is represented by the step's position <<step, member>>.          *)
(* Sandbox set-up, the command and its timeout are one action that ends    *)
(* well or badly: an interrupt kills the command, which ends badly.        *)
(***************************************************************************)
EXTENDS Integers, Sequences, FiniteSets

CONSTANTS Requests,     \* goroutines, each with one call
          Calls,        \* [tool, steps] that callers send
          Null,         \* the empty string in code and tool
          Domain,       \* codes in awk, sed, jq, ed, bc, expect
          Dangerous,    \* codes that match a pattern
          Unsupported,  \* codes in a language without an interpreter
          Missing,      \* tools without a script
          ReadTools,    \* scripts annotated "ollie:parallel read"
          Locking,      \* lockDir is set
          Strict,       \* only tool steps are accepted
          Trusted       \* execute_code is a trusted tool

IsSequence(s) == s \in Seq({s[k] : k \in DOMAIN s})

ASSUME ServerAssumption ==
  /\ {Locking, Strict, Trusted} \subseteq BOOLEAN
  /\ Null \notin Calls
  /\ \A c \in Calls : IsSequence(c.steps)
  /\ \A c \in Calls : \A i \in DOMAIN c.steps : IsSequence(c.steps[i].parallel)

VARIABLES
  call,        \* the call a request makes
  phase,       \* "idle", "lock" (waits for the exclusive flock), "stage", "done"
  at,          \* first step of the current stage
  work,        \* status of each concurrent member of the current stage
  locks,       \* flocks held: <<request, member, mode>>, member 0 being the stage
  out,         \* collected output
  reply,       \* [kind, step]: what CallTool returned
  began, good  \* history: members that were begun, that ended well

history == <<began, good>>
vars == <<call, phase, at, work, locks, out, reply, history>>

-----------------------------------------------------------------------------
(* How a call is cut into stages.                                          *)

(* ollie:parallel read, write, or no annotation; inline code, groups and   *)
(* elevated steps are global.  Only read differs from the others.  The     *)
(* code reads a script here and again to run it (code.go:35): scripts do   *)
(* not change in between, nor while a call runs.                           *)
ReadClass(s) ==
  /\ s.code = Null /\ s.parallel = <<>> /\ ~s.elevated /\ s.tool # Null
  /\ s.tool \in ReadTools \ Missing

(* dispatchSteps goes through its loop; otherwise it is a single step.     *)
Listed(c) == c.tool # "pipe" /\ (Len(c.steps) > 1 \/ c.steps[1].parallel # <<>>)

(* Mutant: the exclusive flock is only taken by lists of several steps.    *)
ModeGroupsUnlocked(c, i) ==
  IF ~Locking \/ ~Listed(c) \/ c.steps[i].parallel # <<>> THEN "none"
  ELSE IF ReadClass(c.steps[i]) THEN "SH" ELSE "EX"

(* The flock under which the step runs.                                    *)
Mode(c, i) ==
  IF ~Locking \/ ~Listed(c) THEN "none"
  ELSE IF ReadClass(c.steps[i]) THEN "SH" ELSE "EX"

(* Where a stage that starts with the read-class step i may end.           *)
BatchEnds(c, i) ==
  {j \in i .. Len(c.steps) : j = Len(c.steps) \/ ~ReadClass(c.steps[j + 1])}

(* The last step of the stage that starts with step i.                     *)
StageEnd(c, i) ==
  IF Listed(c) /\ ReadClass(c.steps[i])
  THEN CHOOSE j \in BatchEnds(c, i) : \A k \in BatchEnds(c, i) : j <= k
  ELSE i

(* Members of the stage, in submission order: the steps of a read batch,   *)
(* or the steps of a parallel group, or the step itself.                   *)
Members(c, i) ==
  LET group == c.steps[i].parallel
  IN  IF group # <<>> THEN [k \in DOMAIN group |-> <<i, k>>]
      ELSE [k \in 1 .. StageEnd(c, i) - i + 1 |-> <<i + k - 1, 0>>]

StepAt(c, id) == IF id[2] = 0 THEN c.steps[id[1]] ELSE c.steps[id[1]].parallel[id[2]]

(* A tool name where only names are allowed; groups are looked into.       *)
Named(s) == IF s.parallel = <<>> THEN s.tool # Null
            ELSE \A k \in DOMAIN s.parallel : s.parallel[k].tool # Null

AllNamed(c) == \A i \in DOMAIN c.steps : Named(c.steps[i])

(* enforceStrict; for execute_code and pipe, too.                          *)
StrictRefuses(c) == Strict /\ ~AllNamed(c)

(* Argument checks before anything runs.                                   *)
Refused(c) ==
  \/ Len(c.steps) = 0
  \/ c.tool = "call_tool" /\ ~AllNamed(c)
  \/ StrictRefuses(c)

-----------------------------------------------------------------------------
Statuses == {"lock", "ready", "checked", "running", "ok", "error"}
NoReply == [kind |-> "none", step |-> 0]

Init ==
  /\ call = [r \in Requests |-> Null]
  /\ phase = [r \in Requests |-> "idle"]
  /\ at = [r \in Requests |-> 1]
  /\ work = [r \in Requests |-> <<>>]
  /\ locks = {}
  /\ out = [r \in Requests |-> <<>>]
  /\ reply = [r \in Requests |-> NoReply]
  /\ began = [r \in Requests |-> {}] /\ good = [r \in Requests |-> {}]

(* Mutant: the members of a read batch do not take their shared flock.     *)
EnterStageUnlocked(r, c, i) ==
  /\ at' = [at EXCEPT ![r] = i]
  /\ phase' = [phase EXCEPT ![r] = IF Mode(c, i) = "EX" THEN "lock" ELSE "stage"]
  /\ work' = [work EXCEPT ![r] = [k \in DOMAIN Members(c, i) |-> "ready"]]

(* Goes to the stage of call c that starts with step i.                    *)
EnterStage(r, c, i) ==
  /\ at' = [at EXCEPT ![r] = i]
  /\ phase' = [phase EXCEPT ![r] = IF Mode(c, i) = "EX" THEN "lock" ELSE "stage"]
  /\ work' = [work EXCEPT ![r] =
       [k \in DOMAIN Members(c, i) |-> IF Mode(c, i) = "SH" THEN "lock" ELSE "ready"]]

Answer(r, kind, i) ==
  /\ phase' = [phase EXCEPT ![r] = "done"]
  /\ reply' = [reply EXCEPT ![r] = [kind |-> kind, step |-> i]]
  /\ UNCHANGED <<at, work>>

(* Dispatch up to the first stage: argument checks, then Confirm.          *)
Dispatch(r) ==
  /\ phase[r] = "idle"
  /\ \E c \in Calls :
       /\ call' = [call EXCEPT ![r] = c]
       /\ \/ ~Refused(c) /\ EnterStage(r, c, 1) /\ UNCHANGED reply
          \/ /\ Refused(c) \/ ~Trusted
             /\ Answer(r, "error", 0)
  /\ UNCHANGED <<locks, out, history>>

-----------------------------------------------------------------------------
(* The flock: blocking, without a deadline, and deaf to the context.       *)
Grantable(mode) ==
  IF mode = "EX" THEN locks = {} ELSE \A l \in locks : l[3] = "SH"

AcquireExclusive(r) ==
  /\ phase[r] = "lock" /\ Grantable("EX")
  /\ locks' = locks \cup {<<r, 0, "EX">>}
  /\ phase' = [phase EXCEPT ![r] = "stage"]
  /\ UNCHANGED <<call, at, work, out, reply, history>>

Advance(r, k, status) == work' = [work EXCEPT ![r][k] = status]

AcquireShared(r, k) ==
  /\ phase[r] = "stage" /\ work[r][k] = "lock" /\ Grantable("SH")
  /\ locks' = locks \cup {<<r, k, "SH">>}
  /\ Advance(r, k, "ready")
  /\ UNCHANGED <<call, phase, at, out, reply, history>>

(* The lock file cannot be opened: the stage, or the member, fails.        *)
LockFails(r) ==
  /\ \/ phase[r] = "lock" /\ Answer(r, "error", at[r])
     \/ /\ phase[r] = "stage"
        /\ \E k \in DOMAIN work[r] : work[r][k] = "lock" /\ Advance(r, k, "error")
        /\ UNCHANGED <<phase, at, reply>>
  /\ UNCHANGED <<call, locks, out, history>>

-----------------------------------------------------------------------------
(* One member: resolve, validate, run.                                     *)

Id(r, k) == Members(call[r], at[r])[k]
Step(r, k) == StepAt(call[r], Id(r, k))

(* Mutant: the goroutine of a member keeps its shared flock.               *)
EndKeepsFlock(r, k, status) ==
  /\ Advance(r, k, status)
  /\ locks' = locks

(* The goroutine ends: its deferred Close releases its shared flock.       *)
End(r, k, status) ==
  /\ Advance(r, k, status)
  /\ locks' = locks \ {<<r, k, "SH">>}

(* What ValidateCode is not asked about: elevated steps, scripts, and      *)
(* languages that are constrained by design.                               *)
Unchecked(s) == s.elevated \/ s.tool # Null \/ s.code \in Domain

(* A member that cannot be resolved: the tool has no script, or, where the *)
(* single-step path does not intervene, the step names nothing at all.     *)
Unresolved(r, k) ==
  LET s == Step(r, k)
      single == call[r].tool # "pipe" /\ ~Listed(call[r])
  IN  /\ ~s.elevated
      /\ \/ s.tool \in Missing
         \/ s.tool = Null /\ s.code = Null /\ Id(r, k)[2] = 0 /\ ~single

(* executeWithStdin and executeElevated up to the command.  Inline code in *)
(* a general-purpose language passes the rate limiter first.               *)
Begin(r, k) ==
  /\ phase[r] = "stage" /\ work[r][k] = "ready"
  /\ began' = [began EXCEPT ![r] = @ \cup {Id(r, k)}]
  /\ IF Unresolved(r, k) THEN End(r, k, "error")
     ELSE IF Unchecked(Step(r, k)) THEN Advance(r, k, "running") /\ UNCHANGED locks
     ELSE \/ End(r, k, "error")                 \* rate limited
          \/ Advance(r, k, "checked") /\ UNCHANGED locks
  /\ UNCHANGED <<call, phase, at, out, reply, good>>

(* ValidateCode after the rate limiter, then the choice of interpreter.    *)
Match(r, k) ==
  /\ phase[r] = "stage" /\ work[r][k] = "checked"
  /\ IF Step(r, k).code \in Dangerous \cup Unsupported THEN End(r, k, "error")
     ELSE Advance(r, k, "running") /\ UNCHANGED locks
  /\ UNCHANGED <<call, phase, at, out, reply, history>>

(* The command ends: exit status 0, or a failure, a timeout, an interrupt, *)
(* a sandbox that cannot be set up.                                        *)
Finish(r, k) ==
  /\ phase[r] = "stage" /\ work[r][k] = "running"
  /\ \/ End(r, k, "ok") /\ good' = [good EXCEPT ![r] = @ \cup {Id(r, k)}]
     \/ End(r, k, "error") /\ UNCHANGED good
  /\ UNCHANGED <<call, phase, at, out, reply, began>>

-----------------------------------------------------------------------------
Ended(r) == \A k \in DOMAIN work[r] : work[r][k] \in {"ok", "error"}

(* Mutant: only the last member's error is looked at.                      *)
FailedLast(r) == {k \in DOMAIN work[r] : work[r][k] = "error" /\ k = Len(work[r])}

Failed(r) == {k \in DOMAIN work[r] : work[r][k] = "error"}

(* A list concatenates; a pipe hands the stage's output to the next one.   *)
Collect(r) ==
  out' = [out EXCEPT ![r] = IF call[r].tool = "pipe" THEN Members(call[r], at[r])
                            ELSE @ \o Members(call[r], at[r])]

(* wg.Wait, then the first error in submission order, if any, ends the     *)
(* call; CallTool's error reply drops the output collected so far.         *)
FinishStage(r) ==
  /\ phase[r] = "stage" /\ Ended(r)
  /\ locks' = locks \ {<<r, 0, "EX">>}
  /\ \/ /\ Failed(r) # {}
        /\ Answer(r, "error", at[r])
        /\ out' = [out EXCEPT ![r] = <<>>]
     \/ /\ Failed(r) = {}
        /\ Collect(r)
        /\ LET next == StageEnd(call[r], at[r]) + 1
           IN  IF next > Len(call[r].steps) THEN Answer(r, "ok", 0)
               ELSE EnterStage(r, call[r], next) /\ UNCHANGED reply
  /\ UNCHANGED <<call, history>>

MemberStep(r, k) == AcquireShared(r, k) \/ Begin(r, k) \/ Match(r, k) \/ Finish(r, k)

RequestStep(r) ==
  \/ Dispatch(r) \/ AcquireExclusive(r) \/ LockFails(r) \/ FinishStage(r)
  \/ \E k \in DOMAIN work[r] : MemberStep(r, k)

Terminating == (\A r \in Requests : phase[r] = "done") /\ UNCHANGED vars

Next == (\E r \in Requests : RequestStep(r)) \/ Terminating

Spec == Init /\ [][Next]_vars

(* Goroutines are scheduled, the kernel grants a free flock, and a command *)
(* comes back, at its timeout at the latest: CommandReturns of Subprocess, *)
(* with the assumption that no process out of reach holds the output.      *)
FairSpec ==
  /\ Spec
  /\ \A r \in Requests :
       /\ WF_vars(AcquireExclusive(r)) /\ WF_vars(FinishStage(r))
       /\ WF_vars(\E k \in DOMAIN work[r] : MemberStep(r, k))

-----------------------------------------------------------------------------
(* Properties.                                                             *)

(* Types; and a call that is under way is at one of its steps.             *)
TypeOK ==
  /\ phase \in [Requests -> {"idle", "lock", "stage", "done"}]
  /\ call \in [Requests -> Calls \cup {Null}]
  /\ at \in [Requests -> Nat \ {0}]
  /\ DOMAIN work = Requests
  /\ \A r \in Requests : work[r] \in [DOMAIN work[r] -> Statuses]
  /\ \A r \in Requests : phase[r] \in {"lock", "stage"} =>
       call[r] \in Calls /\ at[r] <= Len(call[r].steps)

(* The lock table: the exclusive flock is alone; whoever runs under a      *)
(* flock holds it; and a flock is held by a stage, or a member, that runs. *)
LockTable ==
  /\ \A l \in locks : l[3] = "EX" => locks = {l}
  /\ \A r \in Requests : phase[r] = "lock" => Mode(call[r], at[r]) = "EX"
  /\ \A r \in Requests : phase[r] = "stage" =>
       /\ Mode(call[r], at[r]) = "EX" => <<r, 0, "EX">> \in locks
       /\ Mode(call[r], at[r]) = "SH" => \A k \in DOMAIN work[r] :
            work[r][k] \in {"ready", "checked", "running"} => <<r, k, "SH">> \in locks
  /\ \A l \in locks : \E r \in Requests :
       /\ phase[r] = "stage"
       /\ \/ l = <<r, 0, "EX">>
          \/ \E k \in DOMAIN work[r] :
               l = <<r, k, "SH">> /\ work[r][k] \in {"ready", "checked", "running"}

(* The strengthening under which the mutual exclusion is inductive.        *)
Safe == TypeOK /\ LockTable

(* While a write or global step of a list runs, no step of another list    *)
(* runs: dispatchSteps runs it under the exclusive flock, and every step   *)
(* of a read batch under a shared one (code.go:274, pipe.go:91).           *)
Active(r, k) == phase[r] = "stage" /\ work[r][k] \in {"checked", "running"}

Writing(r) == Listed(call[r]) /\ ~ReadClass(call[r].steps[at[r]])

WriterExclusion ==
  \A r, s \in Requests : \A k \in DOMAIN work[r], m \in DOMAIN work[s] :
    (Locking /\ r # s /\ Active(r, k) /\ Active(s, m) /\ Writing(r)) => ~Listed(call[s])

(* What a reply says happened did happen.  A success: every step ended     *)
(* well and the text is all of their output in submission order, whatever  *)
(* order a batch finished in (for a pipe, the last stage's).  An error:    *)
(* every earlier stage ended well, and no later one was begun.             *)
Elements(s) == {s[k] : k \in DOMAIN s}
MemberIds(c) == UNION {Elements(Members(c, i)) : i \in DOMAIN c.steps}
Before(a, b) == a[1] < b[1] \/ (a[1] = b[1] /\ a[2] < b[2])
Shown(c) == {m \in MemberIds(c) : c.tool = "pipe" => m[1] = Len(c.steps)}

Faithful(r) ==
  /\ reply[r].kind = "ok" =>
       /\ good[r] = MemberIds(call[r])
       /\ Elements(out[r]) = Shown(call[r])
       /\ \A k \in 1 .. Len(out[r]) - 1 : Before(out[r][k], out[r][k + 1])
  /\ reply[r].kind = "error" =>
       LET stage == IF reply[r].step = 0 THEN {}
                    ELSE Elements(Members(call[r], reply[r].step))
       IN  /\ \A m \in MemberIds(call[r]) : m[1] < reply[r].step => m \in good[r]
           /\ \A m \in began[r] : m[1] < reply[r].step \/ m \in stage
           /\ ~(stage \subseteq good[r]) \/ stage = {}

RepliesFaithful == \A r \in Requests : Faithful(r)

(* Every call is answered: no step waits for a flock that its own call     *)
(* holds, or that a finished call left behind.                             *)
CallsAnswered == \A r \in Requests : phase[r] # "idle" ~> phase[r] = "done"

=============================================================================
