------------------------------ MODULE Subprocess ------------------------------
(***************************************************************************)
(* How the program runs a command, three times over: the commands of a     *)
(* hook one after the other (hooks.go), a step in the sandbox              *)
(* (executeWithStdin) and an elevated step (executeElevated).  A command   *)
(* is its process, "main", what it leaves in its process group, "child",   *)
(* and what has left the group for a session of its own, "daemon".  All of *)
(* them may hold the pipe of the command's output, and os/exec waits until *)
(* nobody does: none of the runners sets Cmd.WaitDelay.                    *)
(*                                                                         *)
(* Output is abstracted to the pipe; exit codes are 0, 2 (block) and       *)
(* Other, which also stands for a command that was killed.                 *)
(***************************************************************************)
EXTENDS Naturals, Sequences

CONSTANTS Runners,      \* among "hook", "code", "elevated"
          HookCommands  \* commands configured for the hook

ASSUME SubprocessAssumption ==
  Runners \subseteq {"hook", "code", "elevated"} /\ HookCommands \in Nat \ {0}

VARIABLES
  runner,
  place,       \* "start", "wait", "drain" (given up, waits for done), "returned"
  alive,       \* processes of the current command
  holding,     \* those of them that hold its output
  exit,        \* of main
  reaped,      \* Process.Wait has returned, and the context is watched no longer
  ctxError,    \* Wait will report that the context ended the command
  context,     \* "live", "cancelled", "deadline"
  expired,     \* the timer of a hook
  allHandled,
  verdict,     \* what the runner returns
  ran          \* history: how each command ended, [exit, late]

process == <<alive, holding, exit>>
subprocessVars == <<runner, place, process, reaped, ctxError, context, expired,
                    allHandled, verdict, ran>>

Running == 3     \* no exit code yet
Other == 1

ContextDone == context # "live"
Late == ContextDone \/ expired

SubprocessInit ==
  /\ runner \in Runners
  /\ place = "start"
  /\ alive = {} /\ holding = {} /\ exit = Running
  /\ reaped = FALSE /\ ctxError = FALSE
  /\ context = "live" /\ expired = FALSE
  /\ allHandled = TRUE /\ verdict = "none" /\ ran = <<>>

-----------------------------------------------------------------------------
(* The processes.                                                          *)

ForkChild ==
  /\ "child" \notin alive /\ "main" \in alive
  /\ alive' = alive \cup {"child"}
  /\ holding' \in {holding, holding \cup {"child"}}
  /\ UNCHANGED <<runner, place, exit, reaped, ctxError, context, expired,
                 allHandled, verdict, ran>>

(* setsid: out of reach of a signal to the group.                          *)
ForkDaemon ==
  /\ "daemon" \notin alive /\ alive # {}
  /\ alive' = alive \cup {"daemon"}
  /\ \/ UNCHANGED holding
     \/ holding # {} /\ holding' = holding \cup {"daemon"}
  /\ UNCHANGED <<runner, place, exit, reaped, ctxError, context, expired,
                 allHandled, verdict, ran>>

Ends(p) ==
  /\ p \in alive
  /\ alive' = alive \ {p} /\ holding' = holding \ {p}
  /\ IF p = "main" THEN exit' \in {0, 2, Other} ELSE UNCHANGED exit
  /\ UNCHANGED <<runner, place, reaped, ctxError, context, expired,
                 allHandled, verdict, ran>>

(* Mutant: only the process itself is killed.                              *)
KillMainOnly(victims) ==
  /\ alive' = alive \ {"main"} /\ holding' = holding \ {"main"}
  /\ exit' = IF "main" \in alive THEN Other ELSE exit

Kill(victims) ==
  /\ alive' = alive \ victims /\ holding' = holding \ victims
  /\ exit' = IF "main" \in alive THEN Other ELSE exit

Group == {"main", "child"}

(* os/exec, as long as Process.Wait has not returned: Cmd.Cancel.  That of *)
(* executeWithStdin kills the group, the default one the process, which    *)
(* may be a zombie already.                                                *)
ContextKills ==
  /\ place \in {"wait", "drain"} /\ ~reaped /\ ContextDone /\ ~ctxError
  /\ Kill(IF runner = "code" THEN Group ELSE {"main"})
  /\ ctxError' \in (IF runner = "code" \/ "main" \in alive THEN {TRUE} ELSE BOOLEAN)
  /\ UNCHANGED <<runner, place, reaped, context, expired, allHandled, verdict, ran>>

(* Process.Wait returns: from here on nobody looks at the context.         *)
Reap ==
  /\ place \in {"wait", "drain"} /\ ~reaped /\ "main" \notin alive
  /\ reaped' = TRUE
  /\ UNCHANGED <<runner, place, process, ctxError, context, expired,
                 allHandled, verdict, ran>>

(* Cmd.Wait has returned: the output was read to its end.                  *)
Waited == reaped /\ holding = {}

-----------------------------------------------------------------------------
(* Time and the caller.                                                    *)

CancelContext ==
  /\ ~ContextDone /\ place # "returned"
  /\ context' = "cancelled"
  /\ UNCHANGED <<runner, place, process, reaped, ctxError, expired,
                 allHandled, verdict, ran>>

(* context.WithTimeout of a step, time.After of a hook's command.          *)
TimePasses ==
  /\ place = "wait"
  /\ \/ runner = "hook" /\ ~expired /\ expired' = TRUE /\ UNCHANGED context
     \/ runner # "hook" /\ ~ContextDone /\ context' = "deadline" /\ UNCHANGED expired
  /\ UNCHANGED <<runner, place, process, reaped, ctxError, allHandled, verdict, ran>>

-----------------------------------------------------------------------------
(* The runners.                                                            *)

Returns(v) == place' = "returned" /\ verdict' = v

(* Mutant: a hook that blocks does not keep the next one from running.     *)
NextCommandAfterBlock(as) ==
  /\ ran' = Append(ran, [exit |-> exit, late |-> Late])
  /\ allHandled' = (allHandled /\ as = "ok")
  /\ IF Len(ran') = HookCommands
     THEN Returns(IF as = "blocked" THEN "blocked"
                  ELSE IF allHandled' THEN "handled" ELSE "passed")
     ELSE place' = "start" /\ UNCHANGED verdict

(* Hooks.Run: a block ends the loop; anything but success, a cancelled     *)
(* command and one that never started included, is not a handled event.    *)
NextCommand(as) ==
  /\ ran' = Append(ran, [exit |-> exit, late |-> Late])
  /\ allHandled' = (allHandled /\ as = "ok")
  /\ IF as = "blocked" THEN Returns("blocked")
     ELSE IF Len(ran') = HookCommands
     THEN Returns(IF allHandled' THEN "handled" ELSE "passed")
     ELSE place' = "start" /\ UNCHANGED verdict

(* Cmd.Start, which fails under a context that is done.                    *)
StartCommand ==
  /\ place = "start" /\ ~ContextDone
  /\ place' = "wait"
  /\ alive' = {"main"} /\ holding' = {"main"} /\ exit' = Running
  /\ reaped' = FALSE /\ ctxError' = FALSE /\ expired' = FALSE
  /\ UNCHANGED <<runner, context, allHandled, verdict, ran>>

StartFails ==
  /\ place = "start"
  /\ exit' = Other /\ expired' = FALSE
  /\ IF runner = "hook"
     THEN /\ ran' = Append(ran, [exit |-> Other, late |-> ContextDone])
          /\ allHandled' = FALSE
          /\ IF Len(ran') = HookCommands THEN Returns("passed")
             ELSE UNCHANGED <<place, verdict>>
     ELSE Returns("failed") /\ UNCHANGED <<allHandled, ran>>
  /\ UNCHANGED <<runner, alive, holding, reaped, ctxError, context>>

(* done is received: the exit code decides, unless Wait reports an error   *)
(* of another kind.                                                        *)
CommandDone ==
  /\ runner = "hook" /\ place = "wait" /\ Waited
  /\ NextCommand(CASE exit = Other -> "warned"
                   [] exit = 2 -> "blocked"
                   [] exit = 0 -> IF ctxError THEN "nothing" ELSE "ok")
  /\ UNCHANGED <<runner, process, reaped, ctxError, context, expired>>

(* Mutant: the killed command is not waited for.                           *)
GiveUpAtOnce ==
  /\ runner = "hook" /\ place = "wait" /\ Late
  /\ alive' = alive \ Group /\ UNCHANGED holding
  /\ exit' = IF "main" \in alive THEN Other ELSE exit
  /\ NextCommand("warned")
  /\ UNCHANGED <<runner, reaped, ctxError, context, expired>>

(* ctx.Done or the timer is received, though done may be ready, too: the   *)
(* group is killed, ...                                                    *)
GiveUp ==
  /\ runner = "hook" /\ place = "wait" /\ Late
  /\ Kill(Group)
  /\ place' = "drain"
  /\ UNCHANGED <<runner, reaped, ctxError, context, expired, allHandled, verdict, ran>>

(* ... and done is received after that.                                    *)
Drained ==
  /\ place = "drain" /\ Waited
  /\ NextCommand("warned")
  /\ UNCHANGED <<runner, process, reaped, ctxError, context, expired>>

(* executeWithStdin, executeElevated: a deadline counts, even one that was *)
(* missed after the command had ended well.                                *)
StepDone ==
  /\ runner # "hook" /\ place = "wait" /\ Waited
  /\ Returns(IF context = "deadline" THEN "timeout"
             ELSE IF exit # 0 \/ ctxError THEN "failed" ELSE "ok")
  /\ ran' = Append(ran, [exit |-> exit, late |-> Late])
  /\ UNCHANGED <<runner, process, reaped, ctxError, context, expired, allHandled>>

RunnerStep == StartCommand \/ StartFails \/ Reap \/ CommandDone \/ GiveUp \/ Drained \/ StepDone

SubprocessNext ==
  \/ RunnerStep \/ ContextKills \/ TimePasses \/ CancelContext
  \/ ForkChild \/ ForkDaemon \/ \E p \in alive : Ends(p)

(* Goroutines are scheduled and time passes; no process need ever end.     *)
SubprocessFairness ==
  /\ WF_subprocessVars(RunnerStep) /\ WF_subprocessVars(ContextKills)
  /\ WF_subprocessVars(TimePasses)

SubprocessSpec == SubprocessInit /\ [][SubprocessNext]_subprocessVars /\ SubprocessFairness

-----------------------------------------------------------------------------
(* Properties.                                                             *)

(* Processes that hold the output and that the runner does not kill: those *)
(* outside the group; for a step also what its command left behind when it *)
(* ended (the context is watched no longer: server.go:498), and for an     *)
(* elevated one everything but the command.                                *)
OutOfReach ==
  \/ "daemon" \in holding
  \/ runner = "code" /\ "main" \notin alive /\ "child" \in holding
  \/ runner = "elevated" /\ "child" \in holding

(* A hook, or a step, that has started a command comes back, whatever its  *)
(* commands do: after their timeouts at the latest, unless a process out   *)
(* of reach holds the output.                                              *)
CommandReturns == place \in {"wait", "drain"} ~> (place = "returned" \/ OutOfReach)

(* The output is read when it is complete and nobody writes it any more;   *)
(* success is that of the command; and a step that timed out is no success. *)
OutputSettled ==
  /\ place \in {"start", "returned"} => holding = {}
  /\ verdict = "ok" => exit = 0 /\ context # "deadline"

(* What the hook decides is what its commands decided: it blocks when one  *)
(* exits with 2 and nothing runs after that; it has handled the event when *)
(* all of them succeeded (hooks.go:42); only a timeout or a cancelled turn *)
(* can hide what a command says.                                           *)
HookVerdict ==
  runner = "hook" /\ place = "returned" =>
    /\ verdict = "blocked" => ran[Len(ran)].exit = 2
    /\ verdict = "handled" => Len(ran) = HookCommands /\ \A k \in DOMAIN ran : ran[k].exit = 0
    /\ \A k \in DOMAIN ran : ran[k].exit = 2 /\ ~ran[k].late =>
         k = Len(ran) /\ verdict = "blocked"
    /\ (\A k \in DOMAIN ran : ran[k].exit = 0 /\ ~ran[k].late) => verdict = "handled"

=============================================================================
