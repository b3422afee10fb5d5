----------------------------- MODULE ComponentsMC -----------------------------
(***************************************************************************)
(* The components that share no state with each other, side by side: the   *)
(* stream of an answer, the token refresh, the change monitor, the rate    *)
(* limiter, the cost meter, the log and the subprocess runners.  Each      *)
(* behaviour is one of one machine, chosen at the start, while the others  *)
(* stay where they begin, so that the states are the sum of theirs and not *)
(* the product.                                                            *)
(***************************************************************************)
EXTENDS BackendStream, KiroAuth, ChangeMonitor, ValidationLimiter, CostMeter,
        AsyncLog, Subprocess

CONSTANT Machines

VARIABLE machine

vars == <<machine, streamVars, authVars, monitorVars, limiterVars, meterVars,
          logVars, subprocessVars>>

(* Text around two calls whose fragments alternate, text around a call     *)
(* that leaks, more text than the channel holds, markup before a call, two *)
(* calls that leak, one without parameters, one with a value that is not   *)
(* JSON.                                                                   *)
Text == [kind |-> "text", call |-> 0]
Markup(k) == [kind |-> k, call |-> 0]
Fragment(n) == [kind |-> "call", call |-> n]
SomeAnswers == {<<Text, Fragment(1), Text, Fragment(2), Fragment(1)>>,
                <<Text, Markup("invoke"), Markup("param"), Text>>, <<Text, Text, Text>>,
                <<Markup("invoke"), Fragment(1)>>,
                <<Markup("invoke"), Markup("param"), Markup("invoke"), Markup("param")>>,
                <<Markup("invoke"), Text>>, <<Markup("invoke"), Markup("broken")>>}

(* Reported by nobody, by nobody for a longer request, by the backend.     *)
SomeUsages == {[tokens |-> 1, cost |-> 0], [tokens |-> 2, cost |-> 0], [tokens |-> 1, cost |-> 3]}

BothOutputs == <<"out", "errout">>

Init ==
  /\ machine \in Machines
  /\ StreamInit /\ AuthInit /\ MonitorInit /\ LimiterInit /\ MeterInit /\ LogInit
  /\ SubprocessInit
  /\ machine # "stream" => provider = CHOOSE p \in Providers : TRUE
  /\ machine # "meter" => price = CHOOSE p \in Prices : TRUE
  /\ machine # "process" => runner = CHOOSE r \in Runners : TRUE

Next ==
  \/ /\ machine = "stream" /\ StreamNext
     /\ UNCHANGED <<machine, authVars, monitorVars, limiterVars,
                    meterVars, logVars, subprocessVars>>
  \/ /\ machine = "auth" /\ AuthNext
     /\ UNCHANGED <<machine, streamVars, monitorVars, limiterVars,
                    meterVars, logVars, subprocessVars>>
  \/ /\ machine = "monitor" /\ MonitorNext
     /\ UNCHANGED <<machine, streamVars, authVars, limiterVars,
                    meterVars, logVars, subprocessVars>>
  \/ /\ machine = "limiter" /\ LimiterNext
     /\ UNCHANGED <<machine, streamVars, authVars, monitorVars,
                    meterVars, logVars, subprocessVars>>
  \/ /\ machine = "meter" /\ MeterNext
     /\ UNCHANGED <<machine, streamVars, authVars, monitorVars,
                    limiterVars, logVars, subprocessVars>>
  \/ /\ machine = "log" /\ LogNext
     /\ UNCHANGED <<machine, streamVars, authVars, monitorVars,
                    limiterVars, meterVars, subprocessVars>>
  \/ /\ machine = "process" /\ SubprocessNext
     /\ UNCHANGED <<machine, streamVars, authVars, monitorVars,
                    limiterVars, meterVars, logVars>>

(* The fairness of StreamSpec, MonitorSpec and SubprocessSpec, for the     *)
(* machine that runs.                                                      *)
On(m) == machine = m

Fairness ==
  /\ WF_streamVars(On("stream") /\ Produce) /\ WF_streamVars(On("stream") /\ Consume)
  /\ WF_monitorVars(On("monitor") /\ \E w \in Watchers : CheckField(w) \/ CondWait(w))
  /\ \A w \in Watchers :
       /\ SF_monitorVars(On("monitor") /\ LockChangeMu(w))
       /\ SF_monitorVars(On("monitor") /\ AfterFunc(w))
  /\ WF_subprocessVars(On("process") /\ RunnerStep)
  /\ WF_subprocessVars(On("process") /\ ContextKills)
  /\ WF_subprocessVars(On("process") /\ TimePasses)

Spec == Init /\ [][Next]_vars /\ Fairness

=============================================================================
