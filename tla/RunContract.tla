----------------------------- MODULE RunContract -----------------------------
(***************************************************************************)
(* What executeTurn (core.go) relies on when it calls run (loop.go),       *)
(* without saying what a round is: run takes the pending inject only while *)
(* it runs, it answers "interrupted" only when its context was cancelled,  *)
(* and it runs a second time at most once, after an overflow.  AgentCore's *)
(* RunRegion is written against this contract.                             *)
(***************************************************************************)
CONSTANTS Prompts, Null

VARIABLES phase,      \* running, returned, retry, closed
          answer,     \* what the last run returned, "none" while it runs
          cancelled,  \* its context is cancelled
          slot,       \* the pending inject
          delivered,  \* prompts taken by a run
          reran       \* run was called again

vars == <<phase, answer, cancelled, slot, delivered, reran>>

Answers == {"done", "interrupted", "overflowed", "failed", "panicked"}

Init == /\ phase = "running" /\ answer = "none" /\ cancelled = FALSE
        /\ slot = Null /\ delivered = {} /\ reran = FALSE

(* A tool result takes the pending inject with it. *)
Take == /\ phase = "running" /\ slot # Null
        /\ delivered' = delivered \cup {slot}
        /\ slot' = Null
        /\ UNCHANGED <<phase, answer, cancelled, reran>>

Return(a) == /\ phase = "running" /\ (a = "interrupted" => cancelled)
             /\ phase' = "returned" /\ answer' = a
             /\ UNCHANGED <<cancelled, slot, delivered, reran>>

(* The first overflow: roll back and compact, then run again or give up. *)
Reopen == /\ phase = "returned" /\ answer = "overflowed" /\ ~reran
          /\ phase' = "retry" /\ reran' = TRUE
          /\ UNCHANGED <<answer, cancelled, slot, delivered>>

Rerun == /\ phase = "retry"
         /\ phase' = "running" /\ answer' = "none"
         /\ cancelled' \in {FALSE, cancelled}
         /\ UNCHANGED <<slot, delivered, reran>>

GiveUp == /\ phase = "retry"
          /\ phase' = "returned"
          /\ UNCHANGED <<answer, cancelled, slot, delivered, reran>>

Close == /\ phase = "returned" /\ (answer = "overflowed" => reran)
         /\ phase' = "closed"
         /\ UNCHANGED <<answer, cancelled, slot, delivered, reran>>

(* Interrupt or the caller; Inject into an empty slot. *)
Cancel == /\ phase = "running"
          /\ cancelled' = TRUE
          /\ UNCHANGED <<phase, answer, slot, delivered, reran>>

Inject(p) == /\ phase = "running" /\ slot = Null /\ p \notin delivered
             /\ slot' = p
             /\ UNCHANGED <<phase, answer, cancelled, delivered, reran>>

Next == \/ Take \/ Reopen \/ Rerun \/ GiveUp \/ Close \/ Cancel
        \/ \E a \in Answers : Return(a)
        \/ \E p \in Prompts : Inject(p)

Spec == Init /\ [][Next]_vars

=============================================================================
