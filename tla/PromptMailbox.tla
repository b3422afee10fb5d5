---------------------------- MODULE PromptMailbox ----------------------------
(***************************************************************************)
(* What agent.Core promises about prompts, without saying how: a prompt is *)
(* pending from the call that hands it over until it is disposed of, which *)
(* happens once; turns come one after the other, and a prompt reaches a    *)
(* tool result only while a turn is in progress.                           *)
(***************************************************************************)
CONSTANT Prompts

VARIABLES pending,   \* prompts accepted and not disposed of
          fate,      \* what has become of every prompt
          serving    \* a turn is in progress

vars == <<pending, fate, serving>>

Init == /\ pending = {}
        /\ fate = [p \in Prompts |-> "new"]
        /\ serving = FALSE

(* Submit, Inject or Queue is called with p. *)
Accept(p) == /\ fate[p] = "new"
             /\ fate' = [fate EXCEPT ![p] = "open"]
             /\ pending' = pending \cup {p}
             /\ UNCHANGED serving

Dispose(p, how) == /\ p \in pending
                   /\ pending' = pending \ {p}
                   /\ fate' = [fate EXCEPT ![p] = how]

(* p becomes the prompt of a turn. *)
BeginTurn(p) == /\ ~serving
                /\ serving' = TRUE
                /\ Dispose(p, "turn")

(* A postTurn hook wants another turn. *)
BeginHookTurn == ~serving /\ serving' = TRUE /\ UNCHANGED <<pending, fate>>

EndTurn == serving /\ serving' = FALSE /\ UNCHANGED <<pending, fate>>

(* p is appended to the result of a tool the turn has called. *)
DeliverInTurn(p) == serving /\ Dispose(p, "tool") /\ UNCHANGED serving

(* p is given back, overwritten, or dropped with its Submit. *)
Withdraw(p) == /\ \E how \in {"popped", "replaced", "abandoned"} : Dispose(p, how)
               /\ UNCHANGED serving

Next == \/ BeginHookTurn \/ EndTurn
        \/ \E p \in Prompts : Accept(p) \/ BeginTurn(p) \/ DeliverInTurn(p) \/ Withdraw(p)

Spec == Init /\ [][Next]_vars

=============================================================================
