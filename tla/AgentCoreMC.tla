----------------------------- MODULE AgentCoreMC -----------------------------
(***************************************************************************)
(* Small instances of AgentCore for TLC: symmetry over the clients and the *)
(* prompts, which the module never compares with anything but each other.  *)
(***************************************************************************)
EXTENDS AgentCore, TLC

Symmetry == Permutations(Clients) \cup Permutations(Prompts)

=============================================================================
