----------------------------- MODULE AgentLoopMC -----------------------------
(***************************************************************************)
(* Answers of the backend for TLC.  read and look are classified           *)
(* parallel-read, write is not, and unnamed has no tool name.              *)
(***************************************************************************)
EXTENDS Transcript, TLC

CONSTANTS read, look, write, unnamed

SomeKeys == {read, look, write, unnamed}
SomeReads == {read, look}

(* A batch of two, a batch and its duplicate with a write after it, a      *)
(* nameless call, a final answer.                                          *)
Mixed == {<<read, look>>, <<read, read, write>>, <<unnamed>>, <<>>}

(* Enough for rounds that repeat or fail, with a concurrent batch.         *)
Several == {<<read, look>>, <<unnamed>>, <<>>}

Symmetry == Permutations(Injects)

=============================================================================
