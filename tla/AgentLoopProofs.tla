--------------------------- MODULE AgentLoopProofs ---------------------------
(***************************************************************************)
(* AgentLoop implements RunContract: what AgentCore assumes of run and of  *)
(* the end of executeTurn, for all tools, answers, injects and limits.     *)
(***************************************************************************)
EXTENDS AgentLoop, TLAPS

(* What the refinement needs of a state: run has not returned exactly      *)
(* while it runs, and the pending inject is one that was injected.         *)
RunInv ==
  /\ pc \in Pcs /\ outcome \in Outcomes
  /\ (outcome = "none") = Running
  /\ pc = "overflow" => outcome = "overflowed"
  /\ injected \subseteq Injects /\ pendingInject \in injected \cup {Null}
  /\ ctxDone \in BOOLEAN /\ overflowRetried \in BOOLEAN

(* The variables RunContract sees. *)
seen == <<pc, outcome, ctxDone, pendingInject, injected, overflowRetried>>

(* A step in the middle of a run: it goes on, and no inject is touched. *)
Quiet == /\ Running /\ pc' \in Pcs /\ Running'
         /\ UNCHANGED <<outcome, ctxDone, inbox, overflowRetried>>

(* A step that takes the pending inject, if there is one. *)
Takes == /\ Running /\ pc' \in Pcs /\ Running'
         /\ pendingInject' = Null
         /\ UNCHANGED <<outcome, ctxDone, injected, overflowRetried>>

(* run returns. *)
Returns == /\ Running /\ pc' = "ended"
           /\ outcome' \in Outcomes \ {"none"}
           /\ outcome' = "interrupted" => ctxDone
           /\ UNCHANGED <<ctxDone, inbox, overflowRetried>>

(* A run only records an interruption when its context is cancelled.       *)
CancelInv ==
  /\ pc = "save" => ctxDone
  /\ pc = "batch" => \A k \in DOMAIN found : found[k].kind \in Interrupted => ctxDone

LEMMA SuccessClean == \A key : Success(key) \notin Interrupted
  BY DEF Success, Interrupted

LEMMA RunSteps ==
  ASSUME RunInv, CancelInv,
         \/ BackendError \/ StreamEnds \/ Wait \/ Answer \/ AnswerRejected
         \/ ActCancelled \/ StartBatch \/ EndBatch \/ Save
         \/ NoCompact \/ StartCompact \/ EndCompact
         \/ \E k \in DOMAIN worker : Call(k)
  PROVE  Quiet \/ Takes \/ Returns
PROOF
<1> USE DEF Quiet, Takes, Returns, Running, Pcs, Outcomes, RunInv
<1>1. CASE BackendError
  BY <1>1 DEF BackendError, Return, Retry, Fate, Errors, inbox, turn
<1>2. CASE StreamEnds
  BY <1>2 DEF StreamEnds, Return, Retry, inbox, turn
<1>3. CASE Wait
  BY <1>3 DEF Wait, Return, inbox, turn
<1>4. CASE Answer
  BY <1>4 DEF Answer, inbox, turn
<1>5. CASE AnswerRejected
  BY <1>5 DEF AnswerRejected, Return, inbox, turn
<1>6. CASE ActCancelled
  BY <1>6 DEF ActCancelled, inbox, turn
<1>7. CASE StartBatch
  BY <1>7 DEF StartBatch, inbox, turn
<1>8. CASE EndBatch
  BY <1>8 DEF EndBatch, inbox, turn
<1>9. CASE Save
  <2>1. /\ pc \in {"save", "act"}
        /\ \/ pc = "save" /\ Return("interrupted")
           \/ Return("done") \/ Return("failed")
           \/ pc' = "round" /\ UNCHANGED outcome
    BY <1>9 DEF Save
  <2>2. UNCHANGED <<ctxDone, inbox, turn>>
    BY <1>9 DEF Save
  <2> QED
    BY <2>1, <2>2 DEF CancelInv, Return, inbox, turn
<1>10. CASE NoCompact
  BY <1>10 DEF NoCompact, NextRound, inbox, turn
<1>11. CASE StartCompact
  BY <1>11 DEF StartCompact, inbox, turn
<1>12. CASE EndCompact
  BY <1>12 DEF EndCompact, NextRound, Return, inbox, turn
<1>13. CASE \E k \in DOMAIN worker : Call(k)
  <2> PICK k \in DOMAIN worker : Call(k)
    BY <1>13
  <2>1. CASE ExecOne(k)
    BY <2>1 DEF ExecOne, at, inbox, turn
  <2>2. CASE PreTool(k)
    BY <2>2, SuccessClean DEF PreTool, at, inbox, turn
  <2>3. CASE ExecReturn(k)
    BY <2>3, SuccessClean DEF ExecReturn, at, inbox, turn
  <2>4. CASE PostTool(k)
    BY <2>4 DEF PostTool, at, inbox, turn
  <2> QED
    BY <2>1, <2>2, <2>3, <2>4 DEF Call
<1> QED
  BY <1>1, <1>2, <1>3, <1>4, <1>5, <1>6, <1>7, <1>8, <1>9, <1>10, <1>11, <1>12, <1>13

LEMMA CancelStep == RunInv /\ CancelInv /\ [Next]_vars => CancelInv'
PROOF
<1> SUFFICES ASSUME RunInv, CancelInv, [Next]_vars PROVE CancelInv'
  OBVIOUS
<1> USE DEF CancelInv
<1>1. CASE UNCHANGED vars
  BY <1>1 DEF vars, batch
<1>2. CASE BackendError
  BY <1>2 DEF BackendError, Return, Retry
<1>3. CASE StreamEnds
  BY <1>3 DEF StreamEnds, Return, Retry
<1>4. CASE Wait
  BY <1>4 DEF Wait, Return
<1>5. CASE Answer \/ AnswerRejected
  BY <1>5 DEF Answer, AnswerRejected, Return
<1>6. CASE ActCancelled
  BY <1>6 DEF ActCancelled
<1>7. CASE StartBatch
  BY <1>7 DEF StartBatch, Result, Interrupted
<1>8. CASE EndBatch
  BY <1>8 DEF EndBatch
<1>9. CASE Save
  <2>1. pc' \in {"ended", "round"}
    BY <1>9 DEF Save, Return
  <2> QED
    BY <2>1
<1>10. CASE NoCompact \/ StartCompact \/ EndCompact
  BY <1>10 DEF NoCompact, StartCompact, EndCompact, NextRound, Return
<1>11. CASE Rollback \/ RunAgain \/ OverflowCompactFails \/ EndTurn
  BY <1>11 DEF Rollback, RunAgain, OverflowCompactFails, EndTurn
<1>12. CASE \E k \in DOMAIN worker : Call(k)
  <2> PICK k \in DOMAIN worker : Call(k)
    BY <1>12
  <2>1. CASE ExecOne(k)
    BY <2>1 DEF ExecOne, at, Finish, Goto, Result, Interrupted
  <2>2. CASE PreTool(k)
    BY <2>2, SuccessClean DEF PreTool, at, Finish, Goto, Result, Interrupted
  <2>3. CASE ExecReturn(k)
    BY <2>3, SuccessClean DEF ExecReturn, at, Finish, Goto, Result, Interrupted
  <2>4. CASE PostTool(k)
    BY <2>4 DEF PostTool, at, Finish, Goto, Result, Interrupted
  <2> QED
    BY <2>1, <2>2, <2>3, <2>4 DEF Call
<1>13. CASE Cancel
  BY <1>13 DEF Cancel, batch
<1>14. ASSUME NEW p \in Injects, Inject(p) PROVE CancelInv'
  BY <1>14 DEF Inject, batch
<1> QED
  BY <1>1, <1>2, <1>3, <1>4, <1>5, <1>6, <1>7, <1>8, <1>9, <1>10, <1>11, <1>12, <1>13, <1>14
     DEF Next, Run

(* What the end of executeTurn does, as RunContract sees it.               *)
LEMMA TurnSteps ==
  ASSUME RunInv, Rollback \/ RunAgain \/ OverflowCompactFails \/ EndTurn
  PROVE  Contract!Reopen \/ Contract!Rerun \/ Contract!GiveUp \/ Contract!Close
PROOF
<1> USE DEF RunInv, Running, Taken, inbox
<1>1. CASE Rollback
  BY <1>1 DEF Rollback, Contract!Reopen
<1>2. CASE RunAgain
  BY <1>2 DEF RunAgain, turn, Contract!Rerun
<1>3. CASE OverflowCompactFails
  BY <1>3 DEF OverflowCompactFails, turn, Contract!GiveUp
<1>4. CASE EndTurn
  BY <1>4 DEF EndTurn, turn, Contract!Close
<1> QED
  BY <1>1, <1>2, <1>3, <1>4

LEMMA RunInvInit == Init => RunInv /\ CancelInv
  BY DEF Init, RunInv, CancelInv, Running, Pcs, Outcomes

LEMMA RunInvStep == RunInv /\ CancelInv /\ [Next]_vars => RunInv'
PROOF
<1> SUFFICES ASSUME RunInv, CancelInv, [Next]_vars PROVE RunInv'
  OBVIOUS
<1> USE DEF RunInv, Running, Pcs, Outcomes
<1>1. CASE UNCHANGED vars
  BY <1>1 DEF vars, inbox, turn
<1>2. CASE Quiet \/ Takes \/ Returns
  BY <1>2 DEF Quiet, Takes, Returns, inbox
<1>3. CASE Rollback
  BY <1>3 DEF Rollback, inbox
<1>4. CASE RunAgain
  BY <1>4 DEF RunAgain, inbox, turn
<1>5. CASE OverflowCompactFails
  BY <1>5 DEF OverflowCompactFails, inbox, turn
<1>6. CASE EndTurn
  BY <1>6 DEF EndTurn, inbox, turn
<1>7. CASE Cancel
  BY <1>7 DEF Cancel, inbox, turn
<1>8. ASSUME NEW p \in Injects, Inject(p) PROVE RunInv'
  BY <1>8 DEF Inject, turn
<1> QED
  BY <1>1, <1>2, <1>3, <1>4, <1>5, <1>6, <1>7, <1>8, RunSteps DEF Next, Run

THEOREM RunSafety == Spec => [](RunInv /\ CancelInv)
<1> QED
  BY RunInvInit, RunInvStep, CancelStep, PTL DEF Spec

(* run and the end of executeTurn keep the contract AgentCore is written   *)
(* against, whatever the backend answers and however many calls it makes:  *)
(* every step of AgentLoop is a step of RunContract or changes nothing it  *)
(* can see.                                                                *)
THEOREM KeepsContract == Spec => ImplementsContract
<1>1. Init => Contract!Init
  BY LoopAssumption DEF Init, Contract!Init, Taken
<1>2. RunInv /\ CancelInv /\ [Next]_vars => [Contract!Next]_Contract!vars
  <2> SUFFICES ASSUME RunInv, CancelInv, [Next]_vars
               PROVE  [Contract!Next]_Contract!vars
    OBVIOUS
  <2> USE LoopAssumption DEF RunInv, Running, Taken, inbox
  <2>1. CASE UNCHANGED vars
    BY <2>1 DEF vars, turn, Contract!vars
  <2>2. CASE Quiet
    BY <2>2 DEF Quiet, Pcs, Contract!vars
  <2>3. CASE Takes
    <3>1. CASE pendingInject = Null
      BY <2>3, <3>1 DEF Takes, Pcs, Contract!vars
    <3>2. CASE pendingInject # Null
      <4>1. Contract!Take
        BY <2>3, <3>2 DEF Takes, Pcs, Contract!Take
      <4> QED
        BY <4>1 DEF Contract!Next
    <3> QED
      BY <3>1, <3>2
  <2>4. CASE Returns
    <3>1. \E a \in Contract!Answers : Contract!Return(a)
      BY <2>4 DEF Returns, Pcs, Outcomes, Contract!Answers, Contract!Return
    <3> QED
      BY <3>1 DEF Contract!Next
  <2>5. CASE Rollback \/ RunAgain \/ OverflowCompactFails \/ EndTurn
    BY <2>5, TurnSteps DEF Contract!Next
  <2>6. CASE Cancel
    <3>1. Contract!Cancel
      BY <2>6 DEF Cancel, turn, Contract!Cancel
    <3> QED
      BY <3>1 DEF Contract!Next
  <2>7. ASSUME NEW p \in Injects, Inject(p)
        PROVE  [Contract!Next]_Contract!vars
    <3>1. Contract!Inject(p)
      BY <2>7 DEF Inject, turn, Contract!Inject
    <3> QED
      BY <3>1 DEF Contract!Next
  <2> QED
    BY <2>1, <2>2, <2>3, <2>4, <2>5, <2>6, <2>7, RunSteps DEF Next, Run
<1> QED
  BY <1>1, <1>2, RunSafety, PTL DEF Spec, ImplementsContract, Contract!Spec

=============================================================================
