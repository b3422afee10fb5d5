------------------------------ MODULE CostMeter ------------------------------
(***************************************************************************)
(* Cost accounting: addUsage, resetTurnAccumulators and recordTurnCost of  *)
(* pkg/agent/session.go, computeCostUSD (cost.go), and the places of       *)
(* executeTurn (core.go) that call them or read what they computed.        *)
(*                                                                         *)
(* A request of the agent loop uses tokens and may come with its cost      *)
(* (OpenRouter); a model has one price per token, 0 when it is not in the  *)
(* table, and may be changed by /model at any time.                        *)
(***************************************************************************)
EXTENDS Integers

CONSTANTS Usages,        \* [tokens, cost] of a request; cost 0: not reported
          Prices,        \* of the models that /model can choose
          SpendingCap,   \* OLLIE_MAX_SESSION_COST
          MaxRequests    \* bound: requests of one run

ASSUME MeterAssumption ==
  /\ Prices \subseteq Nat /\ SpendingCap \in Nat \ {0} /\ MaxRequests \in Nat
  /\ \A u \in Usages : u.tokens \in Nat /\ u.cost \in Nat

VARIABLES
  sessionCost,  \* SessionCostUSD
  turnTokens, turnCost,  \* the turn accumulators
  price,        \* of the backend's model
  meter,        \* "idle", "running": run is executing
  retriedTurn,  \* overflowRetried
  runLog        \* history: requests of this run, [count, cost, prices, kinds]

meterVars == <<sessionCost, turnTokens, turnCost, price, meter, retriedTurn, runLog>>

(* Each request costs what was reported, or its tokens at the price then.  *)
NoRequests == [count |-> 0, cost |-> 0, prices |-> {}, kinds |-> {}]

Charged(log, u) ==
  [count |-> log.count + 1,
   cost |-> log.cost + (IF u.cost > 0 THEN u.cost ELSE u.tokens * price),
   prices |-> log.prices \cup {price},
   kinds |-> log.kinds \cup {IF u.cost > 0 THEN "reported" ELSE "computed"}]

MeterInit ==
  /\ sessionCost = 0 /\ turnTokens = 0 /\ turnCost = 0
  /\ price \in Prices
  /\ meter = "idle" /\ retriedTurn = FALSE /\ runLog = NoRequests

(* Mutant: the cost of the turn before is not reset.                       *)
ResetTokensOnly == turnTokens' = 0 /\ UNCHANGED turnCost

ResetTurnAccumulators == turnTokens' = 0 /\ turnCost' = 0

(* The cap is looked at before a turn runs.                                *)
BeginTurn ==
  /\ meter = "idle" /\ meter' = "running"
  /\ sessionCost < SpendingCap
  /\ ResetTurnAccumulators
  /\ runLog' = NoRequests /\ retriedTurn' = FALSE
  /\ UNCHANGED <<sessionCost, price>>

AddUsage ==
  /\ meter = "running" /\ runLog.count < MaxRequests
  /\ \E u \in Usages :
       /\ turnTokens' = turnTokens + u.tokens
       /\ turnCost' = turnCost + u.cost
       /\ runLog' = Charged(runLog, u)
  /\ UNCHANGED <<sessionCost, price, meter, retriedTurn>>

(* run returned an overflow, and starts over after the compaction, whose   *)
(* own request is not counted.                                             *)
RetryTurn ==
  /\ meter = "running" /\ ~retriedTurn
  /\ retriedTurn' = TRUE
  /\ ResetTurnAccumulators
  /\ runLog' = NoRequests
  /\ UNCHANGED <<sessionCost, price, meter>>

(* The cost the backend reported, if any, or that of the tokens.           *)
CostOfTurn == IF turnCost > 0 THEN turnCost ELSE turnTokens * price

(* A turn that run completed is recorded, ...                              *)
RecordTurnCost ==
  /\ meter = "running" /\ meter' = "idle"
  /\ sessionCost' = sessionCost + CostOfTurn
  /\ runLog' = NoRequests
  /\ UNCHANGED <<turnTokens, turnCost, price, retriedTurn>>

(* ... an interrupted or failed one is not, and keeps its accumulators.    *)
AbortTurn ==
  /\ meter = "running" /\ meter' = "idle"
  /\ runLog' = NoRequests
  /\ UNCHANGED <<sessionCost, turnTokens, turnCost, price, retriedTurn>>

SetModel ==
  /\ price' \in Prices
  /\ UNCHANGED <<sessionCost, turnTokens, turnCost, meter, retriedTurn, runLog>>

(* /clear, /agent: a new Session, which has cost nothing.                  *)
NewSession ==
  /\ meter = "idle"
  /\ sessionCost' = 0 /\ turnTokens' = 0 /\ turnCost' = 0
  /\ UNCHANGED <<price, meter, retriedTurn, runLog>>

MeterNext ==
  \/ BeginTurn \/ AddUsage \/ RetryTurn \/ RecordTurnCost \/ AbortTurn
  \/ SetModel \/ NewSession

MeterSpec == MeterInit /\ [][MeterNext]_meterVars

-----------------------------------------------------------------------------
(* What the session is charged for a turn is the cost of the requests of   *)
(* its last run, each one once and none of an earlier turn or attempt: the *)
(* reported cost, or that of its tokens.  It is less when only some of the *)
(* requests reported a cost, and any amount when /model changed the price  *)
(* while the run was under way.                                            *)
SteadyPrice == runLog.prices \subseteq {price}
Uniform == ~({"reported", "computed"} \subseteq runLog.kinds)

TurnCharged ==
  [][sessionCost' > sessionCost /\ SteadyPrice =>
       /\ sessionCost' <= sessionCost + runLog.cost
       /\ Uniform => sessionCost' = sessionCost + runLog.cost]_meterVars

=============================================================================
