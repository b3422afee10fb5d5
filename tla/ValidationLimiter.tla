-------------------------- MODULE ValidationLimiter --------------------------
(***************************************************************************)
(* The rate limiter of the execute server: ValidateCode (code.go) asks it, *)
(* checkRateLimit, and reports to it, recordValidationFailure (server.go). *)
(* Workers are goroutines that validate a step: those of a parallel group, *)
(* and those of other calls of the server.  Question and report hold       *)
(* rateLimitMu, what is between them does not.                             *)
(***************************************************************************)
EXTENDS Integers, FiniteSets, Sequences

CONSTANTS Workers,
          MaxFailures,   \* 5
          FailureWindow, \* a minute
          BlockDuration, \* five minutes
          MaxTime        \* bound: of the clock

ASSUME LimiterAssumption ==
  /\ IsFiniteSet(Workers)
  /\ {MaxFailures, FailureWindow, MaxTime} \subseteq Nat \ {0}
  /\ BlockDuration \in Nat /\ BlockDuration > FailureWindow

VARIABLES
  now,
  validationFailures, lastFailure, blockedUntil,
  allowed,     \* workers that were let through and have not reported
  failures     \* history: the time of each failure

limiterVars == <<now, validationFailures, lastFailure, blockedUntil, allowed, failures>>

LimiterInit ==
  /\ now = 0
  /\ validationFailures = 0
  /\ lastFailure = -FailureWindow - 1        \* the zero time
  /\ blockedUntil = 0
  /\ allowed = {} /\ failures = <<>>

Clock ==
  /\ now < MaxTime /\ now' = now + 1
  /\ UNCHANGED <<validationFailures, lastFailure, blockedUntil, allowed, failures>>

CheckRateLimit(w) ==
  /\ w \notin allowed
  /\ now >= blockedUntil
  /\ allowed' = allowed \cup {w}
  /\ UNCHANGED <<now, validationFailures, lastFailure, blockedUntil, failures>>

(* No pattern matches.                                                     *)
CodeAccepted(w) ==
  /\ w \in allowed
  /\ allowed' = allowed \ {w}
  /\ UNCHANGED <<now, validationFailures, lastFailure, blockedUntil, failures>>

(* Mutant: the block starts one failure late.                              *)
RecordBlocksLate(w) ==
  /\ w \in allowed /\ allowed' = allowed \ {w}
  /\ lastFailure' = now
  /\ failures' = Append(failures, now)
  /\ LET count == (IF now - lastFailure > FailureWindow THEN 0 ELSE validationFailures) + 1
     IN  IF count > MaxFailures
         THEN validationFailures' = 0 /\ blockedUntil' = now + BlockDuration
         ELSE validationFailures' = count /\ UNCHANGED blockedUntil
  /\ UNCHANGED now

(* A pause longer than the window forgets; a block starts a new count.     *)
RecordValidationFailure(w) ==
  /\ w \in allowed /\ allowed' = allowed \ {w}
  /\ lastFailure' = now
  /\ failures' = Append(failures, now)
  /\ LET count == (IF now - lastFailure > FailureWindow THEN 0 ELSE validationFailures) + 1
     IN  IF count >= MaxFailures
         THEN validationFailures' = 0 /\ blockedUntil' = now + BlockDuration
         ELSE validationFailures' = count /\ UNCHANGED blockedUntil
  /\ UNCHANGED now

LimiterNext ==
  \/ Clock
  \/ \E w \in Workers : CheckRateLimit(w) \/ CodeAccepted(w) \/ RecordValidationFailure(w)

LimiterSpec == LimiterInit /\ [][LimiterNext]_limiterVars

-----------------------------------------------------------------------------
(* Within any window there are at most MaxFailures failures, and those of  *)
(* the workers that had been let through when the block began: neither the *)
(* count that starts afresh with a block, nor the window that moves with   *)
(* every failure, lets more through.  One failure more takes longer.       *)
BurstLimit == MaxFailures + Cardinality(Workers) - 1

BurstBounded ==
  \A i, j \in DOMAIN failures :
    j = i + BurstLimit => failures[j] - failures[i] > FailureWindow

=============================================================================
