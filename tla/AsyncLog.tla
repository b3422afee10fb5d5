------------------------------ MODULE AsyncLog ------------------------------
(***************************************************************************)
(* The asynchronous sink of pkg/log: two asyncWriters, one for messages    *)
(* below LevelWarn and one for the others, each a buffered channel and a   *)
(* goroutine that writes to the file; Flush closes one after the other.    *)
(* A message is its logger and its number.                                 *)
(***************************************************************************)
EXTENDS Naturals, Sequences, FiniteSets, SequencesExt

CONSTANTS Loggers,
          Outputs,     \* "out" and "errout", in the order Flush closes them
          BufSize,     \* 4096
          MaxMessages  \* bound: messages of one logger

ASSUME LogAssumption ==
  /\ Outputs \in Seq({"out", "errout"}) /\ {BufSize, MaxMessages} \subseteq Nat

VARIABLES
  ch,         \* buffered messages of each output
  closed,     \* outputs whose channel is closed
  sink,       \* what each output's goroutine has written
  done,       \* outputs whose goroutine has ended
  logging,    \* for each logger, the output it sends to, or "none", "panicked"
  number,     \* messages each logger has begun
  flushed     \* outputs that Flush has dealt with

logVars == <<ch, closed, sink, done, logging, number, flushed>>

Outs == ToSet(Outputs)

LogInit ==
  /\ ch = [o \in Outs |-> <<>>] /\ sink = [o \in Outs |-> <<>>]
  /\ closed = {} /\ done = {} /\ flushed = 0
  /\ logging = [l \in Loggers |-> "none"] /\ number = [l \in Loggers |-> 0]

(* emit: the level chooses the output.                                     *)
Emit(l) ==
  /\ logging[l] = "none" /\ number[l] < MaxMessages
  /\ number' = [number EXCEPT ![l] = @ + 1]
  /\ \E o \in Outs : logging' = [logging EXCEPT ![l] = o]
  /\ UNCHANGED <<ch, closed, sink, done, flushed>>

(* Write: the copy is sent, which blocks while the buffer is full and      *)
(* panics once the channel is closed.                                      *)
SendMessage(l) ==
  /\ logging[l] \in Outs
  /\ LET o == logging[l]
     IN  \/ /\ o \notin closed /\ Len(ch[o]) < BufSize
            /\ ch' = [ch EXCEPT ![o] = Append(@, <<l, number[l]>>)]
            /\ logging' = [logging EXCEPT ![l] = "none"]
         \/ /\ o \in closed
            /\ logging' = [logging EXCEPT ![l] = "panicked"]
            /\ UNCHANGED ch
  /\ UNCHANGED <<closed, sink, done, number, flushed>>

(* The goroutine of an output; errors of the file are ignored.             *)
WriteOut(o) ==
  /\ ch[o] # <<>>
  /\ sink' = [sink EXCEPT ![o] = Append(@, Head(ch[o]))]
  /\ ch' = [ch EXCEPT ![o] = Tail(@)]
  /\ UNCHANGED <<closed, done, logging, number, flushed>>

(* Mutant: the goroutine ends as soon as the channel is closed.            *)
EndsWhenClosed(o) ==
  /\ o \in closed \ done
  /\ done' = done \cup {o}
  /\ UNCHANGED <<ch, closed, sink, logging, number, flushed>>

EndOut(o) ==
  /\ o \in closed \ done /\ ch[o] = <<>>
  /\ done' = done \cup {o}
  /\ UNCHANGED <<ch, closed, sink, logging, number, flushed>>

(* flush: close the channel, ...                                           *)
CloseNext ==
  /\ flushed < Len(Outputs) /\ Outputs[flushed + 1] \notin closed
  /\ closed' = closed \cup {Outputs[flushed + 1]}
  /\ UNCHANGED <<ch, sink, done, logging, number, flushed>>

(* ... and wait for the goroutine.                                         *)
FlushNext ==
  /\ flushed < Len(Outputs) /\ Outputs[flushed + 1] \in done
  /\ flushed' = flushed + 1
  /\ UNCHANGED <<ch, closed, sink, done, logging, number>>

LogNext ==
  \/ CloseNext \/ FlushNext
  \/ \E l \in Loggers : Emit(l) \/ SendMessage(l)
  \/ \E o \in Outs : WriteOut(o) \/ EndOut(o)

LogSpec == LogInit /\ [][LogNext]_logVars

-----------------------------------------------------------------------------
(* A message whose log call has returned is in the file once Flush is done *)
(* with its output (log.go:84 "drains all pending log output"), and every  *)
(* file has the messages of a logger in order.                             *)
Begun == {<<l, n>> : l \in Loggers, n \in 1 .. MaxMessages}
Returned == {m \in Begun : m[2] < number[m[1]] \/ (m[2] = number[m[1]] /\ logging[m[1]] = "none")}

FlushDrains ==
  /\ flushed = Len(Outputs) => Returned = UNION {ToSet(sink[o]) : o \in Outs}
  /\ \A o \in Outs : \A i, j \in DOMAIN sink[o] :
       i < j /\ sink[o][i][1] = sink[o][j][1] => sink[o][i][2] < sink[o][j][2]

=============================================================================
