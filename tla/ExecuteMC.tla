------------------------------ MODULE ExecuteMC ------------------------------
(***************************************************************************)
(* Calls for TLC: one of every shape that dispatchSteps and dispatchPipe   *)
(* tell apart, and the ones that are refused.                              *)
(***************************************************************************)
EXTENDS ExecuteServer, TLC

CONSTANTS plain, evil, awk, ruby,      \* codes
          rd, wr, gone                 \* tools

Code(c) == [code |-> c, tool |-> Null, elevated |-> FALSE, parallel |-> <<>>]
Tool(t) == [code |-> Null, tool |-> t, elevated |-> FALSE, parallel |-> <<>>]
Elevate(s) == [s EXCEPT !.elevated = TRUE]
Group(g) == [code |-> Null, tool |-> Null, elevated |-> FALSE, parallel |-> g]

Call(tool, steps) == [tool |-> tool, steps |-> steps]

SomeCalls == {
  Call("execute_code", <<Code(plain)>>),
  Call("execute_code", <<Code(evil), Code(plain)>>),
  Call("execute_code", <<Group(<<Code(plain), Code(evil)>>), Code(awk)>>),
  Call("call_tool", <<Tool(rd), Tool(rd), Tool(wr)>>),
  Call("call_tool", <<Tool(wr), Tool(rd), Tool(gone)>>),
  Call("call_tool", <<Group(<<Tool(rd), Tool(wr)>>)>>),
  Call("call_tool", <<Code(plain)>>),
  Call("pipe", <<Tool(rd), Group(<<Code(ruby), Tool(wr)>>), Code(Null)>>),
  Call("pipe", <<Elevate(Tool(wr)), Code(awk)>>),
  Call("pipe", <<>>)}

=============================================================================
