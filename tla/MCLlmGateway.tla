---------------------------- MODULE MCLlmGateway ----------------------------
(***************************************************************************)
(* LlmGateway for model checking: a small request and one larger than the  *)
(* token rate, reports below and above what was reserved.                  *)
(***************************************************************************)
EXTENDS LlmGateway

SomeRequests == {[input |-> 1, output |-> 1], [input |-> 2, output |-> 2]}
SomeReports == {[input |-> 1, output |-> 0], [input |-> 1, output |-> 2]}
=============================================================================
