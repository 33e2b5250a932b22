------------------------------- MODULE MCServing -------------------------------
(* Gateway, where a stream's end is a verdict, and Answer, where it is the     *)
(* lines that led to it, in one run. They share no state, so one moves only    *)
(* while the other is where it starts: the run visits every behaviour of each. *)
EXTENDS MCGateway, Answer

\* Two calls of two pieces and one without arguments.
MCPieces == [c \in ToolUses |-> IF c = 3 THEN 0 ELSE 2]

\* Counts of a prompt, of one partly cached, of output alone, of nothing.
MCCounts == {<<3, 0, 1>>, <<2, 1, 2>>, <<0, 0, 1>>, <<0, 0, 0>>}

AnswerRests == AnswerInit /\ upstream.dialect = "indexed"

ServingInit == GatewayInit /\ AnswerInit

\* An answer that has ended stays as it is.
Ended == ~Open /\ UNCHANGED answerVars

ServingNext ==
  \/ AnswerRests /\ GatewayNext /\ UNCHANGED answerVars
  \/ GatewayInit /\ (AnswerNext \/ Ended) /\ UNCHANGED <<vars, gateway>>

ServingSpec == ServingInit /\ [][ServingNext]_<<vars, gateway, answerVars>>

-----------------------------------------------------------------------------

\* What Gateway's verdicts are told of an answer.
ReportedEnd ==
  [frame |-> heard.frame, input |-> heard.input, counted |-> heard.usage.completion > 0,
   stop |-> IF heard.stop \in {"limit", "filter"} THEN "final" ELSE heard.stop,
   done |-> end.how = "stopped" \/ end.emptied]

\* Gateway's verdicts are the ones an answer's lines lead to: what is billed and what is
\* complete at its end, whatever the lines were.
VerdictsAgree ==
  ~Open => /\ Billable(heard.output, ReportedEnd) <=> end.bill # {}
           /\ Completes(heard.output, ReportedEnd) <=> end.completed
=============================================================================
