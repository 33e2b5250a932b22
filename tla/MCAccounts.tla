------------------------------ MODULE MCAccounts ------------------------------
(* Small instances of Sessions, AdminLogin, Routing and Prompts in one run.    *)
(* They share no state, so one moves only while the others are where they      *)
(* start: the run visits every behaviour of each.                              *)
EXTENDS Sessions, AdminLogin, Routing, Prompts

CONSTANTS Home, Other, Kiro, Client, b1, b2, task, trial, sequel, frugal, dear

\* A window of Kiro and the desktop client share one device; the other has none.
MCDevice == [w \in Windows |-> Home]

\* A task, the continuation of the conversation's last one, a preview of an operator.
MCKind == [r \in Requests |-> IF r = sequel THEN "continuation" ELSE "plain"]

Enforced(simple, complex) == [mode |-> "enforce", simple |-> {simple}, complex |-> {complex}]

\* The two chains change places with a publication.
MCPolicies == {Enforced(frugal, dear), Enforced(dear, frugal)}

CONSTANTS p1, p2, p3, f1, f2, ca, cb

Message(text, images, pdfs, results) ==
  [text |-> text, images |-> images, pdfs |-> pdfs, results |-> results]

\* Words and an image; two images with a result; a file with two results; a call answered twice.
MCMessages ==
  {Message(TRUE, <<p3>>, <<>>, <<>>), Message(FALSE, <<p1, p2>>, <<>>, <<ca>>),
   Message(FALSE, <<>>, <<f1>>, <<cb, ca>>), Message(TRUE, <<>>, <<f2>>, <<ca, ca>>)}

MCReplies == {<<>>, <<ca>>, <<ca, cb>>}

MCRoutingInit == RoutingInit /\ policies = <<Enforced(frugal, dear)>>

Init == SessionsInit /\ AdminInit /\ MCRoutingInit /\ PromptsInit

Next ==
  \/ AdminInit /\ MCRoutingInit /\ PromptsInit /\ SessionsNext /\ UNCHANGED <<adminVars, routingVars, promptVars>>
  \/ SessionsInit /\ MCRoutingInit /\ PromptsInit /\ AdminNext /\ UNCHANGED <<vars, routingVars, promptVars>>
  \/ SessionsInit /\ AdminInit /\ PromptsInit /\ RoutingNext /\ UNCHANGED <<vars, adminVars, promptVars>>
  \/ SessionsInit /\ AdminInit /\ MCRoutingInit /\ PromptsNext /\ UNCHANGED <<vars, adminVars, routingVars>>

Spec == Init /\ [][Next]_<<vars, adminVars, routingVars, promptVars>>
=============================================================================
