------------------------------ MODULE MCRequests ------------------------------
(* Small instances of Billing and Traces in one run. They share no state, so *)
(* one moves only while the other is where it starts: the run visits every   *)
(* behaviour of each.                                                        *)
EXTENDS MCBilling, Traces

CONSTANTS m1, u1, u2

Attempt(provider, ok) == [provider |-> provider, ok |-> ok]

\* No provider could serve; the second did after the first; the only one asked did not.
MCChains ==
  {<<>>, <<Attempt(u1, FALSE), Attempt(u2, TRUE)>>, <<Attempt(u1, FALSE)>>}

MCCardOfCall == [i \in Calls |-> alice]
MCModel == [i \in Calls |-> m1]

Refusal(class, named) == [class |-> class, named |-> named]
OneRefusal == {Refusal("usage_limit", TRUE)}
MCRefusals == OneRefusal \cup {Refusal("input_too_long", FALSE)}

RequestsInit == Init /\ TracesInit

RequestsNext ==
  \/ TracesInit /\ Next /\ UNCHANGED traceVars
  \/ Init /\ TracesNext /\ UNCHANGED vars

RequestsSpec == RequestsInit /\ [][RequestsNext]_<<vars, traceVars>>
=============================================================================
