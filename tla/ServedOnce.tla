------------------------------ MODULE ServedOnce ------------------------------
(***************************************************************************)
(* What the gateway promises of an invocation: it is run upstream by one   *)
(* attempt at a time, and never again once it has been billed.  A bill is  *)
(* forgotten only with the process, and only if nothing saved it.          *)
(***************************************************************************)
EXTENDS Functions, FiniteSets

CONSTANTS Runners, Work

VARIABLES
  running,    \* the attempts now upstream, each with its work
  billed,     \* the work whose bill the service knows
  durable     \* the work whose bill is saved

svars == <<running, billed, durable>>

Idle == [a \in {} |-> 0]

Stops(a) == running' = Restrict(running, DOMAIN running \ {a})

SaveAmong(bills) == durable \subseteq durable' /\ durable' \subseteq bills

Run(a, w) ==
  /\ a \notin DOMAIN running
  /\ w \notin Range(running) /\ w \notin billed
  /\ running' = [r \in DOMAIN running \cup {a} |-> IF r = a THEN w ELSE running[r]]
  /\ UNCHANGED <<billed, durable>>

Abandon(a) ==
  /\ a \in DOMAIN running /\ Stops(a)
  /\ UNCHANGED <<billed, durable>>

Bill(a) ==
  /\ a \in DOMAIN running /\ Stops(a)
  /\ billed' = billed \cup {running[a]}
  /\ SaveAmong(billed')

Save == SaveAmong(billed) /\ UNCHANGED <<running, billed>>

\* The process ends, perhaps once the bill of one attempt has been saved.
Die ==
  /\ running' = Idle
  /\ \/ SaveAmong(billed)
     \/ \E a \in DOMAIN running : SaveAmong(billed \cup {running[a]})
  /\ billed' = durable'

SInit == running = Idle /\ billed = {} /\ durable = {}

SNext ==
  \/ \E a \in Runners, w \in Work : Run(a, w)
  \/ \E a \in Runners : Abandon(a) \/ Bill(a)
  \/ Save
  \/ Die

ServedOnceSpec == SInit /\ [][SNext]_svars
=============================================================================
