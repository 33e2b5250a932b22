--------------------------- MODULE CommitRegister ---------------------------
(***************************************************************************)
(* What the billing engine relies on when it saves its state: a register   *)
(* whose durable value is replaced by the candidate at one instant.  The   *)
(* value in memory follows only an acknowledged replacement, a candidate   *)
(* given up was never durable, and a restart reads what is durable.  Every *)
(* Commit of module Billing is one Begin with the steps that end it.       *)
(***************************************************************************)
CONSTANTS Values, NoValue

VARIABLES durable, memory, candidate, up

Init ==
  /\ durable \in Values
  /\ memory = NoValue /\ candidate = NoValue
  /\ up = FALSE

Begin ==
  /\ up /\ candidate = NoValue
  /\ candidate' \in Values
  /\ UNCHANGED <<durable, memory, up>>

Install ==
  /\ up /\ candidate # NoValue /\ durable # candidate
  /\ durable' = candidate
  /\ UNCHANGED <<memory, candidate, up>>

Acknowledge ==
  /\ up /\ candidate # NoValue /\ durable = candidate
  /\ memory' = candidate /\ candidate' = NoValue
  /\ UNCHANGED <<durable, up>>

GiveUp ==
  /\ up /\ candidate # NoValue /\ durable # candidate
  /\ candidate' = NoValue
  /\ UNCHANGED <<durable, memory, up>>

Crash ==
  /\ up /\ up' = FALSE
  /\ memory' = NoValue /\ candidate' = NoValue
  /\ UNCHANGED durable

Recover ==
  /\ ~up /\ up' = TRUE
  /\ memory' = durable
  /\ UNCHANGED <<durable, candidate>>

Next == Begin \/ Install \/ Acknowledge \/ GiveUp \/ Crash \/ Recover

Spec == Init /\ [][Next]_<<durable, memory, candidate, up>>
=============================================================================
