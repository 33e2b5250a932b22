----------------------------- MODULE MCTakeover -----------------------------
(***************************************************************************)
(* A small instance of Takeover: one profile beside Default, an update of  *)
(* Kiro and one of the client, and a cleaner that takes one or both of the *)
(* client's records, or one file of the patch's material.                  *)
(***************************************************************************)
EXTENDS Takeover

MCLosable ==
  {{"snapshot", "session"}, {"snapshot"}, {"session"}, {"state"}, {"backup"}}
=============================================================================
