--------------------------- MODULE MCClientUpdate ---------------------------
(***************************************************************************)
(* A small instance of ClientUpdate: the version that runs and two newer   *)
(* releases; three processes, so an installer, its trial and a second      *)
(* start meet.                                                             *)
(***************************************************************************)
EXTENDS ClientUpdate
=============================================================================
