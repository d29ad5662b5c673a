---------------------------- MODULE MCFreshness ----------------------------
(***************************************************************************)
(* A small instance of Freshness: two heads that hold the same version of  *)
(* the reviewer workflow while main may move to another.                   *)
(***************************************************************************)
EXTENDS Freshness

MCWorkflowAt == [h \in Heads |-> "w1"]
=============================================================================
