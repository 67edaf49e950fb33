---------------------------- MODULE MCChangeQueue ----------------------------
(* Instances of ChangeQueue for TLC. *)
EXTENDS ChangeQueue

JoinAndPoll == {"join", "poll"}
==============================================================================
