------------------------------- MODULE MCChat -------------------------------
(* Instances of Chat for TLC. *)
EXTENDS Chat, TLC

CONSTANTS x, y

Two == {x, y}

=============================================================================
