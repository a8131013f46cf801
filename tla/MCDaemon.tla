------------------------------- MODULE MCDaemon -------------------------------
(* Instances of Daemon for TLC. *)
EXTENDS Daemon, TLC

CONSTANTS p1, p2, d, cli

Symmetry == Permutations(Projects)

=============================================================================
