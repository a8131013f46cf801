----------------------------- MODULE MCCardIntake -----------------------------
(* Instances of CardIntake for TLC. *)
EXTENDS CardIntake, TLC

CONSTANTS c1, c2, v1, v2, p1, p2, t1, t2

\* Two titles of one card give two project ids.
ByVersion == [c \in Cards |-> v1 :> p1 @@ v2 :> p2]

\* Every card and version gives the same project id: a collision.
Colliding == [c \in Cards |-> [v \in Versions |-> p1]]

Chain == <<{}, {1}>>
Pair == <<{}, {}>>
OnePlan == {Chain}
TwoPlans == {Chain, Pair}

Symmetry == Permutations(Cards) \cup Permutations(Taps)

=============================================================================
