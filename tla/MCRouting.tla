------------------------------ MODULE MCRouting ------------------------------
(* Instances of Routing for TLC. *)
EXTENDS Routing, TLC

CONSTANTS t1, t2, a1, a2

Chain == t1 :> {} @@ t2 :> {t1}
Apart == t1 :> {} @@ t2 :> {}
Alone == t1 :> {}

SwapWorkers == Permutations(Workers)

==============================================================================
