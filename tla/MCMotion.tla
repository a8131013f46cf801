------------------------------ MODULE MCMotion ------------------------------
(* Instances of Motion for TLC. *)
EXTENDS Motion, TLC

CONSTANTS a1, t1, t2

OneAttempt == <<a1>>
TwoTasks == <<t1, t2>>
FirstOnly == [a \in {a1} |-> t1]
EachOther == t1 :> t2 @@ t2 :> t1

=============================================================================
