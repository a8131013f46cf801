------------------------------ MODULE Authority ------------------------------
(***************************************************************************)
(* What card intake promises Matthew, without cards' states, commands,     *)
(* retries or crashes: a project exists only from the version of a card he *)
(* has said yes to, a card becomes at most one project, that is final, and *)
(* a project is set up once.                                               *)
(***************************************************************************)
CONSTANTS Cards, Versions, Projects, None

VARIABLES
    consent,   \* consent[c]: the version Matthew has said yes to
    creator,   \* creator[p]: the <<card, version>> project p was made from
    setup      \* setup[p]: "none", "partial" or "complete"

vars == <<consent, creator, setup>>

Init ==
    /\ consent = [c \in Cards |-> None]
    /\ creator = [p \in Projects |-> None]
    /\ setup = [p \in Projects |-> "none"]

HasProject(c) == \E p \in Projects, v \in Versions : creator[p] = <<c, v>>

\* Matthew says yes, or his yes is taken back, while there is no project yet.
SayYes(c, v) ==
    /\ ~HasProject(c)
    /\ consent' = [consent EXCEPT ![c] = v]
    /\ UNCHANGED <<creator, setup>>

TakeBack(c) ==
    /\ ~HasProject(c)
    /\ consent' = [consent EXCEPT ![c] = None]
    /\ UNCHANGED <<creator, setup>>

Create(p, c, v) ==
    /\ consent[c] = v
    /\ ~HasProject(c)
    /\ creator[p] = None
    /\ creator' = [creator EXCEPT ![p] = <<c, v>>]
    /\ setup' = [setup EXCEPT ![p] = "partial"]
    /\ UNCHANGED consent

Finish(p) ==
    /\ setup[p] = "partial"
    /\ setup' = [setup EXCEPT ![p] = "complete"]
    /\ UNCHANGED <<consent, creator>>

Next ==
    \/ \E c \in Cards : TakeBack(c)
    \/ \E c \in Cards, v \in Versions :
        \/ SayYes(c, v)
        \/ \E p \in Projects : Create(p, c, v)
    \/ \E p \in Projects : Finish(p)

Spec == Init /\ [][Next]_vars

=============================================================================
