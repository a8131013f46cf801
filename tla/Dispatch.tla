------------------------------- MODULE Dispatch -------------------------------
(***************************************************************************)
(* What routing promises Teletraan and Matthew, without snapshots, turns,  *)
(* replays or crashes: every effect of Metroplex is one step whose guard   *)
(* holds in the service's state at that moment.  A wake's cycle pays for   *)
(* one judgment, has one worker and starts one attempt; only an open task  *)
(* on which nobody works becomes a question; a reserved action starts with *)
(* a yes that Matthew gave to a question he was sent.                      *)
(***************************************************************************)
EXTENDS Naturals

CONSTANTS
    Tasks, Workers, Deps, Reserved, None,
    Wakes   \* the wakes that may start work, each <<task, reason>>

VARIABLES
    paused, status, live, approved,   \* of the project and its tasks
    why,       \* why[t]: "intent", "authority", "reserved", or "dep" if t waits for a task
    told,      \* the questions Matthew was sent
    cycle      \* cycle[w]: the calls of Jev paid in the present cycle of wake w, the worker it
               \* has, and whether it has started an attempt

service == <<paused, status, live, approved, why, told>>
vars == <<service, cycle>>

Final == {"done", "cancelled"}
Fresh == [paid |-> 0, worker |-> None, started |-> FALSE]

Init ==
    /\ paused = FALSE
    /\ status = [t \in Tasks |-> "open"]
    /\ why = [t \in Tasks |-> None]
    /\ live = {} /\ approved = {} /\ told = {}
    /\ cycle = [w \in Wakes |-> Fresh]

DepsDone(t) == \A d \in Deps[t] : status[d] = "done"
Works(t) == \E a \in Workers : <<t, a>> \in live

\* Teletraan lets an attempt on the task start.
Startable(t) ==
    /\ status[t] = "open"
    /\ ~paused
    /\ DepsDone(t)
    /\ t \in Reserved => t \in approved

\* An attempt uses up the approval, and a question is over when its task changes.
Begin(t, a) ==
    /\ live' = live \cup {<<t, a>>}
    /\ approved' = approved \ {t}
    /\ UNCHANGED <<paused, status, why, told>>

Becomes(t, s, reason) ==
    /\ status' = [status EXCEPT ![t] = s]
    /\ why' = [why EXCEPT ![t] = reason]
    /\ told' = told \ {t}
    /\ UNCHANGED <<paused, live, approved, cycle>>

-----------------------------------------------------------------------------
(* Metroplex *)

Pay(w) ==
    /\ cycle[w].paid = 0 /\ cycle[w].worker = None
    /\ cycle' = [cycle EXCEPT ![w].paid = 1]
    /\ UNCHANGED service

Choose(w, a) ==
    /\ cycle[w].worker = None /\ ~cycle[w].started
    /\ cycle' = [cycle EXCEPT ![w].worker = a]
    /\ UNCHANGED service

Start(w) ==
    /\ cycle[w].worker # None /\ ~cycle[w].started
    /\ Startable(w[1])
    /\ Begin(w[1], cycle[w].worker)
    /\ cycle' = [cycle EXCEPT ![w].started = TRUE]

\* Matthew is asked who may act, or who should do a task that could start.
Ask(t, kind) ==
    /\ status[t] = "open" /\ ~Works(t)
    /\ IF kind = "reserved" THEN t \in Reserved \ approved ELSE DepsDone(t)
    /\ Becomes(t, "blocked", kind)

Tell(t) ==
    /\ why[t] \in {"intent", "authority", "reserved"}
    /\ told' = told \cup {t}
    /\ UNCHANGED <<paused, status, live, approved, why, cycle>>

\* The tap on a reserved question that was sent, and what opens a blocked task again.
Approve(t) ==
    /\ t \in told /\ why[t] = "reserved"
    /\ approved' = approved \cup {t}
    /\ UNCHANGED <<paused, status, live, why, told, cycle>>

Reopen(t) ==
    /\ status[t] = "blocked"
    /\ (why[t] = "reserved" /\ t \in approved) \/ DepsDone(t)
    /\ Becomes(t, "open", None)

\* Wakes are acknowledged or were raised again: their next cycles begin.
NewCycles ==
    /\ cycle' = [w \in Wakes |-> cycle'[w]]
    /\ \A w \in Wakes : cycle'[w] \in {cycle[w], Fresh}
    /\ UNCHANGED service

-----------------------------------------------------------------------------
(* Everybody else *)

AttemptEnds(t, a) ==
    /\ live' = live \ {<<t, a>>}
    /\ UNCHANGED <<paused, status, approved, why, told, cycle>>

OwnerStarts(t, a) == Startable(t) /\ ~Works(t) /\ Begin(t, a) /\ UNCHANGED cycle

OwnerCompletes(t) == status[t] = "open" /\ ~Works(t) /\ Becomes(t, "done", None)

Operates(t, s, reason) ==
    /\ status[t] \notin Final /\ s # "done" /\ reason \in {"dep", None}
    /\ Becomes(t, s, reason)

Rescopes(t) ==
    /\ status[t] \notin Final
    /\ approved' = approved \ {t}
    /\ told' = told \ {t}
    /\ UNCHANGED <<paused, status, live, why, cycle>>

PausesProject == paused' = ~paused /\ UNCHANGED <<status, live, approved, why, told, cycle>>

-----------------------------------------------------------------------------

\* The inequalities exclude nothing but steps that change nothing, which Spec allows anyway:
\* they spare the model checker a search for one.
Cycles ==
    /\ cycle' # cycle
    /\ \/ NewCycles
       \/ \E w \in Wakes : Pay(w) \/ Start(w) \/ \E a \in Workers : Choose(w, a)

Metroplex ==
    \E t \in Tasks :
        \/ Tell(t) \/ Approve(t) \/ Reopen(t)
        \/ \E kind \in {"intent", "authority", "reserved"} : Ask(t, kind)

Others ==
    \/ \E t \in Tasks :
        \/ OwnerCompletes(t) \/ Rescopes(t)
        \/ \E a \in Workers : AttemptEnds(t, a) \/ OwnerStarts(t, a)
        \/ \E s \in {"open", "blocked", "paused", "cancelled"}, reason \in {"dep", None} :
            Operates(t, s, reason)
    \/ PausesProject

Next == Cycles \/ (service' # service /\ (Metroplex \/ Others))

Spec == Init /\ [][Next]_vars

=============================================================================
