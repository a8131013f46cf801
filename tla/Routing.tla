------------------------------ MODULE Routing ------------------------------
(***************************************************************************)
(* The routing pass of Metroplex (cos/routing.py): one turn per pending    *)
(* Teletraan wake, each ending in one worker, one question to Matthew, or  *)
(* an acknowledgement that nothing is to be done now.  With it the tap     *)
(* that approves a reserved action (cos/intake.py) and the part of the     *)
(* motion sweep (cos/motion.py) that raises wakes and repeats notices.     *)
(*                                                                         *)
(* Metroplex is one thread; Teletraan is a service that workers, owners    *)
(* and the operator change meanwhile.  Every decision of a turn is made on *)
(* a snapshot, so `snap` is part of the state, and the ids of all that a   *)
(* turn writes are made of the wake and its cycle, so a turn that is run   *)
(* again finds what it wrote before in cycle[w].                           *)
(*                                                                         *)
(* One project.  Its members with a work grant are `able`.                 *)
(***************************************************************************)
EXTENDS Naturals, FiniteSets

CONSTANTS
    Tasks,
    Workers,    \* the agents that may be members of the project
    Deps,       \* Deps[t]: the tasks that t waits for
    Reserved,   \* the tasks whose spec names a reserved action
    Limit,      \* the project's concurrencyLimit
    TurnCap,    \* caps.turns_per_project_per_cycle
    Moves,      \* what the owner and the operator may do
    MaxMoves,   \* bound: how often they do it
    MaxFaults,  \* bound: crashes, lost replies, refused commands, messages not sent
    None

ASSUME DepsAssumption == Deps \in [Tasks -> SUBSET Tasks]
ASSUME LimitsAssumption == {Limit, TurnCap, MaxMoves, MaxFaults} \subseteq Nat
ASSUME NoneAssumption ==
    None \notin Workers \cup {"intent", "authority", "reserved", "dep"}
\* `choice` holds a worker or a kind of question, which the code keeps in two parameters.
ASSUME WorkersAssumption == Workers \cap {"intent", "authority", "reserved"} = {}

\* "ready" stands for every reason Teletraan raises when a task may start
\* (created, scope, imported, ready), "unassigned" for those of the sweep.
Reasons == {"ready", "unassigned", "stopped", "result", "done", "unblock", "rework"}
Routable == {"ready", "unassigned", "stopped"}
Freeing == {"result", "stopped", "done"}
Wakes == Tasks \X Reasons
Escapes == {"wait", "none_fit"}
Kinds == {"intent", "authority", "reserved"}

VARIABLES
    \* Teletraan
    paused,     \* the project is paused
    able,       \* the members who hold the work grant
    status,     \* "open" is ready or active
    why,        \* why[t]: the kind of the reason t is blocked for
    live,       \* the live attempts, <<task, worker>>
    review,     \* the tasks with a current result or an accepted contribution
    approved,   \* the tasks with an unused approval of their reserved action
    pending,    \* the unacknowledged wakes
    again,      \* the wakes raised (again) since a pass read its list
    cycle,      \* cycle[w]: what was written under the ids of w's cycle
    \* Metroplex
    turns,      \* turns[t]: the thrash guard's counter in this window
    told,       \* the blocked tasks whose notice was delivered
    noted,      \* those of which that is recorded
    snap,       \* the snapshot the pass decides on; its fields moved and rescoped say
                \* which tasks have a newer revision or scope revision by now
    todo,       \* the wakes the pass has still to handle
    at, wake, choice,   \* where the turn is, its wake, the worker or the question
    faults, moves

teletraan == <<paused, able, status, why, live, review, approved, pending, again, cycle>>
pass == <<snap, todo, at, wake, choice>>
vars == <<teletraan, turns, told, noted, pass, faults, moves>>

Statuses == {"open", "blocked", "paused", "done", "cancelled"}
Places == {"idle", "snapshot", "turn", "verdict", "jev", "call", "record", "fresh", "create",
            "queue", "block", "notice", "resume", "ack", "approve"}
NoSnapshot == {"idle", "snapshot", "approve"}
Answers == Workers \cup Escapes \cup {"unsure"}
Written == [worker : Workers \cup {None}, queued : BOOLEAN, judged : Answers \cup {None},
            inflight : BOOLEAN, calls : 0..2, fenced : BOOLEAN]
Nothing == [worker |-> None, queued |-> FALSE, judged |-> None, inflight |-> FALSE,
            calls |-> 0, fenced |-> FALSE]

Now == [paused |-> paused, able |-> able, status |-> status, why |-> why, live |-> live,
        review |-> review, approved |-> approved, pending |-> pending, cycle |-> cycle,
        moved |-> {}, rescoped |-> {}]
Snapshots == [paused : BOOLEAN, able : SUBSET Workers, status : [Tasks -> Statuses],
              why : [Tasks -> Kinds \cup {"dep", None}], live : SUBSET (Tasks \X Workers),
              review : SUBSET Tasks, approved : SUBSET Tasks, pending : SUBSET Wakes,
              cycle : [Wakes -> Written], moved : SUBSET Tasks, rescoped : SUBSET Tasks]

TypeOK ==
    /\ paused \in BOOLEAN
    /\ able \subseteq Workers
    /\ status \in [Tasks -> Statuses]
    /\ why \in [Tasks -> Kinds \cup {"dep", None}]
    /\ \A t \in Tasks : (status[t] = "blocked") <=> (why[t] # None)
    /\ live \subseteq Tasks \X Workers
    /\ review \cup approved \cup told \cup noted \subseteq Tasks
    /\ pending \cup again \cup todo \subseteq Wakes
    /\ cycle \in [Wakes -> Written]
    /\ turns \in [Tasks -> 0..TurnCap]
    /\ at \in Places
    /\ at \notin NoSnapshot => snap \in Snapshots
    /\ wake \in Wakes \cup {None}
    /\ at \notin {"idle", "snapshot", "turn"} => wake \in Wakes
    /\ choice \in Answers \cup Kinds \cup {None}
    /\ faults \in 0..MaxFaults
    /\ moves \in 0..MaxMoves

Init ==
    /\ paused = FALSE
    /\ able = Workers
    /\ status = [t \in Tasks |-> "open"]
    /\ why = [t \in Tasks |-> None]
    /\ live = {} /\ review = {} /\ approved = {}
    /\ pending = Tasks \X {"ready"}
    /\ again = {}
    /\ cycle = [w \in Wakes |-> Nothing]
    /\ turns = [t \in Tasks |-> 0]
    /\ told = {} /\ noted = {} /\ todo = {}
    /\ snap = None
    /\ at = "idle" /\ wake = None /\ choice = None
    /\ faults = 0 /\ moves = 0

-----------------------------------------------------------------------------
(* What a snapshot s says *)

T == wake[1]
R == wake[2]

DepsDone(s, t) == \A d \in Deps[t] : s.status[d] = "done"
Working(s, t) == \E a \in Workers : <<t, a>> \in s.live
Busy(s, a) == \E t \in Tasks : <<t, a>> \in s.live
Candidates(s) == {a \in s.able : ~Busy(s, a)}

\* waiting_to_route
Waiting(s, t) ==
    /\ s.status[t] = "open"
    /\ DepsDone(s, t)
    /\ ~Working(s, t)
    /\ t \notin s.review
    /\ \A r \in Reasons : <<t, r>> \notin s.pending

\* handle reaches its choice of a worker.
ToRoute(s, t, r) ==
    /\ s.status[t] = "open"
    /\ ~Working(s, t)
    /\ r \in Routable
    /\ t \notin s.review
    /\ DepsDone(s, t)

\* The owner wants to redo a reviewed result of a reserved action.
ToRework(s, t, r) ==
    /\ s.status[t] = "open"
    /\ ~Working(s, t)
    /\ r = "rework"
    /\ t \in s.review

NeedsYes(s, t, r) ==
    /\ ToRoute(s, t, r) \/ ToRework(s, t, r)
    /\ t \in Reserved \ s.approved

-----------------------------------------------------------------------------
(* Moving through a pass *)

Fault == faults < MaxFaults /\ faults' = faults + 1
NoFault == UNCHANGED faults

\* The snapshot grows older: these tasks have a newer revision.
Touch(ts) == snap' = IF at \in NoSnapshot THEN snap ELSE [snap EXCEPT !.moved = @ \cup ts]

Goto(place, x) == at' = place /\ choice' = x /\ UNCHANGED <<wake, todo>>

\* A turn ends: with a new snapshot, on the old one, or the pass ends with it.
Leave(place) ==
    /\ at' = place /\ wake' = None /\ choice' = None
    /\ snap' = IF place = "turn" THEN snap ELSE None
    /\ todo' = IF place = "idle" THEN {} ELSE todo

\* A command on task ts took effect: the turn goes on, or its reply is lost and the pass ends.
Then(place, x, ts) ==
    \/ Goto(place, x) /\ Touch(ts) /\ NoFault
    \/ Leave("idle") /\ Fault

\* A command was rejected: route_pending goes to the next wake, with the old snapshot.
NextWake == Leave("turn") /\ NoFault

Wrote(field, x) == cycle' = [cycle EXCEPT ![wake][field] = x]
Raise(ws) == pending' = pending \cup ws /\ again' = again \cup ws

\* The daemon dies, or a call raises something else than WorkError, and nothing changes.
Abort ==
    /\ at # "idle"
    /\ Fault
    /\ Leave("idle")
    /\ UNCHANGED <<teletraan, turns, told, noted, moves>>

\* Teletraan rejects a command of the turn.
Rejected ==
    /\ at \in {"record", "create", "queue", "block", "resume", "ack"}
    /\ Fault
    /\ Leave("turn")
    /\ UNCHANGED <<teletraan, turns, told, noted, moves>>

\* Mutant: a wake that was raised again keeps the ids of its earlier cycle.
PassKeepsIds ==
    /\ at = "idle"
    /\ pending # {}
    /\ todo' = pending
    /\ again' = {}
    /\ at' = "snapshot"
    /\ UNCHANGED <<paused, able, status, why, live, review, approved, pending, cycle, turns,
                   told, noted, snap, wake, choice, faults, moves>>

\* route_pending reads the pending wakes.  What an earlier cycle wrote is never read again.
PassStart ==
    /\ at = "idle"
    /\ pending # {}
    /\ todo' = pending
    /\ cycle' = [w \in Wakes |-> IF w \in again THEN Nothing ELSE cycle[w]]
    /\ again' = {}
    /\ at' = "snapshot"
    /\ UNCHANGED <<paused, able, status, why, live, review, approved, pending, turns, told,
                   noted, snap, wake, choice, faults, moves>>

TakeSnapshot ==
    /\ at = "snapshot"
    /\ snap' = Now
    /\ Goto("turn", None)
    /\ UNCHANGED <<teletraan, turns, told, noted, faults, moves>>

PassEnd ==
    /\ at = "turn"
    /\ todo = {}
    /\ Leave("idle")
    /\ UNCHANGED <<teletraan, turns, told, noted, faults, moves>>

\* hand_off wakes the tasks that wait.  A raise may be rejected, or the cap be reached.
HandsOff(w) ==
    LET waiting == {t \in Tasks \ {w[1]} : Waiting(snap, t)} \ snap.moved
    IN \/ Raise(waiting \X {"unassigned"}) /\ NoFault
       \/ \E some \in SUBSET waiting : Raise(some \X {"unassigned"}) /\ Fault

\* A turn starts.  A paused project keeps its wake for later.
Turn(w) ==
    /\ at = "turn"
    /\ w \in todo
    /\ todo' = todo \ {w}
    /\ choice' = None
    /\ \/ /\ snap.paused
          /\ at' = "snapshot" /\ wake' = None /\ snap' = None /\ NoFault
          /\ UNCHANGED <<pending, again>>
       \/ /\ ~snap.paused
          /\ at' = "verdict" /\ wake' = w /\ UNCHANGED snap
          /\ IF w[2] \in Freeing THEN HandsOff(w) ELSE NoFault /\ UNCHANGED <<pending, again>>
    /\ UNCHANGED <<paused, able, status, why, live, review, approved, cycle, turns, told, noted,
                   moves>>

-----------------------------------------------------------------------------
(* handle: which way a turn goes *)

\* Nothing to do: over, paused, at work, the owner's to review, dependencies not done.
Noop ==
    /\ at = "verdict"
    /\ snap.status[T] # "blocked"
    /\ ~ToRoute(snap, T, R)
    /\ ~NeedsYes(snap, T, R)
    /\ Goto("ack", None)
    /\ UNCHANGED <<teletraan, turns, told, noted, snap, faults, moves>>

\* A blocked task is resumed when its blocker is done, or else its notice is repeated.
Blocked ==
    /\ at = "verdict"
    /\ snap.status[T] = "blocked"
    /\ Goto(IF R = "unblock" /\ DepsDone(snap, T) THEN "resume" ELSE "notice", None)
    /\ UNCHANGED <<teletraan, turns, told, noted, snap, faults, moves>>

AskReserved ==
    /\ at = "verdict"
    /\ NeedsYes(snap, T, R)
    /\ Goto("block", "reserved")
    /\ UNCHANGED <<teletraan, turns, told, noted, snap, faults, moves>>

\* Mutant: the turn does not look for an earlier choice.
PriorForgotten(w) == None

\* The worker this cycle already chose.
Prior(w) == snap.cycle[w].worker

\* This cycle has its contribution already: finish that choice.
ResumeChoice ==
    /\ at = "verdict"
    /\ ToRoute(snap, T, R) /\ ~NeedsYes(snap, T, R)
    /\ Prior(wake) # None
    /\ IF snap.cycle[wake].queued THEN Goto("ack", None) ELSE Goto("queue", Prior(wake))
    /\ UNCHANGED <<teletraan, turns, told, noted, snap, faults, moves>>

\* The task was routed as often as one window allows.
AtCap(t) == turns[t] >= TurnCap

\* A fresh choice, if the thrash guard, the project's limit and the members allow one.
Consider ==
    /\ at = "verdict"
    /\ ToRoute(snap, T, R) /\ ~NeedsYes(snap, T, R)
    /\ Prior(wake) = None
    /\ \/ AtCap(T) /\ Leave("snapshot") /\ UNCHANGED turns
       \/ /\ ~AtCap(T)
          /\ turns' = [turns EXCEPT ![T] = @ + 1]
          /\ \/ Cardinality(snap.live) >= Limit /\ Goto("ack", None)
             \/ /\ Cardinality(snap.live) < Limit
                /\ \/ Candidates(snap) # {} /\ Goto("jev", None)
                   \/ Candidates(snap) = {} /\ snap.able # {} /\ Goto("ack", None)
                   \/ snap.able = {} /\ Goto("block", "authority")
          /\ UNCHANGED snap
    /\ UNCHANGED <<teletraan, told, noted, faults, moves>>

-----------------------------------------------------------------------------
(* _decide: Jev's recorded answer, else Jev, else local reasoning *)

\* Where the turn goes with a choice.  One that is no candidate is a question to Matthew.
Follow(x) ==
    \/ x = "wait" /\ Goto("ack", None)
    \/ x \in Candidates(snap) /\ Goto("fresh", x)
    \/ x \in (Workers \ Candidates(snap)) \cup {"none_fit"} /\ Goto("block", x)

\* _reason: an unusable answer, an open breaker and an outage all mean "wait".
Reason == \E x \in Candidates(snap) \cup Escapes : Follow(x)

\* "unsure" is an answer of Jev that decides nothing: unavailable, low confidence, not ready.
Answered(x) == IF x = "unsure" THEN Reason ELSE Follow(x)

\* Mutant: the mark is not looked at.
Unmarked(w) == FALSE

\* A turn that finds the mark records that the outcome is unknown.
Marked(w) == cycle[w].inflight

\* The mark is stored before the call.  Jev is skipped if the project forbids it, its
\* breaker is open or its cap is reached.
AskJev ==
    /\ at = "jev"
    /\ \/ /\ snap.cycle[wake].judged # None
          /\ Answered(snap.cycle[wake].judged)
          /\ UNCHANGED cycle
       \/ /\ snap.cycle[wake].judged = None
          /\ \/ Reason /\ UNCHANGED cycle
             \/ /\ IF Marked(wake) THEN Goto("record", "unsure") ELSE Goto("call", None)
                /\ Wrote("inflight", TRUE)
    /\ UNCHANGED <<paused, able, status, why, live, review, approved, pending, again, turns,
                   told, noted, snap, faults, moves>>

\* The paid call.
CallJev ==
    /\ at = "call"
    /\ cycle' = [cycle EXCEPT ![wake].calls = @ + 1]
    /\ \E x \in Candidates(snap) \cup Escapes \cup {"unsure"} : Then("record", x, {})
    /\ UNCHANGED <<paused, able, status, why, live, review, approved, pending, again, turns,
                   told, noted, moves>>

\* judgment.record
RecordJudgment ==
    /\ at = "record"
    /\ Wrote("judged", choice)
    /\ \/ Answered(choice) /\ NoFault /\ UNCHANGED snap
       \/ Leave("idle") /\ Fault
    /\ UNCHANGED <<paused, able, status, why, live, review, approved, pending, again, turns,
                   told, noted, moves>>

-----------------------------------------------------------------------------
(* _assign and _escalate *)

\* The fresh-snapshot guard: the agent is free, nobody works on the task, its scope stands.
StillFree(t, a) == ~Busy(Now, a) /\ ~Working(Now, t) /\ t \notin snap.rescoped

CheckFresh ==
    /\ at = "fresh"
    /\ IF StillFree(T, choice) THEN Goto("create", choice) ELSE Goto("ack", None)
    /\ UNCHANGED <<teletraan, turns, told, noted, snap, faults, moves>>

\* contribution.create under the cycle's id: the same worker replays the receipt, another
\* one is a COMMAND_ID_CONFLICT.
CreateContribution ==
    /\ at = "create"
    /\ \/ cycle[wake].worker \in {None, choice}
          /\ Wrote("worker", choice) /\ Then("queue", choice, {})
       \/ cycle[wake].worker \notin {None, choice} /\ NextWake /\ UNCHANGED cycle
    /\ UNCHANGED <<paused, able, status, why, live, review, approved, pending, again, turns,
                   told, noted, moves>>

\* The codes in NOT_NOW that Teletraan's state decides.
NotNow(t) == paused \/ ~DepsDone(Now, t) \/ t \in Reserved \ approved

\* attempt.queue.  It may be refused for now for other reasons too (a binding or a writable
\* path in use, the project at capacity).  A refusal for now ends the turn as a wait.
QueueAttempt ==
    /\ at = "queue"
    /\ \/ /\ status[T] = "open" /\ ~NotNow(T)
          /\ live' = live \cup {<<T, choice>>}
          /\ approved' = approved \ {T}
          /\ Wrote("queued", TRUE)
          /\ Then("ack", None, {T})
       \/ /\ status[T] = "open"
          /\ Goto("ack", None) /\ UNCHANGED <<live, approved, cycle, snap>>
          /\ IF NotNow(T) THEN NoFault ELSE Fault
       \/ /\ status[T] # "open"
          /\ NextWake /\ UNCHANGED <<live, approved, cycle>>
    /\ UNCHANGED <<paused, able, status, why, review, pending, again, turns, told, noted, moves>>

SetStatus(t, s, reason) ==
    /\ status' = [status EXCEPT ![t] = s]
    /\ why' = [why EXCEPT ![t] = reason]
    /\ told' = told \ {t} /\ noted' = noted \ {t}

Kind == IF choice \in {"authority", "reserved"} THEN choice ELSE "intent"

\* Mutant: the service is not told which revision the turn has seen.
AnyRevision == ~cycle[wake].fenced

\* task.block and task.resume carry the snapshot's revision and an id of the cycle.
Accepted == T \notin snap.moved /\ ~cycle[wake].fenced

Block ==
    /\ at = "block"
    /\ \/ /\ Accepted
          /\ SetStatus(T, "blocked", Kind)
          /\ Wrote("fenced", TRUE)
          /\ Then("notice", None, {T})
       \/ ~Accepted /\ NextWake /\ UNCHANGED <<status, why, told, noted, cycle>>
    /\ UNCHANGED <<paused, able, live, review, approved, pending, again, turns, moves>>

\* Teletraan raises a wake for a task that may start again.
ResumeTask ==
    /\ at = "resume"
    /\ \/ /\ Accepted
          /\ SetStatus(T, "open", None)
          /\ Raise({<<T, "ready">>})
          /\ Wrote("fenced", TRUE)
          /\ Then("ack", None, {T})
       \/ ~Accepted /\ NextWake /\ UNCHANGED <<status, why, told, noted, pending, again, cycle>>
    /\ UNCHANGED <<paused, able, live, review, approved, turns, moves>>

Untold(t) == status[t] = "blocked" /\ why[t] \in Kinds /\ t \notin noted

Recorded(t) == told' = told \cup {t} /\ noted' = noted \cup {t}

\* The message failed, or got through and nothing says so: a crash between the two, or an
\* answer of Telegram that is lost.
NotRecorded(t) == told' \in {told, told \cup {t}} /\ UNCHANGED noted /\ Fault

\* ensure_notice: what counts is the record, made when the message was accepted.
Notice ==
    /\ at = "notice"
    /\ \/ Untold(T) /\ Recorded(T) /\ Then("ack", None, {})
       \/ /\ Untold(T) /\ NotRecorded(T)
          /\ (Goto("ack", None) /\ UNCHANGED snap) \/ Leave("idle")
       \/ ~Untold(T) /\ UNCHANGED <<told, noted, snap>> /\ Goto("ack", None) /\ NoFault
    /\ UNCHANGED <<teletraan, turns, moves>>

\* wake.ack at the revision of the list.  The next turn gets a new snapshot.
Ack ==
    /\ at = "ack"
    /\ \/ /\ wake \notin again
          /\ pending' = pending \ {wake}
          /\ cycle' = [cycle EXCEPT ![wake] = Nothing]
          /\ \/ Leave("snapshot") /\ NoFault
             \/ Leave("idle") /\ Fault
       \/ wake \in again /\ NextWake /\ UNCHANGED <<pending, cycle>>
    /\ UNCHANGED <<paused, able, status, why, live, review, approved, again, turns, told, noted,
                   moves>>

-----------------------------------------------------------------------------
(* approve_reserved: Matthew's tap, in two commands *)

\* The button names the revision of the block, so it works for this block only.
TapApprove(t) ==
    /\ at = "idle"
    /\ t \in told /\ why[t] = "reserved"
    /\ approved' = approved \cup {t}
    /\ \/ at' = "approve" /\ wake' = <<t, "ready">> /\ NoFault
       \/ UNCHANGED <<at, wake>> /\ Fault
    /\ UNCHANGED <<paused, able, status, why, live, review, pending, again, cycle, turns, told,
                   noted, snap, todo, choice, moves>>

\* Mutant: at whatever revision the task has by now.
ResumeApprovedAnyhow ==
    /\ at = "approve"
    /\ SetStatus(T, "open", None) /\ Raise({<<T, "ready">>})
    /\ Leave("idle")
    /\ UNCHANGED <<paused, able, live, review, approved, cycle, turns, faults, moves>>

\* At the revision of the block, which the notice named.
ResumeApproved ==
    /\ at = "approve"
    /\ IF T \in told
       THEN SetStatus(T, "open", None) /\ Raise({<<T, "ready">>})
       ELSE UNCHANGED <<status, why, told, noted, pending, again>>
    /\ Leave("idle")
    /\ UNCHANGED <<paused, able, live, review, approved, cycle, turns, faults, moves>>

-----------------------------------------------------------------------------
(* The motion sweep, one finding at a time, and the thrash guard's next window *)

\* Mutant: the sweep never acts on the task.
SweepNever(t) == FALSE /\ UNCHANGED vars

\* M3: a waiting task that was quiet for the window.  M5: a declared blocker is done.
SweepRaises(t) ==
    /\ at = "idle"
    /\ ~paused
    /\ \/ Waiting(Now, t) /\ Raise({<<t, "unassigned">>})
       \/ /\ why[t] = "dep" /\ DepsDone(Now, t) /\ <<t, "unblock">> \notin pending
          /\ Raise({<<t, "unblock">>})
    /\ UNCHANGED <<paused, able, status, why, live, review, approved, cycle, turns, told, noted,
                   pass, faults, moves>>

\* The notice of a block that never got through.
SweepTells(t) ==
    /\ at = "idle"
    /\ ~paused
    /\ Untold(t)
    /\ (Recorded(t) /\ NoFault) \/ NotRecorded(t)
    /\ UNCHANGED <<teletraan, turns, pass, moves>>

\* Mutant: the counter never starts again.
OneWindow == FALSE /\ UNCHANGED vars

NextWindow ==
    /\ \E t \in Tasks : turns[t] > 0
    /\ turns' = [t \in Tasks |-> 0]
    /\ UNCHANGED <<teletraan, told, noted, pass, faults, moves>>

-----------------------------------------------------------------------------
(* Workers, owners and the operator, who act on Teletraan at any moment *)

Outside == UNCHANGED <<turns, todo, at, wake, choice, faults>>
Move(name) == name \in Moves /\ moves < MaxMoves /\ moves' = moves + 1

\* An attempt ends, with a result for the owner or without.
AttemptEnds(t, a) ==
    /\ <<t, a>> \in live
    /\ live' = live \ {<<t, a>>}
    /\ \/ review' = review \cup {t} /\ Raise({<<t, "result">>})
       \/ Raise({<<t, "stopped">>}) /\ UNCHANGED review
    /\ UNCHANGED <<paused, able, status, why, approved, cycle, told, noted, snap, moves>>
    /\ Outside

\* The owner accepts the result and completes the task.
OwnerCompletes(t) ==
    /\ t \in review
    /\ status[t] = "open"
    /\ ~Working(Now, t)
    /\ SetStatus(t, "done", None)
    /\ Touch({t})
    /\ Raise({<<t, "done">>})
    /\ UNCHANGED <<paused, able, live, review, approved, cycle, moves>>
    /\ Outside

\* The owner queues an attempt without Metroplex: the first one, or a rework.
OwnerStarts(t, a) ==
    /\ Move("start")
    /\ status[t] = "open" /\ ~NotNow(t) /\ ~Working(Now, t)
    /\ live' = live \cup {<<t, a>>}
    /\ review' = review \ {t}
    /\ approved' = approved \ {t}
    /\ Touch({t})
    /\ UNCHANGED <<paused, able, status, why, pending, again, cycle, told, noted>>
    /\ Outside

OwnerAsksRework(t) ==
    /\ Move("rework")
    /\ t \in review /\ status[t] = "open"
    /\ Raise({<<t, "rework">>})
    /\ UNCHANGED <<paused, able, status, why, live, review, approved, cycle, told, noted, snap>>
    /\ Outside

\* The task is blocked on one of its dependencies, paused, cancelled or opened again.
Operates(t, name, s, reason) ==
    /\ Move(name)
    /\ status[t] \notin {"done", "cancelled", s}
    /\ reason = "dep" => Deps[t] # {}
    /\ SetStatus(t, s, reason)
    /\ Touch({t})
    /\ IF s = "open" THEN Raise({<<t, "ready">>}) ELSE UNCHANGED <<pending, again>>
    /\ UNCHANGED <<paused, able, live, review, approved, cycle>>
    /\ Outside

\* A new scope makes earlier results, approvals and notices history.
Rescopes(t) ==
    /\ Move("scope")
    /\ status[t] \notin {"done", "cancelled"}
    /\ review' = review \ {t}
    /\ approved' = approved \ {t}
    /\ told' = told \ {t} /\ noted' = noted \ {t}
    /\ snap' = IF at \in NoSnapshot THEN snap
               ELSE [snap EXCEPT !.moved = @ \cup {t}, !.rescoped = @ \cup {t}]
    /\ Raise({<<t, "ready">>})
    /\ UNCHANGED <<paused, able, status, why, live, cycle>>
    /\ Outside

\* The project is paused or resumed; a resume wakes its open tasks as unassigned.
PausesProject ==
    /\ Move("pause")
    /\ paused' = ~paused
    /\ IF paused THEN Raise({t \in Tasks : status[t] = "open"} \X {"unassigned"})
                 ELSE UNCHANGED <<pending, again>>
    /\ UNCHANGED <<able, status, why, live, review, approved, cycle, told, noted, snap>>
    /\ Outside

ChangesMember(a) ==
    /\ Move("member")
    /\ able' = IF a \in able THEN able \ {a} ELSE able \cup {a}
    /\ UNCHANGED <<paused, status, why, live, review, approved, pending, again, cycle, told,
                   noted, snap>>
    /\ Outside

-----------------------------------------------------------------------------

Pass ==
    \/ TakeSnapshot \/ (\E w \in Wakes : Turn(w)) \/ PassEnd
    \/ Noop \/ Blocked \/ AskReserved \/ ResumeChoice \/ Consider
    \/ AskJev \/ CallJev \/ RecordJudgment \/ CheckFresh
    \/ CreateContribution \/ QueueAttempt \/ Block \/ Notice \/ ResumeTask \/ Ack
    \/ ResumeApproved

People ==
    \/ \E t \in Tasks, a \in Workers : AttemptEnds(t, a) \/ OwnerStarts(t, a)
    \/ \E t \in Tasks :
        \/ OwnerCompletes(t) \/ OwnerAsksRework(t) \/ Rescopes(t)
        \/ Operates(t, "wait", "blocked", "dep")
        \/ Operates(t, "hold", "paused", None)
        \/ Operates(t, "cancel", "cancelled", None)
        \/ Operates(t, "resume", "open", None)
    \/ \E a \in Workers : ChangesMember(a)
    \/ PausesProject

Next ==
    \/ PassStart \/ Pass \/ Abort \/ Rejected
    \/ \E t \in Tasks : TapApprove(t) \/ SweepRaises(t) \/ SweepTells(t)
    \/ NextWindow
    \/ People

Spec == Init /\ [][Next]_vars

\* The daemon polls and sweeps, each on its own timer of one loop, the window passes, and
\* an attempt ends at last.  Owners, the operator and Matthew owe nothing.
Fairness ==
    /\ WF_vars(PassStart \/ Pass)
    /\ \A t \in Tasks : SF_vars(SweepRaises(t) \/ SweepTells(t))
    /\ WF_vars(NextWindow)
    /\ \A t \in Tasks, a \in Workers : WF_vars(AttemptEnds(t, a))

FairSpec == Spec /\ Fairness

-----------------------------------------------------------------------------
(* Safety *)

\* No turn chooses a second worker in a cycle that has one, whatever was lost or crashed
\* in between (_assign and the replay branch of handle).
OneWorkerPerCycle ==
    at = "create" => cycle[wake].worker \in {None, choice}

\* A cycle pays for at most one call of Jev, a crash after the call included (_decide).
PaidOnce == \A w \in Wakes : cycle[w].calls <= 1

\* A question to Matthew never blocks a task on which somebody, its owner too, began to
\* work while the turn was thinking (the revision that _escalate sends).
NeverBlocksWork ==
    [][(at = "block" /\ at' # "block" /\ status' # status) => ~Working(Now, T)]_vars

\* Each turn sees the previous turn's effects: no attempt that an earlier turn queued is
\* missing from the snapshot a turn decides on (route_pending).
TurnsSeeEffects ==
    at = "verdict" => \A w \in Wakes : cycle[w].queued => snap.cycle[w].queued

\* A task is put to Matthew as "intent" only if nobody fits it.  That the worker a judgment
\* names is busy by now, after a crash, is no question for him (handle, _decide).
AsksOnlyIfNobodyFits == at = "block" => choice \notin Workers

\* An unblock wake opens a task that waited for a dependency, and not one that was blocked
\* with a question to Matthew since the wake was raised (handle).
OnlyDependenciesUnblock ==
    [][(at = "resume" /\ at' # "resume" /\ status' # status) => why[T] = "dep"]_vars

\* A turn that runs again gets the receipts of its first run: it never sends another
\* command under an id that was used (_cmd; the ids are made of the wake and its cycle).
\* Where task or wake moved meanwhile the next pass starts afresh anyway.
ReplaysReceipts ==
    at = "block" => T \in snap.moved \/ wake \in again \/ ~cycle[wake].fenced

\* The wakes whose block or resume id is used up although their turn is over: the next turn
\* of such a wake sends its command again, under the same id and with what it sees by then.
Spent == {w \in Wakes : /\ cycle[w].fenced
                        /\ w \notin again
                        /\ ~(at \in {"notice", "ack"} /\ wake = w)}

\* Only a crash, a lost reply or a refusal makes one of them, and each makes one at most,
\* however often wakes are raised again between a pass and its acknowledgements (_cmd, _ack).
RepeatsCostFaults == Cardinality(Spent) <= faults

-----------------------------------------------------------------------------
(* Liveness *)

\* Every pending wake is answered, or its project is paused, or the wake is raised again:
\* crashes, rejected commands, stale revisions and the thrash guard only delay it.
WakesAreAnswered ==
    \A w \in Wakes : (w \in pending) ~> (w \notin pending \/ w \in again \/ paused)

Ready(t) ==
    status[t] = "open" /\ DepsDone(Now, t) /\ ~Working(Now, t) /\ t \notin review /\ ~paused

\* A task that could start is considered by a turn sooner or later, whatever happened to
\* the wakes that should have woken it: the hand-off and the sweep leave none behind.
ReadyIsConsidered ==
    \A t \in Tasks :
        Ready(t) ~> (~Ready(t) \/ (at = "verdict" /\ wake \in {t} \X Routable))

\* A task blocked by a question to Matthew does not stay blocked in silence.
BlocksAreTold == \A t \in Tasks : Untold(t) ~> (~Untold(t) \/ paused)

-----------------------------------------------------------------------------
(* What this promises: see module Dispatch *)

Starting == Tasks \X Routable

D == INSTANCE Dispatch WITH
        Wakes <- Starting,
        cycle <- [w \in Starting |->
            [paid |-> cycle[w].calls, worker |-> cycle[w].worker, started |-> cycle[w].queued]]

\* Whatever a turn's snapshot has missed, every effect is right at the moment it happens:
\* one paid call, one worker and one attempt per cycle, no question about running work, no
\* reserved action without a yes to a question that was sent (handle, approve_reserved).
Dispatches == D!Spec

=============================================================================
