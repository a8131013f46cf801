---------------------------- MODULE DispatchProofs ----------------------------
(***************************************************************************)
(* Routing implements Dispatch, for every value of its constants: whatever *)
(* a snapshot has missed, each effect of a turn is right in the present    *)
(* state of the service.                                                   *)
(***************************************************************************)
EXTENDS RoutingProofs

-----------------------------------------------------------------------------
(* What the invariant of RoutingProofs needs beside it *)

\* Only a cycle with a worker has started an attempt, and it starts no second one.
CycleInv ==
    /\ \A w \in Wakes : cycle[w].queued => cycle[w].worker # None
    /\ at = "queue" => ~cycle[wake].queued /\ cycle[wake].worker = choice
    /\ at \in Deciding \cup {"queue"} => R \in Routable

\* A question that was sent is still open, and the tap on it finds it as it was.
ToldInv ==
    /\ \A t \in told : why[t] \in Kinds
    /\ at = "approve" /\ T \in told => why[T] = "reserved" /\ T \in approved

\* What can be trusted in an old snapshot: the attempts its pass has started, that a yes
\* was not given meanwhile, the tasks that did not move, and what was done.
SnapInv ==
    at \notin NoSnapshot =>
        /\ \A w \in todo : snap.cycle[w].queued = cycle[w].queued
        /\ at = "verdict" => snap.cycle[wake].queued = cycle[wake].queued
        /\ approved \subseteq snap.approved
        /\ \A t \in Tasks \ snap.moved : status[t] = snap.status[t]
        /\ \A t \in Tasks : snap.status[t] = "done" => status[t] = "done"

\* What the snapshot said when the turn took its way.
TurnInv ==
    /\ at \in Deciding \cup {"block"} => snap.status[T] = "open"
    /\ at \in {"jev", "call", "record"} => DepsDone(snap, T)
    /\ at = "block" => IF choice = "reserved" THEN T \in Reserved \ snap.approved
                                              ELSE DepsDone(snap, T)
    /\ at = "resume" => snap.status[T] = "blocked" /\ DepsDone(snap, T)

DInv == IInv /\ CycleInv /\ ToldInv /\ SnapInv /\ TurnInv

-----------------------------------------------------------------------------
(* Steps that leave the worker and the attempt of every cycle as they are *)

KeepsCycles ==
    \A w \in Wakes : cycle'[w].worker = cycle[w].worker /\ cycle'[w].queued = cycle[w].queued

\* Most fields of a cycle are neither.
LEMMA OtherFields ==
  ASSUME TypeOK, wake \in Wakes,
         \/ UNCHANGED cycle
         \/ \E f \in {"judged", "inflight", "fenced"} : \E x : Wrote(f, x)
         \/ \E x : cycle' = [cycle EXCEPT ![wake].calls = x]
  PROVE  KeepsCycles
  BY DEF TypeOK, Written, Wrote, KeepsCycles

\* An older snapshot still says the same of the tasks and of their approvals.
LEMMA Aging ==
  ASSUME at \notin NoSnapshot, snap \in Snapshots, NEW ts \in SUBSET Tasks, Touch(ts)
  PROVE  /\ snap'.cycle = snap.cycle
         /\ snap'.status = snap.status
         /\ snap'.approved = snap.approved
         /\ snap'.moved = snap.moved \cup ts
  BY DEF Touch, Snapshots

-----------------------------------------------------------------------------

\* The worker and the attempt of a cycle go together, and only wakes that may start work
\* get so far.
LEMMA CycleStep == DInv /\ [Next]_vars => CycleInv'
<1> SUFFICES ASSUME DInv, [Next]_vars PROVE CycleInv'
  OBVIOUS
<1>t. TypeOK /\ CycleInv /\ IInv
  BY DEF DInv, IInv
<1>w. at \notin {"idle", "snapshot", "turn"} => wake \in Wakes
  BY <1>t DEF TypeOK
<1>k. ASSUME KeepsCycles, at' # "queue", at' \in Deciding => at \in Deciding /\ UNCHANGED wake
      PROVE  CycleInv'
  BY <1>t, <1>k DEF KeepsCycles, CycleInv, R, Deciding
<1>u. ASSUME UNCHANGED cycle, at' # "queue",
             at' \in Deciding => at \in Deciding /\ UNCHANGED wake
      PROVE  CycleInv'
  BY <1>k, <1>u DEF KeepsCycles
<1>1. CASE PassStart
  <2>1. \A w \in Wakes : cycle'[w] = cycle[w] \/ cycle'[w] = Nothing
    BY <1>1 DEF PassStart
  <2> QED
    BY <1>1, <1>t, <2>1 DEF PassStart, CycleInv, Nothing, Deciding
<1>2. CASE TakeSnapshot
  BY <1>2, <1>u DEF TakeSnapshot, Goto, teletraan, Deciding
<1>3. ASSUME NEW w \in Wakes, Turn(w) PROVE CycleInv'
  BY <1>3, <1>u DEF Turn, Deciding
<1>4. CASE PassEnd
  BY <1>4, <1>u DEF PassEnd, Leave, teletraan, Deciding
<1>5. CASE Noop
  BY <1>5, <1>u DEF Noop, Goto, teletraan, Deciding
<1>6. CASE Blocked
  BY <1>6, <1>u DEF Blocked, Goto, teletraan, Deciding
<1>7. CASE AskReserved
  BY <1>7, <1>u DEF AskReserved, Goto, teletraan, Deciding
<1>8. CASE ResumeChoice
  <2>1. /\ UNCHANGED <<cycle, wake>>
        /\ at' = "ack" \/ (/\ at' = "queue" /\ choice' = Prior(wake)
                            /\ ~snap.cycle[wake].queued /\ R \in Routable)
    BY <1>8 DEF ResumeChoice, Goto, teletraan, ToRoute
  <2>2. /\ snap.cycle[wake].queued = cycle[wake].queued
        /\ Prior(wake) = cycle[wake].worker
    BY <1>8 DEF ResumeChoice, DInv, IInv, SnapInv, WorkerInv, NoSnapshot, Prior
  <2> QED
    BY <1>t, <2>1, <2>2 DEF CycleInv, R, Deciding
<1>9. CASE Consider
  BY <1>9, <1>t DEF Consider, ToRoute, Goto, Leave, teletraan, CycleInv, R, Deciding
<1>10. CASE AskJev
  <2>1. KeepsCycles
    BY <1>10, <1>t, <1>w, OtherFields DEF AskJev
  <2> QED
    BY <1>10, <1>k, <2>1 DEF AskJev, Answered, Reason, Follow, Goto, Deciding
<1>11. CASE CallJev
  <2>1. KeepsCycles
    BY <1>11, <1>t, <1>w, OtherFields DEF CallJev
  <2> QED
    BY <1>11, <1>k, <2>1 DEF CallJev, Then, Goto, Leave, Deciding
<1>12. CASE RecordJudgment
  <2>1. KeepsCycles
    BY <1>12, <1>t, <1>w, OtherFields DEF RecordJudgment
  <2> QED
    BY <1>12, <1>k, <2>1 DEF RecordJudgment, Answered, Reason, Follow, Leave, Goto, Deciding
<1>13. CASE CheckFresh
  BY <1>13, <1>u DEF CheckFresh, Goto, teletraan, Deciding
<1>14. CASE CreateContribution
  <2>1. cycle[wake].worker = None /\ choice \in Workers /\ wake \in Wakes /\ R \in Routable
    BY <1>14, <1>t, <1>w DEF CreateContribution, IInv, WorkerInv, ChoiceInv, NoSnapshot,
       Deciding, CycleInv
  <2>2. Wrote("worker", choice) /\ Then("queue", choice, {})
    BY <1>14, <2>1 DEF CreateContribution
  <2>3. /\ cycle'[wake].worker = choice /\ cycle'[wake].queued = cycle[wake].queued
        /\ \A w \in Wakes \ {wake} : cycle'[w] = cycle[w]
    BY <1>t, <2>1, <2>2 DEF Wrote, TypeOK, Written
  <2>4. ~cycle[wake].queued
    BY <1>t, <2>1 DEF CycleInv
  <2>5. choice # None
    BY <2>1, NoneAssumption
  <2>6. (at' = "queue" /\ UNCHANGED wake /\ choice' = choice) \/ at' = "idle"
    BY <2>2 DEF Then, Goto, Leave
  <2> QED
    BY <1>t, <2>1, <2>3, <2>4, <2>5, <2>6 DEF CycleInv, R, Deciding
<1>15. CASE QueueAttempt
  <2>1. CASE UNCHANGED cycle
    BY <1>15, <1>u, <2>1 DEF QueueAttempt, Then, NextWake, Goto, Leave, Deciding
  <2>2. CASE Wrote("queued", TRUE)
    <3>1. /\ cycle'[wake].worker = cycle[wake].worker
          /\ \A w \in Wakes \ {wake} : cycle'[w] = cycle[w]
      BY <1>15, <1>t, <1>w, <2>2 DEF QueueAttempt, Wrote, TypeOK, Written
    <3>2. cycle[wake].worker # None
      BY <1>15, <1>t, NoneAssumption DEF QueueAttempt, CycleInv, IInv, ChoiceInv
    <3>3. at' \in {"ack", "idle", "turn"}
      BY <1>15 DEF QueueAttempt, Then, NextWake, Goto, Leave
    <3> QED
      BY <1>t, <3>1, <3>2, <3>3 DEF CycleInv, Deciding
  <2> QED
    BY <1>15, <2>1, <2>2 DEF QueueAttempt
<1>16. CASE Block
  <2>1. KeepsCycles
    BY <1>16, <1>t, <1>w, OtherFields DEF Block
  <2> QED
    BY <1>16, <1>k, <2>1 DEF Block, Then, NextWake, Goto, Leave, Deciding
<1>17. CASE Notice
  BY <1>17, <1>u DEF Notice, Then, Goto, Leave, teletraan, Deciding
<1>18. CASE ResumeTask
  <2>1. KeepsCycles
    BY <1>18, <1>t, <1>w, OtherFields DEF ResumeTask
  <2> QED
    BY <1>18, <1>k, <2>1 DEF ResumeTask, Then, NextWake, Goto, Leave, Deciding
<1>19. CASE Ack
  <2>1. \A w \in Wakes : cycle'[w] = cycle[w] \/ cycle'[w] = Nothing
    BY <1>19, <1>t DEF Ack, TypeOK
  <2> QED
    BY <1>19, <1>t, <2>1 DEF Ack, NextWake, Leave, CycleInv, Nothing, Deciding
<1>20. CASE ResumeApproved
  BY <1>20, <1>u DEF ResumeApproved, Leave, Deciding
<1>21. CASE Abort \/ Rejected
  BY <1>21, <1>u DEF Abort, Rejected, Leave, teletraan, Deciding
<1>22. ASSUME NEW t \in Tasks, TapApprove(t) PROVE CycleInv'
  BY <1>22, <1>u DEF TapApprove, Deciding
<1>23. CASE Bystander
  BY <1>23, <1>t, BystandersStandBy DEF StandsBy, CycleInv, R
<1>24. CASE Pass
  BY <1>24, <1>2, <1>3, <1>4, <1>5, <1>6, <1>7, <1>8, <1>9, <1>10, <1>11, <1>12, <1>13, <1>14,
     <1>15, <1>16, <1>17, <1>18, <1>19, <1>20 DEF Pass
<1> QED
  BY <1>1, <1>21, <1>22, <1>23, <1>24 DEF Next, Bystander

\* A question is over when its task changes, and only a tap leads to "approve".
LEMMA ToldStep == DInv /\ [Next]_vars => ToldInv'
<1> SUFFICES ASSUME DInv, [Next]_vars PROVE ToldInv'
  OBVIOUS
<1>t. TypeOK /\ ToldInv /\ IInv
  BY DEF DInv, IInv
<1>w. at \notin {"idle", "snapshot", "turn"} => wake \in Wakes /\ T \in Tasks
  BY <1>t, TaskOfWake DEF TypeOK
<1>b. \A t \in told : status[t] = "blocked" /\ t \in Tasks
  BY <1>t, NoneAssumption DEF TypeOK, ToldInv, Kinds
<1>u. ASSUME UNCHANGED <<why, told>>, at' # "approve" PROVE ToldInv'
  BY <1>t, <1>u DEF ToldInv
<1>s. ASSUME NEW t \in Tasks, NEW s, NEW reason, SetStatus(t, s, reason),
             at' # "approve" \/ UNCHANGED <<at, wake, approved>>
      PROVE  ToldInv'
  BY <1>t, <1>s DEF ToldInv, SetStatus, TypeOK, T
<1>k. ASSUME UNCHANGED <<why, told, at, wake>>, approved \subseteq approved' \cup (Tasks \ told)
      PROVE  ToldInv'
  BY <1>t, <1>k DEF ToldInv, T
<1>1. CASE PassStart
  BY <1>1, <1>u DEF PassStart
<1>2. CASE TakeSnapshot
  BY <1>2, <1>u DEF TakeSnapshot, Goto, teletraan
<1>3. ASSUME NEW w \in Wakes, Turn(w) PROVE ToldInv'
  BY <1>3, <1>u DEF Turn
<1>4. CASE PassEnd \/ Noop \/ Blocked \/ AskReserved \/ ResumeChoice
  BY <1>4, <1>u DEF PassEnd, Noop, Blocked, AskReserved, ResumeChoice, Goto, Leave, teletraan
<1>5. CASE Consider
  BY <1>5, <1>u DEF Consider, Goto, Leave, teletraan
<1>6. CASE AskJev \/ CallJev \/ RecordJudgment
  BY <1>6, <1>u DEF AskJev, CallJev, RecordJudgment, Answered, Reason, Follow, Then, Goto, Leave
<1>7. CASE CheckFresh \/ CreateContribution \/ QueueAttempt
  BY <1>7, <1>u DEF CheckFresh, CreateContribution, QueueAttempt, Then, NextWake, Goto, Leave,
     teletraan
<1>8. CASE Block \/ ResumeTask
  <2>1. at' # "approve" /\ T \in Tasks
    BY <1>8, <1>w DEF Block, ResumeTask, Then, NextWake, Goto, Leave
  <2>2. UNCHANGED <<why, told>> \/ \E s, reason : SetStatus(T, s, reason)
    BY <1>8 DEF Block, ResumeTask
  <2> QED
    BY <1>u, <1>s, <2>1, <2>2
<1>9. CASE Notice
  <2>1. /\ told' = told \/ (told' = told \cup {T} /\ why[T] \in Kinds)
        /\ at' # "approve" /\ UNCHANGED why
    BY <1>9 DEF Notice, Recorded, NotRecorded, Untold, Then, Goto, Leave, teletraan
  <2> QED
    BY <1>t, <2>1 DEF ToldInv
<1>10. CASE Ack
  BY <1>10, <1>u DEF Ack, NextWake, Leave
<1>11. CASE ResumeApproved
  BY <1>11, <1>u, <1>s, <1>w DEF ResumeApproved, Leave
<1>12. CASE Abort \/ Rejected
  BY <1>12, <1>u DEF Abort, Rejected, Leave, teletraan
<1>13. ASSUME NEW t \in Tasks, TapApprove(t) PROVE ToldInv'
  <2>1. CASE at' = "approve" /\ wake' = <<t, "ready">>
    BY <1>13, <1>t, <2>1 DEF TapApprove, ToldInv, T
  <2> QED
    BY <1>13, <1>u, <2>1 DEF TapApprove
<1>14. ASSUME NEW t \in Tasks, SweepTells(t) PROVE ToldInv'
  BY <1>14, <1>t DEF SweepTells, Recorded, NotRecorded, Untold, teletraan, pass, ToldInv, T
<1>15. ASSUME NEW t \in Tasks, SweepRaises(t) PROVE ToldInv'
  BY <1>15, <1>k DEF SweepRaises, pass
<1>16. CASE NextWindow \/ PausesProject \/ UNCHANGED vars
  BY <1>16, <1>k DEF NextWindow, PausesProject, Outside, vars, teletraan, pass
<1>17. ASSUME NEW t \in Tasks, NEW a \in Workers, AttemptEnds(t, a) PROVE ToldInv'
  BY <1>17, <1>k DEF AttemptEnds, Outside
<1>18. ASSUME NEW t \in Tasks, NEW a \in Workers, OwnerStarts(t, a) PROVE ToldInv'
  BY <1>18, <1>k, <1>b DEF OwnerStarts, Outside
<1>19. ASSUME NEW t \in Tasks, OwnerCompletes(t) PROVE ToldInv'
  BY <1>19, <1>s DEF OwnerCompletes, Outside
<1>20. ASSUME NEW t \in Tasks, OwnerAsksRework(t) PROVE ToldInv'
  BY <1>20, <1>k DEF OwnerAsksRework, Outside
<1>21. ASSUME NEW t \in Tasks, Rescopes(t) PROVE ToldInv'
  BY <1>21, <1>t DEF Rescopes, Outside, ToldInv, T
<1>22. ASSUME NEW t \in Tasks, NEW name, NEW s, NEW reason, Operates(t, name, s, reason)
       PROVE  ToldInv'
  BY <1>22, <1>s DEF Operates, Outside
<1>23. ASSUME NEW a \in Workers, ChangesMember(a) PROVE ToldInv'
  BY <1>23, <1>k DEF ChangesMember, Outside
<1>24. CASE Pass
  BY <1>24, <1>2, <1>3, <1>4, <1>5, <1>6, <1>7, <1>8, <1>9, <1>10, <1>11 DEF Pass
<1>25. CASE People
  BY <1>25, <1>16, <1>17, <1>18, <1>19, <1>20, <1>21, <1>22, <1>23 DEF People
<1> QED
  BY <1>1, <1>12, <1>13, <1>14, <1>15, <1>16, <1>24, <1>25 DEF Next

\* What bystanders change of the tasks: they approve nothing, nothing done is undone, and
\* they move each task they change.
Ages ==
    /\ approved' \subseteq approved
    /\ \A t \in Tasks : status[t] = "done" => status'[t] = "done"
    /\ at \notin NoSnapshot =>
        /\ snap'.status = snap.status
        /\ snap'.approved = snap.approved
        /\ \A t \in Tasks \ snap'.moved : status'[t] = status[t]

\* Bystanders do so.
LEMMA BystandersAge == ASSUME TypeOK, Bystander PROVE Ages
<1>d. at \notin NoSnapshot => snap \in Snapshots
  BY DEF TypeOK
<1>u. ASSUME UNCHANGED <<status, snap>>, approved' \subseteq approved PROVE Ages
  BY <1>u DEF Ages
<1>t. ASSUME NEW ts \in SUBSET Tasks, Touch(ts), approved' \subseteq approved,
             \A t \in Tasks \ ts : status'[t] = status[t],
             \A t \in Tasks : status[t] = "done" => status'[t] = "done"
      PROVE  Ages
  BY <1>d, <1>t, Aging DEF Ages
<1>1. ASSUME NEW t \in Tasks, SweepRaises(t) \/ SweepTells(t) PROVE Ages
  BY <1>u, <1>1 DEF SweepRaises, SweepTells, teletraan, pass
<1>2. CASE NextWindow \/ PausesProject \/ UNCHANGED vars
  BY <1>u, <1>2 DEF NextWindow, PausesProject, vars, teletraan, pass
<1>3. ASSUME NEW t \in Tasks, NEW a \in Workers, AttemptEnds(t, a) PROVE Ages
  BY <1>u, <1>3 DEF AttemptEnds
<1>4. ASSUME NEW t \in Tasks, NEW a \in Workers, OwnerStarts(t, a) PROVE Ages
  BY <1>t, <1>4 DEF OwnerStarts
<1>5. ASSUME NEW t \in Tasks, OwnerCompletes(t) PROVE Ages
  <2>1. status' = [status EXCEPT ![t] = "done"] /\ approved' = approved /\ Touch({t})
    BY <1>5 DEF OwnerCompletes, SetStatus
  <2> QED
    BY <1>t, <2>1 DEF TypeOK
<1>6. ASSUME NEW t \in Tasks, OwnerAsksRework(t) PROVE Ages
  BY <1>u, <1>6 DEF OwnerAsksRework
<1>7. ASSUME NEW t \in Tasks, Rescopes(t) PROVE Ages
  BY <1>d, <1>7 DEF Rescopes, Ages, Snapshots
<1>8. ASSUME NEW t \in Tasks, NEW name, NEW s, NEW reason, Operates(t, name, s, reason)
      PROVE  Ages
  <2>1. status' = [status EXCEPT ![t] = s] /\ approved' = approved /\ Touch({t})
    BY <1>8 DEF Operates, SetStatus
  <2>2. status[t] # "done"
    BY <1>8 DEF Operates
  <2> QED
    BY <1>t, <2>1, <2>2 DEF TypeOK
<1>9. ASSUME NEW a \in Workers, ChangesMember(a) PROVE Ages
  BY <1>u, <1>9 DEF ChangesMember
<1>10. CASE People
  BY <1>10, <1>2, <1>3, <1>4, <1>5, <1>6, <1>7, <1>8, <1>9 DEF People
<1> QED
  BY <1>1, <1>2, <1>10 DEF Bystander

\* A step that keeps what SnapInv speaks of keeps SnapInv.
LEMMA SnapKept ==
  ASSUME SnapInv, at \notin NoSnapshot, at' # "verdict", todo' \subseteq todo,
         \A w \in todo' : cycle'[w].queued = cycle[w].queued,
         approved' \subseteq approved,
         \A t \in Tasks : status[t] = "done" => status'[t] = "done",
         \/ UNCHANGED snap
         \/ /\ snap'.cycle = snap.cycle /\ snap'.status = snap.status
            /\ snap'.approved = snap.approved /\ snap.moved \subseteq snap'.moved,
         \A t \in Tasks \ snap'.moved : status'[t] = status[t]
  PROVE  SnapInv'
  BY DEF SnapInv

\* No step makes the snapshot say what it may not be trusted in.
LEMMA SnapStep == DInv /\ [Next]_vars => SnapInv'
<1> SUFFICES ASSUME DInv, [Next]_vars PROVE SnapInv'
  OBVIOUS
<1>t. TypeOK /\ SnapInv /\ IInv
  BY DEF DInv, IInv
<1>d. at \notin NoSnapshot => snap \in Snapshots
  BY <1>t DEF TypeOK
<1>w. at \notin {"idle", "snapshot", "turn"} => wake \in Wakes /\ T \in Tasks
  BY <1>t, TaskOfWake DEF TypeOK
<1>n. ASSUME at' \in NoSnapshot PROVE SnapInv'
  BY <1>n DEF SnapInv
<1>q. ASSUME KeepsCycles, UNCHANGED <<approved, status, todo, snap>>, at \notin NoSnapshot,
             at' # "verdict"
      PROVE  SnapInv'
  BY <1>q, <1>t DEF SnapInv, KeepsCycles, TypeOK
<1>u. ASSUME UNCHANGED <<cycle, approved, status, todo, snap>>, at \notin NoSnapshot,
             at' # "verdict"
      PROVE  SnapInv'
  BY <1>u, <1>t DEF SnapInv
\* A command that took effect on the tasks ts.
<1>e. ASSUME NEW ts \in SUBSET Tasks, at \notin NoSnapshot, NEW place, NEW x,
             Then(place, x, ts), place # "verdict",
             \A w \in todo : cycle'[w].queued = cycle[w].queued,
             approved' \subseteq approved,
             \A t \in Tasks : status[t] = "done" => status'[t] = "done",
             \A t \in Tasks \ ts : status'[t] = status[t]
      PROVE  SnapInv'
  <2>1. CASE Goto(place, x) /\ Touch(ts)
    <3>1. /\ snap'.cycle = snap.cycle /\ snap'.status = snap.status
          /\ snap'.approved = snap.approved /\ snap'.moved = snap.moved \cup ts
      BY <1>d, <1>e, <2>1, Aging
    <3>2. at' = place /\ todo' = todo
      BY <2>1 DEF Goto
    <3> QED
      BY <1>t, <1>e, <3>1, <3>2, SnapKept
  <2>2. CASE Leave("idle")
    BY <1>n, <2>2 DEF Leave, NoSnapshot
  <2> QED
    BY <1>e, <2>1, <2>2 DEF Then
<1>o. at \notin NoSnapshot \cup {"turn"} => wake \notin todo /\ todo \subseteq Wakes
  BY <1>t DEF IInv, TypeOK, WorkerInv, NoSnapshot
<1>1. CASE PassStart \/ ResumeApproved \/ PassEnd \/ Abort
  BY <1>1, <1>n DEF PassStart, ResumeApproved, PassEnd, Abort, Leave, NoSnapshot
<1>2. CASE TakeSnapshot
  BY <1>2 DEF TakeSnapshot, Now, Goto, teletraan, SnapInv
<1>3. ASSUME NEW w \in Wakes, Turn(w) PROVE SnapInv'
  BY <1>3, <1>t DEF Turn, SnapInv, NoSnapshot
<1>4. CASE Noop \/ Blocked \/ AskReserved \/ ResumeChoice \/ CheckFresh
  BY <1>4, <1>u DEF Noop, Blocked, AskReserved, ResumeChoice, CheckFresh, Goto, teletraan,
     NoSnapshot
<1>5. CASE Consider
  BY <1>5, <1>u, <1>n DEF Consider, Goto, Leave, teletraan, NoSnapshot
<1>6. CASE AskJev
  <2>1. KeepsCycles
    BY <1>6, <1>t, <1>w, OtherFields DEF AskJev
  <2> QED
    BY <1>6, <1>q, <2>1 DEF AskJev, Answered, Reason, Follow, Goto, NoSnapshot
<1>7. CASE CallJev
  <2>1. KeepsCycles
    BY <1>7, <1>t, <1>w, OtherFields DEF CallJev
  <2>2. PICK x : Then("record", x, {})
    BY <1>7 DEF CallJev
  <2> QED
    BY <1>7, <1>e, <1>o, <2>1, <2>2 DEF CallJev, NoSnapshot, KeepsCycles
<1>8. CASE RecordJudgment
  <2>1. KeepsCycles
    BY <1>8, <1>t, <1>w, OtherFields DEF RecordJudgment
  <2> QED
    BY <1>8, <1>q, <1>n, <2>1 DEF RecordJudgment, Answered, Reason, Follow, Goto, Leave,
       NoSnapshot
<1>9. CASE CreateContribution
  <2>1. CASE Wrote("worker", choice) /\ Then("queue", choice, {})
    <3>1. \A w \in Wakes \ {wake} : cycle'[w] = cycle[w]
      BY <1>t, <2>1 DEF Wrote, TypeOK
    <3> QED
      BY <1>9, <1>e, <1>o, <2>1, <3>1 DEF CreateContribution, NoSnapshot
  <2>2. CASE NextWake /\ UNCHANGED cycle
    BY <1>9, <1>u, <2>2 DEF CreateContribution, NextWake, Leave, NoSnapshot
  <2> QED
    BY <1>9, <2>1, <2>2 DEF CreateContribution
<1>10. CASE QueueAttempt
  <2>1. CASE /\ approved' = approved \ {T} /\ Wrote("queued", TRUE) /\ Then("ack", None, {T})
    <3>1. \A w \in Wakes \ {wake} : cycle'[w] = cycle[w]
      BY <1>t, <2>1 DEF Wrote, TypeOK
    <3> QED
      BY <1>10, <1>e, <1>o, <1>w, <2>1, <3>1 DEF QueueAttempt, NoSnapshot
  <2>2. CASE UNCHANGED <<approved, cycle, snap, todo>> /\ at' \in {"ack", "turn"}
    BY <1>10, <1>u, <2>2 DEF QueueAttempt, NoSnapshot
  <2> QED
    BY <1>10, <2>1, <2>2 DEF QueueAttempt, Goto, NextWake, Leave
<1>11. CASE Block \/ ResumeTask
  <2>1. KeepsCycles
    BY <1>11, <1>t, <1>w, OtherFields DEF Block, ResumeTask
  <2>2. CASE NextWake /\ UNCHANGED <<status, cycle>>
    BY <1>11, <1>u, <2>2 DEF Block, ResumeTask, NextWake, Leave, NoSnapshot
  <2>3. ASSUME Accepted, NEW s, NEW reason, SetStatus(T, s, reason), NEW place, NEW x,
               place # "verdict", Then(place, x, {T})
        PROVE  SnapInv'
    <3>1. status[T] = snap.status[T] /\ snap.status[T] # "done" /\ T \in Tasks
      BY <1>11, <1>t, <1>w, <2>3 DEF Accepted, Block, ResumeTask, DInv, TurnInv, SnapInv,
         NoSnapshot
    <3>2. status' = [status EXCEPT ![T] = s] /\ status \in [Tasks -> Statuses]
      BY <1>t, <2>3 DEF SetStatus, TypeOK
    <3> QED
      BY <1>11, <1>e, <1>o, <2>1, <2>3, <3>1, <3>2 DEF Block, ResumeTask, NoSnapshot, KeepsCycles
  <2> QED
    BY <1>11, <2>2, <2>3 DEF Block, ResumeTask
<1>12. CASE Notice
  <2>1. CASE Then("ack", None, {})
    BY <1>12, <1>e, <1>o, <2>1 DEF Notice, teletraan, NoSnapshot
  <2>2. CASE UNCHANGED snap /\ Goto("ack", None)
    BY <1>12, <1>u, <2>2 DEF Notice, teletraan, Goto, NoSnapshot
  <2>3. CASE Leave("idle")
    BY <1>12, <1>n, <2>3 DEF Leave, NoSnapshot
  <2> QED
    BY <1>12, <2>1, <2>2, <2>3 DEF Notice
<1>13. CASE Ack
  BY <1>13, <1>u, <1>n DEF Ack, NextWake, Leave, NoSnapshot
<1>14. CASE Rejected
  BY <1>14, <1>u DEF Rejected, Leave, teletraan, NoSnapshot
<1>15. ASSUME NEW t \in Tasks, TapApprove(t) PROVE SnapInv'
  BY <1>15, <1>n DEF TapApprove, NoSnapshot
<1>16. CASE Bystander
  <2>1. StandsBy /\ Ages
    BY <1>16, <1>t, BystandersStandBy, BystandersAge
  <2> QED
    BY <1>t, <2>1 DEF StandsBy, Ages, SnapInv
<1>17. CASE Pass
  BY <1>17, <1>1, <1>2, <1>3, <1>4, <1>5, <1>6, <1>7, <1>8, <1>9, <1>10, <1>11, <1>12, <1>13
     DEF Pass
<1> QED
  BY <1>1, <1>14, <1>15, <1>16, <1>17 DEF Next, Bystander

\* The questions, the ways of a turn and the workers are told apart.
LEMMA Words ==
  /\ \A x \in Workers \cup {"none_fit", "authority"} : x # "reserved"
  /\ None \notin Workers
  BY WorkersAssumption, NoneAssumption

\* The way of a turn was right by its snapshot, which does not change under it.
LEMMA TurnStep == DInv /\ [Next]_vars => TurnInv'
<1> SUFFICES ASSUME DInv, [Next]_vars PROVE TurnInv'
  OBVIOUS
<1>t. TypeOK /\ TurnInv /\ IInv
  BY DEF DInv, IInv
<1>d. at \notin NoSnapshot => snap \in Snapshots
  BY <1>t DEF TypeOK
<1>w. at \notin {"idle", "snapshot", "turn"} => wake \in Wakes /\ T \in Tasks
  BY <1>t, TaskOfWake DEF TypeOK
<1> DEFINE Elsewhere == {"idle", "snapshot", "turn", "approve", "verdict", "queue", "notice", "ack"}
<1>n. ASSUME at' \in Elsewhere PROVE TurnInv'
  BY <1>n DEF TurnInv, Deciding
\* The turn goes on with the choice x of a judgment.
<1>f. ASSUME NEW x, x \in Workers \cup Escapes, Follow(x), UNCHANGED snap,
             at \in {"jev", "record"}
      PROVE  TurnInv'
  <2>1. snap.status[T] = "open" /\ DepsDone(snap, T)
    BY <1>t, <1>f DEF TurnInv, Deciding
  <2>2. CASE x = "wait" /\ Goto("ack", None)
    BY <1>n, <2>2 DEF Goto
  <2>3. CASE Goto("fresh", x)
    BY <1>f, <2>1, <2>3 DEF Goto, TurnInv, Deciding, T
  <2>4. CASE x \in Workers \cup {"none_fit"} /\ Goto("block", x)
    BY <1>f, <2>1, <2>4, Words DEF Goto, TurnInv, Deciding, T, DepsDone
  <2> QED
    BY <1>f, <2>2, <2>3, <2>4 DEF Follow
<1>r. ASSUME Reason, UNCHANGED snap, at \in {"jev", "record"} PROVE TurnInv'
  <2>1. Candidates(snap) \subseteq Workers
    BY <1>d, <1>r DEF NoSnapshot, Snapshots, Candidates
  <2> QED
    BY <1>f, <1>r, <2>1 DEF Reason
<1>a. ASSUME NEW x, x \in Answers, Answered(x), UNCHANGED snap, at \in {"jev", "record"}
      PROVE  TurnInv'
  BY <1>f, <1>r, <1>a DEF Answered, Answers
<1>1. CASE PassStart \/ TakeSnapshot \/ PassEnd \/ Noop \/ ResumeChoice \/ ResumeApproved
  BY <1>1, <1>n DEF PassStart, TakeSnapshot, PassEnd, Noop, ResumeChoice, ResumeApproved, Goto,
     Leave
<1>2. ASSUME NEW w \in Wakes, Turn(w) PROVE TurnInv'
  BY <1>2, <1>n DEF Turn
<1>3. CASE Blocked
  BY <1>3 DEF Blocked, Goto, TurnInv, Deciding, T, DepsDone
<1>4. CASE AskReserved
  BY <1>4 DEF AskReserved, NeedsYes, ToRoute, ToRework, Goto, TurnInv, Deciding, T
<1>5. CASE Consider
  <2>1. snap.status[T] = "open" /\ DepsDone(snap, T)
    BY <1>5 DEF Consider, ToRoute
  <2>2. CASE Leave("snapshot") \/ Goto("ack", None)
    BY <1>n, <2>2 DEF Leave, Goto
  <2>3. CASE UNCHANGED snap /\ (Goto("jev", None) \/ Goto("block", "authority"))
    BY <2>1, <2>3, Words DEF Goto, TurnInv, Deciding, T, DepsDone
  <2> QED
    BY <1>5, <2>2, <2>3 DEF Consider
<1>6. CASE AskJev
  <2>1. at = "jev" /\ snap' = snap /\ at \notin NoSnapshot /\ wake \in Wakes
    BY <1>6, <1>w DEF AskJev, NoSnapshot
  <2>2. CASE snap.cycle[wake].judged # None /\ Answered(snap.cycle[wake].judged)
    <3>1. snap.cycle[wake].judged \in Answers
      BY <1>d, <2>1, <2>2 DEF Snapshots, Written
    <3> QED
      BY <1>a, <2>1, <2>2, <3>1
  <2>3. CASE Reason
    BY <1>r, <2>1, <2>3
  <2>4. CASE Goto("record", "unsure") \/ Goto("call", None)
    BY <1>t, <2>1, <2>4 DEF Goto, TurnInv, Deciding, T, DepsDone
  <2> QED
    BY <1>6, <2>2, <2>3, <2>4 DEF AskJev
<1>7. CASE CallJev
  <2>1. PICK x : Then("record", x, {})
    BY <1>7 DEF CallJev
  <2>2. CASE Goto("record", x) /\ Touch({})
    <3>1. snap'.status = snap.status
      BY <1>7, <1>d, <2>2, Aging DEF CallJev, NoSnapshot
    <3> QED
      BY <1>7, <1>t, <2>2, <3>1 DEF CallJev, Goto, TurnInv, Deciding, T, DepsDone
  <2>3. CASE Leave("idle")
    BY <1>n, <2>3 DEF Leave
  <2> QED
    BY <2>1, <2>2, <2>3 DEF Then
<1>8. CASE RecordJudgment
  <2>1. CASE Answered(choice) /\ UNCHANGED snap
    BY <1>8, <1>a, <1>t, <2>1 DEF RecordJudgment, IInv, ChoiceInv
  <2>2. CASE Leave("idle")
    BY <1>n, <2>2 DEF Leave
  <2> QED
    BY <1>8, <2>1, <2>2 DEF RecordJudgment
<1>9. CASE CheckFresh
  BY <1>9, <1>t DEF CheckFresh, Goto, teletraan, TurnInv, Deciding, T
<1>10. CASE CreateContribution \/ QueueAttempt
  BY <1>10, <1>n DEF CreateContribution, QueueAttempt, Then, NextWake, Goto, Leave
<1>11. CASE Block \/ ResumeTask
  BY <1>11, <1>n DEF Block, ResumeTask, Then, NextWake, Goto, Leave
<1>12. CASE Notice \/ Ack \/ Abort \/ Rejected
  BY <1>12, <1>n DEF Notice, Ack, Abort, Rejected, Then, NextWake, Goto, Leave
<1>13. ASSUME NEW t \in Tasks, TapApprove(t) PROVE TurnInv'
  BY <1>13, <1>n DEF TapApprove
<1>14. CASE Bystander
  <2>1. StandsBy /\ Ages
    BY <1>14, <1>t, BystandersStandBy, BystandersAge
  <2>2. CASE at \in NoSnapshot
    BY <1>n, <2>1, <2>2 DEF StandsBy, NoSnapshot
  <2>3. CASE at \notin NoSnapshot
    BY <1>t, <2>1, <2>3 DEF StandsBy, Ages, TurnInv, T, DepsDone, Deciding
  <2> QED
    BY <2>2, <2>3
<1>15. CASE Pass
  BY <1>15, <1>1, <1>2, <1>3, <1>4, <1>5, <1>6, <1>7, <1>8, <1>9, <1>10, <1>11, <1>12 DEF Pass
<1> QED
  BY <1>1, <1>12, <1>13, <1>14, <1>15 DEF Next, Bystander

-----------------------------------------------------------------------------

\* The invariant holds at the start.
LEMMA InitDInv == Init => DInv
<1>1. Init => CycleInv /\ ToldInv /\ SnapInv /\ TurnInv
  BY DEF Init, Nothing, CycleInv, ToldInv, SnapInv, TurnInv, NoSnapshot, Deciding
<1> QED
  BY <1>1, InitIInv DEF DInv

\* The invariant is inductive.
LEMMA NextDInv == DInv /\ [Next]_vars => DInv'
  BY NextIInv, CycleStep, ToldStep, SnapStep, TurnStep DEF DInv

\* Whatever a snapshot has missed, a pass may rely on what SnapInv and TurnInv say of it.
THEOREM StrongInvariance == Spec => []DInv
  BY InitDInv, NextDInv, PTL DEF Spec

-----------------------------------------------------------------------------
(* The refinement: one step of the promise for each step of a pass *)

\* What Dispatch sees of a cycle.
Seen(c) == [paid |-> c.calls, worker |-> c.worker, started |-> c.queued]

\* The inequalities in Dispatch exclude only steps that change nothing.
LEMMA AsPromised ==
  ASSUME \/ D!NewCycles
         \/ \E w \in Starting : D!Pay(w) \/ D!Start(w) \/ \E a \in Workers : D!Choose(w, a)
         \/ D!Metroplex
         \/ D!Others
  PROVE  [D!Next]_(D!vars)
<1> DEFINE c == [w \in Starting |-> Seen(cycle[w])]
           d == [w \in Starting |-> Seen(cycle'[w])]
<1>1. CASE D!NewCycles \/ \E w \in Starting : D!Pay(w) \/ \E a \in Workers : D!Choose(w, a)
  BY <1>1 DEF D!NewCycles, D!Pay, D!Choose, D!Next, D!Cycles, D!vars
<1>2. ASSUME NEW w \in Starting, D!Start(w) PROVE [D!Next]_(D!vars)
  <2>1. d = [c EXCEPT ![w].started = TRUE] /\ ~c[w].started
    BY <1>2 DEF D!Start, Seen
  <2>2. d # c
    BY <2>1 DEF Seen
  <2> QED
    BY <1>2, <2>2 DEF D!Next, D!Cycles, Seen
<1>3. CASE D!Metroplex \/ D!Others
  <2>1. d = c
    BY <1>3 DEF D!Metroplex, D!Others, D!Tell, D!Approve, D!Reopen, D!Ask, D!OwnerCompletes,
       D!Rescopes, D!AttemptEnds, D!OwnerStarts, D!Operates, D!PausesProject, D!Becomes, Seen
  <2> QED
    BY <1>3, <2>1 DEF D!Next, D!vars, Seen
<1> QED
  BY <1>1, <1>2, <1>3

\* A wake that may start work is one of Dispatch's.
LEMMA StartingWake ==
  ASSUME wake \in Wakes, R \in Routable
  PROVE  wake \in Starting
  BY DEF Wakes, Starting, R

\* And each of those is a wake.
LEMMA StartingWakes == Starting \subseteq Wakes
  BY DEF Starting, Wakes, Routable, Reasons

\* Fewer words for Dispatch's view of the service and of the cycles.
SameService == UNCHANGED <<paused, status, live, approved, why, told>>
SameCycles == \A w \in Starting : Seen(cycle'[w]) = Seen(cycle[w])

\* A cycle in which nothing was written is a fresh one.
LEMMA SeenFresh == Seen(Nothing) = D!Fresh
<1>1. Nothing.calls = 0 /\ Nothing.worker = None /\ Nothing.queued = FALSE
  BY DEF Nothing
<1> QED
  BY Zenon, <1>1 DEF Seen, D!Fresh

\* Changing a field of a record of Dispatch.
LEMMA SeenField ==
  ASSUME NEW a, NEW b, NEW c, NEW x
  PROVE  [[paid |-> a, worker |-> b, started |-> c] EXCEPT !.started = x]
            = [paid |-> a, worker |-> b, started |-> x]
  OBVIOUS

\* What Dispatch sees of a field that is written.
LEMMA SeenWrite ==
  ASSUME NEW r \in Written, NEW q
  PROVE  /\ \A x : q = [r EXCEPT !.calls = x] => Seen(q) = [Seen(r) EXCEPT !.paid = x]
         /\ \A x : q = [r EXCEPT !["worker"] = x] => Seen(q) = [Seen(r) EXCEPT !.worker = x]
         /\ q = [r EXCEPT !["queued"] = TRUE] => Seen(q) = [Seen(r) EXCEPT !.started = TRUE]
<1>1. ASSUME NEW x, q = [r EXCEPT !.calls = x] PROVE Seen(q) = [Seen(r) EXCEPT !.paid = x]
  BY <1>1 DEF Written, Seen
<1>2. ASSUME NEW x, q = [r EXCEPT !["worker"] = x]
      PROVE  Seen(q) = [Seen(r) EXCEPT !.worker = x]
  BY <1>2 DEF Written, Seen
<1>3. ASSUME q = [r EXCEPT !["queued"] = TRUE] PROVE Seen(q) = [Seen(r) EXCEPT !.started = TRUE]
  <2>1. q.calls = r.calls /\ q.worker = r.worker /\ q.queued = TRUE
    BY <1>3 DEF Written
  <2>2. Seen(q) = [paid |-> r.calls, worker |-> r.worker, started |-> TRUE]
    BY Zenon, <2>1 DEF Seen
  <2>3. [Seen(r) EXCEPT !.started = TRUE]
            = [paid |-> r.calls, worker |-> r.worker, started |-> TRUE]
    BY Zenon, SeenField DEF Seen
  <2> QED
    BY <2>2, <2>3
<1> QED
  BY <1>1, <1>2, <1>3

\* The initial states agree.
LEMMA InitDispatch == Init => D!Init
<1> SUFFICES ASSUME Init PROVE D!Init
  OBVIOUS
<1>1. \A w \in Starting : cycle[w] = Nothing
  BY DEF Init, Starting, Wakes, Routable, Reasons
<1>2. \A w \in Starting : Seen(cycle[w]) = D!Fresh
  BY <1>1, SeenFresh
<1> QED
  BY <1>2 DEF Init, D!Init, Seen

\* A step that Dispatch does not see is a stutter.
LEMMA Unseen == ASSUME SameService, SameCycles PROVE UNCHANGED D!vars
  BY DEF SameService, SameCycles, Seen, D!vars, D!service

\* What is not the calls, the worker or the attempt of a cycle is not seen.
LEMMA SeenWritten ==
  ASSUME TypeOK, wake \in Wakes,
         \/ UNCHANGED cycle
         \/ \E f \in {"judged", "inflight", "fenced"} : \E x : Wrote(f, x)
  PROVE  SameCycles
<1>1. \A w \in Wakes : /\ cycle'[w].calls = cycle[w].calls
                       /\ cycle'[w].worker = cycle[w].worker
                       /\ cycle'[w].queued = cycle[w].queued
  BY DEF TypeOK, Written, Wrote
<1> QED
  BY Zenon, <1>1, StartingWakes DEF SameCycles, Seen

\* Cycles that begin anew.
LEMMA CyclesBegin ==
  ASSUME SameService, \A w \in Starting : cycle'[w] \in {cycle[w], Nothing}
  PROVE  [D!Next]_(D!vars)
<1>1. \A w \in Starting : Seen(cycle'[w]) \in {Seen(cycle[w]), D!Fresh}
  BY SeenFresh
<1>2. D!NewCycles
  BY <1>1 DEF D!NewCycles, D!service, SameService, Seen
<1> QED
  BY <1>2, AsPromised

\* A new status, with its reason, ends a question about the task.
LEMMA StatusBecomes ==
  ASSUME NEW t, NEW s, NEW reason, SetStatus(t, s, reason),
         UNCHANGED <<paused, live, approved>>, SameCycles
  PROVE  D!Becomes(t, s, reason)
  BY DEF SetStatus, SameCycles, Seen, D!Becomes

\* The paid call (_decide).
LEMMA CallStep == ASSUME DInv, CallJev PROVE [D!Next]_(D!vars)
<1>0. TypeOK /\ wake \in Starting
  BY StartingWake DEF DInv, IInv, TypeOK, CycleInv, CallJev, Deciding
<1>1. PICK w \in Starting : w = wake
  BY <1>0
<1>2. cycle[w].calls = 0 /\ cycle[w].worker = None
  BY <1>1 DEF DInv, IInv, PaidInv, WorkerInv, CallJev, NoSnapshot, Deciding
<1>3. /\ cycle'[w] = [cycle[w] EXCEPT !.calls = 1]
      /\ \A v \in Starting \ {w} : cycle'[v] = cycle[v]
      /\ cycle[w] \in Written
  BY <1>0, <1>1, <1>2, StartingWakes DEF CallJev, TypeOK
<1>4. Seen(cycle'[w]) = [Seen(cycle[w]) EXCEPT !.paid = 1]
  BY <1>3, SeenWrite
<1>5. SameService
  BY DEF CallJev, SameService
<1>6. D!Pay(w)
  BY <1>2, <1>3, <1>4, <1>5 DEF D!Pay, D!service, SameService, Seen
<1> QED
  BY <1>6, AsPromised

\* The contribution of a worker (_assign).
LEMMA CreateStep == ASSUME DInv, CreateContribution PROVE [D!Next]_(D!vars)
<1>0. TypeOK /\ wake \in Starting /\ choice \in Workers
  BY StartingWake DEF DInv, IInv, TypeOK, CycleInv, ChoiceInv, CreateContribution, Deciding
<1>1. PICK w \in Starting, a \in Workers : w = wake /\ a = choice
  BY <1>0
<1>2. cycle[w].worker = None /\ ~cycle[w].queued
  BY <1>1, StartingWakes DEF DInv, IInv, WorkerInv, CycleInv, CreateContribution, NoSnapshot,
     Deciding
<1>3. /\ cycle'[w] = [cycle[w] EXCEPT !["worker"] = a]
      /\ \A v \in Starting \ {w} : cycle'[v] = cycle[v]
      /\ cycle[w] \in Written
  BY <1>0, <1>1, <1>2, StartingWakes DEF CreateContribution, TypeOK, Wrote
<1>4. Seen(cycle'[w]) = [Seen(cycle[w]) EXCEPT !.worker = a]
  BY <1>3, SeenWrite
<1>5. SameService
  BY DEF CreateContribution, SameService
<1>6. D!Choose(w, a)
  BY <1>2, <1>3, <1>4, <1>5 DEF D!Choose, D!service, SameService, Seen
<1> QED
  BY <1>6, AsPromised

\* The attempt, which the service refuses unless it may start (_assign).
LEMMA QueueStep == ASSUME DInv, QueueAttempt PROVE [D!Next]_(D!vars)
<1>0. TypeOK /\ wake \in Starting
  BY StartingWake DEF DInv, IInv, TypeOK, CycleInv, QueueAttempt
<1>1. PICK w \in Starting : w = wake /\ w[1] = T
  BY <1>0 DEF T
<1>2. ~cycle[w].queued /\ cycle[w].worker = choice /\ choice # None
  BY <1>1, NoneAssumption DEF DInv, IInv, ChoiceInv, CycleInv, QueueAttempt
<1>3. CASE UNCHANGED <<live, approved, cycle>>
  BY <1>3, Unseen DEF QueueAttempt, SameService, SameCycles
<1>4. CASE /\ status[T] = "open" /\ ~NotNow(T)
           /\ live' = live \cup {<<T, choice>>}
           /\ approved' = approved \ {T}
           /\ Wrote("queued", TRUE)
  <2>1. /\ cycle'[w] = [cycle[w] EXCEPT !["queued"] = TRUE]
        /\ \A v \in Starting \ {w} : cycle'[v] = cycle[v]
        /\ cycle[w] \in Written
    BY <1>0, <1>1, <1>4, StartingWakes DEF TypeOK, Wrote
  <2>2. Seen(cycle'[w]) = [Seen(cycle[w]) EXCEPT !.started = TRUE]
    BY <2>1, SeenWrite
  <2>3. /\ status[w[1]] = "open" /\ ~paused
        /\ \A d \in Deps[w[1]] : status[d] = "done"
        /\ w[1] \in Reserved => w[1] \in approved
    BY <1>1, <1>4 DEF NotNow, DepsDone, Now
  <2>4. /\ live' = live \cup {<<w[1], cycle[w].worker>>}
        /\ approved' = approved \ {w[1]}
        /\ UNCHANGED <<paused, status, why, told>>
    BY <1>1, <1>2, <1>4 DEF QueueAttempt
  <2> DEFINE c == [v \in Starting |-> Seen(cycle[v])]
             d == [v \in Starting |-> Seen(cycle'[v])]
  <2>5. d = [c EXCEPT ![w].started = TRUE]
    BY <2>1, <2>2
  <2>6. c[w].worker = cycle[w].worker /\ ~c[w].started
    BY <1>2 DEF Seen
  <2>7. D!Startable(w[1]) /\ D!Begin(w[1], c[w].worker)
    BY <2>3, <2>4, <2>6 DEF D!Startable, D!DepsDone, D!Begin
  <2>8. D!Start(w)
    BY Zenon, <1>2, <2>5, <2>6, <2>7 DEF D!Start, Seen
  <2> QED
    BY <2>8, AsPromised
<1> QED
  BY <1>3, <1>4 DEF QueueAttempt

\* A question, or a task that is opened again (_escalate, and the "unblock" wake).
LEMMA BlockStep == ASSUME DInv, Block PROVE [D!Next]_(D!vars)
<1>0. TypeOK /\ wake \in Wakes /\ T \in Tasks
  BY TaskOfWake DEF DInv, IInv, TypeOK, Block
<1>1. PICK t \in Tasks : t = T
  BY <1>0
<1>2. SameCycles
  BY <1>0, SeenWritten DEF Block
<1>3. CASE UNCHANGED <<status, why, told, noted>>
  BY <1>2, <1>3, Unseen DEF Block, SameService
<1>4. CASE Accepted /\ SetStatus(T, "blocked", Kind)
  <2>1. t \notin snap.moved /\ status[t] = "open"
    BY <1>1, <1>4 DEF Accepted, Block, DInv, SnapInv, TurnInv, NoSnapshot
  <2>2. \A a \in Workers : <<t, a>> \notin live
    BY <1>1, <2>1 DEF Block, DInv, IInv, LiveInv, NoSnapshot, Working
  <2>3. PICK kind \in Kinds : kind = Kind
    BY DEF Kind, Kinds
  <2>4. IF kind = "reserved" THEN t \in Reserved \ approved
                             ELSE \A d \in Deps[t] : status[d] = "done"
    <3>1. kind = "reserved" <=> choice = "reserved"
      BY <2>3 DEF Kind
    <3>2. Deps[t] \subseteq Tasks
      BY DepsAssumption
    <3> QED
      BY <1>1, <3>1, <3>2 DEF Block, DInv, TurnInv, SnapInv, NoSnapshot, DepsDone
  <2>5. D!Becomes(t, "blocked", kind)
    BY <1>1, <1>2, <1>4, <2>3, StatusBecomes DEF Block
  <2>6. D!Ask(t, kind)
    BY <2>1, <2>2, <2>4, <2>5 DEF D!Ask, D!Works, D!DepsDone
  <2>7. D!Metroplex
    BY <2>6 DEF D!Metroplex, Kinds
  <2> QED
    BY <2>7, AsPromised
<1> QED
  BY <1>3, <1>4 DEF Block

\* The blocker is done.
LEMMA ResumeStep == ASSUME DInv, ResumeTask PROVE [D!Next]_(D!vars)
<1>0. TypeOK /\ wake \in Wakes /\ T \in Tasks
  BY TaskOfWake DEF DInv, IInv, TypeOK, ResumeTask
<1>1. PICK t \in Tasks : t = T
  BY <1>0
<1>2. SameCycles
  BY <1>0, SeenWritten DEF ResumeTask
<1>3. CASE UNCHANGED <<status, why, told, noted>>
  BY <1>2, <1>3, Unseen DEF ResumeTask, SameService
<1>4. CASE Accepted /\ SetStatus(T, "open", None)
  <2>1. status[t] = "blocked"
    BY <1>1, <1>4 DEF Accepted, ResumeTask, DInv, SnapInv, TurnInv, NoSnapshot
  <2>2. \A d \in Deps[t] : status[d] = "done"
    <3>1. Deps[t] \subseteq Tasks
      BY DepsAssumption
    <3> QED
      BY <1>1, <3>1 DEF ResumeTask, DInv, TurnInv, SnapInv, NoSnapshot, DepsDone
  <2>3. D!Becomes(t, "open", None)
    BY <1>1, <1>2, <1>4, StatusBecomes DEF ResumeTask
  <2>4. D!Reopen(t)
    BY <2>1, <2>2, <2>3 DEF D!Reopen, D!DepsDone
  <2>5. D!Metroplex
    BY <2>4 DEF D!Metroplex
  <2> QED
    BY <2>5, AsPromised
<1> QED
  BY <1>3, <1>4 DEF ResumeTask

\* Matthew's yes, in two commands (approve_reserved).
LEMMA ApproveStep ==
  ASSUME DInv, ResumeApproved \/ \E t \in Tasks : TapApprove(t)
  PROVE  [D!Next]_(D!vars)
<1>1. SameCycles
  BY DEF ResumeApproved, TapApprove, SameCycles
<1>2. ASSUME NEW t \in Tasks, TapApprove(t) PROVE [D!Next]_(D!vars)
  <2>1. D!Approve(t)
    BY <1>1, <1>2 DEF TapApprove, D!Approve, SameCycles, Seen
  <2>2. D!Metroplex
    BY <2>1 DEF D!Metroplex
  <2> QED
    BY <2>2, AsPromised
<1>3. CASE ResumeApproved /\ T \in told
  <2>1. PICK t \in Tasks : t = T
    BY <1>3 DEF DInv, IInv, TypeOK
  <2>2. why[t] = "reserved" /\ t \in approved
    BY <1>3, <2>1 DEF ResumeApproved, DInv, ToldInv
  <2>3. status[t] = "blocked"
    BY <2>2, NoneAssumption DEF DInv, IInv, TypeOK
  <2>4. D!Becomes(t, "open", None)
    BY <1>1, <1>3, <2>1, StatusBecomes DEF ResumeApproved
  <2>5. D!Reopen(t)
    BY <2>2, <2>3, <2>4 DEF D!Reopen
  <2>6. D!Metroplex
    BY <2>5 DEF D!Metroplex
  <2> QED
    BY <2>6, AsPromised
<1>4. CASE ResumeApproved /\ T \notin told
  BY <1>1, <1>4, Unseen DEF ResumeApproved, SameService
<1> QED
  BY <1>2, <1>3, <1>4

\* The notice of a question, now or by the sweep (ensure_notice).
LEMMA TellStep ==
  ASSUME DInv, Notice \/ \E t \in Tasks : SweepTells(t)
  PROVE  [D!Next]_(D!vars)
<1>1. SameCycles /\ UNCHANGED <<paused, status, live, approved, why>>
  BY DEF Notice, SweepTells, teletraan, SameCycles
<1>2. ASSUME NEW t \in Tasks, Untold(t), told' = told \cup {t} PROVE [D!Next]_(D!vars)
  <2>1. D!Tell(t)
    BY <1>1, <1>2 DEF Untold, Kinds, D!Tell, SameCycles, Seen
  <2>2. D!Metroplex
    BY <2>1 DEF D!Metroplex
  <2> QED
    BY <2>2, AsPromised
<1>3. CASE UNCHANGED told
  BY <1>1, <1>3, Unseen DEF SameService
<1>4. CASE Notice
  <2>1. T \in Tasks
    BY <1>4, TaskOfWake DEF Notice, DInv, IInv, TypeOK
  <2>2. PICK t \in Tasks : t = T
    BY <2>1
  <2>3. Untold(T) <=> Untold(t)
    BY <2>2 DEF Untold
  <2>4. UNCHANGED told \/ (Untold(t) /\ told' = told \cup {t})
    BY <1>4, <2>2, <2>3 DEF Notice, Recorded, NotRecorded
  <2> QED
    BY <1>2, <1>3, <2>4
<1>5. ASSUME NEW t \in Tasks, SweepTells(t) PROVE [D!Next]_(D!vars)
  <2>1. UNCHANGED told \/ (Untold(t) /\ told' = told \cup {t})
    BY <1>5 DEF SweepTells, Recorded, NotRecorded
  <2> QED
    BY <1>2, <1>3, <2>1
<1> QED
  BY <1>4, <1>5

\* The cycles begin anew when a pass reads its list and when a wake is acknowledged.
LEMMA BeginStep == ASSUME DInv, PassStart \/ Ack PROVE [D!Next]_(D!vars)
<1>1. TypeOK
  BY DEF DInv, IInv
<1>2. \A w \in Wakes : cycle'[w] \in {cycle[w], Nothing}
  BY <1>1 DEF PassStart, Ack, TypeOK
<1> QED
  BY <1>2, StartingWakes, CyclesBegin DEF PassStart, Ack, SameService

\* Workers, owners and the operator do in Routing what they do in Dispatch.
LEMMA PeopleStep == ASSUME DInv, People PROVE [D!Next]_(D!vars)
<1>1. SameCycles
  BY DEF People, AttemptEnds, OwnerStarts, OwnerCompletes, OwnerAsksRework, Rescopes, Operates,
     ChangesMember, PausesProject, SameCycles
<1>2. ASSUME NEW t \in Tasks, NEW a \in Workers, AttemptEnds(t, a) PROVE D!Others
  <2>1. D!AttemptEnds(t, a)
    BY <1>1, <1>2 DEF AttemptEnds, D!AttemptEnds, SameCycles, Seen
  <2> QED
    BY <2>1 DEF D!Others
<1>3. ASSUME NEW t \in Tasks, NEW a \in Workers, OwnerStarts(t, a) PROVE D!Others
  <2>1. D!Startable(t) /\ ~D!Works(t)
    BY <1>3 DEF OwnerStarts, NotNow, DepsDone, Working, Now, D!Startable, D!DepsDone, D!Works
  <2>2. D!Begin(t, a)
    BY <1>3 DEF OwnerStarts, Outside, D!Begin
  <2>3. D!OwnerStarts(t, a)
    BY <1>1, <2>1, <2>2 DEF D!OwnerStarts, SameCycles, Seen
  <2> QED
    BY <2>3 DEF D!Others
<1>4. ASSUME NEW t \in Tasks, OwnerCompletes(t) PROVE D!Others
  <2>1. D!Becomes(t, "done", None)
    BY <1>1, <1>4, StatusBecomes DEF OwnerCompletes
  <2>2. D!OwnerCompletes(t)
    BY <1>4, <2>1 DEF OwnerCompletes, Working, Now, D!OwnerCompletes, D!Works
  <2> QED
    BY <2>2 DEF D!Others
<1>5. ASSUME NEW t \in Tasks, Rescopes(t) PROVE D!Others
  <2>1. D!Rescopes(t)
    BY <1>1, <1>5 DEF Rescopes, D!Rescopes, D!Final, SameCycles, Seen
  <2> QED
    BY <2>1 DEF D!Others
<1>6. ASSUME NEW t \in Tasks, NEW name, NEW s \in {"open", "blocked", "paused", "cancelled"},
             NEW reason \in {"dep", None}, Operates(t, name, s, reason)
      PROVE  D!Others
  <2>1. D!Becomes(t, s, reason)
    BY <1>1, <1>6, StatusBecomes DEF Operates
  <2>2. D!Operates(t, s, reason)
    BY <1>6, <2>1 DEF Operates, D!Operates, D!Final
  <2> QED
    BY <2>2 DEF D!Others
<1>7. ASSUME PausesProject PROVE D!Others
  <2>1. D!PausesProject
    BY <1>1, <1>7 DEF PausesProject, Outside, D!PausesProject, SameCycles, Seen
  <2> QED
    BY <2>1 DEF D!Others
<1>8. CASE \/ \E t \in Tasks : OwnerAsksRework(t)
           \/ \E a \in Workers : ChangesMember(a)
  BY <1>1, <1>8, Unseen DEF OwnerAsksRework, ChangesMember, Outside, SameService
<1> QED
  BY <1>2, <1>3, <1>4, <1>5, <1>6, <1>7, <1>8, AsPromised DEF People

\* Every step of Routing is one of Dispatch or is not seen there.
LEMMA DispatchStep == DInv /\ [Next]_vars => [D!Next]_(D!vars)
<1> SUFFICES ASSUME DInv, [Next]_vars PROVE [D!Next]_(D!vars)
  OBVIOUS
<1>0. TypeOK /\ (at \notin {"idle", "snapshot", "turn"} => wake \in Wakes)
  BY DEF DInv, IInv, TypeOK
<1>u. ASSUME SameService, UNCHANGED cycle PROVE [D!Next]_(D!vars)
  BY <1>u, Unseen DEF SameCycles
<1>1. CASE \/ TakeSnapshot \/ PassEnd \/ Noop \/ Blocked \/ AskReserved \/ ResumeChoice
           \/ Consider \/ CheckFresh \/ Abort \/ Rejected \/ NextWindow
  BY <1>u, <1>1 DEF TakeSnapshot, PassEnd, Noop, Blocked, AskReserved, ResumeChoice, Consider,
     CheckFresh, Abort, Rejected, NextWindow, teletraan, SameService
<1>2. CASE (\E w \in Wakes : Turn(w)) \/ (\E t \in Tasks : SweepRaises(t)) \/ UNCHANGED vars
  BY <1>u, <1>2 DEF Turn, SweepRaises, vars, teletraan, SameService
<1>3. CASE AskJev \/ RecordJudgment
  BY <1>0, <1>3, SeenWritten, Unseen DEF AskJev, RecordJudgment, SameService
<1>4. CASE Pass
  BY <1>4, <1>1, <1>2, <1>3, CallStep, CreateStep, QueueStep, BlockStep, ResumeStep, ApproveStep,
     TellStep, BeginStep DEF Pass
<1> QED
  BY <1>1, <1>2, <1>4, ApproveStep, TellStep, BeginStep, PeopleStep DEF Next

\* Routing keeps its promise.  Turns decide on old snapshots, pass on after errors, run again
\* after crashes and lost replies, and yet: a cycle pays for one judgment, has one worker and
\* starts one attempt; a question is asked only about an open task on which nobody works; a
\* reserved action starts only with an unused yes to a question that was sent; and a blocked
\* task is opened again only by that yes or when what it waits for is done (routing.py,
\* approve_reserved).
THEOREM DispatchIsKept == Spec => Dispatches
  BY InitDispatch, DispatchStep, StrongInvariance, PTL DEF Spec, Dispatches, D!Spec

=============================================================================
