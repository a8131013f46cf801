---------------------------- MODULE RoutingProofs ----------------------------
(***************************************************************************)
(* Proofs about Routing, for every value of its constants: the types, one  *)
(* worker and one paid call per cycle, and that no turn blocks a task on   *)
(* which somebody works.                                                   *)
(***************************************************************************)
EXTENDS Routing, FiniteSetTheorems, TLAPS

-----------------------------------------------------------------------------
(* The inductive invariant.  What a turn may write is decided on the       *)
(* snapshot, so the parts below say how the snapshot relates to what       *)
(* Teletraan holds by now.                                                 *)

Deciding == {"jev", "call", "record", "fresh", "create"}

\* What `choice` is where a turn uses it.
ChoiceInv ==
    /\ at \in {"fresh", "create", "queue"} => choice \in Workers
    /\ at = "record" => choice \in Answers

\* A cycle without the mark has paid nothing, and the call is made only in such a cycle.
PaidInv ==
    /\ \A w \in Wakes : cycle[w].calls \in 0..1
    /\ \A w \in Wakes : ~cycle[w].inflight => cycle[w].calls = 0
    /\ at = "call" => cycle[wake].calls = 0 /\ cycle[wake].inflight

\* The snapshot has the worker of every cycle the pass has still to handle, and a turn
\* that decides has none yet.
WorkerInv ==
    at \notin NoSnapshot =>
        /\ \A w \in todo : snap.cycle[w].worker = cycle[w].worker
        /\ at # "turn" => wake \notin todo
        /\ at = "verdict" => snap.cycle[wake].worker = cycle[wake].worker
        /\ at \in Deciding => cycle[wake].worker = None

\* Whoever starts to work on a task gives it a revision newer than the snapshot's.
LiveInv ==
    at \notin NoSnapshot =>
        /\ \A t \in Tasks \ snap.moved, a \in Workers :
               <<t, a>> \in live => <<t, a>> \in snap.live
        /\ at \in Deciding \cup {"block"} => ~Working(snap, T)

IInv == TypeOK /\ ChoiceInv /\ PaidInv /\ WorkerInv /\ LiveInv

-----------------------------------------------------------------------------

\* Writing one field of a cycle leaves its other fields and all other cycles alone.
LEMMA WroteField ==
  ASSUME cycle \in [Wakes -> Written], wake \in Wakes, NEW f, NEW x, Wrote(f, x),
         [cycle[wake] EXCEPT ![f] = x] \in Written
  PROVE  /\ cycle' \in [Wakes -> Written]
         /\ cycle'[wake] = [cycle[wake] EXCEPT ![f] = x]
         /\ \A w \in Wakes \ {wake} : cycle'[w] = cycle[w]
  BY DEF Wrote

\* What each field of a cycle may become.
LEMMA WriteTypes ==
  ASSUME NEW r \in Written
  PROVE  /\ \A x \in Workers \cup {None} : [r EXCEPT !["worker"] = x] \in Written
         /\ \A x \in Answers \cup {None} : [r EXCEPT !["judged"] = x] \in Written
         /\ [r EXCEPT !["inflight"] = TRUE] \in Written
         /\ [r EXCEPT !["queued"] = TRUE] \in Written
         /\ [r EXCEPT !["fenced"] = TRUE] \in Written
         /\ \A x \in 0..2 : [r EXCEPT !["calls"] = x] \in Written
  BY DEF Written

\* An older snapshot differs from what it was in its marks only.
LEMMA OlderSnapshot ==
  ASSUME at \notin NoSnapshot, snap \in Snapshots, NEW ts \in SUBSET Tasks, Touch(ts)
  PROVE  /\ snap' \in Snapshots
         /\ snap'.cycle = snap.cycle
         /\ snap'.live = snap.live
         /\ snap.moved \subseteq snap'.moved
         /\ ts \subseteq snap'.moved
  BY DEF Touch, Snapshots

\* A wake names a task.
LEMMA TaskOfWake == ASSUME wake \in Wakes PROVE T \in Tasks /\ R \in Reasons
  BY DEF Wakes, T, R

\* A new snapshot is one.
LEMMA NewSnapshot == TypeOK => Now \in Snapshots
  BY DEF TypeOK, Now, Snapshots

-----------------------------------------------------------------------------
(* The types, in three parts: Teletraan and the sent notices, the pass, the counters *)

ServiceOK ==
    /\ paused \in BOOLEAN
    /\ able \subseteq Workers
    /\ status \in [Tasks -> Statuses]
    /\ why \in [Tasks -> Kinds \cup {"dep", None}]
    /\ \A t \in Tasks : (status[t] = "blocked") <=> (why[t] # None)
    /\ live \subseteq Tasks \X Workers
    /\ review \cup approved \cup told \cup noted \subseteq Tasks
    /\ pending \cup again \subseteq Wakes
    /\ cycle \in [Wakes -> Written]

PassOK ==
    /\ todo \subseteq Wakes
    /\ at \in Places
    /\ at \notin NoSnapshot => snap \in Snapshots
    /\ wake \in Wakes \cup {None}
    /\ at \notin {"idle", "snapshot", "turn"} => wake \in Wakes
    /\ choice \in Answers \cup Kinds \cup {None}

CountsOK ==
    /\ turns \in [Tasks -> 0..TurnCap]
    /\ faults \in 0..MaxFaults
    /\ moves \in 0..MaxMoves

\* The three parts are the type invariant.
LEMMA TypeParts == TypeOK <=> ServiceOK /\ PassOK /\ CountsOK
  BY DEF TypeOK, ServiceOK, PassOK, CountsOK

\* The three parts of the next state are the type invariant of the next state.
LEMMA TypePartsNext == TypeOK' <=> ServiceOK' /\ PassOK' /\ CountsOK'
  BY DEF TypeOK, ServiceOK, PassOK, CountsOK

\* A turn that goes on stays well typed.
LEMMA GotoOK ==
  ASSUME PassOK, at \notin {"idle", "snapshot", "turn"},
         NEW place \in Places \ NoSnapshot, NEW x \in Answers \cup Kinds \cup {None},
         Goto(place, x), snap' \in Snapshots
  PROVE  PassOK'
  BY DEF PassOK, Goto

\* A turn that ends does, too.
LEMMA LeaveOK ==
  ASSUME PassOK, NEW place, Leave(place),
         place \in {"idle", "snapshot"} \/ (place = "turn" /\ at \notin NoSnapshot)
  PROVE  PassOK'
  BY DEF PassOK, Leave, Places, NoSnapshot

\* A fault is one of MaxFaults.
LEMMA FaultOK == ASSUME CountsOK, Fault \/ NoFault PROVE faults' \in 0..MaxFaults
  BY LimitsAssumption DEF CountsOK, Fault, NoFault

\* A command that took effect leaves a well typed pass, whether or not its reply came.
LEMMA ThenOK ==
  ASSUME PassOK, CountsOK, at \notin {"turn"} \cup NoSnapshot,
         NEW place \in Places \ NoSnapshot, NEW x \in Answers \cup Kinds \cup {None},
         NEW ts \in SUBSET Tasks, Then(place, x, ts)
  PROVE  PassOK' /\ faults' \in 0..MaxFaults
<1>1. CASE Goto(place, x) /\ Touch(ts) /\ NoFault
  <2>1. snap' \in Snapshots
    BY <1>1, OlderSnapshot DEF PassOK
  <2> QED
    BY <1>1, <2>1, GotoOK, FaultOK DEF NoSnapshot
<1>2. CASE Leave("idle") /\ Fault
  BY <1>2, LeaveOK, FaultOK
<1> QED
  BY <1>1, <1>2 DEF Then

\* A rejected command leaves a well typed pass.
LEMMA NextWakeOK ==
  ASSUME PassOK, CountsOK, at \notin NoSnapshot, NextWake
  PROVE  PassOK' /\ faults' \in 0..MaxFaults
  BY LeaveOK, FaultOK DEF NextWake

\* A choice, and local reasoning, leave a well typed pass.
LEMMA AnsweredOK ==
  ASSUME PassOK, at \notin {"turn"} \cup NoSnapshot, NEW x \in Answers,
         Answered(x), UNCHANGED snap
  PROVE  PassOK'
<1>1. ASSUME NEW y \in Workers \cup Escapes, Follow(y) PROVE PassOK'
  <2>1. snap' \in Snapshots
    BY DEF PassOK
  <2>2. {"ack", "fresh", "block"} \subseteq Places \ NoSnapshot
    BY DEF Places, NoSnapshot
  <2>3. y \in Answers /\ None \in Answers \cup Kinds \cup {None}
    BY DEF Answers
  <2> QED
    BY <1>1, <2>1, <2>2, <2>3, GotoOK DEF Follow, NoSnapshot
<1>2. Candidates(snap) \subseteq Workers
  BY DEF PassOK, Snapshots, Candidates
<1> QED
  BY <1>1, <1>2, NoneAssumption DEF Answered, Reason, Answers

\* Raising wakes keeps Teletraan well typed.
LEMMA RaiseOK ==
  ASSUME ServiceOK, NEW ws \in SUBSET Wakes, Raise(ws)
  PROVE  pending' \cup again' \subseteq Wakes
  BY DEF ServiceOK, Raise

\* Giving a task a status with its reason keeps Teletraan well typed.
LEMMA SetStatusOK ==
  ASSUME ServiceOK, NEW t \in Tasks, NEW s \in Statuses, NEW reason \in Kinds \cup {"dep", None},
         (s = "blocked") <=> (reason # None), SetStatus(t, s, reason)
  PROVE  /\ status' \in [Tasks -> Statuses]
         /\ why' \in [Tasks -> Kinds \cup {"dep", None}]
         /\ \A u \in Tasks : (status'[u] = "blocked") <=> (why'[u] # None)
         /\ told' \cup noted' \subseteq Tasks
  BY DEF ServiceOK, SetStatus

\* What a pass that does not move keeps.
LEMMA PassKept ==
  ASSUME PassOK, UNCHANGED <<todo, at, wake, choice>>, at \notin NoSnapshot => snap' \in Snapshots
  PROVE  PassOK'
  BY DEF PassOK

\* What Teletraan keeps.
LEMMA ServiceKept == ASSUME ServiceOK, UNCHANGED <<teletraan, told, noted>> PROVE ServiceOK'
  BY DEF ServiceOK, teletraan

\* Every step keeps the types: one step of the proof per action.
LEMMA TypeStep == TypeOK /\ ChoiceInv /\ PaidInv /\ [Next]_vars => TypeOK'
<1> SUFFICES ASSUME TypeOK, ChoiceInv, PaidInv, [Next]_vars PROVE TypeOK'
  OBVIOUS
<1>a. ServiceOK /\ PassOK /\ CountsOK
  BY TypeParts
<1>b. SUFFICES ServiceOK' /\ PassOK' /\ CountsOK'
  BY TypePartsNext
<1> DEFINE Goal == ServiceOK' /\ PassOK' /\ CountsOK'
<1>c. None \in Answers \cup Kinds \cup {None} /\ Workers \subseteq Answers /\ "unsure" \in Answers
  BY DEF Answers
<1>d. at \notin NoSnapshot => snap \in Snapshots
  BY <1>a DEF PassOK
<1>e. at \notin {"idle", "snapshot", "turn"} => wake \in Wakes /\ T \in Tasks /\ R \in Reasons
  BY <1>a, TaskOfWake DEF PassOK

<1>1. CASE PassStart
  <2>1. cycle' \in [Wakes -> Written]
    BY <1>1, <1>a, NoneAssumption DEF PassStart, ServiceOK, Written, Nothing
  <2>2. ServiceOK'
    BY <1>1, <2>1, <1>a DEF PassStart, ServiceOK
  <2>3. PassOK' /\ CountsOK'
    BY <1>1, <1>a DEF PassStart, ServiceOK, PassOK, CountsOK, Places, NoSnapshot
  <2> QED
    BY <2>2, <2>3
<1>2. CASE TakeSnapshot
  <2>1. ServiceOK'
    BY <1>2, <1>a, ServiceKept DEF TakeSnapshot
  <2>2. PassOK' /\ CountsOK'
    BY <1>2, <1>a, NewSnapshot DEF TakeSnapshot, Goto, PassOK, CountsOK, Places, NoSnapshot
  <2> QED
    BY <2>1, <2>2
<1>3. ASSUME NEW w \in Wakes, Turn(w) PROVE Goal
  <2> DEFINE waiting == {t \in Tasks \ {w[1]} : Waiting(snap, t)} \ snap.moved
  <2>1. /\ pending' \cup again' \subseteq Wakes
        /\ faults' \in 0..MaxFaults
    <3>1. CASE UNCHANGED <<pending, again>> /\ NoFault
      BY <3>1, <1>a, FaultOK DEF ServiceOK
    <3>2. CASE HandsOff(w)
      <4>1. PICK some \in SUBSET waiting : Raise(some \X {"unassigned"}) /\ (Fault \/ NoFault)
        BY <3>2 DEF HandsOff
      <4>2. some \X {"unassigned"} \in SUBSET Wakes
        BY DEF Wakes, Reasons
      <4> QED
        BY <4>1, <4>2, <1>a, RaiseOK, FaultOK
    <3> QED
      BY <1>3, <3>1, <3>2 DEF Turn
  <2>2. ServiceOK'
    BY <1>3, <1>a, <2>1 DEF Turn, ServiceOK
  <2>3. PassOK'
    BY <1>3, <1>a DEF Turn, PassOK, Places, NoSnapshot
  <2>4. CountsOK'
    BY <1>3, <1>a, <2>1 DEF Turn, CountsOK
  <2> QED
    BY <2>2, <2>3, <2>4
<1>4. CASE PassEnd
  <2>1. ServiceOK'
    BY <1>4, <1>a, ServiceKept DEF PassEnd
  <2>2. PassOK' /\ CountsOK'
    BY <1>4, <1>a, LeaveOK DEF PassEnd, CountsOK
  <2> QED
    BY <2>1, <2>2
<1>5. CASE Noop
  <2>1. ServiceOK'
    BY <1>5, <1>a, ServiceKept DEF Noop
  <2>2. CountsOK'
    BY <1>5, <1>a DEF Noop, CountsOK
  <2>3. PassOK'
    BY <1>5, <1>a, <1>c, <1>d, GotoOK DEF Noop, Places, NoSnapshot
  <2> QED
    BY <2>1, <2>2, <2>3
<1>6. CASE Blocked
  <2>1. ServiceOK'
    BY <1>6, <1>a, ServiceKept DEF Blocked
  <2>2. CountsOK'
    BY <1>6, <1>a DEF Blocked, CountsOK
  <2>3. PassOK'
    BY <1>6, <1>a, <1>c, <1>d, GotoOK DEF Blocked, Places, NoSnapshot
  <2> QED
    BY <2>1, <2>2, <2>3
<1>7. CASE AskReserved
  <2>1. ServiceOK'
    BY <1>7, <1>a, ServiceKept DEF AskReserved
  <2>2. CountsOK'
    BY <1>7, <1>a DEF AskReserved, CountsOK
  <2>3. PassOK'
    BY <1>7, <1>a, <1>c, <1>d, GotoOK DEF AskReserved, Places, NoSnapshot, Kinds
  <2> QED
    BY <2>1, <2>2, <2>3
<1>8. CASE ResumeChoice
  <2>1. ServiceOK'
    BY <1>8, <1>a, ServiceKept DEF ResumeChoice
  <2>2. CountsOK'
    BY <1>8, <1>a DEF ResumeChoice, CountsOK
  <2>3. Prior(wake) \in Answers
    BY <1>8, <1>c, <1>d, <1>e DEF ResumeChoice, Prior, Snapshots, Written, NoSnapshot
  <2>4. PassOK'
    BY <1>8, <1>a, <1>c, <1>d, <2>3, GotoOK DEF ResumeChoice, Places, NoSnapshot
  <2> QED
    BY <2>1, <2>2, <2>4
<1>9. CASE Consider
  <2>1. ServiceOK'
    BY <1>9, <1>a, ServiceKept DEF Consider
  <2>2. turns' \in [Tasks -> 0..TurnCap]
    <3>1. CASE UNCHANGED turns
      BY <3>1, <1>a DEF CountsOK
    <3>2. CASE ~AtCap(T) /\ turns' = [turns EXCEPT ![T] = turns[T] + 1]
      <4>1. turns[T] \in 0..TurnCap /\ turns[T] < TurnCap /\ TurnCap \in Nat
        BY <1>9, <3>2, <1>a, <1>e, LimitsAssumption DEF CountsOK, AtCap, Consider
      <4>2. turns[T] + 1 \in 0..TurnCap
        BY <4>1
      <4> QED
        BY <3>2, <4>2, <1>a DEF CountsOK
    <3> QED
      BY <1>9, <3>1, <3>2 DEF Consider
  <2>3. CountsOK'
    BY <1>9, <1>a, <2>2 DEF Consider, CountsOK
  <2>4. PassOK'
    <3>1. CASE Leave("snapshot")
      BY <1>9, <3>1, <1>a, LeaveOK
    <3>2. CASE /\ UNCHANGED snap
               /\ Goto("ack", None) \/ Goto("jev", None) \/ Goto("block", "authority")
      BY <1>9, <3>2, <1>a, <1>c, <1>d, GotoOK DEF Consider, Places, NoSnapshot, Kinds
    <3> QED
      BY <1>9, <3>1, <3>2 DEF Consider
  <2> QED
    BY <2>1, <2>3, <2>4
<1>10. CASE AskJev
  <2>1. cycle' \in [Wakes -> Written]
    BY <1>10, <1>a, <1>e, WroteField, WriteTypes DEF AskJev, ServiceOK
  <2>2. ServiceOK' /\ CountsOK'
    BY <1>10, <2>1, <1>a DEF AskJev, ServiceOK, CountsOK
  <2>3. at \notin {"turn"} \cup NoSnapshot
    BY <1>10 DEF AskJev, NoSnapshot
  <2>4. PassOK'
    <3>1. CASE /\ snap.cycle[wake].judged # None
               /\ Answered(snap.cycle[wake].judged)
      <4>1. snap.cycle[wake].judged \in Answers
        BY <1>10, <3>1, <1>d, <1>e, <2>3 DEF AskJev, Snapshots, Written
      <4> QED
        BY <1>10, <3>1, <4>1, <2>3, <1>a, AnsweredOK DEF AskJev
    <3>2. CASE Reason
      BY <1>10, <3>2, <2>3, <1>a, <1>c, AnsweredOK DEF AskJev, Answered
    <3>3. CASE Goto("record", "unsure") \/ Goto("call", None)
      BY <1>10, <3>3, <1>a, <1>c, <1>d, GotoOK DEF AskJev, Places, NoSnapshot
    <3> QED
      BY <1>10, <3>1, <3>2, <3>3 DEF AskJev
  <2> QED
    BY <2>2, <2>4
<1>11. CASE CallJev
  <2>1. cycle[wake] \in Written /\ cycle[wake].calls + 1 \in 0..2
    BY <1>11, <1>a, <1>e DEF CallJev, ServiceOK, PaidInv
  <2>2. cycle' = [cycle EXCEPT ![wake] = [cycle[wake] EXCEPT !["calls"] = cycle[wake].calls + 1]]
    BY <1>11, <1>a, <1>e, <2>1 DEF CallJev, ServiceOK, Written
  <2>3. cycle' \in [Wakes -> Written]
    BY <2>1, <2>2, <1>a, WriteTypes DEF ServiceOK
  <2>4. ServiceOK'
    BY <1>11, <2>3, <1>a DEF CallJev, ServiceOK
  <2>5. PICK x \in Candidates(snap) \cup Escapes \cup {"unsure"} : Then("record", x, {})
    BY <1>11 DEF CallJev
  <2>6. x \in Answers
    BY <1>11, <2>5, <1>d DEF CallJev, NoSnapshot, Candidates, Snapshots, Answers
  <2>7. PassOK' /\ faults' \in 0..MaxFaults
    BY <1>11, <2>5, <2>6, <1>a, ThenOK DEF CallJev, Places, NoSnapshot
  <2>8. CountsOK'
    BY <1>11, <2>7, <1>a DEF CallJev, CountsOK
  <2> QED
    BY <2>4, <2>7, <2>8
<1>12. CASE RecordJudgment
  <2>1. choice \in Answers
    BY <1>12 DEF RecordJudgment, ChoiceInv
  <2>2. cycle' \in [Wakes -> Written]
    BY <1>12, <1>a, <1>e, <2>1, WroteField, WriteTypes DEF RecordJudgment, ServiceOK
  <2>3. ServiceOK'
    BY <1>12, <2>2, <1>a DEF RecordJudgment, ServiceOK
  <2>4. PassOK'
    BY <1>12, <2>1, <1>a, AnsweredOK, LeaveOK DEF RecordJudgment, NoSnapshot
  <2>5. CountsOK'
    BY <1>12, <1>a, FaultOK DEF RecordJudgment, CountsOK
  <2> QED
    BY <2>3, <2>4, <2>5
<1>13. CASE CheckFresh
  <2>1. ServiceOK'
    BY <1>13, <1>a, ServiceKept DEF CheckFresh
  <2>2. CountsOK'
    BY <1>13, <1>a DEF CheckFresh, CountsOK
  <2>3. choice \in Answers
    BY <1>13, <1>c DEF CheckFresh, ChoiceInv
  <2>4. PassOK'
    BY <1>13, <1>a, <1>c, <1>d, <2>3, GotoOK DEF CheckFresh, Places, NoSnapshot
  <2> QED
    BY <2>1, <2>2, <2>4
<1>14. CASE CreateContribution
  <2>1. choice \in Workers /\ choice \in Answers
    BY <1>14, <1>c DEF CreateContribution, ChoiceInv
  <2>2. cycle' \in [Wakes -> Written]
    BY <1>14, <1>a, <1>e, <2>1, WroteField, WriteTypes DEF CreateContribution, ServiceOK
  <2>3. ServiceOK'
    BY <1>14, <2>2, <1>a DEF CreateContribution, ServiceOK
  <2>4. PassOK' /\ faults' \in 0..MaxFaults
    BY <1>14, <2>1, <1>a, ThenOK, NextWakeOK DEF CreateContribution, Places, NoSnapshot
  <2>5. CountsOK'
    BY <1>14, <2>4, <1>a DEF CreateContribution, CountsOK
  <2> QED
    BY <2>3, <2>4, <2>5
<1>15. CASE QueueAttempt
  <2>1. choice \in Workers
    BY <1>15 DEF QueueAttempt, ChoiceInv
  <2>2. cycle' \in [Wakes -> Written]
    BY <1>15, <1>a, <1>e, WroteField, WriteTypes DEF QueueAttempt, ServiceOK
  <2>3. live' \subseteq Tasks \X Workers /\ approved' \subseteq Tasks
    <3>1. UNCHANGED live \/ live' = live \cup {<<T, choice>>}
      BY <1>15 DEF QueueAttempt
    <3>2. UNCHANGED approved \/ approved' = approved \ {T}
      BY <1>15 DEF QueueAttempt
    <3>3. <<T, choice>> \in Tasks \X Workers
      BY <1>15, <2>1, <1>e DEF QueueAttempt
    <3> QED
      BY <3>1, <3>2, <3>3, <1>a DEF ServiceOK
  <2>4. ServiceOK'
    BY <1>15, <2>2, <2>3, <1>a DEF QueueAttempt, ServiceOK
  <2>5. PassOK' /\ faults' \in 0..MaxFaults
    <3>1. CASE Then("ack", None, {T})
      BY <1>15, <3>1, <1>a, <1>c, <1>e, ThenOK DEF QueueAttempt, Places, NoSnapshot
    <3>2. CASE Goto("ack", None) /\ UNCHANGED snap /\ (Fault \/ NoFault)
      BY <1>15, <3>2, <1>a, <1>c, <1>d, GotoOK, FaultOK DEF QueueAttempt, Places, NoSnapshot
    <3>3. CASE NextWake
      BY <1>15, <3>3, <1>a, NextWakeOK DEF QueueAttempt, NoSnapshot
    <3> QED
      BY <1>15, <3>1, <3>2, <3>3 DEF QueueAttempt
  <2>6. CountsOK'
    BY <1>15, <2>5, <1>a DEF QueueAttempt, CountsOK
  <2> QED
    BY <2>4, <2>5, <2>6
<1>16. CASE Block
  <2>1. cycle' \in [Wakes -> Written]
    BY <1>16, <1>a, <1>e, WroteField, WriteTypes DEF Block, ServiceOK
  <2>2. /\ status' \in [Tasks -> Statuses]
        /\ why' \in [Tasks -> Kinds \cup {"dep", None}]
        /\ \A u \in Tasks : (status'[u] = "blocked") <=> (why'[u] # None)
        /\ told' \cup noted' \subseteq Tasks
    <3>1. CASE SetStatus(T, "blocked", Kind)
      <4>1. "blocked" \in Statuses /\ Kind \in Kinds \cup {"dep", None} /\ Kind # None
        BY NoneAssumption DEF Statuses, Kinds, Kind
      <4>2. T \in Tasks
        BY <1>16, <1>e DEF Block
      <4> QED
        BY <4>1, <4>2, <3>1, <1>a, SetStatusOK
    <3>2. CASE UNCHANGED <<status, why, told, noted>>
      BY <3>2, <1>a DEF ServiceOK
    <3> QED
      BY <1>16, <3>1, <3>2 DEF Block
  <2>3. ServiceOK'
    BY <1>16, <2>1, <2>2, <1>a DEF Block, ServiceOK
  <2>4. PassOK' /\ faults' \in 0..MaxFaults
    BY <1>16, <1>a, <1>c, <1>e, ThenOK, NextWakeOK DEF Block, Places, NoSnapshot
  <2>5. CountsOK'
    BY <1>16, <2>4, <1>a DEF Block, CountsOK
  <2> QED
    BY <2>3, <2>4, <2>5
<1>17. CASE Notice
  <2>1. told' \cup noted' \subseteq Tasks
    BY <1>17, <1>a, <1>e DEF Notice, Recorded, NotRecorded, ServiceOK
  <2>2. ServiceOK'
    BY <1>17, <2>1, <1>a DEF Notice, ServiceOK, teletraan
  <2>3. PassOK' /\ faults' \in 0..MaxFaults
    <3>1. CASE Then("ack", None, {})
      BY <1>17, <3>1, <1>a, <1>c, ThenOK DEF Notice, Places, NoSnapshot
    <3>2. CASE UNCHANGED snap /\ Goto("ack", None) /\ (Fault \/ NoFault)
      BY <1>17, <3>2, <1>a, <1>c, <1>d, GotoOK, FaultOK DEF Notice, Places, NoSnapshot
    <3>3. CASE Fault /\ Leave("idle")
      BY <1>17, <3>3, <1>a, <1>c, LeaveOK, FaultOK DEF Notice, Places, NoSnapshot
    <3> QED
      BY <1>17, <3>1, <3>2, <3>3 DEF Notice, NotRecorded
  <2>4. CountsOK'
    BY <1>17, <2>3, <1>a DEF Notice, CountsOK
  <2> QED
    BY <2>2, <2>3, <2>4
<1>18. CASE ResumeTask
  <2>1. cycle' \in [Wakes -> Written]
    BY <1>18, <1>a, <1>e, WroteField, WriteTypes DEF ResumeTask, ServiceOK
  <2>2. /\ status' \in [Tasks -> Statuses]
        /\ why' \in [Tasks -> Kinds \cup {"dep", None}]
        /\ \A u \in Tasks : (status'[u] = "blocked") <=> (why'[u] # None)
        /\ told' \cup noted' \subseteq Tasks
    <3>1. CASE SetStatus(T, "open", None)
      <4>1. "open" \in Statuses /\ None \in Kinds \cup {"dep", None}
        BY NoneAssumption DEF Statuses, Kinds
      <4>2. T \in Tasks
        BY <1>18, <1>e DEF ResumeTask
      <4> QED
        BY <4>1, <4>2, <3>1, <1>a, SetStatusOK
    <3>2. CASE UNCHANGED <<status, why, told, noted>>
      BY <3>2, <1>a DEF ServiceOK
    <3> QED
      BY <1>18, <3>1, <3>2 DEF ResumeTask
  <2>3. pending' \cup again' \subseteq Wakes
    <3>1. CASE UNCHANGED <<pending, again>>
      BY <3>1, <1>a DEF ServiceOK
    <3>2. CASE Raise({<<T, "ready">>})
      <4>1. {<<T, "ready">>} \in SUBSET Wakes
        BY <1>18, <1>e DEF ResumeTask, Wakes, Reasons
      <4> QED
        BY <3>2, <4>1, <1>a, RaiseOK
    <3> QED
      BY <1>18, <3>1, <3>2 DEF ResumeTask
  <2>4. ServiceOK'
    BY <1>18, <2>1, <2>2, <2>3, <1>a DEF ResumeTask, ServiceOK
  <2>5. PassOK' /\ faults' \in 0..MaxFaults
    BY <1>18, <1>a, <1>c, <1>e, ThenOK, NextWakeOK DEF ResumeTask, Places, NoSnapshot
  <2>6. CountsOK'
    BY <1>18, <2>5, <1>a DEF ResumeTask, CountsOK
  <2> QED
    BY <2>4, <2>5, <2>6
<1>19. CASE Ack
  <2>1. cycle' \in [Wakes -> Written]
    <3>1. Nothing \in Written
      BY DEF Nothing, Written
    <3>2. UNCHANGED cycle \/ cycle' = [cycle EXCEPT ![wake] = Nothing]
      BY <1>19 DEF Ack
    <3> QED
      BY <3>1, <3>2, <1>a DEF ServiceOK
  <2>2. ServiceOK'
    BY <1>19, <2>1, <1>a DEF Ack, ServiceOK
  <2>3. PassOK' /\ faults' \in 0..MaxFaults
    BY <1>19, <1>a, LeaveOK, FaultOK, NextWakeOK DEF Ack, NoSnapshot
  <2>4. CountsOK'
    BY <1>19, <2>3, <1>a DEF Ack, CountsOK
  <2> QED
    BY <2>2, <2>3, <2>4
<1>20. CASE ResumeApproved
  <2>1. /\ status' \in [Tasks -> Statuses]
        /\ why' \in [Tasks -> Kinds \cup {"dep", None}]
        /\ \A u \in Tasks : (status'[u] = "blocked") <=> (why'[u] # None)
        /\ told' \cup noted' \subseteq Tasks
    <3>1. CASE SetStatus(T, "open", None)
      <4>1. "open" \in Statuses /\ None \in Kinds \cup {"dep", None}
        BY NoneAssumption DEF Statuses, Kinds
      <4>2. T \in Tasks
        BY <1>20, <1>e DEF ResumeApproved
      <4> QED
        BY <4>1, <4>2, <3>1, <1>a, SetStatusOK
    <3>2. CASE UNCHANGED <<status, why, told, noted>>
      BY <3>2, <1>a DEF ServiceOK
    <3> QED
      BY <1>20, <3>1, <3>2 DEF ResumeApproved
  <2>2. pending' \cup again' \subseteq Wakes
    <3>1. CASE UNCHANGED <<pending, again>>
      BY <3>1, <1>a DEF ServiceOK
    <3>2. CASE Raise({<<T, "ready">>})
      <4>1. {<<T, "ready">>} \in SUBSET Wakes
        BY <1>20, <1>e DEF ResumeApproved, Wakes, Reasons
      <4> QED
        BY <3>2, <4>1, <1>a, RaiseOK
    <3> QED
      BY <1>20, <3>1, <3>2 DEF ResumeApproved
  <2>3. ServiceOK'
    BY <1>20, <2>1, <2>2, <1>a DEF ResumeApproved, ServiceOK
  <2>4. PassOK' /\ CountsOK'
    BY <1>20, <1>a, LeaveOK DEF ResumeApproved, CountsOK
  <2> QED
    BY <2>3, <2>4
<1>21. CASE Abort
  <2>1. ServiceOK'
    BY <1>21, <1>a, ServiceKept DEF Abort
  <2>2. PassOK' /\ CountsOK'
    BY <1>21, <1>a, LeaveOK, FaultOK DEF Abort, CountsOK
  <2> QED
    BY <2>1, <2>2
<1>22. CASE Rejected
  <2>1. ServiceOK'
    BY <1>22, <1>a, ServiceKept DEF Rejected
  <2>2. PassOK' /\ CountsOK'
    BY <1>22, <1>a, LeaveOK, FaultOK DEF Rejected, CountsOK, NoSnapshot
  <2> QED
    BY <2>1, <2>2
<1>23. ASSUME NEW t \in Tasks, TapApprove(t) PROVE Goal
  <2>1. ServiceOK'
    BY <1>23, <1>a DEF TapApprove, ServiceOK
  <2>2. <<t, "ready">> \in Wakes
    BY DEF Wakes, Reasons
  <2>3. PassOK'
    BY <1>23, <2>2, <1>a DEF TapApprove, PassOK, Places, NoSnapshot
  <2>4. CountsOK'
    BY <1>23, <1>a, FaultOK DEF TapApprove, CountsOK
  <2> QED
    BY <2>1, <2>3, <2>4
<1>24. ASSUME NEW t \in Tasks, SweepRaises(t) PROVE Goal
  <2>1. {<<t, "unassigned">>} \in SUBSET Wakes /\ {<<t, "unblock">>} \in SUBSET Wakes
    BY DEF Wakes, Reasons
  <2>2. pending' \cup again' \subseteq Wakes
    BY <1>24, <2>1, <1>a, RaiseOK DEF SweepRaises
  <2>3. ServiceOK'
    BY <1>24, <2>2, <1>a DEF SweepRaises, ServiceOK
  <2>4. PassOK' /\ CountsOK'
    BY <1>24, <1>a DEF SweepRaises, pass, PassOK, CountsOK
  <2> QED
    BY <2>3, <2>4
<1>25. ASSUME NEW t \in Tasks, SweepTells(t) PROVE Goal
  <2>1. ServiceOK'
    BY <1>25, <1>a DEF SweepTells, Recorded, NotRecorded, ServiceOK, teletraan
  <2>2. PassOK' /\ CountsOK'
    BY <1>25, <1>a, FaultOK DEF SweepTells, NotRecorded, pass, PassOK, CountsOK
  <2> QED
    BY <2>1, <2>2
<1>26. CASE NextWindow
  <2>1. ServiceOK'
    BY <1>26, <1>a, ServiceKept DEF NextWindow
  <2>2. PassOK' /\ CountsOK'
    BY <1>26, <1>a, LimitsAssumption DEF NextWindow, pass, PassOK, CountsOK
  <2> QED
    BY <2>1, <2>2
<1>p. ASSUME Outside, at \notin NoSnapshot => snap' \in Snapshots, moves' \in 0..MaxMoves
      PROVE PassOK' /\ CountsOK'
  BY <1>p, <1>a, PassKept DEF Outside, CountsOK
<1>m. ASSUME NEW name, Move(name) PROVE moves' \in 0..MaxMoves
  BY <1>m, <1>a, LimitsAssumption DEF Move, CountsOK
<1>t. ASSUME NEW ts \in SUBSET Tasks, Touch(ts) PROVE at \notin NoSnapshot => snap' \in Snapshots
  BY <1>t, <1>d, OlderSnapshot
<1>27. ASSUME NEW t \in Tasks, NEW a \in Workers, AttemptEnds(t, a) PROVE Goal
  <2>1. {<<t, "result">>} \in SUBSET Wakes /\ {<<t, "stopped">>} \in SUBSET Wakes
    BY DEF Wakes, Reasons
  <2>2. pending' \cup again' \subseteq Wakes
    BY <1>27, <2>1, <1>a, RaiseOK DEF AttemptEnds
  <2>3. ServiceOK'
    BY <1>27, <2>2, <1>a DEF AttemptEnds, ServiceOK
  <2>4. moves' \in 0..MaxMoves
    BY <1>27, <1>a DEF AttemptEnds, CountsOK
  <2> QED
    BY <1>27, <2>3, <2>4, <1>p, <1>d DEF AttemptEnds
<1>28. ASSUME NEW t \in Tasks, NEW a \in Workers, OwnerStarts(t, a) PROVE Goal
  <2>1. ServiceOK'
    BY <1>28, <1>a DEF OwnerStarts, ServiceOK
  <2> QED
    BY <1>28, <2>1, <1>p, <1>m, <1>t DEF OwnerStarts
<1>29. ASSUME NEW t \in Tasks, OwnerCompletes(t) PROVE Goal
  <2>1. {<<t, "done">>} \in SUBSET Wakes
    BY DEF Wakes, Reasons
  <2>2. pending' \cup again' \subseteq Wakes
    BY <1>29, <2>1, <1>a, RaiseOK DEF OwnerCompletes
  <2>3. /\ status' \in [Tasks -> Statuses]
        /\ why' \in [Tasks -> Kinds \cup {"dep", None}]
        /\ \A u \in Tasks : (status'[u] = "blocked") <=> (why'[u] # None)
        /\ told' \cup noted' \subseteq Tasks
    BY <1>29, <1>a, SetStatusOK DEF OwnerCompletes, Statuses
  <2>4. ServiceOK'
    BY <1>29, <2>2, <2>3, <1>a DEF OwnerCompletes, ServiceOK
  <2>5. moves' \in 0..MaxMoves
    BY <1>29, <1>a DEF OwnerCompletes, CountsOK
  <2> QED
    BY <1>29, <2>4, <2>5, <1>p, <1>t DEF OwnerCompletes
<1>30. ASSUME NEW t \in Tasks, OwnerAsksRework(t) PROVE Goal
  <2>1. {<<t, "rework">>} \in SUBSET Wakes
    BY DEF Wakes, Reasons
  <2>2. pending' \cup again' \subseteq Wakes
    BY <1>30, <2>1, <1>a, RaiseOK DEF OwnerAsksRework
  <2>3. ServiceOK'
    BY <1>30, <2>2, <1>a DEF OwnerAsksRework, ServiceOK
  <2> QED
    BY <1>30, <2>3, <1>p, <1>m, <1>d DEF OwnerAsksRework
<1>31. ASSUME NEW t \in Tasks, Rescopes(t) PROVE Goal
  <2>1. {<<t, "ready">>} \in SUBSET Wakes
    BY DEF Wakes, Reasons
  <2>2. pending' \cup again' \subseteq Wakes
    BY <1>31, <2>1, <1>a, RaiseOK DEF Rescopes
  <2>3. ServiceOK'
    BY <1>31, <2>2, <1>a DEF Rescopes, ServiceOK
  <2>4. at \notin NoSnapshot => snap' \in Snapshots
    BY <1>31, <1>d DEF Rescopes, Snapshots
  <2> QED
    BY <1>31, <2>3, <2>4, <1>p, <1>m DEF Rescopes
<1>32. ASSUME NEW t \in Tasks, NEW name, NEW s \in Statuses, NEW reason \in {"dep", None},
              s = "blocked" <=> reason = "dep", Operates(t, name, s, reason)
       PROVE Goal
  <2>1. {<<t, "ready">>} \in SUBSET Wakes
    BY DEF Wakes, Reasons
  <2>2. pending' \cup again' \subseteq Wakes
    BY <1>32, <2>1, <1>a, RaiseOK DEF Operates, ServiceOK
  <2>3. reason \in Kinds \cup {"dep", None} /\ (s = "blocked" <=> reason # None)
    BY <1>32, NoneAssumption
  <2>4. /\ status' \in [Tasks -> Statuses]
        /\ why' \in [Tasks -> Kinds \cup {"dep", None}]
        /\ \A u \in Tasks : (status'[u] = "blocked") <=> (why'[u] # None)
        /\ told' \cup noted' \subseteq Tasks
    BY <1>32, <2>3, <1>a, SetStatusOK DEF Operates
  <2>5. ServiceOK'
    BY <1>32, <2>2, <2>4, <1>a DEF Operates, ServiceOK
  <2> QED
    BY <1>32, <2>5, <1>p, <1>m, <1>t DEF Operates
<1>33. ASSUME NEW a \in Workers, ChangesMember(a) PROVE Goal
  <2>1. ServiceOK'
    BY <1>33, <1>a DEF ChangesMember, ServiceOK
  <2> QED
    BY <1>33, <2>1, <1>p, <1>m, <1>d DEF ChangesMember
<1>34. CASE PausesProject
  <2>1. {t \in Tasks : status[t] = "open"} \X {"unassigned"} \in SUBSET Wakes
    BY DEF Wakes, Reasons
  <2>2. pending' \cup again' \subseteq Wakes
    BY <1>34, <2>1, <1>a, RaiseOK DEF PausesProject, ServiceOK
  <2>3. ServiceOK'
    BY <1>34, <2>2, <1>a DEF PausesProject, ServiceOK
  <2> QED
    BY <1>34, <2>3, <1>p, <1>m, <1>d DEF PausesProject
<1>35. CASE UNCHANGED vars
  BY <1>35, <1>a DEF vars, teletraan, pass, ServiceOK, PassOK, CountsOK
<1>q. {"blocked", "paused", "cancelled", "open"} \subseteq Statuses
  BY DEF Statuses
<1>36. CASE Pass
  BY <1>36, <1>2, <1>3, <1>4, <1>5, <1>6, <1>7, <1>8, <1>9, <1>10, <1>11, <1>12, <1>13, <1>14,
     <1>15, <1>16, <1>17, <1>18, <1>19, <1>20 DEF Pass
<1>37. CASE People
  BY <1>37, <1>q, NoneAssumption, <1>27, <1>28, <1>29, <1>30, <1>31, <1>32, <1>33, <1>34
     DEF People
<1>38. CASE \E t \in Tasks : TapApprove(t) \/ SweepRaises(t) \/ SweepTells(t)
  BY <1>38, <1>23, <1>24, <1>25
<1> QED
  BY <1>1, <1>21, <1>22, <1>26, <1>35, <1>36, <1>37, <1>38 DEF Next

-----------------------------------------------------------------------------
(* Everybody but the pass, and what the pass does with its snapshot *)

Bystander ==
    \/ \E t \in Tasks : SweepRaises(t) \/ SweepTells(t)
    \/ NextWindow
    \/ People
    \/ UNCHANGED vars

\* What bystanders leave as it is.  Whoever of them starts to work on a task moves it.
StandsBy ==
    /\ UNCHANGED <<todo, at, wake, choice, cycle>>
    /\ at \notin NoSnapshot =>
        /\ snap'.cycle = snap.cycle
        /\ snap'.live = snap.live
        /\ snap.moved \subseteq snap'.moved
        /\ \A t \in Tasks \ snap'.moved, a \in Workers : <<t, a>> \in live' => <<t, a>> \in live

\* Bystanders do so.
LEMMA BystandersStandBy == ASSUME TypeOK, Bystander PROVE StandsBy
<1>1. at \notin NoSnapshot => snap \in Snapshots
  BY DEF TypeOK
<1>2. ASSUME UNCHANGED <<todo, at, wake, choice, cycle, snap>>, live' \subseteq live
      PROVE  StandsBy
  BY <1>2 DEF StandsBy
<1>3. ASSUME NEW ts \in SUBSET Tasks, Touch(ts), UNCHANGED <<todo, at, wake, choice, cycle>>,
             \A t \in Tasks \ ts, a \in Workers : <<t, a>> \in live' => <<t, a>> \in live
      PROVE  StandsBy
  BY <1>1, <1>3, OlderSnapshot DEF StandsBy
<1>4. ASSUME NEW t \in Tasks, SweepRaises(t) \/ SweepTells(t) PROVE StandsBy
  BY <1>2, <1>4 DEF SweepRaises, SweepTells, teletraan, pass
<1>5. CASE NextWindow \/ UNCHANGED vars
  BY <1>2, <1>5 DEF NextWindow, vars, teletraan, pass
<1>6. ASSUME NEW t \in Tasks, NEW a \in Workers, AttemptEnds(t, a) PROVE StandsBy
  BY <1>2, <1>6 DEF AttemptEnds, Outside
<1>7. ASSUME NEW t \in Tasks, NEW a \in Workers, OwnerStarts(t, a) PROVE StandsBy
  BY <1>3, <1>7 DEF OwnerStarts, Outside
<1>8. ASSUME NEW t \in Tasks, OwnerCompletes(t) PROVE StandsBy
  BY <1>3, <1>8 DEF OwnerCompletes, Outside
<1>9. ASSUME NEW t \in Tasks, OwnerAsksRework(t) PROVE StandsBy
  BY <1>2, <1>9 DEF OwnerAsksRework, Outside
<1>10. ASSUME NEW t \in Tasks, Rescopes(t) PROVE StandsBy
  BY <1>1, <1>10 DEF Rescopes, Outside, StandsBy, Snapshots
<1>11. ASSUME NEW t \in Tasks, NEW name, NEW s, NEW reason, Operates(t, name, s, reason)
       PROVE  StandsBy
  BY <1>3, <1>11 DEF Operates, Outside
<1>12. ASSUME NEW a \in Workers, ChangesMember(a) PROVE StandsBy
  BY <1>2, <1>12 DEF ChangesMember, Outside
<1>13. CASE PausesProject
  BY <1>2, <1>13 DEF PausesProject, Outside
<1>14. CASE People
  BY <1>14, <1>6, <1>7, <1>8, <1>9, <1>10, <1>11, <1>12, <1>13 DEF People
<1> QED
  BY <1>4, <1>5, <1>14 DEF Bystander

\* Such a step keeps the four other parts of the invariant.
LEMMA StandByKeeps ==
  ASSUME IInv, StandsBy
  PROVE  ChoiceInv' /\ PaidInv' /\ WorkerInv' /\ LiveInv'
<1>1. ChoiceInv' /\ PaidInv'
  BY DEF IInv, StandsBy, ChoiceInv, PaidInv
<1>2. WorkerInv'
  BY DEF IInv, StandsBy, WorkerInv, Deciding
<1>3. LiveInv'
  <2>1. SUFFICES ASSUME at \notin NoSnapshot
                 PROVE  /\ \A t \in Tasks \ snap'.moved, a \in Workers :
                               <<t, a>> \in live' => <<t, a>> \in snap'.live
                        /\ at \in Deciding \cup {"block"} =>
                               \A a \in Workers : <<T, a>> \notin snap'.live
    BY DEF LiveInv, StandsBy, Working, T, Deciding
  <2> QED
    BY <2>1 DEF IInv, LiveInv, StandsBy, Working
<1> QED
  BY <1>1, <1>2, <1>3

\* A turn uses a worker, or an answer of Jev, only where it has one.
LEMMA ChoiceStep == IInv /\ [Next]_vars => ChoiceInv'
<1> SUFFICES ASSUME IInv, [Next]_vars PROVE ChoiceInv'
  OBVIOUS
<1>1. CASE PassStart
  BY <1>1 DEF PassStart, ChoiceInv, IInv
<1>2. CASE TakeSnapshot
  BY <1>2 DEF TakeSnapshot, Goto, ChoiceInv, IInv, teletraan
<1>3. ASSUME NEW w \in Wakes, Turn(w) PROVE ChoiceInv'
  BY <1>3 DEF Turn, ChoiceInv, IInv
<1>4. CASE PassEnd
  BY <1>4 DEF PassEnd, Leave, ChoiceInv, IInv, teletraan
<1>5. CASE Noop
  BY <1>5 DEF Noop, Goto, ChoiceInv, IInv, teletraan
<1>6. CASE Blocked
  BY <1>6 DEF Blocked, Goto, ChoiceInv, IInv, teletraan
<1>7. CASE AskReserved
  BY <1>7 DEF AskReserved, Goto, ChoiceInv, IInv, teletraan
<1>8. CASE ResumeChoice
  <2>1. Prior(wake) \in Workers
    BY <1>8 DEF ResumeChoice, Prior, IInv, TypeOK, Snapshots, Written, NoSnapshot
  <2> QED
    BY <1>8, <2>1 DEF ResumeChoice, Goto, ChoiceInv
<1>9. CASE Consider
  BY <1>9 DEF Consider, Goto, Leave, ChoiceInv, IInv, teletraan
<1>10. CASE AskJev
  <2>1. Candidates(snap) \subseteq Workers /\ snap.cycle[wake].judged \in Answers \cup {None}
    BY <1>10 DEF AskJev, Candidates, IInv, TypeOK, Snapshots, Written, NoSnapshot
  <2> QED
    BY <1>10, <2>1 DEF AskJev, Answered, Reason, Follow, Goto, ChoiceInv, Answers
<1>11. CASE CallJev
  <2>1. Candidates(snap) \subseteq Workers
    BY <1>11 DEF CallJev, Candidates, IInv, TypeOK, Snapshots, NoSnapshot
  <2> QED
    BY <1>11, <2>1 DEF CallJev, Then, Goto, Leave, ChoiceInv, Answers
<1>12. CASE RecordJudgment
  <2>1. Candidates(snap) \subseteq Workers
    BY <1>12 DEF RecordJudgment, Candidates, IInv, TypeOK, Snapshots, NoSnapshot
  <2> QED
    BY <1>12, <2>1 DEF RecordJudgment, Answered, Reason, Follow, Goto, Leave, ChoiceInv
<1>13. CASE CheckFresh
  BY <1>13 DEF CheckFresh, Goto, ChoiceInv, IInv, teletraan
<1>14. CASE CreateContribution
  BY <1>14 DEF CreateContribution, Goto, Then, NextWake, Leave, ChoiceInv, IInv
<1>15. CASE QueueAttempt
  BY <1>15 DEF QueueAttempt, Goto, Then, NextWake, Leave, ChoiceInv, IInv
<1>16. CASE Block
  BY <1>16 DEF Block, Goto, Then, NextWake, Leave, ChoiceInv, IInv
<1>17. CASE Notice
  BY <1>17 DEF Notice, Goto, Then, Leave, ChoiceInv, IInv, teletraan
<1>18. CASE ResumeTask
  BY <1>18 DEF ResumeTask, Goto, Then, NextWake, Leave, ChoiceInv, IInv
<1>19. CASE Ack
  BY <1>19 DEF Ack, NextWake, Leave, ChoiceInv, IInv
<1>20. CASE ResumeApproved
  BY <1>20 DEF ResumeApproved, Leave, ChoiceInv, IInv
<1>21. CASE Abort
  BY <1>21 DEF Abort, Leave, ChoiceInv, IInv, teletraan
<1>22. CASE Rejected
  BY <1>22 DEF Rejected, Leave, ChoiceInv, IInv, teletraan
<1>23. ASSUME NEW t \in Tasks, TapApprove(t) PROVE ChoiceInv'
  BY <1>23 DEF TapApprove, ChoiceInv, IInv
<1>24. CASE Bystander
  BY <1>24, BystandersStandBy, StandByKeeps DEF IInv
<1>25. CASE Pass
  BY <1>25, <1>2, <1>3, <1>4, <1>5, <1>6, <1>7, <1>8, <1>9, <1>10, <1>11, <1>12, <1>13, <1>14,
     <1>15, <1>16, <1>17, <1>18, <1>19, <1>20 DEF Pass
<1> QED
  BY <1>1, <1>21, <1>22, <1>23, <1>24, <1>25 DEF Next, Bystander

\* No step pays a second time in a cycle.
LEMMA PaidStep == IInv /\ [Next]_vars => PaidInv'
<1> SUFFICES ASSUME IInv, [Next]_vars PROVE PaidInv'
  OBVIOUS
<1>1. CASE PassStart
  <2>1. \A w \in Wakes : cycle'[w] = cycle[w] \/ cycle'[w] = Nothing
    BY <1>1 DEF PassStart
  <2> QED
    BY <1>1, <2>1 DEF PassStart, PaidInv, IInv, Nothing
<1>2. CASE TakeSnapshot
  BY <1>2 DEF TakeSnapshot, Goto, PaidInv, IInv, teletraan
<1>3. ASSUME NEW w \in Wakes, Turn(w) PROVE PaidInv'
  BY <1>3 DEF Turn, PaidInv, IInv
<1>4. CASE PassEnd
  BY <1>4 DEF PassEnd, Leave, PaidInv, IInv, teletraan
<1>5. CASE Noop
  BY <1>5 DEF Noop, Goto, PaidInv, IInv, teletraan
<1>6. CASE Blocked
  BY <1>6 DEF Blocked, Goto, PaidInv, IInv, teletraan
<1>7. CASE AskReserved
  BY <1>7 DEF AskReserved, Goto, PaidInv, IInv, teletraan
<1>8. CASE ResumeChoice
  BY <1>8 DEF ResumeChoice, Goto, PaidInv, IInv, teletraan
<1>9. CASE Consider
  BY <1>9 DEF Consider, Goto, Leave, PaidInv, IInv, teletraan
<1>10. CASE AskJev
  <2>1. wake \in Wakes /\ cycle \in [Wakes -> Written]
    BY <1>10 DEF AskJev, IInv, TypeOK
  <2>2. CASE UNCHANGED cycle /\ Goto("record", "unsure")
    BY <2>2 DEF PaidInv, IInv, Goto
  <2>3. CASE UNCHANGED cycle /\ at' # "call"
    BY <2>3 DEF PaidInv, IInv
  <2>4. CASE /\ Wrote("inflight", TRUE)
             /\ IF Marked(wake) THEN Goto("record", "unsure") ELSE Goto("call", None)
    <3>1. /\ \A w \in Wakes : cycle'[w].calls = cycle[w].calls
          /\ \A w \in Wakes : cycle[w].inflight => cycle'[w].inflight
          /\ cycle'[wake].inflight
      BY <2>1, <2>4 DEF Wrote, Written
    <3> QED
      BY <2>1, <2>4, <3>1 DEF PaidInv, IInv, Goto, Marked
  <2>5. CASE Reason /\ UNCHANGED cycle
    BY <2>3, <2>5 DEF Reason, Follow, Goto
  <2>6. CASE Answered(snap.cycle[wake].judged) /\ UNCHANGED cycle
    BY <2>3, <2>6 DEF Answered, Reason, Follow, Goto
  <2> QED
    BY <1>10, <2>4, <2>5, <2>6 DEF AskJev
<1>11. CASE CallJev
  <2>1. wake \in Wakes /\ cycle \in [Wakes -> Written]
    BY <1>11 DEF CallJev, IInv, TypeOK
  <2>2. /\ \A w \in Wakes \ {wake} : cycle'[w] = cycle[w]
        /\ cycle'[wake].inflight = cycle[wake].inflight
        /\ cycle'[wake].calls = cycle[wake].calls + 1
    BY <1>11, <2>1 DEF CallJev, Written
  <2>3. at' # "call"
    BY <1>11 DEF CallJev, Then, Goto, Leave
  <2> QED
    BY <1>11, <2>1, <2>2, <2>3 DEF CallJev, PaidInv, IInv
<1>12. CASE RecordJudgment
  <2>1. \A w \in Wakes : /\ cycle'[w].calls = cycle[w].calls
                        /\ cycle'[w].inflight = cycle[w].inflight
    BY <1>12 DEF RecordJudgment, Wrote, IInv, TypeOK, Written
  <2>2. at' # "call"
    BY <1>12 DEF RecordJudgment, Goto, Leave, Answered, Reason, Follow
  <2> QED
    BY <2>1, <2>2 DEF PaidInv, IInv
<1>13. CASE CheckFresh
  BY <1>13 DEF CheckFresh, Goto, PaidInv, IInv, teletraan
<1>14. CASE CreateContribution
  <2>1. \A w \in Wakes : /\ cycle'[w].calls = cycle[w].calls
                        /\ cycle'[w].inflight = cycle[w].inflight
    BY <1>14 DEF CreateContribution, Wrote, IInv, TypeOK, Written
  <2>2. at' # "call"
    BY <1>14 DEF CreateContribution, Goto, Then, NextWake, Leave
  <2> QED
    BY <2>1, <2>2 DEF PaidInv, IInv
<1>15. CASE QueueAttempt
  <2>1. \A w \in Wakes : /\ cycle'[w].calls = cycle[w].calls
                        /\ cycle'[w].inflight = cycle[w].inflight
    BY <1>15 DEF QueueAttempt, Wrote, IInv, TypeOK, Written
  <2>2. at' # "call"
    BY <1>15 DEF QueueAttempt, Goto, Then, NextWake, Leave
  <2> QED
    BY <2>1, <2>2 DEF PaidInv, IInv
<1>16. CASE Block
  <2>1. \A w \in Wakes : /\ cycle'[w].calls = cycle[w].calls
                        /\ cycle'[w].inflight = cycle[w].inflight
    BY <1>16 DEF Block, Wrote, IInv, TypeOK, Written
  <2>2. at' # "call"
    BY <1>16 DEF Block, Goto, Then, NextWake, Leave
  <2> QED
    BY <2>1, <2>2 DEF PaidInv, IInv
<1>17. CASE Notice
  BY <1>17 DEF Notice, Goto, Then, Leave, PaidInv, IInv, teletraan
<1>18. CASE ResumeTask
  <2>1. \A w \in Wakes : /\ cycle'[w].calls = cycle[w].calls
                        /\ cycle'[w].inflight = cycle[w].inflight
    BY <1>18 DEF ResumeTask, Wrote, IInv, TypeOK, Written
  <2>2. at' # "call"
    BY <1>18 DEF ResumeTask, Goto, Then, NextWake, Leave
  <2> QED
    BY <2>1, <2>2 DEF PaidInv, IInv
<1>19. CASE Ack
  <2>1. \A w \in Wakes : cycle'[w] = cycle[w] \/ cycle'[w] = Nothing
    BY <1>19 DEF Ack, IInv, TypeOK
  <2> QED
    BY <1>19, <2>1 DEF Ack, NextWake, Leave, PaidInv, IInv, Nothing
<1>20. CASE ResumeApproved
  BY <1>20 DEF ResumeApproved, Leave, PaidInv, IInv
<1>21. CASE Abort
  BY <1>21 DEF Abort, Leave, PaidInv, IInv, teletraan
<1>22. CASE Rejected
  BY <1>22 DEF Rejected, Leave, PaidInv, IInv, teletraan
<1>23. ASSUME NEW t \in Tasks, TapApprove(t) PROVE PaidInv'
  BY <1>23 DEF TapApprove, PaidInv, IInv
<1>24. CASE Bystander
  BY <1>24, BystandersStandBy, StandByKeeps DEF IInv
<1>25. CASE Pass
  BY <1>25, <1>2, <1>3, <1>4, <1>5, <1>6, <1>7, <1>8, <1>9, <1>10, <1>11, <1>12, <1>13, <1>14,
     <1>15, <1>16, <1>17, <1>18, <1>19, <1>20 DEF Pass
<1> QED
  BY <1>1, <1>21, <1>22, <1>23, <1>24, <1>25 DEF Next, Bystander

\* No step loses sight of the worker a cycle has.
LEMMA WorkerStep == IInv /\ [Next]_vars => WorkerInv'
<1> SUFFICES ASSUME IInv, [Next]_vars PROVE WorkerInv'
  OBVIOUS
<1>1. CASE PassStart
  BY <1>1 DEF PassStart, WorkerInv, IInv, NoSnapshot, Deciding
<1>2. CASE TakeSnapshot
  BY <1>2 DEF TakeSnapshot, Now, Goto, WorkerInv, NoSnapshot, Deciding, teletraan, IInv, TypeOK
<1>3. ASSUME NEW w \in Wakes, Turn(w) PROVE WorkerInv'
  BY <1>3 DEF Turn, WorkerInv, IInv, NoSnapshot, Deciding
<1>4. CASE PassEnd
  BY <1>4 DEF PassEnd, Leave, WorkerInv, IInv, teletraan, NoSnapshot, Deciding
<1>5. CASE Noop
  BY <1>5 DEF Noop, Goto, WorkerInv, IInv, teletraan, NoSnapshot, Deciding
<1>6. CASE Blocked
  BY <1>6 DEF Blocked, Goto, WorkerInv, IInv, teletraan, NoSnapshot, Deciding
<1>7. CASE AskReserved
  BY <1>7 DEF AskReserved, Goto, WorkerInv, IInv, teletraan, NoSnapshot, Deciding
<1>8. CASE ResumeChoice
  BY <1>8 DEF ResumeChoice, Goto, WorkerInv, IInv, teletraan, NoSnapshot, Deciding
<1>9. CASE Consider
  BY <1>9 DEF Consider, Prior, Goto, Leave, WorkerInv, IInv, NoSnapshot, Deciding, teletraan
<1>10. CASE AskJev
  <2>1. \A w \in Wakes : cycle'[w].worker = cycle[w].worker
    BY <1>10 DEF AskJev, Wrote, IInv, TypeOK, Written
  <2>2. at' \in NoSnapshot \/ snap'.cycle = snap.cycle
    BY <1>10, OlderSnapshot, TaskOfWake DEF AskJev, IInv, TypeOK, Goto, NoSnapshot
  <2>3. wake \in Wakes /\ todo \subseteq Wakes
    BY <1>10 DEF AskJev, IInv, TypeOK
  <2>4. /\ at' \in NoSnapshot \/ UNCHANGED todo
        /\ at' \in NoSnapshot \cup {"turn"} \/ UNCHANGED wake
        /\ at' # "verdict"
        /\ at' \in Deciding => at \in Deciding
    BY <1>10 DEF AskJev, Goto, Answered, Reason, Follow, NoSnapshot, Deciding
  <2>5. at \notin NoSnapshot \cup {"turn"}
    BY <1>10 DEF AskJev, NoSnapshot
  <2> QED
    BY <2>1, <2>2, <2>3, <2>4, <2>5 DEF WorkerInv, IInv, NoSnapshot, Deciding
<1>11. CASE CallJev
  <2>1. \A w \in Wakes : cycle'[w].worker = cycle[w].worker
    BY <1>11 DEF CallJev, IInv, TypeOK, Written
  <2>2. at' \in NoSnapshot \/ snap'.cycle = snap.cycle
    BY <1>11, OlderSnapshot, TaskOfWake DEF CallJev, IInv, TypeOK, Goto, Then, Leave, NoSnapshot
  <2>3. wake \in Wakes /\ todo \subseteq Wakes
    BY <1>11 DEF CallJev, IInv, TypeOK
  <2>4. /\ at' \in NoSnapshot \/ UNCHANGED todo
        /\ at' \in NoSnapshot \cup {"turn"} \/ UNCHANGED wake
        /\ at' # "verdict"
        /\ at' \in Deciding => at \in Deciding
    BY <1>11 DEF CallJev, Goto, Then, Leave, NoSnapshot, Deciding
  <2>5. at \notin NoSnapshot \cup {"turn"}
    BY <1>11 DEF CallJev, NoSnapshot
  <2> QED
    BY <2>1, <2>2, <2>3, <2>4, <2>5 DEF WorkerInv, IInv, NoSnapshot, Deciding
<1>12. CASE RecordJudgment
  <2>1. \A w \in Wakes : cycle'[w].worker = cycle[w].worker
    BY <1>12 DEF RecordJudgment, Wrote, IInv, TypeOK, Written
  <2>2. at' \in NoSnapshot \/ snap'.cycle = snap.cycle
    BY <1>12, OlderSnapshot, TaskOfWake DEF RecordJudgment, IInv, TypeOK, Leave, NoSnapshot
  <2>3. wake \in Wakes /\ todo \subseteq Wakes
    BY <1>12 DEF RecordJudgment, IInv, TypeOK
  <2>4. /\ at' \in NoSnapshot \/ UNCHANGED todo
        /\ at' \in NoSnapshot \cup {"turn"} \/ UNCHANGED wake
        /\ at' # "verdict"
        /\ at' \in Deciding => at \in Deciding
    BY <1>12 DEF RecordJudgment, Goto, Leave, Answered, Reason, Follow, NoSnapshot, Deciding
  <2>5. at \notin NoSnapshot \cup {"turn"}
    BY <1>12 DEF RecordJudgment, NoSnapshot
  <2> QED
    BY <2>1, <2>2, <2>3, <2>4, <2>5 DEF WorkerInv, IInv, NoSnapshot, Deciding
<1>13. CASE CheckFresh
  BY <1>13 DEF CheckFresh, Goto, WorkerInv, IInv, teletraan, NoSnapshot, Deciding
<1>14. CASE CreateContribution
  <2>1. wake \in Wakes /\ wake \notin todo /\ todo \subseteq Wakes
    BY <1>14 DEF CreateContribution, IInv, TypeOK, WorkerInv, NoSnapshot
  <2>2. \A w \in Wakes \ {wake} : cycle'[w] = cycle[w]
    BY <1>14, <2>1 DEF CreateContribution, Wrote, IInv, TypeOK
  <2>3. at' \in NoSnapshot \/ snap'.cycle = snap.cycle
    BY <1>14, OlderSnapshot DEF CreateContribution, IInv, TypeOK, Goto, Then, NextWake, Leave,
       NoSnapshot
  <2> QED
    BY <1>14, <2>1, <2>2, <2>3 DEF CreateContribution, Goto, Then, NextWake, Leave, WorkerInv,
       IInv, NoSnapshot, Deciding
<1>15. CASE QueueAttempt
  <2>1. \A w \in Wakes : cycle'[w].worker = cycle[w].worker
    BY <1>15 DEF QueueAttempt, Wrote, IInv, TypeOK, Written
  <2>2. at' \in NoSnapshot \/ snap'.cycle = snap.cycle
    BY <1>15, OlderSnapshot, TaskOfWake DEF QueueAttempt, IInv, TypeOK, Goto, Then, NextWake,
       Leave, NoSnapshot
  <2>3. wake \in Wakes /\ todo \subseteq Wakes
    BY <1>15 DEF QueueAttempt, IInv, TypeOK
  <2>4. /\ at' \in NoSnapshot \/ UNCHANGED todo
        /\ at' \in NoSnapshot \cup {"turn"} \/ UNCHANGED wake
        /\ at' # "verdict"
        /\ at' \in Deciding => at \in Deciding
    BY <1>15 DEF QueueAttempt, Goto, Then, NextWake, Leave, NoSnapshot, Deciding
  <2>5. at \notin NoSnapshot \cup {"turn"}
    BY <1>15 DEF QueueAttempt, NoSnapshot
  <2> QED
    BY <2>1, <2>2, <2>3, <2>4, <2>5 DEF WorkerInv, IInv, NoSnapshot, Deciding
<1>16. CASE Block
  <2>1. \A w \in Wakes : cycle'[w].worker = cycle[w].worker
    BY <1>16 DEF Block, Wrote, IInv, TypeOK, Written
  <2>2. at' \in NoSnapshot \/ snap'.cycle = snap.cycle
    BY <1>16, OlderSnapshot, TaskOfWake DEF Block, IInv, TypeOK, Goto, Then, NextWake, Leave,
       NoSnapshot
  <2>3. wake \in Wakes /\ todo \subseteq Wakes
    BY <1>16 DEF Block, IInv, TypeOK
  <2>4. /\ at' \in NoSnapshot \/ UNCHANGED todo
        /\ at' \in NoSnapshot \cup {"turn"} \/ UNCHANGED wake
        /\ at' # "verdict"
        /\ at' \in Deciding => at \in Deciding
    BY <1>16 DEF Block, Goto, Then, NextWake, Leave, NoSnapshot, Deciding
  <2>5. at \notin NoSnapshot \cup {"turn"}
    BY <1>16 DEF Block, NoSnapshot
  <2> QED
    BY <2>1, <2>2, <2>3, <2>4, <2>5 DEF WorkerInv, IInv, NoSnapshot, Deciding
<1>17. CASE Notice
  <2>1. \A w \in Wakes : cycle'[w].worker = cycle[w].worker
    BY <1>17 DEF Notice, IInv, TypeOK, Written, teletraan
  <2>2. at' \in NoSnapshot \/ snap'.cycle = snap.cycle
    BY <1>17, OlderSnapshot, TaskOfWake DEF Notice, IInv, TypeOK, Goto, Then, Leave, NoSnapshot
  <2>3. wake \in Wakes /\ todo \subseteq Wakes
    BY <1>17 DEF Notice, IInv, TypeOK
  <2>4. /\ at' \in NoSnapshot \/ UNCHANGED todo
        /\ at' \in NoSnapshot \cup {"turn"} \/ UNCHANGED wake
        /\ at' # "verdict"
        /\ at' \in Deciding => at \in Deciding
    BY <1>17 DEF Notice, Goto, Then, Leave, NoSnapshot, Deciding
  <2>5. at \notin NoSnapshot \cup {"turn"}
    BY <1>17 DEF Notice, NoSnapshot
  <2> QED
    BY <2>1, <2>2, <2>3, <2>4, <2>5 DEF WorkerInv, IInv, NoSnapshot, Deciding
<1>18. CASE ResumeTask
  <2>1. \A w \in Wakes : cycle'[w].worker = cycle[w].worker
    BY <1>18 DEF ResumeTask, Wrote, IInv, TypeOK, Written
  <2>2. at' \in NoSnapshot \/ snap'.cycle = snap.cycle
    BY <1>18, OlderSnapshot, TaskOfWake DEF ResumeTask, IInv, TypeOK, Goto, Then, NextWake,
       Leave, NoSnapshot
  <2>3. wake \in Wakes /\ todo \subseteq Wakes
    BY <1>18 DEF ResumeTask, IInv, TypeOK
  <2>4. /\ at' \in NoSnapshot \/ UNCHANGED todo
        /\ at' \in NoSnapshot \cup {"turn"} \/ UNCHANGED wake
        /\ at' # "verdict"
        /\ at' \in Deciding => at \in Deciding
    BY <1>18 DEF ResumeTask, Goto, Then, NextWake, Leave, NoSnapshot, Deciding
  <2>5. at \notin NoSnapshot \cup {"turn"}
    BY <1>18 DEF ResumeTask, NoSnapshot
  <2> QED
    BY <2>1, <2>2, <2>3, <2>4, <2>5 DEF WorkerInv, IInv, NoSnapshot, Deciding
<1>19. CASE Ack
  BY <1>19 DEF Ack, NextWake, Leave, WorkerInv, IInv, NoSnapshot, Deciding
<1>20. CASE ResumeApproved
  BY <1>20 DEF ResumeApproved, Leave, WorkerInv, IInv, NoSnapshot, Deciding
<1>21. CASE Abort
  BY <1>21 DEF Abort, Leave, WorkerInv, IInv, teletraan, NoSnapshot, Deciding
<1>22. CASE Rejected
  BY <1>22 DEF Rejected, Leave, WorkerInv, IInv, teletraan, NoSnapshot, Deciding
<1>23. ASSUME NEW t \in Tasks, TapApprove(t) PROVE WorkerInv'
  BY <1>23 DEF TapApprove, WorkerInv, IInv, NoSnapshot, Deciding
<1>24. CASE Bystander
  BY <1>24, BystandersStandBy, StandByKeeps DEF IInv
<1>25. CASE Pass
  BY <1>25, <1>2, <1>3, <1>4, <1>5, <1>6, <1>7, <1>8, <1>9, <1>10, <1>11, <1>12, <1>13, <1>14,
     <1>15, <1>16, <1>17, <1>18, <1>19, <1>20 DEF Pass
<1> QED
  BY <1>1, <1>21, <1>22, <1>23, <1>24, <1>25 DEF Next, Bystander

\* No step hides an attempt on a task that did not move.
LEMMA LiveStep == IInv /\ [Next]_vars => LiveInv'
<1> SUFFICES ASSUME IInv, [Next]_vars PROVE LiveInv'
  OBVIOUS
<1>1. CASE PassStart
  BY <1>1 DEF PassStart, LiveInv, IInv, NoSnapshot, Deciding, Working, T
<1>2. CASE TakeSnapshot
  BY <1>2 DEF TakeSnapshot, Now, Goto, LiveInv, NoSnapshot, Deciding, teletraan
<1>3. ASSUME NEW w \in Wakes, Turn(w) PROVE LiveInv'
  BY <1>3 DEF Turn, LiveInv, IInv, NoSnapshot, Deciding, Working, T
<1>4. CASE PassEnd
  BY <1>4 DEF PassEnd, Leave, LiveInv, IInv, teletraan, NoSnapshot, Deciding, Working, T
<1>5. CASE Noop
  BY <1>5 DEF Noop, Goto, LiveInv, IInv, teletraan, NoSnapshot, Deciding, Working, T
<1>6. CASE Blocked
  BY <1>6 DEF Blocked, Goto, LiveInv, IInv, teletraan, NoSnapshot, Deciding, Working, T
<1>7. CASE AskReserved
  BY <1>7 DEF AskReserved, NeedsYes, ToRoute, ToRework, Goto, LiveInv, IInv, NoSnapshot,
     Deciding, teletraan, Working, T
<1>8. CASE ResumeChoice
  BY <1>8 DEF ResumeChoice, Goto, LiveInv, IInv, teletraan, NoSnapshot, Deciding, Working, T
<1>9. CASE Consider
  BY <1>9 DEF Consider, ToRoute, Goto, Leave, LiveInv, IInv, NoSnapshot, Deciding, teletraan,
     Working, T
<1>10. CASE AskJev
  <2>1. /\ at' \in NoSnapshot \/ (snap'.live = snap.live /\ snap.moved \subseteq snap'.moved)
        /\ UNCHANGED live
    BY <1>10, OlderSnapshot, TaskOfWake DEF AskJev, IInv, TypeOK, Goto, NoSnapshot
  <2> QED
    BY <1>10, <2>1 DEF AskJev, Goto, Answered, Reason, Follow, LiveInv, IInv, NoSnapshot,
       Deciding, Working, T
<1>11. CASE CallJev
  <2>1. /\ at' \in NoSnapshot \/ (snap'.live = snap.live /\ snap.moved \subseteq snap'.moved)
        /\ UNCHANGED live
    BY <1>11, OlderSnapshot, TaskOfWake DEF CallJev, IInv, TypeOK, Goto, Then, Leave, NoSnapshot
  <2> QED
    BY <1>11, <2>1 DEF CallJev, Goto, Then, Leave, LiveInv, IInv, NoSnapshot, Deciding,
       Working, T
<1>12. CASE RecordJudgment
  <2>1. /\ at' \in NoSnapshot \/ (snap'.live = snap.live /\ snap.moved \subseteq snap'.moved)
        /\ UNCHANGED live
    BY <1>12, OlderSnapshot, TaskOfWake DEF RecordJudgment, IInv, TypeOK, Leave, NoSnapshot
  <2> QED
    BY <1>12, <2>1 DEF RecordJudgment, Goto, Leave, Answered, Reason, Follow, LiveInv, IInv,
       NoSnapshot, Deciding, Working, T
<1>13. CASE CheckFresh
  BY <1>13 DEF CheckFresh, Goto, LiveInv, IInv, teletraan, NoSnapshot, Deciding, Working, T
<1>14. CASE CreateContribution
  <2>1. /\ at' \in NoSnapshot \/ (snap'.live = snap.live /\ snap.moved \subseteq snap'.moved)
        /\ UNCHANGED live
    BY <1>14, OlderSnapshot, TaskOfWake DEF CreateContribution, IInv, TypeOK, Goto, Then,
       NextWake, Leave, NoSnapshot
  <2> QED
    BY <1>14, <2>1 DEF CreateContribution, Goto, Then, NextWake, Leave, LiveInv, IInv,
       NoSnapshot, Deciding, Working, T
<1>15. CASE QueueAttempt
  <2>1. CASE at' \in NoSnapshot
    BY <2>1 DEF LiveInv
  <2>2. CASE UNCHANGED live /\ UNCHANGED snap /\ at' \in {"ack", "turn"}
    BY <1>15, <2>2 DEF QueueAttempt, LiveInv, IInv, NoSnapshot, Deciding
  <2>3. CASE live' = live \cup {<<T, choice>>} /\ Goto("ack", None) /\ Touch({T})
    <3>1. /\ snap'.live = snap.live
          /\ snap.moved \subseteq snap'.moved
          /\ T \in snap'.moved
      BY <1>15, <2>3, OlderSnapshot, TaskOfWake DEF QueueAttempt, IInv, TypeOK, NoSnapshot
    <3> QED
      BY <1>15, <2>3, <3>1 DEF QueueAttempt, Goto, LiveInv, IInv, NoSnapshot, Deciding
  <2> QED
    BY <1>15, <2>1, <2>2, <2>3 DEF QueueAttempt, Then, NextWake, Leave, Goto, NoSnapshot
<1>16. CASE Block
  <2>1. /\ at' \in NoSnapshot \/ (snap'.live = snap.live /\ snap.moved \subseteq snap'.moved)
        /\ UNCHANGED live
    BY <1>16, OlderSnapshot, TaskOfWake DEF Block, IInv, TypeOK, Goto, Then, NextWake, Leave,
       NoSnapshot
  <2> QED
    BY <1>16, <2>1 DEF Block, Goto, Then, NextWake, Leave, LiveInv, IInv, NoSnapshot,
       Deciding, Working, T
<1>17. CASE Notice
  <2>1. /\ at' \in NoSnapshot \/ (snap'.live = snap.live /\ snap.moved \subseteq snap'.moved)
        /\ UNCHANGED live
    BY <1>17, OlderSnapshot, TaskOfWake DEF Notice, IInv, TypeOK, Goto, Then, Leave,
       NoSnapshot, teletraan
  <2> QED
    BY <1>17, <2>1 DEF Notice, Goto, Then, Leave, LiveInv, IInv, NoSnapshot, Deciding,
       Working, T
<1>18. CASE ResumeTask
  <2>1. /\ at' \in NoSnapshot \/ (snap'.live = snap.live /\ snap.moved \subseteq snap'.moved)
        /\ UNCHANGED live
    BY <1>18, OlderSnapshot, TaskOfWake DEF ResumeTask, IInv, TypeOK, Goto, Then, NextWake,
       Leave, NoSnapshot
  <2> QED
    BY <1>18, <2>1 DEF ResumeTask, Goto, Then, NextWake, Leave, LiveInv, IInv, NoSnapshot,
       Deciding, Working, T
<1>19. CASE Ack
  BY <1>19 DEF Ack, NextWake, Leave, LiveInv, IInv, NoSnapshot, Deciding, Working, T
<1>20. CASE ResumeApproved
  BY <1>20 DEF ResumeApproved, Leave, LiveInv, IInv, NoSnapshot, Deciding, Working, T
<1>21. CASE Abort
  BY <1>21 DEF Abort, Leave, LiveInv, IInv, teletraan, NoSnapshot, Deciding, Working, T
<1>22. CASE Rejected
  BY <1>22 DEF Rejected, Leave, LiveInv, IInv, teletraan, NoSnapshot, Deciding, Working, T
<1>23. ASSUME NEW t \in Tasks, TapApprove(t) PROVE LiveInv'
  BY <1>23 DEF TapApprove, LiveInv, IInv, NoSnapshot, Deciding, Working, T
<1>24. CASE Bystander
  BY <1>24, BystandersStandBy, StandByKeeps DEF IInv
<1>25. CASE Pass
  BY <1>25, <1>2, <1>3, <1>4, <1>5, <1>6, <1>7, <1>8, <1>9, <1>10, <1>11, <1>12, <1>13, <1>14,
     <1>15, <1>16, <1>17, <1>18, <1>19, <1>20 DEF Pass
<1> QED
  BY <1>1, <1>21, <1>22, <1>23, <1>24, <1>25 DEF Next, Bystander

-----------------------------------------------------------------------------

\* The invariant holds at the start.
LEMMA InitIInv == Init => IInv
<1> SUFFICES ASSUME Init PROVE IInv
  OBVIOUS
<1>1. Nothing \in Written
  BY DEF Nothing, Written
<1>2. Tasks \X {"ready"} \subseteq Wakes
  BY DEF Wakes, Reasons
<1>3. ServiceOK
  BY <1>1, <1>2, NoneAssumption DEF Init, ServiceOK, Statuses, Kinds
<1>4. PassOK
  BY DEF Init, PassOK, Places, NoSnapshot
<1>5. CountsOK
  BY LimitsAssumption DEF Init, CountsOK
<1>6. TypeOK
  BY <1>3, <1>4, <1>5, TypeParts
<1>7. ChoiceInv /\ PaidInv /\ WorkerInv /\ LiveInv
  BY DEF Init, ChoiceInv, PaidInv, Nothing, WorkerInv, LiveInv, NoSnapshot
<1> QED
  BY <1>6, <1>7 DEF IInv

\* The invariant is inductive.
LEMMA NextIInv == IInv /\ [Next]_vars => IInv'
  BY TypeStep, ChoiceStep, PaidStep, WorkerStep, LiveStep DEF IInv

\* The invariant holds throughout.
THEOREM Invariance == Spec => []IInv
  BY InitIInv, NextIInv, PTL DEF Spec

\* Every state of the routing pass, and of Teletraan as it uses it, is well typed.
THEOREM RoutingTypes == Spec => []TypeOK
<1>1. IInv => TypeOK
  BY DEF IInv
<1> QED
  BY <1>1, Invariance, PTL

\* A cycle has one worker, whatever was lost, refused or crashed: the turn that creates a
\* contribution for it knows of every earlier choice (_assign, and the replay in handle).
THEOREM CycleHasOneWorker == Spec => []OneWorkerPerCycle
<1>1. IInv => OneWorkerPerCycle
  BY DEF IInv, WorkerInv, OneWorkerPerCycle, Deciding, NoSnapshot
<1> QED
  BY <1>1, Invariance, PTL

\* A cycle pays for one call of Jev at most: the mark is stored before the call (_decide).
THEOREM JevIsPaidOnce == Spec => []PaidOnce
<1>1. IInv => PaidOnce
  BY DEF IInv, PaidInv, PaidOnce
<1> QED
  BY <1>1, Invariance, PTL

\* A turn blocks no task on which somebody works by now: the work moved the task, and the
\* turn's revision is then stale (_escalate).
THEOREM WorkIsNotBlocked == Spec => NeverBlocksWork
<1>1. ASSUME IInv, [Next]_vars, at = "block", at' # "block", status' # status
      PROVE  ~Working(Now, T)
  <2>1. Block
    <3>1. ~Bystander
      BY <1>1, BystandersStandBy DEF IInv, StandsBy
    <3>2. CASE Pass
      BY <1>1, <3>2 DEF Pass, TakeSnapshot, Turn, PassEnd, Noop, Blocked, AskReserved,
         ResumeChoice, Consider, AskJev, CallJev, RecordJudgment, CheckFresh,
         CreateContribution, QueueAttempt, Notice, ResumeTask, Ack, ResumeApproved
    <3> QED
      BY <1>1, <3>1, <3>2 DEF Next, Bystander, PassStart, Abort, Rejected, teletraan, TapApprove
  <2>2. Accepted
    BY <1>1, <2>1 DEF Block
  <2>3. T \in Tasks \ snap.moved
    BY <1>1, <2>2, TaskOfWake DEF Accepted, IInv, TypeOK
  <2>4. \A a \in Workers : <<T, a>> \in live => <<T, a>> \in snap.live
    BY <1>1, <2>3 DEF IInv, LiveInv, NoSnapshot
  <2>5. ~Working(snap, T)
    BY <1>1 DEF IInv, LiveInv, NoSnapshot
  <2> QED
    BY <2>4, <2>5 DEF Working, Now
<1>2. IInv /\ [Next]_vars =>
        [(at = "block" /\ at' # "block" /\ status' # status) => ~Working(Now, T)]_vars
  BY <1>1
<1> QED
  BY <1>2, Invariance, PTL DEF Spec, NeverBlocksWork

-----------------------------------------------------------------------------
(* Ids that are used up when their turn is over *)

\* The invariant that counts them.
SpentInv == IsFiniteSet(Spent) /\ RepeatsCostFaults

\* What a step may do to the used ids: leave them, or add one and have a fault.
Pays ==
    \/ Spent' \subseteq Spent /\ faults' \in {faults, faults + 1}
    \/ faults' = faults + 1 /\ \E w \in Wakes : Spent' \subseteq Spent \cup {w}

\* Such a step keeps the count.
LEMMA PaysInv == ASSUME SpentInv, Pays, faults \in Nat PROVE SpentInv'
<1>1. IsFiniteSet(Spent) /\ Cardinality(Spent) <= faults
  BY DEF SpentInv, RepeatsCostFaults
<1> HIDE DEF Spent
<1>2. Cardinality(Spent) \in Nat
  BY <1>1, FS_CardinalityType
<1>3. ASSUME NEW S, IsFiniteSet(S), Spent' \subseteq S, Cardinality(S) <= faults'
      PROVE  SpentInv'
  <2>1. IsFiniteSet(Spent') /\ Cardinality(Spent') <= Cardinality(S)
    BY <1>3, FS_Subset
  <2>2. Cardinality(S) \in Nat /\ Cardinality(Spent') \in Nat
    BY <1>3, <2>1, FS_CardinalityType
  <2>3. faults' \in Nat
    BY DEF Pays
  <2>4. Cardinality(Spent') <= faults'
    BY <1>3, <2>1, <2>2, <2>3
  <2> QED
    BY <2>1, <2>4 DEF SpentInv, RepeatsCostFaults
<1>4. CASE Spent' \subseteq Spent /\ faults' \in {faults, faults + 1}
  BY <1>1, <1>2, <1>3, <1>4
<1>5. ASSUME faults' = faults + 1, NEW w \in Wakes, Spent' \subseteq Spent \cup {w}
      PROVE  SpentInv'
  <2>1. /\ IsFiniteSet(Spent \cup {w})
        /\ Cardinality(Spent \cup {w}) \in {Cardinality(Spent), Cardinality(Spent) + 1}
    BY <1>1, FS_AddElement
  <2>2. Cardinality(Spent \cup {w}) <= faults'
    BY <1>1, <1>2, <1>5, <2>1
  <2> QED
    BY <1>3, <1>5, <2>1, <2>2
<1> QED
  BY <1>4, <1>5 DEF Pays

\* The turn that may use its id, or has just done so.
After == {"notice", "ack"}

\* Wakes that are raised stay raised, and no id is used but, perhaps, this turn's.
Spares ==
    /\ again \subseteq again'
    /\ \A w \in Wakes : cycle'[w].fenced => cycle[w].fenced \/ w = wake

\* A step that ends no turn at its last places, and uses no id, makes none of them.
LEMMA NoneSpent ==
  ASSUME again \subseteq again',
         \A w \in Wakes : cycle'[w].fenced => cycle[w].fenced,
         at \in After => at' \in After /\ wake' = wake
  PROVE  Spent' \subseteq Spent
  BY DEF Spent, After

\* A step that has a fault makes one at most.
LEMMA FaultPays == ASSUME Spares, wake \in Wakes, Fault PROVE Pays
<1>1. Spent' \subseteq Spent \cup {wake}
  BY DEF Spent, Spares
<1> QED
  BY <1>1 DEF Pays, Fault

\* A step that uses the turn's id makes none of them as long as the turn goes on.
LEMMA TurnPays ==
  ASSUME Spares, wake \in Wakes, wake' = wake, at' \in After, faults' \in {faults, faults + 1}
  PROVE  Pays
<1>1. Spent' \subseteq Spent
  BY DEF Spent, Spares, After
<1> QED
  BY <1>1 DEF Pays

\* Every step pays for what it leaves behind.
LEMMA PaysStep == TypeOK /\ [Next]_vars => Pays
<1> SUFFICES ASSUME TypeOK, [Next]_vars PROVE Pays
  OBVIOUS
<1>1. cycle \in [Wakes -> Written]
  BY DEF TypeOK
<1>2. ASSUME Spent' \subseteq Spent, Fault \/ NoFault PROVE Pays
  BY <1>2 DEF Pays, Fault, NoFault
<1>3. ASSUME NEW f, NEW x, f # "fenced", Wrote(f, x)
      PROVE  \A w \in Wakes : cycle'[w].fenced => cycle[w].fenced
  BY <1>1, <1>3 DEF Wrote, Written
<1>4. CASE PassStart
  <2>1. Spent' \subseteq Spent
    BY <1>4 DEF PassStart, Spent, Nothing
  <2> QED
    BY <1>2, <1>4, <2>1 DEF PassStart, NoFault
<1>5. CASE TakeSnapshot \/ (\E w \in Wakes : Turn(w)) \/ PassEnd \/ ResumeApproved
  <2>1. at \notin After /\ UNCHANGED cycle /\ again \subseteq again' /\ (Fault \/ NoFault)
    BY <1>5 DEF TakeSnapshot, Turn, PassEnd, ResumeApproved, After, Raise, HandsOff, teletraan,
       NoFault
  <2> QED
    BY <1>2, <2>1, NoneSpent
<1>6. CASE Noop \/ Blocked \/ AskReserved \/ ResumeChoice \/ Consider \/ CheckFresh
  <2>1. at \notin After /\ UNCHANGED <<cycle, again, faults>>
    BY <1>6 DEF Noop, Blocked, AskReserved, ResumeChoice, Consider, CheckFresh, After, teletraan
  <2> QED
    BY <1>2, <2>1, NoneSpent DEF NoFault
<1>7. CASE AskJev
  <2>1. at \notin After /\ UNCHANGED <<again, faults>>
    BY <1>7 DEF AskJev, After
  <2>2. UNCHANGED cycle \/ Wrote("inflight", TRUE)
    BY <1>7 DEF AskJev
  <2> QED
    BY <1>2, <1>3, <2>1, <2>2, NoneSpent DEF NoFault
<1>8. CASE CallJev
  <2>1. at \notin After /\ UNCHANGED again /\ (Fault \/ NoFault)
    BY <1>8 DEF CallJev, Then, After
  <2>2. \A w \in Wakes : cycle'[w].fenced => cycle[w].fenced
    BY <1>1, <1>8 DEF CallJev, Written
  <2> QED
    BY <1>2, <2>1, <2>2, NoneSpent
<1>9. CASE RecordJudgment
  <2>1. at \notin After /\ UNCHANGED again /\ (Fault \/ NoFault) /\ Wrote("judged", choice)
    BY <1>9 DEF RecordJudgment, After
  <2> QED
    BY <1>2, <1>3, <2>1, NoneSpent
<1>10. CASE CreateContribution
  <2>1. /\ at \notin After /\ UNCHANGED again /\ (Fault \/ NoFault)
        /\ UNCHANGED cycle \/ Wrote("worker", choice)
    BY <1>10 DEF CreateContribution, Then, NextWake, After
  <2> QED
    BY <1>2, <1>3, <2>1, NoneSpent
<1>11. CASE QueueAttempt
  <2>1. /\ at \notin After /\ UNCHANGED again /\ (Fault \/ NoFault)
        /\ UNCHANGED cycle \/ Wrote("queued", TRUE)
    BY <1>11 DEF QueueAttempt, Then, NextWake, After
  <2> QED
    BY <1>2, <1>3, <2>1, NoneSpent
<1>12. CASE Block \/ ResumeTask
  <2>1. wake \in Wakes /\ at \notin After /\ again \subseteq again'
    BY <1>12 DEF Block, ResumeTask, TypeOK, After, Raise
  <2>2. CASE UNCHANGED cycle /\ NextWake
    BY <1>2, <2>1, <2>2, NoneSpent DEF NextWake
  <2>3. CASE Wrote("fenced", TRUE) /\ (Then("notice", None, {T}) \/ Then("ack", None, {T}))
    <3>1. Spares
      BY <1>1, <2>1, <2>3 DEF Spares, Wrote
    <3>2. Fault \/ (NoFault /\ at' \in After /\ wake' = wake)
      BY <2>3 DEF Then, Goto, After
    <3> QED
      BY <2>1, <3>1, <3>2, FaultPays, TurnPays DEF NoFault
  <2> QED
    BY <1>12, <2>2, <2>3 DEF Block, ResumeTask
<1>13. CASE Notice
  <2>1. wake \in Wakes /\ UNCHANGED <<cycle, again>>
    BY <1>13 DEF Notice, TypeOK, teletraan
  <2>2. Spares
    BY <2>1 DEF Spares
  <2>3. Fault \/ (NoFault /\ at' = "ack" /\ wake' = wake)
    BY <1>13 DEF Notice, NotRecorded, Then, Goto, Leave
  <2> QED
    BY <2>1, <2>2, <2>3, FaultPays, TurnPays DEF NoFault, After
<1>14. CASE Ack
  <2>1. wake \in Wakes /\ UNCHANGED again /\ (Fault \/ NoFault)
    BY <1>14 DEF Ack, TypeOK, NextWake
  <2>2. Spent' \subseteq Spent
    BY <1>1, <1>14, <2>1 DEF Ack, Spent, Nothing
  <2> QED
    BY <1>2, <2>1, <2>2
<1>15. CASE Abort
  <2>1. Fault /\ UNCHANGED <<cycle, again>>
    BY <1>15 DEF Abort, teletraan
  <2>2. CASE at \in After
    <3>1. wake \in Wakes
      BY <2>2 DEF TypeOK, After
    <3> QED
      BY <2>1, <3>1, FaultPays DEF Spares
  <2>3. CASE at \notin After
    BY <1>2, <2>1, <2>3, NoneSpent
  <2> QED
    BY <2>2, <2>3
<1>16. CASE Rejected
  <2>1. Fault /\ UNCHANGED <<cycle, again>> /\ wake \in Wakes
    BY <1>16 DEF Rejected, teletraan, TypeOK
  <2> QED
    BY <2>1, FaultPays DEF Spares
<1>17. ASSUME NEW t \in Tasks, TapApprove(t) PROVE Pays
  <2>1. at \notin After /\ UNCHANGED <<cycle, again>> /\ (Fault \/ NoFault)
    BY <1>17 DEF TapApprove, After
  <2> QED
    BY <1>2, <2>1, NoneSpent
<1>18. CASE Bystander
  <2>1. UNCHANGED <<at, wake, cycle>>
    BY <1>18, BystandersStandBy DEF StandsBy
  <2>2. again \subseteq again' /\ (Fault \/ NoFault)
    <3>1. ASSUME NEW t \in Tasks, SweepRaises(t) \/ SweepTells(t)
          PROVE  again \subseteq again' /\ (Fault \/ NoFault)
      BY <3>1 DEF SweepRaises, SweepTells, NotRecorded, Raise, NoFault, teletraan
    <3>2. CASE NextWindow \/ UNCHANGED vars
      BY <3>2 DEF NextWindow, vars, NoFault, teletraan
    <3>3. CASE People
      <4>1. UNCHANGED faults
        BY <3>3 DEF People, Outside, AttemptEnds, OwnerStarts, OwnerCompletes, OwnerAsksRework,
           Rescopes, Operates, ChangesMember, PausesProject
      <4>2. again \subseteq again'
        BY <3>3 DEF People, Raise, AttemptEnds, OwnerStarts, OwnerCompletes, OwnerAsksRework,
           Rescopes, Operates, ChangesMember, PausesProject
      <4> QED
        BY <4>1, <4>2 DEF NoFault
    <3> QED
      BY <1>18, <3>1, <3>2, <3>3 DEF Bystander
  <2> QED
    BY <1>2, <2>1, <2>2, NoneSpent
<1> QED
  BY <1>4, <1>5, <1>6, <1>7, <1>8, <1>9, <1>10, <1>11, <1>12, <1>13, <1>14, <1>15, <1>16, <1>17,
     <1>18 DEF Next, Pass, Bystander

\* The used ids stay counted.
LEMMA UsedIdsInv == Spec => []SpentInv
<1>1. Init => SpentInv
  <2>1. Init => Spent = {} /\ faults = 0
    BY DEF Init, Spent, Nothing
  <2> QED
    BY <2>1, FS_EmptySet DEF SpentInv, RepeatsCostFaults
<1>2. IInv /\ SpentInv /\ [Next]_vars => SpentInv'
  <2>1. IInv => TypeOK /\ faults \in Nat
    BY LimitsAssumption DEF IInv, TypeOK
  <2> QED
    BY <2>1, PaysStep, PaysInv
<1> QED
  BY <1>1, <1>2, Invariance, PTL DEF Spec

\* A block or a resume is sent a second time under its id only in a turn that follows a
\* crash, a lost reply or a refusal, and each of those costs one wake its id at most
\* (_cmd, _ack), however many wakes are raised again and however often.
THEOREM RepeatsAreCounted == Spec => []RepeatsCostFaults
<1>1. SpentInv => RepeatsCostFaults
  BY DEF SpentInv
<1> QED
  BY <1>1, UsedIdsInv, PTL

\* Where nothing fails every turn that runs again gets the receipts of its first run
\* (_cmd): what the run routing_replay shows takes a fault.
THEOREM FaultlessTurnsReplay == MaxFaults = 0 /\ Spec => []ReplaysReceipts
<1> SUFFICES ASSUME MaxFaults = 0 PROVE Spec => []ReplaysReceipts
  OBVIOUS
<1>1. IInv /\ SpentInv => ReplaysReceipts
  <2> SUFFICES ASSUME IInv, SpentInv PROVE ReplaysReceipts
    OBVIOUS
  <2>1. faults = 0 /\ IsFiniteSet(Spent) /\ Cardinality(Spent) <= 0
    BY DEF IInv, TypeOK, SpentInv, RepeatsCostFaults
  <2>2. Spent = {}
    <3> HIDE DEF Spent
    <3>1. Cardinality(Spent) \in Nat
      BY <2>1, FS_CardinalityType
    <3>2. Cardinality(Spent) = 0
      BY <2>1, <3>1
    <3> QED
      BY <2>1, <3>2, FS_EmptySet
  <2>3. at = "block" => wake \in Wakes
    BY DEF IInv, TypeOK
  <2> QED
    BY <2>2, <2>3 DEF Spent, ReplaysReceipts
<1> QED
  BY <1>1, Invariance, UsedIdsInv, PTL

=============================================================================
