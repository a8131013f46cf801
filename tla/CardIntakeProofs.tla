--------------------------- MODULE CardIntakeProofs ---------------------------
(***************************************************************************)
(* Proofs about CardIntake, for every value of its constants.              *)
(***************************************************************************)
EXTENDS CardIntake, TLAPS

(* The inductive invariant.  The properties speak of what the store and    *)
(* Teletraan hold; they are kept only because of where the handler can be  *)
(* when it is interrupted, which the parts below add.                      *)

\* Where the handler is, and what it has already made sure of.
PlaceInv ==
    /\ at \in {"amend", "source", "model"} => status[cur] = "drafting"
    /\ at \in {"show", "yes"} => status[cur] = "awaiting_yes"
    /\ at \in {"approval", "unyes", "create", "plan", "tasks"} => status[cur] = "granting"
    /\ at \in {"show", "yes"} => card_hash[cur] \in Versions
    /\ at = "yes" => consent[cur] = card_hash[cur]
    /\ at = "unyes" => approvals[cur][card_hash[cur]] = None
    /\ at \in {"plan", "tasks"} => creator[project_id[cur]] = <<cur, card_hash[cur]>>
    /\ at = "tasks" => plan[project_id[cur]] \in Plans

\* A card that may still be said yes to is on offer until it is too old.
OfferInv ==
    \A c \in Cards : status[c] \in {"awaiting_yes", "granting"} /\ ~aged[c]
                        => offer[c] = card_hash[c]

\* A card past its yes stands on that yes.
GrantInv ==
    \A c \in Cards : status[c] \in {"granting", "granted"} =>
        /\ card_hash[c] \in Versions
        /\ project_id[c] = ProjectOf[c][card_hash[c]]
        /\ consent[c] = card_hash[c]

\* Teletraan made a project only from a recorded approval.
ApprovedInv ==
    \A p \in Projects, c \in Cards, v \in Versions :
        creator[p] = <<c, v>> => approvals[c][v] # None

\* Tasks come after the stored plan, and are entries of it.
PlanInv ==
    \A p \in Projects : \A t \in tasks[p] :
        /\ plan[p] \in Plans
        /\ t.id \in DOMAIN plan[p]

\* A plan is stored only for a project that exists.
PlannedInv == \A p \in Projects : plan[p] # None => creator[p] # None

IInv ==
    /\ TypeOK
    /\ PlaceInv
    /\ OfferInv
    /\ GrantInv
    /\ ApprovedInv
    /\ PlanInv
    /\ PlannedInv
    /\ ProjectKeepsCard
    /\ GrantedIsComplete
    /\ TasksFollowOnePlan
    /\ RetriesAgree

\* While a grant is being finished, the names in _finish_grant are well defined.
LEMMA InGrant ==
    TypeOK /\ PlaceInv /\ GrantInv /\ at \in {"approval", "unyes", "create", "plan",
         "tasks"}
        => /\ cur \in Cards
           /\ status[cur] = "granting"
           /\ Version \in Versions
           /\ Project \in Projects
           /\ Project = ProjectOf[cur][Version]
           /\ consent[cur] = Version
  BY ProjectOfAssumption DEF TypeOK, PlaceInv, GrantInv, Version, Project

\* A new task has the type of a task: its id is a number of a stored plan.
LEMMA TypeTaskCreated == TypeOK /\ PlaceInv /\ GrantInv /\ TaskCreated => TypeOK'
<1> SUFFICES ASSUME TypeOK, PlaceInv, GrantInv, TaskCreated PROVE TypeOK'
  OBVIOUS
<1>1. Project \in Projects /\ plan[Project] \in Plans
  BY ProjectOfAssumption DEF TypeOK, PlaceInv, GrantInv, TaskCreated, Project
<1>2. PICK i \in Missing(Project) :
        tasks' = [tasks EXCEPT ![Project] =
                     @ \cup {[id |-> i, plan |-> plan[Project], linked |-> FALSE]}]
  BY DEF TaskCreated
<1>3. [id |-> i, plan |-> plan[Project], linked |-> FALSE] \in Task
  BY <1>1, <1>2, PlansAssumption DEF Missing, Task
<1>4. tasks' \in [Projects -> SUBSET Task]
  BY <1>1, <1>2, <1>3 DEF TypeOK
<1>5. QED
  BY <1>4, FaultsAssumption DEF TypeOK, TaskCreated, Replied, Goto, Finish, Fault,
       Places, store, matthew

\* So has a task whose dependencies were set.
LEMMA TypeTaskLinked == TypeOK /\ PlaceInv /\ GrantInv /\ TaskLinked => TypeOK'
<1> SUFFICES ASSUME TypeOK, PlaceInv, GrantInv, TaskLinked PROVE TypeOK'
  OBVIOUS
<1>1. Project \in Projects
  BY ProjectOfAssumption DEF TypeOK, PlaceInv, GrantInv, TaskLinked, Project
<1>2. PICK t \in tasks[Project] :
        tasks' = [tasks EXCEPT ![Project] = (@ \ {t}) \cup {[t EXCEPT !.linked = TRUE]}]
  BY DEF TaskLinked
<1>3. [t EXCEPT !.linked = TRUE] \in Task
  <2>1. t \in Task
    BY <1>1, <1>2 DEF TypeOK
  <2> QED
    BY <2>1 DEF Task
<1>4. tasks' \in [Projects -> SUBSET Task]
  BY <1>1, <1>2, <1>3 DEF TypeOK
<1>5. QED
  BY <1>4, FaultsAssumption DEF TypeOK, TaskLinked, Replied, Goto, Finish, Fault,
       Places, store, matthew

\* A tap stores a tap, and Matthew's consent is to a version.
LEMMA TypeTapYes ==
  ASSUME TypeOK, NEW c \in Cards, NEW v \in Versions, NEW t \in Taps, TapYes(c, v, t)
  PROVE  TypeOK'
<1>1. attest' \in [Cards -> [Versions -> Taps \cup {None}]]
  <2>1. CASE status[c] = "granting"
    BY <2>1 DEF TapYes, TypeOK
  <2>2. CASE status[c] # "granting"
    <3> DEFINE new == IF attest[c][v] = None THEN t ELSE attest[c][v]
    <3>1. new \in Taps \cup {None}
      BY DEF TypeOK
    <3>2. attest' = [attest EXCEPT ![c] = [attest[c] EXCEPT ![v] = new]]
      BY <2>2 DEF TapYes, TypeOK
    <3> QED
      BY <3>1, <3>2 DEF TypeOK
  <2> QED
    BY <2>1, <2>2
<1>2. consent' \in [Cards -> Versions \cup {None}]
  BY DEF TapYes, Says, TypeOK
<1> QED
  BY <1>1, <1>2 DEF TapYes, TypeOK, Goto, Places, teletraan

\* Every step keeps the types, one step of the proof per action.
LEMMA TypeStep == TypeOK /\ PlaceInv /\ GrantInv /\ [Next]_vars => TypeOK'
<1> SUFFICES ASSUME TypeOK, PlaceInv, GrantInv, [Next]_vars PROVE TypeOK'
  OBVIOUS
<1> USE ProjectOfAssumption, PlansAssumption, FaultsAssumption DEF TypeOK, PlaceInv,
        GrantInv, Statuses, Places, Task, Idle, store, teletraan, matthew
<1>1. CASE NoOwners
  BY <1>1 DEF NoOwners, SetStatus, Finish, Goto
<1>2. CASE SourceBound
  BY <1>2 DEF SourceBound, Goto
<1>3. CASE DraftUnavailable
  BY <1>3 DEF DraftUnavailable, Finish, Goto
<1>4. CASE DraftIncomplete
  BY <1>4 DEF DraftIncomplete, Finish, Goto
<1>5. CASE DraftStored
  BY <1>5 DEF DraftStored, SetStatus, Goto
<1>6. CASE CardSent
  BY <1>6 DEF CardSent, Finish, Goto
<1>7. CASE MarkGranting
  BY <1>7 DEF MarkGranting, SetStatus, Goto
<1>8. CASE NoAttestation
  BY <1>8 DEF NoAttestation, AskAgain, SetStatus, Unsays, Finish, Goto, Yes, Version
<1>9. CASE ApprovalRecorded
  BY <1>9 DEF ApprovalRecorded, Yes, Version, Replied, Goto, Finish, Fault
<1>10. CASE ApprovalRefused
  BY <1>10 DEF ApprovalRefused, Yes, Version, Goto, Fault
<1>11. CASE YesForgotten
  BY <1>11 DEF YesForgotten, AskAgain, SetStatus, Unsays, Finish, Goto
<1>12. CASE ProjectCreated
  BY <1>12 DEF ProjectCreated, CreateReplays, Project, Version, Replied, Goto, Finish, Fault
<1>13. CASE ProjectRefused
  BY <1>13 DEF ProjectRefused, CreateReplays, Project, Version, Fault, AskAgain,
       SetStatus, Unsays, Finish, Goto
<1>14. CASE PlanStored
  BY <1>14 DEF PlanStored, Project, Goto
<1>15. CASE TaskCreated
  BY <1>15, TypeTaskCreated
<1>16. CASE TaskLinked
  BY <1>16, TypeTaskLinked
<1>17. CASE Granted
  BY <1>17 DEF Granted, Project, SetStatus, Finish, Goto
<1>18. CASE Abort
  BY <1>18 DEF Abort, Fault, Finish, Goto
<1>19. CASE TextAnswers
  BY <1>19 DEF TextAnswers, Answers, Goto
<1>20. CASE TextIsNote
  BY <1>20 DEF TextIsNote
<1>21. ASSUME NEW c \in Cards, TextIsObjective(c) PROVE TypeOK'
  BY <1>21 DEF TextIsObjective, SetStatus, Finish, Goto
<1>22. ASSUME NEW c \in Cards, CardCommand(c) PROVE TypeOK'
  BY <1>22 DEF CardCommand, SetStatus, Goto
<1>23. ASSUME NEW c \in Cards, TapYesTooLate(c) PROVE TypeOK'
  BY <1>23 DEF TapYesTooLate, SetStatus
<1>24. ASSUME NEW c \in Cards, TapEdit(c) PROVE TypeOK'
  BY <1>24 DEF TapEdit, SetStatus, Withdraws, Unsays
<1>25. ASSUME NEW c \in Cards, TapDrop(c) PROVE TypeOK'
  BY <1>25 DEF TapDrop, SetStatus, Withdraws, Unsays
<1>26. ASSUME NEW c \in Cards, ResumeGranting(c) PROVE TypeOK'
  BY <1>26 DEF ResumeGranting, Goto
<1>27. ASSUME NEW c \in Cards, ExpireCard(c) PROVE TypeOK'
  BY <1>27 DEF ExpireCard, SetStatus
<1>28. ASSUME NEW c \in Cards, TimePasses(c) PROVE TypeOK'
  BY <1>28 DEF TimePasses
<1>29. ASSUME NEW c \in Cards, NEW v \in Versions, NEW t \in Taps, TapYes(c, v, t)
       PROVE TypeOK'
  BY <1>29, TypeTapYes
<1>30. CASE UNCHANGED vars
  BY <1>30 DEF vars
<1>31. QED
  BY <1>1, <1>2, <1>3, <1>4, <1>5, <1>6, <1>7, <1>8, <1>9, <1>10, <1>11, <1>12, <1>13,
     <1>14, <1>15, <1>16, <1>17, <1>18, <1>19, <1>20, <1>21, <1>22, <1>23, <1>24,
     <1>25, <1>26, <1>27, <1>28, <1>29, <1>30 DEF Next, HandlerStep, Matthew, Hourly

\* Which actions touch what the other systems and the store's own records hold.
LEMMA Frame ==
    [Next]_vars =>
        /\ UNCHANGED approvals \/ ApprovalRecorded
        /\ UNCHANGED creator \/ ProjectCreated
        /\ UNCHANGED tasks \/ TaskCreated \/ TaskLinked
        /\ UNCHANGED plan \/ PlanStored
        /\ \/ UNCHANGED attest
           \/ ApprovalRefused
           \/ \E c \in Cards, v \in Versions, t \in Taps : TapYes(c, v, t)
<1> USE DEF store, teletraan, matthew
<1>1. CASE UNCHANGED vars
  BY <1>1 DEF vars
<1>2. CASE HandlerStep
  BY <1>2 DEF HandlerStep, NoOwners, SourceBound, DraftUnavailable, DraftIncomplete,
     DraftStored, CardSent, MarkGranting, NoAttestation, ApprovalRecorded, ApprovalRefused,
     YesForgotten, ProjectCreated, ProjectRefused, PlanStored, TaskCreated, TaskLinked,
          Granted
<1>3. CASE Abort \/ TextAnswers \/ TextIsNote
  BY <1>3 DEF Abort, TextAnswers, TextIsNote
<1>4. CASE \E c \in Cards : Matthew(c)
  BY <1>4 DEF Matthew, TextIsObjective, CardCommand, TapYes, TapYesTooLate, TapEdit, TapDrop
<1>5. CASE \E c \in Cards : Hourly(c) \/ TimePasses(c)
  BY <1>5 DEF Hourly, ResumeGranting, ExpireCard, TimePasses
<1> QED
  BY <1>1, <1>2, <1>3, <1>4, <1>5 DEF Next

\* The stored attestation of a recorded approval survives every step: only a refusal
\* forgets one, and a recorded approval is never refused (_finish_grant).
LEMMA RetriesStep == TypeOK /\ PlaceInv /\ RetriesAgree /\ [Next]_vars => RetriesAgree'
<1> SUFFICES ASSUME TypeOK, PlaceInv, RetriesAgree, [Next]_vars PROVE RetriesAgree'
  OBVIOUS
<1>1. CASE UNCHANGED <<approvals, attest>>
  BY <1>1 DEF RetriesAgree
<1>2. CASE ApprovalRecorded
  BY <1>2 DEF RetriesAgree, ApprovalRecorded, Yes, Version, TypeOK, store
<1>3. CASE ApprovalRefused
  BY <1>3 DEF RetriesAgree, ApprovalRefused, Yes, Version, TypeOK, teletraan
<1>4. ASSUME NEW c \in Cards, NEW v \in Versions, NEW t \in Taps, TapYes(c, v, t)
      PROVE  RetriesAgree'
  <2>1. attest[c][v] # None => attest' = attest
    BY <1>4 DEF TapYes, TypeOK
  <2>2. \A d \in Cards, w \in Versions : <<d, w>> # <<c, v>> => attest'[d][w] = attest[d][w]
    BY <1>4 DEF TapYes, TypeOK
  <2> QED
    BY <1>4, <2>1, <2>2, NoneAssumption DEF TapYes, RetriesAgree, TypeOK, teletraan
<1> QED
  BY <1>1, <1>2, <1>3, <1>4, Frame

\* Only project.create makes a project, and it needs the approval on record.
LEMMA ApprovedStep ==
    TypeOK /\ PlaceInv /\ GrantInv /\ ApprovedInv /\ [Next]_vars => ApprovedInv'
<1> SUFFICES ASSUME TypeOK, PlaceInv, GrantInv, ApprovedInv, [Next]_vars PROVE ApprovedInv'
  OBVIOUS
<1>1. CASE UNCHANGED <<creator, approvals>>
  BY <1>1 DEF ApprovedInv
<1>2. CASE ApprovalRecorded
  BY <1>2, NoneAssumption DEF ApprovalRecorded, ApprovedInv, Yes, Version, TypeOK
<1>3. CASE ProjectCreated
  <2>1. /\ cur \in Cards /\ Version \in Versions /\ Project \in Projects
        /\ creator' = [creator EXCEPT ![Project] = <<cur, Version>>]
        /\ approvals' = approvals
    BY <1>3, InGrant DEF ProjectCreated
  <2>2. approvals[cur][Version] # None
    BY <1>3, <2>1 DEF ProjectCreated, CreateReplays, ApprovedInv
  <2> QED
    BY <2>1, <2>2 DEF ApprovedInv, TypeOK
<1> QED
  BY <1>1, <1>2, <1>3, Frame

\* What a new task leaves of the tasks in Teletraan.
LEMMA TaskCreatedStep ==
    TypeOK /\ PlaceInv /\ GrantInv /\ PlanInv /\ TasksFollowOnePlan /\ TaskCreated
        => PlanInv' /\ TasksFollowOnePlan'
<1> SUFFICES ASSUME TypeOK, PlaceInv, GrantInv, PlanInv, TasksFollowOnePlan, TaskCreated
             PROVE  PlanInv' /\ TasksFollowOnePlan'
  OBVIOUS
<1>1. PICK p \in Projects : p = Project
  BY InGrant DEF TaskCreated
<1>2. plan[p] \in Plans /\ plan' = plan
  BY <1>1 DEF TaskCreated, PlaceInv, Project, store
<1>3. PICK i \in Missing(p) :
        tasks' = [tasks EXCEPT ![p] = @ \cup {[id |-> i, plan |-> plan[p], linked |->
             FALSE]}]
  BY <1>1 DEF TaskCreated
<1> DEFINE new == [id |-> i, plan |-> plan[p], linked |-> FALSE]
<1>4. /\ tasks'[p] = tasks[p] \cup {new}
      /\ \A q \in Projects \ {p} : tasks'[q] = tasks[q]
  BY <1>3 DEF TypeOK
<1>5. new.id = i /\ new.plan = plan[p] /\ new.linked = FALSE
  OBVIOUS
<1>6. i \in DOMAIN plan[p] /\ \A t \in tasks[p] : t.id # i
  BY <1>3 DEF Missing, Created
<1> HIDE DEF new
<1>7. PlanInv'
  BY <1>2, <1>4, <1>5, <1>6 DEF PlanInv
<1>8. Created(p) \subseteq Created(p)'
  BY <1>4 DEF Created
<1>9. ASSUME NEW t \in tasks'[p]
      PROVE  /\ t.plan = plan[p]
             /\ \A u \in tasks'[p] : u.id = t.id => u = t
             /\ t.linked => t.plan[t.id] \subseteq Created(p)
  <2>1. CASE t \in tasks[p]
    BY <2>1, <1>4, <1>5, <1>6 DEF TasksFollowOnePlan
  <2>2. CASE t = new
    BY <2>2, <1>4, <1>5, <1>6 DEF TasksFollowOnePlan
  <2> QED
    BY <2>1, <2>2, <1>4
<1>10. ASSUME NEW q \in Projects, q # p
       PROVE  Created(q)' = Created(q)
  BY <1>4, <1>10 DEF Created
<1>11. ASSUME NEW q \in Projects, NEW t \in tasks'[q]
       PROVE  /\ t.plan = plan'[q]
              /\ \A u \in tasks'[q] : u.id = t.id => u = t
              /\ t.linked => t.plan[t.id] \subseteq Created(q)'
  <2>1. CASE q = p
    BY <2>1, <1>2, <1>8, <1>9
  <2>2. CASE q # p
    BY <2>2, <1>2, <1>4, <1>10 DEF TasksFollowOnePlan
  <2> QED
    BY <2>1, <2>2
<1> QED
  BY <1>7, <1>11 DEF TasksFollowOnePlan

\* Linking replaces a task by one that differs only in being linked.
LEMMA TaskLinkedStep ==
    TypeOK /\ PlaceInv /\ GrantInv /\ PlanInv /\ TasksFollowOnePlan /\ TaskLinked
        => PlanInv' /\ TasksFollowOnePlan'
<1> SUFFICES ASSUME TypeOK, PlaceInv, GrantInv, PlanInv, TasksFollowOnePlan, TaskLinked
             PROVE  PlanInv' /\ TasksFollowOnePlan'
  OBVIOUS
<1>1. PICK p \in Projects : p = Project
  BY InGrant DEF TaskLinked
<1>2. plan[p] \in Plans /\ plan' = plan
  BY <1>1 DEF TaskLinked, PlaceInv, Project, store
<1>3. PICK t \in tasks[p] :
        /\ Least(Missing(p) \cup Unlinked(p), t.id)
        /\ tasks' = [tasks EXCEPT ![p] = (@ \ {t}) \cup {[t EXCEPT !.linked = TRUE]}]
  BY <1>1 DEF TaskLinked
<1> DEFINE new == [t EXCEPT !.linked = TRUE]
<1>4. /\ tasks'[p] = (tasks[p] \ {t}) \cup {new}
      /\ \A q \in Projects \ {p} : tasks'[q] = tasks[q]
  BY <1>3 DEF TypeOK
<1>5. t \in Task
  BY DEF TypeOK
<1>6. new.id = t.id /\ new.plan = t.plan
  BY <1>5 DEF Task
<1> HIDE DEF new
<1>7. PlanInv'
  BY <1>2, <1>4, <1>6 DEF PlanInv
<1>8. Created(p)' = Created(p)
  <2>1. ASSUME NEW u \in tasks[p]
        PROVE  u.id \in Created(p)'
    <3>1. CASE u = t
      BY <3>1, <1>4, <1>6 DEF Created
    <3>2. CASE u # t
      BY <3>2, <1>4 DEF Created
    <3> QED
      BY <3>1, <3>2
  <2>2. ASSUME NEW u \in tasks'[p]
        PROVE  u.id \in Created(p)
    BY <1>4, <1>6 DEF Created
  <2> QED
    BY <2>1, <2>2 DEF Created
<1>9. t.plan = plan[p] /\ t.id \in DOMAIN plan[p]
  BY DEF PlanInv, TasksFollowOnePlan
<1>10. t.plan[t.id] \subseteq Created(p)
  <2>1. ASSUME NEW j \in t.plan[t.id]
        PROVE  j \in DOMAIN plan[p] /\ j < t.id /\ j \in Nat /\ t.id \in Nat
    BY <1>2, <1>9, PlansAssumption
  <2>2. ASSUME NEW j \in t.plan[t.id]
        PROVE  j \notin Missing(p)
    BY <1>3, <2>1 DEF Least
  <2> QED
    BY <2>1, <2>2 DEF Missing
<1>11. ASSUME NEW u \in tasks'[p]
       PROVE  /\ u.plan = plan[p]
              /\ \A w \in tasks'[p] : w.id = u.id => w = u
              /\ u.linked => u.plan[u.id] \subseteq Created(p)
  <2>1. CASE u \in tasks[p] /\ u # t
    BY <2>1, <1>4, <1>6 DEF TasksFollowOnePlan
  <2>2. CASE u = new
    BY <2>2, <1>4, <1>6, <1>9, <1>10 DEF TasksFollowOnePlan
  <2> QED
    BY <2>1, <2>2, <1>4
<1>12. ASSUME NEW q \in Projects, q # p
       PROVE  Created(q)' = Created(q)
  BY <1>4, <1>12 DEF Created
<1>13. ASSUME NEW q \in Projects, NEW u \in tasks'[q]
       PROVE  /\ u.plan = plan'[q]
              /\ \A w \in tasks'[q] : w.id = u.id => w = u
              /\ u.linked => u.plan[u.id] \subseteq Created(q)'
  <2>1. CASE q = p
    BY <2>1, <1>2, <1>8, <1>11
  <2>2. CASE q # p
    BY <2>2, <1>2, <1>4, <1>12 DEF TasksFollowOnePlan
  <2> QED
    BY <2>1, <2>2
<1> QED
  BY <1>7, <1>13 DEF TasksFollowOnePlan

\* Tasks are made from the stored plan, and a stored plan is never changed (decompose).
LEMMA PlanStep ==
    TypeOK /\ PlaceInv /\ GrantInv /\ PlanInv /\ TasksFollowOnePlan /\ [Next]_vars
        => PlanInv' /\ TasksFollowOnePlan'
<1> SUFFICES ASSUME TypeOK, PlaceInv, GrantInv, PlanInv, TasksFollowOnePlan, [Next]_vars
             PROVE  PlanInv' /\ TasksFollowOnePlan'
  OBVIOUS
<1>1. CASE UNCHANGED <<plan, tasks>>
  BY <1>1 DEF PlanInv, TasksFollowOnePlan, Created
<1>2. CASE PlanStored
  <2>1. UNCHANGED tasks /\ Project \in Projects
    BY <1>2, InGrant DEF PlanStored, teletraan
  <2>2. ASSUME plan[Project] = None
        PROVE  tasks[Project] = {}
    BY <2>1, <2>2, NoneAssumption DEF PlanInv
  <2>3. \A p \in Projects : tasks[p] # {} => plan'[p] = plan[p]
    BY <1>2, <2>1, <2>2 DEF PlanStored, TypeOK
  <2> QED
    BY <2>1, <2>3 DEF PlanInv, TasksFollowOnePlan, Created
<1> QED
  BY <1>1, <1>2, TaskCreatedStep, TaskLinkedStep, Frame

\* Every place of a handler is entered with the card in that place's status, and the one
\* handler of the daemon is alone in changing it.
LEMMA PlaceStep == TypeOK /\ PlaceInv /\ OfferInv /\ GrantInv /\ [Next]_vars => PlaceInv'
<1> SUFFICES ASSUME TypeOK, PlaceInv, OfferInv, GrantInv, [Next]_vars PROVE PlaceInv'
  OBVIOUS
<1> USE NoneAssumption DEF PlaceInv, Idle, store, teletraan, matthew
<1>1. CASE NoOwners
  BY <1>1 DEF NoOwners, SetStatus, Finish, Goto
<1>2. CASE SourceBound
  BY <1>2 DEF SourceBound, Goto
<1>3. CASE DraftUnavailable
  BY <1>3 DEF DraftUnavailable, Finish, Goto
<1>4. CASE DraftIncomplete
  BY <1>4 DEF DraftIncomplete, Finish, Goto
<1>5. CASE DraftStored
  BY <1>5 DEF TypeOK, DraftStored, SetStatus, Goto
<1>6. CASE CardSent
  BY <1>6 DEF CardSent, Finish, Goto
<1>7. CASE MarkGranting
  BY <1>7 DEF TypeOK, MarkGranting, SetStatus, Goto
<1>8. CASE NoAttestation
  BY <1>8 DEF NoAttestation, AskAgain, SetStatus, Unsays, Finish, Goto, Yes, Version
<1>9. CASE ApprovalRecorded
  BY <1>9 DEF ApprovalRecorded, Yes, Version, Replied, Goto, Finish, Fault
<1>10. CASE ApprovalRefused
  BY <1>10 DEF ApprovalRefused, Yes, Version, Goto, Fault
<1>11. CASE YesForgotten
  BY <1>11 DEF YesForgotten, AskAgain, SetStatus, Unsays, Finish, Goto
<1>12. CASE ProjectCreated
  <2>1. creator'[Project] = <<cur, Version>> /\ UNCHANGED <<card_hash, project_id, status>>
    BY <1>12, InGrant DEF ProjectCreated, TypeOK
  <2>2. at' \in {"idle", "plan"} /\ (at' # "idle" => cur' = cur)
    BY <1>12 DEF ProjectCreated, Replied, Goto, Finish
  <2> QED
    BY <1>12, <2>1, <2>2 DEF ProjectCreated, Project, Version
<1>13. CASE ProjectRefused
  BY <1>13 DEF ProjectRefused, CreateReplays, Project, Version, Fault, AskAgain,
       SetStatus, Unsays, Finish, Goto
<1>14. CASE PlanStored
  <2>1. plan'[Project] \in Plans /\ UNCHANGED <<card_hash, project_id, status, creator>>
    BY <1>14, InGrant DEF PlanStored, TypeOK
  <2> QED
    BY <1>14, <2>1 DEF PlanStored, Goto, Project
<1>15. CASE TaskCreated
  BY <1>15 DEF TaskCreated, Project, Missing, Least, Replied, Goto, Finish, Fault
<1>16. CASE TaskLinked
  BY <1>16 DEF TaskLinked, Project, Unlinked, Least, Replied, Goto, Finish, Fault
<1>17. CASE Granted
  BY <1>17 DEF Granted, Project, SetStatus, Finish, Goto
<1>18. CASE Abort
  BY <1>18 DEF Abort, Fault, Finish, Goto
<1>19. CASE TextAnswers
  BY <1>19 DEF TextAnswers, Answers, Goto
<1>20. CASE TextIsNote
  BY <1>20 DEF TextIsNote
<1>21. ASSUME NEW c \in Cards, TextIsObjective(c) PROVE PlaceInv'
  BY <1>21 DEF TypeOK, TextIsObjective, SetStatus, Finish, Goto
<1>22. ASSUME NEW c \in Cards, CardCommand(c) PROVE PlaceInv'
  BY <1>22 DEF TypeOK, CardCommand, SetStatus, Goto
<1>23. ASSUME NEW c \in Cards, TapYesTooLate(c) PROVE PlaceInv'
  BY <1>23 DEF TapYesTooLate, SetStatus
<1>24. ASSUME NEW c \in Cards, TapEdit(c) PROVE PlaceInv'
  BY <1>24 DEF TapEdit, SetStatus, Withdraws, Unsays
<1>25. ASSUME NEW c \in Cards, TapDrop(c) PROVE PlaceInv'
  BY <1>25 DEF TapDrop, SetStatus, Withdraws, Unsays
<1>26. ASSUME NEW c \in Cards, ResumeGranting(c) PROVE PlaceInv'
  BY <1>26 DEF ResumeGranting, Goto
<1>27. ASSUME NEW c \in Cards, ExpireCard(c) PROVE PlaceInv'
  BY <1>27 DEF ExpireCard, SetStatus
<1>28. ASSUME NEW c \in Cards, TimePasses(c) PROVE PlaceInv'
  BY <1>28 DEF TimePasses
<1>29. ASSUME NEW c \in Cards, NEW v \in Versions, NEW t \in Taps, TapYes(c, v, t)
       PROVE PlaceInv'
  <2>1. at' \in {"yes", "approval"} /\ cur' = c /\ UNCHANGED <<status, card_hash>>
    BY <1>29 DEF TapYes, Goto
  <2>2. at' = "yes" => status[c] = "awaiting_yes" /\ ~aged[c]
    BY <1>29 DEF TapYes, Goto
  <2>3. at' = "approval" => status[c] = "granting"
    BY <1>29 DEF TapYes, Goto
  <2>4. at' = "yes" => consent'[c] = card_hash[c]
    BY <1>29, <2>2 DEF TapYes, Says, OfferInv, TypeOK
  <2> QED
    BY <1>29, <2>1, <2>2, <2>3, <2>4 DEF TapYes
<1>30. CASE UNCHANGED vars
  BY <1>30 DEF vars
<1>31. QED
  BY <1>1, <1>2, <1>3, <1>4, <1>5, <1>6, <1>7, <1>8, <1>9, <1>10, <1>11, <1>12, <1>13,
     <1>14, <1>15, <1>16, <1>17, <1>18, <1>19, <1>20, <1>21, <1>22, <1>23, <1>24,
     <1>25, <1>26, <1>27, <1>28, <1>29, <1>30 DEF Next, HandlerStep, Matthew, Hourly

\* A version stays on offer until it is too old, edited, dropped or replaced.
LEMMA OfferStep == TypeOK /\ PlaceInv /\ OfferInv /\ [Next]_vars => OfferInv'
<1> SUFFICES ASSUME TypeOK, PlaceInv, OfferInv, [Next]_vars PROVE OfferInv'
  OBVIOUS
<1> USE NoneAssumption DEF TypeOK, PlaceInv, OfferInv, Idle, store, teletraan, matthew
<1>1. CASE NoOwners
  BY <1>1 DEF NoOwners, SetStatus, Finish, Goto
<1>2. CASE SourceBound
  BY <1>2 DEF SourceBound, Goto
<1>3. CASE DraftUnavailable
  BY <1>3 DEF DraftUnavailable, Finish, Goto
<1>4. CASE DraftIncomplete
  BY <1>4 DEF DraftIncomplete, Finish, Goto
<1>5. CASE DraftStored
  BY <1>5 DEF DraftStored, SetStatus, Goto
<1>6. CASE CardSent
  BY <1>6 DEF CardSent, Finish, Goto
<1>7. CASE MarkGranting
  BY <1>7 DEF MarkGranting, SetStatus, Goto
<1>8. CASE NoAttestation
  BY <1>8 DEF NoAttestation, AskAgain, SetStatus, Unsays, Finish, Goto, Yes, Version
<1>9. CASE ApprovalRecorded
  BY <1>9 DEF ApprovalRecorded, Yes, Version, Replied, Goto, Finish, Fault
<1>10. CASE ApprovalRefused
  BY <1>10 DEF ApprovalRefused, Yes, Version, Goto, Fault
<1>11. CASE YesForgotten
  BY <1>11 DEF YesForgotten, AskAgain, SetStatus, Unsays, Finish, Goto
<1>12. CASE ProjectCreated
  BY <1>12 DEF ProjectCreated, CreateReplays, Project, Version, Replied, Goto, Finish, Fault
<1>13. CASE ProjectRefused
  BY <1>13 DEF ProjectRefused, CreateReplays, Project, Version, Fault, AskAgain,
       SetStatus, Unsays, Finish, Goto
<1>14. CASE PlanStored
  BY <1>14 DEF PlanStored, Project, Goto
<1>15. CASE TaskCreated
  BY <1>15 DEF TaskCreated, Project, Missing, Least, Replied, Goto, Finish, Fault
<1>16. CASE TaskLinked
  BY <1>16 DEF TaskLinked, Project, Unlinked, Least, Replied, Goto, Finish, Fault
<1>17. CASE Granted
  BY <1>17 DEF Granted, Project, SetStatus, Finish, Goto
<1>18. CASE Abort
  BY <1>18 DEF Abort, Fault, Finish, Goto
<1>19. CASE TextAnswers
  BY <1>19 DEF TextAnswers, Answers, Goto
<1>20. CASE TextIsNote
  BY <1>20 DEF TextIsNote
<1>21. ASSUME NEW c \in Cards, TextIsObjective(c) PROVE OfferInv'
  BY <1>21 DEF TextIsObjective, SetStatus, Finish, Goto
<1>22. ASSUME NEW c \in Cards, CardCommand(c) PROVE OfferInv'
  BY <1>22 DEF CardCommand, SetStatus, Goto
<1>23. ASSUME NEW c \in Cards, TapYesTooLate(c) PROVE OfferInv'
  BY <1>23 DEF TapYesTooLate, SetStatus
<1>24. ASSUME NEW c \in Cards, TapEdit(c) PROVE OfferInv'
  BY <1>24 DEF TapEdit, SetStatus, Withdraws, Unsays
<1>25. ASSUME NEW c \in Cards, TapDrop(c) PROVE OfferInv'
  BY <1>25 DEF TapDrop, SetStatus, Withdraws, Unsays
<1>26. ASSUME NEW c \in Cards, ResumeGranting(c) PROVE OfferInv'
  BY <1>26 DEF ResumeGranting, Goto
<1>27. ASSUME NEW c \in Cards, ExpireCard(c) PROVE OfferInv'
  BY <1>27 DEF ExpireCard, SetStatus
<1>28. ASSUME NEW c \in Cards, TimePasses(c) PROVE OfferInv'
  BY <1>28 DEF TimePasses
<1>29. ASSUME NEW c \in Cards, NEW v \in Versions, NEW t \in Taps, TapYes(c, v, t)
       PROVE OfferInv'
  BY <1>29 DEF TapYes, Goto, Says
<1>30. CASE UNCHANGED vars
  BY <1>30 DEF vars
<1>31. QED
  BY <1>1, <1>2, <1>3, <1>4, <1>5, <1>6, <1>7, <1>8, <1>9, <1>10, <1>11, <1>12, <1>13,
     <1>14, <1>15, <1>16, <1>17, <1>18, <1>19, <1>20, <1>21, <1>22, <1>23, <1>24,
     <1>25, <1>26, <1>27, <1>28, <1>29, <1>30 DEF Next, HandlerStep, Matthew, Hourly

\* A card that is granting or granted keeps its version, its project id and its yes.
LEMMA GrantStep == TypeOK /\ PlaceInv /\ GrantInv /\ [Next]_vars => GrantInv'
<1> SUFFICES ASSUME TypeOK, PlaceInv, GrantInv, [Next]_vars PROVE GrantInv'
  OBVIOUS
<1> USE ProjectOfAssumption DEF TypeOK, PlaceInv, GrantInv, Idle, store, teletraan,
        matthew
<1>1. CASE NoOwners
  BY <1>1 DEF NoOwners, SetStatus, Finish, Goto
<1>2. CASE SourceBound
  BY <1>2 DEF SourceBound, Goto
<1>3. CASE DraftUnavailable
  BY <1>3 DEF DraftUnavailable, Finish, Goto
<1>4. CASE DraftIncomplete
  BY <1>4 DEF DraftIncomplete, Finish, Goto
<1>5. CASE DraftStored
  BY <1>5 DEF DraftStored, SetStatus, Goto
<1>6. CASE CardSent
  BY <1>6 DEF CardSent, Finish, Goto
<1>7. CASE MarkGranting
  BY <1>7 DEF MarkGranting, SetStatus, Goto
<1>8. CASE NoAttestation
  BY <1>8 DEF NoAttestation, AskAgain, SetStatus, Unsays, Finish, Goto, Yes, Version
<1>9. CASE ApprovalRecorded
  BY <1>9 DEF ApprovalRecorded, Yes, Version, Replied, Goto, Finish, Fault
<1>10. CASE ApprovalRefused
  BY <1>10 DEF ApprovalRefused, Yes, Version, Goto, Fault
<1>11. CASE YesForgotten
  BY <1>11 DEF YesForgotten, AskAgain, SetStatus, Unsays, Finish, Goto
<1>12. CASE ProjectCreated
  BY <1>12 DEF ProjectCreated, CreateReplays, Project, Version, Replied, Goto, Finish, Fault
<1>13. CASE ProjectRefused
  BY <1>13 DEF ProjectRefused, CreateReplays, Project, Version, Fault, AskAgain,
       SetStatus, Unsays, Finish, Goto
<1>14. CASE PlanStored
  BY <1>14 DEF PlanStored, Project, Goto
<1>15. CASE TaskCreated
  BY <1>15 DEF TaskCreated, Project, Missing, Least, Replied, Goto, Finish, Fault
<1>16. CASE TaskLinked
  BY <1>16 DEF TaskLinked, Project, Unlinked, Least, Replied, Goto, Finish, Fault
<1>17. CASE Granted
  BY <1>17 DEF Granted, Project, SetStatus, Finish, Goto
<1>18. CASE Abort
  BY <1>18 DEF Abort, Fault, Finish, Goto
<1>19. CASE TextAnswers
  BY <1>19 DEF TextAnswers, Answers, Goto
<1>20. CASE TextIsNote
  BY <1>20 DEF TextIsNote
<1>21. ASSUME NEW c \in Cards, TextIsObjective(c) PROVE GrantInv'
  BY <1>21 DEF TextIsObjective, SetStatus, Finish, Goto
<1>22. ASSUME NEW c \in Cards, CardCommand(c) PROVE GrantInv'
  BY <1>22 DEF CardCommand, SetStatus, Goto
<1>23. ASSUME NEW c \in Cards, TapYesTooLate(c) PROVE GrantInv'
  BY <1>23 DEF TapYesTooLate, SetStatus
<1>24. ASSUME NEW c \in Cards, TapEdit(c) PROVE GrantInv'
  BY <1>24 DEF TapEdit, SetStatus, Withdraws, Unsays
<1>25. ASSUME NEW c \in Cards, TapDrop(c) PROVE GrantInv'
  BY <1>25 DEF TapDrop, SetStatus, Withdraws, Unsays
<1>26. ASSUME NEW c \in Cards, ResumeGranting(c) PROVE GrantInv'
  BY <1>26 DEF ResumeGranting, Goto
<1>27. ASSUME NEW c \in Cards, ExpireCard(c) PROVE GrantInv'
  BY <1>27 DEF ExpireCard, SetStatus
<1>28. ASSUME NEW c \in Cards, TimePasses(c) PROVE GrantInv'
  BY <1>28 DEF TimePasses
<1>29. ASSUME NEW c \in Cards, NEW v \in Versions, NEW t \in Taps, TapYes(c, v, t)
       PROVE GrantInv'
  BY <1>29 DEF TapYes, Goto, Says
<1>30. CASE UNCHANGED vars
  BY <1>30 DEF vars
<1>31. QED
  BY <1>1, <1>2, <1>3, <1>4, <1>5, <1>6, <1>7, <1>8, <1>9, <1>10, <1>11, <1>12, <1>13,
     <1>14, <1>15, <1>16, <1>17, <1>18, <1>19, <1>20, <1>21, <1>22, <1>23, <1>24,
     <1>25, <1>26, <1>27, <1>28, <1>29, <1>30 DEF Next, HandlerStep, Matthew, Hourly

\* A card that has not been said yes to, or whose id is free, has no project.
LEMMA NoProject ==
    ASSUME ProjectKeepsCard, NEW c \in Cards,
           \/ status[c] \notin {"granting", "granted"}
           \/ status[c] = "granting" /\ creator[project_id[c]] = None
    PROVE  \A p \in Projects, v \in Versions : creator[p] # <<c, v>>
<1> SUFFICES ASSUME NEW p \in Projects, NEW v \in Versions, creator[p] = <<c, v>>
             PROVE  FALSE
  OBVIOUS
<1>1. status[c] \in {"granting", "granted"} /\ project_id[c] = p
  BY DEF ProjectKeepsCard
<1>2. <<c, v>> # None
  BY NoneAssumption
<1> QED
  BY <1>1, <1>2

\* A card with a project stays granting or granted with that project and version.
LEMMA KeepsStep ==
    TypeOK /\ PlaceInv /\ GrantInv /\ ApprovedInv /\ RetriesAgree /\ ProjectKeepsCard /\
         [Next]_vars
        => ProjectKeepsCard'
<1> SUFFICES ASSUME TypeOK, PlaceInv, GrantInv, ApprovedInv, RetriesAgree,
     ProjectKeepsCard, [Next]_vars
             PROVE  ProjectKeepsCard'
  OBVIOUS
<1> USE NoneAssumption DEF TypeOK, PlaceInv, ProjectKeepsCard, Idle, store, teletraan,
        matthew
<1>1. CASE NoOwners
  BY <1>1 DEF NoOwners, SetStatus, Finish, Goto
<1>2. CASE SourceBound
  BY <1>2 DEF SourceBound, Goto
<1>3. CASE DraftUnavailable
  BY <1>3 DEF DraftUnavailable, Finish, Goto
<1>4. CASE DraftIncomplete
  BY <1>4 DEF DraftIncomplete, Finish, Goto
<1>5. CASE DraftStored
  BY <1>5 DEF DraftStored, SetStatus, Goto
<1>6. CASE CardSent
  BY <1>6 DEF CardSent, Finish, Goto
<1>7. CASE MarkGranting
  <2>1. cur \in Cards /\ status[cur] = "awaiting_yes"
    BY <1>7 DEF MarkGranting
  <2>2. \A p \in Projects, v \in Versions : creator[p] # <<cur, v>>
    BY <2>1, NoProject
  <2>3. /\ UNCHANGED <<creator, card_hash>>
        /\ \A c \in Cards \ {cur} : status'[c] = status[c] /\ project_id'[c] = project_id[c]
    BY <1>7 DEF MarkGranting, SetStatus
  <2> QED
    BY <2>2, <2>3
<1>8. CASE NoAttestation
  <2>1. cur \in Cards /\ Version \in Versions /\ approvals[cur][Version] = None
    BY <1>8, InGrant DEF NoAttestation, Yes, RetriesAgree
  <2> QED
    BY <1>8, <2>1 DEF NoAttestation, AskAgain, SetStatus, Version, ApprovedInv
<1>9. CASE ApprovalRecorded
  BY <1>9 DEF ApprovalRecorded, Yes, Version, Replied, Goto, Finish, Fault
<1>10. CASE ApprovalRefused
  BY <1>10 DEF ApprovalRefused, Yes, Version, Goto, Fault
<1>11. CASE YesForgotten
  <2>1. cur \in Cards /\ Version \in Versions /\ approvals[cur][Version] = None
    BY <1>11, InGrant DEF YesForgotten, Version
  <2> QED
    BY <1>11, <2>1 DEF YesForgotten, AskAgain, SetStatus, Version, ApprovedInv
<1>12. CASE ProjectCreated
  <2>1. /\ status[cur] = "granting" /\ cur \in Cards /\ Project \in Projects
        /\ creator' = [creator EXCEPT ![Project] = <<cur, Version>>]
        /\ UNCHANGED <<status, card_hash, project_id>>
    BY <1>12, InGrant DEF ProjectCreated
  <2> SUFFICES ASSUME NEW p \in Projects, NEW c \in Cards, NEW v \in Versions,
                      creator'[p] = <<c, v>>
               PROVE  /\ status[c] \in {"granting", "granted"}
                      /\ card_hash[c] = v
                      /\ project_id[c] = p
    BY <2>1
  <2>2. CASE p = Project
    BY <2>1, <2>2 DEF Version, Project
  <2>3. CASE p # Project
    BY <2>1, <2>3
  <2> QED
    BY <2>2, <2>3
<1>13. CASE ProjectRefused
  BY <1>13 DEF ProjectRefused, CreateReplays, Project, Version, Fault, AskAgain,
       SetStatus, Unsays, Finish, Goto
<1>14. CASE PlanStored
  BY <1>14 DEF PlanStored, Project, Goto
<1>15. CASE TaskCreated
  BY <1>15 DEF TaskCreated, Project, Missing, Least, Replied, Goto, Finish, Fault
<1>16. CASE TaskLinked
  BY <1>16 DEF TaskLinked, Project, Unlinked, Least, Replied, Goto, Finish, Fault
<1>17. CASE Granted
  BY <1>17 DEF Granted, Project, SetStatus, Finish, Goto
<1>18. CASE Abort
  BY <1>18 DEF Abort, Fault, Finish, Goto
<1>19. CASE TextAnswers
  BY <1>19 DEF TextAnswers, Answers, Goto
<1>20. CASE TextIsNote
  BY <1>20 DEF TextIsNote
<1>21. ASSUME NEW c \in Cards, TextIsObjective(c) PROVE ProjectKeepsCard'
  BY <1>21 DEF TextIsObjective, SetStatus, Finish, Goto
<1>22. ASSUME NEW c \in Cards, CardCommand(c) PROVE ProjectKeepsCard'
  BY <1>22 DEF CardCommand, SetStatus, Goto
<1>23. ASSUME NEW c \in Cards, TapYesTooLate(c) PROVE ProjectKeepsCard'
  BY <1>23 DEF TapYesTooLate, SetStatus
<1>24. ASSUME NEW c \in Cards, TapEdit(c) PROVE ProjectKeepsCard'
  BY <1>24 DEF TapEdit, SetStatus, Withdraws, Unsays
<1>25. ASSUME NEW c \in Cards, TapDrop(c) PROVE ProjectKeepsCard'
  <2>1. status[c] # "granted" /\ (status[c] = "granting" => creator[project_id[c]] = None)
    BY <1>25 DEF TapDrop
  <2>2. \A p \in Projects, v \in Versions : creator[p] # <<c, v>>
    BY <2>1, NoProject
  <2> QED
    BY <1>25, <2>2 DEF TapDrop, SetStatus
<1>26. ASSUME NEW c \in Cards, ResumeGranting(c) PROVE ProjectKeepsCard'
  BY <1>26 DEF ResumeGranting, Goto
<1>27. ASSUME NEW c \in Cards, ExpireCard(c) PROVE ProjectKeepsCard'
  BY <1>27 DEF ExpireCard, SetStatus
<1>28. ASSUME NEW c \in Cards, TimePasses(c) PROVE ProjectKeepsCard'
  BY <1>28 DEF TimePasses
<1>29. ASSUME NEW c \in Cards, NEW v \in Versions, NEW t \in Taps, TapYes(c, v, t)
       PROVE ProjectKeepsCard'
  BY <1>29 DEF TapYes, Goto, Says
<1>30. CASE UNCHANGED vars
  BY <1>30 DEF vars
<1>31. QED
  BY <1>1, <1>2, <1>3, <1>4, <1>5, <1>6, <1>7, <1>8, <1>9, <1>10, <1>11, <1>12, <1>13,
     <1>14, <1>15, <1>16, <1>17, <1>18, <1>19, <1>20, <1>21, <1>22, <1>23, <1>24,
     <1>25, <1>26, <1>27, <1>28, <1>29, <1>30 DEF Next, HandlerStep, Matthew, Hourly

\* A plan is stored only once its project exists.
LEMMA PlannedStep ==
    TypeOK /\ PlaceInv /\ GrantInv /\ PlannedInv /\ [Next]_vars => PlannedInv'
<1> SUFFICES ASSUME TypeOK, PlaceInv, GrantInv, PlannedInv, [Next]_vars PROVE PlannedInv'
  OBVIOUS
<1>1. \A p \in Projects : creator[p] # None => creator'[p] # None
  <2>1. CASE ProjectCreated
    <3>1. cur \in Cards /\ Version \in Versions /\ Project \in Projects
      BY <2>1, InGrant DEF ProjectCreated
    <3>2. creator' = [creator EXCEPT ![Project] = <<cur, Version>>] /\ <<cur, Version>>
         # None
      BY <2>1, <3>1, NoneAssumption DEF ProjectCreated
    <3> QED
      BY <3>1, <3>2 DEF TypeOK
  <2> QED
    BY <2>1, Frame
<1>2. CASE UNCHANGED plan
  BY <1>1, <1>2 DEF PlannedInv
<1>3. CASE PlanStored
  <2>1. cur \in Cards /\ Version \in Versions /\ creator[Project] = <<cur, Version>>
    BY <1>3, InGrant DEF PlanStored, PlaceInv, Project, Version
  <2>2. creator[Project] # None
    BY <2>1, NoneAssumption
  <2>3. \A p \in Projects \ {Project} : plan'[p] = plan[p]
    BY <1>3 DEF PlanStored, TypeOK
  <2> QED
    BY <1>1, <2>2, <2>3 DEF PlannedInv
<1> QED
  BY <1>2, <1>3, Frame

\* A project that has been set up stays so: only an unfinished one is worked on.
LEMMA CompleteStays ==
    ASSUME TypeOK, PlaceInv, GrantInv, [Next]_vars, NEW p \in Projects, Complete(p)
    PROVE  plan'[p] = plan[p] /\ tasks'[p] = tasks[p] /\ Complete(p)'
<1>1. plan'[p] = plan[p]
  BY Frame DEF PlanStored, Complete, TypeOK
<1>2. tasks'[p] = tasks[p]
  <2>1. CASE TaskCreated
    <3>1. Project # p
      BY <2>1 DEF TaskCreated, Complete
    <3> QED
      BY <2>1, <3>1 DEF TaskCreated, TypeOK
  <2>2. CASE TaskLinked
    <3>1. Project # p
      BY <2>2 DEF TaskLinked, Complete
    <3> QED
      BY <2>2, <3>1 DEF TaskLinked, TypeOK
  <2> QED
    BY <2>1, <2>2, Frame
<1> QED
  BY <1>1, <1>2 DEF Complete, Missing, Unlinked, Created

\* What a new project leaves of the others.
LEMMA CreatorStays ==
    ASSUME TypeOK, PlaceInv, GrantInv, [Next]_vars, NEW p \in Projects, creator[p] # None
    PROVE  creator'[p] = creator[p]
<1>1. CASE ProjectCreated
  <2>1. Project = p => creator[p] = <<cur, Version>>
    BY <1>1 DEF ProjectCreated, CreateReplays
  <2> QED
    BY <1>1, <2>1 DEF ProjectCreated, TypeOK
<1> QED
  BY <1>1, Frame

\* Who makes a card granted, and what a step may change of a granted card.
LEMMA GrantedFrame ==
    ASSUME TypeOK, PlaceInv, [Next]_vars, NEW d \in Cards, status'[d] = "granted"
    PROVE  \/ /\ status[d] = "granted"
              /\ card_hash'[d] = card_hash[d]
              /\ project_id'[d] = project_id[d]
           \/ Granted /\ d = cur
<1> DEFINE Same == /\ status[d] = "granted"
                   /\ card_hash'[d] = card_hash[d]
                   /\ project_id'[d] = project_id[d]
<1> USE NoneAssumption DEF TypeOK, PlaceInv, Idle, store, teletraan, matthew
<1>1. CASE NoOwners
  BY <1>1 DEF NoOwners, SetStatus, Finish, Goto
<1>2. CASE SourceBound
  BY <1>2 DEF SourceBound, Goto
<1>3. CASE DraftUnavailable
  BY <1>3 DEF DraftUnavailable, Finish, Goto
<1>4. CASE DraftIncomplete
  BY <1>4 DEF DraftIncomplete, Finish, Goto
<1>5. CASE DraftStored
  BY <1>5 DEF DraftStored, SetStatus, Goto
<1>6. CASE CardSent
  BY <1>6 DEF CardSent, Finish, Goto
<1>7. CASE MarkGranting
  BY <1>7 DEF MarkGranting, SetStatus, Goto
<1>8. CASE NoAttestation
  BY <1>8 DEF NoAttestation, AskAgain, SetStatus, Unsays, Finish, Goto, Yes, Version
<1>9. CASE ApprovalRecorded
  BY <1>9 DEF ApprovalRecorded, Yes, Version, Replied, Goto, Finish, Fault
<1>10. CASE ApprovalRefused
  BY <1>10 DEF ApprovalRefused, Yes, Version, Goto, Fault
<1>11. CASE YesForgotten
  BY <1>11 DEF YesForgotten, AskAgain, SetStatus, Unsays, Finish, Goto
<1>12. CASE ProjectCreated
  BY <1>12 DEF ProjectCreated, CreateReplays, Project, Version, Replied, Goto, Finish, Fault
<1>13. CASE ProjectRefused
  BY <1>13 DEF ProjectRefused, CreateReplays, Project, Version, Fault, AskAgain,
       SetStatus, Unsays, Finish, Goto
<1>14. CASE PlanStored
  BY <1>14 DEF PlanStored, Project, Goto
<1>15. CASE TaskCreated
  BY <1>15 DEF TaskCreated, Project, Missing, Least, Replied, Goto, Finish, Fault
<1>16. CASE TaskLinked
  BY <1>16 DEF TaskLinked, Project, Unlinked, Least, Replied, Goto, Finish, Fault
<1>17. CASE Granted
  <2>1. CASE d = cur
    BY <1>17, <2>1
  <2>2. CASE d # cur
    BY <1>17, <2>2 DEF Granted, SetStatus
  <2> QED
    BY <2>1, <2>2
<1>18. CASE Abort
  BY <1>18 DEF Abort, Fault, Finish, Goto
<1>19. CASE TextAnswers
  BY <1>19 DEF TextAnswers, Answers, Goto
<1>20. CASE TextIsNote
  BY <1>20 DEF TextIsNote
<1>21. ASSUME NEW c \in Cards, TextIsObjective(c) PROVE Same
  BY <1>21 DEF TextIsObjective, SetStatus, Finish, Goto
<1>22. ASSUME NEW c \in Cards, CardCommand(c) PROVE Same
  BY <1>22 DEF CardCommand, SetStatus, Goto
<1>23. ASSUME NEW c \in Cards, TapYesTooLate(c) PROVE Same
  BY <1>23 DEF TapYesTooLate, SetStatus
<1>24. ASSUME NEW c \in Cards, TapEdit(c) PROVE Same
  BY <1>24 DEF TapEdit, SetStatus, Withdraws, Unsays
<1>25. ASSUME NEW c \in Cards, TapDrop(c) PROVE Same
  BY <1>25 DEF TapDrop, SetStatus, Withdraws, Unsays
<1>26. ASSUME NEW c \in Cards, ResumeGranting(c) PROVE Same
  BY <1>26 DEF ResumeGranting, Goto
<1>27. ASSUME NEW c \in Cards, ExpireCard(c) PROVE Same
  BY <1>27 DEF ExpireCard, SetStatus
<1>28. ASSUME NEW c \in Cards, TimePasses(c) PROVE Same
  BY <1>28 DEF TimePasses
<1>29. ASSUME NEW c \in Cards, NEW v \in Versions, NEW t \in Taps, TapYes(c, v, t)
       PROVE Same
  BY <1>29 DEF TapYes, Goto, Says
<1>30. CASE UNCHANGED vars
  BY <1>30 DEF vars
<1>31. QED
  BY <1>1, <1>2, <1>3, <1>4, <1>5, <1>6, <1>7, <1>8, <1>9, <1>10, <1>11, <1>12, <1>13,
     <1>14, <1>15, <1>16, <1>17, <1>18, <1>19, <1>20, <1>21, <1>22, <1>23, <1>24,
     <1>25, <1>26, <1>27, <1>28, <1>29, <1>30 DEF Next, HandlerStep, Matthew, Hourly

\* A card that says granted has its whole project, and keeps it.
LEMMA GrantedStep ==
    TypeOK /\ PlaceInv /\ GrantInv /\ GrantedIsComplete /\ [Next]_vars => GrantedIsComplete'
<1> SUFFICES ASSUME TypeOK, PlaceInv, GrantInv, GrantedIsComplete, [Next]_vars,
                    NEW d \in Cards, status'[d] = "granted"
             PROVE  /\ creator'[project_id'[d]] = <<d, card_hash'[d]>>
                    /\ Complete(project_id[d])'
  BY DEF GrantedIsComplete
<1>1. CASE /\ status[d] = "granted"
           /\ card_hash'[d] = card_hash[d]
           /\ project_id'[d] = project_id[d]
  <2>1. PICK p \in Projects : p = project_id[d]
    BY <1>1, ProjectOfAssumption DEF TypeOK, GrantInv
  <2>2. creator[p] = <<d, card_hash[d]>> /\ Complete(p) /\ card_hash[d] \in Versions
    BY <1>1, <2>1 DEF GrantedIsComplete, GrantInv
  <2>3. creator[p] # None
    BY <2>2, NoneAssumption
  <2>4. creator'[p] = creator[p] /\ Complete(p)'
    BY <2>2, <2>3, CompleteStays, CreatorStays
  <2> QED
    BY <1>1, <2>1, <2>2, <2>4 DEF Complete, Missing, Unlinked, Created
<1>2. CASE Granted /\ d = cur
  <2>1. PICK p \in Projects : p = Project
    BY <1>2, InGrant DEF Granted
  <2>2. /\ creator[p] = <<d, card_hash[d]>>
        /\ plan[p] \in Plans
    BY <1>2, <2>1 DEF Granted, PlaceInv, Project
  <2>3. /\ UNCHANGED <<card_hash, project_id, creator, plan, tasks>>
        /\ Missing(p) = {} /\ Unlinked(p) = {}
        /\ project_id[d] = p
    BY <1>2, <2>1 DEF Granted, teletraan, Project
  <2>4. Complete(p)
    BY <2>2, <2>3, NoneAssumption DEF Complete
  <2>5. Complete(project_id[d])'
    BY <2>3, <2>4 DEF Complete, Missing, Unlinked, Created
  <2> QED
    BY <2>2, <2>3, <2>5
<1> QED
  BY <1>1, <1>2, GrantedFrame

-----------------------------------------------------------------------------
(* The theorems *)

\* Nothing has happened at first.
LEMMA InitIInv == Init => IInv
  BY NoneAssumption, FaultsAssumption
     DEF Init, IInv, TypeOK, PlaceInv, OfferInv, GrantInv, ApprovedInv, PlanInv, PlannedInv,
         ProjectKeepsCard, GrantedIsComplete, TasksFollowOnePlan, RetriesAgree,
              Statuses, Places

\* The parts of IInv are kept by every step, each by its lemma.
LEMMA NextIInv == IInv /\ [Next]_vars => IInv'
  BY TypeStep, PlaceStep, OfferStep, GrantStep, ApprovedStep, PlanStep, PlannedStep,
     KeepsStep, GrantedStep, RetriesStep DEF IInv

\* The inductive invariant holds in every reachable state, whatever is interrupted.
THEOREM Invariance == Spec => []IInv
<1>1. Init => IInv
  BY InitIInv
<1>2. IInv /\ [Next]_vars => IInv'
  BY NextIInv
<1> QED
  BY <1>1, <1>2, PTL DEF Spec

\* Every variable keeps its type: a card's status is one of CARD_STATES.
THEOREM TypeCorrect == Spec => []TypeOK
<1>1. IInv => TypeOK
  BY DEF IInv
<1> QED
  BY <1>1, Invariance, PTL

\* Once Teletraan has a card's project, nothing closes, edits or replaces the card:
\* not Drop, not the expiry, not a refusal or a crash in approve and _finish_grant.
THEOREM ProjectIsKept == Spec => []ProjectKeepsCard
<1>1. IInv => ProjectKeepsCard
  BY DEF IInv
<1> QED
  BY <1>1, Invariance, PTL

\* _finish_grant says granted only of a project with all of its tasks and dependencies.
THEOREM GrantIsComplete == Spec => []GrantedIsComplete
<1>1. IInv => GrantedIsComplete
  BY DEF IInv
<1> QED
  BY <1>1, Invariance, PTL

\* A project is made from the version Matthew said yes to and has not taken back.
THEOREM ConsentBinds == Spec => []YesBinds
<1>1. IInv => YesBinds
  BY DEF IInv, GrantInv, ProjectKeepsCard, YesBinds
<1> QED
  BY <1>1, Invariance, PTL

\* While decompose has not made all of a project's tasks and dependencies, a
\* granting card names the project, so the router holds its wakes.
THEOREM SetupHeld == Spec => []SetupIsHeld
<1>1. IInv => SetupIsHeld
  <2> SUFFICES ASSUME IInv, NEW p \in Projects, creator[p] # None, ~Complete(p)
               PROVE  Held(p)
    BY DEF SetupIsHeld
  <2>1. PICK c \in Cards, v \in Versions : creator[p] = <<c, v>>
    BY DEF IInv, TypeOK
  <2>2. /\ status[c] \in {"granting", "granted"}
        /\ project_id[c] = p
    BY <2>1 DEF IInv, ProjectKeepsCard
  <2>3. status[c] # "granted"
    BY <2>2 DEF IInv, GrantedIsComplete
  <2> QED
    BY <2>2, <2>3 DEF Held
<1> QED
  BY <1>1, Invariance, PTL

\* However decompose is interrupted and resumed, the tasks of a project are the
\* entries of one plan, each made once, and a dependency names an existing task.
THEOREM OnePlan == Spec => []TasksFollowOnePlan
<1>1. IInv => TasksFollowOnePlan
  BY DEF IInv
<1> QED
  BY <1>1, Invariance, PTL

\* The attestation behind a recorded approval is kept, so a retry agrees with it.
THEOREM RetriesReplay == Spec => []RetriesAgree
<1>1. IInv => RetriesAgree
  BY DEF IInv
<1> QED
  BY <1>1, Invariance, PTL

-----------------------------------------------------------------------------
(* CardIntake implements Authority *)

\* Which steps touch Matthew's yes.
LEMMA ConsentFrame ==
    ASSUME [Next]_vars
    PROVE  \/ UNCHANGED consent
           \/ \E c \in Cards, v \in Versions, t \in Taps : TapYes(c, v, t)
           \/ NoAttestation \/ YesForgotten \/ ProjectRefused
           \/ \E c \in Cards : TapEdit(c) \/ TapDrop(c)
<1> USE DEF matthew
<1>1. CASE UNCHANGED vars
  BY <1>1 DEF vars
<1>2. CASE HandlerStep
  BY <1>2 DEF HandlerStep, NoOwners, SourceBound, DraftUnavailable, DraftIncomplete,
     DraftStored, CardSent, MarkGranting, NoAttestation, ApprovalRecorded, ApprovalRefused,
     YesForgotten, ProjectCreated, ProjectRefused, PlanStored, TaskCreated, TaskLinked,
          Granted
<1>3. CASE Abort \/ TextAnswers \/ TextIsNote
  BY <1>3 DEF Abort, TextAnswers, TextIsNote
<1>4. CASE \E c \in Cards : Matthew(c)
  BY <1>4 DEF Matthew, TextIsObjective, CardCommand, TapYesTooLate
<1>5. CASE \E c \in Cards : Hourly(c) \/ TimePasses(c)
  BY <1>5 DEF Hourly, ResumeGranting, ExpireCard, TimePasses
<1> QED
  BY <1>1, <1>2, <1>3, <1>4, <1>5 DEF Next

\* A yes is taken back only from a card without a project.
LEMMA UnsaysStep ==
    ASSUME IInv, [Next]_vars, NEW c \in Cards, Unsays(c),
           UNCHANGED teletraan, UNCHANGED plan, status'[c] \notin {"granting", "granted"}
    PROVE  A!TakeBack(c)
<1>1. ProjectKeepsCard'
  BY KeepsStep DEF IInv
<1>2. ~A!HasProject(c)
  BY <1>1 DEF ProjectKeepsCard, A!HasProject, teletraan
<1>3. Setup' = Setup
  BY DEF Setup, Complete, Missing, Unlinked, Created, teletraan
<1> QED
  BY <1>2, <1>3 DEF A!TakeBack, Unsays, teletraan

\* A tap on Yes says yes to a card without a project, or repeats itself.
LEMMA TapYesStep ==
    ASSUME IInv, [Next]_vars, NEW c \in Cards, NEW v \in Versions, NEW t \in Taps,
           TapYes(c, v, t)
    PROVE  A!SayYes(c, v) \/ UNCHANGED A!vars
<1>1. UNCHANGED <<creator, plan, tasks>> /\ Setup' = Setup
  BY DEF TapYes, teletraan, Setup, Complete, Missing, Unlinked, Created
<1>2. CASE consent' = consent
  BY <1>1, <1>2 DEF A!vars
<1>3. CASE consent' # consent
  <2>1. consent' = [consent EXCEPT ![c] = v] /\ consent[c] # v
    BY <1>3 DEF TapYes, Says, IInv, TypeOK
  <2>2. status[c] \notin {"granting", "granted"}
    BY <2>1 DEF TapYes, IInv, GrantInv
  <2>3. ~A!HasProject(c)
    BY <2>2 DEF IInv, ProjectKeepsCard, A!HasProject
  <2> QED
    BY <1>1, <2>1, <2>3 DEF A!SayYes
<1> QED
  BY <1>2, <1>3

\* project.create makes a card's first project, from the version on which the
\* card stands; under a replayed command it changes nothing.
LEMMA ProjectCreatedStep ==
    ASSUME IInv, ProjectCreated
    PROVE  \/ \E p \in Projects, c \in Cards, v \in Versions : A!Create(p, c, v)
           \/ UNCHANGED A!vars
<1>1. PICK p \in Projects, c \in Cards, v \in Versions :
        p = Project /\ c = cur /\ v = Version
  BY InGrant DEF IInv, ProjectCreated
<1>2. /\ status[c] = "granting" /\ consent[c] = v /\ project_id[c] = p
      /\ creator' = [creator EXCEPT ![p] = <<c, v>>]
      /\ UNCHANGED <<consent, plan, tasks>>
  BY <1>1, InGrant DEF IInv, ProjectCreated, Project, matthew, store
<1>3. creator \in [Projects -> (Cards \X Versions) \cup {None}] /\ <<c, v>> # None
  BY NoneAssumption DEF IInv, TypeOK
<1>4. \A q \in Projects : Complete(q)' = Complete(q)
  BY <1>2 DEF Complete, Missing, Unlinked, Created
<1>5. CASE creator[p] = <<c, v>>
  <2>1. creator' = creator
    BY <1>2, <1>3, <1>5
  <2> QED
    BY <1>2, <1>4, <2>1 DEF A!vars, Setup
<1>6. CASE creator[p] = None
  <2>1. ~A!HasProject(c)
    BY <1>2, <1>6, NoProject DEF IInv, A!HasProject
  <2>2. ~Complete(p)
    BY <1>6 DEF IInv, PlannedInv, Complete
  <2>3. Setup' = [Setup EXCEPT ![p] = "partial"]
    <3>1. creator'[p] # None /\ \A q \in Projects \ {p} : creator'[q] = creator[q]
      BY <1>2, <1>3
    <3>2. \A q \in Projects : Setup'[q] = IF q = p THEN "partial" ELSE Setup[q]
      BY <1>4, <2>2, <3>1 DEF Setup
    <3> QED
      BY <3>2 DEF Setup
  <2> QED
    BY <1>2, <1>6, <2>1, <2>3 DEF A!Create
<1> QED
  BY <1>1, <1>5, <1>6 DEF ProjectCreated, CreateReplays

\* Storing a plan, making a task or linking one works on one project, and that
\* project exists and is not yet complete.
LEMMA SetupStep ==
    ASSUME IInv, [Next]_vars, PlanStored \/ TaskCreated \/ TaskLinked
    PROVE  (\E p \in Projects : A!Finish(p)) \/ UNCHANGED A!vars
<1>1. PICK p \in Projects, c \in Cards, v \in Versions :
        p = Project /\ c = cur /\ v = Version
  BY InGrant DEF IInv, PlanStored, TaskCreated, TaskLinked
<1>2. creator[p] = <<c, v>>
  BY <1>1 DEF IInv, PlaceInv, PlanStored, TaskCreated, TaskLinked, Project, Version
<1>3. creator[p] # None
  BY <1>2, NoneAssumption
<1>4. UNCHANGED <<creator, consent>>
  BY DEF PlanStored, TaskCreated, TaskLinked, teletraan, matthew
<1>5. \A q \in Projects \ {p} : plan'[q] = plan[q] /\ tasks'[q] = tasks[q]
  BY <1>1 DEF PlanStored, TaskCreated, TaskLinked, IInv, TypeOK, store, teletraan
<1>6. \A q \in Projects \ {p} : Setup'[q] = Setup[q]
  BY <1>4, <1>5 DEF Setup, Complete, Missing, Unlinked, Created
<1>7. CASE Complete(p)' = Complete(p)
  <2>1. Setup' = Setup
    BY <1>4, <1>6, <1>7 DEF Setup
  <2> QED
    BY <1>4, <2>1 DEF A!vars
<1>8. CASE ~Complete(p) /\ Complete(p)'
  <2>1. Setup[p] = "partial" /\ Setup'[p] = "complete"
    BY <1>3, <1>4, <1>8 DEF Setup
  <2>2. Setup' = [Setup EXCEPT ![p] = "complete"]
    BY <1>6, <2>1 DEF Setup
  <2> QED
    BY <1>4, <2>1, <2>2 DEF A!Finish
<1>9. Complete(p) => Complete(p)'
  BY CompleteStays DEF IInv
<1> QED
  BY <1>7, <1>8, <1>9 DEF Complete

\* A step that touches none of this changes nothing of the abstract state.
LEMMA Untouched ==
    ASSUME UNCHANGED <<creator, plan, tasks, consent>>
    PROVE  UNCHANGED A!vars
  BY DEF A!vars, Setup, Complete, Missing, Unlinked, Created

\* Every step of intake is one step of Authority or changes nothing there.
LEMMA RefinementStep == IInv /\ [Next]_vars => [A!Next]_(A!vars)
<1> SUFFICES ASSUME IInv, [Next]_vars
             PROVE  A!Next \/ UNCHANGED A!vars
  OBVIOUS
<1>1. CASE UNCHANGED <<creator, plan, tasks, consent>>
  BY <1>1, Untouched
<1>2. ASSUME NEW c \in Cards, NEW v \in Versions, NEW t \in Taps, TapYes(c, v, t)
      PROVE  A!Next \/ UNCHANGED A!vars
  BY <1>2, TapYesStep DEF A!Next
<1>3. CASE NoAttestation \/ YesForgotten \/ ProjectRefused
  <2>1. cur \in Cards
    BY <1>3, InGrant DEF IInv, NoAttestation, YesForgotten, ProjectRefused
  <2>2. Unsays(cur) /\ UNCHANGED teletraan /\ UNCHANGED plan
    BY <1>3 DEF NoAttestation, YesForgotten, ProjectRefused, AskAgain
  <2>3. status'[cur] = "awaiting_yes"
    BY <1>3, <2>1 DEF NoAttestation, YesForgotten, ProjectRefused, AskAgain, SetStatus,
       IInv, TypeOK
  <2> QED
    BY <2>1, <2>2, <2>3, UnsaysStep DEF A!Next
<1>4. ASSUME NEW c \in Cards, TapEdit(c) \/ TapDrop(c)
      PROVE  A!Next
  <2>1. Unsays(c) /\ UNCHANGED teletraan /\ UNCHANGED plan
    BY <1>4 DEF TapEdit, TapDrop, Withdraws
  <2>2. status'[c] \in {"drafting", "dropped"}
    BY <1>4 DEF TapEdit, TapDrop, SetStatus, IInv, TypeOK
  <2> QED
    BY <2>1, <2>2, UnsaysStep DEF A!Next
<1>5. CASE ProjectCreated
  BY <1>5, ProjectCreatedStep DEF A!Next
<1>6. CASE PlanStored \/ TaskCreated \/ TaskLinked
  BY <1>6, SetupStep DEF A!Next
<1> QED
  BY <1>1, <1>2, <1>3, <1>4, <1>5, <1>6, Frame, ConsentFrame

\* Authority starts with nothing said, nothing made.
LEMMA RefinementInit == Init => A!Init
  BY DEF Init, A!Init, Setup

\* Card intake implements its promise to Matthew: whatever is interrupted, lost or
\* retried, a project comes of a card he has said yes to, once, and is set up once.
THEOREM Refinement == Spec => Promise
<1>1. Init => A!Init
  BY RefinementInit
<1>2. IInv /\ [Next]_vars => [A!Next]_(A!vars)
  BY RefinementStep
<1> QED
  BY <1>1, <1>2, Invariance, PTL DEF Spec, Promise, A!Spec

=============================================================================
