------------------------------ MODULE CardIntake ------------------------------
(***************************************************************************)
(* The life of a project card in Metroplex (cos/intake.py), from an idea   *)
(* in the bot chat to a project in Teletraan with all of its tasks.        *)
(*                                                                         *)
(* The daemon is one process with one thread: it handles one message, one  *)
(* tapped button or one hourly pass at a time, and `at` says where in that *)
(* handler it is.  A handler makes several writes, to its own sqlite file  *)
(* (autocommit, so each write is durable on its own) and to the Teletraan  *)
(* work service.  It can die between any two of them: the process crashes, *)
(* or a call raises.  A call that raises may nevertheless have taken       *)
(* effect, when only its reply was lost.                                   *)
(*                                                                         *)
(* Matthew is the environment: he sends texts and taps any button that is  *)
(* still on his screen, old ones too.                                      *)
(***************************************************************************)
EXTENDS Naturals, FiniteSets

CONSTANTS
    Cards,      \* card ids
    Versions,   \* the possible contents of a card; card_digest tells them apart
    Taps,       \* the taps on a Yes button (fromId, chatId, messageId)
    Projects,   \* project ids
    ProjectOf,  \* ProjectOf[c][v]: the id made of the title and the card id.  It keeps
                \* 16 bits of the card id, so two cards can have the same one.
    Plans,      \* what plan() may answer: a plan maps each task number to the numbers
                \* of the tasks it depends on
    None,
    MaxFaults   \* bound: crashes, lost replies, failed calls and refusals

ASSUME ProjectOfAssumption == ProjectOf \in [Cards -> [Versions -> Projects]]

\* plan() keeps a dependency only if it points at a task accepted earlier.
ASSUME PlansAssumption ==
    \A pl \in Plans :
        /\ DOMAIN pl \subseteq Nat
        /\ \A i \in DOMAIN pl : pl[i] \subseteq {j \in DOMAIN pl : j < i}

ASSUME NoneAssumption ==
    None \notin Cards \cup Versions \cup Taps \cup Projects \cup Plans \cup (Cards \X Versions)

ASSUME FaultsAssumption == MaxFaults \in Nat

VARIABLES
    \* Metroplex's own sqlite store (cos.db)
    status,        \* status[c]: the card's status, "none" before there is a row
    card_hash,     \* card_hash[c]: the digest of the stored version
    project_id,    \* project_id[c]: set with the first yes
    aged,          \* aged[c]: created_at is more than card_expiry_s ago
    open_question, \* the card that the next text answers
    attest,        \* attest[c][v]: approval_payload, the tap that said yes to v
    plan,          \* plan[p]: the stored plan of project p
    \* Teletraan
    approvals,     \* approvals[c][v]: the tap in the recorded approval
    creator,       \* creator[p]: the <<card, version>> project p was created from
    tasks,         \* tasks[p]: its tasks, each with the plan entry it was made from
    \* the daemon and the chat
    at,            \* where the current handler is
    cur,           \* the card it works on
    shown,         \* the <<card, version>> whose buttons are on Matthew's screen
    faults,
    \* Matthew's side, kept only to state properties
    offer,         \* offer[c]: the version he is being asked about
    consent        \* consent[c]: the version he said yes to while it was on offer

store == <<status, card_hash, project_id, aged, open_question, attest, plan>>
teletraan == <<approvals, creator, tasks>>
matthew == <<offer, consent>>
vars == <<store, teletraan, at, cur, shown, faults, matthew>>

Statuses == {"none", "drafting", "awaiting_yes", "granting", "granted", "dropped", "expired"}
Places == {"idle", "amend", "source", "model", "show", "yes", "approval", "unyes",
           "create", "plan", "tasks"}
Task == [id : Nat, plan : Plans, linked : BOOLEAN]

TypeOK ==
    /\ status \in [Cards -> Statuses]
    /\ card_hash \in [Cards -> Versions \cup {None}]
    /\ project_id \in [Cards -> Projects \cup {None}]
    /\ aged \in [Cards -> BOOLEAN]
    /\ open_question \in Cards \cup {None}
    /\ attest \in [Cards -> [Versions -> Taps \cup {None}]]
    /\ plan \in [Projects -> Plans \cup {None}]
    /\ approvals \in [Cards -> [Versions -> Taps \cup {None}]]
    /\ creator \in [Projects -> (Cards \X Versions) \cup {None}]
    /\ tasks \in [Projects -> SUBSET Task]
    /\ at \in Places
    /\ cur \in Cards \cup {None}
    /\ at # "idle" => cur \in Cards
    /\ shown \subseteq Cards \X Versions
    /\ faults \in 0..MaxFaults
    /\ offer \in [Cards -> Versions \cup {None}]
    /\ consent \in [Cards -> Versions \cup {None}]

Init ==
    /\ status = [c \in Cards |-> "none"]
    /\ card_hash = [c \in Cards |-> None]
    /\ project_id = [c \in Cards |-> None]
    /\ aged = [c \in Cards |-> FALSE]
    /\ open_question = None
    /\ attest = [c \in Cards |-> [v \in Versions |-> None]]
    /\ plan = [p \in Projects |-> None]
    /\ approvals = [c \in Cards |-> [v \in Versions |-> None]]
    /\ creator = [p \in Projects |-> None]
    /\ tasks = [p \in Projects |-> {}]
    /\ at = "idle"
    /\ cur = None
    /\ shown = {}
    /\ faults = 0
    /\ offer = [c \in Cards |-> None]
    /\ consent = [c \in Cards |-> None]

-----------------------------------------------------------------------------
(* Moving through a handler *)

Idle == at = "idle"

Goto(c, place) == at' = place /\ cur' = c
Finish == Goto(None, "idle")

SetStatus(c, s) == status' = [status EXCEPT ![c] = s]

Fault == faults < MaxFaults /\ faults' = faults + 1

\* The process dies inside a handler, or a call raises and changes nothing.
Abort ==
    /\ ~Idle
    /\ Fault
    /\ Finish
    /\ UNCHANGED <<store, teletraan, shown, matthew>>

-----------------------------------------------------------------------------
(* Texts: handle_text and card_command *)

Answers == open_question # None /\ status[open_question] = "drafting"

\* The text answers the open question.  The question is closed before the card
\* is drafted again.
TextAnswers ==
    /\ Idle
    /\ Answers
    /\ open_question' = None
    /\ Goto(open_question, "amend")
    /\ UNCHANGED <<status, card_hash, project_id, aged, attest, plan, teletraan, shown,
                   faults, matthew>>

\* A text kept as an inert proposal: no card changes, but a question that no
\* drafting card is waiting for is forgotten.
TextIsNote ==
    /\ Idle
    /\ ~Answers
    /\ open_question' = None
    /\ UNCHANGED <<status, card_hash, project_id, aged, attest, plan, teletraan, at, cur,
                   shown, faults, matthew>>

\* A text that starts a card, c.  The classifier may have one question first.
TextIsObjective(c) ==
    /\ Idle
    /\ ~Answers
    /\ status[c] = "none"
    /\ SetStatus(c, "drafting")
    /\ \/ open_question' = c /\ Finish
       \/ open_question' = None /\ Goto(c, "source")
    /\ UNCHANGED <<card_hash, project_id, aged, attest, plan, teletraan, shown, faults,
                   matthew>>

\* Mutant: 'card <id>' rewrites a card that is being granted.
CardCommandRewrites(c) ==
    /\ Idle
    /\ status[c] \in {"none", "drafting", "granting"}
    /\ SetStatus(c, "drafting")
    /\ Goto(c, "source")
    /\ UNCHANGED <<card_hash, project_id, aged, open_question, attest, plan, teletraan,
                   shown, faults, matthew>>

\* 'card <id>': redraft a drafting card, or make one of an inert proposal.  Any
\* other card is left alone.
CardCommand(c) ==
    /\ Idle
    /\ status[c] \in {"none", "drafting"}
    /\ SetStatus(c, "drafting")
    /\ Goto(c, "source")
    /\ UNCHANGED <<card_hash, project_id, aged, open_question, attest, plan, teletraan,
                   shown, faults, matthew>>

-----------------------------------------------------------------------------
(* _draft *)

\* No persistent agent can own the project.
NoOwners ==
    /\ at \in {"amend", "source"}
    /\ SetStatus(cur, "dropped")
    /\ Finish
    /\ UNCHANGED <<card_hash, project_id, aged, open_question, attest, plan, teletraan,
                   shown, faults, matthew>>

\* _amend or _source has filed the proposal that the card binds.
SourceBound ==
    /\ at \in {"amend", "source"}
    /\ Goto(cur, "model")
    /\ UNCHANGED <<store, teletraan, shown, faults, matthew>>

\* The model is down: the card waits in drafting for a 'card <id>'.
DraftUnavailable ==
    /\ at = "model"
    /\ Finish
    /\ UNCHANGED <<store, teletraan, shown, faults, matthew>>

\* Two tries gave no complete card: the next text is an answer.
DraftIncomplete ==
    /\ at = "model"
    /\ open_question' = cur
    /\ Finish
    /\ UNCHANGED <<status, card_hash, project_id, aged, attest, plan, teletraan, shown,
                   faults, matthew>>

\* put_card, which restarts created_at.
DraftStored ==
    /\ at = "model"
    /\ \E v \in Versions :
        /\ card_hash' = [card_hash EXCEPT ![cur] = v]
        /\ offer' = [offer EXCEPT ![cur] = v]
    /\ SetStatus(cur, "awaiting_yes")
    /\ aged' = [aged EXCEPT ![cur] = FALSE]
    /\ Goto(cur, "show")
    /\ UNCHANGED <<project_id, open_question, attest, plan, teletraan, shown, faults, consent>>

\* The rendered card, with the buttons of this version.  A send that fails is
\* only logged: that is Abort here.
CardSent ==
    /\ at = "show"
    /\ shown' = shown \cup {<<cur, card_hash[cur]>>}
    /\ Finish
    /\ UNCHANGED <<store, teletraan, faults, matthew>>

-----------------------------------------------------------------------------
(* approve *)

Says(c, v) == consent' = [consent EXCEPT ![c] = IF offer[c] = v THEN v ELSE @]
Unsays(c) == consent' = [consent EXCEPT ![c] = None]

\* Mutant: the button's digest is not compared with the stored card's.
TapYesAnyVersion(c, v, t) ==
    /\ Idle
    /\ <<c, v>> \in shown
    /\ status[c] = "awaiting_yes"
    /\ ~aged[c]
    /\ attest' = [attest EXCEPT ![c][card_hash[c]] = IF @ = None THEN t ELSE @]
    /\ Goto(c, "yes")
    /\ Says(c, v)
    /\ UNCHANGED <<status, card_hash, project_id, aged, open_question, plan, teletraan,
                   shown, faults, offer>>

\* Mutant: every tap is stored as the attestation.
TapYesOverwrites(c, v, t) ==
    /\ Idle
    /\ <<c, v>> \in shown
    /\ status[c] \in {"awaiting_yes", "granting"}
    /\ card_hash[c] = v
    /\ attest' = [attest EXCEPT ![c][v] = t]
    /\ Goto(c, IF status[c] = "granting" THEN "approval" ELSE "yes")
    /\ Says(c, v)
    /\ UNCHANGED <<status, card_hash, project_id, aged, open_question, plan, teletraan,
                   shown, faults, offer>>

\* Yes on the button of version v.  The first tap for a version is its
\* attestation; a later one retries with that same attestation.
TapYes(c, v, t) ==
    /\ Idle
    /\ <<c, v>> \in shown
    /\ status[c] \in {"awaiting_yes", "granting"}
    /\ card_hash[c] = v
    /\ status[c] = "awaiting_yes" => ~aged[c]
    /\ IF status[c] = "granting"
       THEN Goto(c, "approval") /\ UNCHANGED attest
       ELSE /\ attest' = [attest EXCEPT ![c][v] = IF @ = None THEN t ELSE @]
            /\ Goto(c, "yes")
    /\ Says(c, v)
    /\ UNCHANGED <<status, card_hash, project_id, aged, open_question, plan, teletraan,
                   shown, faults, offer>>

\* Yes on a card that waited too long.
TapYesTooLate(c) ==
    /\ Idle
    /\ <<c, card_hash[c]>> \in shown
    /\ status[c] = "awaiting_yes"
    /\ aged[c]
    /\ SetStatus(c, "expired")
    /\ UNCHANGED <<card_hash, project_id, aged, open_question, attest, plan, teletraan, at,
                   cur, shown, faults, matthew>>

\* The intent is in the store before any command is sent.
MarkGranting ==
    /\ at = "yes"
    /\ SetStatus(cur, "granting")
    /\ project_id' = [project_id EXCEPT ![cur] = ProjectOf[cur][card_hash[cur]]]
    /\ Goto(cur, "approval")
    /\ UNCHANGED <<card_hash, aged, open_question, attest, plan, teletraan, shown, faults,
                   matthew>>

-----------------------------------------------------------------------------
(* _finish_grant: approval.record, then project.create, then decompose *)

Version == card_hash[cur]
Yes == attest[cur][Version]
Project == project_id[cur]

AskAgain ==
    /\ SetStatus(cur, "awaiting_yes")
    /\ Unsays(cur)
    /\ Finish

\* No stored yes for this version: fail closed.
NoAttestation ==
    /\ at = "approval"
    /\ Yes = None
    /\ AskAgain
    /\ UNCHANGED <<card_hash, project_id, aged, open_question, attest, plan, teletraan,
                   shown, faults, offer>>

\* A command that committed and one replayed under its id have the same reply,
\* so the handler goes on; if that reply is lost it raises.
Replied(place) ==
    \/ Goto(cur, place) /\ UNCHANGED faults
    \/ Finish /\ Fault

\* Teletraan replays an approval only for the payload it recorded.
ApprovalRecorded ==
    /\ at = "approval"
    /\ Yes # None
    /\ approvals[cur][Version] \in {None, Yes}
    /\ approvals' = [approvals EXCEPT ![cur][Version] = Yes]
    /\ Replied("create")
    /\ UNCHANGED <<store, creator, tasks, shown, matthew>>

\* Refused and rolled back (approver not recognized): the yes is forgotten.
ApprovalRefused ==
    /\ at = "approval"
    /\ Yes # None
    /\ approvals[cur][Version] = None
    /\ Fault
    /\ attest' = [attest EXCEPT ![cur][Version] = None]
    /\ Goto(cur, "unyes")
    /\ UNCHANGED <<status, card_hash, project_id, aged, open_question, plan, teletraan,
                   shown, matthew>>

YesForgotten ==
    /\ at = "unyes"
    /\ AskAgain
    /\ UNCHANGED <<card_hash, project_id, aged, open_question, attest, plan, teletraan,
                   shown, faults, offer>>

\* Mutant: every try sends project.create under a command id of its own.
CreateNeverReplays == FALSE

\* cos:project:<card>:<digest> has committed before.
CreateReplays == creator[Project] = <<cur, Version>>

\* Teletraan creates a project under a free id from a recorded approval.
ProjectCreated ==
    /\ at = "create"
    /\ CreateReplays \/ (creator[Project] = None /\ approvals[cur][Version] # None)
    /\ creator' = [creator EXCEPT ![Project] = <<cur, Version>>]
    /\ Replied("plan")
    /\ UNCHANGED <<store, approvals, tasks, shown, matthew>>

\* A domain refusal, which proves there was no effect: the id is taken, or for
\* another reason (the owner has retired).
ProjectRefused ==
    /\ at = "create"
    /\ ~CreateReplays
    /\ IF creator[Project] # None THEN UNCHANGED faults ELSE Fault
    /\ AskAgain
    /\ UNCHANGED <<card_hash, project_id, aged, open_question, attest, plan, teletraan,
                   shown, offer>>

\* Mutant: a resumed decomposition asks the model again.
PlanAskedAgain ==
    /\ at = "plan"
    /\ \E pl \in Plans : plan' = [plan EXCEPT ![Project] = pl]
    /\ Goto(cur, "tasks")
    /\ UNCHANGED <<status, card_hash, project_id, aged, open_question, attest, teletraan,
                   shown, faults, matthew>>

\* decompose: ask the model once, and store its plan before any task exists.
PlanStored ==
    /\ at = "plan"
    /\ IF plan[Project] # None
       THEN UNCHANGED plan
       ELSE \E pl \in Plans : plan' = [plan EXCEPT ![Project] = pl]
    /\ Goto(cur, "tasks")
    /\ UNCHANGED <<status, card_hash, project_id, aged, open_question, attest, teletraan,
                   shown, faults, matthew>>

Created(p) == {t.id : t \in tasks[p]}
Missing(p) == DOMAIN plan[p] \ Created(p)
Unlinked(p) == {t.id : t \in {u \in tasks[p] : plan[p][u.id] # {} /\ ~u.linked}}
Least(S, i) == i \in S /\ \A j \in S : i <= j

\* The tasks are made in order, each with its dependencies before the next one.
\* Task ids are fixed by the plan, so what already exists is skipped.
TaskCreated ==
    /\ at = "tasks"
    /\ \E i \in Missing(Project) :
        /\ Least(Missing(Project) \cup Unlinked(Project), i)
        /\ tasks' = [tasks EXCEPT ![Project] =
                        @ \cup {[id |-> i, plan |-> plan[Project], linked |-> FALSE]}]
    /\ Replied("tasks")
    /\ UNCHANGED <<store, approvals, creator, shown, matthew>>

TaskLinked ==
    /\ at = "tasks"
    /\ \E t \in tasks[Project] :
        /\ t.id \in Unlinked(Project)
        /\ Least(Missing(Project) \cup Unlinked(Project), t.id)
        /\ tasks' = [tasks EXCEPT ![Project] = (@ \ {t}) \cup {[t EXCEPT !.linked = TRUE]}]
    /\ Replied("tasks")
    /\ UNCHANGED <<store, approvals, creator, shown, matthew>>

\* Mutant: granted as soon as the tasks exist, dependencies left for later.
GrantedUnlinked ==
    /\ at = "tasks"
    /\ Missing(Project) = {}
    /\ SetStatus(cur, "granted")
    /\ Finish
    /\ UNCHANGED <<card_hash, project_id, aged, open_question, attest, plan, teletraan,
                   shown, faults, matthew>>

Granted ==
    /\ at = "tasks"
    /\ Missing(Project) = {}
    /\ Unlinked(Project) = {}
    /\ SetStatus(cur, "granted")
    /\ Finish
    /\ UNCHANGED <<card_hash, project_id, aged, open_question, attest, plan, teletraan,
                   shown, faults, matthew>>

\* Mutant: nothing but another tap finishes an interrupted grant.
NoResume(c) == FALSE

\* The hourly pass takes the granting cards one after another.
ResumeGranting(c) ==
    /\ Idle
    /\ status[c] = "granting"
    /\ Goto(c, "approval")
    /\ UNCHANGED <<store, teletraan, shown, faults, matthew>>

-----------------------------------------------------------------------------
(* Edit, Drop and expiry.  Their buttons name the card, not a version. *)

OnScreen(c) == \E v \in Versions : <<c, v>> \in shown
Withdraws(c) == Unsays(c) /\ offer' = [offer EXCEPT ![c] = None]

TapEdit(c) ==
    /\ Idle
    /\ OnScreen(c)
    /\ status[c] = "awaiting_yes"
    /\ SetStatus(c, "drafting")
    /\ open_question' = c
    /\ Withdraws(c)
    /\ UNCHANGED <<card_hash, project_id, aged, attest, plan, teletraan, at, cur, shown, faults>>

\* Mutant: Drop closes a granting card without looking for its project.
TapDropBlind(c) ==
    /\ Idle
    /\ OnScreen(c)
    /\ status[c] \in {"drafting", "awaiting_yes", "granting"}
    /\ SetStatus(c, "dropped")
    /\ Withdraws(c)
    /\ UNCHANGED <<card_hash, project_id, aged, open_question, attest, plan, teletraan, at,
                   cur, shown, faults>>

\* A granting card can be dropped only while it has no project.
TapDrop(c) ==
    /\ Idle
    /\ OnScreen(c)
    /\ \/ status[c] \in {"drafting", "awaiting_yes"}
       \/ status[c] = "granting" /\ creator[project_id[c]] = None
    /\ SetStatus(c, "dropped")
    /\ Withdraws(c)
    /\ UNCHANGED <<card_hash, project_id, aged, open_question, attest, plan, teletraan, at,
                   cur, shown, faults>>

\* card_expiry_s has passed since the card was last drafted.  It matters only to a
\* card that waits for a yes, or may do so again.
TimePasses(c) ==
    /\ status[c] \in {"awaiting_yes", "granting"}
    /\ ~aged[c]
    /\ aged' = [aged EXCEPT ![c] = TRUE]
    /\ offer' = [offer EXCEPT ![c] = None]
    /\ UNCHANGED <<status, card_hash, project_id, open_question, attest, plan, teletraan,
                   at, cur, shown, faults, consent>>

\* Mutant: only a card that reached the screen expires.
ExpireShownCard(c) ==
    /\ Idle
    /\ status[c] = "awaiting_yes"
    /\ aged[c]
    /\ OnScreen(c)
    /\ SetStatus(c, "expired")
    /\ UNCHANGED <<card_hash, project_id, aged, open_question, attest, plan, teletraan, at,
                   cur, shown, faults, matthew>>

ExpireCard(c) ==
    /\ Idle
    /\ status[c] = "awaiting_yes"
    /\ aged[c]
    /\ SetStatus(c, "expired")
    /\ UNCHANGED <<card_hash, project_id, aged, open_question, attest, plan, teletraan, at,
                   cur, shown, faults, matthew>>

-----------------------------------------------------------------------------

HandlerStep ==
    \/ NoOwners \/ SourceBound
    \/ DraftUnavailable \/ DraftIncomplete \/ DraftStored \/ CardSent
    \/ MarkGranting
    \/ NoAttestation \/ ApprovalRecorded \/ ApprovalRefused \/ YesForgotten
    \/ ProjectCreated \/ ProjectRefused
    \/ PlanStored \/ TaskCreated \/ TaskLinked \/ Granted

Hourly(c) == ResumeGranting(c) \/ ExpireCard(c)

Matthew(c) ==
    \/ TextIsObjective(c) \/ CardCommand(c)
    \/ \E v \in Versions, t \in Taps : TapYes(c, v, t)
    \/ TapYesTooLate(c) \/ TapEdit(c) \/ TapDrop(c)

Next ==
    \/ HandlerStep
    \/ Abort
    \/ TextAnswers
    \/ TextIsNote
    \/ \E c \in Cards : Matthew(c) \/ Hourly(c) \/ TimePasses(c)

Spec == Init /\ [][Next]_vars

\* The daemon goes on with what it has begun (systemd restarts it when it dies),
\* its hourly pass comes round whatever else it is asked, and time passes.
\* Nothing is assumed of Matthew.
Fairness ==
    /\ WF_vars(HandlerStep)
    /\ \A c \in Cards :
        /\ SF_vars(ResumeGranting(c))
        /\ SF_vars(ExpireCard(c))
        /\ WF_vars(TimePasses(c))

FairSpec == Spec /\ Fairness

-----------------------------------------------------------------------------
(* Properties *)

\* The router holds every wake of a project that some granting card is setting up.
Held(p) == \E c \in Cards : status[c] = "granting" /\ project_id[c] = p

Complete(p) == plan[p] # None /\ Missing(p) = {} /\ Unlinked(p) = {}

\* A project is exactly what Matthew said yes to: the version it was made from is
\* one he tapped Yes on while that version was the current one on his screen, and
\* nothing has taken that yes back (an edit, a drop, a refusal).
YesBinds ==
    \A p \in Projects, c \in Cards, v \in Versions :
        creator[p] = <<c, v>> => consent[c] = v

\* Once Teletraan has a card's project the card stays granting or granted, with
\* that version and that project, whatever crashed, was refused or lost its reply.
\* In particular Drop and the expiry never close it and a card has one project.
ProjectKeepsCard ==
    \A p \in Projects, c \in Cards, v \in Versions :
        creator[p] = <<c, v>> =>
            /\ status[c] \in {"granting", "granted"}
            /\ card_hash[c] = v
            /\ project_id[c] = p

\* A card says granted only when its project exists with every planned task and
\* every planned dependency.
GrantedIsComplete ==
    \A c \in Cards : status[c] = "granted" =>
        /\ creator[project_id[c]] = <<c, card_hash[c]>>
        /\ Complete(project_id[c])

\* Nothing of a project can be routed while a task or a dependency is missing:
\* from the first moment Teletraan has it, the router holds it.
SetupIsHeld ==
    \A p \in Projects : creator[p] # None /\ ~Complete(p) => Held(p)

\* However often setting up is interrupted, the tasks in Teletraan come from one
\* plan, none of them is made twice, and a dependency names a task that is there.
TasksFollowOnePlan ==
    \A p \in Projects : \A t \in tasks[p] :
        /\ t.plan = plan[p]
        /\ \A u \in tasks[p] : u.id = t.id => u = t
        /\ t.linked => t.plan[t.id] \subseteq Created(p)

\* A retry sends the approval that was recorded, byte for byte: the attestation
\* behind a recorded approval is never forgotten or replaced, so the command is
\* never refused as COMMAND_ID_CONFLICT.
RetriesAgree ==
    \A c \in Cards, v \in Versions :
        approvals[c][v] # None => attest[c][v] = approvals[c][v]

\* Every project, once created, gets all its tasks and its card says so, if only
\* finitely many things fail.
ProjectsAreSetUp ==
    \A p \in Projects, c \in Cards :
        (\E v \in Versions : creator[p] = <<c, v>>) ~> (status[c] = "granted")

\* No card waits for a yes for ever, even one whose message never arrived.
CardsClose ==
    \A c \in Cards : (status[c] = "awaiting_yes") ~> (status[c] # "awaiting_yes")

\* A text that was to answer the open question and failed can be sent again, as
\* the bot tells Matthew: the question is open again.
FailedAnswerCanBeRepeated ==
    [][at = "amend" /\ at' = "idle" /\ status'[cur] = "drafting"
        => open_question' = cur]_vars

-----------------------------------------------------------------------------
(* What this promises: see module Authority *)

Setup ==
    [p \in Projects |-> IF creator[p] = None THEN "none"
                        ELSE IF Complete(p) THEN "complete" ELSE "partial"]

A == INSTANCE Authority WITH setup <- Setup
Promise == A!Spec

=============================================================================
