------------------------------ MODULE Planning ------------------------------
(***************************************************************************)
(* From a language model's answers to tasks (cos/intake.py, cos/spec.py):  *)
(* the draft of a card and its validation, the plan made of the model's    *)
(* items, and the tasks made of the stored plan.  The model is untrusted:  *)
(* every answer is a choice here.                                          *)
(*                                                                         *)
(* A text field is whether there is something in it, or whether it is      *)
(* there at all.  A goal id is a number: n for "g<n>", 0 for a blank one.  *)
(* A path is what is between its slashes: "/a" is <<"", "a">> and "a/" is  *)
(* <<"a", "">>; the normal form of "." is <<>>.  A name may begin or end   *)
(* with blanks, or be nothing else; TrimLeft and TrimRight take them off.  *)
(***************************************************************************)
EXTENDS Naturals, Sequences, FiniteSets

CONSTANTS
    Names,          \* names of directories and files
    TrimLeft,       \* a segment without the blanks it begins with
    TrimRight,      \* a segment without the blanks it ends with
    RawGoals,       \* lists of goals the model may draft
    RawScopes,      \* lists of paths the model may give, as sets
    RawDeps,        \* dependencies the model may name, by their places from 0
    MaxGoals,       \* goals of a card (7)
    Limit,          \* caps.max_decompose_tasks
    MaxItems,       \* bound on the items of the model's answer
    MaxFaults,      \* bound on crashes and failed calls
    None

Up == ".."
Here == "."
Empty == ""
Segments == Names \cup {Up, Here, Empty}

\* What is no text is None.
RawPath == (Seq(Segments) \ {<<>>}) \cup {None}
Goal == [id : Nat \cup {None}, statement : BOOLEAN, doneWhen : BOOLEAN]

ASSUME NamesAssumption == {Up, Here, Empty} \cap Names = {}
ASSUME TrimAssumption ==
    /\ TrimLeft \in [Segments -> Segments] /\ TrimRight \in [Segments -> Segments]
    /\ TrimLeft[Here] = Here /\ TrimRight[Here] = Here
    /\ \A s \in Segments : /\ TrimLeft[TrimLeft[s]] = TrimLeft[s]
                         /\ TrimRight[TrimLeft[s]] = TrimLeft[TrimRight[s]]
ASSUME RawGoalsAssumption == RawGoals \subseteq Seq(Goal)
ASSUME RawScopesAssumption == \A s \in RawScopes : s \subseteq RawPath
ASSUME RawDepsAssumption == RawDeps \subseteq SUBSET Nat
ASSUME BoundsAssumption ==
    MaxGoals \in Nat \ {0} /\ Limit \in Nat \ {0} /\ MaxItems \in Nat /\ MaxFaults \in Nat
ASSUME NoneAssumption == None \notin Nat /\ None \notin Seq(Segments)

VARIABLES
    at,         \* where a card is
    card,       \* the card once it is complete
    tries,      \* drafts that had problems
    tasks,      \* the plan being made
    items,      \* the model's items looked at so far
    plan,       \* the store's plan:<project>
    made,       \* the tasks of the plan that exist in Teletraan
    faults

vars == <<at, card, tries, tasks, items, plan, made, faults>>
planning == <<tasks, items>>

-----------------------------------------------------------------------------
(* Paths (cos/spec.py) *)

\* str.strip: the blanks before the first segment and after the last.
Stripped(value) ==
    LET left == [value EXCEPT ![1] = TrimLeft[@]]
    IN  [left EXCEPT ![Len(value)] = TrimRight[@]]

\* posixpath.normpath of a relative path, one segment after the other.
Entered(path, s) ==
    IF s \in {Here, Empty} THEN path
    ELSE IF s = Up /\ path # <<>> /\ path[Len(path)] # Up THEN SubSeq(path, 1, Len(path) - 1)
    ELSE Append(path, s)

Normal(segments) ==
    LET path[n \in 0..Len(segments)] ==
            IF n = 0 THEN <<>> ELSE Entered(path[n - 1], segments[n])
    IN  path[Len(segments)]

\* A writable path inside the repository, or None: a text that is blank or begins with "/"
\* begins with an empty segment.
scope_path(value) ==
    IF value = None \/ Stripped(value)[1] = Empty THEN None
    ELSE LET path == Normal(Stripped(value)) IN
         IF path # <<>> /\ path[1] = Up THEN None ELSE path

\* scope_path(v) != v is a problem of a card, and of a task.
Fixed(path) == scope_path(IF path = <<>> THEN <<Here>> ELSE path) = path

within(path, base) ==
    Len(base) <= Len(path) /\ \A i \in 1..Len(base) : path[i] = base[i]

\* Mutant: one path inside is enough.
OneWithin(inner, outer) == \E a \in inner : \E b \in outer : within(a, b)
scope_within(inner, outer) == \A a \in inner : \E b \in outer : within(a, b)

Paths(raw) == {scope_path(v) : v \in raw} \ {None}

\* _normalize: never empty, and "." alone when it is among them.
CardScope(raw) ==
    LET paths == Paths(raw) IN IF paths = {} \/ <<>> \in paths THEN {<<>>} ELSE paths

\* Mutant: nothing at all is inside, too.
TaskScopeEvenEmpty(raw, scope) ==
    IF scope_within(Paths(raw), scope) THEN Paths(raw) ELSE scope
\* _task_scope: what the model gives if all of it is inside the card's, else the card's.
TaskScope(raw, scope) ==
    LET paths == Paths(raw) IN
    IF paths # {} /\ scope_within(paths, scope) THEN paths ELSE scope

-----------------------------------------------------------------------------
(* The card *)

\* _normalize: a goal without an id gets its place.
Normalized(goals) ==
    [i \in DOMAIN goals |->
        [goals[i] EXCEPT !.id = IF goals[i].id = None THEN i ELSE goals[i].id]]

\* _carry_stated: n goals that the source states, with the model's done-when by position.
Carried(goals, n, doneWhen) ==
    [i \in 1..(IF n < MaxGoals THEN n ELSE MaxGoals) |->
        [id |-> i, statement |-> TRUE,
         doneWhen |-> doneWhen \/ (i <= Len(goals) /\ goals[i].doneWhen)]]

\* validate_card.  fields stands for the other texts that must not be blank.
Complete(c) ==
    /\ c.doneWhen /\ c.fields
    /\ \A path \in c.scope : Fixed(path)
    /\ Len(c.goals) \in 1..MaxGoals
    /\ \A i \in DOMAIN c.goals :
        /\ c.goals[i].id # 0
        /\ \A j \in 1..(i - 1) : c.goals[j].id # c.goals[i].id
        /\ c.goals[i].statement /\ c.goals[i].doneWhen

\* Mutant: the model is asked until the card is complete.
NeverLast == FALSE
LastTry == tries > 0

\* One draft, and a second one if the first has problems; then Matthew is asked for more.
Draft(goals, stated, scope, doneWhen, fields) ==
    LET c == [goals |-> IF stated = 0 THEN Normalized(goals)
                        ELSE Carried(Normalized(goals), stated, doneWhen),
              scope |-> CardScope(scope), doneWhen |-> doneWhen, fields |-> fields] IN
    /\ at = "draft"
    /\ \/ Complete(c) /\ card' = c /\ at' = "plan" /\ UNCHANGED tries
       \/ ~Complete(c) /\ LastTry /\ at' = "asked" /\ UNCHANGED <<card, tries>>
       \/ ~Complete(c) /\ ~LastTry /\ tries' = tries + 1 /\ UNCHANGED <<at, card>>
    /\ UNCHANGED <<planning, plan, made, faults>>

GoalIds == {card.goals[i].id : i \in DOMAIN card.goals}

-----------------------------------------------------------------------------
(* Intake.plan *)

Full == Len(tasks) >= Limit

\* Places are counted from 0, in the answer and in a plan.
Earlier(deps) == {j \in deps : j < Len(tasks)}

\* item and named are histories: the place of the item the task was made of, and the places
\* it named.
Item(goal, deps, blank, scope) ==
    /\ at = "plan" /\ items < MaxItems /\ ~Full
    /\ items' = items + 1
    /\ \/ /\ goal \in GoalIds
          /\ tasks' = Append(tasks,
                [goal |-> goal, deps |-> Earlier(deps), blank |-> blank,
                 scope |-> TaskScope(scope, card.scope), item |-> items, named |-> deps])
       \/ goal \notin GoalIds /\ UNCHANGED tasks
    /\ UNCHANGED <<at, card, tries, plan, made, faults>>

\* The answer is over, or there was none.
AnswerEnds ==
    /\ at = "plan" /\ at' = "cover"
    /\ UNCHANGED <<card, tries, planning, plan, made, faults>>

\* Mutant: only an answer without tasks falls back.
OrEmpty(goal) == tasks # <<>>
Served(goal) == \E i \in DOMAIN tasks : tasks[i].goal = goal

\* The first goal the model skipped gets a task of its own.
GoalCovered ==
    /\ at = "cover"
    /\ \E k \in DOMAIN card.goals :
        LET goal == card.goals[k].id IN
        /\ ~Served(goal) /\ \A j \in 1..(k - 1) : Served(card.goals[j].id)
        /\ tasks' = Append(tasks,
                [goal |-> goal, deps |-> {}, blank |-> FALSE, scope |-> card.scope,
                 item |-> items, named |-> {}])
    /\ UNCHANGED <<at, card, tries, items, plan, made, faults>>

-----------------------------------------------------------------------------
(* Intake.decompose *)

PlanStored ==
    /\ at = "cover" /\ \A k \in DOMAIN card.goals : Served(card.goals[k].id)
    /\ plan' = tasks
    /\ at' = "decompose"
    /\ UNCHANGED <<card, tries, planning, made, faults>>

\* validate_task_spec of the task and its goal's default checks.
Valid(t) ==
    /\ ~t.blank
    /\ t.goal # 0
    /\ t.scope # {} /\ \A path \in t.scope : Fixed(path)

Planned == at = "decompose" /\ made < Len(plan)

TaskCreated ==
    /\ Planned /\ Valid(plan[made + 1])
    /\ made' = made + 1
    /\ UNCHANGED <<at, card, tries, planning, plan, faults>>

\* The task's spec is refused before it is sent.
SpecRefused ==
    /\ Planned /\ ~Valid(plan[made + 1])
    /\ at' = "granting"
    /\ UNCHANGED <<card, tries, planning, plan, made, faults>>

SetUp ==
    /\ at = "decompose" /\ made = Len(plan)
    /\ at' = "granted"
    /\ UNCHANGED <<card, tries, planning, plan, made, faults>>

\* A crash or a failed call leaves the card granting.
Abort ==
    /\ at \in {"plan", "cover", "decompose"}
    /\ faults < MaxFaults /\ faults' = faults + 1
    /\ at' = "granting"
    /\ UNCHANGED <<card, tries, planning, plan, made>>

\* Without a stored plan the model is asked again.
PlanAgain ==
    /\ at = "granting" /\ plan = None
    /\ at' = "plan" /\ tasks' = <<>> /\ items' = 0
    /\ UNCHANGED <<card, tries, plan, made, faults>>

\* Mutant: a card with a plan is taken for finished.
OnlyPlanAgain == PlanAgain
\* Another tap or the hourly pass goes on with the stored plan.
Resume ==
    \/ PlanAgain
    \/ /\ at = "granting" /\ plan # None
       /\ at' = "decompose"
       /\ UNCHANGED <<card, tries, planning, plan, made, faults>>

-----------------------------------------------------------------------------

Init ==
    /\ at = "draft" /\ tries = 0
    /\ card = [goals |-> <<>>, scope |-> {<<>>}, doneWhen |-> FALSE, fields |-> FALSE]
    /\ tasks = <<>> /\ items = 0
    /\ plan = None /\ made = 0 /\ faults = 0

Drafts ==
    \E goals \in RawGoals, stated \in 0..(MaxGoals + 1), scope \in RawScopes,
       doneWhen, fields \in BOOLEAN :
        Draft(goals, stated, scope, doneWhen, fields)

Answer ==
    \E goal \in GoalIds \cup {MaxGoals + 1}, deps \in RawDeps, blank \in BOOLEAN,
       scope \in RawScopes :
        Item(goal, deps, blank, scope)

SettingUp ==
    AnswerEnds \/ GoalCovered \/ PlanStored \/ TaskCreated \/ SpecRefused \/ SetUp \/ Resume

Next == Drafts \/ Answer \/ SettingUp \/ Abort

Spec == Init /\ [][Next]_vars

\* An answer ends, the daemon goes on, and the hourly pass comes round.
FairSpec == Spec /\ WF_vars(SettingUp)

-----------------------------------------------------------------------------
(* Properties *)

\* Every directory and file up to two levels down.
Files == UNION {[1..n -> Names] : n \in 0..2}

\* A path that still has ".." in it may lead anywhere.
Covers(scope, file) == \E p \in scope : within(file, p) \/ \E i \in DOMAIN p : p[i] = Up

\* No task may write a file that the card Matthew approved does not open to it, whatever
\* paths the model gave and however they are spelt.
TasksStayInScope ==
    \A i \in DOMAIN tasks : \A file \in Files :
        Covers(tasks[i].scope, file) => Covers(card.scope, file)

\* A stored plan serves every goal Matthew approved and nothing else: a partial answer of
\* the model drops no work.
GoalsAreServed ==
    plan # None => {plan[i].goal : i \in DOMAIN plan} = GoalIds

\* A path that begins or ends with a blank.
Blanked(path) ==
    path # <<>> /\ (TrimLeft[path[1]] # path[1] \/ TrimRight[path[Len(path)]] # path[Len(path)])

\* What validate_task_spec refuses of a stored plan is a blank acceptance, and a path that
\* scope_path made begin or end with a blank ("./ a", "a /"), and nothing else: whatever the
\* model answered, a task serves a goal with an id and its paths are in the repository.
OnlyBlanksAreRefused ==
    plan # None =>
        \A i \in DOMAIN plan :
            Valid(plan[i]) <=> ~plan[i].blank /\ \A path \in plan[i].scope : ~Blanked(path)

\* "bounded to <= 12 tasks per pass": a plan has no more tasks than the cap.
PlanWithinCap == plan # None => Len(plan) <= Limit

\* What is left of the cap: a plan exceeds it only by goals that the model left out, which are
\* never all.
PlanIsBounded == Len(tasks) > Limit => Len(tasks) < Limit + Len(card.goals)

\* "indexes of earlier tasks": a task waits for the tasks made of the items that its own item
\* named.
DependenciesAsNamed ==
    \A i \in DOMAIN tasks :
        {tasks[j + 1].item : j \in tasks[i].deps}
            = {tasks[j].item : j \in 1..(i - 1)} \cap tasks[i].named

\* An approved card whose setup was interrupted is set up in the end, unless its plan holds
\* a task that validate_task_spec refuses.
SetupFinishes ==
    at = "granting" ~> (at = "granted" \/ (plan # None /\ \E i \in DOMAIN plan : ~Valid(plan[i])))

\* "tapping Yes again, or the hourly resume, finishes it", whatever the plan.
InterruptedIsFinished == at = "granting" ~> at = "granted"

=============================================================================
