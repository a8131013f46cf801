# Metroplex, verified

Metroplex is Matthew's chief of staff: a small daemon between a Telegram chat and
Teletraan, the work service that holds projects, tasks, attempts and wakes. It turns
ideas into project cards, a tapped Yes into a project with its tasks, and every wake
that Teletraan raises into one routing decision. This directory holds TLA+ models of
it, their TLC configurations, and machine-checked proofs about all six of its models.

## The system

One process, one thread, three cadences (`cos/daemon.py`): the bot's long poll, the wake
loop and the sweep, with an hourly pass for cards. `metroplex pause | resume | reset` run
as processes of their own on the same sqlite file. Workers, owners and the operator act
on Teletraan at any time. So the concurrency is: Metroplex against Teletraan's other
users, Metroplex against its own crashes, and the daemon against the command line.

| component | state it keeps | operations | what makes it correct |
|---|---|---|---|
| card intake (`cos/intake.py`) | cards, open question, attestations, plans, card sources | texts, `card <id>`, Yes/Edit/Drop, expiry, hourly resume | a project is what Matthew said yes to; setup is finished once, from one plan; a retry replays; what he wrote is kept and the card binds it |
| routing (`cos/routing.py`) | notices sent, Jev marks; the rest is in Teletraan | one turn per wake: assign, wait, resume or ask | one worker per wake cycle, one paid judgment, no question about running work, no wake lost |
| motion (`cos/motion.py`) | episodes raised or sent | M1 to M7, E notice | what a turn missed is raised again, each episode once |
| control (`cos/daemon.py`) | pause flag, paused projects, the bot's offset | /pause /resume /stop /status, the cadences' gates, the polls | a resume undoes a pause; a broken loop halts; a message is handled once |
| breakers, caps (`cos/safety.py`) | failures and opened_at per loop; counters per window | record, reset, is_open; take | open after N failures in a row, closed for good by a reset; a thrash is held |
| store (`cos/store.py`) | sqlite: cards, breakers, counters, kv | autocommitted writes | each write is durable on its own |
| Teletraan client | none | snapshot, wake_pending, command | a reply or an exception, which proves nothing unless the command was rejected |
| Jev client | none | one call, one judgment record | never called twice for a judgment |
| bot | offset (in the store) | poll, send, answer | approvers only; a card is never cut |
| spec | none | validation of cards and tasks, path scopes | a task stays inside its card |
| reasoning, config | none | model calls, settings | |
| audit, notifier, event emitter, deploy | files | logging, unused helpers, systemd unit | |

How they interact: the daemon calls intake, routing and motion; they share the store and
talk to Teletraan only by commands. Routing holds the wakes of a project while intake has
its card in `granting`. Motion raises wakes that routing answers, and repeats notices that
routing could not send. Routing's question about a reserved action is answered by a
button that intake handles.

What is hard: a handler makes many durable writes to two stores and can die between any
two; a reply can be lost after the command took effect; every decision is made on a
snapshot that others outdate; old buttons stay on the screen; one open question serves
all cards; a language model's answers are trusted with nothing; four breakers, two caps
and three backstops decide whether a delay is forever. `PROJECT.json` lists each such
place with the property that watches it, or the reason why none does yet.

## The modules

| module | models | extends / uses |
|---|---|---|
| `Authority` | what intake promises Matthew, without crashes or retries | |
| `Dispatch` | what routing promises Teletraan and Matthew, without snapshots, turns, replays or crashes | |
| `CardLife` | what the chat promises Matthew of a card and its text, without proposals, ids, batches or crashes | |
| `CardIntake` | `cos/intake.py` from a Yes on, with its store and Teletraan's part | refines `Authority` |
| `Chat` | the texts: polls and offset, the open question, proposals, sources, cards in parts, expiry | refines `CardLife` |
| `Planning` | from the model's answers to tasks: `_normalize`, `plan`, `decompose`, `cos/spec.py` | |
| `Daemon` | pause, resume, stop, breakers, the command line | |
| `Routing` | the routing pass, the reserved tap, M3, M5, E notice | refines `Dispatch` |
| `Motion` | the whole sweep, M1 to M7 and E notice | |
| `CardIntakeProofs`, `ChatProofs`, `PlanningProofs`, `DaemonProofs`, `RoutingProofs`, `MotionProofs` | the theorems of each | the module they are about, TLAPS |
| `CardLifeProofs`, `DispatchProofs` | that `Chat` implements `CardLife`, and `Routing` `Dispatch` | `ChatProofs`, `RoutingProofs` |
| `MCCardIntake`, `MCChat`, `MCPlanning`, `MCDaemon`, `MCRouting`, `MCMotion` | constants for TLC | |

`CardIntake`, `Chat` and `Planning` are three views of the same cards. `CardIntake` knows a
card's contents as a version and follows every write of a grant; `Chat` knows whose words a
card is made of and lets a Yes grant at once; `Planning` knows what is in a card and its tasks
and nothing of Matthew. `Routing` has those checks of the sweep that a turn depends on;
`Motion` has them all, and a turn is one step of somebody else's there.

### CardIntake

A handler is a path through `at`: "idle", then one action per durable write, command or
decision, then "idle" again. `Abort` may end it anywhere; a command's lost reply is
`Replied`'s second disjunct. Texts are `TextAnswers`, `TextIsNote`, `TextIsObjective` and
`CardCommand`; drafting is `NoOwners` to `CardSent`; a yes is `TapYes`, `MarkGranting`,
and then `_finish_grant`, which the hourly `ResumeGranting` enters too. A card's contents
are one of `Versions` (its digest); a plan is a map from task numbers to the numbers they
depend on, and each task in Teletraan remembers the plan it was made from, so that two
plans cannot mix unseen. `approvals`, `creator` and `tasks` are Teletraan's, and a command
replayed under its id changes nothing there. `offer` and `consent` are Matthew's side: the
version on offer, and the one he said yes to while it was.

### Chat

A message is its position in the chat, and `said` is the whole of it. `offset` is the
store's, `polled` and `next` the daemon's: the batch in hand is `next..(polled - 1)`. A
handler is a path through `at` with what it holds in `hand`: classify, file the text
(`FileNote`, `FileObjective`), write the source (`SetSource`), the row (`PutCard`), then ask or
draft; `Amend` files the present source with the answer at its end. A proposal's id is what
it was made from, as `_file_source` and `_amend` hash it: so it names the amending *text*, while
the stored body is the sequence of *messages*, and the same text sent twice is one id with the
body of the first filing. `put_card` keeps the row's own copy of the source (`kept`), which is
what the expiry notes. `PartSent` is `Bot.send`: parts in order, buttons on the last. `Raises`
is an exception that the bot reports, `Crash` one it cannot. `excused` (what a fault took, or
Matthew was told about), `unnoted` and `asked` are histories for the properties only.

`CardLife` is what is left of the chat when nobody looks at how it is kept: a text per card, a
sequence of messages, and a card that is drafted, offered with a text, shown part by part, and
granted or closed. The instance `L` at the end of `Chat` maps a card's source, through the
proposal it names, to its text, and a row of the store to the state Matthew sees it in (`Seen`).
So filing a proposal is no step of `CardLife`; the text grows when the source is written.

### Planning

A text field is whether there is something in it; a path is what is between its slashes, with
".", ".." and empty segments still in it, and a name may begin or end with blanks or be nothing
else, for `scope_path` strips a text before it normalizes it and not after; a goal's id is a
number. Every answer of the model is a choice: `Draft` is one
round of drafting with `_normalize`, `_carry_stated` and `validate_card`, and a second round if
the first had problems; `Item` is one entry of the plan it answers with (skipped when it
names no goal), `GoalCovered` the fallback task of a goal it left out; `PlanStored`,
`TaskCreated` and `SpecRefused` are `decompose`, and `Resume` enters it again with the stored
plan. `Stripped` is `str.strip`, `Normal` is `posixpath.normpath`, one `Entered` segment after the
other, and `Fixed` is the test `scope_path(v) != v` of both validations. `item` and `named`
remember of a task which item it was made from and which it named, for `DependenciesAsNamed`
only.

### Daemon

`pause()` and `resume()` are a path in `at[x]` for each process x: the snapshot, one
command per project, the read of the stored list, its write, the flag. `stale[x]` holds
the projects with a newer revision than the process's snapshot; a command on one of them
is refused. `record_failure` is a read and a write, so that `metroplex reset` can fall
between them. `since` and `streak` count failures for the properties only.

### Routing

A turn is a path from "verdict" (the early returns of `handle`) through Jev, local
reasoning and the fresh guard to its effects and the acknowledgement. Every decision
reads `snap`; commands look at Teletraan's present state. `cycle[w]` is what was written
under the ids made of wake w and its cycle: the contribution's worker, whether its attempt
was queued, the judgment, the mark, whether the block or resume id was used, and how
often Jev was paid. Revisions are not counted: `snap.moved` and `snap.rescoped` say which
tasks have a newer revision or scope than the snapshot, which is all a stale command
depends on. `again` says the same of wakes. "ready" stands for all reasons that start a
task. Wakes are taken in any order (the code sorts them), which allows more behaviours. A notice
is a message and then a record of it (`told`, `noted`): a crash between the two, or an answer of
Telegram that is lost, leaves a question Matthew can answer and that is sent again.

`Dispatch` is what is left of routing when nobody looks at how it decides: no snapshot, no turn,
no id, no crash. Its state is the service's (`paused`, `status`, `live`, `approved`, `why`), the
questions Matthew was sent and three facts per cycle of a wake that may start work; each effect
of Metroplex is one action, guarded by the state the service is in at that moment. The instance
`D` at the end of `Routing` maps `cycle[w]` to those three facts and every other variable to
itself, so a step of a turn is an effect of `Dispatch` or none.

### Motion

`SweepStart` takes the snapshot and makes the list: `todo` maps places of the snapshot
(attempts first, then tasks, as `find` goes over them) to what was found there, and `batch`
has the three notices. One action each for a raise that goes through, one that is refused,
one the cap leaves out, the repeated escalation, each batch and each stored key. A key names
an episode (the attempt and its last heartbeat or checkpoint, the wake and its cycle, the
task and its revision): `flags` holds the store's `raised:` and `sent:` keys of *present*
episodes, and when one is over its key leaves `flags`, for nobody will look it up again.
`stale` and `moved` say which episodes are over, and which tasks have a newer revision, since
the snapshot; a key stored for a stale episode therefore silences nothing. `times` counts what
was done for the present episode, for the properties only, up to one more than `OncePerEpisode`
could ever allow. Timestamps past their threshold are
flags that `Elapsed` sets; only M3's window is counted, in sweeps, because its length against
the cap decides whether anybody is passed over.

## The runs

| run | question | bounds |
|---|---|---|
| `intake_safety` | safety and refinement of intake | 2 cards x 2 versions, 2 taps, ids collide across cards and differ per version, 2 plans, 2 faults; 2.4 M states |
| `intake_liveness` | is every project finished, does every card close | 2 cards, one project id for both, 2 faults |
| `chat_safety` | safety and refinement of the chat: what becomes of a message, what a card binds | 2 texts, 3 messages, cards in 2 parts, 2 faults; 3.8 M states |
| `planning_safety` | does a plan serve its card and stay in its scope | cards of up to 2 goals, answers of up to 3 items, a cap of 2, paths of up to four segments with blanks and "..", 1 fault; 0.54 M states |
| `planning_cap` | does a plan keep to the cap: no | cards of up to 2 goals, answers of up to 2 items, a cap of 2, no fault |
| `planning_blank` | is every interrupted setup finished: no | 1 item, 1 fault |
| `daemon_safety` | breakers, pause and resume | 2 projects, 2 loops, threshold 2, 1 fault outside pause(); 3.2 M states |
| `daemon_cli` | bot and command line together: a project stays paused | 2 processes, no fault |
| `routing_safety` | safety and refinement of turns | 2 tasks in a chain, one reserved, 2 workers, 1 fault, 1 move of owner or operator; 2.5 M states |
| `routing_liveness` | wakes, ready tasks, notices | 2 tasks in a chain, 1 worker, 1 fault |
| `routing_replay` | does a second run of a turn replay: not its block | 1 task, 1 fault, 1 resume |
| `motion_sweep` | once per episode, and nothing passed over | 2 tasks, 1 attempt, a cap of 1, a window of 1 sweep, 1 event; 0.16 M states |

Every bound: `MaxFaults` (crashes, lost replies, refusals nothing in the state causes),
`MaxMoves` (actions of owners and the operator), `MaxEvents` (both, in `Motion`),
`MaxMessages`, `MaxItems`, and the counters of `Daemon`'s history and of `Motion`'s `times` and
`quiet`, which stop where nothing depends on more: `times` at `MaxEvents + 2`, one beyond what
`OncePerEpisode` allows after every fault is spent. `Limit`, `MaxGoals`, `Parts`, `MaxWakes`,
`Unassigned`, `TurnCap` and `Threshold` are settings of the code, small here.

Why they are enough. The hazards of intake need at most a fault during the grant and
another during its retry, two versions (old button, new card) and two cards for a
collision. In the chat, three messages are an idea, its answer and one more in the same
batch, and two faults are a failed answer and a crash in its repetition. In planning, two
goals and a cap of two let a plan be full before a goal is served; the paths include ones
that leave the scope after normalization, an absolute one, a blank one, the whole repository,
and two whose normal form begins or ends with a blank; the goals include ids that clash, are
blank or are missing. In routing a hazard is a fault in one turn or a move within it; the tasks,
one blocking the other, share the workers. Hazards that need two moves in one turn are listed as
open. `daemon_safety` lets faults strike anything but `pause()`, because one there loses projects
(see below). In the sweep, two tasks compete for one wake, a second episode follows a first, and the event is a
crash, a refusal, a lost reply, an unsent message or a worker's return. With one attempt, first
in the list, the cap never defers a stalled worker's wake: of `StallsAreRaised` the run shows what
a refusal, a crash or a second episode does, and of the cap only what `QuietIsRaised` says of
tasks. Two attempts take more states than a run of this size allows.

Deadlock is not checked where the system may come to rest: routing (every task is done or
cancelled and everyone has left), the chat (Matthew has stopped writing and every card is
closed), and planning (a card ends granted, or Matthew is asked).

### What the runs show

Held: a project is exactly the version Matthew said yes to (`YesBinds`), its card is never
dropped, expired or changed (`ProjectKeepsCard`), "granted" means complete
(`GrantedIsComplete`), and until then the router holds its wakes (`SetupIsHeld`); retries
replay (`RetriesAgree`, `TasksFollowOnePlan`); intake implements `Authority` (`Promise`);
every project is set up and every card closes (`ProjectsAreSetUp`, `CardsClose`).

A card binds the proposal as it is stored (`SourceIsStored`), its source only grows
(`AmendmentsAccumulate`), no message is taken twice or lost without a word (`UsedOnce`,
`TextsAreKept`), answers are for the card last asked about (`AnswersGoToAsked`), a card that the
hourly pass expires is noted but for a fault (`ExpiredIsNoted`; a Yes that comes too late expires
one without a note, see `ExpiredBecomesNote` below), and nothing is granted that was not shown
(`GrantedWasSeen`). The chat implements `CardLife` (`CardsLive`): whatever fails, is sent twice
or is tapped late, a text grows only while its card is drafted, an offer binds all of it, and a
card that was granted or closed stays as it is.

Tasks write where their card allows (`TasksStayInScope`), a plan serves every goal and no other
(`GoalsAreServed`), and is carried out unless a task of it is refused (`SetupFinishes`), for which
there are two reasons, both a blank (`OnlyBlanksAreRefused`): an acceptance of blanks only, and a
path that `scope_path` itself made begin or end with one. "./ a" is stripped, then normalized to
" a", which is within a card of the whole repository; `validate_task_spec` strips " a" to "a" and
refuses it for being another path (`spec.py:172`). A card's own paths are tested by the same rule
before Matthew sees it, so there it costs a draft only.

A reset of an open breaker sticks (`ResetSticks`; a reset of a closed one may be lost: between
the read and the write of `record_failure` it clears a count that is then written back, and the
next failure counts on from there), an interrupted resume forgets no project
(`PausedIsRemembered`, `RunningMeansResumed`). A wake cycle has one worker
(`OneWorkerPerCycle`), Jev is paid once (`PaidOnce`), nobody's running work is blocked
(`NeverBlocksWork`), routing implements `Dispatch` (`Dispatches`): a stale snapshot costs a
refused command and never a wrong effect, an interrupted choice is finished by its worker, once,
and a reserved action starts with a yes to a question that was sent; no wake starves
(`WakesAreAnswered`), no ready task is forgotten (`ReadyIsConsidered`), no question stays unsent
(`BlocksAreTold`). Each id that is left used up by a turn nobody acknowledged, so that the next
turn uses it again, has cost a fault of its own (`RepeatsCostFaults`).

An episode is acted on once, and once more per fault at most (`OncePerEpisode`); what is
remembered was done, for that very episode (`RememberedWasDone`); every stall is raised
(`StallsAreRaised`), every notice arrives (`NoticesArrive`) and no quiet task is passed over
(`QuietIsRaised`).

Violated, each with a finding in `PROJECT.json`: a plan exceeds the cap that the decision-layer
plan calls hard, by the goals the model left out (`intake.py:595`; `PlansAreBounded`, below, proves
that by no more); a blank acceptance, or a path with a blank at its end, is planned and then
refused at every resume (`intake.py:576`); bot and command line race (`daemon.py:67`); a block
interrupted before its acknowledgement can wedge its wake when the task is resumed
(`routing.py:397`). The last one bounds `WakesAreAnswered`: it is checked without moves of the
operator. It takes a fault, and `FaultlessTurnsReplay` (below) proves that: where nothing fails,
every turn that runs again replays.

Eight more statements are in the modules without a run of their own. TLC refutes each when it
is added to a configuration as described:

| statement | add it to | what happens |
|---|---|---|
| `FailedAnswerCanBeRepeated` (`CardIntake`) | `intake_safety.cfg`, as a property | the question is closed before the answer is drafted (`intake.py:262`); when the draft raises, the bot says "Tap or send it again to retry" (`daemon.py:122`), but the answer sent again is a new idea |
| `ExpiredBecomesNote` (`Chat`) | `chat_safety.cfg`, as an invariant | a Yes after the card's time expires it without filing the note that the hourly pass would file (`intake.py:491`) |
| `DependenciesAsNamed` (`Planning`) | `planning_safety.cfg`, as an invariant | after an item was skipped, the dependencies of later items name the wrong tasks (`intake.py:587`) |
| `OpensWhenConsecutive` (`Daemon`) | `daemon_safety.cfg` with `Threshold = 3` | a tap that fails counts, one that succeeds does not clear the count (`daemon.py:97`), so failures that open a breaker need not be in a row |
| `PauseCanBeRetried` (`Daemon`) | `daemon_safety.cfg` with "pause" in `Interruptible` | a failed /pause paused projects that no list has, and the next /pause skips them (`daemon.py:48`) |
| `TurnsSeeEffects` (`Routing`) | `routing_safety.cfg` | a turn after one that ended in an error decides on the snapshot from before it (`routing.py:450`) |
| `AsksOnlyIfNobodyFits` (`Routing`) | `routing_safety.cfg` | a replayed judgment whose worker is busy by now becomes a question to Matthew (`routing.py:271`) |
| `OnlyDependenciesUnblock` (`Routing`) | `routing_safety.cfg` with `MaxMoves = 2` | the unblock wake of an earlier dependency block opens a task that was meanwhile blocked with a question (`routing.py:216`) |

What else the models bear out, and a reader of the code may want to know: the note of an
expired card holds the idea without its amendments, for `put_card` never rewrites the
source column (`store.py:47`, `intake.py:669`); 'card <proposal>' for a proposal an amended
card binds makes a second card (`intake.py:305`); and `QuietIsRaised` depends on M3's window:
with more waiting tasks than the cap times the sweeps of a window, those at the end of the list
starve (`motion.py:153`).

### Fairness

`CardIntake`: a handler that was begun goes on, for the daemon is one thread and systemd
restarts it after a crash (`Restart=on-failure`); the hourly pass takes every granting and
every aged card, whatever else the daemon is asked in between, hence strong fairness;
clocks run. `Planning`: the model's answer ends, the daemon goes on, and the hourly pass
comes round (`WF_vars(SettingUp)`). `Routing`: the pass starts and goes on, the sweep comes
round, windows pass, and an attempt ends at last. `Motion`: the timer comes round and a sweep
goes on; nothing is assumed of turns, workers or owners. Nothing anywhere is assumed of
Matthew or the operator, and faults are finitely many. `Chat` and `Daemon` have no liveness
property and no fairness.

## The proofs

Every safety property that a passing run checks is also a theorem, for every value of the
constants and any number of faults, and so are the three refinements and the action properties;
two of `Daemon` are proved under a condition, given below. Each proof module rests on inductive
invariants made of named parts; each part is preserved by each action, one lemma
per part or per group of actions, with one step per action that can disturb it. The `TypeOK` of
`CardIntake`, `Daemon`, `Routing` and `Motion` are theorems that no run repeats.

`CardIntakeProofs` proves `Spec => []` of `TypeOK`, `YesBinds`, `ProjectKeepsCard`,
`GrantedIsComplete`, `SetupIsHeld`, `TasksFollowOnePlan` and `RetriesAgree`, and
`Spec => Promise`. Assumed: the named assumptions of `CardIntake` (`ProjectOfAssumption`,
`PlansAssumption`, `NoneAssumption`, `FaultsAssumption`), which TLC evaluates on every intake
run. `YesBinds` is not inductive: it says nothing of a card between its Yes and its project.
The inductive invariant `IInv` adds

- `PlaceInv`: the status the card in hand has at each place of a handler, that past the Yes
  its consent is for the stored version, that past the creation its project is of that version,
  and that the plan is stored when its tasks are created;
- `OfferInv`: the version on offer is the stored one of a card that still waits for an answer;
- `GrantInv`: a granting or granted card has the project of its version and consent to it;
- `ApprovedInv`: a project exists only where an approval of its card's version is recorded;
- `PlanInv` and `PlannedInv`: tasks are entries of a stored plan, and a plan is stored only
  for a project that exists;

to `ProjectKeepsCard`, `GrantedIsComplete`, `TasksFollowOnePlan` and `RetriesAgree`. For the
refinement, each step that changes `consent`, `creator` or `Setup` is one of `Authority`'s and
every other stutters.

`ChatProofs` proves `SourceIsStored`, `AmendmentsAccumulate`, `UsedOnce`, `TextsAreKept`,
`AnswersGoToAsked`, `ExpiredIsNoted` and `GrantedWasSeen`, from `PartsAssumption` and
`TextsAssumption`. Its parts are

- `IInv`: where the daemon stands in the queue (`QueueInv`), what each place of a handler has
  in hand (`HandInv`, `PlaceInv`), that every source names a proposal (`BodyInv`), and what holds
  of a card by itself (`CardInv`); `SourceIsStored` and `GrantedWasSeen` follow;
- `ChainInv`: an amended proposal is its base and one message (`TextInv`), the answer in hand is
  a text that was said (`AnswerInv`), a batch is handled once (`TurnInv`), and the source about to
  be written is the card's own, or that one amended (`SourceInv`). An amended id names its base
  (`AmendedOnce`), so the source that is written extends the one it replaces;
- `AskInv`: while nothing has failed the open question is the last that was asked;
- `NoteInv`: the cards without a note are finitely many and cost a fault each;
- `UsedInv` and `KeptInv`: a message ends at most one text, which exists only since its turn,
  and once its turn is over it is kept or excused. Both rest on `Moves`, the one lemma about how
  any step moves the turn (`MoveStep`), and on what is filed (`FilesNext`).

`CardLifeProofs` proves `Spec => CardsLive`, from the same assumptions and `BoundsAssumption`. What
`ChatProofs` knows of queue and texts is not enough: a handler looks at a card, asks the model,
files a proposal, and only then writes. `LifeInv` adds that the card is then still as the
handler found it (being drafted, or not there yet) and that a card about to expire still waits
for an answer; `DecisionsHold` states it as a theorem. For the refinement there is one lemma per
effect (`TextsStay`, `SetMaps`, `PutMaps`, `OfferMaps`, `PartMaps`, `TapMaps`, `CloseMaps`); all
other steps change nothing `CardLife` sees (`RestMaps`). That a text grows by one message is
`SourceGrows` of `ChatProofs`, which `AmendmentsAccumulate` rests on too.

`PlanningProofs` proves `TasksStayInScope`, `GoalsAreServed`, `OnlyBlanksAreRefused` and
`PlanIsBounded`. Assumed are the types of the constants (`Names` has none of ".", ".." and the
empty name) and of the two functions that take blanks off a segment: doing so twice changes
nothing, the order of the sides does not matter, and "." has none (`TrimAssumption`). `TypeInv`
says what may be stored, `EarlyInv` that there are no tasks before the card is complete,
`ScopeInv` that each path of a task is within one of the card's, `GoalInv` that tasks serve goals
of the card, `CountInv` that a plan and the goals it still lacks are together within the bound,
and `SoundInv` that no goal of a card, task or plan is nameless and no scope empty. For
`OnlyBlanksAreRefused` a path that `scope_path` returned is a fixed point of it exactly when it
has no blank at its ends (`FixedPaths`): then stripping changes nothing, and a path of names
alone is its own normal form (`NormalOfNames`), as is every text whose normal form is no shorter
(`NormalKeepsLength`).

That a path which `scope_path` accepts has no ".." left in it, however long it is, is proved by
induction over its segments: `UpFirst` has the paths that lead up before they lead down, entering
a segment keeps a path there (`EnteredUpFirst`), and one of these that does not begin with ".."
has none. The induction is the least-element principle of `WellFoundedInduction` applied to a
set of numbers (`Induction`), and `NormalEnds` shows by it that the recursive function inside
`Normal` has the values its equation says. With `within` transitive, scopes hold not only for the
files two levels down that the run looks at, but at any depth (`ScopesHoldAtAnyDepth`).

`RoutingProofs` proves `TypeOK`, `OneWorkerPerCycle`, `PaidOnce`, `NeverBlocksWork` and
`RepeatsCostFaults` from `DepsAssumption`, `LimitsAssumption` and `NoneAssumption`. The three in
the middle are not inductive,
because a turn decides on a snapshot. Its `IInv` adds

- `ChoiceInv`: what the turn has in hand where it uses it is a worker, or an answer of Jev;
- `PaidInv`: a cycle without the mark has paid nothing, and a call has the mark before it;
- `WorkerInv`: the snapshot has the worker of every cycle the pass still has to handle, so a
  turn that decides (Jev to the contribution) is in a cycle without a worker;
- `LiveInv`: an attempt the snapshot lacks is on a task that moved since, and a turn that
  decides or asks saw nobody at work.

`RepeatsCostFaults` is inductive together with the finiteness of `Spent` (`SpentInv`): each step
leaves that set alone or has a fault and adds one wake to it at most (`PaysStep`).
`FaultlessTurnsReplay` follows.

The steps of everybody but the pass are dealt with once: `Bystander` steps leave the turn and
the cycles alone and move every task on which somebody starts (`BystandersStandBy`). Types are
proved in three parts, the service, the pass and the counters.

`DispatchProofs` proves `Spec => Dispatches`, from the same assumptions and `WorkersAssumption`
(an agent's id is none of the words for a question). For most steps `IInv` is not enough. The
refinement needs that a question is about a task that is open *now*, that a task reopened *now* is
blocked, and that a cycle that starts an attempt has a worker and none yet; all of that the turn
has only from a snapshot. `DInv` therefore adds

- `CycleInv`: an attempt was queued only in a cycle that has a worker, a turn about to queue one has
  its cycle's worker in hand and none queued, and only a wake that may start work gets so far;
- `ToldInv`: a question Matthew was sent is still the reason its task is blocked for;
- `SnapInv`: the status a snapshot has of a task is its status as long as the task has not moved, a
  task that was done is done, and an approval there is now was there then;
- `TurnInv`: what a turn that is about to ask or to reopen has seen in that snapshot.

With `SnapInv`, the revision that a command carries turns what the turn saw into what is so. The
proof has one lemma per step with an effect (`CallStep` to `PeopleStep`); all other steps change
nothing `Dispatch` sees (`Unseen`).

`MotionProofs` proves `TypeOK`, `OncePerEpisode` and `RememberedWasDone`, from
`OrderAssumption`, `TaskOfAssumption`, `NoneAssumption` and `BoundsAssumption`. `OncePerEpisode`
is not inductive: it does not say that what is about to be done was not done before. Its `IInv`
says what is in hand at each place (`PlaceInv`), that what is listed was found under that very key
at its place and is not stored yet (`TodoInv`), the same of the batches (`BatchInv`), and
(`TimesInv`) how often an episode was acted on: at most once more than there were faults, and not
once more while its key is neither stored nor about to be (`Unstored`).

`DaemonProofs` proves `TypeOK` and `ResetSticks` for any processes, loops, threshold and
faults: `BreakerInv` bounds what is counted, and what `record_failure` has read, by the
failures since the last reset of an open breaker, and says that a loop at work has a closed
breaker. `PausedIsRemembered` and `RunningMeansResumed` are proved for a daemon that is
alone and has no fault during a pause (`Alone`; `daemon_cli` and `PauseCanBeRetried` show what
goes wrong otherwise): `MemoryInv` says where, at each place of `pause()` and `resume()`, a
project paused by Metroplex is remembered.

Model-checked only: liveness under fairness, which is outside the prover. The properties of
the violation runs are refuted; what is proved of three of them is how far they hold
(`FaultlessTurnsReplay`, `RefusalsAreBlanks`, `PlansAreBounded`).

## Not modelled

- The wording of cards and messages, titles and slugs, reserved words, owners and their
  capabilities, where a long text is cut, and which users may write.
- Cards from before there was a writable scope: `_task_scope` gives their tasks none
  (`intake.py:606`).
- A command that takes effect after its client gave up: Teletraan is assumed to serve the
  requests of its socket in order.
- Two digests or command ids with the same shortened hash, and hash-safe values.
- Several projects in one routing pass, temporary, human-only and synthetic tasks, the
  ranking of candidates, and what a turn does about stalled and dead attempts (that they
  are raised is in `Motion`).
- M5's look at all of a task's dependencies beside the one its reason names, and the message
  of a batch being cut at ten findings: the others are marked as sent unnamed (`motion.py:174`).
- The `granting` hold and the turn breaker inside `Routing`; they are in `CardIntake`
  (`Held`) and `Daemon`. Liveness of routing therefore is for a closed turn breaker.
- Caps other than the thrash guard and `wakes_per_sweep` are choices (Jev skipped).
- Telegram's delivery, except that a message may not arrive, and the HTTP calls of `reasoning`;
  `config` is constants; `audit.py`, `notifier.py` and `event_emitter.py` are read by nobody or
  not used by the daemon.

## Plan

Written in this order, the most important behaviour first:

1. Done: `Authority`, `CardIntake`, `Daemon`, `Routing`, `Chat`, `Motion`, `Planning`, and the
   proofs of all their safety properties.
2. Done: `Dispatch`, which `Routing` implements, and the proof of it; it says what `src/` promises
   of the attempts it resumes (`routing.py:255`).
3. Done: `CardLife`, which `Chat` implements, and the proof of it; paths proved by induction.
4. A composition of intake, routing and control: the granting hold, cancelled projects,
   projects created while paused, the turn breaker.
5. Caps with a clock, the ranking of candidates checked against a reference, several
   projects in one pass.
