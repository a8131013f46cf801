------------------------------- MODULE Motion -------------------------------
(***************************************************************************)
(* The motion sweep of Metroplex (cos/motion.py): every sweep_s it takes   *)
(* one snapshot of Teletraan, finds what the wakes cannot see, raises at   *)
(* most MaxWakes wakes for it and sends the rest to Matthew, one batched   *)
(* message per kind.                                                       *)
(*                                                                         *)
(* It must act once per episode, not once per sweep.  So what it did is    *)
(* remembered in the local store under a key that names the episode (the   *)
(* attempt with its last heartbeat or checkpoint, the wake with its        *)
(* cycle), after the command or the message went through.  Workers,        *)
(* owners, the routing turns and the operator move on between any two      *)
(* steps of a sweep, and it may die between them.                          *)
(*                                                                         *)
(* A timestamp that is past its threshold is a flag here (late, silent,    *)
(* still, old, overdue), set by the clock at any time.  Only the window of *)
(* M3 is counted, in sweeps: its length against the cap is what matters.   *)
(***************************************************************************)
EXTENDS Naturals, Sequences, FiniteSets

CONSTANTS
    Attempts,      \* the attempts, in the order of the snapshot
    Tasks,         \* the tasks, in the order of the snapshot
    TaskOf,        \* TaskOf[a]: the task of attempt a
    Blocker,       \* Blocker[t]: the task that t's "dep:" reason names
    MaxWakes,      \* caps.wakes_per_sweep
    Unassigned,    \* thresholds.unassigned_s in sweeps
    MaxEvents,     \* bound: faults (crashes, refused commands, messages not sent) and
                   \* moves (a task or an episode that begins anew) together
    None

AttemptSet == {Attempts[i] : i \in DOMAIN Attempts}
TaskSet == {Tasks[i] : i \in DOMAIN Tasks}

ASSUME OrderAssumption ==
    /\ Attempts \in Seq(AttemptSet) /\ Tasks \in Seq(TaskSet)
    /\ \A i, j \in DOMAIN Attempts : Attempts[i] = Attempts[j] => i = j
    /\ \A i, j \in DOMAIN Tasks : Tasks[i] = Tasks[j] => i = j
ASSUME TaskOfAssumption == TaskOf \in [AttemptSet -> TaskSet]
ASSUME BlockerAssumption == Blocker \in [TaskSet -> TaskSet]
ASSUME BoundsAssumption == {MaxWakes, Unassigned, MaxEvents} \subseteq Nat

\* "unassigned" stands also for the reasons for which Teletraan itself wakes a task that may
\* start.
Reasons == {"stalled", "unassigned", "unblock", "result"}
Wakes == TaskSet \X Reasons

\* What the store remembers: one key per episode of each kind.
Keys == ({"queued", "dead", "stalled"} \X AttemptSet) \cup ({"notice", "review"} \X TaskSet)
        \cup ({"orphan"} \X Wakes)
ASSUME NoneAssumption == None \notin Reasons /\ None \notin Keys
Batches == <<"orphan", "queued", "review">>   \* in the order they are sent
Kinds == {"orphan", "queued", "review"}

VARIABLES
    \* Teletraan
    attempt,    \* "none", "queued", "running" or "over"
    late,       \* the attempts queued for too long
    silent,     \* the attempts whose last heartbeat is too old
    still,      \* the attempts whose last checkpoint is too old
    status,     \* "open", "dep" or "asked" (both blocked), or "done"
    review,     \* the tasks with a result that waits for its owner
    overdue,    \* those that have waited for a day
    pending,    \* the unacknowledged wakes
    old,        \* those past the orphan window
    quiet,      \* quiet[t]: sweeps since the last acknowledgement of a wake of t
    \* the local store
    flags,      \* the keys under which something is stored, of present episodes
    \* the sweep
    due,        \* the timer
    at,
    todo,       \* the findings it has still to look at, by their places in the snapshot
    count, batch, marking,
    moved,      \* the tasks with a newer revision than the snapshot
    stale,      \* the keys whose episode ended since the snapshot
    times,      \* times[k]: how often the present episode of k was acted on (a history)
    faults, moves

teletraan == <<attempt, late, silent, still, status, review, overdue, pending, old, quiet>>
sweep == <<due, at, todo, count, batch, marking>>
since == <<moved, stale>>
vars == <<teletraan, flags, sweep, since, times, faults, moves>>

Places == 1..(Len(Attempts) + Len(Tasks))
Finding == [task : TaskSet, reason : {"stalled", "unassigned", "unblock", None},
            key : Keys \cup {None}]

TypeOK ==
    /\ attempt \in [AttemptSet -> {"none", "queued", "running", "over"}]
    /\ late \cup silent \cup still \subseteq AttemptSet
    /\ status \in [TaskSet -> {"open", "dep", "asked", "done"}]
    /\ overdue \subseteq review /\ review \subseteq TaskSet
    /\ old \subseteq pending /\ pending \subseteq Wakes
    /\ quiet \in [TaskSet -> 0..(Unassigned + 1)]
    /\ flags \cup stale \subseteq Keys
    /\ moved \subseteq TaskSet
    /\ due \in BOOLEAN
    /\ at \in {"idle", "loop", "flag", "mark"}
    /\ DOMAIN todo \subseteq Places /\ todo \in [DOMAIN todo -> Finding]
    /\ count \in 0..MaxWakes
    /\ batch \in [Kinds -> SUBSET Keys]
    /\ marking \subseteq Keys
    /\ times \in [Keys -> 0..(MaxEvents + 2)]
    /\ faults \in 0..MaxEvents
    /\ moves \in 0..MaxEvents

Init ==
    /\ attempt = [a \in AttemptSet |-> "none"]
    /\ late = {} /\ silent = {} /\ still = {}
    /\ status = [t \in TaskSet |-> "open"]
    /\ review = {} /\ overdue = {}
    /\ pending = TaskSet \X {"unassigned"} /\ old = {}
    /\ quiet = [t \in TaskSet |-> 0]
    /\ flags = {}
    /\ due = FALSE /\ at = "idle" /\ todo = <<>> /\ count = 0
    /\ batch = [b \in Kinds |-> {}] /\ marking = {}
    /\ moved = {} /\ stale = {}
    /\ times = [k \in Keys |-> 0]
    /\ faults = 0 /\ moves = 0

Fault == faults + moves < MaxEvents /\ faults' = faults + 1
Move == faults + moves < MaxEvents /\ moves' = moves + 1

\* The episodes ks are over: what is stored under their keys is never looked up again.
NewEpisodes(ks) ==
    /\ flags' = flags \ ks
    /\ times' = [k \in Keys |-> IF k \in ks THEN 0 ELSE times[k]]
    /\ stale' = IF at = "idle" THEN stale ELSE stale \cup ks

SameEpisodes == UNCHANGED <<flags, times, stale>>

\* The tasks ts have a new revision.
Revises(ts) == moved' = IF at = "idle" THEN moved ELSE moved \cup ts

-----------------------------------------------------------------------------
(* find *)

Live(t) == \E a \in AttemptSet : TaskOf[a] = t /\ attempt[a] \in {"queued", "running"}

\* waiting_to_route
Waiting(t) ==
    /\ status[t] = "open"
    /\ ~Live(t)
    /\ \A r \in Reasons : <<t, r>> \notin pending
    /\ t \notin review

Raise(t, reason, key) == [task |-> t, reason |-> reason, key |-> key]
Nothing == [task |-> None, reason |-> None, key |-> None]

\* M2 dead, else M1 stalled, one episode per heartbeat or checkpoint.
OfAttempt(a) ==
    IF attempt[a] # "running" \/ <<TaskOf[a], "stalled">> \in pending THEN Nothing
    ELSE IF a \in silent THEN Raise(TaskOf[a], "stalled", <<"dead", a>>)
    ELSE IF a \in still THEN Raise(TaskOf[a], "stalled", <<"stalled", a>>)
    ELSE Nothing

\* Mutant: M3 without its window.
OfTaskAtOnce(t) ==
    IF Waiting(t) THEN Raise(t, "unassigned", None) ELSE Nothing

\* M3 unassigned, M5 unblock, and the escalation whose message never got through.
OfTask(t) ==
    IF Waiting(t) /\ quiet[t] > Unassigned THEN Raise(t, "unassigned", None)
    ELSE IF status[t] = "dep" /\ <<t, "unblock">> \notin pending /\ status[Blocker[t]] = "done"
         THEN Raise(t, "unblock", None)
    ELSE IF status[t] = "asked" THEN Raise(t, None, <<"notice", t>>)
    ELSE Nothing

Found(i) ==
    IF i <= Len(Attempts) THEN OfAttempt(Attempts[i]) ELSE OfTask(Tasks[i - Len(Attempts)])

Raises == {i \in Places : Found(i) # Nothing}

\* M6 queued, M7 review, M4 orphan: nothing a wake could help.
LongQueued == {<<"queued", a>> : a \in {b \in late : attempt[b] = "queued"}}
OverdueReviews == {<<"review", t>> : t \in {u \in overdue : status[u] # "done"}}
Orphans == {<<"orphan", w>> : w \in old}

Notices == LongQueued \cup OverdueReviews \cup Orphans

-----------------------------------------------------------------------------
(* sweep *)

\* One snapshot.  What the store holds is read with it, for only the sweep writes there.
SweepStart ==
    /\ at = "idle" /\ due
    /\ due' = FALSE
    /\ at' = "loop"
    /\ todo' = [i \in {j \in Raises : Found(j).key = None \/ Found(j).key \notin flags} |-> Found(i)]
    /\ batch' = [b \in Kinds |-> {k \in Notices \ flags : k[1] = b}]
    /\ count' = 0
    /\ moved' = {} /\ stale' = {}
    /\ UNCHANGED <<teletraan, flags, marking, times, faults, moves>>

\* The finding f at place i comes next.
Comes(i, f) ==
    /\ i \in DOMAIN todo /\ f = todo[i]
    /\ \A j \in DOMAIN todo : i <= j

Drop(i) == todo' = [j \in DOMAIN todo \ {i} |-> todo[j]]

AtCap == count >= MaxWakes

\* The cap on wakes is reached: this one is left to a later sweep.
Deferred(i, f) ==
    /\ at = "loop" /\ Comes(i, f)
    /\ f.reason # None /\ AtCap
    /\ Drop(i)
    /\ UNCHANGED <<teletraan, flags, due, at, count, batch, marking, since, times, faults, moves>>

\* Counted to one more than OncePerEpisode can allow.
Again(n) == IF n > MaxEvents + 1 THEN n ELSE n + 1

Counted(k) ==
    times' = IF k = None \/ k \in stale THEN times
             ELSE [times EXCEPT ![k] = Again(@)]

\* The sweep is over: what it had in hand is forgotten.
Over ==
    /\ at' = "idle" /\ todo' = <<>> /\ count' = 0
    /\ batch' = [b \in Kinds |-> {}]
    /\ moved' = {} /\ stale' = {}

\* wake.raise, fenced by the task's revision in the snapshot.  The reply may be lost: as an
\* exception, which ends the sweep, or as an empty one, a WorkError, which is logged like a
\* refusal.
WakeRaised(i, f) ==
    /\ at = "loop" /\ Comes(i, f)
    /\ f.reason # None /\ ~AtCap
    /\ f.task \notin moved
    /\ pending' = pending \cup {<<f.task, f.reason>>}
    /\ Counted(f.key)
    /\ \/ /\ count' = count + 1
          /\ IF f.key = None THEN Drop(i) /\ UNCHANGED at ELSE at' = "flag" /\ UNCHANGED todo
          /\ UNCHANGED faults
          /\ UNCHANGED <<batch, since>>
       \/ Fault /\ Over
       \/ Fault /\ Drop(i) /\ UNCHANGED <<at, count, batch, since>>
    /\ UNCHANGED <<attempt, late, silent, still, status, review, overdue, old, quiet, flags,
                   due, marking, moves>>

\* Mutant: a refused raise is remembered like one that was made.
RefusedRemembered(i, f) ==
    /\ at = "loop" /\ Comes(i, f)
    /\ f.reason # None /\ ~AtCap
    /\ IF f.task \in moved THEN UNCHANGED faults ELSE Fault
    /\ IF f.key = None THEN Drop(i) /\ UNCHANGED at ELSE at' = "flag" /\ UNCHANGED todo
    /\ UNCHANGED <<teletraan, flags, due, count, batch, marking, since, times, moves>>

\* Refused, because the task has moved or for another reason: logged, and not counted.
RaiseRefused(i, f) ==
    /\ at = "loop" /\ Comes(i, f)
    /\ f.reason # None /\ ~AtCap
    /\ IF f.task \in moved THEN UNCHANGED faults ELSE Fault
    /\ Drop(i)
    /\ UNCHANGED <<teletraan, flags, due, at, count, batch, marking, since, times, moves>>

\* The escalation of a blocked task is sent again; what counts is that it was delivered.
EscalationSent(i, f) ==
    /\ at = "loop" /\ Comes(i, f)
    /\ f.reason = None
    /\ \/ Counted(f.key) /\ at' = "flag" /\ UNCHANGED <<todo, faults>>
       \/ Fault /\ Drop(i) /\ UNCHANGED <<at, times>>
    /\ UNCHANGED <<teletraan, flags, due, count, batch, marking, since, moves>>

\* Mutant: the raise is not remembered.
NotRemembered(i, f) ==
    /\ at = "flag" /\ Comes(i, f)
    /\ at' = "loop" /\ Drop(i)
    /\ UNCHANGED <<teletraan, flags, due, count, batch, marking, since, times, faults, moves>>

\* Mutant: stored under the episode of now.
RememberedNow(i, f) ==
    /\ at = "flag" /\ Comes(i, f)
    /\ flags' = flags \cup {f.key}
    /\ at' = "loop" /\ Drop(i)
    /\ UNCHANGED <<teletraan, due, count, batch, marking, since, times, faults, moves>>

\* The key of what was done is stored, under the snapshot's episode.
Remember(i, f) ==
    /\ at = "flag" /\ Comes(i, f)
    /\ flags' = IF f.key \in stale THEN flags ELSE flags \cup {f.key}
    /\ at' = "loop" /\ Drop(i)
    /\ UNCHANGED <<teletraan, due, count, batch, marking, since, times, faults, moves>>

LoopDone == at = "loop" /\ DOMAIN todo = {}

\* The next batch with something in it.
IsNext(b) ==
    \E i \in DOMAIN Batches :
        Batches[i] = b /\ batch[b] # {} /\ \A j \in 1..(i - 1) : batch[Batches[j]] = {}

\* Mutant: the batch is remembered whether or not its message was sent.
BatchMarkedUnsent(b) ==
    /\ LoopDone /\ IsNext(b)
    /\ batch' = [batch EXCEPT ![b] = {}]
    /\ marking' = batch[b]
    /\ at' = "mark"
    /\ \/ /\ times' = [k \in Keys |-> IF k \in batch[b] \ stale THEN Again(times[k]) ELSE times[k]]
          /\ UNCHANGED faults
       \/ Fault /\ UNCHANGED times
    /\ UNCHANGED <<teletraan, flags, due, todo, count, since, moves>>

\* One message for the batch.  If it was not sent nothing is remembered of it.
BatchSent(b) ==
    /\ LoopDone /\ IsNext(b)
    /\ batch' = [batch EXCEPT ![b] = {}]
    /\ \/ /\ marking' = batch[b] /\ at' = "mark"
          /\ times' = [k \in Keys |-> IF k \in batch[b] \ stale THEN Again(times[k]) ELSE times[k]]
          /\ UNCHANGED faults
       \/ Fault /\ UNCHANGED <<at, marking, times>>
    /\ UNCHANGED <<teletraan, flags, due, todo, count, since, moves>>

\* The keys of a batch that was sent are stored one by one.
BatchMarked ==
    /\ at = "mark"
    /\ \E k \in marking :
        /\ flags' = IF k \in stale THEN flags ELSE flags \cup {k}
        /\ marking' = marking \ {k}
        /\ at' = IF marking = {k} THEN "loop" ELSE "mark"
    /\ UNCHANGED <<teletraan, due, todo, count, batch, since, times, faults, moves>>

SweepEnds ==
    /\ LoopDone
    /\ \A b \in Kinds : batch[b] = {}
    /\ Over
    /\ UNCHANGED <<teletraan, flags, due, marking, times, faults, moves>>

\* The process dies, or a call raises what is no WorkError.
Abort ==
    /\ at # "idle"
    /\ Fault
    /\ Over /\ marking' = {}
    /\ UNCHANGED <<teletraan, flags, due, times, moves>>

-----------------------------------------------------------------------------
(* Everybody else *)

InHand == <<due, at, todo, count, batch, marking>>

\* A routing turn acknowledges wake w.  It may queue an attempt, resume a blocked task or
\* block it with a question whose message is lost.
Turn(w) ==
    LET t == w[1] IN
    /\ at = "idle"
    /\ w \in pending
    /\ pending' = pending \ {w} /\ old' = old \ {w}
    /\ quiet' = [quiet EXCEPT ![t] = 0]
    /\ \/ /\ w[2] = "unassigned" /\ status[t] = "open" /\ ~Live(t) /\ t \notin review
          /\ \E a \in AttemptSet :
                /\ attempt[a] = "none" /\ TaskOf[a] = t
                /\ attempt' = [attempt EXCEPT ![a] = "queued"]
          /\ UNCHANGED status
          /\ NewEpisodes({<<"orphan", w>>})
       \/ /\ w[2] = "unassigned" /\ status[t] = "open" /\ ~Live(t)
          /\ status' = [status EXCEPT ![t] = "asked"]
          /\ UNCHANGED attempt
          /\ NewEpisodes({<<"orphan", w>>, <<"notice", t>>})
       \/ /\ w[2] = "unblock" /\ status[t] = "dep"
          /\ status' = [status EXCEPT ![t] = "open"]
          /\ UNCHANGED attempt
          /\ NewEpisodes({<<"orphan", w>>})
       \/ /\ UNCHANGED <<attempt, status>>
          /\ NewEpisodes({<<"orphan", w>>})
    /\ UNCHANGED <<late, silent, still, review, overdue, InHand, moved, faults, moves>>

AttemptStarts(a) ==
    /\ attempt[a] = "queued"
    /\ attempt' = [attempt EXCEPT ![a] = "running"]
    /\ late' = late \ {a}
    /\ NewEpisodes({<<"queued", a>>})
    /\ UNCHANGED <<silent, still, status, review, overdue, pending, old, quiet, InHand, moved,
                   faults, moves>>

\* The attempt ends, with a result for the owner to review or without.
AttemptEnds(a) ==
    LET t == TaskOf[a] IN
    /\ attempt[a] \in {"queued", "running"}
    /\ attempt' = [attempt EXCEPT ![a] = "over"]
    /\ late' = late \ {a} /\ silent' = silent \ {a} /\ still' = still \ {a}
    /\ \/ /\ attempt[a] = "running"
          /\ pending' = pending \cup {<<t, "result">>}
          /\ review' = review \cup {t}
          /\ NewEpisodes({<<"queued", a>>, <<"dead", a>>, <<"stalled", a>>, <<"review", t>>})
       \/ /\ pending' = pending \cup {<<t, "unassigned">>}
          /\ UNCHANGED review
          /\ NewEpisodes({<<"queued", a>>, <<"dead", a>>, <<"stalled", a>>})
    /\ Revises({t})
    /\ UNCHANGED <<status, overdue, old, quiet, InHand, faults, moves>>

\* A heartbeat or a checkpoint after a silence ends its episode.
Beats(a) ==
    /\ a \in silent
    /\ Move
    /\ silent' = silent \ {a}
    /\ NewEpisodes({<<"dead", a>>})
    /\ UNCHANGED <<attempt, late, still, status, review, overdue, pending, old, quiet, InHand,
                   moved, faults>>

Checkpoints(a) ==
    /\ a \in still
    /\ Move
    /\ still' = still \ {a}
    /\ NewEpisodes({<<"stalled", a>>})
    /\ UNCHANGED <<attempt, late, silent, status, review, overdue, pending, old, quiet, InHand,
                   moved, faults>>

\* The owner takes a result back into work, or completes the task.
OwnerReviews(t) ==
    /\ status[t] = "open"
    /\ \/ Move /\ t \in review /\ UNCHANGED status
       \/ ~Live(t) /\ status' = [status EXCEPT ![t] = "done"] /\ UNCHANGED moves
    /\ review' = review \ {t} /\ overdue' = overdue \ {t}
    /\ NewEpisodes({<<"review", t>>})
    /\ Revises({t})
    /\ UNCHANGED <<attempt, late, silent, still, pending, old, quiet, InHand, faults>>

\* The operator lets a task wait for another, or resumes a blocked one.
Operates(t) ==
    /\ Move
    /\ \/ status[t] = "open" /\ ~Live(t) /\ status' = [status EXCEPT ![t] = "dep"]
       \/ status[t] = "asked" /\ status' = [status EXCEPT ![t] = "open"]
    /\ NewEpisodes({<<"notice", t>>})
    /\ Revises({t})
    /\ UNCHANGED <<attempt, late, silent, still, review, overdue, pending, old, quiet, InHand,
                   faults>>

\* So much time passes that what waits has waited too long, or that a worker has been quiet
\* for too long.  Only the next snapshot can tell.
Elapsed ==
    /\ at = "idle" /\ ~due
    /\ \/ /\ late' = {a \in AttemptSet : attempt[a] = "queued"}
          /\ old' = pending /\ overdue' = review
          /\ UNCHANGED <<silent, still>>
       \/ /\ \E a \in AttemptSet :
                /\ attempt[a] = "running"
                /\ \/ silent' = silent \cup {a} /\ UNCHANGED still
                   \/ still' = still \cup {a} /\ UNCHANGED silent
          /\ UNCHANGED <<late, old, overdue>>
    /\ SameEpisodes
    /\ UNCHANGED <<attempt, status, review, pending, quiet, InHand, moved, faults, moves>>

\* sweep_s have passed, and a sweep takes less than that.
Tick ==
    /\ at = "idle" /\ ~due
    /\ due' = TRUE
    /\ quiet' = [t \in TaskSet |-> IF quiet[t] > Unassigned THEN quiet[t] ELSE quiet[t] + 1]
    /\ SameEpisodes
    /\ UNCHANGED <<attempt, late, silent, still, status, review, overdue, pending, old,
                   at, todo, count, batch, marking, moved, faults, moves>>

-----------------------------------------------------------------------------

Sweep ==
    \/ SweepStart
    \/ \E i \in DOMAIN todo : LET f == todo[i] IN
            \/ Deferred(i, f) \/ WakeRaised(i, f) \/ RaiseRefused(i, f)
            \/ EscalationSent(i, f) \/ Remember(i, f)
    \/ (\E b \in Kinds : BatchSent(b)) \/ BatchMarked \/ SweepEnds

Others ==
    \/ \E w \in Wakes : Turn(w)
    \/ \E a \in AttemptSet : AttemptStarts(a) \/ AttemptEnds(a) \/ Beats(a) \/ Checkpoints(a)
    \/ \E t \in TaskSet : OwnerReviews(t) \/ Operates(t)
    \/ Elapsed

Next == Sweep \/ Abort \/ Tick \/ Others

Spec == Init /\ [][Next]_vars

\* The daemon's timer comes round and a sweep goes on.  Nothing is assumed of the turns,
\* the workers or the owners.
FairSpec == Spec /\ WF_vars(Sweep) /\ WF_vars(Tick)

-----------------------------------------------------------------------------
(* Properties *)

\* An episode is raised, or told to Matthew, once: every further time is owed to a crash
\* or a lost reply between the act and the store (the keys raised: and sent:).
OncePerEpisode == \A k \in Keys : times[k] <= 1 + faults

\* Nothing is remembered as done that was not done for that very episode: what a sweep
\* stores late, after the attempt moved on, must not silence the next episode.
RememberedWasDone == \A k \in flags : times[k] > 0

Stalls(a, k) ==
    /\ attempt[a] = "running"
    /\ k = IF a \in silent THEN <<"dead", a>> ELSE <<"stalled", a>>
    /\ a \in silent \cup still
    /\ <<TaskOf[a], "stalled">> \notin pending
    /\ times[k] = 0

\* A worker that went quiet is reported: the cap, a refusal or a crash only delay it.
StallsAreRaised ==
    \A a \in AttemptSet : \A k \in {<<"dead", a>>, <<"stalled", a>>} :
        Stalls(a, k) ~> ~Stalls(a, k)

\* Every notice that is due reaches Matthew unless what it is about is over.
NoticesArrive ==
    \A k \in {n \in Keys : n[1] \in Kinds} :
        (k \in Notices /\ times[k] = 0) ~> (k \notin Notices \/ times[k] > 0)

\* No task that waits quietly for an agent is passed over for ever, although the cap on
\* wakes is always spent from the front of the list.
QuietIsRaised == \A t \in TaskSet : Waiting(t) ~> ~Waiting(t)

=============================================================================
