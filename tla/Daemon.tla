-------------------------------- MODULE Daemon --------------------------------
(***************************************************************************)
(* The daemon's own control (cos/daemon.py, cos/safety.py and the command  *)
(* line in metroplex.py): the circuit breakers that halt a failing loop,   *)
(* and /pause, /resume and /stop.                                          *)
(*                                                                         *)
(* The daemon is one thread.  `metroplex pause`, `resume` and `reset` run  *)
(* in processes of their own, on the same sqlite file and the same work    *)
(* service, so their steps fall between the daemon's.  What a handler or a *)
(* pass does is left out: here it succeeds or fails.                       *)
(***************************************************************************)
EXTENDS Naturals

CONSTANTS
    Projects,
    Loops,          \* the loops with a breaker
    Procs,          \* the processes that run pause() and resume()
    daemon,         \* the one of them that also runs the loops
    Threshold,      \* failures in a row that open a breaker
    MaxFaults,      \* bound: crashes and calls whose outcome is lost
    Interruptible   \* what such a fault may strike: some of Doings

Doings == {"pause", "resume", "loop"}

ASSUME LoopsAssumption == "intake" \in Loops /\ Loops \subseteq {"intake", "turn", "motion"}
ASSUME ThresholdAssumption == Threshold \in Nat \ {0}
ASSUME FaultsAssumption == MaxFaults \in Nat
ASSUME ProcsAssumption == daemon \in Procs
ASSUME InterruptibleAssumption == Interruptible \subseteq Doings

VARIABLES
    \* the sqlite store
    failures,         \* failures[l]: counted by the breaker of loop l
    opened,           \* opened[l]: the breaker has an opened_at
    paused,           \* the global flag
    paused_projects,  \* the projects that a resume is to resume
    \* Teletraan
    pausedBy,         \* pausedBy[p]: "none", "cos" or "operator"
    \* the processes
    at,               \* at[x]: where process x is
    todo,             \* todo[x]: the projects its loop has still to command
    done,             \* done[x]: the projects it has paused
    stale,            \* stale[x]: the projects changed since its snapshot
    merged,           \* merged[x]: the paused_projects it is about to store
    loop,             \* the loop the daemon works for
    seen,             \* the count it has read
    stop,             \* stop: "no", "asked" (/stop is pausing) or "requested"
    faults,
    \* kept only to state properties
    since,            \* since[l]: failures since the breaker was last closed by hand
    streak            \* streak[l]: failures in a row

store == <<failures, opened, paused, paused_projects>>
locals == <<todo, done, stale, merged>>
history == <<since, streak>>
vars == <<store, pausedBy, at, locals, loop, seen, stop, faults, history>>

Places == {"down", "idle", "work", "failed", "counted",
           "pausing", "remember", "flag", "listing", "resuming", "clear", "unflag"}

TypeOK ==
    /\ failures \in [Loops -> 0..Threshold]
    /\ opened \in [Loops -> BOOLEAN]
    /\ paused \in BOOLEAN
    /\ paused_projects \subseteq Projects
    /\ pausedBy \in [Projects -> {"none", "cos", "operator"}]
    /\ at \in [Procs -> Places]
    /\ {todo, done, stale, merged} \subseteq [Procs -> SUBSET Projects]
    /\ loop \in Loops
    /\ seen \in [failures : 0..Threshold, opened : BOOLEAN]
    /\ stop \in {"no", "asked", "requested"}
    /\ faults \in 0..MaxFaults
    /\ since \in [Loops -> 0..Threshold]
    /\ streak \in [Loops -> 0..Threshold]

Init ==
    /\ failures = [l \in Loops |-> 0]
    /\ opened = [l \in Loops |-> FALSE]
    /\ paused = FALSE
    /\ paused_projects = {}
    /\ pausedBy = [p \in Projects |-> "none"]
    /\ at = [x \in Procs |-> IF x = daemon THEN "down" ELSE "idle"]
    /\ todo = [x \in Procs |-> {}]
    /\ done = [x \in Procs |-> {}]
    /\ stale = [x \in Procs |-> {}]
    /\ merged = [x \in Procs |-> {}]
    /\ loop = "intake"
    /\ seen = [failures |-> 0, opened |-> FALSE]
    /\ stop = "no"
    /\ faults = 0
    /\ since = [l \in Loops |-> 0]
    /\ streak = [l \in Loops |-> 0]

-----------------------------------------------------------------------------

Goto(x, place) == at' = [at EXCEPT ![x] = place]

Doing(x) ==
    CASE at[x] \in {"pausing", "remember", "flag"} -> "pause"
      [] at[x] \in {"listing", "resuming", "clear", "unflag"} -> "resume"
      [] OTHER -> "loop"

Fault(x) ==
    /\ Doing(x) \in Interruptible
    /\ faults < MaxFaults
    /\ faults' = faults + 1

\* A process ends, or its handler raises: what it held in memory is gone.
Forget(x) ==
    /\ todo' = [todo EXCEPT ![x] = {}]
    /\ done' = [done EXCEPT ![x] = {}]
    /\ merged' = [merged EXCEPT ![x] = {}]

GiveUp(x) ==
    /\ Goto(x, "idle")
    /\ Forget(x)
    /\ stop' = IF x = daemon /\ stop = "asked" THEN "no" ELSE stop

Start ==
    /\ at[daemon] = "down"
    /\ Goto(daemon, "idle")
    /\ UNCHANGED <<store, pausedBy, locals, loop, seen, stop, faults, history>>

\* The loop ends once shutdown is requested, after the step in hand.
Exit ==
    /\ at[daemon] = "idle"
    /\ stop = "requested"
    /\ Goto(daemon, "down")
    /\ stop' = "no"
    /\ UNCHANGED <<store, pausedBy, locals, loop, seen, faults, history>>

Sigterm ==
    /\ at[daemon] # "down"
    /\ stop' = "requested"
    /\ UNCHANGED <<store, pausedBy, at, locals, loop, seen, faults, history>>

Crash(x) ==
    /\ at[x] \notin {"down", "idle"}
    /\ Fault(x)
    /\ Forget(x)
    /\ IF x = daemon THEN Goto(x, "down") /\ stop' = "no"
                     ELSE Goto(x, "idle") /\ UNCHANGED stop
    /\ UNCHANGED <<store, pausedBy, stale, loop, seen, history>>

-----------------------------------------------------------------------------
(* The loops and their breakers *)

\* Mutant: the breaker is announced, but not honored.
NeverHalted(l) == l = "intake" \/ ~paused

\* handle() and tick() look before they work.
Admitted(l) == ~opened[l] /\ (l = "intake" \/ ~paused)

Work(l) ==
    /\ at[daemon] = "idle"
    /\ Admitted(l)
    /\ Goto(daemon, "work")
    /\ loop' = l
    /\ UNCHANGED <<store, pausedBy, locals, seen, stop, faults, history>>

\* A text or a pass that went well closes its breaker; a tapped button that went
\* well returns before that line.
Succeed ==
    /\ at[daemon] = "work"
    /\ \/ failures' = [failures EXCEPT ![loop] = 0] /\ opened' = [opened EXCEPT ![loop] = FALSE]
       \/ loop = "intake" /\ UNCHANGED <<failures, opened>>
    /\ streak' = [streak EXCEPT ![loop] = 0]
    /\ Goto(daemon, "idle")
    /\ UNCHANGED <<paused, paused_projects, pausedBy, locals, loop, seen, stop, faults, since>>

\* record_failure reads the row and then writes it.
Fail ==
    /\ at[daemon] = "work"
    /\ Goto(daemon, "failed")
    /\ UNCHANGED <<store, pausedBy, locals, loop, seen, stop, faults, history>>

ReadBreaker ==
    /\ at[daemon] = "failed"
    /\ seen' = [failures |-> failures[loop], opened |-> opened[loop]]
    /\ Goto(daemon, "counted")
    /\ UNCHANGED <<store, pausedBy, locals, loop, stop, faults, history>>

Counted(n) == IF n < Threshold THEN n + 1 ELSE n

WriteBreaker ==
    /\ at[daemon] = "counted"
    /\ failures' = [failures EXCEPT ![loop] = seen.failures + 1]
    /\ opened' = [opened EXCEPT ![loop] = seen.failures + 1 >= Threshold \/ seen.opened]
    /\ since' = [since EXCEPT ![loop] = Counted(@)]
    /\ streak' = [streak EXCEPT ![loop] = Counted(@)]
    /\ Goto(daemon, "idle")
    /\ UNCHANGED <<paused, paused_projects, pausedBy, locals, loop, seen, stop, faults>>

\* metroplex reset <loop>, at any time.  since counts from a reset that closes an open breaker:
\* one of a breaker that is still closed is lost when it falls between a read and a write.
Reset(l) ==
    /\ failures' = [failures EXCEPT ![l] = 0]
    /\ opened' = [opened EXCEPT ![l] = FALSE]
    /\ since' = [since EXCEPT ![l] = IF opened[l] THEN 0 ELSE @]
    /\ UNCHANGED <<paused, paused_projects, pausedBy, at, locals, loop, seen, stop, faults, streak>>

-----------------------------------------------------------------------------
(* pause() *)

\* project.pause and project.resume go through at the revision of the snapshot; and
\* whoever changes a project gives it a new one.
SetPaused(p, by, x) ==
    /\ x \in Procs => p \notin stale[x]
    /\ pausedBy' = [pausedBy EXCEPT ![p] = by]
    /\ stale' = [y \in Procs |-> IF Doing(y) = "loop" THEN {}
                                 ELSE IF y = x THEN stale[y] ELSE stale[y] \cup {p}]

\* The snapshot: the projects that are not paused, each with its revision.
Pause(x) ==
    /\ at[x] = "idle"
    /\ todo' = [todo EXCEPT ![x] = {p \in Projects : pausedBy[p] = "none"}]
    /\ done' = [done EXCEPT ![x] = {}]
    /\ stale' = [stale EXCEPT ![x] = {}]
    /\ Goto(x, "pausing")
    /\ stop' \in IF x = daemon /\ stop = "no" THEN {"no", "asked"} ELSE {stop}
    /\ UNCHANGED <<store, pausedBy, merged, loop, seen, faults, history>>

\* One project.pause.  A WorkError is logged and the project left out, also that of an empty
\* reply, after which the project may be paused; anything else raises, and the command may or
\* may not have taken effect.
PauseProject(x) ==
    /\ at[x] = "pausing"
    /\ \E p \in todo[x] :
        \/ /\ SetPaused(p, "cos", x)
           /\ todo' = [todo EXCEPT ![x] = @ \ {p}]
           /\ done' = [done EXCEPT ![x] = @ \cup {p}]
           /\ UNCHANGED <<at, merged, stop, faults>>
        \/ /\ todo' = [todo EXCEPT ![x] = @ \ {p}]
           /\ UNCHANGED <<pausedBy, at, done, stale, merged, stop, faults>>
        \/ /\ Fault(x)
           /\ SetPaused(p, "cos", x)
           /\ todo' = [todo EXCEPT ![x] = @ \ {p}]
           /\ UNCHANGED <<at, done, merged, stop>>
        \/ /\ Fault(x)
           /\ \/ UNCHANGED <<pausedBy, stale>>
              \/ SetPaused(p, "cos", x)
           /\ GiveUp(x)
    /\ UNCHANGED <<store, loop, seen, history>>

\* Mutant: the projects of an earlier pause are not kept.
MergeOverwrites(x) ==
    /\ at[x] = "pausing"
    /\ todo[x] = {}
    /\ merged' = [merged EXCEPT ![x] = done[x]]
    /\ Goto(x, "remember")
    /\ UNCHANGED <<store, pausedBy, todo, done, stale, loop, seen, stop, faults, history>>

\* paused_projects is read, ...
Merge(x) ==
    /\ at[x] = "pausing"
    /\ todo[x] = {}
    /\ merged' = [merged EXCEPT ![x] = paused_projects \cup done[x]]
    /\ Goto(x, "remember")
    /\ UNCHANGED <<store, pausedBy, todo, done, stale, loop, seen, stop, faults, history>>

\* ... written with this pause's projects, ...
Remember(x) ==
    /\ at[x] = "remember"
    /\ paused_projects' = merged[x]
    /\ Goto(x, "flag")
    /\ UNCHANGED <<failures, opened, paused, pausedBy, locals, loop, seen, stop, faults, history>>

\* ... and the flag set.  /stop then asks for the shutdown.
Flag(x) ==
    /\ at[x] = "flag"
    /\ paused' = TRUE
    /\ Goto(x, "idle")
    /\ Forget(x)
    /\ stop' = IF x = daemon /\ stop = "asked" THEN "requested" ELSE stop
    /\ UNCHANGED <<failures, opened, paused_projects, pausedBy, stale, loop, seen, faults,
                   history>>

-----------------------------------------------------------------------------
(* resume() *)

\* The snapshot comes first, the stored list after it.
Resume(x) ==
    /\ at[x] = "idle"
    /\ todo' = [todo EXCEPT ![x] = {p \in Projects : pausedBy[p] # "none"}]
    /\ stale' = [stale EXCEPT ![x] = {}]
    /\ Goto(x, "listing")
    /\ UNCHANGED <<store, pausedBy, done, merged, loop, seen, stop, faults, history>>

List(x) ==
    /\ at[x] = "listing"
    /\ todo' = [todo EXCEPT ![x] = @ \cap paused_projects]
    /\ Goto(x, "resuming")
    /\ UNCHANGED <<store, pausedBy, done, stale, merged, loop, seen, stop, faults, history>>

\* Mutant: a refused project.resume is only logged, as in pause().
ResumeSwallows(x) ==
    /\ at[x] = "resuming"
    /\ \E p \in todo[x] :
        /\ todo' = [todo EXCEPT ![x] = @ \ {p}]
        /\ \/ SetPaused(p, "none", x)
           \/ UNCHANGED <<pausedBy, stale>>
    /\ UNCHANGED <<store, at, done, merged, loop, seen, stop, faults, history>>

\* One project.resume.  Any failure raises, a refusal too.
ResumeProject(x) ==
    /\ at[x] = "resuming"
    /\ \E p \in todo[x] :
        \/ /\ SetPaused(p, "none", x)
           /\ todo' = [todo EXCEPT ![x] = @ \ {p}]
           /\ UNCHANGED <<at, done, merged, stop, faults>>
        \/ GiveUp(x) /\ UNCHANGED <<pausedBy, stale, faults>>
        \/ /\ Fault(x)
           /\ \/ UNCHANGED <<pausedBy, stale>>
              \/ SetPaused(p, "none", x)
           /\ GiveUp(x)
    /\ UNCHANGED <<store, loop, seen, history>>

Clear(x) ==
    /\ at[x] = "resuming"
    /\ todo[x] = {}
    /\ paused_projects' = {}
    /\ Goto(x, "unflag")
    /\ UNCHANGED <<failures, opened, paused, pausedBy, locals, loop, seen, stop, faults, history>>

Unflag(x) ==
    /\ at[x] = "unflag"
    /\ paused' = FALSE
    /\ Goto(x, "idle")
    /\ Forget(x)
    /\ UNCHANGED <<failures, opened, paused_projects, pausedBy, stale, loop, seen, stop,
                   faults, history>>

-----------------------------------------------------------------------------

\* The operator pauses and resumes projects in Teletraan himself.
OperatorPause(p) ==
    /\ pausedBy[p] = "none"
    /\ SetPaused(p, "operator", "operator")
    /\ UNCHANGED <<store, at, todo, done, merged, loop, seen, stop, faults, history>>

OperatorResume(p) ==
    /\ pausedBy[p] # "none"
    /\ SetPaused(p, "none", "operator")
    /\ UNCHANGED <<store, at, todo, done, merged, loop, seen, stop, faults, history>>

DaemonStep == Start \/ Exit \/ Succeed \/ Fail \/ ReadBreaker \/ WriteBreaker

PauseStep(x) == PauseProject(x) \/ Merge(x) \/ Remember(x) \/ Flag(x)
ResumeStep(x) == List(x) \/ ResumeProject(x) \/ Clear(x) \/ Unflag(x)

Next ==
    \/ DaemonStep
    \/ Sigterm
    \/ \E l \in Loops : Work(l) \/ Reset(l)
    \/ \E x \in Procs : Crash(x) \/ Pause(x) \/ PauseStep(x) \/ Resume(x) \/ ResumeStep(x)
    \/ \E p \in Projects : OperatorPause(p) \/ OperatorResume(p)

Spec == Init /\ [][Next]_vars

-----------------------------------------------------------------------------
(* Properties *)

\* A `metroplex reset` that closes an open breaker is never undone by a failure
\* that was being recorded: it takes Threshold new failures to open it again.  (Of a
\* reset before the breaker opened this is not said, nor is it so.)
ResetSticks == \A l \in Loops : opened[l] => since[l] >= Threshold

\* A project that Metroplex has paused is one that the next resume will resume, or
\* the pause in hand still knows it.
PausedIsRemembered ==
    \A p \in Projects : pausedBy[p] = "cos" =>
        \/ p \in paused_projects
        \/ \E x \in Procs : Doing(x) = "pause" /\ p \in done[x]

\* While Metroplex runs, no project is left paused by Metroplex: an interrupted
\* resume has not lowered the flag.
RunningMeansResumed ==
    ~paused /\ (\A x \in Procs : Doing(x) = "loop") =>
        \A p \in Projects : pausedBy[p] # "cos"

\* A breaker opens after Threshold failures in a row.
OpensWhenConsecutive == \A l \in Loops : opened[l] => streak[l] >= Threshold

\* A /pause that failed can be sent again, as the bot says: once one has ended
\* well, /resume knows every project that Metroplex paused.
PauseCanBeRetried ==
    paused /\ (\A x \in Procs : Doing(x) = "loop") =>
        \A p \in Projects : pausedBy[p] = "cos" => p \in paused_projects

\* `metroplex pause | resume` stop and restart new work: once nobody is pausing or
\* resuming, either Metroplex is paused or no project is left paused by it.
ResumeRestarts ==
    (\A x \in Procs : Doing(x) = "loop") =>
        paused \/ \A p \in Projects : pausedBy[p] # "cos"

=============================================================================
