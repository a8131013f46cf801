----------------------------- MODULE DaemonProofs -----------------------------
(***************************************************************************)
(* Proofs about Daemon.  The breakers are proved for any number of         *)
(* processes, any faults and resets at any time; what /pause and /resume   *)
(* promise is proved for the daemon alone, with no fault during a pause:   *)
(* without either, TLC shows that the promise is not kept.                 *)
(***************************************************************************)
EXTENDS Daemon, TLAPS

-----------------------------------------------------------------------------
(* The breakers *)

Handling == {"work", "failed", "counted"}

\* What the breaker of a loop counts is never more than its failures since it was last
\* closed by hand, also after a reset that fell between the read and the write.
BreakerInv ==
    /\ \A l \in Loops : failures[l] <= since[l]
    /\ \A l \in Loops : ~opened[l] => failures[l] < Threshold
    /\ \A l \in Loops : opened[l] => since[l] >= Threshold
    /\ at[daemon] \in Handling => ~opened[loop]
    /\ at[daemon] = "counted" =>
        ~seen.opened /\ seen.failures < Threshold /\ seen.failures <= since[loop]

IInv == TypeOK /\ BreakerInv

\* The constants, as the proofs use them.
LEMMA Constants ==
  /\ Threshold \in Nat \ {0} /\ MaxFaults \in Nat
  /\ daemon \in Procs /\ "intake" \in Loops
  BY ThresholdAssumption, FaultsAssumption, ProcsAssumption, LoopsAssumption

\* The invariant holds at the start.
LEMMA InitIInv == Init => IInv
<1> SUFFICES ASSUME Init PROVE IInv
  OBVIOUS
<1>1. {todo, done, stale, merged} \subseteq [Procs -> SUBSET Projects]
  BY DEF Init
<1>2. at \in [Procs -> Places]
  BY DEF Init, Places
<1>3. seen \in [failures : 0..Threshold, opened : BOOLEAN]
  BY Constants DEF Init
<1>4. {failures, since, streak} \subseteq [Loops -> 0..Threshold] /\ opened \in [Loops -> BOOLEAN]
  BY Constants DEF Init
<1>5. pausedBy \in [Projects -> {"none", "cos", "operator"}]
  BY DEF Init
<1>6. TypeOK
  <2>1. paused \in BOOLEAN
    BY DEF Init
  <2>2. paused_projects \subseteq Projects /\ loop \in Loops
    BY Constants DEF Init
  <2>3. stop \in {"no", "asked", "requested"} /\ faults \in 0..MaxFaults
    BY Constants DEF Init
  <2> QED
    BY <2>1, <2>2, <2>3, <1>1, <1>2, <1>3, <1>4, <1>5 DEF TypeOK
<1>7. BreakerInv
  BY Constants DEF Init, BreakerInv, Handling
<1> QED
  BY <1>6, <1>7 DEF IInv

\* A process that moves stays well typed.
LEMMA GotoType ==
  ASSUME TypeOK, NEW x \in Procs, NEW place \in Places, Goto(x, place)
  PROVE  /\ at' \in [Procs -> Places]
         /\ at'[x] = place
         /\ \A y \in Procs \ {x} : at'[y] = at[y]
  BY DEF TypeOK, Goto

\* What a process holds in memory stays well typed when it is gone.
LEMMA ForgetType ==
  ASSUME TypeOK, NEW x \in Procs, Forget(x)
  PROVE  {todo', done', merged'} \subseteq [Procs -> SUBSET Projects]
  BY DEF TypeOK, Forget

\* A change of a project's state is well typed.
LEMMA SetPausedType ==
  ASSUME TypeOK, NEW p \in Projects, NEW by \in {"none", "cos", "operator"}, NEW x,
         SetPaused(p, by, x)
  PROVE  /\ pausedBy' \in [Projects -> {"none", "cos", "operator"}]
         /\ stale' \in [Procs -> SUBSET Projects]
  BY DEF TypeOK, SetPaused

\* A fault is one of MaxFaults.
LEMMA FaultType == ASSUME TypeOK, NEW x, Fault(x) PROVE faults' \in 0..MaxFaults
  BY Constants DEF TypeOK, Fault

\* A step of no loop leaves the breakers alone.
LEMMA BreakersKept ==
  ASSUME IInv, UNCHANGED <<failures, opened, since, seen, loop>>,
         at'[daemon] \in Handling => at'[daemon] = at[daemon]
  PROVE  BreakerInv'
  BY DEF IInv, BreakerInv, Handling

\* Every step keeps the invariant: one step of the proof per action.
LEMMA NextIInv == IInv /\ [Next]_vars => IInv'
<1> SUFFICES ASSUME IInv, [Next]_vars PROVE IInv'
  OBVIOUS
<1>a. TypeOK /\ BreakerInv
  BY DEF IInv
<1>b. /\ todo \in [Procs -> SUBSET Projects] /\ done \in [Procs -> SUBSET Projects]
      /\ stale \in [Procs -> SUBSET Projects] /\ merged \in [Procs -> SUBSET Projects]
  BY <1>a DEF TypeOK
<1> USE Constants
<1>1. CASE Start
  <2>1. TypeOK'
    BY <1>1, <1>a, <1>b, GotoType DEF Start, TypeOK, Places, store, locals, history
  <2>2. BreakerInv'
    BY <1>1, <1>a, BreakersKept DEF Start, Handling, TypeOK, store, locals, history, Goto
  <2> QED
    BY <2>1, <2>2 DEF IInv
<1>2. CASE Exit
  <2>1. TypeOK'
    BY <1>2, <1>a, <1>b, GotoType DEF Exit, TypeOK, Places, store, locals, history
  <2>2. BreakerInv'
    BY <1>2, <1>a, BreakersKept DEF Exit, Handling, TypeOK, store, locals, history, Goto
  <2> QED
    BY <2>1, <2>2 DEF IInv
<1>3. CASE Sigterm
  <2>1. TypeOK'
    BY <1>3, <1>a, <1>b DEF Sigterm, TypeOK, Places, store, locals, history
  <2>2. BreakerInv'
    BY <1>3, <1>a, BreakersKept DEF Sigterm, Handling, TypeOK, store, locals, history
  <2> QED
    BY <2>1, <2>2 DEF IInv
<1>4. CASE Succeed
  <2>1. TypeOK'
    <3>1. failures' \in [Loops -> 0..Threshold] /\ opened' \in [Loops -> BOOLEAN]
      <4>1. CASE UNCHANGED <<failures, opened>>
        BY <4>1, <1>a DEF TypeOK
      <4>2. CASE failures' = [failures EXCEPT ![loop] = 0]
                 /\ opened' = [opened EXCEPT ![loop] = FALSE]
        <5>1. failures' \in [Loops -> 0..Threshold]
          BY <4>2, <1>a DEF TypeOK
        <5>2. opened' \in [Loops -> BOOLEAN]
          BY <4>2, <1>a DEF TypeOK
        <5> QED
          BY <5>1, <5>2
      <4> QED
        BY <1>4, <4>1, <4>2 DEF Succeed
    <3>2. streak' \in [Loops -> 0..Threshold]
      BY <1>4, <1>a DEF Succeed, TypeOK
    <3>3. at' \in [Procs -> Places]
      BY <1>4, <1>a, GotoType DEF Succeed, Places
    <3> QED
      BY <1>4, <3>1, <3>2, <3>3, <1>a DEF Succeed, TypeOK, locals
  <2>2. BreakerInv'
    BY <1>4, <1>a, BreakersKept DEF Succeed, Handling, TypeOK, locals, Goto, BreakerInv
  <2> QED
    BY <2>1, <2>2 DEF IInv
<1>5. CASE Fail
  <2>1. TypeOK'
    BY <1>5, <1>a, <1>b, GotoType DEF Fail, TypeOK, Places, store, locals, history
  <2>2. BreakerInv'
    BY <1>5, <1>a, BreakersKept DEF Fail, Handling, TypeOK, store, locals, history, Goto,
       BreakerInv
  <2> QED
    BY <2>1, <2>2 DEF IInv
<1>6. CASE ReadBreaker
  <2>1. TypeOK'
    BY <1>6, <1>a, <1>b, GotoType DEF ReadBreaker, TypeOK, Places, store, locals, history
  <2>2. BreakerInv'
    BY <1>6, <1>a, BreakersKept DEF ReadBreaker, Handling, TypeOK, store, locals, history,
       Goto, BreakerInv
  <2> QED
    BY <2>1, <2>2 DEF IInv
<1>7. CASE WriteBreaker
  <2>1. TypeOK'
    BY <1>7, <1>a, <1>b, GotoType DEF WriteBreaker, TypeOK, Places, locals, BreakerInv,
       Handling, Counted
  <2>2. BreakerInv'
    <3>1. at'[daemon] = "idle"
      BY <1>7, <1>a DEF WriteBreaker, Goto, TypeOK
    <3>2. /\ loop \in Loops /\ seen.failures \in Nat /\ since[loop] \in Nat
          /\ ~seen.opened /\ seen.failures < Threshold /\ seen.failures <= since[loop]
          /\ since[loop] <= Threshold
      BY <1>7, <1>a DEF WriteBreaker, TypeOK, BreakerInv
    <3>3. /\ failures'[loop] = seen.failures + 1
          /\ opened'[loop] <=> seen.failures + 1 >= Threshold
          /\ since'[loop] = Counted(since[loop])
      BY <1>7, <3>2, <1>a DEF WriteBreaker, TypeOK
    <3>4. \A l \in Loops \ {loop} : /\ failures'[l] = failures[l]
                                     /\ opened'[l] = opened[l]
                                     /\ since'[l] = since[l]
      BY <1>7, <1>a DEF WriteBreaker, TypeOK
    <3>5. /\ failures'[loop] <= since'[loop]
          /\ ~opened'[loop] => failures'[loop] < Threshold
          /\ opened'[loop] => since'[loop] >= Threshold
      BY <3>2, <3>3 DEF Counted
    <3> QED
      BY <3>1, <3>4, <3>5, <1>a DEF BreakerInv, Handling
  <2> QED
    BY <2>1, <2>2 DEF IInv
<1>8. ASSUME NEW l \in Loops, Work(l) PROVE IInv'
  <2>1. TypeOK'
    BY <1>8, <1>a, <1>b, GotoType DEF Work, TypeOK, Places, store, locals, history
  <2>2. BreakerInv'
    BY <1>8, <1>a, BreakersKept DEF Work, Handling, TypeOK, store, locals, history, Goto,
       BreakerInv, Admitted
  <2> QED
    BY <2>1, <2>2 DEF IInv
<1>9. ASSUME NEW l \in Loops, Reset(l) PROVE IInv'
  <2>1. TypeOK'
    BY <1>9, <1>a, <1>b DEF Reset, TypeOK, Places, locals
  <2>2. BreakerInv'
    BY <1>9, <1>a, BreakersKept DEF Reset, Handling, TypeOK, locals, BreakerInv
  <2> QED
    BY <2>1, <2>2 DEF IInv
<1>10. ASSUME NEW x \in Procs, Crash(x) PROVE IInv'
  <2>1. TypeOK'
    BY <1>10, <1>a, <1>b, GotoType, ForgetType, FaultType DEF Crash, TypeOK, Places, store,
       history
  <2>2. BreakerInv'
    BY <1>10, <1>a, BreakersKept DEF Crash, Handling, TypeOK, store, history, Goto
  <2> QED
    BY <2>1, <2>2 DEF IInv
<1>11. ASSUME NEW x \in Procs, Pause(x) PROVE IInv'
  <2>1. TypeOK'
    BY <1>11, <1>a, <1>b, GotoType DEF Pause, TypeOK, Places, store, history
  <2>2. BreakerInv'
    BY <1>11, <1>a, BreakersKept DEF Pause, Handling, TypeOK, store, history, Goto
  <2> QED
    BY <2>1, <2>2 DEF IInv
<1>12. ASSUME NEW x \in Procs, PauseProject(x) PROVE IInv'
  <2>1. TypeOK'
    BY <1>12, <1>a, <1>b, GotoType, ForgetType, SetPausedType, FaultType DEF PauseProject,
       TypeOK, Places, store, history, GiveUp
  <2>2. BreakerInv'
    BY <1>12, <1>a, BreakersKept DEF PauseProject, Handling, TypeOK, store, history, Goto,
       GiveUp
  <2> QED
    BY <2>1, <2>2 DEF IInv
<1>13. ASSUME NEW x \in Procs, Merge(x) PROVE IInv'
  <2>1. TypeOK'
    BY <1>13, <1>a, <1>b, GotoType DEF Merge, TypeOK, Places, store, history
  <2>2. BreakerInv'
    BY <1>13, <1>a, BreakersKept DEF Merge, Handling, TypeOK, store, history, Goto
  <2> QED
    BY <2>1, <2>2 DEF IInv
<1>14. ASSUME NEW x \in Procs, Remember(x) PROVE IInv'
  <2>1. TypeOK'
    BY <1>14, <1>a, <1>b, GotoType DEF Remember, TypeOK, Places, locals, history
  <2>2. BreakerInv'
    BY <1>14, <1>a, BreakersKept DEF Remember, Handling, TypeOK, locals, history, Goto
  <2> QED
    BY <2>1, <2>2 DEF IInv
<1>15. ASSUME NEW x \in Procs, Flag(x) PROVE IInv'
  <2>1. TypeOK'
    BY <1>15, <1>a, <1>b, GotoType, ForgetType DEF Flag, TypeOK, Places, history
  <2>2. BreakerInv'
    BY <1>15, <1>a, BreakersKept DEF Flag, Handling, TypeOK, history, Goto
  <2> QED
    BY <2>1, <2>2 DEF IInv
<1>16. ASSUME NEW x \in Procs, Resume(x) PROVE IInv'
  <2>1. TypeOK'
    BY <1>16, <1>a, <1>b, GotoType DEF Resume, TypeOK, Places, store, history
  <2>2. BreakerInv'
    BY <1>16, <1>a, BreakersKept DEF Resume, Handling, TypeOK, store, history, Goto
  <2> QED
    BY <2>1, <2>2 DEF IInv
<1>17. ASSUME NEW x \in Procs, List(x) PROVE IInv'
  <2>1. TypeOK'
    BY <1>17, <1>a, <1>b, GotoType DEF List, TypeOK, Places, store, history
  <2>2. BreakerInv'
    BY <1>17, <1>a, BreakersKept DEF List, Handling, TypeOK, store, history, Goto
  <2> QED
    BY <2>1, <2>2 DEF IInv
<1>18. ASSUME NEW x \in Procs, ResumeProject(x) PROVE IInv'
  <2>1. TypeOK'
    BY <1>18, <1>a, <1>b, GotoType, ForgetType, SetPausedType, FaultType DEF ResumeProject,
       TypeOK, Places, store, history, GiveUp
  <2>2. BreakerInv'
    BY <1>18, <1>a, BreakersKept DEF ResumeProject, Handling, TypeOK, store, history, Goto,
       GiveUp
  <2> QED
    BY <2>1, <2>2 DEF IInv
<1>19. ASSUME NEW x \in Procs, Clear(x) PROVE IInv'
  <2>1. TypeOK'
    BY <1>19, <1>a, <1>b, GotoType DEF Clear, TypeOK, Places, locals, history
  <2>2. BreakerInv'
    BY <1>19, <1>a, BreakersKept DEF Clear, Handling, TypeOK, locals, history, Goto
  <2> QED
    BY <2>1, <2>2 DEF IInv
<1>20. ASSUME NEW x \in Procs, Unflag(x) PROVE IInv'
  <2>1. TypeOK'
    <3>1. at' \in [Procs -> Places]
      BY <1>20, <1>a, GotoType DEF Unflag, Places
    <3>2. {todo', done', merged'} \subseteq [Procs -> SUBSET Projects]
      BY <1>20, <1>a, ForgetType DEF Unflag
    <3> QED
      BY <1>20, <3>1, <3>2, <1>a DEF Unflag, TypeOK, history
  <2>2. BreakerInv'
    BY <1>20, <1>a, BreakersKept DEF Unflag, Handling, TypeOK, history, Goto
  <2> QED
    BY <2>1, <2>2 DEF IInv
<1>21. ASSUME NEW p \in Projects, OperatorPause(p) PROVE IInv'
  <2>1. TypeOK'
    BY <1>21, <1>a, <1>b, SetPausedType DEF OperatorPause, TypeOK, Places, store, history
  <2>2. BreakerInv'
    BY <1>21, <1>a, BreakersKept DEF OperatorPause, Handling, TypeOK, store, history
  <2> QED
    BY <2>1, <2>2 DEF IInv
<1>22. ASSUME NEW p \in Projects, OperatorResume(p) PROVE IInv'
  <2>1. TypeOK'
    BY <1>22, <1>a, <1>b, SetPausedType DEF OperatorResume, TypeOK, Places, store, history
  <2>2. BreakerInv'
    BY <1>22, <1>a, BreakersKept DEF OperatorResume, Handling, TypeOK, store, history
  <2> QED
    BY <2>1, <2>2 DEF IInv
<1>23. CASE UNCHANGED vars
  BY <1>23, <1>a DEF vars, IInv, TypeOK, BreakerInv, Handling, store, locals, history
<1> QED
  BY <1>1, <1>2, <1>3, <1>4, <1>5, <1>6, <1>7, <1>8, <1>9, <1>10, <1>11, <1>12, <1>13, <1>14,
     <1>15, <1>16, <1>17, <1>18, <1>19, <1>20, <1>21, <1>22, <1>23 DEF Next, DaemonStep,
     PauseStep, ResumeStep

\* The invariant holds throughout.
THEOREM Invariance == Spec => []IInv
  BY InitIInv, NextIInv, PTL DEF Spec

\* The state of the daemon's control is well typed, the breakers' counts included.
THEOREM DaemonTypes == Spec => []TypeOK
<1>1. IInv => TypeOK
  BY DEF IInv
<1> QED
  BY <1>1, Invariance, PTL

\* A reset of an open breaker is never undone by a failure in the middle of its recording
\* (record_failure, reset), with any number of processes and faults of any kind.
THEOREM ResetIsKept == Spec => []ResetSticks
<1>1. IInv => ResetSticks
  BY DEF IInv, BreakerInv, ResetSticks
<1> QED
  BY <1>1, Invariance, PTL

-----------------------------------------------------------------------------
(* /pause and /resume, of the daemon alone *)

\* Where a project that Metroplex has paused is remembered, at each place of pause() and
\* resume(); and that Metroplex is then paused, or about to be.
MemoryInv ==
    /\ at[daemon] = "remember" => merged[daemon] = paused_projects \cup done[daemon]
    /\ \A p \in Projects : pausedBy[p] = "cos" =>
        /\ paused \/ Doing(daemon) = "pause"
        /\ CASE at[daemon] = "pausing" -> p \in paused_projects \cup done[daemon]
             [] at[daemon] = "remember" -> p \in merged[daemon]
             [] at[daemon] \in {"listing", "resuming"} -> p \in todo[daemon] \cap paused_projects
             [] at[daemon] = "unflag" -> FALSE
             [] OTHER -> p \in paused_projects

Alone == Procs = {daemon} /\ "pause" \notin Interruptible

\* The memory holds at the start.
LEMMA InitMemory == Init => MemoryInv
  BY Constants DEF Init, MemoryInv, Doing
\* Every step keeps it, if no fault strikes a pause: one step of the proof per action.
LEMMA NextMemory == Alone /\ TypeOK /\ MemoryInv /\ [Next]_vars => MemoryInv'
<1> SUFFICES ASSUME Alone, TypeOK, MemoryInv, [Next]_vars PROVE MemoryInv'
  OBVIOUS
<1> USE Constants
<1>a. \A x \in Procs : x = daemon
  BY DEF Alone
<1>b. ASSUME UNCHANGED <<at, paused, paused_projects, todo, done, merged>>,
             \A p \in Projects : pausedBy'[p] = "cos" => pausedBy[p] = "cos"
      PROVE  MemoryInv'
  BY <1>b DEF MemoryInv, Doing
<1>c. ASSUME UNCHANGED <<pausedBy, paused, paused_projects>>, Doing(daemon) = "loop",
             at'[daemon] \in {"down", "idle", "work", "failed", "counted"}
      PROVE  MemoryInv'
  BY <1>c DEF MemoryInv, Doing
<1>1. CASE Start \/ Exit \/ Succeed \/ Fail \/ ReadBreaker \/ WriteBreaker
  BY <1>1, <1>c DEF Start, Exit, Succeed, Fail, ReadBreaker, WriteBreaker, Goto, Doing,
     TypeOK, store
<1>2. CASE Sigterm
  BY <1>2, <1>b DEF Sigterm, store, locals
<1>3. ASSUME NEW l \in Loops, Work(l) PROVE MemoryInv'
  BY <1>3, <1>c DEF Work, Goto, Doing, TypeOK, store
<1>4. ASSUME NEW l \in Loops, Reset(l) PROVE MemoryInv'
  BY <1>4, <1>b DEF Reset, locals
<1>5. CASE Crash(daemon)
  BY <1>5 DEF Crash, Fault, Forget, Goto, TypeOK, store, Doing, Alone, MemoryInv, Places
<1>6. CASE Pause(daemon)
  BY <1>6 DEF Pause, Goto, TypeOK, store, Doing, MemoryInv
<1>7. CASE PauseProject(daemon)
  BY <1>7 DEF PauseProject, SetPaused, Fault, TypeOK, store, Doing, Alone, MemoryInv
<1>8. CASE Merge(daemon)
  BY <1>8 DEF Merge, Goto, TypeOK, store, Doing, MemoryInv
<1>9. CASE Remember(daemon)
  BY <1>9 DEF Remember, Goto, TypeOK, locals, Doing, MemoryInv
<1>10. CASE Flag(daemon)
  BY <1>10 DEF Flag, Goto, TypeOK, Doing, MemoryInv
<1>11. CASE Resume(daemon)
  BY <1>11 DEF Resume, Goto, TypeOK, store, Doing, MemoryInv
<1>12. CASE List(daemon)
  BY <1>12 DEF List, Goto, TypeOK, store, Doing, MemoryInv
<1>13. CASE ResumeProject(daemon)
  BY <1>13 DEF ResumeProject, SetPaused, GiveUp, Forget, Goto, TypeOK, store, Doing, MemoryInv
<1>14. CASE Clear(daemon)
  BY <1>14 DEF Clear, Goto, TypeOK, locals, Doing, MemoryInv
<1>15. CASE Unflag(daemon)
  BY <1>15 DEF Unflag, Goto, TypeOK, Doing, MemoryInv
<1>16. ASSUME NEW p \in Projects, OperatorPause(p) \/ OperatorResume(p) PROVE MemoryInv'
  BY <1>16, <1>b DEF OperatorPause, OperatorResume, SetPaused, TypeOK, store
<1>17. CASE UNCHANGED vars
  BY <1>17, <1>b DEF vars, store, locals
<1> QED
  BY <1>a, <1>1, <1>2, <1>3, <1>4, <1>5, <1>6, <1>7, <1>8, <1>9, <1>10, <1>11, <1>12, <1>13,
     <1>14, <1>15, <1>16, <1>17 DEF Next, DaemonStep, PauseStep, ResumeStep

\* For a daemon that is alone, and no fault during a pause, the memory holds throughout.
LEMMA MemoryInvariance == ASSUME Alone PROVE Spec => []MemoryInv
  BY InitMemory, NextMemory, DaemonTypes, PTL DEF Spec

\* No project that Metroplex paused is forgotten, not even by a second pause, or by a
\* resume that is refused, raises or dies (pause, resume).
THEOREM PausesAreRemembered == ASSUME Alone PROVE Spec => []PausedIsRemembered
<1>1. MemoryInv /\ TypeOK => PausedIsRemembered
  BY Constants DEF MemoryInv, TypeOK, PausedIsRemembered, Doing
<1> QED
  BY <1>1, MemoryInvariance, DaemonTypes, PTL

\* Metroplex does not run while a project is left paused by it (resume).
THEOREM NothingIsLeftPaused == ASSUME Alone PROVE Spec => []RunningMeansResumed
<1>1. MemoryInv => RunningMeansResumed
  BY Constants DEF MemoryInv, RunningMeansResumed, Doing
<1> QED
  BY <1>1, MemoryInvariance, PTL

=============================================================================
