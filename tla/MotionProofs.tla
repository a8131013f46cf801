---------------------------- MODULE MotionProofs ----------------------------
(* Theorems about Motion, for every value of its constants. *)
EXTENDS Motion, TLAPS

\* The keys that a raise or an escalation is remembered by.
RaiseKeys == ({"dead", "stalled"} \X AttemptSet) \cup ({"notice"} \X TaskSet)

\* What the sweep has in hand at each place, and that it starts with nothing.
PlaceInv ==
    /\ at # "mark" => marking = {}
    /\ at \in {"idle", "mark"} => DOMAIN todo = {}
    /\ at = "idle" => stale = {} /\ \A b \in Kinds : batch[b] = {}
    /\ at = "flag" => \A i \in DOMAIN todo : Comes(i, todo[i]) => todo[i].key \in RaiseKeys

\* No episode is twice in the list, and none that is remembered is in it.
TodoInv ==
    \A i \in DOMAIN todo :
        /\ todo[i].key \in RaiseKeys \cup {None}
        /\ todo[i].reason = None => todo[i].key \in RaiseKeys
        /\ todo[i].key \in RaiseKeys =>
            /\ todo[i].key \notin flags \/ todo[i].key \in stale
            /\ \A j \in DOMAIN todo : todo[j].key = todo[i].key => i = j

\* The same of the batches and of what is left of the one that was sent.
BatchInv ==
    /\ \A b \in Kinds : \A k \in batch[b] : k[1] = b /\ (k \notin flags \/ k \in stale)
    /\ \A k \in marking :
        k[1] \in Kinds /\ batch[k[1]] = {} /\ (k \notin flags \/ k \in stale)

\* What the sweep did and has still to remember.
Unstored(k) ==
    /\ k \notin stale
    /\ \/ k \in marking
       \/ at = "flag" /\ \E i \in DOMAIN todo : Comes(i, todo[i]) /\ todo[i].key = k

\* What is remembered, or will be, was done, and what is not was done once per fault at most.
TimesInv ==
    \A k \in Keys :
        /\ k \in flags \/ Unstored(k) => times[k] > 0
        /\ times[k] <= 1 + faults
        /\ k \in flags \/ Unstored(k) \/ times[k] <= faults

IInv == TypeOK /\ PlaceInv /\ TodoInv /\ BatchInv /\ TimesInv

Rest == PlaceInv /\ TodoInv /\ BatchInv /\ TimesInv

-----------------------------------------------------------------------------
(* Keys and findings *)

\* A key that a raise is remembered by names no batch.
LEMMA RaiseKeysAreKeys ==
    RaiseKeys \subseteq Keys /\ \A k \in RaiseKeys : k[1] \notin Kinds
  BY DEF RaiseKeys, Keys, Kinds

\* The notices are keys of the batch they are sent in.
LEMMA NoticesAreKeys ==
    ASSUME TypeOK
    PROVE  Notices \subseteq Keys
  BY DEF TypeOK, Notices, LongQueued, OverdueReviews, Orphans, Keys

\* What is found of an attempt is a raise for its task under a key of its own.
LEMMA AttemptFound ==
    ASSUME NEW a \in AttemptSet, OfAttempt(a) # Nothing
    PROVE  /\ OfAttempt(a) \in Finding
           /\ OfAttempt(a).reason # None
           /\ OfAttempt(a).key \in {"dead", "stalled"} \X AttemptSet
           /\ OfAttempt(a).key[2] = a
<1>1. TaskOf[a] \in TaskSet
  BY TaskOfAssumption
<1>2. "stalled" # None
  BY NoneAssumption DEF Reasons
<1>3. OfAttempt(a) \in {Raise(TaskOf[a], "stalled", <<"dead", a>>),
                        Raise(TaskOf[a], "stalled", <<"stalled", a>>)}
  BY DEF OfAttempt
<1> QED BY <1>1, <1>2, <1>3 DEF Raise, Finding, Keys

\* What is found of a task without a reason to wake it has a key of the task's own.
LEMMA TaskFound ==
    ASSUME NEW t \in TaskSet, OfTask(t) # Nothing
    PROVE  /\ OfTask(t) \in Finding
           /\ \/ OfTask(t).reason # None /\ OfTask(t).key = None
              \/ OfTask(t).key = <<"notice", t>>
<1>1. "unassigned" # None /\ "unblock" # None
  BY NoneAssumption DEF Reasons
<1>2. OfTask(t) \in {Raise(t, "unassigned", None), Raise(t, "unblock", None),
                     Raise(t, None, <<"notice", t>>)}
  BY DEF OfTask
<1> QED BY <1>1, <1>2 DEF Raise, Finding, Keys

\* The places of a snapshot are those of its attempts and then those of its tasks.
LEMMA PlaceSplit ==
    ASSUME NEW i \in Places
    PROVE  /\ i \in Nat
           /\ i <= Len(Attempts) => Attempts[i] \in AttemptSet /\ Found(i) = OfAttempt(Attempts[i])
           /\ ~(i <= Len(Attempts)) =>
                /\ i - Len(Attempts) \in DOMAIN Tasks
                /\ Tasks[i - Len(Attempts)] \in TaskSet
                /\ Found(i) = OfTask(Tasks[i - Len(Attempts)])
  BY OrderAssumption DEF Places, Found, AttemptSet, TaskSet

\* Two findings never share a key.
LEMMA FoundApart ==
    ASSUME NEW i \in Raises, NEW j \in Raises, Found(i).key = Found(j).key,
           Found(i).key # None
    PROVE  i = j
<1>1. i \in Places /\ j \in Places /\ i \in Nat /\ j \in Nat /\ Len(Attempts) \in Nat
  BY PlaceSplit, OrderAssumption DEF Raises
<1>2. ASSUME NEW k \in Raises, ~(k <= Len(Attempts)), Found(k).key # None
      PROVE  Found(k).key = <<"notice", Tasks[k - Len(Attempts)]>>
  BY <1>2, PlaceSplit, TaskFound DEF Raises
<1>3. ASSUME NEW k \in Raises, k <= Len(Attempts)
      PROVE  /\ Found(k).key[2] = Attempts[k]
             /\ Found(k).key[1] \in {"dead", "stalled"}
             /\ k \in DOMAIN Attempts
  <2>1. k \in Places /\ OfAttempt(Attempts[k]) # Nothing /\ Found(k) = OfAttempt(Attempts[k])
    BY <1>3, PlaceSplit DEF Raises
  <2>2. k \in DOMAIN Attempts
    BY <1>3, <2>1, OrderAssumption DEF Places
  <2> QED BY <2>1, <2>2, <1>3, PlaceSplit, AttemptFound
<1>4. CASE i <= Len(Attempts) /\ j <= Len(Attempts)
  BY <1>3, <1>4, OrderAssumption
<1>5. CASE ~(i <= Len(Attempts)) /\ ~(j <= Len(Attempts))
  <2>1. /\ i - Len(Attempts) \in DOMAIN Tasks /\ j - Len(Attempts) \in DOMAIN Tasks
        /\ Tasks[i - Len(Attempts)] = Tasks[j - Len(Attempts)]
    BY <1>1, <1>2, <1>5, PlaceSplit
  <2>2. i - Len(Attempts) = j - Len(Attempts)
    BY <2>1, OrderAssumption
  <2> QED BY <1>1, <2>2
<1>6. CASE (i <= Len(Attempts)) # (j <= Len(Attempts))
  BY <1>2, <1>3, <1>6
<1> QED BY <1>4, <1>5, <1>6

-----------------------------------------------------------------------------
(* Types *)

ServiceType ==
    /\ attempt \in [AttemptSet -> {"none", "queued", "running", "over"}]
    /\ late \cup silent \cup still \subseteq AttemptSet
    /\ status \in [TaskSet -> {"open", "dep", "asked", "done"}]
    /\ overdue \subseteq review /\ review \subseteq TaskSet
    /\ old \subseteq pending /\ pending \subseteq Wakes
    /\ quiet \in [TaskSet -> 0..(Unassigned + 1)]
    /\ moved \subseteq TaskSet
    /\ moves \in 0..MaxEvents

EpisodeType ==
    /\ flags \cup stale \subseteq Keys
    /\ times \in [Keys -> 0..(MaxEvents + 2)]

SweepType ==
    /\ due \in BOOLEAN
    /\ at \in {"idle", "loop", "flag", "mark"}
    /\ DOMAIN todo \subseteq Places /\ todo \in [DOMAIN todo -> Finding]
    /\ count \in 0..MaxWakes
    /\ batch \in [Kinds -> SUBSET Keys]
    /\ marking \subseteq Keys
    /\ faults \in 0..MaxEvents

\* The types, part by part.
LEMMA TypeParts == TypeOK <=> ServiceType /\ EpisodeType /\ SweepType
  BY DEF TypeOK, ServiceType, EpisodeType, SweepType

\* The types hold at the start.
LEMMA InitTypes == Init => TypeOK
<1> SUFFICES ASSUME Init PROVE TypeOK
  OBVIOUS
<1>1. ServiceType
  <2>1. pending \subseteq Wakes
    BY DEF Init, Wakes, Reasons
  <2>2. quiet \in [TaskSet -> 0..(Unassigned + 1)] /\ moves \in 0..MaxEvents
    BY BoundsAssumption DEF Init
  <2>3. /\ attempt \in [AttemptSet -> {"none", "queued", "running", "over"}]
        /\ status \in [TaskSet -> {"open", "dep", "asked", "done"}]
    BY DEF Init
  <2>4. /\ late = {} /\ silent = {} /\ still = {} /\ review = {} /\ overdue = {}
        /\ old = {} /\ moved = {}
    BY DEF Init
  <2> QED BY <2>1, <2>2, <2>3, <2>4 DEF ServiceType
<1>2. EpisodeType
  BY BoundsAssumption DEF Init, EpisodeType
<1>3. todo = <<>> /\ DOMAIN todo = {} /\ todo \in [DOMAIN todo -> Finding]
  BY DEF Init
<1>4. SweepType
  <2>1. DOMAIN todo \subseteq Places /\ todo \in [DOMAIN todo -> Finding]
    BY <1>3
  <2>2. count \in 0..MaxWakes /\ faults \in 0..MaxEvents
    BY BoundsAssumption DEF Init
  <2>3. due \in BOOLEAN /\ at = "idle" /\ batch \in [Kinds -> SUBSET Keys] /\ marking \subseteq Keys
    BY DEF Init
  <2> QED BY <2>1, <2>2, <2>3 DEF SweepType
<1> QED BY <1>1, <1>2, <1>4, TypeParts

\* New episodes keep the types of what is stored of the old ones.
LEMMA EpisodeTypes ==
    ASSUME EpisodeType, NEW ks \in SUBSET Keys, NewEpisodes(ks)
    PROVE  EpisodeType'
  BY BoundsAssumption DEF EpisodeType, NewEpisodes

\* What does not begin an episode is like beginning none.
LEMMA NoEpisodes ==
    ASSUME EpisodeType, SameEpisodes
    PROVE  NewEpisodes({})
<1>1. times = [k \in Keys |-> times[k]]
  BY DEF EpisodeType
<1> QED BY <1>1 DEF SameEpisodes, NewEpisodes

\* Whatever the others do leaves the sweep where it is and begins some new episodes.
LEMMA OthersStandBy ==
    ASSUME TypeOK, Others \/ Tick
    PROVE  /\ UNCHANGED <<at, todo, count, batch, marking, faults>>
           /\ due' \in BOOLEAN
           /\ \E ks \in SUBSET Keys : NewEpisodes(ks)
<1>0. EpisodeType /\ due \in BOOLEAN
  BY TypeParts DEF SweepType
<1>1. CASE \E w \in Wakes : Turn(w)
  <2> PICK w \in Wakes : Turn(w)
    BY <1>1
  <2>1. <<"orphan", w>> \in Keys /\ <<"notice", w[1]>> \in Keys
    BY DEF Keys, Wakes
  <2>2. \E ks \in SUBSET Keys : NewEpisodes(ks)
    BY <2>1 DEF Turn
  <2> QED BY <1>0, <2>2 DEF Turn, InHand
<1>2. CASE \E a \in AttemptSet : AttemptStarts(a) \/ AttemptEnds(a) \/ Beats(a) \/ Checkpoints(a)
  <2> PICK a \in AttemptSet : AttemptStarts(a) \/ AttemptEnds(a) \/ Beats(a) \/ Checkpoints(a)
    BY <1>2
  <2>1. /\ {<<"queued", a>>, <<"dead", a>>, <<"stalled", a>>} \subseteq Keys
        /\ <<"review", TaskOf[a]>> \in Keys
    BY TaskOfAssumption DEF Keys
  <2>2. \E ks \in SUBSET Keys : NewEpisodes(ks)
    BY <2>1 DEF AttemptStarts, AttemptEnds, Beats, Checkpoints
  <2> QED BY <1>0, <2>2 DEF AttemptStarts, AttemptEnds, Beats, Checkpoints, InHand
<1>3. CASE \E t \in TaskSet : OwnerReviews(t) \/ Operates(t)
  <2> PICK t \in TaskSet : OwnerReviews(t) \/ Operates(t)
    BY <1>3
  <2>1. <<"review", t>> \in Keys /\ <<"notice", t>> \in Keys
    BY DEF Keys
  <2>2. \E ks \in SUBSET Keys : NewEpisodes(ks)
    BY <2>1 DEF OwnerReviews, Operates
  <2> QED BY <1>0, <2>2 DEF OwnerReviews, Operates, InHand
<1>4. CASE Elapsed \/ Tick
  <2>1. NewEpisodes({})
    BY <1>0, <1>4, NoEpisodes DEF Elapsed, Tick
  <2> QED BY <1>0, <1>4, <2>1 DEF Elapsed, Tick, InHand
<1> QED BY <1>1, <1>2, <1>3, <1>4 DEF Others

\* The others keep the types of the service.
LEMMA OthersTypes ==
    ASSUME TypeOK, Others \/ Tick
    PROVE  ServiceType'
<1> USE DEF ServiceType
<1>0. ServiceType
  BY TypeParts
<1>1. ASSUME NEW w \in Wakes, Turn(w)
      PROVE  ServiceType'
  <2>1. w[1] \in TaskSet
    BY DEF Wakes
  <2>2. UNCHANGED <<late, silent, still, review, overdue, moved, moves>>
    BY <1>1 DEF Turn
  <2>3. old' \subseteq pending' /\ pending' \subseteq Wakes
    BY <1>0, <1>1 DEF Turn
  <2>4. quiet' \in [TaskSet -> 0..(Unassigned + 1)]
    BY <1>0, <1>1, <2>1, BoundsAssumption DEF Turn
  <2>5. attempt' \in [AttemptSet -> {"none", "queued", "running", "over"}]
    BY <1>0, <1>1 DEF Turn
  <2>6. status' \in [TaskSet -> {"open", "dep", "asked", "done"}]
    BY <1>0, <1>1, <2>1 DEF Turn
  <2> QED BY <1>0, <2>2, <2>3, <2>4, <2>5, <2>6
<1>2. ASSUME NEW a \in AttemptSet, AttemptStarts(a)
      PROVE  ServiceType'
  BY <1>0, <1>2 DEF AttemptStarts
<1>3. ASSUME NEW a \in AttemptSet, AttemptEnds(a)
      PROVE  ServiceType'
  <2>1. TaskOf[a] \in TaskSet
    BY TaskOfAssumption
  <2>2. <<TaskOf[a], "result">> \in Wakes /\ <<TaskOf[a], "unassigned">> \in Wakes
    BY <2>1 DEF Wakes, Reasons
  <2>3. review' \subseteq TaskSet /\ review \subseteq review' /\ pending' \subseteq Wakes
        /\ pending \subseteq pending' /\ UNCHANGED <<overdue, old>>
    BY <1>0, <1>3, <2>1, <2>2 DEF AttemptEnds
  <2>4. moved' \subseteq TaskSet
    BY <1>0, <1>3, <2>1 DEF AttemptEnds, Revises
  <2> QED BY <1>0, <1>3, <2>3, <2>4 DEF AttemptEnds
<1>4. ASSUME NEW a \in AttemptSet, Beats(a) \/ Checkpoints(a)
      PROVE  ServiceType'
  <2>1. moves' \in 0..MaxEvents
    BY <1>0, <1>4, TypeParts, BoundsAssumption DEF Beats, Checkpoints, Move, SweepType
  <2> QED BY <1>0, <1>4, <2>1 DEF Beats, Checkpoints
<1>5. ASSUME NEW t \in TaskSet, OwnerReviews(t) \/ Operates(t)
      PROVE  ServiceType'
  <2>1. moves' \in 0..MaxEvents
    BY <1>0, <1>5, TypeParts, BoundsAssumption DEF OwnerReviews, Operates, Move, SweepType
  <2>2. moved' \subseteq TaskSet
    BY <1>0, <1>5 DEF OwnerReviews, Operates, Revises
  <2>3. status' \in [TaskSet -> {"open", "dep", "asked", "done"}]
    BY <1>0, <1>5 DEF OwnerReviews, Operates
  <2> QED BY <1>0, <1>5, <2>1, <2>2, <2>3 DEF OwnerReviews, Operates
<1>6. CASE Elapsed
  BY <1>0, <1>6 DEF Elapsed
<1>7. CASE Tick
  BY <1>0, <1>7, BoundsAssumption DEF Tick
<1> QED BY <1>1, <1>2, <1>3, <1>4, <1>5, <1>6, <1>7 DEF Others

-----------------------------------------------------------------------------
(* The invariant *)

\* The invariant holds at the start.
LEMMA InitInv == Init => IInv
<1> SUFFICES ASSUME Init PROVE IInv
  OBVIOUS
<1>1. TypeOK
  BY InitTypes
<1>2. DOMAIN todo = {}
  BY DEF Init
<1>3. PlaceInv /\ TodoInv /\ BatchInv
  BY <1>2 DEF Init, PlaceInv, TodoInv, BatchInv
<1>4. TimesInv
  BY <1>2 DEF Init, TimesInv, Unstored
<1> QED BY <1>1, <1>3, <1>4 DEF IInv

\* New episodes begin with nothing done and nothing remembered.
LEMMA EpisodeStep ==
    ASSUME IInv, NEW ks \in SUBSET Keys, NewEpisodes(ks),
           UNCHANGED <<at, todo, count, batch, marking, faults>>
    PROVE  Rest'
<1>1. flags' = flags \ ks /\ stale \subseteq stale'
  BY DEF NewEpisodes
<1>2. at = "idle" => UNCHANGED stale
  BY DEF NewEpisodes
<1>3. at # "idle" => stale' = stale \cup ks
  BY DEF NewEpisodes
<1>4. PlaceInv'
  BY <1>2 DEF IInv, PlaceInv, Comes
<1>5. TodoInv'
  BY <1>1 DEF IInv, TodoInv
<1>6. BatchInv'
  BY <1>1 DEF IInv, BatchInv
<1>7. TimesInv'
  <2> SUFFICES ASSUME NEW k \in Keys
               PROVE  /\ k \in flags' \/ Unstored(k)' => times'[k] > 0
                      /\ times'[k] <= 1 + faults'
                      /\ k \in flags' \/ Unstored(k)' \/ times'[k] <= faults'
    BY DEF TimesInv
  <2>0. times[k] \in Nat /\ faults \in Nat
    BY DEF IInv, TypeOK
  <2>1. CASE k \in ks
    <3>1. times'[k] = 0 /\ k \notin flags'
      BY <1>1, <2>1 DEF NewEpisodes
    <3>2. ~Unstored(k)'
      BY <1>3, <2>1 DEF Unstored, IInv, PlaceInv
    <3> QED BY <2>0, <3>1, <3>2
  <2>2. CASE k \notin ks
    <3>1. times'[k] = times[k] /\ (k \in flags' <=> k \in flags) /\ (k \in stale' <=> k \in stale)
      BY <1>1, <1>2, <1>3, <2>2 DEF NewEpisodes
    <3>2. Unstored(k)' <=> Unstored(k)
      BY <3>1 DEF Unstored, Comes
    <3> QED BY <3>1, <3>2 DEF IInv, TimesInv
  <2> QED BY <2>1, <2>2
<1> QED BY <1>4, <1>5, <1>6, <1>7 DEF Rest

\* The others keep the invariant.
LEMMA OthersStep == IInv /\ (Others \/ Tick) => IInv'
<1> SUFFICES ASSUME IInv, Others \/ Tick PROVE IInv'
  OBVIOUS
<1>1. TypeOK
  BY DEF IInv
<1>2. PICK ks \in SUBSET Keys : NewEpisodes(ks)
  BY <1>1, OthersStandBy
<1>3. UNCHANGED <<at, todo, count, batch, marking, faults>> /\ due' \in BOOLEAN
  BY <1>1, OthersStandBy
<1>4. ServiceType'
  BY <1>1, OthersTypes
<1>5. EpisodeType'
  BY <1>1, <1>2, EpisodeTypes, TypeParts
<1>6. SweepType'
  BY <1>1, <1>3, TypeParts DEF SweepType
<1>7. TypeOK'
  BY <1>4, <1>5, <1>6, TypeParts DEF TypeOK, ServiceType, EpisodeType, SweepType
<1>8. Rest'
  BY <1>2, <1>3, EpisodeStep
<1> QED BY <1>7, <1>8 DEF IInv, Rest

\* A sweep begins with what its snapshot shows and the store does not remember.
LEMMA StartStep == IInv /\ SweepStart => IInv'
<1> SUFFICES ASSUME IInv, SweepStart PROVE IInv'
  OBVIOUS
<1>1. /\ TypeOK /\ at = "idle" /\ at' = "loop" /\ stale' = {} /\ stale = {} /\ due' = FALSE
      /\ UNCHANGED <<teletraan, flags, marking, times, faults, moves>>
  BY DEF IInv, SweepStart, PlaceInv
<1>2. /\ DOMAIN todo' \subseteq Raises
      /\ todo' = [i \in DOMAIN todo' |-> Found(i)]
      /\ \A i \in DOMAIN todo' : Found(i).key = None \/ Found(i).key \notin flags
  BY DEF SweepStart
<1>3. ASSUME NEW i \in DOMAIN todo'
      PROVE  /\ todo'[i] = Found(i) /\ Found(i) \in Finding
             /\ Found(i).key \in RaiseKeys \cup {None}
             /\ Found(i).reason = None => Found(i).key \in RaiseKeys
  <2>1. i \in Places /\ Found(i) # Nothing /\ todo'[i] = Found(i)
    BY <1>2 DEF Raises
  <2>2. CASE i <= Len(Attempts)
    BY <2>1, <2>2, PlaceSplit, AttemptFound DEF RaiseKeys
  <2>3. CASE ~(i <= Len(Attempts))
    <3> DEFINE t == Tasks[i - Len(Attempts)]
    <3>1. t \in TaskSet /\ Found(i) = OfTask(t) /\ OfTask(t) # Nothing
      BY <2>1, <2>3, PlaceSplit
    <3>2. <<"notice", t>> \in RaiseKeys
      BY <3>1 DEF RaiseKeys
    <3> HIDE DEF t
    <3> QED BY <2>1, <3>1, <3>2, TaskFound
  <2> QED BY <2>1, <2>2, <2>3
<1>4. None \notin RaiseKeys
  BY RaiseKeysAreKeys, NoneAssumption
<1>5. TodoInv'
  <2> SUFFICES ASSUME NEW i \in DOMAIN todo'
               PROVE  /\ todo'[i].key \in RaiseKeys \cup {None}
                      /\ todo'[i].reason = None => todo'[i].key \in RaiseKeys
                      /\ todo'[i].key \in RaiseKeys =>
                          /\ todo'[i].key \notin flags' \/ todo'[i].key \in stale'
                          /\ \A j \in DOMAIN todo' : todo'[j].key = todo'[i].key => i = j
    BY DEF TodoInv
  <2>1. ASSUME NEW j \in DOMAIN todo', todo'[j].key = todo'[i].key, todo'[i].key \in RaiseKeys
        PROVE  i = j
    BY <1>2, <1>3, <1>4, <2>1, FoundApart
  <2> QED BY <1>1, <1>2, <1>3, <1>4, <2>1
<1>6. batch' = [b \in Kinds |-> {k \in Notices \ flags : k[1] = b}]
  BY DEF SweepStart
<1>7. marking = {} /\ marking' = {}
  BY <1>1 DEF IInv, PlaceInv
<1>8. BatchInv'
  BY <1>1, <1>6, <1>7 DEF BatchInv
<1>9. PlaceInv'
  BY <1>1, <1>7 DEF PlaceInv
<1>10. TimesInv'
  <2>1. \A k \in Keys : ~Unstored(k) /\ ~Unstored(k)'
    BY <1>1, <1>7 DEF Unstored
  <2> QED BY <1>1, <2>1 DEF TimesInv, IInv
<1>11. SweepType'
  <2>1. DOMAIN todo' \subseteq Places /\ todo' \in [DOMAIN todo' -> Finding]
    BY <1>2, <1>3 DEF Raises
  <2>2. batch' \in [Kinds -> SUBSET Keys]
    BY <1>1, <1>6, NoticesAreKeys
  <2>3. count' \in 0..MaxWakes /\ faults' \in 0..MaxEvents
    BY <1>1, BoundsAssumption DEF SweepStart, TypeOK
  <2> QED BY <1>1, <1>7, <2>1, <2>2, <2>3 DEF SweepType
<1>12. ServiceType' /\ EpisodeType'
  BY <1>1 DEF TypeOK, ServiceType, EpisodeType, teletraan, SweepStart
<1>13. TypeOK'
  BY <1>11, <1>12 DEF TypeOK, ServiceType, EpisodeType, SweepType
<1> QED BY <1>5, <1>8, <1>9, <1>10, <1>13 DEF IInv

-----------------------------------------------------------------------------
(* The loop over the findings *)

\* A count that is raised keeps its type.
LEMMA CountedType ==
    ASSUME EpisodeType, NEW k \in Keys \cup {None}, Counted(k)
    PROVE  times' \in [Keys -> 0..(MaxEvents + 2)]
<1>1. CASE k = None \/ k \in stale
  BY <1>1 DEF EpisodeType, Counted
<1>2. CASE k \in Keys /\ ~(k = None \/ k \in stale)
  <2>1. times[k] \in Nat /\ MaxEvents \in Nat
    BY <1>2, BoundsAssumption DEF EpisodeType
  <2>2. Again(times[k]) \in 0..(MaxEvents + 2)
    BY <1>2, <2>1 DEF EpisodeType, Again
  <2> QED BY <1>2, <2>2 DEF EpisodeType, Counted
<1> QED BY <1>1, <1>2

\* What is left of the list keeps its type.
LEMMA DropType ==
    ASSUME SweepType, NEW i, Drop(i)
    PROVE  DOMAIN todo' \subseteq Places /\ todo' \in [DOMAIN todo' -> Finding]
  BY DEF SweepType, Drop

\* The places in the list are numbers.
LEMMA PlacesAreNumbers ==
    ASSUME TypeOK
    PROVE  DOMAIN todo \subseteq Nat
  BY PlaceSplit DEF TypeOK

\* A list that is one finding shorter keeps its parts of the invariant.
LEMMA DropShort ==
    ASSUME IInv, NEW i \in DOMAIN todo, Drop(i), at = "loop", at' = "loop",
           UNCHANGED <<flags, stale, batch, marking>>
    PROVE  PlaceInv' /\ TodoInv' /\ BatchInv' /\ \A k \in Keys : ~Unstored(k) /\ ~Unstored(k)'
<1>1. DOMAIN todo' \subseteq DOMAIN todo /\ \A j \in DOMAIN todo' : todo'[j] = todo[j]
  BY DEF Drop
<1>2. marking = {} /\ marking' = {}
  BY DEF IInv, PlaceInv
<1>3. PlaceInv'
  BY <1>2 DEF PlaceInv
<1>4. TodoInv'
  BY <1>1 DEF IInv, TodoInv
<1>5. BatchInv'
  BY DEF IInv, BatchInv
<1>6. \A k \in Keys : ~Unstored(k) /\ ~Unstored(k)'
  BY <1>2 DEF Unstored
<1> QED BY <1>3, <1>4, <1>5, <1>6

\* A finding that is dropped without being acted on leaves the rest as it was.
LEMMA DropStep ==
    ASSUME IInv, NEW i \in DOMAIN todo, Drop(i), at = "loop", at' = "loop",
           UNCHANGED <<flags, stale, times, batch, marking>>,
           faults' \in Nat, faults' >= faults
    PROVE  Rest'
<1>1. PlaceInv' /\ TodoInv' /\ BatchInv' /\ \A k \in Keys : ~Unstored(k) /\ ~Unstored(k)'
  BY DropShort
<1>2. \A k \in Keys : times[k] \in Nat /\ faults \in Nat
  BY DEF IInv, TypeOK
<1>3. TimesInv'
  BY <1>1, <1>2 DEF IInv, TimesInv
<1> QED BY <1>1, <1>3 DEF Rest

\* What was done is in hand until it is remembered.
LEMMA DoneStep ==
    ASSUME IInv, NEW i \in DOMAIN todo, Comes(i, todo[i]), todo[i].key \in RaiseKeys,
           Counted(todo[i].key), at = "loop", at' = "flag",
           UNCHANGED <<todo, flags, stale, batch, marking, faults>>
    PROVE  Rest'
<1> DEFINE key == todo[i].key
<1>1. marking = {} /\ marking' = {}
  BY DEF IInv, PlaceInv
<1>2. \A j \in DOMAIN todo : Comes(j, todo[j]) => j = i
  BY PlacesAreNumbers DEF Comes, IInv
<1>3. PlaceInv'
  BY <1>1, <1>2 DEF PlaceInv, Comes
<1>4. TodoInv' /\ BatchInv'
  BY DEF IInv, TodoInv, BatchInv
<1>5. key \in Keys /\ key # None
  BY RaiseKeysAreKeys, NoneAssumption
<1>6. TimesInv'
  <2> SUFFICES ASSUME NEW k \in Keys
               PROVE  /\ k \in flags' \/ Unstored(k)' => times'[k] > 0
                      /\ times'[k] <= 1 + faults'
                      /\ k \in flags' \/ Unstored(k)' \/ times'[k] <= faults'
    BY DEF TimesInv
  <2>0. /\ times[k] \in Nat /\ faults \in Nat /\ MaxEvents \in Nat
        /\ times \in [Keys -> 0..(MaxEvents + 2)]
    BY BoundsAssumption DEF IInv, TypeOK
  <2>1. ~Unstored(k) /\ (Unstored(k)' <=> k = key /\ k \notin stale)
    BY <1>1, <1>2 DEF Unstored, Comes
  <2>2. CASE k = key /\ k \notin stale
    <3>1. k \notin flags
      BY <2>2 DEF IInv, TodoInv
    <3>2. times[k] <= faults
      BY <2>1, <3>1 DEF IInv, TimesInv
    <3>3. times'[k] = Again(times[k])
      BY <1>5, <2>0, <2>2 DEF Counted
    <3>4. times'[k] > 0 /\ times'[k] <= 1 + faults
      BY <2>0, <3>2, <3>3 DEF Again
    <3> QED BY <2>1, <2>2, <3>4
  <2>3. CASE ~(k = key /\ k \notin stale)
    <3>1. times'[k] = times[k]
      BY <2>0, <2>3 DEF Counted
    <3> QED BY <2>1, <2>3, <3>1 DEF IInv, TimesInv
  <2> QED BY <2>2, <2>3
<1> QED BY <1>3, <1>4, <1>6 DEF Rest

\* A sweep that ends keeps what it remembered; what it did and did not remember is owed to
\* the fault that ended it.
LEMMA OverStep ==
    ASSUME IInv, Over, UNCHANGED flags, marking' = {}, faults' \in Nat,
           \A k \in Keys : k \in flags => times'[k] > 0,
           \A k \in Keys : times'[k] <= 1 + faults',
           \A k \in Keys : k \in flags \/ times'[k] <= faults'
    PROVE  Rest'
<1>1. at' = "idle" /\ DOMAIN todo' = {} /\ stale' = {} /\ \A b \in Kinds : batch'[b] = {}
  BY DEF Over
<1>2. PlaceInv' /\ TodoInv' /\ BatchInv'
  BY <1>1 DEF PlaceInv, TodoInv, BatchInv
<1>3. \A k \in Keys : ~Unstored(k)'
  BY <1>1 DEF Unstored
<1>4. TimesInv'
  BY <1>3 DEF TimesInv
<1> QED BY <1>2, <1>4 DEF Rest

\* What has been begun is over with the right types.
LEMMA OverType ==
    ASSUME SweepType, Over, due' \in BOOLEAN, marking' \subseteq Keys, faults' \in 0..MaxEvents
    PROVE  SweepType'
<1>1. todo' = <<>> /\ DOMAIN todo' = {} /\ todo' \in [DOMAIN todo' -> Finding]
  BY DEF Over
<1>2. DOMAIN todo' \subseteq Places
  BY <1>1
<1>3. at' = "idle" /\ count' \in 0..MaxWakes /\ batch' \in [Kinds -> SUBSET Keys]
  BY BoundsAssumption DEF Over
<1> QED BY <1>1, <1>2, <1>3 DEF SweepType

\* The list's parts of the invariant, from its types and the rest.
LEMMA Together ==
    ASSUME ServiceType', EpisodeType', SweepType', Rest'
    PROVE  IInv'
  BY DEF IInv, Rest, TypeOK, ServiceType, EpisodeType, SweepType

\* A fault is one of those that are bounded.
LEMMA FaultType ==
    ASSUME TypeOK, Fault
    PROVE  faults' \in 0..MaxEvents /\ faults' = faults + 1 /\ faults' \in Nat /\ faults \in Nat
  BY BoundsAssumption DEF TypeOK, Fault

\* A finding beyond the cap is left alone.
LEMMA DeferredStep ==
    ASSUME IInv, NEW i \in DOMAIN todo, Deferred(i, todo[i])
    PROVE  IInv'
<1>1. /\ at = "loop" /\ at' = "loop" /\ Drop(i)
      /\ UNCHANGED <<teletraan, flags, due, count, batch, marking, since, times, faults, moves>>
  BY DEF Deferred
<1>2. ServiceType /\ EpisodeType /\ SweepType
  BY TypeParts DEF IInv
<1>3. Rest'
  BY <1>1, <1>2, DropStep DEF since, SweepType
<1>4. SweepType'
  BY <1>1, <1>2, DropType DEF SweepType
<1>5. ServiceType' /\ EpisodeType'
  BY <1>1, <1>2 DEF ServiceType, EpisodeType, teletraan, since
<1> QED BY <1>3, <1>4, <1>5, Together

\* A raise that is refused is not remembered.
LEMMA RefusedStep ==
    ASSUME IInv, NEW i \in DOMAIN todo, RaiseRefused(i, todo[i])
    PROVE  IInv'
<1>1. /\ at = "loop" /\ at' = "loop" /\ Drop(i) /\ (Fault \/ UNCHANGED faults)
      /\ UNCHANGED <<teletraan, flags, due, count, batch, marking, since, times, moves>>
  BY DEF RaiseRefused
<1>2. ServiceType /\ EpisodeType /\ SweepType /\ TypeOK
  BY TypeParts DEF IInv
<1>3. faults' \in 0..MaxEvents /\ faults' \in Nat /\ faults' >= faults
  BY <1>1, <1>2, FaultType DEF SweepType
<1>4. Rest'
  BY <1>1, <1>3, DropStep DEF since
<1>5. SweepType'
  BY <1>1, <1>2, <1>3, DropType DEF SweepType
<1>6. ServiceType' /\ EpisodeType'
  BY <1>1, <1>2 DEF ServiceType, EpisodeType, teletraan, since
<1> QED BY <1>4, <1>5, <1>6, Together

\* A raise that was made is in hand; if its reply is lost the sweep ends or goes on without it.
LEMMA RaisedStep ==
    ASSUME IInv, NEW i \in DOMAIN todo, WakeRaised(i, todo[i])
    PROVE  IInv'
<1> DEFINE f == todo[i]
           Made == /\ count' = count + 1
                   /\ IF f.key = None THEN Drop(i) /\ UNCHANGED at
                      ELSE at' = "flag" /\ UNCHANGED todo
                   /\ UNCHANGED <<faults, batch, since>>
<1>1. /\ at = "loop" /\ Comes(i, f) /\ f.reason # None /\ ~AtCap /\ Counted(f.key)
      /\ pending' = pending \cup {<<f.task, f.reason>>}
      /\ UNCHANGED <<attempt, late, silent, still, status, review, overdue, old, quiet, flags,
                     due, marking, moves>>
  BY DEF WakeRaised
<1>2. ServiceType /\ EpisodeType /\ SweepType /\ TypeOK
  BY TypeParts DEF IInv
<1>3. f \in Finding /\ <<f.task, f.reason>> \in Wakes /\ f.key \in Keys \cup {None}
  <2>1. f \in Finding
    BY <1>2 DEF SweepType
  <2> HIDE DEF f
  <2> QED BY <1>1, <2>1 DEF Finding, Wakes, Reasons
<1>4. pending \subseteq pending' /\ pending' \subseteq Wakes
  BY <1>1, <1>2, <1>3 DEF ServiceType
<1>5. f.key \in RaiseKeys \cup {None}
  BY DEF IInv, TodoInv
<1>6. marking = {}
  BY <1>1 DEF IInv, PlaceInv
<1>7. CASE Made
  <2>1. count' \in 0..MaxWakes
    BY <1>1, <1>2, <1>7, BoundsAssumption DEF SweepType, AtCap
  <2>2. SweepType'
    BY <1>1, <1>2, <1>7, <2>1, DropType DEF SweepType
  <2>3. EpisodeType'
    BY <1>1, <1>2, <1>3, <1>7, CountedType DEF EpisodeType, since
  <2>4. ServiceType'
    BY <1>1, <1>2, <1>4, <1>7 DEF ServiceType, since
  <2>5. CASE f.key = None
    BY <1>1, <1>2, <1>7, <2>2, <2>3, <2>4, <2>5, DropStep, Together DEF Counted, since, SweepType
  <2>6. CASE f.key # None
    BY <1>1, <1>5, <1>7, <2>2, <2>3, <2>4, <2>6, DoneStep, Together DEF since
  <2> QED BY <2>5, <2>6
<1>8. ASSUME Fault, NEW k \in Keys
      PROVE  /\ k \in flags => times'[k] > 0
             /\ times'[k] <= 1 + faults'
             /\ k \in flags \/ times'[k] <= faults'
             /\ ~Unstored(k)
  <2>0. faults' = faults + 1 /\ faults \in Nat
    BY <1>2, <1>8, FaultType
  <2>1. ~Unstored(k) /\ times[k] \in Nat /\ times \in [Keys -> 0..(MaxEvents + 2)]
    BY <1>1, <1>2, <1>6 DEF Unstored, EpisodeType
  <2>2. CASE times'[k] = times[k]
    BY <2>0, <2>1, <2>2 DEF IInv, TimesInv
  <2>3. CASE times'[k] # times[k]
    <3>1. k = f.key /\ k # None /\ k \notin stale /\ times'[k] = times[k] + 1
      <4> HIDE DEF f
      <4>1. /\ ~(f.key = None \/ f.key \in stale)
            /\ times' = [times EXCEPT ![f.key] = Again(@)]
        BY <1>1, <2>3 DEF Counted
      <4>2. k = f.key
        BY <2>1, <2>3, <4>1
      <4>3. times'[k] = Again(times[k])
        BY <2>1, <4>1, <4>2
      <4> QED BY <2>3, <4>1, <4>2, <4>3 DEF Again
    <3>2. k \notin flags
      BY <1>5, <3>1 DEF IInv, TodoInv
    <3>3. times[k] <= faults
      BY <2>1, <3>2 DEF IInv, TimesInv
    <3> QED BY <2>0, <2>1, <3>1, <3>2, <3>3
  <2> QED BY <2>2, <2>3
<1>9. CASE Fault /\ Over
  <2>1. faults' \in 0..MaxEvents /\ faults' = faults + 1 /\ faults' \in Nat /\ faults \in Nat
    BY <1>2, <1>9, FaultType
  <2>2. SweepType'
    BY <1>1, <1>2, <1>9, <2>1, OverType DEF SweepType
  <2>3. moved' = {} /\ stale' = {}
    BY <1>9 DEF Over
  <2>4. times' \in [Keys -> 0..(MaxEvents + 2)] /\ EpisodeType'
    BY <1>1, <1>2, <1>3, <2>3, CountedType DEF EpisodeType
  <2>5. ServiceType'
    BY <1>1, <1>2, <1>4, <2>3 DEF ServiceType
  <2>6. Rest'
    BY <1>1, <1>6, <1>8, <1>9, <2>1, OverStep
  <2> QED BY <2>2, <2>4, <2>5, <2>6, Together
<1>10. CASE Fault /\ Drop(i) /\ UNCHANGED <<at, count, batch, since>>
  <2>1. faults' \in 0..MaxEvents /\ faults' = faults + 1 /\ faults' \in Nat /\ faults \in Nat
    BY <1>2, <1>10, FaultType
  <2>2. SweepType'
    BY <1>1, <1>2, <1>10, <2>1, DropType DEF SweepType
  <2>3. EpisodeType'
    BY <1>1, <1>2, <1>3, <1>10, CountedType DEF EpisodeType, since
  <2>4. ServiceType'
    BY <1>1, <1>2, <1>4, <1>10 DEF ServiceType, since
  <2>5. PlaceInv' /\ TodoInv' /\ BatchInv'
    BY <1>1, <1>6, <1>10, DropShort DEF since
  <2>6. TimesInv'
    BY <1>1, <1>6, <1>8, <1>10 DEF TimesInv, Unstored
  <2> QED BY <2>2, <2>3, <2>4, <2>5, <2>6, Together DEF Rest
<1>11. Made \/ (Fault /\ Over) \/ (Fault /\ Drop(i) /\ UNCHANGED <<at, count, batch, since>>)
  BY DEF WakeRaised
<1> HIDE DEF Made
<1> QED BY <1>7, <1>9, <1>10, <1>11

\* An escalation that was sent is in hand, and one that was not is dropped.
LEMMA SentStep ==
    ASSUME IInv, NEW i \in DOMAIN todo, EscalationSent(i, todo[i])
    PROVE  IInv'
<1> DEFINE f == todo[i]
<1>1. /\ at = "loop" /\ Comes(i, f) /\ f.reason = None
      /\ UNCHANGED <<teletraan, flags, due, count, batch, marking, since, moves>>
  BY DEF EscalationSent
<1>2. ServiceType /\ EpisodeType /\ SweepType /\ TypeOK
  BY TypeParts DEF IInv
<1>3. ServiceType'
  BY <1>1, <1>2 DEF ServiceType, teletraan, since
<1>4. f.key \in RaiseKeys /\ f.key \in Keys
  BY <1>1, RaiseKeysAreKeys DEF IInv, TodoInv
<1>5. CASE Counted(f.key) /\ at' = "flag" /\ UNCHANGED <<todo, faults>>
  <2>1. SweepType'
    BY <1>1, <1>2, <1>5 DEF SweepType
  <2>2. EpisodeType'
    BY <1>1, <1>2, <1>4, <1>5, CountedType DEF EpisodeType, since
  <2>3. Rest'
    BY <1>1, <1>4, <1>5, DoneStep DEF since
  <2> QED BY <1>3, <2>1, <2>2, <2>3, Together
<1>6. CASE Fault /\ Drop(i) /\ UNCHANGED <<at, times>>
  <2>1. faults' \in 0..MaxEvents /\ faults' \in Nat /\ faults' >= faults
    BY <1>2, <1>6, FaultType
  <2>2. SweepType'
    BY <1>1, <1>2, <1>6, <2>1, DropType DEF SweepType
  <2>3. EpisodeType'
    BY <1>1, <1>2, <1>6 DEF EpisodeType, since
  <2>4. Rest'
    BY <1>1, <1>6, <2>1, DropStep DEF since
  <2> QED BY <1>3, <2>2, <2>3, <2>4, Together
<1> QED BY <1>5, <1>6 DEF EscalationSent

\* What is in hand is remembered, unless its episode is over.
LEMMA RememberStep ==
    ASSUME IInv, NEW i \in DOMAIN todo, Remember(i, todo[i])
    PROVE  IInv'
<1> DEFINE key == todo[i].key
<1>1. /\ at = "flag" /\ Comes(i, todo[i]) /\ at' = "loop" /\ Drop(i)
      /\ flags' = IF key \in stale THEN flags ELSE flags \cup {key}
      /\ UNCHANGED <<teletraan, due, count, batch, marking, since, times, faults, moves>>
  BY DEF Remember
<1>2. ServiceType /\ EpisodeType /\ SweepType /\ TypeOK
  BY TypeParts DEF IInv
<1>3. key \in RaiseKeys /\ key \in Keys /\ key[1] \notin Kinds
  BY <1>1, RaiseKeysAreKeys DEF IInv, PlaceInv
<1>4. ServiceType' /\ EpisodeType'
  <2> HIDE DEF key
  <2> QED BY <1>1, <1>2, <1>3 DEF ServiceType, EpisodeType, teletraan, since
<1>5. SweepType'
  BY <1>1, <1>2, DropType DEF SweepType
<1>6. /\ DOMAIN todo' = DOMAIN todo \ {i} /\ \A j \in DOMAIN todo' : todo'[j] = todo[j]
      /\ stale' = stale /\ marking = {} /\ marking' = {} /\ faults' = faults /\ times' = times
  BY <1>1 DEF Drop, since, IInv, PlaceInv
<1>7. PlaceInv'
  BY <1>1, <1>6 DEF PlaceInv
<1>8. TodoInv'
  <2>1. \A j \in DOMAIN todo' : todo[j].key # key
    BY <1>3, <1>6 DEF IInv, TodoInv
  <2> HIDE DEF key
  <2> QED BY <1>1, <1>6, <2>1 DEF IInv, TodoInv
<1>9. BatchInv'
  <2>1. \A b \in Kinds : key \notin batch[b]
    BY <1>3 DEF IInv, BatchInv
  <2> HIDE DEF key
  <2> QED BY <1>1, <1>6, <2>1 DEF IInv, BatchInv
<1>10. TimesInv'
  <2> SUFFICES ASSUME NEW k \in Keys
               PROVE  /\ k \in flags' \/ Unstored(k)' => times'[k] > 0
                      /\ times'[k] <= 1 + faults'
                      /\ k \in flags' \/ Unstored(k)' \/ times'[k] <= faults'
    BY DEF TimesInv
  <2>1. ~Unstored(k)'
    BY <1>1, <1>6 DEF Unstored
  <2>2. Unstored(k) <=> k = key /\ k \notin stale
    <3>1. \A j \in DOMAIN todo : Comes(j, todo[j]) => j = i
      BY <1>1, <1>2, PlacesAreNumbers DEF Comes
    <3> QED BY <1>1, <1>6, <3>1 DEF Unstored
  <2>3. k \in flags' <=> k \in flags \/ Unstored(k)
    <3> HIDE DEF key
    <3> QED BY <1>1, <2>2
  <2> QED BY <1>6, <2>1, <2>3 DEF IInv, TimesInv
<1> QED BY <1>4, <1>5, <1>7, <1>8, <1>9, <1>10, Together DEF Rest

-----------------------------------------------------------------------------
(* The batches and the end *)

\* A batch that was sent is in hand, and one that was not is forgotten.
LEMMA BatchStep ==
    ASSUME IInv, NEW b \in Kinds, BatchSent(b)
    PROVE  IInv'
<1>1. /\ at = "loop" /\ DOMAIN todo = {} /\ batch' = [batch EXCEPT ![b] = {}]
      /\ UNCHANGED <<teletraan, flags, due, todo, count, since, moves>>
  BY DEF BatchSent, LoopDone
<1>2. ServiceType /\ EpisodeType /\ SweepType /\ TypeOK
  BY TypeParts DEF IInv
<1>3. /\ batch' \in [Kinds -> SUBSET Keys] /\ batch'[b] = {}
      /\ \A c \in Kinds : batch'[c] \subseteq batch[c]
  BY <1>1, <1>2 DEF SweepType
<1>4. marking = {} /\ stale' = stale /\ batch[b] \subseteq Keys
  BY <1>1, <1>2 DEF IInv, PlaceInv, since, SweepType
<1>5. ServiceType'
  BY <1>1, <1>2 DEF ServiceType, teletraan, since
<1>6. TodoInv'
  BY <1>1 DEF TodoInv
<1>7. CASE /\ marking' = batch[b] /\ at' = "mark"
           /\ times' = [k \in Keys |-> IF k \in batch[b] \ stale THEN Again(times[k])
                                        ELSE times[k]]
           /\ UNCHANGED faults
  <2>0. \A k \in Keys :
            times[k] \in Nat /\ times[k] <= MaxEvents + 2 /\ MaxEvents \in Nat /\ faults \in Nat
    BY <1>2, BoundsAssumption DEF TypeOK
  <2>1. SweepType'
    BY <1>1, <1>2, <1>3, <1>4, <1>7 DEF SweepType
  <2>2. times' \in [Keys -> 0..(MaxEvents + 2)]
    BY <1>7, <2>0 DEF Again
  <2>3. EpisodeType'
    BY <1>1, <1>2, <2>2 DEF EpisodeType, since
  <2>4. PlaceInv'
    BY <1>1, <1>7 DEF PlaceInv
  <2>5. BatchInv'
    BY <1>1, <1>3, <1>4, <1>7 DEF IInv, BatchInv
  <2>6. TimesInv'
    <3> SUFFICES ASSUME NEW k \in Keys
                 PROVE  /\ k \in flags' \/ Unstored(k)' => times'[k] > 0
                        /\ times'[k] <= 1 + faults'
                        /\ k \in flags' \/ Unstored(k)' \/ times'[k] <= faults'
      BY DEF TimesInv
    <3>1. ~Unstored(k) /\ (Unstored(k)' <=> k \in batch[b] \ stale)
      BY <1>1, <1>4, <1>7 DEF Unstored
    <3>2. times'[k] = IF k \in batch[b] \ stale THEN Again(times[k]) ELSE times[k]
      BY <1>7
    <3>3. CASE k \in batch[b] \ stale
      <4>1. k \notin flags
        BY <3>3 DEF IInv, BatchInv
      <4>2. times[k] <= faults
        BY <3>1, <4>1 DEF IInv, TimesInv
      <4> QED BY <1>7, <2>0, <3>1, <3>2, <3>3, <4>2 DEF Again
    <3>4. CASE k \notin batch[b] \ stale
      BY <1>1, <1>7, <3>1, <3>2, <3>4 DEF IInv, TimesInv
    <3> QED BY <3>3, <3>4
  <2> QED BY <1>5, <1>6, <2>1, <2>3, <2>4, <2>5, <2>6, Together DEF Rest
<1>8. CASE Fault /\ UNCHANGED <<at, marking, times>>
  <2>1. faults' \in 0..MaxEvents /\ faults' = faults + 1 /\ faults \in Nat
    BY <1>2, <1>8, FaultType
  <2>2. SweepType' /\ EpisodeType'
    BY <1>1, <1>2, <1>3, <1>8, <2>1 DEF SweepType, EpisodeType, since
  <2>3. PlaceInv'
    BY <1>1, <1>4, <1>8 DEF PlaceInv
  <2>4. BatchInv'
    BY <1>1, <1>3, <1>4, <1>8 DEF IInv, BatchInv
  <2>5. \A k \in Keys : ~Unstored(k) /\ ~Unstored(k)' /\ times[k] \in Nat
    BY <1>1, <1>2, <1>4, <1>8 DEF Unstored, TypeOK
  <2>6. TimesInv'
    BY <1>1, <1>8, <2>1, <2>5 DEF IInv, TimesInv
  <2> QED BY <1>5, <1>6, <2>2, <2>3, <2>4, <2>6, Together DEF Rest
<1> QED BY <1>7, <1>8 DEF BatchSent

\* A key of the batch that was sent is stored, unless its episode is over.
LEMMA MarkedStep ==
    ASSUME IInv, BatchMarked
    PROVE  IInv'
<1>1. PICK k \in marking :
        /\ flags' = IF k \in stale THEN flags ELSE flags \cup {k}
        /\ marking' = marking \ {k}
        /\ at' = IF marking = {k} THEN "loop" ELSE "mark"
  BY DEF BatchMarked
<1>2. /\ at = "mark"
      /\ UNCHANGED <<teletraan, due, todo, count, batch, since, times, faults, moves>>
  BY DEF BatchMarked
<1>3. ServiceType /\ EpisodeType /\ SweepType /\ TypeOK /\ k \in Keys
  BY TypeParts DEF IInv, SweepType
<1>4. ServiceType' /\ EpisodeType' /\ SweepType'
  BY <1>1, <1>2, <1>3 DEF ServiceType, EpisodeType, SweepType, teletraan, since
<1>5. DOMAIN todo = {} /\ DOMAIN todo' = {} /\ stale' = stale
  BY <1>2 DEF IInv, PlaceInv, since
<1>6. PlaceInv' /\ TodoInv'
  BY <1>1, <1>2, <1>5 DEF PlaceInv, TodoInv
<1>7. BatchInv'
  BY <1>1, <1>2, <1>5 DEF IInv, BatchInv
<1>8. ASSUME NEW l \in Keys
      PROVE  l \in flags' \/ Unstored(l)' <=> l \in flags \/ Unstored(l)
  BY <1>1, <1>2, <1>5 DEF Unstored
<1>9. TimesInv'
  BY <1>2, <1>8 DEF IInv, TimesInv
<1> QED BY <1>4, <1>6, <1>7, <1>9, Together DEF Rest

\* A sweep that is over has remembered all it did.
LEMMA EndStep ==
    ASSUME IInv, SweepEnds
    PROVE  IInv'
<1>1. /\ at = "loop" /\ Over
      /\ UNCHANGED <<teletraan, flags, due, marking, times, faults, moves>>
  BY DEF SweepEnds, LoopDone
<1>2. ServiceType /\ EpisodeType /\ SweepType /\ TypeOK /\ faults \in Nat /\ marking = {}
  BY <1>1, TypeParts, BoundsAssumption DEF IInv, PlaceInv, SweepType
<1>3. moved' = {} /\ stale' = {}
  BY <1>1 DEF Over
<1>4. ServiceType' /\ EpisodeType'
  BY <1>1, <1>2, <1>3 DEF ServiceType, EpisodeType, teletraan
<1>5. SweepType'
  BY <1>1, <1>2, OverType DEF SweepType
<1>6. \A k \in Keys : ~Unstored(k)
  BY <1>1, <1>2 DEF Unstored
<1>7. Rest'
  BY <1>1, <1>2, <1>6, OverStep DEF IInv, TimesInv
<1> QED BY <1>4, <1>5, <1>7, Together

\* A fault pays for what a sweep that dies did and did not remember.
LEMMA AbortStep ==
    ASSUME IInv, Abort
    PROVE  IInv'
<1>1. Fault /\ Over /\ marking' = {} /\ UNCHANGED <<teletraan, flags, due, times, moves>>
  BY DEF Abort
<1>2. ServiceType /\ EpisodeType /\ SweepType /\ TypeOK
  BY TypeParts DEF IInv
<1>3. moved' = {} /\ stale' = {}
  BY <1>1 DEF Over
<1>4. faults' \in 0..MaxEvents /\ faults' = faults + 1 /\ faults' \in Nat /\ faults \in Nat
  BY <1>1, <1>2, FaultType
<1>5. ServiceType' /\ EpisodeType'
  BY <1>1, <1>2, <1>3 DEF ServiceType, EpisodeType, teletraan
<1>6. SweepType'
  BY <1>1, <1>2, <1>4, OverType DEF SweepType
<1>7. \A k \in Keys : times[k] \in Nat
  BY <1>2 DEF EpisodeType
<1>8. Rest'
  BY <1>1, <1>4, <1>7, OverStep DEF IInv, TimesInv
<1> QED BY <1>5, <1>6, <1>8, Together

-----------------------------------------------------------------------------
(* Theorems *)

\* Every step of the sweep and of the others keeps the invariant.
LEMMA NextInv == IInv /\ [Next]_vars => IInv'
<1> SUFFICES ASSUME IInv, [Next]_vars PROVE IInv'
  OBVIOUS
<1>1. CASE SweepStart
  BY <1>1, StartStep
<1>2. CASE \E i \in DOMAIN todo :
            \/ Deferred(i, todo[i]) \/ WakeRaised(i, todo[i]) \/ RaiseRefused(i, todo[i])
            \/ EscalationSent(i, todo[i]) \/ Remember(i, todo[i])
  BY <1>2, DeferredStep, RaisedStep, RefusedStep, SentStep, RememberStep
<1>3. CASE (\E b \in Kinds : BatchSent(b)) \/ BatchMarked \/ SweepEnds
  BY <1>3, BatchStep, MarkedStep, EndStep
<1>4. CASE Abort
  BY <1>4, AbortStep
<1>5. CASE Others \/ Tick
  BY <1>5, OthersStep
<1>6. CASE UNCHANGED vars
  <2>1. UNCHANGED <<teletraan, flags, sweep, since, times, faults, moves>>
    BY <1>6 DEF vars
  <2>2. TypeOK'
    BY <2>1 DEF IInv, TypeOK, teletraan, sweep, since
  <2>3. PlaceInv' /\ TodoInv' /\ BatchInv'
    BY <2>1 DEF IInv, PlaceInv, TodoInv, BatchInv, Comes, sweep, since
  <2>4. TimesInv'
    BY <2>1 DEF IInv, TimesInv, Unstored, Comes, sweep, since
  <2> QED BY <2>2, <2>3, <2>4 DEF IInv
<1> QED BY <1>1, <1>2, <1>3, <1>4, <1>5, <1>6 DEF Next, Sweep

\* The invariant holds in every state of the sweep (motion.py:136-178).
THEOREM Invariance == Spec => []IInv
  BY InitInv, NextInv, PTL DEF Spec

\* The sweep, its store and the service keep their types.
THEOREM MotionTypes == Spec => []TypeOK
<1>1. IInv => TypeOK
  BY DEF IInv
<1> QED BY <1>1, Invariance, PTL

\* However often a sweep dies between a command or a message and the key that remembers it,
\* an episode is acted on once, and once more for each fault at most.
THEOREM EpisodesAreRaisedOnce == Spec => []OncePerEpisode
<1>1. IInv => OncePerEpisode
  BY DEF IInv, TimesInv, OncePerEpisode
<1> QED BY <1>1, Invariance, PTL

\* Whatever moves on between a sweep's snapshot and its writes, nothing is remembered as
\* raised or sent that was not.
THEOREM MemoryIsTrue == Spec => []RememberedWasDone
<1>1. IInv => RememberedWasDone
  BY DEF IInv, TimesInv, TypeOK, RememberedWasDone
<1> QED BY <1>1, Invariance, PTL

=============================================================================
