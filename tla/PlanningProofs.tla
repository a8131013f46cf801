--------------------------- MODULE PlanningProofs ---------------------------
(* Theorems about Planning, for every value of its constants. *)
EXTENDS Planning, FiniteSetTheorems, WellFoundedInduction, TLAPS

Places == {"draft", "asked", "plan", "cover", "decompose", "granting", "granted"}

Task == [goal : Nat \cup {None}, deps : SUBSET Nat, blank : BOOLEAN,
         scope : SUBSET Seq(Names), item : Nat, named : SUBSET Nat]
CardType == [goals : Seq(Goal), scope : SUBSET Seq(Names), doneWhen : BOOLEAN, fields : BOOLEAN]

\* The types of the card and the plan: every path is inside the repository.
TypeInv ==
    /\ at \in Places
    /\ card \in CardType
    /\ tasks \in Seq(Task)
    /\ items \in Nat
    /\ plan \in Seq(Task) \cup {None}

\* Nothing is planned for a card that is not complete.
EarlyInv == at \in {"draft", "asked"} => tasks = <<>> /\ plan = None

\* Every path of a task is within one of the card's.
ScopeInv ==
    \A i \in DOMAIN tasks : \A p \in tasks[i].scope : \E b \in card.scope : within(p, b)

GoalInv == \A i \in DOMAIN tasks : tasks[i].goal \in GoalIds

IInv == TypeInv /\ EarlyInv /\ ScopeInv /\ GoalInv /\ GoalsAreServed

-----------------------------------------------------------------------------
(* Paths *)

\* within is reflexive and transitive.
LEMMA WithinReflexive == \A p \in Seq(Names) : within(p, p)
  BY DEF within

\* within is transitive: what lies in a path that lies in another lies in that one.
LEMMA WithinTransitive ==
    ASSUME NEW p \in Seq(Names), NEW q \in Seq(Names), NEW r \in Seq(Names),
           within(p, q), within(q, r)
    PROVE  within(p, r)
  BY DEF within

\* Induction on the natural numbers, for a set of them.
LEMMA Induction ==
    ASSUME NEW S, 0 \in S, \A n \in S \cap Nat : n + 1 \in S
    PROVE  Nat \subseteq S
<1> SUFFICES ASSUME Nat \ S # {} PROVE FALSE
  OBVIOUS
<1>1. PICK R : R = OpToRel(<, Nat)
  OBVIOUS
<1>2. IsWellFoundedOn(R, Nat)
  BY <1>1, NatLessThanWellFounded
<1>3. \A m, n \in Nat : m < n => <<m, n>> \in R
  BY <1>1 DEF OpToRel
<1>4. PICK n \in Nat \ S : \A m \in Nat \ S : <<m, n>> \notin R
  <2>1. Nat \ S \subseteq Nat
    OBVIOUS
  <2> QED BY <1>2, <2>1, WFMin
<1>5. n # 0 /\ n - 1 \in Nat /\ n - 1 < n
  BY <1>4
<1>6. n - 1 \in S
  BY <1>3, <1>4, <1>5
<1> QED BY <1>4, <1>5, <1>6

\* The paths that lead up before they lead down, if they lead up at all.
UpFirst ==
    {p \in Seq(Names \cup {Up}) : \A i, j \in DOMAIN p : i < j /\ p[j] = Up => p[i] = Up}

\* f is what has been entered after each of the first n segments.
Enters(f, segments, n) ==
    f = [k \in 0..n |-> IF k = 0 THEN <<>> ELSE Entered(f[k - 1], segments[k])]

\* Normalizing ends: there is what its recursion defines.
LEMMA NormalEnds ==
    ASSUME NEW segments, Len(segments) \in Nat
    PROVE  \E f : Enters(f, segments, Len(segments))
<1> DEFINE S == {n \in Nat : \E f : Enters(f, segments, n)}
<1>1. 0 \in S
  <2> DEFINE f == [k \in 0..0 |-> <<>>]
  <2>1. f = [k \in 0..0 |-> IF k = 0 THEN <<>> ELSE Entered(f[k - 1], segments[k])]
    OBVIOUS
  <2> QED BY <2>1 DEF Enters
<1>2. ASSUME NEW n \in S \cap Nat PROVE n + 1 \in S
  <2>1. PICK f : Enters(f, segments, n)
    OBVIOUS
  <2> DEFINE g == [k \in 0..(n + 1) |-> IF k = n + 1 THEN Entered(f[n], segments[n + 1]) ELSE f[k]]
  <2>2. \A k \in 0..n : g[k] = f[k]
    OBVIOUS
  <2>3. ASSUME NEW k \in 0..(n + 1)
        PROVE  g[k] = IF k = 0 THEN <<>> ELSE Entered(g[k - 1], segments[k])
    <3>1. CASE k = n + 1
      <4>1. g[k] = Entered(f[n], segments[n + 1]) /\ g[k - 1] = f[n]
        BY <2>2, <3>1
      <4> QED BY <3>1, <4>1
    <3>2. CASE k # n + 1
      <4>1. k \in 0..n
        BY <3>2
      <4>2. f[k] = IF k = 0 THEN <<>> ELSE Entered(f[k - 1], segments[k])
        BY <2>1, <4>1 DEF Enters
      <4>3. g[k] = f[k] /\ (k # 0 => g[k - 1] = f[k - 1])
        BY <2>2, <4>1
      <4> QED BY <4>2, <4>3
    <3> QED BY <3>1, <3>2
  <2>4. g = [k \in 0..(n + 1) |-> g[k]]
    OBVIOUS
  <2> HIDE DEF g
  <2>5. g = [k \in 0..(n + 1) |-> IF k = 0 THEN <<>> ELSE Entered(g[k - 1], segments[k])]
    BY <2>3, <2>4
  <2>6. Enters(g, segments, n + 1)
    BY <2>5 DEF Enters
  <2> QED BY <2>6
<1> HIDE DEF S
<1>3. Nat \subseteq S
  BY <1>1, <1>2, Induction
<1> QED BY <1>3 DEF S

\* So Normal is the last of its values.
LEMMA NormalIs ==
    ASSUME NEW segments, Len(segments) \in Nat
    PROVE  \E f : Enters(f, segments, Len(segments)) /\ Normal(segments) = f[Len(segments)]
<1> DEFINE f == CHOOSE g : Enters(g, segments, Len(segments))
<1>1. Enters(f, segments, Len(segments))
  BY NormalEnds
<1>2. Normal(segments) = f[Len(segments)]
  BY DEF Normal, Enters
<1> QED BY <1>1, <1>2

\* A segment that is entered leaves the ups in front.
LEMMA EnteredUpFirst ==
    ASSUME NEW p \in UpFirst, NEW s \in Segments
    PROVE  Entered(p, s) \in UpFirst
<1>1. p \in Seq(Names \cup {Up}) /\ \A i, j \in DOMAIN p : i < j /\ p[j] = Up => p[i] = Up
  BY DEF UpFirst
<1>2. CASE s \in {Here, Empty}
  BY <1>2 DEF Entered
<1>3. CASE s = Up /\ p # <<>> /\ p[Len(p)] # Up
  <2>1. Len(p) \in Nat \ {0} /\ s \notin {Here, Empty}
    <3>1. Up # Here /\ Up # Empty
      BY DEF Up, Here, Empty
    <3> QED BY <1>1, <1>3, <3>1
  <2> DEFINE q == SubSeq(p, 1, Len(p) - 1)
  <2>2. q \in Seq(Names \cup {Up}) /\ Len(q) = Len(p) - 1 /\ \A i \in 1..Len(q) : q[i] = p[i]
    <3>1. /\ Len(p) - 1 \in Nat /\ Len(p) - 1 <= Len(p)
          /\ \A i \in 1..(Len(p) - 1) : p[i] \in Names \cup {Up}
      BY <1>1, <2>1
    <3>2. q = [i \in 1..(Len(p) - 1) |-> p[i]]
      BY <3>1
    <3> HIDE DEF q
    <3>3. q \in Seq(Names \cup {Up})
      BY <3>1, <3>2
    <3> QED BY <3>1, <3>2, <3>3
  <2>3. q \in UpFirst
    <3> HIDE DEF q
    <3> QED BY <1>1, <2>1, <2>2 DEF UpFirst
  <2> QED BY <1>3, <2>1, <2>3 DEF Entered
<1>4. CASE s \notin {Here, Empty} /\ ~(s = Up /\ p # <<>> /\ p[Len(p)] # Up)
  <2> DEFINE q == Append(p, s)
  <2>1. /\ q \in Seq(Names \cup {Up}) /\ Len(q) = Len(p) + 1 /\ q[Len(p) + 1] = s
        /\ \A i \in 1..Len(p) : q[i] = p[i]
    BY <1>1, <1>4 DEF Segments
  <2>2. s = Up => \A i \in 1..Len(p) : p[i] = Up
    <3> SUFFICES ASSUME s = Up, NEW i \in 1..Len(p) PROVE p[i] = Up
      OBVIOUS
    <3>1. p # <<>> /\ Len(p) \in 1..Len(p)
      BY <1>1
    <3>2. p[Len(p)] = Up
      BY <1>4, <3>1
    <3> QED BY <1>1, <3>1, <3>2
  <2>3. q \in UpFirst
    <3> HIDE DEF q
    <3> QED BY <1>1, <2>1, <2>2 DEF UpFirst
  <2> QED BY <1>4, <2>3 DEF Entered
<1> QED BY <1>2, <1>3, <1>4

\* And so does normalizing, however long the path and whatever is in it.
LEMMA NormalUpFirst ==
    ASSUME NEW segments \in Seq(Segments)
    PROVE  Normal(segments) \in UpFirst
<1>1. PICK f : Enters(f, segments, Len(segments)) /\ Normal(segments) = f[Len(segments)]
  BY NormalIs
<1>2. /\ Len(segments) \in Nat /\ f[0] = <<>>
      /\ \A k \in 1..Len(segments) : f[k] = Entered(f[k - 1], segments[k])
  <2>1. \A k \in 0..Len(segments) :
            f[k] = IF k = 0 THEN <<>> ELSE Entered(f[k - 1], segments[k])
    BY <1>1 DEF Enters
  <2> QED BY <2>1
<1> DEFINE S == {n \in Nat : n <= Len(segments) => f[n] \in UpFirst}
<1>3. 0 \in S
  <2>1. <<>> \in Seq(Names \cup {Up}) /\ DOMAIN <<>> = {}
    OBVIOUS
  <2>2. f[0] \in UpFirst
    BY <1>2, <2>1 DEF UpFirst
  <2> QED BY <2>2
<1>4. ASSUME NEW n \in S \cap Nat PROVE n + 1 \in S
  <2> SUFFICES ASSUME n + 1 <= Len(segments) PROVE f[n + 1] \in UpFirst
    OBVIOUS
  <2>1. f[n] \in UpFirst /\ f[n + 1] = Entered(f[n], segments[n + 1])
    BY <1>2, <1>4
  <2>2. segments[n + 1] \in Segments
    BY <1>2
  <2> QED BY <2>1, <2>2, EnteredUpFirst
<1> HIDE DEF S
<1>5. Nat \subseteq S
  BY <1>3, <1>4, Induction
<1> QED BY <1>1, <1>2, <1>5 DEF S

\* Without the blanks at its ends a path is still one, of the same length.
LEMMA StrippedType ==
    ASSUME NEW value \in Seq(Segments), value # <<>>
    PROVE  /\ Stripped(value) \in Seq(Segments) /\ Len(Stripped(value)) = Len(value)
           /\ Stripped(value) = value <=>
                TrimLeft[value[1]] = value[1] /\ TrimRight[value[Len(value)]] = value[Len(value)]
<1> DEFINE n == Len(value)
           left == [value EXCEPT ![1] = TrimLeft[@]]
           q == [left EXCEPT ![n] = TrimRight[@]]
<1>1. n \in Nat \ {0} /\ 1 \in 1..n /\ n \in 1..n /\ \A i \in 1..n : value[i] \in Segments
  OBVIOUS
<1>2. /\ left \in [1..n -> Segments] /\ left[1] = TrimLeft[value[1]]
      /\ \A i \in 2..n : left[i] = value[i]
  BY <1>1, TrimAssumption
<1>3. /\ q \in [1..n -> Segments] /\ q[n] = TrimRight[left[n]]
      /\ \A i \in 1..(n - 1) : q[i] = left[i]
  <2> HIDE DEF left
  <2> QED BY <1>1, <1>2, TrimAssumption
<1> HIDE DEF left, q, n
<1>4. q \in Seq(Segments) /\ Len(q) = n
  BY <1>1, <1>3
<1>5. q = value <=> TrimLeft[value[1]] = value[1] /\ TrimRight[value[n]] = value[n]
  <2>1. q = value <=> \A i \in 1..n : q[i] = value[i]
    BY <1>3 DEF n
  <2>2. CASE n = 1
    <3>1. q = value <=> TrimRight[TrimLeft[value[1]]] = value[1]
      BY <1>2, <1>3, <2>1, <2>2
    <3>2. ASSUME TrimRight[TrimLeft[value[1]]] = value[1]
          PROVE  TrimLeft[value[1]] = value[1] /\ TrimRight[value[1]] = value[1]
      <4> DEFINE v == value[1]
      <4>1. v \in Segments /\ TrimLeft[v] \in Segments
        BY <1>1, TrimAssumption
      <4>2. TrimLeft[TrimRight[TrimLeft[v]]] = TrimRight[TrimLeft[TrimLeft[v]]]
        BY <4>1, TrimAssumption
      <4>3. TrimLeft[TrimLeft[v]] = TrimLeft[v]
        BY <4>1, TrimAssumption
      <4> QED BY <3>2, <4>2, <4>3
    <3> QED BY <2>2, <3>1, <3>2
  <2>3. CASE n # 1
    <3>1. q[1] = TrimLeft[value[1]] /\ q[n] = TrimRight[value[n]]
      <4>1. 1 \in 1..(n - 1) /\ n \in 2..n
        <5>1. n - 1 \in Nat /\ 1 <= n - 1 /\ 2 <= n
          BY <1>1, <2>3
        <5> QED BY <1>1, <5>1
      <4>2. left[n] = value[n]
        BY <1>2, <4>1
      <4> QED BY <1>2, <1>3, <4>1, <4>2
    <3>2. \A i \in 2..(n - 1) : q[i] = value[i]
      BY <1>1, <1>2, <1>3
    <3> QED BY <1>1, <2>1, <3>1, <3>2
  <2> QED BY <2>2, <2>3
<1> QED BY <1>4, <1>5 DEF Stripped, q, left, n

\* What scope_path accepts is a path of names: no ".", no ".." and nothing outside.
LEMMA PathsInside ==
    ASSUME NEW raw \in RawScopes
    PROVE  Paths(raw) \subseteq Seq(Names)
<1> SUFFICES ASSUME NEW v \in raw, scope_path(v) # None PROVE scope_path(v) \in Seq(Names)
  BY DEF Paths
<1>1. v # None /\ v \in RawPath
  BY RawScopesAssumption DEF scope_path
<1>2. Stripped(v) \in Seq(Segments)
  BY <1>1, StrippedType DEF RawPath
<1>3. PICK p : p = Normal(Stripped(v))
  OBVIOUS
<1>4. p \in UpFirst
  BY <1>2, <1>3, NormalUpFirst
<1>5. scope_path(v) = p /\ ~(p # <<>> /\ p[1] = Up)
  BY <1>1, <1>3 DEF scope_path
<1>6. p \in Seq(Names \cup {Up}) /\ \A i, j \in DOMAIN p : i < j /\ p[j] = Up => p[i] = Up
  BY <1>4 DEF UpFirst
<1>7. ASSUME NEW i \in DOMAIN p PROVE p[i] \in Names
  <2>1. i \in 1..Len(p) /\ Len(p) \in Nat /\ 1 \in DOMAIN p /\ p # <<>> /\ p[i] \in Names \cup {Up}
    BY <1>6
  <2>2. p[i] # Up
    BY <1>5, <1>6, <2>1
  <2> QED BY <2>1, <2>2
<1>8. p \in [1..Len(p) -> Names] /\ Len(p) \in Nat
  BY <1>6, <1>7
<1>9. p \in Seq(Names)
  BY <1>8
<1> QED BY <1>5, <1>9

\* A path that is as long as what it was normalized from is what it was normalized from: a
\* segment that is not entered shortens it.
LEMMA NormalKeepsLength ==
    ASSUME NEW q \in Seq(Segments), Len(Normal(q)) = Len(q)
    PROVE  Normal(q) = q
<1>1. PICK f : Enters(f, q, Len(q)) /\ Normal(q) = f[Len(q)]
  BY NormalIs
<1>2. /\ Len(q) \in Nat /\ f[0] = <<>>
      /\ \A k \in 1..Len(q) : f[k] = Entered(f[k - 1], q[k])
  <2>1. \A k \in 0..Len(q) : f[k] = IF k = 0 THEN <<>> ELSE Entered(f[k - 1], q[k])
    BY <1>1 DEF Enters
  <2> QED BY <2>1
<1> DEFINE Short(n) == /\ f[n] \in Seq(Segments) /\ Len(f[n]) <= n
                       /\ Len(f[n]) = n => \A k \in 1..n : f[n][k] = q[k]
           S == {n \in Nat : n <= Len(q) => Short(n)}
<1>3. 0 \in S
  <2>1. <<>> \in Seq(Segments) /\ Len(<<>>) = 0
    OBVIOUS
  <2>2. f[0] \in Seq(Segments) /\ Len(f[0]) = 0
    BY <1>2, <2>1
  <2>3. Short(0)
    BY <2>2
  <2> QED BY <2>3
<1>4. ASSUME NEW n \in S \cap Nat PROVE n + 1 \in S
  <2> SUFFICES ASSUME n + 1 <= Len(q) PROVE Short(n + 1)
    OBVIOUS
  <2> DEFINE p == f[n]
  <2>1. f[n + 1] = Entered(p, q[n + 1]) /\ q[n + 1] \in Segments
    BY <1>2
  <2>2. /\ p \in Seq(Segments) /\ Len(p) \in Nat /\ Len(p) <= n
        /\ Len(p) = n => \A k \in 1..n : p[k] = q[k]
    BY <1>2, <1>4
  <2> HIDE DEF p
  <2>3. CASE q[n + 1] \in {Here, Empty}
    BY <2>1, <2>2, <2>3 DEF Entered
  <2>4. CASE q[n + 1] \notin {Here, Empty} /\ q[n + 1] = Up /\ p # <<>> /\ p[Len(p)] # Up
    <3>1. f[n + 1] = SubSeq(p, 1, Len(p) - 1) /\ Len(p) - 1 \in Nat
      BY <2>1, <2>2, <2>4 DEF Entered
    <3>2. \A i \in 1..(Len(p) - 1) : p[i] \in Segments
      BY <2>2, <3>1
    <3>3. f[n + 1] = [i \in 1..(Len(p) - 1) |-> p[i]]
      BY <2>2, <3>1
    <3> DEFINE m == Len(p) - 1
    <3>4. m \in Nat
      BY <3>1
    <3> HIDE DEF m
    <3>5. [i \in 1..m |-> p[i]] \in Seq(Segments) /\ Len([i \in 1..m |-> p[i]]) = m
      BY <3>2, <3>4 DEF m
    <3>6. f[n + 1] \in Seq(Segments) /\ Len(f[n + 1]) = Len(p) - 1
      BY <3>3, <3>5 DEF m
    <3>7. Len(f[n + 1]) < n + 1 /\ Len(f[n + 1]) <= n + 1 /\ Len(f[n + 1]) # n + 1
      BY <2>2, <3>6
    <3> QED BY <3>6, <3>7
  <2>5. CASE q[n + 1] \notin {Here, Empty} /\ ~(q[n + 1] = Up /\ p # <<>> /\ p[Len(p)] # Up)
    <3>1. f[n + 1] = Append(p, q[n + 1])
      BY <2>1, <2>5 DEF Entered
    <3> QED BY <2>1, <2>2, <3>1
  <2> QED BY <2>3, <2>4, <2>5
<1> HIDE DEF S
<1>5. Nat \subseteq S
  BY <1>3, <1>4, Induction
<1>6. Short(Len(q))
  BY <1>2, <1>5 DEF S
<1> QED BY <1>1, <1>2, <1>6

\* A path of names is its own normal form.
LEMMA NormalOfNames ==
    ASSUME NEW q \in Seq(Names)
    PROVE  Normal(q) = q
<1>1. PICK f : Enters(f, q, Len(q)) /\ Normal(q) = f[Len(q)]
  BY NormalIs
<1>2. /\ Len(q) \in Nat /\ f[0] = <<>>
      /\ \A k \in 1..Len(q) : f[k] = Entered(f[k - 1], q[k])
  <2>1. \A k \in 0..Len(q) : f[k] = IF k = 0 THEN <<>> ELSE Entered(f[k - 1], q[k])
    BY <1>1 DEF Enters
  <2> QED BY <2>1
<1> DEFINE Kept(n) == /\ f[n] \in Seq(Names) /\ Len(f[n]) = n
                      /\ \A k \in 1..n : f[n][k] = q[k]
           S == {n \in Nat : n <= Len(q) => Kept(n)}
<1>3. 0 \in S
  <2>1. <<>> \in Seq(Names) /\ Len(<<>>) = 0
    OBVIOUS
  <2>2. f[0] \in Seq(Names) /\ Len(f[0]) = 0
    BY <1>2, <2>1
  <2>3. Kept(0)
    BY <2>2
  <2> QED BY <2>3
<1>4. ASSUME NEW n \in S \cap Nat PROVE n + 1 \in S
  <2> SUFFICES ASSUME n + 1 <= Len(q) PROVE Kept(n + 1)
    OBVIOUS
  <2>1. f[n + 1] = Entered(f[n], q[n + 1]) /\ q[n + 1] \in Names
    BY <1>2
  <2>2. q[n + 1] \notin {Here, Empty, Up}
    BY <2>1, NamesAssumption
  <2>3. f[n + 1] = Append(f[n], q[n + 1])
    BY <2>1, <2>2 DEF Entered
  <2> QED BY <1>2, <1>4, <2>1, <2>3
<1> HIDE DEF S
<1>5. Nat \subseteq S
  BY <1>3, <1>4, Induction
<1>6. Kept(Len(q))
  BY <1>2, <1>5 DEF S
<1> QED BY <1>1, <1>2, <1>6

\* Of the paths that scope_path can accept, its own results are those without a blank at an end.
LEMMA FixedPaths ==
    ASSUME NEW p \in Seq(Names)
    PROVE  Fixed(p) <=> ~Blanked(p)
<1>1. CASE p = <<>>
  <2> DEFINE v == <<Here>>
  <2>1. v \in Seq(Segments) /\ Len(v) = 1 /\ v[1] = Here /\ v # <<>>
    BY DEF Segments
  <2>2. Stripped(v) = v
    BY <2>1, StrippedType, TrimAssumption
  <2>3. Normal(v) = <<>>
    <3>1. PICK f : Enters(f, v, 1) /\ Normal(v) = f[1]
      BY <2>1, NormalIs
    <3>2. \A k \in 0..1 : f[k] = IF k = 0 THEN <<>> ELSE Entered(f[k - 1], v[k])
      BY <3>1 DEF Enters
    <3>3. f[0] = <<>> /\ f[1] = Entered(f[0], Here)
      BY <2>1, <3>2
    <3> QED BY <3>1, <3>3 DEF Entered
  <2>4. v # None /\ Here # Empty
    BY <2>1, NoneAssumption DEF Here, Empty
  <2> HIDE DEF v
  <2>5. scope_path(v) = <<>>
    BY <2>1, <2>2, <2>3, <2>4 DEF scope_path
  <2> QED BY <1>1, <2>5 DEF Fixed, Blanked, v
<1>2. CASE p # <<>>
  <2>1. /\ p \in Seq(Segments) /\ p # None /\ Len(p) \in Nat \ {0}
        /\ p[1] \in Names /\ p[1] \notin {Empty, Up}
    <3>1. p \in Seq(Segments)
      BY DEF Segments
    <3> QED BY <1>2, <3>1, NoneAssumption, NamesAssumption
  <2>2. PICK q : q = Stripped(p)
    OBVIOUS
  <2>3. q \in Seq(Segments) /\ Len(q) = Len(p) /\ (q = p <=> ~Blanked(p))
    BY <1>2, <2>1, <2>2, StrippedType DEF Blanked
  <2>4. Fixed(p) <=> scope_path(p) = p
    BY <1>2 DEF Fixed
  <2>5. ASSUME q = p PROVE scope_path(p) = p
    BY <2>1, <2>2, <2>5, NormalOfNames DEF scope_path
  <2>6. ASSUME scope_path(p) = p PROVE q = p
    <3>1. Normal(q) = p
      BY <2>1, <2>2, <2>6 DEF scope_path
    <3> QED BY <2>3, <3>1, NormalKeepsLength
  <2> QED BY <2>3, <2>4, <2>5, <2>6
<1> QED BY <1>1, <1>2

\* What a card's scope is made of lies inside the repository.
LEMMA CardScopeType ==
    ASSUME NEW raw \in RawScopes
    PROVE  CardScope(raw) \in SUBSET Seq(Names)
  BY PathsInside DEF CardScope

\* A task's scope is inside the repository and inside its card's.
LEMMA TaskScopeWithin ==
    ASSUME NEW raw \in RawScopes, NEW scope \in SUBSET Seq(Names)
    PROVE  /\ TaskScope(raw, scope) \in SUBSET Seq(Names)
           /\ \A p \in TaskScope(raw, scope) : \E b \in scope : within(p, b)
<1>1. CASE Paths(raw) # {} /\ scope_within(Paths(raw), scope)
  BY <1>1, PathsInside DEF TaskScope, scope_within
<1>2. CASE ~(Paths(raw) # {} /\ scope_within(Paths(raw), scope))
  BY <1>2, WithinReflexive DEF TaskScope
<1> QED BY <1>1, <1>2

\* The files of a task's scope are files of the card's, however deep they lie.
LEMMA ScopesCover ==
    ASSUME TypeInv, ScopeInv, NEW i \in DOMAIN tasks, NEW file \in Seq(Names),
           Covers(tasks[i].scope, file)
    PROVE  Covers(card.scope, file)
<1>1. tasks[i].scope \in SUBSET Seq(Names) /\ card.scope \in SUBSET Seq(Names)
  <2>1. tasks[i] \in Task
    BY DEF TypeInv
  <2> QED BY <2>1 DEF TypeInv, Task, CardType
<1>2. PICK p \in tasks[i].scope : within(file, p) \/ \E k \in DOMAIN p : p[k] = Up
  BY DEF Covers
<1>3. p \in Seq(Names)
  BY <1>1
<1>4. within(file, p)
  BY <1>2, <1>3, NamesAssumption
<1>5. PICK b \in card.scope : within(p, b)
  BY DEF ScopeInv
<1>6. within(file, b)
  BY <1>1, <1>3, <1>4, <1>5, WithinTransitive
<1> QED BY <1>6 DEF Covers

-----------------------------------------------------------------------------
(* The card *)

\* Normalized goals, and stated ones, are goals.
LEMMA GoalsType ==
    ASSUME NEW goals \in RawGoals, NEW n \in Nat, NEW doneWhen \in BOOLEAN
    PROVE  /\ Normalized(goals) \in Seq(Goal)
           /\ Carried(Normalized(goals), n, doneWhen) \in Seq(Goal)
<1>1. goals \in Seq(Goal)
  BY RawGoalsAssumption
<1>2. Normalized(goals) \in Seq(Goal)
  <2>1. DOMAIN goals = 1..Len(goals) /\ Len(goals) \in Nat
    BY <1>1
  <2>2. ASSUME NEW i \in DOMAIN goals
        PROVE  [goals[i] EXCEPT !.id = IF goals[i].id = None THEN i ELSE goals[i].id] \in Goal
    <3>1. goals[i] \in Goal /\ i \in Nat
      BY <1>1, <2>1
    <3> QED BY <3>1 DEF Goal
  <2> QED BY <2>1, <2>2 DEF Normalized
<1>3. Carried(Normalized(goals), n, doneWhen) \in Seq(Goal)
  <2> DEFINE m == IF n < MaxGoals THEN n ELSE MaxGoals
             ms == Normalized(goals)
  <2>1. m \in Nat
    BY BoundsAssumption
  <2> HIDE DEF ms
  <2>2. ASSUME NEW i \in 1..m
        PROVE  [id |-> i, statement |-> TRUE,
                doneWhen |-> doneWhen \/ (i <= Len(ms) /\ ms[i].doneWhen)] \in Goal
    <3>1. (doneWhen \/ (i <= Len(ms) /\ ms[i].doneWhen)) \in BOOLEAN
      OBVIOUS
    <3> QED BY <2>1, <3>1 DEF Goal
  <2> USE DEF ms
  <2> QED BY <2>1, <2>2 DEF Carried
<1> QED BY <1>2, <1>3

-----------------------------------------------------------------------------
(* The invariant *)

\* The invariant holds before anything was drafted.
LEMMA InitInv == Init => IInv
<1> SUFFICES ASSUME Init PROVE IInv
  OBVIOUS
<1>1. card \in CardType
  BY DEF Init, CardType
<1> QED BY <1>1
        DEF Init, IInv, TypeInv, Places, EarlyInv, ScopeInv, GoalInv, GoalsAreServed

\* A step that leaves the card, the tasks and the plan alone keeps the invariant.
LEMMA QuietStep ==
    ASSUME IInv, UNCHANGED <<card, tasks, plan>>, items' \in Nat, at' \in Places,
           at' \in {"draft", "asked"} => at \in {"draft", "asked"}
    PROVE  IInv'
  BY DEF IInv, TypeInv, EarlyInv, ScopeInv, GoalInv, GoalsAreServed, GoalIds

\* A draft makes the card or nothing.
LEMMA DraftStep == IInv /\ Drafts => IInv'
<1> SUFFICES ASSUME IInv, NEW goals \in RawGoals, NEW stated \in 0..(MaxGoals + 1),
                    NEW scope \in RawScopes, NEW doneWhen \in BOOLEAN, NEW fields \in BOOLEAN,
                    Draft(goals, stated, scope, doneWhen, fields)
             PROVE  IInv'
  BY DEF Drafts
<1>1. tasks = <<>> /\ plan = None /\ UNCHANGED <<tasks, items, plan>> /\ items \in Nat
  BY DEF Draft, IInv, EarlyInv, TypeInv, planning
<1>2. at' \in {"draft", "asked", "plan"}
  BY DEF Draft
<1>3. card' \in CardType
  <2> DEFINE gs == IF stated = 0 THEN Normalized(goals)
                   ELSE Carried(Normalized(goals), stated, doneWhen)
             c == [goals |-> gs, scope |-> CardScope(scope), doneWhen |-> doneWhen,
                   fields |-> fields]
  <2>1. stated \in Nat
    BY BoundsAssumption
  <2>2. gs \in Seq(Goal)
    BY <2>1, GoalsType
  <2>3. c \in CardType
    <3> HIDE DEF gs
    <3> QED BY <2>2, CardScopeType DEF CardType
  <2>4. card' = c \/ UNCHANGED card
    BY DEF Draft
  <2>5. card \in CardType
    BY DEF IInv, TypeInv
  <2> HIDE DEF c
  <2> QED BY <2>3, <2>4, <2>5
<1> QED BY <1>1, <1>2, <1>3
        DEF IInv, TypeInv, Places, EarlyInv, ScopeInv, GoalInv, GoalsAreServed

\* A task that is well made keeps what holds of all tasks.
LEMMA AppendStep ==
    ASSUME IInv, NEW t \in Task, tasks' = Append(tasks, t), UNCHANGED <<at, card, plan>>,
           items' \in Nat, at \notin {"draft", "asked"}, t.goal \in GoalIds,
           \A p \in t.scope : \E b \in card.scope : within(p, b)
    PROVE  IInv'
<1>1. /\ tasks \in Seq(Task) /\ tasks' \in Seq(Task) /\ Len(tasks) \in Nat
      /\ DOMAIN tasks = 1..Len(tasks) /\ DOMAIN tasks' = 1..(Len(tasks) + 1)
      /\ \A i \in DOMAIN tasks : tasks'[i] = tasks[i]
      /\ tasks'[Len(tasks) + 1] = t
  BY DEF IInv, TypeInv
<1>2. TypeInv'
  BY <1>1 DEF IInv, TypeInv
<1>3. EarlyInv'
  BY DEF EarlyInv
<1>4. ScopeInv'
  BY <1>1 DEF IInv, ScopeInv
<1>5. GoalInv'
  BY <1>1 DEF IInv, GoalInv, GoalIds
<1>6. GoalsAreServed'
  BY DEF IInv, GoalsAreServed, GoalIds
<1> QED BY <1>2, <1>3, <1>4, <1>5, <1>6 DEF IInv

\* An item is skipped, or becomes a task within the card.
LEMMA ItemStep == IInv /\ Answer => IInv'
<1> SUFFICES ASSUME IInv, NEW goal \in GoalIds \cup {MaxGoals + 1}, NEW deps \in RawDeps,
                    NEW blank \in BOOLEAN, NEW scope \in RawScopes,
                    Item(goal, deps, blank, scope)
             PROVE  IInv'
  BY DEF Answer
<1>1. items \in Nat /\ items' \in Nat /\ card \in CardType
  BY DEF Item, IInv, TypeInv
<1> DEFINE ids == Nat \cup {None}
<1>4. GoalIds \subseteq ids
  <2>1. \A i \in DOMAIN card.goals : card.goals[i] \in Goal
    BY <1>1 DEF CardType
  <2> QED BY <2>1 DEF GoalIds, Goal
<1>2. CASE goal \notin GoalIds
  BY <1>1, <1>2, QuietStep DEF Item, Places
<1>3. CASE goal \in GoalIds
  <2> DEFINE s == TaskScope(scope, card.scope)
             t == [goal |-> goal, deps |-> Earlier(deps), blank |-> blank, scope |-> s,
                   item |-> items, named |-> deps]
  <2>1. s \in SUBSET Seq(Names) /\ \A p \in s : \E b \in card.scope : within(p, b)
    BY <1>1, TaskScopeWithin DEF CardType
  <2>2. goal \in Nat \cup {None}
    BY <1>3, <1>4
  <2>3. deps \in SUBSET Nat /\ Earlier(deps) \in SUBSET Nat
    BY RawDepsAssumption DEF Earlier
  <2>4. tasks' = Append(tasks, t) /\ at = "plan" /\ UNCHANGED <<at, card, plan>>
    BY <1>3 DEF Item
  <2> HIDE DEF s
  <2>5. t \in Task
    BY <1>1, <2>1, <2>2, <2>3 DEF Task
  <2> QED BY <1>1, <1>3, <2>1, <2>4, <2>5, AppendStep
<1> QED BY <1>2, <1>3

\* A fallback task serves its goal with the card's whole scope.
LEMMA CoverStep == IInv /\ GoalCovered => IInv'
<1> SUFFICES ASSUME IInv, GoalCovered PROVE IInv'
  OBVIOUS
<1>1. PICK k \in DOMAIN card.goals :
        tasks' = Append(tasks, [goal |-> card.goals[k].id, deps |-> {}, blank |-> FALSE,
                                scope |-> card.scope, item |-> items, named |-> {}])
  BY DEF GoalCovered
<1> DEFINE t == [goal |-> card.goals[k].id, deps |-> {}, blank |-> FALSE,
                 scope |-> card.scope, item |-> items, named |-> {}]
<1>2. items \in Nat /\ items' \in Nat /\ card \in CardType /\ at = "cover"
      /\ UNCHANGED <<at, card, plan>>
  BY DEF GoalCovered, IInv, TypeInv
<1>3. t.goal \in GoalIds
  BY DEF GoalIds
<1>4. t \in Task
  <2>1. card.goals[k] \in Goal /\ card.scope \in SUBSET Seq(Names)
    BY <1>2 DEF CardType
  <2>2. card.goals[k].id \in Nat \cup {None}
    BY <2>1 DEF Goal
  <2> QED BY <1>2, <2>1, <2>2 DEF Task
<1>5. \A p \in t.scope : \E b \in card.scope : within(p, b)
  BY <1>2, WithinReflexive DEF CardType
<1> QED BY <1>1, <1>2, <1>3, <1>4, <1>5, AppendStep

\* The plan is stored when every goal is served, and all its tasks serve goals of the card.
LEMMA StoreStep == IInv /\ PlanStored => IInv'
<1> SUFFICES ASSUME IInv, PlanStored PROVE IInv'
  OBVIOUS
<1>1. GoalsAreServed'
  <2>1. plan' = tasks /\ card' = card
    BY DEF PlanStored
  <2>2. {tasks[i].goal : i \in DOMAIN tasks} \subseteq GoalIds
    BY DEF IInv, GoalInv
  <2>3. GoalIds \subseteq {tasks[i].goal : i \in DOMAIN tasks}
    BY DEF PlanStored, GoalIds, Served
  <2> QED BY <2>1, <2>2, <2>3 DEF GoalsAreServed, GoalIds
<1> QED BY <1>1
        DEF PlanStored, planning, IInv, TypeInv, Places, EarlyInv, ScopeInv, GoalInv, GoalIds

\* Asking the model again starts from no task.
LEMMA AgainStep == IInv /\ PlanAgain => IInv'
  BY DEF PlanAgain, IInv, TypeInv, Places, EarlyInv, ScopeInv, GoalInv, GoalsAreServed,
         GoalIds

\* Every step keeps the invariant.
LEMMA NextInv == IInv /\ [Next]_vars => IInv'
<1> SUFFICES ASSUME IInv, [Next]_vars PROVE IInv'
  OBVIOUS
<1>1. items \in Nat
  BY DEF IInv, TypeInv
<1>2. CASE UNCHANGED vars
  BY <1>1, <1>2, QuietStep DEF vars, IInv, TypeInv
<1>3. CASE Drafts
  BY <1>3, DraftStep
<1>4. CASE Answer
  BY <1>4, ItemStep
<1>5. CASE AnswerEnds
  BY <1>1, <1>5, QuietStep DEF AnswerEnds, planning, Places
<1>6. CASE GoalCovered
  BY <1>6, CoverStep
<1>7. CASE PlanStored
  BY <1>7, StoreStep
<1>8. CASE TaskCreated \/ SpecRefused
  BY <1>1, <1>8, QuietStep DEF TaskCreated, SpecRefused, Planned, planning, Places
<1>9. CASE SetUp
  BY <1>1, <1>9, QuietStep DEF SetUp, planning, Places
<1>10. CASE Resume
  <2>1. CASE PlanAgain
    BY <2>1, AgainStep
  <2>2. CASE ~PlanAgain
    BY <1>1, <1>10, <2>2, QuietStep DEF Resume, planning, Places
  <2> QED BY <2>1, <2>2
<1>11. CASE Abort
  BY <1>1, <1>11, QuietStep DEF Abort, planning, Places
<1> QED BY <1>2, <1>3, <1>4, <1>5, <1>6, <1>7, <1>8, <1>9, <1>10, <1>11 DEF Next, SettingUp

-----------------------------------------------------------------------------

\* The inductive invariant of planning holds in every reachable state.
THEOREM Invariance == Spec => []IInv
  BY InitInv, NextInv, PTL DEF Spec

\* No task may write a file that the approved card does not open to it.
THEOREM ScopesHold == Spec => []TasksStayInScope
<1>1. Files \subseteq Seq(Names)
  <2> SUFFICES ASSUME NEW n \in 0..2, NEW file \in [1..n -> Names] PROVE file \in Seq(Names)
    BY DEF Files
  <2> QED OBVIOUS
<1>2. IInv => TasksStayInScope
  BY <1>1, ScopesCover DEF IInv, TasksStayInScope
<1> QED BY <1>2, Invariance, PTL

\* What TasksStayInScope says of the files up to two levels down holds of all.
AllFilesStayInScope ==
    \A i \in DOMAIN tasks : \A file \in Seq(Names) :
        Covers(tasks[i].scope, file) => Covers(card.scope, file)

\* No task may write a file that the approved card does not open to it, however deep it lies
\* and however long the paths are that the model gave.
THEOREM ScopesHoldAtAnyDepth == Spec => []AllFilesStayInScope
<1>1. IInv => AllFilesStayInScope
  BY ScopesCover DEF IInv, AllFilesStayInScope
<1> QED BY <1>1, Invariance, PTL

\* A stored plan serves exactly the goals of the approved card.
THEOREM EveryGoalIsServed == Spec => []GoalsAreServed
<1>1. IInv => GoalsAreServed
  BY DEF IInv
<1> QED BY <1>1, Invariance, PTL

-----------------------------------------------------------------------------
(* What is refused of a plan *)

\* No goal of a card is nameless and no scope empty, in the card, the tasks and the plan.
SoundInv ==
    /\ 0 \notin GoalIds /\ card.scope # {}
    /\ \A i \in DOMAIN tasks : tasks[i].scope # {}
    /\ plan # None => \A i \in DOMAIN plan : plan[i].goal # 0 /\ plan[i].scope # {}

\* The card before any draft is open to the whole repository and has no goals.
LEMMA InitSound == Init => SoundInv
  BY DEF Init, SoundInv, GoalIds

\* A step that leaves the card, the tasks and the plan alone.
LEMMA QuietSound == SoundInv /\ UNCHANGED <<card, tasks, plan>> => SoundInv'
  BY DEF SoundInv, GoalIds

\* Only a complete card is kept, and a card's scope is never empty.
LEMMA DraftSound == IInv /\ SoundInv /\ Drafts => SoundInv'
<1> SUFFICES ASSUME IInv, SoundInv, NEW goals, NEW stated, NEW scope, NEW doneWhen, NEW fields,
                    Draft(goals, stated, scope, doneWhen, fields)
             PROVE  SoundInv'
  BY DEF Drafts
<1>1. UNCHANGED <<tasks, plan>>
  BY DEF Draft, planning
<1>2. \/ UNCHANGED card
      \/ \E c : Complete(c) /\ c.scope = CardScope(scope) /\ card' = c
  BY DEF Draft
<1>3. CASE UNCHANGED card
  BY <1>1, <1>3, QuietSound
<1>4. CASE ~UNCHANGED card
  <2>1. card'.scope = CardScope(scope) /\ (\A i \in DOMAIN card'.goals : card'.goals[i].id # 0)
    BY <1>2, <1>4 DEF Complete
  <2>2. CardScope(scope) # {}
    BY DEF CardScope
  <2> QED BY <1>1, <2>1, <2>2 DEF SoundInv, GoalIds
<1> QED BY <1>3, <1>4

\* A task that is added has a scope.
LEMMA AppendSound ==
    ASSUME IInv, SoundInv, NEW t, t.scope # {}, tasks' = Append(tasks, t),
           UNCHANGED <<card, plan>>
    PROVE  SoundInv'
<1>1. tasks \in Seq(Task)
  BY DEF IInv, TypeInv
<1>2. \A i \in DOMAIN tasks' : (i \in DOMAIN tasks /\ tasks'[i] = tasks[i]) \/ tasks'[i] = t
  BY <1>1
<1> QED BY <1>2 DEF SoundInv, GoalIds

\* An item's scope is what it named, if that is something, or the card's.
LEMMA ItemSound == IInv /\ SoundInv /\ Answer => SoundInv'
<1> SUFFICES ASSUME IInv, SoundInv, NEW goal, NEW deps, NEW blank, NEW scope,
                    Item(goal, deps, blank, scope)
             PROVE  SoundInv'
  BY DEF Answer
<1>1. TaskScope(scope, card.scope) # {}
  BY DEF TaskScope, SoundInv
<1>2. UNCHANGED <<card, plan>>
  BY DEF Item
<1>3. CASE UNCHANGED tasks
  BY <1>2, <1>3, QuietSound
<1>4. CASE ~UNCHANGED tasks
  <2> DEFINE t == [goal |-> goal, deps |-> Earlier(deps), blank |-> blank,
                   scope |-> TaskScope(scope, card.scope), item |-> items, named |-> deps]
  <2>1. tasks' = Append(tasks, t)
    BY <1>4 DEF Item
  <2> QED BY <1>1, <1>2, <2>1, AppendSound
<1> QED BY <1>3, <1>4

\* A fallback task has the card's scope.
LEMMA CoverSound == IInv /\ SoundInv /\ GoalCovered => SoundInv'
<1> SUFFICES ASSUME IInv, SoundInv, GoalCovered PROVE SoundInv'
  OBVIOUS
<1>1. PICK k \in DOMAIN card.goals :
        tasks' = Append(tasks, [goal |-> card.goals[k].id, deps |-> {}, blank |-> FALSE,
                                scope |-> card.scope, item |-> items, named |-> {}])
  BY DEF GoalCovered
<1>2. UNCHANGED <<card, plan>> /\ card.scope # {}
  BY DEF GoalCovered, SoundInv
<1> QED BY <1>1, <1>2, AppendSound

\* A plan is stored whose tasks serve goals of the card.
LEMMA StoreSound == IInv /\ SoundInv /\ PlanStored => SoundInv'
<1> SUFFICES ASSUME IInv, SoundInv, PlanStored PROVE SoundInv'
  OBVIOUS
<1>1. plan' = tasks /\ UNCHANGED <<card, tasks>>
  BY DEF PlanStored, planning
<1>2. \A i \in DOMAIN tasks : tasks[i].goal # 0
  BY DEF IInv, GoalInv, SoundInv
<1> QED BY <1>1, <1>2 DEF SoundInv, GoalIds

\* Every step keeps it.
LEMMA NextSound == IInv /\ SoundInv /\ [Next]_vars => SoundInv'
<1> SUFFICES ASSUME IInv, SoundInv, [Next]_vars PROVE SoundInv'
  OBVIOUS
<1>1. CASE Drafts
  BY <1>1, DraftSound
<1>2. CASE Answer
  BY <1>2, ItemSound
<1>3. CASE GoalCovered
  BY <1>3, CoverSound
<1>4. CASE PlanStored
  BY <1>4, StoreSound
<1>5. CASE AnswerEnds \/ TaskCreated \/ SpecRefused \/ SetUp \/ Abort \/ UNCHANGED vars
  BY <1>5, QuietSound
     DEF AnswerEnds, TaskCreated, SpecRefused, SetUp, Abort, Planned, planning, vars
<1>6. CASE Resume
  <2>1. CASE PlanAgain
    <3>1. tasks' = <<>> /\ UNCHANGED <<card, plan>>
      BY <2>1 DEF PlanAgain
    <3> QED BY <3>1 DEF SoundInv, GoalIds
  <2>2. CASE ~PlanAgain
    BY <1>6, <2>2, QuietSound DEF Resume, planning
  <2> QED BY <2>1, <2>2
<1> QED BY <1>1, <1>2, <1>3, <1>4, <1>5, <1>6 DEF Next, SettingUp

\* A task that validate_task_spec refuses has a blank acceptance, or a path with a blank at an
\* end: there is no other way to make a plan that the setup cannot finish.
THEOREM RefusalsAreBlanks == Spec => []OnlyBlanksAreRefused
<1>1. IInv /\ SoundInv => OnlyBlanksAreRefused
  <2> SUFFICES ASSUME IInv, SoundInv, plan # None, NEW i \in DOMAIN plan
               PROVE  Valid(plan[i]) <=>
                        ~plan[i].blank /\ \A path \in plan[i].scope : ~Blanked(path)
    BY DEF OnlyBlanksAreRefused
  <2>1. plan[i] \in Task
    BY DEF IInv, TypeInv
  <2>2. plan[i].scope \in SUBSET Seq(Names)
    BY <2>1 DEF Task
  <2>3. \A path \in plan[i].scope : Fixed(path) <=> ~Blanked(path)
    BY <2>2, FixedPaths
  <2>4. plan[i].goal # 0 /\ plan[i].scope # {}
    BY DEF SoundInv
  <2> QED BY <2>3, <2>4 DEF Valid
<1> QED BY <1>1, InitSound, NextSound, Invariance, PTL DEF Spec

-----------------------------------------------------------------------------
(* The length of a plan *)

\* The goals that no task serves yet.
Unserved == {k \in DOMAIN card.goals : ~Served(card.goals[k].id)}

\* The model's items stay within the cap, and every further task serves one goal more.
CountInv ==
    /\ at = "plan" => Len(tasks) <= Limit
    /\ at = "cover" => Len(tasks) + Cardinality(Unserved) < Limit + Len(card.goals)
    /\ PlanIsBounded

\* The lengths and the counts are numbers.
LEMMA Counts ==
    ASSUME IInv
    PROVE  /\ card.goals \in Seq(Goal) /\ Len(card.goals) \in Nat
           /\ DOMAIN card.goals = 1..Len(card.goals)
           /\ tasks \in Seq(Task) /\ Len(tasks) \in Nat
           /\ IsFiniteSet(DOMAIN card.goals) /\ Cardinality(DOMAIN card.goals) = Len(card.goals)
           /\ IsFiniteSet(Unserved) /\ Cardinality(Unserved) \in Nat
           /\ Cardinality(Unserved) <= Len(card.goals)
           /\ \A k \in DOMAIN card.goals :
                k \notin Unserved => Cardinality(Unserved) < Len(card.goals)
<1>1. card.goals \in Seq(Goal) /\ tasks \in Seq(Task)
  BY DEF IInv, TypeInv, CardType
<1>2. /\ Len(card.goals) \in Nat /\ DOMAIN card.goals = 1..Len(card.goals)
      /\ Len(tasks) \in Nat
  BY <1>1
<1>3. /\ IsFiniteSet(DOMAIN card.goals) /\ Cardinality(DOMAIN card.goals) = Len(card.goals)
  BY <1>2, FS_Interval
<1>4. Unserved \in SUBSET DOMAIN card.goals
  BY DEF Unserved
<1>5. /\ IsFiniteSet(Unserved) /\ Cardinality(Unserved) <= Len(card.goals)
      /\ Len(card.goals) = Cardinality(Unserved) => DOMAIN card.goals = Unserved
  BY <1>3, <1>4, FS_Subset
<1>6. Cardinality(Unserved) \in Nat
  BY <1>5, FS_CardinalityType
<1>7. ASSUME NEW k \in DOMAIN card.goals, k \notin Unserved
      PROVE  Cardinality(Unserved) < Len(card.goals)
  BY <1>2, <1>5, <1>6, <1>7
<1> QED BY <1>1, <1>2, <1>3, <1>5, <1>6, <1>7

\* A step that leaves the tasks and the card alone, and does not enter the planning.
LEMMA QuietCount ==
    ASSUME CountInv, UNCHANGED <<card, tasks>>, at' \in {"plan", "cover"} => at' = at
    PROVE  CountInv'
  BY DEF CountInv, PlanIsBounded, Unserved, Served

\* A draft plans nothing.
LEMMA DraftCount == IInv /\ CountInv /\ Drafts => CountInv'
<1> SUFFICES ASSUME IInv, CountInv, Drafts PROVE CountInv'
  OBVIOUS
<1>1. tasks = <<>> /\ tasks' = <<>> /\ at' # "cover"
  BY DEF Drafts, Draft, IInv, EarlyInv, planning
<1>2. Len(tasks') = 0 /\ Limit \in Nat
  BY <1>1, BoundsAssumption
<1> QED BY <1>1, <1>2 DEF CountInv, PlanIsBounded

\* An item is taken only below the cap.
LEMMA ItemCount == IInv /\ CountInv /\ Answer => CountInv'
<1> SUFFICES ASSUME IInv, CountInv, NEW goal, NEW deps, NEW blank, NEW scope,
                    Item(goal, deps, blank, scope)
             PROVE  CountInv'
  BY DEF Answer
<1>1. at = "plan" /\ at' = "plan" /\ Len(tasks) < Limit /\ Len(tasks) \in Nat /\ Limit \in Nat
  BY Counts, BoundsAssumption DEF Item, Full
<1>2. tasks' = tasks \/ \E t : tasks' = Append(tasks, t)
  BY DEF Item
<1>3. Len(tasks') <= Limit
  BY <1>1, <1>2, Counts
<1> QED BY <1>1, <1>3, Counts DEF CountInv, PlanIsBounded, Item

\* An answer that made a task has served a goal.
LEMMA EndCount == IInv /\ CountInv /\ AnswerEnds => CountInv'
<1> SUFFICES ASSUME IInv, CountInv, AnswerEnds PROVE CountInv'
  OBVIOUS
<1>1. at = "plan" /\ at' = "cover" /\ UNCHANGED <<card, tasks>> /\ Len(tasks) <= Limit
  BY DEF AnswerEnds, planning, CountInv
<1>2. Limit \in Nat \ {0}
  BY BoundsAssumption
<1>3. Len(tasks) + Cardinality(Unserved) < Limit + Len(card.goals)
  <2>1. CASE Len(tasks) = 0
    BY <1>2, <2>1, Counts
  <2>2. CASE Len(tasks) # 0
    <3>1. 1 \in DOMAIN tasks
      BY <2>2, Counts
    <3>2. PICK k \in DOMAIN card.goals : card.goals[k].id = tasks[1].goal
      BY <3>1 DEF IInv, GoalInv, GoalIds
    <3>3. k \notin Unserved
      BY <3>1, <3>2 DEF Unserved, Served
    <3> QED BY <1>1, <1>2, <3>2, <3>3, Counts
  <2> QED BY <2>1, <2>2
<1>4. UNCHANGED Unserved
  BY <1>1 DEF Unserved, Served
<1> QED BY <1>1, <1>3, <1>4 DEF CountInv, PlanIsBounded

\* A fallback task serves a goal that was not served.
LEMMA CoverCount == IInv /\ CountInv /\ GoalCovered => CountInv'
<1> SUFFICES ASSUME IInv, CountInv, GoalCovered PROVE CountInv'
  OBVIOUS
<1>1. PICK k \in DOMAIN card.goals :
        /\ ~Served(card.goals[k].id)
        /\ tasks' = Append(tasks, [goal |-> card.goals[k].id, deps |-> {}, blank |-> FALSE,
                                   scope |-> card.scope, item |-> items, named |-> {}])
  BY DEF GoalCovered
<1>2. at = "cover" /\ at' = "cover" /\ card' = card
  BY DEF GoalCovered
<1>3. /\ Len(tasks') = Len(tasks) + 1 /\ DOMAIN tasks \subseteq DOMAIN tasks'
      /\ \A i \in DOMAIN tasks : tasks'[i] = tasks[i]
      /\ Len(tasks) + 1 \in DOMAIN tasks'
      /\ tasks'[Len(tasks) + 1].goal = card.goals[k].id
  BY <1>1, Counts
<1>4. k \in Unserved /\ k \notin Unserved' /\ Unserved' \subseteq Unserved
  BY <1>1, <1>2, <1>3 DEF Unserved, Served
<1>5. /\ IsFiniteSet(Unserved \ {k})
      /\ Cardinality(Unserved \ {k}) = Cardinality(Unserved) - 1
  BY <1>4, Counts, FS_RemoveElement
<1>6. IsFiniteSet(Unserved') /\ Cardinality(Unserved') <= Cardinality(Unserved) - 1
  <2>1. Unserved' \in SUBSET (Unserved \ {k})
    BY <1>4
  <2> QED BY <1>5, <2>1, FS_Subset
<1>7. Cardinality(Unserved') \in Nat
  BY <1>6, FS_CardinalityType
<1>8. Len(tasks') + Cardinality(Unserved') < Limit + Len(card.goals)
  BY <1>2, <1>3, <1>6, <1>7, Counts, BoundsAssumption DEF CountInv
<1>9. Len(tasks') < Limit + Len(card.goals)
  BY <1>3, <1>7, <1>8, Counts, BoundsAssumption
<1> QED BY <1>2, <1>8, <1>9 DEF CountInv, PlanIsBounded

\* Every step keeps the count.
LEMMA NextCount == IInv /\ CountInv /\ [Next]_vars => CountInv'
<1> SUFFICES ASSUME IInv, CountInv, [Next]_vars PROVE CountInv'
  OBVIOUS
<1>1. CASE Drafts
  BY <1>1, DraftCount
<1>2. CASE Answer
  BY <1>2, ItemCount
<1>3. CASE AnswerEnds
  BY <1>3, EndCount
<1>4. CASE GoalCovered
  BY <1>4, CoverCount
<1>5. CASE PlanStored \/ TaskCreated \/ SpecRefused \/ SetUp \/ Abort \/ UNCHANGED vars
  BY <1>5, QuietCount
     DEF PlanStored, TaskCreated, SpecRefused, SetUp, Abort, Planned, planning, vars
<1>6. CASE Resume
  <2>1. CASE PlanAgain
    <3>1. tasks' = <<>> /\ at' = "plan" /\ Len(tasks') = 0 /\ Limit \in Nat
      BY <2>1, BoundsAssumption DEF PlanAgain
    <3> QED BY <3>1 DEF CountInv, PlanIsBounded
  <2>2. CASE ~PlanAgain
    BY <1>6, <2>2, QuietCount DEF Resume, planning
  <2> QED BY <2>1, <2>2
<1> QED BY <1>1, <1>2, <1>3, <1>4, <1>5, <1>6 DEF Next, SettingUp

\* A plan is longer than the cap only by fallback tasks, fewer than there are goals.
THEOREM PlansAreBounded == Spec => []PlanIsBounded
<1>1. Init => CountInv
  <2> SUFFICES ASSUME Init PROVE CountInv
    OBVIOUS
  <2>1. at = "draft" /\ Len(tasks) = 0 /\ Limit \in Nat
    BY BoundsAssumption DEF Init
  <2> QED BY <2>1 DEF CountInv, PlanIsBounded
<1>2. CountInv => PlanIsBounded
  BY DEF CountInv
<1> QED BY <1>1, <1>2, NextCount, Invariance, PTL DEF Spec

=============================================================================
