---------------------- MODULE ExecutionScheduleProofs ----------------------
(***************************************************************************)
(* The list scheduler of the estimator schedules every finite execution it *)
(* accepts, under either policy: behind the dependencies, no two           *)
(* operations on a resource at once and none later than need be; it gives  *)
(* up exactly on cycles.                                                   *)
(*                                                                         *)
(* First finite sets and the gap that a resource leaves, then the heap and *)
(* the intervals given out.                                                *)
(***************************************************************************)
EXTENDS ExecutionSchedule, FiniteSetTheorems, WellFoundedInduction, TLAPS

-----------------------------------------------------------------------------
(* Least and greatest numbers. *)

\* A set of natural numbers has a least member.
LEMMA LeastNumber ==
  ASSUME NEW T, T \subseteq Nat, T # {}
  PROVE  \E m \in T : \A n \in T : m <= n
<1> DEFINE R == OpToRel(<, Nat)
<1>1. \E m \in T : \A n \in T : ~(<<n, m>> \in R)
  <2>1. IsWellFoundedOn(R, Nat)
    BY NatLessThanWellFounded
  <2> HIDE DEF R
  <2> QED BY <2>1, WFMin
<1>2. PICK m \in T : \A n \in T : ~(<<n, m>> \in R)
  BY <1>1
<1>3. \A n \in T : ~(n < m)
  BY <1>2 DEF OpToRel
<1> HIDE DEF R
<1>4. \A n \in T : m <= n
  BY <1>3
<1> QED BY <1>4

\* A finite one has a greatest.
LEMMA GreatestNumber ==
  ASSUME NEW S, S \subseteq Nat, IsFiniteSet(S), S # {}
  PROVE  Max(S) \in S /\ \A y \in S : y <= Max(S)
<1> DEFINE Topped(T) == \E x \in T : \A y \in T : y <= x
           Bad == {T \in SUBSET S : T # {} /\ ~Topped(T)}
           Sizes == {Cardinality(T) : T \in Bad}
<1>1. Bad = {}
  <2> SUFFICES ASSUME Bad # {} PROVE FALSE
    OBVIOUS
  <2>1. Sizes \subseteq Nat /\ Sizes # {}
    <3>1. \A T \in Bad : IsFiniteSet(T)
      BY FS_Subset
    <3> HIDE DEF Topped
    <3> QED BY <3>1, FS_CardinalityType
  <2>2. PICK n \in Sizes : \A m \in Sizes : n <= m
    <3> HIDE DEF Sizes
    <3> QED BY <2>1, LeastNumber
  <2>3. PICK T \in Bad : n = Cardinality(T)
    OBVIOUS
  <2>4. PICK x \in T : TRUE
    OBVIOUS
  <2>5. IsFiniteSet(T) /\ n \in Nat
    BY <2>1, <2>3, FS_Subset
  <2>6. IsFiniteSet(T \ {x}) /\ Cardinality(T \ {x}) = n - 1
    BY <2>3, <2>4, <2>5, FS_RemoveElement
  <2>7. Cardinality(T \ {x}) \notin Sizes
    BY <2>2, <2>5, <2>6
  <2>8. T \ {x} = {} \/ Topped(T \ {x})
    <3>1. T \ {x} \notin Bad
      BY <2>7
    <3> QED BY <3>1
  <2>9. ~Topped(T) /\ T \subseteq Nat
    OBVIOUS
  <2>10. CASE T \ {x} = {}
    <3>1. T = {x}
      BY <2>4, <2>10
    <3> QED BY <2>4, <2>9, <3>1
  <2>11. CASE Topped(T \ {x})
    <3>1. PICK y \in T \ {x} : \A z \in T \ {x} : z <= y
      BY <2>11
    <3>2. CASE x <= y
      BY <2>9, <3>1, <3>2
    <3>3. CASE ~(x <= y)
      <4>1. \A z \in T : z <= x
        BY <2>4, <2>9, <3>1, <3>3
      <4> QED BY <2>4, <2>9, <4>1
    <3> QED BY <3>2, <3>3
  <2> QED BY <2>8, <2>10, <2>11
<1>2. \E x \in S : \A y \in S : x >= y
  <2>1. Topped(S)
    BY <1>1
  <2> QED BY <2>1
<1>3. Max(S) \in S /\ \A y \in S : Max(S) >= y
  BY <1>2 DEF Max
<1> QED BY <1>3

\* The values of a function on a finite set are finitely many.
LEMMA FiniteImage ==
  ASSUME NEW S, IsFiniteSet(S), NEW f
  PROVE  IsFiniteSet({f[x] : x \in S})
<1> DEFINE T == {f[x] : x \in S}
           g == [x \in S |-> f[x]]
<1>1. g \in [S -> T] /\ \A y \in T : \E x \in S : g[x] = y
  OBVIOUS
<1> HIDE DEF g, T
<1>2. g \in Surjection(S, T)
  BY <1>1 DEF Surjection
<1>3. IsFiniteSet(T)
  BY <1>2, FS_Surjection
<1> QED BY <1>3 DEF T

-----------------------------------------------------------------------------
(* The gaps of the calendars. *)

\* Intervals given to operations of the execution.
IsGiven(given) ==
  /\ DOMAIN given \subseteq Indices
  /\ \A i \in DOMAIN given : /\ given[i].start \in Nat /\ given[i].end \in Nat
                             /\ given[i].end = given[i].start + Op(i).duration

LEMMA OpFacts ==
  ASSUME IsExecution(execution)
  PROVE  /\ Len(execution.ops) \in Nat /\ Indices = 1 .. Len(execution.ops) /\ IsFiniteSet(Indices)
         /\ Indices \subseteq Nat
         /\ \A i \in Indices : IsOperation(Op(i), Len(execution.ops)) /\ Op(i).deps \subseteq Indices
<1>1. Len(execution.ops) \in Nat /\ Indices = 1 .. Len(execution.ops)
  BY DEF IsExecution, Indices
<1>2. IsFiniteSet(1 .. Len(execution.ops))
  BY <1>1, FS_Interval
<1> QED BY <1>1, <1>2 DEF IsExecution, Op, IsOperation

\* An interval of a resource is in the way of one from t on.
Takes(given, e, t, duration) == given[e].end > t /\ given[e].start < t + duration

\* Some resource is taken.
Clash(given, resources, t, duration) ==
  \E e \in DOMAIN given : Op(e).resources \cap resources # {} /\ Takes(given, e, t, duration)

LEMMA ObstacleFacts ==
  ASSUME IsExecution(execution), NEW given, IsGiven(given),
         NEW r, NEW t \in Nat, NEW duration \in Nat
  PROVE  LET o == Obstacle(given, r, t, duration) IN
         /\ o \in Nat /\ o >= t
         /\ \A e \in DOMAIN given : r \in Op(e).resources /\ Takes(given, e, t, duration) => o # t
         /\ o # t => \E e \in DOMAIN given : /\ r \in Op(e).resources /\ given[e].start < t + duration
                                             /\ given[e].end = o /\ o > t
<1> DEFINE open == {e \in DOMAIN given : r \in Op(e).resources /\ given[e].end > t}
           first == CHOOSE e \in open : \A other \in open : given[e].start <= given[other].start
           o == Obstacle(given, r, t, duration)
<1>1. o = IF open # {} /\ given[first].start < t + duration THEN given[first].end ELSE t
  BY DEF Obstacle
<1>2. ASSUME open # {}
      PROVE  first \in open /\ \A other \in open : given[first].start <= given[other].start
  <2> DEFINE starts == {given[e].start : e \in open}
  <2>1. starts \subseteq Nat /\ starts # {}
    BY <1>2 DEF IsGiven
  <2>2. PICK m \in starts : \A n \in starts : m <= n
    <3> HIDE DEF starts
    <3> QED BY <2>1, LeastNumber
  <2>3. \E e \in open : \A other \in open : given[e].start <= given[other].start
    BY <2>2
  <2> HIDE DEF open
  <2> QED BY <2>3
<1>3. \A e \in DOMAIN given : given[e].start \in Nat /\ given[e].end \in Nat
  BY DEF IsGiven
<1>4. \A e \in open : e \in DOMAIN given /\ r \in Op(e).resources /\ given[e].end > t
  OBVIOUS
<1>5. \A e \in DOMAIN given : r \in Op(e).resources /\ given[e].end > t => e \in open
  OBVIOUS
<1> HIDE DEF first, open, o
<1>6. o \in Nat /\ o >= t
  BY <1>1, <1>2, <1>3, <1>4
<1>7. ASSUME o # t
      PROVE  \E e \in DOMAIN given : /\ r \in Op(e).resources /\ given[e].start < t + duration
                                     /\ given[e].end = o /\ o > t
  BY <1>1, <1>2, <1>4, <1>7
<1>8. ASSUME NEW e \in DOMAIN given, r \in Op(e).resources, Takes(given, e, t, duration)
      PROVE  o # t
  <2>1. e \in open
    BY <1>5, <1>8 DEF Takes
  <2>2. given[first].start < t + duration
    BY <1>2, <1>3, <1>4, <1>8, <2>1 DEF Takes
  <2> QED BY <1>1, <1>2, <1>3, <1>4, <2>1, <2>2
<1> QED BY <1>6, <1>7, <1>8 DEF o

\* Where one pass over the resources moves the start to.
Moved(given, resources, t, duration) ==
  Max({t} \cup {Obstacle(given, r, t, duration) : r \in resources})

LEMMA MovedFacts ==
  ASSUME IsExecution(execution), NEW given, IsGiven(given),
         NEW resources, IsFiniteSet(resources), NEW t \in Nat, NEW duration \in Nat
  PROVE  LET m == Moved(given, resources, t, duration) IN
         /\ m \in Nat /\ m >= t
         /\ m = t <=> ~Clash(given, resources, t, duration)
         /\ \A u \in Nat : t <= u /\ u < m => Clash(given, resources, u, duration)
<1> DEFINE O(r) == Obstacle(given, r, t, duration)
           obstacles == {O(r) : r \in resources}
           all == {t} \cup obstacles
           m == Moved(given, resources, t, duration)
<1>1. \A r \in resources : O(r) \in Nat /\ O(r) >= t
  BY ObstacleFacts
<1>2. all \subseteq Nat /\ all # {}
  <2> HIDE DEF O
  <2> QED BY <1>1
<1>3. IsFiniteSet(all)
  <2>1. IsFiniteSet(obstacles)
    <3> DEFINE at == [r \in resources |-> O(r)]
    <3>1. IsFiniteSet({at[r] : r \in resources})
      <4> HIDE DEF at
      <4> QED BY FiniteImage
    <3>2. obstacles = {at[r] : r \in resources}
      OBVIOUS
    <3> QED BY <3>1, <3>2
  <2> HIDE DEF obstacles
  <2> QED BY <2>1, FS_AddElement
<1>4. m \in all /\ \A y \in all : y <= m
  <2>1. m = Max(all)
    BY DEF Moved
  <2> HIDE DEF all, m
  <2> QED BY <1>2, <1>3, <2>1, GreatestNumber
<1>5. t \in all /\ \A r \in resources : O(r) \in all
  OBVIOUS
<1>6. m = t \/ \E r \in resources : m = O(r)
  <2> HIDE DEF m, O
  <2> QED BY <1>4
<1>7. m \in Nat /\ m >= t
  <2> HIDE DEF m, all
  <2> QED BY <1>2, <1>4, <1>5
<1> HIDE DEF m, all, obstacles
<1>8. ASSUME m # t
      PROVE  \A u \in Nat : t <= u /\ u < m => Clash(given, resources, u, duration)
  <2>1. PICK r \in resources : m = O(r) /\ O(r) # t
    BY <1>6, <1>8
  <2>2. PICK e \in DOMAIN given : /\ r \in Op(e).resources /\ given[e].start < t + duration
                                  /\ given[e].end = O(r)
    BY <2>1, ObstacleFacts
  <2> HIDE DEF O
  <2>3. given[e].start \in Nat
    BY DEF IsGiven
  <2>4. TAKE u \in Nat
  <2>5. HAVE t <= u /\ u < m
  <2>6. Takes(given, e, u, duration)
    BY <1>7, <2>1, <2>2, <2>3, <2>5 DEF Takes
  <2>7. Op(e).resources \cap resources # {}
    BY <2>1, <2>2
  <2> QED BY <2>6, <2>7 DEF Clash
<1>9. ASSUME Clash(given, resources, t, duration)
      PROVE  m # t
  <2>1. PICK e \in DOMAIN given : Op(e).resources \cap resources # {} /\ Takes(given, e, t, duration)
    BY <1>9 DEF Clash
  <2>2. PICK r \in resources : r \in Op(e).resources
    BY <2>1
  <2>3. O(r) # t
    BY <2>1, <2>2, ObstacleFacts
  <2> HIDE DEF O
  <2> QED BY <1>1, <1>2, <1>4, <1>5, <1>7, <2>3
<1>10. m # t => Clash(given, resources, t, duration)
  BY <1>7, <1>8
<1>11. \A u \in Nat : t <= u /\ u < m => Clash(given, resources, u, duration)
  BY <1>7, <1>8
<1> QED BY <1>7, <1>9, <1>10, <1>11 DEF m

\* u is the first time from t on at which the resources are free for long enough.
IsGap(given, resources, t, duration, u) ==
  /\ u \in Nat /\ t <= u
  /\ ~Clash(given, resources, u, duration)
  /\ \A v \in Nat : t <= v /\ v < u => Clash(given, resources, v, duration)

LEMMA Horizon ==
  ASSUME IsExecution(execution), NEW given, IsGiven(given)
  PROVE  \E h \in Nat : \A t \in Nat : h <= t =>
           \A resources : \A duration \in Nat : ~Clash(given, resources, t, duration)
<1> DEFINE ends == {given[e].end : e \in DOMAIN given}
           all == {0} \cup ends
<1>1. ends \subseteq Nat
  BY DEF IsGiven
<1>2. IsFiniteSet(DOMAIN given)
  BY OpFacts, FS_Subset DEF IsGiven
<1>3. IsFiniteSet(ends)
  <2> DEFINE end == [e \in DOMAIN given |-> given[e].end]
  <2>1. ends = {end[e] : e \in DOMAIN given}
    OBVIOUS
  <2> HIDE DEF end, ends
  <2> QED BY <1>2, <2>1, FiniteImage
<1>4. \A e \in DOMAIN given : given[e].end \in all
  OBVIOUS
<1> HIDE DEF ends
<1>5. all \subseteq Nat /\ all # {} /\ IsFiniteSet(all)
  BY <1>1, <1>3, FS_AddElement
<1> HIDE DEF all
<1>6. Max(all) \in Nat /\ \A e \in DOMAIN given : given[e].end <= Max(all)
  BY <1>4, <1>5, GreatestNumber
<1>7. ASSUME NEW t \in Nat, Max(all) <= t, NEW resources, NEW duration \in Nat
      PROVE  ~Clash(given, resources, t, duration)
  BY <1>6, <1>7 DEF Clash, Takes, IsGiven
<1> QED BY <1>6, <1>7

LEMMA GapIs ==
  ASSUME IsExecution(execution), NEW given, IsGiven(given),
         NEW resources, NEW t \in Nat, NEW duration \in Nat
  PROVE  \E u \in Nat : IsGap(given, resources, t, duration, u)
<1> DEFINE Free == {u \in Nat : t <= u /\ ~Clash(given, resources, u, duration)}
<1>1. PICK h \in Nat : \A u \in Nat : h <= u => ~Clash(given, resources, u, duration)
  BY Horizon
<1>2. h + t \in Free
  <2>1. h + t \in Nat /\ h <= h + t /\ t <= h + t
    OBVIOUS
  <2> QED BY <1>1, <2>1
<1>3. PICK u \in Free : \A v \in Free : u <= v
  <2>1. Free \subseteq Nat /\ Free # {}
    BY <1>2
  <2> HIDE DEF Free
  <2> QED BY <2>1, LeastNumber
<1>4. \A v \in Nat : t <= v /\ v < u => Clash(given, resources, v, duration)
  BY <1>3
<1> QED BY <1>3, <1>4 DEF IsGap

LEMMA OneGap ==
  ASSUME NEW given, NEW resources, NEW t \in Nat, NEW duration,
         NEW u, IsGap(given, resources, t, duration, u),
         NEW v, IsGap(given, resources, t, duration, v)
  PROVE  u = v
BY DEF IsGap

\* What FirstGap recurses on.
Gaps(given, resources, duration, f) ==
  f = [t \in Nat |-> IF Moved(given, resources, t, duration) = t THEN t
                     ELSE f[Moved(given, resources, t, duration)]]

LEMMA FirstGapDef ==
  ASSUME NEW given, NEW resources, NEW t, NEW duration
  PROVE  FirstGap(given, resources, t, duration) = (CHOOSE f : Gaps(given, resources, duration, f))[t]
BY DEF FirstGap, Gaps, Moved

\* When a pass moves the start, the gap is the one from there.
LEMMA GapMoves ==
  ASSUME IsExecution(execution), NEW given, IsGiven(given),
         NEW resources, IsFiniteSet(resources), NEW t \in Nat, NEW duration \in Nat,
         NEW m, m = Moved(given, resources, t, duration)
  PROVE  /\ m \in Nat /\ t <= m
         /\ m = t => IsGap(given, resources, t, duration, t)
         /\ \A u : IsGap(given, resources, m, duration, u) => IsGap(given, resources, t, duration, u)
<1>1. /\ m \in Nat /\ m >= t
      /\ m = t <=> ~Clash(given, resources, t, duration)
      /\ \A u \in Nat : t <= u /\ u < m => Clash(given, resources, u, duration)
  BY MovedFacts
<1>2. m = t => IsGap(given, resources, t, duration, t)
  BY <1>1 DEF IsGap
<1>3. ASSUME NEW u, IsGap(given, resources, m, duration, u)
      PROVE  IsGap(given, resources, t, duration, u)
  <2>1. u \in Nat /\ m <= u /\ ~Clash(given, resources, u, duration)
    BY <1>3 DEF IsGap
  <2>2. \A v \in Nat : t <= v /\ v < u => Clash(given, resources, v, duration)
    <3> SUFFICES ASSUME NEW v \in Nat, t <= v, v < u PROVE Clash(given, resources, v, duration)
      OBVIOUS
    <3>1. v < m \/ m <= v
      BY <1>1
    <3> QED BY <1>1, <1>3, <3>1 DEF IsGap
  <2>3. t <= u
    BY <1>1, <2>1
  <2> QED BY <2>1, <2>2, <2>3 DEF IsGap
<1> QED BY <1>1, <1>2, <1>3

LEMMA GapsExist ==
  ASSUME IsExecution(execution), NEW given, IsGiven(given),
         NEW resources, IsFiniteSet(resources), NEW duration \in Nat
  PROVE  \E f : Gaps(given, resources, duration, f)
<1> DEFINE Gap(t) == CHOOSE u : IsGap(given, resources, t, duration, u)
           M(t) == Moved(given, resources, t, duration)
           f == [t \in Nat |-> Gap(t)]
<1>1. \A t \in Nat : IsGap(given, resources, t, duration, Gap(t))
  BY GapIs
<1>2. ASSUME NEW t \in Nat
      PROVE  /\ M(t) \in Nat
             /\ Gap(t) = IF M(t) = t THEN t ELSE Gap(M(t))
  <2>1. /\ M(t) \in Nat
        /\ M(t) = t => IsGap(given, resources, t, duration, t)
        /\ \A u : IsGap(given, resources, M(t), duration, u) => IsGap(given, resources, t, duration, u)
    BY GapMoves
  <2> HIDE DEF Gap, M
  <2>2. CASE M(t) = t
    BY <1>1, <2>1, <2>2, OneGap
  <2>3. CASE M(t) # t
    <3>1. IsGap(given, resources, t, duration, Gap(M(t)))
      BY <1>1, <2>1
    <3>2. Gap(t) = Gap(M(t))
      BY <1>1, <3>1, OneGap
    <3> QED BY <2>1, <2>3, <3>2
  <2> QED BY <2>2, <2>3
<1> HIDE DEF Gap
<1>3. f = [t \in Nat |-> IF M(t) = t THEN t ELSE f[M(t)]]
  <2> HIDE DEF M
  <2> QED BY <1>2
<1> HIDE DEF f
<1> QED BY <1>3 DEF Gaps

LEMMA FirstGapFacts ==
  ASSUME IsExecution(execution), NEW given, IsGiven(given),
         NEW resources, IsFiniteSet(resources), NEW earliest \in Nat, NEW duration \in Nat
  PROVE  IsGap(given, resources, earliest, duration, FirstGap(given, resources, earliest, duration))
<1> DEFINE f == CHOOSE g : Gaps(given, resources, duration, g)
           M(t) == Moved(given, resources, t, duration)
           Good(t) == IsGap(given, resources, t, duration, f[t])
           Bad == {t \in Nat : ~Good(t)}
<1>1. FirstGap(given, resources, earliest, duration) = f[earliest]
  BY FirstGapDef
<1>2. Gaps(given, resources, duration, f)
  BY GapsExist
<1> HIDE DEF f
<1>3. \A t \in Nat : f[t] = IF M(t) = t THEN t ELSE f[M(t)]
  BY <1>2 DEF Gaps
<1>4. PICK h \in Nat : \A t \in Nat : h <= t => ~Clash(given, resources, t, duration)
  BY Horizon
<1>5. \A t \in Nat : /\ M(t) \in Nat /\ t <= M(t)
                     /\ M(t) = t => IsGap(given, resources, t, duration, t)
                     /\ \A u : IsGap(given, resources, M(t), duration, u) =>
                                 IsGap(given, resources, t, duration, u)
  BY GapMoves
<1>6. \A t \in Nat : M(t) = t <=> ~Clash(given, resources, t, duration)
  BY MovedFacts
<1> HIDE DEF M
<1>7. \A t \in Nat : M(t) = t => Good(t)
  BY <1>3, <1>5
<1>8. \A t \in Nat : M(t) # t /\ Good(M(t)) => Good(t)
  BY <1>3, <1>5
<1> HIDE DEF Good
<1>9. \A t \in Bad : t \in Nat /\ t < h
  BY <1>4, <1>6, <1>7
<1> DEFINE Distances == {h - t : t \in Bad}
<1>10. Bad = {}
  <2> SUFFICES ASSUME Bad # {} PROVE FALSE
    OBVIOUS
  <2>1. Distances \subseteq Nat /\ Distances # {}
    BY <1>9
  <2>2. PICK d \in Distances : \A e \in Distances : d <= e
    <3> HIDE DEF Distances
    <3> QED BY <2>1, LeastNumber
  <2>3. PICK t \in Bad : d = h - t
    OBVIOUS
  <2>4. t \in Nat /\ M(t) \in Nat /\ t < M(t) /\ ~Good(M(t))
    BY <1>5, <1>7, <1>8
  <2>5. h - M(t) \in Distances
    BY <2>4
  <2>6. h - t <= h - M(t)
    BY <2>2, <2>3, <2>5
  <2> QED BY <2>4, <2>6
<1>11. Good(earliest)
  BY <1>10
<1> QED BY <1>1, <1>11 DEF Good

\* When an operation could start.
LEMMA EarliestFacts ==
  ASSUME IsExecution(execution), NEW given, IsGiven(given),
         NEW i \in Indices, Op(i).deps \subseteq DOMAIN given
  PROVE  /\ Earliest(given, i) \in Nat
         /\ \A d \in Op(i).deps : given[d].end <= Earliest(given, i)
<1> DEFINE ends == Ends(given, Op(i).deps)
           all == {0} \cup ends
<1>1. IsFiniteSet(Op(i).deps)
  BY OpFacts, FS_Subset
<1>2. ends \subseteq Nat /\ \A d \in Op(i).deps : given[d].end \in ends
  BY DEF Ends, IsGiven
<1>3. IsFiniteSet(ends)
  <2> DEFINE end == [d \in Op(i).deps |-> given[d].end]
  <2>1. ends = {end[d] : d \in Op(i).deps}
    BY DEF Ends
  <2> HIDE DEF end, ends
  <2> QED BY <1>1, <2>1, FiniteImage
<1> HIDE DEF ends
<1>4. all \subseteq Nat /\ all # {} /\ IsFiniteSet(all) /\ ends \subseteq all
  BY <1>2, <1>3, FS_AddElement
<1>5. Earliest(given, i) = Max(all)
  BY DEF Earliest, ends
<1> HIDE DEF all
<1> QED BY <1>2, <1>4, <1>5, GreatestNumber

LEMMA StartFacts ==
  ASSUME IsExecution(execution), NEW given, IsGiven(given),
         NEW i \in Indices, Op(i).deps \subseteq DOMAIN given
  PROVE  /\ StartOf(given, i) \in Nat /\ Earliest(given, i) \in Nat
         /\ Earliest(given, i) <= StartOf(given, i)
         /\ IsGap(given, Op(i).resources, Earliest(given, i), Op(i).duration, StartOf(given, i))
<1>1. Op(i).duration \in Nat /\ IsFiniteSet(Op(i).resources) /\ Earliest(given, i) \in Nat
  BY OpFacts, EarliestFacts DEF IsOperation
<1>2. IsGap(given, Op(i).resources, Earliest(given, i), Op(i).duration, StartOf(given, i))
  BY <1>1, FirstGapFacts DEF StartOf
<1> QED BY <1>1, <1>2 DEF IsGap

\* Intervals that are given later only delay an operation.
LEMMA MoreGiven ==
  ASSUME IsExecution(execution), NEW given, IsGiven(given), NEW more, IsGiven(more),
         DOMAIN given \subseteq DOMAIN more, \A e \in DOMAIN given : more[e] = given[e],
         NEW i \in Indices, Op(i).deps \subseteq DOMAIN given
  PROVE  Earliest(more, i) = Earliest(given, i) /\ StartOf(given, i) <= StartOf(more, i)
<1>1. Ends(more, Op(i).deps) = Ends(given, Op(i).deps)
  BY DEF Ends
<1>2. Earliest(more, i) = Earliest(given, i)
  BY <1>1 DEF Earliest
<1>3. \A t : Clash(given, Op(i).resources, t, Op(i).duration) =>
               Clash(more, Op(i).resources, t, Op(i).duration)
  BY DEF Clash, Takes
<1> DEFINE u == StartOf(given, i)
           v == StartOf(more, i)
           early == Earliest(given, i)
<1>4. u \in Nat /\ IsGap(given, Op(i).resources, early, Op(i).duration, u)
  BY StartFacts
<1>5. v \in Nat /\ IsGap(more, Op(i).resources, early, Op(i).duration, v)
  BY <1>2, StartFacts
<1> HIDE DEF u, v, early
<1>6. u <= v
  BY <1>3, <1>4, <1>5 DEF IsGap
<1> QED BY <1>2, <1>6 DEF u, v

-----------------------------------------------------------------------------
(* The heap. *)

LEMMA BeforeOrder ==
  ASSUME NEW a \in Nat \X Nat, NEW b \in Nat \X Nat
  PROVE  /\ a # b => Before(a, b) \/ Before(b, a)
         /\ \A c \in Nat \X Nat : Before(a, b) /\ (b = c \/ Before(b, c)) => Before(a, c)
         /\ ~(Before(a, b) /\ Before(b, a)) /\ ~Before(a, a)
<1>1. a = <<a[1], a[2]>> /\ b = <<b[1], b[2]>> /\ a[1] \in Nat /\ a[2] \in Nat /\ b[1] \in Nat /\ b[2] \in Nat
  OBVIOUS
<1>2. a # b => Before(a, b) \/ Before(b, a)
  BY <1>1 DEF Before
<1>3. ASSUME NEW c \in Nat \X Nat, Before(a, b), Before(b, c)
      PROVE  Before(a, c)
  BY <1>1, <1>3 DEF Before
<1>4. ~(Before(a, b) /\ Before(b, a)) /\ ~Before(a, a)
  BY <1>1 DEF Before
<1> QED BY <1>2, <1>3, <1>4

LEMMA TopFacts ==
  ASSUME NEW heap, heap \subseteq Nat \X Nat, heap # {}
  PROVE  Top(heap) \in heap /\ \A other \in heap \ {Top(heap)} : Before(Top(heap), other)
<1> DEFINE keys == {e[1] : e \in heap}
<1>1. keys \subseteq Nat /\ keys # {}
  OBVIOUS
<1>2. PICK key \in keys : \A k \in keys : key <= k
  <2> HIDE DEF keys
  <2> QED BY <1>1, LeastNumber
<1> DEFINE indices == {e[2] : e \in {f \in heap : f[1] = key}}
<1>3. indices \subseteq Nat /\ indices # {}
  OBVIOUS
<1>4. PICK index \in indices : \A k \in indices : index <= k
  <2> HIDE DEF indices
  <2> QED BY <1>3, LeastNumber
<1>5. PICK e \in heap : e[1] = key /\ e[2] = index
  OBVIOUS
<1>6. \A f \in heap : key <= f[1] /\ (f[1] = key => index <= f[2])
  BY <1>2, <1>4
<1>7. \A other \in heap \ {e} : Before(e, other)
  <2> TAKE other \in heap \ {e}
  <2>1. /\ e = <<e[1], e[2]>> /\ other = <<other[1], other[2]>>
        /\ e[1] \in Nat /\ e[2] \in Nat /\ other[1] \in Nat /\ other[2] \in Nat
    OBVIOUS
  <2>2. e[1] <= other[1] /\ (other[1] = e[1] => e[2] <= other[2])
    BY <1>5, <1>6
  <2>3. e[1] # other[1] \/ e[2] # other[2]
    BY <2>1
  <2> QED BY <2>1, <2>2, <2>3 DEF Before
<1>8. \E f \in heap : \A other \in heap \ {f} : Before(f, other)
  BY <1>5, <1>7
<1> QED BY <1>8 DEF Top

\* An entry that is not stale is before every other entry, with its start for
\* its key.
LEMMA FreshIsFirst ==
  ASSUME Chronological, ready \subseteq Nat \X Nat, NEW entry \in ready, NEW start \in Nat,
         ~Stale(entry, start), NEW other \in ready, other # entry, other[2] # entry[2]
  PROVE  Before(<<start, entry[2]>>, other)
<1> DEFINE rest == ready \ {entry}
           e == <<start, entry[2]>>
           top == Top(rest)
<1>1. rest # {} /\ other \in rest /\ rest \subseteq Nat \X Nat
  OBVIOUS
<1>2. ~Before(top, e)
  BY <1>1 DEF Stale
<1> HIDE DEF rest
<1>3. top \in rest /\ \A f \in rest \ {top} : Before(top, f)
  BY <1>1, TopFacts
<1> HIDE DEF top
<1>4. e \in Nat \X Nat /\ top \in Nat \X Nat /\ other \in Nat \X Nat
  BY <1>1, <1>3
<1>5. CASE top = e
  <2>1. other = top \/ Before(top, other)
    BY <1>1, <1>3
  <2>2. other # e
    OBVIOUS
  <2> QED BY <1>5, <2>1, <2>2
<1>6. CASE top # e
  <2> HIDE DEF e
  <2>1. Before(e, top)
    BY <1>2, <1>4, <1>6, BeforeOrder
  <2>2. top = other \/ Before(top, other)
    BY <1>1, <1>3
  <2>3. Before(e, other)
    BY <1>4, <2>1, <2>2, BeforeOrder
  <2> QED BY <2>3 DEF e
<1> QED BY <1>5, <1>6

-----------------------------------------------------------------------------
(* The intervals given out. *)

\* The dependencies of a dispatched operation are dispatched, and end before it
\* starts.
Behind(given) ==
  \A i \in DOMAIN given : Op(i).deps \subseteq DOMAIN given /\ Earliest(given, i) <= given[i].start

Apart(given) ==
  \A i, j \in DOMAIN given : i # j /\ Exclusive(i, j) => ~Overlap(given[i], given[j])

\* At any time from `early` on before i starts, another operation is in its way.
Delayed(given, i, early) ==
  \A t \in Nat : early <= t /\ t < given[i].start =>
    \E j \in DOMAIN given \ {i} : Exclusive(i, j) /\ Takes(given, j, t, Op(i).duration)

Prompt(given) == \A i \in DOMAIN given : Delayed(given, i, Earliest(given, i))

\* No dispatched operations depend on each other in a circle.
Acyclic(done) == \A S \in SUBSET done : S # {} => \E i \in S : Op(i).deps \cap S = {}

GivenOK(given) == IsGiven(given) /\ Behind(given) /\ Apart(given) /\ Prompt(given) /\ Acyclic(DOMAIN given)

\* The heap has one entry for each operation that can run.
ReadyExact ==
  /\ ready \subseteq Nat \X Indices
  /\ \A e \in ready : e[2] \in Runnable(events)
  /\ \A e, f \in ready : e[2] = f[2] => e = f
  /\ \A k \in Runnable(events) : \E e \in ready : e[2] = k

\* Under earliest_ready a key is a lower bound of the start, and nothing that
\* can run could have started before what was dispatched.
KeysBound ==
  Chronological =>
    /\ \A e \in ready : e[1] <= StartOf(events, e[2])
    /\ \A j \in DOMAIN events : \A k \in Runnable(events) : events[j].start <= StartOf(events, k)

SInv ==
  /\ outcome \in {"none", "scheduling", "scheduled", "cyclic"}
  /\ outcome = "none" => events = <<>>
  /\ outcome # "none" => IsExecution(execution) /\ GivenOK(events) /\ ReadyExact /\ KeysBound
  /\ outcome = "scheduled" => DOMAIN events = Indices
  /\ outcome = "cyclic" => ready = {} /\ DOMAIN events # Indices

\* The intervals when i is dispatched.
Dispatched(given, i) ==
  [j \in DOMAIN given \cup {i} |->
     IF j = i THEN [start |-> StartOf(given, i), end |-> StartOf(given, i) + Op(i).duration]
     ELSE given[j]]

LEMMA DispatchedFacts ==
  ASSUME IsExecution(execution), NEW given, GivenOK(given), NEW i \in Runnable(given),
         NEW more, more = Dispatched(given, i)
  PROVE  /\ i \in Indices \ DOMAIN given /\ Op(i).deps \subseteq DOMAIN given
         /\ StartOf(given, i) \in Nat
         /\ DOMAIN more = DOMAIN given \cup {i}
         /\ more[i].start = StartOf(given, i) /\ more[i].end = StartOf(given, i) + Op(i).duration
         /\ \A j \in DOMAIN given : j # i /\ more[j] = given[j]
         /\ IsGiven(more)
         /\ \A j \in Indices : Op(j).deps \subseteq DOMAIN given =>
              Earliest(more, j) = Earliest(given, j) /\ StartOf(given, j) <= StartOf(more, j)
<1>1. i \in Indices \ DOMAIN given /\ Op(i).deps \subseteq DOMAIN given
  BY DEF Runnable
<1>2. StartOf(given, i) \in Nat /\ Op(i).duration \in Nat
  BY <1>1, StartFacts, OpFacts DEF GivenOK, IsOperation
<1> DEFINE start == StartOf(given, i)
<1> HIDE DEF start
<1>3. /\ DOMAIN more = DOMAIN given \cup {i}
      /\ more[i] = [start |-> start, end |-> start + Op(i).duration]
      /\ \A j \in DOMAIN given : j # i /\ more[j] = given[j]
  BY <1>1 DEF Dispatched, start
<1>4. more[i].start = start /\ more[i].end = start + Op(i).duration
  BY <1>3
<1>5. IsGiven(more)
  BY <1>1, <1>2, <1>3, <1>4 DEF IsGiven, GivenOK, start
<1>6. ASSUME NEW j \in Indices, Op(j).deps \subseteq DOMAIN given
      PROVE  Earliest(more, j) = Earliest(given, j) /\ StartOf(given, j) <= StartOf(more, j)
  <2>1. IsGiven(given) /\ DOMAIN given \subseteq DOMAIN more /\ \A e \in DOMAIN given : more[e] = given[e]
    BY <1>3 DEF GivenOK
  <2> QED BY <1>5, <1>6, <2>1, MoreGiven
<1> QED BY <1>1, <1>2, <1>3, <1>4, <1>5, <1>6 DEF start

\* Giving an operation its first gap keeps all that holds of the intervals.
LEMMA DispatchKeepsGiven ==
  ASSUME IsExecution(execution), NEW given, GivenOK(given), NEW i \in Runnable(given),
         NEW more, more = Dispatched(given, i)
  PROVE  GivenOK(more)
<1> DEFINE start == StartOf(given, i)
<1>a. /\ i \in Indices \ DOMAIN given /\ Op(i).deps \subseteq DOMAIN given
      /\ StartOf(given, i) \in Nat
      /\ DOMAIN more = DOMAIN given \cup {i}
  BY DispatchedFacts, Zenon
<1>b. more[i].start = StartOf(given, i) /\ more[i].end = StartOf(given, i) + Op(i).duration
  BY DispatchedFacts
<1>c. \A j \in DOMAIN given : j # i /\ more[j] = given[j]
  BY <1>a DEF Dispatched
<1>d. IsGiven(more)
  BY DispatchedFacts
<1>1. /\ i \in Indices \ DOMAIN given /\ Op(i).deps \subseteq DOMAIN given
      /\ start \in Nat
      /\ DOMAIN more = DOMAIN given \cup {i}
      /\ more[i].start = start /\ more[i].end = start + Op(i).duration
      /\ \A j \in DOMAIN given : j # i /\ more[j] = given[j]
      /\ IsGiven(more)
  BY <1>a, <1>b, <1>c, <1>d
<1>2. \A j \in Indices : Op(j).deps \subseteq DOMAIN given => Earliest(more, j) = Earliest(given, j)
  BY DispatchedFacts
<1>3. /\ Earliest(given, i) \in Nat /\ Earliest(given, i) <= start
      /\ IsGap(given, Op(i).resources, Earliest(given, i), Op(i).duration, start)
  BY <1>1, StartFacts DEF GivenOK
<1> HIDE DEF start
<1>4. DOMAIN given \subseteq Indices /\ \A j \in DOMAIN given : Op(j).deps \subseteq DOMAIN given
  BY DEF GivenOK, IsGiven, Behind
<1>5. \A j \in DOMAIN more : Op(j).deps \subseteq DOMAIN given /\ Earliest(more, j) = Earliest(given, j)
  BY <1>1, <1>2, <1>4
<1>6. Behind(more)
  BY <1>1, <1>3, <1>5 DEF Behind, GivenOK
<1>7. ASSUME NEW j \in DOMAIN given, Exclusive(i, j)
      PROVE  ~Overlap(more[i], more[j]) /\ ~Overlap(more[j], more[i])
  <2>1. ~Takes(given, j, start, Op(i).duration)
    BY <1>3, <1>7 DEF IsGap, Clash, Exclusive
  <2> QED BY <1>1, <2>1 DEF Takes, Overlap, IsGiven
<1>8. Apart(more)
  <2> SUFFICES ASSUME NEW j \in DOMAIN more, NEW k \in DOMAIN more, j # k, Exclusive(j, k)
               PROVE  ~Overlap(more[j], more[k])
    BY DEF Apart
  <2>1. CASE j = i
    BY <1>1, <1>7, <2>1
  <2>2. CASE k = i
    BY <1>1, <1>7, <2>2 DEF Exclusive
  <2>3. CASE j # i /\ k # i
    BY <1>1, <2>3 DEF Apart, GivenOK
  <2> QED BY <2>1, <2>2, <2>3
<1>9. Prompt(more)
  <2> SUFFICES ASSUME NEW j \in DOMAIN more, NEW t \in Nat, Earliest(more, j) <= t, t < more[j].start
               PROVE  \E k \in DOMAIN more \ {j} : Exclusive(j, k) /\ Takes(more, k, t, Op(j).duration)
    BY DEF Prompt, Delayed
  <2>1. CASE j = i
    <3>1. Clash(given, Op(i).resources, t, Op(i).duration)
      BY <1>1, <1>3, <1>5, <2>1 DEF IsGap
    <3>2. PICK k \in DOMAIN given : Op(k).resources \cap Op(i).resources # {} /\ Takes(given, k, t, Op(i).duration)
      BY <3>1 DEF Clash
    <3>3. Exclusive(i, k) /\ Takes(more, k, t, Op(i).duration) /\ k # i
      BY <1>1, <3>2 DEF Exclusive, Takes
    <3> QED BY <1>1, <2>1, <3>3
  <2>2. CASE j # i
    <3>1. j \in DOMAIN given /\ more[j] = given[j] /\ Earliest(more, j) = Earliest(given, j)
      BY <1>1, <1>5, <2>2
    <3>2. Delayed(given, j, Earliest(given, j))
      BY <3>1 DEF GivenOK, Prompt
    <3>3. PICK k \in DOMAIN given \ {j} : Exclusive(j, k) /\ Takes(given, k, t, Op(j).duration)
      BY <3>1, <3>2 DEF Delayed
    <3>4. Takes(more, k, t, Op(j).duration)
      BY <1>1, <3>3 DEF Takes
    <3> QED BY <1>1, <3>3, <3>4
  <2> QED BY <2>1, <2>2
<1>10. Acyclic(DOMAIN more)
  <2> SUFFICES ASSUME NEW S \in SUBSET DOMAIN more, S # {}
               PROVE  \E j \in S : Op(j).deps \cap S = {}
    BY DEF Acyclic
  <2>1. \A j \in S : i \notin Op(j).deps
    BY <1>1, <1>5
  <2>2. CASE S \ {i} = {}
    BY <2>1, <2>2
  <2>3. CASE S \ {i} # {}
    <3>1. S \ {i} \in SUBSET DOMAIN given
      BY <1>1
    <3>2. PICK j \in S \ {i} : Op(j).deps \cap (S \ {i}) = {}
      BY <2>3, <3>1 DEF Acyclic, GivenOK
    <3> QED BY <2>1, <3>2
  <2> QED BY <2>2, <2>3
<1> QED BY <1>1, <1>6, <1>8, <1>9, <1>10 DEF GivenOK

\* What can run after i was dispatched.
LEMMA RunnableNext ==
  ASSUME IsExecution(execution), NEW given, GivenOK(given), NEW i \in Runnable(given),
         NEW more, more = Dispatched(given, i)
  PROVE  /\ Runnable(more) = (Runnable(given) \ {i}) \cup Released(more, i)
         /\ (Runnable(given) \ {i}) \cap Released(more, i) = {}
         /\ Released(more, i) \subseteq Indices
<1>1. /\ i \in Indices \ DOMAIN given /\ Op(i).deps \subseteq DOMAIN given
      /\ StartOf(given, i) \in Nat
      /\ DOMAIN more = DOMAIN given \cup {i}
  BY DispatchedFacts, Zenon
<1>2. \A j \in DOMAIN given : Op(j).deps \subseteq DOMAIN given
  BY DEF GivenOK, Behind
<1> QED BY <1>1, <1>2 DEF Runnable, Released

-----------------------------------------------------------------------------
(* The steps of the scheduler. *)

\* An execution is given to the scheduler when it has none to schedule.
Begins == outcome # "scheduling" /\ \E x : IsExecution(x) /\ StartSchedule(x)

ScheduleInit ==
  /\ execution = NoExecution
  /\ ready = {}
  /\ events = <<>>
  /\ outcome = "none"

ScheduleSpec == ScheduleInit /\ [][Begins \/ ScheduleNext]_scheduleVars

\* The state when it was.
Started ==
  /\ IsExecution(execution)
  /\ ready = FirstReady(execution)
  /\ events = <<>>
  /\ outcome = "scheduling"

LEMMA StartedIsOK == Started => SInv
<1> SUFFICES ASSUME Started PROVE SInv
  OBVIOUS
<1>1. /\ IsExecution(execution) /\ ready = FirstReady(execution) /\ events = <<>> /\ outcome = "scheduling"
      /\ DOMAIN events = {}
  BY DEF Started
<1>2. GivenOK(events)
  BY <1>1 DEF GivenOK, IsGiven, Behind, Apart, Prompt, Acyclic
<1> DEFINE key(i) == IF execution.policy = "earliest_ready" THEN 0 ELSE i
           first == {j \in Indices : Op(j).deps = {}}
<1>3. Runnable(events) = first
  BY <1>1 DEF Runnable
<1>4. ready = {<<key(i), i>> : i \in first}
  BY <1>1 DEF FirstReady, Indices, Op
<1>5. \A i \in first : key(i) \in Nat /\ i \in Indices
  BY OpFacts, <1>1
<1>6. first \subseteq Indices
  OBVIOUS
<1> HIDE DEF key, first
<1>7. \A e \in ready : \E i \in first : e = <<key(i), i>>
  BY <1>4
<1>8. \A e \in ready : e[2] \in first /\ e = <<key(e[2]), e[2]>> /\ e[1] = key(e[2])
  BY <1>7
<1>9. \A k \in first : <<key(k), k>> \in ready /\ <<key(k), k>>[2] = k
  BY <1>4
<1>10. \A e, f \in ready : e[2] = f[2] => e = f
  BY <1>8, Zenon
<1>11. ready \subseteq Nat \X Indices
  <2> SUFFICES ASSUME NEW e \in ready PROVE e \in Nat \X Indices
    OBVIOUS
  <2>1. PICK i \in first : e = <<key(i), i>>
    BY <1>7
  <2> QED BY <1>5, <2>1
<1>12. ReadyExact
  <2>1. \A e \in ready : e[2] \in first
    BY <1>8
  <2>2. \A k \in first : \E e \in ready : e[2] = k
    BY <1>9
  <2> QED BY <1>3, <1>10, <1>11, <2>1, <2>2 DEF ReadyExact
<1>13. KeysBound
  <2> SUFFICES ASSUME Chronological PROVE KeysBound
    BY DEF KeysBound
  <2>1. \A i \in first : key(i) = 0
    BY DEF Chronological, key
  <2>2. ASSUME NEW e \in ready
        PROVE  e[1] <= StartOf(events, e[2])
    <3>1. e[1] = 0 /\ e[2] \in Indices
      BY <1>6, <1>8, <2>1
    <3>2. Op(e[2]).deps \subseteq DOMAIN events
      BY <1>3, <1>8 DEF Runnable
    <3> DEFINE k == e[2]
    <3>3. k \in Indices /\ Op(k).deps \subseteq DOMAIN events
      BY <3>1, <3>2
    <3> HIDE DEF k
    <3>4. StartOf(events, k) \in Nat
      BY <1>1, <1>2, <3>3, StartFacts DEF GivenOK
    <3> QED BY <3>1, <3>4 DEF k
  <2> QED BY <1>1, <2>2 DEF KeysBound
<1> QED BY <1>1, <1>2, <1>12, <1>13 DEF SInv

LEMMA BeginsKeeps == Begins => SInv'
<1>1. Begins => Started'
  BY DEF Begins, StartSchedule, Started
<1> QED BY <1>1, StartedIsOK, PTL

\* When an operation could start is the same before and after a step that keeps
\* the execution.
StartsAreGaps ==
  IsExecution(execution) =>
    \A given, i : IsGiven(given) /\ i \in Indices /\ Op(i).deps \subseteq DOMAIN given =>
      /\ StartOf(given, i) \in Nat
      /\ Earliest(given, i) \in Nat
      /\ IsGap(given, Op(i).resources, Earliest(given, i), Op(i).duration, StartOf(given, i))

LEMMA StartsHold == StartsAreGaps
BY StartFacts DEF StartsAreGaps

LEMMA StartsStay ==
  ASSUME execution' = execution, IsExecution(execution)
  PROVE  \A given, i : IsGiven(given) /\ i \in Indices /\ Op(i).deps \subseteq DOMAIN given =>
           StartOf(given, i)' = StartOf(given, i)
<1>1. StartsAreGaps'
  BY StartsHold, PTL
<1>2. StartsAreGaps
  BY StartsHold
<1> TAKE given, i
<1> HAVE IsGiven(given) /\ i \in Indices /\ Op(i).deps \subseteq DOMAIN given
<1>3. Indices' = Indices /\ Op(i)' = Op(i) /\ IsExecution(execution)'
  BY DEF Indices, Op
<1>4. IsGiven(given)'
  BY DEF IsGiven, Indices, Op
<1>5. Earliest(given, i)' = Earliest(given, i)
  BY DEF Earliest, Op
<1>6. IsGap(given, Op(i).resources, Earliest(given, i), Op(i).duration, StartOf(given, i)')
  BY <1>1, <1>3, <1>4, <1>5 DEF StartsAreGaps, IsGap, Clash, Takes, Op
<1> QED BY <1>2, <1>6, OneGap DEF StartsAreGaps

LEMMA SameExecution ==
  ASSUME execution' = execution
  PROVE  /\ Indices' = Indices /\ IsExecution(execution)' = IsExecution(execution)
         /\ Chronological' = Chronological
         /\ \A given : GivenOK(given)' <=> GivenOK(given)
         /\ \A given : Runnable(given)' = Runnable(given)
<1>1. \A i : Op(i)' = Op(i)
  BY DEF Op
<1>2. Indices' = Indices
  BY DEF Indices
<1>3. IsExecution(execution)' = IsExecution(execution)
  BY DEF IsExecution, IsOperation
<1>4. Chronological' = Chronological
  BY DEF Chronological
<1>5. \A given : Runnable(given)' = Runnable(given)
  BY <1>1, <1>2 DEF Runnable
<1>6. \A given, i : Earliest(given, i)' = Earliest(given, i)
  BY <1>1 DEF Earliest
<1>7. \A given : IsGiven(given)' <=> IsGiven(given)
  BY <1>1, <1>2 DEF IsGiven
<1>8. \A given : Behind(given)' <=> Behind(given)
  BY <1>1, <1>6 DEF Behind
<1>9. \A given : Apart(given)' <=> Apart(given)
  BY <1>1 DEF Apart, Exclusive, Overlap
<1>10. \A given : Prompt(given)' <=> Prompt(given)
  BY <1>1, <1>6 DEF Prompt, Delayed, Exclusive, Takes
<1>11. \A given : Acyclic(DOMAIN given)' <=> Acyclic(DOMAIN given)
  BY <1>1 DEF Acyclic
<1> QED BY <1>2, <1>3, <1>4, <1>5, <1>7, <1>8, <1>9, <1>10, <1>11 DEF GivenOK

\* The entry that is popped.
LEMMA PoppedFacts ==
  ASSUME SInv, outcome = "scheduling", ready # {},
         NEW entry, entry = Top(ready), NEW i, i = entry[2]
  PROVE  /\ IsExecution(execution) /\ GivenOK(events) /\ IsGiven(events) /\ ReadyExact /\ KeysBound
         /\ entry \in ready /\ entry \in Nat \X Indices /\ Indices \subseteq Nat
         /\ ready \subseteq Nat \X Nat
         /\ i \in Runnable(events) /\ i \in Indices /\ Op(i).deps \subseteq DOMAIN events
         /\ StartOf(events, i) \in Nat
<1>1. IsExecution(execution) /\ GivenOK(events) /\ IsGiven(events) /\ ReadyExact /\ KeysBound
  BY DEF SInv, GivenOK
<1>2. Indices \subseteq Nat
  BY <1>1, OpFacts
<1>3. ready \subseteq Nat \X Indices
  BY <1>1 DEF ReadyExact
<1>4. ready \subseteq Nat \X Nat
  BY <1>2, <1>3
<1>5. entry \in ready
  BY <1>4, TopFacts
<1>6. i \in Runnable(events)
  BY <1>1, <1>5 DEF ReadyExact
<1>7. i \in Indices /\ Op(i).deps \subseteq DOMAIN events
  BY <1>6 DEF Runnable
<1>8. StartOf(events, i) \in Nat
  BY <1>1, <1>7, StartFacts
<1> QED BY <1>1, <1>2, <1>3, <1>4, <1>5, <1>6, <1>7, <1>8

\* What is dispatched under earliest_ready starts before anything else that can
\* run could.
LEMMA DispatchedIsFirst ==
  ASSUME SInv, outcome = "scheduling", ready # {}, Chronological,
         NEW entry, entry = Top(ready), NEW i, i = entry[2],
         ~Stale(entry, StartOf(events, i)), NEW k \in Runnable(events), k # i
  PROVE  /\ Before(<<StartOf(events, i), i>>, <<StartOf(events, k), k>>)
         /\ StartOf(events, i) <= StartOf(events, k)
<1>1. /\ IsExecution(execution) /\ IsGiven(events) /\ ReadyExact /\ KeysBound
      /\ entry \in ready /\ entry \in Nat \X Indices /\ Indices \subseteq Nat
      /\ ready \subseteq Nat \X Nat
      /\ StartOf(events, i) \in Nat
  BY PoppedFacts
<1>2. PICK f \in ready : f[2] = k
  BY <1>1 DEF ReadyExact
<1>3. f \in Nat \X Nat /\ f[1] \in Nat /\ k \in Nat /\ f # entry
  BY <1>1, <1>2
<1>4. Before(<<StartOf(events, i), i>>, f)
  BY <1>1, <1>2, <1>3, FreshIsFirst
<1>5. f[1] <= StartOf(events, k)
  BY <1>1, <1>2 DEF KeysBound
<1>6. StartOf(events, k) \in Nat
  <2>1. k \in Indices /\ Op(k).deps \subseteq DOMAIN events
    BY DEF Runnable
  <2> QED BY <1>1, <2>1, StartFacts
<1> DEFINE s == StartOf(events, i)
           u == StartOf(events, k)
<1>7. s \in Nat /\ u \in Nat /\ i \in Nat
  BY <1>1, <1>6
<1>8. Before(<<s, i>>, f) /\ f[1] <= u
  BY <1>4, <1>5
<1> HIDE DEF s, u
<1>9. s < f[1] \/ (s = f[1] /\ i < k)
  BY <1>2, <1>8 DEF Before
<1>10. s <= u /\ (s < u \/ (s = u /\ i < k))
  BY <1>3, <1>7, <1>8, <1>9
<1>11. Before(<<s, i>>, <<u, k>>)
  BY <1>10 DEF Before
<1> QED BY <1>10, <1>11 DEF s, u

\* A popped entry whose operation starts later goes back with that start.
LEMMA RefreshKeeps ==
  ASSUME SInv, Refresh
  PROVE  SInv'
<1> DEFINE entry == Top(ready)
           i == entry[2]
           start == StartOf(events, i)
           back == <<start, i>>
<1>1. /\ outcome = "scheduling" /\ ready # {} /\ Chronological
      /\ ready' = (ready \ {entry}) \cup {back}
      /\ execution' = execution /\ events' = events /\ outcome' = outcome
  BY DEF Refresh, Stale
<1>2. /\ IsExecution(execution) /\ GivenOK(events) /\ IsGiven(events) /\ ReadyExact /\ KeysBound
      /\ entry \in ready /\ entry \in Nat \X Indices
      /\ i \in Runnable(events) /\ i \in Indices
      /\ start \in Nat
  BY <1>1, PoppedFacts
<1> HIDE DEF start, entry
<1>3. back \in Nat \X Indices /\ back[1] = start /\ back[2] = i
  BY <1>2
<1> HIDE DEF back
<1>4. ready' \subseteq Nat \X Indices
  BY <1>1, <1>2, <1>3 DEF ReadyExact
<1>5. \A e \in ready' : e[2] \in Runnable(events)
  BY <1>1, <1>2, <1>3 DEF ReadyExact
<1>6. \A e, f \in ready' : e[2] = f[2] => e = f
  BY <1>1, <1>2, <1>3 DEF ReadyExact
<1>7. \A k \in Runnable(events) : \E e \in ready' : e[2] = k
  <2> TAKE k \in Runnable(events)
  <2>1. PICK e \in ready : e[2] = k
    BY <1>2 DEF ReadyExact
  <2> QED BY <1>1, <1>3, <2>1
<1>8. Indices' = Indices /\ Runnable(events)' = Runnable(events) /\ GivenOK(events)'
      /\ IsExecution(execution)' /\ Chronological'
  BY <1>1, <1>2, SameExecution
<1>9. ReadyExact'
  BY <1>4, <1>5, <1>6, <1>7, <1>8 DEF ReadyExact
<1>10. \A k \in Runnable(events) : StartOf(events, k)' = StartOf(events, k)
  <2>1. \A k \in Runnable(events) : k \in Indices /\ Op(k).deps \subseteq DOMAIN events
    BY DEF Runnable
  <2> QED BY <1>1, <1>2, <2>1, StartsStay
<1>11. \A e \in ready' : e[1] <= StartOf(events, e[2])
  <2> TAKE e \in ready'
  <2>1. CASE e = back
    BY <1>2, <1>3, <2>1 DEF start
  <2>2. CASE e \in ready
    BY <1>1, <1>2, <2>2 DEF KeysBound
  <2> QED BY <1>1, <2>1, <2>2
<1>12. KeysBound'
  <2>1. \A e \in ready' : e[1] <= StartOf(events, e[2])'
    BY <1>5, <1>10, <1>11
  <2>2. \A j \in DOMAIN events : \A k \in Runnable(events) : events[j].start <= StartOf(events, k)'
    BY <1>1, <1>2, <1>10 DEF KeysBound
  <2> QED BY <1>1, <1>8, <2>1, <2>2 DEF KeysBound
<1> QED BY <1>1, <1>8, <1>9, <1>12 DEF SInv

\* The entries of the operations that are released.
Pushed(given, i) ==
  {<<IF Chronological THEN Earliest(given, c) ELSE c, c>> : c \in Released(given, i)}

LEMMA PushedFacts ==
  ASSUME IsExecution(execution), NEW given, IsGiven(given), NEW i
  PROVE  /\ Pushed(given, i) \subseteq Nat \X Indices
         /\ \A e \in Pushed(given, i) : e[2] \in Released(given, i)
         /\ \A e, f \in Pushed(given, i) : e[2] = f[2] => e = f
         /\ \A c \in Released(given, i) : \E e \in Pushed(given, i) : e[2] = c
         /\ Chronological => \A e \in Pushed(given, i) : e[1] = Earliest(given, e[2])
<1> DEFINE key(c) == IF Chronological THEN Earliest(given, c) ELSE c
<1>1. Pushed(given, i) = {<<key(c), c>> : c \in Released(given, i)}
  BY DEF Pushed
<1>2. \A c \in Released(given, i) : c \in Indices /\ Op(c).deps \subseteq DOMAIN given
  BY DEF Released
<1>3. \A c \in Released(given, i) : Earliest(given, c) \in Nat /\ c \in Nat
  BY <1>2, EarliestFacts, OpFacts
<1>4. \A c \in Released(given, i) : key(c) \in Nat
  BY <1>3
<1>5. Chronological => \A c \in Released(given, i) : key(c) = Earliest(given, c)
  OBVIOUS
<1> HIDE DEF key
<1>6. \A e \in Pushed(given, i) : \E c \in Released(given, i) : e = <<key(c), c>>
  BY <1>1
<1>7. \A e \in Pushed(given, i) : e[2] \in Released(given, i) /\ e = <<key(e[2]), e[2]>> /\ e[1] = key(e[2])
  BY <1>6
<1>8. Pushed(given, i) \subseteq Nat \X Indices
  <2> SUFFICES ASSUME NEW e \in Pushed(given, i) PROVE e \in Nat \X Indices
    OBVIOUS
  <2>1. PICK c \in Released(given, i) : e = <<key(c), c>>
    BY <1>6
  <2> QED BY <1>2, <1>4, <2>1
<1>9. \A e, f \in Pushed(given, i) : e[2] = f[2] => e = f
  BY <1>7, Zenon
<1>10. \A c \in Released(given, i) : <<key(c), c>> \in Pushed(given, i) /\ <<key(c), c>>[2] = c
  BY <1>1
<1>11. \A c \in Released(given, i) : \E e \in Pushed(given, i) : e[2] = c
  BY <1>10
<1>12. Chronological => \A e \in Pushed(given, i) : e[1] = Earliest(given, e[2])
  BY <1>5, <1>7
<1> QED BY <1>7, <1>8, <1>9, <1>11, <1>12

\* The keys stay bounds, and nothing that can run could have started before i.
LEMMA DispatchKeepsKeys ==
  ASSUME SInv, outcome = "scheduling", ready # {}, Chronological,
         NEW entry, entry = Top(ready), NEW i, i = entry[2],
         ~Stale(entry, StartOf(events, i)), NEW more, more = Dispatched(events, i)
  PROVE  /\ \A e \in (ready \ {entry}) \cup Pushed(more, i) : e[1] <= StartOf(more, e[2])
         /\ \A j \in DOMAIN more : \A k \in Runnable(more) : more[j].start <= StartOf(more, k)
<1>1. /\ IsExecution(execution) /\ GivenOK(events) /\ IsGiven(events) /\ ReadyExact /\ KeysBound
      /\ entry \in ready /\ i \in Runnable(events) /\ i \in Indices
      /\ ready \subseteq Nat \X Nat
  BY PoppedFacts
<1>2. /\ StartOf(events, i) \in Nat
      /\ DOMAIN more = DOMAIN events \cup {i}
      /\ more[i].start = StartOf(events, i) /\ more[i].end = StartOf(events, i) + Op(i).duration
  BY <1>1, DispatchedFacts
<1>3. IsGiven(more) /\ \A j \in DOMAIN events : j # i /\ more[j] = events[j]
  <2>1. IsGiven(more)
    BY <1>1, DispatchKeepsGiven DEF GivenOK
  <2>2. \A j \in DOMAIN events : j # i /\ more[j] = events[j]
    BY <1>1, <1>2 DEF Dispatched, Runnable
  <2> QED BY <2>1, <2>2
<1>4. \A j \in Indices : Op(j).deps \subseteq DOMAIN events => StartOf(events, j) <= StartOf(more, j)
  BY <1>1, DispatchedFacts
<1>5. \A k \in Runnable(events) : /\ k \in Indices /\ Op(k).deps \subseteq DOMAIN events
                                  /\ StartOf(events, k) \in Nat
                                  /\ StartOf(events, k) <= StartOf(more, k)
                                  /\ StartOf(more, k) \in Nat
  <2> TAKE k \in Runnable(events)
  <2>1. k \in Indices /\ Op(k).deps \subseteq DOMAIN events
    BY DEF Runnable
  <2>2. StartOf(events, k) \in Nat
    BY <1>1, <2>1, StartFacts
  <2>3. StartOf(more, k) \in Nat
    BY <1>1, <1>2, <1>3, <2>1, StartFacts
  <2> QED BY <1>4, <2>1, <2>2, <2>3
<1>6. \A c \in Released(more, i) : /\ Earliest(more, c) \in Nat /\ StartOf(more, c) \in Nat
                                   /\ Earliest(more, c) <= StartOf(more, c)
                                   /\ StartOf(events, i) <= StartOf(more, c)
  <2> TAKE c \in Released(more, i)
  <2>1. c \in Indices /\ Op(c).deps \subseteq DOMAIN more /\ i \in Op(c).deps
    BY DEF Released
  <2>2. Earliest(more, c) \in Nat /\ more[i].end <= Earliest(more, c)
    BY <1>1, <1>3, <2>1, EarliestFacts
  <2>3. StartOf(more, c) \in Nat /\ Earliest(more, c) <= StartOf(more, c)
    BY <1>1, <1>3, <2>1, StartFacts
  <2>4. Op(i).duration \in Nat
    BY <1>1, OpFacts DEF IsOperation
  <2> QED BY <1>2, <2>2, <2>3, <2>4
<1>7. ASSUME NEW e \in (ready \ {entry}) \cup Pushed(more, i)
      PROVE  e[1] <= StartOf(more, e[2])
  <2>1. CASE e \in Pushed(more, i)
    <3>1. e[2] \in Released(more, i) /\ e[1] = Earliest(more, e[2])
      BY <1>1, <1>3, <2>1, PushedFacts
    <3> QED BY <1>6, <3>1
  <2>2. CASE e \in ready \ {entry}
    <3>1. e[2] \in Runnable(events) /\ e[1] <= StartOf(events, e[2]) /\ e[1] \in Nat
      BY <1>1, <2>2 DEF ReadyExact, KeysBound
    <3> QED BY <1>5, <3>1
  <2> QED BY <1>7, <2>1, <2>2
<1>8. \A j \in DOMAIN more : more[j].start \in Nat /\ more[j].start <= StartOf(events, i)
  <2> TAKE j \in DOMAIN more
  <2>1. more[j].start \in Nat
    BY <1>3 DEF IsGiven
  <2>2. CASE j = i
    BY <1>2, <2>2
  <2>3. CASE j \in DOMAIN events
    <3>1. \A k \in Runnable(events) : events[j].start <= StartOf(events, k)
      BY <1>1, <2>3 DEF KeysBound
    <3>2. more[j] = events[j]
      BY <1>3, <2>3
    <3> QED BY <1>1, <2>1, <3>1, <3>2
  <2> QED BY <1>2, <2>1, <2>2, <2>3
<1>9. ASSUME NEW k \in Runnable(more)
      PROVE  StartOf(events, i) <= StartOf(more, k) /\ StartOf(more, k) \in Nat
  <2>1. k \in Runnable(events) \ {i} \/ k \in Released(more, i)
    BY <1>1, RunnableNext
  <2>2. CASE k \in Runnable(events) \ {i}
    <3>1. StartOf(events, i) <= StartOf(events, k)
      BY <2>2, DispatchedIsFirst
    <3> QED BY <1>2, <1>5, <2>2, <3>1
  <2>3. CASE k \in Released(more, i)
    BY <1>6, <2>3
  <2> QED BY <2>1, <2>2, <2>3
<1>10. \A j \in DOMAIN more : \A k \in Runnable(more) : more[j].start <= StartOf(more, k)
  BY <1>2, <1>8, <1>9
<1> QED BY <1>7, <1>10

\* Dispatching the operation that was popped.
LEMMA DispatchKeeps ==
  ASSUME SInv, Dispatch
  PROVE  SInv'
<1> DEFINE entry == Top(ready)
           i == entry[2]
           more == Dispatched(events, i)
<1>1. /\ outcome = "scheduling" /\ ready # {} /\ ~Stale(entry, StartOf(events, i))
      /\ execution' = execution /\ outcome' = outcome
      /\ events' = more
  BY DEF Dispatch, Dispatched
<1>2. ready' = (ready \ {entry}) \cup Pushed(events', i)
  BY DEF Dispatch, Pushed
<1>3. /\ IsExecution(execution) /\ GivenOK(events) /\ IsGiven(events) /\ ReadyExact /\ KeysBound
      /\ entry \in ready /\ entry \in Nat \X Indices
      /\ i \in Runnable(events) /\ i \in Indices
  BY <1>1, PoppedFacts
<1>4. Chronological =>
        /\ \A e \in ready' : e[1] <= StartOf(more, e[2])
        /\ \A j \in DOMAIN more : \A k \in Runnable(more) : more[j].start <= StartOf(more, k)
  BY <1>1, <1>2, DispatchKeepsKeys
<1> HIDE DEF entry
<1>5. GivenOK(more) /\ IsGiven(more)
  <2>1. GivenOK(more)
    BY <1>3, DispatchKeepsGiven
  <2> QED BY <2>1 DEF GivenOK
<1>6. /\ Runnable(more) = (Runnable(events) \ {i}) \cup Released(more, i)
      /\ (Runnable(events) \ {i}) \cap Released(more, i) = {}
  BY <1>3, RunnableNext
<1>7. /\ Pushed(more, i) \subseteq Nat \X Indices
      /\ \A e \in Pushed(more, i) : e[2] \in Released(more, i)
      /\ \A e, f \in Pushed(more, i) : e[2] = f[2] => e = f
      /\ \A c \in Released(more, i) : \E e \in Pushed(more, i) : e[2] = c
  BY <1>3, <1>5, PushedFacts
<1> HIDE DEF more
<1>8. ready' = (ready \ {entry}) \cup Pushed(more, i)
  BY <1>1, <1>2
<1>9. ready' \subseteq Nat \X Indices
  BY <1>3, <1>7, <1>8 DEF ReadyExact
<1>10. \A e \in ready \ {entry} : e[2] \in Runnable(events) \ {i}
  BY <1>3 DEF ReadyExact
<1>11. \A e \in ready' : e[2] \in Runnable(more)
  BY <1>6, <1>7, <1>8, <1>10
<1>12. \A e, f \in ready' : e[2] = f[2] => e = f
  <2> TAKE e, f \in ready'
  <2>1. CASE e \in ready \ {entry} /\ f \in ready \ {entry}
    BY <1>3, <2>1 DEF ReadyExact
  <2>2. CASE e \in Pushed(more, i) /\ f \in Pushed(more, i)
    BY <1>7, <2>2
  <2>3. CASE e \in ready \ {entry} /\ f \in Pushed(more, i)
    BY <1>6, <1>7, <1>10, <2>3
  <2>4. CASE e \in Pushed(more, i) /\ f \in ready \ {entry}
    BY <1>6, <1>7, <1>10, <2>4
  <2> QED BY <1>8, <2>1, <2>2, <2>3, <2>4
<1>13. \A k \in Runnable(more) : \E e \in ready' : e[2] = k
  <2> TAKE k \in Runnable(more)
  <2>1. CASE k \in Runnable(events) \ {i}
    <3>1. PICK e \in ready : e[2] = k
      BY <1>3, <2>1 DEF ReadyExact
    <3> QED BY <1>8, <2>1, <3>1
  <2>2. CASE k \in Released(more, i)
    BY <1>7, <1>8, <2>2
  <2> QED BY <1>6, <2>1, <2>2
<1>14. Indices' = Indices /\ Runnable(events)' = Runnable(more) /\ GivenOK(events)'
      /\ IsExecution(execution)' /\ (Chronological' <=> Chronological)
  BY <1>1, <1>3, <1>5, SameExecution
<1>15. ReadyExact'
  BY <1>9, <1>11, <1>12, <1>13, <1>14 DEF ReadyExact
<1>16. \A k \in Runnable(more) : StartOf(events, k)' = StartOf(more, k)
  <2>1. \A k \in Runnable(more) : k \in Indices /\ Op(k).deps \subseteq DOMAIN more
    BY DEF Runnable
  <2> QED BY <1>1, <1>3, <1>5, <2>1, StartsStay
<1>17. KeysBound'
  BY <1>1, <1>4, <1>11, <1>14, <1>16 DEF KeysBound
<1> QED BY <1>1, <1>14, <1>15, <1>17 DEF SInv

\* The heap is empty.
LEMMA EndScheduleKeeps ==
  ASSUME SInv, EndSchedule
  PROVE  SInv'
<1>1. /\ outcome = "scheduling" /\ ready = {}
      /\ outcome' = IF DOMAIN events = Indices THEN "scheduled" ELSE "cyclic"
      /\ execution' = execution /\ ready' = ready /\ events' = events
  BY DEF EndSchedule
<1>2. IsExecution(execution) /\ GivenOK(events) /\ ReadyExact
  BY <1>1 DEF SInv
<1>3. Indices' = Indices /\ Runnable(events)' = Runnable(events) /\ GivenOK(events)'
      /\ IsExecution(execution)'
  BY <1>1, <1>2, SameExecution
<1>4. Runnable(events) = {}
  BY <1>1, <1>2 DEF ReadyExact
<1>5. ReadyExact'
  BY <1>1, <1>3, <1>4 DEF ReadyExact
<1>6. KeysBound'
  BY <1>1, <1>3, <1>4 DEF KeysBound
<1> QED BY <1>1, <1>3, <1>5, <1>6 DEF SInv

LEMMA SInvStays ==
  ASSUME SInv, execution' = execution, ready' = ready, events' = events, outcome' = outcome
  PROVE  SInv'
<1>1. CASE outcome = "none"
  BY <1>1 DEF SInv
<1>2. CASE outcome # "none"
  <2>1. IsExecution(execution) /\ GivenOK(events) /\ ReadyExact /\ KeysBound
    BY <1>2 DEF SInv
  <2>2. Indices' = Indices /\ Runnable(events)' = Runnable(events) /\ GivenOK(events)'
        /\ IsExecution(execution)' /\ (Chronological' <=> Chronological)
    BY <2>1, SameExecution
  <2>3. ReadyExact'
    BY <2>1, <2>2 DEF ReadyExact
  <2>4. \A k \in Runnable(events) : StartOf(events, k)' = StartOf(events, k)
    <3>1. \A k \in Runnable(events) : k \in Indices /\ Op(k).deps \subseteq DOMAIN events
      BY DEF Runnable
    <3> QED BY <2>1, <3>1, StartsStay DEF GivenOK
  <2>5. KeysBound'
    BY <2>1, <2>2, <2>4 DEF KeysBound, ReadyExact
  <2> QED BY <1>2, <2>2, <2>3, <2>5 DEF SInv
<1> QED BY <1>1, <1>2

LEMMA SInvHolds == ScheduleSpec => []SInv
<1>1. ScheduleInit => SInv
  BY DEF ScheduleInit, SInv
<1>2. SInv /\ [Begins \/ ScheduleNext]_scheduleVars => SInv'
  <2> SUFFICES ASSUME SInv, [Begins \/ ScheduleNext]_scheduleVars PROVE SInv'
    OBVIOUS
  <2>1. CASE Begins
    BY <2>1, BeginsKeeps
  <2>2. CASE Refresh
    BY <2>2, RefreshKeeps
  <2>3. CASE Dispatch
    BY <2>3, DispatchKeeps
  <2>4. CASE EndSchedule
    BY <2>4, EndScheduleKeeps
  <2>5. CASE UNCHANGED scheduleVars
    <3>1. execution' = execution /\ ready' = ready /\ events' = events /\ outcome' = outcome
      BY <2>5 DEF scheduleVars
    <3> QED BY <3>1, SInvStays
  <2> QED BY <2>1, <2>2, <2>3, <2>4, <2>5 DEF ScheduleNext
<1> QED BY <1>1, <1>2, PTL DEF ScheduleSpec

-----------------------------------------------------------------------------
(* Cycles. *)

\* What can be taken of the operations in n rounds.
Takings(n, f) ==
  f = [k \in 0 .. n |-> IF k = 0 THEN {} ELSE f[k - 1] \cup {i \in Indices : Op(i).deps \subseteq f[k - 1]}]

LEMMA CyclicDef ==
  Cyclic <=> (CHOOSE f : Takings(Len(execution.ops), f))[Len(execution.ops)] # Indices
BY DEF Cyclic, Takings

LEMMA TakingsExist ==
  ASSUME NEW n \in Nat
  PROVE  \E f : Takings(n, f)
<1> DEFINE Grown(S) == S \cup {i \in Indices : Op(i).deps \subseteq S}
           Bad == {k \in Nat : ~ \E f : Takings(k, f)}
<1>1. \A k, f : Takings(k, f) <=> f = [m \in 0 .. k |-> IF m = 0 THEN {} ELSE Grown(f[m - 1])]
  BY DEF Takings
<1> HIDE DEF Grown
<1>2. Bad = {}
  <2> SUFFICES ASSUME Bad # {} PROVE FALSE
    OBVIOUS
  <2>1. PICK k \in Bad : \A m \in Bad : k <= m
    <3>1. Bad \subseteq Nat
      OBVIOUS
    <3> HIDE DEF Bad
    <3> QED BY <3>1, LeastNumber
  <2>2. k \in Nat /\ ~ \E f : Takings(k, f)
    OBVIOUS
  <2>3. CASE k = 0
    <3> DEFINE f == [m \in 0 .. 0 |-> {}]
    <3>1. f = [m \in 0 .. k |-> IF m = 0 THEN {} ELSE Grown(f[m - 1])]
      BY <2>3
    <3> QED BY <1>1, <2>2, <3>1
  <2>4. CASE k # 0
    <3>1. k - 1 \in Nat /\ ~(k <= k - 1)
      BY <2>2, <2>4
    <3>2. PICK g : Takings(k - 1, g)
      BY <2>1, <3>1
    <3>3. g = [m \in 0 .. k - 1 |-> IF m = 0 THEN {} ELSE Grown(g[m - 1])]
      BY <1>1, <3>2
    <3> DEFINE f == [m \in 0 .. k |-> IF m = k THEN Grown(g[k - 1]) ELSE g[m]]
    <3>4. \A m \in 0 .. k : f[m] = IF m = 0 THEN {} ELSE Grown(f[m - 1])
      <4> SUFFICES ASSUME NEW m \in 0 .. k PROVE f[m] = IF m = 0 THEN {} ELSE Grown(f[m - 1])
        OBVIOUS
      <4>1. \A j \in 0 .. k - 1 : g[j] = IF j = 0 THEN {} ELSE Grown(g[j - 1])
        BY <3>3
      <4>2. CASE m = k
        <5>1. m # 0 /\ m - 1 \in 0 .. k /\ m - 1 # k /\ m - 1 = k - 1
          BY <2>2, <2>4, <4>2
        <5>2. f[m] = Grown(g[k - 1]) /\ f[m - 1] = g[m - 1]
          BY <4>2, <5>1
        <5> QED BY <4>2, <5>1, <5>2
      <4>3. CASE m # k
        <5>1. m \in 0 .. k - 1 /\ (m # 0 => m - 1 \in 0 .. k /\ m - 1 # k)
          BY <2>2, <4>3
        <5>2. f[m] = g[m] /\ (m # 0 => f[m - 1] = g[m - 1])
          BY <4>3, <5>1
        <5> QED BY <4>1, <5>1, <5>2
      <4> QED BY <4>2, <4>3
    <3>5. f = [m \in 0 .. k |-> f[m]]
      OBVIOUS
    <3> HIDE DEF f
    <3>6. f = [m \in 0 .. k |-> IF m = 0 THEN {} ELSE Grown(f[m - 1])]
      BY <3>4, <3>5
    <3> QED BY <1>1, <2>2, <3>6
  <2> QED BY <2>3, <2>4
<1> QED BY <1>2

\* Nothing but what was dispatched can be taken when nothing more can run, and
\* everything when what was dispatched is everything.
LEMMA TakenFacts ==
  ASSUME IsExecution(execution), NEW done \in SUBSET Indices
  PROVE  /\ (\A i \in Indices \ done : ~(Op(i).deps \subseteq done)) /\ done # Indices => Cyclic
         /\ Acyclic(Indices) => ~Cyclic
<1> DEFINE n == Len(execution.ops)
           T == CHOOSE f : Takings(n, f)
<1>1. n \in Nat /\ Indices = 1 .. n /\ IsFiniteSet(Indices) /\ \A i \in Indices : Op(i).deps \subseteq Indices
  BY OpFacts
<1>2. Takings(n, T)
  BY <1>1, TakingsExist
<1>3. Cyclic <=> T[n] # Indices
  BY CyclicDef
<1> HIDE DEF n, T
<1>4. /\ T[0] = {}
      /\ \A k \in 1 .. n : T[k] = T[k - 1] \cup {i \in Indices : Op(i).deps \subseteq T[k - 1]}
  <2>1. \A k \in 0 .. n : T[k] = IF k = 0 THEN {} ELSE T[k - 1] \cup {i \in Indices : Op(i).deps \subseteq T[k - 1]}
    BY <1>2 DEF Takings
  <2>2. 0 \in 0 .. n /\ \A k \in 1 .. n : k \in 0 .. n /\ k # 0
    BY <1>1
  <2> QED BY <2>1, <2>2
<1>5. \A k \in 0 .. n : T[k] \subseteq Indices
  <2>1. ASSUME NEW k \in 0 .. n PROVE k = 0 \/ k \in 1 .. n
    BY <1>1
  <2> DEFINE Bad == {k \in 0 .. n : ~(T[k] \subseteq Indices)}
  <2>2. Bad = {}
    <3> SUFFICES ASSUME Bad # {} PROVE FALSE
      OBVIOUS
    <3>1. PICK k \in Bad : \A m \in Bad : k <= m
      <4>1. Bad \subseteq Nat
        BY <1>1
      <4> HIDE DEF Bad
      <4> QED BY <4>1, LeastNumber
    <3>2. k \in 1 .. n /\ k - 1 \in 0 .. n /\ ~(k <= k - 1)
      BY <1>1, <1>4
    <3>3. T[k - 1] \subseteq Indices
      BY <3>1, <3>2
    <3> QED BY <1>4, <3>2, <3>3
  <2> QED BY <2>2
<1>6. ASSUME \A i \in Indices \ done : ~(Op(i).deps \subseteq done), done # Indices
      PROVE  Cyclic
  <2> DEFINE Bad == {k \in 0 .. n : ~(T[k] \subseteq done)}
  <2>1. Bad = {}
    <3> SUFFICES ASSUME Bad # {} PROVE FALSE
      OBVIOUS
    <3>1. PICK k \in Bad : \A m \in Bad : k <= m
      <4>1. Bad \subseteq Nat
        BY <1>1
      <4> HIDE DEF Bad
      <4> QED BY <4>1, LeastNumber
    <3>2. k \in 1 .. n /\ k - 1 \in 0 .. n /\ ~(k <= k - 1)
      BY <1>1, <1>4
    <3>3. T[k - 1] \subseteq done
      BY <3>1, <3>2
    <3>4. \A i \in Indices : Op(i).deps \subseteq T[k - 1] => i \in done
      BY <1>6, <3>3
    <3>5. T[k] \subseteq done
      BY <1>4, <3>2, <3>3, <3>4
    <3> QED BY <3>1, <3>5
  <2>2. n \in 0 .. n
    BY <1>1
  <2>3. T[n] \subseteq done
    BY <2>1, <2>2
  <2> QED BY <1>3, <1>6, <2>3
<1>7. ASSUME Acyclic(Indices)
      PROVE  ~Cyclic
  <2>1. \A k \in 1 .. n : T[k - 1] = Indices \/ \E i \in Indices : i \notin T[k - 1] /\ i \in T[k]
    <3> SUFFICES ASSUME NEW k \in 1 .. n, T[k - 1] # Indices
                 PROVE  \E i \in Indices : i \notin T[k - 1] /\ i \in T[k]
      OBVIOUS
    <3>1. k - 1 \in 0 .. n
      BY <1>1
    <3>2. T[k - 1] \subseteq Indices
      BY <1>5, <3>1
    <3>3. Indices \ T[k - 1] \in SUBSET Indices /\ Indices \ T[k - 1] # {}
      BY <3>2
    <3>4. PICK i \in Indices \ T[k - 1] : Op(i).deps \cap (Indices \ T[k - 1]) = {}
      BY <1>7, <3>3 DEF Acyclic
    <3>5. Op(i).deps \subseteq T[k - 1]
      BY <1>1, <3>4
    <3>6. i \in T[k] /\ i \in Indices /\ i \notin T[k - 1]
      BY <1>4, <3>4, <3>5
    <3> QED BY <3>6
  <2> DEFINE Enough(k) == T[k] = Indices \/ Cardinality(T[k]) >= k
             Bad == {k \in 0 .. n : ~Enough(k)}
  <2>2. \A k \in 0 .. n : IsFiniteSet(T[k]) /\ Cardinality(T[k]) \in Nat
    BY <1>1, <1>5, FS_Subset, FS_CardinalityType
  <2>3. Bad = {}
    <3> SUFFICES ASSUME Bad # {} PROVE FALSE
      OBVIOUS
    <3>1. PICK k \in Bad : \A m \in Bad : k <= m
      <4>1. Bad \subseteq Nat
        BY <1>1
      <4> HIDE DEF Bad
      <4> QED BY <4>1, LeastNumber
    <3>2. k \in 0 .. n /\ ~Enough(k)
      OBVIOUS
    <3>3. k # 0
      BY <2>2, <3>2
    <3>4. k \in 1 .. n /\ k - 1 \in 0 .. n /\ ~(k <= k - 1) /\ k \in Nat
      BY <1>1, <3>2, <3>3
    <3>5. k - 1 \notin Bad
      BY <3>1, <3>4
    <3>6. Enough(k - 1)
      BY <3>4, <3>5
    <3>7. T[k - 1] \subseteq T[k] /\ T[k] \subseteq Indices
      BY <1>4, <1>5, <3>4
    <3>8. CASE T[k - 1] = Indices
      BY <3>2, <3>7, <3>8
    <3>9. CASE T[k - 1] # Indices
      <4>1. PICK i \in Indices : i \notin T[k - 1] /\ i \in T[k]
        BY <2>1, <3>4, <3>9
      <4>2. Cardinality(T[k - 1]) >= k - 1
        BY <3>6, <3>9
      <4>3. /\ Cardinality(T[k - 1] \cup {i}) = Cardinality(T[k - 1]) + 1
            /\ Cardinality(T[k - 1] \cup {i}) <= Cardinality(T[k])
        <5>1. IsFiniteSet(T[k - 1]) /\ IsFiniteSet(T[k]) /\ T[k - 1] \cup {i} \subseteq T[k]
          BY <2>2, <3>4, <3>7, <4>1
        <5> QED BY <4>1, <5>1, FS_AddElement, FS_Subset
      <4>4. Cardinality(T[k - 1]) \in Nat /\ Cardinality(T[k]) \in Nat
        BY <2>2, <3>4
      <4>5. Cardinality(T[k]) >= k
        BY <3>4, <4>2, <4>3, <4>4
      <4> QED BY <3>2, <4>5
    <3> QED BY <3>8, <3>9
  <2>4. n \in 0 .. n
    BY <1>1
  <2>5. Enough(n)
    BY <2>3, <2>4
  <2>6. T[n] \subseteq Indices
    BY <1>5, <2>4
  <2>7. Cardinality(Indices) = n
    <3>1. 1 .. n = Indices /\ 1 \in Int /\ n \in Int
      BY <1>1
    <3>2. Cardinality(1 .. n) = n
      BY <1>1, FS_Interval
    <3> QED BY <3>1, <3>2
  <2>8. T[n] = Indices
    <3> SUFFICES ASSUME T[n] # Indices PROVE FALSE
      OBVIOUS
    <3>1. Cardinality(T[n]) >= n
      BY <2>5
    <3>2. Cardinality(T[n]) <= Cardinality(Indices) /\ Cardinality(Indices) # Cardinality(T[n])
      BY <1>1, <2>6, FS_Subset
    <3>3. Cardinality(T[n]) \in Nat
      BY <2>2, <2>4
    <3> QED BY <1>1, <2>7, <3>1, <3>2, <3>3
  <2> QED BY <1>3, <2>8
<1> QED BY <1>6, <1>7

-----------------------------------------------------------------------------
(* Results. *)

LEMMA TracesAreAccepted ==
  ASSUME IsExecution(execution), GivenOK(events), DOMAIN events = Indices
  PROVE  AcceptsMeasurement
<1>1. \A i \in Indices : /\ events[i].start \in Nat /\ events[i].end \in Nat
                         /\ events[i].end = events[i].start + Op(i).duration
                         /\ IsOperation(Op(i), Len(execution.ops))
  BY OpFacts DEF GivenOK, IsGiven
<1>2. ASSUME NEW i \in Indices
      PROVE  (Op(i).kind = "control") = (events[i].start = events[i].end)
  BY <1>1 DEF IsOperation
<1>3. ASSUME NEW i \in Indices, NEW d \in Op(i).deps
      PROVE  events[d].end <= events[i].start
  <2>1. Op(i).deps \subseteq DOMAIN events /\ Earliest(events, i) <= events[i].start
    BY DEF GivenOK, Behind
  <2>2. Earliest(events, i) \in Nat /\ events[d].end <= Earliest(events, i)
    BY <2>1, EarliestFacts DEF GivenOK
  <2>3. d \in Indices
    BY <2>1
  <2> QED BY <1>1, <2>1, <2>2, <2>3
<1>4. ASSUME NEW r, NEW a \in Indices, NEW b \in Indices,
             r \in Op(a).resources, r \in Op(b).resources, a # b
      PROVE  events[b].start < events[a].start \/ events[a].end <= events[b].start
  <2>1. Exclusive(a, b)
    BY <1>4 DEF Exclusive
  <2>2. ~Overlap(events[a], events[b])
    BY <1>4, <2>1 DEF GivenOK, Apart
  <2>3. Op(b).duration # 0 /\ Op(b).duration \in Nat
    BY <1>1, <1>4 DEF IsOperation
  <2> QED BY <1>1, <2>2, <2>3 DEF Overlap
<1> QED BY <1>2, <1>3, <1>4 DEF AcceptsMeasurement

LEMMA SInvIsFeasible ==
  ASSUME SInv
  PROVE  ScheduleIsFeasible
<1>1. CASE outcome = "none"
  <2>1. DOMAIN events = {}
    BY <1>1 DEF SInv
  <2> QED BY <1>1, <2>1 DEF ScheduleIsFeasible
<1>2. CASE outcome # "none"
  <2>1. IsExecution(execution) /\ GivenOK(events) /\ IsGiven(events) /\ ReadyExact
    BY <1>2 DEF SInv, GivenOK
  <2>2. ASSUME NEW i \in DOMAIN events
        PROVE  /\ \A d \in Op(i).deps : d \in DOMAIN events /\ events[d].end <= events[i].start
               /\ \A j \in DOMAIN events \ {i} : Exclusive(i, j) => ~Overlap(events[i], events[j])
    <3>1. i \in Indices /\ Op(i).deps \subseteq DOMAIN events /\ Earliest(events, i) <= events[i].start
      BY <2>1 DEF GivenOK, Behind, IsGiven
    <3>2. Earliest(events, i) \in Nat /\ \A d \in Op(i).deps : events[d].end <= Earliest(events, i)
      BY <2>1, <3>1, EarliestFacts
    <3>3. \A d \in DOMAIN events : events[d].start \in Nat /\ events[d].end \in Nat
      BY <2>1 DEF IsGiven
    <3>4. \A d \in Op(i).deps : d \in DOMAIN events /\ events[d].end <= events[i].start
      BY <3>1, <3>2, <3>3
    <3>5. \A j \in DOMAIN events \ {i} : Exclusive(i, j) => ~Overlap(events[i], events[j])
      BY <2>1 DEF GivenOK, Apart
    <3> QED BY <3>4, <3>5
  <2>3. ASSUME outcome = "cyclic" PROVE Cyclic
    <3>1. ready = {} /\ DOMAIN events # Indices /\ DOMAIN events \in SUBSET Indices
      BY <2>1, <2>3 DEF SInv, IsGiven
    <3>2. \A i \in Indices \ DOMAIN events : ~(Op(i).deps \subseteq DOMAIN events)
      BY <2>1, <3>1 DEF ReadyExact, Runnable
    <3> QED BY <2>1, <3>1, <3>2, TakenFacts
  <2>4. ASSUME outcome = "scheduled" PROVE ~Cyclic /\ AcceptsMeasurement /\ NoNeedlessDelay
    <3>1. DOMAIN events = Indices /\ Acyclic(Indices)
      BY <2>1, <2>4 DEF SInv, GivenOK
    <3>2. ~Cyclic
      BY <2>1, <3>1, TakenFacts
    <3>3. AcceptsMeasurement
      BY <2>1, <3>1, TracesAreAccepted
    <3>4. ASSUME NEW i \in DOMAIN events, NEW t \in Earliest(events, i) .. events[i].start - 1
          PROVE  \E j \in DOMAIN events \ {i} :
                   Exclusive(i, j) /\ Overlap(events[j], [start |-> t, end |-> t + Op(i).duration])
      <4>1. i \in Indices /\ Op(i).deps \subseteq DOMAIN events /\ events[i].start \in Nat
        BY <2>1 DEF GivenOK, Behind, IsGiven
      <4>2. Earliest(events, i) \in Nat
        BY <2>1, <4>1, EarliestFacts
      <4>3. t \in Nat /\ Earliest(events, i) <= t /\ t < events[i].start
        BY <3>4, <4>1, <4>2
      <4>4. PICK j \in DOMAIN events \ {i} : Exclusive(i, j) /\ Takes(events, j, t, Op(i).duration)
        BY <2>1, <4>3 DEF GivenOK, Prompt, Delayed
      <4>5. Overlap(events[j], [start |-> t, end |-> t + Op(i).duration])
        BY <4>4 DEF Takes, Overlap
      <4> QED BY <4>4, <4>5
    <3>5. NoNeedlessDelay
      BY <3>4 DEF NoNeedlessDelay
    <3> QED BY <3>2, <3>3, <3>5
  <2> QED BY <2>2, <2>3, <2>4 DEF ScheduleIsFeasible
<1> QED BY <1>1, <1>2

\* Under either policy an operation is behind its dependencies, alone on its
\* resources and no later than need be, a finished trace is one that would be
\* taken as measured, and the scheduler gives up exactly on cycles: for every
\* execution that OperationSpec and ExecutionSpec accept (schedule_execution).
THEOREM SchedulesAreFeasible == ScheduleSpec => []ScheduleIsFeasible
<1>1. SInv => ScheduleIsFeasible
  BY SInvIsFeasible
<1> QED BY <1>1, SInvHolds, PTL

LEMMA StepsAreEarliest ==
  ASSUME SInv, [Begins \/ ScheduleNext]_scheduleVars, Chronological, outcome = "scheduling",
         NEW i \in DOMAIN events' \ DOMAIN events
  PROVE  /\ \A j \in DOMAIN events : events[j].start <= events'[i].start
         /\ \A k \in Runnable(events) \ {i} :
              Before(<<events'[i].start, i>>, <<StartOf(events, k), k>>)
<1>1. Dispatch
  <2>1. events' # events
    OBVIOUS
  <2> QED BY <2>1 DEF ScheduleNext, Begins, Refresh, EndSchedule, scheduleVars
<1> DEFINE entry == Top(ready)
           d == entry[2]
<1>2. /\ ready # {} /\ ~Stale(entry, StartOf(events, d))
      /\ events' = Dispatched(events, d)
  BY <1>1 DEF Dispatch, Dispatched
<1>3. d \in Runnable(events) /\ KeysBound
  BY <1>2, PoppedFacts
<1>4. \A k \in Runnable(events) \ {d} : Before(<<StartOf(events, d), d>>, <<StartOf(events, k), k>>)
  BY <1>2, DispatchedIsFirst
<1> HIDE DEF entry
<1>5. i = d /\ events'[i].start = StartOf(events, d)
  BY <1>2 DEF Dispatched
<1>6. \A j \in DOMAIN events : events[j].start <= StartOf(events, d)
  BY <1>3 DEF KeysBound
<1> QED BY <1>4, <1>5, <1>6

\* Under earliest_ready the operation that is dispatched is, of all that could
\* be, the one that could start first, and none starts before one dispatched
\* earlier, though the keys of the heap may be outdated (schedule_execution,
\* "let an earlier runnable operation go first").
THEOREM DispatchesAreEarliest == ScheduleSpec => EarliestRunsFirst
<1>1. SInv /\ [Begins \/ ScheduleNext]_scheduleVars =>
        [Chronological /\ outcome = "scheduling" =>
           \A i \in DOMAIN events' \ DOMAIN events :
             /\ \A j \in DOMAIN events : events[j].start <= events'[i].start
             /\ \A k \in Runnable(events) \ {i} :
                  Before(<<events'[i].start, i>>, <<StartOf(events, k), k>>)]_scheduleVars
  BY StepsAreEarliest
<1> QED BY <1>1, SInvHolds, PTL DEF ScheduleSpec, EarliestRunsFirst
=============================================================================
