------------------------- MODULE ExecutionSchedule -------------------------
(***************************************************************************)
(* The list scheduler of the offline estimator (estimation/schedule.py).   *)
(* An execution is [policy, ops, buffers]: operations with a duration, the *)
(* resources they hold exclusively, the operations they depend on and a    *)
(* kind.  schedule_execution keeps a heap of <<key, index>> entries and    *)
(* gives the operation it pops the first gap of its resources' calendars.  *)
(***************************************************************************)
EXTENDS Integers, Sequences, FiniteSetsExt, SequencesExt

VARIABLES
  execution,    \* the execution being scheduled
  ready,        \* the heap, a set of <<key, index>>
  events,       \* the intervals given out: index -> [start, end]
  outcome       \* "none", "scheduling", "scheduled" or "cyclic"

scheduleVars == <<execution, ready, events, outcome>>

Indices == DOMAIN execution.ops
Op(i) == execution.ops[i]
Chronological == execution.policy = "earliest_ready"

\* sorted() of a set of distinct values.
SortedSet(S, before(_, _)) ==
  SortSeq(FoldSet(LAMBDA x, listed : Append(listed, x), <<>>, S), before)

\* What is checked of an operation and of an execution when they are made: a
\* control has no resources and takes no time, any other takes some.
IsOperation(op, n) ==
  /\ op.duration \in Nat
  /\ op.deps \subseteq 1 .. n
  /\ IsFiniteSet(op.resources)
  /\ op.kind = "control" => op.duration = 0 /\ op.resources = {}
  /\ op.kind # "control" => op.duration # 0 /\ op.resources # {}

IsExecution(x) ==
  /\ x.policy \in {"input_order", "earliest_ready"}
  /\ x.ops \in Seq({x.ops[i] : i \in DOMAIN x.ops})
  /\ \A i \in DOMAIN x.ops : IsOperation(x.ops[i], Len(x.ops))

NoExecution == [policy |-> "none", ops |-> <<>>, buffers |-> <<>>]

\* The order of heapq on the entries.
Before(a, b) == a[1] < b[1] \/ (a[1] = b[1] /\ a[2] < b[2])
Top(heap) == CHOOSE entry \in heap : \A other \in heap \ {entry} : Before(entry, other)

Ends(given, ops) == {given[d].end : d \in ops}
Earliest(given, i) == Max({0} \cup Ends(given, Op(i).deps))

\* _first_gap: from `earliest`, move behind the first interval of a resource's
\* calendar that does not leave room for the operation until none is left.
Obstacle(given, resource, start, duration) ==
  LET open == {e \in DOMAIN given : resource \in Op(e).resources /\ given[e].end > start}
      first == CHOOSE e \in open : \A other \in open : given[e].start <= given[other].start
  IN  IF open # {} /\ given[first].start < start + duration THEN given[first].end ELSE start

\* Mutant: one pass over the resources, each from where the last one ended.
OnePassGap(given, resources, earliest, duration) ==
  Max({earliest} \cup {Obstacle(given, r, earliest, duration) : r \in resources})

FirstGap(given, resources, earliest, duration) ==
  LET gap[start \in Nat] ==
        LET blocked == Max({start} \cup {Obstacle(given, r, start, duration) : r \in resources})
        IN  IF blocked = start THEN start ELSE gap[blocked]
  IN  gap[earliest]

StartOf(given, i) == FirstGap(given, Op(i).resources, Earliest(given, i), Op(i).duration)

\* The entries of the operations without dependencies.
FirstReady(x) ==
  {<<IF x.policy = "earliest_ready" THEN 0 ELSE i, i>> :
     i \in {j \in DOMAIN x.ops : x.ops[j].deps = {}}}

\* The operations whose last dependency is i.
Released(given, i) ==
  {c \in Indices : i \in Op(c).deps /\ Op(c).deps \subseteq DOMAIN given}

\* Mutant: a popped entry is dispatched although another one may start earlier.
RefreshNever(entry, start) == FALSE

\* The popped entry is behind the next one once its start is known.
Stale(entry, start) ==
  /\ Chronological
  /\ ready \ {entry} # {}
  /\ Before(Top(ready \ {entry}), <<start, entry[2]>>)

Refresh ==
  /\ outcome = "scheduling" /\ ready # {}
  /\ LET entry == Top(ready)
         start == StartOf(events, entry[2])
     IN  /\ Stale(entry, start)
         /\ ready' = (ready \ {entry}) \cup {<<start, entry[2]>>}
  /\ UNCHANGED <<execution, events, outcome>>

Dispatch ==
  /\ outcome = "scheduling" /\ ready # {}
  /\ LET entry == Top(ready)
         i == entry[2]
         start == StartOf(events, i)
         given == [j \in DOMAIN events \cup {i} |->
                     IF j = i THEN [start |-> start, end |-> start + Op(i).duration]
                     ELSE events[j]]
     IN  /\ ~Stale(entry, start)
         /\ events' = given
         /\ ready' = (ready \ {entry}) \cup
                       {<<IF Chronological THEN Earliest(given, c) ELSE c, c>> :
                          c \in Released(given, i)}
  /\ UNCHANGED <<execution, outcome>>

\* "operation dependencies contain a cycle"
EndSchedule ==
  /\ outcome = "scheduling" /\ ready = {}
  /\ outcome' = IF DOMAIN events = Indices THEN "scheduled" ELSE "cyclic"
  /\ UNCHANGED <<execution, ready, events>>

ScheduleNext == Refresh \/ Dispatch \/ EndSchedule

StartSchedule(x) ==
  /\ execution' = x
  /\ ready' = FirstReady(x)
  /\ events' = <<>>
  /\ outcome' = "scheduling"

Duration == Max({0} \cup {events[i].end : i \in DOMAIN events})

-----------------------------------------------------------------------------
(* What a schedule is                                                      *)

Overlap(a, b) == a.start < b.end /\ b.start < a.end

Exclusive(i, j) == Op(i).resources \cap Op(j).resources # {}

\* Some operations cannot be put in an order that respects the dependencies:
\* they are left when those that depend only on others taken are taken in turn.
Cyclic ==
  LET taken[n \in 0 .. Len(execution.ops)] ==
        IF n = 0 THEN {}
        ELSE LET before == taken[n - 1]
             IN  before \cup {i \in Indices : Op(i).deps \subseteq before}
  IN  taken[Len(execution.ops)] # Indices

\* trace_from_measurements accepts the intervals as measured times: positive
\* except for controls, behind their dependencies, and none of a resource's
\* sorted intervals beyond the start of the next.
AcceptsMeasurement ==
  LET ahead(a, b) == \/ events[a].start < events[b].start
                     \/ events[a].start = events[b].start /\ events[a].end < events[b].end
      calendar(r) == {i \in Indices : r \in Op(i).resources}
  IN  /\ \A i \in Indices :
           /\ (Op(i).kind = "control") = (events[i].start = events[i].end)
           /\ \A d \in Op(i).deps : events[d].end <= events[i].start
      /\ \A r \in UNION {Op(i).resources : i \in Indices} : \A a, b \in calendar(r) :
           \/ a = b \/ ahead(b, a)
           \/ events[a].end <= events[b].start
           \/ \E c \in calendar(r) : ahead(a, c) /\ ahead(c, b)

\* No operation waits without reason: at any earlier time it was ready, one of
\* its resources was taken before the operation would have been done with it.
Runnable(given) == {i \in Indices \ DOMAIN given : Op(i).deps \subseteq DOMAIN given}

NoNeedlessDelay ==
  \A i \in DOMAIN events :
    \A t \in Earliest(events, i) .. events[i].start - 1 :
      \E j \in DOMAIN events \ {i} :
        Exclusive(i, j) /\ Overlap(events[j], [start |-> t, end |-> t + Op(i).duration])

\* Whatever the policy, the scheduler puts every operation behind its
\* dependencies, no two on a resource at once, none later than it need be, and
\* ends with a trace it would take as measured; it gives up exactly on cyclic
\* dependencies (estimation/schedule.py: schedule_execution, _first_gap,
\* trace_from_measurements).
ScheduleIsFeasible ==
  /\ \A i \in DOMAIN events :
       /\ \A d \in Op(i).deps : d \in DOMAIN events /\ events[d].end <= events[i].start
       /\ \A j \in DOMAIN events \ {i} :
            Exclusive(i, j) => ~Overlap(events[i], events[j])
  /\ outcome = "cyclic" => Cyclic
  /\ outcome = "scheduled" => ~Cyclic /\ AcceptsMeasurement /\ NoNeedlessDelay

\* Under earliest_ready an operation is dispatched only when none that is ready
\* could start before it, or with it and ahead of it in the input, and never
\* before one already dispatched: "future copies cannot reserve compute ahead of
\* a runnable GEMM" (estimation/schedule.py:93-97).  The heap holds outdated
\* lower bounds of the starts, refreshed only when they are popped.
EarliestRunsFirst ==
  [][Chronological /\ outcome = "scheduling" =>
       \A i \in DOMAIN events' \ DOMAIN events :
         /\ \A j \in DOMAIN events : events[j].start <= events'[i].start
         /\ \A k \in Runnable(events) \ {i} :
              Before(<<events'[i].start, i>>, <<StartOf(events, k), k>>)]_scheduleVars
=============================================================================
