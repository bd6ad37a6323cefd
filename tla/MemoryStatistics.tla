-------------------------- MODULE MemoryStatistics --------------------------
(***************************************************************************)
(* What the estimator reports of a scheduled execution: the lifetimes of   *)
(* its buffers (estimation/schedule.py), occupancy, busy and overlap times *)
(* (estimation/memory.py), and the choice among candidates                 *)
(* (estimation/search.py).  A buffer is [pool, size, persistent, uses,     *)
(* keep]: keep is the operation of release_after, 0 for None.              *)
(***************************************************************************)
EXTENDS ExecutionSchedule

CONSTANT Alignment    \* a pool's allocation alignment, by pool

Interval(start, end) == [start |-> start, end |-> end]

\* sorted() of intervals
Sorted(intervals) ==
  SortedSet(intervals, LAMBDA a, b : a.start < b.start \/ (a.start = b.start /\ a.end < b.end))

MergeIntervals(intervals) ==
  LET add(merged, next) ==
        IF merged # <<>> /\ next.start <= Last(merged).end
        THEN [merged EXCEPT ![Len(merged)].end = Max({next.end, Last(merged).end})]
        ELSE Append(merged, next)
  IN  FoldLeft(add, <<>>, Sorted(intervals))

\* _lifetimes of one buffer
Lifetime(b) ==
  LET active == MergeIntervals({events[i] : i \in b.uses})
  IN  [start |-> IF b.persistent THEN 0 ELSE active[1].start,
       end |-> IF b.persistent THEN Duration
               ELSE IF b.keep # 0 THEN events[b.keep].end ELSE Last(active).end,
       bytes |-> ((b.size + Alignment[b.pool] - 1) \div Alignment[b.pool]) * Alignment[b.pool],
       persistent |-> b.persistent,
       active |-> active]

\* "buffer lifetime does not cover every use"
Covered(life) ==
  /\ life.start <= life.end
  /\ \A n \in DOMAIN life.active :
       life.start <= life.active[n].start /\ life.active[n].end <= life.end

Sum(op(_), S) == MapThenSumSet(op, S)

Allocated(lives, t) ==
  Sum(LAMBDA n : IF lives[n].start = t THEN lives[n].bytes ELSE 0, DOMAIN lives)

Freed(lives, t) ==
  Sum(LAMBDA n : IF lives[n].end = t /\ ~lives[n].persistent THEN lives[n].bytes ELSE 0,
      DOMAIN lives)

\* Mutant: at one time allocations are booked, and seen, before releases.
OccupiedAllocatingFirst(before, lives, t) == before + Allocated(lives, t)

\* The occupancy the peak is taken of: what is allocated and freed at one time
\* is booked at once.
Occupied(before, lives, t) == before + Allocated(lives, t) - Freed(lives, t)

ActiveChange(lives, t) ==
  Sum(LAMBDA n : lives[n].bytes *
        (Cardinality({m \in DOMAIN lives[n].active : lives[n].active[m].start = t})
          - Cardinality({m \in DOMAIN lives[n].active : lives[n].active[m].end = t})),
      DOMAIN lives)

\* memory_statistics of the buffers of a pool, a sequence of lifetimes: the
\* occupancy is swept over the times at which anything changes.
PoolStatistics(lives) ==
  LET uses(n) == ToSet(lives[n].active)
      times == SortedSet(
        {0, Duration} \cup UNION {{lives[n].start} : n \in DOMAIN lives}
          \cup {lives[n].end : n \in {m \in DOMAIN lives : ~lives[m].persistent}}
          \cup UNION {{u.start : u \in uses(n)} \cup {u.end : u \in uses(n)} : n \in DOMAIN lives},
        <)
      sweep[n \in 0 .. Len(times)] ==
        IF n = 0
        THEN [total |-> 0, active |-> 0, peak |-> 0, at |-> 0, activePeak |-> 0,
              area |-> 0, last |-> 0]
        ELSE LET s == sweep[n - 1]
                 t == times[n]
                 total == s.total + Allocated(lives, t) - Freed(lives, t)
                 seen == Occupied(s.total, lives, t)
                 active == s.active + ActiveChange(lives, t)
             IN  [total |-> total, active |-> active,
                  peak |-> Max({s.peak, seen}),
                  at |-> IF seen > s.peak THEN t ELSE s.at,
                  activePeak |-> Max({s.activePeak, active}),
                  area |-> s.area + s.total * (t - s.last),
                  last |-> t]
  IN  sweep[Len(times)]

\* _intersection_seconds of two merged sequences
Intersection(left, right) ==
  LET walk[i \in Nat, j \in Nat] ==
        IF i > Len(left) \/ j > Len(right) THEN 0
        ELSE Max({0, Min({left[i].end, right[j].end}) - Max({left[i].start, right[j].start})})
               + (IF left[i].end <= right[j].end THEN walk[i + 1, j] ELSE walk[i, j + 1])
  IN  walk[1, 1]

OfKind(kind) == MergeIntervals({events[i] : i \in {j \in Indices : Op(j).kind = kind}})

Busy(resource) ==
  LET merged == MergeIntervals({events[i] : i \in {j \in Indices : resource \in Op(j).resources}})
  IN  Sum(LAMBDA n : merged[n].end - merged[n].start, DOMAIN merged)

-----------------------------------------------------------------------------
(* estimate_activation_memory: candidates are [peak, seconds, fits].       *)

\* Mutant: the reference is the fastest candidate that fits.
LimitOfFitting(candidates, fraction, cap) ==
  LET fitting == {c \in ToSet(candidates) : c.fits}
      relative == (100 * (IF fitting = {} THEN 0 ELSE Min({c.seconds : c \in fitting}))) \div fraction
  IN  IF cap = 0 THEN relative ELSE Min({relative, cap})

\* The latency limit: the fastest candidate's, fitting or not, over the target
\* fraction (in percent), and the cap, 0 for none.
Limit(candidates, fraction, cap) ==
  LET relative == (100 * Min({c.seconds : c \in ToSet(candidates)})) \div fraction
  IN  IF cap = 0 THEN relative ELSE Min({relative, cap})

\* The fitting candidates by peak, then time, in the order they were supplied.
Ordered(candidates) ==
  LET key(n) == candidates[n]
  IN  SortedSet({n \in DOMAIN candidates : candidates[n].fits},
        LAMBDA a, b : \/ key(a).peak < key(b).peak
                      \/ key(a).peak = key(b).peak /\ key(a).seconds < key(b).seconds
                      \/ key(a).peak = key(b).peak /\ key(a).seconds = key(b).seconds /\ a < b)

Pareto(candidates) ==
  LET ordered == Ordered(candidates)
      faster(n) == \A m \in 1 .. n - 1 :
                     candidates[ordered[n]].seconds < candidates[ordered[m]].seconds
  IN  {ordered[n] : n \in {m \in DOMAIN ordered : faster(m)}}

\* The first in order within the limit, 0 for None.
Selected(candidates, fraction, cap) ==
  LET ordered == Ordered(candidates)
      within == {n \in DOMAIN ordered :
                   candidates[ordered[n]].seconds <= Limit(candidates, fraction, cap)}
  IN  IF within = {} THEN 0 ELSE ordered[Min(within)]
-----------------------------------------------------------------------------

Pools == {b.pool : b \in ToSet(execution.buffers)}

Lives(pool) ==
  LET mine == SelectSeq(execution.buffers, LAMBDA b : b.pool = pool)
  IN  [n \in DOMAIN mine |-> Lifetime(mine[n])]

\* The memory a pool holds between t and t + 1, counted buffer by buffer.
HeldAt(lives, t) ==
  Sum(LAMBDA n : IF lives[n].start <= t /\ (t < lives[n].end \/ lives[n].persistent)
                 THEN lives[n].bytes ELSE 0, DOMAIN lives)

UsedAt(lives, t) ==
  Sum(LAMBDA n : IF \E a \in ToSet(lives[n].active) : a.start <= t /\ t < a.end
                 THEN lives[n].bytes ELSE 0, DOMAIN lives)

Instants == 0 .. Duration - 1

BusyAt(t, chosen(_)) ==
  \E i \in Indices : chosen(Op(i)) /\ events[i].start <= t /\ t < events[i].end

Seconds(chosen(_)) == Cardinality({t \in Instants : BusyAt(t, chosen)})

\* The reported statistics are exact: peak occupancy, the time it is reached,
\* its integral, the peak of what is in use, busy and overlap seconds are those
\* counted instant by instant; and a buffer replaced by another at one time
\* makes no peak (estimation/memory.py:88-89).
StatisticsAreExact ==
  outcome = "scheduled" /\ Duration > 0 =>
    /\ \A pool \in Pools :
         LET lives == Lives(pool)
             stats == PoolStatistics(lives)
         IN  /\ \A n \in DOMAIN lives : Covered(lives[n])
             /\ stats.peak = Max({HeldAt(lives, t) : t \in Instants})
             /\ stats.peak > 0 =>
                  stats.at = Min({t \in Instants : HeldAt(lives, t) = stats.peak})
             /\ stats.area = Sum(LAMBDA t : HeldAt(lives, t), Instants)
             /\ stats.activePeak = Max({UsedAt(lives, t) : t \in Instants})
    /\ \A r \in UNION {Op(i).resources : i \in Indices} :
         Busy(r) = Seconds(LAMBDA op : r \in op.resources)
    /\ Intersection(OfKind("compute"), OfKind("io"))
         = Cardinality({t \in Instants : /\ BusyAt(t, LAMBDA op : op.kind = "compute")
                                         /\ BusyAt(t, LAMBDA op : op.kind = "io")})
=============================================================================
