-------------------------- MODULE OfflinePlanning --------------------------
(***************************************************************************)
(* Everything that is decided before a device runs, in one specification:  *)
(* the estimate of an H3 block, from its graph to the statistics of its    *)
(* schedule, the scheduler on arbitrary small executions, and the planners *)
(* (chunk sizes, query tasks, pages, ranges of devices, the choice among   *)
(* candidates) on small requests.  A planner is a function: its request is *)
(* the whole of its state.                                                 *)
(***************************************************************************)
EXTENDS H3Estimate, AttentionPlans

CONSTANTS
  Blocks,        \* the configurations estimated
  Executions,    \* the executions scheduled
  Requests,      \* of build_attention_plan
  Batches,       \* [batch, chunk, target, alignment]
  Fleets,        \* [batch, devices]
  Selections        \* [candidates, fraction, cap]

ASSUME ExecutionsAssumption == \A x \in Executions : IsExecution(x)

VARIABLE request \* of a planner

vars == <<scheduleVars, estimateVars, request>>

None == [of |-> "none"]
As(name, what) == [of |-> name, what |-> what]

Idle(x, begun) ==
  /\ execution = x /\ events = <<>>
  /\ ready = FirstReady(x)
  /\ outcome = IF begun THEN "scheduling" ELSE "none"
  /\ graph = NoGraph /\ builder = NoBuilder

Init ==
  \/ \E c \in Blocks : config = c /\ request = None /\ Idle(NoExecution, FALSE)
  \/ \E x \in Executions : config = [mode |-> "none"] /\ request = None /\ Idle(x, TRUE)
  \/ /\ \/ \E r \in Requests : request = As("plan", r)
        \/ \E b \in Batches : request = As("cut", b)
        \/ \E f \in Fleets : request = As("fleet", f)
        \/ \E c \in Selections : request = As("choice", c)
     /\ config = [mode |-> "none"] /\ Idle(NoExecution, FALSE)

Estimate == config.mode # "none" /\ EstimateNext /\ UNCHANGED request
Schedule == ScheduleNext /\ UNCHANGED <<estimateVars, request>>

Next == Estimate \/ Schedule

Spec == Init /\ [][Next]_vars

-----------------------------------------------------------------------------

Is(name) == request.of = name
Asked == request.what

\* The multiples of the block among the chunks that were not taken, larger than
\* the one that was.
LargerChunks(r, chunk) == {q \in chunk + 1 .. r.maxQ : q % r.blockM = 0}

\* "q chunk is the largest aligned chunk that fits" (design_v0.4_execution_
\* refactor.md:33): a resolved plan keeps its workspace within the budget with
\* chunks of whole blocks, no larger one would fit when the planner chose it,
\* and it raises only when not even one block fits.
PlanIsLargest(r) ==
  LET plan == AttentionPlan(r)
      least == AtMost(r.blockM, r.maxQ)
  IN  IF "raised" \in DOMAIN plan
      THEN /\ r.budget # 0
           /\ r.q = 0 => WorkspaceBytes(r, least, NormalizeChunk(r.kv, r.maxKv, r.blockN)) > r.budget
      ELSE /\ plan.q \in 1 .. r.maxQ /\ plan.kv \in 1 .. r.maxKv
           /\ plan.kv % r.blockN = 0 \/ plan.kv = r.maxKv
           /\ plan.q % r.blockM = 0 \/ plan.q = r.maxQ
           /\ r.budget # 0 =>
                /\ plan.bytes <= r.budget
                /\ r.q = 0 => \A q \in LargerChunks(r, plan.q) :
                                WorkspaceBytes(r, q, plan.kv) > r.budget

\* The sparse runtime of a plan fits the plan's budget with its own summaries
\* and transport; it gives up a K/V block only when one Q block is left, no
\* block it could have kept, and everything only when one block of each is too
\* much (sparse/plan.py).
SolIsLargest(r) ==
  LET plan == AttentionPlan(r)
      sol == SolPlan(r, plan)
      q == RouteChunk(plan.q, r.maxQ)
      kv == RouteChunk(plan.kv, r.maxKv)
      least(maximum) == AtMost(RouteBlock, maximum)
      fits(a, b) == r.budget = 0 \/ SolBytes(r, a, b) <= r.budget
  IN  "raised" \in DOMAIN plan \/
      IF "raised" \in DOMAIN sol
      THEN 0 \in {q, kv} \/ ~fits(least(r.maxQ), least(r.maxKv))
      ELSE /\ sol.q \in least(r.maxQ) .. q /\ sol.kv \in least(r.maxKv) .. kv
           /\ fits(sol.q, sol.kv)
           /\ sol.q < q /\ sol.kv = kv => ~fits(AtMost(q, sol.q + RouteBlock), kv)
           /\ sol.kv < kv =>
                sol.q = least(r.maxQ) /\ ~fits(sol.q, AtMost(kv, sol.kv + RouteBlock))

PlansFitTheirBudget == Is("plan") => PlanIsLargest(Asked) /\ SolIsLargest(Asked)

\* The pieces of a sequence of records cover the non-empty segments in order
\* without gap or overlap, and none crosses a bound.
CutsSegments(pieces, start(_), stop(_), bounds, first, last) ==
  /\ \A i \in DOMAIN pieces :
       /\ start(pieces[i]) < stop(pieces[i])
       /\ start(pieces[i]) = (IF i = 1 THEN first ELSE stop(pieces[i - 1]))
       /\ \A s \in DOMAIN bounds : ~(start(pieces[i]) < bounds[s] /\ bounds[s] < stop(pieces[i]))
  /\ IF pieces = <<>> THEN first = last ELSE stop(Last(pieces)) = last

\* However a batch is cut - into query tasks of a range, into pages, into the Q
\* chunks and projection tiles of a sparse segment - each token is in exactly
\* one piece, in order; no piece crosses a segment or its capacity; a sparse
\* piece begins on a routing block; the Q chunks of a sparse segment differ by
\* a block at most ("without a small final Q tail", sparse/runner.py:52); and
\* the tasks pass their own validation (streaming/tasks.py, paged/layout.py,
\* sparse/materialized.py:139-197).
BatchIsPartitioned(b) ==
  LET total == Last(b.batch.q)
      pages == BuildPages(b.batch.q, b.target, b.alignment)
      stops(cut) == [i \in DOMAIN cut |-> [start |-> IF i = 1 THEN 0 ELSE cut[i - 1], stop |-> cut[i]]]
      whole(cut, capacity) ==
        /\ CutsSegments(stops(cut), LAMBDA p : p.start, LAMBDA p : p.stop, <<>>, 0, total)
        /\ \A i \in DOMAIN stops(cut) :
             /\ stops(cut)[i].start % RouteBlock = 0
             /\ stops(cut)[i].stop - stops(cut)[i].start <= capacity
  IN  /\ \A start \in 0 .. total : \A stop \in start .. total :
           LET tasks == BuildTasks(b.batch, b.chunk, start, stop)
           IN  /\ CutsSegments(tasks, LAMBDA t : t.start, LAMBDA t : t.stop, b.batch.q, start, stop)
               /\ AcceptsTasks(b.batch, b.chunk, tasks)
      /\ CutsSegments(pages, LAMBDA p : p.start, LAMBDA p : p.start + p.valid, b.batch.q, 0, total)
      /\ \A i \in DOMAIN pages :
           /\ pages[i].padded \in pages[i].valid .. PageTokens(AtLeast(b.alignment, b.target), b.alignment)
           /\ pages[i].padded % b.alignment = 0
           /\ pages[i].start = b.batch.q[pages[i].segment] + pages[i].local
      /\ total > 0 /\ b.chunk % RouteBlock = 0 =>
           LET cut == BalancedStops(total, b.chunk, RouteBlock)
               blocks(i) == CeilDiv(stops(cut)[i].stop - stops(cut)[i].start, RouteBlock)
           IN  whole(cut, b.chunk) /\ \A i, j \in DOMAIN cut : blocks(i) <= blocks(j) + 1
      /\ CanEncode(total, b.chunk, RouteBlock) => whole(EncodedStops(total, b.chunk, RouteBlock), b.chunk)

CutsArePartitions == Is("cut") => BatchIsPartitioned(Asked)

Makespan(f, cuts, stops) ==
  Max({RangeSeconds(f.batch, f.devices[d], cuts[stops[d]], cuts[stops[d + 1]]) : d \in DOMAIN f.devices})

\* Every way to give each device a range between candidate cuts.
Partitions(cuts, devices) ==
  LET inner == kSubset(Len(devices) - 1, 2 .. Len(cuts) - 1)
  IN  {<<1>> \o SortedSet(chosen, <) \o <<Len(cuts)>> : chosen \in inner}

\* The static plan gives every device a contiguous range and finishes as early
\* as any plan over the same candidate cuts: the greedy ranges under a
\* threshold and the binary searches for it lose nothing, although a device's
\* time is not proportional to its rows (planning.py:156-272).
PartitionIsFastest ==
  Is("fleet") /\ ~TooShort(Asked.batch, Asked.devices) =>
    LET ranges == PartitionRanges(Asked.batch, Asked.devices)
        cuts == CandidateCuts(Asked.batch, Asked.devices)
        best == Min({Makespan(Asked, cuts, p) : p \in Partitions(cuts, Asked.devices)})
    IN  /\ Len(ranges) = Len(Asked.devices)
        /\ CutsSegments(ranges, LAMBDA r : r[1], LAMBDA r : r[2], <<>>, 0, Last(Asked.batch.q))
        /\ Max({RangeSeconds(Asked.batch, Asked.devices[d], ranges[d][1], ranges[d][2]) :
                  d \in DOMAIN ranges}) = best

Dominates(a, b) ==
  a.fits /\ a.peak <= b.peak /\ a.seconds <= b.seconds /\ (a.peak < b.peak \/ a.seconds < b.seconds)

\* The candidate chosen needs the least memory among those that fit every pool
\* and keep the target throughput of the fastest candidate, fitting or not
\* ("an insufficient capacity must not silently lower the target",
\* estimation/search.py:51-54), and lies on the reported Pareto front, which is
\* the undominated candidates, one of each value.
ChoiceIsLeastMemory ==
  Is("choice") =>
    LET c == Asked.candidates
        n == Selected(c, Asked.fraction, Asked.cap)
        intime(m) == /\ c[m].fits
                     /\ \A k \in DOMAIN c : c[m].seconds * Asked.fraction <= 100 * c[k].seconds
                     /\ Asked.cap # 0 => c[m].seconds <= Asked.cap
        front == {m \in DOMAIN c : c[m].fits /\ ~\E k \in DOMAIN c : Dominates(c[k], c[m])}
    IN  /\ IF n = 0 THEN \A m \in DOMAIN c : ~intime(m)
           ELSE intime(n) /\ n \in front /\ \A m \in DOMAIN c : intime(m) => c[n].peak <= c[m].peak
        /\ Pareto(c) \subseteq front
        /\ \A m \in front : \E k \in Pareto(c) : c[k] = c[m]
=============================================================================
