--------------------------- MODULE QueryPartition ---------------------------
(***************************************************************************)
(* How a packed batch is cut before it runs: into query tasks              *)
(* (streaming/tasks.py), into pages (paged/layout.py), into the chunks and *)
(* tiles of sparse attention (sparse/runner.py, sparse/materialized.py)    *)
(* and, over several devices, into one contiguous query range each (the    *)
(* multi-GPU package's planning.py).                                       *)
(*                                                                         *)
(* A batch is [q, k], the bounds of its segments (cu_seqlens               *)
(* with the leading 0); a device is [chunk, blockM, compute, bytes,        *)
(* overhead]: its Q chunk and its seconds per score, per token moved and   *)
(* per task, in units that make every time an integer.                     *)
(***************************************************************************)
EXTENDS Arithmetic, Sequences, FiniteSetsExt, SequencesExt

CONSTANT Bisections    \* the rounds of the threshold search (60 in the code)

Segments(bounds) == 1 .. Len(bounds) - 1

\* _bounds_from_cu, validate_cu_seqlens and the checks of build_query_tasks
ValidBatch(batch) ==
  /\ Len(batch.q) = Len(batch.k) /\ Len(batch.q) >= 2
  /\ \A bounds \in {batch.q, batch.k} :
       bounds[1] = 0 /\ \A s \in Segments(bounds) : bounds[s] <= bounds[s + 1]
  /\ \A s \in Segments(batch.q) :
       batch.q[s] < batch.q[s + 1] => batch.k[s] < batch.k[s + 1]

\* The half-open pieces of at most `size` that cut start:stop from its front.
Pieces(start, stop, size) ==
  [i \in 1 .. (IF start < stop THEN CeilDiv(stop - start, size) ELSE 0) |->
     <<start + (i - 1) * size, AtMost(start + i * size, stop)>>]

-----------------------------------------------------------------------------
(* Query tasks                                                             *)

Task(batch, s, piece) ==
  [start |-> piece[1], stop |-> piece[2], kStart |-> batch.k[s], kStop |-> batch.k[s + 1],
   local |-> piece[1] - batch.q[s],
   shift |-> (batch.k[s + 1] - batch.k[s]) - (batch.q[s + 1] - batch.q[s]),
   segment |-> s]

\* Mutant: chunks are cut from the whole range, across the segments.
BuildTasksAcross(batch, chunk, start, stop) ==
  LET pieces == Pieces(start, stop, chunk)
      home(p) == CHOOSE s \in Segments(batch.q) : batch.q[s] <= p[1] /\ p[1] < batch.q[s + 1]
  IN  [i \in DOMAIN pieces |-> Task(batch, home(pieces[i]), pieces[i])]

\* build_query_tasks: the chunks of each segment's part of start:stop.
BuildTasks(batch, chunk, start, stop) ==
  FlattenSeq([s \in Segments(batch.q) |->
    LET pieces == Pieces(AtLeast(batch.q[s], start), AtMost(batch.q[s + 1], stop), chunk)
    IN  [i \in DOMAIN pieces |-> Task(batch, s, pieces[i])]])

\* validate_query_task_inputs, with QueryTask.validate
AcceptsTasks(batch, chunk, tasks) ==
  \A i \in DOMAIN tasks :
    LET t == tasks[i]
    IN  /\ t.start >= 0 /\ t.start < t.stop /\ t.kStart < t.kStop /\ t.local >= 0
        /\ t.start >= (IF i = 1 THEN 0 ELSE tasks[i - 1].stop)
        /\ t.stop <= Last(batch.q) /\ t.kStop <= Last(batch.k)
        /\ t.stop - t.start <= chunk
        /\ t.local + (t.stop - t.start) <= (t.kStop - t.kStart) - t.shift

-----------------------------------------------------------------------------
(* Pages                                                                   *)

\* build_page_descriptors: pages of the largest aligned size in the target,
\* the last one of a segment padded to the alignment.
PageTokens(target, alignment) == AtLeast(alignment, target - (target % alignment))

BuildPages(bounds, target, alignment) ==
  FlattenSeq([s \in Segments(bounds) |->
    LET pieces == Pieces(bounds[s], bounds[s + 1], PageTokens(AtLeast(alignment, target), alignment))
    IN  [i \in DOMAIN pieces |->
           [segment |-> s, start |-> pieces[i][1], local |-> pieces[i][1] - bounds[s],
            valid |-> pieces[i][2] - pieces[i][1],
            padded |-> CeilDiv(pieces[i][2] - pieces[i][1], alignment) * alignment]]])

-----------------------------------------------------------------------------
(* Sparse attention: routing blocks have a fixed number of tokens, and Q   *)
(* chunks and projection tiles begin on a block of their segment.  A cut   *)
(* is given by the sequence of its stops.                                  *)

AtLeast0(a, b) == IF a > b THEN a - b ELSE 0

\* Mutant: the chunks are filled from the front, the tail is what is left.
GreedyStops(tokens, maxChunk, block) ==
  [i \in 1 .. CeilDiv(tokens, maxChunk) |->
     IF i * maxChunk < tokens THEN i * maxChunk ELSE tokens]

\* _balanced_q_ranges: as few chunks as maxChunk allows, of almost the same
\* number of blocks, the larger ones last.
BalancedStops(tokens, maxChunk, block) ==
  LET chunks == CeilDiv(tokens, maxChunk)
      blocks == CeilDiv(tokens, block)
      larger == blocks % chunks
      before(i) == (blocks \div chunks) * i + AtLeast0(i, chunks - larger)
  IN  [i \in 1 .. chunks |-> IF i = chunks THEN tokens ELSE before(i) * block]

\* SolMaterializedSource.prepare: the projection ranges of a segment are the
\* largest multiples of the block in a tile, until the rest fits one.
EncodedStops(tokens, tile, block) ==
  LET aligned == tile - (tile % block)
      count == IF tokens <= tile THEN 1 ELSE 1 + CeilDiv(tokens - tile, aligned)
  IN  IF tokens = 0 THEN <<>>
      ELSE [i \in 1 .. count |-> IF i = count THEN tokens ELSE i * aligned]

\* It raises when a segment is longer than a tile smaller than a block.
CanEncode(tokens, tile, block) == tokens <= tile \/ tile >= block

-----------------------------------------------------------------------------
(* One range per device                                                    *)

TaskSeconds(device, t) ==
  LET q == t.stop - t.start
      k == t.kStop - t.kStart
  IN  AtLeast(device.compute * q * k, device.bytes * (q + 2 * k)) + device.overhead

RangeSeconds(batch, device, start, stop) ==
  LET tasks == BuildTasks(batch, device.chunk, start, stop)
  IN  FoldFunction(LAMBDA t, sum : TaskSeconds(device, t) + sum, 0, tasks)

\* The segment bounds and the multiples of the smallest block inside them.
CandidateCuts(batch, devices) ==
  LET alignment == Min({devices[d].blockM : d \in DOMAIN devices})
      inside(s) == {c \in batch.q[s] .. batch.q[s + 1] : (c - batch.q[s]) % alignment = 0}
      cuts == ToSet(batch.q) \cup UNION {inside(s) : s \in Segments(batch.q)}
  IN  SortSeq(FoldSet(LAMBDA c, listed : Append(listed, c), <<>>, cuts), <)

\* _furthest_cut: the binary search over first..last, 0 when none is in time.
FurthestCut(seconds(_), first, last, threshold) ==
  LET search[low \in Nat, high \in Nat, best \in Nat] ==
        LET middle == (low + high) \div 2
        IN  IF low > high THEN best
            ELSE IF seconds(middle) <= threshold THEN search[middle + 1, high, middle]
            ELSE search[low, middle - 1, best]
  IN  search[first, last, 0]

\* Mutant: a device may take what the devices after it need.
LastCutGreedy(cuts, devices, d) == Len(cuts)

\* Each device after d keeps at least one candidate.
LastCut(cuts, devices, d) == Len(cuts) - (Len(devices) - d)

\* _partition_for_threshold: the stops of the ranges as indices of `cuts`, <<>>
\* when some device cannot keep the threshold.  Times are scaled by `scale`.
PartitionFor(batch, devices, cuts, scale, threshold) ==
  LET seconds(d, a, b) == scale * RangeSeconds(batch, devices[d], cuts[a], cuts[b])
      extended(stops, cut) == IF cut = 0 THEN <<>> ELSE Append(stops, cut)
      given(d, stops) ==
        IF stops = <<>> THEN <<>>
        ELSE extended(stops, FurthestCut(LAMBDA b : seconds(d, Last(stops), b), Last(stops) + 1,
                                         LastCut(cuts, devices, d), threshold))
      closed(stops) ==
        IF stops = <<>> THEN <<>>
        ELSE IF Last(stops) >= Len(cuts) \/ seconds(Len(devices), Last(stops), Len(cuts)) > threshold
        THEN <<>>
        ELSE Append(stops, Len(cuts))
  IN  closed(FoldLeft(LAMBDA stops, d : given(d, stops), <<1>>, [d \in 1 .. Len(devices) - 1 |-> d]))

\* _partition_query_ranges: bisection of the makespan between 0 and the longest
\* time one device alone would take; the last partition found.
PartitionRanges(batch, devices) ==
  LET cuts == CandidateCuts(batch, devices)
      scale == 2 ^ Bisections
      longest == scale * Max({RangeSeconds(batch, devices[d], 0, Last(batch.q)) :
                                d \in DOMAIN devices})
      narrowed(r, middle, found) ==
        IF found = <<>> THEN [r EXCEPT !.lower = middle]
        ELSE [r EXCEPT !.upper = middle, !.best = found]
      bisected(r, middle) ==
        narrowed(r, middle, PartitionFor(batch, devices, cuts, scale, middle))
      end == FoldLeft(LAMBDA r, i : bisected(r, (r.lower + r.upper) \div 2),
                      [lower |-> 0, upper |-> longest, best |-> <<>>], [i \in 1 .. Bisections |-> i])
      ranges(best) == [d \in 1 .. Len(best) - 1 |-> <<cuts[best[d]], cuts[best[d + 1]]>>]
  IN  ranges(end.best)

\* "the query sequence is too short to assign work to every GPU"
TooShort(batch, devices) == Len(CandidateCuts(batch, devices)) <= Len(devices)
=============================================================================
