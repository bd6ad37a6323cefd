---------------------------- MODULE QueryCursor ----------------------------
(***************************************************************************)
(* The dispatcher the workers of one multi-GPU attention call claim query  *)
(* ranges from (dynamic.py, DynamicQueryCursor).                           *)
(*                                                                         *)
(* Q tokens are numbered from QBounds[1]; segment s is the half-open range *)
(* QBounds[s] .. QBounds[s + 1] - 1, and may be empty.  A task never       *)
(* crosses a segment, because each segment has its own K/V range.  Every   *)
(* operation below runs under the cursor's lock: it is one atomic step.    *)
(* claim_order, which only sorts the trace, is left out.                   *)
(***************************************************************************)
EXTENDS Arithmetic, Sequences, FiniteSets

CONSTANTS
  Workers,          \* one worker thread per device
  QBounds,          \* q_bounds
  TailNum, TailDen  \* tail_balance_factor = TailNum / TailDen

ASSUME CursorAssumption ==
  /\ IsFiniteSet(Workers) /\ Workers # {}
  /\ QBounds \in Seq(Nat) /\ Len(QBounds) >= 2
  /\ \A i, j \in 1 .. Len(QBounds) : i <= j => QBounds[i] <= QBounds[j]
  /\ TailNum \in Nat \ {0} /\ TailDen \in Nat \ {0}

VARIABLES
  segment,    \* _segment_id, from 1
  qOffset,    \* _q_offset
  remaining,  \* _remaining_unclaimed
  retired,    \* _retired_workers; _active_workers counts the others
  cancelled   \* _cancelled

cursorVars == <<segment, qOffset, remaining, retired, cancelled>>

-----------------------------------------------------------------------------
NumSegments == Len(QBounds) - 1
Segments == 1 .. NumSegments
FirstToken == QBounds[1]
EndToken == QBounds[NumSegments + 1]
Span(start, stop) == start .. stop - 1
Tokens == Span(FirstToken, EndToken)

ActiveWorkers == Cardinality(Workers \ retired)

\* A new cursor, as each call makes one.
FreshCursor ==
  /\ segment' = 1
  /\ qOffset' = FirstToken
  /\ remaining' = EndToken - FirstToken
  /\ retired' = {}
  /\ cancelled' = FALSE

CursorInit ==
  /\ segment = 1
  /\ qOffset = FirstToken
  /\ remaining = EndToken - FirstToken
  /\ retired = {}
  /\ cancelled = FALSE

Cancel ==
  /\ cancelled' = TRUE
  /\ UNCHANGED <<segment, qOffset, remaining, retired>>

RetireWorker(w) ==
  /\ retired' = retired \cup {w}
  /\ UNCHANGED <<segment, qOffset, remaining, cancelled>>

-----------------------------------------------------------------------------
\* Where claiming goes on once it has advanced to segment s.
OffsetIn(s) == IF s = segment THEN qOffset ELSE QBounds[s]

\* No token of segment s is left.  Tokens are given out in order, so for a
\* segment not yet entered this means that it is empty, too.
Emptied(s) == qOffset >= QBounds[s + 1]

\* Mutant: at most one empty segment is skipped.
IsOpenSegmentSkippingOne(s) ==
  /\ s \in Segments /\ s \in segment .. segment + 1
  /\ ~Emptied(s)
  /\ \A r \in segment .. s - 1 : Emptied(r)

\* _advance_empty_segments stops at the first segment with tokens left.
IsOpenSegment(s) ==
  /\ s \in Segments /\ s >= segment
  /\ ~Emptied(s)
  /\ \A r \in segment .. s - 1 : Emptied(r)

\* claim returns None: cancelled, all claimed, or past the last segment.
Exhausted == \A s \in Segments : s >= segment => Emptied(s)

NothingToClaim == cancelled \/ remaining <= 0 \/ Exhausted

\* The largest task that leaves every other active worker its share of what
\* is unclaimed.
TailLimit(requested) ==
  LET tailWorkers == AtMost(AtLeast(ActiveWorkers, 1),
                            AtLeast(1, CeilDiv(remaining, requested)))
  IN  CeilDiv(remaining * TailNum, tailWorkers * TailDen)

\* Mutant: a task is not clamped to its segment.
TaskSizeUnclamped(s, requested) ==
  AtMost(AtMost(requested, remaining), AtLeast(1, TailLimit(requested)))

TaskSize(s, requested) ==
  AtMost(AtMost(requested, QBounds[s + 1] - OffsetIn(s)), AtLeast(1, TailLimit(requested)))

TaskIn(s, requested) ==
  [segment |-> s, start |-> OffsetIn(s), stop |-> OffsetIn(s) + TaskSize(s, requested)]

\* Mutant: the cursor moves by what was asked for, not by what was given.
TakeRequested(s, requested) ==
  /\ segment' = s
  /\ qOffset' = OffsetIn(s) + AtMost(requested, QBounds[s + 1] - OffsetIn(s))
  /\ remaining' = EndToken - qOffset'
  /\ UNCHANGED <<retired, cancelled>>

\* The claim of TaskIn(s, requested), s the segment advanced to.
Take(s, requested) ==
  /\ segment' = s
  /\ qOffset' = OffsetIn(s) + TaskSize(s, requested)
  /\ remaining' = remaining - TaskSize(s, requested)
  /\ UNCHANGED <<retired, cancelled>>
=============================================================================
