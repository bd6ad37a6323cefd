----------------------- MODULE MultiGpuDynamicProofs -----------------------
(***************************************************************************)
(* Every multi-GPU call computes each query token exactly once, for every  *)
(* number of devices, every segmentation and every sequence of             *)
(* measurements and failures.                                              *)
(***************************************************************************)
EXTENDS MultiGpuDynamic, FiniteSetTheorems, TLAPS

-----------------------------------------------------------------------------
(* The arithmetic of the cursor and of the controllers. *)

LEMMA MinMax ==
  ASSUME NEW a \in Int, NEW b \in Int
  PROVE  /\ AtMost(a, b) \in {a, b} /\ AtMost(a, b) <= a /\ AtMost(a, b) <= b
         /\ AtLeast(a, b) \in {a, b} /\ AtLeast(a, b) >= a /\ AtLeast(a, b) >= b
  BY DEF AtMost, AtLeast

\* The product of two positive integers is one.
LEMMA PositiveProduct ==
  ASSUME NEW a \in Nat \ {0}, NEW b \in Nat \ {0}
  PROVE  a * b \in Nat \ {0}
  OBVIOUS

LEMMA CeilDivPositive ==
  ASSUME NEW a \in Nat \ {0}, NEW b \in Nat \ {0}
  PROVE  CeilDiv(a, b) \in Nat \ {0}
<1>1. a + b - 1 \in Nat /\ a + b - 1 >= b
  OBVIOUS
<1>2. (a + b - 1) \div b \in Int /\ (a + b - 1) \div b >= 1
  BY <1>1, SMT
<1> QED
  BY <1>2 DEF CeilDiv

LEMMA CeilDivInt ==
  ASSUME NEW a \in Int, NEW b \in Nat \ {0}
  PROVE  CeilDiv(a, b) \in Int
  BY SMT DEF CeilDiv

\* Aligning down does not increase, and undoes a ratio above one.
LEMMA AlignDownBelow ==
  ASSUME NEW p \in Nat, NEW num \in Nat, NEW den \in Nat \ {0}, NEW a \in Nat \ {0},
         num <= den
  PROVE  AlignDown(p * num, den, a) \in Int /\ AlignDown(p * num, den, a) <= p
<1> DEFINE k == (p * num) \div (den * a)
<1>1. p * num \in Nat /\ p * num <= p * den
  BY SMT
<1>2. den * a \in Nat \ {0}
  BY PositiveProduct
<1>3. k \in Int /\ (den * a) * k <= p * num
  BY <1>1, <1>2, SMT
<1>4. den * (k * a) <= den * p
  BY <1>1, <1>3, SMT
<1>5. k * a <= p
  BY <1>3, <1>4, SMT
<1> QED
  BY <1>3, <1>5 DEF AlignDown

-----------------------------------------------------------------------------
(* The controllers. *)

LEMMA AlignUpPositive ==
  ASSUME NEW num \in Nat \ {0}, NEW den \in Nat \ {0}, NEW a \in Nat \ {0}
  PROVE  AlignUp(num, den, a) \in Nat \ {0}
<1>1. den * a \in Nat \ {0}
  BY PositiveProduct
<1>2. CeilDiv(num, den * a) \in Nat \ {0}
  BY <1>1, CeilDivPositive
<1> QED
  BY <1>2, PositiveProduct DEF AlignUp

LEMMA AlignUpInt ==
  ASSUME NEW num \in Nat, NEW den \in Nat \ {0}, NEW a \in Nat \ {0}
  PROVE  AlignUp(num, den, a) \in Int
<1>1. den * a \in Nat \ {0}
  BY PositiveProduct
<1>2. CeilDiv(num, den * a) \in Int
  BY <1>1, CeilDivInt
<1> QED
  BY <1>2 DEF AlignUp

\* The alignment and the bounds of a controller.
LEMMA ControllerBounds ==
  ASSUME NEW w \in Workers
  PROVE  /\ Alignment(w) \in Nat \ {0}
         /\ QMin(w) \in Int
         /\ QCap(w) \in 1 .. QCapacityTokens[w]
         /\ QMin(w) <= QCap(w)
         /\ QCapacityTokens[w] \in Nat
<1>1. Alignment(w) \in Nat \ {0} /\ QCapacityTokens[w] \in Nat \ {0} /\ QMinTokens[w] \in Nat
  BY DynamicAssumption DEF ControllerAssumption, Alignment, AtMost
<1>2. /\ QCapacityTokens[w] * 1 = QCapacityTokens[w] /\ QCapacityTokens[w] \in Nat
      /\ 1 \in Nat /\ 1 \in Nat \ {0} /\ 1 <= 1
  BY <1>1
<1>3. /\ AlignDown(QCapacityTokens[w] * 1, 1, Alignment(w)) \in Int
      /\ AlignDown(QCapacityTokens[w] * 1, 1, Alignment(w)) <= QCapacityTokens[w]
  BY <1>1, <1>2, AlignDownBelow, Zenon
<1>4. QCap(w) \in Int /\ QCap(w) <= QCapacityTokens[w]
  BY <1>2, <1>3, Zenon DEF QCap
<1>5. QMin(w) \in Int
  BY <1>1, AlignUpInt DEF QMin
<1>6. QCap(w) > 0 /\ QMin(w) <= QCap(w)
  BY DynamicAssumption DEF ControllerAssumption
<1> QED
  BY <1>1, <1>4, <1>5, <1>6

\* A controller starts with a size its workspace holds.
LEMMA InitialSize ==
  ASSUME NEW w \in Workers
  PROVE  InitialQ(w) \in 1 .. QCapacityTokens[w]
<1>1. InitialQTokens[w] \in Nat \ {0}
  BY DynamicAssumption DEF ControllerAssumption
<1>2. Alignment(w) \in Nat \ {0} /\ 1 \in Nat \ {0}
  BY ControllerBounds
<1>3. AlignUp(InitialQTokens[w], 1, Alignment(w)) \in Nat \ {0}
  BY <1>1, <1>2, AlignUpPositive, Zenon
<1> QED
  BY <1>3, ControllerBounds DEF InitialQ, AtMost, AtLeast

\* It keeps such a size whatever it observes: in particular it never reaches
\* zero, which the cursor would refuse.
LEMMA ObservedSize ==
  ASSUME NEW w \in Workers, NEW previous \in 1 .. QCapacityTokens[w], NEW target \in Targets(w)
  PROVE  Observed(w, previous, target) \in 1 .. QCapacityTokens[w]
<1> DEFINE up == AlignUp(previous * StepNum, StepDen, Alignment(w))
           down == AlignDown(previous * StepDen, StepNum, Alignment(w))
<1>1. /\ StepNum \in Nat \ {0} /\ StepDen \in Nat \ {0} /\ StepDen <= StepNum
  BY DynamicAssumption DEF ControllerAssumption
<1>2. /\ Alignment(w) \in Nat \ {0} /\ QMin(w) \in Int
      /\ QCap(w) \in 1 .. QCapacityTokens[w] /\ QMin(w) <= QCap(w)
      /\ QCapacityTokens[w] \in Nat
  BY ControllerBounds
<1>3. previous \in Nat \ {0} /\ previous <= QCapacityTokens[w]
  BY <1>2
<1>4. target \in 1 .. QCap(w)
  BY <1>2 DEF Targets, AtLeast
<1>5. previous * StepNum \in Nat \ {0}
  BY <1>1, <1>3, PositiveProduct
<1>6. up \in Nat \ {0}
  BY <1>1, <1>2, <1>5, AlignUpPositive
<1>7. down \in Int /\ down <= previous
  BY <1>1, <1>2, <1>3, AlignDownBelow
<1>8. Observed(w, previous, target) \in
        {previous, AtMost(AtMost(target, up), QCap(w)), AtLeast(AtLeast(target, down), QMin(w))}
  BY DEF Observed
<1>9. AtMost(AtMost(target, up), QCap(w)) \in 1 .. QCapacityTokens[w]
  BY <1>2, <1>4, <1>6 DEF AtMost
<1>10. AtLeast(AtLeast(target, down), QMin(w)) \in 1 .. QCapacityTokens[w]
  <2> HIDE DEF down
  <2> QED BY <1>2, <1>3, <1>4, <1>7 DEF AtLeast
<1> QED
  BY <1>2, <1>3, <1>8, <1>9, <1>10

-----------------------------------------------------------------------------
(* The cursor. *)

\* The bounds are natural numbers in order.
LEMMA BoundsOrdered ==
  /\ NumSegments \in Nat \ {0}
  /\ FirstToken \in Nat /\ EndToken \in Nat /\ FirstToken <= EndToken
  /\ \A i \in 1 .. NumSegments + 1 : QBounds[i] \in FirstToken .. EndToken
  /\ \A i, j \in 1 .. NumSegments + 1 : i <= j => QBounds[i] <= QBounds[j]
<1>1. /\ Len(QBounds) \in Nat /\ Len(QBounds) >= 2 /\ NumSegments + 1 = Len(QBounds)
      /\ NumSegments \in Nat \ {0}
  BY CursorAssumption DEF NumSegments
<1>2. \A i \in 1 .. Len(QBounds) : QBounds[i] \in Nat
  BY CursorAssumption
<1>3. \A i, j \in 1 .. Len(QBounds) : i <= j => QBounds[i] <= QBounds[j]
  BY CursorAssumption
<1>4. 1 \in 1 .. Len(QBounds) /\ Len(QBounds) \in 1 .. Len(QBounds)
  BY <1>1
<1> QED
  BY <1>1, <1>2, <1>3, <1>4 DEF FirstToken, EndToken

\* The cursor stands within the segment it is in.
CursorInSegment == QBounds[segment] <= qOffset /\ qOffset <= QBounds[segment + 1]

\* Advancing over emptied segments does not move the cursor.
LEMMA AdvanceKeepsOffset ==
  ASSUME TypeOK, CursorInSegment, NEW s \in Segments, IsOpenSegment(s)
  PROVE  /\ OffsetIn(s) = qOffset
         /\ QBounds[s] <= qOffset /\ qOffset < QBounds[s + 1]
         /\ s + 1 \in 1 .. NumSegments + 1
<1>1. /\ NumSegments \in Nat \ {0} /\ segment \in 1 .. NumSegments /\ s \in 1 .. NumSegments
      /\ s >= segment /\ qOffset \in Int
  BY BoundsOrdered DEF TypeOK, Segments, IsOpenSegment
<1>2. QBounds[s] \in Nat /\ QBounds[s + 1] \in Nat /\ QBounds[segment + 1] \in Nat
  BY <1>1, BoundsOrdered
<1>3. qOffset < QBounds[s + 1]
  BY <1>1, <1>2 DEF IsOpenSegment, Emptied
<1>4. CASE s = segment
  BY <1>1, <1>3, <1>4 DEF OffsetIn, CursorInSegment
<1>5. CASE s # segment
  <2>1. s - 1 \in segment .. s - 1 /\ (s - 1) + 1 = s
    BY <1>1, <1>5
  <2>2. qOffset >= QBounds[s]
    BY <2>1 DEF IsOpenSegment, Emptied
  <2>3. QBounds[segment + 1] <= QBounds[s]
    BY <1>1, <1>5, BoundsOrdered
  <2>4. qOffset = QBounds[s]
    BY <1>1, <1>2, <2>2, <2>3 DEF CursorInSegment
  <2> QED
    BY <1>1, <1>2, <1>3, <1>5, <2>4 DEF OffsetIn
<1> QED
  BY <1>4, <1>5

\* A claimed task is not empty, not larger than asked for, and stays in its
\* segment, whatever the tail limit is.
LEMMA TaskSizeBounds ==
  ASSUME TypeOK, CursorInSegment, NEW s \in Segments, IsOpenSegment(s),
         remaining > 0, NEW requested \in Nat \ {0}
  PROVE  /\ TaskSize(s, requested) \in 1 .. requested
         /\ qOffset + TaskSize(s, requested) <= QBounds[s + 1]
<1> DEFINE room == QBounds[s + 1] - OffsetIn(s)
           wanted == CeilDiv(remaining, requested)
           sharers == AtMost(AtLeast(ActiveWorkers, 1), AtLeast(1, wanted))
           limit == CeilDiv(remaining * TailNum, sharers * TailDen)
<1>1. OffsetIn(s) = qOffset /\ qOffset < QBounds[s + 1] /\ s + 1 \in 1 .. NumSegments + 1
  BY AdvanceKeepsOffset
<1>2. QBounds[s + 1] \in Nat /\ qOffset \in Int /\ remaining \in Nat \ {0}
  BY <1>1, BoundsOrdered DEF TypeOK
<1>3. room \in Nat \ {0} /\ room = QBounds[s + 1] - qOffset
  BY <1>1, <1>2
<1>4. ActiveWorkers \in Nat
  BY CursorAssumption, FS_Subset, FS_CardinalityType DEF ActiveWorkers, TypeOK
<1>5. wanted \in Int
  BY <1>2, CeilDivInt
<1>6. sharers \in Nat \ {0}
  <2> HIDE DEF wanted
  <2> QED BY <1>4, <1>5 DEF AtMost, AtLeast
<1>7. TailNum \in Nat \ {0} /\ TailDen \in Nat \ {0}
  BY CursorAssumption
<1>8. limit \in Int
  <2>1. sharers * TailDen \in Nat \ {0}
    <3> HIDE DEF sharers
    <3> QED BY <1>6, <1>7, PositiveProduct
  <2>2. remaining * TailNum \in Int
    BY <1>2, <1>7
  <2> HIDE DEF sharers
  <2> QED BY <2>1, <2>2, CeilDivInt
<1>9. TaskSize(s, requested) = AtMost(AtMost(requested, room), AtLeast(1, limit))
  BY DEF TaskSize, TailLimit
<1>10. AtMost(AtMost(requested, room), AtLeast(1, limit)) \in 1 .. requested
       /\ AtMost(AtMost(requested, room), AtLeast(1, limit)) <= room
  <2> HIDE DEF room, limit
  <2> QED BY <1>3, <1>8 DEF AtMost, AtLeast
<1> QED
  BY <1>2, <1>3, <1>9, <1>10

-----------------------------------------------------------------------------
(* The inductive invariant. *)

\* What is written lies before the cursor.
WrittenBehindCursor == computed \subseteq Span(FirstToken, qOffset)

\* A task that is being worked on lies before the cursor, in one segment.
HeldBehindCursor ==
  \A w \in Held :
    /\ task[w].segment \in Segments
    /\ task[w].start \in FirstToken .. EndToken
    /\ task[w].stop <= qOffset

\* A cancelled cursor comes from a worker whose error is, or will be, recorded.
CancelledIsReported ==
  /\ cancelled => failures \/ \E w \in Workers : phase[w] = "failing"
  /\ \A w \in Workers : phase[w] = "failing" => cancelled

\* A worker leaves a cursor that was not cancelled only when all is claimed.
LeavesWhenDone ==
  outcome = "running" /\ ~cancelled =>
    \A w \in Workers : phase[w] \in {"retiring", "ended"} => remaining = 0

\* Between calls no worker runs.
RestsBetweenCalls == outcome # "running" => AllEnded

IInv ==
  /\ TypeOK
  /\ CursorInSegment
  /\ WrittenBehindCursor
  /\ HeldBehindCursor
  /\ TasksFitTheirWorker
  /\ TokensComputedOnce
  /\ CancelledIsReported
  /\ LeavesWhenDone
  /\ RestsBetweenCalls

\* A new cursor stands at the first token with nothing claimed.
LEMMA FreshCursorFacts ==
  /\ 1 \in Segments
  /\ FirstToken \in FirstToken .. EndToken
  /\ QBounds[1] <= FirstToken /\ FirstToken <= QBounds[1 + 1]
  /\ Span(FirstToken, FirstToken) = {}
<1>1. 1 \in 1 .. NumSegments + 1 /\ 2 \in 1 .. NumSegments + 1 /\ 1 \in Segments
  BY BoundsOrdered DEF Segments
<1> QED
  BY <1>1, BoundsOrdered DEF FirstToken, Span

LEMMA InitInv == Init => IInv
<1> SUFFICES ASSUME Init PROVE IInv
  OBVIOUS
<1>1. TypeOK
  <2>1. NoTask \in Tasks
    BY DEF NoTask, Tasks
  <2>2. DOMAIN q = Workers /\ \A w \in Workers : q[w] \in 1 .. QCapacityTokens[w]
    BY InitialSize DEF Init
  <2> QED
    BY <2>1, <2>2, FreshCursorFacts DEF Init, CursorInit, TypeOK, Phases
<1>2. Held = {} /\ AllEnded /\ \A w \in Workers : phase[w] # "failing"
  BY DEF Init, Held, AllEnded
<1>3. CursorInSegment
  BY FreshCursorFacts DEF Init, CursorInit, CursorInSegment
<1>4. computed = {} /\ qOffset = FirstToken /\ outcome = "none" /\ ~cancelled
  BY DEF Init, CursorInit
<1> QED
  BY <1>1, <1>2, <1>3, <1>4, FreshCursorFacts
  DEF IInv, WrittenBehindCursor, HeldBehindCursor, TasksFitTheirWorker, TokensComputedOnce,
      CancelledIsReported, LeavesWhenDone, RestsBetweenCalls

LEMMA CallInv ==
  ASSUME IInv, NEW newSignature \in BOOLEAN, Call(newSignature)
  PROVE  IInv'
<1>1. TypeOK'
  <2>1. NoTask \in Tasks
    BY DEF NoTask, Tasks
  <2>2. DOMAIN q' = Workers /\ \A w \in Workers : q'[w] \in 1 .. QCapacityTokens[w]
    BY InitialSize DEF Call, IInv, TypeOK
  <2>3. /\ segment' = 1 /\ qOffset' = FirstToken /\ remaining' = EndToken - FirstToken
        /\ retired' = {} /\ cancelled' = FALSE
    BY DEF Call, FreshCursor
  <2>4. calls' \in Nat
    BY DEF Call, IInv, TypeOK
  <2>5. /\ outcome' = "running" /\ failures' = FALSE /\ computed' = {}
        /\ phase' = [w \in Workers |-> "asking"] /\ task' = [w \in Workers |-> NoTask]
    BY DEF Call
  <2> QED
    BY <2>1, <2>2, <2>3, <2>4, <2>5, FreshCursorFacts DEF TypeOK, Phases
<1>2. Held' = {}
  BY DEF Call, Held
<1>3. CursorInSegment'
  BY FreshCursorFacts DEF Call, FreshCursor, CursorInSegment
<1>4. /\ computed' = {} /\ qOffset' = FirstToken /\ outcome' = "running" /\ ~cancelled'
      /\ \A w \in Workers : phase'[w] = "asking"
  BY DEF Call, FreshCursor
<1> QED
  BY <1>1, <1>2, <1>3, <1>4, FreshCursorFacts
  DEF IInv, WrittenBehindCursor, HeldBehindCursor, TasksFitTheirWorker, TokensComputedOnce,
      CancelledIsReported, LeavesWhenDone, RestsBetweenCalls

\* The steps of the caller that end a call.
LEMMA CallEndInv ==
  ASSUME IInv, CallEnd
  PROVE  IInv'
<1>1. /\ UNCHANGED <<cursorVars, workerVars, calls>>
      /\ AllEnded /\ outcome' \in {"returned", "raised"}
  BY DEF CallEnd, Return, RaiseFailure
<1> QED
  BY <1>1
  DEF IInv, TypeOK, CursorInSegment, WrittenBehindCursor, HeldBehindCursor, TasksFitTheirWorker,
      TokensComputedOnce, CancelledIsReported, LeavesWhenDone, RestsBetweenCalls, cursorVars,
      workerVars, Held, AllEnded

\* A claim gives out the tokens right behind the cursor.
LEMMA ClaimInv ==
  ASSUME IInv, NEW w \in Workers, Claim(w)
  PROVE  IInv'
<1> PICK s \in Segments : /\ IsOpenSegment(s)
                          /\ task' = [task EXCEPT ![w] = TaskIn(s, q[w])]
                          /\ Take(s, q[w])
  BY DEF Claim
<1> DEFINE size == TaskSize(s, q[w])
<1>1. /\ TypeOK /\ CursorInSegment
      /\ phase[w] = "asking" /\ phase' = [phase EXCEPT ![w] = "working"]
      /\ ~cancelled /\ ~(remaining <= 0)
      /\ UNCHANGED <<q, failures, computed, calls, outcome, retired, cancelled>>
  BY DEF IInv, Claim, NothingToClaim, Advance, Take
<1>2. /\ FirstToken \in Nat /\ EndToken \in Nat /\ qOffset \in FirstToken .. EndToken
      /\ remaining = EndToken - qOffset /\ remaining \in Int /\ remaining > 0
      /\ q[w] \in Nat \ {0} /\ q[w] <= QCapacityTokens[w] /\ QCapacityTokens[w] \in Nat
  BY <1>1, BoundsOrdered, ControllerBounds DEF TypeOK
<1>3. /\ size \in 1 .. q[w] /\ qOffset + size <= QBounds[s + 1]
  BY <1>1, <1>2, TaskSizeBounds
<1>4. /\ OffsetIn(s) = qOffset /\ QBounds[s] <= qOffset /\ qOffset < QBounds[s + 1]
      /\ QBounds[s + 1] \in FirstToken .. EndToken /\ QBounds[s] \in FirstToken .. EndToken
  BY <1>1, AdvanceKeepsOffset, BoundsOrdered DEF Segments
<1> HIDE DEF size
<1>5. /\ segment' = s /\ qOffset' = qOffset + size /\ remaining' = remaining - size
      /\ TaskIn(s, q[w]) = [segment |-> s, start |-> qOffset, stop |-> qOffset + size]
  BY <1>4 DEF Take, TaskIn, size
<1>6. qOffset' \in FirstToken .. EndToken /\ size \in Nat \ {0} /\ size <= q[w]
  BY <1>2, <1>3, <1>4, <1>5
<1>7. TaskIn(s, q[w]) \in Tasks
  BY <1>2, <1>5, <1>6 DEF Tasks
<1>8. task'[w] = TaskIn(s, q[w]) /\ \A v \in Workers : v # w => task'[v] = task[v]
  BY <1>1 DEF TypeOK
<1>9. Held' = Held \cup {w} /\ w \notin Held
  BY <1>1 DEF Held, TypeOK
<1>10. Rows(task'[w]) = Span(qOffset, qOffset + size)
  BY <1>5, <1>8 DEF Rows
<1>11. \A v \in Held : Rows(task'[v]) = Rows(task[v]) /\ v # w
  BY <1>8, <1>9 DEF Held
<1>12. \A v \in Held : Rows(task[v]) \subseteq Span(FirstToken, qOffset)
  BY <1>2 DEF IInv, HeldBehindCursor, Rows, Span, TypeOK, Tasks, Held
<1>13. Span(qOffset, qOffset + size) \cap Span(FirstToken, qOffset) = {}
  BY <1>2, <1>6 DEF Span
<1>14. Span(FirstToken, qOffset') = Span(FirstToken, qOffset) \cup Span(qOffset, qOffset + size)
  BY <1>2, <1>5, <1>6 DEF Span
<1>15. TypeOK'
  <2>1. phase' \in [Workers -> Phases]
    BY <1>1 DEF TypeOK, Phases
  <2>2. task' \in [Workers -> Tasks]
    BY <1>1, <1>7 DEF TypeOK
  <2>3. remaining' = EndToken - qOffset'
    BY <1>2, <1>5, <1>6
  <2> QED
    BY <1>1, <1>5, <1>6, <2>1, <2>2, <2>3 DEF TypeOK
<1>16. CursorInSegment'
  BY <1>2, <1>3, <1>4, <1>5, <1>6 DEF CursorInSegment
<1>17. WrittenBehindCursor'
  BY <1>1, <1>14 DEF IInv, WrittenBehindCursor
<1>18. HeldBehindCursor'
  <2> SUFFICES ASSUME NEW v \in Held'
               PROVE  /\ task'[v].segment \in Segments
                      /\ task'[v].start \in FirstToken .. EndToken
                      /\ task'[v].stop <= qOffset'
    BY DEF HeldBehindCursor
  <2>1. CASE v = w
    BY <1>2, <1>5, <1>6, <1>8, <2>1
  <2>2. CASE v # w
    <3>1. v \in Held /\ task'[v] = task[v] /\ v \in Workers
      BY <1>8, <1>9, <2>2 DEF Held
    <3>2. task[v].stop \in Nat /\ task[v].stop <= qOffset
      BY <3>1 DEF IInv, HeldBehindCursor, TypeOK, Tasks
    <3> QED
      BY <1>2, <1>5, <1>6, <3>1, <3>2 DEF IInv, HeldBehindCursor
  <2> QED
    BY <2>1, <2>2
<1>19. TasksFitTheirWorker'
  <2> SUFFICES ASSUME NEW v \in Held'
               PROVE  /\ QBounds[task'[v].segment] <= task'[v].start
                      /\ task'[v].start < task'[v].stop
                      /\ task'[v].stop <= QBounds[task'[v].segment + 1]
                      /\ task'[v].stop - task'[v].start <= QCapacityTokens[v]
    BY DEF TasksFitTheirWorker
  <2>1. CASE v = w
    BY <1>2, <1>3, <1>4, <1>5, <1>6, <1>8, <2>1
  <2>2. CASE v # w
    BY <1>8, <1>9, <2>2 DEF IInv, TasksFitTheirWorker, Held
  <2> QED
    BY <2>1, <2>2
<1>20. TokensComputedOnce'
  <2>1. \A u, v \in Held' : u # v => Rows(task'[u]) \cap Rows(task'[v]) = {}
    BY <1>9, <1>10, <1>11, <1>12, <1>13 DEF IInv, TokensComputedOnce
  <2>2. \A v \in Held' : Rows(task'[v]) \cap computed' = {}
    BY <1>1, <1>9, <1>10, <1>11, <1>13 DEF IInv, TokensComputedOnce, WrittenBehindCursor
  <2>3. UNION {Rows(task'[v]) : v \in Held'} =
          (UNION {Rows(task[v]) : v \in Held}) \cup Span(qOffset, qOffset + size)
    BY <1>9, <1>10, <1>11
  <2>4. computed \cup UNION {Rows(task[v]) : v \in Held} = Span(FirstToken, qOffset)
    BY <1>1 DEF IInv, TokensComputedOnce
  <2>5. computed' \cup UNION {Rows(task'[v]) : v \in Held'} = Span(FirstToken, qOffset')
    BY <1>1, <1>14, <2>3, <2>4
  <2> QED
    BY <2>1, <2>2, <2>5 DEF TokensComputedOnce
<1>21. CancelledIsReported' /\ RestsBetweenCalls'
  BY <1>1 DEF IInv, CancelledIsReported, RestsBetweenCalls, AllEnded
<1>22. LeavesWhenDone'
  <2> SUFFICES ASSUME outcome = "running", NEW v \in Workers, phase'[v] \in {"retiring", "ended"}
               PROVE  FALSE
    BY <1>1 DEF LeavesWhenDone
  <2>1. v # w /\ phase[v] \in {"retiring", "ended"}
    BY <1>1 DEF TypeOK
  <2> QED
    BY <1>1, <1>2, <2>1 DEF IInv, LeavesWhenDone
<1> QED
  BY <1>15, <1>16, <1>17, <1>18, <1>19, <1>20, <1>21, <1>22 DEF IInv

\* Writing a task's rows moves them from the held to the written ones.
LEMMA WorkInv ==
  ASSUME IInv, NEW w \in Workers, Work(w)
  PROVE  IInv'
<1>1. /\ TypeOK /\ phase[w] = "working" /\ phase' = [phase EXCEPT ![w] = "asking"]
      /\ computed' = computed \cup Rows(task[w])
      /\ UNCHANGED <<cursorVars, task, failures, calls, outcome>>
  BY DEF IInv, Work, Advance
<1>2. UNCHANGED <<segment, qOffset, remaining, retired, cancelled, Span(FirstToken, qOffset)>>
  BY <1>1 DEF cursorVars
<1>3. w \in Held /\ Held' = Held \ {w}
  BY <1>1 DEF Held, TypeOK
<1>4. /\ FirstToken \in Nat /\ EndToken \in Nat /\ qOffset \in FirstToken .. EndToken
  BY <1>1, BoundsOrdered DEF TypeOK
<1>5. Rows(task[w]) \subseteq Span(FirstToken, qOffset)
  BY <1>3, <1>4 DEF IInv, HeldBehindCursor, Rows, Span, TypeOK, Tasks
<1>6. Span(FirstToken, qOffset) \subseteq Tokens
  BY <1>4 DEF Span, Tokens
<1>7. TypeOK'
  <2>1. phase' \in [Workers -> Phases]
    BY <1>1 DEF TypeOK, Phases
  <2>2. DOMAIN q' = Workers /\ \A v \in Workers : q'[v] \in 1 .. QCapacityTokens[v]
    <3> PICK target \in Targets(w) : q' = [q EXCEPT ![w] = Observed(w, q[w], target)]
      BY DEF Work
    <3>1. Observed(w, q[w], target) \in 1 .. QCapacityTokens[w]
      BY <1>1, ObservedSize DEF TypeOK
    <3> QED
      BY <1>1, <3>1 DEF TypeOK
  <2>3. computed' \subseteq Tokens
    BY <1>1, <1>5, <1>6 DEF TypeOK
  <2> QED
    BY <1>1, <1>2, <2>1, <2>2, <2>3 DEF TypeOK
<1>8. CursorInSegment' /\ WrittenBehindCursor' /\ HeldBehindCursor' /\ TasksFitTheirWorker'
  BY <1>1, <1>2, <1>3, <1>5
  DEF IInv, CursorInSegment, WrittenBehindCursor, HeldBehindCursor, TasksFitTheirWorker
<1>9. TokensComputedOnce'
  <2>1. \A u, v \in Held' : u # v => Rows(task'[u]) \cap Rows(task'[v]) = {}
    BY <1>1, <1>3 DEF IInv, TokensComputedOnce
  <2>2. \A v \in Held' : Rows(task'[v]) \cap computed' = {}
    BY <1>1, <1>3 DEF IInv, TokensComputedOnce
  <2>3. ~cancelled => computed' \cup (UNION {Rows(task'[v]) : v \in Held'}) = Span(FirstToken, qOffset)
    <3>1. UNION {Rows(task[v]) : v \in Held} =
            Rows(task[w]) \cup (UNION {Rows(task[v]) : v \in Held \ {w}})
      BY <1>3
    <3>2. ~cancelled => computed \cup (UNION {Rows(task[v]) : v \in Held}) = Span(FirstToken, qOffset)
      BY DEF IInv, TokensComputedOnce
    <3>3. task' = task
      BY <1>1
    <3> QED
      BY <1>1, <1>3, <3>1, <3>2, <3>3
  <2> QED
    BY <1>2, <2>1, <2>2, <2>3 DEF TokensComputedOnce
<1>10. CancelledIsReported' /\ LeavesWhenDone' /\ RestsBetweenCalls'
  BY <1>1, <1>2 DEF IInv, CancelledIsReported, LeavesWhenDone, RestsBetweenCalls, AllEnded, TypeOK
<1> QED
  BY <1>7, <1>8, <1>9, <1>10 DEF IInv

\* A worker that raises abandons its task, and cancels the cursor.
LEMMA WorkerRaisesInv ==
  ASSUME IInv, NEW w \in Workers, WorkerRaises(w)
  PROVE  IInv'
<1>1. /\ TypeOK /\ phase[w] \in {"asking", "working"} /\ phase' = [phase EXCEPT ![w] = "failing"]
      /\ cancelled' = TRUE
      /\ UNCHANGED <<segment, qOffset, remaining, retired, task, q, failures, computed, calls, outcome>>
  BY DEF IInv, WorkerRaises, Advance, Cancel
<1>2. Held' \subseteq Held
  BY <1>1 DEF Held, TypeOK
<1>3. TypeOK'
  BY <1>1 DEF TypeOK, Phases
<1>4. CursorInSegment' /\ WrittenBehindCursor' /\ HeldBehindCursor' /\ TasksFitTheirWorker'
  BY <1>1, <1>2
  DEF IInv, CursorInSegment, WrittenBehindCursor, HeldBehindCursor, TasksFitTheirWorker
<1>5. TokensComputedOnce'
  BY <1>1, <1>2 DEF IInv, TokensComputedOnce
<1>6. CancelledIsReported' /\ LeavesWhenDone'
  BY <1>1 DEF CancelledIsReported, LeavesWhenDone, TypeOK
<1>7. RestsBetweenCalls'
  BY <1>1 DEF IInv, RestsBetweenCalls, AllEnded
<1> QED
  BY <1>3, <1>4, <1>5, <1>6, <1>7 DEF IInv

\* The steps that take a worker, with no task in hand, to the end of its run.
LEMMA LeavingInv ==
  ASSUME IInv, NEW w \in Workers, ClaimNothing(w) \/ RecordFailure(w) \/ Retire(w)
  PROVE  IInv'
<1>1. /\ TypeOK /\ phase[w] \in {"asking", "failing", "retiring"}
      /\ phase' \in {[phase EXCEPT ![w] = "retiring"], [phase EXCEPT ![w] = "ended"]}
      /\ UNCHANGED <<segment, qOffset, remaining, cancelled, task, q, computed, calls, outcome>>
  BY DEF IInv, ClaimNothing, RecordFailure, Retire, RetireWorker, Advance, cursorVars
<1>2. Held' = Held
  BY <1>1 DEF Held, TypeOK
<1>3. TypeOK'
  <2>1. retired' \subseteq Workers /\ failures' \in BOOLEAN
    BY DEF IInv, TypeOK, ClaimNothing, RecordFailure, Retire, RetireWorker, cursorVars
  <2> QED
    BY <1>1, <2>1 DEF TypeOK, Phases
<1>4. CursorInSegment' /\ WrittenBehindCursor' /\ HeldBehindCursor' /\ TasksFitTheirWorker'
      /\ TokensComputedOnce'
  BY <1>1, <1>2
  DEF IInv, CursorInSegment, WrittenBehindCursor, HeldBehindCursor, TasksFitTheirWorker,
      TokensComputedOnce
<1>5. CancelledIsReported'
  <2>1. CASE RecordFailure(w)
    BY <1>1, <2>1 DEF RecordFailure, IInv, CancelledIsReported, TypeOK
  <2>2. CASE ClaimNothing(w) \/ Retire(w)
    <3>1. /\ failures' = failures /\ phase[w] # "failing"
      BY <2>2 DEF ClaimNothing, Retire
    <3> QED
      BY <1>1, <3>1 DEF IInv, CancelledIsReported, TypeOK
  <2> QED
    BY <2>1, <2>2
<1>6. LeavesWhenDone'
  <2> SUFFICES ASSUME outcome = "running", ~cancelled, NEW v \in Workers,
                      phase'[v] \in {"retiring", "ended"}
               PROVE  remaining = 0
    BY <1>1 DEF LeavesWhenDone
  <2>1. CASE phase[v] \in {"retiring", "ended"}
    BY <2>1 DEF IInv, LeavesWhenDone
  <2>2. CASE phase[v] \notin {"retiring", "ended"}
    <3>1. v = w
      BY <1>1, <2>2 DEF TypeOK
    <3>2. CASE ClaimNothing(w)
      <4>1. remaining <= 0 \/ Exhausted
        BY <3>2 DEF ClaimNothing, NothingToClaim
      <4>2. NumSegments \in Segments /\ NumSegments >= segment
        BY <1>1, BoundsOrdered DEF Segments, TypeOK
      <4>3. remaining <= 0 \/ qOffset >= EndToken
        BY <4>1, <4>2 DEF Exhausted, Emptied, EndToken
      <4> QED
        BY <1>1, <4>3, BoundsOrdered DEF TypeOK
    <3>3. CASE RecordFailure(w)
      BY <1>1, <3>3, <2>2 DEF IInv, CancelledIsReported, RecordFailure
    <3>4. CASE Retire(w)
      BY <3>1, <3>4, <2>2 DEF Retire
    <3> QED
      BY <3>2, <3>3, <3>4
  <2> QED
    BY <2>1, <2>2
<1>7. RestsBetweenCalls'
  BY <1>1 DEF IInv, RestsBetweenCalls, AllEnded
<1> QED
  BY <1>3, <1>4, <1>5, <1>6, <1>7 DEF IInv

-----------------------------------------------------------------------------
\* Every step preserves the invariant.
LEMMA NextInv == IInv /\ [Next]_vars => IInv'
<1> SUFFICES ASSUME IInv, [Next]_vars PROVE IInv'
  OBVIOUS
<1>1. CASE \E newSignature \in BOOLEAN : Call(newSignature)
  BY <1>1, CallInv
<1>2. CASE CallEnd
  BY <1>2, CallEndInv
<1>3. ASSUME NEW w \in Workers, WorkerStep(w) \/ WorkerRaises(w)
      PROVE  IInv'
  BY <1>3, ClaimInv, WorkInv, WorkerRaisesInv, LeavingInv DEF WorkerStep
<1>4. CASE UNCHANGED vars
  BY <1>4
  DEF IInv, TypeOK, CursorInSegment, WrittenBehindCursor, HeldBehindCursor, TasksFitTheirWorker,
      TokensComputedOnce, CancelledIsReported, LeavesWhenDone, RestsBetweenCalls, vars,
      cursorVars, workerVars, Held, AllEnded
<1> QED
  BY <1>1, <1>2, <1>3, <1>4 DEF Next, Finished

\* The invariant holds in every reachable state.
THEOREM Invariance == Spec => []IInv
<1> QED
  BY InitInv, NextInv, PTL DEF Spec

\* Every variable has its type; in particular no controller's size exceeds its
\* workspace or reaches zero, whatever it observes.
THEOREM TypeCorrect == Spec => []TypeOK
<1>1. IInv => TypeOK
  BY DEF IInv
<1> QED
  BY Invariance, <1>1, PTL

\* No query row is written twice or forgotten, whatever the order of claims.
THEOREM ComputedOnce == Spec => []TokensComputedOnce
<1>1. IInv => TokensComputedOnce
  BY DEF IInv
<1> QED
  BY Invariance, <1>1, PTL

\* Every task lies in one segment and fits its worker's Q workspace.
THEOREM TasksFit == Spec => []TasksFitTheirWorker
<1>1. IInv => TasksFitTheirWorker
  BY DEF IInv
<1> QED
  BY Invariance, <1>1, PTL

-----------------------------------------------------------------------------
(* The sizes stay on their grid. *)

LEMMA MultipleMod ==
  ASSUME NEW k \in Int, NEW a \in Nat \ {0}
  PROVE  (k * a) % a = 0
  BY SMT

\* Aligning up does not decrease, and undoes a ratio of at least one.
LEMMA AlignUpAbove ==
  ASSUME NEW p \in Nat, NEW num \in Nat, NEW den \in Nat \ {0}, NEW a \in Nat \ {0},
         num >= den
  PROVE  AlignUp(p * num, den, a) >= p
<1> DEFINE n == p * num
           d == den * a
           k == (n + d - 1) \div d
<1>1. n \in Nat /\ n >= p * den
  BY SMT
<1>2. d \in Nat \ {0}
  BY SMT
<1>3. k \in Int /\ d * k >= n
  <2> HIDE DEF n, d
  <2> QED BY <1>1, <1>2, SMT
<1>4. den * (k * a) >= den * p
  <2> HIDE DEF k
  <2>1. d * k = den * (k * a)
    BY <1>3, SMT
  <2> QED BY <1>1, <1>3, <2>1, SMT
<1>5. k * a >= p
  <2> HIDE DEF k
  <2> QED BY <1>3, <1>4, SMT
<1> QED
  BY <1>5 DEF AlignUp, CeilDiv

\* What is aligned is a multiple.
LEMMA AlignedMultiple ==
  ASSUME NEW num \in Nat, NEW den \in Nat \ {0}, NEW a \in Nat \ {0}
  PROVE  AlignUp(num, den, a) % a = 0 /\ AlignDown(num, den, a) % a = 0
<1>1. den * a \in Nat \ {0}
  BY PositiveProduct
<1>2. CeilDiv(num, den * a) \in Int /\ num \div (den * a) \in Int
  BY <1>1, CeilDivInt, SMT
<1> QED
  BY <1>2, MultipleMod DEF AlignUp, AlignDown

OnGrid(w, size) == size \in Int /\ size % Alignment(w) = 0 /\ size >= QMin(w)

LEMMA BoundsOnGrid ==
  ASSUME NEW w \in Workers
  PROVE  OnGrid(w, QMin(w)) /\ OnGrid(w, QCap(w))
<1>1. Alignment(w) \in Nat \ {0} /\ QMin(w) \in Int /\ QCap(w) \in Int /\ QMin(w) <= QCap(w)
  BY ControllerBounds
<1>2. QMinTokens[w] \in Nat /\ QCapacityTokens[w] \in Nat
  BY DynamicAssumption DEF ControllerAssumption
<1>3. QMin(w) % Alignment(w) = 0 /\ QCap(w) % Alignment(w) = 0
  BY <1>1, <1>2, AlignedMultiple DEF QMin, QCap
<1> QED
  BY <1>1, <1>3 DEF OnGrid

\* The smaller and the larger of two sizes on the grid are on it.
LEMMA GridMinMax ==
  ASSUME NEW w \in Workers, NEW a, NEW b, OnGrid(w, a), OnGrid(w, b)
  PROVE  OnGrid(w, AtMost(a, b)) /\ OnGrid(w, AtLeast(a, b))
  BY DEF AtMost, AtLeast

LEMMA InitialOnGrid ==
  ASSUME NEW w \in Workers
  PROVE  OnGrid(w, InitialQ(w))
<1> DEFINE up == AlignUp(InitialQTokens[w], 1, Alignment(w))
<1>1. InitialQTokens[w] \in Nat /\ Alignment(w) \in Nat \ {0} /\ QMin(w) \in Int
  BY ControllerBounds, DynamicAssumption DEF ControllerAssumption
<1>2. up \in Int /\ up % Alignment(w) = 0
  BY <1>1, AlignUpInt, AlignedMultiple
<1>3. OnGrid(w, AtLeast(QMin(w), up))
  <2> HIDE DEF up
  <2> QED BY <1>1, <1>2, BoundsOnGrid DEF OnGrid, AtLeast
<1> QED
  BY <1>3, BoundsOnGrid, GridMinMax DEF InitialQ

LEMMA ObservedOnGrid ==
  ASSUME NEW w \in Workers, NEW previous \in Nat, OnGrid(w, previous), NEW target \in Targets(w)
  PROVE  OnGrid(w, Observed(w, previous, target))
<1> DEFINE up == AlignUp(previous * StepNum, StepDen, Alignment(w))
           down == AlignDown(previous * StepDen, StepNum, Alignment(w))
<1>1. /\ StepNum \in Nat \ {0} /\ StepDen \in Nat \ {0} /\ StepNum >= StepDen
      /\ Alignment(w) \in Nat \ {0} /\ QMin(w) \in Int
  BY ControllerBounds, DynamicAssumption DEF ControllerAssumption
<1>2. previous * StepNum \in Nat /\ previous * StepDen \in Nat
  BY <1>1
<1>3. up \in Int /\ up % Alignment(w) = 0 /\ up >= previous
  BY <1>1, <1>2, AlignUpInt, AlignedMultiple, AlignUpAbove
<1>4. down \in Int /\ down % Alignment(w) = 0
  BY <1>1, <1>2, AlignDownBelow, AlignedMultiple
<1>5. OnGrid(w, target)
  BY <1>1, ControllerBounds DEF Targets, OnGrid, AtLeast
<1>6. OnGrid(w, up)
  <2> HIDE DEF up
  <2> QED BY <1>1, <1>3 DEF OnGrid
<1>7. OnGrid(w, AtLeast(AtLeast(target, down), QMin(w)))
  <2> HIDE DEF down
  <2> QED BY <1>1, <1>4, <1>5, BoundsOnGrid DEF OnGrid, AtLeast
<1> HIDE DEF up, down
<1>8. OnGrid(w, AtMost(AtMost(target, up), QCap(w)))
  BY <1>5, <1>6, BoundsOnGrid, GridMinMax
<1>9. Observed(w, previous, target) \in
        {previous, AtMost(AtMost(target, up), QCap(w)), AtLeast(AtLeast(target, down), QMin(w))}
  BY DEF Observed, up, down
<1> QED
  BY <1>7, <1>8, <1>9

\* Nothing but an observation or a reset changes a size.
LEMMA SizesInv ==
  ASSUME TypeOK, SizesStayAligned, [Next]_vars
  PROVE  SizesStayAligned'
<1> SUFFICES ASSUME NEW w \in Workers PROVE OnGrid(w, q'[w])
  BY DEF SizesStayAligned, OnGrid
<1>1. QMin(w) \in Int /\ q[w] \in Nat /\ OnGrid(w, q[w])
  BY ControllerBounds DEF TypeOK, SizesStayAligned, OnGrid
<1>2. CASE q'[w] = q[w]
  BY <1>1, <1>2
<1>3. CASE \E newSignature \in BOOLEAN : Call(newSignature)
  BY <1>1, <1>3, InitialOnGrid DEF Call
<1>4. ASSUME NEW v \in Workers, Work(v)
      PROVE  OnGrid(w, q'[w])
  <2>1. PICK target \in Targets(v) : q' = [q EXCEPT ![v] = Observed(v, q[v], target)]
    BY <1>4 DEF Work
  <2>2. CASE w = v
    BY <1>1, <2>1, <2>2, ObservedOnGrid DEF TypeOK
  <2> QED
    BY <1>1, <2>1, <2>2
<1> QED
  BY <1>2, <1>3, <1>4
  DEF Next, CallEnd, Return, RaiseFailure, WorkerStep, WorkerRaises, Claim, ClaimNothing,
      RecordFailure, Retire, Finished, workerVars, vars

\* A block size stays a multiple of its alignment and at least its minimum,
\* whatever is measured over however many calls.
THEOREM SizesAligned == Spec => []SizesStayAligned
<1>1. Init => SizesStayAligned
  BY InitialOnGrid DEF Init, SizesStayAligned, OnGrid
<1>2. IInv /\ SizesStayAligned /\ [Next]_vars => SizesStayAligned'
  BY SizesInv DEF IInv
<1> QED
  BY <1>1, <1>2, Invariance, PTL DEF Spec

-----------------------------------------------------------------------------
(* The refinement. *)

\* When the caller returns, every token is written.
LEMMA ReturnIsComplete ==
  ASSUME IInv, Return
  PROVE  computed = Tokens
<1>1. /\ outcome = "running" /\ ~failures /\ \A w \in Workers : phase[w] = "ended"
  BY DEF Return, AllEnded
<1>2. ~cancelled
  BY <1>1 DEF IInv, CancelledIsReported
<1>3. remaining = 0
  BY <1>1, <1>2, CursorAssumption DEF IInv, LeavesWhenDone
<1>4. qOffset = EndToken
  BY <1>3, BoundsOrdered DEF IInv, TypeOK
<1>5. Held = {}
  BY <1>1 DEF Held
<1>6. computed \cup (UNION {Rows(task[w]) : w \in Held}) = Span(FirstToken, qOffset)
  BY <1>2 DEF IInv, TokensComputedOnce
<1>7. UNION {Rows(task[w]) : w \in Held} = {}
  BY <1>5
<1> QED
  BY <1>4, <1>6, <1>7 DEF Tokens

\* Every step of a call is a step of the promise or changes nothing it sees.
LEMMA StepRefines ==
  ASSUME IInv, IInv', [Next]_vars
  PROVE  [Promise!Next]_<<computed, outcome>>
<1>1. CASE \E newSignature \in BOOLEAN : Call(newSignature)
  BY <1>1 DEF Call, Promise!Next, Promise!Call
<1>2. CASE Return
  BY <1>2, ReturnIsComplete DEF Return, workerVars, Promise!Next, Promise!Return
<1>3. CASE RaiseFailure
  BY <1>3 DEF RaiseFailure, workerVars, Promise!Next, Promise!Raise
<1>4. ASSUME NEW w \in Workers, Work(w)
      PROVE  Promise!Compute
  <2>1. outcome = "running" /\ outcome' = outcome /\ computed' = computed \cup Rows(task[w])
    BY <1>4 DEF Work, IInv, RestsBetweenCalls, AllEnded
  <2>2. Rows(task[w]) \cap computed = {}
    BY <1>4 DEF IInv, TokensComputedOnce, Held, Work
  <2>3. Rows(task[w]) \subseteq Tokens
    BY <2>1 DEF IInv, TypeOK
  <2> QED
    BY <2>1, <2>2, <2>3 DEF Promise!Compute
<1>5. ASSUME NEW w \in Workers,
             \/ Claim(w) \/ ClaimNothing(w) \/ RecordFailure(w) \/ Retire(w) \/ WorkerRaises(w)
      PROVE  UNCHANGED <<computed, outcome>>
  BY <1>5 DEF Claim, ClaimNothing, RecordFailure, Retire, WorkerRaises
<1>6. CASE UNCHANGED vars
  BY <1>6 DEF vars, workerVars
<1> QED
  BY <1>1, <1>2, <1>3, <1>4, <1>5, <1>6
  DEF Next, CallEnd, WorkerStep, Finished, Promise!Next

\* A call computes every token exactly once before it returns, and none after
\* it has ended: the calls implement the abstract coverage specification.
THEOREM Refinement == Spec => KeepsItsPromise
<1>1. Init => Promise!Init
  BY DEF Init, Promise!Init
<1>2. IInv /\ IInv' /\ [Next]_vars => [Promise!Next]_<<computed, outcome>>
  BY StepRefines
<1> QED
  BY <1>1, <1>2, Invariance, PTL DEF Spec, KeepsItsPromise, Promise!Spec
=============================================================================
