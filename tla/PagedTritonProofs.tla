-------------------------- MODULE PagedTritonProofs --------------------------
(***************************************************************************)
(* The CUDA executor of a paged run implements what the run promises, for  *)
(* every number of pages, chunks, tiles, stages, buffers and threads.      *)
(*                                                                         *)
(* First what every executor of a run keeps: types, the pool's queue, the  *)
(* window of loads, the ring of output staging buffers, and which ways of  *)
(* ending leave what behind.  Then the device.                             *)
(***************************************************************************)
EXTENDS PagedTriton, FiniteSetTheorems, SequenceTheorems, TLAPS

-----------------------------------------------------------------------------
(* The run. *)

Phases == {"none", "queued", "running"} \cup Settled
Loop == Executing \cup {"finish", "close"}
Values == Seq(Seq(Nat) \X Seq(Nat))
Tasks == [kind : {"load"}, slot : Stages] \cup [kind : {"write"}, slot : OutSlots]

RunTypeOK ==
  /\ pc \in Loop \cup {"shutdown", "join", "teardown", "ended"}
  /\ qpage \in QPages
  /\ chunk \in Chunks
  /\ submitted \in Nat
  /\ consumed \in Nat
  /\ queue \in Seq(Tasks)
  /\ loads \in [Stages -> [page : Nat \cup {-1}, phase : Phases]]
  /\ writes \in [OutSlots -> [page : QPages \cup {-1}, phase : Phases]]
  /\ qHost \in Seq(Nat)
  /\ stage \in [Stages -> Seq(Nat)]
  /\ out \in [OutSlots -> [Chunks -> Values]]
  /\ sink \in [QPages -> {Nothing} \cup [Chunks -> Values]]
  /\ outcome \in {"running", "returned", "raised"}

\* The pool's queue holds loads and writes that wait to start, each once.
QueueExact ==
  /\ \A i \in 1 .. Len(queue) :
       /\ queue[i].kind = "load" => loads[queue[i].slot].phase = "queued"
       /\ queue[i].kind = "write" => writes[queue[i].slot].phase \in {"queued", "cancelled"}
  /\ \A i, j \in 1 .. Len(queue) : queue[i] = queue[j] => i = j

\* A failed run first cancels its writes, then drops its queue, then joins its
\* threads; a run that returns has none of them left.
EndsInOrder ==
  /\ outcome = "running" <=> pc \notin {"teardown", "ended"}
  /\ pc \in {"shutdown", "join"} \/ outcome = "raised" =>
       \A o \in OutSlots : writes[o].phase # "queued"
  /\ pc = "join" \/ outcome = "raised" =>
       queue = <<>> /\ \A s \in Stages : loads[s].phase # "queued"
  /\ outcome = "raised" =>
       /\ \A s \in Stages : loads[s].phase # "running"
       /\ \A o \in OutSlots : writes[o].phase # "running"
  /\ pc = "close" \/ outcome = "returned" =>
       \A o \in OutSlots : writes[o].phase \in {"none", "done"}

\* Outside a scan nothing is loaded; in a scan the loads are those of the pages
\* submitted and not yet consumed.
WindowExact ==
  /\ pc \in {"page", "chunk", "drain", "submit", "finish", "close"} \/ outcome = "returned" =>
       \A s \in Stages : loads[s].phase = "none"
  /\ pc \in {"page", "chunk", "drain", "submit"} => submitted = 0 /\ consumed = 0
  /\ pc \in {"scan", "consume"} =>
       /\ consumed <= submitted
       /\ submitted <= WindowEnd
       /\ \A s \in Stages : loads[s].phase # "none" =>
            \E i \in consumed .. submitted - 1 : s = StageOf(i) /\ loads[s].page = KvPage(i)

StagesLoaded ==
  \A s \in Stages :
    /\ loads[s].phase # "none" => loads[s].page \in Nat
    /\ loads[s].phase = "done" => stage[s] = <<loads[s].page>>

\* A write is of a page of its slot; until it has returned, the slot's buffer
\* holds that page's answer, and the sink has not received the page.
WritesReady ==
  \A o \in OutSlots :
    /\ writes[o].phase # "none" => writes[o].page \in QPages /\ SlotOf(writes[o].page) = o
    /\ writes[o].phase \in {"queued", "running"} =>
         out[o] = Answer(writes[o].page) /\ sink[writes[o].page] = Nothing

\* While a page is computed, its slot is not being written, and the writes are
\* of the pages before it.
SlotIdle ==
  pc \in Executing =>
    /\ pc # "page" => writes[OutSlot].phase = "none"
    /\ \A o \in OutSlots : writes[o].phase # "none" => writes[o].page < qpage

\* Pages whose write was submitted were delivered, or their write is the last of
\* its slot and has not returned; no other page was delivered.
Delivered(q) == sink[q] = Answer(q)
AwaitedIn(q) ==
  writes[SlotOf(q)].page = q /\ writes[SlotOf(q)].phase \in {"queued", "running", "failed"}

PagesAccounted ==
  /\ pc \in Executing => \A q \in QPages :
       IF q < qpage THEN Delivered(q) \/ AwaitedIn(q) ELSE sink[q] = Nothing
  /\ pc \in {"finish", "close"} => \A q \in QPages : Delivered(q) \/ AwaitedIn(q)
  /\ outcome = "returned" => \A q \in QPages : Delivered(q)

RunInv ==
  /\ RunTypeOK
  /\ QueueExact
  /\ EndsInOrder
  /\ WindowExact
  /\ StagesLoaded
  /\ WritesReady
  /\ SlotIdle
  /\ PagesAccounted
  /\ DeliveredPagesExact

-----------------------------------------------------------------------------
(* Numbers and pages. *)

LEMMA SlotsInRange ==
  /\ \A i \in Nat : StageOf(i) \in Stages
  /\ \A q \in QPages : SlotOf(q) \in OutSlots
  /\ QPages \subseteq Nat
BY RunAssumption DEF StageOf, SlotOf, Stages, OutSlots, QPages

\* Fewer than NumStages apart, two pages of a window have two stages.
LEMMA StagesDistinct ==
  ASSUME NEW i \in Nat, NEW j \in Nat, i <= j, j < i + NumStages, StageOf(i) = StageOf(j)
  PROVE  i = j
<1> DEFINE n == NumStages
           a == i \div n
           b == j \div n
<1>1. n \in Nat \ {0}
  BY RunAssumption
<1> HIDE DEF n
<1>2. /\ a \in Int /\ b \in Int
      /\ i = (n * a) + (i % n) /\ j = (n * b) + (j % n)
      /\ i % n = j % n /\ i % n \in Int
  BY <1>1 DEF StageOf, n
<1> HIDE DEF a, b
<1> DEFINE d == b - a
<1>3. d \in Int /\ j - i = n * d
  <2>1. n * d = (n * b) - (n * a)
    BY <1>1, <1>2
  <2>2. (n * a) \in Int /\ (n * b) \in Int
    BY <1>1, <1>2
  <2> HIDE DEF d
  <2>3. j - i = (n * b) - (n * a)
    BY <1>2, <2>2
  <2>4. d \in Int
    BY <1>2 DEF d
  <2> QED BY <2>1, <2>3, <2>4
<1>4. j - i \in 0 .. n - 1
  BY <1>1 DEF n
<1> HIDE DEF d
<1>5. ~(d >= 1)
  BY <1>1, <1>3, <1>4
<1>6. ~(d <= -1)
  BY <1>1, <1>3, <1>4
<1>7. d = 0
  BY <1>3, <1>5, <1>6
<1> QED
  BY <1>1, <1>3, <1>7

LEMMA SegmentPages ==
  ASSUME qpage \in QPages
  PROVE  /\ KvTotal \in Nat \ {0}
         /\ Depth \in Nat \ {0} /\ Depth <= NumStages
         /\ \A i \in 0 .. KvTotal - 1 : KvPage(i) \in Nat
<1>1. KvPagesOf[qpage] \in Seq(Nat) /\ KvPagesOf[qpage] # <<>>
  BY RunAssumption
<1>2. KvTotal \in Nat \ {0} /\ \A i \in 0 .. KvTotal - 1 : KvPage(i) \in Nat
  BY <1>1 DEF KvTotal, KvPage
<1> QED
  BY <1>2, RunAssumption DEF Depth, AtMost

\* An answer is a page: it is told apart from the page that was never written.
LEMMA AnswerIsPage ==
  ASSUME NEW q \in QPages
  PROVE  Answer(q) # Nothing
<1>1. 0 \in DOMAIN Answer(q)
  BY RunAssumption DEF Answer, Chunks
<1>2. DOMAIN Nothing = {}
  BY DEF Nothing
<1> QED
  BY <1>1, <1>2

\* Nothing is running exactly when the count of what is running is zero.
LEMMA RunningCounts ==
  ASSUME RunTypeOK
  PROVE  Running = 0 <=> /\ \A s \in Stages : loads[s].phase # "running"
                         /\ \A o \in OutSlots : writes[o].phase # "running"
<1> DEFINE L == {s \in Stages : loads[s].phase = "running"}
           W == {o \in OutSlots : writes[o].phase = "running"}
<1>1. IsFiniteSet(Stages) /\ IsFiniteSet(OutSlots)
  BY FS_Interval, RunAssumption DEF Stages, OutSlots
<1>2. IsFiniteSet(L) /\ IsFiniteSet(W)
  BY <1>1, FS_Subset
<1>3. Cardinality(L) \in Nat /\ Cardinality(W) \in Nat
  BY <1>2, FS_CardinalityType
<1>4. (Cardinality(L) = 0 <=> L = {}) /\ (Cardinality(W) = 0 <=> W = {})
  BY <1>2, FS_EmptySet
<1>5. Running = Cardinality(L) + Cardinality(W)
  BY DEF Running
<1> HIDE DEF L, W
<1>6. Running = 0 <=> L = {} /\ W = {}
  BY <1>3, <1>4, <1>5
<1> QED
  BY <1>6 DEF L, W

\* The pool's next task.
LEMMA HeadTask ==
  ASSUME RunTypeOK, QueueExact, queue # <<>>
  PROVE  /\ Head(queue) = queue[1] /\ 1 \in 1 .. Len(queue)
         /\ Head(queue) \in Tasks
         /\ Tail(queue) \in Seq(Tasks) /\ Len(Tail(queue)) = Len(queue) - 1
         /\ \A i \in 1 .. Len(Tail(queue)) :
              Tail(queue)[i] = queue[i + 1] /\ Tail(queue)[i] \in Tasks /\ Tail(queue)[i] # Head(queue)
         /\ \A i, j \in 1 .. Len(Tail(queue)) : Tail(queue)[i] = Tail(queue)[j] => i = j
<1> DEFINE T == Tasks
<1>1. queue \in Seq(T)
  BY DEF RunTypeOK
<1> HIDE DEF T
<1>2. /\ Head(queue) = queue[1] /\ 1 \in 1 .. Len(queue)
      /\ Head(queue) \in T
      /\ Tail(queue) \in Seq(T) /\ Len(Tail(queue)) = Len(queue) - 1
      /\ Len(queue) \in Nat
      /\ \A i \in 1 .. Len(Tail(queue)) : Tail(queue)[i] = queue[i + 1] /\ i + 1 \in 1 .. Len(queue)
  BY <1>1
<1>3. \A i \in 1 .. Len(Tail(queue)) : Tail(queue)[i] \in T
  BY <1>2
<1>4. \A i, j \in 1 .. Len(queue) : queue[i] = queue[j] => i = j
  BY DEF QueueExact
<1> QED
  BY <1>2, <1>3, <1>4 DEF T

-----------------------------------------------------------------------------
(* The steps of the main thread every executor takes. *)

LEMMA InitRun == RunInit => RunInv
<1> SUFFICES ASSUME RunInit PROVE RunInv
  OBVIOUS
<1>1. 0 \in QPages /\ 0 \in Chunks /\ QPages \subseteq Nat
  BY RunAssumption DEF QPages, Chunks
<1>2. /\ \A s \in Stages : loads[s] = NoTask
      /\ \A o \in OutSlots : writes[o] = NoTask
      /\ \A q \in QPages : sink[q] = Nothing
      /\ queue = <<>> /\ pc = "page" /\ outcome = "running" /\ qpage = 0
  BY DEF RunInit
<1>3. RunTypeOK
  <2>1. <<>> \in Seq(Nat) /\ <<>> \in Values /\ <<>> \in Seq(Tasks)
    BY DEF Values
  <2> QED
    BY <1>1, <2>1 DEF RunInit, RunTypeOK, Nothing, NoTask, Phases, Settled, Loop, Executing
<1>4. QueueExact /\ EndsInOrder /\ StagesLoaded /\ WritesReady /\ SlotIdle /\ DeliveredPagesExact
  BY <1>1, <1>2 DEF QueueExact, EndsInOrder, StagesLoaded, WritesReady, SlotIdle,
     DeliveredPagesExact, NoTask, Executing, Phase
<1>5. WindowExact
  BY <1>2 DEF RunInit, WindowExact, NoTask
<1>6. PagesAccounted
  BY <1>1, <1>2 DEF PagesAccounted, Executing, QPages
<1> QED
  BY <1>3, <1>4, <1>5, <1>6 DEF RunInv

LEMMA SubmitLoadRun == RunInv /\ SubmitLoad => RunInv'
<1> SUFFICES ASSUME RunInv, SubmitLoad PROVE RunInv'
  OBVIOUS
<1> DEFINE s == StageOf(submitted)
           task == [kind |-> "load", slot |-> s]
           T == Tasks
<1>1. /\ pc = "scan" /\ pc' = pc /\ qpage' = qpage /\ qpage \in QPages
      /\ consumed \in Nat /\ consumed' = consumed
      /\ submitted \in Nat /\ submitted' = submitted + 1 /\ submitted < WindowEnd
      /\ outcome' = outcome /\ outcome = "running"
  BY DEF RunInv, RunTypeOK, EndsInOrder, SubmitLoad
<1>2. /\ s \in Stages
      /\ consumed <= submitted
      /\ WindowEnd <= KvTotal /\ WindowEnd <= consumed + NumStages /\ WindowEnd \in Nat
      /\ KvPage(submitted) \in Nat
      /\ submitted + 1 <= WindowEnd /\ WindowEnd' = WindowEnd
  <2>1. consumed <= submitted
    BY <1>1 DEF RunInv, WindowExact
  <2>2. WindowEnd <= KvTotal /\ WindowEnd <= consumed + NumStages /\ WindowEnd \in Nat
    BY <1>1, SegmentPages, RunAssumption DEF WindowEnd, AtMost
  <2>3. KvPage(submitted) \in Nat
    BY <1>1, <2>2, SegmentPages
  <2>4. WindowEnd' = WindowEnd
    BY <1>1 DEF WindowEnd, Depth, KvTotal
  <2> QED BY <1>1, <2>1, <2>2, <2>3, <2>4, SlotsInRange
<1>3. loads[s].phase = "none"
  <2>1. SUFFICES ASSUME loads[s].phase # "none" PROVE FALSE
    OBVIOUS
  <2>2. PICK i \in consumed .. submitted - 1 : s = StageOf(i)
    BY <1>1, <1>2, <2>1 DEF RunInv, WindowExact
  <2>3. i \in Nat /\ i <= submitted /\ submitted < i + NumStages
    BY <1>1, <1>2, RunAssumption
  <2>4. i = submitted
    BY <1>1, <2>2, <2>3, StagesDistinct
  <2> QED BY <1>1, <2>4
<1>4. /\ loads' = [loads EXCEPT ![s] = Task(KvPage(submitted), "queued")]
      /\ loads \in [Stages -> [page : Nat \cup {-1}, phase : Phases]]
      /\ loads'[s].phase = "queued" /\ loads'[s].page = KvPage(submitted)
      /\ \A t \in Stages : t # s => loads'[t] = loads[t]
      /\ loads' \in [Stages -> [page : Nat \cup {-1}, phase : Phases]]
      /\ UNCHANGED <<writes, stage, out, sink, qHost, chunk>>
  BY <1>2 DEF RunInv, RunTypeOK, SubmitLoad, Task, Phases, bufVars
<1>5. /\ queue \in Seq(T) /\ task \in T
      /\ queue' = Append(queue, task)
      /\ Len(queue') = Len(queue) + 1 /\ Len(queue) \in Nat
      /\ queue'[Len(queue) + 1] = task
      /\ \A i \in 1 .. Len(queue) : queue'[i] = queue[i] /\ queue[i] \in T
      /\ queue' \in Seq(T)
  <2>1. queue \in Seq(T)
    BY DEF RunInv, RunTypeOK
  <2>2. task \in T
    BY <1>2 DEF Tasks
  <2>3. queue' = Append(queue, task)
    BY DEF SubmitLoad
  <2> HIDE DEF T, task
  <2> QED BY <2>1, <2>2, <2>3
<1>6. RunTypeOK'
  BY <1>1, <1>4, <1>5 DEF RunInv, RunTypeOK
<1>7. QueueExact'
  <2>1. \A i \in 1 .. Len(queue) : queue[i] # task
    BY <1>3 DEF RunInv, QueueExact
  <2>2. \A i, j \in 1 .. Len(queue') : queue'[i] = queue'[j] => i = j
    BY <1>5, <2>1 DEF RunInv, QueueExact
  <2>3. \A i \in 1 .. Len(queue) :
          /\ queue[i].kind = "load" => queue[i].slot \in Stages /\ queue[i].slot # s
          /\ queue[i].kind = "write" => queue[i].slot \in OutSlots
    BY <1>3, <1>5 DEF RunInv, QueueExact, Tasks
  <2>4. ASSUME NEW i \in 1 .. Len(queue')
        PROVE  /\ queue'[i].kind = "load" => loads'[queue'[i].slot].phase = "queued"
               /\ queue'[i].kind = "write" => writes'[queue'[i].slot].phase \in {"queued", "cancelled"}
    <3>1. CASE i \in 1 .. Len(queue)
      BY <1>4, <1>5, <2>3, <3>1 DEF RunInv, QueueExact
    <3>2. CASE i = Len(queue) + 1
      BY <1>4, <1>5, <3>2
    <3> QED BY <1>5, <3>1, <3>2
  <2> QED BY <2>2, <2>4 DEF QueueExact
<1>8. EndsInOrder'
  BY <1>1, <1>4 DEF RunInv, EndsInOrder
<1>9. WindowExact'
  <2>1. ASSUME NEW t \in Stages, loads'[t].phase # "none"
        PROVE  \E i \in consumed .. submitted : t = StageOf(i) /\ loads'[t].page = KvPage(i)
    <3>1. CASE t = s
      BY <1>1, <1>2, <1>4, <3>1
    <3>2. CASE t # s
      BY <1>1, <1>4, <2>1, <3>2 DEF RunInv, WindowExact
    <3> QED BY <3>1, <3>2
  <2>2. \A i : KvPage(i)' = KvPage(i)
    BY <1>1 DEF KvPage
  <2>3. submitted' - 1 = submitted
    BY <1>1
  <2> QED
    BY <1>1, <1>2, <2>1, <2>2, <2>3 DEF WindowExact, RunInv
<1>10. StagesLoaded' /\ WritesReady' /\ SlotIdle' /\ PagesAccounted' /\ DeliveredPagesExact'
  <2>1. StagesLoaded'
    BY <1>2, <1>4 DEF RunInv, StagesLoaded
  <2>2. WritesReady' /\ SlotIdle' /\ PagesAccounted' /\ DeliveredPagesExact'
    BY <1>1, <1>4 DEF RunInv, WritesReady, SlotIdle, PagesAccounted, DeliveredPagesExact,
       OutSlot, Delivered, AwaitedIn
  <2> QED BY <2>1, <2>2
<1> QED
  BY <1>6, <1>7, <1>8, <1>9, <1>10 DEF RunInv

LEMMA TakeLoadRun ==
  RunInv /\ TakeLoad /\ pc' = "consume"
    /\ UNCHANGED <<qpage, chunk, submitted, queue, writes, bufVars, sink, outcome>>
  => RunInv'
<1> SUFFICES ASSUME RunInv, TakeLoad, pc' = "consume",
                    UNCHANGED <<qpage, chunk, submitted, queue, writes, bufVars, sink, outcome>>
             PROVE  RunInv'
  OBVIOUS
<1> DEFINE s == StageOf(consumed)
<1>1. /\ pc = "scan" /\ qpage \in QPages /\ UNCHANGED <<qpage, chunk, submitted, queue, writes>>
      /\ UNCHANGED <<qHost, stage, out, sink, outcome>>
      /\ consumed \in Nat /\ consumed' = consumed + 1 /\ submitted \in Nat
      /\ submitted = WindowEnd /\ consumed < KvTotal
      /\ outcome = "running" /\ s \in Stages
  BY SlotsInRange DEF RunInv, RunTypeOK, EndsInOrder, TakeLoad, bufVars
<1>2. /\ loads' = [loads EXCEPT ![s] = NoTask] /\ loads[s].phase = "done"
      /\ loads \in [Stages -> [page : Nat \cup {-1}, phase : Phases]]
      /\ loads'[s] = NoTask
      /\ \A t \in Stages : t # s => loads'[t] = loads[t]
      /\ loads' \in [Stages -> [page : Nat \cup {-1}, phase : Phases]]
  BY <1>1 DEF RunInv, RunTypeOK, TakeLoad, NoTask, Phases
<1>3. /\ KvTotal \in Nat \ {0} /\ Depth \in Nat \ {0}
      /\ consumed < WindowEnd /\ WindowEnd \in Nat /\ WindowEnd <= WindowEnd'
  <2>1. KvTotal \in Nat \ {0} /\ Depth \in Nat \ {0}
    BY <1>1, SegmentPages
  <2>2. KvTotal' = KvTotal /\ Depth' = Depth
    BY <1>1 DEF KvTotal, Depth
  <2> QED BY <1>1, <2>1, <2>2 DEF WindowEnd, AtMost
<1>4. RunTypeOK'
  BY <1>1, <1>2 DEF RunInv, RunTypeOK, Loop, Executing
<1>5. QueueExact'
  <2>1. \A i \in 1 .. Len(queue) : queue[i] \in Tasks
    BY DEF RunInv, RunTypeOK
  <2>2. \A i \in 1 .. Len(queue) : queue[i].kind = "load" => queue[i].slot \in Stages
    BY <2>1 DEF Tasks
  <2> QED BY <1>1, <1>2, <2>2 DEF RunInv, QueueExact
<1>6. EndsInOrder'
  BY <1>1 DEF RunInv, EndsInOrder
<1>7. WindowExact'
  <2>1. ASSUME NEW t \in Stages, loads'[t].phase # "none"
        PROVE  \E i \in consumed' .. submitted - 1 : t = StageOf(i) /\ loads'[t].page = KvPage(i)
    <3>1. t # s /\ loads'[t] = loads[t]
      BY <1>2, <2>1 DEF NoTask
    <3>2. PICK i \in consumed .. submitted - 1 : t = StageOf(i) /\ loads[t].page = KvPage(i)
      BY <1>1, <2>1, <3>1 DEF RunInv, WindowExact
    <3> QED BY <1>1, <3>1, <3>2
  <2>2. \A i : KvPage(i)' = KvPage(i)
    BY <1>1 DEF KvPage
  <2> QED
    BY <1>1, <1>3, <2>1, <2>2 DEF WindowExact
<1>8. StagesLoaded' /\ WritesReady' /\ SlotIdle' /\ PagesAccounted' /\ DeliveredPagesExact'
  <2>1. StagesLoaded'
    BY <1>1, <1>2 DEF RunInv, StagesLoaded, NoTask
  <2>2. WritesReady' /\ SlotIdle' /\ PagesAccounted' /\ DeliveredPagesExact'
    BY <1>1 DEF RunInv, WritesReady, SlotIdle, PagesAccounted, DeliveredPagesExact,
       OutSlot, Delivered, AwaitedIn, Executing
  <2> QED BY <2>1, <2>2
<1> QED
  BY <1>4, <1>5, <1>6, <1>7, <1>8 DEF RunInv

\* The run variables stay, but for the place in the loop.
LEMMA MoveRun ==
  ASSUME RunInv, UNCHANGED <<qpage, chunk, submitted, consumed, ioVars, bufVars, sink, outcome>>,
         \/ pc = "chunk" /\ pc' = "scan"
         \/ pc = "consume" /\ pc' = "scan"
         \/ pc = "drain" /\ pc' = "submit"
  PROVE  RunInv'
<1>1. /\ UNCHANGED <<qpage, chunk, submitted, consumed, queue, loads, writes>>
      /\ UNCHANGED <<qHost, stage, out, sink, outcome>>
      /\ qpage \in QPages
  BY DEF ioVars, bufVars, RunInv, RunTypeOK
<1>2. RunTypeOK'
  BY <1>1 DEF RunInv, RunTypeOK, Loop, Executing
<1>3. QueueExact' /\ StagesLoaded' /\ WritesReady' /\ DeliveredPagesExact'
  BY <1>1 DEF RunInv, QueueExact, StagesLoaded, WritesReady, DeliveredPagesExact
<1>4. EndsInOrder' /\ SlotIdle' /\ PagesAccounted'
  BY <1>1 DEF RunInv, EndsInOrder, SlotIdle, OutSlot, PagesAccounted, Delivered, AwaitedIn, Executing
<1>5. WindowExact'
  <2>1. WindowEnd' = WindowEnd /\ \A i : KvPage(i)' = KvPage(i)
    BY <1>1 DEF WindowEnd, Depth, KvTotal, KvPage
  <2>2. KvTotal \in Nat \ {0} /\ Depth \in Nat \ {0}
    BY <1>1, SegmentPages
  <2>3. pc = "chunk" => 0 <= WindowEnd /\ 0 \in Nat /\ submitted = 0 /\ consumed = 0
    BY <1>1, <2>2 DEF WindowEnd, AtMost, RunInv, WindowExact
  <2>4. pc = "chunk" => \A s \in Stages : loads[s].phase = "none"
    BY DEF RunInv, WindowExact
  <2> QED
    BY <1>1, <2>1, <2>3, <2>4 DEF RunInv, WindowExact, EndsInOrder
<1> QED
  BY <1>2, <1>3, <1>4, <1>5 DEF RunInv

\* The page's slot is taken over, and the page is read.
LEMMA BeginPageRun ==
  ASSUME RunInv, pc = "page", pc' = "chunk",
         writes[OutSlot].phase \in {"none", "done"},
         writes' = [writes EXCEPT ![OutSlot] = NoTask], ReadQ,
         UNCHANGED <<qpage, submitted, consumed, queue, loads, stage, out, sink, outcome>>
  PROVE  RunInv'
<1>1. /\ qpage \in QPages /\ QPages \subseteq Nat /\ OutSlot \in OutSlots
      /\ outcome = "running" /\ OutSlot' = OutSlot
      /\ qHost' = <<qpage>> /\ chunk' = 0 /\ 0 \in Chunks
      /\ pc \in Executing
  BY SlotsInRange, RunAssumption DEF RunInv, RunTypeOK, EndsInOrder, OutSlot, ReadQ, Chunks, Executing
<1>2. /\ writes \in [OutSlots -> [page : QPages \cup {-1}, phase : Phases]]
      /\ writes'[OutSlot] = NoTask
      /\ \A o \in OutSlots : o # OutSlot => writes'[o] = writes[o]
      /\ writes' \in [OutSlots -> [page : QPages \cup {-1}, phase : Phases]]
  BY <1>1 DEF RunInv, RunTypeOK, NoTask, Phases
<1>3. RunTypeOK'
  BY <1>1, <1>2 DEF RunInv, RunTypeOK, Loop, Executing
<1>4. QueueExact'
  <2>1. \A i \in 1 .. Len(queue) : queue[i] \in Tasks
    BY DEF RunInv, RunTypeOK
  <2>2. \A i \in 1 .. Len(queue) : queue[i].kind = "write" => queue[i].slot \in OutSlots
    BY <2>1 DEF Tasks
  <2>3. \A i \in 1 .. Len(queue) : queue[i].kind = "write" => queue[i].slot # OutSlot
    BY DEF RunInv, QueueExact
  <2> QED BY <1>2, <2>2, <2>3 DEF RunInv, QueueExact
<1>5. EndsInOrder' /\ WindowExact' /\ StagesLoaded' /\ DeliveredPagesExact'
  BY <1>1 DEF RunInv, EndsInOrder, WindowExact, StagesLoaded, DeliveredPagesExact
<1>6. WritesReady'
  BY <1>1, <1>2 DEF RunInv, WritesReady, NoTask
<1>7. SlotIdle'
  BY <1>1, <1>2 DEF RunInv, SlotIdle, NoTask
<1>8. PagesAccounted'
  <2>1. ASSUME NEW q \in QPages, q < qpage
        PROVE  Delivered(q)' \/ AwaitedIn(q)'
    <3>1. Delivered(q) \/ AwaitedIn(q)
      BY <1>1, <2>1 DEF RunInv, PagesAccounted
    <3>2. SlotOf(q) \in OutSlots
      BY SlotsInRange
    <3> QED
      BY <1>2, <3>1, <3>2 DEF Delivered, AwaitedIn
  <2>2. \A q \in QPages : ~(q < qpage) => sink[q] = Nothing
    BY <1>1 DEF RunInv, PagesAccounted
  <2> QED BY <1>1, <2>1, <2>2 DEF PagesAccounted
<1> QED
  BY <1>3, <1>4, <1>5, <1>6, <1>7, <1>8 DEF RunInv

LEMMA NextChunkRun ==
  RunInv /\ ScanDone /\ NextChunk("drain")
    /\ UNCHANGED <<qpage, ioVars, bufVars, sink, outcome>>
  => RunInv'
<1> SUFFICES ASSUME RunInv, ScanDone, NextChunk("drain"),
                    UNCHANGED <<qpage, ioVars, bufVars, sink, outcome>>
             PROVE  RunInv'
  OBVIOUS
<1>1. /\ UNCHANGED <<qpage, queue, loads, writes, qHost, stage, out, sink, outcome>>
      /\ pc = "scan" /\ consumed = KvTotal /\ outcome = "running"
      /\ pc' \in {"chunk", "drain"} /\ submitted' = 0 /\ consumed' = 0 /\ chunk' \in Chunks
      /\ qpage \in QPages /\ consumed \in Nat /\ submitted \in Nat
  BY RunAssumption DEF ioVars, bufVars, RunInv, RunTypeOK, ScanDone, NextChunk, EndsInOrder, Chunks
<1>2. RunTypeOK'
  BY <1>1 DEF RunInv, RunTypeOK, Loop, Executing
<1>3. QueueExact' /\ StagesLoaded' /\ WritesReady' /\ DeliveredPagesExact'
  BY <1>1 DEF RunInv, QueueExact, StagesLoaded, WritesReady, DeliveredPagesExact
<1>4. EndsInOrder' /\ SlotIdle' /\ PagesAccounted'
  BY <1>1 DEF RunInv, EndsInOrder, SlotIdle, OutSlot, PagesAccounted, Delivered, AwaitedIn, Executing
<1>5. WindowExact'
  <2>1. submitted <= KvTotal /\ KvTotal \in Nat
    BY <1>1, SegmentPages DEF RunInv, WindowExact, WindowEnd, AtMost
  <2>2. consumed .. submitted - 1 = {}
    BY <1>1, <2>1
  <2>3. \A s \in Stages : loads[s].phase = "none"
    BY <1>1, <2>2 DEF RunInv, WindowExact
  <2> QED
    BY <1>1, <2>3 DEF WindowExact
<1> QED
  BY <1>2, <1>3, <1>4, <1>5 DEF RunInv

\* The page is handed to the pool once its buffer holds its answer.
LEMMA SubmitOutputRun ==
  ASSUME RunInv, SubmitOutput, out[OutSlot] = Answer(qpage)
  PROVE  RunInv'
<1> DEFINE o == OutSlot
           task == [kind |-> "write", slot |-> o]
           T == Tasks
<1>1. /\ pc = "submit" /\ pc \in Executing /\ pc' \in {"page", "finish"}
      /\ qpage \in QPages /\ qpage \in Nat /\ o \in OutSlots /\ outcome = "running"
      /\ UNCHANGED <<chunk, submitted, consumed, loads, qHost, stage, out, sink, outcome>>
      /\ pc' = "page" => qpage' = qpage + 1 /\ qpage' \in QPages
      /\ pc' = "finish" => qpage' = qpage /\ qpage + 1 = NumQPages
  <2>1. pc = "submit" /\ qpage \in QPages /\ outcome = "running"
    BY DEF RunInv, RunTypeOK, EndsInOrder, SubmitOutput
  <2>2. qpage \in Nat /\ qpage < NumQPages /\ o \in OutSlots /\ pc \in Executing
    BY <2>1, SlotsInRange, RunAssumption DEF OutSlot, Executing, QPages
  <2>3. /\ UNCHANGED <<chunk, submitted, consumed, loads, qHost, stage, out, sink, outcome>>
        /\ IF qpage + 1 < NumQPages
           THEN pc' = "page" /\ qpage' = qpage + 1
           ELSE pc' = "finish" /\ qpage' = qpage
    BY DEF SubmitOutput, bufVars
  <2>4. qpage + 1 < NumQPages => qpage + 1 \in QPages
    BY <2>2, RunAssumption DEF QPages
  <2> QED BY <2>1, <2>2, <2>3, <2>4, RunAssumption
<1>2. /\ writes' = [writes EXCEPT ![o] = Task(qpage, "queued")]
      /\ writes \in [OutSlots -> [page : QPages \cup {-1}, phase : Phases]]
      /\ writes[o].phase = "none"
      /\ writes'[o] = Task(qpage, "queued")
      /\ writes'[o].page = qpage /\ writes'[o].phase = "queued"
      /\ \A p \in OutSlots : p # o => writes'[p] = writes[p]
      /\ writes' \in [OutSlots -> [page : QPages \cup {-1}, phase : Phases]]
  BY <1>1 DEF RunInv, RunTypeOK, SubmitOutput, SlotIdle, Task, Phases, Executing
<1>3. /\ queue \in Seq(T) /\ task \in T
      /\ queue' = Append(queue, task)
      /\ Len(queue') = Len(queue) + 1 /\ Len(queue) \in Nat
      /\ queue'[Len(queue) + 1] = task
      /\ \A i \in 1 .. Len(queue) : queue'[i] = queue[i] /\ queue[i] \in T
      /\ queue' \in Seq(T)
  <2>1. queue \in Seq(T)
    BY DEF RunInv, RunTypeOK
  <2>2. task \in T
    BY <1>1 DEF Tasks
  <2>3. queue' = Append(queue, task)
    BY DEF SubmitOutput
  <2> HIDE DEF T, task
  <2> QED BY <2>1, <2>2, <2>3
<1>4. RunTypeOK'
  BY <1>1, <1>2, <1>3 DEF RunInv, RunTypeOK, Loop, Executing
<1>5. QueueExact'
  <2>1. \A i \in 1 .. Len(queue) : queue[i] # task
    BY <1>2 DEF RunInv, QueueExact
  <2>2. \A i, j \in 1 .. Len(queue') : queue'[i] = queue'[j] => i = j
    BY <1>3, <2>1 DEF RunInv, QueueExact
  <2>3. \A i \in 1 .. Len(queue) :
          queue[i].kind = "write" => queue[i].slot \in OutSlots /\ queue[i].slot # o
    BY <1>2, <1>3 DEF RunInv, QueueExact, Tasks
  <2>4. ASSUME NEW i \in 1 .. Len(queue')
        PROVE  /\ queue'[i].kind = "load" => loads'[queue'[i].slot].phase = "queued"
               /\ queue'[i].kind = "write" => writes'[queue'[i].slot].phase \in {"queued", "cancelled"}
    <3>1. CASE i \in 1 .. Len(queue)
      BY <1>1, <1>2, <1>3, <2>3, <3>1 DEF RunInv, QueueExact
    <3>2. CASE i = Len(queue) + 1
      BY <1>2, <1>3, <3>2
    <3> QED BY <1>3, <3>1, <3>2
  <2> QED BY <2>2, <2>4 DEF QueueExact
<1>6. EndsInOrder' /\ WindowExact' /\ StagesLoaded' /\ SlotIdle' /\ DeliveredPagesExact'
  <2>1. EndsInOrder' /\ WindowExact' /\ StagesLoaded' /\ DeliveredPagesExact'
    BY <1>1 DEF RunInv, EndsInOrder, WindowExact, StagesLoaded, DeliveredPagesExact
  <2>2. ASSUME NEW p \in OutSlots, writes'[p].phase # "none", pc' = "page"
        PROVE  writes'[p].page < qpage'
    <3>1. CASE p = o
      BY <1>1, <1>2, <2>2, <3>1
    <3>2. CASE p # o
      <4>0. writes'[p] = writes[p]
        BY <1>2, <3>2
      <4>1. writes[p].page < qpage /\ writes[p].page \in Int
        <5>1. writes[p].phase # "none" /\ pc \in Executing
          BY <1>1, <2>2, <4>0
        <5>2. writes[p].page < qpage
          BY <5>1 DEF RunInv, SlotIdle
        <5>3. writes[p].page \in QPages
          BY <5>1 DEF RunInv, WritesReady
        <5> QED BY <5>2, <5>3, RunAssumption DEF QPages
      <4>2. qpage' = qpage + 1 /\ qpage \in Nat
        BY <1>1, <2>2
      <4> QED BY <4>0, <4>1, <4>2
    <3> QED BY <3>1, <3>2
  <2> QED BY <1>1, <2>1, <2>2 DEF SlotIdle, Executing
<1>7. WritesReady'
  <2>1. sink[qpage] = Nothing
    BY <1>1 DEF RunInv, PagesAccounted
  <2> QED BY <1>1, <1>2, <2>1 DEF RunInv, WritesReady, OutSlot
<1>8. PagesAccounted'
  <2>1. ASSUME NEW q \in QPages, q < qpage
        PROVE  Delivered(q)' \/ AwaitedIn(q)'
    <3>1. Delivered(q) \/ AwaitedIn(q)
      BY <1>1, <2>1 DEF RunInv, PagesAccounted
    <3>2. SlotOf(q) \in OutSlots
      BY SlotsInRange
    <3> QED
      BY <1>1, <1>2, <3>1, <3>2 DEF Delivered, AwaitedIn
  <2>2. \A q \in QPages : q = qpage => AwaitedIn(q)'
    BY <1>1, <1>2 DEF AwaitedIn, OutSlot
  <2>3. \A q \in QPages : ~(q < qpage) => sink[q] = Nothing
    BY <1>1 DEF RunInv, PagesAccounted
  <2>4. \A q \in QPages : q \in Nat /\ q < NumQPages
    BY RunAssumption DEF QPages
  <2>5. CASE pc' = "page"
    <3>1. \A q \in QPages : q < qpage' => q < qpage \/ q = qpage
      BY <1>1, <2>4, <2>5
    <3>2. \A q \in QPages : ~(q < qpage') => ~(q < qpage)
      BY <1>1, <2>4, <2>5
    <3> QED BY <1>1, <2>1, <2>2, <2>3, <2>5, <3>1, <3>2 DEF PagesAccounted
  <2>6. CASE pc' = "finish"
    <3>1. \A q \in QPages : q < qpage \/ q = qpage
      BY <1>1, <2>4, <2>6
    <3> QED BY <1>1, <2>1, <2>2, <2>6, <3>1 DEF PagesAccounted, Executing
  <2> QED BY <1>1, <2>5, <2>6
<1> QED
  BY <1>4, <1>5, <1>6, <1>7, <1>8 DEF RunInv

-----------------------------------------------------------------------------
(* The ways a run ends. *)

\* Steps of the end that keep tasks, buffers and sink.
LEMMA EndingTypes ==
  ASSUME RunInv, UNCHANGED <<qpage, chunk, submitted, consumed, ioVars, bufVars, sink>>,
         pc' \in {"close", "teardown", "ended"}, outcome' \in {"running", "returned", "raised"}
  PROVE  /\ RunTypeOK' /\ QueueExact' /\ StagesLoaded' /\ WritesReady' /\ DeliveredPagesExact'
         /\ SlotIdle'
         /\ UNCHANGED <<qpage, queue, loads, writes, sink>>
<1>1. /\ UNCHANGED <<qpage, chunk, submitted, consumed, queue, loads, writes>>
      /\ UNCHANGED <<qHost, stage, out, sink>>
  BY DEF ioVars, bufVars
<1>2. RunTypeOK'
  BY <1>1 DEF RunInv, RunTypeOK, Loop, Executing
<1>3. QueueExact' /\ StagesLoaded' /\ WritesReady' /\ DeliveredPagesExact' /\ SlotIdle'
  BY <1>1 DEF RunInv, QueueExact, StagesLoaded, WritesReady, DeliveredPagesExact, SlotIdle, Executing
<1> QED
  BY <1>1, <1>2, <1>3

LEMMA FinishWritesRun == RunInv /\ FinishWrites => RunInv'
<1> SUFFICES ASSUME RunInv, FinishWrites PROVE RunInv'
  OBVIOUS
<1>1. /\ RunTypeOK' /\ QueueExact' /\ StagesLoaded' /\ WritesReady' /\ DeliveredPagesExact'
      /\ SlotIdle'
      /\ UNCHANGED <<qpage, queue, loads, writes, sink>>
  BY EndingTypes DEF FinishWrites, RunInv, RunTypeOK
<1>2. EndsInOrder' /\ WindowExact'
  BY <1>1 DEF RunInv, EndsInOrder, WindowExact, FinishWrites
<1>3. PagesAccounted'
  BY <1>1 DEF RunInv, PagesAccounted, Delivered, AwaitedIn, FinishWrites, Executing
<1> QED
  BY <1>1, <1>2, <1>3 DEF RunInv

\* A run that returns has delivered every page.
LEMMA PublishRun ==
  ASSUME RunInv, Publish
  PROVE  RunInv' /\ \A q \in QPages : Delivered(q)
<1>1. /\ RunTypeOK' /\ QueueExact' /\ StagesLoaded' /\ WritesReady' /\ DeliveredPagesExact'
      /\ SlotIdle'
      /\ UNCHANGED <<qpage, queue, loads, writes, sink>>
  BY EndingTypes DEF Publish
<1>2. EndsInOrder' /\ WindowExact'
  BY <1>1 DEF RunInv, EndsInOrder, WindowExact, Publish
<1>3. ASSUME NEW q \in QPages PROVE Delivered(q)
  <2>1. writes[SlotOf(q)].phase \in {"none", "done"}
    BY SlotsInRange DEF Publish, RunInv, EndsInOrder
  <2> QED
    BY <2>1 DEF Publish, RunInv, PagesAccounted, AwaitedIn
<1>4. PagesAccounted'
  BY <1>1, <1>3 DEF PagesAccounted, Delivered, Publish, Executing
<1> QED
  BY <1>1, <1>2, <1>3, <1>4 DEF RunInv

LEMMA UnwindRun ==
  ASSUME RunInv, pc \in Loop, Unwind
  PROVE  RunInv'
<1>1. /\ UNCHANGED <<qpage, chunk, submitted, consumed, queue, loads, qHost, stage, out, sink, outcome>>
      /\ pc' = "shutdown" /\ outcome = "running"
      /\ writes \in [OutSlots -> [page : QPages \cup {-1}, phase : Phases]]
  BY DEF Unwind, bufVars, RunInv, RunTypeOK, EndsInOrder, Loop, Executing
<1>2. /\ writes' \in [OutSlots -> [page : QPages \cup {-1}, phase : Phases]]
      /\ \A o \in OutSlots :
           /\ writes'[o].page = writes[o].page
           /\ writes[o].phase = "queued" => writes'[o].phase = "cancelled"
           /\ writes[o].phase # "queued" => writes'[o].phase = writes[o].phase
  BY <1>1 DEF Unwind, Task, Phases, Settled
<1>3. RunTypeOK'
  BY <1>1, <1>2 DEF RunInv, RunTypeOK
<1>4. QueueExact'
  <2>1. \A i \in 1 .. Len(queue) : queue[i] \in Tasks
    BY DEF RunInv, RunTypeOK
  <2>2. \A i \in 1 .. Len(queue) : queue[i].kind = "write" => queue[i].slot \in OutSlots
    BY <2>1 DEF Tasks
  <2>3. \A i \in 1 .. Len(queue) : queue[i].kind = "write" =>
          writes'[queue[i].slot].phase \in {"queued", "cancelled"}
    BY <1>2, <2>2 DEF RunInv, QueueExact
  <2> QED BY <1>1, <2>3 DEF RunInv, QueueExact
<1>5. EndsInOrder' /\ WindowExact' /\ StagesLoaded' /\ SlotIdle' /\ PagesAccounted' /\ DeliveredPagesExact'
  BY <1>1, <1>2 DEF RunInv, EndsInOrder, WindowExact, StagesLoaded, SlotIdle, PagesAccounted,
     DeliveredPagesExact, Executing
<1>6. WritesReady'
  BY <1>1, <1>2 DEF RunInv, WritesReady
<1> QED
  BY <1>3, <1>4, <1>5, <1>6 DEF RunInv

LEMMA DropQueueRun == RunInv /\ DropQueue => RunInv'
<1> SUFFICES ASSUME RunInv, DropQueue PROVE RunInv'
  OBVIOUS
<1>1. /\ UNCHANGED <<qpage, chunk, submitted, consumed, writes, qHost, stage, out, sink, outcome>>
      /\ pc = "shutdown" /\ pc' = "join" /\ outcome = "running" /\ queue' = <<>>
      /\ loads \in [Stages -> [page : Nat \cup {-1}, phase : Phases]]
  BY DEF DropQueue, bufVars, RunInv, RunTypeOK, EndsInOrder
<1>2. /\ loads' \in [Stages -> [page : Nat \cup {-1}, phase : Phases]]
      /\ \A s \in Stages :
           /\ loads'[s].page = loads[s].page
           /\ loads[s].phase = "queued" => loads'[s].phase = "cancelled"
           /\ loads[s].phase # "queued" => loads'[s].phase = loads[s].phase
  BY <1>1 DEF DropQueue, Task, Phases, Settled
<1>3. RunTypeOK'
  BY <1>1, <1>2 DEF RunInv, RunTypeOK, Tasks
<1>4. QueueExact' /\ EndsInOrder' /\ WindowExact' /\ SlotIdle' /\ PagesAccounted' /\ DeliveredPagesExact'
  BY <1>1, <1>2 DEF RunInv, QueueExact, EndsInOrder, WindowExact, SlotIdle, PagesAccounted,
     DeliveredPagesExact, Executing
<1>5. StagesLoaded' /\ WritesReady'
  BY <1>1, <1>2 DEF RunInv, StagesLoaded, WritesReady
<1> QED
  BY <1>3, <1>4, <1>5 DEF RunInv

LEMMA AbortWriterRun == RunInv /\ AbortWriter => RunInv'
<1> SUFFICES ASSUME RunInv, AbortWriter PROVE RunInv'
  OBVIOUS
<1>1. /\ RunTypeOK' /\ QueueExact' /\ StagesLoaded' /\ WritesReady' /\ DeliveredPagesExact'
      /\ SlotIdle'
      /\ UNCHANGED <<qpage, queue, loads, writes, sink>>
  BY EndingTypes DEF AbortWriter
<1>2. EndsInOrder'
  BY <1>1, RunningCounts DEF RunInv, EndsInOrder, AbortWriter
<1>3. WindowExact' /\ PagesAccounted'
  BY <1>1 DEF WindowExact, PagesAccounted, AbortWriter, Executing
<1> QED
  BY <1>1, <1>2, <1>3 DEF RunInv

LEMMA TeardownRun == RunInv /\ Teardown => RunInv'
<1> SUFFICES ASSUME RunInv, Teardown PROVE RunInv'
  OBVIOUS
<1>1. /\ RunTypeOK' /\ QueueExact' /\ StagesLoaded' /\ WritesReady' /\ DeliveredPagesExact'
      /\ SlotIdle'
      /\ UNCHANGED <<qpage, queue, loads, writes, sink, outcome>>
  BY EndingTypes DEF Teardown, RunInv, RunTypeOK
<1>2. EndsInOrder' /\ WindowExact'
  BY <1>1 DEF RunInv, EndsInOrder, WindowExact, Teardown
<1>3. PagesAccounted'
  BY <1>1 DEF RunInv, PagesAccounted, Delivered, Teardown, Executing
<1> QED
  BY <1>1, <1>2, <1>3 DEF RunInv

-----------------------------------------------------------------------------
(* The pool's threads. *)

LEMMA StartTaskRun == RunInv /\ StartTask => RunInv'
<1> SUFFICES ASSUME RunInv, StartTask PROVE RunInv'
  OBVIOUS
<1> DEFINE task == Head(queue)
<1>1. /\ queue # <<>> /\ queue' = Tail(queue)
      /\ UNCHANGED <<pc, qpage, chunk, submitted, consumed, qHost, out, sink, outcome>>
      /\ task = queue[1] /\ 1 \in 1 .. Len(queue) /\ task \in Tasks
      /\ queue' \in Seq(Tasks)
      /\ \A i \in 1 .. Len(queue') :
           /\ queue'[i] = queue[i + 1] /\ i + 1 \in 1 .. Len(queue)
           /\ queue'[i] \in Tasks /\ queue'[i] # task
      /\ \A i, j \in 1 .. Len(queue') : queue'[i] = queue'[j] => i = j
  <2>1. queue # <<>> /\ queue' = Tail(queue) /\ RunTypeOK /\ QueueExact
    BY DEF StartTask, RunInv
  <2>2. \A i \in 1 .. Len(Tail(queue)) : i + 1 \in 1 .. Len(queue)
    BY <2>1 DEF RunTypeOK
  <2> QED BY <2>1, <2>2, HeadTask DEF StartTask
<1>2. /\ loads \in [Stages -> [page : Nat \cup {-1}, phase : Phases]]
      /\ writes \in [OutSlots -> [page : QPages \cup {-1}, phase : Phases]]
      /\ stage \in [Stages -> Seq(Nat)] /\ Nothing \in Seq(Nat)
  BY DEF RunInv, RunTypeOK, Nothing
<1>3. \A i \in 1 .. Len(queue') :
        /\ queue'[i].kind = "load" => loads[queue'[i].slot].phase = "queued"
        /\ queue'[i].kind = "write" => writes[queue'[i].slot].phase \in {"queued", "cancelled"}
  BY <1>1 DEF RunInv, QueueExact
<1>4. pc # "join" /\ outcome # "raised"
  BY <1>1 DEF RunInv, EndsInOrder
<1>5. CASE task.kind = "load"
  <2>1. /\ task.slot \in Stages /\ loads[task.slot].phase = "queued" /\ UNCHANGED writes
        /\ loads' = [loads EXCEPT ![task.slot].phase = "running"]
        /\ stage' = [stage EXCEPT ![task.slot] = Nothing]
    BY <1>1, <1>5 DEF RunInv, QueueExact, StartTask, Tasks
  <2>2. /\ loads' \in [Stages -> [page : Nat \cup {-1}, phase : Phases]]
        /\ loads'[task.slot].phase = "running" /\ loads'[task.slot].page = loads[task.slot].page
        /\ \A s \in Stages : s # task.slot => loads'[s] = loads[s] /\ stage'[s] = stage[s]
        /\ stage' \in [Stages -> Seq(Nat)]
    BY <1>2, <2>1 DEF Phases
  <2>3. RunTypeOK'
    BY <1>1, <2>1, <2>2 DEF RunInv, RunTypeOK
  <2>4. QueueExact'
    <3>1. ASSUME NEW i \in 1 .. Len(queue'), queue'[i].kind = "load"
          PROVE  queue'[i].slot \in Stages /\ queue'[i].slot # task.slot
      BY <1>1, <1>5, <3>1 DEF Tasks
    <3> QED BY <1>1, <1>3, <2>1, <2>2, <3>1 DEF QueueExact
  <2>5. EndsInOrder' /\ WritesReady' /\ SlotIdle' /\ PagesAccounted' /\ DeliveredPagesExact'
    <3>1. EndsInOrder'
      BY <1>1, <1>4, <2>1, <2>2 DEF RunInv, EndsInOrder
    <3> QED
      BY <1>1, <2>1, <3>1 DEF RunInv, WritesReady, SlotIdle, OutSlot, PagesAccounted, Delivered,
         AwaitedIn, DeliveredPagesExact
  <2>6. WindowExact'
    <3>1. WindowEnd' = WindowEnd /\ \A i : KvPage(i)' = KvPage(i)
      BY <1>1 DEF WindowEnd, Depth, KvTotal, KvPage
    <3> QED BY <1>1, <2>1, <2>2, <3>1 DEF RunInv, WindowExact
  <2>7. StagesLoaded'
    BY <2>1, <2>2 DEF RunInv, StagesLoaded
  <2> QED BY <2>3, <2>4, <2>5, <2>6, <2>7 DEF RunInv
<1>6. CASE task.kind = "write"
  <2>1. /\ task.slot \in OutSlots /\ writes[task.slot].phase \in {"queued", "cancelled"}
        /\ UNCHANGED <<loads, stage>>
        /\ writes' = IF writes[task.slot].phase = "queued"
                     THEN [writes EXCEPT ![task.slot].phase = "running"] ELSE writes
    BY <1>1, <1>6 DEF RunInv, QueueExact, StartTask, Tasks, Phase
  <2>2. /\ writes' \in [OutSlots -> [page : QPages \cup {-1}, phase : Phases]]
        /\ writes'[task.slot].page = writes[task.slot].page
        /\ writes[task.slot].phase = "queued" => writes'[task.slot].phase = "running"
        /\ writes[task.slot].phase # "queued" => writes' = writes
        /\ \A o \in OutSlots : o # task.slot => writes'[o] = writes[o]
    BY <1>2, <2>1 DEF Phases
  <2>3. RunTypeOK'
    BY <1>1, <2>1, <2>2 DEF RunInv, RunTypeOK
  <2>4. QueueExact'
    <3>1. ASSUME NEW i \in 1 .. Len(queue'), queue'[i].kind = "write"
          PROVE  queue'[i].slot \in OutSlots /\ queue'[i].slot # task.slot
      BY <1>1, <1>6, <3>1 DEF Tasks
    <3> QED BY <1>1, <1>3, <2>1, <2>2, <3>1 DEF QueueExact
  <2>5. EndsInOrder' /\ WindowExact' /\ StagesLoaded' /\ DeliveredPagesExact'
    <3>1. EndsInOrder'
      BY <1>1, <1>4, <2>1, <2>2 DEF RunInv, EndsInOrder
    <3>2. WindowEnd' = WindowEnd /\ \A i : KvPage(i)' = KvPage(i)
      BY <1>1 DEF WindowEnd, Depth, KvTotal, KvPage
    <3> QED
      BY <1>1, <2>1, <3>1, <3>2 DEF RunInv, WindowExact, StagesLoaded, DeliveredPagesExact
  <2>6. WritesReady'
    BY <1>1, <2>1, <2>2 DEF RunInv, WritesReady
  <2>7. SlotIdle'
    <3>1. OutSlot \in OutSlots
      BY SlotsInRange DEF OutSlot, RunInv, RunTypeOK
    <3> QED BY <1>1, <2>1, <2>2, <3>1 DEF RunInv, SlotIdle, OutSlot
  <2>8. PagesAccounted'
    <3>1. ASSUME NEW q \in QPages, Delivered(q) \/ AwaitedIn(q)
          PROVE  Delivered(q)' \/ AwaitedIn(q)'
      <4>1. SlotOf(q) \in OutSlots
        BY SlotsInRange
      <4> QED BY <1>1, <2>1, <2>2, <3>1, <4>1 DEF Delivered, AwaitedIn
    <3> QED BY <1>1, <3>1 DEF RunInv, PagesAccounted, Delivered
  <2> QED BY <2>3, <2>4, <2>5, <2>6, <2>7, <2>8 DEF RunInv
<1> QED
  BY <1>1, <1>5, <1>6 DEF Tasks

\* A load ends, in success or failure.
LEMMA LoadEndsRun ==
  ASSUME RunInv, NEW s \in Stages, loads[s].phase = "running",
         NEW phase \in {"done", "failed"},
         loads' = [loads EXCEPT ![s].phase = phase],
         stage' \in [Stages -> Seq(Nat)],
         \A t \in Stages : t # s => stage'[t] = stage[t],
         phase = "done" => stage'[s] = <<loads[s].page>>,
         UNCHANGED <<pc, qpage, chunk, submitted, consumed, queue, writes, qHost, out, sink, outcome>>
  PROVE  RunInv'
<1>1. /\ loads \in [Stages -> [page : Nat \cup {-1}, phase : Phases]]
      /\ loads' \in [Stages -> [page : Nat \cup {-1}, phase : Phases]]
      /\ loads'[s].phase = phase /\ loads'[s].page = loads[s].page
      /\ \A t \in Stages : t # s => loads'[t] = loads[t]
  BY DEF RunInv, RunTypeOK, Phases, Settled
<1>2. RunTypeOK'
  BY <1>1 DEF RunInv, RunTypeOK
<1>3. QueueExact'
  <2>1. \A i \in 1 .. Len(queue) : queue[i] \in Tasks
    BY DEF RunInv, RunTypeOK
  <2>2. \A i \in 1 .. Len(queue) : queue[i].kind = "load" =>
          queue[i].slot \in Stages /\ queue[i].slot # s
    BY <2>1 DEF RunInv, QueueExact, Tasks
  <2> QED BY <1>1, <2>2 DEF RunInv, QueueExact
<1>4. EndsInOrder' /\ WritesReady' /\ SlotIdle' /\ PagesAccounted' /\ DeliveredPagesExact'
  <2>1. EndsInOrder'
    BY <1>1 DEF RunInv, EndsInOrder
  <2> QED
    BY <2>1 DEF RunInv, WritesReady, SlotIdle, OutSlot, PagesAccounted, Delivered, AwaitedIn,
       DeliveredPagesExact
<1>5. WindowExact'
  <2>1. WindowEnd' = WindowEnd /\ \A i : KvPage(i)' = KvPage(i)
    BY DEF WindowEnd, Depth, KvTotal, KvPage
  <2> QED BY <1>1, <2>1 DEF RunInv, WindowExact
<1>6. StagesLoaded'
  BY <1>1 DEF RunInv, StagesLoaded
<1> QED
  BY <1>2, <1>3, <1>4, <1>5, <1>6 DEF RunInv

LEMMA FinishLoadRun ==
  ASSUME RunInv, NEW s \in Stages, FinishLoad(s)
  PROVE  RunInv'
<1>1. loads[s].page \in Nat /\ stage \in [Stages -> Seq(Nat)] /\ loads[s].phase = "running"
  BY DEF RunInv, StagesLoaded, FinishLoad, RunTypeOK
<1>2. <<loads[s].page>> \in Seq(Nat)
  BY <1>1
<1>3. /\ stage' = [stage EXCEPT ![s] = <<loads[s].page>>]
      /\ loads' = [loads EXCEPT ![s].phase = "done"]
      /\ UNCHANGED <<pc, qpage, chunk, submitted, consumed, queue, writes, qHost, out, sink, outcome>>
  BY DEF FinishLoad
<1>4. /\ stage' \in [Stages -> Seq(Nat)] /\ stage'[s] = <<loads[s].page>>
      /\ \A t \in Stages : t # s => stage'[t] = stage[t]
  BY <1>1, <1>2, <1>3
<1> QED
  BY <1>1, <1>3, <1>4, LoadEndsRun

\* A write delivers the answer of a page the sink had not received.
LEMMA FinishWriteRun ==
  ASSUME RunInv, NEW o \in OutSlots, FinishWrite(o)
  PROVE  /\ RunInv' /\ outcome = "running" /\ outcome' = outcome
         /\ \E q \in QPages : sink[q] = Nothing /\ sink' = [sink EXCEPT ![q] = Answer(q)]
<1> DEFINE q == writes[o].page
<1>1. /\ UNCHANGED <<pc, qpage, chunk, submitted, consumed, queue, loads, qHost, stage, out, outcome>>
      /\ writes[o].phase = "running"
      /\ writes \in [OutSlots -> [page : QPages \cup {-1}, phase : Phases]]
      /\ sink \in [QPages -> {Nothing} \cup [Chunks -> Values]]
      /\ out \in [OutSlots -> [Chunks -> Values]]
  BY DEF FinishWrite, bufVars, RunInv, RunTypeOK
<1>2. /\ q \in QPages /\ SlotOf(q) = o /\ out[o] = Answer(q) /\ sink[q] = Nothing
      /\ sink' = [sink EXCEPT ![q] = Answer(q)]
      /\ outcome = "running" /\ pc # "close"
  BY <1>1 DEF FinishWrite, RunInv, WritesReady, EndsInOrder, RunTypeOK
<1>3. /\ writes' \in [OutSlots -> [page : QPages \cup {-1}, phase : Phases]]
      /\ writes'[o].phase = "done" /\ writes'[o].page = q
      /\ \A p \in OutSlots : p # o => writes'[p] = writes[p]
      /\ sink' \in [QPages -> {Nothing} \cup [Chunks -> Values]]
      /\ sink'[q] = Answer(q) /\ \A r \in QPages : r # q => sink'[r] = sink[r]
  BY <1>1, <1>2 DEF FinishWrite, Phases, Settled
<1> HIDE DEF q
<1>4. RunTypeOK'
  BY <1>1, <1>3 DEF RunInv, RunTypeOK
<1>5. QueueExact'
  <2>1. \A i \in 1 .. Len(queue) : queue[i] \in Tasks
    BY DEF RunInv, RunTypeOK
  <2>2. \A i \in 1 .. Len(queue) : queue[i].kind = "write" =>
          queue[i].slot \in OutSlots /\ queue[i].slot # o
    BY <1>1, <2>1 DEF RunInv, QueueExact, Tasks
  <2> QED BY <1>1, <1>3, <2>2 DEF RunInv, QueueExact
<1>6. EndsInOrder' /\ StagesLoaded'
  BY <1>1, <1>2, <1>3 DEF RunInv, EndsInOrder, StagesLoaded
<1>7. WindowExact'
  <2>1. WindowEnd' = WindowEnd /\ \A i : KvPage(i)' = KvPage(i)
    BY <1>1 DEF WindowEnd, Depth, KvTotal, KvPage
  <2> QED BY <1>1, <2>1 DEF RunInv, WindowExact
<1>8. WritesReady' /\ DeliveredPagesExact'
  <2>1. ASSUME NEW p \in OutSlots
        PROVE  /\ writes'[p].phase # "none" => writes'[p].page \in QPages /\ SlotOf(writes'[p].page) = p
               /\ writes'[p].phase \in {"queued", "running"} =>
                    out'[p] = Answer(writes'[p].page) /\ sink'[writes'[p].page] = Nothing
    <3>1. CASE p = o
      BY <1>2, <1>3, <3>1
    <3>2. CASE p # o
      BY <1>1, <1>2, <1>3, <3>2 DEF RunInv, WritesReady
    <3> QED BY <3>1, <3>2
  <2>2. DeliveredPagesExact'
    BY <1>3 DEF RunInv, DeliveredPagesExact
  <2> QED BY <2>1, <2>2 DEF WritesReady
<1>9. SlotIdle' /\ PagesAccounted'
  <2>1. OutSlot \in OutSlots /\ qpage \in QPages /\ QPages \subseteq Nat
    BY SlotsInRange DEF OutSlot, RunInv, RunTypeOK
  <2>2. pc \in Executing => q < qpage /\ (pc # "page" => OutSlot # o)
    BY <1>1 DEF RunInv, SlotIdle, q
  <2>3. SlotIdle'
    BY <1>1, <1>3, <2>1, <2>2 DEF RunInv, SlotIdle, OutSlot, q
  <2>4. ASSUME NEW r \in QPages, Delivered(r) \/ AwaitedIn(r)
        PROVE  Delivered(r)' \/ AwaitedIn(r)'
    <3>1. CASE r = q
      BY <1>3, <3>1 DEF Delivered
    <3>2. CASE r # q
      <4>1. SlotOf(r) \in OutSlots
        BY SlotsInRange
      <4>2. AwaitedIn(r) => SlotOf(r) # o
        BY <3>2 DEF AwaitedIn, q
      <4> QED BY <1>3, <2>4, <3>2, <4>1, <4>2 DEF Delivered, AwaitedIn
    <3> QED BY <3>1, <3>2
  <2>6. \A r \in QPages : pc \in Executing /\ ~(r < qpage) => sink'[r] = Nothing
    BY <1>2, <1>3, <2>2 DEF RunInv, PagesAccounted
  <2> QED
    BY <1>1, <1>2, <2>3, <2>4, <2>6 DEF RunInv, PagesAccounted
<1> QED
  BY <1>1, <1>2, <1>4, <1>5, <1>6, <1>7, <1>8, <1>9 DEF RunInv

\* A failing task keeps everything but its own phase.
LEMMA TaskFailsRun == RunInv /\ TaskFails => RunInv'
<1> SUFFICES ASSUME RunInv, TaskFails PROVE RunInv'
  OBVIOUS
<1>1. UNCHANGED <<pc, qpage, chunk, submitted, consumed, queue, qHost, stage, out, sink, outcome>>
  BY DEF TaskFails, bufVars
<1>2. ASSUME NEW s \in Stages, loads[s].phase = "running",
             loads' = [loads EXCEPT ![s].phase = "failed"], UNCHANGED writes
      PROVE  RunInv'
  <2>1. stage' \in [Stages -> Seq(Nat)] /\ \A t \in Stages : stage'[t] = stage[t]
    BY <1>1 DEF RunInv, RunTypeOK
  <2> QED BY <1>1, <1>2, <2>1, LoadEndsRun
<1>3. ASSUME NEW o \in OutSlots, writes[o].phase = "running",
             writes' = [writes EXCEPT ![o].phase = "failed"], UNCHANGED loads
      PROVE  RunInv'
  <2>1. /\ writes \in [OutSlots -> [page : QPages \cup {-1}, phase : Phases]]
        /\ writes' \in [OutSlots -> [page : QPages \cup {-1}, phase : Phases]]
        /\ writes'[o].phase = "failed" /\ writes'[o].page = writes[o].page
        /\ \A p \in OutSlots : p # o => writes'[p] = writes[p]
    BY <1>3 DEF RunInv, RunTypeOK, Phases, Settled
  <2>2. RunTypeOK'
    BY <1>1, <1>3, <2>1 DEF RunInv, RunTypeOK
  <2>3. QueueExact'
    <3>1. \A i \in 1 .. Len(queue) : queue[i] \in Tasks
      BY DEF RunInv, RunTypeOK
    <3>2. \A i \in 1 .. Len(queue) : queue[i].kind = "write" =>
            queue[i].slot \in OutSlots /\ queue[i].slot # o
      BY <1>3, <3>1 DEF RunInv, QueueExact, Tasks
    <3> QED BY <1>1, <1>3, <2>1, <3>2 DEF RunInv, QueueExact
  <2>4. EndsInOrder' /\ StagesLoaded' /\ WritesReady' /\ DeliveredPagesExact'
    BY <1>1, <1>3, <2>1 DEF RunInv, EndsInOrder, StagesLoaded, WritesReady, DeliveredPagesExact
  <2>5. WindowExact'
    <3>1. WindowEnd' = WindowEnd /\ \A i : KvPage(i)' = KvPage(i)
      BY <1>1 DEF WindowEnd, Depth, KvTotal, KvPage
    <3> QED BY <1>1, <1>3, <3>1 DEF RunInv, WindowExact
  <2>6. SlotIdle'
    <3>1. OutSlot \in OutSlots
      BY SlotsInRange DEF OutSlot, RunInv, RunTypeOK
    <3> QED BY <1>1, <1>3, <2>1, <3>1 DEF RunInv, SlotIdle, OutSlot
  <2>7. PagesAccounted'
    <3>1. ASSUME NEW q \in QPages, Delivered(q) \/ AwaitedIn(q)
          PROVE  Delivered(q)' \/ AwaitedIn(q)'
      <4>1. SlotOf(q) \in OutSlots
        BY SlotsInRange
      <4> QED BY <1>1, <1>3, <2>1, <3>1, <4>1 DEF Delivered, AwaitedIn
    <3> QED BY <1>1, <3>1 DEF RunInv, PagesAccounted, Delivered
  <2> QED BY <2>2, <2>3, <2>4, <2>5, <2>6, <2>7 DEF RunInv
<1> QED
  BY <1>2, <1>3 DEF TaskFails

\* A device copy into a staging buffer whose slot is not being written.
LEMMA StoreRun ==
  ASSUME RunInv, out' \in [OutSlots -> [Chunks -> Values]],
         \A o \in OutSlots : out'[o] # out[o] => writes[o].phase = "none",
         UNCHANGED <<pc, qpage, chunk, submitted, consumed, ioVars, qHost, stage, sink, outcome>>
  PROVE  RunInv'
<1>1. UNCHANGED <<queue, loads, writes>>
  BY DEF ioVars
<1>2. RunTypeOK'
  BY <1>1 DEF RunInv, RunTypeOK
<1>3. WritesReady'
  BY <1>1 DEF RunInv, WritesReady
<1>4. WindowExact'
  <2>1. WindowEnd' = WindowEnd /\ \A i : KvPage(i)' = KvPage(i)
    BY DEF WindowEnd, Depth, KvTotal, KvPage
  <2> QED BY <1>1, <2>1 DEF RunInv, WindowExact
<1>5. QueueExact' /\ EndsInOrder' /\ StagesLoaded' /\ SlotIdle' /\ PagesAccounted' /\ DeliveredPagesExact'
  BY <1>1 DEF RunInv, QueueExact, EndsInOrder, StagesLoaded, SlotIdle, OutSlot, PagesAccounted,
     Delivered, AwaitedIn, DeliveredPagesExact
<1> QED
  BY <1>2, <1>3, <1>4, <1>5 DEF RunInv

LEMMA StutterRun == RunInv /\ UNCHANGED runVars => RunInv'
<1> SUFFICES ASSUME RunInv, UNCHANGED runVars PROVE RunInv'
  OBVIOUS
<1>1. /\ UNCHANGED <<pc, qpage, chunk, submitted, consumed, ioVars, qHost, stage, sink, outcome>>
      /\ out' = out
  BY DEF runVars, ioVars
<1> QED
  BY <1>1, StoreRun DEF RunInv, RunTypeOK

LEMMA EndingRun == RunInv /\ Ending => RunInv'
<1> SUFFICES ASSUME RunInv, Ending PROVE RunInv'
  OBVIOUS
<1>1. ASSUME AwaitedTaskFailed PROVE RunInv'
  BY <1>1, UnwindRun DEF AwaitedTaskFailed, Loop, Executing
<1> QED
  BY <1>1, FinishWritesRun, PublishRun, DropQueueRun, AbortWriterRun, TeardownRun DEF Ending

LEMMA PoolRun == RunInv /\ (Pool \/ TaskFails) => RunInv'
BY StartTaskRun, FinishLoadRun, FinishWriteRun, TaskFailsRun DEF Pool

LEMMA MainRaisesRun == RunInv /\ MainRaises => RunInv'
BY UnwindRun DEF MainRaises, Loop

-----------------------------------------------------------------------------
\* Nothing is read or written any more once the readers, the writer and the
\* staging are gone.
LEMMA RunIsQuiet == RunInv => NoIoOnceOver
<1> SUFFICES ASSUME RunInv, outcome = "raised" \/ pc = "ended"
             PROVE  /\ \A s \in Stages : loads[s].phase \notin {"queued", "running"}
                    /\ \A o \in OutSlots : writes[o].phase \notin {"queued", "running"}
  BY DEF NoIoOnceOver
<1>1. outcome \in {"raised", "returned"}
  BY DEF RunInv, EndsInOrder, RunTypeOK
<1> QED
  BY <1>1 DEF RunInv, EndsInOrder, WindowExact

\* The steps of the run, seen from the sink and the outcome, are those that the
\* abstract run may take.
LEMMA RunInitPromised == RunInit => Promise!Init
BY DEF RunInit, Promise!Init

LEMMA PublishPromised == RunInv /\ Publish => Promise!Return
<1> SUFFICES ASSUME RunInv, Publish PROVE Promise!Return
  OBVIOUS
<1>1. /\ outcome = "running" /\ outcome' = "returned" /\ sink' = sink
      /\ \A q \in QPages : sink[q] = Answer(q)
  BY PublishRun DEF Publish, RunInv, EndsInOrder, Delivered
<1> QED
  BY <1>1 DEF Promise!Return

LEMMA AbortPromised == RunInv /\ AbortWriter => Promise!Raise
<1> SUFFICES ASSUME RunInv, AbortWriter PROVE Promise!Raise
  OBVIOUS
<1>1. outcome = "running" /\ outcome' = "raised" /\ sink' = sink
  BY DEF AbortWriter, RunInv, EndsInOrder
<1> QED
  BY <1>1 DEF Promise!Raise

LEMMA DeliverPromised ==
  ASSUME RunInv, NEW o \in OutSlots, FinishWrite(o)
  PROVE  \E q \in QPages : Promise!Deliver(q)
BY FinishWriteRun DEF Promise!Deliver

-----------------------------------------------------------------------------
(* The device. *)

Marks == Events \X Nat
Works ==
  [op : {"load_q", "load_kv", "update", "mark", "finalize", "store"},
   page : QPages, chunk : Chunks, index : Nat]
Operations == [needs : SUBSET Marks, work : Works, records : SUBSET Marks]
Devices == [queue : [Streams -> Seq(Operations)], unreached : [Events -> Nat]]

\* Every event is recorded on one stream.
RecorderOf(e) ==
  IF e[1] \in {"q_ready", "kv_ready", "stage_free"} THEN "h2d"
  ELSE IF e[1] \in {"q_free", "kv_free", "output_ready"} THEN "compute"
  ELSE "d2h"

\* The unreached records of an event are in one stream's queue, in order.
Counted(dev) ==
  /\ \A s \in Streams : \A i \in 1 .. Len(dev.queue[s]) : \A r \in dev.queue[s][i].records :
       s = RecorderOf(r[1]) /\ r[2] >= 1 /\ r[2] <= dev.unreached[r[1]]
  /\ \A s \in Streams : \A i, j \in 1 .. Len(dev.queue[s]) :
       \A r \in dev.queue[s][i].records, u \in dev.queue[s][j].records :
         r[1] = u[1] => (i < j => r[2] < u[2])

\* The operation at place i of stream s records event e.
RecordsIn(dev, s, i, e) == \E record \in dev.queue[s][i].records : record[1] = e

\* The operation at place i of stream s waits for the one at place j of stream t,
\* or for one behind it.
WaitsIn(dev, s, i, t, j) ==
  \E need \in dev.queue[s][i].needs :
    \E k \in j .. Len(dev.queue[t]) : \E record \in dev.queue[t][k].records :
      record[1] = need[1] /\ record[2] <= need[2]

Q(s) == device.queue[s]
Places(s) == 1 .. Len(Q(s))
WorkAt(s, i) == Q(s)[i].work
Records(s, i, e) == RecordsIn(device, s, i, e)
Waits(s, i, t, j) == WaitsIn(device, s, i, t, j)

DeviceTypeOK ==
  /\ device \in Devices
  /\ dq \in Seq(Nat)
  /\ dkv \in [KvBuffers -> Seq(Nat)]
  /\ acc \in Values
  /\ dout \in [DeviceOutputs -> Values]
  /\ kvTile \in Nat
  /\ qChunk \in Nat

\* What each operation records.
Evidence(w) ==
  CASE w.op = "load_q" -> {<<"q_ready">>}
    [] w.op = "load_kv" -> {<<"kv_ready", KvBuffer(w.index)>>}
    [] w.op = "update" -> {<<"kv_free", KvBuffer(w.index)>>}
    [] w.op = "finalize" -> {<<"output_ready", DeviceOutput(w.index)>>}
    [] w.op = "store" -> {<<"output_free", DeviceOutput(w.index)>>,
                          <<"output_host_ready", SlotOf(w.page)>>}
    [] OTHER -> {}

OperationsRecord ==
  \A s \in Streams : \A i \in Places(s) : \A e \in Evidence(WorkAt(s, i)) : Records(s, i, e)

StreamKinds ==
  /\ \A i \in Places("h2d") : WorkAt("h2d", i).op \in {"load_q", "load_kv", "mark"}
  /\ \A i \in Places("compute") : WorkAt("compute", i).op \in {"update", "mark", "finalize"}
  /\ \A i \in Places("d2h") : WorkAt("d2h", i).op = "store"

\* A page that may still be copied to is not being written.
StoresIdle ==
  \A i \in Places("d2h") : writes[SlotOf(WorkAt("d2h", i).page)].phase = "none"

-----------------------------------------------------------------------------
Scanning == pc \in {"scan", "consume"}
Computing == pc \in {"chunk", "scan", "consume", "drain"}
NumTiles == KvTotal * TilesPerPage

Before(v, w) == v.chunk < w.chunk \/ (v.chunk = w.chunk /\ v.index < w.index)

\* The chunk's last operations were launched.
Closed(c) == c < chunk \/ (pc = "drain" /\ c = chunk)

OnlyMarks == \A i \in Places("h2d") : WorkAt("h2d", i).op = "mark"
Quiet == OnlyMarks /\ Q("compute") = <<>> /\ Q("d2h") = <<>>

Cursor ==
  /\ pc \in {"page", "submit"} => Quiet
  /\ Computing => qHost = <<qpage>>
  /\ pc \in {"drain", "submit"} => chunk + 1 = ChunksPerPage
  /\ pc = "submit" => out[OutSlot] = Answer(qpage)
  /\ pc = "scan" => kvTile = consumed * TilesPerPage
  /\ pc = "consume" =>
       /\ consumed > 0
       /\ (consumed - 1) * TilesPerPage <= kvTile
       /\ kvTile <= consumed * TilesPerPage
       /\ consumed <= KvTotal

\* Pending operations are of the page, and of what was launched of it.
Launched ==
  \A s \in Streams : \A i \in Places(s) : LET w == WorkAt(s, i) IN
    (s # "h2d" \/ w.op # "mark") =>
      /\ w.page = qpage
      /\ w.chunk <= chunk
      /\ pc = "chunk" => w.chunk < chunk
      /\ w.op \in {"load_kv", "update"} =>
           w.index < NumTiles /\ (w.chunk = chunk /\ Scanning => w.index < kvTile)
      /\ w.op \in {"finalize", "store"} => w.index < qChunk /\ Closed(w.chunk)

\* In stream order.
LoadsOrdered ==
  \A i, j \in Places("h2d") : i < j =>
    LET v == WorkAt("h2d", i)
        w == WorkAt("h2d", j)
    IN  /\ v.op = "load_q" /\ w.op = "load_q" => v.chunk < w.chunk
        /\ v.op = "load_kv" /\ w.op = "load_kv" => Before(v, w)

FinalsOrdered ==
  \A i, j \in Places("compute") : i < j =>
    LET v == WorkAt("compute", i)
        w == WorkAt("compute", j)
    IN  v.op = "finalize" /\ w.op = "finalize" => v.index < w.index

-----------------------------------------------------------------------------
IsLoadQ(m, c) == WorkAt("h2d", m).op = "load_q" /\ WorkAt("h2d", m).chunk = c
IsLoadKv(m, c, i) ==
  WorkAt("h2d", m).op = "load_kv" /\ WorkAt("h2d", m).chunk = c /\ WorkAt("h2d", m).index = i
IsUpdate(n) == WorkAt("compute", n).op = "update"
IsFinalize(n) == WorkAt("compute", n).op = "finalize"

\* The Q buffer.
QReady ==
  /\ \A n \in Places("compute") : IsUpdate(n) =>
       LET c == WorkAt("compute", n).chunk IN
       \/ \E m \in Places("h2d") : IsLoadQ(m, c) /\ Waits("compute", n, "h2d", m)
       \/ /\ dq = <<qpage, c>>
          /\ \A m \in Places("h2d") :
               WorkAt("h2d", m).op = "load_q" => WorkAt("h2d", m).chunk > c
  /\ Scanning =>
       \/ \E m \in Places("h2d") : IsLoadQ(m, chunk)
       \/ dq = <<qpage, chunk>> /\ \A m \in Places("h2d") : WorkAt("h2d", m).op # "load_q"

QFree ==
  /\ \A m \in Places("h2d"), n \in Places("compute") :
       /\ WorkAt("h2d", m).op = "load_q"
       /\ IsUpdate(n)
       /\ WorkAt("compute", n).chunk < WorkAt("h2d", m).chunk
       => Waits("h2d", m, "compute", n)
  /\ \A n \in Places("compute") : IsUpdate(n) /\ Closed(WorkAt("compute", n).chunk) =>
       \E k \in n .. Len(Q("compute")) : Records("compute", k, <<"q_free">>)
  /\ \A m \in Places("h2d") : WorkAt("h2d", m).op = "load_q" =>
       LET c == WorkAt("h2d", m).chunk IN
       \/ \E n \in Places("compute") : IsUpdate(n) /\ WorkAt("compute", n).chunk = c
       \/ c = chunk /\ Scanning /\ kvTile = 0

\* The K/V buffers.
KvReady ==
  \A n \in Places("compute") : IsUpdate(n) =>
    LET w == WorkAt("compute", n) IN
    \/ \E m \in Places("h2d") :
         IsLoadKv(m, w.chunk, w.index) /\ Waits("compute", n, "h2d", m)
    \/ /\ dkv[KvBuffer(w.index)] = TilesOf(qpage)[w.index + 1]
       /\ \A m \in Places("h2d") :
            WorkAt("h2d", m).op = "load_kv" => Before(w, WorkAt("h2d", m))

KvFree ==
  /\ \A m \in Places("h2d"), n \in Places("compute") :
       /\ WorkAt("h2d", m).op = "load_kv"
       /\ IsUpdate(n)
       /\ KvBuffer(WorkAt("compute", n).index) = KvBuffer(WorkAt("h2d", m).index)
       /\ Before(WorkAt("compute", n), WorkAt("h2d", m))
       => Waits("h2d", m, "compute", n)
  /\ \A m \in Places("h2d") : WorkAt("h2d", m).op = "load_kv" =>
       \E n \in Places("compute") : IsUpdate(n)
         /\ WorkAt("compute", n).chunk = WorkAt("h2d", m).chunk
         /\ WorkAt("compute", n).index = WorkAt("h2d", m).index

\* The stages.
PageOfTile(index) == index \div TilesPerPage

StagesRead ==
  /\ \A m \in Places("h2d") : WorkAt("h2d", m).op = "load_kv" =>
       LET k == PageOfTile(WorkAt("h2d", m).index) IN
       /\ stage[StageOf(k)] = <<KvPage(k)>>
       /\ loads[StageOf(k)].phase = "none"
       /\ \/ \E j \in m .. Len(Q("h2d")) : Records("h2d", j, <<"stage_free", StageOf(k)>>)
          \/ pc = "consume" /\ k = consumed - 1
  /\ pc = "consume" =>
       /\ stage[StageOf(consumed - 1)] = <<KvPage(consumed - 1)>>
       /\ loads[StageOf(consumed - 1)].phase = "none"

\* The accumulator.
Partial(c, count) == [i \in 1 .. count |-> <<<<qpage, c>>, TilesOf(qpage)[i]>>]
CountBefore(w) == IF w.op = "update" THEN w.index ELSE NumTiles
CountAfter(w) == IF w.op = "update" THEN w.index + 1 ELSE NumTiles

AccumulatorExact ==
  LET C == Q("compute") IN
  /\ C # <<>> =>
       CountBefore(C[1].work) = 0 \/ acc = Partial(C[1].work.chunk, CountBefore(C[1].work))
  /\ \A n \in 1 .. Len(C) - 1 :
       \/ CountBefore(C[n + 1].work) = 0
       \/ /\ C[n + 1].work.chunk = C[n].work.chunk
          /\ CountBefore(C[n + 1].work) = CountAfter(C[n].work)
  /\ Scanning /\ kvTile > 0 =>
       IF C = <<>> THEN acc = Partial(chunk, kvTile)
       ELSE C[Len(C)].work.chunk = chunk /\ CountAfter(C[Len(C)].work) = kvTile

\* The device output buffers, and the staging buffer of the page.
OutputFree ==
  /\ \A n \in Places("compute"), m \in Places("d2h") :
       /\ IsFinalize(n)
       /\ DeviceOutput(WorkAt("compute", n).index) = DeviceOutput(WorkAt("d2h", m).index)
       /\ WorkAt("d2h", m).index < WorkAt("compute", n).index
       => Waits("compute", n, "d2h", m)
  /\ \A n \in Places("compute") : IsFinalize(n) =>
       \E m \in Places("d2h") : WorkAt("d2h", m).index = WorkAt("compute", n).index
  /\ pc \in {"chunk", "drain"} /\ Q("compute") # <<>> => IsFinalize(Len(Q("compute")))

OutputReady ==
  \A m \in Places("d2h") :
    LET w == WorkAt("d2h", m) IN
    \/ \E n \in Places("compute") :
         /\ IsFinalize(n)
         /\ WorkAt("compute", n).index = w.index
         /\ WorkAt("compute", n).chunk = w.chunk
         /\ Waits("d2h", m, "compute", n)
    \/ /\ dout[DeviceOutput(w.index)] = Partial(w.chunk, NumTiles)
       /\ \A n \in Places("compute") : IsFinalize(n) => WorkAt("compute", n).index > w.index

ChunksStored ==
  Computing => \A c \in Chunks : Closed(c) =>
    \/ \E m \in Places("d2h") : WorkAt("d2h", m).chunk = c
    \/ out[OutSlot][c] = Partial(c, NumTiles)

DeviceInv ==
  /\ DeviceTypeOK
  /\ Counted(device)
  /\ OperationsRecord
  /\ StreamKinds
  /\ StoresIdle

LoopInv ==
  /\ Cursor
  /\ Launched
  /\ LoadsOrdered
  /\ FinalsOrdered
  /\ QReady
  /\ QFree
  /\ KvReady
  /\ KvFree
  /\ StagesRead
  /\ AccumulatorExact
  /\ OutputFree
  /\ OutputReady
  /\ ChunksStored

TritonInv == RunInv /\ DeviceInv /\ (pc \in Executing => LoopInv)

-----------------------------------------------------------------------------
(* Streams and events. *)

LEMMA EventsExist ==
  /\ <<"q_ready">> \in Events /\ <<"q_free">> \in Events
  /\ \A b \in KvBuffers : <<"kv_ready", b>> \in Events /\ <<"kv_free", b>> \in Events
  /\ \A o \in DeviceOutputs : <<"output_ready", o>> \in Events /\ <<"output_free", o>> \in Events
  /\ \A s \in Stages : <<"stage_free", s>> \in Events
  /\ \A o \in OutSlots : <<"output_host_ready", o>> \in Events
BY DEF Events

LEMMA BuffersInRange ==
  /\ \A i \in Nat : KvBuffer(i) \in KvBuffers
  /\ \A i \in Nat : DeviceOutput(i) \in DeviceOutputs
BY TritonAssumption DEF KvBuffer, DeviceOutput, KvBuffers, DeviceOutputs

\* What an enqueued operation adds to its stream, and what stays.
Grown(dev, d, s, waits, work, records) ==
  /\ d \in Devices
  /\ \A t \in Streams : t # s => d.queue[t] = dev.queue[t]
  /\ Len(dev.queue[s]) \in Nat
  /\ Len(d.queue[s]) = Len(dev.queue[s]) + 1
  /\ \A i \in 1 .. Len(dev.queue[s]) : d.queue[s][i] = dev.queue[s][i]
  /\ d.queue[s][Len(dev.queue[s]) + 1] =
       [needs   |-> {<<e, dev.unreached[e]>> : e \in {w \in waits : dev.unreached[w] > 0}},
        work    |-> work,
        records |-> {<<e, dev.unreached[e] + 1>> : e \in records}]
  /\ \A e \in Events :
       d.unreached[e] = IF e \in records THEN dev.unreached[e] + 1 ELSE dev.unreached[e]

LEMMA LaunchAdds ==
  ASSUME NEW dev \in Devices, NEW s \in Streams, NEW waits \in SUBSET Events,
         NEW work \in Works, NEW records \in SUBSET Events
  PROVE  Grown(dev, Cuda!Launch(dev, s, waits, work, records), s, waits, work, records)
<1> DEFINE O == Operations
           new == [needs   |-> {<<e, dev.unreached[e]>> :
                                  e \in {w \in waits : dev.unreached[w] > 0}},
                   work    |-> work,
                   records |-> {<<e, dev.unreached[e] + 1>> : e \in records}]
           d == Cuda!Launch(dev, s, waits, work, records)
<1>1. /\ dev.queue \in [Streams -> Seq(O)] /\ dev.unreached \in [Events -> Nat]
      /\ dev = [queue |-> dev.queue, unreached |-> dev.unreached]
  BY DEF Devices
<1>2. new \in O
  BY <1>1 DEF Operations, Marks
<1>3. /\ d = [dev EXCEPT !.queue[s] = Append(@, new),
                         !.unreached = [e \in DOMAIN @ |-> IF e \in records THEN @[e] + 1 ELSE @[e]]]
  BY DEF Cuda!Launch
<1> HIDE DEF O, new
<1>4. /\ d.queue = [dev.queue EXCEPT ![s] = Append(dev.queue[s], new)]
      /\ d.unreached = [e \in Events |-> IF e \in records THEN dev.unreached[e] + 1 ELSE dev.unreached[e]]
      /\ d = [queue |-> d.queue, unreached |-> d.unreached]
  BY <1>1, <1>3
<1> HIDE DEF d
<1>5. d.unreached \in [Events -> Nat]
  BY <1>1, <1>4
<1>6. /\ \A t \in Streams : t # s => d.queue[t] = dev.queue[t]
      /\ d.queue[s] = Append(dev.queue[s], new) /\ dev.queue[s] \in Seq(O)
      /\ d.queue \in [Streams -> Seq(O)]
  BY <1>1, <1>2, <1>4
<1>7. /\ Len(dev.queue[s]) \in Nat
      /\ Len(d.queue[s]) = Len(dev.queue[s]) + 1
      /\ \A i \in 1 .. Len(dev.queue[s]) : d.queue[s][i] = dev.queue[s][i]
      /\ d.queue[s][Len(dev.queue[s]) + 1] = new
  BY <1>2, <1>6
<1>8. d \in Devices
  BY <1>4, <1>5, <1>6 DEF Devices, O
<1>9. \A e \in Events :
        d.unreached[e] = IF e \in records THEN dev.unreached[e] + 1 ELSE dev.unreached[e]
  BY <1>4
<1> QED
  BY <1>6, <1>7, <1>8, <1>9 DEF Grown, d, new

LEMMA MarksTyped ==
  ASSUME NEW dev \in Devices, NEW s \in Streams, NEW i \in 1 .. Len(dev.queue[s])
  PROVE  /\ Len(dev.queue[s]) \in Nat
         /\ dev.queue[s][i] \in Operations
         /\ \A r \in dev.queue[s][i].records : r[1] \in Events /\ r[2] \in Nat /\ r = <<r[1], r[2]>>
         /\ \A n \in dev.queue[s][i].needs : n[1] \in Events /\ n[2] \in Nat /\ n = <<n[1], n[2]>>
<1> DEFINE O == Operations
<1>1. dev.queue[s] \in Seq(O)
  BY DEF Devices
<1> HIDE DEF O
<1>2. dev.queue[s][i] \in O /\ Len(dev.queue[s]) \in Nat
  BY <1>1
<1> QED
  BY <1>2 DEF O, Operations, Marks

LEMMA GrownFrom ==
  ASSUME NEW dev \in Devices, NEW d, NEW s \in Streams, NEW waits, NEW work, NEW records,
         Grown(dev, d, s, waits, work, records)
  PROVE  /\ \A t \in Streams : Len(dev.queue[t]) \in Nat /\ Len(d.queue[t]) \in Nat
         /\ \A t \in Streams : Len(dev.queue[t]) <= Len(d.queue[t])
         /\ \A t \in Streams : \A i \in 1 .. Len(dev.queue[t]) :
              i \in 1 .. Len(d.queue[t]) /\ d.queue[t][i] = dev.queue[t][i]
         /\ \A t \in Streams : \A i \in 1 .. Len(d.queue[t]) :
              \/ i \in 1 .. Len(dev.queue[t]) /\ d.queue[t][i] = dev.queue[t][i]
              \/ t = s /\ i = Len(dev.queue[s]) + 1
         /\ \A e \in Events : /\ dev.unreached[e] \in Nat /\ d.unreached[e] \in Nat
                              /\ dev.unreached[e] <= d.unreached[e]
<1>1. \A t \in Streams : Len(dev.queue[t]) \in Nat
  BY DEF Devices
<1>2. \A e \in Events : dev.unreached[e] \in Nat
  BY DEF Devices
<1>3. \A t \in Streams : t # s => d.queue[t] = dev.queue[t]
  BY DEF Grown
<1>4. /\ Len(d.queue[s]) = Len(dev.queue[s]) + 1
      /\ \A i \in 1 .. Len(dev.queue[s]) : d.queue[s][i] = dev.queue[s][i]
  BY DEF Grown
<1>5. \A e \in Events :
        d.unreached[e] = IF e \in records THEN dev.unreached[e] + 1 ELSE dev.unreached[e]
  BY DEF Grown
<1>6. ASSUME NEW t \in Streams
      PROVE  /\ Len(dev.queue[t]) \in Nat /\ Len(d.queue[t]) \in Nat
             /\ Len(dev.queue[t]) <= Len(d.queue[t])
             /\ \A i \in 1 .. Len(dev.queue[t]) :
                  i \in 1 .. Len(d.queue[t]) /\ d.queue[t][i] = dev.queue[t][i]
             /\ \A i \in 1 .. Len(d.queue[t]) :
                  \/ i \in 1 .. Len(dev.queue[t]) /\ d.queue[t][i] = dev.queue[t][i]
                  \/ t = s /\ i = Len(dev.queue[s]) + 1
  <2>1. CASE t = s
    <3>1. /\ Len(dev.queue[t]) \in Nat /\ Len(d.queue[t]) \in Nat
          /\ Len(d.queue[t]) = Len(dev.queue[t]) + 1
      BY <1>1, <1>4, <2>1
    <3> QED BY SMTT(30), <1>4, <2>1, <3>1
  <2>2. CASE t # s
    <3>1. d.queue[t] = dev.queue[t]
      BY <1>3, <2>2
    <3> QED BY <1>1, <3>1
  <2> QED BY <2>1, <2>2
<1>7. \A e \in Events : /\ dev.unreached[e] \in Nat /\ d.unreached[e] \in Nat
                        /\ dev.unreached[e] <= d.unreached[e]
  BY <1>2, <1>5
<1>8. \A t \in Streams : Len(dev.queue[t]) \in Nat /\ Len(d.queue[t]) \in Nat
  BY <1>6
<1>9. \A t \in Streams : Len(dev.queue[t]) <= Len(d.queue[t])
  BY <1>6
<1>10. \A t \in Streams : \A i \in 1 .. Len(dev.queue[t]) :
         i \in 1 .. Len(d.queue[t]) /\ d.queue[t][i] = dev.queue[t][i]
  BY <1>6
<1>11. \A t \in Streams : \A i \in 1 .. Len(d.queue[t]) :
         \/ i \in 1 .. Len(dev.queue[t]) /\ d.queue[t][i] = dev.queue[t][i]
         \/ t = s /\ i = Len(dev.queue[s]) + 1
  BY <1>6
<1> QED
  BY <1>7, <1>8, <1>9, <1>10, <1>11

LEMMA LaunchCounted ==
  ASSUME NEW dev \in Devices, Counted(dev), NEW d, NEW s \in Streams, NEW waits \in SUBSET Events,
         NEW work, NEW records \in SUBSET Events, Grown(dev, d, s, waits, work, records),
         \A e \in records : RecorderOf(e) = s
  PROVE  Counted(d)
<1> DEFINE n == Len(dev.queue[s])
<1>1. /\ n \in Nat
      /\ Len(d.queue[s]) = n + 1
      /\ d.queue[s][n + 1].records = {<<e, dev.unreached[e] + 1>> : e \in records}
      /\ \A e \in Events :
           d.unreached[e] = IF e \in records THEN dev.unreached[e] + 1 ELSE dev.unreached[e]
  BY DEF Grown
<1>2. \A e \in Events : /\ dev.unreached[e] \in Nat /\ d.unreached[e] \in Nat
                        /\ dev.unreached[e] <= d.unreached[e]
  BY GrownFrom
<1>4. \A t \in Streams : \A i \in 1 .. Len(d.queue[t]) :
        \/ i \in 1 .. Len(dev.queue[t]) /\ d.queue[t][i] = dev.queue[t][i]
        \/ t = s /\ i = n + 1
  BY GrownFrom
<1> HIDE DEF n
<1>3. \A r \in d.queue[s][n + 1].records :
        r[1] \in records /\ r[1] \in Events /\ r[2] = dev.unreached[r[1]] + 1
  BY <1>1
<1>5. ASSUME NEW t \in Streams, NEW i \in 1 .. Len(dev.queue[t]), NEW r \in dev.queue[t][i].records
      PROVE  /\ r[1] \in Events /\ r[2] \in Nat
             /\ t = RecorderOf(r[1]) /\ r[2] >= 1 /\ r[2] <= dev.unreached[r[1]]
  BY MarksTyped DEF Counted
<1>6. ASSUME NEW t \in Streams, NEW i \in 1 .. Len(d.queue[t]), NEW r \in d.queue[t][i].records
      PROVE  t = RecorderOf(r[1]) /\ r[2] >= 1 /\ r[2] <= d.unreached[r[1]]
  <2>1. CASE i \in 1 .. Len(dev.queue[t]) /\ d.queue[t][i] = dev.queue[t][i]
    <3>1. /\ r[1] \in Events /\ r[2] \in Nat
          /\ t = RecorderOf(r[1]) /\ r[2] >= 1 /\ r[2] <= dev.unreached[r[1]]
      BY <1>5, <2>1
    <3>2. dev.unreached[r[1]] \in Nat /\ d.unreached[r[1]] \in Nat
          /\ dev.unreached[r[1]] <= d.unreached[r[1]]
      BY <1>2, <3>1
    <3> QED BY <3>1, <3>2
  <2>2. CASE t = s /\ i = n + 1
    <3>1. r[1] \in records /\ r[1] \in Events /\ r[2] = dev.unreached[r[1]] + 1
      BY <1>3, <2>2
    <3>2. d.unreached[r[1]] = dev.unreached[r[1]] + 1 /\ dev.unreached[r[1]] \in Nat
      BY <1>1, <1>2, <3>1
    <3> QED BY <2>2, <3>1, <3>2
  <2> QED BY <1>4, <2>1, <2>2
<1>7. ASSUME NEW t \in Streams, NEW i \in 1 .. Len(d.queue[t]), NEW j \in 1 .. Len(d.queue[t]),
             NEW r \in d.queue[t][i].records, NEW u \in d.queue[t][j].records,
             r[1] = u[1], i < j
      PROVE  r[2] < u[2]
  <2>1. i \in 1 .. Len(dev.queue[t]) /\ d.queue[t][i] = dev.queue[t][i]
    <3>1. ~(t = s /\ i = n + 1)
      BY <1>1, <1>7
    <3> QED BY <1>4, <3>1
  <2>2. CASE j \in 1 .. Len(dev.queue[t]) /\ d.queue[t][j] = dev.queue[t][j]
    BY <1>7, <2>1, <2>2 DEF Counted
  <2>3. CASE t = s /\ j = n + 1
    <3>1. u[1] \in Events /\ u[2] = dev.unreached[u[1]] + 1 /\ dev.unreached[u[1]] \in Nat
      BY <1>2, <1>3, <2>3
    <3>2. r[2] \in Nat /\ r[2] <= dev.unreached[r[1]]
      BY <1>5, <2>1
    <3> QED BY <1>7, <3>1, <3>2
  <2> QED BY <1>4, <2>2, <2>3
<1> QED
  BY <1>6, <1>7 DEF Counted

\* What was pending keeps its records and goes on waiting when an operation is
\* enqueued; the new one waits for the pending records of its events.
LEMMA LaunchKeeps ==
  ASSUME NEW dev \in Devices, Counted(dev), NEW d, NEW s \in Streams, NEW waits \in SUBSET Events,
         NEW work, NEW records \in SUBSET Events, Grown(dev, d, s, waits, work, records)
  PROVE  /\ \A t, u \in Streams : \A i \in 1 .. Len(dev.queue[t]) : \A j \in Nat \ {0} :
              WaitsIn(dev, t, i, u, j) => WaitsIn(d, t, i, u, j)
         /\ \A t \in Streams : \A i \in 1 .. Len(dev.queue[t]) : \A e :
              RecordsIn(d, t, i, e) <=> RecordsIn(dev, t, i, e)
         /\ \A e : RecordsIn(d, s, Len(dev.queue[s]) + 1, e) <=> e \in records
         /\ d.queue[s][Len(dev.queue[s]) + 1].work = work
         /\ \A e \in waits : \A u \in Streams : \A k \in 1 .. Len(dev.queue[u]) : \A j \in 1 .. k :
              RecordsIn(dev, u, k, e) => WaitsIn(d, s, Len(dev.queue[s]) + 1, u, j)
<1> DEFINE n == Len(dev.queue[s])
<1>1. /\ \A t \in Streams : Len(dev.queue[t]) \in Nat /\ Len(d.queue[t]) \in Nat
      /\ \A t \in Streams : Len(dev.queue[t]) <= Len(d.queue[t])
  BY GrownFrom
<1>8. \A t \in Streams : \A i \in 1 .. Len(dev.queue[t]) :
        i \in 1 .. Len(d.queue[t]) /\ d.queue[t][i] = dev.queue[t][i]
  BY GrownFrom
<1>2. /\ d.queue[s][n + 1].needs =
            {<<f, dev.unreached[f]>> : f \in {w \in waits : dev.unreached[w] > 0}}
      /\ d.queue[s][n + 1].work = work
      /\ d.queue[s][n + 1].records = {<<e, dev.unreached[e] + 1>> : e \in records}
  BY DEF Grown
<1> HIDE DEF n
<1>3. ASSUME NEW t \in Streams, NEW u \in Streams, NEW i \in 1 .. Len(dev.queue[t]),
             NEW j \in Nat \ {0}, WaitsIn(dev, t, i, u, j)
      PROVE  WaitsIn(d, t, i, u, j)
  <2>1. PICK need \in dev.queue[t][i].needs, k \in j .. Len(dev.queue[u]) :
          \E record \in dev.queue[u][k].records : record[1] = need[1] /\ record[2] <= need[2]
    BY <1>3 DEF WaitsIn
  <2>2. PICK record \in dev.queue[u][k].records : record[1] = need[1] /\ record[2] <= need[2]
    BY <2>1
  <2>3. k \in j .. Len(d.queue[u]) /\ record \in d.queue[u][k].records
    BY <1>1, <1>8, <2>2
  <2>4. need \in d.queue[t][i].needs
    BY <1>8
  <2> QED BY <2>2, <2>3, <2>4 DEF WaitsIn
<1>4. ASSUME NEW e \in waits, NEW u \in Streams, NEW k \in 1 .. Len(dev.queue[u]), NEW j \in 1 .. k,
             RecordsIn(dev, u, k, e)
      PROVE  WaitsIn(d, s, n + 1, u, j)
  <2>1. PICK record \in dev.queue[u][k].records : record[1] = e
    BY <1>4 DEF RecordsIn
  <2>2. record[2] \in Nat /\ dev.unreached[e] \in Nat
    BY MarksTyped DEF Devices
  <2>3. record[2] >= 1 /\ record[2] <= dev.unreached[e]
    BY <2>1 DEF Counted
  <2>4. <<e, dev.unreached[e]>> \in d.queue[s][n + 1].needs
    BY <1>2, <2>2, <2>3
  <2>5. k \in j .. Len(d.queue[u]) /\ record \in d.queue[u][k].records
    BY <1>1, <1>8, <2>1
  <2> QED BY <2>1, <2>3, <2>4, <2>5 DEF WaitsIn
<1>5. \A t \in Streams : \A i \in 1 .. Len(dev.queue[t]) : d.queue[t][i] = dev.queue[t][i]
  BY <1>8
<1>6. \A t \in Streams : \A i \in 1 .. Len(dev.queue[t]) : \A e :
        RecordsIn(d, t, i, e) <=> RecordsIn(dev, t, i, e)
  BY <1>5 DEF RecordsIn
<1>7. \A e : RecordsIn(d, s, n + 1, e) <=> e \in records
  <2>1. ASSUME NEW e, e \in records PROVE RecordsIn(d, s, n + 1, e)
    <3>1. <<e, dev.unreached[e] + 1>> \in d.queue[s][n + 1].records
      BY <1>2, <2>1
    <3> QED BY <3>1 DEF RecordsIn
  <2>2. ASSUME NEW e, RecordsIn(d, s, n + 1, e) PROVE e \in records
    BY <1>2, <2>2 DEF RecordsIn
  <2> QED BY <2>1, <2>2
<1> QED
  BY <1>2, <1>3, <1>4, <1>6, <1>7 DEF n

-----------------------------------------------------------------------------
(* A performed operation. *)

Off(s, t) == IF t = s THEN 1 ELSE 0

Reached(dev, s) == {record[1] : record \in dev.queue[s][1].records}

\* What a performed operation removes from its stream, and what stays.
Shrunk(dev, d, s) ==
  /\ d \in Devices
  /\ \A t \in Streams : Len(d.queue[t]) \in Nat
  /\ \A t \in Streams : Len(dev.queue[t]) = Len(d.queue[t]) + Off(s, t)
  /\ \A t \in Streams : \A i \in 1 .. Len(d.queue[t]) :
       d.queue[t][i] = Cuda!Advanced(dev.queue[t][i + Off(s, t)], Reached(dev, s))
  /\ \A e \in Events :
       d.unreached[e] = IF e \in Reached(dev, s) THEN dev.unreached[e] - 1 ELSE dev.unreached[e]

\* A mark of a pending operation, once the events in `reached` were reached.
Left(mark, reached) == IF mark[1] \in reached THEN <<mark[1], mark[2] - 1>> ELSE mark

LEMMA AdvancedIs ==
  ASSUME NEW op, NEW reached
  PROVE  Cuda!Advanced(op, reached) =
           [needs   |-> {n \in {Left(need, reached) : need \in op.needs} : n[2] > 0},
            work    |-> op.work,
            records |-> {Left(record, reached) : record \in op.records}]
BY DEF Cuda!Advanced, Left

LEMMA OffsetsInRange ==
  ASSUME NEW s \in Streams, NEW t \in Streams
  PROVE  Off(s, t) \in {0, 1} /\ Off(s, s) = 1 /\ (t # s => Off(s, t) = 0)
BY DEF Off

\* The records of an event behind the head's are later ones.
LEMMA ReachedFirst ==
  ASSUME NEW dev \in Devices, Counted(dev), NEW s \in Streams, Len(dev.queue[s]) >= 1,
         NEW t \in Streams, NEW i \in 1 .. Len(dev.queue[t]), i > Off(s, t),
         NEW r \in dev.queue[t][i].records, r[1] \in Reached(dev, s)
  PROVE  t = s /\ r[2] >= 2
<1>1. PICK h \in dev.queue[s][1].records : h[1] = r[1]
  BY DEF Reached
<1>2. Len(dev.queue[s]) \in Nat
  BY DEF Devices
<1>3. 1 \in 1 .. Len(dev.queue[s])
  BY <1>2
<1>4. s = RecorderOf(h[1]) /\ h[2] >= 1
  BY <1>3 DEF Counted
<1>5. t = RecorderOf(r[1])
  BY DEF Counted
<1>6. t = s
  BY <1>1, <1>4, <1>5
<1>7. 1 < i /\ i \in 1 .. Len(dev.queue[s])
  BY <1>2, <1>6 DEF Off
<1>8. h[2] < r[2]
  BY <1>1, <1>3, <1>6, <1>7 DEF Counted
<1>9. h[2] \in Nat /\ r[2] \in Nat
  BY <1>3, MarksTyped
<1> QED
  BY <1>4, <1>6, <1>8, <1>9

LEMMA PerformedShrinks ==
  ASSUME NEW dev \in Devices, Counted(dev), NEW s \in Streams, dev.queue[s] # <<>>
  PROVE  Shrunk(dev, Cuda!Performed(dev, s), s)
<1> DEFINE d == Cuda!Performed(dev, s)
           R == Reached(dev, s)
           O == Operations
           old(t, i) == dev.queue[t][i + Off(s, t)]
<1>1. /\ dev.queue \in [Streams -> Seq(O)] /\ dev.unreached \in [Events -> Nat]
  BY DEF Devices
<1>2. \A t \in Streams : dev.queue[t] \in Seq(O) /\ Len(dev.queue[t]) \in Nat
  <2> HIDE DEF O
  <2> QED BY <1>1
<1>3. Len(dev.queue[s]) >= 1 /\ Head(dev.queue[s]) = dev.queue[s][1]
      /\ Len(Tail(dev.queue[s])) = Len(dev.queue[s]) - 1
      /\ \A i \in 1 .. Len(dev.queue[s]) - 1 : Tail(dev.queue[s])[i] = dev.queue[s][i + 1]
  <2> HIDE DEF O
  <2> QED BY <1>2
<1> DEFINE rest == [dev.queue EXCEPT ![s] = Tail(@)]
<1>4. d = [queue |-> [t \in DOMAIN rest |->
                        [i \in 1 .. Len(rest[t]) |-> Cuda!Advanced(rest[t][i], R)]],
           unreached |-> [e \in DOMAIN dev.unreached |->
                            IF e \in R THEN dev.unreached[e] - 1 ELSE dev.unreached[e]]]
  BY <1>3 DEF Cuda!Performed, Reached
<1>5. /\ DOMAIN rest = Streams
      /\ \A t \in Streams : t # s => rest[t] = dev.queue[t]
      /\ rest[s] = Tail(dev.queue[s])
  <2> HIDE DEF O
  <2> QED BY <1>1
<1>6. ASSUME NEW t \in Streams
      PROVE  /\ Len(rest[t]) \in Nat
             /\ Len(dev.queue[t]) = Len(rest[t]) + Off(s, t)
             /\ \A i \in 1 .. Len(rest[t]) : rest[t][i] = old(t, i)
  <2> HIDE DEF rest, d, O, R
  <2>1. CASE t = s
    <3>1. Len(rest[t]) = Len(dev.queue[s]) - 1 /\ Off(s, t) = 1
      BY <1>3, <1>5, <2>1 DEF Off
    <3>2. Len(rest[t]) \in Nat /\ Len(dev.queue[t]) = Len(rest[t]) + Off(s, t)
      BY <1>2, <1>3, <2>1, <3>1
    <3>3. ASSUME NEW i \in 1 .. Len(rest[t]) PROVE rest[t][i] = old(t, i)
      <4>1. i \in 1 .. Len(dev.queue[s]) - 1
        BY <3>1
      <4>2. rest[t][i] = dev.queue[s][i + 1]
        BY <1>3, <1>5, <2>1, <4>1
      <4> QED BY <2>1, <3>1, <4>2
    <3> QED BY <3>2, <3>3
  <2>2. CASE t # s
    <3>1. rest[t] = dev.queue[t] /\ Off(s, t) = 0
      BY <1>5, <2>2 DEF Off
    <3>2. ASSUME NEW i \in 1 .. Len(rest[t]) PROVE rest[t][i] = old(t, i)
      <4>1. i + Off(s, t) = i
        BY <3>1
      <4> QED BY <3>1, <4>1
    <3>3. Len(dev.queue[t]) = Len(rest[t]) + Off(s, t) /\ Len(rest[t]) \in Nat
      BY <1>2, <3>1
    <3> QED BY <3>2, <3>3
  <2> QED BY <2>1, <2>2
<1>7. /\ d.queue = [t \in Streams |-> [i \in 1 .. Len(rest[t]) |-> Cuda!Advanced(rest[t][i], R)]]
      /\ d.unreached = [e \in Events |->
                          IF e \in R THEN dev.unreached[e] - 1 ELSE dev.unreached[e]]
      /\ d = [queue |-> d.queue, unreached |-> d.unreached]
  <2>1. DOMAIN dev.unreached = Events
    BY <1>1
  <2> HIDE DEF rest, R, O
  <2> QED BY <1>4, <1>5, <2>1
<1> HIDE DEF d
<1>8. ASSUME NEW t \in Streams
      PROVE  /\ d.queue[t] = [i \in 1 .. Len(rest[t]) |-> Cuda!Advanced(old(t, i), R)]
             /\ Len(d.queue[t]) = Len(rest[t])
  <2> HIDE DEF rest, R, O
  <2>1. d.queue[t] = [i \in 1 .. Len(rest[t]) |-> Cuda!Advanced(rest[t][i], R)]
    BY <1>7
  <2>2. Len(d.queue[t]) = Len(rest[t])
    BY <1>6, <2>1
  <2> QED BY <1>6, <2>1, <2>2
<1>9. \A e \in R : e \in Events /\ dev.unreached[e] >= 1
  <2>1. ASSUME NEW r \in dev.queue[s][1].records
        PROVE  r[1] \in Events /\ dev.unreached[r[1]] >= 1
    <3>1. 1 \in 1 .. Len(dev.queue[s])
      BY <1>2, <1>3
    <3>2. r[1] \in Events /\ r[2] \in Nat
      BY <3>1, MarksTyped
    <3>3. r[2] >= 1 /\ r[2] <= dev.unreached[r[1]]
      BY <3>1 DEF Counted
    <3>4. dev.unreached[r[1]] \in Nat
      BY <1>1, <3>2
    <3> QED BY <3>2, <3>3, <3>4
  <2> QED BY <2>1 DEF Reached
<1>10. d.unreached \in [Events -> Nat]
  <2> HIDE DEF R
  <2>1. \A e \in Events : d.unreached[e] =
          IF e \in R THEN dev.unreached[e] - 1 ELSE dev.unreached[e]
    BY <1>7
  <2>2. \A e \in Events : d.unreached[e] \in Nat
    BY <1>1, <1>9, <2>1
  <2> QED BY <1>7, <2>2
<1>11. ASSUME NEW t \in Streams, NEW i \in 1 .. Len(rest[t])
       PROVE  Cuda!Advanced(old(t, i), R) \in O
  <2> DEFINE k == i + Off(s, t)
  <2>1. k \in 1 .. Len(dev.queue[t]) /\ k > Off(s, t)
    <3> HIDE DEF rest, R, O
    <3>1. Off(s, t) \in {0, 1}
      BY OffsetsInRange
    <3> QED BY <1>2, <1>6, <3>1
  <2> HIDE DEF k
  <2>2. /\ dev.queue[t][k] \in Operations
        /\ \A r \in dev.queue[t][k].records : r[1] \in Events /\ r[2] \in Nat /\ r = <<r[1], r[2]>>
        /\ \A n \in dev.queue[t][k].needs : n[1] \in Events /\ n[2] \in Nat /\ n = <<n[1], n[2]>>
    BY <2>1, MarksTyped
  <2>3. ASSUME NEW r \in dev.queue[t][k].records PROVE Left(r, R) \in Marks
    <3>1. CASE r[1] \in R
      <4>1. r[2] >= 2
        BY <1>3, <2>1, <3>1, ReachedFirst
      <4> QED BY <2>2, <3>1, <4>1 DEF Left, Marks
    <3>2. CASE r[1] \notin R
      BY <2>2, <3>2 DEF Left, Marks
    <3> QED BY <3>1, <3>2
  <2>4. ASSUME NEW n \in dev.queue[t][k].needs, Left(n, R)[2] > 0 PROVE Left(n, R) \in Marks
    <3> HIDE DEF R
    <3>0. n[1] \in Events /\ n[2] \in Nat /\ n = <<n[1], n[2]>>
      BY <2>2
    <3>1. CASE n[1] \in R
      <4>1. Left(n, R) = <<n[1], n[2] - 1>>
        BY <3>1 DEF Left
      <4>2. n[2] - 1 > 0
        BY <2>4, <4>1
      <4> QED BY <3>0, <4>1, <4>2 DEF Marks
    <3>2. CASE n[1] \notin R
      BY <3>0, <3>2 DEF Left, Marks
    <3> QED BY <3>1, <3>2
  <2>5. dev.queue[t][k].work \in Works
    BY <2>2 DEF Operations
  <2> HIDE DEF R
  <2> QED BY <2>3, <2>4, <2>5, AdvancedIs DEF Operations, k
<1>12. d \in Devices
  <2> HIDE DEF rest, R, O, old
  <2>1. ASSUME NEW t \in Streams PROVE d.queue[t] \in Seq(O)
    <3> DEFINE n == Len(rest[t])
    <3>1. n \in Nat /\ d.queue[t] = [i \in 1 .. n |-> Cuda!Advanced(old(t, i), R)]
      BY <1>6, <1>8
    <3>2. \A i \in 1 .. n : Cuda!Advanced(old(t, i), R) \in O
      BY <1>11
    <3> HIDE DEF n
    <3>3. d.queue[t] \in [1 .. n -> O]
      BY <3>1, <3>2
    <3> QED BY <3>1, <3>3
  <2>2. d.queue \in [Streams -> Seq(O)]
    BY <1>7, <2>1
  <2> QED BY <1>7, <1>10, <2>2 DEF Devices, O
<1>13. \A t \in Streams : Len(d.queue[t]) \in Nat /\ Len(dev.queue[t]) = Len(d.queue[t]) + Off(s, t)
  <2> HIDE DEF rest, R, O, old
  <2> QED BY <1>6, <1>8
<1>14. \A t \in Streams : \A i \in 1 .. Len(d.queue[t]) :
         d.queue[t][i] = Cuda!Advanced(dev.queue[t][i + Off(s, t)], R)
  <2> HIDE DEF rest, R, O
  <2> QED BY <1>8
<1>15. \A e \in Events : d.unreached[e] =
         IF e \in R THEN dev.unreached[e] - 1 ELSE dev.unreached[e]
  <2> HIDE DEF R
  <2> QED BY <1>7
<1> QED
  BY <1>12, <1>13, <1>14, <1>15 DEF Shrunk, d

LEMMA ShrunkCounted ==
  ASSUME NEW dev \in Devices, Counted(dev), NEW s \in Streams, Len(dev.queue[s]) >= 1,
         NEW d, Shrunk(dev, d, s)
  PROVE  Counted(d)
<1> DEFINE R == Reached(dev, s)
<1>1. ASSUME NEW t \in Streams, NEW i \in 1 .. Len(d.queue[t]), NEW r \in d.queue[t][i].records
      PROVE  /\ i + Off(s, t) \in 1 .. Len(dev.queue[t]) /\ i + Off(s, t) > Off(s, t)
             /\ \E b \in dev.queue[t][i + Off(s, t)].records : r = Left(b, R)
  <2>1. /\ Len(d.queue[t]) \in Nat /\ Len(dev.queue[t]) = Len(d.queue[t]) + Off(s, t)
        /\ d.queue[t][i] = Cuda!Advanced(dev.queue[t][i + Off(s, t)], R)
    BY DEF Shrunk
  <2>2. Off(s, t) \in {0, 1}
    BY OffsetsInRange
  <2> HIDE DEF R
  <2>3. d.queue[t][i].records = {Left(record, R) : record \in dev.queue[t][i + Off(s, t)].records}
    BY <2>1, AdvancedIs
  <2>4. i + Off(s, t) \in 1 .. Len(dev.queue[t]) /\ i + Off(s, t) > Off(s, t)
    BY <2>1, <2>2
  <2> QED BY <2>3, <2>4
<1>2. \A e \in Events :
        d.unreached[e] = IF e \in R THEN dev.unreached[e] - 1 ELSE dev.unreached[e]
  BY DEF Shrunk
<1>3. ASSUME NEW t \in Streams, NEW k \in 1 .. Len(dev.queue[t]), k > Off(s, t),
             NEW b \in dev.queue[t][k].records
      PROVE  /\ Left(b, R)[1] = b[1]
             /\ Left(b, R)[2] = IF b[1] \in R THEN b[2] - 1 ELSE b[2]
             /\ b[1] \in Events /\ b[2] \in Nat /\ dev.unreached[b[1]] \in Nat
             /\ t = RecorderOf(b[1]) /\ b[2] >= 1 /\ b[2] <= dev.unreached[b[1]]
             /\ b[1] \in R => b[2] >= 2
  <2>1. b[1] \in Events /\ b[2] \in Nat
    BY MarksTyped
  <2>2. dev.unreached[b[1]] \in Nat
    BY <2>1 DEF Devices
  <2>3. t = RecorderOf(b[1]) /\ b[2] >= 1 /\ b[2] <= dev.unreached[b[1]]
    BY DEF Counted
  <2>4. b[1] \in R => b[2] >= 2
    BY <1>3, ReachedFirst
  <2>5. /\ Left(b, R)[1] = b[1]
        /\ Left(b, R)[2] = IF b[1] \in R THEN b[2] - 1 ELSE b[2]
    <3> HIDE DEF R
    <3> QED BY DEF Left
  <2> QED BY <2>1, <2>2, <2>3, <2>4, <2>5
<1> HIDE DEF R
<1>4. ASSUME NEW t \in Streams, NEW i \in 1 .. Len(d.queue[t]), NEW r \in d.queue[t][i].records
      PROVE  t = RecorderOf(r[1]) /\ r[2] >= 1 /\ r[2] <= d.unreached[r[1]]
  <2>1. PICK b \in dev.queue[t][i + Off(s, t)].records : r = Left(b, R)
    BY <1>1
  <2>2. /\ r[1] = b[1]
        /\ r[2] = IF b[1] \in R THEN b[2] - 1 ELSE b[2]
        /\ b[1] \in Events /\ b[2] \in Nat /\ dev.unreached[b[1]] \in Nat
        /\ t = RecorderOf(b[1]) /\ b[2] >= 1 /\ b[2] <= dev.unreached[b[1]]
        /\ b[1] \in R => b[2] >= 2
    BY <1>1, <1>3, <2>1
  <2>3. d.unreached[b[1]] = IF b[1] \in R THEN dev.unreached[b[1]] - 1 ELSE dev.unreached[b[1]]
    BY <1>2, <2>2
  <2> QED BY <2>2, <2>3
<1>5. ASSUME NEW t \in Streams, NEW i \in 1 .. Len(d.queue[t]), NEW j \in 1 .. Len(d.queue[t]),
             NEW r \in d.queue[t][i].records, NEW u \in d.queue[t][j].records,
             r[1] = u[1], i < j
      PROVE  r[2] < u[2]
  <2> DEFINE k == i + Off(s, t)
             l == j + Off(s, t)
  <2>1. PICK b \in dev.queue[t][k].records : r = Left(b, R)
    BY <1>1
  <2>2. PICK c \in dev.queue[t][l].records : u = Left(c, R)
    BY <1>1
  <2>3. k \in 1 .. Len(dev.queue[t]) /\ l \in 1 .. Len(dev.queue[t])
        /\ k > Off(s, t) /\ l > Off(s, t)
    BY <1>1
  <2>4. k < l
    <3>1. Len(d.queue[t]) \in Nat /\ Off(s, t) \in {0, 1}
      BY OffsetsInRange DEF Shrunk
    <3> QED BY <1>5, <3>1
  <2> HIDE DEF k, l
  <2>5. /\ r[1] = b[1]
        /\ r[2] = IF b[1] \in R THEN b[2] - 1 ELSE b[2]
        /\ b[1] \in Events /\ b[2] \in Nat
    BY <1>3, <2>1, <2>3
  <2>6. /\ u[1] = c[1]
        /\ u[2] = IF c[1] \in R THEN c[2] - 1 ELSE c[2]
        /\ c[1] \in Events /\ c[2] \in Nat
    BY <1>3, <2>2, <2>3
  <2>7. b[2] < c[2]
    BY <1>5, <2>3, <2>4, <2>5, <2>6 DEF Counted
  <2>8. b[1] = c[1]
    BY <1>5, <2>5, <2>6
  <2>9. CASE b[1] \in R
    <3>1. r[2] = b[2] - 1 /\ u[2] = c[2] - 1
      BY <2>5, <2>6, <2>8, <2>9
    <3> QED BY <2>5, <2>6, <2>7, <3>1
  <2>10. CASE b[1] \notin R
    BY <2>5, <2>6, <2>7, <2>8, <2>10
  <2> QED BY <2>9, <2>10
<1> QED
  BY <1>4, <1>5 DEF Counted

\* What is left pending keeps its records, and goes on waiting for what it
\* waited for, now one place further on in the stream that advanced.
LEMMA ShrunkKeeps ==
  ASSUME NEW dev \in Devices, Counted(dev), NEW s \in Streams, Len(dev.queue[s]) >= 1,
         NEW d, Shrunk(dev, d, s)
  PROVE  /\ \A t \in Streams : \A i \in 1 .. Len(d.queue[t]) :
              i + Off(s, t) \in 1 .. Len(dev.queue[t])
         /\ \A t \in Streams : \A i \in 1 .. Len(d.queue[t]) :
              d.queue[t][i].work = dev.queue[t][i + Off(s, t)].work
         /\ \A t \in Streams : \A i \in 1 .. Len(d.queue[t]) : \A e :
              RecordsIn(d, t, i, e) <=> RecordsIn(dev, t, i + Off(s, t), e)
         /\ \A t, u \in Streams : \A i \in 1 .. Len(d.queue[t]), j \in 1 .. Len(d.queue[u]) :
              WaitsIn(dev, t, i + Off(s, t), u, j + Off(s, u)) => WaitsIn(d, t, i, u, j)
<1> DEFINE R == Reached(dev, s)
<1>1. /\ \A t \in Streams : Len(d.queue[t]) \in Nat
      /\ \A t \in Streams : Len(dev.queue[t]) = Len(d.queue[t]) + Off(s, t)
      /\ \A t \in Streams : Off(s, t) \in {0, 1}
  BY OffsetsInRange DEF Shrunk
<1>2. \A t \in Streams : \A i \in 1 .. Len(d.queue[t]) :
        d.queue[t][i] = Cuda!Advanced(dev.queue[t][i + Off(s, t)], R)
  BY DEF Shrunk
<1> HIDE DEF R
<1>3. \A t \in Streams : \A i \in 1 .. Len(d.queue[t]) :
        i + Off(s, t) \in 1 .. Len(dev.queue[t])
  BY <1>1
<1>4. ASSUME NEW t \in Streams, NEW i \in 1 .. Len(d.queue[t])
      PROVE  LET op == dev.queue[t][i + Off(s, t)]
             IN  /\ d.queue[t][i].work = op.work
                 /\ d.queue[t][i].records = {Left(record, R) : record \in op.records}
                 /\ d.queue[t][i].needs = {n \in {Left(need, R) : need \in op.needs} : n[2] > 0}
  BY <1>2, AdvancedIs
<1>5. \A mark : Left(mark, R)[1] = mark[1]
  BY DEF Left
<1>6. ASSUME NEW t \in Streams, NEW i \in 1 .. Len(d.queue[t]), NEW e
      PROVE  RecordsIn(d, t, i, e) <=> RecordsIn(dev, t, i + Off(s, t), e)
  <2> DEFINE op == dev.queue[t][i + Off(s, t)]
  <2>1. d.queue[t][i].records = {Left(record, R) : record \in op.records}
    BY <1>4
  <2> HIDE DEF op
  <2>2. (\E record \in d.queue[t][i].records : record[1] = e)
          <=> \E record \in op.records : record[1] = e
    BY <1>5, <2>1
  <2> QED BY <2>2 DEF RecordsIn, op
<1>7. ASSUME NEW t \in Streams, NEW u \in Streams,
             NEW i \in 1 .. Len(d.queue[t]), NEW j \in 1 .. Len(d.queue[u]),
             WaitsIn(dev, t, i + Off(s, t), u, j + Off(s, u))
      PROVE  WaitsIn(d, t, i, u, j)
  <2> DEFINE op == dev.queue[t][i + Off(s, t)]
  <2>1. PICK need \in op.needs, k \in j + Off(s, u) .. Len(dev.queue[u]) :
          \E record \in dev.queue[u][k].records : record[1] = need[1] /\ record[2] <= need[2]
    BY <1>7 DEF WaitsIn
  <2>2. PICK record \in dev.queue[u][k].records : record[1] = need[1] /\ record[2] <= need[2]
    BY <2>1
  <2>3. /\ k \in 1 .. Len(dev.queue[u]) /\ k > Off(s, u)
        /\ k - Off(s, u) \in j .. Len(d.queue[u])
        /\ k - Off(s, u) \in 1 .. Len(d.queue[u])
        /\ (k - Off(s, u)) + Off(s, u) = k
    BY SMTT(30), <1>1
  <2>4. record[1] \in Events /\ record[2] \in Nat
    BY <2>3, MarksTyped
  <2>5. need[1] \in Events /\ need[2] \in Nat
    BY <1>3, MarksTyped
  <2>6. record[2] >= 1
    BY <2>3 DEF Counted
  <2>7. record[1] \in R => record[2] >= 2
    BY <2>3, ReachedFirst DEF R
  <2>8. /\ Left(record, R)[2] = IF record[1] \in R THEN record[2] - 1 ELSE record[2]
        /\ Left(need, R)[2] = IF need[1] \in R THEN need[2] - 1 ELSE need[2]
    BY DEF Left
  <2>9. Left(need, R)[2] > 0 /\ Left(record, R)[2] <= Left(need, R)[2]
    BY <2>2, <2>4, <2>5, <2>6, <2>7, <2>8
  <2>10. Left(need, R) \in d.queue[t][i].needs
    <3>1. d.queue[t][i].needs = {n \in {Left(b, R) : b \in op.needs} : n[2] > 0}
      BY <1>4
    <3> HIDE DEF op
    <3> QED BY <2>9, <3>1
  <2>11. Left(record, R) \in d.queue[u][k - Off(s, u)].records
    <3>1. d.queue[u][k - Off(s, u)].records =
            {Left(b, R) : b \in dev.queue[u][(k - Off(s, u)) + Off(s, u)].records}
      BY <1>4, <2>3
    <3> QED BY <2>3, <3>1
  <2>12. Left(record, R)[1] = Left(need, R)[1]
    BY <1>5, <2>2
  <2> QED BY <2>3, <2>9, <2>10, <2>11, <2>12 DEF WaitsIn
<1>8. \A t \in Streams : \A i \in 1 .. Len(d.queue[t]) :
        d.queue[t][i].work = dev.queue[t][i + Off(s, t)].work
  BY <1>4
<1> QED
  BY <1>3, <1>6, <1>7, <1>8

\* An operation that can be performed waits for nothing.
LEMMA HeadWaitsForNothing ==
  ASSUME NEW dev, NEW s, Cuda!CanPerform(dev, s), NEW t, NEW j
  PROVE  dev.queue[s] # <<>> /\ ~WaitsIn(dev, s, 1, t, j)
BY DEF Cuda!CanPerform, WaitsIn

\* An event without unreached records is recorded by no pending operation.
LEMMA SynchronizedEvent ==
  ASSUME NEW dev \in Devices, Counted(dev), NEW e \in Events, Cuda!Synchronized(dev, e),
         NEW s \in Streams, NEW i \in 1 .. Len(dev.queue[s])
  PROVE  ~RecordsIn(dev, s, i, e)
<1> SUFFICES ASSUME NEW r \in dev.queue[s][i].records, r[1] = e PROVE FALSE
  BY DEF RecordsIn
<1>1. r[2] \in Nat /\ r[2] >= 1 /\ r[2] <= dev.unreached[e]
  BY MarksTyped DEF Counted
<1> QED
  BY <1>1 DEF Cuda!Synchronized

-----------------------------------------------------------------------------
(* Pages, tiles and answers. *)

LEMMA Basics ==
  ASSUME RunInv, DeviceTypeOK
  PROVE  /\ qpage \in QPages /\ OutSlot \in OutSlots
         /\ chunk \in Nat /\ chunk \in Chunks /\ chunk < ChunksPerPage /\ ChunksPerPage \in Nat
         /\ consumed \in Nat /\ submitted \in Nat /\ kvTile \in Nat /\ qChunk \in Nat
         /\ KvTotal \in Nat \ {0} /\ TilesPerPage \in Nat \ {0} /\ NumTiles \in Nat \ {0}
         /\ device \in Devices
<1>1. qpage \in QPages /\ chunk \in Chunks /\ consumed \in Nat /\ submitted \in Nat
  BY DEF RunInv, RunTypeOK
<1>2. chunk \in Nat /\ chunk < ChunksPerPage /\ ChunksPerPage \in Nat
  BY <1>1, RunAssumption DEF Chunks
<1>3. KvTotal \in Nat \ {0} /\ TilesPerPage \in Nat \ {0}
  BY <1>1, SegmentPages, RunAssumption
<1>4. NumTiles \in Nat \ {0}
  BY <1>3 DEF NumTiles
<1>5. kvTile \in Nat /\ qChunk \in Nat /\ device \in Devices
  BY DEF DeviceTypeOK
<1>6. OutSlot \in OutSlots
  BY <1>1, SlotsInRange DEF OutSlot
<1> QED
  BY <1>1, <1>2, <1>3, <1>4, <1>5, <1>6

LEMMA WorksTyped ==
  ASSUME device \in Devices, NEW s \in Streams, NEW i \in Places(s)
  PROVE  /\ Len(Q(s)) \in Nat
         /\ WorkAt(s, i) \in Works
         /\ WorkAt(s, i).page \in QPages /\ WorkAt(s, i).chunk \in Nat
         /\ WorkAt(s, i).chunk \in Chunks /\ WorkAt(s, i).index \in Nat
<1>1. Len(Q(s)) \in Nat /\ Q(s)[i] \in Operations
  BY MarksTyped DEF Places, Q
<1>2. WorkAt(s, i) \in Works
  BY <1>1 DEF WorkAt, Operations
<1>3. Chunks \subseteq Nat
  BY RunAssumption DEF Chunks
<1> QED
  BY <1>1, <1>2, <1>3 DEF Works

LEMMA OpIsWork ==
  ASSUME RunInv, DeviceTypeOK, NEW index \in Nat,
         NEW op \in {"load_q", "load_kv", "update", "mark", "finalize", "store"}
  PROVE  /\ Op(op, index) \in Works
         /\ Op(op, index).op = op /\ Op(op, index).page = qpage
         /\ Op(op, index).chunk = chunk /\ Op(op, index).index = index
BY Basics DEF Op, Works

LEMMA QuotientIsNatural ==
  ASSUME NEW i \in Nat, NEW n \in Nat \ {0}
  PROVE  i \div n \in Nat /\ i % n \in Nat
<1> DEFINE a == i \div n
           r == i % n
<1>1. a \in Int /\ r \in Int /\ 0 <= r /\ r < n /\ i = (n * a) + r
  OBVIOUS
<1> HIDE DEF a, r
<1>2. ASSUME a <= -1 PROVE FALSE
  <2>1. n * a <= -n
    BY <1>1, <1>2
  <2>2. (n * a) \in Int
    BY <1>1
  <2> QED BY <1>1, <2>1, <2>2
<1> QED
  BY <1>1, <1>2 DEF a, r

\* A tile belongs to the page its index lies in.
LEMMA PageOfTileIs ==
  ASSUME NEW i \in Nat, NEW k \in Nat, k * TilesPerPage <= i, i < (k + 1) * TilesPerPage
  PROVE  PageOfTile(i) = k
<1> DEFINE n == TilesPerPage
           a == i \div n
<1>1. n \in Nat \ {0}
  BY RunAssumption
<1> HIDE DEF n
<1>2. a \in Int /\ i % n \in 0 .. n - 1 /\ i = (n * a) + (i % n)
  BY <1>1
<1> HIDE DEF a
<1>3. (k + 1) * n = (n * k) + n /\ k * n = n * k
  BY <1>1
<1> DEFINE d == a - k
<1>4. d \in Int /\ n * d = (n * a) - (n * k) /\ (n * a) \in Int /\ (n * k) \in Int
  BY <1>1, <1>2
<1> HIDE DEF d
<1>5. n * d < n /\ n * d > -n
  BY <1>1, <1>2, <1>3, <1>4 DEF n
<1>6. ~(d >= 1) /\ ~(d <= -1)
  BY <1>1, <1>4, <1>5
<1>7. d = 0
  BY <1>4, <1>6
<1>8. a = k
  BY <1>2, <1>7 DEF d
<1> QED
  BY <1>8 DEF PageOfTile, a, n

LEMMA TilesAre ==
  ASSUME qpage \in QPages, NEW i \in Nat, i < NumTiles
  PROVE  /\ TilesOf(qpage)[i + 1] = <<KvPage(PageOfTile(i)), i % TilesPerPage>>
         /\ PageOfTile(i) \in 0 .. KvTotal - 1
<1>1. KvTotal \in Nat \ {0} /\ TilesPerPage \in Nat \ {0} /\ NumTiles \in Nat
  BY SegmentPages, RunAssumption DEF NumTiles
<1>2. i + 1 \in 1 .. Len(KvPagesOf[qpage]) * TilesPerPage /\ (i + 1) - 1 = i
  BY <1>1 DEF NumTiles, KvTotal
<1>3. TilesOf(qpage)[i + 1] =
        <<KvPagesOf[qpage][((i + 1 - 1) \div TilesPerPage) + 1], (i + 1 - 1) % TilesPerPage>>
  BY <1>2 DEF TilesOf
<1>4. TilesOf(qpage)[i + 1] = <<KvPagesOf[qpage][(i \div TilesPerPage) + 1], i % TilesPerPage>>
  BY <1>2, <1>3
<1> DEFINE n == TilesPerPage
           a == i \div n
           t == KvTotal
<1>5. a \in Int /\ i % n \in 0 .. n - 1 /\ i = (n * a) + (i % n) /\ i < t * n
  BY <1>1 DEF NumTiles
<1> HIDE DEF a
<1>6. a \in 0 .. t - 1
  <2> HIDE DEF n, t
  <2>1. n \in Nat \ {0} /\ t \in Nat
    BY <1>1 DEF n, t
  <2> DEFINE d == t - a
  <2>2. t * n = n * t /\ n * d = (n * t) - (n * a)
        /\ (n * t) \in Int /\ (n * a) \in Int /\ d \in Int
    BY <1>5, <2>1
  <2> HIDE DEF d
  <2>3. n * d > 0
    BY <1>5, <2>1, <2>2
  <2>4. ~(d <= 0)
    BY <2>1, <2>2, <2>3
  <2>5. a < t
    BY <1>5, <2>1, <2>2, <2>4 DEF d
  <2>6. ~(a <= -1)
    <3>1. ASSUME a <= -1 PROVE n * a <= -n
      BY <1>5, <2>1, <3>1
    <3> QED BY <1>5, <2>1, <3>1
  <2> QED BY <1>5, <2>1, <2>5, <2>6
<1> QED
  BY <1>4, <1>6 DEF PageOfTile, KvPage, a

LEMMA AppendToOne ==
  ASSUME NEW a, NEW b
  PROVE  Append(<<a>>, b) = <<a, b>>
<1> DEFINE S == {a, b}
           s == <<a>>
           d == Append(s, b)
           e == <<a, b>>
<1>1. s \in Seq(S) /\ b \in S
  OBVIOUS
<1>2. Len(s) = 1 /\ s[1] = a
  OBVIOUS
<1>3. e \in Seq(S) /\ Len(e) = 2 /\ e[1] = a /\ e[2] = b
  OBVIOUS
<1>4. d = Append(s, b)
  OBVIOUS
<1> HIDE DEF s, S, d, e
<1>5. /\ d \in Seq(S) /\ Len(d) = Len(s) + 1
      /\ \A i \in 1 .. Len(s) : d[i] = s[i]
      /\ d[Len(s) + 1] = b
  BY <1>1, <1>4
<1>6. Len(d) = 2 /\ d[1] = a /\ d[2] = b
  BY <1>2, <1>5
<1>7. d = e
  BY <1>3, <1>5, <1>6, SeqEqual
<1> QED BY <1>7 DEF s, d, e

\* One more tile accumulated.
LEMMA PartialGrows ==
  ASSUME qpage \in QPages, NEW c \in Nat, NEW n \in Nat, n < NumTiles
  PROVE  /\ Partial(c, n + 1) = Append(Partial(c, n), <<<<qpage, c>>, TilesOf(qpage)[n + 1]>>)
         /\ Partial(c, 0) = Nothing
<1> DEFINE f(i) == <<<<qpage, c>>, TilesOf(qpage)[i]>>
<1>1. Partial(c, n + 1) = [i \in 1 .. n + 1 |-> f(i)] /\ Partial(c, n) = [i \in 1 .. n |-> f(i)]
      /\ Partial(c, 0) = [i \in 1 .. 0 |-> f(i)]
  BY DEF Partial
<1> HIDE DEF f
<1>2. [i \in 1 .. n + 1 |-> f(i)] = Append([i \in 1 .. n |-> f(i)], f(n + 1))
  OBVIOUS
<1>3. [i \in 1 .. 0 |-> f(i)] = <<>>
  OBVIOUS
<1> QED
  BY <1>1, <1>2, <1>3 DEF f, Nothing

\* All tiles accumulated.
LEMMA PartialIsAnswer ==
  ASSUME qpage \in QPages, NEW c \in Chunks
  PROVE  Answer(qpage)[c] = Partial(c, NumTiles)
<1>1. Len(TilesOf(qpage)) = NumTiles
  <2>1. NumTiles \in Nat
    BY SegmentPages, RunAssumption DEF NumTiles
  <2> QED
    BY <2>1 DEF TilesOf, NumTiles, KvTotal
<1> QED
  BY <1>1 DEF Answer, Partial

-----------------------------------------------------------------------------
(* The steps of the device. *)

\* The stream's operations move one place forward.
LEMMA StepShifts ==
  ASSUME DeviceInv, NEW s \in Streams, DeviceStep(s)
  PROVE  /\ 1 \in Places(s)
         /\ \A t \in Streams : \A j : ~Waits(s, 1, t, j)
         /\ \A t \in Streams : Len(Q(t)) \in Nat /\ Len(Q(t)') \in Nat
         /\ \A t \in Streams : Len(Q(t)) = Len(Q(t)') + Off(s, t)
         /\ \A t \in Streams : \A i \in Places(t)' : i + Off(s, t) \in Places(t)
         /\ \A t \in Streams : \A i \in Places(t)' : WorkAt(t, i)' = WorkAt(t, i + Off(s, t))
         /\ \A t \in Streams : \A i \in Places(t)' : \A e :
              Records(t, i, e)' <=> Records(t, i + Off(s, t), e)
         /\ \A t, u \in Streams : \A i \in Places(t)', j \in Places(u)' :
              Waits(t, i + Off(s, t), u, j + Off(s, u)) => Waits(t, i, u, j)'
         /\ \A t \in Streams : \A i \in Places(t) :
              (t = s /\ i = 1) \/ (i - Off(s, t) \in Places(t)' /\ (i - Off(s, t)) + Off(s, t) = i)
         /\ device' \in Devices
         /\ Counted(device)'
<1>1. device \in Devices /\ Counted(device)
  BY DEF DeviceInv, DeviceTypeOK
<1>2. Cuda!CanPerform(device, s) /\ device' = Cuda!Performed(device, s)
  BY DEF DeviceStep
<1>3. device.queue[s] # <<>> /\ \A t, j : ~WaitsIn(device, s, 1, t, j)
  BY <1>2, HeadWaitsForNothing
<1>4. Shrunk(device, device', s)
  BY <1>1, <1>2, <1>3, PerformedShrinks
<1>5. Len(device.queue[s]) >= 1 /\ Len(device.queue[s]) \in Nat
  <2> DEFINE O == Operations
  <2>1. device.queue[s] \in Seq(O)
    BY <1>1 DEF Devices
  <2> HIDE DEF O
  <2> QED BY <1>3, <2>1
<1>6. Counted(device')
  BY <1>1, <1>4, <1>5, ShrunkCounted
<1>7. /\ \A t \in Streams : \A i \in 1 .. Len(device'.queue[t]) :
           i + Off(s, t) \in 1 .. Len(device.queue[t])
      /\ \A t \in Streams : \A i \in 1 .. Len(device'.queue[t]) :
           device'.queue[t][i].work = device.queue[t][i + Off(s, t)].work
      /\ \A t \in Streams : \A i \in 1 .. Len(device'.queue[t]) : \A e :
           RecordsIn(device', t, i, e) <=> RecordsIn(device, t, i + Off(s, t), e)
      /\ \A t, u \in Streams :
           \A i \in 1 .. Len(device'.queue[t]), j \in 1 .. Len(device'.queue[u]) :
             WaitsIn(device, t, i + Off(s, t), u, j + Off(s, u)) => WaitsIn(device', t, i, u, j)
  BY <1>1, <1>4, <1>5, ShrunkKeeps
<1>8. /\ \A t \in Streams : Len(device'.queue[t]) \in Nat
      /\ \A t \in Streams : Len(device.queue[t]) = Len(device'.queue[t]) + Off(s, t)
      /\ device' \in Devices
  BY <1>4 DEF Shrunk
<1>9. \A t \in Streams : Off(s, t) \in {0, 1} /\ (t # s => Off(s, t) = 0) /\ Off(s, s) = 1
  BY OffsetsInRange
<1>10. \A t \in Streams : Len(device.queue[t]) \in Nat
  BY <1>8, <1>9
<1>11. \A t \in Streams : \A i \in 1 .. Len(device.queue[t]) :
         \/ t = s /\ i = 1
         \/ /\ i - Off(s, t) \in 1 .. Len(device'.queue[t])
            /\ (i - Off(s, t)) + Off(s, t) = i
  BY <1>8, <1>9, <1>10
<1>12. 1 \in 1 .. Len(device.queue[s])
  BY <1>5
<1> QED
  BY <1>3, <1>6, <1>7, <1>8, <1>10, <1>11, <1>12 DEF Places, Q, WorkAt, Records, Waits

\* What the operation writes, and what it leaves alone.
LEMMA StepPerforms ==
  ASSUME DeviceInv, NEW s \in Streams, DeviceStep(s)
  PROVE  /\ Perform(WorkAt(s, 1))
         /\ UNCHANGED <<pc, qpage, chunk, submitted, consumed, ioVars, qHost, stage, sink, outcome,
                        kvTile, qChunk>>
<1>1. device.queue[s] # <<>>
  BY DEF DeviceStep, Cuda!CanPerform
<1> DEFINE O == Operations
<1>2. device.queue[s] \in Seq(O)
  BY DEF DeviceInv, DeviceTypeOK, Devices
<1> HIDE DEF O
<1>3. Head(device.queue[s]) = device.queue[s][1]
  BY <1>1, <1>2
<1> QED
  BY <1>3 DEF DeviceStep, Cuda!Work, WorkAt, Q

\* Types, and which operation the streams hold.
LEMMA StepKeepsDevice ==
  ASSUME RunInv, DeviceInv, NEW s \in Streams, DeviceStep(s)
  PROVE  RunInv' /\ DeviceInv'
<1> DEFINE w == WorkAt(s, 1)
<1>1. /\ 1 \in Places(s)
      /\ \A t \in Streams : \A i \in Places(t)' : i + Off(s, t) \in Places(t)
      /\ \A t \in Streams : \A i \in Places(t)' : WorkAt(t, i)' = WorkAt(t, i + Off(s, t))
      /\ \A t \in Streams : \A i \in Places(t)' : \A e :
           Records(t, i, e)' <=> Records(t, i + Off(s, t), e)
      /\ device' \in Devices
      /\ Counted(device)'
  BY StepShifts
<1>2. /\ Perform(w)
      /\ UNCHANGED <<pc, qpage, chunk, submitted, consumed, ioVars, qHost, stage, sink, outcome,
                     kvTile, qChunk>>
      /\ UNCHANGED writes
  BY StepPerforms DEF ioVars
<1>3. w \in Works /\ w.page \in QPages /\ w.chunk \in Nat /\ w.chunk \in Chunks /\ w.index \in Nat
  BY <1>1, WorksTyped DEF DeviceInv, DeviceTypeOK
<1>4. /\ qHost \in Seq(Nat) /\ stage \in [Stages -> Seq(Nat)] /\ out \in [OutSlots -> [Chunks -> Values]]
      /\ dq \in Seq(Nat) /\ dkv \in [KvBuffers -> Seq(Nat)] /\ acc \in Values
      /\ dout \in [DeviceOutputs -> Values] /\ kvTile \in Nat /\ qChunk \in Nat
  BY DEF RunInv, RunTypeOK, DeviceInv, DeviceTypeOK
<1>5. /\ KvBuffer(w.index) \in KvBuffers /\ DeviceOutput(w.index) \in DeviceOutputs
      /\ SlotOf(w.page) \in OutSlots
  BY <1>3, BuffersInRange, SlotsInRange
<1> HIDE DEF w
<1>6. w.op = "load_kv" => Append(stage[StageOf(w.index \div TilesPerPage)], w.index % TilesPerPage)
                            \in Seq(Nat)
  <2>1. w.index \div TilesPerPage \in Nat /\ w.index % TilesPerPage \in Nat
    BY <1>3, QuotientIsNatural, RunAssumption
  <2>2. StageOf(w.index \div TilesPerPage) \in Stages
    BY <2>1, SlotsInRange
  <2>3. stage[StageOf(w.index \div TilesPerPage)] \in Seq(Nat)
    BY <1>4, <2>2
  <2> QED BY <2>1, <2>3
<1>7. dq' \in Seq(Nat)
  <2>1. Append(qHost, w.chunk) \in Seq(Nat)
    BY <1>3, <1>4
  <2> QED BY <1>2, <1>4, <2>1 DEF Perform
<1>8. dkv' \in [KvBuffers -> Seq(Nat)]
  BY <1>2, <1>4, <1>5, <1>6 DEF Perform
<1>9. acc' \in Values
  <2>1. CASE w.op # "update"
    BY <1>2, <1>4, <2>1 DEF Perform
  <2>2. CASE w.op = "update"
    <3> DEFINE E == Seq(Nat) \X Seq(Nat)
               e == <<dq, dkv[KvBuffer(w.index)]>>
               a == IF w.index = 0 THEN Nothing ELSE acc
    <3>1. e \in E
      BY <1>4, <1>5
    <3>2. acc' = Append(a, e)
      BY <1>2, <2>2 DEF Perform
    <3> HIDE DEF E, e
    <3>3. acc \in Seq(E) /\ Nothing \in Seq(E)
      BY <1>4 DEF Values, E, Nothing
    <3>4. a \in Seq(E)
      BY <3>3
    <3> HIDE DEF a
    <3>5. acc' \in Seq(E)
      BY <3>1, <3>2, <3>4
    <3> QED BY <3>5 DEF Values, E
  <2> QED BY <2>1, <2>2
<1>10. dout' \in [DeviceOutputs -> Values]
  BY <1>2, <1>4, <1>5 DEF Perform
<1>11. DeviceTypeOK'
  BY <1>1, <1>2, <1>4, <1>7, <1>8, <1>9, <1>10 DEF DeviceTypeOK
<1>12. /\ out' \in [OutSlots -> [Chunks -> Values]]
       /\ \A o \in OutSlots : out'[o] # out[o] => w.op = "store" /\ o = SlotOf(w.page)
  <2>1. CASE w.op # "store"
    BY <1>2, <1>4, <2>1 DEF Perform
  <2>2. CASE w.op = "store"
    <3> DEFINE o == SlotOf(w.page)
               v == dout[DeviceOutput(w.index)]
    <3>1. out' = [out EXCEPT ![o] = [out[o] EXCEPT ![w.chunk] = v]]
      BY <1>2, <2>2 DEF Perform
    <3>2. v \in Values
      BY <1>4, <1>5
    <3>3. [out[o] EXCEPT ![w.chunk] = v] \in [Chunks -> Values]
      BY <1>3, <1>4, <1>5, <3>2
    <3> HIDE DEF o, v
    <3> QED BY <1>4, <2>2, <3>1, <3>3 DEF o
  <2> QED BY <2>1, <2>2
<1>13. w.op = "store" => s = "d2h"
  BY <1>1 DEF w, DeviceInv, StreamKinds, Streams
<1>14. w.op = "store" => writes[SlotOf(w.page)].phase = "none"
  BY <1>1, <1>13 DEF w, DeviceInv, StoresIdle
<1>15. RunInv'
  BY <1>2, <1>12, <1>14, StoreRun
<1>16. OperationsRecord'
  <2> SUFFICES ASSUME NEW t \in Streams, NEW i \in Places(t)', NEW e \in Evidence(WorkAt(t, i)')
               PROVE  Records(t, i, e)'
    BY DEF OperationsRecord, Evidence
  <2>1. e \in Evidence(WorkAt(t, i + Off(s, t))) /\ i + Off(s, t) \in Places(t)
    BY <1>1
  <2>2. Records(t, i + Off(s, t), e)
    BY <2>1 DEF DeviceInv, OperationsRecord
  <2> QED BY <1>1, <2>2
<1>17. StreamKinds'
  BY <1>1 DEF DeviceInv, StreamKinds, Streams
<1>18. StoresIdle'
  BY <1>1, <1>2 DEF DeviceInv, StoresIdle, Streams
<1> QED
  BY <1>1, <1>11, <1>15, <1>16, <1>17, <1>18 DEF DeviceInv

\* While a page is computed, each operation finds the contents it was launched
\* for, and these are what it writes.
Delivers(s, w) ==
  /\ w.op = "load_q" => s = "h2d" /\ dq' = <<qpage, w.chunk>>
  /\ w.op # "load_q" => dq' = dq
  /\ w.op = "load_kv" =>
       /\ s = "h2d"
       /\ dkv'[KvBuffer(w.index)] = TilesOf(qpage)[w.index + 1]
       /\ \A b \in KvBuffers : b # KvBuffer(w.index) => dkv'[b] = dkv[b]
  /\ w.op # "load_kv" => dkv' = dkv
  /\ s = "compute" => acc' = Partial(w.chunk, CountAfter(w))
  /\ s # "compute" => acc' = acc
  /\ w.op = "finalize" =>
       /\ s = "compute"
       /\ dout'[DeviceOutput(w.index)] = Partial(w.chunk, NumTiles)
       /\ \A o \in DeviceOutputs : o # DeviceOutput(w.index) => dout'[o] = dout[o]
  /\ w.op # "finalize" => dout' = dout
  /\ w.op = "store" => s = "d2h" /\ w.chunk \in Chunks
       /\ out'[OutSlot] = [out[OutSlot] EXCEPT ![w.chunk] = Partial(w.chunk, NumTiles)]
  /\ w.op # "store" => out' = out

LEMMA StepDelivers ==
  ASSUME RunInv, DeviceInv, LoopInv, pc \in Executing, NEW s \in Streams, DeviceStep(s)
  PROVE  Delivers(s, WorkAt(s, 1))
<1> DEFINE w == WorkAt(s, 1)
<1>1. /\ 1 \in Places(s)
      /\ \A t \in Streams : \A j : ~Waits(s, 1, t, j)
  BY StepShifts
<1>2. /\ Perform(w)
      /\ UNCHANGED <<pc, qpage, chunk, submitted, consumed, ioVars, qHost, stage, sink, outcome,
                     kvTile, qChunk>>
  BY StepPerforms
<1>3. w \in Works /\ w.page \in QPages /\ w.chunk \in Nat /\ w.chunk \in Chunks /\ w.index \in Nat
  BY <1>1, WorksTyped DEF DeviceInv, DeviceTypeOK
<1>4. /\ out \in [OutSlots -> [Chunks -> Values]]
      /\ dkv \in [KvBuffers -> Seq(Nat)]
      /\ dout \in [DeviceOutputs -> Values]
      /\ qpage \in QPages /\ OutSlot \in OutSlots /\ NumTiles \in Nat \ {0}
  BY Basics DEF RunInv, RunTypeOK, DeviceInv, DeviceTypeOK
<1>5. /\ KvBuffer(w.index) \in KvBuffers /\ DeviceOutput(w.index) \in DeviceOutputs
  BY <1>3, BuffersInRange
<1>6. /\ w.op \in {"load_q", "load_kv"} => s = "h2d"
      /\ w.op \in {"update", "finalize"} => s = "compute"
      /\ w.op = "store" => s = "d2h"
      /\ s = "compute" => w.op \in {"update", "mark", "finalize"}
      /\ s = "d2h" => w.op = "store"
      /\ s # "h2d" \/ w.op # "mark" => w.page = qpage
  BY <1>1 DEF DeviceInv, StreamKinds, Streams, LoopInv, Launched
<1>7. w.op \in {"load_q", "load_kv", "update"} => Computing
  <2>1. w.op # "mark" \/ s # "h2d" => pc \notin {"page", "submit"}
    <3>1. Q(s) = <<>> => Places(s) = {}
      BY DEF Places
    <3> QED BY <1>1, <3>1 DEF LoopInv, Cursor, Quiet, OnlyMarks, Streams
  <2> QED BY <2>1 DEF Executing, Computing
<1>8. w.op = "load_q" => dq' = <<qpage, w.chunk>>
  <2> SUFFICES ASSUME w.op = "load_q" PROVE dq' = <<qpage, w.chunk>>
    OBVIOUS
  <2>1. qHost = <<qpage>>
    BY <1>7 DEF LoopInv, Cursor
  <2>2. dq' = Append(<<qpage>>, w.chunk)
    BY <1>2, <2>1 DEF Perform
  <2> HIDE DEF w
  <2> QED BY <2>2, AppendToOne
<1>9. ASSUME w.op = "load_kv"
      PROVE  /\ dkv'[KvBuffer(w.index)] = TilesOf(qpage)[w.index + 1]
             /\ \A b \in KvBuffers : b # KvBuffer(w.index) => dkv'[b] = dkv[b]
  <2>1. s = "h2d" /\ w.index < NumTiles
    BY <1>1, <1>6, <1>9 DEF LoopInv, Launched, Streams
  <2>2. stage[StageOf(PageOfTile(w.index))] = <<KvPage(PageOfTile(w.index))>>
    BY <1>1, <1>9, <2>1 DEF LoopInv, StagesRead
  <2>3. TilesOf(qpage)[w.index + 1] = <<KvPage(PageOfTile(w.index)), w.index % TilesPerPage>>
    BY <1>3, <1>4, <2>1, TilesAre
  <2> DEFINE v == Append(stage[StageOf(w.index \div TilesPerPage)], w.index % TilesPerPage)
  <2>4. dkv' = [dkv EXCEPT ![KvBuffer(w.index)] = v]
    BY <1>2, <1>9 DEF Perform
  <2>5. v = TilesOf(qpage)[w.index + 1]
    <3>1. v = Append(<<KvPage(PageOfTile(w.index))>>, w.index % TilesPerPage)
      BY <2>2 DEF PageOfTile
    <3> HIDE DEF v, w
    <3> QED BY <2>3, <3>1, AppendToOne
  <2> HIDE DEF v, w
  <2> QED BY <1>4, <1>5, <2>4, <2>5
<1>10. w.op = "update" => dq = <<qpage, w.chunk>>
  <2> SUFFICES ASSUME w.op = "update" PROVE dq = <<qpage, w.chunk>>
    OBVIOUS
  <2>1. s = "compute" /\ IsUpdate(1) /\ 1 \in Places("compute")
    BY <1>1, <1>6 DEF IsUpdate
  <2>2. \A m : ~Waits("compute", 1, "h2d", m)
    BY <1>1, <2>1 DEF Streams
  <2> QED BY <2>1, <2>2 DEF LoopInv, QReady
<1>11. w.op = "update" => dkv[KvBuffer(w.index)] = TilesOf(qpage)[w.index + 1] /\ w.index < NumTiles
  <2> SUFFICES ASSUME w.op = "update"
               PROVE  dkv[KvBuffer(w.index)] = TilesOf(qpage)[w.index + 1] /\ w.index < NumTiles
    OBVIOUS
  <2>1. s = "compute" /\ IsUpdate(1) /\ 1 \in Places("compute")
    BY <1>1, <1>6 DEF IsUpdate
  <2>2. \A m : ~Waits("compute", 1, "h2d", m)
    BY <1>1, <2>1 DEF Streams
  <2>3. w.index < NumTiles
    BY <2>1 DEF LoopInv, Launched, Streams
  <2> QED BY <2>1, <2>2, <2>3 DEF LoopInv, KvReady
<1>12. s = "compute" => CountBefore(w) = 0 \/ acc = Partial(w.chunk, CountBefore(w))
  <2> SUFFICES ASSUME s = "compute"
               PROVE  CountBefore(w) = 0 \/ acc = Partial(w.chunk, CountBefore(w))
    OBVIOUS
  <2>1. Q("compute") # <<>>
    BY <1>1 DEF Places
  <2>2. Q("compute")[1].work = w
    BY DEF WorkAt
  <2> HIDE DEF w
  <2> QED BY <2>1, <2>2 DEF LoopInv, AccumulatorExact
<1> HIDE DEF w
<1>13. s = "compute" => acc' = Partial(w.chunk, CountAfter(w))
  <2> SUFFICES ASSUME s = "compute" PROVE acc' = Partial(w.chunk, CountAfter(w))
    OBVIOUS
  <2>1. CASE w.op # "update"
    BY <1>2, <1>4, <1>12, <2>1 DEF Perform, CountBefore, CountAfter
  <2>2. CASE w.op = "update"
    <3>1. CountBefore(w) = w.index /\ CountAfter(w) = w.index + 1
      BY <2>2 DEF CountBefore, CountAfter
    <3>2. /\ Partial(w.chunk, w.index + 1) =
               Append(Partial(w.chunk, w.index), <<<<qpage, w.chunk>>, TilesOf(qpage)[w.index + 1]>>)
          /\ Partial(w.chunk, 0) = Nothing
      BY <1>3, <1>4, <1>11, <2>2, PartialGrows
    <3>3. acc' = Append(IF w.index = 0 THEN Nothing ELSE acc,
                        <<<<qpage, w.chunk>>, TilesOf(qpage)[w.index + 1]>>)
      BY <1>2, <1>10, <1>11, <2>2 DEF Perform
    <3>4. (IF w.index = 0 THEN Nothing ELSE acc) = Partial(w.chunk, w.index)
      BY <1>12, <3>1, <3>2
    <3> QED BY <3>1, <3>2, <3>3, <3>4
  <2> QED BY <2>1, <2>2
<1>14. s # "compute" => acc' = acc
  BY <1>2, <1>6 DEF Perform
<1>15. ASSUME w.op = "finalize"
       PROVE  /\ dout'[DeviceOutput(w.index)] = Partial(w.chunk, NumTiles)
              /\ \A o \in DeviceOutputs : o # DeviceOutput(w.index) => dout'[o] = dout[o]
  <2>1. acc = Partial(w.chunk, NumTiles)
    BY <1>4, <1>6, <1>12, <1>15 DEF CountBefore
  <2> QED BY <1>2, <1>4, <1>5, <1>15, <2>1 DEF Perform
<1>16. ASSUME w.op = "store"
       PROVE  out'[OutSlot] = [out[OutSlot] EXCEPT ![w.chunk] = Partial(w.chunk, NumTiles)]
  <2>1. s = "d2h" /\ 1 \in Places("d2h")
    BY <1>1, <1>6, <1>16
  <2>2. \A n : ~Waits("d2h", 1, "compute", n)
    BY <1>1, <2>1 DEF Streams
  <2>3. dout[DeviceOutput(w.index)] = Partial(w.chunk, NumTiles)
    BY <2>1, <2>2 DEF LoopInv, OutputReady, w
  <2>4. out' = [out EXCEPT ![OutSlot] = [out[OutSlot] EXCEPT ![w.chunk] = Partial(w.chunk, NumTiles)]]
    BY <1>2, <1>6, <1>16, <2>1, <2>3 DEF Perform, OutSlot
  <2> QED BY <1>4, <2>4
<1>17. /\ w.op # "load_q" => dq' = dq
       /\ w.op # "load_kv" => dkv' = dkv
       /\ w.op # "finalize" => dout' = dout
       /\ w.op # "store" => out' = out
  BY <1>2 DEF Perform
<1> QED
  BY <1>3, <1>6, <1>8, <1>9, <1>13, <1>14, <1>15, <1>16, <1>17 DEF Delivers, w

Stepping(s) == RunInv /\ DeviceInv /\ LoopInv /\ pc \in Executing /\ DeviceStep(s)

\* An operation left pending is the one that was one place behind in the stream
\* that advanced.
LEMMA SteppingPlaces ==
  ASSUME NEW s \in Streams, Stepping(s)
  PROVE  /\ \A t \in Streams : \A i \in Places(t)' :
              /\ i \in Nat /\ i + Off(s, t) \in Places(t)
              /\ WorkAt(t, i)' = WorkAt(t, i + Off(s, t))
              /\ ~(t = s /\ i + Off(s, t) = 1)
         /\ \A t \in Streams : \A i, j \in Places(t)' : i < j => i + Off(s, t) < j + Off(s, t)
         /\ \A t \in Streams : Q(t) = <<>> => Q(t)' = <<>>
         /\ UNCHANGED <<pc, qpage, chunk, submitted, consumed, loads, writes, qHost, stage,
                        kvTile, qChunk>>
         /\ UNCHANGED <<KvTotal, NumTiles, OutSlot, Scanning, Computing>>
<1>1. /\ \A t \in Streams : Len(Q(t)) \in Nat /\ Len(Q(t)') \in Nat
      /\ \A t \in Streams : Len(Q(t)) = Len(Q(t)') + Off(s, t)
      /\ \A t \in Streams : \A i \in Places(t)' : i + Off(s, t) \in Places(t)
      /\ \A t \in Streams : \A i \in Places(t)' : WorkAt(t, i)' = WorkAt(t, i + Off(s, t))
      /\ device' \in Devices
  BY StepShifts DEF Stepping
<1>2. \A t \in Streams : Off(s, t) \in {0, 1} /\ Off(s, s) = 1
  BY OffsetsInRange
<1>3. \A t \in Streams : \A i \in Places(t)' : i \in Nat /\ i >= 1
  BY <1>1 DEF Places
<1>4. \A t \in Streams : \A i \in Places(t)' : ~(t = s /\ i + Off(s, t) = 1)
  BY <1>2, <1>3
<1>5. \A t \in Streams : \A i, j \in Places(t)' : i < j => i + Off(s, t) < j + Off(s, t)
  BY <1>2, <1>3
<1>6. ASSUME NEW t \in Streams, Q(t) = <<>> PROVE Q(t)' = <<>>
  <2>1. Len(Q(t)') = 0
    BY <1>1, <1>2, <1>6
  <2> DEFINE O == Operations
  <2>2. Q(t)' \in Seq(O)
    BY <1>1 DEF Devices, Q
  <2> HIDE DEF O
  <2> QED BY <2>1, <2>2
<1>7. UNCHANGED <<pc, qpage, chunk, submitted, consumed, loads, writes, qHost, stage, kvTile, qChunk>>
  BY StepPerforms DEF Stepping, ioVars
<1>8. UNCHANGED <<KvTotal, NumTiles, OutSlot, Scanning, Computing>>
  BY <1>7 DEF KvTotal, NumTiles, OutSlot, Scanning, Computing
<1> QED
  BY <1>1, <1>3, <1>4, <1>5, <1>6, <1>7, <1>8

LEMMA StepCursor ==
  ASSUME NEW s \in Streams, Stepping(s)
  PROVE  Cursor'
<1>1. /\ \A t \in Streams : \A i \in Places(t)' :
           i + Off(s, t) \in Places(t) /\ WorkAt(t, i)' = WorkAt(t, i + Off(s, t))
      /\ \A t \in Streams : Q(t) = <<>> => Q(t)' = <<>>
      /\ UNCHANGED <<pc, qpage, chunk, submitted, consumed, loads, writes, qHost, stage,
                     kvTile, qChunk>>
      /\ UNCHANGED <<KvTotal, NumTiles, OutSlot, Scanning, Computing>>
  BY SteppingPlaces
<1>2. Quiet => Quiet'
  BY <1>1 DEF Quiet, OnlyMarks, Streams
<1>3. pc = "submit" => out' = out
  <2> SUFFICES ASSUME pc = "submit" PROVE out' = out
    OBVIOUS
  <2>1. Q("d2h") = <<>>
    BY DEF Stepping, LoopInv, Cursor, Quiet
  <2>2. 1 \in Places(s)
    BY StepShifts DEF Stepping
  <2>3. s # "d2h"
    BY <2>1, <2>2 DEF Places
  <2> QED BY <2>3, StepDelivers DEF Stepping, Delivers
<1>4. Answer(qpage)' = Answer(qpage)
  BY <1>1 DEF Answer, TilesOf
<1> QED
  BY <1>1, <1>2, <1>3, <1>4 DEF Stepping, LoopInv, Cursor

LEMMA StepLaunched ==
  ASSUME NEW s \in Streams, Stepping(s)
  PROVE  Launched'
<1>1. /\ \A t \in Streams : \A i \in Places(t)' :
           i + Off(s, t) \in Places(t) /\ WorkAt(t, i)' = WorkAt(t, i + Off(s, t))
      /\ UNCHANGED <<pc, qpage, chunk, submitted, consumed, loads, writes, qHost, stage,
                     kvTile, qChunk>>
      /\ UNCHANGED <<KvTotal, NumTiles, OutSlot, Scanning, Computing>>
  BY SteppingPlaces
<1>2. \A c : Closed(c)' <=> Closed(c)
  BY <1>1 DEF Closed
<1>3. Launched
  BY DEF Stepping, LoopInv
<1> QED
  BY <1>1, <1>2, <1>3 DEF Launched

LEMMA StepOrdered ==
  ASSUME NEW s \in Streams, Stepping(s)
  PROVE  LoadsOrdered' /\ FinalsOrdered'
<1>1. /\ \A t \in Streams : \A i \in Places(t)' :
           i + Off(s, t) \in Places(t) /\ WorkAt(t, i)' = WorkAt(t, i + Off(s, t))
      /\ \A t \in Streams : \A i, j \in Places(t)' : i < j => i + Off(s, t) < j + Off(s, t)
  BY SteppingPlaces
<1>2. "h2d" \in Streams /\ "compute" \in Streams
  BY DEF Streams
<1>3. LoadsOrdered /\ FinalsOrdered
  BY DEF Stepping, LoopInv
<1>4. LoadsOrdered'
  BY <1>1, <1>2, <1>3 DEF LoadsOrdered, Before
<1>5. FinalsOrdered'
  BY <1>1, <1>2, <1>3 DEF FinalsOrdered
<1> QED
  BY <1>4, <1>5

LEMMA StepQReady ==
  ASSUME NEW s \in Streams, Stepping(s)
  PROVE  QReady'
<1> DEFINE w == WorkAt(s, 1)
<1>0. "h2d" \in Streams /\ "compute" \in Streams
  BY DEF Streams
<1>1. /\ \A t \in Streams : \A i \in Places(t)' :
           /\ i + Off(s, t) \in Places(t)
           /\ WorkAt(t, i)' = WorkAt(t, i + Off(s, t))
           /\ ~(t = s /\ i + Off(s, t) = 1)
      /\ UNCHANGED <<pc, qpage, chunk, submitted, consumed, loads, writes, qHost, stage,
                     kvTile, qChunk>>
      /\ UNCHANGED <<KvTotal, NumTiles, OutSlot, Scanning, Computing>>
  BY SteppingPlaces
<1>2. /\ 1 \in Places(s)
      /\ \A t \in Streams : \A j : ~Waits(s, 1, t, j)
      /\ \A t, u \in Streams : \A i \in Places(t)', j \in Places(u)' :
           Waits(t, i + Off(s, t), u, j + Off(s, u)) => Waits(t, i, u, j)'
      /\ \A t \in Streams : \A i \in Places(t) :
           (t = s /\ i = 1) \/ (i - Off(s, t) \in Places(t)' /\ (i - Off(s, t)) + Off(s, t) = i)
  BY StepShifts DEF Stepping
<1>3. /\ w.op = "load_q" => s = "h2d" /\ dq' = <<qpage, w.chunk>>
      /\ w.op # "load_q" => dq' = dq
  BY StepDelivers DEF Stepping, Delivers
<1>4. \A t \in Streams : \A i \in Places(t) : WorkAt(t, i).chunk \in Nat /\ i \in Nat /\ i >= 1
  <2>1. device \in Devices
    BY DEF Stepping, DeviceInv, DeviceTypeOK
  <2> QED BY <2>1, WorksTyped DEF Places
\* A load left pending is behind the one performed.
<1>5. \A m \in Places("h2d")' :
        w.op = "load_q" /\ (WorkAt("h2d", m).op = "load_q")' => WorkAt("h2d", m)'.chunk > w.chunk
  <2> SUFFICES ASSUME NEW m \in Places("h2d")', w.op = "load_q", WorkAt("h2d", m)'.op = "load_q"
               PROVE  WorkAt("h2d", m)'.chunk > w.chunk
    OBVIOUS
  <2>1. s = "h2d" /\ m + Off(s, "h2d") \in Places("h2d") /\ m + Off(s, "h2d") # 1
    BY <1>0, <1>1, <1>3
  <2>2. 1 < m + Off(s, "h2d")
    BY <1>0, <1>4, <2>1
  <2>3. w.chunk < WorkAt("h2d", m + Off(s, "h2d")).chunk
    BY <1>0, <1>1, <1>2, <2>1, <2>2 DEF Stepping, LoopInv, LoadsOrdered
  <2> QED BY <1>0, <1>1, <1>2, <1>4, <2>1, <2>3
<1>6. ASSUME NEW n \in Places("compute")', IsUpdate(n)', NEW c, c = WorkAt("compute", n)'.chunk
      PROVE  \/ \E m \in Places("h2d")' : IsLoadQ(m, c)' /\ Waits("compute", n, "h2d", m)'
             \/ /\ dq' = <<qpage', c>>
                /\ \A m \in Places("h2d")' :
                     WorkAt("h2d", m)'.op = "load_q" => WorkAt("h2d", m)'.chunk > c
  <2> DEFINE k == n + Off(s, "compute")
  <2>1. k \in Places("compute") /\ c = WorkAt("compute", k).chunk /\ IsUpdate(k)
    BY <1>0, <1>1, <1>6 DEF IsUpdate
  <2> HIDE DEF k
  <2>2. ASSUME NEW m \in Places("h2d"), IsLoadQ(m, c), Waits("compute", k, "h2d", m)
        PROVE  \/ \E l \in Places("h2d")' : IsLoadQ(l, c)' /\ Waits("compute", n, "h2d", l)'
               \/ /\ dq' = <<qpage', c>>
                  /\ \A l \in Places("h2d")' :
                       WorkAt("h2d", l)'.op = "load_q" => WorkAt("h2d", l)'.chunk > c
    <3>1. CASE s = "h2d" /\ m = 1
      BY <1>1, <1>3, <1>5, <2>2, <3>1 DEF IsLoadQ
    <3>2. CASE ~(s = "h2d" /\ m = 1)
      <4> DEFINE l == m - Off(s, "h2d")
      <4>1. l \in Places("h2d")' /\ l + Off(s, "h2d") = m
        BY <1>0, <1>2, <3>2
      <4> HIDE DEF l
      <4>2. IsLoadQ(l, c)'
        BY <1>0, <1>1, <2>2, <4>1 DEF IsLoadQ
      <4>3. Waits("compute", n, "h2d", l)'
        BY <1>0, <1>2, <2>2, <4>1 DEF k
      <4> QED BY <4>1, <4>2, <4>3
    <3> QED BY <3>1, <3>2
  <2>3. ASSUME dq = <<qpage, c>>,
               \A m \in Places("h2d") : WorkAt("h2d", m).op = "load_q" => WorkAt("h2d", m).chunk > c
        PROVE  /\ dq' = <<qpage', c>>
               /\ \A l \in Places("h2d")' :
                    WorkAt("h2d", l)'.op = "load_q" => WorkAt("h2d", l)'.chunk > c
    <3>1. w.op # "load_q"
      <4> SUFFICES ASSUME w.op = "load_q" PROVE FALSE
        OBVIOUS
      <4>1. s = "h2d" /\ 1 \in Places("h2d") /\ WorkAt("h2d", 1).op = "load_q"
        BY <1>2, <1>3
      <4>2. WorkAt("h2d", 1).chunk > c
        BY <2>3, <4>1
      <4>3. Waits("h2d", 1, "compute", k)
        BY <1>0, <1>4, <2>1, <4>1, <4>2 DEF Stepping, LoopInv, QFree
      <4> QED BY <1>0, <1>2, <4>1, <4>3
    <3>2. \A l \in Places("h2d")' :
            WorkAt("h2d", l)'.op = "load_q" => WorkAt("h2d", l)'.chunk > c
      BY <1>0, <1>1, <2>3
    <3> QED BY <1>1, <1>3, <2>3, <3>1, <3>2
  <2>4. \/ \E m \in Places("h2d") : IsLoadQ(m, c) /\ Waits("compute", k, "h2d", m)
        \/ /\ dq = <<qpage, c>>
           /\ \A m \in Places("h2d") :
                WorkAt("h2d", m).op = "load_q" => WorkAt("h2d", m).chunk > c
    BY <2>1 DEF Stepping, LoopInv, QReady
  <2> QED BY <2>1, <2>2, <2>3, <2>4
<1>7. ASSUME Scanning
      PROVE  \/ \E m \in Places("h2d")' : IsLoadQ(m, chunk)'
             \/ dq' = <<qpage, chunk>> /\ \A m \in Places("h2d")' : WorkAt("h2d", m)'.op # "load_q"
  <2>1. CASE \E m \in Places("h2d") : IsLoadQ(m, chunk)
    <3>1. PICK m \in Places("h2d") : IsLoadQ(m, chunk)
      BY <2>1
    <3>2. CASE s = "h2d" /\ m = 1
      <4>1. dq' = <<qpage, chunk>> /\ w.op = "load_q" /\ w.chunk = chunk
        BY <1>3, <3>1, <3>2 DEF IsLoadQ
      <4>2. ASSUME NEW l \in Places("h2d")', WorkAt("h2d", l)'.op = "load_q" PROVE FALSE
        <5>1. WorkAt("h2d", l)'.chunk > chunk
          BY <1>5, <4>1, <4>2
        <5>2. l + Off(s, "h2d") \in Places("h2d")
              /\ WorkAt("h2d", l)' = WorkAt("h2d", l + Off(s, "h2d"))
          BY <1>0, <1>1
        <5>3. WorkAt("h2d", l)'.chunk <= chunk
          BY <1>0, <4>2, <5>2 DEF Stepping, LoopInv, Launched
        <5>4. chunk \in Nat /\ WorkAt("h2d", l)'.chunk \in Nat
          BY <1>0, <1>4, <5>2, Basics DEF Stepping, DeviceInv
        <5> QED BY <5>1, <5>3, <5>4
      <4> QED BY <4>1, <4>2
    <3>3. CASE ~(s = "h2d" /\ m = 1)
      <4> DEFINE l == m - Off(s, "h2d")
      <4>1. l \in Places("h2d")' /\ l + Off(s, "h2d") = m
        BY <1>0, <1>2, <3>3
      <4> HIDE DEF l
      <4>2. IsLoadQ(l, chunk)'
        BY <1>0, <1>1, <3>1, <4>1 DEF IsLoadQ
      <4> QED BY <4>1, <4>2
    <3> QED BY <3>2, <3>3
  <2>2. CASE ~\E m \in Places("h2d") : IsLoadQ(m, chunk)
    <3>1. dq = <<qpage, chunk>> /\ \A m \in Places("h2d") : WorkAt("h2d", m).op # "load_q"
      BY <1>7, <2>2 DEF Stepping, LoopInv, QReady
    <3>2. w.op # "load_q"
      BY <1>2, <1>3, <3>1
    <3>3. \A m \in Places("h2d")' : WorkAt("h2d", m)'.op # "load_q"
      BY <1>0, <1>1, <3>1
    <3> QED BY <1>3, <3>1, <3>2, <3>3
  <2> QED BY <2>1, <2>2
<1> QED
  BY <1>1, <1>6, <1>7 DEF QReady, IsLoadQ

LEMMA StepQFree ==
  ASSUME NEW s \in Streams, Stepping(s)
  PROVE  QFree'
<1>0. "h2d" \in Streams /\ "compute" \in Streams
  BY DEF Streams
<1>1. /\ \A t \in Streams : \A i \in Places(t)' :
           /\ i \in Nat /\ i + Off(s, t) \in Places(t)
           /\ WorkAt(t, i)' = WorkAt(t, i + Off(s, t))
      /\ UNCHANGED <<pc, qpage, chunk, submitted, consumed, loads, writes, qHost, stage,
                     kvTile, qChunk>>
      /\ UNCHANGED <<KvTotal, NumTiles, OutSlot, Scanning, Computing>>
  BY SteppingPlaces
<1>2. /\ 1 \in Places(s)
      /\ \A t \in Streams : \A j : ~Waits(s, 1, t, j)
      /\ \A t, u \in Streams : \A i \in Places(t)', j \in Places(u)' :
           Waits(t, i + Off(s, t), u, j + Off(s, u)) => Waits(t, i, u, j)'
      /\ \A t \in Streams : \A i \in Places(t) :
           (t = s /\ i = 1) \/ (i - Off(s, t) \in Places(t)' /\ (i - Off(s, t)) + Off(s, t) = i)
      /\ \A t \in Streams : \A i \in Places(t)' : \A e :
           Records(t, i, e)' <=> Records(t, i + Off(s, t), e)
      /\ \A t \in Streams : Len(Q(t)) \in Nat /\ Len(Q(t)') \in Nat
      /\ \A t \in Streams : Len(Q(t)) = Len(Q(t)') + Off(s, t)
  BY StepShifts DEF Stepping
<1>3. \A t \in Streams : \A i \in Places(t) : WorkAt(t, i).chunk \in Nat /\ i \in Nat /\ i >= 1
  <2>1. device \in Devices
    BY DEF Stepping, DeviceInv, DeviceTypeOK
  <2> QED BY <2>1, WorksTyped DEF Places
<1>4. QFree /\ QReady
  BY DEF Stepping, LoopInv
<1>5. ASSUME NEW m \in Places("h2d")', NEW n \in Places("compute")',
             (WorkAt("h2d", m).op = "load_q")', IsUpdate(n)',
             WorkAt("compute", n)'.chunk < WorkAt("h2d", m)'.chunk
      PROVE  Waits("h2d", m, "compute", n)'
  <2>1. Waits("h2d", m + Off(s, "h2d"), "compute", n + Off(s, "compute"))
    BY <1>0, <1>1, <1>4, <1>5 DEF QFree, IsUpdate
  <2> QED BY <1>0, <1>2, <2>1
<1>6. ASSUME NEW n \in Places("compute")', IsUpdate(n)', Closed(WorkAt("compute", n).chunk)'
      PROVE  \E k \in n .. Len(Q("compute"))' : Records("compute", k, <<"q_free">>)'
  <2> DEFINE o == Off(s, "compute")
  <2>1. Closed(WorkAt("compute", n + o).chunk) /\ IsUpdate(n + o) /\ n + o \in Places("compute")
    BY <1>0, <1>1, <1>6 DEF IsUpdate, Closed
  <2>2. PICK k \in n + o .. Len(Q("compute")) : Records("compute", k, <<"q_free">>)
    BY <1>4, <2>1 DEF QFree
  <2>3. o \in {0, 1} /\ n \in Nat /\ n >= 1
    BY <1>0, <1>1, OffsetsInRange DEF Places
  <2>4. k - o \in n .. Len(Q("compute"))' /\ k - o \in Places("compute")' /\ (k - o) + o = k
    <3>1. /\ Len(Q("compute")) \in Nat /\ Len(Q("compute"))' \in Nat
          /\ Len(Q("compute")) = Len(Q("compute"))' + o
      BY <1>0, <1>2
    <3> HIDE DEF o
    <3> QED BY <2>2, <2>3, <3>1 DEF Places
  <2> HIDE DEF o
  <2>5. Records("compute", k - o, <<"q_free">>)'
    BY <1>0, <1>2, <2>2, <2>4 DEF o
  <2> QED BY <2>4, <2>5
<1>7. ASSUME NEW m \in Places("h2d")', WorkAt("h2d", m)'.op = "load_q",
             NEW c, c = WorkAt("h2d", m)'.chunk
      PROVE  \/ \E n \in Places("compute")' : IsUpdate(n)' /\ WorkAt("compute", n)'.chunk = c
             \/ c = chunk' /\ Scanning' /\ kvTile' = 0
  <2> DEFINE k == m + Off(s, "h2d")
  <2>1. k \in Places("h2d") /\ c = WorkAt("h2d", k).chunk /\ WorkAt("h2d", k).op = "load_q"
    BY <1>0, <1>1, <1>7
  <2> HIDE DEF k
  <2>2. CASE c = chunk /\ Scanning /\ kvTile = 0
    BY <1>1, <2>2
  <2>3. ASSUME NEW n \in Places("compute"), IsUpdate(n), WorkAt("compute", n).chunk = c
        PROVE  \E l \in Places("compute")' : IsUpdate(l)' /\ WorkAt("compute", l)'.chunk = c
    <3>1. ~(s = "compute" /\ n = 1)
      <4> SUFFICES ASSUME s = "compute", n = 1 PROVE FALSE
        OBVIOUS
      <4>1. \A j : ~Waits("compute", n, "h2d", j)
        BY <1>0, <1>2
      <4>2. WorkAt("h2d", k).chunk > c
        BY <1>4, <2>1, <2>3, <4>1 DEF QReady
      <4> QED BY <1>0, <1>3, <2>1, <4>2
    <3> DEFINE l == n - Off(s, "compute")
    <3>2. l \in Places("compute")' /\ l + Off(s, "compute") = n
      BY <1>0, <1>2, <3>1
    <3> HIDE DEF l
    <3>3. IsUpdate(l)' /\ WorkAt("compute", l)'.chunk = c
      BY <1>0, <1>1, <2>3, <3>2 DEF IsUpdate
    <3> QED BY <3>2, <3>3
  <2>4. \/ \E n \in Places("compute") : IsUpdate(n) /\ WorkAt("compute", n).chunk = c
        \/ c = chunk /\ Scanning /\ kvTile = 0
    BY <1>4, <2>1 DEF QFree
  <2> QED BY <2>2, <2>3, <2>4
<1> QED
  BY <1>5, <1>6, <1>7 DEF QFree

LEMMA StepKvReady ==
  ASSUME NEW s \in Streams, Stepping(s)
  PROVE  KvReady'
<1> DEFINE w == WorkAt(s, 1)
<1>0. "h2d" \in Streams /\ "compute" \in Streams
  BY DEF Streams
<1>1. /\ \A t \in Streams : \A i \in Places(t)' :
           /\ i + Off(s, t) \in Places(t)
           /\ WorkAt(t, i)' = WorkAt(t, i + Off(s, t))
           /\ ~(t = s /\ i + Off(s, t) = 1)
      /\ UNCHANGED qpage
  BY SteppingPlaces
<1>2. /\ 1 \in Places(s)
      /\ \A t \in Streams : \A j : ~Waits(s, 1, t, j)
      /\ \A t, u \in Streams : \A i \in Places(t)', j \in Places(u)' :
           Waits(t, i + Off(s, t), u, j + Off(s, u)) => Waits(t, i, u, j)'
      /\ \A t \in Streams : \A i \in Places(t) :
           (t = s /\ i = 1) \/ (i - Off(s, t) \in Places(t)' /\ (i - Off(s, t)) + Off(s, t) = i)
  BY StepShifts DEF Stepping
<1>3. /\ w.op = "load_kv" =>
           /\ s = "h2d"
           /\ dkv'[KvBuffer(w.index)] = TilesOf(qpage)[w.index + 1]
           /\ \A b \in KvBuffers : b # KvBuffer(w.index) => dkv'[b] = dkv[b]
      /\ w.op # "load_kv" => dkv' = dkv
  BY StepDelivers DEF Stepping, Delivers
<1>4. \A t \in Streams : \A i \in Places(t) :
        WorkAt(t, i).chunk \in Nat /\ WorkAt(t, i).index \in Nat /\ i \in Nat /\ i >= 1
  <2>1. device \in Devices
    BY DEF Stepping, DeviceInv, DeviceTypeOK
  <2> QED BY <2>1, WorksTyped DEF Places
\* A load left pending is behind the one performed.
<1>5. \A m \in Places("h2d")' :
        w.op = "load_kv" /\ (WorkAt("h2d", m).op = "load_kv")' => Before(w, WorkAt("h2d", m)')
  <2> SUFFICES ASSUME NEW m \in Places("h2d")', w.op = "load_kv", WorkAt("h2d", m)'.op = "load_kv"
               PROVE  Before(w, WorkAt("h2d", m)')
    OBVIOUS
  <2>1. s = "h2d" /\ m + Off(s, "h2d") \in Places("h2d") /\ m + Off(s, "h2d") # 1
    BY <1>0, <1>1, <1>3
  <2>2. 1 < m + Off(s, "h2d")
    BY <1>0, <1>4, <2>1
  <2>3. Before(w, WorkAt("h2d", m + Off(s, "h2d")))
    BY <1>0, <1>1, <1>2, <2>1, <2>2 DEF Stepping, LoopInv, LoadsOrdered
  <2> QED BY <1>0, <1>1, <2>3
<1> SUFFICES ASSUME NEW n \in Places("compute")', IsUpdate(n)', NEW u, u = WorkAt("compute", n)'
             PROVE  \/ \E m \in Places("h2d")' :
                         IsLoadKv(m, u.chunk, u.index)' /\ Waits("compute", n, "h2d", m)'
                    \/ /\ dkv'[KvBuffer(u.index)] = TilesOf(qpage)[u.index + 1]
                       /\ \A m \in Places("h2d")' :
                            WorkAt("h2d", m)'.op = "load_kv" => Before(u, WorkAt("h2d", m)')
  <2>1. TilesOf(qpage)' = TilesOf(qpage)
    BY <1>1 DEF TilesOf
  <2> QED BY <2>1 DEF KvReady
<1> DEFINE k == n + Off(s, "compute")
<1>6. k \in Places("compute") /\ u = WorkAt("compute", k) /\ IsUpdate(k) /\ k \in Nat /\ u.index \in Nat
  BY <1>0, <1>1, <1>4 DEF IsUpdate
<1> HIDE DEF k
<1>7. ASSUME NEW m \in Places("h2d"), IsLoadKv(m, u.chunk, u.index), Waits("compute", k, "h2d", m)
      PROVE  \/ \E l \in Places("h2d")' :
                  IsLoadKv(l, u.chunk, u.index)' /\ Waits("compute", n, "h2d", l)'
             \/ /\ dkv'[KvBuffer(u.index)] = TilesOf(qpage)[u.index + 1]
                /\ \A l \in Places("h2d")' :
                     WorkAt("h2d", l)'.op = "load_kv" => Before(u, WorkAt("h2d", l)')
  <2>1. CASE s = "h2d" /\ m = 1
    <3>1. w.op = "load_kv" /\ w.chunk = u.chunk /\ w.index = u.index
      BY <1>7, <2>1 DEF IsLoadKv
    <3> HIDE DEF w
    <3>2. dkv'[KvBuffer(u.index)] = TilesOf(qpage)[u.index + 1]
      BY <1>3, <3>1
    <3>3. \A l \in Places("h2d")' :
            WorkAt("h2d", l)'.op = "load_kv" => Before(u, WorkAt("h2d", l)')
      BY <1>5, <3>1 DEF Before
    <3> QED BY <3>2, <3>3
  <2>2. CASE ~(s = "h2d" /\ m = 1)
    <3> DEFINE l == m - Off(s, "h2d")
    <3>1. l \in Places("h2d")' /\ l + Off(s, "h2d") = m
      BY <1>0, <1>2, <2>2
    <3> HIDE DEF l
    <3>2. IsLoadKv(l, u.chunk, u.index)'
      BY <1>0, <1>1, <1>7, <3>1 DEF IsLoadKv
    <3>3. Waits("compute", n, "h2d", l)'
      BY <1>0, <1>2, <1>7, <3>1 DEF k
    <3> QED BY <3>1, <3>2, <3>3
  <2> QED BY <2>1, <2>2
<1>8. ASSUME dkv[KvBuffer(u.index)] = TilesOf(qpage)[u.index + 1],
             \A m \in Places("h2d") :
               WorkAt("h2d", m).op = "load_kv" => Before(u, WorkAt("h2d", m))
      PROVE  /\ dkv'[KvBuffer(u.index)] = TilesOf(qpage)[u.index + 1]
             /\ \A l \in Places("h2d")' :
                  WorkAt("h2d", l)'.op = "load_kv" => Before(u, WorkAt("h2d", l)')
  <2>1. w.op = "load_kv" => KvBuffer(w.index) # KvBuffer(u.index)
    <3> SUFFICES ASSUME w.op = "load_kv", KvBuffer(w.index) = KvBuffer(u.index) PROVE FALSE
      OBVIOUS
    <3>1. s = "h2d" /\ 1 \in Places("h2d") /\ WorkAt("h2d", 1).op = "load_kv"
      BY <1>2, <1>3
    <3>2. Before(WorkAt("compute", k), WorkAt("h2d", 1))
      BY <1>6, <1>8, <3>1
    <3>3. Waits("h2d", 1, "compute", k)
      BY <1>6, <3>1, <3>2 DEF Stepping, LoopInv, KvFree
    <3> QED BY <1>0, <1>2, <3>1, <3>3
  <2>2. dkv'[KvBuffer(u.index)] = dkv[KvBuffer(u.index)]
    <3>1. KvBuffer(u.index) \in KvBuffers
      BY <1>6, BuffersInRange
    <3> HIDE DEF w
    <3> QED BY <1>3, <2>1, <3>1
  <2>3. \A l \in Places("h2d")' :
          WorkAt("h2d", l)'.op = "load_kv" => Before(u, WorkAt("h2d", l)')
    BY <1>0, <1>1, <1>8
  <2> QED BY <1>8, <2>2, <2>3
<1>9. \/ \E m \in Places("h2d") :
           IsLoadKv(m, u.chunk, u.index) /\ Waits("compute", k, "h2d", m)
      \/ /\ dkv[KvBuffer(u.index)] = TilesOf(qpage)[u.index + 1]
         /\ \A m \in Places("h2d") :
              WorkAt("h2d", m).op = "load_kv" => Before(u, WorkAt("h2d", m))
  BY <1>6 DEF Stepping, LoopInv, KvReady
<1> QED
  BY <1>7, <1>8, <1>9

LEMMA StepKvFree ==
  ASSUME NEW s \in Streams, Stepping(s)
  PROVE  KvFree'
<1>0. "h2d" \in Streams /\ "compute" \in Streams
  BY DEF Streams
<1>1. \A t \in Streams : \A i \in Places(t)' :
        i + Off(s, t) \in Places(t) /\ WorkAt(t, i)' = WorkAt(t, i + Off(s, t))
  BY SteppingPlaces
<1>2. /\ \A t \in Streams : \A j : ~Waits(s, 1, t, j)
      /\ \A t, u \in Streams : \A i \in Places(t)', j \in Places(u)' :
           Waits(t, i + Off(s, t), u, j + Off(s, u)) => Waits(t, i, u, j)'
      /\ \A t \in Streams : \A i \in Places(t) :
           (t = s /\ i = 1) \/ (i - Off(s, t) \in Places(t)' /\ (i - Off(s, t)) + Off(s, t) = i)
  BY StepShifts DEF Stepping
<1>3. \A t \in Streams : \A i \in Places(t) : WorkAt(t, i).chunk \in Nat /\ WorkAt(t, i).index \in Nat
  <2>1. device \in Devices
    BY DEF Stepping, DeviceInv, DeviceTypeOK
  <2> QED BY <2>1, WorksTyped
<1>4. KvFree /\ KvReady
  BY DEF Stepping, LoopInv
<1>5. ASSUME NEW m \in Places("h2d")', NEW n \in Places("compute")',
             (WorkAt("h2d", m).op = "load_kv")', IsUpdate(n)',
             KvBuffer(WorkAt("compute", n)'.index) = KvBuffer(WorkAt("h2d", m)'.index),
             Before(WorkAt("compute", n)', WorkAt("h2d", m)')
      PROVE  Waits("h2d", m, "compute", n)'
  <2>1. Waits("h2d", m + Off(s, "h2d"), "compute", n + Off(s, "compute"))
    BY <1>0, <1>1, <1>4, <1>5 DEF KvFree, IsUpdate
  <2> QED BY <1>0, <1>2, <2>1
<1>6. ASSUME NEW m \in Places("h2d")', WorkAt("h2d", m)'.op = "load_kv",
             NEW w, w = WorkAt("h2d", m)'
      PROVE  \E n \in Places("compute")' :
               IsUpdate(n)' /\ WorkAt("compute", n)'.chunk = w.chunk
                 /\ WorkAt("compute", n)'.index = w.index
  <2> DEFINE k == m + Off(s, "h2d")
  <2>1. k \in Places("h2d") /\ w = WorkAt("h2d", k) /\ WorkAt("h2d", k).op = "load_kv"
    BY <1>0, <1>1, <1>6
  <2> HIDE DEF k
  <2>2. PICK n \in Places("compute") :
          IsUpdate(n) /\ WorkAt("compute", n).chunk = w.chunk /\ WorkAt("compute", n).index = w.index
    BY <1>4, <2>1 DEF KvFree
  <2>3. ~(s = "compute" /\ n = 1)
    <3> SUFFICES ASSUME s = "compute", n = 1 PROVE FALSE
      OBVIOUS
    <3>1. \A j : ~Waits("compute", n, "h2d", j)
      BY <1>0, <1>2
    <3>2. Before(WorkAt("compute", n), WorkAt("h2d", k))
      BY <1>4, <2>1, <2>2, <3>1 DEF KvReady
    <3> QED BY <1>0, <1>3, <2>1, <2>2, <3>2 DEF Before
  <2> DEFINE l == n - Off(s, "compute")
  <2>4. l \in Places("compute")' /\ l + Off(s, "compute") = n
    BY <1>0, <1>2, <2>3
  <2> HIDE DEF l
  <2>5. IsUpdate(l)' /\ WorkAt("compute", l)'.chunk = w.chunk /\ WorkAt("compute", l)'.index = w.index
    BY <1>0, <1>1, <2>2, <2>4 DEF IsUpdate
  <2> QED BY <2>4, <2>5
<1> QED
  BY <1>5, <1>6 DEF KvFree

LEMMA StepStagesRead ==
  ASSUME NEW s \in Streams, Stepping(s)
  PROVE  StagesRead'
<1>0. "h2d" \in Streams
  BY DEF Streams
<1>1. /\ \A t \in Streams : \A i \in Places(t)' :
           /\ i \in Nat /\ i + Off(s, t) \in Places(t)
           /\ WorkAt(t, i)' = WorkAt(t, i + Off(s, t))
      /\ UNCHANGED <<pc, qpage, chunk, submitted, consumed, loads, writes, qHost, stage,
                     kvTile, qChunk>>
  BY SteppingPlaces
<1>2. /\ \A t \in Streams : \A i \in Places(t)' : \A e :
           Records(t, i, e)' <=> Records(t, i + Off(s, t), e)
      /\ \A t \in Streams : Len(Q(t)) \in Nat /\ Len(Q(t)') \in Nat
      /\ \A t \in Streams : Len(Q(t)) = Len(Q(t)') + Off(s, t)
  BY StepShifts DEF Stepping
<1>3. StagesRead
  BY DEF Stepping, LoopInv
<1>4. \A k : KvPage(k)' = KvPage(k)
  BY <1>1 DEF KvPage
<1>5. ASSUME NEW m \in Places("h2d")', WorkAt("h2d", m)'.op = "load_kv",
             NEW k, k = PageOfTile(WorkAt("h2d", m)'.index)
      PROVE  /\ stage[StageOf(k)] = <<KvPage(k)>>
             /\ loads[StageOf(k)].phase = "none"
             /\ \/ \E j \in m .. Len(Q("h2d"))' : Records("h2d", j, <<"stage_free", StageOf(k)>>)'
                \/ pc = "consume" /\ k = consumed - 1
  <2> DEFINE o == Off(s, "h2d")
  <2>1. m + o \in Places("h2d") /\ WorkAt("h2d", m + o).op = "load_kv"
        /\ k = PageOfTile(WorkAt("h2d", m + o).index)
    BY <1>0, <1>1, <1>5
  <2>2. /\ stage[StageOf(k)] = <<KvPage(k)>>
        /\ loads[StageOf(k)].phase = "none"
        /\ \/ \E j \in m + o .. Len(Q("h2d")) : Records("h2d", j, <<"stage_free", StageOf(k)>>)
           \/ pc = "consume" /\ k = consumed - 1
    BY <1>3, <2>1 DEF StagesRead
  <2>3. ASSUME NEW j \in m + o .. Len(Q("h2d")), Records("h2d", j, <<"stage_free", StageOf(k)>>)
        PROVE  \E i \in m .. Len(Q("h2d"))' : Records("h2d", i, <<"stage_free", StageOf(k)>>)'
    <3>1. j - o \in m .. Len(Q("h2d"))' /\ j - o \in Places("h2d")' /\ (j - o) + o = j
      <4>1. /\ Len(Q("h2d")) \in Nat /\ Len(Q("h2d"))' \in Nat
            /\ Len(Q("h2d")) = Len(Q("h2d"))' + o
            /\ o \in {0, 1} /\ m \in Nat /\ m >= 1
        BY <1>0, <1>1, <1>2, OffsetsInRange DEF Places
      <4> HIDE DEF o
      <4> QED BY <2>3, <4>1 DEF Places
    <3> HIDE DEF o
    <3>2. Records("h2d", j - o, <<"stage_free", StageOf(k)>>)'
      BY <1>0, <1>2, <2>3, <3>1 DEF o
    <3> QED BY <3>1, <3>2
  <2> QED BY <2>2, <2>3
<1>6. pc = "consume" => /\ stage[StageOf(consumed - 1)] = <<KvPage(consumed - 1)>>
                        /\ loads[StageOf(consumed - 1)].phase = "none"
  BY <1>3 DEF StagesRead
<1> QED
  BY <1>1, <1>4, <1>5, <1>6 DEF StagesRead

LEMMA StepAccumulator ==
  ASSUME NEW s \in Streams, Stepping(s)
  PROVE  AccumulatorExact'
<1> DEFINE w == WorkAt(s, 1)
           C == Q("compute")
           L == Len(Q("compute"))
           W(i) == WorkAt("compute", i)
<1>0. "compute" \in Streams
  BY DEF Streams
<1>1. /\ \A i \in Places("compute")' :
           /\ i \in Nat /\ i + Off(s, "compute") \in Places("compute")
           /\ WorkAt("compute", i)' = WorkAt("compute", i + Off(s, "compute"))
      /\ UNCHANGED <<pc, qpage, chunk, submitted, consumed, loads, writes, qHost, stage,
                     kvTile, qChunk>>
      /\ UNCHANGED <<KvTotal, NumTiles, OutSlot, Scanning, Computing>>
  BY <1>0, SteppingPlaces
<1>2. 1 \in Places(s) /\ L \in Nat /\ L' \in Nat /\ L = L' + Off(s, "compute")
  BY <1>0, StepShifts DEF Stepping
<1>3. /\ s = "compute" => acc' = Partial(w.chunk, CountAfter(w))
      /\ s # "compute" => acc' = acc
  BY StepDelivers DEF Stepping, Delivers
<1>4. /\ \A c, n : Partial(c, n)' = Partial(c, n)
      /\ \A v : CountBefore(v)' = CountBefore(v)
      /\ \A v : CountAfter(v)' = CountAfter(v)
  BY <1>1 DEF Partial, TilesOf, CountBefore, CountAfter
<1>5. (C # <<>> <=> L > 0) /\ (C' # <<>> <=> L' > 0)
  <2> DEFINE O == Operations
  <2>1. C \in Seq(O) /\ C' \in Seq(O)
    BY <1>0, StepShifts DEF Q, Devices, Stepping, DeviceInv, DeviceTypeOK
  <2> HIDE DEF O
  <2> QED BY <2>1
\* The invariant over places.
<1>6. /\ L > 0 => CountBefore(W(1)) = 0 \/ acc = Partial(W(1).chunk, CountBefore(W(1)))
      /\ \A n \in 1 .. L - 1 :
           CountBefore(W(n + 1)) = 0
             \/ (W(n + 1).chunk = W(n).chunk /\ CountBefore(W(n + 1)) = CountAfter(W(n)))
      /\ Scanning /\ kvTile > 0 /\ L = 0 => acc = Partial(chunk, kvTile)
      /\ Scanning /\ kvTile > 0 /\ L > 0 => W(L).chunk = chunk /\ CountAfter(W(L)) = kvTile
  <2>1. AccumulatorExact
    BY DEF Stepping, LoopInv
  <2>2. \A i : WorkAt("compute", i) = C[i].work
    BY DEF WorkAt
  <2>3. C = <<>> <=> L = 0
    BY <1>2, <1>5
  <2> HIDE DEF C
  <2> QED BY <1>2, <1>5, <2>1, <2>2, <2>3 DEF AccumulatorExact, C
<1> DEFINE V(i) == WorkAt("compute", i)'
           o == Off(s, "compute")
<1>7. \A i \in 1 .. L' : V(i) = W(i + o) /\ i + o \in 1 .. L
  BY <1>1 DEF Places
<1>8. (s = "compute" => o = 1 /\ w = W(1) /\ L > 0) /\ (s # "compute" => o = 0)
  <2>1. s = "compute" => o = 1 /\ w = W(1)
    BY DEF Off
  <2>2. s # "compute" => o = 0
    BY DEF Off
  <2>3. s = "compute" => L > 0
    BY <1>2 DEF Places
  <2> QED BY <2>1, <2>2, <2>3
<1>9. L = L' + o
  BY <1>2
<1> HIDE DEF V, W, o, L, w, C
<1>10. L' > 0 => CountBefore(V(1)) = 0 \/ acc' = Partial(V(1).chunk, CountBefore(V(1)))
  <2> SUFFICES ASSUME L' > 0
               PROVE  CountBefore(V(1)) = 0 \/ acc' = Partial(V(1).chunk, CountBefore(V(1)))
    OBVIOUS
  <2>1. CASE s = "compute"
    <3>1. V(1) = W(2) /\ 1 \in 1 .. L - 1 /\ 1 + 1 = 2
      BY <1>2, <1>7, <1>8, <1>9, <2>1
    <3>2. CountBefore(W(2)) = 0
            \/ (W(2).chunk = W(1).chunk /\ CountBefore(W(2)) = CountAfter(W(1)))
      BY <1>6, <3>1
    <3> QED BY <1>3, <1>8, <2>1, <3>1, <3>2
  <2>2. CASE s # "compute"
    <3>1. V(1) = W(1) /\ L > 0
      BY <1>2, <1>7, <1>8, <1>9, <2>2
    <3> QED BY <1>3, <1>6, <2>2, <3>1
  <2> QED BY <2>1, <2>2
<1>11. ASSUME NEW n \in 1 .. L' - 1
       PROVE  CountBefore(V(n + 1)) = 0
                \/ (V(n + 1).chunk = V(n).chunk /\ CountBefore(V(n + 1)) = CountAfter(V(n)))
  <2> DEFINE l == L'
  <2>1. o \in {0, 1} /\ L \in Nat /\ l \in Nat /\ L = l + o /\ n \in 1 .. l - 1
    BY <1>2, <1>8, <1>9
  <2> HIDE DEF l
  <2>4. n + o \in 1 .. L - 1 /\ n \in 1 .. l /\ n + 1 \in 1 .. l /\ (n + 1) + o = (n + o) + 1
    BY <2>1
  <2>2. n + o \in 1 .. L - 1 /\ n \in 1 .. L' /\ n + 1 \in 1 .. L' /\ (n + 1) + o = (n + o) + 1
    BY <2>4 DEF l
  <2>3. V(n) = W(n + o) /\ V(n + 1) = W((n + o) + 1)
    BY <1>7, <2>2
  <2> QED BY <1>6, <2>2, <2>3
<1>12. ASSUME Scanning, kvTile > 0, L' = 0
       PROVE  acc' = Partial(chunk, kvTile)
  <2>1. CASE s = "compute"
    <3>1. L = 1
      BY <1>2, <1>8, <1>9, <1>12, <2>1
    <3> QED BY <1>3, <1>6, <1>8, <1>12, <2>1, <3>1
  <2>2. CASE s # "compute"
    <3>1. L = 0
      BY <1>2, <1>8, <1>9, <1>12, <2>2
    <3> QED BY <1>3, <1>6, <1>12, <2>2, <3>1
  <2> QED BY <2>1, <2>2
<1>13. ASSUME Scanning, kvTile > 0, NEW k, k = L', k > 0
       PROVE  V(k).chunk = chunk /\ CountAfter(V(k)) = kvTile
  <2>1. V(k) = W(L) /\ L > 0
    BY <1>2, <1>7, <1>8, <1>9, <1>13
  <2> QED BY <1>6, <1>13, <2>1
<1>14. \A i : V(i) = C'[i].work
  BY DEF V, C, WorkAt
<1>15. L' = Len(C')
  BY DEF L, C
<1>16. C' = <<>> <=> L' = 0
  BY <1>2, <1>5
<1> QED
  <2>1. C' # <<>> => CountBefore(C'[1].work) = 0
                       \/ acc' = Partial(C'[1].work.chunk, CountBefore(C'[1].work))
    BY <1>5, <1>10, <1>14
  <2>2. \A n \in 1 .. Len(C') - 1 :
          CountBefore(C'[n + 1].work) = 0
            \/ (C'[n + 1].work.chunk = C'[n].work.chunk
                 /\ CountBefore(C'[n + 1].work) = CountAfter(C'[n].work))
    BY <1>11, <1>14, <1>15
  <2>3. Scanning' /\ kvTile' > 0 =>
          IF C' = <<>> THEN acc' = Partial(chunk, kvTile)
          ELSE C'[Len(C')].work.chunk = chunk /\ CountAfter(C'[Len(C')].work) = kvTile
    BY <1>1, <1>2, <1>5, <1>12, <1>13, <1>14, <1>15, <1>16
  <2> QED BY <1>1, <1>4, <2>1, <2>2, <2>3 DEF AccumulatorExact, C

LEMMA StepOutputFree ==
  ASSUME NEW s \in Streams, Stepping(s)
  PROVE  OutputFree'
<1>0. "compute" \in Streams /\ "d2h" \in Streams
  BY DEF Streams
<1>1. /\ \A t \in Streams : \A i \in Places(t)' :
           i + Off(s, t) \in Places(t) /\ WorkAt(t, i)' = WorkAt(t, i + Off(s, t))
      /\ \A t \in Streams : Q(t) = <<>> => Q(t)' = <<>>
      /\ UNCHANGED pc
  BY SteppingPlaces
<1>2. /\ \A t \in Streams : \A j : ~Waits(s, 1, t, j)
      /\ \A t, u \in Streams : \A i \in Places(t)', j \in Places(u)' :
           Waits(t, i + Off(s, t), u, j + Off(s, u)) => Waits(t, i, u, j)'
      /\ \A t \in Streams : \A i \in Places(t) :
           (t = s /\ i = 1) \/ (i - Off(s, t) \in Places(t)' /\ (i - Off(s, t)) + Off(s, t) = i)
      /\ \A t \in Streams : Len(Q(t)) \in Nat /\ Len(Q(t)') \in Nat
      /\ \A t \in Streams : Len(Q(t)) = Len(Q(t)') + Off(s, t)
  BY StepShifts DEF Stepping
<1>3. \A t \in Streams : \A i \in Places(t) : WorkAt(t, i).index \in Nat
  <2>1. device \in Devices
    BY DEF Stepping, DeviceInv, DeviceTypeOK
  <2> QED BY <2>1, WorksTyped
<1>4. OutputFree /\ OutputReady
  BY DEF Stepping, LoopInv
<1>5. ASSUME NEW n \in Places("compute")', NEW m \in Places("d2h")', IsFinalize(n)',
             DeviceOutput(WorkAt("compute", n)'.index) = DeviceOutput(WorkAt("d2h", m)'.index),
             WorkAt("d2h", m)'.index < WorkAt("compute", n)'.index
      PROVE  Waits("compute", n, "d2h", m)'
  <2>1. Waits("compute", n + Off(s, "compute"), "d2h", m + Off(s, "d2h"))
    BY <1>0, <1>1, <1>4, <1>5 DEF OutputFree, IsFinalize
  <2> QED BY <1>0, <1>2, <2>1
<1>6. ASSUME NEW n \in Places("compute")', IsFinalize(n)', NEW x, x = WorkAt("compute", n)'.index
      PROVE  \E m \in Places("d2h")' : WorkAt("d2h", m)'.index = x
  <2> DEFINE k == n + Off(s, "compute")
  <2>1. k \in Places("compute") /\ IsFinalize(k) /\ x = WorkAt("compute", k).index
    BY <1>0, <1>1, <1>6 DEF IsFinalize
  <2> HIDE DEF k
  <2>2. PICK m \in Places("d2h") : WorkAt("d2h", m).index = x
    BY <1>4, <2>1 DEF OutputFree
  <2>3. ~(s = "d2h" /\ m = 1)
    <3> SUFFICES ASSUME s = "d2h", m = 1 PROVE FALSE
      OBVIOUS
    <3>1. \A j : ~Waits("d2h", m, "compute", j)
      BY <1>0, <1>2
    <3>2. WorkAt("compute", k).index > WorkAt("d2h", m).index
      BY <1>4, <2>1, <3>1 DEF OutputReady
    <3> QED BY <1>0, <1>3, <2>1, <2>2, <3>2
  <2> DEFINE l == m - Off(s, "d2h")
  <2>4. l \in Places("d2h")' /\ l + Off(s, "d2h") = m
    BY <1>0, <1>2, <2>3
  <2> HIDE DEF l
  <2>5. WorkAt("d2h", l)'.index = x
    BY <1>0, <1>1, <2>2, <2>4
  <2> QED BY <2>4, <2>5
<1>7. ASSUME pc \in {"chunk", "drain"}, Q("compute")' # <<>>,
             NEW n, n = Len(Q("compute")')
      PROVE  n \in Places("compute")' /\ WorkAt("compute", n)'.op = "finalize"
  <2> DEFINE o == Off(s, "compute")
  <2>1. Q("compute") # <<>>
    BY <1>0, <1>1, <1>7
  <2>2. WorkAt("compute", Len(Q("compute"))).op = "finalize"
    BY <1>4, <1>7, <2>1 DEF OutputFree, IsFinalize
  <2>3. n \in Places("compute")'
    <3> DEFINE O == Operations
    <3>1. Q("compute")' \in Seq(O)
      BY <1>0, StepShifts DEF Q, Devices, Stepping
    <3> HIDE DEF O
    <3>2. n \in Nat /\ n >= 1
      BY <1>7, <3>1
    <3> QED BY <1>7, <3>2 DEF Places
  <2>4. WorkAt("compute", n)' = WorkAt("compute", n + o) /\ n + o = Len(Q("compute"))
    BY <1>0, <1>1, <1>2, <1>7, <2>3
  <2> QED BY <2>2, <2>3, <2>4
<1>8. pc' \in {"chunk", "drain"} /\ Q("compute")' # <<>>
        => device'.queue["compute"][Len(device'.queue["compute"])].work.op = "finalize"
  BY <1>1, <1>7 DEF WorkAt, Q
<1> QED
  <2>1. (pc \in {"chunk", "drain"} /\ Q("compute") # <<>> => IsFinalize(Len(Q("compute"))))'
    BY <1>8 DEF IsFinalize, WorkAt, Q
  <2> QED BY <1>5, <1>6, <2>1 DEF OutputFree

LEMMA StepOutputReady ==
  ASSUME NEW s \in Streams, Stepping(s)
  PROVE  OutputReady'
<1> DEFINE w == WorkAt(s, 1)
<1>0. "compute" \in Streams /\ "d2h" \in Streams
  BY DEF Streams
<1>1. /\ \A t \in Streams : \A i \in Places(t)' :
           /\ i \in Nat /\ i + Off(s, t) \in Places(t)
           /\ WorkAt(t, i)' = WorkAt(t, i + Off(s, t))
           /\ ~(t = s /\ i + Off(s, t) = 1)
      /\ UNCHANGED <<qpage, NumTiles>>
  BY SteppingPlaces
<1>2. /\ 1 \in Places(s)
      /\ \A t \in Streams : \A j : ~Waits(s, 1, t, j)
      /\ \A t, u \in Streams : \A i \in Places(t)', j \in Places(u)' :
           Waits(t, i + Off(s, t), u, j + Off(s, u)) => Waits(t, i, u, j)'
      /\ \A t \in Streams : \A i \in Places(t) :
           (t = s /\ i = 1) \/ (i - Off(s, t) \in Places(t)' /\ (i - Off(s, t)) + Off(s, t) = i)
  BY StepShifts DEF Stepping
<1>3. /\ w.op = "finalize" =>
           /\ s = "compute"
           /\ dout'[DeviceOutput(w.index)] = Partial(w.chunk, NumTiles)
           /\ \A o \in DeviceOutputs : o # DeviceOutput(w.index) => dout'[o] = dout[o]
      /\ w.op # "finalize" => dout' = dout
  BY StepDelivers DEF Stepping, Delivers
<1>4. \A t \in Streams : \A i \in Places(t) : WorkAt(t, i).index \in Nat /\ i \in Nat /\ i >= 1
  <2>1. device \in Devices
    BY DEF Stepping, DeviceInv, DeviceTypeOK
  <2> QED BY <2>1, WorksTyped DEF Places
<1>5. \A n \in Places("compute")' :
        w.op = "finalize" /\ IsFinalize(n)' => WorkAt("compute", n)'.index > w.index
  <2> SUFFICES ASSUME NEW n \in Places("compute")', w.op = "finalize", IsFinalize(n)'
               PROVE  WorkAt("compute", n)'.index > w.index
    OBVIOUS
  <2>1. s = "compute" /\ n + Off(s, "compute") \in Places("compute") /\ n + Off(s, "compute") # 1
    BY <1>0, <1>1, <1>3
  <2>2. 1 < n + Off(s, "compute")
    BY <1>0, <1>4, <2>1
  <2>3. w.index < WorkAt("compute", n + Off(s, "compute")).index
    BY <1>0, <1>1, <1>2, <2>1, <2>2 DEF Stepping, LoopInv, FinalsOrdered, IsFinalize
  <2> QED BY <1>0, <1>1, <1>2, <1>4, <2>1, <2>3
<1> SUFFICES ASSUME NEW m \in Places("d2h")', NEW u, u = WorkAt("d2h", m)'
             PROVE  \/ \E n \in Places("compute")' :
                         /\ IsFinalize(n)'
                         /\ WorkAt("compute", n)'.index = u.index
                         /\ WorkAt("compute", n)'.chunk = u.chunk
                         /\ Waits("d2h", m, "compute", n)'
                    \/ /\ dout'[DeviceOutput(u.index)] = Partial(u.chunk, NumTiles)
                       /\ \A n \in Places("compute")' :
                            IsFinalize(n)' => WorkAt("compute", n)'.index > u.index
  <2>1. \A c : Partial(c, NumTiles)' = Partial(c, NumTiles)
    BY <1>1 DEF Partial, TilesOf
  <2> QED BY <2>1 DEF OutputReady
<1> DEFINE k == m + Off(s, "d2h")
<1>6. k \in Places("d2h") /\ u = WorkAt("d2h", k) /\ u.index \in Nat
  BY <1>0, <1>1, <1>4
<1> HIDE DEF k
<1>7. ASSUME NEW n \in Places("compute"), IsFinalize(n), WorkAt("compute", n).index = u.index,
             WorkAt("compute", n).chunk = u.chunk, Waits("d2h", k, "compute", n)
      PROVE  \/ \E l \in Places("compute")' :
                  /\ IsFinalize(l)'
                  /\ WorkAt("compute", l)'.index = u.index
                  /\ WorkAt("compute", l)'.chunk = u.chunk
                  /\ Waits("d2h", m, "compute", l)'
             \/ /\ dout'[DeviceOutput(u.index)] = Partial(u.chunk, NumTiles)
                /\ \A l \in Places("compute")' :
                     IsFinalize(l)' => WorkAt("compute", l)'.index > u.index
  <2>1. CASE s = "compute" /\ n = 1
    <3>1. w.op = "finalize" /\ w.chunk = u.chunk /\ w.index = u.index
      BY <1>7, <2>1 DEF IsFinalize
    <3> HIDE DEF w
    <3> QED BY <1>3, <1>5, <3>1
  <2>2. CASE ~(s = "compute" /\ n = 1)
    <3> DEFINE l == n - Off(s, "compute")
    <3>1. l \in Places("compute")' /\ l + Off(s, "compute") = n
      BY <1>0, <1>2, <2>2
    <3> HIDE DEF l
    <3>2. WorkAt("compute", l)' = WorkAt("compute", n) /\ IsFinalize(l)'
      BY <1>0, <1>1, <1>7, <3>1 DEF IsFinalize
    <3>3. Waits("d2h", m, "compute", l)'
      BY <1>0, <1>2, <1>7, <3>1 DEF k
    <3> QED BY <1>7, <3>1, <3>2, <3>3
  <2> QED BY <2>1, <2>2
<1>8. ASSUME dout[DeviceOutput(u.index)] = Partial(u.chunk, NumTiles),
             \A n \in Places("compute") : IsFinalize(n) => WorkAt("compute", n).index > u.index
      PROVE  /\ dout'[DeviceOutput(u.index)] = Partial(u.chunk, NumTiles)
             /\ \A l \in Places("compute")' :
                  IsFinalize(l)' => WorkAt("compute", l)'.index > u.index
  <2>1. w.op = "finalize" => DeviceOutput(w.index) # DeviceOutput(u.index)
    <3> SUFFICES ASSUME w.op = "finalize", DeviceOutput(w.index) = DeviceOutput(u.index) PROVE FALSE
      OBVIOUS
    <3>1. s = "compute" /\ 1 \in Places("compute") /\ IsFinalize(1)
      BY <1>2, <1>3 DEF IsFinalize
    <3>2. WorkAt("d2h", k).index < WorkAt("compute", 1).index
      BY <1>0, <1>4, <1>6, <1>8, <3>1
    <3>3. Waits("compute", 1, "d2h", k)
      BY <1>6, <3>1, <3>2 DEF Stepping, LoopInv, OutputFree
    <3> QED BY <1>0, <1>2, <3>1, <3>3
  <2>2. dout'[DeviceOutput(u.index)] = dout[DeviceOutput(u.index)]
    <3>1. DeviceOutput(u.index) \in DeviceOutputs
      BY <1>6, BuffersInRange
    <3> HIDE DEF w
    <3> QED BY <1>3, <2>1, <3>1
  <2>3. \A l \in Places("compute")' :
          IsFinalize(l)' => WorkAt("compute", l)'.index > u.index
    BY <1>0, <1>1, <1>8 DEF IsFinalize
  <2> QED BY <1>8, <2>2, <2>3
<1>9. \/ \E n \in Places("compute") :
           /\ IsFinalize(n)
           /\ WorkAt("compute", n).index = u.index
           /\ WorkAt("compute", n).chunk = u.chunk
           /\ Waits("d2h", k, "compute", n)
      \/ /\ dout[DeviceOutput(u.index)] = Partial(u.chunk, NumTiles)
         /\ \A n \in Places("compute") : IsFinalize(n) => WorkAt("compute", n).index > u.index
  BY <1>6 DEF Stepping, LoopInv, OutputReady
<1> QED
  BY <1>7, <1>8, <1>9

LEMMA StepChunksStored ==
  ASSUME NEW s \in Streams, Stepping(s)
  PROVE  ChunksStored'
<1> DEFINE w == WorkAt(s, 1)
<1>0. "d2h" \in Streams
  BY DEF Streams
<1>1. /\ \A i \in Places("d2h")' : WorkAt("d2h", i)' = WorkAt("d2h", i + Off(s, "d2h"))
      /\ UNCHANGED <<pc, qpage, chunk>>
      /\ UNCHANGED <<NumTiles, OutSlot, Computing>>
  BY <1>0, SteppingPlaces
<1>2. /\ 1 \in Places(s)
      /\ \A i \in Places("d2h") :
           \/ s = "d2h" /\ i = 1
           \/ i - Off(s, "d2h") \in Places("d2h")' /\ (i - Off(s, "d2h")) + Off(s, "d2h") = i
  BY <1>0, StepShifts DEF Stepping
<1>3. /\ w.op = "store" => w.chunk \in Chunks
           /\ out'[OutSlot] = [out[OutSlot] EXCEPT ![w.chunk] = Partial(w.chunk, NumTiles)]
      /\ w.op # "store" => out' = out
  BY StepDelivers DEF Stepping, Delivers
<1>4. s = "d2h" => w.op = "store"
  BY <1>2 DEF Stepping, DeviceInv, StreamKinds
<1>5. out[OutSlot] \in [Chunks -> Values]
  BY Basics DEF Stepping, RunInv, RunTypeOK, DeviceInv
<1> HIDE DEF w
<1> SUFFICES ASSUME Computing, NEW c \in Chunks, Closed(c)
             PROVE  \/ \E m \in Places("d2h")' : WorkAt("d2h", m)'.chunk = c
                    \/ out'[OutSlot][c] = Partial(c, NumTiles)
  <2>1. \A c : (Partial(c, NumTiles)' = Partial(c, NumTiles)) /\ (Closed(c)' <=> Closed(c))
    BY <1>1 DEF Partial, TilesOf, Closed
  <2> QED BY <1>1, <2>1 DEF ChunksStored
<1>6. CASE \E m \in Places("d2h") : WorkAt("d2h", m).chunk = c
  <2>1. PICK m \in Places("d2h") : WorkAt("d2h", m).chunk = c
    BY <1>6
  <2>2. CASE s = "d2h" /\ m = 1
    BY <1>3, <1>4, <1>5, <2>1, <2>2 DEF w
  <2>3. CASE ~(s = "d2h" /\ m = 1)
    BY <1>1, <1>2, <2>1, <2>3
  <2> QED BY <2>2, <2>3
<1>7. CASE out[OutSlot][c] = Partial(c, NumTiles)
  BY <1>3, <1>5, <1>7
<1> QED
  BY <1>6, <1>7 DEF Stepping, LoopInv, ChunksStored

LEMMA StepKeepsLoop ==
  ASSUME NEW s \in Streams, Stepping(s)
  PROVE  LoopInv'
BY StepCursor, StepLaunched, StepOrdered, StepQReady, StepQFree, StepKvReady, StepKvFree,
   StepStagesRead, StepAccumulator, StepOutputFree, StepOutputReady, StepChunksStored DEF LoopInv

-----------------------------------------------------------------------------
(* What the host enqueues. *)

\* d holds the operations of dev, and others behind them.
Extended(dev, d) ==
  /\ \A t \in Streams : Len(dev.queue[t]) \in Nat /\ Len(d.queue[t]) \in Nat
  /\ \A t \in Streams : Len(dev.queue[t]) <= Len(d.queue[t])
  /\ \A t \in Streams : \A i \in 1 .. Len(dev.queue[t]) : d.queue[t][i] = dev.queue[t][i]

\* What was pending in dev does, records and waits in d as before.
Preserved(dev, d) ==
  /\ \A t \in Streams : \A i \in 1 .. Len(dev.queue[t]) : i \in 1 .. Len(d.queue[t])
  /\ \A t \in Streams : \A i \in 1 .. Len(dev.queue[t]) :
       d.queue[t][i].work = dev.queue[t][i].work
  /\ \A t \in Streams : \A i \in 1 .. Len(dev.queue[t]) : \A e :
       RecordsIn(d, t, i, e) <=> RecordsIn(dev, t, i, e)
  /\ \A t, u \in Streams :
       \A i \in 1 .. Len(dev.queue[t]), j \in 1 .. Len(dev.queue[u]) :
         WaitsIn(dev, t, i, u, j) => WaitsIn(d, t, i, u, j)

LEMMA ExtendedKeeps ==
  ASSUME NEW dev, NEW d, Extended(dev, d)
  PROVE  Preserved(dev, d)
<1>1. /\ \A t \in Streams : Len(dev.queue[t]) \in Nat /\ Len(d.queue[t]) \in Nat
      /\ \A t \in Streams : Len(dev.queue[t]) <= Len(d.queue[t])
      /\ \A t \in Streams : \A i \in 1 .. Len(dev.queue[t]) : d.queue[t][i] = dev.queue[t][i]
  BY DEF Extended
<1>2. \A t \in Streams : \A i \in 1 .. Len(dev.queue[t]) : i \in 1 .. Len(d.queue[t])
  BY <1>1
<1>3. ASSUME NEW t \in Streams, NEW u \in Streams, NEW i \in 1 .. Len(dev.queue[t]),
             NEW j \in 1 .. Len(dev.queue[u]), WaitsIn(dev, t, i, u, j)
      PROVE  WaitsIn(d, t, i, u, j)
  <2>1. PICK need \in dev.queue[t][i].needs, k \in j .. Len(dev.queue[u]) :
          \E record \in dev.queue[u][k].records : record[1] = need[1] /\ record[2] <= need[2]
    BY <1>3 DEF WaitsIn
  <2>2. k \in j .. Len(d.queue[u]) /\ d.queue[u][k] = dev.queue[u][k]
    BY <1>1
  <2>3. need \in d.queue[t][i].needs
    BY <1>1
  <2> QED BY <2>1, <2>2, <2>3 DEF WaitsIn
<1>4. \A t \in Streams : \A i \in 1 .. Len(dev.queue[t]) : \A e :
        RecordsIn(d, t, i, e) <=> RecordsIn(dev, t, i, e)
  BY <1>1 DEF RecordsIn
<1>5. \A t \in Streams : \A i \in 1 .. Len(dev.queue[t]) :
        d.queue[t][i].work = dev.queue[t][i].work
  BY <1>1
<1> QED
  BY <1>2, <1>3, <1>4, <1>5 DEF Preserved

\* d is dev after one launch: the new operation is behind all others of its
\* stream, and waits for the pending records of its events.
Behind(dev, d, s, waits, work, records) ==
  /\ d \in Devices /\ Counted(d) /\ Extended(dev, d)
  /\ \A t \in Streams : t # s => d.queue[t] = dev.queue[t]
  /\ Len(d.queue[s]) = Len(dev.queue[s]) + 1
  /\ d.queue[s][Len(dev.queue[s]) + 1].work = work
  /\ \A e : RecordsIn(d, s, Len(dev.queue[s]) + 1, e) <=> e \in records
  /\ \A e \in waits : \A u \in Streams : \A k \in 1 .. Len(dev.queue[u]) : \A j \in 1 .. k :
       RecordsIn(dev, u, k, e) => WaitsIn(d, s, Len(dev.queue[s]) + 1, u, j)

LEMMA LaunchOne ==
  ASSUME NEW dev \in Devices, Counted(dev), NEW s \in Streams, NEW waits \in SUBSET Events,
         NEW work \in Works, NEW records \in SUBSET Events,
         \A e \in records : RecorderOf(e) = s
  PROVE  Behind(dev, Cuda!Launch(dev, s, waits, work, records), s, waits, work, records)
<1> DEFINE d == Cuda!Launch(dev, s, waits, work, records)
<1>1. Grown(dev, d, s, waits, work, records)
  BY LaunchAdds
<1> HIDE DEF d
<1>2. d \in Devices /\ Len(d.queue[s]) = Len(dev.queue[s]) + 1
      /\ \A t \in Streams : t # s => d.queue[t] = dev.queue[t]
  BY <1>1 DEF Grown
<1>3. Counted(d)
  BY <1>1, LaunchCounted
<1>4. Extended(dev, d)
  <2>1. /\ \A t \in Streams : Len(dev.queue[t]) \in Nat /\ Len(d.queue[t]) \in Nat
        /\ \A t \in Streams : Len(dev.queue[t]) <= Len(d.queue[t])
    BY <1>1, GrownFrom
  <2>2. ASSUME NEW t \in Streams, NEW i \in 1 .. Len(dev.queue[t])
        PROVE  d.queue[t][i] = dev.queue[t][i]
    <3>1. CASE t = s
      BY <1>1, <3>1 DEF Grown
    <3>2. CASE t # s
      BY <1>2, <3>2
    <3> QED BY <3>1, <3>2
  <2> QED BY <2>1, <2>2 DEF Extended
<1>5. /\ \A e : RecordsIn(d, s, Len(dev.queue[s]) + 1, e) <=> e \in records
      /\ d.queue[s][Len(dev.queue[s]) + 1].work = work
      /\ \A e \in waits : \A u \in Streams : \A k \in 1 .. Len(dev.queue[u]) : \A j \in 1 .. k :
           RecordsIn(dev, u, k, e) => WaitsIn(d, s, Len(dev.queue[s]) + 1, u, j)
  <2>1. /\ \A t, u \in Streams : \A i \in 1 .. Len(dev.queue[t]) : \A j \in Nat \ {0} :
             WaitsIn(dev, t, i, u, j) => WaitsIn(d, t, i, u, j)
        /\ \A t \in Streams : \A i \in 1 .. Len(dev.queue[t]) : \A e :
             RecordsIn(d, t, i, e) <=> RecordsIn(dev, t, i, e)
        /\ \A e : RecordsIn(d, s, Len(dev.queue[s]) + 1, e) <=> e \in records
        /\ d.queue[s][Len(dev.queue[s]) + 1].work = work
        /\ \A e \in waits : \A u \in Streams : \A k \in 1 .. Len(dev.queue[u]) : \A j \in 1 .. k :
             RecordsIn(dev, u, k, e) => WaitsIn(d, s, Len(dev.queue[s]) + 1, u, j)
    BY <1>1, LaunchKeeps
  <2> QED BY <2>1
<1>6. Behind(dev, d, s, waits, work, records)
  BY <1>2, <1>3, <1>4, <1>5 DEF Behind
<1> QED
  BY <1>6 DEF d

\* What a step of the host leaves as it is on the device.
HostKeeps ==
  /\ \A t \in Streams : Len(Q(t)) \in Nat /\ Len(Q(t)') \in Nat
  /\ \A t \in Streams : \A i \in Places(t) : i \in Places(t)' /\ WorkAt(t, i)' = WorkAt(t, i)
  /\ \A t \in Streams : \A i \in Places(t) : \A e : Records(t, i, e)' <=> Records(t, i, e)
  /\ \A t, u \in Streams : \A i \in Places(t), j \in Places(u) :
       Waits(t, i, u, j) => Waits(t, i, u, j)'
  /\ device' \in Devices
  /\ Counted(device)'

LEMMA ExtendedHost ==
  ASSUME Extended(device, device'), device' \in Devices, Counted(device')
  PROVE  HostKeeps
<1>1. /\ \A t \in Streams : \A i \in 1 .. Len(device.queue[t]) : i \in 1 .. Len(device'.queue[t])
      /\ \A t \in Streams : \A i \in 1 .. Len(device.queue[t]) :
           device'.queue[t][i].work = device.queue[t][i].work
      /\ \A t \in Streams : \A i \in 1 .. Len(device.queue[t]) : \A e :
           RecordsIn(device', t, i, e) <=> RecordsIn(device, t, i, e)
      /\ \A t, u \in Streams :
           \A i \in 1 .. Len(device.queue[t]), j \in 1 .. Len(device.queue[u]) :
             WaitsIn(device, t, i, u, j) => WaitsIn(device', t, i, u, j)
  <2>1. Preserved(device, device')
    BY ExtendedKeeps
  <2> QED BY <2>1 DEF Preserved
<1>2. \A t \in Streams : Len(device.queue[t]) \in Nat /\ Len(device'.queue[t]) \in Nat
  BY DEF Extended
<1> QED
  BY <1>1, <1>2 DEF HostKeeps, Places, Q, WorkAt, Records, Waits

\* The host enqueues one operation on the H2D stream, at place N.
Uploads(N, waits, work, records) ==
  /\ HostKeeps
  /\ N \in Nat /\ N \in Places("h2d")' /\ N \notin Places("h2d") /\ N = Len(Q("h2d"))'
  /\ \A i \in Places("h2d")' : i \in Places("h2d") \/ i = N
  /\ Q("compute")' = Q("compute") /\ Q("d2h")' = Q("d2h")
  /\ WorkAt("h2d", N)' = work
  /\ \A e : Records("h2d", N, e)' <=> e \in records
  /\ \A e \in waits : \A k \in Places("compute") : \A j \in 1 .. k :
       Records("compute", k, e) => Waits("h2d", N, "compute", j)'

LEMMA HostLaunchesOne ==
  ASSUME DeviceInv, NEW waits \in SUBSET Events, NEW work \in Works, NEW records \in SUBSET Events,
         \A e \in records : RecorderOf(e) = "h2d",
         device' = Cuda!Launch(device, "h2d", waits, work, records),
         NEW N, N = Len(Q("h2d")) + 1
  PROVE  Uploads(N, waits, work, records)
<1>1. device \in Devices /\ Counted(device) /\ "h2d" \in Streams /\ "compute" \in Streams
      /\ "d2h" \in Streams
  BY DEF DeviceInv, DeviceTypeOK, Streams
<1>0. N = Len(device.queue["h2d"]) + 1
  BY DEF Q
<1>a. Behind(device, device', "h2d", waits, work, records)
  BY <1>1, LaunchOne
<1>2. /\ device' \in Devices /\ Counted(device') /\ Extended(device, device')
      /\ \A t \in Streams : t # "h2d" => device'.queue[t] = device.queue[t]
      /\ Len(device'.queue["h2d"]) = N
      /\ device'.queue["h2d"][N].work = work
      /\ \A e : RecordsIn(device', "h2d", N, e) <=> e \in records
      /\ \A e \in waits : \A u \in Streams : \A k \in 1 .. Len(device.queue[u]) : \A j \in 1 .. k :
           RecordsIn(device, u, k, e) => WaitsIn(device', "h2d", N, u, j)
  BY <1>0, <1>a DEF Behind
<1>3. HostKeeps
  BY <1>2, ExtendedHost
<1>4. Len(device.queue["h2d"]) \in Nat
  BY <1>1, <1>2 DEF Extended
<1>5. /\ N \in Nat /\ N \in Places("h2d")' /\ N \notin Places("h2d") /\ N = Len(Q("h2d"))'
      /\ \A i \in Places("h2d")' : i \in Places("h2d") \/ i = N
  BY <1>1, <1>2, <1>4 DEF Places, Q
<1>6. Q("compute")' = Q("compute") /\ Q("d2h")' = Q("d2h")
  BY <1>1, <1>2 DEF Q
<1> QED
  BY <1>1, <1>2, <1>3, <1>5, <1>6 DEF Uploads, WorkAt, Q, Records, Waits, Places

\* A new operation of a stream is of the stream's kind and records its events.
Fresh(s, i) ==
  /\ \A e \in Evidence(WorkAt(s, i)') : Records(s, i, e)'
  /\ s = "h2d" => WorkAt(s, i)'.op \in {"load_q", "load_kv", "mark"}
  /\ s = "compute" => WorkAt(s, i)'.op \in {"update", "mark", "finalize"}
  /\ s = "d2h" => WorkAt(s, i)'.op = "store" /\ writes[SlotOf(WorkAt(s, i)'.page)].phase = "none"

LEMMA HostDevice ==
  ASSUME DeviceInv, HostKeeps, UNCHANGED <<writes, dq, dkv, acc, dout>>,
         kvTile' \in Nat, qChunk' \in Nat,
         \A s \in Streams : \A i \in Places(s)' : i \in Places(s) \/ Fresh(s, i)
  PROVE  DeviceInv'
<1>1. /\ \A t \in Streams : \A i \in Places(t) : i \in Places(t)' /\ WorkAt(t, i)' = WorkAt(t, i)
      /\ \A t \in Streams : \A i \in Places(t) : \A e : Records(t, i, e)' <=> Records(t, i, e)
      /\ device' \in Devices
      /\ Counted(device)'
  BY DEF HostKeeps
<1>2. "h2d" \in Streams /\ "compute" \in Streams /\ "d2h" \in Streams
  BY DEF Streams
<1>3. DeviceTypeOK'
  BY <1>1 DEF DeviceInv, DeviceTypeOK
<1>4. OperationsRecord'
  <2> SUFFICES ASSUME NEW t \in Streams, NEW i \in Places(t)', NEW e \in Evidence(WorkAt(t, i)')
               PROVE  Records(t, i, e)'
    BY DEF OperationsRecord, Evidence
  <2>1. CASE i \in Places(t)
    <3>1. e \in Evidence(WorkAt(t, i))
      BY <1>1, <2>1
    <3>2. Records(t, i, e)
      BY <2>1, <3>1 DEF DeviceInv, OperationsRecord
    <3> QED BY <1>1, <2>1, <3>2
  <2>2. CASE Fresh(t, i)
    BY <2>2 DEF Fresh
  <2> QED BY <2>1, <2>2
<1>5. StreamKinds'
  BY <1>1, <1>2 DEF DeviceInv, StreamKinds, Fresh
<1>6. StoresIdle'
  BY <1>1, <1>2 DEF DeviceInv, StoresIdle, Fresh
<1> QED
  BY <1>1, <1>3, <1>4, <1>5, <1>6 DEF DeviceInv

\* Steps that leave the device alone.
LEMMA SameDevice ==
  ASSUME DeviceInv, UNCHANGED deviceVars,
         \/ \A o \in OutSlots : writes[o].phase = "none" => writes'[o].phase = "none"
         \/ Q("d2h") = <<>>
  PROVE  DeviceInv'
<1>1. UNCHANGED <<device, dq, dkv, acc, dout, kvTile, qChunk>>
  BY DEF deviceVars
<1>2. DeviceTypeOK' /\ Counted(device)'
  BY <1>1 DEF DeviceInv, DeviceTypeOK
<1>3. OperationsRecord' /\ StreamKinds'
  BY <1>1 DEF DeviceInv, OperationsRecord, StreamKinds, Records, Places, WorkAt, Q, Evidence
<1>4. StoresIdle'
  <2>1. \A i \in Places("d2h") : SlotOf(WorkAt("d2h", i).page) \in OutSlots
    <3>1. device \in Devices /\ "d2h" \in Streams
      BY DEF DeviceInv, DeviceTypeOK, Streams
    <3> QED BY <3>1, WorksTyped, SlotsInRange
  <2>2. Q("d2h") = <<>> => Places("d2h") = {}
    BY DEF Places
  <2>3. Places("d2h")' = Places("d2h") /\ \A i : WorkAt("d2h", i)' = WorkAt("d2h", i)
    BY <1>1 DEF Places, WorkAt, Q
  <2> QED BY <2>1, <2>2, <2>3 DEF DeviceInv, StoresIdle
<1> QED
  BY <1>2, <1>3, <1>4 DEF DeviceInv

LEMMA SameLoop ==
  ASSUME LoopInv, UNCHANGED deviceVars, UNCHANGED <<qpage, chunk, out>>,
         pc' = pc \/ (pc = "scan" /\ pc' = "consume"),
         Cursor', StagesRead'
  PROVE  LoopInv'
<1>1. UNCHANGED <<device, dq, dkv, acc, dout, kvTile, qChunk, qpage, chunk, out>>
  BY DEF deviceVars
<1>2. UNCHANGED <<Scanning, Computing, NumTiles, OutSlot>>
  BY <1>1 DEF Scanning, Computing, NumTiles, KvTotal, OutSlot
<1>3. \A c : Closed(c)' <=> Closed(c)
  BY <1>1 DEF Closed
<1>4. \A c, n : Partial(c, n)' = Partial(c, n)
  BY <1>1 DEF Partial, TilesOf
<1>5. /\ \A s : Q(s)' = Q(s) /\ Places(s)' = Places(s)
      /\ \A s, i : WorkAt(s, i)' = WorkAt(s, i)
      /\ \A s, i, e : Records(s, i, e)' <=> Records(s, i, e)
      /\ \A s, i, t, j : Waits(s, i, t, j)' <=> Waits(s, i, t, j)
  BY <1>1 DEF Q, Places, WorkAt, Records, Waits
<1>6. Launched'
  BY <1>1, <1>2, <1>3, <1>5 DEF LoopInv, Launched
<1>7. LoadsOrdered' /\ FinalsOrdered'
  BY <1>5 DEF LoopInv, LoadsOrdered, FinalsOrdered, Before
<1>8. QReady'
  BY <1>1, <1>2 DEF LoopInv, QReady, Q, Places, WorkAt, Waits, IsUpdate, IsLoadQ
<1>9. QFree'
  BY <1>1, <1>2, <1>3 DEF LoopInv, QFree, Q, Places, WorkAt, Waits, Records, IsUpdate
<1>10. KvReady'
  <2>1. UNCHANGED TilesOf(qpage)
    BY <1>1 DEF TilesOf
  <2> QED BY SMTT(30), <1>1, <2>1 DEF LoopInv, KvReady, Q, Places, WorkAt, Waits, IsUpdate, IsLoadKv, Before
<1>11. KvFree'
  BY <1>1 DEF LoopInv, KvFree, Q, Places, WorkAt, Waits, IsUpdate, Before
<1>12. AccumulatorExact'
  <2>1. \A w : CountBefore(w)' = CountBefore(w) /\ CountAfter(w)' = CountAfter(w)
    BY <1>2 DEF CountBefore, CountAfter
  <2> QED BY <1>1, <1>2, <1>4, <2>1 DEF LoopInv, AccumulatorExact, Q
<1>13. OutputFree'
  BY <1>1 DEF LoopInv, OutputFree, Q, Places, WorkAt, Waits, IsFinalize
<1>14. OutputReady'
  BY <1>1, <1>2, <1>4 DEF LoopInv, OutputReady, Q, Places, WorkAt, Waits, IsFinalize
<1>15. ChunksStored'
  BY <1>1, <1>2, <1>3, <1>4 DEF LoopInv, ChunksStored, Q, Places, WorkAt
<1> QED
  BY <1>6, <1>7, <1>8, <1>9, <1>10, <1>11, <1>12, <1>13, <1>14, <1>15 DEF LoopInv

\* Between pages nothing is pending, and the rest of the loop's invariant says
\* nothing.
LEMMA QuietLoop ==
  ASSUME DeviceInv', Cursor', Quiet', pc' \in {"page", "chunk", "submit"},
         pc' = "chunk" => chunk' = 0
  PROVE  LoopInv'
<1>1. Places("compute")' = {} /\ Places("d2h")' = {}
  BY DEF Quiet, Places
<1>2. \A i \in Places("h2d")' : WorkAt("h2d", i)'.op = "mark"
  BY DEF Quiet, OnlyMarks
<1>3. ~Scanning'
  BY DEF Scanning
<1>4. Launched'
  BY <1>1, <1>2 DEF Launched, Streams
<1>5. LoadsOrdered' /\ FinalsOrdered'
  BY <1>1, <1>2 DEF LoadsOrdered, FinalsOrdered
<1>6. QReady' /\ QFree' /\ KvReady' /\ KvFree'
  BY <1>1, <1>2, <1>3 DEF QReady, QFree, KvReady, KvFree
<1>7. StagesRead'
  BY <1>2 DEF StagesRead
<1>8. AccumulatorExact'
  <2>1. Q("compute")' = <<>>
    BY DEF Quiet
  <2>2. Len(Q("compute"))' - 1 = -1
    BY <2>1
  <2> QED BY <1>3, <2>1, <2>2 DEF AccumulatorExact
<1>9. OutputFree' /\ OutputReady'
  <2>1. Q("compute")' = <<>>
    BY DEF Quiet
  <2> QED BY <1>1, <2>1 DEF OutputFree, OutputReady
<1>10. ChunksStored'
  <2>1. Chunks \subseteq Nat
    BY RunAssumption DEF Chunks
  <2>2. pc' = "chunk" => \A c \in Chunks : ~Closed(c)'
    BY <2>1 DEF Closed
  <2> QED BY <2>2 DEF ChunksStored, Computing
<1> QED
  BY <1>4, <1>5, <1>6, <1>7, <1>8, <1>9, <1>10 DEF LoopInv

-----------------------------------------------------------------------------
(* The start, and the host's steps that leave the device alone. *)

LEMMA InitTriton == Init => TritonInv
<1> SUFFICES ASSUME Init PROVE TritonInv
  OBVIOUS
<1>1. RunInv
  BY InitRun DEF Init
<1>2. /\ device = [queue |-> [s \in Streams |-> <<>>], unreached |-> [e \in Events |-> 0]]
      /\ dq = <<>> /\ acc = <<>> /\ kvTile = 0 /\ qChunk = 0 /\ pc = "page"
      /\ dkv = [b \in KvBuffers |-> <<>>] /\ dout = [o \in DeviceOutputs |-> <<>>]
  BY DEF Init, RunInit, Nothing, Cuda!Device
<1>3. device \in Devices
  <2> DEFINE O == Operations
  <2>1. <<>> \in Seq(O)
    OBVIOUS
  <2> HIDE DEF O
  <2>2. [s \in Streams |-> <<>>] \in [Streams -> Seq(O)]
    BY <2>1
  <2>3. [e \in Events |-> 0] \in [Events -> Nat]
    OBVIOUS
  <2> QED BY <1>2, <2>2, <2>3 DEF Devices, O
<1>4. DeviceTypeOK
  <2>1. <<>> \in Seq(Nat) /\ <<>> \in Values
    BY DEF Values
  <2> QED BY <1>2, <1>3, <2>1 DEF DeviceTypeOK
<1>5. \A s \in Streams : Q(s) = <<>> /\ Places(s) = {} /\ Len(device.queue[s]) = 0
  BY <1>2 DEF Q, Places
<1>6. Counted(device)
  BY <1>5 DEF Counted
<1>7. "h2d" \in Streams /\ "compute" \in Streams /\ "d2h" \in Streams
  BY DEF Streams
<1>8. DeviceInv
  BY <1>4, <1>5, <1>6, <1>7 DEF DeviceInv, OperationsRecord, StreamKinds, StoresIdle
<1>9. Cursor
  BY <1>2, <1>5, <1>7 DEF Cursor, Quiet, OnlyMarks, Computing
<1>10. /\ Launched /\ LoadsOrdered /\ FinalsOrdered /\ QReady /\ QFree /\ KvReady /\ KvFree
       /\ StagesRead /\ OutputFree /\ OutputReady /\ ChunksStored
  BY <1>2, <1>5, <1>7 DEF Launched, LoadsOrdered, FinalsOrdered, QReady, QFree, KvReady, KvFree,
     StagesRead, OutputFree, OutputReady, ChunksStored, Scanning, Computing
<1>11. AccumulatorExact
  <2>1. Q("compute") = <<>> /\ Len(Q("compute")) - 1 = -1
    BY <1>5, <1>7
  <2> QED BY <1>2, <2>1 DEF AccumulatorExact, Scanning
<1> QED
  BY <1>1, <1>8, <1>9, <1>10, <1>11 DEF TritonInv, LoopInv

\* The host takes a step inside the loop over the pages.
Hosting == RunInv /\ DeviceInv /\ LoopInv /\ pc \in Executing

LEMMA BeginPageKeeps ==
  ASSUME Hosting, BeginPage
  PROVE  RunInv' /\ DeviceInv' /\ LoopInv'
<1>1. /\ pc = "page" /\ pc' = "chunk"
      /\ writes' = [writes EXCEPT ![OutSlot] = NoTask]
      /\ qHost' = <<qpage>> /\ chunk' = 0
      /\ UNCHANGED <<qpage, submitted, consumed, queue, loads, stage, out, sink, outcome, deviceVars>>
  BY DEF BeginPage, ReadQ
<1>2. RunInv'
  BY <1>1, BeginPageRun DEF Hosting, BeginPage
<1>3. DeviceInv'
  <2>1. \A o \in OutSlots : writes[o].phase = "none" => writes'[o].phase = "none"
    BY <1>1 DEF Hosting, RunInv, RunTypeOK, NoTask
  <2> QED BY <1>1, <2>1, SameDevice DEF Hosting
<1>4. Quiet'
  <2>1. Quiet /\ device' = device
    BY <1>1 DEF Hosting, LoopInv, Cursor, deviceVars
  <2> QED BY <2>1 DEF Quiet, OnlyMarks, Q, Places, WorkAt
<1>5. Cursor'
  BY <1>1 DEF Cursor, Computing
<1> QED
  BY <1>1, <1>2, <1>3, <1>4, <1>5, QuietLoop

\* The load goes into a stage that no pending copy reads.
LEMMA SubmitKeeps ==
  ASSUME Hosting, Submit
  PROVE  RunInv' /\ DeviceInv' /\ LoopInv'
<1>1. /\ pc = "scan" /\ pc' = "scan"
      /\ loads' = [loads EXCEPT ![StageOf(submitted)] = Task(KvPage(submitted), "queued")]
      /\ UNCHANGED <<qpage, chunk, consumed, writes, qHost, stage, out, sink, outcome, deviceVars>>
      /\ Cuda!Synchronized(device, <<"stage_free", StageOf(submitted)>>)
      /\ SubmitLoad
  BY DEF Submit, SubmitLoad, StageReusable, bufVars
<1>2. RunInv'
  BY <1>1, SubmitLoadRun DEF Hosting
<1>3. DeviceInv'
  <2>1. \A o \in OutSlots : writes[o].phase = "none" => writes'[o].phase = "none"
    BY <1>1
  <2> QED BY <1>1, <2>1, SameDevice DEF Hosting
<1>4. UNCHANGED <<device, kvTile>>
  BY <1>1 DEF deviceVars
<1>5. Cursor'
  BY <1>1, <1>4 DEF Hosting, LoopInv, Cursor, Computing, KvTotal
<1>6. /\ submitted \in Nat /\ device \in Devices /\ Counted(device) /\ "h2d" \in Streams
      /\ StageOf(submitted) \in Stages
      /\ loads \in [Stages -> [page : Nat \cup {-1}, phase : Phases]]
  BY SlotsInRange DEF Hosting, RunInv, RunTypeOK, DeviceInv, DeviceTypeOK, Streams
<1>7. \A j \in Places("h2d") : ~Records("h2d", j, <<"stage_free", StageOf(submitted)>>)
  <2>1. <<"stage_free", StageOf(submitted)>> \in Events
    BY <1>6, EventsExist
  <2> QED BY <1>1, <1>6, <2>1, SynchronizedEvent DEF Places, Records, Q
<1>10. /\ Places("h2d")' = Places("h2d") /\ Q("h2d")' = Q("h2d")
       /\ \A i : WorkAt("h2d", i)' = WorkAt("h2d", i)
       /\ \A i, e : Records("h2d", i, e)' <=> Records("h2d", i, e)
       /\ \A i : KvPage(i)' = KvPage(i)
  BY <1>1, <1>4 DEF Places, Q, WorkAt, Records, KvPage
<1>8. ASSUME NEW m \in Places("h2d")', WorkAt("h2d", m)'.op = "load_kv",
             NEW k, k = PageOfTile(WorkAt("h2d", m)'.index)
      PROVE  /\ stage'[StageOf(k)] = <<KvPage(k)>>
             /\ loads'[StageOf(k)].phase = "none"
             /\ \E j \in m .. Len(Q("h2d"))' : Records("h2d", j, <<"stage_free", StageOf(k)>>)'
  <2>0. /\ m \in Places("h2d") /\ WorkAt("h2d", m).op = "load_kv"
        /\ k = PageOfTile(WorkAt("h2d", m).index)
    BY <1>8, <1>10
  <2>1. /\ stage[StageOf(k)] = <<KvPage(k)>>
        /\ loads[StageOf(k)].phase = "none"
        /\ \E j \in m .. Len(Q("h2d")) : Records("h2d", j, <<"stage_free", StageOf(k)>>)
    BY <1>1, <2>0 DEF Hosting, LoopInv, StagesRead
  <2>2. PICK j \in m .. Len(Q("h2d")) : Records("h2d", j, <<"stage_free", StageOf(k)>>)
    BY <2>1
  <2>3. j \in Places("h2d")
    <3>1. Len(Q("h2d")) \in Nat
      BY <1>6, <2>0, WorksTyped
    <3> QED BY <2>0, <3>1 DEF Places
  <2>4. StageOf(k) # StageOf(submitted)
    BY <1>7, <2>2, <2>3
  <2>5. loads'[StageOf(k)] = loads[StageOf(k)]
    BY <1>1, <1>6, <2>4
  <2> QED BY <1>1, <1>10, <2>1, <2>2, <2>5
<1>9. StagesRead'
  BY <1>1, <1>8, <1>10 DEF StagesRead
<1> QED
  BY <1>1, <1>2, <1>3, <1>5, <1>9, SameLoop DEF Hosting

\* The page taken is the one the scan is at, and its stage is not loaded again
\* before the copies out of it.
LEMMA ConsumeKeeps ==
  ASSUME Hosting, Consume
  PROVE  RunInv' /\ DeviceInv' /\ LoopInv'
<1>1. /\ pc = "scan" /\ pc' = "consume" /\ submitted = WindowEnd
      /\ consumed < KvTotal /\ consumed' = consumed + 1
      /\ loads[StageOf(consumed)].phase = "done"
      /\ loads' = [loads EXCEPT ![StageOf(consumed)] = NoTask]
      /\ UNCHANGED <<qpage, chunk, submitted, queue, writes, qHost, stage, out, sink, outcome, deviceVars>>
      /\ UNCHANGED bufVars
      /\ TakeLoad
  BY DEF Consume, TakeLoad, bufVars
<1>2. RunInv'
  BY <1>1, TakeLoadRun DEF Hosting
<1>3. DeviceInv'
  <2>1. \A o \in OutSlots : writes[o].phase = "none" => writes'[o].phase = "none"
    BY <1>1
  <2> QED BY <1>1, <2>1, SameDevice DEF Hosting
<1>4. UNCHANGED <<device, kvTile>>
  BY <1>1 DEF deviceVars
<1>5. /\ consumed \in Nat /\ KvTotal \in Nat /\ KvTotal' = KvTotal /\ TilesPerPage \in Nat
      /\ submitted \in Nat
      /\ kvTile = consumed * TilesPerPage
  BY <1>1, Basics DEF Hosting, DeviceInv, LoopInv, Cursor, KvTotal
<1>6. Cursor'
  <2>1. (consumed + 1) * TilesPerPage = consumed * TilesPerPage + TilesPerPage
        /\ (consumed + 1) - 1 = consumed /\ consumed * TilesPerPage \in Nat
    BY <1>5
  <2>2. /\ consumed' > 0 /\ (consumed' - 1) * TilesPerPage <= kvTile'
        /\ kvTile' <= consumed' * TilesPerPage /\ consumed' <= KvTotal'
    BY <1>1, <1>4, <1>5, <2>1
  <2> QED BY <1>1, <2>2 DEF Hosting, LoopInv, Cursor, Computing
<1>7. /\ StageOf(consumed) \in Stages
      /\ loads \in [Stages -> [page : Nat \cup {-1}, phase : Phases]]
      /\ \A s \in Stages : loads[s].phase = "none" => loads'[s].phase = "none"
      /\ loads'[StageOf(consumed)].phase = "none"
  <2>1. StageOf(consumed) \in Stages
    BY <1>5, SlotsInRange
  <2> QED BY <1>1, <2>1 DEF Hosting, RunInv, RunTypeOK, NoTask
<1>8. stage[StageOf(consumed)] = <<KvPage(consumed)>>
  <2>1. PICK i \in consumed .. submitted - 1 :
          StageOf(consumed) = StageOf(i) /\ loads[StageOf(consumed)].page = KvPage(i)
    BY <1>1, <1>7 DEF Hosting, RunInv, WindowExact
  <2>2. Depth \in Nat /\ Depth <= NumStages /\ submitted <= consumed + Depth /\ NumStages \in Nat
    BY <1>1, <1>5, SegmentPages, RunAssumption DEF Hosting, RunInv, RunTypeOK, WindowEnd, AtMost
  <2>3. i \in Nat /\ consumed <= i /\ i < consumed + NumStages
    BY <1>5, <2>2
  <2>4. i = consumed
    BY <1>5, <2>1, <2>3, StagesDistinct
  <2> QED BY <1>1, <1>7, <2>1, <2>4 DEF Hosting, RunInv, StagesLoaded
<1>10. /\ Places("h2d")' = Places("h2d") /\ Q("h2d")' = Q("h2d")
       /\ \A i : WorkAt("h2d", i)' = WorkAt("h2d", i)
       /\ \A i, e : Records("h2d", i, e)' <=> Records("h2d", i, e)
       /\ \A i : KvPage(i)' = KvPage(i)
  BY <1>1, <1>4 DEF Places, Q, WorkAt, Records, KvPage
<1>11. consumed' - 1 = consumed
  BY <1>1, <1>5
<1>12. ASSUME NEW m \in Places("h2d")', WorkAt("h2d", m)'.op = "load_kv",
              NEW k, k = PageOfTile(WorkAt("h2d", m)'.index)
       PROVE  /\ stage'[StageOf(k)] = <<KvPage(k)>>
              /\ loads'[StageOf(k)].phase = "none"
              /\ \E j \in m .. Len(Q("h2d"))' : Records("h2d", j, <<"stage_free", StageOf(k)>>)'
  <2>0. /\ m \in Places("h2d") /\ WorkAt("h2d", m).op = "load_kv"
        /\ k = PageOfTile(WorkAt("h2d", m).index)
    BY <1>10, <1>12
  <2>1. /\ stage[StageOf(k)] = <<KvPage(k)>>
        /\ loads[StageOf(k)].phase = "none"
        /\ \E j \in m .. Len(Q("h2d")) : Records("h2d", j, <<"stage_free", StageOf(k)>>)
    BY <1>1, <2>0 DEF Hosting, LoopInv, StagesRead
  <2>2. StageOf(k) \in Stages
    <3>1. device \in Devices /\ "h2d" \in Streams
      BY DEF Hosting, DeviceInv, DeviceTypeOK, Streams
    <3>2. k \in Nat
      BY <2>0, <3>1, WorksTyped, QuotientIsNatural, RunAssumption DEF PageOfTile
    <3> QED BY <3>2, SlotsInRange
  <2> QED BY <1>1, <1>7, <1>10, <2>1, <2>2
<1>9. StagesRead'
  BY <1>1, <1>7, <1>8, <1>10, <1>11, <1>12 DEF StagesRead
<1> QED
  BY <1>1, <1>2, <1>3, <1>6, <1>9, SameLoop DEF Hosting

\* Once the last chunk of the page is in the staging buffer nothing that was
\* launched is pending, and the buffer holds the page's answer.
LEMMA OutputOnHostKeeps ==
  ASSUME Hosting, OutputOnHost
  PROVE  RunInv' /\ DeviceInv' /\ LoopInv'
<1>1. /\ pc = "drain" /\ pc' = "submit"
      /\ Cuda!Synchronized(device, <<"output_host_ready", OutSlot>>)
      /\ UNCHANGED <<qpage, chunk, submitted, consumed, ioVars, bufVars, sink, outcome, deviceVars>>
      /\ UNCHANGED <<qpage, chunk, qHost, out, writes, device>>
  BY DEF OutputOnHost, ioVars, bufVars, deviceVars
<1>2. RunInv'
  BY <1>1, MoveRun DEF Hosting
<1>3. DeviceInv'
  BY <1>1, SameDevice DEF Hosting
<1>4. /\ device \in Devices /\ Counted(device)
      /\ "h2d" \in Streams /\ "compute" \in Streams /\ "d2h" \in Streams
      /\ qpage \in QPages /\ OutSlot \in OutSlots /\ chunk \in Nat
  BY Basics DEF Hosting, DeviceInv, DeviceTypeOK, Streams
<1>5. \A s \in Streams : Len(Q(s)) \in Nat /\ (Len(Q(s)) = 0 => Q(s) = <<>>)
  <2> SUFFICES ASSUME NEW s \in Streams PROVE Len(Q(s)) \in Nat /\ (Len(Q(s)) = 0 => Q(s) = <<>>)
    OBVIOUS
  <2> DEFINE O == Operations
  <2>1. Q(s) \in Seq(O)
    BY <1>4 DEF Devices, Q
  <2> HIDE DEF O
  <2> QED BY <2>1
<1>6. ASSUME NEW m \in Places("d2h") PROVE FALSE
  <2>1. WorkAt("d2h", m).op = "store"
    BY DEF Hosting, DeviceInv, StreamKinds
  <2>2. WorkAt("d2h", m).page = qpage
    BY <1>4, <2>1 DEF Hosting, LoopInv, Launched
  <2>3. <<"output_host_ready", OutSlot>> \in Evidence(WorkAt("d2h", m))
    BY <2>1, <2>2 DEF Evidence, OutSlot
  <2>4. Records("d2h", m, <<"output_host_ready", OutSlot>>)
    BY <1>4, <2>3 DEF Hosting, DeviceInv, OperationsRecord
  <2>5. <<"output_host_ready", OutSlot>> \in Events
    BY <1>4, EventsExist
  <2>6. m \in 1 .. Len(device.queue["d2h"])
    BY DEF Places, Q
  <2> QED BY <1>1, <1>4, <2>4, <2>5, <2>6, SynchronizedEvent DEF Records
<1>7. Q("d2h") = <<>> /\ Places("d2h") = {}
  <2>1. Places("d2h") = {}
    BY <1>6
  <2>2. Len(Q("d2h")) = 0
    BY SMTT(30), <1>4, <1>5, <2>1 DEF Places
  <2> QED BY <1>4, <1>5, <2>1, <2>2
<1>8. Q("compute") = <<>> /\ Places("compute") = {}
  <2>1. \A n \in Places("compute") : ~IsFinalize(n)
    BY <1>7 DEF Hosting, LoopInv, OutputFree
  <2>2. Q("compute") # <<>> => Len(Q("compute")) \in Places("compute")
    BY <1>4, <1>5 DEF Places
  <2>3. Q("compute") = <<>>
    BY <1>1, <2>1, <2>2 DEF Hosting, LoopInv, OutputFree
  <2> QED BY <2>3 DEF Places
<1>9. OnlyMarks
  <2> SUFFICES ASSUME NEW i \in Places("h2d") PROVE WorkAt("h2d", i).op = "mark"
    BY DEF OnlyMarks
  <2>1. WorkAt("h2d", i).op # "load_kv"
    BY <1>8 DEF Hosting, LoopInv, KvFree
  <2>2. WorkAt("h2d", i).op # "load_q"
    BY <1>1, <1>8 DEF Hosting, LoopInv, QFree, Scanning
  <2> QED BY <2>1, <2>2 DEF Hosting, DeviceInv, StreamKinds
<1>10. out[OutSlot] = Answer(qpage)
  <2>1. chunk + 1 = ChunksPerPage /\ ChunksPerPage \in Nat
    BY <1>1, RunAssumption DEF Hosting, LoopInv, Cursor
  <2>2. \A c \in Chunks : Closed(c)
    BY <1>1, <1>4, <2>1 DEF Closed, Chunks
  <2>3. \A c \in Chunks : out[OutSlot][c] = Partial(c, NumTiles)
    BY <1>1, <1>7, <2>2 DEF Hosting, LoopInv, ChunksStored, Computing
  <2>4. \A c \in Chunks : out[OutSlot][c] = Answer(qpage)[c]
    BY <1>4, <2>3, PartialIsAnswer
  <2>5. out[OutSlot] \in [Chunks -> Values]
    BY <1>4 DEF Hosting, RunInv, RunTypeOK
  <2>6. DOMAIN Answer(qpage) = Chunks /\ Answer(qpage) = [c \in Chunks |-> Answer(qpage)[c]]
    BY DEF Answer
  <2> QED BY <2>4, <2>5, <2>6
<1>11. Quiet'
  BY <1>1, <1>7, <1>8, <1>9 DEF Quiet, OnlyMarks, Q, Places, WorkAt
<1>12. Cursor'
  <2>1. chunk + 1 = ChunksPerPage
    BY <1>1 DEF Hosting, LoopInv, Cursor
  <2>2. OutSlot' = OutSlot /\ Answer(qpage)' = Answer(qpage)
    BY <1>1 DEF OutSlot, Answer, TilesOf
  <2> QED BY <1>1, <1>10, <1>11, <2>1, <2>2 DEF Cursor, Computing
<1> QED
  BY <1>1, <1>2, <1>3, <1>11, <1>12, QuietLoop

LEMMA SubmitOutputKeeps ==
  ASSUME Hosting, SubmitOutput, UNCHANGED deviceVars
  PROVE  RunInv' /\ DeviceInv' /\ (pc' \in Executing => LoopInv')
<1>1. /\ pc = "submit" /\ pc' \in {"page", "finish"}
  BY DEF SubmitOutput
<1>2. out[OutSlot] = Answer(qpage) /\ Quiet
  BY <1>1 DEF Hosting, LoopInv, Cursor
<1>3. RunInv'
  BY <1>2, SubmitOutputRun DEF Hosting
<1>4. DeviceInv'
  BY <1>2, SameDevice DEF Hosting, Quiet
<1>5. Quiet'
  BY <1>2 DEF Quiet, OnlyMarks, Q, Places, WorkAt, deviceVars
<1>6. CASE pc' = "page"
  <2>1. Cursor'
    BY <1>5, <1>6 DEF Cursor, Computing
  <2> QED BY <1>3, <1>4, <1>5, <1>6, <2>1, QuietLoop
<1>7. CASE pc' = "finish"
  BY <1>3, <1>4, <1>7 DEF Executing
<1> QED
  BY <1>1, <1>6, <1>7

\* The steps that end the loop.
LEMMA UnwindKeeps ==
  ASSUME RunInv, DeviceInv, pc \in Loop, Unwind, UNCHANGED deviceVars
  PROVE  RunInv' /\ DeviceInv' /\ pc' \notin Executing
<1>1. RunInv'
  BY UnwindRun
<1>2. \A o \in OutSlots : writes[o].phase = "none" => writes'[o].phase = "none"
  BY DEF Unwind
<1> QED
  BY <1>1, <1>2, SameDevice DEF Unwind, Executing

LEMMA EndingKeeps ==
  ASSUME RunInv, DeviceInv, Ending, UNCHANGED deviceVars
  PROVE  RunInv' /\ DeviceInv' /\ pc' \notin Executing
<1>1. CASE AwaitedTaskFailed
  BY <1>1, UnwindKeeps DEF AwaitedTaskFailed, Loop, Executing
<1>2. CASE FinishWrites \/ Publish \/ DropQueue \/ AbortWriter \/ Teardown
  <2>1. RunInv'
    BY EndingRun
  <2>2. \A o \in OutSlots : writes[o].phase = "none" => writes'[o].phase = "none"
    BY <1>2 DEF FinishWrites, Publish, DropQueue, AbortWriter, Teardown, ioVars
  <2>3. pc' \notin Executing
    BY <1>2 DEF FinishWrites, Publish, DropQueue, AbortWriter, Teardown, Executing
  <2> QED BY <2>1, <2>2, <2>3, SameDevice
<1> QED
  BY <1>1, <1>2 DEF Ending

\* The pool changes a stage only while it is loaded, and writes no page that
\* may still be copied to.
LEMMA PoolTouches ==
  ASSUME RunInv, Pool \/ TaskFails
  PROVE  /\ \A s \in Stages : loads[s].phase = "none" =>
              loads'[s].phase = "none" /\ stage'[s] = stage[s]
         /\ \A o \in OutSlots : writes[o].phase = "none" => writes'[o].phase = "none"
         /\ UNCHANGED <<pc, qpage, chunk, submitted, consumed, qHost, out, outcome>>
<1>1. /\ loads \in [Stages -> [page : Nat \cup {-1}, phase : Phases]]
      /\ writes \in [OutSlots -> [page : QPages \cup {-1}, phase : Phases]]
      /\ stage \in [Stages -> Seq(Nat)]
  BY DEF RunInv, RunTypeOK
<1>2. CASE StartTask
  <2> DEFINE task == Head(queue)
  <2>1. task = queue[1] /\ 1 \in 1 .. Len(queue)
    BY <1>2, HeadTask DEF RunInv, StartTask
  <2>2. task.kind = "load" => loads[task.slot].phase = "queued"
    BY <2>1 DEF RunInv, QueueExact
  <2> QED BY <1>1, <1>2, <2>2 DEF StartTask, Phase
<1>3. CASE \E s \in Stages : FinishLoad(s)
  BY <1>1, <1>3 DEF FinishLoad
<1>4. CASE \E o \in OutSlots : FinishWrite(o)
  BY <1>1, <1>4 DEF FinishWrite, bufVars
<1>5. CASE TaskFails
  BY <1>1, <1>5 DEF TaskFails, bufVars
<1> QED
  BY <1>2, <1>3, <1>4, <1>5 DEF Pool

LEMMA PoolKeeps ==
  ASSUME TritonInv, Pool \/ TaskFails, UNCHANGED deviceVars
  PROVE  TritonInv'
<1>1. /\ \A s \in Stages : loads[s].phase = "none" =>
           loads'[s].phase = "none" /\ stage'[s] = stage[s]
      /\ \A o \in OutSlots : writes[o].phase = "none" => writes'[o].phase = "none"
      /\ UNCHANGED <<pc, qpage, chunk, submitted, consumed, qHost, out, outcome>>
  BY PoolTouches DEF TritonInv
<1>2. RunInv'
  BY PoolRun DEF TritonInv
<1>3. DeviceInv'
  BY <1>1, SameDevice DEF TritonInv
<1>4. ASSUME pc \in Executing PROVE LoopInv'
  <2>0. LoopInv /\ DeviceInv /\ RunInv
    BY <1>4 DEF TritonInv
  <2>1. UNCHANGED <<device, kvTile>>
    BY DEF deviceVars
  <2>2. Cursor'
    <3>1. Quiet' <=> Quiet
      BY <2>1 DEF Quiet, OnlyMarks, Q, Places, WorkAt
    <3>2. UNCHANGED <<OutSlot, Answer(qpage), KvTotal>>
      BY <1>1 DEF OutSlot, Answer, TilesOf, KvTotal
    <3> QED BY <1>1, <2>0, <2>1, <3>1, <3>2 DEF LoopInv, Cursor, Computing
  <2>3. /\ Places("h2d")' = Places("h2d") /\ Q("h2d")' = Q("h2d")
        /\ \A i : WorkAt("h2d", i)' = WorkAt("h2d", i)
        /\ \A i, e : Records("h2d", i, e)' <=> Records("h2d", i, e)
        /\ \A i : KvPage(i)' = KvPage(i)
    BY <1>1, <2>1 DEF Places, Q, WorkAt, Records, KvPage
  <2>4. ASSUME NEW m \in Places("h2d")', WorkAt("h2d", m)'.op = "load_kv",
               NEW k, k = PageOfTile(WorkAt("h2d", m)'.index)
        PROVE  /\ stage'[StageOf(k)] = <<KvPage(k)>>
               /\ loads'[StageOf(k)].phase = "none"
               /\ \/ \E j \in m .. Len(Q("h2d"))' : Records("h2d", j, <<"stage_free", StageOf(k)>>)'
                  \/ pc = "consume" /\ k = consumed - 1
    <3>1. /\ m \in Places("h2d") /\ WorkAt("h2d", m).op = "load_kv"
          /\ k = PageOfTile(WorkAt("h2d", m).index)
      BY <2>3, <2>4
    <3>2. /\ stage[StageOf(k)] = <<KvPage(k)>>
          /\ loads[StageOf(k)].phase = "none"
          /\ \/ \E j \in m .. Len(Q("h2d")) : Records("h2d", j, <<"stage_free", StageOf(k)>>)
             \/ pc = "consume" /\ k = consumed - 1
      BY <2>0, <3>1 DEF LoopInv, StagesRead
    <3>3. StageOf(k) \in Stages
      <4>1. device \in Devices /\ "h2d" \in Streams
        BY <2>0 DEF DeviceInv, DeviceTypeOK, Streams
      <4>2. k \in Nat
        BY <3>1, <4>1, WorksTyped, QuotientIsNatural, RunAssumption DEF PageOfTile
      <4> QED BY <4>2, SlotsInRange
    <3> QED BY <1>1, <2>3, <3>2, <3>3
  <2>5. pc = "consume" =>
          /\ stage'[StageOf(consumed - 1)] = <<KvPage(consumed - 1)>>
          /\ loads'[StageOf(consumed - 1)].phase = "none"
    <3> SUFFICES ASSUME pc = "consume"
                 PROVE  /\ stage'[StageOf(consumed - 1)] = <<KvPage(consumed - 1)>>
                        /\ loads'[StageOf(consumed - 1)].phase = "none"
      OBVIOUS
    <3>1. consumed - 1 \in Nat
      BY <2>0, Basics DEF LoopInv, Cursor, DeviceInv
    <3>2. StageOf(consumed - 1) \in Stages
      BY <3>1, SlotsInRange
    <3> QED BY <1>1, <2>0, <3>2 DEF LoopInv, StagesRead
  <2>6. StagesRead'
    BY <1>1, <2>3, <2>4, <2>5 DEF StagesRead
  <2> QED BY <1>1, <2>0, <2>2, <2>6, SameLoop
<1> QED
  BY <1>1, <1>2, <1>3, <1>4 DEF TritonInv

-----------------------------------------------------------------------------
(* The host's launches. *)

\* What one operation more on the H2D stream leaves true whatever it is.
Uploading(N) ==
  /\ HostKeeps
  /\ N \in Nat /\ N \in Places("h2d")' /\ N \notin Places("h2d") /\ N = Len(Q("h2d"))'
  /\ \A i \in Places("h2d")' : i \in Places("h2d") \/ i = N
  /\ Q("compute")' = Q("compute") /\ Q("d2h")' = Q("d2h")
  /\ UNCHANGED <<qpage, chunk, submitted, consumed, queue, loads, writes, qHost, stage, out, sink,
                 outcome, dq, dkv, acc, dout, qChunk>>

LEMMA UploadingPlaces ==
  ASSUME NEW N, Uploading(N)
  PROVE  /\ \A i \in Places("h2d") : i \in Places("h2d")' /\ WorkAt("h2d", i)' = WorkAt("h2d", i)
         /\ Places("compute")' = Places("compute") /\ Places("d2h")' = Places("d2h")
         /\ \A i : WorkAt("compute", i)' = WorkAt("compute", i)
         /\ \A i : WorkAt("d2h", i)' = WorkAt("d2h", i)
         /\ \A i \in Places("compute") : \A e : Records("compute", i, e)' <=> Records("compute", i, e)
         /\ \A i \in Places("h2d") : \A e : Records("h2d", i, e)' <=> Records("h2d", i, e)
         /\ \A i \in Places("h2d"), j \in Places("compute") :
              /\ Waits("h2d", i, "compute", j) => Waits("h2d", i, "compute", j)'
              /\ Waits("compute", j, "h2d", i) => Waits("compute", j, "h2d", i)'
         /\ \A i \in Places("compute"), j \in Places("d2h") :
              /\ Waits("d2h", j, "compute", i) => Waits("d2h", j, "compute", i)'
              /\ Waits("compute", i, "d2h", j) => Waits("compute", i, "d2h", j)'
         /\ NumTiles' = NumTiles /\ OutSlot' = OutSlot
         /\ \A c, n : Partial(c, n)' = Partial(c, n)
         /\ \A i \in Places("h2d")' : i <= N
<1>1. "h2d" \in Streams /\ "compute" \in Streams /\ "d2h" \in Streams
  BY DEF Streams
<1>2. /\ \A t \in Streams : \A i \in Places(t) : i \in Places(t)' /\ WorkAt(t, i)' = WorkAt(t, i)
      /\ \A t \in Streams : \A i \in Places(t) : \A e : Records(t, i, e)' <=> Records(t, i, e)
      /\ \A t, u \in Streams : \A i \in Places(t), j \in Places(u) :
           Waits(t, i, u, j) => Waits(t, i, u, j)'
  BY DEF Uploading, HostKeeps
<1>3. Q("compute")' = Q("compute") /\ Q("d2h")' = Q("d2h") /\ qpage' = qpage
  BY DEF Uploading
<1>4. /\ Places("compute")' = Places("compute") /\ Places("d2h")' = Places("d2h")
      /\ \A i : WorkAt("compute", i)' = WorkAt("compute", i)
      /\ \A i : WorkAt("d2h", i)' = WorkAt("d2h", i)
  BY <1>3 DEF Places, WorkAt
<1>5. /\ NumTiles' = NumTiles /\ OutSlot' = OutSlot
      /\ \A c, n : Partial(c, n)' = Partial(c, n)
  BY <1>3 DEF NumTiles, KvTotal, OutSlot, Partial, TilesOf
<1>6. \A i \in Places("h2d")' : i <= N
  BY DEF Uploading, Places
<1>7. /\ \A i \in Places("compute") : \A e : Records("compute", i, e)' <=> Records("compute", i, e)
      /\ \A i \in Places("h2d") : \A e : Records("h2d", i, e)' <=> Records("h2d", i, e)
  BY <1>1, <1>2
<1>8. /\ \A i \in Places("h2d"), j \in Places("compute") :
           /\ Waits("h2d", i, "compute", j) => Waits("h2d", i, "compute", j)'
           /\ Waits("compute", j, "h2d", i) => Waits("compute", j, "h2d", i)'
      /\ \A i \in Places("compute"), j \in Places("d2h") :
           /\ Waits("d2h", j, "compute", i) => Waits("d2h", j, "compute", i)'
           /\ Waits("compute", i, "d2h", j) => Waits("compute", i, "d2h", j)'
  BY <1>1, <1>2
<1> QED
  BY <1>1, <1>2, <1>4, <1>5, <1>6, <1>7, <1>8

\* What holds of the compute and D2H streams goes on holding.
LEMMA UploadingKeeps ==
  ASSUME Hosting, NEW N, Uploading(N), pc' = "scan",
         \A c : Closed(c)' <=> Closed(c), kvTile' = kvTile \/ kvTile' = 0, Computing
  PROVE  /\ FinalsOrdered'
         /\ Scanning \/ kvTile' = 0 => AccumulatorExact'
         /\ OutputFree'
         /\ OutputReady'
         /\ ChunksStored'
<1>1. /\ Places("compute")' = Places("compute") /\ Places("d2h")' = Places("d2h")
      /\ \A i : WorkAt("compute", i)' = WorkAt("compute", i)
      /\ \A i : WorkAt("d2h", i)' = WorkAt("d2h", i)
      /\ \A i \in Places("compute"), j \in Places("d2h") :
           /\ Waits("d2h", j, "compute", i) => Waits("d2h", j, "compute", i)'
           /\ Waits("compute", i, "d2h", j) => Waits("compute", i, "d2h", j)'
      /\ NumTiles' = NumTiles /\ OutSlot' = OutSlot
      /\ \A c, n : Partial(c, n)' = Partial(c, n)
  BY UploadingPlaces
<1>2. UNCHANGED <<out, acc, dout, chunk>> /\ Q("compute")' = Q("compute")
  BY DEF Uploading
<1>3. /\ FinalsOrdered /\ AccumulatorExact /\ OutputFree /\ OutputReady /\ ChunksStored
  BY DEF Hosting, LoopInv
<1>4. FinalsOrdered'
  BY <1>1, <1>3 DEF FinalsOrdered
<1>5. ASSUME Scanning \/ kvTile' = 0 PROVE AccumulatorExact'
  <2>1. \A w : CountBefore(w)' = CountBefore(w) /\ CountAfter(w)' = CountAfter(w)
    BY <1>1 DEF CountBefore, CountAfter
  <2>2. kvTile' > 0 => Scanning /\ kvTile' = kvTile
    <3>1. ~(0 > 0)
      OBVIOUS
    <3> QED BY <1>5, <3>1
  <2> QED BY <1>1, <1>2, <1>3, <2>1, <2>2 DEF AccumulatorExact
<1>6. OutputFree'
  BY <1>1, <1>3 DEF OutputFree, IsFinalize
<1>7. OutputReady'
  BY <1>1, <1>2, <1>3 DEF OutputReady, IsFinalize
<1>8. ChunksStored'
  BY <1>1, <1>2, <1>3 DEF ChunksStored
<1> QED
  BY <1>4, <1>5, <1>6, <1>7, <1>8

LEMMA BeginChunkIs ==
  ASSUME Hosting, BeginChunk, NEW N, N = Len(Q("h2d")) + 1
  PROVE  /\ Uploading(N)
         /\ pc = "chunk" /\ pc' = "scan" /\ kvTile' = 0
         /\ WorkAt("h2d", N)'.op = "load_q" /\ WorkAt("h2d", N)'.page = qpage
         /\ WorkAt("h2d", N)'.chunk = chunk
         /\ Fresh("h2d", N)
         /\ \A k \in Places("compute") : \A j \in 1 .. k :
              Records("compute", k, <<"q_free">>) => Waits("h2d", N, "compute", j)'
<1> DEFINE W == {<<"q_free">>}
           R == {<<"q_ready">>}
           work == Op("load_q", 0)
<1>1. /\ pc = "chunk" /\ pc' = "scan" /\ kvTile' = 0
      /\ device' = Cuda!Launch(device, "h2d", W, work, R)
      /\ UNCHANGED <<qpage, chunk, submitted, consumed, queue, loads, writes, qHost, stage, out, sink,
                     outcome, dq, dkv, acc, dout, qChunk>>
  BY DEF BeginChunk, ioVars, bufVars
<1>2. W \in SUBSET Events /\ R \in SUBSET Events /\ \A e \in R : RecorderOf(e) = "h2d"
  BY EventsExist DEF RecorderOf
<1>3. work \in Works /\ work.op = "load_q" /\ work.page = qpage /\ work.chunk = chunk
  BY OpIsWork DEF Hosting, DeviceInv
<1>4. DeviceInv
  BY DEF Hosting
<1> HIDE DEF W, R, work
<1>5. /\ HostKeeps
      /\ N \in Nat /\ N \in Places("h2d")' /\ N \notin Places("h2d") /\ N = Len(Q("h2d"))'
      /\ \A i \in Places("h2d")' : i \in Places("h2d") \/ i = N
      /\ Q("compute")' = Q("compute") /\ Q("d2h")' = Q("d2h")
      /\ WorkAt("h2d", N)' = work
      /\ \A e : Records("h2d", N, e)' <=> e \in R
      /\ \A e \in W : \A k \in Places("compute") : \A j \in 1 .. k :
           Records("compute", k, e) => Waits("h2d", N, "compute", j)'
  <2>1. Uploads(N, W, work, R)
    BY <1>1, <1>2, <1>3, <1>4, HostLaunchesOne
  <2> QED BY <2>1 DEF Uploads
<1>6. Uploading(N)
  BY <1>1, <1>5 DEF Uploading
<1>7. Fresh("h2d", N)
  <2>1. Evidence(WorkAt("h2d", N)') = R
    BY <1>3, <1>5 DEF Evidence, R
  <2> QED BY <1>3, <1>5, <2>1 DEF Fresh
<1>8. <<"q_free">> \in W
  BY DEF W
<1> QED
  BY <1>1, <1>3, <1>5, <1>6, <1>7, <1>8

\* A chunk's upload waits for the kernels that read the chunk before it.
LEMMA BeginChunkKeeps ==
  ASSUME Hosting, BeginChunk
  PROVE  RunInv' /\ DeviceInv' /\ LoopInv'
<1>0. PICK N : N = Len(Q("h2d")) + 1
  OBVIOUS
<1>1. /\ pc = "chunk" /\ pc' = "scan" /\ kvTile' = 0
      /\ WorkAt("h2d", N)'.op = "load_q" /\ WorkAt("h2d", N)'.page = qpage
      /\ WorkAt("h2d", N)'.chunk = chunk
      /\ \A k \in Places("compute") : \A j \in 1 .. k :
           Records("compute", k, <<"q_free">>) => Waits("h2d", N, "compute", j)'
  BY <1>0, BeginChunkIs
<1>2. Uploading(N) /\ Fresh("h2d", N)
  BY <1>0, BeginChunkIs
<1>3. /\ \A i \in Places("h2d") : i \in Places("h2d")' /\ WorkAt("h2d", i)' = WorkAt("h2d", i)
      /\ Places("compute")' = Places("compute") /\ Places("d2h")' = Places("d2h")
      /\ \A i : WorkAt("compute", i)' = WorkAt("compute", i)
      /\ \A i : WorkAt("d2h", i)' = WorkAt("d2h", i)
      /\ \A i \in Places("compute") : \A e : Records("compute", i, e)' <=> Records("compute", i, e)
      /\ \A i \in Places("h2d") : \A e : Records("h2d", i, e)' <=> Records("h2d", i, e)
      /\ \A i \in Places("h2d"), j \in Places("compute") :
           /\ Waits("h2d", i, "compute", j) => Waits("h2d", i, "compute", j)'
           /\ Waits("compute", j, "h2d", i) => Waits("compute", j, "h2d", i)'
      /\ NumTiles' = NumTiles /\ OutSlot' = OutSlot
      /\ \A i \in Places("h2d")' : i <= N
  BY <1>2, UploadingPlaces
<1>4. /\ HostKeeps
      /\ N \in Nat /\ N \in Places("h2d")' /\ N \notin Places("h2d") /\ N = Len(Q("h2d"))'
      /\ \A i \in Places("h2d")' : i \in Places("h2d") \/ i = N
      /\ Q("compute")' = Q("compute") /\ Q("d2h")' = Q("d2h")
      /\ UNCHANGED <<qpage, chunk, submitted, consumed, queue, loads, writes, qHost, stage, out, sink,
                     outcome, dq, dkv, acc, dout, qChunk>>
  BY <1>2 DEF Uploading
<1>5. /\ "h2d" \in Streams /\ "compute" \in Streams /\ "d2h" \in Streams
      /\ device \in Devices /\ chunk \in Nat /\ consumed = 0 /\ TilesPerPage \in Nat
      /\ qChunk \in Nat
  BY <1>1, Basics DEF Streams, Hosting, DeviceInv, RunInv, WindowExact
<1>6. \A s \in Streams : \A i \in Places(s) : WorkAt(s, i).chunk \in Nat /\ i \in Nat /\ i >= 1
  BY <1>5, WorksTyped DEF Places
<1>7. /\ Cursor /\ Launched /\ LoadsOrdered /\ QReady /\ QFree /\ KvReady /\ KvFree /\ StagesRead
  BY DEF Hosting, LoopInv
<1>8. (\A c : Closed(c)' <=> Closed(c)) /\ (\A c : Closed(c) <=> c < chunk)
  BY <1>1, <1>4 DEF Closed
<1>9. RunInv'
  <2>1. UNCHANGED <<ioVars, bufVars>>
    BY <1>4 DEF ioVars, bufVars
  <2> QED BY <1>1, <1>4, <2>1, MoveRun DEF Hosting
<1>10. DeviceInv'
  <2>1. \A s \in Streams : \A i \in Places(s)' : i \in Places(s) \/ Fresh(s, i)
    BY <1>2, <1>3, <1>4 DEF Streams
  <2> QED BY <1>1, <1>4, <1>5, <2>1, HostDevice DEF Hosting
\* What is pending is of the chunks before.
<1>11. \A s \in Streams : \A i \in Places(s) :
         s # "h2d" \/ WorkAt(s, i).op # "mark" => WorkAt(s, i).chunk < chunk
  BY <1>1, <1>7 DEF Launched
<1>12. Cursor'
  BY <1>1, <1>4, <1>5, <1>7 DEF Cursor, Computing
<1>13. Launched'
  <2>1. ASSUME NEW s \in Streams, NEW i \in Places(s), s # "h2d" \/ WorkAt(s, i).op # "mark",
               NEW w, w = WorkAt(s, i)
        PROVE  /\ w.page = qpage /\ w.chunk <= chunk /\ w.chunk < chunk
               /\ w.op \in {"load_kv", "update"} => w.index < NumTiles
               /\ w.op \in {"finalize", "store"} => w.index < qChunk /\ Closed(w.chunk)
    BY <1>1, <1>7, <2>1 DEF Launched
  <2>2. ASSUME NEW s \in Streams, NEW i \in Places(s)',
               s # "h2d" \/ WorkAt(s, i)'.op # "mark",
               NEW w, w = WorkAt(s, i)'
        PROVE  /\ w.page = qpage /\ w.chunk <= chunk
               /\ w.op \in {"load_kv", "update"} => w.index < NumTiles /\ w.chunk # chunk
               /\ w.op \in {"finalize", "store"} => w.index < qChunk /\ Closed(w.chunk)
    <3>1. CASE i \in Places(s)
      <4>1. WorkAt(s, i)' = WorkAt(s, i)
        BY <1>3, <3>1 DEF Streams
      <4>2. w.chunk \in Nat
        BY <1>6, <2>2, <3>1, <4>1
      <4> QED BY <1>5, <2>1, <2>2, <3>1, <4>1, <4>2
    <3>2. CASE s = "h2d" /\ i = N
      BY <1>1, <1>5, <2>2, <3>2
    <3> QED BY <1>3, <1>4, <2>2, <3>1, <3>2 DEF Streams
  <2> QED BY <1>1, <1>3, <1>4, <1>8, <2>2 DEF Launched
<1>14. LoadsOrdered'
  <2>1. ASSUME NEW i \in Places("h2d")', NEW j \in Places("h2d")', i < j
        PROVE  i \in Places("h2d") /\ (j \in Places("h2d") \/ j = N)
    <3>1. i # N
      BY <1>3, <1>4, <1>6, <2>1 DEF Places
    <3> QED BY <1>4, <3>1
  <2>2. \A i \in Places("h2d") : WorkAt("h2d", i).op = "load_q" => WorkAt("h2d", i).chunk < chunk
    BY <1>5, <1>11
  <2> QED BY <1>1, <1>3, <1>7, <2>1, <2>2 DEF LoadsOrdered, Before
<1>15. QReady'
  <2>1. \A n \in Places("compute") : IsUpdate(n) => WorkAt("compute", n).chunk < chunk
    BY <1>5, <1>11
  <2>2. ASSUME NEW n \in Places("compute")', IsUpdate(n)', NEW c, c = WorkAt("compute", n)'.chunk
        PROVE  \/ \E m \in Places("h2d")' : IsLoadQ(m, c)' /\ Waits("compute", n, "h2d", m)'
               \/ /\ dq' = <<qpage, c>>
                  /\ \A m \in Places("h2d")' :
                       WorkAt("h2d", m)'.op = "load_q" => WorkAt("h2d", m)'.chunk > c
    <3>1. n \in Places("compute") /\ IsUpdate(n) /\ c = WorkAt("compute", n).chunk
      BY <1>3, <2>2 DEF IsUpdate
    <3>2. c < chunk /\ c \in Nat
      BY <1>5, <1>6, <2>1, <3>1
    <3>3. chunk > c
      BY <1>5, <3>2
    <3>4. CASE \E m \in Places("h2d") : IsLoadQ(m, c) /\ Waits("compute", n, "h2d", m)
      BY <1>3, <3>1, <3>4 DEF IsLoadQ
    <3>5. CASE /\ dq = <<qpage, c>>
               /\ \A m \in Places("h2d") :
                    WorkAt("h2d", m).op = "load_q" => WorkAt("h2d", m).chunk > c
      BY <1>1, <1>3, <1>4, <3>3, <3>5
    <3> QED BY <1>7, <3>1, <3>4, <3>5 DEF QReady
  <2>3. IsLoadQ(N, chunk)'
    BY <1>1, <1>4 DEF IsLoadQ
  <2> QED BY <1>4, <2>2, <2>3 DEF QReady, IsLoadQ
<1>16. QFree'
  <2>1. ASSUME NEW m \in Places("h2d")', NEW n \in Places("compute")',
               WorkAt("h2d", m)'.op = "load_q", IsUpdate(n)',
               WorkAt("compute", n)'.chunk < WorkAt("h2d", m)'.chunk
        PROVE  Waits("h2d", m, "compute", n)'
    <3>1. CASE m \in Places("h2d")
      BY <1>3, <1>7, <2>1, <3>1 DEF QFree, IsUpdate
    <3>2. CASE m = N
      <4>1. n \in Places("compute") /\ IsUpdate(n) /\ Closed(WorkAt("compute", n).chunk)
        BY <1>1, <1>3, <1>8, <2>1, <3>2 DEF IsUpdate
      <4>2. PICK k \in n .. Len(Q("compute")) : Records("compute", k, <<"q_free">>)
        BY <1>7, <4>1 DEF QFree
      <4>3. Len(Q("compute")) \in Nat /\ n \in Nat /\ n >= 1
        BY <1>5, <1>6, <4>1, WorksTyped
      <4>4. k \in Places("compute") /\ n \in 1 .. k
        BY <4>2, <4>3 DEF Places
      <4> QED BY <1>1, <3>2, <4>2, <4>4
    <3> QED BY <1>4, <2>1, <3>1, <3>2
  <2>2. ASSUME NEW n \in Places("compute")', IsUpdate(n)', Closed(WorkAt("compute", n).chunk)'
        PROVE  \E k \in n .. Len(Q("compute"))' : Records("compute", k, <<"q_free">>)'
    <3>1. n \in Places("compute") /\ IsUpdate(n) /\ Closed(WorkAt("compute", n).chunk)
      BY <1>3, <1>4, <1>1, <2>2 DEF IsUpdate, Closed
    <3>2. PICK k \in n .. Len(Q("compute")) : Records("compute", k, <<"q_free">>)
      BY <1>7, <3>1 DEF QFree
    <3>3. k \in Places("compute")
      <4>1. Len(Q("compute")) \in Nat /\ n \in Nat /\ n >= 1
        BY <1>5, <1>6, <3>1, WorksTyped
      <4> QED BY <4>1 DEF Places
    <3> QED BY <1>3, <1>4, <3>2, <3>3
  <2>3. ASSUME NEW m \in Places("h2d")', WorkAt("h2d", m)'.op = "load_q",
               NEW c, c = WorkAt("h2d", m)'.chunk
        PROVE  \/ \E n \in Places("compute")' : IsUpdate(n)' /\ WorkAt("compute", n)'.chunk = c
               \/ c = chunk
    <3>1. CASE m \in Places("h2d")
      <4>1. WorkAt("h2d", m).op = "load_q" /\ c = WorkAt("h2d", m).chunk /\ ~Scanning
        BY <1>1, <1>3, <2>3, <3>1 DEF Scanning
      <4> QED BY <1>3, <1>7, <3>1, <4>1 DEF QFree, IsUpdate
    <3>2. CASE m = N
      BY <1>1, <2>3, <3>2
    <3> QED BY <1>4, <2>3, <3>1, <3>2
  <2>4. Scanning' /\ kvTile' = 0 /\ chunk' = chunk
    BY <1>1, <1>4 DEF Scanning
  <2> QED BY <2>1, <2>2, <2>3, <2>4 DEF QFree
<1>17. KvReady'
  <2>1. TilesOf(qpage)' = TilesOf(qpage)
    BY <1>4 DEF TilesOf
  <2>2. ASSUME NEW n \in Places("compute")', IsUpdate(n)', NEW w, w = WorkAt("compute", n)'
        PROVE  \/ \E m \in Places("h2d")' :
                    IsLoadKv(m, w.chunk, w.index)' /\ Waits("compute", n, "h2d", m)'
               \/ /\ dkv'[KvBuffer(w.index)] = TilesOf(qpage)[w.index + 1]
                  /\ \A m \in Places("h2d")' :
                       WorkAt("h2d", m)'.op = "load_kv" => Before(w, WorkAt("h2d", m)')
    <3>1. n \in Places("compute") /\ IsUpdate(n) /\ w = WorkAt("compute", n)
      BY <1>3, <2>2 DEF IsUpdate
    <3>2. CASE \E m \in Places("h2d") :
                 IsLoadKv(m, w.chunk, w.index) /\ Waits("compute", n, "h2d", m)
      BY <1>3, <3>1, <3>2 DEF IsLoadKv
    <3>3. CASE /\ dkv[KvBuffer(w.index)] = TilesOf(qpage)[w.index + 1]
               /\ \A m \in Places("h2d") :
                    WorkAt("h2d", m).op = "load_kv" => Before(w, WorkAt("h2d", m))
      BY <1>1, <1>3, <1>4, <3>3
    <3> QED BY <1>7, <3>1, <3>2, <3>3 DEF KvReady
  <2> QED BY <2>1, <2>2 DEF KvReady, IsLoadKv, Before
<1>18. KvFree'
  BY ZenonT(40), <1>1, <1>3, <1>4, <1>7 DEF KvFree, IsUpdate, Before
<1>19. StagesRead'
  <2>1. \A i : KvPage(i)' = KvPage(i)
    BY <1>4 DEF KvPage
  <2>2. ASSUME NEW m \in Places("h2d")', WorkAt("h2d", m)'.op = "load_kv",
               NEW k, k = PageOfTile(WorkAt("h2d", m)'.index)
        PROVE  /\ stage[StageOf(k)] = <<KvPage(k)>>
               /\ loads[StageOf(k)].phase = "none"
               /\ \E j \in m .. Len(Q("h2d"))' : Records("h2d", j, <<"stage_free", StageOf(k)>>)'
    <3>1. m \in Places("h2d") /\ WorkAt("h2d", m).op = "load_kv"
          /\ k = PageOfTile(WorkAt("h2d", m).index)
      BY <1>1, <1>3, <1>4, <2>2
    <3>2. /\ stage[StageOf(k)] = <<KvPage(k)>>
          /\ loads[StageOf(k)].phase = "none"
          /\ \E j \in m .. Len(Q("h2d")) : Records("h2d", j, <<"stage_free", StageOf(k)>>)
      BY <1>1, <1>7, <3>1 DEF StagesRead
    <3>3. PICK j \in m .. Len(Q("h2d")) : Records("h2d", j, <<"stage_free", StageOf(k)>>)
      BY <3>2
    <3>4. j \in Places("h2d") /\ j \in m .. Len(Q("h2d"))'
      <4>1. Len(Q("h2d")) \in Nat /\ m \in Nat /\ m >= 1
        BY <1>5, <1>6, <3>1, WorksTyped
      <4>2. j \in Places("h2d")
        BY <4>1 DEF Places
      <4>3. j <= N
        BY <1>3, <4>2
      <4> QED BY <1>4, <4>1, <4>2, <4>3
    <3> QED BY <1>3, <3>2, <3>3, <3>4
  <2> QED BY <1>1, <1>4, <2>1, <2>2 DEF StagesRead
<1>20. FinalsOrdered' /\ AccumulatorExact' /\ OutputFree' /\ OutputReady' /\ ChunksStored'
  <2>1. Computing
    BY <1>1 DEF Computing
  <2> QED BY <1>1, <1>2, <1>8, <2>1, UploadingKeeps
<1> QED
  BY <1>9, <1>10, <1>12, <1>13, <1>14, <1>15, <1>16, <1>17, <1>18, <1>19, <1>20 DEF LoopInv

LEMMA ReleaseStageIs ==
  ASSUME Hosting, ReleaseStage, NEW N, N = Len(Q("h2d")) + 1
  PROVE  /\ Uploading(N)
         /\ pc = "consume" /\ pc' = "scan" /\ kvTile' = kvTile
         /\ kvTile = consumed * TilesPerPage
         /\ WorkAt("h2d", N)'.op = "mark"
         /\ Fresh("h2d", N)
         /\ Records("h2d", N, <<"stage_free", StageOf(consumed - 1)>>)'
<1> DEFINE R == {<<"stage_free", StageOf(consumed - 1)>>}
           W == {}
           work == Op("mark", 0)
<1>1. /\ pc = "consume" /\ pc' = "scan" /\ kvTile' = kvTile
      /\ kvTile = consumed * TilesPerPage
      /\ device' = Cuda!Launch(device, "h2d", W, work, R)
      /\ UNCHANGED <<qpage, chunk, submitted, consumed, queue, loads, writes, qHost, stage, out, sink,
                     outcome, dq, dkv, acc, dout, qChunk>>
  BY DEF ReleaseStage, ioVars, bufVars
<1>2. W \in SUBSET Events /\ R \in SUBSET Events /\ \A e \in R : RecorderOf(e) = "h2d"
  <2>1. consumed - 1 \in Nat
    BY <1>1, Basics DEF Hosting, DeviceInv, LoopInv, Cursor
  <2>2. <<"stage_free", StageOf(consumed - 1)>> \in Events
    BY <2>1, SlotsInRange, EventsExist
  <2> QED BY <2>2 DEF RecorderOf
<1>3. work \in Works /\ work.op = "mark"
  BY OpIsWork DEF Hosting, DeviceInv
<1>4. DeviceInv
  BY DEF Hosting
<1>9. <<"stage_free", StageOf(consumed - 1)>> \in R
  OBVIOUS
<1> HIDE DEF W, R, work
<1>5. /\ HostKeeps
      /\ N \in Nat /\ N \in Places("h2d")' /\ N \notin Places("h2d") /\ N = Len(Q("h2d"))'
      /\ \A i \in Places("h2d")' : i \in Places("h2d") \/ i = N
      /\ Q("compute")' = Q("compute") /\ Q("d2h")' = Q("d2h")
      /\ WorkAt("h2d", N)' = work
      /\ \A e : Records("h2d", N, e)' <=> e \in R
  <2>1. Uploads(N, W, work, R)
    BY <1>1, <1>2, <1>3, <1>4, HostLaunchesOne
  <2> QED BY <2>1 DEF Uploads
<1>6. Uploading(N)
  BY <1>1, <1>5 DEF Uploading
<1>7. Fresh("h2d", N)
  <2>1. Evidence(WorkAt("h2d", N)') = {}
    BY <1>3, <1>5 DEF Evidence
  <2> QED BY <1>3, <1>5, <2>1 DEF Fresh
<1> QED
  BY <1>1, <1>3, <1>5, <1>6, <1>7, <1>9

\* The mark behind the page's copies is what its stage is released by.
LEMMA ReleaseStageKeeps ==
  ASSUME Hosting, ReleaseStage
  PROVE  RunInv' /\ DeviceInv' /\ LoopInv'
<1>0. PICK N : N = Len(Q("h2d")) + 1
  OBVIOUS
<1>1. /\ pc = "consume" /\ pc' = "scan" /\ kvTile' = kvTile
      /\ kvTile = consumed * TilesPerPage
      /\ WorkAt("h2d", N)'.op = "mark"
      /\ Records("h2d", N, <<"stage_free", StageOf(consumed - 1)>>)'
  BY <1>0, ReleaseStageIs
<1>2. Uploading(N) /\ Fresh("h2d", N)
  BY <1>0, ReleaseStageIs
<1>3. /\ \A i \in Places("h2d") : i \in Places("h2d")' /\ WorkAt("h2d", i)' = WorkAt("h2d", i)
      /\ Places("compute")' = Places("compute") /\ Places("d2h")' = Places("d2h")
      /\ \A i : WorkAt("compute", i)' = WorkAt("compute", i)
      /\ \A i : WorkAt("d2h", i)' = WorkAt("d2h", i)
      /\ \A i \in Places("compute") : \A e : Records("compute", i, e)' <=> Records("compute", i, e)
      /\ \A i \in Places("h2d") : \A e : Records("h2d", i, e)' <=> Records("h2d", i, e)
      /\ \A i \in Places("h2d"), j \in Places("compute") :
           /\ Waits("h2d", i, "compute", j) => Waits("h2d", i, "compute", j)'
           /\ Waits("compute", j, "h2d", i) => Waits("compute", j, "h2d", i)'
      /\ NumTiles' = NumTiles /\ OutSlot' = OutSlot
      /\ \A i \in Places("h2d")' : i <= N
  BY <1>2, UploadingPlaces
<1>4. /\ HostKeeps
      /\ N \in Nat /\ N \in Places("h2d")' /\ N \notin Places("h2d") /\ N = Len(Q("h2d"))'
      /\ \A i \in Places("h2d")' : i \in Places("h2d") \/ i = N
      /\ Q("compute")' = Q("compute") /\ Q("d2h")' = Q("d2h")
      /\ UNCHANGED <<qpage, chunk, submitted, consumed, queue, loads, writes, qHost, stage, out, sink,
                     outcome, dq, dkv, acc, dout, qChunk>>
  BY <1>2 DEF Uploading
<1>5. /\ "h2d" \in Streams /\ "compute" \in Streams /\ "d2h" \in Streams
      /\ device \in Devices /\ kvTile \in Nat /\ qChunk \in Nat
  BY Basics DEF Streams, Hosting, DeviceInv
<1>6. \A s \in Streams : \A i \in Places(s) : i \in Nat /\ i >= 1 /\ Len(Q(s)) \in Nat
  BY <1>5, WorksTyped DEF Places
<1>7. /\ Cursor /\ Launched /\ LoadsOrdered /\ QReady /\ QFree /\ KvReady /\ KvFree /\ StagesRead
  BY DEF Hosting, LoopInv
<1>8. (\A c : Closed(c)' <=> Closed(c)) /\ Scanning /\ Scanning'
  BY <1>1, <1>4 DEF Closed, Scanning
<1>9. RunInv'
  <2>1. UNCHANGED <<ioVars, bufVars>>
    BY <1>4 DEF ioVars, bufVars
  <2> QED BY <1>1, <1>4, <2>1, MoveRun DEF Hosting
<1>10. DeviceInv'
  <2>1. \A s \in Streams : \A i \in Places(s)' : i \in Places(s) \/ Fresh(s, i)
    BY <1>2, <1>3, <1>4 DEF Streams
  <2> QED BY <1>1, <1>4, <1>5, <2>1, HostDevice DEF Hosting
<1>12. Cursor'
  BY <1>1, <1>4, <1>7 DEF Cursor, Computing
<1>13. Launched'
  <2>1. ASSUME NEW s \in Streams, NEW i \in Places(s)', s # "h2d" \/ WorkAt(s, i)'.op # "mark"
        PROVE  i \in Places(s) /\ WorkAt(s, i)' = WorkAt(s, i)
    BY <1>1, <1>3, <1>4, <2>1 DEF Streams
  <2> QED BY <1>1, <1>3, <1>4, <1>7, <1>8, <2>1 DEF Launched
<1>14. LoadsOrdered'
  BY <1>1, <1>3, <1>4, <1>7 DEF LoadsOrdered, Before
<1>15. QReady'
  <2>2. ASSUME NEW n \in Places("compute")', IsUpdate(n)', NEW c, c = WorkAt("compute", n)'.chunk
        PROVE  \/ \E m \in Places("h2d")' : IsLoadQ(m, c)' /\ Waits("compute", n, "h2d", m)'
               \/ /\ dq' = <<qpage, c>>
                  /\ \A m \in Places("h2d")' :
                       WorkAt("h2d", m)'.op = "load_q" => WorkAt("h2d", m)'.chunk > c
    <3>1. n \in Places("compute") /\ IsUpdate(n) /\ c = WorkAt("compute", n).chunk
      BY <1>3, <2>2 DEF IsUpdate
    <3>4. CASE \E m \in Places("h2d") : IsLoadQ(m, c) /\ Waits("compute", n, "h2d", m)
      BY <1>3, <3>1, <3>4 DEF IsLoadQ
    <3>5. CASE /\ dq = <<qpage, c>>
               /\ \A m \in Places("h2d") :
                    WorkAt("h2d", m).op = "load_q" => WorkAt("h2d", m).chunk > c
      BY <1>1, <1>3, <1>4, <3>5
    <3> QED BY <1>7, <3>1, <3>4, <3>5 DEF QReady
  <2>3. \/ \E m \in Places("h2d")' : IsLoadQ(m, chunk)'
        \/ dq' = <<qpage, chunk>> /\ \A m \in Places("h2d")' : WorkAt("h2d", m)'.op # "load_q"
    <3>1. CASE \E m \in Places("h2d") : IsLoadQ(m, chunk)
      BY <1>3, <1>4, <3>1 DEF IsLoadQ
    <3>2. CASE dq = <<qpage, chunk>> /\ \A m \in Places("h2d") : WorkAt("h2d", m).op # "load_q"
      BY <1>1, <1>3, <1>4, <3>2
    <3> QED BY <1>7, <1>8, <3>1, <3>2 DEF QReady
  <2> QED BY <1>4, <2>2, <2>3 DEF QReady, IsLoadQ
<1>16. QFree'
  <2>1. ASSUME NEW m \in Places("h2d")', WorkAt("h2d", m)'.op = "load_q"
        PROVE  m \in Places("h2d") /\ WorkAt("h2d", m)' = WorkAt("h2d", m)
    BY <1>1, <1>3, <1>4, <2>1
  <2>2. ASSUME NEW n \in Places("compute")', IsUpdate(n)', Closed(WorkAt("compute", n).chunk)'
        PROVE  \E k \in n .. Len(Q("compute"))' : Records("compute", k, <<"q_free">>)'
    <3>1. n \in Places("compute") /\ IsUpdate(n) /\ Closed(WorkAt("compute", n).chunk)
      BY <1>3, <1>4, <1>1, <2>2 DEF IsUpdate, Closed
    <3>2. PICK k \in n .. Len(Q("compute")) : Records("compute", k, <<"q_free">>)
      BY <1>7, <3>1 DEF QFree
    <3>3. k \in Places("compute")
      BY <1>5, <1>6, <3>1 DEF Places
    <3> QED BY <1>3, <1>4, <3>2, <3>3
  <2>3. ASSUME NEW m \in Places("h2d")', WorkAt("h2d", m)'.op = "load_q",
               NEW c, c = WorkAt("h2d", m)'.chunk
        PROVE  \/ \E n \in Places("compute")' : IsUpdate(n)' /\ WorkAt("compute", n)'.chunk = c
               \/ c = chunk /\ kvTile' = 0
    BY <1>1, <1>3, <1>7, <2>1, <2>3 DEF QFree, IsUpdate
  <2>4. ASSUME NEW m \in Places("h2d")', NEW n \in Places("compute")',
               WorkAt("h2d", m)'.op = "load_q", IsUpdate(n)',
               WorkAt("compute", n)'.chunk < WorkAt("h2d", m)'.chunk
        PROVE  Waits("h2d", m, "compute", n)'
    BY <1>3, <1>7, <2>1, <2>4 DEF QFree, IsUpdate
  <2> QED BY <1>4, <1>8, <2>2, <2>3, <2>4 DEF QFree
<1>17. KvReady'
  <2>1. TilesOf(qpage)' = TilesOf(qpage)
    BY <1>4 DEF TilesOf
  <2>2. ASSUME NEW n \in Places("compute")', IsUpdate(n)', NEW w, w = WorkAt("compute", n)'
        PROVE  \/ \E m \in Places("h2d")' :
                    IsLoadKv(m, w.chunk, w.index)' /\ Waits("compute", n, "h2d", m)'
               \/ /\ dkv'[KvBuffer(w.index)] = TilesOf(qpage)[w.index + 1]
                  /\ \A m \in Places("h2d")' :
                       WorkAt("h2d", m)'.op = "load_kv" => Before(w, WorkAt("h2d", m)')
    <3>1. n \in Places("compute") /\ IsUpdate(n) /\ w = WorkAt("compute", n)
      BY <1>3, <2>2 DEF IsUpdate
    <3>2. CASE \E m \in Places("h2d") :
                 IsLoadKv(m, w.chunk, w.index) /\ Waits("compute", n, "h2d", m)
      BY <1>3, <3>1, <3>2 DEF IsLoadKv
    <3>3. CASE /\ dkv[KvBuffer(w.index)] = TilesOf(qpage)[w.index + 1]
               /\ \A m \in Places("h2d") :
                    WorkAt("h2d", m).op = "load_kv" => Before(w, WorkAt("h2d", m))
      BY <1>1, <1>3, <1>4, <3>3
    <3> QED BY <1>7, <3>1, <3>2, <3>3 DEF KvReady
  <2> QED BY <2>1, <2>2 DEF KvReady, IsLoadKv, Before
<1>18. KvFree'
  BY ZenonT(40), <1>1, <1>3, <1>4, <1>7 DEF KvFree, IsUpdate, Before
<1>19. StagesRead'
  <2>1. \A i : KvPage(i)' = KvPage(i)
    BY <1>4 DEF KvPage
  <2>2. ASSUME NEW m \in Places("h2d")', WorkAt("h2d", m)'.op = "load_kv",
               NEW k, k = PageOfTile(WorkAt("h2d", m)'.index)
        PROVE  /\ stage[StageOf(k)] = <<KvPage(k)>>
               /\ loads[StageOf(k)].phase = "none"
               /\ \E j \in m .. Len(Q("h2d"))' : Records("h2d", j, <<"stage_free", StageOf(k)>>)'
    <3>1. m \in Places("h2d") /\ WorkAt("h2d", m).op = "load_kv"
          /\ k = PageOfTile(WorkAt("h2d", m).index)
      BY <1>1, <1>3, <1>4, <2>2
    <3>2. /\ stage[StageOf(k)] = <<KvPage(k)>>
          /\ loads[StageOf(k)].phase = "none"
          /\ \/ \E j \in m .. Len(Q("h2d")) : Records("h2d", j, <<"stage_free", StageOf(k)>>)
             \/ k = consumed - 1
      BY <1>7, <3>1 DEF StagesRead
    <3>3. CASE k = consumed - 1
      <4>1. N \in m .. Len(Q("h2d"))'
        BY <1>3, <1>4, <1>6, <3>1 DEF Places
      <4> QED BY <1>1, <1>4, <3>2, <3>3, <4>1
    <3>4. CASE \E j \in m .. Len(Q("h2d")) : Records("h2d", j, <<"stage_free", StageOf(k)>>)
      <4>1. PICK j \in m .. Len(Q("h2d")) : Records("h2d", j, <<"stage_free", StageOf(k)>>)
        BY <3>4
      <4>2. j \in Places("h2d")
        BY <1>5, <1>6, <3>1 DEF Places
      <4>3. j <= N
        BY <1>3, <4>2
      <4>4. j \in m .. Len(Q("h2d"))'
        BY <1>4, <1>5, <1>6, <3>1, <4>2, <4>3
      <4> QED BY <1>3, <3>2, <4>1, <4>2, <4>4
    <3> QED BY <3>2, <3>3, <3>4
  <2> QED BY <1>1, <1>4, <2>1, <2>2 DEF StagesRead
<1>20. FinalsOrdered' /\ AccumulatorExact' /\ OutputFree' /\ OutputReady' /\ ChunksStored'
  <2>1. Computing
    BY <1>1 DEF Computing
  <2> QED BY <1>1, <1>2, <1>8, <2>1, UploadingKeeps
<1> QED
  BY <1>9, <1>10, <1>12, <1>13, <1>14, <1>15, <1>16, <1>17, <1>18, <1>19, <1>20 DEF LoopInv

LEMMA ExtendedTwice ==
  ASSUME NEW dev, NEW mid, NEW d, Extended(dev, mid), Extended(mid, d)
  PROVE  Extended(dev, d)
<1>1. /\ \A t \in Streams : Len(dev.queue[t]) \in Nat /\ Len(mid.queue[t]) \in Nat
                            /\ Len(d.queue[t]) \in Nat
      /\ \A t \in Streams : Len(dev.queue[t]) <= Len(mid.queue[t])
      /\ \A t \in Streams : Len(mid.queue[t]) <= Len(d.queue[t])
      /\ \A t \in Streams : \A i \in 1 .. Len(dev.queue[t]) : mid.queue[t][i] = dev.queue[t][i]
      /\ \A t \in Streams : \A i \in 1 .. Len(mid.queue[t]) : d.queue[t][i] = mid.queue[t][i]
  BY DEF Extended
<1>2. ASSUME NEW t \in Streams
      PROVE  /\ Len(dev.queue[t]) <= Len(d.queue[t])
             /\ \A i \in 1 .. Len(dev.queue[t]) : i \in 1 .. Len(mid.queue[t])
  BY SMTT(30), <1>1
<1> QED
  BY <1>1, <1>2 DEF Extended

\* The upload of a tile is at place N of its stream, the kernel that reads it at
\* place M of its own.
Tiling(N, M, b, tile) ==
  /\ HostKeeps
  /\ N \in Nat /\ N \in Places("h2d")' /\ N \notin Places("h2d") /\ N = Len(Q("h2d"))'
  /\ \A i \in Places("h2d")' : i \in Places("h2d") \/ i = N
  /\ M \in Nat /\ M \in Places("compute")' /\ M \notin Places("compute") /\ M = Len(Q("compute"))'
  /\ M = Len(Q("compute")) + 1
  /\ \A i \in Places("compute")' : i \in Places("compute") \/ i = M
  /\ Q("d2h")' = Q("d2h")
  /\ WorkAt("h2d", N)' = Op("load_kv", tile)
  /\ WorkAt("compute", M)' = Op("update", tile)
  /\ Records("h2d", N, <<"kv_ready", b>>)'
  /\ Records("compute", M, <<"kv_free", b>>)'
  /\ \A k \in Places("compute") : \A j \in 1 .. k :
       Records("compute", k, <<"kv_free", b>>) => Waits("h2d", N, "compute", j)'
  /\ \A k \in Places("h2d") : \A j \in 1 .. k :
       Records("h2d", k, <<"q_ready">>) => Waits("compute", M, "h2d", j)'
  /\ Waits("compute", M, "h2d", N)'

\* The launches of a tile, on the device.
Tiled(dev, d, N, M, b, upload, update) ==
  /\ d \in Devices /\ Counted(d) /\ Extended(dev, d)
  /\ Len(dev.queue["h2d"]) \in Nat /\ Len(dev.queue["compute"]) \in Nat
  /\ Len(d.queue["h2d"]) = N /\ Len(d.queue["compute"]) = M
  /\ d.queue["d2h"] = dev.queue["d2h"]
  /\ d.queue["h2d"][N].work = upload
  /\ d.queue["compute"][M].work = update
  /\ RecordsIn(d, "h2d", N, <<"kv_ready", b>>)
  /\ RecordsIn(d, "compute", M, <<"kv_free", b>>)
  /\ \A k \in 1 .. Len(dev.queue["compute"]) : \A j \in 1 .. k :
       RecordsIn(dev, "compute", k, <<"kv_free", b>>)
         => WaitsIn(d, "h2d", N, "compute", j)
  /\ \A k \in 1 .. Len(dev.queue["h2d"]) : \A j \in 1 .. k :
       RecordsIn(dev, "h2d", k, <<"q_ready">>) => WaitsIn(d, "compute", M, "h2d", j)
  /\ WaitsIn(d, "compute", M, "h2d", N)

LEMMA HostLaunchesTile ==
  ASSUME DeviceInv, NEW b \in KvBuffers, NEW upload \in Works, NEW update \in Works,
         NEW mid, mid = Cuda!Launch(device, "h2d", {<<"kv_free", b>>}, upload, {<<"kv_ready", b>>}),
         NEW d, d = Cuda!Launch(mid, "compute", {<<"q_ready">>, <<"kv_ready", b>>}, update,
                                {<<"kv_free", b>>}),
         NEW N, N = Len(device.queue["h2d"]) + 1,
         NEW M, M = Len(device.queue["compute"]) + 1
  PROVE  Tiled(device, d, N, M, b, upload, update)
<1> DEFINE kvFree == {<<"kv_free", b>>}
           kvReady == {<<"kv_ready", b>>}
           ready == {<<"q_ready">>, <<"kv_ready", b>>}
<1>1. device \in Devices /\ Counted(device) /\ "h2d" \in Streams /\ "compute" \in Streams
      /\ "d2h" \in Streams
  BY DEF DeviceInv, DeviceTypeOK, Streams
<1>2. /\ kvFree \in SUBSET Events /\ kvReady \in SUBSET Events /\ ready \in SUBSET Events
      /\ \A e \in kvReady : RecorderOf(e) = "h2d"
      /\ \A e \in kvFree : RecorderOf(e) = "compute"
  BY EventsExist DEF RecorderOf
<1>3. /\ mid = Cuda!Launch(device, "h2d", kvFree, upload, kvReady)
      /\ d = Cuda!Launch(mid, "compute", ready, update, kvFree)
  OBVIOUS
<1>4. /\ <<"kv_free", b>> \in kvFree /\ <<"kv_ready", b>> \in kvReady
      /\ <<"kv_ready", b>> \in ready /\ <<"q_ready">> \in ready
  OBVIOUS
<1> HIDE DEF kvFree, kvReady, ready
<1>5. Behind(device, mid, "h2d", kvFree, upload, kvReady)
  BY <1>1, <1>2, <1>3, LaunchOne
<1>6. mid \in Devices /\ Counted(mid) /\ Extended(device, mid)
  BY <1>5 DEF Behind
<1>7. Behind(mid, d, "compute", ready, update, kvFree)
  BY <1>1, <1>2, <1>3, <1>6, LaunchOne
<1>8. d \in Devices /\ Counted(d) /\ Extended(mid, d)
  BY <1>7 DEF Behind
<1>9. Extended(device, d)
  BY <1>6, <1>8, ExtendedTwice
<1>10. /\ \A t \in Streams : \A i \in 1 .. Len(device.queue[t]) : i \in 1 .. Len(mid.queue[t])
       /\ \A t \in Streams : \A i \in 1 .. Len(device.queue[t]) : \A e :
            RecordsIn(mid, t, i, e) <=> RecordsIn(device, t, i, e)
  <2>1. Preserved(device, mid)
    BY <1>6, ExtendedKeeps
  <2> QED BY <2>1 DEF Preserved
<1>11. /\ \A t \in Streams : \A i \in 1 .. Len(mid.queue[t]) : i \in 1 .. Len(d.queue[t])
       /\ \A t \in Streams : \A i \in 1 .. Len(mid.queue[t]) :
            d.queue[t][i].work = mid.queue[t][i].work
       /\ \A t \in Streams : \A i \in 1 .. Len(mid.queue[t]) : \A e :
            RecordsIn(d, t, i, e) <=> RecordsIn(mid, t, i, e)
       /\ \A t, u \in Streams :
            \A i \in 1 .. Len(mid.queue[t]), j \in 1 .. Len(mid.queue[u]) :
              WaitsIn(mid, t, i, u, j) => WaitsIn(d, t, i, u, j)
  <2>1. Preserved(mid, d)
    BY <1>8, ExtendedKeeps
  <2> QED BY <2>1 DEF Preserved
<1>12. \A t \in Streams : Len(device.queue[t]) \in Nat /\ Len(mid.queue[t]) \in Nat
  BY <1>6 DEF Extended
<1>13. /\ Len(mid.queue["h2d"]) = N
       /\ mid.queue["compute"] = device.queue["compute"] /\ mid.queue["d2h"] = device.queue["d2h"]
       /\ mid.queue["h2d"][N].work = upload
       /\ RecordsIn(mid, "h2d", N, <<"kv_ready", b>>)
       /\ \A k \in 1 .. Len(device.queue["compute"]) : \A j \in 1 .. k :
            RecordsIn(device, "compute", k, <<"kv_free", b>>) => WaitsIn(mid, "h2d", N, "compute", j)
  BY <1>1, <1>4, <1>5 DEF Behind
<1>14. /\ Len(mid.queue["compute"]) + 1 = M
       /\ d.queue["h2d"] = mid.queue["h2d"] /\ d.queue["d2h"] = mid.queue["d2h"]
       /\ Len(d.queue["compute"]) = M
       /\ d.queue["compute"][M].work = update
       /\ RecordsIn(d, "compute", M, <<"kv_free", b>>)
       /\ \A k \in 1 .. Len(mid.queue["h2d"]) : \A j \in 1 .. k :
            RecordsIn(mid, "h2d", k, <<"q_ready">>) => WaitsIn(d, "compute", M, "h2d", j)
       /\ \A k \in 1 .. Len(mid.queue["h2d"]) : \A j \in 1 .. k :
            RecordsIn(mid, "h2d", k, <<"kv_ready", b>>) => WaitsIn(d, "compute", M, "h2d", j)
  BY <1>1, <1>4, <1>7, <1>13 DEF Behind
<1>15. N \in 1 .. Len(mid.queue["h2d"]) /\ N \in 1 .. N
  BY <1>1, <1>12, <1>13
<1>16. RecordsIn(d, "h2d", N, <<"kv_ready", b>>)
  BY <1>1, <1>11, <1>13, <1>15
<1>17. WaitsIn(d, "compute", M, "h2d", N)
  BY <1>13, <1>14, <1>15
<1>18. ASSUME NEW k \in 1 .. Len(device.queue["compute"]), NEW j \in 1 .. k,
              RecordsIn(device, "compute", k, <<"kv_free", b>>)
       PROVE  WaitsIn(d, "h2d", N, "compute", j)
  <2>1. j \in 1 .. Len(mid.queue["compute"])
    BY <1>1, <1>12, <1>13
  <2>2. WaitsIn(mid, "h2d", N, "compute", j)
    BY <1>13, <1>18
  <2> QED BY <1>1, <1>11, <1>15, <2>1, <2>2
<1>19. ASSUME NEW k \in 1 .. Len(device.queue["h2d"]), NEW j \in 1 .. k,
              RecordsIn(device, "h2d", k, <<"q_ready">>)
       PROVE  WaitsIn(d, "compute", M, "h2d", j)
  BY <1>1, <1>10, <1>14, <1>19
<1>20. d.queue["h2d"][N].work = upload /\ Len(d.queue["h2d"]) = N
       /\ d.queue["d2h"] = device.queue["d2h"]
  BY <1>13, <1>14
<1> QED
  BY <1>1, <1>8, <1>9, <1>12, <1>14, <1>16, <1>17, <1>18, <1>19, <1>20 DEF Tiled

LEMMA ConsumeTileIs ==
  ASSUME Hosting, ConsumeTile, NEW N, N = Len(Q("h2d")) + 1, NEW M, M = Len(Q("compute")) + 1,
         NEW b, b = KvBuffer(kvTile)
  PROVE  /\ Tiling(N, M, b, kvTile)
         /\ pc = "consume" /\ kvTile < consumed * TilesPerPage /\ kvTile' = kvTile + 1
         /\ UNCHANGED runVars /\ UNCHANGED <<dq, dkv, acc, dout, qChunk>>
<1> DEFINE upload == Op("load_kv", kvTile)
           update == Op("update", kvTile)
<1>1. PICK mid : mid = Cuda!Launch(device, "h2d", {<<"kv_free", b>>}, upload, {<<"kv_ready", b>>})
  OBVIOUS
<1>2. /\ pc = "consume" /\ kvTile < consumed * TilesPerPage /\ kvTile' = kvTile + 1
      /\ UNCHANGED runVars /\ UNCHANGED <<dq, dkv, acc, dout, qChunk>>
      /\ device' = Cuda!Launch(mid, "compute", {<<"q_ready">>, <<"kv_ready", b>>}, update,
                               {<<"kv_free", b>>})
  BY <1>1 DEF ConsumeTile, LaunchTile
<1>3. b \in KvBuffers /\ upload \in Works /\ update \in Works
  BY Basics, BuffersInRange, OpIsWork DEF Hosting, DeviceInv
<1>4. N = Len(device.queue["h2d"]) + 1 /\ M = Len(device.queue["compute"]) + 1
  BY DEF Q
<1>5. upload = Op("load_kv", kvTile) /\ update = Op("update", kvTile)
  OBVIOUS
<1>6. DeviceInv
  BY DEF Hosting
<1> HIDE DEF upload, update
<1>7. Tiled(device, device', N, M, b, upload, update)
  <2>1. PICK d : d = device'
    OBVIOUS
  <2>2. d = Cuda!Launch(mid, "compute", {<<"q_ready">>, <<"kv_ready", b>>}, update,
                        {<<"kv_free", b>>})
    BY <1>2, <2>1
  <2>3. Tiled(device, d, N, M, b, upload, update)
    BY <1>1, <1>3, <1>4, <1>6, <2>2, HostLaunchesTile
  <2> QED BY <2>1, <2>3
<1>8. HostKeeps
  BY <1>7, ExtendedHost DEF Tiled
<1>9. /\ N \in Nat /\ N \in Places("h2d")' /\ N \notin Places("h2d") /\ N = Len(Q("h2d"))'
      /\ \A i \in Places("h2d")' : i \in Places("h2d") \/ i = N
      /\ M \in Nat /\ M \in Places("compute")' /\ M \notin Places("compute")
      /\ M = Len(Q("compute"))'
      /\ \A i \in Places("compute")' : i \in Places("compute") \/ i = M
      /\ Q("d2h")' = Q("d2h")
  <2> DEFINE n == Len(device.queue["h2d"])
             m == Len(device.queue["compute"])
  <2>1. n \in Nat /\ m \in Nat /\ N = n + 1 /\ M = m + 1
    BY <1>4, <1>7 DEF Tiled
  <2>2. /\ Len(Q("h2d"))' = N /\ Len(Q("compute"))' = M /\ Q("d2h")' = Q("d2h")
        /\ Places("h2d")' = 1 .. N /\ Places("compute")' = 1 .. M
        /\ Places("h2d") = 1 .. n /\ Places("compute") = 1 .. m
    BY <1>7 DEF Tiled, Places, Q
  <2> HIDE DEF n, m
  <2> QED BY <2>1, <2>2
<1>10. /\ WorkAt("h2d", N)' = upload
       /\ WorkAt("compute", M)' = update
       /\ Records("h2d", N, <<"kv_ready", b>>)'
       /\ Records("compute", M, <<"kv_free", b>>)'
  BY <1>7 DEF Tiled, WorkAt, Records, Q
<1>11. /\ \A k \in Places("compute") : \A j \in 1 .. k :
            Records("compute", k, <<"kv_free", b>>) => Waits("h2d", N, "compute", j)'
       /\ \A k \in Places("h2d") : \A j \in 1 .. k :
            Records("h2d", k, <<"q_ready">>) => Waits("compute", M, "h2d", j)'
       /\ Waits("compute", M, "h2d", N)'
  BY <1>7 DEF Tiled, Waits, Records, Places, Q
<1>12. Tiling(N, M, b, kvTile)
  BY <1>5, <1>8, <1>9, <1>10, <1>11 DEF Tiling
<1> QED
  BY <1>2, <1>12

\* Where the two launches leave everything else.
LEMMA TilingPlaces ==
  ASSUME NEW N, NEW M, NEW b, NEW tile, Tiling(N, M, b, tile), UNCHANGED runVars
  PROVE  /\ \A i \in Places("h2d") : i \in Places("h2d")' /\ WorkAt("h2d", i)' = WorkAt("h2d", i)
         /\ \A i \in Places("compute") :
              i \in Places("compute")' /\ WorkAt("compute", i)' = WorkAt("compute", i)
         /\ Places("d2h")' = Places("d2h")
         /\ \A i : WorkAt("d2h", i)' = WorkAt("d2h", i)
         /\ \A i \in Places("compute") : \A e : Records("compute", i, e)' <=> Records("compute", i, e)
         /\ \A i \in Places("h2d") : \A e : Records("h2d", i, e)' <=> Records("h2d", i, e)
         /\ \A i \in Places("h2d"), j \in Places("compute") :
              /\ Waits("h2d", i, "compute", j) => Waits("h2d", i, "compute", j)'
              /\ Waits("compute", j, "h2d", i) => Waits("compute", j, "h2d", i)'
         /\ \A i \in Places("compute"), j \in Places("d2h") :
              /\ Waits("d2h", j, "compute", i) => Waits("d2h", j, "compute", i)'
              /\ Waits("compute", i, "d2h", j) => Waits("compute", i, "d2h", j)'
         /\ NumTiles' = NumTiles /\ OutSlot' = OutSlot
         /\ \A c, n : Partial(c, n)' = Partial(c, n)
         /\ \A i \in Places("h2d")' : i <= N
         /\ \A i \in Places("compute")' : i <= M
<1>1. "h2d" \in Streams /\ "compute" \in Streams /\ "d2h" \in Streams
  BY DEF Streams
<1>2. /\ \A t \in Streams : \A i \in Places(t) : i \in Places(t)' /\ WorkAt(t, i)' = WorkAt(t, i)
      /\ \A t \in Streams : \A i \in Places(t) : \A e : Records(t, i, e)' <=> Records(t, i, e)
      /\ \A t, u \in Streams : \A i \in Places(t), j \in Places(u) :
           Waits(t, i, u, j) => Waits(t, i, u, j)'
  BY DEF Tiling, HostKeeps
<1>3. Q("d2h")' = Q("d2h") /\ qpage' = qpage
  BY DEF Tiling, runVars
<1>4. Places("d2h")' = Places("d2h") /\ \A i : WorkAt("d2h", i)' = WorkAt("d2h", i)
  BY <1>3 DEF Places, WorkAt
<1>5. /\ NumTiles' = NumTiles /\ OutSlot' = OutSlot
      /\ \A c, n : Partial(c, n)' = Partial(c, n)
  BY <1>3 DEF NumTiles, KvTotal, OutSlot, Partial, TilesOf
<1>6. /\ \A i \in Places("h2d")' : i <= N
      /\ \A i \in Places("compute")' : i <= M
  BY DEF Tiling, Places
<1>7. /\ \A i \in Places("compute") : \A e : Records("compute", i, e)' <=> Records("compute", i, e)
      /\ \A i \in Places("h2d") : \A e : Records("h2d", i, e)' <=> Records("h2d", i, e)
  BY <1>1, <1>2
<1>8. /\ \A i \in Places("h2d"), j \in Places("compute") :
           /\ Waits("h2d", i, "compute", j) => Waits("h2d", i, "compute", j)'
           /\ Waits("compute", j, "h2d", i) => Waits("compute", j, "h2d", i)'
      /\ \A i \in Places("compute"), j \in Places("d2h") :
           /\ Waits("d2h", j, "compute", i) => Waits("d2h", j, "compute", i)'
           /\ Waits("compute", i, "d2h", j) => Waits("compute", i, "d2h", j)'
  BY <1>1, <1>2
<1> QED
  BY <1>1, <1>2, <1>4, <1>5, <1>6, <1>7, <1>8

\* The tile the host is at belongs to the page it consumes.
LEMMA TileInPage ==
  ASSUME Hosting, pc = "consume", kvTile < consumed * TilesPerPage
  PROVE  /\ consumed - 1 \in Nat
         /\ PageOfTile(kvTile) = consumed - 1
         /\ kvTile < NumTiles
         /\ (consumed - 1) * TilesPerPage <= kvTile + 1
         /\ kvTile + 1 <= consumed * TilesPerPage
<1>1. /\ consumed \in Nat /\ kvTile \in Nat /\ KvTotal \in Nat /\ TilesPerPage \in Nat \ {0}
      /\ consumed > 0 /\ consumed <= KvTotal /\ (consumed - 1) * TilesPerPage <= kvTile
  BY Basics DEF Hosting, DeviceInv, LoopInv, Cursor
<1> DEFINE n == TilesPerPage
           t == KvTotal
           k == consumed - 1
<1>2. k \in Nat /\ consumed = k + 1
  BY <1>1
<1>3. /\ k * n <= kvTile /\ kvTile < (k + 1) * n
  BY <1>1, <1>2
<1>4. PageOfTile(kvTile) = k
  <2> HIDE DEF k
  <2> QED BY <1>1, <1>2, <1>3, PageOfTileIs
<1>5. (k + 1) * n <= t * n
  <2>1. n \in Nat /\ t \in Nat /\ k + 1 <= t
    BY <1>1, <1>2
  <2> DEFINE d == t - (k + 1)
  <2>2. d \in Nat
    BY <1>2, <2>1
  <2>3. t = (k + 1) + d
    BY <1>2, <2>1
  <2> HIDE DEF n, t, k, d
  <2>4. t * n = ((k + 1) * n) + (d * n) /\ d * n >= 0 /\ ((k + 1) * n) \in Int
    BY <1>2, <2>1, <2>2, <2>3
  <2>5. (d * n) \in Int
    BY <2>1, <2>2
  <2> QED BY <2>4, <2>5
<1>6. ((k + 1) * n) \in Nat /\ (t * n) \in Nat /\ (k * n) \in Nat
  BY <1>1, <1>2
<1>7. kvTile < t * n /\ k * n <= kvTile + 1 /\ kvTile + 1 <= (k + 1) * n
  <2> HIDE DEF n, t, k
  <2> QED BY <1>1, <1>3, <1>5, <1>6
<1> QED
  BY <1>1, <1>2, <1>4, <1>7 DEF NumTiles

\* A tile's upload waits for the buffer's last reader and its kernel for the
\* upload; both find what they read in place.
LEMMA ConsumeTileKeeps ==
  ASSUME Hosting, ConsumeTile
  PROVE  RunInv' /\ DeviceInv' /\ LoopInv'
<1>0. PICK N : N = Len(Q("h2d")) + 1
  OBVIOUS
<1>00. PICK M : M = Len(Q("compute")) + 1
  OBVIOUS
<1>000. PICK b : b = KvBuffer(kvTile)
  OBVIOUS
<1>1. /\ Tiling(N, M, b, kvTile)
      /\ pc = "consume" /\ kvTile < consumed * TilesPerPage /\ kvTile' = kvTile + 1
      /\ UNCHANGED runVars /\ UNCHANGED <<dq, dkv, acc, dout, qChunk>>
  BY <1>0, <1>00, <1>000, ConsumeTileIs
<1>2. /\ HostKeeps
      /\ N \in Nat /\ N \in Places("h2d")' /\ N \notin Places("h2d") /\ N = Len(Q("h2d"))'
      /\ \A i \in Places("h2d")' : i \in Places("h2d") \/ i = N
      /\ M \in Nat /\ M \in Places("compute")' /\ M \notin Places("compute")
      /\ M = Len(Q("compute"))' /\ M = Len(Q("compute")) + 1
      /\ \A i \in Places("compute")' : i \in Places("compute") \/ i = M
      /\ Q("d2h")' = Q("d2h")
      /\ \A k \in Places("compute") : \A j \in 1 .. k :
           Records("compute", k, <<"kv_free", b>>) => Waits("h2d", N, "compute", j)'
      /\ \A k \in Places("h2d") : \A j \in 1 .. k :
           Records("h2d", k, <<"q_ready">>) => Waits("compute", M, "h2d", j)'
      /\ Waits("compute", M, "h2d", N)'
      /\ Records("h2d", N, <<"kv_ready", b>>)'
      /\ Records("compute", M, <<"kv_free", b>>)'
  BY <1>1 DEF Tiling
<1>3. /\ \A i \in Places("h2d") : i \in Places("h2d")' /\ WorkAt("h2d", i)' = WorkAt("h2d", i)
      /\ \A i \in Places("compute") :
           i \in Places("compute")' /\ WorkAt("compute", i)' = WorkAt("compute", i)
      /\ Places("d2h")' = Places("d2h")
      /\ \A i : WorkAt("d2h", i)' = WorkAt("d2h", i)
      /\ \A i \in Places("compute") : \A e : Records("compute", i, e)' <=> Records("compute", i, e)
      /\ \A i \in Places("h2d") : \A e : Records("h2d", i, e)' <=> Records("h2d", i, e)
      /\ \A i \in Places("h2d"), j \in Places("compute") :
           /\ Waits("h2d", i, "compute", j) => Waits("h2d", i, "compute", j)'
           /\ Waits("compute", j, "h2d", i) => Waits("compute", j, "h2d", i)'
      /\ \A i \in Places("compute"), j \in Places("d2h") :
           /\ Waits("d2h", j, "compute", i) => Waits("d2h", j, "compute", i)'
           /\ Waits("compute", i, "d2h", j) => Waits("compute", i, "d2h", j)'
      /\ NumTiles' = NumTiles /\ OutSlot' = OutSlot
      /\ \A c, n : Partial(c, n)' = Partial(c, n)
      /\ \A i \in Places("h2d")' : i <= N
      /\ \A i \in Places("compute")' : i <= M
  BY <1>1, TilingPlaces
<1>4. UNCHANGED <<pc, qpage, chunk, submitted, consumed, queue, loads, writes, qHost, stage, out, sink,
                  outcome, dq, dkv, acc, dout, qChunk>>
  BY <1>1 DEF runVars
<1>5. /\ "h2d" \in Streams /\ "compute" \in Streams /\ "d2h" \in Streams
      /\ device \in Devices /\ kvTile \in Nat /\ qChunk \in Nat /\ chunk \in Nat
  BY Basics DEF Streams, Hosting, DeviceInv
<1>6. \A s \in Streams : \A i \in Places(s) :
        /\ i \in Nat /\ i >= 1 /\ Len(Q(s)) \in Nat
        /\ WorkAt(s, i).chunk \in Nat /\ WorkAt(s, i).index \in Nat
  BY <1>5, WorksTyped DEF Places
<1>7. /\ Cursor /\ Launched /\ LoadsOrdered /\ FinalsOrdered /\ QReady /\ QFree /\ KvReady /\ KvFree
      /\ StagesRead /\ AccumulatorExact /\ OutputFree /\ OutputReady /\ ChunksStored
  BY DEF Hosting, LoopInv
<1>8. (\A c : Closed(c)' <=> Closed(c)) /\ (\A c : Closed(c) <=> c < chunk) /\ Scanning /\ Scanning'
  BY <1>1, <1>4 DEF Closed, Scanning
<1>9. /\ WorkAt("h2d", N)'.op = "load_kv" /\ WorkAt("h2d", N)'.page = qpage
      /\ WorkAt("h2d", N)'.chunk = chunk /\ WorkAt("h2d", N)'.index = kvTile
      /\ WorkAt("compute", M)'.op = "update" /\ WorkAt("compute", M)'.page = qpage
      /\ WorkAt("compute", M)'.chunk = chunk /\ WorkAt("compute", M)'.index = kvTile
  BY <1>1, <1>5, OpIsWork DEF Tiling, Hosting, DeviceInv
<1>10. /\ consumed - 1 \in Nat
       /\ PageOfTile(kvTile) = consumed - 1
       /\ kvTile < NumTiles
       /\ (consumed - 1) * TilesPerPage <= kvTile + 1
       /\ kvTile + 1 <= consumed * TilesPerPage
  BY <1>1, TileInPage
<1>11. \A s \in Streams : \A i \in Places(s) : s # "h2d" \/ WorkAt(s, i).op # "mark" =>
         /\ WorkAt(s, i).page = qpage
         /\ WorkAt(s, i).chunk <= chunk
         /\ WorkAt(s, i).op \in {"load_kv", "update"} =>
              /\ WorkAt(s, i).index < NumTiles
              /\ WorkAt(s, i).chunk = chunk => WorkAt(s, i).index < kvTile
         /\ WorkAt(s, i).op \in {"finalize", "store"} =>
              WorkAt(s, i).index < qChunk /\ Closed(WorkAt(s, i).chunk)
  BY <1>7, <1>8 DEF Launched
<1>12. RunInv'
  BY <1>1, StutterRun DEF Hosting
<1>13. DeviceInv'
  <2>1. Fresh("h2d", N)
    <3>1. Evidence(WorkAt("h2d", N)') = {<<"kv_ready", b>>}
      BY <1>9, <1>000 DEF Evidence
    <3> QED BY <1>2, <1>9, <3>1 DEF Fresh
  <2>2. Fresh("compute", M)
    <3>1. Evidence(WorkAt("compute", M)') = {<<"kv_free", b>>}
      BY <1>9, <1>000 DEF Evidence
    <3> QED BY <1>2, <1>9, <3>1 DEF Fresh
  <2>3. \A s \in Streams : \A i \in Places(s)' : i \in Places(s) \/ Fresh(s, i)
    BY <1>2, <1>3, <2>1, <2>2 DEF Streams
  <2>4. kvTile' \in Nat /\ qChunk' \in Nat /\ UNCHANGED <<writes, dq, dkv, acc, dout>>
    BY <1>1, <1>4, <1>5
  <2> QED BY <1>2, <2>3, <2>4, HostDevice DEF Hosting
<1>14. Cursor'
  <2>1. KvTotal' = KvTotal
    BY <1>4 DEF KvTotal
  <2>2. consumed > 0 /\ consumed <= KvTotal /\ qHost = <<qpage>>
    BY <1>1, <1>7 DEF Cursor, Computing
  <2> QED BY <1>1, <1>4, <1>10, <2>1, <2>2 DEF Cursor
<1>15. Launched'
  <2>1. ASSUME NEW s \in Streams, NEW i \in Places(s)',
               s # "h2d" \/ WorkAt(s, i)'.op # "mark",
               NEW w, w = WorkAt(s, i)'
        PROVE  /\ w.page = qpage /\ w.chunk <= chunk
               /\ w.op \in {"load_kv", "update"} =>
                    w.index < NumTiles /\ (w.chunk = chunk => w.index < kvTile')
               /\ w.op \in {"finalize", "store"} => w.index < qChunk /\ Closed(w.chunk)
    <3>1. CASE i \in Places(s)
      <4>1. WorkAt(s, i)' = WorkAt(s, i)
        BY <1>3, <3>1 DEF Streams
      <4>2. w.index \in Nat /\ (w.index < kvTile => w.index < kvTile')
        BY <1>1, <1>5, <1>6, <2>1, <3>1, <4>1
      <4> QED BY <1>11, <2>1, <3>1, <4>1, <4>2
    <3>2. CASE (s = "h2d" /\ i = N) \/ (s = "compute" /\ i = M)
      BY <1>1, <1>5, <1>9, <1>10, <2>1, <3>2
    <3> QED BY <1>2, <1>3, <2>1, <3>1, <3>2 DEF Streams
  <2> QED BY <1>1, <1>3, <1>4, <1>8, <2>1 DEF Launched
<1>16. LoadsOrdered'
  <2>1. ASSUME NEW i \in Places("h2d")', NEW j \in Places("h2d")', i < j
        PROVE  i \in Places("h2d") /\ (j \in Places("h2d") \/ j = N)
    <3>1. i # N
      BY <1>2, <1>3, <1>6, <2>1 DEF Places
    <3> QED BY <1>2, <3>1
  <2>2. \A i \in Places("h2d") : WorkAt("h2d", i).op = "load_kv" =>
          Before(WorkAt("h2d", i), WorkAt("h2d", N)')
    BY <1>5, <1>6, <1>9, <1>11 DEF Before
  <2> QED BY <1>3, <1>7, <1>9, <2>1, <2>2 DEF LoadsOrdered, Before
<1>17. FinalsOrdered'
  <2>1. ASSUME NEW i \in Places("compute")', NEW j \in Places("compute")',
               WorkAt("compute", i)'.op = "finalize", WorkAt("compute", j)'.op = "finalize"
        PROVE  i \in Places("compute") /\ j \in Places("compute")
    BY <1>2, <1>9, <2>1
  <2> QED BY <1>3, <1>7, <2>1 DEF FinalsOrdered
<1>18. QReady'
  <2>1. \/ \E m \in Places("h2d") : IsLoadQ(m, chunk)
        \/ dq = <<qpage, chunk>> /\ \A m \in Places("h2d") : WorkAt("h2d", m).op # "load_q"
    BY <1>7, <1>8 DEF QReady
  <2>2. \A m \in Places("h2d") : IsLoadQ(m, chunk) => Waits("compute", M, "h2d", m)'
    <3> SUFFICES ASSUME NEW m \in Places("h2d"), IsLoadQ(m, chunk)
                 PROVE  Waits("compute", M, "h2d", m)'
      OBVIOUS
    <3>1. <<"q_ready">> \in Evidence(WorkAt("h2d", m))
      BY DEF IsLoadQ, Evidence
    <3>2. Records("h2d", m, <<"q_ready">>)
      BY <1>5, <3>1 DEF Hosting, DeviceInv, OperationsRecord
    <3>3. m \in 1 .. m
      BY <1>5, <1>6
    <3> QED BY <1>2, <3>2, <3>3
  <2>3. ASSUME NEW n \in Places("compute")', IsUpdate(n)', NEW c, c = WorkAt("compute", n)'.chunk
        PROVE  \/ \E m \in Places("h2d")' : IsLoadQ(m, c)' /\ Waits("compute", n, "h2d", m)'
               \/ /\ dq' = <<qpage, c>>
                  /\ \A m \in Places("h2d")' :
                       WorkAt("h2d", m)'.op = "load_q" => WorkAt("h2d", m)'.chunk > c
    <3>1. CASE n \in Places("compute")
      <4>1. IsUpdate(n) /\ c = WorkAt("compute", n).chunk
        BY <1>3, <2>3, <3>1 DEF IsUpdate
      <4>2. CASE \E m \in Places("h2d") : IsLoadQ(m, c) /\ Waits("compute", n, "h2d", m)
        BY <1>3, <3>1, <4>2 DEF IsLoadQ
      <4>3. CASE /\ dq = <<qpage, c>>
                 /\ \A m \in Places("h2d") :
                      WorkAt("h2d", m).op = "load_q" => WorkAt("h2d", m).chunk > c
        BY <1>2, <1>3, <1>4, <1>9, <4>3
      <4> QED BY <1>7, <3>1, <4>1, <4>2, <4>3 DEF QReady
    <3>2. CASE n = M
      <4>1. c = chunk
        BY <1>9, <2>3, <3>2
      <4>2. CASE \E m \in Places("h2d") : IsLoadQ(m, chunk)
        BY <1>3, <2>2, <3>2, <4>1, <4>2 DEF IsLoadQ
      <4>3. CASE dq = <<qpage, chunk>> /\ \A m \in Places("h2d") : WorkAt("h2d", m).op # "load_q"
        BY <1>2, <1>3, <1>4, <1>9, <4>1, <4>3
      <4> QED BY <2>1, <4>2, <4>3
    <3> QED BY <1>2, <3>1, <3>2
  <2>4. \/ \E m \in Places("h2d")' : IsLoadQ(m, chunk)'
        \/ dq' = <<qpage, chunk>> /\ \A m \in Places("h2d")' : WorkAt("h2d", m)'.op # "load_q"
    <3>1. CASE \E m \in Places("h2d") : IsLoadQ(m, chunk)
      BY <1>3, <1>4, <3>1 DEF IsLoadQ
    <3>2. CASE dq = <<qpage, chunk>> /\ \A m \in Places("h2d") : WorkAt("h2d", m).op # "load_q"
      BY <1>2, <1>3, <1>4, <1>9, <3>2
    <3> QED BY <2>1, <3>1, <3>2
  <2> QED BY <1>4, <2>3, <2>4 DEF QReady, IsLoadQ
<1>19. QFree'
  <2>1. ASSUME NEW m \in Places("h2d")', WorkAt("h2d", m)'.op = "load_q"
        PROVE  m \in Places("h2d") /\ WorkAt("h2d", m)' = WorkAt("h2d", m)
    BY <1>2, <1>3, <1>9, <2>1
  <2>2. ASSUME NEW m \in Places("h2d")', NEW n \in Places("compute")',
               WorkAt("h2d", m)'.op = "load_q", IsUpdate(n)',
               WorkAt("compute", n)'.chunk < WorkAt("h2d", m)'.chunk
        PROVE  Waits("h2d", m, "compute", n)'
    <3>1. WorkAt("h2d", m).chunk <= chunk /\ WorkAt("h2d", m).chunk \in Nat
      BY <1>5, <1>6, <1>11, <2>1, <2>2
    <3>2. n # M
      BY <1>5, <1>9, <2>1, <2>2, <3>1
    <3>3. n \in Places("compute")
      BY <1>2, <3>2
    <3> QED BY <1>3, <1>7, <2>1, <2>2, <3>3 DEF QFree, IsUpdate
  <2>3. ASSUME NEW n \in Places("compute")', IsUpdate(n)', Closed(WorkAt("compute", n).chunk)'
        PROVE  \E k \in n .. Len(Q("compute"))' : Records("compute", k, <<"q_free">>)'
    <3>1. WorkAt("compute", n)'.chunk < chunk
      BY <1>1, <1>4, <2>3 DEF Closed
    <3>2. n # M
      BY <1>5, <1>9, <3>1
    <3>3. n \in Places("compute") /\ IsUpdate(n) /\ Closed(WorkAt("compute", n).chunk)
      BY <1>2, <1>3, <1>8, <2>3, <3>1, <3>2 DEF IsUpdate
    <3>4. PICK k \in n .. Len(Q("compute")) : Records("compute", k, <<"q_free">>)
      BY <1>7, <3>3 DEF QFree
    <3>5. Len(Q("compute")) \in Nat /\ n \in Nat /\ n >= 1
      BY <1>5, <1>6, <3>3
    <3>6. k \in Places("compute") /\ k \in n .. M
      BY <1>2, <3>5 DEF Places
    <3> QED BY <1>2, <1>3, <3>4, <3>6
  <2>4. ASSUME NEW m \in Places("h2d")', WorkAt("h2d", m)'.op = "load_q",
               NEW c, c = WorkAt("h2d", m)'.chunk
        PROVE  \E n \in Places("compute")' : IsUpdate(n)' /\ WorkAt("compute", n)'.chunk = c
    <3>1. m \in Places("h2d") /\ WorkAt("h2d", m).op = "load_q" /\ c = WorkAt("h2d", m).chunk
      BY <2>1, <2>4
    <3>2. CASE \E n \in Places("compute") : IsUpdate(n) /\ WorkAt("compute", n).chunk = c
      BY <1>3, <3>2 DEF IsUpdate
    <3>3. CASE c = chunk
      BY <1>2, <1>9, <3>3 DEF IsUpdate
    <3> QED BY <1>7, <3>1, <3>2, <3>3 DEF QFree
  <2> QED BY <2>2, <2>3, <2>4 DEF QFree
<1>20. KvReady'
  <2>1. TilesOf(qpage)' = TilesOf(qpage)
    BY <1>4 DEF TilesOf
  <2>2. ASSUME NEW n \in Places("compute")', IsUpdate(n)', NEW w, w = WorkAt("compute", n)'
        PROVE  \/ \E m \in Places("h2d")' :
                    IsLoadKv(m, w.chunk, w.index)' /\ Waits("compute", n, "h2d", m)'
               \/ /\ dkv'[KvBuffer(w.index)] = TilesOf(qpage)[w.index + 1]
                  /\ \A m \in Places("h2d")' :
                       WorkAt("h2d", m)'.op = "load_kv" => Before(w, WorkAt("h2d", m)')
    <3>1. CASE n \in Places("compute")
      <4>1. IsUpdate(n) /\ w = WorkAt("compute", n)
        BY <1>3, <2>2, <3>1 DEF IsUpdate
      <4>2. CASE \E m \in Places("h2d") :
                   IsLoadKv(m, w.chunk, w.index) /\ Waits("compute", n, "h2d", m)
        BY <1>3, <3>1, <4>2 DEF IsLoadKv
      <4>3. CASE /\ dkv[KvBuffer(w.index)] = TilesOf(qpage)[w.index + 1]
                 /\ \A m \in Places("h2d") :
                      WorkAt("h2d", m).op = "load_kv" => Before(w, WorkAt("h2d", m))
        <5>1. Before(w, WorkAt("h2d", N)')
          BY <1>5, <1>6, <1>9, <1>11, <3>1, <4>1 DEF Before, IsUpdate
        <5> QED BY <1>2, <1>3, <1>4, <4>3, <5>1
      <4> QED BY <1>7, <3>1, <4>1, <4>2, <4>3 DEF KvReady
    <3>2. CASE n = M
      <4>1. IsLoadKv(N, w.chunk, w.index)'
        BY <1>9, <2>2, <3>2 DEF IsLoadKv
      <4> QED BY <1>2, <3>2, <4>1
    <3> QED BY <1>2, <3>1, <3>2
  <2> QED BY <2>1, <2>2 DEF KvReady, IsLoadKv, Before
<1>21. KvFree'
  <2>1. ASSUME NEW m \in Places("h2d")', NEW n \in Places("compute")',
               NEW v, v = WorkAt("compute", n)', NEW w, w = WorkAt("h2d", m)',
               w.op = "load_kv", IsUpdate(n)', KvBuffer(v.index) = KvBuffer(w.index), Before(v, w)
        PROVE  Waits("h2d", m, "compute", n)'
    <3>1. CASE m \in Places("h2d") /\ n \in Places("compute")
      BY <1>3, <1>7, <2>1, <3>1 DEF KvFree, IsUpdate
    <3>2. CASE m = N /\ n \in Places("compute")
      <4>1. IsUpdate(n) /\ v = WorkAt("compute", n) /\ KvBuffer(v.index) = b
        BY <1>000, <1>3, <1>9, <2>1, <3>2 DEF IsUpdate
      <4>2. <<"kv_free", b>> \in Evidence(WorkAt("compute", n))
        BY <4>1 DEF IsUpdate, Evidence
      <4>3. Records("compute", n, <<"kv_free", b>>)
        BY <1>5, <3>2, <4>2 DEF Hosting, DeviceInv, OperationsRecord
      <4>4. n \in 1 .. n
        BY <1>5, <1>6, <3>2
      <4> QED BY <1>2, <3>2, <4>3, <4>4
    <3>3. CASE n = M
      <4>1. v.chunk = chunk /\ v.index = kvTile
        BY <1>9, <2>1, <3>3
      <4>2. w.chunk \in Nat /\ w.index \in Nat /\ w.chunk <= chunk
            /\ (w.chunk = chunk => w.index <= kvTile)
        <5>1. CASE m = N
          BY <1>5, <1>9, <2>1, <5>1
        <5>2. CASE m \in Places("h2d")
          BY <1>3, <1>5, <1>6, <1>11, <2>1, <5>2
        <5> QED BY <1>2, <5>1, <5>2
      <4> QED BY <1>5, <2>1, <4>1, <4>2 DEF Before
    <3> QED BY <1>2, <3>1, <3>2, <3>3
  <2>2. ASSUME NEW m \in Places("h2d")', WorkAt("h2d", m)'.op = "load_kv"
        PROVE  \E n \in Places("compute")' : IsUpdate(n)'
                 /\ WorkAt("compute", n)'.chunk = WorkAt("h2d", m)'.chunk
                 /\ WorkAt("compute", n)'.index = WorkAt("h2d", m)'.index
    <3>1. CASE m \in Places("h2d")
      BY <1>3, <1>7, <2>2, <3>1 DEF KvFree, IsUpdate
    <3>2. CASE m = N
      BY <1>2, <1>9, <3>2 DEF IsUpdate
    <3> QED BY <1>2, <3>1, <3>2
  <2> QED BY <2>1, <2>2 DEF KvFree, Before
<1>22. StagesRead'
  <2>1. \A i : KvPage(i)' = KvPage(i)
    BY <1>4 DEF KvPage
  <2>2. ASSUME NEW m \in Places("h2d")', WorkAt("h2d", m)'.op = "load_kv",
               NEW k, k = PageOfTile(WorkAt("h2d", m)'.index)
        PROVE  /\ stage[StageOf(k)] = <<KvPage(k)>>
               /\ loads[StageOf(k)].phase = "none"
               /\ \/ \E j \in m .. Len(Q("h2d"))' : Records("h2d", j, <<"stage_free", StageOf(k)>>)'
                  \/ k = consumed - 1
    <3>1. CASE m \in Places("h2d")
      <4>1. WorkAt("h2d", m).op = "load_kv" /\ k = PageOfTile(WorkAt("h2d", m).index)
        BY <1>3, <2>2, <3>1
      <4>2. /\ stage[StageOf(k)] = <<KvPage(k)>>
            /\ loads[StageOf(k)].phase = "none"
            /\ \/ \E j \in m .. Len(Q("h2d")) : Records("h2d", j, <<"stage_free", StageOf(k)>>)
               \/ k = consumed - 1
        BY <1>7, <3>1, <4>1 DEF StagesRead
      <4>3. CASE \E j \in m .. Len(Q("h2d")) : Records("h2d", j, <<"stage_free", StageOf(k)>>)
        <5>1. PICK j \in m .. Len(Q("h2d")) : Records("h2d", j, <<"stage_free", StageOf(k)>>)
          BY <4>3
        <5>2. j \in Places("h2d")
          BY <1>5, <1>6, <3>1 DEF Places
        <5>3. j <= N
          BY <1>3, <5>2
        <5>4. j \in m .. Len(Q("h2d"))'
          BY <1>2, <1>5, <1>6, <3>1, <5>2, <5>3
        <5> QED BY <1>3, <4>2, <5>1, <5>2, <5>4
      <4> QED BY <4>2, <4>3
    <3>2. CASE m = N
      <4>1. k = consumed - 1
        BY <1>9, <1>10, <2>2, <3>2
      <4> QED BY <1>1, <1>7, <4>1 DEF StagesRead
    <3> QED BY <1>2, <3>1, <3>2
  <2> QED BY <1>1, <1>4, <1>7, <2>1, <2>2 DEF StagesRead
<1>23. AccumulatorExact'
  <2> DEFINE C == Q("compute")
             n == Len(C)
  <2>1. /\ n \in Nat /\ M = n + 1 /\ Len(C)' = M /\ M >= 1
        /\ (C = <<>> <=> n = 0)
        /\ C' # <<>>
    <3>1. C \in Seq(Operations)
      BY <1>5 DEF Devices, Q
    <3>2. n \in Nat /\ (C = <<>> <=> n = 0)
      <4> HIDE DEF C
      <4> QED BY <3>1, EmptySeq
    <3> QED BY <1>2, <3>2
  <2>2. /\ \A i \in 1 .. n : C[i].work = WorkAt("compute", i) /\ i \in Places("compute")
        /\ \A i : C[i].work' = WorkAt("compute", i)'
    BY DEF WorkAt, Places
  <2>3. \A i \in 1 .. n : C[i].work' = C[i].work
    BY <1>3, <2>2
  <2>4. /\ \A w : CountBefore(w)' = CountBefore(w) /\ CountAfter(w)' = CountAfter(w)
        /\ acc' = acc
    BY <1>3, <1>4 DEF CountBefore, CountAfter
  <2>5. /\ C[M].work'.chunk = chunk /\ CountBefore(C[M].work') = kvTile
        /\ CountAfter(C[M].work') = kvTile + 1
    BY <1>9, <2>2 DEF CountBefore, CountAfter
  <2>6. /\ C # <<>> =>
             CountBefore(C[1].work) = 0 \/ acc = Partial(C[1].work.chunk, CountBefore(C[1].work))
        /\ \A i \in 1 .. n - 1 :
             \/ CountBefore(C[i + 1].work) = 0
             \/ /\ C[i + 1].work.chunk = C[i].work.chunk
                /\ CountBefore(C[i + 1].work) = CountAfter(C[i].work)
        /\ kvTile > 0 => IF C = <<>> THEN acc = Partial(chunk, kvTile)
                         ELSE C[n].work.chunk = chunk /\ CountAfter(C[n].work) = kvTile
    BY <1>7, <1>8 DEF AccumulatorExact
  <2> HIDE DEF C, n
  <2>7. kvTile = 0 \/ kvTile > 0
    BY <1>5
  <2>8. ASSUME NEW v, v = C[1].work'
        PROVE  CountBefore(v) = 0 \/ acc = Partial(v.chunk, CountBefore(v))
    <3>1. CASE C = <<>>
      <4>1. M = 1
        BY <2>1, <3>1
      <4> QED BY <2>5, <2>6, <2>7, <2>8, <3>1, <4>1
    <3>2. CASE C # <<>>
      <4>1. 1 \in 1 .. n
        BY <2>1, <3>2
      <4> QED BY <2>3, <2>6, <2>8, <3>2, <4>1
    <3> QED BY <3>1, <3>2
  <2>9. ASSUME NEW i \in 1 .. M - 1, NEW v, v = C[i].work', NEW w, w = C[i + 1].work'
        PROVE  \/ CountBefore(w) = 0
               \/ w.chunk = v.chunk /\ CountBefore(w) = CountAfter(v)
    <3>1. i \in 1 .. n
      BY <2>1
    <3>2. v = C[i].work
      BY <2>3, <2>9, <3>1
    <3>3. CASE i = n
      <4>1. i + 1 = M /\ C # <<>>
        BY <2>1, <3>1, <3>3
      <4> QED BY <2>5, <2>6, <2>7, <2>9, <3>2, <3>3, <4>1
    <3>4. CASE i # n
      <4>1. i \in 1 .. n - 1 /\ i + 1 \in 1 .. n
        BY <2>1, <3>1, <3>4
      <4> QED BY <2>3, <2>6, <2>9, <3>2, <4>1
    <3> QED BY <3>3, <3>4
  <2> QED BY <1>1, <1>3, <1>4, <2>1, <2>4, <2>5, <2>8, <2>9 DEF AccumulatorExact, C, n
<1>24. OutputFree'
  <2>1. \A n \in Places("compute")' : IsFinalize(n)' => n \in Places("compute") /\ IsFinalize(n)
    BY <1>2, <1>3, <1>9 DEF IsFinalize
  <2> QED BY <1>1, <1>3, <1>4, <1>7, <2>1 DEF OutputFree
<1>25. OutputReady'
  <2>1. \A n \in Places("compute")' : IsFinalize(n)' => n \in Places("compute") /\ IsFinalize(n)
    BY <1>2, <1>3, <1>9 DEF IsFinalize
  <2>2. \A n \in Places("compute") : IsFinalize(n) => IsFinalize(n)'
    BY <1>3 DEF IsFinalize
  <2> QED BY <1>3, <1>4, <1>7, <2>1, <2>2 DEF OutputReady
<1>26. ChunksStored'
  BY <1>3, <1>4, <1>7, <1>8 DEF ChunksStored, Computing
<1> QED
  BY <1>12, <1>13, <1>14, <1>15, <1>16, <1>17, <1>18, <1>19, <1>20, <1>21, <1>22, <1>23, <1>24,
     <1>25, <1>26 DEF LoopInv

\* The mark behind the chunk's kernels is at place M of the compute stream, the
\* kernel that finalises it at F, the copy to the host at L of its stream.
Finishing(M, F, L, o, index, slot) ==
  /\ HostKeeps
  /\ Q("h2d")' = Q("h2d")
  /\ M \in Nat /\ M \in Places("compute")' /\ M \notin Places("compute")
  /\ F \in Places("compute")' /\ F \notin Places("compute")
  /\ M = Len(Q("compute")) + 1 /\ F = M + 1 /\ F = Len(Q("compute"))'
  /\ \A i \in Places("compute")' : i \in Places("compute") \/ i = M \/ i = F
  /\ L \in Nat /\ L \in Places("d2h")' /\ L \notin Places("d2h")
  /\ \A i \in Places("d2h")' : i \in Places("d2h") \/ i = L
  /\ WorkAt("compute", M)' = Op("mark", 0)
  /\ WorkAt("compute", F)' = Op("finalize", index)
  /\ WorkAt("d2h", L)' = Op("store", index)
  /\ Records("compute", M, <<"q_free">>)'
  /\ Records("compute", F, <<"output_ready", o>>)'
  /\ Records("d2h", L, <<"output_free", o>>)'
  /\ Records("d2h", L, <<"output_host_ready", slot>>)'
  /\ \A k \in Places("d2h") : \A j \in 1 .. k :
       Records("d2h", k, <<"output_free", o>>) => Waits("compute", F, "d2h", j)'
  /\ Waits("d2h", L, "compute", F)'

\* The launches that end a chunk, on the device.
Finished(dev, d, M, F, L, o, slot, mark, final, store) ==
  /\ d \in Devices /\ Counted(d) /\ Extended(dev, d)
  /\ Len(dev.queue["compute"]) \in Nat /\ Len(dev.queue["d2h"]) \in Nat
  /\ d.queue["h2d"] = dev.queue["h2d"]
  /\ Len(d.queue["compute"]) = F /\ Len(d.queue["d2h"]) = L
  /\ d.queue["compute"][M].work = mark
  /\ d.queue["compute"][F].work = final
  /\ d.queue["d2h"][L].work = store
  /\ RecordsIn(d, "compute", M, <<"q_free">>)
  /\ RecordsIn(d, "compute", F, <<"output_ready", o>>)
  /\ RecordsIn(d, "d2h", L, <<"output_free", o>>)
  /\ RecordsIn(d, "d2h", L, <<"output_host_ready", slot>>)
  /\ \A k \in 1 .. Len(dev.queue["d2h"]) : \A j \in 1 .. k :
       RecordsIn(dev, "d2h", k, <<"output_free", o>>) => WaitsIn(d, "compute", F, "d2h", j)
  /\ WaitsIn(d, "d2h", L, "compute", F)

LEMMA HostFinishes ==
  ASSUME DeviceInv, NEW o \in DeviceOutputs, NEW slot \in OutSlots,
         NEW mark \in Works, NEW final \in Works, NEW store \in Works,
         NEW one, one = Cuda!Launch(device, "compute", {}, mark, {<<"q_free">>}),
         NEW two, two = Cuda!Launch(one, "compute", {<<"output_free", o>>}, final,
                                    {<<"output_ready", o>>}),
         NEW d, d = Cuda!Launch(two, "d2h", {<<"output_ready", o>>}, store,
                                {<<"output_free", o>>, <<"output_host_ready", slot>>}),
         NEW M, M = Len(device.queue["compute"]) + 1, NEW F, F = M + 1,
         NEW L, L = Len(device.queue["d2h"]) + 1
  PROVE  Finished(device, d, M, F, L, o, slot, mark, final, store)
<1> DEFINE none == {}
           qFree == {<<"q_free">>}
           free == {<<"output_free", o>>}
           ready == {<<"output_ready", o>>}
           stored == {<<"output_free", o>>, <<"output_host_ready", slot>>}
<1>1. device \in Devices /\ Counted(device) /\ "h2d" \in Streams /\ "compute" \in Streams
      /\ "d2h" \in Streams
  BY DEF DeviceInv, DeviceTypeOK, Streams
<1>2. /\ none \in SUBSET Events /\ qFree \in SUBSET Events /\ free \in SUBSET Events
      /\ ready \in SUBSET Events /\ stored \in SUBSET Events
      /\ \A e \in qFree : RecorderOf(e) = "compute"
      /\ \A e \in ready : RecorderOf(e) = "compute"
      /\ \A e \in stored : RecorderOf(e) = "d2h"
  BY EventsExist DEF RecorderOf
<1>3. /\ one = Cuda!Launch(device, "compute", none, mark, qFree)
      /\ two = Cuda!Launch(one, "compute", free, final, ready)
      /\ d = Cuda!Launch(two, "d2h", ready, store, stored)
  OBVIOUS
<1>4. /\ <<"q_free">> \in qFree /\ <<"output_free", o>> \in free /\ <<"output_ready", o>> \in ready
      /\ <<"output_free", o>> \in stored /\ <<"output_host_ready", slot>> \in stored
  OBVIOUS
<1> HIDE DEF none, qFree, free, ready, stored
<1>5. Behind(device, one, "compute", none, mark, qFree)
  BY <1>1, <1>2, <1>3, LaunchOne
<1>6. one \in Devices /\ Counted(one) /\ Extended(device, one)
  BY <1>5 DEF Behind
<1>7. Behind(one, two, "compute", free, final, ready)
  BY <1>1, <1>2, <1>3, <1>6, LaunchOne
<1>8. two \in Devices /\ Counted(two) /\ Extended(one, two)
  BY <1>7 DEF Behind
<1>9. Behind(two, d, "d2h", ready, store, stored)
  BY <1>1, <1>2, <1>3, <1>8, LaunchOne
<1>10. d \in Devices /\ Counted(d) /\ Extended(two, d)
  BY <1>9 DEF Behind
<1>11. Extended(one, d) /\ Extended(device, d)
  <2>1. Extended(one, d)
    BY <1>8, <1>10, ExtendedTwice
  <2> QED BY <1>6, <2>1, ExtendedTwice
<1>12. /\ \A t \in Streams : \A i \in 1 .. Len(device.queue[t]) : \A e :
            RecordsIn(one, t, i, e) <=> RecordsIn(device, t, i, e)
  <2>1. Preserved(device, one)
    BY <1>6, ExtendedKeeps
  <2> QED BY <2>1 DEF Preserved
<1>13. /\ \A t \in Streams : \A i \in 1 .. Len(one.queue[t]) :
            d.queue[t][i].work = one.queue[t][i].work
       /\ \A t \in Streams : \A i \in 1 .. Len(one.queue[t]) : \A e :
            RecordsIn(d, t, i, e) <=> RecordsIn(one, t, i, e)
  <2>1. Preserved(one, d)
    BY <1>11, ExtendedKeeps
  <2> QED BY <2>1 DEF Preserved
<1>14. /\ \A t \in Streams : \A i \in 1 .. Len(two.queue[t]) :
            d.queue[t][i].work = two.queue[t][i].work
       /\ \A t \in Streams : \A i \in 1 .. Len(two.queue[t]) : \A e :
            RecordsIn(d, t, i, e) <=> RecordsIn(two, t, i, e)
       /\ \A t, u \in Streams :
            \A i \in 1 .. Len(two.queue[t]), j \in 1 .. Len(two.queue[u]) :
              WaitsIn(two, t, i, u, j) => WaitsIn(d, t, i, u, j)
  <2>1. Preserved(two, d)
    BY <1>10, ExtendedKeeps
  <2> QED BY <2>1 DEF Preserved
<1>15. \A t \in Streams : Len(device.queue[t]) \in Nat /\ Len(one.queue[t]) \in Nat
                          /\ Len(two.queue[t]) \in Nat
  BY <1>6, <1>8 DEF Extended
<1>16. /\ Len(one.queue["compute"]) = M
       /\ one.queue["h2d"] = device.queue["h2d"] /\ one.queue["d2h"] = device.queue["d2h"]
       /\ one.queue["compute"][M].work = mark
       /\ RecordsIn(one, "compute", M, <<"q_free">>)
  BY <1>1, <1>4, <1>5 DEF Behind
<1>17. /\ Len(two.queue["compute"]) = F
       /\ two.queue["h2d"] = one.queue["h2d"] /\ two.queue["d2h"] = one.queue["d2h"]
       /\ two.queue["compute"][F].work = final
       /\ RecordsIn(two, "compute", F, <<"output_ready", o>>)
       /\ \A k \in 1 .. Len(one.queue["d2h"]) : \A j \in 1 .. k :
            RecordsIn(one, "d2h", k, <<"output_free", o>>) => WaitsIn(two, "compute", F, "d2h", j)
  BY <1>1, <1>4, <1>7, <1>16 DEF Behind
<1>18. /\ Len(two.queue["d2h"]) + 1 = L
       /\ d.queue["h2d"] = two.queue["h2d"] /\ d.queue["compute"] = two.queue["compute"]
       /\ Len(d.queue["d2h"]) = L
       /\ d.queue["d2h"][L].work = store
       /\ RecordsIn(d, "d2h", L, <<"output_free", o>>)
       /\ RecordsIn(d, "d2h", L, <<"output_host_ready", slot>>)
       /\ \A k \in 1 .. Len(two.queue["compute"]) : \A j \in 1 .. k :
            RecordsIn(two, "compute", k, <<"output_ready", o>>) => WaitsIn(d, "d2h", L, "compute", j)
  BY <1>1, <1>4, <1>9, <1>16, <1>17 DEF Behind
<1>19. M \in 1 .. Len(one.queue["compute"]) /\ F \in 1 .. Len(two.queue["compute"]) /\ F \in 1 .. F
  <2>1. Len(device.queue["compute"]) \in Nat
    BY <1>1, <1>15
  <2>2. M \in Nat /\ M >= 1 /\ F \in Nat /\ F >= 1
    BY <2>1
  <2> QED BY <1>16, <1>17, <2>2
<1>20. d.queue["compute"][M].work = mark /\ RecordsIn(d, "compute", M, <<"q_free">>)
  BY <1>1, <1>13, <1>16, <1>19
<1>21. d.queue["compute"][F].work = final /\ RecordsIn(d, "compute", F, <<"output_ready", o>>)
  BY <1>1, <1>14, <1>17, <1>19
<1>22. WaitsIn(d, "d2h", L, "compute", F)
  BY <1>17, <1>18, <1>19
<1>23. ASSUME NEW k \in 1 .. Len(device.queue["d2h"]), NEW j \in 1 .. k,
              RecordsIn(device, "d2h", k, <<"output_free", o>>)
       PROVE  WaitsIn(d, "compute", F, "d2h", j)
  <2>1. j \in 1 .. Len(two.queue["d2h"])
    <3>1. two.queue["d2h"] = device.queue["d2h"] /\ Len(device.queue["d2h"]) \in Nat
      BY <1>1, <1>15, <1>16, <1>17
    <3>2. k \in Nat /\ k <= Len(device.queue["d2h"]) /\ j \in Nat /\ j >= 1 /\ j <= k
      BY <3>1
    <3> QED BY <3>1, <3>2
  <2>2. WaitsIn(two, "compute", F, "d2h", j)
    BY <1>1, <1>12, <1>16, <1>17, <1>23
  <2> QED BY <1>1, <1>14, <1>19, <2>1, <2>2
<1>24. Len(d.queue["compute"]) = F /\ d.queue["h2d"] = device.queue["h2d"]
  BY <1>16, <1>17, <1>18
<1> QED
  BY <1>1, <1>10, <1>11, <1>15, <1>18, <1>20, <1>21, <1>22, <1>23, <1>24 DEF Finished

LEMMA EndChunkIs ==
  ASSUME Hosting, EndChunk, NEW M, M = Len(Q("compute")) + 1, NEW F, F = M + 1,
         NEW L, L = Len(Q("d2h")) + 1, NEW o, o = DeviceOutput(qChunk)
  PROVE  /\ Finishing(M, F, L, o, qChunk, OutSlot)
         /\ ScanDone /\ NextChunk("drain") /\ qChunk' = qChunk + 1
         /\ UNCHANGED <<qpage, queue, loads, writes, qHost, stage, out, sink, outcome,
                        dq, dkv, acc, dout, kvTile>>
<1> DEFINE mark == Op("mark", 0)
           final == Op("finalize", qChunk)
           store == Op("store", qChunk)
           slot == OutSlot
<1>1. PICK one : one = Cuda!Launch(device, "compute", {}, mark, {<<"q_free">>})
  OBVIOUS
<1>2. PICK two : two = Cuda!Launch(one, "compute", {<<"output_free", o>>}, final,
                                   {<<"output_ready", o>>})
  OBVIOUS
<1>3. PICK d : d = Cuda!Launch(two, "d2h", {<<"output_ready", o>>}, store,
                               {<<"output_free", o>>, <<"output_host_ready", slot>>})
  OBVIOUS
<1>4. /\ ScanDone /\ NextChunk("drain") /\ qChunk' = qChunk + 1
      /\ UNCHANGED <<qpage, queue, loads, writes, qHost, stage, out, sink, outcome,
                     dq, dkv, acc, dout, kvTile>>
      /\ device' = d
  BY <1>1, <1>2, <1>3 DEF EndChunk, ioVars, bufVars
<1>5. /\ o \in DeviceOutputs /\ slot \in OutSlots
      /\ mark \in Works /\ final \in Works /\ store \in Works
  BY Basics, BuffersInRange, OpIsWork DEF Hosting, DeviceInv
<1>6. M = Len(device.queue["compute"]) + 1 /\ L = Len(device.queue["d2h"]) + 1
  BY DEF Q
<1>7. mark = Op("mark", 0) /\ final = Op("finalize", qChunk) /\ store = Op("store", qChunk)
      /\ slot = OutSlot
  OBVIOUS
<1>8. DeviceInv
  BY DEF Hosting
<1> HIDE DEF mark, final, store, slot
<1>9. Finished(device, d, M, F, L, o, slot, mark, final, store)
  BY <1>1, <1>2, <1>3, <1>5, <1>6, <1>8, HostFinishes
<1>10. Finished(device, device', M, F, L, o, slot, mark, final, store)
  BY <1>4, <1>9
<1>11. HostKeeps
  BY <1>10, ExtendedHost DEF Finished
<1>12. /\ M \in Nat /\ M \in Places("compute")' /\ M \notin Places("compute")
       /\ F \in Places("compute")' /\ F \notin Places("compute") /\ F = Len(Q("compute"))'
       /\ \A i \in Places("compute")' : i \in Places("compute") \/ i = M \/ i = F
       /\ L \in Nat /\ L \in Places("d2h")' /\ L \notin Places("d2h")
       /\ \A i \in Places("d2h")' : i \in Places("d2h") \/ i = L
       /\ Q("h2d")' = Q("h2d")
  <2> DEFINE m == Len(device.queue["compute"])
             l == Len(device.queue["d2h"])
  <2>1. m \in Nat /\ l \in Nat /\ M = m + 1 /\ F = m + 2 /\ L = l + 1
    BY <1>6, <1>10 DEF Finished
  <2>2. /\ Len(Q("compute"))' = F /\ Q("h2d")' = Q("h2d")
        /\ Places("d2h")' = 1 .. L /\ Places("compute")' = 1 .. F
        /\ Places("d2h") = 1 .. l /\ Places("compute") = 1 .. m
    BY <1>10 DEF Finished, Places, Q
  <2> HIDE DEF m, l
  <2> QED BY <2>1, <2>2
<1>13. /\ WorkAt("compute", M)' = mark
       /\ WorkAt("compute", F)' = final
       /\ WorkAt("d2h", L)' = store
  BY <1>10 DEF Finished, WorkAt, Q
<1>14. /\ Records("compute", M, <<"q_free">>)'
       /\ Records("compute", F, <<"output_ready", o>>)'
       /\ Records("d2h", L, <<"output_free", o>>)'
       /\ RecordsIn(device', "d2h", L, <<"output_host_ready", slot>>)
  BY <1>10 DEF Finished, Records
<1>15. /\ \A k \in Places("d2h") : \A j \in 1 .. k :
            Records("d2h", k, <<"output_free", o>>) => Waits("compute", F, "d2h", j)'
       /\ Waits("d2h", L, "compute", F)'
  BY <1>10 DEF Finished, Waits, Records, Places, Q
<1>16. PICK s : s = OutSlot
  OBVIOUS
<1>17. PICK index : index = qChunk
  OBVIOUS
<1>18. Records("d2h", L, <<"output_host_ready", s>>)'
  BY <1>7, <1>14, <1>16 DEF Records
<1>19. Finishing(M, F, L, o, index, s)
  BY <1>7, <1>11, <1>12, <1>13, <1>14, <1>15, <1>17, <1>18 DEF Finishing
<1> QED
  BY <1>4, <1>16, <1>17, <1>19

\* Where the three launches leave everything else.
LEMMA FinishingPlaces ==
  ASSUME NEW M, NEW F, NEW L, NEW o, NEW index, NEW slot, Finishing(M, F, L, o, index, slot),
         qpage' = qpage
  PROVE  /\ \A i \in Places("compute") :
              i \in Places("compute")' /\ WorkAt("compute", i)' = WorkAt("compute", i)
         /\ \A i \in Places("d2h") : i \in Places("d2h")' /\ WorkAt("d2h", i)' = WorkAt("d2h", i)
         /\ Places("h2d")' = Places("h2d")
         /\ \A i : WorkAt("h2d", i)' = WorkAt("h2d", i)
         /\ \A i \in Places("h2d") : \A e : Records("h2d", i, e)' <=> Records("h2d", i, e)
         /\ \A i \in Places("compute") : \A e : Records("compute", i, e)' <=> Records("compute", i, e)
         /\ \A i \in Places("h2d"), j \in Places("compute") :
              /\ Waits("h2d", i, "compute", j) => Waits("h2d", i, "compute", j)'
              /\ Waits("compute", j, "h2d", i) => Waits("compute", j, "h2d", i)'
         /\ \A i \in Places("compute"), j \in Places("d2h") :
              /\ Waits("d2h", j, "compute", i) => Waits("d2h", j, "compute", i)'
              /\ Waits("compute", i, "d2h", j) => Waits("compute", i, "d2h", j)'
         /\ NumTiles' = NumTiles /\ OutSlot' = OutSlot
         /\ \A c, n : Partial(c, n)' = Partial(c, n)
         /\ \A i \in Places("compute")' : i <= F
<1>1. "h2d" \in Streams /\ "compute" \in Streams /\ "d2h" \in Streams
  BY DEF Streams
<1>2. /\ \A t \in Streams : \A i \in Places(t) : i \in Places(t)' /\ WorkAt(t, i)' = WorkAt(t, i)
      /\ \A t \in Streams : \A i \in Places(t) : \A e : Records(t, i, e)' <=> Records(t, i, e)
      /\ \A t, u \in Streams : \A i \in Places(t), j \in Places(u) :
           Waits(t, i, u, j) => Waits(t, i, u, j)'
  BY DEF Finishing, HostKeeps
<1>3. Q("h2d")' = Q("h2d")
  BY DEF Finishing
<1>4. Places("h2d")' = Places("h2d") /\ \A i : WorkAt("h2d", i)' = WorkAt("h2d", i)
  BY <1>3 DEF Places, WorkAt
<1>5. /\ NumTiles' = NumTiles /\ OutSlot' = OutSlot
      /\ \A c, n : Partial(c, n)' = Partial(c, n)
  BY DEF NumTiles, KvTotal, OutSlot, Partial, TilesOf
<1>6. \A i \in Places("compute")' : i <= F
  BY DEF Finishing, Places
<1>7. /\ \A i \in Places("compute") : \A e : Records("compute", i, e)' <=> Records("compute", i, e)
      /\ \A i \in Places("h2d") : \A e : Records("h2d", i, e)' <=> Records("h2d", i, e)
  BY <1>1, <1>2
<1>8. /\ \A i \in Places("h2d"), j \in Places("compute") :
           /\ Waits("h2d", i, "compute", j) => Waits("h2d", i, "compute", j)'
           /\ Waits("compute", j, "h2d", i) => Waits("compute", j, "h2d", i)'
      /\ \A i \in Places("compute"), j \in Places("d2h") :
           /\ Waits("d2h", j, "compute", i) => Waits("d2h", j, "compute", i)'
           /\ Waits("compute", i, "d2h", j) => Waits("compute", i, "d2h", j)'
  BY <1>1, <1>2
<1> QED
  BY <1>1, <1>2, <1>4, <1>5, <1>6, <1>7, <1>8

\* The chunk's kernels are behind its loads, its finalising kernel behind them
\* and the copy to the host behind that one.
LEMMA EndChunkKeeps ==
  ASSUME Hosting, EndChunk
  PROVE  RunInv' /\ DeviceInv' /\ LoopInv'
<1>0. PICK M : M = Len(Q("compute")) + 1
  OBVIOUS
<1>00. PICK F : F = M + 1
  OBVIOUS
<1>000. PICK L : L = Len(Q("d2h")) + 1
  OBVIOUS
<1>0000. PICK o : o = DeviceOutput(qChunk)
  OBVIOUS
<1>a. PICK index : index = qChunk
  OBVIOUS
<1>b. PICK slot : slot = OutSlot
  OBVIOUS
<1>1. /\ Finishing(M, F, L, o, index, slot)
      /\ ScanDone /\ NextChunk("drain") /\ qChunk' = index + 1
      /\ UNCHANGED <<qpage, queue, loads, writes, qHost, stage, out, sink, outcome,
                     dq, dkv, acc, dout, kvTile>>
  BY <1>0, <1>00, <1>000, <1>0000, <1>a, <1>b, EndChunkIs
<1>2. /\ HostKeeps
      /\ Q("h2d")' = Q("h2d")
      /\ M \in Nat /\ M \in Places("compute")' /\ M \notin Places("compute")
      /\ F \in Places("compute")' /\ F \notin Places("compute")
      /\ M = Len(Q("compute")) + 1 /\ F = M + 1 /\ F = Len(Q("compute"))'
      /\ \A i \in Places("compute")' : i \in Places("compute") \/ i = M \/ i = F
      /\ L \in Nat /\ L \in Places("d2h")' /\ L \notin Places("d2h")
      /\ \A i \in Places("d2h")' : i \in Places("d2h") \/ i = L
      /\ Records("compute", M, <<"q_free">>)'
      /\ Records("compute", F, <<"output_ready", o>>)'
      /\ Records("d2h", L, <<"output_free", o>>)'
      /\ Records("d2h", L, <<"output_host_ready", slot>>)'
      /\ \A k \in Places("d2h") : \A j \in 1 .. k :
           Records("d2h", k, <<"output_free", o>>) => Waits("compute", F, "d2h", j)'
      /\ Waits("d2h", L, "compute", F)'
  BY <1>1 DEF Finishing
<1>3. /\ \A i \in Places("compute") :
           i \in Places("compute")' /\ WorkAt("compute", i)' = WorkAt("compute", i)
      /\ \A i \in Places("d2h") : i \in Places("d2h")' /\ WorkAt("d2h", i)' = WorkAt("d2h", i)
      /\ Places("h2d")' = Places("h2d")
      /\ \A i : WorkAt("h2d", i)' = WorkAt("h2d", i)
      /\ \A i \in Places("h2d") : \A e : Records("h2d", i, e)' <=> Records("h2d", i, e)
      /\ \A i \in Places("compute") : \A e : Records("compute", i, e)' <=> Records("compute", i, e)
      /\ \A i \in Places("h2d"), j \in Places("compute") :
           /\ Waits("h2d", i, "compute", j) => Waits("h2d", i, "compute", j)'
           /\ Waits("compute", j, "h2d", i) => Waits("compute", j, "h2d", i)'
      /\ \A i \in Places("compute"), j \in Places("d2h") :
           /\ Waits("d2h", j, "compute", i) => Waits("d2h", j, "compute", i)'
           /\ Waits("compute", i, "d2h", j) => Waits("compute", i, "d2h", j)'
      /\ NumTiles' = NumTiles /\ OutSlot' = OutSlot
      /\ \A c, n : Partial(c, n)' = Partial(c, n)
      /\ \A i \in Places("compute")' : i <= F
  BY <1>1, FinishingPlaces
<1>4. UNCHANGED <<qpage, queue, loads, writes, qHost, stage, out, sink, outcome,
                  dq, dkv, acc, dout, kvTile>>
  BY <1>1
<1>5. /\ "h2d" \in Streams /\ "compute" \in Streams /\ "d2h" \in Streams
      /\ device \in Devices /\ kvTile \in Nat /\ index \in Nat /\ chunk \in Nat
      /\ chunk < ChunksPerPage /\ ChunksPerPage \in Nat /\ NumTiles \in Nat \ {0}
  BY <1>a, Basics DEF Streams, Hosting, DeviceInv
<1>6. \A s \in Streams : \A i \in Places(s) :
        /\ i \in Nat /\ i >= 1 /\ Len(Q(s)) \in Nat
        /\ WorkAt(s, i).chunk \in Nat /\ WorkAt(s, i).index \in Nat
  BY <1>5, WorksTyped DEF Places
<1>7. /\ Cursor /\ Launched /\ LoadsOrdered /\ FinalsOrdered /\ QReady /\ QFree /\ KvReady /\ KvFree
      /\ StagesRead /\ AccumulatorExact /\ OutputFree /\ OutputReady /\ ChunksStored
  BY DEF Hosting, LoopInv
<1>8. /\ pc = "scan" /\ kvTile = NumTiles /\ kvTile # 0 /\ kvTile > 0
      /\ \/ pc' = "chunk" /\ chunk' = chunk + 1
         \/ pc' = "drain" /\ chunk' = chunk /\ chunk + 1 = ChunksPerPage
  BY <1>1, <1>5, <1>7 DEF ScanDone, NextChunk, Cursor, NumTiles
<1>9. /\ Scanning /\ Computing /\ ~Scanning' /\ Computing'
      /\ \A c : Closed(c) <=> c < chunk
      /\ \A c \in Nat : Closed(c)' <=> c <= chunk
  BY <1>5, <1>8 DEF Scanning, Computing, Closed
<1>10. /\ WorkAt("compute", M)'.op = "mark" /\ WorkAt("compute", M)'.page = qpage
       /\ WorkAt("compute", M)'.chunk = chunk
       /\ WorkAt("compute", F)'.op = "finalize" /\ WorkAt("compute", F)'.page = qpage
       /\ WorkAt("compute", F)'.chunk = chunk /\ WorkAt("compute", F)'.index = index
       /\ WorkAt("d2h", L)'.op = "store" /\ WorkAt("d2h", L)'.page = qpage
       /\ WorkAt("d2h", L)'.chunk = chunk /\ WorkAt("d2h", L)'.index = index
  BY <1>1, <1>5, OpIsWork DEF Finishing, Hosting, DeviceInv
<1>11. \A s \in Streams : \A i \in Places(s) : s # "h2d" \/ WorkAt(s, i).op # "mark" =>
         /\ WorkAt(s, i).page = qpage
         /\ WorkAt(s, i).chunk <= chunk
         /\ WorkAt(s, i).op \in {"load_kv", "update"} => WorkAt(s, i).index < NumTiles
         /\ WorkAt(s, i).op \in {"finalize", "store"} =>
              WorkAt(s, i).index < index /\ Closed(WorkAt(s, i).chunk)
  BY <1>7, <1>a DEF Launched
<1>12. RunInv'
  <2>1. UNCHANGED <<qpage, ioVars, bufVars, sink, outcome>>
    BY <1>4 DEF ioVars, bufVars
  <2> QED BY <1>1, <2>1, NextChunkRun DEF Hosting
<1>13. \A i \in Places("d2h") : WorkAt("d2h", i).op = "store"
  BY DEF Hosting, DeviceInv, StreamKinds
<1>14. DeviceInv'
  <2>1. Fresh("compute", M)
    <3>1. Evidence(WorkAt("compute", M)') = {}
      BY <1>10 DEF Evidence
    <3> QED BY <1>2, <1>10, <3>1 DEF Fresh
  <2>2. Fresh("compute", F)
    <3>1. Evidence(WorkAt("compute", F)') = {<<"output_ready", o>>}
      BY <1>a, <1>10, <1>0000 DEF Evidence
    <3> QED BY <1>2, <1>10, <3>1 DEF Fresh
  <2>3. Fresh("d2h", L)
    <3>1. SlotOf(WorkAt("d2h", L)'.page) = slot
      BY <1>b, <1>10 DEF OutSlot
    <3>2. Evidence(WorkAt("d2h", L)') = {<<"output_free", o>>, <<"output_host_ready", slot>>}
      BY <1>a, <1>10, <1>0000, <3>1 DEF Evidence
    <3>3. writes[slot].phase = "none"
      BY <1>b, <1>8 DEF Hosting, RunInv, SlotIdle
    <3> QED BY <1>2, <1>10, <3>1, <3>2, <3>3 DEF Fresh
  <2>4. \A s \in Streams : \A i \in Places(s)' : i \in Places(s) \/ Fresh(s, i)
    BY <1>2, <1>3, <2>1, <2>2, <2>3 DEF Streams
  <2>5. kvTile' \in Nat /\ qChunk' \in Nat /\ UNCHANGED <<writes, dq, dkv, acc, dout>>
    BY <1>1, <1>4, <1>5
  <2> QED BY <1>2, <2>4, <2>5, HostDevice DEF Hosting
<1>15. Cursor'
  BY <1>4, <1>7, <1>8, <1>9 DEF Cursor
<1>16. Launched'
  <2>1. ASSUME NEW s \in Streams, NEW i \in Places(s)',
               s # "h2d" \/ WorkAt(s, i)'.op # "mark",
               NEW w, w = WorkAt(s, i)'
        PROVE  /\ w.page = qpage /\ w.chunk \in Nat /\ w.chunk <= chunk
               /\ w.op \in {"load_kv", "update"} => w.index < NumTiles
               /\ w.op \in {"finalize", "store"} => w.index < qChunk' /\ Closed(w.chunk)'
    <3>1. CASE i \in Places(s)
      <4>1. WorkAt(s, i)' = WorkAt(s, i)
        BY <1>3, <3>1 DEF Streams
      <4>2. w.chunk \in Nat /\ w.index \in Nat /\ (w.index < index => w.index < qChunk')
        BY <1>1, <1>5, <1>6, <2>1, <3>1, <4>1
      <4>3. Closed(w.chunk) => Closed(w.chunk)'
        BY <1>5, <1>9, <4>2
      <4> QED BY <1>11, <2>1, <3>1, <4>1, <4>2, <4>3
    <3>2. CASE (s = "compute" /\ (i = M \/ i = F)) \/ (s = "d2h" /\ i = L)
      <4>1. w.page = qpage /\ w.chunk = chunk /\ w.op \in {"mark", "finalize", "store"}
            /\ (w.op # "mark" => w.index = index)
        BY <1>10, <2>1, <3>2
      <4>2. index < qChunk' /\ w.chunk \in Nat /\ w.chunk <= chunk
        BY <1>1, <1>5, <4>1
      <4>3. Closed(w.chunk)'
        BY <1>9, <4>2
      <4> QED BY <4>1, <4>2, <4>3
    <3>3. i \in Places(s) \/ (s = "compute" /\ (i = M \/ i = F)) \/ (s = "d2h" /\ i = L)
      <4>1. CASE s = "h2d"
        BY <1>3, <2>1, <4>1
      <4>2. CASE s = "compute"
        BY <1>2, <2>1, <4>2
      <4>3. CASE s = "d2h"
        BY <1>2, <2>1, <4>3
      <4> QED BY <4>1, <4>2, <4>3 DEF Streams
    <3> QED BY <3>1, <3>2, <3>3
  <2>2. \A c \in Nat : c <= chunk => c <= chunk' /\ (pc' = "chunk" => c < chunk')
    BY <1>5, <1>8
  <2> QED BY <1>3, <1>4, <1>9, <2>1, <2>2 DEF Launched
<1>17. LoadsOrdered'
  BY <1>3, <1>7 DEF LoadsOrdered, Before
<1>18. FinalsOrdered'
  <2>1. ASSUME NEW i \in Places("compute")', NEW j \in Places("compute")', i < j,
               WorkAt("compute", i)'.op = "finalize", WorkAt("compute", j)'.op = "finalize"
        PROVE  i \in Places("compute") /\ (j \in Places("compute") \/ j = F)
    <3>1. i # M /\ j # M
      BY <1>10, <2>1
    <3>2. i # F
      <4>1. F \in Nat /\ j \in Nat /\ j <= F
        BY <1>2, <1>3, <2>1 DEF Places
      <4> QED BY <2>1, <4>1
    <3> QED BY <1>2, <2>1, <3>1, <3>2
  <2>2. \A i \in Places("compute") :
          WorkAt("compute", i).op = "finalize" => WorkAt("compute", i).index < index
    BY <1>5, <1>11
  <2> QED BY <1>3, <1>7, <1>10, <2>1, <2>2 DEF FinalsOrdered
<1>19. /\ \A n \in Places("compute")' : IsUpdate(n)' => n \in Places("compute") /\ IsUpdate(n)
       /\ \A n \in Places("compute") : IsUpdate(n) => IsUpdate(n)'
       /\ \A n \in Places("compute")' : IsFinalize(n)' =>
            n = F \/ (n \in Places("compute") /\ IsFinalize(n))
       /\ \A n \in Places("compute") : IsFinalize(n) => IsFinalize(n)'
       /\ IsFinalize(F)'
  BY <1>2, <1>3, <1>10 DEF IsUpdate, IsFinalize
<1>20. QReady'
  <2>1. ASSUME NEW n \in Places("compute")', IsUpdate(n)', NEW c, c = WorkAt("compute", n)'.chunk
        PROVE  \/ \E m \in Places("h2d")' : IsLoadQ(m, c)' /\ Waits("compute", n, "h2d", m)'
               \/ /\ dq' = <<qpage, c>>
                  /\ \A m \in Places("h2d")' :
                       WorkAt("h2d", m)'.op = "load_q" => WorkAt("h2d", m)'.chunk > c
    <3>1. n \in Places("compute") /\ IsUpdate(n) /\ c = WorkAt("compute", n).chunk
      BY <1>3, <1>19, <2>1
    <3>2. CASE \E m \in Places("h2d") : IsLoadQ(m, c) /\ Waits("compute", n, "h2d", m)
      BY <1>3, <3>1, <3>2 DEF IsLoadQ
    <3>3. CASE /\ dq = <<qpage, c>>
               /\ \A m \in Places("h2d") :
                    WorkAt("h2d", m).op = "load_q" => WorkAt("h2d", m).chunk > c
      BY <1>3, <1>4, <3>3
    <3> QED BY <1>7, <3>1, <3>2, <3>3 DEF QReady
  <2> QED BY <1>4, <1>9, <2>1 DEF QReady, IsLoadQ
<1>21. QFree'
  <2>1. ASSUME NEW m \in Places("h2d")', NEW n \in Places("compute")',
               WorkAt("h2d", m)'.op = "load_q", IsUpdate(n)',
               WorkAt("compute", n)'.chunk < WorkAt("h2d", m)'.chunk
        PROVE  Waits("h2d", m, "compute", n)'
    BY <1>3, <1>7, <1>19, <2>1 DEF QFree
  <2>2. ASSUME NEW n \in Places("compute")', IsUpdate(n)'
        PROVE  \E k \in n .. Len(Q("compute"))' : Records("compute", k, <<"q_free">>)'
    <3>1. n \in Places("compute") /\ n \in Nat /\ n >= 1 /\ Len(Q("compute")) \in Nat
      BY <1>5, <1>6, <1>19, <2>2
    <3>2. M \in n .. Len(Q("compute"))'
      BY <1>2, <3>1 DEF Places
    <3> QED BY <1>2, <3>2
  <2>3. ASSUME NEW m \in Places("h2d")', WorkAt("h2d", m)'.op = "load_q",
               NEW c, c = WorkAt("h2d", m)'.chunk
        PROVE  \E n \in Places("compute")' : IsUpdate(n)' /\ WorkAt("compute", n)'.chunk = c
    <3>1. m \in Places("h2d") /\ WorkAt("h2d", m).op = "load_q" /\ c = WorkAt("h2d", m).chunk
      BY <1>3, <2>3
    <3>2. \E n \in Places("compute") : IsUpdate(n) /\ WorkAt("compute", n).chunk = c
      BY <1>7, <1>8, <3>1 DEF QFree
    <3> QED BY <1>3, <1>19, <3>2
  <2> QED BY <2>1, <2>2, <2>3 DEF QFree
<1>22. KvReady'
  <2>1. TilesOf(qpage)' = TilesOf(qpage)
    BY <1>4 DEF TilesOf
  <2>2. ASSUME NEW n \in Places("compute")', IsUpdate(n)', NEW w, w = WorkAt("compute", n)'
        PROVE  \/ \E m \in Places("h2d")' :
                    IsLoadKv(m, w.chunk, w.index)' /\ Waits("compute", n, "h2d", m)'
               \/ /\ dkv'[KvBuffer(w.index)] = TilesOf(qpage)[w.index + 1]
                  /\ \A m \in Places("h2d")' :
                       WorkAt("h2d", m)'.op = "load_kv" => Before(w, WorkAt("h2d", m)')
    <3>1. n \in Places("compute") /\ IsUpdate(n) /\ w = WorkAt("compute", n)
      BY <1>3, <1>19, <2>2
    <3>2. CASE \E m \in Places("h2d") :
                 IsLoadKv(m, w.chunk, w.index) /\ Waits("compute", n, "h2d", m)
      BY <1>3, <3>1, <3>2 DEF IsLoadKv
    <3>3. CASE /\ dkv[KvBuffer(w.index)] = TilesOf(qpage)[w.index + 1]
               /\ \A m \in Places("h2d") :
                    WorkAt("h2d", m).op = "load_kv" => Before(w, WorkAt("h2d", m))
      BY <1>3, <1>4, <3>3
    <3> QED BY <1>7, <3>1, <3>2, <3>3 DEF KvReady
  <2> QED BY <2>1, <2>2 DEF KvReady, IsLoadKv, Before
<1>23. KvFree'
  BY <1>3, <1>7, <1>19 DEF KvFree, Before
<1>24. StagesRead'
  <2>1. \A i : KvPage(i)' = KvPage(i)
    BY <1>4 DEF KvPage
  <2>2. Len(Q("h2d"))' = Len(Q("h2d"))
    BY <1>2
  <2>3. ASSUME NEW m \in Places("h2d")', WorkAt("h2d", m)'.op = "load_kv",
               NEW k, k = PageOfTile(WorkAt("h2d", m)'.index)
        PROVE  /\ stage[StageOf(k)] = <<KvPage(k)>>
               /\ loads[StageOf(k)].phase = "none"
               /\ \E j \in m .. Len(Q("h2d"))' : Records("h2d", j, <<"stage_free", StageOf(k)>>)'
    <3>1. m \in Places("h2d") /\ WorkAt("h2d", m).op = "load_kv"
          /\ k = PageOfTile(WorkAt("h2d", m).index)
      BY <1>3, <2>3
    <3>2. /\ stage[StageOf(k)] = <<KvPage(k)>>
          /\ loads[StageOf(k)].phase = "none"
          /\ \E j \in m .. Len(Q("h2d")) : Records("h2d", j, <<"stage_free", StageOf(k)>>)
      BY <1>7, <1>8, <3>1 DEF StagesRead
    <3>3. PICK j \in m .. Len(Q("h2d")) : Records("h2d", j, <<"stage_free", StageOf(k)>>)
      BY <3>2
    <3>4. j \in Places("h2d")
      BY <1>5, <1>6, <3>1 DEF Places
    <3> QED BY <1>3, <2>2, <3>2, <3>3, <3>4
  <2> QED BY <1>4, <1>8, <2>1, <2>3 DEF StagesRead
<1>25. AccumulatorExact'
  <2> DEFINE C == Q("compute")
             n == Len(C)
  <2>1. /\ n \in Nat /\ M = n + 1 /\ F = n + 2 /\ Len(C)' = F
        /\ (C = <<>> <=> n = 0)
    <3>1. C \in Seq(Operations)
      BY <1>5 DEF Devices, Q
    <3>2. n \in Nat /\ (C = <<>> <=> n = 0)
      <4> HIDE DEF C
      <4> QED BY <3>1, EmptySeq
    <3> QED BY <1>2, <3>2
  <2>2. /\ \A i \in 1 .. n : C[i].work = WorkAt("compute", i) /\ i \in Places("compute")
        /\ \A i : C[i].work' = WorkAt("compute", i)'
    BY DEF WorkAt, Places
  <2>3. \A i \in 1 .. n : C[i].work' = C[i].work
    BY <1>3, <2>2
  <2>4. /\ \A w : CountBefore(w)' = CountBefore(w) /\ CountAfter(w)' = CountAfter(w)
        /\ acc' = acc
    BY <1>3, <1>4 DEF CountBefore, CountAfter
  <2>5. /\ C[M].work'.chunk = chunk /\ CountBefore(C[M].work') = kvTile
        /\ CountAfter(C[M].work') = kvTile
        /\ C[F].work'.chunk = chunk /\ CountBefore(C[F].work') = kvTile
    BY <1>8, <1>10, <2>2 DEF CountBefore, CountAfter
  <2>6. /\ C # <<>> =>
             CountBefore(C[1].work) = 0 \/ acc = Partial(C[1].work.chunk, CountBefore(C[1].work))
        /\ \A i \in 1 .. n - 1 :
             \/ CountBefore(C[i + 1].work) = 0
             \/ /\ C[i + 1].work.chunk = C[i].work.chunk
                /\ CountBefore(C[i + 1].work) = CountAfter(C[i].work)
        /\ IF C = <<>> THEN acc = Partial(chunk, kvTile)
           ELSE C[n].work.chunk = chunk /\ CountAfter(C[n].work) = kvTile
    BY <1>7, <1>8, <1>9 DEF AccumulatorExact
  <2> HIDE DEF C, n
  <2>8. ASSUME NEW v, v = C[1].work'
        PROVE  CountBefore(v) = 0 \/ acc = Partial(v.chunk, CountBefore(v))
    <3>1. CASE C = <<>>
      <4>1. M = 1
        BY <2>1, <3>1
      <4> QED BY <2>5, <2>6, <2>8, <3>1, <4>1
    <3>2. CASE C # <<>>
      <4>1. 1 \in 1 .. n
        BY <2>1, <3>2
      <4> QED BY <2>3, <2>6, <2>8, <3>2, <4>1
    <3> QED BY <3>1, <3>2
  <2>9. ASSUME NEW i \in 1 .. F - 1, NEW v, v = C[i].work', NEW w, w = C[i + 1].work'
        PROVE  \/ CountBefore(w) = 0
               \/ w.chunk = v.chunk /\ CountBefore(w) = CountAfter(v)
    <3>1. i \in 1 .. n \/ (i = M /\ i + 1 = F)
      BY <2>1
    <3>2. CASE i = M /\ i + 1 = F
      BY <2>5, <2>9, <3>2
    <3>3. CASE i = n /\ i \in 1 .. n
      <4>1. i + 1 = M /\ C # <<>> /\ v = C[i].work
        BY <2>1, <2>3, <2>9, <3>3
      <4> QED BY <2>5, <2>6, <2>9, <3>3, <4>1
    <3>4. CASE i # n /\ i \in 1 .. n
      <4>1. i \in 1 .. n - 1 /\ i + 1 \in 1 .. n
        BY <2>1, <3>4
      <4> QED BY <2>3, <2>6, <2>9, <3>4, <4>1
    <3> QED BY <3>1, <3>2, <3>3, <3>4
  <2> QED BY <1>3, <1>9, <2>1, <2>4, <2>8, <2>9 DEF AccumulatorExact, C, n
<1>26. OutputFree'
  <2>1. ASSUME NEW n \in Places("compute")', NEW m \in Places("d2h")',
               NEW v, v = WorkAt("compute", n)', NEW w, w = WorkAt("d2h", m)',
               IsFinalize(n)', DeviceOutput(v.index) = DeviceOutput(w.index), w.index < v.index
        PROVE  Waits("compute", n, "d2h", m)'
    <3>1. CASE n \in Places("compute") /\ m \in Places("d2h")
      <4>1. IsFinalize(n)
        BY <1>2, <1>19, <2>1, <3>1
      <4> QED BY <1>3, <1>7, <2>1, <3>1, <4>1 DEF OutputFree
    <3>2. CASE n = F /\ m \in Places("d2h")
      <4>1. w = WorkAt("d2h", m) /\ DeviceOutput(w.index) = o /\ w.op = "store"
        BY <1>0000, <1>a, <1>3, <1>10, <1>13, <2>1, <3>2
      <4>2. <<"output_free", o>> \in Evidence(WorkAt("d2h", m))
        BY <4>1 DEF Evidence
      <4>3. Records("d2h", m, <<"output_free", o>>)
        BY <1>5, <3>2, <4>2 DEF Hosting, DeviceInv, OperationsRecord
      <4>4. m \in 1 .. m
        BY <1>5, <1>6, <3>2
      <4> QED BY <1>2, <3>2, <4>3, <4>4
    <3>3. CASE m = L
      <4>1. w.index = index
        BY <1>10, <2>1, <3>3
      <4>2. v.index \in Nat /\ v.index <= index
        <5>1. CASE n = F
          BY <1>5, <1>10, <2>1, <5>1
        <5>2. CASE n \in Places("compute")
          <6>1. v = WorkAt("compute", n) /\ v.op = "finalize"
            BY <1>3, <2>1, <5>2 DEF IsFinalize
          <6>2. v.index \in Nat /\ v.index < index
            BY <1>5, <1>6, <1>11, <5>2, <6>1
          <6> QED BY <1>5, <6>2
        <5> QED BY <1>19, <2>1, <5>1, <5>2
      <4> QED BY <1>5, <2>1, <4>1, <4>2
    <3> QED BY <1>2, <1>19, <2>1, <3>1, <3>2, <3>3
  <2>2. ASSUME NEW n \in Places("compute")', IsFinalize(n)'
        PROVE  \E m \in Places("d2h")' : WorkAt("d2h", m)'.index = WorkAt("compute", n)'.index
    <3>1. CASE n = F
      BY <1>2, <1>10, <3>1
    <3>2. CASE n \in Places("compute") /\ IsFinalize(n)
      BY <1>3, <1>7, <3>2 DEF OutputFree
    <3> QED BY <1>19, <2>2, <3>1, <3>2
  <2>3. IsFinalize(Len(Q("compute")))'
    BY <1>2, <1>10 DEF IsFinalize
  <2> QED BY <2>1, <2>2, <2>3 DEF OutputFree
<1>27. OutputReady'
  <2>1. ASSUME NEW m \in Places("d2h")', NEW w, w = WorkAt("d2h", m)'
        PROVE  \/ \E n \in Places("compute")' :
                    /\ IsFinalize(n)'
                    /\ WorkAt("compute", n)'.index = w.index
                    /\ WorkAt("compute", n)'.chunk = w.chunk
                    /\ Waits("d2h", m, "compute", n)'
               \/ /\ dout'[DeviceOutput(w.index)] = Partial(w.chunk, NumTiles)
                  /\ \A n \in Places("compute")' :
                       IsFinalize(n)' => WorkAt("compute", n)'.index > w.index
    <3>1. CASE m = L
      BY <1>2, <1>10, <1>19, <2>1, <3>1
    <3>2. CASE m \in Places("d2h")
      <4>1. w = WorkAt("d2h", m) /\ w.index \in Nat /\ w.index < index
        BY <1>3, <1>5, <1>6, <1>11, <1>13, <2>1, <3>2
      <4>2. CASE \E n \in Places("compute") :
                   /\ IsFinalize(n)
                   /\ WorkAt("compute", n).index = w.index
                   /\ WorkAt("compute", n).chunk = w.chunk
                   /\ Waits("d2h", m, "compute", n)
        BY <1>3, <1>19, <3>2, <4>2
      <4>3. CASE /\ dout[DeviceOutput(w.index)] = Partial(w.chunk, NumTiles)
                 /\ \A n \in Places("compute") :
                      IsFinalize(n) => WorkAt("compute", n).index > w.index
        <5>1. index > w.index
          BY <1>5, <4>1
        <5> QED BY <1>3, <1>4, <1>10, <1>19, <4>3, <5>1
      <4> QED BY <1>7, <3>2, <4>1, <4>2, <4>3 DEF OutputReady
    <3> QED BY <1>2, <2>1, <3>1, <3>2
  <2>2. \A c : Partial(c, NumTiles)' = Partial(c, NumTiles)
    BY <1>3
  <2> QED BY <2>1, <2>2 DEF OutputReady
<1>28. ChunksStored'
  <2>1. ASSUME NEW c \in Chunks, Closed(c)'
        PROVE  \/ \E m \in Places("d2h")' : WorkAt("d2h", m)'.chunk = c
               \/ out'[OutSlot][c] = Partial(c, NumTiles)
    <3>1. c \in Nat
      BY RunAssumption DEF Chunks
    <3>2. CASE c = chunk
      BY <1>2, <1>10, <3>2
    <3>3. CASE c # chunk
      <4>1. Closed(c)
        BY <1>5, <1>9, <2>1, <3>1, <3>3
      <4>2. CASE \E m \in Places("d2h") : WorkAt("d2h", m).chunk = c
        BY <1>3, <4>2
      <4>3. CASE out[OutSlot][c] = Partial(c, NumTiles)
        BY <1>4, <4>3
      <4> QED BY <1>7, <1>9, <4>1, <4>2, <4>3 DEF ChunksStored
    <3> QED BY <3>2, <3>3
  <2>2. \A c : Partial(c, NumTiles)' = Partial(c, NumTiles)
    BY <1>3
  <2> QED BY <1>3, <1>4, <2>1, <2>2 DEF ChunksStored
<1> QED
  BY <1>12, <1>14, <1>15, <1>16, <1>17, <1>18, <1>20, <1>21, <1>22, <1>23, <1>24, <1>25, <1>26,
     <1>27, <1>28 DEF LoopInv

-----------------------------------------------------------------------------
(* Every step. *)

\* The host's steps.
LEMMA HostStepKeeps ==
  ASSUME TritonInv, Host
  PROVE  TritonInv'
<1>1. RunInv /\ DeviceInv /\ (pc \in Executing => Hosting)
  BY DEF TritonInv, Hosting
<1>2. CASE BeginPage
  <2>1. Hosting
    BY <1>1, <1>2 DEF BeginPage, Executing
  <2> QED BY <1>2, <2>1, BeginPageKeeps DEF TritonInv
<1>3. CASE SlotWriteFailed
  <2>1. pc \in Loop /\ Unwind /\ UNCHANGED deviceVars
    BY <1>3 DEF SlotWriteFailed, Loop, Executing
  <2> QED BY <1>1, <2>1, UnwindKeeps DEF TritonInv
<1>4. CASE BeginChunk
  <2>1. Hosting
    BY <1>1, <1>4 DEF BeginChunk, Executing
  <2> QED BY <1>4, <2>1, BeginChunkKeeps DEF TritonInv
<1>5. CASE Submit
  <2>1. Hosting
    BY <1>1, <1>5 DEF Submit, SubmitLoad, Executing
  <2> QED BY <1>5, <2>1, SubmitKeeps DEF TritonInv
<1>6. CASE Consume
  <2>1. Hosting
    BY <1>1, <1>6 DEF Consume, TakeLoad, Executing
  <2> QED BY <1>6, <2>1, ConsumeKeeps DEF TritonInv
<1>7. CASE ConsumeTile
  <2>1. Hosting
    BY <1>1, <1>7 DEF ConsumeTile, LaunchTile, Executing
  <2> QED BY <1>7, <2>1, ConsumeTileKeeps DEF TritonInv
<1>8. CASE ReleaseStage
  <2>1. Hosting
    BY <1>1, <1>8 DEF ReleaseStage, Executing
  <2> QED BY <1>8, <2>1, ReleaseStageKeeps DEF TritonInv
<1>9. CASE EndChunk
  <2>1. Hosting
    BY <1>1, <1>9 DEF EndChunk, ScanDone, Executing
  <2> QED BY <1>9, <2>1, EndChunkKeeps DEF TritonInv
<1>10. CASE OutputOnHost
  <2>1. Hosting
    BY <1>1, <1>10 DEF OutputOnHost, Executing
  <2> QED BY <1>10, <2>1, OutputOnHostKeeps DEF TritonInv
<1>11. CASE SubmitOutput /\ UNCHANGED deviceVars
  <2>1. Hosting
    BY <1>1, <1>11 DEF SubmitOutput, Executing
  <2> QED BY <1>11, <2>1, SubmitOutputKeeps DEF TritonInv
<1>12. CASE LoopDone /\ Ending /\ UNCHANGED deviceVars
  BY <1>1, <1>12, EndingKeeps DEF TritonInv
<1> QED
  BY <1>2, <1>3, <1>4, <1>5, <1>6, <1>7, <1>8, <1>9, <1>10, <1>11, <1>12 DEF Host

LEMMA DeviceStepKeeps ==
  ASSUME TritonInv, NEW s \in Streams, DeviceStep(s)
  PROVE  TritonInv'
<1>1. RunInv' /\ DeviceInv'
  BY StepKeepsDevice DEF TritonInv
<1>2. pc' = pc
  BY DEF DeviceStep
<1>3. pc \in Executing => LoopInv'
  <2>1. pc \in Executing => Stepping(s)
    BY DEF TritonInv, Stepping
  <2> QED BY <2>1, StepKeepsLoop
<1> QED
  BY <1>1, <1>2, <1>3 DEF TritonInv

LEMMA UnchangedKeeps ==
  ASSUME TritonInv, UNCHANGED vars
  PROVE  TritonInv'
<1>1. UNCHANGED <<pc, qpage, chunk, submitted, consumed, queue, loads, writes, qHost, stage, out,
                  deviceVars>> /\ UNCHANGED runVars
  BY DEF vars, runVars
<1>2. RunInv'
  BY <1>1, StutterRun DEF TritonInv
<1>3. DeviceInv'
  BY <1>1, SameDevice DEF TritonInv
<1>4. ASSUME pc \in Executing PROVE LoopInv'
  <2>1. LoopInv /\ UNCHANGED <<device, kvTile>>
    BY <1>1, <1>4 DEF TritonInv, deviceVars
  <2>2. Cursor'
    <3>1. Quiet' <=> Quiet
      BY <2>1 DEF Quiet, OnlyMarks, Q, Places, WorkAt
    <3>2. UNCHANGED <<OutSlot, Answer(qpage), KvTotal>>
      BY <1>1 DEF OutSlot, Answer, TilesOf, KvTotal
    <3> QED BY <1>1, <2>1, <3>1, <3>2 DEF LoopInv, Cursor, Computing
  <2>3. StagesRead'
    <3>1. \A i : KvPage(i)' = KvPage(i)
      BY <1>1 DEF KvPage
    <3> QED BY <1>1, <2>1, <3>1 DEF LoopInv, StagesRead, Places, Q, WorkAt, Records
  <2> QED BY <1>1, <2>1, <2>2, <2>3, SameLoop
<1> QED
  BY <1>1, <1>2, <1>3, <1>4 DEF TritonInv

LEMMA NextKeeps == TritonInv /\ [Next]_vars => TritonInv'
<1> SUFFICES ASSUME TritonInv, [Next]_vars PROVE TritonInv'
  OBVIOUS
<1>1. CASE Host
  BY <1>1, HostStepKeeps
<1>2. CASE MainRaises /\ UNCHANGED deviceVars
  <2>1. RunInv /\ DeviceInv /\ pc \in Loop /\ Unwind
    BY <1>2 DEF TritonInv, MainRaises, Loop
  <2> QED BY <1>2, <2>1, UnwindKeeps DEF TritonInv
<1>3. CASE (Pool \/ TaskFails) /\ UNCHANGED deviceVars
  BY <1>3, PoolKeeps
<1>4. CASE \E s \in Streams : DeviceStep(s)
  BY <1>4, DeviceStepKeeps
<1>5. CASE UNCHANGED vars
  BY <1>5, UnchangedKeeps
<1> QED
  BY <1>1, <1>2, <1>3, <1>4, <1>5 DEF Next, Ended

-----------------------------------------------------------------------------
(* What holds of every run. *)

\* Every buffer of the CUDA executor holds what the next operation to read it was
\* launched for, and the launched operations accumulate each tile once, in order.
THEOREM TritonInvariant == Spec => []TritonInv
<1> QED BY InitTriton, NextKeeps, PTL DEF Spec

\* Every page the writer has received is the exact attention of its queries.
THEOREM PagesExact == Spec => []DeliveredPagesExact
<1>1. TritonInv => DeliveredPagesExact
  BY DEF TritonInv, RunInv
<1> QED BY <1>1, TritonInvariant, PTL

\* No thread reads or writes once the readers, the writer and the staging are gone.
THEOREM NoLateIo == Spec => []NoIoOnceOver
<1>1. TritonInv => NoIoOnceOver
  BY RunIsQuiet DEF TritonInv
<1> QED BY <1>1, TritonInvariant, PTL

\* A step of the run is a step of the abstract run, or one it does not see.
LEMMA StepPromised == TritonInv /\ [Next]_vars => [Promise!Next]_(Promise!absVars)
<1> SUFFICES ASSUME TritonInv, [Next]_vars
             PROVE  Promise!Next \/ UNCHANGED <<sink, outcome>>
  BY DEF Promise!absVars
<1>1. RunInv
  BY DEF TritonInv
<1>2. CASE Host
  <2>1. CASE Publish
    BY <1>1, <2>1, PublishPromised DEF Promise!Next
  <2>2. CASE AbortWriter
    BY <1>1, <2>2, AbortPromised DEF Promise!Next
  <2>3. CASE Ending /\ ~Publish /\ ~AbortWriter
    BY <2>3 DEF Ending, FinishWrites, AwaitedTaskFailed, Unwind, DropQueue, Teardown
  <2>4. CASE BeginPage \/ SlotWriteFailed \/ BeginChunk \/ Submit
    BY <2>4 DEF BeginPage, SlotWriteFailed, Unwind, BeginChunk, Submit, SubmitLoad
  <2>5. CASE Consume \/ ConsumeTile \/ ReleaseStage
    BY <2>5 DEF Consume, ConsumeTile, LaunchTile, ReleaseStage, runVars
  <2>6. CASE EndChunk \/ OutputOnHost \/ SubmitOutput
    BY <2>6 DEF EndChunk, OutputOnHost, SubmitOutput
  <2> QED BY <1>2, <2>1, <2>2, <2>3, <2>4, <2>5, <2>6 DEF Host
<1>3. CASE MainRaises
  BY <1>3 DEF MainRaises, Unwind
<1>4. CASE Pool \/ TaskFails
  <2>1. CASE \E o \in OutSlots : FinishWrite(o)
    <3>1. PICK q \in QPages : Promise!Deliver(q)
      BY <1>1, <2>1, DeliverPromised
    <3> QED BY <3>1 DEF Promise!Next
  <2>2. CASE StartTask \/ (\E s \in Stages : FinishLoad(s)) \/ TaskFails
    BY <2>2 DEF StartTask, FinishLoad, TaskFails
  <2> QED BY <1>4, <2>1, <2>2 DEF Pool
<1>5. CASE \E s \in Streams : DeviceStep(s)
  BY <1>5 DEF DeviceStep
<1>6. CASE UNCHANGED vars
  BY <1>6 DEF vars, runVars
<1> QED
  BY <1>2, <1>3, <1>4, <1>5, <1>6 DEF Next, Ended

\* The CUDA executor implements the abstract run: it delivers each page at most
\* once, and exact, and returns only when the sink has all of them.
THEOREM TritonKeepsItsPromise == Spec => KeepsItsPromise
<1>1. Init => Promise!Init
  BY RunInitPromised DEF Init
<1>2. QED
  BY <1>1, StepPromised, TritonInvariant, PTL DEF Spec, KeepsItsPromise, Promise!Spec
=============================================================================
