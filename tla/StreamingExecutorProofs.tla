---------------------- MODULE StreamingExecutorProofs ----------------------
(***************************************************************************)
(* What the streaming executor may assume of the device when a call has    *)
(* ended, and what its callers may assume of the outputs, for every number *)
(* of tasks, tiles, buffers and calls and every order in which the streams *)
(* run.                                                                    *)
(***************************************************************************)
EXTENDS StreamingExecutor, Integers, WellFoundedInduction, TLAPS

-----------------------------------------------------------------------------
(* Sequences put together in a loop. *)

\* A set of natural numbers has a least member.
LEMMA LeastNumber ==
  ASSUME NEW T, T \subseteq Nat, T # {}
  PROVE  \E m \in T : \A n \in T : m <= n
<1> DEFINE R == OpToRel(<, Nat)
<1>1. \E m \in T : \A n \in T : ~(<<n, m>> \in R)
  <2>1. IsWellFoundedOn(R, Nat)
    BY NatLessThanWellFounded
  <2> HIDE DEF R
  <2> QED BY <2>1, WFMin
<1>2. PICK m \in T : \A n \in T : ~(<<n, m>> \in R)
  BY <1>1
<1>3. \A n \in T : ~(n < m)
  BY <1>2 DEF OpToRel
<1> HIDE DEF R
<1>4. \A n \in T : m <= n
  BY <1>3
<1> QED BY <1>4

\* What FlattenSeq recurses on.
Flattens(seqs, f) ==
  f = [i \in 1 .. Len(seqs) |-> IF i = 1 THEN seqs[i] ELSE f[i - 1] \o seqs[i]]

LEMMA FlattenDef ==
  ASSUME NEW seqs, Len(seqs) \in Nat \ {0}
  PROVE  FlattenSeq(seqs) = (CHOOSE f : Flattens(seqs, f))[Len(seqs)]
BY DEF FlattenSeq, Flattens

LEMMA FlattenExists ==
  ASSUME NEW seqs, Len(seqs) \in Nat \ {0}
  PROVE  \E f : Flattens(seqs, f)
<1> DEFINE n == Len(seqs)
           Upto(k, f) == f = [i \in 1 .. k |-> IF i = 1 THEN seqs[i] ELSE f[i - 1] \o seqs[i]]
           Bad == {k \in 1 .. n : ~ \E f : Upto(k, f)}
<1>1. Bad = {}
  <2> SUFFICES ASSUME Bad # {} PROVE FALSE
    OBVIOUS
  <2>1. PICK m \in Bad : \A k \in Bad : m <= k
    <3>1. Bad \subseteq 1 .. n /\ 1 .. n \subseteq Nat
      <4> HIDE DEF Upto
      <4> QED OBVIOUS
    <3> HIDE DEF Bad
    <3> QED BY <3>1, LeastNumber
  <2>2. m \in 1 .. n /\ ~ \E f : Upto(m, f)
    OBVIOUS
  <2>3. CASE m = 1
    <3> DEFINE f == [i \in 1 .. 1 |-> seqs[i]]
    <3>1. Upto(m, f)
      BY <2>3
    <3> QED BY <2>2, <3>1
  <2>4. CASE m # 1
    <3>1. m - 1 \in 1 .. n /\ ~(m <= m - 1)
      BY <2>2, <2>4
    <3>2. m - 1 \notin Bad
      BY <2>1, <3>1
    <3>3. PICK g : Upto(m - 1, g)
      BY <3>1, <3>2
    <3> DEFINE f == [i \in 1 .. m |-> IF i = m THEN g[m - 1] \o seqs[m] ELSE g[i]]
    <3>4. \A i \in 1 .. m : f[i] = IF i = 1 THEN seqs[i] ELSE f[i - 1] \o seqs[i]
      <4> SUFFICES ASSUME NEW i \in 1 .. m
                   PROVE  f[i] = IF i = 1 THEN seqs[i] ELSE f[i - 1] \o seqs[i]
        OBVIOUS
      <4>1. \A j \in 1 .. m - 1 : g[j] = IF j = 1 THEN seqs[j] ELSE g[j - 1] \o seqs[j]
        BY <3>3
      <4>2. CASE i = m
        <5>1. i # 1 /\ i - 1 \in 1 .. m /\ i - 1 # m /\ i - 1 = m - 1
          BY <2>2, <2>4, <4>2
        <5>2. f[i] = g[m - 1] \o seqs[m] /\ f[i - 1] = g[i - 1]
          BY <4>2, <5>1
        <5> QED BY <4>2, <5>1, <5>2
      <4>3. CASE i # m
        <5>1. i \in 1 .. m - 1 /\ (i # 1 => i - 1 \in 1 .. m /\ i - 1 # m)
          BY <2>2, <4>3
        <5>2. f[i] = g[i] /\ (i # 1 => f[i - 1] = g[i - 1])
          BY <4>3, <5>1
        <5> QED BY <4>1, <5>1, <5>2
      <4> QED BY <4>2, <4>3
    <3>5. Upto(m, f)
      <4>1. f = [i \in 1 .. m |-> f[i]]
        OBVIOUS
      <4> HIDE DEF f
      <4> QED BY <3>4, <4>1
    <3> QED BY <2>2, <3>5
  <2> QED BY <2>3, <2>4
<1>2. n \in 1 .. n
  OBVIOUS
<1>3. \E f : Upto(n, f)
  BY <1>1, <1>2
<1> QED BY <1>3 DEF Flattens

\* A set of sequences that is closed under concatenation contains what its
\* members are flattened to, which ends with the last of them.
LEMMA FlattenedIn ==
  ASSUME NEW S, \A a, b \in S : a \o b \in S,
         NEW seqs, Len(seqs) \in Nat \ {0}, \A i \in 1 .. Len(seqs) : seqs[i] \in S
  PROVE  /\ FlattenSeq(seqs) \in S
         /\ \/ Len(seqs) = 1 /\ FlattenSeq(seqs) = seqs[1]
            \/ \E before \in S : FlattenSeq(seqs) = before \o seqs[Len(seqs)]
<1> DEFINE n == Len(seqs)
           f == CHOOSE f : Flattens(seqs, f)
<1>1. Flattens(seqs, f)
  BY FlattenExists
<1>2. FlattenSeq(seqs) = f[n]
  BY FlattenDef
<1> HIDE DEF f
<1>3. \A i \in 1 .. n : f[i] = IF i = 1 THEN seqs[i] ELSE f[i - 1] \o seqs[i]
  BY <1>1 DEF Flattens
<1> DEFINE Bad == {k \in 1 .. n : f[k] \notin S}
<1>4. Bad = {}
  <2> SUFFICES ASSUME Bad # {} PROVE FALSE
    OBVIOUS
  <2>1. PICK m \in Bad : \A k \in Bad : m <= k
    <3>1. Bad \subseteq Nat
      OBVIOUS
    <3> HIDE DEF Bad
    <3> QED BY <3>1, LeastNumber
  <2>2. m # 1
    BY <1>3
  <2>3. m - 1 \in 1 .. n /\ ~(m <= m - 1)
    BY <2>2
  <2>4. f[m - 1] \in S
    BY <2>1, <2>3
  <2>5. f[m] = f[m - 1] \o seqs[m]
    BY <1>3, <2>2
  <2> QED BY <2>4, <2>5
<1>5. \A k \in 1 .. n : f[k] \in S
  BY <1>4
<1>6. CASE n = 1
  BY <1>2, <1>3, <1>5, <1>6
<1>7. CASE n # 1
  <2>1. n - 1 \in 1 .. n /\ n \in 1 .. n
    BY <1>7
  <2>2. f[n] = f[n - 1] \o seqs[n] /\ f[n] \in S /\ f[n - 1] \in S
    BY <1>3, <1>5, <1>7, <2>1
  <2> QED BY <1>2, <2>2
<1> QED BY <1>6, <1>7

-----------------------------------------------------------------------------
(* What a program is made of. *)

\* The events that say a load was performed, and the end of the pipeline.
Watched == {e \in Events : e[1] \in {"q_ready", "kv_ready", "hidden_ready", "pipeline_end"}}

\* The stream that records them.
Home(e) ==
  IF e[1] = "hidden_ready" THEN e[2] ELSE IF e[1] = "pipeline_end" THEN "compute" ELSE "h2d"

\* The streams the loads of a call are enqueued on.
LoadStreams(c) == IF FromHost(c) THEN {"h2d"} ELSE {Staging(c, "q"), Staging(c, "kv")}

Calls == [id : Nat, mode : {"host", "device_consumer"}, kind : Kinds]

\* The operations of the calls in `ids`.
WorksOf(ids) ==
  [op : {"load"}, to : Buffers(ids), rows : ids \X {"q", "kv"} \X Nat]
    \cup [op : {"copy"}, from : Buffers(ids), to : Buffers(ids)]
    \cup [op : {"update"}, kv : Buffers(ids), initialize : BOOLEAN, scratch : SUBSET Buffers(ids)]
    \cup [op : {"store"}, from : Buffers(ids), id : ids, task : Nat]
    \cup {Mark}

Works(c) == WorksOf({c.id})

Steps(c) ==
  {x \in [stream : Streams, guards : SUBSET Events, waits : SUBSET Events, work : Works(c),
          records : SUBSET Events, flags : SUBSET Events] :
     /\ \A e \in x.records \cap Watched : x.stream = Home(e)
     /\ x.work.op = "load" => x.stream \in LoadStreams(c)}

\* A step of the compute stream that waits for what x records.
Awaits(x, y) == y.stream = "compute" /\ x.records \cap Watched \cap y.waits # {}

\* Every load is awaited by a step behind it.
Awaited(s) ==
  \A i \in 1 .. Len(s) : s[i].work.op = "load" => \E j \in i + 1 .. Len(s) : Awaits(s[i], s[j])

Whole(c) == {s \in Seq(Steps(c)) : Awaited(s)}

\* Steps that load nothing.
Quiet(c) == {x \in Steps(c) : x.work.op # "load"}

LEMMA QuietWhole == ASSUME NEW c, NEW s \in Seq(Quiet(c)) PROVE s \in Whole(c)
<1>1. s \in Seq(Steps(c)) /\ \A i \in 1 .. Len(s) : s[i].work.op # "load"
  <2>1. Quiet(c) \subseteq Steps(c)
    BY DEF Quiet
  <2>2. \A i \in 1 .. Len(s) : s[i] \in Quiet(c)
    OBVIOUS
  <2>3. \A i \in 1 .. Len(s) : s[i].work.op # "load"
    BY <2>2 DEF Quiet
  <2> HIDE DEF Quiet
  <2> QED BY <2>1, <2>2, <2>3
<1> QED BY <1>1 DEF Whole, Awaited

LEMMA WholeJoins ==
  ASSUME NEW c, NEW a \in Whole(c), NEW b \in Whole(c)
  PROVE  a \o b \in Whole(c)
<1> DEFINE m == Len(a)
           n == Len(b)
           s == a \o b
<1>1. a \in Seq(Steps(c)) /\ b \in Seq(Steps(c)) /\ Awaited(a) /\ Awaited(b)
  BY DEF Whole
<1>2. /\ m \in Nat /\ n \in Nat /\ s \in Seq(Steps(c)) /\ Len(s) = m + n
      /\ \A i \in 1 .. m : s[i] = a[i]
      /\ \A i \in m + 1 .. m + n : s[i] = b[i - m]
  BY <1>1
<1> HIDE DEF s, m, n
<1>3. ASSUME NEW i \in 1 .. m + n, s[i].work.op = "load"
      PROVE  \E j \in i + 1 .. m + n : Awaits(s[i], s[j])
  <2>1. CASE i \in 1 .. m
    <3>1. PICK j \in i + 1 .. m : Awaits(a[i], a[j])
      BY <1>1, <1>2, <1>3, <2>1 DEF Awaited, m
    <3>2. j \in i + 1 .. m + n /\ j \in 1 .. m
      BY <1>2, <2>1
    <3> QED BY <1>2, <2>1, <3>1, <3>2
  <2>2. CASE i \notin 1 .. m
    <3>1. i - m \in 1 .. n /\ i \in m + 1 .. m + n
      BY <1>2, <2>2
    <3>2. PICK j \in (i - m) + 1 .. n : Awaits(b[i - m], b[j])
      BY <1>1, <1>2, <1>3, <3>1 DEF Awaited, n
    <3>3. j + m \in i + 1 .. m + n /\ j + m \in m + 1 .. m + n /\ (j + m) - m = j
      BY <1>2, <3>1
    <3>4. s[i] = b[i - m] /\ s[j + m] = b[j]
      BY <1>2, <3>1, <3>3
    <3> QED BY <3>2, <3>3, <3>4
  <2> QED BY <2>1, <2>2
<1>4. Awaited(s)
  BY <1>2, <1>3 DEF Awaited
<1> QED BY <1>2, <1>4 DEF Whole, s

\* A load in front of steps of which one awaits it.
LEMMA LoadInFront ==
  ASSUME NEW c, NEW x \in Steps(c), NEW s \in Whole(c),
         NEW k \in 1 .. Len(s), Awaits(x, s[k])
  PROVE  <<x>> \o s \in Whole(c)
<1> DEFINE n == Len(s)
           r == <<x>> \o s
<1>1. s \in Seq(Steps(c)) /\ Awaited(s)
  BY DEF Whole
<1>2. /\ n \in Nat /\ r \in Seq(Steps(c)) /\ Len(r) = n + 1 /\ r[1] = x
      /\ \A i \in 2 .. n + 1 : r[i] = s[i - 1]
  BY <1>1
<1> HIDE DEF r, n
<1>3. ASSUME NEW i \in 1 .. n + 1, r[i].work.op = "load"
      PROVE  \E j \in i + 1 .. n + 1 : Awaits(r[i], r[j])
  <2>1. CASE i = 1
    <3>1. k + 1 \in 2 .. n + 1 /\ k + 1 \in i + 1 .. n + 1 /\ (k + 1) - 1 = k
      BY <1>2, <2>1 DEF n
    <3> QED BY <1>2, <2>1, <3>1
  <2>2. CASE i # 1
    <3>1. i - 1 \in 1 .. n /\ i \in 2 .. n + 1
      BY <1>2, <2>2
    <3>2. PICK j \in (i - 1) + 1 .. n : Awaits(s[i - 1], s[j])
      BY <1>1, <1>2, <1>3, <3>1 DEF Awaited, n
    <3>3. j + 1 \in i + 1 .. n + 1 /\ j + 1 \in 2 .. n + 1 /\ (j + 1) - 1 = j
      BY <1>2, <3>1
    <3>4. r[i] = s[i - 1] /\ r[j + 1] = s[j]
      BY <1>2, <3>1, <3>3
    <3> QED BY <3>2, <3>3, <3>4
  <2> QED BY <2>1, <2>2
<1>4. Awaited(r)
  BY <1>2, <1>3 DEF Awaited
<1> QED BY <1>2, <1>4 DEF Whole, r

-----------------------------------------------------------------------------
(* The steps of a program, one block after the other. *)

LEMMA EventFacts ==
  /\ \A e \in {QReady, PipelineEnd} : e \in Watched
  /\ \A e \in {QFree, H2dEnd, TaskDone} : e \in Events \ Watched
  /\ \A b \in KvBuffers : KvReady(b) \in Watched /\ KvFree(b) \in Events \ Watched
  /\ \A o \in OutputBuffers : {OutputReady(o), OutputFree(o)} \subseteq Events \ Watched
  /\ \A w \in Stagings : HiddenReady(w) \in Watched /\ HiddenFree(w) \in Events \ Watched
  /\ \A s \in ConsumerBuffers : {ConsumerReady(s), ConsumerFree(s)} \subseteq Events \ Watched
  /\ Home(QReady) = "h2d" /\ Home(PipelineEnd) = "compute"
  /\ \A b \in KvBuffers : Home(KvReady(b)) = "h2d"
  /\ \A w \in Stagings : Home(HiddenReady(w)) = w
BY DEF Watched, Events, Home, QReady, PipelineEnd, QFree, H2dEnd, TaskDone, KvReady, KvFree,
       OutputReady, OutputFree, HiddenReady, HiddenFree, ConsumerReady, ConsumerFree

LEMMA BufferFacts ==
  ASSUME NEW c \in Calls
  PROVE  /\ {Q, Accumulator} \subseteq Buffers({c.id})
         /\ \A b \in KvBuffers : Kv(b) \in Buffers({c.id})
         /\ \A o \in OutputBuffers : Output(o) \in Buffers({c.id})
         /\ \A w \in Stagings : Hidden(w) \in Buffers({c.id})
         /\ \A s \in ConsumerBuffers : ConsumerOutput(s) \in Buffers({c.id})
         /\ \A t \in 1 .. NumTasks : Transformed(c, t) \in Buffers({c.id})
BY DEF Buffers, Q, Accumulator, Kv, Output, Hidden, ConsumerOutput, Transformed

\* The indices of the rings are those of their buffers.
LEMMA RingFacts ==
  /\ \A i \in Nat : i % NumKvBuffers \in KvBuffers
  /\ \A t \in 1 .. NumTasks : /\ OutputIndex(t) \in OutputBuffers
                              /\ (t - 1) % NumConsumerBuffers \in ConsumerBuffers
<1>1. ASSUME NEW n \in Nat \ {0}, NEW i \in Nat
      PROVE  i % n \in 0 .. n - 1
  BY <1>1
<1>2. NumKvBuffers \in Nat \ {0} /\ NumOutputBuffers \in Nat \ {0} /\ NumConsumerBuffers \in Nat \ {0}
  BY ProgramAssumption
<1>3. \A t \in 1 .. NumTasks : t - 1 \in Nat
  BY ProgramAssumption
<1> QED
  BY <1>1, <1>2, <1>3 DEF KvBuffers, OutputIndex, OutputBuffers, ConsumerBuffers

\* A step that loads nothing and records no watched event.
LEMMA QuietStep ==
  ASSUME NEW c, NEW stream \in Streams, NEW guards \in SUBSET Events, NEW waits \in SUBSET Events,
         NEW work \in Works(c), work.op # "load",
         NEW records \in SUBSET Events, \A e \in records \cap Watched : stream = Home(e),
         NEW flags \in SUBSET Events
  PROVE  Step(stream, guards, waits, work, records, flags) \in Quiet(c)
BY DEF Step, Quiet, Steps

LEMMA RecordQuiet ==
  ASSUME NEW c, NEW stream \in Streams, NEW events \in SUBSET Events,
         \A e \in events \cap Watched : stream = Home(e), NEW flags \in SUBSET Events
  PROVE  Record(stream, events, flags) \in Quiet(c)
<1>1. Mark \in Works(c) /\ Mark.op # "load"
  BY DEF Works, WorksOf, Mark
<1> QED BY <1>1, QuietStep DEF Record

LEMMA WorkFacts ==
  ASSUME NEW c \in Calls
  PROVE  /\ \A from, to \in Buffers({c.id}) : Copy(from, to) \in Works(c) /\ Copy(from, to).op # "load"
         /\ \A from \in Buffers({c.id}), t \in Nat : Store(from, c, t) \in Works(c) /\ Store(from, c, t).op # "load"
         /\ \A b \in KvBuffers, first \in BOOLEAN, scratch \in SUBSET Buffers({c.id}) :
              Update(b, first, scratch) \in Works(c) /\ Update(b, first, scratch).op # "load"
         /\ \A to \in Buffers({c.id}), what \in {"q", "kv"}, i \in Nat :
              Load(to, Rows(c, what, i)) \in Works(c) /\ Load(to, Rows(c, what, i)).op = "load"
<1>1. \A b \in KvBuffers : Kv(b) \in Buffers({c.id})
  BY BufferFacts
<1>2. \A from, to \in Buffers({c.id}) : Copy(from, to) \in Works(c) /\ Copy(from, to).op # "load"
  BY DEF Copy, Works, WorksOf
<1>3. \A from \in Buffers({c.id}), t \in Nat : Store(from, c, t) \in Works(c) /\ Store(from, c, t).op # "load"
  BY DEF Store, Works, WorksOf
<1>4. \A b \in KvBuffers, first \in BOOLEAN, scratch \in SUBSET Buffers({c.id}) :
        Update(b, first, scratch) \in Works(c) /\ Update(b, first, scratch).op # "load"
  BY <1>1 DEF Update, Works, WorksOf
<1>5. \A to \in Buffers({c.id}), what \in {"q", "kv"}, i \in Nat :
        Load(to, Rows(c, what, i)) \in Works(c) /\ Load(to, Rows(c, what, i)).op = "load"
  BY DEF Load, Rows, Works, WorksOf
<1> QED BY <1>2, <1>3, <1>4, <1>5

LEMMA StreamFacts ==
  /\ {"h2d", "compute", "d2h", "consumer"} \subseteq Streams /\ Stagings \subseteq Streams
  /\ \A c \in Calls : \A what \in {"q", "kv"} : Staging(c, what) \in Stagings
BY DEF Streams, Stagings, Staging

\* What is enqueued behind the scan of a task loads nothing.
LEMMA QuietBlocks ==
  ASSUME NEW c \in Calls, NEW t \in 1 .. NumTasks
  PROVE  /\ \A s \in {"compute", "d2h"} : ReleaseQ(c, s) \in Seq(Quiet(c))
         /\ Finalize(c, t) \in Seq(Quiet(c))
         /\ Consume(c, t) \in Seq(Quiet(c))
         /\ CopyOut(c, t) \in Seq(Quiet(c))
<1> DEFINE S == Quiet(c)
           o == OutputIndex(t)
           r == (t - 1) % NumConsumerBuffers
           B == Buffers({c.id})
<1>1. /\ o \in OutputBuffers /\ r \in ConsumerBuffers /\ t \in Nat
      /\ {"compute", "d2h", "consumer"} \subseteq Streams
  BY RingFacts, StreamFacts, ProgramAssumption
<1>2. Final(c, t) \in B /\ Accumulator \in B /\ ConsumerOutput(r) \in B /\ Transformed(c, t) \in B
  BY <1>1, BufferFacts DEF Final
<1> HIDE DEF B, o, r
<1>3. /\ \A from, to \in B : Copy(from, to) \in Works(c) /\ Copy(from, to).op # "load"
      /\ \A from \in B : Store(from, c, t) \in Works(c) /\ Store(from, c, t).op # "load"
  BY <1>1, WorkFacts DEF B
<1>4. {QFree, TaskDone, OutputReady(o), OutputFree(o), ConsumerReady(r), ConsumerFree(r)}
        \subseteq Events \ Watched
  BY <1>1, EventFacts
<1>5. \A stream \in {"compute", "d2h", "consumer"}, guards, waits, records, flags \in
            SUBSET {QFree, TaskDone, OutputReady(o), OutputFree(o), ConsumerReady(r), ConsumerFree(r)} :
        /\ \A work \in Works(c) : work.op # "load" => Step(stream, guards, waits, work, records, flags) \in S
        /\ Record(stream, records, flags) \in S
  BY <1>1, <1>4, QuietStep, RecordQuiet
<1> HIDE DEF S
<1>6. ASSUME NEW s \in {"compute", "d2h"} PROVE ReleaseQ(c, s) \in Seq(S)
  <2>1. Record(s, {QFree}, {QFree}) \in S
    BY <1>5
  <2> QED BY <2>1 DEF ReleaseQ
<1>7. Finalize(c, t) \in Seq(S)
  <2>1. Step("compute", IF Consumed(c) \/ ReusesQ(c) \/ c.kind = "flash" THEN {} ELSE {OutputFree(o)},
             {}, Copy(Accumulator, Final(c, t)), {}, {}) \in S
    BY <1>2, <1>3, <1>5
  <2>2. (IF ReusesQ(c) THEN <<>> ELSE ReleaseQ(c, "compute")) \in Seq(S)
    BY <1>6
  <2>3. \A x \in Seq(S), y \in S : x \o <<y>> \in Seq(S)
    OBVIOUS
  <2> QED BY <2>1, <2>2, <2>3 DEF Finalize, o
<1>8. Consume(c, t) \in Seq(S)
  <2>1. Step("compute", {ConsumerFree(r)}, {}, Copy(Final(c, t), ConsumerOutput(r)),
             {ConsumerReady(r)}, {}) \in S
    BY <1>2, <1>3, <1>5
  <2>2. Step("consumer", {}, {ConsumerReady(r)}, Store(ConsumerOutput(r), c, t),
             {ConsumerFree(r)}, {ConsumerFree(r)}) \in S
    BY <1>2, <1>3, <1>5
  <2>3. (IF Measured(c) THEN <<Record("consumer", {TaskDone}, {})>> ELSE <<>>) \in Seq(S)
    <3>1. Record("consumer", {TaskDone}, {}) \in S
      BY <1>5
    <3> QED BY <3>1
  <2>4. ReleaseQ(c, "compute") \in Seq(S)
    BY <1>6
  <2>5. \A x, y \in S, a, b \in Seq(S) : <<x, y>> \o a \o b \in Seq(S)
    OBVIOUS
  <2> QED BY <2>1, <2>2, <2>3, <2>4, <2>5 DEF Consume, r
<1>9. CopyOut(c, t) \in Seq(S)
  <2> DEFINE result == IF c.kind = "transform" THEN Transformed(c, t) ELSE Final(c, t)
             done == IF Measured(c) THEN {TaskDone} ELSE {}
  <2>1. Transform(c, t) \in Seq(S)
    <3>1. Step("compute", {}, {}, Copy(Final(c, t), Transformed(c, t)), {}, {}) \in S
      BY <1>2, <1>3, <1>5
    <3>2. ReleaseQ(c, "compute") \in Seq(S)
      BY <1>6
    <3> QED BY <3>1, <3>2 DEF Transform
  <2>2. Record("compute", {OutputReady(o)}, {}) \in S
    BY <1>5
  <2>3. Step("d2h", {}, {OutputReady(o)}, Store(result, c, t),
             {OutputFree(o)} \cup done, {OutputFree(o)}) \in S
    BY <1>2, <1>3, <1>5
  <2>4. (IF ReusesQ(c) /\ result = Q THEN ReleaseQ(c, "d2h") ELSE <<>>) \in Seq(S)
    BY <1>6
  <2>5. \A x, y \in S, a, b \in Seq(S) : a \o <<x, y>> \o b \in Seq(S)
    OBVIOUS
  <2> QED BY <2>1, <2>2, <2>3, <2>4, <2>5 DEF CopyOut, o
<1> QED BY <1>6, <1>7, <1>8, <1>9 DEF S

\* A recomputing source awaits the rows it staged itself.
LEMMA RecomputeWhole ==
  ASSUME NEW c \in Calls, ~FromHost(c), NEW what \in {"q", "kv"},
         NEW to \in Buffers({c.id}), NEW i \in Nat
  PROVE  Recompute(Staging(c, what), to, Rows(c, what, i)) \in Whole(c)
<1> DEFINE w == Staging(c, what)
           x == Step(w, {HiddenFree(w)}, {}, Load(Hidden(w), Rows(c, what, i)), {HiddenReady(w)}, {})
           y == Step("compute", {}, {HiddenReady(w)}, Copy(Hidden(w), to),
                     {HiddenFree(w)}, {HiddenFree(w)})
<1>1. w \in Stagings /\ w \in Streams /\ "compute" \in Streams /\ w \in LoadStreams(c)
  BY StreamFacts DEF LoadStreams
<1>2. /\ HiddenReady(w) \in Watched /\ HiddenFree(w) \in Events \ Watched /\ Home(HiddenReady(w)) = w
      /\ HiddenReady(w) \in Events /\ Hidden(w) \in Buffers({c.id})
  BY <1>1, EventFacts, BufferFacts DEF Watched
<1>3. x \in Steps(c)
  <2>1. Load(Hidden(w), Rows(c, what, i)) \in Works(c)
    BY <1>2, WorkFacts
  <2> HIDE DEF w
  <2> QED BY <1>1, <1>2, <2>1 DEF Step, Steps
<1>4. y \in Quiet(c)
  <2>1. Copy(Hidden(w), to) \in Works(c) /\ Copy(Hidden(w), to).op # "load"
    BY <1>2, WorkFacts
  <2> HIDE DEF w
  <2> QED BY <1>1, <1>2, <2>1, QuietStep
<1>5. Awaits(x, y)
  <2> HIDE DEF w
  <2> QED BY <1>2 DEF Awaits, Step
<1> HIDE DEF x, y
<1>6. y \in Steps(c) /\ y.work.op # "load"
  BY <1>4 DEF Quiet
<1> DEFINE s == <<x, y>>
<1>7. s \in Seq(Steps(c)) /\ Len(s) = 2 /\ s[1] = x /\ s[2] = y
  BY <1>3, <1>6
<1> HIDE DEF s
<1>8. \A k \in 1 .. Len(s) : s[k].work.op = "load" => k = 1
  BY <1>6, <1>7
<1>9. Awaited(s)
  BY <1>5, <1>7, <1>8 DEF Awaited
<1> QED BY <1>7, <1>9 DEF Whole, s, Recompute, x, y, w

\* The steps of a tile: its K/V rows, awaited by the update with them.
LEMMA TileWhole ==
  ASSUME NEW c \in Calls, NEW t \in 1 .. NumTasks, NEW i \in Nat
  PROVE  /\ LoadKv(c, i) \in Seq(Steps(c)) /\ UpdateWith(c, t, i) \in Steps(c)
         /\ LoadKv(c, i) \o <<UpdateWith(c, t, i)>> \in Whole(c)
         /\ UpdateWith(c, t, i).stream = "compute"
         /\ FromHost(c) => QReady \in UpdateWith(c, t, i).waits
<1> DEFINE b == i % NumKvBuffers
           u == UpdateWith(c, t, i)
<1>1. b \in KvBuffers /\ OutputIndex(t) \in OutputBuffers /\ {"compute", "h2d"} \subseteq Streams
  BY RingFacts, StreamFacts
<1>2. /\ {QReady, KvReady(b)} \subseteq Watched /\ {QReady, KvReady(b)} \subseteq Events
      /\ {KvFree(b), OutputFree(OutputIndex(t))} \subseteq Events \ Watched
      /\ Home(KvReady(b)) = "h2d"
  BY <1>1, EventFacts DEF Watched
<1>3. Kv(b) \in Buffers({c.id}) /\ Output(OutputIndex(t)) \in Buffers({c.id})
  BY <1>1, BufferFacts
<1> HIDE DEF b
<1>4. u \in Quiet(c)
  <2> DEFINE work == Update(b, i = 0, IF c.kind = "flash" THEN {Output(OutputIndex(t))} ELSE {})
  <2>1. work \in Works(c) /\ work.op # "load"
    <3> DEFINE first == i = 0
               scratch == IF c.kind = "flash" THEN {Output(OutputIndex(t))} ELSE {}
    <3>1. first \in BOOLEAN /\ scratch \in SUBSET Buffers({c.id})
      BY <1>3
    <3> HIDE DEF first, scratch
    <3>2. Update(b, first, scratch) \in Works(c) /\ Update(b, first, scratch).op # "load"
      BY <1>1, <3>1, WorkFacts
    <3> QED BY <3>2 DEF first, scratch
  <2> HIDE DEF work
  <2> QED BY <1>1, <1>2, <2>1, QuietStep DEF UpdateWith, work, b
<1>5. /\ u.stream = "compute"
      /\ FromHost(c) => {QReady, KvReady(b)} \subseteq u.waits
  BY DEF UpdateWith, Step, b
<1> HIDE DEF u
<1>6. <<u>> \in Whole(c) /\ u \in Steps(c)
  <2>1. <<u>> \in Seq(Quiet(c))
    BY <1>4
  <2> QED BY <1>4, <2>1, QuietWhole DEF Quiet
<1>7. CASE FromHost(c)
  <2> DEFINE x == Step("h2d", {KvFree(b)}, {}, Load(Kv(b), Rows(c, "kv", i)), {KvReady(b)}, {})
  <2>1. x \in Steps(c)
    <3>1. Load(Kv(b), Rows(c, "kv", i)) \in Works(c) /\ Load(Kv(b), Rows(c, "kv", i)).op = "load"
      BY <1>3, WorkFacts
    <3> QED BY <1>1, <1>2, <1>7, <3>1 DEF Step, Steps, LoadStreams
  <2>2. Awaits(x, u)
    BY <1>2, <1>5, <1>7 DEF Awaits, Step
  <2>3. LoadKv(c, i) = <<x>>
    BY <1>7 DEF LoadKv, b
  <2> HIDE DEF x
  <2>4. <<x>> \o <<u>> \in Whole(c)
    BY <1>6, <2>1, <2>2, LoadInFront
  <2>5. <<x>> \in Seq(Steps(c))
    BY <2>1
  <2> QED BY <1>5, <1>6, <1>7, <2>3, <2>4, <2>5 DEF u
<1>8. CASE ~FromHost(c)
  <2>1. LoadKv(c, i) = Recompute(Staging(c, "kv"), Kv(b), Rows(c, "kv", i))
    BY <1>8 DEF LoadKv, b
  <2>2. LoadKv(c, i) \in Whole(c)
    BY <1>3, <1>8, <2>1, RecomputeWhole
  <2>3. LoadKv(c, i) \o <<u>> \in Whole(c)
    BY <1>6, <2>2, WholeJoins
  <2> QED BY <1>5, <1>6, <1>8, <2>2, <2>3 DEF u, Whole
<1> QED BY <1>7, <1>8

\* The scan of a task, of which the last update at least waits for its Q rows.
LEMMA ScanWhole ==
  ASSUME NEW c \in Calls, NEW t \in 1 .. NumTasks
  PROVE  /\ Scan(c, t) \in Whole(c)
         /\ FromHost(c) => \E k \in 1 .. Len(Scan(c, t)) :
              Scan(c, t)[k].stream = "compute" /\ QReady \in Scan(c, t)[k].waits
<1> DEFINE tile(i) == LoadKv(c, i - 1) \o <<UpdateWith(c, t, i - 1)>>
           tiles == [i \in 1 .. NumTiles |-> tile(i)]
           all == FlattenSeq(tiles)
           mark == IF Measured(c) THEN <<Record("h2d", {H2dEnd}, {})>> ELSE <<>>
           last == UpdateWith(c, t, NumTiles - 1)
<1>1. NumTiles \in Nat \ {0} /\ NumTiles - 1 \in Nat
  BY ProgramAssumption
<1>2. \A i \in 1 .. NumTiles : tile(i) \in Whole(c)
  BY <1>1, TileWhole
<1>3. Len(tiles) = NumTiles /\ \A i \in 1 .. NumTiles : tiles[i] = tile(i)
  <2> HIDE DEF tile
  <2> QED BY <1>1
<1>4. /\ all \in Whole(c)
      /\ all = tile(NumTiles) \/ \E before \in Whole(c) : all = before \o tile(NumTiles)
  <2> HIDE DEF tile, tiles
  <2> DEFINE W == Whole(c)
  <2>1. \A x, y \in W : x \o y \in W
    BY WholeJoins
  <2>2. \A i \in 1 .. Len(tiles) : tiles[i] \in W
    BY <1>2, <1>3
  <2>3. NumTiles \in 1 .. NumTiles
    BY <1>1
  <2> HIDE DEF W
  <2>4. /\ all \in W
        /\ \/ Len(tiles) = 1 /\ all = tiles[1]
           \/ \E before \in W : all = before \o tiles[Len(tiles)]
    BY <1>1, <1>3, <2>1, <2>2, FlattenedIn
  <2>5. tiles[Len(tiles)] = tile(NumTiles) /\ (Len(tiles) = 1 => tiles[1] = tile(NumTiles))
    BY <1>3, <2>3
  <2> QED BY <2>4, <2>5 DEF W
<1>5. \E b \in Seq(Steps(c)) : all = b \o <<last>>
  <2>1. tile(NumTiles) = LoadKv(c, NumTiles - 1) \o <<last>>
    OBVIOUS
  <2>2. LoadKv(c, NumTiles - 1) \in Seq(Steps(c)) /\ last \in Steps(c)
    BY <1>1, TileWhole
  <2> HIDE DEF last, all, tile
  <2> DEFINE steps == Seq(Steps(c))
             loads == LoadKv(c, NumTiles - 1)
  <2>3. \A a, b \in steps : a \o b \in steps /\ a \o (b \o <<last>>) = (a \o b) \o <<last>>
    BY <2>2
  <2>4. /\ loads \in steps /\ tile(NumTiles) = loads \o <<last>>
        /\ Whole(c) \subseteq steps
    BY <2>1, <2>2 DEF Whole
  <2> HIDE DEF steps, loads
  <2>5. ASSUME all = tile(NumTiles)
        PROVE  \E b \in steps : all = b \o <<last>>
    BY <2>4, <2>5
  <2>6. ASSUME NEW before \in Whole(c), all = before \o tile(NumTiles)
        PROVE  \E b \in steps : all = b \o <<last>>
    <3>1. before \in steps /\ all = before \o (loads \o <<last>>)
      BY <2>4, <2>6
    <3>2. before \o loads \in steps /\ all = (before \o loads) \o <<last>>
      BY <2>3, <2>4, <3>1
    <3> QED BY <3>2
  <2>7. \E b \in steps : all = b \o <<last>>
    BY <1>4, <2>5, <2>6
  <2> QED BY <2>7 DEF steps
<1>6. mark \in Whole(c)
  <2>1. Record("h2d", {H2dEnd}, {}) \in Quiet(c)
    BY EventFacts, StreamFacts, RecordQuiet
  <2>2. mark \in Seq(Quiet(c))
    BY <2>1
  <2> HIDE DEF mark
  <2> QED BY <2>2, QuietWhole
<1>7. Scan(c, t) = all \o mark
  BY DEF Scan
<1> HIDE DEF all, mark
<1>8. Scan(c, t) \in Whole(c)
  BY <1>4, <1>6, <1>7, WholeJoins
<1>9. ASSUME FromHost(c)
      PROVE  \E k \in 1 .. Len(Scan(c, t)) :
               Scan(c, t)[k].stream = "compute" /\ QReady \in Scan(c, t)[k].waits
  <2>1. last.stream = "compute" /\ QReady \in last.waits /\ last \in Steps(c)
    BY <1>1, <1>9, TileWhole
  <2> HIDE DEF last
  <2>2. PICK before \in Seq(Steps(c)) : all = before \o <<last>>
    BY <1>5
  <2>3. mark \in Seq(Steps(c))
    BY <1>6 DEF Whole
  <2>4. Len(before) + 1 \in 1 .. Len(Scan(c, t)) /\ Scan(c, t)[Len(before) + 1] = last
    BY <1>7, <2>1, <2>2, <2>3
  <2> QED BY <2>1, <2>4
<1> QED BY <1>8, <1>9

LEMMA TaskWhole ==
  ASSUME NEW c \in Calls, NEW t \in 1 .. NumTasks
  PROVE  RunTask(c, t) \in Whole(c)
<1>1. Scan(c, t) \in Whole(c) /\ Q \in Buffers({c.id}) /\ t \in Nat /\ "q" \in {"q", "kv"}
  BY ScanWhole, BufferFacts, ProgramAssumption
<1>2. LoadQ(c, t) \o Scan(c, t) \in Whole(c)
  <2>1. CASE FromHost(c)
    <3> DEFINE x == Step("h2d", {QFree}, {}, Load(Q, Rows(c, "q", t)), {QReady}, {})
    <3>1. LoadQ(c, t) = <<x>>
      BY <2>1 DEF LoadQ
    <3>2. x \in Steps(c)
      <4>1. Load(Q, Rows(c, "q", t)) \in Works(c)
        BY <1>1, WorkFacts
      <4>2. {QReady, QFree} \subseteq Events /\ Home(QReady) = "h2d" /\ "h2d" \in Streams
        BY EventFacts, StreamFacts DEF Watched
      <4> QED BY <2>1, <4>1, <4>2 DEF Step, Steps, LoadStreams
    <3>3. PICK k \in 1 .. Len(Scan(c, t)) :
            Scan(c, t)[k].stream = "compute" /\ QReady \in Scan(c, t)[k].waits
      BY <2>1, ScanWhole
    <3>4. Awaits(x, Scan(c, t)[k])
      BY <3>3, EventFacts DEF Awaits, Step
    <3> HIDE DEF x
    <3> QED BY <1>1, <3>1, <3>2, <3>4, LoadInFront
  <2>2. CASE ~FromHost(c)
    <3>1. LoadQ(c, t) = Recompute(Staging(c, "q"), Q, Rows(c, "q", t))
      BY <2>2 DEF LoadQ
    <3>2. LoadQ(c, t) \in Whole(c)
      BY <1>1, <2>2, <3>1, RecomputeWhole
    <3> QED BY <1>1, <3>2, WholeJoins
  <2> QED BY <2>1, <2>2
<1>3. Finalize(c, t) \in Whole(c) /\ Consume(c, t) \in Whole(c) /\ CopyOut(c, t) \in Whole(c)
  BY QuietBlocks, QuietWhole
<1> DEFINE end == IF Consumed(c) THEN Consume(c, t) ELSE CopyOut(c, t)
<1>4. end \in Whole(c)
  BY <1>3
<1>5. RunTask(c, t) = ((LoadQ(c, t) \o Scan(c, t)) \o Finalize(c, t)) \o end
  BY DEF RunTask
<1> HIDE DEF end
<1> QED BY <1>2, <1>3, <1>4, <1>5, WholeJoins

\* A call's program awaits each of its loads, and then marks its own end.
LEMMA ProgramWhole ==
  ASSUME NEW c \in Calls
  PROVE  /\ Program(c) \in Whole(c)
         /\ Program(c) # <<>>
         /\ Program(c)[Len(Program(c))] = Record("compute", {PipelineEnd}, {})
<1> DEFINE W == Whole(c)
           n == TaskCount(c)
           tasks == [t \in 1 .. n |-> RunTask(c, t)]
           all == FlattenSeq(tasks)
           end == Record("compute", {PipelineEnd}, {})
<1>1. n \in 1 .. NumTasks /\ n \in Nat \ {0} /\ 1 .. n \subseteq 1 .. NumTasks
  BY ProgramAssumption DEF TaskCount
<1> HIDE DEF n
<1>2. \A t \in 1 .. n : RunTask(c, t) \in W
  BY <1>1, TaskWhole
<1>3. Len(tasks) = n /\ \A t \in 1 .. Len(tasks) : tasks[t] \in W
  <2> HIDE DEF W
  <2> QED BY <1>1, <1>2
<1>4. \A x, y \in W : x \o y \in W
  BY WholeJoins
<1>5. all \in W
  <2> HIDE DEF W, tasks
  <2> QED BY <1>1, <1>3, <1>4, FlattenedIn
<1>6. end \in Quiet(c)
  <2>1. PipelineEnd \in Events /\ Home(PipelineEnd) = "compute" /\ "compute" \in Streams
    BY EventFacts, StreamFacts DEF Watched
  <2> QED BY <2>1, RecordQuiet
<1>7. Program(c) = all \o <<end>>
  BY DEF Program, n
<1> HIDE DEF all, end
<1>8. <<end>> \in W /\ end \in Steps(c)
  <2>1. <<end>> \in Seq(Quiet(c))
    BY <1>6
  <2> QED BY <1>6, <2>1, QuietWhole DEF Quiet
<1>9. all \in Seq(Steps(c))
  BY <1>5 DEF Whole
<1>10. Program(c) # <<>> /\ Program(c)[Len(Program(c))] = end
  BY <1>7, <1>8, <1>9
<1> QED BY <1>4, <1>5, <1>7, <1>8, <1>10 DEF end, W

-----------------------------------------------------------------------------
(* What holds of the executor at every step. *)

Marks == Events \X Int

Ops == [needs : SUBSET Marks, work : WorksOf(0 .. MaxCalls), records : SUBSET Marks]

Devices == [queue : [Streams -> Seq(Ops)], unreached : [Events -> Int]]

Outcomes == {"none", "running", "returned", "raised", "abandoned"}

TypeInv ==
  /\ mode \in {"host", "device_consumer"}
  /\ call \in Calls /\ call.id \in 0 .. MaxCalls
  /\ pc \in {"idle", "issue", "measure", "recover"}
  /\ todo \in Seq(Steps(call))
  /\ pending \subseteq Events
  /\ device \in Devices
  /\ outcome \in [Ids -> Outcomes]
  /\ pc # "idle" => call.id \in Ids /\ outcome[call.id] = "running"

\* The unreached records of each event of `place` are on one stream, in order.
Counted(dev, place) ==
  /\ \A e \in DOMAIN place : dev.unreached[e] \in Nat
  /\ \A s \in Streams : \A i \in 1 .. Len(dev.queue[s]) : \A r \in dev.queue[s][i].records :
       r[1] \in DOMAIN place =>
         /\ s = place[r[1]]
         /\ r[2] \in 1 .. dev.unreached[r[1]]
         /\ \A j \in i + 1 .. Len(dev.queue[s]) : \A q \in dev.queue[s][j].records :
              q[1] = r[1] => r[2] < q[2]

\* The unreached records of a watched event are on one stream, in order.
MarksCounted(dev) ==
  /\ \A e \in Watched : dev.unreached[e] \in Nat
  /\ \A s \in Streams : \A i \in 1 .. Len(dev.queue[s]) : \A r \in dev.queue[s][i].records :
       r[1] \in Watched =>
         /\ s = Home(r[1])
         /\ r[2] \in 1 .. dev.unreached[r[1]]
         /\ \A j \in i + 1 .. Len(dev.queue[s]) : \A q \in dev.queue[s][j].records :
              q[1] = r[1] => r[2] < q[2]

Homes == [e \in Watched |-> Home(e)]

\* One is an instance of the other.
LEMMA CountedMarks ==
  ASSUME NEW dev
  PROVE  /\ DOMAIN Homes = Watched /\ Watched \subseteq Events /\ \A e \in Watched : Homes[e] = Home(e)
         /\ MarksCounted(dev) => Counted(dev, Homes)
         /\ Counted(dev, Homes) => MarksCounted(dev)
<1>1. DOMAIN Homes = Watched /\ Watched \subseteq Events /\ \A e \in Watched : Homes[e] = Home(e)
  BY DEF Homes, Watched
<1>2. ASSUME MarksCounted(dev) PROVE Counted(dev, Homes)
  BY <1>1, <1>2 DEF MarksCounted, Counted
<1>3. ASSUME Counted(dev, Homes) PROVE MarksCounted(dev)
  BY <1>1, <1>3 DEF MarksCounted, Counted
<1> QED BY <1>1, <1>2, <1>3

\* A load on stream s belongs to a call that was left without recovery, or to
\* the call being made, whose recovery waits for s.
LoadAllowed(s, work) ==
  work.op = "load" =>
    /\ work.rows[1] \in 1 .. call.id
    /\ outcome[work.rows[1]] \notin {"returned", "raised"}
    /\ work.rows[1] = call.id /\ pc # "idle" => s \in LoadStreams(call) /\ pc # "measure"

LoadsAllowed ==
  \A s \in Streams : \A i \in 1 .. Len(device.queue[s]) :
    LoadAllowed(s, device.queue[s][i].work)

\* An operation of the compute stream waits for the record r, or a step that
\* is not yet issued will.
AwaitedMark(r, compute, steps) ==
  \/ \E j \in 1 .. Len(compute) : \E n \in compute[j].needs : n[1] = r[1] /\ r[2] <= n[2]
  \/ \E k \in 1 .. Len(steps) : steps[k].stream = "compute" /\ r[1] \in steps[k].waits

LoadsAwaited ==
  pc = "issue" =>
    \A s \in Streams : \A i \in 1 .. Len(device.queue[s]) :
      LET op == device.queue[s][i] IN
      op.work.op = "load" /\ op.work.rows[1] = call.id =>
        \E r \in op.records : r[1] \in Watched /\ AwaitedMark(r, device.queue["compute"], todo)

Ends(steps) == steps # <<>> => steps[Len(steps)] = Record("compute", {PipelineEnd}, {})

TodoAwaited == pc = "issue" => Awaited(todo) /\ Ends(todo)

EndMarked ==
  pc = "issue" /\ ProgramOver =>
    LET compute == device.queue["compute"] IN
    compute # <<>> => \E r \in compute[Len(compute)].records : r[1] = PipelineEnd

ExecutorInv ==
  /\ TypeInv
  /\ MarksCounted(device)
  /\ LoadsAllowed
  /\ LoadsAwaited
  /\ TodoAwaited
  /\ EndMarked

-----------------------------------------------------------------------------
(* What launching and performing an operation do to the queues. *)

\* A queue grows or shrinks by one operation on stream s only.
One(t, s) == IF t = s THEN 1 ELSE 0

LEMMA OneFacts == \A t, s : One(t, s) \in {0, 1} /\ (One(t, s) = 1 <=> t = s)
BY DEF One

\* The device `new` is `dev` with an operation at the end of stream s.
IsLaunched(new, dev, s, waits, work, records) ==
  /\ new \in Devices
  /\ \A t \in Streams : /\ Len(new.queue[t]) = Len(dev.queue[t]) + One(t, s)
                        /\ \A i \in 1 .. Len(dev.queue[t]) : new.queue[t][i] = dev.queue[t][i]
  /\ LET op == new.queue[s][Len(dev.queue[s]) + 1] IN
     /\ op.work = work
     /\ \A e \in waits : dev.unreached[e] > 0 => <<e, dev.unreached[e]>> \in op.needs
     /\ op.records = {<<e, dev.unreached[e] + 1>> : e \in records}
  /\ \A e \in Events : new.unreached[e] = dev.unreached[e] + (IF e \in records THEN 1 ELSE 0)

LEMMA Launched ==
  ASSUME NEW dev \in Devices, NEW s \in Streams, NEW waits \in SUBSET Events,
         NEW work \in WorksOf(0 .. MaxCalls), NEW records \in SUBSET Events
  PROVE  IsLaunched(Cuda!Launch(dev, s, waits, work, records), dev, s, waits, work, records)
<1> DEFINE new == Cuda!Launch(dev, s, waits, work, records)
           op == [needs   |-> {<<e, dev.unreached[e]>> : e \in {w \in waits : dev.unreached[w] > 0}},
                  work    |-> work,
                  records |-> {<<e, dev.unreached[e] + 1>> : e \in records}]
<1>1. dev.queue \in [Streams -> Seq(Ops)] /\ dev.unreached \in [Events -> Int]
  BY DEF Devices
<1>2. op \in Ops
  BY <1>1 DEF Ops, Marks
<1>3. new = [queue |-> [dev.queue EXCEPT ![s] = Append(@, op)],
             unreached |-> [e \in Events |-> dev.unreached[e] + (IF e \in records THEN 1 ELSE 0)]]
  <2>1. DOMAIN dev.unreached = Events
    BY <1>1
  <2>2. dev = [queue |-> dev.queue, unreached |-> dev.unreached]
    BY DEF Devices
  <2>3. \A e \in Events : (IF e \in records THEN dev.unreached[e] + 1 ELSE dev.unreached[e])
                            = dev.unreached[e] + (IF e \in records THEN 1 ELSE 0)
    BY <1>1
  <2>4. new = [dev EXCEPT !.queue[s] = Append(@, op),
                          !.unreached = [e \in DOMAIN @ |-> IF e \in records THEN @[e] + 1 ELSE @[e]]]
    BY DEF Cuda!Launch
  <2>5. new = [queue |-> [dev.queue EXCEPT ![s] = Append(@, op)],
               unreached |-> [e \in Events |-> IF e \in records THEN dev.unreached[e] + 1 ELSE dev.unreached[e]]]
    <3> HIDE DEF op, new
    <3> QED BY <2>1, <2>2, <2>4
  <2> HIDE DEF op, new
  <2> QED BY <2>3, <2>5
<1>4. /\ op.work = work
      /\ \A e \in waits : dev.unreached[e] > 0 => <<e, dev.unreached[e]>> \in op.needs
      /\ op.records = {<<e, dev.unreached[e] + 1>> : e \in records}
  OBVIOUS
<1> DEFINE q == [dev.queue EXCEPT ![s] = Append(@, op)]
           u == [e \in Events |-> dev.unreached[e] + (IF e \in records THEN 1 ELSE 0)]
<1>5. new.queue = q /\ new.unreached = u
  <2> HIDE DEF op, new, q, u
  <2> QED BY <1>3 DEF q, u
<1> HIDE DEF op, new
<1>6. /\ q \in [Streams -> Seq(Ops)]
      /\ q[s] = Append(dev.queue[s], op)
      /\ \A t \in Streams \ {s} : q[t] = dev.queue[t]
  BY <1>1, <1>2
<1>7. /\ Len(q[s]) = Len(dev.queue[s]) + 1
      /\ q[s][Len(dev.queue[s]) + 1] = op
      /\ \A i \in 1 .. Len(dev.queue[s]) : q[s][i] = dev.queue[s][i]
  BY <1>1, <1>2, <1>6
<1>8. ASSUME NEW t \in Streams
      PROVE  /\ Len(q[t]) = Len(dev.queue[t]) + One(t, s)
             /\ \A i \in 1 .. Len(dev.queue[t]) : q[t][i] = dev.queue[t][i]
  <2>1. Len(dev.queue[t]) \in Nat
    BY <1>1
  <2>2. CASE t = s
    BY <1>7, <2>2 DEF One
  <2>3. CASE t # s
    BY <1>6, <2>1, <2>3 DEF One
  <2> QED BY <2>2, <2>3
<1>9. u \in [Events -> Int] /\ \A e \in Events : u[e] = dev.unreached[e] + (IF e \in records THEN 1 ELSE 0)
  BY <1>1
<1> HIDE DEF q, u
<1>10. new \in Devices
  BY <1>3, <1>6, <1>9 DEF Devices, q, u
<1> QED BY <1>4, <1>5, <1>7, <1>8, <1>9, <1>10 DEF new, IsLaunched

\* Records are in order behind a launch.
LEMMA LaunchCounts ==
  ASSUME NEW dev \in Devices, NEW place, DOMAIN place \subseteq Events, Counted(dev, place),
         NEW s \in Streams, NEW waits \in SUBSET Events,
         NEW work \in WorksOf(0 .. MaxCalls), NEW records \in SUBSET Events,
         \A e \in records \cap DOMAIN place : s = place[e]
  PROVE  Counted(Cuda!Launch(dev, s, waits, work, records), place)
<1> DEFINE new == Cuda!Launch(dev, s, waits, work, records)
           n == Len(dev.queue[s])
<1>0. IsLaunched(new, dev, s, waits, work, records)
  BY Launched
<1> HIDE DEF new
<1>1. /\ \A t \in Streams : /\ Len(new.queue[t]) = Len(dev.queue[t]) + One(t, s)
                            /\ \A i \in 1 .. Len(dev.queue[t]) : new.queue[t][i] = dev.queue[t][i]
      /\ new.queue[s][n + 1].records = {<<e, dev.unreached[e] + 1>> : e \in records}
      /\ \A e \in Events : new.unreached[e] = dev.unreached[e] + (IF e \in records THEN 1 ELSE 0)
  BY <1>0 DEF IsLaunched
<1>2. \A t \in Streams : Len(dev.queue[t]) \in Nat
  BY DEF Devices
<1>3. \A e \in DOMAIN place : e \in Events /\ dev.unreached[e] \in Nat
  BY DEF Counted
<1> HIDE DEF n
<1>4. \A r \in new.queue[s][n + 1].records :
        r[1] \in records /\ r[2] = dev.unreached[r[1]] + 1
  BY <1>1
<1>5. ASSUME NEW t \in Streams, NEW i \in 1 .. Len(new.queue[t]), NEW r \in new.queue[t][i].records,
             r[1] \in DOMAIN place
      PROVE  /\ t = place[r[1]]
             /\ r[2] \in 1 .. new.unreached[r[1]]
             /\ \A j \in i + 1 .. Len(new.queue[t]) : \A q \in new.queue[t][j].records :
                  q[1] = r[1] => r[2] < q[2]
  <2>1. CASE i \in 1 .. Len(dev.queue[t])
    <3>0. r \in dev.queue[t][i].records
      BY <1>1, <1>5, <2>1
    <3>1. /\ t = place[r[1]] /\ r[2] \in 1 .. dev.unreached[r[1]]
          /\ \A j \in i + 1 .. Len(dev.queue[t]) : \A q \in dev.queue[t][j].records :
               q[1] = r[1] => r[2] < q[2]
      BY <1>5, <2>1, <3>0 DEF Counted
    <3>2. r[2] \in 1 .. new.unreached[r[1]]
      BY <1>1, <1>3, <1>5, <3>1
    <3>3. ASSUME NEW j \in i + 1 .. Len(new.queue[t]), NEW q \in new.queue[t][j].records, q[1] = r[1]
          PROVE  r[2] < q[2]
      <4>1. CASE j \in 1 .. Len(dev.queue[t])
        <5>1. j \in i + 1 .. Len(dev.queue[t]) /\ q \in dev.queue[t][j].records
          BY <1>1, <1>2, <2>1, <4>1
        <5> QED BY <3>1, <3>3, <5>1
      <4>2. CASE j \notin 1 .. Len(dev.queue[t])
        <5>1. t = s /\ j = n + 1
          <6>1. /\ Len(new.queue[t]) = Len(dev.queue[t]) + One(t, s) /\ Len(dev.queue[t]) \in Nat
                /\ One(t, s) \in {0, 1} /\ i \in Nat /\ j \in Int
            BY <1>1, <1>2, <2>1, OneFacts
          <6>2. One(t, s) = 1 /\ j = Len(dev.queue[t]) + 1
            BY <2>1, <4>2, <6>1
          <6> QED BY <6>2, OneFacts DEF n
        <5>2. q[2] = dev.unreached[r[1]] + 1
          BY <1>4, <3>3, <5>1
        <5> QED BY <1>3, <1>5, <3>1, <5>2
      <4> QED BY <4>1, <4>2
    <3> QED BY <3>1, <3>2, <3>3
  <2>2. CASE i \notin 1 .. Len(dev.queue[t])
    <3>1. t = s /\ i = n + 1 /\ Len(new.queue[t]) = n + 1 /\ n \in Nat
      BY <1>1, <1>2, <2>2, OneFacts DEF n
    <3>2. r[1] \in records /\ r[2] = dev.unreached[r[1]] + 1
      BY <1>4, <3>1
    <3>3. new.unreached[r[1]] = dev.unreached[r[1]] + 1 /\ dev.unreached[r[1]] \in Nat
      BY <1>1, <1>3, <1>5, <3>2
    <3> QED BY <1>5, <3>1, <3>2, <3>3
  <2> QED BY <2>1, <2>2
<1>6. \A e \in DOMAIN place : new.unreached[e] \in Nat
  BY <1>1, <1>3
<1>7. Counted(new, place)
  BY <1>5, <1>6 DEF Counted
<1> QED BY <1>7 DEF new

\* Of the watched events.
LEMMA LaunchCounted ==
  ASSUME NEW dev \in Devices, MarksCounted(dev),
         NEW s \in Streams, NEW waits \in SUBSET Events,
         NEW work \in WorksOf(0 .. MaxCalls), NEW records \in SUBSET Events,
         \A e \in records \cap Watched : s = Home(e)
  PROVE  MarksCounted(Cuda!Launch(dev, s, waits, work, records))
<1> DEFINE new == Cuda!Launch(dev, s, waits, work, records)
<1>1. /\ Counted(dev, Homes) /\ DOMAIN Homes \subseteq Events
      /\ \A e \in records \cap DOMAIN Homes : s = Homes[e]
  BY CountedMarks
<1>2. Counted(new, Homes)
  BY <1>1, LaunchCounts
<1> HIDE DEF new
<1> QED BY <1>2, CountedMarks DEF new

\* How many more records of an event a mark is away once those of `reached` were reached.
After(mark, reached) == IF mark[1] \in reached THEN mark[2] - 1 ELSE mark[2]

IsAdvanced(new, op, reached) ==
  /\ new \in Ops
  /\ new.work = op.work
  /\ \A q \in new.records : \E r \in op.records : q[1] = r[1] /\ q[2] = After(r, reached)
  /\ \A r \in op.records : <<r[1], After(r, reached)>> \in new.records
  /\ \A n \in op.needs : After(n, reached) > 0 => <<n[1], After(n, reached)>> \in new.needs

LEMMA AdvancedFacts ==
  ASSUME NEW op \in Ops, NEW reached
  PROVE  IsAdvanced(Cuda!Advanced(op, reached), op, reached)
<1> DEFINE left(mark) == IF mark[1] \in reached THEN <<mark[1], mark[2] - 1>> ELSE mark
           new == Cuda!Advanced(op, reached)
<1>1. /\ op.needs \subseteq Marks /\ op.records \subseteq Marks
      /\ op.work \in WorksOf(0 .. MaxCalls)
  BY DEF Ops
<1>2. new = [needs |-> {n \in {left(need) : need \in op.needs} : n[2] > 0},
             work |-> op.work,
             records |-> {left(record) : record \in op.records}]
  BY DEF Cuda!Advanced
<1>3. ASSUME NEW mark \in Marks
      PROVE  /\ left(mark) \in Marks
             /\ left(mark)[1] = mark[1] /\ left(mark)[2] = After(mark, reached)
             /\ left(mark) = <<mark[1], After(mark, reached)>>
  BY DEF Marks, After
<1> HIDE DEF left, new
<1>4. /\ new.needs = {n \in {left(need) : need \in op.needs} : n[2] > 0}
      /\ new.work = op.work
      /\ new.records = {left(record) : record \in op.records}
  BY <1>2
<1>5. \A q \in new.records : \E r \in op.records : q[1] = r[1] /\ q[2] = After(r, reached)
  BY <1>1, <1>3, <1>4
<1>6. \A r \in op.records : <<r[1], After(r, reached)>> \in new.records
  BY <1>1, <1>3, <1>4
<1>7. \A n \in op.needs : After(n, reached) > 0 => <<n[1], After(n, reached)>> \in new.needs
  BY <1>1, <1>3, <1>4
<1>8. new \in Ops
  <2>1. new.needs \subseteq Marks /\ new.records \subseteq Marks
    BY <1>1, <1>3, <1>4
  <2> QED BY <1>1, <1>2, <1>4, <2>1 DEF Ops
<1> QED BY <1>4, <1>5, <1>6, <1>7, <1>8 DEF new, IsAdvanced

Reached(dev, s) == {record[1] : record \in Head(dev.queue[s]).records}

\* The device `new` is `dev` once the first operation of stream s is performed.
IsPerformed(new, dev, s) ==
  /\ new \in Devices
  /\ \A t \in Streams :
       /\ Len(new.queue[t]) = Len(dev.queue[t]) - One(t, s)
       /\ \A i \in 1 .. Len(new.queue[t]) :
            /\ i + One(t, s) \in 1 .. Len(dev.queue[t])
            /\ IsAdvanced(new.queue[t][i], dev.queue[t][i + One(t, s)], Reached(dev, s))
  /\ \A e \in Events :
       new.unreached[e] = dev.unreached[e] - (IF e \in Reached(dev, s) THEN 1 ELSE 0)

LEMMA PerformedFacts ==
  ASSUME NEW dev \in Devices, NEW s \in Streams, dev.queue[s] # <<>>
  PROVE  IsPerformed(Cuda!Performed(dev, s), dev, s)
<1> DEFINE new == Cuda!Performed(dev, s)
           reached == Reached(dev, s)
           rest == [dev.queue EXCEPT ![s] = Tail(@)]
<1>1. dev.queue \in [Streams -> Seq(Ops)] /\ dev.unreached \in [Events -> Int]
  BY DEF Devices
<1> HIDE DEF reached
<1>2. new = [queue |-> [t \in DOMAIN rest |-> [i \in 1 .. Len(rest[t]) |-> Cuda!Advanced(rest[t][i], reached)]],
             unreached |-> [e \in DOMAIN dev.unreached |->
                              IF e \in reached THEN dev.unreached[e] - 1 ELSE dev.unreached[e]]]
  BY DEF Cuda!Performed, Reached, reached
<1>3. /\ rest \in [Streams -> Seq(Ops)]
      /\ rest[s] = Tail(dev.queue[s])
      /\ \A t \in Streams \ {s} : rest[t] = dev.queue[t]
  BY <1>1
<1> HIDE DEF new, rest
<1>4. /\ new.queue = [t \in Streams |-> [i \in 1 .. Len(rest[t]) |-> Cuda!Advanced(rest[t][i], reached)]]
      /\ new.unreached = [e \in Events |-> IF e \in reached THEN dev.unreached[e] - 1 ELSE dev.unreached[e]]
  BY <1>1, <1>2, <1>3
<1>5. ASSUME NEW t \in Streams
      PROVE  /\ rest[t] \in Seq(Ops)
             /\ Len(rest[t]) = Len(dev.queue[t]) - One(t, s)
             /\ \A i \in 1 .. Len(rest[t]) : /\ i + One(t, s) \in 1 .. Len(dev.queue[t])
                                             /\ rest[t][i] = dev.queue[t][i + One(t, s)]
  <2>1. dev.queue[t] \in Seq(Ops) /\ rest[t] \in Seq(Ops)
    BY <1>1, <1>3
  <2>2. CASE t = s
    <3>1. rest[t] = Tail(dev.queue[t]) /\ dev.queue[t] # <<>> /\ One(t, s) = 1
      BY <1>3, <2>2 DEF One
    <3> QED BY <2>1, <3>1
  <2>3. CASE t # s
    <3>1. rest[t] = dev.queue[t] /\ One(t, s) = 0
      BY <1>3, <2>3 DEF One
    <3> QED BY <2>1, <3>1
  <2> QED BY <2>2, <2>3
<1>6. ASSUME NEW t \in Streams
      PROVE  /\ new.queue[t] \in Seq(Ops) /\ Len(new.queue[t]) = Len(rest[t])
             /\ \A i \in 1 .. Len(rest[t]) : IsAdvanced(new.queue[t][i], rest[t][i], reached)
  <2>1. new.queue[t] = [i \in 1 .. Len(rest[t]) |-> Cuda!Advanced(rest[t][i], reached)]
    BY <1>4
  <2>2. Len(rest[t]) \in Nat /\ \A i \in 1 .. Len(rest[t]) : rest[t][i] \in Ops
    BY <1>5
  <2> DEFINE next(i) == Cuda!Advanced(rest[t][i], reached)
  <2>3. \A i \in 1 .. Len(rest[t]) : IsAdvanced(next(i), rest[t][i], reached)
    BY <2>2, AdvancedFacts
  <2>4. \A i \in 1 .. Len(rest[t]) : next(i) \in Ops
    BY <2>3 DEF IsAdvanced
  <2>5. new.queue[t] = [i \in 1 .. Len(rest[t]) |-> next(i)]
    BY <2>1
  <2> HIDE DEF next
  <2> QED BY <2>2, <2>3, <2>4, <2>5
<1>7. \A t \in Streams : Len(new.queue[t]) = Len(dev.queue[t]) - One(t, s)
  BY <1>5, <1>6
<1>8. \A t \in Streams : \A i \in 1 .. Len(new.queue[t]) :
        /\ i + One(t, s) \in 1 .. Len(dev.queue[t])
        /\ IsAdvanced(new.queue[t][i], dev.queue[t][i + One(t, s)], reached)
  BY <1>5, <1>6
<1>9. \A e \in Events : /\ new.unreached[e] = dev.unreached[e] - (IF e \in reached THEN 1 ELSE 0)
                        /\ new.unreached[e] \in Int
  BY <1>1, <1>4
<1>10. new \in Devices
  <2>1. new.queue \in [Streams -> Seq(Ops)] /\ new.unreached \in [Events -> Int]
    BY <1>4, <1>6, <1>9
  <2>2. new = [queue |-> new.queue, unreached |-> new.unreached]
    BY <1>2
  <2> QED BY <2>1, <2>2 DEF Devices
<1> QED BY <1>7, <1>8, <1>9, <1>10 DEF new, reached, IsPerformed

\* And behind an operation that was performed.
LEMMA PerformCounts ==
  ASSUME NEW dev \in Devices, NEW place, DOMAIN place \subseteq Events, Counted(dev, place), NEW s \in Streams, dev.queue[s] # <<>>
  PROVE  Counted(Cuda!Performed(dev, s), place)
<1> DEFINE new == Cuda!Performed(dev, s)
           reached == Reached(dev, s)
<1>1. IsPerformed(new, dev, s)
  BY PerformedFacts
<1> HIDE DEF new
<1>2. \A t \in Streams : Len(dev.queue[t]) \in Nat
  BY DEF Devices
<1>3. \A t \in Streams : \A i \in 1 .. Len(dev.queue[t]) : \A r \in dev.queue[t][i].records : r[2] \in Int
  <2>1. \A t \in Streams : dev.queue[t] \in Seq(Ops)
    BY DEF Devices
  <2>2. \A t \in Streams : \A i \in 1 .. Len(dev.queue[t]) : dev.queue[t][i] \in Ops
    BY <2>1
  <2> QED BY <2>2 DEF Ops, Marks
<1>4. ASSUME NEW e \in DOMAIN place, e \in reached
      PROVE  /\ s = place[e]
             /\ \E r \in dev.queue[s][1].records : r[1] = e /\ r[2] \in 1 .. dev.unreached[e]
  <2>1. Head(dev.queue[s]) = dev.queue[s][1] /\ 1 \in 1 .. Len(dev.queue[s])
    BY DEF Devices
  <2>2. PICK r \in dev.queue[s][1].records : r[1] = e
    BY <1>4, <2>1 DEF Reached
  <2> QED BY <2>1, <2>2 DEF Counted
<1>5. \A e \in DOMAIN place : e \in Events /\ dev.unreached[e] \in Nat
  BY DEF Counted
<1>6. \A e \in Events : new.unreached[e] = dev.unreached[e] - (IF e \in reached THEN 1 ELSE 0)
  BY <1>1 DEF IsPerformed
<1> HIDE DEF reached
<1>7. \A e \in DOMAIN place : new.unreached[e] \in Nat
  <2> SUFFICES ASSUME NEW e \in DOMAIN place PROVE new.unreached[e] \in Nat
    OBVIOUS
  <2>1. CASE e \in reached
    <3>1. dev.unreached[e] >= 1
      BY <1>3, <1>4, <1>5, <2>1
    <3> QED BY <1>5, <1>6, <2>1, <3>1
  <2>2. CASE e \notin reached
    BY <1>5, <1>6, <2>2
  <2> QED BY <2>1, <2>2
\* The records of an operation that stays.
<1>8. ASSUME NEW t \in Streams, NEW i \in 1 .. Len(new.queue[t]), NEW q \in new.queue[t][i].records
      PROVE  \E r \in dev.queue[t][i + One(t, s)].records : q[1] = r[1] /\ q[2] = After(r, reached)
  BY <1>1 DEF IsPerformed, IsAdvanced, reached
<1>9. ASSUME NEW t \in Streams, NEW i \in 1 .. Len(new.queue[t]), NEW q \in new.queue[t][i].records,
             q[1] \in DOMAIN place
      PROVE  /\ t = place[q[1]]
             /\ q[2] \in 1 .. new.unreached[q[1]]
             /\ \A j \in i + 1 .. Len(new.queue[t]) : \A p \in new.queue[t][j].records :
                  p[1] = q[1] => q[2] < p[2]
  <2> DEFINE g == One(t, s)
  <2>1. PICK r \in dev.queue[t][i + g].records : q[1] = r[1] /\ q[2] = After(r, reached)
    BY <1>8
  <2>2. i + g \in 1 .. Len(dev.queue[t]) /\ Len(new.queue[t]) = Len(dev.queue[t]) - g /\ g \in {0, 1}
    BY <1>1, OneFacts DEF IsPerformed
  <2> HIDE DEF g
  <2>3. /\ t = place[r[1]] /\ r[2] \in 1 .. dev.unreached[r[1]]
        /\ \A j \in i + g + 1 .. Len(dev.queue[t]) : \A p \in dev.queue[t][j].records :
             p[1] = r[1] => r[2] < p[2]
    BY <1>9, <2>1, <2>2 DEF Counted
  <2>4. q[2] \in 1 .. new.unreached[q[1]]
    <3>1. CASE r[1] \in reached
      <4>1. t = s
        BY <1>4, <1>9, <2>1, <2>3, <3>1
      <4>2. PICK first \in dev.queue[s][1].records : first[1] = r[1] /\ first[2] \in 1 .. dev.unreached[r[1]]
        BY <1>4, <1>9, <2>1, <3>1
      <4>3. g = 1 /\ 1 \in 1 .. Len(dev.queue[s]) /\ i + g \in 1 + 1 .. Len(dev.queue[s])
        BY <1>2, <2>2, <4>1, OneFacts DEF g
      <4>4. first[2] < r[2]
        BY <1>9, <2>1, <4>1, <4>2, <4>3 DEF Counted
      <4>5. q[2] = r[2] - 1 /\ new.unreached[q[1]] = dev.unreached[r[1]] - 1
        BY <1>5, <1>6, <1>9, <2>1, <3>1 DEF After
      <4> QED BY <1>5, <1>9, <2>1, <2>3, <4>2, <4>4, <4>5
    <3>2. CASE r[1] \notin reached
      <4>1. q[2] = r[2] /\ new.unreached[q[1]] = dev.unreached[r[1]]
        BY <1>5, <1>6, <1>9, <2>1, <3>2 DEF After
      <4> QED BY <2>3, <4>1
    <3> QED BY <3>1, <3>2
  <2>5. ASSUME NEW j \in i + 1 .. Len(new.queue[t]), NEW p \in new.queue[t][j].records, p[1] = q[1]
        PROVE  q[2] < p[2]
    <3>1. j \in 1 .. Len(new.queue[t]) /\ j + g \in i + g + 1 .. Len(dev.queue[t]) /\ j + g \in 1 .. Len(dev.queue[t])
      BY <1>2, <2>2
    <3>2. PICK later \in dev.queue[t][j + g].records : p[1] = later[1] /\ p[2] = After(later, reached)
      BY <1>8, <3>1 DEF g
    <3>3. r[2] < later[2] /\ r[2] \in Int /\ later[2] \in Int
      BY <1>3, <2>1, <2>2, <2>3, <2>5, <3>1, <3>2
    <3> QED BY <2>1, <2>5, <3>2, <3>3 DEF After
  <2> QED BY <1>9, <2>1, <2>3, <2>4, <2>5
<1>10. Counted(new, place)
  BY <1>7, <1>9 DEF Counted
<1> QED BY <1>10 DEF new

\* Of the watched events.
LEMMA PerformCounted ==
  ASSUME NEW dev \in Devices, MarksCounted(dev), NEW s \in Streams, dev.queue[s] # <<>>
  PROVE  MarksCounted(Cuda!Performed(dev, s))
<1> DEFINE new == Cuda!Performed(dev, s)
<1>1. Counted(dev, Homes) /\ DOMAIN Homes \subseteq Events
  BY CountedMarks
<1>2. Counted(new, Homes)
  BY <1>1, PerformCounts
<1> HIDE DEF new
<1> QED BY <1>2, CountedMarks DEF new

\* A mark that is awaited stays awaited when the step that waits for it is
\* enqueued: its wait is for the last record issued, which is not before the mark.
LEMMA LaunchAwaits ==
  ASSUME NEW dev \in Devices, NEW s \in Streams, NEW waits \in SUBSET Events,
         NEW work, NEW records, NEW new, IsLaunched(new, dev, s, waits, work, records),
         NEW c, NEW steps \in Seq(Steps(c)), steps # <<>>, Head(steps).stream = s,
         Head(steps).waits \subseteq waits,
         NEW r, r[1] \in Events, r[2] \in 1 .. dev.unreached[r[1]],
         AwaitedMark(r, dev.queue["compute"], steps)
  PROVE  AwaitedMark(r, new.queue["compute"], Tail(steps))
<1>1. /\ "compute" \in Streams
      /\ \A t \in Streams : Len(dev.queue[t]) \in Nat
      /\ dev.unreached \in [Events -> Int]
  BY StreamFacts DEF Devices
<1>2. CASE \E j \in 1 .. Len(dev.queue["compute"]) : \E n \in dev.queue["compute"][j].needs :
             n[1] = r[1] /\ r[2] <= n[2]
  <2>1. PICK j \in 1 .. Len(dev.queue["compute"]) : \E n \in dev.queue["compute"][j].needs :
               n[1] = r[1] /\ r[2] <= n[2]
    BY <1>2
  <2>2. new.queue["compute"][j] = dev.queue["compute"][j] /\ j \in 1 .. Len(new.queue["compute"])
    <3>1. Len(new.queue["compute"]) = Len(dev.queue["compute"]) + One("compute", s)
          /\ One("compute", s) \in {0, 1} /\ Len(dev.queue["compute"]) \in Nat
      BY <1>1, OneFacts DEF IsLaunched
    <3>2. j \in 1 .. Len(new.queue["compute"])
      BY <3>1
    <3> QED BY <1>1, <3>2 DEF IsLaunched
  <2> QED BY <2>1, <2>2 DEF AwaitedMark
<1>3. CASE \E k \in 1 .. Len(steps) : steps[k].stream = "compute" /\ r[1] \in steps[k].waits
  <2>1. PICK k \in 1 .. Len(steps) : steps[k].stream = "compute" /\ r[1] \in steps[k].waits
    BY <1>3
  <2>2. CASE k = 1
    <3> DEFINE n == Len(dev.queue["compute"])
    <3>1. Head(steps) = steps[1]
      OBVIOUS
    <3>2. s = "compute" /\ r[1] \in waits
      BY <2>1, <2>2, <3>1
    <3>3. r[2] <= dev.unreached[r[1]] /\ dev.unreached[r[1]] > 0
      BY <1>1
    <3>4. <<r[1], dev.unreached[r[1]]>> \in new.queue["compute"][n + 1].needs
      BY <3>2, <3>3 DEF IsLaunched
    <3>5. n + 1 \in 1 .. Len(new.queue["compute"])
      BY SMTT(30), <1>1, <3>2, OneFacts DEF IsLaunched
    <3> HIDE DEF n
    <3> QED BY <3>3, <3>4, <3>5 DEF AwaitedMark
  <2>3. CASE k # 1
    <3>1. k - 1 \in 1 .. Len(Tail(steps)) /\ Tail(steps)[k - 1] = steps[k]
      BY <2>3
    <3> QED BY <2>1, <3>1 DEF AwaitedMark
  <2> QED BY <2>2, <2>3
<1> QED BY <1>2, <1>3 DEF AwaitedMark

\* A mark that is awaited stays awaited when an operation is performed: not the
\* one that waits for it, and it comes nearer with it.
LEMMA PerformAwaits ==
  ASSUME NEW dev \in Devices, NEW s \in Streams, dev.queue[s] # <<>>, Head(dev.queue[s]).needs = {},
         NEW new, IsPerformed(new, dev, s),
         NEW steps, NEW r, r[2] \in Int, After(r, Reached(dev, s)) > 0,
         AwaitedMark(r, dev.queue["compute"], steps)
  PROVE  AwaitedMark(<<r[1], After(r, Reached(dev, s))>>, new.queue["compute"], steps)
<1> DEFINE reached == Reached(dev, s)
           q == <<r[1], After(r, reached)>>
           g == One("compute", s)
<1>1. /\ "compute" \in Streams /\ dev.queue["compute"] \in Seq(Ops) /\ dev.queue[s] \in Seq(Ops)
      /\ g \in {0, 1} /\ (g = 1 <=> s = "compute")
  BY StreamFacts, OneFacts DEF Devices
<1> HIDE DEF reached
<1>2. CASE \E j \in 1 .. Len(dev.queue["compute"]) : \E n \in dev.queue["compute"][j].needs :
             n[1] = r[1] /\ r[2] <= n[2]
  <2>0. PICK j \in 1 .. Len(dev.queue["compute"]) : \E n \in dev.queue["compute"][j].needs :
               n[1] = r[1] /\ r[2] <= n[2]
    BY <1>2
  <2>1. PICK n \in dev.queue["compute"][j].needs : n[1] = r[1] /\ r[2] <= n[2]
    BY <2>0
  <2>2. n[2] \in Int
    <3>1. dev.queue["compute"][j] \in Ops
      BY <1>1
    <3>2. n \in Events \X Int
      BY <2>1, <3>1 DEF Ops, Marks
    <3> QED BY <3>2
  <2>3. ~(j = 1 /\ s = "compute")
    BY <1>1, <2>1
  <2>4. /\ Len(new.queue["compute"]) = Len(dev.queue["compute"]) - g
        /\ \A i \in 1 .. Len(new.queue["compute"]) :
             IsAdvanced(new.queue["compute"][i], dev.queue["compute"][i + g], reached)
    BY <1>1 DEF IsPerformed, reached
  <2> HIDE DEF g
  <2>5. j - g \in 1 .. Len(new.queue["compute"]) /\ (j - g) + g = j
    BY <1>1, <2>3, <2>4
  <2>6. IsAdvanced(new.queue["compute"][j - g], dev.queue["compute"][j], reached)
    BY <2>4, <2>5
  <2>7. After(r, reached) <= After(n, reached) /\ After(n, reached) > 0
    BY <2>1, <2>2 DEF After, reached
  <2>8. <<n[1], After(n, reached)>> \in new.queue["compute"][j - g].needs
    BY <2>1, <2>6, <2>7 DEF IsAdvanced
  <2> QED BY <2>1, <2>5, <2>7, <2>8 DEF AwaitedMark, reached
<1>3. CASE \E k \in 1 .. Len(steps) : steps[k].stream = "compute" /\ r[1] \in steps[k].waits
  BY <1>3 DEF AwaitedMark
<1> QED BY <1>2, <1>3 DEF AwaitedMark

-----------------------------------------------------------------------------
(* The steps of the host. *)

LEMMA WorksWithin ==
  ASSUME NEW c \in Calls, c.id \in 0 .. MaxCalls
  PROVE  Works(c) \subseteq WorksOf(0 .. MaxCalls)
<1> DEFINE ids == 0 .. MaxCalls
<1>1. Buffers({c.id}) \subseteq Buffers(ids) /\ c.id \in ids
  BY DEF Buffers
<1> HIDE DEF ids
<1> QED BY <1>1 DEF Works, WorksOf, ids

LEMMA NewPlace ==
  ASSUME NEW n \in Nat, NEW k \in {0, 1}, NEW i \in 1 .. n + k, i \notin 1 .. n
  PROVE  k = 1 /\ i = n + 1
OBVIOUS

LEMMA TodoFacts ==
  ASSUME TypeInv, ~ProgramOver
  PROVE  /\ Instruction \in Steps(call) /\ Instruction = todo[1] /\ 1 \in 1 .. Len(todo)
         /\ Tail(todo) \in Seq(Steps(call)) /\ Len(todo) \in Nat \ {0} /\ Len(Tail(todo)) = Len(todo) - 1
         /\ \A k \in 1 .. Len(todo) - 1 : Tail(todo)[k] = todo[k + 1]
BY DEF TypeInv, ProgramOver, Instruction

\* An operation of the call is enqueued, with all of its records or with none.
LEMMA EnqueueKeeps ==
  ASSUME TypeInv, MarksCounted(device), LoadsAllowed, pc = "issue", ~ProgramOver,
         NEW records, records \in {{}, Instruction.records}, Enqueue(records)
  PROVE  /\ IsLaunched(device', device, Instruction.stream,
                       Instruction.waits \cup (Instruction.guards \cap pending), Instruction.work, records)
         /\ MarksCounted(device')
         /\ \A s \in Streams : \A i \in 1 .. Len(device'.queue[s]) : LoadAllowed(s, device'.queue[s][i].work)
<1> DEFINE x == Instruction
           waits == x.waits \cup (x.guards \cap pending)
<1>1. x \in Steps(call)
  BY TodoFacts
<1>2. /\ device \in Devices /\ call \in Calls /\ call.id \in 0 .. MaxCalls
      /\ call.id \in Ids /\ outcome[call.id] = "running"
  BY DEF TypeInv
<1>3. /\ x.stream \in Streams /\ waits \in SUBSET Events /\ x.records \in SUBSET Events
      /\ x.work \in Works(call)
      /\ \A e \in x.records \cap Watched : x.stream = Home(e)
      /\ x.work.op = "load" => x.stream \in LoadStreams(call)
  <2> HIDE DEF x
  <2> QED BY <1>1 DEF Steps
<1>4. x.work \in WorksOf(0 .. MaxCalls)
  BY <1>2, <1>3, WorksWithin
<1>5. x.work.op = "load" => x.work.rows[1] = call.id
  <2>1. x.work \in WorksOf({call.id})
    BY <1>3 DEF Works
  <2> HIDE DEF x
  <2> QED BY <2>1 DEF WorksOf, Mark
<1>6. records \in SUBSET Events /\ \A e \in records \cap Watched : x.stream = Home(e)
  BY <1>3
<1>7. device' = Cuda!Launch(device, x.stream, waits, x.work, records)
  BY DEF Enqueue
<1> HIDE DEF x, waits
<1>8. IsLaunched(device', device, x.stream, waits, x.work, records) /\ MarksCounted(device')
  BY <1>2, <1>3, <1>4, <1>6, <1>7, Launched, LaunchCounted
<1>9. ASSUME NEW s \in Streams, NEW i \in 1 .. Len(device'.queue[s])
      PROVE  LoadAllowed(s, device'.queue[s][i].work)
  <2>1. CASE i \in 1 .. Len(device.queue[s])
    <3>1. device'.queue[s][i] = device.queue[s][i]
      BY <1>8, <2>1 DEF IsLaunched
    <3> QED BY <2>1, <3>1 DEF LoadsAllowed
  <2>2. CASE i \notin 1 .. Len(device.queue[s])
    <3>1. /\ Len(device'.queue[s]) = Len(device.queue[s]) + One(s, x.stream)
          /\ Len(device.queue[s]) \in Nat /\ One(s, x.stream) \in {0, 1}
      <4>1. Len(device'.queue[s]) = Len(device.queue[s]) + One(s, x.stream)
        BY <1>8 DEF IsLaunched
      <4>2. Len(device.queue[s]) \in Nat
        BY <1>2 DEF Devices
      <4> QED BY <4>1, <4>2, OneFacts
    <3>2. One(s, x.stream) = 1 /\ i = Len(device.queue[s]) + 1
      BY <2>2, <3>1, NewPlace
    <3>3. s = x.stream
      BY <3>2, OneFacts
    <3>4. device'.queue[s][i].work = x.work
      BY <1>8, <3>2, <3>3 DEF IsLaunched
    <3>5. call.id \in 1 .. call.id
      BY <1>2 DEF Ids
    <3> QED BY <1>2, <1>3, <1>5, <3>3, <3>4, <3>5 DEF LoadAllowed
  <2> QED BY <2>1, <2>2
<1> QED BY <1>8, <1>9 DEF x, waits

LEMMA IssueKeeps == ExecutorInv /\ Issue => ExecutorInv'
<1> SUFFICES ASSUME ExecutorInv, Issue PROVE ExecutorInv'
  OBVIOUS
<1> DEFINE x == Instruction
           waits == x.waits \cup (x.guards \cap pending)
<1>1. /\ TypeInv /\ MarksCounted(device) /\ LoadsAllowed /\ LoadsAwaited /\ TodoAwaited
      /\ pc = "issue" /\ ~ProgramOver /\ Enqueue(x.records)
      /\ pending' = pending \cup x.flags /\ todo' = Tail(todo)
      /\ UNCHANGED <<mode, call, pc, mem, out, outcome>>
  BY DEF ExecutorInv, Issue
<1>2. /\ IsLaunched(device', device, x.stream, waits, x.work, x.records)
      /\ MarksCounted(device')
      /\ \A s \in Streams : \A i \in 1 .. Len(device'.queue[s]) : LoadAllowed(s, device'.queue[s][i].work)
  BY <1>1, EnqueueKeeps
<1>3. /\ x \in Steps(call) /\ x = todo[1] /\ 1 \in 1 .. Len(todo) /\ Head(todo) = x
      /\ Tail(todo) \in Seq(Steps(call)) /\ Len(todo) \in Nat \ {0} /\ Len(Tail(todo)) = Len(todo) - 1
      /\ \A k \in 1 .. Len(todo) - 1 : Tail(todo)[k] = todo[k + 1]
  BY <1>1, TodoFacts DEF Instruction
<1> HIDE DEF x
<1>4. /\ x.stream \in Streams /\ waits \in SUBSET Events /\ x.records \in SUBSET Events
      /\ x.flags \in SUBSET Events
  BY <1>1, <1>3 DEF Steps, TypeInv
<1>5. TypeInv'
  BY <1>1, <1>2, <1>3, <1>4 DEF TypeInv, IsLaunched
<1>6. LoadsAllowed'
  BY <1>1, <1>2 DEF LoadsAllowed, LoadAllowed
<1>7. device \in Devices /\ \A s \in Streams : Len(device.queue[s]) \in Nat
  BY <1>1 DEF TypeInv, Devices
<1>8. LoadsAwaited'
  <2> SUFFICES ASSUME NEW s \in Streams, NEW i \in 1 .. Len(device'.queue[s]),
                      device'.queue[s][i].work.op = "load",
                      device'.queue[s][i].work.rows[1] = call.id
               PROVE  \E r \in device'.queue[s][i].records :
                        r[1] \in Watched /\ AwaitedMark(r, device'.queue["compute"], todo')
    BY <1>1 DEF LoadsAwaited
  <2>1. CASE i \in 1 .. Len(device.queue[s])
    <3>1. device'.queue[s][i] = device.queue[s][i]
      BY <1>2, <2>1 DEF IsLaunched
    <3>2. PICK r \in device.queue[s][i].records :
            r[1] \in Watched /\ AwaitedMark(r, device.queue["compute"], todo)
      BY <1>1, <2>1, <3>1 DEF LoadsAwaited
    <3>3. r[1] \in Events /\ r[2] \in 1 .. device.unreached[r[1]]
      BY <1>1, <2>1, <3>2 DEF MarksCounted, Watched
    <3>4. x.waits \subseteq waits /\ todo \in Seq(Steps(call)) /\ todo # <<>>
      BY <1>1 DEF TypeInv, ProgramOver
    <3> HIDE DEF waits
    <3>5. AwaitedMark(r, device'.queue["compute"], Tail(todo))
      BY <1>2, <1>3, <1>4, <1>7, <3>2, <3>3, <3>4, LaunchAwaits DEF waits
    <3> QED BY <1>1, <3>1, <3>2, <3>5
  <2>2. CASE i \notin 1 .. Len(device.queue[s])
    <3>1. /\ Len(device'.queue[s]) = Len(device.queue[s]) + One(s, x.stream)
          /\ Len(device.queue[s]) \in Nat /\ One(s, x.stream) \in {0, 1}
      BY <1>2, <1>7, OneFacts DEF IsLaunched
    <3>2. One(s, x.stream) = 1 /\ i = Len(device.queue[s]) + 1
      BY <2>2, <3>1, NewPlace
    <3>10. s = x.stream
      BY <3>2, OneFacts
    <3>3. /\ device'.queue[s][i].work = x.work
          /\ device'.queue[s][i].records = {<<e, device.unreached[e] + 1>> : e \in x.records}
      BY <1>2, <3>2, <3>10 DEF IsLaunched
    <3>4. PICK j \in 2 .. Len(todo) : Awaits(x, todo[j])
      <4>1. todo[1].work.op = "load" /\ Awaited(todo)
        BY <1>1, <1>3, <3>3 DEF TodoAwaited
      <4>2. \E j \in 1 + 1 .. Len(todo) : Awaits(todo[1], todo[j])
        BY <1>3, <4>1 DEF Awaited
      <4> QED BY <1>3, <4>2
    <3>5. PICK e \in x.records \cap Watched : e \in todo[j].waits
      BY <3>4 DEF Awaits
    <3>6. j - 1 \in 1 .. Len(Tail(todo)) /\ Tail(todo)[j - 1] = todo[j]
      BY <1>3
    <3> DEFINE r == <<e, device.unreached[e] + 1>>
    <3>7. r \in device'.queue[s][i].records /\ r[1] = e
      BY <3>3, <3>5
    <3> HIDE DEF r
    <3>8. AwaitedMark(r, device'.queue["compute"], Tail(todo))
      BY <3>4, <3>5, <3>6, <3>7 DEF AwaitedMark, Awaits
    <3> QED BY <1>1, <3>5, <3>7, <3>8
  <2> QED BY <2>1, <2>2
<1>9. TodoAwaited'
  <2>1. Awaited(Tail(todo))
    <3> SUFFICES ASSUME NEW i \in 1 .. Len(Tail(todo)), Tail(todo)[i].work.op = "load"
                 PROVE  \E j \in i + 1 .. Len(Tail(todo)) : Awaits(Tail(todo)[i], Tail(todo)[j])
      BY DEF Awaited
    <3>1. i + 1 \in 1 .. Len(todo) /\ Tail(todo)[i] = todo[i + 1]
      BY <1>3
    <3>2. PICK j \in i + 1 + 1 .. Len(todo) : Awaits(todo[i + 1], todo[j])
      BY <1>1, <3>1 DEF TodoAwaited, Awaited
    <3>3. j - 1 \in i + 1 .. Len(Tail(todo)) /\ Tail(todo)[j - 1] = todo[j]
      BY <1>3, <3>1
    <3> QED BY <3>1, <3>2, <3>3
  <2>2. Ends(Tail(todo))
    <3> SUFFICES ASSUME Tail(todo) # <<>>
                 PROVE  Tail(todo)[Len(Tail(todo))] = Record("compute", {PipelineEnd}, {})
      BY DEF Ends
    <3>1. Len(todo) - 1 \in 1 .. Len(todo) - 1 /\ (Len(todo) - 1) + 1 = Len(todo)
      BY <1>3
    <3>2. todo[Len(todo)] = Record("compute", {PipelineEnd}, {})
      BY <1>1 DEF TodoAwaited, Ends, ProgramOver
    <3> QED BY <1>3, <3>1, <3>2
  <2> QED BY <1>1, <2>1, <2>2 DEF TodoAwaited
<1>10. EndMarked'
  <2> SUFFICES ASSUME Tail(todo) = <<>>
               PROVE  \E r \in device'.queue["compute"][Len(device'.queue["compute"])].records : r[1] = PipelineEnd
    BY <1>1 DEF EndMarked, ProgramOver
  <2>1. x = Record("compute", {PipelineEnd}, {})
    <3>1. Len(todo) = 1
      BY <1>3
    <3> QED BY <1>1, <1>3, <3>1 DEF TodoAwaited, Ends, ProgramOver
  <2>2. x.stream = "compute" /\ x.records = {PipelineEnd}
    BY <2>1 DEF Record, Step
  <2>3. Len(device'.queue["compute"]) = Len(device.queue["compute"]) + 1
    BY <1>2, <1>4, <2>2, OneFacts DEF IsLaunched
  <2>4. device'.queue["compute"][Len(device.queue["compute"]) + 1].records
          = {<<e, device.unreached[e] + 1>> : e \in {PipelineEnd}}
    BY <1>2, <2>2 DEF IsLaunched
  <2> DEFINE r == <<PipelineEnd, device.unreached[PipelineEnd] + 1>>
  <2>5. r[1] = PipelineEnd /\ r \in {<<e, device.unreached[e] + 1>> : e \in {PipelineEnd}}
    OBVIOUS
  <2> HIDE DEF r
  <2> QED BY <2>3, <2>4, <2>5
<1> QED BY <1>2, <1>5, <1>6, <1>8, <1>9, <1>10 DEF ExecutorInv

\* A step in which an exception strikes leaves the queues in order.
LEMMA StopKeeps ==
  ASSUME TypeInv, MarksCounted(device), LoadsAllowed, StopInside
  PROVE  /\ pc = "issue" /\ device' \in Devices /\ MarksCounted(device')
         /\ \A s \in Streams : \A i \in 1 .. Len(device'.queue[s]) : LoadAllowed(s, device'.queue[s][i].work)
<1>1. pc = "issue" /\ ~ProgramOver
  BY DEF StopInside
<1>2. CASE UNCHANGED device
  BY <1>1, <1>2 DEF TypeInv, LoadsAllowed
<1>3. ASSUME NEW records, records \in {{}, Instruction.records}, Enqueue(records)
      PROVE  /\ device' \in Devices /\ MarksCounted(device')
             /\ \A s \in Streams : \A i \in 1 .. Len(device'.queue[s]) : LoadAllowed(s, device'.queue[s][i].work)
  BY <1>1, <1>3, EnqueueKeeps DEF IsLaunched
<1>4. CASE Enqueue({})
  BY <1>1, <1>3, <1>4
<1>5. CASE Enqueue(Instruction.records)
  BY <1>1, <1>3, <1>5
<1> QED BY <1>2, <1>4, <1>5 DEF StopInside

\* Leaving a call, where it is not to be returned from, allows its loads.
LEMMA LeaveKeeps ==
  ASSUME TypeInv, pc # "idle", NEW how \in Outcomes, Leave(how), UNCHANGED <<mode, call, todo>>,
         pending' \subseteq Events, device' \in Devices, MarksCounted(device'),
         \A s \in Streams : \A i \in 1 .. Len(device'.queue[s]) : LoadAllowed(s, device'.queue[s][i].work),
         how \in {"returned", "raised"} =>
           \A s \in Streams : \A i \in 1 .. Len(device'.queue[s]) :
             device'.queue[s][i].work.op = "load" => device'.queue[s][i].work.rows[1] # call.id
  PROVE  ExecutorInv'
<1>1. /\ call.id \in Ids /\ outcome \in [Ids -> Outcomes]
      /\ pc' = "idle" /\ outcome' = [outcome EXCEPT ![call.id] = how]
  BY DEF TypeInv, Leave
<1>2. /\ outcome' \in [Ids -> Outcomes]
      /\ \A id \in Ids : outcome'[id] = IF id = call.id THEN how ELSE outcome[id]
  BY <1>1
<1>3. TypeInv'
  BY <1>1, <1>2 DEF TypeInv
<1>4. LoadsAllowed'
  <2> SUFFICES ASSUME NEW s \in Streams, NEW i \in 1 .. Len(device'.queue[s]),
                      device'.queue[s][i].work.op = "load"
               PROVE  LET id == device'.queue[s][i].work.rows[1] IN
                      id \in 1 .. call.id /\ outcome'[id] \notin {"returned", "raised"}
    BY <1>1 DEF LoadsAllowed, LoadAllowed
  <2> DEFINE id == device'.queue[s][i].work.rows[1]
  <2>1. id \in 1 .. call.id /\ outcome[id] \notin {"returned", "raised"}
    BY DEF LoadAllowed
  <2>2. id = call.id => how \notin {"returned", "raised"}
    OBVIOUS
  <2> HIDE DEF id
  <2>3. 1 .. call.id \subseteq Ids
    BY <1>1, ExecutorAssumption DEF Ids
  <2>4. outcome'[id] \notin {"returned", "raised"}
    BY <1>2, <2>1, <2>2, <2>3
  <2> QED BY <2>1, <2>4 DEF id
<1> QED BY <1>1, <1>3, <1>4 DEF ExecutorInv, LoadsAwaited, TodoAwaited, EndMarked

\* Where the call goes on without issuing, the loads that are allowed stay so.
LEMMA WaitKeeps ==
  ASSUME TypeInv, pc # "idle", pc' \in {"measure", "recover"}, UNCHANGED <<mode, call, todo, pending, outcome>>,
         device' \in Devices, MarksCounted(device'),
         \A s \in Streams : \A i \in 1 .. Len(device'.queue[s]) : LoadAllowed(s, device'.queue[s][i].work),
         pc' = "measure" =>
           \A s \in Streams : \A i \in 1 .. Len(device'.queue[s]) :
             device'.queue[s][i].work.op = "load" => device'.queue[s][i].work.rows[1] # call.id
  PROVE  ExecutorInv'
<1>1. TypeInv'
  BY DEF TypeInv
<1>2. LoadsAllowed'
  BY DEF LoadsAllowed, LoadAllowed
<1> QED BY <1>1, <1>2 DEF ExecutorInv, LoadsAwaited, TodoAwaited, EndMarked

LEMMA RaiseKeeps == ExecutorInv /\ Raise => ExecutorInv'
<1> SUFFICES ASSUME ExecutorInv, Raise PROVE ExecutorInv'
  OBVIOUS
<1>1. TypeInv /\ MarksCounted(device) /\ LoadsAllowed /\ StopInside /\ UNCHANGED <<mode, call, todo, pending>>
  BY DEF ExecutorInv, Raise
<1>2. /\ pc = "issue" /\ device' \in Devices /\ MarksCounted(device')
      /\ \A s \in Streams : \A i \in 1 .. Len(device'.queue[s]) : LoadAllowed(s, device'.queue[s][i].work)
  BY <1>1, StopKeeps
<1>3. pending' \subseteq Events
  BY <1>1 DEF TypeInv
<1>4. CASE Leave("abandoned")
  <2>1. "abandoned" \in Outcomes /\ pc # "idle"
    BY <1>2 DEF Outcomes
  <2> QED BY <1>1, <1>2, <1>3, <1>4, <2>1, LeaveKeeps
<1>5. CASE pc' = "recover" /\ UNCHANGED outcome
  <2>1. pc # "idle" /\ pc' \in {"measure", "recover"} /\ pc' # "measure"
    BY <1>2, <1>5
  <2> QED BY <1>1, <1>2, <1>5, <2>1, WaitKeeps
<1> QED BY <1>4, <1>5 DEF Raise

LEMMA InterruptKeeps == ExecutorInv /\ Interrupt => ExecutorInv'
<1> SUFFICES ASSUME ExecutorInv, Interrupt PROVE ExecutorInv'
  OBVIOUS
<1>1. /\ TypeInv /\ MarksCounted(device) /\ LoadsAllowed
      /\ Leave("abandoned") /\ UNCHANGED <<mode, call, todo, pending>>
  BY DEF ExecutorInv, Interrupt
<1>2. /\ pc # "idle" /\ device' \in Devices /\ MarksCounted(device')
      /\ \A s \in Streams : \A i \in 1 .. Len(device'.queue[s]) : LoadAllowed(s, device'.queue[s][i].work)
  <2>1. CASE StopInside
    BY <1>1, <2>1, StopKeeps
  <2>2. CASE Waiting /\ UNCHANGED device
    BY <1>1, <2>2 DEF Waiting, TypeInv, LoadsAllowed
  <2> QED BY <2>1, <2>2 DEF Interrupt
<1>3. pending' \subseteq Events /\ "abandoned" \in Outcomes
  BY <1>1 DEF TypeInv, Outcomes
<1> QED BY <1>1, <1>2, <1>3, LeaveKeeps

\* Behind the end of the pipeline no load of the call is left: each is awaited
\* by an operation of the compute stream, which is then empty.
LEMMA PipelineOver ==
  ASSUME ExecutorInv, pc = "issue", ProgramOver, Cuda!Synchronized(device, PipelineEnd),
         NEW s \in Streams, NEW i \in 1 .. Len(device.queue[s]),
         device.queue[s][i].work.op = "load"
  PROVE  device.queue[s][i].work.rows[1] # call.id
<1> SUFFICES ASSUME device.queue[s][i].work.rows[1] = call.id PROVE FALSE
  OBVIOUS
<1> DEFINE compute == device.queue["compute"]
<1>1. /\ device \in Devices /\ MarksCounted(device) /\ LoadsAwaited /\ EndMarked
      /\ device.unreached[PipelineEnd] = 0 /\ todo = <<>>
  BY DEF ExecutorInv, TypeInv, Cuda!Synchronized, ProgramOver
<1>2. PipelineEnd \in Watched /\ "compute" \in Streams /\ compute \in Seq(Ops)
  BY <1>1, EventFacts, StreamFacts DEF Devices
<1>3. compute = <<>>
  <2> SUFFICES ASSUME compute # <<>> PROVE FALSE
    OBVIOUS
  <2>1. Len(compute) \in 1 .. Len(compute)
    BY <1>2
  <2>2. PICK r \in compute[Len(compute)].records : r[1] = PipelineEnd
    BY <1>1 DEF EndMarked, ProgramOver
  <2>3. r[2] \in 1 .. device.unreached[r[1]]
    <3>1. \A q \in device.queue["compute"][Len(compute)].records :
            q[1] \in Watched => q[2] \in 1 .. device.unreached[q[1]]
      BY <1>1, <1>2, <2>1 DEF MarksCounted
    <3> QED BY <1>2, <2>2, <3>1
  <2> QED BY <1>1, <2>2, <2>3
<1>4. PICK r \in device.queue[s][i].records : AwaitedMark(r, compute, todo)
  BY <1>1 DEF LoadsAwaited
<1>5. Len(compute) = 0 /\ Len(todo) = 0
  BY <1>1, <1>3
<1> HIDE DEF compute
<1> QED BY <1>4, <1>5 DEF AwaitedMark

LEMMA SynchronizeKeeps == ExecutorInv /\ Synchronize => ExecutorInv'
<1> SUFFICES ASSUME ExecutorInv, Synchronize PROVE ExecutorInv'
  OBVIOUS
<1>1. /\ TypeInv /\ MarksCounted(device) /\ LoadsAllowed /\ pc = "issue" /\ ProgramOver
      /\ Cuda!Synchronized(device, PipelineEnd) /\ UNCHANGED <<mode, call, todo, pending, device>>
  BY DEF ExecutorInv, Synchronize
<1>2. /\ device' \in Devices /\ MarksCounted(device') /\ pending' \subseteq Events /\ pc # "idle"
      /\ \A s \in Streams : \A i \in 1 .. Len(device'.queue[s]) : LoadAllowed(s, device'.queue[s][i].work)
  BY <1>1 DEF TypeInv, LoadsAllowed
<1>3. \A s \in Streams : \A i \in 1 .. Len(device'.queue[s]) :
        device'.queue[s][i].work.op = "load" => device'.queue[s][i].work.rows[1] # call.id
  BY <1>1, PipelineOver
<1>4. CASE Leave("returned")
  <2>1. "returned" \in Outcomes
    BY DEF Outcomes
  <2> QED BY <1>1, <1>2, <1>3, <1>4, <2>1, LeaveKeeps
<1>5. CASE pc' = "measure" /\ UNCHANGED outcome
  <2>1. pc' \in {"measure", "recover"}
    BY <1>5
  <2> QED BY <1>1, <1>2, <1>3, <1>5, <2>1, WaitKeeps
<1> QED BY <1>4, <1>5 DEF Synchronize

LEMMA MeasureKeeps == ExecutorInv /\ Measure => ExecutorInv'
<1> SUFFICES ASSUME ExecutorInv, Measure PROVE ExecutorInv'
  OBVIOUS
<1>1. /\ TypeInv /\ MarksCounted(device) /\ LoadsAllowed /\ pc = "measure"
      /\ UNCHANGED <<mode, call, todo, pending, device>>
  BY DEF ExecutorInv, Measure
<1>2. /\ device' \in Devices /\ MarksCounted(device') /\ pending' \subseteq Events /\ pc # "idle"
      /\ \A s \in Streams : \A i \in 1 .. Len(device'.queue[s]) : LoadAllowed(s, device'.queue[s][i].work)
  BY <1>1 DEF TypeInv, LoadsAllowed
<1>3. \A s \in Streams : \A i \in 1 .. Len(device'.queue[s]) :
        device'.queue[s][i].work.op = "load" => device'.queue[s][i].work.rows[1] # call.id
  BY <1>1, <1>2 DEF LoadAllowed
<1>4. CASE Leave("returned")
  <2>1. "returned" \in Outcomes
    BY DEF Outcomes
  <2> QED BY <1>1, <1>2, <1>3, <1>4, <2>1, LeaveKeeps
<1>5. CASE pc' = "recover" /\ UNCHANGED outcome
  <2>1. pc' \in {"measure", "recover"} /\ pc' # "measure"
    BY <1>5
  <2> QED BY <1>1, <1>2, <1>5, <2>1, WaitKeeps
<1> QED BY <1>4, <1>5 DEF Measure

\* Recovery waits for the streams the call loads on.
LEMMA RecoverKeeps == ExecutorInv /\ Recover => ExecutorInv'
<1> SUFFICES ASSUME ExecutorInv, Recover PROVE ExecutorInv'
  OBVIOUS
<1>1. /\ TypeInv /\ MarksCounted(device) /\ LoadsAllowed /\ pc = "recover"
      /\ \A s \in RecoveredStreams : StreamIdle(s)
      /\ pending' = pending \ RecoveredFlags /\ Leave("raised") /\ UNCHANGED <<mode, call, todo, device>>
  BY DEF ExecutorInv, Recover
<1>2. /\ device' \in Devices /\ MarksCounted(device') /\ pending' \subseteq Events /\ pc # "idle"
      /\ \A s \in Streams : \A i \in 1 .. Len(device'.queue[s]) : LoadAllowed(s, device'.queue[s][i].work)
  BY <1>1 DEF TypeInv, LoadsAllowed
<1>3. \A s \in LoadStreams(call) : Len(device'.queue[s]) = 0
  <2>1. LoadStreams(call) \subseteq RecoveredStreams
    BY DEF LoadStreams, RecoveredStreams
  <2> QED BY <1>1, <2>1 DEF StreamIdle
<1>4. ASSUME NEW s \in Streams, NEW i \in 1 .. Len(device'.queue[s]),
             device'.queue[s][i].work.op = "load", device'.queue[s][i].work.rows[1] = call.id
      PROVE  FALSE
  <2>1. s \in LoadStreams(call)
    BY <1>2, <1>4 DEF LoadAllowed
  <2>2. Len(device'.queue[s]) = 0
    BY <1>3, <2>1
  <2> QED BY <2>2
<1>5. \A s \in Streams : \A i \in 1 .. Len(device'.queue[s]) :
        device'.queue[s][i].work.op = "load" => device'.queue[s][i].work.rows[1] # call.id
  BY <1>4
<1>6. "raised" \in Outcomes
  BY DEF Outcomes
<1> QED BY <1>1, <1>2, <1>5, <1>6, LeaveKeeps

LEMMA BeginKeeps == ExecutorInv /\ Begin => ExecutorInv'
<1> SUFFICES ASSUME ExecutorInv, Begin PROVE ExecutorInv'
  OBVIOUS
<1>1. /\ TypeInv /\ MarksCounted(device) /\ LoadsAllowed /\ pc = "idle" /\ call.id < MaxCalls
      /\ outcome' = [outcome EXCEPT ![call.id + 1] = "running"]
      /\ pc' = "issue" /\ todo' = Program(call') /\ UNCHANGED <<mode, pending, device>>
  BY DEF ExecutorInv, Begin
<1>2. /\ call' \in Calls /\ call'.id = call.id + 1 /\ call'.id \in Ids /\ call.id \in Nat
      /\ call'.id \in 0 .. MaxCalls
  <2>1. PICK kind \in KindsIn(mode) : call' = [id |-> call.id + 1, mode |-> mode, kind |-> kind]
    BY DEF Begin
  <2>2. KindsIn(mode) \subseteq Kinds /\ mode \in {"host", "device_consumer"} /\ call.id \in 0 .. MaxCalls
    BY <1>1 DEF TypeInv, KindsIn, Kinds
  <2> QED BY <1>1, <2>1, <2>2, ExecutorAssumption DEF Calls, Ids
<1>3. /\ Program(call') \in Whole(call')
      /\ Program(call') # <<>>
      /\ Program(call')[Len(Program(call'))] = Record("compute", {PipelineEnd}, {})
  BY <1>2, ProgramWhole
<1>4. /\ outcome' \in [Ids -> Outcomes] /\ outcome'[call'.id] = "running"
      /\ \A id \in 1 .. call.id : outcome'[id] = outcome[id]
  <2>1. outcome \in [Ids -> Outcomes] /\ "running" \in Outcomes
    BY <1>1 DEF TypeInv, Outcomes
  <2>2. \A id \in 1 .. call.id : id \in Ids /\ id # call.id + 1
    BY <1>2, ExecutorAssumption DEF Ids
  <2> QED BY <1>1, <1>2, <2>1, <2>2
<1>5. TypeInv'
  <2>1. Program(call') \in Seq(Steps(call'))
    BY <1>3 DEF Whole
  <2> QED BY <1>1, <1>2, <1>4, <2>1 DEF TypeInv
<1>6. ASSUME NEW s \in Streams, NEW i \in 1 .. Len(device.queue[s]), device.queue[s][i].work.op = "load"
      PROVE  LET id == device.queue[s][i].work.rows[1] IN
             id \in 1 .. call.id /\ outcome[id] \notin {"returned", "raised"}
  BY <1>1, <1>6 DEF LoadsAllowed, LoadAllowed
<1>7. LoadsAllowed'
  <2> SUFFICES ASSUME NEW s \in Streams, NEW i \in 1 .. Len(device.queue[s]),
                      device.queue[s][i].work.op = "load"
               PROVE  LET id == device.queue[s][i].work.rows[1] IN
                      /\ id \in 1 .. call'.id /\ id # call'.id
                      /\ outcome'[id] \notin {"returned", "raised"}
    BY <1>1 DEF LoadsAllowed, LoadAllowed
  <2> DEFINE id == device.queue[s][i].work.rows[1]
  <2>1. id \in 1 .. call.id /\ outcome[id] \notin {"returned", "raised"}
    BY <1>6
  <2> HIDE DEF id
  <2>2. id \in 1 .. call'.id /\ id # call'.id
    BY <1>2, <2>1
  <2>3. outcome'[id] \notin {"returned", "raised"}
    BY <1>4, <2>1
  <2> QED BY <2>2, <2>3 DEF id
<1>8. LoadsAwaited'
  <2>1. call.id + 1 \notin 1 .. call.id
    BY <1>2
  <2>2. \A s \in Streams : \A i \in 1 .. Len(device.queue[s]) :
          device.queue[s][i].work.op = "load" => device.queue[s][i].work.rows[1] # call'.id
    BY <1>2, <1>6, <2>1
  <2> QED BY <1>1, <2>2 DEF LoadsAwaited
<1>9. TodoAwaited' /\ EndMarked'
  <2>1. todo' # <<>> /\ Awaited(todo') /\ Ends(todo')
    BY <1>1, <1>3 DEF Whole, Ends
  <2> QED BY <2>1 DEF TodoAwaited, EndMarked, ProgramOver
<1>10. MarksCounted(device)'
  BY <1>1
<1> QED BY <1>5, <1>7, <1>8, <1>9, <1>10 DEF ExecutorInv

-----------------------------------------------------------------------------
(* The steps of the device, and the theorem. *)

LEMMA DeviceKeeps ==
  ASSUME ExecutorInv, NEW s \in Streams, DeviceStep(s)
  PROVE  ExecutorInv'
<1> DEFINE reached == Reached(device, s)
<1>1. /\ TypeInv /\ MarksCounted(device) /\ LoadsAllowed /\ LoadsAwaited /\ TodoAwaited /\ EndMarked
      /\ device \in Devices
      /\ device.queue[s] # <<>> /\ Head(device.queue[s]).needs = {}
      /\ device' = Cuda!Performed(device, s)
      /\ UNCHANGED <<mode, call, pc, todo, pending, outcome>>
  BY DEF ExecutorInv, TypeInv, DeviceStep, Cuda!CanPerform
<1>2. IsPerformed(device', device, s) /\ MarksCounted(device')
  BY <1>1, PerformedFacts, PerformCounted
<1>3. TypeInv'
  BY <1>1, <1>2 DEF TypeInv, IsPerformed
\* An operation that stays.
<1>4. ASSUME NEW t \in Streams, NEW i \in 1 .. Len(device'.queue[t])
      PROVE  /\ i + One(t, s) \in 1 .. Len(device.queue[t])
             /\ IsAdvanced(device'.queue[t][i], device.queue[t][i + One(t, s)], reached)
             /\ device'.queue[t][i].work = device.queue[t][i + One(t, s)].work
  BY <1>2 DEF IsPerformed, IsAdvanced
<1>5. LoadsAllowed'
  <2> SUFFICES ASSUME NEW t \in Streams, NEW i \in 1 .. Len(device'.queue[t])
               PROVE  LoadAllowed(t, device'.queue[t][i].work)
    BY <1>1 DEF LoadsAllowed, LoadAllowed
  <2>1. LoadAllowed(t, device.queue[t][i + One(t, s)].work)
    BY <1>1, <1>4 DEF LoadsAllowed
  <2> QED BY <1>4, <2>1
<1> HIDE DEF reached
<1>6. LoadsAwaited'
  <2> SUFFICES ASSUME pc = "issue", NEW t \in Streams, NEW i \in 1 .. Len(device'.queue[t]),
                      device'.queue[t][i].work.op = "load",
                      device'.queue[t][i].work.rows[1] = call.id
               PROVE  \E q \in device'.queue[t][i].records :
                        q[1] \in Watched /\ AwaitedMark(q, device'.queue["compute"], todo)
    BY <1>1 DEF LoadsAwaited
  <2> DEFINE k == i + One(t, s)
  <2>1. /\ k \in 1 .. Len(device.queue[t]) /\ device'.queue[t][i].work = device.queue[t][k].work
        /\ IsAdvanced(device'.queue[t][i], device.queue[t][k], reached)
    BY <1>4
  <2> HIDE DEF k
  <2>2. PICK r \in device.queue[t][k].records :
          r[1] \in Watched /\ AwaitedMark(r, device.queue["compute"], todo)
    BY <1>1, <2>1 DEF LoadsAwaited
  <2> DEFINE q == <<r[1], After(r, reached)>>
  <2>3. q \in device'.queue[t][i].records /\ q[1] = r[1] /\ q[2] = After(r, reached)
    BY <2>1, <2>2 DEF IsAdvanced
  <2> HIDE DEF q
  <2>4. r[2] \in Int
    BY <1>1, <2>1, <2>2 DEF MarksCounted
  <2>5. After(r, reached) > 0
    BY <1>2, <2>2, <2>3 DEF MarksCounted
  <2>6. AwaitedMark(q, device'.queue["compute"], todo)
    BY <1>1, <1>2, <2>2, <2>4, <2>5, PerformAwaits DEF q, reached
  <2> QED BY <2>2, <2>3, <2>6
<1>7. TodoAwaited'
  BY <1>1 DEF TodoAwaited
<1>8. EndMarked'
  <2> DEFINE old == device.queue["compute"]
             new == device'.queue["compute"]
             g == One("compute", s)
  <2> SUFFICES ASSUME pc = "issue", ProgramOver, new # <<>>
               PROVE  \E q \in new[Len(new)].records : q[1] = PipelineEnd
    BY <1>1 DEF EndMarked, ProgramOver
  <2>1. "compute" \in Streams /\ new \in Seq(Ops) /\ old \in Seq(Ops)
    BY <1>1, <1>2, StreamFacts DEF IsPerformed, Devices
  <2>2. Len(new) = Len(old) - g /\ g \in {0, 1}
    BY <1>2, <2>1, OneFacts DEF IsPerformed
  <2> HIDE DEF new, old, g
  <2>3. Len(new) \in 1 .. Len(new) /\ Len(new) + g = Len(old) /\ old # <<>>
    BY <2>1, <2>2
  <2>4. IsAdvanced(new[Len(new)], old[Len(old)], reached)
    BY <1>4, <2>1, <2>3 DEF new, old, g
  <2>5. PICK r \in old[Len(old)].records : r[1] = PipelineEnd
    BY <1>1, <2>3 DEF EndMarked, old
  <2>6. <<r[1], After(r, reached)>> \in new[Len(new)].records
    BY <2>4, <2>5 DEF IsAdvanced
  <2> QED BY <2>5, <2>6
<1> QED BY <1>2, <1>3, <1>5, <1>6, <1>7, <1>8 DEF ExecutorInv

LEMMA ExecutorStarts == Init => ExecutorInv
<1> SUFFICES ASSUME Init PROVE ExecutorInv
  OBVIOUS
<1>1. device = Cuda!Device(Streams, Events) /\ pc = "idle" /\ todo = <<>> /\ pending = {}
      /\ call = NoCall /\ mode \in {"host", "device_consumer"} /\ outcome = [id \in Ids |-> "none"]
  BY DEF Init
<1>2. /\ device.queue = [s \in Streams |-> <<>>] /\ device.unreached = [e \in Events |-> 0]
      /\ device = [queue |-> device.queue, unreached |-> device.unreached]
  BY <1>1 DEF Cuda!Device
<1>3. device \in Devices
  <2>1. device.queue \in [Streams -> Seq(Ops)] /\ device.unreached \in [Events -> Int]
    BY <1>2
  <2> QED BY <1>2, <2>1 DEF Devices
<1>4. \A s \in Streams : Len(device.queue[s]) = 0
  BY <1>2
<1>5. call \in Calls /\ call.id \in 0 .. MaxCalls
  BY <1>1, ExecutorAssumption DEF NoCall, Calls, Kinds, KindsIn
<1>6. TypeInv
  BY <1>1, <1>3, <1>5 DEF TypeInv, Outcomes
<1>7. MarksCounted(device) /\ LoadsAllowed
  BY <1>2, <1>4 DEF MarksCounted, LoadsAllowed, Watched
<1> QED BY <1>1, <1>6, <1>7 DEF ExecutorInv, LoadsAwaited, TodoAwaited, EndMarked

LEMMA ExecutorStep == ExecutorInv /\ [Next]_vars => ExecutorInv'
<1> SUFFICES ASSUME ExecutorInv, [Next]_vars PROVE ExecutorInv'
  OBVIOUS
<1>1. CASE Host
  BY <1>1, BeginKeeps, IssueKeeps, SynchronizeKeeps, MeasureKeeps, RecoverKeeps DEF Host
<1>2. CASE Raise \/ Interrupt
  BY <1>2, RaiseKeeps, InterruptKeeps
<1>3. CASE \E s \in Streams : DeviceStep(s)
  BY <1>3, DeviceKeeps
<1>4. CASE UNCHANGED vars
  BY <1>4 DEF vars, ExecutorInv, TypeInv, LoadsAllowed, LoadAllowed, LoadsAwaited, TodoAwaited,
              EndMarked, ProgramOver
<1> QED BY <1>1, <1>2, <1>3, <1>4 DEF Next, Finished

\* The types of the executor, the order of its records and the place of every
\* load that the device has still to perform.
THEOREM ExecutorInvariant == Spec => []ExecutorInv
<1> QED BY ExecutorStarts, ExecutorStep, PTL DEF Spec

\* Once a call returned or raised, no copy from its host tensors is left on the
\* device (run_query_tasks synchronizes the end of the pipeline, and
\* _recover_triton_failure the streams of the source), whatever earlier calls
\* that were interrupted left there.
THEOREM InputsAreReleased == Spec => []InputsReleased
<1>1. ExecutorInv => InputsReleased
  BY DEF ExecutorInv, LoadsAllowed, LoadAllowed, InputsReleased
<1> QED BY <1>1, ExecutorInvariant, PTL

-----------------------------------------------------------------------------
(* Programs without a race.  An analysis of a program in its own order: at   *)
(* each step it knows which streams and events are behind every access to a  *)
(* buffer so far, and what the buffers hold if the steps are performed one   *)
(* after the other.                                                          *)

\* The events that are waited for only when they are flagged.
FreeEvents ==
  {e \in Events : e[1] \in {"q_free", "kv_free", "output_free", "hidden_free", "consumer_free"}}

\* The stream on which a call records e.
PlaceOf(c, e) ==
  CASE e[1] \in {"q_ready", "kv_ready", "h2d_end"} -> "h2d"
    [] e[1] = "hidden_ready" -> e[2]
    [] e[1] = "output_free" -> "d2h"
    [] e[1] = "consumer_free" -> "consumer"
    [] e[1] = "task_done" -> IF c.mode = "host" THEN "d2h" ELSE "consumer"
    [] e[1] = "q_free" -> IF c.mode # "host" /\ c.kind = "view" THEN "d2h" ELSE "compute"
    [] OTHER -> "compute"

\* The stream of the stores of a call, and all of its streams.
OutputStream(c) == IF Consumed(c) THEN "consumer" ELSE "d2h"

CallStreams(c) ==
  {"h2d", "compute", "d2h"}
    \cup (IF Consumed(c) THEN {"consumer"} ELSE {})
    \cup (IF FromHost(c) THEN {} ELSE {Staging(c, "q"), Staging(c, "kv")})

\* The stream that writes a buffer in host mode.
WriterOf(b) == IF b[1] \in {"q", "kv"} THEN "h2d" ELSE "compute"

Reads(work) ==
  CASE work.op \in {"copy", "store"} -> {work.from}
    [] work.op = "update" -> {Q, work.kv} \cup (IF work.initialize THEN {} ELSE {Accumulator})
    [] OTHER -> {}

Writes(work) ==
  CASE work.op \in {"load", "copy"} -> {work.to}
    [] work.op = "update" -> {Accumulator} \cup work.scratch
    [] OTHER -> {}

\* What a step is behind, and what is behind a step.
OnStream(s) == <<"stream", s>>
OnEvent(e) == <<"event", e>>
Hears(x) == {OnStream(x.stream)} \cup {OnEvent(e) : e \in x.waits \cup x.guards}
Tells(x) == {OnStream(x.stream)} \cup {OnEvent(e) : e \in x.records}

\* What it accesses: buffers, and its stream.
Touches(x) == {OnStream(x.stream)} \cup Reads(x.work) \cup Writes(x.work)

\* What every step of a call satisfies on its own.
Tidy(c, x) ==
  /\ \A e \in x.records : x.stream = PlaceOf(c, e)
  /\ x.records \cap FreeEvents \subseteq x.flags
  /\ x.guards \subseteq FreeEvents
  /\ x.stream \in CallStreams(c)
  /\ c.mode = "host" => \A b \in Writes(x.work) : x.stream = WriterOf(b)
  /\ x.work.op = "store" => /\ x.stream = OutputStream(c)
                            /\ x.work.id = c.id /\ x.work.task \in 1 .. TaskCount(c)

\* A state F of the analysis has the pairs <<y, b>>, for a stream or event y that
\* is behind every access to b, the contents <<b, v>> of the buffers, and the
\* tasks stored.
Heard(F, x) == {f[2] : f \in {g \in F.known : g[1] \in Hears(x)}}

Contents(F, b) == {g[2] : g \in {f \in F.holds : f[1] = b}}

Started(F, work) == IF work.initialize THEN {<<>>} ELSE Contents(F, Accumulator)

Updated(F, work) ==
  {<<Accumulator, Append(a, <<q, k>>)>> :
     a \in Started(F, work), q \in Contents(F, Q), k \in Contents(F, work.kv)}

Put(F, work) ==
  IF work.op = "load" THEN {<<work.to, work.rows>>}
  ELSE IF work.op = "copy" THEN {<<work.to, v>> : v \in Contents(F, work.from)}
  ELSE IF work.op = "update" THEN Updated(F, work)
  ELSE {}

Post(F, x) ==
  [known  |-> {f \in F.known : f[2] \notin Touches(x)} \cup (Tells(x) \X Heard(F, x)),
   holds  |-> {f \in F.holds : f[1] \notin Writes(x.work)} \cup Put(F, x.work),
   stored |-> F.stored \cup (IF x.work.op = "store" THEN {x.work.task} ELSE {})]

\* A step is safe when it is behind every earlier access to what it accesses,
\* and stores the answer.
Safe(c, F, x) ==
  /\ Tidy(c, x)
  /\ Touches(x) \subseteq Heard(F, x)
  /\ x.work.op = "store" => <<x.work.from, Answer(c.id, x.work.task)>> \in F.holds

Checked(c, p, h) ==
  \A i \in 1 .. Len(p) : Safe(c, h[i - 1], p[i]) /\ h[i] = Post(h[i - 1], p[i])

-----------------------------------------------------------------------------
(* What the analysis says of every order in which a program is performed.    *)

\* q is performed before p by the streams and events.
Before(p, i, j) == i < j /\ Tells(p[i]) \cap Hears(p[j]) # {}

\* The sets of steps that may have been performed.
Closed(p, D) ==
  /\ D \subseteq 1 .. Len(p)
  /\ \A j \in D : \A i \in 1 .. Len(p) : Before(p, i, j) => i \in D

\* y is behind every access to b among the first k steps.
Behind(p, k, y, b) ==
  \A D : Closed(p, D) /\ (\A i \in 1 .. k : y \in Tells(p[i]) => i \in D)
           => \A i \in 1 .. k : b \in Touches(p[i]) => i \in D

HeldSince(p, h, k, f) ==
  \E i \in 1 .. k : /\ f[1] \in Writes(p[i].work) /\ f \in h[i].holds
                    /\ \A j \in i + 1 .. k : f[1] \notin Writes(p[j].work)

StoredBy(p, k, t) == \E i \in 1 .. k : p[i].work.op = "store" /\ p[i].work.task = t

Means(p, h, k) ==
  /\ \A f \in h[k].known : Behind(p, k, f[1], f[2])
  /\ \A f \in h[k].holds : HeldSince(p, h, k, f)
  /\ \A t \in h[k].stored : StoredBy(p, k, t)

Carriers == ({"stream"} \X Streams) \cup ({"event"} \X Events)
Things(c) == ({"stream"} \X Streams) \cup Buffers({c.id})

\* Nothing was accessed yet.
Start(c) == [known |-> Carriers \X Things(c), holds |-> {}, stored |-> {}]

\* A step tells what it heard.
LEMMA HeardBehind ==
  ASSUME NEW p, Len(p) \in Nat, NEW h, NEW k \in 0 .. Len(p) - 1, Means(p, h, k),
         NEW b \in Heard(h[k], p[k + 1]), NEW D, Closed(p, D), k + 1 \in D
  PROVE  \A i \in 1 .. k : b \in Touches(p[i]) => i \in D
<1>1. PICK f \in h[k].known : f[1] \in Hears(p[k + 1]) /\ f[2] = b
  BY DEF Heard
<1>2. \A i \in 1 .. k : f[1] \in Tells(p[i]) => i \in D
  <2> SUFFICES ASSUME NEW i \in 1 .. k, f[1] \in Tells(p[i]) PROVE i \in D
    OBVIOUS
  <2>1. Before(p, i, k + 1) /\ i \in 1 .. Len(p)
    BY <1>1 DEF Before
  <2> QED BY <2>1 DEF Closed
<1>3. Behind(p, k, f[1], b)
  BY <1>1 DEF Means
<1> QED BY <1>2, <1>3 DEF Behind

\* What the analysis says stays true behind a safe step.
LEMMA MeansStep ==
  ASSUME NEW c, NEW p, Len(p) \in Nat, NEW h, Checked(c, p, h),
         NEW k \in 0 .. Len(p) - 1, Means(p, h, k)
  PROVE  Means(p, h, k + 1)
<1> DEFINE x == p[k + 1]
<1>1. Safe(c, h[k], x) /\ h[k + 1] = Post(h[k], x)
  <2>1. k + 1 \in 1 .. Len(p) /\ (k + 1) - 1 = k
    OBVIOUS
  <2> QED BY <2>1 DEF Checked
<1>2. 1 .. k + 1 = (1 .. k) \cup {k + 1}
  OBVIOUS
<1>3. ASSUME NEW f \in h[k + 1].known PROVE Behind(p, k + 1, f[1], f[2])
  <2> SUFFICES ASSUME NEW D, Closed(p, D), \A i \in 1 .. k + 1 : f[1] \in Tells(p[i]) => i \in D,
                      NEW i \in 1 .. k + 1, f[2] \in Touches(p[i])
               PROVE  i \in D
    BY DEF Behind
  <2>1. f \in {g \in h[k].known : g[2] \notin Touches(x)} \/ f \in Tells(x) \X Heard(h[k], x)
    BY <1>1, <1>3 DEF Post
  <2>2. CASE f \in {g \in h[k].known : g[2] \notin Touches(x)}
    <3>1. f \in h[k].known /\ i \in 1 .. k
      BY <1>2, <2>2
    <3>2. Behind(p, k, f[1], f[2])
      BY <3>1 DEF Means
    <3> QED BY <1>2, <3>1, <3>2 DEF Behind
  <2>3. CASE f \in Tells(x) \X Heard(h[k], x)
    <3>1. f[1] \in Tells(x) /\ f[2] \in Heard(h[k], x)
      BY <2>3
    <3>2. k + 1 \in D
      BY <3>1
    <3>3. \A j \in 1 .. k : f[2] \in Touches(p[j]) => j \in D
      BY <3>1, <3>2, HeardBehind
    <3> QED BY <1>2, <3>2, <3>3
  <2> QED BY <2>1, <2>2, <2>3
<1>4. ASSUME NEW f \in h[k + 1].holds PROVE HeldSince(p, h, k + 1, f)
  <2>1. f \in {g \in h[k].holds : g[1] \notin Writes(x.work)} \/ f \in Put(h[k], x.work)
    BY <1>1, <1>4 DEF Post
  <2>2. CASE f \in {g \in h[k].holds : g[1] \notin Writes(x.work)}
    <3>1. HeldSince(p, h, k, f)
      BY <2>2 DEF Means
    <3>2. PICK i \in 1 .. k : /\ f[1] \in Writes(p[i].work) /\ f \in h[i].holds
                              /\ \A j \in i + 1 .. k : f[1] \notin Writes(p[j].work)
      BY <3>1 DEF HeldSince
    <3>3. i \in 1 .. k + 1 /\ \A j \in i + 1 .. k + 1 : j \in i + 1 .. k \/ j = k + 1
      OBVIOUS
    <3> QED BY <2>2, <3>2, <3>3 DEF HeldSince
  <2>3. CASE f \in Put(h[k], x.work)
    <3>1. f[1] \in Writes(x.work)
      <4> HIDE DEF x
      <4> QED BY <2>3 DEF Put, Updated, Writes
    <3>2. k + 1 \in 1 .. k + 1 /\ \A j \in (k + 1) + 1 .. k + 1 : FALSE
      OBVIOUS
    <3> QED BY <1>4, <3>1, <3>2 DEF HeldSince
  <2> QED BY <2>1, <2>2, <2>3
<1>5. ASSUME NEW t \in h[k + 1].stored PROVE StoredBy(p, k + 1, t)
  <2>1. t \in h[k].stored \/ (x.work.op = "store" /\ t = x.work.task)
    BY <1>1, <1>5 DEF Post
  <2>2. t \in h[k].stored => StoredBy(p, k, t)
    BY DEF Means
  <2> QED BY <1>2, <2>1, <2>2 DEF StoredBy
<1> QED BY <1>3, <1>4, <1>5 DEF Means

\* What the analysis says of a program is so from its start to its end.
LEMMA AnalysisMeans ==
  ASSUME NEW c, NEW p, Len(p) \in Nat, NEW h, Checked(c, p, h), h[0] = Start(c)
  PROVE  \A k \in 0 .. Len(p) : Means(p, h, k)
<1> DEFINE Bad == {k \in 0 .. Len(p) : ~Means(p, h, k)}
<1> SUFFICES Bad = {}
  OBVIOUS
<1> SUFFICES ASSUME Bad # {} PROVE FALSE
  OBVIOUS
<1>1. PICK m \in Bad : \A k \in Bad : m <= k
  <2>1. Bad \subseteq Nat
    OBVIOUS
  <2> HIDE DEF Bad
  <2> QED BY <2>1, LeastNumber
<1>2. Means(p, h, 0)
  <2>1. 1 .. 0 = {}
    OBVIOUS
  <2>2. h[0].holds = {} /\ h[0].stored = {}
    BY DEF Start
  <2> QED BY <2>1, <2>2 DEF Means, Behind
<1>3. m # 0
  BY <1>2
<1>4. m - 1 \in 0 .. Len(p) - 1 /\ (m - 1) + 1 = m /\ m - 1 \in 0 .. Len(p) /\ ~(m <= m - 1)
  BY <1>3
<1>5. m - 1 \notin Bad
  BY <1>1, <1>4
<1>6. Means(p, h, m - 1)
  BY <1>4, <1>5
<1>7. Means(p, h, m)
  BY <1>4, <1>6, MeansStep
<1> QED BY <1>7

\* Accesses to the same thing are performed in the order of the program.
LEMMA AccessesInOrder ==
  ASSUME NEW c, NEW p, Len(p) \in Nat, NEW h, Checked(c, p, h), h[0] = Start(c),
         NEW i \in 1 .. Len(p), NEW j \in 1 .. Len(p), i < j, NEW b, b \in Touches(p[i]), b \in Touches(p[j]),
         NEW D, Closed(p, D), j \in D
  PROVE  i \in D
<1> DEFINE k == j - 1
<1>1. k \in 0 .. Len(p) - 1 /\ k + 1 = j /\ i \in 1 .. k /\ k \in 0 .. Len(p)
  OBVIOUS
<1>2. Means(p, h, k)
  BY <1>1, AnalysisMeans
<1>3. b \in Heard(h[k], p[j])
  BY <1>1 DEF Checked, Safe
<1> HIDE DEF k
<1> QED BY <1>1, <1>2, <1>3, HeardBehind

-----------------------------------------------------------------------------
(* The analysis of a program from that of its parts.                         *)

\* F knows everything that A does.
Above(F, A) == A.known \subseteq F.known /\ A.holds \subseteq F.holds /\ A.stored \subseteq F.stored

IsSequence(s) == \E S : s \in Seq(S)

\* Where A is known, the steps of s are safe, and B is known behind them.
Leads(c, A, s, B) ==
  /\ IsSequence(s)
  /\ \A F : Above(F, A) => \E h : Checked(c, s, h) /\ h[0] = F /\ Above(h[Len(s)], B)

\* Knowing more is transitive.
LEMMA AboveAbove ==
  ASSUME NEW F, NEW A, NEW B, Above(F, A), Above(A, B)
  PROVE  Above(F, B)
BY DEF Above

\* More knowledge lets a step do, and know, no less.
LEMMA PostGrows ==
  ASSUME NEW F, NEW A, NEW x, Above(F, A)
  PROVE  /\ Heard(A, x) \subseteq Heard(F, x)
         /\ Above(Post(F, x), Post(A, x))
<1>1. Heard(A, x) \subseteq Heard(F, x)
  BY DEF Heard, Above
<1>2. \A b : Contents(A, b) \subseteq Contents(F, b)
  BY DEF Contents, Above
<1>3. Put(A, x.work) \subseteq Put(F, x.work)
  <2> DEFINE w == x.work
  <2>1. Updated(A, w) \subseteq Updated(F, w)
    <3>1. Started(A, w) \subseteq Started(F, w)
      BY <1>2 DEF Started
    <3> QED BY <1>2, <3>1 DEF Updated
  <2>2. {<<w.to, v>> : v \in Contents(A, w.from)} \subseteq {<<w.to, v>> : v \in Contents(F, w.from)}
    BY <1>2
  <2> HIDE DEF w
  <2> QED BY <2>1, <2>2 DEF Put, w
<1>4. Post(A, x).known \subseteq Post(F, x).known
  BY <1>1 DEF Post, Above
<1>5. Post(A, x).holds \subseteq Post(F, x).holds
  BY <1>3 DEF Post, Above
<1>6. Post(A, x).stored \subseteq Post(F, x).stored
  BY DEF Post, Above
<1> QED BY <1>1, <1>4, <1>5, <1>6 DEF Above

\* One safe step leads to what is known behind it.
LEMMA LeadsOne ==
  ASSUME NEW c, NEW A, NEW x, NEW B, Safe(c, A, x), Above(Post(A, x), B)
  PROVE  Leads(c, A, <<x>>, B)
<1>1. IsSequence(<<x>>)
  <2>1. <<x>> \in Seq({x})
    OBVIOUS
  <2> QED BY <2>1 DEF IsSequence
<1>2. ASSUME NEW F, Above(F, A)
      PROVE  \E h : Checked(c, <<x>>, h) /\ h[0] = F /\ Above(h[Len(<<x>>)], B)
  <2> DEFINE h == [i \in 0 .. 1 |-> IF i = 0 THEN F ELSE Post(F, x)]
  <2>1. h[0] = F /\ h[1] = Post(F, x)
    OBVIOUS
  <2> HIDE DEF h
  <2>2. Safe(c, F, x)
    BY <1>2, PostGrows DEF Safe, Above
  <2>3. Checked(c, <<x>>, h)
    <3> SUFFICES ASSUME NEW i \in 1 .. 1
                 PROVE  Safe(c, h[i - 1], x) /\ h[i] = Post(h[i - 1], x)
      BY DEF Checked
    <3>1. i = 1 /\ i - 1 = 0
      OBVIOUS
    <3> QED BY <2>1, <2>2, <3>1
  <2>4. Above(h[Len(<<x>>)], B)
    <3>1. Above(Post(F, x), Post(A, x))
      BY <1>2, PostGrows
    <3>2. Above(Post(F, x), B)
      BY <3>1, AboveAbove
    <3>3. Len(<<x>>) = 1
      OBVIOUS
    <3> QED BY <2>1, <3>2, <3>3
  <2> QED BY <2>1, <2>3, <2>4
<1> QED BY <1>1, <1>2 DEF Leads

\* No step leads to anything less.
LEMMA LeadsNowhere ==
  ASSUME NEW c, NEW A, NEW B, Above(A, B)
  PROVE  Leads(c, A, <<>>, B)
<1>1. IsSequence(<<>>)
  <2>1. <<>> \in Seq({})
    OBVIOUS
  <2> QED BY <2>1 DEF IsSequence
<1>2. ASSUME NEW F, Above(F, A)
      PROVE  \E h : Checked(c, <<>>, h) /\ h[0] = F /\ Above(h[Len(<<>>)], B)
  <2> DEFINE h == [i \in {0} |-> F]
  <2>1. h[0] = F
    OBVIOUS
  <2> HIDE DEF h
  <2>2. Len(<<>>) = 0 /\ 1 .. 0 = {}
    OBVIOUS
  <2> QED BY <1>2, <2>1, <2>2, AboveAbove DEF Checked
<1> QED BY <1>1, <1>2 DEF Leads

\* More may be known in front, and less behind.
LEMMA LeadsWeaker ==
  ASSUME NEW c, NEW A, NEW A1, NEW B, NEW B1, NEW s, Above(A, A1), Leads(c, A1, s, B1), Above(B1, B)
  PROVE  Leads(c, A, s, B)
BY AboveAbove DEF Leads

\* Sequences joined.
LEMMA JoinedSequence ==
  ASSUME NEW s, NEW r, IsSequence(s), IsSequence(r)
  PROVE  /\ IsSequence(s \o r)
         /\ Len(s) \in Nat /\ Len(r) \in Nat /\ Len(s \o r) = Len(s) + Len(r)
         /\ \A i \in 1 .. Len(s) : (s \o r)[i] = s[i]
         /\ \A i \in Len(s) + 1 .. Len(s) + Len(r) : (s \o r)[i] = r[i - Len(s)]
<1>1. PICK S : s \in Seq(S)
  BY DEF IsSequence
<1>2. PICK R : r \in Seq(R)
  BY DEF IsSequence
<1> DEFINE T == S \cup R
<1>3. s \in Seq(T) /\ r \in Seq(T)
  BY <1>1, <1>2
<1> HIDE DEF T
<1>4. s \o r \in Seq(T)
  BY <1>3
<1> QED BY <1>3, <1>4 DEF IsSequence

\* What leads to B and then on to C leads to C.
LEMMA LeadsOn ==
  ASSUME NEW c, NEW A, NEW s, NEW B, NEW r, NEW C, Leads(c, A, s, B), Leads(c, B, r, C)
  PROVE  Leads(c, A, s \o r, C)
<1> DEFINE m == Len(s)
           n == Len(r)
           p == s \o r
<1>1. /\ IsSequence(p) /\ m \in Nat /\ n \in Nat /\ Len(p) = m + n
      /\ \A i \in 1 .. m : p[i] = s[i]
      /\ \A i \in m + 1 .. m + n : p[i] = r[i - m]
  BY JoinedSequence DEF Leads
<1>2. ASSUME NEW F, Above(F, A)
      PROVE  \E h : Checked(c, p, h) /\ h[0] = F /\ Above(h[Len(p)], C)
  <2>1. PICK f : Checked(c, s, f) /\ f[0] = F /\ Above(f[m], B)
    BY <1>2 DEF Leads
  <2>2. PICK g : Checked(c, r, g) /\ g[0] = f[m] /\ Above(g[n], C)
    BY <2>1 DEF Leads
  <2> DEFINE h == [i \in 0 .. m + n |-> IF i <= m THEN f[i] ELSE g[i - m]]
  <2> HIDE DEF m, n, p
  <2>3. /\ \A i \in 0 .. m : h[i] = f[i]
        /\ \A i \in m .. m + n : h[i] = g[i - m]
    BY <1>1, <2>2
  <2> HIDE DEF h
  <2>4. ASSUME NEW i \in 1 .. m + n
        PROVE  Safe(c, h[i - 1], p[i]) /\ h[i] = Post(h[i - 1], p[i])
    <3>1. CASE i <= m
      <4>1. i \in 1 .. m /\ i - 1 \in 0 .. m /\ i \in 0 .. m
        BY <1>1, <3>1
      <4>2. h[i - 1] = f[i - 1] /\ h[i] = f[i] /\ p[i] = s[i]
        BY <1>1, <2>3, <4>1
      <4> QED BY <2>1, <4>1, <4>2 DEF Checked, m
    <3>2. CASE ~(i <= m)
      <4> DEFINE k == i - m
      <4>1. /\ k \in 1 .. n /\ i \in m + 1 .. m + n /\ i - 1 \in m .. m + n /\ i \in m .. m + n
            /\ (i - 1) - m = k - 1
        BY <1>1, <3>2
      <4>2. h[i - 1] = g[k - 1] /\ h[i] = g[k] /\ p[i] = r[k]
        BY <1>1, <2>3, <4>1
      <4> HIDE DEF k
      <4> QED BY <2>2, <4>1, <4>2 DEF Checked, n
    <3> QED BY <3>1, <3>2
  <2>5. h[0] = F /\ h[m + n] = g[n]
    <3>1. 0 \in 0 .. m /\ m + n \in m .. m + n /\ (m + n) - m = n
      BY <1>1
    <3> QED BY <2>1, <2>3, <3>1
  <2> QED BY <1>1, <2>2, <2>4, <2>5 DEF Checked
<1> QED BY <1>1, <1>2 DEF Leads

\* A loop, with what is known at the beginning of each turn.
LEMMA LeadsThrough ==
  ASSUME NEW c, NEW seqs, Len(seqs) \in Nat \ {0}, NEW I,
         \A i \in 1 .. Len(seqs) : Leads(c, I[i], seqs[i], I[i + 1])
  PROVE  Leads(c, I[1], FlattenSeq(seqs), I[Len(seqs) + 1])
<1> DEFINE n == Len(seqs)
           f == CHOOSE f : Flattens(seqs, f)
<1>1. Flattens(seqs, f)
  BY FlattenExists
<1>2. FlattenSeq(seqs) = f[n]
  BY FlattenDef
<1> HIDE DEF f
<1>3. \A i \in 1 .. n : f[i] = IF i = 1 THEN seqs[i] ELSE f[i - 1] \o seqs[i]
  BY <1>1 DEF Flattens
<1> DEFINE Bad == {k \in 1 .. n : ~Leads(c, I[1], f[k], I[k + 1])}
<1>4. Bad = {}
  <2> SUFFICES ASSUME Bad # {} PROVE FALSE
    OBVIOUS
  <2>1. PICK m \in Bad : \A k \in Bad : m <= k
    <3>1. Bad \subseteq Nat
      OBVIOUS
    <3> HIDE DEF Bad
    <3> QED BY <3>1, LeastNumber
  <2>2. m # 1
    BY <1>3
  <2>3. m - 1 \in 1 .. n /\ ~(m <= m - 1) /\ (m - 1) + 1 = m /\ m \in 1 .. n
    BY <2>2
  <2>4. m - 1 \notin Bad
    BY <2>1, <2>3
  <2>5. Leads(c, I[1], f[m - 1], I[m])
    BY <2>3, <2>4
  <2>6. f[m] = f[m - 1] \o seqs[m]
    BY <1>3, <2>2
  <2>7. Leads(c, I[1], f[m], I[m + 1])
    BY <2>3, <2>5, <2>6, LeadsOn
  <2> QED BY <2>7
<1>5. n \in 1 .. n
  OBVIOUS
<1>6. Leads(c, I[1], f[n], I[n + 1])
  BY <1>4, <1>5
<1> QED BY <1>2, <1>6

-----------------------------------------------------------------------------
(* What is known in a call between its blocks.                               *)

OnCompute == OnStream("compute")
OnH2d == OnStream("h2d")

ValidCall(c) == c \in Calls /\ c.kind \in KindsIn(c.mode)

\* Who is behind every use of a buffer when no task is using it.
QCarrier(c) == IF FromHost(c) THEN OnEvent(QFree) ELSE OnCompute
KvCarrier(c, b) == IF FromHost(c) THEN OnEvent(KvFree(b)) ELSE OnCompute
OutCarrier(c, o) ==
  IF Consumed(c) \/ c.kind = "transform" THEN OnCompute ELSE OnEvent(OutputFree(o))

\* Who is behind the input stream before task t, and at the end.
H2dAfter(c) == IF Measured(c) THEN OnEvent(H2dEnd) ELSE OnCompute
H2dBefore(c, t) == IF t = 1 THEN OnCompute ELSE H2dAfter(c)

Table(c, t) ==
  {<<QCarrier(c), Q>>, <<OnCompute, Accumulator>>, <<H2dBefore(c, t), OnH2d>>}
    \cup {<<KvCarrier(c, b), Kv(b)>> : b \in KvBuffers}
    \cup {<<OutCarrier(c, o), Output(o)>> : o \in OutputBuffers}
    \cup {<<OnEvent(HiddenFree(w)), Hidden(w)>> : w \in Stagings}
    \cup {<<OnEvent(ConsumerFree(s)), ConsumerOutput(s)>> : s \in ConsumerBuffers}
    \cup {<<OnCompute, Transformed(c, u)>> : u \in t .. NumTasks}
    \cup {<<OnCompute, OnStream(s)>> : s \in Streams \ {"h2d", OutputStream(c)}}
    \cup {f \in {<<OnEvent(TaskDone), OnStream(OutputStream(c))>>} : Measured(c) /\ t # 1}

\* Before task t was stored: the table but for the things in X, the pairs K and
\* the contents H.
Base(c, t, X, K, H) ==
  [known  |-> {<<OnStream(s), OnStream(s)>> : s \in Streams} \cup {f \in Table(c, t) : f[2] \notin X} \cup K,
   holds  |-> H,
   stored |-> 1 .. t - 1]

\* The rows of the table, by the thing they are about.
LEMMA TableAt ==
  ASSUME NEW c, NEW t, NEW f \in Table(c, t)
  PROVE  /\ f[2] = Q => f = <<QCarrier(c), Q>>
         /\ f[2] = Accumulator => f = <<OnCompute, Accumulator>>
         /\ f[2] = OnH2d => f = <<H2dBefore(c, t), OnH2d>>
         /\ \A b : f[2] = Kv(b) => f = <<KvCarrier(c, b), Kv(b)>>
         /\ \A o : f[2] = Output(o) => f = <<OutCarrier(c, o), Output(o)>>
         /\ \A w : f[2] = Hidden(w) => f = <<OnEvent(HiddenFree(w)), Hidden(w)>>
         /\ \A s : f[2] = ConsumerOutput(s) => f = <<OnEvent(ConsumerFree(s)), ConsumerOutput(s)>>
         /\ \A u : f[2] = Transformed(c, u) => f = <<OnCompute, Transformed(c, u)>>
         /\ \A s : f[2] = OnStream(s) /\ s # "h2d" =>
              \/ s # OutputStream(c) /\ f = <<OnCompute, OnStream(s)>>
              \/ s = OutputStream(c) /\ Measured(c) /\ t # 1 /\ f = <<OnEvent(TaskDone), OnStream(s)>>
<1> USE DEF Q, Accumulator, Kv, Output, Hidden, ConsumerOutput, Transformed
<1>0. OutputStream(c) # "h2d"
  BY DEF OutputStream
<1>1. CASE f = <<QCarrier(c), Q>>
  BY <1>1 DEF OnStream, OnH2d
<1>2. CASE f = <<OnCompute, Accumulator>>
  BY <1>2 DEF OnStream, OnH2d
<1>3. CASE f = <<H2dBefore(c, t), OnH2d>>
  BY <1>3 DEF OnStream, OnH2d
<1>4. CASE \E b \in KvBuffers : f = <<KvCarrier(c, b), Kv(b)>>
  BY <1>4 DEF OnStream, OnH2d
<1>5. CASE \E o \in OutputBuffers : f = <<OutCarrier(c, o), Output(o)>>
  BY <1>5 DEF OnStream, OnH2d
<1>6. CASE \E w \in Stagings : f = <<OnEvent(HiddenFree(w)), Hidden(w)>>
  BY <1>6 DEF OnStream, OnH2d
<1>7. CASE \E s \in ConsumerBuffers : f = <<OnEvent(ConsumerFree(s)), ConsumerOutput(s)>>
  BY <1>7 DEF OnStream, OnH2d
<1>8. CASE \E u \in t .. NumTasks : f = <<OnCompute, Transformed(c, u)>>
  BY <1>8 DEF OnStream, OnH2d
<1>9. CASE \E s \in Streams \ {"h2d", OutputStream(c)} : f = <<OnCompute, OnStream(s)>>
  BY <1>9 DEF OnStream, OnH2d
<1>10. CASE Measured(c) /\ t # 1 /\ f = <<OnEvent(TaskDone), OnStream(OutputStream(c))>>
  BY <1>0, <1>10 DEF OnStream, OnH2d
<1> QED
  BY <1>1, <1>2, <1>3, <1>4, <1>5, <1>6, <1>7, <1>8, <1>9, <1>10 DEF Table

\* The buffers a step accesses are no streams.
Plain(x) == \A b \in Reads(x.work) \cup Writes(x.work) : b[1] # "stream"

\* When a step heard, told or kept a pair.
LEMMA HeardIf ==
  ASSUME NEW F, NEW x, NEW y \in Hears(x), NEW b, <<y, b>> \in F.known
  PROVE  b \in Heard(F, x)
<1> DEFINE f == <<y, b>>
<1>1. f[1] = y /\ f[2] = b
  OBVIOUS
<1> HIDE DEF f
<1>2. f \in {g \in F.known : g[1] \in Hears(x)}
  BY <1>1 DEF f
<1> QED BY <1>1, <1>2 DEF Heard

LEMMA ToldIf ==
  ASSUME NEW F, NEW x, NEW y \in Tells(x), NEW b \in Heard(F, x)
  PROVE  <<y, b>> \in Post(F, x).known
BY DEF Post

LEMMA KeptIf ==
  ASSUME NEW F, NEW x, NEW y, NEW b, <<y, b>> \in F.known, b \notin Touches(x)
  PROVE  <<y, b>> \in Post(F, x).known
BY DEF Post

LEMMA ToldHeard ==
  ASSUME NEW F, NEW x, NEW y \in Tells(x), NEW z \in Hears(x), NEW b, <<z, b>> \in F.known
  PROVE  <<y, b>> \in Post(F, x).known
BY HeardIf, ToldIf

\* A step between two states of a call.
LEMMA BaseStep ==
  ASSUME NEW c, NEW t, NEW X, NEW K, NEW H, NEW x, NEW A, A = Base(c, t, X, K, H),
         Tidy(c, x), Plain(x), Touches(x) \subseteq Heard(A, x),
         NEW t2, 1 .. t2 - 1 \subseteq Post(A, x).stored,
         x.work.op = "store" => <<x.work.from, Answer(c.id, x.work.task)>> \in H,
         NEW X2, \A f \in Table(c, t2) : \/ f[2] \in X2
                                         \/ f \in Table(c, t) /\ f[2] \notin X \cup Touches(x)
                                         \/ f \in Post(A, x).known,
         NEW K2, K2 \subseteq Post(A, x).known,
         NEW H2, H2 \subseteq Post(A, x).holds
  PROVE  Leads(c, A, <<x>>, Base(c, t2, X2, K2, H2))
<1> DEFINE B == Base(c, t2, X2, K2, H2)
<1>1. Safe(c, A, x)
  BY DEF Safe, Base
<1>2. A.known = {<<OnStream(s), OnStream(s)>> : s \in Streams} \cup {f \in Table(c, t) : f[2] \notin X} \cup K
  BY DEF Base
<1>3. B.known = {<<OnStream(s), OnStream(s)>> : s \in Streams} \cup {f \in Table(c, t2) : f[2] \notin X2} \cup K2
  BY DEF Base
<1>4. B.holds = H2 /\ B.stored = 1 .. t2 - 1
  BY DEF Base
<1> HIDE DEF B
<1>5. ASSUME NEW s \in Streams PROVE <<OnStream(s), OnStream(s)>> \in Post(A, x).known
  <2>1. <<OnStream(s), OnStream(s)>> \in A.known
    BY <1>2
  <2>2. CASE s = x.stream
    <3>1. OnStream(s) \in Hears(x) /\ OnStream(s) \in Tells(x)
      BY <2>2 DEF Hears, Tells
    <3> QED BY <2>1, <3>1, ToldHeard
  <2>3. CASE s # x.stream
    <3>1. OnStream(s) \notin Touches(x)
      BY <2>3 DEF Touches, Plain, OnStream
    <3> QED BY <2>1, <3>1, KeptIf
  <2> QED BY <2>2, <2>3
<1>6. ASSUME NEW f \in Table(c, t2), f[2] \notin X2 PROVE f \in Post(A, x).known
  <2>1. CASE f \in Table(c, t) /\ f[2] \notin X \cup Touches(x)
    <3>1. f \in A.known /\ f[2] \notin Touches(x)
      BY <1>2, <2>1
    <3> QED BY <3>1 DEF Post
  <2> QED BY <1>6, <2>1
<1>7. B.known \subseteq Post(A, x).known
  BY <1>3, <1>5, <1>6
<1>9. Above(Post(A, x), B)
  BY <1>4, <1>7 DEF Above
<1> QED BY <1>1, <1>9, LeadsOne DEF B

\* Weaker knowledge of the same task.
LEMMA BaseAbove ==
  ASSUME NEW c, NEW t, NEW X, NEW K, NEW H, NEW X2, NEW K2, NEW H2,
         \A f \in Table(c, t) : f[2] \notin X2 => f[2] \notin X \/ f \in K,
         \A f \in K2 : f \in K \/ (f \in Table(c, t) /\ f[2] \notin X), H2 \subseteq H
  PROVE  Above(Base(c, t, X, K, H), Base(c, t, X2, K2, H2))
BY DEF Above, Base

\* A step that stores nothing keeps what was stored.
LEMMA KeepsStored ==
  ASSUME NEW c, NEW t, NEW X, NEW K, NEW H, NEW x
  PROVE  /\ 1 .. t - 1 \subseteq Post(Base(c, t, X, K, H), x).stored
         /\ t \in Nat \ {0} /\ x.work.op = "store" /\ x.work.task = t
              => 1 .. (t + 1) - 1 \subseteq Post(Base(c, t, X, K, H), x).stored
<1>1. Base(c, t, X, K, H).stored = 1 .. t - 1
  BY DEF Base
<1>2. 1 .. t - 1 \subseteq Post(Base(c, t, X, K, H), x).stored
  BY <1>1 DEF Post
<1>3. ASSUME t \in Nat \ {0}, x.work.op = "store", x.work.task = t
      PROVE  1 .. (t + 1) - 1 \subseteq Post(Base(c, t, X, K, H), x).stored
  <2>1. t \in Post(Base(c, t, X, K, H), x).stored
    BY <1>3 DEF Post
  <2>2. 1 .. (t + 1) - 1 = (1 .. t - 1) \cup {t}
    BY <1>3
  <2> QED BY <1>2, <2>1, <2>2
<1> QED BY <1>2, <1>3

-----------------------------------------------------------------------------
(* The steps of a task, one after the other.                                 *)

LEMMA EventPlaces ==
  ASSUME NEW c
  PROVE  /\ PlaceOf(c, QReady) = "h2d" /\ QReady \notin FreeEvents
         /\ PlaceOf(c, H2dEnd) = "h2d" /\ H2dEnd \notin FreeEvents
         /\ PlaceOf(c, PipelineEnd) = "compute" /\ PipelineEnd \notin FreeEvents
         /\ PlaceOf(c, TaskDone) = (IF c.mode = "host" THEN "d2h" ELSE "consumer") /\ TaskDone \notin FreeEvents
         /\ PlaceOf(c, QFree) = (IF c.mode # "host" /\ c.kind = "view" THEN "d2h" ELSE "compute")
         /\ QFree \in FreeEvents
         /\ \A b : PlaceOf(c, KvReady(b)) = "h2d" /\ KvReady(b) \notin FreeEvents
         /\ \A b : PlaceOf(c, KvFree(b)) = "compute" /\ (b \in KvBuffers => KvFree(b) \in FreeEvents)
         /\ \A o : PlaceOf(c, OutputReady(o)) = "compute" /\ OutputReady(o) \notin FreeEvents
         /\ \A o : PlaceOf(c, OutputFree(o)) = "d2h" /\ (o \in OutputBuffers => OutputFree(o) \in FreeEvents)
         /\ \A w : PlaceOf(c, HiddenReady(w)) = w /\ HiddenReady(w) \notin FreeEvents
         /\ \A w : PlaceOf(c, HiddenFree(w)) = "compute" /\ (w \in Stagings => HiddenFree(w) \in FreeEvents)
         /\ \A s : PlaceOf(c, ConsumerReady(s)) = "compute" /\ ConsumerReady(s) \notin FreeEvents
         /\ \A s : PlaceOf(c, ConsumerFree(s)) = "consumer"
                     /\ (s \in ConsumerBuffers => ConsumerFree(s) \in FreeEvents)
BY DEF PlaceOf, FreeEvents, Events, QReady, PipelineEnd, QFree, H2dEnd, TaskDone, KvReady, KvFree,
       OutputReady, OutputFree, HiddenReady, HiddenFree, ConsumerReady, ConsumerFree

\* Different buffers have different names.
LEMMA BufferNames ==
  /\ Q[1] = "q" /\ Accumulator[1] = "accumulator"
  /\ \A b : Kv(b)[1] = "kv" /\ Kv(b)[2] = b
  /\ \A o : Output(o)[1] = "output" /\ Output(o)[2] = o
  /\ \A w : Hidden(w)[1] = "hidden" /\ Hidden(w)[2] = w
  /\ \A s : ConsumerOutput(s)[1] = "consumer" /\ ConsumerOutput(s)[2] = s
  /\ \A c, t : Transformed(c, t)[1] = "transformed" /\ Transformed(c, t)[3] = t
  /\ \A s : OnStream(s)[1] = "stream" /\ OnStream(s)[2] = s
  /\ OnCompute = OnStream("compute") /\ OnH2d = OnStream("h2d")
BY DEF Q, Accumulator, Kv, Output, Hidden, ConsumerOutput, Transformed, OnStream, OnCompute, OnH2d

\* The pairs K of which nothing is touched are kept.
LEMMA TableHas ==
  ASSUME NEW c, NEW t
  PROVE  /\ <<QCarrier(c), Q>> \in Table(c, t)
         /\ <<OnCompute, Accumulator>> \in Table(c, t)
         /\ <<H2dBefore(c, t), OnH2d>> \in Table(c, t)
         /\ \A b \in KvBuffers : <<KvCarrier(c, b), Kv(b)>> \in Table(c, t)
         /\ \A o \in OutputBuffers : <<OutCarrier(c, o), Output(o)>> \in Table(c, t)
         /\ \A w \in Stagings : <<OnEvent(HiddenFree(w)), Hidden(w)>> \in Table(c, t)
         /\ \A s \in ConsumerBuffers : <<OnEvent(ConsumerFree(s)), ConsumerOutput(s)>> \in Table(c, t)
         /\ \A u \in t .. NumTasks : <<OnCompute, Transformed(c, u)>> \in Table(c, t)
         /\ \A s \in Streams \ {"h2d", OutputStream(c)} : <<OnCompute, OnStream(s)>> \in Table(c, t)
BY DEF Table

\* What is known before tile i.
QUse(c, i) == IF FromHost(c) /\ i = 0 THEN OnEvent(QReady) ELSE OnCompute
H2dUse(c, i) == IF FromHost(c) /\ i = 0 THEN OnH2d ELSE OnCompute
OutUse(c, o, i) == IF c.kind = "flash" /\ i > 0 THEN OnCompute ELSE OutCarrier(c, o)

Prefix(c, t, i) == [j \in 1 .. i |-> <<Rows(c, "q", t), Rows(c, "kv", j - 1)>>]

InScan(t) == {OnH2d, Q, Output(OutputIndex(t))}

Accumulated(c, t, i) == {f \in {<<Accumulator, Prefix(c, t, i)>>} : i > 0}

Scanning(c, t, i) ==
  Base(c, t, InScan(t),
       {<<QUse(c, i), Q>>, <<H2dUse(c, i), OnH2d>>,
        <<OutUse(c, OutputIndex(t), i), Output(OutputIndex(t))>>},
       {<<Q, Rows(c, "q", t)>>} \cup Accumulated(c, t, i))

\* The pairs of a base.
LEMMA KnownInBase ==
  ASSUME NEW c, NEW t, NEW X, NEW K, NEW H
  PROVE  /\ \A s \in Streams : <<OnStream(s), OnStream(s)>> \in Base(c, t, X, K, H).known
         /\ \A f \in Table(c, t) : f[2] \notin X => f \in Base(c, t, X, K, H).known
         /\ \A f \in K : f \in Base(c, t, X, K, H).known
BY DEF Base

\* The h2d stream and the compute stream are streams.
LEMMA ComputeKnown ==
  ASSUME NEW c, NEW t, NEW X, NEW K, NEW H
  PROVE  /\ <<OnH2d, OnH2d>> \in Base(c, t, X, K, H).known
         /\ <<OnCompute, OnCompute>> \in Base(c, t, X, K, H).known
         /\ <<OnStream("d2h"), OnStream("d2h")>> \in Base(c, t, X, K, H).known
         /\ <<OnStream("consumer"), OnStream("consumer")>> \in Base(c, t, X, K, H).known
         /\ Base(c, t, X, K, H).holds = H
<1>1. {"h2d", "compute", "d2h", "consumer"} \subseteq Streams
  BY StreamFacts
<1> QED BY <1>1 DEF Base, OnH2d, OnCompute

\* Every row is a pair.
LEMMA TablePairs == ASSUME NEW c, NEW t, NEW f \in Table(c, t) PROVE f = <<f[1], f[2]>>
BY DEF Table

\* A task loads its Q rows: from the host, and from any source.
LEMMA LoadQFromHost ==
  ASSUME NEW c, FromHost(c), NEW t \in 1 .. NumTasks
  PROVE  Leads(c, Base(c, t, {}, {}, {}), LoadQ(c, t), Scanning(c, t, 0))
<1> DEFINE x == Step("h2d", {QFree}, {}, Load(Q, Rows(c, "q", t)), {QReady}, {})
           A == Base(c, t, {}, {}, {})
           o == OutputIndex(t)
           q == Rows(c, "q", t)
           K == {<<QUse(c, 0), Q>>, <<H2dUse(c, 0), OnH2d>>, <<OutUse(c, o, 0), Output(o)>>}
           H == {<<Q, q>>} \cup Accumulated(c, t, 0)
<1>1. LoadQ(c, t) = <<x>>
  BY DEF LoadQ
<1>2. /\ x.stream = "h2d" /\ x.guards = {QFree} /\ x.waits = {} /\ x.records = {QReady} /\ x.flags = {}
      /\ x.work.op = "load" /\ x.work.to = Q /\ x.work.rows = q
  BY DEF Step, Load
<1> HIDE DEF x
<1>3. /\ Reads(x.work) = {} /\ Writes(x.work) = {Q} /\ Touches(x) = {OnH2d, Q}
      /\ Hears(x) = {OnH2d, OnEvent(QFree)} /\ Tells(x) = {OnH2d, OnEvent(QReady)}
  BY <1>2 DEF Reads, Writes, Touches, Hears, Tells, OnH2d
<1>4. Tidy(c, x)
  BY <1>2, <1>3, EventPlaces, BufferNames DEF Tidy, CallStreams, WriterOf
<1>5. Plain(x)
  BY <1>3, BufferNames DEF Plain
<1>6. <<OnEvent(QFree), Q>> \in A.known
  BY KnownInBase, TableHas DEF QCarrier
<1>7. Touches(x) \subseteq Heard(A, x)
  BY <1>3, <1>6, ComputeKnown, HeardIf
<1>8. <<OutCarrier(c, o), Output(o)>> \in Post(A, x).known
  <2>1. <<OutCarrier(c, o), Output(o)>> \in Table(c, t)
    BY TableHas, RingFacts
  <2>2. <<OutCarrier(c, o), Output(o)>> \in A.known
    BY <2>1, KnownInBase
  <2>3. Output(o) \notin Touches(x)
    BY <1>3, BufferNames
  <2> QED BY <2>2, <2>3, KeptIf
<1>9. <<OnEvent(QReady), Q>> \in Post(A, x).known /\ <<OnH2d, OnH2d>> \in Post(A, x).known
  BY <1>3, <1>6, ComputeKnown, ToldHeard
<1>10. K \subseteq Post(A, x).known
  <2>1. QUse(c, 0) = OnEvent(QReady) /\ H2dUse(c, 0) = OnH2d /\ OutUse(c, o, 0) = OutCarrier(c, o)
    BY DEF QUse, H2dUse, OutUse
  <2> QED BY <1>8, <1>9, <2>1
<1>11. H \subseteq Post(A, x).holds
  BY <1>2 DEF Post, Put, Accumulated
<1>12. 1 .. t - 1 \subseteq Post(A, x).stored
  BY KeepsStored
<1>13. \A f \in Table(c, t) : f[2] \in InScan(t) \/ f[2] \notin {} \cup Touches(x)
  BY <1>3 DEF InScan
<1> HIDE DEF K, H, o, q
<1>14. Leads(c, A, <<x>>, Base(c, t, InScan(t), K, H))
  BY <1>2, <1>4, <1>5, <1>7, <1>10, <1>11, <1>12, <1>13, BaseStep
<1>15. Base(c, t, InScan(t), K, H) = Scanning(c, t, 0)
  BY DEF K, H, o, q, Scanning
<1> QED BY <1>1, <1>14, <1>15

\* Hidden rows are staged and projected: their staging buffer is free again.
LEMMA RecomputeLeads ==
  ASSUME NEW c, NEW t, NEW X, NEW K, NEW H, NEW w \in Stagings, NEW to, NEW rows,
         w \in CallStreams(c), c.mode # "host", to[1] \in {"q", "kv"},
         <<OnCompute, to>> \in Base(c, t, X, K, H).known,
         X \cap {OnStream(w), OnCompute, Hidden(w)} = {},
         \A f \in K : f[2] \notin {OnStream(w), OnCompute, Hidden(w), to} \/ f = <<OnCompute, to>>,
         \A f \in Table(c, t) : f[2] = to /\ f[2] \notin X => f[1] = OnCompute,
         \A f \in H : f[1] \notin {Hidden(w), to}
  PROVE  Leads(c, Base(c, t, X, K, H), Recompute(w, to, rows),
               Base(c, t, X, K, H \cup {<<to, rows>>}))
<1> DEFINE x == Step(w, {HiddenFree(w)}, {}, Load(Hidden(w), rows), {HiddenReady(w)}, {})
           y == Step("compute", {}, {HiddenReady(w)}, Copy(Hidden(w), to),
                     {HiddenFree(w)}, {HiddenFree(w)})
           A == Base(c, t, X, K, H)
           s == OnStream(w)
           KB == {f \in K : f # <<OnCompute, to>>} \cup
                   {<<OnCompute, to>>, <<OnEvent(HiddenReady(w)), Hidden(w)>>, <<OnEvent(HiddenReady(w)), s>>}
           HB == H \cup {<<Hidden(w), rows>>}
           B == Base(c, t, X \cup {Hidden(w), s}, KB, HB)
           HC == H \cup {<<to, rows>>}
<1>1. Recompute(w, to, rows) = <<x>> \o <<y>>
  BY DEF Recompute
<1>2. /\ x.stream = w /\ x.guards = {HiddenFree(w)} /\ x.waits = {} /\ x.records = {HiddenReady(w)}
      /\ x.flags = {} /\ x.work.op = "load" /\ x.work.to = Hidden(w) /\ x.work.rows = rows
  BY DEF Step, Load
<1>3. /\ y.stream = "compute" /\ y.guards = {} /\ y.waits = {HiddenReady(w)} /\ y.records = {HiddenFree(w)}
      /\ y.flags = {HiddenFree(w)}
      /\ y.work.op = "copy" /\ y.work.from = Hidden(w) /\ y.work.to = to
  BY DEF Step, Copy
<1> HIDE DEF x, y
<1>4. /\ Reads(x.work) = {} /\ Writes(x.work) = {Hidden(w)} /\ Touches(x) = {s, Hidden(w)}
      /\ Hears(x) = {s, OnEvent(HiddenFree(w))} /\ Tells(x) = {s, OnEvent(HiddenReady(w))}
  BY <1>2 DEF Reads, Writes, Touches, Hears, Tells
<1>5. /\ Reads(y.work) = {Hidden(w)} /\ Writes(y.work) = {to} /\ Touches(y) = {OnCompute, Hidden(w), to}
      /\ Hears(y) = {OnCompute, OnEvent(HiddenReady(w))}
      /\ Tells(y) = {OnCompute, OnEvent(HiddenFree(w))}
  BY <1>3 DEF Reads, Writes, Touches, Hears, Tells, OnCompute
<1>6. Tidy(c, x) /\ Tidy(c, y)
  <2>1. Tidy(c, x)
    BY <1>2, <1>4, EventPlaces DEF Tidy
  <2>2. Tidy(c, y)
    BY <1>3, <1>5, EventPlaces DEF Tidy, CallStreams
  <2> QED BY <2>1, <2>2
<1>7. Plain(x) /\ Plain(y)
  BY <1>4, <1>5, BufferNames DEF Plain
<1>8. <<s, s>> \in A.known /\ <<OnEvent(HiddenFree(w)), Hidden(w)>> \in A.known
  <2>1. w \in Streams
    BY StreamFacts
  <2>2. <<OnEvent(HiddenFree(w)), Hidden(w)>> \in Table(c, t)
    BY TableHas
  <2> QED BY <2>1, <2>2, KnownInBase
<1>9. s \notin {OnCompute, to, Hidden(w)} /\ to \notin {Hidden(w), OnCompute} /\ Hidden(w) # OnCompute
  <2>1. w # "compute"
    BY DEF Stagings
  <2> QED BY <2>1, BufferNames
<1>10. Leads(c, A, <<x>>, B)
  <2>1. Touches(x) \subseteq Heard(A, x)
    BY <1>4, <1>8, HeardIf
  <2>2. KB \subseteq Post(A, x).known
    <3>1. /\ <<OnEvent(HiddenReady(w)), Hidden(w)>> \in Post(A, x).known
          /\ <<OnEvent(HiddenReady(w)), s>> \in Post(A, x).known
      BY <1>4, <1>8, ToldHeard
    <3>2. <<OnCompute, to>> \in Post(A, x).known
      BY <1>4, <1>9, KeptIf
    <3>3. ASSUME NEW f \in K, f # <<OnCompute, to>> PROVE f \in Post(A, x).known
      <4>1. f \in A.known /\ f[2] \notin Touches(x)
        BY <1>4, <3>3, KnownInBase
      <4> QED BY <4>1 DEF Post
    <3> HIDE DEF A
    <3> QED BY <3>1, <3>2, <3>3
  <2>3. HB \subseteq Post(A, x).holds
    <3>1. Put(A, x.work) = {<<Hidden(w), rows>>}
      BY <1>2 DEF Put
    <3>2. A.holds = H
      BY ComputeKnown
    <3> QED BY <1>4, <3>1, <3>2 DEF Post
  <2>4. \A f \in Table(c, t) : \/ f[2] \in X \cup {Hidden(w), s}
                               \/ f \in Table(c, t) /\ f[2] \notin X \cup Touches(x)
    BY <1>4
  <2>5. 1 .. t - 1 \subseteq Post(A, x).stored
    BY KeepsStored
  <2> HIDE DEF KB, HB
  <2> QED BY <1>2, <1>6, <1>7, <2>1, <2>2, <2>3, <2>4, <2>5, BaseStep
<1>11. Leads(c, B, <<y>>, Base(c, t, X, K, HC))
  <2> DEFINE XB == X \cup {Hidden(w), s}
  <2>1. <<OnCompute, to>> \in B.known /\ <<OnEvent(HiddenReady(w)), Hidden(w)>> \in B.known
        /\ <<OnEvent(HiddenReady(w)), s>> \in B.known /\ <<OnCompute, OnCompute>> \in B.known
    BY KnownInBase, ComputeKnown
  <2>2. Touches(y) \subseteq Heard(B, y)
    BY <1>5, <2>1, HeardIf
  <2>3. /\ <<OnCompute, to>> \in Post(B, y).known /\ <<OnCompute, OnCompute>> \in Post(B, y).known
        /\ <<OnEvent(HiddenFree(w)), Hidden(w)>> \in Post(B, y).known
        /\ <<OnCompute, s>> \in Post(B, y).known
    BY <1>5, <2>1, ToldHeard
  <2>4. K \subseteq Post(B, y).known
    <3>1. ASSUME NEW f \in K, f # <<OnCompute, to>> PROVE f \in Post(B, y).known
      <4>1. f \in B.known
        BY <3>1, KnownInBase
      <4>2. f[2] \notin Touches(y)
        BY <1>5, <3>1
      <4> QED BY <4>1, <4>2 DEF Post
    <3> HIDE DEF B
    <3> QED BY <2>3, <3>1
  <2>5. HC \subseteq Post(B, y).holds
    <3>1. B.holds = HB
      BY ComputeKnown
    <3>2. rows \in Contents(B, Hidden(w))
      <4>1. <<Hidden(w), rows>> \in B.holds
        BY <3>1
      <4> HIDE DEF B
      <4>2. <<Hidden(w), rows>>[1] = Hidden(w) /\ <<Hidden(w), rows>>[2] = rows
        OBVIOUS
      <4> QED BY <4>1, <4>2 DEF Contents
    <3>3. <<to, rows>> \in Put(B, y.work)
      BY <1>3, <3>2 DEF Put
    <3>4. \A f \in H : f \in {g \in B.holds : g[1] \notin Writes(y.work)}
      BY <1>5, <3>1
    <3> HIDE DEF B
    <3> QED BY <3>3, <3>4 DEF Post
  <2>6. ASSUME NEW f \in Table(c, t)
        PROVE  \/ f[2] \in X
               \/ f \in Table(c, t) /\ f[2] \notin XB \cup Touches(y)
               \/ f \in Post(B, y).known
    <3> SUFFICES ASSUME f[2] \notin X, f[2] \in {Hidden(w), s, OnCompute, to} PROVE f \in Post(B, y).known
      BY <1>5
    <3>1. CASE f[2] = to
      <4>1. f = <<OnCompute, to>>
        BY <3>1, TablePairs
      <4> QED BY <2>3, <4>1
    <3>2. CASE f[2] = Hidden(w)
      BY <2>3, <3>2, TableAt
    <3>3. CASE f[2] = s
      <4>1. w # "h2d" /\ w # OutputStream(c)
        BY DEF Stagings, OutputStream
      <4>2. f = <<OnCompute, s>>
        BY <3>3, <4>1, TableAt
      <4> QED BY <2>3, <4>2
    <3>4. CASE f[2] = OnCompute
      <4>1. "compute" # "h2d" /\ "compute" # OutputStream(c)
        BY DEF OutputStream
      <4>2. f = <<OnCompute, OnCompute>>
        BY <3>4, <4>1, TableAt DEF OnCompute
      <4> QED BY <2>3, <4>2
    <3> QED BY <3>1, <3>2, <3>3, <3>4
  <2>7. 1 .. t - 1 \subseteq Post(B, y).stored
    BY KeepsStored
  <2> HIDE DEF KB, HB, XB, HC
  <2>8. B = Base(c, t, XB, KB, HB)
    BY DEF XB
  <2> HIDE DEF B
  <2> QED BY <1>3, <1>6, <1>7, <2>2, <2>4, <2>5, <2>6, <2>7, <2>8, BaseStep
<1> HIDE DEF A, B, KB, HB
<1>12. Leads(c, A, <<x>> \o <<y>>, Base(c, t, X, K, HC))
  BY <1>10, <1>11, LeadsOn
<1> QED BY <1>1, <1>12 DEF A

\* What the kinds of a valid call are.
LEMMA KindFacts ==
  ASSUME NEW c, ValidCall(c)
  PROVE  /\ c.mode \in {"host", "device_consumer"} /\ c.id \in Nat
         /\ ~FromHost(c) => /\ c.mode # "host" /\ Consumed(c) /\ ~Measured(c) /\ c.kind # "flash" /\ ReusesQ(c)
                            /\ Staging(c, "q") \in Stagings /\ Staging(c, "kv") \in Stagings
                            /\ {Staging(c, "q"), Staging(c, "kv")} \subseteq CallStreams(c)
         /\ Consumed(c) => c.kind \notin {"flash", "view", "transform"} /\ (Measured(c) => c.mode # "host")
         /\ ~Consumed(c) => FromHost(c) /\ (Measured(c) => c.mode = "host" /\ c.kind = "measured")
         /\ ReusesQ(c) <=> c.mode # "host"
         /\ c.kind = "flash" => c.mode = "host"
<1>1. c.mode \in {"host", "device_consumer"} /\ c.id \in Nat
  BY DEF ValidCall, Calls
<1> QED BY <1>1 DEF ValidCall, KindsIn, FromHost, Consumed, Measured, ReusesQ, Transforms, Staging, Stagings, CallStreams

\* The row of the compute stream.
LEMMA ComputeRow ==
  ASSUME NEW c, NEW t, NEW f \in Table(c, t), f[2] = OnCompute
  PROVE  f = <<OnCompute, OnCompute>>
<1>1. "compute" # "h2d" /\ "compute" # OutputStream(c)
  BY DEF OutputStream
<1> QED BY <1>1, TableAt DEF OnCompute

\* A record on a stream.
LEMMA MarkLeads ==
  ASSUME NEW c, NEW t, NEW X, NEW K, NEW H, NEW A, A = Base(c, t, X, K, H),
         NEW s \in CallStreams(c), NEW e, s = PlaceOf(c, e),
         NEW flags, e \in FreeEvents => e \in flags,
         NEW X2, NEW K2, NEW H2, H2 \subseteq H,
         \A f \in K2 : \/ f \in A.known /\ f[2] # OnStream(s)
                       \/ /\ f = <<f[1], f[2]>> /\ f[1] \in {OnStream(s), OnEvent(e)}
                          /\ <<OnStream(s), f[2]>> \in A.known,
         \A f \in Table(c, t) : \/ f[2] \in X2
                                \/ f[2] \notin X \cup {OnStream(s)}
                                \/ /\ f[1] \in {OnStream(s), OnEvent(e)}
                                   /\ <<OnStream(s), f[2]>> \in A.known
  PROVE  Leads(c, A, <<Record(s, {e}, flags)>>, Base(c, t, X2, K2, H2))
<1> DEFINE x == Record(s, {e}, flags)
<1>1. /\ x.stream = s /\ x.guards = {} /\ x.waits = {} /\ x.records = {e} /\ x.flags = flags
      /\ x.work.op = "mark"
  BY DEF Record, Step, Mark
<1> HIDE DEF x
<1>2. /\ Reads(x.work) = {} /\ Writes(x.work) = {} /\ Touches(x) = {OnStream(s)}
      /\ Hears(x) = {OnStream(s)} /\ Tells(x) = {OnStream(s), OnEvent(e)}
  BY <1>1 DEF Reads, Writes, Touches, Hears, Tells
<1>3. Tidy(c, x)
  BY <1>1, <1>2 DEF Tidy
<1>4. Plain(x)
  BY <1>2 DEF Plain
<1>5. <<OnStream(s), OnStream(s)>> \in A.known
  <2>1. s \in Streams
    BY DEF CallStreams, Streams, Staging, Stagings
  <2> QED BY <2>1, KnownInBase
<1>6. \A b : \A y \in {OnStream(s), OnEvent(e)} : <<OnStream(s), b>> \in A.known => <<y, b>> \in Post(A, x).known
  BY <1>2, ToldHeard
<1>7. K2 \subseteq Post(A, x).known
  <2> SUFFICES ASSUME NEW f \in K2 PROVE f \in Post(A, x).known
    OBVIOUS
  <2>1. CASE f \in A.known /\ f[2] # OnStream(s)
    <3>1. f[2] \notin Touches(x)
      BY <1>2, <2>1
    <3> QED BY <2>1, <3>1 DEF Post
  <2>2. CASE /\ f = <<f[1], f[2]>> /\ f[1] \in {OnStream(s), OnEvent(e)}
             /\ <<OnStream(s), f[2]>> \in A.known
    BY <1>6, <2>2
  <2> QED BY <2>1, <2>2
<1>8. H2 \subseteq Post(A, x).holds
  <2>1. A.holds = H
    BY ComputeKnown
  <2> QED BY <1>2, <2>1 DEF Post
<1>9. Touches(x) \subseteq Heard(A, x)
  BY <1>2, <1>5, HeardIf
<1>10. 1 .. t - 1 \subseteq Post(A, x).stored
  BY KeepsStored
<1>11. \A f \in Table(c, t) : \/ f[2] \in X2
                              \/ f \in Table(c, t) /\ f[2] \notin X \cup Touches(x)
                              \/ f \in Post(A, x).known
  <2> SUFFICES ASSUME NEW f \in Table(c, t), f[1] \in {OnStream(s), OnEvent(e)}, <<OnStream(s), f[2]>> \in A.known
               PROVE  f \in Post(A, x).known
    BY <1>2
  <2>1. <<f[1], f[2]>> \in Post(A, x).known /\ f = <<f[1], f[2]>>
    BY <1>6, TablePairs
  <2> QED BY <2>1
<1>13. Leads(c, A, <<x>>, Base(c, t, X2, K2, H2))
  BY <1>1, <1>3, <1>4, <1>7, <1>8, <1>9, <1>10, <1>11, BaseStep
<1> QED BY <1>13 DEF x

\* The Q buffer is released behind what used it last.
LEMMA ReleaseQLeads ==
  ASSUME NEW c, NEW t, NEW s \in {"compute", "d2h"}, s = PlaceOf(c, QFree), FromHost(c) \/ s = "compute",
         s = "d2h" => OutputStream(c) = "d2h" /\ ~Measured(c),
         NEW X, NEW K, NEW H, OnStream(s) \notin X,
         Q \in X => <<OnStream(s), Q>> \in Base(c, t, X, K, H).known,
         NEW X2, X \ {Q} \subseteq X2,
         NEW K2, K2 \subseteq K, \A f \in K2 : f[2] # OnStream(s)
  PROVE  Leads(c, Base(c, t, X, K, H), ReleaseQ(c, s), Base(c, t, X2, K2, H))
<1> DEFINE A == Base(c, t, X, K, H)
           B == Base(c, t, X2, K2, H)
<1>1. CASE FromHost(c)
  <2>1. ReleaseQ(c, s) = <<Record(s, {QFree}, {QFree})>>
    BY <1>1 DEF ReleaseQ
  <2>2. s \in CallStreams(c)
    BY DEF CallStreams
  <2>3. \A f \in K2 : f \in A.known /\ f[2] # OnStream(s)
    BY KnownInBase
  <2>4. ASSUME NEW f \in Table(c, t), f[2] \notin X2, f[2] \in X \cup {OnStream(s)}
        PROVE  f[1] \in {OnStream(s), OnEvent(QFree)} /\ <<OnStream(s), f[2]>> \in A.known
    <3>1. CASE f[2] = Q
      <4>1. f = <<OnEvent(QFree), Q>>
        BY <1>1, <3>1, TableAt DEF QCarrier
      <4>2. Q \in X
        BY <2>4, <3>1, BufferNames
      <4> QED BY <4>1, <4>2
    <3>2. CASE f[2] = OnStream(s)
      <4>1. CASE s = "compute"
        BY <3>2, <4>1, ComputeRow, ComputeKnown DEF OnCompute
      <4>2. CASE s = "d2h"
        BY <3>2, <4>2, TableAt
      <4> QED BY <4>1, <4>2
    <3> QED BY <2>4, <3>1, <3>2
  <2> HIDE DEF A
  <2>5. \A f \in Table(c, t) : \/ f[2] \in X2
                               \/ f[2] \notin X \cup {OnStream(s)}
                               \/ /\ f[1] \in {OnStream(s), OnEvent(QFree)}
                                  /\ <<OnStream(s), f[2]>> \in A.known
    BY <2>4
  <2>6. Leads(c, A, <<Record(s, {QFree}, {QFree})>>, Base(c, t, X2, K2, H))
    <3>1. A = Base(c, t, X, K, H) /\ H \subseteq H /\ QFree \in {QFree}
      BY DEF A
    <3> QED BY <2>2, <2>3, <2>5, <3>1, MarkLeads
  <2> QED BY <2>1, <2>6 DEF A
<1>2. CASE ~FromHost(c)
  <2>1. ReleaseQ(c, s) = <<>> /\ s = "compute"
    BY <1>2 DEF ReleaseQ
  <2>2. Above(A, B)
    <3>1. ASSUME NEW f \in Table(c, t), f[2] \notin X2 PROVE f \in A.known
      <4>1. CASE f[2] = Q /\ Q \in X
        <5>1. f = <<OnCompute, Q>>
          BY <1>2, <4>1, TableAt DEF QCarrier
        <5> QED BY <2>1, <4>1, <5>1 DEF OnCompute
      <4>2. CASE f[2] # Q \/ Q \notin X
        <5>1. f[2] \notin X
          BY <3>1, <4>2
        <5> QED BY <5>1, KnownInBase
      <4> QED BY <4>1, <4>2
    <3>2. K2 \subseteq A.known /\ \A r \in Streams : <<OnStream(r), OnStream(r)>> \in A.known
      BY KnownInBase
    <3>3. A.holds = B.holds /\ A.stored = B.stored
      BY DEF Base
    <3>4. B.known = {<<OnStream(r), OnStream(r)>> : r \in Streams} \cup {f \in Table(c, t) : f[2] \notin X2} \cup K2
      BY DEF Base
    <3> HIDE DEF A, B
    <3> QED BY <3>1, <3>2, <3>3, <3>4 DEF Above
  <2> QED BY <2>1, <2>2, LeadsNowhere
<1> QED BY <1>1, <1>2

\* From either source, Q holds the rows of the task.
LEMMA LoadQLeads ==
  ASSUME NEW c, ValidCall(c), NEW t \in 1 .. NumTasks
  PROVE  Leads(c, Base(c, t, {}, {}, {}), LoadQ(c, t), Scanning(c, t, 0))
<1>1. CASE FromHost(c)
  BY <1>1, LoadQFromHost
<1>2. CASE ~FromHost(c)
  <2> DEFINE w == Staging(c, "q")
             q == Rows(c, "q", t)
             o == OutputIndex(t)
             A == Base(c, t, {}, {}, {})
             B == Base(c, t, {}, {}, {} \cup {<<Q, q>>})
  <2>1. LoadQ(c, t) = Recompute(w, Q, q)
    BY <1>2 DEF LoadQ
  <2>2. w \in Stagings /\ w \in CallStreams(c) /\ c.mode # "host" /\ ~Measured(c)
    BY <1>2, KindFacts
  <2>3. <<OnCompute, Q>> \in A.known /\ QCarrier(c) = OnCompute
    BY <1>2, KnownInBase, TableHas DEF QCarrier
  <2>4. \A f \in Table(c, t) : f[2] = Q => f[1] = OnCompute
    BY <2>3, TableAt
  <2>5. Q[1] \in {"q", "kv"}
    BY BufferNames
  <2> HIDE DEF w
  <2>6. Leads(c, A, Recompute(w, Q, q), B)
    BY <2>2, <2>3, <2>4, <2>5, RecomputeLeads
  <2>7. Above(B, Scanning(c, t, 0))
    <3> DEFINE K == {<<QUse(c, 0), Q>>, <<H2dUse(c, 0), OnH2d>>, <<OutUse(c, o, 0), Output(o)>>}
               H == {<<Q, q>>} \cup Accumulated(c, t, 0)
    <3>1. /\ <<QUse(c, 0), Q>> \in Table(c, t) /\ <<OutUse(c, o, 0), Output(o)>> \in Table(c, t)
          /\ <<H2dUse(c, 0), OnH2d>> \in Table(c, t)
      <4>1. QUse(c, 0) = OnCompute /\ H2dUse(c, 0) = OnCompute /\ OutUse(c, o, 0) = OutCarrier(c, o)
        BY <1>2 DEF QUse, H2dUse, OutUse
      <4>2. H2dBefore(c, t) = OnCompute
        BY <2>2 DEF H2dBefore, H2dAfter
      <4> QED BY <2>3, <4>1, <4>2, TableHas, RingFacts
    <3>2. H \subseteq {} \cup {<<Q, q>>}
      BY DEF Accumulated
    <3>3. \A f \in K : f \in {} \/ (f \in Table(c, t) /\ f[2] \notin {})
      BY <3>1
    <3> HIDE DEF K, H
    <3>4. Above(B, Base(c, t, InScan(t), K, H))
      BY <3>2, <3>3, BaseAbove
    <3> QED BY <3>4 DEF K, H, Scanning
  <2> HIDE DEF A, B
  <2>8. Leads(c, A, Recompute(w, Q, q), Scanning(c, t, 0))
    BY <2>6, <2>7, LeadsWeaker DEF Above
  <2> QED BY <2>1, <2>8 DEF A
<1> QED BY <1>1, <1>2

-----------------------------------------------------------------------------
(* One K/V tile. *)

Ring(i) == i % NumKvBuffers

\* Behind the load of tile i.
KvIn(c, i) == IF FromHost(c) THEN OnEvent(KvReady(Ring(i))) ELSE OnCompute

LoadedPairs(c, t, i) ==
  {<<QUse(c, i), Q>>, <<OutUse(c, OutputIndex(t), i), Output(OutputIndex(t))>>,
   <<KvIn(c, i), OnH2d>>, <<KvIn(c, i), Kv(Ring(i))>>}

LoadedContents(c, t, i) ==
  {<<Q, Rows(c, "q", t)>>, <<Kv(Ring(i)), Rows(c, "kv", i)>>} \cup Accumulated(c, t, i)

Loaded(c, t, i) ==
  Base(c, t, InScan(t) \cup {Kv(Ring(i))}, LoadedPairs(c, t, i), LoadedContents(c, t, i))

ScanPairs(c, t, i) ==
  {<<QUse(c, i), Q>>, <<H2dUse(c, i), OnH2d>>,
   <<OutUse(c, OutputIndex(t), i), Output(OutputIndex(t))>>}

ScanContents(c, t, i) == {<<Q, Rows(c, "q", t)>>} \cup Accumulated(c, t, i)

\* The state of a scan, written out.
LEMMA ScanningIs ==
  ASSUME NEW c, NEW t, NEW i
  PROVE  Scanning(c, t, i) = Base(c, t, InScan(t), ScanPairs(c, t, i), ScanContents(c, t, i))
BY DEF Scanning, ScanPairs, ScanContents

\* A tile is loaded: from the host, and from any source.
LEMMA LoadKvFromHost ==
  ASSUME NEW c, ValidCall(c), FromHost(c), NEW t \in 1 .. NumTasks, NEW i \in Nat
  PROVE  Leads(c, Scanning(c, t, i), LoadKv(c, i), Loaded(c, t, i))
<1> DEFINE b == Ring(i)
           x == Step("h2d", {KvFree(b)}, {}, Load(Kv(b), Rows(c, "kv", i)), {KvReady(b)}, {})
           o == OutputIndex(t)
           K == ScanPairs(c, t, i)
           H == ScanContents(c, t, i)
           A == Base(c, t, InScan(t), K, H)
           X2 == InScan(t) \cup {Kv(b)}
           K2 == LoadedPairs(c, t, i)
           H2 == LoadedContents(c, t, i)
<1>1. LoadKv(c, i) = <<x>>
  BY DEF LoadKv, Ring
<1>2. /\ x.stream = "h2d" /\ x.guards = {KvFree(b)} /\ x.waits = {} /\ x.records = {KvReady(b)} /\ x.flags = {}
      /\ x.work.op = "load" /\ x.work.to = Kv(b) /\ x.work.rows = Rows(c, "kv", i)
  BY DEF Step, Load
<1>b. b \in KvBuffers
  BY RingFacts DEF Ring
<1> HIDE DEF x
<1>3. /\ Reads(x.work) = {} /\ Writes(x.work) = {Kv(b)} /\ Touches(x) = {OnH2d, Kv(b)}
      /\ Hears(x) = {OnH2d, OnEvent(KvFree(b))} /\ Tells(x) = {OnH2d, OnEvent(KvReady(b))}
  BY <1>2 DEF Reads, Writes, Touches, Hears, Tells, OnH2d
<1>4. Tidy(c, x)
  BY <1>b, <1>2, <1>3, EventPlaces, BufferNames DEF Tidy, CallStreams, WriterOf
<1>5. Plain(x)
  BY <1>3, BufferNames DEF Plain
<1>n. /\ Kv(b) \notin {OnH2d, Q, Output(o), Accumulator} /\ OnH2d \notin {Q, Output(o), Accumulator}
      /\ Q # Accumulator /\ Q # Output(o)
  BY BufferNames
<1>6. <<OnEvent(KvFree(b)), Kv(b)>> \in A.known
  <2>1. <<OnEvent(KvFree(b)), Kv(b)>> \in Table(c, t)
    BY <1>b, TableHas DEF KvCarrier
  <2>2. <<OnEvent(KvFree(b)), Kv(b)>>[2] \notin InScan(t)
    BY <1>n DEF InScan
  <2> QED BY <2>1, <2>2, KnownInBase
<1>7. Touches(x) \subseteq Heard(A, x)
  BY <1>3, <1>6, ComputeKnown, HeardIf
<1>8. /\ <<QUse(c, i), Q>> \in Post(A, x).known
      /\ <<OutUse(c, o, i), Output(o)>> \in Post(A, x).known
  <2>1. <<QUse(c, i), Q>> \in A.known /\ <<OutUse(c, o, i), Output(o)>> \in A.known
    BY KnownInBase DEF ScanPairs
  <2>2. Q \notin Touches(x) /\ Output(o) \notin Touches(x)
    BY <1>3, <1>n
  <2> HIDE DEF A
  <2> QED BY <2>1, <2>2, KeptIf
<1>9. <<OnEvent(KvReady(b)), Kv(b)>> \in Post(A, x).known /\ <<OnEvent(KvReady(b)), OnH2d>> \in Post(A, x).known
  BY <1>3, <1>6, ComputeKnown, ToldHeard
<1>10. K2 \subseteq Post(A, x).known
  BY <1>8, <1>9 DEF LoadedPairs, KvIn
<1>11. H2 \subseteq Post(A, x).holds
  <2>1. Put(A, x.work) = {<<Kv(b), Rows(c, "kv", i)>>}
    BY <1>2 DEF Put
  <2>2. A.holds = H
    BY ComputeKnown
  <2>3. \A f \in H : f[1] \notin Writes(x.work)
    BY <1>3, <1>n DEF ScanContents, Accumulated
  <2>4. H2 = H \cup {<<Kv(b), Rows(c, "kv", i)>>}
    BY DEF ScanContents, LoadedContents
  <2> HIDE DEF A, H, H2
  <2> QED BY <2>1, <2>2, <2>3, <2>4 DEF Post
<1>12. 1 .. t - 1 \subseteq Post(A, x).stored
  BY KeepsStored
<1>13. \A f \in Table(c, t) : f[2] \in X2 \/ f[2] \notin InScan(t) \cup Touches(x)
  BY <1>3 DEF InScan
<1> HIDE DEF K, H, o, X2, K2, H2
<1>14. Leads(c, A, <<x>>, Base(c, t, X2, K2, H2))
  BY <1>2, <1>4, <1>5, <1>7, <1>10, <1>11, <1>12, <1>13, BaseStep
<1>15. Base(c, t, X2, K2, H2) = Loaded(c, t, i) /\ A = Scanning(c, t, i)
  BY ScanningIs DEF K, H, X2, K2, H2, Loaded
<1> QED BY <1>1, <1>14, <1>15

\* From either source, the ring buffer holds the tile.
LEMMA LoadKvLeads ==
  ASSUME NEW c, ValidCall(c), NEW t \in 1 .. NumTasks, NEW i \in Nat
  PROVE  Leads(c, Scanning(c, t, i), LoadKv(c, i), Loaded(c, t, i))
<1>1. CASE FromHost(c)
  BY <1>1, LoadKvFromHost
<1>2. CASE ~FromHost(c)
  <2> DEFINE w == Staging(c, "kv")
             b == Ring(i)
             k == Rows(c, "kv", i)
             X == InScan(t)
             K == ScanPairs(c, t, i)
             H == ScanContents(c, t, i)
             A == Base(c, t, X, K, H)
             B == Base(c, t, X, K, H \cup {<<Kv(b), k>>})
             o == OutputIndex(t)
  <2>1. LoadKv(c, i) = Recompute(w, Kv(b), k)
    BY <1>2 DEF LoadKv, Ring
  <2>2. w \in Stagings /\ w \in CallStreams(c) /\ c.mode # "host" /\ ~Measured(c)
    BY <1>2, KindFacts
  <2>b. b \in KvBuffers
    BY RingFacts DEF Ring
  <2>n. /\ Kv(b) \notin {OnH2d, OnStream(w), OnCompute, Q, Output(o), Accumulator, Hidden(w)}
        /\ {OnStream(w), OnCompute, Hidden(w)} \cap {OnH2d, Q, Output(o), Accumulator} = {}
        /\ Kv(b)[1] \in {"q", "kv"}
    <3>1. w # "h2d"
      BY <2>2 DEF Stagings
    <3> QED BY <3>1, BufferNames
  <2>3. <<OnCompute, Kv(b)>> \in Table(c, t) /\ KvCarrier(c, b) = OnCompute
    BY <1>2, <2>b, TableHas DEF KvCarrier
  <2>4. <<OnCompute, Kv(b)>> \in A.known
    <3>1. <<OnCompute, Kv(b)>>[2] \notin X
      BY <2>n DEF InScan
    <3> QED BY <2>3, <3>1, KnownInBase
  <2>5. \A f \in Table(c, t) : f[2] = Kv(b) => f[1] = OnCompute
    BY <2>3, TableAt
  <2>6. X \cap {OnStream(w), OnCompute, Hidden(w)} = {}
    BY <2>n DEF InScan
  <2> HIDE DEF w, b, k
  <2>m. /\ Q \notin {OnStream(w), OnCompute, Hidden(w), Kv(b)}
        /\ OnH2d \notin {OnStream(w), OnCompute, Hidden(w), Kv(b)}
        /\ Output(o) \notin {OnStream(w), OnCompute, Hidden(w), Kv(b)}
        /\ Accumulator \notin {Hidden(w), Kv(b)}
    BY <2>n
  <2>7. \A f \in K : f[2] \notin {OnStream(w), OnCompute, Hidden(w), Kv(b)}
    BY <2>m DEF ScanPairs
  <2>8. \A f \in H : f[1] \notin {Hidden(w), Kv(b)}
    BY <2>m DEF ScanContents, Accumulated
  <2> HIDE DEF X, K, H
  <2>9. Leads(c, A, Recompute(w, Kv(b), k), B)
    BY <2>2, <2>4, <2>5, <2>6, <2>7, <2>8, <2>n, RecomputeLeads
  <2>10. Above(B, Loaded(c, t, i))
    <3> DEFINE X2 == X \cup {Kv(b)}
               K2 == LoadedPairs(c, t, i)
               H2 == LoadedContents(c, t, i)
    <3>1. H2 \subseteq H \cup {<<Kv(b), k>>}
      BY DEF H, b, k, ScanContents, LoadedContents
    <3>2. \A f \in K2 : f \in K \/ (f \in Table(c, t) /\ f[2] \notin X)
      <4>1. KvIn(c, i) = OnCompute /\ H2dUse(c, i) = OnCompute
        BY <1>2 DEF KvIn, H2dUse
      <4>2. Kv(b) \notin X
        BY <2>n DEF InScan, X
      <4> QED BY <2>3, <4>1, <4>2 DEF LoadedPairs, ScanPairs, K, b
    <3>3. \A f \in Table(c, t) : f[2] \notin X2 => f[2] \notin X \/ f \in K
      OBVIOUS
    <3> HIDE DEF X2, K2, H2
    <3>4. Above(B, Base(c, t, X2, K2, H2))
      BY <3>1, <3>2, <3>3, BaseAbove
    <3> QED BY <3>4 DEF X, X2, K2, H2, Loaded, b
  <2>11. A = Scanning(c, t, i)
    BY ScanningIs DEF X, K, H
  <2> HIDE DEF A, B
  <2>12. Leads(c, A, Recompute(w, Kv(b), k), Loaded(c, t, i))
    BY <2>9, <2>10, LeadsWeaker DEF Above
  <2> QED BY <2>1, <2>11, <2>12
<1> QED BY <1>1, <1>2

\* The accumulator takes the Q rows and a K/V tile.
LEMMA PrefixGrows ==
  ASSUME NEW c, NEW t, NEW i \in Nat
  PROVE  /\ Append(Prefix(c, t, i), <<Rows(c, "q", t), Rows(c, "kv", i)>>) = Prefix(c, t, i + 1)
         /\ Prefix(c, t, 0) = <<>>
<1> DEFINE q == Rows(c, "q", t)
           k(j) == Rows(c, "kv", j)
           S == {<<q, k(j)>> : j \in Int}
           p == Prefix(c, t, i)
           r == Append(p, <<q, k(i)>>)
           s == Prefix(c, t, i + 1)
<1> HIDE DEF q, k
<1>0. p = [j \in 1 .. i |-> <<q, k(j - 1)>>] /\ s = [j \in 1 .. i + 1 |-> <<q, k(j - 1)>>]
  BY DEF Prefix, q, k
<1>1. \A j \in Nat : <<q, k(j - 1)>> \in S /\ <<q, k(i)>> \in S
  OBVIOUS
<1> HIDE DEF S, p, r, s
<1>2. p \in Seq(S) /\ Len(p) = i
  BY <1>0, <1>1
<1>3. s \in Seq(S) /\ Len(s) = i + 1
  BY <1>0, <1>1
<1>4. r \in Seq(S) /\ Len(r) = i + 1 /\ r[i + 1] = <<q, k(i)>> /\ \A j \in 1 .. i : r[j] = p[j]
  BY <1>1, <1>2 DEF r
<1>5. \A j \in 1 .. i + 1 : r[j] = s[j]
  <2> SUFFICES ASSUME NEW j \in 1 .. i + 1 PROVE r[j] = s[j]
    OBVIOUS
  <2>1. CASE j = i + 1
    BY <1>0, <1>4, <2>1
  <2>2. CASE j # i + 1
    <3>1. j \in 1 .. i
      BY <2>2
    <3> QED BY <1>0, <1>4, <3>1
  <2> QED BY <2>1, <2>2
<1>6. r = s
  BY <1>3, <1>4, <1>5
<1>7. Prefix(c, t, 0) = <<>>
  BY DEF Prefix
<1> QED BY <1>6, <1>7 DEF r, s, p, q, k

\* What a buffer holds.
LEMMA ContentsIf ==
  ASSUME NEW F, NEW b, NEW v, <<b, v>> \in F.holds
  PROVE  v \in Contents(F, b)
<1> DEFINE f == <<b, v>>
<1>1. f[1] = b /\ f[2] = v /\ f \in F.holds
  OBVIOUS
<1> HIDE DEF f
<1> QED BY <1>1 DEF Contents

\* The accumulator meets tile i.
LEMMA UpdateLeads ==
  ASSUME NEW c, ValidCall(c), NEW t \in 1 .. NumTasks, NEW i \in Nat
  PROVE  Leads(c, Loaded(c, t, i), <<UpdateWith(c, t, i)>>, Scanning(c, t, i + 1))
<1> DEFINE b == Ring(i)
           o == OutputIndex(t)
           x == UpdateWith(c, t, i)
           q == Rows(c, "q", t)
           k == Rows(c, "kv", i)
           K == LoadedPairs(c, t, i)
           H == LoadedContents(c, t, i)
           X == InScan(t) \cup {Kv(b)}
           A == Base(c, t, X, K, H)
           K2 == ScanPairs(c, t, i + 1)
           H2 == ScanContents(c, t, i + 1)
           X2 == InScan(t)
           scratch == IF c.kind = "flash" THEN {Output(o)} ELSE {}
           free == IF FromHost(c) THEN {OnEvent(KvFree(b))} ELSE {}
           ready == IF FromHost(c) THEN {OnEvent(QReady), OnEvent(KvReady(b))} ELSE {}
           old == IF c.kind = "flash" THEN {OnEvent(OutputFree(o))} ELSE {}
<1>1. /\ x.stream = "compute" /\ x.guards = (IF c.kind = "flash" THEN {OutputFree(o)} ELSE {})
      /\ x.waits = (IF FromHost(c) THEN {QReady, KvReady(b)} ELSE {})
      /\ x.records = (IF FromHost(c) THEN {KvFree(b)} ELSE {}) /\ x.flags = x.records
      /\ x.work.op = "update" /\ x.work.kv = Kv(b) /\ x.work.initialize = (i = 0)
      /\ x.work.scratch = scratch
  BY DEF UpdateWith, Step, Update, Ring
<1>b. b \in KvBuffers /\ o \in OutputBuffers
  BY RingFacts DEF Ring
<1> HIDE DEF x
<1>2. /\ {Q, Kv(b)} \subseteq Reads(x.work) /\ Reads(x.work) \subseteq {Q, Kv(b), Accumulator}
      /\ Writes(x.work) = {Accumulator} \cup scratch
      /\ Touches(x) = {OnCompute, Q, Kv(b), Accumulator} \cup scratch
  BY <1>1 DEF Reads, Writes, Touches, OnCompute
<1>3. Hears(x) = {OnCompute} \cup ready \cup old /\ Tells(x) = {OnCompute} \cup free
  BY <1>1 DEF Hears, Tells, OnCompute
<1>4. Tidy(c, x)
  <2>1. \A e \in x.records : x.stream = PlaceOf(c, e)
    BY <1>1, EventPlaces
  <2>2. x.guards \subseteq FreeEvents
    BY <1>b, <1>1, EventPlaces
  <2>3. \A a \in Writes(x.work) : x.stream = WriterOf(a)
    BY <1>1, <1>2, BufferNames DEF WriterOf
  <2> QED BY <1>1, <2>1, <2>2, <2>3 DEF Tidy, CallStreams
<1>5. Plain(x)
  <2>1. Q[1] # "stream" /\ Kv(b)[1] # "stream" /\ Accumulator[1] # "stream" /\ Output(o)[1] # "stream"
    BY BufferNames
  <2> QED BY <1>2, <2>1 DEF Plain
<1>n. /\ Kv(b) \notin {OnH2d, OnCompute, Q, Output(o), Accumulator} /\ OnH2d \notin {Q, Output(o), Accumulator, OnCompute}
      /\ Q # Accumulator /\ Q # Output(o) /\ Accumulator # Output(o) /\ OnCompute \notin {Q, Output(o), Accumulator}
  BY BufferNames
<1> HIDE DEF b, o
<1>6. /\ QUse(c, i) \in Hears(x) /\ KvIn(c, i) \in Hears(x)
      /\ <<QUse(c, i), Q>> \in A.known /\ <<KvIn(c, i), Kv(b)>> \in A.known
      /\ <<KvIn(c, i), OnH2d>> \in A.known
      /\ <<OutUse(c, o, i), Output(o)>> \in A.known
  <2>1. QUse(c, i) \in Hears(x) /\ KvIn(c, i) \in Hears(x)
    BY <1>3 DEF QUse, KvIn, b
  <2>2. \A f \in K : f \in A.known
    BY KnownInBase
  <2> QED BY <2>1, <2>2 DEF LoadedPairs, b, o
<1>7. <<OnCompute, Accumulator>> \in A.known /\ <<OnCompute, OnCompute>> \in A.known /\ OnCompute \in Hears(x)
  <2>1. <<OnCompute, Accumulator>> \in Table(c, t)
    BY TableHas
  <2>2. <<OnCompute, Accumulator>>[2] \notin X
    BY <1>n DEF InScan, o
  <2> QED BY <1>3, <2>1, <2>2, KnownInBase, ComputeKnown
<1>8. c.kind = "flash" => OutUse(c, o, i) \in Hears(x)
  <2> SUFFICES ASSUME c.kind = "flash" PROVE OutUse(c, o, i) \in Hears(x)
    OBVIOUS
  <2>1. ~Consumed(c)
    BY DEF Consumed
  <2> QED BY <1>3, <2>1 DEF OutUse, OutCarrier
<1> HIDE DEF A
<1>9. Touches(x) \subseteq Heard(A, x)
  <2>1. Q \in Heard(A, x) /\ Kv(b) \in Heard(A, x)
    BY <1>6, HeardIf
  <2>2. Accumulator \in Heard(A, x) /\ OnCompute \in Heard(A, x)
    BY <1>7, HeardIf
  <2>3. c.kind = "flash" => Output(o) \in Heard(A, x)
    BY <1>6, <1>8, HeardIf
  <2> QED BY <1>2, <2>1, <2>2, <2>3
<1>10. /\ <<OnCompute, Q>> \in Post(A, x).known /\ <<OnCompute, OnH2d>> \in Post(A, x).known
       /\ <<OnCompute, Accumulator>> \in Post(A, x).known /\ <<OnCompute, OnCompute>> \in Post(A, x).known
       /\ <<KvCarrier(c, b), Kv(b)>> \in Post(A, x).known
  <2>1. OnCompute \in Tells(x) /\ KvCarrier(c, b) \in Tells(x)
    BY <1>3 DEF KvCarrier
  <2> QED BY <1>6, <1>7, <2>1, ToldHeard
<1>11. <<OutUse(c, o, i + 1), Output(o)>> \in Post(A, x).known
  <2>1. CASE c.kind = "flash"
    <3>1. OutUse(c, o, i + 1) = OnCompute
      BY <2>1 DEF OutUse
    <3>2. OnCompute \in Tells(x)
      BY <1>3
    <3> QED BY <1>6, <1>8, <2>1, <3>1, <3>2, ToldHeard
  <2>2. CASE c.kind # "flash"
    <3>1. OutUse(c, o, i + 1) = OutUse(c, o, i)
      BY <2>2 DEF OutUse
    <3>2. Output(o) \notin Touches(x)
      BY <1>2, <1>n, <2>2
    <3> QED BY <1>6, <3>1, <3>2, KeptIf
  <2> QED BY <2>1, <2>2
<1>12. K2 \subseteq Post(A, x).known
  <2>1. QUse(c, i + 1) = OnCompute /\ H2dUse(c, i + 1) = OnCompute
    BY DEF QUse, H2dUse
  <2> QED BY <1>10, <1>11, <2>1 DEF ScanPairs, o
<1>13. H2 \subseteq Post(A, x).holds
  <2>1. A.holds = H
    BY ComputeKnown DEF A
  <2>2. <<Q, q>> \in Post(A, x).holds
    <3>1. <<Q, q>> \in A.holds
      BY <2>1 DEF LoadedContents
    <3>2. Q \notin Writes(x.work)
      BY <1>2, <1>n
    <3> QED BY <3>1, <3>2 DEF Post
  <2>3. q \in Contents(A, Q) /\ k \in Contents(A, Kv(b))
    <3>1. <<Q, q>> \in A.holds /\ <<Kv(b), k>> \in A.holds
      BY <2>1 DEF LoadedContents, b
    <3> QED BY <3>1, ContentsIf
  <2>4. Prefix(c, t, i) \in Started(A, x.work)
    <3>1. CASE i = 0
      BY <1>1, <3>1, PrefixGrows DEF Started
    <3>2. CASE i # 0
      <4>1. <<Accumulator, Prefix(c, t, i)>> \in A.holds
        BY <2>1, <3>2 DEF LoadedContents, Accumulated
      <4> QED BY <1>1, <3>2, <4>1, ContentsIf DEF Started
    <3> QED BY <3>1, <3>2
  <2>5. <<Accumulator, Prefix(c, t, i + 1)>> \in Updated(A, x.work)
    <3>1. Append(Prefix(c, t, i), <<q, k>>) = Prefix(c, t, i + 1)
      BY PrefixGrows
    <3> HIDE DEF q, k
    <3>2. <<Accumulator, Append(Prefix(c, t, i), <<q, k>>)>> \in Updated(A, x.work)
      BY <1>1, <2>3, <2>4 DEF Updated
    <3> QED BY <3>1, <3>2
  <2>6. <<Accumulator, Prefix(c, t, i + 1)>> \in Post(A, x).holds
    BY <1>1, <2>5 DEF Post, Put
  <2> QED BY <2>2, <2>6 DEF ScanContents, Accumulated
<1>14. ASSUME NEW f \in Table(c, t)
       PROVE  f[2] \in X2 \/ (f \in Table(c, t) /\ f[2] \notin X \cup Touches(x)) \/ f \in Post(A, x).known
  <2> SUFFICES ASSUME f[2] \notin X2, f[2] \in X \cup Touches(x) PROVE f \in Post(A, x).known
    OBVIOUS
  <2>1. f[2] \in {OnCompute, Kv(b), Accumulator}
    BY <1>2 DEF InScan, o
  <2>2. CASE f[2] = OnCompute
    <3>1. f = <<OnCompute, OnCompute>>
      BY <2>2, ComputeRow
    <3> QED BY <1>10, <3>1
  <2>3. CASE f[2] = Kv(b)
    BY <1>10, <2>3, TableAt
  <2>4. CASE f[2] = Accumulator
    BY <1>10, <2>4, TableAt
  <2> QED BY <2>1, <2>2, <2>3, <2>4
<1>15. 1 .. t - 1 \subseteq Post(A, x).stored
  BY KeepsStored DEF A
<1>16. A = Base(c, t, X, K, H)
  BY DEF A
<1> HIDE DEF K, H, X, X2, K2, H2
<1>17. Leads(c, A, <<x>>, Base(c, t, X2, K2, H2))
  BY <1>1, <1>4, <1>5, <1>9, <1>12, <1>13, <1>14, <1>15, <1>16, BaseStep
<1>18. A = Loaded(c, t, i) /\ Base(c, t, X2, K2, H2) = Scanning(c, t, i + 1)
  BY <1>16, ScanningIs DEF X, K, H, X2, K2, H2, Loaded, b
<1> QED BY <1>17, <1>18 DEF x

\* The scan of a task accumulates its answer.
ScannedPairs(c, t) ==
  {<<OnCompute, Q>>, <<H2dAfter(c), OnH2d>>, <<OutUse(c, OutputIndex(t), NumTiles), Output(OutputIndex(t))>>}

Scanned(c, t) == Base(c, t, InScan(t), ScannedPairs(c, t), {<<Accumulator, Answer(c.id, t)>>})

\* The scan of all tiles leaves the answer in the accumulator.
LEMMA ScanLeads ==
  ASSUME NEW c, ValidCall(c), NEW t \in 1 .. NumTasks
  PROVE  Leads(c, Scanning(c, t, 0), Scan(c, t), Scanned(c, t))
<1> DEFINE n == NumTiles
           seqs == [i \in 1 .. n |-> LoadKv(c, i - 1) \o <<UpdateWith(c, t, i - 1)>>]
           I == [i \in 1 .. n + 1 |-> Scanning(c, t, i - 1)]
           end == IF Measured(c) THEN <<Record("h2d", {H2dEnd}, {})>> ELSE <<>>
           A == Scanning(c, t, n)
           S == ScanPairs(c, t, n)
           K2 == ScannedPairs(c, t)
           H == ScanContents(c, t, n)
           H2 == {<<Accumulator, Answer(c.id, t)>>}
<1>1. n \in Nat \ {0}
  BY ProgramAssumption
<1>2. Scan(c, t) = FlattenSeq(seqs) \o end
  BY DEF Scan
<1>3. \A i \in 1 .. n : Leads(c, Scanning(c, t, i - 1), seqs[i], Scanning(c, t, i))
  <2> SUFFICES ASSUME NEW i \in 1 .. n PROVE Leads(c, Scanning(c, t, i - 1), seqs[i], Scanning(c, t, i))
    OBVIOUS
  <2>1. i - 1 \in Nat /\ (i - 1) + 1 = i
    BY <1>1
  <2>2. Leads(c, Scanning(c, t, i - 1), LoadKv(c, i - 1), Loaded(c, t, i - 1))
    BY <2>1, LoadKvLeads
  <2>3. Leads(c, Loaded(c, t, i - 1), <<UpdateWith(c, t, i - 1)>>, Scanning(c, t, i))
    BY <2>1, UpdateLeads
  <2>4. Leads(c, Scanning(c, t, i - 1), LoadKv(c, i - 1) \o <<UpdateWith(c, t, i - 1)>>, Scanning(c, t, i))
    BY <2>2, <2>3, LeadsOn
  <2> QED BY <2>4
<1>4. Leads(c, Scanning(c, t, 0), FlattenSeq(seqs), A)
  <2>1. Len(seqs) = n
    BY <1>1
  <2>2. \A i \in 1 .. n : I[i] = Scanning(c, t, i - 1) /\ I[i + 1] = Scanning(c, t, i)
    <3> SUFFICES ASSUME NEW i \in 1 .. n PROVE I[i] = Scanning(c, t, i - 1) /\ I[i + 1] = Scanning(c, t, i)
      OBVIOUS
    <3>1. i \in 1 .. n + 1 /\ i + 1 \in 1 .. n + 1 /\ (i + 1) - 1 = i
      BY <1>1
    <3> QED BY <3>1
  <2>3. I[1] = Scanning(c, t, 0) /\ I[n + 1] = A
    <3>1. 1 \in 1 .. n + 1 /\ n + 1 \in 1 .. n + 1 /\ (n + 1) - 1 = n /\ 1 - 1 = 0
      BY <1>1
    <3> QED BY <3>1
  <2> HIDE DEF seqs, I, n
  <2>4. Leads(c, I[1], FlattenSeq(seqs), I[n + 1])
    BY <1>1, <1>3, <2>1, <2>2, LeadsThrough
  <2> QED BY <2>3, <2>4
<1>5. A = Base(c, t, InScan(t), S, H)
  BY ScanningIs
<1>6. Prefix(c, t, n) = Answer(c.id, t)
  BY DEF Prefix, Answer, Rows
<1>7. H2 \subseteq H
  BY <1>1, <1>6 DEF ScanContents, Accumulated
<1>8. QUse(c, n) = OnCompute /\ H2dUse(c, n) = OnCompute
  BY <1>1 DEF QUse, H2dUse
<1>9. Leads(c, A, end, Scanned(c, t))
  <2>1. CASE ~Measured(c)
    <3>1. K2 = S
      BY <1>8, <2>1 DEF ScanPairs, ScannedPairs, H2dAfter
    <3> HIDE DEF K2, S, H, H2, A
    <3>2. Above(A, Base(c, t, InScan(t), K2, H2))
      BY <1>5, <1>7, <3>1, BaseAbove
    <3>3. Scanned(c, t) = Base(c, t, InScan(t), K2, H2)
      BY DEF Scanned, K2, H2
    <3>4. end = <<>>
      BY <2>1
    <3> QED BY <3>2, <3>3, <3>4, LeadsNowhere
  <2>2. CASE Measured(c)
    <3> DEFINE x == Record("h2d", {H2dEnd}, {})
               known == Base(c, t, InScan(t), S, H).known
    <3>1. end = <<x>>
      BY <2>2
    <3>2. PlaceOf(c, H2dEnd) = "h2d" /\ H2dEnd \notin FreeEvents /\ "h2d" \in CallStreams(c)
      BY EventPlaces DEF CallStreams
    <3>3. ASSUME NEW f \in K2
          PROVE  \/ f \in known /\ f[2] # OnH2d
                 \/ /\ f = <<f[1], f[2]>> /\ f[1] \in {OnH2d, OnEvent(H2dEnd)}
                    /\ <<OnH2d, f[2]>> \in known
      <4>1. <<OnCompute, Q>> \in known /\ <<OutUse(c, OutputIndex(t), n), Output(OutputIndex(t))>> \in known
        BY <1>8, KnownInBase DEF ScanPairs
      <4>2. Q # OnH2d /\ Output(OutputIndex(t)) # OnH2d
        BY BufferNames
      <4>3. <<OnH2d, OnH2d>> \in known
        BY ComputeKnown
      <4> HIDE DEF known, n
      <4> QED BY <2>2, <4>1, <4>2, <4>3 DEF K2, ScannedPairs, H2dAfter, n
    <3>4. \A f \in Table(c, t) : f[2] \in InScan(t) \/ f[2] \notin InScan(t) \cup {OnH2d}
      BY DEF InScan
    <3> HIDE DEF A, S, K2, H, H2, end, x, known
    <3>5. Leads(c, Base(c, t, InScan(t), S, H), <<x>>, Base(c, t, InScan(t), K2, H2))
      BY <1>7, <3>2, <3>3, <3>4, MarkLeads DEF x, known, OnH2d
    <3>6. Scanned(c, t) = Base(c, t, InScan(t), K2, H2)
      BY DEF Scanned, K2, H2
    <3> QED BY <1>5, <3>1, <3>5, <3>6
  <2> QED BY <2>1, <2>2
<1> HIDE DEF seqs, end, A
<1>10. Leads(c, Scanning(c, t, 0), FlattenSeq(seqs) \o end, Scanned(c, t))
  BY <1>4, <1>9, LeadsOn
<1> QED BY <1>2, <1>10

-----------------------------------------------------------------------------
(* The output of a task. *)

\* The accumulator was finalized; `result` holds the answer.
Ended(c, t, result) ==
  Base(c, t, {OnH2d, result}, {<<OnCompute, result>>, <<H2dAfter(c), OnH2d>>},
       {<<result, Answer(c.id, t)>>})

OnEvents(events) == {OnEvent(e) : e \in events}

\* A copy on the compute stream.
LEMMA CopyLeads ==
  ASSUME NEW c, NEW t, NEW X, NEW K, NEW H, NEW A, A = Base(c, t, X, K, H),
         NEW guards, guards \subseteq FreeEvents, NEW from, NEW to, NEW records,
         from[1] # "stream", to[1] # "stream", c.mode = "host" => to[1] \notin {"q", "kv"},
         \A e \in records : PlaceOf(c, e) = "compute" /\ e \notin FreeEvents,
         <<OnCompute, from>> \in A.known,
         <<OnCompute, to>> \in A.known \/ \E e \in guards : <<OnEvent(e), to>> \in A.known,
         NEW v, <<from, v>> \in H,
         NEW X2, \A f \in Table(c, t) : \/ f[2] \in X2
                                        \/ f[2] \notin X \cup {OnCompute, from, to}
                                        \/ f[1] = OnCompute /\ f[2] \in {OnCompute, from, to},
         NEW K2, \A f \in K2 : \/ f \in A.known /\ f[2] \notin {OnCompute, from, to}
                               \/ f = <<OnCompute, from>> \/ f = <<OnCompute, to>>
                               \/ \E e \in records : f = <<OnEvent(e), to>>
  PROVE  Leads(c, A, <<Step("compute", guards, {}, Copy(from, to), records, {})>>,
               Base(c, t, X2, K2, {<<to, v>>}))
<1> DEFINE x == Step("compute", guards, {}, Copy(from, to), records, {})
<1> HIDE DEF x
<1>1. /\ x.work.op = "copy" /\ x.work.from = from /\ x.work.to = to
      /\ Writes(x.work) = {to} /\ Touches(x) = {OnCompute, from, to}
      /\ Hears(x) = {OnCompute} \cup OnEvents(guards)
      /\ Tells(x) = {OnCompute} \cup OnEvents(records)
      /\ Tidy(c, x) /\ Plain(x)
  <2>1. /\ x.stream = "compute" /\ x.guards = guards /\ x.waits = {} /\ x.records = records /\ x.flags = {}
        /\ x.work.op = "copy" /\ x.work.from = from /\ x.work.to = to
    BY DEF x, Step, Copy
  <2>2. /\ Reads(x.work) = {from} /\ Writes(x.work) = {to} /\ Touches(x) = {OnCompute, from, to}
        /\ Hears(x) = {OnCompute} \cup OnEvents(guards)
        /\ Tells(x) = {OnCompute} \cup OnEvents(records)
    BY <2>1 DEF Reads, Writes, Touches, Hears, Tells, OnCompute, OnEvents
  <2>3. Tidy(c, x)
    BY <2>1, <2>2 DEF Tidy, CallStreams, WriterOf
  <2>4. Plain(x)
    BY <2>2 DEF Plain
  <2> QED BY <2>1, <2>2, <2>3, <2>4
<1>2. <<OnCompute, OnCompute>> \in A.known /\ A.holds = H
  BY ComputeKnown
<1>3. \E z \in Hears(x) : <<z, to>> \in A.known
  BY <1>1 DEF OnEvents
<1>4. OnCompute \in Hears(x) /\ OnCompute \in Tells(x)
  BY <1>1
<1>5. Touches(x) \subseteq Heard(A, x)
  <2>1. from \in Heard(A, x) /\ to \in Heard(A, x) /\ OnCompute \in Heard(A, x)
    BY <1>2, <1>3, <1>4, HeardIf
  <2> QED BY <1>1, <2>1
<1>6. \A y \in Tells(x) : \A b \in {OnCompute, from, to} : <<y, b>> \in Post(A, x).known
  BY <1>2, <1>3, <1>4, ToldHeard
<1>7. K2 \subseteq Post(A, x).known
  <2> SUFFICES ASSUME NEW f \in K2 PROVE f \in Post(A, x).known
    OBVIOUS
  <2>1. CASE f \in A.known /\ f[2] \notin {OnCompute, from, to}
    <3>1. f[2] \notin Touches(x)
      BY <1>1, <2>1
    <3> QED BY <2>1, <3>1 DEF Post
  <2>2. CASE f = <<OnCompute, from>> \/ f = <<OnCompute, to>>
    BY <1>4, <1>6, <2>2
  <2>3. CASE \E e \in records : f = <<OnEvent(e), to>>
    <3>1. PICK e \in records : f = <<OnEvent(e), to>>
      BY <2>3
    <3>2. OnEvent(e) \in Tells(x)
      BY <1>1 DEF OnEvents
    <3> QED BY <1>6, <3>1, <3>2
  <2> QED BY <2>1, <2>2, <2>3
<1>8. {<<to, v>>} \subseteq Post(A, x).holds
  <2>1. v \in Contents(A, from)
    BY <1>2, ContentsIf
  <2>2. <<to, v>> \in Put(A, x.work)
    BY <1>1, <2>1 DEF Put
  <2> QED BY <2>2 DEF Post
<1>9. ASSUME NEW f \in Table(c, t)
      PROVE  f[2] \in X2 \/ (f \in Table(c, t) /\ f[2] \notin X \cup Touches(x)) \/ f \in Post(A, x).known
  <2> SUFFICES ASSUME f[1] = OnCompute, f[2] \in {OnCompute, from, to} PROVE f \in Post(A, x).known
    BY <1>1
  <2>1. f = <<OnCompute, f[2]>>
    BY TablePairs
  <2> QED BY <1>4, <1>6, <2>1
<1>10. 1 .. t - 1 \subseteq Post(A, x).stored
  BY KeepsStored
<1>11. Leads(c, A, <<x>>, Base(c, t, X2, K2, {<<to, v>>}))
  BY <1>1, <1>5, <1>7, <1>8, <1>9, <1>10, BaseStep
<1> QED BY <1>11 DEF x

\* The answer is copied out of the accumulator.
LEMMA FinalizeLeads ==
  ASSUME NEW c, ValidCall(c), NEW t \in 1 .. NumTasks
  PROVE  Leads(c, Scanned(c, t), Finalize(c, t), Ended(c, t, Final(c, t)))
<1> DEFINE o == OutputIndex(t)
           X == InScan(t)
           K == ScannedPairs(c, t)
           ans == Answer(c.id, t)
           H == {<<Accumulator, ans>>}
           A == Base(c, t, X, K, H)
           release == IF ReusesQ(c) THEN <<>> ELSE ReleaseQ(c, "compute")
           X1 == IF ReusesQ(c) THEN {OnH2d, Q} ELSE {OnH2d, Output(o)}
           K1 == IF ReusesQ(c) THEN {<<OnCompute, Q>>, <<H2dAfter(c), OnH2d>>}
                 ELSE {<<H2dAfter(c), OnH2d>>, <<OutUse(c, o, NumTiles), Output(o)>>}
           B == Base(c, t, X1, K1, H)
           guards == IF Consumed(c) \/ ReusesQ(c) \/ c.kind = "flash" THEN {} ELSE {OutputFree(o)}
           to == Final(c, t)
           x == Step("compute", guards, {}, Copy(Accumulator, to), {}, {})
           X2 == {OnH2d, to}
           K2 == {<<OnCompute, to>>, <<H2dAfter(c), OnH2d>>}
<1>0. o \in OutputBuffers /\ c.mode \in {"host", "device_consumer"} /\ (ReusesQ(c) <=> c.mode # "host")
  BY RingFacts, KindFacts
<1>1. Finalize(c, t) = release \o <<x>>
  BY DEF Finalize
<1>n. /\ Q \notin {OnH2d, OnCompute, Output(o), Accumulator} /\ OnH2d \notin {Output(o), Accumulator, OnCompute}
      /\ Accumulator # Output(o) /\ OnCompute \notin {Output(o), Accumulator}
      /\ Q[1] # "stream" /\ Accumulator[1] # "stream" /\ Output(o)[1] \notin {"stream", "q", "kv"}
  BY BufferNames
<1>2. Leads(c, A, release, B)
  <2>1. CASE ReusesQ(c)
    <3>1. release = <<>>
      BY <2>1
    <3>2. \A f \in Table(c, t) : f[2] \notin X1 => f[2] \notin X \/ f \in K
      <4> SUFFICES ASSUME NEW f \in Table(c, t), f[2] \notin X1, f[2] \in X PROVE f \in K
        OBVIOUS
      <4>1. f[2] = Output(o)
        BY <2>1 DEF InScan
      <4>2. f = <<OutCarrier(c, o), Output(o)>>
        BY <4>1, TableAt
      <4>3. OutUse(c, o, NumTiles) = OutCarrier(c, o)
        BY <1>0, <2>1, KindFacts DEF OutUse
      <4> QED BY <4>2, <4>3 DEF ScannedPairs
    <3>3. \A f \in K1 : f \in K \/ (f \in Table(c, t) /\ f[2] \notin X)
      BY <2>1 DEF ScannedPairs
    <3> HIDE DEF X, K, H, X1, K1
    <3>4. Above(A, B)
      BY <3>2, <3>3, BaseAbove
    <3> HIDE DEF A, B
    <3> QED BY <3>1, <3>4, LeadsNowhere
  <2>2. CASE ~ReusesQ(c)
    <3>1. PlaceOf(c, QFree) = "compute"
      BY <1>0, <2>2, EventPlaces
    <3>2. <<OnCompute, Q>> \in A.known
      BY KnownInBase DEF ScannedPairs
    <3>3. OnCompute \notin X
      BY <1>n DEF InScan
    <3>4. K1 \subseteq K /\ \A f \in K1 : f[2] # OnCompute
      BY <1>n, <2>2 DEF ScannedPairs
    <3>5. X \ {Q} \subseteq X1
      BY <1>n, <2>2 DEF InScan
    <3>6. release = ReleaseQ(c, "compute")
      BY <2>2
    <3> HIDE DEF X, K, H, X1, K1, release
    <3> QED BY <3>1, <3>2, <3>3, <3>4, <3>5, <3>6, ReleaseQLeads DEF OnCompute
  <2> QED BY <2>1, <2>2
<1>3. Leads(c, B, <<x>>, Base(c, t, X2, K2, {<<to, ans>>}))
  <2>1. guards \subseteq FreeEvents
    BY <1>0, EventPlaces
  <2>2. to = IF ReusesQ(c) THEN Q ELSE Output(o)
    BY DEF Final
  <2>3. Accumulator[1] # "stream" /\ to[1] # "stream" /\ (c.mode = "host" => to[1] \notin {"q", "kv"})
    BY <1>0, <1>n, <2>2
  <2>4. <<OnCompute, Accumulator>> \in B.known
    <3>1. <<OnCompute, Accumulator>> \in Table(c, t)
      BY TableHas
    <3>2. <<OnCompute, Accumulator>>[2] \notin X1
      BY <1>n DEF InScan
    <3> QED BY <3>1, <3>2, KnownInBase
  <2>5. <<H2dAfter(c), OnH2d>> \in B.known /\ OnH2d \notin {OnCompute, Accumulator, to}
    <3>1. <<H2dAfter(c), OnH2d>> \in K1
      BY DEF ScannedPairs
    <3> QED BY <1>n, <2>2, <3>1, KnownInBase
  <2>6. <<OnCompute, to>> \in B.known \/ \E e \in guards : <<OnEvent(e), to>> \in B.known
    <3>1. CASE ReusesQ(c)
      <4>1. <<OnCompute, Q>> \in K1
        BY <3>1 DEF ScannedPairs
      <4> QED BY <2>2, <3>1, <4>1, KnownInBase
    <3>2. CASE ~ReusesQ(c)
      <4>1. <<OutUse(c, o, NumTiles), Output(o)>> \in B.known
        <5>1. <<OutUse(c, o, NumTiles), Output(o)>> \in K1
          BY <3>2
        <5> QED BY <5>1, KnownInBase
      <4>2. OutUse(c, o, NumTiles) = OnCompute \/ (OutUse(c, o, NumTiles) = OnEvent(OutputFree(o)) /\ guards = {OutputFree(o)})
        BY <3>2, ProgramAssumption DEF OutUse, OutCarrier
      <4> QED BY <2>2, <3>2, <4>1, <4>2
    <3> QED BY <3>1, <3>2
  <2>7. ASSUME NEW f \in Table(c, t)
        PROVE  \/ f[2] \in X2
               \/ f[2] \notin X1 \cup {OnCompute, Accumulator, to}
               \/ f[1] = OnCompute /\ f[2] \in {OnCompute, Accumulator, to}
    <3> SUFFICES ASSUME f[2] \notin X2, f[2] \in X1 \cup {OnCompute, Accumulator, to}
                 PROVE  f[1] = OnCompute /\ f[2] \in {OnCompute, Accumulator, to}
      OBVIOUS
    <3>1. CASE f[2] = OnCompute
      <4>1. f[1] = OnCompute
        BY <3>1, ComputeRow
      <4> QED BY <3>1, <4>1
    <3>2. CASE f[2] = Accumulator
      <4>1. f[1] = OnCompute
        BY <3>2, TableAt
      <4> QED BY <3>2, <4>1
    <3>3. f[2] \in {OnCompute, Accumulator}
      BY <2>2
    <3> QED BY <3>1, <3>2, <3>3
  <2>8. \A f \in K2 : \/ f \in B.known /\ f[2] \notin {OnCompute, Accumulator, to}
                      \/ f = <<OnCompute, to>>
    BY <2>5
  <2>9. B = Base(c, t, X1, K1, H) /\ <<Accumulator, ans>> \in H
    OBVIOUS
  <2> HIDE DEF B, guards, to, X2, K2, X1, K1, H, ans
  <2> QED BY <2>1, <2>3, <2>4, <2>6, <2>7, <2>8, <2>9, CopyLeads
<1>4. A = Scanned(c, t) /\ Base(c, t, X2, K2, {<<to, ans>>}) = Ended(c, t, to)
  BY DEF Scanned, Ended
<1> HIDE DEF A, B, x, release, X2, K2
<1>5. Leads(c, A, release \o <<x>>, Base(c, t, X2, K2, {<<to, ans>>}))
  BY <1>2, <1>3, LeadsOn
<1> QED BY <1>1, <1>4, <1>5

\* The table before the next task.
LEMMA TableNext ==
  ASSUME NEW c, NEW t \in Nat \ {0}, NEW f \in Table(c, t + 1)
  PROVE  /\ f[2] # OnH2d /\ f[2] # OnStream(OutputStream(c)) => f \in Table(c, t)
         /\ f[2] = OnH2d => f = <<H2dAfter(c), OnH2d>>
         /\ f[2] # Transformed(c, t)
<1>1. H2dBefore(c, t + 1) = H2dAfter(c)
  BY DEF H2dBefore
<1>2. f[2] = OnH2d => f = <<H2dAfter(c), OnH2d>>
  BY <1>1, TableAt
<1>3. f[2] # OnH2d /\ f[2] # OnStream(OutputStream(c)) => f \in Table(c, t)
  <2> SUFFICES ASSUME f[2] # OnH2d, f[2] # OnStream(OutputStream(c)) PROVE f \in Table(c, t)
    OBVIOUS
  <2>1. \A u \in t + 1 .. NumTasks : u \in t .. NumTasks
    BY ProgramAssumption
  <2> QED BY <2>1 DEF Table
<1>4. f[2] # Transformed(c, t)
  <2> SUFFICES ASSUME f[2] = Transformed(c, t) PROVE FALSE
    OBVIOUS
  <2>1. /\ Transformed(c, t)[1] \notin {"q", "kv", "accumulator", "output", "hidden", "consumer", "stream"}
        /\ Transformed(c, t)[3] = t
    BY BufferNames
  <2>2. \E u \in t + 1 .. NumTasks : f[2] = Transformed(c, u)
    BY <2>1, BufferNames DEF Table
  <2>3. PICK u \in t + 1 .. NumTasks : f[2] = Transformed(c, u)
    BY <2>2
  <2>4. u = t
    <3>1. Transformed(c, u)[3] = u
      BY BufferNames
    <3> QED BY <2>1, <2>3, <3>1
  <2> QED BY <2>3, <2>4, ProgramAssumption
<1> QED BY <1>2, <1>3, <1>4

\* The store of a task's answer.
LEMMA StoreLeads ==
  ASSUME NEW c, NEW t \in 1 .. TaskCount(c), t \in Nat, NEW X, NEW K, NEW H, NEW A, A = Base(c, t, X, K, H),
         NEW ready, NEW from, from[1] # "stream", <<OnEvent(ready), from>> \in A.known,
         <<from, Answer(c.id, t)>> \in H,
         NEW records, NEW flags, records \cap FreeEvents \subseteq flags,
         \A e \in records : PlaceOf(c, e) = OutputStream(c),
         NEW X2, \A f \in Table(c, t + 1) :
                   \/ f[2] \in X2
                   \/ f \in Table(c, t) /\ f[2] \notin X \cup {OnStream(OutputStream(c)), from}
                   \/ f \in A.known /\ f[2] \notin {OnStream(OutputStream(c)), from}
                   \/ /\ f[1] \in {OnStream(OutputStream(c))} \cup OnEvents(records)
                      /\ f[2] \in {OnStream(OutputStream(c)), from},
         NEW K2, \A f \in K2 : \/ f \in A.known /\ f[2] \notin {OnStream(OutputStream(c)), from}
                               \/ /\ f = <<f[1], f[2]>>
                                  /\ f[1] \in {OnStream(OutputStream(c))} \cup OnEvents(records)
                                  /\ f[2] \in {OnStream(OutputStream(c)), from}
  PROVE  Leads(c, A, <<Step(OutputStream(c), {}, {ready}, Store(from, c, t), records, flags)>>,
               Base(c, t + 1, X2, K2, {}))
<1> DEFINE s == OutputStream(c)
           x == Step(s, {}, {ready}, Store(from, c, t), records, flags)
<1>1. /\ x.stream = s /\ x.guards = {} /\ x.waits = {ready} /\ x.records = records /\ x.flags = flags
      /\ x.work.op = "store" /\ x.work.from = from /\ x.work.id = c.id /\ x.work.task = t
  BY DEF Step, Store
<1> HIDE DEF x, s
<1>2. /\ Reads(x.work) = {from} /\ Writes(x.work) = {} /\ Touches(x) = {OnStream(s), from}
      /\ Hears(x) = {OnStream(s), OnEvent(ready)}
      /\ Tells(x) = {OnStream(s)} \cup OnEvents(records)
  BY <1>1 DEF Reads, Writes, Touches, Hears, Tells, OnEvents
<1>3. Tidy(c, x)
  <2>1. s \in CallStreams(c)
    BY DEF s, OutputStream, CallStreams
  <2> QED BY <1>1, <1>2, <2>1 DEF Tidy, s
<1>4. Plain(x)
  BY <1>2 DEF Plain
<1>5. <<OnStream(s), OnStream(s)>> \in A.known /\ A.holds = H
  BY ComputeKnown DEF s, OutputStream
<1>6. Touches(x) \subseteq Heard(A, x)
  BY <1>2, <1>5, HeardIf
<1>7. \A y \in Tells(x) : \A b \in {OnStream(s), from} : <<y, b>> \in Post(A, x).known
  BY <1>2, <1>5, ToldHeard
<1>8. K2 \subseteq Post(A, x).known
  <2> SUFFICES ASSUME NEW f \in K2 PROVE f \in Post(A, x).known
    OBVIOUS
  <2>1. CASE f \in A.known /\ f[2] \notin {OnStream(s), from}
    <3>1. f[2] \notin Touches(x)
      BY <1>2, <2>1
    <3> QED BY <2>1, <3>1 DEF Post
  <2>2. CASE /\ f = <<f[1], f[2]>> /\ f[1] \in {OnStream(s)} \cup OnEvents(records)
             /\ f[2] \in {OnStream(s), from}
    <3>1. <<f[1], f[2]>> \in Post(A, x).known
      BY <1>2, <1>7, <2>2
    <3> QED BY <2>2, <3>1
  <2> QED BY <2>1, <2>2 DEF s
<1>9. ASSUME NEW f \in Table(c, t + 1)
      PROVE  f[2] \in X2 \/ (f \in Table(c, t) /\ f[2] \notin X \cup Touches(x)) \/ f \in Post(A, x).known
  <2>1. CASE f[2] \in X2 \/ (f \in Table(c, t) /\ f[2] \notin X \cup {OnStream(s), from})
    BY <1>2, <2>1
  <2>2. CASE f \in A.known /\ f[2] \notin {OnStream(s), from}
    <3>1. f[2] \notin Touches(x)
      BY <1>2, <2>2
    <3> QED BY <2>2, <3>1 DEF Post
  <2>3. CASE f[1] \in {OnStream(s)} \cup OnEvents(records) /\ f[2] \in {OnStream(s), from}
    <3>1. f = <<f[1], f[2]>>
      BY TablePairs
    <3>2. <<f[1], f[2]>> \in Post(A, x).known
      BY <1>2, <1>7, <2>3
    <3> QED BY <3>1, <3>2
  <2> QED BY <2>1, <2>2, <2>3 DEF s
<1>10. 1 .. (t + 1) - 1 \subseteq Post(A, x).stored
  BY <1>1, KeepsStored
<1>11. Leads(c, A, <<x>>, Base(c, t + 1, X2, K2, {}))
  BY <1>1, <1>3, <1>4, <1>6, <1>8, <1>9, <1>10, BaseStep
<1> QED BY <1>11 DEF x, s

\* The device consumer copies the answer and stores it.
LEMMA ConsumeLeads ==
  ASSUME NEW c, ValidCall(c), Consumed(c), NEW t \in 1 .. TaskCount(c), t \in 1 .. NumTasks
  PROVE  Leads(c, Ended(c, t, Final(c, t)), Consume(c, t), Base(c, t + 1, {}, {}, {}))
<1> DEFINE s == (t - 1) % NumConsumerBuffers
           fin == Final(c, t)
           place == ConsumerOutput(s)
           ans == Answer(c.id, t)
           XA == {OnH2d, fin}
           KA == {<<OnCompute, fin>>, <<H2dAfter(c), OnH2d>>}
           HA == {<<fin, ans>>}
           A == Base(c, t, XA, KA, HA)
           XB == {OnH2d, fin, place}
           KB == {<<OnCompute, fin>>, <<H2dAfter(c), OnH2d>>, <<OnEvent(ConsumerReady(s)), place>>}
           HB == {<<place, ans>>}
           B == Base(c, t, XB, KB, HB)
           here == OnStream("consumer")
           C == Base(c, t + 1, {fin, here}, {<<OnCompute, fin>>}, {})
           D == Base(c, t + 1, {fin}, {<<OnCompute, fin>>}, {})
           x == Step("compute", {ConsumerFree(s)}, {}, Copy(fin, place), {ConsumerReady(s)}, {})
           y == Step("consumer", {}, {ConsumerReady(s)}, Store(place, c, t),
                     {ConsumerFree(s)}, {ConsumerFree(s)})
           done == IF Measured(c) THEN <<Record("consumer", {TaskDone}, {})>> ELSE <<>>
<1>1. Consume(c, t) = <<x>> \o <<y>> \o done \o ReleaseQ(c, "compute")
  BY DEF Consume
<1>2. s \in ConsumerBuffers /\ t \in Nat \ {0} /\ OutputStream(c) = "consumer"
  BY RingFacts DEF OutputStream
<1>3. c.mode \in {"host", "device_consumer"} /\ (ReusesQ(c) <=> c.mode # "host") /\ (Measured(c) => c.mode # "host")
      /\ c.kind # "view"
  BY KindFacts
<1>4. fin = IF ReusesQ(c) THEN Q ELSE Output(OutputIndex(t))
  BY DEF Final
<1>n. /\ fin \notin {OnH2d, OnCompute, place, here} /\ place \notin {OnH2d, OnCompute, here, Q}
      /\ OnH2d # OnCompute /\ OnH2d # here /\ OnCompute # here /\ here # Q
      /\ fin[1] # "stream" /\ place[1] \notin {"stream", "q", "kv"}
  BY <1>4, BufferNames
<1> HIDE DEF fin, place, s
<1>5. Leads(c, A, <<x>>, B)
  <2>1. {ConsumerFree(s)} \subseteq FreeEvents
    BY <1>2, EventPlaces
  <2>2. \A e \in {ConsumerReady(s)} : PlaceOf(c, e) = "compute" /\ e \notin FreeEvents
    BY EventPlaces
  <2>3. <<OnCompute, fin>> \in A.known /\ <<H2dAfter(c), OnH2d>> \in A.known
    BY KnownInBase
  <2>4. \E e \in {ConsumerFree(s)} : <<OnEvent(e), place>> \in A.known
    <3>1. <<OnEvent(ConsumerFree(s)), place>> \in Table(c, t)
      BY <1>2, TableHas DEF place
    <3>2. <<OnEvent(ConsumerFree(s)), place>>[2] \notin XA
      BY <1>n
    <3> QED BY <3>1, <3>2, KnownInBase
  <2>5. ASSUME NEW f \in Table(c, t)
        PROVE  \/ f[2] \in XB
               \/ f[2] \notin XA \cup {OnCompute, fin, place}
               \/ f[1] = OnCompute /\ f[2] \in {OnCompute, fin, place}
    BY ComputeRow
  <2>6. \A f \in KB : \/ f \in A.known /\ f[2] \notin {OnCompute, fin, place}
                      \/ f = <<OnCompute, fin>>
                      \/ \E e \in {ConsumerReady(s)} : f = <<OnEvent(e), place>>
    BY <1>n, <2>3
  <2>7. A = Base(c, t, XA, KA, HA) /\ <<fin, ans>> \in HA /\ place[1] \notin {"q", "kv"} /\ place[1] # "stream"
        /\ fin[1] # "stream"
    BY <1>n
  <2> HIDE DEF A, XA, KA, HA, XB, KB, ans
  <2> QED BY <2>1, <2>2, <2>3, <2>4, <2>5, <2>6, <2>7, CopyLeads
<1>6. Leads(c, B, <<y>>, C)
  <2>1. <<OnEvent(ConsumerReady(s)), place>> \in B.known /\ <<H2dAfter(c), OnH2d>> \in B.known
        /\ <<OnCompute, fin>> \in B.known
    BY KnownInBase
  <2>2. {ConsumerFree(s)} \cap FreeEvents \subseteq {ConsumerFree(s)}
    OBVIOUS
  <2>3. \A e \in {ConsumerFree(s)} : PlaceOf(c, e) = OutputStream(c)
    BY <1>2, EventPlaces
  <2>4. ASSUME NEW f \in Table(c, t + 1), f[2] \notin {fin, here}
        PROVE  \/ f \in Table(c, t) /\ f[2] \notin XB \cup {here, place}
               \/ f \in B.known /\ f[2] \notin {here, place}
               \/ f[1] \in {here} \cup OnEvents({ConsumerFree(s)}) /\ f[2] \in {here, place}
    <3>1. CASE f[2] = OnH2d
      <4>1. f = <<H2dAfter(c), OnH2d>>
        BY <1>2, <3>1, TableNext
      <4> QED BY <1>n, <2>1, <4>1
    <3>2. CASE f[2] = place
      <4>1. f = <<OnEvent(ConsumerFree(s)), place>>
        BY <3>2, TableAt DEF place
      <4> QED BY <4>1 DEF OnEvents
    <3>3. CASE f[2] \notin {OnH2d, place}
      <4>1. f \in Table(c, t)
        BY <1>2, <2>4, <3>3, TableNext
      <4> QED BY <2>4, <3>3, <4>1
    <3> QED BY <3>1, <3>2, <3>3
  <2>5. \A f \in {<<OnCompute, fin>>} : f \in B.known /\ f[2] \notin {here, place}
    BY <1>n, <2>1
  <2>6. B = Base(c, t, XB, KB, HB) /\ <<place, ans>> \in HB /\ place[1] # "stream"
    BY <1>n
  <2> HIDE DEF B, XB, KB, HB
  <2>7. \A f \in Table(c, t + 1) :
           \/ f[2] \in {fin, here}
           \/ f \in Table(c, t) /\ f[2] \notin XB \cup {here, place}
           \/ f \in B.known /\ f[2] \notin {here, place}
           \/ f[1] \in {here} \cup OnEvents({ConsumerFree(s)}) /\ f[2] \in {here, place}
    BY <2>4
  <2> QED BY <1>2, <2>1, <2>2, <2>3, <2>5, <2>6, <2>7, StoreLeads
<1>7. Leads(c, C, done, D)
  <2>1. CASE Measured(c)
    <3>1. done = <<Record("consumer", {TaskDone}, {})>>
      BY <2>1
    <3>2. "consumer" \in CallStreams(c) /\ "consumer" = PlaceOf(c, TaskDone) /\ TaskDone \notin FreeEvents
      BY <1>3, <2>1, EventPlaces DEF CallStreams
    <3>3. <<OnCompute, fin>> \in C.known /\ <<here, here>> \in C.known
      BY KnownInBase, ComputeKnown
    <3>4. ASSUME NEW f \in Table(c, t + 1), f[2] # fin, f[2] = here
          PROVE  f[1] \in {here, OnEvent(TaskDone)} /\ <<here, f[2]>> \in C.known
      BY <1>2, <3>3, <3>4, TableAt
    <3> HIDE DEF C
    <3>5. \A f \in Table(c, t + 1) :
            \/ f[2] \in {fin}
            \/ f[2] \notin {fin, here} \cup {here}
            \/ f[1] \in {here, OnEvent(TaskDone)} /\ <<here, f[2]>> \in C.known
      BY <3>4
    <3>6. \A f \in {<<OnCompute, fin>>} : f \in C.known /\ f[2] # here
      BY <1>n, <3>3
    <3>7. Leads(c, C, <<Record("consumer", {TaskDone}, {})>>, D)
      BY <3>2, <3>5, <3>6, MarkLeads DEF C
    <3> QED BY <3>1, <3>7
  <2>2. CASE ~Measured(c)
    <3>1. done = <<>>
      BY <2>2
    <3>2. \A f \in Table(c, t + 1) : f[2] \notin {fin} => f[2] \notin {fin, here} \/ f \in {<<OnCompute, fin>>}
      BY <1>2, <2>2, TableAt
    <3>3. Above(C, D)
      BY <3>2, BaseAbove
    <3> QED BY <3>1, <3>3, LeadsNowhere
  <2> QED BY <2>1, <2>2
<1>8. Leads(c, D, ReleaseQ(c, "compute"), Base(c, t + 1, {}, {}, {}))
  <2> DEFINE X2 == {fin} \ {Q}
             K2 == {f \in {<<OnCompute, fin>>} : fin # Q}
             E == Base(c, t + 1, X2, K2, {})
  <2>1. "compute" = PlaceOf(c, QFree)
    BY <1>3, EventPlaces
  <2>2. OnCompute \notin {fin} /\ \A f \in K2 : f[2] # OnCompute
    BY <1>n
  <2>3. Q \in {fin} => <<OnCompute, Q>> \in D.known
    BY KnownInBase
  <2>4. {fin} \ {Q} \subseteq X2 /\ K2 \subseteq {<<OnCompute, fin>>}
    OBVIOUS
  <2> HIDE DEF X2, K2
  <2>5. Leads(c, D, ReleaseQ(c, "compute"), E)
    BY <2>1, <2>2, <2>3, <2>4, ReleaseQLeads DEF OnCompute
  <2>6. \A f \in Table(c, t + 1) : f[2] \notin X2 \/ f \in K2
    <3> SUFFICES ASSUME NEW f \in Table(c, t + 1), f[2] = fin, fin # Q PROVE f = <<OnCompute, fin>>
      BY DEF X2, K2
    <3>1. fin = Output(OutputIndex(t))
      BY <1>4
    <3> QED BY <3>1, TableAt DEF OutCarrier
  <2>7. Above(E, Base(c, t + 1, {}, {}, {}))
    BY <2>6, BaseAbove
  <2> HIDE DEF E, D
  <2> QED BY <2>5, <2>7, LeadsWeaker DEF Above
<1>9. A = Ended(c, t, fin)
  BY DEF Ended
<1> HIDE DEF A, B, C, D, x, y, done
<1>10. Leads(c, A, <<x>> \o <<y>>, C)
  BY <1>5, <1>6, LeadsOn
<1>11. Leads(c, A, <<x>> \o <<y>> \o done, D)
  BY <1>7, <1>10, LeadsOn
<1>12. Leads(c, A, <<x>> \o <<y>> \o done \o ReleaseQ(c, "compute"), Base(c, t + 1, {}, {}, {}))
  BY <1>8, <1>11, LeadsOn
<1> QED BY <1>1, <1>9, <1>12 DEF fin

\* What is copied to the host.
Result(c, t) == IF c.kind = "transform" THEN Transformed(c, t) ELSE Final(c, t)

\* The output transform passes the answer on.
LEMMA TransformLeads ==
  ASSUME NEW c, ValidCall(c), ~Consumed(c), NEW t \in 1 .. NumTasks
  PROVE  Leads(c, Ended(c, t, Final(c, t)), Transform(c, t), Ended(c, t, Result(c, t)))
<1> DEFINE fin == Final(c, t)
           to == Transformed(c, t)
           ans == Answer(c.id, t)
           XA == {OnH2d, fin}
           KA == {<<OnCompute, fin>>, <<H2dAfter(c), OnH2d>>}
           HA == {<<fin, ans>>}
           A == Base(c, t, XA, KA, HA)
           XB == {OnH2d, fin, to}
           KB == {<<OnCompute, fin>>, <<OnCompute, to>>, <<H2dAfter(c), OnH2d>>}
           HB == {<<to, ans>>}
           B == Base(c, t, XB, KB, HB)
           XC == {OnH2d, to}
           KC == {<<OnCompute, to>>, <<H2dAfter(c), OnH2d>>}
           C == Base(c, t, XC, KC, HB)
           x == Step("compute", {}, {}, Copy(fin, to), {}, {})
           release == IF ReusesQ(c) THEN ReleaseQ(c, "compute") ELSE <<>>
<1>1. CASE c.kind # "transform"
  <2>1. Transform(c, t) = <<>> /\ Result(c, t) = fin
    BY <1>1 DEF Transform, Result
  <2>2. Above(Ended(c, t, fin), Ended(c, t, fin))
    BY DEF Above
  <2> HIDE DEF fin
  <2>3. Leads(c, Ended(c, t, fin), <<>>, Ended(c, t, fin))
    BY <2>2, LeadsNowhere
  <2> QED BY <2>1, <2>3 DEF fin
<1>2. CASE c.kind = "transform"
  <2>1. Transform(c, t) = <<x>> \o release /\ Result(c, t) = to
    BY <1>2 DEF Transform, Result
  <2>2. fin = IF ReusesQ(c) THEN Q ELSE Output(OutputIndex(t))
    BY DEF Final
  <2>n. /\ fin \notin {OnH2d, OnCompute, to} /\ to \notin {OnH2d, OnCompute, Q} /\ OnH2d # OnCompute
        /\ fin[1] # "stream" /\ to[1] \notin {"stream", "q", "kv"}
    BY <2>2, BufferNames
  <2>3. \A f \in Table(c, t) : f[2] = to => f = <<OnCompute, to>>
    BY TableAt
  <2>4. <<OnCompute, to>> \in Table(c, t)
    <3>1. t \in t .. NumTasks
      BY ProgramAssumption
    <3> QED BY <3>1, TableHas
  <2> HIDE DEF fin, to
  <2>5. Leads(c, A, <<x>>, B)
    <3>1. <<OnCompute, fin>> \in A.known /\ <<H2dAfter(c), OnH2d>> \in A.known
      BY KnownInBase
    <3>2. <<OnCompute, to>> \in A.known
      <4>1. <<OnCompute, to>>[2] \notin {OnH2d, fin}
        BY <2>n
      <4> QED BY <2>4, <4>1, KnownInBase
    <3>3. \A f \in Table(c, t) : \/ f[2] \in XB
                                 \/ f[2] \notin XA \cup {OnCompute, fin, to}
                                 \/ f[1] = OnCompute /\ f[2] \in {OnCompute, fin, to}
      BY ComputeRow
    <3>4. \A f \in KB : \/ f \in A.known /\ f[2] \notin {OnCompute, fin, to}
                        \/ f = <<OnCompute, fin>> \/ f = <<OnCompute, to>>
      BY <2>n, <3>1
    <3>5. <<fin, ans>> \in HA
      OBVIOUS
    <3>6. {} \subseteq FreeEvents /\ \A e \in {} : PlaceOf(c, e) = "compute" /\ e \notin FreeEvents
      OBVIOUS
    <3>7. A = Base(c, t, XA, KA, HA)
      OBVIOUS
    <3>8. fin[1] # "stream" /\ to[1] # "stream" /\ to[1] \notin {"q", "kv"}
      BY <2>n
    <3> HIDE DEF A, XA, KA, HA, XB, KB, ans
    <3> QED BY <3>1, <3>2, <3>3, <3>4, <3>5, <3>6, <3>7, <3>8, CopyLeads
  <2>6. Leads(c, B, release, C)
    <3>1. CASE ReusesQ(c)
      <4>1. "compute" = PlaceOf(c, QFree)
        BY <1>2, EventPlaces
      <4>2. fin = Q
        BY <2>2, <3>1
      <4>3. <<OnCompute, Q>> \in B.known
        BY <4>2, KnownInBase
      <4>4. OnCompute \notin XB /\ \A f \in KC : f[2] # OnCompute
        BY <2>n
      <4>5. XB \ {Q} \subseteq XC /\ KC \subseteq KB
        BY <4>2
      <4>6. release = ReleaseQ(c, "compute")
        BY <3>1
      <4> HIDE DEF KB, KC, XB, XC, HB
      <4> QED BY <4>1, <4>3, <4>4, <4>5, <4>6, ReleaseQLeads DEF OnCompute
    <3>2. CASE ~ReusesQ(c)
      <4>1. \A f \in Table(c, t) : f[2] = fin => f = <<OnCompute, fin>>
        <5>1. fin = Output(OutputIndex(t)) /\ OutCarrier(c, OutputIndex(t)) = OnCompute
          BY <1>2, <2>2, <3>2 DEF OutCarrier
        <5> QED BY <5>1, TableAt
      <4>2. \A f \in Table(c, t) : f[2] \notin XC => f[2] \notin XB \/ f \in KB
        BY <4>1
      <4>3. KC \subseteq KB
        OBVIOUS
      <4>4. release = <<>>
        BY <3>2
      <4> HIDE DEF KB, KC, XB, XC, HB
      <4>5. Above(B, C)
        BY <4>2, <4>3, BaseAbove
      <4> HIDE DEF B, C
      <4> QED BY <4>4, <4>5, LeadsNowhere
    <3> QED BY <3>1, <3>2
  <2>7. A = Ended(c, t, fin) /\ C = Ended(c, t, to)
    BY DEF Ended
  <2> HIDE DEF A, B, C, x, release
  <2>8. Leads(c, A, <<x>> \o release, C)
    BY <2>5, <2>6, LeadsOn
  <2> QED BY <2>1, <2>7, <2>8 DEF fin
<1> QED BY <1>1, <1>2

\* The answer is copied to the host.
LEMMA CopyOutLeads ==
  ASSUME NEW c, ValidCall(c), ~Consumed(c), NEW t \in 1 .. TaskCount(c), t \in 1 .. NumTasks
  PROVE  Leads(c, Ended(c, t, Final(c, t)), CopyOut(c, t), Base(c, t + 1, {}, {}, {}))
<1> DEFINE o == OutputIndex(t)
           r == Result(c, t)
           ans == Answer(c.id, t)
           KA == {<<OnCompute, r>>, <<H2dAfter(c), OnH2d>>}
           HA == {<<r, ans>>}
           X == {OnH2d, r}
           A == Base(c, t, X, KA, HA)
           KB == {<<OnEvent(OutputReady(o)), r>>, <<H2dAfter(c), OnH2d>>}
           B == Base(c, t, X, KB, HA)
           here == OnStream("d2h")
           XC == {r} \cap {Q}
           KC == {f \in {<<here, Q>>} : r = Q}
           C == Base(c, t + 1, XC, KC, {})
           D == Base(c, t + 1, {}, {}, {})
           records == {OutputFree(o)} \cup (IF Measured(c) THEN {TaskDone} ELSE {})
           x == Record("compute", {OutputReady(o)}, {})
           y == Step("d2h", {}, {OutputReady(o)}, Store(r, c, t), records, {OutputFree(o)})
           release == IF ReusesQ(c) /\ r = Q THEN ReleaseQ(c, "d2h") ELSE <<>>
<1>1. CopyOut(c, t) = Transform(c, t) \o <<x, y>> \o release
  BY DEF CopyOut, Result
<1>2. o \in OutputBuffers /\ t \in Nat \ {0} /\ OutputStream(c) = "d2h"
  BY RingFacts DEF OutputStream
<1>3. /\ c.mode \in {"host", "device_consumer"} /\ (ReusesQ(c) <=> c.mode # "host") /\ FromHost(c)
      /\ (Measured(c) => c.mode = "host")
  BY KindFacts
<1>4. r = IF c.kind = "transform" THEN Transformed(c, t) ELSE IF ReusesQ(c) THEN Q ELSE Output(o)
  BY DEF Final, Result
<1>n. /\ r \notin {OnH2d, OnCompute, here} /\ OnH2d # OnCompute /\ OnH2d # here /\ OnCompute # here /\ here # Q
      /\ r[1] # "stream" /\ Q \notin {OnH2d, OnCompute}
  BY <1>4, BufferNames
<1> HIDE DEF r, o
<1>5. Leads(c, A, <<x>>, B)
  <2>1. "compute" \in CallStreams(c) /\ "compute" = PlaceOf(c, OutputReady(o)) /\ OutputReady(o) \notin FreeEvents
    BY EventPlaces DEF CallStreams
  <2>2. <<OnCompute, r>> \in A.known /\ <<H2dAfter(c), OnH2d>> \in A.known /\ <<OnCompute, OnCompute>> \in A.known
    BY KnownInBase, ComputeKnown
  <2>3. ASSUME NEW f \in KB
        PROVE  \/ f \in A.known /\ f[2] # OnCompute
               \/ f = <<f[1], f[2]>> /\ f[1] \in {OnCompute, OnEvent(OutputReady(o))} /\ <<OnCompute, f[2]>> \in A.known
    BY <1>n, <2>2
  <2>4. ASSUME NEW f \in Table(c, t)
        PROVE  \/ f[2] \in X \/ f[2] \notin X \cup {OnCompute}
               \/ f[1] \in {OnCompute, OnEvent(OutputReady(o))} /\ <<OnCompute, f[2]>> \in A.known
    BY <2>2, ComputeRow
  <2>5. A = Base(c, t, X, KA, HA)
    OBVIOUS
  <2> HIDE DEF A, X, KA, HA, KB
  <2> QED BY <2>1, <2>3, <2>4, <2>5, MarkLeads DEF OnCompute
<1>6. Leads(c, B, <<y>>, C)
  <2>1. <<OnEvent(OutputReady(o)), r>> \in B.known /\ <<H2dAfter(c), OnH2d>> \in B.known
    BY KnownInBase
  <2>2. records \cap FreeEvents \subseteq {OutputFree(o)}
    BY EventPlaces
  <2>3. \A e \in records : PlaceOf(c, e) = OutputStream(c)
    BY <1>2, <1>3, EventPlaces
  <2>4. ASSUME NEW f \in Table(c, t + 1), f[2] \notin XC
        PROVE  \/ f \in Table(c, t) /\ f[2] \notin X \cup {here, r}
               \/ f \in B.known /\ f[2] \notin {here, r}
               \/ f[1] \in {here} \cup OnEvents(records) /\ f[2] \in {here, r}
    <3>1. CASE f[2] = OnH2d
      <4>1. f = <<H2dAfter(c), OnH2d>>
        BY <1>2, <3>1, TableNext
      <4> QED BY <1>n, <2>1, <4>1
    <3>2. CASE f[2] = here
      <4>1. Measured(c) /\ f = <<OnEvent(TaskDone), here>>
        BY <1>2, <3>2, TableAt
      <4>2. OnEvent(TaskDone) \in OnEvents(records)
        BY <4>1 DEF OnEvents
      <4> HIDE DEF here
      <4> QED BY <4>1, <4>2
    <3>3. CASE f[2] = r
      <4>1. r # Q
        BY <2>4, <3>3
      <4>2. c.kind # "transform"
        BY <1>2, <1>4, <3>3, TableNext
      <4>3. r = Output(o)
        BY <1>4, <4>1, <4>2
      <4>4. f = <<OnEvent(OutputFree(o)), r>>
        BY <3>3, <4>2, <4>3, TableAt DEF OutCarrier
      <4>5. OnEvent(OutputFree(o)) \in OnEvents(records)
        BY DEF OnEvents
      <4> HIDE DEF records
      <4> QED BY <3>3, <4>4, <4>5
    <3>4. CASE f[2] \notin {OnH2d, here, r}
      <4>1. f \in Table(c, t)
        BY <1>2, <3>4, TableNext
      <4> QED BY <3>4, <4>1
    <3> QED BY <3>1, <3>2, <3>3, <3>4
  <2>5. ASSUME NEW f \in KC
        PROVE  f = <<f[1], f[2]>> /\ f[1] \in {here} \cup OnEvents(records) /\ f[2] \in {here, r}
    OBVIOUS
  <2> DEFINE HB == HA
  <2>6. B = Base(c, t, X, KB, HB) /\ <<r, Answer(c.id, t)>> \in HB
    BY <1>n
  <2> HIDE DEF B, X, KB, HA, HB, XC, KC, records, ans
  <2>7. \A f \in Table(c, t + 1) :
           \/ f[2] \in XC
           \/ f \in Table(c, t) /\ f[2] \notin X \cup {here, r}
           \/ f \in B.known /\ f[2] \notin {here, r}
           \/ f[1] \in {here} \cup OnEvents(records) /\ f[2] \in {here, r}
    BY <2>4
  <2>8. t \in Nat /\ OutputStream(c) = "d2h"
    BY <1>2
  <2>9. <<OnEvent(OutputReady(o)), r>> \in B.known /\ r[1] # "stream" /\ <<r, Answer(c.id, t)>> \in HB
    BY <1>n, <2>1, <2>6
  <2>10. \A f \in KC : \/ f \in B.known /\ f[2] \notin {here, r}
                       \/ /\ f = <<f[1], f[2]>>
                          /\ f[1] \in {here} \cup OnEvents(records)
                          /\ f[2] \in {here, r}
    BY <2>5
  <2>11. here = OnStream(OutputStream(c))
    BY <2>8
  <2>12. B = Base(c, t, X, KB, HB)
    BY <2>6
  <2> DEFINE flags == {OutputFree(o)}
  <2>13. records \cap FreeEvents \subseteq flags
    BY <2>2
  <2> HIDE DEF here, flags
  <2>14. Leads(c, B, <<Step(OutputStream(c), {}, {OutputReady(o)}, Store(r, c, t), records, flags)>>, C)
    BY <2>3, <2>7, <2>8, <2>9, <2>10, <2>11, <2>12, <2>13, StoreLeads
  <2>15. y = Step(OutputStream(c), {}, {OutputReady(o)}, Store(r, c, t), records, flags)
    BY <2>8 DEF flags
  <2> QED BY <2>14, <2>15
<1>7. Leads(c, C, release, D)
  <2>1. CASE r = Q
    <3>1. c.kind # "transform" /\ ReusesQ(c)
      BY <1>4, <2>1, BufferNames
    <3>2. c.mode # "host" /\ ~Measured(c) /\ c.kind = "view"
      BY <1>3, <3>1 DEF ReusesQ, Transforms
    <3>3. "d2h" = PlaceOf(c, QFree)
      BY <3>2, EventPlaces
    <3>4. here \notin XC /\ <<here, Q>> \in C.known
      <4>1. <<here, Q>> \in KC
        BY <2>1
      <4> QED BY <1>n, <4>1, KnownInBase
    <3>5. XC \ {Q} \subseteq {} /\ {} \subseteq KC /\ release = ReleaseQ(c, "d2h")
      BY <2>1, <3>1
    <3> HIDE DEF XC, KC
    <3>6. \A f \in {} : f[2] # here
      OBVIOUS
    <3>7. C = Base(c, t + 1, XC, KC, {}) /\ D = Base(c, t + 1, {}, {}, {})
      OBVIOUS
    <3> DEFINE s == "d2h"
               K0 == {}
               X0 == {}
    <3>8. s \in {"compute", "d2h"} /\ s = PlaceOf(c, QFree) /\ FromHost(c) /\ OutputStream(c) = "d2h" /\ ~Measured(c)
      BY <1>2, <1>3, <3>2, <3>3
    <3>9. OnStream(s) \notin XC /\ <<OnStream(s), Q>> \in Base(c, t + 1, XC, KC, {}).known
      BY <3>4
    <3>10. XC \ {Q} \subseteq X0 /\ K0 \subseteq KC /\ \A f \in K0 : f[2] # OnStream(s)
      BY <3>5
    <3> HIDE DEF s, K0, X0
    <3>11. Leads(c, Base(c, t + 1, XC, KC, {}), ReleaseQ(c, s), Base(c, t + 1, X0, K0, {}))
      BY <3>8, <3>9, <3>10, ReleaseQLeads
    <3> QED BY <3>5, <3>11 DEF s, K0, X0
  <2>2. CASE r # Q
    <3>1. release = <<>> /\ XC = {} /\ KC = {}
      BY <2>2
    <3> HIDE DEF release, XC, KC
    <3>2. Above(C, D)
      BY <3>1 DEF Above
    <3> HIDE DEF C, D
    <3> QED BY <3>1, <3>2, LeadsNowhere
  <2> QED BY <2>1, <2>2
<1>8. A = Ended(c, t, r)
  BY DEF Ended
<1>9. Leads(c, Ended(c, t, Final(c, t)), Transform(c, t), A)
  <2>1. Leads(c, Ended(c, t, Final(c, t)), Transform(c, t), Ended(c, t, Result(c, t)))
    BY TransformLeads
  <2> HIDE DEF A
  <2> QED BY <1>8, <2>1 DEF r
<1>10. <<x, y>> = <<x>> \o <<y>>
  OBVIOUS
<1> DEFINE start == Ended(c, t, Final(c, t))
           transform == Transform(c, t)
<1> HIDE DEF A, B, C, D, x, y, release, start, transform
<1>11. Leads(c, A, <<x>> \o <<y>>, C)
  BY <1>5, <1>6, LeadsOn
<1>12. Leads(c, start, transform \o (<<x>> \o <<y>>), C)
  BY <1>9, <1>11, LeadsOn DEF start, transform
<1>13. Leads(c, start, transform \o (<<x>> \o <<y>>) \o release, D)
  BY <1>7, <1>12, LeadsOn
<1> QED BY <1>1, <1>10, <1>13 DEF start, transform, D

\* A task.
LEMMA RunTaskLeads ==
  ASSUME NEW c, ValidCall(c), NEW t \in 1 .. TaskCount(c), t \in 1 .. NumTasks
  PROVE  Leads(c, Base(c, t, {}, {}, {}), RunTask(c, t), Base(c, t + 1, {}, {}, {}))
<1> DEFINE A == Base(c, t, {}, {}, {})
           B == Scanning(c, t, 0)
           C == Scanned(c, t)
           D == Ended(c, t, Final(c, t))
           E == Base(c, t + 1, {}, {}, {})
           output == IF Consumed(c) THEN Consume(c, t) ELSE CopyOut(c, t)
           load == LoadQ(c, t)
           scan == Scan(c, t)
           final == Finalize(c, t)
<1>1. Leads(c, A, load, B)
  BY LoadQLeads
<1>2. Leads(c, B, scan, C)
  BY ScanLeads
<1>3. Leads(c, C, final, D)
  BY FinalizeLeads
<1>4. Leads(c, D, output, E)
  <2>1. CASE Consumed(c)
    BY <2>1, ConsumeLeads
  <2>2. CASE ~Consumed(c)
    BY <2>2, CopyOutLeads
  <2> QED BY <2>1, <2>2
<1>5. RunTask(c, t) = load \o scan \o final \o output
  BY DEF RunTask
<1> HIDE DEF A, B, C, D, E, load, scan, final, output
<1>6. Leads(c, A, load \o scan, C)
  BY <1>1, <1>2, LeadsOn
<1>7. Leads(c, A, load \o scan \o final, D)
  BY <1>3, <1>6, LeadsOn
<1>8. Leads(c, A, load \o scan \o final \o output, E)
  BY <1>4, <1>7, LeadsOn
<1> QED BY <1>5, <1>8 DEF A, E

\* What is known when a call was issued.
Closing(c, F) ==
  /\ 1 .. TaskCount(c) \subseteq F.stored
  /\ \A s \in Streams \ {OutputStream(c)} :
       s # "h2d" \/ ~Measured(c) => <<OnEvent(PipelineEnd), OnStream(s)>> \in F.known
  /\ Measured(c) => /\ <<OnEvent(H2dEnd), OnH2d>> \in F.known
                    /\ <<OnEvent(TaskDone), OnStream(OutputStream(c))>> \in F.known

\* Before the first task everything is known.
LEMMA StartAbove ==
  ASSUME NEW c, ValidCall(c)
  PROVE  Above(Start(c), Base(c, 1, {}, {}, {}))
<1> DEFINE B == Base(c, 1, {}, {}, {})
<1>1. c \in Calls
  BY DEF ValidCall
<1>2. \A s \in Streams : OnStream(s) \in Carriers /\ OnStream(s) \in Things(c)
  BY DEF Carriers, Things, OnStream
<1>3. \A e \in Events : OnEvent(e) \in Carriers
  BY DEF Carriers, OnEvent
<1>4. \A b \in Buffers({c.id}) : b \in Things(c)
  BY DEF Things
<1>5. OnCompute \in Carriers /\ OnH2d \in Things(c)
  BY <1>2, StreamFacts DEF OnCompute, OnH2d
<1>6. Table(c, 1) \subseteq Carriers \X Things(c)
  <2>1. QCarrier(c) \in Carriers /\ H2dBefore(c, 1) \in Carriers
    BY <1>3, <1>5, EventFacts DEF QCarrier, H2dBefore
  <2>2. \A b \in KvBuffers : KvCarrier(c, b) \in Carriers
    BY <1>3, <1>5, EventFacts DEF KvCarrier
  <2>3. \A o \in OutputBuffers : OutCarrier(c, o) \in Carriers
    BY <1>3, <1>5, EventFacts DEF OutCarrier
  <2>4. \A w \in Stagings : OnEvent(HiddenFree(w)) \in Carriers
    BY <1>3, EventFacts
  <2>5. \A s \in ConsumerBuffers : OnEvent(ConsumerFree(s)) \in Carriers
    BY <1>3, EventFacts
  <2>6. /\ {Q, Accumulator} \subseteq Things(c)
        /\ \A b \in KvBuffers : Kv(b) \in Things(c)
        /\ \A o \in OutputBuffers : Output(o) \in Things(c)
        /\ \A w \in Stagings : Hidden(w) \in Things(c)
        /\ \A s \in ConsumerBuffers : ConsumerOutput(s) \in Things(c)
        /\ \A u \in 1 .. NumTasks : Transformed(c, u) \in Things(c)
    BY <1>1, <1>4, BufferFacts
  <2> HIDE DEF B
  <2> QED BY <1>2, <1>5, <2>1, <2>2, <2>3, <2>4, <2>5, <2>6 DEF Table
<1>7. Start(c).known = Carriers \X Things(c)
  BY DEF Start
<1>8. B.known = {<<OnStream(s), OnStream(s)>> : s \in Streams} \cup {f \in Table(c, 1) : f[2] \notin {}} \cup {}
  BY DEF Base
<1>9. B.holds = {} /\ B.stored = {}
  BY DEF Base
<1> HIDE DEF B
<1>10. B.known \subseteq Start(c).known
  BY <1>2, <1>6, <1>7, <1>8
<1> QED BY <1>9, <1>10 DEF Above, B

\* A call has a task at least.
LEMMA TaskRange ==
  ASSUME NEW c
  PROVE  TaskCount(c) \in Nat \ {0} /\ \A t \in 1 .. TaskCount(c) : t \in 1 .. NumTasks
BY ProgramAssumption DEF TaskCount

\* The program of a call has no race, and stores the answer of each task.
LEMMA ProgramAnalysed ==
  ASSUME NEW c, ValidCall(c)
  PROVE  /\ IsSequence(Program(c))
         /\ \E h : /\ Checked(c, Program(c), h) /\ h[0] = Start(c)
                   /\ Closing(c, h[Len(Program(c))])
<1> DEFINE n == TaskCount(c)
           seqs == [t \in 1 .. n |-> RunTask(c, t)]
           I == [t \in 1 .. n + 1 |-> Base(c, t, {}, {}, {})]
           last == <<Record("compute", {PipelineEnd}, {})>>
           A == Base(c, n + 1, {}, {}, {})
           K == {<<OnEvent(PipelineEnd), OnStream(s)>> :
                   s \in {r \in Streams \ {OutputStream(c)} : r # "h2d" \/ ~Measured(c)}}
           B == Base(c, n + 1, {OnCompute}, K, {})
<1>1. n \in Nat \ {0}
  BY TaskRange
<1>2. Program(c) = FlattenSeq(seqs) \o last
  BY DEF Program
<1>3. Leads(c, I[1], FlattenSeq(seqs), I[n + 1])
  <2>1. Len(seqs) = n
    BY <1>1
  <2>2. \A t \in 1 .. n : Leads(c, I[t], seqs[t], I[t + 1])
    <3> SUFFICES ASSUME NEW t \in 1 .. n PROVE Leads(c, I[t], seqs[t], I[t + 1])
      OBVIOUS
    <3>1. t \in 1 .. n + 1 /\ t + 1 \in 1 .. n + 1
      BY <1>1
    <3>2. Leads(c, Base(c, t, {}, {}, {}), RunTask(c, t), Base(c, t + 1, {}, {}, {}))
      BY TaskRange, RunTaskLeads
    <3> QED BY <3>1, <3>2
  <2> HIDE DEF seqs, I, n
  <2> QED BY <1>1, <2>1, <2>2, LeadsThrough
<1>4. I[1] = Base(c, 1, {}, {}, {}) /\ I[n + 1] = A
  <2>1. 1 \in 1 .. n + 1 /\ n + 1 \in 1 .. n + 1
    BY <1>1
  <2> QED BY <2>1
<1>5. Leads(c, A, last, B)
  <2>1. "compute" \in CallStreams(c) /\ "compute" = PlaceOf(c, PipelineEnd) /\ PipelineEnd \notin FreeEvents
    BY EventPlaces DEF CallStreams
  <2>2. ASSUME NEW s \in Streams \ {OutputStream(c)}, s # "h2d" \/ ~Measured(c)
        PROVE  <<OnCompute, OnStream(s)>> \in A.known
    <3>1. CASE s # "h2d"
      <4>1. <<OnCompute, OnStream(s)>> \in Table(c, n + 1)
        BY <2>2, <3>1, TableHas
      <4> QED BY <4>1, KnownInBase
    <3>2. CASE s = "h2d"
      <4>1. H2dBefore(c, n + 1) = OnCompute
        BY <2>2, <3>2 DEF H2dBefore, H2dAfter
      <4>2. <<OnCompute, OnH2d>> \in Table(c, n + 1)
        BY <4>1, TableHas
      <4> QED BY <3>2, <4>2, KnownInBase DEF OnH2d
    <3> QED BY <3>1, <3>2
  <2> HIDE DEF A
  <2>3. ASSUME NEW f \in K
        PROVE  /\ f = <<f[1], f[2]>> /\ f[1] \in {OnCompute, OnEvent(PipelineEnd)}
               /\ <<OnCompute, f[2]>> \in A.known
    <3>1. PICK s \in {r \in Streams \ {OutputStream(c)} : r # "h2d" \/ ~Measured(c)} :
                 f = <<OnEvent(PipelineEnd), OnStream(s)>>
      BY <2>3
    <3>2. <<OnCompute, OnStream(s)>> \in A.known
      BY <2>2, <3>1
    <3> QED BY <3>1, <3>2
  <2>4. \A f \in Table(c, n + 1) : f[2] \in {OnCompute} \/ f[2] \notin {} \cup {OnCompute}
    OBVIOUS
  <2>5. A = Base(c, n + 1, {}, {}, {})
    BY DEF A
  <2> HIDE DEF K, n
  <2> QED BY <2>1, <2>3, <2>4, <2>5, MarkLeads DEF OnCompute
<1>6. Leads(c, Start(c), Program(c), B)
  <2> HIDE DEF seqs, last, A, B, I, n
  <2>1. Leads(c, I[1], FlattenSeq(seqs) \o last, B)
    BY <1>3, <1>4, <1>5, LeadsOn
  <2>2. Above(Start(c), I[1])
    BY <1>4, StartAbove
  <2> QED BY <1>2, <2>1, <2>2, LeadsWeaker DEF Above
<1>7. Closing(c, B)
  <2>1. B.stored = 1 .. n
    BY <1>1 DEF Base
  <2>2. \A f \in K : f \in B.known
    BY KnownInBase
  <2>3. Measured(c) => /\ <<OnEvent(H2dEnd), OnH2d>> \in B.known
                       /\ <<OnEvent(TaskDone), OnStream(OutputStream(c))>> \in B.known
    <3> SUFFICES ASSUME Measured(c)
                 PROVE  /\ <<OnEvent(H2dEnd), OnH2d>> \in B.known
                        /\ <<OnEvent(TaskDone), OnStream(OutputStream(c))>> \in B.known
      OBVIOUS
    <3>0. n + 1 # 1
      BY <1>1
    <3>1. <<OnEvent(H2dEnd), OnH2d>> \in Table(c, n + 1)
      <4>1. H2dBefore(c, n + 1) = OnEvent(H2dEnd)
        BY <3>0 DEF H2dBefore, H2dAfter
      <4> QED BY <4>1, TableHas
    <3>2. <<OnEvent(TaskDone), OnStream(OutputStream(c))>> \in Table(c, n + 1)
      BY <3>0 DEF Table
    <3>3. OnH2d \notin {OnCompute} /\ OnStream(OutputStream(c)) \notin {OnCompute}
      <4>1. OutputStream(c) # "compute"
        BY DEF OutputStream
      <4> QED BY <4>1, BufferNames
    <3> HIDE DEF n
    <3> QED BY <3>1, <3>2, <3>3, KnownInBase
  <2> HIDE DEF B
  <2> QED BY <2>1, <2>2, <2>3 DEF Closing
<1>8. IsSequence(Program(c))
  BY <1>6 DEF Leads
<1>9. PICK h : Checked(c, Program(c), h) /\ h[0] = Start(c) /\ Above(h[Len(Program(c))], B)
  <2>1. Above(Start(c), Start(c))
    BY DEF Above
  <2> HIDE DEF B
  <2> QED BY <1>6, <2>1 DEF Leads
<1> HIDE DEF B
<1>10. Closing(c, h[Len(Program(c))])
  BY <1>7, <1>9 DEF Closing, Above
<1> QED BY <1>8, <1>9, <1>10

\* A call's program has no race (run_query_tasks over its tile sources): in every
\* order the streams and events allow, an access to a buffer is performed after
\* all accesses to it that were issued before.  A D is what was performed so far.
THEOREM ProgramsHaveNoRace ==
  ASSUME NEW c, ValidCall(c), NEW i \in 1 .. Len(Program(c)), NEW j \in 1 .. Len(Program(c)), i < j,
         Touches(Program(c)[i]) \cap Touches(Program(c)[j]) # {},
         NEW D, Closed(Program(c), D), j \in D
  PROVE  i \in D
<1> DEFINE p == Program(c)
<1>1. PICK h : Checked(c, p, h) /\ h[0] = Start(c)
  BY ProgramAnalysed
<1>2. Len(p) \in Nat
  <2>1. p \in Seq(Steps(c))
    BY ProgramWhole DEF ValidCall, Whole
  <2> QED BY <2>1
<1>3. PICK b : b \in Touches(p[i]) /\ b \in Touches(p[j])
  OBVIOUS
<1> HIDE DEF p
<1>4. i \in 1 .. Len(p) /\ j \in 1 .. Len(p) /\ Closed(p, D)
  BY DEF p
<1> QED BY <1>1, <1>2, <1>3, <1>4, AccessesInOrder

-----------------------------------------------------------------------------
(* The device while a call is made: which steps of its program p are pending, *)
(* and where.                                                                *)

Places(c) == [e \in Events |-> PlaceOf(c, e)]

\* The first K steps of p were enqueued, those in U are pending, at `at` in
\* the queue of their stream.
Placed(p, dev, K, U, at) ==
  /\ K \in 0 .. Len(p) /\ U \subseteq 1 .. K
  /\ \A k \in U : /\ at[k] \in 1 .. Len(dev.queue[p[k].stream])
                  /\ dev.queue[p[k].stream][at[k]].work = p[k].work
  /\ \A k \in U : \A l \in k + 1 .. K : p[l].stream = p[k].stream => l \in U /\ at[k] < at[l]

Owned(p, U, at, s, i) == \E k \in U : p[k].stream = s /\ at[k] = i

\* The other operations are in front of all of the call.
Fronted(c, p, dev, K, U, at) ==
  \A s \in Streams : \A i \in 1 .. Len(dev.queue[s]) :
    \/ Owned(p, U, at, s, i)
    \/ /\ c.mode = "host"
       /\ \A k \in 1 .. K : p[k].stream = s => k \in U /\ i < at[k]
       /\ dev.queue[s][i].work.op = "store" => dev.queue[s][i].work.id # c.id

\* A step waits for the records of those before it that are pending.
Waited(p, dev, U, at) ==
  \A k \in U : \A l \in U : k < l =>
    \A e \in p[k].records \cap (p[l].waits \cup p[l].guards) :
      \E r \in dev.queue[p[k].stream][at[k]].records : \E n \in dev.queue[p[l].stream][at[l]].needs :
        r[1] = e /\ n[1] = e /\ r[2] <= n[2]

Recorded(p, dev, U, at) ==
  \A k \in U : \A e \in p[k].records : \E r \in dev.queue[p[k].stream][at[k]].records : r[1] = e

Tracked(c, p, dev, K, U, at) ==
  /\ Placed(p, dev, K, U, at)
  /\ Fronted(c, p, dev, K, U, at)
  /\ Waited(p, dev, U, at)
  /\ Closed(p, (1 .. K) \ U)

\* Each step of p is one of c.
StepsOf(c, p) == Len(p) \in Nat /\ \A k \in 1 .. Len(p) : p[k] \in Steps(c) /\ Tidy(c, p[k])

\* The types of a step.
LEMMA StepFacts ==
  ASSUME NEW c, NEW p, StepsOf(c, p), NEW k \in 1 .. Len(p)
  PROVE  /\ p[k].stream \in Streams /\ p[k].records \subseteq Events
         /\ p[k].waits \subseteq Events /\ p[k].guards \subseteq Events
         /\ p[k].work \in Works(c)
         /\ \A e \in p[k].records : p[k].stream = Places(c)[e]
<1>1. p[k] \in Steps(c) /\ Tidy(c, p[k])
  BY DEF StepsOf
<1> DEFINE x == p[k]
<1> HIDE DEF x
<1>2. x \in Steps(c) /\ Tidy(c, x)
  BY <1>1 DEF x
<1>3. x.stream \in Streams /\ x.records \subseteq Events /\ x.waits \subseteq Events /\ x.guards \subseteq Events
      /\ x.work \in Works(c)
  BY <1>2 DEF Steps
<1>4. \A e \in x.records : x.stream = Places(c)[e]
  BY <1>2, <1>3 DEF Tidy, Places
<1> QED BY <1>3, <1>4 DEF x

\* The types of a queue.
LEMMA DeviceFacts ==
  ASSUME NEW dev \in Devices
  PROVE  /\ \A s \in Streams : Len(dev.queue[s]) \in Nat
         /\ \A s \in Streams : \A i \in 1 .. Len(dev.queue[s]) :
              /\ dev.queue[s][i] \in Ops
              /\ \A r \in dev.queue[s][i].records : r[1] \in Events /\ r[2] \in Int
              /\ \A n \in dev.queue[s][i].needs : n[1] \in Events /\ n[2] \in Int
         /\ \A s \in Streams : dev.queue[s] # <<>> =>
              1 \in 1 .. Len(dev.queue[s]) /\ Head(dev.queue[s]) = dev.queue[s][1]
<1>1. \A s \in Streams : dev.queue[s] \in Seq(Ops)
  BY DEF Devices
<1>2. \A s \in Streams : \A i \in 1 .. Len(dev.queue[s]) : dev.queue[s][i] \in Ops
  BY <1>1
<1>3. \A op \in Ops : /\ \A r \in op.records : r[1] \in Events /\ r[2] \in Int
                      /\ \A n \in op.needs : n[1] \in Events /\ n[2] \in Int
  BY DEF Ops, Marks
<1> QED BY <1>1, <1>2, <1>3

\* The next step is enqueued.
LEMMA LaunchTracked ==
  ASSUME NEW c, NEW p, StepsOf(c, p), NEW dev \in Devices, NEW K, NEW U, NEW at,
         Tracked(c, p, dev, K, U, at), Recorded(p, dev, U, at), Counted(dev, Places(c)), K < Len(p),
         NEW waits, NEW records, NEW new,
         IsLaunched(new, dev, p[K + 1].stream, waits, p[K + 1].work, records),
         p[K + 1].waits \subseteq waits,
         \A k \in 1 .. K : p[k].records \cap p[K + 1].guards \subseteq waits
  PROVE  \E at2 : /\ Tracked(c, p, new, K + 1, U \cup {K + 1}, at2)
                  /\ records = p[K + 1].records => Recorded(p, new, U \cup {K + 1}, at2)
<1> DEFINE s == p[K + 1].stream
           n == Len(dev.queue[s]) + 1
           V == U \cup {K + 1}
           at2 == [k \in V |-> IF k = K + 1 THEN n ELSE at[k]]
<1>1. /\ K \in Nat /\ U \subseteq 1 .. K /\ K + 1 \in 1 .. Len(p) /\ K + 1 \notin U /\ Len(p) \in Nat
      /\ \A k \in 1 .. K : k \in 1 .. Len(p) /\ k # K + 1
  <2>1. K \in 0 .. Len(p) /\ U \subseteq 1 .. K /\ Len(p) \in Nat
    BY DEF Tracked, Placed, StepsOf
  <2>2. K < Len(p)
    OBVIOUS
  <2> DEFINE m == Len(p)
  <2> HIDE DEF m, s, n, V, at2
  <2>3. K \in Nat /\ K + 1 \in 1 .. m /\ m \in Nat /\ \A k \in 1 .. K : k \in 1 .. m /\ k # K + 1
    BY <2>1, <2>2 DEF m
  <2> QED BY <2>1, <2>3 DEF m
<1>2. /\ at2[K + 1] = n /\ \A k \in U : at2[k] = at[k] /\ k # K + 1
  BY <1>1
<1> HIDE DEF at2, s
<1>3. s \in Streams /\ n \in Nat /\ \A t \in Streams : Len(dev.queue[t]) \in Nat
  BY <1>1, StepFacts, DeviceFacts DEF s
<1>4. /\ \A t \in Streams : /\ Len(new.queue[t]) = Len(dev.queue[t]) + One(t, s)
                            /\ \A i \in 1 .. Len(dev.queue[t]) : new.queue[t][i] = dev.queue[t][i]
      /\ new.queue[s][n].work = p[K + 1].work
      /\ \A e \in waits : dev.unreached[e] > 0 => <<e, dev.unreached[e]>> \in new.queue[s][n].needs
      /\ new.queue[s][n].records = {<<e, dev.unreached[e] + 1>> : e \in records}
  BY DEF IsLaunched, s
<1>5. \A t \in Streams : One(t, s) \in {0, 1} /\ (One(t, s) = 1 <=> t = s)
  BY OneFacts
<1>6. Len(new.queue[s]) = n
  BY <1>3, <1>4, <1>5
<1> HIDE DEF n
\* A step that was pending.
<1>7. ASSUME NEW k \in U
      PROVE  /\ p[k].stream \in Streams /\ at[k] \in 1 .. Len(dev.queue[p[k].stream])
             /\ at[k] \in 1 .. Len(new.queue[p[k].stream])
             /\ new.queue[p[k].stream][at[k]] = dev.queue[p[k].stream][at[k]]
             /\ dev.queue[p[k].stream][at[k]].work = p[k].work
             /\ p[k].stream = s => at[k] < n
  <2>1. p[k].stream \in Streams
    BY <1>1, StepFacts
  <2>2. at[k] \in 1 .. Len(dev.queue[p[k].stream]) /\ dev.queue[p[k].stream][at[k]].work = p[k].work
    BY DEF Tracked, Placed
  <2>3. p[k].stream = s => at[k] < n
    BY <1>3, <2>1, <2>2 DEF n
  <2> DEFINE t == p[k].stream
             i == at[k]
  <2> HIDE DEF t, i
  <2>4. i \in 1 .. Len(new.queue[t]) /\ new.queue[t][i] = dev.queue[t][i]
    <3>1. t \in Streams /\ i \in 1 .. Len(dev.queue[t])
      BY <2>1, <2>2 DEF t, i
    <3>2. Len(dev.queue[t]) \in Nat /\ One(t, s) \in {0, 1} /\ Len(new.queue[t]) = Len(dev.queue[t]) + One(t, s)
          /\ new.queue[t][i] = dev.queue[t][i]
      BY <1>3, <1>4, <1>5, <3>1
    <3> QED BY <3>1, <3>2
  <2> QED BY <2>1, <2>2, <2>3, <2>4 DEF t, i
<1>8. Placed(p, new, K + 1, V, at2)
  <2>1. K + 1 \in 0 .. Len(p) /\ V \subseteq 1 .. K + 1
    BY <1>1
  <2>2. ASSUME NEW k \in V
        PROVE  /\ at2[k] \in 1 .. Len(new.queue[p[k].stream])
               /\ new.queue[p[k].stream][at2[k]].work = p[k].work
    <3>1. CASE k \in U
      BY <1>2, <1>7, <3>1
    <3>2. CASE k = K + 1
      <4>1. n \in 1 .. Len(new.queue[s])
        BY <1>3, <1>6 DEF n
      <4> QED BY <1>2, <1>4, <3>2, <4>1 DEF s
    <3> QED BY <3>1, <3>2
  <2>3. ASSUME NEW k \in V, NEW l \in k + 1 .. K + 1, p[l].stream = p[k].stream
        PROVE  l \in V /\ at2[k] < at2[l]
    <3>1. k \in U
      BY <1>1, <2>3
    <3>2. CASE l = K + 1
      BY <1>2, <1>7, <2>3, <3>1, <3>2 DEF s
    <3>3. CASE l # K + 1
      <4>1. l \in k + 1 .. K
        BY <1>1, <3>1, <3>3
      <4>2. l \in U /\ at[k] < at[l]
        BY <2>3, <3>1, <4>1 DEF Tracked, Placed
      <4> QED BY <1>2, <3>1, <4>2
    <3> QED BY <3>2, <3>3
  <2> HIDE DEF V
  <2> QED BY <2>1, <2>2, <2>3 DEF Placed
<1>9. Fronted(c, p, new, K + 1, V, at2)
  <2> SUFFICES ASSUME NEW t \in Streams, NEW i \in 1 .. Len(new.queue[t]), ~Owned(p, V, at2, t, i)
               PROVE  /\ c.mode = "host"
                      /\ \A k \in 1 .. K + 1 : p[k].stream = t => k \in V /\ i < at2[k]
                      /\ new.queue[t][i].work.op = "store" => new.queue[t][i].work.id # c.id
    BY DEF Fronted
  <2>1. ~(t = s /\ i = n)
    BY <1>2 DEF Owned, s
  <2>2. i \in 1 .. Len(dev.queue[t])
    BY <1>3, <1>4, <1>5, <2>1, NewPlace DEF n
  <2>3. ~Owned(p, U, at, t, i)
    BY <1>2 DEF Owned
  <2>4. /\ c.mode = "host"
        /\ \A k \in 1 .. K : p[k].stream = t => k \in U /\ i < at[k]
        /\ dev.queue[t][i].work.op = "store" => dev.queue[t][i].work.id # c.id
    BY <2>2, <2>3 DEF Tracked, Fronted
  <2>5. new.queue[t][i] = dev.queue[t][i]
    BY <1>4, <2>2
  <2>6. ASSUME NEW k \in 1 .. K + 1, p[k].stream = t
        PROVE  k \in V /\ i < at2[k]
    <3>1. CASE k = K + 1
      <4>1. t = s /\ i < n
        BY <1>3, <2>2, <2>6, <3>1 DEF n, s
      <4> QED BY <1>2, <3>1, <4>1
    <3>2. CASE k # K + 1
      <4>1. k \in 1 .. K
        BY <1>1, <3>2
      <4> QED BY <1>2, <2>4, <2>6, <4>1
    <3> QED BY <3>1, <3>2
  <2> QED BY <2>4, <2>5, <2>6
<1>10. Waited(p, new, V, at2)
  <2> SUFFICES ASSUME NEW k \in V, NEW l \in V, k < l,
                      NEW e \in p[k].records \cap (p[l].waits \cup p[l].guards)
               PROVE  \E r \in new.queue[p[k].stream][at2[k]].records :
                        \E m \in new.queue[p[l].stream][at2[l]].needs :
                          r[1] = e /\ m[1] = e /\ r[2] <= m[2]
    BY DEF Waited
  <2>1. k \in U
    BY <1>1
  <2>2. CASE l \in U
    <3>1. \E r \in dev.queue[p[k].stream][at[k]].records : \E m \in dev.queue[p[l].stream][at[l]].needs :
            r[1] = e /\ m[1] = e /\ r[2] <= m[2]
      BY <2>1, <2>2 DEF Tracked, Waited
    <3>2. /\ new.queue[p[k].stream][at2[k]] = dev.queue[p[k].stream][at[k]]
          /\ new.queue[p[l].stream][at2[l]] = dev.queue[p[l].stream][at[l]]
      BY <1>2, <1>7, <2>1, <2>2
    <3> QED BY <3>1, <3>2
  <2>3. CASE l = K + 1
    <3>1. e \in waits
      BY <1>1, <2>1, <2>3
    <3>2. PICK r \in dev.queue[p[k].stream][at[k]].records : r[1] = e
      BY <2>1 DEF Recorded
    <3>3. e \in Events
      BY <1>1, <2>1, StepFacts
    <3>4. r[2] \in 1 .. dev.unreached[e] /\ dev.unreached[e] \in Nat
      <4>1. e \in DOMAIN Places(c)
        BY <3>3 DEF Places
      <4> QED BY <1>7, <2>1, <3>2, <4>1 DEF Counted
    <3>5. <<e, dev.unreached[e]>> \in new.queue[s][n].needs
      BY <1>4, <3>1, <3>4
    <3>6. r \in new.queue[p[k].stream][at2[k]].records
      BY <1>2, <1>7, <2>1, <3>2
    <3>7. p[l].stream = s /\ at2[l] = n
      BY <1>2, <2>3 DEF s
    <3> DEFINE m == <<e, dev.unreached[e]>>
    <3>8. m \in new.queue[p[l].stream][at2[l]].needs /\ m[1] = e /\ m[2] = dev.unreached[e]
      BY <3>5, <3>7
    <3> HIDE DEF m
    <3> QED BY <3>2, <3>4, <3>6, <3>8
  <2> QED BY <2>2, <2>3
<1>11. Closed(p, (1 .. K + 1) \ V)
  <2>1. (1 .. K + 1) \ V = (1 .. K) \ U
    BY <1>1
  <2> QED BY <2>1 DEF Tracked
<1>12. records = p[K + 1].records => Recorded(p, new, V, at2)
  <2> SUFFICES ASSUME records = p[K + 1].records, NEW k \in V, NEW e \in p[k].records
               PROVE  \E r \in new.queue[p[k].stream][at2[k]].records : r[1] = e
    BY DEF Recorded
  <2>1. CASE k \in U
    <3>1. \E r \in dev.queue[p[k].stream][at[k]].records : r[1] = e
      BY <2>1 DEF Recorded
    <3>2. new.queue[p[k].stream][at2[k]] = dev.queue[p[k].stream][at[k]]
      BY <1>2, <1>7, <2>1
    <3> QED BY <3>1, <3>2
  <2>2. CASE k = K + 1
    <3> DEFINE r == <<e, dev.unreached[e] + 1>>
    <3>1. r \in new.queue[s][n].records /\ r[1] = e
      BY <1>4, <2>2
    <3> HIDE DEF r
    <3> QED BY <1>2, <2>2, <3>1 DEF s
  <2> QED BY <2>1, <2>2
<1> HIDE DEF V
<1>13. Tracked(c, p, new, K + 1, V, at2)
  BY <1>8, <1>9, <1>10, <1>11 DEF Tracked
<1> QED BY <1>12, <1>13 DEF V

\* What a step is behind, and what is behind a step, that a stream or an event
\* ties together.
LEMMA BeforeMeans ==
  ASSUME NEW p, NEW i, NEW j, Before(p, i, j)
  PROVE  i < j /\ (p[i].stream = p[j].stream \/ p[i].records \cap (p[j].waits \cup p[j].guards) # {})
<1>1. PICK y \in Tells(p[i]) : y \in Hears(p[j])
  BY DEF Before
<1>2. CASE y = OnStream(p[i].stream)
  <2>1. y = OnStream(p[j].stream)
    BY <1>1, <1>2 DEF Hears, OnStream, OnEvent
  <2>2. p[i].stream = p[j].stream
    BY <1>2, <2>1 DEF OnStream
  <2> QED BY <2>2 DEF Before
<1>3. CASE \E e \in p[i].records : y = OnEvent(e)
  <2>1. PICK e \in p[i].records : y = OnEvent(e)
    BY <1>3
  <2>2. \E d \in p[j].waits \cup p[j].guards : y = OnEvent(d)
    BY <1>1, <2>1 DEF Hears, OnStream, OnEvent
  <2>3. e \in p[j].waits \cup p[j].guards
    BY <2>1, <2>2 DEF OnEvent
  <2> QED BY <2>1, <2>3 DEF Before
<1> QED BY <1>1, <1>2, <1>3 DEF Tells

\* The first operation of stream s is performed.
LEMMA PerformTracked ==
  ASSUME NEW c, NEW p, StepsOf(c, p), NEW dev \in Devices, NEW K, NEW U, NEW at,
         Tracked(c, p, dev, K, U, at),
         NEW s \in Streams, dev.queue[s] # <<>>, dev.queue[s][1].needs = {},
         NEW new, IsPerformed(new, dev, s), Counted(new, Places(c))
  PROVE  \E V, at2 :
           /\ Tracked(c, p, new, K, V, at2)
           /\ Recorded(p, dev, U, at) => Recorded(p, new, V, at2)
           /\ \/ \E j \in U : p[j].stream = s /\ p[j].work = dev.queue[s][1].work /\ V = U \ {j}
              \/ /\ V = U /\ c.mode = "host" /\ \A k \in 1 .. K : p[k].stream = s => k \in U
                 /\ dev.queue[s][1].work.op = "store" => dev.queue[s][1].work.id # c.id
<1> DEFINE reached == Reached(dev, s)
           V == {k \in U : p[k].stream = s => at[k] # 1}
           at2 == [k \in V |-> at[k] - One(p[k].stream, s)]
<1>1. /\ K \in 0 .. Len(p) /\ U \subseteq 1 .. K /\ Len(p) \in Nat
      /\ \A k \in U : /\ at[k] \in 1 .. Len(dev.queue[p[k].stream])
                      /\ dev.queue[p[k].stream][at[k]].work = p[k].work
      /\ \A k \in U : \A l \in k + 1 .. K : p[l].stream = p[k].stream => l \in U /\ at[k] < at[l]
  BY DEF Tracked, Placed, StepsOf
<1>2. \A k \in 1 .. K : k \in 1 .. Len(p) /\ p[k].stream \in Streams
  <2>1. \A k \in 1 .. K : k \in 1 .. Len(p)
    BY <1>1
  <2> QED BY <2>1, StepFacts
<1>3. /\ \A t \in Streams : Len(dev.queue[t]) \in Nat
      /\ 1 \in 1 .. Len(dev.queue[s])
  BY DeviceFacts
<1>4. /\ new \in Devices
      /\ \A t \in Streams :
           /\ Len(new.queue[t]) = Len(dev.queue[t]) - One(t, s)
           /\ \A i \in 1 .. Len(new.queue[t]) :
                /\ i + One(t, s) \in 1 .. Len(dev.queue[t])
                /\ IsAdvanced(new.queue[t][i], dev.queue[t][i + One(t, s)], reached)
  BY DEF IsPerformed
<1>5. \A t \in Streams : One(t, s) \in {0, 1} /\ (One(t, s) = 1 <=> t = s)
  BY OneFacts
<1>6. V \subseteq U /\ \A k \in V : at2[k] = at[k] - One(p[k].stream, s)
  OBVIOUS
<1>7. \A k \in U : k \in V <=> (p[k].stream = s => at[k] # 1)
  OBVIOUS
<1> HIDE DEF V, at2, reached
\* A step that stays.
<1>8. ASSUME NEW k \in V
      PROVE  /\ p[k].stream \in Streams /\ k \in U
             /\ at2[k] \in 1 .. Len(new.queue[p[k].stream])
             /\ at2[k] + One(p[k].stream, s) = at[k]
             /\ IsAdvanced(new.queue[p[k].stream][at2[k]], dev.queue[p[k].stream][at[k]], reached)
  <2> DEFINE t == p[k].stream
             i == at[k]
             g == One(t, s)
  <2>1. t \in Streams /\ k \in U /\ i \in 1 .. Len(dev.queue[t]) /\ at2[k] = i - g
    BY <1>1, <1>2, <1>6
  <2>2. t = s => i # 1
    BY <1>7, <2>1
  <2> HIDE DEF t, i, g
  <2>3. g \in {0, 1} /\ (g = 1 <=> t = s) /\ Len(dev.queue[t]) \in Nat
        /\ Len(new.queue[t]) = Len(dev.queue[t]) - g
    BY <1>3, <1>4, <1>5, <2>1 DEF g
  <2>4. i - g \in 1 .. Len(new.queue[t]) /\ (i - g) + g = i
    BY <2>1, <2>2, <2>3
  <2>5. IsAdvanced(new.queue[t][i - g], dev.queue[t][(i - g) + g], reached)
    BY <1>4, <2>1, <2>4 DEF g
  <2> QED BY <2>1, <2>4, <2>5 DEF t, i, g
<1>9. Placed(p, new, K, V, at2)
  <2>1. V \subseteq 1 .. K
    BY <1>1, <1>6
  <2>2. ASSUME NEW k \in V
        PROVE  /\ at2[k] \in 1 .. Len(new.queue[p[k].stream])
               /\ new.queue[p[k].stream][at2[k]].work = p[k].work
    BY <1>1, <1>8 DEF IsAdvanced
  <2>3. ASSUME NEW k \in V, NEW l \in k + 1 .. K, p[l].stream = p[k].stream
        PROVE  l \in V /\ at2[k] < at2[l]
    <3>1. l \in U /\ k \in U /\ at[k] < at[l]
      BY <1>1, <1>6, <2>3
    <3>2. at[k] \in Nat \ {0} /\ at[l] \in Nat \ {0}
      <4>1. at[k] \in 1 .. Len(dev.queue[p[k].stream]) /\ at[l] \in 1 .. Len(dev.queue[p[l].stream])
        BY <1>1, <3>1
      <4> QED BY <4>1
    <3>3. l \in V
      BY <1>7, <3>1, <3>2
    <3>4. at2[k] = at[k] - One(p[k].stream, s) /\ at2[l] = at[l] - One(p[k].stream, s)
      BY <1>6, <2>3, <3>3
    <3>5. One(p[k].stream, s) \in Int
      BY OneFacts
    <3> QED BY <3>1, <3>2, <3>3, <3>4, <3>5
  <2> QED BY <1>1, <2>1, <2>2, <2>3 DEF Placed
<1>10. Fronted(c, p, new, K, V, at2)
  <2> SUFFICES ASSUME NEW t \in Streams, NEW i \in 1 .. Len(new.queue[t]), ~Owned(p, V, at2, t, i)
               PROVE  /\ c.mode = "host"
                      /\ \A k \in 1 .. K : p[k].stream = t => k \in V /\ i < at2[k]
                      /\ new.queue[t][i].work.op = "store" => new.queue[t][i].work.id # c.id
    BY DEF Fronted
  <2> DEFINE g == One(t, s)
  <2>1. /\ i + g \in 1 .. Len(dev.queue[t]) /\ IsAdvanced(new.queue[t][i], dev.queue[t][i + g], reached)
        /\ g \in {0, 1} /\ (g = 1 <=> t = s)
    BY <1>4, <1>5
  <2>2. ~Owned(p, U, at, t, i + g)
    <3> SUFFICES ASSUME NEW k \in U, p[k].stream = t, at[k] = i + g PROVE FALSE
      BY DEF Owned
    <3> HIDE DEF g
    <3>1. p[k].stream = s => at[k] # 1
      BY <2>1
    <3>2. k \in V
      BY <1>7, <3>1
    <3>3. at2[k] = i
      <4>1. at2[k] = at[k] - g /\ i \in Int /\ g \in Int
        BY <1>6, <2>1, <3>2 DEF g
      <4> QED BY <4>1
    <3> QED BY <3>2, <3>3 DEF Owned
  <2> HIDE DEF g
  <2>3. /\ c.mode = "host"
        /\ \A k \in 1 .. K : p[k].stream = t => k \in U /\ i + g < at[k]
        /\ dev.queue[t][i + g].work.op = "store" => dev.queue[t][i + g].work.id # c.id
    BY <2>1, <2>2 DEF Tracked, Fronted
  <2>4. new.queue[t][i].work = dev.queue[t][i + g].work
    BY <2>1 DEF IsAdvanced
  <2>5. ASSUME NEW k \in 1 .. K, p[k].stream = t
        PROVE  k \in V /\ i < at2[k]
    <3>1. k \in U /\ i + g < at[k]
      BY <2>3, <2>5
    <3>2. at[k] \in Nat
      <4>1. at[k] \in 1 .. Len(dev.queue[p[k].stream])
        BY <1>1, <3>1
      <4> QED BY <4>1
    <3>3. at[k] # 1
      BY <2>1, <3>1, <3>2
    <3>4. k \in V
      BY <1>7, <3>1, <3>3
    <3>5. at2[k] = at[k] - g
      BY <1>6, <2>5, <3>4 DEF g
    <3> QED BY <2>1, <3>1, <3>2, <3>4, <3>5
  <2> QED BY <2>3, <2>4, <2>5
<1>11. Waited(p, new, V, at2)
  <2> SUFFICES ASSUME NEW k \in V, NEW l \in V, k < l,
                      NEW e \in p[k].records \cap (p[l].waits \cup p[l].guards)
               PROVE  \E r \in new.queue[p[k].stream][at2[k]].records :
                        \E m \in new.queue[p[l].stream][at2[l]].needs :
                          r[1] = e /\ m[1] = e /\ r[2] <= m[2]
    BY DEF Waited
  <2>1. PICK r \in dev.queue[p[k].stream][at[k]].records, m \in dev.queue[p[l].stream][at[l]].needs :
           r[1] = e /\ m[1] = e /\ r[2] <= m[2]
    <3>1. k \in U /\ l \in U
      BY <1>6
    <3> QED BY <3>1 DEF Tracked, Waited
  <2>2. r[2] \in Int /\ m[2] \in Int
    <3>1. /\ p[k].stream \in Streams /\ at[k] \in 1 .. Len(dev.queue[p[k].stream])
          /\ p[l].stream \in Streams /\ at[l] \in 1 .. Len(dev.queue[p[l].stream])
      BY <1>1, <1>8
    <3> QED BY <2>1, <3>1, DeviceFacts
  <2> DEFINE r2 == <<r[1], After(r, reached)>>
             m2 == <<m[1], After(m, reached)>>
  <2>3. r2 \in new.queue[p[k].stream][at2[k]].records
    BY <1>8, <2>1 DEF IsAdvanced
  <2>4. r2[1] = e /\ m2[1] = e /\ r2[2] = After(r, reached) /\ m2[2] = After(m, reached)
    BY <2>1
  <2>5. After(r, reached) <= After(m, reached) /\ After(r, reached) \in Int /\ After(m, reached) \in Int
    BY <2>1, <2>2 DEF After
  <2> HIDE DEF r2, m2
  <2>6. e \in DOMAIN Places(c)
    <3>1. k \in 1 .. Len(p)
      BY <1>1, <1>2, <1>6
    <3> QED BY <3>1, StepFacts DEF Places
  <2>7. r2[2] >= 1
    <3>1. r2[2] \in 1 .. new.unreached[r2[1]]
      BY <1>8, <2>3, <2>4, <2>6 DEF Counted
    <3> QED BY <3>1
  <2>8. m2 \in new.queue[p[l].stream][at2[l]].needs
    <3>1. After(m, reached) > 0
      BY <2>4, <2>5, <2>7
    <3> QED BY <1>8, <2>1, <3>1 DEF IsAdvanced, m2
  <2> QED BY <2>3, <2>4, <2>5, <2>8
<1>12. Recorded(p, dev, U, at) => Recorded(p, new, V, at2)
  <2> SUFFICES ASSUME Recorded(p, dev, U, at), NEW k \in V, NEW e \in p[k].records
               PROVE  \E r \in new.queue[p[k].stream][at2[k]].records : r[1] = e
    BY DEF Recorded
  <2>1. k \in U
    BY <1>6
  <2>2. PICK r \in dev.queue[p[k].stream][at[k]].records : r[1] = e
    BY <2>1 DEF Recorded
  <2> DEFINE r2 == <<r[1], After(r, reached)>>
  <2>3. r2 \in new.queue[p[k].stream][at2[k]].records /\ r2[1] = e
    BY <1>8, <2>2 DEF IsAdvanced
  <2> HIDE DEF r2
  <2> QED BY <2>3
<1>13. \/ /\ Closed(p, (1 .. K) \ V)
          /\ \E j \in U : p[j].stream = s /\ p[j].work = dev.queue[s][1].work /\ V = U \ {j}
       \/ /\ V = U /\ c.mode = "host" /\ \A k \in 1 .. K : p[k].stream = s => k \in U
          /\ dev.queue[s][1].work.op = "store" => dev.queue[s][1].work.id # c.id
  <2>1. CASE Owned(p, U, at, s, 1)
    <3>1. PICK j \in U : p[j].stream = s /\ at[j] = 1
      BY <2>1 DEF Owned
    <3>2. p[j].work = dev.queue[s][1].work
      BY <1>1, <3>1
    <3>3. V = U \ {j}
      <4>1. \A k \in U : k # j /\ p[k].stream = s => at[k] # 1
        <5> SUFFICES ASSUME NEW k \in U, k # j, p[k].stream = s, at[k] = 1 PROVE FALSE
          OBVIOUS
        <5>1. k \in Nat /\ j \in Nat /\ k \in 1 .. K /\ j \in 1 .. K
          BY <1>1
        <5>2. j \in k + 1 .. K \/ k \in j + 1 .. K
          BY <1>1, <5>1
        <5>3. at[k] < at[j] \/ at[j] < at[k]
          BY <1>1, <3>1, <5>2
        <5> QED BY <3>1, <5>3
      <4>2. j \notin V
        BY <1>7, <3>1
      <4> QED BY <1>6, <1>7, <4>1, <4>2
    <3>4. Closed(p, (1 .. K) \ V)
      <4>1. (1 .. K) \ V = ((1 .. K) \ U) \cup {j} /\ j \in 1 .. K
        BY <1>1, <3>3
      <4>2. ASSUME NEW i \in 1 .. Len(p), Before(p, i, j)
            PROVE  i \in (1 .. K) \ V
        <5>1. i < j /\ (p[i].stream = p[j].stream \/ p[i].records \cap (p[j].waits \cup p[j].guards) # {})
          BY <4>2, BeforeMeans
        <5>2. i \in 1 .. K /\ j \in i + 1 .. K /\ i # j
          BY <1>1, <4>1, <5>1
        <5>3. ASSUME i \in U PROVE FALSE
          <6>1. CASE p[i].stream = p[j].stream
            <7>1. at[i] < at[j] /\ at[i] \in 1 .. Len(dev.queue[p[i].stream])
              BY <1>1, <5>2, <5>3, <6>1
            <7> QED BY <3>1, <7>1
          <6>2. CASE p[i].records \cap (p[j].waits \cup p[j].guards) # {}
            <7>1. PICK e : e \in p[i].records \cap (p[j].waits \cup p[j].guards)
              BY <6>2
            <7>2. \E m \in dev.queue[p[j].stream][at[j]].needs : TRUE
              BY <3>1, <5>1, <5>3, <7>1 DEF Tracked, Waited
            <7> QED BY <3>1, <7>2
          <6> QED BY <5>1, <6>1, <6>2
        <5> QED BY <1>6, <5>2, <5>3
      <4>3. Closed(p, (1 .. K) \ U)
        BY DEF Tracked
      <4>4. (1 .. K) \ V \subseteq 1 .. Len(p)
        BY <1>2
      <4>5. ASSUME NEW l \in (1 .. K) \ V, NEW i \in 1 .. Len(p), Before(p, i, l)
            PROVE  i \in (1 .. K) \ V
        <5>1. CASE l = j
          BY <4>2, <4>5, <5>1
        <5>2. CASE l # j
          BY <4>1, <4>3, <4>5, <5>2 DEF Closed
        <5> QED BY <5>1, <5>2
      <4> QED BY <4>4, <4>5 DEF Closed
    <3> QED BY <3>1, <3>2, <3>3, <3>4
  <2>2. CASE ~Owned(p, U, at, s, 1)
    <3>1. /\ c.mode = "host" /\ \A k \in 1 .. K : p[k].stream = s => k \in U /\ 1 < at[k]
          /\ dev.queue[s][1].work.op = "store" => dev.queue[s][1].work.id # c.id
      BY <1>3, <2>2 DEF Tracked, Fronted
    <3>2. \A k \in U : p[k].stream = s => at[k] # 1
      BY <2>2 DEF Owned
    <3>3. V = U
      BY <1>6, <1>7, <3>2
    <3> QED BY <3>1, <3>3
  <2> QED BY <2>1, <2>2
<1>14. Closed(p, (1 .. K) \ V)
  BY <1>13 DEF Tracked
<1>15. Tracked(c, p, new, K, V, at2)
  BY <1>9, <1>10, <1>11, <1>14 DEF Tracked
<1> QED BY <1>12, <1>13, <1>15

-----------------------------------------------------------------------------
(* What the buffers and the destinations hold.                               *)

\* A buffer holds what the last performed step that writes it put there.
Followed(p, h, D, memory) ==
  \A i \in D : \A b \in Writes(p[i].work) :
    (\A j \in D : i < j => b \notin Writes(p[j].work)) =>
      \A f \in h[i].holds : f[1] = b => memory[b] = f[2]

\* The stores that were performed stored answers.
Delivered(c, p, D, dest) ==
  \A i \in D : p[i].work.op = "store" => dest[c.id][p[i].work.task] = Answer(c.id, p[i].work.task)

\* An operation puts into the buffers it writes what the analysis says.
LEMMA PerformPuts ==
  ASSUME NEW work, Perform(work), Writes(work) \subseteq DOMAIN mem, NEW F,
         \A f \in F.holds : f[1] \in Reads(work) => mem[f[1]] = f[2]
  PROVE  /\ DOMAIN mem' = DOMAIN mem
         /\ \A b \in DOMAIN mem \ Writes(work) : mem'[b] = mem[b]
         /\ \A f \in Put(F, work) : mem'[f[1]] = f[2]
<1>1. CASE work.op = "load"
  <2>1. mem' = [mem EXCEPT ![work.to] = work.rows] /\ Writes(work) = {work.to}
        /\ Put(F, work) = {<<work.to, work.rows>>}
    BY <1>1 DEF Perform, Writes, Put
  <2> QED BY <2>1
<1>2. CASE work.op = "copy"
  <2>1. mem' = [mem EXCEPT ![work.to] = mem[work.from]] /\ Writes(work) = {work.to} /\ Reads(work) = {work.from}
    BY <1>2 DEF Perform, Writes, Reads
  <2>2. ASSUME NEW f \in Put(F, work) PROVE mem'[f[1]] = f[2]
    <3>1. f \in {<<work.to, v>> : v \in Contents(F, work.from)}
      BY <1>2, <2>2 DEF Put
    <3>2. PICK g \in F.holds : g[1] = work.from /\ f = <<work.to, g[2]>>
      BY <3>1 DEF Contents
    <3>3. mem[work.from] = g[2]
      BY <2>1, <3>2
    <3> QED BY <2>1, <3>2, <3>3
  <2> QED BY <2>1, <2>2
<1>3. CASE work.op = "update"
  <2> DEFINE next == Append(IF work.initialize THEN <<>> ELSE mem[Accumulator], <<mem[Q], mem[work.kv]>>)
  <2>1. /\ mem' = [b \in DOMAIN mem |-> IF b = Accumulator
                                        THEN Append(IF work.initialize THEN <<>> ELSE mem[b], <<mem[Q], mem[work.kv]>>)
                                        ELSE IF b \in work.scratch THEN Garbage ELSE mem[b]]
        /\ Writes(work) = {Accumulator} \cup work.scratch
        /\ Reads(work) = {Q, work.kv} \cup (IF work.initialize THEN {} ELSE {Accumulator})
    BY <1>3 DEF Perform, Writes, Reads
  <2>2. DOMAIN mem' = DOMAIN mem /\ \A b \in DOMAIN mem \ Writes(work) : mem'[b] = mem[b]
    BY <2>1
  <2>3. mem'[Accumulator] = next
    BY <2>1
  <2>4. ASSUME NEW f \in Put(F, work) PROVE mem'[f[1]] = f[2]
    <3>1. f \in Updated(F, work)
      BY <1>3, <2>4 DEF Put
    <3>2. PICK a \in Started(F, work), q \in Contents(F, Q), k \in Contents(F, work.kv) :
             f = <<Accumulator, Append(a, <<q, k>>)>>
      BY <3>1 DEF Updated
    <3>3. mem[Q] = q /\ mem[work.kv] = k
      <4>1. PICK g \in F.holds : g[1] = Q /\ g[2] = q
        BY <3>2 DEF Contents
      <4>2. PICK d \in F.holds : d[1] = work.kv /\ d[2] = k
        BY <3>2 DEF Contents
      <4> QED BY <2>1, <4>1, <4>2
    <3>4. a = IF work.initialize THEN <<>> ELSE mem[Accumulator]
      <4>1. CASE work.initialize
        BY <3>2, <4>1 DEF Started
      <4>2. CASE ~work.initialize
        <5>1. PICK g \in F.holds : g[1] = Accumulator /\ g[2] = a
          BY <3>2, <4>2 DEF Started, Contents
        <5> QED BY <2>1, <4>2, <5>1
      <4> QED BY <4>1, <4>2
    <3>5. next = Append(a, <<q, k>>)
      BY <3>3, <3>4
    <3> HIDE DEF next
    <3> QED BY <2>3, <3>2, <3>5
  <2> QED BY <2>2, <2>4
<1>4. CASE work.op \notin {"load", "copy", "update"}
  <2>1. mem' = mem /\ Put(F, work) = {}
    BY <1>4 DEF Perform, Put
  <2> QED BY <2>1
<1> QED BY <1>1, <1>2, <1>3, <1>4

\* Only a store changes a destination.
LEMMA PerformStores ==
  ASSUME NEW work, Perform(work)
  PROVE  /\ work.op # "store" => UNCHANGED out
         /\ work.op = "store" => out' = [out EXCEPT ![work.id][work.task] = mem[work.from]]
BY DEF Perform

\* A step of the call is performed, in its place.
LEMMA OwnFollowed ==
  ASSUME NEW c, NEW p, StepsOf(c, p), NEW h, Checked(c, p, h), h[0] = Start(c),
         NEW D, Closed(p, D), NEW j \in 1 .. Len(p), j \notin D, Closed(p, D \cup {j}),
         Followed(p, h, D, mem), Perform(p[j].work), Writes(p[j].work) \subseteq DOMAIN mem
  PROVE  /\ DOMAIN mem' = DOMAIN mem
         /\ (\A i \in D : Writes(p[i].work) \subseteq DOMAIN mem) => Followed(p, h, D \cup {j}, mem')
         /\ p[j].work.op = "store" => mem[p[j].work.from] = Answer(c.id, p[j].work.task)
<1> DEFINE x == p[j]
           F == h[j - 1]
           E == D \cup {j}
<1>1. /\ Safe(c, F, x) /\ h[j] = Post(F, x) /\ Len(p) \in Nat
      /\ j - 1 \in 0 .. Len(p) /\ j \in Nat
  BY DEF Checked, StepsOf
<1>2. D \subseteq 1 .. Len(p)
  BY DEF Closed
<1>3. Means(p, h, j - 1)
  BY <1>1, AnalysisMeans
\* Nothing behind the step that accesses what it accesses was performed.
<1>4. ASSUME NEW b \in Touches(x), NEW i \in D, b \in Touches(p[i]) PROVE i < j
  <2> SUFFICES ASSUME ~(i < j) PROVE FALSE
    OBVIOUS
  <2>1. i \in 1 .. Len(p) /\ j < i
    BY <1>1, <1>2, <1>4
  <2>2. j \in D
    BY <1>1, <1>4, <2>1, AccessesInOrder
  <2> QED BY <2>2
\* All before it that accesses what it accesses was.
<1>5. ASSUME NEW b \in Touches(x), NEW i \in 1 .. j - 1, b \in Touches(p[i]) PROVE i \in D
  <2>1. i \in 1 .. Len(p) /\ i < j /\ i # j
    BY <1>1
  <2>2. i \in E
    BY <1>1, <1>5, <2>1, AccessesInOrder
  <2> QED BY <2>1, <2>2
<1>6. \A i : \A b \in Writes(p[i].work) \cup Reads(p[i].work) : b \in Touches(p[i])
  BY DEF Touches
<1> HIDE DEF x, F
<1>7. ASSUME NEW f \in F.holds, f[1] \in Reads(x.work) PROVE mem[f[1]] = f[2]
  <2>1. HeldSince(p, h, j - 1, f)
    BY <1>3 DEF Means, F
  <2>2. PICK i \in 1 .. j - 1 : /\ f[1] \in Writes(p[i].work) /\ f \in h[i].holds
                                /\ \A k \in i + 1 .. j - 1 : f[1] \notin Writes(p[k].work)
    BY <2>1 DEF HeldSince
  <2>3. f[1] \in Touches(x)
    BY <1>6, <1>7 DEF x
  <2>4. i \in D
    BY <1>5, <1>6, <2>2, <2>3
  <2>5. \A k \in D : i < k => f[1] \notin Writes(p[k].work)
    <3> SUFFICES ASSUME NEW k \in D, i < k, f[1] \in Writes(p[k].work) PROVE FALSE
      OBVIOUS
    <3>1. k < j
      BY <1>4, <1>6, <2>3
    <3>2. k \in i + 1 .. j - 1
      BY <1>1, <1>2, <3>1
    <3> QED BY <2>2, <3>2
  <2> QED BY <2>2, <2>4, <2>5 DEF Followed
<1>8. /\ DOMAIN mem' = DOMAIN mem
      /\ \A b \in DOMAIN mem \ Writes(x.work) : mem'[b] = mem[b]
      /\ \A f \in Put(F, x.work) : mem'[f[1]] = f[2]
  <2>1. Perform(x.work) /\ Writes(x.work) \subseteq DOMAIN mem
    BY DEF x
  <2> QED BY <1>7, <2>1, PerformPuts
<1>9. ASSUME x.work.op = "store" PROVE mem[x.work.from] = Answer(c.id, x.work.task)
  <2> DEFINE f == <<x.work.from, Answer(c.id, x.work.task)>>
  <2>1. f \in F.holds /\ f[1] = x.work.from /\ f[2] = Answer(c.id, x.work.task)
    BY <1>1, <1>9 DEF Safe, x
  <2>2. x.work.from \in Reads(x.work)
    BY <1>9 DEF Reads
  <2> HIDE DEF f
  <2> QED BY <1>7, <2>1, <2>2
<1>10. ASSUME \A i \in D : Writes(p[i].work) \subseteq DOMAIN mem
       PROVE  Followed(p, h, E, mem')
  <2> SUFFICES ASSUME NEW i \in E, NEW b \in Writes(p[i].work),
                      \A k \in E : i < k => b \notin Writes(p[k].work),
                      NEW f \in h[i].holds, f[1] = b
               PROVE  mem'[b] = f[2]
    BY DEF Followed
  <2>1. CASE i = j
    <3>1. f \in Put(F, x.work)
      BY <1>1, <2>1 DEF Post, x, F
    <3> QED BY <1>8, <3>1
  <2>2. CASE i # j
    <3>1. i \in D
      BY <2>2
    <3>2. b \notin Writes(x.work)
      <4> SUFFICES ASSUME b \in Writes(x.work) PROVE FALSE
        OBVIOUS
      <4>1. b \in Touches(x) /\ b \in Touches(p[i])
        BY <1>6 DEF x
      <4>2. i < j
        BY <1>4, <3>1, <4>1
      <4> QED BY <4>2 DEF x
    <3>3. mem'[b] = mem[b]
      BY <1>8, <1>10, <3>1, <3>2
    <3>4. mem[b] = f[2]
      BY <3>1 DEF Followed
    <3> QED BY <3>3, <3>4
  <2> QED BY <2>1, <2>2
<1> QED BY <1>8, <1>9, <1>10 DEF x

\* An operation that an abandoned call left is performed.
LEMMA StrayFollowed ==
  ASSUME NEW c, NEW p, StepsOf(c, p), c.mode = "host", NEW h,
         NEW D \in SUBSET (1 .. Len(p)), NEW work, NEW s, \A b \in Writes(work) : s = WriterOf(b),
         \A i \in D : p[i].stream # s, \A i \in D : Writes(p[i].work) \subseteq DOMAIN mem,
         Writes(work) \subseteq DOMAIN mem, Followed(p, h, D, mem), Perform(work)
  PROVE  DOMAIN mem' = DOMAIN mem /\ Followed(p, h, D, mem')
<1> DEFINE F == [holds |-> {}]
<1>1. /\ DOMAIN mem' = DOMAIN mem
      /\ \A b \in DOMAIN mem \ Writes(work) : mem'[b] = mem[b]
  <2>1. \A f \in F.holds : FALSE
    OBVIOUS
  <2> HIDE DEF F
  <2> QED BY <2>1, PerformPuts
<1>2. \A i \in D : \A b \in Writes(p[i].work) : b \notin Writes(work) /\ b \in DOMAIN mem
  <2> SUFFICES ASSUME NEW i \in D, NEW b \in Writes(p[i].work), b \in Writes(work) PROVE FALSE
    OBVIOUS
  <2>1. p[i].stream = WriterOf(b)
    BY DEF StepsOf, Tidy
  <2> QED BY <2>1
<1>3. \A i \in D : \A b \in Writes(p[i].work) : mem'[b] = mem[b]
  BY <1>1, <1>2
<1>4. Followed(p, h, D, mem')
  BY <1>3 DEF Followed
<1> QED BY <1>1, <1>4

\* Where the stores go.
LEMMA OwnDelivered ==
  ASSUME NEW c, NEW p, StepsOf(c, p), NEW D \in SUBSET (1 .. Len(p)), NEW j \in 1 .. Len(p),
         Delivered(c, p, D, out), Perform(p[j].work), c.id \in DOMAIN out,
         \A t \in 1 .. TaskCount(c) : t \in DOMAIN out[c.id],
         p[j].work.op = "store" => mem[p[j].work.from] = Answer(c.id, p[j].work.task)
  PROVE  Delivered(c, p, D \cup {j}, out')
<1> DEFINE w == p[j].work
<1>1. w.op = "store" => w.id = c.id /\ w.task \in 1 .. TaskCount(c)
  BY DEF StepsOf, Tidy
<1> HIDE DEF w
<1>2. CASE w.op # "store"
  <2>1. out' = out
    BY <1>2, PerformStores DEF w
  <2> QED BY <1>2, <2>1 DEF Delivered, w
<1>3. CASE w.op = "store"
  <2>1. out' = [out EXCEPT ![c.id][w.task] = Answer(c.id, w.task)]
    BY <1>1, <1>3, PerformStores DEF w
  <2>3. out'[c.id][w.task] = Answer(c.id, w.task)
    BY <1>1, <1>3, <2>1
  <2>4. ASSUME NEW i \in D \cup {j}, p[i].work.op = "store"
        PROVE  out'[c.id][p[i].work.task] = Answer(c.id, p[i].work.task)
    <3>1. CASE p[i].work.task = w.task
      BY <2>3, <3>1
    <3>2. CASE p[i].work.task # w.task
      <4>1. i \in D
        BY <3>2 DEF w
      <4>2. out[c.id][p[i].work.task] = Answer(c.id, p[i].work.task)
        BY <2>4, <4>1 DEF Delivered
      <4>3. out'[c.id] = [out[c.id] EXCEPT ![w.task] = Answer(c.id, w.task)]
        BY <2>1
      <4>4. p[i].work.task \in DOMAIN out[c.id]
        BY <2>4, <4>1 DEF StepsOf, Tidy
      <4>5. out'[c.id][p[i].work.task] = out[c.id][p[i].work.task]
        BY <3>2, <4>3, <4>4
      <4> QED BY <4>2, <4>5
    <3> QED BY <3>1, <3>2
  <2> QED BY <2>4 DEF Delivered
<1> QED BY <1>2, <1>3

\* Operations of other calls store elsewhere.
LEMMA StrayDelivered ==
  ASSUME NEW c, NEW p, NEW D, NEW work, Delivered(c, p, D, out), Perform(work), c.id \in DOMAIN out,
         work.op = "store" => work.id # c.id
  PROVE  Delivered(c, p, D, out')
<1>1. out'[c.id] = out[c.id]
  BY PerformStores
<1> QED BY <1>1 DEF Delivered

-----------------------------------------------------------------------------
(* The invariant of the exact outputs.                                       *)

Analysis(c) ==
  CHOOSE h : Checked(c, Program(c), h) /\ h[0] = Start(c) /\ Closing(c, h[Len(Program(c))])

\* The analysis of a call's program.
LEMMA ProgramFacts ==
  ASSUME NEW c, ValidCall(c)
  PROVE  /\ StepsOf(c, Program(c)) /\ Len(Program(c)) \in Nat
         /\ Checked(c, Program(c), Analysis(c)) /\ Analysis(c)[0] = Start(c)
         /\ Closing(c, Analysis(c)[Len(Program(c))])
<1> DEFINE p == Program(c)
           h == Analysis(c)
<1>1. Checked(c, p, h) /\ h[0] = Start(c) /\ Closing(c, h[Len(p)])
  BY ProgramAnalysed DEF Analysis
<1>2. p \in Seq(Steps(c))
  BY ProgramWhole DEF ValidCall, Whole
<1> HIDE DEF p, h
<1>3. Len(p) \in Nat /\ \A k \in 1 .. Len(p) : p[k] \in Steps(c)
  BY <1>2
<1>4. StepsOf(c, p)
  BY <1>1, <1>3 DEF StepsOf, Checked, Safe
<1> QED BY <1>1, <1>3, <1>4 DEF p, h

\* The calls, and where they write.
CallsKnown ==
  /\ \A id \in Ids : id > call.id => outcome[id] = "none"
  /\ \A id \in Ids : outcome[id] = "running" => id = call.id /\ pc # "idle"
  /\ DOMAIN out = Ids /\ DOMAIN mem = Buffers(Ids)
  /\ call.mode = mode \/ call = NoCall
  /\ pc # "idle" => ValidCall(call) /\ call.mode = mode /\ DOMAIN out[call.id] = 1 .. TaskCount(call)

\* A pending operation writes where its stream does, and stores only for the
\* call being made and for those that were abandoned.
OperationKnown(s, work) ==
  /\ Writes(work) \subseteq Buffers(Ids)
  /\ mode = "host" => \A b \in Writes(work) : s = WriterOf(b)
  /\ work.op = "store" => /\ work.id \in Ids
                          /\ outcome[work.id] = "abandoned" \/ (work.id = call.id /\ pc # "idle")

OperationsKnown ==
  \A s \in Streams : \A i \in 1 .. Len(device.queue[s]) : OperationKnown(s, device.queue[s][i].work)

\* Calls with a device consumer leave nothing behind.
NothingLeft ==
  mode = "device_consumer" /\ pc = "idle" => \A s \in Streams : device.queue[s] = <<>>

\* The call being made: the first K steps of its program were enqueued, those of
\* U are pending, the others were performed, as if one after the other.
CallExact(K, U, at) ==
  /\ Tracked(call, Program(call), device, K, U, at)
  /\ Followed(Program(call), Analysis(call), (1 .. K) \ U, mem)
  /\ Delivered(call, Program(call), (1 .. K) \ U, out)
  /\ pc \in {"issue", "measure"} => Recorded(Program(call), device, U, at)
  /\ pc = "issue" => /\ K + Len(todo) = Len(Program(call))
                     /\ \A k \in 1 .. Len(todo) : todo[k] = Program(call)[K + k]
                     /\ \A k \in 1 .. K : Program(call)[k].records \cap FreeEvents \subseteq pending
  /\ pc = "measure" => /\ K = Len(Program(call)) /\ Measured(call)
                       /\ \A k \in U : Program(call)[k].stream = "h2d"

ExactInv ==
  /\ CallsKnown
  /\ OperationsKnown
  /\ NothingLeft
  /\ Counted(device, Places(call))
  /\ pc # "idle" => \E K, U, at : CallExact(K, U, at)
  /\ ReturnedOutputsExact

\* The buffers and the destination an operation of a call writes.
LEMMA WritesWithin ==
  ASSUME NEW c \in Calls, c.id \in Ids, NEW work \in Works(c)
  PROVE  /\ Writes(work) \subseteq Buffers(Ids)
         /\ work.op = "store" => work.id = c.id
<1>1. Buffers({c.id}) \subseteq Buffers(Ids)
  BY DEF Buffers
<1> DEFINE B == Buffers({c.id})
<1>2. Accumulator \in B
  BY BufferFacts
<1>3. work \in WorksOf({c.id})
  BY DEF Works
<1> HIDE DEF B
<1>4. CASE work \in [op : {"load"}, to : B, rows : {c.id} \X {"q", "kv"} \X Nat]
  BY <1>1, <1>4 DEF Writes, B
<1>5. CASE work \in [op : {"copy"}, from : B, to : B]
  BY <1>1, <1>5 DEF Writes, B
<1>6. CASE work \in [op : {"update"}, kv : B, initialize : BOOLEAN, scratch : SUBSET B]
  BY <1>1, <1>2, <1>6 DEF Writes, B
<1>7. CASE work \in [op : {"store"}, from : B, id : {c.id}, task : Nat]
  BY <1>7 DEF Writes
<1>8. CASE work = Mark
  BY <1>8 DEF Writes, Mark
<1> QED BY <1>3, <1>4, <1>5, <1>6, <1>7, <1>8 DEF WorksOf, B

\* A store changes the destination of its call only.
LEMMA StoreChanges ==
  ASSUME NEW work, Perform(work), DOMAIN out = Ids
  PROVE  /\ DOMAIN out' = Ids
         /\ \A id \in Ids : /\ DOMAIN out'[id] = DOMAIN out[id]
                            /\ ~(work.op = "store" /\ work.id = id) => out'[id] = out[id]
<1>1. CASE work.op # "store"
  <2>1. out' = out
    BY <1>1, PerformStores
  <2> QED BY <1>1, <2>1
<1>2. CASE work.op = "store"
  <2>1. out' = [out EXCEPT ![work.id] = [out[work.id] EXCEPT ![work.task] = mem[work.from]]]
    BY <1>2, PerformStores
  <2>2. DOMAIN out' = DOMAIN out
    BY <2>1
  <2>3. ASSUME NEW id \in Ids
        PROVE  /\ DOMAIN out'[id] = DOMAIN out[id]
               /\ work.id # id => out'[id] = out[id]
    <3>1. CASE work.id = id
      <4>1. out'[id] = [out[id] EXCEPT ![work.task] = mem[work.from]]
        BY <2>1, <3>1
      <4> QED BY <3>1, <4>1
    <3>2. CASE work.id # id
      BY <2>1, <3>2
    <3> QED BY <3>1, <3>2
  <2> QED BY <1>2, <2>2, <2>3
<1> QED BY <1>1, <1>2

-----------------------------------------------------------------------------
(* The steps of the executor keep the invariant. *)

\* The call being made.
LEMMA IdsKnown ==
  ASSUME TypeInv
  PROVE  /\ Ids \subseteq 0 .. MaxCalls /\ Ids \subseteq Nat
         /\ pc # "idle" => call.id \in Ids /\ outcome[call.id] = "running"
         /\ device \in Devices /\ call \in Calls /\ call.id \in Nat
BY ExecutorAssumption DEF TypeInv, Ids

\* A step of the device while a call is made.
LEMMA DeviceExact ==
  ASSUME ExecutorInv, ExactInv, pc # "idle", NEW s \in Streams, DeviceStep(s), Counted(device', Places(call)),
         NEW K, NEW U, NEW at, CallExact(K, U, at)
  PROVE  /\ \E V, at2 : CallExact(K, V, at2)'
         /\ DOMAIN mem' = DOMAIN mem
         /\ Cuda!Work(device, s).op = "store" /\ Cuda!Work(device, s).id = call.id =>
              /\ Cuda!Work(device, s).task \in 1 .. TaskCount(call)
              /\ mem[Cuda!Work(device, s).from] = Answer(call.id, Cuda!Work(device, s).task)
<1> DEFINE p == Program(call)
           h == Analysis(call)
           D == (1 .. K) \ U
           work == device.queue[s][1].work
<1>1. /\ TypeInv /\ CallsKnown /\ OperationsKnown /\ ValidCall(call) /\ call.mode = mode
      /\ DOMAIN out[call.id] = 1 .. TaskCount(call)
      /\ DOMAIN out = Ids /\ DOMAIN mem = Buffers(Ids)
  BY DEF ExecutorInv, ExactInv, CallsKnown
<1>2. call.id \in Ids /\ call \in Calls /\ device \in Devices
  BY <1>1, IdsKnown
<1>3. StepsOf(call, p) /\ Checked(call, p, h) /\ h[0] = Start(call) /\ Len(p) \in Nat
  BY <1>1, ProgramFacts
<1>4. /\ Tracked(call, p, device, K, U, at) /\ Followed(p, h, D, mem) /\ Delivered(call, p, D, out)
      /\ pc \in {"issue", "measure"} => Recorded(p, device, U, at)
      /\ pc = "issue" => /\ K + Len(todo) = Len(p)
                         /\ \A k \in 1 .. Len(todo) : todo[k] = p[K + k]
                         /\ \A k \in 1 .. K : p[k].records \cap FreeEvents \subseteq pending
      /\ pc = "measure" => /\ K = Len(p) /\ Measured(call) /\ \A k \in U : p[k].stream = "h2d"
  BY DEF CallExact
<1>5. /\ device.queue[s] # <<>> /\ device.queue[s][1].needs = {}
      /\ device' = Cuda!Performed(device, s) /\ Perform(work) /\ work = Cuda!Work(device, s)
      /\ 1 \in 1 .. Len(device.queue[s])
      /\ UNCHANGED <<mode, call, pc, todo, pending, outcome>>
  <2>1. device.queue[s] # <<>>
    BY DEF DeviceStep, Cuda!CanPerform
  <2>2. Head(device.queue[s]) = device.queue[s][1] /\ 1 \in 1 .. Len(device.queue[s])
    BY <1>2, <2>1, DeviceFacts
  <2> QED BY <2>1, <2>2 DEF DeviceStep, Cuda!CanPerform, Cuda!Work
<1>6. IsPerformed(device', device, s)
  BY <1>2, <1>5, PerformedFacts
<1> HIDE DEF p, h, work
<1>7. /\ D \subseteq 1 .. Len(p) /\ K \in Nat /\ U \subseteq 1 .. K /\ Closed(p, D)
      /\ \A k \in 1 .. K : k \in 1 .. Len(p)
  BY <1>3, <1>4 DEF Tracked, Placed
<1>8. OperationKnown(s, work)
  BY <1>1, <1>5 DEF OperationsKnown, work
<1>9. \A i \in 1 .. Len(p) : Writes(p[i].work) \subseteq DOMAIN mem
  BY <1>1, <1>2, <1>3, StepFacts, WritesWithin
<1>10. PICK V, at2 :
           /\ Tracked(call, p, device', K, V, at2)
           /\ Recorded(p, device, U, at) => Recorded(p, device', V, at2)
           /\ \/ \E j \in U : p[j].stream = s /\ p[j].work = work /\ V = U \ {j}
              \/ /\ V = U /\ call.mode = "host" /\ \A k \in 1 .. K : p[k].stream = s => k \in U
                 /\ work.op = "store" => work.id # call.id
  BY <1>2, <1>3, <1>4, <1>5, <1>6, PerformTracked DEF work
<1> DEFINE E == (1 .. K) \ V
<1> HIDE DEF D
<1>11. V \subseteq U
  BY <1>10
<1>12. /\ DOMAIN mem' = DOMAIN mem /\ Followed(p, h, E, mem') /\ Delivered(call, p, E, out')
       /\ work.op = "store" /\ work.id = call.id =>
            work.task \in 1 .. TaskCount(call) /\ mem[work.from] = Answer(call.id, work.task)
  <2>1. CASE \E j \in U : p[j].stream = s /\ p[j].work = work /\ V = U \ {j}
    <3>1. PICK j \in U : p[j].stream = s /\ p[j].work = work /\ V = U \ {j}
      BY <2>1
    <3>2. j \in 1 .. Len(p) /\ j \notin D /\ E = D \cup {j}
      BY <1>7, <3>1 DEF D
    <3>3. Closed(p, D \cup {j})
      BY <1>10, <3>2 DEF Tracked
    <3>4. \A i \in D : Writes(p[i].work) \subseteq DOMAIN mem
      BY <1>7, <1>9
    <3> HIDE DEF E
    <3>5. /\ DOMAIN mem' = DOMAIN mem /\ Followed(p, h, D \cup {j}, mem')
          /\ work.op = "store" => mem[work.from] = Answer(call.id, work.task)
      <4>1. Perform(p[j].work) /\ Writes(p[j].work) \subseteq DOMAIN mem
        BY <1>5, <1>9, <3>1, <3>2
      <4>2. Checked(call, p, h) /\ Followed(p, h, D, mem) /\ Closed(p, D)
        BY <1>3, <1>4, <1>7
      <4>3. /\ DOMAIN mem' = DOMAIN mem /\ Followed(p, h, D \cup {j}, mem')
            /\ p[j].work.op = "store" => mem[p[j].work.from] = Answer(call.id, p[j].work.task)
        BY <1>3, <3>2, <3>3, <3>4, <4>1, <4>2, OwnFollowed
      <4> QED BY <3>1, <4>3
    <3>6. Delivered(call, p, D \cup {j}, out')
      <4>1. Perform(p[j].work) /\ call.id \in DOMAIN out /\ D \in SUBSET (1 .. Len(p))
            /\ \A t \in 1 .. TaskCount(call) : t \in DOMAIN out[call.id]
        BY <1>1, <1>2, <1>5, <1>7, <3>1
      <4> QED BY <1>3, <1>4, <3>1, <3>2, <3>5, <4>1, OwnDelivered
    <3>7. work.op = "store" => work.task \in 1 .. TaskCount(call)
      BY <1>3, <3>1, <3>2 DEF StepsOf, Tidy
    <3> QED BY <3>2, <3>5, <3>6, <3>7
  <2>2. CASE /\ V = U /\ call.mode = "host" /\ \A k \in 1 .. K : p[k].stream = s => k \in U
             /\ work.op = "store" => work.id # call.id
    <3>1. E = D
      BY <2>2 DEF D
    <3>2. \A b \in Writes(work) : s = WriterOf(b)
      BY <1>1, <1>8, <2>2 DEF OperationKnown
    <3>3. Writes(work) \subseteq DOMAIN mem
      BY <1>1, <1>8 DEF OperationKnown
    <3>4. \A i \in D : p[i].stream # s /\ Writes(p[i].work) \subseteq DOMAIN mem
      BY <1>7, <1>9, <2>2 DEF D
    <3>5. D \in SUBSET (1 .. Len(p))
      BY <1>7
    <3> HIDE DEF E
    <3>6. DOMAIN mem' = DOMAIN mem /\ Followed(p, h, D, mem')
      BY <1>3, <1>4, <1>5, <2>2, <3>2, <3>3, <3>4, <3>5, StrayFollowed
    <3>7. Delivered(call, p, D, out')
      BY <1>1, <1>2, <1>4, <1>5, <2>2, StrayDelivered
    <3> QED BY <2>2, <3>1, <3>6, <3>7
  <2> HIDE DEF E
  <2> QED BY <1>10, <2>1, <2>2
<1>13. CallExact(K, V, at2)'
  <2>1. pc \in {"issue", "measure"} => Recorded(p, device', V, at2)
    BY <1>4, <1>10
  <2>2. pc = "measure" => \A k \in V : p[k].stream = "h2d"
    BY <1>4, <1>11
  <2> QED BY <1>4, <1>5, <1>10, <1>12, <2>1, <2>2 DEF CallExact, p, h
<1> QED BY <1>5, <1>12, <1>13

\* The device steps, whether or not a call is made.
LEMMA DeviceKeepsExact ==
  ASSUME ExecutorInv, ExactInv, NEW s \in Streams, DeviceStep(s)
  PROVE  ExactInv'
<1> DEFINE work == device.queue[s][1].work
<1>1. /\ TypeInv /\ CallsKnown /\ OperationsKnown /\ NothingLeft /\ Counted(device, Places(call))
      /\ DOMAIN out = Ids /\ ReturnedOutputsExact
  BY DEF ExecutorInv, ExactInv, CallsKnown
<1>2. device \in Devices /\ (pc # "idle" => call.id \in Ids /\ outcome[call.id] = "running")
  BY <1>1, IdsKnown
<1>3. /\ device.queue[s] # <<>> /\ device' = Cuda!Performed(device, s) /\ Perform(work)
      /\ work = Cuda!Work(device, s) /\ 1 \in 1 .. Len(device.queue[s])
      /\ UNCHANGED <<mode, call, pc, todo, pending, outcome>>
  <2>1. device.queue[s] # <<>>
    BY DEF DeviceStep, Cuda!CanPerform
  <2>2. Head(device.queue[s]) = device.queue[s][1] /\ 1 \in 1 .. Len(device.queue[s])
    BY <1>2, <2>1, DeviceFacts
  <2> QED BY <2>1, <2>2 DEF DeviceStep, Cuda!Work
<1>4. IsPerformed(device', device, s)
  BY <1>2, <1>3, PerformedFacts
<1>5. Counted(device', Places(call))
  <2>1. DOMAIN Places(call) \subseteq Events
    BY DEF Places
  <2> QED BY <1>1, <1>2, <1>3, <2>1, PerformCounts
<1> HIDE DEF work
<1>6. OperationKnown(s, work)
  BY <1>1, <1>3 DEF OperationsKnown, work
<1>7. /\ DOMAIN out' = Ids
      /\ \A id \in Ids : /\ DOMAIN out'[id] = DOMAIN out[id]
                         /\ ~(work.op = "store" /\ work.id = id) => out'[id] = out[id]
  BY <1>1, <1>3, StoreChanges
<1>8. DOMAIN mem' = DOMAIN mem
  <2>1. CASE pc = "idle"
    <3> DEFINE F == [holds |-> {}]
    <3>1. \A f \in F.holds : FALSE
      OBVIOUS
    <3>2. Writes(work) \subseteq DOMAIN mem
      BY <1>1, <1>6 DEF OperationKnown, CallsKnown
    <3> HIDE DEF F
    <3> QED BY <1>3, <3>1, <3>2, PerformPuts
  <2>2. CASE pc # "idle"
    <3>1. PICK K, U, at : CallExact(K, U, at)
      BY <2>2 DEF ExactInv
    <3> QED BY <1>5, <2>2, <3>1, DeviceExact
  <2> QED BY <2>1, <2>2
<1>9. CallsKnown'
  BY <1>1, <1>2, <1>3, <1>7, <1>8 DEF CallsKnown
<1>10. OperationsKnown'
  <2> SUFFICES ASSUME NEW t \in Streams, NEW i \in 1 .. Len(device'.queue[t])
               PROVE  OperationKnown(t, device'.queue[t][i].work)
    BY <1>3 DEF OperationsKnown, OperationKnown
  <2>1. i + One(t, s) \in 1 .. Len(device.queue[t])
        /\ device'.queue[t][i].work = device.queue[t][i + One(t, s)].work
    BY <1>4 DEF IsPerformed, IsAdvanced
  <2>2. OperationKnown(t, device.queue[t][i + One(t, s)].work)
    BY <1>1, <2>1 DEF OperationsKnown
  <2> QED BY <2>1, <2>2
<1>11. NothingLeft'
  BY <1>1, <1>3 DEF NothingLeft
<1>12. pc' # "idle" => \E K, U, at : CallExact(K, U, at)'
  <2> SUFFICES ASSUME pc # "idle" PROVE \E K, U, at : CallExact(K, U, at)'
    BY <1>3
  <2>1. PICK K, U, at : CallExact(K, U, at)
    BY DEF ExactInv
  <2>2. \E V, at2 : CallExact(K, V, at2)'
    BY <1>5, <2>1, DeviceExact
  <2> QED BY <2>2
<1>13. ReturnedOutputsExact'
  <2> SUFFICES ASSUME NEW id \in Ids, outcome[id] = "returned", NEW t \in DOMAIN out'[id]
               PROVE  out'[id][t] = Answer(id, t)
    BY <1>3 DEF ReturnedOutputsExact
  <2>1. ~(work.op = "store" /\ work.id = id)
    BY <1>2, <1>6 DEF OperationKnown
  <2>2. out'[id] = out[id]
    BY <1>7, <2>1
  <2> QED BY <1>1, <2>2 DEF ReturnedOutputsExact
<1> QED BY <1>3, <1>5, <1>9, <1>10, <1>11, <1>12, <1>13 DEF ExactInv

\* The next step of the program is enqueued, with all of its records or with none.
LEMMA EnqueueExact ==
  ASSUME ExecutorInv, ExactInv, pc = "issue", ~ProgramOver, NEW K, NEW U, NEW at, CallExact(K, U, at),
         NEW records, records \in {{}, Instruction.records}, Enqueue(records)
  PROVE  /\ Counted(device', Places(call))
         /\ \A s \in Streams : \A i \in 1 .. Len(device'.queue[s]) : OperationKnown(s, device'.queue[s][i].work)
         /\ Instruction = Program(call)[K + 1] /\ K + 1 \in 1 .. Len(Program(call))
         /\ K \in Nat /\ U \subseteq 1 .. K /\ (1 .. K + 1) \ (U \cup {K + 1}) = (1 .. K) \ U
         /\ \E at2 : /\ Tracked(call, Program(call), device', K + 1, U \cup {K + 1}, at2)
                     /\ records = Instruction.records
                          => Recorded(Program(call), device', U \cup {K + 1}, at2)
<1> DEFINE p == Program(call)
           x == Instruction
           waits == x.waits \cup (x.guards \cap pending)
<1>1. /\ TypeInv /\ MarksCounted(device) /\ LoadsAllowed /\ CallsKnown /\ OperationsKnown
      /\ ValidCall(call) /\ call.mode = mode /\ Counted(device, Places(call))
  BY DEF ExecutorInv, ExactInv, CallsKnown
<1>2. call.id \in Ids /\ call \in Calls /\ call.id \in 0 .. MaxCalls /\ device \in Devices
  BY <1>1, IdsKnown DEF TypeInv
<1>3. StepsOf(call, p) /\ Len(p) \in Nat
  BY <1>1, ProgramFacts
<1>4. /\ Tracked(call, p, device, K, U, at) /\ Recorded(p, device, U, at)
      /\ K + Len(todo) = Len(p) /\ \A k \in 1 .. Len(todo) : todo[k] = p[K + k]
      /\ \A k \in 1 .. K : p[k].records \cap FreeEvents \subseteq pending
  BY DEF CallExact
<1>5. x = todo[1] /\ 1 \in 1 .. Len(todo) /\ Len(todo) \in Nat \ {0}
  BY <1>1, TodoFacts
<1> HIDE DEF p, x
<1>6. K \in Nat /\ U \subseteq 1 .. K
  BY <1>3, <1>4 DEF Tracked, Placed
<1>7. x = p[K + 1] /\ K + 1 \in 1 .. Len(p) /\ K < Len(p)
  BY <1>3, <1>4, <1>5, <1>6
<1>8. (1 .. K + 1) \ (U \cup {K + 1}) = (1 .. K) \ U
  BY <1>6
<1>9. IsLaunched(device', device, x.stream, waits, x.work, records)
  BY <1>1, EnqueueKeeps DEF x
<1>10. /\ x.stream \in Streams /\ x.records \subseteq Events /\ x.waits \subseteq Events /\ x.guards \subseteq Events
       /\ x.work \in Works(call) /\ \A e \in x.records : x.stream = Places(call)[e]
  BY <1>3, <1>7, StepFacts
<1>11. Tidy(call, x)
  BY <1>3, <1>7 DEF StepsOf
<1>12. Counted(device', Places(call))
  <2>1. device' = Cuda!Launch(device, x.stream, waits, x.work, records)
    BY DEF Enqueue, x
  <2>2. waits \in SUBSET Events /\ records \in SUBSET Events /\ \A e \in records : x.stream = Places(call)[e]
    BY <1>10 DEF x
  <2>3. x.work \in WorksOf(0 .. MaxCalls)
    BY <1>2, <1>10, WorksWithin
  <2>4. DOMAIN Places(call) \subseteq Events
    BY DEF Places
  <2> HIDE DEF waits
  <2> QED BY <1>1, <1>2, <1>10, <2>1, <2>2, <2>3, <2>4, LaunchCounts
<1>13. ASSUME NEW s \in Streams, NEW i \in 1 .. Len(device'.queue[s])
       PROVE  OperationKnown(s, device'.queue[s][i].work)
  <2>1. CASE i \in 1 .. Len(device.queue[s])
    <3>1. device'.queue[s][i] = device.queue[s][i]
      BY <1>9, <2>1 DEF IsLaunched
    <3> QED BY <1>1, <2>1, <3>1 DEF OperationsKnown
  <2>2. CASE i \notin 1 .. Len(device.queue[s])
    <3>1. /\ Len(device'.queue[s]) = Len(device.queue[s]) + One(s, x.stream)
          /\ Len(device.queue[s]) \in Nat /\ One(s, x.stream) \in {0, 1}
      BY <1>2, <1>9, DeviceFacts, OneFacts DEF IsLaunched
    <3>2. One(s, x.stream) = 1 /\ i = Len(device.queue[s]) + 1
      BY <2>2, <3>1, NewPlace
    <3>3. s = x.stream
      BY <3>2, OneFacts
    <3>4. device'.queue[s][i].work = x.work
      BY <1>9, <3>2, <3>3 DEF IsLaunched
    <3>5. Writes(x.work) \subseteq Buffers(Ids) /\ (x.work.op = "store" => x.work.id = call.id)
      BY <1>2, <1>10, WritesWithin
    <3>6. mode = "host" => \A b \in Writes(x.work) : s = WriterOf(b)
      BY <1>1, <1>11, <3>3 DEF Tidy
    <3> QED BY <1>2, <3>4, <3>5, <3>6 DEF OperationKnown
  <2> QED BY <2>1, <2>2
<1>14. \A k \in 1 .. K : p[k].records \cap x.guards \subseteq waits
  BY <1>4, <1>11 DEF Tidy
<1>15. \E at2 : /\ Tracked(call, p, device', K + 1, U \cup {K + 1}, at2)
                /\ records = x.records => Recorded(p, device', U \cup {K + 1}, at2)
  <2>1. x.waits \subseteq waits
    OBVIOUS
  <2> HIDE DEF waits
  <2>2. /\ IsLaunched(device', device, p[K + 1].stream, waits, p[K + 1].work, records)
        /\ p[K + 1].waits \subseteq waits /\ \A k \in 1 .. K : p[k].records \cap p[K + 1].guards \subseteq waits
    BY <1>7, <1>9, <1>14, <2>1
  <2>3. \E at2 : /\ Tracked(call, p, device', K + 1, U \cup {K + 1}, at2)
                 /\ records = p[K + 1].records => Recorded(p, device', U \cup {K + 1}, at2)
    BY <1>1, <1>2, <1>3, <1>4, <1>7, <2>2, LaunchTracked
  <2> QED BY <1>7, <2>3
<1> QED BY <1>6, <1>7, <1>8, <1>12, <1>13, <1>15 DEF p, x

\* A step is issued with all its records.
LEMMA IssueKeepsExact == ExecutorInv /\ ExactInv /\ Issue => ExactInv'
<1> SUFFICES ASSUME ExecutorInv, ExactInv, Issue PROVE ExactInv'
  OBVIOUS
<1>1. /\ TypeInv /\ CallsKnown /\ ReturnedOutputsExact /\ pc = "issue" /\ ~ProgramOver
      /\ Enqueue(Instruction.records) /\ pending' = pending \cup Instruction.flags /\ todo' = Tail(todo)
      /\ UNCHANGED <<mode, call, pc, mem, out, outcome>>
  BY DEF Issue, ExecutorInv, ExactInv
<1>2. PICK K, U, at : CallExact(K, U, at)
  BY <1>1 DEF ExactInv
<1> DEFINE p == Program(call)
           V == U \cup {K + 1}
<1>3. /\ Counted(device', Places(call))
      /\ \A s \in Streams : \A i \in 1 .. Len(device'.queue[s]) : OperationKnown(s, device'.queue[s][i].work)
      /\ Instruction = p[K + 1] /\ K + 1 \in 1 .. Len(p)
      /\ K \in Nat /\ U \subseteq 1 .. K /\ (1 .. K + 1) \ V = (1 .. K) \ U
      /\ \E at2 : Tracked(call, p, device', K + 1, V, at2) /\ Recorded(p, device', V, at2)
  <2>1. Instruction.records \in {{}, Instruction.records}
    OBVIOUS
  <2> QED BY <1>1, <1>2, <2>1, EnqueueExact
<1>4. PICK at2 : Tracked(call, p, device', K + 1, V, at2) /\ Recorded(p, device', V, at2)
  BY <1>3
<1>5. /\ Followed(p, Analysis(call), (1 .. K) \ U, mem) /\ Delivered(call, p, (1 .. K) \ U, out)
      /\ K + Len(todo) = Len(p) /\ \A k \in 1 .. Len(todo) : todo[k] = p[K + k]
      /\ \A k \in 1 .. K : p[k].records \cap FreeEvents \subseteq pending
  BY <1>1, <1>2 DEF CallExact
<1>6. /\ Len(todo) \in Nat \ {0} /\ Len(Tail(todo)) = Len(todo) - 1
      /\ \A k \in 1 .. Len(todo) - 1 : Tail(todo)[k] = todo[k + 1]
  BY <1>1, TodoFacts
<1>7. Tidy(call, Instruction)
  <2>1. StepsOf(call, p)
    BY <1>1, ProgramFacts DEF CallsKnown
  <2> QED BY <1>3, <2>1 DEF StepsOf
<1> HIDE DEF p, V
<1>8. K + 1 + Len(todo') = Len(p) /\ \A k \in 1 .. Len(todo') : todo'[k] = p[K + 1 + k]
  <2>1. K + 1 + Len(todo') = Len(p)
    BY <1>1, <1>3, <1>5, <1>6
  <2>2. ASSUME NEW k \in 1 .. Len(todo') PROVE todo'[k] = p[K + 1 + k]
    <3>1. k \in 1 .. Len(todo) - 1 /\ k + 1 \in 1 .. Len(todo) /\ K + (k + 1) = K + 1 + k
      BY <1>1, <1>3, <1>6
    <3> QED BY <1>1, <1>5, <1>6, <3>1
  <2> QED BY <2>1, <2>2
<1>9. \A k \in 1 .. K + 1 : p[k].records \cap FreeEvents \subseteq pending'
  <2> SUFFICES ASSUME NEW k \in 1 .. K + 1 PROVE p[k].records \cap FreeEvents \subseteq pending'
    OBVIOUS
  <2>1. CASE k = K + 1
    BY <1>1, <1>3, <1>7, <2>1 DEF Tidy
  <2>2. CASE k \in 1 .. K
    BY <1>1, <1>5, <2>2
  <2> QED BY <1>3, <2>1, <2>2
<1>10. CallExact(K + 1, V, at2)'
  BY <1>1, <1>3, <1>4, <1>5, <1>8, <1>9 DEF CallExact, p
<1>11. OperationsKnown'
  BY <1>1, <1>3 DEF OperationsKnown, OperationKnown
<1>12. CallsKnown' /\ NothingLeft' /\ Counted(device', Places(call')) /\ ReturnedOutputsExact'
  BY <1>1, <1>3 DEF CallsKnown, NothingLeft, ReturnedOutputsExact
<1>13. \E L, W, at3 : CallExact(L, W, at3)'
  BY <1>10
<1> QED BY <1>11, <1>12, <1>13 DEF ExactInv

\* Where nothing of the call is pending, what is left belongs to others.
LEMMA NothingPending ==
  ASSUME NEW c, NEW p, NEW dev, NEW K, NEW at, Tracked(c, p, dev, K, {}, at),
         NEW s \in Streams, NEW i \in 1 .. Len(dev.queue[s])
  PROVE  c.mode = "host" /\ (dev.queue[s][i].work.op = "store" => dev.queue[s][i].work.id # c.id)
<1>1. ~Owned(p, {}, at, s, i)
  BY DEF Owned
<1> QED BY <1>1 DEF Tracked, Fronted

\* A call is left: with nothing pending, unless it is abandoned.
LEMMA LeaveExact ==
  ASSUME TypeInv, CallsKnown, ReturnedOutputsExact, pc # "idle",
         NEW how, Leave(how), UNCHANGED <<mode, call, mem, out>>,
         Counted(device', Places(call)),
         \A s \in Streams : \A i \in 1 .. Len(device'.queue[s]) : OperationKnown(s, device'.queue[s][i].work),
         how # "running", device' \in Devices,
         how = "abandoned" => mode = "host",
         how # "abandoned" => \E K, at : Tracked(call, Program(call), device', K, {}, at),
         how = "returned" => \A t \in 1 .. TaskCount(call) : out[call.id][t] = Answer(call.id, t)
  PROVE  ExactInv'
<1>1. /\ call.id \in Ids /\ outcome[call.id] = "running" /\ outcome \in [Ids -> Outcomes]
      /\ pc' = "idle" /\ outcome' = [outcome EXCEPT ![call.id] = how] /\ call.id \in Nat
  BY IdsKnown DEF TypeInv, Leave
<1>2. /\ outcome'[call.id] = how
      /\ \A id \in Ids : id # call.id => outcome'[id] = outcome[id]
  BY <1>1
<1>3. CallsKnown'
  <2>1. \A id \in Ids : id > call.id => outcome'[id] = "none"
    <3>1. \A id \in Ids : id > call.id => id # call.id
      BY <1>1
    <3> QED BY <1>2, <3>1 DEF CallsKnown
  <2>2. \A id \in Ids : outcome'[id] # "running"
    BY <1>2 DEF CallsKnown
  <2>3. DOMAIN out = Ids /\ DOMAIN mem = Buffers(Ids) /\ (call.mode = mode \/ call = NoCall)
    BY DEF CallsKnown
  <2>4. UNCHANGED <<mode, call, mem, out>> /\ pc' = "idle"
    BY <1>1
  <2> QED BY <2>1, <2>2, <2>3, <2>4 DEF CallsKnown
<1>4. ASSUME how # "abandoned", NEW s \in Streams, NEW i \in 1 .. Len(device'.queue[s])
      PROVE  mode = "host" /\ (device'.queue[s][i].work.op = "store" => device'.queue[s][i].work.id # call.id)
  <2>1. PICK K, at : Tracked(call, Program(call), device', K, {}, at)
    BY <1>4
  <2>2. call.mode = mode
    BY DEF CallsKnown
  <2> QED BY <2>1, <2>2, NothingPending
<1>5. OperationsKnown'
  <2> SUFFICES ASSUME NEW s \in Streams, NEW i \in 1 .. Len(device'.queue[s])
               PROVE  LET work == device'.queue[s][i].work IN
                      /\ Writes(work) \subseteq Buffers(Ids)
                      /\ mode' = "host" => \A b \in Writes(work) : s = WriterOf(b)
                      /\ work.op = "store" => work.id \in Ids /\ outcome'[work.id] = "abandoned"
    BY DEF OperationsKnown, OperationKnown
  <2> DEFINE work == device'.queue[s][i].work
  <2>1. OperationKnown(s, work)
    OBVIOUS
  <2>2. work.op = "store" /\ how # "abandoned" => work.id # call.id
    BY <1>4
  <2> HIDE DEF work
  <2>3. work.op = "store" => outcome'[work.id] = "abandoned"
    BY <1>1, <1>2, <2>1, <2>2 DEF OperationKnown
  <2>4. /\ Writes(work) \subseteq Buffers(Ids) /\ (work.op = "store" => work.id \in Ids)
        /\ mode' = "host" => \A b \in Writes(work) : s = WriterOf(b)
    BY <2>1 DEF OperationKnown
  <2> QED BY <2>3, <2>4 DEF work
<1>6. NothingLeft'
  <2> SUFFICES ASSUME mode = "device_consumer", NEW s \in Streams PROVE device'.queue[s] = <<>>
    BY DEF NothingLeft
  <2> SUFFICES ASSUME device'.queue[s] # <<>> PROVE FALSE
    OBVIOUS
  <2>1. 1 \in 1 .. Len(device'.queue[s])
    BY DeviceFacts
  <2> QED BY <1>4, <2>1
<1>7. ReturnedOutputsExact'
  <2> SUFFICES ASSUME NEW id \in Ids, outcome'[id] = "returned", NEW t \in DOMAIN out[id]
               PROVE  out[id][t] = Answer(id, t)
    BY DEF ReturnedOutputsExact
  <2>1. CASE id = call.id
    <3>1. DOMAIN out[call.id] = 1 .. TaskCount(call)
      BY DEF CallsKnown
    <3> QED BY <1>2, <2>1, <3>1
  <2>2. CASE id # call.id
    BY <1>2, <2>2 DEF ReturnedOutputsExact
  <2> QED BY <2>1, <2>2
<1> QED BY <1>1, <1>3, <1>5, <1>6, <1>7 DEF ExactInv

\* A call goes on without issuing.
LEMMA WaitExact ==
  ASSUME ExactInv, pc # "idle", pc' \in {"measure", "recover"}, UNCHANGED <<mode, call, mem, out, outcome>>,
         Counted(device', Places(call)),
         \A s \in Streams : \A i \in 1 .. Len(device'.queue[s]) : OperationKnown(s, device'.queue[s][i].work),
         NEW K, NEW U, NEW at, Tracked(call, Program(call), device', K, U, at),
         Followed(Program(call), Analysis(call), (1 .. K) \ U, mem), Delivered(call, Program(call), (1 .. K) \ U, out),
         pc' = "measure" => /\ Recorded(Program(call), device', U, at)
                            /\ K = Len(Program(call)) /\ Measured(call)
                            /\ \A k \in U : Program(call)[k].stream = "h2d"
  PROVE  ExactInv'
<1>1. CallExact(K, U, at)'
  BY DEF CallExact
<1>2. OperationsKnown'
  BY DEF OperationsKnown, OperationKnown
<1>3. CallsKnown' /\ NothingLeft' /\ Counted(device', Places(call')) /\ ReturnedOutputsExact'
  BY DEF ExactInv, CallsKnown, NothingLeft, ReturnedOutputsExact
<1>4. \E L, W, at2 : CallExact(L, W, at2)'
  BY <1>1
<1> QED BY <1>2, <1>3, <1>4 DEF ExactInv

\* An exception or an interrupt strikes inside a step.
LEMMA StopExact ==
  ASSUME ExecutorInv, ExactInv, StopInside, UNCHANGED <<mode, call, mem, out>>
  PROVE  /\ pc = "issue" /\ Counted(device', Places(call)) /\ device' \in Devices
         /\ \A s \in Streams : \A i \in 1 .. Len(device'.queue[s]) : OperationKnown(s, device'.queue[s][i].work)
         /\ \E K, U, at : /\ Tracked(call, Program(call), device', K, U, at)
                          /\ Followed(Program(call), Analysis(call), (1 .. K) \ U, mem)
                          /\ Delivered(call, Program(call), (1 .. K) \ U, out)
<1>1. /\ pc = "issue" /\ ~ProgramOver /\ Counted(device, Places(call)) /\ OperationsKnown
      /\ TypeInv /\ MarksCounted(device) /\ LoadsAllowed
  BY DEF StopInside, ExactInv, ExecutorInv
<1>2. device' \in Devices
  BY <1>1, StopKeeps
<1>3. PICK K, U, at : CallExact(K, U, at)
  BY <1>1 DEF ExactInv
<1>4. /\ Tracked(call, Program(call), device, K, U, at)
      /\ Followed(Program(call), Analysis(call), (1 .. K) \ U, mem) /\ Delivered(call, Program(call), (1 .. K) \ U, out)
  BY <1>3 DEF CallExact
<1>5. CASE UNCHANGED device
  <2>1. /\ Counted(device', Places(call)) /\ Tracked(call, Program(call), device', K, U, at)
        /\ \A s \in Streams : \A i \in 1 .. Len(device'.queue[s]) : OperationKnown(s, device'.queue[s][i].work)
    BY <1>1, <1>4, <1>5 DEF OperationsKnown
  <2> QED BY <1>1, <1>2, <1>4, <2>1
<1>6. ASSUME NEW records \in {{}, Instruction.records}, Enqueue(records)
      PROVE  /\ Counted(device', Places(call))
             /\ \A s \in Streams : \A i \in 1 .. Len(device'.queue[s]) : OperationKnown(s, device'.queue[s][i].work)
             /\ (1 .. K + 1) \ (U \cup {K + 1}) = (1 .. K) \ U
             /\ \E at2 : Tracked(call, Program(call), device', K + 1, U \cup {K + 1}, at2)
  BY <1>1, <1>3, <1>6, EnqueueExact
<1>7. \A records \in {{}, Instruction.records} :
        Enqueue(records) =>
          /\ Counted(device', Places(call))
          /\ \A s \in Streams : \A i \in 1 .. Len(device'.queue[s]) : OperationKnown(s, device'.queue[s][i].work)
          /\ \E L, W, at2 : /\ Tracked(call, Program(call), device', L, W, at2)
                            /\ (1 .. L) \ W = (1 .. K) \ U
  BY <1>6
<1>8. CASE Enqueue({}) \/ Enqueue(Instruction.records)
  <2>1. /\ Counted(device', Places(call))
        /\ \A s \in Streams : \A i \in 1 .. Len(device'.queue[s]) : OperationKnown(s, device'.queue[s][i].work)
        /\ \E L, W, at2 : Tracked(call, Program(call), device', L, W, at2) /\ (1 .. L) \ W = (1 .. K) \ U
    BY <1>7, <1>8
  <2>2. PICK L, W, at2 : Tracked(call, Program(call), device', L, W, at2) /\ (1 .. L) \ W = (1 .. K) \ U
    BY <2>1
  <2>3. Followed(Program(call), Analysis(call), (1 .. L) \ W, mem) /\ Delivered(call, Program(call), (1 .. L) \ W, out)
    BY <1>4, <2>2
  <2> QED BY <1>1, <1>2, <2>1, <2>2, <2>3
<1> QED BY <1>5, <1>8 DEF StopInside

\* An exception: the call recovers, or is abandoned by the split executor.
LEMMA RaiseKeepsExact == ExecutorInv /\ ExactInv /\ Raise => ExactInv'
<1> SUFFICES ASSUME ExecutorInv, ExactInv, Raise PROVE ExactInv'
  OBVIOUS
<1>1. /\ TypeInv /\ CallsKnown /\ ReturnedOutputsExact /\ StopInside /\ UNCHANGED <<mode, call, mem, out>>
  BY DEF ExecutorInv, ExactInv, Raise
<1>2. /\ pc = "issue" /\ Counted(device', Places(call)) /\ device' \in Devices
      /\ \A s \in Streams : \A i \in 1 .. Len(device'.queue[s]) : OperationKnown(s, device'.queue[s][i].work)
      /\ \E K, U, at : /\ Tracked(call, Program(call), device', K, U, at)
                       /\ Followed(Program(call), Analysis(call), (1 .. K) \ U, mem)
                       /\ Delivered(call, Program(call), (1 .. K) \ U, out)
  BY <1>1, StopExact
<1>3. CASE call.kind = "flash"
  <2>1. ValidCall(call) /\ call.mode = mode
    BY <1>1, <1>2 DEF CallsKnown
  <2>2. mode = "host"
    BY <1>3, <2>1, KindFacts
  <2>3. Leave("abandoned")
    BY <1>3 DEF Raise
  <2> QED BY <1>1, <1>2, <2>2, <2>3, LeaveExact
<1>4. CASE call.kind # "flash"
  <2>1. pc' = "recover" /\ UNCHANGED outcome
    BY <1>4 DEF Raise
  <2>2. PICK K, U, at : /\ Tracked(call, Program(call), device', K, U, at)
                        /\ Followed(Program(call), Analysis(call), (1 .. K) \ U, mem)
                        /\ Delivered(call, Program(call), (1 .. K) \ U, out)
    BY <1>2
  <2>3. pc # "idle" /\ pc' \in {"measure", "recover"} /\ pc' # "measure"
    BY <1>2, <2>1
  <2> QED BY <1>1, <1>2, <2>1, <2>2, <2>3, WaitExact
<1> QED BY <1>3, <1>4

\* Only calls in host mode are interrupted.
LEMMA InterruptKeepsExact ==
  ASSUME Interrupted \subseteq {"host"}
  PROVE  ExecutorInv /\ ExactInv /\ Interrupt => ExactInv'
<1> SUFFICES ASSUME ExecutorInv, ExactInv, Interrupt PROVE ExactInv'
  OBVIOUS
<1>1. /\ TypeInv /\ CallsKnown /\ ReturnedOutputsExact /\ UNCHANGED <<mode, call, mem, out>> /\ mode = "host"
      /\ Leave("abandoned") /\ OperationsKnown /\ Counted(device, Places(call)) /\ device \in Devices
  BY DEF ExecutorInv, ExactInv, Interrupt, TypeInv
<1>2. /\ pc # "idle" /\ Counted(device', Places(call)) /\ device' \in Devices
      /\ \A s \in Streams : \A i \in 1 .. Len(device'.queue[s]) : OperationKnown(s, device'.queue[s][i].work)
  <2>1. CASE StopInside
    BY <1>1, <2>1, StopExact
  <2>2. CASE Waiting /\ UNCHANGED device
    BY <1>1, <2>2 DEF Waiting, OperationsKnown
  <2> QED BY <2>1, <2>2 DEF Interrupt
<1> QED BY <1>1, <1>2, LeaveExact

\* Recovery waits for all streams of the call.
LEMMA RecoverKeepsExact == ExecutorInv /\ ExactInv /\ Recover => ExactInv'
<1> SUFFICES ASSUME ExecutorInv, ExactInv, Recover PROVE ExactInv'
  OBVIOUS
<1>1. /\ TypeInv /\ CallsKnown /\ ReturnedOutputsExact /\ UNCHANGED <<mode, call, device, mem, out>>
      /\ pc = "recover" /\ Leave("raised") /\ OperationsKnown /\ Counted(device, Places(call)) /\ device \in Devices
      /\ \A s \in RecoveredStreams : device.queue[s] = <<>>
  BY DEF ExecutorInv, ExactInv, Recover, TypeInv, StreamIdle
<1>2. PICK K, U, at : CallExact(K, U, at)
  BY <1>1 DEF ExactInv
<1>3. Tracked(call, Program(call), device, K, U, at)
  BY <1>2 DEF CallExact
<1>4. U = {}
  <2> SUFFICES ASSUME NEW k \in U PROVE FALSE
    OBVIOUS
  <2> DEFINE p == Program(call)
  <2>1. StepsOf(call, p)
    BY <1>1, ProgramFacts DEF CallsKnown
  <2> HIDE DEF p
  <2>2. k \in 1 .. Len(p) /\ at[k] \in 1 .. Len(device.queue[p[k].stream])
    BY <1>3, <2>1 DEF Tracked, Placed, StepsOf, p
  <2>3. p[k].stream \in CallStreams(call)
    BY <2>1, <2>2 DEF StepsOf, Tidy
  <2>4. CallStreams(call) = RecoveredStreams
    BY DEF CallStreams, RecoveredStreams
  <2>5. device.queue[p[k].stream] = <<>>
    BY <1>1, <2>3, <2>4
  <2> QED BY <2>2, <2>5
<1>5. Tracked(call, Program(call), device', K, {}, at)
  BY <1>1, <1>3, <1>4
<1>6. /\ Counted(device', Places(call)) /\ device' \in Devices
      /\ \A s \in Streams : \A i \in 1 .. Len(device'.queue[s]) : OperationKnown(s, device'.queue[s][i].work)
  BY <1>1 DEF OperationsKnown
<1>7. /\ "raised" # "running" /\ pc # "idle"
      /\ "raised" # "abandoned" => \E L, at2 : Tracked(call, Program(call), device', L, {}, at2)
      /\ "raised" = "abandoned" => mode = "host"
      /\ "raised" = "returned" => \A t \in 1 .. TaskCount(call) : out[call.id][t] = Answer(call.id, t)
  BY <1>1, <1>5
<1>8. UNCHANGED <<mode, call, mem, out>>
  BY <1>1
<1> QED BY <1>1, <1>6, <1>7, <1>8, LeaveExact

\* An event that was reached, behind the last step of a stream: none of the
\* stream is pending.
LEMMA EventOver ==
  ASSUME NEW c, NEW p, StepsOf(c, p), NEW h, Checked(c, p, h), h[0] = Start(c),
         NEW dev, NEW U, NEW at, Tracked(c, p, dev, Len(p), U, at), Recorded(p, dev, U, at),
         Counted(dev, Places(c)), NEW e \in Events, dev.unreached[e] = 0,
         NEW s, <<OnEvent(e), OnStream(s)>> \in h[Len(p)].known, NEW k \in U
  PROVE  p[k].stream # s
<1> DEFINE n == Len(p)
           D == (1 .. n) \ U
           f == <<OnEvent(e), OnStream(s)>>
<1>1. n \in Nat /\ U \subseteq 1 .. n /\ Closed(p, D)
  BY DEF StepsOf, Tracked, Placed
<1>2. ASSUME NEW i \in U, e \in p[i].records PROVE FALSE
  <2>1. p[i].stream \in Streams /\ at[i] \in 1 .. Len(dev.queue[p[i].stream])
    <3>1. i \in 1 .. Len(p)
      BY <1>1
    <3> QED BY <3>1, StepFacts DEF Tracked, Placed
  <2>2. PICK r \in dev.queue[p[i].stream][at[i]].records : r[1] = e
    BY <1>2 DEF Recorded
  <2>3. e \in DOMAIN Places(c)
    BY DEF Places
  <2> DEFINE t == p[i].stream
             j == at[i]
  <2> HIDE DEF t, j
  <2>4. t \in Streams /\ j \in 1 .. Len(dev.queue[t]) /\ r \in dev.queue[t][j].records
    BY <2>1, <2>2 DEF t, j
  <2>5. r[2] \in 1 .. dev.unreached[r[1]]
    BY <2>2, <2>3, <2>4 DEF Counted
  <2> QED BY <2>2, <2>5
<1>3. \A i \in 1 .. n : OnEvent(e) \in Tells(p[i]) => i \in D
  <2> SUFFICES ASSUME NEW i \in 1 .. n, OnEvent(e) \in Tells(p[i]), i \in U PROVE FALSE
    OBVIOUS
  <2>1. OnEvent(e) # OnStream(p[i].stream) /\ \A g : OnEvent(g) = OnEvent(e) => g = e
    BY DEF OnEvent, OnStream
  <2>2. e \in p[i].records
    BY <2>1 DEF Tells
  <2> QED BY <1>2, <2>2
<1>4. Behind(p, n, f[1], f[2])
  <2>1. Means(p, h, n)
    <3>1. n \in 0 .. Len(p)
      BY <1>1
    <3> QED BY <1>1, <3>1, AnalysisMeans
  <2> QED BY <2>1 DEF Means
<1>5. f[1] = OnEvent(e) /\ f[2] = OnStream(s)
  OBVIOUS
<1> HIDE DEF n, f
<1>6. \A i \in 1 .. n : OnStream(s) \in Touches(p[i]) => i \in D
  BY <1>1, <1>3, <1>4, <1>5 DEF Behind
<1>7. k \in 1 .. n /\ k \notin D
  BY <1>1
<1> QED BY <1>6, <1>7 DEF Touches

\* Everything of the call was performed: it returns.
LEMMA ReturnExact ==
  ASSUME ExecutorInv, ExactInv, pc # "idle", Leave("returned"), UNCHANGED <<mode, call, device, mem, out>>,
         NEW at, CallExact(Len(Program(call)), {}, at)
  PROVE  /\ \A t \in 1 .. TaskCount(call) : out[call.id][t] = Answer(call.id, t)
         /\ ExactInv'
<1> DEFINE p == Program(call)
           h == Analysis(call)
           n == Len(p)
<1>1. /\ TypeInv /\ CallsKnown /\ ReturnedOutputsExact /\ OperationsKnown /\ Counted(device, Places(call))
      /\ device \in Devices /\ ValidCall(call)
  BY DEF ExecutorInv, ExactInv, TypeInv, CallsKnown
<1>2. n \in Nat /\ Checked(call, p, h) /\ h[0] = Start(call) /\ Closing(call, h[n])
  BY <1>1, ProgramFacts
<1>3. Tracked(call, p, device, n, {}, at) /\ Delivered(call, p, (1 .. n) \ {}, out)
  BY DEF CallExact
<1> HIDE DEF p, h
<1>4. \A t \in 1 .. TaskCount(call) : out[call.id][t] = Answer(call.id, t)
  <2> SUFFICES ASSUME NEW t \in 1 .. TaskCount(call) PROVE out[call.id][t] = Answer(call.id, t)
    OBVIOUS
  <2>1. t \in h[n].stored
    BY <1>2 DEF Closing
  <2>2. Means(p, h, n)
    <3>1. n \in 0 .. Len(p)
      BY <1>2
    <3> QED BY <1>2, <3>1, AnalysisMeans
  <2>3. PICK i \in 1 .. n : p[i].work.op = "store" /\ p[i].work.task = t
    BY <2>1, <2>2 DEF Means, StoredBy
  <2> QED BY <1>3, <2>3 DEF Delivered
<1>5. Tracked(call, Program(call), device', n, {}, at)
  BY <1>1, <1>3 DEF p
<1> HIDE DEF n
<1>6. /\ Counted(device', Places(call)) /\ device' \in Devices
      /\ \A s \in Streams : \A i \in 1 .. Len(device'.queue[s]) : OperationKnown(s, device'.queue[s][i].work)
  BY <1>1 DEF OperationsKnown
<1>7. /\ "returned" # "running"
      /\ "returned" # "abandoned" => \E L, at2 : Tracked(call, Program(call), device', L, {}, at2)
      /\ "returned" = "abandoned" => mode = "host"
      /\ "returned" = "returned" => \A t \in 1 .. TaskCount(call) : out[call.id][t] = Answer(call.id, t)
  BY <1>4, <1>5
<1>8. UNCHANGED <<mode, call, mem, out>>
  OBVIOUS
<1>9. ExactInv'
  BY <1>1, <1>6, <1>7, <1>8, LeaveExact
<1> QED BY <1>4, <1>9

\* What the synchronizations at the end of a run leave.
LEMMA SynchronizedExact ==
  ASSUME ExecutorInv, ExactInv, pc = "issue", ProgramOver, OutputComplete, Cuda!Synchronized(device, PipelineEnd),
         NEW K, NEW U, NEW at, CallExact(K, U, at)
  PROVE  /\ K = Len(Program(call))
         /\ \A k \in U : Program(call)[k].stream = "h2d" /\ Measured(call)
<1> DEFINE p == Program(call)
           h == Analysis(call)
<1>1. ValidCall(call) /\ Counted(device, Places(call)) /\ todo = <<>> /\ device.unreached[PipelineEnd] = 0
  BY DEF ExactInv, CallsKnown, ProgramOver, Cuda!Synchronized
<1>2. StepsOf(call, p) /\ Len(p) \in Nat /\ Checked(call, p, h) /\ h[0] = Start(call) /\ Closing(call, h[Len(p)])
  BY <1>1, ProgramFacts
<1>3. Tracked(call, p, device, K, U, at) /\ Recorded(p, device, U, at) /\ K + Len(todo) = Len(p)
  BY DEF CallExact
<1> HIDE DEF p, h
<1>4. K = Len(p)
  <2>1. Len(todo) = 0 /\ K \in Nat
    BY <1>1, <1>2, <1>3 DEF Tracked, Placed
  <2> QED BY <1>3, <2>1
<1>5. Tracked(call, p, device, Len(p), U, at)
  BY <1>3, <1>4
<1>6. ASSUME NEW k \in U
      PROVE  p[k].stream \in Streams /\ at[k] \in 1 .. Len(device.queue[p[k].stream])
  <2>1. k \in 1 .. Len(p) /\ at[k] \in 1 .. Len(device.queue[p[k].stream])
    BY <1>5 DEF Tracked, Placed
  <2> QED BY <1>2, <2>1, StepFacts
<1>7. PipelineEnd \in Events /\ TaskDone \in Events
  BY EventFacts DEF Watched
<1>8. ASSUME NEW k \in U, NEW s \in Streams \ {OutputStream(call)}, s # "h2d" \/ ~Measured(call)
      PROVE  p[k].stream # s
  <2>1. <<OnEvent(PipelineEnd), OnStream(s)>> \in h[Len(p)].known
    BY <1>2, <1>8 DEF Closing
  <2> QED BY <1>1, <1>2, <1>3, <1>5, <1>7, <2>1, EventOver
<1>9. ASSUME NEW k \in U PROVE p[k].stream # OutputStream(call)
  <2>1. CASE Consumed(call) /\ Measured(call)
    <3>1. device.unreached[TaskDone] = 0
      BY <2>1 DEF OutputComplete, Cuda!Synchronized
    <3>2. <<OnEvent(TaskDone), OnStream(OutputStream(call))>> \in h[Len(p)].known
      BY <1>2, <2>1 DEF Closing
    <3> QED BY <1>1, <1>2, <1>3, <1>5, <1>7, <3>1, <3>2, EventOver
  <2>2. CASE ~(Consumed(call) /\ Measured(call))
    <3>1. device.queue[OutputStream(call)] = <<>>
      BY <2>2 DEF OutputComplete, OutputStream, StreamIdle
    <3>2. Len(device.queue[OutputStream(call)]) = 0
      BY <3>1
    <3> QED BY <1>6, <3>2
  <2> QED BY <2>1, <2>2
<1>10. \A k \in U : p[k].stream = "h2d" /\ Measured(call)
  <2> SUFFICES ASSUME NEW k \in U PROVE p[k].stream = "h2d" /\ Measured(call)
    OBVIOUS
  <2>1. p[k].stream \in Streams \ {OutputStream(call)}
    BY <1>6, <1>9
  <2> QED BY <1>8, <2>1
<1> QED BY <1>4, <1>10 DEF p

\* The end of a run.
LEMMA SynchronizeKeepsExact ==
  ExecutorInv /\ ExactInv /\ Synchronize =>
    /\ ExactInv'
    /\ outcome' # outcome => \A t \in 1 .. TaskCount(call) : out[call.id][t] = Answer(call.id, t)
<1> SUFFICES ASSUME ExecutorInv, ExactInv, Synchronize
             PROVE  /\ ExactInv'
                    /\ outcome' # outcome => \A t \in 1 .. TaskCount(call) : out[call.id][t] = Answer(call.id, t)
  OBVIOUS
<1>1. /\ pc = "issue" /\ pc # "idle" /\ ProgramOver /\ OutputComplete /\ Cuda!Synchronized(device, PipelineEnd)
      /\ UNCHANGED <<mode, call, device, mem, out>>
      /\ IF Measured(call) THEN pc' = "measure" /\ UNCHANGED outcome ELSE Leave("returned")
  BY DEF Synchronize
<1>2. PICK K, U, at : CallExact(K, U, at)
  BY <1>1 DEF ExactInv
<1>3. K = Len(Program(call)) /\ \A k \in U : Program(call)[k].stream = "h2d" /\ Measured(call)
  BY <1>1, <1>2, SynchronizedExact
<1>4. CASE Measured(call)
  <2>1. /\ Tracked(call, Program(call), device, K, U, at) /\ Recorded(Program(call), device, U, at)
        /\ Followed(Program(call), Analysis(call), (1 .. K) \ U, mem)
        /\ Delivered(call, Program(call), (1 .. K) \ U, out)
    BY <1>1, <1>2 DEF CallExact
  <2>2. pc' = "measure" /\ UNCHANGED outcome /\ pc' \in {"measure", "recover"}
    BY <1>1, <1>4
  <2>3. /\ Counted(device', Places(call)) /\ Tracked(call, Program(call), device', K, U, at)
        /\ \A s \in Streams : \A i \in 1 .. Len(device'.queue[s]) : OperationKnown(s, device'.queue[s][i].work)
        /\ Recorded(Program(call), device', U, at)
    BY <1>1, <2>1 DEF ExactInv, OperationsKnown
  <2>4. pc' = "measure" => /\ Recorded(Program(call), device', U, at)
                           /\ K = Len(Program(call)) /\ Measured(call)
                           /\ \A k \in U : Program(call)[k].stream = "h2d"
    BY <1>3, <1>4, <2>3
  <2>5. UNCHANGED <<mode, call, mem, out, outcome>>
    BY <1>1, <2>2
  <2>6. ExactInv'
    BY <1>1, <2>1, <2>2, <2>3, <2>4, <2>5, WaitExact
  <2> QED BY <2>2, <2>6
<1>5. CASE ~Measured(call)
  <2>1. U = {} /\ Leave("returned")
    BY <1>1, <1>3, <1>5
  <2>2. CallExact(Len(Program(call)), {}, at)
    BY <1>2, <1>3, <2>1
  <2> QED BY <1>1, <2>1, <2>2, ReturnExact
<1> QED BY <1>4, <1>5

\* The end of a measured run: its elapsed time can be read, or it recovers.
LEMMA MeasureKeepsExact ==
  ExecutorInv /\ ExactInv /\ Measure =>
    /\ ExactInv'
    /\ outcome' # outcome => \A t \in 1 .. TaskCount(call) : out[call.id][t] = Answer(call.id, t)
<1> SUFFICES ASSUME ExecutorInv, ExactInv, Measure
             PROVE  /\ ExactInv'
                    /\ outcome' # outcome => \A t \in 1 .. TaskCount(call) : out[call.id][t] = Answer(call.id, t)
  OBVIOUS
<1>1. /\ pc = "measure" /\ pc # "idle" /\ UNCHANGED <<mode, call, device, mem, out>>
      /\ IF Cuda!Synchronized(device, H2dEnd) THEN Leave("returned") ELSE pc' = "recover" /\ UNCHANGED outcome
      /\ ValidCall(call) /\ Counted(device, Places(call)) /\ OperationsKnown
  BY DEF Measure, ExactInv, CallsKnown
<1>2. PICK K, U, at : CallExact(K, U, at)
  BY <1>1 DEF ExactInv
<1> DEFINE p == Program(call)
           h == Analysis(call)
<1>3. /\ Tracked(call, p, device, K, U, at) /\ Recorded(p, device, U, at)
      /\ Followed(p, h, (1 .. K) \ U, mem) /\ Delivered(call, p, (1 .. K) \ U, out)
      /\ K = Len(p) /\ Measured(call) /\ \A k \in U : p[k].stream = "h2d"
  BY <1>1, <1>2 DEF CallExact
<1>4. StepsOf(call, p) /\ Checked(call, p, h) /\ h[0] = Start(call) /\ Closing(call, h[Len(p)])
  BY <1>1, ProgramFacts
<1>5. CASE Cuda!Synchronized(device, H2dEnd)
  <2>1. U = {}
    <3> SUFFICES ASSUME NEW k \in U PROVE FALSE
      OBVIOUS
    <3>1. <<OnEvent(H2dEnd), OnStream("h2d")>> \in h[Len(p)].known
      BY <1>3, <1>4 DEF Closing, OnH2d
    <3>2. H2dEnd \in Events /\ device.unreached[H2dEnd] = 0
      BY <1>5, EventFacts DEF Cuda!Synchronized
    <3>3. Tracked(call, p, device, Len(p), U, at)
      BY <1>3
    <3> HIDE DEF p, h
    <3>4. p[k].stream # "h2d"
      BY <1>1, <1>3, <1>4, <3>1, <3>2, <3>3, EventOver
    <3> QED BY <1>3, <3>4
  <2>2. CallExact(Len(Program(call)), {}, at) /\ Leave("returned")
    BY <1>1, <1>2, <1>3, <1>5, <2>1
  <2> QED BY <1>1, <2>2, ReturnExact
<1>6. CASE ~Cuda!Synchronized(device, H2dEnd)
  <2>1. pc' = "recover" /\ UNCHANGED outcome
    BY <1>1, <1>6
  <2>2. /\ pc' \in {"measure", "recover"} /\ pc' # "measure" /\ UNCHANGED <<mode, call, mem, out, outcome>>
        /\ Counted(device', Places(call)) /\ Tracked(call, Program(call), device', K, U, at)
        /\ \A s \in Streams : \A i \in 1 .. Len(device'.queue[s]) : OperationKnown(s, device'.queue[s][i].work)
    BY <1>1, <1>3, <2>1 DEF OperationsKnown
  <2>3. ExactInv'
    BY <1>1, <1>3, <2>2, WaitExact
  <2> QED BY <2>1, <2>3
<1> QED BY <1>5, <1>6

-----------------------------------------------------------------------------
(* Calls begin, and the theorems of the exact outputs. *)

\* A call begins on a device where only abandoned calls left operations.
LEMMA BeginKeepsExact == ExecutorInv /\ ExactInv /\ Begin => ExactInv'
<1> SUFFICES ASSUME ExecutorInv, ExactInv, Begin PROVE ExactInv'
  OBVIOUS
<1>1. /\ TypeInv /\ CallsKnown /\ OperationsKnown /\ NothingLeft /\ ReturnedOutputsExact
      /\ Counted(device, Places(call)) /\ device \in Devices /\ call.id \in Nat
      /\ pc = "idle" /\ pc' = "issue" /\ call.id < MaxCalls
      /\ outcome' = [outcome EXCEPT ![call.id + 1] = "running"] /\ outcome \in [Ids -> Outcomes]
      /\ todo' = Program(call') /\ UNCHANGED <<mode, pending, device, mem>>
  BY IdsKnown DEF ExecutorInv, ExactInv, Begin, TypeInv
<1>2. PICK kind \in KindsIn(mode) :
        /\ call' = [id |-> call.id + 1, mode |-> mode, kind |-> kind]
        /\ out' = [out EXCEPT ![call.id + 1] = [t \in 1 .. TaskCount(call') |-> Garbage]]
  BY DEF Begin
<1>3. /\ call'.id = call.id + 1 /\ call'.mode = mode /\ call'.kind = kind /\ call'.id \in Ids
      /\ mode \in {"host", "device_consumer"}
  BY <1>1, <1>2, ExecutorAssumption DEF Ids, TypeInv
<1>4. ValidCall(call')
  BY <1>1, <1>2, <1>3 DEF ValidCall, Calls, Kinds, KindsIn
<1>5. /\ DOMAIN out' = Ids /\ DOMAIN out'[call'.id] = 1 .. TaskCount(call')
      /\ \A id \in Ids : id # call'.id => out'[id] = out[id] /\ outcome'[id] = outcome[id]
      /\ outcome'[call'.id] = "running" /\ outcome[call'.id] = "none"
  <2>1. DOMAIN out = Ids /\ DOMAIN outcome = Ids /\ (call'.id > call.id => outcome[call'.id] = "none")
    BY <1>1, <1>3 DEF CallsKnown
  <2>2. call'.id > call.id
    BY <1>1, <1>3
  <2> DEFINE blank == [t \in 1 .. TaskCount(call') |-> Garbage]
             id == call'.id
  <2>3. id \in Ids /\ out' = [out EXCEPT ![id] = blank] /\ outcome' = [outcome EXCEPT ![id] = "running"]
    BY <1>1, <1>2, <1>3
  <2>4. DOMAIN blank = 1 .. TaskCount(call')
    OBVIOUS
  <2> HIDE DEF blank, id
  <2>5. /\ DOMAIN out' = Ids /\ out'[id] = blank /\ outcome'[id] = "running"
        /\ \A i \in Ids : i # id => out'[i] = out[i] /\ outcome'[i] = outcome[i]
    BY <2>1, <2>3
  <2> QED BY <2>1, <2>2, <2>4, <2>5 DEF id
<1>6. CallsKnown'
  <2>1. \A id \in Ids : id > call'.id => outcome'[id] = "none"
    <3> SUFFICES ASSUME NEW id \in Ids, id > call'.id PROVE outcome'[id] = "none"
      OBVIOUS
    <3>1. id > call.id /\ id # call'.id
      BY <1>1, <1>3, <1>3 DEF Ids
    <3> QED BY <1>1, <1>5, <3>1 DEF CallsKnown
  <2>2. \A id \in Ids : outcome'[id] = "running" => id = call'.id /\ pc' # "idle"
    BY <1>1, <1>5 DEF CallsKnown
  <2>3. DOMAIN mem' = Buffers(Ids)
    BY <1>1 DEF CallsKnown
  <2> QED BY <1>1, <1>3, <1>4, <1>5, <2>1, <2>2, <2>3 DEF CallsKnown
\* What is pending belongs to calls that were abandoned.
<1>7. ASSUME NEW s \in Streams, NEW i \in 1 .. Len(device.queue[s])
      PROVE  LET work == device.queue[s][i].work IN
             /\ mode = "host" /\ Writes(work) \subseteq Buffers(Ids) /\ \A b \in Writes(work) : s = WriterOf(b)
             /\ work.op = "store" => work.id \in Ids /\ work.id # call'.id /\ outcome'[work.id] = "abandoned"
  <2> DEFINE work == device.queue[s][i].work
  <2>1. OperationKnown(s, work)
    BY <1>1 DEF OperationsKnown
  <2>2. device.queue[s] # <<>>
    OBVIOUS
  <2>3. mode = "host"
    BY <1>1, <1>3, <2>2 DEF NothingLeft
  <2> HIDE DEF work
  <2>4. work.op = "store" => work.id \in Ids /\ outcome[work.id] = "abandoned"
    BY <1>1, <2>1 DEF OperationKnown
  <2>5. work.op = "store" => work.id # call'.id /\ outcome'[work.id] = "abandoned"
    BY <1>5, <2>4
  <2>6. Writes(work) \subseteq Buffers(Ids) /\ \A b \in Writes(work) : s = WriterOf(b)
    BY <2>1, <2>3 DEF OperationKnown
  <2> QED BY <2>3, <2>4, <2>5, <2>6 DEF work
<1>8. OperationsKnown'
  BY <1>1, <1>7 DEF OperationsKnown, OperationKnown
<1>9. Counted(device', Places(call'))
  <2>0. DOMAIN Places(call) = Events /\ DOMAIN Places(call') = Events /\ device' = device
    BY <1>1 DEF Places
  <2>1. CASE mode = "host"
    <3>1. call.mode = "host"
      BY <1>1, <2>1 DEF CallsKnown, NoCall
    <3>2. \A e \in Events : PlaceOf(call', e) = PlaceOf(call, e)
      BY <1>3, <2>1, <3>1 DEF PlaceOf
    <3>3. Places(call') = Places(call)
      BY <3>2 DEF Places
    <3> QED BY <1>1, <2>0, <3>3
  <2>2. CASE mode # "host"
    <3>1. \A s \in Streams : Len(device.queue[s]) = 0
      BY <1>1, <1>3, <2>2 DEF NothingLeft
    <3>2. \A e \in Events : device.unreached[e] \in Nat
      BY <1>1, <2>0 DEF Counted
    <3> QED BY <2>0, <3>1, <3>2 DEF Counted
  <2> QED BY <2>1, <2>2
<1>10. CallExact(0, {}, <<>>)'
  <2> DEFINE p == Program(call')
  <2>1. Len(p) \in Nat
    BY <1>4, ProgramFacts
  <2> HIDE DEF p
  <2>2. Placed(p, device, 0, {}, <<>>)
    BY <2>1 DEF Placed
  <2>3. Fronted(call', p, device, 0, {}, <<>>)
    BY <1>3, <1>7 DEF Fronted
  <2>4. Waited(p, device, {}, <<>>) /\ Recorded(p, device, {}, <<>>) /\ (1 .. 0) \ {} = {}
    BY DEF Waited, Recorded
  <2>5. Closed(p, (1 .. 0) \ {})
    BY <2>4 DEF Closed
  <2>6. Followed(p, Analysis(call'), (1 .. 0) \ {}, mem') /\ Delivered(call', p, (1 .. 0) \ {}, out')
    BY <2>4 DEF Followed, Delivered
  <2>7. 0 + Len(todo') = Len(p) /\ \A k \in 1 .. Len(todo') : todo'[k] = p[0 + k]
    BY <1>1, <2>1 DEF p
  <2>8. Tracked(call', p, device', 0, {}, <<>>) /\ Recorded(p, device', {}, <<>>)
    BY <1>1, <2>2, <2>3, <2>4, <2>5 DEF Tracked
  <2>9. pc' # "measure" /\ \A k \in 1 .. 0 : p[k].records \cap FreeEvents \subseteq pending'
    BY <1>1
  <2> QED BY <1>1, <2>6, <2>7, <2>8, <2>9 DEF CallExact, p
<1>11. \E K, U, at : CallExact(K, U, at)'
  BY <1>10
<1>12. ReturnedOutputsExact'
  <2> SUFFICES ASSUME NEW id \in Ids, outcome'[id] = "returned", NEW t \in DOMAIN out'[id]
               PROVE  out'[id][t] = Answer(id, t)
    BY DEF ReturnedOutputsExact
  <2>1. id # call'.id
    BY <1>5
  <2> QED BY <1>1, <1>5, <2>1 DEF ReturnedOutputsExact
<1>13. NothingLeft'
  BY <1>1 DEF NothingLeft
<1> QED BY <1>6, <1>8, <1>9, <1>11, <1>12, <1>13 DEF ExactInv

\* Nothing was called yet.
LEMMA ExactStarts == Init => ExactInv
<1> SUFFICES ASSUME Init PROVE ExactInv
  OBVIOUS
<1>1. /\ device = Cuda!Device(Streams, Events) /\ pc = "idle" /\ call = NoCall
      /\ outcome = [id \in Ids |-> "none"] /\ mem = [b \in Buffers(Ids) |-> Garbage]
      /\ out = [id \in Ids |-> <<>>]
  BY DEF Init
<1>2. (\A s \in Streams : device.queue[s] = <<>> /\ Len(device.queue[s]) = 0) /\ \A e \in Events : device.unreached[e] = 0
  BY <1>1 DEF Cuda!Device
<1>3. CallsKnown
  BY <1>1 DEF CallsKnown
<1>4. OperationsKnown /\ NothingLeft
  BY <1>2 DEF OperationsKnown, NothingLeft
<1>5. Counted(device, Places(call))
  <2>1. DOMAIN Places(call) = Events
    BY DEF Places
  <2> QED BY <1>2, <2>1 DEF Counted
<1>6. ReturnedOutputsExact
  BY <1>1 DEF ReturnedOutputsExact
<1> QED BY <1>1, <1>3, <1>4, <1>5, <1>6 DEF ExactInv

\* Every step.
LEMMA ExactStep ==
  ASSUME Interrupted \subseteq {"host"}
  PROVE  ExecutorInv /\ ExactInv /\ [Next]_vars => ExactInv'
<1> SUFFICES ASSUME ExecutorInv, ExactInv, [Next]_vars PROVE ExactInv'
  OBVIOUS
<1>1. CASE Host
  BY <1>1, BeginKeepsExact, IssueKeepsExact, SynchronizeKeepsExact, MeasureKeepsExact, RecoverKeepsExact DEF Host
<1>2. CASE Raise \/ Interrupt
  BY <1>2, RaiseKeepsExact, InterruptKeepsExact
<1>3. CASE \E s \in Streams : DeviceStep(s)
  BY <1>3, DeviceKeepsExact
<1>4. CASE UNCHANGED vars
  <2>1. UNCHANGED <<mode, call, pc, todo, pending, device, mem, out, outcome>>
    BY <1>4 DEF vars
  <2>2. CallsKnown' /\ OperationsKnown' /\ NothingLeft' /\ Counted(device', Places(call')) /\ ReturnedOutputsExact'
    BY <2>1 DEF ExactInv, CallsKnown, OperationsKnown, OperationKnown, NothingLeft, ReturnedOutputsExact
  <2>3. pc' # "idle" => \E K, U, at : CallExact(K, U, at)'
    BY <2>1 DEF ExactInv, CallExact
  <2> QED BY <2>2, <2>3 DEF ExactInv
<1> QED BY <1>1, <1>2, <1>3, <1>4 DEF Next, Finished

\* Where only runners in host mode are interrupted, what a call enqueued is
\* performed as if one step after the other, in whatever order the streams of
\* the workspace run and whatever abandoned calls left on them.
THEOREM ExactInvariant ==
  ASSUME Interrupted \subseteq {"host"}
  PROVE  Spec => []ExactInv
<1>1. ExecutorInv /\ ExactInv /\ [Next]_vars => ExactInv'
  BY ExactStep
<1> QED BY <1>1, ExactStarts, ExecutorInvariant, PTL DEF Spec

\* A call that returned wrote the exact attention of its own inputs, and its
\* destination stays that way, whatever earlier calls that raised or were left
\* at once still have pending (run_query_tasks, CudaWorkspace): for every number
\* of tasks, tiles, buffers and calls, every kind of call and every order of the
\* streams, where only runners in host mode are interrupted.
THEOREM ReturnedOutputsAreExact ==
  ASSUME Interrupted \subseteq {"host"}
  PROVE  Spec => []ReturnedOutputsExact
<1>1. ExactInv => ReturnedOutputsExact
  BY DEF ExactInv
<1> QED BY <1>1, ExactInvariant, PTL

-----------------------------------------------------------------------------
(* The promise of AttentionCalls. *)

\* A call is left: it ended, exact if it returned.
LEMMA LeaveEnds ==
  ASSUME TypeInv, pc # "idle", NEW how \in {"returned", "raised", "abandoned"}, Leave(how), UNCHANGED out,
         how = "returned" => \A t \in DOMAIN out[call.id] : out[call.id][t] = Answer(call.id, t)
  PROVE  Promise!Next
<1>1. call.id \in Ids /\ outcome[call.id] = "running"
  BY IdsKnown
<1>2. Promise!End(call.id, how)
  BY <1>1 DEF Promise!End, Leave
<1> QED BY <1>1, <1>2 DEF Promise!Next

\* The device delivers an answer, or strays in what was abandoned.
LEMMA DeviceDelivers ==
  ASSUME ExecutorInv, ExactInv, NEW s \in Streams, DeviceStep(s)
  PROVE  [Promise!Next]_Promise!absVars
<1> DEFINE work == device.queue[s][1].work
<1>1. /\ TypeInv /\ CallsKnown /\ OperationsKnown /\ DOMAIN out = Ids
      /\ (pc # "idle" => DOMAIN out[call.id] = 1 .. TaskCount(call))
  BY DEF ExecutorInv, ExactInv, CallsKnown
<1>2. device \in Devices /\ (pc # "idle" => call.id \in Ids /\ outcome[call.id] = "running")
  BY <1>1, IdsKnown
<1>3. /\ Perform(work) /\ work = Cuda!Work(device, s) /\ 1 \in 1 .. Len(device.queue[s])
      /\ UNCHANGED <<mode, call, pc, todo, pending, outcome>>
  <2>1. device.queue[s] # <<>>
    BY DEF DeviceStep, Cuda!CanPerform
  <2>2. Head(device.queue[s]) = device.queue[s][1] /\ 1 \in 1 .. Len(device.queue[s])
    BY <1>2, <2>1, DeviceFacts
  <2> QED BY <2>1, <2>2 DEF DeviceStep, Cuda!Work
<1>4. Counted(device', Places(call))
  <2>1. ExactInv'
    BY DeviceKeepsExact
  <2> QED BY <1>3, <2>1 DEF ExactInv
<1>5. OperationKnown(s, work)
  BY <1>1, <1>3 DEF OperationsKnown
<1> HIDE DEF work
<1>6. CASE work.op # "store"
  BY <1>3, <1>6, PerformStores DEF Promise!absVars
<1>7. CASE work.op = "store" /\ outcome[work.id] = "abandoned"
  <2>1. \A id \in Ids \ {work.id} : out'[id] = out[id]
    BY <1>1, <1>3, StoreChanges
  <2>2. work.id \in Ids
    BY <1>5, <1>7 DEF OperationKnown
  <2>3. Promise!Stray(work.id)
    BY <1>3, <1>7, <2>1 DEF Promise!Stray
  <2> QED BY <2>2, <2>3 DEF Promise!Next
<1>8. CASE work.op = "store" /\ work.id = call.id /\ pc # "idle"
  <2>1. PICK K, U, at : CallExact(K, U, at)
    BY <1>8 DEF ExactInv
  <2>2. work.task \in 1 .. TaskCount(call) /\ mem[work.from] = Answer(call.id, work.task)
    BY <1>3, <1>4, <1>8, <2>1, DeviceExact
  <2>3. out' = [out EXCEPT ![call.id][work.task] = Answer(call.id, work.task)]
    BY <1>3, <1>8, <2>2, PerformStores
  <2>4. Promise!Deliver(call.id, work.task)
    BY <1>2, <1>3, <1>8, <2>3 DEF Promise!Deliver
  <2> QED BY <1>1, <1>2, <1>8, <2>2, <2>4 DEF Promise!Next
<1> QED BY <1>5, <1>6, <1>7, <1>8 DEF OperationKnown

\* Every step of the executor is a step of its promise, or none.
LEMMA PromiseStep ==
  ASSUME ExecutorInv, ExactInv, [Next]_vars
  PROVE  [Promise!Next]_Promise!absVars
<1>1. TypeInv /\ CallsKnown
  BY DEF ExecutorInv, ExactInv
<1>2. CASE Begin
  <2> DEFINE id == call.id + 1
             n == TaskCount(call')
  <2>1. /\ pc = "idle" /\ call.id < MaxCalls /\ outcome' = [outcome EXCEPT ![id] = "running"]
        /\ out' = [out EXCEPT ![id] = [t \in 1 .. n |-> Garbage]]
    BY <1>2 DEF Begin
  <2>2. id \in Ids /\ id > call.id
    BY <1>1, <2>1, IdsKnown, ExecutorAssumption DEF Ids
  <2>3. n \in 1 .. NumTasks
    BY ProgramAssumption DEF TaskCount
  <2> HIDE DEF id, n
  <2>4. outcome[id] = "none" /\ \A i \in Ids : outcome[i] # "running"
    BY <1>1, <2>1, <2>2 DEF CallsKnown
  <2>5. Promise!Begin(id, n)
    BY <2>1, <2>4 DEF Promise!Begin
  <2> QED BY <2>2, <2>3, <2>5 DEF Promise!Next
<1>3. CASE Issue
  BY <1>3 DEF Issue, Promise!absVars
<1>4. CASE Synchronize \/ Measure
  <2>1. pc # "idle" /\ (UNCHANGED outcome \/ Leave("returned")) /\ UNCHANGED out
    BY <1>4 DEF Synchronize, Measure
  <2>2. outcome' # outcome => \A t \in 1 .. TaskCount(call) : out[call.id][t] = Answer(call.id, t)
    BY <1>4, SynchronizeKeepsExact, MeasureKeepsExact
  <2>3. DOMAIN out[call.id] = 1 .. TaskCount(call)
    BY <1>1, <2>1 DEF CallsKnown
  <2>4. CASE UNCHANGED outcome
    BY <2>1, <2>4 DEF Promise!absVars
  <2>5. CASE outcome' # outcome
    <3>1. Leave("returned") /\ \A t \in DOMAIN out[call.id] : out[call.id][t] = Answer(call.id, t)
      BY <2>1, <2>2, <2>3, <2>5
    <3> QED BY <1>1, <2>1, <3>1, LeaveEnds
  <2> QED BY <2>4, <2>5
<1>5. CASE Recover
  <2>1. pc # "idle" /\ Leave("raised") /\ UNCHANGED out
    BY <1>5 DEF Recover
  <2> QED BY <1>1, <2>1, LeaveEnds
<1>6. CASE Raise \/ Interrupt
  <2>1. pc # "idle" /\ (UNCHANGED outcome \/ Leave("abandoned")) /\ UNCHANGED out
    BY <1>6 DEF Raise, Interrupt, StopInside, Waiting
  <2>2. CASE UNCHANGED outcome
    BY <2>1, <2>2 DEF Promise!absVars
  <2>3. CASE Leave("abandoned")
    BY <1>1, <2>1, <2>3, LeaveEnds
  <2> QED BY <2>1, <2>2, <2>3
<1>7. CASE \E s \in Streams : DeviceStep(s)
  BY <1>7, DeviceDelivers
<1>8. CASE UNCHANGED vars
  BY <1>8 DEF vars, Promise!absVars
<1> QED BY <1>2, <1>3, <1>4, <1>5, <1>6, <1>7, <1>8 DEF Next, Host, Finished

\* Serial calls on one runner implement AttentionCalls under the same
\* assumption: each writes exact rows into its own destination only, returns
\* when all are there, and writes nothing once it returned or raised
\* (run_query_tasks and _recover_triton_failure).
THEOREM StreamingKeepsItsPromise ==
  ASSUME Interrupted \subseteq {"host"}
  PROVE  Spec => KeepsItsPromise
<1>1. Init => Promise!Init
  BY DEF Init, Promise!Init
<1>2. ExecutorInv /\ ExactInv /\ [Next]_vars => [Promise!Next]_Promise!absVars
  BY PromiseStep
<1>3. Spec => []ExactInv
  BY ExactInvariant
<1> QED BY <1>1, <1>2, <1>3, ExecutorInvariant, PTL DEF Spec, KeepsItsPromise, Promise!Spec
=============================================================================
