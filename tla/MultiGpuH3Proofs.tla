-------------------------- MODULE MultiGpuH3Proofs --------------------------
(***************************************************************************)
(* A multi-GPU H3 call leaves every device empty, computes with leased     *)
(* weights only, and keeps the promise of BlockCalls: for any number of    *)
(* devices, rows, blocks and output slots, any sizes of tiles and Q        *)
(* ranges, and exceptions of any workers.                                  *)
(*                                                                         *)
(* First the programs of the tasks, then the streams of one device that    *)
(* executes them, then the workers, and last what the rows hold.           *)
(***************************************************************************)
EXTENDS MultiGpuH3, FiniteSetTheorems, SequenceTheorems, TLAPS

-----------------------------------------------------------------------------
(* The programs of the two tasks, instruction by instruction. *)

Ring == <<"self", "self">>
Copies == H2d(<<"self", "attention">>)
Hidden0 == <<"hidden", "video", 0>>
LeaseNamed(do) == <<"self", IF do = "project" THEN "projection" ELSE "consumer">>

Size(task) == IF task.do = "project" THEN 4 ELSE 10
Act(task, i) == Programs[task][i].do

ProjectActs(task) ==
  LET v == task.block + 1
      range == Slice(task.start, task.stop)
      rows == Rows("video", task.block, range)
      result == Tile("q", "video", v, range) \cup Tile("kv", "video", v, range)
  IN  <<Op(H2d(Ring), {}, {}, At(Hidden0, rows), Holds(Staged(Ring, 0), rows),
           {InputReady(Ring, 0)}, {}, {}),
        Op(Compute, {}, {InputReady(Ring, 0)}, Holds(Staged(Ring, 0), rows),
           Holds(Block(Ring, 0), result), {ResultReady(Ring, 0)}, {}, {LeaseNamed("project")}),
        Op(D2h(Ring), {}, {ResultReady(Ring, 0)}, Holds(Block(Ring, 0), result),
           At(ArenaTensor("video", "q"), Tile("q", "video", v, range))
             \cup At(ArenaTensor("video", "kv"), Tile("kv", "video", v, range)),
           {CopyDone(Ring, 0)}, {CopyDone(Ring, 0)}, {}),
        Wait({}, {CopyDone(Ring, 0)}, {}, {CopyDone(Ring, 0)})>>

\* Where an attend task keeps its Q chunk, the K/V tile and its output tile.
Q0 == <<"q", "self">>
Kv0 == <<"kv", "self">>
Slot(task) == OutputSlot("video", task.slot % OutputBuffers)
Written(task) == OutputFree("video", task.slot % OutputBuffers)
Computed(task) == OutputReady("video", task.slot % OutputBuffers)

ChunkPosts(task) ==
  {<<<<"chunk", "video", 0 + r - task.start>>, Tile("post", "video", task.block + 1, {r})>> :
     r \in Slice(task.start, task.stop)}

AttendActs(task) ==
  LET v == task.block + 1
      range == Slice(task.start, task.stop)
      context == Slice(0, RowCount)
      q == Tile("q", "video", v, range)
      kv == Tile("kv", "video", v, context)
      attention == Tile("attention", "video", v, range)
      rows == Rows("video", v, range)
  IN  <<Op(Copies, {<<"q_free", "self">>}, {}, At(ArenaTensor("video", "q"), q), Holds(Q0, q),
           {<<"q_ready", "self">>}, {}, {}),
        Op(Copies, {<<"kv_free", "self">>}, {}, At(ArenaTensor("video", "kv"), kv), Holds(Kv0, kv),
           {<<"kv_ready", "self">>}, {}, {}),
        Op(Compute, {}, {<<"q_ready", "self">>, <<"kv_ready", "self">>},
           Holds(Q0, q) \cup Holds(Kv0, kv) \cup {}, Holds(Q0, attention),
           {<<"kv_free", "self">>}, {<<"kv_free", "self">>}, {}),
        Op(Compute, {}, {},
           Holds(Q0, attention) \cup At(Hidden0, Rows("video", task.block, range)),
           ChunkPosts(task), {}, {}, {LeaseNamed("attend")}),
        Op(Compute, {Written(task)}, {}, ChunkPosts(task), Holds(Slot(task), rows),
           {Computed(task)}, {}, {LeaseNamed("attend")}),
        Op(Writer("video"), {}, {Computed(task)}, Holds(Slot(task), rows), At(Hidden0, rows),
           {Written(task)}, {Written(task)}, {}),
        Op(Writer("video"), {}, {}, {}, {}, {<<"task_done", "self">>}, {}, {}),
        Op(Compute, {}, {}, {}, {}, {<<"q_free", "self">>}, {<<"q_free", "self">>}, {}),
        Op(Compute, {}, {}, {}, {}, {<<"pipeline_end", "self">>}, {}, {}),
        Wait({}, {<<"task_done", "self">>, <<"pipeline_end", "self">>}, {}, {})>>

IsStage(stage, b) ==
  /\ stage.name = "self" /\ stage.m = "video" /\ stage.v = b + 1
  /\ stage.query = [tensor |-> Hidden0, m |-> "video", v |-> b]
  /\ stage.context = stage.query
  /\ stage.target = Hidden0
  /\ stage.policy = "materialized" /\ stage.arena = "video" /\ stage.out = "video"
  /\ stage.sparse = FALSE
  /\ IsSelf(stage) /\ ~Recomputes(stage)
  /\ QueryStaging(stage) = Ring

LEMMA StageIs ==
  ASSUME NEW b \in Nat
  PROVE  IsStage(StageOf(b), b)
<1>1. b + 1 - 1 = b
  OBVIOUS
<1> DEFINE given == [tensor |-> Hidden0, m |-> "video", v |-> b]
           stage == StageOf(b)
<1>2. Hidden("video", 0, b + 1 - 1) = given
  BY <1>1 DEF Hidden, Tensor, Hidden0
<1> HIDE DEF given
<1>3. /\ stage.name = "self" /\ stage.m = "video" /\ stage.v = b + 1
      /\ stage.query = given /\ stage.context = given
      /\ stage.target = Hidden0
      /\ stage.policy = "materialized" /\ stage.arena = "video" /\ stage.out = "video"
      /\ stage.sparse = FALSE
  BY <1>2 DEF StageOf, SelfStage, Stage, Runner, Tensor, Hidden0
<1> HIDE DEF stage
<1>4. IsSelf(stage) /\ ~Recomputes(stage) /\ QueryStaging(stage) = Ring
  BY <1>3 DEF IsSelf, Recomputes, QueryStaging, Ring
<1>5. IsStage(stage, b)
  BY <1>3, <1>4 DEF given, IsStage
<1> QED BY <1>5 DEF stage

LEMMA TaskFacts ==
  ASSUME NEW task \in Tasks
  PROVE  /\ task.do \in {"project", "attend"} /\ task.block \in 0 .. BlockCount - 1
         /\ task.start \in 0 .. RowCount - 1 /\ task.stop \in 1 .. RowCount
         /\ task.start < task.stop /\ task.slot \in 0 .. OutputBuffers - 1
         /\ task.block \in Nat
         /\ Programs[task] = TaskProgram(task)
<1>1. Programs[task] = TaskProgram(task)
  BY DEF Programs, Table
<1>2. /\ task.do \in {"project", "attend"} /\ task.block \in 0 .. BlockCount - 1
      /\ task.start \in 0 .. RowCount - 1 /\ task.stop \in 1 .. RowCount
      /\ task.start < task.stop /\ task.slot \in 0 .. OutputBuffers - 1
  BY MultiGpuH3Assumption DEF Tasks, Ranges
<1> QED BY <1>1, <1>2, MultiGpuH3Assumption

\* t is a and then b, over S.
IsJoined(t, a, b, S) ==
  /\ t \in Seq(S) /\ Len(t) = Len(a) + Len(b)
  /\ \A k \in 1 .. Len(a) : t[k] = a[k]
  /\ \A k \in 1 .. Len(b) : t[Len(a) + k] = b[k]

Cat(a, b) == a \o b

LEMMA CatFacts ==
  ASSUME NEW S, NEW a \in Seq(S), NEW b \in Seq(S)
  PROVE  IsJoined(Cat(a, b), a, b, S)
<1> DEFINE t == a \o b
<1>1. a \o b \in Seq(S) /\ Len(a \o b) = Len(a) + Len(b)
  OBVIOUS
<1>2. \A k \in 1 .. Len(a) : (a \o b)[k] = a[k]
  OBVIOUS
<1>3. \A k \in 1 .. Len(b) : (a \o b)[Len(a) + k] = b[k]
  OBVIOUS
<1>4. t \in Seq(S) /\ Len(t) = Len(a) + Len(b)
  BY <1>1
<1>5. \A k \in 1 .. Len(a) : t[k] = a[k]
  BY <1>2
<1>6. \A k \in 1 .. Len(b) : t[Len(a) + k] = b[k]
  BY <1>3
<1>7. t = Cat(a, b)
  BY DEF Cat
<1> HIDE DEF t
<1> QED BY <1>4, <1>5, <1>6, <1>7 DEF IsJoined

LEMMA JoinOne ==
  ASSUME NEW S, NEW a \in Seq(S), NEW x \in S
  PROVE  IsJoined(Cat(a, <<x>>), a, <<x>>, S)
<1> DEFINE b == <<x>>
<1>1. b \in Seq(S)
  OBVIOUS
<1> HIDE DEF b
<1>2. IsJoined(Cat(a, b), a, b, S)
  BY <1>1, CatFacts
<1> QED BY <1>2 DEF b

LEMMA JoinTwo ==
  ASSUME NEW S, NEW a \in Seq(S), NEW x \in S, NEW y \in S
  PROVE  IsJoined(Cat(a, <<x, y>>), a, <<x, y>>, S)
<1> DEFINE b == <<x, y>>
<1>1. b \in Seq(S)
  OBVIOUS
<1> HIDE DEF b
<1>2. IsJoined(Cat(a, b), a, b, S)
  BY <1>1, CatFacts
<1> QED BY <1>2 DEF b

LEMMA JoinedTen ==
  ASSUME NEW a, NEW b, NEW c, NEW d, NEW e, NEW f, NEW g, NEW h, NEW i, NEW j
  PROVE  LET s == <<a>> \o <<b>> \o <<c>> \o <<d>> \o <<e, f>> \o (<<g>> \o <<h>> \o <<i, j>>) IN
         /\ Len(s) = 10
         /\ s[1] = a /\ s[2] = b /\ s[3] = c /\ s[4] = d /\ s[5] = e
         /\ s[6] = f /\ s[7] = g /\ s[8] = h /\ s[9] = i /\ s[10] = j
<1> DEFINE s == <<a>> \o <<b>> \o <<c>> \o <<d>> \o <<e, f>> \o (<<g>> \o <<h>> \o <<i, j>>)
           S == {a, b, c, d, e, f, g, h, i, j}
           one == <<a>>
           two == Cat(one, <<b>>)
           three == Cat(two, <<c>>)
           four == Cat(three, <<d>>)
           six == Cat(four, <<e, f>>)
           first == <<g>>
           last == Cat(first, <<h>>)
           rest == Cat(last, <<i, j>>)
<1>1. /\ a \in S /\ b \in S /\ c \in S /\ d \in S /\ e \in S
      /\ f \in S /\ g \in S /\ h \in S /\ i \in S /\ j \in S
  OBVIOUS
<1>2. s = Cat(six, rest)
  BY DEF Cat
<1> HIDE DEF S, s
<1>3. /\ one \in Seq(S) /\ Len(one) = 1 /\ one[1] = a
      /\ first \in Seq(S) /\ Len(first) = 1 /\ first[1] = g
  BY <1>1
<1> HIDE DEF one, first
<1>4. IsJoined(two, one, <<b>>, S) /\ IsJoined(last, first, <<h>>, S)
  BY <1>1, <1>3, JoinOne
<1> HIDE DEF two, last
<1>5. /\ two \in Seq(S) /\ Len(two) = 2 /\ two[1] = a /\ two[2] = b
      /\ last \in Seq(S) /\ Len(last) = 2 /\ last[1] = g /\ last[2] = h
  BY <1>3, <1>4 DEF IsJoined
<1>6. IsJoined(three, two, <<c>>, S) /\ IsJoined(rest, last, <<i, j>>, S)
  BY <1>1, <1>5, JoinOne, JoinTwo
<1> HIDE DEF three, rest
<1>7. three \in Seq(S) /\ Len(three) = 3 /\ three[1] = a /\ three[2] = b /\ three[3] = c
  BY <1>5, <1>6 DEF IsJoined
<1>8. /\ rest \in Seq(S) /\ Len(rest) = 4
      /\ rest[1] = g /\ rest[2] = h /\ rest[3] = i /\ rest[4] = j
  BY <1>5, <1>6 DEF IsJoined
<1>9. IsJoined(four, three, <<d>>, S)
  BY <1>1, <1>7, JoinOne
<1> HIDE DEF four
<1>10. four \in Seq(S) /\ Len(four) = 4 /\ four[1] = a /\ four[2] = b /\ four[3] = c /\ four[4] = d
  BY <1>7, <1>9 DEF IsJoined
<1>11. IsJoined(six, four, <<e, f>>, S)
  BY <1>1, <1>10, JoinTwo
<1> HIDE DEF six
<1>12. /\ six \in Seq(S) /\ Len(six) = 6 /\ six[1] = a /\ six[2] = b /\ six[3] = c /\ six[4] = d
       /\ six[5] = e /\ six[6] = f
  BY <1>10, <1>11 DEF IsJoined
<1>13. IsJoined(s, six, rest, S)
  <2>1. IsJoined(Cat(six, rest), six, rest, S)
    BY <1>8, <1>12, CatFacts
  <2> QED BY <1>2, <2>1
<1>14. /\ Len(s) = 10
       /\ s[1] = six[1] /\ s[2] = six[2] /\ s[3] = six[3] /\ s[4] = six[4] /\ s[5] = six[5]
       /\ s[6] = six[6]
  BY <1>8, <1>12, <1>13 DEF IsJoined
<1>15. s[6 + 1] = rest[1] /\ s[6 + 2] = rest[2] /\ s[6 + 3] = rest[3] /\ s[6 + 4] = rest[4]
  BY <1>8, <1>12, <1>13 DEF IsJoined
<1>16. /\ Len(s) = 10
       /\ s[1] = a /\ s[2] = b /\ s[3] = c /\ s[4] = d /\ s[5] = e
       /\ s[6] = f /\ s[7] = g /\ s[8] = h /\ s[9] = i /\ s[10] = j
  BY <1>8, <1>12, <1>14, <1>15
<1> QED BY <1>16 DEF s

LEMMA WithinFacts ==
  ASSUME NEW recovery, NEW instructions, Len(instructions) \in Nat
  PROVE  /\ Len(Within(recovery, instructions)) = Len(instructions)
         /\ \A i \in 1 .. Len(instructions) :
              Within(recovery, instructions)[i] = [do |-> instructions[i], recovery |-> recovery]
BY DEF Within

LEMMA ProjectProgram ==
  ASSUME NEW task \in Tasks, task.do = "project"
  PROVE  /\ Len(Programs[task]) = 4
         /\ \A i \in 1 .. 4 : Programs[task][i] =
              [do |-> ProjectActs(task)[i], recovery |-> RecoverProjection(Ring, 1)]
<1> DEFINE stage == StageOf(task.block)
           range == Slice(task.start, task.stop)
           rows == Rows("video", task.block, range)
           result == Tile("q", "video", stage.v, range) \cup Tile("kv", "video", stage.v, range)
           target == At(ArenaTensor("video", "q"), Tile("q", "video", stage.v, range))
                       \cup At(ArenaTensor("video", "kv"), Tile("kv", "video", stage.v, range))
           acts == Tail(RingTile(Ring, 1, 0, At(stage.query.tensor, rows), rows, result, target,
                                 Projecting(stage)))
                     \o <<Wait({}, {CopyDone(Ring, 0)}, {}, {CopyDone(Ring, 0)})>>
<1>1. Programs[task] = Within(RecoverProjection(Ring, 1), acts)
  BY TaskFacts, StageIs DEF TaskProgram, ProjectTask, IsStage
<1>2. /\ stage.query.tensor = Hidden0 /\ stage.v = task.block + 1
      /\ Projecting(stage) = LeaseNamed("project")
  <2>1. task.block \in Nat
    BY TaskFacts
  <2>2. IsStage(stage, task.block)
    BY <2>1, StageIs DEF stage
  <2> HIDE DEF stage
  <2> QED BY <2>2 DEF IsStage, Projecting, LeaseNamed
<1> HIDE DEF stage
<1>3. BlockOf(0, 1) = 0 /\ 0 % 1 = 0
  BY DEF BlockOf
<1>4. Len(acts) = 4 /\ \A i \in 1 .. 4 : acts[i] = ProjectActs(task)[i]
  <2> DEFINE a == Op(H2d(Ring), {}, {}, At(Hidden0, rows), Holds(Staged(Ring, 0), rows),
                     {InputReady(Ring, 0)}, {}, {})
             b == Op(Compute, {}, {InputReady(Ring, 0)}, Holds(Staged(Ring, 0), rows),
                     Holds(Block(Ring, 0), result), {ResultReady(Ring, 0)}, {}, {LeaseNamed("project")})
             c == Op(D2h(Ring), {}, {ResultReady(Ring, 0)}, Holds(Block(Ring, 0), result), target,
                     {CopyDone(Ring, 0)}, {CopyDone(Ring, 0)}, {})
             d == Wait({}, {CopyDone(Ring, 0)}, {}, {CopyDone(Ring, 0)})
             z == Wait({CopyDone(Ring, 0)}, {}, {}, {CopyDone(Ring, 0)})
  <2>1. RingTile(Ring, 1, 0, At(stage.query.tensor, rows), rows, result, target, Projecting(stage))
          = <<z, a, b, c>>
    BY <1>2, <1>3 DEF RingTile
  <2>2. acts = Tail(<<z, a, b, c>>) \o <<d>>
    BY <2>1
  <2>3. ProjectActs(task) = <<a, b, c, d>>
    BY <1>2 DEF ProjectActs
  <2> HIDE DEF a, b, c, d, z, acts
  <2>4. Tail(<<z, a, b, c>>) = <<a, b, c>>
    OBVIOUS
  <2>5. /\ Len(<<a, b, c>> \o <<d>>) = 4
        /\ (<<a, b, c>> \o <<d>>)[1] = a /\ (<<a, b, c>> \o <<d>>)[2] = b
        /\ (<<a, b, c>> \o <<d>>)[3] = c /\ (<<a, b, c>> \o <<d>>)[4] = d
    OBVIOUS
  <2> QED BY <2>2, <2>3, <2>4, <2>5
<1> HIDE DEF acts
<1> QED BY <1>1, <1>4, WithinFacts

\* The consumer of a task emits its whole range, into the slot of the task.
LEMMA TaskEmits ==
  ASSUME NEW task \in Tasks, task.do = "attend"
  PROVE  H3Steps(StageOf(task.block), BlockShape, H3!TaskSteps(task.start, task.stop), task.start,
                 task.slot)
           = Write(StageOf(task.block), task.slot % OutputBuffers, ChunkPosts(task),
                   Slice(task.start, task.stop))
<1> DEFINE stage == StageOf(task.block)
           steps == H3!TaskSteps(task.start, task.stop)
           emits(n) == Cardinality({k \in 1 .. n : steps[k].do = "emit"})
           part(n) == H3Step(stage, BlockShape, steps[n + 1], task.start, task.slot + emits(n))
           Upto(f) == f = [i \in 0 .. 1 |-> IF i = 0 THEN <<>> ELSE f[i - 1] \o part(i - 1)]
           g == [i \in 0 .. 1 |-> IF i = 0 THEN <<>> ELSE <<>> \o part(i - 1)]
           f == CHOOSE f : Upto(f)
           write == Write(stage, task.slot % OutputBuffers, ChunkPosts(task), Slice(task.start, task.stop))
<1>1. /\ task.start \in Nat /\ task.stop \in Nat /\ task.slot \in Nat
      /\ IsStage(stage, task.block)
  BY TaskFacts, StageIs, MultiGpuH3Assumption
<1>2. steps = <<H3!Emit("chunk", task.start, task.stop)>>
  BY DEF H3!TaskSteps
<1>3. Len(steps) = 1 /\ steps[1] = H3!Emit("chunk", task.start, task.stop)
  BY <1>2
<1> HIDE DEF steps, stage
<1>4. emits(0) = 0
  <2>1. {k \in 1 .. 0 : steps[k].do = "emit"} = {}
    OBVIOUS
  <2> QED BY <2>1, FS_EmptySet
<1>5. part(0) = write
  <2>1. task.slot + emits(0) = task.slot /\ steps[0 + 1] = H3!Emit("chunk", task.start, task.stop)
    BY <1>1, <1>3, <1>4
  <2> HIDE DEF emits
  <2>2. part(0) = H3Step(stage, BlockShape, H3!Emit("chunk", task.start, task.stop), task.start, task.slot)
    BY <2>1
  <2>3. Posts(stage, "chunk", task.start - task.start, task.start, task.stop) = ChunkPosts(task)
    <3>1. task.start - task.start = 0
      BY <1>1
    <3> QED BY <1>1, <3>1 DEF Posts, ChunkPosts, IsStage
  <2> HIDE DEF part
  <2> QED BY <2>2, <2>3 DEF H3Step, H3!Emit, BlockShape
<1> HIDE DEF write
<1>6. write \in Seq({write[1], write[2]})
  <2> QED BY DEF write, Write
<1>7. Upto(g)
  OBVIOUS
<1>8. Upto(f)
  BY <1>7
<1>9. H3Steps(stage, BlockShape, steps, task.start, task.slot) = f[1]
  BY <1>3 DEF H3Steps, Concat
<1> HIDE DEF f, part
<1>10. f[0] = <<>> /\ f[1] = f[0] \o part(0)
  <2>1. f[1] = f[1 - 1] \o part(1 - 1)
    BY <1>8
  <2>2. f[0] = <<>>
    BY <1>8
  <2>3. 1 - 1 = 0
    OBVIOUS
  <2> QED BY Zenon, <2>1, <2>2, <2>3
<1>11. <<>> \o write = write
  BY <1>6, ConcatEmptySeq
<1> QED BY <1>5, <1>9, <1>10, <1>11 DEF steps, stage, write

LEMMA AttendProgram ==
  ASSUME NEW task \in Tasks, task.do = "attend"
  PROVE  /\ Len(Programs[task]) = 10
         /\ \A i \in 1 .. 10 : Programs[task][i] =
              [do |-> AttendActs(task)[i], recovery |-> RecoverAttention(StageOf(task.block))]
<1> DEFINE stage == StageOf(task.block)
           range == Slice(task.start, task.stop)
           context == Slice(0, RowCount)
           write == Write(stage, task.slot % OutputBuffers, ChunkPosts(task), range)
           post == Op(Compute, {}, {}, EpilogueNeeds(stage, range),
                      Posts(stage, "chunk", 0, task.start, task.stop), {}, {}, {Consuming(stage)})
           acts == LoadQ(stage, range) \o LoadKv(stage, context) \o Attend(stage, range, context)
                     \o <<post>> \o write \o AttendEnd(stage)
           x(i) == AttendActs(task)[i]
<1>1. Programs[task] = Within(RecoverAttention(stage), acts)
  BY TaskFacts, TaskEmits DEF TaskProgram, AttendTask
<1>2. IsStage(stage, task.block)
  BY TaskFacts, StageIs
<1> HIDE DEF stage
<1>3. LoadQ(stage, range) = <<x(1)>> /\ LoadKv(stage, context) = <<x(2)>>
  BY <1>2 DEF IsStage, LoadQ, LoadKv, Load, KvForm, AttendActs, Inputs, QBuffer, KvBuffer, QFree, QReady,
              KvFree, KvReady, Q0, Kv0, Copies
<1>4. Attend(stage, range, context) = <<x(3)>>
  BY <1>2 DEF IsStage, Attend, KvForm, AttendActs, QBuffer, KvBuffer, QFree, QReady,
              KvFree, KvReady, Q0, Kv0
<1>5. post = x(4)
  BY <1>2 DEF IsStage, AttendActs, EpilogueNeeds, Posts, ChunkPosts, QBuffer, Q0, Consuming, LeaseNamed
<1>6. write = <<x(5), x(6)>>
  BY <1>2 DEF IsStage, AttendActs, Write, Written, Computed, Slot, Consuming, LeaseNamed
<1>7. AttendEnd(stage) = <<x(7)>> \o <<x(8)>> \o <<x(9), x(10)>>
  BY <1>2 DEF IsStage, AttendActs, AttendEnd, ReleaseQ, TaskDone, PipelineEnd, QFree
<1> HIDE DEF x, post, write, range, context
<1>8. acts = <<x(1)>> \o <<x(2)>> \o <<x(3)>> \o <<x(4)>> \o <<x(5), x(6)>>
               \o (<<x(7)>> \o <<x(8)>> \o <<x(9), x(10)>>)
  BY <1>3, <1>4, <1>5, <1>6, <1>7
<1> HIDE DEF acts
<1>9. /\ Len(acts) = 10
      /\ acts[1] = x(1) /\ acts[2] = x(2) /\ acts[3] = x(3) /\ acts[4] = x(4) /\ acts[5] = x(5)
      /\ acts[6] = x(6) /\ acts[7] = x(7) /\ acts[8] = x(8) /\ acts[9] = x(9) /\ acts[10] = x(10)
  BY <1>8, JoinedTen
<1>10. \A i \in 1 .. 10 : acts[i] = AttendActs(task)[i]
  BY <1>9 DEF x
<1> QED BY <1>1, <1>9, <1>10, WithinFacts DEF stage

-----------------------------------------------------------------------------
(* What the streams need to know of an instruction. *)

IsOp(op, stream, guards, waits, records, uses) ==
  /\ op.do = "op" /\ op.stream = stream /\ op.guards = guards /\ op.waits = waits
  /\ op.records = records /\ op.uses = uses

LEMMA ProjectShape ==
  ASSUME NEW task \in Tasks, task.do = "project"
  PROVE  /\ Len(Programs[task]) = 4
         /\ IsOp(Act(task, 1), H2d(Ring), {}, {}, {InputReady(Ring, 0)}, {})
         /\ IsOp(Act(task, 2), Compute, {}, {InputReady(Ring, 0)}, {ResultReady(Ring, 0)},
                 {LeaseNamed("project")})
         /\ IsOp(Act(task, 3), D2h(Ring), {}, {ResultReady(Ring, 0)}, {CopyDone(Ring, 0)}, {})
         /\ Act(task, 4) = Wait({}, {CopyDone(Ring, 0)}, {}, {CopyDone(Ring, 0)})
<1> DEFINE a == ProjectActs(task)
<1>1. Len(Programs[task]) = 4 /\ \A i \in 1 .. 4 : Act(task, i) = a[i]
  <2>1. Len(Programs[task]) = 4
    BY ProjectProgram
  <2> SUFFICES ASSUME NEW i \in 1 .. 4 PROVE Act(task, i) = a[i]
    BY <2>1
  <2>2. Programs[task][i] = [do |-> a[i], recovery |-> RecoverProjection(Ring, 1)]
    BY ProjectProgram
  <2> HIDE DEF a
  <2> QED BY <2>2 DEF Act
<1>2. /\ IsOp(a[1], H2d(Ring), {}, {}, {InputReady(Ring, 0)}, {})
      /\ IsOp(a[2], Compute, {}, {InputReady(Ring, 0)}, {ResultReady(Ring, 0)}, {LeaseNamed("project")})
      /\ IsOp(a[3], D2h(Ring), {}, {ResultReady(Ring, 0)}, {CopyDone(Ring, 0)}, {})
      /\ a[4] = Wait({}, {CopyDone(Ring, 0)}, {}, {CopyDone(Ring, 0)})
  BY DEF ProjectActs, Op, IsOp
<1> HIDE DEF a
<1> QED BY <1>1, <1>2

LEMMA AttendShape ==
  ASSUME NEW task \in Tasks, task.do = "attend"
  PROVE  /\ Len(Programs[task]) = 10
         /\ IsOp(Act(task, 1), Copies, {<<"q_free", "self">>}, {}, {<<"q_ready", "self">>}, {})
         /\ IsOp(Act(task, 2), Copies, {<<"kv_free", "self">>}, {}, {<<"kv_ready", "self">>}, {})
         /\ IsOp(Act(task, 3), Compute, {}, {<<"q_ready", "self">>, <<"kv_ready", "self">>},
                 {<<"kv_free", "self">>}, {})
         /\ IsOp(Act(task, 4), Compute, {}, {}, {}, {LeaseNamed("attend")})
         /\ IsOp(Act(task, 5), Compute, {Written(task)}, {}, {Computed(task)}, {LeaseNamed("attend")})
         /\ IsOp(Act(task, 6), Writer("video"), {}, {Computed(task)}, {Written(task)}, {})
         /\ IsOp(Act(task, 7), Writer("video"), {}, {}, {<<"task_done", "self">>}, {})
         /\ IsOp(Act(task, 8), Compute, {}, {}, {<<"q_free", "self">>}, {})
         /\ IsOp(Act(task, 9), Compute, {}, {}, {<<"pipeline_end", "self">>}, {})
         /\ Act(task, 10) = Wait({}, {<<"task_done", "self">>, <<"pipeline_end", "self">>}, {}, {})
<1> DEFINE a == AttendActs(task)
<1>1. Len(Programs[task]) = 10 /\ \A i \in 1 .. 10 : Act(task, i) = a[i]
  <2>1. Len(Programs[task]) = 10
    BY AttendProgram
  <2> SUFFICES ASSUME NEW i \in 1 .. 10 PROVE Act(task, i) = a[i]
    BY <2>1
  <2>2. Programs[task][i] = [do |-> a[i], recovery |-> RecoverAttention(StageOf(task.block))]
    BY AttendProgram
  <2> HIDE DEF a
  <2> QED BY <2>2 DEF Act
<1>2. /\ IsOp(a[1], Copies, {<<"q_free", "self">>}, {}, {<<"q_ready", "self">>}, {})
      /\ IsOp(a[2], Copies, {<<"kv_free", "self">>}, {}, {<<"kv_ready", "self">>}, {})
      /\ IsOp(a[3], Compute, {}, {<<"q_ready", "self">>, <<"kv_ready", "self">>},
              {<<"kv_free", "self">>}, {})
  BY DEF AttendActs, Op, IsOp
<1>3. /\ IsOp(a[4], Compute, {}, {}, {}, {LeaseNamed("attend")})
      /\ IsOp(a[5], Compute, {Written(task)}, {}, {Computed(task)}, {LeaseNamed("attend")})
      /\ IsOp(a[6], Writer("video"), {}, {Computed(task)}, {Written(task)}, {})
  BY DEF AttendActs, Op, IsOp
<1>4. /\ IsOp(a[7], Writer("video"), {}, {}, {<<"task_done", "self">>}, {})
      /\ IsOp(a[8], Compute, {}, {}, {<<"q_free", "self">>}, {})
      /\ IsOp(a[9], Compute, {}, {}, {<<"pipeline_end", "self">>}, {})
      /\ a[10] = Wait({}, {<<"task_done", "self">>, <<"pipeline_end", "self">>}, {}, {})
  BY DEF AttendActs, Op, IsOp
<1> HIDE DEF a
<1> QED BY <1>1, <1>2, <1>3, <1>4

AllStreams == DOMAIN Streams
AllEvents == DOMAIN Events

\* Which operation of a task records an event.
Who == [input_ready |-> 1, result_ready |-> 2, copy_done |-> 3, q_ready |-> 1, kv_ready |-> 2,
        kv_free |-> 3, output_ready |-> 5, output_free |-> 6, task_done |-> 7, q_free |-> 8,
        pipeline_end |-> 9]

Recorder(e) == Who[e[1]]

LEMMA SizeFacts == \A task \in Tasks : Size(task) \in {4, 10} /\ Len(Programs[task]) = Size(task)
BY TaskFacts, ProjectShape, AttendShape DEF Size

LEMMA OpFacts ==
  ASSUME NEW task \in Tasks, NEW i \in 1 .. Size(task) - 1
  PROVE  /\ Act(task, i).do = "op"
         /\ Act(task, i).uses \subseteq {LeaseNamed(task.do)}
         /\ \A e \in Act(task, i).records : Recorder(e) = i
         /\ \A e \in Act(task, i).guards : Recorder(e) \in i .. Size(task) - 1
                                             /\ e \in Act(task, Recorder(e)).records
         /\ \A e \in Act(task, i).waits : Recorder(e) \in 1 .. i - 1
                                            /\ e \in Act(task, Recorder(e)).records
<1>1. CASE task.do = "project"
  <2>1. i \in {1, 2, 3}
    BY <1>1 DEF Size
  <2>2. /\ Recorder(InputReady(Ring, 0)) = 1 /\ Recorder(ResultReady(Ring, 0)) = 2
        /\ Recorder(CopyDone(Ring, 0)) = 3
    BY DEF Recorder, Who, InputReady, ResultReady, CopyDone
  <2>3. CASE i = 1
    BY <1>1, <2>2, <2>3, ProjectShape DEF IsOp
  <2>4. CASE i = 2
    BY <1>1, <2>2, <2>4, ProjectShape DEF IsOp
  <2>5. CASE i = 3
    BY <1>1, <2>2, <2>5, ProjectShape DEF IsOp
  <2> QED BY <2>1, <2>3, <2>4, <2>5
<1>2. CASE task.do = "attend"
  <2>1. i \in {1, 2, 3, 4, 5, 6, 7, 8, 9} /\ Size(task) = 10
    BY <1>2 DEF Size
  <2>2. /\ Recorder(<<"q_ready", "self">>) = 1 /\ Recorder(<<"kv_ready", "self">>) = 2
        /\ Recorder(<<"kv_free", "self">>) = 3 /\ Recorder(Computed(task)) = 5
        /\ Recorder(Written(task)) = 6 /\ Recorder(<<"task_done", "self">>) = 7
        /\ Recorder(<<"q_free", "self">>) = 8 /\ Recorder(<<"pipeline_end", "self">>) = 9
    BY DEF Recorder, Who, Computed, Written, OutputReady, OutputFree
  <2>3. /\ IsOp(Act(task, 1), Copies, {<<"q_free", "self">>}, {}, {<<"q_ready", "self">>}, {})
        /\ IsOp(Act(task, 2), Copies, {<<"kv_free", "self">>}, {}, {<<"kv_ready", "self">>}, {})
        /\ IsOp(Act(task, 3), Compute, {}, {<<"q_ready", "self">>, <<"kv_ready", "self">>},
                {<<"kv_free", "self">>}, {})
        /\ IsOp(Act(task, 5), Compute, {Written(task)}, {}, {Computed(task)}, {LeaseNamed("attend")})
        /\ IsOp(Act(task, 6), Writer("video"), {}, {Computed(task)}, {Written(task)}, {})
        /\ IsOp(Act(task, 8), Compute, {}, {}, {<<"q_free", "self">>}, {})
    BY <1>2, AttendShape
  <2>4. CASE i = 1
    BY <1>2, <2>1, <2>2, <2>3, <2>4 DEF IsOp
  <2>5. CASE i = 2
    BY <1>2, <2>1, <2>2, <2>3, <2>5 DEF IsOp
  <2>6. CASE i = 3
    BY <1>2, <2>2, <2>3, <2>6 DEF IsOp
  <2>7. CASE i = 4
    BY <1>2, <2>2, <2>7, AttendShape DEF IsOp
  <2>8. CASE i = 5
    BY <1>2, <2>1, <2>2, <2>3, <2>8 DEF IsOp
  <2>9. CASE i = 6
    BY <1>2, <2>2, <2>3, <2>9 DEF IsOp
  <2>10. CASE i = 7
    BY <1>2, <2>2, <2>10, AttendShape DEF IsOp
  <2>11. CASE i = 8
    BY <1>2, <2>2, <2>3, <2>11 DEF IsOp
  <2>12. CASE i = 9
    BY <1>2, <2>2, <2>12, AttendShape DEF IsOp
  <2> QED BY <2>1, <2>4, <2>5, <2>6, <2>7, <2>8, <2>9, <2>10, <2>11, <2>12
<1> QED BY <1>1, <1>2, TaskFacts

LEMMA OpPlaces ==
  ASSUME NEW task \in Tasks, NEW i \in 1 .. Size(task) - 1
  PROVE  /\ Act(task, i).stream \in AllStreams
         /\ Act(task, i).records \subseteq AllEvents
         /\ Act(task, i).guards \subseteq AllEvents
         /\ Act(task, i).waits \subseteq AllEvents
<1>1. \A k \in 1 .. Size(task) - 1 : Act(task, k) \in Ops
  <2> TAKE k \in 1 .. Size(task) - 1
  <2>1. k \in DOMAIN Programs[task] /\ Programs[task][k].do.do = "op"
    <3>1. DOMAIN Programs[task] = 1 .. Size(task)
      BY SizeFacts, TaskFacts, ProjectProgram, AttendProgram, WithinFacts
    <3>2. Act(task, k).do = "op"
      BY OpFacts
    <3> QED BY <3>1, <3>2, SizeFacts DEF Act
  <2> QED BY <2>1 DEF Ops, Act
<1>2. AllStreams = {op.stream : op \in Ops} /\ AllEvents = UNION {op.records : op \in Ops}
  BY DEF AllStreams, AllEvents, Streams, Events, Table
<1>3. \A k \in 1 .. Size(task) - 1 : Act(task, k).records \subseteq AllEvents
  BY <1>1, <1>2
<1>4. Act(task, i).stream \in AllStreams
  BY <1>1, <1>2
<1>5. /\ \A e \in Act(task, i).guards : Recorder(e) \in 1 .. Size(task) - 1
      /\ \A e \in Act(task, i).waits : Recorder(e) \in 1 .. Size(task) - 1
  <2>1. /\ \A e \in Act(task, i).guards : Recorder(e) \in i .. Size(task) - 1
        /\ \A e \in Act(task, i).waits : Recorder(e) \in 1 .. i - 1
    BY OpFacts
  <2> QED BY <2>1, SizeFacts
<1>6. \A e \in Act(task, i).guards \cup Act(task, i).waits : e \in Act(task, Recorder(e)).records
  BY OpFacts
<1> QED BY <1>3, <1>4, <1>5, <1>6

-----------------------------------------------------------------------------
(* What launching and performing an operation do to the queues of a device. *)

Works == Tasks \X (1 .. 10)
Marks == AllEvents \X Int
Cells == [needs : SUBSET Marks, work : Works, records : SUBSET Marks]
Devs == [queue : [AllStreams -> Seq(Cells)], unreached : [AllEvents -> Int]]

\* A queue grows or shrinks by one operation on stream s only.
One(t, s) == IF t = s THEN 1 ELSE 0

LEMMA OneFacts == \A t, s : One(t, s) \in {0, 1} /\ (One(t, s) = 1 <=> t = s)
BY DEF One

\* The device `new` is `dev` with an operation at the end of stream s.
IsLaunched(new, dev, s, waits, work, records) ==
  /\ new \in Devs
  /\ \A t \in AllStreams : /\ Len(new.queue[t]) = Len(dev.queue[t]) + One(t, s)
                        /\ \A i \in 1 .. Len(dev.queue[t]) : new.queue[t][i] = dev.queue[t][i]
  /\ LET op == new.queue[s][Len(dev.queue[s]) + 1] IN
     /\ op.work = work
     /\ \A e \in waits : dev.unreached[e] > 0 => <<e, dev.unreached[e]>> \in op.needs
     /\ op.records = {<<e, dev.unreached[e] + 1>> : e \in records}
  /\ \A e \in AllEvents : new.unreached[e] = dev.unreached[e] + (IF e \in records THEN 1 ELSE 0)

LEMMA Launched ==
  ASSUME NEW dev \in Devs, NEW s \in AllStreams, NEW waits \in SUBSET AllEvents,
         NEW work \in Works, NEW records \in SUBSET AllEvents
  PROVE  IsLaunched(Cuda!Launch(dev, s, waits, work, records), dev, s, waits, work, records)
<1> DEFINE new == Cuda!Launch(dev, s, waits, work, records)
           op == [needs   |-> {<<e, dev.unreached[e]>> : e \in {w \in waits : dev.unreached[w] > 0}},
                  work    |-> work,
                  records |-> {<<e, dev.unreached[e] + 1>> : e \in records}]
<1>1. dev.queue \in [AllStreams -> Seq(Cells)] /\ dev.unreached \in [AllEvents -> Int]
  BY DEF Devs
<1>2. op \in Cells
  BY <1>1 DEF Cells, Marks
<1>3. new = [queue |-> [dev.queue EXCEPT ![s] = Append(@, op)],
             unreached |-> [e \in AllEvents |-> dev.unreached[e] + (IF e \in records THEN 1 ELSE 0)]]
  <2>1. DOMAIN dev.unreached = AllEvents
    BY <1>1
  <2>2. dev = [queue |-> dev.queue, unreached |-> dev.unreached]
    BY DEF Devs
  <2>3. \A e \in AllEvents : (IF e \in records THEN dev.unreached[e] + 1 ELSE dev.unreached[e])
                            = dev.unreached[e] + (IF e \in records THEN 1 ELSE 0)
    BY <1>1
  <2>4. new = [dev EXCEPT !.queue[s] = Append(@, op),
                          !.unreached = [e \in DOMAIN @ |-> IF e \in records THEN @[e] + 1 ELSE @[e]]]
    BY DEF Cuda!Launch
  <2>5. new = [queue |-> [dev.queue EXCEPT ![s] = Append(@, op)],
               unreached |-> [e \in AllEvents |-> IF e \in records THEN dev.unreached[e] + 1 ELSE dev.unreached[e]]]
    <3> HIDE DEF op, new
    <3> QED BY <2>1, <2>2, <2>4
  <2> HIDE DEF op, new
  <2> QED BY <2>3, <2>5
<1>4. /\ op.work = work
      /\ \A e \in waits : dev.unreached[e] > 0 => <<e, dev.unreached[e]>> \in op.needs
      /\ op.records = {<<e, dev.unreached[e] + 1>> : e \in records}
  OBVIOUS
<1> DEFINE q == [dev.queue EXCEPT ![s] = Append(@, op)]
           u == [e \in AllEvents |-> dev.unreached[e] + (IF e \in records THEN 1 ELSE 0)]
<1>5. new.queue = q /\ new.unreached = u
  <2> HIDE DEF op, new, q, u
  <2> QED BY <1>3 DEF q, u
<1> HIDE DEF op, new
<1>6. /\ q \in [AllStreams -> Seq(Cells)]
      /\ q[s] = Append(dev.queue[s], op)
      /\ \A t \in AllStreams \ {s} : q[t] = dev.queue[t]
  BY <1>1, <1>2
<1>7. /\ Len(q[s]) = Len(dev.queue[s]) + 1
      /\ q[s][Len(dev.queue[s]) + 1] = op
      /\ \A i \in 1 .. Len(dev.queue[s]) : q[s][i] = dev.queue[s][i]
  BY <1>1, <1>2, <1>6
<1>8. ASSUME NEW t \in AllStreams
      PROVE  /\ Len(q[t]) = Len(dev.queue[t]) + One(t, s)
             /\ \A i \in 1 .. Len(dev.queue[t]) : q[t][i] = dev.queue[t][i]
  <2>1. Len(dev.queue[t]) \in Nat
    BY <1>1
  <2>2. CASE t = s
    BY <1>7, <2>2 DEF One
  <2>3. CASE t # s
    BY <1>6, <2>1, <2>3 DEF One
  <2> QED BY <2>2, <2>3
<1>9. u \in [AllEvents -> Int] /\ \A e \in AllEvents : u[e] = dev.unreached[e] + (IF e \in records THEN 1 ELSE 0)
  BY <1>1
<1> HIDE DEF q, u
<1>10. new \in Devs
  BY <1>3, <1>6, <1>9 DEF Devs, q, u
<1> QED BY <1>4, <1>5, <1>7, <1>8, <1>9, <1>10 DEF new, IsLaunched

\* How many more records of an event a mark is away once those of `reached` were reached.
After(mark, reached) == IF mark[1] \in reached THEN mark[2] - 1 ELSE mark[2]

IsAdvanced(new, op, reached) ==
  /\ new \in Cells
  /\ new.work = op.work
  /\ \A q \in new.records : \E r \in op.records : q[1] = r[1] /\ q[2] = After(r, reached)
  /\ \A r \in op.records : <<r[1], After(r, reached)>> \in new.records
  /\ \A n \in op.needs : After(n, reached) > 0 => <<n[1], After(n, reached)>> \in new.needs

LEMMA AdvancedFacts ==
  ASSUME NEW op \in Cells, NEW reached
  PROVE  IsAdvanced(Cuda!Advanced(op, reached), op, reached)
<1> DEFINE left(mark) == IF mark[1] \in reached THEN <<mark[1], mark[2] - 1>> ELSE mark
           new == Cuda!Advanced(op, reached)
<1>1. /\ op.needs \subseteq Marks /\ op.records \subseteq Marks
      /\ op.work \in Works
  BY DEF Cells
<1>2. new = [needs |-> {n \in {left(need) : need \in op.needs} : n[2] > 0},
             work |-> op.work,
             records |-> {left(record) : record \in op.records}]
  BY DEF Cuda!Advanced
<1>3. ASSUME NEW mark \in Marks
      PROVE  /\ left(mark) \in Marks
             /\ left(mark)[1] = mark[1] /\ left(mark)[2] = After(mark, reached)
             /\ left(mark) = <<mark[1], After(mark, reached)>>
  BY DEF Marks, After
<1> HIDE DEF left, new
<1>4. /\ new.needs = {n \in {left(need) : need \in op.needs} : n[2] > 0}
      /\ new.work = op.work
      /\ new.records = {left(record) : record \in op.records}
  BY <1>2
<1>5. \A q \in new.records : \E r \in op.records : q[1] = r[1] /\ q[2] = After(r, reached)
  BY <1>1, <1>3, <1>4
<1>6. \A r \in op.records : <<r[1], After(r, reached)>> \in new.records
  BY <1>1, <1>3, <1>4
<1>7. \A n \in op.needs : After(n, reached) > 0 => <<n[1], After(n, reached)>> \in new.needs
  BY <1>1, <1>3, <1>4
<1>8. new \in Cells
  <2>1. new.needs \subseteq Marks /\ new.records \subseteq Marks
    BY <1>1, <1>3, <1>4
  <2> QED BY <1>1, <1>2, <1>4, <2>1 DEF Cells
<1> QED BY <1>4, <1>5, <1>6, <1>7, <1>8 DEF new, IsAdvanced

Reached(dev, s) == {record[1] : record \in Head(dev.queue[s]).records}

\* The device `new` is `dev` once the first operation of stream s is performed.
IsPerformed(new, dev, s) ==
  /\ new \in Devs
  /\ \A t \in AllStreams :
       /\ Len(new.queue[t]) = Len(dev.queue[t]) - One(t, s)
       /\ \A i \in 1 .. Len(new.queue[t]) :
            /\ i + One(t, s) \in 1 .. Len(dev.queue[t])
            /\ IsAdvanced(new.queue[t][i], dev.queue[t][i + One(t, s)], Reached(dev, s))
  /\ \A e \in AllEvents :
       new.unreached[e] = dev.unreached[e] - (IF e \in Reached(dev, s) THEN 1 ELSE 0)

LEMMA PerformedFacts ==
  ASSUME NEW dev \in Devs, NEW s \in AllStreams, dev.queue[s] # <<>>
  PROVE  IsPerformed(Cuda!Performed(dev, s), dev, s)
<1> DEFINE new == Cuda!Performed(dev, s)
           reached == Reached(dev, s)
           rest == [dev.queue EXCEPT ![s] = Tail(@)]
<1>1. dev.queue \in [AllStreams -> Seq(Cells)] /\ dev.unreached \in [AllEvents -> Int]
  BY DEF Devs
<1> HIDE DEF reached
<1>2. new = [queue |-> [t \in DOMAIN rest |-> [i \in 1 .. Len(rest[t]) |-> Cuda!Advanced(rest[t][i], reached)]],
             unreached |-> [e \in DOMAIN dev.unreached |->
                              IF e \in reached THEN dev.unreached[e] - 1 ELSE dev.unreached[e]]]
  BY DEF Cuda!Performed, Reached, reached
<1>3. /\ rest \in [AllStreams -> Seq(Cells)]
      /\ rest[s] = Tail(dev.queue[s])
      /\ \A t \in AllStreams \ {s} : rest[t] = dev.queue[t]
  BY <1>1
<1> HIDE DEF new, rest
<1>4. /\ new.queue = [t \in AllStreams |-> [i \in 1 .. Len(rest[t]) |-> Cuda!Advanced(rest[t][i], reached)]]
      /\ new.unreached = [e \in AllEvents |-> IF e \in reached THEN dev.unreached[e] - 1 ELSE dev.unreached[e]]
  BY <1>1, <1>2, <1>3
<1>5. ASSUME NEW t \in AllStreams
      PROVE  /\ rest[t] \in Seq(Cells)
             /\ Len(rest[t]) = Len(dev.queue[t]) - One(t, s)
             /\ \A i \in 1 .. Len(rest[t]) : /\ i + One(t, s) \in 1 .. Len(dev.queue[t])
                                             /\ rest[t][i] = dev.queue[t][i + One(t, s)]
  <2>1. dev.queue[t] \in Seq(Cells) /\ rest[t] \in Seq(Cells)
    BY <1>1, <1>3
  <2>2. CASE t = s
    <3>1. rest[t] = Tail(dev.queue[t]) /\ dev.queue[t] # <<>> /\ One(t, s) = 1
      BY <1>3, <2>2 DEF One
    <3> QED BY <2>1, <3>1
  <2>3. CASE t # s
    <3>1. rest[t] = dev.queue[t] /\ One(t, s) = 0
      BY <1>3, <2>3 DEF One
    <3> QED BY <2>1, <3>1
  <2> QED BY <2>2, <2>3
<1>6. ASSUME NEW t \in AllStreams
      PROVE  /\ new.queue[t] \in Seq(Cells) /\ Len(new.queue[t]) = Len(rest[t])
             /\ \A i \in 1 .. Len(rest[t]) : IsAdvanced(new.queue[t][i], rest[t][i], reached)
  <2>1. new.queue[t] = [i \in 1 .. Len(rest[t]) |-> Cuda!Advanced(rest[t][i], reached)]
    BY <1>4
  <2>2. Len(rest[t]) \in Nat /\ \A i \in 1 .. Len(rest[t]) : rest[t][i] \in Cells
    BY <1>5
  <2> DEFINE step(i) == Cuda!Advanced(rest[t][i], reached)
  <2>3. \A i \in 1 .. Len(rest[t]) : IsAdvanced(step(i), rest[t][i], reached)
    BY <2>2, AdvancedFacts
  <2>4. \A i \in 1 .. Len(rest[t]) : step(i) \in Cells
    BY <2>3 DEF IsAdvanced
  <2>5. new.queue[t] = [i \in 1 .. Len(rest[t]) |-> step(i)]
    BY <2>1
  <2> HIDE DEF step
  <2> QED BY <2>2, <2>3, <2>4, <2>5
<1>7. \A t \in AllStreams : Len(new.queue[t]) = Len(dev.queue[t]) - One(t, s)
  BY <1>5, <1>6
<1>8. \A t \in AllStreams : \A i \in 1 .. Len(new.queue[t]) :
        /\ i + One(t, s) \in 1 .. Len(dev.queue[t])
        /\ IsAdvanced(new.queue[t][i], dev.queue[t][i + One(t, s)], reached)
  BY <1>5, <1>6
<1>9. \A e \in AllEvents : /\ new.unreached[e] = dev.unreached[e] - (IF e \in reached THEN 1 ELSE 0)
                        /\ new.unreached[e] \in Int
  BY <1>1, <1>4
<1>10. new \in Devs
  <2>1. new.queue \in [AllStreams -> Seq(Cells)] /\ new.unreached \in [AllEvents -> Int]
    BY <1>4, <1>6, <1>9
  <2>2. new = [queue |-> new.queue, unreached |-> new.unreached]
    BY <1>2
  <2> QED BY <2>1, <2>2 DEF Devs
<1> QED BY <1>7, <1>8, <1>9, <1>10 DEF new, reached, IsPerformed


-----------------------------------------------------------------------------
(* A device that executes a task. *)

IndexAt(dev, s, k) == dev.queue[s][k].work[2]

\* Operation i of the task is enqueued and not yet performed.
Queued(dev, i) == \E s \in AllStreams : \E k \in 1 .. Len(dev.queue[s]) : IndexAt(dev, s, k) = i

\* j is behind i: on the same stream, or because it waits for it.
Linked(t, i, j) ==
  \/ Act(t, i).stream = Act(t, j).stream
  \/ Act(t, i).records \cap Act(t, j).waits # {}

\* Only operations up to the n-th of task t are queued, each on its stream.
Placed(dev, t, n) ==
  \A s \in AllStreams : \A k \in 1 .. Len(dev.queue[s]) :
    LET i == IndexAt(dev, s, k) IN
    /\ i \in 1 .. n
    /\ dev.queue[s][k].work = <<t, i>>
    /\ Act(t, i).stream = s

Ordered(dev) ==
  \A s \in AllStreams : \A k, l \in 1 .. Len(dev.queue[s]) :
    k < l => IndexAt(dev, s, k) < IndexAt(dev, s, l)

\* An operation records its events, all of them up to the m-th operation, and
\* each event is one record away.
Marked(dev, t, m) ==
  \A s \in AllStreams : \A k \in 1 .. Len(dev.queue[s]) :
    LET i == IndexAt(dev, s, k)
        records == dev.queue[s][k].records
    IN  /\ \A r \in records : r[2] = 1 /\ r[1] \in Act(t, i).records
        /\ i <= m => \A e \in Act(t, i).records : <<e, 1>> \in records

Recorded(dev, e) == \E s \in AllStreams : \E k \in 1 .. Len(dev.queue[s]) : <<e, 1>> \in dev.queue[s][k].records

Counted(dev) ==
  \A e \in AllEvents : /\ dev.unreached[e] \in {0, 1}
                       /\ dev.unreached[e] = 1 <=> Recorded(dev, e)

\* What is behind a queued operation is queued as well.
Followed(dev, t, m) ==
  \A i, j \in 1 .. m : i < j /\ Linked(t, i, j) /\ Queued(dev, i) => Queued(dev, j)

\* An operation that waits for one that is queued has it among its needs.
Blocked(dev, t, m) ==
  \A s \in AllStreams : \A k \in 1 .. Len(dev.queue[s]) : \A i \in 1 .. m :
    i < IndexAt(dev, s, k) /\ Queued(dev, i) =>
      \A e \in Act(t, i).records \cap Act(t, IndexAt(dev, s, k)).waits :
        <<e, 1>> \in dev.queue[s][k].needs

\* The first n operations of task t were issued, the first m of them with all
\* their records.
Executes(dev, t, n, m) ==
  /\ dev \in Devs
  /\ Placed(dev, t, n)
  /\ Ordered(dev)
  /\ Marked(dev, t, m)
  /\ Counted(dev)
  /\ Followed(dev, t, m)
  /\ Blocked(dev, t, m)

Quiet(dev) == dev \in Devs /\ Cuda!Drained(dev) /\ \A e \in AllEvents : dev.unreached[e] = 0

LEMMA QuietExecutes ==
  ASSUME NEW dev, Quiet(dev), NEW t
  PROVE  Executes(dev, t, 0, 0)
<1>1. dev \in Devs /\ \A s \in AllStreams : Len(dev.queue[s]) = 0
  BY DEF Quiet, Cuda!Drained, Devs
<1>2. \A e : ~Recorded(dev, e)
  <2>1. \A s \in AllStreams : 1 .. Len(dev.queue[s]) = {}
    BY <1>1
  <2> QED BY <2>1 DEF Recorded
<1>3. Counted(dev)
  BY <1>2 DEF Counted, Quiet
<1>4. Placed(dev, t, 0) /\ Ordered(dev) /\ Marked(dev, t, 0) /\ Blocked(dev, t, 0) /\ Followed(dev, t, 0)
  BY <1>1 DEF Placed, Ordered, Marked, Blocked, Followed
<1> QED BY <1>1, <1>3, <1>4 DEF Executes

LEMMA EmptyIsQuiet ==
  ASSUME NEW dev \in Devs, Counted(dev), \A s \in AllStreams : dev.queue[s] = <<>>
  PROVE  Quiet(dev)
<1>1. \A s \in AllStreams : Len(dev.queue[s]) = 0
  OBVIOUS
<1>2. \A e : ~Recorded(dev, e)
  <2>1. \A s \in AllStreams : 1 .. Len(dev.queue[s]) = {}
    BY <1>1
  <2> QED BY <2>1 DEF Recorded
<1>3. \A e \in AllEvents : dev.unreached[e] = 0
  BY <1>2 DEF Counted
<1> QED BY <1>3 DEF Quiet, Cuda!Drained, Devs

LEMMA WeakenExecutes ==
  ASSUME NEW dev, NEW t, NEW k \in Nat \ {0}, Executes(dev, t, k - 1, k - 1)
  PROVE  Executes(dev, t, k, k - 1)
<1>1. 1 .. k - 1 \subseteq 1 .. k
  OBVIOUS
<1>2. Placed(dev, t, k)
  BY <1>1 DEF Executes, Placed
<1> QED BY <1>2 DEF Executes

\* An operation has one place.
LEMMA OnePlace ==
  ASSUME NEW dev, NEW t, NEW n, Placed(dev, t, n), Ordered(dev), dev \in Devs, n \in Nat,
         NEW s \in AllStreams, NEW k \in 1 .. Len(dev.queue[s]),
         NEW u \in AllStreams, NEW l \in 1 .. Len(dev.queue[u]),
         IndexAt(dev, s, k) = IndexAt(dev, u, l)
  PROVE  s = u /\ k = l
<1>1. s = u
  BY DEF Placed
<1>2. /\ k \in Int /\ l \in Int
      /\ k < l => IndexAt(dev, s, k) < IndexAt(dev, s, l)
      /\ l < k => IndexAt(dev, s, l) < IndexAt(dev, s, k)
      /\ IndexAt(dev, s, k) \in Int
  BY <1>1 DEF Ordered, Placed
<1> QED BY <1>1, <1>2

LEMMA NewPlace ==
  ASSUME NEW n \in Nat, NEW k \in {0, 1}, NEW i \in 1 .. n + k, i \notin 1 .. n
  PROVE  k = 1 /\ i = n + 1
OBVIOUS

\* The device once operation k of task t is enqueued.
EnqueuedOn(dev, t, k, flagged, records) ==
  Cuda!Launch(dev, Act(t, k).stream, Act(t, k).waits \cup (Act(t, k).guards \cap flagged), <<t, k>>, records)

Full(records, t, k) == records = Act(t, k).records
FullOrNone(records, t, k) == records \in {{}, Act(t, k).records}

\* Operation k is enqueued, with all of its records or with none.
LEMMA LaunchExecutes ==
  ASSUME NEW dev, NEW t \in Tasks, NEW k \in 1 .. Size(t) - 1,
         NEW last, last = k - 1, Executes(dev, t, last, last),
         NEW flagged, NEW records, FullOrNone(records, t, k),
         NEW new, new = EnqueuedOn(dev, t, k, flagged, records),
         NEW m, m = last \/ (m = k /\ Full(records, t, k))
  PROVE  /\ Executes(new, t, k, m)
         /\ \A i : Queued(new, i) <=> Queued(dev, i) \/ i = k
<1> DEFINE a == Act(t, k)
           waits == a.waits \cup (a.guards \cap flagged)
           n == Len(dev.queue[a.stream])
<1>1. /\ a.stream \in AllStreams /\ a.records \subseteq AllEvents /\ waits \in SUBSET AllEvents
      /\ records \in SUBSET AllEvents /\ <<t, k>> \in Works /\ k \in Nat /\ k # 0 /\ k - 1 \in Nat
      /\ m \in Int /\ m \in {k - 1, k} /\ (m = k => records = Act(t, k).records)
  <2>1. k \in 1 .. 10
    BY SizeFacts
  <2>2. m \in Int /\ m \in {k - 1, k} /\ (m = k => records = Act(t, k).records)
    BY <2>1 DEF Full
  <2>3. a.records \subseteq AllEvents /\ records \in SUBSET AllEvents
    BY OpPlaces DEF FullOrNone
  <2>4. a.stream \in AllStreams /\ waits \in SUBSET AllEvents
    BY OpPlaces
  <2> QED BY <2>1, <2>2, <2>3, <2>4 DEF Works
<1>2. /\ dev \in Devs /\ Placed(dev, t, k - 1) /\ Ordered(dev) /\ Marked(dev, t, k - 1) /\ Counted(dev)
      /\ Followed(dev, t, k - 1) /\ Blocked(dev, t, k - 1)
  BY Zenon DEF Executes
<1> HIDE DEF a
<1>3. IsLaunched(new, dev, a.stream, waits, <<t, k>>, records)
  BY <1>1, <1>2, Launched DEF a, EnqueuedOn
<1> HIDE DEF waits
<1>4. \A s \in AllStreams : Len(dev.queue[s]) \in Nat
  BY <1>2 DEF Devs
<1>5. /\ new \in Devs
      /\ \A s \in AllStreams : Len(new.queue[s]) = Len(dev.queue[s]) + One(s, a.stream)
  BY <1>3 DEF IsLaunched
<1>21. \A s \in AllStreams : \A i \in 1 .. Len(dev.queue[s]) : new.queue[s][i] = dev.queue[s][i]
  BY <1>3 DEF IsLaunched
<1>22. /\ new.queue[a.stream][n + 1].work = <<t, k>>
       /\ new.queue[a.stream][n + 1].work[2] = k
  <2>1. new.queue[a.stream][n + 1].work = <<t, k>>
    BY <1>3 DEF IsLaunched
  <2>2. <<t, k>>[2] = k
    OBVIOUS
  <2> QED BY Zenon, <2>1, <2>2
<1>23. \A e \in waits : dev.unreached[e] > 0 => <<e, dev.unreached[e]>> \in new.queue[a.stream][n + 1].needs
  BY <1>3 DEF IsLaunched
<1>24. new.queue[a.stream][n + 1].records = {<<e, dev.unreached[e] + 1>> : e \in records}
  BY <1>3 DEF IsLaunched
<1>25. \A e \in AllEvents : new.unreached[e] = dev.unreached[e] + (IF e \in records THEN 1 ELSE 0)
  BY <1>3 DEF IsLaunched
<1>6. n + 1 \in 1 .. Len(new.queue[a.stream]) /\ n \in Nat
  <2>1. One(a.stream, a.stream) = 1
    BY OneFacts
  <2>2. Len(new.queue[a.stream]) = n + 1 /\ n \in Nat
    BY <1>1, <1>4, <1>5, <2>1
  <2> HIDE DEF n
  <2> QED BY <2>2
\* A place of the new queues is the new one, or an old one.
<1>7. ASSUME NEW s \in AllStreams, NEW i \in 1 .. Len(new.queue[s])
      PROVE  \/ i \in 1 .. Len(dev.queue[s]) /\ new.queue[s][i] = dev.queue[s][i]
                  /\ IndexAt(new, s, i) = IndexAt(dev, s, i)
             \/ s = a.stream /\ i = n + 1 /\ IndexAt(new, s, i) = k
  <2>1. CASE i \in 1 .. Len(dev.queue[s])
    BY <1>21, <2>1 DEF IndexAt
  <2>2. CASE i \notin 1 .. Len(dev.queue[s])
    <3>0. /\ Len(dev.queue[s]) \in Nat /\ One(s, a.stream) \in {0, 1}
          /\ i \in 1 .. Len(dev.queue[s]) + One(s, a.stream)
      BY <1>4, <1>5, OneFacts
    <3>1. One(s, a.stream) = 1 /\ i = Len(dev.queue[s]) + 1
      BY <2>2, <3>0, NewPlace
    <3>2. s = a.stream /\ i = n + 1
      BY <3>1, OneFacts DEF n
    <3>3. new.queue[s][i].work[2] = k
      BY Zenon, <1>22, <3>2
    <3> QED BY <3>2, <3>3 DEF IndexAt
  <2> QED BY <2>1, <2>2
<1>8. ASSUME NEW s \in AllStreams, NEW i \in 1 .. Len(dev.queue[s])
      PROVE  i \in 1 .. Len(new.queue[s]) /\ new.queue[s][i] = dev.queue[s][i]
               /\ IndexAt(new, s, i) = IndexAt(dev, s, i) /\ IndexAt(dev, s, i) \in 1 .. k - 1
  <2>1. Len(new.queue[s]) = Len(dev.queue[s]) + One(s, a.stream) /\ One(s, a.stream) \in {0, 1}
        /\ new.queue[s][i] = dev.queue[s][i]
    BY <1>5, <1>21, OneFacts
  <2>2. i \in 1 .. Len(new.queue[s])
    BY <1>4, <2>1
  <2>3. IndexAt(dev, s, i) \in 1 .. k - 1
    BY <1>2 DEF Placed
  <2> QED BY <2>1, <2>2, <2>3 DEF IndexAt
<1>9. IndexAt(new, a.stream, n + 1) = k
  BY Zenon, <1>22 DEF IndexAt
<1> HIDE DEF n
<1>10. \A i : Queued(new, i) <=> Queued(dev, i) \/ i = k
  <2> TAKE i
  <2>1. Queued(new, i) => Queued(dev, i) \/ i = k
    BY <1>7 DEF Queued
  <2>2. Queued(dev, i) => Queued(new, i)
    BY <1>8 DEF Queued
  <2>3. Queued(new, k)
    BY <1>1, <1>6, <1>9 DEF Queued
  <2> QED BY <2>1, <2>2, <2>3
<1>11. \A i : Queued(dev, i) => i \in 1 .. k - 1
  BY <1>8 DEF Queued
\* No queued operation records the events of this one.
<1>12. ASSUME NEW e \in a.records
       PROVE  e \in AllEvents /\ dev.unreached[e] = 0 /\ ~Recorded(dev, e)
  <2>1. e \in AllEvents /\ dev.unreached[e] \in {0, 1}
    BY <1>1, <1>2 DEF Counted
  <2>2. ~Recorded(dev, e)
    <3> SUFFICES ASSUME NEW s \in AllStreams, NEW l \in 1 .. Len(dev.queue[s]), <<e, 1>> \in dev.queue[s][l].records
                 PROVE  FALSE
      BY DEF Recorded
    <3> DEFINE i == IndexAt(dev, s, l)
    <3>1. i \in 1 .. k - 1 /\ e \in Act(t, i).records
      BY <1>2, <1>8 DEF Marked
    <3> HIDE DEF i
    <3>2. i \in 1 .. Size(t) - 1
      BY <3>1, SizeFacts
    <3>3. Recorder(e) = i /\ Recorder(e) = k
      BY <3>1, <3>2, OpFacts DEF a
    <3> QED BY <1>1, <3>1, <3>3
  <2> QED BY <1>2, <2>1, <2>2 DEF Counted
<1>13. records \subseteq a.records
  BY DEF a, FullOrNone
<1>14. new.queue[a.stream][n + 1].records = {<<e, 1>> : e \in records}
  <2>1. \A e \in records : <<e, dev.unreached[e] + 1>> = <<e, 1>>
    BY <1>12, <1>13
  <2>2. {<<e, dev.unreached[e] + 1>> : e \in records} = {<<e, 1>> : e \in records}
    BY <2>1
  <2> QED BY <1>24, <2>2
<1>15. Placed(new, t, k)
  <2> SUFFICES ASSUME NEW s \in AllStreams, NEW i \in 1 .. Len(new.queue[s])
               PROVE  /\ IndexAt(new, s, i) \in 1 .. k
                      /\ new.queue[s][i].work = <<t, IndexAt(new, s, i)>>
                      /\ Act(t, IndexAt(new, s, i)).stream = s
    BY DEF Placed
  <2>1. CASE i \in 1 .. Len(dev.queue[s]) /\ new.queue[s][i] = dev.queue[s][i]
                  /\ IndexAt(new, s, i) = IndexAt(dev, s, i)
    <3> DEFINE j == IndexAt(dev, s, i)
    <3>1. j \in 1 .. k - 1 /\ dev.queue[s][i].work = <<t, j>> /\ Act(t, j).stream = s
      BY <1>2, <2>1 DEF Placed
    <3>2. IndexAt(new, s, i) = j /\ new.queue[s][i] = dev.queue[s][i]
      BY <2>1
    <3> HIDE DEF j
    <3>3. j \in 1 .. k
      BY <1>1, <3>1
    <3> QED BY <3>1, <3>2, <3>3
  <2>2. CASE s = a.stream /\ i = n + 1 /\ IndexAt(new, s, i) = k
    <3>1. new.queue[s][i].work = <<t, k>> /\ k \in 1 .. k
      <4>1. k \in 1 .. k
        BY <1>1
      <4> QED BY Zenon, <1>22, <2>2, <4>1
    <3> QED BY <2>2, <3>1 DEF a
  <2> QED BY <1>7, <2>1, <2>2
<1>16. Ordered(new)
  <2> SUFFICES ASSUME NEW s \in AllStreams, NEW i \in 1 .. Len(new.queue[s]), NEW l \in 1 .. Len(new.queue[s]), i < l
               PROVE  IndexAt(new, s, i) < IndexAt(new, s, l)
    BY DEF Ordered
  <2>1. i \in 1 .. Len(dev.queue[s])
    <3>1. Len(new.queue[s]) = Len(dev.queue[s]) + One(s, a.stream) /\ One(s, a.stream) \in {0, 1}
      BY <1>5, OneFacts
    <3> QED BY <1>4, <3>1
  <2>2. IndexAt(new, s, i) = IndexAt(dev, s, i) /\ IndexAt(dev, s, i) \in 1 .. k - 1
    BY <1>8, <2>1
  <2>3. CASE l \in 1 .. Len(dev.queue[s]) /\ IndexAt(new, s, l) = IndexAt(dev, s, l)
    BY <1>2, <2>1, <2>2, <2>3 DEF Ordered
  <2>4. CASE IndexAt(new, s, l) = k
    BY <1>1, <2>2, <2>4
  <2> QED BY <1>7, <2>3, <2>4
<1>17. Marked(new, t, m)
  <2> SUFFICES ASSUME NEW s \in AllStreams, NEW i \in 1 .. Len(new.queue[s])
               PROVE  /\ \A r \in new.queue[s][i].records : r[2] = 1 /\ r[1] \in Act(t, IndexAt(new, s, i)).records
                      /\ IndexAt(new, s, i) <= m =>
                           \A e \in Act(t, IndexAt(new, s, i)).records : <<e, 1>> \in new.queue[s][i].records
    BY DEF Marked
  <2>1. CASE i \in 1 .. Len(dev.queue[s]) /\ new.queue[s][i] = dev.queue[s][i]
                  /\ IndexAt(new, s, i) = IndexAt(dev, s, i)
    <3> DEFINE j == IndexAt(dev, s, i)
    <3>1. /\ \A r \in dev.queue[s][i].records : r[2] = 1 /\ r[1] \in Act(t, j).records
          /\ j <= k - 1 => \A e \in Act(t, j).records : <<e, 1>> \in dev.queue[s][i].records
      BY <1>2, <2>1 DEF Marked
    <3>2. j <= k - 1
      BY <1>1, <1>8, <2>1
    <3> HIDE DEF j
    <3> QED BY <2>1, <3>1, <3>2 DEF j
  <2>2. CASE s = a.stream /\ i = n + 1 /\ IndexAt(new, s, i) = k
    <3>1. \A r \in {<<e, 1>> : e \in records} : r[2] = 1 /\ r[1] \in a.records
      BY <1>13
    <3>2. k <= m => records = a.records
      BY <1>1 DEF a
    <3> QED BY <1>14, <2>2, <3>1, <3>2 DEF a
  <2> QED BY <1>7, <2>1, <2>2
<1>18. Counted(new)
  <2> SUFFICES ASSUME NEW e \in AllEvents
               PROVE  new.unreached[e] \in {0, 1} /\ (new.unreached[e] = 1 <=> Recorded(new, e))
    BY DEF Counted
  <2>1. dev.unreached[e] \in {0, 1} /\ (dev.unreached[e] = 1 <=> Recorded(dev, e))
    BY <1>2 DEF Counted
  <2>2. CASE e \in records
    <3>1. new.unreached[e] = 1
      <4>1. dev.unreached[e] = 0
        BY <1>12, <1>13, <2>2
      <4>2. new.unreached[e] = dev.unreached[e] + 1
        BY <1>25, <2>2
      <4> QED BY <4>1, <4>2
    <3>2. <<e, 1>> \in new.queue[a.stream][n + 1].records
      BY <1>14, <2>2
    <3> QED BY <1>1, <1>6, <3>1, <3>2 DEF Recorded
  <2>3. CASE e \notin records
    <3>1. new.unreached[e] = dev.unreached[e]
      <4>1. new.unreached[e] = dev.unreached[e] + 0
        BY <1>25, <2>3
      <4> QED BY <2>1, <4>1
    <3>2. <<e, 1>> \notin {<<f, 1>> : f \in records}
      BY <2>3
    <3>3. Recorded(new, e) => Recorded(dev, e)
      BY <1>7, <1>14, <3>2 DEF Recorded
    <3>4. Recorded(dev, e) => Recorded(new, e)
      BY <1>8 DEF Recorded
    <3> QED BY <2>1, <3>1, <3>3, <3>4
  <2> QED BY <2>2, <2>3
<1>19. Followed(new, t, m)
  <2> SUFFICES ASSUME NEW i \in 1 .. m, NEW j \in 1 .. m, i < j, Linked(t, i, j), Queued(new, i)
               PROVE  Queued(new, j)
    BY DEF Followed
  <2>1. i \in 1 .. k - 1 /\ (j \in 1 .. k - 1 \/ j = k)
    BY <1>1
  <2>3. i # k
    BY <1>1, <2>1
  <2>2. Queued(dev, i)
    BY <1>10, <2>3
  <2> QED BY <1>2, <1>10, <2>1, <2>2 DEF Followed
<1>20. Blocked(new, t, m)
  <2> SUFFICES ASSUME NEW s \in AllStreams, NEW l \in 1 .. Len(new.queue[s]), NEW i \in 1 .. m,
                      i < IndexAt(new, s, l), Queued(new, i),
                      NEW e \in Act(t, i).records \cap Act(t, IndexAt(new, s, l)).waits
               PROVE  <<e, 1>> \in new.queue[s][l].needs
    BY DEF Blocked
  <2>1. CASE l \in 1 .. Len(dev.queue[s]) /\ new.queue[s][l] = dev.queue[s][l]
                  /\ IndexAt(new, s, l) = IndexAt(dev, s, l)
    <3>1. IndexAt(dev, s, l) \in 1 .. k - 1
      BY <1>8, <2>1
    <3>2. i \in 1 .. k - 1 /\ i # k
      BY <1>1, <2>1, <3>1
    <3>3. Queued(dev, i)
      BY <1>10, <3>2
    <3> QED BY <1>2, <2>1, <3>2, <3>3 DEF Blocked
  <2>2. CASE s = a.stream /\ l = n + 1 /\ IndexAt(new, s, l) = k
    <3>1. i \in 1 .. k - 1 /\ i # k /\ e \in Act(t, i).records /\ e \in a.waits
      BY <1>1, <2>2 DEF a
    <3>2. Queued(dev, i)
      BY <1>10, <3>1
    <3>3. PICK u \in AllStreams : \E p \in 1 .. Len(dev.queue[u]) : IndexAt(dev, u, p) = i
      BY <3>2 DEF Queued
    <3>4. PICK p \in 1 .. Len(dev.queue[u]) : IndexAt(dev, u, p) = i
      BY <3>3
    <3>5. <<e, 1>> \in dev.queue[u][p].records
      BY <1>1, <1>2, <3>1, <3>4 DEF Marked
    <3>6. e \in waits /\ e \in AllEvents
      BY <1>1, <3>1 DEF waits
    <3>7. dev.unreached[e] = 1
      BY <1>2, <3>5, <3>6 DEF Counted, Recorded
    <3>8. <<e, dev.unreached[e]>> \in new.queue[a.stream][n + 1].needs
      <4>1. dev.unreached[e] > 0
        BY <3>7
      <4> QED BY Zenon, <1>23, <3>6, <4>1
    <3> QED BY <2>2, <3>7, <3>8
  <2> QED BY <1>7, <2>1, <2>2
<1> QED BY <1>5, <1>10, <1>15, <1>16, <1>17, <1>18, <1>19, <1>20 DEF Executes

LEMMA GivenExecutes ==
  ASSUME NEW dev, NEW t \in Tasks, NEW k \in 1 .. Size(t) - 1, Executes(dev, t, k - 1, k - 1),
         NEW flagged, NEW records \in {{}, Act(t, k).records}
  PROVE  /\ Executes(EnqueuedOn(dev, t, k, flagged, records), t, k, k - 1)
         /\ records = Act(t, k).records => Executes(EnqueuedOn(dev, t, k, flagged, records), t, k, k)
         /\ \A i : Queued(EnqueuedOn(dev, t, k, flagged, records), i) <=> Queued(dev, i) \/ i = k
<1> DEFINE new == EnqueuedOn(dev, t, k, flagged, records)
<1>1. new = EnqueuedOn(dev, t, k, flagged, records)
  OBVIOUS
<1> HIDE DEF new
<1> DEFINE j == k - 1
<1>2. j = k - 1 /\ Executes(dev, t, j, j) /\ FullOrNone(records, t, k)
  BY DEF FullOrNone
<1> HIDE DEF j
<1>3. Executes(new, t, k, j) /\ \A i : Queued(new, i) <=> Queued(dev, i) \/ i = k
  BY <1>1, <1>2, LaunchExecutes
<1>4. ASSUME records = Act(t, k).records
      PROVE  Executes(new, t, k, k)
  <2>1. Full(records, t, k)
    BY <1>4 DEF Full
  <2> QED BY <1>1, <1>2, <2>1, LaunchExecutes
<1> QED BY <1>3, <1>4 DEF new, j

\* The operation that is performed is behind nothing that is still queued, and
\* nothing else changes its place.
LEMMA PerformExecutes ==
  ASSUME NEW dev, NEW t \in Tasks, NEW n \in 0 .. Size(t) - 1, NEW m \in Nat, m <= n,
         Executes(dev, t, n, m), NEW s \in AllStreams, Cuda!CanPerform(dev, s),
         NEW new, new = Cuda!Performed(dev, s)
  PROVE  /\ Executes(new, t, n, m)
         /\ Cuda!Work(dev, s) = <<t, IndexAt(dev, s, 1)>> /\ IndexAt(dev, s, 1) \in 1 .. n
         /\ Act(t, IndexAt(dev, s, 1)).stream = s
         /\ Queued(dev, IndexAt(dev, s, 1))
         /\ \A i : Queued(new, i) <=> Queued(dev, i) /\ i # IndexAt(dev, s, 1)
         /\ \A i \in 1 .. m : i < IndexAt(dev, s, 1) /\ Linked(t, i, IndexAt(dev, s, 1)) => ~Queued(dev, i)
<1> DEFINE h == IndexAt(dev, s, 1)
           q == dev.queue[s]
           reached == Reached(dev, s)
<1>1. /\ dev \in Devs /\ Placed(dev, t, n) /\ Ordered(dev) /\ Marked(dev, t, m) /\ Counted(dev)
      /\ Followed(dev, t, m) /\ Blocked(dev, t, m) /\ n \in Nat
  BY SizeFacts DEF Executes
<1>2. q # <<>> /\ Head(q).needs = {}
  BY DEF Cuda!CanPerform
<1>3. \A u \in AllStreams : dev.queue[u] \in Seq(Cells) /\ Len(dev.queue[u]) \in Nat
  BY <1>1 DEF Devs
<1>4. 1 \in 1 .. Len(q) /\ Head(q) = q[1] /\ q \in Seq(Cells)
  BY <1>2, <1>3
<1>5. h \in 1 .. n /\ q[1].work = <<t, h>> /\ Act(t, h).stream = s /\ h \in 1 .. Size(t) - 1
  <2>1. h \in 1 .. n /\ q[1].work = <<t, h>> /\ Act(t, h).stream = s
    BY <1>1, <1>4 DEF Placed
  <2> HIDE DEF h
  <2> QED BY <2>1, SizeFacts
<1>6. Cuda!Work(dev, s) = <<t, h>>
  BY <1>4, <1>5 DEF Cuda!Work
<1>7. Queued(dev, h)
  BY <1>4 DEF Queued
<1>8. IsPerformed(new, dev, s)
  BY <1>1, <1>2, PerformedFacts
<1>9. \A r \in q[1].records : r[2] = 1 /\ r[1] \in Act(t, h).records
  BY <1>1, <1>4 DEF Marked
<1>10. \A e \in reached : e \in Act(t, h).records /\ <<e, 1>> \in q[1].records
  <2> TAKE e \in reached
  <2>1. PICK r \in q[1].records : r[1] = e
    BY <1>4 DEF Reached
  <2>2. r = <<e, 1>>
    <3>1. q[1] \in Cells
      BY <1>4
    <3>2. r \in Marks
      BY <3>1 DEF Cells
    <3>3. r = <<r[1], r[2]>>
      BY <3>2 DEF Marks
    <3>4. r[2] = 1
      BY <1>9
    <3> QED BY Zenon, <2>1, <3>3, <3>4
  <2> QED BY <1>9, <2>1, <2>2
<1>11. \A e : <<e, 1>> \in q[1].records => e \in reached
  BY <1>4 DEF Reached
<1> HIDE DEF h, q, reached
\* The place of an operation that stays.
<1>12. ASSUME NEW u \in AllStreams, NEW k \in 1 .. Len(new.queue[u])
       PROVE  /\ k + One(u, s) \in 1 .. Len(dev.queue[u])
              /\ IsAdvanced(new.queue[u][k], dev.queue[u][k + One(u, s)], reached)
              /\ IndexAt(new, u, k) = IndexAt(dev, u, k + One(u, s))
              /\ ~(u = s /\ k + One(u, s) = 1)
  <2>1. /\ k + One(u, s) \in 1 .. Len(dev.queue[u])
        /\ IsAdvanced(new.queue[u][k], dev.queue[u][k + One(u, s)], reached)
    BY <1>8 DEF IsPerformed, reached
  <2>2. new.queue[u][k].work = dev.queue[u][k + One(u, s)].work
    BY <2>1 DEF IsAdvanced
  <2>3. One(u, s) \in {0, 1} /\ (u = s => One(u, s) = 1)
    BY OneFacts
  <2>4. u = s => k + One(u, s) # 1
    BY <2>3
  <2> QED BY Zenon, <2>1, <2>2, <2>4 DEF IndexAt
<1>13. ASSUME NEW u \in AllStreams, NEW k \in 1 .. Len(dev.queue[u]), ~(u = s /\ k = 1)
       PROVE  k - One(u, s) \in 1 .. Len(new.queue[u]) /\ (k - One(u, s)) + One(u, s) = k
  <2>1. Len(new.queue[u]) = Len(dev.queue[u]) - One(u, s) /\ Len(dev.queue[u]) \in Nat
    BY <1>3, <1>8 DEF IsPerformed
  <2>2. One(u, s) \in {0, 1} /\ (One(u, s) = 1 <=> u = s)
    BY OneFacts
  <2> QED BY <1>13, <2>1, <2>2
\* It is another operation.
<1>14. ASSUME NEW u \in AllStreams, NEW k \in 1 .. Len(dev.queue[u]), IndexAt(dev, u, k) = h
       PROVE  u = s /\ k = 1
  BY <1>1, <1>4, <1>14, OnePlace DEF h, q
<1>15. ASSUME NEW u \in AllStreams, NEW k \in 1 .. Len(new.queue[u])
       PROVE  IndexAt(new, u, k) # h /\ IndexAt(new, u, k) \in 1 .. n
  <2> DEFINE l == k + One(u, s)
  <2>1. l \in 1 .. Len(dev.queue[u]) /\ IndexAt(new, u, k) = IndexAt(dev, u, l) /\ ~(u = s /\ l = 1)
    BY <1>12
  <2> HIDE DEF l
  <2>2. IndexAt(dev, u, l) \in 1 .. n
    BY <1>1, <2>1 DEF Placed
  <2> QED BY <1>14, <2>1, <2>2
<1>16. \A i : Queued(new, i) <=> Queued(dev, i) /\ i # h
  <2> TAKE i
  <2>1. Queued(new, i) => Queued(dev, i) /\ i # h
    <3> SUFFICES ASSUME Queued(new, i) PROVE Queued(dev, i) /\ i # h
      OBVIOUS
    <3>0. PICK u \in AllStreams : \E k \in 1 .. Len(new.queue[u]) : IndexAt(new, u, k) = i
      BY DEF Queued
    <3>1. PICK k \in 1 .. Len(new.queue[u]) : IndexAt(new, u, k) = i
      BY <3>0
    <3> QED BY <1>12, <1>15, <3>1 DEF Queued
  <2>2. Queued(dev, i) /\ i # h => Queued(new, i)
    <3> SUFFICES ASSUME Queued(dev, i), i # h PROVE Queued(new, i)
      OBVIOUS
    <3>0. PICK u \in AllStreams : \E k \in 1 .. Len(dev.queue[u]) : IndexAt(dev, u, k) = i
      BY DEF Queued
    <3>1. PICK k \in 1 .. Len(dev.queue[u]) : IndexAt(dev, u, k) = i
      BY <3>0
    <3>2. ~(u = s /\ k = 1)
      BY <3>1 DEF h
    <3> DEFINE l == k - One(u, s)
    <3>3. l \in 1 .. Len(new.queue[u]) /\ l + One(u, s) = k
      BY <1>13, <3>2
    <3> HIDE DEF l
    <3>4. IndexAt(new, u, l) = i
      BY <1>12, <3>1, <3>3
    <3> QED BY <3>3, <3>4 DEF Queued
  <2> QED BY <2>1, <2>2
\* The events reached are those of this operation, and of no other.
<1>17. ASSUME NEW i \in 1 .. n, i # h, NEW e \in Act(t, i).records
       PROVE  e \notin reached
  <2>1. i \in 1 .. Size(t) - 1
    BY <1>17, SizeFacts
  <2>2. Recorder(e) = i
    BY <1>17, <2>1, OpFacts
  <2>3. \A f \in Act(t, h).records : Recorder(f) = h
    BY <1>5, OpFacts
  <2> QED BY <1>10, <1>17, <2>2, <2>3
\* What an operation that stays records.
<1>18. ASSUME NEW u \in AllStreams, NEW k \in 1 .. Len(new.queue[u]), NEW e
       PROVE  <<e, 1>> \in new.queue[u][k].records
                <=> <<e, 1>> \in dev.queue[u][k + One(u, s)].records
  <2> DEFINE l == k + One(u, s)
             old == dev.queue[u][l]
  <2>1. /\ l \in 1 .. Len(dev.queue[u]) /\ IsAdvanced(new.queue[u][k], old, reached)
        /\ IndexAt(new, u, k) = IndexAt(dev, u, l)
    BY <1>12
  <2>2. \A r \in old.records : r[2] = 1 /\ r[1] \in Act(t, IndexAt(dev, u, l)).records /\ r = <<r[1], r[2]>>
    <3>1. old \in Cells
      BY <1>3, <2>1
    <3>2. \A r \in old.records : r = <<r[1], r[2]>>
      BY <3>1 DEF Cells, Marks
    <3>3. \A r \in old.records : r[2] = 1 /\ r[1] \in Act(t, IndexAt(dev, u, l)).records
      BY <1>1, <2>1 DEF Marked
    <3> QED BY <3>2, <3>3
  <2> HIDE DEF l, old
  <2>3. \A r \in old.records : After(r, reached) = 1 /\ r = <<r[1], 1>>
    <3>1. IndexAt(dev, u, l) # h /\ IndexAt(dev, u, l) \in 1 .. n
      BY <1>15, <2>1
    <3>2. \A r \in old.records : r[1] \notin reached
      BY <1>17, <2>2, <3>1
    <3> QED BY <2>2, <3>2 DEF After
  <2>4. <<e, 1>> \in new.queue[u][k].records => <<e, 1>> \in old.records
    <3> SUFFICES ASSUME <<e, 1>> \in new.queue[u][k].records PROVE <<e, 1>> \in old.records
      OBVIOUS
    <3>1. PICK r \in old.records : <<e, 1>>[1] = r[1]
      BY <2>1 DEF IsAdvanced
    <3>2. r[1] = e
      BY <3>1
    <3>3. r = <<r[1], 1>>
      BY <2>3
    <3> QED BY Zenon, <3>2, <3>3
  <2>5. <<e, 1>> \in old.records => <<e, 1>> \in new.queue[u][k].records
    <3> SUFFICES ASSUME <<e, 1>> \in old.records PROVE <<e, 1>> \in new.queue[u][k].records
      OBVIOUS
    <3>1. PICK r \in old.records : r = <<e, 1>>
      OBVIOUS
    <3>2. After(r, reached) = 1 /\ r[1] = e
      BY <2>3, <3>1
    <3>3. <<r[1], After(r, reached)>> \in new.queue[u][k].records
      BY <2>1 DEF IsAdvanced
    <3> QED BY Zenon, <3>2, <3>3
  <2> QED BY <2>4, <2>5 DEF old, l
<1>19. new \in Devs
  BY <1>8 DEF IsPerformed
<1>20. Placed(new, t, n)
  <2> SUFFICES ASSUME NEW u \in AllStreams, NEW k \in 1 .. Len(new.queue[u])
               PROVE  /\ IndexAt(new, u, k) \in 1 .. n
                      /\ new.queue[u][k].work = <<t, IndexAt(new, u, k)>>
                      /\ Act(t, IndexAt(new, u, k)).stream = u
    BY DEF Placed
  <2> DEFINE l == k + One(u, s)
  <2>1. /\ l \in 1 .. Len(dev.queue[u]) /\ IndexAt(new, u, k) = IndexAt(dev, u, l)
        /\ new.queue[u][k].work = dev.queue[u][l].work
    BY <1>12 DEF IsAdvanced
  <2> HIDE DEF l
  <2>2. /\ IndexAt(dev, u, l) \in 1 .. n
        /\ dev.queue[u][l].work = <<t, IndexAt(dev, u, l)>>
        /\ Act(t, IndexAt(dev, u, l)).stream = u
    BY <1>1, <2>1 DEF Placed
  <2> QED BY Zenon, <2>1, <2>2
<1>21. Ordered(new)
  <2> SUFFICES ASSUME NEW u \in AllStreams, NEW k \in 1 .. Len(new.queue[u]), NEW l \in 1 .. Len(new.queue[u]), k < l
               PROVE  IndexAt(new, u, k) < IndexAt(new, u, l)
    BY DEF Ordered
  <2> DEFINE g == One(u, s)
  <2>1. /\ k + g \in 1 .. Len(dev.queue[u]) /\ l + g \in 1 .. Len(dev.queue[u])
        /\ IndexAt(new, u, k) = IndexAt(dev, u, k + g) /\ IndexAt(new, u, l) = IndexAt(dev, u, l + g)
    BY <1>12
  <2>2. g \in {0, 1}
    BY OneFacts
  <2> HIDE DEF g
  <2>3. k + g < l + g
    BY <2>2
  <2> QED BY <1>1, <2>1, <2>3 DEF Ordered
<1>22. Marked(new, t, m)
  <2> SUFFICES ASSUME NEW u \in AllStreams, NEW k \in 1 .. Len(new.queue[u])
               PROVE  /\ \A r \in new.queue[u][k].records : r[2] = 1 /\ r[1] \in Act(t, IndexAt(new, u, k)).records
                      /\ IndexAt(new, u, k) <= m =>
                           \A e \in Act(t, IndexAt(new, u, k)).records : <<e, 1>> \in new.queue[u][k].records
    BY DEF Marked
  <2> DEFINE l == k + One(u, s)
  <2>1. /\ l \in 1 .. Len(dev.queue[u]) /\ IndexAt(new, u, k) = IndexAt(dev, u, l)
        /\ IsAdvanced(new.queue[u][k], dev.queue[u][l], reached)
        /\ \A e : <<e, 1>> \in new.queue[u][k].records <=> <<e, 1>> \in dev.queue[u][l].records
    BY <1>12, <1>18
  <2> HIDE DEF l
  <2>2. /\ \A r \in dev.queue[u][l].records : r[2] = 1 /\ r[1] \in Act(t, IndexAt(dev, u, l)).records
        /\ IndexAt(dev, u, l) <= m =>
             \A e \in Act(t, IndexAt(dev, u, l)).records : <<e, 1>> \in dev.queue[u][l].records
    BY <1>1, <2>1 DEF Marked
  <2>3. IndexAt(dev, u, l) # h /\ IndexAt(dev, u, l) \in 1 .. n
    BY <1>15, <2>1
  <2>4. ASSUME NEW r \in new.queue[u][k].records
        PROVE  r[2] = 1 /\ r[1] \in Act(t, IndexAt(dev, u, l)).records
    <3>1. PICK p \in dev.queue[u][l].records : r[1] = p[1] /\ r[2] = After(p, reached)
      BY <2>1 DEF IsAdvanced
    <3>2. p[2] = 1 /\ p[1] \in Act(t, IndexAt(dev, u, l)).records
      BY <2>2
    <3>3. p[1] \notin reached
      BY <1>17, <2>3, <3>2
    <3> QED BY <3>1, <3>2, <3>3 DEF After
  <2>5. IndexAt(dev, u, l) <= m =>
          \A e \in Act(t, IndexAt(dev, u, l)).records : <<e, 1>> \in new.queue[u][k].records
    BY <2>1, <2>2
  <2> QED BY Zenon, <2>1, <2>4, <2>5
<1>23. Counted(new)
  <2> SUFFICES ASSUME NEW e \in AllEvents
               PROVE  new.unreached[e] \in {0, 1} /\ (new.unreached[e] = 1 <=> Recorded(new, e))
    BY DEF Counted
  <2>1. dev.unreached[e] \in {0, 1} /\ (dev.unreached[e] = 1 <=> Recorded(dev, e))
    BY <1>1 DEF Counted
  <2>2. new.unreached[e] = dev.unreached[e] - (IF e \in reached THEN 1 ELSE 0)
    BY <1>8 DEF IsPerformed, reached
  <2>3. Recorded(new, e) => Recorded(dev, e) /\ e \notin reached
    <3> SUFFICES ASSUME Recorded(new, e) PROVE Recorded(dev, e) /\ e \notin reached
      OBVIOUS
    <3>0. PICK u \in AllStreams : \E k \in 1 .. Len(new.queue[u]) : <<e, 1>> \in new.queue[u][k].records
      BY DEF Recorded
    <3>1. PICK k \in 1 .. Len(new.queue[u]) : <<e, 1>> \in new.queue[u][k].records
      BY <3>0
    <3> DEFINE l == k + One(u, s)
    <3>2. l \in 1 .. Len(dev.queue[u]) /\ <<e, 1>> \in dev.queue[u][l].records /\ IndexAt(new, u, k) = IndexAt(dev, u, l)
      BY <1>12, <1>18, <3>1
    <3> HIDE DEF l
    <3>3. IndexAt(dev, u, l) \in 1 .. n /\ IndexAt(dev, u, l) # h
      BY <1>15, <3>2
    <3>4. <<e, 1>>[1] \in Act(t, IndexAt(dev, u, l)).records
      BY <1>1, <3>2 DEF Marked
    <3>5. e \in Act(t, IndexAt(dev, u, l)).records
      BY <3>4
    <3> QED BY <1>17, <3>2, <3>3, <3>5 DEF Recorded
  <2>4. Recorded(dev, e) /\ e \notin reached => Recorded(new, e)
    <3> SUFFICES ASSUME Recorded(dev, e), e \notin reached PROVE Recorded(new, e)
      OBVIOUS
    <3>0. PICK u \in AllStreams : \E k \in 1 .. Len(dev.queue[u]) : <<e, 1>> \in dev.queue[u][k].records
      BY DEF Recorded
    <3>1. PICK k \in 1 .. Len(dev.queue[u]) : <<e, 1>> \in dev.queue[u][k].records
      BY <3>0
    <3>2. ~(u = s /\ k = 1)
      BY <1>11, <3>1 DEF q
    <3> DEFINE l == k - One(u, s)
    <3>3. l \in 1 .. Len(new.queue[u]) /\ l + One(u, s) = k
      BY <1>13, <3>2
    <3> HIDE DEF l
    <3>4. <<e, 1>> \in new.queue[u][l].records
      BY <1>18, <3>1, <3>3
    <3> QED BY <3>3, <3>4 DEF Recorded
  <2>5. e \in reached => Recorded(dev, e)
    BY <1>4, <1>10 DEF Recorded, q
  <2> QED BY <2>1, <2>2, <2>3, <2>4, <2>5
<1>24. \A i \in 1 .. m : i < h /\ Linked(t, i, h) => ~Queued(dev, i)
  <2> SUFFICES ASSUME NEW i \in 1 .. m, i < h, Linked(t, i, h), Queued(dev, i) PROVE FALSE
    OBVIOUS
  <2>1. CASE Act(t, i).stream = Act(t, h).stream
    <3>0. PICK u \in AllStreams : \E k \in 1 .. Len(dev.queue[u]) : IndexAt(dev, u, k) = i
      BY DEF Queued
    <3>1. PICK k \in 1 .. Len(dev.queue[u]) : IndexAt(dev, u, k) = i
      BY <3>0
    <3>2. u = s
      BY <1>1, <1>5, <2>1, <3>1 DEF Placed
    <3>3. k # 1
      BY <1>5, <3>1, <3>2 DEF h
    <3>4. 1 < k
      BY <3>3
    <3>5. h < i
      BY <1>1, <1>4, <3>1, <3>2, <3>4 DEF Ordered, h, q
    <3> QED BY <1>5, <3>5
  <2>2. CASE Act(t, i).records \cap Act(t, h).waits # {}
    <3>1. PICK e : e \in Act(t, i).records \cap Act(t, h).waits
      BY <2>2
    <3>2. <<e, 1>> \in q[1].needs
      BY <1>1, <1>4, <3>1 DEF Blocked, h, q
    <3> QED BY <1>2, <1>4, <3>2
  <2> QED BY <2>1, <2>2 DEF Linked
<1>25. Followed(new, t, m)
  <2> SUFFICES ASSUME NEW i \in 1 .. m, NEW j \in 1 .. m, i < j, Linked(t, i, j), Queued(new, i)
               PROVE  Queued(new, j)
    BY DEF Followed
  <2>1. Queued(dev, i) /\ i # h
    BY <1>16
  <2>2. Queued(dev, j)
    BY <1>1, <2>1 DEF Followed
  <2>3. j # h
    BY <1>24, <2>1
  <2> QED BY <1>16, <2>2, <2>3
<1>26. Blocked(new, t, m)
  <2> SUFFICES ASSUME NEW u \in AllStreams, NEW k \in 1 .. Len(new.queue[u]), NEW i \in 1 .. m,
                      i < IndexAt(new, u, k), Queued(new, i),
                      NEW e \in Act(t, i).records \cap Act(t, IndexAt(new, u, k)).waits
               PROVE  <<e, 1>> \in new.queue[u][k].needs
    BY DEF Blocked
  <2> DEFINE l == k + One(u, s)
  <2>1. /\ l \in 1 .. Len(dev.queue[u]) /\ IndexAt(new, u, k) = IndexAt(dev, u, l)
        /\ IsAdvanced(new.queue[u][k], dev.queue[u][l], reached)
    BY <1>12
  <2> HIDE DEF l
  <2>2. Queued(dev, i) /\ i # h /\ i \in 1 .. n
    BY <1>1, <1>16
  <2>3. <<e, 1>> \in dev.queue[u][l].needs
    BY <1>1, <2>1, <2>2 DEF Blocked
  <2>4. e \notin reached
    BY <1>17, <2>2
  <2> DEFINE need == <<e, 1>>
  <2>5. need[1] = e /\ need[2] = 1 /\ need \in dev.queue[u][l].needs
    BY <2>3
  <2> HIDE DEF need
  <2>6. After(need, reached) = 1
    BY <2>4, <2>5 DEF After
  <2>7. <<need[1], After(need, reached)>> \in new.queue[u][k].needs
    BY <2>1, <2>5, <2>6 DEF IsAdvanced
  <2> QED BY Zenon, <2>5, <2>6, <2>7
<1>27. Executes(new, t, n, m)
  BY <1>19, <1>20, <1>21, <1>22, <1>23, <1>25, <1>26 DEF Executes
<1> QED BY <1>5, <1>6, <1>7, <1>16, <1>24, <1>27 DEF h

-----------------------------------------------------------------------------
(* When a device is through with a task. *)

\* The instruction a task ends with is its only wait.
LEMMA LastIsWait ==
  ASSUME NEW t \in Tasks
  PROVE  /\ Act(t, Size(t)).do = "wait" /\ Act(t, Size(t)).guards = {} /\ Act(t, Size(t)).streams = {}
         /\ \A e \in Act(t, Size(t)).events : e \in AllEvents
         /\ t.do = "project" => 3 \in 1 .. Size(t) - 1 /\ Act(t, 3).records \subseteq Act(t, Size(t)).events
         /\ t.do = "attend" => /\ Act(t, 7).records \subseteq Act(t, Size(t)).events
                               /\ Act(t, 9).records \subseteq Act(t, Size(t)).events
<1>1. CASE t.do = "project"
  <2>1. Size(t) = 4 /\ 3 \in 1 .. Size(t) - 1
    BY <1>1 DEF Size
  <2>2. /\ Act(t, 4).do = "wait" /\ Act(t, 4).guards = {} /\ Act(t, 4).streams = {}
        /\ Act(t, 4).events = {CopyDone(Ring, 0)}
    BY <1>1, ProjectShape DEF Wait
  <2>3. Act(t, 3).records = {CopyDone(Ring, 0)}
    BY <1>1, ProjectShape DEF IsOp
  <2>4. Act(t, 3).records \subseteq AllEvents
    BY <2>1, OpPlaces
  <2> QED BY <1>1, <2>1, <2>2, <2>3, <2>4
<1>2. CASE t.do = "attend"
  <2>1. Size(t) = 10 /\ 7 \in 1 .. Size(t) - 1 /\ 9 \in 1 .. Size(t) - 1
    BY <1>2 DEF Size
  <2>2. /\ Act(t, 10).do = "wait" /\ Act(t, 10).guards = {} /\ Act(t, 10).streams = {}
        /\ Act(t, 10).events = {<<"task_done", "self">>, <<"pipeline_end", "self">>}
    <3>1. Act(t, 10) = Wait({}, {<<"task_done", "self">>, <<"pipeline_end", "self">>}, {}, {})
      BY <1>2, AttendShape
    <3> QED BY <3>1 DEF Wait
  <2>3. Act(t, 7).records = {<<"task_done", "self">>}
    BY <1>2, AttendShape DEF IsOp
  <2>4. Act(t, 9).records = {<<"pipeline_end", "self">>}
    BY <1>2, AttendShape DEF IsOp
  <2>5. Act(t, 7).records \subseteq AllEvents /\ Act(t, 9).records \subseteq AllEvents
    BY <2>1, OpPlaces
  <2> QED BY <1>2, <2>1, <2>2, <2>3, <2>4, <2>5
<1> QED BY <1>1, <1>2, TaskFacts

\* Which operation of a task is behind which.
LEMMA ProjectLinks ==
  ASSUME NEW t \in Tasks, t.do = "project"
  PROVE  Linked(t, 1, 2) /\ Linked(t, 2, 3)
<1>1. /\ Act(t, 1).records = {InputReady(Ring, 0)} /\ Act(t, 2).waits = {InputReady(Ring, 0)}
      /\ Act(t, 2).records = {ResultReady(Ring, 0)} /\ Act(t, 3).waits = {ResultReady(Ring, 0)}
  BY ProjectShape DEF IsOp
<1> QED BY <1>1 DEF Linked

LEMMA AttendLinks ==
  ASSUME NEW t \in Tasks, t.do = "attend"
  PROVE  /\ Linked(t, 1, 3) /\ Linked(t, 2, 3) /\ Linked(t, 3, 4) /\ Linked(t, 4, 5) /\ Linked(t, 5, 6)
         /\ Linked(t, 3, 9) /\ Linked(t, 4, 9) /\ Linked(t, 5, 9) /\ Linked(t, 8, 9) /\ Linked(t, 6, 7)
<1>1. /\ Act(t, 1).records = {<<"q_ready", "self">>}
      /\ Act(t, 2).records = {<<"kv_ready", "self">>}
      /\ Act(t, 3).waits = {<<"q_ready", "self">>, <<"kv_ready", "self">>} /\ Act(t, 3).stream = Compute
  BY AttendShape DEF IsOp
<1>2. Act(t, 4).stream = Compute /\ Act(t, 5).stream = Compute /\ Act(t, 5).records = {Computed(t)}
  BY AttendShape DEF IsOp
<1>3. /\ Act(t, 6).waits = {Computed(t)} /\ Act(t, 6).stream = Writer("video")
      /\ Act(t, 7).stream = Writer("video")
  BY AttendShape DEF IsOp
<1>4. Act(t, 8).stream = Compute /\ Act(t, 9).stream = Compute
  BY AttendShape DEF IsOp
<1> QED BY <1>1, <1>2, <1>3, <1>4 DEF Linked

\* An operation none of whose events is outstanding was performed.
LEMMA ReachedIsDone ==
  ASSUME NEW dev, NEW t \in Tasks, NEW n, NEW m, Executes(dev, t, n, m), NEW i \in 1 .. m,
         NEW e \in Act(t, i).records, e \in AllEvents, dev.unreached[e] = 0
  PROVE  ~Queued(dev, i)
<1> SUFFICES ASSUME Queued(dev, i) PROVE FALSE
  OBVIOUS
<1>1. Marked(dev, t, m) /\ Counted(dev)
  BY DEF Executes
<1>2. PICK s \in AllStreams : \E k \in 1 .. Len(dev.queue[s]) : IndexAt(dev, s, k) = i
  BY DEF Queued
<1>3. PICK k \in 1 .. Len(dev.queue[s]) : IndexAt(dev, s, k) = i
  BY <1>2
<1>4. i <= m
  OBVIOUS
<1>5. <<e, 1>> \in dev.queue[s][k].records
  BY <1>1, <1>3, <1>4 DEF Marked
<1>6. dev.unreached[e] = 1
  BY <1>1, <1>5 DEF Counted, Recorded
<1> QED BY <1>6

LEMMA NothingQueued ==
  ASSUME NEW dev, NEW t, NEW n, NEW m, Executes(dev, t, n, m), \A i \in 1 .. n : ~Queued(dev, i)
  PROVE  Quiet(dev)
<1>1. dev \in Devs /\ Placed(dev, t, n) /\ Counted(dev)
  BY DEF Executes
<1>2. \A s \in AllStreams : \A k \in 1 .. Len(dev.queue[s]) : FALSE
  BY <1>1 DEF Placed, Queued
<1>3. \A s \in AllStreams : dev.queue[s] \in Seq(Cells)
  BY <1>1 DEF Devs
<1>4. \A s \in AllStreams : dev.queue[s] = <<>>
  BY <1>2, <1>3
<1> QED BY <1>1, <1>4, EmptyIsQuiet

\* The last wait of a task leaves nothing on the device.
LEMMA WaitIsQuiet ==
  ASSUME NEW dev, NEW t \in Tasks, Executes(dev, t, Size(t) - 1, Size(t) - 1),
         \A e \in Act(t, Size(t)).events : dev.unreached[e] = 0
  PROVE  Quiet(dev)
<1>1. Followed(dev, t, Size(t) - 1)
  BY DEF Executes
<1>2. CASE t.do = "project"
  <2>1. Size(t) - 1 = 3
    BY <1>2 DEF Size
  <2>2. ~Queued(dev, 3)
    <3>1. Act(t, 3).records = {CopyDone(Ring, 0)}
      BY <1>2, ProjectShape DEF IsOp
    <3>2. CopyDone(Ring, 0) \in Act(t, Size(t)).events
      BY <1>2, <3>1, LastIsWait
    <3>3. CopyDone(Ring, 0) \in AllEvents /\ dev.unreached[CopyDone(Ring, 0)] = 0
      BY <3>2, LastIsWait
    <3> HIDE DEF CopyDone
    <3> QED BY <2>1, <3>1, <3>3, ReachedIsDone
  <2>3. ~Queued(dev, 2)
    BY <1>1, <1>2, <2>1, <2>2, ProjectLinks DEF Followed
  <2>4. ~Queued(dev, 1)
    BY <1>1, <1>2, <2>1, <2>3, ProjectLinks DEF Followed
  <2>5. \A i \in 1 .. Size(t) - 1 : ~Queued(dev, i)
    BY <2>1, <2>2, <2>3, <2>4
  <2> QED BY <2>5, NothingQueued
<1>3. CASE t.do = "attend"
  <2>1. Size(t) - 1 = 9
    BY <1>3 DEF Size
  <2> DEFINE done == <<"task_done", "self">>
             end == <<"pipeline_end", "self">>
  <2>2. Act(t, 7).records = {done} /\ Act(t, 9).records = {end}
    BY <1>3, AttendShape DEF IsOp
  <2> HIDE DEF done, end
  <2>3. done \in Act(t, Size(t)).events /\ end \in Act(t, Size(t)).events
    BY <1>3, <2>2, LastIsWait
  <2>4. /\ done \in AllEvents /\ dev.unreached[done] = 0
        /\ end \in AllEvents /\ dev.unreached[end] = 0
    BY <2>3, LastIsWait
  <2>5. ~Queued(dev, 7) /\ ~Queued(dev, 9)
    BY <2>1, <2>2, <2>4, ReachedIsDone
  <2>6. ~Queued(dev, 3) /\ ~Queued(dev, 4) /\ ~Queued(dev, 5) /\ ~Queued(dev, 6) /\ ~Queued(dev, 8)
    BY <1>1, <1>3, <2>1, <2>5, AttendLinks DEF Followed
  <2>7. ~Queued(dev, 1) /\ ~Queued(dev, 2)
    BY <1>1, <1>3, <2>1, <2>6, AttendLinks DEF Followed
  <2>8. \A i \in 1 .. Size(t) - 1 : ~Queued(dev, i)
    BY <2>1, <2>5, <2>6, <2>7
  <2> QED BY <2>8, NothingQueued
<1> QED BY <1>2, <1>3, TaskFacts

\* The recovery of either task waits for every stream it uses.
LEMMA RecoveryFacts ==
  ASSUME NEW t \in Tasks, NEW i \in 1 .. Size(t) - 1
  PROVE  \A k \in 1 .. Size(t) - 1 : Act(t, k).stream \in Programs[t][i].recovery.streams
<1>1. CASE t.do = "project"
  <2>1. i \in 1 .. 4 /\ Size(t) - 1 = 3
    BY <1>1 DEF Size
  <2>2. Programs[t][i].recovery.streams = {H2d(Ring), Compute, D2h(Ring)}
    <3>1. Programs[t][i].recovery = RecoverProjection(Ring, 1)
      <4> DEFINE x(k) == ProjectActs(t)[k]
      <4>1. Programs[t][i] = [do |-> x(i), recovery |-> RecoverProjection(Ring, 1)]
        BY <1>1, <2>1, ProjectProgram
      <4> HIDE DEF x
      <4> QED BY <4>1
    <3> QED BY <3>1 DEF RecoverProjection, Wait
  <2>3. Act(t, 1).stream = H2d(Ring) /\ Act(t, 2).stream = Compute /\ Act(t, 3).stream = D2h(Ring)
    BY <1>1, ProjectShape DEF IsOp
  <2> QED BY <2>1, <2>2, <2>3
<1>2. CASE t.do = "attend"
  <2>1. i \in 1 .. 10 /\ Size(t) - 1 = 9
    BY <1>2 DEF Size
  <2>2. Programs[t][i].recovery.streams = {Copies, Compute, Writer("video")}
    <3>1. Programs[t][i].recovery = RecoverAttention(StageOf(t.block))
      <4> DEFINE x(k) == AttendActs(t)[k]
      <4>1. Programs[t][i] = [do |-> x(i), recovery |-> RecoverAttention(StageOf(t.block))]
        BY <1>2, <2>1, AttendProgram
      <4> HIDE DEF x
      <4> QED BY <4>1
    <3>2. IsStage(StageOf(t.block), t.block)
      BY TaskFacts, StageIs
    <3> HIDE DEF StageOf
    <3> QED BY <3>1, <3>2 DEF RecoverAttention, IsStage, Wait, Inputs, Copies
  <2>3. /\ Act(t, 1).stream = Copies /\ Act(t, 2).stream = Copies
        /\ Act(t, 3).stream = Compute /\ Act(t, 4).stream = Compute /\ Act(t, 5).stream = Compute
    BY <1>2, AttendShape DEF IsOp
  <2>4. /\ Act(t, 6).stream = Writer("video") /\ Act(t, 7).stream = Writer("video")
        /\ Act(t, 8).stream = Compute /\ Act(t, 9).stream = Compute
    BY <1>2, AttendShape DEF IsOp
  <2> QED BY <2>1, <2>2, <2>3, <2>4
<1> QED BY <1>1, <1>2, TaskFacts

\* So does the recovery of a task that raised.
LEMMA RecoveryIsQuiet ==
  ASSUME NEW dev, NEW t \in Tasks, NEW i \in 1 .. Size(t) - 1, NEW m, Executes(dev, t, i, m),
         \A s \in Programs[t][i].recovery.streams : dev.queue[s] = <<>>
  PROVE  Quiet(dev)
<1>1. dev \in Devs /\ Placed(dev, t, i)
  BY DEF Executes
<1>2. \A k \in 1 .. i : k \in 1 .. Size(t) - 1
  BY SizeFacts
<1>3. ASSUME NEW k \in 1 .. i, Queued(dev, k)
      PROVE  FALSE
  <2>1. PICK s \in AllStreams : \E l \in 1 .. Len(dev.queue[s]) : IndexAt(dev, s, l) = k
    BY <1>3 DEF Queued
  <2>2. PICK l \in 1 .. Len(dev.queue[s]) : IndexAt(dev, s, l) = k
    BY <2>1
  <2>3. s = Act(t, k).stream
    BY <1>1, <2>2 DEF Placed
  <2>4. dev.queue[s] = <<>>
    BY <1>2, <2>3, RecoveryFacts
  <2>5. Len(dev.queue[s]) = 0
    BY <2>4
  <2> QED BY <2>2, <2>5
<1> QED BY <1>3, NothingQueued

-----------------------------------------------------------------------------
(* The workers. *)

Idle == {"done", "enter", "claim"}
Raised == {"raised", "recover"}
Leases == {LeaseNamed("project"), LeaseNamed("attend")}
AllFlags == UNION {Act(t, i).flags : t \in Tasks, i \in 1 .. 9}
Workers == [pc : {"done", "enter", "claim", "run", "raised", "recover"}, task : Tasks \cup {NoTask},
            at : 0 .. 10, index : Nat, pending : SUBSET AllFlags, leases : SUBSET Leases]

\* A worker and its device: the device is empty unless the worker is in a task,
\* and then it executes what the worker issued of it.
WorksOn(w, dev, what, b) ==
  /\ w.pc \in Idle => Quiet(dev)
  /\ w.pc \notin Idle => /\ w.task \in Tasks /\ w.task.do = what /\ w.task.block = b
                         /\ what # "idle"
  /\ w.pc = "run" => w.at \in 1 .. Size(w.task) /\ Executes(dev, w.task, w.at - 1, w.at - 1)
  /\ w.pc \in Raised => w.at \in 1 .. Size(w.task) - 1 /\ Executes(dev, w.task, w.at, w.at - 1)
  /\ w.leases = IF w.pc \in {"claim", "run", "raised"} THEN {LeaseNamed(what)} ELSE {}
  /\ w.pc = "recover" => what = "project"
  /\ what = "idle" => w.pc = "done"
  /\ what = "project" => w.index = 0

TypeOK ==
  /\ phase \in {"idle", "project", "attend"}
  /\ block \in 0 .. BlockCount - 1
  /\ next \in 0 .. RowCount
  /\ worker \in [Devices -> Workers]
  /\ cuda \in [Devices -> Devs]

WorkersWork == \A d \in Devices : WorksOn(worker[d], cuda[d], phase, block)

WInv == TypeOK /\ WorkersWork

LEMMA LeaseIs ==
  ASSUME TypeOK, phase # "idle"
  PROVE  LeaseOf(phase) = LeaseNamed(phase) /\ LeaseNamed(phase) \in Leases
<1>1. IsStage(StageOf(block), block)
  BY MultiGpuH3Assumption, StageIs DEF TypeOK
<1> HIDE DEF StageOf
<1>2. phase \in {"project", "attend"}
  BY DEF TypeOK
<1> QED BY <1>1, <1>2 DEF IsStage, LeaseOf, LeaseNamed, Projecting, Consuming, Leases

LEMMA ActFlags ==
  ASSUME NEW t \in Tasks, NEW i \in 1 .. Size(t) - 1
  PROVE  Act(t, i).flags \subseteq AllFlags
BY SizeFacts DEF AllFlags

\* What an Issue or a Wait makes of the worker.
Moved(d, pending) == [Advanced(d) EXCEPT !.pending = pending]

LEMMA AdvancedWorker ==
  ASSUME NEW d \in Devices, TypeOK, WorksOn(worker[d], cuda[d], phase, block), worker[d].pc = "run",
         NEW pending \in SUBSET AllFlags
  PROVE  LET w == Moved(d, pending) IN
         /\ w \in Workers /\ w.leases = worker[d].leases /\ w.pending = pending
         /\ worker[d].at < Size(worker[d].task) =>
              w.pc = "run" /\ w.at = worker[d].at + 1 /\ w.task = worker[d].task /\ w.index = worker[d].index
         /\ worker[d].at = Size(worker[d].task) =>
              /\ w.pc = "claim" /\ w.task = NoTask /\ w.at = 0
              /\ w.index = worker[d].index + (IF phase = "attend" THEN 1 ELSE 0)
<1> DEFINE o == worker[d]
           w == Moved(d, pending)
<1>0. w = [Advanced(d) EXCEPT !.pending = pending]
  BY DEF Moved
<1> HIDE DEF w
<1>1. o \in Workers /\ o.task \in Tasks /\ o.task.do = phase /\ o.at \in 1 .. Size(o.task)
  BY DEF TypeOK, WorksOn, Idle
<1>2. Len(Programs[o.task]) = Size(o.task) /\ Size(o.task) \in {4, 10}
  BY <1>1, SizeFacts
<1>3. Advanced(d) = IF o.at < Size(o.task) THEN [o EXCEPT !.at = o.at + 1]
                    ELSE [o EXCEPT !.at = 0, !.pc = "claim", !.task = NoTask,
                                   !.index = o.index + (IF o.task.do = "attend" THEN 1 ELSE 0)]
  BY <1>2 DEF Advanced
<1> HIDE DEF o
<1>4. CASE o.at < Size(o.task)
  <2>1. w = [o EXCEPT !.at = o.at + 1, !.pending = pending]
    BY <1>0, <1>1, <1>3, <1>4 DEF Workers
  <2>2. o.at + 1 \in 0 .. 10
    BY <1>1, <1>2, <1>4
  <2>3. w \in Workers
    BY <1>1, <2>1, <2>2 DEF Workers
  <2>4. /\ w.pc = o.pc /\ w.at = o.at + 1 /\ w.task = o.task /\ w.index = o.index
        /\ w.leases = o.leases /\ w.pending = pending
    BY <1>1, <2>1 DEF Workers
  <2>5. o.pc = "run" /\ ~(o.at = Size(o.task))
    BY <1>1, <1>2, <1>4 DEF o
  <2> HIDE DEF w
  <2> QED BY <1>4, <2>3, <2>4, <2>5 DEF o, w
<1>5. CASE o.at = Size(o.task)
  <2> DEFINE index == o.index + (IF phase = "attend" THEN 1 ELSE 0)
  <2>1. index \in Nat
    BY <1>1 DEF Workers
  <2>2. ~(o.at < Size(o.task))
    BY <1>2, <1>5
  <2>3. Advanced(d) = [o EXCEPT !.at = 0, !.pc = "claim", !.task = NoTask, !.index = index]
    BY <1>1, <1>3, <2>2
  <2> HIDE DEF index
  <2>4. w = [o EXCEPT !.at = 0, !.pc = "claim", !.task = NoTask, !.index = index, !.pending = pending]
    BY <1>0, <1>1, <2>3 DEF Workers
  <2>5. w \in Workers /\ w.leases = o.leases /\ w.pending = pending /\ w.pc = "claim" /\ w.task = NoTask
        /\ w.at = 0 /\ w.index = index
    <3>1. /\ w.leases = o.leases /\ w.pending = pending /\ w.pc = "claim" /\ w.task = NoTask
          /\ w.at = 0 /\ w.index = index
      BY <1>1, <2>4 DEF Workers
    <3>2. w \in Workers
      <4>1. 0 \in 0 .. 10
        OBVIOUS
      <4> QED BY <1>1, <2>1, <2>4, <4>1 DEF Workers
    <3> QED BY <3>1, <3>2
  <2> QED BY Zenon, <1>5, <2>2, <2>5 DEF o, index, w
<1> QED BY <1>1, <1>2, <1>4, <1>5 DEF w

LEMMA DeviceIsQuiet == Quiet(Cuda!Device(DOMAIN Streams, DOMAIN Events))
<1> DEFINE dev == Cuda!Device(DOMAIN Streams, DOMAIN Events)
<1>1. dev = [queue |-> [s \in AllStreams |-> <<>>], unreached |-> [e \in AllEvents |-> 0]]
  BY DEF Cuda!Device, AllStreams, AllEvents
<1> HIDE DEF dev
<1>2. <<>> \in Seq(Cells)
  OBVIOUS
<1>3. dev \in Devs
  BY <1>1, <1>2 DEF Devs
<1> QED BY <1>1, <1>3 DEF Quiet, Cuda!Drained, dev

LEMMA WInit ==
  ASSUME Init
  PROVE  WInv
<1>1. Resting \in Workers
  BY DEF Resting, Workers
<1>2. TypeOK
  <2>1. Cuda!Device(DOMAIN Streams, DOMAIN Events) \in Devs
    BY DeviceIsQuiet DEF Quiet
  <2>2. cuda \in [Devices -> Devs]
    BY <2>1 DEF Init
  <2>3. worker \in [Devices -> Workers]
    BY <1>1 DEF Init
  <2> QED BY <2>2, <2>3, MultiGpuH3Assumption DEF Init, TypeOK
<1>3. ASSUME NEW d \in Devices
      PROVE  WorksOn(worker[d], cuda[d], phase, block)
  <2>1. Quiet(cuda[d])
    BY DeviceIsQuiet DEF Init
  <2>2. worker[d] = Resting /\ phase = "idle"
    BY DEF Init
  <2>3. /\ worker[d].pc = "done" /\ worker[d].leases = {}
    BY <2>2 DEF Resting
  <2> QED BY <2>1, <2>2, <2>3 DEF WorksOn, Idle, Raised
<1> QED BY <1>2, <1>3 DEF WInv, WorkersWork

\* A step of one worker or of its device.
LEMMA OneWorker ==
  ASSUME WInv, NEW d \in Devices, NEW w \in Workers, NEW dev \in Devs,
         worker' = [worker EXCEPT ![d] = w], cuda' = [cuda EXCEPT ![d] = dev],
         phase' = phase, block' = block, next' \in 0 .. RowCount,
         WorksOn(w, dev, phase, block)
  PROVE  WInv'
<1>1. worker \in [Devices -> Workers] /\ cuda \in [Devices -> Devs]
  BY DEF WInv, TypeOK
<1>2. TypeOK'
  BY <1>1 DEF WInv, TypeOK
<1>3. ASSUME NEW e \in Devices
      PROVE  WorksOn(worker'[e], cuda'[e], phase', block')
  <2>1. CASE e = d
    <3>1. worker'[e] = w /\ cuda'[e] = dev
      BY <1>1, <2>1
    <3> QED BY <3>1
  <2>2. CASE e # d
    <3>1. worker'[e] = worker[e] /\ cuda'[e] = cuda[e]
      BY <1>1, <2>2
    <3> QED BY <3>1 DEF WInv, WorkersWork
  <2> QED BY <2>1, <2>2
<1> QED BY <1>2, <1>3 DEF WInv, WorkersWork

LEMMA OneWorkerOnly ==
  ASSUME WInv, NEW d \in Devices, NEW w \in Workers, worker' = [worker EXCEPT ![d] = w],
         UNCHANGED <<cuda, phase, block>>, next' \in 0 .. RowCount,
         WorksOn(w, cuda[d], phase, block)
  PROVE  WInv'
<1>1. cuda \in [Devices -> Devs]
  BY DEF WInv, TypeOK
<1>2. cuda' = [cuda EXCEPT ![d] = cuda[d]] /\ cuda[d] \in Devs
  BY <1>1
<1> QED BY <1>2, OneWorker

\* The calling thread starts workers that were all done.
LEMMA AllStart ==
  ASSUME WInv, NEW what \in {"project", "attend"}, StartWorkers(what), UNCHANGED cuda,
         block' \in 0 .. BlockCount - 1, \A d \in Devices : worker[d].pc = "done"
  PROVE  WInv'
<1>1. worker \in [Devices -> Workers] /\ cuda \in [Devices -> Devs]
  BY DEF WInv, TypeOK
<1>2. worker' = [d \in Devices |-> [worker[d] EXCEPT !.pc = "enter", !.index = 0]]
      /\ phase' = what /\ next' = 0 /\ cuda' = cuda
  BY DEF StartWorkers
<1>3. ASSUME NEW d \in Devices
      PROVE  /\ worker'[d] \in Workers /\ worker'[d].pc = "enter" /\ worker'[d].index = 0
             /\ worker'[d].leases = worker[d].leases
  <2> DEFINE o == worker[d]
  <2>1. o \in Workers /\ worker'[d] = [o EXCEPT !.pc = "enter", !.index = 0]
    BY <1>1, <1>2
  <2> HIDE DEF o
  <2> DEFINE w == [o EXCEPT !.pc = "enter", !.index = 0]
  <2>4. w \in Workers
    <3>1. 0 \in Nat
      OBVIOUS
    <3> QED BY <2>1, <3>1 DEF Workers
  <2>2. worker'[d] \in Workers
    BY <2>1, <2>4
  <2>3. worker'[d].pc = "enter" /\ worker'[d].index = 0 /\ worker'[d].leases = o.leases
    BY <2>1 DEF Workers
  <2> QED BY <2>2, <2>3 DEF o
<1>4. TypeOK'
  <2>1. worker' \in [Devices -> Workers]
    BY <1>2, <1>3
  <2>2. next' \in 0 .. RowCount
    <3>1. 0 \in 0 .. RowCount
      BY MultiGpuH3Assumption
    <3> QED BY <1>2, <3>1
  <2>3. cuda' \in [Devices -> Devs]
    BY <1>1, <1>2
  <2> QED BY <1>2, <2>1, <2>2, <2>3 DEF TypeOK
<1>5. ASSUME NEW d \in Devices
      PROVE  WorksOn(worker'[d], cuda'[d], phase', block')
  <2>1. /\ worker[d].leases = {} /\ Quiet(cuda[d])
    BY DEF WInv, WorkersWork, WorksOn, Idle
  <2> QED BY <1>2, <1>3, <2>1 DEF WorksOn, Idle, Raised
<1> QED BY <1>4, <1>5 DEF WInv, WorkersWork

LEMMA CallerKeepsWInv ==
  ASSUME WInv, Begin \/ StartAttention \/ StartBlock \/ End
  PROVE  WInv'
<1>1. CASE Begin
  <2>1. \A d \in Devices : worker[d].pc = "done"
    BY <1>1 DEF Begin, WInv, WorkersWork, WorksOn
  <2>2. block' \in 0 .. BlockCount - 1 /\ StartWorkers("project") /\ UNCHANGED cuda
    BY <1>1, MultiGpuH3Assumption DEF Begin
  <2> QED BY <2>1, <2>2, AllStart
<1>2. CASE StartAttention
  <2>1. \A d \in Devices : worker[d].pc = "done"
    BY <1>2 DEF StartAttention, Joined
  <2>2. block' \in 0 .. BlockCount - 1 /\ StartWorkers("attend") /\ UNCHANGED cuda
    BY <1>2 DEF StartAttention, WInv, TypeOK
  <2> QED BY <2>1, <2>2, AllStart
<1>3. CASE StartBlock
  <2>1. \A d \in Devices : worker[d].pc = "done"
    BY <1>3 DEF StartBlock, Joined
  <2>2. block' \in 0 .. BlockCount - 1 /\ StartWorkers("project") /\ UNCHANGED cuda
    BY <1>3, MultiGpuH3Assumption DEF StartBlock, WInv, TypeOK
  <2> QED BY <2>1, <2>2, AllStart
<1>4. CASE End
  <2>1. /\ phase' = "idle" /\ UNCHANGED <<block, next, worker, cuda>>
        /\ \A d \in Devices : worker[d].pc = "done"
    BY <1>4 DEF End, Joined
  <2>2. TypeOK'
    BY <2>1 DEF WInv, TypeOK
  <2>3. ASSUME NEW d \in Devices
        PROVE  WorksOn(worker'[d], cuda'[d], phase', block')
    <3>1. /\ worker'[d] = worker[d] /\ cuda'[d] = cuda[d] /\ phase' = "idle" /\ block' = block
          /\ worker[d].pc = "done"
      BY <2>1
    <3>2. WorksOn(worker[d], cuda[d], phase, block)
      BY DEF WInv, WorkersWork
    <3>3. WorksOn(worker[d], cuda[d], "idle", block)
      BY <3>1, <3>2 DEF WorksOn, Idle, Raised
    <3> QED BY <3>1, <3>3
  <2> QED BY <2>2, <2>3 DEF WInv, WorkersWork
<1> QED BY <1>1, <1>2, <1>3, <1>4

LEMMA Fields ==
  ASSUME NEW d \in Devices, WInv
  PROVE  /\ worker[d] \in Workers /\ cuda[d] \in Devs
         /\ WorksOn(worker[d], cuda[d], phase, block)
         /\ next \in 0 .. RowCount /\ worker \in [Devices -> Workers] /\ cuda \in [Devices -> Devs]
BY DEF WInv, TypeOK, WorkersWork

\* What the claims of a phase are tasks of.
LEMMA ClaimedTask ==
  ASSUME NEW d \in Devices, WInv, phase # "idle", next < RowCount, NEW size \in Sizes
  PROVE  /\ [do |-> phase, block |-> block, start |-> next, stop |-> next + size,
             slot |-> worker[d].index % OutputBuffers] \in Tasks
         /\ next + size \in 0 .. RowCount /\ size \in Nat \ {0}
<1>1. /\ next \in Nat /\ RowCount \in Nat \ {0} /\ ChunkTokens \in Nat \ {0} /\ QCapacity \in Nat \ {0}
      /\ block \in 0 .. BlockCount - 1 /\ OutputBuffers \in {1, 2} /\ worker[d].index \in Nat
  BY Fields, MultiGpuH3Assumption DEF WInv, TypeOK, Workers
<1> DEFINE slot == worker[d].index % OutputBuffers
<1>2. slot \in 0 .. OutputBuffers - 1
  BY <1>1
<1>3. CASE phase = "project"
  <2>1. size = H3!Least(ChunkTokens, RowCount - next)
    BY <1>3 DEF Sizes
  <2>2. size \in Nat \ {0} /\ size <= ChunkTokens /\ next + size <= RowCount
    BY <1>1, <2>1 DEF H3!Least
  <2>3. slot = 0
    <3>1. worker[d].index = 0
      BY <1>3, Fields DEF WorksOn
    <3> QED BY <1>1, <3>1
  <2> HIDE DEF slot
  <2>4. <<next, next + size>> \in Ranges(ChunkTokens)
    BY <1>1, <2>2 DEF Ranges
  <2> DEFINE stop == next + size
  <2>5. [do |-> "project", block |-> block, start |-> next, stop |-> stop, slot |-> 0] \in Tasks
    <3>1. <<next, stop>> \in Ranges(ChunkTokens) /\ <<next, stop>>[1] = next /\ <<next, stop>>[2] = stop
      BY <2>4
    <3> HIDE DEF stop
    <3> QED BY <1>1, <3>1 DEF Tasks
  <2>6. next + size \in 0 .. RowCount
    BY <1>1, <2>2
  <2> HIDE DEF stop
  <2> QED BY Zenon, <1>3, <2>2, <2>3, <2>5, <2>6 DEF slot, stop
<1>4. CASE phase = "attend"
  <2>1. size \in 1 .. H3!Least(QCapacity, RowCount - next)
    BY <1>4 DEF Sizes
  <2>2. size \in Nat \ {0} /\ size <= QCapacity /\ next + size <= RowCount
    BY <1>1, <2>1 DEF H3!Least
  <2> HIDE DEF slot
  <2>4. <<next, next + size>> \in Ranges(QCapacity)
    BY <1>1, <2>2 DEF Ranges
  <2> DEFINE stop == next + size
  <2>5. [do |-> "attend", block |-> block, start |-> next, stop |-> stop, slot |-> slot] \in Tasks
    <3>1. <<next, stop>> \in Ranges(QCapacity) /\ <<next, stop>>[1] = next /\ <<next, stop>>[2] = stop
      BY <2>4
    <3> HIDE DEF stop
    <3> QED BY <1>1, <1>2, <3>1 DEF Tasks
  <2>6. next + size \in 0 .. RowCount
    BY <1>1, <2>2
  <2> HIDE DEF stop
  <2> QED BY Zenon, <1>4, <2>2, <2>5, <2>6 DEF slot, stop
<1> QED BY <1>3, <1>4 DEF WInv, TypeOK

LEMMA ClaimKeepsWInv ==
  ASSUME NEW d \in Devices, WInv, Enter(d) \/ Claim(d) \/ Finish(d)
  PROVE  WInv'
<1> DEFINE o == worker[d]
<1>1. o \in Workers /\ WorksOn(o, cuda[d], phase, block) /\ next \in 0 .. RowCount
  BY Fields
<1> HIDE DEF o
<1>2. CASE Enter(d)
  <2> DEFINE w == [o EXCEPT !.pc = "claim", !.leases = {LeaseNamed(phase)}]
  <2>1. o.pc = "enter" /\ phase # "idle"
    BY <1>1, <1>2 DEF Enter, WorksOn, o
  <2>2. worker' = [worker EXCEPT ![d] = w]
    BY <1>2, <2>1, LeaseIs DEF Enter, WInv, o
  <2>3. w \in Workers /\ w.pc = "claim" /\ w.leases = {LeaseNamed(phase)} /\ w.index = o.index
    BY <1>1, <2>1, LeaseIs DEF Workers, WInv
  <2> HIDE DEF w
  <2>4. WorksOn(w, cuda[d], phase, block)
    BY <1>1, <2>1, <2>3 DEF WorksOn, Idle, Raised
  <2>5. UNCHANGED <<cuda, phase, block>> /\ next' = next
    BY <1>2 DEF Enter
  <2> QED BY <1>1, <2>2, <2>3, <2>4, <2>5, OneWorkerOnly
<1>3. CASE Claim(d)
  <2>1. o.pc = "claim" /\ phase # "idle" /\ next < RowCount
    BY <1>1, <1>3 DEF Claim, WorksOn, o
  <2>2. PICK size \in Sizes :
          /\ next' = next + size
          /\ worker' = [worker EXCEPT
               ![d].pc = "run", ![d].at = 1,
               ![d].task = [do |-> phase, block |-> block, start |-> next, stop |-> next + size,
                            slot |-> worker[d].index % OutputBuffers]]
    BY <1>3 DEF Claim
  <2> DEFINE t == [do |-> phase, block |-> block, start |-> next, stop |-> next + size,
                   slot |-> worker[d].index % OutputBuffers]
             w == [o EXCEPT !.pc = "run", !.at = 1, !.task = t]
  <2>3. t \in Tasks /\ next + size \in 0 .. RowCount
    BY <2>1, ClaimedTask
  <2>4. t.do = phase /\ t.block = block
    OBVIOUS
  <2>5. worker' = [worker EXCEPT ![d] = w]
    <3> HIDE DEF t
    <3> QED BY <2>2 DEF o, t
  <2> HIDE DEF t
  <2>6. w \in Workers /\ w.pc = "run" /\ w.at = 1 /\ w.task = t /\ w.leases = o.leases /\ w.index = o.index
    <3>1. 1 \in 0 .. 10
      OBVIOUS
    <3> QED BY <1>1, <2>3, <3>1 DEF Workers
  <2> HIDE DEF w
  <2>7. Quiet(cuda[d]) /\ o.leases = {LeaseNamed(phase)}
    BY <1>1, <2>1 DEF WorksOn, Idle
  <2>8. Executes(cuda[d], t, 1 - 1, 1 - 1)
    BY <2>7, QuietExecutes
  <2>9. 1 \in 1 .. Size(t)
    BY <2>3, SizeFacts
  <2>10. WorksOn(w, cuda[d], phase, block)
    BY <1>1, <2>1, <2>3, <2>4, <2>6, <2>7, <2>8, <2>9 DEF WorksOn, Idle, Raised
  <2>11. UNCHANGED <<cuda, phase, block>> /\ next' = next + size
    BY <1>3, <2>2 DEF Claim
  <2> QED BY <2>3, <2>5, <2>6, <2>10, <2>11, OneWorkerOnly
<1>4. CASE Finish(d)
  <2> DEFINE w == [o EXCEPT !.pc = "done", !.leases = {}, !.task = NoTask, !.at = 0]
  <2>1. o.pc = "claim" /\ phase # "idle"
    BY <1>1, <1>4 DEF Finish, WorksOn, o
  <2>2. worker' = [worker EXCEPT ![d] = w]
    BY <1>4 DEF Finish, o
  <2>3. w \in Workers /\ w.pc = "done" /\ w.leases = {} /\ w.index = o.index
    <3>1. 0 \in 0 .. 10
      OBVIOUS
    <3> QED BY <1>1, <3>1 DEF Workers
  <2> HIDE DEF w
  <2>4. WorksOn(w, cuda[d], phase, block)
    BY <1>1, <2>1, <2>3 DEF WorksOn, Idle, Raised
  <2>5. UNCHANGED <<cuda, phase, block>> /\ next' = next
    BY <1>4 DEF Finish
  <2> QED BY <1>1, <2>2, <2>3, <2>4, <2>5, OneWorkerOnly
<1> QED BY <1>2, <1>3, <1>4

LEMMA AdvancedPending ==
  ASSUME NEW d \in Devices, worker[d] \in Workers
  PROVE  Advanced(d).pending = worker[d].pending
<1> DEFINE o == worker[d]
<1>1. o \in Workers
  OBVIOUS
<1>2. Advanced(d) = IF o.at < Len(Programs[o.task]) THEN [o EXCEPT !.at = o.at + 1]
                    ELSE [o EXCEPT !.at = 0, !.pc = "claim", !.task = NoTask,
                                   !.index = o.index + (IF o.task.do = "attend" THEN 1 ELSE 0)]
  BY DEF Advanced
<1> HIDE DEF o
<1>3. Advanced(d).pending = o.pending
  BY <1>1, <1>2 DEF Workers
<1> QED BY <1>3 DEF o

LEMMA IssueKeepsWInv ==
  ASSUME NEW d \in Devices, WInv, Issue(d)
  PROVE  WInv'
<1> DEFINE o == worker[d]
           t == o.task
           k == o.at
           flagged == o.pending
           dev == EnqueuedOn(cuda[d], t, k, flagged, Act(t, k).records)
           pending == o.pending \cup Act(t, k).flags
           w == Moved(d, pending)
<1>1. /\ o \in Workers /\ WorksOn(o, cuda[d], phase, block) /\ next \in 0 .. RowCount
      /\ o.pc = "run" /\ Act(t, k).do = "op"
  BY Fields DEF Issue, Instruction, Act
<1>2. t \in Tasks /\ t.do = phase /\ t.block = block /\ phase # "idle" /\ k \in 1 .. Size(t)
      /\ Executes(cuda[d], t, k - 1, k - 1)
  BY <1>1 DEF WorksOn, Idle
<1>3. k \in 1 .. Size(t) - 1
  <2>1. Act(t, Size(t)).do = "wait"
    BY <1>2, LastIsWait
  <2>2. k # Size(t)
    BY <1>1, <2>1
  <2> QED BY <1>2, <2>2, SizeFacts
<1>4. Executes(dev, t, k, k)
  <2> HIDE DEF t, k, flagged
  <2> QED BY <1>2, <1>3, GivenExecutes
<1>5. cuda' = [cuda EXCEPT ![d] = dev] /\ worker' = [worker EXCEPT ![d] = w]
  <2>1. cuda' = [cuda EXCEPT ![d] = dev]
    BY DEF Issue, Enqueue, Instruction, Act, EnqueuedOn
  <2>2. /\ worker' = [worker EXCEPT ![d] = [Advanced(d) EXCEPT !.pending = @ \cup Act(t, k).flags]]
        /\ Advanced(d).pending = o.pending
    BY <1>1, AdvancedPending DEF Issue, Instruction, Act
  <2> HIDE DEF t, k, o, dev
  <2>3. worker' = [worker EXCEPT ![d] = w]
    BY Zenon, <2>2 DEF Moved
  <2> QED BY <2>1, <2>3
<1>6. pending \in SUBSET AllFlags
  BY <1>1, <1>2, <1>3, ActFlags DEF Workers
<1> HIDE DEF pending, dev
<1>7. /\ w \in Workers /\ w.leases = o.leases
      /\ w.pc = "run" /\ w.at = k + 1 /\ w.task = t /\ w.index = o.index
  <2>1. TypeOK
    BY DEF WInv
  <2>2. k < Size(t)
    BY <1>3, SizeFacts, <1>2
  <2> QED BY <1>1, <1>6, <2>1, <2>2, AdvancedWorker
<1> HIDE DEF w, o, k, t
<1>8. WorksOn(w, dev, phase, block)
  <2>1. k + 1 \in 1 .. Size(t) /\ (k + 1) - 1 = k
    BY <1>2, <1>3, SizeFacts
  <2>2. Executes(dev, t, (k + 1) - 1, (k + 1) - 1)
    BY Zenon, <1>4, <2>1
  <2> QED BY <1>1, <1>2, <1>7, <2>1, <2>2 DEF WorksOn, Idle, Raised
<1>9. phase' = phase /\ block' = block /\ next' = next
  BY DEF Issue
<1>10. dev \in Devs
  BY <1>4 DEF Executes
<1> QED BY <1>1, <1>5, <1>7, <1>8, <1>9, <1>10, OneWorker

LEMMA WaitKeepsWInv ==
  ASSUME NEW d \in Devices, WInv, WaitFor(d)
  PROVE  WInv' /\ worker[d].at = Size(worker[d].task) /\ Quiet(cuda[d])
<1> DEFINE o == worker[d]
           t == o.task
           k == o.at
           pending == o.pending \ Act(t, k).clears
           w == Moved(d, pending)
<1>1. /\ o \in Workers /\ WorksOn(o, cuda[d], phase, block) /\ next \in 0 .. RowCount
      /\ o.pc = "run" /\ Act(t, k).do = "wait"
  BY Fields DEF WaitFor, Instruction, Act
<1>2. t \in Tasks /\ t.do = phase /\ t.block = block /\ phase # "idle" /\ k \in 1 .. Size(t)
      /\ Executes(cuda[d], t, k - 1, k - 1)
  BY <1>1 DEF WorksOn, Idle
<1>3. k = Size(t)
  <2>1. k \in 1 .. Size(t) - 1 => Act(t, k).do = "op"
    BY <1>2, OpFacts
  <2>2. k \notin 1 .. Size(t) - 1
    BY <1>1, <2>1
  <2> QED BY <1>2, <2>2, SizeFacts
<1>4. \A e \in Act(t, k).events : cuda[d].unreached[e] = 0
  BY DEF WaitFor, Over, Instruction, Act, Cuda!Synchronized
<1>5. Quiet(cuda[d])
  <2> HIDE DEF t, k
  <2> QED BY <1>2, <1>3, <1>4, WaitIsQuiet
<1>6. worker' = [worker EXCEPT ![d] = w]
  <2>1. /\ worker' = [worker EXCEPT ![d] = [Advanced(d) EXCEPT !.pending = @ \ Act(t, k).clears]]
        /\ Advanced(d).pending = o.pending
    BY <1>1, AdvancedPending DEF WaitFor, Instruction, Act
  <2> HIDE DEF t, k, o
  <2> QED BY Zenon, <2>1 DEF Moved
<1>7. pending \in SUBSET AllFlags
  BY <1>1 DEF Workers
<1> HIDE DEF pending
<1>8. /\ w \in Workers /\ w.leases = o.leases
      /\ w.pc = "claim" /\ w.task = NoTask /\ w.at = 0
      /\ w.index = o.index + (IF phase = "attend" THEN 1 ELSE 0)
  <2>1. TypeOK
    BY DEF WInv
  <2> QED BY <1>1, <1>3, <1>7, <2>1, AdvancedWorker
<1> HIDE DEF w, o, k, t
<1>9. WorksOn(w, cuda[d], phase, block)
  <2>1. phase = "project" => w.index = 0
    BY <1>1, <1>8 DEF WorksOn
  <2> QED BY <1>1, <1>2, <1>5, <1>8, <2>1 DEF WorksOn, Idle, Raised
<1>10. UNCHANGED <<cuda, phase, block>> /\ next' = next
  BY DEF WaitFor
<1>11. WInv'
  BY <1>1, <1>6, <1>8, <1>9, <1>10, OneWorkerOnly
<1> QED BY <1>3, <1>5, <1>11 DEF o, k, t

LEMMA RaiseKeepsWInv ==
  ASSUME NEW d \in Devices, WInv, Raise(d)
  PROVE  WInv'
<1> DEFINE o == worker[d]
           t == o.task
           k == o.at
           flagged == o.pending
           launched(records) == EnqueuedOn(cuda[d], t, k, flagged, records)
           w == [o EXCEPT !.pc = "raised"]
<1>1. /\ o \in Workers /\ WorksOn(o, cuda[d], phase, block) /\ next \in 0 .. RowCount
      /\ o.pc = "run" /\ Act(t, k).do = "op"
  BY Fields DEF Raise, Instruction, Act
<1>2. t \in Tasks /\ t.do = phase /\ t.block = block /\ phase # "idle" /\ k \in 1 .. Size(t)
      /\ Executes(cuda[d], t, k - 1, k - 1)
  BY <1>1 DEF WorksOn, Idle
<1>3. k \in 1 .. Size(t) - 1
  <2>1. Act(t, Size(t)).do = "wait"
    BY <1>2, LastIsWait
  <2>2. k # Size(t)
    BY <1>1, <2>1
  <2> QED BY <1>2, <2>2, SizeFacts
<1>4. PICK dev : Executes(dev, t, k, k - 1) /\ cuda' = [cuda EXCEPT ![d] = dev]
  <2>1. CASE UNCHANGED cuda
    <3>1. cuda' = [cuda EXCEPT ![d] = cuda[d]]
      BY <2>1, Fields
    <3>2. k \in Nat \ {0}
      BY <1>3
    <3>3. Executes(cuda[d], t, k, k - 1)
      <4> HIDE DEF t, k
      <4> QED BY <1>2, <3>2, WeakenExecutes
    <3> QED BY <3>1, <3>3
  <2>2. CASE \E records \in {{}, Act(t, k).records} : cuda' = [cuda EXCEPT ![d] = launched(records)]
    <3>1. PICK records \in {{}, Act(t, k).records} : cuda' = [cuda EXCEPT ![d] = launched(records)]
      BY <2>2
    <3>2. Executes(launched(records), t, k, k - 1)
      <4> HIDE DEF t, k, flagged
      <4> QED BY <1>2, <1>3, GivenExecutes
    <3> HIDE DEF launched
    <3> QED BY <3>1, <3>2
  <2>3. UNCHANGED cuda \/ \E records \in {{}, Act(t, k).records} : cuda' = [cuda EXCEPT ![d] = launched(records)]
    BY DEF Raise, Enqueue, Instruction, Act, EnqueuedOn
  <2> QED BY <2>1, <2>2, <2>3
<1>5. worker' = [worker EXCEPT ![d] = w]
  BY DEF Raise
<1> HIDE DEF o, k, t
<1>6. /\ w \in Workers /\ w.leases = o.leases
      /\ w.pc = "raised" /\ w.at = k /\ w.task = t /\ w.index = o.index
  BY <1>1 DEF Workers, k, t
<1> HIDE DEF w
<1>7. WorksOn(w, dev, phase, block)
  BY <1>1, <1>2, <1>3, <1>4, <1>6 DEF WorksOn, Idle, Raised
<1>8. phase' = phase /\ block' = block /\ next' = next
  BY DEF Raise
<1>9. dev \in Devs
  BY <1>4 DEF Executes
<1> QED BY <1>1, <1>4, <1>5, <1>6, <1>7, <1>8, <1>9, OneWorker

LEMMA EndOfTaskKeepsWInv ==
  ASSUME NEW d \in Devices, WInv,
         UnwindProjection(d) \/ RecoverProjectionWorker(d) \/ RecoverAttentionWorker(d)
  PROVE  WInv'
<1> DEFINE o == worker[d]
<1>1. o \in Workers /\ WorksOn(o, cuda[d], phase, block) /\ next \in 0 .. RowCount
  BY Fields
<1> HIDE DEF o
<1>2. CASE UnwindProjection(d)
  <2> DEFINE w == [o EXCEPT !.pc = "recover", !.leases = {}]
  <2>1. o.pc = "raised" /\ phase = "project"
    BY <1>2 DEF UnwindProjection, o
  <2>2. worker' = [worker EXCEPT ![d] = w]
    BY <1>2 DEF UnwindProjection, o
  <2>3. w \in Workers /\ w.pc = "recover" /\ w.leases = {} /\ w.index = o.index /\ w.task = o.task /\ w.at = o.at
    BY <1>1 DEF Workers
  <2> HIDE DEF w
  <2>4. WorksOn(w, cuda[d], phase, block)
    BY <1>1, <2>1, <2>3 DEF WorksOn, Idle, Raised
  <2>5. UNCHANGED <<cuda, phase, block>> /\ next' = next
    BY <1>2 DEF UnwindProjection
  <2> QED BY <1>1, <2>2, <2>3, <2>4, <2>5, OneWorkerOnly
<1>3. CASE RecoverProjectionWorker(d) \/ RecoverAttentionWorker(d)
  <2> DEFINE clears == Recovery(d).clears
             w == [o EXCEPT !.pc = "done", !.leases = {}, !.task = NoTask, !.at = 0,
                            !.pending = @ \ clears]
  <2>1. o.pc \in Raised /\ Over(d, Recovery(d)) /\ phase # "idle"
    BY <1>1, <1>3 DEF RecoverProjectionWorker, RecoverAttentionWorker, Raised, WorksOn, o
  <2>2. worker' = [worker EXCEPT ![d] = w]
    BY <1>3 DEF RecoverProjectionWorker, RecoverAttentionWorker, Ended, o
  <2> HIDE DEF clears, w
  <2>3. w \in Workers /\ w.pc = "done" /\ w.leases = {} /\ w.index = o.index
    <3>1. 0 \in 0 .. 10 /\ NoTask \in Tasks \cup {NoTask}
      OBVIOUS
    <3>2. o.pending \ clears \in SUBSET AllFlags
      BY <1>1 DEF Workers
    <3> DEFINE pending == o.pending \ clears
    <3> HIDE DEF NoTask, pending
    <3>3. w = [o EXCEPT !.pc = "done", !.leases = {}, !.task = NoTask, !.at = 0, !.pending = pending]
      BY <1>1 DEF w, pending, Workers
    <3>4. w.pc = "done" /\ w.leases = {} /\ w.index = o.index
      BY <1>1, <3>3 DEF Workers
    <3>5. w \in Workers
      BY <1>1, <3>1, <3>2, <3>3 DEF Workers, pending
    <3> QED BY <3>4, <3>5
  <2>4. Quiet(cuda[d])
    <3>1. /\ o.task \in Tasks /\ o.at \in 1 .. Size(o.task) - 1
          /\ Executes(cuda[d], o.task, o.at, o.at - 1)
      BY <1>1, <2>1 DEF WorksOn, Idle, Raised
    <3>2. \A s \in Programs[o.task][o.at].recovery.streams : cuda[d].queue[s] = <<>>
      BY <2>1 DEF Over, Recovery, o
    <3> QED BY <3>1, <3>2, RecoveryIsQuiet
  <2>5. WorksOn(w, cuda[d], phase, block)
    BY <1>1, <2>1, <2>3, <2>4 DEF WorksOn, Idle, Raised
  <2>6. UNCHANGED <<cuda, phase, block>> /\ next' = next
    BY <1>3 DEF RecoverProjectionWorker, RecoverAttentionWorker
  <2> QED BY <1>1, <2>2, <2>3, <2>5, <2>6, OneWorkerOnly
<1> QED BY <1>2, <1>3

\* A device only performs what belongs to its worker's task.
LEMMA DeviceExecutes ==
  ASSUME NEW d \in Devices, WInv, NEW s \in AllStreams, Cuda!CanPerform(cuda[d], s)
  PROVE  /\ worker[d].pc \in {"run"} \cup Raised
         /\ worker[d].task \in Tasks /\ worker[d].task.do = phase /\ worker[d].task.block = block
         /\ \E n \in 0 .. Size(worker[d].task) - 1 : \E m \in {worker[d].at - 1} :
              /\ m \in Nat /\ m <= n /\ n = IF worker[d].pc = "run" THEN m ELSE m + 1
              /\ Executes(cuda[d], worker[d].task, n, m)
<1> DEFINE o == worker[d]
           n == IF o.pc = "run" THEN o.at - 1 ELSE o.at
<1>1. o \in Workers /\ WorksOn(o, cuda[d], phase, block)
  BY Fields
<1>2. o.pc \notin Idle
  BY <1>1 DEF WorksOn, Quiet, Cuda!Drained, Cuda!CanPerform, Devs
<1>3. /\ o.pc \in {"run"} \cup Raised
      /\ o.task \in Tasks /\ o.task.do = phase /\ o.task.block = block
  BY <1>1, <1>2 DEF Workers, WorksOn, Idle, Raised
<1> HIDE DEF o
<1>4. CASE o.pc = "run"
  <2>1. o.at \in 1 .. Size(o.task) /\ Executes(cuda[d], o.task, o.at - 1, o.at - 1)
    BY <1>1, <1>4 DEF WorksOn
  <2>2. o.at - 1 \in 0 .. Size(o.task) - 1 /\ o.at - 1 \in Nat /\ o.at - 1 <= o.at - 1
    BY <1>3, <2>1, SizeFacts
  <2> QED BY <1>3, <1>4, <2>1, <2>2 DEF o
<1>5. CASE o.pc \in Raised
  <2>1. o.at \in 1 .. Size(o.task) - 1 /\ Executes(cuda[d], o.task, o.at, o.at - 1)
    BY <1>1, <1>5 DEF WorksOn
  <2>2. /\ o.at \in 0 .. Size(o.task) - 1 /\ o.at - 1 \in Nat /\ o.at - 1 <= o.at /\ o.at = (o.at - 1) + 1
        /\ o.pc # "run"
    BY <1>3, <1>5, <2>1, SizeFacts DEF Raised
  <2> QED BY <1>3, <2>1, <2>2 DEF o
<1> QED BY <1>3, <1>4, <1>5

LEMMA DeviceKeepsWInv ==
  ASSUME NEW d \in Devices, WInv, NEW s \in AllStreams, DeviceStep(d, s)
  PROVE  WInv'
<1> DEFINE o == worker[d]
           dev == Cuda!Performed(cuda[d], s)
<1>1. /\ o \in Workers /\ WorksOn(o, cuda[d], phase, block) /\ next \in 0 .. RowCount
      /\ worker \in [Devices -> Workers] /\ cuda \in [Devices -> Devs]
  BY Fields
<1>2. Cuda!CanPerform(cuda[d], s) /\ UNCHANGED <<worker, phase, block>> /\ next' = next
  BY DEF DeviceStep
<1>3. cuda' = [cuda EXCEPT ![d] = dev]
  BY DEF DeviceStep
<1>4. /\ o.pc \in {"run"} \cup Raised
      /\ o.task \in Tasks /\ o.task.do = phase /\ o.task.block = block
  BY <1>2, DeviceExecutes
<1>5. PICK n \in 0 .. Size(o.task) - 1 : \E m \in {o.at - 1} :
        /\ m \in Nat /\ m <= n /\ n = IF o.pc = "run" THEN m ELSE m + 1
        /\ Executes(cuda[d], o.task, n, m)
  BY <1>2, DeviceExecutes
<1> DEFINE m == o.at - 1
<1>6. /\ m \in Nat /\ m <= n /\ n = IF o.pc = "run" THEN m ELSE m + 1
      /\ Executes(cuda[d], o.task, n, m)
  BY <1>5
<1> HIDE DEF m, o, dev
<1>7. Executes(dev, o.task, n, m)
  BY <1>2, <1>4, <1>6, PerformExecutes DEF dev
<1>8. WorksOn(o, dev, phase, block)
  <2>1. o.pc \notin Idle
    BY <1>4 DEF Idle, Raised
  <2>2. o.pc = "run" => Executes(dev, o.task, o.at - 1, o.at - 1)
    BY <1>6, <1>7 DEF m
  <2>3. o.pc \in Raised => Executes(dev, o.task, o.at, o.at - 1)
    <3>1. o.at \in Int
      BY <1>1 DEF Workers
    <3>2. o.pc \in Raised => n = o.at
      BY <1>6, <3>1 DEF m, Raised
    <3> QED BY <1>7, <3>2 DEF m
  <2> QED BY <1>1, <2>1, <2>2, <2>3 DEF WorksOn
<1>9. worker' = [worker EXCEPT ![d] = o]
  BY <1>1, <1>2 DEF o
<1>10. dev \in Devs
  BY <1>7 DEF Executes
<1> QED BY <1>1, <1>2, <1>3, <1>8, <1>9, <1>10, OneWorker

LEMMA WNext ==
  ASSUME WInv, [Next]_vars
  PROVE  WInv'
<1>1. CASE UNCHANGED vars
  <2>1. UNCHANGED <<phase, block, next, worker, cuda>>
    BY <1>1 DEF vars
  <2> QED BY <2>1 DEF WInv, TypeOK, WorkersWork
<1>2. CASE Begin \/ StartAttention \/ StartBlock \/ End
  BY <1>2, CallerKeepsWInv
<1>3. CASE \E d \in Devices : Worker(d) \/ Raise(d) \/ \E s \in DOMAIN Streams : DeviceStep(d, s)
  <2>1. PICK d \in Devices : Worker(d) \/ Raise(d) \/ \E s \in DOMAIN Streams : DeviceStep(d, s)
    BY <1>3
  <2>2. CASE Worker(d)
    BY <2>2, ClaimKeepsWInv, IssueKeepsWInv, WaitKeepsWInv, EndOfTaskKeepsWInv DEF Worker
  <2>3. CASE Raise(d)
    BY <2>3, RaiseKeepsWInv
  <2>4. CASE \E s \in DOMAIN Streams : DeviceStep(d, s)
    BY <2>4, DeviceKeepsWInv DEF AllStreams
  <2> QED BY <2>1, <2>2, <2>3, <2>4
<1> QED BY <1>1, <1>2, <1>3 DEF Next, Finished

LEMMA WSpec == Spec => []WInv
BY WInit, WNext, PTL DEF Spec

\* A call that returned or raised has left nothing on any device.
THEOREM H3CallsEndQuiet == Spec => []CallsEndQuiet
<1>1. WInv => CallsEndQuiet
  BY DEF WInv, WorkersWork, WorksOn, Idle, Quiet, CallsEndQuiet
<1> QED BY <1>1, WSpec, PTL

\* A device computes with weights only under their lease.
THEOREM H3WeightsAreLeased == Spec => []WeightsAreLeased
<1>1. ASSUME WInv, NEW d \in Devices, worker[d].pc # "recover",
             NEW s \in DOMAIN cuda[d].queue, NEW i \in DOMAIN cuda[d].queue[s]
      PROVE  LET work == cuda[d].queue[s][i].work
             IN  Programs[work[1]][work[2]].do.uses \subseteq worker[d].leases
  <2> DEFINE o == worker[d]
             dev == cuda[d]
  <2>1. o \in Workers /\ WorksOn(o, dev, phase, block) /\ dev \in Devs
    BY <1>1, Fields
  <2>2. s \in AllStreams /\ i \in 1 .. Len(dev.queue[s]) /\ dev.queue[s] \in Seq(Cells)
    BY <1>1, <2>1 DEF Devs
  <2> HIDE DEF o, dev
  <2>3. o.pc \notin Idle
    BY <2>1, <2>2 DEF WorksOn, Quiet, Cuda!Drained, Devs
  <2>4. o.task \in Tasks /\ o.task.do = phase /\ o.leases = {LeaseNamed(phase)}
    BY <1>1, <2>1, <2>3 DEF WorksOn, Idle, Workers, o
  <2>5. \E n \in 1 .. Size(o.task) - 1 : Placed(dev, o.task, n)
    <3>1. CASE o.pc = "run"
      <4>1. o.at \in 1 .. Size(o.task) /\ Placed(dev, o.task, o.at - 1)
        BY <2>1, <3>1 DEF WorksOn, Executes
      <4>2. o.at - 1 \in 1 .. Size(o.task) - 1
        <5>1. IndexAt(dev, s, i) \in 1 .. o.at - 1
          BY <2>2, <4>1 DEF Placed
        <5> QED BY <2>4, <4>1, <5>1, SizeFacts
      <4> QED BY <4>1, <4>2
    <3>2. CASE o.pc \in Raised
      BY <2>1, <3>2 DEF WorksOn, Executes
    <3> QED BY <2>1, <2>3, <3>1, <3>2 DEF Workers, Idle, Raised
  <2>6. PICK n \in 1 .. Size(o.task) - 1 : Placed(dev, o.task, n)
    BY <2>5
  <2> DEFINE k == IndexAt(dev, s, i)
  <2>7. k \in 1 .. n /\ dev.queue[s][i].work = <<o.task, k>>
    BY <2>2, <2>6 DEF Placed
  <2> HIDE DEF k
  <2>8. k \in 1 .. Size(o.task) - 1
    BY <2>4, <2>6, <2>7, SizeFacts
  <2>9. Act(o.task, k).uses \subseteq {LeaseNamed(phase)}
    BY <2>4, <2>8, OpFacts
  <2> DEFINE work == dev.queue[s][i].work
  <2>10. work[1] = o.task /\ work[2] = k
    BY <2>7
  <2>11. Programs[work[1]][work[2]].do.uses \subseteq o.leases
    <3> HIDE DEF work
    <3> QED BY <2>4, <2>9, <2>10 DEF Act
  <2> QED BY <2>11 DEF o, dev
<1>2. WInv => WeightsAreLeased
  BY <1>1 DEF WeightsAreLeased
<1> QED BY <1>2, WSpec, PTL

-----------------------------------------------------------------------------
(* What the operations read and write. *)

HRow(r) == Append(Hidden0, r)
ArenaRow(what, r) == Append(ArenaTensor("video", what), r)

HiddenRows(v, range) == {<<HRow(r), {<<"video", v, r>>}>> : r \in range}
ArenaRows(what, v, range) == {<<ArenaRow(what, r), {<<what, "video", v, r>>}>> : r \in range}

LEMMA AppendFour ==
  ASSUME NEW a, NEW b, NEW c, NEW r
  PROVE  LET s == Append(<<a, b, c>>, r) IN s[1] = a /\ s[3] = c /\ s[4] = r
<1> DEFINE S == {a, b, c, r}
           t == <<a, b, c>>
<1>1. t \in Seq(S) /\ Len(t) = 3 /\ t[1] = a /\ t[3] = c /\ r \in S
  OBVIOUS
<1> HIDE DEF S, t
<1>2. Append(t, r)[1] = a /\ Append(t, r)[3] = c /\ Append(t, r)[4] = r
  BY <1>1, AppendProperties
<1> QED BY <1>2 DEF t

LEMMA RowTags ==
  /\ \A r : HRow(r)[1] = "hidden" /\ HRow(r)[4] = r
  /\ \A r : ArenaRow("q", r)[1] = "arena" /\ ArenaRow("q", r)[3] = "q" /\ ArenaRow("q", r)[4] = r
  /\ \A r : ArenaRow("kv", r)[1] = "arena" /\ ArenaRow("kv", r)[3] = "kv" /\ ArenaRow("kv", r)[4] = r
<1>1. /\ ArenaTensor("video", "q") = <<"arena", "video", "q">>
      /\ ArenaTensor("video", "kv") = <<"arena", "video", "kv">>
  BY DEF ArenaTensor
<1> QED BY <1>1, AppendFour DEF HRow, ArenaRow, Hidden0

LEMMA AtHidden ==
  ASSUME NEW v, NEW range
  PROVE  At(Hidden0, Rows("video", v, range)) = HiddenRows(v, range)
<1>1. ASSUME NEW r
      PROVE  LET n == <<"video", v, r>> IN <<Append(Hidden0, n[Len(n)]), {n}>> = <<HRow(r), {<<"video", v, r>>}>>
  <2> DEFINE n == <<"video", v, r>>
  <2>1. Len(n) = 3 /\ n[3] = r
    OBVIOUS
  <2>2. n[Len(n)] = r
    BY <2>1
  <2> HIDE DEF n
  <2> QED BY <2>2 DEF n, HRow
<1>2. At(Hidden0, Rows("video", v, range))
        = {<<Append(Hidden0, n[Len(n)]), {n}>> : n \in {<<"video", v, r>> : r \in range}}
  BY DEF At, Rows
<1> DEFINE f(n) == <<Append(Hidden0, n[Len(n)]), {n}>>
           g(r) == <<"video", v, r>>
           h(r) == <<HRow(r), {<<"video", v, r>>}>>
<1>3. /\ At(Hidden0, Rows("video", v, range)) = {f(n) : n \in {g(r) : r \in range}}
      /\ HiddenRows(v, range) = {h(r) : r \in range}
  BY <1>2 DEF HiddenRows
<1>4. \A r : f(g(r)) = h(r)
  BY <1>1
<1> HIDE DEF f, g, h
<1> QED BY <1>3, <1>4

LEMMA AtArena ==
  ASSUME NEW what, NEW v, NEW range
  PROVE  At(ArenaTensor("video", what), Tile(what, "video", v, range)) = ArenaRows(what, v, range)
<1> DEFINE tensor == ArenaTensor("video", what)
<1>1. ASSUME NEW r
      PROVE  LET n == <<what, "video", v, r>>
             IN  <<Append(tensor, n[Len(n)]), {n}>> = <<ArenaRow(what, r), {<<what, "video", v, r>>}>>
  <2> DEFINE n == <<what, "video", v, r>>
  <2>1. Len(n) = 4 /\ n[4] = r
    OBVIOUS
  <2>2. n[Len(n)] = r
    BY <2>1
  <2> HIDE DEF n
  <2> QED BY <2>2 DEF n, ArenaRow
<1> HIDE DEF tensor
<1>2. At(tensor, Tile(what, "video", v, range))
        = {<<Append(tensor, n[Len(n)]), {n}>> : n \in {<<what, "video", v, r>> : r \in range}}
  BY DEF At, Tile
<1> DEFINE f(n) == <<Append(tensor, n[Len(n)]), {n}>>
           g(r) == <<what, "video", v, r>>
           h(r) == <<ArenaRow(what, r), {<<what, "video", v, r>>}>>
<1>3. /\ At(tensor, Tile(what, "video", v, range)) = {f(n) : n \in {g(r) : r \in range}}
      /\ ArenaRows(what, v, range) = {h(r) : r \in range}
  BY <1>2 DEF ArenaRows
<1>4. \A r : f(g(r)) = h(r)
  BY <1>1
<1> HIDE DEF f, g, h
<1>5. At(tensor, Tile(what, "video", v, range)) = ArenaRows(what, v, range)
  BY <1>3, <1>4
<1> QED BY <1>5 DEF tensor

TaskRows(t) == Slice(t.start, t.stop)
AllRows == Slice(0, RowCount)
V(t) == t.block + 1

Projected(t) == Tile("q", "video", V(t), TaskRows(t)) \cup Tile("kv", "video", V(t), TaskRows(t))
QTile(t) == Tile("q", "video", V(t), TaskRows(t))
KvTile(t) == Tile("kv", "video", V(t), AllRows)
Attended(t) == Tile("attention", "video", V(t), TaskRows(t))
NextTile(t) == Rows("video", V(t), TaskRows(t))

\* What an instruction reads and writes.
IsData(op, needs, gives) == op.needs = needs /\ op.gives = gives

LEMMA ProjectData ==
  ASSUME NEW t \in Tasks, t.do = "project"
  PROVE  /\ IsData(Act(t, 1), HiddenRows(t.block, TaskRows(t)),
                   Holds(Staged(Ring, 0), Rows("video", t.block, TaskRows(t))))
         /\ IsData(Act(t, 2), Holds(Staged(Ring, 0), Rows("video", t.block, TaskRows(t))),
                   Holds(Block(Ring, 0), Projected(t)))
         /\ IsData(Act(t, 3), Holds(Block(Ring, 0), Projected(t)),
                   ArenaRows("q", V(t), TaskRows(t)) \cup ArenaRows("kv", V(t), TaskRows(t)))
<1> DEFINE a == ProjectActs(t)
<1>1. \A i \in 1 .. 4 : Act(t, i) = a[i]
  <2> TAKE i \in 1 .. 4
  <2>1. Programs[t][i] = [do |-> a[i], recovery |-> RecoverProjection(Ring, 1)]
    BY ProjectProgram
  <2> HIDE DEF a
  <2> QED BY <2>1 DEF Act
<1>2. /\ At(Hidden0, Rows("video", t.block, TaskRows(t))) = HiddenRows(t.block, TaskRows(t))
      /\ At(ArenaTensor("video", "q"), Tile("q", "video", V(t), TaskRows(t))) = ArenaRows("q", V(t), TaskRows(t))
      /\ At(ArenaTensor("video", "kv"), Tile("kv", "video", V(t), TaskRows(t))) = ArenaRows("kv", V(t), TaskRows(t))
  BY AtHidden, AtArena
<1>3. IsData(a[1], At(Hidden0, Rows("video", t.block, TaskRows(t))),
             Holds(Staged(Ring, 0), Rows("video", t.block, TaskRows(t))))
  BY DEF ProjectActs, IsData, TaskRows, Op
<1>4. IsData(a[2], Holds(Staged(Ring, 0), Rows("video", t.block, TaskRows(t))),
             Holds(Block(Ring, 0), Projected(t)))
  BY DEF ProjectActs, IsData, TaskRows, Op, Projected, V
<1>5. IsData(a[3], Holds(Block(Ring, 0), Projected(t)),
             At(ArenaTensor("video", "q"), Tile("q", "video", V(t), TaskRows(t)))
               \cup At(ArenaTensor("video", "kv"), Tile("kv", "video", V(t), TaskRows(t))))
  BY DEF ProjectActs, IsData, TaskRows, Op, Projected, V
<1> HIDE DEF a
<1> QED BY <1>1, <1>2, <1>3, <1>4, <1>5

LEMMA AttendData ==
  ASSUME NEW t \in Tasks, t.do = "attend"
  PROVE  /\ IsData(Act(t, 1), ArenaRows("q", V(t), TaskRows(t)), Holds(Q0, QTile(t)))
         /\ IsData(Act(t, 2), ArenaRows("kv", V(t), AllRows), Holds(Kv0, KvTile(t)))
         /\ IsData(Act(t, 3), Holds(Q0, QTile(t)) \cup Holds(Kv0, KvTile(t)), Holds(Q0, Attended(t)))
         /\ IsData(Act(t, 4), Holds(Q0, Attended(t)) \cup HiddenRows(t.block, TaskRows(t)), ChunkPosts(t))
         /\ IsData(Act(t, 5), ChunkPosts(t), Holds(Slot(t), NextTile(t)))
         /\ IsData(Act(t, 6), Holds(Slot(t), NextTile(t)), HiddenRows(V(t), TaskRows(t)))
         /\ IsData(Act(t, 7), {}, {}) /\ IsData(Act(t, 8), {}, {}) /\ IsData(Act(t, 9), {}, {})
<1> DEFINE a == AttendActs(t)
<1>1. \A i \in 1 .. 10 : Act(t, i) = a[i]
  <2> TAKE i \in 1 .. 10
  <2>1. Programs[t][i] = [do |-> a[i], recovery |-> RecoverAttention(StageOf(t.block))]
    BY AttendProgram
  <2> HIDE DEF a
  <2> QED BY <2>1 DEF Act
<1>2. /\ At(Hidden0, Rows("video", t.block, TaskRows(t))) = HiddenRows(t.block, TaskRows(t))
      /\ At(Hidden0, NextTile(t)) = HiddenRows(V(t), TaskRows(t))
      /\ At(ArenaTensor("video", "q"), QTile(t)) = ArenaRows("q", V(t), TaskRows(t))
      /\ At(ArenaTensor("video", "kv"), KvTile(t)) = ArenaRows("kv", V(t), AllRows)
  BY AtHidden, AtArena DEF NextTile, QTile, KvTile
<1>3. /\ IsData(a[1], At(ArenaTensor("video", "q"), QTile(t)), Holds(Q0, QTile(t)))
      /\ IsData(a[2], At(ArenaTensor("video", "kv"), KvTile(t)), Holds(Kv0, KvTile(t)))
  BY DEF AttendActs, IsData, TaskRows, AllRows, Op, QTile, KvTile, V
<1>4. IsData(a[3], Holds(Q0, QTile(t)) \cup Holds(Kv0, KvTile(t)), Holds(Q0, Attended(t)))
  BY DEF AttendActs, IsData, TaskRows, AllRows, Op, QTile, KvTile, Attended, V
<1>5. /\ IsData(a[4], Holds(Q0, Attended(t)) \cup At(Hidden0, Rows("video", t.block, TaskRows(t))), ChunkPosts(t))
      /\ IsData(a[5], ChunkPosts(t), Holds(Slot(t), NextTile(t)))
      /\ IsData(a[6], Holds(Slot(t), NextTile(t)), At(Hidden0, NextTile(t)))
  BY DEF AttendActs, IsData, TaskRows, Op, Attended, NextTile, V
<1>6. IsData(a[7], {}, {}) /\ IsData(a[8], {}, {}) /\ IsData(a[9], {}, {})
  BY DEF AttendActs, IsData, Op
<1> HIDE DEF a
<1>7. /\ IsData(Act(t, 1), ArenaRows("q", V(t), TaskRows(t)), Holds(Q0, QTile(t)))
      /\ IsData(Act(t, 2), ArenaRows("kv", V(t), AllRows), Holds(Kv0, KvTile(t)))
  BY <1>1, <1>2, <1>3
<1>8. IsData(Act(t, 3), Holds(Q0, QTile(t)) \cup Holds(Kv0, KvTile(t)), Holds(Q0, Attended(t)))
  BY <1>1, <1>4
<1>9. /\ IsData(Act(t, 4), Holds(Q0, Attended(t)) \cup HiddenRows(t.block, TaskRows(t)), ChunkPosts(t))
      /\ IsData(Act(t, 5), ChunkPosts(t), Holds(Slot(t), NextTile(t)))
      /\ IsData(Act(t, 6), Holds(Slot(t), NextTile(t)), HiddenRows(V(t), TaskRows(t)))
  <2>1. Act(t, 4) = a[4] /\ Act(t, 5) = a[5] /\ Act(t, 6) = a[6]
    BY <1>1
  <2> QED BY Zenon, <1>2, <1>5, <2>1
<1>10. IsData(Act(t, 7), {}, {}) /\ IsData(Act(t, 8), {}, {}) /\ IsData(Act(t, 9), {}, {})
  BY <1>1, <1>6
<1> QED BY <1>7, <1>8, <1>9, <1>10

-----------------------------------------------------------------------------
(* Where they are kept. *)

AllHost == DOMAIN HostLocations
AllLocal == DOMAIN LocalLocations

LEMMA Places ==
  /\ AllHost = {e[1] : e \in {f \in Entries \cup HostRows : OnHost(f[1])}}
  /\ AllLocal = {e[1] : e \in {f \in Entries : ~OnHost(f[1])}}
BY DEF AllHost, AllLocal, HostLocations, LocalLocations, Table

LEMMA EntryPlaces ==
  ASSUME NEW t \in Tasks, NEW i \in 1 .. Size(t) - 1, NEW g \in Act(t, i).gives
  PROVE  IF OnHost(g[1]) THEN g[1] \in AllHost ELSE g[1] \in AllLocal
<1>1. Act(t, i) \in Ops
  <2>1. i \in DOMAIN Programs[t] /\ Act(t, i).do = "op"
    <3>1. DOMAIN Programs[t] = 1 .. Size(t)
      BY SizeFacts, TaskFacts, ProjectProgram, AttendProgram, WithinFacts
    <3> QED BY <3>1, OpFacts, SizeFacts
  <2> QED BY <2>1 DEF Ops, Act
<1>2. g \in Entries
  BY <1>1 DEF Entries
<1> QED BY <1>2, Places

LEMMA HostTags == \A l \in AllHost : OnHost(l)
BY Places

LEMMA LocalTags == \A l \in AllLocal : ~OnHost(l)
BY Places

\* Every row has its places on the host.
LEMMA RowPlaces ==
  ASSUME NEW r \in AllRows
  PROVE  /\ HRow(r) \in AllHost /\ ArenaRow("q", r) \in AllHost /\ ArenaRow("kv", r) \in AllHost
         /\ <<HRow(r), {<<"video", 0, r>>}>> \in HostRows
<1>1. HostRows = HiddenRows(0, AllRows)
  BY AtHidden DEF HostRows, AllRows, Tensor, Hidden0
<1>2. <<HRow(r), {<<"video", 0, r>>}>> \in HostRows
  BY <1>1 DEF HiddenRows
<1>3. OnHost(HRow(r)) /\ OnHost(ArenaRow("q", r)) /\ OnHost(ArenaRow("kv", r))
  BY RowTags DEF OnHost
<1>4. HRow(r) \in AllHost
  <2> DEFINE e == <<HRow(r), {<<"video", 0, r>>}>>
  <2>1. e \in HostRows /\ e[1] = HRow(r)
    BY <1>2
  <2> HIDE DEF e
  <2> QED BY <1>3, <2>1, Places
<1> DEFINE t == [do |-> "project", block |-> 0, start |-> r, stop |-> r + 1, slot |-> 0]
<1>5. t \in Tasks /\ t.do = "project" /\ r \in TaskRows(t)
  <2>1. r \in 0 .. RowCount - 1 /\ r + 1 \in 1 .. RowCount /\ r < r + 1 /\ r + 1 - r <= ChunkTokens
        /\ RowCount \in Nat
    BY MultiGpuH3Assumption DEF AllRows, Slice
  <2>2. <<r, r + 1>> \in Ranges(ChunkTokens)
    BY <2>1 DEF Ranges
  <2> DEFINE stop == r + 1
  <2>3. <<r, stop>> \in Ranges(ChunkTokens) /\ <<r, stop>>[1] = r /\ <<r, stop>>[2] = stop
    BY <2>2
  <2>4. 0 \in 0 .. BlockCount - 1
    BY MultiGpuH3Assumption
  <2>5. r \in Slice(r, stop)
    BY <2>1 DEF Slice
  <2> HIDE DEF stop
  <2>6. [do |-> "project", block |-> 0, start |-> r, stop |-> stop, slot |-> 0] \in Tasks
    BY <2>3, <2>4 DEF Tasks
  <2> QED BY <2>5, <2>6 DEF TaskRows, stop
<1> HIDE DEF t
<1>6. 3 \in 1 .. Size(t) - 1
  BY <1>5 DEF Size
<1>7. Act(t, 3).gives = ArenaRows("q", V(t), TaskRows(t)) \cup ArenaRows("kv", V(t), TaskRows(t))
  BY <1>5, ProjectData DEF IsData
<1>8. ASSUME NEW what \in {"q", "kv"}
      PROVE  ArenaRow(what, r) \in AllHost
  <2> DEFINE g == <<ArenaRow(what, r), {<<what, "video", V(t), r>>}>>
  <2>1. g \in ArenaRows(what, V(t), TaskRows(t)) /\ g[1] = ArenaRow(what, r)
    BY <1>5 DEF ArenaRows
  <2> HIDE DEF g
  <2>2. g \in Act(t, 3).gives
    BY <1>7, <2>1
  <2> QED BY <1>3, <1>5, <1>6, <2>1, <2>2, EntryPlaces
<1> QED BY <1>2, <1>4, <1>8

-----------------------------------------------------------------------------
(* What performing an operation does to the host and to a device. *)

Sees(h, loc, l) == IF OnHost(l) THEN h[l] ELSE loc[l]

Exact(op, h, loc) == \A need \in op.needs : Sees(h, loc, need[1]) = need[2]

\* Locations an operation does not write stay; if its inputs are exact, so are
\* its outputs.
Effects(op, h, loc, h2, loc2) ==
  /\ \A l \in AllHost : (\A g \in op.gives : g[1] # l) => h2[l] = h[l]
  /\ \A l \in AllLocal : (\A g \in op.gives : g[1] # l) => loc2[l] = loc[l]
  /\ Exact(op, h, loc) => \A g \in op.gives : Sees(h2, loc2, g[1]) = g[2]

\* No operation writes a location twice.
Once(gives) == \A g \in gives : \A f \in gives : g[1] = f[1] => g[2] = f[2]

LEMMA OnceHolds == ASSUME NEW l, NEW x PROVE Once(Holds(l, x))
BY DEF Once, Holds

LEMMA OnceHidden == ASSUME NEW v, NEW range PROVE Once(HiddenRows(v, range))
<1> SUFFICES ASSUME NEW g \in HiddenRows(v, range), NEW f \in HiddenRows(v, range), g[1] = f[1]
             PROVE  g[2] = f[2]
  BY DEF Once
<1>1. PICK r \in range : g = <<HRow(r), {<<"video", v, r>>}>>
  BY DEF HiddenRows
<1>2. PICK s \in range : f = <<HRow(s), {<<"video", v, s>>}>>
  BY DEF HiddenRows
<1>3. HRow(r) = HRow(s)
  BY <1>1, <1>2
<1>4. r = s
  BY <1>3, RowTags
<1> QED BY <1>1, <1>2, <1>4

LEMMA OnceArena ==
  ASSUME NEW v, NEW range
  PROVE  Once(ArenaRows("q", v, range) \cup ArenaRows("kv", v, range))
<1> SUFFICES ASSUME NEW g \in ArenaRows("q", v, range) \cup ArenaRows("kv", v, range),
                    NEW f \in ArenaRows("q", v, range) \cup ArenaRows("kv", v, range), g[1] = f[1]
             PROVE  g[2] = f[2]
  BY DEF Once
<1>1. PICK what \in {"q", "kv"}, r \in range : g = <<ArenaRow(what, r), {<<what, "video", v, r>>}>>
  BY DEF ArenaRows
<1>2. PICK other \in {"q", "kv"}, s \in range : f = <<ArenaRow(other, s), {<<other, "video", v, s>>}>>
  BY DEF ArenaRows
<1>3. ArenaRow(what, r) = ArenaRow(other, s)
  BY <1>1, <1>2
<1>4. what = other /\ r = s
  BY <1>3, RowTags
<1> QED BY <1>1, <1>2, <1>4

LEMMA OncePosts == ASSUME NEW t \in Tasks PROVE Once(ChunkPosts(t))
<1> SUFFICES ASSUME NEW g \in ChunkPosts(t), NEW f \in ChunkPosts(t), g[1] = f[1]
             PROVE  g[2] = f[2]
  BY DEF Once
<1> DEFINE place(r) == <<"chunk", "video", 0 + r - t.start>>
<1>1. PICK r \in Slice(t.start, t.stop) : g = <<place(r), Tile("post", "video", t.block + 1, {r})>>
  BY DEF ChunkPosts
<1>2. PICK s \in Slice(t.start, t.stop) : f = <<place(s), Tile("post", "video", t.block + 1, {s})>>
  BY DEF ChunkPosts
<1>3. place(r) = place(s)
  BY <1>1, <1>2
<1>4. 0 + r - t.start = 0 + s - t.start
  BY <1>3
<1>5. r \in Int /\ s \in Int /\ t.start \in Int
  BY TaskFacts DEF Slice
<1>6. r = s
  BY <1>4, <1>5
<1> QED BY <1>1, <1>2, <1>6

LEMMA OpOnce ==
  ASSUME NEW t \in Tasks, NEW i \in 1 .. Size(t) - 1
  PROVE  Once(Act(t, i).gives)
<1>1. CASE t.do = "project"
  <2>1. i \in {1, 2, 3}
    BY <1>1 DEF Size
  <2> QED BY <1>1, <2>1, ProjectData, OnceHolds, OnceArena DEF IsData
<1>2. CASE t.do = "attend"
  <2>1. i \in {1, 2, 3, 4, 5, 6, 7, 8, 9}
    BY <1>2 DEF Size
  <2>2. Once({})
    BY DEF Once
  <2>3. CASE i \in {1, 2, 3, 5}
    BY <1>2, <2>3, AttendData, OnceHolds DEF IsData
  <2>4. CASE i = 4
    BY <1>2, <2>4, AttendData, OncePosts DEF IsData
  <2>5. CASE i = 6
    BY <1>2, <2>5, AttendData, OnceHidden DEF IsData
  <2>6. CASE i \in {7, 8, 9}
    BY <1>2, <2>2, <2>6, AttendData DEF IsData
  <2> QED BY <2>1, <2>3, <2>4, <2>5, <2>6
<1> QED BY <1>1, <1>2, TaskFacts

LEMMA ContentIs ==
  ASSUME NEW gives, Once(gives), NEW g \in gives, NEW otherwise
  PROVE  Content(gives, g[1], otherwise) = g[2]
<1> DEFINE found == {e \in gives : e[1] = g[1]}
<1>1. g \in found /\ \A e \in found : e[2] = g[2]
  BY DEF Once
<1>2. Content(gives, g[1], otherwise) = (CHOOSE e \in found : TRUE)[2]
  BY <1>1 DEF Content
<1>3. (CHOOSE e \in found : TRUE) \in found
  BY <1>1
<1> QED BY <1>1, <1>2, <1>3

\* The locations there are.
Placing == DOMAIN host = AllHost /\ DOMAIN local = Devices /\ \A d \in Devices : DOMAIN local[d] = AllLocal

\* What a step of a device does, by the operation it performs.
LEMMA StepEffects ==
  ASSUME NEW d \in Devices, NEW s \in AllStreams, DeviceStep(d, s),
         NEW t \in Tasks, NEW i \in 1 .. Size(t) - 1, Cuda!Work(cuda[d], s) = <<t, i>>, Placing
  PROVE  /\ Effects(Act(t, i), host, local[d], host', local'[d])
         /\ \A e \in Devices : e # d => local'[e] = local[e]
         /\ Placing'
<1> DEFINE op == Act(t, i)
           holds(l) == IF OnHost(l) THEN host[l] ELSE local[d][l]
           exact == \A need \in op.needs : holds(need[1]) = need[2]
           outputs == {e[1] : e \in op.gives}
           after(l, old) ==
             IF l \notin outputs THEN old ELSE IF exact THEN Content(op.gives, l, Wrong) ELSE Wrong
<1>1. /\ host' = [l \in DOMAIN host |-> after(l, host[l])]
      /\ local' = [local EXCEPT ![d] = [l \in DOMAIN @ |-> after(l, @[l])]]
  <2>1. <<t, i>>[1] = t /\ <<t, i>>[2] = i
    OBVIOUS
  <2>2. Programs[t][i].do = op
    BY DEF Act
  <2> HIDE DEF op
  <2> QED BY <2>1, <2>2 DEF DeviceStep
<1>2. exact <=> Exact(op, host, local[d])
  BY DEF Exact, Sees
<1>3. \A l : l \in outputs <=> \E g \in op.gives : g[1] = l
  OBVIOUS
<1>4. \A g \in op.gives : Content(op.gives, g[1], Wrong) = g[2]
  <2>1. Once(op.gives)
    BY OpOnce
  <2> HIDE DEF op
  <2> QED BY <2>1, ContentIs
<1>5. \A g \in op.gives : IF OnHost(g[1]) THEN g[1] \in AllHost ELSE g[1] \in AllLocal
  BY EntryPlaces
<1>6. DOMAIN host = AllHost /\ DOMAIN local = Devices /\ \A e \in Devices : DOMAIN local[e] = AllLocal
  BY DEF Placing
<1> HIDE DEF op, exact, outputs
<1>7. /\ DOMAIN host' = AllHost
      /\ \A l \in AllHost : host'[l] = after(l, host[l])
  BY <1>1, <1>6
<1>8. /\ DOMAIN local' = Devices /\ \A e \in Devices : e # d => local'[e] = local[e]
      /\ local'[d] = [l \in AllLocal |-> after(l, local[d][l])]
  BY <1>1, <1>6
<1>9. Placing'
  <2>1. \A e \in Devices : DOMAIN local'[e] = AllLocal
    BY <1>6, <1>8
  <2>2. AllHost' = AllHost /\ AllLocal' = AllLocal
    BY DEF AllHost, AllLocal
  <2> QED BY <1>7, <1>8, <2>1, <2>2 DEF Placing
<1>10. \A l \in AllLocal : local'[d][l] = after(l, local[d][l])
  BY <1>8
<1>11. ASSUME exact, NEW g \in op.gives
       PROVE  Sees(host', local'[d], g[1]) = g[2]
  <2>1. g[1] \in outputs /\ Content(op.gives, g[1], Wrong) = g[2]
    BY <1>3, <1>4
  <2>2. \A old : after(g[1], old) = g[2]
    BY <1>11, <2>1
  <2> HIDE DEF after
  <2> QED BY <1>5, <1>7, <1>10, <2>2 DEF Sees
<1>12. \A l, old : l \notin outputs => after(l, old) = old
  OBVIOUS
<1> HIDE DEF after
<1>13. Effects(op, host, local[d], host', local'[d])
  BY <1>2, <1>3, <1>7, <1>10, <1>11, <1>12 DEF Effects
<1> QED BY <1>8, <1>9, <1>13 DEF op

-----------------------------------------------------------------------------
(* Which locations an operation writes. *)

LEMMA PlaceTags ==
  /\ Staged(Ring, 0)[1] = "staged" /\ Block(Ring, 0)[1] = "block"
  /\ Q0[1] = "q" /\ Kv0[1] = "kv"
  /\ \A t : Slot(t)[1] = "output"
  /\ \A t : \A g \in ChunkPosts(t) : g[1][1] = "chunk"
<1>1. ASSUME NEW t, NEW g \in ChunkPosts(t)
      PROVE  g[1][1] = "chunk"
  <2>1. PICK r \in Slice(t.start, t.stop) :
          g = <<<<"chunk", "video", 0 + r - t.start>>, Tile("post", "video", t.block + 1, {r})>>
    BY DEF ChunkPosts
  <2> DEFINE l == <<"chunk", "video", 0 + r - t.start>>
  <2>2. g[1] = l
    BY <2>1
  <2>3. l[1] = "chunk"
    OBVIOUS
  <2> QED BY <2>2, <2>3
<1>2. /\ Staged(Ring, 0)[1] = "staged" /\ Block(Ring, 0)[1] = "block"
      /\ Q0[1] = "q" /\ Kv0[1] = "kv"
      /\ \A t : Slot(t)[1] = "output"
  BY DEF Staged, Block, Q0, Kv0, Slot, OutputSlot
<1> QED BY <1>1, <1>2

LEMMA HoldsIt == ASSUME NEW l, NEW x PROVE \E g \in Holds(l, x) : g[1] = l /\ g[2] = x
<1> DEFINE g == <<l, x>>
<1>1. g \in Holds(l, x) /\ g[1] = l /\ g[2] = x
  BY DEF Holds
<1> HIDE DEF g
<1> QED BY <1>1

\* The operation writes no location but those tagged.
Writes(op, tag) == \A g \in op.gives : g[1][1] = tag

LEMMA WritesHolds == ASSUME NEW l, NEW x, NEW op, op.gives = Holds(l, x) PROVE Writes(op, l[1])
BY DEF Holds, Writes

LEMMA ProjectWrites ==
  ASSUME NEW t \in Tasks, t.do = "project"
  PROVE  Writes(Act(t, 1), "staged") /\ Writes(Act(t, 2), "block") /\ Writes(Act(t, 3), "arena")
<1>1. /\ Act(t, 1).gives = Holds(Staged(Ring, 0), Rows("video", t.block, TaskRows(t)))
      /\ Act(t, 2).gives = Holds(Block(Ring, 0), Projected(t))
      /\ Act(t, 3).gives = ArenaRows("q", V(t), TaskRows(t)) \cup ArenaRows("kv", V(t), TaskRows(t))
  BY ProjectData DEF IsData
<1>2. \A g \in ArenaRows("q", V(t), TaskRows(t)) \cup ArenaRows("kv", V(t), TaskRows(t)) : g[1][1] = "arena"
  <2>1. \A g \in ArenaRows("q", V(t), TaskRows(t)) : g[1][1] = "arena"
    BY RowTags DEF ArenaRows
  <2>2. \A g \in ArenaRows("kv", V(t), TaskRows(t)) : g[1][1] = "arena"
    BY RowTags DEF ArenaRows
  <2> QED BY <2>1, <2>2
<1> QED BY <1>1, <1>2, WritesHolds, PlaceTags DEF Writes

LEMMA AttendWrites ==
  ASSUME NEW t \in Tasks, t.do = "attend"
  PROVE  /\ Writes(Act(t, 1), "q") /\ Writes(Act(t, 2), "kv") /\ Writes(Act(t, 3), "q")
         /\ Writes(Act(t, 4), "chunk") /\ Writes(Act(t, 5), "output") /\ Writes(Act(t, 6), "hidden")
         /\ \A i \in {7, 8, 9} : Act(t, i).gives = {}
<1>1. /\ Act(t, 1).gives = Holds(Q0, QTile(t)) /\ Act(t, 2).gives = Holds(Kv0, KvTile(t))
      /\ Act(t, 3).gives = Holds(Q0, Attended(t)) /\ Act(t, 4).gives = ChunkPosts(t)
      /\ Act(t, 5).gives = Holds(Slot(t), NextTile(t)) /\ Act(t, 6).gives = HiddenRows(V(t), TaskRows(t))
      /\ \A i \in {7, 8, 9} : Act(t, i).gives = {}
  BY AttendData DEF IsData
<1>2. \A g \in HiddenRows(V(t), TaskRows(t)) : g[1][1] = "hidden"
  BY RowTags DEF HiddenRows
<1>3. Writes(Act(t, 1), "q") /\ Writes(Act(t, 2), "kv") /\ Writes(Act(t, 3), "q") /\ Writes(Act(t, 5), "output")
  BY <1>1, WritesHolds, PlaceTags
<1> QED BY <1>1, <1>2, <1>3, PlaceTags DEF Writes

\* The buffers of a task have a place on its device.
LEMMA ProjectBuffers ==
  ASSUME NEW t \in Tasks, t.do = "project"
  PROVE  Staged(Ring, 0) \in AllLocal /\ Block(Ring, 0) \in AllLocal
<1>1. 1 \in 1 .. Size(t) - 1 /\ 2 \in 1 .. Size(t) - 1
  BY DEF Size
<1>2. \E g \in Act(t, 1).gives : g[1] = Staged(Ring, 0)
  BY ProjectData, HoldsIt DEF IsData
<1>3. \E g \in Act(t, 2).gives : g[1] = Block(Ring, 0)
  BY ProjectData, HoldsIt DEF IsData
<1>4. ~OnHost(Staged(Ring, 0)) /\ ~OnHost(Block(Ring, 0))
  BY PlaceTags DEF OnHost
<1> QED BY <1>1, <1>2, <1>3, <1>4, EntryPlaces

LEMMA AttendBuffers ==
  ASSUME NEW t \in Tasks, t.do = "attend"
  PROVE  /\ Q0 \in AllLocal /\ Kv0 \in AllLocal /\ Slot(t) \in AllLocal
         /\ \A g \in ChunkPosts(t) : g[1] \in AllLocal
<1>1. 1 \in 1 .. Size(t) - 1 /\ 2 \in 1 .. Size(t) - 1 /\ 4 \in 1 .. Size(t) - 1 /\ 5 \in 1 .. Size(t) - 1
  BY DEF Size
<1>2. /\ \E g \in Act(t, 1).gives : g[1] = Q0
      /\ \E g \in Act(t, 2).gives : g[1] = Kv0
      /\ \E g \in Act(t, 5).gives : g[1] = Slot(t)
      /\ Act(t, 4).gives = ChunkPosts(t)
  BY AttendData, HoldsIt DEF IsData
<1>3. ~OnHost(Q0) /\ ~OnHost(Kv0) /\ ~OnHost(Slot(t)) /\ \A g \in ChunkPosts(t) : ~OnHost(g[1])
  BY PlaceTags DEF OnHost
<1> QED BY <1>1, <1>2, <1>3, EntryPlaces

\* A location with another tag stays as it was.
LEMMA Untouched ==
  ASSUME NEW op, NEW h, NEW loc, NEW h2, NEW loc2, Effects(op, h, loc, h2, loc2),
         NEW tag, Writes(op, tag)
  PROVE  /\ \A l \in AllHost : l[1] # tag => h2[l] = h[l]
         /\ \A l \in AllLocal : l[1] # tag => loc2[l] = loc[l]
BY DEF Effects, Writes

LEMMA Unwritten ==
  ASSUME NEW op, NEW h, NEW loc, NEW h2, NEW loc2, Effects(op, h, loc, h2, loc2), op.gives = {}
  PROVE  /\ \A l \in AllHost : h2[l] = h[l]
         /\ \A l \in AllLocal : loc2[l] = loc[l]
BY DEF Effects

\* An operation with exact inputs that computes x into a buffer.
LEMMA Computes ==
  ASSUME NEW op, NEW h, NEW loc, NEW h2, NEW loc2, Effects(op, h, loc, h2, loc2), Exact(op, h, loc),
         NEW l, NEW x, ~OnHost(l), op.gives = Holds(l, x)
  PROVE  loc2[l] = x
<1> DEFINE g == <<l, x>>
<1>1. g \in op.gives /\ g[1] = l /\ g[2] = x
  BY DEF Holds
<1> HIDE DEF g
<1> QED BY <1>1 DEF Effects, Sees

LEMMA ExactHolds ==
  ASSUME NEW op, NEW h, NEW loc, NEW l, NEW x, ~OnHost(l), loc[l] = x, op.needs = Holds(l, x)
  PROVE  Exact(op, h, loc)
<1> SUFFICES ASSUME NEW need \in Holds(l, x)
             PROVE  Sees(h, loc, need[1]) = need[2]
  BY DEF Exact
<1>1. need = <<l, x>>
  BY DEF Holds
<1>2. need[1] = l /\ need[2] = x
  BY <1>1
<1> QED BY <1>2 DEF Sees

-----------------------------------------------------------------------------
(* What the rows and the device buffers hold while a task is executed. *)

RowIs(h, r, v) == h[HRow(r)] = {<<"video", v, r>>}
ArenaIs(h, r, v) == /\ h[ArenaRow("q", r)] = {<<"q", "video", v, r>>}
                    /\ h[ArenaRow("kv", r)] = {<<"kv", "video", v, r>>}

\* Operation i was performed, given that the first m were issued.
Done(dev, m, i) == i \in 1 .. m /\ ~Queued(dev, i)

\* Operation i is still to come, given that at most the first n were issued.
Pending(dev, n, i) == i > n \/ Queued(dev, i)

ProjectFacts(t, dev, n, m, h, loc) ==
  /\ Done(dev, m, 1) /\ Pending(dev, n, 2) => loc[Staged(Ring, 0)] = Rows("video", t.block, TaskRows(t))
  /\ Done(dev, m, 2) /\ Pending(dev, n, 3) => loc[Block(Ring, 0)] = Projected(t)
  /\ Done(dev, m, 3) => \A r \in TaskRows(t) : ArenaIs(h, r, V(t))

PostsHeld(t, loc) == \A g \in ChunkPosts(t) : loc[g[1]] = g[2]

AttendFacts(t, dev, n, m, h, loc) ==
  /\ Done(dev, m, 1) /\ Pending(dev, n, 3) => loc[Q0] = QTile(t)
  /\ Done(dev, m, 2) /\ Pending(dev, n, 3) => loc[Kv0] = KvTile(t)
  /\ Done(dev, m, 3) /\ Pending(dev, n, 4) => loc[Q0] = Attended(t)
  /\ Done(dev, m, 4) /\ Pending(dev, n, 5) => PostsHeld(t, loc)
  /\ Done(dev, m, 5) /\ Pending(dev, n, 6) => loc[Slot(t)] = NextTile(t)
  /\ Pending(dev, n, 6) \/ Queued(dev, 4) \/ Queued(dev, 5) => \A r \in TaskRows(t) : RowIs(h, r, t.block)
  /\ Done(dev, m, 6) => \A r \in TaskRows(t) : RowIs(h, r, V(t))

\* Operation p of those issued is performed.
Performing(t, dev, new, n, m, p) ==
  /\ n \in 0 .. 9 /\ m \in 0 .. 9 /\ m <= n /\ n <= m + 1
  /\ p \in 1 .. n /\ Queued(dev, p)
  /\ \A i : Queued(new, i) <=> Queued(dev, i) /\ i # p
  /\ \A i \in 1 .. m : i < p /\ Linked(t, i, p) => ~Queued(dev, i)
  /\ Followed(dev, t, m)

LEMMA Order ==
  ASSUME NEW t, NEW dev, NEW new, NEW n, NEW m, NEW p, Performing(t, dev, new, n, m, p)
  PROVE  /\ p \in 1 .. 9 /\ Pending(dev, n, p) /\ ~Done(dev, m, p)
         /\ \A i \in 1 .. 9 : i < p /\ Linked(t, i, p) => Done(dev, m, i)
         /\ \A i, j \in 1 .. 9 : i < j /\ Linked(t, i, j) /\ Done(dev, m, j) => Done(dev, m, i)
         /\ \A i : Done(new, m, i) => Done(dev, m, i) \/ i = p
         /\ \A i : Pending(new, n, i) => Pending(dev, n, i) /\ i # p
<1>1. /\ n \in 0 .. 9 /\ m \in 0 .. 9 /\ m <= n /\ n <= m + 1
      /\ p \in 1 .. n /\ Queued(dev, p)
      /\ \A i : Queued(new, i) <=> Queued(dev, i) /\ i # p
      /\ \A i \in 1 .. m : i < p /\ Linked(t, i, p) => ~Queued(dev, i)
  BY DEF Performing
<1>2. p \in 1 .. 9 /\ ~(p > n)
  BY <1>1
<1>3. ASSUME NEW i \in 1 .. 9, i < p, Linked(t, i, p)
      PROVE  Done(dev, m, i)
  <2>1. i \in 1 .. m
    BY <1>1, <1>2, <1>3
  <2> QED BY <1>1, <1>3, <2>1 DEF Done
<1>4. ASSUME NEW i \in 1 .. 9, NEW j \in 1 .. 9, i < j, Linked(t, i, j), Done(dev, m, j)
      PROVE  Done(dev, m, i)
  <2>1. i \in 1 .. m /\ j \in 1 .. m /\ ~Queued(dev, j)
    BY <1>1, <1>4 DEF Done
  <2> QED BY <1>4, <2>1 DEF Done, Performing, Followed
<1>5. \A i : Done(new, m, i) => Done(dev, m, i) \/ i = p
  BY <1>1 DEF Done
<1>6. \A i : Pending(new, n, i) => Pending(dev, n, i) /\ i # p
  BY <1>1, <1>2 DEF Pending
<1> QED BY <1>1, <1>2, <1>3, <1>4, <1>5, <1>6 DEF Done, Pending

\* Rows put into the arena.
LEMMA ArenaWritten ==
  ASSUME NEW t \in Tasks, t.do = "project", NEW h, NEW loc, NEW h2, NEW loc2,
         Effects(Act(t, 3), h, loc, h2, loc2), Exact(Act(t, 3), h, loc)
  PROVE  /\ \A r \in TaskRows(t) : ArenaIs(h2, r, V(t))
         /\ \A r \in AllRows : ArenaIs(h, r, V(t)) => ArenaIs(h2, r, V(t))
<1> DEFINE op == Act(t, 3)
           cell(what, r) == <<ArenaRow(what, r), {<<what, "video", V(t), r>>}>>
<1>1. op.gives = ArenaRows("q", V(t), TaskRows(t)) \cup ArenaRows("kv", V(t), TaskRows(t))
  BY ProjectData DEF IsData
<1>2. ASSUME NEW r \in TaskRows(t), NEW what \in {"q", "kv"}
      PROVE  h2[ArenaRow(what, r)] = {<<what, "video", V(t), r>>}
  <2>1. cell(what, r) \in op.gives
    BY <1>1 DEF ArenaRows
  <2>2. cell(what, r)[1] = ArenaRow(what, r) /\ cell(what, r)[2] = {<<what, "video", V(t), r>>}
    OBVIOUS
  <2>3. OnHost(ArenaRow(what, r))
    BY RowTags DEF OnHost
  <2> HIDE DEF cell, op
  <2>4. Sees(h2, loc2, cell(what, r)[1]) = cell(what, r)[2]
    BY <2>1 DEF Effects, op
  <2> QED BY <2>2, <2>3, <2>4 DEF Sees
<1>3. \A r \in TaskRows(t) : ArenaIs(h2, r, V(t))
  BY <1>2 DEF ArenaIs
<1>4. ASSUME NEW r \in AllRows, r \notin TaskRows(t), NEW what \in {"q", "kv"}
      PROVE  h2[ArenaRow(what, r)] = h[ArenaRow(what, r)]
  <2>1. ArenaRow(what, r) \in AllHost
    BY RowPlaces
  <2>2. ASSUME NEW g \in op.gives
        PROVE  g[1] # ArenaRow(what, r)
    <3>1. PICK other \in {"q", "kv"}, s \in TaskRows(t) : g = cell(other, s)
      BY <1>1 DEF ArenaRows
    <3>2. g[1] = ArenaRow(other, s) /\ s # r
      BY <1>4, <3>1
    <3> QED BY <3>2, RowTags
  <2> HIDE DEF op
  <2> QED BY <2>1, <2>2 DEF Effects, op
<1>5. ASSUME NEW r \in AllRows, ArenaIs(h, r, V(t))
      PROVE  ArenaIs(h2, r, V(t))
  <2>1. CASE r \in TaskRows(t)
    BY <1>3, <2>1
  <2>2. CASE r \notin TaskRows(t)
    BY <1>4, <1>5, <2>2 DEF ArenaIs
  <2> QED BY <2>1, <2>2
<1> QED BY <1>3, <1>5

LEMMA ProjectStep ==
  ASSUME NEW t \in Tasks, t.do = "project", NEW dev, NEW new, NEW n, NEW m, NEW p,
         Performing(t, dev, new, n, m, p), n <= 3,
         NEW h, NEW loc, NEW h2, NEW loc2, Effects(Act(t, p), h, loc, h2, loc2),
         ProjectFacts(t, dev, n, m, h, loc), \A r \in TaskRows(t) : RowIs(h, r, t.block)
  PROVE  /\ ProjectFacts(t, new, n, m, h2, loc2)
         /\ \A r \in AllRows : h2[HRow(r)] = h[HRow(r)]
         /\ \A r \in AllRows : ArenaIs(h, r, V(t)) => ArenaIs(h2, r, V(t))
<1>1. p \in {1, 2, 3}
  BY DEF Performing
<1>2. /\ Pending(dev, n, p) /\ ~Done(dev, m, p)
      /\ \A i \in 1 .. 9 : i < p /\ Linked(t, i, p) => Done(dev, m, i)
      /\ \A i : Done(new, m, i) => Done(dev, m, i) \/ i = p
      /\ \A i : Pending(new, n, i) => Pending(dev, n, i) /\ i # p
  BY Order
<1>3. Linked(t, 1, 2) /\ Linked(t, 2, 3)
  BY ProjectLinks
<1>4. /\ Staged(Ring, 0) \in AllLocal /\ Block(Ring, 0) \in AllLocal
      /\ Staged(Ring, 0)[1] = "staged" /\ Block(Ring, 0)[1] = "block"
      /\ ~OnHost(Staged(Ring, 0)) /\ ~OnHost(Block(Ring, 0))
      /\ \A r : OnHost(HRow(r)) /\ HRow(r)[1] = "hidden"
      /\ \A r : ArenaRow("q", r)[1] = "arena" /\ ArenaRow("kv", r)[1] = "arena"
  BY ProjectBuffers, LocalTags, PlaceTags, RowTags DEF OnHost
<1>5. \A r \in AllRows : HRow(r) \in AllHost /\ ArenaRow("q", r) \in AllHost /\ ArenaRow("kv", r) \in AllHost
  BY RowPlaces
<1>6. TaskRows(t) \subseteq AllRows
  BY TaskFacts, MultiGpuH3Assumption DEF TaskRows, AllRows, Slice
<1> DEFINE staged == Staged(Ring, 0)
           kept == Block(Ring, 0)
<1> HIDE DEF staged, kept
<1>7. CASE p = 1
  <2> DEFINE op == Act(t, 1)
  <2>1. Writes(op, "staged") /\ op.gives = Holds(staged, Rows("video", t.block, TaskRows(t)))
        /\ op.needs = HiddenRows(t.block, TaskRows(t)) /\ Effects(op, h, loc, h2, loc2)
    BY <1>7, ProjectWrites, ProjectData DEF IsData, staged
  <2> HIDE DEF op
  <2>2. Exact(op, h, loc)
    <3> SUFFICES ASSUME NEW need \in HiddenRows(t.block, TaskRows(t))
                 PROVE  Sees(h, loc, need[1]) = need[2]
      BY <2>1 DEF Exact
    <3>1. PICK r \in TaskRows(t) : need = <<HRow(r), {<<"video", t.block, r>>}>>
      BY DEF HiddenRows
    <3>2. need[1] = HRow(r) /\ need[2] = {<<"video", t.block, r>>}
      BY <3>1
    <3> QED BY <1>4, <3>2 DEF Sees, RowIs
  <2>3. loc2[staged] = Rows("video", t.block, TaskRows(t))
    BY <1>4, <2>1, <2>2, Computes DEF staged
  <2>4. /\ \A l \in AllHost : l[1] # "staged" => h2[l] = h[l]
        /\ \A l \in AllLocal : l[1] # "staged" => loc2[l] = loc[l]
    BY <2>1, Untouched
  <2>5. /\ loc2[kept] = loc[kept]
        /\ \A r \in AllRows : h2[HRow(r)] = h[HRow(r)] /\ (ArenaIs(h, r, V(t)) => ArenaIs(h2, r, V(t)))
    BY <1>4, <1>5, <2>4 DEF ArenaIs, kept
  <2> QED BY <1>2, <1>6, <1>7, <2>3, <2>5 DEF ProjectFacts, staged, kept
<1>8. CASE p = 2
  <2> DEFINE op == Act(t, 2)
  <2>1. Writes(op, "block") /\ op.gives = Holds(kept, Projected(t))
        /\ op.needs = Holds(staged, Rows("video", t.block, TaskRows(t))) /\ Effects(op, h, loc, h2, loc2)
    BY <1>8, ProjectWrites, ProjectData DEF IsData, staged, kept
  <2> HIDE DEF op
  <2>2. Exact(op, h, loc)
    <3>1. loc[staged] = Rows("video", t.block, TaskRows(t))
      BY <1>2, <1>3, <1>8 DEF ProjectFacts, staged
    <3> QED BY <1>4, <2>1, <3>1, ExactHolds DEF staged
  <2>3. loc2[kept] = Projected(t)
    BY <1>4, <2>1, <2>2, Computes DEF kept
  <2>4. /\ \A l \in AllHost : l[1] # "block" => h2[l] = h[l]
        /\ \A l \in AllLocal : l[1] # "block" => loc2[l] = loc[l]
    BY <2>1, Untouched
  <2>5. /\ loc2[staged] = loc[staged]
        /\ \A r \in AllRows : h2[HRow(r)] = h[HRow(r)] /\ (ArenaIs(h, r, V(t)) => ArenaIs(h2, r, V(t)))
    BY <1>4, <1>5, <2>4 DEF ArenaIs, staged
  <2> QED BY <1>2, <1>6, <1>8, <2>3, <2>5 DEF ProjectFacts, staged, kept
<1>9. CASE p = 3
  <2> DEFINE op == Act(t, 3)
  <2>1. Writes(op, "arena") /\ op.needs = Holds(kept, Projected(t)) /\ Effects(op, h, loc, h2, loc2)
    BY <1>9, ProjectWrites, ProjectData DEF IsData, kept
  <2> HIDE DEF op
  <2>2. Exact(op, h, loc)
    <3>1. loc[kept] = Projected(t)
      BY <1>2, <1>3, <1>9 DEF ProjectFacts, kept
    <3> QED BY <1>4, <2>1, <3>1, ExactHolds DEF kept
  <2>3. /\ \A r \in TaskRows(t) : ArenaIs(h2, r, V(t))
        /\ \A r \in AllRows : ArenaIs(h, r, V(t)) => ArenaIs(h2, r, V(t))
    BY <2>1, <2>2, ArenaWritten DEF op
  <2>4. /\ \A l \in AllHost : l[1] # "arena" => h2[l] = h[l]
        /\ \A l \in AllLocal : l[1] # "arena" => loc2[l] = loc[l]
    BY <2>1, Untouched
  <2>5. /\ loc2[staged] = loc[staged] /\ loc2[kept] = loc[kept]
        /\ \A r \in AllRows : h2[HRow(r)] = h[HRow(r)]
    BY <1>4, <1>5, <2>4 DEF staged, kept
  <2> QED BY <1>2, <1>6, <1>9, <2>3, <2>5 DEF ProjectFacts, staged, kept
<1> QED BY <1>1, <1>7, <1>8, <1>9

\* Rows written to the hidden tensor.
LEMMA HiddenWritten ==
  ASSUME NEW t \in Tasks, t.do = "attend", NEW h, NEW loc, NEW h2, NEW loc2,
         Effects(Act(t, 6), h, loc, h2, loc2), Exact(Act(t, 6), h, loc)
  PROVE  /\ \A r \in TaskRows(t) : RowIs(h2, r, V(t))
         /\ \A r \in AllRows : r \notin TaskRows(t) => h2[HRow(r)] = h[HRow(r)]
<1> DEFINE op == Act(t, 6)
           cell(r) == <<HRow(r), {<<"video", V(t), r>>}>>
<1>1. op.gives = HiddenRows(V(t), TaskRows(t))
  BY AttendData DEF IsData
<1>2. ASSUME NEW r \in TaskRows(t)
      PROVE  RowIs(h2, r, V(t))
  <2>1. cell(r) \in op.gives
    BY <1>1 DEF HiddenRows
  <2>2. cell(r)[1] = HRow(r) /\ cell(r)[2] = {<<"video", V(t), r>>}
    OBVIOUS
  <2>3. OnHost(HRow(r))
    BY RowTags DEF OnHost
  <2> HIDE DEF cell, op
  <2>4. Sees(h2, loc2, cell(r)[1]) = cell(r)[2]
    BY <2>1 DEF Effects, op
  <2> QED BY <2>2, <2>3, <2>4 DEF Sees, RowIs
<1>3. ASSUME NEW r \in AllRows, r \notin TaskRows(t)
      PROVE  h2[HRow(r)] = h[HRow(r)]
  <2>1. HRow(r) \in AllHost
    BY RowPlaces
  <2>2. ASSUME NEW g \in op.gives
        PROVE  g[1] # HRow(r)
    <3>1. PICK s \in TaskRows(t) : g = cell(s)
      BY <1>1 DEF HiddenRows
    <3>2. g[1] = HRow(s) /\ s # r
      BY <1>3, <3>1
    <3> QED BY <3>2, RowTags
  <2> HIDE DEF op
  <2> QED BY <2>1, <2>2 DEF Effects, op
<1> QED BY <1>2, <1>3

LEMMA ExactTwo ==
  ASSUME NEW op, NEW h, NEW loc, NEW l, NEW x, ~OnHost(l), loc[l] = x,
         NEW k, NEW y, ~OnHost(k), loc[k] = y, op.needs = Holds(l, x) \cup Holds(k, y)
  PROVE  Exact(op, h, loc)
<1>1. ASSUME NEW need \in Holds(l, x)
      PROVE  Sees(h, loc, need[1]) = need[2]
  <2>1. need = <<l, x>>
    BY DEF Holds
  <2>2. need[1] = l /\ need[2] = x
    BY <2>1
  <2> QED BY <2>2 DEF Sees
<1>2. ASSUME NEW need \in Holds(k, y)
      PROVE  Sees(h, loc, need[1]) = need[2]
  <2>1. need = <<k, y>>
    BY DEF Holds
  <2>2. need[1] = k /\ need[2] = y
    BY <2>1
  <2> QED BY <2>2 DEF Sees
<1> QED BY <1>1, <1>2 DEF Exact

\* The inputs of an operation of an attend task are exact when it is performed.
LEMMA AttendExact ==
  ASSUME NEW t \in Tasks, t.do = "attend", NEW dev, NEW new, NEW n, NEW m, NEW p,
         Performing(t, dev, new, n, m, p), NEW h, NEW loc,
         AttendFacts(t, dev, n, m, h, loc), \A r \in AllRows : ArenaIs(h, r, V(t))
  PROVE  Exact(Act(t, p), h, loc)
<1>1. p \in 1 .. 9
  BY Order
<1>2. /\ Pending(dev, n, p) /\ Queued(dev, p)
      /\ \A i \in 1 .. 9 : i < p /\ Linked(t, i, p) => Done(dev, m, i)
  BY Order DEF Performing
<1>3. /\ Linked(t, 1, 3) /\ Linked(t, 2, 3) /\ Linked(t, 3, 4) /\ Linked(t, 4, 5) /\ Linked(t, 5, 6)
  BY AttendLinks
<1>4. /\ ~OnHost(Q0) /\ ~OnHost(Kv0) /\ ~OnHost(Slot(t)) /\ \A g \in ChunkPosts(t) : ~OnHost(g[1])
      /\ \A r : OnHost(HRow(r)) /\ OnHost(ArenaRow("q", r)) /\ OnHost(ArenaRow("kv", r))
  BY PlaceTags, RowTags DEF OnHost
<1>5. TaskRows(t) \subseteq AllRows
  BY TaskFacts, MultiGpuH3Assumption DEF TaskRows, AllRows, Slice
<1>6. ASSUME NEW what \in {"q", "kv"}, NEW range, range \subseteq AllRows, NEW op,
             op.needs = ArenaRows(what, V(t), range)
      PROVE  Exact(op, h, loc)
  <2> SUFFICES ASSUME NEW need \in ArenaRows(what, V(t), range)
               PROVE  Sees(h, loc, need[1]) = need[2]
    BY <1>6 DEF Exact
  <2>1. PICK r \in range : need = <<ArenaRow(what, r), {<<what, "video", V(t), r>>}>>
    BY DEF ArenaRows
  <2>2. need[1] = ArenaRow(what, r) /\ need[2] = {<<what, "video", V(t), r>>}
    BY <2>1
  <2>3. r \in AllRows
    BY <1>6
  <2> QED BY <1>4, <1>6, <2>2, <2>3 DEF Sees, ArenaIs
<1>7. CASE p = 1
  BY <1>5, <1>6, <1>7, AttendData DEF IsData
<1>8. CASE p = 2
  BY <1>6, <1>8, AttendData DEF IsData
<1>9. CASE p = 3
  <2>1. loc[Q0] = QTile(t) /\ loc[Kv0] = KvTile(t)
    BY <1>2, <1>3, <1>9 DEF AttendFacts
  <2> QED BY <1>4, <1>9, <2>1, ExactTwo, AttendData DEF IsData
<1>10. CASE p = 4
  <2>1. loc[Q0] = Attended(t) /\ \A r \in TaskRows(t) : RowIs(h, r, t.block)
    BY <1>2, <1>3, <1>10 DEF AttendFacts
  <2>2. Act(t, 4).needs = Holds(Q0, Attended(t)) \cup HiddenRows(t.block, TaskRows(t))
    BY AttendData DEF IsData
  <2>3. ASSUME NEW need \in Act(t, 4).needs
        PROVE  Sees(h, loc, need[1]) = need[2]
    <3>1. CASE need \in Holds(Q0, Attended(t))
      <4>1. need = <<Q0, Attended(t)>>
        BY <3>1 DEF Holds
      <4>2. need[1] = Q0 /\ need[2] = Attended(t)
        BY <4>1
      <4> QED BY <1>4, <2>1, <4>2 DEF Sees
    <3>2. CASE need \in HiddenRows(t.block, TaskRows(t))
      <4>1. PICK r \in TaskRows(t) : need = <<HRow(r), {<<"video", t.block, r>>}>>
        BY <3>2 DEF HiddenRows
      <4>2. need[1] = HRow(r) /\ need[2] = {<<"video", t.block, r>>}
        BY <4>1
      <4> QED BY <1>4, <2>1, <4>2 DEF Sees, RowIs
    <3> QED BY <2>2, <2>3, <3>1, <3>2
  <2> QED BY <1>10, <2>3 DEF Exact
<1>11. CASE p = 5
  <2>1. PostsHeld(t, loc)
    BY <1>2, <1>3, <1>11 DEF AttendFacts
  <2>2. Act(t, 5).needs = ChunkPosts(t)
    BY AttendData DEF IsData
  <2> QED BY <1>4, <1>11, <2>1, <2>2 DEF Exact, Sees, PostsHeld
<1>12. CASE p = 6
  <2>1. loc[Slot(t)] = NextTile(t)
    BY <1>2, <1>3, <1>12 DEF AttendFacts
  <2> QED BY <1>4, <1>12, <2>1, ExactHolds, AttendData DEF IsData
<1>13. CASE p \in {7, 8, 9}
  <2>1. Act(t, p).needs = {}
    BY <1>13, AttendData DEF IsData
  <2> QED BY <2>1 DEF Exact
<1> QED BY <1>1, <1>7, <1>8, <1>9, <1>10, <1>11, <1>12, <1>13

LEMMA AttendStep ==
  ASSUME NEW t \in Tasks, t.do = "attend", NEW dev, NEW new, NEW n, NEW m, NEW p,
         Performing(t, dev, new, n, m, p),
         NEW h, NEW loc, NEW h2, NEW loc2, Effects(Act(t, p), h, loc, h2, loc2),
         AttendFacts(t, dev, n, m, h, loc), \A r \in AllRows : ArenaIs(h, r, V(t))
  PROVE  /\ AttendFacts(t, new, n, m, h2, loc2)
         /\ \A r \in AllRows : ArenaIs(h2, r, V(t))
         /\ \A r \in AllRows : r \notin TaskRows(t) => h2[HRow(r)] = h[HRow(r)]
         /\ p # 6 => \A r \in AllRows : h2[HRow(r)] = h[HRow(r)]
         /\ p = 6 => \A r \in TaskRows(t) : RowIs(h, r, t.block) /\ RowIs(h2, r, V(t))
<1>1. p \in 1 .. 9
  BY Order
<1>2. /\ Pending(dev, n, p) /\ ~Done(dev, m, p)
      /\ \A i \in 1 .. 9 : i < p /\ Linked(t, i, p) => Done(dev, m, i)
      /\ \A i, j \in 1 .. 9 : i < j /\ Linked(t, i, j) /\ Done(dev, m, j) => Done(dev, m, i)
      /\ \A i : Done(new, m, i) => Done(dev, m, i) \/ i = p
      /\ \A i : Pending(new, n, i) => Pending(dev, n, i) /\ i # p
  BY Order
<1>3. /\ Linked(t, 1, 3) /\ Linked(t, 2, 3) /\ Linked(t, 3, 4) /\ Linked(t, 4, 5) /\ Linked(t, 5, 6)
  BY AttendLinks
<1>4. /\ Q0[1] = "q" /\ Kv0[1] = "kv" /\ Slot(t)[1] = "output" /\ \A g \in ChunkPosts(t) : g[1][1] = "chunk"
      /\ Q0 \in AllLocal /\ Kv0 \in AllLocal /\ Slot(t) \in AllLocal /\ \A g \in ChunkPosts(t) : g[1] \in AllLocal
      /\ ~OnHost(Q0) /\ ~OnHost(Kv0) /\ ~OnHost(Slot(t)) /\ \A g \in ChunkPosts(t) : ~OnHost(g[1])
      /\ \A r : HRow(r)[1] = "hidden" /\ ArenaRow("q", r)[1] = "arena" /\ ArenaRow("kv", r)[1] = "arena"
  BY AttendBuffers, LocalTags, PlaceTags, RowTags
<1>5. \A r \in AllRows : HRow(r) \in AllHost /\ ArenaRow("q", r) \in AllHost /\ ArenaRow("kv", r) \in AllHost
  BY RowPlaces
<1>6. TaskRows(t) \subseteq AllRows
  BY TaskFacts, MultiGpuH3Assumption DEF TaskRows, AllRows, Slice
<1>7. Exact(Act(t, p), h, loc)
  BY AttendExact
<1>8. \A i \in {4, 5} : Queued(new, i) => Queued(dev, i) /\ i # p
  BY DEF Performing
\* What stays where the operation writes to no location of the tag.
<1>9. ASSUME NEW tag, Writes(Act(t, p), tag)
      PROVE  /\ tag # "q" => loc2[Q0] = loc[Q0]
             /\ tag # "kv" => loc2[Kv0] = loc[Kv0]
             /\ tag # "output" => loc2[Slot(t)] = loc[Slot(t)]
             /\ tag # "chunk" /\ PostsHeld(t, loc) => PostsHeld(t, loc2)
             /\ tag # "hidden" => \A r \in AllRows : h2[HRow(r)] = h[HRow(r)]
             /\ tag # "arena" => \A r \in AllRows : ArenaIs(h2, r, V(t))
  <2>1. /\ \A l \in AllHost : l[1] # tag => h2[l] = h[l]
        /\ \A l \in AllLocal : l[1] # tag => loc2[l] = loc[l]
    BY <1>9, Untouched
  <2> QED BY <1>4, <1>5, <2>1 DEF PostsHeld, ArenaIs
<1> DEFINE Kept == /\ \A r \in AllRows : h2[HRow(r)] = h[HRow(r)]
                   /\ \A r \in AllRows : ArenaIs(h2, r, V(t))
<1>10. ASSUME Kept, p # 6
       PROVE  /\ Pending(new, n, 6) \/ Queued(new, 4) \/ Queued(new, 5) => \A r \in TaskRows(t) : RowIs(h2, r, t.block)
              /\ Done(new, m, 6) => \A r \in TaskRows(t) : RowIs(h2, r, V(t))
  BY <1>2, <1>6, <1>8, <1>10 DEF AttendFacts, RowIs
<1>11. CASE p = 1
  <2>1. Writes(Act(t, p), "q") /\ Act(t, p).gives = Holds(Q0, QTile(t))
    BY <1>11, AttendWrites, AttendData DEF IsData
  <2>2. loc2[Q0] = QTile(t)
    BY <1>4, <1>7, <2>1, Computes
  <2>3. /\ loc2[Kv0] = loc[Kv0] /\ loc2[Slot(t)] = loc[Slot(t)] /\ (PostsHeld(t, loc) => PostsHeld(t, loc2))
        /\ Kept
    BY <1>9, <2>1
  <2>4. ~Done(new, m, 3)
    <3>1. ~Done(dev, m, 3)
      BY <1>2, <1>3, <1>11
    <3> QED BY <1>2, <1>11, <3>1
  <2>5. AttendFacts(t, new, n, m, h2, loc2)
    <3> HIDE DEF Kept
    <3> QED BY <1>2, <1>10, <1>11, <2>2, <2>3, <2>4 DEF AttendFacts
  <2> QED BY <1>11, <2>3, <2>5
<1>12. CASE p = 2
  <2>1. Writes(Act(t, p), "kv") /\ Act(t, p).gives = Holds(Kv0, KvTile(t))
    BY <1>12, AttendWrites, AttendData DEF IsData
  <2>2. loc2[Kv0] = KvTile(t)
    BY <1>4, <1>7, <2>1, Computes
  <2>3. /\ loc2[Q0] = loc[Q0] /\ loc2[Slot(t)] = loc[Slot(t)] /\ (PostsHeld(t, loc) => PostsHeld(t, loc2))
        /\ Kept
    BY <1>9, <2>1
  <2>5. AttendFacts(t, new, n, m, h2, loc2)
    <3> HIDE DEF Kept
    <3> QED BY <1>2, <1>10, <1>12, <2>2, <2>3 DEF AttendFacts
  <2> QED BY <1>12, <2>3, <2>5
<1>13. CASE p = 3
  <2>1. Writes(Act(t, p), "q") /\ Act(t, p).gives = Holds(Q0, Attended(t))
    BY <1>13, AttendWrites, AttendData DEF IsData
  <2>2. loc2[Q0] = Attended(t)
    BY <1>4, <1>7, <2>1, Computes
  <2>3. /\ loc2[Kv0] = loc[Kv0] /\ loc2[Slot(t)] = loc[Slot(t)] /\ (PostsHeld(t, loc) => PostsHeld(t, loc2))
        /\ Kept
    BY <1>9, <2>1
  <2>4. ~Pending(new, n, 3)
    BY <1>2, <1>13
  <2>5. AttendFacts(t, new, n, m, h2, loc2)
    <3> HIDE DEF Kept
    <3> QED BY <1>2, <1>10, <1>13, <2>2, <2>3, <2>4 DEF AttendFacts
  <2> QED BY <1>13, <2>3, <2>5
<1>14. CASE p = 4
  <2>1. Writes(Act(t, p), "chunk") /\ Act(t, p).gives = ChunkPosts(t)
    BY <1>14, AttendWrites, AttendData DEF IsData
  <2>2. PostsHeld(t, loc2)
    <3>1. \A g \in ChunkPosts(t) : Sees(h2, loc2, g[1]) = g[2]
      BY <1>7, <2>1 DEF Effects
    <3> QED BY <1>4, <3>1 DEF PostsHeld, Sees
  <2>3. /\ loc2[Q0] = loc[Q0] /\ loc2[Kv0] = loc[Kv0] /\ loc2[Slot(t)] = loc[Slot(t)] /\ Kept
    BY <1>9, <2>1
  <2>5. AttendFacts(t, new, n, m, h2, loc2)
    <3> HIDE DEF Kept
    <3> QED BY <1>2, <1>10, <1>14, <2>2, <2>3 DEF AttendFacts
  <2> QED BY <1>14, <2>3, <2>5
<1>15. CASE p = 5
  <2>1. Writes(Act(t, p), "output") /\ Act(t, p).gives = Holds(Slot(t), NextTile(t))
    BY <1>15, AttendWrites, AttendData DEF IsData
  <2>2. loc2[Slot(t)] = NextTile(t)
    BY <1>4, <1>7, <2>1, Computes
  <2>3. /\ loc2[Q0] = loc[Q0] /\ loc2[Kv0] = loc[Kv0] /\ (PostsHeld(t, loc) => PostsHeld(t, loc2)) /\ Kept
    BY <1>9, <2>1
  <2>5. AttendFacts(t, new, n, m, h2, loc2)
    <3> HIDE DEF Kept
    <3> QED BY <1>2, <1>10, <1>15, <2>2, <2>3 DEF AttendFacts
  <2> QED BY <1>15, <2>3, <2>5
<1>16. CASE p = 6
  <2>1. Writes(Act(t, p), "hidden")
    BY <1>16, AttendWrites
  <2>2. /\ \A r \in TaskRows(t) : RowIs(h2, r, V(t))
        /\ \A r \in AllRows : r \notin TaskRows(t) => h2[HRow(r)] = h[HRow(r)]
    BY <1>7, <1>16, HiddenWritten
  <2>3. /\ loc2[Q0] = loc[Q0] /\ loc2[Kv0] = loc[Kv0] /\ loc2[Slot(t)] = loc[Slot(t)]
        /\ (PostsHeld(t, loc) => PostsHeld(t, loc2))
        /\ \A r \in AllRows : ArenaIs(h2, r, V(t))
    BY <1>9, <2>1
  <2>4. Done(dev, m, 5) /\ Done(dev, m, 4)
    BY <1>2, <1>3, <1>16
  <2>5. ~Pending(new, n, 6) /\ ~Queued(new, 4) /\ ~Queued(new, 5)
    BY <1>2, <1>8, <1>16, <2>4 DEF Done
  <2>6. AttendFacts(t, new, n, m, h2, loc2)
    BY <1>2, <1>16, <2>2, <2>3, <2>5 DEF AttendFacts
  <2>7. \A r \in TaskRows(t) : RowIs(h, r, t.block)
    BY <1>2, <1>16 DEF AttendFacts
  <2> QED BY <1>16, <2>2, <2>3, <2>6, <2>7
<1>17. CASE p \in {7, 8, 9}
  <2>1. Act(t, p).gives = {}
    BY <1>17, AttendWrites
  <2>2. Writes(Act(t, p), "none")
    BY <2>1 DEF Writes
  <2>3. /\ loc2[Q0] = loc[Q0] /\ loc2[Kv0] = loc[Kv0] /\ loc2[Slot(t)] = loc[Slot(t)]
        /\ (PostsHeld(t, loc) => PostsHeld(t, loc2)) /\ Kept
    BY <1>9, <2>2
  <2>5. AttendFacts(t, new, n, m, h2, loc2)
    <3>1. p # 6
      BY <1>17
    <3> HIDE DEF Kept
    <3> QED BY <1>2, <1>10, <1>17, <2>3, <3>1 DEF AttendFacts
  <2> QED BY <1>17, <2>3, <2>5
<1> QED BY <1>1, <1>11, <1>12, <1>13, <1>14, <1>15, <1>16, <1>17

\* What the task of a worker has brought about, after its first n operations
\* were issued, and the first m of them surely with their records.
Facts(t, dev, n, m, h, loc) ==
  /\ t.do = "project" => ProjectFacts(t, dev, n, m, h, loc)
  /\ t.do = "attend" => AttendFacts(t, dev, n, m, h, loc)

\* A task that is claimed has done nothing yet.
LEMMA FactsAtClaim ==
  ASSUME NEW t \in Tasks, NEW dev, NEW h, NEW loc,
         t.do = "attend" => \A r \in TaskRows(t) : RowIs(h, r, t.block)
  PROVE  Facts(t, dev, 0, 0, h, loc)
<1>1. \A i : ~Done(dev, 0, i)
  BY DEF Done
<1> QED BY <1>1 DEF Facts, ProjectFacts, AttendFacts

\* An operation is enqueued.
LEMMA FactsWhenIssued ==
  ASSUME NEW t, NEW dev, NEW n, NEW m, NEW h, NEW loc, Facts(t, dev, n, m, h, loc),
         NEW new, NEW n2, NEW m2,
         \A i \in 1 .. 9 : Done(new, m2, i) => Done(dev, m, i),
         \A i \in 1 .. 9 : Pending(new, n2, i) => Pending(dev, n, i),
         \A i \in {4, 5} : Queued(new, i) => Queued(dev, i) \/ Pending(dev, n, 6)
  PROVE  Facts(t, new, n2, m2, h, loc)
BY DEF Facts, ProjectFacts, AttendFacts

\* Another device performs an operation.
LEMMA FactsOfOthers ==
  ASSUME NEW t, NEW dev, NEW n, NEW m, NEW h, NEW loc, Facts(t, dev, n, m, h, loc), NEW h2,
         \A r \in TaskRows(t) : /\ h2[HRow(r)] = h[HRow(r)]
                                /\ ArenaIs(h, r, V(t)) => ArenaIs(h2, r, V(t))
  PROVE  Facts(t, dev, n, m, h2, loc)
BY DEF Facts, ProjectFacts, AttendFacts, RowIs

-----------------------------------------------------------------------------
(* The call. *)

\* How many operations of its task a worker issued, and how many of these
\* surely with their records.
Active(w) == w.pc \notin Idle
Issued(w) == IF w.pc = "run" THEN w.at - 1 ELSE w.at
Sure(w) == w.at - 1

\* An exception is under way, or was.
Broken == failed \/ \E d \in Devices : worker[d].pc \in Raised

Running(r) == \E d \in Devices : worker[d].pc = "run" /\ r \in TaskRows(worker[d].task)

Apart(s, t) == s.stop <= t.start \/ t.stop <= s.start

\* No two workers have rows in common.
RangesApart ==
  \A d \in Devices : Active(worker[d]) =>
    /\ worker[d].task.stop <= next
    /\ \A e \in Devices : e # d /\ Active(worker[e]) => Apart(worker[d].task, worker[e].task)

TasksData ==
  \A d \in Devices : Active(worker[d]) =>
    Facts(worker[d].task, cuda[d], Issued(worker[d]), Sure(worker[d]), host, local[d])

WhileProjecting == phase = "project" => \A r \in AllRows : RowIs(host, r, block)

WhileAttending ==
  phase = "attend" => \A r \in AllRows :
    /\ ArenaIs(host, r, block + 1)
    /\ RowIs(host, r, block) \/ RowIs(host, r, block + 1)
    /\ r >= next => RowIs(host, r, block)

\* The phase has done its work on row r.
Complete(r) == IF phase = "project" THEN ArenaIs(host, r, block + 1) ELSE RowIs(host, r, block + 1)

\* A claimed row is in work or complete, but for exceptions.
ClaimedRows == phase # "idle" => \A r \in AllRows : r < next => Broken \/ Complete(r) \/ Running(r)

\* Without an exception a worker ends when all rows are claimed.
Flow ==
  /\ phase # "idle" <=> outcome = "running"
  /\ phase # "idle" /\ ~Broken =>
       /\ ~cancelled
       /\ \A d \in Devices : worker[d].pc = "done" => next = RowCount

RowsInv == WhileProjecting /\ WhileAttending /\ ClaimedRows

DInv == Placing /\ RangesApart /\ TasksData /\ RowsInv /\ Flow

LEMMA Changed ==
  ASSUME NEW d \in Devices, WInv, NEW w, worker' = [worker EXCEPT ![d] = w]
  PROVE  worker'[d] = w /\ \A e \in Devices : e # d => worker'[e] = worker[e]
BY Fields

LEMMA RangesStep ==
  ASSUME NEW d \in Devices, WInv, RangesApart, NEW w, worker' = [worker EXCEPT ![d] = w],
         next' \in Nat, next <= next',
         Active(w) => /\ w.task.stop <= next' /\ w.task.start \in Nat /\ w.task.stop \in Nat
                      /\ (Active(worker[d]) /\ w.task = worker[d].task) \/ next <= w.task.start
  PROVE  RangesApart'
<1>1. worker'[d] = w /\ \A e \in Devices : e # d => worker'[e] = worker[e]
  BY Changed
<1>2. next \in Nat
  BY Fields, MultiGpuH3Assumption
<1>3. \A e \in Devices : Active(worker[e]) =>
        /\ worker[e].task.stop <= next /\ worker[e].task.start \in Nat /\ worker[e].task.stop \in Nat
        /\ worker[e].task.stop <= next'
  <2> TAKE e \in Devices
  <2> HAVE Active(worker[e])
  <2>1. worker[e].task \in Tasks
    BY Fields DEF WorksOn, Active
  <2>2. worker[e].task.start \in Nat /\ worker[e].task.stop \in Nat
    BY <2>1, TaskFacts, MultiGpuH3Assumption
  <2>3. worker[e].task.stop <= next
    BY DEF RangesApart
  <2> QED BY <1>2, <2>2, <2>3
<1>4. ASSUME NEW e \in Devices, e # d, Active(worker[e]), Active(w)
      PROVE  Apart(w.task, worker[e].task) /\ Apart(worker[e].task, w.task)
  <2>1. CASE Active(worker[d]) /\ w.task = worker[d].task
    BY <1>4, <2>1 DEF RangesApart, Apart
  <2>2. CASE next <= w.task.start
    BY <1>2, <1>3, <1>4, <2>2 DEF Apart
  <2> QED BY <1>4, <2>1, <2>2
<1> SUFFICES ASSUME NEW e \in Devices, Active(worker'[e])
             PROVE  /\ worker'[e].task.stop <= next'
                    /\ \A f \in Devices : f # e /\ Active(worker'[f]) => Apart(worker'[e].task, worker'[f].task)
  BY DEF RangesApart, Active, Apart
<1>5. worker'[e].task.stop <= next'
  BY <1>1, <1>3
<1>6. ASSUME NEW f \in Devices, f # e, Active(worker'[f])
      PROVE  Apart(worker'[e].task, worker'[f].task)
  <2>1. CASE e = d
    BY <1>1, <1>4, <1>6, <2>1
  <2>2. CASE f = d
    BY <1>1, <1>4, <1>6, <2>2
  <2>3. CASE e # d /\ f # d
    BY <1>1, <1>6, <2>3 DEF RangesApart
  <2> QED BY <2>1, <2>2, <2>3
<1> QED BY <1>5, <1>6

LEMMA TasksStep ==
  ASSUME NEW d \in Devices, WInv, TasksData, NEW w, worker' = [worker EXCEPT ![d] = w],
         NEW dev, cuda' = [cuda EXCEPT ![d] = dev], UNCHANGED <<host, local>>,
         Active(w) => Facts(w.task, dev, Issued(w), Sure(w), host, local[d])
  PROVE  TasksData'
<1>1. worker'[d] = w /\ \A e \in Devices : e # d => worker'[e] = worker[e]
  BY Changed
<1>2. cuda'[d] = dev /\ \A e \in Devices : e # d => cuda'[e] = cuda[e]
  BY Fields
<1>3. host' = host /\ local' = local
  OBVIOUS
<1> SUFFICES ASSUME NEW e \in Devices, Active(worker'[e])
             PROVE  Facts(worker'[e].task, cuda'[e], Issued(worker'[e]), Sure(worker'[e]), host', local'[e])
  <2>1. \A e \in Devices : Active(worker'[e]) =>
          Facts(worker'[e].task, cuda'[e], Issued(worker'[e]), Sure(worker'[e]), host', local'[e])
    OBVIOUS
  <2> QED BY <2>1 DEF TasksData, Active, Issued, Sure
<1>4. CASE e = d
  BY <1>1, <1>2, <1>3, <1>4
<1>5. CASE e # d
  BY <1>1, <1>2, <1>3, <1>5 DEF TasksData
<1> QED BY <1>4, <1>5

LEMMA PlacingStays ==
  ASSUME Placing, UNCHANGED <<host, local>>
  PROVE  Placing'
<1>1. AllHost' = AllHost /\ AllLocal' = AllLocal
  BY DEF AllHost, AllLocal
<1> QED BY <1>1 DEF Placing

\* An exception stays one until the next call.
LEMMA BrokenStep ==
  ASSUME NEW d \in Devices, WInv, NEW w, worker' = [worker EXCEPT ![d] = w],
         failed => failed', worker[d].pc \in Raised => w.pc \in Raised \/ failed'
  PROVE  Broken => Broken'
BY Changed DEF Broken

LEMMA RunningStep ==
  ASSUME NEW d \in Devices, WInv, NEW w, worker' = [worker EXCEPT ![d] = w], NEW r, Running(r)
  PROVE  Running(r)' \/ (worker[d].pc = "run" /\ r \in TaskRows(worker[d].task))
<1>1. worker'[d] = w /\ \A e \in Devices : e # d => worker'[e] = worker[e]
  BY Changed
<1>2. PICK e \in Devices : worker[e].pc = "run" /\ r \in TaskRows(worker[e].task)
  BY DEF Running
<1>3. TaskRows(worker[e].task)' = TaskRows(worker'[e].task)
  BY DEF TaskRows, Slice
<1>4. CASE e = d
  BY <1>2, <1>4
<1>5. CASE e # d
  <2>1. worker'[e] = worker[e]
    BY <1>1, <1>5
  <2> QED BY <1>2, <2>1 DEF Running, TaskRows
<1> QED BY <1>4, <1>5

-----------------------------------------------------------------------------
(* The steps of the calling thread. *)

LEMMA PhaseOver ==
  ASSUME WInv, DInv, Joined, ~failed
  PROVE  \A r \in AllRows : Complete(r)
<1>1. phase # "idle" /\ \A d \in Devices : worker[d].pc = "done"
  BY DEF Joined
<1>2. ~Broken
  BY <1>1 DEF Broken, Raised
<1>3. next = RowCount
  <2>1. PICK d \in Devices : TRUE
    BY MultiGpuH3Assumption
  <2> QED BY <1>1, <1>2, <2>1 DEF DInv, Flow
<1>4. \A r \in AllRows : r < next
  BY <1>3 DEF AllRows, Slice
<1>5. \A r : ~Running(r)
  BY <1>1 DEF Running
<1> QED BY <1>1, <1>2, <1>4, <1>5 DEF DInv, RowsInv, ClaimedRows

LEMMA Started ==
  ASSUME WInv, NEW what, StartWorkers(what)
  PROVE  /\ phase' = what /\ next' = 0 /\ ~cancelled'
         /\ \A d \in Devices : worker'[d].pc = "enter"
         /\ RangesApart' /\ TasksData'
         /\ DOMAIN local' = Devices /\ \A d \in Devices : DOMAIN local'[d] = AllLocal
<1>1. /\ phase' = what /\ next' = 0 /\ ~cancelled' /\ local' = NothingLocal
      /\ worker' = [d \in Devices |-> [worker[d] EXCEPT !.pc = "enter", !.index = 0]]
  BY DEF StartWorkers
<1>2. ASSUME NEW d \in Devices
      PROVE  worker'[d].pc = "enter"
  <2> DEFINE o == worker[d]
  <2>1. o \in Workers /\ worker'[d] = [o EXCEPT !.pc = "enter", !.index = 0]
    BY <1>1, Fields
  <2> HIDE DEF o
  <2> QED BY <2>1 DEF Workers
<1>3. \A d \in Devices : ~Active(worker'[d])
  BY <1>2 DEF Active, Idle
<1>4. RangesApart'
  BY <1>3 DEF RangesApart, Active
<1>5. TasksData'
  <2>1. \A d \in Devices : ~Active(worker[d])'
    BY <1>2 DEF Active, Idle
  <2> QED BY <2>1 DEF TasksData
<1>6. DOMAIN local' = Devices /\ \A d \in Devices : DOMAIN local'[d] = AllLocal
  BY <1>1 DEF NothingLocal, AllLocal
<1> QED BY <1>1, <1>2, <1>4, <1>5, <1>6

\* A phase begins with nothing claimed.
LEMMA PhaseBegins ==
  ASSUME WInv, NEW what \in {"project", "attend"}, StartWorkers(what), outcome' = "running",
         DOMAIN host' = AllHost, WhileProjecting', WhileAttending'
  PROVE  DInv'
<1>1. /\ phase' = what /\ next' = 0 /\ ~cancelled'
      /\ \A d \in Devices : worker'[d].pc = "enter"
      /\ RangesApart' /\ TasksData'
      /\ DOMAIN local' = Devices /\ \A d \in Devices : DOMAIN local'[d] = AllLocal
  BY Started
<1>2. Placing'
  <2>1. AllHost' = AllHost /\ AllLocal' = AllLocal
    BY DEF AllHost, AllLocal
  <2> QED BY <1>1, <2>1 DEF Placing
<1>3. ClaimedRows'
  <2>1. \A r \in AllRows : ~(r < 0)
    BY DEF AllRows, Slice
  <2>2. AllRows' = AllRows
    BY DEF AllRows, Slice
  <2> QED BY <1>1, <2>1, <2>2 DEF ClaimedRows
<1>4. Flow'
  BY <1>1 DEF Flow
<1> QED BY <1>1, <1>2, <1>3, <1>4 DEF DInv, RowsInv

LEMMA GivenRows ==
  /\ DOMAIN Given = AllHost
  /\ \A r \in AllRows : RowIs(Given, r, 0)
<1>1. Given = [l \in AllHost |-> Content(HostRows, l, Wrong)]
  BY DEF Given, AllHost
<1>2. Once(HostRows)
  BY AtHidden, OnceHidden DEF HostRows, Tensor, Hidden0
<1>3. ASSUME NEW r \in AllRows
      PROVE  RowIs(Given, r, 0)
  <2> DEFINE g == <<HRow(r), {<<"video", 0, r>>}>>
  <2>1. g \in HostRows /\ HRow(r) \in AllHost /\ g[1] = HRow(r) /\ g[2] = {<<"video", 0, r>>}
    BY RowPlaces
  <2> HIDE DEF g
  <2>2. Content(HostRows, g[1], Wrong) = g[2]
    BY <1>2, <2>1, ContentIs
  <2> QED BY <1>1, <2>1, <2>2 DEF RowIs
<1> QED BY <1>1, <1>3

LEMMA BeginKeepsDInv ==
  ASSUME WInv, DInv, Begin
  PROVE  DInv'
<1>1. outcome' = "running" /\ block' = 0 /\ host' = Given /\ StartWorkers("project")
  BY DEF Begin
<1>2. phase' = "project"
  BY <1>1 DEF StartWorkers
<1>3. WhileProjecting'
  <2>1. \A r \in AllRows : RowIs(host', r, block')
    BY <1>1, GivenRows
  <2> QED BY <2>1 DEF WhileProjecting, RowIs, AllRows, Slice, HRow, Hidden0
<1>4. WhileAttending'
  BY <1>2 DEF WhileAttending
<1> QED BY <1>1, <1>3, <1>4, GivenRows, PhaseBegins

LEMMA StartAttentionKeepsDInv ==
  ASSUME WInv, DInv, StartAttention
  PROVE  DInv'
<1>1. /\ Joined /\ ~failed /\ phase = "project" /\ StartWorkers("attend")
      /\ UNCHANGED <<outcome, block, host>>
  BY DEF StartAttention
<1>2. \A r \in AllRows : ArenaIs(host, r, block + 1) /\ RowIs(host, r, block)
  BY <1>1, PhaseOver DEF Complete, DInv, RowsInv, WhileProjecting
<1>3. phase' = "attend"
  BY <1>1 DEF StartWorkers
<1>4. WhileAttending'
  <2>1. \A r \in AllRows : ArenaIs(host', r, block' + 1) /\ RowIs(host', r, block')
    BY <1>1, <1>2
  <2> QED BY <2>1 DEF WhileAttending, RowIs, ArenaIs, AllRows, Slice, HRow, Hidden0, ArenaRow, ArenaTensor
<1>5. WhileProjecting'
  BY <1>3 DEF WhileProjecting
<1>6. outcome' = "running" /\ DOMAIN host' = AllHost
  BY <1>1 DEF DInv, Flow, Placing
<1> QED BY <1>1, <1>4, <1>5, <1>6, PhaseBegins

LEMMA StartBlockKeepsDInv ==
  ASSUME WInv, DInv, StartBlock
  PROVE  DInv'
<1>1. /\ Joined /\ ~failed /\ phase = "attend" /\ StartWorkers("project")
      /\ UNCHANGED <<outcome, host>> /\ block' = block + 1
  BY DEF StartBlock
<1>2. \A r \in AllRows : RowIs(host, r, block + 1)
  BY <1>1, PhaseOver DEF Complete
<1>3. phase' = "project"
  BY <1>1 DEF StartWorkers
<1>4. WhileProjecting'
  <2>1. \A r \in AllRows : RowIs(host', r, block')
    BY <1>1, <1>2
  <2> QED BY <2>1 DEF WhileProjecting, RowIs, AllRows, Slice, HRow, Hidden0
<1>5. WhileAttending'
  BY <1>3 DEF WhileAttending
<1>6. outcome' = "running" /\ DOMAIN host' = AllHost
  BY <1>1 DEF DInv, Flow, Placing
<1> QED BY <1>1, <1>4, <1>5, <1>6, PhaseBegins

LEMMA EndOfCallKeepsDInv ==
  ASSUME WInv, DInv, End
  PROVE  DInv'
<1>1. /\ Joined /\ phase' = "idle" /\ outcome' \in {"raised", "returned"}
      /\ UNCHANGED <<worker, host, local>>
  BY DEF End
<1>2. \A d \in Devices : worker[d].pc = "done" /\ worker'[d].pc = "done"
  BY <1>1 DEF Joined
<1>3. RangesApart' /\ TasksData'
  <2>1. \A d \in Devices : ~Active(worker[d])'
    BY <1>2 DEF Active, Idle
  <2> QED BY <2>1 DEF RangesApart, TasksData
<1>4. Placing'
  BY <1>1, PlacingStays DEF DInv
<1>5. RowsInv' /\ Flow'
  BY <1>1 DEF RowsInv, WhileProjecting, WhileAttending, ClaimedRows, Flow
<1> QED BY <1>3, <1>4, <1>5 DEF DInv

-----------------------------------------------------------------------------
(* The steps of a worker. *)

\* The rows and what the phase made of them stay.
LEMMA SameRows ==
  ASSUME UNCHANGED <<phase, block, host>>
  PROVE  /\ AllRows' = AllRows
         /\ \A r : (Complete(r)' <=> Complete(r))
         /\ WhileProjecting => WhileProjecting'
         /\ WhileAttending /\ (\A r \in AllRows : r >= next' => r >= next) => WhileAttending'
<1>1. AllRows' = AllRows
  BY DEF AllRows, Slice
<1>2. \A r : Complete(r)' <=> Complete(r)
  BY DEF Complete, ArenaIs, RowIs, ArenaRow, HRow, ArenaTensor, Hidden0
<1>3. WhileProjecting => WhileProjecting'
  BY <1>1 DEF WhileProjecting, RowIs, HRow, Hidden0
<1>4. WhileAttending /\ (\A r \in AllRows : r >= next' => r >= next) => WhileAttending'
  BY <1>1 DEF WhileAttending, RowIs, HRow, Hidden0, ArenaIs, ArenaRow, ArenaTensor
<1> QED BY <1>1, <1>2, <1>3, <1>4

LEMMA RowsStep ==
  ASSUME NEW d \in Devices, WInv, RowsInv, NEW w, worker' = [worker EXCEPT ![d] = w],
         UNCHANGED <<phase, block, host, next>>, Broken => Broken',
         worker[d].pc = "run" =>
           \/ w.pc = "run" /\ w.task = worker[d].task
           \/ Broken'
           \/ \A r \in TaskRows(worker[d].task) : Complete(r)
  PROVE  RowsInv'
<1>1. /\ AllRows' = AllRows /\ \A r : (Complete(r)' <=> Complete(r))
      /\ WhileProjecting' /\ WhileAttending'
  BY SameRows DEF RowsInv
<1>2. ASSUME NEW r, Running(r)
      PROVE  Broken' \/ Complete(r) \/ Running(r)'
  <2>1. CASE worker[d].pc = "run" /\ r \in TaskRows(worker[d].task) /\ w.pc = "run" /\ w.task = worker[d].task
    <3>1. worker'[d].pc = "run" /\ worker'[d].task = worker[d].task
      BY <2>1, Changed
    <3> QED BY <2>1, <3>1 DEF Running, TaskRows
  <2> QED BY <1>2, <2>1, RunningStep
<1>3. ASSUME phase # "idle", NEW r \in AllRows, r < next
      PROVE  Broken' \/ Complete(r) \/ Running(r)'
  <2>1. Broken \/ Complete(r) \/ Running(r)
    BY <1>3 DEF RowsInv, ClaimedRows
  <2> QED BY <1>2, <2>1
<1>4. ClaimedRows'
  BY <1>1, <1>3 DEF ClaimedRows
<1> QED BY <1>1, <1>4 DEF RowsInv

LEMMA FlowStep ==
  ASSUME NEW d \in Devices, WInv, Flow, NEW w, worker' = [worker EXCEPT ![d] = w],
         UNCHANGED <<phase, outcome, next>>, Broken => Broken', cancelled' => cancelled \/ Broken',
         w.pc = "done" => Broken' \/ next = RowCount \/ worker[d].pc = "done"
  PROVE  Flow'
<1>1. worker'[d] = w /\ \A e \in Devices : e # d => worker'[e] = worker[e]
  BY Changed
<1>2. ASSUME phase # "idle", ~Broken', NEW e \in Devices, worker'[e].pc = "done"
      PROVE  next = RowCount
  BY <1>1, <1>2 DEF Flow
<1> QED BY <1>2 DEF Flow

\* A worker that takes no task and had none.
LEMMA IdleKeepsDInv ==
  ASSUME NEW d \in Devices, WInv, DInv, NEW w, worker' = [worker EXCEPT ![d] = w],
         w.pc \in Idle, worker[d].pc \in Idle,
         UNCHANGED <<outcome, phase, block, next, cancelled, failed, cuda, host, local>>,
         w.pc = "done" => Broken \/ next = RowCount
  PROVE  DInv'
<1>1. ~Active(w) /\ w.pc \notin Raised /\ worker[d].pc # "run" /\ worker[d].pc \notin Raised
  BY DEF Active, Idle, Raised
<1>2. Broken => Broken'
  BY <1>1, BrokenStep
<1>3. next' \in Nat /\ next <= next'
  BY Fields, MultiGpuH3Assumption
<1>4. RangesApart'
  BY <1>1, <1>3, RangesStep DEF DInv
<1>5. TasksData'
  <2>1. cuda' = [cuda EXCEPT ![d] = cuda[d]]
    BY Fields
  <2> QED BY <1>1, <2>1, TasksStep DEF DInv
<1>6. RowsInv'
  BY <1>1, <1>2, RowsStep DEF DInv
<1>7. Flow'
  BY <1>2, FlowStep DEF DInv
<1> QED BY <1>4, <1>5, <1>6, <1>7, PlacingStays DEF DInv

LEMMA EnterKeepsDInv ==
  ASSUME NEW d \in Devices, WInv, DInv, Enter(d)
  PROVE  DInv'
<1> DEFINE o == worker[d]
           w == [o EXCEPT !.pc = "claim", !.leases = {LeaseOf(phase)}]
<1>1. o \in Workers /\ o.pc = "enter"
  BY Fields DEF Enter
<1>2. worker' = [worker EXCEPT ![d] = w]
  BY DEF Enter
<1> HIDE DEF o
<1>3. w.pc = "claim"
  BY <1>1 DEF Workers
<1> HIDE DEF w
<1>4. UNCHANGED <<outcome, phase, block, next, cancelled, failed, cuda, host, local>>
  BY DEF Enter
<1>5. w.pc \in Idle /\ worker[d].pc \in Idle /\ w.pc # "done"
  BY <1>1, <1>3 DEF Idle, o
<1> QED BY <1>2, <1>4, <1>5, IdleKeepsDInv

LEMMA FinishKeepsDInv ==
  ASSUME NEW d \in Devices, WInv, DInv, Finish(d)
  PROVE  DInv'
<1> DEFINE o == worker[d]
           w == [o EXCEPT !.pc = "done", !.leases = {}, !.task = NoTask, !.at = 0]
<1>1. o \in Workers /\ o.pc = "claim" /\ next \in 0 .. RowCount
  BY Fields DEF Finish
<1>2. worker' = [worker EXCEPT ![d] = w]
  BY DEF Finish
<1>3. phase # "idle" /\ (cancelled \/ next >= RowCount)
  BY <1>1, Fields DEF Finish, WorksOn
<1> HIDE DEF o
<1>4. w.pc = "done"
  BY <1>1 DEF Workers
<1> HIDE DEF w
<1>5. UNCHANGED <<outcome, phase, block, next, cancelled, failed, cuda, host, local>>
  BY DEF Finish
<1>6. w.pc \in Idle /\ worker[d].pc \in Idle
  BY <1>1, <1>4 DEF Idle, o
<1>7. Broken \/ next = RowCount
  <2>1. cancelled => Broken
    BY <1>3 DEF DInv, Flow
  <2> QED BY <1>1, <1>3, <2>1, MultiGpuH3Assumption
<1> QED BY <1>2, <1>5, <1>6, <1>7, IdleKeepsDInv

LEMMA RowsOfTask ==
  ASSUME NEW t \in Tasks
  PROVE  /\ TaskRows(t) \subseteq AllRows
         /\ \A r \in AllRows : r \in TaskRows(t) <=> t.start <= r /\ r < t.stop
         /\ t.start \in Nat /\ t.stop \in Nat /\ AllRows \subseteq Nat
BY TaskFacts, MultiGpuH3Assumption DEF TaskRows, AllRows, Slice

LEMMA ClaimKeepsDInv ==
  ASSUME NEW d \in Devices, WInv, DInv, Claim(d)
  PROVE  DInv'
<1> DEFINE o == worker[d]
<1>1. /\ o \in Workers /\ o.pc = "claim" /\ phase # "idle" /\ next < RowCount /\ next \in 0 .. RowCount
      /\ ~cancelled
  BY Fields DEF Claim, WorksOn
<1>2. PICK size \in Sizes :
        /\ next' = next + size
        /\ worker' = [worker EXCEPT
             ![d].pc = "run", ![d].at = 1,
             ![d].task = [do |-> phase, block |-> block, start |-> next, stop |-> next + size,
                          slot |-> worker[d].index % OutputBuffers]]
  BY DEF Claim
<1> DEFINE t == [do |-> phase, block |-> block, start |-> next, stop |-> next + size,
                 slot |-> worker[d].index % OutputBuffers]
           w == [o EXCEPT !.pc = "run", !.at = 1, !.task = t]
<1>3. t \in Tasks /\ next + size \in 0 .. RowCount /\ size \in Nat \ {0}
  BY <1>1, ClaimedTask
<1>4. t.do = phase /\ t.block = block /\ t.start = next /\ t.stop = next'
  BY <1>2
<1>5. worker' = [worker EXCEPT ![d] = w]
  BY <1>2
<1> HIDE DEF t, o
<1>6. w.pc = "run" /\ w.task = t /\ w.at = 1
  BY <1>1 DEF Workers
<1> HIDE DEF w
<1>7. /\ next \in Nat /\ next' \in Nat /\ next <= next'
      /\ UNCHANGED <<outcome, phase, block, cancelled, failed, cuda, host, local>>
  BY <1>1, <1>2, <1>3, MultiGpuH3Assumption DEF Claim
<1>8. RangesApart'
  <2>1. w.task.stop <= next' /\ w.task.start \in Nat /\ w.task.stop \in Nat /\ next <= w.task.start
    BY <1>3, <1>4, <1>6, <1>7, RowsOfTask
  <2>2. RangesApart
    BY DEF DInv
  <2> QED BY <1>5, <1>7, <2>1, <2>2, RangesStep
<1>9. TasksData'
  <2>1. t.do = "attend" => \A r \in TaskRows(t) : RowIs(host, r, t.block)
    <3>1. \A r \in TaskRows(t) : r \in AllRows /\ r >= next
      BY <1>3, <1>4, <1>7, RowsOfTask
    <3> QED BY <1>4, <3>1 DEF DInv, RowsInv, WhileAttending
  <2>2. Facts(t, cuda[d], 0, 0, host, local[d])
    BY <1>3, <2>1, FactsAtClaim
  <2>3. Issued(w) = 0 /\ Sure(w) = 0
    BY <1>6 DEF Issued, Sure
  <2>4. cuda' = [cuda EXCEPT ![d] = cuda[d]]
    BY <1>7, Fields
  <2>5. Facts(w.task, cuda[d], Issued(w), Sure(w), host, local[d])
    BY <1>6, <2>2, <2>3
  <2>6. TasksData /\ UNCHANGED <<host, local>>
    BY <1>7 DEF DInv
  <2> QED BY <1>5, <2>4, <2>5, <2>6, TasksStep
<1>10. Broken => Broken'
  BY <1>1, <1>5, <1>7, BrokenStep DEF Raised, o
<1>11. RowsInv'
  <2>1. \A r \in AllRows : r \in Nat /\ (r >= next' => r >= next)
    BY <1>3, <1>7, RowsOfTask
  <2>2. /\ AllRows' = AllRows /\ \A r : (Complete(r)' <=> Complete(r))
        /\ WhileProjecting' /\ WhileAttending'
    BY <1>7, <2>1, SameRows DEF DInv, RowsInv
  <2>3. ASSUME NEW r \in AllRows, r < next'
        PROVE  Broken' \/ Complete(r) \/ Running(r)'
    <3>1. CASE r < next
      <4>1. Broken \/ Complete(r) \/ Running(r)
        BY <1>1, <3>1 DEF DInv, RowsInv, ClaimedRows
      <4>2. Running(r) => Running(r)'
        BY <1>1, <1>5, RunningStep DEF o
      <4> QED BY <1>10, <4>1, <4>2
    <3>2. CASE ~(r < next)
      <4>1. r \in TaskRows(t)
        BY <1>3, <1>4, <1>7, <2>1, <2>3, <3>2, RowsOfTask
      <4>2. worker'[d].pc = "run" /\ worker'[d].task = t
        BY <1>5, <1>6, Changed
      <4> QED BY <4>1, <4>2 DEF Running, TaskRows
    <3> QED BY <3>1, <3>2
  <2>4. ClaimedRows'
    BY <2>2, <2>3 DEF ClaimedRows
  <2> QED BY <2>2, <2>4 DEF RowsInv
<1>12. Flow'
  <2>1. worker'[d] = w /\ \A e \in Devices : e # d => worker'[e] = worker[e]
    BY <1>5, Changed
  <2>2. ~Broken' => \A e \in Devices : worker'[e].pc # "done"
    <3>1. next # RowCount
      BY <1>1, <1>7, MultiGpuH3Assumption
    <3> QED BY <1>1, <1>6, <1>10, <2>1, <3>1 DEF DInv, Flow
  <2> QED BY <1>1, <1>7, <2>2 DEF DInv, Flow
<1> QED BY <1>7, <1>8, <1>9, <1>11, <1>12, PlacingStays DEF DInv

\* A worker goes on with its task, or raises in it.
LEMMA TaskKeepsDInv ==
  ASSUME NEW d \in Devices, WInv, DInv, NEW w, worker' = [worker EXCEPT ![d] = w],
         Active(worker[d]), Active(w), w.task = worker[d].task,
         worker[d].pc \in Raised => w.pc \in Raised,
         w.pc = "run" \/ Broken', cancelled' => cancelled \/ Broken', failed => failed',
         NEW dev, cuda' = [cuda EXCEPT ![d] = dev],
         UNCHANGED <<outcome, phase, block, next, host, local>>,
         Facts(w.task, dev, Issued(w), Sure(w), host, local[d])
  PROVE  DInv'
<1>1. Broken => Broken'
  BY BrokenStep
<1>2. next' \in Nat /\ next <= next' /\ w.pc # "done"
  BY Fields, MultiGpuH3Assumption DEF Active, Idle
<1>3. RangesApart'
  <2>1. w.task \in Tasks
    BY Fields DEF Active, WorksOn
  <2>2. w.task.start \in Nat /\ w.task.stop \in Nat /\ w.task.stop <= next'
    BY <2>1, RowsOfTask DEF DInv, RangesApart
  <2> QED BY <1>2, <2>2, RangesStep DEF DInv
<1>4. TasksData'
  BY TasksStep DEF DInv
<1>5. RowsInv'
  BY <1>1, RowsStep DEF DInv
<1>6. Flow'
  BY <1>1, <1>2, FlowStep DEF DInv
<1> QED BY <1>3, <1>4, <1>5, <1>6, PlacingStays DEF DInv

LEMMA FactsOf ==
  ASSUME NEW d \in Devices, WInv, DInv, Active(worker[d])
  PROVE  Facts(worker[d].task, cuda[d], Issued(worker[d]), Sure(worker[d]), host, local[d])
BY DEF DInv, TasksData

\* The k-th operation of a task is enqueued, or raises before it is: the facts
\* of the task stay what they were.
LEMMA FactsNext ==
  ASSUME NEW t \in Tasks, NEW k \in 1 .. Size(t) - 1, NEW dev, NEW h, NEW loc,
         Facts(t, dev, k - 1, k - 1, h, loc), NEW new, NEW m,
         \A i : Queued(new, i) => Queued(dev, i) \/ i = k,
         \A i : Queued(dev, i) => Queued(new, i),
         m = k - 1 \/ (m = k /\ Queued(new, k))
  PROVE  Facts(t, new, k, m, h, loc)
<1> DEFINE j == k - 1
<1>1. j = k - 1 /\ k \in 1 .. 9 /\ j \in Nat
  BY SizeFacts
<1>2. m = j \/ (m = k /\ Queued(new, k))
  OBVIOUS
<1> HIDE DEF j
<1>3. Facts(t, dev, j, j, h, loc)
  BY <1>1
<1>4. \A i \in 1 .. 9 : Done(new, m, i) => Done(dev, j, i)
  BY <1>1, <1>2 DEF Done
<1>5. \A i \in 1 .. 9 : Pending(new, k, i) => Pending(dev, j, i)
  BY <1>1 DEF Pending
<1>6. \A i \in {4, 5} : Queued(new, i) => Queued(dev, i) \/ Pending(dev, j, 6)
  BY <1>1 DEF Pending
<1> QED BY <1>3, <1>4, <1>5, <1>6, FactsWhenIssued

\* The task a running worker is in.
LEMMA RunFields ==
  ASSUME NEW d \in Devices, WInv, worker[d].pc = "run"
  PROVE  /\ worker[d] \in Workers /\ worker[d].task \in Tasks /\ worker[d].task.do = phase
         /\ worker[d].task.block = block /\ phase # "idle"
         /\ worker[d].at \in 1 .. Size(worker[d].task)
         /\ Executes(cuda[d], worker[d].task, worker[d].at - 1, worker[d].at - 1)
         /\ Active(worker[d]) /\ Issued(worker[d]) = worker[d].at - 1 /\ Sure(worker[d]) = worker[d].at - 1
         /\ Instruction(d) = Act(worker[d].task, worker[d].at)
         /\ Instruction(d).do = "op" => worker[d].at \in 1 .. Size(worker[d].task) - 1
<1> DEFINE o == worker[d]
<1>1. o \in Workers /\ WorksOn(o, cuda[d], phase, block) /\ o.pc = "run"
  BY Fields
<1> HIDE DEF o
<1>2. /\ o.task \in Tasks /\ o.task.do = phase /\ o.task.block = block /\ phase # "idle"
      /\ o.at \in 1 .. Size(o.task) /\ Executes(cuda[d], o.task, o.at - 1, o.at - 1)
  BY <1>1 DEF WorksOn, Idle
<1>3. Act(o.task, o.at).do = "op" => o.at \in 1 .. Size(o.task) - 1
  <2>1. Act(o.task, Size(o.task)).do = "wait"
    BY <1>2, LastIsWait
  <2> QED BY <1>2, <2>1, SizeFacts
<1>4. Active(o) /\ Issued(o) = o.at - 1 /\ Sure(o) = o.at - 1
  BY <1>1 DEF Active, Idle, Issued, Sure
<1>5. Instruction(d) = Act(o.task, o.at)
  BY DEF Instruction, Act, o
<1> QED BY <1>1, <1>2, <1>3, <1>4, <1>5 DEF o

LEMMA IssueKeepsDInv ==
  ASSUME NEW d \in Devices, WInv, DInv, Issue(d)
  PROVE  DInv'
<1> DEFINE o == worker[d]
           t == o.task
           k == o.at
           flagged == o.pending
           dev == EnqueuedOn(cuda[d], t, k, flagged, Act(t, k).records)
           pending == o.pending \cup Act(t, k).flags
           w == Moved(d, pending)
<1>1. /\ o \in Workers /\ t \in Tasks /\ k \in 1 .. Size(t) - 1 /\ o.pc = "run"
      /\ Executes(cuda[d], t, k - 1, k - 1) /\ Active(o) /\ Issued(o) = k - 1 /\ Sure(o) = k - 1
  BY RunFields DEF Issue
<1>2. \A i : Queued(dev, i) <=> Queued(cuda[d], i) \/ i = k
  <2> HIDE DEF t, k, flagged
  <2> QED BY <1>1, GivenExecutes
<1>3. cuda' = [cuda EXCEPT ![d] = dev] /\ worker' = [worker EXCEPT ![d] = w]
  <2>1. cuda' = [cuda EXCEPT ![d] = dev]
    BY DEF Issue, Enqueue, Instruction, Act, EnqueuedOn
  <2>2. /\ worker' = [worker EXCEPT ![d] = [Advanced(d) EXCEPT !.pending = @ \cup Act(t, k).flags]]
        /\ Advanced(d).pending = o.pending
    BY <1>1, AdvancedPending, Fields DEF Issue, Instruction, Act
  <2> HIDE DEF t, k, o, dev
  <2>3. worker' = [worker EXCEPT ![d] = w]
    BY Zenon, <2>2 DEF Moved
  <2> QED BY <2>1, <2>3
<1>4. pending \in SUBSET AllFlags
  BY <1>1, ActFlags DEF Workers
<1> HIDE DEF pending, dev
<1>5. w.pc = "run" /\ w.at = k + 1 /\ w.task = t
  <2>1. TypeOK /\ k < Size(t) /\ WorksOn(worker[d], cuda[d], phase, block)
    BY <1>1, SizeFacts, Fields DEF WInv
  <2> QED BY <1>1, <1>4, <2>1, AdvancedWorker
<1> HIDE DEF w
<1>6. Facts(t, cuda[d], k - 1, k - 1, host, local[d])
  BY <1>1, FactsOf
<1> HIDE DEF o, k, t
<1>7. Facts(t, dev, k, k, host, local[d])
  BY <1>1, <1>2, <1>6, FactsNext
<1>8. Active(w) /\ Issued(w) = k /\ Sure(w) = k
  BY <1>1, <1>5, SizeFacts DEF Active, Idle, Issued, Sure
<1>9. Facts(w.task, dev, Issued(w), Sure(w), host, local[d])
  BY <1>5, <1>7, <1>8
<1>10. UNCHANGED <<outcome, phase, block, next, cancelled, failed, host, local>>
  BY DEF Issue
<1>11. Active(worker[d]) /\ w.task = worker[d].task /\ worker[d].pc \notin Raised
  BY <1>1, <1>5 DEF o, t, Raised
<1> QED BY <1>3, <1>5, <1>8, <1>9, <1>10, <1>11, TaskKeepsDInv

LEMMA RaiseKeepsDInv ==
  ASSUME NEW d \in Devices, WInv, DInv, Raise(d)
  PROVE  DInv'
<1> DEFINE o == worker[d]
           t == o.task
           k == o.at
           flagged == o.pending
           launched(records) == EnqueuedOn(cuda[d], t, k, flagged, records)
           w == [o EXCEPT !.pc = "raised"]
<1>1. /\ o \in Workers /\ t \in Tasks /\ k \in 1 .. Size(t) - 1 /\ o.pc = "run"
      /\ Executes(cuda[d], t, k - 1, k - 1) /\ Active(o) /\ Issued(o) = k - 1 /\ Sure(o) = k - 1
  BY RunFields DEF Raise
<1>2. PICK dev : /\ cuda' = [cuda EXCEPT ![d] = dev]
                 /\ \A i : Queued(dev, i) => Queued(cuda[d], i) \/ i = k
                 /\ \A i : Queued(cuda[d], i) => Queued(dev, i)
  <2>1. CASE UNCHANGED cuda
    <3>1. cuda' = [cuda EXCEPT ![d] = cuda[d]]
      BY <2>1, Fields
    <3> QED BY <3>1
  <2>2. CASE \E records \in {{}, Act(t, k).records} : cuda' = [cuda EXCEPT ![d] = launched(records)]
    <3>1. PICK records \in {{}, Act(t, k).records} : cuda' = [cuda EXCEPT ![d] = launched(records)]
      BY <2>2
    <3>2. \A i : Queued(launched(records), i) <=> Queued(cuda[d], i) \/ i = k
      <4> HIDE DEF t, k, flagged
      <4> QED BY <1>1, GivenExecutes
    <3> HIDE DEF launched
    <3> QED BY <3>1, <3>2
  <2>3. UNCHANGED cuda \/ \E records \in {{}, Act(t, k).records} : cuda' = [cuda EXCEPT ![d] = launched(records)]
    BY DEF Raise, Enqueue, Instruction, Act, EnqueuedOn
  <2> QED BY <2>1, <2>2, <2>3
<1>3. worker' = [worker EXCEPT ![d] = w]
  BY DEF Raise
<1>4. Facts(t, cuda[d], k - 1, k - 1, host, local[d])
  BY <1>1, FactsOf
<1> HIDE DEF o, k, t
<1>5. w.pc = "raised" /\ w.at = k /\ w.task = t
  BY <1>1 DEF Workers, k, t
<1> HIDE DEF w
<1>6. Facts(t, dev, k, k - 1, host, local[d])
  <2> DEFINE m == k - 1
  <2>1. m = k - 1
    OBVIOUS
  <2> HIDE DEF m
  <2>2. Facts(t, dev, k, m, host, local[d])
    BY <1>1, <1>2, <1>4, <2>1, FactsNext
  <2> QED BY <2>1, <2>2
<1>7. Active(w) /\ Issued(w) = k /\ Sure(w) = k - 1 /\ w.pc \in Raised
  BY <1>5 DEF Active, Idle, Issued, Sure, Raised
<1>8. Facts(w.task, dev, Issued(w), Sure(w), host, local[d])
  BY <1>5, <1>6, <1>7
<1>9. UNCHANGED <<outcome, phase, block, next, cancelled, failed, host, local>>
  BY DEF Raise
<1>10. Active(worker[d]) /\ w.task = worker[d].task
  BY <1>1, <1>5 DEF o, t
<1>11. Broken'
  BY <1>3, <1>7, Changed DEF Broken
<1> QED BY <1>2, <1>3, <1>7, <1>8, <1>9, <1>10, <1>11, TaskKeepsDInv

LEMMA UnwindKeepsDInv ==
  ASSUME NEW d \in Devices, WInv, DInv, UnwindProjection(d)
  PROVE  DInv'
<1> DEFINE o == worker[d]
           w == [o EXCEPT !.pc = "recover", !.leases = {}]
<1>1. o \in Workers /\ o.pc = "raised"
  BY Fields DEF UnwindProjection
<1>2. worker' = [worker EXCEPT ![d] = w]
  BY DEF UnwindProjection
<1> HIDE DEF o
<1>3. w.pc = "recover" /\ w.at = o.at /\ w.task = o.task
  BY <1>1 DEF Workers
<1> HIDE DEF w
<1>4. /\ Active(o) /\ Active(w) /\ Issued(w) = Issued(o) /\ Sure(w) = Sure(o) /\ w.pc \in Raised
  BY <1>1, <1>3 DEF Active, Idle, Issued, Sure, Raised
<1>5. Facts(w.task, cuda[d], Issued(w), Sure(w), host, local[d])
  BY <1>3, <1>4, FactsOf DEF o
<1>6. UNCHANGED <<outcome, phase, block, next, failed, cuda, host, local>>
  BY DEF UnwindProjection
<1>7. Broken'
  BY <1>2, <1>4, Changed DEF Broken
<1>8. cuda' = [cuda EXCEPT ![d] = cuda[d]]
  BY <1>6, Fields
<1> QED BY <1>2, <1>3, <1>4, <1>5, <1>6, <1>7, <1>8, TaskKeepsDInv DEF o

\* A worker leaves its task.
LEMMA LeaveKeepsDInv ==
  ASSUME NEW d \in Devices, WInv, DInv, NEW w, worker' = [worker EXCEPT ![d] = w], w.pc \in Idle,
         UNCHANGED <<outcome, phase, block, next, cuda, host, local>>,
         worker[d].pc \in Raised => failed', failed => failed', cancelled' => cancelled \/ failed',
         w.pc = "done" => failed',
         worker[d].pc = "run" => \A r \in TaskRows(worker[d].task) : Complete(r)
  PROVE  DInv'
<1>1. (Broken => Broken') /\ (failed' => Broken')
  BY BrokenStep DEF Broken
<1>2. next' \in Nat /\ next <= next' /\ ~Active(w)
  BY Fields, MultiGpuH3Assumption DEF Active
<1>3. RangesApart'
  BY <1>2, RangesStep DEF DInv
<1>4. TasksData'
  <2>1. cuda' = [cuda EXCEPT ![d] = cuda[d]]
    BY Fields
  <2> QED BY <1>2, <2>1, TasksStep DEF DInv
<1>5. RowsInv'
  BY <1>1, RowsStep DEF DInv
<1>6. Flow'
  BY <1>1, FlowStep DEF DInv
<1> QED BY <1>3, <1>4, <1>5, <1>6, PlacingStays DEF DInv

LEMMA RecoverKeepsDInv ==
  ASSUME NEW d \in Devices, WInv, DInv, RecoverProjectionWorker(d) \/ RecoverAttentionWorker(d)
  PROVE  DInv'
<1> DEFINE o == worker[d]
           clears == Recovery(d).clears
           w == [o EXCEPT !.pc = "done", !.leases = {}, !.task = NoTask, !.at = 0,
                          !.pending = @ \ clears]
<1>1. o \in Workers /\ o.pc \in Raised /\ failed'
  BY Fields DEF RecoverProjectionWorker, RecoverAttentionWorker, Raised
<1>2. worker' = [worker EXCEPT ![d] = w]
  BY DEF RecoverProjectionWorker, RecoverAttentionWorker, Ended
<1> HIDE DEF o, clears
<1>3. w.pc = "done"
  BY <1>1 DEF Workers
<1> HIDE DEF w
<1>4. w.pc \in Idle /\ worker[d].pc # "run"
  BY <1>1, <1>3 DEF Idle, Raised, o
<1>5. UNCHANGED <<outcome, phase, block, next, cuda, host, local>>
  BY DEF RecoverProjectionWorker, RecoverAttentionWorker
<1> QED BY <1>1, <1>2, <1>4, <1>5, LeaveKeepsDInv

\* A task that is waited for has done its part of the phase.
LEMMA TaskDoneIsComplete ==
  ASSUME NEW t \in Tasks, t.do = phase, t.block = block, NEW dev, Quiet(dev), NEW loc,
         Facts(t, dev, Size(t) - 1, Size(t) - 1, host, loc)
  PROVE  \A r \in TaskRows(t) : Complete(r)
<1>1. \A i : ~Queued(dev, i)
  <2>1. \A s \in AllStreams : dev.queue[s] = <<>>
    BY DEF Quiet, Cuda!Drained, Devs
  <2>2. \A s \in AllStreams : 1 .. Len(dev.queue[s]) = {}
    BY <2>1
  <2> QED BY <2>2 DEF Queued
<1>2. CASE t.do = "project"
  <2>1. Done(dev, Size(t) - 1, 3)
    BY <1>1, <1>2 DEF Done, Size
  <2> QED BY <1>2, <2>1 DEF Facts, ProjectFacts, Complete, V
<1>3. CASE t.do = "attend"
  <2>1. Done(dev, Size(t) - 1, 6)
    BY <1>1, <1>3 DEF Done, Size
  <2> QED BY <1>3, <2>1 DEF Facts, AttendFacts, Complete, V
<1> QED BY <1>2, <1>3, TaskFacts

LEMMA WaitKeepsDInv ==
  ASSUME NEW d \in Devices, WInv, DInv, WaitFor(d)
  PROVE  DInv'
<1> DEFINE o == worker[d]
           t == o.task
           k == o.at
           pending == o.pending \ Act(t, k).clears
           w == Moved(d, pending)
<1>1. /\ o \in Workers /\ t \in Tasks /\ t.do = phase /\ t.block = block /\ o.pc = "run"
      /\ Active(o) /\ Issued(o) = k - 1 /\ Sure(o) = k - 1
  BY RunFields DEF WaitFor
<1>2. k = Size(t) /\ Quiet(cuda[d])
  BY WaitKeepsWInv
<1>3. worker' = [worker EXCEPT ![d] = w]
  <2>1. /\ worker' = [worker EXCEPT ![d] = [Advanced(d) EXCEPT !.pending = @ \ Act(t, k).clears]]
        /\ Advanced(d).pending = o.pending
    BY <1>1, AdvancedPending, Fields DEF WaitFor, Instruction, Act
  <2> HIDE DEF t, k, o
  <2> QED BY Zenon, <2>1 DEF Moved
<1>4. pending \in SUBSET AllFlags
  BY <1>1 DEF Workers
<1> HIDE DEF pending
<1>5. w.pc = "claim"
  <2>1. TypeOK /\ WorksOn(worker[d], cuda[d], phase, block)
    BY Fields DEF WInv
  <2> QED BY <1>1, <1>2, <1>4, <2>1, AdvancedWorker
<1> HIDE DEF w
<1>6. Facts(t, cuda[d], k - 1, k - 1, host, local[d])
  BY <1>1, FactsOf
<1> HIDE DEF o, k, t
<1>7. \A r \in TaskRows(t) : Complete(r)
  BY <1>1, <1>2, <1>6, TaskDoneIsComplete
<1>8. UNCHANGED <<outcome, phase, block, next, cancelled, failed, cuda, host, local>>
  BY DEF WaitFor
<1>9. w.pc \in Idle /\ w.pc # "done" /\ worker[d].pc \notin Raised
  BY <1>1, <1>5 DEF Idle, Raised, o
<1> QED BY <1>3, <1>7, <1>8, <1>9, LeaveKeepsDInv DEF o, t

-----------------------------------------------------------------------------
(* The steps of a device. *)

\* What the step of a device does to the rows.
LEMMA DeviceRows ==
  ASSUME NEW d \in Devices, WInv, DInv, NEW s \in AllStreams, DeviceStep(d, s)
  PROVE  /\ Active(worker[d]) /\ worker[d].task \in Tasks
         /\ worker[d].task.do = phase /\ worker[d].task.block = block /\ phase # "idle"
         /\ Placing' /\ \A e \in Devices : e # d => local'[e] = local[e]
         /\ Facts(worker[d].task, cuda'[d], Issued(worker[d]), Sure(worker[d]), host', local'[d])
         /\ \A r \in AllRows : ArenaIs(host, r, block + 1) => ArenaIs(host', r, block + 1)
         /\ \A r \in AllRows : r \notin TaskRows(worker[d].task) => host'[HRow(r)] = host[HRow(r)]
         /\ \/ \A r \in AllRows : host'[HRow(r)] = host[HRow(r)]
            \/ phase = "attend" /\ \A r \in TaskRows(worker[d].task) : RowIs(host, r, block) /\ RowIs(host', r, block + 1)
<1> DEFINE o == worker[d]
           t == o.task
           dev == cuda[d]
           new == Cuda!Performed(dev, s)
           m == o.at - 1
           p == IndexAt(dev, s, 1)
<1>1. Cuda!CanPerform(dev, s) /\ cuda' = [cuda EXCEPT ![d] = new]
  BY DEF DeviceStep
<1>2. /\ o.pc \in {"run"} \cup Raised /\ t \in Tasks /\ t.do = phase /\ t.block = block
  BY <1>1, DeviceExecutes
<1>3. PICK n \in 0 .. Size(t) - 1 :
        m \in Nat /\ m <= n /\ n = (IF o.pc = "run" THEN m ELSE m + 1) /\ Executes(dev, t, n, m)
  BY <1>1, DeviceExecutes
<1>4. Active(o) /\ Issued(o) = n /\ Sure(o) = m
  <2>1. o.at \in Int
    BY Fields DEF Workers
  <2> QED BY <1>2, <1>3, <2>1 DEF Active, Idle, Raised, Issued, Sure
<1>5. cuda'[d] = new
  BY <1>1, Fields
<1>6. Facts(t, dev, n, m, host, local[d])
  BY <1>4, FactsOf
<1> HIDE DEF m, o, t, dev, new
<1>7. /\ Cuda!Work(dev, s) = <<t, p>> /\ p \in 1 .. n /\ Queued(dev, p)
      /\ \A i : Queued(new, i) <=> Queued(dev, i) /\ i # p
      /\ \A i \in 1 .. m : i < p /\ Linked(t, i, p) => ~Queued(dev, i)
  BY <1>1, <1>2, <1>3, PerformExecutes DEF new
<1> HIDE DEF p
<1>8. Performing(t, dev, new, n, m, p) /\ n <= Size(t) - 1 /\ p \in 1 .. Size(t) - 1
  <2>1. n \in 0 .. 9 /\ m \in 0 .. 9 /\ n <= m + 1 /\ n <= Size(t) - 1 /\ p \in 1 .. Size(t) - 1
    BY <1>2, <1>3, <1>7, SizeFacts
  <2>2. Followed(dev, t, m)
    BY <1>3 DEF Executes
  <2> QED BY <1>3, <1>7, <2>1, <2>2 DEF Performing
<1>9. /\ Effects(Act(t, p), host, local[d], host', local'[d])
      /\ Placing' /\ \A e \in Devices : e # d => local'[e] = local[e]
  BY <1>2, <1>7, <1>8, StepEffects DEF DInv, dev
<1>10. TaskRows(t) \subseteq AllRows /\ V(t) = block + 1
  BY <1>2, RowsOfTask DEF V
<1>11. CASE phase = "project"
  <2>1. \A r \in AllRows : RowIs(host, r, block)
    BY <1>11 DEF DInv, RowsInv, WhileProjecting
  <2>2. n <= 3 /\ t.do = "project"
    BY <1>2, <1>8, <1>11 DEF Size
  <2>3. ProjectFacts(t, dev, n, m, host, local[d])
    BY <1>6, <2>2 DEF Facts
  <2>4. /\ ProjectFacts(t, new, n, m, host', local'[d])
        /\ \A r \in AllRows : host'[HRow(r)] = host[HRow(r)]
        /\ \A r \in AllRows : ArenaIs(host, r, V(t)) => ArenaIs(host', r, V(t))
    BY <1>2, <1>8, <1>9, <1>10, <2>1, <2>2, <2>3, ProjectStep
  <2>5. Facts(t, new, n, m, host', local'[d])
    BY <2>2, <2>4 DEF Facts
  <2> QED BY <1>2, <1>4, <1>5, <1>9, <1>10, <1>11, <2>4, <2>5 DEF o, t
<1>12. CASE phase = "attend"
  <2>1. \A r \in AllRows : ArenaIs(host, r, V(t))
    BY <1>10, <1>12 DEF DInv, RowsInv, WhileAttending
  <2>2. t.do = "attend"
    BY <1>2, <1>12
  <2>3. AttendFacts(t, dev, n, m, host, local[d])
    BY <1>6, <2>2 DEF Facts
  <2>4. /\ AttendFacts(t, new, n, m, host', local'[d])
        /\ \A r \in AllRows : ArenaIs(host', r, V(t))
        /\ \A r \in AllRows : r \notin TaskRows(t) => host'[HRow(r)] = host[HRow(r)]
        /\ p # 6 => \A r \in AllRows : host'[HRow(r)] = host[HRow(r)]
        /\ p = 6 => \A r \in TaskRows(t) : RowIs(host, r, t.block) /\ RowIs(host', r, V(t))
    BY <1>2, <1>8, <1>9, <2>1, <2>2, <2>3, AttendStep
  <2>5. Facts(t, new, n, m, host', local'[d])
    BY <2>2, <2>4 DEF Facts
  <2> QED BY <1>2, <1>4, <1>5, <1>9, <1>10, <1>12, <2>4, <2>5 DEF o, t
<1>13. phase \in {"project", "attend"}
  BY <1>2, TaskFacts
<1> QED BY <1>11, <1>12, <1>13

LEMMA ApartRows ==
  ASSUME NEW s \in Tasks, NEW t \in Tasks, Apart(s, t), NEW r \in TaskRows(s)
  PROVE  r \notin TaskRows(t)
BY RowsOfTask DEF Apart, TaskRows, Slice

LEMMA DeviceKeepsDInv ==
  ASSUME NEW d \in Devices, WInv, DInv, NEW s \in AllStreams, DeviceStep(d, s)
  PROVE  DInv'
<1> DEFINE t == worker[d].task
<1>1. UNCHANGED <<outcome, phase, block, next, cancelled, failed, worker>>
      /\ cuda' = [cuda EXCEPT ![d] = Cuda!Performed(cuda[d], s)]
  BY DEF DeviceStep
<1>2. /\ Active(worker[d]) /\ t \in Tasks /\ t.do = phase /\ t.block = block /\ phase # "idle"
      /\ Placing' /\ \A e \in Devices : e # d => local'[e] = local[e]
      /\ Facts(t, cuda'[d], Issued(worker[d]), Sure(worker[d]), host', local'[d])
  BY DeviceRows
<1>3. /\ \A r \in AllRows : ArenaIs(host, r, block + 1) => ArenaIs(host', r, block + 1)
      /\ \A r \in AllRows : r \notin TaskRows(t) => host'[HRow(r)] = host[HRow(r)]
  BY DeviceRows
<1>4. \/ \A r \in AllRows : host'[HRow(r)] = host[HRow(r)]
      \/ phase = "attend" /\ \A r \in TaskRows(t) : RowIs(host, r, block) /\ RowIs(host', r, block + 1)
  BY DeviceRows
<1> HIDE DEF t
<1>5. \A e \in Devices : e # d => cuda'[e] = cuda[e]
  BY <1>1, Fields
<1>6. RangesApart'
  <2>1. worker' = worker /\ next' = next
    BY <1>1
  <2> QED BY <2>1 DEF DInv, RangesApart, Active, Apart
<1>7. TasksData'
  <2>1. ASSUME NEW e \in Devices, Active(worker[e])
        PROVE  Facts(worker[e].task, cuda'[e], Issued(worker[e]), Sure(worker[e]), host', local'[e])
    <3>1. CASE e = d
      BY <1>2, <3>1 DEF t
    <3>2. CASE e # d
      <4> DEFINE u == worker[e].task
      <4>1. u \in Tasks /\ u.block = block
        BY <2>1, Fields DEF Active, WorksOn
      <4>2. Apart(u, t)
        BY <1>2, <2>1, <3>2 DEF DInv, RangesApart, t
      <4>3. Facts(u, cuda[e], Issued(worker[e]), Sure(worker[e]), host, local[e])
        BY <2>1, FactsOf
      <4> HIDE DEF u
      <4>4. \A r \in TaskRows(u) : /\ host'[HRow(r)] = host[HRow(r)]
                                   /\ ArenaIs(host, r, V(u)) => ArenaIs(host', r, V(u))
        <5>1. \A r \in TaskRows(u) : r \in AllRows /\ r \notin TaskRows(t)
          BY <1>2, <4>1, <4>2, ApartRows, RowsOfTask
        <5>2. V(u) = block + 1
          BY <4>1 DEF V
        <5> QED BY <1>3, <5>1, <5>2
      <4>5. Facts(u, cuda[e], Issued(worker[e]), Sure(worker[e]), host', local[e])
        BY <4>3, <4>4, FactsOfOthers
      <4>6. cuda'[e] = cuda[e] /\ local'[e] = local[e]
        BY <1>2, <1>5, <3>2
      <4> QED BY <4>5, <4>6 DEF u
    <3> QED BY <3>1, <3>2
  <2>2. worker' = worker
    BY <1>1
  <2>3. \A e \in Devices : Active(worker'[e]) =>
          Facts(worker'[e].task, cuda'[e], Issued(worker'[e]), Sure(worker'[e]), host', local'[e])
    BY <2>1, <2>2
  <2> QED BY <2>3 DEF TasksData, Active, Issued, Sure
<1>8. AllRows' = AllRows
  BY DEF AllRows, Slice
<1>9. ASSUME NEW r \in AllRows
      PROVE  \/ host'[HRow(r)] = host[HRow(r)]
             \/ phase = "attend" /\ r \in TaskRows(t) /\ RowIs(host', r, block + 1)
  BY <1>3, <1>4
<1>10. WhileProjecting'
  <2>1. phase = "project" => \A r \in AllRows : RowIs(host', r, block)
    BY <1>4 DEF DInv, RowsInv, WhileProjecting, RowIs
  <2> QED BY <1>1, <1>8, <2>1 DEF WhileProjecting, RowIs, HRow, Hidden0
<1>11. WhileAttending'
  <2>1. ASSUME phase = "attend", NEW r \in AllRows
        PROVE  /\ ArenaIs(host', r, block + 1)
               /\ RowIs(host', r, block) \/ RowIs(host', r, block + 1)
               /\ r >= next => RowIs(host', r, block)
    <3>1. /\ ArenaIs(host, r, block + 1)
          /\ RowIs(host, r, block) \/ RowIs(host, r, block + 1)
          /\ r >= next => RowIs(host, r, block)
      BY <2>1 DEF DInv, RowsInv, WhileAttending
    <3>2. r \in TaskRows(t) => ~(r >= next)
      <4>1. t.stop <= next /\ next \in Nat /\ t.stop \in Nat
        BY <1>2, RowsOfTask, Fields, MultiGpuH3Assumption DEF DInv, RangesApart, t
      <4> QED BY <1>2, <4>1, RowsOfTask
    <3> QED BY <1>3, <1>9, <3>1, <3>2 DEF RowIs
  <2>2. phase' = phase /\ block' = block /\ next' = next
    BY <1>1
  <2> QED BY <1>8, <2>1, <2>2 DEF WhileAttending, RowIs, HRow, Hidden0, ArenaIs, ArenaRow, ArenaTensor
<1>12. ClaimedRows'
  <2>1. (Broken' <=> Broken) /\ \A r : (Running(r)' <=> Running(r))
    BY <1>1 DEF Broken, Running, TaskRows, Slice
  <2>2. ASSUME NEW r \in AllRows, Complete(r)
        PROVE  Complete(r)'
    <3>1. phase = "project" => ArenaIs(host', r, block + 1)
      BY <1>3, <2>2 DEF Complete
    <3>2. phase # "project" => RowIs(host', r, block + 1)
      BY <1>9, <2>2 DEF Complete, RowIs
    <3> QED BY <1>1, <3>1, <3>2 DEF Complete, ArenaIs, RowIs, ArenaRow, HRow, ArenaTensor, Hidden0
  <2>3. phase' = phase /\ next' = next
    BY <1>1
  <2> QED BY <1>8, <2>1, <2>2, <2>3 DEF DInv, RowsInv, ClaimedRows
<1>13. Flow'
  <2>1. Broken' <=> Broken
    BY <1>1 DEF Broken
  <2> QED BY <1>1, <2>1 DEF DInv, Flow
<1> QED BY <1>2, <1>6, <1>7, <1>10, <1>11, <1>12, <1>13 DEF DInv, RowsInv

LEMMA DInit ==
  ASSUME Init
  PROVE  DInv
<1>1. \A d \in Devices : worker[d].pc = "done"
  BY DEF Init, Resting
<1>2. RangesApart /\ TasksData
  BY <1>1 DEF RangesApart, TasksData, Active, Idle
<1>3. Placing
  BY GivenRows DEF Init, Placing, NothingLocal, AllLocal
<1>4. RowsInv /\ Flow
  BY DEF Init, RowsInv, WhileProjecting, WhileAttending, ClaimedRows, Flow
<1> QED BY <1>2, <1>3, <1>4 DEF DInv

LEMMA DStays ==
  ASSUME DInv, UNCHANGED vars
  PROVE  DInv'
<1>1. UNCHANGED <<outcome, phase, block, next, cancelled, failed, worker, cuda, host, local>>
  BY DEF vars
<1>2. Placing'
  BY <1>1, PlacingStays DEF DInv
<1>3. RangesApart' /\ TasksData'
  BY <1>1 DEF DInv, RangesApart, TasksData, Active, Apart, Issued, Sure, Facts, ProjectFacts, AttendFacts
<1>4. RowsInv'
  <2>1. (Broken' <=> Broken) /\ \A r : (Running(r)' <=> Running(r))
    BY <1>1 DEF Broken, Running, TaskRows, Slice
  <2>2. /\ AllRows' = AllRows /\ \A r : (Complete(r)' <=> Complete(r))
        /\ WhileProjecting' /\ WhileAttending'
    BY <1>1, SameRows DEF DInv, RowsInv
  <2> QED BY <1>1, <2>1, <2>2 DEF DInv, RowsInv, ClaimedRows
<1>5. Flow'
  BY <1>1 DEF DInv, Flow, Broken
<1> QED BY <1>2, <1>3, <1>4, <1>5 DEF DInv

LEMMA DNext ==
  ASSUME WInv, DInv, [Next]_vars
  PROVE  DInv'
<1>1. CASE UNCHANGED vars
  BY <1>1, DStays
<1>2. CASE Begin \/ StartAttention \/ StartBlock \/ End
  BY <1>2, BeginKeepsDInv, StartAttentionKeepsDInv, StartBlockKeepsDInv, EndOfCallKeepsDInv
<1>3. CASE \E d \in Devices : Worker(d) \/ Raise(d) \/ \E s \in DOMAIN Streams : DeviceStep(d, s)
  <2>1. PICK d \in Devices : Worker(d) \/ Raise(d) \/ \E s \in DOMAIN Streams : DeviceStep(d, s)
    BY <1>3
  <2>2. CASE Worker(d)
    BY <2>2, EnterKeepsDInv, ClaimKeepsDInv, FinishKeepsDInv, IssueKeepsDInv, WaitKeepsDInv,
       UnwindKeepsDInv, RecoverKeepsDInv DEF Worker
  <2>3. CASE Raise(d)
    BY <2>3, RaiseKeepsDInv
  <2>4. CASE \E s \in DOMAIN Streams : DeviceStep(d, s)
    BY <2>4, DeviceKeepsDInv DEF AllStreams
  <2> QED BY <2>1, <2>2, <2>3, <2>4
<1> QED BY <1>1, <1>2, <1>3 DEF Next, Finished

LEMMA DSpec == Spec => []DInv
BY WSpec, DInit, DNext, PTL DEF Spec

-----------------------------------------------------------------------------
(* The promise. *)

VersionOf(h, r) ==
  LET found == {v \in 0 .. BlockCount : RowIs(h, r, v)}
  IN  IF found = {} THEN 0 ELSE CHOOSE v \in found : TRUE

ReachedRows == [r \in AllRows |-> VersionOf(host, r)]

LEMMA VersionsIs ==
  /\ Versions = [m \in {"video"} |-> ReachedRows]
  /\ DOMAIN Versions = {"video"} /\ Versions["video"] = ReachedRows /\ DOMAIN Versions["video"] = AllRows
  /\ \A r \in AllRows : Versions["video"][r] = VersionOf(host, r)
<1>1. Versions = [m \in {"video"} |-> [r \in AllRows |-> VersionOf(host, r)]]
  BY DEF Versions, AllRows, VersionOf, RowIs, HRow, Hidden0, Tensor
<1> QED BY <1>1 DEF ReachedRows

LEMMA VersionIs ==
  ASSUME NEW h, NEW r, NEW v \in 0 .. BlockCount, RowIs(h, r, v)
  PROVE  VersionOf(h, r) = v
<1> DEFINE found == {u \in 0 .. BlockCount : RowIs(h, r, u)}
<1>1. \A u \in found : u = v
  <2> TAKE u \in found
  <2>1. {<<"video", u, r>>} = {<<"video", v, r>>}
    BY DEF RowIs
  <2>2. <<"video", u, r>> = <<"video", v, r>>
    BY <2>1
  <2> QED BY <2>2
<1>2. v \in found
  OBVIOUS
<1> HIDE DEF found
<1>3. (CHOOSE u \in found : TRUE) \in found
  BY <1>2
<1>4. VersionOf(h, r) = CHOOSE u \in found : TRUE
  BY <1>2 DEF VersionOf, found
<1> QED BY <1>1, <1>3, <1>4

LEMMA SameVersion ==
  ASSUME NEW h, NEW h2, NEW r, h2[HRow(r)] = h[HRow(r)]
  PROVE  VersionOf(h2, r) = VersionOf(h, r)
<1>1. \A v : RowIs(h2, r, v) <=> RowIs(h, r, v)
  BY DEF RowIs
<1> DEFINE found == {v \in 0 .. BlockCount : RowIs(h, r, v)}
           found2 == {v \in 0 .. BlockCount : RowIs(h2, r, v)}
<1>2. found2 = found
  BY <1>1
<1>3. /\ VersionOf(h, r) = IF found = {} THEN 0 ELSE CHOOSE v \in found : TRUE
      /\ VersionOf(h2, r) = IF found2 = {} THEN 0 ELSE CHOOSE v \in found2 : TRUE
  BY DEF VersionOf
<1> HIDE DEF found, found2
<1> QED BY <1>2, <1>3

LEMMA SameVersions ==
  ASSUME \A r \in AllRows : host'[HRow(r)] = host[HRow(r)]
  PROVE  Versions' = Versions
<1>1. \A r \in AllRows : VersionOf(host', r) = VersionOf(host, r)
  BY SameVersion
<1>2. Versions' = [m \in {"video"} |-> [r \in AllRows |-> VersionOf(host', r)]]
  BY DEF Versions, AllRows, VersionOf, RowIs, HRow, Hidden0, Tensor
<1>3. Versions = [m \in {"video"} |-> [r \in AllRows |-> VersionOf(host, r)]]
  BY VersionsIs DEF ReachedRows
<1> QED BY <1>1, <1>2, <1>3

LEMMA NewVersions ==
  Versions' = [m \in {"video"} |-> [r \in AllRows |-> VersionOf(host', r)]]
BY DEF Versions, AllRows, VersionOf, RowIs, HRow, Hidden0, Tensor

LEMMA FreshVersions ==
  ASSUME NEW h, h = Given
  PROVE  [m \in {"video"} |-> [r \in AllRows |-> VersionOf(h, r)]] = Promise!Fresh
<1>1. Promise!Fresh = [m \in {"video"} |-> [r \in AllRows |-> 0]]
  BY DEF Promise!Fresh, AllRows
<1>2. \A r \in AllRows : VersionOf(h, r) = 0
  BY GivenRows, VersionIs, MultiGpuH3Assumption
<1> QED BY <1>1, <1>2

LEMMA PromiseInit ==
  ASSUME Init
  PROVE  Promise!Init
<1>1. outcome = "none" /\ host = Given
  BY DEF Init
<1>2. Versions = Promise!Fresh
  BY <1>1, VersionsIs, FreshVersions DEF ReachedRows
<1> QED BY <1>1, <1>2 DEF Promise!Init

LEMMA BeginPromised ==
  ASSUME DInv, Begin
  PROVE  Promise!Begin
<1>1. outcome # "running" /\ outcome' = "running" /\ host' = Given
  BY DEF Begin
<1>2. Versions' = Promise!Fresh
  BY <1>1, NewVersions, FreshVersions
<1> QED BY <1>1, <1>2 DEF Promise!Begin, Runner

LEMMA EndPromised ==
  ASSUME WInv, DInv, End
  PROVE  \E how \in {"returned", "raised"} : Promise!End(how)
<1>1. /\ Joined /\ (failed \/ (phase = "attend" /\ block + 1 = BlockCount))
      /\ outcome' = (IF failed THEN "raised" ELSE "returned") /\ host' = host
  BY DEF End
<1>2. outcome = "running"
  BY <1>1 DEF Joined, DInv, Flow
<1>3. Versions' = Versions
  BY <1>1, SameVersions
<1>4. ASSUME ~failed, NEW r \in AllRows
      PROVE  Versions["video"][r] = BlockCount
  <2>1. RowIs(host, r, BlockCount) /\ BlockCount \in 0 .. BlockCount
    BY <1>1, <1>4, PhaseOver, MultiGpuH3Assumption DEF Complete
  <2> QED BY <2>1, VersionIs, VersionsIs
<1>5. CASE failed
  <2>1. Promise!End("raised")
    BY <1>1, <1>2, <1>3, <1>5 DEF Promise!End, Runner
  <2> QED BY <2>1
<1>6. CASE ~failed
  <2>1. \A m \in DOMAIN Versions : \A r \in DOMAIN Versions[m] : Versions[m][r] = BlockCount
    BY <1>4, <1>6, VersionsIs
  <2>2. Promise!End("returned")
    BY <1>1, <1>2, <1>3, <1>6, <2>1 DEF Promise!End, Runner
  <2> QED BY <2>2
<1> QED BY <1>5, <1>6

\* A tile of rows advances when it is copied to the host.
LEMMA DevicePromised ==
  ASSUME NEW d \in Devices, WInv, DInv, NEW s \in AllStreams, DeviceStep(d, s)
  PROVE  Versions' = Versions \/ \E tile \in SUBSET AllRows : Promise!Advance("video", tile)
<1> DEFINE tile == TaskRows(worker[d].task)
<1>1. /\ worker[d].task \in Tasks /\ phase # "idle"
      /\ \A r \in AllRows : r \notin tile => host'[HRow(r)] = host[HRow(r)]
      /\ \/ \A r \in AllRows : host'[HRow(r)] = host[HRow(r)]
         \/ phase = "attend" /\ \A r \in tile : RowIs(host, r, block) /\ RowIs(host', r, block + 1)
  BY DeviceRows
<1>2. tile \subseteq AllRows
  BY <1>1, RowsOfTask
<1>3. outcome' = outcome
  BY DEF DeviceStep
<1> HIDE DEF tile
<1>4. CASE \A r \in AllRows : host'[HRow(r)] = host[HRow(r)]
  BY <1>4, SameVersions
<1>5. CASE phase = "attend" /\ \A r \in tile : RowIs(host, r, block) /\ RowIs(host', r, block + 1)
  <2>1. block \in 0 .. BlockCount /\ block + 1 \in 0 .. BlockCount /\ block \in Nat /\ block < BlockCount
    BY MultiGpuH3Assumption DEF WInv, TypeOK
  <2>2. \A r \in AllRows : VersionOf(host, r) \in {block, block + 1}
    <3>1. \A r \in AllRows : RowIs(host, r, block) \/ RowIs(host, r, block + 1)
      BY <1>5 DEF DInv, RowsInv, WhileAttending
    <3> QED BY <2>1, <3>1, VersionIs
  <2>3. \A r \in tile : VersionOf(host, r) = block /\ VersionOf(host', r) = block + 1
    BY <1>5, <2>1, VersionIs
  <2>4. \A r \in AllRows : r \notin tile => VersionOf(host', r) = VersionOf(host, r)
    BY <1>1, SameVersion
  <2>5. outcome = "running"
    BY <1>1 DEF DInv, Flow
  <2>6. \A r \in tile : Promise!Ready("video", r) /\ Versions["video"][r] < BlockCount
    <3>1. \A r \in AllRows : Versions["video"][r] = VersionOf(host, r)
      BY VersionsIs
    <3>2. \A r \in tile : \A q \in AllRows : Versions["video"][q] >= Versions["video"][r]
      BY <1>2, <2>1, <2>2, <2>3, <3>1
    <3>3. \A r \in tile : Promise!Ready("video", r)
      BY <3>2, VersionsIs DEF Promise!Ready, Promise!Context, Runner
    <3> QED BY <1>2, <2>1, <2>3, <3>1, <3>3
  <2>7. Versions' = [Versions EXCEPT !["video"] = [r \in DOMAIN @ |-> @[r] + (IF r \in tile THEN 1 ELSE 0)]]
    <3> DEFINE old == [r \in AllRows |-> VersionOf(host, r)]
               new == [r \in AllRows |-> VersionOf(host', r)]
               sum == [r \in AllRows |-> old[r] + (IF r \in tile THEN 1 ELSE 0)]
    <3>1. \A r \in AllRows : VersionOf(host', r) = VersionOf(host, r) + (IF r \in tile THEN 1 ELSE 0)
      BY <2>1, <2>2, <2>3, <2>4
    <3>2. new = sum
      BY <3>1
    <3>3. Versions = [m \in {"video"} |-> old] /\ Versions' = [m \in {"video"} |-> new] /\ DOMAIN old = AllRows
      BY VersionsIs, NewVersions DEF ReachedRows
    <3> HIDE DEF old, new
    <3>4. [Versions EXCEPT !["video"] = [r \in DOMAIN @ |-> @[r] + (IF r \in tile THEN 1 ELSE 0)]]
            = [m \in {"video"} |-> sum]
      BY <3>3
    <3> QED BY <3>2, <3>3, <3>4
  <2>8. Promise!Advance("video", tile)
    BY <1>3, <2>5, <2>6, <2>7 DEF Promise!Advance, Runner
  <2> QED BY <1>2, <2>8
<1> QED BY <1>1, <1>4, <1>5

LEMMA PromiseNext ==
  ASSUME WInv, DInv, [Next]_vars
  PROVE  [Promise!Next]_<<Runner, outcome, Versions>>
<1>0. Runner' = Runner
  BY DEF Runner
<1>1. ASSUME host' = host, outcome' = outcome
      PROVE  UNCHANGED <<Runner, outcome, Versions>>
  BY <1>0, <1>1, SameVersions
<1>2. CASE UNCHANGED vars
  BY <1>1, <1>2 DEF vars
<1>3. CASE Begin
  BY <1>3, BeginPromised DEF Promise!Next
<1>4. CASE End
  BY <1>4, EndPromised DEF Promise!Next
<1>5. CASE StartAttention \/ StartBlock
  BY <1>1, <1>5 DEF StartAttention, StartBlock
<1>6. CASE \E d \in Devices : Worker(d) \/ Raise(d)
  <2>1. PICK d \in Devices : Worker(d) \/ Raise(d)
    BY <1>6
  <2>2. host' = host /\ outcome' = outcome
    BY <2>1 DEF Worker, Raise, Enter, Claim, Finish, Issue, WaitFor, UnwindProjection,
       RecoverProjectionWorker, RecoverAttentionWorker
  <2> QED BY <1>1, <2>2
<1>7. CASE \E d \in Devices : \E s \in AllStreams : DeviceStep(d, s)
  <2>1. PICK d \in Devices, s \in AllStreams : DeviceStep(d, s)
    BY <1>7
  <2>2. outcome' = outcome
    BY <2>1 DEF DeviceStep
  <2>3. CASE Versions' = Versions
    BY <1>0, <2>2, <2>3
  <2>4. CASE \E tile \in SUBSET AllRows : Promise!Advance("video", tile)
    <3>1. DOMAIN Versions = {"video"} /\ DOMAIN Versions["video"] = AllRows
      BY VersionsIs
    <3>2. \E m \in DOMAIN Versions : \E tile \in SUBSET DOMAIN Versions[m] : Promise!Advance(m, tile)
      BY <2>4, <3>1
    <3> QED BY <3>2 DEF Promise!Next
  <2> QED BY <2>1, <2>3, <2>4, DevicePromised
<1> QED BY <1>2, <1>3, <1>4, <1>5, <1>6, <1>7 DEF Next, Finished, AllStreams

\* Whichever devices take which tasks and whichever of them raise, the rows go
\* from version to version as the promise of the block runners has it.
THEOREM H3KeepsItsPromise == Spec => KeepsItsPromise
<1>1. Spec => Promise!Init
  BY PromiseInit DEF Spec
<1>2. WInv /\ DInv /\ [Next]_vars => [Promise!Next]_<<Runner, outcome, Versions>>
  BY PromiseNext
<1>3. Spec => [][Promise!Next]_<<Runner, outcome, Versions>>
  BY <1>2, WSpec, DSpec, PTL DEF Spec
<1>4. Promise!Init /\ [][Promise!Next]_<<Runner, outcome, Versions>> => Promise!Spec
  BY PTL DEF Promise!Spec, Promise!absVars
<1> QED BY <1>1, <1>3, <1>4 DEF KeepsItsPromise
====
