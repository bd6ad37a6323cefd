-------------------------- MODULE StreamingProgram --------------------------
(***************************************************************************)
(* What one call of the in-memory streaming runner enqueues on the device  *)
(* (streaming/executor.py, tile_source.py, flash_split_executor.py and the *)
(* output consumer of dit/common/consumer.py), as a sequence of steps.     *)
(*                                                                         *)
(* A call's queries are split into tasks, each of which scans every K/V    *)
(* tile of its segment.  A step waits for events, enqueues one operation   *)
(* on one stream, records events behind it and sets pending flags.         *)
(* Buffers hold names of what was put into them: the rows a load copied,   *)
(* or, in the accumulator, the (Q, K/V) pairs it was updated with.         *)
(***************************************************************************)
EXTENDS Naturals, SequencesExt

CONSTANTS
  NumTasks,           \* len(query_tasks) of a call
  NumTiles,           \* K/V tiles of a segment
  NumKvBuffers,       \* plan.num_kv_buffers
  NumOutputBuffers,   \* plan.num_output_buffers
  NumConsumerBuffers  \* num_output_buffers of the consumer's workspace

ASSUME ProgramAssumption ==
  /\ NumTasks \in Nat \ {0}
  /\ NumTiles \in Nat \ {0}
  /\ NumKvBuffers \in Nat \ {0}
  /\ NumOutputBuffers \in Nat \ {0}
  /\ NumConsumerBuffers \in {1, 2}

-----------------------------------------------------------------------------
(* Calls, records [id, mode, kind] where mode is plan.output_mode. *)

\* "host" and "measured" are run_query_tasks, the latter with a measurement;
\* "flash" is the split executor; "transform" and "view" pass an output
\* transform that returns a new tensor or a view of the tile it was given;
\* "consumer" passes a device consumer; "recompute" and "cross" do so over the
\* two recomputing sources; "task" is _run_query_task_with_task_consumer.
KindsIn(mode) ==
  IF mode = "host" THEN {"host", "measured", "flash", "transform", "view", "consumer"}
                   ELSE {"transform", "view", "consumer", "task", "recompute", "cross"}

Kinds == KindsIn("host") \cup KindsIn("device_consumer")

FromHost(c) == c.kind \notin {"recompute", "cross"}
Transforms(c) == c.kind \in {"transform", "view"}
Consumed(c) == c.kind \in {"consumer", "task", "recompute", "cross"}
Measured(c) == c.kind \in {"measured", "task"}

TaskCount(c) == IF Measured(c) THEN 1 ELSE NumTasks

\* reuse_q_for_output
ReusesQ(c) == (Consumed(c) \/ Transforms(c)) /\ c.mode = "device_consumer"

-----------------------------------------------------------------------------
(* Streams, events and buffers. *)

\* A recomputing source stages hidden rows in a workspace with its own stream.
Stagings == {"self", "query", "context"}
Streams == {"h2d", "compute", "d2h", "consumer"} \cup Stagings

KvBuffers == 0 .. NumKvBuffers - 1
OutputBuffers == 0 .. NumOutputBuffers - 1
ConsumerBuffers == 0 .. NumConsumerBuffers - 1

QReady == <<"q_ready">>
QFree == <<"q_free">>
KvReady(b) == <<"kv_ready", b>>
KvFree(b) == <<"kv_free", b>>
OutputReady(o) == <<"output_ready", o>>
OutputFree(o) == <<"output_free", o>>
HiddenReady(w) == <<"hidden_ready", w>>
HiddenFree(w) == <<"hidden_free", w>>
ConsumerReady(s) == <<"consumer_ready", s>>
ConsumerFree(s) == <<"consumer_free", s>>
H2dEnd == <<"h2d_end">>
TaskDone == <<"task_done">>
PipelineEnd == <<"pipeline_end">>

Events ==
  {QReady, QFree, H2dEnd, TaskDone, PipelineEnd}
    \cup ({"kv_ready", "kv_free"} \X KvBuffers)
    \cup ({"output_ready", "output_free"} \X OutputBuffers)
    \cup ({"hidden_ready", "hidden_free"} \X Stagings)
    \cup ({"consumer_ready", "consumer_free"} \X ConsumerBuffers)

Q == <<"q">>
Kv(b) == <<"kv", b>>
Accumulator == <<"accumulator">>
Output(o) == <<"output", o>>
Hidden(w) == <<"hidden", w>>
ConsumerOutput(s) == <<"consumer", s>>
Transformed(c, t) == <<"transformed", c.id, t>>

Buffers(Ids) ==
  {Q, Accumulator}
    \cup ({"kv"} \X KvBuffers)
    \cup ({"output"} \X OutputBuffers)
    \cup ({"hidden"} \X Stagings)
    \cup ({"consumer"} \X ConsumerBuffers)
    \cup ({"transformed"} \X Ids \X (1 .. NumTasks))

-----------------------------------------------------------------------------
(* Operations and steps. *)

Load(to, rows) == [op |-> "load", to |-> to, rows |-> rows]
Copy(from, to) == [op |-> "copy", from |-> from, to |-> to]
\* scratch: the partial output the flash kernels write before the merge.
Update(b, initialize, scratch) ==
  [op |-> "update", kv |-> Kv(b), initialize |-> initialize, scratch |-> scratch]
Store(from, c, t) == [op |-> "store", from |-> from, id |-> c.id, task |-> t]
Mark == [op |-> "mark"]

\* `guards` are waited for only when they are flagged as pending.
Step(stream, guards, waits, work, records, flags) ==
  [stream |-> stream, guards |-> guards, waits |-> waits, work |-> work,
   records |-> records, flags |-> flags]

Record(stream, events, flags) == Step(stream, {}, {}, Mark, events, flags)

Rows(c, what, index) == <<c.id, what, index>>

\* Recomputed*TileSource: stage hidden rows and project them into `to`.
Recompute(w, to, rows) ==
  <<Step(w, {HiddenFree(w)}, {}, Load(Hidden(w), rows), {HiddenReady(w)}, {}),
    Step("compute", {}, {HiddenReady(w)}, Copy(Hidden(w), to),
         {HiddenFree(w)}, {HiddenFree(w)})>>

Staging(c, what) ==
  IF c.kind = "recompute" THEN "self" ELSE IF what = "q" THEN "query" ELSE "context"

LoadQ(c, t) ==
  IF FromHost(c)
  THEN <<Step("h2d", {QFree}, {}, Load(Q, Rows(c, "q", t)), {QReady}, {})>>
  ELSE Recompute(Staging(c, "q"), Q, Rows(c, "q", t))

LoadKv(c, i) ==
  LET b == i % NumKvBuffers IN
  IF FromHost(c)
  THEN <<Step("h2d", {KvFree(b)}, {}, Load(Kv(b), Rows(c, "kv", i)), {KvReady(b)}, {})>>
  ELSE Recompute(Staging(c, "kv"), Kv(b), Rows(c, "kv", i))

\* release_q: nothing to do for a recomputing source.
ReleaseQ(c, stream) ==
  IF FromHost(c) THEN <<Record(stream, {QFree}, {QFree})>> ELSE <<>>

OutputIndex(t) == (t - 1) % NumOutputBuffers

UpdateWith(c, t, i) ==
  LET b == i % NumKvBuffers
      released == IF FromHost(c) THEN {KvFree(b)} ELSE {}
  IN  Step("compute",
           IF c.kind = "flash" THEN {OutputFree(OutputIndex(t))} ELSE {},
           IF FromHost(c) THEN {QReady, KvReady(b)} ELSE {},
           Update(b, i = 0, IF c.kind = "flash" THEN {Output(OutputIndex(t))} ELSE {}),
           released, released)

Scan(c, t) ==
  FlattenSeq([i \in 1 .. NumTiles |-> LoadKv(c, i - 1) \o <<UpdateWith(c, t, i - 1)>>])
    \o (IF Measured(c) THEN <<Record("h2d", {H2dEnd}, {})>> ELSE <<>>)

\* finalize_output
Final(c, t) == IF ReusesQ(c) THEN Q ELSE Output(OutputIndex(t))

Finalize(c, t) ==
  (IF ReusesQ(c) THEN <<>> ELSE ReleaseQ(c, "compute"))
    \o <<Step("compute",
              IF Consumed(c) \/ ReusesQ(c) \/ c.kind = "flash" THEN {}
              ELSE {OutputFree(OutputIndex(t))},
              {}, Copy(Accumulator, Final(c, t)), {}, {})>>

\* AttentionOutputConsumer.__call__, and finish_task of a task consumer.
Consume(c, t) ==
  LET s == (t - 1) % NumConsumerBuffers IN
  <<Step("compute", {ConsumerFree(s)}, {}, Copy(Final(c, t), ConsumerOutput(s)),
         {ConsumerReady(s)}, {}),
    Step("consumer", {}, {ConsumerReady(s)}, Store(ConsumerOutput(s), c, t),
         {ConsumerFree(s)}, {ConsumerFree(s)})>>
    \o (IF Measured(c) THEN <<Record("consumer", {TaskDone}, {})>> ELSE <<>>)
    \o ReleaseQ(c, "compute")

\* An output transform that returns a new tensor.
Transform(c, t) ==
  IF c.kind = "transform"
  THEN <<Step("compute", {}, {}, Copy(Final(c, t), Transformed(c, t)), {}, {})>>
         \o (IF ReusesQ(c) THEN ReleaseQ(c, "compute") ELSE <<>>)
  ELSE <<>>

\* Mutant: a view of Q is released behind the transform, not behind its copy.
CopyOutReleasingEarly(c, t) ==
  LET o == OutputIndex(t)
      result == IF c.kind = "transform" THEN Transformed(c, t) ELSE Final(c, t)
      done == IF Measured(c) THEN {TaskDone} ELSE {}
  IN  Transform(c, t)
        \o (IF ReusesQ(c) /\ result = Q THEN ReleaseQ(c, "compute") ELSE <<>>)
        \o <<Record("compute", {OutputReady(o)}, {}),
             Step("d2h", {}, {OutputReady(o)}, Store(result, c, t),
                  {OutputFree(o)} \cup done, {OutputFree(o)})>>

CopyOut(c, t) ==
  LET o == OutputIndex(t)
      result == IF c.kind = "transform" THEN Transformed(c, t) ELSE Final(c, t)
      done == IF Measured(c) THEN {TaskDone} ELSE {}
  IN  Transform(c, t)
        \o <<Record("compute", {OutputReady(o)}, {}),
             Step("d2h", {}, {OutputReady(o)}, Store(result, c, t),
                  {OutputFree(o)} \cup done, {OutputFree(o)})>>
        \o (IF ReusesQ(c) /\ result = Q THEN ReleaseQ(c, "d2h") ELSE <<>>)

RunTask(c, t) ==
  LoadQ(c, t) \o Scan(c, t) \o Finalize(c, t)
    \o (IF Consumed(c) THEN Consume(c, t) ELSE CopyOut(c, t))

\* The loop over query_tasks.
Program(c) ==
  FlattenSeq([t \in 1 .. TaskCount(c) |-> RunTask(c, t)])
    \o <<Record("compute", {PipelineEnd}, {})>>
=============================================================================
