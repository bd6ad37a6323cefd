-------------------------- MODULE AttentionProgram --------------------------
(***************************************************************************)
(* One attention stage of a DiT block: its Q and K/V come from a           *)
(* materialized host arena or are recomputed from hidden rows chunk by     *)
(* chunk, and a device consumer applies the model's epilogue to each Q     *)
(* chunk and writes hidden rows to the host (streaming/executor.py with    *)
(* the sources of tile_source.py; dit/common/attention.py and consumer.py; *)
(* dit/minimax_h3/consumer.py).                                            *)
(*                                                                         *)
(* A stage is a record: name (of its runner), m and v (the modality and    *)
(* version it produces), query and context (where its inputs are, as       *)
(* [tensor, m, v]; the same for self-attention), target (the tensor it     *)
(* writes), policy, arena, out (its output workspace), h3, and sparse: Sol *)
(* attention (sparse/), whose routing blocks are single rows here.         *)
(***************************************************************************)
EXTENDS TileProgram, FiniteSets

H3 == INSTANCE H3Consumer
Sol == INSTANCE QueryPartition WITH Bisections <- 60

IsSelf(stage) == stage.query = stage.context

\* The workspaces hidden rows are staged in.
QueryStaging(stage) == <<stage.name, IF IsSelf(stage) THEN "self" ELSE "query">>
ContextStaging(stage) == <<stage.name, IF IsSelf(stage) THEN "self" ELSE "context">>

Projecting(stage) == <<stage.name, "projection">>
Consuming(stage) == <<stage.name, "consumer">>

-----------------------------------------------------------------------------
(* MaterializedAttentionExecutor.materialize_self and materialize_cross, and *)
(* SolMaterializedQKVProducer.materialize.                                   *)

\* Sol encodes K/V and summarizes each of their blocks.
SelfParts(stage) == IF stage.sparse THEN {"q", "int8", "summary"} ELSE {"q", "kv"}

ProjectionStops(stage, shape, tokens) ==
  IF stage.sparse THEN Sol!EncodedStops(tokens, shape.projectionTile, 1)
  ELSE Stops(shape.projectionTile, tokens)

Materialize(stage, shape) ==
  LET project(w, source, parts) ==
        ProjectTiles(w, shape, source, ProjectionStops(stage, shape, shape.rows[source.m]),
                     parts, stage.arena, stage, Projecting(stage))
  IN  Leased(Projecting(stage),
        IF IsSelf(stage) THEN project(QueryStaging(stage), stage.query, SelfParts(stage))
        ELSE project(QueryStaging(stage), stage.query, {"q"})
               \o project(ContextStaging(stage), stage.context, {"kv"}))

-----------------------------------------------------------------------------
(* The attention call.  Its device buffers, events and streams. *)

QBuffer(stage) == <<"q", stage.name>>
KvBuffer(stage) == <<"kv", stage.name>>
SummaryBuffer(stage) == <<"summary", stage.name>>
QReady(stage) == <<"q_ready", stage.name>>
QFree(stage) == <<"q_free", stage.name>>
KvReady(stage) == <<"kv_ready", stage.name>>
KvFree(stage) == <<"kv_free", stage.name>>
HiddenReady(w) == <<"hidden_ready", w>>
HiddenFree(w) == <<"hidden_free", w>>
OutputReady(w, s) == <<"output_ready", w, s>>
OutputFree(w, s) == <<"output_free", w, s>>
OutputSlot(w, s) == <<"output", w, s>>
Writer(w) == <<"writer", w>>
Inputs(stage) == H2d(<<stage.name, "attention">>)

\* RecomputedQKVTileSource: stage hidden rows, project them into `buffer`.
\* Mutant: the staging buffer is filled while a projection may still read it.
RecomputeUnguarded(stage, w, source, range, what, buffer) ==
  LET rows == Rows(source.m, source.v, range) IN
  <<Op(H2d(w), {}, {}, At(source.tensor, rows), Holds(Staged(w, 0), rows),
       {HiddenReady(w)}, {}, {}),
    Op(Compute, {}, {HiddenReady(w)}, Holds(Staged(w, 0), rows),
       Holds(buffer, Tile(what, stage.m, stage.v, range)), {HiddenFree(w)}, {HiddenFree(w)},
       {Projecting(stage)})>>

Recompute(stage, w, source, range, what, buffer) ==
  LET rows == Rows(source.m, source.v, range) IN
  <<Op(H2d(w), {HiddenFree(w)}, {}, At(source.tensor, rows), Holds(Staged(w, 0), rows),
       {HiddenReady(w)}, {}, {}),
    Op(Compute, {}, {HiddenReady(w)}, Holds(Staged(w, 0), rows),
       Holds(buffer, Tile(what, stage.m, stage.v, range)), {HiddenFree(w)}, {HiddenFree(w)},
       {Projecting(stage)})>>

\* HostQKVTileSource: copy rows of the arena into `buffer`.
Load(stage, range, what, buffer, guard, ready) ==
  LET tile == Tile(what, stage.m, stage.v, range) IN
  <<Op(Inputs(stage), {guard}, {}, At(ArenaTensor(stage.arena, what), tile), Holds(buffer, tile),
       {ready}, {}, {})>>

Recomputes(stage) == stage.policy = "recompute"

LoadQ(stage, range) ==
  IF Recomputes(stage)
  THEN Recompute(stage, QueryStaging(stage), stage.query, range, "q", QBuffer(stage))
  ELSE Load(stage, range, "q", QBuffer(stage), QFree(stage), QReady(stage))

\* The K/V that are transported to the device: _Int8Transport, _Bf16Transport.
KvForm(stage) == IF stage.sparse /\ ~Recomputes(stage) THEN "int8" ELSE "kv"

LoadKv(stage, range) ==
  IF Recomputes(stage)
  THEN Recompute(stage, ContextStaging(stage), stage.context, range, "kv", KvBuffer(stage))
  ELSE Load(stage, range, KvForm(stage), KvBuffer(stage), KvFree(stage), KvReady(stage))

\* prepare_segment: the summaries come from the host, on the compute stream,
\* or from one pass over the recomputed K/V.
PrepareSegment(stage, context) ==
  LET summary == Tile("summary", stage.m, stage.v, context)
      prepare(needs) ==
        <<Op(Compute, {}, {}, needs, Holds(SummaryBuffer(stage), summary), {}, {}, {})>>
  IN  IF Recomputes(stage)
      THEN LoadKv(stage, context)
             \o prepare(Holds(KvBuffer(stage), Tile("kv", stage.m, stage.v, context)))
      ELSE prepare(At(ArenaTensor(stage.arena, "summary"), summary))

\* The updates over K/V tiles and the finalization into Q (reuse_q_for_output);
\* here one tile holds all K/V rows.
Attend(stage, range, context) ==
  LET released == IF Recomputes(stage) THEN {} ELSE {KvFree(stage)} IN
  <<Op(Compute, {}, IF Recomputes(stage) THEN {} ELSE {QReady(stage), KvReady(stage)},
       Holds(QBuffer(stage), Tile("q", stage.m, stage.v, range))
         \cup Holds(KvBuffer(stage), Tile(KvForm(stage), stage.m, stage.v, context))
         \cup (IF stage.sparse
               THEN Holds(SummaryBuffer(stage), Tile("summary", stage.m, stage.v, context))
               ELSE {}),
       Holds(QBuffer(stage), Tile("attention", stage.m, stage.v, range)),
       released, released, {})>>

ReleaseQ(stage) ==
  IF Recomputes(stage) THEN <<>>
  ELSE <<Op(Compute, {}, {}, {}, {}, {QFree(stage)}, {QFree(stage)}, {})>>

-----------------------------------------------------------------------------
(* Output consumers. *)

\* A tile is computed into output slot s of workspace w and copied to the host.
Write(stage, s, needs, range) ==
  LET w == stage.out
      rows == Rows(stage.m, stage.v, range)
  IN <<Op(Compute, {OutputFree(w, s)}, {}, needs, Holds(OutputSlot(w, s), rows),
          {OutputReady(w, s)}, {}, {Consuming(stage)}),
       Op(Writer(w), {}, {OutputReady(w, s)}, Holds(OutputSlot(w, s), rows),
          At(stage.target, rows), {OutputFree(w, s)}, {OutputFree(w, s)}, {})>>

\* The epilogue reads the attention in Q and the residual rows on the host.
EpilogueNeeds(stage, range) ==
  Holds(QBuffer(stage), Tile("attention", stage.m, stage.v, range))
    \cup At(stage.query.tensor, Rows(stage.m, stage.query.v, range))

\* AttentionOutputConsumer.__call__ for Q chunk i.
Consume(stage, shape, i, range) ==
  Write(stage, i % shape.outputs, EpilogueNeeds(stage, range), range)

\* Rows held in the post-attention tile or in the carry, one location each.
Posts(stage, place, offset, start, stop) ==
  {<<<<place, stage.out, offset + r - start>>, Tile("post", stage.m, stage.v, {r})>> :
     r \in Slice(start, stop)}

\* What a step of the H3 consumer enqueues; the chunk began at row `first`.
H3Step(stage, shape, step, first, index) ==
  IF step.do = "carry"
  THEN <<Op(Compute, {}, {},
            Posts(stage, "chunk", step.start - first, step.start, step.stop),
            Posts(stage, "carry", step.offset, step.start, step.stop), {}, {}, {})>>
  ELSE Write(stage, index % shape.outputs,
             IF step.from = "carry" THEN Posts(stage, "carry", 0, step.start, step.stop)
             ELSE Posts(stage, "chunk", step.start - first, step.start, step.stop),
             Slice(step.start, step.stop))

\* Steps of one call, the k-th emit of which takes output slot index + k.
H3Steps(stage, shape, steps, first, index) ==
  LET emits(n) == Cardinality({k \in 1 .. n : steps[k].do = "emit"})
      part(n) == H3Step(stage, shape, steps[n + 1], first, index + emits(n))
  IN  Concat(part, Len(steps))

\* H3DeviceOutputConsumer.__call__ for Q chunk i, that is start:stop.
H3Consume(stage, shape, i, stops) ==
  LET start == IF i = 0 THEN 0 ELSE stops[i]
      stop == stops[i + 1]
      steps(state) ==
        H3Steps(stage, shape, H3!CallSteps(state, shape.ffnTile, start, stop), start, state.index)
  IN
  <<Op(Compute, {}, {}, EpilogueNeeds(stage, Slice(start, stop)),
       Posts(stage, "chunk", 0, start, stop), {}, {}, {Consuming(stage)})>>
    \o steps(H3!StateBefore(shape.ffnTile, stops)[i])

\* finish(): what is left in the carry.
H3Finish(stage, shape, stops) ==
  LET steps(state) == H3Steps(stage, shape, H3!FinishSteps(state), 0, state.index)
  IN  steps(H3!StateBefore(shape.ffnTile, stops)[Len(stops)])

-----------------------------------------------------------------------------
(* The call. *)

\* _recover_triton_failure and source.recover(); _run_source_executor then
\* waits for the whole device.  The consumer's flags stay.
RecoverAttention(stage) ==
  IF Recomputes(stage)
  THEN Wait({}, {}, {Device}, {HiddenFree(QueryStaging(stage)), HiddenFree(ContextStaging(stage))})
  ELSE Wait({}, {}, {Inputs(stage), Compute, Writer(stage.out)},
            {QFree(stage), KvFree(stage)})

PipelineEnd(stage) == <<"pipeline_end", stage.name>>

\* Mutant: run_with_device_consumer does not wait for the consumer's copies.
AttentionEndOfPipeline(stage) ==
  <<Op(Compute, {}, {}, {}, {}, {PipelineEnd(stage)}, {}, {}),
    Wait({}, {PipelineEnd(stage)}, {}, {})>>

\* finish() was called; synchronize() and the end of the pipeline.
AttentionEnd(stage) ==
  <<Op(Compute, {}, {}, {}, {}, {PipelineEnd(stage)}, {}, {}),
    Wait({}, {PipelineEnd(stage)}, {Writer(stage.out)}, {})>>

\* The Q chunks of a call.
ChunkStops(stage, shape) ==
  LET tokens == shape.rows[stage.m]
  IN  IF stage.sparse THEN Sol!BalancedStops(tokens, shape.qChunk, 1)
      ELSE Stops(shape.qChunk, tokens)

\* run_with_device_consumer and run_with_qkv_source of both attention runners.
Attention(stage, shape) ==
  LET context == Slice(0, shape.rows[stage.context.m])
      stops == ChunkStops(stage, shape)
      chunk(i) ==
        LET range == Chunk(stops, i + 1)
        IN  LoadQ(stage, range) \o LoadKv(stage, context) \o Attend(stage, range, context)
              \o (IF stage.h3 THEN H3Consume(stage, shape, i, stops)
                  ELSE Consume(stage, shape, i, range))
              \o ReleaseQ(stage)
  IN  Within(RecoverAttention(stage),
             (IF stage.sparse THEN PrepareSegment(stage, context) ELSE <<>>)
               \o Concat(chunk, Len(stops))
               \o (IF stage.h3 THEN H3Finish(stage, shape, stops) ELSE <<>>)
               \o AttentionEnd(stage))

\* MaterializedAttentionExecutor.consume; RecomputedAttentionExecutor.run_self
\* and run_cross hold the lease of the projection as well.
Consumed(stage, shape) ==
  LET within(program) ==
        IF Recomputes(stage) THEN Leased(Projecting(stage), program) ELSE program
  IN  within(Leased(Consuming(stage), Attention(stage, shape)))
=============================================================================
