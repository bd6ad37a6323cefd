----------------------------- MODULE H3Estimate -----------------------------
(***************************************************************************)
(* The offline model of an H3 block (estimation/h3): build_h3_block_       *)
(* execution replays the runner without a device and writes down, for the  *)
(* scheduler, every operation, the operations it waits for and the buffers *)
(* it touches.  A graph is [ops, streams, gate, keep]: H3Graph's           *)
(* operations, the last operation of each stream, host_gate and the        *)
(* release_after marks; an operation is its index, 0 stands for None.      *)
(*                                                                         *)
(* A configuration is [mode, variant, layout, direct, modulation, fused,   *)
(* weights, batch, qChunk, kvTile, projectionTile, ffnTile, kvBuffers,     *)
(* projectionBuffers, outputBuffers].  A buffer is a tuple that begins     *)
(* with its kind; the hidden states in host memory are told apart by row,  *)
(* because a block may write into the tensor it reads.                     *)
(***************************************************************************)
EXTENDS MemoryStatistics, QueryPartition

CONSTANT Cost    \* the seconds of an operation: [io |-> , compute |-> ]

VARIABLES
  config,       \* of the block being estimated
  graph,
  builder       \* the locals of the builder's loops

estimateVars == <<config, graph, builder>>

Consumer == INSTANCE H3Consumer

Streams == {"compute", "projection.h2d", "projection.d2h", "attention.h2d",
            "recompute.h2d", "output.d2h", "weights.h2d"}

NoGraph == [ops |-> <<>>, streams |-> [s \in Streams |-> 0], gate |-> 0, keep |-> <<>>]

Latest(g) == Len(g.ops)

\* The buffer an operation makes: named for the operation, as the next one of g
\* or as its last.
Fresh(kind, g) == <<kind, Len(g.ops) + 1>>
Newest(kind, g) == <<kind, Len(g.ops)>>

Materialized == config.mode = "materialized"
Modulated == config.variant = "modulated"
Staged == config.weights = "staged"
Tokens == Last(config.batch.q)

Rows(tensor, start, stop) == {<<tensor, r>> : r \in start .. stop - 1}

KindOf(key) ==
  CASE key = "control" -> "control" [] key \in {"h2d", "d2h"} -> "io" [] OTHER -> "compute"

\* milestone, and the part op and it share
Entry(g, key, deps, reads, writes) ==
  [g EXCEPT !.ops = Append(@,
     [key |-> key, kind |-> KindOf(key),
      duration |-> CASE KindOf(key) = "control" -> 0
                     [] KindOf(key) = "io" -> Cost.io [] OTHER -> Cost.compute,
      resources |-> CASE KindOf(key) = "control" -> {}
                      [] key \in {"h2d", "d2h"} -> {key} [] OTHER -> {"compute"},
      deps |-> (deps \cup {g.gate}) \ {0}, reads |-> reads, writes |-> writes])]

\* op, copy: an entry behind the last one of its stream.
AddOp(g, key, stream, deps, reads, writes) ==
  [Entry(g, key, deps \cup {g.streams[stream]}, reads, writes)
     EXCEPT !.streams[stream] = Latest(g) + 1]

Milestone(g, deps) == Entry(g, "control", deps, {}, {})
StreamMilestone(g, deps) == AddOp(g, "control", "compute", deps, {}, {})

Compute(g, key, reads, writes) == AddOp(g, key, "compute", {}, reads, writes)
Make(g, key, reads, kind) == Compute(g, key, reads, {Fresh(kind, g)})

\* release_after: the buffer lives through an operation, or through the last one.
Retain(g, buffer, through) ==
  IF buffer = <<>> THEN g ELSE [g EXCEPT !.keep = (buffer :> through) @@ @]
Release(g, buffer) == Retain(g, buffer, Latest(g))

-----------------------------------------------------------------------------
(* The callbacks (estimation/h3/callbacks.py)                              *)

Modulation == IF Modulated THEN {<<"modulation">>} ELSE {}

Modulate(g, key, result) == IF Modulated THEN Compute(g, key, Modulation, {result}) ELSE g

\* normalized, into Fresh("norm", g)
Normalized(g, key, modulate, source) ==
  Modulate(Make(g, key, {source}, "norm"), modulate, Fresh("norm", g))

\* linear, into Fresh("result", g)
Linear(g, key, source) == Make(g, key, {source}, "result")

\* rope up to its table: the positions are cast and copied by the host, which
\* holds back everything submitted after (host_gate).
RopeTable(g) ==
  LET host == Fresh("host.positions", g)
      tile == Fresh("positions", g)
      gated(sent) == [sent EXCEPT !.gate = Latest(sent)]
      angled(h) == Make(h, "rope_angles", {tile}, "angles")
      tabled(h) == Make(h, "rope_table", {Newest("angles", h)}, "table")
  IN  tabled(angled(gated(
        AddOp(Entry(g, "control", {}, {<<"position_ids">>}, {host}),
              "h2d", "compute", {}, {host}, {tile}))))

\* rope of a result that is mutated
RopeInPlace(g, source) ==
  LET turned(h) == Compute(h, "qk_rope", {Newest("table", h)}, {source})
  IN  turned(RopeTable(g))

\* rope into new tensors, the last of them Newest("rotated result", _)
RopeInto(g, source) ==
  LET joined(h, table, unit) ==
        Release(Make(h, "rope_concat", {unit, Newest("rotated", h)}, "rotated result"), table)
      turned(h, table) ==
        joined(Make(h, "rope_rotate", {Newest("qk_norm", h), table}, "rotated"),
               table, Newest("qk_norm", h))
      normed(h) == turned(Make(h, "qk_norm", {source}, "qk_norm"), Newest("table", h))
  IN  normed(RopeTable(g))

\* Copies of `source` into the destinations of a recomputed tile.
CopyInto(g, source, destinations) ==
  FoldLeft(LAMBDA acc, d : AddOp(acc, "d2d", "compute", {}, {source}, {d}), g, destinations)

\* RoPE of a result and its copies into the runtime's slots.
WriteRoped(g, result, mode, destinations) ==
  LET released(h, rotated) == Release(IF mode = "kv" THEN Release(h, result) ELSE h, rotated)
      copied(h, rotated) ==
        released(CopyInto(CopyInto(h, rotated, <<destinations[1]>>), result, Tail(destinations)),
                 rotated)
      roped(h) ==
        copied(IF mode = "q" THEN Release(h, result) ELSE h, Newest("rotated result", h))
  IN  roped(RopeInto(g, result))

\* The linear part of project and what follows it, on a graph that normalized
\* the rows into `source`.
ProjectFrom(g, source, mode, destinations) ==
  LET result == Fresh("result", g)
      direct == config.direct /\ mode # "qkv"
      finished(h) ==
        CASE Modulated /\ mode = "qkv" -> RopeInPlace(h, result)
          [] Modulated /\ mode # "qkv" -> WriteRoped(h, result, mode, destinations)
          [] ~Modulated /\ mode # "qkv" -> Release(CopyInto(h, result, destinations), result)
          [] OTHER -> h
      released(h) == IF Modulated THEN Release(h, source) ELSE h
  IN  [graph |-> released(IF direct THEN Compute(g, mode, {source}, ToSet(destinations))
                          ELSE finished(Linear(g, mode, source))),
       result |-> IF direct THEN <<>> ELSE result]

\* project: the graph and the tensor it returns, <<>> for None.
Project(g, hidden, mode, destinations) ==
  ProjectFrom(IF Modulated THEN Normalized(g, "norm1", "modulate1", hidden) ELSE g,
              IF Modulated THEN Fresh("norm", g) ELSE hidden, mode, destinations)

\* epilogue: the output projection and the residual
Epilogue(g, start, stop) ==
  LET added(h, out, post) ==
        Release(Compute(h, "attention_residual", {out} \cup Modulation, {post}), out)
      loaded(h, post) ==
        added(AddOp(h, "h2d", "compute", {}, Rows("source", start, stop), {post}),
              Newest("result", h), post)
      epilogue(h) == [graph |-> loaded(h, Fresh("post", h)), post |-> Fresh("post", h)]
  IN  epilogue(Linear(g, "out", <<"Q">>))

\* ffn: in place on `source`
Ffn(g, source) ==
  LET norm == Fresh("norm", g)
      added(h, result) ==
        Release(Release(Compute(h, "ffn_residual", {result} \cup Modulation, {source}), norm), result)
      released(h, fc1, activated) ==
        added(Release(Release(h, fc1), activated), Newest("result", h))
      activated(h) == Linear(h, "fc2", Newest("activated", h))
      narrowed(h, fc1) ==
        IF config.fused THEN released(Linear(h, "swiglu_fc2", fc1), fc1, <<>>)
        ELSE released(activated(Make(h, "swiglu", {fc1}, "activated")), fc1, Fresh("activated", h))
      widened(h) == narrowed(Linear(h, "fc1", norm), Fresh("result", h))
  IN  widened(Normalized(g, "norm2", "modulate2", source))

-----------------------------------------------------------------------------
(* The consumer (estimation/h3/consumer.py): [graph, carry, carryStart,    *)
(* index, free, steps], free being output_free by slot and steps what it   *)
(* does to the rows, in the terms of H3Consumer.                           *)

NewConsumer(g) ==
  [graph |-> g, carry |-> 0, carryStart |-> 0, index |-> 0,
   free |-> [s \in 1 .. config.outputBuffers |-> 0], steps |-> <<>>]

Sent(c, ffn, source, from, start, stop) ==
  LET slot == (c.index % config.outputBuffers) + 1
      packed == CopyInto(ffn, source, <<<<"output", slot>>>>)
      target == IF Materialized THEN "source" ELSE "hidden.output"
      sent == AddOp(packed, "d2h", "output.d2h", {Latest(packed)}, {<<"output", slot>>},
                    Rows(target, start, stop))
  IN  [c EXCEPT !.graph = sent, !.free[slot] = Latest(sent), !.index = @ + 1,
                !.steps = Append(@, Consumer!Emit(from, start, stop))]

\* Mutant: the tile is packed into its slot without waiting for the slot.
EmitUngated(c, source, from, start, stop) ==
  Sent(c, Ffn(c.graph, source), source, from, start, stop)

\* emit: wait for the output slot, FFN, pack and copy out.
Emit(c, source, from, start, stop) ==
  LET slot == (c.index % config.outputBuffers) + 1
  IN  Sent(c, Ffn(StreamMilestone(c.graph, {c.free[slot]}), source), source, from, start, stop)

Carried(c, post, start, stop, offset) ==
  [c EXCEPT !.graph = CopyInto(@, post, <<<<"carry">>>>), !.carry = offset + (stop - start),
            !.steps = Append(@, Consumer!Copy(start, stop, offset))]

\* Mutant: a full carry is emitted again at the end of the block.
FilledKeepingCarry(c, take) == IF c.carry = config.ffnTile
  THEN Emit(c, <<"carry">>, "carry", c.carryStart, c.carryStart + c.carry) ELSE c

\* A full carry is emitted.
Filled(c, take) ==
  IF take > 0 /\ c.carry = config.ffnTile
  THEN [Emit(c, <<"carry">>, "carry", c.carryStart, c.carryStart + c.carry) EXCEPT !.carry = 0]
  ELSE c

\* consume: the rows of a Q chunk, in FFN tiles; what fills none is carried.
ConsumePost(c, post, start, stop) ==
  LET tile == config.ffnTile
      take == IF c.carry > 0 THEN AtMost(tile - c.carry, stop - start) ELSE 0
      direct == (stop - start - take) \div tile
      first == start + take
      cursor == first + direct * tile
      appended == IF take > 0 THEN Carried(c, post, start, first, c.carry) ELSE c
      emitted == FoldLeft(
        LAMBDA acc, n : Emit(acc, post, "chunk", first + (n - 1) * tile, first + n * tile),
        Filled(appended, take), [n \in 1 .. direct |-> n])
      tailed(d) == IF cursor < stop
                   THEN [Carried(d, post, cursor, stop, 0) EXCEPT !.carryStart = cursor] ELSE d
  IN  [tailed(emitted) EXCEPT !.graph = Release(StreamMilestone(@, {}), post)]

Consume(c, start, stop) ==
  LET consumed(epilogue) ==
        ConsumePost([c EXCEPT !.graph = epilogue.graph], epilogue.post, start, stop)
  IN  consumed(Epilogue(c.graph, start, stop))

\* finish
FinishConsumer(c) ==
  LET closed(d) ==
        [d EXCEPT !.graph = Milestone(@, {d.free[s] : s \in DOMAIN d.free} \cup {@.streams["compute"]})]
  IN  closed(IF c.carry > 0
             THEN Emit(c, <<"carry">>, "carry", c.carryStart, c.carryStart + c.carry) ELSE c)

-----------------------------------------------------------------------------
(* The pipeline (estimation/h3/pipeline.py)                                *)

\* _weight_group; the operation that brings staged weights, 0 for resident ones
LoadWeights(g, group, deps) ==
  IF Staged THEN AddOp(g, "h2d", "weights.h2d", deps, {<<"host.weights", group>>},
                       {<<"weights", group>>})
  ELSE g
WeightsReady(g) == IF Staged THEN Latest(g) ELSE 0

NoBuilder == [phase |-> "idle"]

\* The loops of _materialize and of _attention begin.
Projecting(g, c) ==
  [graph |-> g,
   builder |-> [phase |-> "project", index |-> 0, gate |-> 0, weights |-> WeightsReady(g),
                done |-> [s \in 1 .. c.projectionBuffers |-> 0],
                result |-> [s \in 1 .. c.projectionBuffers |-> <<>>], previous |-> <<>>]]

Attending(g, c) ==
  [graph |-> g,
   builder |-> [phase |-> "attend", index |-> 1, ready |-> Latest(g),
                kvFree |-> [s \in 1 .. c.kvBuffers |-> 0], qFree |-> 0, hiddenFree |-> 0,
                consumer |-> NewConsumer(g)]]

Becomes(next) == graph' = next.graph /\ builder' = next.builder

\* build_h3_block_execution up to its first loop
BeginEstimate(c) ==
  /\ builder.phase = "idle" /\ config = c
  /\ LET waited(g) == IF Staged THEN StreamMilestone(g, {Latest(g)}) ELSE g
         modulated(g) == IF Modulated /\ c.modulation
                         THEN Compute(g, "adaln", {<<"timestep">>}, Modulation) ELSE g
         prepared(g, projection) ==
           Attending(StreamMilestone(g, {projection, WeightsReady(g)}), c)
         loop(g) == IF Materialized THEN Projecting(g, c)
                    ELSE prepared(LoadWeights(g, "consumer", {}), WeightsReady(g))
     IN  Becomes(loop(LoadWeights(modulated(waited(LoadWeights(NoGraph, "auxiliary", {}))),
                                  "projection", {})))
  /\ UNCHANGED config

\* The copies of a projected tile to the host, packed first when it is strided.
StoreTile(g, result, tokens) ==
  LET projected == Latest(g)
      store(acc, tensor) ==
        LET packed == <<"packed", tensor, projected>>
            strided == config.layout = "strided" /\ tokens > 1
            pack == AddOp(acc, "d2d", "projection.d2h", {projected}, {result}, {packed})
        IN  IF strided
            THEN AddOp(pack, "d2h", "projection.d2h", {Latest(pack)}, {packed}, {<<"host", tensor>>})
            ELSE AddOp(acc, "d2h", "projection.d2h", {Latest(acc)}, {result}, {<<"host", tensor>>})
  IN  FoldLeft(store, g, <<"Q", "K", "V">>)

\* The hidden rows of a tile reach their slot, once what was in it is done.
StageTile(g, b, slot, start, stop) ==
  LET gate == Latest(g) + 1
      gated == [Milestone(g, {b.gate, b.done[slot]}) EXCEPT !.gate = gate]
      copied == AddOp(Retain(gated, b.result[slot], gate), "h2d", "projection.h2d", {gate},
                      Rows("source", start, stop), {<<"projection.hidden", slot>>})
      input(h) == StreamMilestone(h, {Latest(h), b.weights})
  IN  input(copied)

\* One tile of _materialize.
ProjectTile ==
  /\ builder.phase = "project"
  /\ LET b == builder
         start == b.index * config.projectionTile
         stop == AtMost(start + config.projectionTile, Tokens)
         slot == (b.index % config.projectionBuffers) + 1
         stored(g, result) ==
           [graph |-> g,
            builder |-> [b EXCEPT !.index = @ + 1, !.gate = Latest(graph) + 1,
                                  !.done[slot] = Latest(g), !.result[slot] = result,
                                  !.previous = result]]
         kept(g) == IF config.projectionBuffers = 1 THEN Release(g, b.previous) ELSE g
         projected(tile) ==
           stored(StoreTile(kept(tile.graph), tile.result, stop - start), tile.result)
     IN  /\ start < Tokens
         /\ Becomes(projected(Project(StageTile(graph, b, slot, start, stop),
                                      <<"projection.hidden", slot>>, "qkv", <<>>)))
  /\ UNCHANGED config

\* The end of _materialize and the start of attention.
GlobalBarrier ==
  /\ builder.phase = "project"
  /\ builder.index * config.projectionTile >= Tokens
  /\ LET b == builder
         barrier == Latest(graph) + 1
         closed == [Milestone(graph, {b.done[s] : s \in DOMAIN b.done}) EXCEPT !.gate = barrier]
         retained == FoldLeft(LAMBDA g, r : Retain(g, r, barrier), closed, b.result)
         freed == Retain(retained, <<"weights", "projection">>, barrier)
         prepared(g) == Attending(StreamMilestone(g, {barrier, WeightsReady(g)}), config)
     IN  Becomes(prepared(LoadWeights(freed, "consumer", {barrier})))
  /\ UNCHANGED config

\* q_ranges: the Q chunks of the segments
QueryRanges ==
  FlattenSeq([s \in Segments(config.batch.q) |->
    LET pieces == Pieces(config.batch.q[s], config.batch.q[s + 1], config.qChunk)
    IN  [i \in DOMAIN pieces |-> [start |-> pieces[i][1], stop |-> pieces[i][2], segment |-> s]]])

\* Staging hidden rows for a recomputed tile, then projecting them.
Recompute(g, deps, start, stop, mode, destinations) ==
  LET input(h) == StreamMilestone(h, {Latest(h)})
      staged == AddOp(g, "h2d", "recompute.h2d", deps, Rows("source", start, stop), {<<"recompute.hidden">>})
  IN  Project(input(staged), <<"recompute.hidden">>, mode, destinations).graph

\* Q of a chunk: copied from the host, or projected again.
LoadQ(g, b, q) ==
  LET loaded(h) == StreamMilestone(h, {Latest(h)})
  IN  IF Materialized
      THEN loaded(AddOp(g, "h2d", "attention.h2d", {b.ready, b.qFree}, {<<"host", "Q">>}, {<<"Q">>}))
      ELSE Recompute(g, {b.ready, b.hiddenFree}, q.start, q.stop, "q", <<<<"Q">>>>)

HiddenFreed(b, g) == IF Materialized THEN b ELSE [b EXCEPT !.hiddenFree = Latest(g)]

\* Mutant: K/V go into the next slot whatever still reads it.
KvDepsNone(b, slot) == {b.ready}

KvDeps(b, slot) == {b.ready, b.kvFree[slot]}

\* K/V of a tile, into their slot.
LoadKv(b, g, slot, piece) ==
  LET copy(acc, t) ==
        AddOp(acc, "h2d", "attention.h2d", KvDeps(b, slot), {<<"host", t>>}, {<<t, slot>>})
      loaded(h) == StreamMilestone(h, {Latest(h)})
  IN  IF Materialized THEN loaded(FoldLeft(copy, g, <<"K", "V">>))
      ELSE Recompute(g, {b.hiddenFree}, piece[1], piece[2], "kv", <<<<"K", slot>>, <<"V", slot>>>>)

\* The tile of K/V at `piece`, into slot n modulo the buffers, and the update.
AttendTile(b, g, n, piece) ==
  LET slot == ((n - 1) % config.kvBuffers) + 1
      freed(builder1, h) == [graph |-> h, builder |-> [builder1 EXCEPT !.kvFree[slot] = Latest(h)]]
      updated(h) ==
        freed(HiddenFreed(b, h),
              Compute(h, "attention", {<<"Q">>, <<"K", slot>>, <<"V", slot>>},
                      {<<"accumulator">>, <<"running">>}))
  IN  updated(LoadKv(b, g, slot, piece))

\* The K/V of a segment for one Q chunk.
ScanSegment(b, g, segment) ==
  LET tiles == Pieces(config.batch.q[segment], config.batch.q[segment + 1], config.kvTile)
  IN  FoldLeft(LAMBDA acc, n : AttendTile(acc.builder, acc.graph, n, tiles[n]),
               [builder |-> b, graph |-> g], [n \in DOMAIN tiles |-> n])

\* One Q chunk of _attention.
AttendQuery ==
  /\ builder.phase = "attend" /\ builder.index <= Len(QueryRanges)
  /\ LET q == QueryRanges[builder.index]
         consumed(c, b) ==
           [graph |-> c.graph,
            builder |-> [b EXCEPT !.index = @ + 1, !.consumer = c, !.qFree = Latest(c.graph)]]
         final(g) == Compute(g, "finalize", {<<"accumulator">>, <<"running">>}, {<<"Q">>})
         scanned(n) ==
           consumed(Consume([n.builder.consumer EXCEPT !.graph = final(n.graph)], q.start, q.stop),
                    n.builder)
         loaded(g) == ScanSegment(HiddenFreed(builder, g), g, q.segment)
     IN  Becomes(scanned(loaded(LoadQ(graph, builder, q))))
  /\ UNCHANGED config

WeightsOf(key) ==
  CASE key \in {"qkv", "q", "kv"} -> {<<"weights", "projection">>}
    [] key \in {"out", "fc1", "fc2", "swiglu_fc2"} -> {<<"weights", "consumer">>}
    [] key \in {"norm1", "norm2", "qk_rope", "qk_norm", "adaln"} -> {<<"weights", "auxiliary">>}
    [] OTHER -> {}

Persistent(buffer) ==
  \/ buffer[1] \in {"source", "hidden.output", "Q", "accumulator", "running", "K", "V", "carry",
                    "output", "host", "projection.hidden", "recompute.hidden", "host.weights",
                    "position_ids", "timestep"}
  \/ buffer[1] = "weights" /\ ~Staged
  \/ buffer[1] = "modulation" /\ ~config.modulation

\* finish: the operations with their weights, and the buffers of BufferSpec.
Built(g) ==
  LET ops == [i \in DOMAIN g.ops |->
                [g.ops[i] EXCEPT !.reads = @ \cup
                   (IF config.weights = "none" THEN {} ELSE WeightsOf(g.ops[i].key))]]
      touched(b) == {i \in DOMAIN ops : b \in ops[i].reads \cup ops[i].writes}
      used == UNION {ops[i].reads \cup ops[i].writes : i \in DOMAIN ops}
      buffers == FoldSet(LAMBDA b, listed : Append(listed, b), <<>>, used)
      host == {"source", "hidden.output", "host", "host.weights", "host.positions", "position_ids"}
  IN  [policy |-> "earliest_ready", ops |-> ops,
       buffers |-> [n \in DOMAIN buffers |->
         LET b == buffers[n]
         IN  [pool |-> IF b[1] \in host THEN "host" ELSE "device", size |-> 1,
              persistent |-> Persistent(b), uses |-> touched(b),
              keep |-> IF b \in DOMAIN g.keep /\ ~Persistent(b) THEN g.keep[b] ELSE 0]]]

\* The end of build_h3_block_execution; the execution goes to the scheduler.
FinishEstimate ==
  /\ builder.phase = "attend" /\ builder.index > Len(QueryRanges)
  /\ LET ends == {<<"weights", "consumer">>, <<"weights", "auxiliary">>, <<"modulation">>}
                   \cup (IF Materialized THEN {} ELSE {<<"weights", "projection">>})
         freed(g) == FoldSet(LAMBDA b, h : Retain(h, b, Latest(g)), g, ends)
         built(c) == [graph |-> freed(c.graph), builder |-> [phase |-> "built", steps |-> c.steps]]
     IN  Becomes(built(FinishConsumer([builder.consumer EXCEPT !.graph = graph])))
  /\ StartSchedule(Built(graph'))
  /\ UNCHANGED config

EstimateNext ==
  \/ (BeginEstimate(config) \/ ProjectTile \/ GlobalBarrier \/ AttendQuery)
       /\ UNCHANGED scheduleVars
  \/ FinishEstimate

-----------------------------------------------------------------------------
JustBuilt == builder.phase = "built" /\ outcome = "scheduling" /\ events = <<>>

\* The operations that are over before i starts in every schedule: those it
\* depends on, directly or not.
Ancestors ==
  FoldLeft(LAMBDA over, op : Append(over, op.deps \cup UNION {over[d] : d \in op.deps}),
           <<>>, execution.ops)

\* i is over before j starts; one that takes no time and no resource is over
\* when those it depends on are.
OverBefore(over, i, j) ==
  i \in over[j] \/ (Op(i).kind = "control" /\ Op(i).deps \subseteq over[j])

Conflict(i, j) ==
  \/ Op(i).writes \cap (Op(j).reads \cup Op(j).writes) # {}
  \/ Op(i).reads \cap Op(j).writes # {}

\* "Dependencies encode data hazards, stream order, and ring-slot reuse"
\* (estimation/schedule.py:97): whatever the durations, of two operations that
\* touch a buffer or a row, one of them writing, the one issued first is over
\* before the other starts; and a buffer released after an operation was used
\* by it or before it, so no schedule makes _lifetimes raise.
EstimateIsOrdered ==
  JustBuilt =>
    LET over == Ancestors
    IN  /\ \A j \in Indices : \A i \in 1 .. j - 1 : Conflict(i, j) => OverBefore(over, i, j)
        /\ \A b \in ToSet(execution.buffers) :
             b.keep # 0 => \A i \in b.uses \ {b.keep} : OverBefore(over, i, b.keep)

\* The consumer's states and steps over the Q chunks, as the runner's consumer
\* (H3Consumer) takes them.
RunnerSteps ==
  LET tasks == BuildTasks(config.batch, config.qChunk, 0, Tokens)
      run[n \in 0 .. Len(tasks)] ==
        IF n = 0 THEN [state |-> Consumer!Fresh(0), steps |-> <<>>]
        ELSE LET before == run[n - 1]
                 t == tasks[n]
             IN  [state |-> Consumer!Called(before.state, config.ffnTile, t.start, t.stop),
                  steps |-> before.steps \o
                    Consumer!CallSteps(before.state, config.ffnTile, t.start, t.stop)]
      last == run[Len(tasks)]
  IN  last.steps \o Consumer!FinishSteps(last.state)

\* "Mirror H3DeviceOutputConsumer's carry/emit/finish state machine"
\* (estimation/h3/consumer.py:1): over the query tasks of the runner it copies
\* and emits the same rows, from the same places, in the same order.
EstimateMirrorsRunner == JustBuilt => builder.steps = RunnerSteps
=============================================================================
