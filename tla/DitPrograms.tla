---------------------------- MODULE DitPrograms ----------------------------
(***************************************************************************)
(* The block schedules of the DiT runners (dit/wan, dit/ltx2,              *)
(* dit/minimax_h3): which stages a block runs, in which order, on which    *)
(* host tensors, for both storage policies.  The materialized runners work *)
(* in place; the recompute runners write a second tensor and swap the two  *)
(* after each block.                                                       *)
(***************************************************************************)
EXTENDS AttentionProgram, SequencesExt

\* What a runner is: a model and a storage policy.
Kinds == [model : {"wan", "ltx2", "h3"}, policy : {"materialized", "recompute"}]

\* The hidden modalities of a model, and the versions a block takes them
\* through: one for each stage that writes them.
Modalities(model) == IF model = "ltx2" THEN {"video", "audio"} ELSE {"video"}
VersionsPerBlock(model) == CASE model = "wan" -> 3 [] model = "ltx2" -> 4 [] model = "h3" -> 1

\* The host tensors; "video" stands for the one hidden tensor of Wan and H3.
Tensor(m, side) == <<"hidden", m, side>>
TextTensor == Tensor("text", 0)
Text == [tensor |-> TextTensor, m |-> "text", v |-> 0]

\* The tensors a block reads and writes: the same one in place, or the two
\* sides in turn.
SourceSide(kind, block) == IF kind.policy = "recompute" THEN block % 2 ELSE 0
TargetSide(kind, block) == IF kind.policy = "recompute" THEN (block + 1) % 2 ELSE 0

Hidden(m, side, v) == [tensor |-> Tensor(m, side), m |-> m, v |-> v]

\* The stage that makes version v of m from version v - 1 in `query`.
Stage(kind, name, m, v, query, context, target) ==
  [name |-> name, m |-> m, v |-> v, query |-> query, context |-> context,
   target |-> target, policy |-> kind.policy, arena |-> m, out |-> m,
   h3 |-> kind.model = "h3", sparse |-> FALSE]

\* The stage `name` of m from side `from` to side `to`, over itself or a context.
SelfStage(kind, name, m, v, from, to) ==
  Stage(kind, name, m, v, Hidden(m, from, v - 1), Hidden(m, from, v - 1), Tensor(m, to))
CrossStage(kind, name, m, v, from, context, to) ==
  Stage(kind, name, m, v, Hidden(m, from, v - 1), context, Tensor(m, to))

-----------------------------------------------------------------------------
(* A block is a sequence of steps: the projections of an attention stage into *)
(* its arena, the attention call and its epilogue, the FFN on a tensor.       *)

Projection(stage) == [do |-> "materialize", stage |-> stage]
Consumption(stage) == [do |-> "consume", stage |-> stage]
Ffn(name, tensor, m, v) == [do |-> "ffn", name |-> name, tensor |-> tensor, m |-> m, v |-> v]

\* A whole stage: run_self and run_cross of both attention executors.
Run(stage) ==
  IF Recomputes(stage) THEN <<Consumption(stage)>> ELSE <<Projection(stage), Consumption(stage)>>

Perform(step, shape) ==
  CASE step.do = "materialize" -> Materialize(step.stage, shape)
    [] step.do = "consume" -> Consumed(step.stage, shape)
    [] step.do = "ffn" -> TiledStage(step.name, shape, step.tensor, step.m, step.v)

\* WanMaterializedRunner.run_block_ and WanRecomputeRunner.run_block: the
\* cross-attention and the FFN work in place on what the block returns.
WanBlock(kind, block) ==
  LET v == 3 * block
      from == SourceSide(kind, block)
      to == TargetSide(kind, block)
  IN  Run(SelfStage(kind, "self", "video", v + 1, from, to))
        \o Run(CrossStage(kind, "cross", "video", v + 2, to, Text, to))
        \o <<Ffn("ffn", Tensor("video", to), "video", v + 3)>>

\* LTX2MaterializedRunner.run_block_: both directions of the cross-attention
\* between video and audio are materialized before either is consumed.
\* Mutant: each is consumed as soon as it is materialized.
LTX2BidirectionalInTurn(kind, videoFromAudio, audioFromVideo) ==
  Run(videoFromAudio) \o Run(audioFromVideo)

LTX2Bidirectional(kind, videoFromAudio, audioFromVideo) ==
  IF kind.policy = "recompute" THEN Run(videoFromAudio) \o Run(audioFromVideo)
  ELSE <<Projection(videoFromAudio), Projection(audioFromVideo),
         Consumption(videoFromAudio), Consumption(audioFromVideo)>>

\* run_block of both LTX2 runners.  The recompute runner writes the other side
\* with the self-attention, comes back with the text cross-attention, and
\* writes the other side again with the bidirectional one.
LTX2Block(kind, block) ==
  LET v == 4 * block
      source == SourceSide(kind, block)
      target == TargetSide(kind, block)
      self(m) == Run(SelfStage(kind, <<m, "self">>, m, v + 1, source, target))
      text(m) == Run(CrossStage(kind, <<m, "text">>, m, v + 2, target, Text, source))
      from(m, other) ==
        CrossStage(kind, <<m, other>>, m, v + 3, source, Hidden(other, source, v + 2), target)
      ffn(m) == Ffn(<<m, "ffn">>, Tensor(m, target), m, v + 4)
  IN  self("video") \o self("audio") \o text("video") \o text("audio")
        \o LTX2Bidirectional(kind, from("video", "audio"), from("audio", "video"))
        \o <<ffn("video"), ffn("audio")>>

\* H3MaterializedRunner.run_block_ and H3RecomputeRunner.run_block: the FFN is
\* part of the consumer.  use_sol_streaming: the first blocks are dense, later
\* ones sparse; both use the arena and the device buffers of one runner.
H3Block(kind, shape, block) ==
  LET stage == SelfStage(kind, "self", "video", block + 1,
                         SourceSide(kind, block), TargetSide(kind, block))
  IN  Run([stage EXCEPT !.sparse = block >= shape.denseBlocks])

\* run_blocks_
Steps(kind, shape) ==
  LET part(block) ==
        CASE kind.model = "wan" -> WanBlock(kind, block)
          [] kind.model = "ltx2" -> LTX2Block(kind, block)
          [] kind.model = "h3" -> H3Block(kind, shape, block)
  IN  Concat(part, shape.blocks)

Program(kind, shape) ==
  FoldLeft(LAMBDA program, step : program \o Perform(step, shape), <<>>, Steps(kind, shape))

\* Mutant: the destination of the last block after the swap.
ReturnedDestination(kind, shape, m) == Tensor(m, TargetSide(kind, shape.blocks))

\* The tensor of m that run_blocks_ returns.
Returned(kind, shape, m) == Tensor(m, SourceSide(kind, shape.blocks))

LastVersion(kind, shape) == shape.blocks * VersionsPerBlock(kind.model)
=============================================================================
