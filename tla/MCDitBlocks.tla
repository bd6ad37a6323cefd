---------------------------- MODULE MCDitBlocks ----------------------------
(* DitBlocks with the smallest tensors whose tiles do not divide them. *)
EXTENDS DitBlocks

Kind(model, policy) == [model |-> model, policy |-> policy]

MCRunners == Kinds

\* Wan: 3 rows in Q chunks of 2, projected and fed forward row by row through
\* 3 slots.  LTX2: 2 video rows, 1 audio row.  H3: 5 rows in Q chunks of 3 and
\* FFN tiles of 2, so rows are carried over a chunk and left at the end; the
\* first block is dense, the others are sparse.
MCShape ==
  [k \in Kinds |->
     CASE k.model = "wan" ->
            [rows |-> [video |-> 3, text |-> 1], qChunk |-> 2, projectionTile |-> 1,
             ffnTile |-> 1, slots |-> 3, outputs |-> 2, blocks |-> 2]
       [] k.model = "ltx2" ->
            [rows |-> [video |-> 2, audio |-> 1, text |-> 1], qChunk |-> 1,
             projectionTile |-> 1, ffnTile |-> 1, slots |-> 1, outputs |-> 1, blocks |-> 2]
       [] k.model = "h3" ->
            [rows |-> [video |-> 5], qChunk |-> 3, projectionTile |-> 3,
             ffnTile |-> 2, slots |-> 2, outputs |-> 2, blocks |-> 3, denseBlocks |-> 1]]

MCRetried == Kinds
=============================================================================
