---------------------------- MODULE TileProgram ----------------------------
(***************************************************************************)
(* What one host thread does to compute a model stage over bounded device  *)
(* tiles: the instructions of the two projection pipelines                 *)
(* (projection/materialized.py, streaming/tile_source.py), of the tiled    *)
(* pointwise stage (dit/common/tiled.py) and of an attention call with a   *)
(* device consumer (streaming/executor.py, dit/common/consumer.py).        *)
(*                                                                         *)
(* A location holds a set of names, each the exact value of one row: of    *)
(* the hidden state <<m, v, r>> (modality, version, row), or of a tile     *)
(* <<what, m, v, r>> computed on the way to version v.  An operation says  *)
(* what its inputs must hold and what it then puts into its outputs; with  *)
(* any other input its outputs are wrong.                                  *)
(***************************************************************************)
EXTENDS Naturals, Sequences

Rows(m, v, range) == {<<m, v, r>> : r \in range}
Tile(what, m, v, range) == {<<what, m, v, r>> : r \in range}

\* start:stop
Slice(start, stop) == {r \in start .. stop : r < stop}

\* The host tensor (or arena) t holds the rows of `names`, one per location.
At(t, names) == {<<Append(t, n[Len(n)]), {n}>> : n \in names}
Holds(location, names) == {<<location, names>>}

-----------------------------------------------------------------------------
(* Instructions. *)

\* Enqueue an operation: wait for `waits`, and for the `guards` that are
\* flagged; record `records` behind it and set `flags`.  It reads the weights
\* of the leases `uses`.
Op(stream, guards, waits, needs, gives, records, flags, uses) ==
  [do |-> "op", stream |-> stream, guards |-> guards, waits |-> waits,
   needs |-> needs, gives |-> gives, records |-> records, flags |-> flags,
   uses |-> uses]

\* Block until the flagged `guards` and the `events` are reached and the
\* streams are idle, then clear `clears`.
Wait(guards, events, streams, clears) ==
  [do |-> "wait", guards |-> guards, events |-> events, streams |-> streams,
   clears |-> clears]

\* Enter and leave a `with` block that leases weights.
Lease(enter, leave) == [do |-> "lease", enter |-> enter, leave |-> leave]

\* What a program is: instructions with the recovery of the innermost `except`
\* around each.
Within(recovery, instructions) ==
  [i \in 1 .. Len(instructions) |-> [do |-> instructions[i], recovery |-> recovery]]

Leased(lease, program) ==
  Within(Wait({}, {}, {}, {}), <<Lease({lease}, {})>>)
    \o program
    \o Within(Wait({}, {}, {}, {}), <<Lease({}, {lease})>>)

\* The concatenation of Part(0) .. Part(n - 1).
Concat(Part(_), n) ==
  LET upTo[i \in 0 .. n] == IF i = 0 THEN <<>> ELSE upTo[i - 1] \o Part(i - 1)
  IN  upTo[n]

\* Consecutive chunks, given by their stops: those of range(0, tokens, size).
Stops(size, tokens) ==
  [i \in 1 .. (tokens + size - 1) \div size |-> IF i * size < tokens THEN i * size ELSE tokens]

Chunk(stops, i) == Slice(IF i = 1 THEN 0 ELSE stops[i - 1], stops[i])

-----------------------------------------------------------------------------
(* Rings of staging slots: ProjectionWorkspace and TiledStageWorkspace. *)

Compute == <<"compute">>
H2d(w) == <<"h2d", w>>
D2h(w) == <<"d2h", w>>
InputReady(w, s) == <<"input_ready", w, s>>
ResultReady(w, s) == <<"result_ready", w, s>>
CopyDone(w, s) == <<"copy_done", w, s>>
Staged(w, s) == <<"staged", w, s>>
Block(w, b) == <<"block", w, b>>

\* Mutant: the slot does not keep the result alive.
BlockOfUnkept(i, slots) == i % 2

\* The allocator block of tile i's result.  A result is alive while the local
\* variable or its slot's keepalive refers to it; a block is reused at once
\* for work on the compute stream.
BlockOf(i, slots) == i % (IF slots = 1 THEN 2 ELSE slots)

\* Tile i of a ring of w: rows from `source` are staged, turned into `result`
\* under a lease, and copied to `target`.  busy[slot] is the flag copy_done.
RingTile(w, slots, i, source, staged, result, target, lease) ==
  LET s == i % slots
      block == Block(w, BlockOf(i, slots))
  IN <<Wait({CopyDone(w, s)}, {}, {}, {CopyDone(w, s)}),
       Op(H2d(w), {}, {}, source, Holds(Staged(w, s), staged), {InputReady(w, s)}, {}, {}),
       Op(Compute, {}, {InputReady(w, s)}, Holds(Staged(w, s), staged),
          Holds(block, result), {ResultReady(w, s)}, {}, {lease}),
       Op(D2h(w), {}, {ResultReady(w, s)}, Holds(block, result), target,
          {CopyDone(w, s)}, {CopyDone(w, s)}, {})>>

RingFlags(w, slots) == {CopyDone(w, s) : s \in 0 .. slots - 1}

RingEnd(w, slots) == <<Wait({}, {}, {D2h(w)}, RingFlags(w, slots))>>

\* Mutant: recover() does not wait for the copies to the host.
RecoverRingOfInputs(w, slots) ==
  Wait({}, {}, {H2d(w), Compute}, RingFlags(w, slots))

\* Mutant: recover() only waits for the copies.
RecoverRingOfCopies(w, slots) ==
  Wait({}, {}, {H2d(w), D2h(w)}, RingFlags(w, slots))

\* ProjectionWorkspace.recover.
RecoverProjection(w, slots) ==
  Wait({}, {}, {H2d(w), Compute, D2h(w)}, RingFlags(w, slots))

\* Where an arena holds a projection: Sol's INT8 K/V borrow the bytes of K/V.
ArenaTensor(arena, what) == <<"arena", arena, IF what = "int8" THEN "kv" ELSE what>>

\* _run_tiles: project the rows of a source hidden tensor into the arena, in
\* the ranges that end at `stops`.  `parts` are the projections of a tile.
ProjectTiles(w, shape, source, stops, parts, arena, to, lease) ==
  LET part(i) ==
        LET range == Chunk(stops, i + 1)
            rows == Rows(source.m, source.v, range)
            result == UNION {Tile(p, to.m, to.v, range) : p \in parts}
        IN  RingTile(w, shape.slots, i, At(source.tensor, rows), rows, result,
                     UNION {At(ArenaTensor(arena, p), Tile(p, to.m, to.v, range)) : p \in parts}, lease)
  IN  Within(RecoverProjection(w, shape.slots),
             Concat(part, Len(stops)) \o RingEnd(w, shape.slots))

\* torch.cuda.synchronize(device).
Device == <<"device">>

\* TiledHostStageRunner.run over one host tensor, under the lease of the stage.
TiledStage(name, shape, tensor, m, v) ==
  LET w == <<name, "tile">>
      stops == Stops(shape.ffnTile, shape.rows[m])
      part(i) ==
        LET range == Chunk(stops, i + 1)
        IN  RingTile(w, 2, i, At(tensor, Rows(m, v - 1, range)), Rows(m, v - 1, range),
                     Rows(m, v, range), At(tensor, Rows(m, v, range)), w)
  IN  Leased(w, Within(Wait({}, {}, {Device}, RingFlags(w, 2)),
                       Concat(part, Len(stops)) \o RingEnd(w, 2)))
=============================================================================
