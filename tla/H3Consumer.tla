----------------------------- MODULE H3Consumer -----------------------------
(***************************************************************************)
(* H3DeviceOutputConsumer (dit/minimax_h3/consumer.py) as a function: it   *)
(* is handed post-attention rows in Q chunks and emits them to the FFN in  *)
(* tiles of another size, carrying what is left of a chunk over to the     *)
(* next one.  A state is [next, carryStart, carry, index]: next_token,     *)
(* carry_start, carry_tokens and output_index.                             *)
(***************************************************************************)
EXTENDS Naturals, Sequences

Least(a, b) == IF a < b THEN a ELSE b

\* reset() for the range that starts at `start`.
Fresh(start) == [next |-> start, carryStart |-> start, carry |-> 0, index |-> 0]

\* begin_task: the slots go on from where the last task left them.
TaskBegun(c, start) == [c EXCEPT !.next = start, !.carryStart = start]

\* What the consumer does to the rows of a chunk: copy [start, stop) into the
\* carry at `offset`, or emit [start, stop) from the carry or the chunk.
Copy(start, stop, offset) == [do |-> "carry", start |-> start, stop |-> stop, offset |-> offset]
Emit(from, start, stop) == [do |-> "emit", from |-> from, start |-> start, stop |-> stop]

\* Emits of whole tiles, `count` of them from `start`.
Direct(start, tile, count) ==
  [i \in 1 .. count |-> Emit("chunk", start + (i - 1) * tile, start + i * tile)]

\* The parts of __call__ on the chunk start:stop: rows taken to fill the
\* carry, whether that fills it, whole tiles emitted, rows left over.
Split(c, tile, start, stop) ==
  LET tokens == stop - start
      take == IF c.carry > 0 THEN Least(tile - c.carry, tokens) ELSE 0
      direct == (tokens - take) \div tile
  IN  [take |-> take, full |-> c.carry > 0 /\ c.carry + take = tile,
       direct |-> direct, cursor |-> take + direct * tile, tokens |-> tokens]

CallSteps(c, tile, start, stop) ==
  LET steps(p) ==
        (IF p.take > 0 THEN <<Copy(start, start + p.take, c.carry)>> ELSE <<>>)
          \o (IF p.full THEN <<Emit("carry", c.carryStart, c.carryStart + tile)>> ELSE <<>>)
          \o Direct(start + p.take, tile, p.direct)
          \o (IF p.cursor < p.tokens THEN <<Copy(start + p.cursor, stop, 0)>> ELSE <<>>)
  IN  steps(Split(c, tile, start, stop))

\* The rows carried after a chunk that was split into p, and the first of them.
CarryAfter(c, p) ==
  IF p.cursor < p.tokens THEN p.tokens - p.cursor
  ELSE IF p.full THEN 0 ELSE c.carry + p.take

\* Mutant: carry_start stays where the first carry began.
CarryStartKept(c, p, start) == c.carryStart

CarryStartAfter(c, p, start) == IF p.cursor < p.tokens THEN start + p.cursor ELSE c.carryStart

\* The state after __call__ outside a task.
Called(c, tile, start, stop) ==
  LET called(p) ==
        [next |-> stop, carryStart |-> CarryStartAfter(c, p, start), carry |-> CarryAfter(c, p),
         index |-> c.index + p.direct + (IF p.full THEN 1 ELSE 0)]
  IN  called(Split(c, tile, start, stop))

\* _finish_range
FinishSteps(c) ==
  IF c.carry > 0 THEN <<Emit("carry", c.carryStart, c.carryStart + c.carry)>> ELSE <<>>

\* Inside a task the chunk must be the whole task and is emitted at once.
TaskSteps(start, stop) == <<Emit("chunk", start, stop)>>
Tasked(c, stop) == [c EXCEPT !.next = stop, !.index = c.index + 1]

\* The states between the chunks that end at `stops`, the first before them all.
StateBefore(tile, stops) ==
  LET next(c, stop) == Called(c, tile, c.next, stop)
      before[i \in 0 .. Len(stops)] == IF i = 0 THEN Fresh(0) ELSE next(before[i - 1], stops[i])
  IN  before
=============================================================================
