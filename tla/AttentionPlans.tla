--------------------------- MODULE AttentionPlans ---------------------------
(***************************************************************************)
(* How the chunk sizes of a runner are resolved against its workspace      *)
(* budget: build_attention_plan (plan.py) and the sparse runtime derived   *)
(* from it, build_sol_streaming_plan (sparse/plan.py).  A request is       *)
(* [maxQ, maxKv, q, kv, blockM, blockN, budget, heads, dim, element,       *)
(* kvBuffers, outputs, sage]; q and budget are 0 for None, outputs is 0 in *)
(* device_consumer mode.                                                   *)
(***************************************************************************)
EXTENDS Arithmetic, FiniteSetsExt

CONSTANTS
  Reserve,        \* the bytes set apart for the allocator (32 MiB)
  SageReserve,    \* and for the vendor's own (2 MiB)
  SageBlock,      \* the rows Sage3 pads its packed tensors to (128)
  RouteBlock      \* SOL_BLOCK_TOKENS (64)

AlignDown(value, alignment) == value - (value % alignment)
AlignUp(value, alignment) == CeilDiv(value, alignment) * alignment

\* workspace_bound_bytes of sage3_backend.py
SageBytes(r, q, kv) ==
  LET rows == AlignUp(q, SageBlock)
      keys == AlignUp(kv, SageBlock)
      qe == rows * r.heads * r.dim
      ke == keys * r.heads * r.dim
  IN  r.element * (5 * qe + 6 * ke + (qe \div SageBlock) + r.heads * r.dim)
        + (9 * (qe + 2 * ke) + 15) \div 16
        + 4 * (r.heads * (rows \div SageBlock) * keys + 2 * r.heads * rows)
        + SageReserve

\* estimate_workspace_bytes (equal Q and K/V heads)
WorkspaceBytes(r, q, kv) ==
  q * r.heads * r.dim * r.element * (1 + r.outputs)
    + q * r.heads * (r.dim + 2) * 4
    + r.kvBuffers * 2 * kv * r.heads * r.dim * r.element
    + Reserve
    + (IF r.sage THEN SageBytes(r, q, kv) ELSE 0)

\* _normalize_chunk
NormalizeChunk(requested, maximum, alignment) ==
  AtMost(maximum, AtLeast(AtMost(alignment, maximum),
                          AlignDown(AtMost(requested, maximum), alignment)))

Raised(why) == [raised |-> why]

\* Mutant: the search skips a block after every chunk that fits.
LargestSteppingBack(r, kv) ==
  LET least == AtMost(r.blockM, r.maxQ)
      search[low \in Nat, high \in Nat, best \in Nat] ==
        LET candidate == AtLeast(least, AlignDown((low + high) \div 2, r.blockM))
        IN  IF low > high THEN best
            ELSE IF WorkspaceBytes(r, candidate, kv) <= r.budget
            THEN search[candidate + 2 * r.blockM, high, candidate]
            ELSE search[low, AtLeast(candidate, r.blockM) - r.blockM, best]
  IN  IF r.budget = 0 THEN r.maxQ ELSE search[least, r.maxQ, least]

\* _largest_q_chunk_that_fits once the smallest one does: bisection over the
\* multiples of blockM.
Largest(r, kv) ==
  LET least == AtMost(r.blockM, r.maxQ)
      search[low \in Nat, high \in Int, best \in Nat] ==
        LET candidate == AtLeast(least, AlignDown((low + high) \div 2, r.blockM))
        IN  IF low > high THEN best
            ELSE IF WorkspaceBytes(r, candidate, kv) <= r.budget
            THEN search[candidate + r.blockM, high, candidate]
            ELSE search[low, candidate - r.blockM, best]
  IN  IF r.budget = 0 THEN r.maxQ ELSE AtMost(search[least, r.maxQ, least], r.maxQ)

\* build_attention_plan: the chunks, or the error it raises.
AttentionPlan(r) ==
  LET kv == NormalizeChunk(r.kv, r.maxKv, r.blockN)
      fits(q) == r.budget = 0 \/ WorkspaceBytes(r, q, kv) <= r.budget
      q == IF r.q = 0 THEN Largest(r, kv) ELSE NormalizeChunk(r.q, r.maxQ, r.blockM)
  IN  IF r.q = 0 /\ ~fits(AtMost(r.blockM, r.maxQ)) THEN Raised("budget too small")
      ELSE IF ~fits(q) THEN Raised("chunks exceed the budget")
      ELSE [q |-> q, kv |-> kv, bytes |-> WorkspaceBytes(r, q, kv)]

-----------------------------------------------------------------------------
(* Sol                                                                     *)

\* _aligned_chunk, 0 when it raises
RouteChunk(tokens, maximum) ==
  IF maximum <= RouteBlock THEN maximum ELSE AlignDown(AtMost(tokens, maximum), RouteBlock)

\* _sparse_workspace_bytes: the summaries of all K/V blocks, the statistics of
\* K, thresholds and route counts per Q block, the route totals, and the
\* quantized K/V with two scales a block.
SparseBytes(r, q, kv) ==
  2 * CeilDiv(r.maxKv, RouteBlock) * r.heads * r.dim * r.element
    + 2 * r.heads * r.dim * 4
    + CeilDiv(q, RouteBlock) * r.heads * 12 + 32
    + r.kvBuffers * 2 * (kv * r.heads * r.dim + CeilDiv(kv, RouteBlock) * r.heads * 2)

SolBytes(r, q, kv) == WorkspaceBytes([r EXCEPT !.sage = FALSE], q, kv) + SparseBytes(r, q, kv)

\* Mutant: only the dense workspace is held against the budget.
SolShrinkDense(r, q, kv) ==
  LET least(maximum) == AtMost(RouteBlock, maximum)
      shrink[a \in Nat, b \in Nat] ==
        IF r.budget = 0 \/ WorkspaceBytes(r, a, b) <= r.budget
        THEN [q |-> a, kv |-> b, bytes |-> SolBytes(r, a, b)]
        ELSE IF a > least(r.maxQ) THEN shrink[AtLeast(least(r.maxQ), a - RouteBlock), b]
        ELSE IF b > least(r.maxKv) THEN shrink[a, AtLeast(least(r.maxKv), b - RouteBlock)]
        ELSE Raised("budget too small")
  IN  shrink[q, kv]

\* The loop of build_sol_streaming_plan: Q chunks give way before K/V tiles.
SolShrink(r, q, kv) ==
  LET least(maximum) == AtMost(RouteBlock, maximum)
      shrink[a \in Nat, b \in Nat] ==
        IF r.budget = 0 \/ SolBytes(r, a, b) <= r.budget
        THEN [q |-> a, kv |-> b, bytes |-> SolBytes(r, a, b)]
        ELSE IF a > least(r.maxQ) THEN shrink[AtLeast(least(r.maxQ), a - RouteBlock), b]
        ELSE IF b > least(r.maxKv) THEN shrink[a, AtLeast(least(r.maxKv), b - RouteBlock)]
        ELSE Raised("budget too small")
  IN  shrink[q, kv]

\* build_sol_streaming_plan of a resolved plan
SolPlan(r, plan) ==
  LET q == RouteChunk(plan.q, r.maxQ)
      kv == RouteChunk(plan.kv, r.maxKv)
  IN  IF 0 \in {q, kv} THEN Raised("no route block") ELSE SolShrink(r, q, kv)
=============================================================================
