------------------------- MODULE MCOfflinePlanning -------------------------
(* OfflinePlanning on every small input of the planners and the scheduler.  *)
EXTENDS OfflinePlanning

MCCost == [io |-> 2, compute |-> 1]
MCAlignment == [host |-> 1, device |-> 2]

\* Blocks of 5 rows in one segment or two.  The callbacks are the linear ones
\* and the modulated ones, in what the configuration allows of their options.
Callbacks ==
  {[variant |-> "block25", layout |-> l, direct |-> d, modulation |-> FALSE, fused |-> FALSE] :
     l \in {"strided", "contiguous"}, d \in BOOLEAN}
    \cup {[variant |-> "modulated", layout |-> "strided", direct |-> FALSE, modulation |-> m, fused |-> f] :
            m \in BOOLEAN, f \in BOOLEAN}

Shapes ==
  {[batch |-> [q |-> <<0, 5>>, k |-> <<0, 5>>], qChunk |-> 3, kvTile |-> 2, projectionTile |-> 2, ffnTile |-> 2],
   [batch |-> [q |-> <<0, 2, 2, 5>>, k |-> <<0, 2, 2, 5>>], qChunk |-> 2, kvTile |-> 3, projectionTile |-> 1, ffnTile |-> 4]}

Buffering ==
  {[kvBuffers |-> 1, projectionBuffers |-> 1, outputBuffers |-> 1],
   [kvBuffers |-> 2, projectionBuffers |-> 2, outputBuffers |-> 2]}

MCBlocks ==
  {b @@ s @@ n @@ [mode |-> m, weights |-> w] :
     b \in Callbacks, s \in Shapes, n \in Buffering,
     m \in {"materialized", "recompute"}, w \in {"none", "staged"}}

\* Three operations in any dependence, cyclic ones included; operation n uses
\* buffer n and so do those that depend on it.
Operation(kind, duration, resources) == [kind |-> kind, duration |-> duration, resources |-> resources]

Operations ==
  {Operation("control", 0, {}), Operation("compute", 2, {"a"}), Operation("io", 1, {"b"}),
   Operation("io", 2, {"b"}), Operation("compute", 1, {"a", "b"})}

Wired(ops, deps, policy) ==
  [policy |-> policy,
   ops |-> [i \in 1 .. 3 |-> ops[i] @@ [deps |-> deps[i]]],
   buffers |-> [n \in 1 .. 3 |->
     [pool |-> IF n = 1 THEN "host" ELSE "device", size |-> n, persistent |-> n = 3 /\ deps[1] = {},
      uses |-> {n} \cup {i \in 1 .. 3 : n \in deps[i]}, keep |-> 0]]]

MCExecutions ==
  {Wired(ops, deps, policy) :
     ops \in [1 .. 3 -> Operations],
     deps \in {d \in [1 .. 3 -> SUBSET (1 .. 3)] : 1 \notin d[1] /\ 2 \notin d[2] /\ 3 \notin d[3]},
     policy \in {"input_order", "earliest_ready"}}

\* Shapes around the blocks of 2 and budgets around what they need.
MCRequests ==
  {[maxQ |-> mq, maxKv |-> mk, q |-> q, kv |-> kv, blockM |-> bm, blockN |-> 2, budget |-> b,
    heads |-> 1, dim |-> 2, element |-> 2, kvBuffers |-> 2, outputs |-> o, sage |-> s] :
     mq \in {1, 5, 8}, mk \in {1, 5}, q \in {0, 3}, kv \in {1, 4}, bm \in {2, 3},
     b \in {0} \cup {40 * n : n \in 2 .. 16}, o \in {0, 1}, s \in BOOLEAN}

Bounds(n, most) == {<<0>> \o cut : cut \in {c \in [1 .. n -> 0 .. most] : \A i \in 1 .. n - 1 : c[i] <= c[i + 1]}}

MCBatches ==
  {[batch |-> [q |-> b, k |-> b], chunk |-> c, target |-> t, alignment |-> a] :
     b \in Bounds(1, 9) \cup Bounds(3, 6), c \in {1, 2, 3, 4, 6}, t \in {1, 3, 4}, a \in {1, 2}}

\* Unlike devices, times dominated by compute, by transfers or by tasks.
Devices ==
  {[chunk |-> c, blockM |-> m, compute |-> s, bytes |-> 3, overhead |-> o] :
     c \in {2, 4}, m \in {1, 2}, s \in {1, 3}, o \in {0, 4}}

MCFleets ==
  {[batch |-> b, devices |-> d] :
     b \in {[q |-> <<0, 6>>, k |-> <<0, 4>>], [q |-> <<0, 1, 1, 7>>, k |-> <<0, 6, 6, 7>>],
            [q |-> <<0, 3>>, k |-> <<0, 1>>]},
     d \in [1 .. 2 -> Devices] \cup {<<a, b2, a>> : a \in Devices, b2 \in Devices}}

Candidates == [peak : 1 .. 2, seconds : 3 .. 5, fits : BOOLEAN]

MCSelections ==
  {[candidates |-> c, fraction |-> f, cap |-> cap] :
     c \in [1 .. 3 -> Candidates], f \in {75, 100}, cap \in {0, 4}}
=============================================================================
