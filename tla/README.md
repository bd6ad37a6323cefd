# Verification of seqattn-core and seqattn-multigpu

TLA+ modules of the stream-attn repository, the TLC runs that check them, and
the theorems TLAPS proves about them. `PROJECT.json` maps every modelled
definition to the source lines it stands for and lists components, runs,
findings, hazards and theorems in full.

Paths below are relative to the repository; `core/` is
`src/seqattn_core/`, `multigpu/` is
`packages/seqattn-multigpu/src/seqattn_multigpu/`.

- [1. The system](#1-the-system)
- [2. Modules](#2-modules)
- [3. Runs](#3-runs)
- [4. Findings](#4-findings)
- [5. Fairness](#5-fairness)
- [6. What is proved](#6-what-is-proved)
- [7. What is not modelled](#7-what-is-not-modelled)
- [8. Plan](#8-plan)

## 1. The system

stream-attn computes exact attention over Q/K/V that do not fit on the GPU. It
splits queries into chunks, streams K/V tiles past each chunk, and keeps a
running softmax state on the device. What is hard about it is never the
arithmetic; it is that nearly every buffer is reused while something else
(a CUDA stream, an I/O thread, another device's worker, a callback, the file
system) may still be using it, and that exceptions and interrupts strike in the
middle. The properties therefore say *which rows ended up where*: contents are
names of rows and tiles, and a result is the sequence of (Q, K/V) pairs
accumulated into it.

### Inventory

| Component | State | Operations | Hard behaviour | What makes it correct |
|---|---|---|---|---|
| K/V page cache, `core/paged/cache.py` | hot and rolling slots, `_slot_by_page` (recency order), free list, occupancy counter | `get`, `put` | `get` and `put` of one load are separate; loads of other pages come between | no slot shared or lost, lookups return their page, kept pages are read once |
| Paged K/V scan, `core/paged/runtime/io.py` | stage ring, futures, submission window | submit, consume, end of scan, drop and close | pool completes out of order; device copies out of a stage later; interrupts | a stage holds its page until its copies are done; no load outlives the cache; a scan ends |
| Paged runner and executors, `core/paged/runtime/` | staging, stage ring, output ring, device buffers, streams, events, write futures | `run` | three streams and a thread pool reuse every buffer; failing reads, writes, device errors | the sink gets exact pages only; the call returns only with all of them; I/O is over when it ends |
| In-memory sources and sinks, `core/paged/memory.py`, `layout.py` | tensors, page tables | page reads and writes | segments shorter than a page, alignment | pages partition the segments' rows |
| Host memory budget, `core/paged/memory_budget.py` | registered bytes | register, release | every failure path must release | nothing stays registered |
| Store writers, `core/storage/output.py`, `qkv_writer.py`, `direct_io.py` | directory, temporary files, phase of the publication | write pages, `close`, `abort`, repeated attempts | crash or failure between any two of: data written, synced, renamed, directory synced, manifest renamed | a manifest implies its data; an acknowledged store survives; failures leave no temporaries |
| Store readers, `core/storage/qkv_store.py`, `records.py` | open files, bounce-buffer pool | open, read page, close | pool at its limit, close during reads | reads return the record's bytes; buffers return to the pool |
| NVMe simulator, `core/paged/simulation.py` | shared bandwidth timeline | throttled read, write | concurrent reservations | bandwidth is not over-committed |
| Streaming executor, `core/streaming/` | CUDA workspace: buffers, events, pending flags; single-flight lock | seven entry points over three tile sources | three to five streams; buffers shared by consecutive calls; callbacks that raise; interrupts | each call that returns has exact rows; inputs are released when it ends |
| Projection, `core/projection/` | tile ring, slot flags, shared arena, hidden staging | project, recompute, recover | views of shared buffers; ring slots in flight; tiles kept alive for their copies | attention reads exactly the rows projected for it |
| DiT block runners, `core/dit/` | hidden tensors, consumers, carried rows, weight leases | block stages, in-place residual updates, swaps of source and destination | rows carried from one Q chunk to the next; stages in place; state left by a task that raised | each row goes through the stages once, from the right versions; weights outlive their kernels |
| Multi-GPU scheduling, `multigpu/dynamic.py` | cursor, one controller per device | `claim`, `cancel`, `retire_worker`, `observe` | workers claim and finish in any order; clamps meet at boundaries | every token to exactly one worker, in tasks that fit it |
| Multi-GPU calls, `multigpu/streaming.py` | run lock, thread pool, barrier, futures | static and dynamic calls, `close` | failures, interrupts and close while workers run | one user of a device's runner at a time; calls and close end |
| Multi-GPU planning, `multigpu/planning.py` | none (pure) | partition of query ranges | greedy ranges under a bisected threshold | a partition that finishes as early as any |
| Multi-GPU projection and DiT, `multigpu/projection.py`, `dit.py` | one hidden tensor and arena, a worker and leases per device | blocks of a projection phase and a query phase | devices share host memory; one fails in the middle | as the DiT runners; a call that raises left no device working |
| Sparse attention, `core/sparse/` | transport ring, summaries, routes | encode, transport, Q ranges, workspace plan | ring reuse; three grids of cuts | routed rows reach their query; cuts are partitions; plans fit |
| Plans and configuration, `core/plan.py`, `core/config.py` | none (pure) | resolve chunk sizes against a budget | bisection in blocks | the largest chunk that fits |
| Estimation, `core/estimation/` | operation graph, heap, calendars, intervals | build, schedule, measure, choose | the graph must wait where the runtime waits | a feasible schedule, exact statistics, the least memory |
| Numerics, statistics, benchmarks | formulas, counters | — | — | out of scope: no state that interleaves |

### How the parts interact

A paged run owns a thread pool and calls the cache, a page source and a sink
writer from it, while the main thread drives the device. The streaming executor
is called directly, by the projection runners (with a recomputing source in
place of host tensors) and by the DiT runners (with an output consumer in place
of a host destination). A DiT block is a sequence of projections, attention
calls and tiled pointwise stages over the same host tensors and arena; the
multi-GPU H3 runner does one block on all devices at once. A multi-GPU call runs
one streaming executor per device on a thread pool; the dynamic mode feeds them
tasks from one cursor. Store writers are sinks of paged runs, store readers
their sources. Planners run before any of this; the estimator replays the H3
runner without a device.

## 2. Modules

```
Arithmetic                        min, max, rounding
CudaStreams  (external)           streams and events of one device
FileSystem   (external)           names, contents and durability of a directory

KVPageCache ── KVScan ─┬─ MCKVScan
                       └─ KVScanProofs

PagedAttention (abstract)
PagedRun ─┬─ PagedTriton (+ CudaStreams) ─┬─ MCPagedTriton    implements PagedAttention
          │                               └─ PagedTritonProofs
          └─ PagedReference ── MCPagedReference

AttentionCalls (abstract)
StreamingProgram ── StreamingExecutor (+ CudaStreams) ── MCStreamingExecutor
                           │                             implements AttentionCalls
                           └─ StreamingExecutorProofs
QueryCoverage (abstract)
QueryCursor, QController ── MultiGpuDynamic ── MCMultiGpuDynamic   implements QueryCoverage
                                   └─ MultiGpuDynamicProofs
MultiGpuCalls ── MultiGpuCallsProofs
StorePublication (+ FileSystem) ── StorePublicationProofs

BlockCalls (abstract)
TileProgram ── AttentionProgram (+ H3Consumer, QueryPartition) ── DitPrograms
DitPrograms ─┬─ DitBlocks (+ CudaStreams) ── MCDitBlocks      implements BlockCalls
             └─ MultiGpuH3 (+ CudaStreams)                    implements BlockCalls
                    └─ MultiGpuH3Proofs

QueryPartition ───────────────────────────┐
ExecutionSchedule ─┬ MemoryStatistics ────┴─ H3Estimate (+ H3Consumer)
                   └ ExecutionScheduleProofs
H3Estimate, AttentionPlans ── OfflinePlanning ── MCOfflinePlanning
```

**CudaStreams.** The contract of `torch.cuda.Stream` and `torch.cuda.Event`:
a stream performs its operations in order, `wait_event` waits for the last
record issued before it, other streams are independent. An operation carries
the waits issued before it and the records issued behind it. Waits are kept as
*how many more records* of the event must be reached, which makes device states
that behave alike equal.

**KVPageCache** models `cache.py` operation by operation: `Get` is `get`
(lookup, recency, hit and miss counters), `Put` is `put` with its four outcomes.
Bytes are counted in slots, and a slot holds the id of the page copied into it.

**KVScan** is `load_kv_page` and `_scan_kv_pages` on the pool: a load is
`Start`, `LookUp`, `ReadPage` or `ReadFails`, `Insert`, each one step, so cache
operations of `IoWorkers` threads interleave freely. `Submit`, `Consume` and
`EndScan` are the main thread, `CopyOut` the device. `Raise` is any exception or
interrupt of the main thread and drops the pool's queue in the same step
(`shutdown(cancel_futures=True)`); `Close` waits for running loads and closes the
cache. The cache lock makes each cache operation one step; that justifies the
grain.

**PagedRun, PagedTriton, PagedReference.** One call of
`PagedAttentionRunner.run`. `PagedRun` has what both executors share: the pool,
loads (one step each here, because KVScan shows what a load delivers), the
output ring, writes, and the ways a call ends. Dropping the queue and raising
are separate steps here. `PagedTriton` adds the device with the streams, events
and buffers of `triton.py`: `BeginPage`, `BeginChunk`, `Submit`, `EndChunk`,
`OutputOnHost` are the host's loop, `Consume`, `ConsumeTile` (once per tile) and
`ReleaseStage` its callback `consume`, and `DeviceStep` performs the oldest
operation of a stream whose events are reached. Before the loop ends the host
waits for the kernels and the output copies, not for the H2D stream
(`LoopDone`). `PagedReference` is the CPU loop of `reference.py`.
`PagedTriton` implements **PagedAttention**: a sink that receives exact pages
only, and a return only with all of them.

**StreamingProgram, StreamingExecutor.** What a call enqueues is a sequence of
steps: wait for the pending ones of some events, enqueue one operation, record
events behind it, set flags. `Program(c)` builds that sequence for each kind of
call, from the executor's loop, the three tile sources, the split executor and
the output consumer:

| kind | entry point |
|---|---|
| `host`, `measured` | `run_query_tasks`, without and with a measurement; `__call__` |
| `flash` | the same, on a flash backend (`_run_flash_split`) |
| `transform`, `view` | `run_with_device_output`, with a transform that returns a new tensor, or a view of the tile |
| `consumer` | `run_with_device_consumer`, `run_query_tasks_with_device_consumer` |
| `task` | `_run_query_task_with_task_consumer` |
| `recompute`, `cross` | `run_with_qkv_source` over the recomputing sources |

`StreamingExecutor` is the host thread that issues the steps and the streams
that perform them. An exception may strike before a step's operation, after it,
or after its records but before its flag. `Raise` then goes to `Recover`, which
waits for the streams `_recover_triton_failure` waits for and clears its flags;
the split executor has no recovery, and an `Interrupt` never does: such calls
end "abandoned" with their operations still queued. The consumer's own pending
flags survive recovery, as in the code. A wait that no operation follows is
dropped. `recomputed.py:89-92` recovers a second time after the executor did;
that changes nothing and is left out. It implements **AttentionCalls**: each
call writes exact rows to its own destination only and none after it returned or
raised. Calls are given destinations of their own, so that a stray copy of an
abandoned call is seen wherever it goes.

**QueryCursor, QController, MultiGpuDynamic.** `Claim` is
`GlobalQueryCursor.claim` with its clamps (segment, tail share, at least one
token), in one step because the cursor's lock is held. The controller's feedback
is a choice among every target a measurement can produce (`Targets`), so no
throughput model is assumed. `WorkerRaises`, `RecordFailure` and `Retire` are the
worker's error path as separate steps. Calls repeat, keep their controllers, or
reset them when the signature changes. The tail factor is a rational number
where the code multiplies a float. Claim order, traces and summaries are left
out. It implements **QueryCoverage**: every row is computed once before the
call returns, none after it ended.

**MultiGpuCalls.** How calls share the lock, the pool, the barrier and the
per-device runners: submission job by job, jobs at the barrier, static calls
that raise at the first failed future in device order, dynamic calls that wait
for all, interrupts of the caller anywhere, and `close`. What a job computes is
MultiGpuDynamic, where the barrier in turn is abstracted: its workers have
passed it.

**StorePublication.** Both writers as programs of file-system steps
(`Program`): pages, fsync, rename, directory fsync, manifest. Any step may
raise, the process may be killed, the machine may crash; attempts repeat in the
same directory on whatever earlier ones left. **FileSystem** gives a directory a
current and a durable view: until the directory is synchronised a crash may keep
any of the name changes and lose the others, and of each file what was written
since its last fsync survives entirely or not at all. Opening all temporaries is
one step; a failure to open the finished store after the builder's last step is
not separate. When closing a data file raises in the builder's failure path,
`abort()` is skipped (phase "leaked"), which FailuresLeaveNoTemporaries exempts.

**TileProgram, AttentionProgram, DitPrograms.** What the host thread of a DiT
runner does is a sequence of instructions: enqueue an operation on a stream
behind some events, wait for the device, enter or leave a weight lease. An
operation says which rows, *in which version*, its inputs must hold and what its
outputs hold then; with any other input they are wrong, and wrong values spread.
`TileProgram` has the instructions of the tiled loops (the materialized
projection ring with its slot flags and keepalive, the recomputing sources, the
tiled FFN), `AttentionProgram` an attention stage under either storage policy,
dense or sparse, with the epilogue of its consumer, and `DitPrograms` the blocks
of Wan, LTX2 and H3: which stage on which tensor in which order.
**H3Consumer** is the carry of the H3 consumer as a function of its state and a
chunk; how the sparse path cuts a segment comes from **QueryPartition**. Both are
used by the runtime models and by the planners or the estimate.

**DitBlocks** executes these programs: one host thread, the streams of one
device, and exceptions before an operation, after it, or before its flag is
set. `Recover` is the `except` clause around the instruction that raised, with
exactly the waits and flags of the code, and leaves the leases. The arena of
LTX2's four projections is one set of locations, so a stage that begins too
early reads rows of another stage. It implements **BlockCalls**: each row goes
through the versions of the model one at a time, a row advances only when the
rows its next version depends on are there, a return means that every row has
its last version, and nothing changes afterwards.

**MultiGpuH3** is the H3 runner over several devices, which share the hidden
tensor and the arena: each worker claims projection tiles until none is left,
the block continues when all ended, then they claim Q ranges. The size of a
claimed range is free, which covers every controller of MultiGpuDynamic. A
worker that raises cancels the others' claims and recovers its own device. It
implements BlockCalls too.

**QueryPartition, AttentionPlans** are pure algorithms:
`build_query_tasks`, `build_page_descriptors`, the partition over devices,
`build_attention_plan`, `build_sol_streaming_plan`. **ExecutionSchedule** is the
list scheduler with its heap and one step per dispatch, **MemoryStatistics** the
lifetimes and sweeps over a finished schedule, **H3Estimate** the construction
of the operation graph of an H3 block, one step per stage of the build. Seconds
and bytes are small integers, so that every comparison is exact.
**OfflinePlanning** puts them in one specification: an initial state is a request
to one planner, an execution to schedule, or a block to estimate.

## 3. Runs

Passing runs, with distinct states (each finishes within two minutes):

| Run | States | Shows |
|---|---|---|
| `kv_scan` | 2,381 | loads through the cache and the ring deliver every page intact; every run ends |
| `paged_triton` | 24,879 | the CUDA executor delivers exact pages only, and ends |
| `multigpu_dynamic` | 13,792 | every token to one worker, tasks that fit, aligned sizes; calls end |
| `multigpu_calls` | 24,265 | one user per device runner; quiet ends; calls and close end |
| `store_publication` | 9,720 | atomic publication through crashes and failures |
| `streaming_executor` | 183,544 | exact rows from serial calls of every kind, with failures and interrupts |
| `dit_blocks` | 47,448 | every DiT runner updates each row once, from the right versions, also after an exception |
| `multigpu_h3` | 238,514 | the H3 runner on two devices does the same, whichever device takes which task |
| `offline_planning` | 83,252 | planners, scheduler and estimate against reference definitions on all small inputs |

Runs that end in a counterexample (section 4): `paged_reference`,
`store_sealing`, `streaming_interrupt`.

### Properties

- `StagesHoldTheirPage` (KVScan): a finished load's stage, or one with copies
  outstanding, holds its own page. Needs the cache, the ring and the device
  events to agree.
- `CacheConsistent`: the recency list is exact, no slot is shared or lost, lookups
  return their page, the counter is exact.
- `KeptPagesReadOnce`: a hot page, or a rolling page while the pages scanned since
  fit the rolling region, is read once, whatever order loads finish in.
- `NoLoadAfterClose`, `NoIoOnceOver`: no load or write uses what was closed.
- `DeliveredPagesExact`: every page the sink ever received is the exact answer.
- `KeepsItsPromise` (PagedTriton, StreamingExecutor, MultiGpuDynamic, DitBlocks,
  MultiGpuH3): refinement of the abstract specification.
- `TokensComputedOnce`, `TasksFitTheirWorker`, `SizesStayAligned`: no token lost
  or given twice while its rows are unwritten, in flight or done; each task
  inside one segment and its worker's workspace; a block size stays
  aligned and at least its minimum whatever is measured.
- `RunnerSingleFlight`, `EndedCallsAreQuiet`, `NothingRunsAfterClose`: over calls
  that failed or were interrupted. A static call that raised is exempt from
  quietness: the code returns while other workers still write.
- `ManifestImpliesData`, `AcknowledgedSurvives`, `FailuresLeaveNoTemporaries`.
- `InputsReleased` (StreamingExecutor): once a call returned or raised, no queued
  operation reads its host tensors.
- `ReturnsLastVersions`: the tensors a DiT runner returns hold the last version of
  every row, although the recompute runners swap two tensors after each block.
- `CallsEndQuiet` (DitBlocks, MultiGpuH3): a call that returned or raised left
  nothing on any device, so its tensors and weights can be freed.
- `WeightsAreLeased`: no queued or running kernel uses weights whose lease was left.
  In MultiGpuH3 a projection worker that is recovering is exempt: its `with`
  leaves the lease before `recover()` waits (`projection.py:225-244`). The single
  device runners recover first.
- `ScheduleIsFeasible`, `StatisticsAreExact`, `EarliestRunsFirst`: dependencies and
  exclusive resources are respected and cycles reported; lifetimes, occupancy,
  peaks, busy and overlap times equal a direct definition instant by instant;
  under `earliest_ready` no operation is dispatched while a ready one could start
  before it, although the heap holds outdated starts.
- `EstimateIsOrdered`: any two operations of the estimated graph that use one
  buffer, one of them writing, are ordered by dependencies. `EstimateMirrorsRunner`:
  its consumer carries and emits the same rows, in the same order, as the
  runner's consumer does over the runner's query tasks.
- `PlansFitTheirBudget`: the chunk planner returns the largest chunk of whole
  blocks that fits and raises only when none does; the sparse plan gives up
  blocks only when it must. It speaks of the Q chunk given the K/V chunk the
  planner chose: the code never enlarges Q again once K/V shrank.
- `CutsArePartitions`, `PartitionIsFastest`, `ChoiceIsLeastMemory`: tasks, pages,
  chunks and projection tiles are partitions on their grids; the static plan of
  several devices is as fast as any over the same cuts; the candidate chosen
  needs the least memory among those that keep the target.
- `RunEnds`, `CallEnds`, `CallsEnd`, `CloseReturns`: liveness, section 5.
  `CallsEnd` and `CloseReturns` of MultiGpuCalls hold of behaviours in which no
  submission is cut short (`NeverCutShort`): an interrupt in the middle of
  submitting, or `close()` racing it, leaves jobs at a barrier that never
  opens, and `close` then waits for them for ever. Nothing in the repository
  promises otherwise, so this is an assumption and not a finding.

The type invariants of KVScan, MultiGpuDynamic, MultiGpuCalls and
StorePublication are theorems (section 6) and no run spends time on them.

Every property has a mutant in `PROJECT.json`: a plausible mistake in the
modelled code that makes TLC find the property violated under the same bounds.

### Bounds, and why they are enough

- `kv_scan`: six pages in two segments of 4 and 2, each scanned twice; a cache
  of 4 slots, half hot; 3 stages, 3 threads. The second segment does not fit
  beside the first, so eviction happens with loads in flight; the second scan
  of each finds kept pages; the ring wraps in the first segment and not in the
  second; three concurrent loads suffice to reorder insertions around an
  eviction.
- `paged_triton`: 3 query pages (the output ring of 2 wraps) in two segments, 2
  chunks each, 3 K/V pages of 2 tiles (the stage ring and the K/V buffers of
  2 wrap, also across scans), one device output buffer (reused at every chunk).
- `multigpu_dynamic`: segments of 2, 0, 0 and 8 tokens after a prefix of one;
  two devices with different alignments, minima and capacities, neither a
  multiple of the other; two calls. `MaxCalls` bounds the calls.
- `multigpu_calls`: two devices, two client threads, one of which can be
  interrupted, three calls (an abandoned one, one that meets its leftovers, one
  after). `MaxCalls` bounds the calls.
- `store_publication`: two pages per file, two attempts (the second meets what
  the first left), both writers. `MaxAttempts` bounds the attempts.
- `streaming_executor`: two tasks of two tiles, rings of one (every reuse is
  the next one: the tightest case), two calls. `MCFollows` lists which kind
  follows which, so that every kind runs and the pairs that share buffers in
  different ways meet.
  `Interrupted` names the modes in which calls are interrupted; the passing run
  has host mode, the other one is a finding. `MaxCalls` and `Follows` are the
  bounds. With every pair of kinds TLC finds
  2,813,902 states and no error in 190 s, and with rings of two 237,010 states
  and no error.

- `dit_blocks`: tensors whose tiles do not divide them. Wan: 3 rows in Q chunks
  of 2, projected and fed forward row by row through 3 slots, 2 blocks. LTX2: 2
  video rows and 1 audio row, 2 blocks. H3: 5 rows in Q chunks of 3 and FFN
  tiles of 2, so rows are carried over a chunk and left at the end; 3 blocks,
  the first dense. Two and three blocks put the result of the recompute runners
  on either side of the swap. `Retried` names the runners that are called again
  after an exception, of which a runner's life has one.
- `multigpu_h3`: two devices, 2 rows, tiles of one row, Q ranges of one or two, 2
  blocks; `MaxRaises` is 1, and a call that raised is followed by another. The
  devices are interchangeable in the specification and all properties are
  safety, so they are a symmetry set.
- `offline_planning`: blocks of 5 rows in one segment and in two, in both modes and
  every callback variant, with rings of 1 and 2; every dependence of 3
  operations, cycles included; budgets around what a chunk needs; batches of up
  to 9 rows; fleets of 2 and 3 unlike devices. `Bisections` is 8 where the code
  has 60 rounds: times here are integers below 256, so 8 halvings already
  separate them.

No other run uses symmetry. Deadlock is checked in every run but
`offline_planning`, where a plan or an estimate simply ends; elsewhere, where the
system may rest, an explicit stuttering action says so (`Finished`, `Stopped`, ...).

## 4. Findings

1. **The CPU reference executor overwrites an output buffer that is still being
   written** (`core/paged/runtime/reference.py:152`, run `paged_reference`). The
   copy into `staging.outputs[slot]` comes before `_submit_output` waits for the
   slot's earlier write. With two or more I/O threads the sink can receive rows of
   a later page. The CUDA executor waits first and passes.
2. **A failing last step of the output writer leaves a manifest without data**
   (`core/storage/output.py:148`, run `store_sealing`). If the directory sync
   after the manifest's rename raises, the cleanup unlinks `out.bin` but not
   `manifest.json`; later attempts are refused because the store exists. The
   Q/K/V builder keeps its data in that case and passes.
3. **An interrupted device-consumer call can corrupt the next one**
   (`core/streaming/executor.py:132`, run `streaming_interrupt`). Recovery is for
   `Exception` only. After a KeyboardInterrupt between the finalize kernel,
   which writes into `workspace.q`, and the `q_free` record after the consumer,
   the next call's Q copy is not ordered behind that kernel: it can be
   overwritten, and the call returns wrong rows with no error. In host mode the
   finalize kernel writes elsewhere and the same interrupts are harmless, which
   `ReturnedOutputsAreExact` proves.

## 5. Fairness

- KVScan: weak fairness of the main thread, of the pool starting a queued
  load, of each running load and of the device. The interpreter and the OS
  schedule runnable threads; reads complete or fail. `Raise` is never forced.
- PagedTriton: weak fairness of the host thread, of the pool and of each CUDA
  stream, which performs an operation whose events are reached.
- MultiGpuDynamic, MultiGpuCalls: weak fairness of the caller and of each worker
  (a worker's device call returns or raises), of the pool, of `close`'s join.
  Nobody is obliged to make a call, to fail or to interrupt.
- StreamingExecutor, DitBlocks and MultiGpuH3 state no liveness: their waits are
  for records issued earlier in the same program or for the end of a worker, so
  what can go wrong is a deadlock, which TLC checks. StorePublication is a
  straight line, OfflinePlanning ends after a number of steps its input fixes.

All are weak: an enabled step of a thread or stream stays enabled until taken.
None is on an error.

## 6. What is proved

Assumptions are only those the modules name (`CacheAssumption`,
`ScanAssumption`, `CursorAssumption`, ...): ranges the constructors validate.
TLC evaluates each of them. Sizes, numbers of pages, threads, stages, devices
and segments are arbitrary.

**K/V cache and scan** (`KVScanProofs`). `CacheInv` is inductive for any order of `Get` and `Put` of any pages:
`CacheTypeOK`, an exact recency list without repetition, slots not shared, lookups
that return their page, no slot lost, an exact counter. One lemma per outcome
of `put`; the eviction case is where all parts are needed at once, because the
slot handed over must be neither in the free list nor any other page's. The scan
adds

- `QueueExact`: the pool's queue is exactly the queued loads, each once;
- `StagesOwned`: a stage's contents belong to its load or to its outstanding copies;
- `WindowExact`: the submitted but unconsumed indices are at most a ring, and
  occupy exactly the slots with a load. Two indices less than a ring apart have
  different slots (`SlotsDistinct`), so a submission never meets a busy slot;
- `Quiet`: after `Close` no load holds a thread.

`ScanInv`, their conjunction with `TypeOK`, is inductive
(`ScanInvariance`); from it `ScanTypeCorrect`, `CacheStaysConsistent`,
`StagesKeepTheirPage` and `ClosedIsQuiet`.

That kept pages are read once needs what the cache *remembers*, over loads that
finish in any order. `Since(t)` is the set of rolling pages scanned from scan t to
the one in progress. `RecencyInv` says, beside `ScanInv`: once scan t has been
through the cache with a page, a hot page is present (`HotKept`), and a rolling
page is cached with only pages of `Since(t)` behind it in the recency list, as long
as `Since(t)` fits the rolling region (`RecencyKept`); each page is loaded once per
scan (`LoadsOfScan`) and a page being read is not inserted by somebody else
(`MissesAbsent`). The crux is `EvictedWhenFull`: if the page evicted had only pages
of that set behind it, the whole recency list and the page that takes its slot
would be in the set, which is one more than fits (a pigeonhole). From it
`KeptPagesAreReadOnce`.

**Dynamic scheduling** (`MultiGpuDynamicProofs`). `IInv` strengthens the checked
invariants with where the cursor stands (`CursorInSegment`), that written and
held tokens lie behind it (`WrittenBehindCursor`, `HeldBehindCursor`), that a
cancelled cursor comes with a failure recorded or about to be
(`CancelledIsReported`) and what workers that left saw (`LeavesWhenDone`,
`RestsBetweenCalls`). The clamps are lemmas about integers: `TaskSizeBounds`
says a claim is at least one token and stays in its segment and workspace,
`ObservedSize` that no measurement leaves the controller's range. From
`Invariance`: `TypeCorrect`, `ComputedOnce`, `TasksFit`, and `Refinement`, that
`MultiGpuDynamic` implements `QueryCoverage`. Its crux is `ReturnIsComplete`: when
every worker has ended without a failure, nobody cancelled, so each left because
the cursor was empty, and everything behind the cursor that nobody holds is
written.

`SizesAligned` adds that whatever is measured, an adapted block size is rounded and
clamped back to the controller's grid (`ObservedOnGrid`), from an initial one on
the grid (`InitialOnGrid`).

**Multi-GPU calls** (`MultiGpuCallsProofs`). `CallsInv` is about any number of
devices, clients and calls, with failures and interrupts of the caller anywhere:

- `PoolBounded`, `OneCallWorks`: at most one job per thread is on the pool, and the
  jobs past their barrier are all of one call;
- `QueueExact`, `CallsInOrder`: a queued job is in the queue once, and calls to come
  have no jobs;
- `SubmissionInOrder`, `AwaitingInOrder`: jobs are submitted device by device and
  none passes the barrier before the last is; those already awaited are done;
- `DynamicJobsCatch`, `EndedLeftNothing`: no job of a dynamic call fails, and a call
  that ended for good left jobs that are done, or stuck at a barrier that
  its last job never reaches.

The crux is `BarrierTakesThePool`: a barrier opens only when one job per device
stands at it, that is every thread of the pool, so no job of another call can be
past its own. Hence `CallsTypeCorrect`, `SingleFlight`, `EndedQuiet` and
`QuietAfterClose`.

**Publication of stores** (`StorePublicationProofs`). `StoreInv` holds for any
number of pages and attempts. Its parts say what the steps done so far achieved
(`Progress`), that a published manifest is sealed (`PublishedIsSealed`: the data is
under its final names in the directory *and* on the disk, no change of those
names is pending, and its contents are durable), that no pending change takes a
manifest away (`ManifestStays`), what a cleanup may unlink (`CleanupSpares`), and
where the temporary names are (`TemporariesOwn`, `TemporariesDoomed`). The argument
has two halves: one lemma per step shows that the manifest is renamed only
after its data is sealed, and `CrashKeeps` shows that whatever subset of the
pending changes the disk kept, a manifest that survives is the one that was
there, because sealed names have no pending change. From it
`PublicationTypeCorrect`, `ManifestDescribesItsData`, `AcknowledgedStoresSurvive` and
`FailedWritersCleanUp`, under the assumption `"output" \notin SealingRaises`: the
output writer's last step does not raise. Without it the first is false
(section 4, finding 2).

**The CUDA executor of a paged run** (`PagedTritonProofs`). For
any number of pages, segments, chunks, tiles, stages, device buffers, output
slots and threads, whatever the streams and the pool overlap, and wherever a
task fails or the main thread raises. `TritonInv` has three parts.

`RunInv` is about what both executors share: types, the queue holds exactly the
queued tasks, the loads that hold a stage are those of the window, a write that
has not returned is of a page of its slot whose buffer holds that page's answer
(`WritesReady`), the slot of the page being computed has no write pending
(`SlotIdle`), and the ways a run ends leave nothing running. `BeginPage` of the CUDA
executor waits for the slot's last write before anything is computed; the
reference executor does not, so `RunInv` is false of it (finding 1) and nothing is
proved of `PagedReference`.

`DeviceInv` is about streams and events only: the records of an event still
queued are in one stream's queue, at increasing counts between one and
`unreached` (`Counted`), each kind of operation carries the records the code issues
behind it (`OperationsRecord`), each stream has only its own kinds
(`StreamKinds`), and a page with a queued store is not being written
(`StoresIdle`, which survives an exception that leaves the loop). From it follows
the lemma all else rests on: an operation that waits for the one at place j of
another stream, or for one behind it, is not performed before that one.

`LoopInv` says, while the loop runs, what each buffer holds *for the operations
still to use it*. The invariant the run checks is far from inductive: the sink's
contents depend on a chain stage, K/V buffer, accumulator, device output,
staging output whose links are all being overwritten for later tiles. So:

- `Cursor`, `Launched`: which tiles and chunks have been launched, and that queued
  operations are of this page and of what was launched of it;
- `LoadsOrdered`, `FinalsOrdered`: loads and finalizations are queued in the order
  of their tiles and outputs;
- `QReady`, `KvReady`, `OutputReady`: an operation that will read a buffer waits for
  the queued one that fills it, or the buffer already holds what it needs and
  nothing queued overwrites it first;
- `QFree`, `KvFree`, `OutputFree`: an operation that will overwrite a buffer still
  waits for every queued reader of the old contents;
- `StagesRead`: a stage with copies queued holds their page, has no load, and its
  release is recorded behind them;
- `AccumulatorExact`, `ChunksStored`: the accumulator holds the tiles updated so
  far, in order, and the staging buffer of the page the chunks stored so far.

When an exception leaves the loop, `LoopInv` is dropped: operations may then still
write any buffer, but none that a pending write reads, by `StoresIdle` and
`WritesReady`. Each step is proved for each part
(`BeginPageKeeps` ... `DeviceStepKeeps`). From `TritonInvariant`: `PagesExact`,
`NoLateIo`, and `TritonKeepsItsPromise`, that `PagedTriton` implements
`PagedAttention` step by step (`StepPromised`), where the return needs that
the last writes were awaited and no page skipped.

**The streaming executor** (`StreamingExecutorProofs`). For any number of tasks,
tiles and buffers, and any sequence of calls of every kind, ended by a return, by
an exception between any two steps or by an interrupt: once a call returned or
raised, no copy from its host tensors is queued (`InputsAreReleased`). No such copy
is waited for by the host directly, so the argument goes through the program.

- About the program a call issues (`ProgramWhole`): every load records an event
  that a later step of the compute stream waits for, and the last step records
  `PipelineEnd` on the compute stream. The program is a `FlattenSeq` of its tasks,
  whose flushes are between them. `FlattenedIn` lifts a property from the parts to
  the whole. It needs an induction, done over the set of the prefixes for which it
  fails and its least number.
- `MarksCounted`: the records of a watched event are on one stream, its home, in
  the order in which they will be reached.
- `LoadsAllowed`: a queued load belongs to an interrupted call, or to the call
  being made, and is then on a stream that its recovery waits for.
- `LoadsAwaited`: while a call issues its program, each of its queued loads records
  an event that an operation of the compute queue, or a step not yet issued,
  waits for. `TodoAwaited` says the same of the steps to come.
- `EndMarked`: when the program is over, the last operation of the compute queue
  records `PipelineEnd`.

`ExecutorInv` is their conjunction with the types. The crux is `PipelineOver`: when
the host has waited for `PipelineEnd`, the compute queue is empty, so whatever
waited for the call's loads was performed, and the loads before it. A call that
raised has waited for all streams its loads are on. Calls that were interrupted
are not: their loads may still be queued when later calls end, which is why the
invariant names the call of each load.

That the outputs are exact is proved in two halves, under the assumption
`Interrupted \subseteq {"host"}`: only runners in host mode are interrupted. Without
it the statement is false (section 4, finding 3).

*The program of a call, in its own order.* `Post` walks through a program and keeps
which streams and events are behind every access to a buffer so far, and what each
buffer would hold if the steps were performed one after the other. A step is `Safe`
when it waits for something behind every earlier access to what it touches, and
stores the task's answer. `Leads(c, A, s, B)` says that from A the steps of s are
safe and B is known behind them. It composes (`LeadsOn`, `LeadsThrough`), so each block
of the code has its lemma (`LoadQLeads`, `LoadKvLeads`, `UpdateLeads`, `ScanLeads`,
`FinalizeLeads`, `ConsumeLeads`, `TransformLeads`, `CopyOutLeads`). What holds between
tasks is one `Table`: who is behind the last use of each buffer, for each kind of call.
`ProgramAnalysed` puts them together. `AnalysisMeans` and `ProgramsHaveNoRace` say what
that is worth: in every order the streams and events allow, accesses to one buffer
happen in the order they were issued.

*The device, at any time.* `ExactInv` says that some first K steps of the program
were enqueued and a set U of them is pending (`CallExact`). Where they are in the
queues is `Placed`; each pending step waits for the records of those it must be
behind (`Waited`, which needs `Recorded` and that free events are flagged); what
is performed is closed under the order of streams and events; a buffer holds
what the last performed step that writes it put there (`Followed`); what was stored are
answers (`Delivered`). `Fronted` is about abandoned calls: their operations are in front
of all of the call's on their stream, and since in host mode each buffer is written
by one stream (`WriterOf`), none of them writes behind the call. In device-consumer
mode the output lands in Q, which two streams write, and this is where an interrupt
breaks it.

A call is left with U empty: the synchronizations of a run (`SynchronizedExact`,
by the pairs `Closing` of the analysis for `PipelineEnd`, `TaskDone` and `H2dEnd`), or
recovery, whose streams are all those of the call. Hence `ReturnedOutputsAreExact` and
`StreamingKeepsItsPromise`, that the executor implements `AttentionCalls` step by step.

**The multi-GPU H3 runner** (`MultiGpuH3Proofs`). For any number of devices, rows
and blocks, any sizes of projection tiles and Q ranges, one or two output slots,
whichever device takes which task, performs what first and raises where:
`H3CallsEndQuiet`, `H3WeightsAreLeased`, and `H3KeepsItsPromise`, that `MultiGpuH3`
implements `BlockCalls`. The argument has four layers.

- *The programs.* A task's program is composed by the operators of `DitPrograms`
  and `AttentionProgram`. `ProjectProgram` and `AttendProgram` show that it is four
  or ten given instructions, whatever the range (`ProjectActs`, `AttendActs`);
  `ProjectLinks` and `AttendLinks` which of them are chained by a stream or an event,
  `OpPlaces` where each has its stream and events.
- *One device.* `Executes(dev, t, n, m)` says what a device is that was issued the
  first n instructions of task t, the first m with all their records (the last may
  have lost its records to an exception): queued operations are of this task and on
  their streams (`Placed`), in order (`Ordered`), with their records (`Marked`), at most
  one record of an event is to come (`Counted`), what is chained behind a queued
  operation is queued as well (`Followed`), and an operation that waits for a queued
  one has it among its needs (`Blocked`). `GivenExecutes` and `PerformExecutes` keep it.
  From it `WaitIsQuiet`: when the last wait of a task is over, the device is empty,
  because every operation is chained to one whose event is awaited; and
  `RecoveryIsQuiet`: so it is when the streams a recovery waits for are empty.
- *The workers.* `WInv` says what each worker's device executes and which lease it
  holds in each place of its code, and that an idle worker's device is quiet. The
  first two theorems follow.
- *The data.* What the rows hold is not inductive by itself: a row in the arena
  comes from a device buffer that an earlier operation filled. `ProjectFacts` and
  `AttendFacts` say what each buffer holds between the operation that fills it and
  the last that reads it, in terms of which are issued and which queued. `DInv` adds
  that no two workers have rows in common (`RangesApart`), that while projecting
  all rows have the block's version (`WhileProjecting`), while attending the arena
  has all projections of it and a row that nobody claimed has the version
  (`WhileAttending`), and that a claimed row is complete or in work unless something
  raised (`ClaimedRows`). `DeviceKeepsDInv` is the crux: an operation of one device
  changes rows of its own task only, so the facts of the others stay. TLC checked
  `DInv` on the instance of `multigpu_h3` before it was proved.

The refinement then reads the version of each row off the hidden tensor. The only
operation that moves it is the last copy of an attend task, which takes all rows of
its range one version on (`DevicePromised`); at a return nothing raised, all rows
were claimed and no worker runs, so all rows are complete (`EndPromised`). The
size of a claimed range is arbitrary up to `QCapacity`, which covers all that the
controllers of `MultiGpuDynamic` choose.

**The scheduler of the estimator** (`ExecutionScheduleProofs`). For any execution
that passes the checks of `OperationSpec` and `ExecutionSpec` (`IsExecution`: any
number of operations, durations, resources and dependencies, either policy):
`SchedulesAreFeasible` and `DispatchesAreEarliest`, that is `ScheduleIsFeasible`
and `EarliestRunsFirst` of the specification that gives the scheduler one
execution after the other (`ScheduleSpec`). TLC checks that the executions of
`offline_planning` are such executions (`ExecutionsAssumption`).

- *The gap.* `FirstGap` is a recursive function on all numbers.
  `MovedFacts` says that a pass over the resources moves the start exactly when a
  resource is taken, and only over times at which one is; so the first free time is
  a fixpoint, the recursion has a solution (`GapsExist`) and it is that time
  (`FirstGapFacts`), because no interval is beyond the last end (`Horizon`).
- *The intervals.* `GivenOK`: an operation is behind its dependencies (`Behind`), no two
  overlap on a resource (`Apart`), every earlier time was blocked (`Prompt`), and
  what was dispatched has no circle (`Acyclic`). `MoreGiven`, that intervals given
  out later only delay, is what makes `Prompt` and the keys last.
- *The heap.* `ReadyExact`: one entry for each operation that can run. `KeysBound`,
  under `earliest_ready`: a key is a lower bound of the start, and no operation
  that can run could have started before one already dispatched.

`SInv` is their conjunction. The crux is `DispatchedIsFirst`: a popped entry that is
not stale is before the lower bound of every other, hence before every other start.
`Cyclic` is by rounds of taking what depends only on what was taken: with the heap
empty and an operation left, no round leaves what was dispatched; with all
dispatched, each round takes one more (`TakenFacts`).

Only model-checked: all liveness (fairness and ENABLED are out of the prover's
reach); the DiT runners on one device; the planners, the statistics and the
estimate. Most of the latter are recursive functions and folds over their
inputs, and what those compute needs induction over data. The library's induction
theorems cannot be instantiated with the available provers; an induction over a
set of numbers, as for `FlattenedIn`, can be done and is long.

## 7. What is not modelled

- Floating-point arithmetic, kernels, quantization: results are named by what
  was accumulated. Backend selection and the Sage state with them. Routing of
  the sparse path is arithmetic; every routed tile is needed in the model.
- Validation that runs before any state exists; its accepted ranges are the
  modules' assumptions.
- Statistics, timing values, traces, NVTX ranges, benchmarks; the byte and time
  formulas of `estimation/h3/profiles.py`, calibration and the report's web page.
- Interrupts (KeyboardInterrupt) in DitBlocks and MultiGpuH3: StreamingExecutor has
  them, and finding 3 says what they do there.
- Pinned-memory lifetime in the caching host allocator after a failed paged run
  (`staging.py:70`): a contract of torch, not of this code.
- Re-entrant calls on a runner (`_single_flight.py:20` admits them from a callback),
  concurrent writers of one directory or a second `write_pages` of one builder
  (`qkv_writer.py:51` checks for a manifest only when the builder is made), and a
  new call resetting controllers that a worker of an interrupted call still
  updates (`multigpu/streaming.py:200`).
- `h2d_end` (`streaming/executor.py:386`) is recorded in the model as in the code;
  nothing waits for it, so no property is about it.
- The host memory budget (a counter behind one lock), store readers (positioned
  reads and a pool of bounce buffers) and the NVMe simulator (delays that PagedRun
  leaves arbitrary): no other component's state depends on theirs.
- The multi-GPU DiT runner with static scheduling and with several clients;
  MultiGpuCalls has both for plain attention calls.

## 8. Plan

Done, in this order: paged cache and scan with proofs; paged executors; dynamic
scheduling with proofs and its calls; store publication; streaming executor; the
programs of projection, sparse attention and DiT blocks on one device and on
several; planning, scheduling and estimation; proofs of the multi-GPU calls, of store
publication, of the CUDA executor of a paged run, of the pages a scan reads once, of
the inputs a streaming call releases and of its outputs, of the multi-GPU H3 runner
and of the scheduler.

What would add most next:

1. **Host memory budget and store readers**: bytes and bounce buffers across every
   failure path, with proofs, since both are small.
2. **Concurrent writers and repeated `write_pages`** of one directory, as a constant
   of StorePublication; the theorems then name it in their assumptions.
3. **Re-entrant calls and interrupts** in DitBlocks.
4. **Proofs**: `CallsEndQuiet` and `WeightsAreLeased` of DitBlocks.
