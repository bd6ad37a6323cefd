------------------------------ MODULE MultiGpuH3 ------------------------------
(***************************************************************************)
(* MultiGpuH3MaterializedRunner (multigpu: dit.py, projection.py): one     *)
(* host hidden tensor is taken through its blocks by a worker thread per   *)
(* CUDA device.  In each block the workers first claim projection tasks    *)
(* and fill one shared host arena with Q and K/V; when all are through,    *)
(* they claim Q ranges, attend over the whole arena and write the next     *)
(* version of the rows in place.  A worker that raises cancels the claims  *)
(* of the others, and the call raises when all have ended.                 *)
(*                                                                         *)
(* The size of a claimed Q range is free here: MultiGpuDynamic has the     *)
(* controllers and the cursor that choose it.                              *)
(***************************************************************************)
EXTENDS DitPrograms, FiniteSetsExt, TLC

CONSTANTS
  Devices,         \* attention_plan.devices
  RowCount,        \* rows of the hidden tensor
  ChunkTokens,     \* chunk_tokens of the projection
  QCapacity,       \* q_capacity_tokens
  OutputBuffers,   \* num_final_output_buffers
  BlockCount,      \* blocks of a call
  MaxRaises        \* bound: exceptions in the life of a runner

ASSUME MultiGpuH3Assumption ==
  /\ Devices # {}
  /\ {RowCount, ChunkTokens, QCapacity, BlockCount} \subseteq Nat \ {0}
  /\ OutputBuffers \in {1, 2}
  /\ MaxRaises \in Nat

VARIABLES
  outcome,    \* of the last call: "none", "running", "returned" or "raised"
  phase,      \* what the workers do: "idle", "project" or "attend"
  block,      \* the current block
  next,       \* _next_token, or the Q offset, of the phase's cursor
  cancelled,  \* _cancelled of that cursor
  failed,     \* failures is not empty
  raises,     \* exceptions so far
  worker,     \* of each device: [pc, task, at, index, pending, leases]
  cuda,       \* the streams and events of each device
  host,       \* the hidden tensor and the arena
  local       \* the device buffers of each device

vars == <<outcome, phase, block, next, cancelled, failed, raises, worker, cuda, host, local>>

Cuda == INSTANCE CudaStreams

-----------------------------------------------------------------------------
(* The programs of the tasks. *)

Runner == [model |-> "h3", policy |-> "materialized"]

\* A projection ring has one slot.
BlockShape == [slots |-> 1, outputs |-> OutputBuffers]

StageOf(b) == SelfStage(Runner, "self", "video", b + 1, 0, 0)

\* MultiGpuQKVProjectionRunner._run_task: one tile of a ring that is waited
\* for at once.
ProjectTask(task) ==
  LET stage == StageOf(task.block)
      w == QueryStaging(stage)
      range == Slice(task.start, task.stop)
      rows == Rows("video", task.block, range)
      result == Tile("q", "video", stage.v, range) \cup Tile("kv", "video", stage.v, range)
      target == At(ArenaTensor("video", "q"), Tile("q", "video", stage.v, range))
                  \cup At(ArenaTensor("video", "kv"), Tile("kv", "video", stage.v, range))
  IN  Within(RecoverProjection(w, 1),
        Tail(RingTile(w, 1, 0, At(stage.query.tensor, rows), rows, result, target,
                      Projecting(stage)))
          \o <<Wait({}, {CopyDone(w, 0)}, {}, {CopyDone(w, 0)})>>)

TaskDone(stage) == <<"task_done", stage.name>>

\* Mutant: the task ends with its last kernel, not with its last copy.
AttendEndOfPipeline(stage) ==
  <<Op(Compute, {}, {}, {}, {}, {PipelineEnd(stage)}, {}, {}),
    Wait({}, {PipelineEnd(stage)}, {}, {})>>

\* finish_task, and the end of the pipeline.
AttendEnd(stage) ==
  <<Op(Writer(stage.out), {}, {}, {}, {}, {TaskDone(stage)}, {}, {})>>
    \o ReleaseQ(stage)
    \o <<Op(Compute, {}, {}, {}, {}, {PipelineEnd(stage)}, {}, {}),
         Wait({}, {TaskDone(stage), PipelineEnd(stage)}, {}, {})>>

\* _run_query_task_with_task_consumer: the consumer emits the whole range.
AttendTask(task) ==
  LET stage == StageOf(task.block)
      range == Slice(task.start, task.stop)
      context == Slice(0, RowCount)
  IN  Within(RecoverAttention(stage),
        LoadQ(stage, range) \o LoadKv(stage, context) \o Attend(stage, range, context)
          \o <<Op(Compute, {}, {}, EpilogueNeeds(stage, range),
                  Posts(stage, "chunk", 0, task.start, task.stop), {}, {}, {Consuming(stage)})>>
          \o H3Steps(stage, BlockShape, H3!TaskSteps(task.start, task.stop), task.start, task.slot)
          \o AttendEnd(stage))

Ranges(size) == {r \in (0 .. RowCount - 1) \X (1 .. RowCount) : r[1] < r[2] /\ r[2] - r[1] <= size}

Tasks ==
  LET blocks == 0 .. BlockCount - 1 IN
  {[do |-> "project", block |-> b, start |-> r[1], stop |-> r[2], slot |-> 0] :
     b \in blocks, r \in Ranges(ChunkTokens)}
  \cup {[do |-> "attend", block |-> b, start |-> r[1], stop |-> r[2], slot |-> s] :
          b \in blocks, r \in Ranges(QCapacity), s \in 0 .. OutputBuffers - 1}

Table(F(_), S) == [x \in S |-> F(x)]

TaskProgram(task) == IF task.do = "project" THEN ProjectTask(task) ELSE AttendTask(task)

Programs == Table(TaskProgram, Tasks)

Ops == UNION {{Programs[t][i].do : i \in {j \in DOMAIN Programs[t] : Programs[t][j].do.do = "op"}} :
                t \in Tasks}
Streams == Table(LAMBDA s : TRUE, {op.stream : op \in Ops})
Events == Table(LAMBDA e : TRUE, UNION {op.records : op \in Ops})

Entries == UNION {op.gives \cup op.needs : op \in Ops}
OnHost(location) == location[1] \in {"hidden", "arena"}
HostRows == At(Tensor("video", 0), Rows("video", 0, Slice(0, RowCount)))
HostLocations == Table(LAMBDA l : TRUE, {e[1] : e \in {f \in Entries \cup HostRows : OnHost(f[1])}})
LocalLocations == Table(LAMBDA l : TRUE, {e[1] : e \in {f \in Entries : ~OnHost(f[1])}})

Content(entries, location, otherwise) ==
  LET found == {e \in entries : e[1] = location}
  IN  IF found = {} THEN otherwise ELSE (CHOOSE e \in found : TRUE)[2]

Wrong == {}
NothingLocal == [d \in Devices |-> [l \in DOMAIN LocalLocations |-> Wrong]]
Given == [l \in DOMAIN HostLocations |-> Content(HostRows, l, Wrong)]

-----------------------------------------------------------------------------
NoTask == [do |-> "none"]

Resting == [pc |-> "done", task |-> NoTask, at |-> 0, index |-> 0, pending |-> {}, leases |-> {}]

Init ==
  /\ outcome = "none"
  /\ phase = "idle"
  /\ block = 0
  /\ next = 0
  /\ cancelled = FALSE
  /\ failed = FALSE
  /\ raises = 0
  /\ worker = [d \in Devices |-> Resting]
  /\ cuda = [d \in Devices |-> Cuda!Device(DOMAIN Streams, DOMAIN Events)]
  /\ host = Given
  /\ local = NothingLocal

-----------------------------------------------------------------------------
(* The calling thread. *)

\* A new cursor, and every worker started; the consumers are reset before
\* they attend.  What the device buffers still hold is of no use.
StartWorkers(what) ==
  /\ phase' = what
  /\ next' = 0
  /\ cancelled' = FALSE
  /\ worker' = [d \in Devices |-> [worker[d] EXCEPT !.pc = "enter", !.index = 0]]
  /\ local' = NothingLocal

\* run_blocks_, again after an exception with a hidden tensor of its own.
Begin ==
  /\ phase = "idle"
  /\ outcome \in {"none", "raised"}
  /\ outcome' = "running"
  /\ block' = 0
  /\ failed' = FALSE
  /\ StartWorkers("project")
  /\ host' = Given
  /\ UNCHANGED <<raises, cuda>>

\* future.result() of all workers.
Joined == phase # "idle" /\ \A d \in Devices : worker[d].pc = "done"

StartAttention ==
  /\ Joined /\ ~failed
  /\ phase = "project"
  /\ StartWorkers("attend")
  /\ UNCHANGED <<outcome, block, failed, raises, cuda, host>>

StartBlock ==
  /\ Joined /\ ~failed
  /\ phase = "attend" /\ block + 1 < BlockCount
  /\ block' = block + 1
  /\ StartWorkers("project")
  /\ UNCHANGED <<outcome, failed, raises, cuda, host>>

End ==
  /\ Joined
  /\ failed \/ (phase = "attend" /\ block + 1 = BlockCount)
  /\ outcome' = IF failed THEN "raised" ELSE "returned"
  /\ phase' = "idle"
  /\ UNCHANGED <<block, next, cancelled, failed, raises, worker, cuda, host, local>>

-----------------------------------------------------------------------------
(* The worker of device d. *)

LeaseOf(what) == IF what = "project" THEN Projecting(StageOf(block)) ELSE Consuming(StageOf(block))

Enter(d) ==
  /\ worker[d].pc = "enter"
  /\ worker' = [worker EXCEPT ![d].pc = "claim", ![d].leases = {LeaseOf(phase)}]
  /\ UNCHANGED <<outcome, phase, block, next, cancelled, failed, raises, cuda, host, local>>

Sizes == IF phase = "project" THEN {H3!Least(ChunkTokens, RowCount - next)}
         ELSE 1 .. H3!Least(QCapacity, RowCount - next)

Claim(d) ==
  /\ worker[d].pc = "claim"
  /\ ~cancelled /\ next < RowCount
  /\ \E size \in Sizes :
       /\ next' = next + size
       /\ worker' = [worker EXCEPT
            ![d].pc = "run", ![d].at = 1,
            ![d].task = [do |-> phase, block |-> block, start |-> next, stop |-> next + size,
                         slot |-> worker[d].index % OutputBuffers]]
  /\ UNCHANGED <<outcome, phase, block, cancelled, failed, raises, cuda, host, local>>

\* claim() returned None.
Finish(d) ==
  /\ worker[d].pc = "claim"
  /\ cancelled \/ next >= RowCount
  /\ worker' = [worker EXCEPT ![d].pc = "done", ![d].leases = {}, ![d].task = NoTask, ![d].at = 0]
  /\ UNCHANGED <<outcome, phase, block, next, cancelled, failed, raises, cuda, host, local>>

Instruction(d) == Programs[worker[d].task][worker[d].at].do

\* On to the next instruction, or the next claim.
Advanced(d) ==
  LET w == worker[d]
  IN  IF w.at < Len(Programs[w.task]) THEN [w EXCEPT !.at = @ + 1]
      ELSE [w EXCEPT !.at = 0, !.pc = "claim", !.task = NoTask,
                     !.index = @ + (IF w.task.do = "attend" THEN 1 ELSE 0)]

Enqueue(d, records) ==
  cuda' = [cuda EXCEPT ![d] =
    Cuda!Launch(@, Instruction(d).stream,
                Instruction(d).waits \cup (Instruction(d).guards \cap worker[d].pending),
                <<worker[d].task, worker[d].at>>, records)]

Issue(d) ==
  /\ worker[d].pc = "run" /\ Instruction(d).do = "op"
  /\ Enqueue(d, Instruction(d).records)
  /\ worker' = [worker EXCEPT ![d] = [Advanced(d) EXCEPT !.pending = @ \cup Instruction(d).flags]]
  /\ UNCHANGED <<outcome, phase, block, next, cancelled, failed, raises, host, local>>

\* What a Wait blocks for.
Over(d, wait) ==
  /\ \A e \in wait.events \cup (wait.guards \cap worker[d].pending) : Cuda!Synchronized(cuda[d], e)
  /\ \A s \in wait.streams : cuda[d].queue[s] = <<>>

WaitFor(d) ==
  /\ worker[d].pc = "run" /\ Instruction(d).do = "wait"
  /\ Over(d, Instruction(d))
  /\ worker' = [worker EXCEPT ![d] = [Advanced(d) EXCEPT !.pending = @ \ Instruction(d).clears]]
  /\ UNCHANGED <<outcome, phase, block, next, cancelled, failed, raises, cuda, host, local>>

\* An instruction raises before its operation, after it, or after its records.
Raise(d) ==
  /\ worker[d].pc = "run" /\ Instruction(d).do = "op"
  /\ raises < MaxRaises
  /\ raises' = raises + 1
  /\ UNCHANGED cuda \/ Enqueue(d, {}) \/ Enqueue(d, Instruction(d).records)
  /\ worker' = [worker EXCEPT ![d].pc = "raised"]
  /\ UNCHANGED <<outcome, phase, block, next, cancelled, failed, host, local>>

Recovery(d) == Programs[worker[d].task][worker[d].at].recovery

Ended(d, cleared) ==
  [worker EXCEPT ![d].pc = "done", ![d].leases = {}, ![d].task = NoTask, ![d].at = 0,
                 ![d].pending = @ \ cleared]

\* run_device of the projection: its `with` is left before the `except` that
\* cancels and recovers.
UnwindProjection(d) ==
  /\ worker[d].pc = "raised" /\ phase = "project"
  /\ worker' = [worker EXCEPT ![d].pc = "recover", ![d].leases = {}]
  /\ cancelled' = TRUE
  /\ UNCHANGED <<outcome, phase, block, next, failed, raises, cuda, host, local>>

\* Mutant: the exception is passed on with work still on the device.
RecoverProjectionWorkerAtOnce(d) ==
  /\ worker[d].pc = "recover"
  /\ worker' = Ended(d, Recovery(d).clears)
  /\ failed' = TRUE
  /\ UNCHANGED <<outcome, phase, block, next, cancelled, raises, cuda, host, local>>

RecoverProjectionWorker(d) ==
  /\ worker[d].pc = "recover"
  /\ Over(d, Recovery(d))
  /\ worker' = Ended(d, Recovery(d).clears)
  /\ failed' = TRUE
  /\ UNCHANGED <<outcome, phase, block, next, cancelled, raises, cuda, host, local>>

\* Mutant: the consumer's lease is left before the executor recovers.
RecoverAttentionWorkerUnleased(d) ==
  /\ worker[d].pc = "raised" /\ phase = "attend"
  /\ IF worker[d].leases = {} /\ Over(d, Recovery(d))
     THEN worker' = Ended(d, Recovery(d).clears) /\ failed' = TRUE
     ELSE worker[d].leases # {} /\ worker' = [worker EXCEPT ![d].leases = {}] /\ UNCHANGED failed
  /\ cancelled' = TRUE
  /\ UNCHANGED <<outcome, phase, block, next, raises, cuda, host, local>>

\* The executor recovers, the `with` is left, then the worker cancels.
RecoverAttentionWorker(d) ==
  /\ worker[d].pc = "raised" /\ phase = "attend"
  /\ Over(d, Recovery(d))
  /\ worker' = Ended(d, Recovery(d).clears)
  /\ cancelled' = TRUE
  /\ failed' = TRUE
  /\ UNCHANGED <<outcome, phase, block, next, raises, cuda, host, local>>

-----------------------------------------------------------------------------
(* Stream s of device d performs its next operation. *)

DeviceStep(d, s) ==
  /\ Cuda!CanPerform(cuda[d], s)
  /\ LET work == Cuda!Work(cuda[d], s)
         op == Programs[work[1]][work[2]].do
         holds(l) == IF OnHost(l) THEN host[l] ELSE local[d][l]
         exact == \A need \in op.needs : holds(need[1]) = need[2]
         outputs == {e[1] : e \in op.gives}
         after(l, old) ==
           IF l \notin outputs THEN old ELSE IF exact THEN Content(op.gives, l, Wrong) ELSE Wrong
     IN  /\ host' = [l \in DOMAIN host |-> after(l, host[l])]
         /\ local' = [local EXCEPT ![d] = [l \in DOMAIN @ |-> after(l, @[l])]]
  /\ cuda' = [cuda EXCEPT ![d] = Cuda!Performed(@, s)]
  /\ UNCHANGED <<outcome, phase, block, next, cancelled, failed, raises, worker>>

-----------------------------------------------------------------------------
Finished == outcome = "returned" /\ UNCHANGED vars

Worker(d) ==
  \/ Enter(d) \/ Claim(d) \/ Finish(d) \/ Issue(d) \/ WaitFor(d)
  \/ UnwindProjection(d) \/ RecoverProjectionWorker(d) \/ RecoverAttentionWorker(d)

Next ==
  \/ Begin \/ StartAttention \/ StartBlock \/ End
  \/ \E d \in Devices : Worker(d) \/ Raise(d) \/ \E s \in DOMAIN Streams : DeviceStep(d, s)
  \/ Finished

Spec == Init /\ [][Next]_vars

-----------------------------------------------------------------------------
Versions == [m \in {"video"} |->
  [r \in Slice(0, RowCount) |->
     LET found == {v \in 0 .. BlockCount : host[Append(Tensor("video", 0), r)] = {<<"video", v, r>>}}
     IN  IF found = {} THEN 0 ELSE CHOOSE v \in found : TRUE]]

Promise == INSTANCE BlockCalls WITH
  Kinds <- {Runner},
  Modalities <- LAMBDA model : {"video"},
  RowsOf <- LAMBDA k, m : Slice(0, RowCount),
  Last <- LAMBDA k : BlockCount,
  kind <- Runner,
  version <- Versions

\* Whichever devices take which tasks, in whatever order they end and whichever
\* of them raises: every row goes from version to version, each computed from
\* exact projections of all rows of the last one, a returned call finished
\* every row, and no row changes once the call returned or raised.
KeepsItsPromise == Promise!Spec

\* A call that returned or raised left nothing on any device.
CallsEndQuiet == phase = "idle" => \A d \in Devices : Cuda!Drained(cuda[d])

\* A device computes with weights only while its worker holds their lease, but
\* for a projection worker that is recovering from an exception.
WeightsAreLeased ==
  \A d \in Devices : worker[d].pc # "recover" =>
    \A s \in DOMAIN cuda[d].queue : \A i \in DOMAIN cuda[d].queue[s] :
      LET work == cuda[d].queue[s][i].work
      IN  Programs[work[1]][work[2]].do.uses \subseteq worker[d].leases

(* The devices of a call are interchangeable.                              *)
Symmetry == Permutations(Devices)
=============================================================================
