------------------------- MODULE StreamingExecutor -------------------------
(***************************************************************************)
(* Serial calls of one StreamingAttentionRunner (streaming/runner.py) over *)
(* its persistent CUDA workspace (streaming/workspace.py).                 *)
(*                                                                         *)
(* The host thread issues the steps of a call's program one after the      *)
(* other and then waits; the streams perform them on their own.  A step    *)
(* may raise: an ordinary exception (a callback, an allocation, a launch)  *)
(* is followed by recovery, except in the split executor, which has none;  *)
(* an interrupt (KeyboardInterrupt, SystemExit) always leaves at once.     *)
(* Either may strike between the operation, its record and its flag.       *)
(***************************************************************************)
EXTENDS StreamingProgram

CONSTANTS
  MaxCalls,     \* bound: calls made on the runner
  Follows,      \* bound: by output mode, the kinds of calls made one after another
  Interrupted   \* the output modes in which calls are interrupted

ASSUME ExecutorAssumption ==
  /\ MaxCalls \in Nat \ {0}
  /\ Follows \subseteq {"host", "device_consumer"} \X Kinds \X (Kinds \cup {"none"})
  /\ Interrupted \subseteq {"host", "device_consumer"}

VARIABLES
  mode,      \* plan.output_mode of the runner
  call,      \* the call being made, or the last one
  pc,        \* "idle", "issue", "measure" or "recover"
  todo,      \* the steps of the call's program not yet issued
  pending,   \* the free events flagged by the *_has_pending_* fields
  device,    \* streams and events
  mem,       \* what each device buffer holds
  out,       \* the destination of each call, by task
  outcome    \* how each call ended

vars == <<mode, call, pc, todo, pending, device, mem, out, outcome>>

Cuda == INSTANCE CudaStreams

Ids == 1 .. MaxCalls
Garbage == <<>>

\* The exact output of a task: its Q rows met every K/V tile once, in order.
Answer(id, t) ==
  [i \in 1 .. NumTiles |-> <<<<id, "q", t>>, <<id, "kv", i - 1>>>>]

NoCall == [id |-> 0, mode |-> "host", kind |-> "host"]

\* CudaWorkspace.__init__
Init ==
  /\ mode \in {"host", "device_consumer"}
  /\ call = NoCall
  /\ pc = "idle"
  /\ todo = <<>>
  /\ pending = {}
  /\ device = Cuda!Device(Streams, Events)
  /\ mem = [b \in Buffers(Ids) |-> Garbage]
  /\ out = [id \in Ids |-> <<>>]
  /\ outcome = [id \in Ids |-> "none"]

-----------------------------------------------------------------------------
(* The host thread. *)

\* Bound: the calls that are made.
MayMake(kind) ==
  IF call = NoCall THEN \E next \in Kinds \cup {"none"} : <<mode, kind, next>> \in Follows
                   ELSE <<mode, call.kind, kind>> \in Follows

\* A call is made: validation passed and the single-flight lock is held.
Begin ==
  /\ pc = "idle"
  /\ call.id < MaxCalls
  /\ \E kind \in KindsIn(mode) :
       /\ MayMake(kind)
       /\ call' = [id |-> call.id + 1, mode |-> mode, kind |-> kind]
       /\ out' = [out EXCEPT ![call.id + 1] = [t \in 1 .. TaskCount(call') |-> Garbage]]
  /\ outcome' = [outcome EXCEPT ![call.id + 1] = "running"]
  /\ pc' = "issue"
  /\ todo' = Program(call')
  /\ UNCHANGED <<mode, pending, device, mem>>

Instruction == Head(todo)
ProgramOver == todo = <<>>

\* Enqueue the step's operation behind its waits, and `records` behind it.
Enqueue(records) ==
  device' = Cuda!Launch(device, Instruction.stream,
                        Instruction.waits \cup (Instruction.guards \cap pending),
                        Instruction.work, records)

Issue ==
  /\ pc = "issue"
  /\ ~ProgramOver
  /\ Enqueue(Instruction.records)
  /\ pending' = pending \cup Instruction.flags
  /\ todo' = Tail(todo)
  /\ UNCHANGED <<mode, call, pc, mem, out, outcome>>

\* An exception strikes in a step: before its operation, after it, or after
\* its records.
StopInside ==
  /\ pc = "issue"
  /\ ~ProgramOver
  /\ UNCHANGED device \/ Enqueue({}) \/ Enqueue(Instruction.records)

Leave(how) ==
  /\ outcome' = [outcome EXCEPT ![call.id] = how]
  /\ pc' = "idle"

\* `except Exception` of _run_triton_from_source; the split executor has none.
Raise ==
  /\ StopInside
  /\ IF call.kind = "flash"
     THEN Leave("abandoned")
     ELSE pc' = "recover" /\ UNCHANGED outcome
  /\ UNCHANGED <<mode, call, todo, pending, mem, out>>

Waiting == pc \in {"measure", "recover"} \/ (pc = "issue" /\ ProgramOver)

Interrupt ==
  /\ mode \in Interrupted
  /\ \/ StopInside
     \/ Waiting /\ UNCHANGED device
  /\ Leave("abandoned")
  /\ UNCHANGED <<mode, call, todo, pending, mem, out>>

StreamIdle(s) == device.queue[s] = <<>>

\* The synchronizations at the end of a run.
OutputComplete ==
  IF ~Consumed(call) THEN StreamIdle("d2h")
  ELSE IF Measured(call) THEN Cuda!Synchronized(device, TaskDone)
  ELSE StreamIdle("consumer")

Synchronize ==
  /\ pc = "issue"
  /\ ProgramOver
  /\ OutputComplete
  /\ Cuda!Synchronized(device, PipelineEnd)
  /\ IF Measured(call)
     THEN pc' = "measure" /\ UNCHANGED outcome
     ELSE Leave("returned")
  /\ UNCHANGED <<mode, call, todo, pending, device, mem, out>>

\* Event.elapsed_time raises when one of its events has not been reached.
Measure ==
  /\ pc = "measure"
  /\ IF Cuda!Synchronized(device, H2dEnd)
     THEN Leave("returned")
     ELSE pc' = "recover" /\ UNCHANGED outcome
  /\ UNCHANGED <<mode, call, todo, pending, device, mem, out>>

\* Mutant: source.recover() is not called.
RecoveredStreamsOfWorkspace ==
  {"h2d", "compute", "d2h"} \cup (IF Consumed(call) THEN {"consumer"} ELSE {})

\* The streams _recover_triton_failure waits for.
RecoveredStreams ==
  {"h2d", "compute", "d2h"}
    \cup (IF Consumed(call) THEN {"consumer"} ELSE {})
    \cup (IF FromHost(call) THEN {} ELSE {Staging(call, "q"), Staging(call, "kv")})

\* The flags it clears: the consumer keeps its own.
RecoveredFlags ==
  {QFree} \cup ({"kv_free"} \X KvBuffers) \cup ({"output_free"} \X OutputBuffers)
    \cup (IF FromHost(call) THEN {}
          ELSE {HiddenFree(Staging(call, "q")), HiddenFree(Staging(call, "kv"))})

Recover ==
  /\ pc = "recover"
  /\ \A s \in RecoveredStreams : StreamIdle(s)
  /\ pending' = pending \ RecoveredFlags
  /\ Leave("raised")
  /\ UNCHANGED <<mode, call, todo, device, mem, out>>

Host == Begin \/ Issue \/ Synchronize \/ Measure \/ Recover

-----------------------------------------------------------------------------
(* The device. *)

Perform(work) ==
  /\ mem' = CASE work.op = "load" -> [mem EXCEPT ![work.to] = work.rows]
              [] work.op = "copy" -> [mem EXCEPT ![work.to] = mem[work.from]]
              [] work.op = "update" ->
                   [b \in DOMAIN mem |->
                      IF b = Accumulator
                      THEN Append(IF work.initialize THEN <<>> ELSE mem[b],
                                  <<mem[Q], mem[work.kv]>>)
                      ELSE IF b \in work.scratch THEN Garbage ELSE mem[b]]
              [] OTHER -> mem
  /\ out' = IF work.op = "store"
            THEN [out EXCEPT ![work.id][work.task] = mem[work.from]]
            ELSE out

DeviceStep(s) ==
  /\ Cuda!CanPerform(device, s)
  /\ Perform(Cuda!Work(device, s))
  /\ device' = Cuda!Performed(device, s)
  /\ UNCHANGED <<mode, call, pc, todo, pending, outcome>>

-----------------------------------------------------------------------------
\* The callers may stop at any time.
Finished == pc = "idle" /\ Cuda!Drained(device) /\ UNCHANGED vars

Next ==
  \/ Host \/ Raise \/ Interrupt
  \/ \E s \in Streams : DeviceStep(s)
  \/ Finished

Spec == Init /\ [][Next]_vars

-----------------------------------------------------------------------------
\* A call that returned produced the exact attention of its own inputs, no
\* matter what earlier calls on the same workspace left behind, and its
\* destination stays that way.
ReturnedOutputsExact ==
  \A id \in Ids : outcome[id] = "returned" =>
    \A t \in DOMAIN out[id] : out[id][t] = Answer(id, t)

Promise == INSTANCE AttentionCalls WITH
  Calls <- Ids, MaxTasks <- NumTasks, Unwritten <- Garbage

\* Serial calls on one runner keep the promise of AttentionCalls: each writes
\* exact rows to its own destination only, and none after it returned or raised.
KeepsItsPromise == Promise!Spec

\* Once a call returned or raised, the device reads nothing of its host
\* tensors any more: the caller may free or overwrite them.
InputsReleased ==
  \A s \in Streams : \A i \in 1 .. Len(device.queue[s]) :
    LET work == device.queue[s][i].work IN
    work.op = "load" => outcome[work.rows[1]] \notin {"returned", "raised"}
=============================================================================
