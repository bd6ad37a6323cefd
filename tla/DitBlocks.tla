----------------------------- MODULE DitBlocks -----------------------------
(***************************************************************************)
(* Calls of run_blocks_ on one DiT runner: the host thread executes the    *)
(* instructions of DitPrograms, the streams of its CUDA device perform     *)
(* what was enqueued.  An instruction may raise an exception: before its   *)
(* operation, after it, or after its records; the recovery around the      *)
(* instruction is run, the leases are left and the exception reaches the   *)
(* caller, who may call the runner again with fresh hidden tensors.        *)
(*                                                                         *)
(* mem holds the host tensors and the device buffers alike.  At the        *)
(* beginning of a call everything the runner kept is wrong, and the        *)
(* hidden tensors have version 0.                                          *)
(***************************************************************************)
EXTENDS DitPrograms

CONSTANTS
  Runners,   \* the kinds of runners that are modelled
  Shape,     \* of each: rows by modality, qChunk, projectionTile, ffnTile,
             \* slots, outputs, blocks, and denseBlocks of H3
  Retried    \* bound: the kinds that are called once more after an exception

ASSUME BlocksAssumption ==
  /\ Runners \subseteq Kinds
  /\ Retried \subseteq Runners
  /\ \A kind \in Runners :
       /\ \A m \in Modalities(kind.model) : Shape[kind].rows[m] \in Nat \ {0}
       /\ Shape[kind].qChunk \in Nat \ {0}
       /\ Shape[kind].projectionTile \in Nat \ {0}
       /\ Shape[kind].ffnTile \in Nat \ {0}
       /\ Shape[kind].slots \in {1, 2, 3}
       /\ Shape[kind].outputs \in {1, 2}
       /\ Shape[kind].blocks \in Nat \ {0}

VARIABLES
  kind,      \* the runner
  outcome,   \* of its last call: "none", "running", "returned" or "raised"
  pc,        \* "idle", "run" or "recover"
  at,        \* the instruction the host is at
  raised,    \* an earlier call of the runner raised
  pending,   \* the events flagged as busy or pending
  leases,    \* the weight leases held
  device,    \* streams and events
  mem        \* the contents of host tensors and device buffers

vars == <<kind, outcome, pc, at, raised, pending, leases, device, mem>>

Cuda == INSTANCE CudaStreams

\* [x \in S |-> F(x)]
Table(F(_), S) == FoldSet(LAMBDA x, t : (x :> F(x)) @@ t, <<>>, S)

Programs == Table(LAMBDA k : Program(k, Shape[k]), Runners)

Ops(k) == {instruction \in {step.do : step \in ToSet(Programs[k])} : instruction.do = "op"}

Streams == Table(LAMBDA k : {op.stream : op \in Ops(k)}, Runners)
Events == Table(LAMBDA k : UNION {op.records : op \in Ops(k)}, Runners)

HiddenRows(k) ==
  UNION {At(Tensor(m, 0), Rows(m, 0, Slice(0, Shape[k].rows[m]))) : m \in Modalities(k.model)}
TextRows(k) ==
  IF k.model = "h3" THEN {} ELSE At(TextTensor, Rows("text", 0, Slice(0, Shape[k].rows["text"])))

\* What a call starts from.
Given(k) == HiddenRows(k) \cup TextRows(k)

Locations(k) ==
  {entry[1] : entry \in Given(k) \cup UNION {op.gives \cup op.needs : op \in Ops(k)}}

ContentOf(entries, location, otherwise) ==
  LET found == {e \in entries : e[1] = location}
  IN  IF found = {} THEN otherwise ELSE (CHOOSE e \in found : TRUE)[2]

Wrong == {}
Start == Table(LAMBDA k : Table(LAMBDA l : ContentOf(Given(k), l, Wrong), Locations(k)), Runners)

Init ==
  /\ kind \in Runners
  /\ outcome = "none"
  /\ pc = "idle"
  /\ at = 1
  /\ raised = FALSE
  /\ pending = {}
  /\ leases = {}
  /\ device = Cuda!Device(Streams[kind], Events[kind])
  /\ mem = Start[kind]

-----------------------------------------------------------------------------
(* The host thread. *)

Begin ==
  /\ pc = "idle"
  /\ outcome = "none" \/ (outcome = "raised" /\ kind \in Retried)
  /\ outcome' = "running"
  /\ pc' = "run"
  /\ at' = 1
  /\ mem' = Start[kind]
  /\ UNCHANGED <<kind, raised, pending, leases, device>>

\* The step the host is at, none when the program is over.
StepOf(program) == IF at \in DOMAIN program THEN {program[at]} ELSE {}
ProgramOver == StepOf(Programs[kind]) = {}

\* The instruction to execute, when it is one to do `what`.
Instruction(what) ==
  IF pc # "run" THEN {}
  ELSE {i \in {step.do : step \in StepOf(Programs[kind])} : i.do = what}

Enqueue(op, records) ==
  device' = Cuda!Launch(device, op.stream, op.waits \cup (op.guards \cap pending), at, records)

Issue ==
  /\ \E op \in Instruction("op") :
       /\ Enqueue(op, op.records)
       /\ pending' = pending \cup op.flags
  /\ at' = at + 1
  /\ UNCHANGED <<kind, outcome, pc, raised, leases, mem>>

Idle(stream) ==
  IF stream = Device THEN Cuda!Drained(device) ELSE device.queue[stream] = <<>>

\* What a Wait blocks for.
Over(wait) ==
  /\ \A e \in wait.events \cup (wait.guards \cap pending) : Cuda!Synchronized(device, e)
  /\ \A s \in wait.streams : Idle(s)

WaitFor ==
  /\ \E wait \in Instruction("wait") :
       /\ Over(wait)
       /\ pending' = pending \ wait.clears
  /\ at' = at + 1
  /\ UNCHANGED <<kind, outcome, pc, raised, leases, device, mem>>

EnterOrLeave ==
  /\ \E lease \in Instruction("lease") : leases' = (leases \cup lease.enter) \ lease.leave
  /\ at' = at + 1
  /\ UNCHANGED <<kind, outcome, pc, raised, pending, device, mem>>

Return ==
  /\ pc = "run"
  /\ ProgramOver
  /\ outcome' = "returned"
  /\ pc' = "idle"
  /\ UNCHANGED <<kind, at, raised, pending, leases, device, mem>>

\* Bound: one exception in the life of a runner.
Raise ==
  /\ ~raised
  /\ \E op \in Instruction("op") :
       UNCHANGED device \/ Enqueue(op, {}) \/ Enqueue(op, op.records)
  /\ raised' = TRUE
  /\ pc' = "recover"
  /\ UNCHANGED <<kind, outcome, at, pending, leases, mem>>

\* The `except` around the instruction, then the `with` blocks it is in.
Recover ==
  /\ pc = "recover"
  /\ \E step \in StepOf(Programs[kind]) :
       /\ Over(step.recovery)
       /\ pending' = pending \ step.recovery.clears
  /\ leases' = {}
  /\ outcome' = "raised"
  /\ pc' = "idle"
  /\ UNCHANGED <<kind, at, raised, device, mem>>

-----------------------------------------------------------------------------
(* The device. *)

\* What memory holds after an operation.
Result(op) ==
  LET exact == \A need \in op.needs : mem[need[1]] = need[2]
      outputs == {e[1] : e \in op.gives}
  IN  [l \in DOMAIN mem |->
         IF l \notin outputs THEN mem[l]
         ELSE IF exact THEN ContentOf(op.gives, l, Wrong) ELSE Wrong]

DeviceStep(s) ==
  /\ Cuda!CanPerform(device, s)
  /\ mem' = Result(Programs[kind][Cuda!Work(device, s)].do)
  /\ device' = Cuda!Performed(device, s)
  /\ UNCHANGED <<kind, outcome, pc, at, raised, pending, leases>>

-----------------------------------------------------------------------------
Finished ==
  /\ pc = "idle"
  /\ outcome # "none"
  /\ outcome = "raised" => kind \notin Retried
  /\ Cuda!Drained(device)
  /\ UNCHANGED vars

Host == Begin \/ Issue \/ WaitFor \/ EnterOrLeave \/ Return \/ Recover

Next ==
  \/ Host \/ Raise
  \/ \E s \in Streams[kind] : DeviceStep(s)
  \/ Finished

Spec == Init /\ [][Next]_vars

-----------------------------------------------------------------------------
\* The version a row of m has reached: the newest exact one in its tensors.
Versions == [m \in Modalities(kind.model) |->
  [r \in Slice(0, Shape[kind].rows[m]) |->
     LET found == {v \in 0 .. LastVersion(kind, Shape[kind]) :
                     \E side \in {0, 1} :
                       /\ Append(Tensor(m, side), r) \in DOMAIN mem
                       /\ mem[Append(Tensor(m, side), r)] = {<<m, v, r>>}}
     IN  IF found = {} THEN 0 ELSE CHOOSE v \in found : \A u \in found : u <= v]]

Promise == INSTANCE BlockCalls WITH
  Kinds <- Runners,
  RowsOf <- LAMBDA k, m : Slice(0, Shape[k].rows[m]),
  Last <- LAMBDA k : LastVersion(k, Shape[k]),
  version <- Versions

\* The runners keep the promise of BlockCalls: every row goes through the
\* stages of its model one at a time, each computed from exactly the rows it
\* depends on, and no row changes once the call returned or raised.
KeepsItsPromise == Promise!Spec

\* The tensors run_blocks_ returns hold the last version of every row: the
\* swaps of source and destination end on the right side.
ReturnsLastVersions ==
  outcome = "returned" =>
    \A m \in Modalities(kind.model) : \A r \in Slice(0, Shape[kind].rows[m]) :
      mem[Append(Returned(kind, Shape[kind], m), r)] = {<<m, LastVersion(kind, Shape[kind]), r>>}

\* A call that returned or raised left nothing on the device: its tensors and
\* its weights can be freed.
CallsEndQuiet == pc = "idle" => Cuda!Drained(device)

\* The device computes with weights only while their lease is held.
WeightsAreLeased ==
  \A s \in DOMAIN device.queue : \A i \in DOMAIN device.queue[s] :
    Programs[kind][device.queue[s][i].work].do.uses \subseteq leases
=============================================================================
