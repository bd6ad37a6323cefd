----------------------------- MODULE PagedTriton -----------------------------
(***************************************************************************)
(* The CUDA executor of a paged run (paged/runtime/triton.py, _run_triton, *)
(* and PagedCudaWorkspace in staging.py).                                  *)
(*                                                                         *)
(* The host thread enqueues copies and kernels on three streams and keeps  *)
(* going; what keeps one operation from overwriting what another still     *)
(* reads is the free / ready events below.  The q_busy, kv_busy,           *)
(* output_busy and stage_busy flags only skip a wait for an event that was *)
(* never recorded, or was already synchronised, and are not variables.     *)
(***************************************************************************)
EXTENDS PagedRun

CONSTANTS
  NumKvBuffers,     \* plan.num_kv_buffers
  NumDeviceOutputs  \* plan.num_output_buffers, of the device workspace

ASSUME TritonAssumption ==
  /\ NumKvBuffers \in Nat \ {0}
  /\ NumDeviceOutputs \in Nat \ {0}

VARIABLES
  device,    \* the three streams and the events
  dq,        \* workspace.q: the Q chunk
  dkv,       \* workspace.k and v: the tile in each buffer
  acc,       \* running_max, running_sum, accumulator
  dout,      \* workspace.output
  kvTile,    \* kv_tile_index
  qChunk     \* q_chunk_index

deviceVars == <<device, dq, dkv, acc, dout, kvTile, qChunk>>
vars == <<runVars, deviceVars>>

Cuda == INSTANCE CudaStreams

-----------------------------------------------------------------------------
KvBuffers == 0 .. NumKvBuffers - 1
DeviceOutputs == 0 .. NumDeviceOutputs - 1

Streams == {"h2d", "compute", "d2h"}
Events ==
  {<<"q_ready">>, <<"q_free">>}
    \cup ({"kv_ready", "kv_free"} \X KvBuffers)
    \cup ({"output_ready", "output_free"} \X DeviceOutputs)
    \cup ({"stage_free"} \X Stages)
    \cup ({"output_host_ready"} \X OutSlots)

\* The buffers a tile and an output chunk use.
KvBuffer(index) == index % NumKvBuffers
DeviceOutput(index) == index % NumDeviceOutputs

\* An operation names the page and the chunk it was launched for, and a tile or
\* an output chunk by its index.
Op(op, index) == [op |-> op, page |-> qpage, chunk |-> chunk, index |-> index]

Init ==
  /\ RunInit
  /\ device = Cuda!Device(Streams, Events)
  /\ dq = Nothing
  /\ dkv = [b \in KvBuffers |-> Nothing]
  /\ acc = Nothing
  /\ dout = [o \in DeviceOutputs |-> Nothing]
  /\ kvTile = 0
  /\ qChunk = 0

-----------------------------------------------------------------------------
(* The host thread. *)

\* The output slot is free again: its previous write has returned.
BeginPage ==
  /\ pc = "page"
  /\ writes[OutSlot].phase \in {"none", "done"}
  /\ writes' = [writes EXCEPT ![OutSlot] = NoTask]
  /\ ReadQ
  /\ pc' = "chunk"
  /\ UNCHANGED <<qpage, submitted, consumed, queue, loads, stage, out, sink, outcome, deviceVars>>

\* previous.result() raises what the slot's previous write raised.
SlotWriteFailed ==
  /\ pc = "page"
  /\ writes[OutSlot].phase = "failed"
  /\ Unwind
  /\ UNCHANGED deviceVars

\* Q chunk upload; compute waits for it.
BeginChunk ==
  /\ pc = "chunk"
  /\ pc' = "scan"
  /\ kvTile' = 0
  /\ device' = Cuda!Launch(device, "h2d", {<<"q_free">>},
                           Op("load_q", 0), {<<"q_ready">>})
  /\ UNCHANGED <<qpage, chunk, submitted, consumed, ioVars, bufVars, sink, outcome,
                 dq, dkv, acc, dout, qChunk>>

\* wait_stage: the copies out of the slot's stage have been performed.
StageReusable == Cuda!Synchronized(device, <<"stage_free", StageOf(submitted)>>)

Submit ==
  /\ StageReusable
  /\ SubmitLoad
  /\ UNCHANGED deviceVars

\* The main thread takes the next page of the scan to its consumer.
Consume ==
  /\ TakeLoad
  /\ pc' = "consume"
  /\ UNCHANGED <<qpage, chunk, submitted, queue, writes, bufVars, sink, outcome, deviceVars>>

\* Upload a tile, and update the accumulator from it.
LaunchTile(waits) ==
  LET b == KvBuffer(kvTile)
      uploaded == Cuda!Launch(device, "h2d", waits, Op("load_kv", kvTile), {<<"kv_ready", b>>})
  IN  /\ pc = "consume"
      /\ kvTile < consumed * TilesPerPage
      /\ device' = Cuda!Launch(uploaded, "compute", {<<"q_ready">>, <<"kv_ready", b>>},
                               Op("update", kvTile), {<<"kv_free", b>>})
      /\ kvTile' = kvTile + 1
      /\ UNCHANGED <<runVars, dq, dkv, acc, dout, qChunk>>

\* Mutant: the upload does not wait for the buffer's previous reader.
ConsumeTileUnguarded == LaunchTile({})

\* consume: one tile of the page after the other.
ConsumeTile == LaunchTile({<<"kv_free", KvBuffer(kvTile)>>})

\* stage_free marks the point of the H2D stream after which the page's stage
\* may be overwritten.
ReleaseStage ==
  /\ pc = "consume"
  /\ kvTile = consumed * TilesPerPage
  /\ pc' = "scan"
  /\ device' = Cuda!Launch(device, "h2d", {}, Op("mark", 0),
                           {<<"stage_free", StageOf(consumed - 1)>>})
  /\ UNCHANGED <<qpage, chunk, submitted, consumed, ioVars, bufVars, sink, outcome,
                 dq, dkv, acc, dout, kvTile, qChunk>>

\* Finalise into a device output buffer and copy it to the staging buffer.
EndChunk ==
  /\ ScanDone
  /\ NextChunk("drain")
  /\ LET o == DeviceOutput(qChunk)
         scanned == Cuda!Launch(device, "compute", {}, Op("mark", 0), {<<"q_free">>})
         finalized == Cuda!Launch(scanned, "compute", {<<"output_free", o>>},
                                  Op("finalize", qChunk), {<<"output_ready", o>>})
     IN  device' = Cuda!Launch(finalized, "d2h", {<<"output_ready", o>>}, Op("store", qChunk),
                               {<<"output_free", o>>, <<"output_host_ready", OutSlot>>})
  /\ qChunk' = qChunk + 1
  /\ UNCHANGED <<qpage, ioVars, bufVars, sink, outcome, dq, dkv, acc, dout, kvTile>>

\* output_host_ready[slot].synchronize()
OutputOnHost ==
  /\ pc = "drain"
  /\ Cuda!Synchronized(device, <<"output_host_ready", OutSlot>>)
  /\ pc' = "submit"
  /\ UNCHANGED <<qpage, chunk, submitted, consumed, ioVars, bufVars, sink, outcome, deviceVars>>

\* After the last page _run_triton waits for its kernels and its output copies.
LoopDone == pc = "finish" => device.queue["compute"] = <<>> /\ device.queue["d2h"] = <<>>

Host ==
  \/ BeginPage \/ SlotWriteFailed \/ BeginChunk \/ Submit
  \/ Consume \/ ConsumeTile \/ ReleaseStage \/ EndChunk \/ OutputOnHost
  \/ SubmitOutput /\ UNCHANGED deviceVars
  \/ LoopDone /\ Ending /\ UNCHANGED deviceVars

-----------------------------------------------------------------------------
(* The device. *)

Perform(work) ==
  /\ dq' = IF work.op = "load_q" THEN Append(qHost, work.chunk) ELSE dq
  /\ dkv' = IF work.op = "load_kv"
            THEN [dkv EXCEPT ![KvBuffer(work.index)] =
                    Append(stage[StageOf(work.index \div TilesPerPage)],
                           work.index % TilesPerPage)]
            ELSE dkv
  /\ acc' = IF work.op = "update"
            THEN Append(IF work.index = 0 THEN Nothing ELSE acc,
                        <<dq, dkv[KvBuffer(work.index)]>>)
            ELSE acc
  /\ dout' = IF work.op = "finalize" THEN [dout EXCEPT ![DeviceOutput(work.index)] = acc] ELSE dout
  /\ out' = IF work.op = "store"
            THEN [out EXCEPT ![SlotOf(work.page)][work.chunk] = dout[DeviceOutput(work.index)]]
            ELSE out

DeviceStep(s) ==
  /\ Cuda!CanPerform(device, s)
  /\ Perform(Cuda!Work(device, s))
  /\ device' = Cuda!Performed(device, s)
  /\ UNCHANGED <<pc, qpage, chunk, submitted, consumed, ioVars, qHost, stage, sink, outcome,
                 kvTile, qChunk>>

-----------------------------------------------------------------------------
Ended == pc = "ended" /\ Cuda!Drained(device) /\ UNCHANGED vars

Next ==
  \/ Host
  \/ MainRaises /\ UNCHANGED deviceVars
  \/ (Pool \/ TaskFails) /\ UNCHANGED deviceVars
  \/ \E s \in Streams : DeviceStep(s)
  \/ Ended

\* The host thread, the pool's threads and the streams make progress; failures
\* are possible and never forced.
Fairness ==
  /\ WF_vars(Host)
  /\ WF_vars(Pool /\ UNCHANGED deviceVars)
  /\ \A s \in Streams : WF_vars(DeviceStep(s))

Spec == Init /\ [][Next]_vars /\ Fairness
=============================================================================
