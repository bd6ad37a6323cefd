------------------------------ MODULE PagedRun ------------------------------
(***************************************************************************)
(* One call of PagedAttentionRunner.run (paged/runtime/runner.py and       *)
(* io.py): the I/O thread pool shared by K/V loads and output writes, the  *)
(* stage ring, the ring of output staging buffers, and the ways the call   *)
(* ends.  The two executors, modules PagedTriton and PagedReference,       *)
(* extend this module with the body of their loops.                        *)
(*                                                                         *)
(* Contents are represented by where they come from: a query page <<q>>, a *)
(* chunk of it <<q, c>>, a K/V page <<k>>, a tile of it <<k, t>>.  Running *)
(* attention state, and output, is the sequence of <<chunk, tile>> pairs   *)
(* that were accumulated.  A load is one step here: that it delivers its   *)
(* own page whatever the cache does is what module KVScan shows.           *)
(***************************************************************************)
EXTENDS Arithmetic, Sequences, FiniteSets

CONSTANTS
  NumQPages,      \* query pages, in page-id order over all segments
  KvPagesOf,      \* the K/V pages of each query page's segment
  ChunksPerPage,  \* Q chunks per query page
  TilesPerPage,   \* K/V tiles per K/V page
  NumStages,      \* io_queue_depth
  NumOutputs,     \* num_output_buffers
  IoWorkers       \* io_workers

QPages == 0 .. NumQPages - 1

ASSUME RunAssumption ==
  /\ NumQPages \in Nat \ {0}
  /\ KvPagesOf \in [QPages -> Seq(Nat) \ {<<>>}]
  /\ ChunksPerPage \in Nat \ {0}
  /\ TilesPerPage \in Nat \ {0}
  /\ NumStages \in Nat \ {0}
  /\ NumOutputs \in Nat \ {0}
  /\ IoWorkers \in Nat \ {0}

VARIABLES
  pc,         \* where the main thread is
  qpage,      \* q_page.page_id
  chunk,      \* the Q chunk of the page
  submitted,  \* K/V pages of the scan submitted
  consumed,   \* K/V pages of the scan consumed
  queue,      \* the pool's FIFO work queue
  loads,      \* per stage slot, the pending load
  writes,     \* output_futures: per output slot, the last write
  qHost,      \* staging.q
  stage,      \* staging.kv
  out,        \* staging.outputs, by slot and chunk
  sink,       \* pages the writer has received
  outcome

ioVars == <<queue, loads, writes>>
bufVars == <<qHost, stage, out>>
runVars == <<pc, qpage, chunk, submitted, consumed, queue, loads, writes,
             qHost, stage, out, sink, outcome>>

-----------------------------------------------------------------------------
Chunks == 0 .. ChunksPerPage - 1
Stages == 0 .. NumStages - 1
OutSlots == 0 .. NumOutputs - 1

Nothing == <<>>
KvTotal == Len(KvPagesOf[qpage])
KvPage(index) == KvPagesOf[qpage][index + 1]
StageOf(index) == index % NumStages
SlotOf(page) == page % NumOutputs
OutSlot == SlotOf(qpage)

\* All tiles of the segment, in the order a scan visits them.
TilesOf(q) ==
  [i \in 1 .. Len(KvPagesOf[q]) * TilesPerPage |->
     <<KvPagesOf[q][((i - 1) \div TilesPerPage) + 1], (i - 1) % TilesPerPage>>]

\* The exact output of a query page: each chunk attends to every tile, once.
Answer(q) ==
  [c \in Chunks |-> [i \in 1 .. Len(TilesOf(q)) |-> <<<<q, c>>, TilesOf(q)[i]>>]]

NoTask == [page |-> -1, phase |-> "none"]
Task(page, phase) == [page |-> page, phase |-> phase]
Settled == {"done", "failed", "cancelled"}

Running ==
  Cardinality({s \in Stages : loads[s].phase = "running"})
    + Cardinality({o \in OutSlots : writes[o].phase = "running"})

RunInit ==
  /\ pc = "page"
  /\ qpage = 0
  /\ chunk = 0
  /\ submitted = 0
  /\ consumed = 0
  /\ queue = <<>>
  /\ loads = [s \in Stages |-> NoTask]
  /\ writes = [o \in OutSlots |-> NoTask]
  /\ qHost = Nothing
  /\ stage = [s \in Stages |-> Nothing]
  /\ out = [o \in OutSlots |-> [c \in Chunks |-> Nothing]]
  /\ sink = [q \in QPages |-> Nothing]
  /\ outcome = "running"

-----------------------------------------------------------------------------
(* Main-thread building blocks the executors share. *)

Executing == {"page", "chunk", "scan", "consume", "drain", "submit"}

\* q_reader.read_q(q_page, staging.q), on the main thread.
ReadQ ==
  /\ qHost' = <<qpage>>
  /\ chunk' = 0

\* _scan_kv_pages keeps Depth loads in flight and consumes them in order.
Depth == AtMost(NumStages, KvTotal)

\* Mutant: consuming a page does not submit the next one.
WindowEndNotRefilled == Depth
WindowEnd == AtMost(KvTotal, consumed + Depth)

SubmitLoad ==
  /\ pc = "scan"
  /\ submitted < WindowEnd
  /\ loads' = [loads EXCEPT ![StageOf(submitted)] = Task(KvPage(submitted), "queued")]
  /\ queue' = Append(queue, [kind |-> "load", slot |-> StageOf(submitted)])
  /\ submitted' = submitted + 1
  /\ UNCHANGED <<pc, qpage, chunk, consumed, writes, bufVars, sink, outcome>>

\* pending.pop(index).result() returned for the next page in order.
TakeLoad ==
  /\ pc = "scan"
  /\ submitted = WindowEnd
  /\ consumed < KvTotal
  /\ loads[StageOf(consumed)].phase = "done"
  /\ loads' = [loads EXCEPT ![StageOf(consumed)] = NoTask]
  /\ consumed' = consumed + 1

ScanDone == pc = "scan" /\ consumed = KvTotal

\* The chunk is complete: go on with the next chunk or with the page's output.
NextChunk(afterPage) ==
  /\ submitted' = 0
  /\ consumed' = 0
  /\ IF chunk + 1 < ChunksPerPage
     THEN chunk' = chunk + 1 /\ pc' = "chunk"
     ELSE chunk' = chunk /\ pc' = afterPage

\* _submit_output: wait for the slot's previous write, then submit this page's.
SubmitOutput ==
  /\ pc = "submit"
  /\ writes[OutSlot].phase \in {"none", "done"}
  /\ writes' = [writes EXCEPT ![OutSlot] = Task(qpage, "queued")]
  /\ queue' = Append(queue, [kind |-> "write", slot |-> OutSlot])
  /\ IF qpage + 1 < NumQPages
     THEN pc' = "page" /\ qpage' = qpage + 1
     ELSE pc' = "finish" /\ qpage' = qpage
  /\ UNCHANGED <<chunk, submitted, consumed, loads, bufVars, sink, outcome>>

-----------------------------------------------------------------------------
(* How the call ends. *)

\* Mutant: the last writes are not awaited.
FinishWritesUnawaited ==
  /\ pc = "finish"
  /\ pc' = "close"
  /\ UNCHANGED <<qpage, chunk, submitted, consumed, ioVars, bufVars, sink, outcome>>

\* _finish_output_futures: every write has returned.
FinishWrites ==
  /\ pc = "finish"
  /\ \A o \in OutSlots : writes[o].phase \in {"none", "done"}
  /\ pc' = "close"
  /\ UNCHANGED <<qpage, chunk, submitted, consumed, ioVars, bufVars, sink, outcome>>

\* writer.close() publishes the output; run returns its result.
Publish ==
  /\ pc = "close"
  /\ pc' = "teardown"
  /\ outcome' = "returned"
  /\ UNCHANGED <<qpage, chunk, submitted, consumed, ioVars, bufVars, sink>>

\* except BaseException: future.cancel() on every output future.  It only
\* cancels a write no thread has started.
Unwind ==
  /\ pc' = "shutdown"
  /\ writes' = [o \in OutSlots |-> IF writes[o].phase = "queued"
                                   THEN Task(writes[o].page, "cancelled") ELSE writes[o]]
  /\ UNCHANGED <<qpage, chunk, submitted, consumed, queue, loads, bufVars, sink, outcome>>

\* The future the main thread blocks on holds an exception.
AwaitedTaskFailed ==
  /\ \/ /\ pc = "scan"
        /\ submitted = WindowEnd
        /\ consumed < KvTotal
        /\ loads[StageOf(consumed)].phase = "failed"
     \/ pc = "submit" /\ writes[OutSlot].phase = "failed"
     \/ pc = "finish" /\ \E o \in OutSlots : writes[o].phase = "failed"
  /\ Unwind

\* Any other exception of the main thread: a failing Q read, kernel launch or
\* writer.close(), or an interrupt.
MainRaises ==
  /\ pc \in Executing \cup {"finish", "close"}
  /\ Unwind

\* executor.shutdown(wait=True, cancel_futures=True), first half: what is still
\* in the work queue is dropped.
DropQueue ==
  /\ pc = "shutdown"
  /\ pc' = "join"
  /\ queue' = <<>>
  /\ loads' = [s \in Stages |-> IF loads[s].phase = "queued"
                                THEN Task(loads[s].page, "cancelled") ELSE loads[s]]
  /\ UNCHANGED <<qpage, chunk, submitted, consumed, writes, bufVars, sink, outcome>>

\* Mutant: the writer is aborted before the pool is joined.
AbortWriterUnjoined ==
  /\ pc = "join"
  /\ pc' = "teardown"
  /\ outcome' = "raised"
  /\ UNCHANGED <<qpage, chunk, submitted, consumed, ioVars, bufVars, sink>>

\* Second half: the threads have finished what they were doing; writer.abort().
AbortWriter ==
  /\ pc = "join"
  /\ Running = 0
  /\ pc' = "teardown"
  /\ outcome' = "raised"
  /\ UNCHANGED <<qpage, chunk, submitted, consumed, ioVars, bufVars, sink>>

\* finally: join the pool, close the cache and the readers, drop the staging.
Teardown ==
  /\ pc = "teardown"
  /\ Running = 0
  /\ pc' = "ended"
  /\ UNCHANGED <<qpage, chunk, submitted, consumed, ioVars, bufVars, sink, outcome>>

-----------------------------------------------------------------------------
(* The pool's threads. *)

Phase(task) == IF task.kind = "load" THEN loads[task.slot].phase ELSE writes[task.slot].phase

\* A thread takes the oldest task; it skips one whose future was cancelled.  A
\* load starts to overwrite its stage.
StartTask ==
  /\ queue # <<>>
  /\ Running < IoWorkers
  /\ queue' = Tail(queue)
  /\ LET task == Head(queue) IN
       IF task.kind = "load"
       THEN /\ loads' = [loads EXCEPT ![task.slot].phase = "running"]
            /\ stage' = [stage EXCEPT ![task.slot] = Nothing]
            /\ UNCHANGED writes
       ELSE /\ writes' = IF Phase(task) = "queued"
                         THEN [writes EXCEPT ![task.slot].phase = "running"]
                         ELSE writes
            /\ UNCHANGED <<loads, stage>>
  /\ UNCHANGED <<pc, qpage, chunk, submitted, consumed, qHost, out, sink, outcome>>

FinishLoad(s) ==
  /\ loads[s].phase = "running"
  /\ loads' = [loads EXCEPT ![s].phase = "done"]
  /\ stage' = [stage EXCEPT ![s] = <<loads[s].page>>]
  /\ UNCHANGED <<pc, qpage, chunk, submitted, consumed, queue, writes, qHost, out, sink, outcome>>

\* write_page copies the staging buffer it was given a view of.
FinishWrite(o) ==
  /\ writes[o].phase = "running"
  /\ writes' = [writes EXCEPT ![o].phase = "done"]
  /\ sink' = [sink EXCEPT ![writes[o].page] = out[o]]
  /\ UNCHANGED <<pc, qpage, chunk, submitted, consumed, queue, loads, bufVars, outcome>>

TaskFails ==
  /\ \/ \E s \in Stages : /\ loads[s].phase = "running"
                          /\ loads' = [loads EXCEPT ![s].phase = "failed"]
                          /\ UNCHANGED writes
     \/ \E o \in OutSlots : /\ writes[o].phase = "running"
                            /\ writes' = [writes EXCEPT ![o].phase = "failed"]
                            /\ UNCHANGED loads
  /\ UNCHANGED <<pc, qpage, chunk, submitted, consumed, queue, bufVars, sink, outcome>>

Pool == StartTask \/ (\E s \in Stages : FinishLoad(s)) \/ (\E o \in OutSlots : FinishWrite(o))

Ending == FinishWrites \/ Publish \/ AwaitedTaskFailed \/ DropQueue \/ AbortWriter \/ Teardown

-----------------------------------------------------------------------------
\* Every page the sink received is the exact output of that page.
DeliveredPagesExact == \A q \in QPages : sink[q] # Nothing => sink[q] = Answer(q)

\* Once the writer is aborted, which deletes its files, and once the readers,
\* the cache and the staging are dropped, no thread of the pool is inside a load
\* or a write, and none will start one.
NoIoOnceOver ==
  outcome = "raised" \/ pc = "ended" =>
    /\ \A s \in Stages : loads[s].phase \notin {"queued", "running"}
    /\ \A o \in OutSlots : writes[o].phase \notin {"queued", "running"}

Promise == INSTANCE PagedAttention

\* The run implements what it promises: it delivers each page at most once, and
\* exact, and returns only when every page was delivered.
KeepsItsPromise == Promise!Spec

\* A call returns or raises; it never hangs.
CallEnds == <>(pc = "ended")
=============================================================================
