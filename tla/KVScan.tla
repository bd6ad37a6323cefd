------------------------------- MODULE KVScan -------------------------------
(***************************************************************************)
(* Scanning K/V pages through the stage ring and the page cache            *)
(* (paged/runtime/io.py: load_kv_page and PagedIoMixin._scan_kv_pages).    *)
(*                                                                         *)
(* The main thread submits one load per stage slot to the I/O thread pool  *)
(* and consumes the results in page order.  A load looks its page up in    *)
(* the cache, reads it from the source on a miss and inserts it.  Loads    *)
(* run on IoWorkers threads, so cache operations of different pages        *)
(* interleave and finish out of order.                                     *)
(*                                                                         *)
(* One scan reads the K/V pages of one segment and serves one Q chunk:     *)
(* ScanPages lists the scans a run performs.  With DeviceCopy (the Triton  *)
(* executor) consuming a stage only enqueues a copy out of it, and a slot  *)
(* is reused after its stage_free event; without it (the CPU reference     *)
(* executor) the main thread reads the stage before going on.              *)
(***************************************************************************)
EXTENDS KVPageCache

CONSTANTS
  NumStages,   \* io_queue_depth: the slots of the stage ring
  IoWorkers,   \* io_workers: the threads of the pool
  ScanPages,   \* the page lists scanned, one per Q chunk
  DeviceCopy   \* TRUE for the Triton executor

ASSUME ScanAssumption ==
  /\ NumStages \in Nat \ {0}
  /\ IoWorkers \in Nat \ {0}
  /\ ScanPages \in Seq(Seq(Pages))
  /\ \A s \in 1 .. Len(ScanPages) :
       /\ ScanPages[s] # <<>>     \* "has queries but no keys" is refused
       /\ \A i, j \in 1 .. Len(ScanPages[s]) : ScanPages[s][i] = ScanPages[s][j] => i = j
  /\ DeviceCopy \in BOOLEAN

VARIABLES
  mode,       \* "scanning", "aborting" (an exception propagates) or "closed"
  scan,       \* the scan in progress
  submitted,  \* the next page index of the scan to submit
  consumed,   \* the next page index of the scan to consume
  queue,      \* the thread pool's FIFO work queue: stage slots
  load,       \* the future of each stage slot: its page and how far it is
  stage,      \* the page whose bytes each stage buffer holds
  h2d         \* copies out of a stage the device has not performed yet

scanVars == <<mode, scan, submitted, consumed, queue, load, stage, h2d>>
vars == <<cacheVars, scanVars>>

-----------------------------------------------------------------------------
Stages == 0 .. NumStages - 1
Scans == 1 .. Len(ScanPages)

PageAt(index) == ScanPages[scan][index + 1]
PageTotal == Len(ScanPages[scan])
Depth == AtMost(NumStages, PageTotal)
SlotAt(index) == index % NumStages

\* Phases of a load that hold a worker thread.
Running == {"started", "reading", "read"}
Phases == {"none", "queued", "done", "failed"} \cup Running

Busy == {s \in Stages : load[s].phase \in Running}

SetPhase(s, phase) == load' = [load EXCEPT ![s].phase = phase]

Init ==
  /\ CacheInit
  /\ mode = "scanning"
  /\ scan = 1
  /\ submitted = 0
  /\ consumed = 0
  /\ queue = <<>>
  /\ load = [s \in Stages |-> [page |-> NoPage, phase |-> "none"]]
  /\ stage = [s \in Stages |-> NoPage]
  /\ h2d = <<>>

-----------------------------------------------------------------------------
(* The main thread. *)

InScan == mode = "scanning" /\ scan \in Scans

\* Mutant: consuming a page does not submit the next one.
WindowEndNotRefilled == Depth

\* The window of pages submitted ahead of the one to be consumed.
WindowEnd == AtMost(PageTotal, consumed + Depth)

\* Mutant: a slot is reused without waiting for its copy.
StageFreeUnchecked(s) == TRUE

\* wait_stage: the slot's last copy must have left the stage.
StageFree(s) == \A i \in 1 .. Len(h2d) : h2d[i].slot # s

Submit ==
  /\ InScan
  /\ submitted < WindowEnd
  /\ LET s == SlotAt(submitted) IN
       /\ StageFree(s)
       /\ load' = [load EXCEPT ![s] = [page |-> PageAt(submitted), phase |-> "queued"]]
       /\ queue' = Append(queue, s)
  /\ submitted' = submitted + 1
  /\ UNCHANGED <<cacheVars, mode, scan, consumed, stage, h2d>>

\* pending.pop(index).result() returned; consume(loaded, stage).
Consume ==
  /\ InScan
  /\ submitted = WindowEnd
  /\ consumed < PageTotal
  /\ LET s == SlotAt(consumed) IN
       /\ load[s].phase = "done"
       /\ SetPhase(s, "none")
       /\ h2d' = IF DeviceCopy
                 THEN Append(h2d, [slot |-> s, page |-> PageAt(consumed)])
                 ELSE h2d
  /\ consumed' = consumed + 1
  /\ UNCHANGED <<cacheVars, mode, scan, submitted, queue, stage>>

\* _scan_kv_pages returned; the next Q chunk starts its scan.
EndScan ==
  /\ InScan
  /\ consumed = PageTotal
  /\ scan' = scan + 1
  /\ submitted' = 0
  /\ consumed' = 0
  /\ UNCHANGED <<cacheVars, mode, queue, load, stage, h2d>>

\* executor.shutdown(wait=True, cancel_futures=True): the pool drops what it
\* has not started.
DropQueued == [s \in Stages |-> IF load[s].phase = "queued"
                                THEN [load[s] EXCEPT !.phase = "none"] ELSE load[s]]

\* result() raised a load's exception, or the main thread was interrupted.
Raise ==
  /\ InScan
  /\ mode' = "aborting"
  /\ queue' = <<>>
  /\ load' = DropQueued
  /\ UNCHANGED <<cacheVars, scan, submitted, consumed, stage, h2d>>

\* A load that failed is never consumed: result() raises.
LoadFailed ==
  /\ InScan
  /\ submitted = WindowEnd
  /\ consumed < PageTotal
  /\ load[SlotAt(consumed)].phase = "failed"
  /\ Raise

\* Mutant: shutdown(wait=False).
CloseWithoutJoin ==
  /\ mode = "aborting" \/ (mode = "scanning" /\ scan \notin Scans)
  /\ mode' = "closed"
  /\ UNCHANGED <<cacheVars, scan, submitted, consumed, queue, load, stage, h2d>>

\* shutdown has joined the worker threads; cache.close().
Close ==
  /\ mode = "aborting" \/ (mode = "scanning" /\ scan \notin Scans)
  /\ Busy = {}
  /\ mode' = "closed"
  /\ UNCHANGED <<cacheVars, scan, submitted, consumed, queue, load, stage, h2d>>

-----------------------------------------------------------------------------
(* The I/O threads: load_kv_page, one step per effect. *)

Start ==
  /\ queue # <<>>
  /\ Cardinality(Busy) < IoWorkers
  /\ SetPhase(Head(queue), "started")
  /\ queue' = Tail(queue)
  /\ UNCHANGED <<cacheVars, mode, scan, submitted, consumed, stage, h2d>>

\* cache.get: a hit copies the slot into the stage under the cache lock.  On a
\* miss the reader goes on to overwrite the stage.
LookUp(s) ==
  /\ load[s].phase = "started"
  /\ LET p == load[s].page IN
       /\ Get(p)
       /\ stage' = [stage EXCEPT ![s] = IF Find(p) = NoSlot THEN NoPage ELSE slotData[Find(p)]]
       /\ SetPhase(s, IF Find(p) = NoSlot THEN "reading" ELSE "done")
  /\ UNCHANGED <<mode, scan, submitted, consumed, queue, h2d>>

ReadPage(s) ==
  /\ load[s].phase = "reading"
  /\ stage' = [stage EXCEPT ![s] = load[s].page]
  /\ SetPhase(s, "read")
  /\ UNCHANGED <<cacheVars, mode, scan, submitted, consumed, queue, h2d>>

ReadFails(s) ==
  /\ load[s].phase = "reading"
  /\ SetPhase(s, "failed")
  /\ UNCHANGED <<cacheVars, mode, scan, submitted, consumed, queue, stage, h2d>>

Insert(s) ==
  /\ load[s].phase = "read"
  /\ Put(load[s].page)
  /\ SetPhase(s, "done")
  /\ UNCHANGED <<mode, scan, submitted, consumed, queue, stage, h2d>>

-----------------------------------------------------------------------------
\* The H2D stream performs the oldest copy.
CopyOut ==
  /\ h2d # <<>>
  /\ h2d' = Tail(h2d)
  /\ UNCHANGED <<cacheVars, mode, scan, submitted, consumed, queue, load, stage>>

Worker == Start \/ \E s \in Stages : LookUp(s) \/ ReadPage(s) \/ ReadFails(s) \/ Insert(s)
Main == Submit \/ Consume \/ EndScan \/ LoadFailed \/ Close

Finished == mode = "closed" /\ h2d = <<>> /\ UNCHANGED vars

Next == Main \/ Raise \/ Worker \/ CopyOut \/ Finished

\* The main thread, the pool's threads and the device keep running.  Nothing
\* forces an exception, so Raise and ReadFails get no fairness of their own.
Fairness ==
  /\ WF_vars(Main)
  /\ WF_vars(Start)
  /\ \A s \in Stages : WF_vars(LookUp(s) \/ ReadPage(s) \/ Insert(s))
  /\ WF_vars(CopyOut)

Spec == Init /\ [][Next]_vars /\ Fairness

-----------------------------------------------------------------------------
\* Every variable has its type; stage slots and page indices stay in range.
TypeOK ==
  /\ CacheTypeOK
  /\ mode \in {"scanning", "aborting", "closed"}
  /\ scan \in 1 .. Len(ScanPages) + 1
  /\ submitted \in Nat
  /\ consumed \in Nat
  /\ queue \in Seq(Stages)
  /\ load \in [Stages -> [page : Pages \cup {NoPage}, phase : Phases]]
  /\ stage \in [Stages -> Pages \cup {NoPage}]
  /\ h2d \in Seq([slot : Stages, page : Pages])

\* What the consumer of a page reads is that page: a finished load left its own
\* bytes in the stage, and no later load overwrites a stage the device has
\* still to copy from.
StagesHoldTheirPage ==
  /\ \A s \in Stages : load[s].phase = "done" => stage[s] = load[s].page
  /\ \A i \in 1 .. Len(h2d) : stage[h2d[i].slot] = h2d[i].page

\* The cache as concurrent loads leave it: no slot shared, none lost, every
\* lookup served with the bytes of its page, and the counter behind the
\* reported peak exact.
CacheConsistent ==
  /\ RecencyListExact
  /\ SlotsNotShared
  /\ LookupsReturnTheirPage
  /\ NoSlotLost
  /\ PresentCountExact

Scanned(t) == {ScanPages[t][i] : i \in 1 .. Len(ScanPages[t])}

\* A page the cache promises to keep is read from the source only once: a hot
\* page for the whole run, a rolling page while the rolling pages scanned since
\* then fit the rolling region.
KeptPagesReadOnce ==
  \A s \in Stages : \A t \in 1 .. scan - 1 :
    LET p == load[s].page IN
    load[s].phase \in {"reading", "read"} /\ p \in Scanned(t) =>
      /\ p \notin HotPages
      /\ Cardinality((UNION {Scanned(u) : u \in t .. scan}) \ HotPages) > RollingSlotCount

\* Once the cache is closed no thread of the pool is inside a load.
NoLoadAfterClose == mode = "closed" => Busy = {} /\ queue = <<>>

\* Every run ends: no load waits for a slot that is never released.
RunEnds == <>(mode = "closed")
=============================================================================
