---------------------------- MODULE CudaStreams ----------------------------
(***************************************************************************)
(* CUDA streams and events, as the executors use them.  External: this is  *)
(* the contract of torch.cuda.Stream and torch.cuda.Event, not code of the *)
(* repository.                                                             *)
(*                                                                         *)
(* The host only enqueues.  A stream performs its operations one at a time *)
(* and in order; streams are independent of each other except for events.  *)
(* wait_event(e) makes the operations enqueued after it wait for the last  *)
(* record(e) issued before the call, so what matters of an event is how    *)
(* many of its records the device has still to reach: an operation whose   *)
(* needs hold <<e, n>> waits for n more of them, and one whose records     *)
(* hold <<e, n>> makes the n-th from now.  Waiting for an event never      *)
(* recorded, or already reached, is no wait.                               *)
(*                                                                         *)
(* An operation carries the waits issued before it and the records issued  *)
(* after it; [queue, unreached] is the state of one device.                *)
(***************************************************************************)
EXTENDS Naturals, Sequences

Device(streams, events) ==
  [queue     |-> [s \in streams |-> <<>>],
   unreached |-> [e \in events |-> 0]]

\* Enqueue `work` on stream s after waits for the events `waits`, and record
\* the events `records` behind it.
Launch(dev, s, waits, work, records) ==
  [dev EXCEPT
     !.queue[s] = Append(@, [needs   |-> {<<e, dev.unreached[e]>> :
                                            e \in {w \in waits : dev.unreached[w] > 0}},
                             work    |-> work,
                             records |-> {<<e, dev.unreached[e] + 1>> : e \in records}]),
     !.unreached = [e \in DOMAIN @ |-> IF e \in records THEN @[e] + 1 ELSE @[e]]]

\* The stream's oldest operation has all its events.
CanPerform(dev, s) == dev.queue[s] # <<>> /\ Head(dev.queue[s]).needs = {}

Work(dev, s) == Head(dev.queue[s]).work

\* A pending operation once the events in `reached` were reached once more.
Advanced(op, reached) ==
  LET left(mark) == IF mark[1] \in reached THEN <<mark[1], mark[2] - 1>> ELSE mark
  IN  [needs   |-> {n \in {left(need) : need \in op.needs} : n[2] > 0},
       work    |-> op.work,
       records |-> {left(record) : record \in op.records}]

\* Remove the operation and reach the records behind it.
Performed(dev, s) ==
  LET reached == {record[1] : record \in Head(dev.queue[s]).records}
      rest == [dev.queue EXCEPT ![s] = Tail(@)]
  IN  [queue |-> [t \in DOMAIN rest |->
                    [i \in 1 .. Len(rest[t]) |-> Advanced(rest[t][i], reached)]],
       unreached |-> [e \in DOMAIN dev.unreached |->
                        IF e \in reached THEN dev.unreached[e] - 1 ELSE dev.unreached[e]]]

\* event.synchronize() returns.
Synchronized(dev, e) == dev.unreached[e] = 0

Drained(dev) == \A s \in DOMAIN dev.queue : dev.queue[s] = <<>>
=============================================================================
