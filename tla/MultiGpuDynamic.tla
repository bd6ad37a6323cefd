-------------------------- MODULE MultiGpuDynamic --------------------------
(***************************************************************************)
(* Completion-driven multi-GPU attention calls (streaming.py,              *)
(* MultiGpuStreamingAttentionRunner._run_dynamic_workers).                 *)
(*                                                                         *)
(* A call makes a cursor over the query tokens and runs one worker per     *)
(* device.  A worker asks its controller for a size, claims a task of the  *)
(* cursor, computes its output rows and lets the controller observe the    *)
(* measurement.  A worker that raises cancels the cursor, records its      *)
(* error and retires; the others finish the task they hold.  The caller    *)
(* waits for every worker before it returns or raises.  The controllers    *)
(* keep their sizes from one call to the next.                             *)
(*                                                                         *)
(* How calls, the thread pool and the start barrier interact is module     *)
(* MultiGpuCalls; here the workers of a call have passed the barrier.      *)
(***************************************************************************)
EXTENDS QueryCursor, QController

CONSTANT MaxCalls   \* bound: how many calls a behaviour makes

ASSUME DynamicAssumption ==
  /\ ControllerAssumption(Workers)
  /\ MaxCalls \in Nat

VARIABLES
  calls,     \* the calls made
  outcome,   \* how the last call stands
  phase,     \* where each worker is
  task,      \* the task each worker holds, or last held
  q,         \* q_current of each worker's controller
  failures,  \* whether failures holds an error
  computed   \* the tokens whose output rows this call has written

workerVars == <<phase, task, q, failures, computed>>
vars == <<cursorVars, workerVars, calls, outcome>>

-----------------------------------------------------------------------------
NoTask == [segment |-> 0, start |-> 0, stop |-> 0]
Tasks == [segment : Segments \cup {0}, start : Nat, stop : Nat]

Phases == {"asking", "working", "failing", "retiring", "ended"}

Rows(t) == Span(t.start, t.stop)

Init ==
  /\ CursorInit
  /\ calls = 0
  /\ outcome = "none"
  /\ phase = [w \in Workers |-> "ended"]
  /\ task = [w \in Workers |-> NoTask]
  /\ q = [w \in Workers |-> InitialQ(w)]
  /\ failures = FALSE
  /\ computed = {}

Advance(w, p) == phase' = [phase EXCEPT ![w] = p]

-----------------------------------------------------------------------------
(* The caller, inside _run_lock. *)

\* A call whose workload signature differs resets the controllers.
Call(newSignature) ==
  /\ outcome # "running"
  /\ calls < MaxCalls
  /\ calls' = calls + 1
  /\ outcome' = "running"
  /\ FreshCursor
  /\ phase' = [w \in Workers |-> "asking"]
  /\ task' = [w \in Workers |-> NoTask]
  /\ q' = IF newSignature THEN [w \in Workers |-> InitialQ(w)] ELSE q
  /\ failures' = FALSE
  /\ computed' = {}

AllEnded == \A w \in Workers : phase[w] = "ended"

\* Mutant: the recorded failures are not raised.
ReturnDespiteFailures ==
  /\ outcome = "running" /\ AllEnded
  /\ outcome' = "returned"
  /\ UNCHANGED <<cursorVars, workerVars, calls>>

\* Every future has its result and no worker failed.
Return ==
  /\ outcome = "running" /\ AllEnded
  /\ ~failures
  /\ outcome' = "returned"
  /\ UNCHANGED <<cursorVars, workerVars, calls>>

RaiseFailure ==
  /\ outcome = "running" /\ AllEnded
  /\ failures
  /\ outcome' = "raised"
  /\ UNCHANGED <<cursorVars, workerVars, calls>>

-----------------------------------------------------------------------------
(* A worker: run_device. *)

Claim(w) ==
  /\ phase[w] = "asking"
  /\ ~NothingToClaim
  /\ \E s \in Segments :
       /\ IsOpenSegment(s)
       /\ task' = [task EXCEPT ![w] = TaskIn(s, q[w])]
       /\ Take(s, q[w])
  /\ Advance(w, "working")
  /\ UNCHANGED <<q, failures, computed, calls, outcome>>

ClaimNothing(w) ==
  /\ phase[w] = "asking"
  /\ NothingToClaim
  /\ Advance(w, "retiring")
  /\ UNCHANGED <<cursorVars, task, q, failures, computed, calls, outcome>>

\* run_query_tasks has written the task's rows; the controller observes it.
Work(w) ==
  /\ phase[w] = "working"
  /\ computed' = computed \cup Rows(task[w])
  /\ \E target \in Targets(w) : q' = [q EXCEPT ![w] = Observed(w, q[w], target)]
  /\ Advance(w, "asking")
  /\ UNCHANGED <<cursorVars, task, failures, calls, outcome>>

\* The device context, the claim or the task raised: cursor.cancel().
WorkerRaises(w) ==
  /\ phase[w] \in {"asking", "working"}
  /\ Cancel
  /\ Advance(w, "failing")
  /\ UNCHANGED <<task, q, failures, computed, calls, outcome>>

RecordFailure(w) ==
  /\ phase[w] = "failing"
  /\ failures' = TRUE
  /\ Advance(w, "retiring")
  /\ UNCHANGED <<cursorVars, task, q, computed, calls, outcome>>

Retire(w) ==
  /\ phase[w] = "retiring"
  /\ RetireWorker(w)
  /\ Advance(w, "ended")
  /\ UNCHANGED <<task, q, failures, computed, calls, outcome>>

-----------------------------------------------------------------------------
Finished == calls = MaxCalls /\ outcome # "running" /\ UNCHANGED vars

WorkerStep(w) ==
  Claim(w) \/ ClaimNothing(w) \/ Work(w) \/ RecordFailure(w) \/ Retire(w)

CallEnd == Return \/ RaiseFailure

Next ==
  \/ \E newSignature \in BOOLEAN : Call(newSignature)
  \/ CallEnd
  \/ \E w \in Workers : WorkerStep(w) \/ WorkerRaises(w)
  \/ Finished

\* The operating system runs every worker thread and the caller.
Fairness == WF_vars(CallEnd) /\ \A w \in Workers : WF_vars(WorkerStep(w))

Spec == Init /\ [][Next]_vars /\ Fairness

-----------------------------------------------------------------------------
\* Every variable has its type.  A block size stays within what the device's
\* workspace was built for, and is never zero, which claim would refuse.
TypeOK ==
  /\ segment \in Segments
  /\ qOffset \in FirstToken .. EndToken
  /\ remaining = EndToken - qOffset
  /\ retired \subseteq Workers
  /\ cancelled \in BOOLEAN
  /\ calls \in Nat
  /\ outcome \in {"none", "running", "returned", "raised"}
  /\ phase \in [Workers -> Phases]
  /\ task \in [Workers -> Tasks]
  /\ \A w \in Workers : q[w] \in 1 .. QCapacityTokens[w]
  /\ DOMAIN q = Workers
  /\ failures \in BOOLEAN
  /\ computed \subseteq Tokens

Held == {w \in Workers : phase[w] = "working"}

\* No query row is written twice or forgotten: the tasks being worked on share
\* no token with each other or with what is written, and as long as no worker
\* raised, every token the cursor has given out is held or written.
TokensComputedOnce ==
  /\ \A v, w \in Held : v # w => Rows(task[v]) \cap Rows(task[w]) = {}
  /\ \A w \in Held : Rows(task[w]) \cap computed = {}
  /\ ~cancelled =>
       computed \cup UNION {Rows(task[w]) : w \in Held} = Span(FirstToken, qOffset)

\* A task a worker holds lies within one segment, so its K/V range is the one
\* its queries attend to, and fits the worker's Q workspace.
TasksFitTheirWorker ==
  \A w \in Held :
    /\ QBounds[task[w].segment] <= task[w].start
    /\ task[w].start < task[w].stop
    /\ task[w].stop <= QBounds[task[w].segment + 1]
    /\ task[w].stop - task[w].start <= QCapacityTokens[w]

\* A controller's size stays a multiple of its alignment, at least its minimum,
\* whatever sequence of measurements it observes over several calls.
SizesStayAligned ==
  \A w \in Workers : q[w] % Alignment(w) = 0 /\ q[w] >= QMin(w)

Promise == INSTANCE QueryCoverage

\* A call computes every token once before it returns, and none after it ended.
KeepsItsPromise == Promise!Spec

\* Every call returns or raises.
CallsEnd == outcome = "running" ~> outcome # "running"
=============================================================================
