--------------------------- MODULE MultiGpuCalls ---------------------------
(***************************************************************************)
(* How the calls of one multi-GPU runner share its thread pool, its run    *)
(* lock and its per-device runners (streaming.py, __call__,                *)
(* run_with_device_consumers, _run_workers, _run_dynamic_workers, close).  *)
(*                                                                         *)
(* A call takes the run lock without blocking, submits one job per device  *)
(* to a pool with one thread per device, and awaits the jobs in device     *)
(* order.  A job waits at the call's barrier until all jobs of the call    *)
(* run, then works on its device's runner.  A static job that raises makes *)
(* the caller's result() raise while the other jobs are still working; a   *)
(* dynamic job keeps its error, which the caller raises after all ended.   *)
(* What a job computes is module MultiGpuDynamic.                          *)
(***************************************************************************)
EXTENDS Integers, Sequences, FiniteSets

CONSTANTS
  NumDevices,     \* len(runners)
  Clients,        \* the threads that call the runner
  Interruptible,  \* those that a KeyboardInterrupt can hit
  MaxCalls        \* bound: how many calls a behaviour makes

ASSUME CallsAssumption ==
  /\ NumDevices \in Nat \ {0}
  /\ Interruptible \subseteq Clients
  /\ MaxCalls \in Nat

VARIABLES
  mode,     \* schedule_mode
  calls,    \* how many calls took the run lock
  holder,   \* the client that holds _run_lock
  pc,       \* where the holder is: "idle", "submitting" or "awaiting"
  next,     \* the device it submits or awaits next
  ended,    \* how each call ended
  queue,    \* the pool's FIFO queue of jobs
  job,      \* where each job of each call is
  errors,   \* the calls with a job that raised
  closing   \* "open", "closing" (close waits for the pool) or "closed"

vars == <<mode, calls, holder, pc, next, ended, queue, job, errors, closing>>

-----------------------------------------------------------------------------
Devices == 1 .. NumDevices
Calls == 1 .. MaxCalls
Jobs == Calls \X Devices

NoOne == "no one"

\* Phases of a job that hold a thread of the pool.
OnThread == {"waiting", "working"}
JobPhases == {"none", "queued", "done", "failed"} \cup OnThread

Active == {j \in Jobs : job[j] \in OnThread}

Init ==
  /\ mode \in {"static", "dynamic"}
  /\ calls = 0
  /\ holder = NoOne
  /\ pc = "idle"
  /\ next = 1
  /\ ended = [c \in Calls |-> "no"]
  /\ queue = <<>>
  /\ job = [j \in Jobs |-> "none"]
  /\ errors = {}
  /\ closing = "open"

Move(j, phase) == job' = [job EXCEPT ![j] = phase]

-----------------------------------------------------------------------------
(* The callers.  Only the holder of the lock is inside a call: a client that
   finds it taken raises "single-flight" and changes nothing. *)

Begin(client) ==
  /\ holder = NoOne
  /\ calls < MaxCalls
  /\ holder' = client
  /\ calls' = calls + 1
  /\ pc' = "submitting"
  /\ next' = 1
  /\ UNCHANGED <<mode, ended, queue, job, errors, closing>>

\* The call ends and its finally clause releases the lock.
End(how) ==
  /\ ended' = [ended EXCEPT ![calls] = how]
  /\ holder' = NoOne
  /\ pc' = "idle"
  /\ UNCHANGED <<mode, calls, next, queue, job, errors, closing>>

Submit ==
  /\ pc = "submitting" /\ closing = "open"
  /\ Move(<<calls, next>>, "queued")
  /\ queue' = Append(queue, <<calls, next>>)
  /\ IF next < NumDevices THEN next' = next + 1 /\ pc' = pc
                          ELSE next' = 1 /\ pc' = "awaiting"
  /\ UNCHANGED <<mode, calls, holder, ended, errors, closing>>

\* submit raises: the pool was shut down.
SubmitRefused ==
  /\ pc = "submitting" /\ closing # "open"
  /\ End("raised")

Awaited == <<calls, next>>

AwaitNext ==
  /\ pc = "awaiting" /\ job[Awaited] = "done" /\ next < NumDevices
  /\ next' = next + 1
  /\ UNCHANGED <<mode, calls, holder, pc, ended, queue, job, errors, closing>>

\* The last future has its result; a dynamic call now raises its failure.
AwaitLast ==
  /\ pc = "awaiting" /\ job[Awaited] = "done" /\ next = NumDevices
  /\ End(IF mode = "dynamic" /\ calls \in errors THEN "raised" ELSE "returned")

\* result() raises: only a static job lets its error out.
AwaitRaises ==
  /\ pc = "awaiting" /\ job[Awaited] = "failed"
  /\ End("raised")

Interrupt ==
  /\ holder \in Interruptible
  /\ pc \in {"submitting", "awaiting"}
  /\ End("interrupted")

-----------------------------------------------------------------------------
(* The pool. *)

\* Mutants: a thread more, or one less, than there are devices.
OneThreadMore == NumDevices + 1
OneThreadLess == NumDevices - 1

\* max_workers
Threads == NumDevices

Start ==
  /\ queue # <<>>
  /\ Cardinality(Active) < Threads
  /\ Move(Head(queue), "waiting")
  /\ queue' = Tail(queue)
  /\ UNCHANGED <<mode, calls, holder, pc, next, ended, errors, closing>>

\* All parties reached the barrier of call c, which lets them go.
PassBarrier(c) ==
  /\ \A d \in Devices : job[<<c, d>>] = "waiting"
  /\ job' = [j \in Jobs |-> IF j[1] = c THEN "working" ELSE job[j]]
  /\ UNCHANGED <<mode, calls, holder, pc, next, ended, queue, errors, closing>>

Finish(j) ==
  /\ job[j] = "working"
  /\ Move(j, "done")
  /\ UNCHANGED <<mode, calls, holder, pc, next, ended, queue, errors, closing>>

\* Mutant: a dynamic worker does not catch its exception.
FailUncaught(j) ==
  /\ job[j] = "working"
  /\ Move(j, "failed")
  /\ errors' = errors \cup {j[1]}
  /\ UNCHANGED <<mode, calls, holder, pc, next, ended, queue, closing>>

Fail(j) ==
  /\ job[j] = "working"
  /\ Move(j, IF mode = "static" THEN "failed" ELSE "done")
  /\ errors' = errors \cup {j[1]}
  /\ UNCHANGED <<mode, calls, holder, pc, next, ended, queue, closing>>

-----------------------------------------------------------------------------
(* close() takes no lock: any thread may call it at any time. *)

BeginClose ==
  /\ closing = "open"
  /\ closing' = "closing"
  /\ UNCHANGED <<mode, calls, holder, pc, next, ended, queue, job, errors>>

\* Mutant: shutdown(wait=False).
EndCloseWithoutJoin ==
  /\ closing = "closing"
  /\ closing' = "closed"
  /\ UNCHANGED <<mode, calls, holder, pc, next, ended, queue, job, errors>>

\* shutdown(wait=True) lets the queued jobs run and joins the threads.
EndClose ==
  /\ closing = "closing"
  /\ queue = <<>> /\ Active = {}
  /\ closing' = "closed"
  /\ UNCHANGED <<mode, calls, holder, pc, next, ended, queue, job, errors>>

-----------------------------------------------------------------------------
\* A submission cut short: some jobs of the call will wait at its barrier for
\* jobs that are never submitted.
CutShort(c) ==
  /\ ended[c] # "no"
  /\ job[<<c, NumDevices>>] = "none"
  /\ job[<<c, 1>>] # "none"

\* A run may stop when nobody calls or closes any more, or when threads wait
\* at a barrier whose call was cut short.
Idle == pc = "idle" /\ queue = <<>> /\ closing # "closing"
Stopped == \/ calls = MaxCalls /\ Idle
           \/ \E c \in Calls : CutShort(c)

Rest == Stopped /\ UNCHANGED vars

CallStep == Submit \/ SubmitRefused \/ AwaitNext \/ AwaitLast \/ AwaitRaises

Next ==
  \/ \E client \in Clients : Begin(client)
  \/ CallStep
  \/ Interrupt
  \/ Start
  \/ \E c \in Calls : PassBarrier(c)
  \/ \E j \in Jobs : Finish(j) \/ Fail(j)
  \/ BeginClose \/ EndClose
  \/ Rest

\* Threads are scheduled and a job's work ends, in a result or in an error.
Fairness ==
  /\ WF_vars(CallStep)
  /\ WF_vars(Start)
  /\ WF_vars(EndClose)
  /\ \A c \in Calls : WF_vars(PassBarrier(c))
  /\ \A j \in Jobs : WF_vars(Finish(j) \/ Fail(j))

Spec == Init /\ [][Next]_vars /\ Fairness

-----------------------------------------------------------------------------
\* Every variable has its type.
TypeOK ==
  /\ mode \in {"static", "dynamic"}
  /\ calls \in 0 .. MaxCalls
  /\ holder \in Clients \cup {NoOne}
  /\ pc \in {"idle", "submitting", "awaiting"}
  /\ next \in Devices
  /\ ended \in [Calls -> {"no", "returned", "raised", "interrupted"}]
  /\ queue \in Seq(Jobs)
  /\ job \in [Jobs -> JobPhases]
  /\ errors \subseteq Calls
  /\ closing \in {"open", "closing", "closed"}

\* No device's runner, whose buffers and events one call owns, works for two
\* calls at once, although a call that raised or was interrupted leaves jobs
\* behind and releases the lock: the next call's jobs meet at a barrier that
\* needs every thread of the pool.
RunnerSingleFlight ==
  \A i, j \in Jobs :
    i[2] = j[2] /\ job[i] = "working" /\ job[j] = "working" => i = j

\* When a call has returned, or a dynamic call has raised a worker's failure,
\* none of its jobs still writes the caller's tensors.
EndedCallsAreQuiet ==
  \A c \in Calls :
    ended[c] = "returned" \/ (ended[c] = "raised" /\ mode = "dynamic") =>
      \A d \in Devices : job[<<c, d>>] # "working"

\* Once close returned no thread of the pool runs or will run.
NothingRunsAfterClose == closing = "closed" => Active = {} /\ queue = <<>>

NeverCutShort == [](\A c \in Calls : ~CutShort(c))

\* Unless a submission was cut short, every call ends, whatever jobs an
\* earlier call left in the pool.
CallsEnd == NeverCutShort => (pc # "idle" ~> pc = "idle")

\* Unless a submission was cut short, close returns.
CloseReturns == NeverCutShort => (closing = "closing" ~> closing = "closed")
=============================================================================
