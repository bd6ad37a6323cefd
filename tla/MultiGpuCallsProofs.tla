------------------------ MODULE MultiGpuCallsProofs ------------------------
(* Safety of MultiGpuCalls for any number of devices, clients and calls.    *)
EXTENDS MultiGpuCalls, FiniteSetTheorems, FunctionTheorems, TLAPS

-----------------------------------------------------------------------------
(* The inductive invariant. *)

\* The pool never runs more jobs than it has threads.
PoolBounded == Cardinality(Active) <= NumDevices

\* The jobs past their barrier are all of one call.
OneCallWorks ==
  \A i, j \in Jobs : job[i] = "working" /\ job[j] = "working" => i[1] = j[1]

\* A queued job is in the queue once and nowhere else.
QueueExact ==
  /\ \A i \in DOMAIN queue : job[queue[i]] = "queued"
  /\ \A i, j \in DOMAIN queue : queue[i] = queue[j] => i = j

\* Calls to come have no jobs and have not ended; nor has the one under way.
CallsInOrder ==
  /\ \A c \in Calls : c > calls => ended[c] = "no"
  /\ \A j \in Jobs : j[1] > calls => job[j] = "none"
  /\ pc # "idle" => calls >= 1 /\ ended[calls] = "no"

\* A submission goes device by device, and none of its jobs passes the barrier
\* before the last is submitted.
SubmissionInOrder ==
  pc = "submitting" =>
    /\ \A d \in Devices : d >= next => job[<<calls, d>>] = "none"
    /\ \A d \in Devices : job[<<calls, d>>] # "working"

\* The jobs already awaited are done.
AwaitingInOrder ==
  pc = "awaiting" => \A d \in Devices : d < next => job[<<calls, d>>] = "done"

DynamicJobsCatch == mode = "dynamic" => \A j \in Jobs : job[j] # "failed"

\* A call that has ended for good left jobs that are done, or stuck at a
\* barrier the last job will never reach.
EndedForGood(c) == ended[c] = "returned" \/ (ended[c] = "raised" /\ mode = "dynamic")

EndedLeftNothing ==
  \A c \in Calls : EndedForGood(c) =>
    \/ \A d \in Devices : job[<<c, d>>] = "done"
    \/ /\ job[<<c, NumDevices>>] = "none"
       /\ \A d \in Devices : job[<<c, d>>] # "working"

CallsInv ==
  /\ TypeOK /\ PoolBounded /\ OneCallWorks /\ QueueExact /\ CallsInOrder
  /\ SubmissionInOrder /\ AwaitingInOrder /\ DynamicJobsCatch
  /\ EndedLeftNothing /\ NothingRunsAfterClose

-----------------------------------------------------------------------------
LEMMA JobsFinite == IsFiniteSet(Jobs)
<1>1. IsFiniteSet(Calls) /\ IsFiniteSet(Devices)
  BY FS_Interval, CallsAssumption DEF Calls, Devices
<1> QED BY <1>1, FS_Product DEF Jobs

LEMMA ActiveFinite == IsFiniteSet(Active)
BY JobsFinite, FS_Subset DEF Active

\* The threads are one for each device, so a call whose jobs are all at the
\* barrier holds the whole pool.
LEMMA BarrierTakesThePool ==
  ASSUME PoolBounded, NEW c \in Calls, \A d \in Devices : job[<<c, d>>] = "waiting"
  PROVE  \A j \in Jobs : job[j] \in OnThread => j[1] = c
<1> DEFINE Mine == {<<c, d>> : d \in Devices}
           f == [d \in Devices |-> <<c, d>>]
<1>1. Mine \subseteq Active
  BY DEF Active, Jobs, OnThread
<1>2. IsFiniteSet(Devices) /\ Cardinality(Devices) = NumDevices
  BY FS_Interval, CallsAssumption DEF Devices
<1>3. f \in Bijection(Devices, Mine)
  <2>1. f \in [Devices -> Mine]
    OBVIOUS
  <2>2. \A a, b \in Devices : f[a] = f[b] => a = b
    OBVIOUS
  <2>3. \A m \in Mine : \E d \in Devices : f[d] = m
    OBVIOUS
  <2> QED BY <2>1, <2>2, <2>3, Fun_IsBij
<1>4. Cardinality(Mine) = NumDevices
  <2>1. ExistsBijection(Devices, Mine)
    BY <1>3 DEF ExistsBijection
  <2> HIDE DEF Mine, f
  <2> QED BY <1>2, <2>1, FS_Bijection
<1>5. Mine = Active
  BY <1>1, <1>4, ActiveFinite, FS_Subset, FS_CardinalityType, CallsAssumption DEF PoolBounded
<1> QED BY <1>5 DEF Active, Jobs

-----------------------------------------------------------------------------
(* Preservation.  The steps that move one job to another phase share most of *)
(* their argument.                                                           *)

THEOREM InitCallsInv == Init => CallsInv
<1> SUFFICES ASSUME Init PROVE CallsInv
  OBVIOUS
<1> USE CallsAssumption DEF Init
<1>1. TypeOK
  BY DEF TypeOK, Devices, JobPhases, Calls
<1>2. Active = {}
  BY DEF Active, OnThread
<1>3. PoolBounded
  BY <1>2, FS_EmptySet DEF PoolBounded
<1>4. OneCallWorks /\ QueueExact /\ CallsInOrder
  BY DEF OneCallWorks, QueueExact, CallsInOrder
<1>5. SubmissionInOrder /\ AwaitingInOrder /\ DynamicJobsCatch
  BY DEF SubmissionInOrder, AwaitingInOrder, DynamicJobsCatch
<1>6. EndedLeftNothing /\ NothingRunsAfterClose
  BY DEF EndedLeftNothing, EndedForGood, NothingRunsAfterClose
<1> QED BY <1>1, <1>3, <1>4, <1>5, <1>6 DEF CallsInv

\* A call begins: the calls to come had no jobs.
LEMMA BeginKeeps == ASSUME CallsInv, NEW client \in Clients, Begin(client) PROVE CallsInv'
<1> USE CallsAssumption DEF CallsInv, Begin
<1>1. TypeOK'
  BY DEF TypeOK, Devices
<1>2. Active' = Active
  BY DEF Active
<1>3. PoolBounded' /\ NothingRunsAfterClose'
  BY <1>2 DEF PoolBounded, NothingRunsAfterClose
<1>4. OneCallWorks' /\ QueueExact' /\ DynamicJobsCatch'
  BY DEF OneCallWorks, QueueExact, DynamicJobsCatch
<1>5. CallsInOrder'
  BY DEF CallsInOrder, TypeOK, Calls, Jobs
<1>6. SubmissionInOrder' /\ AwaitingInOrder'
  BY DEF SubmissionInOrder, AwaitingInOrder, CallsInOrder, TypeOK, Calls, Jobs
<1>7. EndedLeftNothing'
  BY DEF EndedLeftNothing, EndedForGood
<1> QED BY <1>1, <1>3, <1>4, <1>5, <1>6, <1>7

\* A call ends; one that ends for good must have left nothing.
LEMMA EndKeeps ==
  ASSUME CallsInv, pc # "idle",
         NEW how \in {"returned", "raised", "interrupted"}, End(how),
         how = "returned" \/ (how = "raised" /\ mode = "dynamic") =>
           \/ \A d \in Devices : job[<<calls, d>>] = "done"
           \/ /\ job[<<calls, NumDevices>>] = "none"
              /\ \A d \in Devices : job[<<calls, d>>] # "working"
  PROVE  CallsInv'
<1> USE CallsAssumption DEF CallsInv, End
<1>1. TypeOK'
  BY DEF TypeOK
<1>2. Active' = Active
  BY DEF Active
<1>3. PoolBounded' /\ NothingRunsAfterClose'
  BY <1>2 DEF PoolBounded, NothingRunsAfterClose
<1>4. OneCallWorks' /\ QueueExact' /\ DynamicJobsCatch'
  BY DEF OneCallWorks, QueueExact, DynamicJobsCatch
<1>5. CallsInOrder'
  BY DEF CallsInOrder, TypeOK, Calls
<1>6. SubmissionInOrder' /\ AwaitingInOrder'
  BY DEF SubmissionInOrder, AwaitingInOrder
<1>7. EndedLeftNothing'
  <2> SUFFICES ASSUME NEW c \in Calls, EndedForGood(c)'
               PROVE  \/ \A d \in Devices : job[<<c, d>>] = "done"
                      \/ /\ job[<<c, NumDevices>>] = "none"
                         /\ \A d \in Devices : job[<<c, d>>] # "working"
    BY DEF EndedLeftNothing
  <2>1. CASE c = calls
    BY <2>1 DEF EndedForGood, TypeOK
  <2>2. CASE c # calls
    BY <2>2 DEF EndedForGood, EndedLeftNothing, TypeOK
  <2> QED BY <2>1, <2>2
<1> QED BY <1>1, <1>3, <1>4, <1>5, <1>6, <1>7

\* What a sequence holds after an element is appended.
LEMMA AppendShape ==
  ASSUME NEW S, NEW s \in Seq(S), NEW x \in S, NEW i \in DOMAIN Append(s, x)
  PROVE  \/ i \in DOMAIN s /\ Append(s, x)[i] = s[i]
         \/ i = Len(s) + 1 /\ i \notin DOMAIN s /\ Append(s, x)[i] = x
<1>1. i \in 1 .. Len(s) \/ i = Len(s) + 1
  OBVIOUS
<1>2. CASE i \in 1 .. Len(s)
  BY <1>2
<1>3. CASE i = Len(s) + 1
  BY <1>3
<1> QED BY <1>1, <1>2, <1>3

\* A job is submitted: it was nowhere before.
LEMMA SubmitKeeps == ASSUME CallsInv, Submit PROVE CallsInv'
<1> USE CallsAssumption DEF CallsInv, Submit, Move
<1> DEFINE j == <<calls, next>>
<1>1. j \in Jobs /\ job[j] = "none" /\ calls \in Calls
  <2>1. calls \in Calls /\ next \in Devices /\ next >= next
    BY DEF CallsInOrder, TypeOK, Calls, Devices
  <2>2. job[<<calls, next>>] = "none"
    BY <2>1 DEF SubmissionInOrder
  <2> QED BY <2>1, <2>2 DEF Jobs
<1>2. job' = [job EXCEPT ![j] = "queued"] /\ queue' = Append(queue, j)
  OBVIOUS
<1>3. TypeOK'
  <2>1. next' \in Devices /\ pc' \in {"submitting", "awaiting"}
    BY DEF TypeOK, Devices
  <2>2. queue' \in Seq(Jobs) /\ job' \in [Jobs -> JobPhases]
    BY <1>1, <1>2 DEF TypeOK, JobPhases
  <2> QED BY <2>1, <2>2 DEF TypeOK
<1>4. Active' = Active
  BY <1>1, <1>2 DEF Active, TypeOK, OnThread
<1>5. PoolBounded' /\ NothingRunsAfterClose'
  BY <1>4 DEF PoolBounded, NothingRunsAfterClose
<1>6. OneCallWorks' /\ DynamicJobsCatch'
  BY <1>1, <1>2 DEF OneCallWorks, DynamicJobsCatch, TypeOK
<1>7. QueueExact'
  <2>1. \A i \in DOMAIN queue : queue[i] \in Jobs /\ queue[i] # j
    <3> HIDE DEF j
    <3>1. \A i \in DOMAIN queue : queue[i] \in Jobs
      BY DEF TypeOK
    <3> QED BY <1>1, <3>1 DEF QueueExact
  <2>2. ASSUME NEW i \in DOMAIN queue'
        PROVE  \/ i \in DOMAIN queue /\ queue'[i] = queue[i]
               \/ i = Len(queue) + 1 /\ i \notin DOMAIN queue /\ queue'[i] = j
    <3> HIDE DEF CallsInv, Submit, j
    <3>1. queue \in Seq(Jobs)
      BY DEF CallsInv, TypeOK
    <3> QED BY <1>1, <1>2, <3>1, AppendShape
  <2>4. \A i \in DOMAIN queue' : job'[queue'[i]] = "queued"
    BY <1>1, <1>2, <2>1, <2>2 DEF QueueExact, TypeOK
  <2>5. \A i, k \in DOMAIN queue' : queue'[i] = queue'[k] => i = k
    BY <2>1, <2>2 DEF QueueExact
  <2> QED BY <2>4, <2>5 DEF QueueExact
<1>8. CallsInOrder'
  BY <1>1, <1>2 DEF CallsInOrder, TypeOK, Calls, Jobs
<1>9. SubmissionInOrder'
  BY <1>1, <1>2 DEF SubmissionInOrder, TypeOK, Jobs, Devices
<1>10. AwaitingInOrder'
  BY DEF AwaitingInOrder, Devices
<1>11. EndedLeftNothing'
  BY <1>1, <1>2 DEF EndedLeftNothing, EndedForGood, CallsInOrder, TypeOK, Jobs
<1> QED BY <1>3, <1>5, <1>6, <1>7, <1>8, <1>9, <1>10, <1>11

\* The caller goes on to the next job.
LEMMA AwaitNextKeeps == ASSUME CallsInv, AwaitNext PROVE CallsInv'
<1> USE CallsAssumption DEF CallsInv, AwaitNext, Awaited
<1>1. TypeOK'
  BY DEF TypeOK, Devices
<1>2. Active' = Active
  BY DEF Active
<1>3. PoolBounded' /\ NothingRunsAfterClose'
  BY <1>2 DEF PoolBounded, NothingRunsAfterClose
<1>4. OneCallWorks' /\ QueueExact' /\ DynamicJobsCatch' /\ CallsInOrder'
  BY DEF OneCallWorks, QueueExact, DynamicJobsCatch, CallsInOrder
<1>5. SubmissionInOrder' /\ AwaitingInOrder'
  BY DEF SubmissionInOrder, AwaitingInOrder, TypeOK, Devices
<1>6. EndedLeftNothing'
  BY DEF EndedLeftNothing, EndedForGood
<1> QED BY <1>1, <1>3, <1>4, <1>5, <1>6

\* A thread takes the job at the head of the queue, if one is free.
LEMMA StartKeeps == ASSUME CallsInv, Start PROVE CallsInv'
<1> USE CallsAssumption DEF CallsInv, Start, Move
<1> DEFINE j == Head(queue)
<1>1. j \in Jobs /\ job[j] = "queued"
  BY DEF TypeOK, QueueExact
<1>2. job' = [job EXCEPT ![j] = "waiting"] /\ queue' = Tail(queue)
  OBVIOUS
<1>3. TypeOK'
  <2>1. queue' \in Seq(Jobs)
    BY DEF TypeOK
  <2>2. job' \in [Jobs -> JobPhases]
    BY <1>1, <1>2 DEF TypeOK, JobPhases, OnThread
  <2> QED BY <2>1, <2>2 DEF TypeOK
<1>4. PoolBounded'
  <2>1. Active' = Active \cup {j}
    BY <1>1, <1>2 DEF Active, TypeOK, OnThread
  <2>2. Cardinality(Active) \in Nat /\ Cardinality(Active) < NumDevices
    BY ActiveFinite, FS_CardinalityType DEF Threads
  <2>3. Cardinality(Active \cup {j}) =
          IF j \in Active THEN Cardinality(Active) ELSE Cardinality(Active) + 1
    <3> HIDE DEF j, CallsInv, Start
    <3> QED BY ActiveFinite, FS_AddElement
  <2> QED BY <2>1, <2>2, <2>3 DEF PoolBounded
<1>5. OneCallWorks' /\ DynamicJobsCatch'
  BY <1>1, <1>2 DEF OneCallWorks, DynamicJobsCatch, TypeOK
<1>6. QueueExact'
  <2>1. \A i \in DOMAIN queue' : /\ i + 1 \in DOMAIN queue /\ queue'[i] = queue[i + 1]
                                 /\ i \in Nat \ {0}
    BY <1>2 DEF TypeOK
  <2>2. j = queue[1] /\ 1 \in DOMAIN queue
    BY DEF TypeOK
  <2>3. \A i \in DOMAIN queue' : queue'[i] # j
    BY <2>1, <2>2 DEF QueueExact
  <2>4. \A i \in DOMAIN queue' : job'[queue'[i]] = "queued"
    BY <1>1, <1>2, <2>1, <2>3 DEF QueueExact, TypeOK
  <2>5. \A i, k \in DOMAIN queue' : queue'[i] = queue'[k] => i = k
    BY <2>1 DEF QueueExact
  <2> QED BY <2>4, <2>5 DEF QueueExact
<1>7. CallsInOrder'
  BY <1>1, <1>2 DEF CallsInOrder, TypeOK
<1>8. SubmissionInOrder' /\ AwaitingInOrder'
  BY <1>1, <1>2 DEF SubmissionInOrder, AwaitingInOrder, TypeOK, Jobs
<1>9. EndedLeftNothing'
  BY <1>1, <1>2 DEF EndedLeftNothing, EndedForGood, TypeOK, Jobs
<1>10. NothingRunsAfterClose'
  BY DEF NothingRunsAfterClose
<1> QED BY <1>3, <1>4, <1>5, <1>6, <1>7, <1>8, <1>9, <1>10

\* The jobs of a call pass its barrier together, when no other call works.
LEMMA PassBarrierKeeps ==
  ASSUME CallsInv, NEW c \in Calls, PassBarrier(c) PROVE CallsInv'
<1> USE CallsAssumption DEF CallsInv, PassBarrier
<1>1. \A k \in Jobs : k[1] \in Calls /\ k[2] \in Devices /\ k = <<k[1], k[2]>>
  BY DEF Jobs
<1>2. \A k \in Jobs : k[1] = c => job[k] = "waiting" /\ job'[k] = "working"
  BY <1>1
<1>3. \A k \in Jobs : k[1] # c => job'[k] = job[k]
  OBVIOUS
<1>4. \A k \in Jobs : job[k] \in OnThread => k[1] = c
  BY BarrierTakesThePool
<1>5. TypeOK'
  BY DEF TypeOK, JobPhases, OnThread
<1>6. Active' = Active
  BY <1>2, <1>3 DEF Active, OnThread
<1>7. PoolBounded' /\ NothingRunsAfterClose'
  BY <1>6 DEF PoolBounded, NothingRunsAfterClose
<1>8. OneCallWorks'
  BY <1>3, <1>4 DEF OneCallWorks, OnThread
<1>9. QueueExact'
  BY <1>2, <1>3 DEF QueueExact, TypeOK
<1>10. DynamicJobsCatch'
  BY <1>2, <1>3 DEF DynamicJobsCatch
<1>11. <<c, 1>> \in Jobs /\ <<c, NumDevices>> \in Jobs
  BY DEF Jobs, Devices
<1>12. c <= calls
  BY <1>2, <1>11 DEF CallsInOrder, TypeOK, Calls
<1>13. CallsInOrder'
  BY <1>3, <1>12 DEF CallsInOrder, TypeOK, Calls, Jobs
<1>14. pc = "submitting" => calls \in Calls /\ <<calls, next>> \in Jobs /\ job[<<calls, next>>] = "none"
  <2> SUFFICES ASSUME pc = "submitting"
               PROVE  /\ calls \in Calls /\ <<calls, next>> \in Jobs
                      /\ job[<<calls, next>>] = "none"
    OBVIOUS
  <2>1. calls \in Calls /\ next \in Devices /\ next >= next
    BY DEF CallsInOrder, TypeOK, Calls, Devices
  <2>2. job[<<calls, next>>] = "none"
    BY <2>1 DEF SubmissionInOrder
  <2> QED BY <2>1, <2>2 DEF Jobs
<1>15. SubmissionInOrder'
  <2> SUFFICES ASSUME pc = "submitting", NEW d \in Devices
               PROVE  /\ d >= next => job'[<<calls, d>>] = "none"
                      /\ job'[<<calls, d>>] # "working"
    BY DEF SubmissionInOrder
  <2>1. calls # c /\ <<calls, d>> \in Jobs
    BY <1>2, <1>14 DEF Jobs
  <2> QED BY <1>3, <2>1 DEF SubmissionInOrder
<1>16. AwaitingInOrder'
  <2> SUFFICES ASSUME pc = "awaiting", NEW d \in Devices, d < next
               PROVE  job'[<<calls, d>>] = "done"
    BY DEF AwaitingInOrder
  <2>1. <<calls, d>> \in Jobs /\ job[<<calls, d>>] = "done"
    BY DEF AwaitingInOrder, CallsInOrder, TypeOK, Calls, Jobs
  <2> QED BY <1>2, <1>3, <2>1
<1>17. EndedLeftNothing'
  <2>1. ~EndedForGood(c)
    BY <1>2, <1>11 DEF EndedLeftNothing, Devices
  <2> SUFFICES ASSUME NEW e \in Calls, EndedForGood(e)
               PROVE  \/ \A d \in Devices : job'[<<e, d>>] = "done"
                      \/ /\ job'[<<e, NumDevices>>] = "none"
                         /\ \A d \in Devices : job'[<<e, d>>] # "working"
    BY DEF EndedLeftNothing, EndedForGood
  <2>2. \A d \in Devices : <<e, d>> \in Jobs /\ <<e, d>>[1] # c
    BY <2>1 DEF Jobs
  <2>3. \A d \in Devices : job'[<<e, d>>] = job[<<e, d>>]
    BY <1>3, <2>2
  <2>4. NumDevices \in Devices
    BY DEF Devices
  <2> QED BY <2>3, <2>4 DEF EndedLeftNothing
<1> QED BY <1>5, <1>7, <1>8, <1>9, <1>10, <1>13, <1>15, <1>16, <1>17

\* A working job ends, in its result or in its error.
LEMMA WorkEndsKeeps ==
  ASSUME CallsInv, NEW j \in Jobs, job[j] = "working",
         NEW phase \in {"done", "failed"}, job' = [job EXCEPT ![j] = phase],
         phase = "failed" => mode = "static",
         errors' \subseteq Calls,
         UNCHANGED <<mode, calls, holder, pc, next, ended, queue, closing>>
  PROVE  CallsInv'
<1> USE CallsAssumption DEF CallsInv
<1>1. job'[j] = phase /\ \A k \in Jobs : k # j => job'[k] = job[k]
  BY DEF TypeOK
<1>2. TypeOK'
  BY DEF TypeOK, JobPhases
<1>3. Active' \subseteq Active
  BY <1>1 DEF Active, OnThread
<1>4. PoolBounded'
  BY <1>3, ActiveFinite, FS_Subset, FS_CardinalityType DEF PoolBounded
<1>5. NothingRunsAfterClose'
  BY <1>3 DEF NothingRunsAfterClose
<1>6. OneCallWorks' /\ DynamicJobsCatch'
  BY <1>1 DEF OneCallWorks, DynamicJobsCatch
<1>7. QueueExact'
  BY <1>1 DEF QueueExact, TypeOK
<1>8. CallsInOrder'
  BY <1>1 DEF CallsInOrder, TypeOK
<1>9. pc # "idle" => calls \in Calls /\ \A d \in Devices : <<calls, d>> \in Jobs
  BY DEF CallsInOrder, TypeOK, Calls, Jobs
<1>10. SubmissionInOrder' /\ AwaitingInOrder'
  BY <1>1, <1>9 DEF SubmissionInOrder, AwaitingInOrder
<1>11. EndedLeftNothing'
  BY <1>1 DEF EndedLeftNothing, EndedForGood, Jobs, Devices
<1> QED BY <1>2, <1>4, <1>5, <1>6, <1>7, <1>8, <1>10, <1>11

-----------------------------------------------------------------------------
THEOREM NextKeepsCallsInv == CallsInv /\ [Next]_vars => CallsInv'
<1> SUFFICES ASSUME CallsInv, [Next]_vars PROVE CallsInv'
  OBVIOUS
<1>1. ASSUME NEW client \in Clients, Begin(client) PROVE CallsInv'
  BY <1>1, BeginKeeps
<1>2. CASE Submit
  BY <1>2, SubmitKeeps
<1>3. CASE SubmitRefused
  <2>1. pc # "idle" /\ End("raised")
    BY <1>3 DEF SubmitRefused
  <2>2. /\ job[<<calls, NumDevices>>] = "none"
        /\ \A d \in Devices : job[<<calls, d>>] # "working"
    BY <1>3, CallsAssumption DEF SubmitRefused, CallsInv, SubmissionInOrder, TypeOK, Devices
  <2> QED BY <2>1, <2>2, EndKeeps
<1>4. CASE AwaitNext
  BY <1>4, AwaitNextKeeps
<1>5. CASE AwaitLast
  <2> DEFINE how == IF mode = "dynamic" /\ calls \in errors THEN "raised" ELSE "returned"
  <2>1. pc # "idle" /\ End(how) /\ how \in {"returned", "raised", "interrupted"}
    BY <1>5 DEF AwaitLast
  <2>2. \A d \in Devices : job[<<calls, d>>] = "done"
    BY <1>5, CallsAssumption DEF AwaitLast, Awaited, CallsInv, AwaitingInOrder, TypeOK, Devices
  <2> HIDE DEF how
  <2> QED BY <2>1, <2>2, EndKeeps
<1>6. CASE AwaitRaises
  <2>1. pc # "idle" /\ End("raised")
    BY <1>6 DEF AwaitRaises
  <2>2. <<calls, next>> \in Jobs
    BY <1>6 DEF AwaitRaises, CallsInv, CallsInOrder, TypeOK, Calls, Jobs
  <2>3. mode # "dynamic"
    BY <1>6, <2>2 DEF AwaitRaises, Awaited, CallsInv, DynamicJobsCatch
  <2> QED BY <2>1, <2>3, EndKeeps
<1>7. CASE Interrupt
  <2>1. pc # "idle" /\ End("interrupted")
    BY <1>7 DEF Interrupt
  <2> QED BY <2>1, EndKeeps
<1>8. CASE Start
  BY <1>8, StartKeeps
<1>9. ASSUME NEW c \in Calls, PassBarrier(c) PROVE CallsInv'
  BY <1>9, PassBarrierKeeps
<1>10. ASSUME NEW j \in Jobs, Finish(j) PROVE CallsInv'
  <2>1. job[j] = "working" /\ job' = [job EXCEPT ![j] = "done"]
    BY <1>10 DEF Finish, Move
  <2>2. errors' \subseteq Calls /\ UNCHANGED <<mode, calls, holder, pc, next, ended, queue, closing>>
    BY <1>10 DEF Finish, CallsInv, TypeOK
  <2> QED BY <2>1, <2>2, WorkEndsKeeps
<1>11. ASSUME NEW j \in Jobs, Fail(j) PROVE CallsInv'
  <2> DEFINE phase == IF mode = "static" THEN "failed" ELSE "done"
  <2>1. job[j] = "working" /\ job' = [job EXCEPT ![j] = phase]
    BY <1>11 DEF Fail, Move
  <2>2. errors' \subseteq Calls /\ UNCHANGED <<mode, calls, holder, pc, next, ended, queue, closing>>
    BY <1>11 DEF Fail, CallsInv, TypeOK, Jobs
  <2>3. phase \in {"done", "failed"} /\ (phase = "failed" => mode = "static")
    OBVIOUS
  <2> HIDE DEF phase
  <2> QED BY <2>1, <2>2, <2>3, WorkEndsKeeps
<1>12. ASSUME UNCHANGED <<mode, calls, holder, pc, next, ended, queue, job>>,
              closing' # "closed" \/ closing' = closing \/ (queue = <<>> /\ Active = {}),
              closing' \in {"open", "closing", "closed"}, errors' = errors
       PROVE  CallsInv'
  <2> USE <1>12 DEF CallsInv
  <2>1. TypeOK' /\ Active' = Active
    BY DEF TypeOK, Active
  <2>2. PoolBounded' /\ OneCallWorks' /\ QueueExact' /\ CallsInOrder'
    BY <2>1 DEF PoolBounded, OneCallWorks, QueueExact, CallsInOrder
  <2>3. SubmissionInOrder' /\ AwaitingInOrder' /\ DynamicJobsCatch' /\ EndedLeftNothing'
    BY DEF SubmissionInOrder, AwaitingInOrder, DynamicJobsCatch, EndedLeftNothing, EndedForGood
  <2>4. NothingRunsAfterClose'
    BY <2>1 DEF NothingRunsAfterClose
  <2> QED BY <2>1, <2>2, <2>3, <2>4
<1>13. CASE BeginClose
  BY <1>12, <1>13 DEF BeginClose
<1>14. CASE EndClose
  BY <1>12, <1>14 DEF EndClose
<1>15. CASE UNCHANGED vars
  BY <1>12, <1>15 DEF vars, CallsInv, TypeOK
<1>16. CASE Rest
  BY <1>15, <1>16 DEF Rest
<1> QED
  BY <1>1, <1>2, <1>3, <1>4, <1>5, <1>6, <1>7, <1>8, <1>9, <1>10, <1>11,
     <1>13, <1>14, <1>15, <1>16 DEF Next, CallStep

THEOREM CallsInvariant == Spec => []CallsInv
BY InitCallsInv, NextKeepsCallsInv, PTL DEF Spec

-----------------------------------------------------------------------------
\* Every variable of the runner keeps its type, for any number of devices,
\* clients and calls (streaming.py, __call__ to close).
THEOREM CallsTypeCorrect == Spec => []TypeOK
<1>1. CallsInv => TypeOK
  BY DEF CallsInv
<1> QED BY <1>1, CallsInvariant, PTL

\* No device's runner ever works for two calls at once, although a call that
\* raised or was interrupted leaves jobs behind: the barrier of a call
\* (streaming.py, _run_workers) takes one thread for each device, and there
\* are no more threads than that.
THEOREM SingleFlight == Spec => []RunnerSingleFlight
<1>1. CallsInv => RunnerSingleFlight
  BY DEF CallsInv, OneCallWorks, RunnerSingleFlight, Jobs
<1> QED BY <1>1, CallsInvariant, PTL

\* When a call has returned, or a dynamic call has raised a worker's failure,
\* none of its jobs is working, nor will be: they are done, or wait at a
\* barrier whose last party is never submitted.
THEOREM EndedQuiet == Spec => []EndedCallsAreQuiet
<1>1. CallsInv => EndedCallsAreQuiet
  BY DEF CallsInv, EndedLeftNothing, EndedForGood, EndedCallsAreQuiet
<1> QED BY <1>1, CallsInvariant, PTL

\* Once close has returned, no job runs or waits to run (streaming.py, close).
THEOREM QuietAfterClose == Spec => []NothingRunsAfterClose
<1>1. CallsInv => NothingRunsAfterClose
  BY DEF CallsInv
<1> QED BY <1>1, CallsInvariant, PTL
=============================================================================
