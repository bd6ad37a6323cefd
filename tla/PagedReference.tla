--------------------------- MODULE PagedReference ---------------------------
(***************************************************************************)
(* The CPU reference executor of a paged run (paged/runtime/reference.py,  *)
(* _run_reference).  The main thread reads staged pages and writes the     *)
(* output staging buffers itself; only loads and page writes are           *)
(* asynchronous.                                                           *)
(***************************************************************************)
EXTENDS PagedRun

VARIABLE acc   \* running_max, running_sum, accumulator

vars == <<runVars, acc>>

Init == RunInit /\ acc = Nothing

-----------------------------------------------------------------------------
BeginPage ==
  /\ pc = "page"
  /\ ReadQ
  /\ pc' = "chunk"
  /\ UNCHANGED <<qpage, submitted, consumed, ioVars, stage, out, sink, outcome, acc>>

BeginChunk ==
  /\ pc = "chunk"
  /\ pc' = "scan"
  /\ acc' = Nothing
  /\ UNCHANGED <<qpage, chunk, submitted, consumed, ioVars, bufVars, sink, outcome>>

Submit == SubmitLoad /\ UNCHANGED acc

\* consume: accumulate the tiles of the staged page.
Consume ==
  /\ TakeLoad
  /\ acc' = acc \o [t \in 1 .. TilesPerPage |->
                      <<Append(qHost, chunk), Append(stage[StageOf(consumed)], t - 1)>>]
  /\ UNCHANGED <<pc, qpage, chunk, submitted, queue, writes, bufVars, sink, outcome>>

\* output[...].copy_(normalized), into the page's staging buffer.
EndChunk ==
  /\ ScanDone
  /\ out' = [out EXCEPT ![OutSlot][chunk] = acc]
  /\ NextChunk("submit")
  /\ UNCHANGED <<qpage, ioVars, qHost, stage, sink, outcome, acc>>

Main ==
  \/ BeginPage \/ BeginChunk \/ Submit \/ Consume \/ EndChunk
  \/ (SubmitOutput \/ Ending) /\ UNCHANGED acc

Ended == pc = "ended" /\ UNCHANGED vars

Next ==
  \/ Main
  \/ (MainRaises \/ Pool \/ TaskFails) /\ UNCHANGED acc
  \/ Ended

Fairness == WF_vars(Main) /\ WF_vars(Pool /\ UNCHANGED acc)

Spec == Init /\ [][Next]_vars /\ Fairness
=============================================================================
