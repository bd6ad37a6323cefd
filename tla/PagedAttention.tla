--------------------------- MODULE PagedAttention ---------------------------
(***************************************************************************)
(* What PagedAttentionRunner.run promises, whatever the executor, the      *)
(* cache and the thread pool do: the sink only ever receives finished      *)
(* pages, each the exact attention of its own queries over all keys of its *)
(* segment, and a result is returned only when it received them all.       *)
(* Otherwise the call raises.                                              *)
(***************************************************************************)
CONSTANTS
  QPages,     \* the query pages
  Answer(_),  \* the exact output of a page
  Nothing     \* what the sink holds of a page before it is written

VARIABLES
  sink,       \* the output page the sink holds for each query page
  outcome     \* "running", "returned" or "raised"

absVars == <<sink, outcome>>

Init ==
  /\ sink = [p \in QPages |-> Nothing]
  /\ outcome = "running"

Deliver(p) ==
  /\ outcome = "running"
  /\ sink[p] = Nothing
  /\ sink' = [sink EXCEPT ![p] = Answer(p)]
  /\ UNCHANGED outcome

Return ==
  /\ outcome = "running"
  /\ \A p \in QPages : sink[p] = Answer(p)
  /\ outcome' = "returned"
  /\ UNCHANGED sink

Raise ==
  /\ outcome = "running"
  /\ outcome' = "raised"
  /\ UNCHANGED sink

Next == (\E p \in QPages : Deliver(p)) \/ Return \/ Raise

Spec == Init /\ [][Next]_absVars
=============================================================================
