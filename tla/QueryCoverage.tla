--------------------------- MODULE QueryCoverage ---------------------------
(***************************************************************************)
(* What a multi-GPU attention call promises its caller: it computes the    *)
(* output row of every query token exactly once before it returns, it      *)
(* returns only when every row is computed, and it computes nothing after  *)
(* it has returned or raised.                                              *)
(***************************************************************************)
EXTENDS Integers

CONSTANT Tokens
VARIABLES computed, outcome

Outcomes == {"none", "running", "returned", "raised"}

Init == computed = {} /\ outcome = "none"

Call ==
  /\ outcome # "running"
  /\ outcome' = "running"
  /\ computed' = {}

Compute ==
  /\ outcome = "running"
  /\ \E rows \in SUBSET (Tokens \ computed) : computed' = computed \cup rows
  /\ UNCHANGED outcome

Return ==
  /\ outcome = "running" /\ computed = Tokens
  /\ outcome' = "returned"
  /\ UNCHANGED computed

Raise ==
  /\ outcome = "running"
  /\ outcome' = "raised"
  /\ UNCHANGED computed

Next == Call \/ Compute \/ Return \/ Raise

Spec == Init /\ [][Next]_<<computed, outcome>>
=============================================================================
