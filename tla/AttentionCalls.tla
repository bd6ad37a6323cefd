--------------------------- MODULE AttentionCalls ---------------------------
(***************************************************************************)
(* What a reusable streaming runner promises to the callers that use it    *)
(* one after the other.  Each call writes its own destination rows, every  *)
(* row it writes is the exact attention of the call's own inputs, and it   *)
(* returns only when all of them are there.  A call that returned or       *)
(* raised never writes again.  A call that was abandoned, because the host *)
(* left it without waiting for the device, may still write anything, but   *)
(* only to its own destination.                                            *)
(***************************************************************************)
EXTENDS Naturals

CONSTANTS
  Calls,       \* the calls, in the order they are made
  MaxTasks,    \* a call has the query tasks 1 .. n, for an n up to MaxTasks
  Answer(_,_), \* the exact rows of a task of a call
  Unwritten    \* what the destination holds of a task before it

VARIABLES
  outcome,     \* "none", "running", "returned", "raised" or "abandoned"
  out          \* the destination of each call, by task

absVars == <<outcome, out>>

Init ==
  /\ outcome = [c \in Calls |-> "none"]
  /\ out = [c \in Calls |-> <<>>]

Begin(c, n) ==
  /\ \A d \in Calls : outcome[d] # "running"
  /\ outcome[c] = "none"
  /\ outcome' = [outcome EXCEPT ![c] = "running"]
  /\ out' = [out EXCEPT ![c] = [t \in 1 .. n |-> Unwritten]]

Deliver(c, t) ==
  /\ outcome[c] = "running"
  /\ out' = [out EXCEPT ![c][t] = Answer(c, t)]
  /\ UNCHANGED outcome

End(c, how) ==
  /\ outcome[c] = "running"
  /\ how = "returned" => \A t \in DOMAIN out[c] : out[c][t] = Answer(c, t)
  /\ outcome' = [outcome EXCEPT ![c] = how]
  /\ UNCHANGED out

\* What the device does with the rest of an abandoned call.
Stray(c) ==
  /\ outcome[c] = "abandoned"
  /\ \A d \in Calls \ {c} : out'[d] = out[d]
  /\ UNCHANGED outcome

Next ==
  \E c \in Calls :
    \/ \E n \in 1 .. MaxTasks : Begin(c, n)
    \/ \E t \in DOMAIN out[c] : Deliver(c, t)
    \/ \E how \in {"returned", "raised", "abandoned"} : End(c, how)
    \/ Stray(c)

Spec == Init /\ [][Next]_absVars
=============================================================================
