----------------------------- MODULE BlockCalls -----------------------------
(***************************************************************************)
(* What the DiT block runners promise (docs/architecture.md, dit/): a call *)
(* takes each row of its hidden state through the versions of the model    *)
(* one at a time, a row advances only when the rows its next version       *)
(* depends on are there, the call returns only when every row has its last *)
(* version, and nothing is written after it returned or raised.            *)
(***************************************************************************)
EXTENDS Naturals

CONSTANTS
  Kinds,            \* the runners, records with a field `model`
  Modalities(_),    \* the hidden modalities of a model
  RowsOf(_,_),      \* the rows of a modality in a runner's calls
  Last(_)           \* the last version in a runner's calls

VARIABLES
  kind,             \* the runner
  outcome,          \* of its last call: "none", "running", "returned", "raised"
  version           \* the version each row has reached, by modality

absVars == <<kind, outcome, version>>

Other(m) == IF m = "video" THEN "audio" ELSE "video"

\* The modalities all of whose rows version v of m is computed from, in their
\* version v - 1: self-attention, LTX2's cross-attention of video and audio,
\* and no other stage but the row itself.
Context(model, m, v) ==
  CASE model = "wan" -> IF v % 3 = 1 THEN {m} ELSE {}
    [] model = "ltx2" -> CASE v % 4 = 1 -> {m} [] v % 4 = 3 -> {Other(m)} [] OTHER -> {}
    [] model = "h3" -> {m}

Fresh == [m \in Modalities(kind.model) |-> [r \in RowsOf(kind, m) |-> 0]]

Init ==
  /\ kind \in Kinds
  /\ outcome = "none"
  /\ version = Fresh

Begin ==
  /\ outcome # "running"
  /\ outcome' = "running"
  /\ version' = Fresh
  /\ UNCHANGED kind

Ready(m, r) ==
  \A c \in Context(kind.model, m, version[m][r] + 1) :
    \A s \in DOMAIN version[c] : version[c][s] >= version[m][r]

\* A tile of rows advances at once.
Advance(m, tile) ==
  /\ outcome = "running"
  /\ \A r \in tile : Ready(m, r) /\ version[m][r] < Last(kind)
  /\ version' = [version EXCEPT ![m] = [r \in DOMAIN @ |-> @[r] + (IF r \in tile THEN 1 ELSE 0)]]
  /\ UNCHANGED <<kind, outcome>>

End(how) ==
  /\ outcome = "running"
  /\ how = "returned" =>
       \A m \in DOMAIN version : \A r \in DOMAIN version[m] : version[m][r] = Last(kind)
  /\ outcome' = how
  /\ UNCHANGED <<kind, version>>

Next ==
  \/ Begin
  \/ \E m \in DOMAIN version : \E tile \in SUBSET DOMAIN version[m] : Advance(m, tile)
  \/ \E how \in {"returned", "raised"} : End(how)

Spec == Init /\ [][Next]_absVars
=============================================================================
