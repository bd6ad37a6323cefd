------------------------- MODULE MCMultiGpuDynamic -------------------------
(* Two devices of different capacities and an empty run of segments. *)
EXTENDS MultiGpuDynamic

\* Segments of 2, 0, 0 and 8 tokens, after a prefix of one token.
Bounds == <<1, 3, 3, 3, 11>>

Devices == {1, 2}
PerDevice(a, b) == [w \in Devices |-> <<a, b>>[w]]

BlockMOf == PerDevice(2, 4)
QMinOf == PerDevice(2, 0)
QCapacityOf == PerDevice(7, 3)
InitialQOf == PerDevice(3, 3)
=============================================================================
