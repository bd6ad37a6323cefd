---------------------------- MODULE MCPagedTriton ----------------------------
(***************************************************************************)
(* Three query pages, of two segments, so that the stage ring, the device  *)
(* buffers and the output staging ring are all reused, across segments.    *)
(***************************************************************************)
EXTENDS PagedTriton

TwoSegments == [q \in 0 .. 2 |-> IF q < 2 THEN <<0, 1, 2>> ELSE <<3>>]
=============================================================================
