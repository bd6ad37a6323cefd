------------------------------ MODULE MCKVScan ------------------------------
(***************************************************************************)
(* Two segments of pages 0-3 and 4-5, each scanned by two Q chunks.        *)
(***************************************************************************)
EXTENDS KVScan

TwoSegments == << <<0, 1, 2, 3>>, <<0, 1, 2, 3>>, <<4, 5>>, <<4, 5>> >>
=============================================================================
