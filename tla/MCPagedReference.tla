-------------------------- MODULE MCPagedReference --------------------------
(***************************************************************************)
(* Three query pages over two output staging buffers (the defaults of      *)
(* PagedAttentionConfig have two buffers and four I/O threads).            *)
(***************************************************************************)
EXTENDS PagedReference

OneSegment == [q \in 0 .. 2 |-> <<0>>]
=============================================================================
