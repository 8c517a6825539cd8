--------------------------- MODULE MCFrameReader ----------------------------
(***************************************************************************)
(* Two connections: messages without content, with one byte and with more  *)
(* than one recv() returns.                                                *)
(***************************************************************************)
EXTENDS FrameReader

MCCount == <<4, 3>>
MCEdge  == <<[m \in 0..4 |-> <<0, 6, 13, 23, 29>>[m + 1]], [m \in 0..3 |-> <<0, 7, 13, 22>>[m + 1]]>>
=============================================================================
