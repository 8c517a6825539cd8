------------------------------- MODULE MCOcb2 -------------------------------
(***************************************************************************)
(* An instance of Ocb2 for TLC: a nonce byte of 3 bits, two connections.   *)
(* The first one passes the wrap of the byte; the second starts high *)
(* enough for no nonce to be used under both keys.                         *)
(***************************************************************************)
EXTENDS Ocb2

MCKeys  == {1, 2}
MCStart == [k \in MCKeys |-> IF k = 1 THEN [hi |-> 0, lo |-> 5] ELSE [hi |-> 4, lo |-> 6]]
MCSends == [k \in MCKeys |-> IF k = 1 THEN 9 ELSE 2]
=============================================================================
