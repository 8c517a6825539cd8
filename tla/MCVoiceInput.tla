---------------------------- MODULE MCVoiceInput ----------------------------
(***************************************************************************)
(* Values at the limits of the forms of a VarInt, a user who is not in the *)
(* map, and frames with a one- and a two-byte length.                      *)
(***************************************************************************)
EXTENDS VoiceInput

MCKnown    == {Small(5), Small(128)}
MCSessions == MCKnown \cup {Small(16384)}
MCNumbers  == {Small(127), [neg |-> FALSE, mag |-> <<0, 0, 0, 0, 0, 32, 0, 0>>],
               [neg |-> FALSE, mag |-> <<0, 0, 0, 1, 0, 0, 0, 0>>]}
=============================================================================
