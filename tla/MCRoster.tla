------------------------------- MODULE MCRoster -------------------------------
(* Roster for TLC: sessions are alike, and so are the long blobs. *)
EXTENDS Roster, TLC

Alike == Permutations(SessionIds) \cup Permutations(Long)

\* Behaviours in which comments and pictures change, and those in which
\* descriptions do: they have tables of their own and meet in the queues only.
Apart == \/ \A c \in ChannelIds : rooms[c].description = None /\ roomDb[c].hash \notin Long
         \/ \E b \in Long : blob = FirstBlobs(b)
=============================================================================
