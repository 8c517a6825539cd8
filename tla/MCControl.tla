------------------------------ MODULE MCControl ------------------------------
(***************************************************************************)
(* An instance for TLC that holds two sets of behaviours in one state      *)
(* space: a command over two connections with peers that are lost, and, in *)
(* the first session only, a voice packet, a direct send and a blob        *)
(* request, with handlers that raise and resync requests from the server.  *)
(* Timeouts and stop() belong to both.                                     *)
(***************************************************************************)
EXTENDS ControlStackProps

\* What the second set begins with.
Extras == {x \in Audio \cup Direct : pc[x] # "idle"} \cup (submitted \cap Requests)

FirstSession == /\ epoch <= 1 /\ pc["loop"] # "wrap"
                /\ socket \notin {"lost", "reset", "broken"}

\* CONSTRAINT: the extras do not meet a command, a lost peer or a second connection.
ExtrasApart == Extras # {} => FirstSession /\ \A c \in Commands : pc[c] = "gate"

\* ACTION_CONSTRAINT: these two faults come with the extras.
FaultsWithExtras == HandleBad \/ HandleCryptRequest => Extras # {}
=============================================================================
