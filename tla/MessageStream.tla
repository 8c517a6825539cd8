--------------------------- MODULE MessageStream ----------------------------
(***************************************************************************)
(* What the reader of the control channel promises: the messages of a      *)
(* connection are dispatched one at a time, complete, in the order the     *)
(* server sent them and without a gap, from the first one on.              *)
(***************************************************************************)
EXTENDS Integers

CONSTANTS Connections,  \* bound: connections in one behaviour
          Count,        \* Count[c]: messages the server sends on connection c
          Message(_, _) \* Message(c, m): what is dispatched for message m of connection c

VARIABLES conn,   \* the connection being read
          done,   \* its messages dispatched so far
          last    \* what was dispatched last

streamVars == <<conn, done, last>>

StreamInit == conn = 0 /\ done = 0 /\ last = <<>>

Connected == /\ conn < Connections
             /\ conn' = conn + 1 /\ done' = 0
             /\ UNCHANGED last

Dispatched == /\ conn > 0 /\ done < Count[conn]
              /\ done' = done + 1 /\ last' = Message(conn, done')
              /\ UNCHANGED conn

StreamSpec == StreamInit /\ [][Connected \/ Dispatched]_streamVars
=============================================================================
