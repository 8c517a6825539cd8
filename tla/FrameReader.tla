---------------------------- MODULE FrameReader -----------------------------
(***************************************************************************)
(* How Control:Listen gets messages out of the TCP stream:                 *)
(* ControlStack._read_control_messages and the part of connect() that      *)
(* touches receive_buffer.  TCP cuts the stream anywhere; the content of a *)
(* byte is where in which stream it was sent.  Message m of connection c   *)
(* ends before Edge[c][m]: 6 bytes of header, then its content.            *)
(***************************************************************************)
EXTENDS Integers, Sequences

CONSTANTS Connections,  \* bound: connections in one behaviour
          Count,        \* Count[c]: messages the server sends on connection c
          Edge,         \* Edge[c][m]: where the first m messages end
          ReadSize,     \* READ_BUFFER_SIZE
          Misread       \* sizes that 6 bytes which are no header may stand for

ASSUME StreamAssumption ==
    /\ Connections \in Nat /\ ReadSize \in Nat \ {0} /\ Misread \subseteq Nat
    /\ Count \in [1..Connections -> Nat]
    /\ \A c \in 1..Connections :
        /\ Edge[c] \in [0..Count[c] -> Nat] /\ Edge[c][0] = 0
        /\ \A m, n \in 0..Count[c] : m < n => Edge[c][n] >= Edge[c][m] + 6

VARIABLES
    conn,            \* connect() calls so far
    taken,           \* bytes recv() has returned on this connection
    receive_buffer,
    reading,         \* "off", "recv", "drain"
    done,            \* history: messages dispatched on this connection
    last             \* history: the bytes dispatched last, with their header

readerVars == <<conn, taken, receive_buffer, reading, done, last>>

Octet(c, i)       == [conn |-> c, at |-> i]
Piece(c, from, n) == [i \in 1..n |-> Octet(c, from + i - 1)]
MessageOctets(c, m) == Piece(c, Edge[c][m - 1], Edge[c][m] - Edge[c][m - 1])

ReaderInit == conn = 0 /\ taken = 0 /\ receive_buffer = <<>> /\ reading = "off"
              /\ done = 0 /\ last = <<>>

\* Mutant of Connect: what the last connection left stays in the buffer.
ConnectKeeping ==
    /\ reading = "off" /\ conn < Connections
    /\ conn' = conn + 1 /\ taken' = 0 /\ done' = 0
    /\ reading' = "recv"
    /\ UNCHANGED <<receive_buffer, last>>

\* connect(), which loop() calls once Control:Listen has ended.
Connect ==
    /\ reading = "off" /\ conn < Connections
    /\ conn' = conn + 1 /\ taken' = 0 /\ done' = 0
    /\ receive_buffer' = <<>> /\ reading' = "recv"
    /\ UNCHANGED last

\* recv() returns up to n bytes, or none at the end of the stream.
Recv(n) ==
    /\ reading = "recv" /\ taken + n <= Edge[conn][Count[conn]]
    /\ receive_buffer' = receive_buffer \o Piece(conn, taken, n)
    /\ taken' = taken + n
    /\ reading' = "drain"
    /\ UNCHANGED <<conn, done, last>>

\* recv() fails, or the status or _disconnect ends the loop of _listen().
Fail == /\ reading = "recv" /\ reading' = "off"
        /\ UNCHANGED <<conn, taken, receive_buffer, done, last>>

\* The messages whose header the first six bytes are.
Headers == {cm \in UNION {{c} \X (1..Count[c]) : c \in 1..Connections} :
              SubSeq(receive_buffer, 1, 6) = Piece(cm[1], Edge[cm[1]][cm[2] - 1], 6)}
Length(cm) == Edge[cm[1]][cm[2]] - Edge[cm[1]][cm[2] - 1]
\* What the buffer must hold: a header, then the size + 6 of unpack().
Wanted == IF Len(receive_buffer) < 6 THEN {6}
          ELSE IF Headers = {} THEN {6 + n : n \in Misread}
          ELSE {Length(cm) : cm \in Headers}

\* Mutant of Drained: a message that ends with the buffer waits for the next recv().
DrainedLate ==
    /\ reading = "drain" /\ \E n \in Wanted : Len(receive_buffer) <= n
    /\ reading' = "recv"
    /\ UNCHANGED <<conn, taken, receive_buffer, done, last>>

Drained ==
    /\ reading = "drain" /\ \E n \in Wanted : Len(receive_buffer) < n
    /\ reading' = "recv"
    /\ UNCHANGED <<conn, taken, receive_buffer, done, last>>

\* Mutant of Cut: the last byte of the message is left in the buffer.
CutShort(n) == SubSeq(receive_buffer, n, Len(receive_buffer))

Cut(n) == SubSeq(receive_buffer, n + 1, Len(receive_buffer))

\* One turn of the loop; the handler may raise, which ends the thread.
Dispatch ==
    /\ reading = "drain"
    /\ \E n \in Wanted :
        /\ Len(receive_buffer) >= n
        /\ last' = SubSeq(receive_buffer, 1, n)
        /\ receive_buffer' = Cut(n)
    /\ done' = done + 1
    /\ reading' \in {"drain", "off"}
    /\ UNCHANGED <<conn, taken>>

ReaderNext == Connect \/ (\E n \in 0..ReadSize : Recv(n)) \/ Fail \/ Drained \/ Dispatch

ReaderSpec == ReaderInit /\ [][ReaderNext]_readerVars

(***************************************************************************)
(* What the reader guarantees.                                             *)
(***************************************************************************)
Stream == INSTANCE MessageStream WITH Message <- MessageOctets

(* control.py:199-224 with :114: however TCP cuts the stream, whatever raises
   between two messages and however often the client reconnects, what is
   dispatched is the sequence of whole messages of the current connection:
   no byte of an old connection gets into a message of a new one. *)
ImplementsMessageStream == Stream!StreamSpec

(* The reader never waits for more bytes while a whole message is in its
   buffer: a ServerSync or the answer to a ping is not held back until the
   server happens to send something else. *)
NothingKeptBack ==
    reading = "recv" /\ done < Count[conn] => taken < Edge[conn][done + 1]

(* What lies behind both: the buffer is what was received and not yet
   dispatched, byte by byte, also after a handler has raised between two
   messages. *)
BufferIsRest ==
    conn > 0 => /\ done \in 0..Count[conn]
                /\ receive_buffer = Piece(conn, Edge[conn][done], taken - Edge[conn][done])
=============================================================================
