------------------------- MODULE FrameReaderProofs --------------------------
(***************************************************************************)
(* Proofs about FrameReader, for any messages, any READ_BUFFER_SIZE and    *)
(* any cutting of the stream.                                              *)
(***************************************************************************)
EXTENDS FrameReader, SequenceTheorems, TLAPS

Octets == [conn : Nat, at : Nat]

(* A piece of the stream is a sequence of its length. *)
LEMMA PieceIsSeq ==
    ASSUME NEW c \in Nat, NEW f \in Nat, NEW n \in Nat, NEW p, p = Piece(c, f, n)
    PROVE  p \in Seq(Octets) /\ Len(p) = n
  <1>1. p = [i \in 1..n |-> [conn |-> c, at |-> f + i - 1]]
    BY DEF Piece, Octet
  <1>2. \A i \in 1..n : [conn |-> c, at |-> f + i - 1] \in Octets
    BY DEF Octets
  <1>3. p \in [1..n -> Octets]
    BY <1>1, <1>2, Zenon
  <1>4. p \in Seq(Octets)
    BY <1>3, SeqDef, Zenon
  <1> QED
    BY <1>3, <1>4

(* The front of a piece is a piece. *)
LEMMA FrontOfPiece ==
    ASSUME NEW c \in Nat, NEW f \in Nat, NEW n \in Nat, NEW b \in 0..n,
           NEW p, p = Piece(c, f, n)
    PROVE  SubSeq(p, 1, b) = Piece(c, f, b)
  <1> DEFINE s == SubSeq(p, 1, b)
             q == Piece(c, f, b)
  <1>1. q \in Seq(Octets) /\ Len(q) = b
    BY PieceIsSeq
  <1>2. ASSUME NEW i \in 1..b PROVE p[i] \in Octets
    <2>1. p \in Seq(Octets) /\ i \in 1..Len(p)
      BY PieceIsSeq
    <2> QED
      BY <2>1, ElementOfSeq
  <1>3. /\ s \in Seq(Octets) /\ Len(s) = b
        /\ \A i \in 1..b - 1 + 1 : s[i] = p[1 + i - 1]
    <2>1. b = IF 1 <= b THEN b - 1 + 1 ELSE 0
      OBVIOUS
    <2>2. /\ s \in Seq(Octets) /\ Len(s) = IF 1 <= b THEN b - 1 + 1 ELSE 0
          /\ \A i \in 1..b - 1 + 1 : s[i] = p[1 + i - 1]
      BY <1>2, SubSeqProperties
    <2> QED
      BY <2>1, <2>2
  <1>4. ASSUME NEW i \in 1..b PROVE s[i] = q[i]
    <2>1. i \in 1..n /\ i \in 1..b - 1 + 1 /\ 1 + i - 1 = i
      OBVIOUS
    <2>2. s[i] = p[i]
      BY <1>3, <2>1
    <2>3. p[i] = q[i]
      BY <2>1 DEF Piece
    <2> QED
      BY <2>2, <2>3
  <1>5. Len(s) = Len(q) /\ \A i \in 1..Len(s) : s[i] = q[i]
    BY <1>1, <1>3, <1>4
  <1> HIDE DEF s, q
  <1>6. s = q
    BY <1>1, <1>3, <1>5, SeqEqual
  <1> QED
    BY <1>6 DEF s, q

(* Its first six bytes are. *)
LEMMA HeaderOfPiece ==
    ASSUME NEW c \in Nat, NEW f \in Nat, NEW n \in Nat, 6 <= n, NEW p, p = Piece(c, f, n)
    PROVE  SubSeq(p, 1, 6) = Piece(c, f, 6)
  <1>1. PICK b : b = 6
    OBVIOUS
  <1>2. b \in 0..n
    BY <1>1
  <1>3. SubSeq(p, 1, b) = Piece(c, f, b)
    BY <1>2, FrontOfPiece
  <1> QED
    BY <1>1, <1>3, Zenon

(* The rest of a piece is a piece. *)
LEMMA RestOfPiece ==
    ASSUME NEW c \in Nat, NEW f \in Nat, NEW n \in Nat, NEW b \in 0..n,
           NEW p, p = Piece(c, f, n)
    PROVE  SubSeq(p, b + 1, n) = Piece(c, f + b, n - b)
  <1> DEFINE a == b + 1
             s == SubSeq(p, a, n)
             q == Piece(c, f + b, n - b)
  <1>1. q \in Seq(Octets) /\ Len(q) = n - b
    <2> DEFINE g == f + b
               k == n - b
    <2>1. g \in Nat /\ k \in Nat
      OBVIOUS
    <2> HIDE DEF g, k
    <2>2. Piece(c, g, k) \in Seq(Octets) /\ Len(Piece(c, g, k)) = k
      BY <2>1, PieceIsSeq
    <2> QED
      BY <2>2, Zenon DEF g, k
  <1>2. ASSUME NEW i \in a..n PROVE p[i] \in Octets
    <2>1. p \in Seq(Octets) /\ i \in 1..Len(p)
      BY PieceIsSeq
    <2> QED
      BY <2>1, ElementOfSeq
  <1>3. /\ s \in Seq(Octets) /\ Len(s) = n - b
        /\ \A i \in 1..n - a + 1 : s[i] = p[a + i - 1]
    <2>1. a \in Int /\ n - b = IF a <= n THEN n - a + 1 ELSE 0
      OBVIOUS
    <2>2. /\ s \in Seq(Octets) /\ Len(s) = IF a <= n THEN n - a + 1 ELSE 0
          /\ \A i \in 1..n - a + 1 : s[i] = p[a + i - 1]
      <3> HIDE DEF a
      <3> QED
        BY <1>2, <2>1, SubSeqProperties
    <2> QED
      BY <2>1, <2>2
  <1>4. ASSUME NEW i \in 1..n - b PROVE s[i] = q[i]
    <2>1. a + i - 1 \in 1..n /\ i \in 1..n - a + 1
      OBVIOUS
    <2>2. s[i] = p[a + i - 1]
      BY <1>3, <2>1
    <2>3. p[a + i - 1] = Octet(c, f + (a + i - 1) - 1)
      BY <2>1 DEF Piece
    <2>4. q[i] = Octet(c, f + b + i - 1)
      BY DEF Piece
    <2>5. f + (a + i - 1) - 1 = f + b + i - 1
      OBVIOUS
    <2> QED
      BY <2>2, <2>3, <2>4, <2>5
  <1>5. Len(s) = Len(q) /\ \A i \in 1..Len(s) : s[i] = q[i]
    BY <1>1, <1>3, <1>4
  <1> HIDE DEF s, q
  <1>6. s = q
    BY <1>1, <1>3, <1>5, SeqEqual
  <1> QED
    BY <1>6 DEF s, q

(* A piece is cut into two. *)
LEMMA CutPiece ==
    \A c, f, n \in Nat : \A b \in 0..n :
        /\ SubSeq(Piece(c, f, n), 1, b) = Piece(c, f, b)
        /\ SubSeq(Piece(c, f, n), b + 1, n) = Piece(c, f + b, n - b)
  <1> TAKE c, f, n \in Nat
  <1> TAKE b \in 0..n
  <1>1. PICK p : p = Piece(c, f, n)
    OBVIOUS
  <1>2. SubSeq(p, 1, b) = Piece(c, f, b)
    BY <1>1, FrontOfPiece
  <1>3. SubSeq(p, b + 1, n) = Piece(c, f + b, n - b)
    BY <1>1, RestOfPiece
  <1> QED
    BY <1>1, <1>2, <1>3, Zenon

(* Pieces that follow each other make one piece. *)
LEMMA PiecesJoin ==
    \A c, f, n, k \in Nat : Piece(c, f, n) \o Piece(c, f + n, k) = Piece(c, f, n + k)
  <1> TAKE c, f, n, k \in Nat
  <1>0. PICK p, q : p = Piece(c, f, n) /\ q = Piece(c, f + n, k)
    OBVIOUS
  <1> DEFINE r == Piece(c, f, n + k)
  <1>1. p \in Seq(Octets) /\ Len(p) = n
    BY <1>0, PieceIsSeq
  <1>2. q \in Seq(Octets) /\ Len(q) = k
    <2>1. f + n \in Nat
      OBVIOUS
    <2> QED
      BY <1>0, <2>1, PieceIsSeq
  <1>3. r \in Seq(Octets) /\ Len(r) = n + k
    <2>1. n + k \in Nat
      OBVIOUS
    <2> QED
      BY <2>1, PieceIsSeq
  <1>4. /\ p \o q \in Seq(Octets) /\ Len(p \o q) = n + k
        /\ \A i \in 1..n + k : (p \o q)[i] = IF i <= n THEN p[i] ELSE q[i - n]
    <2>1. /\ p \o q \in Seq(Octets) /\ Len(p \o q) = Len(p) + Len(q)
          /\ \A i \in 1..Len(p) + Len(q) :
                (p \o q)[i] = IF i <= Len(p) THEN p[i] ELSE q[i - Len(p)]
      BY <1>1, <1>2, ConcatProperties, Zenon
    <2> QED
      BY <1>1, <1>2, <2>1
  <1>5. ASSUME NEW i \in 1..n + k PROVE (p \o q)[i] = r[i]
    <2>1. r[i] = Octet(c, f + i - 1)
      BY DEF Piece
    <2>2. CASE i <= n
      <3>1. p[i] = Octet(c, f + i - 1)
        BY <1>0, <2>2 DEF Piece
      <3> QED
        BY <1>4, <2>1, <2>2, <3>1
    <2>3. CASE ~(i <= n)
      <3>1. i - n \in 1..k /\ f + n + (i - n) - 1 = f + i - 1
        BY <2>3
      <3>2. q[i - n] = Octet(c, f + n + (i - n) - 1)
        BY <1>0, <3>1 DEF Piece
      <3> QED
        BY <1>4, <2>1, <2>3, <3>1, <3>2
    <2> QED
      BY <2>2, <2>3
  <1> HIDE DEF r
  <1>6. p \o q = r
    BY <1>3, <1>4, <1>5, SeqEqual
  <1> QED
    BY <1>0, <1>6, Zenon DEF r

(***************************************************************************)
(* The invariant: Edge tells where the reader is in the stream.            *)
(***************************************************************************)
IInv ==
    /\ conn \in 0..Connections
    /\ reading \in {"off", "recv", "drain"}
    /\ conn = 0 => reading = "off" /\ done = 0
    /\ conn > 0 => /\ taken \in Nat
                   /\ Edge[conn][done] <= taken /\ taken <= Edge[conn][Count[conn]]
    /\ BufferIsRest
    /\ NothingKeptBack

(* A header is where a message begins, and is the header of no other. *)
LEMMA OneHeader ==
    ASSUME NEW c \in 1..Connections, NEW m \in 1..Count[c],
           SubSeq(receive_buffer, 1, 6) = Piece(c, Edge[c][m - 1], 6)
    PROVE  Headers = {<<c, m>>}
  <1>1. \A d \in 1..Connections : Count[d] \in Nat /\ Edge[d] \in [0..Count[d] -> Nat]
    BY StreamAssumption
  <1>2. <<c, m>> \in Headers
    BY DEF Headers
  <1>3. ASSUME NEW d \in 1..Connections, NEW n \in 1..Count[d],
               Piece(c, Edge[c][m - 1], 6) = Piece(d, Edge[d][n - 1], 6)
        PROVE  d = c /\ n = m
    <2>1. Edge[c][m - 1] \in Nat /\ Edge[d][n - 1] \in Nat
      <3>1. m - 1 \in 0..Count[c] /\ n - 1 \in 0..Count[d]
        BY <1>1
      <3> QED
        BY <1>1, <3>1
    <2>2. Octet(c, Edge[c][m - 1]) = Octet(d, Edge[d][n - 1])
      <3>1. /\ Piece(c, Edge[c][m - 1], 6)[1] = Octet(c, Edge[c][m - 1] + 1 - 1)
            /\ Piece(d, Edge[d][n - 1], 6)[1] = Octet(d, Edge[d][n - 1] + 1 - 1)
        BY DEF Piece
      <3> QED
        BY <1>3, <2>1, <3>1
    <2>3. c = d /\ Edge[c][m - 1] = Edge[d][n - 1]
      BY <2>2 DEF Octet
    <2>4. m - 1 \in 0..Count[c] /\ n - 1 \in 0..Count[c]
      BY <1>1, <2>3
    <2>5. \A i, j \in 0..Count[c] : i < j => Edge[c][j] >= Edge[c][i] + 6
      BY StreamAssumption
    <2>6. m - 1 = n - 1
      BY <2>1, <2>3, <2>4, <2>5
    <2> QED
      BY <1>1, <2>3, <2>6
  <1>4. \A cm \in Headers : cm = <<c, m>>
    BY <1>3 DEF Headers
  <1> QED
    BY <1>2, <1>4


(* What the loop of the reader finds: with at least a header in the buffer it
   waits for exactly the message that comes next. *)
LEMMA NextMessage ==
    ASSUME IInv, conn > 0
    PROVE  /\ conn \in 1..Connections /\ done \in 0..Count[conn]
           /\ Edge[conn][done] \in Nat /\ taken - Edge[conn][done] \in Nat
           /\ Len(receive_buffer) = taken - Edge[conn][done]
           /\ Len(receive_buffer) < 6 => Wanted = {6}
           /\ Len(receive_buffer) >= 6 =>
                /\ done + 1 \in 1..Count[conn] /\ Edge[conn][done + 1] \in Nat
                /\ Wanted = {Edge[conn][done + 1] - Edge[conn][done]}
  <1> DEFINE e == Edge[conn][done]
             n == taken - e
  <1>1. /\ conn \in 1..Connections /\ done \in 0..Count[conn] /\ taken \in Nat
        /\ Count[conn] \in Nat /\ Edge[conn] \in [0..Count[conn] -> Nat]
    BY StreamAssumption DEF IInv, BufferIsRest
  <1>2. e \in Nat /\ n \in Nat /\ taken <= Edge[conn][Count[conn]]
    BY <1>1 DEF IInv
  <1>3. receive_buffer = Piece(conn, e, n) /\ conn \in Nat
    BY <1>1 DEF IInv, BufferIsRest
  <1>4. Len(receive_buffer) = n
    BY <1>2, <1>3, PieceIsSeq
  <1>5. Len(receive_buffer) < 6 => Wanted = {6}
    BY DEF Wanted
  <1>6. ASSUME Len(receive_buffer) >= 6
        PROVE  /\ done + 1 \in 1..Count[conn] /\ Edge[conn][done + 1] \in Nat
               /\ Wanted = {Edge[conn][done + 1] - e}
    <2>1. done # Count[conn]
      BY <1>1, <1>2, <1>4, <1>6
    <2>2. done + 1 \in 1..Count[conn] /\ done + 1 \in 0..Count[conn]
      BY <1>1, <2>1
    <2>3. Edge[conn][done + 1] \in Nat
      BY <1>1, <2>2
    <2>4. SubSeq(receive_buffer, 1, 6) = Piece(conn, Edge[conn][(done + 1) - 1], 6)
      <3>1. SubSeq(receive_buffer, 1, 6) = Piece(conn, e, 6)
        BY <1>2, <1>3, <1>4, <1>6, HeaderOfPiece
      <3>2. (done + 1) - 1 = done
        BY <1>1
      <3> QED
        BY <3>1, <3>2
    <2>5. Headers = {<<conn, done + 1>>}
      BY <1>1, <2>2, <2>4, OneHeader
    <2>6. Wanted = {Length(<<conn, done + 1>>)}
      BY <1>4, <1>2, <1>6, <2>5 DEF Wanted
    <2>7. Length(<<conn, done + 1>>) = Edge[conn][done + 1] - e
      BY <1>1 DEF Length
    <2> QED
      BY <2>2, <2>3, <2>6, <2>7
  <1> QED
    BY <1>1, <1>2, <1>4, <1>5, <1>6

(* A turn of the loop takes the next message out of the buffer, whole. *)
LEMMA DispatchesNext ==
    ASSUME IInv, Dispatch, conn > 0
    PROVE  /\ done + 1 \in 1..Count[conn]
           /\ last' = MessageOctets(conn, done + 1)
           /\ Edge[conn][done + 1] <= taken
           /\ receive_buffer' = Piece(conn, Edge[conn][done + 1], taken - Edge[conn][done + 1])
  <1> DEFINE e == Edge[conn][done]
             f == Edge[conn][done + 1]
             n == taken - e
             b == f - e
             g == taken - f
  <1>1. /\ conn \in 1..Connections /\ done \in 0..Count[conn]
        /\ e \in Nat /\ n \in Nat /\ Len(receive_buffer) = n
        /\ Len(receive_buffer) < 6 => Wanted = {6}
    BY NextMessage
  <1>2. Len(receive_buffer) >= 6
    BY <1>1 DEF Dispatch
  <1>3. done + 1 \in 1..Count[conn] /\ f \in Nat /\ Wanted = {b}
    BY <1>2, NextMessage
  <1>4. n >= b /\ last' = SubSeq(receive_buffer, 1, b) /\ receive_buffer' = Cut(b)
    BY <1>1, <1>3 DEF Dispatch
  <1>5. f >= e + 6
    <2>1. \A i, j \in 0..Count[conn] : i < j => Edge[conn][j] >= Edge[conn][i] + 6
      BY <1>1, StreamAssumption
    <2>2. done + 1 \in 0..Count[conn] /\ done < done + 1
      BY <1>1, <1>3
    <2> QED
      BY <1>1, <2>1, <2>2
  <1>6. receive_buffer = Piece(conn, e, n) /\ conn \in Nat /\ taken \in Nat
    BY <1>1 DEF IInv, BufferIsRest
  <1>7. e <= f /\ f <= taken
    BY <1>1, <1>3, <1>4, <1>5, <1>6
  <1>8. receive_buffer' = SubSeq(receive_buffer, b + 1, n)
    BY <1>1, <1>4 DEF Cut
  <1>9. MessageOctets(conn, done + 1) = Piece(conn, e, b)
    <2>1. (done + 1) - 1 = done
      BY <1>1
    <2> QED
      BY <2>1 DEF MessageOctets
  <1>10. n = taken - e /\ b = f - e /\ g = taken - f
    OBVIOUS
  <1> HIDE DEF e, f, n, b, g
  <1>11. b \in 0..n /\ e + b = f /\ n - b = g
    BY <1>1, <1>3, <1>6, <1>7, <1>10
  <1>12. /\ SubSeq(receive_buffer, 1, b) = Piece(conn, e, b)
         /\ SubSeq(receive_buffer, b + 1, n) = Piece(conn, e + b, n - b)
    <2>1. conn \in Nat /\ e \in Nat /\ n \in Nat
      BY <1>1, <1>6
    <2>2. /\ SubSeq(Piece(conn, e, n), 1, b) = Piece(conn, e, b)
          /\ SubSeq(Piece(conn, e, n), b + 1, n) = Piece(conn, e + b, n - b)
      BY <2>1, <1>11, CutPiece, Zenon
    <2> QED
      BY <1>6, <2>2, Zenon
  <1>13. /\ last' = MessageOctets(conn, done + 1)
         /\ receive_buffer' = Piece(conn, f, g)
    BY <1>4, <1>8, <1>9, <1>11, <1>12, Zenon
  <1> QED
    BY <1>3, <1>7, <1>13, Zenon DEF f, g
(***************************************************************************)
(* Every step keeps the invariant.                                         *)
(***************************************************************************)
LEMMA InitIInv == ReaderInit => IInv
  BY StreamAssumption DEF ReaderInit, IInv, BufferIsRest, NothingKeptBack

LEMMA ConnectStep ==
    ASSUME IInv, Connect
    PROVE  IInv'
  <1>1. conn' \in 1..Connections /\ taken' = 0 /\ done' = 0 /\ reading' = "recv"
    BY StreamAssumption DEF Connect, IInv
  <1>2. /\ Count[conn'] \in Nat /\ Edge[conn'] \in [0..Count[conn'] -> Nat]
        /\ Edge[conn'][0] = 0
        /\ \A m, n \in 0..Count[conn'] : m < n => Edge[conn'][n] >= Edge[conn'][m] + 6
    BY <1>1, StreamAssumption
  <1>3. receive_buffer' = Piece(conn', Edge[conn'][done'], taken' - Edge[conn'][done'])
    <2>1. receive_buffer' = <<>>
      BY DEF Connect
    <2>2. taken' - Edge[conn'][done'] = 0
      BY <1>1, <1>2
    <2>3. Piece(conn', Edge[conn'][done'], 0) = <<>>
      BY DEF Piece
    <2> QED
      BY <2>1, <2>2, <2>3, Zenon
  <1>4. (done < Count[conn] => taken < Edge[conn][done + 1])'
    BY <1>1, <1>2
  <1> QED
    BY <1>1, <1>2, <1>3, <1>4 DEF IInv, BufferIsRest, NothingKeptBack

LEMMA RecvStep ==
    ASSUME IInv, NEW n \in 0..ReadSize, Recv(n)
    PROVE  IInv'
  <1> DEFINE e == Edge[conn][done]
             k == taken - e
  <1>1. conn > 0
    BY DEF Recv, IInv
  <1>2. /\ conn \in 1..Connections /\ done \in 0..Count[conn] /\ e \in Nat /\ k \in Nat
        /\ taken \in Nat /\ n \in Nat /\ e <= taken
    BY <1>1, NextMessage, StreamAssumption DEF IInv
  <1>3. /\ conn' = conn /\ done' = done /\ reading' = "drain"
        /\ taken' = taken + n /\ taken' <= Edge[conn][Count[conn]]
    BY DEF Recv
  <1>4. receive_buffer' = Piece(conn, e, k + n)
    <2>1. receive_buffer = Piece(conn, e, k)
      BY <1>1 DEF IInv, BufferIsRest
    <2>2. receive_buffer' = receive_buffer \o Piece(conn, taken, n)
      BY Zenon DEF Recv
    <2>5. ASSUME NEW t \in Nat, NEW i \in Nat PROVE t = i + (t - i)
      OBVIOUS
    <2>6. taken = e + k
      BY <1>2, <2>5, Zenon
    <2>3. conn \in Nat
      BY <1>2
    <2> HIDE DEF e, k
    <2>4. Piece(conn, e, k) \o Piece(conn, e + k, n) = Piece(conn, e, k + n)
      <3>1. e \in Nat /\ k \in Nat /\ n \in Nat
        BY <1>2, Zenon
      <3> QED
        BY <2>3, <3>1, PiecesJoin, Zenon
    <2> QED
      BY <2>1, <2>2, <2>4, <2>6, Zenon
  <1>5. k + n = taken + n - e
    BY <1>2
  <1>6. BufferIsRest'
    BY <1>2, <1>3, <1>4, <1>5 DEF BufferIsRest
  <1> QED
    BY <1>1, <1>2, <1>3, <1>6 DEF IInv, NothingKeptBack

LEMMA DrainedStep ==
    ASSUME IInv, Drained
    PROVE  IInv'
  <1> DEFINE e == Edge[conn][done]
  <1>1. conn > 0 /\ conn' = conn /\ done' = done /\ reading' = "recv"
        /\ taken' = taken /\ receive_buffer' = receive_buffer
    BY DEF Drained, IInv
  <1>2. /\ conn \in 1..Connections /\ done \in 0..Count[conn] /\ e \in Nat
        /\ taken - e \in Nat /\ Len(receive_buffer) = taken - e
    BY <1>1, NextMessage
  <1>3. ASSUME done < Count[conn] PROVE taken < Edge[conn][done + 1]
    <2>1. done + 1 \in 0..Count[conn] /\ done < done + 1
      BY <1>2, <1>3, StreamAssumption
    <2>2. Edge[conn][done + 1] >= e + 6 /\ Edge[conn][done + 1] \in Nat
      BY <1>2, <2>1, StreamAssumption
    <2>3. taken \in Nat
      BY <1>1 DEF IInv
    <2>4. CASE Len(receive_buffer) < 6
      BY <1>2, <2>2, <2>3, <2>4
    <2>5. CASE Len(receive_buffer) >= 6
      <3>1. Wanted = {Edge[conn][done + 1] - e}
        BY <1>1, <2>5, NextMessage
      <3>2. Len(receive_buffer) < Edge[conn][done + 1] - e
        BY <3>1 DEF Drained
      <3> QED
        BY <1>2, <2>2, <2>3, <3>2
    <2> QED
      BY <1>2, <2>4, <2>5
  <1> QED
    BY <1>1, <1>2, <1>3 DEF IInv, BufferIsRest, NothingKeptBack

LEMMA DispatchStep ==
    ASSUME IInv, Dispatch
    PROVE  IInv'
  <1>1. conn > 0 /\ conn' = conn /\ done' = done + 1 /\ taken' = taken
        /\ reading' \in {"drain", "off"}
    BY DEF Dispatch, IInv
  <1>2. /\ done + 1 \in 1..Count[conn] /\ Edge[conn][done + 1] <= taken
        /\ receive_buffer' = Piece(conn, Edge[conn][done + 1], taken - Edge[conn][done + 1])
    BY <1>1, DispatchesNext
  <1>3. conn \in 1..Connections /\ done + 1 \in 0..Count[conn]
    BY <1>1, <1>2, NextMessage
  <1>4. BufferIsRest'
    BY <1>1, <1>2, <1>3, Zenon DEF BufferIsRest
  <1> QED
    BY <1>1, <1>2, <1>3, <1>4 DEF IInv, NothingKeptBack

LEMMA NextIInv == IInv /\ [ReaderNext]_readerVars => IInv'
  <1> SUFFICES ASSUME IInv, [ReaderNext]_readerVars PROVE IInv'
    OBVIOUS
  <1>1. CASE Connect
    BY <1>1, ConnectStep
  <1>2. ASSUME NEW n \in 0..ReadSize, Recv(n) PROVE IInv'
    BY <1>2, RecvStep
  <1>3. CASE Fail
    BY <1>3 DEF Fail, IInv, BufferIsRest, NothingKeptBack
  <1>4. CASE Drained
    BY <1>4, DrainedStep
  <1>5. CASE Dispatch
    BY <1>5, DispatchStep
  <1>6. CASE UNCHANGED readerVars
    BY <1>6 DEF readerVars, IInv, BufferIsRest, NothingKeptBack
  <1> QED
    BY <1>1, <1>2, <1>3, <1>4, <1>5, <1>6 DEF ReaderNext

(* The reader knows at every step where in the stream it is. *)
THEOREM Invariant == ReaderSpec => []IInv
  BY InitIInv, NextIInv, PTL DEF ReaderSpec

(* BufferIsRest of every behaviour: nothing that was received is lost, kept
   twice or mixed with another connection. *)
THEOREM BufferAlwaysRest == ReaderSpec => []BufferIsRest
  <1>1. IInv => BufferIsRest
    BY DEF IInv
  <1> QED
    BY <1>1, Invariant, PTL

(* NothingKeptBack of every behaviour: the reader asks for more only while it
   holds no whole message. *)
THEOREM NeverKeptBack == ReaderSpec => []NothingKeptBack
  <1>1. IInv => NothingKeptBack
    BY DEF IInv
  <1> QED
    BY <1>1, Invariant, PTL

(* The reader implements MessageStream: each step dispatches the next message
   of the connection, opens the next connection, or shows nothing. *)
THEOREM Refinement == ReaderSpec => ImplementsMessageStream
  <1>1. ReaderInit => Stream!StreamInit
    BY DEF ReaderInit, Stream!StreamInit
  <1>2. IInv /\ [ReaderNext]_readerVars
          => [Stream!Connected \/ Stream!Dispatched]_(Stream!streamVars)
    <2> SUFFICES ASSUME IInv, [ReaderNext]_readerVars
                 PROVE  [Stream!Connected \/ Stream!Dispatched]_(Stream!streamVars)
      OBVIOUS
    <2>1. CASE Connect
      BY <2>1 DEF Connect, Stream!Connected
    <2>2. CASE Dispatch
      <3>1. conn > 0 /\ conn' = conn /\ done' = done + 1
        BY <2>2 DEF Dispatch, IInv
      <3>2. /\ done + 1 \in 1..Count[conn] /\ last' = MessageOctets(conn, done + 1)
            /\ done \in 0..Count[conn] /\ Count[conn] \in Nat
        BY <2>2, <3>1, DispatchesNext, NextMessage, StreamAssumption
      <3>3. done < Count[conn] /\ last' = MessageOctets(conn, done')
        BY <3>1, <3>2
      <3>4. Stream!Dispatched
        BY <3>1, <3>3 DEF Stream!Dispatched
      <3> QED
        BY <3>4
    <2>3. CASE (\E n \in 0..ReadSize : Recv(n)) \/ Fail \/ Drained \/ UNCHANGED readerVars
      <3>1. UNCHANGED <<conn, done, last>>
        BY <2>3 DEF Recv, Fail, Drained, readerVars
      <3> QED
        BY <3>1 DEF Stream!streamVars
    <2> QED
      BY <2>1, <2>2, <2>3 DEF ReaderNext
  <1> QED
    BY <1>1, <1>2, Invariant, PTL
      DEF ReaderSpec, ImplementsMessageStream, Stream!StreamSpec

=============================
