-------------------------- MODULE VoiceInputProofs --------------------------
(***************************************************************************)
(* Proofs about voice packets, for all sessions, sequence numbers and      *)
(* frames.  First VarInt: decode() undoes encode(), for every 64-bit       *)
(* magnitude, either sign and whatever follows in the packet.  With that   *)
(* the reader of VoiceInput finds every length and frame where the writer  *)
(* put it.                                                                 *)
(***************************************************************************)
EXTENDS VoiceInput, TLAPS, FiniteSetTheorems, SequenceTheorems

(***************************************************************************)
(* Variable-length integers.                                               *)
(***************************************************************************)
(* What a width says of the magnitude that has it. *)
LEMMA WidthMeaning ==
    ASSUME NEW m \in Magnitude
    PROVE  \/ Width(m) = 1 /\ Zeros(m, 7) /\ m[8] < 128
           \/ Width(m) = 2 /\ Zeros(m, 6) /\ m[7] < 64
           \/ Width(m) = 3 /\ Zeros(m, 5) /\ m[6] < 32
           \/ Width(m) = 4 /\ Zeros(m, 4) /\ m[5] < 16
           \/ Width(m) = 5 /\ Zeros(m, 4)
           \/ Width(m) = 9
BY Zenon DEF Width

LEMMA ByteRange ==
    ASSUME NEW m \in Magnitude
    PROVE  /\ m[1] \in 0..255 /\ m[2] \in 0..255 /\ m[3] \in 0..255 /\ m[4] \in 0..255
           /\ m[5] \in 0..255 /\ m[6] \in 0..255 /\ m[7] \in 0..255 /\ m[8] \in 0..255
BY DEF Magnitude, Byte

(* Eight bytes in a row are the magnitude whose bytes they are. *)
LEMMA Assemble ==
    ASSUME NEW m \in Magnitude
    PROVE  m = <<m[1], m[2], m[3], m[4], m[5], m[6], m[7], m[8]>>
BY DEF Magnitude

LEMMA Leading ==
    ASSUME NEW m \in Magnitude
    PROVE  /\ Zeros(m, 4) => m[1] = 0 /\ m[2] = 0 /\ m[3] = 0 /\ m[4] = 0
           /\ Zeros(m, 5) => Zeros(m, 4) /\ m[5] = 0
           /\ Zeros(m, 6) => Zeros(m, 5) /\ m[6] = 0
           /\ Zeros(m, 7) => Zeros(m, 6) /\ m[7] = 0
           /\ Zeros(m, 8) => Zeros(m, 7) /\ m[8] = 0
BY DEF Zeros

(* The first byte of a number tells how many bytes it has. *)
LEMMA NeededBytes ==
    ASSUME NEW b \in Byte
    PROVE  /\ b \in 0..127 => Needed(b) = 1
           /\ b \in 128..191 => Needed(b) = 2
           /\ b \in 192..223 => Needed(b) = 3
           /\ b \in 224..239 => Needed(b) = 4
           /\ b \in 240..243 => Needed(b) = 5
           /\ b \in 244..247 => Needed(b) = 9
           /\ b \in 252..255 => Needed(b) = 1
BY DEF Needed, Byte

(* And where they are. *)
LEMMA BitsRead ==
    ASSUME NEW s, s[1] \in Byte
    PROVE  /\ s[1] \in 0..127 => Bits(s) = <<0, 0, 0, 0, 0, 0, 0, s[1]>>
           /\ s[1] \in 252..255 => Bits(s) = <<0, 0, 0, 0, 0, 0, 0, s[1] - 252>>
           /\ s[1] \in 128..191 => Bits(s) = <<0, 0, 0, 0, 0, 0, s[1] - 128, s[2]>>
           /\ s[1] \in 192..223 => Bits(s) = <<0, 0, 0, 0, 0, s[1] - 192, s[2], s[3]>>
           /\ s[1] \in 224..239 => Bits(s) = <<0, 0, 0, 0, s[1] - 224, s[2], s[3], s[4]>>
           /\ s[1] \in 240..243 => Bits(s) = <<0, 0, 0, 0, s[2], s[3], s[4], s[5]>>
           /\ s[1] \in 244..247 => Bits(s) = <<s[2], s[3], s[4], s[5], s[6], s[7], s[8], s[9]>>
<1>1. s[1] \in 0..127 => Bits(s) = <<0, 0, 0, 0, 0, 0, 0, s[1]>>
  BY DEF Bits, Byte
<1>2. s[1] \in 252..255 => Bits(s) = <<0, 0, 0, 0, 0, 0, 0, s[1] - 252>>
  BY DEF Bits, Byte
<1>3. s[1] \in 128..191 => Bits(s) = <<0, 0, 0, 0, 0, 0, s[1] - 128, s[2]>>
  BY DEF Bits, Byte
<1>4. s[1] \in 192..223 => Bits(s) = <<0, 0, 0, 0, 0, s[1] - 192, s[2], s[3]>>
  BY DEF Bits, Byte
<1>5. s[1] \in 224..239 => Bits(s) = <<0, 0, 0, 0, s[1] - 224, s[2], s[3], s[4]>>
  BY DEF Bits, Byte
<1>6. s[1] \in 240..243 => Bits(s) = <<0, 0, 0, 0, s[2], s[3], s[4], s[5]>>
  BY DEF Bits, Byte
<1>7. s[1] \in 244..247 => Bits(s) = <<s[2], s[3], s[4], s[5], s[6], s[7], s[8], s[9]>>
  BY DEF Bits, Byte
<1> QED
  BY <1>1, <1>2, <1>3, <1>4, <1>5, <1>6, <1>7

(* What stands before the rest of a packet stays where it is. *)
LEMMA Prepended ==
    ASSUME NEW t \in Seq(Byte), NEW rest \in Seq(Byte)
    PROVE  /\ t \o rest \in Seq(Byte) /\ Len(t \o rest) = Len(t) + Len(rest)
           /\ \A i \in 1..Len(t) : (t \o rest)[i] = t[i]
OBVIOUS

(* An encoded magnitude has the width its first byte tells, and its bits. *)
LEMMA UnsignedForm ==
    ASSUME NEW m \in Magnitude, NEW t, t = Unsigned(m)
    PROVE  /\ t \in Seq(Byte) /\ Len(t) = Width(m) /\ Width(m) \in 1..9
           /\ t[1] \in 0..247 /\ Needed(t[1]) = Width(m) /\ Bits(t) = m
<1>1. CASE Width(m) = 1
  <2>1. m[8] \in 0..127 /\ Zeros(m, 7)
    BY <1>1, WidthMeaning, ByteRange
  <2>2. t = <<m[8]>>
    BY <1>1 DEF Unsigned
  <2>3. m[8] \in 0..127
    BY <2>1, ByteRange
  <2>4. t[1] = m[8] /\ Len(t) = 1
    BY <2>2
  <2>5. t[1] \in 0..127
    BY <2>3, <2>4, Zenon
  <2>6. t[1] \in 0..247 /\ t[1] \in Byte
    BY <2>5 DEF Byte
  <2>7. t \in Seq(Byte)
    BY <2>2, <2>1, ByteRange DEF Byte
  <2>8. Needed(t[1]) = 1
    BY <2>5, <2>6, NeededBytes
  <2>9. Bits(t) = <<0, 0, 0, 0, 0, 0, 0, m[8]>>
    BY <2>1, <2>2, <2>5, <2>6, BitsRead, ByteRange
  <2>10. Bits(t) = m
    BY <2>1, <2>9, Assemble, Leading
  <2> QED
    BY <1>1, <2>4, <2>6, <2>7, <2>8, <2>10
<1>2. CASE Width(m) = 2
  <2>1. m[7] \in 0..63 /\ Zeros(m, 6)
    BY <1>2, WidthMeaning, ByteRange
  <2>2. t = <<128 + m[7], m[8]>>
    BY <1>2 DEF Unsigned
  <2>3. 128 + m[7] \in 128..191
    BY <2>1, ByteRange
  <2>4. t[1] = 128 + m[7] /\ Len(t) = 2
    BY <2>2
  <2>5. t[1] \in 128..191
    BY <2>3, <2>4, Zenon
  <2>6. t[1] \in 0..247 /\ t[1] \in Byte
    BY <2>5 DEF Byte
  <2>7. t \in Seq(Byte)
    BY <2>2, <2>1, ByteRange DEF Byte
  <2>8. Needed(t[1]) = 2
    BY <2>5, <2>6, NeededBytes
  <2>9. Bits(t) = <<0, 0, 0, 0, 0, 0, m[7], m[8]>>
    BY <2>1, <2>2, <2>5, <2>6, BitsRead, ByteRange
  <2>10. Bits(t) = m
    BY <2>1, <2>9, Assemble, Leading
  <2> QED
    BY <1>2, <2>4, <2>6, <2>7, <2>8, <2>10
<1>3. CASE Width(m) = 3
  <2>1. m[6] \in 0..31 /\ Zeros(m, 5)
    BY <1>3, WidthMeaning, ByteRange
  <2>2. t = <<192 + m[6], m[7], m[8]>>
    BY <1>3 DEF Unsigned
  <2>3. 192 + m[6] \in 192..223
    BY <2>1, ByteRange
  <2>4. t[1] = 192 + m[6] /\ Len(t) = 3
    BY <2>2
  <2>5. t[1] \in 192..223
    BY <2>3, <2>4, Zenon
  <2>6. t[1] \in 0..247 /\ t[1] \in Byte
    BY <2>5 DEF Byte
  <2>7. t \in Seq(Byte)
    BY <2>2, <2>1, ByteRange DEF Byte
  <2>8. Needed(t[1]) = 3
    BY <2>5, <2>6, NeededBytes
  <2>9. Bits(t) = <<0, 0, 0, 0, 0, m[6], m[7], m[8]>>
    BY <2>1, <2>2, <2>5, <2>6, BitsRead, ByteRange
  <2>10. Bits(t) = m
    BY <2>1, <2>9, Assemble, Leading
  <2> QED
    BY <1>3, <2>4, <2>6, <2>7, <2>8, <2>10
<1>4. CASE Width(m) = 4
  <2>1. m[5] \in 0..15 /\ Zeros(m, 4)
    BY <1>4, WidthMeaning, ByteRange
  <2>2. t = <<224 + m[5], m[6], m[7], m[8]>>
    BY <1>4 DEF Unsigned
  <2>3. 224 + m[5] \in 224..239
    BY <2>1, ByteRange
  <2>4. t[1] = 224 + m[5] /\ Len(t) = 4
    BY <2>2
  <2>5. t[1] \in 224..239
    BY <2>3, <2>4, Zenon
  <2>6. t[1] \in 0..247 /\ t[1] \in Byte
    BY <2>5 DEF Byte
  <2>7. t \in Seq(Byte)
    BY <2>2, <2>1, ByteRange DEF Byte
  <2>8. Needed(t[1]) = 4
    BY <2>5, <2>6, NeededBytes
  <2>9. Bits(t) = <<0, 0, 0, 0, m[5], m[6], m[7], m[8]>>
    BY <2>1, <2>2, <2>5, <2>6, BitsRead, ByteRange
  <2>10. Bits(t) = m
    BY <2>1, <2>9, Assemble, Leading
  <2> QED
    BY <1>4, <2>4, <2>6, <2>7, <2>8, <2>10
<1>5. CASE Width(m) = 5
  <2>1. Zeros(m, 4)
    BY <1>5, WidthMeaning, ByteRange
  <2>2. t = <<240, m[5], m[6], m[7], m[8]>>
    BY <1>5 DEF Unsigned
  <2>3. 240 \in 240..243
    BY <2>1, ByteRange
  <2>4. t[1] = 240 /\ Len(t) = 5
    BY <2>2
  <2>5. t[1] \in 240..243
    BY <2>3, <2>4, Zenon
  <2>6. t[1] \in 0..247 /\ t[1] \in Byte
    BY <2>5 DEF Byte
  <2>7. t \in Seq(Byte)
    BY <2>2, <2>1, ByteRange DEF Byte
  <2>8. Needed(t[1]) = 5
    BY <2>5, <2>6, NeededBytes
  <2>9. Bits(t) = <<0, 0, 0, 0, m[5], m[6], m[7], m[8]>>
    BY <2>1, <2>2, <2>5, <2>6, BitsRead, ByteRange
  <2>10. Bits(t) = m
    BY <2>1, <2>9, Assemble, Leading
  <2> QED
    BY <1>5, <2>4, <2>6, <2>7, <2>8, <2>10
<1>6. CASE Width(m) = 9
  <2>1. TRUE
    BY <1>6, WidthMeaning, ByteRange
  <2>2. t = <<244, m[1], m[2], m[3], m[4], m[5], m[6], m[7], m[8]>>
    BY <1>6 DEF Unsigned
  <2>3. 244 \in 244..247
    BY <2>1, ByteRange
  <2>4. t[1] = 244 /\ Len(t) = 9
    BY <2>2
  <2>5. t[1] \in 244..247
    BY <2>3, <2>4, Zenon
  <2>6. t[1] \in 0..247 /\ t[1] \in Byte
    BY <2>5 DEF Byte
  <2>7. t \in Seq(Byte)
    BY <2>2, <2>1, ByteRange DEF Byte
  <2>8. Needed(t[1]) = 9
    BY <2>5, <2>6, NeededBytes
  <2>9. Bits(t) = <<m[1], m[2], m[3], m[4], m[5], m[6], m[7], m[8]>>
    BY <2>1, <2>2, <2>5, <2>6, BitsRead, ByteRange
  <2>10. Bits(t) = m
    BY <2>1, <2>9, Assemble, Leading
  <2> QED
    BY <1>6, <2>4, <2>6, <2>7, <2>8, <2>10
<1> QED
  BY <1>1, <1>2, <1>3, <1>4, <1>5, <1>6, WidthMeaning

(* Only the bytes of the number itself are looked at. *)
LEMMA SameBits ==
    ASSUME NEW s, NEW t, t[1] \in Byte, t[1] \in 0..247,
           \A i \in 1..Needed(t[1]) : s[i] = t[i]
    PROVE  Bits(s) = Bits(t)
<1>1. CASE t[1] \in 0..127
  <2>1. Needed(t[1]) = 1
    BY <1>1, NeededBytes
  <2>2. s[1] = t[1]
    BY <2>1
  <2> QED
    BY <1>1, <2>2, BitsRead
<1>2. CASE t[1] \in 128..191
  <2>1. Needed(t[1]) = 2
    BY <1>2, NeededBytes
  <2>2. s[1] = t[1] /\ s[2] = t[2]
    BY <2>1
  <2> QED
    BY <1>2, <2>2, BitsRead
<1>3. CASE t[1] \in 192..223
  <2>1. Needed(t[1]) = 3
    BY <1>3, NeededBytes
  <2>2. s[1] = t[1] /\ s[2] = t[2] /\ s[3] = t[3]
    BY <2>1
  <2> QED
    BY <1>3, <2>2, BitsRead
<1>4. CASE t[1] \in 224..239
  <2>1. Needed(t[1]) = 4
    BY <1>4, NeededBytes
  <2>2. s[1] = t[1] /\ s[2] = t[2] /\ s[3] = t[3] /\ s[4] = t[4]
    BY <2>1
  <2> QED
    BY <1>4, <2>2, BitsRead
<1>5. CASE t[1] \in 240..243
  <2>1. Needed(t[1]) = 5
    BY <1>5, NeededBytes
  <2>2. s[1] = t[1] /\ s[2] = t[2] /\ s[3] = t[3] /\ s[4] = t[4] /\ s[5] = t[5]
    BY <2>1
  <2> QED
    BY <1>5, <2>2, BitsRead
<1>6. CASE t[1] \in 244..247
  <2>1. Needed(t[1]) = 9
    BY <1>6, NeededBytes
  <2>2. /\ s[1] = t[1] /\ s[2] = t[2] /\ s[3] = t[3] /\ s[4] = t[4] /\ s[5] = t[5]
        /\ s[6] = t[6] /\ s[7] = t[7] /\ s[8] = t[8] /\ s[9] = t[9]
    BY <2>1
  <2> QED
    BY <1>6, <2>2, BitsRead
<1> QED
  BY <1>1, <1>2, <1>3, <1>4, <1>5, <1>6

(* A number at the head of a packet is read back whatever comes after it. *)
LEMMA ReadBack ==
    ASSUME NEW m \in Magnitude, NEW rest \in Seq(Byte)
    PROVE  LET s == Unsigned(m) \o rest
           IN  /\ s \in Seq(Byte) /\ Readable(s) /\ s[1] \in 0..247
               /\ Needed(s[1]) = Width(m) /\ Bits(s) = m
<1> DEFINE t == Unsigned(m)  s == t \o rest
<1>1. /\ t \in Seq(Byte) /\ Len(t) = Width(m) /\ Width(m) \in 1..9
      /\ t[1] \in 0..247 /\ Needed(t[1]) = Width(m) /\ Bits(t) = m
  BY UnsignedForm
<1> HIDE DEF t
<1>2. /\ s \in Seq(Byte) /\ Len(s) = Len(t) + Len(rest)
      /\ \A i \in 1..Len(t) : s[i] = t[i]
  BY <1>1, Prepended
<1> HIDE DEF s
<1>3. s[1] = t[1] /\ Len(s) >= Width(m) /\ s # <<>>
  BY <1>1, <1>2
<1>4. Bits(s) = Bits(t)
  <2>1. t[1] \in Byte
    BY <1>1 DEF Byte
  <2> QED
    BY <2>1, <1>1, <1>2, SameBits
<1>5. Readable(s)
  BY <1>1, <1>3 DEF Readable
<1> QED
  BY <1>1, <1>2, <1>3, <1>4, <1>5 DEF s, t

LEMMA SmallByte == ASSUME NEW b \in 0..255, b <= 3 PROVE b \in 0..3
OBVIOUS

LEMMA ZeroPlus == ASSUME NEW n \in 1..9 PROVE 0 + n = n
OBVIOUS

(* The same for a value whose parts have names. *)
LEMMA RoundTripParts ==
    ASSUME NEW neg \in BOOLEAN, NEW m \in Magnitude, neg => ~Zeros(m, 8),
           NEW v, v = [neg |-> neg, mag |-> m], NEW rest \in Seq(Byte)
    PROVE  Decode(Encode(v) \o rest) = [value |-> v, size |-> Len(Encode(v))]
<1> DEFINE s == Encode(v) \o rest
<1>1. v.neg = neg /\ v.mag = m
  OBVIOUS
<1>2. CASE Tiny(v)
  <2>1. neg /\ Zeros(m, 7) /\ m[8] <= 3
    BY <1>1, <1>2 DEF Tiny
  <2>2. m[8] \in 0..3
    <3>1. m[8] \in 0..255
      BY ByteRange
    <3> QED
      BY <2>1, <3>1, SmallByte, Zenon
  <2>3. Encode(v) = <<252 + m[8]>>
    BY <1>1, <1>2 DEF Encode
  <2>4. 252 + m[8] \in Byte /\ 252 + m[8] \in 252..255 /\ (252 + m[8]) - 252 = m[8]
    BY <2>2 DEF Byte
  <2>5. s[1] = 252 + m[8] /\ Len(s) >= 1 /\ s # <<>> /\ Len(Encode(v)) = 1
    <3> DEFINE x == 252 + m[8]
    <3>1. x \in Byte /\ Encode(v) = <<x>>
      BY <2>3, <2>4
    <3> HIDE DEF x
    <3>2. s[1] = x /\ Len(s) >= 1 /\ s # <<>> /\ Len(Encode(v)) = 1
      BY <3>1
    <3> QED
      BY <3>2 DEF x
  <2> HIDE DEF s
  <2>6. s[1] \in 252..255 /\ s[1] \in Byte
    BY <2>4, <2>5, Zenon
  <2>7. Needed(s[1]) = 1
    BY <2>6, NeededBytes
  <2>8. Bits(s) = <<0, 0, 0, 0, 0, 0, 0, s[1] - 252>>
    BY <2>6, BitsRead
  <2>9. Bits(s) = <<0, 0, 0, 0, 0, 0, 0, m[8]>>
    BY <2>4, <2>5, <2>8, Zenon
  <2>10. Bits(s) = m
    BY <2>1, <2>9, Assemble, Leading
  <2>11. ~Signed(s) /\ Readable(s)
    BY <2>5, <2>6, <2>7 DEF Signed, Readable
  <2>12. Decode(s) = Number(TRUE, m, 1)
    <3>1. (FALSE \/ s[1] >= 252) = TRUE /\ 0 + Needed(s[1]) = 1
      BY <2>6, <2>7
    <3>2. Decode(s) = Number(FALSE \/ s[1] >= 252, Bits(s), 0 + Needed(s[1]))
      BY <2>11, Zenon DEF Decode, Read
    <3> QED
      BY <2>10, <3>1, <3>2, Zenon
  <2> QED
    BY <2>1, <2>5, <2>12 DEF Number, s
<1>3. CASE ~Tiny(v) /\ neg
  <2> DEFINE u == Unsigned(m)  t == u \o rest
  <2>1. Encode(v) = <<248>> \o u
    BY <1>1, <1>3 DEF Encode
  <2>2. u \in Seq(Byte) /\ Len(u) = Width(m) /\ Width(m) \in 1..9
    BY UnsignedForm
  <2>3. t \in Seq(Byte) /\ Readable(t) /\ Needed(t[1]) = Width(m) /\ Bits(t) = m
    BY ReadBack
  <2> HIDE DEF u
  <2>4. s[1] = 248 /\ s # <<>> /\ Tail(s) = t /\ Len(Encode(v)) = 1 + Width(m)
    <3>1. <<248>> \in Seq(Byte)
      BY DEF Byte
    <3>2. (<<248>> \o u) \o rest = <<248>> \o (u \o rest)
      BY <2>2, <3>1
    <3>3. s = <<248>> \o t
      BY <2>1, <3>2
    <3> HIDE DEF s, t
    <3>4. s[1] = 248 /\ s # <<>> /\ Tail(s) = t
      BY <2>3, <3>1, <3>3
    <3> QED
      BY <2>1, <2>2, <3>1, <3>4
  <2> HIDE DEF s, t
  <2>5. Signed(s)
    BY <2>4 DEF Signed
  <2>6. Decode(s) = Number(TRUE, m, 1 + Width(m))
    BY <2>3, <2>4, <2>5 DEF Decode, Read
  <2> QED
    BY <1>3, <2>4, <2>6 DEF Number, s
<1>4. CASE ~neg
  <2>1. Encode(v) = Unsigned(m)
    BY <1>1, <1>4 DEF Encode, Tiny
  <2>2. /\ Readable(s) /\ s[1] \in 0..247 /\ Needed(s[1]) = Width(m) /\ Bits(s) = m
    BY <2>1, ReadBack
  <2>3. Len(Encode(v)) = Width(m) /\ Width(m) \in 1..9
    BY <2>1, UnsignedForm
  <2> HIDE DEF s
  <2>4. s[1] \in 0..247
    BY <2>2
  <2>5. s[1] \notin 248..251 /\ (FALSE \/ s[1] >= 252) = FALSE
    <3> DEFINE x == s[1]
    <3>1. x \in 0..247
      BY <2>4
    <3> HIDE DEF x
    <3>2. x \notin 248..251
      BY <3>1
    <3>3. ~(x >= 252)
      BY <3>1
    <3> QED
      BY <3>2, <3>3, Zenon DEF x
  <2>6. ~Signed(s)
    BY <2>5, Zenon DEF Signed
  <2>7. Decode(s) = Number(FALSE, m, Width(m))
    <3>1. 0 + Width(m) = Width(m)
      BY <2>3, ZeroPlus
    <3>2. Decode(s) = Number(FALSE \/ s[1] >= 252, Bits(s), 0 + Needed(s[1]))
      BY <2>2, <2>6, Zenon DEF Decode, Read
    <3>3. Decode(s) = Number(FALSE, Bits(s), 0 + Needed(s[1]))
      BY <2>5, <3>2, Zenon
    <3> QED
      BY <2>2, <3>1, <3>3, Zenon
  <2> QED
    BY <1>4, <2>3, <2>7 DEF Number, s
<1> QED
  BY <1>2, <1>3, <1>4

(* VarInt.decode gives back the value VarInt.encode was given, and says how
   many bytes it took, whatever follows the number in the packet. *)
THEOREM RoundTrip ==
    ASSUME NEW v \in VarInts, NEW rest \in Seq(Byte)
    PROVE  Decode(Encode(v) \o rest) = [value |-> v, size |-> Len(Encode(v))]
<1>1. /\ v.neg \in BOOLEAN /\ v.mag \in Magnitude /\ (v.neg => ~Zeros(v.mag, 8))
      /\ v = [neg |-> v.neg, mag |-> v.mag]
  BY DEF VarInts
<1> QED
  BY <1>1, RoundTripParts

(***************************************************************************)
(* The layout of a packet.                                                 *)
(***************************************************************************)
LEMMA EncodeBytes == ASSUME NEW v \in VarInts PROVE Encode(v) \in Seq(Byte) /\ Len(Encode(v)) > 0
<1>1. v.neg \in BOOLEAN /\ v.mag \in Magnitude /\ v.mag[8] \in 0..255
  BY ByteRange DEF VarInts
<1>2. CASE Tiny(v)
  <2>1. 252 + v.mag[8] \in Byte
    BY <1>1, <1>2 DEF Tiny, Byte
  <2> QED
    BY <1>2, <2>1 DEF Encode
<1>3. CASE ~Tiny(v)
  <2>1. Unsigned(v.mag) \in Seq(Byte) /\ Len(Unsigned(v.mag)) > 0
    BY <1>1, UnsignedForm
  <2>2. <<248>> \in Seq(Byte)
    BY DEF Byte
  <2>3. <<248>> \o Unsigned(v.mag) \in Seq(Byte) /\ Len(<<248>> \o Unsigned(v.mag)) > 0
    BY <2>1, <2>2
  <2> QED
    BY <1>3, <2>1, <2>3 DEF Encode
<1> QED
  BY <1>2, <1>3

LEMMA SmallValue ==
    ASSUME NEW n \in Nat, n < 65536
    PROVE  Small(n) \in VarInts /\ Low16(Small(n)) = n
<1>1. n \div 256 \in 0..255 /\ n % 256 \in 0..255 /\ (n \div 256) * 256 + (n % 256) = n
  OBVIOUS
<1> DEFINE m == <<0, 0, 0, 0, 0, 0, n \div 256, n % 256>>
<1>2. m \in Magnitude
  BY <1>1 DEF Magnitude, Byte
<1>3. Small(n) = [neg |-> FALSE, mag |-> m]
  BY DEF Small
<1>4. m[7] = n \div 256 /\ m[8] = n % 256
  OBVIOUS
<1> HIDE DEF m
<1>5. Small(n) \in VarInts
  BY <1>2, <1>3 DEF VarInts
<1>6. Low16(Small(n)) = n
  BY <1>1, <1>3, <1>4 DEF Low16
<1> QED
  BY <1>5, <1>6

(* A length with the mark of a frame that is not the last, and what the masks take out of it. *)
LEMMA Masks ==
    ASSUME NEW n \in Nat, n < 8192
    PROVE  /\ n % 8192 = n /\ (n \div 8192) % 2 = 0
           /\ (n + 8192) % 8192 = n /\ ((n + 8192) \div 8192) % 2 = 1
OBVIOUS

LEMMA AfterPrefix ==
    ASSUME NEW a \in Seq(Byte), NEW b \in Seq(Byte), NEW s, s = a \o b
    PROVE  SubSeq(s, Len(a) + 1, Len(s)) = b
<1>1. s \in Seq(Byte) /\ Len(s) = Len(a) + Len(b)
  OBVIOUS
<1>2. SubSeq(s, Len(a) + 1, Len(s)) = SubSeq(b, 1, Len(b))
  BY <1>1, SubSeqOfConcat2
<1>3. SubSeq(b, 1, Len(b)) = b
  BY SubSeqFull
<1> QED
  BY <1>2, <1>3

LEMMA Middle ==
    ASSUME NEW a \in Seq(Byte), NEW b \in Seq(Byte), NEW c \in Seq(Byte), NEW s, s = a \o (b \o c)
    PROVE  /\ SubSeq(s, Len(a) + 1, Len(a) + Len(b)) = b
           /\ Len(s) = Len(a) + Len(b) + Len(c)
<1>1. /\ b \o c \in Seq(Byte) /\ Len(b \o c) = Len(b) + Len(c)
      /\ s \in Seq(Byte) /\ Len(s) = Len(a) + Len(b) + Len(c)
  OBVIOUS
<1>2. SubSeq(s, Len(a) + 1, Len(a) + Len(b)) = SubSeq(b \o c, 1, Len(b))
  BY <1>1, SubSeqOfConcat2
<1>3. SubSeq(b \o c, 1, Len(b)) = b
  BY SubSeqOfConcat1, SubSeqFull
<1> QED
  BY <1>1, <1>2, <1>3

LEMMA FrameBytesAre ==
    ASSUME NEW k \in 1..2, NEW n \in Nat
    PROVE  FrameBytes(k, n) \in Seq(Byte) /\ Len(FrameBytes(k, n)) = n
BY DEF FrameBytes, Byte

(* Three pieces in a row, however they are bracketed. *)
LEMMA Regroup ==
    ASSUME NEW a \in Seq(Byte), NEW b \in Seq(Byte), NEW c \in Seq(Byte)
    PROVE  /\ a \o b \in Seq(Byte) /\ Len(a \o b) = Len(a) + Len(b)
           /\ (a \o b) \o c = a \o (b \o c)
OBVIOUS

LEMMA Associative ==
    ASSUME NEW a \in Seq(Byte), NEW b \in Seq(Byte), NEW c \in Seq(Byte)
    PROVE  (a \o b) \o c = a \o (b \o c)
BY Regroup

LEMMA FlattenOne == ASSUME NEW s PROVE FlattenSeq(<<s>>) = s
<1> DEFINE q == <<s>>
           F == [i \in 1..1 |-> s]
           G(f) == [i \in 1..Len(q) |-> IF i = 1 THEN q[i] ELSE f[i - 1] \o q[i]]
<1>1. Len(q) = 1 /\ q[1] = s
  OBVIOUS
<1>2. F = G(F)
  BY <1>1
<1> QED
  BY <1>1, <1>2 DEF FlattenSeq

LEMMA FlattenTwo == ASSUME NEW s \in Seq(Byte), NEW t \in Seq(Byte) PROVE FlattenSeq(<<s, t>>) = s \o t
<1> DEFINE q == <<s, t>>
           F == [i \in 1..2 |-> IF i = 1 THEN s ELSE s \o t]
           G(f) == [i \in 1..Len(q) |-> IF i = 1 THEN q[i] ELSE f[i - 1] \o q[i]]
<1>1. Len(q) = 2 /\ q[1] = s /\ q[2] = t
  OBVIOUS
<1>2. F = G(F) /\ F[2] = s \o t
  BY <1>1
<1>3. ASSUME NEW g, g = G(g) PROVE g = F
  <2>1. g = [i \in 1..2 |-> g[i]]
    BY <1>1, <1>3
  <2>2. g[1] = s
    BY <1>1, <1>3
  <2>3. g[2] = s \o t
    BY <1>1, <1>3, <2>2
  <2> QED
    BY <2>1, <2>2, <2>3
<1>4. (CHOOSE g : g = G(g)) = F
  BY <1>2, <1>3
<1>5. FlattenSeq(q) = (CHOOSE g : g = G(g))[Len(q)]
  BY <1>1 DEF FlattenSeq
<1> QED
  BY <1>1, <1>2, <1>4, <1>5

\* The sequence s in three pieces; after pre it goes on with e \o g, and f begins after start.
Cut(s, a, b, c) == s = a \o (b \o c)
Laid(s, pre, e, f, g, start) ==
    /\ start = Len(pre) + Len(e) /\ SubSeq(s, Len(pre) + 1, Len(s)) = e \o g
    /\ SubSeq(s, start + 1, start + Len(f)) = f
    /\ Len(s) \in Nat /\ Len(s) >= start + Len(f)
    /\ Len(pre \o (e \o f)) = start + Len(f)

(* What comes before, a number, its bytes and the rest. *)
LEMMA Layout ==
    ASSUME NEW pre \in Seq(Byte), NEW e \in Seq(Byte), NEW f \in Seq(Byte), NEW rest \in Seq(Byte),
           NEW s, Cut(s, pre, e \o f, rest)
    PROVE  \E g \in Seq(Byte), start \in Nat : Laid(s, pre, e, f, g, start)
<1>1. /\ f \o rest \in Seq(Byte) /\ pre \o e \in Seq(Byte) /\ Len(pre \o e) = Len(pre) + Len(e)
      /\ e \o f \in Seq(Byte) /\ Len(e \o f) = Len(e) + Len(f)
  OBVIOUS
<1>2. PICK g \in Seq(Byte) : g = f \o rest
  BY <1>1
<1>3. s = pre \o (e \o g)
  <2>1. (e \o f) \o rest = e \o (f \o rest)
    BY Regroup
  <2> QED
    BY <1>2, <2>1 DEF Cut
<1>4. s = (pre \o e) \o g
  <2>1. (pre \o e) \o g = pre \o (e \o g)
    BY Regroup
  <2> QED
    BY <1>3, <2>1
<1>5. SubSeq(s, Len(pre) + 1, Len(s)) = e \o g
  <2>1. PICK t \in Seq(Byte) : t = e \o g
    BY Regroup, Zenon
  <2>2. s = pre \o t
    BY <1>3, <2>1
  <2>3. SubSeq(s, Len(pre) + 1, Len(s)) = t
    BY <2>2, AfterPrefix
  <2> QED
    BY <2>1, <2>3
<1>6. PICK h \in Seq(Byte) : h = pre \o e
  BY <1>1
<1>7. s = h \o (f \o rest)
  BY <1>2, <1>4, <1>6
<1>8. SubSeq(s, Len(h) + 1, Len(h) + Len(f)) = f /\ Len(s) = Len(h) + Len(f) + Len(rest)
  BY <1>7, Middle
<1>9. Len(h) = Len(pre) + Len(e) /\ Len(h) \in Nat /\ Len(f) \in Nat /\ Len(rest) \in Nat
  BY <1>1, <1>6
<1>10. Len(pre \o (e \o f)) = Len(pre) + (Len(e) + Len(f))
  BY <1>1
<1>11. Len(pre \o (e \o f)) = Len(h) + Len(f)
  BY <1>9, <1>10
<1>12. Len(s) \in Nat /\ Len(s) >= Len(h) + Len(f)
  BY <1>8, <1>9
<1>13. PICK start \in Nat : start = Len(h)
  BY <1>9
<1>14. Laid(s, pre, e, f, g, start)
  BY <1>5, <1>8, <1>9, <1>11, <1>12, <1>13 DEF Laid
<1> QED
  BY <1>14, Zenon

LEMMA AtEndIs ==
    ASSUME NEW p \in Nat, NEW n \in Nat, Len(packet) \in Nat, Len(packet) >= p + n
    PROVE  AtEnd(p + n) = p + n
BY DEF AtEnd

(***************************************************************************)
(* What a speaker sends.                                                   *)
(***************************************************************************)
Trail(a) == IF a.positional THEN [i \in 1..12 |-> 0] ELSE <<>>

LEMMA Sent ==
    ASSUME NEW a \in AudioData
    PROVE  /\ a.codec \in {OPUS, CELT} /\ a.target = 31 /\ a.session \in VarInts /\ a.sequence \in VarInts
           /\ a.marked \in BOOLEAN /\ a.positional \in BOOLEAN
           /\ (\E n \in Lengths : a.frames = <<n>>) \/ (\E n, m \in Lengths : a.frames = <<n, m>>)
           /\ a.codec = CELT => ~a.marked /\ \A k \in DOMAIN a.frames : a.frames[k] < 128
<1>1. /\ a \in [codec : {OPUS, CELT}, target : {31}, session : Sessions, sequence : Numbers,
                frames : {<<n>> : n \in Lengths} \cup (Lengths \X Lengths),
                marked : BOOLEAN, positional : BOOLEAN]
      /\ a.codec = CELT => ~a.marked /\ \A k \in DOMAIN a.frames : a.frames[k] < 128
  BY DEF AudioData
<1>2. /\ a.codec \in {OPUS, CELT} /\ a.target = 31 /\ a.session \in Sessions /\ a.sequence \in Numbers
      /\ a.marked \in BOOLEAN /\ a.positional \in BOOLEAN
      /\ a.frames \in {<<n>> : n \in Lengths} \cup (Lengths \X Lengths)
  BY <1>1
<1>3. (\E n \in Lengths : a.frames = <<n>>) \/ (\E n, m \in Lengths : a.frames = <<n, m>>)
  <2>1. CASE a.frames \in {<<n>> : n \in Lengths}
    BY <2>1
  <2>2. CASE a.frames \in Lengths \X Lengths
    <3>1. PICK n \in Lengths, m \in Lengths : a.frames = <<n, m>>
      BY <2>2
    <3> QED
      BY <3>1
  <2> QED
    BY <1>2, <2>1, <2>2
<1>4. a.session \in VarInts /\ a.sequence \in VarInts
  BY <1>2, PacketAssumption
<1> QED
  BY <1>1, <1>2, <1>3, <1>4

LEMMA FramesOf ==
    ASSUME NEW a \in AudioData
    PROVE  /\ DOMAIN a.frames = 1..Len(a.frames) /\ Len(a.frames) \in 1..2
           /\ \A k \in 1..Len(a.frames) : a.frames[k] \in Nat /\ a.frames[k] < 8192
<1>1. ASSUME NEW n \in Lengths PROVE n \in Nat /\ n < 8192
  BY PacketAssumption
<1>2. CASE \E n \in Lengths : a.frames = <<n>>
  <2>1. PICK n \in Lengths : a.frames = <<n>>
    BY <1>2
  <2> QED
    BY <1>1, <2>1
<1>3. CASE \E n, m \in Lengths : a.frames = <<n, m>>
  <2>1. PICK n \in Lengths, m \in Lengths : a.frames = <<n, m>>
    BY <1>3
  <2> QED
    BY <1>1, <2>1
<1> QED
  BY <1>2, <1>3, Sent

\* The length of a frame as it is written.
Written(a, k) == IF a.marked THEN a.frames[k] + 8192 ELSE a.frames[k]

LEMMA ChunkBytes ==
    ASSUME NEW a \in AudioData, NEW k \in 1..Len(a.frames)
    PROVE  /\ ChunkOf(a, k) \in Seq(Byte) /\ Len(ChunkOf(a, k)) > 0
           /\ ChunkOf(a, k) = Encode(Small(Written(a, k))) \o FrameBytes(k, a.frames[k])
           /\ Written(a, k) \in Nat /\ Written(a, k) < 65536 /\ Written(a, k) % 8192 = a.frames[k]
           /\ (Written(a, k) \div 8192) % 2 = 0 <=> ~a.marked
<1>1. PICK n \in Nat : n = a.frames[k] /\ n < 8192
  BY FramesOf
<1>2. k \in 1..2 /\ a.marked \in BOOLEAN
  BY FramesOf, Sent
<1>3. PICK x \in Nat : x = Written(a, k) /\ x < 65536 /\ x = IF a.marked THEN n + 8192 ELSE n
  BY <1>1, <1>2 DEF Written
<1>4. x % 8192 = n /\ ((x \div 8192) % 2 = 0 <=> ~a.marked)
  BY <1>1, <1>2, <1>3, Masks
<1>5. ChunkOf(a, k) = Encode(Small(x)) \o FrameBytes(k, n)
  <2>1. CASE a.marked
    BY <1>1, <1>3, <2>1 DEF ChunkOf, MarkedChunk
  <2>2. CASE ~a.marked
    BY <1>1, <1>3, <2>2 DEF ChunkOf, Chunk
  <2> QED
    BY <2>1, <2>2
<1>6. Encode(Small(x)) \in Seq(Byte) /\ Len(Encode(Small(x))) > 0
  BY <1>3, SmallValue, EncodeBytes
<1>7. FrameBytes(k, n) \in Seq(Byte) /\ Len(FrameBytes(k, n)) \in Nat
  BY <1>2, FrameBytesAre
<1>8. ChunkOf(a, k) \in Seq(Byte) /\ Len(ChunkOf(a, k)) > 0
  BY <1>5, <1>6, <1>7, Regroup
<1> QED
  BY <1>1, <1>3, <1>4, <1>5, <1>8

LEMMA OldChunkBytes ==
    ASSUME NEW n \in Nat, n < 128, NEW k \in 1..2, NEW more \in BOOLEAN
    PROVE  OldChunk(k, n, more) \in Seq(Byte)
<1>1. <<(IF more THEN 128 ELSE 0) + n>> \in Seq(Byte)
  BY DEF Byte
<1>2. FrameBytes(k, n) \in Seq(Byte)
  BY FrameBytesAre
<1> QED
  BY <1>1, <1>2, Regroup DEF OldChunk

LEMMA PayloadIs ==
    ASSUME NEW a \in AudioData
    PROVE  /\ Payload(a) \in Seq(Byte)
           /\ a.codec = OPUS /\ Len(a.frames) = 1 => Payload(a) = ChunkOf(a, 1)
           /\ a.codec = OPUS /\ Len(a.frames) = 2 => Payload(a) = ChunkOf(a, 1) \o ChunkOf(a, 2)
<1> DEFINE piece(k) == IF a.codec # OPUS THEN OldChunk(k, a.frames[k], k < Len(a.frames))
                       ELSE IF a.marked THEN MarkedChunk(k, a.frames[k])
                       ELSE Chunk(k, a.frames[k])
<1>1. ASSUME NEW k \in 1..Len(a.frames)
      PROVE  piece(k) \in Seq(Byte) /\ (a.codec = OPUS => piece(k) = ChunkOf(a, k))
  <2>1. CASE a.codec = OPUS
    BY <2>1, ChunkBytes DEF ChunkOf
  <2>2. CASE a.codec # OPUS
    <3>1. a.frames[k] \in Nat /\ a.frames[k] < 128 /\ k \in 1..2
      BY <2>2, Sent, FramesOf
    <3>2. (k < Len(a.frames)) \in BOOLEAN
      OBVIOUS
    <3>3. OldChunk(k, a.frames[k], k < Len(a.frames)) \in Seq(Byte)
      BY <3>1, <3>2, OldChunkBytes
    <3> QED
      BY <2>2, <3>3
  <2> QED
    BY <2>1, <2>2
<1>2. Payload(a) = FlattenSeq([k \in DOMAIN a.frames |-> piece(k)])
  BY DEF Payload
<1> HIDE DEF piece
<1>3. CASE Len(a.frames) = 1
  <2>1. [k \in DOMAIN a.frames |-> piece(k)] = <<piece(1)>>
    BY <1>3, FramesOf
  <2>2. Payload(a) = piece(1)
    BY <1>2, <2>1, FlattenOne
  <2> QED
    BY <1>1, <1>3, <2>2
<1>4. CASE Len(a.frames) = 2
  <2>1. [k \in DOMAIN a.frames |-> piece(k)] = <<piece(1), piece(2)>>
    BY <1>4, FramesOf
  <2>2. piece(1) \in Seq(Byte) /\ piece(2) \in Seq(Byte)
    BY <1>1, <1>4
  <2>3. Payload(a) = piece(1) \o piece(2)
    BY <1>2, <2>1, <2>2, FlattenTwo
  <2>4. piece(1) \o piece(2) \in Seq(Byte)
    BY <2>2, Regroup
  <2> QED
    BY <1>1, <1>4, <2>3, <2>4
<1> QED
  BY <1>3, <1>4, FramesOf

LEMMA PacketIs ==
    ASSUME NEW a \in AudioData
    PROVE  /\ Header(a) \in Seq(Byte) /\ Trail(a) \in Seq(Byte)
           /\ LegacyPacket(a) = Header(a) \o (Payload(a) \o Trail(a))
           /\ LegacyPacket(a) \in Seq(Byte)
           /\ Len(LegacyPacket(a)) = Len(Header(a)) + Len(Payload(a)) + Len(Trail(a))
<1> DEFINE c == <<a.codec * 32 + a.target>>
           e == Encode(a.session)
           q == Encode(a.sequence)
<1>1. c \in Seq(Byte) /\ e \in Seq(Byte) /\ q \in Seq(Byte)
  <2>1. a.codec * 32 + a.target \in Byte
    BY Sent DEF OPUS, CELT, Byte
  <2> QED
    BY <2>1, Sent, EncodeBytes
<1>2. Header(a) = c \o e \o q
  BY DEF Header
<1>3. LegacyPacket(a) = (Header(a) \o Payload(a)) \o Trail(a)
  BY DEF LegacyPacket, Header, Trail
<1> HIDE DEF c, e, q
<1>4. Header(a) \in Seq(Byte)
  BY <1>1, <1>2, Regroup
<1>5. Trail(a) \in Seq(Byte)
  <2>1. [i \in 1..12 |-> 0] \in Seq(Byte) /\ <<>> \in Seq(Byte)
    BY DEF Byte
  <2> QED
    BY <2>1 DEF Trail
<1>6. LegacyPacket(a) = Header(a) \o (Payload(a) \o Trail(a))
  BY <1>3, <1>4, <1>5, PayloadIs, Regroup
<1>7. /\ LegacyPacket(a) \in Seq(Byte)
      /\ Len(LegacyPacket(a)) = Len(Header(a)) + Len(Payload(a)) + Len(Trail(a))
  BY <1>3, <1>4, <1>5, PayloadIs, Regroup
<1> QED
  BY <1>4, <1>5, <1>6, <1>7

(* The two numbers after the first byte, and that byte, are read as written. *)
LEMMA HeaderRead ==
    ASSUME NEW a \in AudioData, packet = LegacyPacket(a)
    PROVE  /\ packet[1] = a.codec * 32 + a.target
           /\ Decode(From(1)) = [value |-> a.session, size |-> Len(Encode(a.session))]
           /\ Decode(From(1 + Len(Encode(a.session)))) = [value |-> a.sequence, size |-> Len(Encode(a.sequence))]
           /\ Len(Header(a)) = 1 + Len(Encode(a.session)) + Len(Encode(a.sequence))
<1> DEFINE b == a.codec * 32 + a.target
<1>1. PICK c \in Seq(Byte) : c = <<b>> /\ Len(c) = 1
  <2>1. b \in Byte
    BY Sent DEF OPUS, CELT, Byte
  <2> HIDE DEF b
  <2>2. <<b>> \in Seq(Byte) /\ Len(<<b>>) = 1
    BY <2>1
  <2> QED
    BY <2>2
<1>2. PICK e \in Seq(Byte) : e = Encode(a.session) /\ Len(e) > 0
  BY Sent, EncodeBytes
<1>3. PICK q \in Seq(Byte) : q = Encode(a.sequence) /\ Len(q) > 0
  BY Sent, EncodeBytes
<1>4. PICK r \in Seq(Byte) : r = Payload(a) \o Trail(a)
  BY PacketIs, PayloadIs, Regroup
<1>5. packet = ((c \o e) \o q) \o r
  BY <1>1, <1>2, <1>3, <1>4, PacketIs DEF Header
<1>6. PICK qr \in Seq(Byte) : qr = q \o r
  BY Regroup
<1>7. PICK eq \in Seq(Byte) : eq = e \o qr
  BY Regroup
<1>8. PICK ce \in Seq(Byte) : ce = c \o e /\ Len(ce) = 1 + Len(e)
  <2>1. c \o e \in Seq(Byte) /\ Len(c \o e) = Len(c) + Len(e)
    BY Regroup
  <2> QED
    BY <1>1, <2>1
<1>9. packet = ce \o qr
  <2>1. (ce \o q) \o r = ce \o (q \o r)
    BY Associative, SMTT(30)
  <2> QED
    BY <1>5, <1>6, <1>8, <2>1, Zenon
<1>10. packet = c \o eq
  <2>1. (c \o e) \o qr = c \o (e \o qr)
    BY Associative, SMTT(30)
  <2> QED
    BY <1>7, <1>8, <1>9, <2>1, Zenon
<1>11. packet[1] = b
  BY <1>1, <1>10
<1>12. From(1) = eq
  BY <1>1, <1>10, AfterPrefix DEF From
<1>13. From(1 + Len(e)) = qr
  BY <1>8, <1>9, AfterPrefix DEF From
<1>14. Decode(eq) = [value |-> a.session, size |-> Len(e)]
  BY <1>2, <1>7, Sent, RoundTrip
<1>15. Decode(qr) = [value |-> a.sequence, size |-> Len(q)]
  BY <1>3, <1>6, Sent, RoundTrip
<1>16. Len(Header(a)) = 1 + Len(e) + Len(q)
  BY <1>1, <1>2, <1>3, <1>8, Regroup DEF Header
<1> QED
  BY <1>2, <1>3, <1>11, <1>12, <1>13, <1>14, <1>15, <1>16

LEMMA CodecRead ==
    ASSUME NEW a \in AudioData, packet = LegacyPacket(a)
    PROVE  Codec = a.codec /\ packet[1] % 32 = a.target
<1>1. packet[1] = a.codec * 32 + 31 /\ a.target = 31 /\ a.codec \in {4, 0}
  BY HeaderRead, Sent DEF OPUS, CELT
<1>2. CASE a.codec = 4
  BY <1>1, <1>2 DEF Codec
<1>3. CASE a.codec = 0
  BY <1>1, <1>3 DEF Codec
<1> QED
  BY <1>1, <1>2, <1>3

\* A length with its mark, as FrameAt takes it apart.
Unmarked(low) == (low \div 8192) % 2 = 0
Masked(low, n, mark) == n = low % 8192 /\ (Unmarked(low) <=> ~mark)

\* A number and a frame of that length lie ahead; they are read.
Ahead(v, low, g, f, start, size) ==
    /\ low = Low16(v) /\ start = pos + Len(Encode(v)) /\ From(pos) = Encode(v) \o g
    /\ SubSeq(packet, start + 1, start + size) = f /\ Len(packet) \in Nat /\ Len(packet) >= start + size
FoundAt(f, start, size, mark) ==
    /\ FrameAt # Invalid /\ FrameAt.size = size /\ FrameAt.start = start
    /\ FrameAt.last <=> ~mark
    /\ SubSeq(packet, FrameAt.start + 1, AtEnd(FrameAt.start + size)) = f

(* The reader finds a frame where the writer put it: its length, whether it is
   marked, its bytes, and the place after it. *)
LEMMA ReadChunk ==
    ASSUME NEW v \in VarInts, NEW low \in Nat, NEW g \in Seq(Byte), NEW f, NEW start \in Nat,
           NEW size \in Nat, NEW mark \in BOOLEAN, Codec = OPUS,
           Masked(low, size, mark), Ahead(v, low, g, f, start, size)
    PROVE  FoundAt(f, start, size, mark)
<1> USE DEF Ahead
<1>1. Decode(From(pos)) = [value |-> v, size |-> Len(Encode(v))]
  BY RoundTrip
<1>2. Decode(From(pos)) # Invalid
  <2>1. Len(Encode(v)) > 0 /\ Len(Encode(v)) \in Nat
    BY EncodeBytes
  <2> QED
    BY <1>1, <2>1 DEF Invalid
<1>3. FrameAt = [start |-> start, size |-> size, last |-> Unmarked(low)]
  BY <1>1, <1>2 DEF FrameAt, Masked, Unmarked
<1>4. FrameAt # Invalid
  BY <1>3 DEF Invalid
<1>5. AtEnd(start + size) = start + size
  BY AtEndIs
<1>6. FrameAt.size = size /\ FrameAt.start = start /\ (FrameAt.last <=> ~mark)
  <2>1. Unmarked(low) <=> ~mark
    BY Zenon DEF Masked
  <2>2. FrameAt.last = Unmarked(low) /\ FrameAt.size = size /\ FrameAt.start = start
    BY <1>3, Zenon
  <2> QED
    BY <2>1, <2>2, Zenon
<1>7. SubSeq(packet, FrameAt.start + 1, AtEnd(FrameAt.start + size)) = f
  BY <1>5, <1>6
<1> QED
  BY <1>4, <1>6, <1>7, Zenon DEF FoundAt

LEMMA ChunkParts ==
    ASSUME NEW a \in AudioData, NEW k \in 1..Len(a.frames)
    PROVE  \E v \in VarInts, low \in Nat, f \in Seq(Byte) :
              /\ low = Low16(v) /\ f = FrameBytes(k, a.frames[k]) /\ Len(f) = a.frames[k]
              /\ ChunkOf(a, k) = Encode(v) \o f /\ Masked(low, Len(f), a.marked)
<1>1. PICK x \in Nat : x = Written(a, k) /\ x < 65536
  BY ChunkBytes
<1>2. PICK n \in Nat : n = a.frames[k] /\ k \in 1..2
  BY FramesOf
<1>3. PICK v \in VarInts : v = Small(x) /\ Low16(v) = x
  BY <1>1, SmallValue
<1>4. PICK f \in Seq(Byte) : f = FrameBytes(k, n) /\ Len(f) = n
  BY <1>2, FrameBytesAre
<1>5. ChunkOf(a, k) = Encode(v) \o f
  <2>1. ChunkOf(a, k) = Encode(Small(Written(a, k))) \o FrameBytes(k, a.frames[k])
    BY ChunkBytes
  <2> QED
    BY <1>1, <1>2, <1>3, <1>4, <2>1
<1>6. Masked(x, n, a.marked)
  BY <1>1, <1>2, ChunkBytes DEF Masked, Unmarked
<1>7. /\ x = Low16(v) /\ f = FrameBytes(k, a.frames[k]) /\ Len(f) = a.frames[k]
      /\ Masked(x, Len(f), a.marked)
  BY <1>2, <1>3, <1>4, <1>6
<1> QED
  BY <1>5, <1>7, Zenon

\* The next frame that is read is bytes, and what comes after begins at next.
Reads(bytes, mark, next) ==
    /\ FrameAt # Invalid /\ FrameAt.size = Len(bytes) /\ (FrameAt.last <=> ~mark)
    /\ SubSeq(packet, FrameAt.start + 1, AtEnd(FrameAt.start + FrameAt.size)) = bytes
    /\ FrameAt.start + FrameAt.size = next

LEMMA ReadsFrame ==
    ASSUME NEW a \in AudioData, NEW k \in 1..Len(a.frames), NEW pre \in Seq(Byte), NEW rest \in Seq(Byte),
           Cut(packet, pre, ChunkOf(a, k), rest), pos = Len(pre), Codec = OPUS
    PROVE  Reads(FrameBytes(k, a.frames[k]), a.marked, Len(pre \o ChunkOf(a, k)))
<1>1. PICK v \in VarInts, low \in Nat, f \in Seq(Byte) :
              /\ low = Low16(v) /\ f = FrameBytes(k, a.frames[k]) /\ Len(f) = a.frames[k]
              /\ ChunkOf(a, k) = Encode(v) \o f /\ Masked(low, Len(f), a.marked)
  BY ChunkParts, Zenon
<1>2. PICK e \in Seq(Byte) : e = Encode(v)
  BY EncodeBytes
<1>3. Cut(packet, pre, e \o f, rest)
  BY <1>1, <1>2
<1>4. PICK g \in Seq(Byte), start \in Nat : Laid(packet, pre, e, f, g, start)
  BY <1>3, Layout, Zenon
<1>5. PICK n \in Nat : n = Len(f)
  OBVIOUS
<1>6. From(pos) = Encode(v) \o g /\ start = pos + Len(Encode(v))
  BY <1>2, <1>4 DEF From, Laid
<1>7. Masked(low, n, a.marked) /\ a.marked \in BOOLEAN
  BY <1>1, <1>5, Sent
<1>8. Ahead(v, low, g, f, start, n)
  BY <1>1, <1>4, <1>5, <1>6, Zenon DEF Laid, Ahead
<1>9. Len(pre \o ChunkOf(a, k)) = start + n
  BY <1>1, <1>2, <1>4, <1>5, Zenon DEF Laid
<1>10. FoundAt(f, start, n, a.marked)
  BY <1>7, <1>8, ReadChunk, Zenon
<1> QED
  BY <1>1, <1>5, <1>9, <1>10 DEF Reads, FoundAt

LEMMA BeforeTrail ==
    ASSUME NEW a \in AudioData
    PROVE  \E p \in Seq(Byte) : p = Header(a) \o Payload(a) /\ LegacyPacket(a) = p \o Trail(a)
<1>1. Header(a) \in Seq(Byte) /\ Payload(a) \in Seq(Byte) /\ Trail(a) \in Seq(Byte)
  BY PacketIs, PayloadIs
<1>2. PICK p \in Seq(Byte) : p = Header(a) \o Payload(a)
  BY <1>1, Regroup
<1>3. LegacyPacket(a) = p \o Trail(a)
  <2>1. LegacyPacket(a) = Header(a) \o (Payload(a) \o Trail(a))
    BY PacketIs
  <2>2. (Header(a) \o Payload(a)) \o Trail(a) = Header(a) \o (Payload(a) \o Trail(a))
    BY <1>1, Regroup
  <2> QED
    BY <1>2, <2>1, <2>2
<1> QED
  BY <1>2, <1>3

(* Zeros after the frames are taken for an empty frame that is the last. *)
LEMMA ReadsZeros ==
    ASSUME NEW a \in AudioData, packet = LegacyPacket(a), pos = Len(Header(a) \o Payload(a)),
           pos < Len(packet), Codec = OPUS
    PROVE  FrameAt # Invalid /\ FrameAt.size = 0 /\ FrameAt.last
<1>1. PICK p \in Seq(Byte) : p = Header(a) \o Payload(a) /\ packet = p \o Trail(a)
  BY BeforeTrail
<1>3. From(pos) = Trail(a)
  BY <1>1, PacketIs, AfterPrefix DEF From
<1>4. a.positional
  <2>1. CASE ~a.positional
    <3>1. Trail(a) = <<>>
      BY <2>1 DEF Trail
    <3>2. Len(packet) = pos
      BY <1>1, <3>1
    <3> QED
      BY <1>1, <3>2
  <2> QED
    BY <2>1
<1>5. From(pos) = [i \in 1..12 |-> 0]
  BY <1>3, <1>4 DEF Trail
<1> DEFINE z == <<0, 0, 0, 0, 0, 0, 0, 0>>
<1>6. z \in Magnitude /\ Zeros(z, 8) /\ z[7] = 0 /\ z[8] = 0
  BY DEF Magnitude, Byte, Zeros
<1>7. Decode(From(pos)) = [value |-> [neg |-> FALSE, mag |-> z], size |-> 1]
  <2>1. PICK s : s = From(pos)
    OBVIOUS
  <2>2. s # <<>> /\ s[1] = 0 /\ Len(s) = 12
    BY <1>5, <2>1
  <2>3. ~Signed(s) /\ Needed(s[1]) = 1 /\ Bits(s) = z
    BY <2>2 DEF Signed, Needed, Bits
  <2>4. Readable(s)
    BY <2>2, <2>3 DEF Readable
  <2>5. Read(s, FALSE, 0) = Number(FALSE, z, 1)
    <3>1. ~(s[1] >= 252)
      BY <2>2
    <3>2. 0 + Needed(s[1]) = 1
      BY <2>3
    <3> QED
      BY <2>3, <2>4, <3>1, <3>2 DEF Read
  <2> QED
    BY <1>6, <2>1, <2>3, <2>5 DEF Decode, Number
<1> HIDE DEF z
<1>8. Decode(From(pos)) # Invalid
  BY <1>7 DEF Invalid
<1>9. Low16([neg |-> FALSE, mag |-> z]) = 0
  BY <1>6 DEF Low16
<1>10. FrameAt # Invalid /\ FrameAt.size = 0 /\ FrameAt.last
  <2>1. PICK w : w = Decode(From(pos))
    OBVIOUS
  <2>2. w # Invalid /\ Low16(w.value) = 0
    BY <1>7, <1>8, <1>9, <2>1
  <2>3. PICK low \in Nat, n \in Nat : low = Low16(w.value) /\ n = 0 /\ Masked(low, n, FALSE)
    <3>1. ASSUME NEW x \in Nat, x = 0 PROVE Masked(x, x, FALSE)
      BY <3>1 DEF Masked, Unmarked
    <3>2. PICK x \in Nat : x = 0
      OBVIOUS
    <3>3. Masked(x, x, FALSE) /\ x = Low16(w.value)
      BY <2>2, <3>1, <3>2
    <3> QED
      BY <3>2, <3>3, Zenon
  <2>4. FrameAt = [start |-> pos + w.size, size |-> n, last |-> Unmarked(low)]
    BY <2>1, <2>2, <2>3 DEF FrameAt, Masked, Unmarked
  <2>5. FrameAt.size = n /\ (FrameAt.last <=> ~FALSE)
    <3>1. Unmarked(low) <=> ~FALSE
      BY <2>3, Zenon DEF Masked
    <3>2. FrameAt.last = Unmarked(low) /\ FrameAt.size = n
      BY <2>4, Zenon
    <3> QED
      BY <3>1, <3>2, Zenon
  <2>6. FrameAt # Invalid
    BY <2>4 DEF Invalid
  <2> QED
    BY <2>3, <2>5, <2>6
<1> QED
  BY <1>10

(***************************************************************************)
(* The steps of the reader.                                                *)
(***************************************************************************)
LEMMA NoneBefore ==
    /\ NonemptyBefore(1) = 0
    /\ audio.frames[1] = 0 => NonemptyBefore(2) = 0
<1>1. {j \in 1..1-1 : audio.frames[j] > 0} = {}
  OBVIOUS
<1>2. audio.frames[1] = 0 => {j \in 1..2-1 : audio.frames[j] > 0} = {}
  OBVIOUS
<1> QED
  BY <1>1, <1>2, FS_EmptySet DEF NonemptyBefore

LEMMA ReadsSize ==
    ASSUME NEW bytes, NEW mark, NEW next, Reads(bytes, mark, next)
    PROVE  FrameAt # Invalid /\ FrameAt.size = Len(bytes) /\ FrameAt.start + FrameAt.size = next
BY DEF Reads

LEMMA FirstFrame == ASSUME NEW a \in AudioData PROVE 1 \in 1..Len(a.frames)
BY FramesOf

LEMMA Hears ==
    ASSUME audio \in AudioData, Passed(audio), ReadingOK, Reading, NEW k \in 1..Len(audio.frames),
           NEW next, Reads(FrameBytes(k, audio.frames[k]), audio.marked, next),
           NonemptyBefore(k) = 0, audio.frames[k] > 0, Play(FrameAt), UNCHANGED audio
    PROVE  /\ packet' = Overwritten /\ HeardAsSent'
           /\ \E h \in heard' : h.data = FrameBytes(k, audio.frames[k])
<1> DEFINE bytes == FrameBytes(k, audio.frames[k])
           h == [session |-> audio.session, sequence |-> audio.sequence,
                 ahead |-> NonemptyBefore(k), target |-> audio.target, data |-> bytes]
<1>1. /\ packet = LegacyPacket(audio) /\ heard = {} /\ ahead = 0
      /\ session = audio.session /\ sequence = audio.sequence /\ target = audio.target
  BY DEF ReadingOK
<1>2. Codec = OPUS /\ session \in Known
  BY <1>1, CodecRead DEF Passed
<1>3. FrameAt.size > 0
  <2>1. k \in 1..2 /\ audio.frames[k] \in Nat
    BY FramesOf
  <2>2. Len(bytes) = audio.frames[k]
    BY <2>1, FrameBytesAre
  <2>3. FrameAt.size = Len(bytes)
    BY ReadsSize
  <2> QED
    BY <2>2, <2>3
<1>4. heard' = heard \cup {Frame(FrameAt)} /\ packet' = Overwritten
  BY <1>2, <1>3 DEF Play
<1>5. Frame(FrameAt) = h
  BY <1>1 DEF Frame, Reads
<1>6. heard' = {h}
  BY <1>1, <1>4, <1>5
<1>7. k \in DOMAIN audio.frames
  BY FramesOf
<1>8. HeardAsSent'
  <2>1. /\ audio'.session \in Known /\ audio'.codec = OPUS /\ k \in DOMAIN audio'.frames
        /\ h = [session |-> audio'.session, sequence |-> audio'.sequence,
                ahead |-> NonemptyBefore(k)', target |-> audio'.target,
                data |-> FrameBytes(k, audio'.frames[k])]
    BY <1>7 DEF Passed, NonemptyBefore
  <2> HIDE DEF h
  <2> QED
    BY <1>6, <2>1 DEF HeardAsSent
<1> QED
  BY <1>4, <1>6, <1>8

LEMMA SkipsFrame ==
    ASSUME audio \in AudioData, NEW k \in 1..Len(audio.frames), NEW next,
           Reads(FrameBytes(k, audio.frames[k]), audio.marked, next),
           audio.frames[k] = 0, Play(FrameAt)
    PROVE  UNCHANGED <<heard, packet, ahead>>
<1>1. Len(FrameBytes(k, audio.frames[k])) = 0
  <2>1. k \in 1..2 /\ 0 \in Nat
    BY FramesOf
  <2>2. Len(FrameBytes(k, 0)) = 0
    BY <2>1, FrameBytesAre
  <2> QED
    BY <2>2
<1>2. FrameAt.size = Len(FrameBytes(k, audio.frames[k]))
  BY ReadsSize
<1>3. ~(FrameAt.size > 0)
  BY <1>1, <1>2
<1> QED
  BY <1>3 DEF Play

LEMMA ChunkSeq ==
    ASSUME NEW a \in AudioData, NEW k \in 1..Len(a.frames)
    PROVE  ChunkOf(a, k) \in Seq(Byte) /\ Len(ChunkOf(a, k)) > 0
BY ChunkBytes

(* Where the frames begin. *)
LEMMA FramesBegin ==
    ASSUME NEW a \in AudioData, a.codec = OPUS
    PROVE  /\ \E rest \in Seq(Byte) : Cut(LegacyPacket(a), Header(a), ChunkOf(a, 1), rest)
           /\ Len(a.frames) = 2 =>
                 \E rest \in Seq(Byte) : Cut(LegacyPacket(a), Header(a) \o ChunkOf(a, 1), ChunkOf(a, 2), rest)
           /\ Len(a.frames) = 1 => Header(a) \o ChunkOf(a, 1) = Header(a) \o Payload(a)
           /\ Len(a.frames) = 2 => (Header(a) \o ChunkOf(a, 1)) \o ChunkOf(a, 2) = Header(a) \o Payload(a)
           /\ Header(a) \o ChunkOf(a, 1) \in Seq(Byte)
           /\ Len(Header(a)) < Len(LegacyPacket(a))
<1>1. PICK h \in Seq(Byte), t \in Seq(Byte), p \in Seq(Byte) :
         h = Header(a) /\ t = Trail(a) /\ p = Payload(a) /\ LegacyPacket(a) = h \o (p \o t)
  BY PacketIs, PayloadIs
<1>2. PICK c \in Seq(Byte) : c = ChunkOf(a, 1) /\ Len(c) > 0
  BY FirstFrame, ChunkSeq
<1>3. Header(a) \o ChunkOf(a, 1) \in Seq(Byte)
  BY <1>1, <1>2, Regroup
<1>4. Len(LegacyPacket(a)) = Len(h) + Len(p) + Len(t)
  BY <1>1, PacketIs
<1> DEFINE P1 == \E rest \in Seq(Byte) : Cut(LegacyPacket(a), Header(a), ChunkOf(a, 1), rest)
           P2 == \E rest \in Seq(Byte) : Cut(LegacyPacket(a), Header(a) \o ChunkOf(a, 1), ChunkOf(a, 2), rest)
<1>5. CASE Len(a.frames) = 1
  <2>1. p = c
    BY <1>1, <1>2, <1>5, PayloadIs
  <2>2. Cut(LegacyPacket(a), Header(a), ChunkOf(a, 1), t)
    BY <1>1, <1>2, <2>1 DEF Cut
  <2>3. Len(Header(a)) < Len(LegacyPacket(a))
    BY <1>1, <1>2, <1>4, <2>1
  <2>4. P1 /\ Header(a) \o ChunkOf(a, 1) = Header(a) \o Payload(a)
    BY <1>1, <1>2, <2>1, <2>2
  <2>5. Len(a.frames) # 2
    BY <1>5
  <2> HIDE DEF P1, P2
  <2> QED
    BY <1>3, <1>5, <2>3, <2>4, <2>5, Zenon DEF P1
<1>6. CASE Len(a.frames) = 2
  <2>1. PICK d \in Seq(Byte) : d = ChunkOf(a, 2) /\ Len(d) > 0
    <3>1. 2 \in 1..Len(a.frames)
      BY <1>6
    <3> QED
      BY <3>1, ChunkSeq
  <2>2. p = c \o d
    BY <1>1, <1>2, <1>6, <2>1, PayloadIs
  <2>3. PICK r \in Seq(Byte) : r = d \o t
    BY Regroup
  <2>4. p \o t = c \o r
    <3>1. (c \o d) \o t = c \o (d \o t)
      BY Associative, SMTT(30)
    <3> QED
      BY <2>2, <2>3, <3>1
  <2>5. Cut(LegacyPacket(a), Header(a), ChunkOf(a, 1), r)
    BY <1>1, <1>2, <2>4 DEF Cut
  <2>6. PICK hc \in Seq(Byte) : hc = h \o c
    BY Regroup
  <2>7. LegacyPacket(a) = hc \o r
    <3>1. (h \o c) \o r = h \o (c \o r)
      BY Associative, SMTT(30)
    <3> QED
      BY <1>1, <2>4, <2>6, <3>1
  <2>8. Cut(LegacyPacket(a), Header(a) \o ChunkOf(a, 1), ChunkOf(a, 2), t)
    BY <1>1, <1>2, <2>1, <2>3, <2>6, <2>7 DEF Cut
  <2>9. (Header(a) \o ChunkOf(a, 1)) \o ChunkOf(a, 2) = Header(a) \o Payload(a)
    <3>1. (h \o c) \o d = h \o (c \o d)
      BY Associative, SMTT(30)
    <3> QED
      BY <1>1, <1>2, <2>1, <2>2, <2>6, <3>1
  <2>10. Len(Header(a)) < Len(LegacyPacket(a))
    <3>1. Len(p) = Len(c) + Len(d)
      BY <2>2, Regroup
    <3>2. Len(h) \in Nat /\ Len(c) \in Nat /\ Len(d) \in Nat /\ Len(t) \in Nat
      OBVIOUS
    <3> QED
      BY <1>1, <1>2, <1>4, <2>1, <3>1, <3>2
  <2>11. P1 /\ P2
    BY <2>5, <2>8
  <2> HIDE DEF P1, P2
  <2>12. Len(a.frames) # 1
    BY <1>6
  <2> QED
    BY <1>3, <2>9, <2>10, <2>11, <2>12, Zenon DEF P1, P2
<1>7. Len(a.frames) = 1 \/ Len(a.frames) = 2
  BY FramesOf
<1> QED
  BY <1>5, <1>6, <1>7, Zenon

LEMMA ArriveStep == ASSUME NEW a \in AudioData, Arrive(a) PROVE InputInv'
<1>1. reader' = "header" /\ packet' = LegacyPacket(a) /\ audio' = a /\ heard' = {}
  BY DEF Arrive
<1>2. AudioOK'
  BY <1>1 DEF AudioOK, AudioData
<1> QED
  BY <1>1, <1>2 DEF InputInv, ReadingOK, Reading, FirstHeard, HeardAsSent

LEMMA HeaderStep == ASSUME InputInv, ReadHeader PROVE InputInv'
<1>1. audio \in AudioData /\ packet = LegacyPacket(audio) /\ heard = {} /\ reader = "header"
  BY DEF InputInv, AudioOK, ReadHeader
<1>2. PICK e \in Nat, q \in Nat :
         /\ Decode(From(1)) = [value |-> audio.session, size |-> e]
         /\ Decode(From(1 + e)) = [value |-> audio.sequence, size |-> q]
         /\ Len(Header(audio)) = 1 + e + q /\ e > 0 /\ q > 0
  <2>1. /\ Len(Encode(audio.session)) \in Nat /\ Len(Encode(audio.session)) > 0
        /\ Len(Encode(audio.sequence)) \in Nat /\ Len(Encode(audio.sequence)) > 0
    BY <1>1, Sent, EncodeBytes
  <2> QED
    BY <1>1, <2>1, HeaderRead
<1>3. /\ reader' = "frame" /\ session' = audio.session /\ sequence' = audio.sequence
      /\ target' = packet[1] % 32 /\ pos' = 1 + e + q /\ terminator' = FALSE /\ ahead' = 0
      /\ UNCHANGED <<packet, heard, audio>>
  <2>1. Decode(From(1)) # Invalid /\ Decode(From(1 + e)) # Invalid
    BY <1>2 DEF Invalid
  <2>2. Decode(From(1)).value = audio.session /\ Decode(From(1)).size = e
    BY <1>2
  <2>3. Decode(From(1 + e)).value = audio.sequence /\ Decode(From(1 + e)).size = q
    BY <1>2
  <2> QED
    BY <2>1, <2>2, <2>3 DEF ReadHeader
<1>4. packet[1] % 32 = audio.target
  BY <1>1, CodecRead
<1>5. AtFrame'
  <2>1. pos' = Len(Header(audio)) /\ audio' = audio
    BY <1>2, <1>3
  <2>2. Header(audio)' = Header(audio)
    BY <2>1 DEF Header
  <2> QED
    BY <1>3, <2>1, <2>2 DEF AtFrame
<1>6. packet' = LegacyPacket(audio')
  BY <1>1, <1>3
<1>7. ReadingOK'
  BY <1>1, <1>3, <1>4, <1>5, <1>6 DEF ReadingOK
<1>8. Reading'
  BY <1>1, <1>3, PacketIs, OverwrittenAssumption DEF Reading
<1>9. AudioOK' /\ FirstHeard' /\ HeardAsSent'
  BY <1>1, <1>3, <1>8 DEF AudioOK, FirstHeard, HeardAsSent
<1> QED
  BY <1>7, <1>9 DEF InputInv

(* A frame that is not passed on leaves nothing but the place in the packet. *)
LEMMA SilentStep ==
    ASSUME audio \in AudioData, InputInv, Reading, UNCHANGED <<reader, packet, heard, ahead, session, sequence, target, audio>>,
           Passed(audio) => AtFrame'
    PROVE  InputInv'
<1>1. ReadingOK' /\ Reading'
  BY DEF InputInv, ReadingOK, Reading, Passed
<1>2. AudioOK'
  BY DEF InputInv, AudioOK
<1>3. HeardAsSent'
  <2>1. heard' = {}
    BY DEF InputInv, ReadingOK
  <2> QED
    BY <2>1 DEF HeardAsSent
<1>4. FirstHeard'
  BY <1>1 DEF FirstHeard
<1> QED
  BY <1>1, <1>2, <1>3, <1>4 DEF InputInv

LEMMA HeardStep ==
    ASSUME audio \in AudioData, InputInv, reader = "frame", UNCHANGED <<reader, audio>>, packet' = Overwritten, HeardAsSent',
           Passed(audio) /\ audio.frames[1] > 0 => \E h \in heard' : h.data = FrameBytes(1, audio.frames[1])
    PROVE  InputInv'
<1>1. ~Reading'
  BY DEF Reading
<1>2. AudioOK' /\ ReadingOK'
  BY <1>1 DEF AudioOK, ReadingOK
<1>3. FirstHeard'
  BY DEF FirstHeard, Passed
<1> QED
  BY <1>2, <1>3 DEF InputInv

LEMMA EndsStep ==
    ASSUME audio \in AudioData, InputInv, reader = "frame", reader' \in {"idle", "ended"}, UNCHANGED <<packet, heard, audio>>,
           Reading /\ Passed(audio) => audio.frames[1] = 0
    PROVE  InputInv'
<1>1. ~Reading' /\ AudioOK' /\ ReadingOK'
  BY DEF Reading, AudioOK, ReadingOK
<1>2. HeardAsSent'
  BY DEF InputInv, HeardAsSent, NonemptyBefore
<1>3. FirstHeard'
  BY FramesOf DEF InputInv, FirstHeard, Passed
<1> QED
  BY <1>1, <1>2, <1>3 DEF InputInv

(* Whoever is not passed on is not heard, whatever the packet is taken for. *)
LEMMA UnheardStep == ASSUME InputInv, ReadFrame, ~Passed(audio) PROVE InputInv'
<1>1. audio \in AudioData /\ reader = "frame" /\ Reading
  BY DEF InputInv, AudioOK, ReadFrame, Reading
<1>2. packet = LegacyPacket(audio) /\ session = audio.session
  BY <1>1 DEF InputInv, ReadingOK
<1>3. ~(session \in Known /\ Codec = OPUS)
  BY <1>1, <1>2, CodecRead DEF Passed
<1>4. UNCHANGED <<session, sequence, target, audio>>
  BY DEF ReadFrame
<1>5. CASE FrameAt = Invalid
  <2>1. reader' = "ended" /\ UNCHANGED <<packet, heard, audio>>
    BY <1>4, <1>5 DEF ReadFrame, Ends
  <2> QED
    BY <1>1, <2>1, EndsStep
<1>6. CASE FrameAt # Invalid
  <2>1. UNCHANGED reader /\ Play(FrameAt)
    BY <1>6 DEF ReadFrame
  <2>2. UNCHANGED <<heard, packet, ahead>>
    BY <1>3, <2>1 DEF Play
  <2> QED
    BY <1>1, <1>4, <2>1, <2>2, SilentStep
<1> QED
  BY <1>5, <1>6

LEMMA FrameStep == ASSUME InputInv, ReadFrame, Passed(audio) PROVE InputInv'
<1>1. audio \in AudioData /\ reader = "frame" /\ Reading /\ ReadingOK
  BY DEF InputInv, AudioOK, ReadFrame, Reading
<1>2. packet = LegacyPacket(audio) /\ AtFrame /\ ~terminator /\ pos < Len(packet)
  BY <1>1 DEF ReadingOK, ReadFrame
<1>3. Codec = OPUS /\ audio.codec = OPUS
  BY <1>1, <1>2, CodecRead DEF Passed
<1>4. UNCHANGED <<session, sequence, target, audio>>
  BY DEF ReadFrame
<1>5. FrameAt # Invalid =>
         /\ terminator' = FrameAt.last /\ pos' = FrameAt.start + FrameAt.size
         /\ Play(FrameAt) /\ UNCHANGED reader
  BY DEF ReadFrame
<1>6. /\ LegacyPacket(audio)' = LegacyPacket(audio) /\ Header(audio)' = Header(audio)
      /\ Payload(audio)' = Payload(audio) /\ ChunkOf(audio, 1)' = ChunkOf(audio, 1)
  BY <1>4 DEF LegacyPacket, Header, Payload, ChunkOf
<1>7. 1 \in 1..Len(audio.frames) /\ audio.frames[1] \in Nat
  BY <1>1, FramesOf
\* The k-th frame is next, those before are empty.
<1>8. ASSUME NEW k \in 1..Len(audio.frames), NEW next, Reads(FrameBytes(k, audio.frames[k]), audio.marked, next),
             k > 1 => k = 2 /\ audio.frames[1] = 0,
             audio.frames[k] = 0 /\ pos' = next => AtFrame'
      PROVE  InputInv'
  <2>1. FrameAt # Invalid /\ FrameAt.start + FrameAt.size = next
    BY <1>8, ReadsSize
  <2>2. Play(FrameAt) /\ UNCHANGED reader /\ pos' = next
    BY <1>5, <2>1
  <2>3. audio.frames[k] \in Nat /\ k \in 1..2
    BY <1>1, FramesOf
  <2>4. CASE audio.frames[k] > 0
    <3>1. NonemptyBefore(k) = 0
      BY <1>8, <2>3, NoneBefore
    <3>2. /\ packet' = Overwritten /\ HeardAsSent'
          /\ \E h \in heard' : h.data = FrameBytes(k, audio.frames[k])
      BY <1>1, <1>4, <1>8, <2>2, <2>4, <3>1, Hears
    <3>3. audio.frames[1] > 0 => k = 1
      BY <1>8, <2>3
    <3> QED
      BY <1>1, <1>4, <2>2, <3>2, <3>3, HeardStep
  <2>5. CASE audio.frames[k] = 0
    <3>1. UNCHANGED <<heard, packet, ahead>>
      BY <1>1, <1>8, <2>2, <2>5, SkipsFrame
    <3>2. AtFrame'
      BY <1>8, <2>2, <2>5
    <3> QED
      BY <1>1, <1>4, <2>2, <3>1, <3>2, SilentStep
  <2> QED
    BY <2>3, <2>4, <2>5
\* Nothing but zeros is left.
<1>9. ASSUME pos = Len(Header(audio) \o Payload(audio)), audio.frames[1] = 0 PROVE InputInv'
  <2>1. FrameAt # Invalid /\ FrameAt.size = 0 /\ FrameAt.last
    BY <1>1, <1>2, <1>3, <1>9, ReadsZeros
  <2>2. Play(FrameAt) /\ UNCHANGED reader /\ terminator'
    BY <1>5, <2>1
  <2>3. UNCHANGED <<heard, packet, ahead>>
    BY <2>1, <2>2 DEF Play
  <2>4. AtFrame'
    BY <1>4, <1>9, <2>2 DEF AtFrame
  <2> QED
    BY <1>1, <1>4, <2>2, <2>3, <2>4, SilentStep
<1>10. PICK h \in Seq(Byte), hc \in Seq(Byte) : h = Header(audio) /\ hc = Header(audio) \o ChunkOf(audio, 1)
  BY <1>1, <1>3, PacketIs, FramesBegin
<1>11. CASE pos = Len(Header(audio))
  <2>1. PICK rest \in Seq(Byte) : Cut(packet, h, ChunkOf(audio, 1), rest)
    BY <1>1, <1>2, <1>3, <1>10, FramesBegin
  <2>2. Reads(FrameBytes(1, audio.frames[1]), audio.marked, Len(hc))
    BY <1>1, <1>3, <1>7, <1>10, <1>11, <2>1, ReadsFrame
  <2>3. audio.frames[1] = 0 /\ pos' = Len(hc) => AtFrame'
    BY <1>4, <1>6, <1>10 DEF AtFrame
  <2>4. ~(1 > 1)
    OBVIOUS
  <2> QED
    BY <1>7, <1>8, <2>2, <2>3, <2>4, Zenon
<1>12. CASE audio.frames[1] = 0 /\ pos = Len(hc)
  <2>1. CASE Len(audio.frames) = 1
    BY <1>1, <1>3, <1>9, <1>10, <1>12, <2>1, FramesBegin
  <2>2. CASE Len(audio.frames) = 2
    <3>1. PICK rest \in Seq(Byte) : Cut(packet, hc, ChunkOf(audio, 2), rest)
      BY <1>1, <1>2, <1>3, <1>10, <2>2, FramesBegin
    <3>2. 2 \in 1..Len(audio.frames)
      BY <2>2
    <3>3. Reads(FrameBytes(2, audio.frames[2]), audio.marked, Len(hc \o ChunkOf(audio, 2)))
      BY <1>1, <1>3, <1>12, <3>1, <3>2, ReadsFrame
    <3>4. hc \o ChunkOf(audio, 2) = Header(audio) \o Payload(audio)
      BY <1>1, <1>3, <1>10, <2>2, FramesBegin
    <3>5. pos' = Len(hc \o ChunkOf(audio, 2)) => AtFrame'
      BY <1>4, <1>6, <1>12, <3>4 DEF AtFrame
    <3> QED
      BY <1>8, <1>12, <3>2, <3>3, <3>5
  <2> QED
    BY <1>1, <2>1, <2>2, FramesOf
<1> QED
  BY <1>2, <1>9, <1>10, <1>11, <1>12 DEF AtFrame

LEMMA InputInductive == InputSpec => []InputInv
<1>1. InputInit => InputInv
  <2> SUFFICES ASSUME InputInit PROVE InputInv
    OBVIOUS
  <2>1. reader = "idle" /\ heard = {} /\ audio.frames = <<>>
    BY DEF InputInit
  <2>2. audio \notin AudioData
    BY <2>1, FramesOf
  <2> QED
    BY <2>1, <2>2 DEF InputInv, AudioOK, ReadingOK, Reading, FirstHeard, HeardAsSent
<1>2. InputInv /\ [InputNext]_inputVars => InputInv'
  <2> SUFFICES ASSUME InputInv, [InputNext]_inputVars PROVE InputInv'
    OBVIOUS
  <2>1. CASE \E a \in AudioData : Arrive(a)
    BY <2>1, ArriveStep
  <2>2. CASE ReadHeader
    BY <2>2, HeaderStep
  <2>3. CASE ReadFrame
    BY <2>3, FrameStep, UnheardStep
  <2>4. CASE LenOfObject
    <3>1. audio \in AudioData /\ ~Reading
      BY <2>4 DEF InputInv, AudioOK, LenOfObject, Reading
    <3>2. reader = "frame" /\ reader' = "ended" /\ UNCHANGED <<packet, heard, audio>>
      BY <2>4 DEF LenOfObject, Ends
    <3> QED
      BY <3>1, <3>2, EndsStep
  <2>5. CASE Handled
    <3>1. audio \in AudioData /\ reader = "frame" /\ Reading /\ ReadingOK
      BY <2>5 DEF InputInv, AudioOK, Handled, Reading
    <3>2. reader' = "idle" /\ UNCHANGED <<packet, heard, audio>> /\ (pos >= Len(packet) \/ terminator)
      BY <2>5 DEF Handled
    <3>3. ASSUME Passed(audio) PROVE audio.frames[1] = 0
      <4>1. AtFrame /\ packet = LegacyPacket(audio) /\ audio.codec = OPUS
        BY <3>1, <3>3 DEF ReadingOK, Passed
      <4>2. CASE pos = Len(Header(audio)) /\ ~terminator
        <5>1. Len(Header(audio)) < Len(packet) /\ Len(Header(audio)) \in Nat /\ Len(packet) \in Nat
          BY <3>1, <4>1, FramesBegin, PacketIs
        <5> QED
          BY <3>2, <4>2, <5>1
      <4> QED
        BY <4>1, <4>2 DEF AtFrame
    <3> QED
      BY <3>1, <3>2, <3>3, EndsStep
  <2>6. CASE UNCHANGED inputVars
    <3>1. /\ UNCHANGED <<reader, packet, heard, ahead, audio>>
          /\ UNCHANGED <<session, sequence, target, pos, terminator>>
      BY <2>6 DEF inputVars
    <3>2. CASE Reading
      <4>1. audio \in AudioData
        BY <3>2 DEF InputInv, AudioOK, Reading
      <4>2. AtFrame => AtFrame'
        BY <3>1 DEF AtFrame, Header, ChunkOf, Payload
      <4>3. Passed(audio) => AtFrame'
        BY <3>2, <4>2 DEF InputInv, ReadingOK
      <4> QED
        BY <3>1, <3>2, <4>1, <4>3, SilentStep
    <3>3. CASE ~Reading
      <4>1. AudioOK' /\ ReadingOK'
        BY <3>1, <3>3 DEF InputInv, AudioOK, ReadingOK, Reading, LegacyPacket
      <4>2. FirstHeard'
        BY <3>1, <3>3 DEF InputInv, FirstHeard, Reading, Passed
      <4>3. HeardAsSent'
        BY <3>1 DEF InputInv, HeardAsSent, NonemptyBefore
      <4> QED
        BY <4>1, <4>2, <4>3 DEF InputInv
    <3> QED
      BY <3>2, <3>3
  <2> QED
    BY <2>1, <2>2, <2>3, <2>4, <2>5, <2>6 DEF InputNext
<1> QED
  BY <1>1, <1>2, PTL DEF InputSpec

(* What the application hears is a whole frame of the packet, with the session,
   target and sequence number it was sent with: AudioData and the reader agree
   on every length and position, for all numbers and frames. *)
THEOREM VoiceHeardAsSent == InputSpec => []HeardAsSent
<1>1. InputInv => HeardAsSent
  BY DEF InputInv
<1> QED
  BY <1>1, InputInductive, PTL

(* The first frame of a packet from a known user is heard, although the
   reader ends with an exception after it. *)
THEOREM FirstFrameIsHeard == InputSpec => []FirstFrameHeard
<1>1. InputInv => FirstFrameHeard
  <2> SUFFICES ASSUME InputInv, reader \in {"idle", "ended"}, audio.frames # <<>>, Passed(audio), audio.frames[1] > 0
               PROVE  \E h \in heard : h.data = FrameBytes(1, audio.frames[1])
    BY DEF FirstFrameHeard, Passed
  <2>1. audio \in AudioData
    BY DEF InputInv, AudioOK
  <2>2. FirstHeard /\ ~Reading /\ reader # "header"
    BY DEF InputInv, Reading
  <2> QED
    BY <2>1, <2>2 DEF FirstHeard
<1> QED
  BY <1>1, InputInductive, PTL
=============================================================================
