------------------------------- MODULE VarInt -------------------------------
(***************************************************************************)
(* The variable-length integers of the voice protocol: class VarInt of     *)
(* tools.py.  A value is a sign and the eight bytes of its magnitude, most *)
(* significant first; byte strings are sequences of bytes.                 *)
(***************************************************************************)
EXTENDS Integers, Sequences

Byte      == 0..255
Magnitude == [1..8 -> Byte]

Zeros(m, n) == \A i \in 1..n : m[i] = 0

\* There is one zero, and it has no sign.
VarInts == {v \in [neg : BOOLEAN, mag : Magnitude] : v.neg => ~Zeros(v.mag, 8)}

(***************************************************************************)
(* encode()                                                                *)
(***************************************************************************)
\* Mutant of Width: the limit of the two-byte form is taken for that of a plain 15-bit number.
WidthWide(m) ==
    IF Zeros(m, 7) /\ m[8] < 128 THEN 1 ELSE
    IF Zeros(m, 6) /\ m[7] < 128 THEN 2 ELSE
    IF Zeros(m, 5) /\ m[6] < 32  THEN 3 ELSE
    IF Zeros(m, 4) /\ m[5] < 16  THEN 4 ELSE
    IF Zeros(m, 4) THEN 5 ELSE 9

\* How many bytes the magnitude m takes: 0x7f, 0x3fff, 0x1fffff, 0xfffffff, 0xffffffff.
Width(m) ==
    IF Zeros(m, 7) /\ m[8] < 128 THEN 1 ELSE
    IF Zeros(m, 6) /\ m[7] < 64  THEN 2 ELSE
    IF Zeros(m, 5) /\ m[6] < 32  THEN 3 ELSE
    IF Zeros(m, 4) /\ m[5] < 16  THEN 4 ELSE
    IF Zeros(m, 4) THEN 5 ELSE 9

Unsigned(m) ==
    CASE Width(m) = 1 -> <<m[8]>>
      [] Width(m) = 2 -> <<128 + m[7], m[8]>>
      [] Width(m) = 3 -> <<192 + m[6], m[7], m[8]>>
      [] Width(m) = 4 -> <<224 + m[5], m[6], m[7], m[8]>>
      [] Width(m) = 5 -> <<240, m[5], m[6], m[7], m[8]>>
      [] OTHER        -> <<244, m[1], m[2], m[3], m[4], m[5], m[6], m[7], m[8]>>

\* -1, -2 and -3 have a form of their own.
Tiny(v) == v.neg /\ Zeros(v.mag, 7) /\ v.mag[8] <= 3

Encode(v) == IF Tiny(v) THEN <<252 + v.mag[8]>>
             ELSE IF v.neg THEN <<248>> \o Unsigned(v.mag)
             ELSE Unsigned(v.mag)

(***************************************************************************)
(* decode()                                                                *)
(***************************************************************************)
\* What decode() does not accept: it raises.
Invalid == [size |-> 0]

\* How many bytes a number has that begins with b; no branch takes a second sign.
Needed(b) == CASE b < 128 \/ b >= 252 -> 1
               [] b \in 128..191      -> 2
               [] b \in 192..223      -> 3
               [] b \in 224..239      -> 4
               [] b \in 240..243      -> 5
               [] b \in 244..247      -> 9
               [] OTHER               -> 0

\* The bytes of a number of Needed(s[1]) bytes, without the marks of the first.
Bits(s) ==
    CASE s[1] < 128       -> <<0, 0, 0, 0, 0, 0, 0, s[1]>>
      [] s[1] >= 252      -> <<0, 0, 0, 0, 0, 0, 0, s[1] - 252>>
      [] s[1] \in 128..191 -> <<0, 0, 0, 0, 0, 0, s[1] - 128, s[2]>>
      [] s[1] \in 192..223 -> <<0, 0, 0, 0, 0, s[1] - 192, s[2], s[3]>>
      [] s[1] \in 224..239 -> <<0, 0, 0, 0, s[1] - 224, s[2], s[3], s[4]>>
      [] s[1] \in 240..243 -> <<0, 0, 0, 0, s[2], s[3], s[4], s[5]>>
      [] OTHER             -> <<s[2], s[3], s[4], s[5], s[6], s[7], s[8], s[9]>>

Number(neg, m, size) == [value |-> [neg |-> neg /\ ~Zeros(m, 8), mag |-> m], size |-> size]

Readable(s) == s # <<>> /\ Needed(s[1]) # 0 /\ Len(s) >= Needed(s[1])
Read(s, neg, before) ==
    IF Readable(s) THEN Number(neg \/ s[1] >= 252, Bits(s), before + Needed(s[1])) ELSE Invalid

Signed(s) == s # <<>> /\ s[1] \in 248..251
Decode(s) == IF Signed(s) THEN Read(Tail(s), TRUE, 1) ELSE Read(s, FALSE, 0)
=============================================================================
