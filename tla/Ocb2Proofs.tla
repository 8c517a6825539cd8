----------------------------- MODULE Ocb2Proofs -----------------------------
(***************************************************************************)
(* Proofs about Ocb2, for every width of the nonce byte, every late window *)
(* up to half of it, any number of packets, connections and resyncs, and   *)
(* every order in which the network delivers, loses and repeats packets.   *)
(***************************************************************************)
EXTENDS Ocb2, FiniteSetTheorems, TLAPS

USE WidthAssumption DEF Bytes, Nonces

\* Nonces compared as the pairs they are.
Before(m, n) == m.hi < n.hi \/ (m.hi = n.hi /\ m.lo < n.lo)

(* The order of the pairs is the order of the numbers. *)
LEMMA ValueOrder ==
    ASSUME NEW m \in Nonces, NEW n \in Nonces
    PROVE  /\ Value(m) \in Nat /\ Value(n) \in Nat
           /\ Before(m, n) <=> Value(m) < Value(n)
           /\ m = n <=> Value(m) = Value(n)
<1>1. ASSUME NEW x \in Nat, NEW y \in Nat, x < y PROVE x * Base + Base <= y * Base
  <2>1. PICK d \in Nat : y = x + 1 + d
    <3>1. y - x - 1 \in Nat /\ y = x + 1 + (y - x - 1)
      BY <1>1
    <3> QED
      BY <3>1
  <2>2. y * Base = x * Base + Base + d * Base /\ d * Base \in Nat /\ x * Base \in Nat
    BY <2>1
  <2> QED
    BY <2>2
<1>2. /\ m.hi \in Nat /\ n.hi \in Nat /\ m.lo \in 0..Base-1 /\ n.lo \in 0..Base-1
      /\ m.hi * Base \in Nat /\ n.hi * Base \in Nat
  OBVIOUS
<1>3. m.hi < n.hi => Value(m) < Value(n)
  BY <1>1, <1>2 DEF Value
<1>4. n.hi < m.hi => Value(n) < Value(m)
  BY <1>1, <1>2 DEF Value
<1>5. m.hi = n.hi => (Value(m) < Value(n) <=> m.lo < n.lo) /\ (Value(m) = Value(n) <=> m.lo = n.lo)
  BY <1>2 DEF Value
<1>6. m = n <=> m.hi = n.hi /\ m.lo = n.lo
  OBVIOUS
<1> QED
  BY <1>2, <1>3, <1>4, <1>5, <1>6 DEF Before, Value

(* The byte after lo. *)
LEMMA ByteAfter ==
    ASSUME NEW lo \in Bytes
    PROVE  (lo + 1) % Base = IF lo + 1 < Base THEN lo + 1 ELSE 0
OBVIOUS

(* What decrypt() makes of a byte: the nonce it tries is Diff(b) from decrypt_iv. *)
LEMMA CandidateValue ==
    ASSUME decrypt_iv \in Nonces, NEW b \in Bytes, Forward(b) \/ Late(b)
    PROVE  /\ Candidate(b).lo = b /\ Candidate(b).hi \in Int
           /\ Candidate(b) = [hi |-> Candidate(b).hi, lo |-> b]
           /\ Diff(b) \in Int
           /\ Value(Candidate(b)) = Value(decrypt_iv) + Diff(b)
           /\ Late(b) => -Window < Diff(b) /\ Diff(b) < 0 /\ ~Forward(b)
           /\ ~Late(b) => Diff(b) > 0 /\ Candidate(b).hi \in Nat
           /\ \/ Candidate(b).hi = decrypt_iv.hi     /\ Diff(b) = b - decrypt_iv.lo
              \/ Candidate(b).hi = decrypt_iv.hi + 1 /\ Diff(b) = b - decrypt_iv.lo + Base
              \/ Candidate(b).hi = decrypt_iv.hi - 1 /\ Diff(b) = b - decrypt_iv.lo - Base
<1>0. decrypt_iv.lo \in 0..Base-1 /\ decrypt_iv.hi \in Nat /\ b \in 0..Base-1
  OBVIOUS
<1>1. InOrder(b) => Diff(b) = 1
  BY <1>0, ByteAfter DEF InOrder, Diff
<1>2. /\ Diff(b) \in Int
      /\ Late(b) => -Window < Diff(b) /\ Diff(b) < 0 /\ ~Forward(b)
      /\ ~Late(b) => Diff(b) > 0
  BY <1>0, <1>1 DEF Forward, Late, Diff
<1>3. /\ Candidate(b).lo = b /\ Candidate(b).hi \in Int
      /\ Candidate(b) = [hi |-> Candidate(b).hi, lo |-> b]
  BY <1>0 DEF Candidate
<1>4. Forward(b) /\ b < decrypt_iv.lo =>
          Diff(b) = b - decrypt_iv.lo + Base /\ Candidate(b).hi = decrypt_iv.hi + 1
  BY <1>0, <1>1 DEF Forward, Diff, Candidate
<1>5. Late(b) /\ b > decrypt_iv.lo =>
          Diff(b) = b - decrypt_iv.lo - Base /\ Candidate(b).hi = decrypt_iv.hi - 1
  BY <1>0, <1>2 DEF Late, Diff, Candidate
<1>6. Forward(b) /\ ~(b < decrypt_iv.lo) =>
          Diff(b) = b - decrypt_iv.lo /\ Candidate(b).hi = decrypt_iv.hi
  BY <1>0, <1>1 DEF Forward, Late, Diff, Candidate
<1>7. Late(b) /\ ~(b > decrypt_iv.lo) =>
          Diff(b) = b - decrypt_iv.lo /\ Candidate(b).hi = decrypt_iv.hi
  BY <1>0, <1>2 DEF Forward, Late, Diff, Candidate
<1>8. /\ (decrypt_iv.hi + 1) * Base = decrypt_iv.hi * Base + Base
      /\ (decrypt_iv.hi - 1) * Base = decrypt_iv.hi * Base - Base
      /\ decrypt_iv.hi * Base \in Nat
  BY <1>0
<1>9. Value(Candidate(b)) = Value(decrypt_iv) + Diff(b)
  BY <1>0, <1>2, <1>3, <1>4, <1>5, <1>6, <1>7, <1>8 DEF Value
<1>10. ~Late(b) => Candidate(b).hi \in Nat
  BY <1>0, <1>2, <1>4, <1>6
<1>11. \/ Candidate(b).hi = decrypt_iv.hi     /\ Diff(b) = b - decrypt_iv.lo
       \/ Candidate(b).hi = decrypt_iv.hi + 1 /\ Diff(b) = b - decrypt_iv.lo + Base
       \/ Candidate(b).hi = decrypt_iv.hi - 1 /\ Diff(b) = b - decrypt_iv.lo - Base
  BY <1>4, <1>5, <1>6, <1>7
<1> QED
  BY <1>2, <1>3, <1>9, <1>10, <1>11

(* Two nonces less than Base apart are equal if the bytes that travel are. *)
LEMMA SameByte ==
    ASSUME NEW m \in Nonces, NEW n \in Nonces, m.lo = n.lo,
           Value(m) < Value(n) + Base, Value(n) < Value(m) + Base
    PROVE  m = n
<1>1. /\ m = [hi |-> m.hi, lo |-> m.lo] /\ n = [hi |-> n.hi, lo |-> n.lo]
      /\ m.hi \in Nat /\ n.hi \in Nat /\ m.lo \in Bytes
  OBVIOUS
<1>2. ASSUME NEW x \in Nat, NEW y \in Nat, x < y PROVE ~(y * Base + m.lo < x * Base + m.lo + Base)
  <2>1. [hi |-> y, lo |-> m.lo] \in Nonces /\ [hi |-> x + 1, lo |-> m.lo] \in Nonces
    BY <1>1
  <2>2. ~Before([hi |-> y, lo |-> m.lo], [hi |-> x + 1, lo |-> m.lo])
    BY <1>1, <1>2 DEF Before
  <2>3. ~(y * Base + m.lo < (x + 1) * Base + m.lo)
    BY <2>1, <2>2, ValueOrder DEF Value
  <2>4. (x + 1) * Base = x * Base + Base
    BY <1>2
  <2> QED
    BY <2>3, <2>4, <1>1
<1>3. ~(m.hi < n.hi) /\ ~(n.hi < m.hi)
  BY <1>1, <1>2 DEF Value
<1> QED
  BY <1>1, <1>3

(* Nonces less than Half apart: the rests differ by one at most. *)
LEMMA Near ==
    ASSUME NEW m \in Nonces, NEW n \in Nonces,
           Value(m) < Value(n) + Half, Value(n) < Value(m) + Half
    PROVE  \/ m.hi = n.hi     /\ Value(m) - Value(n) = m.lo - n.lo
           \/ m.hi = n.hi + 1 /\ Value(m) - Value(n) = m.lo - n.lo + Base
           \/ n.hi = m.hi + 1 /\ Value(m) - Value(n) = m.lo - n.lo - Base
<1>1. /\ m.hi \in Nat /\ n.hi \in Nat /\ m.lo \in 0..Base-1 /\ n.lo \in 0..Base-1
      /\ m.hi * Base \in Nat /\ n.hi * Base \in Nat
  OBVIOUS
<1>2. ASSUME NEW x \in Nonces, NEW y \in Nonces, Value(y) < Value(x) + Half
      PROVE  y.hi <= x.hi + 1
  <2>1. SUFFICES ASSUME x.hi + 2 <= y.hi PROVE FALSE
    OBVIOUS
  <2> DEFINE z == [hi |-> x.hi + 2, lo |-> 0]
  <2>2. z \in Nonces /\ ~Before(y, z)
    BY <2>1 DEF Before
  <2>3. Value(z) <= Value(y) /\ Value(z) = x.hi * Base + 2 * Base
    <3>1. (x.hi + 2) * Base = x.hi * Base + 2 * Base
      OBVIOUS
    <3>2. Value(z) = x.hi * Base + 2 * Base
      BY <3>1 DEF Value
    <3>3. Value(z) \in Nat /\ Value(y) \in Nat /\ ~(Value(y) < Value(z))
      BY <2>2, ValueOrder
    <3> QED
      BY <3>2, <3>3
  <2>4. Value(x) < x.hi * Base + Base /\ x.hi * Base \in Nat
    BY DEF Value
  <2>5. Value(x) \in Nat /\ Value(y) \in Nat
    BY ValueOrder
  <2> HIDE DEF z
  <2> QED
    BY <1>2, <2>3, <2>4, <2>5
<1>3. m.hi <= n.hi + 1 /\ n.hi <= m.hi + 1
  BY <1>2
<1>4. /\ (n.hi + 1) * Base = n.hi * Base + Base
      /\ (m.hi + 1) * Base = m.hi * Base + Base
  BY <1>1
<1>5. CASE m.hi = n.hi
  BY <1>1, <1>5 DEF Value
<1>6. CASE m.hi = n.hi + 1
  BY <1>1, <1>4, <1>6 DEF Value
<1>7. CASE n.hi = m.hi + 1
  BY <1>1, <1>4, <1>7 DEF Value
<1>8. m.hi = n.hi \/ m.hi = n.hi + 1 \/ n.hi = m.hi + 1
  <2>1. \A i, j \in Nat : i <= j + 1 /\ j <= i + 1 => i = j \/ i = j + 1 \/ j = i + 1
    OBVIOUS
  <2>2. m.hi \in Nat /\ n.hi \in Nat
    BY <1>1
  <2> QED
    BY <1>3, <2>1, <2>2
<1> QED
  BY <1>5, <1>6, <1>7, <1>8

-----------------------------------------------------------------------------
(***************************************************************************)
(* The inductive invariant.  A late packet is told from a repeated one by  *)
(* decrypt_history alone, so what matters is that decrypt_history knows    *)
(* every packet accepted less than Base behind the highest nonce, and      *)
(* nothing that was never accepted.                                        *)
(***************************************************************************)
IInv == /\ TypeOK /\ IsFiniteSet(accepted)
        /\ NonceIsHighest /\ LostCount /\ HistoryOK

(* What decrypt() does with a packet it accepts: the nonce and the count of
   lost packets move together, and the packet is not one accepted before. *)
LEMMA DecryptStep ==
    ASSUME IInv, NEW p \in net, Accepts(p)
    PROVE  /\ p \in Packets /\ p.key = key /\ p \notin accepted
           /\ Candidate(p.iv.lo) = p.iv
           /\ NewIv(p.iv.lo) = decrypt_iv \/ NewIv(p.iv.lo) = p.iv
           /\ NewIv(p.iv.lo) \in Nonces
           /\ Value(decrypt_iv) <= Value(NewIv(p.iv.lo))
           /\ Value(p.iv) <= Value(NewIv(p.iv.lo)) /\ Value(NewIv(p.iv.lo)) < Value(p.iv) + Base
           /\ Lost(p.iv.lo) \in Int
           /\ Lost(p.iv.lo) = Value(NewIv(p.iv.lo)) - Value(decrypt_iv) - 1
<1> DEFINE b == p.iv.lo
<1>1. /\ p \in Packets /\ p.iv \in Nonces /\ decrypt_iv \in Nonces /\ b \in Bytes
      /\ p.key = key /\ Candidate(b) = p.iv /\ ~InHistory(b)
      /\ Forward(b) \/ Late(b)
  BY DEF IInv, TypeOK, Packets, Accepts
<1>2. Value(p.iv) \in Nat /\ Value(decrypt_iv) \in Nat
  BY <1>1, ValueOrder
<1>3. /\ Diff(b) \in Int /\ Value(p.iv) = Value(decrypt_iv) + Diff(b)
      /\ Late(b) => -Window < Diff(b) /\ Diff(b) < 0
      /\ ~Late(b) => Diff(b) > 0
  BY <1>1, CandidateValue
<1>4. p \notin accepted
  <2>1. SUFFICES ASSUME p \in accepted PROVE FALSE
    OBVIOUS
  <2>2. Value(p.iv) <= Value(decrypt_iv)
    BY <2>1 DEF IInv, NonceIsHighest
  <2>3. Late(b) /\ Value(decrypt_iv) < Value(p.iv) + Base
    BY <1>2, <1>3, <2>2
  <2>4. decrypt_history[b] = Candidate(b).hi
    BY <1>1, <2>1, <2>3 DEF IInv, HistoryOK, Remembered
  <2> QED
    BY <1>1, <2>3, <2>4 DEF InHistory, Late
<1>5. /\ Late(b)  => NewIv(b) = decrypt_iv /\ Lost(b) = -1
      /\ ~Late(b) => NewIv(b) = p.iv /\ Lost(b) = Diff(b) - 1
  BY <1>1 DEF NewIv, Lost
<1>6. CASE Late(b)
  <2>1. NewIv(b) = decrypt_iv /\ Lost(b) = -1 /\ Value(NewIv(b)) = Value(decrypt_iv)
    BY <1>5, <1>6
  <2>2. /\ Value(p.iv) <= Value(decrypt_iv) /\ Value(decrypt_iv) < Value(p.iv) + Base
        /\ -1 = Value(decrypt_iv) - Value(decrypt_iv) - 1
    BY <1>2, <1>3, <1>6
  <2> HIDE DEF b
  <2>3. /\ NewIv(b) \in Nonces /\ Value(decrypt_iv) <= Value(NewIv(b))
        /\ Value(p.iv) <= Value(NewIv(b)) /\ Value(NewIv(b)) < Value(p.iv) + Base
        /\ Lost(b) \in Int /\ Lost(b) = Value(NewIv(b)) - Value(decrypt_iv) - 1
    BY <1>1, <1>2, <2>1, <2>2
  <2> QED
    BY <1>1, <1>4, <2>1, <2>3 DEF b
<1>7. CASE ~Late(b)
  <2>1. NewIv(b) = p.iv /\ Lost(b) = Diff(b) - 1 /\ Value(NewIv(b)) = Value(p.iv)
    BY <1>5, <1>7
  <2> HIDE DEF b
  <2>2. /\ NewIv(b) \in Nonces /\ Value(decrypt_iv) <= Value(NewIv(b))
        /\ Value(p.iv) <= Value(NewIv(b)) /\ Value(NewIv(b)) < Value(p.iv) + Base
        /\ Lost(b) \in Int /\ Lost(b) = Value(NewIv(b)) - Value(decrypt_iv) - 1
    BY <1>1, <1>2, <1>3, <1>7, <2>1
  <2> QED
    BY <1>1, <1>4, <2>1, <2>2 DEF b
<1> QED
  BY <1>6, <1>7

(* The first state satisfies the invariant. *)
LEMMA InitHolds == Init => IInv
<1> SUFFICES ASSUME Init PROVE IInv
  OBVIOUS
<1>1. TypeOK
  BY KeysAssumption DEF Init, TypeOK
<1>2. IsFiniteSet(accepted) /\ Cardinality(accepted) = 0
  BY FS_EmptySet DEF Init
<1>3. NonceIsHighest /\ Remembered
  BY DEF Init, NonceIsHighest, Remembered
<1>4. LostCount
  <2>1. Value(Start[1]) \in Nat
    BY KeysAssumption, ValueOrder
  <2> QED
    BY <1>2, <2>1 DEF Init, LostCount
<1>5. Recorded
  BY DEF Init, Recorded
<1> QED
  BY <1>1, <1>2, <1>3, <1>4, <1>5 DEF IInv, HistoryOK

(* A new nonce from the server, whatever it is, begins a new count. *)
LEMMA SetNonceHolds ==
    ASSUME IInv, NEW n \in Nonces, SetNonce(n), net' = net, key' \in Keys,
           encrypt_iv' \in Nonces, resyncs' \in Nat
    PROVE  IInv'
<1>1. TypeOK'
  BY DEF IInv, TypeOK, SetNonce, counters
<1>2. IsFiniteSet(accepted') /\ Cardinality(accepted') = 0
  BY FS_EmptySet DEF SetNonce
<1>3. NonceIsHighest' /\ Remembered'
  BY DEF SetNonce, NonceIsHighest, Remembered
<1>4. LostCount'
  <2>1. Value(n) \in Nat /\ ui_lost \in Int
    BY ValueOrder DEF IInv, TypeOK
  <2>2. /\ ui_lost' = ui_lost /\ lostBefore' = ui_lost
        /\ Value(decrypt_iv)' = Value(n) /\ Value(origin)' = Value(n)
    BY DEF SetNonce, counters, Value
  <2> QED
    BY <1>2, <2>1, <2>2 DEF LostCount
<1>5. Recorded'
  BY DEF IInv, HistoryOK, SetNonce, Recorded
<1> QED
  BY <1>1, <1>2, <1>3, <1>4, <1>5 DEF IInv, HistoryOK

(* decrypt() of any datagram keeps the invariant. *)
LEMMA DecryptHolds ==
    ASSUME IInv, NEW p \in net, Decrypt(p)
    PROVE  IInv'
<1> DEFINE b == p.iv.lo
<1>1. /\ p \in Packets /\ p.iv \in Nonces /\ p.key = key /\ p \notin accepted
      /\ Candidate(b) = p.iv /\ decrypt_iv' \in Nonces
      /\ decrypt_iv' = decrypt_iv \/ decrypt_iv' = p.iv
      /\ Value(decrypt_iv) <= Value(decrypt_iv')
      /\ Value(p.iv) <= Value(decrypt_iv') /\ Value(decrypt_iv') < Value(p.iv) + Base
      /\ Lost(b) \in Int /\ Lost(b) = Value(decrypt_iv') - Value(decrypt_iv) - 1
  BY DecryptStep DEF Decrypt, Packets
<1>2. /\ b \in Bytes /\ p.iv.hi \in Nat /\ Value(p.iv) \in Nat
      /\ Value(decrypt_iv) \in Nat /\ Value(decrypt_iv') \in Nat /\ Value(origin) \in Nat
  BY <1>1, ValueOrder DEF IInv, TypeOK
<1>3. /\ decrypt_history' = [decrypt_history EXCEPT ![b] = p.iv.hi]
      /\ decrypt_history \in [Bytes -> Nat \cup {None}]
      /\ accepted' = accepted \cup {p} /\ seen' = seen \cup {p}
      /\ ui_lost' = ui_lost + Lost(b) /\ lostBefore' = lostBefore
      /\ key' = key /\ net' = net /\ origin' = origin
  BY <1>1 DEF IInv, TypeOK, Decrypt, NewHistory
<1>4. TypeOK'
  <2>1. ui_good' \in Nat /\ ui_late' \in Nat /\ ui_lost' \in Int
    BY <1>1 DEF IInv, TypeOK, Decrypt
  <2>2. decrypt_history' \in [Bytes -> Nat \cup {None}]
    BY <1>2, <1>3
  <2> QED
    BY <1>1, <1>3, <2>1, <2>2 DEF IInv, TypeOK, Decrypt
<1>5. IsFiniteSet(accepted') /\ Cardinality(accepted') = Cardinality(accepted) + 1
  BY <1>1, <1>3, FS_AddElement DEF IInv
<1>6. NonceIsHighest'
  <2>1. decrypt_iv' = origin' \/ \E q \in accepted' : q.iv = decrypt_iv'
    BY <1>1, <1>3 DEF IInv, NonceIsHighest
  <2>2. ASSUME NEW q \in accepted' PROVE q.key = key' /\ Value(q.iv) <= Value(decrypt_iv')
    <3>1. CASE q = p
      BY <1>1, <1>3, <3>1
    <3>2. CASE q \in accepted
      <4>1. q.key = key /\ Value(q.iv) <= Value(decrypt_iv) /\ Value(q.iv) \in Nat
        BY <3>2, ValueOrder DEF IInv, NonceIsHighest, TypeOK, Packets
      <4> QED
        BY <1>1, <1>2, <1>3, <4>1
    <3> QED
      BY <1>3, <3>1, <3>2
  <2>3. \A q \in accepted' : q.key = key' /\ Value(q.iv)' <= Value(decrypt_iv)'
    BY <2>2 DEF Value
  <2> QED
    BY <2>1, <2>3 DEF NonceIsHighest
<1>7. LostCount'
  <2>1. ui_lost - lostBefore = Value(decrypt_iv) - Value(origin) - Cardinality(accepted)
    BY DEF IInv, LostCount
  <2>2. ui_lost \in Int /\ lostBefore \in Int /\ Cardinality(accepted) \in Nat
    BY FS_CardinalityType DEF IInv, TypeOK
  <2>3. ui_lost' - lostBefore' = Value(decrypt_iv') - Value(origin) - Cardinality(accepted')
    <3>1. ui_lost' = ui_lost + (Value(decrypt_iv') - Value(decrypt_iv) - 1) /\ lostBefore' = lostBefore
      BY <1>1, <1>3
    <3> QED
      BY <1>2, <1>5, <2>1, <2>2, <3>1
  <2>4. Value(decrypt_iv)' = Value(decrypt_iv') /\ Value(origin)' = Value(origin)
    BY <1>3 DEF Value
  <2> QED
    BY <2>3, <2>4 DEF LostCount
<1>8. Remembered'
  <2> SUFFICES ASSUME NEW q \in accepted', Value(decrypt_iv') < Value(q.iv) + Base
               PROVE  decrypt_history'[q.iv.lo] = q.iv.hi
    BY DEF Remembered, Value
  <2>1. q.iv \in Nonces /\ q.iv.lo \in Bytes /\ Value(q.iv) \in Nat
    <3>1. q.iv \in Nonces
      BY <1>1, <1>3 DEF IInv, TypeOK, Packets
    <3> QED
      BY <3>1, ValueOrder
  <2>2. Value(q.iv) <= Value(decrypt_iv')
    BY <1>6 DEF NonceIsHighest, Value
  <2>3. CASE q.iv.lo = b
    <3>1. q.iv = p.iv
      BY <1>1, <1>2, <2>1, <2>2, <2>3, SameByte
    <3> QED
      BY <1>2, <1>3, <3>1
  <2>4. CASE q.iv.lo # b
    <3>1. q \in accepted
      BY <1>3, <2>4
    <3>2. Value(decrypt_iv) <= Value(decrypt_iv')
      BY <1>1
    <3>3. Value(decrypt_iv) < Value(q.iv) + Base
      BY <1>2, <2>1, <3>2
    <3>4. decrypt_history[q.iv.lo] = q.iv.hi
      BY <3>1, <3>3 DEF IInv, HistoryOK, Remembered
    <3> QED
      BY <1>3, <2>1, <2>4, <3>4
  <2> QED
    BY <2>3, <2>4
<1>9. Recorded'
  <2> SUFFICES ASSUME NEW c \in Bytes, decrypt_history'[c] # None
               PROVE  \E q \in seen' : q.iv.lo = c /\ q.iv.hi = decrypt_history'[c]
    BY DEF Recorded
  <2>1. CASE c = b
    BY <1>2, <1>3, <2>1
  <2>2. CASE c # b
    BY <1>3, <2>2 DEF IInv, HistoryOK, Recorded
  <2> QED
    BY <2>1, <2>2
<1> QED
  BY <1>4, <1>5, <1>6, <1>7, <1>8, <1>9 DEF IInv, HistoryOK

(* The nonce after a nonce is a nonce. *)
LEMMA NextNonceType == ASSUME NEW n \in Nonces PROVE NextNonce(n) \in Nonces
BY DEF NextNonce

(* Every step keeps the invariant. *)
LEMMA NextHolds == IInv /\ [Next]_vars => IInv'
<1> SUFFICES ASSUME IInv, [Next]_vars PROVE IInv'
  OBVIOUS
<1>1. CASE Encrypt
  <2>1. NextNonce(encrypt_iv) \in Nonces
    BY NextNonceType DEF IInv, TypeOK
  <2>2. TypeOK'
    BY <1>1, <2>1 DEF IInv, TypeOK, Encrypt, counters, history, Packets
  <2>3. UNCHANGED <<key, decrypt_iv, decrypt_history, ui_lost, accepted, seen, origin, lostBefore>>
    BY <1>1 DEF Encrypt, counters, history
  <2> QED
    BY <2>2, <2>3 DEF IInv, NonceIsHighest, LostCount, HistoryOK, Remembered, Recorded, Value
<1>2. ASSUME NEW p \in net, Decrypt(p) PROVE IInv'
  BY <1>2, DecryptHolds
<1>3. CASE SetKey
  BY <1>3, SetNonceHolds, KeysAssumption DEF SetKey, IInv, TypeOK
<1>4. CASE Resync
  <2>1. PICK n \in SentNonces : SetNonce(n)
    BY <1>4 DEF Resync
  <2>2. n \in Nonces
    BY <2>1, KeysAssumption DEF SentNonces, IInv, TypeOK, Packets
  <2>3. net' = net /\ key' \in Keys /\ encrypt_iv' \in Nonces /\ resyncs' \in Nat
    BY <1>4 DEF Resync, IInv, TypeOK
  <2> QED
    BY <2>1, <2>2, <2>3, SetNonceHolds
<1>5. CASE UNCHANGED vars
  BY <1>5 DEF vars, counters, history, IInv, TypeOK, NonceIsHighest,
                   LostCount, HistoryOK, Remembered, Recorded, Value
<1> QED
  BY <1>1, <1>2, <1>3, <1>4, <1>5 DEF Next

(* The inductive invariant of the packet cipher. *)
THEOREM Invariance == Spec => []IInv
BY InitHolds, NextHolds, PTL DEF Spec

(* Type correctness of the packet cipher (ocb2.py lines 25-36). *)
THEOREM TypeCorrect == Spec => []TypeOK
<1>1. IInv => TypeOK
  BY DEF IInv
<1> QED
  BY Invariance, <1>1, PTL

(* decrypt_iv is the highest nonce accepted since the last CryptSetup: late
   packets leave it alone (ocb2.py lines 163-164). *)
THEOREM HighestNonce == Spec => []NonceIsHighest
<1>1. IInv => NonceIsHighest
  BY DEF IInv
<1> QED
  BY Invariance, <1>1, PTL

(* ui_lost counts exactly the nonces passed and never accepted
   (ocb2.py lines 118-142 and 168-170). *)
THEOREM LostIsExact == Spec => []LostCount
<1>1. IInv => LostCount
  BY DEF IInv
<1> QED
  BY Invariance, <1>1, PTL

(* decrypt_history holds exactly what tells late packets from repeated ones
   (ocb2.py lines 148-150 and 161). *)
THEOREM HistoryExact == Spec => []HistoryOK
<1>1. IInv => HistoryOK
  BY DEF IInv
<1> QED
  BY Invariance, <1>1, PTL

(* No datagram is accepted twice between two CryptSetups, whatever the network
   repeats and however late (ocb2.py lines 91-172). *)
THEOREM NoRepeats == Spec => AcceptedOnce
<1>1. IInv /\ [Next]_vars => [ui_good' # ui_good => accepted' # accepted]_vars
  <2> SUFFICES ASSUME IInv, Next, ui_good' # ui_good PROVE accepted' # accepted
    BY DEF vars, counters, history
  <2>1. PICK p \in net : Decrypt(p)
    BY DEF Next, Encrypt, SetKey, Resync, SetNonce, counters
  <2>2. p \notin accepted
    BY <2>1, DecryptStep DEF Decrypt
  <2> QED
    BY <2>1, <2>2 DEF Decrypt
<1> QED
  BY Invariance, <1>1, PTL DEF Spec, AcceptedOnce

(* A packet that comes for the first time within the window is accepted,
   across the wraps of the byte that travels (ocb2.py lines 100-150). *)
THEOREM WindowOpen == Spec => []InWindowAccepted
<1>1. IInv => InWindowAccepted
  <2> SUFFICES ASSUME IInv, NEW p \in net, p.key = key, p \notin seen, KeysApart,
                      Value(p.iv) - Value(decrypt_iv) # 0,
                      -Window < Value(p.iv) - Value(decrypt_iv),
                      Value(p.iv) - Value(decrypt_iv) < Half
               PROVE  Accepts(p)
    BY DEF InWindowAccepted
  <2> DEFINE b == p.iv.lo
             d == Value(p.iv) - Value(decrypt_iv)
  <2>1. /\ p \in Packets /\ p.iv \in Nonces /\ decrypt_iv \in Nonces /\ b \in Bytes
        /\ Value(p.iv) \in Nat /\ Value(decrypt_iv) \in Nat
    BY ValueOrder DEF IInv, TypeOK, Packets
  <2>2. /\ d \in Int /\ d # 0 /\ -Window < d /\ d < Half
        /\ Value(p.iv) < Value(decrypt_iv) + Half /\ Value(decrypt_iv) < Value(p.iv) + Half
    BY <2>1
  <2>3. Diff(b) = d
    BY <2>1, <2>2, Near DEF Diff
  <2>4. Forward(b) \/ Late(b)
    BY <2>2, <2>3 DEF Forward, Late
  <2>5. Candidate(b) = p.iv
    <3>1. p.iv = [hi |-> p.iv.hi, lo |-> b] /\ p.iv.hi \in Nat /\ decrypt_iv.hi \in Nat
      BY <2>1
    <3>2. Candidate(b).hi = p.iv.hi
      <4>1. \/ Candidate(b).hi = decrypt_iv.hi     /\ d = b - decrypt_iv.lo
            \/ Candidate(b).hi = decrypt_iv.hi + 1 /\ d = b - decrypt_iv.lo + Base
            \/ Candidate(b).hi = decrypt_iv.hi - 1 /\ d = b - decrypt_iv.lo - Base
        BY <2>1, <2>3, <2>4, CandidateValue
      <4>2. \/ p.iv.hi = decrypt_iv.hi     /\ d = b - decrypt_iv.lo
            \/ p.iv.hi = decrypt_iv.hi + 1 /\ d = b - decrypt_iv.lo + Base
            \/ decrypt_iv.hi = p.iv.hi + 1 /\ d = b - decrypt_iv.lo - Base
        BY <2>1, <2>2, Near
      <4>3. b \in Int /\ decrypt_iv.lo \in Int
        BY <2>1
      <4> HIDE DEF d, b
      <4> QED
        BY <3>1, <4>1, <4>2, <4>3
    <3>3. Candidate(b) = [hi |-> Candidate(b).hi, lo |-> b]
      BY <2>1, <2>4, CandidateValue
    <3> QED
      BY <3>1, <3>2, <3>3
  <2>6. ~InHistory(b)
    <3>1. SUFFICES ASSUME decrypt_history[b] = p.iv.hi PROVE FALSE
      BY <2>5 DEF InHistory
    <3>2. PICK q \in seen : q.iv.lo = b /\ q.iv.hi = p.iv.hi
      BY <2>1, <3>1, NoneAssumption DEF IInv, HistoryOK, Recorded
    <3>3. q \in net /\ q.iv \in Nonces
      BY <3>2 DEF IInv, TypeOK, Packets
    <3>4. q.iv = p.iv
      BY <2>1, <3>2, <3>3
    <3> QED
      BY <3>2, <3>3, <3>4 DEF KeysApart
  <2> QED
    BY <2>4, <2>5, <2>6 DEF Accepts
<1> QED
  BY Invariance, <1>1, PTL
=============================================================================
