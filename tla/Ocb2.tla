-------------------------------- MODULE Ocb2 --------------------------------
(***************************************************************************)
(* The nonces of the voice packets: class CryptStateOCB2 of                *)
(* crypto/ocb2.py at the receiving end, with a peer that encrypts as the   *)
(* class does and a network that loses, reorders and repeats datagrams.    *)
(*                                                                         *)
(* A nonce is the byte that travels with the packet and the rest, which    *)
(* both ends keep: [hi, lo] for decrypt_iv[1:] and decrypt_iv[0].  The     *)
(* cipher itself is abstract: the tag matches when the receiver uses the   *)
(* key and the nonce the packet was encrypted with.                        *)
(***************************************************************************)
EXTENDS Integers, FiniteSets

CONSTANTS Base,      \* 0x100: values of the byte that travels
          Half,      \* 128
          Window,    \* 30: packets less than this behind are taken as late
          None,      \* an empty place of decrypt_history
          Keys,      \* the keys of successive connections: 1..n
          Start,     \* Start[k]: the nonce CryptSetup gives with key k
          Sends,     \* bound: Sends[k] packets are sent with key k
          Resyncs    \* bound: nonces the server sends outside of CryptSetup with a key

Bytes == 0..Base-1
Nonces == [hi : Nat, lo : Bytes]

ASSUME WidthAssumption == /\ Half \in Nat /\ Half > 1 /\ Base = 2 * Half
                          /\ Window \in Nat /\ Window <= Half
ASSUME KeysAssumption  == /\ 1 \in Keys /\ Keys \subseteq Nat
                          /\ Start \in [Keys -> Nonces]
                          /\ Sends \in [Keys -> Nat] /\ Resyncs \in Nat
ASSUME NoneAssumption  == None \notin Int

VARIABLES
    key,              \* _raw_key
    decrypt_iv, decrypt_history, ui_good, ui_late, ui_lost,
    encrypt_iv,       \* the peer's
    net,              \* datagrams sent, each of which may arrive any number of times
    accepted,         \* history: datagrams accepted since the last CryptSetup
    seen,             \* history: datagrams ever accepted
    origin,           \* history: the nonce of the last CryptSetup
    lostBefore,       \* history: ui_lost at the last CryptSetup
    resyncs           \* number of resyncs so far

counters == <<ui_good, ui_late, ui_lost>>
history  == <<accepted, seen, origin, lostBefore>>
vars     == <<key, decrypt_iv, decrypt_history, counters, encrypt_iv, net, history, resyncs>>

Value(n) == n.hi * Base + n.lo

Init ==
    /\ key = 1
    /\ decrypt_iv = Start[1] /\ encrypt_iv = Start[1]
    /\ decrypt_history = [b \in Bytes |-> None]
    /\ ui_good = 0 /\ ui_late = 0 /\ ui_lost = 0
    /\ net = {} /\ accepted = {} /\ seen = {}
    /\ origin = Start[1] /\ lostBefore = 0 /\ resyncs = 0

(***************************************************************************)
(* The peer's encrypt(): the nonce counts up by one.                       *)
(***************************************************************************)
\* Mutant of NextNonce: the carry out of the first byte is forgotten.
NextNonceNoCarry(n) == [n EXCEPT !.lo = @ + 1]

NextNonce(n) == IF n.lo + 1 < Base THEN [n EXCEPT !.lo = @ + 1]
                                   ELSE [hi |-> n.hi + 1, lo |-> 0]

Encrypt ==
    /\ Value(encrypt_iv) < Value(Start[key]) + Sends[key]
    /\ encrypt_iv' = NextNonce(encrypt_iv)
    /\ net' = net \cup {[key |-> key, iv |-> encrypt_iv']}
    /\ UNCHANGED <<key, decrypt_iv, decrypt_history, counters, history, resyncs>>

(***************************************************************************)
(* decrypt()                                                               *)
(***************************************************************************)
InOrder(b) == (decrypt_iv.lo + 1) % Base = b

\* How far b is ahead of decrypt_iv[0], on the shorter way around.
Diff(b) == LET d == b - decrypt_iv.lo
           IN  IF d > Half THEN d - Base ELSE IF d < -Half THEN d + Base ELSE d

Forward(b) == InOrder(b) \/ Diff(b) > 0
Late(b)    == ~InOrder(b) /\ -Window < Diff(b) /\ Diff(b) < 0

\* Mutant of Candidate: the borrow from the rest of the nonce is forgotten.
CandidateNoBorrow(b) ==
    [lo |-> b, hi |-> IF Forward(b) /\ b < decrypt_iv.lo THEN decrypt_iv.hi + 1 ELSE decrypt_iv.hi]

\* The nonce decrypt() tries for b.
Candidate(b) ==
    [lo |-> b,
     hi |-> CASE Forward(b) /\ b < decrypt_iv.lo -> decrypt_iv.hi + 1
              [] Late(b)    /\ b > decrypt_iv.lo -> decrypt_iv.hi - 1
              [] OTHER                           -> decrypt_iv.hi]

\* Mutant of InHistory: no history at all.
InHistoryNever(b) == FALSE

InHistory(b) == ~InOrder(b) /\ decrypt_history[b] = Candidate(b).hi

Accepts(p) == LET b == p.iv.lo
              IN  /\ Forward(b) \/ Late(b)
                  /\ ~InHistory(b)
                  /\ p.key = key /\ p.iv = Candidate(b)

\* Mutant of Lost: a late packet is not taken off the lost ones.
LostKept(b) == IF Late(b) THEN 0 ELSE Diff(b) - 1

Lost(b) == IF Late(b) THEN -1 ELSE Diff(b) - 1

\* Mutant of NewIv: decrypt_iv is not restored after a late packet.
NewIvMoved(b) == Candidate(b)

NewIv(b) == IF Late(b) THEN decrypt_iv ELSE Candidate(b)

\* Mutant of NewHistory: the nonce is noted down after decrypt_iv is restored.
NoteAfterRestore(b) == [decrypt_history EXCEPT ![NewIv(b).lo] = NewIv(b).hi]

NewHistory(b) == [decrypt_history EXCEPT ![b] = Candidate(b).hi]

\* A packet that is not accepted changes nothing: decrypt_iv is restored.
Decrypt(p) ==
    /\ Accepts(p)
    /\ decrypt_iv' = NewIv(p.iv.lo)
    /\ decrypt_history' = NewHistory(p.iv.lo)
    /\ ui_good' = ui_good + 1
    /\ ui_late' = ui_late + (IF Late(p.iv.lo) THEN 1 ELSE 0)
    /\ ui_lost' = ui_lost + Lost(p.iv.lo)
    /\ accepted' = accepted \cup {p} /\ seen' = seen \cup {p}
    /\ UNCHANGED <<key, encrypt_iv, net, origin, lostBefore, resyncs>>

(***************************************************************************)
(* CryptSetup                                                              *)
(***************************************************************************)
SetNonce(n) == /\ decrypt_iv' = n /\ origin' = n
               /\ accepted' = {} /\ lostBefore' = ui_lost
               /\ UNCHANGED <<decrypt_history, counters, seen>>

\* set_key: a new connection brings a new key and new nonces.
SetKey == /\ key + 1 \in Keys
          /\ key' = key + 1
          /\ encrypt_iv' = Start[key'] /\ SetNonce(Start[key'])
          /\ UNCHANGED <<net, resyncs>>

\* The nonce of the server when it sent the message, which may be an old one.
SentNonces == {Start[key]} \cup {p.iv : p \in {q \in net : q.key = key}}

Resync == /\ resyncs < Resyncs
          /\ resyncs' = resyncs + 1
          /\ \E n \in SentNonces : SetNonce(n)
          /\ UNCHANGED <<key, encrypt_iv, net>>

Next == Encrypt \/ (\E p \in net : Decrypt(p)) \/ SetKey \/ Resync

Spec == Init /\ [][Next]_vars

(***************************************************************************)
(* Properties.                                                             *)
(***************************************************************************)
Packets == [key : Keys, iv : Nonces]

(* The type invariant of the packet cipher. *)
TypeOK ==
    /\ key \in Keys
    /\ decrypt_iv \in Nonces /\ encrypt_iv \in Nonces /\ origin \in Nonces
    /\ decrypt_history \in [Bytes -> Nat \cup {None}]
    /\ ui_good \in Nat /\ ui_late \in Nat /\ ui_lost \in Int /\ lostBefore \in Int
    /\ net \subseteq Packets /\ accepted \subseteq net /\ seen \subseteq net
    /\ resyncs \in Nat

(* Between two CryptSetups decrypt() lets no datagram through twice, however
   often and late the network repeats it. *)
AcceptedOnce == [][ui_good' # ui_good => accepted' # accepted]_vars

(* decrypt_iv is the highest nonce accepted since the last CryptSetup, over
   every wrap of the first byte; late packets leave it there. *)
NonceIsHighest ==
    /\ decrypt_iv = origin \/ \E p \in accepted : p.iv = decrypt_iv
    /\ \A p \in accepted : p.key = key /\ Value(p.iv) <= Value(decrypt_iv)

(* ui_lost, which the pings report to the server, is the number of nonces
   passed since the last CryptSetup for which no packet was accepted. *)
LostCount ==
    ui_lost - lostBefore = Value(decrypt_iv) - Value(origin) - Cardinality(accepted)

(* decrypt_history knows every packet accepted less than Base behind the highest
   nonce, and nothing but packets once accepted: no repeated packet passes for
   a late one, and no late one for a repeated one. *)
Remembered == \A p \in accepted :
    Value(decrypt_iv) < Value(p.iv) + Base => decrypt_history[p.iv.lo] = p.iv.hi
Recorded == \A b \in Bytes : decrypt_history[b] # None =>
    \E p \in seen : p.iv.lo = b /\ p.iv.hi = decrypt_history[b]
HistoryOK == Remembered /\ Recorded

(* Nonces of different keys are never the same (they start at random). *)
KeysApart == \A p, q \in net : p.iv = q.iv => p = q

(* A datagram that comes for the first time, less than Window behind or less
   than Half ahead of the highest one, is not refused. *)
InWindowAccepted ==
    \A p \in net : LET d == Value(p.iv) - Value(decrypt_iv) IN
        p.key = key /\ p \notin seen /\ d # 0 /\ -Window < d /\ d < Half /\ KeysApart => Accepts(p)
=============================================================================
