--------------------------- MODULE VoiceStackProofs ---------------------------
(***************************************************************************)
(* Proofs about VoiceStack, for any number of _sync threads, listeners,    *)
(* connections and outages, and any of the events.                         *)
(***************************************************************************)
EXTENDS VoiceStack, TLAPS

USE BoundsAssumption

(* A thread is of one kind. *)
LEMMA ThreadKinds ==
    /\ \A s \in Syncs : s \in Threads /\ s \in Readers /\ s \notin Listeners /\ s \notin Workers
    /\ \A l \in Listeners : l \in Threads /\ l \in Readers /\ l \notin Syncs /\ l \notin Workers
    /\ \A w \in Workers : w \in Threads /\ w \notin Readers
    /\ \A r \in Readers : r \in Syncs \/ r \in Listeners
BY ThreadsAssumption DEF Threads, Readers

(* Where the threads of each kind may be. *)
LEMMA LabelsOf ==
    /\ Labels("control") = {"idle", "crypt", "dead"}
    /\ Labels("ping") = {"idle", "send", "age", "dead"}
    /\ Labels("app") = {"idle", "send"}
    /\ Labels("stop") = {"idle", "shutdown", "exit", "join", "done", "raised"}
    /\ \A s \in Syncs : Labels(s) = ReaderLabels \cup {"begin", "send"}
    /\ \A l \in Listeners : Labels(l) = ReaderLabels \cup {"new", "check"}
BY ThreadKinds DEF Labels, Workers

(* The labels of a thread are labels. *)
LEMMA LabelsInAll == \A t \in Threads : \A label \in Labels(t) : label \in AllLabels
BY DEF AllLabels

(* A step of one thread to one of its labels moves no other thread. *)
LEMMA GotoOK ==
    ASSUME PcOK, NEW t \in Threads, NEW label \in Labels(t), Goto(t, label)
    PROVE  PcOK' /\ pc'[t] = label /\ \A u \in Threads \ {t} : pc'[u] = pc[u]
BY LabelsInAll DEF PcOK, Goto

(***************************************************************************)
(* Types.                                                                  *)
(***************************************************************************)
(* Every step of every thread keeps the types. *)
LEMMA TypeStep == TypeOK /\ [Next]_vars => TypeOK'
<1> SUFFICES ASSUME TypeOK, [Next]_vars PROVE TypeOK'
  OBVIOUS
<1> USE LabelsOf, ThreadKinds DEF TypeOK, stack, lock, conn, net, vars, Workers, ReaderLabels
<1>1. CASE Connect
  <2>1. PcOK'
    <3>1. "control" \in Threads /\ "ping" \in Threads
      OBVIOUS
    <3>2. pc' \in [Threads -> AllLabels]
      BY <1>1, <3>1, LabelsInAll DEF Connect, PcOK
    <3>3. ASSUME NEW t \in Threads PROVE pc'[t] \in Labels(t)
      BY <1>1, <3>1 DEF Connect, PcOK
    <3> QED
      BY <3>2, <3>3 DEF PcOK
  <2>2. asked' \subseteq {"pong", "old", "junk"} /\ inbox' \subseteq {"pong", "old", "junk"}
    BY <1>1 DEF Connect
  <2>3. key' \in {"none", "old", "good"} /\ session' \in 0..Sessions
    BY <1>1 DEF Connect
  <2> QED
    BY <1>1, <2>1, <2>2, <2>3 DEF Connect
<1>2. CASE Lose
  BY <1>2 DEF Lose, PcOK
<1>3. CASE Answer
  BY <1>3 DEF Answer, PcOK
<1>4. CASE Junk
  BY <1>4 DEF Junk, PcOK
<1>5. CASE Fail
  BY <1>5 DEF Fail, PcOK
<1>6. CASE Silence
  BY <1>6 DEF Silence, PcOK
<1>7. CASE CryptMessage
  <2>1. PcOK'
    BY <1>7, GotoOK DEF CryptMessage
  <2> QED
    BY <1>7, <2>1 DEF CryptMessage, Hold
<1>8. CASE CryptSetup
  <2>1. PcOK'
    BY <1>8, GotoOK DEF CryptSetup, Raise
  <2>2. /\ key' \in {"none", "old", "good"}
        /\ asked' \subseteq {"pong", "old", "junk"} /\ inbox' \subseteq {"pong", "old", "junk"}
    <3>1. CASE SetKey
      BY <3>1 DEF SetKey
    <3>2. CASE UNCHANGED <<key, asked, inbox>>
      BY <3>2
    <3> QED
      BY <1>8, <3>1, <3>2 DEF CryptSetup
  <2>3. got' \in [Threads -> {"pong", "old", "junk", "key", "nonce", "request", None}]
    BY <1>8 DEF CryptSetup, SetKey, Hold
  <2>4. crypt' \in Threads \cup {None}
    BY <1>8 DEF CryptSetup, LockLeft
  <2> QED
    BY <1>8, <2>1, <2>2, <2>3, <2>4 DEF CryptSetup
<1>9. CASE ServerSync
  <2>1. PcOK'
    BY <1>9, GotoOK DEF ServerSync, Off
  <2> QED
    BY <1>9, <2>1 DEF ServerSync
<1>10. CASE PingFire
  <2>1. PcOK'
    BY <1>10, GotoOK DEF PingFire
  <2> QED
    BY <1>10, <2>1 DEF PingFire, NewPing, Outdated
<1>11. CASE PingAge
  <2>1. PcOK'
    BY <1>11, GotoOK DEF PingAge
  <2> QED
    BY <1>11, <2>1 DEF PingAge
<1>12. CASE AppCall
  <2>1. PcOK'
    BY <1>12, GotoOK DEF AppCall
  <2> QED
    BY <1>12, <2>1 DEF AppCall
<1>13. ASSUME NEW t \in {"ping", "app"} \cup Syncs, SendPacket(t) PROVE TypeOK'
  <2>1. PcOK'
    <3>1. PICK label \in Labels(t) : Goto(t, label)
      BY <1>13 DEF SendPacket, EncryptRaises, SendTo, Raise, Sent, RecvLabel
    <3> QED
      BY <3>1, GotoOK
  <2>2. exit' \in BOOLEAN /\ crypt' \in Threads \cup {None} /\ asked' \subseteq {"pong", "old", "junk"}
    BY <1>13 DEF SendPacket, EncryptRaises, SendTo, LockLeft
  <2> QED
    BY <1>13, <2>1, <2>2 DEF SendPacket
<1>14. CASE StopBegin
  <2>1. PcOK'
    BY <1>14, GotoOK DEF StopBegin
  <2> QED
    BY <1>14, <2>1 DEF StopBegin
<1>15. CASE Stop
  <2>1. PcOK'
    BY <1>15, GotoOK DEF Stop, StopShutdown, StopExit, StopJoin
  <2> QED
    BY <1>15, <2>1 DEF Stop, StopShutdown, StopExit, StopJoin
<1>16. ASSUME NEW s \in Syncs, SyncBegin(s) PROVE TypeOK'
  <2>1. PcOK'
    BY <1>16, GotoOK DEF SyncBegin
  <2> QED
    BY <1>16, <2>1 DEF SyncBegin, NewPing, Outdated
<1>17. ASSUME NEW r \in Readers, Recv(r) PROVE TypeOK'
  <2>1. PcOK'
    BY <1>17, GotoOK DEF Recv, Receive, Timeout, ReceiveEmpty, LeaveLock, Goto
  <2>2. /\ exit' \in BOOLEAN /\ crypt' \in Threads \cup {None}
        /\ inbox' \subseteq {"pong", "old", "junk"}
        /\ got' \in [Threads -> {"pong", "old", "junk", "key", "nonce", "request", None}]
    BY <1>17 DEF Recv, Receive, Timeout, ReceiveEmpty, LeaveLock, LockLeft, Hold
  <2> QED
    BY <1>17, <2>1, <2>2 DEF Recv, Receive, Timeout, ReceiveEmpty
<1>18. ASSUME NEW r \in Readers, ReceiveAudio(r) PROVE TypeOK'
  <2>1. PcOK'
    <3>1. Back(r) \in Labels(r)
      BY DEF Back
    <3> QED
      BY <1>18, <3>1, GotoOK DEF ReceiveAudio
  <2> QED
    BY <1>18, <2>1 DEF ReceiveAudio
<1>19. ASSUME NEW r \in Readers, HandlePing(r), crypt' \in Threads \cup {None} PROVE TypeOK'
  <2>1. PcOK'
    <3>1. PICK label \in Labels(r) : Goto(r, label)
      BY <1>19 DEF HandlePing, Raise, Back
    <3> QED
      BY <3>1, GotoOK
  <2> QED
    BY <1>19, <2>1 DEF HandlePing, Hold
<1>20. ASSUME NEW s \in Syncs, SyncHandle(s) PROVE TypeOK'
  BY <1>19, <1>20 DEF SyncHandle, LockLeft
<1>21. ASSUME NEW l \in Listeners, ListenHandle(l) PROVE TypeOK'
  BY <1>19, <1>21 DEF ListenHandle
<1>22. ASSUME NEW l \in Listeners, ListenCheck(l) PROVE TypeOK'
  <2>1. PcOK'
    BY <1>22, GotoOK DEF ListenCheck, RecvLabel
  <2> QED
    BY <1>22, <2>1 DEF ListenCheck
<1>23. ASSUME NEW r \in Readers, Enable(r) PROVE TypeOK'
  <2>1. PcOK'
    <3>1. PICK l \in Listeners : pc' = [pc EXCEPT ![l] = "new", ![r] = "start"]
      BY <1>23 DEF Enable, Off
    <3>2. pc' \in [Threads -> AllLabels]
      BY <3>1, LabelsInAll DEF PcOK
    <3>3. ASSUME NEW t \in Threads PROVE pc'[t] \in Labels(t)
      BY <3>1 DEF PcOK
    <3> QED
      BY <3>2, <3>3 DEF PcOK
  <2> QED
    BY <1>23, <2>1 DEF Enable, Off
<1>24. ASSUME NEW r \in Readers, Start(r) PROVE TypeOK'
  <2>1. Back(r) \in Labels(r)
    BY DEF Back
  <2>2. CASE pc[listener] = "new"
    <3>1. listener \in Listeners /\ pc' = [pc EXCEPT ![listener] = "check", ![r] = Back(r)]
      BY <1>24, <2>2 DEF Start
    <3>2. pc' \in [Threads -> AllLabels]
      BY <2>1, <3>1, LabelsInAll DEF PcOK
    <3>3. ASSUME NEW t \in Threads PROVE pc'[t] \in Labels(t)
      BY <2>1, <3>1 DEF PcOK
    <3> QED
      BY <1>24, <3>2, <3>3 DEF Start, PcOK
  <2>3. CASE pc[listener] # "new"
    <3>1. PcOK'
      BY <1>24, <2>3, GotoOK DEF Start, Raise
    <3> QED
      BY <1>24, <2>3, <3>1 DEF Start
  <2> QED
    BY <2>2, <2>3
<1>25. CASE UNCHANGED vars
  BY <1>25 DEF PcOK
<1> QED
  BY <1>1, <1>2, <1>3, <1>4, <1>5, <1>6, <1>7, <1>8, <1>9, <1>10, <1>11, <1>12, <1>13, <1>14, <1>15,
     <1>16, <1>17, <1>18, <1>20, <1>21, <1>22, <1>23, <1>24, <1>25
     DEF Next, Network, Control, Ping, App, Sync, Listen, EnableUdp

(***************************************************************************)
(* _crypt_lock.                                                            *)
(***************************************************************************)
(* Without an event that can leave the lock, no step leaves it: who sends or
   reads has a key, and what it reads decrypts. *)
LEMMA UndisturbedStep == IInv /\ Harmless /\ [Next]_vars => Undisturbed'
<1> SUFFICES ASSUME TypeOK, Undisturbed, Harmless, [Next]_vars PROVE Undisturbed'
  BY DEF IInv
<1>0. pc \in [Threads -> AllLabels] /\ got \in [Threads -> {"pong", "old", "junk", "key", "nonce", "request", None}]
  BY DEF TypeOK, PcOK
<1> USE <1>0, ThreadKinds, ThreadsAssumption DEF Undisturbed, Harmless, LockFree, KeyFirst, NoJunk, stack, lock, conn, net, vars, Workers, Goto, Hold
<1>1. CASE Connect
  BY <1>1 DEF Connect
<1>2. CASE Lose
  BY <1>2 DEF Lose
<1>3. CASE Answer
  BY <1>3 DEF Answer
<1>4. CASE Junk
  BY <1>4 DEF Junk
<1>5. CASE Fail
  BY <1>5 DEF Fail
<1>6. CASE Silence
  BY <1>6 DEF Silence
<1>7. CASE CryptMessage
  BY <1>7 DEF CryptMessage
<1>8. CASE CryptSetup
  BY <1>8 DEF CryptSetup, SetKey
<1>9. CASE ServerSync
  <2>1. PICK s \in Syncs : pc' = [pc EXCEPT ![s] = "begin"]
    BY <1>9 DEF ServerSync, Off
  <2> QED
    BY <1>9, <2>1 DEF ServerSync
<1>10. CASE PingFire
  BY <1>10 DEF PingFire, NewPing, Outdated
<1>11. CASE PingAge
  BY <1>11 DEF PingAge
<1>12. CASE AppCall
  BY <1>12 DEF AppCall
<1>13. ASSUME NEW t \in {"ping", "app"} \cup Syncs, SendPacket(t) PROVE Undisturbed'
  BY <1>13 DEF SendPacket, EncryptRaises, SendTo, Raise, Sent, RecvLabel
<1>14. CASE StopBegin
  BY <1>14 DEF StopBegin
<1>15. CASE Stop
  BY <1>15 DEF Stop, StopShutdown, StopExit, StopJoin
<1>16. ASSUME NEW s \in Syncs, SyncBegin(s) PROVE Undisturbed'
  BY <1>16 DEF SyncBegin, NewPing, Outdated
<1>17. ASSUME NEW r \in Readers, Recv(r) PROVE Undisturbed'
  BY <1>17 DEF Recv, Receive, Timeout, ReceiveEmpty
<1>18. ASSUME NEW r \in Readers, ReceiveAudio(r) PROVE Undisturbed'
  BY <1>18 DEF ReceiveAudio
<1>19. ASSUME NEW r \in Readers, pc[r] = "received", HandlePing(r), UNCHANGED crypt PROVE Undisturbed'
  BY <1>19 DEF HandlePing, Raise
<1>20. ASSUME NEW s \in Syncs, SyncHandle(s) PROVE Undisturbed'
  BY <1>19, <1>20 DEF SyncHandle
<1>21. ASSUME NEW l \in Listeners, ListenHandle(l) PROVE Undisturbed'
  BY <1>19, <1>21 DEF ListenHandle
<1>22. ASSUME NEW l \in Listeners, ListenCheck(l) PROVE Undisturbed'
  BY <1>22 DEF ListenCheck
<1>23. ASSUME NEW r \in Readers, Enable(r) PROVE Undisturbed'
  BY <1>23 DEF Enable, Off
<1>24. ASSUME NEW r \in Readers, Start(r) PROVE Undisturbed'
  BY <1>24 DEF Start, Raise
<1>25. CASE UNCHANGED vars
  BY <1>25
<1> QED
  BY <1>1, <1>2, <1>3, <1>4, <1>5, <1>6, <1>7, <1>8, <1>9, <1>10, <1>11, <1>12, <1>13, <1>14, <1>15,
     <1>16, <1>17, <1>18, <1>20, <1>21, <1>22, <1>23, <1>24, <1>25
     DEF Next, Network, Control, Ping, App, Sync, Listen, EnableUdp

(***************************************************************************)
(* The theorems.                                                           *)
(***************************************************************************)
(* The state VoiceStack.__init__ builds. *)
LEMMA InitInv == Init => IInv
<1> SUFFICES ASSUME Init PROVE IInv
  OBVIOUS
<1> USE LabelsOf, ThreadKinds DEF Init
<1>1. PcOK
  <2>1. ASSUME NEW t \in Threads PROVE pc[t] \in Labels(t)
    <3>1. t \in Workers \/ t \in Readers
      BY DEF Threads, Readers
    <3> QED
      BY <3>1 DEF ReaderLabels, Workers
  <2> QED
    BY <2>1, LabelsInAll DEF PcOK
<1>2. TypeOK
  <2>1. got \in [Threads -> {"pong", "old", "junk", "key", "nonce", "request", None}]
    OBVIOUS
  <2>2. 0 \in 0..Sessions /\ 0 \in 0..Outages
    OBVIOUS
  <2> QED
    BY <1>1, <2>1, <2>2 DEF TypeOK
<1>3. Undisturbed
  <2>1. \A t \in Threads : got[t] = None /\ pc[t] \in {"idle", "off"}
    OBVIOUS
  <2>2. None \notin {"key", "junk"}
    BY ThreadsAssumption
  <2>3. KeyFirst /\ pc["stop"] = "idle"
    BY DEF KeyFirst, Workers
  <2>4. NoJunk
    BY <2>1, <2>2 DEF NoJunk, Workers
  <2> QED
    BY <2>3, <2>4 DEF Undisturbed, LockFree
<1> QED
  BY <1>2, <1>3 DEF IInv

(* The types and what keeps the lock free hold in every reachable state, for
   every set of events and any number of threads and connections. *)
THEOREM Invariance == Spec => []IInv
<1>1. IInv /\ [Next]_vars => IInv'
  BY TypeStep, UndisturbedStep DEF IInv, Harmless
<1> QED
  BY InitInv, <1>1, PTL DEF Spec

(* The type invariant of the voice channel. *)
THEOREM TypeCorrect == Spec => []TypeOK
<1>1. IInv => TypeOK
  BY DEF IInv
<1> QED
  BY Invariance, <1>1, PTL

(* Reconnects, resyncs, lost and late answers and errors of sendto never leave
   _crypt_lock held, however many senders, readers and connections there are. *)
THEOREM LockCorrect == Spec => []LockNeverLeft
<1>1. IInv => LockNeverLeft
  BY DEF IInv, Undisturbed, LockNeverLeft
<1> QED
  BY Invariance, <1>1, PTL
=============================================================================
