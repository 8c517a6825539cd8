------------------------ MODULE ControlStackProofs ------------------------
(***************************************************************************)
(* Proofs about ControlStack, for every number of callers, packets and     *)
(* requests, every queue size and every set of faults.  TInv collects the  *)
(* parts of the inductive invariant IInv that say where things are; each   *)
(* thread has a lemma that its steps keep TInv; SessionOK, AnnouncedOK and *)
(* GateOpenWhileAnnounced have one lemma each over all threads; for        *)
(* FirstGateOK and OneShotOK the threads that matter have a lemma, and a   *)
(* frame lemma covers the others.  HandsOK and OnePlace say where an item  *)
(* can be; with them each step is one of CommandPipe or a stutter there    *)
(* (Refinement, at the end).                                               *)
(***************************************************************************)
EXTENDS ControlStackProps, TLAPS

TInv == TypeOK /\ HeldOK /\ SocketOK

USE BoundsAssumption DEF Connectors

\* The tuples of variables, the two ways a thread moves, and the sets of labels
\* are expanded everywhere.
USE DEF flags, gate, work, wire, misc, Goto, Jump, AllLabels, MainLabels, LoopLabels,
        ListenLabels, SendLabels, PingLabels, StopLabels, CallLabels, AudioLabels,
        DirectLabels, ConnectLabels, DisconnectLabels, Threads, Workers, Senders

(* The names of threads and items do not overlap. *)
LEMMA Names ==
    /\ \A w \in Workers : w \notin Commands \cup Audio \cup Direct \cup Requests
    /\ \A x \in Control : x \notin Commands \cup Audio \cup Direct \cup Requests
    /\ Commands \cap Audio = {} /\ Commands \cap Direct = {} /\ Commands \cap Requests = {}
    /\ Audio \cap Direct = {} /\ Audio \cap Requests = {} /\ Direct \cap Requests = {}
    /\ None \notin Payload
BY NamesAssumption DEF Items, Payload

(* A thread that moves to a label of its own keeps pc well typed. *)
LEMMA PcStep ==
    ASSUME PcOK, NEW t \in Threads, NEW l \in AllLabels, Goto(t, l),
           t = "main"   => l \in MainLabels,   t = "loop" => l \in LoopLabels,
           t = "listen" => l \in ListenLabels, t = "send" => l \in SendLabels,
           t = "ping"   => l \in PingLabels,   t = "stop" => l \in StopLabels,
           t \in Commands => l \in CallLabels, t \in Audio => l \in AudioLabels,
           t \in Direct => l \in DirectLabels
    PROVE  PcOK'
BY Names DEF PcOK

(* The client starts well typed, holding nothing and without a socket. *)
THEOREM TypeInit == Init => TInv
<1> SUFFICES ASSUME Init PROVE TInv
  OBVIOUS
<1>1. PcOK
  BY Names DEF Init, PcOK
<1>2. held \in [Senders -> Payload \cup {None}]
  BY DEF Init
<1>3. TypeOK
  <2>1. queue \in Seq(Payload) /\ Len(queue) <= QueueSize
    BY DEF Init
  <2>2. epoch \in 0..MaxEpoch /\ backoff \in Nat \ {0}
    BY DEF Init
  <2> QED
    BY <1>1, <1>2, <2>1, <2>2 DEF Init, TypeOK
<1>4. HeldOK
  BY Names DEF Init, HeldOK
<1>5. SocketOK
  BY Names DEF Init, SocketOK
<1> QED
  BY <1>3, <1>4, <1>5 DEF TInv

(* The items in flight are the items put or sent: send_message keeps the types. *)
LEMMA TypeSendMessage ==
    ASSUME TInv, NEW t \in Senders, NEW item \in Payload, SendMessage(t, item)
    PROVE  TInv'
<1> DEFINE Labels == {Return(t), Raise(t), "requeue"}
<1> USE DEF TInv
<1>1. Return(t) \in {"check", "drain", "idle", "done", "send_auth", "mark"}
  BY DEF Return
<1>2. Raise(t) \in {"off", "dead", "raised", "raise"}
  BY DEF Raise
<1>3. PICK r \in SendResults :
        /\ Transmit(r, item)
        /\ \/ r = "error" /\ TcpFailed(t, item)
           \/ /\ r # "error"
              /\ IF r = "broken_pipe" THEN status' = "FAILED" /\ disconnect' = TRUE
                                      ELSE UNCHANGED flags
              /\ held' = [held EXCEPT ![t] = None]
              /\ Goto(t, IF r = "reset" THEN Raise(t) ELSE Return(t))
        /\ UNCHANGED <<gate, queue, submitted, misc>>
  BY DEF SendMessage
<1>4. PICK l \in Labels : /\ pc' = [pc EXCEPT ![t] = l]
                          /\ l = "requeue" => held' = [held EXCEPT ![t] = item]
                          /\ l # "requeue" => held' = [held EXCEPT ![t] = None]
  BY <1>1, <1>2, <1>3 DEF TcpFailed
<1>5. PcOK'
  <2>1. l \in AllLabels
    BY <1>1, <1>2
  <2>2. t \in Connectors => l \in ConnectLabels
    BY Names DEF Return, Raise
  <2>3. /\ t = "listen" => Return(t) = "drain" /\ Raise(t) = "off"
        /\ t = "send" => Return(t) = "check" /\ Raise(t) = "off"
        /\ t = "ping" => Return(t) = "idle" /\ Raise(t) = "dead"
    BY Names DEF Return, Raise
  <2>4. t \in Direct => Return(t) = "done" /\ Raise(t) = "raised"
    <3>1. t \in Direct => t \notin {"send", "listen", "ping"}
      BY Names
    <3> QED
      BY <3>1 DEF Return, Raise
  <2>5. t # "stop" /\ t \notin Commands \cup Audio
    BY Names
  <2> QED
    BY <1>4, <2>1, <2>2, <2>3, <2>4, <2>5, Names DEF Labels, PcOK, TypeOK
<1>6. TypeOK'
  <2>1. socket' \in {"none", "new", "open", "lost", "reset", "broken", "shut", "closed"}
    BY <1>3 DEF Transmit, TypeOK
  <2>2. delivered' \subseteq (1..MaxEpoch) \X (Items \cup {"Authenticate"})
    BY <1>3 DEF Transmit, TypeOK, SocketOK
  <2>3. held' \in [Senders -> Payload \cup {None}]
    BY <1>4 DEF TypeOK
  <2>4. status' \in {"NOT_CONNECTED", "AUTHENTICATING", "CONNECTED", "FAILED"}
    BY <1>3 DEF TcpFailed, TypeOK
  <2>5. disconnect' \in BOOLEAN
    BY <1>3, Zenon DEF TcpFailed, TypeOK
  <2> QED
    BY <1>3, <1>5, <2>1, <2>2, <2>3, <2>4, <2>5 DEF Transmit, TypeOK
<1>7. HeldOK'
  BY <1>1, <1>2, <1>4, Names DEF HeldOK, TypeOK, PcOK
<1>8. SocketOK'
  <2>1. socket # "none" /\ socket' # "none" /\ epoch' = epoch
    BY <1>3 DEF Transmit, SendResults
  <2> QED
    BY <2>1 DEF SocketOK
<1> QED
  BY <1>6, <1>7, <1>8

(* connect(), in whichever thread. *)
LEMMA TypeConnect ==
    ASSUME TInv, NEW t \in Connectors, Connect(t)
    PROVE  TInv'
<1> USE DEF TInv
<1>1. CASE ConnectBegin(t)
  <2>1. PcOK'
    BY <1>1, Names DEF ConnectBegin, PcOK, TypeOK
  <2>2. TypeOK'
    BY <1>1, <2>1 DEF ConnectBegin, TypeOK
  <2>3. HeldOK'
    BY <1>1, Names DEF ConnectBegin, HeldOK, TypeOK, PcOK
  <2>4. SocketOK'
    BY <1>1 DEF ConnectBegin, SocketOK, TypeOK, PcOK
  <2> QED
    BY <2>2, <2>3, <2>4
<1>2. CASE ConnectWrap(t)
  <2>1. PICK l \in {"handshake", "raise", "failed"} : Goto(t, l) /\ (l = "failed" => t = "main")
    BY <1>2 DEF ConnectWrap
  <2>2. PcOK'
    BY <2>1, Names DEF PcOK, TypeOK
  <2>3. TypeOK'
    BY <1>2, <2>2 DEF ConnectWrap, TypeOK
  <2>4. HeldOK'
    BY <1>2, <2>1, Names DEF ConnectWrap, HeldOK, TypeOK, PcOK
  <2>5. SocketOK'
    BY <1>2, <2>1 DEF ConnectWrap, SocketOK, TypeOK, PcOK
  <2> QED
    BY <2>3, <2>4, <2>5
<1>3. CASE ConnectHandshake(t)
  <2>1. PICK l \in {"send_version", "raise"} : Goto(t, l)
    BY <1>3 DEF ConnectHandshake
  <2>2. PcOK'
    BY <2>1, Names DEF PcOK, TypeOK
  <2>3. TypeOK'
    BY <1>3, <2>2 DEF ConnectHandshake, TypeOK
  <2>4. HeldOK'
    BY <1>3, <2>1, Names DEF ConnectHandshake, HeldOK, TypeOK, PcOK
  <2>5. SocketOK'
    BY <1>3, <2>1 DEF ConnectHandshake, SocketOK, TypeOK, PcOK
  <2> QED
    BY <2>3, <2>4, <2>5
<1>4. CASE ConnectSend(t)
  BY <1>4, TypeSendMessage DEF ConnectSend, Payload, Control
<1>5. CASE ConnectRaise(t)
  <2>1. PICK l \in {"failed", "judge"} : Goto(t, l) /\ t = (IF l = "failed" THEN "main" ELSE "loop")
    BY <1>5 DEF ConnectRaise
  <2>2. PcOK'
    BY <2>1, Names DEF PcOK, TypeOK
  <2> QED
    BY <1>5, <2>1, <2>2, Names DEF ConnectRaise, TypeOK, HeldOK, SocketOK, PcOK
<1>6. CASE ConnectMark(t)
  <2>1. PcOK'
    <3>1. CASE t = "main"
      <4>1. pc' = [pc EXCEPT !["main"] = "done", !["loop"] = "check"]
        BY <1>6, <3>1 DEF ConnectMark
      <4>2. pc' \in [Threads -> AllLabels] /\ pc'["main"] = "done" /\ pc'["loop"] = "check"
        BY <4>1 DEF PcOK, TypeOK
      <4>3. \A u \in Threads \ {"main", "loop"} : pc'[u] = pc[u]
        BY <4>1 DEF PcOK, TypeOK
      <4>4. \A u \in Commands \cup Audio \cup Direct : pc'[u] = pc[u]
        BY <4>3, Names
      <4> QED
        BY <4>2, <4>3, <4>4 DEF PcOK, TypeOK
    <3>2. CASE t = "loop"
      <4>1. pc' = [pc EXCEPT !["loop"] = "judge"]
        BY <1>6, <3>2 DEF ConnectMark
      <4> QED
        BY <4>1, Names DEF PcOK, TypeOK
    <3> QED
      BY <3>1, <3>2
  <2>2. TypeOK'
    BY <1>6, <2>1 DEF ConnectMark, TypeOK
  <2>3. HeldOK'
    BY <1>6, Names DEF ConnectMark, HeldOK, TypeOK, PcOK
  <2>4. SocketOK'
    BY <1>6 DEF ConnectMark, SocketOK, TypeOK, PcOK
  <2> QED
    BY <2>2, <2>3, <2>4
<1> QED
  BY <1>1, <1>2, <1>3, <1>4, <1>5, <1>6 DEF Connect

(* The blocking put of _tcp_failed. *)
LEMMA TypeRequeue ==
    ASSUME TInv, NEW t \in Senders, Requeue(t)
    PROVE  TInv'
<1> USE DEF TInv, Requeue, Put, Return
<1>1. PcOK'
  BY Names DEF PcOK, TypeOK
<1>2. TypeOK'
  BY <1>1 DEF TypeOK, HeldOK
<1>3. HeldOK'
  BY Names DEF HeldOK, TypeOK, PcOK
<1>4. SocketOK'
  BY DEF SocketOK, TypeOK, PcOK
<1> QED
  BY <1>2, <1>3, <1>4

(* The control loop. *)
LEMMA TypeLoop == ASSUME TInv, Loop PROVE TInv'
<1> USE DEF TInv
<1>1. CASE LoopCheck
  <2>1. PICK l \in {"top", "dead"} : Goto("loop", l)
    BY <1>1 DEF LoopCheck
  <2>2. PcOK'
    BY <2>1, Names DEF PcOK, TypeOK
  <2>3. timer' \in BOOLEAN
    BY <1>1, Zenon DEF LoopCheck, TypeOK
  <2>4. socket' \in {socket, "closed"} /\ socket # "none"
    BY <1>1 DEF LoopCheck, SocketOK
  <2>5. TypeOK'
    BY <1>1, <2>2, <2>3, <2>4 DEF LoopCheck, TypeOK
  <2>6. HeldOK'
    BY <1>1, <2>1, Names DEF LoopCheck, HeldOK, TypeOK, PcOK
  <2>7. SocketOK'
    BY <1>1, <2>1, <2>4 DEF LoopCheck, SocketOK, TypeOK, PcOK
  <2> QED
    BY <2>5, <2>6, <2>7
<1>2. CASE LoopTop
  BY <1>2, Names DEF LoopTop, TypeOK, HeldOK, SocketOK, PcOK
<1>3. CASE LoopJudge
  BY <1>3, Names DEF LoopJudge, TypeOK, HeldOK, SocketOK, PcOK
<1>4. CASE LoopSession
  <2>1. PcOK'
    <3>1. CASE IsConnected
      <4>1. PICK l \in PingLabels :
              pc' = [pc EXCEPT !["loop"] = "join", !["listen"] = "check",
                               !["send"] = "check", !["ping"] = l]
        BY <1>4, <3>1 DEF LoopSession, PcOK, TypeOK
      <4>2. /\ pc' \in [Threads -> AllLabels] /\ pc'["loop"] = "join" /\ pc'["ping"] = l
            /\ pc'["listen"] = "check" /\ pc'["send"] = "check"
        BY <4>1 DEF PcOK, TypeOK
      <4>3. \A u \in Threads \ {"loop", "listen", "send", "ping"} : pc'[u] = pc[u]
        BY <4>1 DEF PcOK, TypeOK
      <4>4. \A u \in Commands \cup Audio \cup Direct : pc'[u] = pc[u]
        BY <4>3, Names
      <4> QED
        BY <4>2, <4>3, <4>4 DEF PcOK, TypeOK
    <3>2. CASE ~IsConnected
      <4>1. pc' = [pc EXCEPT !["loop"] = "check"]
        BY <1>4, <3>2 DEF LoopSession
      <4> QED
        BY <4>1, Names DEF PcOK, TypeOK
    <3> QED
      BY <3>1, <3>2
  <2>2. timer' \in BOOLEAN
    BY <1>4, Zenon DEF LoopSession, TypeOK
  <2>3. TypeOK'
    BY <1>4, <2>1, <2>2 DEF LoopSession, TypeOK
  <2>4. HeldOK'
    BY <1>4, Names DEF LoopSession, HeldOK, TypeOK, PcOK
  <2>5. SocketOK'
    BY <1>4 DEF LoopSession, SocketOK, TypeOK, PcOK
  <2> QED
    BY <2>3, <2>4, <2>5
<1>5. CASE LoopJoin
  <2>1. timer' \in BOOLEAN
    BY <1>5, Zenon DEF LoopJoin
  <2> QED
    BY <1>5, <2>1, Names DEF LoopJoin, TypeOK, HeldOK, SocketOK, PcOK
<1>6. CASE LoopReacquire
  <2>1. locked' \in BOOLEAN /\ announced' \in BOOLEAN
    BY <1>6, Zenon DEF LoopReacquire
  <2> QED
    BY <1>6, <2>1, Names DEF LoopReacquire, TypeOK, HeldOK, SocketOK, PcOK
<1> QED
  BY <1>1, <1>2, <1>3, <1>4, <1>5, <1>6 DEF Loop

(* disconnect() and the release at the end of a session thread. *)
LEMMA TypeDisconnect ==
    ASSUME TInv, NEW t \in {"stop", "listen", "send"}, Disconnect(t)
    PROVE  TInv'
<1> USE DEF TInv
<1>1. CASE Release(t)
  <2>1. PICK l \in {"flag", "off"} : Goto(t, l)
    BY <1>1 DEF Release
  <2>2. PcOK'
    BY <1>1, <2>1, Names DEF Release, PcOK, TypeOK
  <2>3. locked' \in BOOLEAN
    BY <1>1, Zenon DEF Release
  <2> QED
    BY <1>1, <2>1, <2>2, <2>3, Names DEF Release, TypeOK, HeldOK, SocketOK, PcOK
<1>2. CASE SetDisconnect(t)
  <2>1. disconnect' \in BOOLEAN
    BY <1>2, Zenon DEF SetDisconnect
  <2> QED
    BY <1>2, <2>1, Names DEF SetDisconnect, TypeOK, HeldOK, SocketOK, PcOK
<1>3. CASE Shutdown(t)
  <2>1. PICK l \in {"done", "recv", "get"} : Goto(t, l)
    BY <1>3 DEF Shutdown
  <2>2. PcOK'
    BY <1>3, Names DEF Shutdown, PcOK, TypeOK
  <2>3. socket' \in {socket, "shut"} /\ (socket' = "none" <=> socket = "none")
    BY <1>3 DEF Shutdown
  <2> QED
    BY <1>3, <2>1, <2>2, <2>3, Names DEF Shutdown, TypeOK, HeldOK, SocketOK, PcOK
<1> QED
  BY <1>1, <1>2, <1>3 DEF Disconnect

(* Control:Listen, with the handlers of the messages it dispatches. *)
LEMMA TypeListen == ASSUME TInv, Listen PROVE TInv'
<1> USE DEF TInv
<1>1. CASE SessionCheck("listen", "recv")
  BY <1>1, Names DEF SessionCheck, TypeOK, HeldOK, SocketOK, PcOK
<1>2. CASE Recv
  <2>1. PICK l \in {"drain", "check"} : Goto("listen", l)
    BY <1>2 DEF Recv
  <2>2. PcOK'
    BY <2>1, Names DEF PcOK, TypeOK
  <2>3. /\ socket' \in {"none", "new", "open", "lost", "reset", "broken", "shut", "closed"}
        /\ status' \in {"NOT_CONNECTED", "AUTHENTICATING", "CONNECTED", "FAILED"}
        /\ socket' = "none" <=> socket = "none"
    BY <1>2 DEF Recv, TypeOK
  <2>4. TypeOK'
    BY <1>2, <2>2, <2>3 DEF Recv, TypeOK
  <2>5. HeldOK'
    BY <1>2, <2>1, Names DEF Recv, HeldOK, TypeOK, PcOK
  <2>6. SocketOK'
    BY <1>2, <2>1, <2>3 DEF Recv, SocketOK, TypeOK, PcOK
  <2> QED
    BY <2>4, <2>5, <2>6
<1>3. CASE Drained
  BY <1>3, Names DEF Drained, TypeOK, HeldOK, SocketOK, PcOK
<1>4. CASE HandleVersion
  BY <1>4 DEF HandleVersion, TypeOK, HeldOK, SocketOK, PcOK
<1>5. CASE HandleServerSync
  <2>1. PICK l \in {"sync_read", "put"} :
          /\ Goto("listen", l)
          /\ l = "sync_read" => held' = held
          /\ l = "put" => \E r \in Requests : held' = [held EXCEPT !["listen"] = r]
    BY <1>5 DEF HandleServerSync
  <2>2. PcOK'
    BY <2>1, Names DEF PcOK, TypeOK
  <2>3. held' \in [Senders -> Payload \cup {None}]
    BY <2>1 DEF TypeOK, Payload, Items
  <2>4. TypeOK'
    BY <1>5, <2>2, <2>3 DEF HandleServerSync, TypeOK
  <2>5. HeldOK'
    BY <2>1, Names DEF HeldOK, TypeOK, PcOK
  <2>6. SocketOK'
    BY <1>5, <2>1 DEF HandleServerSync, SocketOK, TypeOK, PcOK
  <2> QED
    BY <2>4, <2>5, <2>6
<1>6. CASE SyncPut
  <2>1. PcOK'
    BY <1>6, Names DEF SyncPut, PcOK, TypeOK
  <2>2. held["listen"] \in Requests
    BY <1>6 DEF SyncPut, HeldOK
  <2>3. TypeOK'
    BY <1>6, <2>1, <2>2 DEF SyncPut, Put, TypeOK, Payload, Items
  <2>4. HeldOK'
    BY <1>6, Names DEF SyncPut, HeldOK, TypeOK, PcOK
  <2>5. SocketOK'
    BY <1>6 DEF SyncPut, SocketOK, TypeOK, PcOK
  <2> QED
    BY <2>3, <2>4, <2>5
<1>7. CASE SyncRead
  BY <1>7, Names DEF SyncRead, TypeOK, HeldOK, SocketOK, PcOK
<1>8. CASE SyncSet
  BY <1>8, Names DEF SyncSet, TypeOK, HeldOK, SocketOK, PcOK
<1>9. CASE SyncReady
  <2>1. locked' \in BOOLEAN /\ announced' \in BOOLEAN
    BY <1>9, Zenon DEF SyncReady
  <2> QED
    BY <1>9, <2>1, Names DEF SyncReady, TypeOK, HeldOK, SocketOK, PcOK
<1>10. CASE HandleReject
  <2>1. locked' \in BOOLEAN
    BY <1>10, Zenon DEF HandleReject
  <2> QED
    BY <1>10, <2>1, Names DEF HandleReject, TypeOK, HeldOK, SocketOK, PcOK
<1>11. CASE HandleBad
  BY <1>11, Names DEF HandleBad, TypeOK, HeldOK, SocketOK, PcOK
<1>12. CASE HandleCryptRequest
  BY <1>12, TypeSendMessage DEF HandleCryptRequest, Payload, Control
<1>13. CASE Requeue("listen")
  BY <1>13, TypeRequeue
<1>14. CASE Disconnect("listen")
  BY <1>14, TypeDisconnect
<1> QED
  BY <1>1, <1>2, <1>3, <1>4, <1>5, <1>6, <1>7, <1>8, <1>9, <1>10, <1>11, <1>12, <1>13, <1>14
     DEF Listen

(* Control:Send. *)
LEMMA TypeSend == ASSUME TInv, Send PROVE TInv'
<1> USE DEF TInv
<1>1. CASE SessionCheck("send", "get")
  BY <1>1, Names DEF SessionCheck, TypeOK, HeldOK, SocketOK, PcOK
<1>2. CASE Get
  <2>1. CASE queue = <<>>
    <3>1. Goto("send", "check") /\ UNCHANGED <<flags, gate, work, wire, misc>>
      BY <1>2, <2>1 DEF Get
    <3> QED
      BY <3>1, Names DEF TypeOK, HeldOK, SocketOK, PcOK
  <2>2. CASE queue # <<>>
    <3>1. /\ held' = [held EXCEPT !["send"] = Head(queue)] /\ queue' = Tail(queue)
          /\ pc' = [pc EXCEPT !["send"] = "send"]
      BY <1>2, <2>2 DEF Get
    <3>2. Head(queue) \in Payload /\ queue' \in Seq(Payload) /\ Len(queue') <= QueueSize
      BY <2>2, <3>1 DEF TypeOK
    <3>3. PcOK'
      BY <3>1, Names DEF PcOK, TypeOK
    <3>4. TypeOK'
      BY <1>2, <3>1, <3>2, <3>3 DEF Get, TypeOK
    <3>5. HeldOK'
      BY <3>1, <3>2, Names DEF HeldOK, TypeOK, PcOK
    <3>6. SocketOK'
      BY <1>2, <3>1 DEF Get, SocketOK, TypeOK, PcOK
    <3> QED
      BY <3>4, <3>5, <3>6
  <2> QED
    BY <2>1, <2>2
<1>3. CASE SendItem
  <2>1. held["send"] \in Payload
    BY <1>3 DEF SendItem, HeldOK
  <2>2. CASE held["send"] \in Audio /\ dispatcher = "legacy"
    <3>1. PICK r \in SendResults :
            /\ Transmit(r, held["send"])
            /\ status' = IF r = "error" /\ socket # "open" THEN "FAILED" ELSE status
            /\ held' = [held EXCEPT !["send"] = None]
            /\ Goto("send", IF r \in {"sent", "error"} THEN "check" ELSE "off")
            /\ UNCHANGED <<disconnect, gate, queue, submitted, misc>>
      BY <1>3, <2>2 DEF SendItem, SendAudioLegacy
    <3>2. PICK l \in {"check", "off"} : Goto("send", l)
      BY <3>1
    <3>3. PcOK'
      BY <3>2, Names DEF PcOK, TypeOK
    <3>4. socket # "none" /\ socket' # "none" /\ epoch' = epoch
      BY <3>1 DEF Transmit, SendResults
    <3>5. socket' \in {"none", "new", "open", "lost", "reset", "broken", "shut", "closed"}
      BY <3>1 DEF Transmit, TypeOK
    <3>6. delivered' \subseteq (1..MaxEpoch) \X (Items \cup {"Authenticate"})
      BY <3>1 DEF Transmit, TypeOK, SocketOK
    <3>7. TypeOK'
      BY <3>1, <3>3, <3>5, <3>6 DEF Transmit, TypeOK
    <3>8. HeldOK'
      BY <3>1, <3>2, Names DEF HeldOK, TypeOK, PcOK
    <3>9. SocketOK'
      BY <3>4 DEF SocketOK
    <3> QED
      BY <3>7, <3>8, <3>9
  <2>3. CASE ~(held["send"] \in Audio /\ dispatcher = "legacy")
    BY <1>3, <2>1, <2>3, TypeSendMessage DEF SendItem
  <2> QED
    BY <2>2, <2>3
<1>4. CASE Requeue("send")
  BY <1>4, TypeRequeue
<1>5. CASE Disconnect("send")
  BY <1>5, TypeDisconnect
<1> QED
  BY <1>1, <1>2, <1>3, <1>4, <1>5 DEF Send

(* The ping timer. *)
LEMMA TypePing == ASSUME TInv, Ping PROVE TInv'
<1> USE DEF TInv
<1>1. CASE PingFire
  BY <1>1, Names DEF PingFire, TypeOK, HeldOK, SocketOK, PcOK
<1>2. CASE PingStart
  BY <1>2, Names DEF PingStart, TypeOK, HeldOK, SocketOK, PcOK
<1>3. CASE PingSend
  BY <1>3, TypeSendMessage DEF PingSend, Payload, Control
<1>4. CASE Requeue("ping")
  BY <1>4, TypeRequeue
<1> QED
  BY <1>1, <1>2, <1>3, <1>4 DEF Ping

(* One call of execute_command, up to its put. *)
LEMMA TypeCall == ASSUME TInv, NEW c \in Commands, Acquire(c) \/ PassGate(c) PROVE TInv'
<1> USE DEF TInv
<1>1. locked' \in BOOLEAN
  BY Zenon DEF Acquire, PassGate
<1>2. PICK l \in {"pass", "put", "raised"} : Goto(c, l)
  BY DEF Acquire, PassGate
<1>3. PcOK'
  BY <1>2, Names DEF PcOK, TypeOK
<1>4. TypeOK'
  BY <1>1, <1>3 DEF Acquire, PassGate, TypeOK
<1>5. HeldOK'
  BY <1>2, Names DEF Acquire, PassGate, HeldOK, TypeOK, PcOK
<1>6. SocketOK'
  BY <1>2, Names DEF Acquire, PassGate, SocketOK, TypeOK, PcOK
<1> QED
  BY <1>4, <1>5, <1>6

(* The put with which a command and a voice packet end. *)
LEMMA TypeCallPut == ASSUME TInv, NEW c \in Commands \cup Audio, CallPut(c) PROVE TInv'
<1> USE DEF TInv, CallPut, Put
<1>1. PcOK'
  BY Names DEF PcOK, TypeOK
<1>2. TypeOK'
  BY <1>1 DEF TypeOK, Payload, Items
<1>3. HeldOK'
  BY Names DEF HeldOK, TypeOK, PcOK
<1>4. SocketOK'
  BY Names DEF SocketOK, TypeOK, PcOK
<1> QED
  BY <1>2, <1>3, <1>4

(* A call of reauthenticate() or request_blob(), which sends by itself. *)
LEMMA TypeDirect == ASSUME TInv, NEW d \in Direct, DirectBegin(d) \/ DirectSend(d) PROVE TInv'
<1> USE DEF TInv
<1>1. CASE DirectBegin(d)
  <2>1. PcOK'
    BY <1>1, Names DEF DirectBegin, PcOK, TypeOK
  <2>2. TypeOK'
    BY <1>1, <2>1 DEF DirectBegin, TypeOK, Payload, Items
  <2>3. HeldOK'
    BY <1>1, Names DEF DirectBegin, HeldOK, TypeOK, PcOK
  <2>4. SocketOK'
    BY <1>1, Names DEF DirectBegin, SocketOK, TypeOK, PcOK
  <2> QED
    BY <2>2, <2>3, <2>4
<1>2. CASE DirectSend(d)
  BY <1>2, TypeSendMessage DEF DirectSend, Payload, Items
<1> QED
  BY <1>1, <1>2

(* Every step of every thread keeps TInv. *)
LEMMA TypeStep == ASSUME TInv, [Next]_vars PROVE TInv'
<1>1. CASE \E t \in Connectors : Connect(t) \/ Requeue(t)
  BY <1>1, TypeConnect, TypeRequeue
<1>2. CASE Loop \/ Listen \/ Send \/ Ping
  BY <1>2, TypeLoop, TypeListen, TypeSend, TypePing
<1>3. CASE StopBegin
  BY <1>3, Names DEF StopBegin, TInv, TypeOK, HeldOK, SocketOK, PcOK
<1>4. CASE Disconnect("stop")
  BY <1>4, TypeDisconnect
<1>5. CASE \E c \in Commands : Call(c)
  BY <1>5, TypeCall, TypeCallPut DEF Call
<1>6. CASE \E a \in Audio : AudioBegin(a)
  BY <1>6, Names DEF AudioBegin, TInv, TypeOK, HeldOK, SocketOK, PcOK
<1>7. CASE \E a \in Audio : CallPut(a)
  BY <1>7, TypeCallPut
<1>8. CASE \E d \in Direct : DirectBegin(d) \/ DirectSend(d) \/ Requeue(d)
  BY <1>8, TypeDirect, TypeRequeue
<1>9. CASE PeerCloses
  BY <1>9 DEF PeerCloses, TInv, TypeOK, HeldOK, SocketOK, PcOK
<1>10. CASE ParentDies
  BY <1>10, Names DEF ParentDies, TInv, TypeOK, HeldOK, SocketOK, PcOK
<1>11. CASE UNCHANGED vars
  BY <1>11 DEF vars, TInv, TypeOK, HeldOK, SocketOK, PcOK
<1> QED
  BY <1>1, <1>2, <1>3, <1>4, <1>5, <1>6, <1>7, <1>8, <1>9, <1>10, <1>11 DEF Next

(* SessionOK: who may run while loop or main is where. *)
LEMMA SessionStep == ASSUME TInv, SessionOK, [Next]_vars PROVE SessionOK'
<1> USE DEF TInv, SessionOK, SessionOver
<1>1. CASE \E t \in Connectors : Connect(t) \/ Requeue(t)
  <2>1. PICK t \in Connectors : Connect(t) \/ Requeue(t)
    BY <1>1
  <2>2. CASE ConnectBegin(t) \/ ConnectWrap(t) \/ ConnectHandshake(t) \/ ConnectRaise(t) \/ ConnectMark(t)
    BY <2>2 DEF ConnectBegin, ConnectWrap, ConnectHandshake, ConnectRaise, ConnectMark, TypeOK, PcOK
  <2>3. CASE ConnectSend(t) \/ Requeue(t)
    BY <2>3, Names DEF ConnectSend, SendMessage, TcpFailed, Requeue, Return, Raise, TypeOK, PcOK
  <2> QED
    BY <2>1, <2>2, <2>3 DEF Connect
<1>2. CASE Loop
  BY <1>2 DEF Loop, LoopCheck, LoopTop, LoopJudge, LoopSession, LoopJoin, LoopReacquire, TypeOK, PcOK
<1>3. CASE Listen
  <2>1. pc["listen"] # "off" /\ pc'["loop"] = pc["loop"] /\ pc'["main"] = pc["main"]
    BY <1>3 DEF Listen, SessionCheck, Recv, Drained, HandleVersion, HandleServerSync, SyncPut,
                SyncRead, SyncSet, SyncReady, HandleReject, HandleBad, HandleCryptRequest,
                SendMessage, TcpFailed, Requeue, Disconnect, Release, SetDisconnect, Shutdown, TypeOK, PcOK
  <2> QED
    BY <2>1
<1>4. CASE Send
  <2>1. pc["send"] # "off" /\ pc'["loop"] = pc["loop"] /\ pc'["main"] = pc["main"]
    BY <1>4 DEF Send, SessionCheck, Get, SendItem, SendAudioLegacy, SendMessage, TcpFailed, Requeue,
                Disconnect, Release, SetDisconnect, Shutdown, TypeOK, PcOK
  <2> QED
    BY <2>1
<1>5. CASE \/ Ping \/ StopBegin \/ Disconnect("stop")
           \/ \E c \in Commands : Call(c)
           \/ \E a \in Audio : AudioBegin(a) \/ CallPut(a)
           \/ \E d \in Direct : DirectBegin(d) \/ DirectSend(d) \/ Requeue(d)
           \/ PeerCloses \/ UNCHANGED vars
  <2>1. \A u \in {"main", "loop", "listen", "send"} : pc'[u] = pc[u]
    BY <1>5, Names DEF Ping, PingFire, PingStart, PingSend, StopBegin, Disconnect, Release, SetDisconnect,
       Shutdown, Call, Acquire, PassGate, CallPut, AudioBegin, DirectBegin, DirectSend, SendMessage,
       TcpFailed, Requeue, PeerCloses, vars, TypeOK, PcOK
  <2> QED
    BY <2>1
<1>6. CASE ParentDies
  BY <1>6 DEF ParentDies, TypeOK, PcOK
<1> QED
  BY <1>1, <1>2, <1>3, <1>4, <1>5, <1>6 DEF Next

(* The steps that leave the gate, the handshake of the server and the labels of
   loop, of the callers and (but for send_message) of listen alone. *)
Quiet == \/ Send \/ Ping \/ StopBegin \/ PeerCloses \/ ParentDies \/ UNCHANGED vars
         \/ \E a \in Audio : AudioBegin(a) \/ CallPut(a)
         \/ \E d \in Direct : DirectBegin(d) \/ DirectSend(d) \/ Requeue(d)

(* What the quiet steps leave alone; the lock they may at most release. *)
LEMMA QuietStep ==
    ASSUME TInv, Quiet
    PROVE  /\ announced' = announced /\ server' = server
           /\ locked' = locked \/ locked' = FALSE
           /\ pc'["loop"] = pc["loop"] /\ pc'["listen"] = pc["listen"]
           /\ \A c \in Commands : pc'[c] = pc[c]
<1> USE DEF TInv, TypeOK, PcOK
<1>1. CASE Send
  BY <1>1, Names DEF Send, SessionCheck, Get, SendItem, SendAudioLegacy, SendMessage, Transmit, TcpFailed,
     Requeue, Disconnect, Release, SetDisconnect, Shutdown
<1>2. CASE Ping \/ StopBegin \/ PeerCloses \/ ParentDies \/ UNCHANGED vars
  BY <1>2, Names DEF Ping, PingFire, PingStart, PingSend, StopBegin, PeerCloses, ParentDies, SendMessage,
     Transmit, TcpFailed, Requeue, vars
<1>3. CASE \E a \in Audio : AudioBegin(a) \/ CallPut(a)
  <2>1. PICK a \in Audio : AudioBegin(a) \/ CallPut(a)
    BY <1>3
  <2>2. UNCHANGED <<announced, locked, server>> /\ \E l \in {"put", "done"} : Goto(a, l)
    BY <2>1 DEF AudioBegin, CallPut
  <2> QED
    BY <2>2, Names
<1>4. CASE \E d \in Direct : DirectBegin(d) \/ DirectSend(d) \/ Requeue(d)
  BY <1>4, Names DEF DirectBegin, DirectSend, SendMessage, Transmit, TcpFailed, Requeue
<1> QED
  BY <1>1, <1>2, <1>3, <1>4 DEF Quiet

(* AnnouncedOK: a step of loop ends the announcement before the next
   connection begins, and listen announces a session at most once. *)
LEMMA AnnouncedStep == ASSUME TInv, SessionOK, AnnouncedOK, [Next]_vars PROVE AnnouncedOK'
<1> USE DEF TInv, TypeOK, PcOK, SessionOK, SessionOver, AnnouncedOK, SyncLabels
<1>1. CASE \E t \in Connectors : Connect(t) \/ Requeue(t)
  <2>1. PICK t \in Connectors : Connect(t) \/ Requeue(t)
    BY <1>1
  <2>2. ~announced /\ announced' = announced /\ pc'["listen"] = "off"
    <3>1. CASE Connect(t)
      BY <3>1, Names DEF Connect, ConnectBegin, ConnectWrap, ConnectHandshake, ConnectSend, ConnectRaise,
         ConnectMark, SendMessage, TcpFailed
    <3>2. CASE Requeue(t)
      BY <3>2, Names DEF Requeue
    <3> QED
      BY <2>1, <3>1, <3>2
  <2> QED
    BY <2>2
<1>2. CASE Loop
  BY <1>2 DEF Loop, LoopCheck, LoopTop, LoopJudge, LoopSession, LoopJoin, LoopReacquire
<1>3. CASE Listen
  <2>1. CASE SyncReady \/ HandleServerSync \/ SyncPut \/ SyncRead \/ SyncSet
    BY <2>1, Names DEF SyncReady, HandleServerSync, SyncPut, SyncRead, SyncSet, Authenticated
  <2>2. CASE HandleVersion \/ HandleReject
    BY <2>2 DEF HandleVersion, HandleReject, Authenticated
  <2>3. CASE \/ SessionCheck("listen", "recv") \/ Recv \/ Drained \/ HandleBad
             \/ HandleCryptRequest \/ Requeue("listen") \/ Disconnect("listen")
    BY <2>3, Names DEF SessionCheck, Recv, Drained, HandleBad, HandleCryptRequest, Requeue, Disconnect,
       Release, SetDisconnect, Shutdown, SendMessage, Transmit, TcpFailed, Return, Raise
  <2> QED
    BY <1>3, <2>1, <2>2, <2>3 DEF Listen
<1>4. CASE Quiet
  <2>1. UNCHANGED <<announced, server>> /\ \A u \in {"loop", "listen"} : pc'[u] = pc[u]
    BY <1>4, QuietStep
  <2> QED
    BY <2>1
<1>5. CASE Disconnect("stop")
  BY <1>5 DEF Disconnect, Release, SetDisconnect, Shutdown
<1>6. CASE \E c \in Commands : Call(c)
  BY <1>6, Names DEF Call, Acquire, PassGate, CallPut
<1> QED
  BY <1>1, <1>2, <1>3, <1>4, <1>5, <1>6 DEF Next, Quiet

(* GateOpenWhileAnnounced: the only steps that take the lock are that of a
   caller, which then is the witness, and that of loop, which ends the session. *)
LEMMA GateStep == ASSUME TInv, GateOpenWhileAnnounced, [Next]_vars PROVE GateOpenWhileAnnounced'
<1> USE DEF TInv, TypeOK, PcOK, GateOpenWhileAnnounced
<1>1. CASE \E t \in Connectors : Connect(t) \/ Requeue(t)
  <2>1. PICK t \in Connectors : Connect(t) \/ Requeue(t)
    BY <1>1
  <2>2. t \notin Commands
    BY Names
  <2>3. UNCHANGED gate
    BY <2>1 DEF Connect, ConnectBegin, ConnectWrap, ConnectHandshake, ConnectSend, ConnectRaise,
       ConnectMark, SendMessage, Requeue
  <2>4. \A u \in Threads \ {t, "loop"} : pc'[u] = pc[u]
    BY <2>1 DEF Connect, ConnectBegin, ConnectWrap, ConnectHandshake, ConnectSend, ConnectRaise,
       ConnectMark, SendMessage, TcpFailed, Requeue
  <2>5. \A c \in Commands : pc'[c] = pc[c]
    BY <2>2, <2>4, Names
  <2> QED
    BY <2>3, <2>5
<1>2. CASE Loop
  <2>1. CASE LoopReacquire
    BY <2>1 DEF LoopReacquire
  <2>2. CASE LoopCheck \/ LoopTop \/ LoopJudge \/ LoopSession \/ LoopJoin
    <3>1. UNCHANGED gate
      BY <2>2 DEF LoopCheck, LoopTop, LoopJudge, LoopSession, LoopJoin
    <3>2. \A c \in Commands : pc'[c] = pc[c]
      <4>1. \A u \in Threads \ {"loop", "listen", "send", "ping"} : pc'[u] = pc[u]
        BY <2>2 DEF LoopCheck, LoopTop, LoopJudge, LoopSession, LoopJoin
      <4>2. \A c \in Commands : c \notin {"loop", "listen", "send", "ping"}
        BY Names
      <4> QED
        BY <4>1, <4>2
    <3> QED
      BY <3>1, <3>2
  <2> QED
    BY <1>2, <2>1, <2>2 DEF Loop
<1>3. CASE Listen
  <2>1. locked' = FALSE \/ UNCHANGED gate
    BY <1>3 DEF Listen, SessionCheck, Recv, Drained, HandleVersion, HandleServerSync, SyncPut,
       SyncRead, SyncSet, SyncReady, HandleReject, HandleBad, HandleCryptRequest, SendMessage,
       Requeue, Disconnect, Release, SetDisconnect, Shutdown
  <2>2. \A c \in Commands : pc'[c] = pc[c]
    BY <1>3, Names DEF Listen, SessionCheck, Recv, Drained, HandleVersion, HandleServerSync, SyncPut,
       SyncRead, SyncSet, SyncReady, HandleReject, HandleBad, HandleCryptRequest, SendMessage, TcpFailed,
       Requeue, Disconnect, Release, SetDisconnect, Shutdown
  <2> QED
    BY <2>1, <2>2
<1>4. CASE Quiet
  BY <1>4, QuietStep
<1>5. CASE Disconnect("stop")
  BY <1>5, Names DEF Disconnect, Release, SetDisconnect, Shutdown
<1>6. ASSUME NEW c \in Commands, Call(c) PROVE GateOpenWhileAnnounced'
  BY <1>6, Names DEF Call, Acquire, PassGate, CallPut
<1> QED
  BY <1>1, <1>2, <1>3, <1>4, <1>5, <1>6 DEF Next, Quiet

(* No caller has the name of a thread of the client. *)
LEMMA CallerNames == \A c \in Commands \cup Audio \cup Direct : c \notin Workers
BY Names

(* FirstGateOK: a step that does not move main, loop or the call of stop keeps
   it, when it opens the gate only in one of the ways that are allowed. *)
LEMMA FirstGateFrame ==
    ASSUME FirstGateOK, epoch' = epoch,
           \A u \in {"main", "loop", "stop"} : pc'[u] = pc[u],
           disconnect => disconnect', server = "synced" => server' = "synced",
           status = "FAILED" => status' = "FAILED" \/ (server' = "synced" /\ pc["loop"] = "join"),
           status' = "NOT_CONNECTED" => status = "NOT_CONNECTED",
           \A t \in {"listen", "send"} :
              /\ Leaving(t) => pc'[t] \in {"exit", "off"}
              /\ pc'[t] = "exit" => pc[t] = "exit" \/ disconnect \/ status = "FAILED"
              /\ pc'[t] \in DisconnectLabels => ~ParentAlive,
           Opened' => \/ Opened \/ ~ParentAlive \/ server' = "synced" \/ Ended'
                      \/ pc["listen"] = "exit" \/ pc["send"] = "exit",
           pc["main"] \in ConnectLabels => (Opened' => Opened)
    PROVE  FirstGateOK'
<1> USE DEF FirstGateOK, Ended, Leaving, ParentAlive
<1>1. server = "synced" \/ Ended => server' = "synced" \/ Ended'
  OBVIOUS
<1>2. epoch <= 1 /\ Opened' => server' = "synced" \/ Ended'
  BY <1>1
<1>3. ASSUME NEW t \in {"listen", "send"}, epoch <= 1, pc'[t] = "exit"
      PROVE  server' = "synced" \/ Ended'
  BY <1>1, <1>3
<1>4. epoch' <= 1 /\ pc'["loop"] \in ConnectLabels
         => pc'["loop"] \in {"connect", "wrap", "raise"} /\ status' = "FAILED"
  OBVIOUS
<1> HIDE DEF Opened
<1> QED
  BY <1>2, <1>3, <1>4

(* What a step of connect() does not touch. *)
LEMMA ConnectFrame ==
    ASSUME TInv, SessionOK, NEW t \in Connectors, Connect(t) \/ Requeue(t)
    PROVE  /\ pc[t] \in ConnectLabels /\ SessionOver /\ UNCHANGED <<gate, timer>>
           /\ pc'[t] \in (CASE t = "main" -> MainLabels [] OTHER -> LoopLabels)
           /\ t = "loop" => pc'["main"] = pc["main"]
           /\ t = "main" => pc["loop"] = "off"
           /\ \A u \in {"listen", "send", "stop", "ping"} : pc'[u] = pc[u]
           /\ \A u \in Commands \cup Direct : pc'[u] = pc[u]
<1> USE DEF TInv, TypeOK, PcOK
<1>1. pc[t] \in ConnectLabels
  BY DEF Connect, ConnectBegin, ConnectWrap, ConnectHandshake, ConnectSend, ConnectRaise,
     ConnectMark, Requeue
<1>2. SessionOver /\ (t = "main" => pc["loop"] = "off")
  BY <1>1 DEF SessionOK
<1>3. UNCHANGED <<gate, timer>>
  BY DEF Connect, ConnectBegin, ConnectWrap, ConnectHandshake, ConnectSend, ConnectRaise,
     ConnectMark, SendMessage, Requeue
<1>4. \A u \in Threads \ {t, "loop"} : pc'[u] = pc[u]
  BY DEF Connect, ConnectBegin, ConnectWrap, ConnectHandshake, ConnectSend, ConnectRaise,
     ConnectMark, SendMessage, TcpFailed, Requeue
<1>5. \A u \in Commands \cup Direct : u \notin {t, "loop"}
  BY Names
<1>6. PcOK'
  BY TypeStep DEF Next
<1> QED
  BY <1>1, <1>2, <1>3, <1>4, <1>5, <1>6

(* FirstGateOK through the connections of main: nothing has opened the gate yet
   but a stop(), and mark may forget a failure of send_version or send_auth. *)
LEMMA FirstGateMain ==
    ASSUME TInv, SessionOK, FirstGateOK, Connect("main") \/ Requeue("main")
    PROVE  FirstGateOK'
<1> USE DEF TInv, TypeOK, PcOK
<1>1. /\ pc["main"] \in ConnectLabels /\ UNCHANGED gate /\ pc["loop"] = "off"
      /\ pc'["stop"] = pc["stop"] /\ pc'["listen"] = "off" /\ pc'["send"] = "off"
      /\ \A c \in Commands : pc'[c] = pc[c]
  BY ConnectFrame DEF SessionOver
<1>2. Opened' <=> Opened
  BY <1>1 DEF Opened
<1>3. Opened => pc["stop"] # "off"
  BY <1>1 DEF FirstGateOK
<1>4. pc'["main"] # "connect"
  BY Names DEF Connect, ConnectBegin, ConnectWrap, ConnectHandshake, ConnectSend, ConnectRaise,
     ConnectMark, SendMessage, TcpFailed, Requeue, Return, Raise
<1>5. pc'["loop"] = "off" \/ (pc'["loop"] = "check" /\ status' = "AUTHENTICATING")
  BY <1>1, Names DEF Connect, ConnectBegin, ConnectWrap, ConnectHandshake, ConnectSend, ConnectRaise,
     ConnectMark, SendMessage, TcpFailed, Requeue
<1> HIDE DEF Opened
<1> QED
  BY <1>1, <1>2, <1>3, <1>4, <1>5 DEF FirstGateOK, Ended

(* FirstGateOK through the connections of loop: they belong to a later session,
   or have found the status FAILED. *)
LEMMA FirstGateReconnect ==
    ASSUME TInv, SessionOK, FirstGateOK, Connect("loop") \/ Requeue("loop")
    PROVE  FirstGateOK'
<1> USE DEF TInv, TypeOK, PcOK
<1>1. /\ pc["loop"] \in ConnectLabels /\ UNCHANGED gate /\ pc'["main"] = pc["main"]
      /\ pc["main"] \notin ConnectLabels
      /\ pc'["stop"] = pc["stop"] /\ SessionOver /\ SessionOver'
      /\ \A c \in Commands : pc'[c] = pc[c]
  BY ConnectFrame DEF SessionOver, SessionOK
<1>2. Opened' <=> Opened
  BY <1>1 DEF Opened
<1>3. epoch \in Nat \ {0} /\ epoch' \in {epoch, epoch + 1}
  BY <1>1 DEF SocketOK, Connect, ConnectBegin, ConnectWrap, ConnectHandshake, ConnectSend,
     ConnectRaise, ConnectMark, SendMessage, Transmit, Requeue
<1>4. status' # "NOT_CONNECTED"
  BY <1>1 DEF FirstGateOK, Connect, ConnectBegin, ConnectWrap, ConnectHandshake, ConnectSend,
     ConnectRaise, ConnectMark, SendMessage, TcpFailed, Requeue
<1>5. ASSUME epoch' <= 1
      PROVE  /\ pc["loop"] \in {"connect", "wrap", "raise"} /\ status = "FAILED" /\ status' = "FAILED"
             /\ pc'["loop"] \in {"wrap", "raise", "judge"} /\ server' = server
  <2>1. epoch' = epoch /\ epoch <= 1
    BY <1>3, <1>5
  <2>2. pc["loop"] \in {"connect", "wrap", "raise"} /\ status = "FAILED"
    BY <1>1, <2>1 DEF FirstGateOK
  <2>3. ConnectBegin("loop") \/ ConnectWrap("loop") \/ ConnectRaise("loop")
    BY <2>2 DEF Connect, ConnectHandshake, ConnectSend, ConnectMark, Requeue
  <2> QED
    BY <1>3, <2>1, <2>2, <2>3 DEF ConnectBegin, ConnectWrap, ConnectRaise
<1> HIDE DEF Opened
<1>6. epoch' <= 1 /\ Opened' => server' = "synced" \/ Ended'
  BY <1>1, <1>5 DEF Ended, Leaving, SessionOver
<1> QED
  BY <1>1, <1>4, <1>5, <1>6 DEF FirstGateOK, SessionOver

(* FirstGateOK through loop: a session begins only while the status is not
   FAILED, and loop itself never opens the gate. *)
LEMMA FirstGateLoop == ASSUME TInv, SessionOK, FirstGateOK, Loop PROVE FirstGateOK'
<1> USE DEF TInv, TypeOK, PcOK
<1>1. /\ UNCHANGED <<status, disconnect, epoch, server>> /\ pc["loop"] # "off"
      /\ pc'["main"] = pc["main"] /\ pc'["stop"] = pc["stop"] /\ (locked' = locked \/ locked')
  BY DEF Loop, LoopCheck, LoopTop, LoopJudge, LoopSession, LoopJoin, LoopReacquire
<1>2. \A c \in Commands : pc'[c] = pc[c]
  <2>1. \A u \in Threads \ {"loop", "listen", "send", "ping"} : pc'[u] = pc[u]
    BY DEF Loop, LoopCheck, LoopTop, LoopJudge, LoopSession, LoopJoin, LoopReacquire
  <2>2. \A c \in Commands : c \notin {"loop", "listen", "send", "ping"}
    BY CallerNames
  <2> QED
    BY <2>1, <2>2
<1>3. Opened' => Opened
  BY <1>1, <1>2 DEF Opened
<1>4. \/ pc'["listen"] = pc["listen"] /\ pc'["send"] = pc["send"]
      \/ status # "FAILED" /\ pc'["listen"] = "check" /\ pc'["send"] = "check"
  BY DEF IsConnected, Loop, LoopCheck, LoopTop, LoopJudge, LoopSession, LoopJoin, LoopReacquire
<1>5. pc'["loop"] \in ConnectLabels
         => pc'["loop"] = "connect" /\ status \in {"FAILED", "NOT_CONNECTED"}
  BY DEF IsConnected, Loop, LoopCheck, LoopTop, LoopJudge, LoopSession, LoopJoin, LoopReacquire
<1> HIDE DEF Opened
<1>6. epoch' <= 1 /\ (Opened' \/ pc'["listen"] = "exit" \/ pc'["send"] = "exit")
        => server' = "synced" \/ Ended'
  BY <1>1, <1>3, <1>4 DEF FirstGateOK, Ended, Leaving, ParentAlive
<1> QED
  BY <1>1, <1>3, <1>4, <1>5, <1>6 DEF FirstGateOK, ParentAlive

(* FirstGateOK through listen, which opens the gate when the server has sent
   ServerSync, when it has refused the client, and when the session is over. *)
LEMMA FirstGateListen == ASSUME TInv, SessionOK, AnnouncedOK, FirstGateOK, Listen PROVE FirstGateOK'
<1> USE DEF TInv, TypeOK, PcOK
<1>1. /\ pc["listen"] # "off" /\ epoch' = epoch
      /\ \A u \in {"main", "loop", "stop", "send"} : pc'[u] = pc[u]
      /\ \A c \in Commands : pc'[c] = pc[c]
      /\ disconnect => disconnect'
  BY Names DEF Listen, SessionCheck, Recv, Drained, HandleVersion, HandleServerSync, SyncPut,
     SyncRead, SyncSet, SyncReady, HandleReject, HandleBad, HandleCryptRequest, SendMessage, Transmit,
     TcpFailed, Requeue, Disconnect, Release, SetDisconnect, Shutdown
<1>2. pc["loop"] = "join" /\ status # "NOT_CONNECTED" /\ pc["main"] \notin ConnectLabels
  BY <1>1 DEF SessionOK, SessionOver, FirstGateOK
<1>3. CASE SyncSet \/ SyncReady \/ HandleServerSync \/ HandleReject
  <2>1. server' = "synced" \/ (status' = "FAILED" /\ pc'["listen"] = "off")
    BY <1>3 DEF SyncSet, SyncReady, HandleServerSync, HandleReject, AnnouncedOK, SyncLabels
  <2>2. pc["listen"] \notin {"exit", "off"} /\ pc'["listen"] \notin DisconnectLabels \cup {"exit"}
    BY <1>3 DEF SyncSet, SyncReady, HandleServerSync, HandleReject
  <2>3. server = "synced" => server' = "synced"
    BY <1>3 DEF SyncSet, SyncReady, HandleServerSync, HandleReject, Authenticated
  <2>4. status' # "NOT_CONNECTED"
    BY <1>2, <1>3 DEF SyncSet, SyncReady, HandleServerSync, HandleReject
  <2>5. server' = "synced" \/ Ended'
    BY <2>1 DEF Ended, Leaving
  <2> HIDE DEF Opened, Ended
  <2> QED
    BY <1>1, <1>2, <2>2, <2>4, <2>5 DEF FirstGateOK, ParentAlive
<1>4. CASE \/ SessionCheck("listen", "recv") \/ Recv \/ Drained \/ HandleVersion \/ SyncPut \/ SyncRead
           \/ HandleBad \/ HandleCryptRequest \/ Requeue("listen") \/ Disconnect("listen")
  <2>1. /\ server = "synced" => server' = "synced"
        /\ status' \in {status, "FAILED"}
        /\ pc["listen"] = "exit" => pc'["listen"] = "off"
        /\ pc'["listen"] = "exit" => disconnect \/ status \in {"FAILED", "NOT_CONNECTED"}
    BY <1>1, <1>4, Names DEF IsConnected, SessionCheck, Recv, Drained, HandleVersion, SyncPut, SyncRead, HandleBad,
       HandleCryptRequest, SendMessage, Transmit, TcpFailed, Requeue, Return, Raise, Disconnect, Release,
       SetDisconnect, Shutdown
  <2>2. /\ pc'["listen"] \in DisconnectLabels => ~ParentAlive \/ pc["listen"] \in DisconnectLabels
        /\ locked' = locked \/ pc["listen"] \in {"release", "exit"}
    BY <1>1, <1>4, Names DEF SessionCheck, Recv, Drained, HandleVersion, SyncPut, SyncRead, HandleBad,
       HandleCryptRequest, SendMessage, Transmit, TcpFailed, Requeue, Return, Raise, Disconnect, Release,
       SetDisconnect, Shutdown
  <2>3. Opened' => Opened \/ ~ParentAlive \/ pc["listen"] = "exit"
    BY <1>1, <2>2 DEF Opened, FirstGateOK
  <2>4. pc["send"] \in DisconnectLabels \/ pc["listen"] \in DisconnectLabels => ~ParentAlive
    BY DEF FirstGateOK
  <2> HIDE DEF Opened
  <2> QED
    BY <1>1, <1>2, <2>1, <2>2, <2>3, <2>4, FirstGateFrame DEF Leaving
<1> QED
  BY <1>3, <1>4 DEF Listen

(* What the steps of ping and of the application leave alone, and the status they may set. *)
LEMMA AppFrame ==
    ASSUME TInv,
           \/ Ping \/ PeerCloses \/ UNCHANGED vars \/ \E c \in Commands : CallPut(c)
           \/ \E a \in Audio : AudioBegin(a) \/ CallPut(a)
           \/ \E d \in Direct : DirectBegin(d) \/ DirectSend(d) \/ Requeue(d)
    PROVE  /\ UNCHANGED <<locked, epoch, server, timer>>
           /\ status' \in {status, "FAILED"} /\ (disconnect => disconnect')
           /\ \A u \in {"main", "loop", "listen", "send", "stop"} : pc'[u] = pc[u]
           /\ \A c \in Commands : pc'[c] = "pass" => pc[c] = "pass"
<1> USE DEF TInv, TypeOK, PcOK
<1>1. CASE Ping \/ PeerCloses \/ UNCHANGED vars
  <2>1. /\ UNCHANGED <<locked, epoch, server, timer>>
        /\ status' \in {status, "FAILED"} /\ (disconnect => disconnect')
    BY <1>1 DEF Ping, PingFire, PingStart, PingSend, PeerCloses, SendMessage, Transmit, TcpFailed,
       Requeue, vars
  <2>2. \A u \in Threads \ {"ping"} : pc'[u] = pc[u]
    BY <1>1 DEF Ping, PingFire, PingStart, PingSend, PeerCloses, SendMessage, TcpFailed, Requeue, vars
  <2>3. \A c \in Commands : c # "ping"
    BY CallerNames
  <2> QED
    BY <2>1, <2>2, <2>3
<1>2. CASE \E a \in Commands \cup Audio : AudioBegin(a) \/ CallPut(a)
  <2>1. PICK a \in Commands \cup Audio : AudioBegin(a) \/ CallPut(a)
    BY <1>2
  <2>2. /\ UNCHANGED <<locked, epoch, server, timer, status, disconnect>>
        /\ \E l \in {"put", "done"} : Goto(a, l)
    BY <2>1 DEF AudioBegin, CallPut
  <2> QED
    BY <2>2, CallerNames
<1>3. CASE \E d \in Direct : DirectBegin(d) \/ DirectSend(d) \/ Requeue(d)
  <2>1. PICK d \in Direct : DirectBegin(d) \/ DirectSend(d) \/ Requeue(d)
    BY <1>3
  <2>2. /\ UNCHANGED <<locked, epoch, server, timer>>
        /\ status' \in {status, "FAILED"} /\ (disconnect => disconnect')
    BY <2>1 DEF DirectBegin, DirectSend, SendMessage, Transmit, TcpFailed, Requeue
  <2>3. \A u \in Threads \ {d} : pc'[u] = pc[u]
    BY <2>1 DEF DirectBegin, DirectSend, SendMessage, TcpFailed, Requeue
  <2>4. d \notin Workers \cup Commands
    BY Names
  <2> QED
    BY <2>2, <2>3, <2>4
<1> QED
  BY <1>1, <1>2, <1>3

(* FirstGateOK through send, which opens the gate when it ends. *)
LEMMA FirstGateSend == ASSUME TInv, SessionOK, FirstGateOK, Send PROVE FirstGateOK'
<1> USE DEF TInv, TypeOK, PcOK
<1>1. /\ pc["send"] # "off" /\ UNCHANGED <<epoch, server>> /\ status' \in {status, "FAILED"}
      /\ \A u \in {"main", "loop", "stop", "listen"} : pc'[u] = pc[u]
      /\ \A c \in Commands : pc'[c] = pc[c]
      /\ disconnect => disconnect'
  BY Names DEF Send, SessionCheck, Get, SendItem, SendAudioLegacy, SendMessage, Transmit, TcpFailed,
     Requeue, Disconnect, Release, SetDisconnect, Shutdown
<1>2. pc["loop"] = "join" /\ status # "NOT_CONNECTED" /\ pc["main"] \notin ConnectLabels
  BY <1>1 DEF SessionOK, SessionOver, FirstGateOK
<1>3. /\ pc["send"] = "exit" => pc'["send"] = "off"
      /\ pc'["send"] = "exit" => disconnect \/ status \in {"FAILED", "NOT_CONNECTED"}
      /\ pc'["send"] \in DisconnectLabels => ~ParentAlive \/ pc["send"] \in DisconnectLabels
      /\ locked' = locked \/ pc["send"] \in {"release", "exit"}
  BY <1>1 DEF IsConnected, Send, SessionCheck, Get, SendItem, SendAudioLegacy, SendMessage, TcpFailed,
     Requeue, Return, Raise, Disconnect, Release, SetDisconnect, Shutdown
<1>4. Opened' => Opened \/ ~ParentAlive \/ pc["send"] = "exit"
  BY <1>1, <1>3 DEF Opened, FirstGateOK
<1>5. pc["send"] \in DisconnectLabels \/ pc["listen"] \in DisconnectLabels => ~ParentAlive
  BY DEF FirstGateOK
<1> HIDE DEF Opened
<1> QED
  BY <1>1, <1>2, <1>3, <1>4, <1>5, FirstGateFrame DEF Leaving

(* FirstGateOK is kept by every step. *)
LEMMA FirstGateStep ==
    ASSUME TInv, SessionOK, AnnouncedOK, FirstGateOK, [Next]_vars
    PROVE  FirstGateOK'
<1> USE DEF TInv, TypeOK, PcOK
<1>1. CASE \E t \in Connectors : Connect(t) \/ Requeue(t)
  BY <1>1, FirstGateMain, FirstGateReconnect
<1>2. CASE Loop \/ Listen \/ Send
  BY <1>2, FirstGateLoop, FirstGateListen, FirstGateSend
<1>3. CASE \/ Ping \/ PeerCloses \/ UNCHANGED vars \/ \E c \in Commands : CallPut(c)
           \/ \E a \in Audio : AudioBegin(a) \/ CallPut(a)
           \/ \E d \in Direct : DirectBegin(d) \/ DirectSend(d) \/ Requeue(d)
  <2>1. /\ UNCHANGED <<locked, epoch, server>>
        /\ status' \in {status, "FAILED"} /\ (disconnect => disconnect')
        /\ \A u \in {"main", "loop", "listen", "send", "stop"} : pc'[u] = pc[u]
        /\ \A c \in Commands : pc'[c] = "pass" => pc[c] = "pass"
    BY <1>3, AppFrame
  <2>2. Opened' => Opened
    BY <2>1 DEF Opened
  <2>3. pc["send"] \in DisconnectLabels \/ pc["listen"] \in DisconnectLabels => ~ParentAlive
    BY DEF FirstGateOK
  <2>4. /\ disconnect => disconnect'
        /\ status = "FAILED" => status' = "FAILED"
        /\ status' = "NOT_CONNECTED" => status = "NOT_CONNECTED"
    BY <2>1
  <2>5. epoch' = epoch /\ server' = server
        /\ \A u \in {"main", "loop", "listen", "send", "stop"} : pc'[u] = pc[u]
    BY <2>1
  <2> HIDE DEF Opened
  <2> QED
    BY <2>2, <2>3, <2>4, <2>5, FirstGateFrame DEF Leaving
<1>4. ASSUME NEW c \in Commands, Acquire(c) \/ PassGate(c) PROVE FirstGateOK'
  <2>1. /\ UNCHANGED <<status, disconnect, epoch, server>> /\ Opened
        /\ \A u \in Workers : pc'[u] = pc[u]
    BY <1>4, CallerNames DEF Acquire, PassGate, Opened
  <2>2. pc["send"] \in DisconnectLabels \/ pc["listen"] \in DisconnectLabels => ~ParentAlive
    BY DEF FirstGateOK
  <2> HIDE DEF Opened
  <2> QED
    BY <2>1, <2>2, FirstGateFrame DEF Leaving
<1>5. CASE StopBegin \/ Disconnect("stop")
  <2>1. CASE StopBegin
    <3>1. /\ UNCHANGED <<status, disconnect, epoch, server>> /\ pc'["stop"] # "off"
          /\ pc["main"] # "connect"
          /\ \A u \in {"main", "loop", "listen", "send"} : pc'[u] = pc[u]
      BY <2>1 DEF StopBegin
    <3> HIDE DEF Opened
    <3> QED
      BY <3>1 DEF FirstGateOK, Ended, Leaving, ParentAlive
  <2>2. CASE Disconnect("stop")
    <3>1. /\ UNCHANGED <<status, epoch, server>> /\ (disconnect => disconnect')
          /\ pc["stop"] # "off" /\ pc'["stop"] # "off"
          /\ \A u \in {"main", "loop", "listen", "send"} : pc'[u] = pc[u]
      BY <2>2 DEF Disconnect, Release, SetDisconnect, Shutdown
    <3> HIDE DEF Opened
    <3> QED
      BY <3>1 DEF FirstGateOK, Ended, Leaving, ParentAlive
  <2> QED
    BY <1>5, <2>1, <2>2
<1>6. CASE ParentDies
  <2>1. /\ UNCHANGED <<status, disconnect, locked, epoch, server>>
        /\ pc["main"] \in {"done", "failed"} /\ pc'["main"] = "gone"
        /\ \A u \in {"stop", "loop", "listen", "send"} : pc'[u] = pc[u]
    BY <1>6 DEF ParentDies
  <2> HIDE DEF Opened
  <2> QED
    BY <2>1 DEF FirstGateOK, Ended, Leaving, ParentAlive
<1> QED
  BY <1>1, <1>2, <1>3, <1>4, <1>5, <1>6 DEF Next, Call

(* A send past the queue is never undone. *)
LEMMA OneShotBack == ASSUME TInv, [Next]_vars, OneShot' PROVE OneShot
<1> USE DEF TInv, TypeOK, PcOK
<1> SUFFICES ASSUME NEW d \in Direct, pc[d] # "idle" PROVE pc'[d] # "idle"
  BY DEF OneShot
<1>1. d \notin Workers \cup Commands \cup Audio
  BY Names
<1>2. CASE \E t \in Connectors : Connect(t) \/ Requeue(t)
  <2>1. PICK t \in Connectors : \A u \in Threads \ {t, "loop"} : pc'[u] = pc[u]
    BY <1>2 DEF Connect, ConnectBegin, ConnectWrap, ConnectHandshake, ConnectSend, ConnectRaise,
       ConnectMark, SendMessage, TcpFailed, Requeue
  <2> QED
    BY <1>1, <2>1
<1>3. CASE Loop
  <2>1. \A u \in Threads \ {"loop", "listen", "send", "ping"} : pc'[u] = pc[u]
    BY <1>3 DEF Loop, LoopCheck, LoopTop, LoopJudge, LoopSession, LoopJoin, LoopReacquire
  <2> QED
    BY <1>1, <2>1
<1>4. CASE Listen
  <2>1. \A u \in Threads \ {"listen"} : pc'[u] = pc[u]
    BY <1>4 DEF Listen, SessionCheck, Recv, Drained, HandleVersion, HandleServerSync, SyncPut,
       SyncRead, SyncSet, SyncReady, HandleReject, HandleBad, HandleCryptRequest, SendMessage, TcpFailed,
       Requeue, Disconnect, Release, SetDisconnect, Shutdown
  <2> QED
    BY <1>1, <2>1
<1>5. CASE Send
  <2>1. \A u \in Threads \ {"send"} : pc'[u] = pc[u]
    BY <1>5 DEF Send, SessionCheck, Get, SendItem, SendAudioLegacy, SendMessage, TcpFailed, Requeue,
       Disconnect, Release, SetDisconnect, Shutdown
  <2> QED
    BY <1>1, <2>1
<1>6. CASE Ping \/ StopBegin \/ Disconnect("stop") \/ PeerCloses \/ ParentDies \/ UNCHANGED vars
  <2>1. \A u \in Threads \ Workers : pc'[u] = pc[u]
    BY <1>6 DEF Ping, PingFire, PingStart, PingSend, StopBegin, Disconnect, Release, SetDisconnect,
       Shutdown, PeerCloses, ParentDies, SendMessage, TcpFailed, Requeue, vars
  <2> QED
    BY <1>1, <2>1
<1>7. CASE (\E c \in Commands : Call(c)) \/ \E a \in Audio : AudioBegin(a) \/ CallPut(a)
  <2>1. PICK c \in Commands \cup Audio : Call(c) \/ AudioBegin(c)
    BY <1>7 DEF Call
  <2>2. \A u \in Threads \ {c} : pc'[u] = pc[u]
    BY <2>1 DEF Call, Acquire, PassGate, CallPut, AudioBegin
  <2> QED
    BY <1>1, <2>1, <2>2
<1>8. ASSUME NEW e \in Direct, DirectBegin(e) \/ DirectSend(e) \/ Requeue(e) PROVE pc'[d] # "idle"
  <2>1. e \notin Workers
    BY Names
  <2> QED
    BY <1>8, <2>1 DEF DirectBegin, DirectSend, SendMessage, TcpFailed, Requeue, Return, Raise
<1> QED
  BY <1>2, <1>3, <1>4, <1>5, <1>6, <1>7, <1>8 DEF Next

(* OneShotOK through a step that moves neither main, loop nor listen: only ping
   may change the status while loop is outside a session. *)
LEMMA OneShotFrame ==
    ASSUME OneShotOK, OneShot' => OneShot, UNCHANGED <<epoch, server, timer>>, disconnect => disconnect',
           \A u \in {"main", "loop", "listen"} : pc'[u] = pc[u],
           \/ status' = status /\ pc'["ping"] = pc["ping"]
           \/ /\ status' \in {status, "FAILED"}
              /\ pc["loop"] = "join" \/ timer \/ pc["ping"] # "idle"
              /\ pc["loop"] = "join" => pc["main"] \notin ConnectLabels
    PROVE  OneShotOK'
<1> SUFFICES ASSUME OneShot' PROVE OneShotOK'
  BY DEF OneShotOK
<1>1. OneShot
  OBVIOUS
<1>2. Finished => Finished'
  BY DEF Finished
<1> HIDE DEF OneShot
<1>3. CASE status' = status /\ pc'["ping"] = pc["ping"]
  <2>1. Quietly => Quietly'
    BY <1>3 DEF Quietly, IsConnected
  <2> QED
    BY <1>1, <1>2, <1>3, <2>1 DEF OneShotOK, Leaving
<1>4. CASE /\ status' \in {status, "FAILED"}
           /\ pc["loop"] = "join" \/ timer \/ pc["ping"] # "idle"
           /\ pc["loop"] = "join" => pc["main"] \notin ConnectLabels
  <2>1. ~Quietly \/ pc["loop"] = "join"
    BY <1>4 DEF Quietly
  <2>2. pc["main"] \notin ConnectLabels
    BY <1>1, <1>4 DEF OneShotOK
  <2> QED
    BY <1>1, <1>2, <1>4, <2>1, <2>2 DEF OneShotOK, Leaving
<1> QED
  BY <1>3, <1>4

(* OneShotOK through start(): it opens the one connection. *)
LEMMA OneShotMain ==
    ASSUME TInv, SessionOK, OneShotOK, OneShot, Connect("main") \/ Requeue("main")
    PROVE  OneShotOK'
<1> USE DEF TInv, TypeOK, PcOK
<1>1. /\ pc["main"] \in ConnectLabels /\ timer' = timer /\ pc["loop"] = "off"
      /\ pc'["ping"] = pc["ping"] /\ pc'["listen"] = "off"
  BY ConnectFrame DEF SessionOver
<1>2. epoch <= 1 /\ server = "silent" /\ ~timer /\ pc["ping"] = "idle"
  BY <1>1 DEF OneShotOK
<1>3. pc["main"] \in {"connect", "wrap"} => epoch = 0
  BY DEF OneShotOK
<1>4. pc'["main"] # "connect" /\ (pc'["main"] = "wrap" => pc["main"] = "connect" /\ epoch' = epoch)
  BY Names DEF Connect, ConnectBegin, ConnectWrap, ConnectHandshake, ConnectSend, ConnectRaise,
     ConnectMark, SendMessage, TcpFailed, Requeue, Return, Raise
<1>5. epoch' = epoch \/ (pc["main"] = "wrap" /\ epoch' = epoch + 1)
  BY DEF Connect, ConnectBegin, ConnectWrap, ConnectHandshake, ConnectSend, ConnectRaise,
     ConnectMark, SendMessage, Transmit, Requeue
<1>6. epoch' <= 1
  BY <1>2, <1>3, <1>5
<1>7. server' = "silent"
  BY <1>2 DEF Connect, ConnectBegin, ConnectWrap, ConnectHandshake, ConnectSend, ConnectRaise,
     ConnectMark, SendMessage, Transmit, Requeue
<1>8. pc'["loop"] = "off" \/ (pc'["loop"] = "check" /\ status' = "AUTHENTICATING")
  BY <1>1, Names DEF Connect, ConnectBegin, ConnectWrap, ConnectHandshake, ConnectSend, ConnectRaise,
     ConnectMark, SendMessage, TcpFailed, Requeue
<1>9. pc'["loop"] = "check" => Quietly'
  BY <1>1, <1>2, <1>8 DEF Quietly, IsConnected
<1> QED
  BY <1>1, <1>2, <1>3, <1>4, <1>6, <1>7, <1>8, <1>9 DEF OneShotOK

(* OneShotOK through loop: its guard passes once. *)
LEMMA OneShotLoop == ASSUME TInv, SessionOK, OneShotOK, OneShot, Loop PROVE OneShotOK'
<1> USE DEF TInv, TypeOK, PcOK
<1>1. UNCHANGED <<status, disconnect, epoch, server>> /\ pc["loop"] # "off" /\ pc'["main"] = pc["main"]
  BY DEF Loop, LoopCheck, LoopTop, LoopJudge, LoopSession, LoopJoin, LoopReacquire
<1>2. pc["main"] \notin ConnectLabels
  BY <1>1 DEF SessionOK
<1>3. (Finished' <=> Finished) /\ (IsConnected' <=> IsConnected)
  BY <1>1 DEF Finished, IsConnected
<1>4. CASE LoopCheck
  <2>1. pc'["loop"] = "dead" \/ (pc'["loop"] = "top" /\ ~Finished)
    BY <1>4 DEF LoopCheck, Finished, OneShot
  <2>2. ~Finished => Quietly
    BY <1>4 DEF LoopCheck, OneShotOK
  <2>3. pc'["ping"] = pc["ping"] /\ pc'["listen"] = pc["listen"] /\ (timer' => timer)
    BY <1>4 DEF LoopCheck
  <2>4. pc'["loop"] = "top" => Quietly'
    BY <1>3, <2>1, <2>2, <2>3 DEF Quietly
  <2> QED
    BY <1>1, <1>2, <2>1, <2>3, <2>4 DEF OneShotOK
<1>5. CASE LoopTop \/ LoopJudge
  <2>1. pc["loop"] \in {"top", "judge"} /\ UNCHANGED timer
        /\ pc'["ping"] = pc["ping"] /\ pc'["listen"] = pc["listen"]
    BY <1>5 DEF LoopTop, LoopJudge
  <2>2. Quietly
    BY <2>1 DEF OneShotOK
  <2>3. pc'["loop"] \in {"judge", "session"} /\ Quietly'
    BY <1>3, <1>5, <2>1, <2>2 DEF LoopTop, LoopJudge, Quietly
  <2> QED
    BY <1>1, <1>2, <2>1, <2>3 DEF OneShotOK
<1>6. CASE LoopSession
  <2>1. pc["loop"] = "session" /\ IsConnected /\ pc["listen"] = "off"
    BY <1>6 DEF LoopSession, OneShotOK, Quietly, SessionOK, SessionOver
  <2>2. pc'["loop"] = "join" /\ pc'["listen"] = "check"
    BY <1>6, <2>1 DEF LoopSession
  <2> QED
    BY <1>1, <1>2, <2>1, <2>2 DEF OneShotOK, Leaving
<1>7. CASE LoopJoin \/ LoopReacquire
  <2>1. Finished /\ pc'["loop"] \in {"reacquire", "check"} /\ pc'["listen"] = pc["listen"]
    BY <1>7 DEF LoopJoin, LoopReacquire, OneShotOK, Leaving
  <2> QED
    BY <1>1, <1>2, <1>3, <2>1 DEF OneShotOK
<1> QED
  BY <1>4, <1>5, <1>6, <1>7 DEF Loop

(* OneShotOK through listen: when it leaves, the session is over for good. *)
LEMMA OneShotListen ==
    ASSUME TInv, SessionOK, FirstGateOK, OneShotOK, OneShot, Listen
    PROVE  OneShotOK'
<1> USE DEF TInv, TypeOK, PcOK
<1>1. /\ pc["listen"] # "off" /\ epoch' = epoch /\ (disconnect => disconnect')
      /\ \A u \in {"main", "loop"} : pc'[u] = pc[u]
  BY DEF Listen, SessionCheck, Recv, Drained, HandleVersion, HandleServerSync, SyncPut,
     SyncRead, SyncSet, SyncReady, HandleReject, HandleBad, HandleCryptRequest, SendMessage, Transmit,
     TcpFailed, Requeue, Disconnect, Release, SetDisconnect, Shutdown
<1>2. pc["loop"] = "join" /\ status # "NOT_CONNECTED" /\ pc["main"] \notin ConnectLabels
  BY <1>1 DEF SessionOK, SessionOver, FirstGateOK
<1>3. Finished \/ ~Leaving("listen")
  BY <1>2 DEF OneShotOK
<1>4. server = "synced" /\ pc["listen"] \notin {"put", "sync_read", "sync_set"}
        => status \in {"CONNECTED", "FAILED"}
  BY DEF OneShotOK
<1>5. CASE SyncRead \/ SyncSet \/ SyncPut \/ SyncReady \/ HandleServerSync \/ HandleVersion \/ HandleReject
  <2>1. Leaving("listen")' => Finished'
    BY <1>5 DEF SyncRead, SyncSet, SyncPut, SyncReady, HandleServerSync, HandleVersion, HandleReject,
       Leaving, Finished
  <2>2. server' = "synced" /\ pc'["listen"] \notin {"put", "sync_read", "sync_set"}
          => status' \in {"CONNECTED", "FAILED"}
    BY <1>2, <1>4, <1>5 DEF SyncRead, SyncSet, SyncPut, SyncReady, HandleServerSync, HandleVersion,
       HandleReject
  <2> QED
    BY <1>1, <1>2, <2>1, <2>2 DEF OneShotOK
<1>6. CASE \/ SessionCheck("listen", "recv") \/ Recv \/ Drained \/ HandleBad \/ HandleCryptRequest
           \/ Requeue("listen") \/ Disconnect("listen")
  <2>1. /\ server' = server /\ status' \in {status, "FAILED"}
        /\ pc["listen"] \notin {"put", "sync_read", "sync_set"}
    BY <1>6 DEF SessionCheck, Recv, Drained, HandleBad, HandleCryptRequest, Requeue, Disconnect,
       Release, SetDisconnect, Shutdown, SendMessage, Transmit, TcpFailed
  <2>2. Finished => Finished'
    BY <1>1, <2>1 DEF Finished
  <2>3. Leaving("listen")' => Finished \/ pc["listen"] = "drain" \/ disconnect \/ ~IsConnected
    BY <1>3, <1>6 DEF SessionCheck, Recv, Drained, HandleBad, HandleCryptRequest, Requeue, Return,
       Disconnect, Release, SetDisconnect, Shutdown, Leaving
  <2>4. pc["listen"] = "drain" /\ Leaving("listen")' => server = "synced"
    BY <1>6, <2>1 DEF SessionCheck, Recv, Drained, HandleBad, HandleCryptRequest, Requeue, Return,
       Disconnect, Release, SetDisconnect, Shutdown, Leaving, OneShot
  <2>5. Leaving("listen")' => Finished
    BY <1>2, <1>4, <2>1, <2>3, <2>4 DEF Finished, IsConnected
  <2> QED
    BY <1>1, <1>2, <1>4, <2>1, <2>2, <2>5 DEF OneShotOK, Leaving
<1> QED
  BY <1>5, <1>6 DEF Listen

(* OneShotOK is kept by every step. *)
LEMMA OneShotStep ==
    ASSUME TInv, SessionOK, FirstGateOK, OneShotOK, [Next]_vars
    PROVE  OneShotOK'
<1> SUFFICES ASSUME OneShot' PROVE OneShotOK'
  BY DEF OneShotOK
<1>0. OneShot /\ (OneShot' => OneShot)
  BY OneShotBack
<1> USE DEF TInv, TypeOK, PcOK
<1>1. CASE \E t \in Connectors : Connect(t) \/ Requeue(t)
  <2>1. CASE Connect("main") \/ Requeue("main")
    BY <1>0, <2>1, OneShotMain
  <2>2. CASE Connect("loop") \/ Requeue("loop")
    <3>1. pc["loop"] \in ConnectLabels
      BY <2>2, ConnectFrame
    <3> QED
      BY <1>0, <3>1 DEF OneShotOK
  <2> QED
    BY <1>1, <2>1, <2>2
<1>2. CASE Loop \/ Listen
  BY <1>0, <1>2, OneShotLoop, OneShotListen
<1>3. CASE Send
  <2>1. /\ UNCHANGED <<epoch, server, timer>> /\ (disconnect => disconnect') /\ status' \in {status, "FAILED"}
        /\ \A u \in {"main", "loop", "listen"} : pc'[u] = pc[u]
        /\ pc["send"] # "off"
    BY <1>3 DEF Send, SessionCheck, Get, SendItem, SendAudioLegacy, SendMessage, Transmit, TcpFailed,
       Requeue, Disconnect, Release, SetDisconnect, Shutdown
  <2>2. pc["loop"] = "join" /\ pc["main"] \notin ConnectLabels
    BY <2>1 DEF SessionOK, SessionOver
  <2> QED
    BY <1>0, <2>1, <2>2, OneShotFrame
<1>4. CASE Ping
  <2>1. /\ UNCHANGED <<epoch, server, timer>> /\ (disconnect => disconnect') /\ status' \in {status, "FAILED"}
        /\ \A u \in {"main", "loop", "listen"} : pc'[u] = pc[u]
    BY <1>4, AppFrame
  <2>2. timer \/ pc["ping"] # "idle"
    BY <1>4 DEF Ping, PingFire, PingStart, PingSend, Requeue
  <2>3. pc["main"] \notin ConnectLabels
    BY <1>0, <2>2 DEF OneShotOK
  <2> QED
    BY <1>0, <2>1, <2>2, <2>3, OneShotFrame
<1>5. CASE \E d \in Direct : DirectBegin(d) \/ DirectSend(d) \/ Requeue(d)
  <2>1. PICK d \in Direct : DirectBegin(d) \/ DirectSend(d) \/ Requeue(d)
    BY <1>5
  <2>2. pc[d] = "idle" /\ pc'[d] = "idle"
    BY <1>0 DEF OneShot
  <2> QED
    BY <2>1, <2>2 DEF DirectBegin, DirectSend, Requeue
<1>6. CASE \/ PeerCloses \/ UNCHANGED vars \/ StopBegin \/ Disconnect("stop")
           \/ \E c \in Commands : Call(c)
           \/ \E a \in Audio : AudioBegin(a) \/ CallPut(a)
  <2>1. CASE PeerCloses \/ UNCHANGED vars \/ StopBegin \/ Disconnect("stop")
    <3>1. /\ UNCHANGED <<epoch, server, timer, status>> /\ (disconnect => disconnect')
          /\ \A u \in {"main", "loop", "listen", "ping"} : pc'[u] = pc[u]
      BY <2>1 DEF PeerCloses, StopBegin, Disconnect, Release, SetDisconnect, Shutdown, vars
    <3> QED
      BY <1>0, <3>1, OneShotFrame
  <2>2. ASSUME NEW c \in Commands \cup Audio, Call(c) \/ AudioBegin(c) PROVE OneShotOK'
    <3>1. c \notin Workers
      BY CallerNames
    <3>2. /\ UNCHANGED <<epoch, server, timer, status, disconnect>>
          /\ \A u \in {"main", "loop", "listen", "ping"} : pc'[u] = pc[u]
      BY <2>2, <3>1 DEF Call, Acquire, PassGate, CallPut, AudioBegin
    <3> QED
      BY <1>0, <3>2, OneShotFrame
  <2> QED
    BY <1>6, <2>1, <2>2 DEF Call
<1>7. CASE ParentDies
  <2>1. /\ UNCHANGED <<epoch, server, timer, status, disconnect>>
        /\ pc'["main"] = "gone" /\ \A u \in {"loop", "listen", "ping"} : pc'[u] = pc[u]
    BY <1>7 DEF ParentDies
  <2>2. (Quietly' <=> Quietly) /\ (Finished' <=> Finished)
    BY <2>1 DEF Quietly, Finished, IsConnected
  <2> QED
    BY <1>0, <2>1, <2>2 DEF OneShotOK, Leaving
<1> QED
  BY <1>1, <1>2, <1>3, <1>4, <1>5, <1>6, <1>7 DEF Next

(***************************************************************************)
(* Where items are, and the refinement of CommandPipe.  Each of the ways   *)
(* in which the threads move an item has a lemma that it stays in one      *)
(* place and that CommandPipe allows the move.                             *)
(***************************************************************************)
Same(i) == /\ i \in submitted' <=> i \in submitted
           /\ Received(i)' <=> Received(i)
           /\ Held(i)' <=> Held(i)

(* A step that keeps every fate is one of the transport, or none. *)
LEMMA PipeStill ==
    ASSUME \A i \in Items : Same(i) \/ (i \notin submitted /\ i \notin submitted')
    PROVE  Pipe!Next
<1>1. Fate' = Fate
  BY DEF Same, Fate
<1> QED
  BY <1>1 DEF Pipe!Next, Pipe!Transport

(* Handing over, receiving and losing one item x are steps of CommandPipe. *)
LEMMA PipeSubmit ==
    ASSUME NEW x \in Items, x \notin submitted, x \in submitted', ~Received(x)', Held(x)',
           \A i \in Items : i # x => Same(i), socket' = socket
    PROVE  Pipe!Next
<1>1. Fate[x] = "new"
  BY DEF Fate
<1>2. Fate' = [Fate EXCEPT ![x] = "pending"]
  BY DEF Same, Fate
<1> QED
  BY <1>1, <1>2 DEF Pipe!Next, Pipe!Submit

LEMMA PipeLeave ==
    ASSUME NEW x \in Items, x \in submitted, x \in submitted', ~Received(x), Held(x), ~Held(x)',
           \A i \in Items : i # x => Same(i), (socket' = "open") = (socket = "open"),
           IF Received(x)' THEN socket = "open" ELSE socket # "open" \/ x \in Audio
    PROVE  Pipe!Next
<1>1. Fate[x] = "pending"
  BY DEF Fate
<1>2. Fate' = [Fate EXCEPT ![x] = IF Received(x)' THEN "delivered" ELSE "dropped"]
  BY DEF Same, Fate
<1>3. CASE Received(x)'
  BY <1>1, <1>2, <1>3 DEF Pipe!Next, Pipe!Deliver
<1>4. CASE ~Received(x)'
  BY <1>1, <1>2, <1>4 DEF Pipe!Next, Pipe!Drop
<1> QED
  BY <1>3, <1>4

(* What a put and a get do to the queue, and a hand that is filled or emptied to
   what the hands hold. *)
LEMMA QueueGrows ==
    ASSUME TypeOK, NEW x \in Payload, queue' = Append(queue, x)
    PROVE  /\ \A i : Queued(i)' <=> Queued(i) \/ i = x
           /\ (\A m, n \in 1..Len(queue) : queue[m] = queue[n] /\ queue[m] \in Items => m = n)
                /\ ~(x \in Items /\ Queued(x))
              => \A m, n \in 1..Len(queue') : queue'[m] = queue'[n] /\ queue'[m] \in Items => m = n
<1>1. queue \in Seq(Payload)
  BY DEF TypeOK
<1>2. /\ Len(queue') = Len(queue) + 1 /\ Len(queue) \in Nat
      /\ \A n \in 1..Len(queue) : queue'[n] = queue[n]
      /\ queue'[Len(queue) + 1] = x
  BY <1>1
<1>3. \A i : Queued(i)' <=> Queued(i) \/ i = x
  BY <1>2 DEF Queued
<1>4. ASSUME \A m, n \in 1..Len(queue) : queue[m] = queue[n] /\ queue[m] \in Items => m = n,
             ~(x \in Items /\ Queued(x)),
             NEW m \in 1..Len(queue'), NEW n \in 1..Len(queue'),
             queue'[m] = queue'[n], queue'[m] \in Items
      PROVE  m = n
  <2>1. CASE m \in 1..Len(queue) /\ n \in 1..Len(queue)
    BY <1>2, <1>4, <2>1
  <2>2. CASE m = Len(queue) + 1 /\ n \in 1..Len(queue)
    BY <1>2, <1>4, <2>2 DEF Queued
  <2>3. CASE m \in 1..Len(queue) /\ n = Len(queue) + 1
    BY <1>2, <1>4, <2>3 DEF Queued
  <2> QED
    BY <1>2, <2>1, <2>2, <2>3
<1> QED
  BY <1>3, <1>4

LEMMA QueueShrinks ==
    ASSUME TypeOK, OnePlace, queue # <<>>, queue' = Tail(queue)
    PROVE  /\ Head(queue) \in Payload
           /\ Queued(Head(queue))
           /\ \A i \in Items : Queued(i)' <=> Queued(i) /\ i # Head(queue)
           /\ \A m, n \in 1..Len(queue') : queue'[m] = queue'[n] /\ queue'[m] \in Items => m = n
<1>1. queue \in Seq(Payload) /\ queue # <<>>
  BY DEF TypeOK
<1>2. /\ Len(queue) \in Nat \ {0} /\ Len(queue') = Len(queue) - 1
      /\ \A n \in 1..Len(queue') : queue'[n] = queue[n + 1]
      /\ Head(queue) = queue[1] /\ queue[1] \in Payload
  BY <1>1
<1>3. Queued(Head(queue))
  BY <1>2 DEF Queued
<1>4. ASSUME NEW i \in Items PROVE Queued(i)' <=> Queued(i) /\ i # Head(queue)
  <2>1. ASSUME Queued(i)' PROVE Queued(i) /\ i # Head(queue)
    <3>1. PICK n \in 1..Len(queue') : queue'[n] = i
      BY <2>1 DEF Queued
    <3>2. n + 1 \in 1..Len(queue) /\ queue[n + 1] = i /\ n + 1 # 1
      BY <1>2, <3>1
    <3> QED
      BY <1>2, <3>2 DEF Queued, OnePlace
  <2>2. ASSUME Queued(i), i # Head(queue) PROVE Queued(i)'
    <3>1. PICK n \in 1..Len(queue) : queue[n] = i
      BY <2>2 DEF Queued
    <3>2. n - 1 \in 1..Len(queue') /\ queue'[n - 1] = i
      BY <1>2, <2>2, <3>1
    <3> QED
      BY <3>2 DEF Queued
  <2> QED
    BY <2>1, <2>2
<1>5. ASSUME NEW m \in 1..Len(queue'), NEW n \in 1..Len(queue'),
             queue'[m] = queue'[n], queue'[m] \in Items
      PROVE  m = n
  <2>1. m + 1 \in 1..Len(queue) /\ n + 1 \in 1..Len(queue) /\ queue[m + 1] = queue[n + 1]
        /\ queue[m + 1] \in Items
    BY <1>2, <1>5
  <2> QED
    BY <2>1 DEF OnePlace
<1> QED
  BY <1>2, <1>3, <1>4, <1>5

LEMMA HandChanges ==
    ASSUME TypeOK, OnePlace, NEW t \in Senders, NEW x \in Payload \cup {None},
           held' = [held EXCEPT ![t] = x], x \in Items => ~InHand(x) \/ held[t] = x
    PROVE  /\ \A i \in Items : InHand(i)' <=> i = x \/ (InHand(i) /\ i # held[t])
           /\ \A u, v \in Senders : held'[u] = held'[v] /\ held'[u] \in Items => u = v
           /\ \A u \in Senders : u # t => held'[u] = held[u]
           /\ held'[t] = x
<1>1. /\ held'[t] = x
      /\ \A u \in Senders : u # t => held'[u] = held[u]
  BY DEF TypeOK
<1>2. \A i \in Items : InHand(i)' <=> i = x \/ (InHand(i) /\ i # held[t])
  BY <1>1 DEF InHand, OnePlace
<1>3. ASSUME NEW u \in Senders, NEW v \in Senders, held'[u] = held'[v], held'[u] \in Items
      PROVE  u = v
  BY <1>1, <1>3 DEF InHand, OnePlace
<1> QED
  BY <1>1, <1>2, <1>3

\* A step that is not of Control:Listen, or leaves it where it is about to put.
KeepsPut == pc["listen"] = "put" => pc'["listen"] = "put"

(* Steps that move no item. *)
LEMMA MoveNothing ==
    ASSUME OnePlace, UNCHANGED <<queue, held, submitted, delivered>>, KeepsPut
    PROVE  OnePlace' /\ Pipe!Next
<1>1. \A i \in Items : (Queued(i)' <=> Queued(i)) /\ (InHand(i)' <=> InHand(i)) /\ Same(i)
  BY DEF Queued, InHand, Held, Received, Same
<1>2. OnePlace'
  BY <1>1 DEF OnePlace, Same, KeepsPut
<1> QED
  BY <1>1, <1>2, PipeStill

(* Sending: the item stays in the hand, is received, or is lost; x is what the
   hand holds afterwards. *)
LEMMA MoveSend ==
    ASSUME TInv, OnePlace, NEW t \in Senders, NEW item \in Payload, NEW r \in SendResults,
           NEW x \in {None, item}, Transmit(r, item), queue' = queue, submitted' = submitted,
           held' = [held EXCEPT ![t] = x], KeepsPut,
           IF item \in Items THEN held[t] = item /\ item \in submitted ELSE held[t] \notin Items,
           x = item => r = "error",
           x = None /\ r = "error" => item \notin Items \/ item \in Audio
    PROVE  OnePlace' /\ Pipe!Next
<1>1. x \in Payload \cup {None} /\ (x \in Items => held[t] = x) /\ None \notin Items
      /\ None \notin Payload /\ TypeOK
  BY NamesAssumption, Names DEF Payload, TInv
<1>2. /\ \A i \in Items : InHand(i)' <=> i = x \/ (InHand(i) /\ i # held[t])
      /\ \A u, v \in Senders : held'[u] = held'[v] /\ held'[u] \in Items => u = v
      /\ \A u \in Senders : u # t => held'[u] = held[u]
      /\ held'[t] = x
  BY <1>1, HandChanges
<1>3. \A i : Queued(i)' <=> Queued(i)
  BY DEF Queued
<1>4. \A i \in Items : Received(i)' <=> Received(i) \/ (i = item /\ r = "sent" /\ socket = "open")
  BY DEF Transmit, Received, TInv, SocketOK
<1>5. item \in Items => InHand(item) /\ ~Queued(item) /\ ~Received(item)
  BY DEF InHand, OnePlace, Held
<1>6. OnePlace'
  <2>1. ASSUME NEW i \in Items
        PROVE  /\ ~(Queued(i)' /\ InHand(i)')
               /\ Received(i)' => i \in submitted /\ ~Held(i)'
    BY <1>1, <1>2, <1>3, <1>4, <1>5, <2>1 DEF OnePlace, Held
  <2>2. ASSUME NEW i \in Items, i \notin submitted
        PROVE  ~Queued(i)' /\ \A u \in Senders : held'[u] = i => u = "listen" /\ pc'[u] = "put"
    BY <1>1, <1>2, <1>3, <2>2 DEF OnePlace, KeepsPut
  <2>3. \A m, n \in 1..Len(queue') : queue'[m] = queue'[n] /\ queue'[m] \in Items => m = n
    BY DEF OnePlace
  <2> QED
    BY <1>2, <2>1, <2>2, <2>3 DEF OnePlace
<1>7. /\ (socket' = "open") = (socket = "open")
      /\ r # "error" /\ r # "sent" => socket # "open"
  BY DEF Transmit, SendResults
<1>8. CASE x = None /\ item \in Items
  <2>1. ~InHand(item)' /\ ~Held(item)'
    BY <1>1, <1>2, <1>3, <1>5, <1>8 DEF Held
  <2>2. \A i \in Items : i # item => Same(i)
    BY <1>1, <1>2, <1>3, <1>4, <1>8 DEF Same, Held
  <2>3. IF Received(item)' THEN socket = "open" ELSE socket # "open" \/ item \in Audio
    BY <1>4, <1>5, <1>7, <1>8
  <2> QED
    BY <1>5, <1>6, <1>7, <1>8, <2>1, <2>2, <2>3, PipeLeave DEF Held
<1>9. CASE ~(x = None /\ item \in Items)
  <2>1. \A i \in Items : Same(i)
    BY <1>1, <1>2, <1>3, <1>4, <1>9 DEF Same, Held, InHand
  <2> QED
    BY <1>6, <2>1, PipeStill
<1> QED
  BY <1>8, <1>9

(* Putting back what a hand holds. *)
LEMMA MoveRequeue ==
    ASSUME TInv, HandsOK, OnePlace, NEW t \in Senders, Requeue(t)
    PROVE  OnePlace' /\ Pipe!Next
<1>1. held[t] \in Payload /\ TypeOK /\ queue' = Append(queue, held[t])
      /\ held' = [held EXCEPT ![t] = None] /\ UNCHANGED <<submitted, delivered>> /\ pc[t] = "requeue"
  BY DEF Requeue, Put, TInv, HeldOK
<1>2. held[t] \in Items => InHand(held[t]) /\ ~Queued(held[t]) /\ held[t] \in submitted
  <2>1. SUFFICES ASSUME held[t] \in Items PROVE InHand(held[t]) /\ ~Queued(held[t]) /\ held[t] \in submitted
    OBVIOUS
  <2>2. InHand(held[t]) /\ ~Queued(held[t])
    BY <2>1 DEF InHand, OnePlace
  <2>3. held[t] \in submitted
    BY <1>1, <2>1 DEF OnePlace
  <2> QED
    BY <2>2, <2>3
<1>3. /\ \A i : Queued(i)' <=> Queued(i) \/ i = held[t]
      /\ \A m, n \in 1..Len(queue') : queue'[m] = queue'[n] /\ queue'[m] \in Items => m = n
  <2>1. \A m, n \in 1..Len(queue) : queue[m] = queue[n] /\ queue[m] \in Items => m = n
    BY DEF OnePlace
  <2> QED
    BY <1>1, <1>2, <2>1, QueueGrows
<1>4. None \notin Items
  BY Names DEF Payload
<1>5. /\ \A i \in Items : InHand(i)' <=> i = None \/ (InHand(i) /\ i # held[t])
      /\ \A u, v \in Senders : held'[u] = held'[v] /\ held'[u] \in Items => u = v
      /\ \A u \in Senders : u # t => held'[u] = held[u]
      /\ held'[t] = None
  BY <1>1, <1>4, HandChanges
<1>6. \A i \in Items : Same(i)
  BY <1>1, <1>2, <1>3, <1>4, <1>5 DEF Same, Held, Received
<1>7. \A u \in Senders : u # t => pc'[u] = pc[u]
  BY <1>1 DEF Requeue, TypeOK, PcOK
<1>8. OnePlace'
  <2>1. \A i \in Items : ~(Queued(i)' /\ InHand(i)') /\ (Received(i)' => i \in submitted' /\ ~Held(i)')
    BY <1>1, <1>2, <1>3, <1>4, <1>5, <1>6 DEF OnePlace, Same, Held
  <2>2. ASSUME NEW i \in Items, i \notin submitted'
        PROVE  ~Queued(i)' /\ \A u \in Senders : held'[u] = i => u = "listen" /\ pc'[u] = "put"
    BY <1>1, <1>2, <1>3, <1>4, <1>5, <1>7, <2>2 DEF OnePlace
  <2> QED
    BY <1>3, <1>5, <2>1, <2>2 DEF OnePlace
<1> QED
  BY <1>6, <1>8, PipeStill

(* Control:Send takes the head of the queue. *)
LEMMA MoveGet == ASSUME TInv, HandsOK, OnePlace, Get PROVE OnePlace' /\ Pipe!Next
<1>1. TypeOK /\ pc["send"] = "get" /\ UNCHANGED <<submitted, delivered>> /\ pc'["listen"] = pc["listen"]
  BY DEF Get, TInv, TypeOK, PcOK
<1>2. CASE queue = <<>>
  BY <1>1, <1>2, MoveNothing DEF Get, KeepsPut
<1>3. CASE queue # <<>>
  <2>1. queue' = Tail(queue) /\ held' = [held EXCEPT !["send"] = Head(queue)]
    BY <1>3 DEF Get
  <2>2. held["send"] = None /\ None \notin Items
    BY <1>1, Names DEF HandsOK, Payload
  <2>3. /\ Head(queue) \in Payload /\ Queued(Head(queue))
        /\ \A i \in Items : Queued(i)' <=> Queued(i) /\ i # Head(queue)
        /\ \A m, n \in 1..Len(queue') : queue'[m] = queue'[n] /\ queue'[m] \in Items => m = n
    BY <1>1, <1>3, <2>1, QueueShrinks
  <2>4. Head(queue) \in Items => ~InHand(Head(queue)) /\ Head(queue) \in submitted
    BY <2>3 DEF OnePlace
  <2>5. /\ \A i \in Items : InHand(i)' <=> i = Head(queue) \/ (InHand(i) /\ i # held["send"])
        /\ \A u, v \in Senders : held'[u] = held'[v] /\ held'[u] \in Items => u = v
        /\ \A u \in Senders : u # "send" => held'[u] = held[u]
        /\ held'["send"] = Head(queue)
    BY <1>1, <2>1, <2>3, <2>4, HandChanges
  <2>6. \A i \in Items : Same(i)
    BY <1>1, <2>2, <2>3, <2>4, <2>5 DEF Same, Held, Received
  <2>7. OnePlace'
    <3>1. \A i \in Items : ~(Queued(i)' /\ InHand(i)') /\ (Received(i)' => i \in submitted' /\ ~Held(i)')
      BY <1>1, <2>2, <2>3, <2>4, <2>5, <2>6 DEF OnePlace, Same, Held
    <3>2. ASSUME NEW i \in Items, i \notin submitted'
          PROVE  ~Queued(i)' /\ \A u \in Senders : held'[u] = i => u = "listen" /\ pc'[u] = "put"
      BY <1>1, <2>2, <2>3, <2>4, <2>5, <3>2 DEF OnePlace
    <3> QED
      BY <2>3, <2>5, <3>1, <3>2 DEF OnePlace
  <2> QED
    BY <2>6, <2>7, PipeStill
<1> QED
  BY <1>2, <1>3

(* The ServerSync handler makes a blob request, which is its own until it is put. *)
LEMMA MoveServerSync ==
    ASSUME TInv, HandsOK, OnePlace, HandleServerSync PROVE OnePlace' /\ Pipe!Next
<1>1. TypeOK /\ pc["listen"] = "drain" /\ UNCHANGED <<queue, submitted, delivered>>
  BY DEF HandleServerSync, TInv
<1>2. CASE UNCHANGED held
  BY <1>1, <1>2, MoveNothing DEF KeepsPut
<1>3. ASSUME NEW x \in Requests \ submitted, held' = [held EXCEPT !["listen"] = x],
             Goto("listen", "put")
      PROVE  OnePlace' /\ Pipe!Next
  <2>1. x \in Items /\ x \in Payload /\ held["listen"] = None /\ None \notin Items
    BY <1>1, Names DEF Items, Payload, HandsOK
  <2>2. ~InHand(x) /\ ~Queued(x) /\ ~Received(x)
    BY <1>1, <1>3, <2>1 DEF OnePlace, InHand
  <2>3. /\ \A i \in Items : InHand(i)' <=> i = x \/ (InHand(i) /\ i # held["listen"])
        /\ \A u, v \in Senders : held'[u] = held'[v] /\ held'[u] \in Items => u = v
        /\ \A u \in Senders : u # "listen" => held'[u] = held[u]
        /\ held'["listen"] = x
    BY <1>1, <1>3, <2>1, <2>2, HandChanges
  <2>4. (\A i : (Queued(i)' <=> Queued(i)) /\ (Received(i)' <=> Received(i))) /\ pc'["listen"] = "put"
    BY <1>1, <1>3 DEF Queued, Received, TypeOK, PcOK
  <2>5. \A i \in Items : i # x => Same(i)
    BY <1>1, <2>1, <2>3, <2>4 DEF Same, Held
  <2>6. OnePlace'
    <3>1. \A i \in Items : ~(Queued(i)' /\ InHand(i)') /\ (Received(i)' => i \in submitted' /\ ~Held(i)')
      BY <1>1, <2>1, <2>2, <2>3, <2>4 DEF OnePlace, Held
    <3>2. ASSUME NEW i \in Items, i \notin submitted'
          PROVE  ~Queued(i)' /\ \A u \in Senders : held'[u] = i => u = "listen" /\ pc'[u] = "put"
      BY <1>1, <2>2, <2>3, <2>4, <3>2 DEF OnePlace
    <3>3. \A m, n \in 1..Len(queue') : queue'[m] = queue'[n] /\ queue'[m] \in Items => m = n
      BY <1>1 DEF OnePlace
    <3> QED
      BY <2>3, <3>1, <3>2, <3>3 DEF OnePlace
  <2> QED
    BY <1>1, <1>3, <2>5, <2>6, PipeStill
<1> QED
  BY <1>2, <1>3 DEF HandleServerSync

(* Handing an item over: h is what the hand of t holds afterwards. *)
LEMMA MovePut ==
    ASSUME TInv, OnePlace, NEW x \in Items \ submitted, Put(x), submitted' = submitted \cup {x},
           UNCHANGED <<socket, delivered>>,
           \/ UNCHANGED held /\ KeepsPut /\ ~InHand(x)
           \/ held["listen"] = x /\ held' = [held EXCEPT !["listen"] = None]
    PROVE  OnePlace' /\ Pipe!Next
<1>1. TypeOK /\ x \in Payload /\ queue' = Append(queue, x) /\ None \notin Items
  BY Names DEF Put, TInv, Payload
<1>2. ~Queued(x) /\ ~Received(x)
  BY DEF OnePlace
<1>3. /\ \A i : Queued(i)' <=> Queued(i) \/ i = x
      /\ \A m, n \in 1..Len(queue') : queue'[m] = queue'[n] /\ queue'[m] \in Items => m = n
  <2>1. \A m, n \in 1..Len(queue) : queue[m] = queue[n] /\ queue[m] \in Items => m = n
    BY DEF OnePlace
  <2> QED
    BY <1>1, <1>2, <2>1, QueueGrows
<1>4. /\ \A i \in Items : InHand(i)' <=> InHand(i) /\ i # x
      /\ \A u, v \in Senders : held'[u] = held'[v] /\ held'[u] \in Items => u = v
      /\ \A u \in Senders : held'[u] = held[u] \/ held'[u] = None
      /\ held["listen"] \in Items /\ held["listen"] # x => KeepsPut
  <2>1. CASE UNCHANGED held /\ KeepsPut /\ ~InHand(x)
    BY <2>1 DEF InHand, OnePlace
  <2>2. CASE held["listen"] = x /\ held' = [held EXCEPT !["listen"] = None]
    <3>1. /\ \A i \in Items : InHand(i)' <=> i = None \/ (InHand(i) /\ i # held["listen"])
          /\ \A u, v \in Senders : held'[u] = held'[v] /\ held'[u] \in Items => u = v
          /\ \A u \in Senders : u # "listen" => held'[u] = held[u]
          /\ held'["listen"] = None
      BY <1>1, <2>2, HandChanges
    <3> QED
      BY <1>1, <2>2, <3>1
  <2> QED
    BY <2>1, <2>2
<1>5. \A i : Received(i)' <=> Received(i)
  BY DEF Received
<1>6. \A i \in Items : i # x => Same(i)
  BY <1>3, <1>4, <1>5 DEF Same, Held
<1>7. OnePlace'
  <2>1. \A i \in Items : ~(Queued(i)' /\ InHand(i)') /\ (Received(i)' => i \in submitted' /\ ~Held(i)')
    BY <1>2, <1>3, <1>4, <1>5 DEF OnePlace, Held
  <2>2. ASSUME NEW i \in Items, i \notin submitted'
        PROVE  ~Queued(i)' /\ \A u \in Senders : held'[u] = i => u = "listen" /\ pc'[u] = "put"
    BY <1>1, <1>2, <1>3, <1>4, <2>2 DEF OnePlace, KeepsPut
  <2> QED
    BY <1>3, <1>4, <2>1, <2>2 DEF OnePlace
<1> QED
  BY <1>2, <1>3, <1>5, <1>6, <1>7, PipeSubmit DEF Held

(* Handing an item over past the queue. *)
LEMMA MoveDirect ==
    ASSUME TInv, HandsOK, OnePlace, NEW d \in Direct, DirectBegin(d)
    PROVE  OnePlace' /\ Pipe!Next
<1>1. /\ TypeOK /\ d \in Items /\ d \in Payload /\ d \in Senders /\ None \notin Items /\ d # "listen"
      /\ pc[d] = "idle" /\ d \notin submitted /\ submitted' = submitted \cup {d}
      /\ held' = [held EXCEPT ![d] = d] /\ UNCHANGED <<queue, delivered, socket>>
  BY Names DEF DirectBegin, TInv, Items, Payload, HandsOK
<1>2. held[d] = None /\ ~InHand(d) /\ ~Queued(d) /\ ~Received(d)
  <2>1. held[d] = None
    BY <1>1 DEF HandsOK
  <2>2. ~Queued(d) /\ ~Received(d) /\ (InHand(d) => held["listen"] = d /\ pc["listen"] = "put")
    BY <1>1 DEF OnePlace, InHand
  <2>3. pc["listen"] = "put" => held["listen"] \in Requests
    BY DEF TInv, HeldOK
  <2> QED
    BY <2>1, <2>2, <2>3, Names
<1>3. /\ \A i \in Items : InHand(i)' <=> i = d \/ (InHand(i) /\ i # held[d])
      /\ \A u, v \in Senders : held'[u] = held'[v] /\ held'[u] \in Items => u = v
      /\ \A u \in Senders : u # d => held'[u] = held[u]
      /\ held'[d] = d
  BY <1>1, <1>2, HandChanges
<1>4. /\ \A i : (Queued(i)' <=> Queued(i)) /\ (Received(i)' <=> Received(i))
      /\ pc'["listen"] = pc["listen"]
  BY <1>1 DEF Queued, Received, DirectBegin, TypeOK, PcOK
<1>5. \A i \in Items : i # d => Same(i)
  BY <1>1, <1>2, <1>3, <1>4 DEF Same, Held
<1>6. OnePlace'
  <2>1. \A i \in Items : ~(Queued(i)' /\ InHand(i)') /\ (Received(i)' => i \in submitted' /\ ~Held(i)')
    BY <1>1, <1>2, <1>3, <1>4 DEF OnePlace, Held
  <2>2. ASSUME NEW i \in Items, i \notin submitted'
        PROVE  ~Queued(i)' /\ \A u \in Senders : held'[u] = i => u = "listen" /\ pc'[u] = "put"
    BY <1>1, <1>3, <1>4, <2>2 DEF OnePlace
  <2>3. \A m, n \in 1..Len(queue') : queue'[m] = queue'[n] /\ queue'[m] \in Items => m = n
    BY <1>1 DEF OnePlace
  <2> QED
    BY <1>3, <2>1, <2>2, <2>3 DEF OnePlace
<1>7. Held(d)' /\ ~Received(d)'
  BY <1>1, <1>2, <1>3, <1>4 DEF Held
<1> QED
  BY <1>1, <1>5, <1>6, <1>7, PipeSubmit

(***************************************************************************)
(* HandsOK.                                                                *)
(***************************************************************************)
\* What HandsOK says of one thread, and the calls that have not handed over.
HandOK(t) == held[t] # None => \/ pc[t] = "requeue"
                               \/ pc[t] = "send" /\ t \in {"send"} \cup Direct
                               \/ pc[t] = "put"  /\ t = "listen"
OwnOK(d) == /\ pc[d] \in {"send", "requeue"} => held[d] = d
            /\ pc[d] = "idle" => d \notin submitted
CallOK(c) == pc[c] \in {"gate", "pass", "idle", "put"} => c \notin submitted
PutOK == pc["listen"] = "put" => held["listen"] \notin submitted

LEMMA HandsParts ==
    HandsOK <=> /\ \A t \in Senders : HandOK(t)
                /\ \A d \in Direct : OwnOK(d)
                /\ \A c \in Commands \cup Audio : CallOK(c)
                /\ PutOK
BY DEF HandsOK, HandOK, OwnOK, CallOK, PutOK

(* A step of one thread t disturbs only what is said of t, if what it hands over
   is its own. *)
LEMMA HandsFrame ==
    ASSUME TInv, HandsOK, NEW t \in Threads,
           \A x \in submitted' \ submitted : x = t \/ (t = "listen" /\ x \in Requests),
           \A u \in Threads : u # t => pc'[u] = pc[u],
           \A u \in Senders : u # t => held'[u] = held[u],
           t \in Senders => HandOK(t)',
           t \in Direct => OwnOK(t)',
           t \in Commands \cup Audio => CallOK(t)',
           t = "listen" => PutOK'
    PROVE  HandsOK'
<1>1. ASSUME NEW u \in Senders PROVE HandOK(u)'
  BY HandsParts DEF HandOK
<1>2. ASSUME NEW d \in Direct PROVE OwnOK(d)'
  BY HandsParts, Names DEF OwnOK
<1>3. ASSUME NEW c \in Commands \cup Audio PROVE CallOK(c)'
  BY HandsParts, Names DEF CallOK
<1>4. PutOK'
  <2>1. CASE t = "listen"
    BY <2>1
  <2>2. CASE t # "listen"
    <3>1. pc["listen"] = "put" => held["listen"] \in Requests
      BY DEF TInv, HeldOK
    <3>2. pc["listen"] = "put" => held["listen"] # t
      BY <3>1, Names
    <3> QED
      BY <2>2, <3>2, HandsParts DEF PutOK
  <2> QED
    BY <2>1, <2>2
<1> QED
  BY <1>1, <1>2, <1>3, <1>4 DEF HandsOK, HandOK, OwnOK, CallOK, PutOK

(* Threads that move between labels at which they hold nothing. *)
LEMMA QuietMove ==
    ASSUME TInv, HandsOK, OnePlace, UNCHANGED <<queue, held, submitted, delivered>>,
           \A t \in Threads :
              \/ pc'[t] = pc[t]
              \/ /\ pc[t] \notin {"requeue", "send", "put"} /\ pc'[t] # "put"
                 /\ t \notin Direct \cup Commands \cup Audio
              \/ t \in Commands \cup Audio /\ CallOK(t)'
    PROVE  HandsOK' /\ OnePlace' /\ Pipe!Next
<1>1. KeepsPut
  BY Names DEF KeepsPut
<1>2. ASSUME NEW u \in Senders PROVE HandOK(u)'
  <2>1. HandOK(u) /\ u \notin Commands \cup Audio
    BY HandsParts, Names
  <2> QED
    BY <2>1 DEF HandOK
<1>3. ASSUME NEW d \in Direct PROVE OwnOK(d)'
  BY HandsParts, Names DEF OwnOK
<1>4. ASSUME NEW c \in Commands \cup Audio PROVE CallOK(c)'
  BY HandsParts DEF CallOK
<1>5. PutOK'
  BY HandsParts, Names DEF PutOK
<1>6. HandsOK'
  BY <1>2, <1>3, <1>4, <1>5 DEF HandsOK, HandOK, OwnOK, CallOK, PutOK
<1> QED
  BY <1>1, <1>6, MoveNothing

(* send_message, of a message of the client's own or of the item in the hand. *)
LEMMA SendMove ==
    ASSUME TInv, HandsOK, OnePlace, NEW t \in Senders, NEW item \in Payload, SendMessage(t, item),
           IF item \in Items THEN held[t] = item /\ item \in submitted ELSE held[t] \notin Items,
           t \in Direct => item = t, t = "listen" => pc[t] = "drain"
    PROVE  HandsOK' /\ OnePlace' /\ Pipe!Next
<1>1. /\ Return(t) \notin {"put", "send"} /\ Raise(t) \notin {"put", "send"}
      /\ t \in Direct => Return(t) = "done" /\ Raise(t) = "raised"
  BY Names DEF Return, Raise
<1>2. PICK r \in SendResults :
        /\ Transmit(r, item)
        /\ \/ r = "error" /\ TcpFailed(t, item)
           \/ /\ r # "error"
              /\ IF r = "broken_pipe" THEN status' = "FAILED" /\ disconnect' = TRUE
                                      ELSE UNCHANGED flags
              /\ held' = [held EXCEPT ![t] = None]
              /\ Goto(t, IF r = "reset" THEN Raise(t) ELSE Return(t))
        /\ UNCHANGED <<gate, queue, submitted, misc>>
  BY DEF SendMessage
<1>3. /\ queue' = queue /\ submitted' = submitted
      /\ t \notin Commands \cup Audio /\ t \in Threads /\ "Version" \notin Items
  BY <1>2, Names DEF Items, Control
<1>4. PICK x \in {None, item} :
        /\ held' = [held EXCEPT ![t] = x]
        /\ x = item => r = "error"
        /\ x = None /\ r = "error" => item \notin Items
        /\ IF x = item THEN Goto(t, "requeue") ELSE Goto(t, Return(t)) \/ Goto(t, Raise(t))
  <2>1. None # item
    BY Names
  <2> QED
    BY <1>2, <1>3, <2>1 DEF TcpFailed
<1>5. /\ \A u \in Threads : u # t => pc'[u] = pc[u]
      /\ \A u \in Senders : u # t => held'[u] = held[u]
      /\ held'[t] = x /\ pc'[t] = (IF x = item THEN "requeue" ELSE pc'[t])
      /\ x # item => pc'[t] \in {Return(t), Raise(t)}
  BY <1>3, <1>4 DEF TInv, TypeOK, PcOK
<1>6. KeepsPut
  BY <1>5 DEF KeepsPut
<1>7. HandOK(t)' /\ (t \in Direct => OwnOK(t)') /\ (t = "listen" => PutOK')
  BY <1>1, <1>4, <1>5 DEF HandOK, OwnOK, PutOK
<1>8. HandsOK'
  BY <1>3, <1>5, <1>7, HandsFrame
<1> QED
  BY <1>2, <1>3, <1>4, <1>6, <1>8, MoveSend

LEMMA RequeueMove ==
    ASSUME TInv, HandsOK, OnePlace, NEW t \in Senders, Requeue(t)
    PROVE  HandsOK' /\ OnePlace' /\ Pipe!Next
<1>1. /\ Return(t) \notin {"put", "send"} /\ (t \in Direct => Return(t) = "done")
      /\ t \notin Commands \cup Audio /\ t \in Threads
  BY Names DEF Return
<1>2. /\ \A u \in Threads : u # t => pc'[u] = pc[u]
      /\ \A u \in Senders : u # t => held'[u] = held[u]
      /\ held'[t] = None /\ pc'[t] = Return(t) /\ submitted' = submitted
  BY <1>1 DEF Requeue, TInv, TypeOK, PcOK
<1>3. HandOK(t)' /\ (t \in Direct => OwnOK(t)') /\ (t = "listen" => PutOK')
  BY <1>1, <1>2 DEF HandOK, OwnOK, PutOK
<1> QED
  BY <1>1, <1>2, <1>3, HandsFrame, MoveRequeue

Kept == HandsOK' /\ OnePlace' /\ Pipe!Next

LEMMA PipeConnect == 
    ASSUME TInv, SessionOK, HandsOK, OnePlace, NEW t \in Connectors, Connect(t) PROVE Kept
<1> USE DEF Kept
<1>1. pc \in [Threads -> AllLabels] /\ t \notin Direct \cup Commands \cup Audio
  BY Names DEF TInv, TypeOK, PcOK
<1>2. CASE ConnectBegin(t) \/ ConnectWrap(t) \/ ConnectHandshake(t) \/ ConnectRaise(t)
  <2>1. UNCHANGED <<queue, held, submitted, delivered>>
    BY <1>2 DEF ConnectBegin, ConnectWrap, ConnectHandshake, ConnectRaise
  <2>2. pc[t] \notin {"requeue", "send", "put"} /\ \E l \in ConnectLabels \cup {"failed", "judge"} : Goto(t, l)
    BY <1>2 DEF ConnectBegin, ConnectWrap, ConnectHandshake, ConnectRaise
  <2> QED
    BY <1>1, <2>1, <2>2, QuietMove
<1>3. CASE ConnectSend(t)
  <2>1. held[t] = None
    BY <1>3, Names DEF ConnectSend, HandsOK
  <2>2. {"Version", "Authenticate"} \subseteq Payload \ Items /\ None \notin Items
    BY Names DEF Payload, Items, Control
  <2>3. CASE SendMessage(t, "Version")
    BY <1>1, <2>1, <2>2, <2>3, SendMove
  <2>4. CASE SendMessage(t, "Authenticate")
    BY <1>1, <2>1, <2>2, <2>4, SendMove
  <2> QED
    BY <1>3, <2>3, <2>4 DEF ConnectSend
<1>4. CASE ConnectMark(t)
  <2>1. UNCHANGED <<queue, held, submitted, delivered>>
    BY <1>4 DEF ConnectMark
  <2>2. \A u \in Threads : \/ pc'[u] = pc[u]
                           \/ u = t /\ pc[u] = "mark" /\ pc'[u] \in {"done", "judge"}
                           \/ u = "loop" /\ t = "main" /\ pc'[u] = "check"
    BY <1>1, <1>4 DEF ConnectMark
  <2>3. t = "main" => pc["loop"] = "off"
    BY <1>4 DEF ConnectMark, SessionOK
  <2> QED
    BY <1>1, <2>1, <2>2, <2>3, Names, QuietMove
<1> QED
  BY <1>2, <1>3, <1>4 DEF Connect

LEMMA PipeLoop == ASSUME TInv, SessionOK, HandsOK, OnePlace, Loop PROVE Kept
<1> USE DEF Kept
<1>1. pc \in [Threads -> AllLabels] /\ \A w \in Workers : w \notin Direct \cup Commands \cup Audio
  BY Names DEF TInv, TypeOK, PcOK
<1>2. UNCHANGED <<queue, held, submitted, delivered>>
  BY DEF Loop, LoopCheck, LoopTop, LoopJudge, LoopSession, LoopJoin, LoopReacquire
<1>3. CASE LoopSession
  <2>1. pc["loop"] = "session" /\ pc["listen"] = "off" /\ pc["send"] = "off"
    BY <1>3 DEF LoopSession, SessionOK, SessionOver
  <2>2. \A u \in Threads : \/ pc'[u] = pc[u]
                           \/ u \in {"loop", "listen", "send"} /\ pc'[u] \in {"join", "check"}
                           \/ u = "ping" /\ pc[u] = "dead" /\ pc'[u] = "idle"
    BY <1>1, <1>3 DEF LoopSession
  <2> QED
    BY <1>1, <1>2, <2>1, <2>2, QuietMove
<1>4. CASE LoopCheck \/ LoopTop \/ LoopJudge \/ LoopJoin \/ LoopReacquire
  <2>1. pc["loop"] \notin {"requeue", "send", "put"}
    BY <1>4 DEF LoopCheck, LoopTop, LoopJudge, LoopJoin, LoopReacquire
  <2>2. \E l \in LoopLabels : Goto("loop", l)
    BY <1>4 DEF LoopCheck, LoopTop, LoopJudge, LoopJoin, LoopReacquire
  <2> QED
    BY <1>1, <1>2, <2>1, <2>2, QuietMove
<1> QED
  BY <1>3, <1>4 DEF Loop

LEMMA PipeDisconnect ==
    ASSUME TInv, HandsOK, OnePlace, NEW t \in {"listen", "send", "stop"}, Disconnect(t) PROVE Kept
<1>1. pc \in [Threads -> AllLabels] /\ t \notin Direct \cup Commands \cup Audio
  BY Names DEF TInv, TypeOK, PcOK
<1>2. UNCHANGED <<queue, held, submitted, delivered>>
  BY DEF Disconnect, Release, SetDisconnect, Shutdown
<1>3. pc[t] \notin {"requeue", "send", "put"} /\ \E l \in DisconnectLabels \cup {"off", "done", "recv", "get"} : Goto(t, l)
  BY DEF Disconnect, Release, SetDisconnect, Shutdown
<1> QED
  BY <1>1, <1>2, <1>3, QuietMove DEF Kept

LEMMA PipeListen == ASSUME TInv, HandsOK, OnePlace, Listen PROVE Kept
<1> USE DEF Kept
<1>1. pc \in [Threads -> AllLabels] /\ "listen" \notin Direct \cup Commands \cup Audio
  BY Names DEF TInv, TypeOK, PcOK
<1>2. CASE \/ SessionCheck("listen", "recv") \/ Recv \/ Drained \/ HandleVersion \/ SyncRead
           \/ SyncSet \/ SyncReady \/ HandleReject \/ HandleBad
  <2>1. UNCHANGED <<queue, held, submitted, delivered>>
    BY <1>2 DEF SessionCheck, Recv, Drained, HandleVersion, SyncRead, SyncSet, SyncReady, HandleReject, HandleBad
  <2>2. /\ pc["listen"] \notin {"requeue", "send", "put"}
        /\ pc' = pc \/ \E l \in ListenLabels \ {"put"} : Goto("listen", l)
    BY <1>2 DEF SessionCheck, Recv, Drained, HandleVersion, SyncRead, SyncSet, SyncReady, HandleReject, HandleBad
  <2> QED
    BY <1>1, <2>1, <2>2, QuietMove
<1>3. CASE HandleServerSync
  <2>1. pc["listen"] = "drain" /\ held["listen"] = None /\ submitted' = submitted
    BY <1>3 DEF HandleServerSync, HandsOK
  <2>2. \/ Goto("listen", "sync_read") /\ held' = held
        \/ \E r \in Requests \ submitted : held' = [held EXCEPT !["listen"] = r] /\ Goto("listen", "put")
    BY <1>3 DEF HandleServerSync
  <2>3. /\ \A u \in Threads : u # "listen" => pc'[u] = pc[u]
        /\ \A u \in Senders : u # "listen" => held'[u] = held[u]
        /\ \/ pc'["listen"] = "put" /\ held'["listen"] \notin submitted
           \/ pc'["listen"] = "sync_read" /\ held'["listen"] = None
    BY <1>1, <2>1, <2>2 DEF TInv, TypeOK
  <2>4. HandsOK'
    BY <1>1, <2>1, <2>3, HandsFrame DEF HandOK, PutOK
  <2> QED
    BY <1>3, <2>4, MoveServerSync
<1>4. CASE SyncPut
  <2>1. /\ pc["listen"] = "put" /\ held["listen"] \in Requests \ submitted
        /\ Put(held["listen"]) /\ submitted' = submitted \cup {held["listen"]}
        /\ held' = [held EXCEPT !["listen"] = None] /\ Goto("listen", "sync_read")
        /\ UNCHANGED <<socket, delivered>>
    BY <1>4 DEF SyncPut, HandsOK, TInv, HeldOK
  <2>2. /\ \A u \in Threads : u # "listen" => pc'[u] = pc[u]
        /\ \A u \in Senders : u # "listen" => held'[u] = held[u]
        /\ pc'["listen"] = "sync_read" /\ held'["listen"] = None
    BY <1>1, <2>1 DEF TInv, TypeOK
  <2>3. HandsOK'
    BY <1>1, <2>1, <2>2, HandsFrame DEF HandOK, PutOK
  <2> QED
    BY <2>1, <2>3, MovePut DEF Items
<1>5. CASE HandleCryptRequest
  <2>1. pc["listen"] = "drain" /\ SendMessage("listen", "CryptSetup") /\ held["listen"] = None
    BY <1>5 DEF HandleCryptRequest, HandsOK
  <2>2. "CryptSetup" \in Payload \ Items /\ None \notin Items
    BY Names DEF Payload, Items, Control
  <2> QED
    BY <1>1, <2>1, <2>2, SendMove
<1>6. CASE Requeue("listen")
  BY <1>6, RequeueMove
<1>7. CASE Disconnect("listen")
  BY <1>7, PipeDisconnect
<1> QED
  BY <1>2, <1>3, <1>4, <1>5, <1>6, <1>7 DEF Listen

LEMMA PipeSend == ASSUME TInv, HandsOK, OnePlace, Send PROVE Kept
<1> USE DEF Kept
<1>1. /\ pc \in [Threads -> AllLabels] /\ "send" \notin Direct \cup Commands \cup Audio
      /\ held \in [Senders -> Payload \cup {None}]
  BY Names DEF TInv, TypeOK, PcOK
<1>2. CASE SessionCheck("send", "get")
  BY <1>1, <1>2, QuietMove DEF SessionCheck
<1>3. CASE Get
  <2>1. /\ submitted' = submitted /\ \A u \in Threads : u # "send" => pc'[u] = pc[u]
        /\ \A u \in Senders : u # "send" => held'[u] = held[u]
    BY <1>1, <1>3 DEF Get
  <2>2. HandOK("send")'
    BY <1>1, <1>3 DEF Get, HandsOK, HandOK
  <2> QED
    BY <1>1, <1>3, <2>1, <2>2, HandsFrame, MoveGet
<1>4. CASE SendItem
  <2> DEFINE item == held["send"]
  <2>1. pc["send"] = "send" /\ item \in Payload /\ (item \in Items => item \in submitted)
    BY <1>4 DEF SendItem, TInv, HeldOK, OnePlace
  <2>2. CASE item \in Audio /\ dispatcher = "legacy"
    <3>1. PICK r \in SendResults :
            /\ Transmit(r, item) /\ held' = [held EXCEPT !["send"] = None]
            /\ Goto("send", IF r \in {"sent", "error"} THEN "check" ELSE "off")
            /\ UNCHANGED <<queue, submitted>>
      BY <1>4, <2>2 DEF SendItem, SendAudioLegacy
    <3>2. /\ \A u \in Threads : u # "send" => pc'[u] = pc[u]
          /\ \A u \in Senders : u # "send" => held'[u] = held[u]
          /\ held'["send"] = None
      BY <1>1, <3>1
    <3>3. HandsOK'
      BY <1>1, <3>1, <3>2, HandsFrame DEF HandOK
    <3>4. KeepsPut /\ item \in Items
      BY <2>2, <3>2 DEF KeepsPut, Items
    <3>5. None # item
      BY <2>1, Names
    <3> QED
      BY <2>1, <2>2, <3>1, <3>3, <3>4, <3>5, MoveSend
  <2>3. CASE ~(item \in Audio /\ dispatcher = "legacy")
    <3>1. SendMessage("send", item)
      BY <1>4, <2>3 DEF SendItem
    <3> QED
      BY <1>1, <2>1, <3>1, SendMove
  <2> QED
    BY <2>2, <2>3
<1>5. CASE Requeue("send")
  BY <1>5, RequeueMove
<1>6. CASE Disconnect("send")
  BY <1>6, PipeDisconnect
<1> QED
  BY <1>2, <1>3, <1>4, <1>5, <1>6 DEF Send

LEMMA PipePing == ASSUME TInv, HandsOK, OnePlace, Ping PROVE Kept
<1> USE DEF Kept
<1>1. pc \in [Threads -> AllLabels] /\ "ping" \notin Direct \cup Commands \cup Audio
  BY Names DEF TInv, TypeOK, PcOK
<1>2. CASE PingFire \/ PingStart
  BY <1>1, <1>2, QuietMove DEF PingFire, PingStart
<1>3. CASE PingSend
  <2>1. held["ping"] = None /\ SendMessage("ping", "Ping")
    BY <1>1, <1>3 DEF PingSend, HandsOK
  <2>2. "Ping" \in Payload \ Items /\ None \notin Items
    BY Names DEF Payload, Items, Control
  <2> QED
    BY <1>1, <2>1, <2>2, SendMove
<1>4. CASE Requeue("ping")
  BY <1>4, RequeueMove
<1> QED
  BY <1>2, <1>3, <1>4 DEF Ping

(* The calls of the application. *)
LEMMA PipeCall ==
    ASSUME TInv, HandsOK, OnePlace, NEW c \in Commands \cup Audio,
           \/ c \in Commands /\ (Acquire(c) \/ PassGate(c))
           \/ c \in Audio /\ AudioBegin(c)
           \/ CallPut(c)
    PROVE  Kept
<1> USE DEF Kept
<1>1. pc \in [Threads -> AllLabels] /\ c \in Threads /\ c \notin Senders /\ c \notin Workers
  BY Names DEF TInv, TypeOK, PcOK
<1>2. CASE (c \in Commands /\ (Acquire(c) \/ PassGate(c))) \/ (c \in Audio /\ AudioBegin(c))
  <2>1. /\ UNCHANGED <<queue, held, submitted, delivered>>
        /\ pc[c] \in {"gate", "pass", "idle"} /\ \A u \in Threads : u # c => pc'[u] = pc[u]
    BY <1>1, <1>2 DEF Acquire, PassGate, AudioBegin
  <2>2. CallOK(c)'
    BY <2>1 DEF HandsOK, CallOK
  <2> QED
    BY <2>1, <2>2, QuietMove
<1>3. CASE CallPut(c)
  <2>1. /\ pc[c] = "put" /\ Put(c) /\ submitted' = submitted \cup {c} /\ UNCHANGED <<held, socket, delivered>>
        /\ pc'[c] = "done" /\ \A u \in Threads : u # c => pc'[u] = pc[u]
    BY <1>1, <1>3 DEF CallPut
  <2>2. c \in Items \ submitted
    BY <2>1 DEF HandsOK, Items
  <2>3. ~InHand(c)
    <3>1. pc["listen"] = "put" => held["listen"] \in Requests
      BY DEF TInv, HeldOK
    <3> QED
      BY <2>2, <3>1, Names DEF OnePlace, InHand
  <2>4. KeepsPut
    BY <1>1, <2>1 DEF KeepsPut
  <2>5. OnePlace' /\ Pipe!Next
    BY <2>1, <2>2, <2>3, <2>4, MovePut
  <2>6. HandsOK'
    <3>1. c \notin Direct /\ c # "listen" /\ CallOK(c)'
      BY <1>1, <2>1, Names DEF CallOK
    <3> QED
      BY <1>1, <2>1, <3>1, HandsFrame
  <2> QED
    BY <2>5, <2>6
<1> QED
  BY <1>2, <1>3

LEMMA PipeDirect ==
    ASSUME TInv, HandsOK, OnePlace, NEW d \in Direct, DirectBegin(d) \/ DirectSend(d) PROVE Kept
<1> USE DEF Kept
<1>1. /\ pc \in [Threads -> AllLabels] /\ held \in [Senders -> Payload \cup {None}]
      /\ d \in Threads /\ d \in Senders /\ d \notin Commands \cup Audio /\ d # "listen"
  BY Names DEF TInv, TypeOK, PcOK
<1>2. CASE DirectBegin(d)
  <2>1. /\ submitted' = submitted \cup {d} /\ pc'[d] = "send" /\ held'[d] = d
        /\ \A u \in Threads : u # d => pc'[u] = pc[u]
        /\ \A u \in Senders : u # d => held'[u] = held[u]
    BY <1>1, <1>2 DEF DirectBegin
  <2>2. HandsOK'
    BY <1>1, <2>1, HandsFrame DEF HandOK, OwnOK
  <2> QED
    BY <1>2, <2>2, MoveDirect
<1>3. CASE DirectSend(d)
  <2>1. pc[d] = "send" /\ SendMessage(d, d) /\ held[d] = d /\ d \in Items /\ d \in Payload
    BY <1>3 DEF DirectSend, HandsOK, Items, Payload
  <2>2. d \in submitted
    BY <1>1, <2>1 DEF OnePlace
  <2> QED
    BY <1>1, <2>1, <2>2, SendMove
<1> QED
  BY <1>2, <1>3

(* Every step of the client keeps each item in one place, and is one of CommandPipe. *)
LEMMA PipeStep == ASSUME TInv, SessionOK, HandsOK, OnePlace, [Next]_vars PROVE Kept
<1>1. CASE \E t \in Connectors : Connect(t) \/ Requeue(t)
  BY <1>1, PipeConnect, RequeueMove DEF Kept
<1>2. CASE Loop \/ Listen \/ Send \/ Ping
  BY <1>2, PipeLoop, PipeListen, PipeSend, PipePing
<1>3. CASE Disconnect("stop")
  BY <1>3, PipeDisconnect
<1>4. CASE (\E c \in Commands : Call(c)) \/ \E a \in Audio : AudioBegin(a) \/ CallPut(a)
  BY <1>4, PipeCall DEF Call
<1>5. CASE \E d \in Direct : DirectBegin(d) \/ DirectSend(d) \/ Requeue(d)
  BY <1>5, PipeDirect, RequeueMove DEF Kept
<1>6. CASE StopBegin \/ PeerCloses \/ ParentDies \/ UNCHANGED vars
  <2>1. UNCHANGED <<queue, held, submitted, delivered>>
    BY <1>6 DEF StopBegin, PeerCloses, ParentDies, vars
  <2>2. pc \in [Threads -> AllLabels] /\ \A w \in Workers : w \notin Direct \cup Commands \cup Audio
    BY Names DEF TInv, TypeOK, PcOK
  <2>3. \A u \in Threads : \/ pc'[u] = pc[u]
                           \/ u = "stop" /\ pc[u] = "off" /\ pc'[u] = "release"
                           \/ u = "main" /\ pc[u] \in {"done", "failed"} /\ pc'[u] = "gone"
    BY <1>6, <2>2 DEF StopBegin, PeerCloses, ParentDies, vars
  <2> QED
    BY <2>1, <2>2, <2>3, QuietMove DEF Kept
<1> QED
  BY <1>1, <1>2, <1>3, <1>4, <1>5, <1>6 DEF Next

(* IInv is inductive: every reachable state of the client satisfies it. *)
THEOREM Invariance == Spec => []IInv
<1>1. Init => IInv
  <2> SUFFICES ASSUME Init PROVE IInv
    OBVIOUS
  <2>1. TInv
    BY TypeInit
  <2>2. SessionOK /\ AnnouncedOK /\ GateOpenWhileAnnounced
    BY Names DEF Init, SessionOK, SessionOver, AnnouncedOK, SyncLabels, GateOpenWhileAnnounced
  <2>3. FirstGateOK
    <3>1. ~Opened
      BY Names DEF Init, Opened
    <3> QED
      BY <3>1, Names DEF Init, FirstGateOK
  <2>4. OneShotOK
    BY Names DEF Init, OneShotOK
  <2>5. HandsOK
    BY Names DEF Init, HandsOK
  <2>6. OnePlace
    <3>1. /\ queue = <<>> /\ delivered = {} /\ \A t \in Senders : held[t] = None
          /\ None \notin Items /\ Len(queue) = 0
      BY Names DEF Init, Payload
    <3> QED
      BY <3>1 DEF OnePlace, Queued, InHand, Received
  <2> QED
    BY <2>1, <2>2, <2>3, <2>4, <2>5, <2>6 DEF IInv, TInv
<1>2. IInv /\ [Next]_vars => IInv'
  BY TypeStep, SessionStep, AnnouncedStep, GateStep, FirstGateStep, OneShotStep, PipeStep
     DEF IInv, TInv, Kept
<1> QED
  BY <1>1, <1>2, PTL DEF Spec

(* The control channel keeps its types, for any number of callers, packets
   and requests, any queue size and any faults of the environment. *)
THEOREM TypeCorrect == Spec => []TypeOK
BY Invariance, PTL DEF IInv

(* Once on_connect is dispatched, and until on_disconnect is, is_ready() blocks
   no caller for longer than another caller's acquire and release take. *)
THEOREM GateCorrect == Spec => []GateOpenWhileAnnounced
BY Invariance, PTL DEF IInv

(* on_connect is never dispatched twice without an on_disconnect between. *)
THEOREM AnnouncedCorrect == Spec => []ConnectAnnouncedOnce
<1>1. IInv => ConnectAnnouncedOnce
  BY DEF IInv, AnnouncedOK, ConnectAnnouncedOnce, SyncLabels
<1> QED
  BY <1>1, Invariance, PTL

(* In the first session, until something begins to end it, is_ready() lets a
   command pass only once the server has sent ServerSync. *)
THEOREM FirstSessionGate == Spec => []GateClosedUntilSync
<1>1. IInv => GateClosedUntilSync
  BY DEF IInv, FirstGateOK, GateClosedUntilSync, TearingDown, Opened, Ended, Leaving
<1> QED
  BY <1>1, Invariance, PTL

(* A client without the reconnect option connects once, whatever happens to its
   peer, its sends, its pings and its login, and whoever calls it. *)
THEOREM ConnectsOnce == Spec => []NoUninvitedReconnect
<1>1. IInv => NoUninvitedReconnect
  BY DEF IInv, OneShotOK, NoUninvitedReconnect
<1> QED
  BY <1>1, Invariance, PTL

(* No connection is opened while a thread of the previous session runs. *)
THEOREM SocketCorrect == Spec => SocketKeptDuringSession
<1>1. IInv /\ [Next]_vars => [epoch' # epoch => SessionOver]_vars
  <2> SUFFICES ASSUME IInv, Next, epoch' # epoch PROVE SessionOver
    BY DEF vars
  <2>1. \E t \in Connectors : pc[t] = "wrap"
    BY Names DEF Next, Connect, ConnectBegin, ConnectWrap, ConnectHandshake, ConnectSend, ConnectRaise,
       ConnectMark, Requeue, Loop, LoopCheck, LoopTop, LoopJudge, LoopSession, LoopJoin, LoopReacquire,
       Listen, SessionCheck, Recv, Drained, HandleVersion, HandleServerSync, SyncPut, SyncRead, SyncSet,
       SyncReady, HandleReject, HandleBad, HandleCryptRequest, Send, Get, SendItem, SendAudioLegacy,
       SendMessage, Transmit, Ping, PingFire, PingStart, PingSend, StopBegin, Disconnect, Release,
       SetDisconnect, Shutdown, Call, Acquire, PassGate, CallPut, AudioBegin, DirectBegin, DirectSend,
       PeerCloses, ParentDies
  <2> QED
    BY <2>1 DEF IInv, SessionOK
<1> QED
  BY <1>1, Invariance, PTL DEF Spec, SocketKeptDuringSession

(* The control channel implements CommandPipe: through every requeue, reconnect
   and failure an item reaches the server at most once, and it is lost only where
   the transport is down or the item is voice. *)
THEOREM Refinement == Spec => ImplementsCommandPipe
<1>1. Init => Pipe!Init
  <2> SUFFICES ASSUME Init PROVE Pipe!Init
    OBVIOUS
  <2>1. Fate = [i \in Items |-> "new"] /\ socket = "none"
    BY DEF Init, Fate
  <2> QED
    BY <2>1 DEF Pipe!Init
<1>2. IInv /\ [Next]_vars => [Pipe!Next]_(Pipe!vars)
  BY PipeStep DEF IInv, TInv, Kept
<1> QED
  BY <1>1, <1>2, Invariance, PTL DEF Spec, ImplementsCommandPipe, Pipe!Spec
=============================================================================
