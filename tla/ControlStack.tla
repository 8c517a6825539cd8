---------------------------- MODULE ControlStack ----------------------------
(***************************************************************************)
(* The TCP control channel of the client: class ControlStack of            *)
(* network/control.py, with the parts of mumble.py, ping.py and            *)
(* sound/voice.py that run on it.  One action is one step of one thread    *)
(* between two accesses to shared state:                                   *)
(*   main    start() and the connect() it calls                            *)
(*   loop    ControlStack.loop, which owns the session threads             *)
(*   listen  Control:Listen, reads and dispatches the server's messages    *)
(*   send    Control:Send, the only consumer of msg_queue                  *)
(*   ping    the RepeatTimer thread of Ping                                *)
(*   stop    one call of Mumble.stop()                                     *)
(*   c \in Commands   one call of Mumble.execute_command(c)                *)
(*   a \in Audio      one voice packet of VoiceOutput.send_audio           *)
(*   d \in Direct     one call of reauthenticate() or request_blob()       *)
(***************************************************************************)
EXTENDS Integers, Sequences

CONSTANTS Commands, Audio, Direct,
          Requests,    \* blob requests a ServerSync may make the client put
          None,        \* "holds no item"
          Reconnect,   \* the reconnect argument of Mumble()
          Protobuf,    \* the server speaks protocol 1.5 or later
          QueueSize,   \* maxsize of msg_queue
          MaxEpoch,    \* bound: sockets opened in one behaviour
          MaxBackoff,  \* the 60 of line 288
          Faults       \* what the environment may do, see below

(***************************************************************************)
(* "lost": the server closes the connection.  "timeout": a recv or a send  *)
(* times out on a live connection.  "bad": a message whose handler raises. *)
(* "resync": the server asks for the client nonce.  "parent": the thread   *)
(* that built the client ends.                                             *)
(***************************************************************************)
FaultKinds == {"lost", "timeout", "bad", "resync", "parent"}

Workers == {"main", "loop", "listen", "send", "ping", "stop"}
Control == {"Version", "Authenticate", "Ping", "CryptSetup"}
Items   == Commands \cup Audio \cup Direct \cup Requests

ASSUME NamesAssumption ==
    /\ Commands \cap Audio = {} /\ Commands \cap Direct = {}
    /\ Commands \cap Requests = {} /\ Audio \cap Direct = {}
    /\ Audio \cap Requests = {} /\ Direct \cap Requests = {}
    /\ Items \cap (Workers \cup Control) = {}
    /\ None \notin Items \cup Workers \cup Control
ASSUME BoundsAssumption ==
    /\ QueueSize \in Nat \ {0} /\ MaxEpoch \in Nat /\ MaxBackoff \in Nat \ {0}
    /\ Reconnect \in BOOLEAN /\ Protobuf \in BOOLEAN
    /\ Faults \subseteq FaultKinds

Threads == Workers \cup Commands \cup Audio \cup Direct
Senders == {"main", "loop", "listen", "send", "ping"} \cup Direct

VARIABLES
    status,      \* Status, shared by all threads without a lock
    disconnect,  \* _disconnect
    locked,      \* _ready is held; callers wait at it until it is released
    announced,   \* on_connect dispatched, on_disconnect not yet
    queue,       \* msg_queue
    held,        \* held[t]: the item thread t is about to send or to put
    socket,      \* state of the connection behind self.socket
    epoch,       \* sockets opened so far
    server,      \* how far the server is in this connection's handshake
    submitted,   \* history: items handed to the channel
    delivered,   \* history: <<epoch, item>> the server received
    backoff, timer, dispatcher,
    pc

flags == <<status, disconnect>>
gate  == <<locked, announced>>
work  == <<queue, held>>
wire  == <<socket, epoch, server, submitted, delivered>>
misc  == <<backoff, timer, dispatcher>>
vars  == <<flags, gate, work, wire, misc, pc>>

Goto(t, label) == pc' = [pc EXCEPT ![t] = label]

\* A step that only reads: from says where it may be taken, to where it leads.
Jump(t, from, to) == /\ pc[t] = from
                     /\ Goto(t, to)
                     /\ UNCHANGED <<flags, gate, work, wire, misc>>

IsConnected == status \notin {"FAILED", "NOT_CONNECTED"}

Init ==
    /\ status = "NOT_CONNECTED" /\ disconnect = FALSE
    /\ locked = TRUE /\ announced = FALSE
    /\ queue = <<>> /\ held = [t \in Senders |-> None]
    /\ socket = "none" /\ epoch = 0 /\ server = "silent"
    /\ submitted = {} /\ delivered = {}
    /\ backoff = 1 /\ timer = FALSE /\ dispatcher = "legacy"
    /\ pc = [t \in Threads |-> CASE t = "main"     -> "connect"
                                 [] t = "ping"     -> "idle"
                                 [] t \in Commands -> "gate"
                                 [] t \in Audio \cup Direct -> "idle"
                                 [] OTHER          -> "off"]

(***************************************************************************)
(* Sending on the TLS socket.  "error" stands for SSLError, TimeoutError   *)
(* and a send of 0 bytes, "reset" for the OSErrors send_message does not   *)
(* catch.  A closed peer answers the first send with a reset, which the    *)
(* next call on the socket reports once; later sends find a broken pipe.   *)
(***************************************************************************)
SendResults ==
    CASE socket = "open"   -> {"sent"} \cup (IF "timeout" \in Faults THEN {"error"} ELSE {})
      [] socket = "lost"   -> {"sent", "error"}
      [] socket = "reset"  -> {"error", "reset"}
      [] socket = "shut"   -> {"error", "broken_pipe"}
      [] socket \in {"new", "broken"} -> {"broken_pipe"}
      [] socket = "closed" -> {"reset"}
      [] OTHER             -> {}

Transmit(r, item) ==
    /\ r \in SendResults
    /\ socket' = CASE socket = "lost"  /\ r = "sent"  -> "reset"
                   [] socket = "reset" /\ r = "reset" -> "broken"
                   [] OTHER -> socket
    /\ delivered' = IF r = "sent" /\ socket = "open" /\ item \in Items \cup {"Authenticate"}
                    THEN delivered \cup {<<epoch, item>>} ELSE delivered
    /\ UNCHANGED <<epoch, server>>

\* Where thread t goes on after send_message returned, and after it raised.
Return(t) == CASE t = "send"      -> "check"
               [] t = "listen"    -> "drain"
               [] t = "ping"      -> "idle"
               [] t \in Direct    -> "done"
               [] OTHER -> IF pc[t] = "send_version" THEN "send_auth" ELSE "mark"
Raise(t)  == CASE t \in {"send", "listen"} -> "off"
               [] t = "ping"      -> "dead"
               [] t \in Direct    -> "raised"
               [] OTHER           -> "raise"

\* Mutant of TcpFailed: the status is set, the message forgotten.
TcpFailedDrops(t, item) ==
    /\ status' = "FAILED" /\ UNCHANGED disconnect
    /\ held' = [held EXCEPT ![t] = None]
    /\ Goto(t, Return(t))

\* _tcp_failed(item): Version has the value 0 and is the one type not requeued.
TcpFailed(t, item) ==
    /\ status' = "FAILED" /\ UNCHANGED disconnect
    /\ held' = [held EXCEPT ![t] = IF item = "Version" THEN None ELSE item]
    /\ Goto(t, IF item = "Version" THEN Return(t) ELSE "requeue")

SendMessage(t, item) == \E r \in SendResults :
    /\ Transmit(r, item)
    /\ \/ r = "error" /\ TcpFailed(t, item)
       \/ /\ r # "error"
          /\ IF r = "broken_pipe" THEN status' = "FAILED" /\ disconnect' = TRUE
                                  ELSE UNCHANGED flags
          /\ held' = [held EXCEPT ![t] = None]
          /\ Goto(t, IF r = "reset" THEN Raise(t) ELSE Return(t))
    /\ UNCHANGED <<gate, queue, submitted, misc>>

\* Mutant of Put: a queue without maxsize.
PutUnbounded(item) == queue' = Append(queue, item)

\* msg_queue.put: blocks while the queue is full.
Put(item) == /\ Len(queue) < QueueSize
             /\ queue' = Append(queue, item)

Requeue(t) ==
    /\ pc[t] = "requeue"
    /\ Put(held[t])
    /\ held' = [held EXCEPT ![t] = None]
    /\ Goto(t, Return(t))
    /\ UNCHANGED <<flags, gate, wire, misc>>

(***************************************************************************)
(* connect(), run by main for the first connection and by loop for the     *)
(* later ones.                                                             *)
(***************************************************************************)
Connectors == {"main", "loop"}

ConnectBegin(t) ==
    /\ pc[t] = "connect"
    /\ disconnect' = FALSE
    /\ Goto(t, "wrap")
    /\ UNCHANGED <<status, gate, work, wire, misc>>

\* A failing load_cert_chain leaves connect() without setting the status.
ConnectWrap(t) ==
    /\ pc[t] = "wrap"
    /\ \/ /\ epoch < MaxEpoch
          /\ epoch' = epoch + 1 /\ socket' = "new" /\ server' = "silent"
          /\ Goto(t, "handshake")
       \/ /\ \/ Goto(t, "raise")
             \/ t = "main" /\ Goto(t, "failed")
          /\ UNCHANGED <<epoch, socket, server>>
    /\ UNCHANGED <<flags, gate, work, submitted, delivered, misc>>

ConnectHandshake(t) ==
    /\ pc[t] = "handshake"
    /\ \/ socket' = "open" /\ Goto(t, "send_version")
       \/ UNCHANGED socket /\ Goto(t, "raise")
    /\ UNCHANGED <<flags, gate, work, epoch, server, submitted, delivered, misc>>

ConnectSend(t) ==
    \/ pc[t] = "send_version" /\ SendMessage(t, "Version")
    \/ pc[t] = "send_auth"    /\ SendMessage(t, "Authenticate")

ConnectRaise(t) ==
    /\ pc[t] = "raise"
    /\ status' = "FAILED"
    /\ \/ t = "main" /\ Goto(t, "failed") /\ UNCHANGED backoff
       \/ /\ t = "loop" /\ Goto(t, "judge")
          /\ backoff' = IF backoff < MaxBackoff THEN backoff * 2 ELSE backoff
    /\ UNCHANGED <<disconnect, gate, work, wire, timer, dispatcher>>

\* Mutant of ConnectMark: ready() as soon as Authenticate is sent.
ConnectMarkReady(t) ==
    /\ pc[t] = "mark"
    /\ status' = "AUTHENTICATING" /\ locked' = FALSE
    /\ \/ /\ t = "main" /\ UNCHANGED backoff
          /\ pc' = [pc EXCEPT !["main"] = "done", !["loop"] = "check"]
       \/ t = "loop" /\ backoff' = 1 /\ Goto(t, "judge")
    /\ UNCHANGED <<disconnect, announced, work, wire, timer, dispatcher>>

ConnectMark(t) ==
    /\ pc[t] = "mark"
    /\ status' = "AUTHENTICATING"
    /\ \/ /\ t = "main" /\ UNCHANGED backoff
          /\ pc' = [pc EXCEPT !["main"] = "done", !["loop"] = "check"]
       \/ t = "loop" /\ backoff' = 1 /\ Goto(t, "judge")
    /\ UNCHANGED <<disconnect, gate, work, wire, timer, dispatcher>>

Connect(t) == \/ ConnectBegin(t) \/ ConnectWrap(t) \/ ConnectHandshake(t)
              \/ ConnectSend(t)  \/ ConnectRaise(t) \/ ConnectMark(t)

(***************************************************************************)
(* loop()                                                                  *)
(***************************************************************************)
\* Mutant of LoopCheck: the guard also admits FAILED.
LoopCheckFailed ==
    /\ pc["loop"] = "check"
    /\ IF (status # "CONNECTED" \/ Reconnect) /\ ~disconnect
       THEN timer' = FALSE /\ Goto("loop", "top") /\ UNCHANGED socket
       ELSE socket' = "closed" /\ Goto("loop", "dead") /\ UNCHANGED timer
    /\ UNCHANGED <<flags, gate, work, epoch, server, submitted, delivered, backoff, dispatcher>>

LoopCheck ==
    /\ pc["loop"] = "check"
    /\ IF (status \in {"NOT_CONNECTED", "AUTHENTICATING"} \/ Reconnect) /\ ~disconnect
       THEN timer' = FALSE /\ Goto("loop", "top") /\ UNCHANGED socket
       ELSE socket' = "closed" /\ Goto("loop", "dead") /\ UNCHANGED timer
    /\ UNCHANGED <<flags, gate, work, epoch, server, submitted, delivered, backoff, dispatcher>>

LoopTop == Jump("loop", "top", IF IsConnected THEN "judge" ELSE "connect")

\* Line 293 raises out of the loop, the socket stays open.
LoopJudge == Jump("loop", "judge", IF IsConnected \/ Reconnect THEN "session" ELSE "crashed")

LoopSession ==
    /\ pc["loop"] = "session"
    /\ IF IsConnected
       THEN /\ timer' = TRUE
            /\ pc' = [pc EXCEPT !["loop"] = "join", !["listen"] = "check", !["send"] = "check",
                                !["ping"] = IF @ = "dead" THEN "idle" ELSE @]
       ELSE Goto("loop", "check") /\ UNCHANGED timer
    /\ UNCHANGED <<flags, gate, work, wire, backoff, dispatcher>>

\* Mutant of LoopJoin: only the listen thread is joined.
LoopJoinListen ==
    /\ pc["loop"] = "join"
    /\ pc["listen"] = "off"
    /\ timer' = FALSE
    /\ Goto("loop", "reacquire")
    /\ UNCHANGED <<flags, gate, work, wire, backoff, dispatcher>>

LoopJoin ==
    /\ pc["loop"] = "join"
    /\ pc["listen"] = "off" /\ pc["send"] = "off"
    /\ timer' = FALSE
    /\ Goto("loop", "reacquire")
    /\ UNCHANGED <<flags, gate, work, wire, backoff, dispatcher>>

\* Mutant of LoopReacquire: on_disconnect is not dispatched.
LoopReacquireSilent ==
    /\ pc["loop"] = "reacquire"
    /\ ~locked
    /\ locked' = TRUE
    /\ Goto("loop", "check")
    /\ UNCHANGED <<flags, announced, work, wire, misc>>

LoopReacquire ==
    /\ pc["loop"] = "reacquire"
    /\ ~locked
    /\ locked' = TRUE /\ announced' = FALSE
    /\ Goto("loop", "check")
    /\ UNCHANGED <<flags, work, wire, misc>>

Loop == LoopCheck \/ LoopTop \/ LoopJudge \/ LoopSession \/ LoopJoin \/ LoopReacquire

(***************************************************************************)
(* disconnect(), called by stop and, once the parent thread is dead, by    *)
(* listen and send; and the release with which listen and send end.        *)
(***************************************************************************)
Release(t) ==
    /\ pc[t] \in {"release", "exit"}
    /\ locked' = FALSE
    /\ Goto(t, IF pc[t] = "release" THEN "flag" ELSE "off")
    /\ UNCHANGED <<flags, announced, work, wire, misc>>

SetDisconnect(t) ==
    /\ pc[t] = "flag"
    /\ disconnect' = TRUE
    /\ Goto(t, "shutdown")
    /\ UNCHANGED <<status, gate, work, wire, misc>>

Shutdown(t) ==
    /\ pc[t] = "shutdown"
    /\ socket' = IF socket \in {"open", "lost", "reset", "broken"} THEN "shut" ELSE socket
    /\ Goto(t, CASE t = "stop" -> "done" [] t = "listen" -> "recv" [] OTHER -> "get")
    /\ UNCHANGED <<flags, gate, work, epoch, server, submitted, delivered, misc>>

Disconnect(t) == Release(t) \/ SetDisconnect(t) \/ Shutdown(t)

\* The call comes after connect() of start() has begun.
StopBegin == pc["main"] # "connect" /\ Jump("stop", "off", "release")

ParentAlive == pc["main"] # "gone"

\* Mutant of SessionCheck: runs while the status is CONNECTED.
SessionCheckSynced(t, next) ==
    Jump(t, "check", IF status # "CONNECTED" \/ disconnect THEN "exit"
                     ELSE IF ~ParentAlive THEN "release" ELSE next)

\* Mutant of SessionCheck: _disconnect is not looked at.
SessionCheckDeaf(t, next) ==
    Jump(t, "check", IF ~IsConnected THEN "exit"
                     ELSE IF ~ParentAlive THEN "release" ELSE next)

\* The guard of the while of _listen and _send.
SessionCheck(t, next) ==
    Jump(t, "check", IF ~IsConnected \/ disconnect THEN "exit"
                     ELSE IF ~ParentAlive THEN "release" ELSE next)

(***************************************************************************)
(* _listen(): recv, then every complete message is dispatched before the   *)
(* status is looked at again.                                              *)
(***************************************************************************)
Recv ==
    /\ pc["listen"] = "recv"
    /\ \/ socket \in {"open", "lost"} /\ Goto("listen", "drain") /\ UNCHANGED <<status, socket>>
       \/ /\ socket \in {"lost", "reset"} \/ (socket = "open" /\ "timeout" \in Faults)
          /\ status' = "FAILED"
          /\ socket' = IF socket = "reset" THEN "broken" ELSE socket
          /\ Goto("listen", "check")
       \/ socket \in {"broken", "shut", "closed"} /\ Goto("listen", "check") /\ UNCHANGED <<status, socket>>
    /\ UNCHANGED <<disconnect, gate, work, epoch, server, submitted, delivered, misc>>

Drained == Jump("listen", "drain", "check")

HandleVersion ==
    /\ pc["listen"] = "drain" /\ server = "silent"
    /\ server' = "greeted"
    /\ dispatcher' = IF Protobuf THEN "protobuf" ELSE "legacy"
    /\ UNCHANGED <<flags, gate, work, socket, epoch, submitted, delivered, backoff, timer, pc>>

\* What the server does once it has the Authenticate of this connection.
Authenticated == server = "greeted" /\ <<epoch, "Authenticate">> \in delivered

\* With blob_greedy_update the handler first puts a RequestBlob.
HandleServerSync ==
    /\ pc["listen"] = "drain" /\ Authenticated
    /\ server' = "synced"
    /\ \/ Goto("listen", "sync_read") /\ UNCHANGED held
       \/ \E r \in Requests \ submitted :
             held' = [held EXCEPT !["listen"] = r] /\ Goto("listen", "put")
    /\ UNCHANGED <<flags, gate, queue, socket, epoch, submitted, delivered, misc>>

SyncPut ==
    /\ pc["listen"] = "put"
    /\ Put(held["listen"])
    /\ submitted' = submitted \cup {held["listen"]}
    /\ held' = [held EXCEPT !["listen"] = None]
    /\ Goto("listen", "sync_read")
    /\ UNCHANGED <<flags, gate, socket, epoch, server, delivered, misc>>

SyncRead == Jump("listen", "sync_read", IF status = "AUTHENTICATING" THEN "sync_set" ELSE "drain")

SyncSet ==
    /\ pc["listen"] = "sync_set"
    /\ status' = "CONNECTED"
    /\ Goto("listen", "sync_ready")
    /\ UNCHANGED <<disconnect, gate, work, wire, misc>>

SyncReady ==
    /\ pc["listen"] = "sync_ready"
    /\ locked' = FALSE /\ announced' = TRUE
    /\ Goto("listen", "drain")
    /\ UNCHANGED <<flags, work, wire, misc>>

\* The handler raises, which ends the thread without the release of line 255.
HandleReject ==
    /\ pc["listen"] = "drain" /\ Authenticated
    /\ server' = "refused"
    /\ status' = "FAILED" /\ locked' = FALSE
    /\ Goto("listen", "off")
    /\ UNCHANGED <<disconnect, announced, work, socket, epoch, submitted, delivered, misc>>

HandleBad == "bad" \in Faults /\ Jump("listen", "drain", "off")

HandleCryptRequest ==
    /\ pc["listen"] = "drain" /\ "resync" \in Faults /\ server = "synced"
    /\ SendMessage("listen", "CryptSetup")

Listen == \/ SessionCheck("listen", "recv") \/ Recv \/ Drained
          \/ HandleVersion \/ HandleServerSync \/ SyncPut \/ SyncRead \/ SyncSet
          \/ SyncReady \/ HandleReject \/ HandleBad \/ HandleCryptRequest
          \/ Requeue("listen") \/ Disconnect("listen")

(***************************************************************************)
(* _send()                                                                 *)
(***************************************************************************)
\* Mutant of Get: the item is read but stays in the queue.
GetPeek ==
    /\ pc["send"] = "get"
    /\ IF queue = <<>>
       THEN Goto("send", "check") /\ UNCHANGED work
       ELSE /\ held' = [held EXCEPT !["send"] = Head(queue)]
            /\ Goto("send", "send") /\ UNCHANGED queue
    /\ UNCHANGED <<flags, gate, wire, misc>>

Get ==
    /\ pc["send"] = "get"
    /\ IF queue = <<>>
       THEN Goto("send", "check") /\ UNCHANGED work
       ELSE /\ held' = [held EXCEPT !["send"] = Head(queue)]
            /\ queue' = Tail(queue)
            /\ Goto("send", "send")
    /\ UNCHANGED <<flags, gate, wire, misc>>

\* send_audio_legacy: SSLError fails the connection, a timeout only drops the packet.
SendAudioLegacy(item) == \E r \in SendResults :
    /\ Transmit(r, item)
    /\ status' = IF r = "error" /\ socket # "open" THEN "FAILED" ELSE status
    /\ held' = [held EXCEPT !["send"] = None]
    /\ Goto("send", IF r \in {"sent", "error"} THEN "check" ELSE "off")
    /\ UNCHANGED <<disconnect, gate, queue, submitted, misc>>

SendItem ==
    /\ pc["send"] = "send"
    /\ IF held["send"] \in Audio /\ dispatcher = "legacy"
       THEN SendAudioLegacy(held["send"])
       ELSE SendMessage("send", held["send"])

Send == SessionCheck("send", "get") \/ Get \/ SendItem \/ Requeue("send") \/ Disconnect("send")

(***************************************************************************)
(* The ping timer.  A cancel does not stop a call that has already left    *)
(* the timer's wait.                                                       *)
(***************************************************************************)
PingFire == timer /\ Jump("ping", "idle", "fire")

PingStart == Jump("ping", "fire", IF IsConnected THEN "send" ELSE "idle")

PingSend == pc["ping"] = "send" /\ SendMessage("ping", "Ping")

Ping == PingFire \/ PingStart \/ PingSend \/ Requeue("ping")

(***************************************************************************)
(* The application's calls.                                                *)
(***************************************************************************)
Acquire(c) ==
    /\ pc[c] = "gate"
    /\ ~locked
    /\ locked' = TRUE
    /\ Goto(c, "pass")
    /\ UNCHANGED <<flags, announced, work, wire, misc>>

\* Mutant of PassGate: is_ready() keeps the lock.
PassGateKeeps(c) ==
    /\ pc[c] = "pass"
    /\ Goto(c, IF locked THEN "put" ELSE "raised")
    /\ UNCHANGED <<flags, gate, work, wire, misc>>

\* is_ready() does not expect that another thread released the lock meanwhile.
PassGate(c) ==
    /\ pc[c] = "pass"
    /\ locked' = FALSE
    /\ Goto(c, IF locked THEN "put" ELSE "raised")
    /\ UNCHANGED <<flags, announced, work, wire, misc>>

CallPut(c) ==
    /\ pc[c] = "put"
    /\ Put(c)
    /\ submitted' = submitted \cup {c}
    /\ Goto(c, "done")
    /\ UNCHANGED <<flags, gate, held, socket, epoch, server, delivered, misc>>

Call(c) == Acquire(c) \/ PassGate(c) \/ CallPut(c)

AudioBegin(a) == IsConnected /\ Jump(a, "idle", "put")

DirectBegin(d) ==
    /\ pc[d] = "idle" /\ socket # "none"
    /\ held' = [held EXCEPT ![d] = d]
    /\ submitted' = submitted \cup {d}
    /\ Goto(d, "send")
    /\ UNCHANGED <<flags, gate, queue, socket, epoch, server, delivered, misc>>

DirectSend(d) == pc[d] = "send" /\ SendMessage(d, d)

(***************************************************************************)
(* The environment.                                                        *)
(***************************************************************************)
PeerCloses ==
    /\ "lost" \in Faults /\ socket = "open"
    /\ socket' = "lost"
    /\ UNCHANGED <<flags, gate, work, epoch, server, submitted, delivered, misc, pc>>

ParentDies == "parent" \in Faults /\ \E l \in {"done", "failed"} : Jump("main", l, "gone")

Next ==
    \/ \E t \in Connectors : Connect(t) \/ Requeue(t)
    \/ Loop \/ Listen \/ Send \/ Ping
    \/ StopBegin \/ Disconnect("stop")
    \/ \E c \in Commands : Call(c)
    \/ \E a \in Audio : AudioBegin(a) \/ CallPut(a)
    \/ \E d \in Direct : DirectBegin(d) \/ DirectSend(d) \/ Requeue(d)
    \/ PeerCloses \/ ParentDies

(***************************************************************************)
(* Threads are scheduled: a thread that can take a step takes one.  Every  *)
(* socket call and every queue.get has a timeout, so it returns.  Whether  *)
(* and when the application calls, the peer closes or the parent ends is   *)
(* left open.                                                              *)
(***************************************************************************)
Fairness ==
    /\ \A t \in Connectors : WF_vars(Connect(t) \/ Requeue(t))
    /\ WF_vars(Loop) /\ WF_vars(Listen) /\ WF_vars(Send) /\ WF_vars(Ping)
    /\ WF_vars(Disconnect("stop"))
    /\ \A c \in Commands : WF_vars(Call(c))
    /\ \A a \in Audio : WF_vars(CallPut(a))
    /\ \A d \in Direct : WF_vars(DirectSend(d) \/ Requeue(d))

Spec     == Init /\ [][Next]_vars
FairSpec == Spec /\ Fairness
=============================================================================
