------------------------- MODULE ControlStackProps -------------------------
(***************************************************************************)
(* What the control channel is meant to guarantee.                         *)
(***************************************************************************)
EXTENDS ControlStack

ConnectLabels == {"connect", "wrap", "handshake", "send_version", "send_auth",
                  "requeue", "mark", "raise"}
DisconnectLabels == {"release", "flag", "shutdown"}

MainLabels   == ConnectLabels \cup {"done", "failed", "gone"}
LoopLabels   == ConnectLabels \cup {"off", "check", "top", "judge", "session", "join", "reacquire",
                                    "dead", "crashed"}
ListenLabels == DisconnectLabels \cup {"off", "check", "exit", "recv", "drain", "requeue", "put",
                                       "sync_read", "sync_set", "sync_ready"}
SendLabels   == DisconnectLabels \cup {"off", "check", "exit", "get", "send", "requeue"}
PingLabels   == {"idle", "fire", "send", "requeue", "dead"}
StopLabels   == DisconnectLabels \cup {"off", "done"}
CallLabels   == {"gate", "pass", "raised", "put", "done"}
AudioLabels  == {"idle", "put", "done"}
DirectLabels == {"idle", "send", "requeue", "raised", "done"}
AllLabels    == MainLabels \cup LoopLabels \cup ListenLabels \cup SendLabels \cup PingLabels
                  \cup StopLabels \cup CallLabels \cup AudioLabels \cup DirectLabels

PcOK == /\ pc \in [Threads -> AllLabels]
        /\ pc["main"] \in MainLabels     /\ pc["loop"] \in LoopLabels
        /\ pc["listen"] \in ListenLabels /\ pc["send"] \in SendLabels
        /\ pc["ping"] \in PingLabels     /\ pc["stop"] \in StopLabels
        /\ \A c \in Commands : pc[c] \in CallLabels
        /\ \A a \in Audio : pc[a] \in AudioLabels
        /\ \A d \in Direct : pc[d] \in DirectLabels

Payload == Items \cup Control

(* The type invariant of the control channel. *)
TypeOK ==
    /\ status \in {"NOT_CONNECTED", "AUTHENTICATING", "CONNECTED", "FAILED"}
    /\ disconnect \in BOOLEAN /\ locked \in BOOLEAN /\ announced \in BOOLEAN
    /\ queue \in Seq(Payload) /\ Len(queue) <= QueueSize
    /\ held \in [Senders -> Payload \cup {None}]
    /\ socket \in {"none", "new", "open", "lost", "reset", "broken", "shut", "closed"}
    /\ epoch \in 0..MaxEpoch
    /\ server \in {"silent", "greeted", "synced", "refused"}
    /\ submitted \subseteq Items
    /\ delivered \subseteq (1..MaxEpoch) \X (Items \cup {"Authenticate"})
    /\ backoff \in Nat \ {0} /\ timer \in BOOLEAN
    /\ dispatcher \in {"legacy", "protobuf"}
    /\ PcOK

(***************************************************************************)
(* Safety.                                                                 *)
(***************************************************************************)
SessionOver == pc["listen"] = "off" /\ pc["send"] = "off"

(* connect() gives self.socket a new value only while neither Control:Listen
   nor Control:Send of the previous session still runs (loop joins both). *)
SocketKeptDuringSession == [][epoch' # epoch => SessionOver]_vars

(* Between on_connect and on_disconnect the gate of is_ready() is shut only
   while some caller is between its acquire and its release, so no command
   waits for a session that is already there. *)
GateOpenWhileAnnounced ==
    announced /\ locked => \E c \in Commands : pc[c] = "pass"

(* on_connect is not dispatched twice without an on_disconnect between, over
   sessions, reconnects and rejected connections. *)
ConnectAnnouncedOnce == pc["listen"] = "sync_ready" => ~announced

TearingDown == \/ disconnect \/ pc["stop"] # "off" \/ ~ParentAlive
               \/ pc["listen"] \in {"exit", "off"} \/ pc["send"] \in {"exit", "off"}

(* In the first session, as long as nothing has begun to take it down, the
   gate is open only once the server has sent ServerSync.  (A caller that is
   between acquire and release while the session ends leaves the gate of the
   next session open, so later sessions do not have this.) *)
GateClosedUntilSync ==
    epoch = 1 /\ pc["loop"] = "join" /\ ~TearingDown /\ ~locked => server = "synced"

\* Neither a handler that raises (it leaves the status AUTHENTICATING to the guard
\* of loop) nor a send past the queue (reauthenticate(), request_blob()).
OneShot == ~Reconnect /\ "bad" \notin Faults /\ \A d \in Direct : pc[d] = "idle"

(* Without the reconnect option the client opens one connection in its life: no
   failure of a peer, a send, a ping or the server's refusal makes loop connect
   again.  OneShot names the two things that can. *)
NoUninvitedReconnect == OneShot => epoch <= 1

(***************************************************************************)
(* What makes the safety properties inductive.                             *)
(***************************************************************************)
\* A thread that is about to put, or to send from its hand, holds something.
HeldOK == /\ \A t \in Senders : pc[t] = "requeue" => held[t] \in Payload
          /\ pc["send"] = "send" => held["send"] \in Payload
          /\ pc["listen"] = "put" => held["listen"] \in Requests

SocketOK == /\ socket # "none" => epoch \in 1..MaxEpoch
            /\ pc["main"] \in {"handshake", "send_version", "send_auth", "requeue", "mark"}
                 => socket # "none"
            /\ pc["loop"] # "off" => socket # "none"

\* loop is not there while main connects, and session threads only while it joins them.
SessionOK == /\ pc["loop"] = "off" \/ pc["main"] \in {"done", "failed", "gone"}
             /\ SessionOver \/ pc["loop"] = "join"

SyncLabels == {"put", "sync_read", "sync_set", "sync_ready"}

\* on_connect belongs to a ServerSync of the running session.
AnnouncedOK == /\ announced => server = "synced" /\ pc["loop"] \in {"join", "reacquire"}
               /\ pc["listen"] \in SyncLabels => server = "synced" /\ ~announced

\* A caller in "pass" has the lock, and may open the gate after somebody else shut it.
Opened     == ~locked \/ \E c \in Commands : pc[c] = "pass"
Leaving(t) == pc[t] \in {"exit", "off"}
Ended      == \/ disconnect \/ pc["stop"] # "off" \/ ~ParentAlive
              \/ status = "FAILED" /\ (Leaving("listen") \/ Leaving("send"))

\* What opens the gate in the first session: its ServerSync, or its end.
FirstGateOK ==
    /\ pc["main"] = "connect" => pc["stop"] = "off"
    /\ pc["main"] \in ConnectLabels /\ Opened => pc["stop"] # "off"
    /\ epoch <= 1 /\ pc["loop"] \in ConnectLabels
         => pc["loop"] \in {"connect", "wrap", "raise"} /\ status = "FAILED"
    /\ status = "NOT_CONNECTED" => pc["loop"] = "off"
    /\ \A t \in {"listen", "send"} : pc[t] \in DisconnectLabels => ~ParentAlive
    /\ epoch <= 1 /\ (Opened \/ pc["listen"] = "exit" \/ pc["send"] = "exit")
         => server = "synced" \/ Ended

\* What keeps the guard of loop from passing a second time.
Finished == disconnect \/ status \in {"CONNECTED", "FAILED"}
Quietly  == ~timer /\ pc["ping"] = "idle" /\ IsConnected

OneShotOK == OneShot =>
    /\ epoch <= 1 /\ (pc["main"] \in {"connect", "wrap"} => epoch = 0)
    /\ pc["main"] \in ConnectLabels => server = "silent" /\ ~timer /\ pc["ping"] = "idle"
    /\ pc["loop"] \notin ConnectLabels
    /\ pc["loop"] = "check" => Quietly \/ Finished
    /\ pc["loop"] \in {"top", "judge", "session"} => Quietly
    /\ pc["loop"] = "join" /\ Leaving("listen") => Finished
    /\ pc["loop"] = "reacquire" => Finished
    /\ server = "synced" /\ pc["listen"] \notin {"put", "sync_read", "sync_set"}
         => status \in {"CONNECTED", "FAILED"}

\* A hand is full only on the way to the socket or to the queue, and what has not
\* been handed over yet is at its caller.
HandsOK ==
    /\ \A t \in Senders : held[t] # None =>
          \/ pc[t] = "requeue"
          \/ pc[t] = "send" /\ t \in {"send"} \cup Direct
          \/ pc[t] = "put"  /\ t = "listen"
    /\ \A d \in Direct : pc[d] \in {"send", "requeue"} => held[d] = d
    /\ \A c \in Commands \cup Audio : pc[c] \in {"gate", "pass", "idle", "put"} => c \notin submitted
    /\ \A d \in Direct : pc[d] = "idle" => d \notin submitted
    /\ pc["listen"] = "put" => held["listen"] \notin submitted

Queued(i)    == \E n \in 1..Len(queue) : queue[n] = i
InHand(i)    == \E t \in Senders : held[t] = i
Received(i)  == \E e \in 1..MaxEpoch : <<e, i>> \in delivered
Held(i)      == Queued(i) \/ InHand(i)

\* An item is in one place: once in the queue, in one hand, or with the server.
OnePlace ==
    /\ \A m, n \in 1..Len(queue) : queue[m] = queue[n] /\ queue[m] \in Items => m = n
    /\ \A t, u \in Senders : held[t] = held[u] /\ held[t] \in Items => t = u
    /\ \A i \in Items : ~(Queued(i) /\ InHand(i)) /\ (Received(i) => i \in submitted /\ ~Held(i))
    /\ \A i \in Items \ submitted :
           ~Queued(i) /\ \A t \in Senders : held[t] = i => t = "listen" /\ pc[t] = "put"

IInv == /\ TypeOK /\ HeldOK /\ SocketOK /\ SessionOK
        /\ AnnouncedOK /\ GateOpenWhileAnnounced
        /\ FirstGateOK /\ OneShotOK
        /\ HandsOK /\ OnePlace

(***************************************************************************)
(* Implementation of CommandPipe.                                          *)
(***************************************************************************)
\* "again" is no fate of CommandPipe: a received item the client may send once more.
Fate == [i \in Items |-> IF i \notin submitted THEN "new"
                         ELSE IF Received(i) THEN IF Held(i) THEN "again" ELSE "delivered"
                         ELSE IF Held(i) THEN "pending" ELSE "dropped"]

Pipe == INSTANCE CommandPipe WITH Items <- Items, Lossy <- Audio, fate <- Fate,
                                  up <- (socket = "open")

(* Through every requeue, reconnect and failure an item reaches the server at
   most once and is lost only when the transport is down (or is voice). *)
ImplementsCommandPipe == Pipe!Spec

(***************************************************************************)
(* Liveness.                                                               *)
(***************************************************************************)
(* After stop() has returned the control loop ends and stays ended. *)
StopTerminates ==
    (pc["stop"] = "done") ~> [](pc["loop"] \in {"off", "dead", "crashed"})

(* A command past the gate of a connection that stays good is delivered. *)
CommandReachesServer ==
    \A c \in Commands : (pc[c] = "put") ~>
        Received(c) \/ status = "FAILED" \/ disconnect \/ socket # "open"

(* A session whose status is FAILED ends: both session threads leave, loop
   joins them, gets the gate back and returns to its guard. *)
FailureEndsSession ==
    (pc["loop"] = "join" /\ status = "FAILED") ~> (pc["loop"] = "check")

(***************************************************************************)
(* What comments and log messages of the program say.                      *)
(***************************************************************************)
(* control.py:176: a message that failed is put back for the next connection. *)
RequeueCompletes == (pc["send"] = "requeue") ~> (pc["send"] # "requeue")

(* ping.py:112: a connection whose peer is gone is noticed. *)
LossNoticed ==
    (pc["loop"] = "join" /\ socket \in {"lost", "reset", "broken"}) ~> (pc["loop"] # "join")
=============================================================================
