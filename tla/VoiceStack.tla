------------------------------ MODULE VoiceStack ------------------------------
(***************************************************************************)
(* The UDP voice channel: class VoiceStack of network/voice.py, with the   *)
(* UDP half of Ping.send and Mumble.stop.  One action is one step of one   *)
(* thread between two accesses to shared state:                            *)
(*   control  Control:Listen, which handles CryptSetup and ServerSync      *)
(*   ping     the RepeatTimer thread of Ping                               *)
(*   app      the thread that sends voice                                  *)
(*   stop     one call of Mumble.stop()                                    *)
(*   s \in Syncs      the thread sync() starts for a ServerSync            *)
(*   l \in Listeners  the threads enable_udp() starts                      *)
(* _ping_timeout is left out: check_connection is TRUE from line 38 on and *)
(* no line makes it FALSE, so the method does nothing.                     *)
(***************************************************************************)
EXTENDS Integers, FiniteSets

CONSTANTS Syncs, Listeners,
          None,
          Sessions,    \* bound: connections in one behaviour
          Outages,     \* bound: silences of 15 s while the network works
          Events       \* what the environment may do, see below

(***************************************************************************)
(* "voice": the application sends voice.  "audio": the server does.        *)
(* "nonce", "request": CryptSetup with the server's nonce only, or empty.  *)
(* "stop": a call of stop().  "junk": a datagram of nobody's, which does   *)
(* not decrypt.  "late": datagrams of a connection are still at the socket *)
(* when the next has its key.  "unreachable": sendto raises what           *)
(* send_packet does not catch.  "early": the timer fires before the key is *)
(* there.  "tcp": sending our nonce on the control channel raises.         *)
(***************************************************************************)
EventKinds == {"voice", "audio", "nonce", "request", "stop", "junk", "late",
               "unreachable", "early", "tcp"}

Workers == {"control", "ping", "app", "stop"}
Threads == Workers \cup Syncs \cup Listeners
Readers == Syncs \cup Listeners

ASSUME ThreadsAssumption ==
    /\ Syncs \cap Listeners = {} /\ Workers \cap Readers = {}
    /\ None \notin Threads
    /\ None \notin {"key", "nonce", "request", "pong", "old", "junk"}
ASSUME BoundsAssumption ==
    /\ Sessions \in Nat /\ Outages \in Nat /\ Events \subseteq EventKinds

VARIABLES
    active, exit,
    blocking,    \* the socket has no timeout
    shut,        \* the socket is shut down
    crypt,       \* the thread that holds _crypt_lock
    key,         \* of this connection ("good"), of an earlier one, or none
    last,        \* the thread whose ping is last_ping
    stale,       \* last_good_ping is more than 15 s ago
    listener,    \* _listen_thread; None for the one never started
    connected,   \* ControlStack.is_connected()
    session,     \* connections so far
    synced,      \* ServerSync has come on this connection
    asked,       \* answers the server may still send
    inbox,       \* datagrams at the socket: an answer to last_ping ("pong"), to
                 \* an earlier ping ("old"), or one that does not decrypt ("junk")
    up,          \* UDP works
    outages,
    got,         \* got[t]: the message thread t works on
    pc

stack   == <<active, exit, blocking, shut, stale, listener>>
lock    == <<crypt, key>>
conn    == <<connected, session, synced>>
net     == <<asked, inbox, up, outages>>
vars    == <<stack, lock, last, conn, net, got, pc>>

Goto(t, label) == pc' = [pc EXCEPT ![t] = label]
Hold(t, m)     == got' = [got EXCEPT ![t] = m]

Init ==
    /\ active = FALSE /\ exit = FALSE /\ blocking = TRUE /\ shut = FALSE
    /\ crypt = None /\ key = "none" /\ last = None
    /\ stale = FALSE /\ listener = None
    /\ connected = FALSE /\ session = 0 /\ synced = FALSE
    /\ asked = {} /\ inbox = {} /\ up = TRUE /\ outages = 0
    /\ got = [t \in Threads |-> None]
    /\ pc = [t \in Threads |-> IF t \in Workers THEN "idle" ELSE "off"]

(***************************************************************************)
(* The environment: the control channel and the network.                   *)
(***************************************************************************)
\* A new session: loop() starts a new Control:Listen and a new timer.
Connect ==
    /\ ~connected /\ session < Sessions
    /\ pc["stop"] = "idle" /\ pc["control"] \in {"idle", "dead"}
    /\ connected' = TRUE /\ session' = session + 1 /\ synced' = FALSE
    /\ key' = IF key = "good" THEN "old" ELSE key
    /\ pc' = [pc EXCEPT !["control"] = "idle",
                        !["ping"] = IF @ = "dead" THEN "idle" ELSE @]
    /\ IF "late" \in Events THEN UNCHANGED <<asked, inbox>>
       ELSE (\A r \in Readers : got[r] = None) /\ asked' = {} /\ inbox' = {}
    /\ UNCHANGED <<stack, crypt, last, up, outages, got>>

Lose == /\ connected /\ connected' = FALSE
        /\ UNCHANGED <<stack, lock, last, session, synced, net, got, pc>>

Answer == /\ up
          /\ \E m \in asked : inbox' = inbox \cup {m} /\ asked' = asked \ {m}
          /\ UNCHANGED <<stack, lock, last, conn, up, outages, got, pc>>

Junk == /\ "junk" \in Events /\ up /\ inbox' = inbox \cup {"junk"}
        /\ UNCHANGED <<stack, lock, last, conn, asked, up, outages, got, pc>>

\* UDP stops working, for good.
Fail == /\ up /\ up' = FALSE
        /\ UNCHANGED <<stack, lock, last, conn, asked, inbox, outages, got, pc>>

\* 15 s pass without an answer to a ping.
Silence == /\ ~stale /\ stale' = TRUE
           /\ outages < Outages \/ ~up
           /\ outages' = IF up THEN outages + 1 ELSE outages
           /\ UNCHANGED <<active, exit, blocking, shut, listener>>
           /\ UNCHANGED <<lock, last, conn, asked, inbox, up, got, pc>>

(***************************************************************************)
(* _crypt_lock.  What is done between its acquire and its release is one   *)
(* step: crypt is set only when an exception leaves the lock behind.       *)
(***************************************************************************)
LockFree == crypt = None
LockLeft(t) == crypt' = t

\* An exception ends the thread, or the call of the application.
Raise(t) == Goto(t, IF t = "app" THEN "idle" ELSE IF t \in Readers THEN "off" ELSE "dead")

\* A recv keeps the timeout the socket has when it is called.
RecvLabel == IF blocking THEN "recv" ELSE "recv3"
Sent(t) == CASE t = "ping" -> "age" [] t = "app" -> "idle" [] OTHER -> RecvLabel

\* encrypt() raises while there is no key; then the lock is left.
EncryptRaises(t) == /\ key = "none"
                    /\ Raise(t) /\ LockLeft(t) /\ UNCHANGED <<exit, asked>>

\* sendto: a shut socket is a broken pipe.  The server may answer a ping it can decrypt
\* (never, if the packet is lost or sendto raises the errors lines 119-122 catch).
SendTo(t) ==
    /\ key # "none" /\ UNCHANGED crypt
    /\ \/ /\ ~shut /\ Goto(t, Sent(t)) /\ UNCHANGED exit
          /\ asked' = IF t # "app" /\ key = "good" /\ connected /\ up
                      THEN asked \cup {IF last = t THEN "pong" ELSE "old"} ELSE asked
       \/ /\ ~shut /\ "unreachable" \in Events /\ Raise(t) /\ UNCHANGED <<exit, asked>>
       \/ /\ shut /\ exit' = TRUE /\ Goto(t, Sent(t)) /\ UNCHANGED asked

SendPacket(t) ==
    /\ pc[t] = "send" /\ LockFree
    /\ EncryptRaises(t) \/ SendTo(t)
    /\ UNCHANGED <<active, blocking, shut, stale, listener>>
    /\ UNCHANGED <<key, last, conn, inbox, up, outages, got>>

\* ping(): a new last_ping, so that no answer on its way is for the last ping.
Outdated(m) == IF m = "pong" THEN "old" ELSE m
NewPing(t) == /\ last' = t
              /\ asked' = {Outdated(m) : m \in asked}
              /\ inbox' = {Outdated(m) : m \in inbox}
              /\ got' = [r \in Threads |-> Outdated(got[r])]
              /\ UNCHANGED <<up, outages>>

(***************************************************************************)
(* The timer: Ping.send, which enforces the ping.                          *)
(***************************************************************************)
PingFire ==
    /\ pc["ping"] = "idle" /\ connected
    /\ key # "none" \/ "early" \in Events
    /\ NewPing("ping") /\ Goto("ping", "send")
    /\ UNCHANGED <<stack, lock, conn>>

\* Mutant of PingAge: the age of the last answer is not looked at.
PingAgeNot == /\ pc["ping"] = "age" /\ Goto("ping", "idle")
              /\ UNCHANGED <<stack, lock, last, conn, net, got>>

PingAge ==
    /\ pc["ping"] = "age" /\ Goto("ping", "idle")
    /\ active' = (active /\ ~stale)
    /\ UNCHANGED <<exit, blocking, shut, stale, listener>>
    /\ UNCHANGED <<lock, last, conn, net, got>>

Ping == PingFire \/ SendPacket("ping") \/ PingAge

\* The voice thread; with active FALSE the packet goes to enqueue_audio.
AppCall == /\ "voice" \in Events /\ pc["app"] = "idle" /\ connected /\ active
           /\ Goto("app", "send")
           /\ UNCHANGED <<stack, lock, last, conn, net, got>>

App == AppCall \/ SendPacket("app")

(***************************************************************************)
(* Control:Listen: crypt_setup and sync.  The server sends the key before  *)
(* ServerSync and anything else.                                           *)
(***************************************************************************)
CryptMessage ==
    /\ pc["control"] = "idle" /\ connected
    /\ \E m \in IF key = "good" THEN {"nonce", "request"} \cap Events ELSE {"key"} : Hold("control", m)
    /\ Goto("control", "crypt")
    /\ UNCHANGED <<stack, lock, last, conn, net>>

\* With a new key, what is on its way does not decrypt any more.
SetKey == /\ key' = "good"
          /\ asked' = {"junk" : m \in asked} /\ inbox' = {"junk" : m \in inbox}
          /\ got' = [t \in Threads |-> IF t \in Readers /\ got[t] # None THEN "junk" ELSE None]

\* The client nonce goes over send_message, which may raise.
CryptSetup ==
    /\ pc["control"] = "crypt" /\ LockFree
    /\ IF got["control"] = "key" THEN SetKey
                                 ELSE Hold("control", None) /\ UNCHANGED <<key, asked, inbox>>
    /\ \/ Goto("control", "idle") /\ UNCHANGED crypt
       \/ /\ got["control"] = "request" /\ "tcp" \in Events
          /\ Raise("control") /\ LockLeft("control")
    /\ UNCHANGED <<stack, last, conn, up, outages>>

Off(T) == {t \in T : pc[t] = "off"}

ServerSync ==
    /\ pc["control"] = "idle" /\ connected /\ key = "good" /\ ~synced
    /\ synced' = TRUE
    /\ \E s \in Off(Syncs) : s = (CHOOSE t \in Off(Syncs) : TRUE) /\ Goto(s, "begin")
    /\ UNCHANGED <<stack, lock, last, connected, session, net, got>>

Control == CryptMessage \/ CryptSetup \/ ServerSync

(***************************************************************************)
(* _sync and _listen: the two readers of the socket.                       *)
(***************************************************************************)
SyncBegin(s) ==
    /\ pc[s] = "begin" /\ blocking' = FALSE
    /\ NewPing(s) /\ Goto(s, "send")
    /\ UNCHANGED <<active, exit, shut, stale, listener, lock, conn>>

ListenCheck(l) ==
    /\ pc[l] = "check"
    /\ Goto(l, IF active /\ ~exit /\ connected THEN RecvLabel ELSE "off")
    /\ UNCHANGED <<stack, lock, last, conn, net, got>>

Receive(r) ==
    /\ pc[r] \in {"recv", "recv3"}
    /\ \E m \in inbox : Hold(r, m) /\ inbox' = inbox \ {m}
    /\ Goto(r, "received")
    /\ UNCHANGED <<stack, lock, last, conn, asked, up, outages>>

\* The TimeoutError ends the thread: _sync returns, _listen does not catch it.
Timeout(r) ==
    /\ pc[r] = "recv3" /\ Goto(r, "off")
    /\ UNCHANGED <<stack, lock, last, conn, net, got>>

LeaveLock(s) == pc' = [pc EXCEPT ![s] = "off"] /\ LockLeft(s)

\* recv on a shut socket returns b'', which ends _listen; in _sync decrypt() raises.
ReceiveEmpty(r) ==
    /\ pc[r] \in {"recv", "recv3"} /\ shut
    /\ \/ r \in Syncs /\ LockFree /\ LeaveLock(r) /\ UNCHANGED exit
       \/ r \in Listeners /\ exit' = TRUE /\ Goto(r, "check") /\ UNCHANGED crypt
    /\ UNCHANGED <<active, blocking, shut, stale, listener, key, last, conn, net, got>>

\* Mutant of Back: _sync goes on to listen.
BackListens(r) == "check"

Back(r) == IF r \in Listeners THEN "check" ELSE "off"

\* Voice from the server: it goes to the application.
ReceiveAudio(r) ==
    /\ "audio" \in Events /\ up /\ pc[r] \in {"recv", "recv3"}
    /\ r \in Syncs => LockFree
    /\ Goto(r, Back(r))
    /\ UNCHANGED <<stack, lock, last, conn, net, got>>

\* decrypt() and _handle_ping, each of which may raise: PingStats has no attribute
\* lost, which an outdated answer adds to.
HandlePing(r) ==
    /\ Hold(r, None)
    /\ IF got[r] \in {"old", "junk"} THEN Raise(r) /\ UNCHANGED stale
                         ELSE stale' = FALSE /\ Goto(r, IF active THEN Back(r) ELSE "enable")
    /\ UNCHANGED <<active, exit, blocking, shut, listener, key, last, conn, net>>

\* Mutant of SyncHandle: the dispatcher runs before the lock is released.
SyncHandleFirst(s) ==
    /\ pc[s] = "received" /\ LockFree
    /\ HandlePing(s)
    /\ IF got[s] # "pong" THEN LockLeft(s) ELSE UNCHANGED crypt

\* _sync decrypts under the lock and leaves it held if decrypt() raises.
SyncHandle(s) ==
    /\ pc[s] = "received" /\ LockFree
    /\ HandlePing(s)
    /\ IF got[s] = "junk" THEN LockLeft(s) ELSE UNCHANGED crypt


\* _listen decrypts without the lock.
ListenHandle(l) == pc[l] = "received" /\ HandlePing(l) /\ UNCHANGED crypt

\* enable_udp(), up to the new thread.
Enable(r) ==
    /\ pc[r] = "enable" /\ blocking' = TRUE /\ active' = TRUE
    /\ \E l \in Off(Listeners) :
          /\ l = CHOOSE k \in Off(Listeners) : TRUE
          /\ listener' = l
          /\ pc' = [pc EXCEPT ![l] = "new", ![r] = "start"]
    /\ UNCHANGED <<exit, shut, stale, lock, last, conn, net, got>>

\* It starts the thread _listen_thread is by now, which another reader may have started.
Start(r) ==
    /\ pc[r] = "start" /\ listener # None
    /\ IF pc[listener] = "new" THEN pc' = [pc EXCEPT ![listener] = "check", ![r] = Back(r)]
                               ELSE Raise(r)
    /\ UNCHANGED <<stack, lock, last, conn, net, got>>

EnableUdp(r) == Enable(r) \/ Start(r)
Recv(r)   == Receive(r) \/ Timeout(r) \/ ReceiveEmpty(r)
Sync(s)   == SyncBegin(s) \/ SendPacket(s) \/ Recv(s) \/ SyncHandle(s) \/ EnableUdp(s)
Listen(l) == ListenCheck(l) \/ Recv(l) \/ ListenHandle(l) \/ EnableUdp(l)

(***************************************************************************)
(* Mumble.stop                                                             *)
(***************************************************************************)
StopBegin == /\ "stop" \in Events /\ pc["stop"] = "idle" /\ Goto("stop", "shutdown")
             /\ UNCHANGED <<stack, lock, last, conn, net, got>>

\* Mutant of StopShutdown: the socket stays open.
StopShutdownNot == /\ pc["stop"] = "shutdown" /\ Goto("stop", "exit")
                   /\ UNCHANGED <<stack, lock, last, conn, net, got>>

StopShutdown == /\ pc["stop"] = "shutdown" /\ Goto("stop", "exit")
                /\ shut' = TRUE
                /\ UNCHANGED <<active, exit, blocking, stale, listener, lock, last, conn, net, got>>

StopExit == /\ pc["stop"] = "exit" /\ Goto("stop", "join")
            /\ exit' = TRUE
            /\ UNCHANGED <<active, blocking, shut, stale, listener, lock, last, conn, net, got>>

\* join() of a thread that was never started raises.
StopJoin == /\ pc["stop"] = "join"
            /\ IF listener = None THEN Goto("stop", "raised")
               ELSE IF pc[listener] = "new" THEN Goto("stop", "raised")
               ELSE pc[listener] = "off" /\ Goto("stop", "done")
            /\ UNCHANGED <<stack, lock, last, conn, net, got>>

Stop == StopShutdown \/ StopExit \/ StopJoin

Network == Answer \/ Junk \/ Fail \/ Silence \/ (\E r \in Readers : ReceiveAudio(r))
Next == \/ Connect \/ Lose \/ Network
        \/ Control \/ Ping \/ App \/ StopBegin \/ Stop
        \/ \E s \in Syncs : Sync(s)
        \/ \E l \in Listeners : Listen(l)

Spec == Init /\ [][Next]_vars

(***************************************************************************)
(* The threads run, the clock goes on and the timer fires; whoever waits   *)
(* for _crypt_lock gets it once it is free, the senders being paced.  The  *)
(* network, the server and the application owe nothing.                    *)
(***************************************************************************)
Fairness ==
    /\ WF_vars(Silence) /\ WF_vars(Ping) /\ WF_vars(SendPacket("app"))
    /\ WF_vars(CryptSetup) /\ WF_vars(Stop)
    /\ \A s \in Syncs : WF_vars(Sync(s))
    /\ \A l \in Listeners : WF_vars(Listen(l))

FairSpec == Spec /\ Fairness

(***************************************************************************)
(* Properties.                                                             *)
(***************************************************************************)
ReaderLabels == {"off", "recv", "recv3", "received", "enable", "start"}

Labels(t) ==
    CASE t = "control" -> {"idle", "crypt", "dead"}
      [] t = "ping"    -> {"idle", "send", "age", "dead"}
      [] t = "app"     -> {"idle", "send"}
      [] t = "stop"    -> {"idle", "shutdown", "exit", "join", "done", "raised"}
      [] t \in Syncs   -> ReaderLabels \cup {"begin", "send"}
      [] OTHER         -> ReaderLabels \cup {"new", "check"}

AllLabels == UNION {Labels(t) : t \in Threads}

PcOK == pc \in [Threads -> AllLabels] /\ \A t \in Threads : pc[t] \in Labels(t)

(* The type invariant of the voice channel. *)
TypeOK ==
    /\ active \in BOOLEAN /\ exit \in BOOLEAN /\ blocking \in BOOLEAN /\ shut \in BOOLEAN
    /\ stale \in BOOLEAN /\ connected \in BOOLEAN /\ synced \in BOOLEAN /\ up \in BOOLEAN
    /\ listener \in Listeners \cup {None}
    /\ crypt \in Threads \cup {None} /\ last \in Threads \cup {None}
    /\ key \in {"none", "old", "good"}
    /\ session \in 0..Sessions /\ outages \in 0..Outages
    /\ asked \subseteq {"pong", "old", "junk"} /\ inbox \subseteq {"pong", "old", "junk"}
    /\ got \in [Threads -> {"pong", "old", "junk", "key", "nonce", "request", None}]
    /\ PcOK

Harmless == Events \cap {"junk", "late", "stop", "early", "tcp"} = {}

(* _crypt_lock is left behind only if something undecryptable, be it from an
   earlier connection, or a stop() meets _sync, the timer fires before the key
   is there, or the control channel breaks under crypt_setup; a lost answer,
   one to an earlier ping, a reconnect or an error of sendto never does it. *)
LockNeverLeft == Harmless => LockFree

(* The inductive invariant behind LockNeverLeft.  Without a key nobody sends
   and nobody reads; without the key of this connection nothing is on its way,
   so that a new key makes nothing undecryptable. *)
KeyFirst == key = "none" => /\ ~active /\ pc["ping"] # "send" /\ pc["app"] # "send"
                            /\ \A r \in Readers : pc[r] = "off"

NoJunk == /\ "junk" \notin asked \cup inbox
          /\ \A r \in Readers : got[r] # "junk"
          /\ key # "good" => asked = {} /\ inbox = {} /\ \A r \in Readers : got[r] = None
          /\ got["control"] = "key" => key # "good"

Undisturbed == LockFree /\ KeyFirst /\ NoJunk /\ ~shut /\ pc["stop"] = "idle"

IInv == TypeOK /\ (Harmless => Undisturbed)

Going == connected /\ pc["stop"] = "idle"

(* When UDP stops working, voice goes back to the TCP tunnel, as long as the
   connection lasts (README.md line 17). *)
VoiceFallsBack == ~up /\ Going ~> ~active \/ ~Going

(* A voice packet that is being sent is sent, whoever else pings, decrypts or
   sets a key meanwhile: the voice thread does not stay in send_packet. *)
VoiceNotBlocked == pc["app"] = "send" ~> pc["app"] = "idle" \/ pc["stop"] # "idle"

(* stop() comes to its end, and with it every thread that listens, also those
   it does not join; none listens again. *)
Silent == pc["stop"] \in {"done", "raised"} /\ \A l \in Listeners : pc[l] \in {"off", "new"}
StopEndsListeners == pc["stop"] = "shutdown" ~> []Silent
=============================================================================
