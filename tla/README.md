# pymumble-typed in TLA+

TLA+ models of pymumble-typed, a client library for Mumble voice servers, with
TLC runs on small instances and TLAPS proofs for all instances.

Paths below are relative to `src/src/pymumble_typed/`.

## The system

A `Mumble` object owns a TCP control channel (`ControlStack`), a UDP voice
channel (`VoiceStack`), a ping timer shared by both, the roster of users and
channels the server describes, a cache of their comments and pictures, and the
callbacks of the application.

| component | state | operations | talks to |
|---|---|---|---|
| ControlStack (`network/control.py`) | `status`, `_disconnect`, `_ready` lock, `msg_queue`, `socket`, `receive_buffer`, `backoff`, thread `ControlStack:Loop` and per session `Control:Listen`, `Control:Send` | `connect`, `loop`, `_listen`, `_send`, `send_message`, `_tcp_failed`, `send_command`, `enqueue_audio`, `is_ready`, `disconnect`, `reauthenticate`, `reinit` | dispatcher (callback per message), Ping, server |
| Mumble (`mumble.py`) | `_ready`, settings, bandwidth | `start`, `stop`, `execute_command`, `is_ready`, `_dispatch_control_message` | everything below; runs on `Control:Listen` |
| Ping (`network/ping.py`) | statistics, one `RepeatTimer` thread | `start`, `cancel`, `reset`, `send` | ControlStack (`send_message`), VoiceStack (`ping`, `active`) |
| VoiceStack (`network/voice.py`) | `active`, `exit`, `check_connection`, `_crypt_lock`, `last_ping`, UDP socket, a listener thread per activation, a `_sync` thread per ServerSync | `crypt_setup`, `sync`, `ping`, `send_packet`, `_listen`, `enable_udp`, `stop` | OCB2, ControlStack (`enqueue_audio`), encoder (protocol switch) |
| CryptStateOCB2 (`crypto/ocb2.py`) | key, `encrypt_iv`, `decrypt_iv`, `decrypt_history`, counters | `encrypt`, `decrypt`, `set_key` | called by VoiceStack, read by Ping |
| Users, Channels (`users.py`, `channels.py`) | maps by session and by id, `myself` | `handle_update`, `remove`, `set_myself`, blob requests | BlobDB, Callbacks, `execute_command` |
| BlobDB (`blobs.py`) | two SQL tables | update, get, is-updated, each under a lock | SQLite |
| Callbacks (`callbacks.py`) | registered and active functions | `ready`, `dispatch` | thread pool |
| VoiceOutput, Encoder (`sound/`) | PCM buffer, sequence clock, codec settings | `add_pcm`, `send_audio` | VoiceStack (`send_packet`) |
| ACL (`acl.py`) | groups and entries of a channel, a lock | `update` | called by the dispatcher |
| VarInt, commands, messages, UDP packets | values only | encode, decode | |

What is hard here: six threads and the callers share `status`, `_disconnect`,
one lock used as a gate and one TLS socket, mostly without synchronisation;
sends fail in four different ways and are retried through the queue they came
from; sessions end and begin again under the threads of the old one; the UDP
side adds its own threads, a lock around the cipher, and a peer whose packets
are lost, reordered and duplicated.  `PROJECT.json` lists each such hazard at
its line.

What makes each part correct:

* ControlStack: an item handed to the queue reaches the server at most once and
  is lost only with the transport; the gate of `is_ready()` is open while the
  client is announced as connected; `on_connect` is not repeated without `on_disconnect`;
  the socket is replaced only between sessions; `stop()` stops.
* OCB2: a datagram is accepted at most once and under the nonce it was sent
  with; the counters balance.
* VoiceStack: no thread is blocked for ever on the crypt lock, voice falls back
  to TCP when UDP fails (both unless a datagram of another key is read, see
  `voice_stuck`), `stop()` ends every listener.
* Roster (Users, Channels, BlobDB, Callbacks): who is in the maps and where is what
  the server has, and so are the hashes of long texts; `myself` is in the map, every
  user who comes or goes is reported, the cache never keeps a long text under the
  hash of another, and long texts that are missing are asked for.
* Receive buffer: the messages dispatched are those of the current connection,
  whole and in order, however TCP cuts the stream.
* VoiceOutput: sequence numbers grow and stay near the clock, what is sent is
  what was handed over in that order, `add_pcm()` comes back unless what it sends
  through stays clogged; VarInt: decode inverts encode; a received frame is heard as it was sent.
* ACL: the groups of a channel are those the server last sent, as long as no entry
  has had their name.

## Modules

| module | what it is |
|---|---|
| `CommandPipe` | abstract specification: the life of an item handed to the control channel |
| `ControlStack` | the control channel, all its threads, the ping timer, the callers and the server |
| `ControlStackProps` | its type invariant, safety, refinement and liveness properties; the inductive invariant |
| `ControlStackProofs` | TLAPS proofs |
| `Ocb2`, `MCOcb2` | the nonces, history and counters of the packet cipher; the instance TLC checks |
| `Ocb2Proofs` | TLAPS proofs |
| `VoiceStack` | the UDP channel: its listeners, `_sync` threads, the lock, the ping timer, `stop()` |
| `VoiceStackProofs` | TLAPS proofs |
| `MCControl` | the instance of `ControlStack` for `control_reconnect` |
| `MessageStream` | abstract specification: the messages of each connection in order, without a gap |
| `FrameReader`, `MCFrameReader` | the receive buffer of the control channel; the streams TLC checks |
| `FrameReaderProofs` | TLAPS proofs, the refinement of `MessageStream` among them |
| `VarInt` | `encode` and `decode` as operators |
| `VoiceInput`, `MCVoiceInput` | a legacy voice packet, written by one client and read by another; its instance |
| `VoiceInputProofs` | TLAPS proofs, that `decode` inverts `encode` among them |
| `VoiceOutput` | the PCM buffer, the sequence clock and the pacing of `send_audio` |
| `VoiceOutputProofs` | TLAPS proofs |
| `Acl`, `AclProofs` | the access control lists of a channel; TLAPS proofs |
| `MCDatapath` | one instance of `Ocb2`, `FrameReader`, `VoiceInput`, `VoiceOutput` and `Acl` |
| `Roster`, `MCRoster` | users, channels, their cache and callbacks, as the server's messages build them; the symmetry TLC uses |
| `RosterStory` | what the messages on their way tell of each session and channel, and what is missing: the rest of the invariant of `Roster` |
| `RosterProofs` | TLAPS proofs |

The components meet at few points, and each is modelled on one side and left
free on the other.  `ControlStack` decides when a session begins and ends, and
when `Control:Listen` handles a message; `VoiceStack` and `Roster` take
connections, losses and messages as actions of their environment (`Connect`,
`Lose`, `CryptMessage`; `Connect`, `Disconnect`, `inbox`).  `Ocb2` is what
`VoiceStack` abstracts to "decrypts" or "is junk".  Blob requests that `Roster`
makes are `Requests` in `ControlStack`.  `FrameReader` is the inside of the steps
`Recv` and `Drained` of `ControlStack`, which sees whole messages only; its `Connect`
and `Fail` are the steps there that clear the buffer and end `Control:Listen`.  A
packet that `VoiceOutput` sends is an item of `Audio` in `ControlStack` or a datagram
in `Ocb2`; its numbers are what `VoiceInput` writes and reads with `VarInt`.

### ControlStack and the code

Each thread has a label in `pc`; an action is the code from one access to
shared state to the next, so every place where another thread may intervene is
a state.  `main` runs `start()` and its `connect()`, `loop` runs
`ControlStack.loop`, `listen` and `send` the two session threads, `ping` the
timer, `stop` one call of `Mumble.stop()`.  A member of `Commands` is one call
of `execute_command` (gate, then put), a member of `Audio` one voice packet sent
over TCP, a member of `Direct` one call of `reauthenticate` or `request_blob`,
which send past the queue.  `Requests` are blob requests the ServerSync handler
puts.  Variables carry the names of the attributes; `locked` is `_ready`,
`held[t]` is the item a thread has in hand between the queue and the socket,
`announced` is "on_connect dispatched, on_disconnect not yet", `submitted` and
`delivered` are history.

`SendMessage` models `send_message` with its four outcomes: sent, SSLError or
timeout (requeue), broken pipe (give up), any other OSError (raised to the
caller, which for a thread means its end).  What the socket may answer depends
on its state: a server that closed (`lost`) is seen by `recv` as an empty read,
the next send draws a reset, which is reported once.

Abstractions: a message is sent or not sent as a whole; `recv` delivers whole
messages (the receive buffer is module `FrameReader`); the ping
thread stands for the current timer and for a cancelled one that is already in
`send()`; waiting times (backoff, `sleep`, the `join(timeout)` of `disconnect`)
are any finite time; a send of 0 bytes is treated as SSLError, which does the
same.  The 20 places of the queue, the limit 60 of the backoff and the number of
connections are the constants `QueueSize`, `MaxBackoff`, `MaxEpoch`; only
`MaxEpoch` restricts what the program could do.  `reinit()` is not modelled.

### Ocb2 and the code

A nonce is `[hi, lo]`: `lo` is `decrypt_iv[0]`, the byte that travels with a
packet, `hi` the little-endian number in the other fifteen.  `Encrypt` is the
peer's `encrypt`, `Decrypt(p)` one accepted call of `decrypt`; a refused packet
restores `decrypt_iv` and changes nothing, so it is no action.  `Candidate` is
the nonce the branches of lines 99-146 arrive at, `Forward` and `Late` their
conditions, `InHistory` the test against replays, `Lost`, `NewIv`, `NewHistory` the
updates at the end.  `SetKey` and `Resync` are `CryptSetup` with and without a
key.  `net` is a set from which nothing is removed: datagrams are lost, late,
reordered and repeated at will.  The tag check is abstract: it succeeds for the
key and nonce the packet was made with and for no other.  `Base`, `Half`,
`Window` are 256, 128, 30 in the code.

### VoiceStack and the code

Labels in `pc` as in `ControlStack`.  `s \in Syncs` is the thread `sync()` starts
for a ServerSync, `l \in Listeners` one `enable_udp()` starts; a pool of them
bounds how many can be alive at once (a thread that ended may be reused).
`crypt` is set only when an exception between `acquire` and `release` leaves
`_crypt_lock` held: every other critical section is one step.  `SendPacket` is
`send_packet` with a shut socket (`exit`), an error it does not catch, and a
missing key; `HandlePing` is the decryption and `_handle_ping`, which raises for
any answer but that to the last ping, since `PingStats` has no attribute `lost`.
Datagrams are `"pong"`, `"old"` (an answer to an earlier ping) and `"junk"` (does
not decrypt); a new ping makes every `"pong"` old, a new key makes everything on
its way junk.

### Roster and the code

The dispatcher runs on `Control:Listen` alone, so one message is one step
(`HandleVersion` ... `HandleServerSync`), with every call it makes:
`HandleUserState` contains `User.__init__` (`NewUser`, `NewDb`) or `User.update`
(`UpdateUser`), the blob request that follows (`Asked`), the row of `BlobDB` it
writes (`Cleared`, `DbWith`) and the callback (`view`).  `db` and `roomDb` are the two
tables, with `"null"` where SQL has NULL: a row made for the comment has no texture.
`Updated` is `is_comment_updated` and `is_avatar_updated`.  `view` is the set of sessions an
application knows of that takes the map in `on_connect` and then follows
`on_user_created` and `on_user_removed`.

The server is external.  It lists channels and users between Version and
ServerSync, sends changes in the order they happen, and answers `RequestBlob` with
what it has by then.  A short text or picture comes inline and without a hash, at
login and in a change, a long one by its hash.  Any channel may get short and long
descriptions in turn; `Terse` people may have short blobs, `Faceless` ones no picture,
and everybody may have no comment.  A user is moved by himself or by another, whom
`HandleUserState` looks up (`Stranger`).  Of a user `channel_id` stands for all fields that are copied alike, of a channel
its description.

### FrameReader and the code

A byte is where it was sent: connection and place in its stream.  `Edge[c][m]` is
where the first `m` messages of connection `c` end, so that a message is its six
bytes of header and what follows.  `Recv(n)` is one `recv` of any length up to
`READ_BUFFER_SIZE`, zero at the end of a stream; `Dispatch` one turn of the loop of
`_read_control_messages`, after which the handler may raise and end the thread;
`Drained` the end of that loop.  What `unpack` makes of six bytes that are no header
is any size in `Misread`: this cannot happen, which is part of what is proved, but
the model does not assume it.  `last` and `done` are history.

### VarInt, VoiceInput and the code

A VarInt is a sign and the eight bytes of its magnitude, since TLC's integers have
32 bits; the code's integers have no limit, `pack` raises above 64 bits.  `Width` has
the limits of `encode`, `Needed` and `Bits` the branches of `decode`.  `LegacyPacket` is
`AudioData.legacy_udp_packet` with the session the server adds; `ReadHeader`,
`ReadFrame` and `Handled` are `_legacy_sound_received`, `LenOfObject` the guard of its loop
after a frame was heard, when `packet` has become an `OpusPacket`.  What the code tests with
masks is arithmetic here (`Low16`, `Bits`).

### VoiceOutput and the code

One thread calls `add_pcm`; `speaker` is where it is.  `AddPcm` is the call up to
`send_audio`, `Check`, `TakeNumber`, `Fill`, `TakeFrame`, `SendPacket`, `Wake` are the
steps of `send_audio` between two looks at something another thread may change:
the buffer (`ClearBuffer`), the duration of a packet (`SetDuration`), the connection.
`SendPacket` is `send_packet` of `VoiceStack`, which waits while `_crypt_lock` is held or
the queue of the control channel is full: both are the variable `clogged`, which the
environment sets and clears (`Clog`) for a time or for good.  `SendRaises` is the
error of `encrypt` or `sendto` that ends the call.  `AddPcm` puts the frames of a burst in
one step, so that neither `clear_buffer()` nor a new duration comes between two
puts.
Time is an integer; `SequenceDuration`, `ResetInterval`, `BufferTime` are 10 ms, 5 s
and 2 s in the code, `Durations` 2.5 to 60 ms.  A sample is one tick of sound, so that
a frame of a packet of `d` ticks has `d` samples; samples are numbered as the
application hands them over.  `Rounded` is Python's `round`, which sends a half to
the even side.  The encoder itself turns a frame into bytes and is left out.

### Acl and the code

`Update(m)` is `ACL.update` with a whole ACL message.  `self.acls` is never written
(`acl.py:89` stores a new entry in `self.groups`), so it is no variable: the lookup of
line 87 fails always.  A group of a later message that finds an entry calls
`ChannelACL.update`, which asks a `ChanGroup` for a field it does not have: the
ValueError leaves the lock held and ends `Control:Listen`.

Mutants (definitions whose comment begins with "Mutant of") are plausible bugs;
they are used only to see that the properties notice them.

## Runs

| run | bounds | what it shows |
|---|---|---|
| `control_oneshot` | 1 command, no reconnect, queue 5, loss of the connection, end of the parent thread, at most 2 sockets | the inductive invariant; the gate stays shut until the first ServerSync; one connection without the reconnect option; `stop()` ends the loop; a command past the gate arrives |
| `control_reconnect` | 1 command, reconnect, 2 sockets, queue 2, loss and timeouts; in the first session also 1 voice packet, 1 call past the queue, 1 blob request, raising handlers, nonce requests | types and queue bound; the gate is open while connected, `on_connect` is not repeated, the socket is replaced only between sessions, `ControlStack` implements `CommandPipe`, for commands through requeues and with five threads sending on one socket |
| `ocb_window` | cipher: 3-bit nonce byte, window 3, two keys, 9 + 2 packets, 1 resync; reader: 2 connections with 4 and 3 messages; voice received: 3 sessions, 3 numbers, up to 2 frames; voice sent: 2 bursts of 3 samples, packets of 1 and 2 ticks, 6 ticks of pauses; lists: 2 names, 2 members | cipher: replays are refused, `decrypt_iv` is the highest nonce, the counters balance, the history is exact, packets inside the window are taken; reader: `FrameReader` implements `MessageStream` and keeps nothing back; voice received: what is heard is what was sent; voice sent: numbers grow and follow the clock, frames in order, `add_pcm()` returns unless it stays clogged; lists: groups as sent where no entry had the name |
| `voice_fallback` | 2 connections, 2 `_sync` threads, 3 listeners, voice both ways, nonce-only CryptSetup | the lock is never left behind, no sender is stuck, voice falls back to TCP |
| `voice_stop` | 1 connection, 1 outage, everything that can raise | types; `stop()` and all listeners end |
| `roster` | 2 connections, 2 people with 2 session numbers, one of them `Terse` and `Faceless`, 2 channels, 2 long texts and a short one, 3 changes, server at most 2 messages ahead | maps, `myself`, callbacks, requests and cache agree with the server |

Six runs show disagreements between the code and what it, or the protocol it implements, says:

| run | what happens |
|---|---|
| `stop_lost` | `connect()` clears `_disconnect`, which a `stop()` on another thread may just have set |
| `requeue_stuck` | `Control:Send`, the only consumer of `msg_queue`, puts a failed message into a full queue |
| `failure_masked` | ServerSync overwrites the FAILED of a send that failed between its test and its assignment |
| `loss_unnoticed` | after an end of stream nothing fails, the ping thread dies, and the age test compares seconds with 60000 |
| `voice_stuck` | `_sync` reads a datagram of the previous key, `decrypt` raises and `_crypt_lock` stays held |
| `voice_deaf` | the frame loop of a legacy voice packet overwrites the packet it reads, and a TypeError ends the reading thread |

`control_reconnect` holds two sets of behaviours (`MCControl`): `ExtrasApart`, its
CONSTRAINT, keeps the voice packet, the direct call and the blob request away from
commands, lost peers and second connections, and `FaultsWithExtras`, its
ACTION_CONSTRAINT, keeps raising handlers and nonce requests to them.  All of them
together are too many states; commands and extras meet only in the queue, which
treats them alike.  No liveness property is checked under these constraints.

`roster` has such a constraint too: under `Apart` (`MCRoster`) either comments and
pictures change or descriptions do.  They are kept in different tables and different
maps and meet in `inbox` and `pending` only.  The proofs have no such constraint.

`voice_fallback` leaves out two things after which voice does not fall back: datagrams
that do not decrypt (`voice_stuck` shows what they do), and an error of `sendto` that is
not caught (`voice.py:117-125`, `"unreachable"` in `VoiceStack`), which ends the ping timer
before its age test.  `LockNeverLeft` is stated, and proved, for `Harmless` events: they
exclude datagrams that do not decrypt (`junk`, `late`), use of the cipher before the first
key (`early`), a `stop()` beside `_sync` (`stop`), and an error of the control channel
under `crypt_setup` (`tcp`).  `loss_unnoticed` has
the server's reset reach the ping thread; where the system reports EPIPE to a later
send instead, that send sets FAILED.

`ocb_window` checks five parts in one state space: `part` names the one that moves
and never changes.  They share no variable and no property, so nothing is lost by
not interleaving them.

Observed in `VoiceOutput` and not claimed by any property: packets of 2.5 and 5 ms
round to no sequence number, so that numbers repeat and, since the number is also
the clock, the packets go out unpaced; what is left of a burst is discarded by
almost every later call, because `add_pcm()` comes back a packet after
`_sequence_last_time` and the test of line 40 allows no more; frames that were in
the buffer when the connection ended are played after the next `add_pcm()`; a `clear_buffer()` or an error that ends a call leaves the clock a packet ahead.  Around it, not
modelled: `_update_encoder` makes an encoder without the bitrate, and a new packet
duration does not set it anew (`encoder.py:26`, `:89`); lines 340-341 of `mumble.py`
take every frame but a terminator for the last one of its packet; a UDPTunnel
message with `sound_receive` off is parsed as protobuf (`mumble.py:205`).

Observed in `Roster`, and what its properties say of it:

* `Channel.__init__` overwrites a short description, sent inline at login, with what
  `BlobDB` has, whatever the hash of that, and without a hash it requests nothing
  (`channels.py:42-43`).  `NothingForgotten` claims nothing of channels whose
  description at the server is short.
* A short text that replaces a long one comes without a hash: the object keeps the old
  hash, and the text is stored under it (`channels.py:94-101`; `users.py:129-136`,
  `:141-149`).  `MapsAreServers` claims nothing of the hash beside a short text;
  `CacheTrue` allows a short text under the hash of a long one, and nothing worse.
  When the long text comes back a channel does request it, which
  `NothingForgotten` does claim; a user does not (next point).
* Any comment counts as the one of a new hash (`users.py:71`), so that a second long
  comment is not requested.  `NothingForgotten` speaks of users with a hash and no data
  at all, and of `Terse` people not at all.
* A user without a picture who comes again loses the comment: the row was taken for up
  to date and then cleared (`users.py:43`).  `NothingForgotten` excludes the comments of
  `Faceless` people.
* After a reconnect, until ServerSync, `myself` may become a stranger who got our old
  session number (`users.py:296`).
* `get_user_texture` raises on a NULL column, which ends `Control:Listen`
  (`blobs.py:114`), the state `~alive` in which the invariants claim nothing.

### Bounds

`MaxEpoch`, `Sessions`, `Connections` bound reconnects.  Two are enough for
what a session can leave behind (a lock, an item, a datagram, a map, a session
number): every connection is entered with the same code and the state it finds
is that of the one before.  `MaxBackoff` is the 60 of the code, `QueueSize` its 20;
a queue of 1 or 2 fills, one of 5 never does in the runs that use it.  In `Ocb2` the
byte has 3 bits in place of 8, with the window and half in proportion; 9 packets
pass its wrap, and the proofs cover 8 bits.  In `VoiceStack` three listeners are
enough: with three a reader that wants to start one always finds one free (two are
not enough).  `Events` and `Faults` say what the environment may do; they are split
over the runs to keep each small.  In `Roster` one `Lag` bounds how far the server
runs ahead of the client: dispatching a message commutes with a change at the
server, so that longer queues only repeat what shorter ones show, except for the
listing of a new connection, which is not bounded.  `News` 3 lets the other user leave,
come back, and set a comment, with the numbers of both swapped by a reconnect; it lets a
channel go from a long text to a short one and back.  Sessions are interchangeable, and so are
long blobs, which `MCRoster` uses as symmetry (only invariants are checked there).

`FrameReader` has messages without content, of one byte, and of more than one `recv`
returns, so that a header and a message can be cut at each byte, and two
connections for what the first leaves in the buffer; its proofs have no bound.  In
`VoiceInput` the numbers are at the limits of the one-, two- and three-byte forms and
above 32 bits, the lengths 0, 1 and 130 have VarInts of one and two bytes; the
theorem `RoundTrip` covers all numbers.  In `VoiceOutput` a number counts two ticks, so
that packets of one tick are the code's 5 ms and those of two its 10 ms; a capacity
of one or two frames is full after one burst of three samples; `MaxTime` leaves room
for a silence of `ResetInterval` and for pauses of each length before and after it
(the sleep that is under way may end later).  `Acl` is not bounded.

Deadlock is not checked: a client that was stopped, or lost its connection
without the reconnect option, stands still, and so does a model at its bounds.

### Fairness

`ControlStack`: weak fairness of each thread.  Each waits only in `recv`, `send` and
`queue.get` with a timeout, in `sleep`, or for a lock or a thread the model
contains; a `put` into a full queue and a `join` block in the model as in the
code.  `VoiceStack`: the same, for the clock (`Silence`) too; a thread that waits for
`_crypt_lock` gets it once it is free, since the timer and the voice encoder pause
between packets.  `VoiceOutput`: weak fairness of the steps of the calling
thread, which waits in `sleep` and in `send_packet`, and of the clock; that
`send_packet` goes through in the end is the condition of `CallReturns`, not assumed.  Nothing is assumed of the
network, the server, the application or the caller of `stop()`, `clear_buffer()` or
`audio_per_packet`.

## Proofs

All theorems hold for every value of the constants that satisfies the named
assumptions (names are distinct, bounds are numbers, people and channels are
finitely many, `Base = 2 * Half`, `Window <= Half`, a length fits the 13 bits it has
in a packet, a packet is a whole number of sequence numbers long or at most half of one, an
`OpusPacket` is no string of bytes, the marks `"unset"` and `"null"` are
no blobs).

* `ControlStackProofs`: `Invariance` (`Spec => []IInv`), from it `TypeCorrect`,
  `GateCorrect`, `AnnouncedCorrect`, `SocketCorrect`, `FirstSessionGate`, `ConnectsOnce`.
  `IInv` adds to the types what
  a thread holds where (`HeldOK`), that session threads exist only while `loop`
  joins them (`SessionOK`, without which the socket and announcement properties
  are not inductive), and that `on_connect` belongs to a synchronised session
  (`AnnouncedOK`).  `FirstGateOK` says who can have released the gate of the first
  session: the server has synchronised it, or a session thread has come to its end
  and `loop` is about to take the gate again.  `OneShotOK` says that without the reconnect
  option the guard of `loop` fails after the first session, because whatever ends
  `Control:Listen` leaves CONNECTED, FAILED or `_disconnect` behind.  A handler that raises
  (status AUTHENTICATING stays) and a send past the queue (FAILED just before the guard's
  second test) do not: there TLC finds a second connection, and `OneShot` excludes them.
  `Refinement`: `ControlStack` implements `CommandPipe` under the mapping `Fate`.  It needs
  that no item is in two places at once (`OnePlace`: two entries of the queue, two hands,
  a hand and the queue, or still with its caller), and this in turn that a hand is full
  only between the queue and the socket or on the way back (`HandsOK`).  Each thread has
  a lemma for the two, and `PipeStep` shows of each action which step of `CommandPipe` it
  is, if any.
* `Ocb2Proofs`: `Invariance`, `TypeCorrect`, `HighestNonce`, `LostIsExact`,
  `HistoryExact`, `NoRepeats`, `WindowOpen`.  The lemmas turn the byte arithmetic of
  `decrypt` into distances between nonces (`CandidateValue`: what is tried is less
  than half ahead or less than the window behind; `SameByte`: two such nonces
  with one byte are equal).  `NoRepeats` needs `Remembered`, the exactness of the
  history, and that in turn `NonceIsHighest`.
* `VoiceStackProofs`: `Invariance`, `TypeCorrect`, `LockCorrect`.  That the lock is
  free is not inductive: one needs that nobody sends or reads before the first
  key (`KeyFirst`) and that nothing is on its way when a new key comes
  (`NoJunk`); both hold where the events are `Harmless`.

* `FrameReaderProofs`: `Invariant`, `BufferAlwaysRest`, `NeverKeptBack`, `Refinement`.  The
  invariant says that the buffer is the piece of the stream from the end of the last
  message to the last byte received.  `OneHeader`: the first six bytes of such a
  piece are the header of one message and of no other, since bytes of different
  places differ and messages are at least six bytes apart; so `Wanted` is its length
  and `Cut` leaves again such a piece (`CutPiece`).  With `NextMessage` each `Dispatch` is
  the step `Dispatched` of `MessageStream`, and the other steps stutter or connect.
* `VoiceInputProofs`: `RoundTrip`, by the width of the number: what `encode` writes has a
  first byte from which `decode` takes the branch of that width (`Needed`), and the
  marks it adds are what `Bits` takes away.  From it `VoiceHeardAsSent` and
  `FirstFrameIsHeard`, by the invariant `InputInv` of `VoiceInput`: until a frame is heard the
  reader has passed whole, empty frames of the packet, so that it stands at the
  beginning of a frame, at the end of the payload, or has taken the zeros of the
  positional data for a terminator (`AtFrame`).  `HeaderRead` and `ReadsFrame` say what the
  reader makes of a packet at such a place, `ReadsZeros` what it makes of what follows the last
  frame; after a frame is heard the packet is gone and nothing more is read.
* `RosterProofs`: `TypeCorrect`, `MyselfIsMapped`, `CallbacksTell`, `MapsCorrect`,
  `BlobsAreRequested`, `CacheIsTrue`.  `MyselfIsMapped` and `CallbacksTell` need the
  order of what is on its way: a Version is followed by a ServerSync, and that is about
  the session we have (`InOrder`); while a ServerSync is to come, our own user is in
  the map or listed between the two (`MeListed`).  `SyncedOK` is then kept by every
  message that is neither of them (`StillSynced`).  One lemma (`Appended`) covers all
  changes and answers of the server, one (`Rest`, `ListedKept`) taking a message.
  The other three rest on a second invariant, `JInv` (`RosterStory`).  For each session and each channel the
  messages in `inbox` tell a story (`Leads`, `LeadsRoom`): applied one after the other to what
  the client knows they end in what is true at the server, and each fits the point
  where it comes (a removal finds somebody, a change finds the person it is about).
  `Agrees` is what the client's map has in common with such a fact: all of it, but for
  the hash beside a short text.  `ActorsKnown` says that whoever moves somebody is in the
  map by then, so that `handle_update` takes nobody for new who is not, and `OneSession`
  that a person has one session at a time, which row and object then share.  A step
  of the server adds an end to a story, a handler takes its beginning, and with
  an empty inbox what is known is what is true: `MapsCorrect`.  `DataOK` says that
  rows of `BlobDB` have their own long text or a short one (`CacheIsTrue`), and that of
  the blobs that are `Claimed` none is short; it needs the stories, since a handler
  stores a text under the hash the user has at that moment.
  `MissingSeen` and `MissingAsked` are the blobs of users that are not there yet, before
  and after ServerSync: between Version and ServerSync nothing is stored (`ListingOK`), so
  what ServerSync finds missing is all there is.  `TextInv`, a third invariant that rests on
  the first two, says it of descriptions, which a new channel requests only after
  the first ServerSync (`ready`): before it each channel is listed once (`ListedOnce`)
  and nothing is stored (`NothingStored`), so that ServerSync asks for everything; after
  it a channel that has the hash of the server's long description and shows another text is
  asked for (`LongAsked`).  `BlobsAreRequested` follows from the three.
* `VoiceOutputProofs`: `OutTypeCorrect`, `NumbersAlwaysGrow`, `FramesSentInOrder`,
  `NumbersNearClock`.  The number
  computed from the clock after a pause is not below the one counted so far because
  `lastTime` is always the time of the number (`TimeOfNumber`), and rounding never goes
  below the quotient (`RoundedAtLeast`).  `Sorted` lays out what was sent, the packet at
  work, the buffer and the rest one after the other in the sound handed over.
  `Paced` bounds how far the time of the number is ahead of the clock at each place of a
  call: by the calls that ended before their sleep, and by a packet more
  from its number to the end of its sleep.  Rounding misses by half of what a number
  counts (`RoundedNear`), and the numbers a packet takes last no longer than it
  (`DurationRounded`), since the encoder accepts 2.5, 5, 10, 20, 40 and 60 ms only
  (`NumbersAssumption`).
* `AclProofs`: `GroupsTrue`, `EndsOnlyByName`, by the invariant that what is stored
  under a name is an entry exactly if an entry of that name has come.

Model-checked only, besides what the violation runs show: the liveness properties `StopTerminates`, `CommandReachesServer`,
`VoiceFallsBack`, `VoiceNotBlocked`, `StopEndsListeners` and `CallReturns` (TLAPS does not
do fairness).

## Not modelled

Opus, `SQLite`, TLS, the thread pool (external); protobuf bindings, enumerations
(generated or constant); commands and messages, which copy their arguments into
a protobuf message and keep no state; `reinit()`, a second `ControlStack` object that
shares the `Ping` of the first; sends in several pieces, which would let two
messages mix on the wire and misalign legacy audio (`control.py:186`, `:240`); the
race of the listener's unlocked `decrypt` with `crypt_setup` (`voice.py:136`), for which
`Ocb2.Decrypt` would have to become two steps with another invariant; protocol-switch
listeners, bitrate and other settings of the encoder; `on_user_updated` with the actor
it is told, links of channels, text and permission messages, which go to callbacks as
they are; ping
packets of the UDP protocol and its protobuf form.  Smaller omissions: a reader of
`VoiceStack` goes on after voice it received (that a legacy frame ends it is in
`VoiceInput`), the TCP half of a ping that comes before the UDP one never raises there
(it does in `ControlStack`), and in `FrameReader` a new `Control:Listen` starts with a new
connection only, while `loop` may start one on the old (`control.py:281`).
`PROJECT.json` has the reason
for each component.
