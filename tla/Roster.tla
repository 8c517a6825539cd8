-------------------------------- MODULE Roster --------------------------------
(***************************************************************************)
(* Users, Channels and BlobDB as the messages of the server build them:    *)
(* users.py, channels.py, blobs.py, the roster cases of                    *)
(* Mumble._dispatch_control_message and the callbacks about users.  The    *)
(* dispatcher runs on Control:Listen alone, so one message is one step;    *)
(* what can interleave is the server, the requests for comments, pictures  *)
(* and descriptions ("blobs") with their answers, and the connections.     *)
(* Of the fields of a user channel_id stands for all that lines 99-124     *)
(* copy alike, of a channel its description.                               *)
(***************************************************************************)
EXTENDS Naturals, Sequences, FiniteSets, SequencesExt

CONSTANTS People, Me, SessionIds, ChannelIds, Root,
          Blobs,        \* texts and pictures
          Short,        \* those the server sends as they are, without a hash
          Terse,        \* people who may have short blobs
          Faceless,     \* people who may have no picture
          None,
          Greedy,       \* blob_greedy_update
          Connections,  \* bound: connections in one behaviour
          News,         \* bound: changes at the server
          Lag           \* bound: messages on their way when the server changes or answers

ASSUME RosterAssumption ==
    /\ Me \in People /\ Root \in ChannelIds /\ Short \subseteq Blobs
    /\ Terse \subseteq People /\ Faceless \subseteq People
    /\ None \notin People \cup SessionIds \cup ChannelIds \cup Blobs
    /\ Greedy \in BOOLEAN /\ {Connections, News, Lag} \subseteq Nat
    /\ IsFiniteSet(People) /\ IsFiniteSet(ChannelIds)

\* The marks for a field that is not set and for NULL are no values.
ASSUME MarkAssumption ==
    {"unset", "null"} \cap (Blobs \cup ChannelIds \cup SessionIds \cup {None}) = {}

Kinds == {"comment", "texture"}
Long  == Blobs \ Short

VARIABLES
    (* the server *)
    online,     \* online[p]: the session of person p, or None
    place,      \* place[p]: the channel p is in
    blob,       \* blob[p][k]
    rooms,      \* rooms[c]: is the channel there, and its description
    news,
    (* the connection *)
    up, connections,
    inbox,      \* messages on their way, in order
    pending,    \* requests on their way; a repeated one is answered once
    (* the client *)
    users, channels,
    myself,     \* the session of users.myself, None for None
    attached,   \* users.myself is the object in the map
    mySession,  \* _myself_session
    ready,      \* Mumble._ready, and with it the callbacks
    db, roomDb, \* the rows of BlobDB
    alive,      \* Control:Listen runs
    view        \* the sessions the application knows of from its callbacks

server == <<online, place, blob, rooms, news>>
roster == <<users, channels, myself, attached, mySession>>
vars   == <<server, up, connections, inbox, pending, roster, ready, db, roomDb, alive, view>>

\* A row: the hash, None for the empty one, and the data; "null" where SQL has NULL.
Empty == [hash |-> None, data |-> None]
NoRow == [hash |-> "null", data |-> "null"]

\* Everyone starts with the same long texts, the faceless without a picture.
FirstBlobs(b) == [p \in People |-> [k \in Kinds |->
                    IF k = "texture" /\ p \in Faceless THEN None ELSE b]]

Init ==
    /\ online \in {o \in [People -> SessionIds \cup {None}] :
                       o[Me] = None /\ \A p, q \in People : p # q /\ o[p] = o[q] => o[p] = None}
    /\ place = [p \in People |-> Root]
    /\ \E b \in Long : blob = FirstBlobs(b)
    /\ rooms = [c \in ChannelIds |-> [there |-> c = Root, description |-> None]]
    /\ news = 0 /\ up = FALSE /\ connections = 0 /\ inbox = <<>> /\ pending = {}
    /\ users = [s \in SessionIds |-> None] /\ channels = [c \in ChannelIds |-> None]
    /\ myself = None /\ attached = FALSE /\ mySession = None
    /\ ready = FALSE /\ alive = FALSE /\ view = {}
    /\ db = [p \in People \cup {None} |-> [k \in Kinds |-> NoRow]]
    /\ roomDb = [c \in ChannelIds |-> NoRow]

(***************************************************************************)
(* The server and its messages.                                            *)
(***************************************************************************)
\* "unset" is what HasField finds missing.
UserMsg(s) == [type |-> "UserState", session |-> s, actor |-> "unset", person |-> None,
               channel |-> "unset",
               hash |-> [k \in Kinds |-> "unset"], inline |-> [k \in Kinds |-> "unset"]]
IntroMsg(p, s, c, b) ==
    [UserMsg(s) EXCEPT !.person = p, !.channel = c,
                       !.hash   = [k \in Kinds |-> IF b[k] \in Long THEN b[k] ELSE "unset"],
                       !.inline = [k \in Kinds |-> IF b[k] \in Short THEN b[k] ELSE "unset"]]
NewUserMsg(p, s) == IntroMsg(p, s, place[p], blob[p])
MoveMsg(s, c, a) == [UserMsg(s) EXCEPT !.channel = c, !.actor = a]
HashMsg(s, k, h) == [UserMsg(s) EXCEPT !.hash[k] = h]
BlobMsg(s, k, b) == [UserMsg(s) EXCEPT !.inline[k] = b]
RemoveMsg(s)     == [type |-> "UserRemove", session |-> s]
ChannelMsg(c, d) == [type |-> "ChannelState", channel |-> c,
                     hash   |-> IF d \in Long THEN d ELSE "unset",
                     inline |-> IF d \in Short THEN d ELSE "unset"]
TextMsg(c, d)    == [ChannelMsg(c, None) EXCEPT !.inline = d]
GoneMsg(c)       == [type |-> "ChannelRemove", channel |-> c]
VersionMsg       == [type |-> "Version"]
SyncMsg(s)       == [type |-> "ServerSync", session |-> s]

\* A change the client is told of, if it is there.
Tell(m) == /\ news < News /\ news' = news + 1 /\ Len(inbox) < Lag
           /\ inbox' = IF up THEN Append(inbox, m) ELSE inbox
           /\ UNCHANGED <<up, connections, pending, roster, ready, db, roomDb, alive, view>>

FreeIds == SessionIds \ {online[p] : p \in People}

Join(p) == /\ p # Me /\ online[p] = None
           /\ \E s \in FreeIds : online' = [online EXCEPT ![p] = s] /\ Tell(NewUserMsg(p, s))
           /\ UNCHANGED <<place, blob, rooms>>

Leave(p) == /\ p # Me /\ online[p] # None
            /\ online' = [online EXCEPT ![p] = None] /\ Tell(RemoveMsg(online[p]))
            /\ UNCHANGED <<place, blob, rooms>>

\* By the user, or by another one.
MoveTo(p, c) == /\ online[p] # None /\ rooms[c].there /\ place[p] # c
                /\ \E q \in People : online[q] # None /\ Tell(MoveMsg(online[p], c, online[q]))
                /\ place' = [place EXCEPT ![p] = c]
                /\ UNCHANGED <<online, blob, rooms>>

Allowed(p, k, b) == /\ b \in Short => p \in Terse
                    /\ k = "texture" /\ b = None => p \in Faceless

SetBlob(p, k, b) ==
    /\ online[p] # None /\ b # blob[p][k] /\ Allowed(p, k, b)
    /\ blob' = [blob EXCEPT ![p][k] = b]
    /\ Tell(IF b \in Long THEN HashMsg(online[p], k, b) ELSE BlobMsg(online[p], k, b))
    /\ UNCHANGED <<online, place, rooms>>

AddRoom(c, d) == /\ ~rooms[c].there
                 /\ rooms' = [rooms EXCEPT ![c] = [there |-> TRUE, description |-> d]]
                 /\ Tell(ChannelMsg(c, d)) /\ UNCHANGED <<online, place, blob>>

SetDescription(c, d) ==
    /\ rooms[c].there /\ d # rooms[c].description
    /\ rooms' = [rooms EXCEPT ![c].description = d]
    /\ Tell(IF d \in Long THEN ChannelMsg(c, d) ELSE TextMsg(c, d))
    /\ UNCHANGED <<online, place, blob>>

RemoveRoom(c) == /\ rooms[c].there /\ c # Root /\ \A p \in People : place[p] # c
                 /\ rooms' = [rooms EXCEPT ![c] = [there |-> FALSE, description |-> None]]
                 /\ Tell(GoneMsg(c)) /\ UNCHANGED <<online, place, blob>>

\* RequestBlob is answered with what the server has by then, if anything.
Answer ==
    /\ up /\ Len(inbox) < Lag
    /\ \E r \in pending :
          /\ pending' = pending \ {r}
          /\ inbox' = inbox \o
               IF r[1] \in Kinds
               THEN LET who == {p \in People : online[p] = r[2] /\ blob[p][r[1]] # None}
                    IN  SetToSeq({BlobMsg(r[2], r[1], blob[p][r[1]]) : p \in who})
               ELSE IF rooms[r[2]].there /\ rooms[r[2]].description # None
                    THEN <<TextMsg(r[2], rooms[r[2]].description)>> ELSE <<>>
    /\ UNCHANGED <<server, up, connections, roster, ready, db, roomDb, alive, view>>

Server == \/ \E p \in People : Join(p) \/ Leave(p) \/ (\E c \in ChannelIds : MoveTo(p, c))
                               \/ (\E k \in Kinds, b \in Blobs \cup {None} : SetBlob(p, k, b))
          \/ \E c \in ChannelIds : \/ \E d \in Blobs \cup {None} : AddRoom(c, d) \/ SetDescription(c, d)
                                   \/ RemoveRoom(c)
          \/ Answer

(***************************************************************************)
(* The connection.  The server lists channels and users between Version    *)
(* and ServerSync; requests left in msg_queue go out on the new connection *)
(* (one lost with the old is an Answer lost with it).                      *)
(***************************************************************************)
Listing(S, M(_)) == LET order == SetToSeq(S) IN [i \in DOMAIN order |-> M(order[i])]

Connect ==
    /\ ~up /\ connections < Connections
    /\ up' = TRUE /\ connections' = connections + 1 /\ alive' = TRUE
    /\ \E s \in FreeIds :
          LET now == [online EXCEPT ![Me] = s] IN
          /\ online' = now
          /\ inbox' = <<VersionMsg>>
               \o Listing({c \in ChannelIds : rooms[c].there}, LAMBDA c : ChannelMsg(c, rooms[c].description))
               \o Listing({p \in People : now[p] # None}, LAMBDA p : NewUserMsg(p, now[p]))
               \o <<SyncMsg(s)>>
    /\ UNCHANGED <<place, blob, rooms, news, pending, roster, ready, db, roomDb, view>>

Disconnect ==
    /\ up /\ up' = FALSE /\ inbox' = <<>> /\ alive' = FALSE
    /\ online' = [online EXCEPT ![Me] = None]
    /\ UNCHANGED <<place, blob, rooms, news, connections, pending, roster, ready, db, roomDb, view>>

(***************************************************************************)
(* User: blobs known, requested, cached.  d stands for the table users.    *)
(***************************************************************************)
Cached(d, p, k, h) == d[p][k].hash = h
Updated(d, u, k)   == (u.data[k] = None) = (u.hash[k] = None) \/ Cached(d, u.person, k, u.hash[k])
Wanted(d, u, k)    == u.hash[k] # None /\ Greedy /\ ~Updated(d, u, k)

\* get_user_comment, get_user_texture: NULL is None, of which b64decode raises.
HasRow(d, p)      == \E k \in Kinds : d[p][k] # NoRow
Raises(d, p, k)   == k = "texture" /\ HasRow(d, p) /\ d[p][k] = NoRow
Fetched(d, p, k)  == IF d[p][k] = NoRow THEN None ELSE d[p][k].data
Store(d, p, k, h, b) == [d EXCEPT ![p][k] = [hash |-> h, data |-> b]]

\* request_comment and request_texture, where they do not send a request.
Refreshed(d, u, k) == IF u.hash[k] # None /\ ~Wanted(d, u, k)
                      THEN [u EXCEPT !.data[k] = Fetched(d, u.person, k)] ELSE u
Fails(d, u, k) == u.hash[k] # None /\ ~Wanted(d, u, k) /\ Raises(d, u.person, k)

Asked(d, u, s, k) == IF Wanted(d, u, k) THEN {<<k, s>>} ELSE {}

\* Mutant of Given: a missing hash is taken as it is.
GivenRaw(x) == x

Given(x) == IF x = "unset" THEN None ELSE x

\* __init__, up to line 46: a user without a picture loses the stored comment.
Nothing(m, k) == m.hash[k] = "unset" /\ m.inline[k] = "unset"
Cleared(d, m, k) == IF Nothing(m, k) THEN Store(d, m.person, "comment", None, None) ELSE d
FirstData(d, m, k) == IF ~Nothing(m, k) /\ Cached(d, m.person, k, Given(m.hash[k]))
                      THEN Fetched(d, m.person, k) ELSE Given(m.inline[k])
NewDb(m) == Cleared(Cleared(db, m, "comment"), m, "texture")
NewUser(m) ==
    [person |-> m.person, channel |-> IF m.channel = "unset" THEN Root ELSE m.channel,
     hash |-> [k \in Kinds |-> Given(m.hash[k])],
     data |-> [k \in Kinds |-> FirstData(IF k = "comment" THEN db ELSE Cleared(db, m, "comment"), m, k)]]

(***************************************************************************)
(* The dispatcher.                                                         *)
(***************************************************************************)
Take(type) == /\ alive /\ inbox # <<>> /\ Head(inbox).type = type
              /\ inbox' = Tail(inbox) /\ UNCHANGED <<server, up, connections>>

\* Mutant of HandleVersion: the maps of the last connection are kept.
HandleVersionKeeps ==
    Take("Version") /\ UNCHANGED <<pending, roster, ready, db, roomDb, alive, view>>

HandleVersion ==
    /\ Take("Version")
    /\ users' = [s \in SessionIds |-> None] /\ channels' = [c \in ChannelIds |-> None]
    /\ attached' = FALSE
    /\ UNCHANGED <<pending, myself, mySession, ready, db, roomDb, alive, view>>

\* Callbacks.dispatch of on_user_created, which is nothing before ready().
Created(s) == view' = IF ready THEN view \cup {s} ELSE view

SetUser(s, u) == users' = [users EXCEPT ![s] = u]

\* An exception in __init__ leaves no user, and ends Control:Listen.
CreateUser(m) ==
    LET u == NewUser(m)
        d == NewDb(m)
        raises == ready /\ \E k \in Kinds : Fails(d, u, k)
    IN  /\ db' = d /\ alive' = ~raises
        /\ pending' = pending \cup (IF ready THEN UNION {Asked(d, u, m.session, k) : k \in Kinds} ELSE {})
        /\ IF raises THEN UNCHANGED <<users, myself, attached, view>>
           ELSE /\ SetUser(m.session, IF ready THEN Refreshed(d, Refreshed(d, u, "comment"), "texture") ELSE u)
                /\ IF m.session = mySession
                   THEN myself' = mySession /\ attached' = TRUE /\ UNCHANGED view
                   ELSE /\ Created(m.session)
                        /\ UNCHANGED <<myself, attached>>

\* Mutant of NewHash: the data known is stored under the new hash.
NewHashStores(m, k, u, d) ==
    LET v == [u EXCEPT !.hash[k] = m.hash[k]]
    IN  /\ db' = Store(d, u.person, k, v.hash[k], v.data[k]) /\ SetUser(m.session, v)
        /\ UNCHANGED <<pending, alive>>

\* update(), from the hash of blob k on: nothing after it is applied.
NewHash(m, k, u, d) ==
    LET v == [u EXCEPT !.hash[k] = m.hash[k]]
    IN  /\ db' = d /\ pending' = pending \cup Asked(d, v, m.session, k)
        /\ alive' = ~Fails(d, v, k)
        /\ SetUser(m.session, IF Fails(d, v, k) THEN v ELSE Refreshed(d, v, k))

\* The data is stored under the hash the user has had so far.
WithData(m, k, u) == IF m.inline[k] = "unset" THEN u
                     ELSE [u EXCEPT !.data[k] = m.inline[k],
                                    !.hash[k] = IF m.inline[k] = None THEN None ELSE @]
DbWith(m, k, u, d) ==
    LET v == WithData(m, k, u)
    IN  IF m.inline[k] # "unset" /\ (v.data[k] = None \/ v.hash[k] # None)
        THEN Store(d, u.person, k, v.hash[k], v.data[k]) ELSE d

UpdateUser(m, user) ==
    LET u == IF m.channel = "unset" THEN user ELSE [user EXCEPT !.channel = m.channel]
        v == WithData(m, "comment", u)
        d == DbWith(m, "comment", u, db)
    IN  /\ IF m.hash["comment"] # "unset" THEN NewHash(m, "comment", u, db)
           ELSE IF m.hash["texture"] # "unset" THEN NewHash(m, "texture", v, d)
           ELSE /\ SetUser(m.session, WithData(m, "texture", v)) /\ db' = DbWith(m, "texture", v, d)
                /\ UNCHANGED <<pending, alive>>
        /\ UNCHANGED <<myself, attached, view>>

\* The KeyError of an actor who is not in the map makes a new user, too.
Stranger(m) == m.actor # "unset" /\ users[m.actor] = None

HandleUserState ==
    LET m == Head(inbox) IN
    /\ Take("UserState")
    /\ IF users[m.session] = None \/ Stranger(m) THEN CreateUser(m) ELSE UpdateUser(m, users[m.session])
    /\ UNCHANGED <<channels, mySession, ready, roomDb>>

\* Mutant of HandleUserRemove: the callback is not dispatched.
HandleUserRemoveSilent ==
    LET s == Head(inbox).session IN
    /\ Take("UserRemove") /\ SetUser(s, None)
    /\ attached' = (attached /\ s # myself)
    /\ UNCHANGED <<pending, channels, myself, mySession, ready, db, roomDb, alive, view>>

HandleUserRemove ==
    LET s == Head(inbox).session IN
    /\ Take("UserRemove") /\ SetUser(s, None)
    /\ attached' = (attached /\ s # myself)
    /\ view' = IF users[s] # None THEN view \ {s} ELSE view
    /\ UNCHANGED <<pending, channels, myself, mySession, ready, db, roomDb, alive>>

(***************************************************************************)
(* Channels.  __init__ takes what is stored, under whichever hash.         *)
(***************************************************************************)
TextCached(c, h) == roomDb[c].hash = h
StoredText(c) == IF roomDb[c] = NoRow THEN None ELSE roomDb[c].data
NeedsText(c)  == channels[c].hash # None /\ ~TextCached(c, channels[c].hash)
AskText(c, h) == IF h = None THEN {} ELSE {<<"description", c>>}
SetChannel(c, x) == channels' = [channels EXCEPT ![c] = x]
StoreText(c, h, b) == roomDb' = [roomDb EXCEPT ![c] = [hash |-> h, data |-> b]]

CreateChannel(m) ==
    LET c == m.channel
        h == Given(m.hash)
        bare == m.hash = "unset" /\ m.inline = "unset"
    IN  /\ IF bare THEN StoreText(c, None, None) ELSE UNCHANGED roomDb
        /\ SetChannel(c, [hash |-> h, data |-> IF bare THEN None ELSE StoredText(c)])
        /\ pending' = IF ready THEN pending \cup AskText(c, h) ELSE pending

UpdateChannel(m, channel) ==
    LET c == m.channel
        h == IF m.inline = None THEN None ELSE IF m.hash = "unset" THEN channel.hash ELSE m.hash
    IN  /\ pending' = IF m.hash = "unset" THEN pending ELSE pending \cup AskText(c, m.hash)
        /\ SetChannel(c, [hash |-> h, data |-> IF m.inline = "unset" THEN channel.data ELSE m.inline])
        /\ IF m.inline # "unset" /\ (m.inline = None \/ h # None)
           THEN StoreText(c, h, m.inline) ELSE UNCHANGED roomDb

HandleChannelState ==
    LET m == Head(inbox) IN
    /\ Take("ChannelState")
    /\ IF channels[m.channel] = None THEN CreateChannel(m) ELSE UpdateChannel(m, channels[m.channel])
    /\ UNCHANGED <<users, myself, attached, mySession, ready, db, alive, view>>

HandleChannelRemove ==
    /\ Take("ChannelRemove") /\ SetChannel(Head(inbox).channel, None)
    /\ UNCHANGED <<pending, users, myself, attached, mySession, ready, db, roomDb, alive, view>>

(***************************************************************************)
(* ServerSync: what is missing is requested in one message.                *)
(***************************************************************************)
InMap == {s \in SessionIds : users[s] # None}
MissingBlobs == {r \in Kinds \X InMap : ~Updated(db, users[r[2]], r[1])}

\* Mutant of Missing: the descriptions are forgotten.
MissingOfUsers == MissingBlobs

Missing == MissingBlobs \cup
    {<<"description", c>> : c \in {c \in ChannelIds : channels[c] # None /\ NeedsText(c)}}

\* Mutant of HandleServerSync: myself is set once and for all.
HandleServerSyncOnce ==
    LET s == Head(inbox).session IN
    /\ Take("ServerSync")
    /\ pending' = IF Greedy THEN pending \cup Missing ELSE pending
    /\ mySession' = s /\ ready' = TRUE /\ view' = InMap \ {s}
    /\ IF myself = None THEN myself' = s /\ attached' = TRUE ELSE UNCHANGED <<myself, attached>>
    /\ UNCHANGED <<users, channels, db, roomDb, alive>>

\* The connection is taken to be authenticating (ControlStack has the others).
HandleServerSync ==
    LET s == Head(inbox).session IN
    /\ Take("ServerSync")
    /\ pending' = IF Greedy THEN pending \cup Missing ELSE pending
    /\ mySession' = s
    /\ IF users[s] # None THEN myself' = s /\ attached' = TRUE ELSE UNCHANGED <<myself, attached>>
    /\ ready' = TRUE /\ view' = InMap \ {s}
    /\ UNCHANGED <<users, channels, db, roomDb, alive>>

Dispatch == \/ HandleVersion \/ HandleUserState \/ HandleUserRemove
            \/ HandleChannelState \/ HandleChannelRemove \/ HandleServerSync

Next == Connect \/ Disconnect \/ Server \/ Dispatch
Spec == Init /\ [][Next]_vars

(***************************************************************************)
(* Properties.                                                             *)
(***************************************************************************)
BlobValues == Blobs \cup {None}
HashValues == Long \cup {None}
UserType == [person : People \cup {None}, channel : ChannelIds,
             hash : [Kinds -> HashValues], data : [Kinds -> BlobValues]]
RoomType == [hash : HashValues, data : BlobValues]
Row      == RoomType \cup {NoRow}

UserMessage    == [type : {"UserState"}, session : SessionIds, actor : SessionIds \cup {"unset"},
                   person : People \cup {None},
                   channel : ChannelIds \cup {"unset"}, hash : [Kinds -> Long \cup {"unset"}],
                   inline : [Kinds -> BlobValues \cup {"unset"}]]
ChannelMessage == [type : {"ChannelState"}, channel : ChannelIds, hash : Long \cup {"unset"},
                   inline : BlobValues \cup {"unset"}]
Message == UserMessage \cup ChannelMessage \cup {VersionMsg}
             \cup [type : {"UserRemove", "ServerSync"}, session : SessionIds]
             \cup [type : {"ChannelRemove"}, channel : ChannelIds]

\* None marks what is not in a map.
ASSUME NoneAssumption == None \notin UserType \cup RoomType

(* The type invariant of the roster. *)
TypeOK ==
    /\ online \in [People -> SessionIds \cup {None}] /\ place \in [People -> ChannelIds]
    /\ blob \in [People -> [Kinds -> BlobValues]]
    /\ rooms \in [ChannelIds -> [there : BOOLEAN, description : BlobValues]]
    /\ inbox \in Seq(Message)
    /\ users \in [SessionIds -> UserType \cup {None}]
    /\ channels \in [ChannelIds -> RoomType \cup {None}]
    /\ myself \in SessionIds \cup {None} /\ mySession \in SessionIds \cup {None}
    /\ attached \in BOOLEAN /\ ready \in BOOLEAN /\ alive \in BOOLEAN /\ up \in BOOLEAN
    /\ view \subseteq SessionIds /\ connections \in 0..Connections /\ news \in 0..News
    /\ pending \subseteq (Kinds \X SessionIds) \cup ({"description"} \X ChannelIds)
    /\ db \in [People \cup {None} -> [Kinds -> Row]] /\ roomDb \in [ChannelIds -> Row]

OnItsWay == {inbox[i] : i \in DOMAIN inbox}

\* After ServerSync of this connection.
Synced == up /\ alive /\ \A m \in OnItsWay : m.type \notin {"Version", "ServerSync"}

(* Once every message is handled, the maps are what the server has: nobody of
   an earlier connection or session number is left, nobody is missing, and where
   somebody is, which channels there are, and the hashes are those of now (the
   FIXME at mumble.py line 222).  A short text is no exception for the maps, but
   it comes without a hash: the client then keeps the hash it had (users.py:129,
   channels.py:94), and nothing is claimed of it. *)
MapsAreServers ==
    Synced /\ inbox = <<>> =>
      /\ \A s \in SessionIds : users[s] = None <=> \A p \in People : online[p] # s
      /\ \A p \in People : online[p] # None =>
           LET u == users[online[p]]
           IN  /\ u.person = p /\ u.channel = place[p]
               /\ \A k \in Kinds : blob[p][k] \notin Short => u.hash[k] = blob[p][k]
      /\ \A c \in ChannelIds : channels[c] = None <=> ~rooms[c].there
      /\ \A c \in ChannelIds :
           rooms[c].there /\ rooms[c].description \notin Short => channels[c].hash = rooms[c].description

(* users.myself is the object in the map, and of the session this connection
   has given us, also if an earlier connection had another one. *)
MyselfInMap == Synced => attached /\ myself = online[Me]

(* An application that took the map in on_connect and followed the callbacks
   knows who is in the map: no creation or removal goes unreported. *)
CallbacksComplete == Synced => view = InMap \ {mySession}

About(s, k) ==
    \E m \in OnItsWay : m.type \in {"UserState", "UserRemove"} /\ m.session = s
                       /\ (m.type = "UserState" => m.inline[k] # "unset")
AboutText(c) == \E m \in OnItsWay : m.type \in {"ChannelState", "ChannelRemove"} /\ m.channel = c

\* Whose blob of kind k is certain to be asked for: not that of somebody with
\* short texts, which is taken for that of any hash (users.py:71), nor the comment
\* of somebody without a picture, which users.py:43 clears.
Claimed(p, k) == p \notin Terse /\ (k = "comment" => p \notin Faceless)

(* With greedy updates no long blob is forgotten: if a user has a hash and no
   data, or a channel shows another text than the long description of the server,
   a request or an answer is on its way, also where BlobDB has kept a short text
   under that hash (channels.py:101).  Of users only the Claimed blobs are meant,
   and not that a second long comment is fetched (users.py:71); a short description
   sent at login is not shown (channels.py:43), and nothing is claimed of it. *)
NothingForgotten ==
    Synced /\ Greedy =>
      /\ \A s \in InMap, k \in Kinds :
           Claimed(users[s].person, k) /\ users[s].hash[k] # None /\ users[s].data[k] = None
             => <<k, s>> \in pending \/ About(s, k)
      /\ \A c \in ChannelIds :
           channels[c] # None /\ rooms[c].there /\ rooms[c].description \notin Short =>
             \/ channels[c].data = rooms[c].description
             \/ <<"description", c>> \in pending \/ AboutText(c)

(* What BlobDB keeps under a hash is the blob of that hash or, for users and
   channels that have had both, a short text that came after it: that is stored
   under the old hash (users.py:136 and 149, channels.py:101).  It is never the
   long text of another hash, whatever requests and answers cross. *)
CacheTrue ==
    /\ \A p \in People, k \in Kinds :
         db[p][k].hash \in Blobs => db[p][k].data = db[p][k].hash \/ db[p][k].data \in Short
    /\ \A c \in ChannelIds :
         roomDb[c].hash \in Blobs => roomDb[c].data = roomDb[c].hash \/ roomDb[c].data \in Short

(***************************************************************************)
(* What makes MyselfInMap and CallbacksComplete inductive: the order of    *)
(* the messages of a connection (RosterProofs has the proofs).             *)
(***************************************************************************)
IsAt(i, type) == i \in DOMAIN inbox /\ inbox[i].type = type

\* A session is one person's, and ours as long as there is a connection.
Distinct ==
    /\ \A p, q \in People : p # q /\ online[p] = online[q] => online[p] = None
    /\ up <=> online[Me] # None
    /\ ~up => inbox = <<>> /\ ~alive

\* Version comes before ServerSync, and both are about the session we have.
InOrder ==
    /\ \A i \in DOMAIN inbox : IsAt(i, "Version") => \E j \in DOMAIN inbox : i < j /\ IsAt(j, "ServerSync")
    /\ \A i \in DOMAIN inbox : IsAt(i, "ServerSync") => inbox[i].session = online[Me]
    /\ \A i \in DOMAIN inbox : IsAt(i, "UserRemove") => inbox[i].session # online[Me]

\* Before ServerSync we are in the map, or listed after Version.
MeIsComing(i) ==
    \E j \in DOMAIN inbox : /\ j < i /\ IsAt(j, "UserState") /\ inbox[j].session = online[Me]
                            /\ \A v \in DOMAIN inbox : IsAt(v, "Version") => v < j
MeInMap == users[online[Me]] # None /\ \A v \in DOMAIN inbox : ~IsAt(v, "Version")
MeListed ==
    alive => \A i \in DOMAIN inbox : IsAt(i, "ServerSync") => MeIsComing(i) \/ MeInMap

\* What the client knows from ServerSync on.
SyncedOK ==
    Synced => /\ ready /\ attached /\ myself = online[Me] /\ mySession = online[Me]
              /\ view = InMap \ {mySession} /\ mySession \in InMap

IInv == TypeOK /\ Distinct /\ InOrder /\ MeListed /\ SyncedOK
=============================================================================
