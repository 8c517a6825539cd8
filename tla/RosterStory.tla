----------------------------- MODULE RosterStory -----------------------------
(***************************************************************************)
(* Why the maps of Roster end up as the server's: the messages on their    *)
(* way tell, for each session and each channel, a story that begins with   *)
(* something the client's map agrees with and ends with what is true at    *)
(* the server.  With what BlobDB may hold this makes MapsAreServers,       *)
(* CacheTrue and NothingForgotten inductive (RosterProofs has the proofs). *)
(***************************************************************************)
EXTENDS Roster

(***************************************************************************)
(* One session.  A fact is what the server has told: with the texts        *)
(* themselves, of which the client may know the hash only.                 *)
(***************************************************************************)
Removes(m, s) == m.type = "Version" \/ (m.type = "UserRemove" /\ m.session = s)
Updates(m, s) == m.type = "UserState" /\ m.session = s

Nobody        == [there |-> FALSE, person |-> None, channel |-> Root, blob |-> [k \in Kinds |-> None]]
Fact(p, c, b) == [there |-> TRUE, person |-> p, channel |-> c, blob |-> b]
Facts == [there : BOOLEAN, person : People \cup {None}, channel : ChannelIds, blob : [Kinds -> BlobValues]]

Truth(s) == IF \E p \in People : online[p] = s
            THEN LET p == CHOOSE p \in People : online[p] = s IN Fact(p, place[p], blob[p])
            ELSE Nobody

\* A short text comes without a hash, and the hash of an earlier one is kept.
Agrees(x, u) ==
    IF u = None THEN x = Nobody
    ELSE /\ x.there /\ x.person = u.person /\ x.channel = u.channel
         /\ \A k \in Kinds : x.blob[k] \notin Short => u.hash[k] = x.blob[k]

TextAfter(m, k, b) == IF m.inline[k] # "unset" THEN m.inline[k]
                 ELSE IF m.hash[k] # "unset" THEN m.hash[k] ELSE b

After(x, m, s) ==
    IF Removes(m, s) THEN Nobody
    ELSE IF ~Updates(m, s) THEN x
    ELSE IF ~x.there THEN Fact(m.person, m.channel, [k \in Kinds |-> TextAfter(m, k, None)])
    ELSE Fact(x.person, IF m.channel = "unset" THEN x.channel ELSE m.channel,
              [k \in Kinds |-> TextAfter(m, k, x.blob[k])])

\* A user is introduced in full; afterwards one thing of it changes, or a blob
\* is sent, which if it is long is the one told last.
Introduces(m, s) ==
    \E p \in People, c \in ChannelIds, b \in [Kinds -> BlobValues] :
       m = IntroMsg(p, s, c, b) /\ \A k \in Kinds : Allowed(p, k, b[k])
Changes(x, m, s) ==
    \/ \E c \in ChannelIds, a \in SessionIds : m = MoveMsg(s, c, a)
    \/ \E k \in Kinds, h \in Long : m = HashMsg(s, k, h)
    \/ \E k \in Kinds, b \in BlobValues :
          m = BlobMsg(s, k, b) /\ (b \in Long => b = x.blob[k]) /\ Allowed(x.person, k, b)
Fits(x, m, s) == Updates(m, s) => IF x.there THEN Changes(x, m, s) ELSE Introduces(m, s)

\* No message of box from i to j is about blob k of s.
Silent(box, i, j, s, k) ==
    \A l \in i..j : ~Removes(box[l], s) /\ (Updates(box[l], s) => box[l].inline[k] = "unset")
Stays(box, i, j, s) == \A l \in i..j : ~Removes(box[l], s)

\* f[i] is what is told of s when i messages of box are handled.
Tells(f, box, s) == \A i \in 1..Len(box) : f[i] = After(f[i - 1], box[i], s) /\ Fits(f[i - 1], box[i], s)

\* As long as nobody is removed, s stays the same person's.
SamePerson(f, box, s) ==
    \A i, j \in 0..Len(box) : i <= j /\ f[i].there /\ Stays(box, i + 1, j, s)
                             => f[j].there /\ f[j].person = f[i].person
\* No text is lost unless a message says so.
KeepsTexts(f, box, s) ==
    \A i, j \in 0..Len(box), k \in Kinds :
       i <= j /\ f[i].there /\ f[i].blob[k] # None /\ Silent(box, i + 1, j, s, k) => f[j].blob[k] # None
\* Who is there has been there, or was introduced.
WasTold(box, x, j, s) == \/ x.there /\ Stays(box, 1, j, s)
                         \/ \E i \in 1..j : Updates(box[i], s) /\ Stays(box, i + 1, j, s)
Introduced(f, box, s) == \A j \in 0..Len(box) : f[j].there => WasTold(box, f[0], j, s)

\* The messages of box lead from a to z.
Leads(a, box, z, s) ==
    \E f \in [0..Len(box) -> Facts] :
      /\ f[0] = a /\ f[Len(box)] = z
      /\ Tells(f, box, s) /\ SamePerson(f, box, s) /\ KeepsTexts(f, box, s) /\ Introduced(f, box, s)

(***************************************************************************)
(* One channel.                                                            *)
(***************************************************************************)
Concerns(m, c) == m.type \in {"ChannelState", "ChannelRemove"} /\ m.channel = c

Absent == [there |-> FALSE, description |-> None]

AgreesRoom(x, r) ==
    IF r = None THEN x = Absent
    ELSE /\ x.there
         /\ x.description \notin Short => r.hash = x.description
         /\ x.description = None => r.data = None

AfterRoom(x, m, c) ==
    IF m.type = "Version" THEN Absent
    ELSE IF ~Concerns(m, c) THEN x
    ELSE IF m.type = "ChannelRemove" THEN Absent
    ELSE [there |-> TRUE, description |-> IF m.inline # "unset" THEN m.inline
                                          ELSE IF m.hash # "unset" THEN m.hash ELSE x.description]

FitsRoom(x, m, c) ==
    m.type = "ChannelState" /\ Concerns(m, c) =>
      \/ \E d \in BlobValues : m = ChannelMsg(c, d) /\ (d \notin Long => ~x.there)
      \/ \E d \in BlobValues : m = TextMsg(c, d) /\ x.there /\ (d \in Long => d = x.description)

RoomFacts == [there : BOOLEAN, description : BlobValues]

LeadsRoom(a, box, z, c) ==
    \E g \in [0..Len(box) -> RoomFacts] :
      /\ g[0] = a /\ g[Len(box)] = z
      /\ \A i \in 1..Len(box) : g[i] = AfterRoom(g[i - 1], box[i], c) /\ FitsRoom(g[i - 1], box[i], c)
      /\ \A i, j \in 0..Len(box) :
           i <= j /\ (\A l \in (i + 1)..j : box[l].type # "Version" /\ ~Concerns(box[l], c)) => g[j] = g[i]

Stories ==
    alive => /\ \A s \in SessionIds :
                  \E a \in Facts : Agrees(a, users[s]) /\ Leads(a, inbox, Truth(s), s)
             /\ \A c \in ChannelIds :
                  \E a \in RoomFacts : AgreesRoom(a, channels[c]) /\ LeadsRoom(a, inbox, rooms[c], c)

(***************************************************************************)
(* Who acts, and who is who.                                               *)
(***************************************************************************)
\* Session s is in the map by the time message i is handled.
KnownAt(s, i) == \/ users[s] # None /\ Stays(inbox, 1, i - 1, s)
                 \/ \E j \in 1..(i - 1) : Updates(inbox[j], s) /\ Stays(inbox, j + 1, i - 1, s)
ActorsKnown ==
    alive => \A i \in DOMAIN inbox : IsAt(i, "UserState") /\ inbox[i].actor # "unset" =>
                                     KnownAt(inbox[i].actor, i)

\* The map (i = 0) or message i has s as a session of person p.
Holds(p, s, i) == IF i = 0 THEN users[s] # None /\ users[s].person = p
                  ELSE Updates(inbox[i], s) /\ inbox[i].person = p
Ends(s, i, j) == \E l \in DOMAIN inbox : i < l /\ l < j /\ Removes(inbox[l], s)

\* A person gets another session only after the end of the one before.
OneSession ==
    alive => \A p \in People, s \in SessionIds, i \in 0..Len(inbox) : Holds(p, s, i) =>
               /\ online[p] = s \/ Ends(s, i, Len(inbox) + 1)
               /\ \A t \in SessionIds, j \in i..Len(inbox) : Holds(p, t, j) /\ t # s => Ends(s, i, j)

(***************************************************************************)
(* The data at rest.                                                       *)
(***************************************************************************)
TrueRow(row) == \/ row \in {NoRow, Empty}
                \/ row.hash \in Long /\ (row.data = row.hash \/ row.data \in Short)

DataOK ==
    /\ \A p \in People, k \in Kinds : Allowed(p, k, blob[p][k])
    /\ \A p \in People, k \in Kinds : TrueRow(db[p][k]) /\ (Claimed(p, k) => db[p][k].data \notin Short)
    /\ \A c \in ChannelIds : TrueRow(roomDb[c])
    /\ \A c \in ChannelIds : rooms[c].there \/ rooms[c] = Absent
    /\ \A c \in ChannelIds :
         channels[c] # None /\ channels[c].hash = None /\ channels[c].data # None => Short # {}
    /\ \A s, t \in InMap : users[s].person = users[t].person => s = t
    /\ \A s \in InMap : /\ users[s].person \in People
                        /\ \A k \in Kinds :
                             Claimed(users[s].person, k) /\ users[s].data[k] # None =>
                               db[users[s].person][k] \notin {NoRow, Empty}

(***************************************************************************)
(* What is not there yet.                                                  *)
(***************************************************************************)
\* Between Version and ServerSync users are introduced, and nothing is stored.
ListingOK == \A i, j \in DOMAIN inbox :
                i < j /\ IsAt(j, "ServerSync") /\ IsAt(i, "UserState") => inbox[i].person # None

Lacks(s, k) == /\ s \in InMap /\ Claimed(users[s].person, k)
               /\ users[s].hash[k] # None /\ users[s].data[k] = None

\* ServerSync will find what is missing.
MissingSeen ==
    alive /\ (\E j \in DOMAIN inbox : IsAt(j, "ServerSync")) /\ (\A v \in DOMAIN inbox : ~IsAt(v, "Version"))
      => \A s \in SessionIds, k \in Kinds : Lacks(s, k) => ~Cached(db, users[s].person, k, users[s].hash[k])

\* After it, what is missing is requested or on its way.
MissingAsked ==
    Synced /\ Greedy =>
      \A s \in SessionIds, k \in Kinds : Lacks(s, k) => <<k, s>> \in pending \/ About(s, k)

JInv == Stories /\ ActorsKnown /\ OneSession /\ DataOK /\ ListingOK /\ MissingSeen /\ MissingAsked

(***************************************************************************)
(* The descriptions that are not shown.                                    *)
(***************************************************************************)
\* Before ServerSync every channel is listed once,
ListedOnce ==
    \A i, j \in DOMAIN inbox : i < j /\ IsAt(j, "ServerSync") /\ IsAt(i, "ChannelState") =>
      /\ channels[inbox[i].channel] = None \/ \E v \in DOMAIN inbox : v < i /\ IsAt(v, "Version")
      /\ \A h \in DOMAIN inbox : h < i /\ IsAt(h, "ChannelState") => inbox[h].channel # inbox[i].channel

\* so that before the first ServerSync no description is stored,
NothingStored == ~ready => \A c \in ChannelIds : roomDb[c] \in {NoRow, Empty}

\* and after it every channel of which the server has the hash is asked for.
Unshown(c) == /\ channels[c] # None /\ channels[c].hash # None
              /\ channels[c].data # channels[c].hash /\ rooms[c].description = channels[c].hash
TextAsked(c) == <<"description", c>> \in pending \/ AboutText(c)
LongAsked ==
    alive /\ ready /\ Greedy /\ (\A v \in DOMAIN inbox : ~IsAt(v, "Version"))
      => \A c \in ChannelIds : Unshown(c) => TextAsked(c)

TextInv == ListedOnce /\ NothingStored /\ LongAsked
=============================================================================
