---------------------------- MODULE RosterProofs ----------------------------
(***************************************************************************)
(* Proofs about Roster, for every number of people, sessions, channels,    *)
(* messages on their way and connections.  The steps of the server and the *)
(* messages they send are typed first, then the handlers; then the order   *)
(* of what is on its way (InOrder, MeListed) gives what the client knows   *)
(* once a connection is synchronised (SyncedOK, in IInv).  The second half *)
(* is about the stories the messages tell and the data at rest (JInv of    *)
(* RosterStory): each step of the server adds an end to a story, each      *)
(* handler takes its beginning, so that an empty inbox leaves the truth.   *)
(***************************************************************************)
EXTENDS RosterStory, TLAPS, FiniteSetTheorems, SequenceTheorems

(***************************************************************************)
(* Sequences.                                                              *)
(***************************************************************************)
(* A finite set is listed by SetToSeq. *)
LEMMA SetListed == ASSUME NEW S, IsFiniteSet(S)
                   PROVE  /\ SetToSeq(S) \in [1..Cardinality(S) -> S] /\ IsInjective(SetToSeq(S))
                          /\ Cardinality(S) \in Nat
<1> DEFINE P(f) == f \in [1..Cardinality(S) -> S] /\ IsInjective(f)
<1>1. ExistsBijection(1..Cardinality(S), S) /\ Cardinality(S) \in Nat
  BY FS_CardinalityType
<1>2. PICK g : P(g)
  BY <1>1 DEF ExistsBijection, Bijection, Injection
<1>3. SetToSeq(S) = CHOOSE f : P(f)
  BY DEF SetToSeq
<1> HIDE DEF P
<1>4. P(CHOOSE f : P(f))
  BY <1>2, Zenon
<1>5. P(SetToSeq(S))
  BY <1>3, <1>4, Zenon
<1> QED
  BY <1>1, <1>5 DEF P

(* Every element is in the list. *)
LEMMA SetListedAll == ASSUME NEW S, IsFiniteSet(S), NEW x \in S
                      PROVE  \E i \in 1..Cardinality(S) : SetToSeq(S)[i] = x
<1> DEFINE f == SetToSeq(S)
           n == Cardinality(S)
<1>1. f \in [1..n -> S] /\ IsInjective(f) /\ n \in Nat
  BY SetListed
<1>2. f \in Injection(1..n, S)
  BY <1>1 DEF Injection
<1>3. Cardinality(1..n) = n
  BY <1>1, FS_Interval
<1>4. f \in Surjection(1..n, S)
  BY <1>2, <1>3, FS_Injection
<1> QED
  BY <1>4 DEF Surjection

(***************************************************************************)
(* Types.                                                                  *)
(***************************************************************************)
(* What the server sends are messages. *)
LEMMA Introductions ==
    ASSUME NEW p \in People \cup {None}, NEW s \in SessionIds, NEW c \in ChannelIds, NEW b \in [Kinds -> BlobValues]
    PROVE  IntroMsg(p, s, c, b) \in UserMessage
<1>1. UserMsg(s) \in UserMessage
  BY DEF UserMsg, UserMessage
<1>2. [k \in Kinds |-> IF b[k] \in Long THEN b[k] ELSE "unset"] \in [Kinds -> Long \cup {"unset"}]
  OBVIOUS
<1>3. [k \in Kinds |-> IF b[k] \in Short THEN b[k] ELSE "unset"] \in [Kinds -> BlobValues \cup {"unset"}]
  OBVIOUS
<1> QED
  BY <1>2, <1>3 DEF IntroMsg, UserMsg, UserMessage

LEMMA UserMessages ==
    ASSUME TypeOK
    PROVE  /\ \A p \in People, s \in SessionIds : NewUserMsg(p, s) \in UserMessage
           /\ \A s \in SessionIds, c \in ChannelIds, a \in SessionIds : MoveMsg(s, c, a) \in UserMessage
           /\ \A s \in SessionIds, k \in Kinds, h \in Long : HashMsg(s, k, h) \in UserMessage
           /\ \A s \in SessionIds, k \in Kinds, b \in BlobValues : BlobMsg(s, k, b) \in UserMessage
<1>1. ASSUME NEW s \in SessionIds PROVE UserMsg(s) \in UserMessage
  BY DEF UserMsg, UserMessage
<1>2. ASSUME NEW p \in People, NEW s \in SessionIds PROVE NewUserMsg(p, s) \in UserMessage
  BY Introductions DEF TypeOK, NewUserMsg
<1>3. ASSUME NEW s \in SessionIds, NEW c \in ChannelIds, NEW a \in SessionIds
      PROVE  MoveMsg(s, c, a) \in UserMessage
  BY DEF MoveMsg, UserMsg, UserMessage
<1>4. ASSUME NEW s \in SessionIds, NEW k \in Kinds, NEW h \in Long PROVE HashMsg(s, k, h) \in UserMessage
  BY DEF HashMsg, UserMsg, UserMessage
<1>5. ASSUME NEW s \in SessionIds, NEW k \in Kinds, NEW b \in BlobValues
      PROVE  BlobMsg(s, k, b) \in UserMessage
  BY DEF BlobMsg, UserMsg, UserMessage
<1> QED
  BY <1>2, <1>3, <1>4, <1>5

LEMMA OtherMessages ==
    /\ \A c \in ChannelIds, d \in BlobValues :
          ChannelMsg(c, d) \in ChannelMessage /\ TextMsg(c, d) \in ChannelMessage
    /\ \A s \in SessionIds : RemoveMsg(s) \in Message /\ SyncMsg(s) \in Message
    /\ \A c \in ChannelIds : GoneMsg(c) \in Message
    /\ VersionMsg \in Message /\ UserMessage \subseteq Message /\ ChannelMessage \subseteq Message
<1>1. ASSUME NEW c \in ChannelIds, NEW d \in BlobValues
      PROVE  ChannelMsg(c, d) \in ChannelMessage /\ TextMsg(c, d) \in ChannelMessage
  <2>1. \A x \in BlobValues : /\ (IF x \in Long THEN x ELSE "unset") \in Long \cup {"unset"}
                              /\ (IF x \in Short THEN x ELSE "unset") \in BlobValues \cup {"unset"}
    OBVIOUS
  <2>2. None \in BlobValues
    BY DEF BlobValues
  <2>3. ChannelMsg(c, d) \in ChannelMessage
    BY <2>1 DEF ChannelMsg, ChannelMessage
  <2>4. TextMsg(c, d) \in ChannelMessage
    BY <2>1, <2>2 DEF TextMsg, ChannelMsg, ChannelMessage
  <2> QED
    BY <2>3, <2>4
<1> QED
  BY <1>1 DEF RemoveMsg, SyncMsg, GoneMsg, Message

(* A change at the server, and the message about it. *)
LEMMA TypeTell ==
    ASSUME TypeOK, NEW m \in Message, Tell(m),
           online' \in [People -> SessionIds \cup {None}], place' \in [People -> ChannelIds],
           blob' \in [People -> [Kinds -> BlobValues]],
           rooms' \in [ChannelIds -> [there : BOOLEAN, description : BlobValues]]
    PROVE  TypeOK'
<1>1. inbox' \in Seq(Message)
  BY DEF TypeOK, Tell
<1>2. news' \in 0..News
  BY RosterAssumption DEF TypeOK, Tell
<1> QED
  BY <1>1, <1>2 DEF TypeOK, Tell, roster

LEMMA TypeChange == ASSUME TypeOK, Server, ~Answer PROVE TypeOK'
<1> USE UserMessages, OtherMessages DEF FreeIds
<1>1. ASSUME NEW p \in People, Join(p) PROVE TypeOK'
  <2>1. PICK s \in FreeIds : online' = [online EXCEPT ![p] = s] /\ Tell(NewUserMsg(p, s))
    BY <1>1 DEF Join
  <2>2. NewUserMsg(p, s) \in Message /\ online' \in [People -> SessionIds \cup {None}]
    BY <2>1 DEF TypeOK
  <2> QED
    BY <1>1, <2>1, <2>2, TypeTell DEF Join, TypeOK
<1>2. ASSUME NEW p \in People, Leave(p) PROVE TypeOK'
  <2>1. RemoveMsg(online[p]) \in Message /\ online' \in [People -> SessionIds \cup {None}]
    BY <1>2 DEF Leave, TypeOK
  <2> QED
    BY <1>2, <2>1, TypeTell DEF Leave, TypeOK
<1>3. ASSUME NEW p \in People, NEW c \in ChannelIds, MoveTo(p, c) PROVE TypeOK'
  <2>1. PICK q \in People : online[q] # None /\ Tell(MoveMsg(online[p], c, online[q]))
    BY <1>3 DEF MoveTo
  <2>2. MoveMsg(online[p], c, online[q]) \in Message /\ place' \in [People -> ChannelIds]
    BY <1>3, <2>1 DEF MoveTo, TypeOK
  <2> QED
    BY <1>3, <2>1, <2>2, TypeTell DEF MoveTo, TypeOK
<1>4. ASSUME NEW p \in People, NEW k \in Kinds, NEW b \in Blobs \cup {None}, SetBlob(p, k, b) PROVE TypeOK'
  <2>1. online[p] \in SessionIds /\ b \in BlobValues
    BY <1>4 DEF SetBlob, TypeOK, BlobValues
  <2>2. (IF b \in Long THEN HashMsg(online[p], k, b) ELSE BlobMsg(online[p], k, b)) \in Message
    BY <2>1
  <2>3. blob' \in [People -> [Kinds -> BlobValues]]
    BY <1>4, <2>1 DEF SetBlob, TypeOK
  <2> QED
    BY <1>4, <2>2, <2>3, TypeTell DEF SetBlob, TypeOK
<1>5. ASSUME NEW c \in ChannelIds, NEW d \in Blobs \cup {None}, AddRoom(c, d) \/ SetDescription(c, d)
      PROVE  TypeOK'
  <2>1. ChannelMsg(c, d) \in Message /\ TextMsg(c, d) \in Message
    BY DEF BlobValues
  <2>2. rooms' \in [ChannelIds -> [there : BOOLEAN, description : BlobValues]]
    <3>1. CASE AddRoom(c, d)
      BY <3>1 DEF AddRoom, TypeOK, BlobValues
    <3>2. CASE SetDescription(c, d)
      BY <3>2 DEF SetDescription, TypeOK, BlobValues
    <3> QED
      BY <1>5, <3>1, <3>2
  <2>3. UNCHANGED <<online, place, blob>> /\ \E m \in Message : Tell(m)
    BY <1>5, <2>1 DEF AddRoom, SetDescription
  <2> QED
    BY <2>2, <2>3, TypeTell DEF TypeOK
<1>6. ASSUME NEW c \in ChannelIds, RemoveRoom(c) PROVE TypeOK'
  <2>1. rooms' \in [ChannelIds -> [there : BOOLEAN, description : BlobValues]] /\ GoneMsg(c) \in Message
    BY <1>6 DEF RemoveRoom, TypeOK, BlobValues
  <2> QED
    BY <1>6, <2>1, TypeTell DEF RemoveRoom, TypeOK
<1> QED
  BY <1>1, <1>2, <1>3, <1>4, <1>5, <1>6 DEF Server
(* The answer to a request: messages about blobs. *)
IsBlobMsg(m) == m.type \in {"UserState", "ChannelState"}

LEMMA AnswerQuiet ==
    ASSUME TypeOK, Answer
    PROVE  \E q \in Seq(Message) : inbox' = inbox \o q /\ \A i \in 1..Len(q) : IsBlobMsg(q[i])
<1>1. PICK r \in pending :
        /\ pending' = pending \ {r}
        /\ inbox' = inbox \o
             IF r[1] \in Kinds
             THEN LET who == {p \in People : online[p] = r[2] /\ blob[p][r[1]] # None}
                  IN  SetToSeq({BlobMsg(r[2], r[1], blob[p][r[1]]) : p \in who})
             ELSE IF rooms[r[2]].there /\ rooms[r[2]].description # None
                  THEN <<TextMsg(r[2], rooms[r[2]].description)>> ELSE <<>>
  BY DEF Answer
<1> DEFINE k   == r[1]
           s   == r[2]
           who == {p \in People : online[p] = s /\ blob[p][k] # None}
           out == {BlobMsg(s, k, blob[p][k]) : p \in who}
<1>2. (k \in Kinds /\ s \in SessionIds) \/ (k = "description" /\ s \in ChannelIds)
  BY DEF TypeOK
<1>3. CASE k \in Kinds
  <2>1. s \in SessionIds
    BY <1>2, <1>3 DEF Kinds
  <2>2. out \subseteq Message /\ \A m \in out : IsBlobMsg(m)
    <3>1. ASSUME NEW p \in who PROVE BlobMsg(s, k, blob[p][k]) \in UserMessage
      BY <1>3, <2>1, UserMessages DEF TypeOK
    <3>2. out \subseteq UserMessage
      BY <3>1
    <3>3. \A m \in UserMessage : m \in Message /\ IsBlobMsg(m)
      BY OtherMessages DEF UserMessage, IsBlobMsg
    <3> HIDE DEF out
    <3> QED
      BY <3>2, <3>3
  <2>3. IsFiniteSet(who)
    BY RosterAssumption, FS_Subset
  <2>4. IsFiniteSet(out)
    <3>1. [p \in who |-> BlobMsg(s, k, blob[p][k])] \in Surjection(who, out)
      BY DEF Surjection
    <3> QED
      BY <2>3, <3>1, FS_Surjection
  <2> HIDE DEF out
  <2>5. SetToSeq(out) \in [1..Cardinality(out) -> out] /\ Cardinality(out) \in Nat
    BY <2>4, SetListed
  <2>6. SetToSeq(out) \in Seq(Message) /\ \A i \in 1..Len(SetToSeq(out)) : IsBlobMsg(SetToSeq(out)[i])
    BY <2>2, <2>5
  <2>7. inbox' = inbox \o SetToSeq(out)
    BY <1>1, <1>3 DEF out
  <2> QED
    BY <2>6, <2>7
<1>4. CASE k \notin Kinds
  <2>1. rooms[s].description \in BlobValues /\ s \in ChannelIds
    BY <1>2, <1>4 DEF TypeOK
  <2>2. TextMsg(s, rooms[s].description) \in Message /\ IsBlobMsg(TextMsg(s, rooms[s].description))
    BY <2>1, OtherMessages DEF ChannelMessage, IsBlobMsg
  <2> DEFINE told == rooms[s].there /\ rooms[s].description # None
             one  == <<TextMsg(s, rooms[s].description)>>
  <2>3. one \in Seq(Message) /\ <<>> \in Seq(Message) /\ \A i \in 1..Len(one) : IsBlobMsg(one[i])
    BY <2>2
  <2>7. \A i \in 1..Len(<<>>) : IsBlobMsg(<<>>[i])
    OBVIOUS
  <2>4. inbox' = inbox \o (IF told THEN one ELSE <<>>)
    BY <1>1, <1>4, Zenon
  <2> HIDE DEF told, one
  <2>5. CASE told
    BY <2>3, <2>4, <2>5
  <2>6. CASE ~told
    <3>1. inbox' = inbox \o <<>>
      BY <2>4, <2>6
    <3> QED
      BY <2>3, <2>7, <3>1
  <2> QED
    BY <2>5, <2>6
<1> QED
  BY <1>3, <1>4

LEMMA TypeAnswer == ASSUME TypeOK, Answer PROVE TypeOK'
<1>1. PICK q \in Seq(Message) : inbox' = inbox \o q
  BY AnswerQuiet
<1>2. inbox' \in Seq(Message)
  BY <1>1, ConcatProperties DEF TypeOK
<1> QED
  BY <1>2 DEF Answer, TypeOK, server, roster

(* What the server lists when a connection begins. *)
ListedRooms     == Listing({c \in ChannelIds : rooms[c].there}, LAMBDA c : ChannelMsg(c, rooms[c].description))
ListedUsers(on) == Listing({p \in People : on[p] # None}, LAMBDA p : NewUserMsg(p, on[p]))

LEMMA RoomsListed ==
    ASSUME TypeOK
    PROVE  ListedRooms \in Seq(ChannelMessage)
<1> DEFINE S == {c \in ChannelIds : rooms[c].there}
           order == SetToSeq(S)
           n == Cardinality(S)
<1>1. IsFiniteSet(S)
  BY RosterAssumption, FS_Subset
<1>2. order \in [1..n -> S] /\ n \in Nat
  BY <1>1, SetListed
<1>3. ListedRooms = [i \in 1..n |-> ChannelMsg(order[i], rooms[order[i]].description)]
  BY <1>2 DEF ListedRooms, Listing
<1> HIDE DEF order, n
<1>4. ASSUME NEW i \in 1..n PROVE ChannelMsg(order[i], rooms[order[i]].description) \in ChannelMessage
  <2>1. order[i] \in ChannelIds
    BY <1>2
  <2> QED
    BY <2>1, OtherMessages DEF TypeOK
<1>5. ListedRooms \in [1..n -> ChannelMessage]
  BY <1>3, <1>4
<1> QED
  BY <1>2, <1>5

LEMMA UsersListed ==
    ASSUME TypeOK, NEW on \in [People -> SessionIds \cup {None}]
    PROVE  /\ ListedUsers(on) \in Seq(UserMessage)
           /\ \A p \in People : on[p] # None =>
                 \E i \in 1..Len(ListedUsers(on)) : ListedUsers(on)[i].session = on[p]
<1> DEFINE S == {p \in People : on[p] # None}
           order == SetToSeq(S)
           n == Cardinality(S)
<1>1. IsFiniteSet(S)
  BY RosterAssumption, FS_Subset
<1>2. order \in [1..n -> S] /\ n \in Nat
  BY <1>1, SetListed
<1>3. ListedUsers(on) = [i \in 1..n |-> NewUserMsg(order[i], on[order[i]])]
  BY <1>2 DEF ListedUsers, Listing
<1>4. ASSUME NEW p \in People, on[p] # None PROVE \E i \in 1..n : order[i] = p
  BY <1>1, <1>4, SetListedAll
<1> HIDE DEF order, n
<1>5. ASSUME NEW i \in 1..n
      PROVE  /\ NewUserMsg(order[i], on[order[i]]) \in UserMessage
             /\ NewUserMsg(order[i], on[order[i]]).session = on[order[i]]
  <2>1. order[i] \in People /\ on[order[i]] \in SessionIds
    BY <1>2
  <2> QED
    BY <2>1, UserMessages DEF NewUserMsg, IntroMsg, UserMsg
<1>6. ListedUsers(on) \in [1..n -> UserMessage]
  BY <1>3, <1>5
<1>7. ListedUsers(on) \in Seq(UserMessage) /\ Len(ListedUsers(on)) = n
  BY <1>2, <1>6
<1>8. ASSUME NEW p \in People, on[p] # None
      PROVE  \E i \in 1..n : ListedUsers(on)[i].session = on[p]
  <2>1. PICK i \in 1..n : order[i] = p
    BY <1>4, <1>8
  <2>2. ListedUsers(on)[i] = NewUserMsg(order[i], on[order[i]])
    BY <1>3
  <2> QED
    BY <1>5, <2>1, <2>2
<1> QED
  BY <1>7, <1>8

LEMMA TypeConnect == ASSUME TypeOK, Connect PROVE TypeOK'
<1>1. PICK s \in FreeIds :
        /\ online' = [online EXCEPT ![Me] = s]
        /\ inbox' = <<VersionMsg>> \o ListedRooms \o ListedUsers([online EXCEPT ![Me] = s]) \o <<SyncMsg(s)>>
  BY Zenon DEF Connect, ListedRooms, ListedUsers
<1> DEFINE now == [online EXCEPT ![Me] = s]
<1>2. s \in SessionIds /\ now \in [People -> SessionIds \cup {None}]
  BY DEF FreeIds, TypeOK
<1>3. /\ ListedRooms \in Seq(Message) /\ ListedUsers(now) \in Seq(Message)
      /\ <<VersionMsg>> \in Seq(Message) /\ <<SyncMsg(s)>> \in Seq(Message)
  <2>1. ListedRooms \in Seq(ChannelMessage) /\ ListedUsers(now) \in Seq(UserMessage)
    BY <1>2, RoomsListed, UsersListed
  <2>2. Seq(ChannelMessage) \subseteq Seq(Message) /\ Seq(UserMessage) \subseteq Seq(Message)
    BY OtherMessages
  <2>3. VersionMsg \in Message /\ SyncMsg(s) \in Message
    BY <1>2, OtherMessages
  <2> QED
    BY <2>1, <2>2, <2>3
<1> HIDE DEF now
<1>4. <<VersionMsg>> \o ListedRooms \in Seq(Message)
  BY <1>3, ConcatProperties
<1>5. <<VersionMsg>> \o ListedRooms \o ListedUsers(now) \in Seq(Message)
  BY <1>3, <1>4, ConcatProperties
<1>6. <<VersionMsg>> \o ListedRooms \o ListedUsers(now) \o <<SyncMsg(s)>> \in Seq(Message)
  BY <1>3, <1>5, ConcatProperties
<1>7. online' \in [People -> SessionIds \cup {None}] /\ inbox' \in Seq(Message)
  BY <1>1, <1>2, <1>6 DEF now
<1> QED
  BY <1>7, RosterAssumption DEF Connect, TypeOK, roster

LEMMA TypeDisconnect == ASSUME TypeOK, Disconnect PROVE TypeOK'
<1>1. inbox' \in Seq(Message)
  BY DEF Disconnect
<1>2. online' \in [People -> SessionIds \cup {None}]
  BY DEF Disconnect, TypeOK
<1> QED
  BY <1>1, <1>2 DEF Disconnect, TypeOK, roster

(* Taking a message. *)
LEMMA TypeTake ==
    ASSUME TypeOK, NEW type, Take(type)
    PROVE  /\ Head(inbox) \in Message /\ Head(inbox).type = type /\ inbox' \in Seq(Message)
           /\ UNCHANGED <<server, up, connections>>
<1>1. inbox \in Seq(Message) /\ inbox # <<>>
  BY DEF TypeOK, Take
<1>2. Head(inbox) \in Message /\ Tail(inbox) \in Seq(Message)
  BY <1>1
<1> QED
  BY <1>2 DEF Take

LEMMA TypeVersion == ASSUME TypeOK, HandleVersion PROVE TypeOK'
<1>1. inbox' \in Seq(Message) /\ UNCHANGED <<server, up, connections>>
  BY TypeTake DEF HandleVersion
<1> QED
  BY <1>1 DEF HandleVersion, TypeOK, server

LEMMA TypeUserRemove == ASSUME TypeOK, HandleUserRemove PROVE TypeOK'
<1>1. /\ inbox' \in Seq(Message) /\ UNCHANGED <<server, up, connections>>
      /\ Head(inbox) \in Message /\ Head(inbox).type = "UserRemove"
  BY TypeTake DEF HandleUserRemove
<1>2. Head(inbox).session \in SessionIds
  BY <1>1 DEF Message, UserMessage, ChannelMessage, VersionMsg
<1>3. users' \in [SessionIds -> UserType \cup {None}] /\ attached' \in BOOLEAN /\ view' \subseteq SessionIds
  BY <1>2 DEF HandleUserRemove, SetUser, TypeOK
<1> QED
  BY <1>1, <1>3 DEF HandleUserRemove, TypeOK, server

LEMMA TypeChannelRemove == ASSUME TypeOK, HandleChannelRemove PROVE TypeOK'
<1>1. /\ inbox' \in Seq(Message) /\ UNCHANGED <<server, up, connections>>
  BY TypeTake DEF HandleChannelRemove
<1>2. channels' \in [ChannelIds -> RoomType \cup {None}]
  BY DEF HandleChannelRemove, SetChannel, TypeOK
<1> QED
  BY <1>1, <1>2 DEF HandleChannelRemove, TypeOK, server

LEMMA TypeServerSync == ASSUME TypeOK, HandleServerSync PROVE TypeOK'
<1>1. /\ inbox' \in Seq(Message) /\ UNCHANGED <<server, up, connections>>
      /\ Head(inbox) \in Message /\ Head(inbox).type = "ServerSync"
  BY TypeTake DEF HandleServerSync
<1>2. Head(inbox).session \in SessionIds
  BY <1>1 DEF Message, UserMessage, ChannelMessage, VersionMsg
<1>3. Missing \subseteq (Kinds \X SessionIds) \cup ({"description"} \X ChannelIds)
  BY DEF Missing, MissingBlobs, InMap
<1>4. pending' \subseteq (Kinds \X SessionIds) \cup ({"description"} \X ChannelIds)
  BY <1>3 DEF HandleServerSync, TypeOK
<1>5. /\ myself' \in SessionIds \cup {None} /\ mySession' \in SessionIds \cup {None}
      /\ attached' \in BOOLEAN /\ view' \subseteq SessionIds
  BY <1>2 DEF HandleServerSync, TypeOK, InMap
<1> QED
  BY <1>1, <1>4, <1>5 DEF HandleServerSync, TypeOK, server

(* Channels. *)
LEMMA TypeChannelState == ASSUME TypeOK, HandleChannelState PROVE TypeOK'
<1> DEFINE m == Head(inbox)
           c == m.channel
<1>1. /\ inbox' \in Seq(Message) /\ UNCHANGED <<server, up, connections>>
      /\ m \in Message /\ m.type = "ChannelState"
  BY TypeTake DEF HandleChannelState
<1>2. m \in ChannelMessage
  BY <1>1 DEF Message, UserMessage, ChannelMessage, VersionMsg
<1> HIDE DEF m
<1>3. /\ c \in ChannelIds /\ m.hash \in Long \cup {"unset"} /\ m.inline \in BlobValues \cup {"unset"}
      /\ Given(m.hash) \in HashValues
  BY <1>2 DEF ChannelMessage, Given, HashValues
<1>4. ASSUME NEW h \in HashValues, NEW b \in BlobValues, StoreText(c, h, b) PROVE roomDb' \in [ChannelIds -> Row]
  BY <1>3, <1>4 DEF StoreText, TypeOK, Row, RoomType
<1>5. ASSUME NEW h \in HashValues, NEW b \in BlobValues, SetChannel(c, [hash |-> h, data |-> b])
      PROVE  channels' \in [ChannelIds -> RoomType \cup {None}]
  BY <1>3, <1>5 DEF SetChannel, TypeOK, RoomType
<1>6. ASSUME NEW h PROVE AskText(c, h) \subseteq {"description"} \X ChannelIds
  BY <1>3 DEF AskText
<1>7. StoredText(c) \in BlobValues
  BY <1>3 DEF StoredText, TypeOK, Row, RoomType, BlobValues
<1>8. None \in HashValues /\ None \in BlobValues /\ HashValues \subseteq BlobValues
  BY DEF HashValues, BlobValues, Long
<1>9. CASE channels[c] = None
  <2>1. CreateChannel(m)
    BY <1>9 DEF HandleChannelState, m
  <2>2. roomDb' \in [ChannelIds -> Row]
    BY <2>1, <1>4, <1>8 DEF CreateChannel, TypeOK
  <2>3. channels' \in [ChannelIds -> RoomType \cup {None}]
    <3> DEFINE b == IF m.hash = "unset" /\ m.inline = "unset" THEN None ELSE StoredText(c)
    <3>1. b \in BlobValues
      BY <1>7, <1>8
    <3>2. SetChannel(c, [hash |-> Given(m.hash), data |-> b])
      BY <2>1 DEF CreateChannel
    <3> HIDE DEF b
    <3> QED
      BY <3>1, <3>2, <1>3, <1>5
  <2>4. pending' \subseteq (Kinds \X SessionIds) \cup ({"description"} \X ChannelIds)
    BY <2>1, <1>6 DEF CreateChannel, TypeOK
  <2> QED
    BY <1>1, <2>2, <2>3, <2>4 DEF HandleChannelState, TypeOK, server
<1>10. CASE channels[c] # None
  <2> DEFINE channel == channels[c]
             h == IF m.inline = None THEN None ELSE IF m.hash = "unset" THEN channel.hash ELSE m.hash
             b == IF m.inline = "unset" THEN channel.data ELSE m.inline
  <2>1. UpdateChannel(m, channel)
    BY <1>10 DEF HandleChannelState, m
  <2>2. channel \in RoomType
    BY <1>3, <1>10 DEF TypeOK
  <2>3. channel.hash \in HashValues /\ channel.data \in BlobValues
    BY <2>2 DEF RoomType
  <2>4. h \in HashValues /\ b \in BlobValues /\ (m.inline # "unset" => m.inline \in BlobValues)
    <3>1. m.hash # "unset" => m.hash \in HashValues
      BY <1>3 DEF HashValues
    <3>2. m.inline # "unset" => m.inline \in BlobValues
      BY <1>3, <1>8
    <3> QED
      BY <2>3, <3>1, <3>2, <1>8
  <2>5. /\ SetChannel(c, [hash |-> h, data |-> b])
        /\ (StoreText(c, h, m.inline) /\ m.inline # "unset") \/ UNCHANGED roomDb
        /\ pending' = pending \/ pending' = pending \cup AskText(c, m.hash)
    BY <2>1 DEF UpdateChannel
  <2> HIDE DEF h, b, channel
  <2>6. channels' \in [ChannelIds -> RoomType \cup {None}]
    BY <2>4, <2>5, <1>5
  <2>7. roomDb' \in [ChannelIds -> Row]
    <3>1. CASE StoreText(c, h, m.inline) /\ m.inline # "unset"
      BY <3>1, <2>4, <1>4
    <3>2. CASE UNCHANGED roomDb
      BY <3>2 DEF TypeOK
    <3> QED
      BY <2>5, <3>1, <3>2
  <2>8. pending' \subseteq (Kinds \X SessionIds) \cup ({"description"} \X ChannelIds)
    BY <2>5, <1>6 DEF TypeOK
  <2> QED
    BY <1>1, <2>6, <2>7, <2>8 DEF HandleChannelState, TypeOK, server
<1> QED
  BY <1>9, <1>10

(* Users and the table of their blobs. *)
Table == [People \cup {None} -> [Kinds -> Row]]

LEMMA TypeStore ==
    ASSUME NEW d \in Table, NEW p \in People \cup {None}, NEW k \in Kinds,
           NEW h \in HashValues, NEW b \in BlobValues
    PROVE  Store(d, p, k, h, b) \in Table
<1>1. [hash |-> h, data |-> b] \in Row
  BY DEF Row, RoomType
<1>2. [d[p] EXCEPT ![k] = [hash |-> h, data |-> b]] \in [Kinds -> Row]
  BY <1>1 DEF Table
<1> QED
  BY <1>2 DEF Store, Table

LEMMA TypeFetched ==
    ASSUME NEW d \in Table, NEW p \in People \cup {None}, NEW k \in Kinds
    PROVE  Fetched(d, p, k) \in BlobValues
<1>1. d[p][k] \in Row
  BY DEF Table
<1> QED
  BY <1>1 DEF Fetched, Row, RoomType, BlobValues

LEMMA TypeRefreshed ==
    ASSUME NEW d \in Table, NEW u \in UserType, NEW k \in Kinds
    PROVE  Refreshed(d, u, k) \in UserType
<1>1. u.person \in People \cup {None} /\ u.data \in [Kinds -> BlobValues]
  BY DEF UserType
<1>2. Fetched(d, u.person, k) \in BlobValues
  BY <1>1, TypeFetched
<1>3. [u EXCEPT !.data[k] = Fetched(d, u.person, k)] \in UserType
  BY <1>1, <1>2 DEF UserType
<1> QED
  BY <1>3 DEF Refreshed

LEMMA TypeNewUser ==
    ASSUME TypeOK, NEW m \in UserMessage
    PROVE  NewUser(m) \in UserType /\ NewDb(m) \in Table
<1>1. /\ m.person \in People \cup {None} /\ m.channel \in ChannelIds \cup {"unset"}
      /\ m.hash \in [Kinds -> Long \cup {"unset"}] /\ m.inline \in [Kinds -> BlobValues \cup {"unset"}]
  BY DEF UserMessage
<1>2. None \in HashValues /\ None \in BlobValues /\ db \in Table
  BY DEF HashValues, BlobValues, TypeOK, Table
<1>3. ASSUME NEW d \in Table, NEW k \in Kinds PROVE Cleared(d, m, k) \in Table
  <2>1. Store(d, m.person, "comment", None, None) \in Table
    BY <1>1, <1>2, TypeStore DEF Kinds
  <2> QED
    BY <2>1 DEF Cleared
<1>4. "comment" \in Kinds /\ "texture" \in Kinds
  BY DEF Kinds
<1>5. Cleared(db, m, "comment") \in Table /\ NewDb(m) \in Table
  BY <1>2, <1>3, <1>4 DEF NewDb
<1>6. ASSUME NEW d \in Table, NEW k \in Kinds PROVE FirstData(d, m, k) \in BlobValues
  <2>1. Fetched(d, m.person, k) \in BlobValues
    BY <1>1, TypeFetched
  <2>2. Given(m.inline[k]) \in BlobValues
    BY <1>1, <1>2 DEF Given
  <2> QED
    BY <2>1, <2>2 DEF FirstData
<1>7. [k \in Kinds |-> Given(m.hash[k])] \in [Kinds -> HashValues]
  BY <1>1 DEF Given, HashValues
<1> DEFINE data == [k \in Kinds |-> FirstData(IF k = "comment" THEN db ELSE Cleared(db, m, "comment"), m, k)]
<1>8. data \in [Kinds -> BlobValues]
  BY <1>2, <1>5, <1>6
<1>9. (IF m.channel = "unset" THEN Root ELSE m.channel) \in ChannelIds
  BY <1>1, RosterAssumption
<1>10. NewUser(m) = [person |-> m.person, channel |-> IF m.channel = "unset" THEN Root ELSE m.channel,
                     hash |-> [k \in Kinds |-> Given(m.hash[k])], data |-> data]
  BY DEF NewUser
<1> HIDE DEF data
<1>11. NewUser(m) \in UserType
  BY <1>1, <1>7, <1>8, <1>9, <1>10 DEF UserType
<1> QED
  BY <1>5, <1>11

(* What a UserState may change has the type of the roster. *)
UserFields ==
    /\ users' \in [SessionIds -> UserType \cup {None}] /\ db' \in Table
    /\ pending' \subseteq (Kinds \X SessionIds) \cup ({"description"} \X ChannelIds)
    /\ myself' \in SessionIds \cup {None} /\ attached' \in BOOLEAN /\ alive' \in BOOLEAN
    /\ view' \subseteq SessionIds

LEMMA TypeSetUser ==
    ASSUME TypeOK, NEW s \in SessionIds, NEW u \in UserType, SetUser(s, u)
    PROVE  users' \in [SessionIds -> UserType \cup {None}]
BY DEF SetUser, TypeOK

LEMMA TypeAsked ==
    ASSUME NEW d, NEW u, NEW s \in SessionIds, NEW k \in Kinds
    PROVE  Asked(d, u, s, k) \subseteq Kinds \X SessionIds
BY DEF Asked

LEMMA TypeCreateUser ==
    ASSUME TypeOK, NEW m \in UserMessage, CreateUser(m)
    PROVE  UserFields
<1> DEFINE u == NewUser(m)
           d == NewDb(m)
           v == IF ready THEN Refreshed(d, Refreshed(d, u, "comment"), "texture") ELSE u
           raises == ready /\ \E k \in Kinds : Fails(d, u, k)
           asked == UNION {Asked(d, u, m.session, k) : k \in Kinds}
<1>1. m.session \in SessionIds
  BY DEF UserMessage
<1>2. u \in UserType /\ d \in Table
  BY TypeNewUser
<1>3. /\ db' = d /\ alive' = ~raises
      /\ pending' = pending \cup (IF ready THEN asked ELSE {})
      /\ IF raises THEN UNCHANGED <<users, myself, attached, view>>
         ELSE /\ SetUser(m.session, v)
              /\ IF m.session = mySession
                 THEN myself' = mySession /\ attached' = TRUE /\ UNCHANGED view
                 ELSE Created(m.session) /\ UNCHANGED <<myself, attached>>
  BY Zenon DEF CreateUser
<1> HIDE DEF u, d
<1>4. v \in UserType
  <2>1. Refreshed(d, u, "comment") \in UserType
    BY <1>2, TypeRefreshed DEF Kinds
  <2>2. Refreshed(d, Refreshed(d, u, "comment"), "texture") \in UserType
    BY <1>2, <2>1, TypeRefreshed DEF Kinds
  <2> QED
    BY <1>2, <2>2
<1>5. asked \subseteq Kinds \X SessionIds
  BY <1>1, TypeAsked
<1>6. alive' \in BOOLEAN
  BY <1>3
<1> HIDE DEF v, raises, asked
<1>7. users' \in [SessionIds -> UserType \cup {None}]
  <2>1. CASE raises
    BY <1>3, <2>1 DEF TypeOK
  <2>2. CASE ~raises
    BY <1>1, <1>3, <1>4, <2>2, TypeSetUser
  <2> QED
    BY <2>1, <2>2
<1>8. pending' \subseteq (Kinds \X SessionIds) \cup ({"description"} \X ChannelIds)
  BY <1>3, <1>5 DEF TypeOK
<1>9. myself' \in SessionIds \cup {None} /\ attached' \in BOOLEAN /\ view' \subseteq SessionIds
  BY <1>1, <1>3 DEF TypeOK, Created
<1> QED
  BY <1>2, <1>3, <1>6, <1>7, <1>8, <1>9 DEF UserFields

LEMMA TypeWithData ==
    ASSUME NEW m \in UserMessage, NEW k \in Kinds, NEW u \in UserType
    PROVE  WithData(m, k, u) \in UserType
<1>1. /\ u.data \in [Kinds -> BlobValues] /\ u.hash \in [Kinds -> HashValues]
      /\ m.inline[k] \in BlobValues \cup {"unset"} /\ None \in HashValues
  BY DEF UserType, UserMessage, HashValues
<1> DEFINE h == IF m.inline[k] = None THEN None ELSE u.hash[k]
<1>2. h \in HashValues
  BY <1>1
<1>3. [u EXCEPT !.data[k] = m.inline[k], !.hash[k] = IF m.inline[k] = None THEN None ELSE @]
        = [u EXCEPT !.data = [u.data EXCEPT ![k] = m.inline[k]], !.hash = [u.hash EXCEPT ![k] = h]]
  BY DEF UserType
<1> HIDE DEF h
<1>4. ASSUME m.inline[k] # "unset"
      PROVE  [u EXCEPT !.data = [u.data EXCEPT ![k] = m.inline[k]], !.hash = [u.hash EXCEPT ![k] = h]] \in UserType
  BY <1>1, <1>2, <1>4 DEF UserType
<1> QED
  BY <1>3, <1>4 DEF WithData

LEMMA TypeDbWith ==
    ASSUME NEW m \in UserMessage, NEW k \in Kinds, NEW u \in UserType, NEW d \in Table
    PROVE  DbWith(m, k, u, d) \in Table
<1>1. WithData(m, k, u) \in UserType
  BY TypeWithData
<1>2. WithData(m, k, u).hash[k] \in HashValues /\ WithData(m, k, u).data[k] \in BlobValues /\ u.person \in People \cup {None}
  BY <1>1 DEF UserType
<1>3. Store(d, u.person, k, WithData(m, k, u).hash[k], WithData(m, k, u).data[k]) \in Table
  BY <1>2, TypeStore
<1>4. m.inline[k] \in BlobValues \cup {"unset"}
  BY DEF UserMessage
<1>5. Store(d, u.person, k, WithData(m, k, u).hash[k], m.inline[k]) \in Table \/ m.inline[k] = "unset"
  BY <1>2, <1>4, TypeStore
<1> QED
  BY <1>3, <1>5 DEF DbWith

LEMMA TypeNewHash ==
    ASSUME TypeOK, NEW m \in UserMessage, NEW k \in Kinds, NEW u \in UserType, NEW d \in Table,
           m.hash[k] # "unset", NewHash(m, k, u, d)
    PROVE  /\ \E w \in UserType : SetUser(m.session, w)
           /\ db' \in Table /\ alive' \in BOOLEAN
           /\ pending' \subseteq (Kinds \X SessionIds) \cup ({"description"} \X ChannelIds)
<1> DEFINE v == [u EXCEPT !.hash[k] = m.hash[k]]
<1>1. m.session \in SessionIds /\ m.hash[k] \in HashValues
  BY DEF UserMessage, HashValues
<1>2. v \in UserType
  BY <1>1 DEF UserType
<1>3. /\ db' = d /\ pending' = pending \cup Asked(d, v, m.session, k)
      /\ alive' = ~Fails(d, v, k)
      /\ SetUser(m.session, IF Fails(d, v, k) THEN v ELSE Refreshed(d, v, k))
  BY DEF NewHash
<1> HIDE DEF v
<1>4. Refreshed(d, v, k) \in UserType
  BY <1>2, TypeRefreshed
<1>5. (IF Fails(d, v, k) THEN v ELSE Refreshed(d, v, k)) \in UserType
  BY <1>2, <1>4
<1>6. pending' \subseteq (Kinds \X SessionIds) \cup ({"description"} \X ChannelIds)
  BY <1>1, <1>3, TypeAsked DEF TypeOK
<1>7. alive' \in BOOLEAN
  BY <1>3
<1> QED
  BY <1>3, <1>5, <1>6, <1>7

(* An update puts a user back under its session. *)
LEMMA UpdateSets ==
    ASSUME TypeOK, NEW m \in UserMessage, NEW user \in UserType, UpdateUser(m, user)
    PROVE  /\ \E w \in UserType : SetUser(m.session, w)
           /\ db' \in Table /\ alive' \in BOOLEAN /\ UNCHANGED <<myself, attached, view>>
           /\ pending' \subseteq (Kinds \X SessionIds) \cup ({"description"} \X ChannelIds)
<1> DEFINE u == IF m.channel = "unset" THEN user ELSE [user EXCEPT !.channel = m.channel]
           v == WithData(m, "comment", u)
           d == DbWith(m, "comment", u, db)
<1>1. /\ IF m.hash["comment"] # "unset" THEN NewHash(m, "comment", u, db)
         ELSE IF m.hash["texture"] # "unset" THEN NewHash(m, "texture", v, d)
         ELSE /\ SetUser(m.session, WithData(m, "texture", v)) /\ db' = DbWith(m, "texture", v, d)
              /\ UNCHANGED <<pending, alive>>
      /\ UNCHANGED <<myself, attached, view>>
  BY Zenon DEF UpdateUser
<1>2. u \in UserType
  BY DEF UserType, UserMessage
<1>3. "comment" \in Kinds /\ "texture" \in Kinds /\ db \in Table
  BY DEF Kinds, TypeOK, Table
<1> HIDE DEF u
<1>4. v \in UserType /\ d \in Table
  BY <1>2, <1>3, TypeWithData, TypeDbWith
<1> HIDE DEF v, d
<1>5. WithData(m, "texture", v) \in UserType /\ DbWith(m, "texture", v, d) \in Table
  BY <1>3, <1>4, TypeWithData, TypeDbWith
<1>6. CASE m.hash["comment"] # "unset"
  BY <1>1, <1>2, <1>3, <1>6, TypeNewHash
<1>7. CASE m.hash["comment"] = "unset" /\ m.hash["texture"] # "unset"
  BY <1>1, <1>3, <1>4, <1>7, TypeNewHash
<1>8. CASE m.hash["comment"] = "unset" /\ m.hash["texture"] = "unset"
  <2>1. SetUser(m.session, WithData(m, "texture", v)) /\ db' \in Table /\ UNCHANGED <<pending, alive>>
    BY <1>1, <1>5, <1>8
  <2> QED
    BY <1>1, <1>5, <2>1 DEF TypeOK
<1> QED
  BY <1>6, <1>7, <1>8

LEMMA TypeUpdateUser ==
    ASSUME TypeOK, NEW m \in UserMessage, NEW user \in UserType, UpdateUser(m, user)
    PROVE  UserFields
<1>1. /\ \E w \in UserType : SetUser(m.session, w)
      /\ db' \in Table /\ alive' \in BOOLEAN /\ UNCHANGED <<myself, attached, view>>
      /\ pending' \subseteq (Kinds \X SessionIds) \cup ({"description"} \X ChannelIds)
  BY UpdateSets
<1>2. users' \in [SessionIds -> UserType \cup {None}]
  BY <1>1, TypeSetUser DEF UserMessage
<1> QED
  BY <1>1, <1>2 DEF UserFields, TypeOK

LEMMA TypeUserState == ASSUME TypeOK, HandleUserState PROVE TypeOK'
<1> DEFINE m == Head(inbox)
<1>1. /\ inbox' \in Seq(Message) /\ UNCHANGED <<server, up, connections>>
      /\ m \in Message /\ m.type = "UserState"
  BY TypeTake DEF HandleUserState
<1>2. m \in UserMessage
  BY <1>1 DEF Message, UserMessage, ChannelMessage, VersionMsg
<1>3. /\ IF users[m.session] = None \/ Stranger(m) THEN CreateUser(m) ELSE UpdateUser(m, users[m.session])
      /\ UNCHANGED <<channels, mySession, ready, roomDb>>
  BY Zenon DEF HandleUserState
<1> HIDE DEF m
<1>4. UserFields
  <2>1. CASE users[m.session] = None \/ Stranger(m)
    BY <1>2, <1>3, <2>1, TypeCreateUser
  <2>2. CASE ~(users[m.session] = None \/ Stranger(m))
    <3>1. users[m.session] \in UserType
      BY <1>2, <2>2 DEF TypeOK, UserMessage
    <3> QED
      BY <1>2, <1>3, <2>2, <3>1, TypeUpdateUser
  <2> QED
    BY <2>1, <2>2
<1> QED
  BY <1>1, <1>3, <1>4 DEF TypeOK, UserFields, server, Table

LEMMA TypeInit == Init => TypeOK
<1> SUFFICES ASSUME Init PROVE TypeOK
  OBVIOUS
<1>1. /\ online \in [People -> SessionIds \cup {None}] /\ place \in [People -> ChannelIds]
      /\ rooms \in [ChannelIds -> [there : BOOLEAN, description : BlobValues]]
  BY RosterAssumption DEF Init, BlobValues
<1>2. blob \in [People -> [Kinds -> BlobValues]]
  BY DEF Init, FirstBlobs, BlobValues, Long
<1>3. db \in [People \cup {None} -> [Kinds -> Row]] /\ roomDb \in [ChannelIds -> Row]
  BY DEF Init, Row
<1>4. inbox \in Seq(Message)
  BY DEF Init
<1>5. news \in 0..News /\ connections \in 0..Connections
  BY RosterAssumption DEF Init
<1>6. /\ users \in [SessionIds -> UserType \cup {None}] /\ channels \in [ChannelIds -> RoomType \cup {None}]
      /\ pending \subseteq (Kinds \X SessionIds) \cup ({"description"} \X ChannelIds)
  BY DEF Init
<1> QED
  BY <1>1, <1>2, <1>3, <1>4, <1>5, <1>6 DEF Init, TypeOK

(***************************************************************************)
(* The order of the messages of a connection.                              *)
(***************************************************************************)
(* A message that is appended: neither Version nor ServerSync, nor the
   removal of our own session. *)
Quiet(m) == m.type \notin {"Version", "ServerSync"} /\ (m.type = "UserRemove" => m.session # online[Me])

(* Messages that come last disturb nothing. *)
LEMMA Appended ==
    ASSUME IInv, NEW q \in Seq(Message), inbox' = inbox \o q, \A i \in 1..Len(q) : Quiet(q[i]),
           online'[Me] = online[Me], UNCHANGED <<up, alive, roster, ready, view>>
    PROVE  InOrder' /\ MeListed' /\ SyncedOK'
<1> DEFINE n == Len(inbox)
           k == Len(q)
<1>1. inbox \in Seq(Message) /\ n \in Nat /\ k \in Nat
  BY DEF IInv, TypeOK
<1>2. /\ DOMAIN inbox = 1..n /\ DOMAIN inbox' = 1..(n + k)
      /\ \A i \in 1..n : inbox'[i] = inbox[i]
      /\ \A i \in 1..(n + k) : i \in 1..n \/ (i - n \in 1..k /\ inbox'[i] = q[i - n])
  BY <1>1
<1> HIDE DEF n, k
<1>3. ASSUME NEW i \in 1..(n + k), i \notin 1..n
      PROVE  inbox'[i].type \notin {"Version", "ServerSync"} /\ (inbox'[i].type = "UserRemove" => inbox'[i].session # online[Me])
  BY <1>2, <1>3 DEF Quiet, k
<1>4. ASSUME NEW i \in 1..n PROVE i \in 1..(n + k)
  BY <1>1 DEF n, k
<1>5. \A i \in DOMAIN inbox' : IsAt(i, "Version")' => i \in DOMAIN inbox /\ IsAt(i, "Version")
  BY <1>2, <1>3 DEF IsAt
<1>6. \A i \in DOMAIN inbox' : IsAt(i, "ServerSync")' => i \in DOMAIN inbox /\ IsAt(i, "ServerSync")
  BY <1>2, <1>3 DEF IsAt
<1>7. \A i \in DOMAIN inbox : i \in DOMAIN inbox' /\ inbox'[i] = inbox[i] /\ \A type : IsAt(i, type) => IsAt(i, type)'
  BY <1>2, <1>4 DEF IsAt
<1>8. InOrder'
  <2>1. ASSUME NEW i \in DOMAIN inbox', IsAt(i, "Version")'
        PROVE  \E j \in DOMAIN inbox' : i < j /\ IsAt(j, "ServerSync")'
    <3>1. PICK j \in DOMAIN inbox : i < j /\ IsAt(j, "ServerSync")
      BY <1>5, <2>1 DEF IInv, InOrder
    <3> QED
      BY <1>7, <3>1
  <2>2. ASSUME NEW i \in DOMAIN inbox', IsAt(i, "ServerSync")'
        PROVE  inbox'[i].session = online'[Me]
    BY <1>6, <1>7, <2>2 DEF IInv, InOrder
  <2>3. ASSUME NEW i \in DOMAIN inbox', IsAt(i, "UserRemove")'
        PROVE  inbox'[i].session # online'[Me]
    BY <1>2, <1>3, <2>3 DEF IInv, InOrder, IsAt
  <2> QED
    BY <2>1, <2>2, <2>3 DEF InOrder
<1>9. MeListed'
  <2> SUFFICES ASSUME alive, NEW i \in DOMAIN inbox', IsAt(i, "ServerSync")'
               PROVE  MeIsComing(i)' \/ MeInMap'
    BY DEF MeListed
  <2>1. MeIsComing(i) \/ MeInMap
    BY <1>6 DEF IInv, MeListed
  <2>2. ASSUME MeIsComing(i) PROVE MeIsComing(i)'
    <3>1. PICK j \in DOMAIN inbox : /\ j < i /\ IsAt(j, "UserState") /\ inbox[j].session = online[Me]
                                    /\ \A v \in DOMAIN inbox : IsAt(v, "Version") => v < j
      BY <2>2 DEF MeIsComing
    <3> QED
      BY <1>5, <1>7, <3>1 DEF MeIsComing
  <2>3. ASSUME MeInMap PROVE MeInMap'
    BY <1>5, <2>3 DEF MeInMap, roster
  <2> QED
    BY <2>1, <2>2, <2>3
<1>10. SyncedOK'
  <2>1. Synced' => Synced
    <3> SUFFICES ASSUME Synced' PROVE Synced
      OBVIOUS
    <3>1. ASSUME NEW i \in DOMAIN inbox PROVE inbox[i].type \notin {"Version", "ServerSync"}
      <4>1. inbox'[i] = inbox[i] /\ i \in DOMAIN inbox'
        BY <1>7
      <4> QED
        BY <4>1 DEF Synced, OnItsWay
    <3> QED
      BY <3>1 DEF Synced, OnItsWay
  <2> QED
    BY <2>1 DEF IInv, SyncedOK, InMap, roster
<1> QED
  BY <1>8, <1>9, <1>10

(* What is left when the first message is taken. *)
LEMMA Rest ==
    ASSUME IInv, NEW type, Take(type)
    PROVE  /\ 1 \in DOMAIN inbox /\ IsAt(1, type) /\ inbox[1] = Head(inbox)
           /\ \A i \in DOMAIN inbox' : i + 1 \in DOMAIN inbox /\ inbox'[i] = inbox[i + 1]
           /\ \A i \in DOMAIN inbox : i = 1 \/ (i - 1 \in DOMAIN inbox' /\ inbox'[i - 1] = inbox[i])
           /\ DOMAIN inbox \subseteq Nat /\ DOMAIN inbox' \subseteq Nat
           /\ up /\ alive /\ UNCHANGED <<server, up, connections>>
<1>1. inbox \in Seq(Message) /\ inbox # <<>> /\ inbox' = Tail(inbox) /\ Head(inbox).type = type
  BY DEF IInv, TypeOK, Take
<1>2. /\ DOMAIN inbox = 1..Len(inbox) /\ DOMAIN inbox' = 1..(Len(inbox) - 1)
      /\ Len(inbox) \in Nat \ {0} /\ inbox[1] = Head(inbox)
      /\ \A i \in 1..(Len(inbox) - 1) : inbox'[i] = inbox[i + 1]
  BY <1>1
<1>3. up /\ alive
  BY DEF IInv, Distinct, Take
<1>4. \A i \in DOMAIN inbox' : i + 1 \in DOMAIN inbox /\ inbox'[i] = inbox[i + 1]
  BY <1>2
<1>5. \A i \in DOMAIN inbox : i = 1 \/ (i - 1 \in DOMAIN inbox' /\ inbox'[i - 1] = inbox[i])
  <2> SUFFICES ASSUME NEW i \in 1..Len(inbox), i # 1
               PROVE  i - 1 \in 1..(Len(inbox) - 1) /\ inbox'[i - 1] = inbox[i]
    BY <1>2
  <2>1. i - 1 \in 1..(Len(inbox) - 1) /\ (i - 1) + 1 = i
    BY <1>2
  <2> QED
    BY <1>2, <2>1
<1> QED
  BY <1>1, <1>2, <1>3, <1>4, <1>5 DEF IsAt, Take

LEMMA OurSession == ASSUME IInv, NEW type, Take(type) PROVE online[Me] \in SessionIds
BY Rest, RosterAssumption DEF IInv, Distinct, TypeOK

LEMMA OrderKept ==
    ASSUME IInv, NEW type, Take(type)
    PROVE  Distinct' /\ InOrder'
<1> USE Rest
<1>1. Distinct'
  BY DEF IInv, Distinct, server
<1>2. ASSUME NEW i \in DOMAIN inbox', IsAt(i, "Version")'
      PROVE  \E j \in DOMAIN inbox' : i < j /\ IsAt(j, "ServerSync")'
  <2>1. i + 1 \in DOMAIN inbox /\ IsAt(i + 1, "Version") /\ i \in Nat
    BY <1>2 DEF IsAt
  <2>2. PICK j \in DOMAIN inbox : i + 1 < j /\ IsAt(j, "ServerSync")
    BY <2>1 DEF IInv, InOrder
  <2>3. j # 1 /\ j \in Nat /\ i < j - 1
    BY <2>1, <2>2
  <2>4. j - 1 \in DOMAIN inbox' /\ IsAt(j - 1, "ServerSync")'
    BY <2>2, <2>3 DEF IsAt
  <2> QED
    BY <2>3, <2>4
<1>3. ASSUME NEW i \in DOMAIN inbox'
      PROVE  /\ IsAt(i, "ServerSync")' => inbox'[i].session = online'[Me]
             /\ IsAt(i, "UserRemove")' => inbox'[i].session # online'[Me]
  <2>1. i + 1 \in DOMAIN inbox /\ inbox'[i] = inbox[i + 1] /\ online' = online
    BY DEF server
  <2> QED
    BY <2>1 DEF IsAt, IInv, InOrder
<1> QED
  BY <1>1, <1>2, <1>3 DEF InOrder

(* We are listed or in the map, unless the step takes us out of it. *)
LEMMA ListedKept ==
    ASSUME IInv, NEW type, Take(type),
           alive' /\ type # "Version" /\ users[online[Me]] # None => users'[online[Me]] # None,
           alive' /\ type = "UserState" /\ Head(inbox).session = online[Me] => users'[online[Me]] # None
    PROVE  MeListed'
<1> USE Rest
<1> SUFFICES ASSUME alive', NEW i \in DOMAIN inbox', IsAt(i, "ServerSync")'
             PROVE  MeIsComing(i)' \/ MeInMap'
  BY DEF MeListed
<1>1. i + 1 \in DOMAIN inbox /\ IsAt(i + 1, "ServerSync") /\ i \in Nat /\ online' = online
  BY DEF IsAt, server
<1>2. MeIsComing(i + 1) \/ MeInMap
  BY <1>1 DEF IInv, MeListed
<1>3. ASSUME NEW v \in DOMAIN inbox', IsAt(v, "Version")' PROVE v + 1 \in DOMAIN inbox /\ IsAt(v + 1, "Version")
  BY <1>3 DEF IsAt
<1>4. CASE MeInMap
  <2>1. type # "Version" /\ users[online[Me]] # None
    BY <1>4 DEF MeInMap
  <2>2. \A v \in DOMAIN inbox' : ~IsAt(v, "Version")'
    BY <1>3, <1>4 DEF MeInMap
  <2> QED
    BY <1>1, <2>1, <2>2 DEF MeInMap
<1>5. CASE MeIsComing(i + 1)
  <2>1. PICK j \in DOMAIN inbox : /\ j < i + 1 /\ IsAt(j, "UserState") /\ inbox[j].session = online[Me]
                                  /\ \A v \in DOMAIN inbox : IsAt(v, "Version") => v < j
    BY <1>5 DEF MeIsComing
  <2>2. CASE j = 1
    <3>1. type = "UserState" /\ Head(inbox).session = online[Me]
      BY <2>1, <2>2 DEF IsAt
    <3>2. ASSUME NEW v \in DOMAIN inbox' PROVE ~IsAt(v, "Version")'
      <4>1. v \in Nat /\ ~(v + 1 < 1)
        BY Rest
      <4> QED
        BY <1>3, <2>1, <2>2, <4>1
    <3> QED
      BY <1>1, <3>1, <3>2 DEF MeInMap
  <2>3. CASE j # 1
    <3>1. j - 1 \in DOMAIN inbox' /\ inbox'[j - 1] = inbox[j] /\ j \in Nat
      BY <2>3
    <3>2. j - 1 < i /\ IsAt(j - 1, "UserState")' /\ inbox'[j - 1].session = online'[Me]
      BY <1>1, <2>1, <3>1 DEF IsAt
    <3>3. ASSUME NEW v \in DOMAIN inbox', IsAt(v, "Version")' PROVE v < j - 1
      <4>1. v + 1 < j /\ v \in Nat
        BY <1>3, <2>1, <3>3
      <4> QED
        BY <3>1, <4>1
    <3> QED
      BY <3>1, <3>2, <3>3 DEF MeIsComing
  <2> QED
    BY <2>2, <2>3
<1> QED
  BY <1>2, <1>4, <1>5

(***************************************************************************)
(* Each action keeps the invariant.                                        *)
(***************************************************************************)
LEMMA Told ==
    ASSUME IInv, NEW m \in Message, Tell(m), Quiet(m), online'[Me] = online[Me]
    PROVE  InOrder' /\ MeListed' /\ SyncedOK' /\ up' = up /\ alive' = alive /\ (~up => inbox' = <<>>)
<1>1. inbox \in Seq(Message) /\ UNCHANGED <<up, alive, roster, ready, view>> /\ (~up => inbox = <<>>)
  BY DEF IInv, TypeOK, Tell, Distinct
<1>2. CASE up
  <2>1. <<m>> \in Seq(Message) /\ inbox' = inbox \o <<m>> /\ \A i \in 1..Len(<<m>>) : Quiet(<<m>>[i])
    BY <1>1, <1>2, AppendIsConcat DEF Tell
  <2> QED
    BY <1>1, <1>2, <2>1, Appended
<1>3. CASE ~up
  <2>1. <<>> \in Seq(Message) /\ inbox' = inbox \o <<>> /\ \A i \in 1..Len(<<>>) : Quiet(<<>>[i])
    BY <1>1, <1>3 DEF Tell
  <2>2. inbox' = <<>>
    BY <1>1, <1>3 DEF Tell
  <2> QED
    BY <1>1, <2>1, <2>2, Appended
<1> QED
  BY <1>2, <1>3

LEMMA ChangeStep == ASSUME IInv, Server, ~Answer PROVE IInv'
<1> USE UserMessages, OtherMessages
<1> SUFFICES Distinct' /\ InOrder' /\ MeListed' /\ SyncedOK'
  BY TypeChange DEF IInv
<1>0. TypeOK /\ Distinct /\ None \notin SessionIds /\ Me \in People
  BY RosterAssumption DEF IInv
<1>1. ASSUME NEW p \in People, Join(p) PROVE Distinct' /\ InOrder' /\ MeListed' /\ SyncedOK'
  <2>1. PICK s \in FreeIds : online' = [online EXCEPT ![p] = s] /\ Tell(NewUserMsg(p, s))
    BY <1>1 DEF Join
  <2>2. /\ s \in SessionIds /\ \A x \in People : online[x] # s
        /\ NewUserMsg(p, s) \in Message /\ Quiet(NewUserMsg(p, s)) /\ online'[Me] = online[Me]
    BY <1>0, <1>1, <2>1 DEF FreeIds, Quiet, NewUserMsg, IntroMsg, UserMsg, TypeOK, Join
  <2>3. InOrder' /\ MeListed' /\ SyncedOK' /\ up' = up /\ alive' = alive /\ (~up => inbox' = <<>>)
    BY <2>1, <2>2, Told
  <2>4. \A x, y \in People : x # y /\ online'[x] = online'[y] => online'[x] = None
    BY <1>0, <2>1, <2>2 DEF Distinct, TypeOK
  <2> QED
    BY <1>0, <2>2, <2>3, <2>4 DEF Distinct
<1>2. ASSUME NEW p \in People, Leave(p) PROVE Distinct' /\ InOrder' /\ MeListed' /\ SyncedOK'
  <2>1. /\ RemoveMsg(online[p]) \in Message /\ online[p] # online[Me] /\ online'[Me] = online[Me]
        /\ \A x \in People : online'[x] = IF x = p THEN None ELSE online[x]
    BY <1>0, <1>2 DEF Leave, TypeOK, Distinct
  <2>2. Quiet(RemoveMsg(online[p])) /\ Tell(RemoveMsg(online[p]))
    BY <1>2, <2>1 DEF Quiet, RemoveMsg, Leave
  <2>3. InOrder' /\ MeListed' /\ SyncedOK' /\ up' = up /\ alive' = alive /\ (~up => inbox' = <<>>)
    BY <2>1, <2>2, Told
  <2> QED
    BY <1>0, <2>1, <2>3 DEF Distinct
<1>3. ASSUME online' = online, NEW m \in UserMessage \cup ChannelMessage \cup {GoneMsg(c) : c \in ChannelIds}, Tell(m)
      PROVE  Distinct' /\ InOrder' /\ MeListed' /\ SyncedOK'
  <2>1. m \in Message /\ Quiet(m)
    BY <1>3 DEF Quiet, UserMessage, ChannelMessage, GoneMsg
  <2>2. InOrder' /\ MeListed' /\ SyncedOK' /\ up' = up /\ alive' = alive /\ (~up => inbox' = <<>>)
    BY <1>3, <2>1, Told
  <2> QED
    BY <1>0, <1>3, <2>2 DEF Distinct
<1>4. ASSUME NEW p \in People, NEW c \in ChannelIds, MoveTo(p, c) PROVE Distinct' /\ InOrder' /\ MeListed' /\ SyncedOK'
  <2>1. PICK q \in People : online[q] # None /\ Tell(MoveMsg(online[p], c, online[q]))
    BY <1>4 DEF MoveTo
  <2>2. MoveMsg(online[p], c, online[q]) \in UserMessage
    BY <1>0, <1>4, <2>1 DEF MoveTo, TypeOK
  <2> QED
    BY <1>3, <1>4, <2>1, <2>2 DEF MoveTo
<1>5. ASSUME NEW p \in People, NEW k \in Kinds, NEW b \in Blobs \cup {None}, SetBlob(p, k, b)
      PROVE  Distinct' /\ InOrder' /\ MeListed' /\ SyncedOK'
  <2>1. online[p] \in SessionIds /\ b \in BlobValues
    BY <1>0, <1>5 DEF SetBlob, TypeOK, BlobValues
  <2>2. (IF b \in Long THEN HashMsg(online[p], k, b) ELSE BlobMsg(online[p], k, b)) \in UserMessage
    BY <1>0, <2>1
  <2> QED
    BY <1>3, <1>5, <2>2 DEF SetBlob
<1>6. ASSUME NEW c \in ChannelIds, NEW d \in Blobs \cup {None}, AddRoom(c, d) \/ SetDescription(c, d)
      PROVE  Distinct' /\ InOrder' /\ MeListed' /\ SyncedOK'
  <2>1. ChannelMsg(c, d) \in ChannelMessage /\ TextMsg(c, d) \in ChannelMessage
    BY DEF BlobValues
  <2>2. online' = online /\ \E m \in ChannelMessage : Tell(m)
    BY <1>6, <2>1 DEF AddRoom, SetDescription
  <2> QED
    BY <1>3, <2>2
<1>7. ASSUME NEW c \in ChannelIds, RemoveRoom(c) PROVE Distinct' /\ InOrder' /\ MeListed' /\ SyncedOK'
  BY <1>3, <1>7 DEF RemoveRoom
<1> QED
  BY <1>1, <1>2, <1>4, <1>5, <1>6, <1>7 DEF Server

LEMMA AnswerStep == ASSUME IInv, Answer PROVE IInv'
<1> SUFFICES Distinct' /\ InOrder' /\ MeListed' /\ SyncedOK'
  BY TypeAnswer DEF IInv
<1>1. PICK q \in Seq(Message) : inbox' = inbox \o q /\ \A i \in 1..Len(q) : Quiet(q[i])
  BY AnswerQuiet DEF IInv, IsBlobMsg, Quiet
<1>2. up /\ UNCHANGED <<up, alive, server, roster, ready, view>>
  BY DEF Answer
<1>3. InOrder' /\ MeListed' /\ SyncedOK'
  BY <1>1, <1>2, Appended DEF server
<1> QED
  BY <1>2, <1>3 DEF IInv, Distinct, server

(* The listing of a new connection: Version, the channels, the users, then
   ServerSync for the session we are given. *)
LEMMA ConnectStep == ASSUME IInv, Connect PROVE IInv'
<1> SUFFICES Distinct' /\ InOrder' /\ MeListed' /\ SyncedOK'
  BY TypeConnect DEF IInv
<1>1. PICK s \in FreeIds :
        /\ online' = [online EXCEPT ![Me] = s]
        /\ inbox' = <<VersionMsg>> \o ListedRooms \o ListedUsers([online EXCEPT ![Me] = s]) \o <<SyncMsg(s)>>
  BY Zenon DEF Connect, ListedRooms, ListedUsers
<1> DEFINE now == [online EXCEPT ![Me] = s]
           R == ListedRooms
           U == ListedUsers(now)
<1>2. /\ TypeOK /\ Distinct /\ Me \in People /\ s \in SessionIds /\ s # None
      /\ \A p \in People : online[p] # s
      /\ now \in [People -> SessionIds \cup {None}] /\ now[Me] = s
  BY RosterAssumption DEF IInv, FreeIds, TypeOK
<1>3. R \in Seq(ChannelMessage) /\ U \in Seq(UserMessage)
  BY <1>2, RoomsListed, UsersListed
<1>19. PICK a \in Nat, b \in Nat : a = Len(R) /\ b = Len(U)
  BY <1>3
<1>4. \E i \in 1..b : U[i].session = s
  BY <1>2, <1>19, UsersListed
<1>5. inbox' = <<VersionMsg>> \o R \o U \o <<SyncMsg(s)>> /\ online' = now
  BY <1>1, Zenon
<1> HIDE DEF now, R, U
<1>6. /\ a \in Nat /\ b \in Nat /\ DOMAIN inbox' = 1..(a + b + 2)
      /\ inbox'[1] = VersionMsg /\ inbox'[a + b + 2] = SyncMsg(s)
  BY <1>3, <1>5, <1>19
<1>15. \A i \in 1..b : inbox'[a + 1 + i] = U[i]
  BY <1>3, <1>5, <1>19
<1>16. \A i \in 2..(a + 1) : inbox'[i] = R[i - 1]
  BY <1>3, <1>5, <1>19
<1>17. \A i \in (a + 2)..(a + b + 1) : inbox'[i] = U[i - a - 1]
  BY <1>3, <1>5, <1>19
<1>18. \A i \in 2..(a + b + 1) : i \in 2..(a + 1) \/ i \in (a + 2)..(a + b + 1)
  BY <1>6
<1>7. ASSUME NEW i \in 2..(a + b + 1) PROVE inbox'[i].type \in {"ChannelState", "UserState"}
  <2>1. CASE i \in 2..(a + 1)
    <3>1. i - 1 \in 1..a
      BY <1>6, <2>1
    <3>2. R[i - 1] \in ChannelMessage
      BY <1>3, <1>19, <3>1
    <3> QED
      BY <1>16, <2>1, <3>2 DEF ChannelMessage
  <2>2. CASE i \in (a + 2)..(a + b + 1)
    <3>1. i - a - 1 \in 1..b
      BY <1>6, <2>2
    <3>2. U[i - a - 1] \in UserMessage
      BY <1>3, <1>19, <3>1
    <3> QED
      BY <1>17, <2>2, <3>2 DEF UserMessage
  <2> QED
    BY <1>18, <2>1, <2>2
<1>8. ASSUME NEW i \in DOMAIN inbox' PROVE i = 1 \/ i = a + b + 2 \/ i \in 2..(a + b + 1)
  BY <1>6
<1>9. /\ \A i \in DOMAIN inbox' : IsAt(i, "Version")' => i = 1
      /\ \A i \in DOMAIN inbox' : IsAt(i, "ServerSync")' => i = a + b + 2
      /\ \A i \in DOMAIN inbox' : ~IsAt(i, "UserRemove")'
  BY <1>6, <1>7, <1>8 DEF IsAt, VersionMsg, SyncMsg
<1>10. a + b + 2 \in DOMAIN inbox' /\ 1 \in DOMAIN inbox' /\ 1 < a + b + 2
       /\ IsAt(a + b + 2, "ServerSync")' /\ inbox'[a + b + 2].session = s /\ inbox'[1].type = "Version"
  BY <1>6 DEF IsAt, SyncMsg, VersionMsg
<1>11. InOrder'
  BY <1>2, <1>5, <1>9, <1>10 DEF InOrder
<1>12. Distinct'
  <2>1. \A p, q \in People : p # q /\ now[p] = now[q] => now[p] = None
    BY <1>2 DEF Distinct, TypeOK, now
  <2> QED
    BY <1>2, <1>5, <2>1 DEF Distinct, Connect
<1>13. MeListed'
  <2>1. PICK i \in 1..b : U[i].session = s
    BY <1>4
  <2>2. U[i] \in UserMessage
    BY <1>3, <1>19, <2>1
  <2>3. a + 1 + i \in DOMAIN inbox' /\ a + 1 + i < a + b + 2 /\ 1 < a + 1 + i
    BY <1>6, <2>1
  <2>4. IsAt(a + 1 + i, "UserState")' /\ inbox'[a + 1 + i].session = online'[Me]
    BY <1>2, <1>5, <1>15, <2>1, <2>2, <2>3 DEF IsAt, UserMessage
  <2>5. MeIsComing(a + b + 2)'
    BY <1>9, <2>3, <2>4 DEF MeIsComing
  <2> QED
    BY <1>9, <2>5 DEF MeListed
<1>14. SyncedOK'
  BY <1>10 DEF SyncedOK, Synced, OnItsWay
<1> QED
  BY <1>11, <1>12, <1>13, <1>14

LEMMA DisconnectStep == ASSUME IInv, Disconnect PROVE IInv'
<1> SUFFICES Distinct' /\ InOrder' /\ MeListed' /\ SyncedOK'
  BY TypeDisconnect DEF IInv
<1>1. Distinct'
  BY RosterAssumption DEF IInv, Distinct, Disconnect, TypeOK
<1>2. InOrder' /\ MeListed' /\ SyncedOK'
  BY DEF Disconnect, InOrder, MeListed, SyncedOK, Synced
<1> QED
  BY <1>1, <1>2

(* A message other than Version and ServerSync leaves the connection as
   synchronised as it was. *)
LEMMA StillSynced ==
    ASSUME IInv, NEW type, Take(type), type \notin {"Version", "ServerSync"}, Synced'
    PROVE  /\ ready /\ attached /\ myself = online[Me] /\ mySession = online[Me]
           /\ view = InMap \ {mySession} /\ mySession \in InMap /\ online' = online
<1>1. ASSUME NEW i \in DOMAIN inbox PROVE inbox[i].type \notin {"Version", "ServerSync"}
  <2>1. CASE i = 1
    BY <2>1, Rest DEF IsAt
  <2>2. CASE i # 1
    <3>1. i - 1 \in DOMAIN inbox' /\ inbox'[i - 1] = inbox[i]
      BY <2>2, Rest
    <3> QED
      BY <3>1 DEF Synced, OnItsWay
  <2> QED
    BY <2>1, <2>2
<1>2. up /\ alive /\ online' = online
  BY Rest DEF server
<1>3. Synced
  BY <1>1, <1>2 DEF Synced, OnItsWay
<1> QED
  BY <1>2, <1>3 DEF IInv, SyncedOK

LEMMA VersionStep == ASSUME IInv, HandleVersion PROVE IInv'
<1>1. Take("Version") /\ TypeOK'
  BY TypeVersion DEF HandleVersion, IInv
<1>2. Distinct' /\ InOrder'
  BY <1>1, OrderKept
<1>3. MeListed'
  BY <1>1, ListedKept
<1>4. ~Synced'
  <2>1. 1 \in DOMAIN inbox /\ IsAt(1, "Version")
    BY <1>1, Rest
  <2>2. PICK j \in DOMAIN inbox : 1 < j /\ IsAt(j, "ServerSync")
    BY <2>1 DEF IInv, InOrder
  <2>3. j - 1 \in DOMAIN inbox' /\ inbox'[j - 1] = inbox[j]
    BY <1>1, <2>2, Rest
  <2> QED
    BY <2>2, <2>3 DEF Synced, OnItsWay, IsAt
<1> QED
  BY <1>1, <1>2, <1>3, <1>4 DEF IInv, SyncedOK

LEMMA UserRemoveStep == ASSUME IInv, HandleUserRemove PROVE IInv'
<1> DEFINE s == Head(inbox).session
<1>1. Take("UserRemove") /\ TypeOK' /\ TypeOK
  BY TypeUserRemove DEF HandleUserRemove, IInv
<1>2. Distinct' /\ InOrder'
  BY <1>1, OrderKept
<1>3. s # online[Me] /\ users' = [users EXCEPT ![s] = None]
  <2>1. 1 \in DOMAIN inbox /\ IsAt(1, "UserRemove") /\ inbox[1] = Head(inbox)
    BY <1>1, Rest
  <2> QED
    BY <2>1 DEF IInv, InOrder, HandleUserRemove, SetUser
<1> HIDE DEF s
<1>4. \A x \in SessionIds : users'[x] = IF x = s THEN None ELSE users[x]
  BY <1>1, <1>3 DEF TypeOK
<1>5. MeListed'
  <2>1. ASSUME users[online[Me]] # None PROVE users'[online[Me]] # None
    <3>1. online[Me] \in SessionIds
      BY <1>1, OurSession
    <3> QED
      BY <1>3, <1>4, <2>1, <3>1
  <2> QED
    BY <1>1, <2>1, ListedKept
<1>6. SyncedOK'
  <2> SUFFICES ASSUME Synced'
               PROVE  /\ ready' /\ attached' /\ myself' = online'[Me] /\ mySession' = online'[Me]
                      /\ view' = InMap' \ {mySession'} /\ mySession' \in InMap'
    BY DEF SyncedOK
  <2>1. /\ ready /\ attached /\ myself = online[Me] /\ mySession = online[Me]
        /\ view = InMap \ {mySession} /\ mySession \in InMap /\ online' = online
    BY <1>1, StillSynced
  <2>2. /\ attached' = (attached /\ s # myself) /\ view' = IF users[s] # None THEN view \ {s} ELSE view
        /\ UNCHANGED <<myself, mySession, ready>>
    BY DEF HandleUserRemove, s
  <2>3. InMap' = InMap \ {s}
    BY <1>4 DEF InMap
  <2>4. view' = InMap' \ {mySession'}
    BY <2>1, <2>2, <2>3 DEF InMap
  <2> QED
    BY <1>3, <2>1, <2>2, <2>3, <2>4
<1> QED
  BY <1>1, <1>2, <1>5, <1>6 DEF IInv

LEMMA ChannelStep == ASSUME IInv, HandleChannelState \/ HandleChannelRemove PROVE IInv'
<1>1. /\ TypeOK' /\ UNCHANGED <<users, myself, attached, mySession, ready, alive, view>>
      /\ \E type \in {"ChannelState", "ChannelRemove"} : Take(type)
  BY TypeChannelState, TypeChannelRemove DEF HandleChannelState, HandleChannelRemove, IInv
<1>2. PICK type \in {"ChannelState", "ChannelRemove"} : Take(type)
  BY <1>1
<1>3. Distinct' /\ InOrder'
  BY <1>2, OrderKept
<1>4. MeListed'
  BY <1>1, <1>2, ListedKept
<1>5. Synced' => /\ ready /\ attached /\ myself = online[Me] /\ mySession = online[Me]
                 /\ view = InMap \ {mySession} /\ mySession \in InMap /\ online' = online
  BY <1>2, StillSynced
<1>6. SyncedOK'
  BY <1>1, <1>5 DEF SyncedOK, InMap
<1> QED
  BY <1>1, <1>3, <1>4, <1>6 DEF IInv

(* A UserState that is handled leaves its user in the map and the others as
   they are, and reports the one it creates. *)
Reported(s) ==
    \/ users[s] # None /\ UNCHANGED <<myself, attached, view>>
    \/ s = mySession /\ myself' = mySession /\ attached' = TRUE /\ UNCHANGED view
    \/ s # mySession /\ UNCHANGED <<myself, attached>> /\ Created(s)

LEMMA UserStateEffect ==
    ASSUME TypeOK, HandleUserState, alive'
    PROVE  /\ Head(inbox).session \in SessionIds /\ users'[Head(inbox).session] # None
           /\ \A x \in SessionIds : x # Head(inbox).session => users'[x] = users[x]
           /\ Reported(Head(inbox).session) /\ UNCHANGED <<mySession, ready>>
<1> DEFINE m == Head(inbox)
<1>1. m \in Message /\ m.type = "UserState"
  BY TypeTake DEF HandleUserState
<1>2. m \in UserMessage
  BY <1>1 DEF Message, UserMessage, ChannelMessage, VersionMsg
<1>3. /\ IF users[m.session] = None \/ Stranger(m) THEN CreateUser(m) ELSE UpdateUser(m, users[m.session])
      /\ UNCHANGED <<mySession, ready>>
  BY Zenon DEF HandleUserState
<1> HIDE DEF m
<1>4. m.session \in SessionIds
  BY <1>2 DEF UserMessage
<1>5. ASSUME NEW u \in UserType, SetUser(m.session, u)
      PROVE  /\ users'[m.session] # None
             /\ \A x \in SessionIds : x # m.session => users'[x] = users[x]
  BY <1>4, <1>5, NoneAssumption DEF SetUser, TypeOK
<1>6. CASE users[m.session] = None \/ Stranger(m)
  <2> DEFINE u == NewUser(m)
             d == NewDb(m)
             v == IF ready THEN Refreshed(d, Refreshed(d, u, "comment"), "texture") ELSE u
             raises == ready /\ \E k \in Kinds : Fails(d, u, k)
  <2>1. /\ alive' = ~raises
        /\ IF raises THEN UNCHANGED <<users, myself, attached, view>>
           ELSE /\ SetUser(m.session, v)
                /\ IF m.session = mySession
                   THEN myself' = mySession /\ attached' = TRUE /\ UNCHANGED view
                   ELSE Created(m.session) /\ UNCHANGED <<myself, attached>>
    BY <1>3, <1>6, Zenon DEF CreateUser
  <2>2. u \in UserType /\ d \in Table
    BY <1>2, TypeNewUser
  <2> HIDE DEF u, d
  <2>3. v \in UserType
    <3>1. Refreshed(d, u, "comment") \in UserType
      BY <2>2, TypeRefreshed DEF Kinds
    <3>2. Refreshed(d, Refreshed(d, u, "comment"), "texture") \in UserType
      BY <2>2, <3>1, TypeRefreshed DEF Kinds
    <3> QED
      BY <2>2, <3>2
  <2> HIDE DEF v, raises
  <2>4. SetUser(m.session, v) /\ Reported(m.session)
    BY <2>1 DEF Reported
  <2> QED
    BY <1>3, <1>4, <1>5, <2>3, <2>4 DEF m
<1>7. CASE ~(users[m.session] = None \/ Stranger(m))
  <2>1. users[m.session] \in UserType /\ UpdateUser(m, users[m.session])
    BY <1>3, <1>4, <1>7 DEF TypeOK
  <2>2. /\ \E u \in UserType : SetUser(m.session, u)
        /\ UNCHANGED <<myself, attached, view>>
    BY <1>2, <2>1, UpdateSets
  <2> QED
    BY <1>3, <1>4, <1>5, <1>7, <2>2 DEF m, Reported
<1> QED
  BY <1>6, <1>7

LEMMA UserStateStep == ASSUME IInv, HandleUserState PROVE IInv'
<1> DEFINE s == Head(inbox).session
<1>1. Take("UserState") /\ TypeOK' /\ TypeOK
  BY TypeUserState DEF HandleUserState, IInv
<1>2. Distinct' /\ InOrder'
  BY <1>1, OrderKept
<1>3. ASSUME alive'
      PROVE  /\ s \in SessionIds /\ users'[s] # None
             /\ \A x \in SessionIds : x # s => users'[x] = users[x]
             /\ Reported(s) /\ UNCHANGED <<mySession, ready>>
  BY <1>1, <1>3, UserStateEffect
<1>4. MeListed'
  <2>1. ASSUME alive', users[online[Me]] # None PROVE users'[online[Me]] # None
    <3>1. online[Me] \in SessionIds
      BY <1>1, OurSession
    <3> QED
      BY <1>3, <2>1, <3>1
  <2>2. ASSUME alive', s = online[Me] PROVE users'[online[Me]] # None
    BY <1>3, <2>2
  <2> QED
    BY <1>1, <2>1, <2>2, ListedKept
<1> HIDE DEF s
<1>5. SyncedOK'
  <2> SUFFICES ASSUME Synced'
               PROVE  /\ ready' /\ attached' /\ myself' = online'[Me] /\ mySession' = online'[Me]
                      /\ view' = InMap' \ {mySession'} /\ mySession' \in InMap'
    BY DEF SyncedOK
  <2>1. /\ ready /\ attached /\ myself = online[Me] /\ mySession = online[Me]
        /\ view = InMap \ {mySession} /\ mySession \in InMap /\ online' = online
    BY <1>1, StillSynced
  <2>2. /\ s \in SessionIds /\ users'[s] # None
        /\ \A x \in SessionIds : x # s => users'[x] = users[x]
        /\ Reported(s) /\ UNCHANGED <<mySession, ready>>
    BY <1>3 DEF Synced
  <2>3. InMap' = InMap \cup {s}
    BY <2>2 DEF InMap
  <2> QED
    BY <2>1, <2>2, <2>3 DEF InMap, Reported, Created
<1> QED
  BY <1>1, <1>2, <1>4, <1>5 DEF IInv

LEMMA ServerSyncStep == ASSUME IInv, HandleServerSync PROVE IInv'
<1> DEFINE s == Head(inbox).session
<1>1. Take("ServerSync") /\ TypeOK' /\ TypeOK
  BY TypeServerSync DEF HandleServerSync, IInv
<1>2. Distinct' /\ InOrder'
  BY <1>1, OrderKept
<1>3. /\ mySession' = s /\ ready' = TRUE /\ view' = InMap \ {s} /\ UNCHANGED <<users, alive>>
      /\ IF users[s] # None THEN myself' = s /\ attached' = TRUE ELSE UNCHANGED <<myself, attached>>
  BY DEF HandleServerSync
<1>4. MeListed'
  BY <1>1, <1>3, ListedKept
<1>5. SyncedOK'
  <2>1. 1 \in DOMAIN inbox /\ IsAt(1, "ServerSync") /\ inbox[1] = Head(inbox) /\ alive /\ DOMAIN inbox \subseteq Nat
    BY <1>1, Rest
  <2>2. s = online[Me] /\ online' = online
    BY <1>1, <2>1, Rest DEF IInv, InOrder, server
  <2>3. ~MeIsComing(1)
    <3>1. \A j \in DOMAIN inbox : ~(j < 1)
      BY Rest, <1>1 DEF IInv, TypeOK
    <3> QED
      BY <3>1 DEF MeIsComing
  <2>4. users[s] # None
    BY <2>1, <2>2, <2>3 DEF IInv, MeListed, MeInMap
  <2>5. s \in SessionIds
    <3>1. Head(inbox) \in Message /\ Head(inbox).type = "ServerSync"
      BY <1>1, TypeTake
    <3> QED
      BY <3>1 DEF Message, UserMessage, ChannelMessage, VersionMsg
  <2> HIDE DEF s
  <2>6. InMap' = InMap /\ s \in InMap
    BY <1>3, <2>4, <2>5 DEF InMap
  <2> QED
    BY <1>3, <2>2, <2>4, <2>6 DEF SyncedOK
<1> QED
  BY <1>1, <1>2, <1>4, <1>5 DEF IInv

LEMMA Inductive == Spec => []IInv
<1>1. Init => IInv
  <2>1. Init => TypeOK
    BY TypeInit
  <2>2. Init => Distinct /\ InOrder /\ MeListed /\ SyncedOK
    BY RosterAssumption DEF Init, Distinct, InOrder, MeListed, SyncedOK, Synced
  <2> QED
    BY <2>1, <2>2 DEF IInv
<1>2. IInv /\ [Next]_vars => IInv'
  <2> SUFFICES ASSUME IInv, [Next]_vars PROVE IInv'
    OBVIOUS
  <2>1. CASE Connect
    BY <2>1, ConnectStep
  <2>2. CASE Disconnect
    BY <2>2, DisconnectStep
  <2>3. CASE Server
    <3>1. CASE Answer
      BY <3>1, AnswerStep
    <3>2. CASE ~Answer
      BY <2>3, <3>2, ChangeStep
    <3> QED
      BY <3>1, <3>2
  <2>4. CASE Dispatch
    BY <2>4, VersionStep, UserStateStep, UserRemoveStep, ChannelStep, ServerSyncStep DEF Dispatch
  <2>5. CASE UNCHANGED vars
    <3>1. TypeOK'
      BY <2>5 DEF IInv, TypeOK, vars, server, roster
    <3>2. Distinct' /\ InOrder'
      BY <2>5 DEF IInv, Distinct, InOrder, IsAt, vars, server
    <3>3. MeListed'
      BY <2>5 DEF IInv, MeListed, MeIsComing, MeInMap, IsAt, vars, server, roster
    <3>4. SyncedOK'
      BY <2>5 DEF IInv, SyncedOK, Synced, OnItsWay, InMap, vars, server, roster
    <3> QED
      BY <3>1, <3>2, <3>3, <3>4 DEF IInv
  <2> QED
    BY <2>1, <2>2, <2>3, <2>4, <2>5 DEF Next
<1> QED
  BY <1>1, <1>2, PTL DEF Spec

(***************************************************************************)

(***************************************************************************)
(* The stories that the messages on their way tell.                        *)
(***************************************************************************)
LEMMA Marks ==
    /\ "unset" \notin ChannelIds /\ "unset" \notin BlobValues /\ "unset" \notin HashValues
    /\ "unset" \notin Blobs /\ "unset" # None /\ "unset" \notin SessionIds
    /\ "null" \notin Blobs /\ "null" # None /\ Long \subseteq Blobs /\ Short \subseteq Blobs
    /\ None \notin Blobs /\ None \notin People /\ None \notin SessionIds
    /\ Long \cap Short = {} /\ HashValues \subseteq BlobValues
BY RosterAssumption, MarkAssumption DEF BlobValues, HashValues, Long

(* What is appended comes last. *)
LEMMA LastAdded ==
    ASSUME NEW box \in Seq(Message), NEW m \in Message
    PROVE  /\ Len(box) \in Nat /\ Len(Append(box, m)) = Len(box) + 1
           /\ \A i \in 1..Len(box) : Append(box, m)[i] = box[i]
           /\ Append(box, m)[Len(box) + 1] = m
OBVIOUS

(* What is left when the first is taken. *)
LEMMA FirstTaken ==
    ASSUME NEW box \in Seq(Message), box # <<>>
    PROVE  /\ Len(box) \in Nat \ {0} /\ Len(Tail(box)) = Len(box) - 1 /\ Head(box) = box[1]
           /\ \A i \in 1..(Len(box) - 1) : Tail(box)[i] = box[i + 1]
OBVIOUS

(* What is so of a stretch of the messages is so when one more comes, and
   when the first is taken. *)
LEMMA StaysGrown ==
    ASSUME NEW box \in Seq(Message), NEW m \in Message, NEW s, NEW i \in 1..(Len(box) + 1)
    PROVE  /\ \A j \in 0..Len(box) : Stays(Append(box, m), i, j, s) <=> Stays(box, i, j, s)
           /\ Stays(Append(box, m), i, Len(box) + 1, s) <=> Stays(box, i, Len(box), s) /\ ~Removes(m, s)
<1> DEFINE n == Len(box)
           more == Append(box, m)
<1>1. n \in Nat /\ (\A l \in 1..n : more[l] = box[l]) /\ more[n + 1] = m
  BY LastAdded
<1>2. i \in 1..(n + 1)
  OBVIOUS
<1> SUFFICES /\ \A j \in 0..n : Stays(more, i, j, s) <=> Stays(box, i, j, s)
             /\ Stays(more, i, n + 1, s) <=> Stays(box, i, n, s) /\ ~Removes(m, s)
  OBVIOUS
<1> HIDE DEF n, more
<1>3. ASSUME NEW j \in 0..n PROVE \A l \in i..j : l \in 1..n
  BY <1>1, <1>2
<1>4. \A j \in 0..n : Stays(more, i, j, s) <=> Stays(box, i, j, s)
  BY <1>1, <1>3 DEF Stays
<1>5. \A l \in i..(n + 1) : l \in i..n \/ l = n + 1
  BY <1>1, <1>2
<1>6. n \in 0..n /\ n + 1 \in i..(n + 1) /\ \A l \in i..n : l \in i..(n + 1)
  BY <1>1, <1>2
<1>7. Stays(more, i, n + 1, s) <=> Stays(more, i, n, s) /\ ~Removes(m, s)
  BY <1>1, <1>5, <1>6 DEF Stays
<1> QED
  BY <1>4, <1>6, <1>7

LEMMA SilentGrown ==
    ASSUME NEW box \in Seq(Message), NEW m \in Message, NEW s, NEW k, NEW i \in 1..(Len(box) + 1)
    PROVE  /\ \A j \in 0..Len(box) : Silent(Append(box, m), i, j, s, k) <=> Silent(box, i, j, s, k)
           /\ Silent(Append(box, m), i, Len(box) + 1, s, k)
                <=> /\ Silent(box, i, Len(box), s, k) /\ ~Removes(m, s)
                    /\ Updates(m, s) => m.inline[k] = "unset"
<1> DEFINE n == Len(box)
           more == Append(box, m)
           Still(x) == ~Removes(x, s) /\ (Updates(x, s) => x.inline[k] = "unset")
<1>1. n \in Nat /\ (\A l \in 1..n : more[l] = box[l]) /\ more[n + 1] = m
  BY LastAdded
<1>2. i \in 1..(n + 1)
  OBVIOUS
<1>0. \A x, j : Silent(x, i, j, s, k) <=> \A l \in i..j : Still(x[l])
  BY DEF Silent
<1> SUFFICES /\ \A j \in 0..n : Silent(more, i, j, s, k) <=> Silent(box, i, j, s, k)
             /\ Silent(more, i, n + 1, s, k) <=> Silent(box, i, n, s, k) /\ Still(m)
  BY DEF Still
<1> HIDE DEF n, more, Still
<1>3. ASSUME NEW j \in 0..n PROVE \A l \in i..j : l \in 1..n
  BY <1>1, <1>2
<1>4. \A j \in 0..n : Silent(more, i, j, s, k) <=> Silent(box, i, j, s, k)
  BY <1>0, <1>1, <1>3
<1>5. \A l \in i..(n + 1) : l \in i..n \/ l = n + 1
  BY <1>1, <1>2
<1>6. n \in 0..n /\ n + 1 \in i..(n + 1) /\ \A l \in i..n : l \in i..(n + 1)
  BY <1>1, <1>2
<1>7. Silent(more, i, n + 1, s, k) <=> Silent(more, i, n, s, k) /\ Still(m)
  BY <1>0, <1>1, <1>5, <1>6
<1> QED
  BY <1>4, <1>6, <1>7

LEMMA StaysTail ==
    ASSUME NEW box \in Seq(Message), box # <<>>, NEW s, NEW i \in 1..Len(box), NEW j \in 0..(Len(box) - 1)
    PROVE  Stays(Tail(box), i, j, s) <=> Stays(box, i + 1, j + 1, s)
<1> DEFINE n == Len(box)
           rest == Tail(box)
<1>1. n \in Nat \ {0} /\ \A l \in 1..(n - 1) : rest[l] = box[l + 1]
  BY FirstTaken
<1>2. i \in 1..n /\ j \in 0..(n - 1)
  OBVIOUS
<1> SUFFICES Stays(rest, i, j, s) <=> Stays(box, i + 1, j + 1, s)
  OBVIOUS
<1> HIDE DEF n, rest
<1>3. ASSUME NEW l \in i..j PROVE l + 1 \in (i + 1)..(j + 1) /\ rest[l] = box[l + 1]
  BY <1>1, <1>2
<1>4. ASSUME NEW l \in (i + 1)..(j + 1) PROVE l - 1 \in i..j /\ (l - 1) + 1 = l
  BY <1>1, <1>2
<1>5. ASSUME NEW l \in (i + 1)..(j + 1) PROVE l - 1 \in i..j /\ rest[l - 1] = box[l]
  BY <1>3, <1>4
<1> QED
  BY <1>3, <1>5 DEF Stays

LEMMA SilentTail ==
    ASSUME NEW box \in Seq(Message), box # <<>>, NEW s, NEW k, NEW i \in 1..Len(box), NEW j \in 0..(Len(box) - 1)
    PROVE  Silent(Tail(box), i, j, s, k) <=> Silent(box, i + 1, j + 1, s, k)
<1> DEFINE n == Len(box)
           rest == Tail(box)
<1>1. n \in Nat \ {0} /\ \A l \in 1..(n - 1) : rest[l] = box[l + 1]
  BY FirstTaken
<1>2. i \in 1..n /\ j \in 0..(n - 1)
  OBVIOUS
<1> SUFFICES Silent(rest, i, j, s, k) <=> Silent(box, i + 1, j + 1, s, k)
  OBVIOUS
<1> HIDE DEF n, rest
<1>3. ASSUME NEW l \in i..j PROVE l + 1 \in (i + 1)..(j + 1) /\ rest[l] = box[l + 1]
  BY <1>1, <1>2
<1>4. ASSUME NEW l \in (i + 1)..(j + 1) PROVE l - 1 \in i..j /\ (l - 1) + 1 = l
  BY <1>1, <1>2
<1>5. ASSUME NEW l \in (i + 1)..(j + 1) PROVE l - 1 \in i..j /\ rest[l - 1] = box[l]
  BY <1>3, <1>4
<1> DEFINE Still(x) == ~Removes(x, s) /\ (Updates(x, s) => x.inline[k] = "unset")
<1>6. /\ Silent(rest, i, j, s, k) <=> \A l \in i..j : Still(rest[l])
      /\ Silent(box, i + 1, j + 1, s, k) <=> \A l \in (i + 1)..(j + 1) : Still(box[l])
  BY DEF Silent
<1> HIDE DEF Still
<1> QED
  BY <1>3, <1>5, <1>6

(* Nothing is removed where nothing is said, and in no part of a stretch where
   nothing is removed. *)
LEMMA Stretches ==
    ASSUME NEW box, NEW s
    PROVE  /\ \A i, j, k : Silent(box, i, j, s, k) => Stays(box, i, j, s)
           /\ \A i, j \in Nat, l \in Nat : Stays(box, i, j, s) /\ i <= l => Stays(box, l, j, s)
           /\ \A i, j \in Nat, l \in Nat : Stays(box, i, j, s) /\ l <= j => Stays(box, i, l, s)
           /\ \A i \in Nat : Stays(box, i + 1, i, s)
<1>1. \A i, j \in Nat, l \in Nat : i <= l => \A x \in l..j : x \in i..j
  OBVIOUS
<1>2. \A i, j \in Nat, l \in Nat : l <= j => \A x \in i..l : x \in i..j
  OBVIOUS
<1>3. \A i \in Nat : (i + 1)..i = {}
  OBVIOUS
<1> QED
  BY <1>1, <1>2, <1>3 DEF Stays, Silent

(* What a message makes of a fact, and what it leaves of it. *)
LEMMA AfterFacts ==
    ASSUME NEW x, NEW m \in Message, NEW s
    PROVE  /\ Removes(m, s) => After(x, m, s) = Nobody
           /\ ~Removes(m, s) /\ ~Updates(m, s) => After(x, m, s) = x
           /\ ~Removes(m, s) /\ Updates(m, s) => After(x, m, s).there
           /\ ~Removes(m, s) /\ x.there =>
                 /\ After(x, m, s).there /\ After(x, m, s).person = x.person
                 /\ \A k \in Kinds : x.blob[k] # None /\ (Updates(m, s) => m.inline[k] = "unset")
                                     => After(x, m, s).blob[k] # None
<1>1. Updates(m, s) => m \in UserMessage
  BY DEF Updates, Message, UserMessage, ChannelMessage, VersionMsg
<1>2. ASSUME Updates(m, s), NEW k \in Kinds PROVE m.hash[k] # None
  <2>1. m.hash \in [Kinds -> Long \cup {"unset"}]
    BY <1>1, <1>2 DEF UserMessage
  <2> QED
    BY <2>1, Marks
<1>3. ASSUME ~Removes(m, s), x.there, NEW k \in Kinds, x.blob[k] # None, Updates(m, s) => m.inline[k] = "unset"
      PROVE  After(x, m, s).blob[k] # None
  <2>1. CASE ~Updates(m, s)
    BY <1>3, <2>1 DEF After
  <2>2. CASE Updates(m, s)
    <3>1. After(x, m, s).blob[k] = TextAfter(m, k, x.blob[k])
      BY <1>3, <2>2 DEF After, Fact
    <3> QED
      BY <1>2, <1>3, <2>2, <3>1 DEF TextAfter
  <2> QED
    BY <2>1, <2>2
<1> QED
  BY <1>3 DEF After, Fact

(* A message that fits continues the story of a session. *)
LEMMA LeadsAppend ==
    ASSUME NEW box \in Seq(Message), NEW a, NEW z, NEW s, NEW m \in Message, Leads(a, box, z, s),
           Fits(z, m, s), After(z, m, s) \in Facts
    PROVE  Leads(a, Append(box, m), After(z, m, s), s)
<1> DEFINE n == Len(box)
           more == Append(box, m)
           x == After(z, m, s)
<1>1. PICK f \in [0..n -> Facts] :
        /\ f[0] = a /\ f[n] = z
        /\ Tells(f, box, s) /\ SamePerson(f, box, s) /\ KeepsTexts(f, box, s) /\ Introduced(f, box, s)
  BY Zenon DEF Leads
<1> DEFINE e == [i \in 0..(n + 1) |-> IF i = n + 1 THEN x ELSE f[i]]
<1>2. n \in Nat /\ Len(more) = n + 1 /\ (\A i \in 1..n : more[i] = box[i]) /\ more[n + 1] = m
  BY LastAdded
<1>3. e[n + 1] = x /\ (\A i \in 0..n : e[i] = f[i]) /\ e \in [0..(n + 1) -> Facts]
  BY <1>2
<1>4. ASSUME NEW i \in 1..(n + 1)
      PROVE  /\ \A j \in 0..n : Stays(more, i, j, s) <=> Stays(box, i, j, s)
             /\ Stays(more, i, n + 1, s) <=> Stays(box, i, n, s) /\ ~Removes(m, s)
             /\ \A k : /\ \A j \in 0..n : Silent(more, i, j, s, k) <=> Silent(box, i, j, s, k)
                       /\ Silent(more, i, n + 1, s, k)
                            <=> /\ Silent(box, i, n, s, k) /\ ~Removes(m, s)
                                /\ Updates(m, s) => m.inline[k] = "unset"
  BY StaysGrown, SilentGrown
<1>5. /\ Tells(f, box, s) <=> \A i \in 1..n : f[i] = After(f[i - 1], box[i], s) /\ Fits(f[i - 1], box[i], s)
      /\ Tells(e, more, s) <=> \A i \in 1..(n + 1) : e[i] = After(e[i - 1], more[i], s) /\ Fits(e[i - 1], more[i], s)
      /\ SamePerson(f, box, s) <=>
            \A i, j \in 0..n : i <= j /\ f[i].there /\ Stays(box, i + 1, j, s) => f[j].there /\ f[j].person = f[i].person
      /\ SamePerson(e, more, s) <=>
            \A i, j \in 0..(n + 1) : i <= j /\ e[i].there /\ Stays(more, i + 1, j, s) => e[j].there /\ e[j].person = e[i].person
  BY <1>2 DEF Tells, SamePerson
<1>6. /\ KeepsTexts(f, box, s) <=>
            \A i, j \in 0..n, k \in Kinds :
               i <= j /\ f[i].there /\ f[i].blob[k] # None /\ Silent(box, i + 1, j, s, k) => f[j].blob[k] # None
      /\ KeepsTexts(e, more, s) <=>
            \A i, j \in 0..(n + 1), k \in Kinds :
               i <= j /\ e[i].there /\ e[i].blob[k] # None /\ Silent(more, i + 1, j, s, k) => e[j].blob[k] # None
      /\ Introduced(f, box, s) <=> \A j \in 0..n : f[j].there => WasTold(box, f[0], j, s)
      /\ Introduced(e, more, s) <=> \A j \in 0..(n + 1) : e[j].there => WasTold(more, e[0], j, s)
  BY <1>2 DEF KeepsTexts, Introduced
<1> HIDE DEF n, more, x, e
<1>0. n \in 0..n /\ n + 1 \in 1..(n + 1) /\ (n + 1) - 1 = n /\ 0 \in 0..n
      /\ \A i \in 0..(n + 1) : i \in 0..n \/ i = n + 1
  BY <1>2
<1>7. n \in 0..n /\ n + 1 \in 1..(n + 1) /\ (n + 1) - 1 = n /\ 0 \in 0..n /\ e[0] = a
      /\ \A i \in 0..(n + 1) : i \in 0..n \/ i = n + 1
  BY <1>0, <1>1, <1>3
<1>8. /\ Removes(m, s) => ~x.there
      /\ ~Removes(m, s) /\ ~Updates(m, s) => x = z
      /\ ~Removes(m, s) /\ z.there =>
            /\ x.there /\ x.person = z.person
            /\ \A k \in Kinds : z.blob[k] # None /\ (Updates(m, s) => m.inline[k] = "unset") => x.blob[k] # None
  <2>1. ~Nobody.there
    BY DEF Nobody
  <2> QED
    BY <2>1, AfterFacts, Zenon DEF x
<1>9. Tells(e, more, s)
  <2> SUFFICES ASSUME NEW i \in 1..(n + 1)
               PROVE  e[i] = After(e[i - 1], more[i], s) /\ Fits(e[i - 1], more[i], s)
    BY <1>5
  <2>1. CASE i = n + 1
    BY <1>1, <1>2, <1>3, <1>7, <2>1 DEF x
  <2>2. CASE i # n + 1
    <3>1. i \in 1..n /\ i \in 0..n /\ i - 1 \in 0..n
      BY <1>2, <2>2
    <3> QED
      BY <1>1, <1>2, <1>3, <1>5, <3>1
  <2> QED
    BY <2>1, <2>2
<1>10. SamePerson(e, more, s)
  <2> SUFFICES ASSUME NEW i \in 0..(n + 1), NEW j \in 0..(n + 1), i <= j, e[i].there, Stays(more, i + 1, j, s)
               PROVE  e[j].there /\ e[j].person = e[i].person
    BY <1>5
  <2>1. CASE i = n + 1
    BY <1>2, <2>1
  <2>2. CASE i \in 0..n
    <3>1. i + 1 \in 1..(n + 1) /\ i <= n
      BY <1>2, <2>2
    <3>2. CASE j \in 0..n
      BY <1>1, <1>3, <1>4, <1>5, <2>2, <3>1, <3>2
    <3>3. CASE j = n + 1
      <4>1. Stays(box, i + 1, n, s) /\ ~Removes(m, s)
        BY <1>4, <3>1, <3>3
      <4>2. z.there /\ z.person = f[i].person
        BY <1>1, <1>3, <1>5, <1>7, <2>2, <3>1, <4>1
      <4> QED
        BY <1>3, <1>8, <2>2, <3>3, <4>1, <4>2
    <3> QED
      BY <1>7, <3>2, <3>3
  <2> QED
    BY <1>7, <2>1, <2>2
<1>11. KeepsTexts(e, more, s)
  <2> SUFFICES ASSUME NEW i \in 0..(n + 1), NEW j \in 0..(n + 1), NEW k \in Kinds, i <= j, e[i].there,
                      e[i].blob[k] # None, Silent(more, i + 1, j, s, k)
               PROVE  e[j].blob[k] # None
    BY <1>6
  <2>1. CASE i = n + 1
    BY <1>2, <2>1
  <2>2. CASE i \in 0..n
    <3>1. i + 1 \in 1..(n + 1) /\ i <= n
      BY <1>2, <2>2
    <3>2. CASE j \in 0..n
      BY <1>1, <1>3, <1>4, <1>6, <2>2, <3>1, <3>2
    <3>3. CASE j = n + 1
      <4>1. Silent(box, i + 1, n, s, k) /\ ~Removes(m, s) /\ (Updates(m, s) => m.inline[k] = "unset")
        BY <1>4, <3>1, <3>3
      <4>2. Stays(box, i + 1, n, s)
        BY <4>1, Stretches, Zenon
      <4>3. z.there
        BY <1>1, <1>3, <1>5, <1>7, <2>2, <3>1, <4>2
      <4>4. z.blob[k] # None
        BY <1>1, <1>3, <1>6, <1>7, <2>2, <3>1, <4>1
      <4> QED
        BY <1>3, <1>8, <3>3, <4>1, <4>3, <4>4
    <3> QED
      BY <1>7, <3>2, <3>3
  <2> QED
    BY <1>7, <2>1, <2>2
<1>12. Introduced(e, more, s)
  <2> SUFFICES ASSUME NEW j \in 0..(n + 1), e[j].there PROVE WasTold(more, a, j, s)
    BY <1>6, <1>7
  <2>1. CASE j \in 0..n
    <3>1. WasTold(box, a, j, s)
      BY <1>1, <1>3, <1>6, <2>1
    <3>2. \A i \in 1..j : i \in 1..n /\ i + 1 \in 1..(n + 1) /\ 1 \in 1..(n + 1)
      BY <1>2, <2>1
    <3>3. 1 \in 1..(n + 1)
      BY <1>2
    <3> QED
      BY <1>2, <1>4, <2>1, <3>1, <3>2, <3>3 DEF WasTold
  <2>2. CASE j = n + 1
    <3>1. x.there /\ ~Removes(m, s)
      BY <1>3, <1>8, <2>2
    <3>2. CASE Updates(m, s)
      <4>1. Updates(more[n + 1], s) /\ Stays(more, (n + 1) + 1, n + 1, s)
        <5>1. \A i \in Nat : Stays(more, i + 1, i, s)
          BY Stretches
        <5>2. n + 1 \in Nat
          BY <1>2
        <5> QED
          BY <1>2, <3>2, <5>1, <5>2
      <4> QED
        BY <1>7, <2>2, <4>1 DEF WasTold
    <3>3. CASE ~Updates(m, s)
      <4>1. WasTold(box, a, n, s)
        BY <1>1, <1>6, <1>7, <1>8, <3>1, <3>3
      <4>2. CASE a.there /\ Stays(box, 1, n, s)
        <5>1. Stays(more, 1, n + 1, s)
          BY <1>2, <1>4, <3>1, <4>2
        <5> QED
          BY <2>2, <4>2, <5>1 DEF WasTold
      <4>3. ASSUME NEW i \in 1..n, Updates(box[i], s), Stays(box, i + 1, n, s) PROVE WasTold(more, a, j, s)
        <5>1. i + 1 \in 1..(n + 1) /\ i \in 1..(n + 1) /\ more[i] = box[i]
          BY <1>2
        <5>2. Stays(more, i + 1, n + 1, s)
          BY <1>4, <3>1, <4>3, <5>1
        <5> QED
          BY <2>2, <4>3, <5>1, <5>2 DEF WasTold
      <4> QED
        BY <4>1, <4>2, <4>3 DEF WasTold
    <3> QED
      BY <3>2, <3>3
  <2> QED
    BY <1>7, <2>1, <2>2
<1>13. Leads(a, more, x, s)
  <2>1. e \in [0..Len(more) -> Facts] /\ e[Len(more)] = x
    BY <1>2, <1>3
  <2> QED
    BY <1>7, <1>9, <1>10, <1>11, <1>12, <2>1, Zenon DEF Leads
<1> QED
  BY <1>13 DEF more, x

(* The first message fits, and the others continue from what it makes. *)
LEMMA LeadsTail ==
    ASSUME NEW box \in Seq(Message), box # <<>>, NEW a, NEW z, NEW s, Leads(a, box, z, s)
    PROVE  Fits(a, Head(box), s) /\ Leads(After(a, Head(box), s), Tail(box), z, s)
<1> DEFINE n == Len(box)
           rest == Tail(box)
<1>1. PICK f \in [0..n -> Facts] :
        /\ f[0] = a /\ f[n] = z
        /\ Tells(f, box, s) /\ SamePerson(f, box, s) /\ KeepsTexts(f, box, s) /\ Introduced(f, box, s)
  BY Zenon DEF Leads
<1> DEFINE e == [i \in 0..(n - 1) |-> f[i + 1]]
<1>2. n \in Nat \ {0} /\ Len(rest) = n - 1 /\ Head(box) = box[1] /\ \A i \in 1..(n - 1) : rest[i] = box[i + 1]
  BY FirstTaken
<1>3. e \in [0..(n - 1) -> Facts] /\ \A i \in 0..(n - 1) : e[i] = f[i + 1]
  BY <1>2
<1>4. ASSUME NEW i \in 1..n, NEW j \in 0..(n - 1)
      PROVE  /\ Stays(rest, i, j, s) <=> Stays(box, i + 1, j + 1, s)
             /\ \A k : Silent(rest, i, j, s, k) <=> Silent(box, i + 1, j + 1, s, k)
  BY StaysTail, SilentTail
<1>5. /\ Tells(f, box, s) <=> \A i \in 1..n : f[i] = After(f[i - 1], box[i], s) /\ Fits(f[i - 1], box[i], s)
      /\ Tells(e, rest, s) <=> \A i \in 1..(n - 1) : e[i] = After(e[i - 1], rest[i], s) /\ Fits(e[i - 1], rest[i], s)
      /\ SamePerson(f, box, s) <=>
            \A i, j \in 0..n : i <= j /\ f[i].there /\ Stays(box, i + 1, j, s) => f[j].there /\ f[j].person = f[i].person
      /\ SamePerson(e, rest, s) <=>
            \A i, j \in 0..(n - 1) : i <= j /\ e[i].there /\ Stays(rest, i + 1, j, s) => e[j].there /\ e[j].person = e[i].person
  BY <1>2 DEF Tells, SamePerson
<1>6. /\ KeepsTexts(f, box, s) <=>
            \A i, j \in 0..n, k \in Kinds :
               i <= j /\ f[i].there /\ f[i].blob[k] # None /\ Silent(box, i + 1, j, s, k) => f[j].blob[k] # None
      /\ KeepsTexts(e, rest, s) <=>
            \A i, j \in 0..(n - 1), k \in Kinds :
               i <= j /\ e[i].there /\ e[i].blob[k] # None /\ Silent(rest, i + 1, j, s, k) => e[j].blob[k] # None
      /\ Introduced(f, box, s) <=> \A j \in 0..n : f[j].there => WasTold(box, f[0], j, s)
      /\ Introduced(e, rest, s) <=> \A j \in 0..(n - 1) : e[j].there => WasTold(rest, e[0], j, s)
  BY <1>2 DEF KeepsTexts, Introduced
<1>0. box[1] \in Message
  BY <1>2
<1> HIDE DEF n, rest, e
<1>7. ASSUME NEW i \in 0..(n - 1), NEW j \in 0..(n - 1)
      PROVE  /\ i + 1 \in 0..n /\ i + 1 \in 1..n /\ j + 1 \in 0..n /\ (i <= j => i + 1 <= j + 1)
             /\ e[i] = f[i + 1] /\ e[j] = f[j + 1]
  BY <1>2, <1>3
<1>8. /\ f[1] = After(a, box[1], s) /\ Fits(a, box[1], s)
      /\ 1 \in 1..n /\ 1 \in 0..n /\ 0 \in 0..n /\ 0 <= 1 /\ 0 + 1 = 1 /\ 1 + 1 = 2 /\ 0 \in 0..(n - 1)
  <2>1. 1 \in 1..n /\ 1 \in 0..n /\ 0 \in 0..n /\ 0 <= 1 /\ 0 + 1 = 1 /\ 1 + 1 = 2 /\ 1 - 1 = 0 /\ 0 \in 0..(n - 1)
    BY <1>2
  <2> QED
    BY <1>1, <1>5, <2>1
<1>9. e[0] = f[1] /\ e[n - 1] = z
  <2>1. (n - 1) + 1 = n /\ n - 1 \in 0..(n - 1) /\ 0 \in 0..(n - 1) /\ 0 + 1 = 1
    BY <1>2
  <2> QED
    BY <1>1, <1>3, <2>1
<1>10. Tells(e, rest, s)
  <2> SUFFICES ASSUME NEW i \in 1..(n - 1) PROVE e[i] = After(e[i - 1], rest[i], s) /\ Fits(e[i - 1], rest[i], s)
    BY <1>5
  <2>1. i + 1 \in 1..n /\ i \in 0..(n - 1) /\ i - 1 \in 0..(n - 1) /\ (i - 1) + 1 = i /\ (i + 1) - 1 = i
    BY <1>2
  <2> QED
    BY <1>1, <1>2, <1>3, <1>5, <2>1
<1>11. SamePerson(e, rest, s)
  <2> SUFFICES ASSUME NEW i \in 0..(n - 1), NEW j \in 0..(n - 1), i <= j, e[i].there, Stays(rest, i + 1, j, s)
               PROVE  e[j].there /\ e[j].person = e[i].person
    BY <1>5
  <2>1. Stays(box, (i + 1) + 1, j + 1, s)
    BY <1>4, <1>7
  <2> QED
    BY <1>1, <1>5, <1>7, <2>1
<1>12. KeepsTexts(e, rest, s)
  <2> SUFFICES ASSUME NEW i \in 0..(n - 1), NEW j \in 0..(n - 1), NEW k \in Kinds, i <= j, e[i].there,
                      e[i].blob[k] # None, Silent(rest, i + 1, j, s, k)
               PROVE  e[j].blob[k] # None
    BY <1>6
  <2>1. Silent(box, (i + 1) + 1, j + 1, s, k)
    BY <1>4, <1>7
  <2> QED
    BY <1>1, <1>6, <1>7, <2>1
<1>13. Introduced(e, rest, s)
  <2> SUFFICES ASSUME NEW j \in 0..(n - 1), e[j].there PROVE WasTold(rest, f[1], j, s)
    BY <1>6, <1>9
  <2>1. WasTold(box, a, j + 1, s)
    BY <1>1, <1>6, <1>7
  <2>2. j + 1 \in Nat /\ 1 \in Nat /\ 2 \in Nat /\ 1 <= j + 1 /\ 1 <= 2
    BY <1>2
  <2>3. ASSUME NEW i \in 1..n, Stays(box, i + 1, j + 1, s) PROVE Stays(rest, i, j, s)
    BY <1>4, <2>3
  <2>4. CASE a.there /\ Stays(box, 1, j + 1, s)
    <3>1. Stays(box, 1, 1, s) /\ Stays(box, 1 + 1, j + 1, s)
      BY <1>8, <2>2, <2>4, Stretches
    <3>2. f[1].there
      BY <1>1, <1>5, <1>8, <2>4, <3>1
    <3> QED
      BY <1>8, <2>3, <3>1, <3>2 DEF WasTold
  <2>5. ASSUME NEW i \in 1..(j + 1), Updates(box[i], s), Stays(box, i + 1, j + 1, s) PROVE WasTold(rest, f[1], j, s)
    <3>1. i \in 1..n
      BY <1>2
    <3>2. CASE i = 1
      <4>1. Updates(box[1], s) /\ ~Removes(box[1], s)
        BY <2>5, <3>2 DEF Updates, Removes
      <4>3. After(a, box[1], s).there
        BY <1>0, <4>1, AfterFacts
      <4>2. f[1].there
        BY <1>8, <4>3
      <4> QED
        BY <2>3, <2>5, <3>1, <3>2, <4>2 DEF WasTold
    <3>3. CASE i # 1
      <4>1. i - 1 \in 1..j /\ i - 1 \in 1..(n - 1) /\ (i - 1) + 1 = i /\ i \in 1..n
        BY <1>2, <3>3
      <4>2. Stays(rest, (i - 1) + 1, j, s) /\ rest[i - 1] = box[i]
        BY <1>2, <2>3, <2>5, <3>1, <4>1
      <4> QED
        BY <2>5, <4>1, <4>2 DEF WasTold
    <3> QED
      BY <3>2, <3>3
  <2> QED
    BY <2>1, <2>4, <2>5 DEF WasTold
<1>14. Leads(f[1], rest, z, s)
  <2>1. e \in [0..Len(rest) -> Facts] /\ e[Len(rest)] = z
    BY <1>2, <1>3, <1>9
  <2> QED
    BY <1>9, <1>10, <1>11, <1>12, <1>13, <2>1, Zenon DEF Leads
<1> QED
  BY <1>2, <1>8, <1>14 DEF rest

(* Without messages nothing changes, without removals nobody goes, without a
   message about a text it is not lost, and nobody is there without a message. *)
LEMMA LeadsEnd ==
    ASSUME NEW box \in Seq(Message), NEW a, NEW z, NEW s, Leads(a, box, z, s)
    PROVE  /\ a \in Facts /\ z \in Facts
           /\ box = <<>> => a = z
           /\ a.there /\ Stays(box, 1, Len(box), s) => z.there /\ z.person = a.person
           /\ \A k \in Kinds : a.there /\ a.blob[k] # None /\ Silent(box, 1, Len(box), s, k) => z.blob[k] # None
           /\ z.there => WasTold(box, a, Len(box), s)
<1> DEFINE n == Len(box)
<1>1. PICK f \in [0..n -> Facts] :
        /\ f[0] = a /\ f[n] = z
        /\ Tells(f, box, s) /\ SamePerson(f, box, s) /\ KeepsTexts(f, box, s) /\ Introduced(f, box, s)
  BY Zenon DEF Leads
<1>2. n \in Nat /\ 0 \in 0..n /\ n \in 0..n /\ 0 <= n /\ 0 + 1 = 1
  OBVIOUS
<1>3. box = <<>> => n = 0
  OBVIOUS
<1>4. a \in Facts /\ z \in Facts
  BY <1>1, <1>2
<1>5. a.there /\ Stays(box, 1, n, s) => z.there /\ z.person = a.person
  BY <1>1, <1>2 DEF SamePerson
<1>6. ASSUME NEW k \in Kinds, a.there, a.blob[k] # None, Silent(box, 1, n, s, k) PROVE z.blob[k] # None
  BY <1>1, <1>2, <1>6 DEF KeepsTexts
<1>7. z.there => WasTold(box, a, n, s)
  BY <1>1, <1>2 DEF Introduced
<1> QED
  BY <1>1, <1>3, <1>4, <1>5, <1>6, <1>7

(* A message that fits continues the story of a channel. *)
LEMMA LeadsRoomAppend ==
    ASSUME NEW box \in Seq(Message), NEW a, NEW z, NEW c, NEW m \in Message, LeadsRoom(a, box, z, c),
           FitsRoom(z, m, c), AfterRoom(z, m, c) \in RoomFacts
    PROVE  LeadsRoom(a, Append(box, m), AfterRoom(z, m, c), c)
<1> DEFINE n == Len(box)
           more == Append(box, m)
           x == AfterRoom(z, m, c)
<1>1. PICK f \in [0..n -> RoomFacts] :
        /\ f[0] = a /\ f[n] = z
        /\ \A i \in 1..n : f[i] = AfterRoom(f[i - 1], box[i], c) /\ FitsRoom(f[i - 1], box[i], c)
        /\ \A i, j \in 0..n :
             i <= j /\ (\A l \in (i + 1)..j : box[l].type # "Version" /\ ~Concerns(box[l], c)) => f[j] = f[i]
  BY DEF LeadsRoom
<1> DEFINE e == [i \in 0..(n + 1) |-> IF i = n + 1 THEN x ELSE f[i]]
<1>2. n \in Nat /\ Len(more) = n + 1 /\ (\A i \in 1..n : more[i] = box[i]) /\ more[n + 1] = m
  BY LastAdded
<1>3. e[n + 1] = x /\ (\A i \in 0..n : e[i] = f[i]) /\ e \in [0..(n + 1) -> RoomFacts]
  BY <1>2
<1>4. x = z \/ m.type = "Version" \/ Concerns(m, c)
  BY DEF AfterRoom
<1> HIDE DEF n, more, x, e
<1>7. ASSUME NEW i \in 1..(n + 1)
      PROVE  e[i] = AfterRoom(e[i - 1], more[i], c) /\ FitsRoom(e[i - 1], more[i], c)
  <2>1. CASE i = n + 1
    <3>1. i - 1 = n /\ n \in 0..n
      BY <1>2, <2>1
    <3> QED
      BY <1>1, <1>2, <1>3, <2>1, <3>1 DEF x
  <2>2. CASE i # n + 1
    <3>1. i \in 1..n /\ i \in 0..n /\ i - 1 \in 0..n
      BY <1>2, <2>2
    <3> QED
      BY <1>1, <1>2, <1>3, <3>1
  <2> QED
    BY <2>1, <2>2
<1>8. ASSUME NEW i \in 0..(n + 1), NEW j \in 0..(n + 1), i <= j,
             \A l \in (i + 1)..j : more[l].type # "Version" /\ ~Concerns(more[l], c)
      PROVE  e[j] = e[i]
  <2>1. CASE j \in 0..n
    <3>1. i \in 0..n /\ \A l \in (i + 1)..j : l \in 1..n
      BY <1>2, <1>8, <2>1
    <3>2. \A l \in (i + 1)..j : box[l].type # "Version" /\ ~Concerns(box[l], c)
      BY <1>2, <1>8, <3>1
    <3> QED
      BY <1>1, <1>3, <1>8, <2>1, <3>1, <3>2
  <2>2. CASE i = n + 1
    BY <1>2, <1>8, <2>2
  <2>3. CASE i \in 0..n /\ j = n + 1
    <3>1. /\ \A l \in (i + 1)..n : l \in 1..n /\ l \in (i + 1)..j
          /\ n \in 0..n /\ i <= n /\ n + 1 \in (i + 1)..j
      BY <1>2, <2>3
    <3>2. \A l \in (i + 1)..n : box[l].type # "Version" /\ ~Concerns(box[l], c)
      BY <1>2, <1>8, <3>1
    <3>3. f[n] = f[i] /\ m.type # "Version" /\ ~Concerns(m, c)
      BY <1>1, <1>2, <1>3, <1>8, <2>3, <3>1, <3>2
    <3> QED
      BY <1>1, <1>3, <1>4, <2>3, <3>3
  <2> QED
    BY <1>2, <2>1, <2>2, <2>3
<1>9. e[0] = a /\ e[Len(more)] = x
  BY <1>1, <1>2, <1>3
<1>10. /\ e \in [0..Len(more) -> RoomFacts]
       /\ \A i \in 1..Len(more) : e[i] = AfterRoom(e[i - 1], more[i], c) /\ FitsRoom(e[i - 1], more[i], c)
       /\ \A i, j \in 0..Len(more) :
            i <= j /\ (\A l \in (i + 1)..j : more[l].type # "Version" /\ ~Concerns(more[l], c)) => e[j] = e[i]
  BY <1>2, <1>3, <1>7, <1>8
<1>11. LeadsRoom(a, more, x, c)
  BY <1>9, <1>10, Zenon DEF LeadsRoom
<1> QED
  BY <1>11 DEF more, x

LEMMA LeadsRoomTail ==
    ASSUME NEW box \in Seq(Message), box # <<>>, NEW a, NEW z, NEW c, LeadsRoom(a, box, z, c)
    PROVE  FitsRoom(a, Head(box), c) /\ LeadsRoom(AfterRoom(a, Head(box), c), Tail(box), z, c)
<1> DEFINE n == Len(box)
           rest == Tail(box)
<1>1. PICK f \in [0..n -> RoomFacts] :
        /\ f[0] = a /\ f[n] = z
        /\ \A i \in 1..n : f[i] = AfterRoom(f[i - 1], box[i], c) /\ FitsRoom(f[i - 1], box[i], c)
        /\ \A i, j \in 0..n :
             i <= j /\ (\A l \in (i + 1)..j : box[l].type # "Version" /\ ~Concerns(box[l], c)) => f[j] = f[i]
  BY DEF LeadsRoom
<1> DEFINE e == [i \in 0..(n - 1) |-> f[i + 1]]
<1>2. n \in Nat \ {0} /\ Len(rest) = n - 1 /\ Head(box) = box[1] /\ \A i \in 1..(n - 1) : rest[i] = box[i + 1]
  BY FirstTaken
<1>3. e \in [0..(n - 1) -> RoomFacts] /\ \A i \in 0..(n - 1) : e[i] = f[i + 1]
  BY <1>2
<1> HIDE DEF n, rest, e
<1>4. f[1] = AfterRoom(a, Head(box), c) /\ FitsRoom(a, Head(box), c)
  <2>1. 1 \in 1..n /\ 1 - 1 = 0
    BY <1>2
  <2> QED
    BY <1>1, <1>2, <2>1
<1>5. e[0] = f[1] /\ e[n - 1] = z
  BY <1>1, <1>2, <1>3
<1>6. ASSUME NEW i \in 1..(n - 1) PROVE e[i] = AfterRoom(e[i - 1], rest[i], c) /\ FitsRoom(e[i - 1], rest[i], c)
  <2>1. i + 1 \in 1..n /\ i \in 0..(n - 1) /\ i - 1 \in 0..(n - 1) /\ (i - 1) + 1 = i /\ (i + 1) - 1 = i
    BY <1>2
  <2> QED
    BY <1>1, <1>2, <1>3, <2>1
<1>7. ASSUME NEW i \in 0..(n - 1), NEW j \in 0..(n - 1), i <= j,
             \A l \in (i + 1)..j : rest[l].type # "Version" /\ ~Concerns(rest[l], c)
      PROVE  e[j] = e[i]
  <2>1. i + 1 \in 0..n /\ j + 1 \in 0..n /\ i + 1 <= j + 1
    BY <1>2, <1>7
  <2>2. ASSUME NEW l \in ((i + 1) + 1)..(j + 1) PROVE box[l].type # "Version" /\ ~Concerns(box[l], c)
    <3>1. l - 1 \in (i + 1)..j /\ l - 1 \in 1..(n - 1) /\ (l - 1) + 1 = l
      BY <1>2
    <3> QED
      BY <1>2, <1>7, <3>1
  <2> QED
    BY <1>1, <1>3, <1>7, <2>1, <2>2
<1>8. /\ e \in [0..Len(rest) -> RoomFacts] /\ e[0] = f[1] /\ e[Len(rest)] = z
      /\ \A i \in 1..Len(rest) : e[i] = AfterRoom(e[i - 1], rest[i], c) /\ FitsRoom(e[i - 1], rest[i], c)
      /\ \A i, j \in 0..Len(rest) :
           i <= j /\ (\A l \in (i + 1)..j : rest[l].type # "Version" /\ ~Concerns(rest[l], c)) => e[j] = e[i]
  BY <1>2, <1>3, <1>5, <1>6, <1>7
<1>9. LeadsRoom(f[1], rest, z, c)
  BY <1>8, Zenon DEF LeadsRoom
<1> QED
  BY <1>4, <1>9 DEF rest

LEMMA LeadsRoomEnd ==
    ASSUME NEW box \in Seq(Message), NEW a, NEW z, NEW c, LeadsRoom(a, box, z, c)
    PROVE  /\ a \in RoomFacts /\ z \in RoomFacts
           /\ box = <<>> => a = z
           /\ (\A l \in 1..Len(box) : box[l].type # "Version" /\ ~Concerns(box[l], c)) => z = a
<1> DEFINE n == Len(box)
<1>1. PICK f \in [0..n -> RoomFacts] :
        /\ f[0] = a /\ f[n] = z
        /\ \A i, j \in 0..n :
             i <= j /\ (\A l \in (i + 1)..j : box[l].type # "Version" /\ ~Concerns(box[l], c)) => f[j] = f[i]
  BY DEF LeadsRoom
<1>2. n \in Nat /\ 0 \in 0..n /\ n \in 0..n /\ 0 <= n /\ 0 + 1 = 1
  OBVIOUS
<1>3. box = <<>> => n = 0
  OBVIOUS
<1> HIDE DEF n
<1> QED
  BY <1>1, <1>2, <1>3 DEF n

(***************************************************************************)
(* What is true at the server.                                             *)
(***************************************************************************)
LEMMA TruthIs ==
    ASSUME TypeOK, Distinct, NEW s \in SessionIds
    PROVE  /\ \A p \in People : online[p] = s => Truth(s) = Fact(p, place[p], blob[p])
           /\ (\A p \in People : online[p] # s) => Truth(s) = Nobody
           /\ Truth(s).there <=> \E p \in People : online[p] = s
           /\ Truth(s) \in Facts
<1>1. ASSUME NEW p \in People, online[p] = s PROVE Truth(s) = Fact(p, place[p], blob[p])
  <2>1. \A q \in People : online[q] = s => q = p
    BY <1>1, Marks DEF Distinct
  <2>2. (CHOOSE q \in People : online[q] = s) = p
    BY <1>1, <2>1
  <2> QED
    BY <1>1, <2>2 DEF Truth
<1>2. (\A p \in People : online[p] # s) => Truth(s) = Nobody
  BY DEF Truth
<1>3. ASSUME NEW p \in People PROVE Fact(p, place[p], blob[p]) \in Facts
  BY DEF Fact, Facts, TypeOK
<1>4. Nobody \in Facts
  BY RosterAssumption DEF Nobody, Facts, BlobValues
<1>5. Truth(s).there <=> \E p \in People : online[p] = s
  <2>1. CASE \E p \in People : online[p] = s
    BY <1>1, <2>1 DEF Fact
  <2>2. CASE \A p \in People : online[p] # s
    BY <1>2, <2>2 DEF Nobody
  <2> QED
    BY <2>1, <2>2
<1> QED
  BY <1>1, <1>2, <1>3, <1>4, <1>5

LEMMA TruthWillBe ==
    ASSUME TypeOK', Distinct', NEW s \in SessionIds
    PROVE  /\ \A p \in People : online'[p] = s => Truth(s)' = Fact(p, place'[p], blob'[p])
           /\ (\A p \in People : online'[p] # s) => Truth(s)' = Nobody
           /\ Truth(s)' \in Facts
<1>1. ASSUME NEW p \in People, online'[p] = s PROVE Truth(s)' = Fact(p, place'[p], blob'[p])
  <2>1. \A q \in People : online'[q] = s => q = p
    BY <1>1, Marks DEF Distinct
  <2>2. (CHOOSE q \in People : online'[q] = s) = p
    BY <1>1, <2>1
  <2> QED
    BY <1>1, <2>2 DEF Truth
<1>2. (\A p \in People : online'[p] # s) => Truth(s)' = Nobody
  BY DEF Truth
<1>3. ASSUME NEW p \in People PROVE Fact(p, place'[p], blob'[p]) \in Facts
  BY DEF Fact, Facts, TypeOK
<1>4. Nobody \in Facts
  BY RosterAssumption DEF Nobody, Facts, BlobValues
<1> QED
  BY <1>1, <1>2, <1>3, <1>4

(***************************************************************************)
(* The server adds a message.                                              *)
(***************************************************************************)
NewsMsg(m) == m.type \notin {"Version", "ServerSync"}

\* Who goes is removed, who is introduced comes, and who acts is there.
Settles(m) ==
    /\ \A p \in People : online[p] # None /\ online'[p] # online[p] => Removes(m, online[p])
    /\ m.type = "UserState" =>
         /\ m.person \in People => online[m.person] = None /\ online'[m.person] = m.session
         /\ m.actor # "unset" => m.actor \in SessionIds /\ \E q \in People : online[q] = m.actor

LEMMA InboxGrown ==
    ASSUME TypeOK, NEW m \in Message, inbox' = Append(inbox, m)
    PROVE  /\ inbox \in Seq(Message) /\ Len(inbox) \in Nat /\ DOMAIN inbox = 1..Len(inbox)
           /\ DOMAIN inbox' = 1..(Len(inbox) + 1) /\ Len(inbox') = Len(inbox) + 1
           /\ \A i \in 1..Len(inbox) : inbox'[i] = inbox[i]
           /\ inbox'[Len(inbox) + 1] = m
<1>1. inbox \in Seq(Message) /\ inbox' \in Seq(Message)
  BY DEF TypeOK
<1>2. DOMAIN inbox = 1..Len(inbox) /\ DOMAIN inbox' = 1..Len(inbox')
  BY <1>1
<1> QED
  BY <1>1, <1>2

LEMMA Grown ==
    ASSUME IInv, JInv, NEW m \in Message, NewsMsg(m), inbox' = Append(inbox, m),
           UNCHANGED <<up, alive, roster, db>>
    PROVE  /\ ListingOK' /\ MissingSeen' /\ OnItsWay' = OnItsWay \cup {m}
           /\ Synced' => Synced
           /\ (\A v \in DOMAIN inbox' : ~IsAt(v, "Version")') => \A v \in DOMAIN inbox : ~IsAt(v, "Version")
<1> DEFINE n == Len(inbox)
<1>1. /\ n \in Nat /\ DOMAIN inbox = 1..n /\ DOMAIN inbox' = 1..(n + 1)
      /\ \A i \in 1..n : inbox'[i] = inbox[i]
      /\ inbox'[n + 1] = m
  BY InboxGrown DEF IInv
<1> HIDE DEF n
<1>2. OnItsWay' = OnItsWay \cup {m}
  <2>1. ASSUME NEW i \in 1..n PROVE i \in 1..(n + 1)
    BY <1>1
  <2>2. n + 1 \in 1..(n + 1) /\ \A i \in 1..(n + 1) : i \in 1..n \/ i = n + 1
    BY <1>1
  <2>3. ASSUME NEW x \in OnItsWay' PROVE x \in OnItsWay \cup {m}
    BY <1>1, <2>2 DEF OnItsWay
  <2>4. ASSUME NEW x \in OnItsWay \cup {m} PROVE x \in OnItsWay'
    BY <1>1, <2>1, <2>2 DEF OnItsWay
  <2> QED
    BY <2>3, <2>4
<1>3. Synced' => Synced
  BY <1>2 DEF Synced
<1>4. \A i \in DOMAIN inbox' : IsAt(i, "ServerSync")' => i \in 1..n
  BY <1>1 DEF IsAt, NewsMsg
<1>5. ListingOK'
  <2> SUFFICES ASSUME NEW i \in DOMAIN inbox', NEW j \in DOMAIN inbox', i < j,
                      IsAt(j, "ServerSync")', IsAt(i, "UserState")'
               PROVE  inbox'[i].person # None
    BY DEF ListingOK
  <2>1. i \in 1..n /\ j \in 1..n
    BY <1>1, <1>4
  <2> QED
    BY <1>1, <2>1 DEF IsAt, JInv, ListingOK
<1>7. (\A v \in DOMAIN inbox' : ~IsAt(v, "Version")') => \A v \in DOMAIN inbox : ~IsAt(v, "Version")
  <2>1. ASSUME NEW v \in DOMAIN inbox PROVE v \in DOMAIN inbox' /\ inbox'[v] = inbox[v]
    BY <1>1
  <2> QED
    BY <2>1 DEF IsAt
<1>6. MissingSeen'
  <2>1. (\E j \in DOMAIN inbox' : IsAt(j, "ServerSync")') => \E j \in DOMAIN inbox : IsAt(j, "ServerSync")
    BY <1>1, <1>4 DEF IsAt
  <2> QED
    BY <1>7, <2>1 DEF JInv, MissingSeen, Lacks, InMap, Cached, roster
<1> QED
  BY <1>2, <1>3, <1>5, <1>6, <1>7

LEMMA GrownAsked ==
    ASSUME IInv, JInv, NEW m \in Message, NewsMsg(m), inbox' = Append(inbox, m),
           UNCHANGED <<up, alive, roster, db, roomDb, pending>>
    PROVE  MissingAsked'
<1>1. /\ OnItsWay' = OnItsWay \cup {m} /\ (Synced' => Synced)
      /\ (\A v \in DOMAIN inbox' : ~IsAt(v, "Version")') => \A v \in DOMAIN inbox : ~IsAt(v, "Version")
  BY Grown
<1>2. \A s, k : About(s, k) => About(s, k)'
  BY <1>1 DEF About
<1>3. \A s, k : Lacks(s, k)' <=> Lacks(s, k)
  BY DEF Lacks, InMap, roster
<1> QED
  BY <1>1, <1>2, <1>3 DEF JInv, MissingAsked

(* Who is known stays so, and a person has one session. *)
LEMMA KnownGrown ==
    ASSUME IInv, JInv, alive, NEW m \in Message, inbox' = Append(inbox, m), Settles(m), UNCHANGED users
    PROVE  ActorsKnown'
<1>0. PICK n : n = Len(inbox)
  OBVIOUS
<1>1. /\ inbox \in Seq(Message) /\ n \in Nat /\ DOMAIN inbox = 1..n /\ DOMAIN inbox' = 1..(n + 1)
      /\ \A i \in 1..n : inbox'[i] = inbox[i]
      /\ inbox'[n + 1] = m
  BY <1>0, InboxGrown DEF IInv
<1>2. ASSUME NEW s, NEW i \in 1..(n + 1), NEW j \in 0..n PROVE Stays(inbox', i, j, s) <=> Stays(inbox, i, j, s)
  BY <1>0, <1>1, StaysGrown
<1>3. ASSUME NEW s, NEW i \in 1..(n + 1), KnownAt(s, i) PROVE KnownAt(s, i)'
  <2>1. i - 1 \in 0..n /\ 1 \in 1..(n + 1) /\ \A j \in 1..(i - 1) : j \in 1..n /\ j + 1 \in 1..(n + 1)
    BY <1>1
  <2> QED
    BY <1>1, <1>2, <1>3, <2>1 DEF KnownAt
<1>4. ASSUME m.type = "UserState", m.actor # "unset" PROVE KnownAt(m.actor, n + 1)
  <2> DEFINE s == m.actor
  <2>1. s \in SessionIds /\ Truth(s).there
    BY <1>4, TruthIs DEF Settles, IInv
  <2> HIDE DEF s
  <2>2. PICK a \in Facts : Agrees(a, users[s]) /\ Leads(a, inbox, Truth(s), s)
    BY <2>1 DEF JInv, Stories
  <2>3. WasTold(inbox, a, n, s)
    BY <1>0, <1>1, <2>1, <2>2, LeadsEnd
  <2>4. a.there => users[s] # None
    BY <2>2 DEF Agrees, Nobody
  <2>5. (n + 1) - 1 = n
    BY <1>1
  <2>6. KnownAt(s, n + 1)
    BY <2>3, <2>4, <2>5 DEF WasTold, KnownAt
  <2> QED
    BY <2>6 DEF s
<1> SUFFICES ASSUME NEW i \in DOMAIN inbox', IsAt(i, "UserState")', NEW s, s = inbox'[i].actor, s # "unset"
             PROVE  KnownAt(s, i)'
  BY DEF ActorsKnown
<1>5. CASE i \in 1..n
  <2>1. IsAt(i, "UserState") /\ inbox'[i] = inbox[i] /\ i \in 1..(n + 1)
    BY <1>1, <1>5 DEF IsAt
  <2>2. KnownAt(s, i)
    BY <1>1, <1>5, <2>1 DEF JInv, ActorsKnown
  <2> QED
    BY <1>3, <2>1, <2>2
<1>6. CASE i = n + 1
  <2>1. KnownAt(s, i) /\ i \in 1..(n + 1)
    BY <1>1, <1>4, <1>6 DEF IsAt
  <2> QED
    BY <1>3, <2>1
<1> QED
  BY <1>1, <1>5, <1>6

LEMMA SessionsGrown ==
    ASSUME IInv, JInv, alive, NEW m \in Message, inbox' = Append(inbox, m), Settles(m), UNCHANGED users
    PROVE  OneSession'
<1>0. PICK n : n = Len(inbox)
  OBVIOUS
<1>1. /\ n \in Nat /\ DOMAIN inbox = 1..n /\ DOMAIN inbox' = 1..(n + 1) /\ Len(inbox') = n + 1
      /\ \A i \in 1..n : inbox'[i] = inbox[i]
      /\ inbox'[n + 1] = m
  BY <1>0, InboxGrown DEF IInv
<1>2. ASSUME NEW s, NEW i, NEW j, Ends(s, i, j) PROVE Ends(s, i, j)'
  <2>1. \A l \in 1..n : l \in 1..(n + 1)
    BY <1>1
  <2> QED
    BY <1>1, <1>2, <2>1 DEF Ends
<1>3. ASSUME NEW s, NEW i \in 0..n, Ends(s, i, n + 1) \/ Removes(m, s) PROVE Ends(s, i, (n + 1) + 1)'
  <2>1. CASE Ends(s, i, n + 1)
    <3>1. PICK l \in 1..n : i < l /\ l < n + 1 /\ Removes(inbox[l], s)
      BY <1>1, <2>1 DEF Ends
    <3>2. l \in 1..(n + 1) /\ l < (n + 1) + 1
      BY <1>1
    <3> QED
      BY <1>1, <3>1, <3>2 DEF Ends
  <2>2. CASE Removes(m, s)
    <3>1. n + 1 \in 1..(n + 1) /\ n + 1 < (n + 1) + 1 /\ i < n + 1
      BY <1>1
    <3> QED
      BY <1>1, <2>2, <3>1 DEF Ends
  <2> QED
    BY <1>3, <2>1, <2>2
<1>4. ASSUME NEW p, NEW s, NEW i \in 0..n PROVE Holds(p, s, i)' <=> Holds(p, s, i)
  <2>1. i = 0 \/ (i # 0 /\ i \in 1..n)
    BY <1>1
  <2> QED
    BY <1>1, <2>1 DEF Holds
<1>5. ASSUME NEW p \in People, NEW s, Holds(p, s, n + 1)'
      PROVE  m.session = s /\ m.person = p /\ online[p] = None /\ online'[p] = s
  <2>1. n + 1 # 0
    BY <1>1
  <2> QED
    BY <1>1, <1>5, <2>1 DEF Holds, Updates, Settles
<1>6. ASSUME NEW p \in People, NEW s \in SessionIds, NEW i \in 0..n, Holds(p, s, i)
      PROVE  /\ online[p] = s \/ Ends(s, i, n + 1)
             /\ \A t \in SessionIds, j \in i..n : Holds(p, t, j) /\ t # s => Ends(s, i, j)
  BY <1>0, <1>6 DEF JInv, OneSession
<1>7. \A i \in 0..(n + 1) : i \in 0..n \/ i = n + 1
  BY <1>1
<1> SUFFICES ASSUME NEW p \in People, NEW s \in SessionIds, NEW i \in 0..(n + 1), Holds(p, s, i)'
             PROVE  /\ online'[p] = s \/ Ends(s, i, (n + 1) + 1)'
                    /\ \A t \in SessionIds, j \in i..(n + 1) : Holds(p, t, j)' /\ t # s => Ends(s, i, j)'
  BY <1>1 DEF OneSession
<1>8. CASE i = n + 1
  <2>1. \A j \in i..(n + 1) : j = n + 1
    BY <1>1, <1>8
  <2> QED
    BY <1>5, <1>8, <2>1
<1>9. CASE i \in 0..n
  <2>1. Holds(p, s, i)
    BY <1>4, <1>9
  <2>2. online'[p] = s \/ Ends(s, i, (n + 1) + 1)'
    <3>1. CASE online[p] = s
      <4>1. online'[p] = s \/ Removes(m, s)
        BY <3>1, Marks DEF Settles
      <4> QED
        BY <1>3, <1>9, <4>1
    <3>2. CASE Ends(s, i, n + 1)
      BY <1>3, <1>9, <3>2
    <3> QED
      BY <1>6, <1>9, <2>1, <3>1, <3>2
  <2>3. ASSUME NEW t \in SessionIds, NEW j \in i..(n + 1), Holds(p, t, j)', t # s PROVE Ends(s, i, j)'
    <3>1. CASE j \in 0..n
      <4>1. j \in i..n /\ Holds(p, t, j)
        BY <1>1, <1>4, <1>9, <2>3, <3>1
      <4> QED
        BY <1>2, <1>6, <1>9, <2>1, <2>3, <4>1
    <3>2. CASE j = n + 1
      <4>1. online[p] # s
        BY <1>5, <2>3, <3>2, Marks
      <4> QED
        BY <1>2, <1>6, <1>9, <2>1, <3>2, <4>1
    <3> QED
      BY <1>1, <1>7, <1>9, <3>1, <3>2
  <2> QED
    BY <2>2, <2>3
<1> QED
  BY <1>7, <1>8, <1>9

(* A change whose message says what it changed. *)
LEMMA ToldTrue ==
    ASSUME IInv, IInv', JInv, DataOK', NEW m \in Message, NewsMsg(m), Tell(m), Settles(m),
           \A s \in SessionIds : Truth(s)' = After(Truth(s), m, s) /\ Fits(Truth(s), m, s),
           \A c \in ChannelIds : rooms'[c] = AfterRoom(rooms[c], m, c) /\ FitsRoom(rooms[c], m, c)
    PROVE  JInv'
<1>1. /\ UNCHANGED <<up, connections, pending, roster, ready, db, roomDb, alive, view>>
      /\ inbox' = IF up THEN Append(inbox, m) ELSE inbox
  BY DEF Tell
<1>2. CASE alive
  <2>1. inbox' = Append(inbox, m) /\ UNCHANGED <<users, channels>>
    BY <1>1, <1>2 DEF IInv, Distinct, roster
  <2>2. ListingOK' /\ MissingSeen' /\ MissingAsked' /\ ActorsKnown' /\ OneSession'
    BY <1>1, <1>2, <2>1, Grown, GrownAsked, KnownGrown, SessionsGrown
  <2>3. ASSUME NEW s \in SessionIds PROVE \E a \in Facts : Agrees(a, users'[s]) /\ Leads(a, inbox', Truth(s)', s)
    <3>1. PICK a \in Facts : Agrees(a, users[s]) /\ Leads(a, inbox, Truth(s), s)
      BY <1>2 DEF JInv, Stories
    <3>2. Truth(s)' \in Facts /\ inbox \in Seq(Message)
      BY TruthWillBe DEF IInv, TypeOK
    <3>3. Leads(a, Append(inbox, m), After(Truth(s), m, s), s)
      BY <3>1, <3>2, LeadsAppend
    <3> QED
      BY <2>1, <3>1, <3>3
  <2>4. ASSUME NEW c \in ChannelIds PROVE \E a \in RoomFacts : AgreesRoom(a, channels'[c]) /\ LeadsRoom(a, inbox', rooms'[c], c)
    <3>1. PICK a \in RoomFacts : AgreesRoom(a, channels[c]) /\ LeadsRoom(a, inbox, rooms[c], c)
      BY <1>2 DEF JInv, Stories
    <3>2. rooms'[c] \in RoomFacts /\ inbox \in Seq(Message)
      BY DEF IInv, TypeOK, RoomFacts
    <3>3. LeadsRoom(a, Append(inbox, m), AfterRoom(rooms[c], m, c), c)
      BY <3>1, <3>2, LeadsRoomAppend
    <3> QED
      BY <2>1, <3>1, <3>3
  <2>5. Stories'
    BY <2>3, <2>4 DEF Stories
  <2> QED
    BY <2>2, <2>5 DEF JInv
<1>3. CASE ~alive
  <2>2. ~alive'
    BY <1>1, <1>3
  <2>3. ListingOK'
    <3>1. CASE up
      <4>1. inbox' = Append(inbox, m)
        BY <1>1, <3>1
      <4> QED
        BY <1>1, <4>1, Grown
    <3>2. CASE ~up
      <4>1. inbox' = inbox
        BY <1>1, <3>2
      <4> QED
        BY <4>1 DEF JInv, ListingOK, IsAt
    <3> QED
      BY <3>1, <3>2
  <2> QED
    BY <2>2, <2>3 DEF JInv, Stories, ActorsKnown, OneSession, MissingSeen, MissingAsked, Synced
<1> QED
  BY <1>2, <1>3

(* What the messages say. *)
LEMMA MoveFields ==
    ASSUME NEW s, NEW c, NEW a
    PROVE  /\ MoveMsg(s, c, a).type = "UserState" /\ MoveMsg(s, c, a).session = s /\ MoveMsg(s, c, a).person = None
           /\ MoveMsg(s, c, a).channel = c /\ MoveMsg(s, c, a).actor = a
           /\ \A x \in Kinds : MoveMsg(s, c, a).hash[x] = "unset" /\ MoveMsg(s, c, a).inline[x] = "unset"
BY DEF MoveMsg, UserMsg

LEMMA HashFields ==
    ASSUME NEW s, NEW k \in Kinds, NEW b
    PROVE  /\ HashMsg(s, k, b).type = "UserState" /\ HashMsg(s, k, b).session = s
           /\ HashMsg(s, k, b).person = None /\ HashMsg(s, k, b).channel = "unset"
           /\ HashMsg(s, k, b).actor = "unset"
           /\ \A x \in Kinds : /\ HashMsg(s, k, b).hash[x] = IF x = k THEN b ELSE "unset"
                               /\ HashMsg(s, k, b).inline[x] = "unset"
BY DEF HashMsg, UserMsg

LEMMA BlobFields ==
    ASSUME NEW s, NEW k \in Kinds, NEW b
    PROVE  /\ BlobMsg(s, k, b).type = "UserState" /\ BlobMsg(s, k, b).session = s
           /\ BlobMsg(s, k, b).person = None /\ BlobMsg(s, k, b).channel = "unset"
           /\ BlobMsg(s, k, b).actor = "unset"
           /\ \A x \in Kinds : /\ BlobMsg(s, k, b).hash[x] = "unset"
                               /\ BlobMsg(s, k, b).inline[x] = IF x = k THEN b ELSE "unset"
BY DEF BlobMsg, UserMsg

LEMMA IntroFields ==
    ASSUME NEW p, NEW s, NEW c, NEW b
    PROVE  /\ IntroMsg(p, s, c, b).type = "UserState" /\ IntroMsg(p, s, c, b).session = s
           /\ IntroMsg(p, s, c, b).person = p /\ IntroMsg(p, s, c, b).channel = c
           /\ IntroMsg(p, s, c, b).actor = "unset"
           /\ \A k \in Kinds : /\ IntroMsg(p, s, c, b).hash[k] = IF b[k] \in Long THEN b[k] ELSE "unset"
                               /\ IntroMsg(p, s, c, b).inline[k] = IF b[k] \in Short THEN b[k] ELSE "unset"
BY DEF IntroMsg, UserMsg

(* Who is introduced is told in full. *)
LEMMA Introduction ==
    ASSUME NEW p \in People, NEW s \in SessionIds, NEW c \in ChannelIds, NEW b \in [Kinds -> BlobValues],
           NEW x, ~x.there
    PROVE  After(x, IntroMsg(p, s, c, b), s) = Fact(p, c, b)
<1> DEFINE m == IntroMsg(p, s, c, b)
<1>1. /\ m.type = "UserState" /\ m.session = s /\ m.person = p /\ m.channel = c
      /\ \A k \in Kinds : /\ m.hash[k] = IF b[k] \in Long THEN b[k] ELSE "unset"
                          /\ m.inline[k] = IF b[k] \in Short THEN b[k] ELSE "unset"
  BY IntroFields
<1> HIDE DEF m
<1>2. ASSUME NEW k \in Kinds PROVE TextAfter(m, k, None) = b[k]
  <2>1. b[k] \in Long \/ b[k] \in Short \/ b[k] = None
    BY DEF BlobValues, Long
  <2> QED
    BY <1>1, <2>1, Marks DEF TextAfter
<1>3. [k \in Kinds |-> TextAfter(m, k, None)] = b
  BY <1>2
<1>4. After(x, m, s) = Fact(p, c, [k \in Kinds |-> TextAfter(m, k, None)])
  BY <1>1 DEF After, Removes, Updates
<1> QED
  BY <1>3, <1>4 DEF m

LEMMA NotAbout ==
    ASSUME NEW m, NEW s, m.type # "Version", ~Updates(m, s), ~(m.type = "UserRemove" /\ m.session = s)
    PROVE  \A x : After(x, m, s) = x /\ Fits(x, m, s)
BY DEF After, Fits, Removes

LEMMA NotAboutRoom ==
    ASSUME NEW m, NEW c, m.type # "Version", ~Concerns(m, c)
    PROVE  \A x : AfterRoom(x, m, c) = x /\ FitsRoom(x, m, c)
BY DEF AfterRoom, FitsRoom

LEMMA TruthSame ==
    ASSUME IInv, IInv', NEW s \in SessionIds,
           \A q \in People : /\ online'[q] = s <=> online[q] = s
                             /\ online[q] = s => place'[q] = place[q] /\ blob'[q] = blob[q]
    PROVE  Truth(s)' = Truth(s)
<1>1. CASE \E q \in People : online[q] = s
  <2>1. PICK q \in People : online[q] = s
    BY <1>1
  <2>2. Truth(s) = Fact(q, place[q], blob[q])
    BY <2>1, TruthIs DEF IInv
  <2>3. online'[q] = s /\ place'[q] = place[q] /\ blob'[q] = blob[q]
    BY <2>1
  <2>4. TypeOK' /\ Distinct'
    BY DEF IInv
  <2>5. Truth(s)' = Fact(q, place'[q], blob'[q])
    BY <2>3, <2>4, TruthWillBe
  <2> QED
    BY <2>2, <2>3, <2>5
<1>2. CASE \A q \in People : online[q] # s
  <2>1. Truth(s) = Nobody
    BY <1>2, TruthIs DEF IInv
  <2>2. \A q \in People : online'[q] # s
    BY <1>2
  <2>3. TypeOK' /\ Distinct'
    BY DEF IInv
  <2>4. Truth(s)' = Nobody
    BY <2>2, <2>3, TruthWillBe
  <2> QED
    BY <2>1, <2>4
<1> QED
  BY <1>1, <1>2

LEMMA DataAtServer ==
    ASSUME DataOK, UNCHANGED <<roster, db, roomDb>>,
           \A p \in People, k \in Kinds : Allowed(p, k, blob'[p][k]),
           \A c \in ChannelIds : rooms'[c].there \/ rooms'[c] = Absent
    PROVE  DataOK'
<1>1. UNCHANGED <<users, channels, db, roomDb>>
  BY DEF roster
<1>2. \A p, k, b : Allowed(p, k, b)' <=> Allowed(p, k, b)
  BY DEF Allowed
<1>3. \A p, k : Claimed(p, k)' <=> Claimed(p, k)
  BY DEF Claimed
<1> QED
  BY <1>1 DEF DataOK, InMap, Allowed, Claimed

LEMMA JoinKeeps == ASSUME IInv, IInv', JInv, NEW p \in People, Join(p) PROVE JInv'
<1>1. PICK z \in FreeIds : online' = [online EXCEPT ![p] = z] /\ Tell(NewUserMsg(p, z))
  BY DEF Join
<1> DEFINE m == NewUserMsg(p, z)
<1>2. /\ TypeOK /\ DataOK /\ Distinct /\ z \in SessionIds /\ (\A q \in People : online[q] # z) /\ online[p] = None
      /\ UNCHANGED <<place, blob, rooms>> /\ place[p] \in ChannelIds /\ blob[p] \in [Kinds -> BlobValues]
  BY DEF IInv, JInv, FreeIds, Join, TypeOK
<1>3. /\ m.type = "UserState" /\ m.session = z /\ m.person = p /\ m.actor = "unset"
      /\ \A x : ~x.there => After(x, m, z) = Fact(p, place[p], blob[p])
  BY <1>2, IntroFields, Introduction DEF NewUserMsg
<1>9. Introduces(m, z)
  BY <1>2 DEF Introduces, NewUserMsg, DataOK
<1>4. m \in Message /\ Tell(m)
  BY <1>1, <1>2, UserMessages, OtherMessages
<1> HIDE DEF m
<1>5. DataOK'
  BY <1>2, <1>4, DataAtServer DEF Tell, DataOK
<1>6. \A q \in People : online'[q] = IF q = p THEN z ELSE online[q]
  BY <1>1, <1>2 DEF TypeOK
<1>7. ASSUME NEW s \in SessionIds PROVE Truth(s)' = After(Truth(s), m, s) /\ Fits(Truth(s), m, s)
  <2>1. CASE s = z
    <3>1. Truth(s) = Nobody
      BY <1>2, <2>1, TruthIs
    <3>2. Truth(s)' = Fact(p, place'[p], blob'[p])
      BY <1>6, <2>1, TruthWillBe DEF IInv
    <3>3. ~Nobody.there
      BY DEF Nobody
    <3>4. After(Nobody, m, s) = Fact(p, place[p], blob[p]) /\ Fits(Nobody, m, s)
      BY <1>3, <1>9, <2>1, <3>3 DEF Fits
    <3> QED
      BY <1>2, <3>1, <3>2, <3>4
  <2>2. CASE s # z
    <3>1. Truth(s)' = Truth(s)
      BY <1>2, <1>6, <2>2, Marks, TruthSame
    <3> QED
      BY <1>3, <2>2, <3>1, NotAbout DEF Updates
  <2> QED
    BY <2>1, <2>2
<1>8. \A c \in ChannelIds : rooms'[c] = AfterRoom(rooms[c], m, c) /\ FitsRoom(rooms[c], m, c)
  BY <1>2, <1>3, NotAboutRoom DEF Concerns
<1>10. Settles(m)
  BY <1>2, <1>3, <1>6 DEF Settles
<1> QED
  BY <1>3, <1>4, <1>5, <1>7, <1>8, <1>10, ToldTrue DEF NewsMsg

LEMMA LeaveKeeps == ASSUME IInv, IInv', JInv, NEW p \in People, Leave(p) PROVE JInv'
<1> DEFINE z == online[p]
           m == RemoveMsg(z)
<1>2. /\ TypeOK /\ DataOK /\ Distinct /\ z \in SessionIds
      /\ UNCHANGED <<place, blob, rooms>> /\ online' = [online EXCEPT ![p] = None]
  BY DEF IInv, JInv, Leave, TypeOK
<1>3. m.type = "UserRemove" /\ m.session = z
  BY DEF RemoveMsg
<1>4. m \in Message /\ Tell(m)
  BY <1>2, OtherMessages DEF Leave
<1> HIDE DEF m
<1>5. DataOK'
  BY <1>2, <1>4, DataAtServer DEF Tell, DataOK
<1>6. \A q \in People : online'[q] = IF q = p THEN None ELSE online[q]
  BY <1>2 DEF TypeOK
<1>9. \A q \in People : q # p => online[q] # z
  BY <1>2, Marks DEF Distinct
<1>10. Settles(m)
  BY <1>3, <1>6 DEF Settles, Removes
<1> HIDE DEF z
<1>7. ASSUME NEW s \in SessionIds PROVE Truth(s)' = After(Truth(s), m, s) /\ Fits(Truth(s), m, s)
  <2>1. CASE s = z
    <3>1. Truth(s)' = Nobody
      BY <1>2, <1>6, <1>9, <2>1, Marks, TruthWillBe DEF IInv
    <3> QED
      BY <1>3, <2>1, <3>1 DEF After, Fits, Removes, Updates
  <2>2. CASE s # z
    <3>1. \A q \in People : online'[q] = s <=> online[q] = s
      BY <1>6, <2>2, Marks DEF z
    <3>2. Truth(s)' = Truth(s)
      BY <1>2, <3>1, TruthSame
    <3> QED
      BY <1>3, <2>2, <3>2, NotAbout DEF Updates
  <2> QED
    BY <2>1, <2>2
<1>8. \A c \in ChannelIds : rooms'[c] = AfterRoom(rooms[c], m, c) /\ FitsRoom(rooms[c], m, c)
  BY <1>2, <1>3, NotAboutRoom DEF Concerns
<1> QED
  BY <1>3, <1>4, <1>5, <1>7, <1>8, <1>10, ToldTrue DEF NewsMsg

(* One field of somebody who is there changes. *)
LEMMA AfterMove ==
    ASSUME NEW s, NEW c \in ChannelIds, NEW a, NEW x \in Facts, x.there
    PROVE  After(x, MoveMsg(s, c, a), s) = Fact(x.person, c, x.blob)
<1> DEFINE m == MoveMsg(s, c, a)
<1>1. /\ m.type = "UserState" /\ m.session = s /\ m.channel = c
      /\ \A k \in Kinds : m.hash[k] = "unset" /\ m.inline[k] = "unset"
  BY MoveFields
<1> HIDE DEF m
<1>2. x.blob \in [Kinds -> BlobValues]
  BY DEF Facts
<1>3. [k \in Kinds |-> TextAfter(m, k, x.blob[k])] = x.blob
  BY <1>1, <1>2 DEF TextAfter
<1>4. After(x, m, s) = Fact(x.person, c, [k \in Kinds |-> TextAfter(m, k, x.blob[k])])
  BY <1>1, Marks DEF After, Removes, Updates
<1> QED
  BY <1>3, <1>4 DEF m

LEMMA AfterText ==
    ASSUME NEW s, NEW k \in Kinds, NEW b \in BlobValues, NEW x \in Facts, x.there,
           NEW m, m = HashMsg(s, k, b) \/ m = BlobMsg(s, k, b)
    PROVE  After(x, m, s) = Fact(x.person, x.channel, [x.blob EXCEPT ![k] = b])
<1>1. /\ m.type = "UserState" /\ m.session = s /\ m.channel = "unset"
      /\ \/ \A y \in Kinds : m.hash[y] = (IF y = k THEN b ELSE "unset") /\ m.inline[y] = "unset"
         \/ \A y \in Kinds : m.inline[y] = (IF y = k THEN b ELSE "unset") /\ m.hash[y] = "unset"
  <2>1. CASE m = HashMsg(s, k, b)
    BY <2>1, HashFields
  <2>2. CASE m = BlobMsg(s, k, b)
    BY <2>2, BlobFields
  <2> QED
    BY <2>1, <2>2
<1>2. x.blob \in [Kinds -> BlobValues]
  BY DEF Facts
<1>3. \A y \in Kinds : TextAfter(m, y, x.blob[y]) = IF y = k THEN b ELSE x.blob[y]
  BY <1>1, Marks DEF TextAfter
<1>4. [y \in Kinds |-> TextAfter(m, y, x.blob[y])] = [x.blob EXCEPT ![k] = b]
  BY <1>2, <1>3
<1>5. After(x, m, s) = Fact(x.person, x.channel, [y \in Kinds |-> TextAfter(m, y, x.blob[y])])
  BY <1>1 DEF After, Removes, Updates
<1> QED
  BY <1>4, <1>5

LEMMA MoveKeeps == ASSUME IInv, IInv', JInv, NEW p \in People, NEW c \in ChannelIds, MoveTo(p, c) PROVE JInv'
<1>1. PICK q \in People : online[q] # None /\ Tell(MoveMsg(online[p], c, online[q]))
  BY DEF MoveTo
<1> DEFINE z == online[p]
           m == MoveMsg(z, c, online[q])
<1>2. /\ TypeOK /\ DataOK /\ Distinct /\ z \in SessionIds /\ online[q] \in SessionIds
      /\ UNCHANGED <<online, blob, rooms>> /\ place' = [place EXCEPT ![p] = c]
  BY <1>1 DEF IInv, JInv, MoveTo, TypeOK
<1>3. m.type = "UserState" /\ m.session = z /\ m.person = None /\ m.actor = online[q]
  BY MoveFields
<1>4. m \in Message /\ Tell(m)
  BY <1>1, <1>2, UserMessages, OtherMessages
<1>10. m = MoveMsg(z, c, online[q])
  OBVIOUS
<1> HIDE DEF m
<1>5. DataOK'
  BY <1>2, <1>4, DataAtServer DEF Tell, DataOK
<1>6. \A x \in People : place'[x] = IF x = p THEN c ELSE place[x]
  BY <1>2 DEF TypeOK
<1>7. ASSUME NEW s \in SessionIds PROVE Truth(s)' = After(Truth(s), m, s) /\ Fits(Truth(s), m, s)
  <2>1. CASE s = z
    <3>1. Truth(s) = Fact(p, place[p], blob[p]) /\ Truth(s).there /\ Truth(s) \in Facts
      BY <1>2, <2>1, TruthIs
    <3>2. Truth(s)' = Fact(p, c, blob[p])
      BY <1>2, <1>6, <2>1, TruthWillBe DEF IInv
    <3>3. Fits(Truth(s), m, s)
      BY <1>2, <1>10, <2>1, <3>1 DEF Fits, Changes
    <3>4. After(Truth(s), m, s) = Fact(Truth(s).person, c, Truth(s).blob)
      BY <1>10, <2>1, <3>1, AfterMove
    <3>5. Truth(s).person = p /\ Truth(s).blob = blob[p]
      BY <3>1 DEF Fact
    <3> QED
      BY <3>2, <3>3, <3>4, <3>5
  <2>2. CASE s # z
    <3>1. Truth(s)' = Truth(s)
      BY <1>2, <1>6, <2>2, TruthSame
    <3> QED
      BY <1>3, <2>2, <3>1, NotAbout DEF Updates
  <2> QED
    BY <2>1, <2>2
<1>8. \A x \in ChannelIds : rooms'[x] = AfterRoom(rooms[x], m, x) /\ FitsRoom(rooms[x], m, x)
  BY <1>2, <1>3, NotAboutRoom DEF Concerns
<1>9. Settles(m)
  BY <1>2, <1>3, Marks DEF Settles
<1> QED
  BY <1>3, <1>4, <1>5, <1>7, <1>8, <1>9, ToldTrue DEF NewsMsg

LEMMA BlobKeeps ==
    ASSUME IInv, IInv', JInv, NEW p \in People, NEW k \in Kinds, NEW b \in Blobs \cup {None}, SetBlob(p, k, b)
    PROVE  JInv'
<1> DEFINE z == online[p]
           m == IF b \in Long THEN HashMsg(z, k, b) ELSE BlobMsg(z, k, b)
<1>2. /\ TypeOK /\ DataOK /\ Distinct /\ z \in SessionIds /\ b \in BlobValues
      /\ UNCHANGED <<online, place, rooms>> /\ blob' = [blob EXCEPT ![p][k] = b]
      /\ Allowed(p, k, b)
  BY DEF IInv, JInv, SetBlob, TypeOK, BlobValues
<1>10. (m = HashMsg(z, k, b) /\ b \in Long) \/ (m = BlobMsg(z, k, b) /\ b \notin Long)
  BY <1>2
<1>3. m.type = "UserState" /\ m.session = z /\ m.person = None /\ m.actor = "unset"
  BY <1>10, HashFields, BlobFields
<1>4. m \in Message /\ Tell(m)
  BY <1>2, UserMessages, OtherMessages DEF SetBlob
<1> HIDE DEF m
<1>6. \A q \in People : blob'[q] = IF q = p THEN [blob[p] EXCEPT ![k] = b] ELSE blob[q]
  BY <1>2 DEF TypeOK
<1>9. blob[p] \in [Kinds -> BlobValues]
  BY <1>2 DEF TypeOK
<1>5. DataOK'
  <2>1. \A q \in People, x \in Kinds : Allowed(q, x, blob'[q][x])
    BY <1>2, <1>6, <1>9 DEF DataOK
  <2> QED
    BY <1>2, <1>4, <2>1, DataAtServer DEF Tell, DataOK
<1>7. ASSUME NEW s \in SessionIds PROVE Truth(s)' = After(Truth(s), m, s) /\ Fits(Truth(s), m, s)
  <2>1. CASE s = z
    <3>1. Truth(s) = Fact(p, place[p], blob[p]) /\ Truth(s).there /\ Truth(s) \in Facts
      BY <1>2, <2>1, TruthIs
    <3>2. Truth(s)' = Fact(p, place[p], [blob[p] EXCEPT ![k] = b])
      BY <1>2, <1>6, <2>1, TruthWillBe DEF IInv
    <3>5. Truth(s).person = p /\ Truth(s).channel = place[p] /\ Truth(s).blob = blob[p]
      BY <3>1 DEF Fact
    <3>3. Fits(Truth(s), m, s)
      BY <1>2, <1>10, <2>1, <3>1, <3>5 DEF Fits, Changes
    <3>4. After(Truth(s), m, s) = Fact(Truth(s).person, Truth(s).channel, [Truth(s).blob EXCEPT ![k] = b])
      BY <1>2, <1>10, <2>1, <3>1, AfterText
    <3> QED
      BY <3>2, <3>3, <3>4, <3>5
  <2>2. CASE s # z
    <3>1. Truth(s)' = Truth(s)
      BY <1>2, <1>6, <2>2, TruthSame
    <3> QED
      BY <1>3, <2>2, <3>1, NotAbout DEF Updates
  <2> QED
    BY <2>1, <2>2
<1>8. \A x \in ChannelIds : rooms'[x] = AfterRoom(rooms[x], m, x) /\ FitsRoom(rooms[x], m, x)
  BY <1>2, <1>3, NotAboutRoom DEF Concerns
<1>11. Settles(m)
  BY <1>2, <1>3, Marks DEF Settles
<1> QED
  BY <1>3, <1>4, <1>5, <1>7, <1>8, <1>11, ToldTrue DEF NewsMsg

(* Channels: a change of one of them, told by m. *)
LEMMA RoomFieldsOf ==
    ASSUME NEW c, NEW d
    PROVE  /\ ChannelMsg(c, d).type = "ChannelState" /\ ChannelMsg(c, d).channel = c
           /\ ChannelMsg(c, d).hash = IF d \in Long THEN d ELSE "unset"
           /\ ChannelMsg(c, d).inline = IF d \in Short THEN d ELSE "unset"
           /\ TextMsg(c, d).type = "ChannelState" /\ TextMsg(c, d).channel = c
           /\ TextMsg(c, d).inline = d /\ TextMsg(c, d).hash = "unset"
           /\ GoneMsg(c).type = "ChannelRemove" /\ GoneMsg(c).channel = c
<1>1. /\ ChannelMsg(c, d).type = "ChannelState" /\ ChannelMsg(c, d).channel = c
      /\ ChannelMsg(c, d).hash = IF d \in Long THEN d ELSE "unset"
      /\ ChannelMsg(c, d).inline = IF d \in Short THEN d ELSE "unset"
  BY DEF ChannelMsg
<1>2. /\ TextMsg(c, d).type = "ChannelState" /\ TextMsg(c, d).channel = c
      /\ TextMsg(c, d).inline = d /\ TextMsg(c, d).hash = "unset"
  BY Marks DEF ChannelMsg, TextMsg
<1>3. GoneMsg(c).type = "ChannelRemove" /\ GoneMsg(c).channel = c
  BY DEF GoneMsg
<1> QED
  BY <1>1, <1>2, <1>3

LEMMA RoomChange ==
    ASSUME IInv, IInv', JInv, NEW c \in ChannelIds, NEW m \in Message, Tell(m), NEW r \in RoomFacts,
           m.type \in {"ChannelState", "ChannelRemove"}, m.channel = c,
           UNCHANGED <<online, place, blob>>, rooms' = [rooms EXCEPT ![c] = r],
           r = AfterRoom(rooms[c], m, c), FitsRoom(rooms[c], m, c), r.there \/ r = Absent
    PROVE  JInv'
<1>1. \A x \in ChannelIds : rooms'[x] = IF x = c THEN r ELSE rooms[x]
  BY DEF IInv, TypeOK
<1>2. DataOK'
  BY <1>1, DataAtServer DEF Tell, DataOK, JInv
<1>3. ASSUME NEW s \in SessionIds PROVE Truth(s)' = After(Truth(s), m, s) /\ Fits(Truth(s), m, s)
  <2>1. Truth(s)' = Truth(s)
    BY DEF Truth
  <2> QED
    BY <2>1, NotAbout DEF Updates
<1>4. ASSUME NEW x \in ChannelIds PROVE rooms'[x] = AfterRoom(rooms[x], m, x) /\ FitsRoom(rooms[x], m, x)
  BY <1>1, NotAboutRoom DEF Concerns
<1>5. Settles(m)
  BY DEF Settles
<1> QED
  BY <1>2, <1>3, <1>4, <1>5, ToldTrue DEF NewsMsg

LEMMA RoomSet ==
    ASSUME NEW x \in RoomFacts, x.there, NEW d \in BlobValues
    PROVE  [x EXCEPT !.description = d] = [there |-> TRUE, description |-> d]
<1>1. PICK r : r = [x EXCEPT !.description = d]
  OBVIOUS
<1>2. r \in RoomFacts /\ r.there = TRUE /\ r.description = d
  BY <1>1 DEF RoomFacts
<1>3. r = [there |-> r.there, description |-> r.description]
  BY <1>2 DEF RoomFacts
<1> QED
  BY <1>1, <1>2, <1>3

LEMMA RoomsKeep ==
    ASSUME IInv, IInv', JInv, NEW c \in ChannelIds,
           RemoveRoom(c) \/ \E d \in Blobs \cup {None} : AddRoom(c, d) \/ SetDescription(c, d)
    PROVE  JInv'
<1>0. /\ rooms[c] \in RoomFacts /\ (rooms[c].there \/ rooms[c] = Absent) /\ Absent \in RoomFacts
      /\ \A d \in Blobs \cup {None} : d \in BlobValues /\ [there |-> TRUE, description |-> d] \in RoomFacts
  BY DEF IInv, JInv, DataOK, TypeOK, RoomFacts, BlobValues, Absent
<1>1. CASE RemoveRoom(c)
  <2>1. /\ GoneMsg(c) \in Message /\ Tell(GoneMsg(c)) /\ UNCHANGED <<online, place, blob>>
        /\ rooms' = [rooms EXCEPT ![c] = Absent]
    BY <1>1, OtherMessages DEF RemoveRoom, Absent
  <2>2. Absent = AfterRoom(rooms[c], GoneMsg(c), c) /\ FitsRoom(rooms[c], GoneMsg(c), c)
    BY RoomFieldsOf DEF AfterRoom, FitsRoom, Concerns
  <2>3. GoneMsg(c).type \in {"ChannelState", "ChannelRemove"} /\ GoneMsg(c).channel = c
    BY RoomFieldsOf
  <2> QED
    BY <1>0, <2>1, <2>2, <2>3, RoomChange
<1>2. ASSUME NEW d \in Blobs \cup {None}, NEW m, Tell(m),
             \/ m = ChannelMsg(c, d) /\ (d \notin Long => ~rooms[c].there)
             \/ m = TextMsg(c, d) /\ rooms[c].there /\ d \notin Long,
             rooms' = [rooms EXCEPT ![c] = [there |-> TRUE, description |-> d]],
             UNCHANGED <<online, place, blob>>
      PROVE  JInv'
  <2> DEFINE r == [there |-> TRUE, description |-> d]
  <2>1. m \in Message
    BY <1>0, <1>2, OtherMessages
  <2>2. /\ m.type = "ChannelState" /\ m.channel = c
        /\ \/ m.inline = d /\ m.hash = "unset"
           \/ d \in Long /\ m.hash = d /\ m.inline = "unset"
           \/ d = None /\ m.hash = "unset" /\ m.inline = "unset" /\ ~rooms[c].there
    <3>1. d \in Long \/ d \in Short \/ d = None
      BY DEF Long
    <3> QED
      BY <1>2, <3>1, RoomFieldsOf, Marks
  <2>3. ~rooms[c].there => rooms[c].description = None
    BY <1>0 DEF Absent
  <2>5. FitsRoom(rooms[c], m, c)
    BY <1>0, <1>2 DEF FitsRoom
  <2>6. r = AfterRoom(rooms[c], m, c)
    <3>1. d # "unset"
      BY <1>0, Marks
    <3> QED
      BY <2>2, <2>3, <3>1 DEF AfterRoom, Concerns
  <2>7. r \in RoomFacts /\ r.there
    BY <1>0
  <2> HIDE DEF r
  <2>8. rooms' = [rooms EXCEPT ![c] = r] /\ Tell(m) /\ UNCHANGED <<online, place, blob>>
    BY <1>2 DEF r
  <2> QED
    BY <2>1, <2>2, <2>5, <2>6, <2>7, <2>8, RoomChange
<1>3. ASSUME NEW d \in Blobs \cup {None}, AddRoom(c, d) PROVE JInv'
  BY <1>2, <1>3 DEF AddRoom
<1>4. ASSUME NEW d \in Blobs \cup {None}, SetDescription(c, d) PROVE JInv'
  <2>1. [rooms[c] EXCEPT !.description = d] = [there |-> TRUE, description |-> d]
    BY <1>0, <1>4, RoomSet DEF SetDescription
  <2>2. rooms' = [rooms EXCEPT ![c] = [rooms[c] EXCEPT !.description = d]]
    BY <1>4 DEF SetDescription
  <2>3. rooms' = [rooms EXCEPT ![c] = [there |-> TRUE, description |-> d]] /\ UNCHANGED <<online, place, blob>>
    BY <1>4, <2>1, <2>2 DEF SetDescription
  <2>4. CASE d \in Long
    BY <1>2, <1>4, <2>3, <2>4 DEF SetDescription
  <2>5. CASE d \notin Long
    BY <1>2, <1>4, <2>3, <2>5 DEF SetDescription
  <2> QED
    BY <2>4, <2>5
<1> QED
  BY <1>1, <1>3, <1>4

LEMMA ChangeKeeps == ASSUME IInv, IInv', JInv, Server, ~Answer PROVE JInv'
BY JoinKeeps, LeaveKeeps, MoveKeeps, BlobKeeps, RoomsKeep DEF Server

(***************************************************************************)
(* The answer to a request.                                                *)
(***************************************************************************)
LEMMA One == SetToSeq({}) = <<>> /\ \A x : SetToSeq({x}) = <<x>>
<1>1. IsFiniteSet({}) /\ Cardinality({}) = 0
  BY FS_EmptySet
<1>2. SetToSeq({}) \in [1..0 -> {}]
  BY <1>1, SetListed
<1>3. SetToSeq({}) = <<>>
  BY <1>2
<1>4. ASSUME NEW x PROVE SetToSeq({x}) = <<x>>
  <2>1. IsFiniteSet({x}) /\ Cardinality({x}) = 1
    BY FS_Singleton
  <2>2. SetToSeq({x}) \in [1..1 -> {x}]
    BY <2>1, SetListed
  <2> QED
    BY <2>2
<1> QED
  BY <1>3, <1>4

\* Whose blob k is asked for under session s.
Asker(p, s, k) == online[p] = s /\ blob[p][k] # None

LEMMA AnswerIs ==
    ASSUME IInv, Answer
    PROVE  \E r \in pending :
             /\ pending' = pending \ {r}
             /\ \/ /\ r[1] \in Kinds /\ r[2] \in SessionIds
                   /\ \/ \E p \in People : Asker(p, r[2], r[1])
                                           /\ inbox' = Append(inbox, BlobMsg(r[2], r[1], blob[p][r[1]]))
                      \/ (\A p \in People : ~Asker(p, r[2], r[1])) /\ inbox' = inbox
                \/ /\ r[1] = "description" /\ r[2] \in ChannelIds
                   /\ \/ /\ rooms[r[2]].there /\ rooms[r[2]].description # None
                         /\ inbox' = Append(inbox, TextMsg(r[2], rooms[r[2]].description))
                      \/ ~(rooms[r[2]].there /\ rooms[r[2]].description # None) /\ inbox' = inbox
<1>1. PICK r \in pending :
        /\ pending' = pending \ {r}
        /\ inbox' = inbox \o
             IF r[1] \in Kinds
             THEN LET who == {p \in People : online[p] = r[2] /\ blob[p][r[1]] # None}
                  IN  SetToSeq({BlobMsg(r[2], r[1], blob[p][r[1]]) : p \in who})
             ELSE IF rooms[r[2]].there /\ rooms[r[2]].description # None
                  THEN <<TextMsg(r[2], rooms[r[2]].description)>> ELSE <<>>
  BY DEF Answer
<1> DEFINE k   == r[1]
           s   == r[2]
           out == {BlobMsg(s, k, blob[p][k]) : p \in {p \in People : online[p] = s /\ blob[p][k] # None}}
<1>2. (k \in Kinds /\ s \in SessionIds) \/ (k = "description" /\ s \in ChannelIds)
  BY DEF IInv, TypeOK
<1>3. inbox \in Seq(Message)
  BY DEF IInv, TypeOK
<1>4. \A m : inbox \o <<m>> = Append(inbox, m)
  BY <1>3
<1>5. inbox \o <<>> = inbox
  BY <1>3
<1>6. CASE k \in Kinds
  <2>1. inbox' = inbox \o SetToSeq(out) /\ s \in SessionIds
    BY <1>1, <1>2, <1>6 DEF Kinds
  <2>2. ASSUME NEW p \in People, Asker(p, s, k) PROVE inbox' = Append(inbox, BlobMsg(s, k, blob[p][k]))
    <3>1. ASSUME NEW q \in People, online[q] = s PROVE q = p
      BY <2>1, <2>2, <3>1, Marks DEF Asker, IInv, Distinct
    <3>2. out = {BlobMsg(s, k, blob[p][k])}
      BY <2>2, <3>1 DEF Asker
    <3> QED
      BY <1>4, <2>1, <3>2, One
  <2>3. ASSUME \A p \in People : ~Asker(p, s, k) PROVE inbox' = inbox
    <3>1. out = {}
      BY <2>3 DEF Asker
    <3> QED
      BY <1>5, <2>1, <3>1, One
  <2> HIDE DEF out
  <2> QED
    BY <1>1, <1>6, <2>1, <2>2, <2>3, Zenon
<1>7. CASE k \notin Kinds
  <2> DEFINE told == rooms[s].there /\ rooms[s].description # None
             d == rooms[s].description
  <2>1. inbox' = inbox \o (IF told THEN <<TextMsg(s, d)>> ELSE <<>>) /\ k = "description" /\ s \in ChannelIds
    BY <1>1, <1>2, <1>7, Zenon
  <2>2. (told /\ inbox' = Append(inbox, TextMsg(s, d))) \/ (~told /\ inbox' = inbox)
    <3> HIDE DEF told, d
    <3>1. CASE told
      BY <1>4, <2>1, <3>1
    <3>2. CASE ~told
      BY <1>5, <2>1, <3>2
    <3> QED
      BY <3>1, <3>2
  <2> QED
    BY <1>1, <2>1, <2>2
<1> QED
  BY <1>6, <1>7

LEMMA AnswerStories ==
    ASSUME IInv, IInv', JInv, UNCHANGED <<server, up, roster, ready, db, roomDb, alive>>,
           NEW m \in Message, NewsMsg(m), inbox' = Append(inbox, m), Settles(m),
           \A s \in SessionIds : After(Truth(s), m, s) = Truth(s) /\ Fits(Truth(s), m, s),
           \A c \in ChannelIds : AfterRoom(rooms[c], m, c) = rooms[c] /\ FitsRoom(rooms[c], m, c)
    PROVE  /\ Stories' /\ ActorsKnown' /\ OneSession' /\ DataOK' /\ ListingOK' /\ MissingSeen'
           /\ OnItsWay' = OnItsWay \cup {m} /\ (Synced' => Synced)
           /\ (\A v \in DOMAIN inbox' : ~IsAt(v, "Version")') => \A v \in DOMAIN inbox : ~IsAt(v, "Version")
<1>1. UNCHANGED <<online, place, blob, rooms, users, channels>>
  BY DEF server, roster
<1>2. /\ ListingOK' /\ MissingSeen' /\ OnItsWay' = OnItsWay \cup {m} /\ (Synced' => Synced)
      /\ (\A v \in DOMAIN inbox' : ~IsAt(v, "Version")') => \A v \in DOMAIN inbox : ~IsAt(v, "Version")
  BY Grown
<1>3. DataOK'
  BY <1>1 DEF JInv, DataOK, InMap, Allowed, Claimed
<1>6. alive => ActorsKnown' /\ OneSession'
  BY <1>1, KnownGrown, SessionsGrown
<1>7. ~alive => ActorsKnown' /\ OneSession'
  BY DEF ActorsKnown, OneSession
<1>4. ASSUME alive, NEW s \in SessionIds
      PROVE  \E a \in Facts : Agrees(a, users'[s]) /\ Leads(a, inbox', Truth(s)', s)
  <2>1. PICK a \in Facts : Agrees(a, users[s]) /\ Leads(a, inbox, Truth(s), s)
    BY <1>4 DEF JInv, Stories
  <2>2. Truth(s)' = Truth(s)
    BY <1>1 DEF Truth
  <2>3. Truth(s) \in Facts /\ inbox \in Seq(Message)
    BY TruthIs DEF IInv, TypeOK
  <2>4. Leads(a, Append(inbox, m), Truth(s), s)
    BY <2>1, <2>3, LeadsAppend
  <2> QED
    BY <1>1, <2>1, <2>2, <2>4
<1>5. ASSUME alive, NEW c \in ChannelIds
      PROVE  \E a \in RoomFacts : AgreesRoom(a, channels'[c]) /\ LeadsRoom(a, inbox', rooms'[c], c)
  <2>1. PICK a \in RoomFacts : AgreesRoom(a, channels[c]) /\ LeadsRoom(a, inbox, rooms[c], c)
    BY <1>5 DEF JInv, Stories
  <2>2. rooms[c] \in RoomFacts /\ inbox \in Seq(Message)
    BY <1>1 DEF IInv, TypeOK, RoomFacts
  <2>3. LeadsRoom(a, Append(inbox, m), rooms[c], c)
    BY <2>1, <2>2, LeadsRoomAppend
  <2> QED
    BY <1>1, <2>1, <2>3
<1> QED
  BY <1>2, <1>3, <1>4, <1>5, <1>6, <1>7 DEF Stories

(* A text the client knows of and nobody has any more under that session has
   gone with a message that is still on its way. *)
LEMMA Gone ==
    ASSUME IInv, JInv, Synced, NEW s \in InMap, NEW k \in Kinds, users[s].hash[k] # None,
           \A p \in People : ~Asker(p, s, k)
    PROVE  About(s, k)
<1>1. s \in SessionIds /\ users[s] # None /\ alive /\ inbox \in Seq(Message)
  BY DEF InMap, Synced, IInv, TypeOK
<1>2. PICK a \in Facts : Agrees(a, users[s]) /\ Leads(a, inbox, Truth(s), s)
  BY <1>1 DEF JInv, Stories
<1>3. a.there /\ a.blob[k] # None
  BY <1>1, <1>2, RosterAssumption DEF Agrees
<1>4. CASE Silent(inbox, 1, Len(inbox), s, k)
  <2>1. Stays(inbox, 1, Len(inbox), s)
    BY <1>4, Stretches, Zenon
  <2>2. Truth(s).there /\ Truth(s).blob[k] # None
    BY <1>1, <1>2, <1>3, <1>4, <2>1, LeadsEnd
  <2>3. PICK p \in People : online[p] = s
    BY <1>1, <2>2, TruthIs DEF IInv
  <2>4. Truth(s) = Fact(p, place[p], blob[p])
    BY <1>1, <2>3, TruthIs DEF IInv
  <2>5. blob[p][k] # None
    BY <2>2, <2>4 DEF Fact
  <2> QED
    BY <2>3, <2>5 DEF Asker
<1>5. CASE ~Silent(inbox, 1, Len(inbox), s, k)
  <2>1. PICK l \in 1..Len(inbox) : Removes(inbox[l], s) \/ (Updates(inbox[l], s) /\ inbox[l].inline[k] # "unset")
    BY <1>5 DEF Silent
  <2>2. inbox[l] \in OnItsWay
    BY <1>1 DEF OnItsWay
  <2>3. inbox[l].type # "Version"
    BY <2>2 DEF Synced
  <2> QED
    BY <2>1, <2>2, <2>3 DEF About, Removes, Updates
<1> QED
  BY <1>4, <1>5

(* A channel about which nothing is on its way is known as it is. *)
LEMMA RoomKnown ==
    ASSUME IInv, JInv, alive, \A v \in DOMAIN inbox : ~IsAt(v, "Version"), NEW c \in ChannelIds, ~AboutText(c)
    PROVE  AgreesRoom(rooms[c], channels[c])
<1>1. inbox \in Seq(Message)
  BY DEF IInv, TypeOK
<1>2. PICK a \in RoomFacts : AgreesRoom(a, channels[c]) /\ LeadsRoom(a, inbox, rooms[c], c)
  BY DEF JInv, Stories
<1>3. ASSUME NEW l \in 1..Len(inbox) PROVE inbox[l].type # "Version" /\ ~Concerns(inbox[l], c)
  <2>1. inbox[l] \in OnItsWay /\ ~IsAt(l, "Version") /\ l \in DOMAIN inbox
    BY <1>1 DEF OnItsWay
  <2> QED
    BY <2>1 DEF IsAt, AboutText, Concerns
<1>4. rooms[c] = a
  BY <1>1, <1>2, <1>3, LeadsRoomEnd
<1> QED
  BY <1>2, <1>4

LEMMA AfterBlob ==
    \A s \in SessionIds, k \in Kinds, b \in BlobValues, x \in Facts :
      x.there => After(x, BlobMsg(s, k, b), s) = Fact(x.person, x.channel, [x.blob EXCEPT ![k] = b])
<1> SUFFICES ASSUME NEW s \in SessionIds, NEW k \in Kinds, NEW b \in BlobValues, NEW x \in Facts, x.there
             PROVE  After(x, BlobMsg(s, k, b), s) = Fact(x.person, x.channel, [x.blob EXCEPT ![k] = b])
  OBVIOUS
<1>1. PICK m : m = BlobMsg(s, k, b)
  OBVIOUS
<1>2. m = HashMsg(s, k, b) \/ m = BlobMsg(s, k, b)
  BY <1>1
<1>3. After(x, m, s) = Fact(x.person, x.channel, [x.blob EXCEPT ![k] = b])
  BY <1>2, AfterText
<1> QED
  BY <1>1, <1>3

LEMMA AnswerKeeps == ASSUME IInv, IInv', JInv, Answer PROVE JInv'
<1>1. PICK r \in pending :
        /\ pending' = pending \ {r}
        /\ \/ /\ r[1] \in Kinds /\ r[2] \in SessionIds
              /\ \/ \E p \in People : Asker(p, r[2], r[1])
                                      /\ inbox' = Append(inbox, BlobMsg(r[2], r[1], blob[p][r[1]]))
                 \/ (\A p \in People : ~Asker(p, r[2], r[1])) /\ inbox' = inbox
           \/ /\ r[1] = "description" /\ r[2] \in ChannelIds
              /\ \/ /\ rooms[r[2]].there /\ rooms[r[2]].description # None
                    /\ inbox' = Append(inbox, TextMsg(r[2], rooms[r[2]].description))
                 \/ ~(rooms[r[2]].there /\ rooms[r[2]].description # None) /\ inbox' = inbox
  BY AnswerIs
<1>2. /\ UNCHANGED <<server, up, roster, ready, db, roomDb, alive>>
      /\ UNCHANGED <<online, place, blob, rooms, users, channels>>
  BY DEF Answer, server, roster
<1> DEFINE k == r[1]
           s == r[2]
<1>0. r = <<k, s>>
  BY DEF IInv, TypeOK
<1> HIDE DEF k, s
<1>3. ASSUME Stories' /\ ActorsKnown' /\ OneSession' /\ DataOK' /\ ListingOK' /\ MissingSeen',
             Synced' => Synced,
             \A x, y : About(x, y) => About(x, y)',
             Synced => \A x \in SessionIds, y \in Kinds : Lacks(x, y) /\ r = <<y, x>> => About(x, y)'
      PROVE  JInv'
  <2>1. ASSUME Synced', Greedy, NEW x \in SessionIds, NEW y \in Kinds, Lacks(x, y)'
        PROVE  <<y, x>> \in pending' \/ About(x, y)'
    <3>1. Lacks(x, y) /\ Synced
      BY <1>2, <1>3, <2>1 DEF Lacks, InMap, Claimed
    <3>2. <<y, x>> \in pending \/ About(x, y)
      BY <2>1, <3>1 DEF JInv, MissingAsked
    <3> QED
      BY <1>1, <1>3, <3>1, <3>2
  <2>3. MissingAsked'
    BY <2>1 DEF MissingAsked
  <2> QED
    BY <1>3, <2>3 DEF JInv
<1>4. ASSUME inbox' = inbox
      PROVE  /\ Stories' /\ ActorsKnown' /\ OneSession' /\ DataOK' /\ ListingOK' /\ MissingSeen'
             /\ Synced' = Synced /\ \A x, y : About(x, y)' = About(x, y)
  <2>1. \A x : Truth(x)' = Truth(x)
    BY <1>2 DEF Truth
  <2>2. Stories'
    BY <1>2, <1>4, <2>1 DEF JInv, Stories
  <2>5. ActorsKnown' /\ OneSession'
    BY <1>2, <1>4 DEF JInv, ActorsKnown, OneSession, KnownAt, Holds, Ends, IsAt
  <2>3. DataOK' /\ ListingOK' /\ MissingSeen'
    BY <1>2, <1>4 DEF JInv, DataOK, ListingOK, MissingSeen, Lacks, InMap, IsAt, Cached, Allowed, Claimed
  <2>4. Synced' = Synced /\ \A x, y : About(x, y)' = About(x, y)
    BY <1>2, <1>4 DEF Synced, About, OnItsWay
  <2> QED
    BY <2>2, <2>3, <2>4, <2>5
<1>5. ASSUME s \in SessionIds, k \in Kinds, NEW p \in People, Asker(p, s, k),
             inbox' = Append(inbox, BlobMsg(s, k, blob[p][k]))
      PROVE  JInv'
  <2> DEFINE b == blob[p][k]
             m == BlobMsg(s, k, b)
  <2>1. /\ b \in BlobValues /\ m \in Message /\ m.type = "UserState" /\ m.session = s
        /\ m.person = None /\ m.actor = "unset" /\ m.inline[k] = b
    <3>1. b \in BlobValues
      BY <1>5 DEF IInv, TypeOK
    <3>2. m \in UserMessage
      BY <1>5, <3>1, UserMessages DEF IInv
    <3> QED
      BY <1>5, <3>1, <3>2, BlobFields, OtherMessages
  <2>2. m = BlobMsg(s, k, b)
    OBVIOUS
  <2> HIDE DEF m
  <2>3. ASSUME NEW x \in SessionIds PROVE After(Truth(x), m, x) = Truth(x) /\ Fits(Truth(x), m, x)
    <3>1. CASE x = s
      <4>1. Truth(x) = Fact(p, place[p], blob[p]) /\ Truth(x).there /\ Truth(x) \in Facts
        BY <1>5, <3>1, TruthIs DEF Asker, IInv
      <4>2. Truth(x).person = p /\ Truth(x).channel = place[p] /\ Truth(x).blob = blob[p]
        BY <4>1 DEF Fact
      <4>3. After(Truth(x), m, x) = Fact(p, place[p], [blob[p] EXCEPT ![k] = b])
        <5>1. PICK y : y = Truth(x)
          OBVIOUS
        <5>2. y \in Facts /\ y.there /\ b \in BlobValues /\ (m = HashMsg(s, k, b) \/ m = BlobMsg(s, k, b))
          BY <2>1, <2>2, <4>1, <5>1
        <5>3. After(y, m, s) = Fact(y.person, y.channel, [y.blob EXCEPT ![k] = b])
          BY <1>5, <2>2, <5>2, AfterBlob
        <5> QED
          BY <3>1, <4>2, <5>1, <5>3
      <4>4. [blob[p] EXCEPT ![k] = b] = blob[p]
        BY <1>5 DEF IInv, TypeOK
      <4>5. Allowed(p, k, b)
        BY <1>5 DEF JInv, DataOK
      <4> QED
        BY <1>5, <2>1, <2>2, <3>1, <4>1, <4>2, <4>3, <4>4, <4>5 DEF Fits, Changes
    <3>2. CASE x # s
      BY <2>1, <3>2, NotAbout DEF Updates
    <3> QED
      BY <3>1, <3>2
  <2>4. \A x \in ChannelIds : AfterRoom(rooms[x], m, x) = rooms[x] /\ FitsRoom(rooms[x], m, x)
    BY <2>1, NotAboutRoom DEF Concerns
  <2>5. inbox' = Append(inbox, m) /\ NewsMsg(m) /\ Settles(m)
    BY <1>2, <1>5, <2>1, <2>2, Marks DEF NewsMsg, Settles
  <2>6. /\ Stories' /\ ActorsKnown' /\ OneSession' /\ DataOK' /\ ListingOK' /\ MissingSeen'
        /\ OnItsWay' = OnItsWay \cup {m} /\ (Synced' => Synced)
    BY <1>2, <2>1, <2>3, <2>4, <2>5, AnswerStories
  <2>7. About(s, k)'
    BY <2>1, <2>6, Marks DEF About
  <2>8. \A x, y : About(x, y) => About(x, y)'
    BY <2>6 DEF About
  <2>9. \A x, y : r = <<y, x>> => x = s /\ y = k
    BY <1>0
  <2> QED
    BY <1>3, <2>6, <2>7, <2>8, <2>9
<1>6. ASSUME s \in SessionIds, k \in Kinds, \A p \in People : ~Asker(p, s, k), inbox' = inbox
      PROVE  JInv'
  <2>1. Synced /\ Lacks(s, k) => About(s, k)
    BY <1>6, Gone DEF Lacks
  <2>2. \A x, y : r = <<y, x>> => x = s /\ y = k
    BY <1>0
  <2> QED
    BY <1>3, <1>4, <1>6, <2>1, <2>2
<1>7. ASSUME s \in ChannelIds, k = "description", rooms[s].there, rooms[s].description # None,
             inbox' = Append(inbox, TextMsg(s, rooms[s].description))
      PROVE  JInv'
  <2> DEFINE b == rooms[s].description
             m == TextMsg(s, b)
  <2>1. /\ b \in BlobValues /\ m \in Message /\ m.type = "ChannelState" /\ m.channel = s
        /\ m.inline = b /\ m.hash = "unset"
    <3>1. b \in BlobValues
      BY <1>7 DEF IInv, TypeOK
    <3> QED
      BY <1>7, <3>1, OtherMessages, RoomFieldsOf
  <2>2. m = TextMsg(s, b)
    OBVIOUS
  <2> HIDE DEF m
  <2>3. \A x \in SessionIds : After(Truth(x), m, x) = Truth(x) /\ Fits(Truth(x), m, x)
    BY <2>1, NotAbout DEF Updates
  <2>4. ASSUME NEW x \in ChannelIds PROVE AfterRoom(rooms[x], m, x) = rooms[x] /\ FitsRoom(rooms[x], m, x)
    <3>1. CASE x = s
      <4>1. rooms[s] = [there |-> TRUE, description |-> b]
        BY <1>7 DEF IInv, TypeOK
      <4>2. AfterRoom(rooms[s], m, s) = rooms[s]
        BY <2>1, <4>1, Marks DEF AfterRoom, Concerns
      <4>3. FitsRoom(rooms[s], m, s)
        BY <1>7, <2>1, <2>2 DEF FitsRoom
      <4> QED
        BY <3>1, <4>2, <4>3
    <3>2. CASE x # s
      BY <2>1, <3>2, NotAboutRoom DEF Concerns
    <3> QED
      BY <3>1, <3>2
  <2>5. inbox' = Append(inbox, m) /\ NewsMsg(m) /\ Settles(m)
    BY <1>2, <1>7, <2>1, <2>2 DEF NewsMsg, Settles
  <2>6. /\ Stories' /\ ActorsKnown' /\ OneSession' /\ DataOK' /\ ListingOK' /\ MissingSeen'
        /\ OnItsWay' = OnItsWay \cup {m} /\ (Synced' => Synced)
    BY <1>2, <2>1, <2>3, <2>4, <2>5, AnswerStories
  <2>8. \A x, y : About(x, y) => About(x, y)'
    BY <2>6 DEF About
  <2>9. \A x, y : r = <<y, x>> => y \notin Kinds
    BY <1>0, <1>7 DEF Kinds
  <2> QED
    BY <1>3, <2>6, <2>8, <2>9
<1>8. ASSUME s \in ChannelIds, k = "description", ~(rooms[s].there /\ rooms[s].description # None),
             inbox' = inbox
      PROVE  JInv'
  <2>1. \A x, y : r = <<y, x>> => y \notin Kinds
    BY <1>0, <1>8 DEF Kinds
  <2> QED
    BY <1>3, <1>4, <1>8, <2>1
<1> QED
  BY <1>1, <1>5, <1>6, <1>7, <1>8 DEF k, s

(***************************************************************************)
(* A new connection: what it lists is what is true.                        *)
(***************************************************************************)
LEMMA LeadsNew ==
    ASSUME NEW box \in Seq(Message), NEW a \in Facts, NEW z \in Facts, NEW s, box # <<>>,
           box[1].type = "Version", \A i \in 2..Len(box) : ~Removes(box[i], s),
           \A i \in 2..Len(box) : Updates(box[i], s) =>
             Introduces(box[i], s) /\ z = After(Nobody, box[i], s),
           \A i, j \in 2..Len(box) : Updates(box[i], s) /\ Updates(box[j], s) => i = j,
           z = Nobody \/ \E i \in 2..Len(box) : Updates(box[i], s)
    PROVE  Leads(a, box, z, s)
<1> DEFINE n == Len(box)
           Met(i) == \E j \in 2..i : Updates(box[j], s)
           e == [i \in 0..n |-> IF i = 0 THEN a ELSE IF Met(i) THEN z ELSE Nobody]
<1>1. n \in Nat \ {0} /\ \A i \in 1..n : box[i] \in Message
  OBVIOUS
<1>2. Nobody \in Facts /\ ~Nobody.there
  BY RosterAssumption DEF Nobody, Facts, BlobValues
<1>3. e \in [0..n -> Facts] /\ e[0] = a /\ \A i \in 1..n : e[i] = IF Met(i) THEN z ELSE Nobody
  BY <1>1, <1>2
<1>4. e[n] = z
  BY <1>1, <1>3
<1>5. ASSUME NEW i \in 1..n, Met(i) PROVE z.there
  <2>1. PICK j \in 2..i : Updates(box[j], s)
    BY <1>5
  <2>2. j \in 2..n /\ box[j] \in Message
    BY <1>1
  <2>3. PICK m : m = box[j]
    OBVIOUS
  <2>4. m \in Message /\ ~Removes(m, s) /\ Updates(m, s) /\ z = After(Nobody, m, s)
    BY <2>1, <2>2, <2>3
  <2> QED
    BY <2>4, AfterFacts
<1>6. ASSUME NEW i \in 2..n PROVE Met(i) <=> Met(i - 1) \/ Updates(box[i], s)
  BY <1>1
<1>11. ~Met(1)
  OBVIOUS
<1>12. ASSUME NEW i \in 2..n, Updates(box[i], s) PROVE ~Met(i - 1)
  <2> SUFFICES ASSUME NEW j \in 2..(i - 1), Updates(box[j], s) PROVE FALSE
    OBVIOUS
  <2>1. j \in 2..n /\ j # i
    BY <1>1
  <2> QED
    BY <1>12, <2>1
<1>13. ASSUME NEW i \in 1..n, NEW j \in 1..n, i <= j, Met(i) PROVE Met(j)
  BY <1>13
<1>14. ASSUME NEW j \in 1..n, Met(j) PROVE \E i \in 1..j : Updates(box[i], s) /\ Stays(box, i + 1, j, s)
  <2>1. PICK i \in 2..j : Updates(box[i], s)
    BY <1>14
  <2>2. i \in 1..j /\ \A l \in (i + 1)..j : l \in 2..n
    BY <1>1
  <2>3. Stays(box, i + 1, j, s)
    BY <2>2 DEF Stays
  <2> QED
    BY <2>1, <2>2, <2>3
<1> HIDE DEF e, Met
<1>7. ASSUME NEW i \in 1..n PROVE e[i] = After(e[i - 1], box[i], s) /\ Fits(e[i - 1], box[i], s)
  <2>1. CASE i = 1
    BY <1>3, <1>11, <2>1 DEF After, Fits, Removes, Updates
  <2>2. CASE i # 1
    <3>1. i \in 2..n /\ i - 1 \in 1..n
      BY <1>1, <2>2
    <3>2. e[i - 1] = (IF Met(i - 1) THEN z ELSE Nobody) /\ e[i] = (IF Met(i) THEN z ELSE Nobody)
      BY <1>3, <3>1
    <3>3. ~Removes(box[i], s)
      BY <3>1 DEF n
    <3>4. CASE Updates(box[i], s)
      <4>1. e[i - 1] = Nobody /\ e[i] = z
        BY <1>6, <1>12, <3>1, <3>2, <3>4
      <4>2. Introduces(box[i], s) /\ z = After(Nobody, box[i], s)
        BY <3>1, <3>4 DEF n
      <4> QED
        BY <1>2, <4>1, <4>2 DEF Fits
    <3>5. CASE ~Updates(box[i], s)
      <4>1. e[i] = e[i - 1]
        BY <1>6, <3>1, <3>2, <3>5
      <4> QED
        BY <3>3, <3>5, <4>1 DEF After, Fits
    <3> QED
      BY <3>4, <3>5
  <2> QED
    BY <2>1, <2>2
<1>8. ASSUME NEW i \in 0..n, NEW j \in 0..n, i <= j, e[i].there, Stays(box, i + 1, j, s)
      PROVE  i = j \/ (e[i] = z /\ e[j] = z /\ z.there)
  <2>1. CASE i = j
    BY <2>1
  <2>2. CASE i = 0 /\ i # j
    <3>1. 1 \in (i + 1)..j
      BY <1>1, <1>8, <2>2
    <3> QED
      BY <1>8, <3>1 DEF Stays, Removes
  <2>3. CASE i # 0
    <3>1. i \in 1..n /\ j \in 1..n
      BY <1>1, <1>8, <2>3
    <3>2. Met(i)
      BY <1>2, <1>3, <1>8, <3>1
    <3>3. Met(j)
      BY <1>8, <1>13, <3>1, <3>2
    <3> QED
      BY <1>3, <1>5, <3>1, <3>2, <3>3
  <2> QED
    BY <2>1, <2>2, <2>3
<1>9. /\ e \in [0..Len(box) -> Facts] /\ e[0] = a /\ e[Len(box)] = z
      /\ Tells(e, box, s) /\ SamePerson(e, box, s) /\ KeepsTexts(e, box, s)
  <2>1. Tells(e, box, s)
    BY <1>7 DEF Tells
  <2>2. SamePerson(e, box, s)
    BY <1>8 DEF SamePerson
  <2>3. KeepsTexts(e, box, s)
    BY <1>8, Stretches DEF KeepsTexts
  <2> QED
    BY <1>3, <1>4, <2>1, <2>2, <2>3
<1>10. Introduced(e, box, s)
  <2> SUFFICES ASSUME NEW j \in 0..n, e[j].there PROVE WasTold(box, e[0], j, s)
    BY DEF Introduced
  <2>1. CASE j = 0
    BY <2>1 DEF WasTold, Stays
  <2>2. CASE j # 0
    <3>1. j \in 1..n
      BY <1>1, <2>2
    <3>2. Met(j)
      BY <1>2, <1>3, <3>1
    <3> QED
      BY <1>14, <3>1, <3>2 DEF WasTold
  <2> QED
    BY <2>1, <2>2
<1> QED
  BY <1>9, <1>10, Zenon DEF Leads

LEMMA LeadsRoomNew ==
    ASSUME NEW box \in Seq(Message), NEW a \in RoomFacts, NEW z \in RoomFacts, NEW c, box # <<>>,
           box[1].type = "Version", \A i \in 2..Len(box) : box[i].type \notin {"Version", "ChannelRemove"},
           \A i \in 2..Len(box) : Concerns(box[i], c) => box[i] = ChannelMsg(c, z.description) /\ z.there,
           \A i, j \in 2..Len(box) : Concerns(box[i], c) /\ Concerns(box[j], c) => i = j,
           z = Absent \/ \E i \in 2..Len(box) : Concerns(box[i], c)
    PROVE  LeadsRoom(a, box, z, c)
<1> DEFINE n == Len(box)
           Met(i) == \E j \in 2..i : Concerns(box[j], c)
           e == [i \in 0..n |-> IF i = 0 THEN a ELSE IF Met(i) THEN z ELSE Absent]
<1>1. n \in Nat \ {0}
  OBVIOUS
<1>2. Absent \in RoomFacts
  BY DEF Absent, RoomFacts, BlobValues
<1>3. e \in [0..n -> RoomFacts] /\ e[0] = a /\ \A i \in 1..n : e[i] = IF Met(i) THEN z ELSE Absent
  BY <1>1, <1>2
<1>4. e[n] = z
  BY <1>1, <1>3
<1>6. ASSUME NEW i \in 2..n PROVE Met(i) <=> Met(i - 1) \/ Concerns(box[i], c)
  BY <1>1
<1>11. ~Met(1)
  OBVIOUS
<1>12. ASSUME NEW i \in 2..n, Concerns(box[i], c) PROVE ~Met(i - 1)
  <2> SUFFICES ASSUME NEW j \in 2..(i - 1), Concerns(box[j], c) PROVE FALSE
    OBVIOUS
  <2>1. j \in 2..n /\ j # i
    BY <1>1
  <2> QED
    BY <1>12, <2>1
<1>13. ASSUME NEW i \in 1..n, NEW j \in 1..n, i <= j, Met(j) PROVE Met(i) \/ \E l \in (i + 1)..j : Concerns(box[l], c)
  <2>1. PICK l \in 2..j : Concerns(box[l], c)
    BY <1>13
  <2>2. l \in 2..i \/ l \in (i + 1)..j
    BY <1>13
  <2> QED
    BY <2>1, <2>2
<1>14. ASSUME NEW i \in 1..n, NEW j \in 1..n, i <= j, Met(i) PROVE Met(j)
  BY <1>14
<1> HIDE DEF e, Met
<1>7. ASSUME NEW i \in 1..n PROVE e[i] = AfterRoom(e[i - 1], box[i], c) /\ FitsRoom(e[i - 1], box[i], c)
  <2>1. CASE i = 1
    BY <1>3, <1>11, <2>1 DEF AfterRoom, FitsRoom
  <2>2. CASE i # 1
    <3>1. i \in 2..n /\ i - 1 \in 1..n
      BY <1>1, <2>2
    <3>2. e[i - 1] = (IF Met(i - 1) THEN z ELSE Absent) /\ e[i] = (IF Met(i) THEN z ELSE Absent)
      BY <1>3, <3>1
    <3>3. box[i].type \notin {"Version", "ChannelRemove"}
      BY <3>1 DEF n
    <3>4. CASE Concerns(box[i], c)
      <4>1. e[i - 1] = Absent /\ e[i] = z
        BY <1>6, <1>12, <3>1, <3>2, <3>4
      <4>2. box[i] = ChannelMsg(c, z.description) /\ z.there
        BY <3>1, <3>4 DEF n
      <4>3. z = [there |-> TRUE, description |-> z.description] /\ z.description \in BlobValues
        BY <4>2 DEF RoomFacts
      <4>4. ~Absent.there /\ Absent.description = None
        BY DEF Absent
      <4>5. FitsRoom(Absent, box[i], c)
        BY <4>2, <4>3, <4>4 DEF FitsRoom
      <4>6. /\ box[i].inline = IF z.description \in Short THEN z.description ELSE "unset"
            /\ box[i].hash = IF z.description \in Long THEN z.description ELSE "unset"
        BY <4>2, RoomFieldsOf
      <4>7. AfterRoom(Absent, box[i], c)
              = [there |-> TRUE, description |-> IF box[i].inline # "unset" THEN box[i].inline
                                                 ELSE IF box[i].hash # "unset" THEN box[i].hash ELSE None]
        BY <3>3, <3>4, <4>4 DEF AfterRoom
      <4>9. z.description \in Short \/ (z.description \in Long /\ z.description \notin Short) \/ z.description = None
        BY <4>3 DEF BlobValues, Long
      <4>8. AfterRoom(Absent, box[i], c) = [there |-> TRUE, description |-> z.description]
        BY <4>3, <4>6, <4>7, <4>9, Marks
      <4> QED
        BY <4>1, <4>3, <4>5, <4>8
    <3>5. CASE ~Concerns(box[i], c)
      <4>1. e[i] = e[i - 1]
        BY <1>6, <3>1, <3>2, <3>5
      <4> QED
        BY <3>3, <3>5, <4>1 DEF AfterRoom, FitsRoom
    <3> QED
      BY <3>4, <3>5
  <2> QED
    BY <2>1, <2>2
<1>8. ASSUME NEW i \in 0..n, NEW j \in 0..n, i <= j,
             \A l \in (i + 1)..j : box[l].type # "Version" /\ ~Concerns(box[l], c)
      PROVE  e[j] = e[i]
  <2>1. CASE i = j
    BY <2>1
  <2>2. CASE i = 0 /\ i # j
    <3>1. 1 \in (i + 1)..j
      BY <1>1, <1>8, <2>2
    <3> QED
      BY <1>8, <3>1
  <2>3. CASE i # 0
    <3>1. i \in 1..n /\ j \in 1..n
      BY <1>1, <1>8, <2>3
    <3>2. Met(i) <=> Met(j)
      BY <1>8, <1>13, <1>14, <3>1
    <3> QED
      BY <1>3, <3>1, <3>2
  <2> QED
    BY <2>1, <2>2, <2>3
<1>9. /\ e \in [0..Len(box) -> RoomFacts] /\ e[0] = a /\ e[Len(box)] = z
      /\ \A i \in 1..Len(box) : e[i] = AfterRoom(e[i - 1], box[i], c) /\ FitsRoom(e[i - 1], box[i], c)
      /\ \A i, j \in 0..Len(box) :
           i <= j /\ (\A l \in (i + 1)..j : box[l].type # "Version" /\ ~Concerns(box[l], c)) => e[j] = e[i]
  BY <1>3, <1>4, <1>7, <1>8
<1> QED
  BY <1>9, Zenon DEF LeadsRoom

(* The lists have everything once. *)
LEMMA RoomsInList ==
    ASSUME TypeOK
    PROVE  \E n \in Nat : \E o \in [1..n -> {c \in ChannelIds : rooms[c].there}] :
             /\ ListedRooms = [i \in 1..n |-> ChannelMsg(o[i], rooms[o[i]].description)]
             /\ \A i, j \in 1..n : o[i] = o[j] => i = j
             /\ \A c \in ChannelIds : rooms[c].there => \E i \in 1..n : o[i] = c
<1> DEFINE S == {c \in ChannelIds : rooms[c].there}
           order == SetToSeq(S)
           n == Cardinality(S)
<1>1. IsFiniteSet(S)
  BY RosterAssumption, FS_Subset
<1>2. order \in [1..n -> S] /\ n \in Nat /\ \A i, j \in 1..n : order[i] = order[j] => i = j
  BY <1>1, SetListed DEF IsInjective
<1>3. ListedRooms = [i \in 1..n |-> ChannelMsg(order[i], rooms[order[i]].description)]
  BY <1>2 DEF ListedRooms, Listing
<1>4. ASSUME NEW c \in ChannelIds, rooms[c].there PROVE \E i \in 1..n : order[i] = c
  BY <1>1, <1>4, SetListedAll
<1> HIDE DEF order, n
<1> QED
  BY <1>2, <1>3, <1>4

LEMMA UsersInList ==
    ASSUME NEW on \in [People -> SessionIds \cup {None}]
    PROVE  \E n \in Nat : \E o \in [1..n -> {p \in People : on[p] # None}] :
             /\ ListedUsers(on) = [i \in 1..n |-> NewUserMsg(o[i], on[o[i]])]
             /\ \A i, j \in 1..n : o[i] = o[j] => i = j
             /\ \A p \in People : on[p] # None => \E i \in 1..n : o[i] = p
<1> DEFINE S == {p \in People : on[p] # None}
           order == SetToSeq(S)
           n == Cardinality(S)
<1>1. IsFiniteSet(S)
  BY RosterAssumption, FS_Subset
<1>2. order \in [1..n -> S] /\ n \in Nat /\ \A i, j \in 1..n : order[i] = order[j] => i = j
  BY <1>1, SetListed DEF IsInjective
<1>3. ListedUsers(on) = [i \in 1..n |-> NewUserMsg(order[i], on[order[i]])]
  BY <1>2 DEF ListedUsers, Listing
<1>4. ASSUME NEW p \in People, on[p] # None PROVE \E i \in 1..n : order[i] = p
  BY <1>1, <1>4, SetListedAll
<1> HIDE DEF order, n
<1> QED
  BY <1>2, <1>3, <1>4

\* Message i of a new connection introduces p, or tells of c.
Lists(box, i, on, p) == on[p] # None /\ box[i] = NewUserMsg(p, on[p])
ListsRoom(box, i, c) == rooms[c].there /\ box[i] = ChannelMsg(c, rooms[c].description)

\* What a new connection sends: Version, everything there is once, ServerSync.
NewBox(box, n, on) ==
    /\ n > 1 /\ Len(box) = n /\ box # <<>> /\ DOMAIN box = 1..n /\ box[1] = VersionMsg
    /\ \A i \in 2..(n - 1) :
         (\E p \in People : Lists(box, i, on, p)) \/ (\E c \in ChannelIds : ListsRoom(box, i, c))
    /\ \A p \in People : on[p] # None => \E i \in 2..(n - 1) : Lists(box, i, on, p)
    /\ \A c \in ChannelIds : rooms[c].there => \E i \in 2..(n - 1) : ListsRoom(box, i, c)
    /\ \A p \in People : \A i, j \in 2..(n - 1) : Lists(box, i, on, p) /\ Lists(box, j, on, p) => i = j
    /\ \A c \in ChannelIds : \A i, j \in 2..(n - 1) : ListsRoom(box, i, c) /\ ListsRoom(box, j, c) => i = j

LEMMA NewUserType ==
    ASSUME NEW p, NEW s
    PROVE  NewUserMsg(p, s).type = "UserState"
BY DEF NewUserMsg, IntroMsg, UserMsg

LEMMA ConnectLists ==
    ASSUME IInv, Connect
    PROVE  \E z \in FreeIds, n \in Nat, on \in [People -> SessionIds \cup {None}] :
             /\ online' = on /\ on = [online EXCEPT ![Me] = z]
             /\ NewBox(inbox', n, on) /\ inbox'[n] = SyncMsg(z)
<1>1. PICK z \in FreeIds :
        /\ online' = [online EXCEPT ![Me] = z]
        /\ inbox' = <<VersionMsg>> \o ListedRooms \o ListedUsers([online EXCEPT ![Me] = z]) \o <<SyncMsg(z)>>
  BY Zenon DEF Connect, ListedRooms, ListedUsers
<1>2. z \in SessionIds /\ TypeOK
  BY DEF IInv, FreeIds
<1>3. PICK on \in [People -> SessionIds \cup {None}] : on = [online EXCEPT ![Me] = z]
  BY <1>2 DEF TypeOK
<1>4a. PICK a \in Nat : \E ro \in [1..a -> {c \in ChannelIds : rooms[c].there}] :
        /\ ListedRooms = [i \in 1..a |-> ChannelMsg(ro[i], rooms[ro[i]].description)]
        /\ \A i, j \in 1..a : ro[i] = ro[j] => i = j
        /\ \A c \in ChannelIds : rooms[c].there => \E i \in 1..a : ro[i] = c
  BY <1>2, RoomsInList
<1>4. PICK ro \in [1..a -> {c \in ChannelIds : rooms[c].there}] :
        /\ ListedRooms = [i \in 1..a |-> ChannelMsg(ro[i], rooms[ro[i]].description)]
        /\ \A i, j \in 1..a : ro[i] = ro[j] => i = j
        /\ \A c \in ChannelIds : rooms[c].there => \E i \in 1..a : ro[i] = c
  BY <1>4a
<1>5a. PICK b \in Nat : \E uo \in [1..b -> {p \in People : on[p] # None}] :
        /\ ListedUsers(on) = [i \in 1..b |-> NewUserMsg(uo[i], on[uo[i]])]
        /\ \A i, j \in 1..b : uo[i] = uo[j] => i = j
        /\ \A p \in People : on[p] # None => \E i \in 1..b : uo[i] = p
  BY UsersInList
<1>5. PICK uo \in [1..b -> {p \in People : on[p] # None}] :
        /\ ListedUsers(on) = [i \in 1..b |-> NewUserMsg(uo[i], on[uo[i]])]
        /\ \A i, j \in 1..b : uo[i] = uo[j] => i = j
        /\ \A p \in People : on[p] # None => \E i \in 1..b : uo[i] = p
  BY <1>5a
<1>6. PICK R, U : R = ListedRooms /\ U = ListedUsers(on)
  OBVIOUS
<1>7. /\ R \in Seq(ChannelMessage) /\ Len(R) = a /\ \A i \in 1..a : R[i] = ChannelMsg(ro[i], rooms[ro[i]].description)
  BY <1>2, <1>4, <1>6, RoomsListed
<1>8. /\ U \in Seq(UserMessage) /\ Len(U) = b /\ \A i \in 1..b : U[i] = NewUserMsg(uo[i], on[uo[i]])
  BY <1>2, <1>5, <1>6, UsersListed
<1>9. inbox' = <<VersionMsg>> \o R \o U \o <<SyncMsg(z)>>
  BY <1>1, <1>3, <1>6, Zenon
<1>9a. /\ R \in Seq(Message) /\ U \in Seq(Message) /\ <<VersionMsg>> \in Seq(Message)
       /\ <<SyncMsg(z)>> \in Seq(Message)
  <2>1. Seq(ChannelMessage) \subseteq Seq(Message) /\ Seq(UserMessage) \subseteq Seq(Message)
    BY OtherMessages
  <2>2. VersionMsg \in Message /\ SyncMsg(z) \in Message
    BY <1>2, OtherMessages
  <2> QED
    BY <1>7, <1>8, <2>1, <2>2
<1>9b. PICK V : V = <<VersionMsg>> \o R
  OBVIOUS
<1>9c. /\ V \in Seq(Message) /\ Len(V) = 1 + a
       /\ \A i \in 1..(1 + a) : V[i] = IF i <= 1 THEN <<VersionMsg>>[i] ELSE R[i - 1]
  BY <1>7, <1>9a, <1>9b, ConcatProperties
<1>9d. PICK W : W = V \o U
  OBVIOUS
<1>9e. /\ W \in Seq(Message) /\ Len(W) = 1 + a + b
       /\ \A i \in 1..(1 + a + b) : W[i] = IF i <= 1 + a THEN V[i] ELSE U[i - (1 + a)]
  <2>1. /\ W \in Seq(Message) /\ Len(W) = Len(V) + Len(U)
        /\ \A i \in 1..(Len(V) + Len(U)) : W[i] = IF i <= Len(V) THEN V[i] ELSE U[i - Len(V)]
    BY <1>9a, <1>9c, <1>9d, ConcatProperties
  <2> QED
    BY <1>8, <1>9c, <2>1
<1>9f. inbox' = W \o <<SyncMsg(z)>>
  BY <1>9, <1>9b, <1>9d
<1>9g. /\ inbox' \in Seq(Message) /\ Len(inbox') = 1 + a + b + 1
       /\ \A i \in 1..(1 + a + b + 1) :
            inbox'[i] = IF i <= 1 + a + b THEN W[i] ELSE <<SyncMsg(z)>>[i - (1 + a + b)]
  <2>1. PICK X : X = <<SyncMsg(z)>>
    OBVIOUS
  <2>2. X \in Seq(Message) /\ Len(X) = 1 /\ inbox' = W \o X
    BY <1>9a, <1>9f, <2>1
  <2>3. /\ inbox' \in Seq(Message) /\ Len(inbox') = Len(W) + Len(X)
        /\ \A i \in 1..(Len(W) + Len(X)) : inbox'[i] = IF i <= Len(W) THEN W[i] ELSE X[i - Len(W)]
    BY <1>9e, <2>2, ConcatProperties
  <2> QED
    BY <1>9e, <2>1, <2>2, <2>3
<1>9h. \A i \in 1..(1 + a + b) : inbox'[i] = W[i]
  BY <1>9g
<1>10a. Len(inbox') = a + b + 2 /\ DOMAIN inbox' = 1..(a + b + 2)
  BY <1>9g
<1>10b. inbox'[1] = VersionMsg /\ inbox'[a + b + 2] = SyncMsg(z)
  BY <1>9c, <1>9e, <1>9g
<1>10c. inbox' # <<>>
  BY <1>10a
<1>10. /\ Len(inbox') = a + b + 2 /\ DOMAIN inbox' = 1..(a + b + 2) /\ inbox' # <<>>
       /\ inbox'[1] = VersionMsg /\ inbox'[a + b + 2] = SyncMsg(z)
  BY <1>10a, <1>10b, <1>10c
<1>11. \A i \in 2..(a + 1) : inbox'[i] = R[i - 1]
  BY <1>9c, <1>9e, <1>9h
<1>12. \A i \in (a + 2)..(a + b + 1) : inbox'[i] = U[i - a - 1]
  BY <1>9e, <1>9h
<1>13. \A i \in 2..(a + b + 1) : i \in 2..(a + 1) \/ i \in (a + 2)..(a + b + 1)
  OBVIOUS
<1> DEFINE n == a + b + 2
<1>14. \A i \in 2..(a + 1) : i - 1 \in 1..a /\ inbox'[i] = ChannelMsg(ro[i - 1], rooms[ro[i - 1]].description)
  BY <1>7, <1>11
<1>15. \A i \in (a + 2)..(a + b + 1) :
         i - a - 1 \in 1..b /\ inbox'[i] = NewUserMsg(uo[i - a - 1], on[uo[i - a - 1]])
  BY <1>8, <1>12
<1>16. ASSUME NEW p \in People, NEW i \in 2..(n - 1), Lists(inbox', i, on, p)
       PROVE  i \in (a + 2)..(a + b + 1) /\ uo[i - a - 1] = p
  <2>1. inbox'[i].type = "UserState" /\ inbox'[i].person = p
    BY <1>16 DEF Lists, NewUserMsg, IntroMsg, UserMsg
  <2>2. i \in (a + 2)..(a + b + 1)
    <3> SUFFICES ASSUME i \in 2..(a + 1) PROVE FALSE
      BY <1>13
    <3>1. inbox'[i].type = "ChannelState"
      BY <1>14, RoomFieldsOf
    <3> QED
      BY <2>1, <3>1
  <2>3. inbox'[i].person = uo[i - a - 1]
    BY <1>15, <2>2 DEF NewUserMsg, IntroMsg, UserMsg
  <2> QED
    BY <2>1, <2>2, <2>3
<1>17. ASSUME NEW c \in ChannelIds, NEW i \in 2..(n - 1), ListsRoom(inbox', i, c)
       PROVE  i \in 2..(a + 1) /\ ro[i - 1] = c
  <2>1. inbox'[i].type = "ChannelState" /\ inbox'[i].channel = c
    BY <1>17, RoomFieldsOf DEF ListsRoom
  <2>2. i \in 2..(a + 1)
    <3> SUFFICES ASSUME i \in (a + 2)..(a + b + 1) PROVE FALSE
      BY <1>13
    <3>1. inbox'[i] = NewUserMsg(uo[i - a - 1], on[uo[i - a - 1]])
      BY <1>15
    <3>2. NewUserMsg(uo[i - a - 1], on[uo[i - a - 1]]).type = "UserState"
      BY NewUserType
    <3> QED
      BY <2>1, <3>1, <3>2
  <2>3. inbox'[i].channel = ro[i - 1]
    BY <1>14, <2>2, RoomFieldsOf
  <2> QED
    BY <2>1, <2>2, <2>3
<1>18. ASSUME NEW i \in 2..(n - 1)
       PROVE  (\E p \in People : Lists(inbox', i, on, p)) \/ \E c \in ChannelIds : ListsRoom(inbox', i, c)
  <2>1. CASE i \in 2..(a + 1)
    <3>1. ro[i - 1] \in ChannelIds /\ rooms[ro[i - 1]].there
      BY <1>4, <1>14, <2>1
    <3> QED
      BY <1>14, <2>1, <3>1 DEF ListsRoom
  <2>2. CASE i \in (a + 2)..(a + b + 1)
    <3>1. uo[i - a - 1] \in People /\ on[uo[i - a - 1]] # None
      BY <1>5, <1>15, <2>2
    <3> QED
      BY <1>15, <2>2, <3>1 DEF Lists
  <2> QED
    BY <1>13, <2>1, <2>2
<1>19. ASSUME NEW p \in People, on[p] # None PROVE \E i \in 2..(n - 1) : Lists(inbox', i, on, p)
  <2>1. PICK i \in 1..b : uo[i] = p
    BY <1>5, <1>19
  <2>2. /\ i + a + 1 \in (a + 2)..(a + b + 1) /\ i + a + 1 \in 2..(n - 1)
        /\ (i + a + 1) - a - 1 = i
    OBVIOUS
  <2>3. Lists(inbox', i + a + 1, on, p)
    BY <1>15, <1>19, <2>1, <2>2 DEF Lists
  <2> QED
    BY <2>2, <2>3
<1>20. ASSUME NEW c \in ChannelIds, rooms[c].there PROVE \E i \in 2..(n - 1) : ListsRoom(inbox', i, c)
  <2>1. PICK i \in 1..a : ro[i] = c
    BY <1>4, <1>20
  <2>2. i + 1 \in 2..(a + 1) /\ i + 1 \in 2..(n - 1) /\ (i + 1) - 1 = i
    OBVIOUS
  <2>3. ListsRoom(inbox', i + 1, c)
    BY <1>14, <1>20, <2>1, <2>2 DEF ListsRoom
  <2> QED
    BY <2>2, <2>3
<1>21. ASSUME NEW p \in People, NEW i \in 2..(n - 1), NEW j \in 2..(n - 1),
              Lists(inbox', i, on, p), Lists(inbox', j, on, p)
       PROVE  i = j
  <2>1. i - a - 1 \in 1..b /\ j - a - 1 \in 1..b /\ uo[i - a - 1] = uo[j - a - 1]
    BY <1>15, <1>16, <1>21
  <2>2. i - a - 1 = j - a - 1
    BY <1>5, <2>1
  <2> QED
    BY <2>2
<1>22. ASSUME NEW c \in ChannelIds, NEW i \in 2..(n - 1), NEW j \in 2..(n - 1),
              ListsRoom(inbox', i, c), ListsRoom(inbox', j, c)
       PROVE  i = j
  <2>1. i - 1 \in 1..a /\ j - 1 \in 1..a /\ ro[i - 1] = ro[j - 1]
    BY <1>14, <1>17, <1>22
  <2>2. i - 1 = j - 1
    BY <1>4, <2>1
  <2> QED
    BY <2>2
<1>23. n \in Nat /\ n > 1 /\ Len(inbox') = n /\ inbox' # <<>> /\ DOMAIN inbox' = 1..n
       /\ inbox'[1] = VersionMsg /\ inbox'[n] = SyncMsg(z) /\ online' = on
  BY <1>1, <1>3, <1>10
<1>24. \A i \in 2..(n - 1) :
         (\E p \in People : Lists(inbox', i, on, p)) \/ (\E c \in ChannelIds : ListsRoom(inbox', i, c))
  BY <1>18
<1>25. /\ \A p \in People : on[p] # None => \E i \in 2..(n - 1) : Lists(inbox', i, on, p)
       /\ \A c \in ChannelIds : rooms[c].there => \E i \in 2..(n - 1) : ListsRoom(inbox', i, c)
  BY <1>19, <1>20
<1>26. /\ \A p \in People : \A i, j \in 2..(n - 1) :
            Lists(inbox', i, on, p) /\ Lists(inbox', j, on, p) => i = j
       /\ \A c \in ChannelIds : \A i, j \in 2..(n - 1) :
            ListsRoom(inbox', i, c) /\ ListsRoom(inbox', j, c) => i = j
  BY <1>21, <1>22
<1> HIDE DEF n
<1>27. NewBox(inbox', n, on)
  BY <1>23, <1>24, <1>25, <1>26, Zenon DEF NewBox
<1> QED
  BY <1>3, <1>23, <1>27

LEMMA NewMessages ==
    ASSUME NEW box, NEW n \in Nat, NEW on, NEW z, NewBox(box, n, on), box[n] = SyncMsg(z)
    PROVE  /\ \A i \in 2..n : box[i].type \notin {"Version", "UserRemove", "ChannelRemove"}
           /\ \A i \in 2..n : box[i].type = "UserState" =>
                i \in 2..(n - 1) /\ \E p \in People : Lists(box, i, on, p)
           /\ \A i \in 2..n : box[i].type = "ChannelState" =>
                i \in 2..(n - 1) /\ \E c \in ChannelIds : ListsRoom(box, i, c)
<1>1. box[n].type = "ServerSync"
  BY DEF SyncMsg
<1>2. ASSUME NEW i \in 2..n, i # n
      PROVE  i \in 2..(n - 1) /\ \/ box[i].type = "UserState" /\ \E p \in People : Lists(box, i, on, p)
                                 \/ box[i].type = "ChannelState" /\ \E c \in ChannelIds : ListsRoom(box, i, c)
  <2>1. i \in 2..(n - 1)
    BY <1>2
  <2>2. ASSUME NEW p \in People, Lists(box, i, on, p) PROVE box[i].type = "UserState"
    BY <2>2, NewUserType DEF Lists
  <2>3. ASSUME NEW c \in ChannelIds, ListsRoom(box, i, c) PROVE box[i].type = "ChannelState"
    BY <2>3, RoomFieldsOf DEF ListsRoom
  <2> QED
    BY <2>1, <2>2, <2>3 DEF NewBox
<1> QED
  BY <1>1, <1>2

(* Whatever the last connection has left, something agrees with it. *)
LEMMA SomeFact ==
    ASSUME TypeOK, DataOK
    PROVE  /\ \A s \in SessionIds : \E a \in Facts : Agrees(a, users[s])
           /\ \A c \in ChannelIds : \E a \in RoomFacts : AgreesRoom(a, channels[c])
<1>1. ASSUME NEW s \in SessionIds PROVE \E a \in Facts : Agrees(a, users[s])
  <2>1. CASE users[s] = None
    <3>1. Nobody \in Facts
      BY RosterAssumption DEF Nobody, Facts, BlobValues
    <3> QED
      BY <2>1, <3>1 DEF Agrees
  <2>2. CASE users[s] # None
    <3>1. PICK u : u = users[s]
      OBVIOUS
    <3>2. /\ u.person \in People \cup {None} /\ u.channel \in ChannelIds /\ u.hash \in [Kinds -> HashValues] /\ u # None
      BY <2>2, <3>1 DEF TypeOK, UserType
    <3>3. PICK a : a = Fact(u.person, u.channel, u.hash)
      OBVIOUS
    <3>4. a.there /\ a.person = u.person /\ a.channel = u.channel /\ a.blob = u.hash
      BY <3>3 DEF Fact
    <3>5. a \in Facts
      <4>1. u.hash \in [Kinds -> BlobValues]
        BY <3>2, Marks
      <4> QED
        BY <3>2, <3>3, <4>1 DEF Fact, Facts
    <3> QED
      BY <3>1, <3>2, <3>4, <3>5 DEF Agrees
  <2> QED
    BY <2>1, <2>2
<1>2. ASSUME NEW c \in ChannelIds PROVE \E a \in RoomFacts : AgreesRoom(a, channels[c])
  <2>1. CASE channels[c] = None
    <3>1. Absent \in RoomFacts
      BY DEF Absent, RoomFacts, BlobValues
    <3> QED
      BY <2>1, <3>1 DEF AgreesRoom
  <2>2. CASE channels[c] # None
    <3>1. PICK r : r = channels[c]
      OBVIOUS
    <3>2. r \in RoomType /\ r # None /\ (r.hash = None /\ r.data # None => Short # {})
      BY <2>2, <3>1 DEF TypeOK, DataOK
    <3>3. ASSUME NEW d \in BlobValues, d \notin Short => r.hash = d, d = None => r.data = None
          PROVE  \E a \in RoomFacts : AgreesRoom(a, r)
      <4>1. PICK a : a = [there |-> TRUE, description |-> d]
        OBVIOUS
      <4>2. a \in RoomFacts /\ a.there /\ a.description = d
        BY <4>1 DEF RoomFacts
      <4> QED
        BY <3>2, <3>3, <4>2 DEF AgreesRoom
    <3>4. CASE r.hash = None /\ r.data # None
      <4>1. PICK d \in Short : TRUE
        BY <3>2, <3>4
      <4>2. d \in BlobValues /\ d # None
        BY Marks DEF BlobValues
      <4> QED
        BY <3>1, <3>3, <4>2
    <3>5. CASE ~(r.hash = None /\ r.data # None)
      <4>1. r.hash \in BlobValues
        BY <3>2, Marks DEF RoomType
      <4> QED
        BY <3>1, <3>3, <3>5, <4>1
    <3> QED
      BY <3>4, <3>5
  <2> QED
    BY <2>1, <2>2
<1> QED
  BY <1>1, <1>2

LEMMA ConnectKeeps == ASSUME IInv, IInv', JInv, Connect PROVE JInv'
<1>1. PICK z \in FreeIds, n \in Nat, on \in [People -> SessionIds \cup {None}] :
        /\ online' = on /\ on = [online EXCEPT ![Me] = z]
        /\ NewBox(inbox', n, on) /\ inbox'[n] = SyncMsg(z)
  BY ConnectLists
<1>2. /\ TypeOK /\ TypeOK' /\ Distinct' /\ DataOK /\ inbox' \in Seq(Message)
      /\ UNCHANGED <<place, blob, rooms, roster, users, channels, db, roomDb>>
      /\ \A p \in People : /\ place[p] \in ChannelIds /\ blob[p] \in [Kinds -> BlobValues]
                           /\ \A k \in Kinds : Allowed(p, k, blob[p][k])
  BY DEF IInv, JInv, Connect, TypeOK, roster, DataOK
<1>3. DataOK'
  BY <1>2, DataAtServer DEF DataOK
<1>4. /\ n > 1 /\ Len(inbox') = n /\ inbox' # <<>> /\ DOMAIN inbox' = 1..n
      /\ inbox'[1].type = "Version"
  BY <1>1 DEF NewBox, VersionMsg
<1>5. /\ \A i \in 2..n : inbox'[i].type \notin {"Version", "UserRemove", "ChannelRemove"}
      /\ \A i \in 2..n : inbox'[i].type = "UserState" =>
            i \in 2..(n - 1) /\ \E p \in People : Lists(inbox', i, on, p)
      /\ \A i \in 2..n : inbox'[i].type = "ChannelState" =>
            i \in 2..(n - 1) /\ \E c \in ChannelIds : ListsRoom(inbox', i, c)
  BY <1>1, NewMessages
<1>20. PICK box : box = inbox'
  OBVIOUS
\* What a listed user is told of.
<1>21. ASSUME NEW p \in People, NEW i \in 2..(n - 1), Lists(box, i, on, p)
       PROVE  /\ on[p] \in SessionIds /\ box[i] = IntroMsg(p, on[p], place[p], blob[p])
              /\ box[i].type = "UserState" /\ box[i].session = on[p]
              /\ box[i].person = p /\ box[i].actor = "unset"
  <2>1. on[p] \in SessionIds /\ box[i] = IntroMsg(p, on[p], place[p], blob[p])
    BY <1>21 DEF Lists, NewUserMsg
  <2> QED
    BY <2>1, IntroFields
<1>22. ASSUME NEW s, NEW i \in 1..n, Updates(box[i], s)
       PROVE  i \in 2..(n - 1) /\ \E p \in People : on[p] = s /\ Lists(box, i, on, p)
  <2>1. i \in 2..n
    BY <1>4, <1>20, <1>22 DEF Updates
  <2>2. i \in 2..(n - 1)
    BY <1>5, <1>20, <1>22, <2>1 DEF Updates
  <2>3. PICK p \in People : Lists(box, i, on, p)
    BY <1>5, <1>20, <1>22, <2>1 DEF Updates
  <2> QED
    BY <1>21, <1>22, <2>2, <2>3 DEF Updates
<1>6. ASSUME NEW s \in SessionIds PROVE \E a \in Facts : Agrees(a, users'[s]) /\ Leads(a, inbox', Truth(s)', s)
  <2>1. PICK a \in Facts : Agrees(a, users[s])
    BY <1>2, SomeFact
  <2>2. /\ \A p \in People : on[p] = s => Truth(s)' = Fact(p, place[p], blob[p])
        /\ (\A p \in People : on[p] # s) => Truth(s)' = Nobody
        /\ Truth(s)' \in Facts
    BY <1>1, <1>2, TruthWillBe
  <2>3. PICK y : y = Truth(s)'
    OBVIOUS
  <2>4. ASSUME NEW i \in 2..n, Updates(box[i], s)
        PROVE  Introduces(box[i], s) /\ y = After(Nobody, box[i], s)
    <3>1. PICK p \in People : i \in 2..(n - 1) /\ on[p] = s /\ Lists(box, i, on, p)
      BY <1>22, <2>4
    <3>2. box[i] = IntroMsg(p, s, place[p], blob[p]) /\ y = Fact(p, place[p], blob[p])
      BY <1>21, <2>2, <2>3, <3>1
    <3>3. ~Nobody.there
      BY DEF Nobody
    <3>4. After(Nobody, IntroMsg(p, s, place[p], blob[p]), s) = Fact(p, place[p], blob[p])
      BY <1>2, <3>3, Introduction
    <3>5. Introduces(box[i], s)
      BY <1>2, <3>2 DEF Introduces
    <3> QED
      BY <3>2, <3>4, <3>5
  <2>5. ASSUME NEW i \in 2..n, NEW j \in 2..n, Updates(box[i], s), Updates(box[j], s)
        PROVE  i = j
    <3>1. PICK p \in People : i \in 2..(n - 1) /\ on[p] = s /\ Lists(box, i, on, p)
      BY <1>22, <2>5
    <3>2. PICK q \in People : j \in 2..(n - 1) /\ on[q] = s /\ Lists(box, j, on, q)
      BY <1>22, <2>5
    <3>3. p = q
      BY <1>1, <1>2, <3>1, <3>2, Marks DEF Distinct
    <3> QED
      BY <1>1, <1>20, <3>1, <3>2, <3>3 DEF NewBox
  <2>6. \A i \in 2..n : ~Removes(box[i], s)
    BY <1>5, <1>20 DEF Removes
  <2>7. y = Nobody \/ \E i \in 2..n : Updates(box[i], s)
    <3>1. CASE \A p \in People : on[p] # s
      BY <2>2, <2>3, <3>1
    <3>2. CASE \E p \in People : on[p] = s
      <4>1. PICK p \in People : on[p] = s
        BY <3>2
      <4>2. PICK i \in 2..(n - 1) : Lists(box, i, on, p)
        BY <1>1, <1>20, <4>1, Marks DEF NewBox
      <4> QED
        BY <1>21, <4>1, <4>2 DEF Updates
    <3> QED
      BY <3>1, <3>2
  <2>8. y \in Facts
    BY <2>2, <2>3
  <2>9. Leads(a, box, y, s)
    BY <1>2, <1>4, <1>20, <2>4, <2>5, <2>6, <2>7, <2>8, LeadsNew
  <2> QED
    BY <1>2, <1>20, <2>1, <2>3, <2>9
<1>7. ASSUME NEW c \in ChannelIds
      PROVE  \E a \in RoomFacts : AgreesRoom(a, channels'[c]) /\ LeadsRoom(a, inbox', rooms'[c], c)
  <2>1. PICK a \in RoomFacts : AgreesRoom(a, channels[c])
    BY <1>2, SomeFact
  <2>2. PICK y : y = rooms[c] /\ y \in RoomFacts
    BY <1>2 DEF TypeOK, RoomFacts
  <2>3. ASSUME NEW i \in 2..n, Concerns(box[i], c)
        PROVE  /\ box[i] = ChannelMsg(c, y.description) /\ y.there
               /\ i \in 2..(n - 1) /\ ListsRoom(box, i, c)
    <3>1. PICK d \in ChannelIds : ListsRoom(box, i, d)
      BY <1>5, <1>20, <2>3 DEF Concerns
    <3>2. d = c
      BY <2>3, <3>1, RoomFieldsOf DEF ListsRoom, Concerns
    <3>3. i \in 2..(n - 1)
      BY <1>5, <1>20, <2>3 DEF Concerns
    <3> QED
      BY <2>2, <3>1, <3>2, <3>3 DEF ListsRoom
  <2>4. \A i, j \in 2..n : Concerns(box[i], c) /\ Concerns(box[j], c) => i = j
    BY <1>1, <1>20, <2>3 DEF NewBox
  <2>5. y = Absent \/ \E i \in 2..n : Concerns(box[i], c)
    <3>1. CASE ~rooms[c].there
      BY <1>2, <2>2, <3>1 DEF DataOK
    <3>2. CASE rooms[c].there
      <4>1. PICK i \in 2..(n - 1) : ListsRoom(box, i, c)
        BY <1>1, <1>20, <3>2 DEF NewBox
      <4>2. Concerns(box[i], c)
        BY <4>1, RoomFieldsOf DEF ListsRoom, Concerns
      <4> QED
        BY <4>1, <4>2
    <3> QED
      BY <3>1, <3>2
  <2>6. LeadsRoom(a, box, y, c)
    BY <1>2, <1>4, <1>5, <1>20, <2>2, <2>3, <2>4, <2>5, LeadsRoomNew
  <2> QED
    BY <1>2, <1>20, <2>1, <2>2, <2>6
<1>8. ListingOK'
  <2>1. ASSUME NEW i \in 1..n, inbox'[i].type = "UserState" PROVE inbox'[i].person # None
    <3>1. i \in 2..n
      BY <1>4, <2>1
    <3>2. PICK p \in People : i \in 2..(n - 1) /\ Lists(box, i, on, p)
      BY <1>5, <1>20, <2>1, <3>1
    <3> QED
      BY <1>20, <1>21, <3>2, Marks
  <2> QED
    BY <1>4, <2>1 DEF ListingOK, IsAt
<1>9. 1 \in DOMAIN inbox' /\ IsAt(1, "Version")'
  BY <1>4 DEF IsAt
<1>10. MissingSeen'
  BY <1>9 DEF MissingSeen
<1>11. MissingAsked'
  <2>1. ~Synced'
    BY <1>4 DEF Synced, OnItsWay
  <2> QED
    BY <2>1 DEF MissingAsked
<1>12. Stories'
  BY <1>6, <1>7 DEF Stories
<1>13. ActorsKnown'
  <2>1. ASSUME NEW i \in 1..n, box[i].type = "UserState" PROVE box[i].actor = "unset"
    <3>1. Updates(box[i], box[i].session)
      BY <2>1 DEF Updates
    <3>2. PICK p \in People : i \in 2..(n - 1) /\ Lists(box, i, on, p)
      BY <1>22, <3>1
    <3> QED
      BY <1>21, <3>2
  <2> QED
    BY <1>4, <1>20, <2>1 DEF ActorsKnown, IsAt
<1>14. OneSession'
  <2> SUFFICES ASSUME NEW p \in People, NEW s \in SessionIds, NEW i \in 0..n, Holds(p, s, i)'
               PROVE  /\ online'[p] = s \/ Ends(s, i, n + 1)'
                      /\ \A t \in SessionIds, j \in i..n : Holds(p, t, j)' /\ t # s => Ends(s, i, j)'
    BY <1>4 DEF OneSession
  <2>1. ASSUME NEW t \in SessionIds, NEW j \in 1..n, Holds(p, t, j)' PROVE j \in 2..(n - 1) /\ on[p] = t
    <3>1. Updates(box[j], t) /\ box[j].person = p
      BY <1>20, <2>1 DEF Holds
    <3>2. PICK q \in People : j \in 2..(n - 1) /\ on[q] = t /\ Lists(box, j, on, q)
      BY <1>22, <3>1
    <3> QED
      BY <1>21, <3>1, <3>2
  <2>2. CASE i = 0
    <3>1. \A x \in 2..(n + 1) : Ends(s, 0, x)'
      BY <1>4 DEF Ends, Removes
    <3>2. ASSUME NEW t \in SessionIds, NEW j \in 0..n, Holds(p, t, j)', t # s PROVE Ends(s, 0, j)'
      <4>1. CASE j = 0
        <5>1. users[s] # None /\ users[s].person = p /\ users[t] # None /\ users[t].person = p
          BY <1>2, <2>2, <3>2, <4>1 DEF Holds
        <5> QED
          BY <1>2, <3>2, <5>1 DEF DataOK, InMap
      <4>2. CASE j # 0
        <5>1. j \in 2..(n - 1)
          BY <2>1, <3>2, <4>2
        <5> QED
          BY <3>1, <5>1
      <4> QED
        BY <4>1, <4>2
    <3> QED
      BY <1>4, <2>2, <3>1, <3>2
  <2>3. CASE i # 0
    <3>1. i \in 1..n
      BY <2>3
    <3>2. on[p] = s /\ online' = on
      BY <1>1, <2>1, <3>1
    <3>3. ASSUME NEW t \in SessionIds, NEW j \in i..n, Holds(p, t, j)' PROVE t = s
      <4>1. j \in 1..n
        BY <3>1
      <4> QED
        BY <2>1, <3>2, <3>3, <4>1
    <3> QED
      BY <3>2, <3>3
  <2> QED
    BY <2>2, <2>3
<1> QED
  BY <1>3, <1>8, <1>10, <1>11, <1>12, <1>13, <1>14 DEF JInv

LEMMA DisconnectKeeps == ASSUME JInv, Disconnect PROVE JInv'
<1>1. /\ ~alive' /\ inbox' = <<>> /\ ~up' /\ DOMAIN inbox' = {}
      /\ UNCHANGED <<place, blob, rooms, roster, db, roomDb>>
  BY DEF Disconnect
<1>2. DataOK'
  BY <1>1, DataAtServer DEF JInv, DataOK
<1>3. Stories' /\ ActorsKnown' /\ OneSession' /\ MissingSeen' /\ MissingAsked'
  BY <1>1 DEF Stories, ActorsKnown, OneSession, MissingSeen, MissingAsked, Synced
<1>4. ListingOK'
  BY <1>1 DEF ListingOK
<1> QED
  BY <1>2, <1>3, <1>4 DEF JInv

(***************************************************************************)
(* The client handles a message.                                           *)
(***************************************************************************)
HeadAbout(x, k) == /\ Head(inbox).type \in {"UserState", "UserRemove"} /\ Head(inbox).session = x
                   /\ Head(inbox).type = "UserState" => Head(inbox).inline[k] # "unset"
HeadAboutText(c) == Head(inbox).type \in {"ChannelState", "ChannelRemove"} /\ Head(inbox).channel = c

NoVersion  == \A v \in DOMAIN inbox : ~IsAt(v, "Version")
BeforeSync == alive /\ (\E j \in DOMAIN inbox : IsAt(j, "ServerSync")) /\ NoVersion

LEMMA Handled ==
    ASSUME IInv, NEW type, Take(type)
    PROVE  /\ inbox \in Seq(Message) /\ inbox # <<>> /\ inbox' = Tail(inbox)
           /\ Head(inbox) \in Message /\ Head(inbox).type = type
           /\ alive /\ up /\ up' = up /\ UNCHANGED <<online, place, blob, rooms>>
           /\ \A m \in OnItsWay : m = Head(inbox) \/ m \in OnItsWay'
           /\ OnItsWay' \subseteq OnItsWay /\ Head(inbox) \in OnItsWay
<1>1. /\ inbox \in Seq(Message) /\ inbox # <<>> /\ inbox' = Tail(inbox)
      /\ Head(inbox) \in Message /\ Head(inbox).type = type
  BY TypeTake DEF Take, IInv, TypeOK
<1>2. alive /\ up /\ up' = up /\ UNCHANGED <<online, place, blob, rooms>>
  BY Rest DEF server
<1>3. /\ 1 \in DOMAIN inbox /\ inbox[1] = Head(inbox)
      /\ \A i \in DOMAIN inbox' : i + 1 \in DOMAIN inbox /\ inbox'[i] = inbox[i + 1]
      /\ \A i \in DOMAIN inbox : i = 1 \/ (i - 1 \in DOMAIN inbox' /\ inbox'[i - 1] = inbox[i])
  BY Rest
<1>4. OnItsWay' \subseteq OnItsWay
  BY <1>3 DEF OnItsWay
<1>5. ASSUME NEW m \in OnItsWay, m # Head(inbox) PROVE m \in OnItsWay'
  BY <1>3, <1>5 DEF OnItsWay
<1>6. Head(inbox) \in OnItsWay
  BY <1>3 DEF OnItsWay
<1> QED
  BY <1>1, <1>2, <1>4, <1>5, <1>6

(* What a message that is handled may be: it fits what has been told so far. *)
LEMMA Fitting ==
    ASSUME IInv, JInv, NEW type, Take(type)
    PROVE  /\ \A s \in SessionIds : \E a \in Facts : Agrees(a, users[s]) /\ Fits(a, Head(inbox), s)
           /\ \A c \in ChannelIds : \E a \in RoomFacts : AgreesRoom(a, channels[c]) /\ FitsRoom(a, Head(inbox), c)
<1>1. inbox \in Seq(Message) /\ inbox # <<>> /\ alive
  BY Handled
<1>2. ASSUME NEW s \in SessionIds PROVE \E a \in Facts : Agrees(a, users[s]) /\ Fits(a, Head(inbox), s)
  <2>1. PICK a \in Facts : Agrees(a, users[s]) /\ Leads(a, inbox, Truth(s), s)
    BY <1>1 DEF JInv, Stories
  <2> QED
    BY <1>1, <2>1, LeadsTail
<1>3. ASSUME NEW c \in ChannelIds
      PROVE  \E a \in RoomFacts : AgreesRoom(a, channels[c]) /\ FitsRoom(a, Head(inbox), c)
  <2>1. PICK a \in RoomFacts : AgreesRoom(a, channels[c]) /\ LeadsRoom(a, inbox, rooms[c], c)
    BY <1>1 DEF JInv, Stories
  <2> QED
    BY <1>1, <2>1, LeadsRoomTail
<1> QED
  BY <1>2, <1>3

(* Who acts is in the map: the KeyError of users.py line 287 is for those who
   are not (Stranger). *)
LEMMA NoStranger ==
    ASSUME IInv, JInv, Take("UserState")
    PROVE  ~Stranger(Head(inbox))
<1>1. 1 \in DOMAIN inbox /\ IsAt(1, "UserState") /\ inbox[1] = Head(inbox) /\ alive
  BY Rest, Handled
<1>2. ASSUME inbox[1].actor # "unset" PROVE users[inbox[1].actor] # None
  <2>1. KnownAt(inbox[1].actor, 1)
    BY <1>1, <1>2 DEF JInv, ActorsKnown
  <2> QED
    BY <2>1 DEF KnownAt
<1> QED
  BY <1>1, <1>2 DEF Stranger

LEMMA ListingKept == ASSUME IInv, JInv, NEW type, Take(type) PROVE ListingOK'
<1> SUFFICES ASSUME NEW i \in DOMAIN inbox', NEW j \in DOMAIN inbox', i < j,
                    IsAt(j, "ServerSync")', IsAt(i, "UserState")'
             PROVE  inbox'[i].person # None
  BY DEF ListingOK
<1>1. /\ i + 1 \in DOMAIN inbox /\ inbox'[i] = inbox[i + 1]
      /\ j + 1 \in DOMAIN inbox /\ inbox'[j] = inbox[j + 1] /\ i \in Nat /\ j \in Nat
  BY Rest
<1>2. i + 1 < j + 1 /\ IsAt(j + 1, "ServerSync") /\ IsAt(i + 1, "UserState")
  BY <1>1 DEF IsAt
<1> QED
  BY <1>1, <1>2 DEF JInv, ListingOK

(* The messages that are left, counted from the one that is taken. *)
LEMMA Shifted ==
    ASSUME IInv, NEW type, Take(type)
    PROVE  \E n \in Nat \ {0} :
             /\ n = Len(inbox) /\ Len(inbox') = n - 1 /\ DOMAIN inbox = 1..n /\ DOMAIN inbox' = 1..(n - 1)
             /\ inbox[1] = Head(inbox) /\ \A i \in 1..(n - 1) : inbox'[i] = inbox[i + 1]
             /\ \A s \in SessionIds, i \in 1..n, j \in 0..(n - 1) : Stays(inbox', i, j, s) <=> Stays(inbox, i + 1, j + 1, s)
<1>1. inbox \in Seq(Message) /\ inbox # <<>> /\ inbox' = Tail(inbox)
  BY Handled
<1>2. PICK n \in Nat \ {0} : n = Len(inbox)
  BY <1>1, FirstTaken
<1>3. /\ Len(inbox') = n - 1 /\ DOMAIN inbox = 1..n /\ inbox[1] = Head(inbox)
      /\ \A i \in 1..(n - 1) : inbox'[i] = inbox[i + 1]
  BY <1>1, <1>2, FirstTaken
<1>4. DOMAIN inbox' = 1..(n - 1)
  BY <1>1, <1>3
<1>5. \A s \in SessionIds, i \in 1..n, j \in 0..(n - 1) : Stays(inbox', i, j, s) <=> Stays(inbox, i + 1, j + 1, s)
  BY <1>1, <1>2, StaysTail
<1> QED
  BY <1>2, <1>3, <1>4, <1>5

(* The handler makes of the maps what the message tells of them. *)
Follows(m) ==
    alive' =>
      /\ \A s \in SessionIds, a \in Facts :
           Agrees(a, users[s]) /\ Fits(a, m, s) => Agrees(After(a, m, s), users'[s])
      /\ \A c \in ChannelIds, a \in RoomFacts :
           AgreesRoom(a, channels[c]) /\ FitsRoom(a, m, c) => AgreesRoom(AfterRoom(a, m, c), channels'[c])

LEMMA StoriesKept ==
    ASSUME IInv, JInv, NEW type, Take(type), Follows(Head(inbox))
    PROVE  Stories'
<1>1. /\ inbox \in Seq(Message) /\ inbox # <<>> /\ inbox' = Tail(inbox)
      /\ alive /\ UNCHANGED <<online, place, blob, rooms>>
  BY Handled
<1>2. PICK m, rest : m = Head(inbox) /\ rest = Tail(inbox)
  OBVIOUS
<1>6. rest \in Seq(Message)
  BY <1>1, <1>2
<1>3. ASSUME alive', NEW s \in SessionIds
      PROVE  \E a \in Facts : Agrees(a, users'[s]) /\ Leads(a, inbox', Truth(s)', s)
  <2>1. PICK a \in Facts : Agrees(a, users[s]) /\ Leads(a, inbox, Truth(s), s)
    BY <1>1 DEF JInv, Stories
  <2>2. Fits(a, m, s) /\ Leads(After(a, m, s), rest, Truth(s), s)
    BY <1>1, <1>2, <2>1, LeadsTail
  <2>3. After(a, m, s) \in Facts
    BY <1>6, <2>2, LeadsEnd
  <2>4. Agrees(After(a, m, s), users'[s])
    BY <1>2, <1>3, <2>1, <2>2 DEF Follows
  <2>5. Truth(s)' = Truth(s)
    BY <1>1 DEF Truth
  <2> QED
    BY <1>1, <1>2, <2>2, <2>3, <2>4, <2>5
<1>4. ASSUME alive', NEW c \in ChannelIds
      PROVE  \E a \in RoomFacts : AgreesRoom(a, channels'[c]) /\ LeadsRoom(a, inbox', rooms'[c], c)
  <2>1. PICK a \in RoomFacts : AgreesRoom(a, channels[c]) /\ LeadsRoom(a, inbox, rooms[c], c)
    BY <1>1 DEF JInv, Stories
  <2>2. FitsRoom(a, m, c) /\ LeadsRoom(AfterRoom(a, m, c), rest, rooms[c], c)
    BY <1>1, <1>2, <2>1, LeadsRoomTail
  <2>3. AfterRoom(a, m, c) \in RoomFacts
    BY <1>6, <2>2, LeadsRoomEnd
  <2>4. AgreesRoom(AfterRoom(a, m, c), channels'[c])
    BY <1>2, <1>4, <2>1, <2>2 DEF Follows
  <2> QED
    BY <1>1, <1>2, <2>2, <2>3, <2>4
<1> QED
  BY <1>3, <1>4 DEF Stories

(* Who is in the map then was there before, or the message is about them. *)
LEMMA WhoIsThere ==
    ASSUME IInv, JInv, NEW type, Take(type), Follows(Head(inbox)), alive', NEW s \in SessionIds
    PROVE  /\ (users[s] # None /\ ~Removes(Head(inbox), s)) \/ (Updates(Head(inbox), s)) => users'[s] # None
           /\ users'[s] # None =>
                \/ users[s] # None /\ users[s].person = users'[s].person /\ ~Removes(Head(inbox), s)
                \/ Updates(Head(inbox), s) /\ Head(inbox).person = users'[s].person
<1>1. PICK m : m = Head(inbox) /\ m \in Message
  BY Handled
<1>2. PICK a \in Facts : Agrees(a, users[s]) /\ Fits(a, m, s)
  BY <1>1, Fitting
<1>3. Agrees(After(a, m, s), users'[s])
  BY <1>1, <1>2 DEF Follows
<1>4. /\ a.there <=> users[s] # None
      /\ users[s] # None => a.person = users[s].person
  BY <1>2 DEF Agrees, Nobody
<1>5. /\ After(a, m, s).there <=> users'[s] # None
      /\ users'[s] # None => After(a, m, s).person = users'[s].person
  BY <1>3 DEF Agrees, Nobody
<1>6. /\ Removes(m, s) => ~After(a, m, s).there
      /\ Updates(m, s) => ~Removes(m, s)
      /\ ~Removes(m, s) /\ ~Updates(m, s) => After(a, m, s) = a
      /\ ~Removes(m, s) /\ Updates(m, s) => After(a, m, s).there
      /\ ~Removes(m, s) /\ a.there => After(a, m, s).there /\ After(a, m, s).person = a.person
  BY <1>1, AfterFacts DEF Nobody, Removes, Updates
<1>7. Updates(m, s) /\ ~a.there => After(a, m, s).person = m.person
  BY <1>6 DEF After, Fact
<1> QED
  BY <1>1, <1>4, <1>5, <1>6, <1>7

LEMMA ActorsKept ==
    ASSUME IInv, JInv, NEW type, Take(type), Follows(Head(inbox))
    PROVE  ActorsKnown'
<1>1. PICK n \in Nat \ {0} :
             /\ n = Len(inbox) /\ Len(inbox') = n - 1 /\ DOMAIN inbox = 1..n /\ DOMAIN inbox' = 1..(n - 1)
             /\ inbox[1] = Head(inbox) /\ \A i \in 1..(n - 1) : inbox'[i] = inbox[i + 1]
             /\ \A s \in SessionIds, i \in 1..n, j \in 0..(n - 1) : Stays(inbox', i, j, s) <=> Stays(inbox, i + 1, j + 1, s)
  BY Shifted
<1>2. alive
  BY Handled
<1> SUFFICES ASSUME alive', NEW i \in 1..(n - 1), IsAt(i, "UserState")', NEW s, s = inbox'[i].actor, s # "unset"
             PROVE  KnownAt(s, i)'
  BY <1>1 DEF ActorsKnown
<1>3. i + 1 \in DOMAIN inbox /\ IsAt(i + 1, "UserState") /\ inbox[i + 1].actor = s
  BY <1>1 DEF IsAt
<1>4. KnownAt(s, i + 1)
  BY <1>2, <1>3 DEF JInv, ActorsKnown
<1>5. s \in SessionIds
  <2>1. inbox[i + 1] \in Message /\ inbox[i + 1].type = "UserState"
    BY <1>3 DEF IInv, TypeOK, IsAt
  <2> QED
    BY <1>3, <2>1 DEF Message, UserMessage, ChannelMessage, VersionMsg
<1>6. /\ (users[s] # None /\ ~Removes(inbox[1], s)) \/ Updates(inbox[1], s) => users'[s] # None
  BY <1>1, <1>5, WhoIsThere
<1>7. CASE users[s] # None /\ Stays(inbox, 1, (i + 1) - 1, s)
  <2>1. Stays(inbox, 1, i, s)
    BY <1>7
  <2>2. 1 \in 1..i /\ \A l \in 2..i : l \in 1..i
    OBVIOUS
  <2>3. ~Removes(inbox[1], s) /\ Stays(inbox, 2, i, s)
    BY <2>1, <2>2 DEF Stays
  <2>4. Stays(inbox', 1, i - 1, s)
    <3>1. 1 \in 1..n /\ i - 1 \in 0..(n - 1) /\ 1 + 1 = 2 /\ (i - 1) + 1 = i
      BY <1>1
    <3>2. Stays(inbox', 1, i - 1, s) <=> Stays(inbox, 1 + 1, (i - 1) + 1, s)
      BY <1>1, <1>5, <3>1
    <3> QED
      BY <2>3, <3>1, <3>2
  <2> QED
    BY <1>6, <1>7, <2>3, <2>4 DEF KnownAt
<1>8. CASE \E j \in 1..((i + 1) - 1) : Updates(inbox[j], s) /\ Stays(inbox, j + 1, (i + 1) - 1, s)
  <2>1. PICK j \in 1..i : Updates(inbox[j], s) /\ Stays(inbox, j + 1, i, s)
    BY <1>8
  <2>2. Stays(inbox', j, i - 1, s)
    <3>1. j \in 1..n /\ i - 1 \in 0..(n - 1) /\ (i - 1) + 1 = i
      BY <1>1
    <3>2. Stays(inbox', j, i - 1, s) <=> Stays(inbox, j + 1, (i - 1) + 1, s)
      BY <1>1, <1>5, <3>1
    <3> QED
      BY <2>1, <3>1, <3>2
  <2>3. CASE j = 1
    BY <1>6, <2>1, <2>2, <2>3 DEF KnownAt
  <2>4. CASE j # 1
    <3>1. j - 1 \in 1..(i - 1) /\ inbox'[j - 1] = inbox[j] /\ (j - 1) + 1 = j
      BY <1>1, <2>4
    <3> QED
      BY <2>1, <2>2, <3>1 DEF KnownAt
  <2> QED
    BY <2>3, <2>4
<1> QED
  BY <1>4, <1>7, <1>8 DEF KnownAt

(* Each person goes on to have one session. *)
LEMMA SessionsKept ==
    ASSUME IInv, JInv, NEW type, Take(type), Follows(Head(inbox))
    PROVE  OneSession'
<1>1. PICK n \in Nat \ {0} :
             /\ n = Len(inbox) /\ Len(inbox') = n - 1 /\ DOMAIN inbox = 1..n /\ DOMAIN inbox' = 1..(n - 1)
             /\ inbox[1] = Head(inbox) /\ \A i \in 1..(n - 1) : inbox'[i] = inbox[i + 1]
  BY Shifted
<1>2. alive /\ UNCHANGED online
  BY Handled
<1> SUFFICES ASSUME alive', NEW p \in People, NEW s \in SessionIds, NEW i \in 0..(n - 1), Holds(p, s, i)'
             PROVE  /\ online'[p] = s \/ Ends(s, i, n)'
                    /\ \A t \in SessionIds, j \in i..(n - 1) : Holds(p, t, j)' /\ t # s => Ends(s, i, j)'
  BY <1>1 DEF OneSession
\* Where it was before.
<1>3. ASSUME NEW t \in SessionIds, NEW j \in 0..(n - 1), Holds(p, t, j)'
      PROVE  Holds(p, t, j + 1) \/ (j = 0 /\ Holds(p, t, 0) /\ ~Removes(inbox[1], t))
  <2>1. CASE j = 0
    <3>1. users'[t] # None /\ users'[t].person = p
      BY <1>3, <2>1 DEF Holds
    <3>2. \/ users[t] # None /\ users[t].person = p /\ ~Removes(inbox[1], t)
          \/ Updates(inbox[1], t) /\ inbox[1].person = p
      BY <1>1, <3>1, WhoIsThere
    <3> QED
      BY <2>1, <3>2 DEF Holds
  <2>2. CASE j # 0
    <3>1. j \in 1..(n - 1) /\ inbox'[j] = inbox[j + 1] /\ j + 1 # 0
      BY <1>1, <2>2
    <3> QED
      BY <1>3, <3>1 DEF Holds
  <2> QED
    BY <2>1, <2>2
<1>4. ASSUME NEW t \in SessionIds, NEW x \in 0..(n - 1), NEW y \in 0..n, Ends(t, x + 1, y + 1) PROVE Ends(t, x, y)'
  <2>1. PICK l \in 1..n : x + 1 < l /\ l < y + 1 /\ Removes(inbox[l], t)
    BY <1>1, <1>4 DEF Ends
  <2>2. /\ l - 1 \in 1..(n - 1) /\ x < l - 1 /\ l - 1 < y /\ (l - 1) + 1 = l
    BY <2>1
  <2>3. inbox'[l - 1] = inbox[l]
    BY <1>1, <2>2
  <2>4. l - 1 \in DOMAIN inbox'
    BY <1>1, <2>2
  <2>5. PICK q, m : q = l - 1 /\ m = inbox[l]
    OBVIOUS
  <2>6. q \in DOMAIN inbox' /\ x < q /\ q < y /\ inbox'[q] = m /\ Removes(m, t)
    BY <2>1, <2>2, <2>3, <2>4, <2>5
  <2> QED
    BY <2>6 DEF Ends
<1>5. ASSUME NEW t \in SessionIds, NEW y \in 1..(n + 1), ~Removes(inbox[1], t), Ends(t, 0, y) PROVE Ends(t, 1, y)
  <2>1. PICK l \in 1..n : l < y /\ Removes(inbox[l], t)
    BY <1>1, <1>5 DEF Ends
  <2>2. l # 1
    BY <1>5, <2>1
  <2> QED
    BY <1>1, <2>1, <2>2 DEF Ends
\* What was so of two sessions of the same person.
<1>6. ASSUME NEW t \in SessionIds, NEW x \in 0..n, Holds(p, t, x)
      PROVE  /\ online[p] = t \/ Ends(t, x, n + 1)
             /\ \A w \in SessionIds, y \in x..n : Holds(p, w, y) /\ w # t => Ends(t, x, y)
  BY <1>1, <1>2, <1>6 DEF JInv, OneSession
<1>7. ASSUME NEW t \in SessionIds PROVE ~Ends(t, 0, 0) /\ ~Ends(t, 0, 1)
  BY <1>1 DEF Ends
<1>8. i + 1 \in 0..n /\ 0 \in 0..n /\ n \in 0..n /\ n + 1 \in 1..(n + 1) /\ 0 \in 0..(n - 1)
  OBVIOUS
<1>9. CASE Holds(p, s, i + 1)
  <2>1. online'[p] = s \/ Ends(s, i, n)'
    BY <1>2, <1>4, <1>6, <1>8, <1>9
  <2>2. ASSUME NEW t \in SessionIds, NEW j \in i..(n - 1), Holds(p, t, j)', t # s PROVE Ends(s, i, j)'
    <3>1. j \in 0..(n - 1) /\ j + 1 \in (i + 1)..n /\ j \in 0..n
      OBVIOUS
    <3>2. CASE Holds(p, t, j + 1)
      <4>1. Ends(s, i + 1, j + 1)
        BY <1>6, <1>8, <1>9, <2>2, <3>1, <3>2
      <4> QED
        BY <1>4, <3>1, <4>1
    <3>3. CASE j = 0 /\ Holds(p, t, 0)
      <4>1. i = 0 /\ Holds(p, s, 1) /\ 1 \in 0..n
        BY <1>9, <3>3
      <4>2. Ends(t, 0, 1)
        BY <1>6, <1>8, <2>2, <3>3, <4>1
      <4> QED
        BY <1>7, <4>2
    <3> QED
      BY <1>3, <2>2, <3>1, <3>2, <3>3
  <2> QED
    BY <2>1, <2>2
<1>10. CASE i = 0 /\ Holds(p, s, 0) /\ ~Removes(inbox[1], s)
  <2>1. online'[p] = s \/ Ends(s, 0, n)'
    <3>1. online[p] = s \/ Ends(s, 0, n + 1)
      BY <1>6, <1>8, <1>10
    <3>2. Ends(s, 0, n + 1) => Ends(s, 0 + 1, n + 1)
      BY <1>5, <1>8, <1>10
    <3> QED
      BY <1>2, <1>4, <1>8, <3>1, <3>2
  <2>2. ASSUME NEW t \in SessionIds, NEW j \in 0..(n - 1), Holds(p, t, j)', t # s PROVE Ends(s, 0, j)'
    <3>1. j + 1 \in 0..n /\ j + 1 \in 1..(n + 1) /\ j \in 0..n
      OBVIOUS
    <3>2. CASE Holds(p, t, j + 1)
      <4>1. Ends(s, 0, j + 1)
        BY <1>6, <1>8, <1>10, <2>2, <3>1, <3>2
      <4>2. Ends(s, 0 + 1, j + 1)
        BY <1>5, <1>10, <3>1, <4>1
      <4> QED
        BY <1>4, <1>8, <3>1, <4>2
    <3>3. CASE j = 0 /\ Holds(p, t, 0)
      <4>1. Ends(s, 0, 0)
        BY <1>6, <1>8, <1>10, <2>2, <3>3
      <4> QED
        BY <1>7, <4>1
    <3> QED
      BY <1>3, <2>2, <3>2, <3>3
  <2> QED
    BY <1>10, <2>1, <2>2
<1> QED
  BY <1>3, <1>9, <1>10

LEMMA UsersSame ==
    ASSUME NEW m, m.type \notin {"Version", "UserState", "UserRemove"}, users' = users
    PROVE  \A s, a : Agrees(a, users[s]) => Agrees(After(a, m, s), users'[s])
BY DEF After, Removes, Updates

LEMMA RoomsSame ==
    ASSUME NEW m, m.type \notin {"Version", "ChannelState", "ChannelRemove"}, channels' = channels
    PROVE  \A c, a : AgreesRoom(a, channels[c]) => AgreesRoom(AfterRoom(a, m, c), channels'[c])
BY DEF AfterRoom, Concerns

(* While the server lists, a UserState introduces its user. *)
LEMMA StillListing ==
    ASSUME IInv, JInv, NEW type, Take(type), type # "Version"
    PROVE  /\ NoVersion' => NoVersion
           /\ BeforeSync' => BeforeSync /\ (type = "UserState" => Head(inbox).person # None)
<1>1. /\ 1 \in DOMAIN inbox /\ IsAt(1, type) /\ inbox[1] = Head(inbox) /\ alive
      /\ DOMAIN inbox \subseteq Nat /\ DOMAIN inbox' \subseteq Nat
      /\ \A i \in DOMAIN inbox' : i + 1 \in DOMAIN inbox /\ inbox'[i] = inbox[i + 1]
      /\ \A i \in DOMAIN inbox : i = 1 \/ (i - 1 \in DOMAIN inbox' /\ inbox'[i - 1] = inbox[i])
  BY Rest
<1>7. ASSUME NoVersion', NEW v \in DOMAIN inbox, IsAt(v, "Version") PROVE FALSE
  <2>1. CASE v = 1
    BY <1>1, <1>7, <2>1 DEF IsAt
  <2>2. CASE v # 1
    <3>1. v - 1 \in DOMAIN inbox' /\ IsAt(v - 1, "Version")'
      BY <1>1, <1>7, <2>2 DEF IsAt
    <3> QED
      BY <1>7, <3>1 DEF NoVersion
  <2> QED
    BY <2>1, <2>2
<1>2. ASSUME BeforeSync' PROVE BeforeSync /\ (type = "UserState" => Head(inbox).person # None)
  <2>1. PICK j \in DOMAIN inbox' : IsAt(j, "ServerSync")'
    BY <1>2 DEF BeforeSync
  <2>3. j \in DOMAIN inbox' /\ inbox'[j].type = "ServerSync"
    BY <2>1 DEF IsAt
  <2>4. j + 1 \in DOMAIN inbox /\ IsAt(j + 1, "ServerSync")
    BY <1>1, <2>3 DEF IsAt
  <2>5. 1 < j + 1 \/ j = 0
    BY <1>1, <2>3
  <2>6. j # 0
    <3>1. inbox' \in Seq(Message)
      BY Handled
    <3> QED
      BY <2>3, <3>1
  <2>8. type = "UserState" => Head(inbox).person # None
    BY <1>1, <2>4, <2>5, <2>6 DEF JInv, ListingOK
  <2> QED
    BY <1>1, <1>2, <1>7, <2>4, <2>8 DEF BeforeSync, NoVersion
<1> QED
  BY <1>2, <1>7 DEF NoVersion

(* What was missing is still asked for or on its way. *)
LEMMA StillAsked ==
    ASSUME IInv, JInv, NEW type, Take(type), type \notin {"Version", "ServerSync"},
           pending \subseteq pending'
    PROVE  /\ Synced' => Synced
           /\ Synced' /\ Greedy => \A x \in SessionIds, k \in Kinds :
                Lacks(x, k) /\ ~HeadAbout(x, k) => <<k, x>> \in pending' \/ About(x, k)'
<1>1. /\ Head(inbox).type = type /\ alive /\ up
      /\ \A m \in OnItsWay : m = Head(inbox) \/ m \in OnItsWay'
  BY Handled
<1>2. Synced' => Synced
  BY <1>1 DEF Synced
<1>3. ASSUME NEW x \in SessionIds, NEW k \in Kinds, About(x, k), ~HeadAbout(x, k)
      PROVE  About(x, k)'
  <2>1. PICK m \in OnItsWay : /\ m.type \in {"UserState", "UserRemove"} /\ m.session = x
                              /\ m.type = "UserState" => m.inline[k] # "unset"
    BY <1>3 DEF About
  <2>2. m \in OnItsWay'
    BY <1>1, <1>3, <2>1 DEF HeadAbout
  <2> QED
    BY <2>1, <2>2 DEF About
<1>4. Synced' /\ Greedy => \A x \in SessionIds, k \in Kinds :
        Lacks(x, k) /\ ~HeadAbout(x, k) => <<k, x>> \in pending' \/ About(x, k)'
  BY <1>2, <1>3 DEF JInv, MissingAsked
<1> QED
  BY <1>2, <1>4

LEMMA VersionKeeps == ASSUME IInv, IInv', JInv, HandleVersion PROVE JInv'
<1>1. /\ Take("Version") /\ TypeOK /\ InOrder
      /\ users' = [s \in SessionIds |-> None] /\ channels' = [c \in ChannelIds |-> None]
      /\ UNCHANGED <<db, roomDb, alive>>
  BY DEF HandleVersion, IInv
<1>2. /\ Head(inbox).type = "Version" /\ UNCHANGED <<online, place, blob, rooms>>
  BY <1>1, Handled
<1>3. InMap' = {} /\ \A c \in ChannelIds : channels'[c] = None
  BY <1>1 DEF InMap
<1>4. DataOK'
  BY <1>1, <1>2, <1>3 DEF JInv, DataOK, Claimed, Allowed
<1>5. Follows(Head(inbox))
  BY <1>1, <1>2 DEF Follows, Agrees, After, Removes, AgreesRoom, AfterRoom
<1>6. Stories' /\ ActorsKnown' /\ OneSession' /\ ListingOK'
  BY <1>1, <1>5, StoriesKept, ActorsKept, SessionsKept, ListingKept
<1>7. MissingSeen'
  BY <1>3 DEF MissingSeen, Lacks
<1>8. ~Synced'
  <2>1. 1 \in DOMAIN inbox /\ IsAt(1, "Version")
    BY <1>1, Rest
  <2>2. PICK j \in DOMAIN inbox : 1 < j /\ IsAt(j, "ServerSync")
    BY <1>1, <2>1 DEF InOrder
  <2>3. j - 1 \in DOMAIN inbox' /\ inbox'[j - 1] = inbox[j]
    BY <1>1, <2>2, Rest
  <2> QED
    BY <2>2, <2>3 DEF Synced, OnItsWay, IsAt
<1>9. MissingAsked'
  BY <1>8 DEF MissingAsked
<1> QED
  BY <1>4, <1>6, <1>7, <1>9 DEF JInv

LEMMA UserRemoveKeeps == ASSUME IInv, IInv', JInv, HandleUserRemove PROVE JInv'
<1> DEFINE s == Head(inbox).session
<1>1. /\ Take("UserRemove") /\ TypeOK /\ users' = [users EXCEPT ![s] = None]
      /\ UNCHANGED <<pending, channels, db, roomDb, alive>>
  BY DEF HandleUserRemove, IInv, SetUser
<1>2. /\ Head(inbox).type = "UserRemove" /\ UNCHANGED <<online, place, blob, rooms>>
  BY <1>1, Handled
<1>3. \A x \in SessionIds : users'[x] = IF x = s THEN None ELSE users[x]
  BY <1>1 DEF TypeOK
<1>4. \A x \in InMap' : x \in InMap /\ x # s /\ users'[x] = users[x]
  BY <1>3 DEF InMap
<1>5. DataOK'
  BY <1>1, <1>2, <1>4 DEF JInv, DataOK, Claimed, Allowed
<1>6. Stories' /\ ActorsKnown' /\ OneSession' /\ ListingOK'
  <2>1. \A x \in SessionIds, a \in Facts : Agrees(a, users[x]) => Agrees(After(a, Head(inbox), x), users'[x])
    BY <1>2, <1>3 DEF Agrees, After, Removes, Updates
  <2>2. Follows(Head(inbox))
    BY <1>1, <1>2, <2>1, RoomsSame DEF Follows
  <2> QED
    BY <1>1, <2>2, StoriesKept, ActorsKept, SessionsKept, ListingKept
<1>8. \A x \in SessionIds, k \in Kinds : Lacks(x, k)' => Lacks(x, k) /\ users'[x] = users[x] /\ x # s
  BY <1>4 DEF Lacks, Claimed
<1> HIDE DEF s
<1>9. MissingSeen'
  <2>1. BeforeSync' => BeforeSync
    BY <1>1, StillListing
  <2> QED
    BY <1>1, <1>8, <2>1 DEF MissingSeen, JInv, BeforeSync, NoVersion, Cached
<1>10. MissingAsked'
  <2>1. ASSUME Synced', Greedy, NEW x \in SessionIds, NEW k \in Kinds, Lacks(x, k)'
        PROVE  <<k, x>> \in pending' \/ About(x, k)'
    <3>1. Lacks(x, k) /\ ~HeadAbout(x, k)
      BY <1>8, <2>1 DEF HeadAbout, s
    <3> QED
      BY <1>1, <2>1, <3>1, StillAsked
  <2> QED
    BY <2>1 DEF MissingAsked
<1> QED
  BY <1>5, <1>6, <1>9, <1>10 DEF JInv

(* What a step about a channel leaves to the users. *)
LEMMA UsersKept ==
    ASSUME IInv, JInv, NEW type \in {"ChannelState", "ChannelRemove"}, Take(type),
           UNCHANGED <<users, db, alive>>, pending \subseteq pending'
    PROVE  /\ MissingSeen'
           /\ \A s, a : Agrees(a, users[s]) => Agrees(After(a, Head(inbox), s), users'[s])
           /\ Synced' /\ Greedy => /\ Synced
                                   /\ \A x \in SessionIds, k \in Kinds :
                                        Lacks(x, k)' => <<k, x>> \in pending' \/ About(x, k)'
<1>1. Head(inbox).type = type
  BY Handled
<1>2. \A x, k : Lacks(x, k)' = Lacks(x, k)
  BY DEF Lacks, InMap, Claimed
<1>3. BeforeSync' => BeforeSync
  BY StillListing
<1>4. MissingSeen'
  BY <1>2, <1>3 DEF MissingSeen, JInv, BeforeSync, NoVersion, Cached
<1>5. \A s, a : Agrees(a, users[s]) => Agrees(After(a, Head(inbox), s), users'[s])
  BY <1>1, UsersSame
<1>6. \A x, k : ~HeadAbout(x, k)
  BY <1>1 DEF HeadAbout
<1> QED
  BY <1>2, <1>4, <1>5, <1>6, StillAsked

LEMMA ChannelRemoveKeeps == ASSUME IInv, IInv', JInv, HandleChannelRemove PROVE JInv'
<1> DEFINE c == Head(inbox).channel
<1>1. /\ Take("ChannelRemove") /\ TypeOK /\ channels' = [channels EXCEPT ![c] = None]
      /\ UNCHANGED <<pending, users, db, roomDb, alive>>
  BY DEF HandleChannelRemove, IInv, SetChannel
<1>2. /\ Head(inbox).type = "ChannelRemove" /\ UNCHANGED <<online, place, blob, rooms>>
  BY <1>1, Handled
<1>3. \A x \in ChannelIds : channels'[x] = IF x = c THEN None ELSE channels[x]
  BY <1>1 DEF TypeOK
<1>4. DataOK'
  BY <1>1, <1>2, <1>3 DEF JInv, DataOK, InMap, Claimed, Allowed
<1>5. /\ MissingSeen' /\ \A s, a : Agrees(a, users[s]) => Agrees(After(a, Head(inbox), s), users'[s])
      /\ Synced' /\ Greedy => \A x \in SessionIds, k \in Kinds :
                                  Lacks(x, k)' => <<k, x>> \in pending' \/ About(x, k)'
  BY <1>1, UsersKept
<1>6. Follows(Head(inbox))
  <2>1. ASSUME NEW x \in ChannelIds, NEW a, AgreesRoom(a, channels[x])
        PROVE  AgreesRoom(AfterRoom(a, Head(inbox), x), channels'[x])
    BY <1>2, <1>3, <2>1 DEF AgreesRoom, AfterRoom, Concerns
  <2> QED
    BY <1>5, <2>1 DEF Follows
<1>7. Stories' /\ ActorsKnown' /\ OneSession' /\ ListingOK'
  BY <1>1, <1>6, StoriesKept, ActorsKept, SessionsKept, ListingKept
<1>8. MissingAsked'
  BY <1>5 DEF MissingAsked
<1> QED
  BY <1>4, <1>5, <1>7, <1>8 DEF JInv

LEMMA ServerSyncKeeps == ASSUME IInv, IInv', JInv, HandleServerSync PROVE JInv'
<1>1. /\ Take("ServerSync") /\ TypeOK /\ UNCHANGED <<users, channels, db, roomDb, alive>>
      /\ pending' = IF Greedy THEN pending \cup Missing ELSE pending
  BY DEF HandleServerSync, IInv
<1>2. /\ Head(inbox).type = "ServerSync" /\ alive /\ UNCHANGED <<online, place, blob, rooms>>
      /\ \A m \in OnItsWay : m = Head(inbox) \/ m \in OnItsWay'
  BY <1>1, Handled
<1>3. DataOK'
  BY <1>1, <1>2 DEF JInv, DataOK, InMap, Claimed, Allowed
<1>4. Follows(Head(inbox))
  BY <1>1, <1>2, UsersSame, RoomsSame DEF Follows
<1>5. Stories' /\ ActorsKnown' /\ OneSession' /\ ListingOK'
  BY <1>1, <1>4, StoriesKept, ActorsKept, SessionsKept, ListingKept
<1>6. \A x, k : Lacks(x, k)' = Lacks(x, k)
  BY <1>1 DEF Lacks, InMap, Claimed
<1>7. MissingSeen'
  <2>1. BeforeSync' => BeforeSync
    BY <1>1, StillListing
  <2> QED
    BY <1>1, <1>6, <2>1 DEF MissingSeen, JInv, BeforeSync, NoVersion, Cached
<1>8. ASSUME Synced', NEW s \in SessionIds, NEW k \in Kinds, Lacks(s, k)
      PROVE  <<k, s>> \in MissingBlobs
  <2>1. 1 \in DOMAIN inbox /\ IsAt(1, "ServerSync")
    BY <1>1, Rest
  <2>2. ASSUME NEW v \in DOMAIN inbox, IsAt(v, "Version") PROVE FALSE
    <3>1. inbox[v] \in OnItsWay /\ inbox[v].type = "Version"
      BY <2>2 DEF OnItsWay, IsAt
    <3>2. inbox[v] \in OnItsWay'
      BY <1>2, <3>1
    <3> QED
      BY <1>8, <3>1, <3>2 DEF Synced
  <2>3. ~Cached(db, users[s].person, k, users[s].hash[k])
    BY <1>2, <1>8, <2>1, <2>2 DEF JInv, MissingSeen
  <2>4. s \in InMap /\ users[s].data[k] = None /\ users[s].hash[k] # None
    BY <1>8 DEF Lacks
  <2>5. ~Updated(db, users[s], k)
    BY <2>3, <2>4 DEF Updated
  <2>6. <<k, s>> \in Kinds \X InMap /\ <<k, s>>[1] = k /\ <<k, s>>[2] = s
    BY <2>4
  <2> QED
    BY <2>5, <2>6 DEF MissingBlobs
<1>9. MissingAsked'
  <2>1. ASSUME Synced', Greedy, NEW s \in SessionIds, NEW k \in Kinds, Lacks(s, k)'
        PROVE  <<k, s>> \in pending'
    BY <1>1, <1>6, <1>8, <2>1 DEF Missing
  <2> QED
    BY <2>1 DEF MissingAsked
<1> QED
  BY <1>3, <1>5, <1>7, <1>9 DEF JInv

(* What a ChannelState makes of its channel. *)
RoomOf(h, d) == [hash |-> h, data |-> d]

\* c becomes RoomOf(h, d), as m tells.
Becomes(c, h, d, m) ==
    /\ channels' = [channels EXCEPT ![c] = RoomOf(h, d)]
    /\ pending \subseteq pending' /\ (h = None /\ d # None => Short # {})
    /\ \A a \in RoomFacts : AgreesRoom(a, channels[c]) /\ FitsRoom(a, m, c)
                              => AgreesRoom(AfterRoom(a, m, c), RoomOf(h, d))
    /\ \/ roomDb' = [roomDb EXCEPT ![c] = RoomOf(h, d)] /\ TrueRow(RoomOf(h, d))
       \/ roomDb' = roomDb

LEMMA RoomBecomes ==
    ASSUME NEW h \in HashValues, NEW d \in BlobValues, NEW a, a.there, a.description \notin Short => h = a.description,
           a.description = None => d = None
    PROVE  AgreesRoom(a, RoomOf(h, d))
<1>1. RoomOf(h, d).hash = h /\ RoomOf(h, d).data = d
  BY DEF RoomOf
<1>2. RoomOf(h, d) \in RoomType
  BY DEF RoomOf, RoomType
<1> QED
  BY <1>1, <1>2, NoneAssumption DEF AgreesRoom

LEMMA ChannelCreated ==
    ASSUME IInv, JInv, NEW m \in ChannelMessage, NEW c \in ChannelIds, m.channel = c, m.type = "ChannelState",
           channels[c] = None, CreateChannel(m), \E a \in RoomFacts : AgreesRoom(a, channels[c]) /\ FitsRoom(a, m, c)
    PROVE  \E h \in HashValues, d \in BlobValues : Becomes(c, h, d, m)
<1>1. TypeOK /\ None \in HashValues /\ None \in BlobValues /\ Long \subseteq HashValues
      /\ "unset" \notin BlobValues
  BY Marks DEF IInv, HashValues, BlobValues
<1>2. StoredText(c) \in BlobValues
  BY <1>1 DEF StoredText, TypeOK, Row, RoomType
<1>3. \A a : AgreesRoom(a, channels[c]) => ~a.there /\ a.description = None
  BY DEF AgreesRoom, Absent
<1>4. PICK e \in BlobValues : m = ChannelMsg(c, e)
  BY <1>3 DEF FitsRoom, Concerns
<1>5. /\ m.hash = IF e \in Long THEN e ELSE "unset"
      /\ m.inline = IF e \in Short THEN e ELSE "unset"
  BY <1>4, RoomFieldsOf
<1>6. e \in Long \/ e \in Short \/ e = None
  BY DEF BlobValues, Long
<1>7. Long \cap Short = {} /\ None \notin Long /\ None \notin Short /\ "unset" \notin Long /\ "unset" \notin Short
  BY Marks
<1>8. \A a : AfterRoom(a, m, c) = [there |-> TRUE, description |-> IF m.inline # "unset" THEN m.inline
                                          ELSE IF m.hash # "unset" THEN m.hash ELSE a.description]
  BY DEF AfterRoom, Concerns
<1>9. ASSUME NEW a, AgreesRoom(a, channels[c]) PROVE AfterRoom(a, m, c) = [there |-> TRUE, description |-> e]
  BY <1>3, <1>5, <1>6, <1>7, <1>8, <1>9
<1>10. CASE e = None
  <2>1. m.hash = "unset" /\ m.inline = "unset"
    BY <1>5, <1>7, <1>10
  <2>2. /\ channels' = [channels EXCEPT ![c] = RoomOf(None, None)]
        /\ roomDb' = [roomDb EXCEPT ![c] = RoomOf(None, None)] /\ pending \subseteq pending'
    BY <2>1 DEF CreateChannel, StoreText, SetChannel, Given, RoomOf
  <2>3. TrueRow(RoomOf(None, None))
    BY DEF TrueRow, RoomOf, Empty
  <2>4. \A a : AgreesRoom(a, channels[c]) => AgreesRoom(AfterRoom(a, m, c), RoomOf(None, None))
    BY <1>1, <1>9, <1>10, RoomBecomes
  <2> QED
    BY <1>1, <2>2, <2>3, <2>4 DEF Becomes
<1>11. CASE e \in Short
  <2>1. m.hash = "unset" /\ m.inline = e /\ e # "unset" /\ e # None
    BY <1>5, <1>7, <1>11
  <2>2. /\ channels' = [channels EXCEPT ![c] = RoomOf(None, StoredText(c))]
        /\ roomDb' = roomDb /\ pending \subseteq pending'
    BY <2>1 DEF CreateChannel, StoreText, SetChannel, Given, RoomOf
  <2>3. \A a : AgreesRoom(a, channels[c]) => AgreesRoom(AfterRoom(a, m, c), RoomOf(None, StoredText(c)))
    BY <1>1, <1>2, <1>9, <1>11, <2>1, RoomBecomes
  <2> QED
    BY <1>1, <1>2, <1>11, <2>2, <2>3 DEF Becomes
<1>12. CASE e \in Long
  <2>1. m.hash = e /\ m.inline = "unset" /\ e # "unset" /\ e # None /\ e \notin Short
    BY <1>5, <1>7, <1>12
  <2>2. /\ channels' = [channels EXCEPT ![c] = RoomOf(e, StoredText(c))] /\ roomDb' = roomDb
        /\ pending' = IF ready THEN pending \cup {<<"description", c>>} ELSE pending
    BY <2>1 DEF CreateChannel, SetChannel, Given, RoomOf, AskText
  <2>3. \A a : AgreesRoom(a, channels[c]) => AgreesRoom(AfterRoom(a, m, c), RoomOf(e, StoredText(c)))
    BY <1>1, <1>2, <1>9, <1>12, <2>1, RoomBecomes
  <2> QED
    BY <1>1, <1>2, <1>12, <2>1, <2>2, <2>3 DEF Becomes
<1> QED
  BY <1>6, <1>10, <1>11, <1>12

LEMMA ChannelUpdated ==
    ASSUME IInv, JInv, NEW m \in ChannelMessage, NEW c \in ChannelIds, m.channel = c, m.type = "ChannelState",
           NEW r, r = channels[c], r # None, UpdateChannel(m, r),
           \E a \in RoomFacts : AgreesRoom(a, channels[c]) /\ FitsRoom(a, m, c)
    PROVE  \E h \in HashValues, d \in BlobValues : Becomes(c, h, d, m)
<1>1. TypeOK /\ None \in HashValues /\ None \in BlobValues /\ Long \subseteq HashValues
      /\ Long \cap Short = {} /\ None \notin Long /\ None \notin Short /\ "unset" \notin Long /\ "unset" \notin BlobValues
  BY Marks DEF IInv, HashValues, BlobValues
<1>2. r \in RoomType /\ r.hash \in HashValues /\ r.data \in BlobValues
  BY <1>1 DEF TypeOK, RoomType
<1>3. \A a : AgreesRoom(a, r) => a.there /\ (a.description \notin Short => r.hash = a.description)
  BY DEF AgreesRoom
<1>4. \/ \E e \in Long : m = ChannelMsg(c, e)
      \/ \E e \in BlobValues : m = TextMsg(c, e) /\ (e \in Long => r.hash = e)
  BY <1>1, <1>3 DEF FitsRoom, Concerns
<1>5. \A a : AfterRoom(a, m, c) = [there |-> TRUE, description |-> IF m.inline # "unset" THEN m.inline
                                          ELSE IF m.hash # "unset" THEN m.hash ELSE a.description]
  BY DEF AfterRoom, Concerns
<1>6. ASSUME NEW e \in Long, m = ChannelMsg(c, e) PROVE Becomes(c, e, r.data, m)
  <2>1. m.hash = e /\ m.inline = "unset" /\ e # "unset" /\ e # None /\ e \notin Short /\ "unset" # None
    BY <1>1, <1>6, RoomFieldsOf
  <2>2. /\ channels' = [channels EXCEPT ![c] = RoomOf(e, r.data)] /\ roomDb' = roomDb
        /\ pending' = pending \cup {<<"description", c>>}
    BY <2>1 DEF UpdateChannel, SetChannel, RoomOf, AskText
  <2>3. \A a : AgreesRoom(AfterRoom(a, m, c), RoomOf(e, r.data))
    BY <1>1, <1>2, <1>5, <2>1, RoomBecomes
  <2> QED
    BY <2>1, <2>2, <2>3 DEF Becomes
<1>7. ASSUME NEW e \in BlobValues, m = TextMsg(c, e), e \in Long => r.hash = e
      PROVE  \E h \in HashValues : Becomes(c, h, e, m)
  <2>1. m.hash = "unset" /\ m.inline = e /\ e # "unset"
    BY <1>1, <1>7, RoomFieldsOf
  <2>2. \A a : AfterRoom(a, m, c) = [there |-> TRUE, description |-> e]
    BY <1>5, <2>1
  <2>3. PICK h : h = IF e = None THEN None ELSE r.hash
    OBVIOUS
  <2>4. h \in HashValues /\ (e \in Long => h = e) /\ (e = None => h = None) /\ (e \notin Short => h = e)
    <3>1. e \in Long \/ e \in Short \/ e = None
      BY DEF BlobValues, Long
    <3> QED
      BY <1>1, <1>2, <1>7, <2>3, <3>1
  <2>5. /\ channels' = [channels EXCEPT ![c] = RoomOf(h, e)] /\ pending' = pending
        /\ IF e = None \/ h # None THEN roomDb' = [roomDb EXCEPT ![c] = RoomOf(h, e)] ELSE roomDb' = roomDb
    BY <2>1, <2>3 DEF UpdateChannel, StoreText, SetChannel, RoomOf
  <2>6. \A a : AgreesRoom(AfterRoom(a, m, c), RoomOf(h, e))
    BY <2>2, <2>4, RoomBecomes
  <2>7. h = None /\ e # None => Short # {}
    BY <2>4
  <2>8. CASE e = None \/ h # None
    <3>1. RoomOf(h, e).hash = h /\ RoomOf(h, e).data = e
      BY DEF RoomOf
    <3>2. e = None => RoomOf(h, e) = Empty
      BY <2>4 DEF RoomOf, Empty
    <3>3. h # None => h \in Long
      BY <2>4 DEF HashValues
    <3>4. TrueRow(RoomOf(h, e))
      BY <2>4, <2>8, <3>1, <3>2, <3>3 DEF TrueRow
    <3> QED
      BY <2>4, <2>5, <2>6, <2>7, <2>8, <3>4 DEF Becomes
  <2>9. CASE ~(e = None \/ h # None)
    BY <2>4, <2>5, <2>6, <2>7, <2>9 DEF Becomes
  <2> QED
    BY <2>8, <2>9
<1> QED
  BY <1>1, <1>2, <1>4, <1>6, <1>7

LEMMA ChannelStateKeeps == ASSUME IInv, IInv', JInv, HandleChannelState PROVE JInv'
<1> DEFINE m == Head(inbox)
<1>1. /\ Take("ChannelState") /\ TypeOK /\ UNCHANGED <<users, ready, db, alive>>
      /\ IF channels[m.channel] = None THEN CreateChannel(m) ELSE UpdateChannel(m, channels[m.channel])
  BY Zenon DEF HandleChannelState, IInv
<1>2. /\ m \in Message /\ m.type = "ChannelState" /\ UNCHANGED <<online, place, blob, rooms>>
  BY <1>1, Handled
<1>3. m \in ChannelMessage
  BY <1>2 DEF Message, UserMessage, ChannelMessage, VersionMsg
<1> HIDE DEF m
<1>4. PICK c \in ChannelIds : c = m.channel
  BY <1>3 DEF ChannelMessage
<1>5. \E a \in RoomFacts : AgreesRoom(a, channels[c]) /\ FitsRoom(a, m, c)
  BY <1>1, Fitting DEF m
<1>6. PICK h \in HashValues, d \in BlobValues : Becomes(c, h, d, m)
  <2>1. PICK r : r = channels[c]
    OBVIOUS
  <2> QED
    BY <1>1, <1>2, <1>3, <1>4, <1>5, <2>1, ChannelCreated, ChannelUpdated
<1>7. \A x \in ChannelIds : channels'[x] = IF x = c THEN RoomOf(h, d) ELSE channels[x]
  BY <1>1, <1>6 DEF Becomes, TypeOK
<1>8. RoomOf(h, d) \in RoomType /\ RoomOf(h, d) # None /\ RoomOf(h, d).hash = h /\ RoomOf(h, d).data = d
  <2>1. RoomOf(h, d) \in RoomType
    BY DEF RoomOf, RoomType
  <2> QED
    BY <2>1, NoneAssumption DEF RoomOf
<1>9. \A x \in ChannelIds : x # c => roomDb'[x] = roomDb[x]
  BY <1>1, <1>6 DEF Becomes, TypeOK
<1>10. TrueRow(roomDb'[c])
  <2>1. TrueRow(roomDb[c])
    BY DEF JInv, DataOK
  <2>2. roomDb' = [roomDb EXCEPT ![c] = RoomOf(h, d)] => roomDb'[c] = RoomOf(h, d)
    BY <1>1 DEF TypeOK
  <2> QED
    BY <1>6, <2>1, <2>2 DEF Becomes
<1>11. DataOK'
  <2>1. ASSUME NEW x \in ChannelIds
        PROVE  /\ TrueRow(roomDb'[x])
               /\ channels'[x] # None /\ channels'[x].hash = None /\ channels'[x].data # None => Short # {}
    <3>1. CASE x = c
      BY <1>6, <1>7, <1>8, <1>10, <3>1 DEF Becomes
    <3>2. CASE x # c
      BY <1>7, <1>9, <3>2 DEF JInv, DataOK
    <3> QED
      BY <3>1, <3>2
  <2> QED
    BY <1>1, <1>2, <2>1 DEF JInv, DataOK, InMap, Claimed, Allowed
<1>12. /\ MissingSeen'
       /\ \A s, a : Agrees(a, users[s]) => Agrees(After(a, m, s), users'[s])
       /\ Synced' /\ Greedy => /\ Synced
                               /\ \A x \in SessionIds, k \in Kinds :
                                    Lacks(x, k)' => <<k, x>> \in pending' \/ About(x, k)'
  BY <1>1, <1>6, UsersKept DEF Becomes, m
<1>13. Follows(m)
  <2>1. ASSUME NEW x \in ChannelIds, NEW a \in RoomFacts, AgreesRoom(a, channels[x]), FitsRoom(a, m, x)
        PROVE  AgreesRoom(AfterRoom(a, m, x), channels'[x])
    <3>1. CASE x = c
      BY <1>6, <1>7, <2>1, <3>1 DEF Becomes
    <3>2. CASE x # c
      BY <1>2, <1>4, <1>7, <2>1, <3>2 DEF AfterRoom, Concerns
    <3> QED
      BY <3>1, <3>2
  <2> QED
    BY <1>12, <2>1 DEF Follows
<1>14. Stories' /\ ActorsKnown' /\ OneSession' /\ ListingOK'
  BY <1>1, <1>13, StoriesKept, ActorsKept, SessionsKept, ListingKept DEF m
<1>15. MissingAsked'
  BY <1>12 DEF MissingAsked
<1> QED
  BY <1>11, <1>12, <1>14, <1>15 DEF JInv

(* A row of BlobDB that holds a blob. *)
Filled(d, p, k) == d[p][k] \notin {NoRow, Empty}

(* What the handler of a UserState has to do for the user it is about, q of
   session s: nothing of anybody else changes. *)
LEMMA UserKept ==
    ASSUME IInv, IInv', JInv, HandleUserState, NEW s \in SessionIds, NEW q \in People, Head(inbox).session = s,
           alive' => \A a \in Facts : Agrees(a, users[s]) /\ Fits(a, Head(inbox), s)
                                        => Agrees(After(a, Head(inbox), s), users'[s]),
           \A p \in People, k \in Kinds : p # q => db'[p][k] = db[p][k],
           \A k \in Kinds : TrueRow(db'[q][k]) /\ (Claimed(q, k) => db'[q][k].data \notin Short),
           \A x \in InMap : x # s => users[x].person # q,
           users'[s] # None =>
             /\ users'[s].person = q
             /\ \A k \in Kinds : Claimed(q, k) /\ users'[s].data[k] # None => Filled(db', q, k),
           \A x \in SessionIds : x # s => users'[x] = users[x],
           Synced' /\ Synced /\ Greedy =>
             \A k \in Kinds : Lacks(s, k)' => <<k, s>> \in pending' \/ About(s, k)',
           BeforeSync' => \A k \in Kinds : Lacks(s, k)' => ~Cached(db', q, k, users'[s].hash[k]),
           pending \subseteq pending'
    PROVE  JInv'
<1>1. /\ Take("UserState") /\ TypeOK /\ UNCHANGED <<channels, mySession, ready, roomDb>>
  BY Zenon DEF HandleUserState, IInv
<1>2. /\ Head(inbox).type = "UserState" /\ UNCHANGED <<online, place, blob, rooms>> /\ alive
  BY <1>1, Handled
<1>3. \A x \in InMap' : x = s \/ (x \in InMap /\ users'[x] = users[x] /\ x # s)
  BY DEF InMap
<1>4. DataOK'
  <2>1. ASSUME NEW x \in InMap'
        PROVE  /\ users'[x].person \in People
               /\ \A k \in Kinds : Claimed(users'[x].person, k) /\ users'[x].data[k] # None
                                     => db'[users'[x].person][k] \notin {NoRow, Empty}
    <3>1. CASE x = s
      BY <3>1 DEF InMap, Filled
    <3>2. CASE x # s
      <4>1. PICK w : w = users[x] /\ w = users'[x] /\ x \in InMap /\ w.person # q
        BY <1>3, <3>2
      <4>2. /\ w.person \in People
            /\ \A k \in Kinds : Claimed(w.person, k) /\ w.data[k] # None
                                  => db[w.person][k] \notin {NoRow, Empty}
        BY <4>1 DEF JInv, DataOK
      <4> QED
        BY <4>1, <4>2
    <3> QED
      BY <3>1, <3>2
  <2>2. ASSUME NEW x \in InMap', NEW y \in InMap', users'[x].person = users'[y].person PROVE x = y
    BY <1>3, <2>2 DEF JInv, DataOK, InMap
  <2>3. \A p \in People, k \in Kinds : TrueRow(db'[p][k]) /\ (Claimed(p, k) => db'[p][k].data \notin Short)
    BY DEF JInv, DataOK
  <2>4. /\ \A p \in People, k \in Kinds : Allowed(p, k, blob'[p][k])
        /\ \A c \in ChannelIds : TrueRow(roomDb'[c]) /\ (rooms'[c].there \/ rooms'[c] = Absent)
        /\ \A c \in ChannelIds :
             channels'[c] # None /\ channels'[c].hash = None /\ channels'[c].data # None => Short # {}
    BY <1>1, <1>2 DEF JInv, DataOK
  <2>5. \A p, k, b : Allowed(p, k, b)' = Allowed(p, k, b) /\ Claimed(p, k)' = Claimed(p, k)
    BY DEF Allowed, Claimed
  <2> QED
    BY <2>1, <2>2, <2>3, <2>4, <2>5 DEF DataOK, TrueRow
<1>5. Follows(Head(inbox))
  <2>1. ASSUME alive', NEW x \in SessionIds, NEW a \in Facts, Agrees(a, users[x]), Fits(a, Head(inbox), x)
        PROVE  Agrees(After(a, Head(inbox), x), users'[x])
    <3>1. CASE x = s
      BY <2>1, <3>1
    <3>2. CASE x # s
      BY <1>2, <2>1, <3>2 DEF After, Removes, Updates
    <3> QED
      BY <3>1, <3>2
  <2> QED
    BY <1>1, <1>2, <2>1, RoomsSame DEF Follows
<1>6. Stories' /\ ActorsKnown' /\ OneSession' /\ ListingOK'
  BY <1>1, <1>5, StoriesKept, ActorsKept, SessionsKept, ListingKept
<1>7. \A x \in SessionIds, k \in Kinds : x # s /\ Lacks(x, k)' => Lacks(x, k) /\ users'[x] = users[x]
  BY DEF Lacks, InMap, Claimed
<1>8. MissingSeen'
  <2> SUFFICES ASSUME BeforeSync', NEW x \in SessionIds, NEW k \in Kinds, Lacks(x, k)'
               PROVE  ~Cached(db', users'[x].person, k, users'[x].hash[k])
    BY Zenon DEF MissingSeen, BeforeSync, NoVersion
  <2>1. CASE x = s
    BY <2>1 DEF Lacks, InMap
  <2>2. CASE x # s
    <3>1. BeforeSync /\ Lacks(x, k) /\ users'[x] = users[x] /\ x \in InMap
      BY <1>1, <1>7, <2>2, StillListing DEF Lacks
    <3>2. ~Cached(db, users[x].person, k, users[x].hash[k])
      BY <3>1 DEF JInv, MissingSeen, BeforeSync, NoVersion
    <3>3. users[x].person \in People /\ users[x].person # q
      BY <2>2, <3>1 DEF JInv, DataOK
    <3> QED
      BY <3>1, <3>2, <3>3 DEF Cached
  <2> QED
    BY <2>1, <2>2
<1>9. ASSUME Synced', Greedy, NEW x \in SessionIds, NEW k \in Kinds, Lacks(x, k)'
      PROVE  <<k, x>> \in pending' \/ About(x, k)'
  <2>1. /\ Synced
        /\ Lacks(x, k) /\ ~HeadAbout(x, k) => <<k, x>> \in pending' \/ About(x, k)'
    BY <1>1, <1>9, StillAsked
  <2>2. CASE x = s
    BY <1>9, <2>1, <2>2
  <2>3. CASE x # s
    BY <1>7, <1>9, <2>1, <2>3 DEF HeadAbout
  <2> QED
    BY <2>2, <2>3
<1>10. MissingAsked'
  BY <1>9 DEF MissingAsked
<1> QED
  BY <1>4, <1>6, <1>8, <1>10 DEF JInv

(* What the refreshing of a blob does to a user. *)
LEMMA RefreshedFields ==
    ASSUME NEW d \in Table, NEW u \in UserType, NEW k \in Kinds
    PROVE  /\ Refreshed(d, u, k) \in UserType
           /\ Refreshed(d, u, k).person = u.person /\ Refreshed(d, u, k).channel = u.channel
           /\ Refreshed(d, u, k).hash = u.hash
           /\ \A j \in Kinds : Refreshed(d, u, k).data[j] =
                IF j = k /\ u.hash[k] # None /\ ~Wanted(d, u, k) THEN Fetched(d, u.person, k) ELSE u.data[j]
<1>1. u.data \in [Kinds -> BlobValues]
  BY DEF UserType
<1>2. PICK b : b = Fetched(d, u.person, k)
  OBVIOUS
<1>3. /\ [u EXCEPT !.data[k] = b].person = u.person /\ [u EXCEPT !.data[k] = b].channel = u.channel
      /\ [u EXCEPT !.data[k] = b].hash = u.hash
      /\ \A j \in Kinds : [u EXCEPT !.data[k] = b].data[j] = IF j = k THEN b ELSE u.data[j]
  BY <1>1 DEF UserType
<1> QED
  BY <1>2, <1>3, TypeRefreshed DEF Refreshed

LEMMA RefreshedTwice ==
    ASSUME NEW d \in Table, NEW u \in UserType, NEW v, v = Refreshed(d, Refreshed(d, u, "comment"), "texture")
    PROVE  /\ v \in UserType /\ v.person = u.person /\ v.channel = u.channel /\ v.hash = u.hash
           /\ \A k \in Kinds : v.data[k] = IF u.hash[k] # None /\ ~Wanted(d, u, k)
                                            THEN Fetched(d, u.person, k) ELSE u.data[k]
<1>1. PICK w : w = Refreshed(d, u, "comment")
  OBVIOUS
<1>2. "comment" \in Kinds /\ "texture" \in Kinds /\ "comment" # "texture"
      /\ \A k \in Kinds : k = "comment" \/ k = "texture"
  BY DEF Kinds
<1>3. /\ w \in UserType /\ w.person = u.person /\ w.channel = u.channel /\ w.hash = u.hash
      /\ \A j \in Kinds : w.data[j] = IF j = "comment" /\ u.hash["comment"] # None /\ ~Wanted(d, u, "comment")
                                       THEN Fetched(d, u.person, "comment") ELSE u.data[j]
  BY <1>1, <1>2, RefreshedFields
<1>4. /\ v \in UserType /\ v.person = w.person /\ v.channel = w.channel /\ v.hash = w.hash
      /\ \A j \in Kinds : v.data[j] = IF j = "texture" /\ w.hash["texture"] # None /\ ~Wanted(d, w, "texture")
                                       THEN Fetched(d, w.person, "texture") ELSE w.data[j]
  BY <1>1, <1>2, <1>3, RefreshedFields
<1>5. w.data["texture"] = u.data["texture"]
  BY <1>2, <1>3
<1>6. Wanted(d, w, "texture") = Wanted(d, u, "texture")
  BY <1>3, <1>5 DEF Wanted, Updated
<1> QED
  BY <1>2, <1>3, <1>4, <1>6


(* A blob that is not there after it was refreshed is not cached, and is
   asked for. *)
LEMMA Fresh ==
    ASSUME NEW d \in Table, NEW u, NEW k \in Kinds, u.person \in People, u.hash[k] \in Long,
           TrueRow(d[u.person][k]), d[u.person][k].data \notin Short,
           u.data[k] # None => Filled(d, u.person, k),
           NEW b, b = IF ~Wanted(d, u, k) THEN Fetched(d, u.person, k) ELSE u.data[k]
    PROVE  /\ b # None => Filled(d, u.person, k)
           /\ b = None => ~Cached(d, u.person, k, u.hash[k])
           /\ b = None /\ Greedy => Wanted(d, u, k)
<1>1. PICK row : row = d[u.person][k]
  OBVIOUS
<1>2. row \in {NoRow, Empty} \/ (row.hash \in Long /\ row.data = row.hash)
  BY <1>1 DEF TrueRow
<1>3. /\ u.hash[k] # None /\ (row \in {NoRow, Empty} => row.hash # u.hash[k])
      /\ (row \notin {NoRow, Empty} => row.data # None)
      /\ (row = Empty => row.data = None)
  BY <1>2, Marks DEF NoRow, Empty
<1>4. Fetched(d, u.person, k) = None <=> row \in {NoRow, Empty}
  BY <1>1, <1>3 DEF Fetched
<1>5. row \in {NoRow, Empty} => ~Cached(d, u.person, k, u.hash[k])
  BY <1>1, <1>3 DEF Cached
<1>8. Filled(d, u.person, k) <=> row \notin {NoRow, Empty}
  BY <1>1 DEF Filled
<1>6. CASE Wanted(d, u, k)
  <2>1. ~Cached(d, u.person, k, u.hash[k])
    BY <1>6 DEF Wanted, Updated
  <2> QED
    BY <1>6, <2>1
<1>7. CASE ~Wanted(d, u, k)
  <2>1. b = Fetched(d, u.person, k)
    BY <1>7
  <2>2. ASSUME b = None PROVE ~Greedy
    <3>1. row \in {NoRow, Empty} /\ u.data[k] = None /\ ~Cached(d, u.person, k, u.hash[k])
      BY <1>4, <1>5, <1>8, <2>1, <2>2
    <3>2. ~Updated(d, u, k)
      BY <1>3, <3>1 DEF Updated
    <3> QED
      BY <1>3, <1>7, <3>2 DEF Wanted
  <2> QED
    BY <1>4, <1>5, <1>8, <2>1, <2>2
<1> QED
  BY <1>6, <1>7

(* The user a UserState creates, and what BlobDB has then. *)
LEMMA Newcomer ==
    ASSUME TypeOK, DataOK, NEW p \in People, NEW s \in SessionIds, NEW c \in ChannelIds,
           NEW e \in [Kinds -> BlobValues], \A k \in Kinds : Allowed(p, k, e[k]),
           NEW m \in UserMessage, m = IntroMsg(p, s, c, e), NEW u, u = NewUser(m), NEW d, d = NewDb(m)
    PROVE  /\ u \in UserType /\ d \in Table /\ u.person = p /\ u.channel = c
           /\ \A q \in People, k \in Kinds : q # p => d[q][k] = db[q][k]
           /\ \A k \in Kinds : TrueRow(d[p][k]) /\ (Claimed(p, k) => d[p][k].data \notin Short)
           /\ \A k \in Kinds : e[k] \notin Short => u.hash[k] = e[k]
           /\ \A k \in Kinds : Claimed(p, k) =>
                /\ e[k] \in Long \/ (e[k] = None /\ u.data[k] = None)
                /\ u.data[k] # None => Filled(d, p, k)
                /\ u.data[k] = None => ~Cached(d, p, k, e[k]) \/ e[k] = None
<1>1. /\ m.person = p /\ m.channel = c /\ c # "unset"
      /\ \A k \in Kinds : /\ m.hash[k] = IF e[k] \in Long THEN e[k] ELSE "unset"
                          /\ m.inline[k] = IF e[k] \in Short THEN e[k] ELSE "unset"
  BY IntroFields, Marks
<1>2. /\ u.person = p /\ u.channel = c
      /\ u.hash = [k \in Kinds |-> Given(m.hash[k])]
      /\ \A k \in Kinds : u.data[k] =
           FirstData(IF k = "comment" THEN db ELSE Cleared(db, m, "comment"), m, k)
  BY <1>1 DEF NewUser
<1>3. u \in UserType /\ d \in Table
  BY TypeNewUser
<1>4. PICK d1 : d1 = Cleared(db, m, "comment") /\ d = Cleared(d1, m, "texture")
  BY DEF NewDb
<1>5. db \in Table /\ "comment" \in Kinds /\ "texture" \in Kinds /\ "comment" # "texture"
      /\ \A k \in Kinds : k = "comment" \/ k = "texture"
  BY DEF TypeOK, Table, Kinds
<1>6. ASSUME NEW x \in Table, NEW j
      PROVE  /\ Cleared(x, m, j) \in Table
             /\ \A q \in People, k \in Kinds : q # p \/ k # "comment" => Cleared(x, m, j)[q][k] = x[q][k]
             /\ Cleared(x, m, j)[p]["comment"] = IF Nothing(m, j) THEN Empty ELSE x[p]["comment"]
  <2>1. None \in HashValues /\ None \in BlobValues
    BY DEF HashValues, BlobValues
  <2>2. Store(x, p, "comment", None, None) \in Table
    BY <1>5, <2>1, TypeStore
  <2>3. PICK r : r = Empty
    OBVIOUS
  <2>4. Store(x, p, "comment", None, None) = [x EXCEPT ![p]["comment"] = r]
    BY <2>3 DEF Store, Empty
  <2>5. /\ \A q \in People, k \in Kinds : q # p \/ k # "comment" => [x EXCEPT ![p]["comment"] = r][q][k] = x[q][k]
        /\ [x EXCEPT ![p]["comment"] = r][p]["comment"] = r
    BY <1>5 DEF Table
  <2>6. PICK y \in Table : y = Store(x, p, "comment", None, None)
    BY <2>2
  <2>7. /\ \A q \in People, k \in Kinds : q # p \/ k # "comment" => y[q][k] = x[q][k]
        /\ y[p]["comment"] = Empty
    BY <2>3, <2>4, <2>5, <2>6
  <2>8. Cleared(x, m, j) = IF Nothing(m, j) THEN y ELSE x
    BY <1>1, <2>6 DEF Cleared
  <2> QED
    BY <2>7, <2>8
<1>7. /\ d1 \in Table
      /\ \A q \in People, k \in Kinds : q # p \/ k # "comment" => d1[q][k] = db[q][k] /\ d[q][k] = db[q][k]
      /\ d1[p]["comment"] = IF Nothing(m, "comment") THEN Empty ELSE db[p]["comment"]
      /\ d[p]["comment"] = IF Nothing(m, "comment") \/ Nothing(m, "texture") THEN Empty ELSE db[p]["comment"]
  <2>1. /\ d1 \in Table
        /\ \A q \in People, k \in Kinds : q # p \/ k # "comment" => d1[q][k] = db[q][k]
        /\ d1[p]["comment"] = IF Nothing(m, "comment") THEN Empty ELSE db[p]["comment"]
    BY <1>4, <1>5, <1>6
  <2>2. /\ \A q \in People, k \in Kinds : q # p \/ k # "comment" => d[q][k] = d1[q][k]
        /\ d[p]["comment"] = IF Nothing(m, "texture") THEN Empty ELSE d1[p]["comment"]
    BY <1>4, <1>6, <2>1
  <2> QED
    BY <2>1, <2>2
<1>8. \A k \in Kinds : /\ e[k] \in Long \/ e[k] \in Short \/ e[k] = None
                       /\ e[k] \in Long => e[k] \notin Short /\ e[k] # None /\ e[k] # "unset"
                       /\ e[k] \in Short => e[k] # "unset"
  BY Marks DEF BlobValues, Long
<1>9. \A k \in Kinds : Nothing(m, k) <=> e[k] = None
  BY <1>1, <1>8, Marks DEF Nothing
<1>10. Empty.data \notin Short /\ TrueRow(Empty)
  BY Marks DEF Empty, TrueRow
<1>11. \A k \in Kinds : TrueRow(db[p][k]) /\ (Claimed(p, k) => db[p][k].data \notin Short)
  BY DEF DataOK
<1>12. \A k \in Kinds : TrueRow(d[p][k]) /\ (Claimed(p, k) => d[p][k].data \notin Short)
  BY <1>5, <1>7, <1>10, <1>11
<1>13. ASSUME NEW k \in Kinds PROVE e[k] \notin Short => u.hash[k] = e[k]
  BY <1>1, <1>2, <1>8 DEF Given
<1>14. ASSUME NEW k \in Kinds, Claimed(p, k)
       PROVE  /\ e[k] \in Long \/ (e[k] = None /\ u.data[k] = None)
              /\ u.data[k] # None => Filled(d, p, k)
              /\ u.data[k] = None => ~Cached(d, p, k, e[k]) \/ e[k] = None
  <2>1. e[k] \notin Short /\ m.inline[k] = "unset"
    BY <1>1, <1>14 DEF Claimed, Allowed
  <2>2. CASE e[k] = None
    <3>1. u.data[k] = None
      BY <1>2, <1>9, <2>1, <2>2 DEF FirstData, Given
    <3> QED
      BY <2>2, <3>1
  <2>3. CASE e[k] \in Long
    <3>1. m.hash[k] = e[k] /\ e[k] # "unset" /\ ~Nothing(m, k)
      BY <1>1, <1>8, <1>9, <2>3
    <3>2. PICK x : x = (IF k = "comment" THEN db ELSE d1)
      OBVIOUS
    <3>3. x[p][k] = d[p][k] /\ d[p][k] = db[p][k]
      <4>1. CASE k = "comment"
        <5>1. ~Nothing(m, "texture")
          <6>1. e["texture"] # None
            BY <1>5, <1>14, <4>1 DEF Claimed, Allowed
          <6> QED
            BY <1>5, <1>9, <6>1
        <5> QED
          BY <1>7, <3>1, <3>2, <4>1, <5>1
      <4>2. CASE k # "comment"
        BY <1>7, <3>2, <4>2
      <4> QED
        BY <4>1, <4>2
    <3>4. PICK row : row = d[p][k]
      OBVIOUS
    <3>5. u.data[k] = IF row.hash = e[k] THEN (IF row = NoRow THEN None ELSE row.data) ELSE None
      <4>1. u.data[k] = FirstData(x, m, k)
        BY <1>2, <1>4, <3>2
      <4> QED
        BY <1>1, <2>1, <3>1, <3>3, <3>4, <4>1 DEF FirstData, Cached, Fetched, Given
    <3>6. row \in {NoRow, Empty} \/ (row.hash \in Long /\ row.data = row.hash)
      BY <1>12, <1>14, <3>4 DEF TrueRow
    <3>7. (row \in {NoRow, Empty} => row.hash # e[k]) /\ (row \notin {NoRow, Empty} => row.data # None)
      BY <1>8, <2>3, <3>6, Marks DEF NoRow, Empty
    <3> QED
      BY <2>3, <3>4, <3>5, <3>7 DEF Filled, Cached
  <2> QED
    BY <1>8, <2>1, <2>2, <2>3
<1> QED
  BY <1>2, <1>3, <1>7, <1>12, <1>13, <1>14

LEMMA CreateKeeps ==
    ASSUME IInv, IInv', JInv, HandleUserState, NEW m, m = Head(inbox), users[m.session] = None
    PROVE  JInv'
<1>1. Take("UserState") /\ TypeOK /\ DataOK /\ CreateUser(m) /\ ready' = ready
  BY Zenon DEF HandleUserState, IInv, JInv
<1>2. m \in Message /\ m.type = "UserState" /\ alive
  BY <1>1, Handled
<1>3. m \in UserMessage
  BY <1>2 DEF Message, UserMessage, ChannelMessage, VersionMsg
<1>4. PICK s \in SessionIds : s = m.session /\ users[s] = None
  BY <1>3 DEF UserMessage
<1>5. PICK p \in People, c \in ChannelIds, e \in [Kinds -> BlobValues] :
         m = IntroMsg(p, s, c, e) /\ \A k \in Kinds : Allowed(p, k, e[k])
  <2>1. PICK a \in Facts : Agrees(a, users[s]) /\ Fits(a, m, s)
    BY <1>1, Fitting
  <2>2. ~a.there /\ Updates(m, s)
    BY <1>2, <1>4, <2>1 DEF Agrees, Nobody, Updates
  <2> QED
    BY <2>1, <2>2 DEF Fits, Introduces
<1>6. PICK u, d : u = NewUser(m) /\ d = NewDb(m)
  OBVIOUS
<1>7. PICK w : w = Refreshed(d, Refreshed(d, u, "comment"), "texture")
  OBVIOUS
<1>8. PICK v : v = IF ready THEN w ELSE u
  OBVIOUS
<1>9. /\ db' = d /\ pending \subseteq pending'
      /\ ready => \A k \in Kinds : Asked(d, u, s, k) \subseteq pending'
      /\ \/ users' = users /\ ~alive'
         \/ users' = [users EXCEPT ![s] = v]
  BY <1>1, <1>4, <1>6, <1>7, <1>8 DEF CreateUser, SetUser
<1>10. /\ u \in UserType /\ d \in Table /\ u.person = p /\ u.channel = c
       /\ \A q \in People, k \in Kinds : q # p => d[q][k] = db[q][k]
       /\ \A k \in Kinds : TrueRow(d[p][k]) /\ (Claimed(p, k) => d[p][k].data \notin Short)
       /\ \A k \in Kinds : e[k] \notin Short => u.hash[k] = e[k]
       /\ \A k \in Kinds : Claimed(p, k) =>
            /\ e[k] \in Long \/ (e[k] = None /\ u.data[k] = None)
            /\ u.data[k] # None => Filled(d, p, k)
            /\ u.data[k] = None => ~Cached(d, p, k, e[k]) \/ e[k] = None
  BY <1>1, <1>3, <1>5, <1>6, Newcomer
<1>11. /\ v \in UserType /\ v.person = p /\ v.channel = c /\ v.hash = u.hash
       /\ \A k \in Kinds : v.data[k] = IF ready /\ u.hash[k] # None /\ ~Wanted(d, u, k)
                                        THEN Fetched(d, u.person, k) ELSE u.data[k]
  BY <1>7, <1>8, <1>10, RefreshedTwice
<1>12. v # None
  BY <1>11, NoneAssumption
<1>13. ASSUME NEW k \in Kinds, Claimed(p, k)
       PROVE  /\ v.data[k] # None => Filled(d, p, k)
              /\ v.data[k] = None /\ v.hash[k] # None =>
                   ~Cached(d, p, k, v.hash[k]) /\ (ready /\ Greedy => Wanted(d, u, k))
  <2>1. e[k] \notin Short /\ u.hash[k] = e[k] /\ (e[k] \in Long => e[k] # None)
    BY <1>10, <1>13, Marks
  <2>2. CASE e[k] = None
    BY <1>10, <1>11, <1>13, <2>1, <2>2
  <2>3. CASE e[k] \in Long /\ ~ready
    BY <1>10, <1>11, <1>13, <2>1, <2>3
  <2>4. CASE e[k] \in Long /\ ready
    <3>1. v.data[k] = IF ~Wanted(d, u, k) THEN Fetched(d, u.person, k) ELSE u.data[k]
      BY <1>11, <2>1, <2>4
    <3>2. /\ u.person \in People /\ u.hash[k] \in Long /\ TrueRow(d[u.person][k])
          /\ d[u.person][k].data \notin Short /\ (u.data[k] # None => Filled(d, u.person, k))
      BY <1>10, <1>13, <2>1, <2>4
    <3>3. /\ v.data[k] # None => Filled(d, u.person, k)
          /\ v.data[k] = None => ~Cached(d, u.person, k, u.hash[k])
          /\ v.data[k] = None /\ Greedy => Wanted(d, u, k)
      BY <1>10, <3>1, <3>2, Fresh
    <3> QED
      BY <1>10, <1>11, <3>3
  <2> QED
    BY <1>10, <1>13, <2>2, <2>3, <2>4
<1>14. /\ \A x \in SessionIds : x # s => users'[x] = users[x]
       /\ users'[s] = None \/ users'[s] = v
       /\ alive' => users'[s] = v
  BY <1>1, <1>4, <1>9 DEF TypeOK
<1>15. ASSUME alive', NEW a \in Facts, Agrees(a, users[s])
       PROVE  Agrees(After(a, m, s), users'[s])
  <2>1. ~a.there
    BY <1>4, <1>15 DEF Agrees, Nobody
  <2>2. After(a, m, s) = Fact(p, c, e)
    BY <1>5, <2>1, Introduction
  <2>3. PICK f : f = Fact(p, c, e)
    OBVIOUS
  <2>4. f.there /\ f.person = p /\ f.channel = c /\ f.blob = e
    BY <2>3 DEF Fact
  <2>5. Agrees(f, v)
    BY <1>10, <1>11, <1>12, <2>4 DEF Agrees
  <2> QED
    BY <1>14, <1>15, <2>2, <2>3, <2>5
\* The person has had no other session.
<1>16. ASSUME NEW x \in InMap, x # s PROVE users[x].person # p
  <2> SUFFICES ASSUME users[x].person = p PROVE FALSE
    OBVIOUS
  <2>1. x \in SessionIds /\ users[x] # None
    BY DEF InMap
  <2>2. /\ 1 \in 0..Len(inbox) /\ 0 \in 0..Len(inbox) /\ inbox[1] = m
    <3>1. PICK n \in Nat \ {0} : n = Len(inbox) /\ inbox[1] = Head(inbox)
      BY <1>1, Shifted
    <3> QED
      BY <3>1
  <2>3. Holds(p, x, 0) /\ Holds(p, s, 1)
    <3>1. m.person = p /\ Updates(m, s)
      BY <1>2, <1>4, <1>5, IntroFields DEF Updates
    <3> QED
      BY <2>1, <2>2, <3>1 DEF Holds
  <2>4. Ends(x, 0, 1)
    BY <1>2, <1>16, <2>1, <2>2, <2>3 DEF JInv, OneSession
  <2>5. DOMAIN inbox \subseteq Nat
    BY <1>1, Rest
  <2> QED
    BY <2>4, <2>5 DEF Ends
<1>17. \A k \in Kinds : Lacks(s, k)' => /\ users'[s] = v /\ Claimed(p, k)
                                        /\ v.data[k] = None /\ v.hash[k] # None
  BY <1>11, <1>14 DEF Lacks, InMap, Claimed
<1>18. ASSUME Synced, Greedy, NEW k \in Kinds, Lacks(s, k)' PROVE <<k, s>> \in pending'
  <2>1. ready /\ Wanted(d, u, k)
    BY <1>13, <1>17, <1>18 DEF IInv, SyncedOK
  <2> QED
    BY <1>9, <2>1 DEF Asked
<1>19. ASSUME NEW k \in Kinds, Lacks(s, k)' PROVE ~Cached(db', p, k, users'[s].hash[k])
  BY <1>9, <1>13, <1>17, <1>19
<1>20. users'[s] # None =>
         /\ users'[s].person = p
         /\ \A k \in Kinds : Claimed(p, k) /\ users'[s].data[k] # None => Filled(db', p, k)
  BY <1>9, <1>11, <1>13, <1>14
<1>21. /\ \A q \in People, k \in Kinds : q # p => db'[q][k] = db[q][k]
       /\ \A k \in Kinds : TrueRow(db'[p][k]) /\ (Claimed(p, k) => db'[p][k].data \notin Short)
  BY <1>9, <1>10
<1> QED
  BY <1>4, <1>9, <1>14, <1>15, <1>16, <1>18, <1>19, <1>20, <1>21, UserKept

(* What a UserState does to a user in the map: it is moved, or has a new hash,
   or a blob comes. *)
LEMMA UpdateCases ==
    ASSUME IInv, JInv, HandleUserState, NEW m, m = Head(inbox), NEW s, s = m.session, users[s] # None
    PROVE  /\ s \in SessionIds /\ users[s] \in UserType /\ m.person = None
           /\ \/ \E c \in ChannelIds, a \in SessionIds :
                   /\ m = MoveMsg(s, c, a) /\ users' = [users EXCEPT ![s] = [users[s] EXCEPT !.channel = c]]
                   /\ UNCHANGED <<db, pending, alive>>
              \/ \E j \in Kinds, h \in Long : m = HashMsg(s, j, h) /\ NewHash(m, j, users[s], db)
              \/ \E j \in Kinds, b \in BlobValues :
                   /\ m = BlobMsg(s, j, b) /\ (b \in Long => b = users[s].hash[j]) /\ Allowed(users[s].person, j, b)
                   /\ users' = [users EXCEPT ![s] = WithData(m, j, users[s])]
                   /\ db' = DbWith(m, j, users[s], db) /\ UNCHANGED <<pending, alive>>
<1>1. /\ Take("UserState") /\ TypeOK /\ UpdateUser(m, users[s])
  <2>1. Take("UserState")
    BY Zenon DEF HandleUserState
  <2>2. ~Stranger(Head(inbox))
    BY <2>1, NoStranger
  <2> QED
    BY <2>1, <2>2, Zenon DEF HandleUserState, IInv
<1>2. m \in Message /\ m.type = "UserState"
  BY <1>1, Handled
<1>3. m \in UserMessage
  BY <1>2 DEF Message, UserMessage, ChannelMessage, VersionMsg
<1>4. s \in SessionIds /\ users[s] \in UserType
  BY <1>1, <1>3 DEF UserMessage, TypeOK
<1>6. \/ \E c \in ChannelIds, a \in SessionIds : m = MoveMsg(s, c, a)
      \/ \E j \in Kinds, h \in Long : m = HashMsg(s, j, h)
      \/ \E j \in Kinds, b \in BlobValues :
           m = BlobMsg(s, j, b) /\ (b \in Long => b = users[s].hash[j]) /\ Allowed(users[s].person, j, b)
  <2>1. PICK a \in Facts : Agrees(a, users[s]) /\ Fits(a, m, s)
    BY <1>1, <1>4, Fitting
  <2>2. Updates(m, s) /\ a.there /\ a.person = users[s].person
        /\ \A k \in Kinds : a.blob[k] \notin Short => users[s].hash[k] = a.blob[k]
    BY <1>2, <2>1 DEF Updates, Agrees
  <2>3. Changes(a, m, s)
    BY <2>1, <2>2 DEF Fits
  <2>4. \A b \in Long : b \notin Short
    BY Marks
  <2>5. ASSUME NEW k \in Kinds, NEW b \in BlobValues, m = BlobMsg(s, k, b), b \in Long => b = a.blob[k],
               Allowed(a.person, k, b)
        PROVE  (b \in Long => b = users[s].hash[k]) /\ Allowed(users[s].person, k, b)
    BY <2>2, <2>4, <2>5
  <2> QED
    BY <2>3, <2>5 DEF Changes
<1> DEFINE u == IF m.channel = "unset" THEN users[s] ELSE [users[s] EXCEPT !.channel = m.channel]
           v == WithData(m, "comment", u)
           d == DbWith(m, "comment", u, db)
<1>7. IF m.hash["comment"] # "unset" THEN NewHash(m, "comment", u, db)
      ELSE IF m.hash["texture"] # "unset" THEN NewHash(m, "texture", v, d)
      ELSE /\ SetUser(m.session, WithData(m, "texture", v)) /\ db' = DbWith(m, "texture", v, d)
           /\ UNCHANGED <<pending, alive>>
  BY <1>1, Zenon DEF UpdateUser
<1>8. "comment" \in Kinds /\ "texture" \in Kinds /\ \A k \in Kinds : k = "comment" \/ k = "texture"
  BY DEF Kinds
<1> HIDE DEF u, v, d
<1>9. ASSUME NEW c \in ChannelIds, NEW a \in SessionIds, m = MoveMsg(s, c, a)
      PROVE  /\ users' = [users EXCEPT ![s] = [users[s] EXCEPT !.channel = c]]
             /\ UNCHANGED <<db, pending, alive>> /\ m.person = None
  <2>1. /\ m.channel = c /\ c # "unset" /\ m.person = None
        /\ \A k \in Kinds : m.hash[k] = "unset" /\ m.inline[k] = "unset"
    BY <1>9, MoveFields, Marks
  <2>2. u = [users[s] EXCEPT !.channel = c]
    BY <2>1 DEF u
  <2>3. v = u /\ d = db
    <3>1. m.inline["comment"] = "unset"
      BY <1>8, <2>1
    <3> QED
      BY <3>1 DEF v, d, WithData, DbWith
  <2>4. SetUser(m.session, WithData(m, "texture", v)) /\ db' = DbWith(m, "texture", v, d)
        /\ UNCHANGED <<pending, alive>>
    BY <1>7, <1>8, <2>1
  <2>5. WithData(m, "texture", v) = v /\ DbWith(m, "texture", v, d) = d
    <3>1. m.inline["texture"] = "unset"
      BY <1>8, <2>1
    <3> QED
      BY <3>1 DEF WithData, DbWith
  <2> QED
    BY <2>1, <2>2, <2>3, <2>4, <2>5 DEF SetUser
<1>10. ASSUME NEW j \in Kinds, NEW h \in Long, m = HashMsg(s, j, h)
       PROVE  NewHash(m, j, users[s], db) /\ m.person = None
  <2>1. /\ m.channel = "unset" /\ m.person = None /\ h # "unset"
        /\ \A k \in Kinds : m.hash[k] = (IF k = j THEN h ELSE "unset") /\ m.inline[k] = "unset"
    BY <1>10, HashFields, Marks
  <2>2. u = users[s]
    BY <2>1 DEF u
  <2>3. v = u /\ d = db
    <3>1. m.inline["comment"] = "unset"
      BY <1>8, <2>1
    <3> QED
      BY <3>1 DEF v, d, WithData, DbWith
  <2>4. CASE j = "comment"
    BY <1>7, <1>8, <2>1, <2>2, <2>4
  <2>5. CASE j = "texture"
    BY <1>7, <1>8, <2>1, <2>2, <2>3, <2>5
  <2> QED
    BY <1>8, <2>1, <2>4, <2>5
<1>11. ASSUME NEW j \in Kinds, NEW b \in BlobValues, m = BlobMsg(s, j, b)
       PROVE  /\ users' = [users EXCEPT ![s] = WithData(m, j, users[s])] /\ m.person = None
              /\ db' = DbWith(m, j, users[s], db) /\ UNCHANGED <<pending, alive>>
  <2>1. /\ m.channel = "unset" /\ m.person = None
        /\ \A k \in Kinds : m.hash[k] = "unset" /\ m.inline[k] = (IF k = j THEN b ELSE "unset")
    BY <1>11, BlobFields
  <2>2. u = users[s]
    BY <2>1 DEF u
  <2>3. SetUser(m.session, WithData(m, "texture", v)) /\ db' = DbWith(m, "texture", v, d)
        /\ UNCHANGED <<pending, alive>>
    BY <1>7, <1>8, <2>1
  <2>4. CASE j = "comment"
    <3>1. WithData(m, "texture", v) = v /\ DbWith(m, "texture", v, d) = d
      <4>1. m.inline["texture"] = "unset"
        BY <1>8, <2>1, <2>4
      <4> QED
        BY <4>1 DEF WithData, DbWith
    <3> QED
      BY <2>1, <2>2, <2>3, <2>4, <3>1 DEF SetUser, v, d
  <2>5. CASE j = "texture"
    <3>1. v = users[s] /\ d = db
      <4>1. m.inline["comment"] = "unset"
        BY <1>8, <2>1, <2>5
      <4> QED
        BY <2>2, <4>1 DEF v, d, WithData, DbWith
    <3> QED
      BY <2>1, <2>3, <2>5, <3>1 DEF SetUser
  <2> QED
    BY <1>8, <2>4, <2>5
<1> QED
  BY <1>4, <1>6, <1>9, <1>10, <1>11

(* Who is in the map has one session, and data where BlobDB has it. *)
LEMMA InTheMap ==
    ASSUME DataOK, NEW s \in SessionIds, users[s] # None, NEW u, u = users[s]
    PROVE  /\ s \in InMap /\ u.person \in People
           /\ \A k \in Kinds : Claimed(u.person, k) /\ u.data[k] # None => Filled(db, u.person, k)
           /\ \A k \in Kinds : TrueRow(db[u.person][k]) /\ (Claimed(u.person, k) => db[u.person][k].data \notin Short)
           /\ \A x \in InMap : x # s => users[x].person # u.person
<1>1. s \in InMap
  BY DEF InMap
<1>2. u.person \in People /\ \A x \in InMap : x # s => users[x].person # u.person
  BY <1>1 DEF DataOK
<1>3. \A k \in Kinds : Claimed(u.person, k) /\ u.data[k] # None => Filled(db, u.person, k)
  BY <1>1 DEF DataOK, Filled
<1> QED
  BY <1>1, <1>2, <1>3 DEF DataOK

LEMMA MovedKeeps ==
    ASSUME IInv, IInv', JInv, HandleUserState, NEW s \in SessionIds, NEW c \in ChannelIds, NEW b \in SessionIds,
           users[s] \in UserType, users[s] # None, Head(inbox) = MoveMsg(s, c, b),
           users' = [users EXCEPT ![s] = [users[s] EXCEPT !.channel = c]],
           UNCHANGED <<db, pending, alive>>
    PROVE  JInv'
<1>1. Take("UserState") /\ TypeOK /\ DataOK
  BY Zenon DEF HandleUserState, IInv, JInv
<1>2. PICK m : m = Head(inbox)
  OBVIOUS
<1>3. /\ m.type = "UserState" /\ m.session = s /\ m.person = None /\ m.channel = c /\ c # "unset"
      /\ \A k \in Kinds : m.hash[k] = "unset" /\ m.inline[k] = "unset"
  BY <1>2, MoveFields, Marks
<1>4. PICK w : w = [users[s] EXCEPT !.channel = c]
  OBVIOUS
<1>5. /\ w \in UserType /\ w # None /\ w.channel = c /\ w.person = users[s].person
      /\ w.hash = users[s].hash /\ w.data = users[s].data
  <2>1. w \in UserType
    BY <1>4 DEF UserType
  <2> QED
    BY <1>4, <2>1, NoneAssumption DEF UserType
<1>6. users'[s] = w /\ \A x \in SessionIds : x # s => users'[x] = users[x]
  BY <1>1, <1>4 DEF TypeOK
<1>7. ASSUME NEW a \in Facts, Agrees(a, users[s]) PROVE Agrees(After(a, m, s), users'[s])
  <2>1. After(a, m, s) = Fact(a.person, c, a.blob)
    BY <1>2, <1>7, AfterMove DEF Agrees
  <2>2. PICK f : f = Fact(a.person, c, a.blob)
    OBVIOUS
  <2>3. f.there /\ f.person = a.person /\ f.channel = c /\ f.blob = a.blob
    BY <2>2 DEF Fact
  <2>4. Agrees(f, w)
    BY <1>5, <1>7, <2>3 DEF Agrees
  <2> QED
    BY <1>6, <2>1, <2>2, <2>4
<1>8. /\ s \in InMap /\ w.person \in People
      /\ \A k \in Kinds : Claimed(w.person, k) /\ w.data[k] # None => Filled(db, w.person, k)
      /\ \A k \in Kinds : TrueRow(db[w.person][k]) /\ (Claimed(w.person, k) => db[w.person][k].data \notin Short)
      /\ \A x \in InMap : x # s => users[x].person # w.person
  <2>1. PICK u : u = users[s]
    OBVIOUS
  <2> QED
    BY <1>1, <1>5, <2>1, InTheMap
<1>10. ~BeforeSync'
  BY <1>1, <1>2, <1>3, StillListing
<1>11. \A k \in Kinds : Lacks(s, k)' => Lacks(s, k) /\ ~HeadAbout(s, k)
  BY <1>2, <1>3, <1>5, <1>6 DEF Lacks, InMap, HeadAbout, Claimed
<1>12. Synced' /\ Greedy => \A k \in Kinds : Lacks(s, k)' => <<k, s>> \in pending' \/ About(s, k)'
  BY <1>1, <1>11, StillAsked
<1>13. \A k : Filled(db', w.person, k) <=> Filled(db, w.person, k)
  OBVIOUS
<1> QED
  BY <1>2, <1>3, <1>5, <1>6, <1>7, <1>8, <1>10, <1>12, <1>13, UserKept

LEMMA HashKeeps ==
    ASSUME IInv, IInv', JInv, HandleUserState, NEW s \in SessionIds, NEW j \in Kinds, NEW h \in Long,
           users[s] \in UserType, users[s] # None, Head(inbox) = HashMsg(s, j, h),
           NewHash(Head(inbox), j, users[s], db)
    PROVE  JInv'
<1>1. Take("UserState") /\ TypeOK /\ DataOK /\ db \in Table
  BY Zenon DEF HandleUserState, IInv, JInv, TypeOK, Table
<1>2. PICK m : m = Head(inbox)
  OBVIOUS
<1>3. /\ m.type = "UserState" /\ m.session = s /\ m.person = None /\ m.channel = "unset" /\ h # "unset"
      /\ \A k \in Kinds : m.hash[k] = (IF k = j THEN h ELSE "unset") /\ m.inline[k] = "unset"
  BY <1>2, HashFields, Marks
<1>4. PICK user : user = users[s]
  OBVIOUS
<1>5. user \in UserType /\ user.hash \in [Kinds -> HashValues] /\ h \in HashValues
  BY <1>4 DEF UserType, HashValues
<1>6. PICK v : v = [user EXCEPT !.hash[j] = h]
  OBVIOUS
<1>7. /\ v \in UserType /\ v.person = user.person /\ v.channel = user.channel /\ v.data = user.data
      /\ v.hash = [user.hash EXCEPT ![j] = h]
  BY <1>5, <1>6 DEF UserType
<1>8. PICK w : w = IF Fails(db, v, j) THEN v ELSE Refreshed(db, v, j)
  OBVIOUS
<1>9. /\ db' = db /\ pending' = pending \cup Asked(db, v, s, j) /\ alive' = ~Fails(db, v, j)
      /\ users' = [users EXCEPT ![s] = w]
  BY <1>2, <1>3, <1>4, <1>6, <1>8 DEF NewHash, SetUser
<1>10. /\ Refreshed(db, v, j) \in UserType
       /\ Refreshed(db, v, j).person = v.person /\ Refreshed(db, v, j).channel = v.channel
       /\ Refreshed(db, v, j).hash = v.hash
       /\ \A k \in Kinds : Refreshed(db, v, j).data[k] =
            IF k = j /\ v.hash[j] # None /\ ~Wanted(db, v, j) THEN Fetched(db, v.person, j) ELSE v.data[k]
  BY <1>1, <1>7, RefreshedFields
<1>11. /\ w \in UserType /\ w.person = user.person /\ w.channel = user.channel /\ w.hash = v.hash
       /\ \A k \in Kinds : k # j => w.data[k] = user.data[k]
  BY <1>7, <1>8, <1>10
<1>12. /\ w.data[j] = user.data[j] \/ w.data[j] = Fetched(db, user.person, j)
       /\ alive' => w.data[j] = IF ~Wanted(db, v, j) THEN Fetched(db, v.person, j) ELSE v.data[j]
  BY <1>3, <1>5, <1>7, <1>8, <1>9, <1>10, Marks
<1>13. w # None
  BY <1>11, NoneAssumption
<1>14. users'[s] = w /\ \A x \in SessionIds : x # s => users'[x] = users[x]
  BY <1>1, <1>9 DEF TypeOK
<1>15. ASSUME NEW a \in Facts, Agrees(a, users[s]) PROVE Agrees(After(a, m, s), users'[s])
  <2>1. /\ a.there /\ a.person = user.person /\ a.channel = user.channel /\ a.blob \in [Kinds -> BlobValues]
        /\ \A k \in Kinds : a.blob[k] \notin Short => user.hash[k] = a.blob[k]
    BY <1>4, <1>15 DEF Agrees, Facts
  <2>2. h \in BlobValues
    BY Marks DEF BlobValues
  <2>3. After(a, m, s) = Fact(a.person, a.channel, [a.blob EXCEPT ![j] = h])
    BY <1>2, <2>1, <2>2, AfterText
  <2>4. PICK f : f = Fact(a.person, a.channel, [a.blob EXCEPT ![j] = h])
    OBVIOUS
  <2>5. /\ f.there /\ f.person = a.person /\ f.channel = a.channel
        /\ \A k \in Kinds : f.blob[k] = IF k = j THEN h ELSE a.blob[k]
    BY <2>1, <2>4 DEF Fact
  <2>6. \A k \in Kinds : w.hash[k] = IF k = j THEN h ELSE user.hash[k]
    BY <1>5, <1>7, <1>11
  <2>7. Agrees(f, w)
    BY <1>11, <1>13, <2>1, <2>5, <2>6 DEF Agrees
  <2> QED
    BY <1>14, <2>3, <2>4, <2>7
<1>16. PICK q \in People : q = user.person
  BY <1>1, <1>4, InTheMap
<1>17. /\ s \in InMap
       /\ \A k \in Kinds : Claimed(q, k) /\ user.data[k] # None => Filled(db, q, k)
       /\ \A k \in Kinds : TrueRow(db[q][k]) /\ (Claimed(q, k) => db[q][k].data \notin Short)
       /\ \A x \in InMap : x # s => users[x].person # q
  BY <1>1, <1>4, <1>16, InTheMap
<1>18. ASSUME NEW k \in Kinds, Claimed(q, k), w.data[k] # None PROVE Filled(db, q, k)
  <2>1. Fetched(db, q, k) # None => Filled(db, q, k)
    <3>1. Empty.data = None
      BY DEF Empty
    <3> QED
      BY <3>1 DEF Fetched, Filled
  <2> QED
    BY <1>11, <1>12, <1>16, <1>17, <1>18, <2>1
<1>19. ~BeforeSync'
  BY <1>1, <1>2, <1>3, StillListing
<1>20. pending \subseteq pending'
  BY <1>9
<1>21. ASSUME Synced', Greedy, NEW k \in Kinds, Lacks(s, k)' PROVE <<k, s>> \in pending' \/ About(s, k)'
  <2>1. Claimed(q, k) /\ w.data[k] = None /\ w.hash[k] # None
    BY <1>11, <1>14, <1>16, <1>21 DEF Lacks, Claimed
  <2>2. CASE k # j
    <3>1. Lacks(s, k)
      BY <1>4, <1>5, <1>7, <1>11, <1>16, <1>17, <2>1, <2>2 DEF Lacks
    <3>2. ~HeadAbout(s, k)
      BY <1>2, <1>3 DEF HeadAbout
    <3> QED
      BY <1>1, <1>20, <1>21, <3>1, <3>2, StillAsked
  <2>3. CASE k = j
    <3>1. /\ v.person = q /\ v.hash[j] \in Long /\ (v.data[j] # None => Filled(db, v.person, j))
          /\ TrueRow(db[v.person][j]) /\ db[v.person][j].data \notin Short
      BY <1>5, <1>7, <1>16, <1>17, <2>1, <2>3
    <3>2. w.data[j] = IF ~Wanted(db, v, j) THEN Fetched(db, v.person, j) ELSE v.data[j]
      BY <1>12, <1>21 DEF Synced
    <3>3. Wanted(db, v, j)
      BY <1>1, <1>21, <2>1, <2>3, <3>1, <3>2, Fresh
    <3> QED
      BY <1>9, <2>3, <3>3 DEF Asked
  <2> QED
    BY <2>2, <2>3
<1>22. /\ \A p \in People, k \in Kinds : p # q => db'[p][k] = db[p][k]
       /\ \A k \in Kinds : TrueRow(db'[q][k]) /\ (Claimed(q, k) => db'[q][k].data \notin Short)
       /\ users'[s].person = q
       /\ \A k \in Kinds : Claimed(q, k) /\ users'[s].data[k] # None => Filled(db', q, k)
  BY <1>9, <1>11, <1>14, <1>16, <1>17, <1>18
<1> QED
  BY <1>2, <1>3, <1>14, <1>15, <1>17, <1>19, <1>20, <1>21, <1>22, UserKept

LEMMA BlobTaken ==
    ASSUME IInv, IInv', JInv, HandleUserState, NEW s \in SessionIds, NEW j \in Kinds, NEW b \in BlobValues,
           users[s] \in UserType, users[s] # None, Head(inbox) = BlobMsg(s, j, b),
           b \in Long => b = users[s].hash[j], Allowed(users[s].person, j, b),
           users' = [users EXCEPT ![s] = WithData(Head(inbox), j, users[s])],
           db' = DbWith(Head(inbox), j, users[s], db), UNCHANGED <<pending, alive>>
    PROVE  JInv'
<1>1. Take("UserState") /\ TypeOK /\ DataOK /\ db \in Table
  BY Zenon DEF HandleUserState, IInv, JInv, TypeOK, Table
<1>2. PICK m : m = Head(inbox)
  OBVIOUS
<1>3. /\ m.type = "UserState" /\ m.session = s /\ m.person = None /\ m.channel = "unset" /\ b # "unset"
      /\ \A k \in Kinds : m.hash[k] = "unset" /\ m.inline[k] = (IF k = j THEN b ELSE "unset")
  BY <1>2, BlobFields, Marks
<1>4. PICK user : user = users[s]
  OBVIOUS
<1>5. user \in UserType /\ user.hash \in [Kinds -> HashValues] /\ user.data \in [Kinds -> BlobValues]
  BY <1>4 DEF UserType
<1>6. PICK w : w = WithData(m, j, user)
  OBVIOUS
<1>7. /\ w.person = user.person /\ w.channel = user.channel
      /\ w.hash = [user.hash EXCEPT ![j] = IF b = None THEN None ELSE user.hash[j]]
      /\ w.data = [user.data EXCEPT ![j] = b] /\ w \in UserType
  <2>1. w = [user EXCEPT !.data[j] = b, !.hash[j] = IF b = None THEN None ELSE @]
    BY <1>3, <1>6 DEF WithData
  <2>2. /\ w.person = user.person /\ w.channel = user.channel
        /\ w.hash = [user.hash EXCEPT ![j] = IF b = None THEN None ELSE user.hash[j]]
        /\ w.data = [user.data EXCEPT ![j] = b]
    BY <1>5, <2>1 DEF UserType
  <2>3. Head(inbox) \in Message
    BY <1>1, Handled
  <2>4. m \in UserMessage
    BY <1>2, <1>3, <2>3 DEF Message, UserMessage, ChannelMessage, VersionMsg
  <2> QED
    BY <1>5, <1>6, <2>2, <2>4, TypeWithData
<1>8. w # None
  BY <1>7, NoneAssumption
<1>9. users'[s] = w /\ \A x \in SessionIds : x # s => users'[x] = users[x]
  BY <1>1, <1>2, <1>4, <1>6 DEF TypeOK
<1>10. PICK q \in People : q = user.person
  BY <1>1, <1>4, InTheMap
<1>11. /\ s \in InMap
       /\ \A k \in Kinds : Claimed(q, k) /\ user.data[k] # None => Filled(db, q, k)
       /\ \A k \in Kinds : TrueRow(db[q][k]) /\ (Claimed(q, k) => db[q][k].data \notin Short)
       /\ \A x \in InMap : x # s => users[x].person # q
  BY <1>1, <1>4, <1>10, InTheMap
<1>12. PICK h \in HashValues : h = user.hash[j]
  BY <1>5
<1>13. PICK row : row = [hash |-> IF b = None THEN None ELSE h, data |-> b]
  OBVIOUS
<1>14. row.data = b /\ (b # None => row.hash = h) /\ (b = None => row = Empty)
  BY <1>13 DEF Empty
<1>15. b \in Long \/ b \in Short \/ b = None
  BY DEF BlobValues, Long
<1>16. /\ b \in Long => h = b /\ h # None /\ b # None /\ b \notin Short
       /\ Claimed(q, j) => b \notin Short
       /\ h # None => h \in Long
       /\ b \in Short => b # None
  BY <1>4, <1>10, <1>12, Marks DEF Allowed, Claimed, HashValues
<1>17. db' = IF b = None \/ h # None THEN [db EXCEPT ![q][j] = row] ELSE db
  <2>1. w.data[j] = b /\ w.hash[j] = IF b = None THEN None ELSE h
    BY <1>5, <1>7, <1>12
  <2>2. db' = IF b = None \/ w.hash[j] # None THEN Store(db, q, j, w.hash[j], w.data[j]) ELSE db
    BY <1>2, <1>3, <1>4, <1>6, <1>10, <2>1 DEF DbWith
  <2>3. Store(db, q, j, w.hash[j], w.data[j]) = [db EXCEPT ![q][j] = row]
    BY <1>13, <2>1 DEF Store
  <2> QED
    BY <2>1, <2>2, <2>3
<1>18. /\ \A p \in People, k \in Kinds : p # q \/ k # j => db'[p][k] = db[p][k]
       /\ db'[q][j] = IF b = None \/ h # None THEN row ELSE db[q][j]
  <2>1. /\ \A p \in People, k \in Kinds : p # q \/ k # j => [db EXCEPT ![q][j] = row][p][k] = db[p][k]
        /\ [db EXCEPT ![q][j] = row][q][j] = row
    BY <1>1 DEF Table
  <2> QED
    BY <1>17, <2>1
<1>19. b = None \/ h # None =>
         /\ TrueRow(row) /\ (Claimed(q, j) => row.data \notin Short)
         /\ Claimed(q, j) /\ b # None => row \notin {NoRow, Empty}
  <2>1. TrueRow(row)  \/ ~(b = None \/ h # None)
    BY <1>14, <1>15, <1>16 DEF TrueRow
  <2>2. Claimed(q, j) => row.data \notin Short
    BY <1>14, <1>16
  <2>3. Claimed(q, j) /\ b # None => row \notin {NoRow, Empty}
    <3>1. NoRow.hash \notin Long /\ Empty.hash \notin Long
      BY Marks DEF NoRow, Empty
    <3> QED
      BY <1>14, <1>15, <1>16, <3>1
  <2> QED
    BY <2>1, <2>2, <2>3
<1>20. \A k \in Kinds : TrueRow(db'[q][k]) /\ (Claimed(q, k) => db'[q][k].data \notin Short)
  BY <1>11, <1>18, <1>19
<1>21. ASSUME NEW a \in Facts, Agrees(a, users[s]) PROVE Agrees(After(a, m, s), users'[s])
  <2>1. /\ a.there /\ a.person = user.person /\ a.channel = user.channel /\ a.blob \in [Kinds -> BlobValues]
        /\ \A k \in Kinds : a.blob[k] \notin Short => user.hash[k] = a.blob[k]
    BY <1>4, <1>21 DEF Agrees, Facts
  <2>3. After(a, m, s) = Fact(a.person, a.channel, [a.blob EXCEPT ![j] = b])
    BY <1>2, <2>1, AfterText
  <2>4. PICK f : f = Fact(a.person, a.channel, [a.blob EXCEPT ![j] = b])
    OBVIOUS
  <2>5. /\ f.there /\ f.person = a.person /\ f.channel = a.channel
        /\ \A k \in Kinds : f.blob[k] = IF k = j THEN b ELSE a.blob[k]
    BY <2>1, <2>4 DEF Fact
  <2>6. \A k \in Kinds : w.hash[k] = IF k = j THEN (IF b = None THEN None ELSE h) ELSE user.hash[k]
    BY <1>5, <1>7, <1>12
  <2>7. Agrees(f, w)
    BY <1>7, <1>8, <1>15, <1>16, <2>1, <2>5, <2>6 DEF Agrees
  <2> QED
    BY <1>9, <2>3, <2>4, <2>7
<1>22. ASSUME NEW k \in Kinds, Claimed(q, k), w.data[k] # None PROVE Filled(db', q, k)
  <2>1. CASE k = j
    <3>1. b # None /\ b \in Long
      BY <1>5, <1>7, <1>15, <1>16, <1>22, <2>1
    <3> QED
      BY <1>16, <1>18, <1>19, <1>22, <2>1, <3>1 DEF Filled
  <2>2. CASE k # j
    BY <1>5, <1>7, <1>11, <1>18, <1>22, <2>2 DEF Filled
  <2> QED
    BY <2>1, <2>2
<1>23. ~BeforeSync'
  BY <1>1, <1>2, <1>3, StillListing
<1>24. ASSUME Synced', Greedy, NEW k \in Kinds, Lacks(s, k)' PROVE <<k, s>> \in pending' \/ About(s, k)'
  <2>1. Claimed(q, k) /\ w.data[k] = None /\ w.hash[k] # None
    BY <1>7, <1>9, <1>10, <1>24 DEF Lacks, Claimed
  <2>2. k # j
    BY <1>5, <1>7, <2>1
  <2>3. Lacks(s, k) /\ ~HeadAbout(s, k)
    BY <1>2, <1>3, <1>4, <1>5, <1>7, <1>10, <1>11, <2>1, <2>2 DEF Lacks, HeadAbout
  <2> QED
    BY <1>1, <1>24, <2>3, StillAsked
<1>25. users'[s].person = q /\ \A k \in Kinds : Claimed(q, k) /\ users'[s].data[k] # None => Filled(db', q, k)
  BY <1>7, <1>9, <1>10, <1>22
<1> QED
  BY <1>2, <1>3, <1>9, <1>11, <1>18, <1>20, <1>21, <1>23, <1>24, <1>25, UserKept

LEMMA UserStateKeeps == ASSUME IInv, IInv', JInv, HandleUserState PROVE JInv'
<1>1. PICK m, s : m = Head(inbox) /\ s = m.session
  OBVIOUS
<1>2. CASE users[s] = None
  BY <1>1, <1>2, CreateKeeps
<1>3. CASE users[s] # None
  <2>1. s \in SessionIds /\ users[s] \in UserType
    BY <1>1, <1>3, UpdateCases
  <2>2. \/ \E c \in ChannelIds, a \in SessionIds :
              /\ m = MoveMsg(s, c, a) /\ users' = [users EXCEPT ![s] = [users[s] EXCEPT !.channel = c]]
              /\ UNCHANGED <<db, pending, alive>>
        \/ \E j \in Kinds, h \in Long : m = HashMsg(s, j, h) /\ NewHash(m, j, users[s], db)
        \/ \E j \in Kinds, b \in BlobValues :
              /\ m = BlobMsg(s, j, b) /\ (b \in Long => b = users[s].hash[j]) /\ Allowed(users[s].person, j, b)
              /\ users' = [users EXCEPT ![s] = WithData(m, j, users[s])]
              /\ db' = DbWith(m, j, users[s], db) /\ UNCHANGED <<pending, alive>>
    BY <1>1, <1>3, UpdateCases
  <2>3. ASSUME NEW c \in ChannelIds, NEW a \in SessionIds, m = MoveMsg(s, c, a), UNCHANGED <<db, pending, alive>>,
               users' = [users EXCEPT ![s] = [users[s] EXCEPT !.channel = c]]
        PROVE  JInv'
    BY <1>1, <1>3, <2>1, <2>3, MovedKeeps
  <2>4. ASSUME NEW j \in Kinds, NEW h \in Long, m = HashMsg(s, j, h), NewHash(m, j, users[s], db)
        PROVE  JInv'
    BY <1>1, <1>3, <2>1, <2>4, HashKeeps
  <2>5. ASSUME NEW j \in Kinds, NEW b \in BlobValues, m = BlobMsg(s, j, b),
               b \in Long => b = users[s].hash[j], Allowed(users[s].person, j, b),
               users' = [users EXCEPT ![s] = WithData(m, j, users[s])],
               db' = DbWith(m, j, users[s], db), UNCHANGED <<pending, alive>>
        PROVE  JInv'
    BY <1>1, <1>3, <2>1, <2>5, BlobTaken
  <2> QED
    BY <2>2, <2>3, <2>4, <2>5
<1> QED
  BY <1>2, <1>3

LEMMA StoriesHold == Spec => []JInv
<1>1. Init => JInv
  <2> SUFFICES ASSUME Init PROVE JInv
    OBVIOUS
  <2>1. Stories /\ ActorsKnown /\ OneSession /\ ListingOK /\ MissingSeen /\ MissingAsked
    BY DEF Init, Stories, ActorsKnown, OneSession, ListingOK, MissingSeen, MissingAsked, Synced
  <2>2. ASSUME NEW p \in People, NEW k \in Kinds PROVE Allowed(p, k, blob[p][k])
    <3>1. PICK b \in Long : blob = FirstBlobs(b)
      BY DEF Init
    <3>2. blob[p][k] = IF k = "texture" /\ p \in Faceless THEN None ELSE b
      BY <3>1 DEF FirstBlobs
    <3> QED
      BY <3>2, Marks DEF Allowed
  <2>3. \A p \in People, k \in Kinds : TrueRow(db[p][k]) /\ db[p][k].data \notin Short
    BY MarkAssumption, RosterAssumption DEF Init, TrueRow, NoRow
  <2>4. \A c \in ChannelIds : TrueRow(roomDb[c]) /\ (rooms[c].there \/ rooms[c] = Absent) /\ channels[c] = None
    BY DEF Init, TrueRow, Absent
  <2>5. InMap = {}
    BY DEF Init, InMap
  <2>6. DataOK
    BY <2>2, <2>3, <2>4, <2>5 DEF DataOK
  <2> QED
    BY <2>1, <2>6 DEF JInv
<1>2. IInv /\ IInv' /\ JInv /\ [Next]_vars => JInv'
  <2> SUFFICES ASSUME IInv, IInv', JInv, [Next]_vars PROVE JInv'
    OBVIOUS
  <2>1. CASE Connect
    BY <2>1, ConnectKeeps
  <2>2. CASE Disconnect
    BY <2>2, DisconnectKeeps
  <2>3. CASE Server
    <3>1. CASE Answer
      BY <3>1, AnswerKeeps
    <3>2. CASE ~Answer
      BY <2>3, <3>2, ChangeKeeps
    <3> QED
      BY <3>1, <3>2
  <2>4. CASE Dispatch
    BY <2>4, VersionKeeps, UserStateKeeps, UserRemoveKeeps, ChannelStateKeeps, ChannelRemoveKeeps,
       ServerSyncKeeps DEF Dispatch
  <2>5. CASE UNCHANGED vars
    <3>1. UNCHANGED <<online, place, blob, rooms, up, inbox, pending, users, channels, db, roomDb, alive>>
      BY <2>5 DEF vars, server, roster
    <3>2. /\ \A s : Truth(s)' = Truth(s) /\ \A i : KnownAt(s, i)' = KnownAt(s, i)
          /\ InMap' = InMap /\ Synced' = Synced /\ OnItsWay' = OnItsWay
      BY <3>1 DEF Truth, InMap, Synced, OnItsWay, KnownAt
    <3>3. Stories' /\ ListingOK' /\ ActorsKnown'
      BY <3>1, <3>2 DEF JInv, Stories, ListingOK, ActorsKnown, IsAt
    <3>4. DataOK'
      BY <3>1, <3>2 DEF JInv, DataOK
    <3>5. MissingSeen' /\ MissingAsked'
      BY <3>1, <3>2 DEF JInv, MissingSeen, MissingAsked, Lacks, About, IsAt, Cached
    <3>6. OneSession'
      BY <3>1 DEF JInv, OneSession, Holds, Ends
    <3> QED
      BY <3>3, <3>4, <3>5, <3>6 DEF JInv
  <2> QED
    BY <2>1, <2>2, <2>3, <2>4, <2>5 DEF Next
<1> QED
  BY <1>1, <1>2, Inductive, PTL DEF Spec

(***************************************************************************)
(* The descriptions that are not shown.                                    *)
(***************************************************************************)
\* Before ServerSync: the channel of message i is not in the map then.
NewAt(i) == channels[inbox[i].channel] = None \/ \E v \in DOMAIN inbox : v < i /\ IsAt(v, "Version")

LEMMA ListedGrown ==
    ASSUME TypeOK, TextInv, NEW m \in Message, NewsMsg(m), inbox' = Append(inbox, m), UNCHANGED channels
    PROVE  ListedOnce'
<1>1. PICK n \in Nat :
        /\ DOMAIN inbox = 1..n /\ DOMAIN inbox' = 1..(n + 1)
        /\ \A i \in 1..n : inbox'[i] = inbox[i]
        /\ inbox'[n + 1] = m
  BY InboxGrown
<1>2. SUFFICES ASSUME NEW i \in 1..(n + 1), NEW j \in 1..(n + 1), i < j,
                      IsAt(j, "ServerSync")', IsAt(i, "ChannelState")'
               PROVE  /\ NewAt(i)'
                      /\ \A h \in 1..(n + 1) : h < i /\ IsAt(h, "ChannelState")'
                                                 => inbox'[h].channel # inbox'[i].channel
  BY <1>1, Zenon DEF ListedOnce, NewAt
<1>3. i \in 1..n /\ j \in 1..n
  BY <1>1, <1>2 DEF IsAt, NewsMsg
<1>4. \A h \in 1..(n + 1) : h < i => h \in 1..n
  BY <1>3
<1>5. IsAt(j, "ServerSync") /\ IsAt(i, "ChannelState") /\ inbox'[i] = inbox[i]
  BY <1>1, <1>2, <1>3 DEF IsAt
<1>6. /\ NewAt(i)
      /\ \A h \in 1..n : h < i /\ IsAt(h, "ChannelState") => inbox[h].channel # inbox[i].channel
  BY <1>1, <1>2, <1>3, <1>5 DEF TextInv, ListedOnce, NewAt
<1>7. \A v \in 1..n : v \in 1..(n + 1) /\ (IsAt(v, "Version") => IsAt(v, "Version")')
  BY <1>1 DEF IsAt
<1>8. NewAt(i)'
  BY <1>1, <1>5, <1>6, <1>7 DEF NewAt
<1>9. ASSUME NEW h \in 1..(n + 1), h < i, IsAt(h, "ChannelState")' PROVE inbox'[h].channel # inbox'[i].channel
  <2>1. h \in 1..n /\ inbox'[h] = inbox[h]
    BY <1>1, <1>4, <1>9
  <2> QED
    BY <1>1, <1>5, <1>6, <1>9, <2>1 DEF IsAt
<1> QED
  BY <1>8, <1>9

LEMMA ListedTaken ==
    ASSUME IInv, TextInv, NEW type, Take(type),
           IF type = "Version" THEN \A x \in ChannelIds : channels'[x] = None
           ELSE \A x \in ChannelIds :
                  channels[x] = None => channels'[x] = None \/ (type = "ChannelState" /\ Head(inbox).channel = x)
    PROVE  ListedOnce'
<1>1. PICK n \in Nat \ {0} :
        /\ DOMAIN inbox = 1..n /\ DOMAIN inbox' = 1..(n - 1)
        /\ \A i \in 1..(n - 1) : i + 1 \in 1..n /\ inbox'[i] = inbox[i + 1]
        /\ IsAt(1, type) /\ inbox[1] = Head(inbox) /\ inbox \in Seq(Message)
  <2>1. inbox \in Seq(Message) /\ inbox # <<>> /\ inbox' = Tail(inbox)
    BY Handled
  <2>2. IsAt(1, type) /\ inbox[1] = Head(inbox)
    BY Rest
  <2>3. /\ Len(inbox) \in Nat \ {0} /\ DOMAIN inbox = 1..Len(inbox) /\ DOMAIN inbox' = 1..(Len(inbox) - 1)
        /\ \A i \in 1..(Len(inbox) - 1) : i + 1 \in 1..Len(inbox) /\ inbox'[i] = inbox[i + 1]
    BY <2>1
  <2> QED
    BY <2>1, <2>2, <2>3
<1>2. SUFFICES ASSUME NEW i \in 1..(n - 1), NEW j \in 1..(n - 1), i < j,
                      IsAt(j, "ServerSync")', IsAt(i, "ChannelState")'
               PROVE  /\ NewAt(i)'
                      /\ \A h \in 1..(n - 1) : h < i /\ IsAt(h, "ChannelState")'
                                                 => inbox'[h].channel # inbox'[i].channel
  BY <1>1, Zenon DEF ListedOnce, NewAt
<1>3. \A h \in 1..(n - 1) : h + 1 \in 1..n /\ 1 < h + 1 /\ (h < i => h + 1 < i + 1)
  BY <1>1, <1>2
<1>4. /\ i + 1 \in 1..n /\ j + 1 \in 1..n /\ i + 1 < j + 1 /\ 1 \in 1..n /\ 1 < i + 1
      /\ inbox'[i] = inbox[i + 1] /\ IsAt(i + 1, "ChannelState") /\ IsAt(j + 1, "ServerSync")
  BY <1>1, <1>2, <1>3 DEF IsAt
<1>5. /\ NewAt(i + 1)
      /\ \A h \in 1..n : h < i + 1 /\ IsAt(h, "ChannelState") => inbox[h].channel # inbox[i + 1].channel
  BY <1>1, <1>4 DEF TextInv, ListedOnce, NewAt
<1>6. ASSUME NEW h \in 1..(n - 1), h < i, IsAt(h, "ChannelState")' PROVE inbox'[h].channel # inbox'[i].channel
  <2>1. h + 1 \in 1..n /\ h + 1 < i + 1 /\ inbox'[h] = inbox[h + 1] /\ IsAt(h + 1, "ChannelState")
    BY <1>1, <1>3, <1>6 DEF IsAt
  <2> QED
    BY <1>4, <1>5, <2>1
<1>7. inbox[i + 1].channel \in ChannelIds
  <2>1. inbox[i + 1] \in Message /\ inbox[i + 1].type = "ChannelState"
    BY <1>1, <1>4 DEF IsAt
  <2> QED
    BY <2>1 DEF Message, ChannelMessage, UserMessage, VersionMsg
<1>8. NewAt(i)'
  <2>1. CASE \E v \in 1..n : v < i + 1 /\ v # 1 /\ IsAt(v, "Version")
    <3>1. PICK v \in 1..n : v < i + 1 /\ v # 1 /\ IsAt(v, "Version")
      BY <2>1
    <3>2. v - 1 \in 1..(n - 1) /\ v - 1 < i /\ (v - 1) + 1 = v
      BY <1>1, <1>2, <3>1
    <3>3. IsAt(v - 1, "Version")'
      BY <1>1, <3>1, <3>2 DEF IsAt
    <3> QED
      BY <1>1, <3>2, <3>3 DEF NewAt
  <2>2. CASE IsAt(1, "Version")
    <3>1. type = "Version"
      BY <1>1, <2>2 DEF IsAt
    <3> QED
      BY <1>4, <1>7, <3>1 DEF NewAt
  <2>3. CASE ~IsAt(1, "Version") /\ ~\E v \in 1..n : v < i + 1 /\ v # 1 /\ IsAt(v, "Version")
    <3>1. channels[inbox[i + 1].channel] = None
      BY <1>1, <1>5, <2>3 DEF NewAt
    <3>2. type # "Version" /\ (type = "ChannelState" => inbox[1].channel # inbox[i + 1].channel)
      BY <1>1, <1>4, <1>5, <2>3 DEF IsAt
    <3> QED
      BY <1>1, <1>4, <1>7, <3>1, <3>2 DEF NewAt
  <2> QED
    BY <2>1, <2>2, <2>3
<1> QED
  BY <1>6, <1>8

(* The server: what it changes of a channel it tells. *)
LEMMA TextsGrown ==
    ASSUME IInv, JInv, TextInv, NEW m \in Message, NewsMsg(m), inbox' = Append(inbox, m),
           UNCHANGED <<up, alive, roster, ready, db, roomDb>>,
           \A c \in ChannelIds : Unshown(c)' =>
             \/ Unshown(c) /\ (<<"description", c>> \in pending => <<"description", c>> \in pending')
             \/ m.type \in {"ChannelState", "ChannelRemove"} /\ m.channel = c
    PROVE  TextInv'
<1>1. /\ OnItsWay' = OnItsWay \cup {m}
      /\ (\A v \in DOMAIN inbox' : ~IsAt(v, "Version")') => \A v \in DOMAIN inbox : ~IsAt(v, "Version")
  BY Grown
<1>2. ListedOnce'
  BY ListedGrown DEF IInv, roster
<1>3. NothingStored'
  BY DEF TextInv, NothingStored
<1>4. \A c : AboutText(c) \/ (m.type \in {"ChannelState", "ChannelRemove"} /\ m.channel = c) => AboutText(c)'
  BY <1>1 DEF AboutText
<1>5. LongAsked'
  BY <1>1, <1>4 DEF TextInv, LongAsked, TextAsked
<1> QED
  BY <1>2, <1>3, <1>5 DEF TextInv

LEMMA TextsTold ==
    ASSUME IInv, JInv, TextInv, NEW m \in Message, NewsMsg(m), Tell(m),
           \A c \in ChannelIds : \/ rooms'[c] = rooms[c]
                                 \/ m.type \in {"ChannelState", "ChannelRemove"} /\ m.channel = c
    PROVE  TextInv'
<1>1. /\ UNCHANGED <<up, pending, roster, channels, ready, db, roomDb, alive>>
      /\ inbox' = IF up THEN Append(inbox, m) ELSE inbox
  BY DEF Tell, roster
<1>2. CASE up
  BY <1>1, <1>2, TextsGrown DEF Unshown
<1>3. CASE ~up
  <2>1. ~alive /\ inbox = <<>>
    BY <1>3 DEF IInv, Distinct
  <2> QED
    BY <1>1, <1>3, <2>1 DEF TextInv, ListedOnce, NothingStored, LongAsked
<1> QED
  BY <1>2, <1>3

LEMMA TextsChange == ASSUME IInv, JInv, TextInv, Server, ~Answer PROVE TextInv'
<1> USE UserMessages, OtherMessages DEF FreeIds
<1>1. ASSUME NEW m \in UserMessage \cup [type : {"UserRemove"}, session : SessionIds], Tell(m), UNCHANGED rooms
      PROVE  TextInv'
  <2>1. m \in Message /\ NewsMsg(m)
    BY <1>1 DEF Message, UserMessage, NewsMsg
  <2> QED
    BY <1>1, <2>1, TextsTold
<1>2. ASSUME NEW p \in People, Join(p) PROVE TextInv'
  <2>1. PICK s \in FreeIds : Tell(NewUserMsg(p, s))
    BY <1>2 DEF Join
  <2>2. NewUserMsg(p, s) \in UserMessage
    BY <2>1 DEF IInv
  <2> QED
    BY <1>1, <1>2, <2>1, <2>2 DEF Join
<1>3. ASSUME NEW p \in People, Leave(p) PROVE TextInv'
  <2>1. RemoveMsg(online[p]) \in [type : {"UserRemove"}, session : SessionIds]
    BY <1>3 DEF Leave, IInv, TypeOK, RemoveMsg
  <2> QED
    BY <1>1, <1>3, <2>1 DEF Leave
<1>4. ASSUME NEW p \in People, NEW c \in ChannelIds, MoveTo(p, c) PROVE TextInv'
  <2>1. PICK q \in People : online[q] # None /\ Tell(MoveMsg(online[p], c, online[q]))
    BY <1>4 DEF MoveTo
  <2>2. MoveMsg(online[p], c, online[q]) \in UserMessage
    BY <1>4, <2>1 DEF MoveTo, IInv, TypeOK
  <2> QED
    BY <1>1, <1>4, <2>1, <2>2 DEF MoveTo
<1>5. ASSUME NEW p \in People, NEW k \in Kinds, NEW b \in Blobs \cup {None}, SetBlob(p, k, b) PROVE TextInv'
  <2>1. online[p] \in SessionIds /\ b \in BlobValues
    BY <1>5 DEF SetBlob, IInv, TypeOK, BlobValues
  <2>2. (IF b \in Long THEN HashMsg(online[p], k, b) ELSE BlobMsg(online[p], k, b)) \in UserMessage
    BY <2>1 DEF IInv
  <2> QED
    BY <1>1, <1>5, <2>2 DEF SetBlob
<1>6. ASSUME NEW c \in ChannelIds, NEW m \in Message, m.type \in {"ChannelState", "ChannelRemove"}, m.channel = c,
             Tell(m), NEW r, rooms' = [rooms EXCEPT ![c] = r]
      PROVE  TextInv'
  <2>1. \A x \in ChannelIds : x # c => rooms'[x] = rooms[x]
    BY <1>6 DEF IInv, TypeOK
  <2> QED
    BY <1>6, <2>1, TextsTold DEF NewsMsg
<1>7. ASSUME NEW c \in ChannelIds, NEW d \in Blobs \cup {None}, AddRoom(c, d) \/ SetDescription(c, d)
      PROVE  TextInv'
  <2>1. \A m \in {ChannelMsg(c, d), TextMsg(c, d)} : m \in Message /\ m.type = "ChannelState" /\ m.channel = c
    BY RoomFieldsOf DEF BlobValues
  <2>2. \E m \in {ChannelMsg(c, d), TextMsg(c, d)} : Tell(m)
    BY <1>7 DEF AddRoom, SetDescription
  <2>3. \E r : rooms' = [rooms EXCEPT ![c] = r]
    BY <1>7 DEF AddRoom, SetDescription
  <2> QED
    BY <1>6, <2>1, <2>2, <2>3
<1>8. ASSUME NEW c \in ChannelIds, RemoveRoom(c) PROVE TextInv'
  <2>1. GoneMsg(c) \in Message /\ GoneMsg(c).type = "ChannelRemove" /\ GoneMsg(c).channel = c
    BY RoomFieldsOf
  <2>2. Tell(GoneMsg(c)) /\ \E r : rooms' = [rooms EXCEPT ![c] = r]
    BY <1>8 DEF RemoveRoom
  <2> QED
    BY <1>6, <2>1, <2>2
<1> QED
  BY <1>2, <1>3, <1>4, <1>5, <1>7, <1>8 DEF Server

LEMMA TextsAnswer == ASSUME IInv, JInv, TextInv, Answer PROVE TextInv'
<1>1. PICK r \in pending :
        /\ pending' = pending \ {r}
        /\ \/ /\ r[1] \in Kinds /\ r[2] \in SessionIds
              /\ \/ \E p \in People : Asker(p, r[2], r[1]) /\ inbox' = Append(inbox, BlobMsg(r[2], r[1], blob[p][r[1]]))
                 \/ inbox' = inbox
           \/ /\ r[1] = "description" /\ r[2] \in ChannelIds
              /\ \/ /\ rooms[r[2]].there /\ rooms[r[2]].description # None
                    /\ inbox' = Append(inbox, TextMsg(r[2], rooms[r[2]].description))
                 \/ ~(rooms[r[2]].there /\ rooms[r[2]].description # None) /\ inbox' = inbox
  BY AnswerIs
<1>2. UNCHANGED <<up, alive, roster, channels, ready, db, roomDb, rooms>>
  BY DEF Answer, server, roster
<1>3. \A c : Unshown(c)' = Unshown(c)
  BY <1>2 DEF Unshown
<1>4. \A c \in ChannelIds : Unshown(c) => rooms[c].there /\ rooms[c].description # None
  BY DEF Unshown, JInv, DataOK, Absent
<1>5. \A c : r # <<"description", c>> => (<<"description", c>> \in pending => <<"description", c>> \in pending')
  BY <1>1
<1>6. ASSUME inbox' = inbox, \A c \in ChannelIds : Unshown(c) => r # <<"description", c>> PROVE TextInv'
  BY <1>2, <1>3, <1>5, <1>6
     DEF TextInv, ListedOnce, NothingStored, LongAsked, TextAsked, AboutText, OnItsWay, IsAt
<1>7. ASSUME NEW m \in Message, NewsMsg(m), inbox' = Append(inbox, m),
             \A c \in ChannelIds : r = <<"description", c>> => m.type = "ChannelState" /\ m.channel = c
      PROVE  TextInv'
  BY <1>2, <1>3, <1>5, <1>7, TextsGrown
<1>8. CASE r[1] \in Kinds /\ r[2] \in SessionIds
  <2>1. \A c : r # <<"description", c>>
    BY <1>8 DEF Kinds
  <2>2. ASSUME NEW p \in People, Asker(p, r[2], r[1]), inbox' = Append(inbox, BlobMsg(r[2], r[1], blob[p][r[1]]))
        PROVE  TextInv'
    <3>1. blob[p][r[1]] \in BlobValues
      BY <1>8 DEF IInv, TypeOK
    <3>2. PICK m : m = BlobMsg(r[2], r[1], blob[p][r[1]])
      OBVIOUS
    <3>3. m \in UserMessage
      BY <1>8, <3>1, <3>2, UserMessages DEF IInv
    <3>4. m \in Message /\ NewsMsg(m)
      BY <3>3 DEF Message, UserMessage, NewsMsg
    <3> QED
      BY <1>7, <2>1, <2>2, <3>2, <3>4
  <2> QED
    BY <1>1, <1>6, <1>8, <2>1, <2>2 DEF Kinds
<1>9. CASE r[1] = "description" /\ r[2] \in ChannelIds
  <2>1. \A c : r = <<"description", c>> => r[2] = c
    OBVIOUS
  <2>2. CASE rooms[r[2]].there /\ rooms[r[2]].description # None
    <3>1. inbox' = Append(inbox, TextMsg(r[2], rooms[r[2]].description))
      BY <1>1, <1>9, <2>2 DEF Kinds
    <3>2. rooms[r[2]].description \in BlobValues
      BY <1>9 DEF IInv, TypeOK
    <3>3. PICK m : m = TextMsg(r[2], rooms[r[2]].description)
      OBVIOUS
    <3>4. m \in Message /\ m.type = "ChannelState" /\ m.channel = r[2]
      BY <1>9, <3>2, <3>3, OtherMessages, RoomFieldsOf
    <3> QED
      BY <1>7, <2>1, <3>1, <3>3, <3>4 DEF NewsMsg
  <2>3. CASE ~(rooms[r[2]].there /\ rooms[r[2]].description # None)
    <3>1. inbox' = inbox
      BY <1>1, <1>9, <2>3 DEF Kinds
    <3> QED
      BY <1>4, <1>6, <1>9, <2>1, <2>3, <3>1
  <2> QED
    BY <2>2, <2>3
<1> QED
  BY <1>1, <1>8, <1>9

(* The connection. *)
LEMMA TextsConnect == ASSUME IInv, IInv', TextInv, Connect PROVE TextInv'
<1>1. PICK z \in FreeIds, n \in Nat, on \in [People -> SessionIds \cup {None}] :
        NewBox(inbox', n, on) /\ inbox'[n] = SyncMsg(z)
  BY ConnectLists
<1>2. PICK box : box = inbox'
  OBVIOUS
<1>3. /\ n > 1 /\ DOMAIN box = 1..n /\ box[1].type = "Version"
      /\ \A c \in ChannelIds : \A i, j \in 2..(n - 1) : ListsRoom(box, i, c) /\ ListsRoom(box, j, c) => i = j
  <2>1. NewBox(box, n, on)
    BY <1>1, <1>2
  <2>2. /\ n > 1 /\ DOMAIN box = 1..n /\ box[1] = VersionMsg
        /\ \A c \in ChannelIds : \A i, j \in 2..(n - 1) : ListsRoom(box, i, c) /\ ListsRoom(box, j, c) => i = j
    BY <2>1, Zenon DEF NewBox
  <2> QED
    BY <2>2 DEF VersionMsg
<1>4. \A i \in 2..n : box[i].type = "ChannelState" => i \in 2..(n - 1) /\ \E c \in ChannelIds : ListsRoom(box, i, c)
  BY <1>1, <1>2, NewMessages
<1>5. \A i, c : ListsRoom(box, i, c) => box[i].channel = c
  BY RoomFieldsOf DEF ListsRoom
<1>6. \A i \in 1..n : i = 1 \/ i \in 2..n
  OBVIOUS
<1>7. ASSUME NEW i \in 1..n, NEW h \in 1..n, h < i, box[i].type = "ChannelState", box[h].type = "ChannelState"
      PROVE  box[h].channel # box[i].channel
  <2>1. i \in 2..(n - 1) /\ h \in 2..(n - 1)
    BY <1>3, <1>4, <1>6, <1>7
  <2>2. PICK c \in ChannelIds, d \in ChannelIds : ListsRoom(box, i, c) /\ ListsRoom(box, h, d)
    BY <1>4, <1>6, <1>7, <1>3
  <2> QED
    BY <1>3, <1>5, <1>7, <2>1, <2>2
<1>8. ASSUME NEW i \in 1..n, box[i].type = "ChannelState" PROVE 1 < i /\ 1 \in 1..n
  BY <1>3, <1>6, <1>8
<1>9. ListedOnce'
  BY <1>2, <1>3, <1>7, <1>8 DEF ListedOnce, IsAt
<1>10. LongAsked'
  <2>1. 1 \in DOMAIN inbox' /\ IsAt(1, "Version")'
    BY <1>2, <1>3 DEF IsAt
  <2> QED
    BY <2>1 DEF LongAsked
<1>11. NothingStored'
  BY DEF Connect, TextInv, NothingStored
<1> QED
  BY <1>9, <1>10, <1>11 DEF TextInv

LEMMA TextsDisconnect == ASSUME TextInv, Disconnect PROVE TextInv'
<1>1. inbox' = <<>> /\ ~alive' /\ UNCHANGED <<ready, roomDb>>
  BY DEF Disconnect
<1> QED
  BY <1>1 DEF TextInv, ListedOnce, NothingStored, LongAsked

(* The dispatcher. *)
LEMMA TextKept ==
    ASSUME IInv, NEW type, Take(type), pending \subseteq pending', NEW c, TextAsked(c), ~HeadAboutText(c)
    PROVE  TextAsked(c)'
<1>1. \A m \in OnItsWay : m = Head(inbox) \/ m \in OnItsWay'
  BY Handled
<1> QED
  BY <1>1 DEF TextAsked, AboutText, HeadAboutText

LEMMA TextsVersion == ASSUME IInv, TextInv, HandleVersion PROVE TextInv'
<1>1. Take("Version") /\ channels' = [c \in ChannelIds |-> None] /\ UNCHANGED <<ready, roomDb>>
  BY DEF HandleVersion
<1>2. ListedOnce'
  BY <1>1, ListedTaken
<1> QED
  BY <1>1, <1>2 DEF TextInv, NothingStored, LongAsked, Unshown

LEMMA TextsOfUsers == ASSUME IInv, JInv, TextInv, HandleUserState \/ HandleUserRemove PROVE TextInv'
<1>1. PICK type \in {"UserState", "UserRemove"} : Take(type)
  BY DEF HandleUserState, HandleUserRemove
<1>2. UNCHANGED <<channels, ready, roomDb>> /\ pending \subseteq pending'
  BY DEF HandleUserState, HandleUserRemove, CreateUser, UpdateUser, NewHash
<1>3. /\ Head(inbox).type = type /\ alive /\ UNCHANGED rooms
  BY <1>1, Handled
<1>4. ListedOnce' /\ (NoVersion' => NoVersion)
  BY <1>1, <1>2, ListedTaken, StillListing
<1>5. ASSUME NEW c \in ChannelIds, Unshown(c)', TextAsked(c) PROVE TextAsked(c)'
  BY <1>1, <1>2, <1>3, <1>5, TextKept DEF HeadAboutText
<1>6. \A c : Unshown(c)' => Unshown(c)
  BY <1>2, <1>3 DEF Unshown
<1> QED
  BY <1>2, <1>3, <1>4, <1>5, <1>6 DEF TextInv, NothingStored, LongAsked, NoVersion

LEMMA TextsChannelRemove == ASSUME IInv, JInv, TextInv, HandleChannelRemove PROVE TextInv'
<1> DEFINE e == Head(inbox).channel
<1>1. /\ Take("ChannelRemove") /\ channels' = [channels EXCEPT ![e] = None]
      /\ UNCHANGED <<pending, ready, roomDb, alive>>
  BY DEF HandleChannelRemove, SetChannel
<1>2. alive /\ UNCHANGED rooms
  BY <1>1, Handled
<1>3. \A x \in ChannelIds : channels'[x] = IF x = e THEN None ELSE channels[x]
  BY <1>1 DEF IInv, TypeOK
<1>4. ListedOnce' /\ (NoVersion' => NoVersion)
  BY <1>1, <1>3, ListedTaken, StillListing
<1>5. ASSUME NEW c \in ChannelIds, Unshown(c)' PROVE Unshown(c) /\ ~HeadAboutText(c)
  BY <1>2, <1>3, <1>5 DEF Unshown, HeadAboutText
<1>6. ASSUME NEW c \in ChannelIds, Unshown(c)', TextAsked(c) PROVE TextAsked(c)'
  BY <1>1, <1>5, <1>6, TextKept
<1> QED
  BY <1>1, <1>2, <1>4, <1>5, <1>6 DEF TextInv, NothingStored, LongAsked, NoVersion

LEMMA TextsServerSync == ASSUME IInv, JInv, TextInv, HandleServerSync PROVE TextInv'
<1>1. /\ Take("ServerSync") /\ ready' = TRUE /\ UNCHANGED <<channels, roomDb, alive>>
      /\ pending' = IF Greedy THEN pending \cup Missing ELSE pending
  BY DEF HandleServerSync
<1>2. Head(inbox).type = "ServerSync" /\ alive /\ UNCHANGED rooms
  BY <1>1, Handled
<1>3. ListedOnce' /\ (NoVersion' => NoVersion)
  BY <1>1, ListedTaken, StillListing
<1>4. ASSUME Greedy, NoVersion', NEW c \in ChannelIds, Unshown(c)' PROVE TextAsked(c)'
  <2>1. Unshown(c) /\ ~HeadAboutText(c)
    BY <1>1, <1>2, <1>4 DEF Unshown, HeadAboutText
  <2>2. CASE ready
    <3>1. TextAsked(c)
      BY <1>2, <1>3, <1>4, <2>1, <2>2 DEF TextInv, LongAsked, NoVersion
    <3> QED
      BY <1>1, <2>1, <3>1, TextKept
  <2>3. CASE ~ready
    <3>1. roomDb[c] \in {NoRow, Empty}
      BY <2>3 DEF TextInv, NothingStored
    <3>2. channels[c] # None /\ channels[c].hash # None /\ channels[c].hash \in HashValues
      BY <2>1 DEF Unshown, IInv, TypeOK, RoomType
    <3>3. ~TextCached(c, channels[c].hash)
      BY <3>1, <3>2, Marks DEF TextCached, NoRow, Empty, HashValues, Long
    <3>4. <<"description", c>> \in Missing
      BY <3>2, <3>3 DEF Missing, NeedsText
    <3> QED
      BY <1>1, <1>4, <3>4 DEF TextAsked
  <2> QED
    BY <2>2, <2>3
<1> QED
  BY <1>1, <1>3, <1>4 DEF TextInv, NothingStored, LongAsked, NoVersion

(* Before the first ServerSync a ChannelState is of a channel not seen before. *)
LEMMA FirstSeen ==
    ASSUME IInv, TextInv, Take("ChannelState"), ~ready
    PROVE  channels[Head(inbox).channel] = None
<1>1. /\ 1 \in DOMAIN inbox /\ IsAt(1, "ChannelState") /\ inbox[1] = Head(inbox) /\ up /\ alive
      /\ DOMAIN inbox \subseteq Nat
  BY Rest
<1>2. ~Synced
  BY DEF IInv, SyncedOK
<1>3. PICK i \in DOMAIN inbox : IsAt(i, "Version") \/ IsAt(i, "ServerSync")
  BY <1>1, <1>2 DEF Synced, OnItsWay, IsAt
<1>4. PICK j \in DOMAIN inbox : IsAt(j, "ServerSync")
  BY <1>3 DEF IInv, InOrder
<1>5. \A v \in DOMAIN inbox : v = 1 \/ 1 < v
  <2>1. inbox \in Seq(Message)
    BY DEF IInv, TypeOK
  <2> QED
    BY <2>1
<1>6. j # 1
  BY <1>1, <1>4 DEF IsAt
<1>7. 1 < j
  BY <1>4, <1>5, <1>6
<1>8. NewAt(1)
  BY <1>1, <1>4, <1>7 DEF TextInv, ListedOnce, NewAt
<1>9. \A v \in DOMAIN inbox : ~(v < 1)
  BY <1>1, <1>5
<1> QED
  BY <1>1, <1>8, <1>9 DEF NewAt

LEMMA TextsChannelState == ASSUME IInv, IInv', JInv, TextInv, HandleChannelState PROVE TextInv'
<1> DEFINE m == Head(inbox)
<1>1. /\ Take("ChannelState") /\ UNCHANGED <<ready, alive>>
      /\ IF channels[m.channel] = None THEN CreateChannel(m) ELSE UpdateChannel(m, channels[m.channel])
  BY Zenon DEF HandleChannelState
<1>2. /\ m \in Message /\ m.type = "ChannelState" /\ UNCHANGED rooms /\ alive
      /\ inbox \in Seq(Message) /\ inbox # <<>> /\ inbox' = Tail(inbox)
  BY <1>1, Handled
<1>3. m \in ChannelMessage
  BY <1>2 DEF Message, UserMessage, ChannelMessage, VersionMsg
<1>4. ~ready => channels[m.channel] = None
  BY <1>1, FirstSeen
<1> HIDE DEF m
<1>5. PICK c \in ChannelIds : c = m.channel
  BY <1>3 DEF ChannelMessage
<1>6. PICK y : channels' = [channels EXCEPT ![c] = y]
  BY <1>1, <1>5 DEF CreateChannel, UpdateChannel, SetChannel
<1>7. channels'[c] = y /\ \A x \in ChannelIds : x # c => channels'[x] = channels[x]
  BY <1>6 DEF IInv, TypeOK
<1>8. ListedOnce' /\ (NoVersion' => NoVersion)
  BY <1>1, <1>5, <1>7, ListedTaken, StillListing DEF m
<1>9. pending \subseteq pending'
  BY <1>1 DEF CreateChannel, UpdateChannel
<1>10. ASSUME channels[c] = None PROVE NothingStored' /\ (ready /\ Unshown(c)' => TextAsked(c)')
  <2>1. CreateChannel(m)
    BY <1>1, <1>5, <1>10
  <2>2. NothingStored'
    <3>1. CASE roomDb' = roomDb
      BY <1>1, <3>1 DEF TextInv, NothingStored
    <3>2. CASE roomDb' # roomDb
      <4>1. roomDb' = [roomDb EXCEPT ![c] = Empty]
        BY <1>5, <2>1, <3>2 DEF CreateChannel, StoreText, Empty
      <4>2. \A x \in ChannelIds : roomDb'[x] = IF x = c THEN Empty ELSE roomDb[x]
        BY <4>1 DEF IInv, TypeOK
      <4> QED
        BY <1>1, <4>2 DEF TextInv, NothingStored
    <3> QED
      BY <3>1, <3>2
  <2>3. ASSUME ready, Unshown(c)' PROVE TextAsked(c)'
    <3>1. PICK d : channels' = [channels EXCEPT ![c] = [hash |-> Given(m.hash), data |-> d]]
      BY <1>5, <2>1 DEF CreateChannel, SetChannel
    <3>2. channels'[c].hash = Given(m.hash)
      BY <3>1 DEF IInv, TypeOK
    <3>3. Given(m.hash) # None
      BY <2>3, <3>2 DEF Unshown
    <3> QED
      BY <1>5, <2>1, <2>3, <3>3 DEF CreateChannel, AskText, TextAsked
  <2> QED
    BY <2>2, <2>3
<1>11. ASSUME channels[c] # None PROVE NothingStored' /\ (Unshown(c)' /\ NoVersion' => TextAsked(c)')
  <2>1. PICK r : r = channels[c] /\ UpdateChannel(m, r)
    BY <1>1, <1>5, <1>11
  <2>2. NothingStored'
    BY <1>1, <1>4, <1>5, <1>11 DEF NothingStored
  <2>3. PICK a \in RoomFacts : AgreesRoom(a, r) /\ LeadsRoom(a, inbox, rooms[c], c)
    BY <1>2, <2>1 DEF JInv, Stories
  <2>4. FitsRoom(a, m, c) /\ LeadsRoom(AfterRoom(a, m, c), inbox', rooms[c], c)
    BY <1>2, <2>3, LeadsRoomTail DEF m
  <2>5. a.there /\ (a.description \notin Short => r.hash = a.description)
    BY <1>11, <2>1, <2>3 DEF AgreesRoom
  <2>6. \/ \E e \in Long : m = ChannelMsg(c, e)
        \/ \E e \in BlobValues : m = TextMsg(c, e) /\ (e \in Long => r.hash = e)
    BY <1>2, <1>5, <2>4, <2>5 DEF FitsRoom, Concerns, Long
  <2>7. ASSUME NEW e \in Long, m = ChannelMsg(c, e) PROVE TextAsked(c)'
    <3>1. m.hash = e /\ e # "unset" /\ e # None
      BY <2>7, RoomFieldsOf, Marks
    <3> QED
      BY <1>5, <2>1, <3>1 DEF UpdateChannel, AskText, TextAsked
  <2>8. ASSUME NEW e \in BlobValues, m = TextMsg(c, e), e \in Long => r.hash = e, Unshown(c)', NoVersion'
        PROVE  TextAsked(c)'
    <3>1. m.hash = "unset" /\ m.inline = e /\ e # "unset"
      BY <2>8, RoomFieldsOf, Marks DEF BlobValues
    <3>2. PICK h : h = IF e = None THEN None ELSE r.hash
      OBVIOUS
    <3>3. channels' = [channels EXCEPT ![c] = [hash |-> h, data |-> e]]
      BY <1>5, <2>1, <3>1, <3>2 DEF UpdateChannel, SetChannel
    <3>4. channels'[c].hash = h /\ channels'[c].data = e
      BY <3>3 DEF IInv, TypeOK
    <3>5. h # None /\ e # h /\ rooms[c].description = h
      BY <1>2, <2>8, <3>4 DEF Unshown
    <3>6. e \in Short
      BY <2>8, <3>2, <3>5 DEF BlobValues, Long
    <3>7. h \in Long
      <4>1. channels'[c] \in RoomType
        BY <2>8 DEF Unshown, IInv, TypeOK
      <4> QED
        BY <3>4, <3>5, <4>1 DEF RoomType, HashValues
    <3>8. AfterRoom(a, m, c).description = e
      BY <1>2, <1>5, <3>1 DEF AfterRoom, Concerns
    <3>9. rooms[c] # AfterRoom(a, m, c)
      BY <3>5, <3>6, <3>7, <3>8 DEF Long
    <3>10. inbox' \in Seq(Message)
      BY <1>2
    <3>11. PICK l \in 1..Len(inbox') : inbox'[l].type = "Version" \/ Concerns(inbox'[l], c)
      BY <2>4, <3>9, <3>10, LeadsRoomEnd
    <3>12. l \in DOMAIN inbox' /\ inbox'[l] \in OnItsWay'
      BY <3>10 DEF OnItsWay
    <3>13. inbox'[l].type # "Version"
      BY <2>8, <3>12 DEF NoVersion, IsAt
    <3> QED
      BY <3>11, <3>12, <3>13 DEF Concerns, TextAsked, AboutText
  <2> QED
    BY <2>2, <2>6, <2>7, <2>8
<1>12. ASSUME NEW x \in ChannelIds, x # c, Unshown(x)' PROVE Unshown(x) /\ ~HeadAboutText(x)
  BY <1>2, <1>5, <1>7, <1>12 DEF Unshown, HeadAboutText, m
<1>13. ASSUME NEW x \in ChannelIds, x # c, Unshown(x)', TextAsked(x) PROVE TextAsked(x)'
  BY <1>1, <1>9, <1>12, <1>13, TextKept
<1>14. LongAsked'
  <2> SUFFICES ASSUME ready, Greedy, NoVersion', NEW x \in ChannelIds, Unshown(x)' PROVE TextAsked(x)'
    BY <1>1 DEF LongAsked, NoVersion
  <2>1. CASE x = c
    BY <1>10, <1>11, <2>1
  <2>2. CASE x # c
    <3>1. TextAsked(x)
      BY <1>2, <1>8, <1>12, <2>2 DEF TextInv, LongAsked, NoVersion
    <3> QED
      BY <1>13, <2>2, <3>1
  <2> QED
    BY <2>1, <2>2
<1> QED
  BY <1>8, <1>10, <1>11, <1>14 DEF TextInv

LEMMA TextsHold == Spec => []TextInv
<1>1. Init => TextInv
  <2> SUFFICES ASSUME Init PROVE TextInv
    OBVIOUS
  <2>1. ListedOnce
    BY DEF Init, ListedOnce
  <2>2. NothingStored /\ LongAsked
    BY DEF Init, NothingStored, LongAsked
  <2> QED
    BY <2>1, <2>2 DEF TextInv
<1>2. IInv /\ IInv' /\ JInv /\ TextInv /\ [Next]_vars => TextInv'
  <2> SUFFICES ASSUME IInv, IInv', JInv, TextInv, [Next]_vars PROVE TextInv'
    OBVIOUS
  <2>1. CASE Connect
    BY <2>1, TextsConnect
  <2>2. CASE Disconnect
    BY <2>2, TextsDisconnect
  <2>3. CASE Server
    <3>1. CASE Answer
      BY <3>1, TextsAnswer
    <3>2. CASE ~Answer
      BY <2>3, <3>2, TextsChange
    <3> QED
      BY <3>1, <3>2
  <2>4. CASE Dispatch
    BY <2>4, TextsVersion, TextsOfUsers, TextsChannelState, TextsChannelRemove, TextsServerSync DEF Dispatch
  <2>5. CASE UNCHANGED vars
    <3>1. UNCHANGED <<rooms, inbox, pending, channels, ready, roomDb, alive>>
      BY <2>5 DEF vars, server, roster
    <3>2. /\ \A c : Unshown(c)' = Unshown(c) /\ TextAsked(c)' = TextAsked(c)
          /\ \A i, type : IsAt(i, type)' = IsAt(i, type)
      BY <3>1 DEF Unshown, TextAsked, AboutText, OnItsWay, IsAt
    <3> QED
      BY <3>1, <3>2 DEF TextInv, ListedOnce, NothingStored, LongAsked
  <2> QED
    BY <2>1, <2>2, <2>3, <2>4, <2>5 DEF Next
<1> QED
  BY <1>1, <1>2, Inductive, StoriesHold, PTL DEF Spec

(***************************************************************************)
(* What the roster promises.                                               *)
(***************************************************************************)
(* Every value of the roster has its type: what the handlers keep of users
   and channels, what BlobDB stores and what is on its way are always
   well-formed, whatever the order of messages, answers and connections. *)
THEOREM TypeCorrect == Spec => []TypeOK
<1>1. IInv => TypeOK
  BY DEF IInv
<1> QED
  BY <1>1, Inductive, PTL

(* users.myself is the user of this connection: whatever an earlier
   connection left, once ServerSync is handled it is the object in the map,
   and of the session the server has given us now. *)
THEOREM MyselfIsMapped == Spec => []MyselfInMap
<1>1. IInv => MyselfInMap
  BY DEF IInv, SyncedOK, MyselfInMap
<1> QED
  BY <1>1, Inductive, PTL

(* No creation or removal goes unreported: who followed the callbacks from
   on_connect on knows exactly the users in the map. *)
THEOREM CallbacksTell == Spec => []CallbacksComplete
<1>1. IInv => CallbacksComplete
  BY DEF IInv, SyncedOK, CallbacksComplete
<1> QED
  BY <1>1, Inductive, PTL

(* Once every message is handled, users and channels are those of the server,
   and who is where, after any number of connections; so is the hash of every
   comment, picture and description the server does not send as it is (a short
   text has none, and leaves the hash there was).  Where a story ends, what is
   known agrees with what is true. *)
THEOREM MapsCorrect == Spec => []MapsAreServers
<1>1. IInv /\ JInv => MapsAreServers
  <2> SUFFICES ASSUME IInv, JInv, Synced, inbox = <<>>
               PROVE  /\ \A s \in SessionIds : users[s] = None <=> \A p \in People : online[p] # s
                      /\ \A p \in People : online[p] # None =>
                           /\ users[online[p]].person = p /\ users[online[p]].channel = place[p]
                           /\ \A k \in Kinds : blob[p][k] \notin Short => users[online[p]].hash[k] = blob[p][k]
                      /\ \A c \in ChannelIds : channels[c] = None <=> ~rooms[c].there
                      /\ \A c \in ChannelIds : rooms[c].there /\ rooms[c].description \notin Short
                                                 => channels[c].hash = rooms[c].description
    BY DEF MapsAreServers
  <2>1. TypeOK /\ Distinct /\ DataOK /\ Stories /\ alive /\ inbox \in Seq(Message)
    BY DEF IInv, JInv, Synced, TypeOK
  <2>2. ASSUME NEW s \in SessionIds PROVE Agrees(Truth(s), users[s])
    <3>1. PICK a \in Facts : Agrees(a, users[s]) /\ Leads(a, inbox, Truth(s), s)
      BY <2>1 DEF Stories
    <3>2. a = Truth(s)
      BY <2>1, <3>1, LeadsEnd
    <3> QED
      BY <3>1, <3>2
  <2>3. ASSUME NEW c \in ChannelIds PROVE AgreesRoom(rooms[c], channels[c])
    <3>1. PICK a \in RoomFacts : AgreesRoom(a, channels[c]) /\ LeadsRoom(a, inbox, rooms[c], c)
      BY <2>1 DEF Stories
    <3>2. a = rooms[c]
      BY <2>1, <3>1, LeadsRoomEnd
    <3> QED
      BY <3>1, <3>2
  <2>4. ASSUME NEW s \in SessionIds PROVE users[s] = None <=> \A p \in People : online[p] # s
    <3>1. Truth(s).there <=> users[s] # None
      BY <2>2 DEF Agrees, Nobody
    <3>2. Truth(s).there <=> \E p \in People : online[p] = s
      BY <2>1, TruthIs
    <3> QED
      BY <3>1, <3>2
  <2>5. ASSUME NEW p \in People, online[p] # None
        PROVE  /\ users[online[p]].person = p /\ users[online[p]].channel = place[p]
               /\ \A k \in Kinds : blob[p][k] \notin Short => users[online[p]].hash[k] = blob[p][k]
    <3>1. PICK s \in SessionIds : s = online[p]
      BY <2>1, <2>5 DEF TypeOK
    <3>2. users[s] # None
      BY <2>4, <3>1
    <3>3. PICK x : x = Truth(s) /\ Agrees(x, users[s])
      BY <2>2
    <3>4. x = Fact(p, place[p], blob[p])
      BY <2>1, <3>1, <3>3, TruthIs
    <3>5. x.person = p /\ x.channel = place[p] /\ x.blob = blob[p]
      BY <3>4 DEF Fact
    <3> QED
      BY <3>1, <3>2, <3>3, <3>5 DEF Agrees
  <2>6. ASSUME NEW c \in ChannelIds
        PROVE  /\ channels[c] = None <=> ~rooms[c].there
               /\ rooms[c].there /\ rooms[c].description \notin Short => channels[c].hash = rooms[c].description
    <3>1. ~Absent.there
      BY DEF Absent
    <3> QED
      BY <2>3, <3>1 DEF AgreesRoom
  <2> QED
    BY <2>4, <2>5, <2>6
<1> QED
  BY <1>1, Inductive, StoriesHold, PTL

(* With greedy updates, what a user lacks of the Claimed blobs, and what a
   channel shows that is not the server's long text, has a request or an answer
   on its way: ServerSync asks for what was missing, and whatever comes to lack
   something afterwards asks for it in the same step, or is told of a later change. *)
THEOREM BlobsAreRequested == Spec => []NothingForgotten
<1>1. IInv /\ JInv /\ TextInv => NothingForgotten
  <2> SUFFICES ASSUME IInv, JInv, TextInv, Synced, Greedy
               PROVE  /\ \A s \in InMap, k \in Kinds :
                           Claimed(users[s].person, k) /\ users[s].hash[k] # None /\ users[s].data[k] = None
                             => <<k, s>> \in pending \/ About(s, k)
                      /\ \A c \in ChannelIds :
                           channels[c] # None /\ rooms[c].there /\ rooms[c].description \notin Short =>
                             \/ channels[c].data = rooms[c].description
                             \/ <<"description", c>> \in pending \/ AboutText(c)
    BY DEF NothingForgotten
  <2>1. \A s \in SessionIds, k \in Kinds : Lacks(s, k) => <<k, s>> \in pending \/ About(s, k)
    BY DEF JInv, MissingAsked
  <2>2. ASSUME NEW s \in InMap, NEW k \in Kinds, Claimed(users[s].person, k),
               users[s].hash[k] # None, users[s].data[k] = None
        PROVE  <<k, s>> \in pending \/ About(s, k)
    BY <2>1, <2>2 DEF Lacks, InMap
  <2>3. alive /\ ready /\ \A v \in DOMAIN inbox : ~IsAt(v, "Version")
    BY DEF IInv, SyncedOK, Synced, OnItsWay, IsAt
  <2>4. ASSUME NEW c \in ChannelIds, channels[c] # None, rooms[c].there, rooms[c].description \notin Short,
               ~TextAsked(c)
        PROVE  channels[c].data = rooms[c].description
    <3>1. AgreesRoom(rooms[c], channels[c])
      BY <2>3, <2>4, RoomKnown DEF TextAsked
    <3>2. /\ channels[c].hash = rooms[c].description
          /\ rooms[c].description = None => channels[c].data = None
      BY <2>4, <3>1 DEF AgreesRoom
    <3>3. ~Unshown(c)
      BY <2>3, <2>4 DEF TextInv, LongAsked
    <3> QED
      BY <2>4, <3>2, <3>3 DEF Unshown
  <2> QED
    BY <2>2, <2>4 DEF TextAsked
<1> QED
  BY <1>1, Inductive, StoriesHold, TextsHold, PTL

(* What BlobDB keeps under the hash of a blob is that blob, or a short text that
   came after it and was stored under its hash: never another long one. *)
THEOREM CacheIsTrue == Spec => []CacheTrue
<1>1. JInv => CacheTrue
  <2> SUFFICES ASSUME DataOK PROVE CacheTrue
    BY DEF JInv
  <2>1. NoRow.hash \notin Blobs /\ Empty.hash \notin Blobs
    BY Marks DEF NoRow, Empty
  <2>2. \A p \in People, k \in Kinds :
          db[p][k].hash \in Blobs => db[p][k].data = db[p][k].hash \/ db[p][k].data \in Short
    BY <2>1 DEF DataOK, TrueRow
  <2>3. \A c \in ChannelIds :
          roomDb[c].hash \in Blobs => roomDb[c].data = roomDb[c].hash \/ roomDb[c].data \in Short
    BY <2>1 DEF DataOK, TrueRow
  <2> QED
    BY <2>2, <2>3 DEF CacheTrue
<1> QED
  BY <1>1, StoriesHold, PTL
=============================================================================
