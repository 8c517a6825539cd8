------------------------------ MODULE AclProofs ------------------------------
(***************************************************************************)
(* Both properties of Acl for any set of names and members.  They need the *)
(* fact that joins the two halves of the object: what is stored where      *)
(* groups are looked up is an entry exactly for the names entries had.     *)
(***************************************************************************)
EXTENDS Acl, TLAPS

Types ==
    /\ groups \in [Names -> Group \cup {Absent, Entry}]
    /\ sent \in [Names -> Group \cup {Absent}]
    /\ entered \subseteq Names /\ aclLock \in BOOLEAN /\ aclReader \in BOOLEAN

EntriesStored == \A n \in Names : groups[n] = Entry <=> n \in entered

IInv == Types /\ EntriesStored /\ GroupsAsSent /\ EndsByNameOnly

(* An ACL object starts with nothing in it: acl.py:67-74. *)
LEMMA InitIInv == AclInit => IInv
BY AclAssumption DEF AclInit, IInv, Types, EntriesStored, GroupsAsSent, EndsByNameOnly, NoGroups

(* The channel of a new session starts with nothing as well. *)
LEMMA NewChannelIInv == NewChannel => IInv'
BY AclAssumption DEF NewChannel, IInv, Types, EntriesStored, GroupsAsSent, EndsByNameOnly, NoGroups

(* What a merge leaves is a group, with the flag of the message and, unless
   that is empty, its list. *)
LEMMA MergedIs ==
    ASSUME NEW old \in Group \cup {Absent}, NEW new \in Group
    PROVE  /\ Merged(old, new) \in Group
           /\ Merged(old, new).inherit = new.inherit
           /\ new.add # {} => Merged(old, new).add = new.add
BY DEF Merged, Group

(* A message all of whose groups are looked up as groups: acl.py:78-90. *)
LEMMA TakenIInv ==
    ASSUME IInv, NEW m \in Message, Update(m), Confused(m) = {}
    PROVE  IInv'
<1> DEFINE kept == Kept(m, Told(m))
<1>1. /\ groups' = Stored(m, kept) /\ entered' = entered \cup m.entries
      /\ sent' = [n \in Names |-> IF n \in Told(m) THEN m.groups[n] ELSE sent[n]]
      /\ aclReader /\ ~aclLock /\ aclLock' = aclLock /\ aclReader' = aclReader
  BY DEF Update
<1>2. m.entries \subseteq Names /\ m.groups \in [Names -> Group \cup {Absent}]
  BY DEF Message
<1>3. \A n \in Names : n \in Told(m) => m.groups[n] \in Group /\ groups[n] \in Group \cup {Absent}
  BY <1>2 DEF IInv, Types, Told, Confused
<1>4. \A n \in Names : kept[n] = IF n \in Told(m) THEN Merged(groups[n], m.groups[n]) ELSE groups[n]
  BY DEF Kept
<1>5. \A n \in Names : /\ groups'[n] = IF n \in m.entries THEN Entry ELSE kept[n]
                       /\ sent'[n] = IF n \in Told(m) THEN m.groups[n] ELSE sent[n]
  BY <1>1 DEF Stored
<1>6. \A n \in Names : n \in Told(m) => /\ kept[n] \in Group
                                        /\ kept[n].inherit = m.groups[n].inherit
                                        /\ m.groups[n].add # {} => kept[n].add = m.groups[n].add
  BY <1>3, <1>4, MergedIs
<1>7. \A n \in Names : kept[n] \in Group \cup {Absent, Entry}
  BY <1>4, <1>6 DEF IInv, Types
<1> HIDE DEF kept
<1>8. Types'
  <2>1. groups' \in [Names -> Group \cup {Absent, Entry}]
    BY <1>1, <1>7 DEF Stored
  <2>2. sent' \in [Names -> Group \cup {Absent}]
    BY <1>1, <1>3 DEF IInv, Types
  <2> QED BY <1>1, <1>2, <2>1, <2>2 DEF IInv, Types
<1>9. EntriesStored'
  <2> SUFFICES ASSUME NEW n \in Names PROVE groups'[n] = Entry <=> n \in entered'
    BY DEF EntriesStored
  <2>1. CASE n \in m.entries
    BY <2>1, <1>1, <1>5
  <2>2. CASE n \notin m.entries /\ n \in Told(m)
    <3>1. groups'[n] # Entry
      BY <2>2, <1>5, <1>6, AclAssumption
    <3>2. groups[n] # Entry
      BY <2>2, <1>3, AclAssumption
    <3> QED BY <2>2, <3>1, <3>2, <1>1 DEF IInv, EntriesStored
  <2>3. CASE n \notin m.entries /\ n \notin Told(m)
    BY <2>3, <1>1, <1>4, <1>5 DEF IInv, EntriesStored
  <2> QED BY <2>1, <2>2, <2>3
<1>10. GroupsAsSent'
  <2> SUFFICES ASSUME NEW n \in Names, n \notin entered'
               PROVE  (IF sent[n] = Absent THEN groups[n] = Absent
                       ELSE /\ groups[n].inherit = sent[n].inherit
                            /\ sent[n].add # {} => groups[n].add = sent[n].add)'
    BY DEF GroupsAsSent
  <2>1. n \notin m.entries /\ n \notin entered /\ groups'[n] = kept[n]
    BY <1>1, <1>5
  <2>2. CASE n \in Told(m)
    <3>1. sent'[n] = m.groups[n] /\ sent'[n] # Absent
      BY <2>2, <1>3, <1>5, AclAssumption
    <3> QED BY <3>1, <2>1, <2>2, <1>6
  <2>3. CASE n \notin Told(m)
    BY <2>1, <2>3, <1>1, <1>4, <1>5 DEF IInv, GroupsAsSent
  <2> QED BY <2>2, <2>3
<1>11. EndsByNameOnly'
  BY <1>1 DEF IInv, EndsByNameOnly
<1> QED BY <1>8, <1>9, <1>10, <1>11 DEF IInv

(* A message with a group that is looked up as an entry: the exception of
   acl.py:81, which leaves the lock of acl.py:77 held. *)
LEMMA RaisedIInv ==
    ASSUME IInv, NEW m \in Message, Update(m), Confused(m) # {}
    PROVE  IInv'
<1>1. /\ sent' = [n \in Names |-> IF n \in Told(m) THEN m.groups[n] ELSE sent[n]]
      /\ aclLock' = TRUE /\ aclReader' = FALSE /\ entered' = entered
  BY DEF Update
<1>2. PICK done \in SUBSET (Told(m) \ Confused(m)) : groups' = Kept(m, done)
  BY DEF Update
<1>3. m.groups \in [Names -> Group \cup {Absent}]
  BY DEF Message
<1>4. \A n \in Told(m) : n \in Names /\ m.groups[n] \in Group
  BY <1>3 DEF Told
<1>5. \A n \in done : /\ n \in Told(m) /\ n \in Names /\ groups[n] # Entry
                      /\ groups[n] \in Group \cup {Absent}
  BY <1>4 DEF IInv, Types, Confused
<1>6. \A n \in done : Merged(groups[n], m.groups[n]) \in Group
  BY <1>4, <1>5, MergedIs
<1>7. \A n \in Names : groups'[n] = IF n \in done THEN Merged(groups[n], m.groups[n]) ELSE groups[n]
  BY <1>2 DEF Kept
<1>8. Types'
  <2>1. groups' \in [Names -> Group \cup {Absent, Entry}]
    BY <1>2, <1>6 DEF IInv, Types, Kept
  <2>2. sent' \in [Names -> Group \cup {Absent}]
    BY <1>1, <1>4 DEF IInv, Types
  <2> QED BY <1>1, <2>1, <2>2 DEF IInv, Types
<1>9. EntriesStored'
  BY <1>1, <1>5, <1>6, <1>7, AclAssumption DEF EntriesStored, IInv
<1>10. EndsByNameOnly'
  <2>1. PICK n \in Confused(m) : TRUE
    OBVIOUS
  <2>2. n \in Names /\ n \in Told(m) /\ groups[n] = Entry /\ n \notin done
    BY <1>4, <1>5 DEF Confused
  <2>3. n \in entered' /\ groups'[n] = Entry
    BY <2>2, <1>1, <1>7 DEF IInv, EntriesStored
  <2>4. sent'[n] # Absent
    BY <2>2, <1>1, <1>4, AclAssumption
  <2> QED BY <2>3, <2>4, <1>1 DEF EndsByNameOnly
<1> QED BY <1>1, <1>8, <1>9, <1>10 DEF IInv, GroupsAsSent

LEMMA NextIInv == IInv /\ [AclNext]_aclVars => IInv'
<1> SUFFICES ASSUME IInv, [AclNext]_aclVars PROVE IInv'
  OBVIOUS
<1>1. ASSUME NEW m \in Message, Update(m) PROVE IInv'
  BY <1>1, TakenIInv, RaisedIInv
<1>2. CASE NewChannel
  BY <1>2, NewChannelIInv
<1>3. CASE UNCHANGED aclVars
  BY <1>3 DEF aclVars, IInv, Types, EntriesStored, GroupsAsSent, EndsByNameOnly
<1> QED BY <1>1, <1>2, <1>3 DEF AclNext

(* acl.py:76-90, for every number of messages and any names: the four parts of
   the invariant. *)
THEOREM Invariant == AclSpec => []IInv
<1>1. AclInit => IInv BY InitIInv
<1>2. IInv /\ [AclNext]_aclVars => IInv' BY NextIInv
<1> QED BY <1>1, <1>2, PTL DEF AclSpec

(* The groups the application reads are those the server last sent. *)
THEOREM GroupsTrue == AclSpec => []GroupsAsSent
<1>1. IInv => GroupsAsSent BY DEF IInv
<1> QED BY <1>1, Invariant, PTL

(* The reading thread is not ended by anything but a name used twice. *)
THEOREM EndsOnlyByName == AclSpec => []EndsByNameOnly
<1>1. IInv => EndsByNameOnly BY DEF IInv
<1> QED BY <1>1, Invariant, PTL
=============================================================================
