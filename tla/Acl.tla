-------------------------------- MODULE Acl ---------------------------------
(***************************************************************************)
(* The access control lists of one channel: acl.py.  The server answers a  *)
(* request with all its groups and entries, and Control:Listen merges them *)
(* into the ACL object of the channel; between two answers anything may    *)
(* have changed at the server.  Of a group the model has the flag inherit  *)
(* and the list add, which stand for the three flags and the three lists   *)
(* treated alike; of an entry it has the name of its group.                *)
(***************************************************************************)
CONSTANTS Names,    \* what groups are called
          Members,  \* who may be in a list
          Absent, Entry

Group == [inherit : BOOLEAN, add : SUBSET Members]

ASSUME AclAssumption == Absent \notin Group /\ Entry \notin Group \cup {Absent}

VARIABLES
    groups,      \* self.groups
    aclLock,     \* self._lock
    aclReader,   \* does Control:Listen run
    sent,        \* history: each group as it was last sent to this object
    entered      \* history: names of the entries it has taken

aclVars == <<groups, aclLock, aclReader, sent, entered>>

Message  == [groups : [Names -> Group \cup {Absent}], entries : SUBSET Names]
NoGroups == [n \in Names |-> Absent]

AclInit == /\ groups = NoGroups /\ aclLock = FALSE /\ aclReader = TRUE
           /\ sent = NoGroups /\ entered = {}

\* Mutant of Merged: a list is added to the one that is there.
MergedAppending(old, new) ==
    IF old = Absent THEN new ELSE [inherit |-> new.inherit, add |-> old.add \cup new.add]

\* ChannelGroup(new), or update(new) of the group that is there: an empty list changes nothing.
Merged(old, new) ==
    IF old = Absent THEN new
    ELSE [inherit |-> new.inherit, add |-> IF new.add = {} THEN old.add ELSE new.add]

Told(m) == {n \in Names : m.groups[n] # Absent}
\* An entry was stored where the group is looked up: its update() has other fields and raises.
Confused(m) == {n \in Told(m) : groups[n] = Entry}
Kept(m, done) == [n \in Names |-> IF n \in done THEN Merged(groups[n], m.groups[n]) ELSE groups[n]]

\* self.acls is never written, so its lookup fails, and the entry goes to the groups.
Stored(m, g) == [n \in Names |-> IF n \in m.entries THEN Entry ELSE g[n]]

\* Mutant of Update: the entries are taken before the groups.
UpdateEntriesFirst(m) ==
    /\ aclReader /\ ~aclLock
    /\ sent' = [n \in Names |-> IF n \in Told(m) THEN m.groups[n] ELSE sent[n]]
    /\ IF Told(m) \cap (m.entries \cup Confused(m)) = {}
       THEN /\ groups' = Stored(m, Kept(m, Told(m))) /\ entered' = entered \cup m.entries
            /\ UNCHANGED <<aclLock, aclReader>>
       ELSE /\ groups' = Stored(m, groups)
            /\ aclLock' = TRUE /\ aclReader' = FALSE /\ UNCHANGED entered

\* update(); the groups of a message come in any order.
Update(m) ==
    /\ aclReader /\ ~aclLock
    /\ sent' = [n \in Names |-> IF n \in Told(m) THEN m.groups[n] ELSE sent[n]]
    /\ IF Confused(m) = {}
       THEN /\ groups' = Stored(m, Kept(m, Told(m))) /\ entered' = entered \cup m.entries
            /\ UNCHANGED <<aclLock, aclReader>>
       ELSE /\ \E done \in SUBSET (Told(m) \ Confused(m)) : groups' = Kept(m, done)
            /\ aclLock' = TRUE /\ aclReader' = FALSE /\ UNCHANGED entered

\* Version clears self.channels; the channel that follows has a new ACL, read by a new thread.
NewChannel == /\ groups' = NoGroups /\ aclLock' = FALSE /\ aclReader' = TRUE
              /\ sent' = NoGroups /\ entered' = {}

AclNext == (\E m \in Message : Update(m)) \/ NewChannel

AclSpec == AclInit /\ [][AclNext]_aclVars

(***************************************************************************)
(* What the lists are worth to the application.                            *)
(***************************************************************************)
(* acl.py:76-90: while the reading thread runs, a group under whose name no
   entry has come is the one the server last sent, over any number of
   messages, up to a list that was emptied, which keeps its old members. *)
GroupsAsSent ==
    aclReader => \A n \in Names \ entered :
        IF sent[n] = Absent THEN groups[n] = Absent
        ELSE /\ groups[n].inherit = sent[n].inherit
             /\ sent[n].add # {} => groups[n].add = sent[n].add

(* An ACL message ends the thread that reads it, with the lock held, only when
   one of its groups has the name an entry of an earlier message had. *)
EndsByNameOnly ==
    /\ aclLock = ~aclReader
    /\ ~aclReader => \E n \in entered : sent[n] # Absent /\ groups[n] = Entry
=============================================================================
