------------------------ MODULE HostDirectory_proofs ------------------------
(***************************************************************************)
(* Theorems about HostDirectory, for any users, Swarms, invitations,       *)
(* Bridges and number of requests in flight.  The foreign keys' part is    *)
(* inductive as it stands; that an invitation is not overused needs the    *)
(* redemptions that have counted a use and not yet made a member.          *)
(***************************************************************************)
EXTENDS HostDirectory, FiniteSetTheorems, TLAPS

Codes == [swarm : Swarms \cup {None}, used : Nat, valid : BOOLEAN]
Rows == [in : BOOLEAN, via : Invitations \cup {None},
         name : {"none", "published", "chosen"}, byHost : BOOLEAN]
Redeeming == {"counted", "ensured", "joined"}
OfBridge == {"allowed", "stored", "removing", "removed"}
Deleting == {"found", "unlisted", "emptied", "expelled", "uninvited"}
Places == {"idle", "vacant", "counted", "ensured", "joined", "allowed", "stored",
           "removing", "removed", "cleared", "found", "unlisted", "emptied",
           "expelled", "uninvited"}
Requests ==
  [at : Places,
   user : Users \cup {None}, swarm : Swarms \cup {None},
   bridge : Bridges \cup {None}, invite : Invitations \cup {None},
   stored : SUBSET Inventories, rows : SUBSET Bridges, codes : SUBSET Invitations]

TypeOK ==
  /\ accounts \subseteq Users /\ swarm \in [Swarms -> Users \cup {None}]
  /\ invite \in [Invitations -> Codes] /\ bridges \subseteq Bridges
  /\ member \in [Swarms -> [Bridges -> Rows]]
  /\ family \in [Bridges -> {"none", "live", "revoked"}]
  /\ catalogue \subseteq Swarms /\ inventory \in [Swarms -> SUBSET Inventories]
  /\ call \in [Calls -> Requests]
  /\ faults \in Nat /\ minted \subseteq Swarms \cup Invitations
  /\ enrolled \in [Invitations -> Nat]

\* A request names what its statements are about.
CallsFit ==
  \A c \in Calls :
    /\ call[c].at = "vacant" => call[c].user \in Users
    /\ call[c].at \in Redeeming \cup OfBridge =>
         call[c].swarm \in Swarms /\ call[c].bridge \in Bridges
    /\ call[c].at \in Redeeming \cup {"cleared"} => call[c].invite \in Invitations
    /\ call[c].at \in Deleting \cup {"cleared"} => call[c].swarm \in Swarms
    /\ call[c].at \in {"ensured", "joined"} => call[c].bridge \in bridges

\* Ids are minted once: nothing is known of one before.
MintedOnce ==
  \A i \in Invitations : i \notin minted =>
    /\ invite[i].swarm = None /\ enrolled[i] = 0
    /\ \A c \in Calls : call[c].at \in Redeeming => call[c].invite # i

\* The redemptions that have counted a use of i and made no member yet.
Counted(i) ==
  {c \in Calls : call[c].at \in {"counted", "ensured"} /\ call[c].invite = i}

\* Each use counted is a member, a redemption on its way, or lost.
UsesCover ==
  \A i \in Invitations :
    /\ IsFiniteSet(Counted(i)) /\ enrolled[i] <= MaxUses
    /\ invite[i].swarm # None =>
         /\ invite[i].used <= MaxUses
         /\ enrolled[i] + Cardinality(Counted(i)) <= invite[i].used

IInv ==
  /\ TypeOK /\ CallsFit /\ MintedOnce /\ UsesCover
  /\ MembersCanConnect /\ ReferencesHold /\ OwnerNameHolds
-----------------------------------------------------------------------------
\* The SMT encoding does not know the members of BOOLEAN by itself.
LEMMA Booleans == TRUE \in BOOLEAN /\ FALSE \in BOOLEAN
  OBVIOUS

\* What the three ways to write a request leave.
LEMMA OneCall ==
  ASSUME TypeOK, NEW c \in Calls, NEW r \in Requests,
         call' = [call EXCEPT ![c] = r]
  PROVE  /\ call' \in [Calls -> Requests]
         /\ \A d \in Calls : call'[d] = IF d = c THEN r ELSE call[d]
  BY DEF TypeOK

LEMMA Blank == NoCall \in Requests /\ NoCall.at = "idle" /\ NoCall.rows = {}
               /\ NoCall.stored = {}
               /\ NoCall.codes = {}
               /\ NoCall.swarm = None
  BY NoneIsApart DEF NoCall, Requests, Places

LEMMA Starts ==
  ASSUME TypeOK, NEW c \in Calls, NEW r \in Requests, Start(c, r)
  PROVE  /\ call' \in [Calls -> Requests] /\ call[c] = NoCall
         /\ call'[c] = r /\ \A d \in Calls : d # c => call'[d] = call[d]
  BY OneCall DEF Start

\* What a step does to the requests: c is a new one, goes on, locks rows or
\* ends; the others are as they were.
Others(c) == /\ call' \in [Calls -> Requests]
             /\ \A d \in Calls : d # c => call'[d] = call[d]
Asks(c, at, user, swarm_, bridge, code, rows) ==
  /\ Others(c) /\ call[c].at = "idle"
  /\ call'[c].at = at /\ call'[c].user = user /\ call'[c].swarm = swarm_
  /\ call'[c].bridge = bridge /\ call'[c].invite = code
  /\ call'[c].rows = rows /\ call'[c].codes = {}
Moves(c, at) ==
  /\ Others(c) /\ call'[c].at = at /\ call'[c].user = call[c].user
  /\ call'[c].swarm = call[c].swarm /\ call'[c].bridge = call[c].bridge
  /\ call'[c].invite = call[c].invite /\ call'[c].stored = call[c].stored
  /\ call'[c].rows = call[c].rows /\ call'[c].codes = call[c].codes
Locks(c, at, stored, rows, codes) ==
  /\ Others(c) /\ call'[c].at = at /\ call'[c].swarm = call[c].swarm
  /\ call'[c].bridge = call[c].bridge
  /\ call'[c].stored = stored /\ call'[c].rows = rows /\ call'[c].codes = codes
Ends(c) ==
  /\ Others(c) /\ call'[c].at = "idle"
  /\ call'[c].rows = {} /\ call'[c].stored = {} /\ call'[c].codes = {}

LEMMA Returns == ASSUME TypeOK, NEW c \in Calls, Return(c) PROVE Ends(c)
  BY OneCall, Blank DEF Return, Ends, Others

LEMMA GoesOn ==
  ASSUME TypeOK, NEW c \in Calls, NEW p \in Places, Goto(c, p)
  PROVE  Moves(c, p)
  <1>1. call[c] \in Requests
    BY DEF TypeOK
  <1>2. [call[c] EXCEPT !.at = p] \in Requests
    BY <1>1 DEF Requests
  <1>3. call' = [call EXCEPT ![c] = [call[c] EXCEPT !.at = p]]
    BY DEF Goto, TypeOK
  <1> QED
    BY <1>1, <1>2, <1>3, OneCall DEF Requests, Moves, Others

LEMMA OneMember ==
  ASSUME TypeOK, NEW s \in Swarms, NEW b \in Bridges, NEW r \in Rows,
         Put(s, b, r)
  PROVE  /\ member' \in [Swarms -> [Bridges -> Rows]]
         /\ \A t \in Swarms, d \in Bridges :
              member'[t][d] = IF t = s /\ d = b THEN r ELSE member[t][d]
  BY DEF TypeOK, Put

LEMMA PublishedRow ==
  ASSUME NEW r \in Rows
  PROVE  LET q == [r EXCEPT !.name = "published"] IN
         q \in Rows /\ q.in = r.in /\ q.via = r.via /\ q.name = "published" /\ q.byHost = r.byHost
  BY DEF Rows

\* What each new request is about, and that it holds no lock.
LEMMA StartBootstrapAsks ==
  ASSUME TypeOK, NEW c \in Calls, NEW u \in Users, StartBootstrap(c, u)
  PROVE  Asks(c, "vacant", u, None, None, None, {})
  <1> DEFINE r == [NoCall EXCEPT !.at = "vacant", !.user = u]
  <1>2. Start(c, r)
    BY DEF StartBootstrap
  <1>3. r \in Requests /\ r.at = "vacant" /\ r.user = u /\ r.swarm = None
        /\ r.bridge = None /\ r.invite = None
        /\ r.rows = {} /\ r.stored = {} /\ r.codes = {}
    BY NoneIsApart DEF NoCall, Requests, Places
  <1> HIDE DEF r
  <1>4. call[c] = NoCall /\ call'[c] = r /\ Others(c)
    BY <1>2, <1>3, OneCall DEF Start, Others
  <1> QED
    BY <1>3, <1>4, Blank DEF Asks

LEMMA CountAsks ==
  ASSUME TypeOK, NEW c \in Calls, NEW i \in Invitations, NEW b \in Bridges,
         Count(c, i, b)
  PROVE  Asks(c, "counted", None, invite[i].swarm, b, i, {})
  <1> DEFINE r == [NoCall EXCEPT !.at = "counted", !.swarm = invite[i].swarm,
                            !.invite = i, !.bridge = b]
  <1>1. invite[i].swarm \in Swarms
    BY DEF TypeOK, Codes, Count
  <1>2. Start(c, r)
    BY DEF Count
  <1>3. r \in Requests /\ r.at = "counted" /\ r.user = None /\ r.swarm = invite[i].swarm
        /\ r.bridge = b /\ r.invite = i
        /\ r.rows = {} /\ r.stored = {} /\ r.codes = {}
    BY <1>1, NoneIsApart DEF NoCall, Requests, Places
  <1> HIDE DEF r
  <1>4. call[c] = NoCall /\ call'[c] = r /\ Others(c)
    BY <1>2, <1>3, OneCall DEF Start, Others
  <1> QED
    BY <1>3, <1>4, Blank DEF Asks

LEMMA StartDeleteSwarmAsks ==
  ASSUME TypeOK, NEW c \in Calls, NEW s \in Swarms, StartDeleteSwarm(c, s)
  PROVE  Asks(c, "found", None, s, None, None, {})
  <1> DEFINE r == [NoCall EXCEPT !.at = "found", !.swarm = s]
  <1>2. Start(c, r)
    BY DEF StartDeleteSwarm
  <1>3. r \in Requests /\ r.at = "found" /\ r.user = None /\ r.swarm = s
        /\ r.bridge = None /\ r.invite = None
        /\ r.rows = {} /\ r.stored = {} /\ r.codes = {}
    BY NoneIsApart DEF NoCall, Requests, Places
  <1> HIDE DEF r
  <1>4. call[c] = NoCall /\ call'[c] = r /\ Others(c)
    BY <1>2, <1>3, OneCall DEF Start, Others
  <1> QED
    BY <1>3, <1>4, Blank DEF Asks

LEMMA StartPublishAsks ==
  ASSUME TypeOK, NEW c \in Calls, NEW s \in Swarms, NEW b \in Bridges,
         StartPublish(c, s, b)
  PROVE  Asks(c, "allowed", None, s, b, None, {})
  <1> DEFINE r == [NoCall EXCEPT !.at = "allowed", !.swarm = s, !.bridge = b]
  <1>2. Start(c, r)
    BY DEF StartPublish
  <1>3. r \in Requests /\ r.at = "allowed" /\ r.user = None /\ r.swarm = s
        /\ r.bridge = b /\ r.invite = None
        /\ r.rows = {} /\ r.stored = {} /\ r.codes = {}
    BY NoneIsApart DEF NoCall, Requests, Places
  <1> HIDE DEF r
  <1>4. call[c] = NoCall /\ call'[c] = r /\ Others(c)
    BY <1>2, <1>3, OneCall DEF Start, Others
  <1> QED
    BY <1>3, <1>4, Blank DEF Asks

LEMMA ClearInvitationAsks ==
  ASSUME TypeOK, NEW c \in Calls, NEW s \in Swarms, NEW i \in Invitations,
         ClearInvitation(c, s, i)
  PROVE  Asks(c, "cleared", None, s, None, i,
                {b \in Members(s) : member[s][b].via = i})
  <1> DEFINE rows == {b \in Members(s) : member[s][b].via = i}
  <1> DEFINE r == [NoCall EXCEPT !.at = "cleared", !.swarm = s, !.invite = i,
                              !.rows = rows]
  <1>1. rows \in SUBSET Bridges
    BY DEF Members
  <1>2. Start(c, r)
    BY DEF ClearInvitation
  <1> HIDE DEF rows
  <1>3. r \in Requests /\ r.at = "cleared" /\ r.user = None /\ r.swarm = s
        /\ r.bridge = None /\ r.invite = i
        /\ r.rows = rows /\ r.stored = {} /\ r.codes = {}
    BY <1>1, NoneIsApart DEF NoCall, Requests, Places
  <1> HIDE DEF r
  <1>4. call[c] = NoCall /\ call'[c] = r /\ Others(c)
    BY <1>2, <1>3, OneCall DEF Start, Others
  <1> QED
    BY <1>3, <1>4, Blank DEF Asks, rows

LEMMA RemoveItemsAsks ==
  ASSUME TypeOK, NEW c \in Calls, NEW s \in Swarms, NEW b \in Bridges,
         RemoveItems(c, s, b)
  PROVE  Asks(c, "removing", None, s, b, None, {})
  <1> DEFINE found == Items(s) \cap Of(b)
             r == [NoCall EXCEPT !.at = "removing", !.swarm = s, !.bridge = b,
                                 !.stored = found]
  <1>1. found \in SUBSET Inventories
    BY DEF Items, TypeOK
  <1>2. Start(c, r)
    BY DEF RemoveItems
  <1> HIDE DEF found
  <1>3. r \in Requests /\ r.at = "removing" /\ r.user = None /\ r.swarm = s
        /\ r.bridge = b /\ r.invite = None /\ r.rows = {} /\ r.codes = {}
    BY <1>1, NoneIsApart DEF NoCall, Requests, Places
  <1> HIDE DEF r
  <1>4. call[c] = NoCall /\ call'[c] = r /\ Others(c)
    BY <1>2, <1>3, OneCall DEF Start, Others
  <1> QED
    BY <1>3, <1>4, Blank DEF Asks

\* A DELETE of inventory rows only locks what it finds.
LocksInventory(c) ==
  /\ call[c].at \in {"found", "unlisted", "removing"}
  /\ UNCHANGED <<ids, roster, content, faults, history>>
  /\ \E at \in {"unlisted", "emptied", "removed"}, stored \in SUBSET Inventories :
       /\ at = "removed" <=> call[c].at = "removing"
       /\ Locks(c, at, stored, call[c].rows, call[c].codes)

LEMMA DeleteLocks ==
  ASSUME TypeOK, NEW c \in Calls,
         NEW from \in {"found", "unlisted", "removing"},
         NEW at \in {"unlisted", "emptied", "removed"},
         at = "removed" <=> from = "removing",
         NEW found \in SUBSET Inventories, Delete(c, from, at, found)
  PROVE  LocksInventory(c)
  <1> DEFINE stored == call[c].stored \cup found
             r == [call[c] EXCEPT !.at = at, !.stored = stored]
  <1>1. call[c] \in Requests
    BY DEF TypeOK
  <1>2. stored \in SUBSET Inventories
    BY <1>1 DEF Requests
  <1>3. call[c].at = from /\ UNCHANGED <<ids, roster, content, faults, history>>
    BY DEF Delete
  <1>4. call' = [call EXCEPT ![c] = r]
    BY <1>1 DEF Delete, TypeOK, Requests
  <1> HIDE DEF stored
  <1>5. r \in Requests /\ r.at = at /\ r.swarm = call[c].swarm
        /\ r.bridge = call[c].bridge /\ r.stored = stored
        /\ r.rows = call[c].rows /\ r.codes = call[c].codes
    BY <1>1, <1>2 DEF Requests, Places
  <1> HIDE DEF r
  <1>6. Locks(c, at, stored, call[c].rows, call[c].codes)
    BY <1>4, <1>5, OneCall DEF Locks, Others
  <1> QED
    BY <1>2, <1>3, <1>6 DEF LocksInventory

LEMMA DeletesLock ==
  ASSUME TypeOK, CallsFit, NEW c \in Calls,
         DeleteItems(c) \/ DeleteSnapshots(c) \/ RemoveSnapshot(c)
  PROVE  LocksInventory(c)
  <1> DEFINE s == call[c].swarm
  <1>1. s \in Swarms
    BY DEF DeleteItems, DeleteSnapshots, RemoveSnapshot, Delete, CallsFit,
           Deleting, OfBridge
  <1>2. inventory[s] \subseteq Inventories
    BY <1>1 DEF TypeOK
  <1>3. CASE DeleteItems(c)
    <2>1. Items(s) \in SUBSET Inventories
      BY <1>2 DEF Items
    <2> QED
      BY <1>3, <2>1, DeleteLocks DEF DeleteItems
  <1>4. CASE DeleteSnapshots(c)
    <2>1. Snapshots(s) \in SUBSET Inventories
      BY <1>2 DEF Snapshots
    <2> QED
      BY <1>4, <2>1, DeleteLocks DEF DeleteSnapshots
  <1>5. CASE RemoveSnapshot(c)
    <2>1. Snapshots(s) \cap Of(call[c].bridge) \in SUBSET Inventories
      BY <1>2 DEF Snapshots
    <2> QED
      BY <1>5, <2>1, DeleteLocks DEF RemoveSnapshot
  <1> QED
    BY <1>3, <1>4, <1>5

LEMMA DeleteMembersLocks ==
  ASSUME TypeOK, CallsFit, NEW c \in Calls, DeleteMembers(c)
  PROVE  Locks(c, "expelled", call[c].stored, Members(call[c].swarm), call[c].codes)
  <1> DEFINE r == [call[c] EXCEPT !.at = "expelled", !.rows = Members(call[c].swarm)]
  <1>1. Members(call[c].swarm) \in SUBSET Bridges
    BY DEF DeleteMembers, TypeOK, CallsFit, Deleting, Members
  <1>2. call[c] \in Requests
    BY DEF TypeOK
  <1>3. r \in Requests /\ r.at = "expelled" /\ r.swarm = call[c].swarm
        /\ r.bridge = call[c].bridge
        /\ r.stored = call[c].stored
        /\ r.rows = Members(call[c].swarm)
        /\ r.codes = call[c].codes
    BY <1>1, <1>2 DEF Requests, Places
  <1>4. call' = [call EXCEPT ![c] = r]
    BY DEF DeleteMembers, TypeOK
  <1> QED
    BY <1>3, <1>4, OneCall DEF Locks, Others

LEMMA DeleteInvitationsLocks ==
  ASSUME TypeOK, CallsFit, NEW c \in Calls, DeleteInvitations(c)
  PROVE  \/ Refused(c)
         \/ /\ Locks(c, "uninvited", call[c].stored, call[c].rows,
                     Invites(call[c].swarm))
            /\ UNCHANGED <<ids, roster, content, faults, history>>
  <1> DEFINE codes == Invites(call[c].swarm)
             r == [call[c] EXCEPT !.at = "uninvited", !.codes = codes]
  <1>1. codes \in SUBSET Invitations /\ call[c] \in Requests
    BY DEF Invites, TypeOK
  <1>2. \/ Refused(c)
        \/ /\ call' = [call EXCEPT ![c] = r]
           /\ UNCHANGED <<ids, roster, content, faults, history>>
    BY DEF DeleteInvitations, TypeOK
  <1> HIDE DEF codes
  <1>3. r \in Requests /\ r.at = "uninvited" /\ r.swarm = call[c].swarm
        /\ r.bridge = call[c].bridge
        /\ r.codes = codes
        /\ r.stored = call[c].stored
        /\ r.rows = call[c].rows
    BY <1>1 DEF Requests, Places
  <1> HIDE DEF r
  <1>4. ASSUME call' = [call EXCEPT ![c] = r]
        PROVE  Locks(c, "uninvited", call[c].stored, call[c].rows, codes)
    BY <1>3, <1>4, OneCall DEF Locks, Others
  <1> QED
    BY <1>2, <1>4 DEF codes

\* What a step does to the memberships: Join makes a member or not.
Joins(c) ==
  LET s == call[c].swarm  b == call[c].bridge  i == call[c].invite IN
  \/ /\ UNCHANGED <<member, enrolled>>
     /\ \/ member[s][b].in /\ Goto(c, "joined")
        \/ ~member[s][b].in /\ Return(c)
  \/ /\ ~member[s][b].in /\ invite[i].swarm = s /\ ~MemberLocked(s, b)
     /\ ~InviteLocked(i) /\ Goto(c, "joined")
     /\ enrolled' = [enrolled EXCEPT ![i] = @ + 1]
     /\ member' \in [Swarms -> [Bridges -> Rows]]
     /\ member'[s][b].in /\ member'[s][b].via = i
     /\ member'[s][b].name = "none" /\ ~member'[s][b].byHost
     /\ \A t \in Swarms, d \in Bridges :
          t # s \/ d # b => member'[t][d] = member[t][d]
LEMMA JoinPuts ==
  ASSUME TypeOK, CallsFit, NEW c \in Calls, Join(c)
  PROVE  Joins(c)
  <1> DEFINE s == call[c].swarm  b == call[c].bridge  i == call[c].invite
             r == [NoMember EXCEPT !.in = TRUE, !.via = i]
  <1>1. s \in Swarms /\ b \in Bridges /\ i \in Invitations
    BY DEF CallsFit, Join, Redeeming
  <1>2. r \in Rows /\ r.in = TRUE /\ r.via = i /\ r.name = "none" /\ r.byHost = FALSE
    BY <1>1, Booleans, NoneIsApart DEF NoMember, Rows
  <1>3. \/ /\ UNCHANGED <<member, enrolled>>
           /\ \/ member[s][b].in /\ Goto(c, "joined")
              \/ ~member[s][b].in /\ Return(c)
        \/ /\ ~member[s][b].in /\ invite[i].swarm = s /\ ~MemberLocked(s, b)
           /\ ~InviteLocked(i) /\ Goto(c, "joined") /\ Put(s, b, r)
           /\ enrolled' = [enrolled EXCEPT ![i] = @ + 1]
    BY DEF Join
  <1> HIDE DEF s, b, i, r
  <1>4. ASSUME Put(s, b, r)
        PROVE  /\ member' \in [Swarms -> [Bridges -> Rows]]
               /\ member'[s][b] = r
               /\ \A t \in Swarms, d \in Bridges :
                    t # s \/ d # b => member'[t][d] = member[t][d]
    BY <1>1, <1>2, <1>4, OneMember
  <1>5. r.in /\ ~r.byHost
    BY <1>2
  <1>6. Put(s, b, r) => member'[s][b].in /\ ~member'[s][b].byHost
    BY <1>4, <1>5, Zenon
  <1> QED
    BY <1>2, <1>3, <1>4, <1>6 DEF Joins, s, b, i

Expels(s, b) ==
  /\ member' \in [Swarms -> [Bridges -> Rows]] /\ ~member'[s][b].in
  /\ \A t \in Swarms, d \in Bridges :
       t # s \/ d # b => member'[t][d] = member[t][d]
\* What the end of a removal leaves: its last statement and the commit, or
\* nothing.
Removes(c) ==
  /\ call[c].at = "removed" /\ Ends(c)
  /\ UNCHANGED <<ids, family, catalogue, faults, history>>
  /\ inventory' \in [Swarms -> SUBSET Inventories]
  /\ \A t \in Swarms : inventory'[t] \subseteq inventory[t]
  /\ UNCHANGED member \/ Expels(call[c].swarm, call[c].bridge)
LEMMA RemovePuts ==
  ASSUME TypeOK, CallsFit, NEW c \in Calls, RemoveBridgeFromSwarm(c)
  PROVE  Removes(c)
  <1> DEFINE s == call[c].swarm  b == call[c].bridge  rows == call[c].stored
  <1>1. s \in Swarms /\ b \in Bridges
    BY DEF CallsFit, RemoveBridgeFromSwarm, OfBridge
  <1>2. NoMember \in Rows /\ NoMember.in = FALSE
    BY Booleans, NoneIsApart DEF NoMember, Rows
  <1>3. /\ call[c].at = "removed" /\ Return(c)
        /\ UNCHANGED <<ids, family, catalogue, faults, history>>
        /\ \/ Put(s, b, NoMember) /\ inventory' = [inventory EXCEPT ![s] = @ \ rows]
           \/ UNCHANGED <<member, inventory>>
    BY DEF RemoveBridgeFromSwarm
  <1> HIDE DEF s, b, rows
  <1>4. Put(s, b, NoMember) => Expels(s, b)
    BY <1>1, <1>2, OneMember DEF Expels
  <1>5. UNCHANGED member \/ Expels(s, b)
    BY <1>3, <1>4
  <1>6. /\ inventory' \in [Swarms -> SUBSET Inventories]
        /\ \A t \in Swarms : inventory'[t] \subseteq inventory[t]
    BY <1>1, <1>3 DEF TypeOK
  <1>7. Ends(c)
    BY <1>3, Returns
  <1> QED
    BY <1>3, <1>5, <1>6, <1>7 DEF Removes, s, b

\* Whoever writes a name leaves everything else of the row.
Renames(s, b) ==
  /\ member' \in [Swarms -> [Bridges -> Rows]]
  /\ member'[s][b].in <=> member[s][b].in
  /\ member'[s][b].via = member[s][b].via
  /\ member'[s][b].byHost <=> member'[s][b].name = "chosen"
  /\ \A t \in Swarms, d \in Bridges :
       t # s \/ d # b => member'[t][d] = member[t][d]

LEMMA SetNamePuts ==
  ASSUME TypeOK, NEW s \in Swarms, NEW b \in Bridges,
         SetBridgeDisplayName(s, b)
  PROVE  Renames(s, b)
  <1>1. PICK n \in {"none", "chosen"} :
          Put(s, b, [member[s][b] EXCEPT !.name = n, !.byHost = (n # "none")])
    BY DEF SetBridgeDisplayName
  <1>2. ASSUME NEW h \in BOOLEAN, h = (n # "none") PROVE Renames(s, b)
    <2> DEFINE r == [member[s][b] EXCEPT !.name = n, !.byHost = h]
    <2>1. member[s][b] \in Rows
      BY DEF TypeOK
    <2>2. r \in Rows /\ r.in = member[s][b].in /\ r.via = member[s][b].via
          /\ r.name = n /\ r.byHost = h
      <3> DEFINE old == member[s][b]
      <3>1. old \in Rows /\ n \in {"none", "published", "chosen"}
        BY <1>1, <2>1
      <3> HIDE DEF old
      <3>2. [old EXCEPT !.name = n, !.byHost = h] \in Rows
        BY <3>1 DEF Rows
      <3>3. /\ [old EXCEPT !.name = n, !.byHost = h].in = old.in
            /\ [old EXCEPT !.name = n, !.byHost = h].via = old.via
            /\ [old EXCEPT !.name = n, !.byHost = h].name = n
            /\ [old EXCEPT !.name = n, !.byHost = h].byHost = h
        BY <3>1 DEF Rows
      <3> QED
        BY <3>2, <3>3 DEF old
    <2>3. r.byHost <=> r.name = "chosen"
      BY <2>2, <1>2, Zenon
    <2>4. Put(s, b, r)
      BY <1>1, <1>2
    <2> HIDE DEF r
    <2>5. member' \in [Swarms -> [Bridges -> Rows]] /\ member'[s][b] = r
          /\ \A t \in Swarms, d \in Bridges :
               t # s \/ d # b => member'[t][d] = member[t][d]
      BY <2>2, <2>4, OneMember
    <2> QED
      BY <2>2, <2>3, <2>5, Zenon DEF Renames
  <1>3. (n # "none") \in BOOLEAN
    OBVIOUS
  <1> QED
    BY <1>2, <1>3, Zenon

LEMMA PublishedPuts ==
  ASSUME TypeOK, OwnerNameHolds, NEW s \in Swarms, NEW b \in Bridges,
         member[s][b].in, ~member[s][b].byHost,
         Put(s, b, [member[s][b] EXCEPT !.name = "published"])
  PROVE  Renames(s, b)
  <1> DEFINE r == [member[s][b] EXCEPT !.name = "published"]
  <1>1. member[s][b] \in Rows
    BY DEF TypeOK
  <1>2. r \in Rows /\ r.in = member[s][b].in /\ r.via = member[s][b].via
        /\ r.name = "published" /\ r.byHost = member[s][b].byHost
    BY <1>1, PublishedRow
  <1>3. ~r.byHost /\ r.name # "chosen"
    BY <1>2, Zenon
  <1> HIDE DEF r
  <1>4. member' \in [Swarms -> [Bridges -> Rows]] /\ member'[s][b] = r
        /\ \A t \in Swarms, d \in Bridges :
             t # s \/ d # b => member'[t][d] = member[t][d]
    BY <1>2, OneMember DEF r
  <1> QED
    BY <1>2, <1>3, <1>4, Zenon DEF Renames

LEMMA IntroducePuts ==
  ASSUME TypeOK, OwnerNameHolds, NEW s \in Swarms, NEW b \in Bridges,
         IntroduceItself(s, b)
  PROVE  Renames(s, b)
  BY PublishedPuts DEF IntroduceItself, Members

LEMMA ApplyPuts ==
  ASSUME TypeOK, CallsFit, OwnerNameHolds, NEW c \in Calls,
         ApplyPublishedName(c)
  PROVE  \/ UNCHANGED member
         \/ /\ Renames(call[c].swarm, call[c].bridge)
            /\ ~MemberLocked(call[c].swarm, call[c].bridge)
  BY PublishedPuts DEF ApplyPublishedName, CallsFit, OfBridge


\* What a deletion leaves.
Gone(s) ==
  /\ swarm' = [swarm EXCEPT ![s] = None]
  /\ inventory' = [inventory EXCEPT ![s] = {}]
  /\ invite' \in [Invitations -> Codes]
  /\ \A i \in Invites(s) : invite'[i].swarm = None
  /\ \A i \in Invitations \ Invites(s) : invite'[i] = invite[i]
  /\ member' \in [Swarms -> [Bridges -> Rows]]
  /\ \A b \in Bridges : ~member'[s][b].in
  /\ \A t \in Swarms, d \in Bridges : t # s => member'[t][d] = member[t][d]
  /\ UNCHANGED <<accounts, bridges, family, catalogue, faults, history>>

LEMMA SwarmGone ==
  ASSUME TypeOK, CallsFit, NEW c \in Calls, DeleteSwarm(c)
  PROVE  /\ call[c].at = "uninvited" /\ Return(c)
         /\ \/ UNCHANGED <<ids, roster, content, faults, history>>
            \/ ~StillReferenced(c) /\ Gone(call[c].swarm)
  <1> DEFINE s == call[c].swarm
  <1>1. s \in Swarms
    BY DEF CallsFit, Deleting, DeleteSwarm
  <1>2. NoMember \in Rows /\ ~NoMember.in
    BY Booleans, NoneIsApart DEF NoMember, Rows
  <1>3. NoInvite \in Codes /\ NoInvite.swarm = None
    BY Booleans, NoneIsApart DEF NoInvite, Codes
  <1>4. CASE Refused(c)
    BY <1>4 DEF Refused, DeleteSwarm
  <1>5. CASE ~Refused(c)
    <2>1. /\ ~StillReferenced(c) /\ Return(c) /\ call[c].at = "uninvited"
          /\ swarm' = [swarm EXCEPT ![s] = None]
          /\ invite' = [i \in Invitations |->
                          IF i \in Invites(s) THEN NoInvite ELSE invite[i]]
          /\ member' = [member EXCEPT ![s] = [b \in Bridges |-> NoMember]]
          /\ inventory' = [inventory EXCEPT ![s] = {}]
          /\ UNCHANGED <<accounts, bridges, family, catalogue, faults, history>>
      BY <1>5 DEF DeleteSwarm
    <2>2. /\ invite' \in [Invitations -> Codes]
          /\ \A i \in Invites(s) : invite'[i] = NoInvite
          /\ \A i \in Invitations \ Invites(s) : invite'[i] = invite[i]
      <3> HIDE DEF s
      <3> QED
        BY <2>1, <1>3 DEF TypeOK, Invites
    <2>3. /\ member' \in [Swarms -> [Bridges -> Rows]]
          /\ \A b \in Bridges : member'[s][b] = NoMember
          /\ \A t \in Swarms, d \in Bridges : t # s => member'[t][d] = member[t][d]
      <3> HIDE DEF s
      <3> QED
        BY <2>1, <1>1, <1>2 DEF TypeOK
    <2>4. \A b \in Bridges : ~member'[s][b].in
      BY <2>3, <1>2, Zenon
    <2> QED
      BY <2>1, <2>2, <2>3, <2>4, <1>3 DEF Gone
  <1> QED
    BY <1>4, <1>5

\* An invitation goes, and the memberships it has made no longer name it.
Unnames(s, i, rows) ==
  /\ invite' \in [Invitations -> Codes] /\ invite'[i].swarm = None
  /\ \A j \in Invitations \ {i} : invite'[j] = invite[j]
  /\ member' \in [Swarms -> [Bridges -> Rows]]
  /\ \A t \in Swarms, d \in Bridges :
       /\ member'[t][d].in <=> member[t][d].in
       /\ member'[t][d].byHost <=> member[t][d].byHost
       /\ member'[t][d].name = member[t][d].name
       /\ member'[t][d].via = IF t = s /\ d \in rows THEN None
                              ELSE member[t][d].via

LEMMA InvitationGone ==
  ASSUME TypeOK, CallsFit, NEW c \in Calls, DeleteInvitation(c)
  PROVE  LET s == call[c].swarm  i == call[c].invite IN
         /\ call[c].at = "cleared" /\ ~InviteLocked(i) /\ Return(c)
         /\ UNCHANGED <<accounts, swarm, bridges, family, content, faults, history>>
         /\ \/ UNCHANGED <<invite, member>>
            \/ invite[i].swarm = s /\ ~StillNamed(c) /\ Unnames(s, i, call[c].rows)
  <1> DEFINE s == call[c].swarm  i == call[c].invite  rows == call[c].rows
  <1>1. s \in Swarms /\ i \in Invitations
    BY DEF CallsFit, DeleteInvitation
  <1>2. NoInvite \in Codes /\ NoInvite.swarm = None
    BY Booleans, NoneIsApart DEF NoInvite, Codes
  <1>3. ASSUME NEW r \in Rows
        PROVE  LET q == [r EXCEPT !.via = None] IN
               q \in Rows /\ q.in = r.in /\ q.byHost = r.byHost /\ q.name = r.name
                 /\ q.via = None
    BY DEF Rows
  <1>4. /\ call[c].at = "cleared" /\ ~InviteLocked(i) /\ Return(c)
        /\ UNCHANGED <<accounts, swarm, bridges, family, content, faults, history>>
        /\ \/ UNCHANGED <<invite, member>>
           \/ /\ invite[i].swarm = s /\ ~StillNamed(c)
              /\ invite' = [invite EXCEPT ![i] = NoInvite]
              /\ member' = [member EXCEPT ![s] = [b \in Bridges |->
                   IF b \in rows THEN [member[s][b] EXCEPT !.via = None]
                   ELSE member[s][b]]]
    BY <1>1 DEF DeleteInvitation, TypeOK
  <1>5. ASSUME invite' = [invite EXCEPT ![i] = NoInvite],
               member' = [member EXCEPT ![s] = [b \in Bridges |->
                   IF b \in rows THEN [member[s][b] EXCEPT !.via = None]
                   ELSE member[s][b]]]
        PROVE  Unnames(s, i, rows)
    <2> HIDE DEF s, i, rows
    <2>1. /\ invite' \in [Invitations -> Codes] /\ invite'[i].swarm = None
          /\ \A j \in Invitations \ {i} : invite'[j] = invite[j]
      BY <1>5, <1>1, <1>2 DEF TypeOK
    <2>2. \A d \in Bridges : member[s][d] \in Rows
      BY <1>1 DEF TypeOK
    <2>3. \A t \in Swarms, d \in Bridges :
            /\ t # s \/ d \notin rows => member'[t][d] = member[t][d]
            /\ t = s /\ d \in rows =>
                 member'[t][d] = [member[s][d] EXCEPT !.via = None]
      BY <1>5, <1>1 DEF TypeOK
    <2>4. \A d \in Bridges :
            /\ [member[s][d] EXCEPT !.via = None] \in Rows
            /\ [member[s][d] EXCEPT !.via = None].in = member[s][d].in
            /\ [member[s][d] EXCEPT !.via = None].byHost = member[s][d].byHost
            /\ [member[s][d] EXCEPT !.via = None].name = member[s][d].name
            /\ [member[s][d] EXCEPT !.via = None].via = None
      BY <2>2, <1>3, Zenon
    <2>5. member' \in [Swarms -> [Bridges -> Rows]]
      BY <1>5, <1>1, <2>4 DEF TypeOK
    <2>6. \A t \in Swarms, d \in Bridges :
            /\ member'[t][d].in = member[t][d].in
            /\ member'[t][d].byHost = member[t][d].byHost
            /\ member'[t][d].name = member[t][d].name
            /\ member'[t][d].via = IF t = s /\ d \in rows THEN None
                                   ELSE member[t][d].via
      BY <2>3, <2>4, Zenon
    <2> QED
      BY <2>1, <2>5, <2>6, Zenon DEF Unnames
  <1> QED
    BY <1>4, <1>5

\* What a step does to one invitation.
LEMMA IssueSets ==
  ASSUME TypeOK, NEW s \in Swarms, NEW i \in Invitations, IssueInvitation(s, i)
  PROVE  /\ invite' \in [Invitations -> Codes]
         /\ invite'[i].swarm = s /\ invite'[i].used = 0
         /\ \A j \in Invitations \ {i} : invite'[j] = invite[j]
  <1> DEFINE r == [swarm |-> s, used |-> 0, valid |-> TRUE]
  <1>1. r \in Codes /\ r.swarm = s /\ r.used = 0
    BY Booleans DEF Codes
  <1> HIDE DEF r
  <1>2. invite' = [invite EXCEPT ![i] = r]
    BY DEF IssueInvitation, r
  <1> QED
    BY <1>1, <1>2 DEF TypeOK

LEMMA ExpirySets ==
  ASSUME TypeOK, NEW i \in Invitations, InvitationExpires(i)
  PROVE  /\ invite' \in [Invitations -> Codes]
         /\ \A j \in Invitations : /\ invite'[j].swarm = invite[j].swarm
                                   /\ invite'[j].used = invite[j].used
  <1> DEFINE r == [invite[i] EXCEPT !.valid = FALSE]
  <1>1. invite[i] \in Codes
    BY DEF TypeOK
  <1>2. r \in Codes /\ r.swarm = invite[i].swarm /\ r.used = invite[i].used
    BY <1>1, Booleans DEF Codes
  <1>3. invite' = [invite EXCEPT ![i] = r]
    BY DEF InvitationExpires, TypeOK
  <1> HIDE DEF r
  <1> QED
    BY <1>2, <1>3 DEF TypeOK

LEMMA CountSets ==
  ASSUME TypeOK, NEW c \in Calls, NEW i \in Invitations, NEW b \in Bridges,
         Count(c, i, b)
  PROVE  /\ invite' \in [Invitations -> Codes]
         /\ invite'[i].swarm = invite[i].swarm
         /\ invite'[i].used = invite[i].used + 1
         /\ \A j \in Invitations \ {i} : invite'[j] = invite[j]
  <1> DEFINE r == [invite[i] EXCEPT !.used = invite[i].used + 1]
  <1>1. invite[i] \in Codes
    BY DEF TypeOK
  <1>2. r \in Codes /\ r.swarm = invite[i].swarm /\ r.used = invite[i].used + 1
    BY <1>1 DEF Codes
  <1>3. invite' = [invite EXCEPT ![i] = r]
    BY DEF Count, TypeOK
  <1> HIDE DEF r
  <1> QED
    BY <1>2, <1>3 DEF TypeOK

-----------------------------------------------------------------------------
\* Every statement leaves rows of the tables' types.
LEMMA StepTyped ==
  ASSUME TypeOK, CallsFit, OwnerNameHolds, [Next]_vars
  PROVE  TypeOK'
  <1> USE NoneIsApart, Booleans
  <1>1. ASSUME NEW c \in Calls, NEW u \in Users, StartBootstrap(c, u)
        PROVE  TypeOK'
    <2>1. Asks(c, "vacant", u, None, None, None, {})
      BY <1>1, StartBootstrapAsks
    <2> QED
      BY <1>1, <2>1
      DEF StartBootstrap, Asks, Others, TypeOK, CallsFit, Codes,
          Redeeming, OfBridge, Deleting, Places, ids, roster, content,
          history
  <1>2. ASSUME NEW c \in Calls, Bootstrap(c) PROVE TypeOK'
    <2>1. Return(c) => Ends(c)
      BY <1>2, Returns
    <2> QED
      BY <1>2, <2>1
      DEF Bootstrap, Ends, Others, TypeOK, CallsFit, Codes, Redeeming,
          OfBridge, Deleting, Places, ids, roster, content, history
  <1>3. ASSUME NEW c \in Calls, NEW i \in Invitations, NEW b \in Bridges,
               Count(c, i, b)
        PROVE  TypeOK'
    <2>1. Asks(c, "counted", None, invite[i].swarm, b, i, {})
      BY <1>3, CountAsks
    <2>2. /\ invite' \in [Invitations -> Codes]
          /\ invite'[i].swarm = invite[i].swarm
          /\ invite'[i].used = invite[i].used + 1
          /\ \A j \in Invitations \ {i} : invite'[j] = invite[j]
      BY <1>3, CountSets
    <2> QED
      BY <1>3, <2>1, <2>2
      DEF Count, Asks, Others, TypeOK, CallsFit, Codes, Redeeming,
          OfBridge, Deleting, Places, ids, roster, content, history
  <1>4. ASSUME NEW c \in Calls, EnsureBridge(c) PROVE TypeOK'
    <2>1. Moves(c, "ensured")
      BY <1>4, GoesOn DEF EnsureBridge, Places
    <2> QED
      BY <1>4, <2>1
      DEF EnsureBridge, Moves, Others, TypeOK, CallsFit, Codes,
          Redeeming, OfBridge, Deleting, Places, ids, roster, content,
          history
  <1>5. ASSUME NEW c \in Calls, Join(c) PROVE TypeOK'
    <2>1. (Goto(c, "joined") => Moves(c, "joined")) /\ (Return(c) => Ends(c))
      BY <1>5, GoesOn, Returns DEF Places
    <2>2. Joins(c)
      BY <1>5, JoinPuts
    <2> QED
      BY SMTT(30), <1>5, <2>1, <2>2
      DEF Join, Moves, Ends, Others, Joins, TypeOK, CallsFit, Codes,
          Redeeming, OfBridge, Deleting, Places, ids, roster, content,
          history
  <1>6. ASSUME NEW c \in Calls, Enroll(c) PROVE TypeOK'
    <2>1. Return(c) => Ends(c)
      BY <1>6, Returns
    <2> QED
      BY <1>6, <2>1
      DEF Enroll, Ends, Others, TypeOK, CallsFit, Codes, Redeeming,
          OfBridge, Deleting, Places, ids, roster, content, history
  <1>7. ASSUME NEW c \in Calls, NEW s \in Swarms, NEW i \in Invitations,
               ClearInvitation(c, s, i)
        PROVE  TypeOK'
    <2>1. Asks(c, "cleared", None, s, None, i,
                {b \in Members(s) : member[s][b].via = i})
      BY <1>7, ClearInvitationAsks
    <2> QED
      BY <1>7, <2>1
      DEF ClearInvitation, Asks, Others, TypeOK, CallsFit, Codes,
          Redeeming, OfBridge, Deleting, Places, ids, roster, content,
          history
  <1>8. ASSUME NEW c \in Calls, DeleteInvitation(c) PROVE TypeOK'
    <2>1. Return(c) => Ends(c)
      BY <1>8, Returns
    <2>2. /\ call[c].at = "cleared"
          /\ ~InviteLocked(call[c].invite)
          /\ Return(c)
          /\ UNCHANGED <<accounts, swarm, bridges, family, content, faults, history>>
          /\ \/ UNCHANGED <<invite, member>>
             \/ /\ invite[call[c].invite].swarm = call[c].swarm
                /\ ~StillNamed(c)
                /\ Unnames(call[c].swarm, call[c].invite, call[c].rows)
      BY <1>8, InvitationGone
    <2> QED
      BY <2>1, <2>2
      DEF Ends, Others, Unnames, TypeOK, CallsFit, Codes, Redeeming,
          OfBridge, Deleting, Places, ids, roster, content, history
  <1>9. ASSUME NEW c \in Calls, NEW s \in Swarms, StartDeleteSwarm(c, s)
        PROVE  TypeOK'
    <2>1. Asks(c, "found", None, s, None, None, {})
      BY <1>9, StartDeleteSwarmAsks
    <2> QED
      BY <1>9, <2>1
      DEF StartDeleteSwarm, Asks, Others, TypeOK, CallsFit, Codes,
          Redeeming, OfBridge, Deleting, Places, ids, roster, content,
          history
  <1>10. ASSUME NEW c \in Calls,
                DeleteItems(c) \/ DeleteSnapshots(c) \/ RemoveSnapshot(c)
         PROVE  TypeOK'
    <2>1. LocksInventory(c)
      BY <1>10, DeletesLock
    <2> QED
      BY <2>1
      DEF LocksInventory, Locks, Others, TypeOK, CallsFit, Codes, Redeeming,
          OfBridge, Deleting, Places, ids, roster, content, history
  <1>11. ASSUME NEW c \in Calls, DeleteMembers(c) PROVE TypeOK'
    <2>1. Locks(c, "expelled", call[c].stored, Members(call[c].swarm),
                call[c].codes)
      BY <1>11, DeleteMembersLocks
    <2> QED
      BY <1>11, <2>1
      DEF DeleteMembers, Locks, Others, TypeOK, CallsFit, Codes,
          Redeeming, OfBridge, Deleting, Places, ids, roster, content,
          history
  <1>12. ASSUME NEW c \in Calls, DeleteInvitations(c) PROVE TypeOK'
    <2>1. \/ Refused(c)
          \/ /\ Locks(c, "uninvited", call[c].stored, call[c].rows,
                      Invites(call[c].swarm))
             /\ UNCHANGED <<ids, roster, content, faults, history>>
      BY <1>12, DeleteInvitationsLocks
    <2>2. Return(c) => Ends(c)
      BY Returns
    <2> QED
      BY <1>12, <2>1, <2>2
      DEF DeleteInvitations, Refused, Locks, Ends, Others, TypeOK,
          CallsFit, Codes, Redeeming, OfBridge, Deleting, Places, ids,
          roster, content, history
  <1>13. ASSUME NEW c \in Calls, DeleteSwarm(c) PROVE TypeOK'
    <2>1. Return(c) => Ends(c)
      BY <1>13, Returns
    <2>2. /\ call[c].at = "uninvited" /\ Return(c)
          /\ \/ UNCHANGED <<ids, roster, content, faults, history>>
             \/ ~StillReferenced(c) /\ Gone(call[c].swarm)
      BY <1>13, SwarmGone
    <2> QED
      BY <2>1, <2>2
      DEF Ends, Others, Gone, TypeOK, CallsFit, Codes, Redeeming,
          OfBridge, Deleting, Places, ids, roster, content, history
  <1>14. ASSUME NEW c \in Calls, NEW s \in Swarms, NEW b \in Bridges,
                StartPublish(c, s, b)
         PROVE  TypeOK'
    <2>1. Asks(c, "allowed", None, s, b, None, {})
      BY <1>14, StartPublishAsks
    <2> QED
      BY <1>14, <2>1
      DEF StartPublish, Asks, Others, TypeOK, CallsFit, Codes,
          Redeeming, OfBridge, Deleting, Places, ids, roster, content,
          history
  <1>15. ASSUME NEW c \in Calls, Replace(c) PROVE TypeOK'
    <2>1. (Goto(c, "stored") => Moves(c, "stored")) /\ (Return(c) => Ends(c))
      BY <1>15, GoesOn, Returns DEF Places
    <2>2. \A b \in Bridges : Of(b) \in SUBSET Inventories
      BY DEF Of, Inventories
    <2>3. inventory' \in [Swarms -> SUBSET Inventories]
      BY <1>15, <2>2 DEF Replace, TypeOK, CallsFit, OfBridge
    <2> QED
      BY <1>15, <2>1, <2>3
      DEF Replace, Moves, Ends, Others, TypeOK, CallsFit, Codes,
          Redeeming, OfBridge, Deleting, Places, ids, roster, content,
          history
  <1>16. ASSUME NEW c \in Calls, ApplyPublishedName(c) PROVE TypeOK'
    <2>1. Return(c) => Ends(c)
      BY <1>16, Returns
    <2>2. \/ UNCHANGED member
          \/ /\ Renames(call[c].swarm, call[c].bridge)
             /\ ~MemberLocked(call[c].swarm, call[c].bridge)
      BY <1>16, ApplyPuts
    <2> QED
      BY <1>16, <2>1, <2>2
      DEF ApplyPublishedName, Ends, Others, Renames, TypeOK, CallsFit,
          Codes, Redeeming, OfBridge, Deleting, Places, ids, roster,
          content, history
  <1>17. ASSUME NEW c \in Calls, StatementFails(c) PROVE TypeOK'
    <2>1. Return(c) => Ends(c)
      BY <1>17, Returns
    <2> QED
      BY <1>17, <2>1
      DEF StatementFails, Ends, Others, TypeOK, CallsFit, Codes,
          Redeeming, OfBridge, Deleting, Places, ids, roster, content,
          history
  <1>18. ASSUME NEW u \in Users, NEW s \in Swarms, CreateSwarm(u, s)
         PROVE  TypeOK'
    BY <1>18
    DEF CreateSwarm, TypeOK, CallsFit, Codes, Redeeming, OfBridge,
        Deleting, Places, ids, roster, content, history
  <1>19. ASSUME NEW s \in Swarms, NEW i \in Invitations, IssueInvitation(s, i)
         PROVE  TypeOK'
    <2>1. /\ invite' \in [Invitations -> Codes]
          /\ invite'[i].swarm = s /\ invite'[i].used = 0
          /\ \A j \in Invitations \ {i} : invite'[j] = invite[j]
      BY <1>19, IssueSets
    <2> QED
      BY <1>19, <2>1
      DEF IssueInvitation, TypeOK, CallsFit, Codes, Redeeming,
          OfBridge, Deleting, Places, ids, roster, content, history
  <1>20. ASSUME NEW i \in Invitations, InvitationExpires(i) PROVE TypeOK'
    <2>1. /\ invite' \in [Invitations -> Codes]
          /\ \A j \in Invitations : /\ invite'[j].swarm = invite[j].swarm
                                    /\ invite'[j].used = invite[j].used
      BY <1>20, ExpirySets
    <2> QED
      BY <1>20, <2>1
      DEF InvitationExpires, TypeOK, CallsFit, Codes, Redeeming,
          OfBridge, Deleting, Places, ids, roster, content, history
  <1>21. ASSUME NEW s \in Swarms, UploadReferenceCatalogue(s) PROVE TypeOK'
    BY <1>21
    DEF UploadReferenceCatalogue, TypeOK, CallsFit, Codes, Redeeming,
        OfBridge, Deleting, Places, ids, roster, content, history
  <1>22. ASSUME NEW s \in Swarms, DeleteReferenceCatalogue(s) PROVE TypeOK'
    BY <1>22
    DEF DeleteReferenceCatalogue, TypeOK, CallsFit, Codes, Redeeming,
        OfBridge, Deleting, Places, ids, roster, content, history
  <1>23. ASSUME NEW c \in Calls, RemoveBridgeFromSwarm(c) PROVE TypeOK'
    <2>1. Removes(c)
      BY <1>23, RemovePuts
    <2> QED
      BY <2>1
      DEF Removes, Expels, Ends, Others, TypeOK, CallsFit, Codes, Redeeming,
          OfBridge, Deleting, Places, ids, roster, content, history
  <1>24. ASSUME NEW s \in Swarms, NEW b \in Bridges,
                SetBridgeDisplayName(s, b)
         PROVE  TypeOK'
    <2>1. Renames(s, b)
      BY <1>24, SetNamePuts
    <2> QED
      BY <1>24, <2>1
      DEF SetBridgeDisplayName, Renames, TypeOK, CallsFit, Codes,
          Redeeming, OfBridge, Deleting, Places, ids, roster, content,
          history
  <1>25. ASSUME NEW s \in Swarms, NEW b \in Bridges, IntroduceItself(s, b)
         PROVE  TypeOK'
    <2>1. Renames(s, b)
      BY <1>25, IntroducePuts
    <2> QED
      BY <1>25, <2>1
      DEF IntroduceItself, Renames, TypeOK, CallsFit, Codes, Redeeming,
          OfBridge, Deleting, Places, ids, roster, content, history
  <1>26. ASSUME NEW b \in Bridges, Revoke(b) PROVE TypeOK'
    BY <1>26
    DEF Revoke, TypeOK, CallsFit, Codes, Redeeming, OfBridge,
        Deleting, Places, ids, roster, content, history
  <1>27. ASSUME NEW b \in Bridges, Reenroll(b) PROVE TypeOK'
    BY <1>27
    DEF Reenroll, TypeOK, CallsFit, Codes, Redeeming, OfBridge,
        Deleting, Places, ids, roster, content, history
  <1>28. CASE UNCHANGED vars
    BY <1>28 DEF vars, TypeOK, CallsFit, Codes, Redeeming, OfBridge,
        Deleting, Places, ids, roster, content, history
  <1>29. ASSUME NEW c \in Calls, NEW s \in Swarms, NEW b \in Bridges,
                RemoveItems(c, s, b)
         PROVE  TypeOK'
    <2>1. Asks(c, "removing", None, s, b, None, {})
      BY <1>29, RemoveItemsAsks
    <2> QED
      BY <1>29, <2>1
      DEF RemoveItems, Asks, Others, TypeOK, CallsFit, Codes, Redeeming,
          OfBridge, Deleting, Places, ids, roster, content, history
  <1> QED
    BY <1>1, <1>2, <1>3, <1>4, <1>5, <1>6, <1>7, <1>8, <1>9,
       <1>10, <1>11, <1>12, <1>13, <1>14, <1>15, <1>16, <1>17, <1>18,
       <1>19, <1>20, <1>21, <1>22, <1>23, <1>24, <1>25, <1>26, <1>27,
       <1>28, <1>29
    DEF Next, Request

\* A request keeps what it is about.
LEMMA StepFits ==
  ASSUME TypeOK, CallsFit, [Next]_vars
  PROVE  CallsFit'
  <1> USE NoneIsApart
  <1>1. ASSUME NEW c \in Calls, NEW u \in Users, StartBootstrap(c, u)
        PROVE  CallsFit'
    <2>1. Asks(c, "vacant", u, None, None, None, {})
      BY <1>1, StartBootstrapAsks
    <2> QED
      BY <1>1, <2>1
      DEF StartBootstrap, Asks, Others, TypeOK, CallsFit, Codes,
          Redeeming, OfBridge, Deleting, Places, ids, roster, content,
          history
  <1>2. ASSUME NEW c \in Calls, Bootstrap(c) PROVE CallsFit'
    <2>1. Return(c) => Ends(c)
      BY <1>2, Returns
    <2> QED
      BY <1>2, <2>1
      DEF Bootstrap, Ends, Others, TypeOK, CallsFit, Codes, Redeeming,
          OfBridge, Deleting, Places, ids, roster, content, history
  <1>3. ASSUME NEW c \in Calls, NEW i \in Invitations, NEW b \in Bridges,
               Count(c, i, b)
        PROVE  CallsFit'
    <2>1. Asks(c, "counted", None, invite[i].swarm, b, i, {})
      BY <1>3, CountAsks
    <2>2. /\ invite' \in [Invitations -> Codes]
          /\ invite'[i].swarm = invite[i].swarm
          /\ invite'[i].used = invite[i].used + 1
          /\ \A j \in Invitations \ {i} : invite'[j] = invite[j]
      BY <1>3, CountSets
    <2> QED
      BY <1>3, <2>1, <2>2
      DEF Count, Asks, Others, TypeOK, CallsFit, Codes, Redeeming,
          OfBridge, Deleting, Places, ids, roster, content, history
  <1>4. ASSUME NEW c \in Calls, EnsureBridge(c) PROVE CallsFit'
    <2>1. Moves(c, "ensured")
      BY <1>4, GoesOn DEF EnsureBridge, Places
    <2> QED
      BY <1>4, <2>1
      DEF EnsureBridge, Moves, Others, TypeOK, CallsFit, Codes,
          Redeeming, OfBridge, Deleting, Places, ids, roster, content,
          history
  <1>5. ASSUME NEW c \in Calls, Join(c) PROVE CallsFit'
    <2>1. (Goto(c, "joined") => Moves(c, "joined")) /\ (Return(c) => Ends(c))
      BY <1>5, GoesOn, Returns DEF Places
    <2> QED
      BY <1>5, <2>1
      DEF Join, Moves, Ends, Others, TypeOK, CallsFit, Codes, Redeeming,
          OfBridge, Deleting, Places, ids, roster, content, history
  <1>6. ASSUME NEW c \in Calls, Enroll(c) PROVE CallsFit'
    <2>1. Return(c) => Ends(c)
      BY <1>6, Returns
    <2> QED
      BY <1>6, <2>1
      DEF Enroll, Ends, Others, TypeOK, CallsFit, Codes, Redeeming,
          OfBridge, Deleting, Places, ids, roster, content, history
  <1>7. ASSUME NEW c \in Calls, NEW s \in Swarms, NEW i \in Invitations,
               ClearInvitation(c, s, i)
        PROVE  CallsFit'
    <2>1. Asks(c, "cleared", None, s, None, i,
                {b \in Members(s) : member[s][b].via = i})
      BY <1>7, ClearInvitationAsks
    <2> QED
      BY <1>7, <2>1
      DEF ClearInvitation, Asks, Others, TypeOK, CallsFit, Codes,
          Redeeming, OfBridge, Deleting, Places, ids, roster, content,
          history
  <1>8. ASSUME NEW c \in Calls, DeleteInvitation(c) PROVE CallsFit'
    <2>1. Return(c) => Ends(c)
      BY <1>8, Returns
    <2>2. /\ call[c].at = "cleared"
          /\ ~InviteLocked(call[c].invite)
          /\ Return(c)
          /\ UNCHANGED <<accounts, swarm, bridges, family, content, faults, history>>
          /\ \/ UNCHANGED <<invite, member>>
             \/ /\ invite[call[c].invite].swarm = call[c].swarm
                /\ ~StillNamed(c)
                /\ Unnames(call[c].swarm, call[c].invite, call[c].rows)
      BY <1>8, InvitationGone
    <2> QED
      BY <2>1, <2>2
      DEF Ends, Others, Unnames, TypeOK, CallsFit, Codes, Redeeming,
          OfBridge, Deleting, Places, ids, roster, content, history
  <1>9. ASSUME NEW c \in Calls, NEW s \in Swarms, StartDeleteSwarm(c, s)
        PROVE  CallsFit'
    <2>1. Asks(c, "found", None, s, None, None, {})
      BY <1>9, StartDeleteSwarmAsks
    <2> QED
      BY <1>9, <2>1
      DEF StartDeleteSwarm, Asks, Others, TypeOK, CallsFit, Codes,
          Redeeming, OfBridge, Deleting, Places, ids, roster, content,
          history
  <1>10. ASSUME NEW c \in Calls,
                DeleteItems(c) \/ DeleteSnapshots(c) \/ RemoveSnapshot(c)
         PROVE  CallsFit'
    <2>1. LocksInventory(c)
      BY <1>10, DeletesLock
    <2> QED
      BY <2>1
      DEF LocksInventory, Locks, Others, TypeOK, CallsFit, Codes, Redeeming,
          OfBridge, Deleting, Places, ids, roster, content, history
  <1>11. ASSUME NEW c \in Calls, DeleteMembers(c) PROVE CallsFit'
    <2>1. Locks(c, "expelled", call[c].stored, Members(call[c].swarm),
                call[c].codes)
      BY <1>11, DeleteMembersLocks
    <2> QED
      BY <1>11, <2>1
      DEF DeleteMembers, Locks, Others, TypeOK, CallsFit, Codes,
          Redeeming, OfBridge, Deleting, Places, ids, roster, content,
          history
  <1>12. ASSUME NEW c \in Calls, DeleteInvitations(c) PROVE CallsFit'
    <2>1. \/ Refused(c)
          \/ /\ Locks(c, "uninvited", call[c].stored, call[c].rows,
                      Invites(call[c].swarm))
             /\ UNCHANGED <<ids, roster, content, faults, history>>
      BY <1>12, DeleteInvitationsLocks
    <2>2. Return(c) => Ends(c)
      BY Returns
    <2> QED
      BY <1>12, <2>1, <2>2
      DEF DeleteInvitations, Refused, Locks, Ends, Others, TypeOK,
          CallsFit, Codes, Redeeming, OfBridge, Deleting, Places, ids,
          roster, content, history
  <1>13. ASSUME NEW c \in Calls, DeleteSwarm(c) PROVE CallsFit'
    <2>1. Return(c) => Ends(c)
      BY <1>13, Returns
    <2>2. /\ call[c].at = "uninvited" /\ Return(c)
          /\ \/ UNCHANGED <<ids, roster, content, faults, history>>
             \/ ~StillReferenced(c) /\ Gone(call[c].swarm)
      BY <1>13, SwarmGone
    <2> QED
      BY <2>1, <2>2
      DEF Ends, Others, Gone, TypeOK, CallsFit, Codes, Redeeming,
          OfBridge, Deleting, Places, ids, roster, content, history
  <1>14. ASSUME NEW c \in Calls, NEW s \in Swarms, NEW b \in Bridges,
                StartPublish(c, s, b)
         PROVE  CallsFit'
    <2>1. Asks(c, "allowed", None, s, b, None, {})
      BY <1>14, StartPublishAsks
    <2> QED
      BY <1>14, <2>1
      DEF StartPublish, Asks, Others, TypeOK, CallsFit, Codes,
          Redeeming, OfBridge, Deleting, Places, ids, roster, content,
          history
  <1>15. ASSUME NEW c \in Calls, Replace(c) PROVE CallsFit'
    <2>1. (Goto(c, "stored") => Moves(c, "stored")) /\ (Return(c) => Ends(c))
      BY <1>15, GoesOn, Returns DEF Places
    <2> QED
      BY <1>15, <2>1
      DEF Replace, Moves, Ends, Others, TypeOK, CallsFit, Codes,
          Redeeming, OfBridge, Deleting, Places, ids, roster, content,
          history
  <1>16. ASSUME NEW c \in Calls, ApplyPublishedName(c) PROVE CallsFit'
    <2>1. Return(c) => Ends(c)
      BY <1>16, Returns
    <2> QED
      BY <1>16, <2>1
      DEF ApplyPublishedName, Ends, Others, TypeOK, CallsFit, Codes,
          Redeeming, OfBridge, Deleting, Places, ids, roster, content,
          history
  <1>17. ASSUME NEW c \in Calls, StatementFails(c) PROVE CallsFit'
    <2>1. Return(c) => Ends(c)
      BY <1>17, Returns
    <2> QED
      BY <1>17, <2>1
      DEF StatementFails, Ends, Others, TypeOK, CallsFit, Codes,
          Redeeming, OfBridge, Deleting, Places, ids, roster, content,
          history
  <1>18. ASSUME NEW u \in Users, NEW s \in Swarms, CreateSwarm(u, s)
         PROVE  CallsFit'
    BY <1>18
    DEF CreateSwarm, TypeOK, CallsFit, Codes, Redeeming, OfBridge,
        Deleting, Places, ids, roster, content, history
  <1>19. ASSUME NEW s \in Swarms, NEW i \in Invitations, IssueInvitation(s, i)
         PROVE  CallsFit'
    <2>1. /\ invite' \in [Invitations -> Codes]
          /\ invite'[i].swarm = s /\ invite'[i].used = 0
          /\ \A j \in Invitations \ {i} : invite'[j] = invite[j]
      BY <1>19, IssueSets
    <2> QED
      BY <1>19, <2>1
      DEF IssueInvitation, TypeOK, CallsFit, Codes, Redeeming,
          OfBridge, Deleting, Places, ids, roster, content, history
  <1>20. ASSUME NEW i \in Invitations, InvitationExpires(i) PROVE CallsFit'
    <2>1. /\ invite' \in [Invitations -> Codes]
          /\ \A j \in Invitations : /\ invite'[j].swarm = invite[j].swarm
                                    /\ invite'[j].used = invite[j].used
      BY <1>20, ExpirySets
    <2> QED
      BY <1>20, <2>1
      DEF InvitationExpires, TypeOK, CallsFit, Codes, Redeeming,
          OfBridge, Deleting, Places, ids, roster, content, history
  <1>21. ASSUME NEW s \in Swarms, UploadReferenceCatalogue(s) PROVE CallsFit'
    BY <1>21
    DEF UploadReferenceCatalogue, TypeOK, CallsFit, Codes, Redeeming,
        OfBridge, Deleting, Places, ids, roster, content, history
  <1>22. ASSUME NEW s \in Swarms, DeleteReferenceCatalogue(s) PROVE CallsFit'
    BY <1>22
    DEF DeleteReferenceCatalogue, TypeOK, CallsFit, Codes, Redeeming,
        OfBridge, Deleting, Places, ids, roster, content, history
  <1>23. ASSUME NEW c \in Calls, RemoveBridgeFromSwarm(c) PROVE CallsFit'
    <2>1. Removes(c)
      BY <1>23, RemovePuts
    <2> QED
      BY <2>1
      DEF Removes, Expels, Ends, Others, TypeOK, CallsFit, Codes, Redeeming,
          OfBridge, Deleting, Places, ids, roster, content, history
  <1>24. ASSUME NEW s \in Swarms, NEW b \in Bridges,
                SetBridgeDisplayName(s, b)
         PROVE  CallsFit'
    BY <1>24
    DEF SetBridgeDisplayName, TypeOK, CallsFit, Codes, Redeeming,
        OfBridge, Deleting, Places, ids, roster, content, history
  <1>25. ASSUME NEW s \in Swarms, NEW b \in Bridges, IntroduceItself(s, b)
         PROVE  CallsFit'
    BY <1>25
    DEF IntroduceItself, TypeOK, CallsFit, Codes, Redeeming, OfBridge,
        Deleting, Places, ids, roster, content, history
  <1>26. ASSUME NEW b \in Bridges, Revoke(b) PROVE CallsFit'
    BY <1>26
    DEF Revoke, TypeOK, CallsFit, Codes, Redeeming, OfBridge,
        Deleting, Places, ids, roster, content, history
  <1>27. ASSUME NEW b \in Bridges, Reenroll(b) PROVE CallsFit'
    BY <1>27
    DEF Reenroll, TypeOK, CallsFit, Codes, Redeeming, OfBridge,
        Deleting, Places, ids, roster, content, history
  <1>28. CASE UNCHANGED vars
    BY <1>28 DEF vars, TypeOK, CallsFit, Codes, Redeeming, OfBridge,
        Deleting, Places, ids, roster, content, history
  <1>29. ASSUME NEW c \in Calls, NEW s \in Swarms, NEW b \in Bridges,
                RemoveItems(c, s, b)
         PROVE  CallsFit'
    <2>1. Asks(c, "removing", None, s, b, None, {})
      BY <1>29, RemoveItemsAsks
    <2> QED
      BY <1>29, <2>1
      DEF RemoveItems, Asks, Others, TypeOK, CallsFit, Codes, Redeeming,
          OfBridge, Deleting, Places, ids, roster, content, history
  <1> QED
    BY <1>1, <1>2, <1>3, <1>4, <1>5, <1>6, <1>7, <1>8, <1>9,
       <1>10, <1>11, <1>12, <1>13, <1>14, <1>15, <1>16, <1>17, <1>18,
       <1>19, <1>20, <1>21, <1>22, <1>23, <1>24, <1>25, <1>26, <1>27,
       <1>28, <1>29
    DEF Next, Request

\* ReferencesHold, row by row.
InvitesHeld == \A i \in Invitations : invite[i].swarm # None => Live(invite[i].swarm)
CataloguesHeld == \A t \in catalogue : Live(t)
InventoriesHeld == \A t \in Swarms : inventory[t] # {} => Live(t)
MembersHeld ==
  \A t \in Swarms, d \in Bridges : member[t][d].in =>
    /\ Live(t)
    /\ member[t][d].via # None => invite[member[t][d].via].swarm = t

LEMMA RowByRow ==
  ReferencesHold <=> InvitesHeld /\ CataloguesHeld /\ InventoriesHeld /\ MembersHeld
  BY DEF ReferencesHold, Members, InvitesHeld, CataloguesHeld, InventoriesHeld,
         MembersHeld

LEMMA RenamesHold ==
  ASSUME NEW s, NEW b, Renames(s, b), MembersHeld, UNCHANGED <<swarm, invite>>
  PROVE  MembersHeld'
  <1>1. \A t \in Swarms, d \in Bridges :
          (member'[t][d].in <=> member[t][d].in) /\ member'[t][d].via = member[t][d].via
    BY DEF Renames
  <1> QED
    BY <1>1 DEF MembersHeld, Live

\* Whoever takes a row away has found nothing that names it.
LEMMA HeldStep ==
  ASSUME TypeOK, CallsFit, MintedOnce, OwnerNameHolds, InvitesHeld,
         CataloguesHeld, InventoriesHeld, MembersHeld, [Next]_vars
  PROVE  (InvitesHeld /\ CataloguesHeld /\ InventoriesHeld /\ MembersHeld)'
  <1> DEFINE Held == InvitesHeld /\ CataloguesHeld /\ InventoriesHeld /\ MembersHeld
  <1>a. /\ \A t \in Swarms, d \in Bridges : member[t][d].via \in Invitations \cup {None}
        /\ swarm \in [Swarms -> Users \cup {None}]
        /\ catalogue \subseteq Swarms
        /\ inventory \in [Swarms -> SUBSET Inventories]
        /\ None \notin Users /\ None \notin Swarms /\ None \notin Invitations
    BY NoneIsApart DEF TypeOK, Rows
  <1>b. \A c \in Calls :
          /\ call[c].at \in {"ensured", "allowed", "removed"} =>
               call[c].swarm \in Swarms /\ call[c].bridge \in Bridges
          /\ call[c].at \in {"ensured", "cleared"} => call[c].invite \in Invitations
          /\ call[c].at \in {"cleared", "uninvited"} => call[c].swarm \in Swarms
    BY DEF CallsFit, Redeeming, OfBridge, Deleting
  <1>c. \A i \in Invitations : i \notin minted => invite[i].swarm = None
    BY DEF MintedOnce
  <1>1. ASSUME NEW c \in Calls, NEW u \in Users, StartBootstrap(c, u)
        PROVE  Held'
    BY <1>1
    DEF StartBootstrap, InvitesHeld, CataloguesHeld, InventoriesHeld,
        MembersHeld, Live, ids, roster, content, history
  <1>2. ASSUME NEW c \in Calls, Bootstrap(c) PROVE Held'
    BY <1>2
    DEF Bootstrap, InvitesHeld, CataloguesHeld, InventoriesHeld,
        MembersHeld, Live, ids, roster, content, history
  <1>3. ASSUME NEW c \in Calls, NEW i \in Invitations, NEW b \in Bridges,
               Count(c, i, b)
        PROVE  Held'
    <2>1. /\ invite' \in [Invitations -> Codes]
          /\ invite'[i].swarm = invite[i].swarm
          /\ invite'[i].used = invite[i].used + 1
          /\ \A j \in Invitations \ {i} : invite'[j] = invite[j]
      BY <1>3, CountSets
    <2> QED
      BY <1>3, <1>a, <2>1
      DEF Count, InvitesHeld, CataloguesHeld, InventoriesHeld,
          MembersHeld, Live, ids, roster, content, history
  <1>4. ASSUME NEW c \in Calls, EnsureBridge(c) PROVE Held'
    BY <1>4
    DEF EnsureBridge, InvitesHeld, CataloguesHeld, InventoriesHeld,
        MembersHeld, Live, ids, roster, content, history
  <1>5. ASSUME NEW c \in Calls, Join(c) PROVE Held'
    <2>1. Joins(c) /\ UNCHANGED <<swarm, invite, catalogue, inventory>>
      BY <1>5, JoinPuts DEF Join, ids, content
    <2>2. InvitesHeld' /\ CataloguesHeld' /\ InventoriesHeld'
      BY <2>1 DEF InvitesHeld, CataloguesHeld, InventoriesHeld, Live
    <2>3. call[c].invite \in Invitations
      BY <1>5, <1>b DEF Join
    <2>4. MembersHeld'
      BY <2>1, <2>3, <1>a DEF Joins, MembersHeld, InvitesHeld, Live
    <2> QED
      BY <2>2, <2>4
  <1>6. ASSUME NEW c \in Calls, Enroll(c) PROVE Held'
    BY <1>6
    DEF Enroll, InvitesHeld, CataloguesHeld, InventoriesHeld,
        MembersHeld, Live, ids, roster, content, history
  <1>7. ASSUME NEW c \in Calls, NEW s \in Swarms, NEW i \in Invitations,
               ClearInvitation(c, s, i)
        PROVE  Held'
    BY <1>7
    DEF ClearInvitation, InvitesHeld, CataloguesHeld, InventoriesHeld,
        MembersHeld, Live, ids, roster, content, history
  <1>8. ASSUME NEW c \in Calls, DeleteInvitation(c) PROVE Held'
    <2> DEFINE s == call[c].swarm  i == call[c].invite
    <2>1. /\ UNCHANGED <<swarm, catalogue, inventory>>
          /\ \/ UNCHANGED <<invite, member>>
             \/ invite[i].swarm = s /\ ~StillNamed(c) /\ Unnames(s, i, call[c].rows)
      BY <1>8, InvitationGone DEF content
    <2>2. s \in Swarms /\ i \in Invitations
      BY <1>8, <1>b DEF DeleteInvitation
    <2>3. InvitesHeld' /\ CataloguesHeld' /\ InventoriesHeld'
      BY <2>1, <2>2 DEF InvitesHeld, CataloguesHeld, InventoriesHeld, Live, Unnames
    <2>4. ASSUME invite[i].swarm = s, ~StillNamed(c),
                 Unnames(s, i, call[c].rows)
          PROVE  MembersHeld'
      <3> SUFFICES ASSUME NEW t \in Swarms, NEW d \in Bridges, member'[t][d].in,
                          member'[t][d].via # None
                   PROVE  invite'[member'[t][d].via].swarm = t
        BY <2>1, <2>4 DEF MembersHeld, Unnames, Live
      <3>1. /\ member[t][d].in /\ member'[t][d].via = member[t][d].via
            /\ ~(t = s /\ d \in call[c].rows)
        BY <2>4 DEF Unnames
      <3>2. member[t][d].via \in Invitations /\ invite[member[t][d].via].swarm = t
        BY <3>1, <1>a DEF MembersHeld
      <3>3. member[t][d].via # i
        <4>1. CASE t = s
          BY <4>1, <2>4, <3>1 DEF StillNamed, Members
        <4>2. CASE t # s
          BY <4>2, <2>4, <3>2
        <4> QED
          BY <4>1, <4>2
      <3> QED
        BY <2>4, <3>1, <3>2, <3>3 DEF Unnames
    <2>5. ASSUME UNCHANGED <<invite, member>> PROVE MembersHeld'
      BY <2>1, <2>5 DEF MembersHeld, Live
    <2> QED
      BY <2>1, <2>3, <2>4, <2>5
  <1>9. ASSUME NEW c \in Calls, NEW s \in Swarms, StartDeleteSwarm(c, s)
        PROVE  Held'
    BY <1>9
    DEF StartDeleteSwarm, InvitesHeld, CataloguesHeld, InventoriesHeld,
        MembersHeld, Live, ids, roster, content, history
  <1>10. ASSUME NEW c \in Calls,
                DeleteItems(c) \/ DeleteSnapshots(c) \/ RemoveSnapshot(c)
         PROVE  Held'
    <2>1. LocksInventory(c)
      BY <1>10, DeletesLock
    <2> QED
      BY <2>1
      DEF LocksInventory, Locks, Others, InvitesHeld, CataloguesHeld,
          InventoriesHeld, MembersHeld, Live, ids, roster, content, history
  <1>11. ASSUME NEW c \in Calls, DeleteMembers(c) PROVE Held'
    BY <1>11
    DEF DeleteMembers, InvitesHeld, CataloguesHeld, InventoriesHeld,
        MembersHeld, Live, ids, roster, content, history
  <1>12. ASSUME NEW c \in Calls, DeleteInvitations(c) PROVE Held'
    BY <1>12
    DEF DeleteInvitations, Refused, InvitesHeld, CataloguesHeld,
        InventoriesHeld, MembersHeld, Live, ids, roster, content,
        history
  <1>13. ASSUME NEW c \in Calls, DeleteSwarm(c) PROVE Held'
    <2> DEFINE s == call[c].swarm
    <2>1. \/ UNCHANGED <<ids, roster, content, faults, history>>
          \/ ~StillReferenced(c) /\ Gone(s)
      BY <1>13, SwarmGone
    <2>2. CASE UNCHANGED <<ids, roster, content, faults, history>>
      BY <2>2 DEF ids, roster, content, InvitesHeld, CataloguesHeld,
                  InventoriesHeld, MembersHeld, Live
    <2>3. CASE ~StillReferenced(c) /\ Gone(s)
      <3>1. s \in Swarms /\ s \notin catalogue
        BY <1>13, <1>b, <2>3 DEF DeleteSwarm, StillReferenced
      <3> HIDE DEF s
      <3>2. \A t \in Swarms : Live(t)' <=> Live(t) /\ t # s
        BY <1>a, <2>3, <3>1 DEF Gone, Live
      <3>3. CataloguesHeld' /\ InventoriesHeld'
        BY <1>a, <2>3, <3>1, <3>2 DEF Gone, CataloguesHeld, InventoriesHeld
      <3>4. \A i \in Invitations :
              invite'[i].swarm = IF invite[i].swarm = s THEN None ELSE invite[i].swarm
        BY <2>3 DEF Gone, Invites
      <3>5. \A i \in Invitations : invite[i].swarm \in Swarms \cup {None}
        BY DEF TypeOK, Codes
      <3>6. InvitesHeld'
        BY <3>2, <3>4, <3>5 DEF InvitesHeld
      <3>7. \A t \in Swarms, d \in Bridges : member'[t][d].in =>
              t # s /\ member'[t][d] = member[t][d]
        BY <2>3 DEF Gone
      <3>8. MembersHeld'
        BY <1>a, <3>2, <3>4, <3>7 DEF MembersHeld
      <3> QED
        BY <3>3, <3>6, <3>8
    <2> QED
      BY <2>1, <2>2, <2>3
  <1>14. ASSUME NEW c \in Calls, NEW s \in Swarms, NEW b \in Bridges,
                StartPublish(c, s, b)
         PROVE  Held'
    BY <1>14
    DEF StartPublish, InvitesHeld, CataloguesHeld, InventoriesHeld,
        MembersHeld, Live, ids, roster, content, history
  <1>15. ASSUME NEW c \in Calls, Replace(c) PROVE Held'
    <2> QED
      BY <1>15, <1>a, <1>b
      DEF Replace, InvitesHeld, CataloguesHeld, InventoriesHeld,
          MembersHeld, Live, ids, roster, content, history
  <1>16. ASSUME NEW c \in Calls, ApplyPublishedName(c) PROVE Held'
    <2>1. UNCHANGED member \/ Renames(call[c].swarm, call[c].bridge)
      BY <1>16, ApplyPuts
    <2>2. MembersHeld'
      BY <1>16, <2>1, RenamesHold DEF ApplyPublishedName, ids, MembersHeld, Live
    <2> QED
      BY <1>16, <2>2 DEF ApplyPublishedName, ids, content, InvitesHeld,
                     CataloguesHeld, InventoriesHeld, Live
  <1>17. ASSUME NEW c \in Calls, StatementFails(c) PROVE Held'
    BY <1>17
    DEF StatementFails, InvitesHeld, CataloguesHeld, InventoriesHeld,
        MembersHeld, Live, ids, roster, content, history
  <1>18. ASSUME NEW u \in Users, NEW s \in Swarms, CreateSwarm(u, s)
         PROVE  Held'
    <2> QED
      BY <1>18, <1>a
      DEF CreateSwarm, InvitesHeld, CataloguesHeld, InventoriesHeld,
          MembersHeld, Live, ids, roster, content, history
  <1>19. ASSUME NEW s \in Swarms, NEW i \in Invitations, IssueInvitation(s, i)
         PROVE  Held'
    <2>1. /\ invite' \in [Invitations -> Codes]
          /\ invite'[i].swarm = s /\ invite'[i].used = 0
          /\ \A j \in Invitations \ {i} : invite'[j] = invite[j]
      BY <1>19, IssueSets
    <2> QED
      BY <1>19, <1>a, <1>c, <2>1
      DEF IssueInvitation, InvitesHeld, CataloguesHeld, InventoriesHeld,
          MembersHeld, Live, ids, roster, content, history
  <1>20. ASSUME NEW i \in Invitations, InvitationExpires(i) PROVE Held'
    <2>1. /\ invite' \in [Invitations -> Codes]
          /\ \A j \in Invitations : /\ invite'[j].swarm = invite[j].swarm
                                    /\ invite'[j].used = invite[j].used
      BY <1>20, ExpirySets
    <2> QED
      BY <1>20, <1>a, <2>1
      DEF InvitationExpires, InvitesHeld, CataloguesHeld,
          InventoriesHeld, MembersHeld, Live, ids, roster, content,
          history
  <1>21. ASSUME NEW s \in Swarms, UploadReferenceCatalogue(s) PROVE Held'
    <2> QED
      BY <1>21, <1>a
      DEF UploadReferenceCatalogue, InvitesHeld, CataloguesHeld,
          InventoriesHeld, MembersHeld, Live, ids, roster, content,
          history
  <1>22. ASSUME NEW s \in Swarms, DeleteReferenceCatalogue(s) PROVE Held'
    BY <1>22
    DEF DeleteReferenceCatalogue, InvitesHeld, CataloguesHeld,
        InventoriesHeld, MembersHeld, Live, ids, roster, content,
        history
  <1>23. ASSUME NEW c \in Calls, RemoveBridgeFromSwarm(c) PROVE Held'
    <2>1. Removes(c)
      BY <1>23, RemovePuts
    <2>2. InvitesHeld' /\ CataloguesHeld'
      BY <2>1 DEF Removes, ids, InvitesHeld, CataloguesHeld, Live
    <2>3. InventoriesHeld'
      BY <2>1 DEF Removes, ids, InventoriesHeld, Live
    <2>4. MembersHeld'
      BY <1>a, <2>1 DEF Removes, Expels, ids, MembersHeld, Live
    <2> QED
      BY <2>2, <2>3, <2>4
  <1>24. ASSUME NEW s \in Swarms, NEW b \in Bridges,
                SetBridgeDisplayName(s, b)
         PROVE  Held'
    <2>1. Renames(s, b)
      BY <1>24, SetNamePuts
    <2>2. MembersHeld'
      BY <1>24, <2>1, RenamesHold DEF SetBridgeDisplayName, ids
    <2> QED
      BY <1>24, <2>2 DEF SetBridgeDisplayName, ids, content, InvitesHeld,
                     CataloguesHeld, InventoriesHeld, Live
  <1>25. ASSUME NEW s \in Swarms, NEW b \in Bridges, IntroduceItself(s, b)
         PROVE  Held'
    <2>1. Renames(s, b)
      BY <1>25, IntroducePuts
    <2>2. MembersHeld'
      BY <1>25, <2>1, RenamesHold DEF IntroduceItself, ids
    <2> QED
      BY <1>25, <2>2 DEF IntroduceItself, ids, content, InvitesHeld,
                     CataloguesHeld, InventoriesHeld, Live
  <1>26. ASSUME NEW b \in Bridges, Revoke(b) PROVE Held'
    BY <1>26
    DEF Revoke, InvitesHeld, CataloguesHeld, InventoriesHeld,
        MembersHeld, Live, ids, roster, content, history
  <1>27. ASSUME NEW b \in Bridges, Reenroll(b) PROVE Held'
    BY <1>27
    DEF Reenroll, InvitesHeld, CataloguesHeld, InventoriesHeld,
        MembersHeld, Live, ids, roster, content, history
  <1>28. CASE UNCHANGED vars
    BY <1>28 DEF vars, InvitesHeld, CataloguesHeld, InventoriesHeld,
        MembersHeld, Live, ids, roster, content, history
  <1>29. ASSUME NEW c \in Calls, NEW s \in Swarms, NEW b \in Bridges,
                RemoveItems(c, s, b)
         PROVE  Held'
    <2>1. Asks(c, "removing", None, s, b, None, {})
      BY <1>29, RemoveItemsAsks
    <2> QED
      BY <1>29, <2>1
      DEF RemoveItems, Asks, Others, InvitesHeld, CataloguesHeld,
          InventoriesHeld, MembersHeld, Live, ids, roster, content, history
  <1> QED
    BY <1>1, <1>2, <1>3, <1>4, <1>5, <1>6, <1>7, <1>8, <1>9,
       <1>10, <1>11, <1>12, <1>13, <1>14, <1>15, <1>16, <1>17, <1>18,
       <1>19, <1>20, <1>21, <1>22, <1>23, <1>24, <1>25, <1>26, <1>27,
       <1>28, <1>29
    DEF Next, Request

\* Both names are written under the same condition.
LEMMA NameStep ==
  ASSUME TypeOK, CallsFit, OwnerNameHolds, [Next]_vars
  PROVE  OwnerNameHolds'
  <1>1. ASSUME NEW c \in Calls, NEW u \in Users, StartBootstrap(c, u)
        PROVE  OwnerNameHolds'
    BY <1>1
    DEF StartBootstrap, OwnerNameHolds, Members, ids, roster, content,
        history
  <1>2. ASSUME NEW c \in Calls, Bootstrap(c) PROVE OwnerNameHolds'
    BY <1>2
    DEF Bootstrap, OwnerNameHolds, Members, ids, roster, content,
        history
  <1>3. ASSUME NEW c \in Calls, NEW i \in Invitations, NEW b \in Bridges,
               Count(c, i, b)
        PROVE  OwnerNameHolds'
    <2>1. /\ invite' \in [Invitations -> Codes]
          /\ invite'[i].swarm = invite[i].swarm
          /\ invite'[i].used = invite[i].used + 1
          /\ \A j \in Invitations \ {i} : invite'[j] = invite[j]
      BY <1>3, CountSets
    <2> QED
      BY <1>3, <2>1
      DEF Count, OwnerNameHolds, Members, ids, roster, content, history
  <1>4. ASSUME NEW c \in Calls, EnsureBridge(c) PROVE OwnerNameHolds'
    BY <1>4
    DEF EnsureBridge, OwnerNameHolds, Members, ids, roster, content,
        history
  <1>5. ASSUME NEW c \in Calls, Join(c) PROVE OwnerNameHolds'
    <2>1. Joins(c)
      BY <1>5, JoinPuts
    <2> QED
      BY SMTT(30), <1>5, <2>1
      DEF Join, Joins, OwnerNameHolds, Members, ids, roster, content,
          history
  <1>6. ASSUME NEW c \in Calls, Enroll(c) PROVE OwnerNameHolds'
    BY <1>6
    DEF Enroll, OwnerNameHolds, Members, ids, roster, content, history
  <1>7. ASSUME NEW c \in Calls, NEW s \in Swarms, NEW i \in Invitations,
               ClearInvitation(c, s, i)
        PROVE  OwnerNameHolds'
    BY <1>7
    DEF ClearInvitation, OwnerNameHolds, Members, ids, roster, content,
        history
  <1>8. ASSUME NEW c \in Calls, DeleteInvitation(c) PROVE OwnerNameHolds'
    <2>1. /\ call[c].at = "cleared"
          /\ ~InviteLocked(call[c].invite)
          /\ Return(c)
          /\ UNCHANGED <<accounts, swarm, bridges, family, content, faults, history>>
          /\ \/ UNCHANGED <<invite, member>>
             \/ /\ invite[call[c].invite].swarm = call[c].swarm
                /\ ~StillNamed(c)
                /\ Unnames(call[c].swarm, call[c].invite, call[c].rows)
      BY <1>8, InvitationGone
    <2> QED
      BY <2>1
      DEF Unnames, OwnerNameHolds, Members, ids, roster, content,
          history
  <1>9. ASSUME NEW c \in Calls, NEW s \in Swarms, StartDeleteSwarm(c, s)
        PROVE  OwnerNameHolds'
    BY <1>9
    DEF StartDeleteSwarm, OwnerNameHolds, Members, ids, roster, content,
        history
  <1>10. ASSUME NEW c \in Calls,
                DeleteItems(c) \/ DeleteSnapshots(c) \/ RemoveSnapshot(c)
         PROVE  OwnerNameHolds'
    <2>1. LocksInventory(c)
      BY <1>10, DeletesLock
    <2> QED
      BY <2>1
      DEF LocksInventory, Locks, Others, OwnerNameHolds, Members, ids,
          roster, content, history
  <1>11. ASSUME NEW c \in Calls, DeleteMembers(c) PROVE OwnerNameHolds'
    BY <1>11
    DEF DeleteMembers, OwnerNameHolds, Members, ids, roster, content,
        history
  <1>12. ASSUME NEW c \in Calls, DeleteInvitations(c) PROVE OwnerNameHolds'
    BY <1>12
    DEF DeleteInvitations, Refused, OwnerNameHolds, Members, ids,
        roster, content, history
  <1>13. ASSUME NEW c \in Calls, DeleteSwarm(c) PROVE OwnerNameHolds'
    <2>1. /\ call[c].at = "uninvited" /\ Return(c)
          /\ \/ UNCHANGED <<ids, roster, content, faults, history>>
             \/ ~StillReferenced(c) /\ Gone(call[c].swarm)
      BY <1>13, SwarmGone
    <2> QED
      BY <2>1
      DEF Gone, OwnerNameHolds, Members, ids, roster, content, history
  <1>14. ASSUME NEW c \in Calls, NEW s \in Swarms, NEW b \in Bridges,
                StartPublish(c, s, b)
         PROVE  OwnerNameHolds'
    BY <1>14
    DEF StartPublish, OwnerNameHolds, Members, ids, roster, content,
        history
  <1>15. ASSUME NEW c \in Calls, Replace(c) PROVE OwnerNameHolds'
    BY <1>15
    DEF Replace, OwnerNameHolds, Members, ids, roster, content, history
  <1>16. ASSUME NEW c \in Calls, ApplyPublishedName(c) PROVE OwnerNameHolds'
    <2>1. \/ UNCHANGED member
          \/ /\ Renames(call[c].swarm, call[c].bridge)
             /\ ~MemberLocked(call[c].swarm, call[c].bridge)
      BY <1>16, ApplyPuts
    <2>2. CASE UNCHANGED member
      BY <2>2 DEF OwnerNameHolds, Members
    <2>3. CASE Renames(call[c].swarm, call[c].bridge)
      BY <2>3 DEF Renames, OwnerNameHolds, Members
    <2> QED
      BY <2>1, <2>2, <2>3
  <1>17. ASSUME NEW c \in Calls, StatementFails(c) PROVE OwnerNameHolds'
    BY <1>17
    DEF StatementFails, OwnerNameHolds, Members, ids, roster, content,
        history
  <1>18. ASSUME NEW u \in Users, NEW s \in Swarms, CreateSwarm(u, s)
         PROVE  OwnerNameHolds'
    BY <1>18
    DEF CreateSwarm, OwnerNameHolds, Members, ids, roster, content,
        history
  <1>19. ASSUME NEW s \in Swarms, NEW i \in Invitations, IssueInvitation(s, i)
         PROVE  OwnerNameHolds'
    <2>1. /\ invite' \in [Invitations -> Codes]
          /\ invite'[i].swarm = s /\ invite'[i].used = 0
          /\ \A j \in Invitations \ {i} : invite'[j] = invite[j]
      BY <1>19, IssueSets
    <2> QED
      BY <1>19, <2>1
      DEF IssueInvitation, OwnerNameHolds, Members, ids, roster,
          content, history
  <1>20. ASSUME NEW i \in Invitations, InvitationExpires(i)
         PROVE  OwnerNameHolds'
    <2>1. /\ invite' \in [Invitations -> Codes]
          /\ \A j \in Invitations : /\ invite'[j].swarm = invite[j].swarm
                                    /\ invite'[j].used = invite[j].used
      BY <1>20, ExpirySets
    <2> QED
      BY <1>20, <2>1
      DEF InvitationExpires, OwnerNameHolds, Members, ids, roster,
          content, history
  <1>21. ASSUME NEW s \in Swarms, UploadReferenceCatalogue(s)
         PROVE  OwnerNameHolds'
    BY <1>21
    DEF UploadReferenceCatalogue, OwnerNameHolds, Members, ids, roster,
        content, history
  <1>22. ASSUME NEW s \in Swarms, DeleteReferenceCatalogue(s)
         PROVE  OwnerNameHolds'
    BY <1>22
    DEF DeleteReferenceCatalogue, OwnerNameHolds, Members, ids, roster,
        content, history
  <1>23. ASSUME NEW c \in Calls, RemoveBridgeFromSwarm(c) PROVE OwnerNameHolds'
    <2>1. Removes(c)
      BY <1>23, RemovePuts
    <2> QED
      BY <2>1
      DEF Removes, Expels, Ends, Others, OwnerNameHolds, Members, ids,
          roster, content, history
  <1>24. ASSUME NEW s \in Swarms, NEW b \in Bridges,
                SetBridgeDisplayName(s, b)
         PROVE  OwnerNameHolds'
    <2>1. Renames(s, b)
      BY <1>24, SetNamePuts
    <2> QED
      BY <1>24, <2>1
      DEF SetBridgeDisplayName, Renames, OwnerNameHolds, Members, ids,
          roster, content, history
  <1>25. ASSUME NEW s \in Swarms, NEW b \in Bridges, IntroduceItself(s, b)
         PROVE  OwnerNameHolds'
    <2>1. Renames(s, b)
      BY <1>25, IntroducePuts
    <2> QED
      BY <1>25, <2>1
      DEF IntroduceItself, Renames, OwnerNameHolds, Members, ids,
          roster, content, history
  <1>26. ASSUME NEW b \in Bridges, Revoke(b) PROVE OwnerNameHolds'
    BY <1>26
    DEF Revoke, OwnerNameHolds, Members, ids, roster, content, history
  <1>27. ASSUME NEW b \in Bridges, Reenroll(b) PROVE OwnerNameHolds'
    BY <1>27
    DEF Reenroll, OwnerNameHolds, Members, ids, roster, content, history
  <1>28. CASE UNCHANGED vars
    BY <1>28 DEF vars, OwnerNameHolds, Members, ids, roster, content,
        history
  <1>29. ASSUME NEW c \in Calls, NEW s \in Swarms, NEW b \in Bridges,
                RemoveItems(c, s, b)
         PROVE  OwnerNameHolds'
    <2>1. Asks(c, "removing", None, s, b, None, {})
      BY <1>29, RemoveItemsAsks
    <2> QED
      BY <1>29, <2>1
      DEF RemoveItems, Asks, Others, OwnerNameHolds, Members, ids, roster,
          content, history
  <1> QED
    BY <1>1, <1>2, <1>3, <1>4, <1>5, <1>6, <1>7, <1>8, <1>9,
       <1>10, <1>11, <1>12, <1>13, <1>14, <1>15, <1>16, <1>17, <1>18,
       <1>19, <1>20, <1>21, <1>22, <1>23, <1>24, <1>25, <1>26, <1>27,
       <1>28, <1>29
    DEF Next, Request

\* A redemption of d has made a member, and not enrolled it yet.
Enrolling(d) == \E c \in Calls : call[c].at = "joined" /\ call[c].bridge = d

\* A redemption that has made a member goes on to enroll its Bridge.
LEMMA MemberStep ==
  ASSUME TypeOK, CallsFit, OwnerNameHolds, MembersCanConnect, [Next]_vars
  PROVE  MembersCanConnect'
  <1>a. \A c \in Calls :
          /\ call[c].at \in {"ensured", "joined"} => call[c].bridge \in bridges
          /\ call[c].at \in {"ensured", "stored", "removed"} =>
               call[c].swarm \in Swarms /\ call[c].bridge \in Bridges
    BY DEF CallsFit, Redeeming, OfBridge
  <1>b. family \in [Bridges -> {"none", "live", "revoked"}] /\ faults \in Nat
    BY DEF TypeOK
  <1>1. ASSUME NEW c \in Calls, NEW u \in Users, StartBootstrap(c, u)
        PROVE  MembersCanConnect'
    <2>1. Asks(c, "vacant", u, None, None, None, {})
      BY <1>1, StartBootstrapAsks
    <2> QED
      BY <1>1, <2>1
      DEF StartBootstrap, Asks, Others, MembersCanConnect, Members, ids,
          roster, content, history
  <1>2. ASSUME NEW c \in Calls, Bootstrap(c) PROVE MembersCanConnect'
    <2>1. Return(c) => Ends(c)
      BY <1>2, Returns
    <2> QED
      BY <1>2, <2>1
      DEF Bootstrap, Ends, Others, MembersCanConnect, Members, ids,
          roster, content, history
  <1>3. ASSUME NEW c \in Calls, NEW i \in Invitations, NEW b \in Bridges,
               Count(c, i, b)
        PROVE  MembersCanConnect'
    <2>1. Asks(c, "counted", None, invite[i].swarm, b, i, {})
      BY <1>3, CountAsks
    <2>2. /\ invite' \in [Invitations -> Codes]
          /\ invite'[i].swarm = invite[i].swarm
          /\ invite'[i].used = invite[i].used + 1
          /\ \A j \in Invitations \ {i} : invite'[j] = invite[j]
      BY <1>3, CountSets
    <2> QED
      BY <1>3, <2>1, <2>2
      DEF Count, Asks, Others, MembersCanConnect, Members, ids, roster,
          content, history
  <1>4. ASSUME NEW c \in Calls, EnsureBridge(c) PROVE MembersCanConnect'
    <2>1. Moves(c, "ensured")
      BY <1>4, GoesOn DEF EnsureBridge, Places
    <2> QED
      BY <1>4, <1>a, <1>b, <2>1
      DEF EnsureBridge, Moves, Others, MembersCanConnect, Members, ids,
          roster, content, history
  <1>5. ASSUME NEW c \in Calls, Join(c) PROVE MembersCanConnect'
    <2>1. Joins(c) /\ UNCHANGED <<bridges, family, faults>> /\ call[c].at = "ensured"
      BY <1>5, JoinPuts DEF Join, ids
    <2>2. (Goto(c, "joined") => Moves(c, "joined")) /\ (Return(c) => Ends(c))
      BY GoesOn, Returns DEF Places
    <2>3. Others(c)
      BY <1>5, <2>2 DEF Join, Moves, Ends
    <2>4. SUFFICES ASSUME NEW t \in Swarms, NEW d \in Bridges, member'[t][d].in
                   PROVE  d \in bridges' /\ (family'[d] # "none" \/ faults' > 0
                                              \/ Enrolling(d)')
      BY DEF MembersCanConnect, Members, Enrolling
    <2>5. CASE member[t][d].in
      <3>1. d \in bridges /\ (family[d] # "none" \/ faults > 0 \/ Enrolling(d))
        BY <2>5 DEF MembersCanConnect, Members, Enrolling
      <3>2. Enrolling(d) => Enrolling(d)'
        BY <2>1, <2>3 DEF Enrolling, Others
      <3> QED
        BY <2>1, <3>1, <3>2
    <2>6. CASE ~member[t][d].in
      <3>1. t = call[c].swarm /\ d = call[c].bridge /\ Goto(c, "joined")
        BY <2>1, <2>4, <2>6 DEF Joins
      <3>2. Enrolling(d)'
        BY <2>2, <3>1 DEF Enrolling, Moves
      <3> QED
        BY <1>a, <2>1, <3>1, <3>2
    <2> QED
      BY <2>5, <2>6
  <1>6. ASSUME NEW c \in Calls, Enroll(c) PROVE MembersCanConnect'
    <2>1. Return(c) => Ends(c)
      BY <1>6, Returns
    <2> QED
      BY <1>6, <1>a, <1>b, <2>1
      DEF Enroll, Ends, Others, MembersCanConnect, Members, ids, roster,
          content, history
  <1>7. ASSUME NEW c \in Calls, NEW s \in Swarms, NEW i \in Invitations,
               ClearInvitation(c, s, i)
        PROVE  MembersCanConnect'
    <2>1. Asks(c, "cleared", None, s, None, i,
                {b \in Members(s) : member[s][b].via = i})
      BY <1>7, ClearInvitationAsks
    <2> QED
      BY <1>7, <2>1
      DEF ClearInvitation, Asks, Others, MembersCanConnect, Members,
          ids, roster, content, history
  <1>8. ASSUME NEW c \in Calls, DeleteInvitation(c) PROVE MembersCanConnect'
    <2>1. Others(c) /\ call[c].at # "joined"
      BY <1>8, Returns DEF DeleteInvitation, Ends
    <2>2. /\ UNCHANGED <<bridges, family, faults>>
          /\ \A t \in Swarms, d \in Bridges : member'[t][d].in => member[t][d].in
      BY <1>8, <1>a, InvitationGone DEF Unnames
    <2>3. \A d \in Bridges : Enrolling(d) => Enrolling(d)'
      BY <2>1 DEF Enrolling, Others
    <2> QED
      BY <2>2, <2>3 DEF MembersCanConnect, Members, Enrolling
  <1>9. ASSUME NEW c \in Calls, NEW s \in Swarms, StartDeleteSwarm(c, s)
        PROVE  MembersCanConnect'
    <2>1. Asks(c, "found", None, s, None, None, {})
      BY <1>9, StartDeleteSwarmAsks
    <2> QED
      BY <1>9, <2>1
      DEF StartDeleteSwarm, Asks, Others, MembersCanConnect, Members,
          ids, roster, content, history
  <1>10. ASSUME NEW c \in Calls,
                DeleteItems(c) \/ DeleteSnapshots(c) \/ RemoveSnapshot(c)
         PROVE  MembersCanConnect'
    <2>1. LocksInventory(c)
      BY <1>10, DeletesLock
    <2> QED
      BY <2>1
      DEF LocksInventory, Locks, Others, MembersCanConnect, Members, ids,
          roster, content, history
  <1>11. ASSUME NEW c \in Calls, DeleteMembers(c) PROVE MembersCanConnect'
    <2>1. Locks(c, "expelled", call[c].stored, Members(call[c].swarm),
                call[c].codes)
      BY <1>11, DeleteMembersLocks
    <2> QED
      BY <1>11, <2>1
      DEF DeleteMembers, Locks, Others, MembersCanConnect, Members, ids,
          roster, content, history
  <1>12. ASSUME NEW c \in Calls, DeleteInvitations(c) PROVE MembersCanConnect'
    <2>1. \/ Refused(c)
          \/ /\ Locks(c, "uninvited", call[c].stored, call[c].rows,
                      Invites(call[c].swarm))
             /\ UNCHANGED <<ids, roster, content, faults, history>>
      BY <1>12, DeleteInvitationsLocks
    <2>2. Return(c) => Ends(c)
      BY Returns
    <2> QED
      BY <1>12, <2>1, <2>2
      DEF DeleteInvitations, Refused, Locks, Ends, Others,
          MembersCanConnect, Members, ids, roster, content, history
  <1>13. ASSUME NEW c \in Calls, DeleteSwarm(c) PROVE MembersCanConnect'
    <2>1. Others(c) /\ call[c].at # "joined"
      BY <1>13, Returns DEF DeleteSwarm, Refused, Ends
    <2>2. /\ UNCHANGED <<bridges, family, faults>>
          /\ \A t \in Swarms, d \in Bridges : member'[t][d].in => member[t][d].in
      BY <1>13, <1>a, SwarmGone DEF Gone, ids, roster
    <2>3. \A d \in Bridges : Enrolling(d) => Enrolling(d)'
      BY <2>1 DEF Enrolling, Others
    <2> QED
      BY <2>2, <2>3 DEF MembersCanConnect, Members, Enrolling
  <1>14. ASSUME NEW c \in Calls, NEW s \in Swarms, NEW b \in Bridges,
                StartPublish(c, s, b)
         PROVE  MembersCanConnect'
    <2>1. Asks(c, "allowed", None, s, b, None, {})
      BY <1>14, StartPublishAsks
    <2> QED
      BY <1>14, <2>1
      DEF StartPublish, Asks, Others, MembersCanConnect, Members, ids,
          roster, content, history
  <1>15. ASSUME NEW c \in Calls, Replace(c) PROVE MembersCanConnect'
    <2>1. (Goto(c, "stored") => Moves(c, "stored")) /\ (Return(c) => Ends(c))
      BY <1>15, GoesOn, Returns DEF Places
    <2> QED
      BY <1>15, <2>1
      DEF Replace, Moves, Ends, Others, MembersCanConnect, Members, ids,
          roster, content, history
  <1>16. ASSUME NEW c \in Calls, ApplyPublishedName(c) PROVE MembersCanConnect'
    <2>1. Return(c) => Ends(c)
      BY <1>16, Returns
    <2>2. \/ UNCHANGED member
          \/ /\ Renames(call[c].swarm, call[c].bridge)
             /\ ~MemberLocked(call[c].swarm, call[c].bridge)
      BY <1>16, ApplyPuts
    <2>3. /\ call[c].at = "stored"
          /\ \A d \in Calls : d # c => call'[d] = call[d]
          /\ bridges' = bridges /\ family' = family /\ faults' = faults
      BY <1>16, <2>1 DEF ApplyPublishedName, Ends, Others, ids
    <2>4. \A t \in Swarms, d \in Bridges : member'[t][d].in <=> member[t][d].in
      <3>1. CASE UNCHANGED member
        BY <3>1
      <3>2. CASE Renames(call[c].swarm, call[c].bridge)
        BY <3>2 DEF Renames
      <3> QED
        BY <2>2, <3>1, <3>2
    <2> QED
      BY <2>3, <2>4 DEF MembersCanConnect, Members
  <1>17. ASSUME NEW c \in Calls, StatementFails(c) PROVE MembersCanConnect'
    <2>1. Return(c) => Ends(c)
      BY <1>17, Returns
    <2> QED
      BY <1>17, <1>a, <1>b, <2>1
      DEF StatementFails, Ends, Others, MembersCanConnect, Members, ids,
          roster, content, history
  <1>18. ASSUME NEW u \in Users, NEW s \in Swarms, CreateSwarm(u, s)
         PROVE  MembersCanConnect'
    BY <1>18
    DEF CreateSwarm, MembersCanConnect, Members, ids, roster, content,
        history
  <1>19. ASSUME NEW s \in Swarms, NEW i \in Invitations, IssueInvitation(s, i)
         PROVE  MembersCanConnect'
    <2>1. /\ invite' \in [Invitations -> Codes]
          /\ invite'[i].swarm = s /\ invite'[i].used = 0
          /\ \A j \in Invitations \ {i} : invite'[j] = invite[j]
      BY <1>19, IssueSets
    <2> QED
      BY <1>19, <2>1
      DEF IssueInvitation, MembersCanConnect, Members, ids, roster,
          content, history
  <1>20. ASSUME NEW i \in Invitations, InvitationExpires(i)
         PROVE  MembersCanConnect'
    <2>1. /\ invite' \in [Invitations -> Codes]
          /\ \A j \in Invitations : /\ invite'[j].swarm = invite[j].swarm
                                    /\ invite'[j].used = invite[j].used
      BY <1>20, ExpirySets
    <2> QED
      BY <1>20, <2>1
      DEF InvitationExpires, MembersCanConnect, Members, ids, roster,
          content, history
  <1>21. ASSUME NEW s \in Swarms, UploadReferenceCatalogue(s)
         PROVE  MembersCanConnect'
    BY <1>21
    DEF UploadReferenceCatalogue, MembersCanConnect, Members, ids,
        roster, content, history
  <1>22. ASSUME NEW s \in Swarms, DeleteReferenceCatalogue(s)
         PROVE  MembersCanConnect'
    BY <1>22
    DEF DeleteReferenceCatalogue, MembersCanConnect, Members, ids,
        roster, content, history
  <1>23. ASSUME NEW c \in Calls, RemoveBridgeFromSwarm(c) PROVE MembersCanConnect'
    <2>1. Removes(c)
      BY <1>23, RemovePuts
    <2>2. /\ call[c].at = "removed"
          /\ \A d \in Calls : d # c => call'[d] = call[d]
          /\ bridges' = bridges /\ family' = family /\ faults' = faults
      BY <2>1 DEF Removes, Ends, Others, ids
    <2>3. \A t \in Swarms, d \in Bridges : member'[t][d].in => member[t][d].in
      BY <2>1 DEF Removes, Expels
    <2> QED
      BY <2>2, <2>3 DEF MembersCanConnect, Members
  <1>24. ASSUME NEW s \in Swarms, NEW b \in Bridges,
                SetBridgeDisplayName(s, b)
         PROVE  MembersCanConnect'
    <2>1. Renames(s, b)
      BY <1>24, SetNamePuts
    <2> QED
      BY <1>24, <2>1
      DEF SetBridgeDisplayName, Renames, MembersCanConnect, Members,
          ids, roster, content, history
  <1>25. ASSUME NEW s \in Swarms, NEW b \in Bridges, IntroduceItself(s, b)
         PROVE  MembersCanConnect'
    <2>1. Renames(s, b)
      BY <1>25, IntroducePuts
    <2> QED
      BY <1>25, <2>1
      DEF IntroduceItself, Renames, MembersCanConnect, Members, ids,
          roster, content, history
  <1>26. ASSUME NEW b \in Bridges, Revoke(b) PROVE MembersCanConnect'
    <2> QED
      BY <1>26, <1>a, <1>b
      DEF Revoke, MembersCanConnect, Members, ids, roster, content,
          history
  <1>27. ASSUME NEW b \in Bridges, Reenroll(b) PROVE MembersCanConnect'
    <2> QED
      BY <1>27, <1>a, <1>b
      DEF Reenroll, MembersCanConnect, Members, ids, roster, content,
          history
  <1>28. CASE UNCHANGED vars
    BY <1>28 DEF vars, MembersCanConnect, Members, ids, roster, content,
        history
  <1>29. ASSUME NEW c \in Calls, NEW s \in Swarms, NEW b \in Bridges,
                RemoveItems(c, s, b)
         PROVE  MembersCanConnect'
    <2>1. Asks(c, "removing", None, s, b, None, {})
      BY <1>29, RemoveItemsAsks
    <2> QED
      BY <1>29, <2>1
      DEF RemoveItems, Asks, Others, MembersCanConnect, Members, ids,
          roster, content, history
  <1> QED
    BY <1>1, <1>2, <1>3, <1>4, <1>5, <1>6, <1>7, <1>8, <1>9,
       <1>10, <1>11, <1>12, <1>13, <1>14, <1>15, <1>16, <1>17, <1>18,
       <1>19, <1>20, <1>21, <1>22, <1>23, <1>24, <1>25, <1>26, <1>27,
       <1>28, <1>29
    DEF Next, Request

\* Nothing is done with an invitation that was never issued.
LEMMA MintedStep ==
  ASSUME TypeOK, CallsFit, MintedOnce, [Next]_vars
  PROVE  MintedOnce'
  <1>a. \A c \in Calls :
          /\ call[c].at = "ensured" => call[c].swarm \in Swarms /\ call[c].invite \in Invitations
          /\ call[c].at \in {"cleared", "uninvited"} => call[c].swarm \in Swarms
    BY DEF CallsFit, Redeeming, Deleting
  <1>b. None \notin Swarms /\ enrolled \in [Invitations -> Nat]
    BY NoneIsApart DEF TypeOK
  <1>1. ASSUME NEW c \in Calls, NEW u \in Users, StartBootstrap(c, u)
        PROVE  MintedOnce'
    <2>1. Asks(c, "vacant", u, None, None, None, {})
      BY <1>1, StartBootstrapAsks
    <2> QED
      BY <1>1, <2>1
      DEF StartBootstrap, Asks, Others, MintedOnce, Redeeming, ids,
          roster, content, history
  <1>2. ASSUME NEW c \in Calls, Bootstrap(c) PROVE MintedOnce'
    <2>1. Return(c) => Ends(c)
      BY <1>2, Returns
    <2> QED
      BY <1>2, <2>1
      DEF Bootstrap, Ends, Others, MintedOnce, Redeeming, ids, roster,
          content, history
  <1>3. ASSUME NEW c \in Calls, NEW i \in Invitations, NEW b \in Bridges,
               Count(c, i, b)
        PROVE  MintedOnce'
    <2>1. Asks(c, "counted", None, invite[i].swarm, b, i, {})
      BY <1>3, CountAsks
    <2>2. /\ invite' \in [Invitations -> Codes]
          /\ invite'[i].swarm = invite[i].swarm
          /\ invite'[i].used = invite[i].used + 1
          /\ \A j \in Invitations \ {i} : invite'[j] = invite[j]
      BY <1>3, CountSets
    <2> QED
      BY <1>3, <1>a, <1>b, <2>1, <2>2
      DEF Count, Asks, Others, MintedOnce, Redeeming, ids, roster,
          content, history
  <1>4. ASSUME NEW c \in Calls, EnsureBridge(c) PROVE MintedOnce'
    <2>1. Moves(c, "ensured")
      BY <1>4, GoesOn DEF EnsureBridge, Places
    <2> QED
      BY <1>4, <2>1
      DEF EnsureBridge, Moves, Others, MintedOnce, Redeeming, ids,
          roster, content, history
  <1>5. ASSUME NEW c \in Calls, Join(c) PROVE MintedOnce'
    <2>1. Joins(c) /\ UNCHANGED <<minted, invite>> /\ call[c].at = "ensured"
      BY <1>5, JoinPuts DEF Join, ids
    <2>2. (Goto(c, "joined") => Moves(c, "joined")) /\ (Return(c) => Ends(c))
      BY GoesOn, Returns DEF Places
    <2>3. Others(c) /\ (call'[c].at \in Redeeming => call'[c].invite = call[c].invite)
      BY <1>5, <2>2 DEF Join, Moves, Ends, Redeeming
    <2>4. \A i \in Invitations : i \notin minted => enrolled'[i] = enrolled[i]
      BY <1>a, <1>b, <2>1 DEF Joins, MintedOnce
    <2> QED
      BY <2>1, <2>3, <2>4 DEF MintedOnce, Others, Redeeming
  <1>6. ASSUME NEW c \in Calls, Enroll(c) PROVE MintedOnce'
    <2>1. Return(c) => Ends(c)
      BY <1>6, Returns
    <2> QED
      BY <1>6, <2>1
      DEF Enroll, Ends, Others, MintedOnce, Redeeming, ids, roster,
          content, history
  <1>7. ASSUME NEW c \in Calls, NEW s \in Swarms, NEW i \in Invitations,
               ClearInvitation(c, s, i)
        PROVE  MintedOnce'
    <2>1. Asks(c, "cleared", None, s, None, i,
                {b \in Members(s) : member[s][b].via = i})
      BY <1>7, ClearInvitationAsks
    <2> QED
      BY <1>7, <2>1
      DEF ClearInvitation, Asks, Others, MintedOnce, Redeeming, ids,
          roster, content, history
  <1>8. ASSUME NEW c \in Calls, DeleteInvitation(c) PROVE MintedOnce'
    <2>1. Return(c) => Ends(c)
      BY <1>8, Returns
    <2>2. /\ call[c].at = "cleared"
          /\ ~InviteLocked(call[c].invite)
          /\ Return(c)
          /\ UNCHANGED <<accounts, swarm, bridges, family, content, faults, history>>
          /\ \/ UNCHANGED <<invite, member>>
             \/ /\ invite[call[c].invite].swarm = call[c].swarm
                /\ ~StillNamed(c)
                /\ Unnames(call[c].swarm, call[c].invite, call[c].rows)
      BY <1>8, InvitationGone
    <2> QED
      BY <1>a, <1>b, <2>1, <2>2
      DEF Ends, Others, Unnames, MintedOnce, Redeeming, ids, roster,
          content, history
  <1>9. ASSUME NEW c \in Calls, NEW s \in Swarms, StartDeleteSwarm(c, s)
        PROVE  MintedOnce'
    <2>1. Asks(c, "found", None, s, None, None, {})
      BY <1>9, StartDeleteSwarmAsks
    <2> QED
      BY <1>9, <2>1
      DEF StartDeleteSwarm, Asks, Others, MintedOnce, Redeeming, ids,
          roster, content, history
  <1>10. ASSUME NEW c \in Calls,
                DeleteItems(c) \/ DeleteSnapshots(c) \/ RemoveSnapshot(c)
         PROVE  MintedOnce'
    <2>1. LocksInventory(c)
      BY <1>10, DeletesLock
    <2> QED
      BY <2>1
      DEF LocksInventory, Locks, Others, MintedOnce, Redeeming, ids, roster,
          content, history
  <1>11. ASSUME NEW c \in Calls, DeleteMembers(c) PROVE MintedOnce'
    <2>1. Locks(c, "expelled", call[c].stored, Members(call[c].swarm),
                call[c].codes)
      BY <1>11, DeleteMembersLocks
    <2> QED
      BY <1>11, <2>1
      DEF DeleteMembers, Locks, Others, MintedOnce, Redeeming, ids,
          roster, content, history
  <1>12. ASSUME NEW c \in Calls, DeleteInvitations(c) PROVE MintedOnce'
    <2>1. \/ Refused(c)
          \/ /\ Locks(c, "uninvited", call[c].stored, call[c].rows,
                      Invites(call[c].swarm))
             /\ UNCHANGED <<ids, roster, content, faults, history>>
      BY <1>12, DeleteInvitationsLocks
    <2>2. Return(c) => Ends(c)
      BY Returns
    <2> QED
      BY <1>12, <2>1, <2>2
      DEF DeleteInvitations, Refused, Locks, Ends, Others, MintedOnce,
          Redeeming, ids, roster, content, history
  <1>13. ASSUME NEW c \in Calls, DeleteSwarm(c) PROVE MintedOnce'
    <2>1. Return(c) => Ends(c)
      BY <1>13, Returns
    <2>2. /\ call[c].at = "uninvited" /\ Return(c)
          /\ \/ UNCHANGED <<ids, roster, content, faults, history>>
             \/ ~StillReferenced(c) /\ Gone(call[c].swarm)
      BY <1>13, SwarmGone
    <2> QED
      BY <1>a, <1>b, <2>1, <2>2
      DEF Invites, Ends, Others, Gone, MintedOnce, Redeeming, ids,
          roster, content, history
  <1>14. ASSUME NEW c \in Calls, NEW s \in Swarms, NEW b \in Bridges,
                StartPublish(c, s, b)
         PROVE  MintedOnce'
    <2>1. Asks(c, "allowed", None, s, b, None, {})
      BY <1>14, StartPublishAsks
    <2> QED
      BY <1>14, <2>1
      DEF StartPublish, Asks, Others, MintedOnce, Redeeming, ids,
          roster, content, history
  <1>15. ASSUME NEW c \in Calls, Replace(c) PROVE MintedOnce'
    <2>1. (Goto(c, "stored") => Moves(c, "stored")) /\ (Return(c) => Ends(c))
      BY <1>15, GoesOn, Returns DEF Places
    <2> QED
      BY <1>15, <2>1
      DEF Replace, Moves, Ends, Others, MintedOnce, Redeeming, ids,
          roster, content, history
  <1>16. ASSUME NEW c \in Calls, ApplyPublishedName(c) PROVE MintedOnce'
    <2>1. Return(c) => Ends(c)
      BY <1>16, Returns
    <2> QED
      BY <1>16, <2>1
      DEF ApplyPublishedName, Ends, Others, MintedOnce, Redeeming, ids,
          roster, content, history
  <1>17. ASSUME NEW c \in Calls, StatementFails(c) PROVE MintedOnce'
    <2>1. Return(c) => Ends(c)
      BY <1>17, Returns
    <2> QED
      BY <1>17, <2>1
      DEF StatementFails, Ends, Others, MintedOnce, Redeeming, ids,
          roster, content, history
  <1>18. ASSUME NEW u \in Users, NEW s \in Swarms, CreateSwarm(u, s)
         PROVE  MintedOnce'
    BY <1>18
    DEF CreateSwarm, MintedOnce, Redeeming, ids, roster, content,
        history
  <1>19. ASSUME NEW s \in Swarms, NEW i \in Invitations, IssueInvitation(s, i)
         PROVE  MintedOnce'
    <2>1. /\ invite' \in [Invitations -> Codes]
          /\ invite'[i].swarm = s /\ invite'[i].used = 0
          /\ \A j \in Invitations \ {i} : invite'[j] = invite[j]
      BY <1>19, IssueSets
    <2> QED
      BY <1>19, <1>a, <1>b, <2>1
      DEF IssueInvitation, MintedOnce, Redeeming, ids, roster, content,
          history
  <1>20. ASSUME NEW i \in Invitations, InvitationExpires(i) PROVE MintedOnce'
    <2>1. /\ invite' \in [Invitations -> Codes]
          /\ \A j \in Invitations : /\ invite'[j].swarm = invite[j].swarm
                                    /\ invite'[j].used = invite[j].used
      BY <1>20, ExpirySets
    <2> QED
      BY <1>20, <2>1
      DEF InvitationExpires, MintedOnce, Redeeming, ids, roster,
          content, history
  <1>21. ASSUME NEW s \in Swarms, UploadReferenceCatalogue(s) PROVE MintedOnce'
    BY <1>21
    DEF UploadReferenceCatalogue, MintedOnce, Redeeming, ids, roster,
        content, history
  <1>22. ASSUME NEW s \in Swarms, DeleteReferenceCatalogue(s) PROVE MintedOnce'
    BY <1>22
    DEF DeleteReferenceCatalogue, MintedOnce, Redeeming, ids, roster,
        content, history
  <1>23. ASSUME NEW c \in Calls, RemoveBridgeFromSwarm(c) PROVE MintedOnce'
    <2>1. Removes(c)
      BY <1>23, RemovePuts
    <2> QED
      BY <1>a, <1>b, <2>1
      DEF Removes, Expels, Ends, Others, MintedOnce, Redeeming, ids, roster,
          content, history
  <1>24. ASSUME NEW s \in Swarms, NEW b \in Bridges,
                SetBridgeDisplayName(s, b)
         PROVE  MintedOnce'
    BY <1>24
    DEF SetBridgeDisplayName, MintedOnce, Redeeming, ids, roster,
        content, history
  <1>25. ASSUME NEW s \in Swarms, NEW b \in Bridges, IntroduceItself(s, b)
         PROVE  MintedOnce'
    BY <1>25
    DEF IntroduceItself, MintedOnce, Redeeming, ids, roster, content,
        history
  <1>26. ASSUME NEW b \in Bridges, Revoke(b) PROVE MintedOnce'
    BY <1>26
    DEF Revoke, MintedOnce, Redeeming, ids, roster, content, history
  <1>27. ASSUME NEW b \in Bridges, Reenroll(b) PROVE MintedOnce'
    BY <1>27
    DEF Reenroll, MintedOnce, Redeeming, ids, roster, content, history
  <1>28. CASE UNCHANGED vars
    BY <1>28 DEF vars, MintedOnce, Redeeming, ids, roster, content,
        history
  <1>29. ASSUME NEW c \in Calls, NEW s \in Swarms, NEW b \in Bridges,
                RemoveItems(c, s, b)
         PROVE  MintedOnce'
    <2>1. Asks(c, "removing", None, s, b, None, {})
      BY <1>29, RemoveItemsAsks
    <2> QED
      BY <1>29, <2>1
      DEF RemoveItems, Asks, Others, MintedOnce, Redeeming, ids, roster,
          content, history
  <1> QED
    BY <1>1, <1>2, <1>3, <1>4, <1>5, <1>6, <1>7, <1>8, <1>9,
       <1>10, <1>11, <1>12, <1>13, <1>14, <1>15, <1>16, <1>17, <1>18,
       <1>19, <1>20, <1>21, <1>22, <1>23, <1>24, <1>25, <1>26, <1>27,
       <1>28, <1>29
    DEF Next, Request

\* What adds to no invitation's uses: no redemption starts or makes a member,
\* and no invitation is issued.
Quiet ==
  /\ \A d \in Calls : call'[d].at \in {"counted", "ensured"} =>
       call[d].at \in {"counted", "ensured"} /\ call'[d].invite = call[d].invite
  /\ \A i \in Invitations :
       /\ enrolled'[i] = enrolled[i]
       /\ invite'[i].swarm # None =>
            invite'[i].swarm = invite[i].swarm /\ invite'[i].used = invite[i].used

\* Every other step is quiet.
LEMMA QuietStep ==
  ASSUME TypeOK, CallsFit, 
         \A c \in Calls, i \in Invitations, b \in Bridges : ~Count(c, i, b), 
         \A c \in Calls : ~Join(c), 
         \A s \in Swarms, i \in Invitations : ~IssueInvitation(s, i), [Next]_vars
  PROVE  Quiet
  <1>a. \A c \in Calls :
          /\ call[c].at = "ensured" => call[c].swarm \in Swarms /\ call[c].invite \in Invitations
          /\ call[c].at \in {"cleared", "uninvited"} => call[c].swarm \in Swarms
    BY DEF CallsFit, Redeeming, Deleting
  <1>1. ASSUME NEW c \in Calls, NEW u \in Users, StartBootstrap(c, u)
        PROVE  Quiet
    <2>1. Asks(c, "vacant", u, None, None, None, {})
      BY <1>1, StartBootstrapAsks
    <2> QED
      BY <1>1, <2>1
      DEF StartBootstrap, Asks, Others, Quiet, ids, roster, content,
          history
  <1>2. ASSUME NEW c \in Calls, Bootstrap(c) PROVE Quiet
    <2>1. Return(c) => Ends(c)
      BY <1>2, Returns
    <2> QED
      BY <1>2, <2>1
      DEF Bootstrap, Ends, Others, Quiet, ids, roster, content, history
  <1>3. ASSUME NEW c \in Calls, NEW i \in Invitations, NEW b \in Bridges,
               Count(c, i, b)
        PROVE  Quiet
    BY <1>3
  <1>4. ASSUME NEW c \in Calls, EnsureBridge(c) PROVE Quiet
    <2>1. Moves(c, "ensured")
      BY <1>4, GoesOn DEF EnsureBridge, Places
    <2> QED
      BY <1>4, <2>1
      DEF EnsureBridge, Moves, Others, Quiet, ids, roster, content,
          history
  <1>5. ASSUME NEW c \in Calls, Join(c) PROVE Quiet
    BY <1>5
  <1>6. ASSUME NEW c \in Calls, Enroll(c) PROVE Quiet
    <2>1. Return(c) => Ends(c)
      BY <1>6, Returns
    <2> QED
      BY <1>6, <2>1
      DEF Enroll, Ends, Others, Quiet, ids, roster, content, history
  <1>7. ASSUME NEW c \in Calls, NEW s \in Swarms, NEW i \in Invitations,
               ClearInvitation(c, s, i)
        PROVE  Quiet
    <2>1. Asks(c, "cleared", None, s, None, i,
                {b \in Members(s) : member[s][b].via = i})
      BY <1>7, ClearInvitationAsks
    <2> QED
      BY <1>7, <2>1
      DEF ClearInvitation, Asks, Others, Quiet, ids, roster, content,
          history
  <1>8. ASSUME NEW c \in Calls, DeleteInvitation(c) PROVE Quiet
    <2>1. Return(c) => Ends(c)
      BY <1>8, Returns
    <2>2. /\ call[c].at = "cleared"
          /\ ~InviteLocked(call[c].invite)
          /\ Return(c)
          /\ UNCHANGED <<accounts, swarm, bridges, family, content, faults, history>>
          /\ \/ UNCHANGED <<invite, member>>
             \/ /\ invite[call[c].invite].swarm = call[c].swarm
                /\ ~StillNamed(c)
                /\ Unnames(call[c].swarm, call[c].invite, call[c].rows)
      BY <1>8, InvitationGone
    <2> QED
      BY <1>a, <2>1, <2>2
      DEF Ends, Others, Unnames, Quiet, ids, roster, content, history
  <1>9. ASSUME NEW c \in Calls, NEW s \in Swarms, StartDeleteSwarm(c, s)
        PROVE  Quiet
    <2>1. Asks(c, "found", None, s, None, None, {})
      BY <1>9, StartDeleteSwarmAsks
    <2> QED
      BY <1>9, <2>1
      DEF StartDeleteSwarm, Asks, Others, Quiet, ids, roster, content,
          history
  <1>10. ASSUME NEW c \in Calls,
                DeleteItems(c) \/ DeleteSnapshots(c) \/ RemoveSnapshot(c)
         PROVE  Quiet
    <2>1. LocksInventory(c)
      BY <1>10, DeletesLock
    <2> QED
      BY <2>1
      DEF LocksInventory, Locks, Others, Quiet, ids, roster, content,
          history
  <1>11. ASSUME NEW c \in Calls, DeleteMembers(c) PROVE Quiet
    <2>1. Locks(c, "expelled", call[c].stored, Members(call[c].swarm),
                call[c].codes)
      BY <1>11, DeleteMembersLocks
    <2> QED
      BY <1>11, <2>1
      DEF DeleteMembers, Locks, Others, Quiet, ids, roster, content,
          history
  <1>12. ASSUME NEW c \in Calls, DeleteInvitations(c) PROVE Quiet
    <2>1. \/ Refused(c)
          \/ /\ Locks(c, "uninvited", call[c].stored, call[c].rows,
                      Invites(call[c].swarm))
             /\ UNCHANGED <<ids, roster, content, faults, history>>
      BY <1>12, DeleteInvitationsLocks
    <2>2. Return(c) => Ends(c)
      BY Returns
    <2> QED
      BY <1>12, <2>1, <2>2
      DEF DeleteInvitations, Refused, Locks, Ends, Others, Quiet, ids,
          roster, content, history
  <1>13. ASSUME NEW c \in Calls, DeleteSwarm(c) PROVE Quiet
    <2>1. Return(c) => Ends(c)
      BY <1>13, Returns
    <2>2. /\ call[c].at = "uninvited" /\ Return(c)
          /\ \/ UNCHANGED <<ids, roster, content, faults, history>>
             \/ ~StillReferenced(c) /\ Gone(call[c].swarm)
      BY <1>13, SwarmGone
    <2> QED
      BY <1>a, <2>1, <2>2
      DEF Invites, Ends, Others, Gone, Quiet, ids, roster, content,
          history
  <1>14. ASSUME NEW c \in Calls, NEW s \in Swarms, NEW b \in Bridges,
                StartPublish(c, s, b)
         PROVE  Quiet
    <2>1. Asks(c, "allowed", None, s, b, None, {})
      BY <1>14, StartPublishAsks
    <2> QED
      BY <1>14, <2>1
      DEF StartPublish, Asks, Others, Quiet, ids, roster, content,
          history
  <1>15. ASSUME NEW c \in Calls, Replace(c) PROVE Quiet
    <2>1. (Goto(c, "stored") => Moves(c, "stored")) /\ (Return(c) => Ends(c))
      BY <1>15, GoesOn, Returns DEF Places
    <2> QED
      BY <1>15, <2>1
      DEF Replace, Moves, Ends, Others, Quiet, ids, roster, content,
          history
  <1>16. ASSUME NEW c \in Calls, ApplyPublishedName(c) PROVE Quiet
    <2>1. Return(c) => Ends(c)
      BY <1>16, Returns
    <2> QED
      BY <1>16, <2>1
      DEF ApplyPublishedName, Ends, Others, Quiet, ids, roster, content,
          history
  <1>17. ASSUME NEW c \in Calls, StatementFails(c) PROVE Quiet
    <2>1. Return(c) => Ends(c)
      BY <1>17, Returns
    <2> QED
      BY <1>17, <2>1
      DEF StatementFails, Ends, Others, Quiet, ids, roster, content,
          history
  <1>18. ASSUME NEW u \in Users, NEW s \in Swarms, CreateSwarm(u, s)
         PROVE  Quiet
    BY <1>18
    DEF CreateSwarm, Quiet, ids, roster, content, history
  <1>19. ASSUME NEW s \in Swarms, NEW i \in Invitations, IssueInvitation(s, i)
         PROVE  Quiet
    BY <1>19
  <1>20. ASSUME NEW i \in Invitations, InvitationExpires(i) PROVE Quiet
    <2>1. /\ invite' \in [Invitations -> Codes]
          /\ \A j \in Invitations : /\ invite'[j].swarm = invite[j].swarm
                                    /\ invite'[j].used = invite[j].used
      BY <1>20, ExpirySets
    <2> QED
      BY <1>20, <2>1
      DEF InvitationExpires, Quiet, ids, roster, content, history
  <1>21. ASSUME NEW s \in Swarms, UploadReferenceCatalogue(s) PROVE Quiet
    BY <1>21
    DEF UploadReferenceCatalogue, Quiet, ids, roster, content, history
  <1>22. ASSUME NEW s \in Swarms, DeleteReferenceCatalogue(s) PROVE Quiet
    BY <1>22
    DEF DeleteReferenceCatalogue, Quiet, ids, roster, content, history
  <1>23. ASSUME NEW c \in Calls, RemoveBridgeFromSwarm(c) PROVE Quiet
    <2>1. Removes(c)
      BY <1>23, RemovePuts
    <2> QED
      BY <2>1
      DEF Removes, Expels, Ends, Others, Quiet, ids, roster, content,
          history
  <1>24. ASSUME NEW s \in Swarms, NEW b \in Bridges,
                SetBridgeDisplayName(s, b)
         PROVE  Quiet
    BY <1>24
    DEF SetBridgeDisplayName, Quiet, ids, roster, content, history
  <1>25. ASSUME NEW s \in Swarms, NEW b \in Bridges, IntroduceItself(s, b)
         PROVE  Quiet
    BY <1>25
    DEF IntroduceItself, Quiet, ids, roster, content, history
  <1>26. ASSUME NEW b \in Bridges, Revoke(b) PROVE Quiet
    BY <1>26
    DEF Revoke, Quiet, ids, roster, content, history
  <1>27. ASSUME NEW b \in Bridges, Reenroll(b) PROVE Quiet
    BY <1>27
    DEF Reenroll, Quiet, ids, roster, content, history
  <1>28. CASE UNCHANGED vars
    BY <1>28 DEF vars, Quiet, ids, roster, content, history
  <1>29. ASSUME NEW c \in Calls, NEW s \in Swarms, NEW b \in Bridges,
                RemoveItems(c, s, b)
         PROVE  Quiet
    <2>1. Asks(c, "removing", None, s, b, None, {})
      BY <1>29, RemoveItemsAsks
    <2> QED
      BY <1>29, <2>1
      DEF RemoveItems, Asks, Others, Quiet, ids, roster, content, history
  <1> QED
    BY <1>1, <1>2, <1>3, <1>4, <1>5, <1>6, <1>7, <1>8, <1>9,
       <1>10, <1>11, <1>12, <1>13, <1>14, <1>15, <1>16, <1>17, <1>18,
       <1>19, <1>20, <1>21, <1>22, <1>23, <1>24, <1>25, <1>26, <1>27,
       <1>28, <1>29
    DEF Next, Request

LEMMA QuietCovers ==
  ASSUME TypeOK, UsesCover, Quiet
  PROVE  UsesCover'
  <1> SUFFICES ASSUME NEW i \in Invitations
               PROVE  /\ IsFiniteSet(Counted(i)') /\ enrolled'[i] <= MaxUses
                      /\ invite'[i].swarm # None =>
                           /\ invite'[i].used <= MaxUses
                           /\ enrolled'[i] + Cardinality(Counted(i)') <= invite'[i].used
    BY DEF UsesCover
  <1>1. Counted(i)' \subseteq Counted(i)
    BY DEF Quiet, Counted
  <1>2. IsFiniteSet(Counted(i)) /\ enrolled[i] <= MaxUses
    BY DEF UsesCover
  <1>3. IsFiniteSet(Counted(i)') /\ Cardinality(Counted(i)') <= Cardinality(Counted(i))
    BY <1>1, <1>2, FS_Subset
  <1>4. Cardinality(Counted(i)') \in Nat /\ Cardinality(Counted(i)) \in Nat
    BY <1>2, <1>3, FS_CardinalityType
  <1>5. enrolled[i] \in Nat /\ invite[i].used \in Nat /\ enrolled'[i] = enrolled[i]
    BY DEF TypeOK, Codes, Quiet
  <1>6. CASE invite'[i].swarm # None
    <2>1. invite[i].swarm # None /\ invite'[i].used = invite[i].used
      BY <1>6 DEF Quiet
    <2>2. /\ invite[i].used <= MaxUses
          /\ enrolled[i] + Cardinality(Counted(i)) <= invite[i].used
      BY <2>1 DEF UsesCover
    <2> HIDE DEF Counted
    <2> QED
      BY <1>2, <1>3, <1>4, <1>5, <2>1, <2>2
  <1> QED
    BY <1>2, <1>3, <1>5, <1>6

\* A redemption that starts counts a use first, and there is one left.
LEMMA CountCovers ==
  ASSUME TypeOK, UsesCover, NEW c \in Calls, NEW i \in Invitations,
         NEW b \in Bridges, Count(c, i, b)
  PROVE  UsesCover'
  <1>1. /\ Others(c) /\ call[c].at = "idle" /\ call'[c].at = "counted"
        /\ call'[c].invite = i
    BY CountAsks DEF Asks
  <1>2. /\ invite'[i].swarm = invite[i].swarm
        /\ invite'[i].used = invite[i].used + 1
        /\ \A j \in Invitations \ {i} : invite'[j] = invite[j]
    BY CountSets
  <1>3. invite[i].swarm # None /\ invite[i].used < MaxUses /\ UNCHANGED enrolled
    BY DEF Count, history
  <1>4. c \notin Counted(i) /\ Counted(i)' = Counted(i) \cup {c}
    BY <1>1 DEF Counted, Others
  <1>5. \A j \in Invitations \ {i} : Counted(j)' = Counted(j)
    BY <1>1 DEF Counted, Others
  <1> HIDE DEF Counted
  <1>6. IsFiniteSet(Counted(i)) /\ enrolled[i] <= MaxUses
        /\ enrolled[i] + Cardinality(Counted(i)) <= invite[i].used
    BY <1>3 DEF UsesCover
  <1>7. /\ IsFiniteSet(Counted(i)')
        /\ Cardinality(Counted(i)') = Cardinality(Counted(i)) + 1
    BY <1>4, <1>6, FS_AddElement
  <1>8. Cardinality(Counted(i)) \in Nat /\ enrolled[i] \in Nat
        /\ invite[i].used \in Nat /\ MaxUses \in Nat
    BY <1>6, FS_CardinalityType, UsesArePositive DEF TypeOK, Codes
  <1>9. invite'[i].used <= MaxUses /\ enrolled'[i] <= MaxUses
        /\ enrolled'[i] + Cardinality(Counted(i)') <= invite'[i].used
    BY <1>2, <1>3, <1>6, <1>7, <1>8
  <1>10. \A j \in Invitations \ {i} :
           /\ IsFiniteSet(Counted(j)') /\ enrolled'[j] <= MaxUses
           /\ invite'[j].swarm # None =>
                /\ invite'[j].used <= MaxUses
                /\ enrolled'[j] + Cardinality(Counted(j)') <= invite'[j].used
    BY <1>2, <1>3, <1>5 DEF UsesCover
  <1> QED
    BY <1>7, <1>9, <1>10 DEF UsesCover

\* The redemption that makes a member counted its use, and counts no more.
LEMMA JoinCovers ==
  ASSUME TypeOK, CallsFit, UsesCover, NEW c \in Calls, Join(c)
  PROVE  UsesCover'
  <1>0. PICK i \in Invitations : i = call[c].invite
    BY DEF Join, CallsFit, Redeeming
  <1>1. /\ Joins(c) /\ UNCHANGED invite /\ call[c].at = "ensured"
        /\ i \in Invitations /\ i = call[c].invite /\ call[c].swarm \in Swarms
    BY <1>0, JoinPuts DEF Join, ids, CallsFit, Redeeming
  <1>2. (Goto(c, "joined") => Moves(c, "joined")) /\ (Return(c) => Ends(c))
    BY GoesOn, Returns DEF Places
  <1>3. Others(c) /\ call'[c].at \notin {"counted", "ensured"}
    BY <1>2 DEF Join, Moves, Ends
  <1>4. CASE UNCHANGED enrolled
    <2>1. Quiet
      BY <1>1, <1>3, <1>4 DEF Quiet, Others
    <2> QED
      BY <2>1, QuietCovers
  <1>5. CASE enrolled' # enrolled
    <2>1. invite[i].swarm = call[c].swarm /\ enrolled' = [enrolled EXCEPT ![i] = @ + 1]
      BY <1>1, <1>5 DEF Joins
    <2>2. c \in Counted(i) /\ Counted(i)' = Counted(i) \ {c}
      BY <1>1, <1>3 DEF Counted, Others
    <2>3. \A j \in Invitations \ {i} : Counted(j)' = Counted(j)
      BY <1>1, <1>3 DEF Counted, Others
    <2>4. invite[i].swarm # None
      BY <2>1, <1>1, NoneIsApart
    <2> HIDE DEF Counted
    <2>5. IsFiniteSet(Counted(i)) /\ invite[i].used <= MaxUses
          /\ enrolled[i] + Cardinality(Counted(i)) <= invite[i].used
      BY <1>1, <2>4 DEF UsesCover
    <2>6. /\ IsFiniteSet(Counted(i)')
          /\ Cardinality(Counted(i)') = Cardinality(Counted(i)) - 1
      BY <2>2, <2>5, FS_RemoveElement
    <2>7. Cardinality(Counted(i)) \in Nat /\ Cardinality(Counted(i)') \in Nat
          /\ enrolled[i] \in Nat /\ invite[i].used \in Nat /\ MaxUses \in Nat
      BY <1>1, <2>5, <2>6, FS_CardinalityType, UsesArePositive DEF TypeOK, Codes
    <2>8. enrolled'[i] = enrolled[i] + 1
          /\ \A j \in Invitations \ {i} : enrolled'[j] = enrolled[j]
      BY <1>1, <2>1 DEF TypeOK
    <2>9. enrolled'[i] <= MaxUses /\ invite'[i].used <= MaxUses
          /\ enrolled'[i] + Cardinality(Counted(i)') <= invite'[i].used
      BY <1>1, <2>5, <2>6, <2>7, <2>8
    <2>10. \A j \in Invitations \ {i} :
             /\ IsFiniteSet(Counted(j)') /\ enrolled'[j] <= MaxUses
             /\ invite'[j].swarm # None =>
                  /\ invite'[j].used <= MaxUses
                  /\ enrolled'[j] + Cardinality(Counted(j)') <= invite'[j].used
      BY <1>1, <2>3, <2>8 DEF UsesCover
    <2>11. \A j \in Invitations :
             /\ IsFiniteSet(Counted(j)') /\ enrolled'[j] <= MaxUses
             /\ invite'[j].swarm # None =>
                  /\ invite'[j].used <= MaxUses
                  /\ enrolled'[j] + Cardinality(Counted(j)') <= invite'[j].used
      <3> SUFFICES ASSUME NEW j \in Invitations
                   PROVE  /\ IsFiniteSet(Counted(j)')
                          /\ enrolled'[j] <= MaxUses
                          /\ invite'[j].swarm # None =>
                               /\ invite'[j].used <= MaxUses
                               /\ enrolled'[j] + Cardinality(Counted(j)')
                                    <= invite'[j].used
        OBVIOUS
      <3>1. CASE j = i
        BY <2>6, <2>9, <3>1
      <3>2. CASE j # i
        BY <2>10, <3>2
      <3> QED
        BY <3>1, <3>2
    <2> QED
      BY <2>11 DEF UsesCover
  <1> QED
    BY <1>4, <1>5

LEMMA IssueCovers ==
  ASSUME TypeOK, MintedOnce, UsesCover, NEW s \in Swarms,
         NEW i \in Invitations,
         IssueInvitation(s, i)
  PROVE  UsesCover'
  <1>1. /\ invite'[i].swarm = s /\ invite'[i].used = 0
        /\ \A j \in Invitations \ {i} : invite'[j] = invite[j]
    BY IssueSets
  <1>2. i \notin minted /\ UNCHANGED <<enrolled, call>>
    BY DEF IssueInvitation
  <1>3. enrolled[i] = 0 /\ Counted(i) = {}
    BY <1>2 DEF MintedOnce, Counted, Redeeming
  <1>4. \A j \in Invitations : Counted(j)' = Counted(j)
    BY <1>2 DEF Counted
  <1> HIDE DEF Counted
  <1>5. IsFiniteSet(Counted(i)') /\ Cardinality(Counted(i)') = 0
    BY <1>3, <1>4, FS_EmptySet
  <1>6. enrolled'[i] = 0 /\ 0 <= MaxUses
    BY <1>2, <1>3, UsesArePositive
  <1>7. \A j \in Invitations \ {i} :
          /\ IsFiniteSet(Counted(j)') /\ enrolled'[j] <= MaxUses
          /\ invite'[j].swarm # None =>
               /\ invite'[j].used <= MaxUses
               /\ enrolled'[j] + Cardinality(Counted(j)') <= invite'[j].used
    BY <1>1, <1>2, <1>4 DEF UsesCover
  <1> QED
    BY <1>1, <1>5, <1>6, <1>7 DEF UsesCover

LEMMA UsesStep ==
  ASSUME TypeOK, CallsFit, MintedOnce, UsesCover, [Next]_vars
  PROVE  UsesCover'
  <1>1. CASE \E c \in Calls, i \in Invitations, b \in Bridges : Count(c, i, b)
    BY <1>1, CountCovers
  <1>2. CASE \E c \in Calls : Join(c)
    BY <1>2, JoinCovers
  <1>3. CASE \E s \in Swarms, i \in Invitations : IssueInvitation(s, i)
    BY <1>3, IssueCovers
  <1>4. CASE /\ ~\E c \in Calls, i \in Invitations, b \in Bridges : Count(c, i, b)
             /\ ~\E c \in Calls : Join(c)
             /\ ~\E s \in Swarms, i \in Invitations : IssueInvitation(s, i)
    BY <1>4, QuietStep, QuietCovers
  <1> QED
    BY <1>1, <1>2, <1>3, <1>4

-----------------------------------------------------------------------------
LEMMA InitInv == Init => IInv
  <1> SUFFICES ASSUME Init PROVE IInv
    OBVIOUS
  <1>1. NoMember \in Rows /\ ~NoMember.in /\ NoInvite \in Codes
        /\ NoInvite.swarm = None
    BY Booleans, NoneIsApart DEF NoMember, Rows, NoInvite, Codes
  <1>2. TypeOK
    BY <1>1, Blank, Booleans DEF Init, TypeOK
  <1>3. CallsFit
    BY Blank DEF Init, CallsFit, Redeeming, OfBridge, Deleting
  <1>4. MintedOnce
    BY <1>1, Blank DEF Init, MintedOnce, Redeeming
  <1>5. \A i \in Invitations : Counted(i) = {}
    BY Blank DEF Init, Counted
  <1>6. UsesCover
    <2>1. IsFiniteSet({})
      BY FS_EmptySet
    <2>2. \A i \in Invitations : IsFiniteSet(Counted(i))
      BY <1>5, <2>1, Zenon
    <2>3. \A i \in Invitations : enrolled[i] <= MaxUses /\ invite[i].swarm = None
      BY <1>1, UsesArePositive DEF Init
    <2> QED
      BY <2>2, <2>3 DEF UsesCover
  <1>7. \A s \in Swarms : Members(s) = {}
    BY <1>1 DEF Init, Members
  <1>8. MembersCanConnect /\ OwnerNameHolds
    BY <1>7 DEF MembersCanConnect, OwnerNameHolds
  <1>9. ReferencesHold
    BY <1>1, <1>7 DEF Init, ReferencesHold
  <1> QED
    BY <1>2, <1>3, <1>4, <1>6, <1>7, <1>8, <1>9 DEF IInv

LEMMA StepInv == IInv /\ [Next]_vars => IInv'
  <1> SUFFICES ASSUME IInv, [Next]_vars PROVE IInv'
    OBVIOUS
  <1>1. /\ TypeOK /\ CallsFit /\ MintedOnce /\ UsesCover
        /\ MembersCanConnect /\ ReferencesHold /\ OwnerNameHolds
    BY DEF IInv
  <1>2. TypeOK' /\ CallsFit' /\ MintedOnce' /\ UsesCover'
    BY <1>1, StepTyped, StepFits, MintedStep, UsesStep
  <1>3. MembersCanConnect' /\ OwnerNameHolds'
    BY <1>1, MemberStep, NameStep
  <1>4. ReferencesHold'
    <2>1. (InvitesHeld /\ CataloguesHeld /\ InventoriesHeld /\ MembersHeld)'
      BY <1>1, RowByRow, HeldStep
    <2> QED
      BY <2>1, RowByRow, PTL
  <1> QED
    BY <1>2, <1>3, <1>4 DEF IInv

THEOREM DirectoryInv == Spec => []IInv
  BY InitInv, StepInv, PTL DEF Spec

\* "Concurrent redemptions of the same single-use invitation": for any number
\* of requests in flight, deletions between their statements, and failures, an
\* invitation makes no more members than it has uses.
THEOREM UsesAreKept == Spec => []WithinUses
  <1>1. IInv => WithinUses
    BY DEF IInv, UsesCover, WithinUses
  <1> QED
    BY <1>1, DirectoryInv, PTL

\* A member is a Bridge the Host knows, and has a credential family, unless
\* its redemption is still to enroll it or a statement has failed.
THEOREM MembersConnect == Spec => []MembersCanConnect
  <1>1. IInv => MembersCanConnect
    BY DEF IInv
  <1> QED
    BY <1>1, DirectoryInv, PTL

\* schema.sql's foreign keys: no row outlives what it names, for any number of
\* Swarms, invitations and Bridges and any order of their statements.
THEOREM RowsAreHeld == Spec => []ReferencesHold
  <1>1. IInv => ReferencesHold
    BY DEF IInv
  <1> QED
    BY <1>1, DirectoryInv, PTL

\* "The Host owner always has the final word" about a Bridge's name.
THEOREM OwnerHasFinalWord == Spec => []OwnerNameHolds
  <1>1. IInv => OwnerNameHolds
    BY DEF IInv
  <1> QED
    BY <1>1, DirectoryInv, PTL

=============================================================================
