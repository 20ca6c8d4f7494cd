---------------------------- MODULE HostDirectory ----------------------------
(***************************************************************************)
(* The Host's directory (host/directory) over its tables                   *)
(* (host/hoststore/schema.sql): owner accounts, Swarms, invitations,       *)
(* Bridges and their memberships, catalogues, and the inventory's rows.    *)
(* An operation that is one statement, or whose earlier statements only    *)
(* find out what the last one would, is one action; of any other, each     *)
(* statement that meets another operation's is.  Statements see what is    *)
(* committed, and a foreign key is what PostgreSQL makes of it.            *)
(*                                                                         *)
(* A Bridge's items are one row here, as its snapshot is, and a publish is *)
(* one action: how the statements of publishes and removals interleave is  *)
(* InventoryPublishing's, and how a credential rotates CredentialRotation's*)
(***************************************************************************)
EXTENDS FiniteSets, Naturals

CONSTANTS
  Users, Swarms, Invitations, Bridges,  \* ids, minted once
  None,
  Calls,      \* requests of several statements in flight
  MaxUses,    \* max_uses of an invitation
  MaxFaults   \* bound: failed statements

ASSUME NoneIsApart == None \notin Users \cup Swarms \cup Invitations \cup Bridges
ASSUME UsesArePositive == MaxUses \in Nat \ {0}
ASSUME BoundIsNat == MaxFaults \in Nat

VARIABLES
  accounts,    \* accounts: every one is an owner's
  swarm,       \* swarms: who created it and belongs to it
  invite,      \* invitations
  bridges,     \* bridges
  member,      \* bridge_swarm_memberships
  family,      \* bridge_credential_families
  catalogue,   \* swarm_reference_catalogues, of one platform
  inventory,   \* the rows of inventory_items and inventory_snapshots
  call,        \* the requests
  \* Bounds and history, read by no guard of the program.
  faults,
  minted,      \* ids of Swarms and invitations ever minted
  enrolled     \* memberships each invitation has made

ids == <<accounts, swarm, invite, bridges>>
roster == <<member, family>>
content == <<catalogue, inventory>>
history == <<minted, enrolled>>
vars == <<ids, roster, content, call, faults, history>>

NoInvite == [swarm |-> None, used |-> 0, valid |-> FALSE]
NoMember == [in |-> FALSE, via |-> None, name |-> "none", byHost |-> FALSE]
NoCall == [at |-> "idle", user |-> None, swarm |-> None, bridge |-> None,
           invite |-> None, stored |-> {}, rows |-> {}, codes |-> {}]

Init ==
  /\ accounts = {} /\ swarm = [s \in Swarms |-> None]
  /\ invite = [i \in Invitations |-> NoInvite] /\ bridges = {}
  /\ member = [s \in Swarms |-> [b \in Bridges |-> NoMember]]
  /\ family = [b \in Bridges |-> "none"]
  /\ catalogue = {} /\ inventory = [s \in Swarms |-> {}]
  /\ call = [c \in Calls |-> NoCall]
  /\ faults = 0
  /\ minted = {} /\ enrolled = [i \in Invitations |-> 0]

Inventories == {"items", "snapshot"} \X Bridges

Live(s) == swarm[s] # None
Members(s) == {b \in Bridges : member[s][b].in}
Items(s) == inventory[s] \cap ({"items"} \X Bridges)
Snapshots(s) == inventory[s] \cap ({"snapshot"} \X Bridges)
Of(b) == {"items", "snapshot"} \X {b}
Invites(s) == {i \in Invitations : invite[i].swarm = s}

Start(c, request) ==
  /\ call[c] = NoCall
  /\ call' = [call EXCEPT ![c] = request]
Goto(c, next) == call' = [call EXCEPT ![c].at = next]
Return(c) == call' = [call EXCEPT ![c] = NoCall]
Put(s, b, row) == member' = [member EXCEPT ![s][b] = row]

\* Row locks of the deletions, until they commit or roll back.
MemberLocked(s, b) ==
  \E c \in Calls : call[c].swarm = s /\ b \in call[c].rows
InventoryLocked(s, rows) ==
  \E c \in Calls : call[c].swarm = s /\ rows \cap call[c].stored # {}
InviteLocked(i) == \E c \in Calls : i \in call[c].codes
\* bridgeLocks.
BridgeLocked(b) ==
  \E c \in Calls : call[c].at \in {"ensured", "joined"} /\ call[c].bridge = b

-----------------------------------------------------------------------------
(* The owner and the Swarm.                                                *)

\* BootstrapOwner looks for an owner, and inserts one.
StartBootstrap(c, u) ==
  /\ accounts = {} /\ Start(c, [NoCall EXCEPT !.at = "vacant", !.user = u])
  /\ UNCHANGED <<ids, roster, content, faults, history>>

Bootstrap(c) ==
  /\ call[c].at = "vacant" /\ Return(c)
  /\ accounts' = accounts \cup {call[c].user}
  /\ UNCHANGED <<swarm, invite, bridges, roster, content, faults, history>>

CreateSwarm(u, s) ==
  /\ u \in accounts /\ s \notin minted
  /\ swarm' = [swarm EXCEPT ![s] = u] /\ minted' = minted \cup {s}
  /\ UNCHANGED <<accounts, invite, bridges, roster, content, call, faults,
                 enrolled>>

IssueInvitation(s, i) ==
  /\ Live(s) /\ i \notin minted
  /\ invite' = [invite EXCEPT ![i] = [swarm |-> s, used |-> 0, valid |-> TRUE]]
  /\ minted' = minted \cup {i}
  /\ UNCHANGED <<accounts, swarm, bridges, roster, content, call, faults,
                 enrolled>>

\* Time passes expires_at.
InvitationExpires(i) ==
  /\ invite[i].valid
  /\ invite' = [invite EXCEPT ![i].valid = FALSE]
  /\ UNCHANGED <<accounts, swarm, bridges, roster, content, call, faults,
                 history>>

UploadReferenceCatalogue(s) ==
  /\ Live(s)
  /\ catalogue' = catalogue \cup {s}
  /\ UNCHANGED <<ids, roster, inventory, call, faults, history>>

DeleteReferenceCatalogue(s) ==
  /\ Live(s)
  /\ catalogue' = catalogue \ {s}
  /\ UNCHANGED <<ids, roster, inventory, call, faults, history>>

-----------------------------------------------------------------------------
(* RedeemInvitation: four statements, and no transaction.                  *)

\* Mistake: the uses are looked at here, and counted when the Bridge joins.
CountLater(c, i, b) ==
  /\ invite[i].swarm # None /\ invite[i].valid /\ invite[i].used < MaxUses
  /\ Start(c, [NoCall EXCEPT !.at = "counted", !.swarm = invite[i].swarm,
                             !.invite = i, !.bridge = b])
  /\ UNCHANGED <<ids, roster, content, faults, history>>

\* One UPDATE finds the code and counts its use.
Count(c, i, b) ==
  /\ invite[i].swarm # None /\ invite[i].valid /\ invite[i].used < MaxUses
  /\ ~InviteLocked(i)
  /\ invite' = [invite EXCEPT ![i].used = @ + 1]
  /\ Start(c, [NoCall EXCEPT !.at = "counted", !.swarm = invite[i].swarm,
                             !.invite = i, !.bridge = b])
  /\ UNCHANGED <<accounts, swarm, bridges, roster, content, faults, history>>

EnsureBridge(c) ==
  /\ call[c].at = "counted" /\ ~BridgeLocked(call[c].bridge)
  /\ bridges' = bridges \cup {call[c].bridge} /\ Goto(c, "ensured")
  /\ UNCHANGED <<accounts, swarm, invite, roster, content, faults, history>>

\* A Bridge that is a member stays the member it is.  The invitation and the
\* Swarm of a new one have to be there still.
Join(c) ==
  LET s == call[c].swarm  b == call[c].bridge  i == call[c].invite IN
  /\ call[c].at = "ensured" /\ ~MemberLocked(s, b)
  /\ \/ member[s][b].in /\ Goto(c, "joined") /\ UNCHANGED <<member, enrolled>>
     \/ /\ ~member[s][b].in /\ invite[i].swarm = s /\ ~InviteLocked(i)
        /\ Put(s, b, [NoMember EXCEPT !.in = TRUE, !.via = i])
        /\ enrolled' = [enrolled EXCEPT ![i] = @ + 1]
        /\ Goto(c, "joined")
     \/ /\ ~member[s][b].in /\ invite[i].swarm # s
        /\ Return(c) /\ UNCHANGED <<member, enrolled>>
  /\ UNCHANGED <<ids, family, content, faults, minted>>

\* Mistake: only a Bridge the Host has not seen before gets a credential made,
\* and "seen before" is read off its membership.
EnrollNewcomer(c) ==
  /\ call[c].at = "joined" /\ Return(c)
  /\ family' = IF member[call[c].swarm][call[c].bridge].in THEN family
               ELSE [family EXCEPT ![call[c].bridge] = "live"]
  /\ UNCHANGED <<ids, member, content, faults, history>>

\* Verifier.Enroll: a fresh family, whatever was there.
Enroll(c) ==
  /\ call[c].at = "joined" /\ Return(c)
  /\ family' = [family EXCEPT ![call[c].bridge] = "live"]
  /\ UNCHANGED <<ids, member, content, faults, history>>

-----------------------------------------------------------------------------
(* DeleteInvitation and DeleteSwarm: transactions of several statements.   *)

ClearInvitation(c, s, i) ==
  /\ i \in Invites(s)
  /\ LET rows == {b \in Members(s) : member[s][b].via = i} IN
     /\ \A b \in rows : ~MemberLocked(s, b)
     /\ Start(c, [NoCall EXCEPT !.at = "cleared", !.swarm = s, !.invite = i,
                                !.rows = rows])
  /\ UNCHANGED <<ids, roster, content, faults, history>>

\* A membership the UPDATE did not see still names the invitation.
StillNamed(c) ==
  \E b \in Members(call[c].swarm) \ call[c].rows :
    member[call[c].swarm][b].via = call[c].invite

\* Mistake: a column without its REFERENCES lets the row go regardless.
DeleteInvitationUnchecked(c) ==
  LET s == call[c].swarm  i == call[c].invite IN
  /\ call[c].at = "cleared" /\ Return(c)
  /\ invite' = [invite EXCEPT ![i] = NoInvite]
  /\ member' = [member EXCEPT ![s] = [b \in Bridges |->
                  IF b \in call[c].rows THEN [@[b] EXCEPT !.via = None]
                  ELSE @[b]]]
  /\ UNCHANGED <<accounts, swarm, bridges, family, content, faults, history>>

DeleteInvitation(c) ==
  LET s == call[c].swarm  i == call[c].invite IN
  /\ call[c].at = "cleared" /\ ~InviteLocked(i) /\ Return(c)
  /\ \/ /\ invite[i].swarm = s /\ ~StillNamed(c)
        /\ invite' = [invite EXCEPT ![i] = NoInvite]
        /\ member' = [member EXCEPT ![s] = [b \in Bridges |->
                        IF b \in call[c].rows THEN [@[b] EXCEPT !.via = None]
                        ELSE @[b]]]
     \/ /\ invite[i].swarm # s \/ StillNamed(c)
        /\ UNCHANGED <<invite, member>>
  /\ UNCHANGED <<accounts, swarm, bridges, family, content, faults, history>>

StartDeleteSwarm(c, s) ==
  /\ Live(s) /\ Start(c, [NoCall EXCEPT !.at = "found", !.swarm = s])
  /\ UNCHANGED <<ids, roster, content, faults, history>>

\* One DELETE of a transaction finds rows, and locks those it finds.
Delete(c, at, next, found) ==
  /\ call[c].at = at /\ ~InventoryLocked(call[c].swarm, found)
  /\ call' = [call EXCEPT ![c].at = next, ![c].stored = @ \cup found]
  /\ UNCHANGED <<ids, roster, content, faults, history>>

DeleteItems(c) == Delete(c, "found", "unlisted", Items(call[c].swarm))
DeleteSnapshots(c) == Delete(c, "unlisted", "emptied", Snapshots(call[c].swarm))

DeleteMembers(c) ==
  LET s == call[c].swarm IN
  /\ call[c].at = "emptied"
  /\ \A b \in Members(s) : ~MemberLocked(s, b)
  /\ call' = [call EXCEPT ![c] = [@ EXCEPT !.at = "expelled",
                                          !.rows = Members(s)]]
  /\ UNCHANGED <<ids, roster, content, faults, history>>

\* A foreign key refuses a statement, and the transaction ends.
Refused(c) ==
  /\ Return(c) /\ UNCHANGED <<ids, roster, content, faults, history>>

\* An invitation a newer member names is not deleted.
DeleteInvitations(c) ==
  LET s == call[c].swarm
      unseen == {b \in Members(s) \ call[c].rows : member[s][b].via # None} IN
  /\ call[c].at = "expelled" /\ \A i \in Invites(s) : ~InviteLocked(i)
  /\ \/ unseen # {} /\ Refused(c)
     \/ /\ unseen = {}
        /\ call' = [call EXCEPT ![c] = [@ EXCEPT !.at = "uninvited",
                                                !.codes = Invites(s)]]
        /\ UNCHANGED <<ids, roster, content, faults, history>>

\* A row the statements before did not see, or did not look for, names the
\* Swarm.
StillReferenced(c) ==
  LET s == call[c].swarm IN
  \/ ~(inventory[s] \subseteq call[c].stored)
  \/ ~(Members(s) \subseteq call[c].rows)
  \/ ~(Invites(s) \subseteq call[c].codes)
  \/ s \in catalogue

\* swarm_memberships, which only CreateSwarm writes, the Swarm's row, and the
\* commit.
DeleteSwarm(c) ==
  LET s == call[c].swarm IN
  /\ call[c].at = "uninvited"
  /\ \/ StillReferenced(c) /\ Refused(c)
     \/ /\ ~StillReferenced(c) /\ Return(c)
        /\ swarm' = [swarm EXCEPT ![s] = None]
        /\ invite' = [i \in Invitations |->
                        IF i \in Invites(s) THEN NoInvite ELSE invite[i]]
        /\ member' = [member EXCEPT ![s] = [b \in Bridges |-> NoMember]]
        /\ inventory' = [inventory EXCEPT ![s] = {}]
        /\ UNCHANGED <<accounts, bridges, family, catalogue, faults, history>>

-----------------------------------------------------------------------------
(* The roster.                                                             *)

\* RemoveBridgeFromSwarm: a transaction of three statements.
RemoveItems(c, s, b) ==
  LET found == Items(s) \cap Of(b) IN
  /\ b \in bridges /\ ~InventoryLocked(s, found)
  /\ Start(c, [NoCall EXCEPT !.at = "removing", !.swarm = s, !.bridge = b,
                             !.stored = found])
  /\ UNCHANGED <<ids, roster, content, faults, history>>

RemoveSnapshot(c) ==
  Delete(c, "removing", "removed", Snapshots(call[c].swarm) \cap Of(call[c].bridge))

\* Nobody was a member: ErrBridgeNotInSwarm, and the transaction rolls back.
RemoveBridgeFromSwarm(c) ==
  LET s == call[c].swarm  b == call[c].bridge IN
  /\ call[c].at = "removed" /\ ~MemberLocked(s, b) /\ Return(c)
  /\ \/ /\ b \in Members(s)
        /\ Put(s, b, NoMember)
        /\ inventory' = [inventory EXCEPT ![s] = @ \ call[c].stored]
     \/ b \notin Members(s) /\ UNCHANGED <<member, inventory>>
  /\ UNCHANGED <<ids, family, catalogue, faults, history>>

\* The owner's name, or the empty one that gives the name back to the Bridge.
SetBridgeDisplayName(s, b) ==
  /\ b \in Members(s) /\ ~MemberLocked(s, b)
  /\ \E new \in {"none", "chosen"} :
       Put(s, b, [member[s][b] EXCEPT !.name = new,
                                      !.byHost = (new # "none")])
  /\ UNCHANGED <<ids, family, content, call, faults, history>>

Revoke(b) ==
  /\ family[b] = "live" /\ ~BridgeLocked(b)
  /\ family' = [family EXCEPT ![b] = "revoked"]
  /\ UNCHANGED <<ids, member, content, call, faults, history>>

Reenroll(b) ==
  /\ family[b] # "none" /\ ~BridgeLocked(b)
  /\ family' = [family EXCEPT ![b] = "live"]
  /\ UNCHANGED <<ids, member, content, call, faults, history>>

-----------------------------------------------------------------------------
(* What a Bridge asks with its credential: PublishInventory, with its name.*)

StartPublish(c, s, b) ==
  /\ family[b] = "live" /\ b \in Members(s)
  /\ Start(c, [NoCall EXCEPT !.at = "allowed", !.swarm = s, !.bridge = b])
  /\ UNCHANGED <<ids, roster, content, faults, history>>

\* The inventory's rows name the Swarm and the Bridge, not the membership.
Replace(c) ==
  LET s == call[c].swarm  b == call[c].bridge IN
  /\ call[c].at = "allowed" /\ ~InventoryLocked(s, Of(b))
  /\ \/ /\ Live(s) /\ Goto(c, "stored")
        /\ inventory' = [inventory EXCEPT ![s] = @ \cup Of(b)]
     \/ ~Live(s) /\ Return(c) /\ UNCHANGED inventory
  /\ UNCHANGED <<ids, roster, catalogue, faults, history>>

\* Mistake: the UPDATE does not ask whose name is there.
ApplyAnyName(c) ==
  LET s == call[c].swarm  b == call[c].bridge IN
  /\ call[c].at = "stored" /\ ~MemberLocked(s, b) /\ Return(c)
  /\ IF member[s][b].in THEN Put(s, b, [member[s][b] EXCEPT !.name = "published"])
     ELSE UNCHANGED member
  /\ UNCHANGED <<ids, family, content, faults, history>>

\* applyBridgePublishedDisplayName: the owner's name is left alone, and so is
\* everything if the Bridge has no name or is no member.
ApplyPublishedName(c) ==
  LET s == call[c].swarm  b == call[c].bridge IN
  /\ call[c].at = "stored" /\ ~MemberLocked(s, b) /\ Return(c)
  /\ \/ /\ member[s][b].in /\ ~member[s][b].byHost
        /\ Put(s, b, [member[s][b] EXCEPT !.name = "published"])
     \/ UNCHANGED member
  /\ UNCHANGED <<ids, family, content, faults, history>>

\* SetBridgePublishedDisplayName: the same, without an inventory.
IntroduceItself(s, b) ==
  /\ family[b] = "live" /\ b \in Members(s) /\ ~MemberLocked(s, b)
  /\ ~member[s][b].byHost
  /\ Put(s, b, [member[s][b] EXCEPT !.name = "published"])
  /\ UNCHANGED <<ids, family, content, call, faults, history>>

-----------------------------------------------------------------------------
\* A statement fails, or the request ends: what was committed stays, and an
\* open transaction is rolled back.
StatementFails(c) ==
  /\ call[c] # NoCall /\ faults < MaxFaults
  /\ faults' = faults + 1 /\ Return(c)
  /\ UNCHANGED <<ids, roster, content, history>>

Request(c) ==
  \/ \E u \in Users : StartBootstrap(c, u)
  \/ Bootstrap(c)
  \/ \E i \in Invitations, b \in Bridges : Count(c, i, b)
  \/ EnsureBridge(c) \/ Join(c) \/ Enroll(c)
  \/ \E s \in Swarms, i \in Invitations : ClearInvitation(c, s, i)
  \/ DeleteInvitation(c)
  \/ \E s \in Swarms : StartDeleteSwarm(c, s)
  \/ DeleteItems(c) \/ DeleteSnapshots(c) \/ DeleteMembers(c)
  \/ DeleteInvitations(c) \/ DeleteSwarm(c)
  \/ \E s \in Swarms, b \in Bridges : RemoveItems(c, s, b)
  \/ RemoveSnapshot(c) \/ RemoveBridgeFromSwarm(c)
  \/ \E s \in Swarms, b \in Bridges : StartPublish(c, s, b)
  \/ Replace(c) \/ ApplyPublishedName(c) \/ StatementFails(c)

Next ==
  \/ \E c \in Calls : Request(c)
  \/ \E u \in Users, s \in Swarms : CreateSwarm(u, s)
  \/ \E s \in Swarms, i \in Invitations : IssueInvitation(s, i)
  \/ \E i \in Invitations : InvitationExpires(i)
  \/ \E s \in Swarms : \/ UploadReferenceCatalogue(s)
                       \/ DeleteReferenceCatalogue(s)
  \/ \E s \in Swarms, b \in Bridges :
       SetBridgeDisplayName(s, b) \/ IntroduceItself(s, b)
  \/ \E b \in Bridges : Revoke(b) \/ Reenroll(b)

Spec == Init /\ [][Next]_vars

-----------------------------------------------------------------------------
(* Properties.                                                             *)

\* "Concurrent redemptions of the same single-use invitation": an invitation
\* makes no more members than it has uses, whatever overlaps or fails.
WithinUses == \A i \in Invitations : enrolled[i] <= MaxUses

\* A member's Bridge is known to the Host, and has a credential family once
\* its redemption is over, unless a statement of one failed in between.
MembersCanConnect ==
  \A s \in Swarms : \A b \in Members(s) :
    /\ b \in bridges
    /\ \/ family[b] # "none" \/ faults > 0
       \/ \E c \in Calls : call[c].at = "joined" /\ call[c].bridge = b

\* No membership, invitation, catalogue or inventory outlives what it belongs
\* to, with deletions, redemptions, publishes and uploads in any order.
ReferencesHold ==
  /\ \A i \in Invitations : invite[i].swarm # None => Live(invite[i].swarm)
  /\ \A s \in catalogue : Live(s)
  /\ \A s \in Swarms : inventory[s] # {} => Live(s)
  /\ \A s \in Swarms : \A b \in Members(s) :
       /\ Live(s)
       /\ member[s][b].via # None => invite[member[s][b].via].swarm = s

\* "The Host owner always has the final word": a name the owner chose stays
\* until the owner changes it, and a cleared one is the Bridge's again.
OwnerNameHolds ==
  \A s \in Swarms : \A b \in Members(s) :
    member[s][b].byHost <=> member[s][b].name = "chosen"

=============================================================================
