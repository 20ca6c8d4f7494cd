------------------------- MODULE InventoryPublishing -------------------------
(***************************************************************************)
(* How one Bridge's inventory reaches the Host.  On the Bridge: every      *)
(* PublishInventory call under publishMu, whoever started it (the timer, a *)
(* click, JoinSwarm), the stored Host connection they load and save, the   *)
(* status an operator watches, and JoinSwarm, which takes no lock.  On the *)
(* Host: the membership check, InventoryStore.Replace and                  *)
(* RemoveBridgeFromSwarm as PostgreSQL transactions under READ COMMITTED.  *)
(*                                                                         *)
(* A manifest is its revision and its set of file ids.  The credential is  *)
(* CredentialRotation's: here a request may be refused for it at any time. *)
(***************************************************************************)
EXTENDS Naturals

CONSTANTS
  Calls,         \* PublishInventory calls on the Bridge or still at the Host
  Swarms,
  NoSwarm, NoCall,
  Files,         \* file ids the Bridge may hold
  MaxRevision,   \* bound: revisions the Bridge publishes
  MaxFaults      \* bound: lost calls, failed saves, crashes, failed queries

ASSUME NobodyIsApart == NoSwarm \notin Swarms /\ NoCall \notin Calls
ASSUME BoundsAreNat == MaxRevision \in Nat /\ MaxFaults \in Nat

VARIABLES
  \* The Bridge.
  config,     \* the stored swarmconn.Config: Swarm and LastPublishedRevision
  publishMu,  \* who holds it
  call,       \* where each PublishInventory call stands
  origin,     \* who started it
  base,       \* the Config it loaded
  phase,      \* PublishStatus.Phase
  triggering, \* publishTriggering
  join,       \* the JoinSwarm call: its stage, its Swarm, the Config it loaded
  \* The Host.
  tx,         \* where each call's request stands
  files,      \* the file ids of its manifest
  gone,       \* the rows its transaction has deleted
  member,     \* bridge_swarm_memberships
  snapshot,   \* inventory_snapshots
  rows,       \* inventory_items
  removal,    \* the RemoveBridgeFromSwarm transaction
  \* Bound and history, read by no guard of the program.
  faults,
  saved,      \* the revisions a call has saved after the Host's answer
  repeated,   \* a call has saved a revision of its Swarm that was saved before
  crossed,    \* a JoinSwarm and a publish have saved over one another
  removed     \* Swarms a removal has been committed for

bridge == <<config, publishMu, call, origin, base, phase, triggering, join>>
requests == <<tx, files, gone>>
tables == <<member, snapshot, rows>>
history == <<saved, repeated, crossed, removed>>
vars == <<bridge, requests, tables, removal, faults, history>>

NoSnapshot == [revision |-> 0, files |-> {}]
NotJoined == [swarm |-> NoSwarm, revision |-> 0]
NoJoin == [stage |-> "idle", swarm |-> NoSwarm, base |-> NotJoined]
NoRemoval == [stage |-> "idle", swarm |-> NoSwarm, gone |-> {}, late |-> FALSE]

Running == {"scanning", "publishing"}
InTransaction == {"upserted", "deleted"}

Init ==
  /\ config = NotJoined /\ publishMu = NoCall
  /\ call = [p \in Calls |-> "idle"] /\ origin = [p \in Calls |-> "none"]
  /\ base = [p \in Calls |-> NotJoined]
  /\ phase = "idle" /\ triggering = FALSE /\ join = NoJoin
  /\ tx = [p \in Calls |-> "none"]
  /\ files = [p \in Calls |-> {}] /\ gone = [p \in Calls |-> {}]
  /\ member = {} /\ snapshot = [s \in Swarms |-> NoSnapshot]
  /\ rows = [s \in Swarms |-> {}] /\ removal = NoRemoval
  /\ faults = 0
  /\ saved = {} /\ repeated = FALSE /\ crossed = FALSE /\ removed = {}

Fault == faults < MaxFaults /\ faults' = faults + 1
NoFault == UNCHANGED faults

Free(p) == call[p] = "idle" /\ tx[p] = "none"
Queue(p, who) ==
  /\ Free(p)
  /\ call' = [call EXCEPT ![p] = "queued"]
  /\ origin' = [origin EXCEPT ![p] = who]

-----------------------------------------------------------------------------
(* Who starts a publish.                                                   *)

\* The auto-publish loop makes its attempts one after another.
AutoPublish(p) ==
  /\ \A q \in Calls : call[q] # "idle" => origin[q] # "timer"
  /\ Queue(p, "timer")
  /\ UNCHANGED <<config, publishMu, base, phase, triggering, join, requests,
                 tables, removal, faults, history>>

\* TriggerPublishInventory: the status runs before the call does.
Trigger(p) ==
  /\ ~triggering /\ triggering' = TRUE
  /\ Queue(p, "click")
  /\ phase' = "scanning"
  /\ UNCHANGED <<config, publishMu, base, join, requests, tables, removal,
                 faults, history>>

\* The click's goroutine lets the next click through once its call returned.
TriggerDone(p) ==
  /\ call[p] = "returned"
  /\ call' = [call EXCEPT ![p] = "idle"]
  /\ origin' = [origin EXCEPT ![p] = "none"]
  /\ triggering' = FALSE
  /\ UNCHANGED <<config, publishMu, base, phase, join, requests, tables,
                 removal, faults, history>>

-----------------------------------------------------------------------------
(* PublishInventory on the Bridge.                                         *)

\* The call ends: its status is final and the lock is given back.  A request
\* the Host still works on outlives it.
Release(p) ==
  /\ publishMu' = NoCall
  /\ call' = [call EXCEPT ![p] = IF origin[p] = "click" THEN "returned"
                                 ELSE "idle"]
  /\ base' = [base EXCEPT ![p] = IF tx[p] \in {"ok", "refused", "none"}
                                 THEN NotJoined ELSE @]
  /\ tx' = [tx EXCEPT ![p] = IF @ \in {"ok", "refused"} THEN "none" ELSE @]
  /\ files' = [files EXCEPT ![p] = IF tx[p] \in {"ok", "refused"} THEN {}
                                   ELSE @]
  /\ origin' = [origin EXCEPT ![p] = IF @ = "click" THEN @ ELSE "none"]
  /\ UNCHANGED <<triggering, join, gone, tables, removal>>

End(p, outcome) == phase' = outcome /\ Release(p)

\* Mistake: the lock is not taken.
BeginUnlocked(p) ==
  /\ call[p] = "queued" /\ config.swarm # NoSwarm
  /\ config.revision < MaxRevision
  /\ call' = [call EXCEPT ![p] = "scanning"]
  /\ base' = [base EXCEPT ![p] = config]
  /\ phase' = "scanning"
  /\ UNCHANGED <<config, publishMu, origin, triggering, join, requests, tables,
                 removal, faults, history>>

\* The lock, the status, and the stored connection.
Begin(p) ==
  /\ call[p] = "queued" /\ publishMu = NoCall
  /\ \/ /\ config.swarm # NoSwarm /\ config.revision < MaxRevision
        /\ publishMu' = p
        /\ call' = [call EXCEPT ![p] = "scanning"]
        /\ base' = [base EXCEPT ![p] = config]
        /\ phase' = "scanning"
        /\ UNCHANGED <<config, origin, triggering, join, requests, tables,
                       removal, faults, history>>
     \/ /\ config.swarm = NoSwarm
        /\ End(p, "error") /\ NoFault /\ UNCHANGED <<config, history>>

\* The scan found something: its manifest goes to the Host.
Send(p) ==
  /\ call[p] = "scanning"
  /\ \E held \in SUBSET Files \ {{}} : files' = [files EXCEPT ![p] = held]
  /\ tx' = [tx EXCEPT ![p] = "arrived"]
  /\ call' = [call EXCEPT ![p] = "publishing"]
  /\ phase' = "publishing"
  /\ UNCHANGED <<config, publishMu, origin, base, triggering, join, gone,
                 tables, removal, faults, history>>

\* Mistake: having nothing to publish returns before the status is final.
NothingSentSilently(p) ==
  /\ call[p] = "scanning"
  /\ Release(p)
  /\ UNCHANGED <<config, phase, faults, history>>

\* ErrNothingToPublish, or the scan failed.
NothingSent(p) ==
  /\ call[p] = "scanning"
  /\ \E outcome \in {"done", "error"} : End(p, outcome)
  /\ UNCHANGED <<config, faults, history>>

\* The Host has stored the manifest: the whole Config is saved again, as this
\* call loaded it, with the new revision.
Save(p) ==
  LET new == [base[p] EXCEPT !.revision = @ + 1]
      what == <<new.swarm, new.revision>> IN
  /\ call[p] = "publishing" /\ tx[p] = "ok"
  /\ config' = new
  /\ saved' = saved \cup {what}
  /\ repeated' = (repeated \/ what \in saved)
  /\ End(p, "done") /\ NoFault /\ UNCHANGED <<crossed, removed>>

SaveFails(p) ==
  /\ call[p] = "publishing" /\ tx[p] = "ok"
  /\ End(p, "error") /\ Fault /\ UNCHANGED <<config, history>>

Refused(p) ==
  /\ call[p] = "publishing" /\ tx[p] = "refused"
  /\ End(p, "error") /\ NoFault /\ UNCHANGED <<config, history>>

\* The publish timeout, or a lost connection.
GiveUp(p) ==
  /\ call[p] = "publishing"
  /\ End(p, "error") /\ Fault /\ UNCHANGED <<config, history>>

-----------------------------------------------------------------------------
(* JoinSwarm, and the process.                                             *)

StartJoin(s) ==
  /\ join.stage = "idle"
  /\ join' = [stage |-> "asked", swarm |-> s, base |-> config]
  /\ UNCHANGED <<config, publishMu, call, origin, base, phase, triggering,
                 requests, tables, removal, faults, history>>

\* RedeemInvitation records the membership.
Enroll ==
  /\ join.stage = "asked"
  /\ join' = [join EXCEPT !.stage = "enrolled"]
  /\ member' = member \cup {join.swarm}
  /\ UNCHANGED <<config, publishMu, call, origin, base, phase, triggering,
                 requests, snapshot, rows, removal, faults, history>>

\* A publish was saved since this call loaded the connection, or one is at work
\* that will save the Swarm it loaded.
Cross ==
  crossed' = \/ crossed \/ config # join.base
             \/ \E p \in Calls : call[p] \in Running
                                 /\ base[p].swarm # join.swarm

\* Mistake: joining stores a new connection, which has published nothing.
SaveJoinAfresh ==
  /\ join.stage = "enrolled"
  /\ config' = [swarm |-> join.swarm, revision |-> 0]
  /\ Cross
  /\ join' = NoJoin
  /\ \E p \in Calls : Queue(p, "join")
  /\ UNCHANGED <<publishMu, base, phase, triggering, requests, tables, removal,
                 faults, saved, repeated, removed>>

\* The connection is saved as it was loaded, with the new Swarm in it, and a
\* first publish is started.
SaveJoin ==
  /\ join.stage = "enrolled"
  /\ config' = [join.base EXCEPT !.swarm = join.swarm]
  /\ Cross
  /\ join' = NoJoin
  /\ \E p \in Calls : Queue(p, "join")
  /\ UNCHANGED <<publishMu, base, phase, triggering, requests, tables, removal,
                 faults, saved, repeated, removed>>

\* The invitation is refused, the answer is lost or cannot be stored.
JoinFails ==
  /\ join.stage # "idle" /\ join' = NoJoin
  /\ \/ join.stage = "asked" /\ NoFault
     \/ join.stage = "enrolled" /\ Fault
  /\ UNCHANGED <<config, publishMu, call, origin, base, phase, triggering,
                 requests, tables, removal, history>>

BridgeCrash ==
  /\ Fault
  /\ publishMu' = NoCall /\ phase' = "idle" /\ triggering' = FALSE
  /\ call' = [p \in Calls |-> "idle"] /\ join' = NoJoin
  /\ origin' = [p \in Calls |-> "none"]
  /\ tx' = [p \in Calls |-> IF tx[p] \in {"ok", "refused"} THEN "none"
                            ELSE tx[p]]
  /\ base' = [p \in Calls |-> IF tx'[p] = "none" THEN NotJoined ELSE base[p]]
  /\ files' = [p \in Calls |-> IF tx'[p] = "none" THEN {} ELSE files[p]]
  /\ UNCHANGED <<config, gone, tables, removal, history>>

-----------------------------------------------------------------------------
(* Directory.PublishInventory and InventoryStore.Replace on the Host.      *)

Swarm(p) == base[p].swarm

\* The answer: nobody is left to read it once the Bridge has given up.
Answer(p, what) ==
  /\ gone' = [gone EXCEPT ![p] = {}]
  /\ IF call[p] = "publishing"
     THEN tx' = [tx EXCEPT ![p] = what] /\ UNCHANGED <<base, files>>
     ELSE /\ tx' = [tx EXCEPT ![p] = "none"]
          /\ base' = [base EXCEPT ![p] = NotJoined]
          /\ files' = [files EXCEPT ![p] = {}]
  /\ UNCHANGED <<config, publishMu, call, origin, phase, triggering, join>>

\* A credential the Host does not accept, or no membership.
Refuse(p) ==
  /\ tx[p] = "arrived"
  /\ Answer(p, "refused")
  /\ UNCHANGED <<tables, removal, faults, history>>

CheckMember(p) ==
  /\ tx[p] = "arrived" /\ Swarm(p) \in member
  /\ tx' = [tx EXCEPT ![p] = "checked"]
  /\ UNCHANGED <<bridge, files, gone, tables, removal, faults, history>>

\* Locks on the snapshot row, and on rows of the items table.
SnapshotLocked(s) ==
  \/ \E p \in Calls : tx[p] \in InTransaction /\ Swarm(p) = s
  \/ removal.stage = "snapshot" /\ removal.swarm = s
RowsLocked(s) ==
  \/ \E p \in Calls : tx[p] = "deleted" /\ Swarm(p) = s /\ gone[p] # {}
  \/ removal.stage \in {"items", "snapshot"} /\ removal.swarm = s
       /\ removal.gone # {}

\* Mistake: the snapshot row is not written first, so nothing is waited for.
UpsertUnlocked(p) ==
  /\ tx[p] = "checked"
  /\ tx' = [tx EXCEPT ![p] = "upserted"]
  /\ UNCHANGED <<bridge, files, gone, tables, removal, faults, history>>

\* The snapshot row first: its lock is what keeps two Replace calls apart.
Upsert(p) ==
  /\ tx[p] = "checked" /\ ~SnapshotLocked(Swarm(p))
  /\ tx' = [tx EXCEPT ![p] = "upserted"]
  /\ UNCHANGED <<bridge, files, gone, tables, removal, faults, history>>

DeleteItems(p) ==
  /\ tx[p] = "upserted" /\ ~RowsLocked(Swarm(p))
  /\ gone' = [gone EXCEPT ![p] = rows[Swarm(p)]]
  /\ tx' = [tx EXCEPT ![p] = "deleted"]
  /\ UNCHANGED <<bridge, files, tables, removal, faults, history>>

\* The inserts, and the commit.  An insert that met a row of the same id would
\* fail on the primary key: the locks taken before leave none to meet.
Commit(p) ==
  LET s == Swarm(p) IN
  /\ tx[p] = "deleted"
  /\ (rows[s] \ gone[p]) \cap files[p] = {}
  /\ snapshot' = [snapshot EXCEPT ![s] = [revision |-> base[p].revision + 1,
                                          files |-> files[p]]]
  /\ rows' = [rows EXCEPT ![s] = (@ \ gone[p]) \cup files[p]]
  /\ removal' = [removal EXCEPT !.late = @ \/ (removal.stage = "blocked"
                                               /\ removal.swarm = s)]
  /\ Answer(p, "ok")
  /\ UNCHANGED <<member, faults, history>>

\* A query fails, or the request's context ended with its connection.
Rollback(p) ==
  /\ tx[p] \in {"checked"} \cup InTransaction
  /\ Answer(p, "refused") /\ Fault
  /\ UNCHANGED <<tables, removal, history>>

-----------------------------------------------------------------------------
(* RemoveBridgeFromSwarm: items, then the snapshot, then the membership.   *)

RemoveItems(s) ==
  /\ removal.stage = "idle"
  /\ removal' = [stage |-> IF RowsLocked(s) THEN "blocked" ELSE "items",
                 swarm |-> s, late |-> FALSE,
                 gone |-> IF RowsLocked(s) THEN {} ELSE rows[s]]
  /\ UNCHANGED <<bridge, requests, tables, faults, history>>

\* A statement that waited deletes what is left of the rows it saw: none, if
\* the transaction it waited for replaced them.
RemoveItemsResumed ==
  /\ removal.stage = "blocked" /\ ~RowsLocked(removal.swarm)
  /\ removal' = [removal EXCEPT
       !.stage = "items", !.late = FALSE,
       !.gone = IF removal.late THEN {} ELSE rows[removal.swarm]]
  /\ UNCHANGED <<bridge, requests, tables, faults, history>>

RemoveSnapshot ==
  /\ removal.stage = "items" /\ ~SnapshotLocked(removal.swarm)
  /\ removal' = [removal EXCEPT !.stage = "snapshot"]
  /\ UNCHANGED <<bridge, requests, tables, faults, history>>

\* The membership, and the commit; without a membership, neither.
RemoveMember ==
  LET s == removal.swarm IN
  /\ removal.stage = "snapshot"
  /\ removal' = NoRemoval
  /\ \/ /\ s \in member
        /\ member' = member \ {s}
        /\ snapshot' = [snapshot EXCEPT ![s] = NoSnapshot]
        /\ rows' = [rows EXCEPT ![s] = @ \ removal.gone]
        /\ removed' = removed \cup {s}
     \/ s \notin member /\ UNCHANGED <<tables, removed>>
  /\ UNCHANGED <<bridge, requests, faults, saved, repeated, crossed>>

\* The removal holds rows a Replace waits for, and waits for its snapshot:
\* PostgreSQL ends one of the two.
Deadlock(p) ==
  /\ tx[p] = "upserted"
  /\ removal.stage = "items" /\ removal.swarm = Swarm(p) /\ removal.gone # {}
  /\ \/ Answer(p, "refused") /\ UNCHANGED removal
     \/ removal' = NoRemoval /\ UNCHANGED <<bridge, requests>>
  /\ UNCHANGED <<tables, faults, history>>

-----------------------------------------------------------------------------
Publish(p) ==
  \/ AutoPublish(p) \/ Trigger(p) \/ TriggerDone(p)
  \/ Begin(p) \/ Send(p) \/ NothingSent(p)
  \/ Save(p) \/ SaveFails(p) \/ Refused(p) \/ GiveUp(p)

Handle(p) ==
  \/ Refuse(p) \/ CheckMember(p) \/ Upsert(p) \/ DeleteItems(p)
  \/ Commit(p) \/ Rollback(p) \/ Deadlock(p)

Remove ==
  \/ \E s \in Swarms : RemoveItems(s)
  \/ RemoveItemsResumed \/ RemoveSnapshot \/ RemoveMember

Next ==
  \/ \E p \in Calls : Publish(p) \/ Handle(p)
  \/ \E s \in Swarms : StartJoin(s)
  \/ Enroll \/ SaveJoin \/ JoinFails \/ BridgeCrash
  \/ Remove

Spec == Init /\ [][Next]_vars

-----------------------------------------------------------------------------
(* Properties.                                                             *)

\* "Leaving a torn union of both manifests' items behind" is what upserting
\* the snapshot row first prevents: a Swarm's rows are one manifest's, the
\* one its snapshot row describes, whatever requests overlap or fail.
SnapshotDescribesRows ==
  \A s \in Swarms \ removed : rows[s] = snapshot[s].files

\* "Two overlapping publishes can never race the Load-modify-Save": no two
\* publishes are saved under one revision of a Swarm.
RevisionsAreFresh == repeated => crossed

\* A Host that stored a manifest whose answer was lost is ahead of the Bridge
\* by one revision, and never by more.
HostIsOneAhead ==
  \A s \in Swarms : snapshot[s].revision <= config.revision + 1 \/ crossed

\* While a call scans or sends, the status runs; and it runs only while some
\* call is queued or at work, so it cannot be left running for ever.  What a
\* click is shown while its call still waits is ClickShowsRunning.
StatusIsLive ==
  /\ (\E p \in Calls : call[p] \in Running) => phase \in Running
  /\ phase \in Running => \E p \in Calls : call[p] \in Running \cup {"queued"}

\* "The response to the very call that started a publish must already show
\* running" (cmd/bridge/inventory.go): the status it is read from runs from
\* the click on until the call it started is over.
\* It does not hold: PublishingClick.cfg.
ClickShowsRunning ==
  \A p \in Calls : call[p] = "queued" /\ origin[p] = "click"
                      => phase \in Running

=============================================================================
