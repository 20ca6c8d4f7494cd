# RomM-Swarm: a TLA+ verification project

RomM-Swarm links self-hosted RomM libraries: a **Bridge** beside each RomM server publishes what it holds to a
**Host**, and payloads travel between Bridges, directly or through a **relay**. This directory models the parts
in which actors interleave, fail or restart, checks them with TLC on small instances, and proves the most
important results with TLAPS for every instance.

## Inventory

| Component | State | Operations | Talks to | What is hard | What makes it correct |
|---|---|---|---|---|---|
| Credential rotation (`auth`, `host/directory/bridgelocks.go`, `bridges.go`, `bridge/hostclient`) | family row on the Host; credential file on the Bridge | Enroll, Rotate, Revoke, ReEnroll; Refresh, Save, Load | HTTP, PostgreSQL, the Bridge's disk | lost replies, crash between rename and fsync, two exchanges at once, owner racing a rotation | a token buys two rotations at most, reuse is alleged only when it happened, revocation sticks, one interruption is recoverable |
| Receiving flow (`bridge/ingest`, `bridge/destination`, `protocol/destination.go`) | journal, staging, temporary copies, RomM library | Receive, Verify, Publish or Upload, Await, Republish, CleanupAbandoned | RomM's API and watcher, two filesystems | concurrent imports to one name, crashes, failed journal writes, late indexing | journal follows the state machine and tells the truth, only verified payloads get a final name, sources are real |
| Relay (`relay`) | per-grant waiter, bytes, revocation, running session; a global slot count | handle, pairAndRelay, pipe, admit, release, Revoke | TCP connections of source and sink | goroutines racing for one connection, budgets across reconnects | sessions do not share connections, slots and budgets count exactly, Revoke is final |
| Inventory publishing (`cmd/bridge`, `bridge/swarmconn`, `host/directory/inventory.go`, `host/hoststore/inventory.go`) | stored connection and status; snapshot, items, memberships | PublishInventory, TriggerPublishInventory, auto-publish, JoinSwarm; Replace, RemoveBridgeFromSwarm | HTTP, PostgreSQL under READ COMMITTED | three callers, long scans, lost answers, opposite lock orders | rows and snapshot agree, revisions are fresh, the Host is at most one ahead, status is live |
| Transport (`bridge/transport`) | offsets on each side, current route | Send, Receive, Dial, dialRelay, acceptOne | relay, direct listener | a route breaking mid-stream, bytes written but not delivered, two offsets to reconcile, waits without a deadline | sink's bytes are the source's in order where the network lost none; both sides return |
| Host directory (`host/directory`, `host/hoststore`) | accounts, sessions, Swarms, invitations, roster, catalogues | BootstrapOwner, CreateSwarm, DeleteSwarm, Issue, RedeemInvitation, Upload ... | PostgreSQL | check-then-act outside transactions, steps of which one fails, foreign keys | an invitation is used max_uses times at most, no row outlives what it names, members can connect, the owner's name stands |
| Sharing policy and manifests (`bridge/publish`, `protocol/manifest.go`) | none | Permits, Snapshot, Diff, Validate | publishing | duplicates of one file, a policy or an adapter that changes between two deltas | nothing withheld is published; a delta on the manifest before it gives the manifest after it |
| Preservation (`preservation`) | none | Assess, ComputeCoverage | Host views | records of one Bridge that repeat, contradict each other or lie in the future | one Bridge is one replica at most; the coverage figures add up |
| Scanning and classification (`bridge/scan`, `reference`, `protocol/digest.go`) | page cursor, loaded catalogues | ScanPlatform, ImportDAT, Profile.Apply, Lookup, Compare, Classify | RomM, the Host's catalogues | pages over a library that changes, partial digests, several releases of one game, a catalogue that is replaced | every record of a still library is met once; only what a catalogue vouches for is held; one game is one ROM |
| ROM analysis (`verify`) | none | Analyze, unwrap, selectAdapter, adapters per format | files | byte parsing, archives with several members, two adapters that claim one payload | canonical identity ignores headers and padding |
| RomM client (`bridge/romm`) | none of its own | Probe, EvaluateCapabilities, DetectAuthScheme, Connect, FetchPlatforms | RomM | versions of RomM that differ, inconclusive answers | no connection without its required capabilities and a confirmed credential |
| RomM connection of the Bridge (`cmd/bridge/daemon.go`, `library.go`, `bootstrap.go`, `main.go`, `bridge/bridgeconfig`, forms of `bridge/adminui`) | config.json, the live connection, the library cache and its mutex | Bootstrap, setup, settings, password, Reconnect, Library | RomM, the disk, browsers | whole-file load and save around minutes of requests, a listing in flight during a Reconnect, crashes between save and Reconnect | what is live is what is stored; a listing is never older than a Reconnect that returned; every request returns |
| User interfaces and APIs (`bridge/adminui`, `host/hostapi`, `host/hostui`) | cookies | handlers | all of the above | request handling | they call the operations above |
| Tools, doubles (`cmd`, `internal`) | none | start-up, one-shot commands | all of the above | | |

The hazards are listed, line by line, in `PROJECT.json` with the properties that watch them.

## Modules

| Module | Models | How it corresponds to the code |
|---|---|---|
| `CredentialRotation` | `Verifier`, `bridgeLocks`, `FileStore`, `Client.Refresh`, `RotateFunc` | `family` is the row; a handler is queued for the lock, loads the row, and saves and answers in one action per outcome of `Rotate`, `Revoke`, `ReEnroll` or `Enroll`. The Bridge's call loads, waits, renames and flushes, and every failure behind the rename (the directory cannot be opened or flushed) leaves the new file `unflushed`. A token is the number of its minting, standing for 32 random bytes. |
| `DestinationMachine` | `protocol/destination.go` and a `Journal` | the abstract specification: one legal move of one transfer at a time |
| `ReceivingFlow` | `Flow.Receive` with staging, publisher, uploader, reconciler and journal | `pc[t]` is where a transfer's goroutine stands; each action is one call that touches disk, RomM or journal, and each may fail. It instantiates `DestinationMachine` twice: as `Machine`, on `state` and `passed`, for the journal's own check, and as `Requests`, on `Requested`, for what the flow asks the journal to record, an entry it refuses included. |
| `Relay` | `relay.Server` | `stage[c]` is where a connection's handler stands; each action is one critical section of `grantState.mu` or one call on a connection. |
| `InventoryPublishing` | both ends of a publish, `JoinSwarm`, `RemoveBridgeFromSwarm` | `call[p]` is a `PublishInventory` call, `tx[p]` its request's transaction on the Host, one action per SQL statement that locks. |
| `HostDirectory` | `host/directory` over `schema.sql` | one variable per table; `call[c]` is a request of several statements, one action per statement; a call whose last statement alone decides is one action. Removals and deletions go DELETE by DELETE, in the order of the code; the rows of one are locked (`stored`, `rows`, `codes`) from its statement to its end, and `Refused` is a foreign key's verdict. |
| `Transport` | `Session.Send`, `Session.Receive`, `Router`, `acceptOne`; the relay's pairing and byte count | `src` and `sink` are the two goroutines; `conn` has every connection made, with the bytes in its buffers; a byte is its position in the payload. Reading the payload, accepting and writing to `dst` fail as connections do. |
| `Catalogue` | `verify` (selection of payload and adapter), `reference` (import, profile, lookup, classification), `protocol.Digest.Compare` | no state: operators. A hash is a number, 0 when absent; a title is a sequence of words; a catalogue is a function from the places of its entries; what adapters read in the bytes is a constant. |
| `FilteredPublication` | `scanHoldings`, `Scanner.ScanPlatform`, `RommSource.ListROMs`, `refreshReferenceCatalogues`, package `publish` | `scan` is the scan in progress, one action per page, record and platform, those that are passed over included; `held` is the Swarm's copy, which a snapshot replaces and a delta edits. It EXTENDS `Catalogue`. |
| `Preservation` | `preservation/risk.go` | the state is the input, a set of availability records per file and the clock; `Assess` and `Coverage` are operators on it |
| `RommProbe` | `bridge/romm` | no state: a server is a record of what it documents, accepts, allows the token and answers, and `Connect` and `FetchPlatforms` are what the Bridge makes of it |
| `RommConnection` | the daemon's start-up, `Reconnect`, `Library`, the stored configuration, the forms that change it | `req[p]` is where the boot or an admin request stands, from the load of the whole configuration to its save (which may fail before its rename or behind it), the probe, the platforms, `d.conn.Store` and `invalidateLibraryCache`; `lock` is `libraryMu`. It EXTENDS `RommProbe`. |
| `MC*` | | the symmetry sets and the instances of the runs |
| `*_proofs` | | the theorems |

The modules meet at stated interfaces: `InventoryPublishing` lets the Host refuse any request, which is what
`CredentialRotation` decides in detail; `Transport` uses of `Relay` only what it promises: a pairing of both roles, an exact count of
the bytes of sessions that do not overlap, a refusal; `ReceivingFlow` starts from the byte stream `Transport` delivers.
Bytes are counted and never looked at; a payload is a model value, a manifest a revision and a set of file
ids. `InventoryPublishing` asks when something is published, `FilteredPublication` what. Each module holds, beside an action, the named mistakes ("Mistake: ...") that its properties detect;
they are no part of `Next`.

## Runs

| Run | Instance | Shows |
|---|---|---|
| `credential_rotation` | 2 exchanges and the owner, grace 1 tick, 4 tokens, 2 losses; 3.9 million states | `SpentAtMostTwice`, `ReuseHappened`, `InterruptionIsRecoverable`, `RevocationSticks` |
| `receiving_flow` | 2 transfers to 1 name, 2 payloads, 1 fault, both modes, same and different filesystems | what the flow asks of its journal implements `DestinationMachine`, and the journal is true; nothing unverified or overwritten; sources are held and findable (`SourceIsReal`) |
| `receiving_ends` | 1 transfer, 2 faults, fairness | an import without failure ends; staging drains always |
| `relay` | 4 connections, 2 grants, 2 units of budget, relays of 1 slot and of 2, 1 client leaving | a session's two connections are its own, slots are counted exactly; budget and offsets exact, Revoke final, also beside sessions of the grant that overlap |
| `inventory_publishing` | 2 calls, 1 Swarm, 2 files, 2 revisions, 1 fault | rows fit the snapshot, revisions fresh, Host one ahead at most, status live |
| `host_directory` | 2 requests at a time, 1 Swarm, 2 single-use invitations, 2 Bridges, 1 failed statement | an invitation makes no more members than its uses, no row outlives what it names, members have a credential, the owner's name stands |
| `transport` | 3 bytes, 2 bytes of buffer each way, 3 faults of any kind, fairness | bytes in order over every switch of routes unless the network or a failed write lost some, both sides return once faults are over, everything arrives when nothing breaks |
| `filtered_publication` | 2 platforms and an unknown one, 3 libraries of 3 or 4 records in pages of 2, 3 catalogues (one with a bad dump, one in two versions), 3 policies; 1 change of the library, 1 of catalogue or policy, 1 fault | a still library is seen whole, one game is one ROM, only the verified is held, a delta tells the whole |
| `preservation` | 3 Bridges, 2 stated domains and none, 2 files, 3 records, clock to 3, window 1 | replicas are real, the coverage figures add up |
| `romm_connection` | 2 admin requests at a time, 2 in all besides the boot, 2 addresses, 3 servers (a current one whose token may not upload, an old and empty one, one whose identity endpoint fails), first start or a stored configuration, 1 fault, fairness | listings follow a Reconnect, connected as stored, saved fields stay, live is usable, every request returns |
| `transport_switch`, `relay_revoke` | | disagreements of code and text, below |

**Why the bounds are enough to be interesting.** Two of everything that contends: two exchanges for a lock, two
transfers for a name, two sessions' worth of connections for one slot, two publishes for a row. Four tokens
allow an enrolment, a rotation, its recovery and one more rotation, which is the shortest history in which a
third use of a token could happen. One fault at any point covers every single failure, two losses (`credential_rotation`) a crash that a power loss follows; every property is also broken,
under the same bounds, by a named mistake. `InventoryPublishing` has one Swarm
because with two it passes 15 million states; what that hides (a revision carried into another Swarm) is in the
list of hazards. Its revisions are bounded by 2, so a third publish after a lost answer is not seen.
`HostDirectory` has one Swarm and one owner, for 2.4 million states: every statement of a deletion meets every redemption, publish, upload and
new invitation (a Bridge's items of one Swarm are one row), but not two Swarms, which share only Bridges and their families, and not two bootstraps of different names.
`Transport` has three bytes so that one can be read, one be in a buffer and one be unsent when a connection breaks, and three faults so that
a direct connection and two relayed ones can break in one transfer; whether the sink listens, is reachable and has a relay is chosen in `Init`.
The number of a relay's slots is chosen in `Init`: with one every second session is refused, with two, sessions of one grant run beside each other, or one follows before the one before it has cleared its record.

`FilteredPublication`'s records are chosen so that each verdict of `Classify` occurs: two releases of one game, a zip with an
unusable member, a payload no catalogue lists, one filed under another title, a bad dump, one content in two container formats; pages of two cut through each platform's records. `Preservation`'s three
records let one Bridge contradict itself and still leave another its replica, and three Bridges reach every threshold. `RommConnection`'s two requests
are what it takes to overlap two rewrites, or a listing and a Reconnect; the boot adds its own.

**Symmetry** is used only in runs without liveness and over values no action tells apart. **Deadlock** is checked
for credential rotation, where a request can always be made, if only to be refused, and for `FilteredPublication`, where the next scan can always begin; in the other runs a behaviour
may stop because every transfer or connection is over, or every id is used up, or (`transport`) because the sink waits in `acceptOne`.

**Fairness.** `ReceivingFlow!FairSpec` is weakly fair to a started goroutine, whose every blocking call has a
deadline, to the passing of time for a staged file, and to the cleanup's ticker. Nothing is owed by RomM, by
outsiders, or by crashes, and an import need never be started. `RommConnection!FairSpec` asks one thing for all: while
some goroutine of the daemon can go on, one does. Every request to RomM has a timeout, and the Go scheduler and `sync.Mutex` owe no more than that
here, because each request has finitely many steps. `Relay`, `HostDirectory`, `InventoryPublishing` and the others are checked for safety only.
`Transport!FairSpec` is weakly fair to either side's goroutine, one disjunction each, and to the relay, whose copy, pairing and timeouts need no one
else; nobody owes a cancellation, and no fault need happen. The number of faults is bounded, so a payload that can never be read is not among these behaviours (`TransportRedial.cfg`).

**Where conditions appear in properties.** `InterruptionIsRecoverable` is about calls of one Bridge that do not
overlap, a disk that keeps what was flushed, and what no power loss did to a rename left without a flush (`undone`). `BudgetHolds` and `OffsetIsExact` are about
grants whose sessions do not overlap, `RevokedMovesNothing` about grants in which no session has written over the record (`activeSrc`, `activeSink`) of another that copies. `RevisionsAreFresh` and `HostIsOneAhead` excuse a `JoinSwarm`
that crossed a publish, and `SnapshotDescribesRows` a Swarm the Bridge was removed from. `MembersCanConnect` excuses a
redemption of which a statement failed. `InOrder` excuses a transfer of which the network lost bytes that were written, and, after the source
restarted, one that used the direct route or a relay that had not yet counted its last session; one in which a write to `dst` failed is excused like a loss; `BothReturn` holds once faults have come to an end, and excuses a source whose connection
stays in the listener's backlog and a sink in `acceptOne`; `DeliveredInPeace` asks that a sink that listens can be reached and that both sides come within the relay's deadlines. `StillLibraryIsSeenWhole` is about a library
nobody touches while it is scanned and downloads that succeed. `SavedFieldsStay` and `ConnectedAsStored` are about rewrites of the configuration that do not overlap, the second about
a daemon whose last Reconnect got a connection and no save of a new target that failed behind its rename (`failed`); `LiveIsUsable` about a server that has not changed since it was probed, and what it was asked: that an operation is there, not that the token may use it. Each
condition marks a place where the code gives no guarantee, listed as a hazard.

**One type invariant** is checked as such, that of `ReceivingFlow`; those of the other modules are parts of the proved invariants (`TypeCorrect` and `TransportTyped` have theorems of their own), and a wrong type would break one of the
listed properties or stop TLC.

### Where the code does not do what its texts say

TLC refutes each of these texts, stated as the property named. The first two are runs of `PROJECT.json`; the others have a .cfg of their own, for `tlc -config <cfg> MC<module>`.

| Run or .cfg, property | Text | What happens |
|---|---|---|
| `transport_switch`, `SwitchLosesNothing` | `bridge/transport/transport.go:10` "neither loses nor duplicates bytes" | bytes in the buffers of a broken connection are counted as sent and never sent again |
| `relay_revoke`, `RevokeEndsGrant` | `relay/relay.go:190` "an already-active relayed session is torn down mid-flight" | the deferred clear of a session that has ended wipes the record of the next one, which a client opened as soon as its bytes had come; `Revoke` then finds nothing to close |
| `TransportRedial.cfg`, `RedialsOnlyWhatBroke` | `bridge/transport/transport.go:252` "Otherwise the connection failed mid-stream: loop around and dial again" | a read of the payload that fails comes back like a broken connection, so `Send` closes one nothing is wrong with and dials again, for ever if the payload stays unreadable or too short |
| `CredentialRevival.cfg`, `OnlyOwnerRevives` | `auth/refresh.go:405` "it is the only one. Nothing on the automatic path can resurrect a revoked family", and ADR 0014 | a revoked Bridge that redeems an invitation with its own key is enrolled over the revoked family (`host/directory/bridges.go:82`) and has a live credential |
| `ReceivingCancelled.cfg`, `CancelledIsUndelivered` | `bridge/ingest/flow.go:226` "Publication refused. Nothing reached the library", and `protocol/destination.go:106-109` | the directory cannot be opened after the link: the payload has its final name, and the transfer is recorded as cancelled |
| `PublishingClick.cfg`, `ClickShowsRunning` | `cmd/bridge/inventory.go:205` "the response to the very call that started a publish must already show running:true" | a click marks the one status before its call has `publishMu`; a timer's publish that ends then sets it to done, which is what the click is answered |
| `RommSaveError.cfg`, `ErrorsAreNotTrusted` | `bridge/bridgeconfig/config.go:187` "Callers must not assume an error here means the old config is still in effect" | a settings form takes any error for an unwritten file and leaves without a Reconnect: the new server is stored, the old one connected |
| `RommReady.cfg`, `ReadyToUse` | `bridge/romm/connect.go:10` "returns a ready-to-use client and report, or an error explaining exactly what went wrong" | `Connect` tries the token on one read-only path, so one without the upload scope passes, and `roms.upload` answers 403 |

More disagreements, and places where a reader may expect more than the code does, have no run of their own; the models do what the code does, and the conditions above leave
room for them:

* A Swarm with a reference catalogue cannot be deleted: `DeleteSwarm`'s statements leave that table out, and its foreign key refuses the last of them (`host/directory/swarms.go:102`, against `:100`, "no foreign key is ever violated"; `StillReferenced` in `HostDirectory`).
* A Bridge that dies between the rename and the directory flush of its credential loads the renamed file after its restart and rotates on it without flushing it; a power loss
  then brings back a token the Host no longer recognises (`auth/bridgestore.go:158`, against `auth/refresh.go:178`, "turns a crash into a non-event"). It takes two interruptions.
* After a crash past hand-off nothing resumes the transfer (`cmd/bridge/daemon.go:164`, against `protocol/destination.go:109`, "must resolve ... or land in a visible review state").
* A waiter replaced by another of its role is left open, unanswered, until its own side gives up (`relay/relay.go:301`, against `:88`). It holds no slot, so no property of the relay is touched.
* A sink whose listener cannot be reached waits for ever and never asks the relay (`bridge/transport/transport.go:305`, against `:308`, "exactly the CGNAT-fallback case").
* An upload that fails after RomM has the file is filed as `verification_conflict`, "never handed to a destination" (`flow.go:216`, `protocol/destination.go:65`); and so is a staged file
  that cannot be read, though no payload failed to match (`bridge/destination/staging.go:195`, against `protocol/destination.go:64`, "received payload did not match").
* `Client.Refresh` may fail behind the rename, and then the new credential is on file (`auth/bridgestore.go:158-186`, against `:207-208`, "On failure the old credential is left untouched"); it is the newer one the Host knows, so nothing is lost by it.
* A crash in the middle of a copy leaves `publish-*.tmp` on the destination filesystem, and the cleanup looks for `.part` files alone (`staging.go:143`); `StagingDrains` speaks of those.
* Overlapping sessions of a grant each get the whole remaining budget (`relay.go:375`, against `relay.go:76`).
* A removal between the membership check and `Replace` leaves rows of a Bridge that is no member (`host/directory/inventory.go:87`, against `:44`).
* A Bridge whose records disagree about its domain counts as "unknown", beside another Bridge's known domain: one more contradictory record can raise the independent count from 1 to 2
  when two Bridges share a domain (`preservation/risk.go:222`, against the caution of `:19-24`). `ReplicasAreReal` holds all the same.
* An item every holder has withdrawn is `missing`, which is said to mean that no Bridge has ever offered it (`preservation/risk.go:236`, against `:57`); and a tombstone outweighs every
  other record of its Bridge in the input, a later one too (`:188`).
* A library that has become empty, or a policy that names nothing to share, is not published, so the Swarm keeps the last manifest (`cmd/bridge/inventory.go:137`, `bridge/publish/publish.go:102`);
  `cmd/bridge` uses neither `Diff` nor a policy other than "share all".
* A record is classified against the catalogue of the platform RomM files it under, while its own platform is what the adapter says (`bridge/scan/scan.go:256`).
* The library page's "one consistent snapshot" across pages of a browser (`bridge/adminui/library.go:53-57`) lasts until the cache expires, is refreshed or a Reconnect drops it.
* Two rewrites of the configuration at once lose one's fields, and two Reconnects that finish in the other order leave the older connection live (`bridge/adminui/settings.go:82`, `cmd/bridge/daemon.go:140`).

## Proofs

All theorems hold for every value of the constants under the named assumptions in the modules: bounds are
natural numbers, and the owner, "nobody" and the two non-payloads are none of the other values.

* **Credential rotation** (`CredentialRotation_proofs`). `SpentAtMostTwice` is not inductive: it says nothing of a
  handler that loaded the row before another saved it. `IInv` adds `LockProtectsRow` (a loaded row is still the
  row, or there was none, and its handler has the lock), `RowIsMinted` (the row's hashes are of minted tokens, in order) and
  `UsesMatchRow` (a current token has bought nothing, a previous one once, or twice once consumed). Every write of the
  row (`RowStep`) is handled in one lemma. From it: `NeverThrice`, `OnlyReuseIsReuse`, `DroppedForGood`, `RevocationHolds`.
  `InterruptionIsRecoverable` was checked with one loss and is false with two: the Bridge dies after a rename and before its flush, rotates once more after its restart,
  and a power loss then undoes both renames. With that excused by `undone` (a power loss has met a rename left `unflushed`), it follows from `StoredInv`: while calls do not overlap, a rotation under way
  asks with the token on file (`AskedIsStored`), a power loss would leave that same file (`FileIsFlushed`), and every token on file or in an answer is
  recognised, of an earlier enrolment, or has bought all it may (`KeptIsHeld`).
* **Receiving flow** (`ReceivingFlow_proofs`). `FInv` ties each goroutine's position to its journal (`PcFits`), to what was
  delivered (`HandOffFits`), to the disk (`DiskFits`) and to RomM's verdict (`SourceFits`). A step of one transfer is local
  (`ReceiveIsLocal`) except for the library, which only grows by verified payloads (`LibraryStep`). From it follow
  the run's invariants, `NeverOverwrites`, and that no outcome has the flow ask its journal for an illegal move (`FlowIsNeverRefused`). The refinement rests on this: a refused entry would be a
  step of `Requested` that `DestinationMachine` does not have, so `FlowImplementsMachine` is about what `Receive` asks for, not about the check that would keep it out.
  `MachinePromises` are of the abstract `DestinationMachine` alone, by an invariant that fits the history to the state: a source has been
  verified, handed off and matched; nothing handed off is cancelled; no transfer is handed off both ways. `FlowKeepsPromises` brings them down to the flow by the refinement.
* **What is held** (`Holdings_proofs`), for `FilteredPublication` and `Preservation`. An item of a scan is `Grounded` in a record the scan has met and in an included entry
  of the catalogue it was begun with; that no change of catalogue, policy or library in mid-scan matters follows from the selections being fixed when it begins. `HeldFits`
  says of what was sent before only what a later delta needs: each file once, with the one size its hash has, since `changed` looks at everything of an item but
  its size (`UnchangedIsSame`). So the delta applied to any such manifest gives the snapshot (`DeltaGivesCurrent`), and the two ways of telling are one
  (`DeltaTellsTheWhole`, `OnlyVerifiedIsHeld`). The profile's order of preference leaves one entry of a game (`OneIncluded`): `OneGameOneRom`. For
  `StillLibraryIsSeenWhole`, `Met` says which places of the listing the cursor has passed, and `SeenFits` that their records are what was seen, each once; it
  needs that the offset moves by what the server returned, so that it is at the end when no more remain (`PageIs`). Assumed: each platform is named once, RomM gives a record an
  id of its own, a catalogue is finite, and payloads with one SHA-256 have one size.
  In `Preservation` each Bridge with a recent claim stands for one domain (`StandsForOne`), so taking each proven Bridge to its domain reaches every
  independent replica (`OneReplicaPerBridge`): `ReplicasAreReal`. The states of risk are disjoint sets of files, and each of the counts is one of them or a
  sum (`EachIsRated`): `CoverageAddsUp`. Assumed: finitely many Bridges and domains, thresholds in order.
* **Relay** (`Relay_proofs`). Sessions stay apart because a connection is on offer only while its own handler waits (`WaiterWaits`). The slots in use are a
  finite set whose size the count is (`CountIsKept`). For a grant whose sessions do not overlap, one session at most is still to be accounted
  (`OneAtATime`), and the record plus what that session has moved is what was carried (`RecordFits`, `BudgetFits`). A session that copies is the one the
  record names, and a `Revoke` under way has taken it (`RecordNames`, `RevokedIsTaken`). The last two failed as first stated: a session
  that ends clears the record unconditionally. That is the disagreement of `relay_revoke`, and `shadowed` is the history variable that says where it happened.
* **Host directory** (`HostDirectory_proofs`). `WithinUses` counts members, but a use is counted statements before a member is made; `UsesCover` says that members
  and redemptions on their way are covered by the uses counted, which needs that ids are minted once (`MintedOnce`) and that a request names what its
  next statement is about (`CallsFit`). `ReferencesHold`, `MembersCanConnect` and `OwnerNameHolds` are inductive beside them. The row locks a deletion takes
  are what `ReferencesHold` rests on; the deletion of invitations waits for a redemption that holds one, as it does in PostgreSQL.
* **Inventory publishing** (`InventoryPublishing_proofs`). Who scans or sends holds `publishMu` (`Locked`), so that what a running call loaded is what is
  stored until a `JoinSwarm` crosses it (`LoadedIsStored`): `RevisionsAreFresh`, `HostIsOneAhead`, `StatusIsLive`. On the Host one `Replace` of a Swarm is at
  work between its upsert and its commit, and has deleted all there was (`OneReplace`, the theorem `ReplacesAreApart`): `SnapshotDescribesRows`.
* **RomM connection** (`RommConnection_proofs`). `Numbered` numbers the connections: what a listing holds and the cache are no older than the last Reconnect that
  returned, because `invalidateLibraryCache` waits for `libraryMu` (`ListingsFollowReconnect`). `OneRewrites`: while rewrites do not overlap, one request has the
  configuration in hand and what it leaves alone is as stored (`SavedFieldsStay`). `OnItsWay`: what is live is what is stored, or the one request is on
  its way to a connection that is, or a Reconnect or a save has failed and not been made good (`ConnectedAsStored`). A save may leave the new file and an error; its field then counts as acknowledged, since it is in effect. `Probed`: a connection was made by `Connect` and `FetchPlatforms` of the server it remembers; with four
  lemmas about these operators, `LiveIsUsable` holds for any document, failing operations, schemes, scopes and platform rows. Assumed, beside that
  `None` is none of the other values: what config.json holds has an address (each of the code's saves states one), and a server's platform rows are a finite list.
* **Transport** (`Transport_proofs`). `InOrder` speaks of what the sink has, but what it has next is already in a buffer when a route breaks. `Stream` says that
  those bytes follow (of any other broken connection the sink's end is empty), `OffsetFits` that the source's offset is where they end, counting what it has written to a connection the sink
  does not read. Two things could put that offset too high, and neither is in the state of one side. The relay's count: `Ledger` says it stays within
  what a source that has not restarted has sent, by an account of bytes that grows from connection to connection by at least what each still holds (`RelayNeverCountsAhead`).
  And a restart, which leaves the count as the only memory: `Tally` says that where every route was relayed, one session at a time, that count is
  exact (`PairingTellsTheOffset`). Assumed: a payload and a buffer of one byte at least.

**Only model-checked.** Every liveness property (`receiving_ends`, `transport`, `romm_connection`), and the eight statements of texts that TLC refutes; all other
properties of the runs are theorems. Liveness stays with TLC since liveness under fairness and `ENABLED` are out of the prover's reach. No module
declares a RECURSIVE operator, and nothing proved rests on induction over data.

## Not modelled, and why

What the adapters read in a ROM's bytes, DAT XML and file-name parsing (sequential byte and text work; their results are constants); HTTP, JSON, HTML and TLS; events (best effort, never read to
decide); identifiers and aliases (random or keyed hashes); command-line tools and test doubles. In the modelled parts:
a power loss that undoes a rename of `config.json`, sessions and lists of the directory, framing and rate limiting of the relay, preflight and path checks of the publisher, chunking of the uploader, `Authenticate`,
fingerprints of an inventory, `PreviewPolicy`, the `Validate` methods of manifests and items, query parameters of the OpenAPI document, samples and version of the probe's report,
the bound of 200 000 records on a listing. RomM, PostgreSQL's locks and the operating system's crash behaviour are
modelled from how the code uses them and marked external.

Assumed: `sort.Slice` keeps the order of equal elements (it does up to 12, and the instances have fewer); the daemon can read the configuration it wrote; words stand for the letters `titlesAgree`
joins; RomM answers a listing from the offset it was asked for (a server that ignores it and states no total makes `ScanPlatform` page for ever).

## Plan

1. `CredentialRotation`, `DestinationMachine`, `ReceivingFlow` with proofs; `Relay`, `InventoryPublishing` checked. *Done.*
2. `Transport`: `Send` and `Receive` with direct and relayed routes that break. *Done.* The refinement of "the sink holds a prefix of the source's
   bytes" holds only where no byte is lost, so it is stated as `InOrder`.
3. `HostDirectory`: accounts, Swarms, invitations, roster, catalogues, deletion; two concurrent requests. *Done*, but for sessions and
   `JoinSwarm`'s identity key.
4. `Catalogue` and `FilteredPublication` (scan, classification, policy, snapshot, delta), `Preservation` with proofs, `RommProbe` and `RommConnection`. *Done.*
5. Proofs of `Relay`, `HostDirectory`, `InventoryPublishing` and `RommConnection`, and of `InterruptionIsRecoverable`. *Done.*
6. Proof of `Transport`. *Done.*
7. Proof of `FilteredPublication`, with that of `Preservation`. *Done.* To that end pages, catalogues and snapshots are sets and functions of places.
