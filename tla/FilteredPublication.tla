------------------------ MODULE FilteredPublication ------------------------
(***************************************************************************)
(* From a RomM library to what a Swarm is told of it: scanHoldings and     *)
(* Scanner.ScanPlatform page through RomM's listing, which people change   *)
(* meanwhile, and download and classify every record against the Host's    *)
(* catalogues; package publish filters the holdings by the Swarm's policy  *)
(* and sends a Snapshot or, against what was sent before, a Diff.          *)
(*                                                                         *)
(* InventoryPublishing has the revisions, the requests and their failures; *)
(* here they succeed, and the question is what is said.                    *)
(***************************************************************************)
EXTENDS Catalogue

CONSTANTS
  Platforms,        \* protocol.InitialPlatforms(), in their order
  Records,          \* the records people may add to RomM
  Listings,         \* the listings it may start with
  Catalogues,       \* the catalogues the owner may upload: [set, games]
  NoCatalogue,      \* no catalogue is loaded for a platform
  Policies,         \* the sharing policies the owner may set
  NotPublished,     \* nothing was ever sent to the Swarm
  PageSize,         \* Scanner.PageSize
  MaxEdits,         \* bound: changes made to the library
  MaxUploads,       \* bound: catalogues uploaded
  MaxFaults         \* bound: requests that fail

ASSUME PageSizeAssumption == PageSize \in Nat \ {0}

\* InitialPlatforms names each platform once.
ASSUME PlatformsAssumption ==
  /\ Platforms \in Seq(STRING)
  /\ \A m, n \in DOMAIN Platforms : Platforms[m] = Platforms[n] => m = n

AllOf(list) == {list[n] : n \in DOMAIN list}

\* Every record RomM may list; it gives each an id of its own.
Rows == Records \cup UNION {AllOf(l) : l \in Listings}

ASSUME ListingsAssumption ==
  \A l \in Listings :
    /\ l \in Seq(Rows)
    /\ \A m, n \in DOMAIN l : l[m].id = l[n].id => m = n

\* Names and revisions are compared, and numbers stand for them.
ASSUME CataloguesAssumption ==
  \A c \in Catalogues :
    /\ DOMAIN c.games \subseteq Nat /\ IsFiniteSet(DOMAIN c.games)
    /\ \A n \in DOMAIN c.games : c.games[n].rom \in Nat /\ c.games[n].rank \in Nat

\* Payloads with one SHA-256 are one payload.
ASSUME Sha256Assumption ==
  \A r, s \in Rows : \A x \in Analyze(r.file), y \in Analyze(s.file) :
    x.canonical.sha256 = y.canonical.sha256 => x.canonical.size = y.canonical.size

VARIABLES
  listing,          \* RomM's records, in the order it lists them
  counted,          \* whether RomM's listing states a total
  hostCatalogues,   \* the catalogues the Host serves
  selections,       \* d.referenceSelections
  resolved,         \* the platforms conn.Platforms resolved on connecting
  policy,           \* Membership.Policy
  scan,             \* the scan in progress
  held,             \* the Items the Swarm was last told, as the Host holds them
  edits, uploads, faults,
  disturbed,        \* history: the scan met a change of the library or a fault
  seen              \* history: the records the scan has met, in order

env == <<listing, counted, hostCatalogues, policy, edits, uploads>>
vars == <<env, selections, resolved, scan, held, faults, disturbed, seen>>

PlatformSet == {Platforms[n] : n \in DOMAIN Platforms}
CataloguesFor(p) == {c \in Catalogues : c.set.platform = p} \cup {NoCatalogue}

Idle == [phase |-> "idle", todo |-> <<>>, offset |-> 0, pending |-> <<>>,
         more |-> FALSE, items |-> <<>>, skipped |-> 0, scanned |-> 0]

-----------------------------------------------------------------------------
(***************************************************************************)
(* scanOne: the Item a downloaded record becomes, if any.  It is analysed  *)
(* for what it is, but classified against the catalogue of the platform    *)
(* that is being scanned.  file stands for the FileID; set, entry, key and *)
(* strength are the ReferenceMatch.                                        *)
(***************************************************************************)
ItemOf(platform, r) ==
  LET result == CHOOSE x \in Analyze(r.file) : TRUE
      cat == selections[platform].entries
      best == Best(cat, result.canonical)
  IN [file |-> result.canonical.sha256, size |-> result.canonical.size,
      platform |-> result.platform, adapter |-> result.adapter,
      set |-> selections[platform].set,
      entry |-> cat[best].rom, key |-> cat[best].key,
      strength |-> Strength(result.canonical, cat[best].digest)]

Becomes(platform, r) ==
  /\ selections[platform] # NoCatalogue
  /\ Publishable(Classify(r.file, selections[platform].entries, r.title))

-----------------------------------------------------------------------------
(***************************************************************************)
(* Package publish.                                                        *)
(***************************************************************************)
Permits(p, item) ==
  /\ item.file \notin p.excludedFiles
  /\ item.platform \notin p.excludedPlatforms
  /\ p.maxBytes > 0 => item.size <= p.maxBytes
  /\ p.shareAll \/ item.platform \in p.platforms

ValidPolicy(p) == p.shareAll \/ p.platforms # {}

\* Snapshot: of several holdings with one FileID, the first that may go.
Snapshot(p, holdings) ==
  LET permitted == {n \in DOMAIN holdings : Permits(p, holdings[n])}
  IN {holdings[n] : n \in {m \in permitted :
        \A k \in permitted : k < m => holdings[k].file # holdings[m].file}}

ReportedWithoutAdapter(item) == <<item.platform, item.set, item.entry, item.key,
                                  item.strength>>

\* changed: what a Swarm needs to know about a holding.
Reported(item) == <<item.platform, item.adapter, item.set, item.entry, item.key,
                    item.strength>>
Changed(before, after) == Reported(before) # Reported(after)

ByFile(items, f) == {item \in items : item.file = f}
FilesOf(items) == {item.file : item \in items}

\* Diff's entries: what to add or replace, and what to withdraw.
Upserts(previous, current) ==
  {item \in current :
     \A old \in ByFile(previous, item.file) : Changed(old, item)}
Tombstones(previous, current) == FilesOf(previous) \ FilesOf(current)

\* The Host applies a delta to the manifest it holds.
Apply(items, upserts, tombstones) ==
  {item \in items : item.file \notin tombstones \cup FilesOf(upserts)} \cup upserts

-----------------------------------------------------------------------------
Init ==
  /\ listing \in Listings
  /\ counted \in BOOLEAN
  /\ hostCatalogues \in [PlatformSet -> Catalogues \cup {NoCatalogue}]
  /\ \A p \in PlatformSet : hostCatalogues[p] \in CataloguesFor(p)
  /\ selections = [p \in PlatformSet |-> NoCatalogue]
  /\ resolved = {listing[n].slug : n \in DOMAIN listing}
  /\ policy \in Policies
  /\ scan = Idle /\ held = NotPublished
  /\ edits = 0 /\ uploads = 0 /\ faults = 0
  /\ disturbed = FALSE /\ seen = <<>>

Scanning == scan.phase = "scanning"

\* Somebody changes the library through RomM.
Edit(records) ==
  /\ edits < MaxEdits
  /\ listing' = records /\ edits' = edits + 1
  /\ disturbed' = (disturbed \/ Scanning)
  /\ UNCHANGED <<counted, hostCatalogues, policy, uploads, selections, resolved,
                 scan, held, faults, seen>>

AddRecord(r, n) ==
  /\ \A m \in DOMAIN listing : listing[m].id # r.id
  /\ n \in 0..Len(listing)
  /\ Edit(SubSeq(listing, 1, n) \o <<r>> \o SubSeq(listing, n + 1, Len(listing)))

RemoveRecord(n) ==
  /\ n \in DOMAIN listing
  /\ Edit(SubSeq(listing, 1, n - 1) \o SubSeq(listing, n + 1, Len(listing)))

\* The owner uploads or deletes a catalogue on the Host.
SetCatalogue(p, c) ==
  /\ uploads < MaxUploads /\ c # hostCatalogues[p]
  /\ hostCatalogues' = [hostCatalogues EXCEPT ![p] = c]
  /\ uploads' = uploads + 1
  /\ UNCHANGED <<listing, counted, policy, edits, selections, resolved, scan,
                 held, faults, disturbed, seen>>

SetPolicy(p) ==
  /\ uploads < MaxUploads /\ p # policy
  /\ policy' = p /\ uploads' = uploads + 1
  /\ UNCHANGED <<listing, counted, hostCatalogues, edits, selections, resolved,
                 scan, held, faults, disturbed, seen>>

\* Daemon.Reconnect fetches RomM's platform list anew.
Reconnect ==
  /\ ~ Scanning
  /\ resolved' = {listing[n].slug : n \in DOMAIN listing}
  /\ resolved' # resolved
  /\ UNCHANGED <<env, selections, scan, held, faults, disturbed, seen>>

-----------------------------------------------------------------------------
Fault == faults < MaxFaults /\ faults' = faults + 1

\* What refreshReferenceCatalogues makes of the Host's catalogues.
Applied(c) ==
  IF c = NoCatalogue \/ DOMAIN ImportDAT(c.games) = {} THEN NoCatalogue
  ELSE [set |-> c.set, entries |-> ImportDAT(c.games)]

\* PublishInventory: the catalogues are refreshed, or kept when the Host
\* cannot be reached, and the scan begins.
BeginScan ==
  /\ scan.phase = "idle"
  /\ \/ /\ selections' = [p \in PlatformSet |-> Applied(hostCatalogues[p])]
        /\ UNCHANGED faults
     \/ Fault /\ UNCHANGED selections
  /\ scan' = [Idle EXCEPT !.phase = "scanning", !.more = TRUE, !.todo = Platforms]
  /\ disturbed' = FALSE /\ seen' = <<>>
  /\ UNCHANGED <<env, resolved, held>>

Platform == Head(scan.todo)

\* RomM does not have the platform: nothing to scan.
PassPlatform ==
  /\ Scanning /\ scan.todo # <<>> /\ Platform \notin resolved
  /\ scan' = [scan EXCEPT !.todo = Tail(@)]
  /\ UNCHANGED <<env, selections, resolved, held, faults, disturbed, seen>>

\* RommSource.ListROMs: one page, unfiltered, and whether more remain.
Page == LET last == scan.offset + PageSize
        IN SubSeq(listing, scan.offset + 1,
                  IF last < Len(listing) THEN last ELSE Len(listing))
HasMore == IF counted THEN scan.offset + Len(Page) < Len(listing)
           ELSE Len(Page) >= PageSize

\* The next page is due.
PageDue ==
  /\ Scanning /\ scan.todo # <<>> /\ Platform \in resolved
  /\ scan.pending = <<>> /\ scan.more

ListPageByWhatSurvives ==
  /\ PageDue
  /\ LET records == SelectSeq(Page, LAMBDA r : r.slug = Platform)
     IN scan' = [scan EXCEPT !.pending = records, !.offset = @ + Len(records),
                             !.more = HasMore /\ records # <<>>]
  /\ UNCHANGED <<env, selections, resolved, held, faults, disturbed, seen>>

\* The cursor moves by what the server returned.
ListPage ==
  /\ PageDue
  /\ scan' = [scan EXCEPT !.pending = Page, !.offset = @ + Len(Page),
                          !.more = HasMore /\ Page # <<>>]
  /\ UNCHANGED <<env, selections, resolved, held, faults, disturbed, seen>>

\* A listing that fails stops the scan, and with it the publication.
ListFails ==
  /\ PageDue /\ Fault /\ scan' = Idle
  /\ UNCHANGED <<env, selections, resolved, held, disturbed, seen>>

\* Whether the next record of the page is of the platform.
RecordDue == Scanning /\ scan.pending # <<>> /\ Head(scan.pending).slug = Platform

\* One that is not leaves the page unseen.
PassRecord ==
  /\ Scanning /\ scan.pending # <<>> /\ ~ RecordDue
  /\ scan' = [scan EXCEPT !.pending = Tail(@)]
  /\ UNCHANGED <<env, selections, resolved, held, faults, disturbed, seen>>

\* The record leaves the page, with an Item or with a reason.
Take(items, skipped) ==
  /\ scan' = [scan EXCEPT !.pending = Tail(@), !.scanned = @ + 1,
                          !.items = @ \o items, !.skipped = @ + skipped]
  /\ seen' = Append(seen, Head(scan.pending))
  /\ UNCHANGED <<env, selections, resolved, held>>

InRomM(r) == \E n \in DOMAIN listing : listing[n].id = r.id

\* scanOne downloads and classifies the next record of the page.  Without a
\* catalogue it skips it first.
TakeRecord ==
  /\ RecordDue
  /\ LET r == Head(scan.pending)
     IN /\ selections[Platform] = NoCatalogue \/ InRomM(r)
        /\ IF Becomes(Platform, r) THEN Take(<<ItemOf(Platform, r)>>, 0)
                                  ELSE Take(<<>>, 1)
  /\ UNCHANGED <<faults, disturbed>>

\* The record is gone from RomM by now, or the download fails: a reason to
\* skip it, not to stop.
DownloadFails ==
  /\ RecordDue /\ selections[Platform] # NoCatalogue
  /\ InRomM(Head(scan.pending)) => faults < MaxFaults
  /\ faults' = IF InRomM(Head(scan.pending)) THEN faults + 1 ELSE faults
  /\ Take(<<>>, 1)
  /\ disturbed' = TRUE

NextPlatform ==
  /\ Scanning /\ scan.todo # <<>> /\ scan.pending = <<>> /\ ~ scan.more
  /\ scan' = [scan EXCEPT !.todo = Tail(@), !.offset = 0, !.more = TRUE]
  /\ UNCHANGED <<env, selections, resolved, held, faults, disturbed, seen>>

Scanned == Scanning /\ scan.todo = <<>>

-----------------------------------------------------------------------------
\* Snapshot sent in full; the Host replaces what it holds.
PublishSnapshot ==
  /\ Scanned /\ ValidPolicy(policy) /\ Snapshot(policy, scan.items) # {}
  /\ held' = Snapshot(policy, scan.items)
  /\ scan' = Idle
  /\ UNCHANGED <<env, selections, resolved, faults, disturbed, seen>>

\* Diff against the manifest sent before; without entries nothing is sent.
PublishDelta ==
  /\ Scanned /\ ValidPolicy(policy) /\ held # NotPublished
  /\ LET current == Snapshot(policy, scan.items)
     IN held' = Apply(held, Upserts(held, current), Tombstones(held, current))
  /\ scan' = Idle
  /\ UNCHANGED <<env, selections, resolved, faults, disturbed, seen>>

\* Validate refuses a policy that shares nothing, and Snapshot a manifest
\* without items: the Swarm keeps what it was told.
PublishRefused ==
  /\ Scanned
  /\ ~ ValidPolicy(policy) \/ Snapshot(policy, scan.items) = {}
  /\ scan' = Idle
  /\ UNCHANGED <<env, selections, resolved, held, faults, disturbed, seen>>

Library ==
  \/ \E r \in Records, n \in 0..Len(listing) : AddRecord(r, n)
  \/ \E n \in DOMAIN listing : RemoveRecord(n)

Owner ==
  \/ \E p \in PlatformSet : \E c \in CataloguesFor(p) : SetCatalogue(p, c)
  \/ \E p \in Policies : SetPolicy(p)
  \/ Reconnect

Publish == PublishSnapshot \/ PublishDelta \/ PublishRefused

Next ==
  \/ Library \/ Owner \/ BeginScan \/ ListPage \/ ListFails
  \/ TakeRecord \/ DownloadFails \/ PassRecord
  \/ NextPlatform \/ PassPlatform \/ Publish

Spec == Init /\ [][Next]_vars

-----------------------------------------------------------------------------
(***************************************************************************)
(* Properties.                                                             *)
(***************************************************************************)
Told == held' # NotPublished /\ (PublishSnapshot \/ PublishDelta)

\* A file that is what the catalogue says, in the profile, and not known bad.
Vouches(game, digest) ==
  /\ InProfile(game) /\ ~ game.badDump
  /\ Compatible(digest, game.digest) /\ Agreeing(digest, game.digest) # {}

\* Whatever the Swarm is told it has, some record the scan met holds, and a
\* catalogue of the Host vouches for its canonical payload.  A delta leaves
\* no item of an earlier catalogue, library or policy behind.
\* (publish.go, Permits: "only matched and reference-hash-verified content
\* is ever advertised".)
OnlyVerifiedIsHeld ==
  [][Told => \A item \in held' :
       /\ Permits(policy, item)
       /\ \E r \in AllOf(seen), c \in Catalogues :
            /\ selections[r.slug] = Applied(c) /\ item.set = c.set
            /\ \E x \in Analyze(r.file), n \in DOMAIN c.games :
                 /\ x.canonical.sha256 = item.file
                 /\ c.games[n].rom = item.entry
                 /\ Vouches(c.games[n], x.canonical)]_vars

\* However it is sent, in full or as a delta on what went before, the Swarm
\* ends up with the holdings the policy permits, each once and as they are
\* now.  (publish.go, Diff: additions, updates and tombstones.)
DeltaTellsTheWhole ==
  [][Told => /\ FilesOf(held') = {i.file : i \in {j \in AllOf(scan.items) : Permits(policy, j)}}
             /\ Cardinality(held') = Cardinality(FilesOf(held'))
             /\ held' \subseteq AllOf(scan.items)]_vars

\* A library nobody touches while it is scanned is seen whole: every record
\* of every platform RomM had on connecting, once, whatever the pages cut
\* through.  (ScanPlatform: the cursor moves by what the server returned.)
StillLibraryIsSeenWhole ==
  Scanned /\ ~ disturbed =>
    \A n \in DOMAIN listing :
      Cardinality({m \in DOMAIN seen : seen[m] = listing[n]}) =
        IF listing[n].slug \in PlatformSet \cap resolved THEN 1 ELSE 0

\* The Swarm never holds two entries of one catalogue for one game, nor one
\* catalogue in two versions, across every change of catalogue, library and
\* policy.  (Profile.Apply: one game, one ROM.)
OneGameOneRom ==
  held # NotPublished =>
    \A a, b \in held :
      a.set.platform = b.set.platform =>
        a.set = b.set /\ (a.key = b.key => a.entry = b.entry)
=============================================================================
