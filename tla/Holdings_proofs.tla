-------------------------- MODULE Holdings_proofs --------------------------
(***************************************************************************)
(* Theorems about what is held: FilteredPublication, what a Swarm is told  *)
(* of one library, for any catalogues, policies and listings and any page  *)
(* size; and Preservation, what the claims of many libraries amount to,    *)
(* for any Bridges, domains, files, rules and records.                     *)
(*                                                                         *)
(* The invariant of FilteredPublication has three parts.  Every item of a  *)
(* scan is grounded in a record the scan has met and in an entry of the    *)
(* catalogue it was begun with (ItemsGrounded), and what is held has each  *)
(* file once, at its one size (HeldFits), so that the Host's copy after a  *)
(* delta is the snapshot the delta was made from.  Where the cursor stands *)
(* (CursorFits) tells which part of an undisturbed listing the scan has    *)
(* met, and it has met that part exactly once (SeenFits).                  *)
(*                                                                         *)
(* Preservation needs only that the records are records; its properties    *)
(* rest on how Assess gathers them by Bridge, so that each Bridge whose    *)
(* copy is proven stands for exactly one failure domain.                   *)
(***************************************************************************)
EXTENDS FilteredPublication, Preservation, FiniteSetTheorems, SequenceTheorems,
        WellFoundedInduction, NaturalsInduction, TLAPS

Scans(items) ==
  [phase : {"idle", "scanning"}, todo : Seq(PlatformSet), offset : Nat,
   pending : Seq(Rows), more : BOOLEAN, items : Seq(items), skipped : Nat,
   scanned : Nat]

IdsApart == \A m, n \in DOMAIN listing : listing[m].id = listing[n].id => m = n

\* What a platform's selection may be.
Loaded(s, p) ==
  s = NoCatalogue \/ \E c \in Catalogues : c.set.platform = p /\ s = Applied(c)

TypeOK ==
  /\ listing \in Seq(Rows) /\ IdsApart
  /\ \A p \in PlatformSet : hostCatalogues[p] \in CataloguesFor(p)
  /\ \A p \in PlatformSet : Loaded(selections[p], p)
  /\ scan \in Scans(AllOf(scan.items))
  /\ seen \in Seq(Rows)

\* An item as ItemOf makes it.
Fields(i) ==
  [file |-> i.file, size |-> i.size, platform |-> i.platform,
   adapter |-> i.adapter, set |-> i.set, entry |-> i.entry, key |-> i.key,
   strength |-> i.strength]

Sized(i) ==
  /\ i = Fields(i)
  /\ \E r \in Rows : \E x \in Analyze(r.file) :
       i.file = x.canonical.sha256 /\ i.size = x.canonical.size

\* Record r was the reason, and entry n of the catalogue c vouched for it.
Grounds(i, r, c, n) ==
  /\ c.set.platform = r.slug /\ selections[r.slug] = Applied(c)
  /\ selections[r.slug] # NoCatalogue
  /\ i.set = c.set /\ i.entry = c.games[n].rom /\ i.key = c.games[n].key
  /\ \E x \in Analyze(r.file) :
       x.canonical.sha256 = i.file /\ Vouches(c.games[n], x.canonical)

Grounded(i) ==
  /\ Sized(i)
  /\ \E r \in AllOf(seen), c \in Catalogues :
       /\ r.slug \in PlatformSet
       /\ \E n \in Included(ImportDAT(c.games)) : Grounds(i, r, c, n)

ItemsGrounded == Scanning => \A i \in AllOf(scan.items) : Grounded(i)

\* One game is one ROM, one platform one catalogue.
OneCopy(items) ==
  \A a, b \in items :
    a.set.platform = b.set.platform =>
      a.set = b.set /\ (a.key = b.key => a.entry = b.entry)

HeldFits ==
  held # NotPublished =>
    /\ \A i \in held : Sized(i)
    /\ \A i, j \in held : i.file = j.file => i = j
    /\ OneCopy(held)

\* The cursor.
Behind == scan.offset - Len(scan.pending)

CursorFits ==
  Scanning =>
    /\ \A m, n \in DOMAIN scan.todo : scan.todo[m] = scan.todo[n] => m = n
    /\ scan.todo = <<>> => scan.pending = <<>>
    /\ Len(scan.pending) <= scan.offset
    /\ scan.todo # <<>> /\ Platform \notin resolved =>
         scan.offset = 0 /\ scan.pending = <<>>

\* What of the listing the scan has met.
Met(n) ==
  \/ listing[n].slug \in (PlatformSet \cap resolved) \ AllOf(scan.todo)
  \/ scan.todo # <<>> /\ listing[n].slug = Platform /\ n <= Behind

SeenFits ==
  Scanning /\ ~ disturbed =>
    /\ scan.offset <= Len(listing)
    /\ scan.todo # <<>> /\ ~ scan.more => scan.offset = Len(listing)
    /\ \A k \in DOMAIN scan.pending : scan.pending[k] = listing[Behind + k]
    /\ \A k \in DOMAIN seen : \E n \in DOMAIN listing : seen[k] = listing[n] /\ Met(n)
    /\ \A n \in DOMAIN listing : Met(n) => \E k \in DOMAIN seen : seen[k] = listing[n]
    /\ \A k, l \in DOMAIN seen : seen[k] = seen[l] => k = l

IInv == TypeOK /\ ItemsGrounded /\ HeldFits /\ CursorFits /\ SeenFits

-----------------------------------------------------------------------------
\* A set of numbers has a least one.
LEMMA Least ==
  ASSUME NEW S \in SUBSET Nat, S # {}
  PROVE  \E x \in S : \A y \in S : x <= y
  <1> DEFINE Less == OpToRel(<, Nat)
  <1>1. IsWellFoundedOn(Less, Nat)
    BY NatLessThanWellFounded
  <1>2. \A x, y \in Nat : x < y => <<x, y>> \in Less
    BY DEF OpToRel
  <1> HIDE DEF Less
  <1>3. PICK x \in S : \A y \in S : ~ (<<y, x>> \in Less)
    BY <1>1, WFMin
  <1>4. \A y \in S : x \in Nat /\ y \in Nat /\ ~ (y < x)
    BY <1>2, <1>3
  <1>5. \A y \in S : x <= y
    BY <1>4
  <1> QED
    BY <1>5

\* What Compare says of two digests: a strength, or 0 when a field differs
\* or no hash agrees.
LEMMA StrengthIs ==
  ASSUME NEW a, NEW b
  PROVE  /\ Strength(a, b) \in 0..3
         /\ Strength(a, b) # 0 => Compatible(a, b) /\ Agreeing(a, b) # {}
  <1>1. CASE ~ Compatible(a, b) \/ Agreeing(a, b) = {}
    BY <1>1 DEF Strength
  <1>2. CASE Compatible(a, b) /\ Agreeing(a, b) # {}
    <2> DEFINE Levels == {n \in 1..3 : \E h \in Agreeing(a, b) : Level[h] = n}
               Strongest(n) == /\ \E h \in Agreeing(a, b) : Level[h] = n
                               /\ \A h \in Agreeing(a, b) : Level[h] <= n
    <2>1. \A h \in Agreeing(a, b) : Level[h] \in 1..3
      BY DEF Agreeing, Hashes, Level
    <2>2. \E n \in 1..3 : Strongest(n)
      <3> HIDE DEF Strongest
      <3>1. CASE 3 \in Levels
        BY <2>1, <3>1 DEF Strongest
      <3>2. CASE 3 \notin Levels /\ 2 \in Levels
        BY <2>1, <3>2 DEF Strongest
      <3>3. CASE 3 \notin Levels /\ 2 \notin Levels
        BY <1>2, <2>1, <3>3 DEF Strongest
      <3> QED
        BY <3>1, <3>2, <3>3
    <2>3. Strength(a, b) = CHOOSE n \in 1..3 : Strongest(n)
      BY <1>2 DEF Strength
    <2> HIDE DEF Strongest
    <2>4. Strength(a, b) \in 1..3
      BY <2>2, <2>3
    <2> QED
      BY <1>2, <2>4
  <1> QED
    BY <1>1, <1>2

Indices(cat) ==
  /\ DOMAIN cat \subseteq Nat /\ IsFiniteSet(DOMAIN cat)
  /\ \A n \in DOMAIN cat : cat[n].rom \in Nat /\ cat[n].rank \in Nat

\* The order of Lookup's matches has a first.
LEMMA FirstIsOne ==
  ASSUME NEW cat, Indices(cat), NEW digest,
         NEW matches \in SUBSET (DOMAIN cat), matches # {}
  PROVE  First(cat, digest, matches) \in matches
  <1> DEFINE S(i) == Strength(digest, cat[i].digest)
             weak == {3 - S(i) : i \in matches}
  <1>1. \A i \in matches : S(i) \in 0..3
    BY StrengthIs
  <1>2. PICK i \in matches : \A j \in matches : S(j) <= S(i)
    <2>1. weak \in SUBSET Nat /\ weak # {}
      BY <1>1
    <2>2. PICK x \in weak : \A y \in weak : x <= y
      BY <2>1, Least
    <2>3. PICK i \in matches : x = 3 - S(i)
      BY <2>2
    <2> HIDE DEF S
    <2>4. \A j \in matches : S(j) <= S(i)
      BY <1>1, <2>2, <2>3
    <2> QED
      BY <2>4
  <1> DEFINE strong == {j \in matches : S(j) = S(i)}
             names == {cat[j].rom : j \in strong}
  <1>3. PICK k \in strong : \A j \in strong : cat[k].rom <= cat[j].rom
    <2>1. names \in SUBSET Nat /\ names # {}
      BY <1>2 DEF Indices
    <2>2. PICK x \in names : \A y \in names : x <= y
      BY <2>1, Least
    <2> QED
      BY <2>2
  <1> DEFINE last == {j \in strong : cat[j].rom = cat[k].rom}
  <1>4. PICK l \in last : \A j \in last : l <= j
    <2>1. last \in SUBSET Nat /\ last # {}
      BY <1>3 DEF Indices
    <2> QED
      BY <2>1, Least
  <1>5. \A j \in matches : Precedes(cat, digest, l, j)
    <2> TAKE j \in matches
    <2>1. S(l) = S(i) /\ S(j) \in 0..3 /\ S(i) \in 0..3 /\ S(j) <= S(i)
      BY <1>1, <1>2, <1>4
    <2>2. CASE S(j) # S(i)
      <3> HIDE DEF S
      <3>1. S(l) > S(j)
        BY <2>1, <2>2
      <3> QED
        BY <3>1 DEF S, Precedes
    <2>3. CASE S(j) = S(i)
      <3>1. j \in strong
        BY <2>3
      <3>2. cat[l].rom = cat[k].rom /\ cat[k].rom <= cat[j].rom
            /\ cat[k].rom \in Nat /\ cat[j].rom \in Nat
        BY <1>3, <1>4, <3>1 DEF Indices
      <3>3. CASE cat[j].rom = cat[k].rom
        <4>1. l <= j
          BY <1>4, <3>1, <3>3
        <4> QED
          BY <2>1, <2>3, <3>2, <3>3, <4>1 DEF Precedes
      <3>4. CASE cat[j].rom # cat[k].rom
        <4>1. cat[l].rom < cat[j].rom
          BY <3>2, <3>4
        <4> QED
          BY <2>1, <2>3, <4>1 DEF Precedes
      <3> QED
        BY <3>3, <3>4
    <2> QED
      BY <2>2, <2>3
  <1>6. l \in matches
    BY <1>4
  <1> QED
    BY <1>5, <1>6 DEF First

\* Every match of Lookup agrees with the digest in some hash and contradicts
\* it in none.
LEMMA LookupIs ==
  ASSUME NEW cat, NEW digest
  PROVE  /\ Lookup(cat, digest) \subseteq DOMAIN cat
         /\ \A i \in Lookup(cat, digest) :
              /\ Compatible(digest, cat[i].digest)
              /\ Agreeing(digest, cat[i].digest) # {}
  BY StrengthIs DEF Lookup, Indexed

\* The match that decides is a match.
LEMMA BestIs ==
  ASSUME NEW cat, Indices(cat), NEW digest, Lookup(cat, digest) # {}
  PROVE  Best(cat, digest) \in Lookup(cat, digest)
  <1> DEFINE matches == Lookup(cat, digest)
             among == IF matches \cap Included(cat) # {} THEN matches \cap Included(cat)
                      ELSE matches
  <1>1. among \subseteq matches /\ among # {} /\ matches \in SUBSET (DOMAIN cat)
    BY LookupIs
  <1>2. Best(cat, digest) = First(cat, digest, among)
    BY DEF Best
  <1> HIDE DEF among
  <1> QED
    BY <1>1, <1>2, FirstIsOne

\* An allowed region has a rank.
LEMMA PriorityIs ==
  ASSUME NEW e, RegionAllowed(e)
  PROVE  RegionPriority(e) \in Nat
  <1>1. CASE e.regions = {}
    BY <1>1, RegionOrderAssumption DEF RegionPriority
  <1>2. CASE e.regions # {}
    <2>1. RegionRanks(e) \in SUBSET Nat /\ RegionRanks(e) # {}
      BY <1>2, RegionOrderAssumption DEF RegionAllowed, RegionRanks
    <2>2. \E n \in RegionRanks(e) : \A m \in RegionRanks(e) : n <= m
      BY <2>1, Least
    <2>3. RegionPriority(e) \in RegionRanks(e)
      BY <1>2, <2>2 DEF RegionPriority
    <2> QED
      BY <2>1, <2>3
  <1> QED
    BY <1>1, <1>2

\* The profile includes one entry of a game: of two, one is preferred or
\* comes first, and not both.
LEMMA OneIncluded ==
  ASSUME NEW cat, Indices(cat), NEW i \in Included(cat), NEW j \in Included(cat),
         cat[i].key = cat[j].key
  PROVE  i = j
  <1> SUFFICES ASSUME i # j PROVE FALSE
    OBVIOUS
  <1>1. /\ i \in DOMAIN cat /\ j \in DOMAIN cat
        /\ InProfile(cat[i]) /\ InProfile(cat[j])
        /\ Preferred(cat[i], cat[j]) \/ (~ Preferred(cat[j], cat[i]) /\ i < j)
        /\ Preferred(cat[j], cat[i]) \/ (~ Preferred(cat[i], cat[j]) /\ j < i)
    BY DEF Included
  <1>2. RegionPriority(cat[i]) \in Nat /\ RegionPriority(cat[j]) \in Nat
    BY <1>1, PriorityIs DEF InProfile
  <1>3. /\ i \in Nat /\ j \in Nat
        /\ cat[i].rom \in Nat /\ cat[j].rom \in Nat
        /\ cat[i].rank \in Nat /\ cat[j].rank \in Nat
    BY <1>1 DEF Indices
  <1>4. ~ (Preferred(cat[i], cat[j]) /\ Preferred(cat[j], cat[i]))
    BY <1>2, <1>3 DEF Preferred
  <1> QED
    BY <1>1, <1>3, <1>4

\* What is published matched an entry the profile includes.
LEMMA EligibleIs ==
  ASSUME NEW file, NEW cat, Indices(cat), NEW title,
         Publishable(Classify(file, cat, title))
  PROVE  LET x == CHOOSE r \in Analyze(file) : TRUE
         IN /\ x \in Analyze(file)
            /\ Best(cat, x.canonical) \in Lookup(cat, x.canonical) \cap Included(cat)
  <1> DEFINE x == CHOOSE r \in Analyze(file) : TRUE
             d == x.canonical
             L == Lookup(cat, d)
             G == GamesMatched(cat, d)
             eligible == "verified_eligible"
  <1>1. Analyze(file) # {} /\ x \in Analyze(file)
    BY DEF Classify, Publishable
  <1> HIDE DEF x
  <1>2. IsFiniteSet(L) /\ IsFiniteSet(G)
    <2>1. IsFiniteSet(L)
      BY LookupIs, FS_Subset DEF Indices
    <2>2. G = {cat[i].key : i \in L}
      BY DEF GamesMatched
    <2>3. IsFiniteSet({cat[i].key : i \in L})
      <3> DEFINE f == [i \in L |-> cat[i].key]
      <3>1. f \in Surjection(L, {cat[i].key : i \in L})
        BY DEF Surjection
      <3> QED
        BY <2>1, <3>1, FS_Surjection
    <2> QED
      BY <2>1, <2>2, <2>3
  <1>3. Cardinality(G) \in Nat /\ (Cardinality(G) = 0 <=> L = {})
    <2>1. Cardinality(G) \in Nat /\ (Cardinality(G) = 0 <=> G = {})
      BY <1>2, FS_CardinalityType, FS_EmptySet
    <2>2. G = {} <=> L = {}
      BY DEF GamesMatched
    <2> QED
      BY <2>1, <2>2
  <1> DEFINE n == Cardinality(G)
             best == Best(cat, d)
             one == IF title # <<>> /\ ~ TitlesAgree(title, cat[best].key)
                    THEN "conflict"
                    ELSE IF best \notin Included(cat) THEN "verified_excluded"
                    ELSE "verified_eligible"
  <1>4. Classify(file, cat, title) =
          CASE L = {} /\ title # <<>> -> "matched_unverified"
            [] L = {} /\ title = <<>> -> "unmatched"
            [] n > 1 -> "conflict"
            [] n = 1 -> one
    BY <1>1 DEF Classify, x
  <1>5. Classify(file, cat, title) = "verified_eligible"
    BY DEF Publishable
  <1>6. L # {}
    <2> SUFFICES ASSUME L = {} PROVE FALSE
      OBVIOUS
    <2>1. n = 0
      BY <1>3
    <2> HIDE DEF n, one, L
    <2>2. CASE title = <<>>
      BY <1>4, <1>5, <2>1, <2>2
    <2>3. CASE title # <<>>
      BY <1>4, <1>5, <2>1, <2>3
    <2> QED
      BY <2>2, <2>3
  <1>7. best \in Included(cat)
    <2>1. n \in Nat /\ n # 0
      BY <1>3, <1>6
    <2>2. CASE n = 1
      <3> HIDE DEF n, L, one
      <3>1. one = "verified_eligible"
        BY <1>4, <1>5, <1>6, <2>2
      <3> USE DEF one
      <3> QED
        BY <3>1
    <2>3. CASE n # 1
      <3> HIDE DEF n, L, one
      <3> QED
        BY <1>4, <1>5, <1>6, <2>1, <2>3
    <2> QED
      BY <2>2, <2>3
  <1>8. best \in L
    BY <1>6, BestIs
  <1> QED
    BY <1>1, <1>7, <1>8 DEF x

-----------------------------------------------------------------------------
\* An imported catalogue has the entries of the upload, without bad dumps.
LEMMA ImportIs ==
  ASSUME NEW c \in Catalogues
  PROVE  /\ Indices(ImportDAT(c.games))
         /\ DOMAIN ImportDAT(c.games) \subseteq DOMAIN c.games
         /\ \A n \in DOMAIN ImportDAT(c.games) :
              ImportDAT(c.games)[n] = c.games[n] /\ ~ c.games[n].badDump
  <1> DEFINE cat == ImportDAT(c.games)
  <1>1. /\ DOMAIN cat \subseteq DOMAIN c.games
        /\ \A n \in DOMAIN cat : cat[n] = c.games[n] /\ ~ c.games[n].badDump
    BY DEF ImportDAT
  <1> HIDE DEF cat
  <1>2. IsFiniteSet(DOMAIN cat)
    BY <1>1, CataloguesAssumption, FS_Subset
  <1>3. Indices(cat)
    BY <1>1, <1>2, CataloguesAssumption DEF Indices
  <1> QED
    BY <1>1, <1>3 DEF cat

\* A selection that is loaded is the catalogue it came from.
LEMMA AppliedIs ==
  ASSUME NEW c, Applied(c) # NoCatalogue
  PROVE  Applied(c) = [set |-> c.set, entries |-> ImportDAT(c.games)]
  BY DEF Applied

\* The item made of a record is grounded in it and in the selected catalogue.
LEMMA ItemIs ==
  ASSUME NEW p \in PlatformSet, NEW r \in Rows, r.slug = p,
         Loaded(selections[p], p), Becomes(p, r)
  PROVE  /\ Sized(ItemOf(p, r))
         /\ \E c \in Catalogues :
              \E n \in Included(ImportDAT(c.games)) : Grounds(ItemOf(p, r), r, c, n)
  <1>1. PICK c \in Catalogues : c.set.platform = p /\ selections[p] = Applied(c)
    BY DEF Loaded, Becomes
  <1> DEFINE cat == ImportDAT(c.games)
             x == CHOOSE y \in Analyze(r.file) : TRUE
             n == Best(cat, x.canonical)
             item == ItemOf(p, r)
  <1>2. selections[p] # NoCatalogue /\ selections[p].set = c.set
        /\ selections[p].entries = cat
    BY <1>1, AppliedIs DEF Becomes
  <1>3. Indices(cat) /\ (\A k \in DOMAIN cat : cat[k] = c.games[k] /\ ~ c.games[k].badDump)
    BY ImportIs
  <1>4. Publishable(Classify(r.file, cat, r.title))
    BY <1>2 DEF Becomes
  <1>5. x \in Analyze(r.file) /\ n \in Lookup(cat, x.canonical) \cap Included(cat)
    BY <1>3, <1>4, EligibleIs
  <1>6. item = [file |-> x.canonical.sha256, size |-> x.canonical.size,
                platform |-> x.platform, adapter |-> x.adapter,
                set |-> c.set, entry |-> cat[n].rom, key |-> cat[n].key,
                strength |-> Strength(x.canonical, cat[n].digest)]
    BY <1>2 DEF ItemOf
  <1> HIDE DEF item, cat, x, n
  <1>7. Sized(item)
    <2>1. item = Fields(item)
      BY <1>6 DEF Fields
    <2>2. item.file = x.canonical.sha256 /\ item.size = x.canonical.size
      BY <1>6
    <2> QED
      BY <1>5, <2>1, <2>2 DEF Sized
  <1>8. n \in DOMAIN cat /\ InProfile(cat[n])
    BY <1>5 DEF Included
  <1>9. Vouches(c.games[n], x.canonical)
    <2>1. Compatible(x.canonical, cat[n].digest) /\ Agreeing(x.canonical, cat[n].digest) # {}
      BY <1>5, LookupIs
    <2> QED
      BY <1>3, <1>8, <2>1 DEF Vouches
  <1>10. Grounds(item, r, c, n)
    <2>1. item.set = c.set /\ item.entry = c.games[n].rom
          /\ item.key = c.games[n].key /\ item.file = x.canonical.sha256
      BY <1>3, <1>6, <1>8
    <2> QED
      BY <1>1, <1>2, <1>5, <1>9, <2>1 DEF Grounds
  <1> QED
    BY <1>5, <1>7, <1>10 DEF item, cat

-----------------------------------------------------------------------------
\* A snapshot has the permitted holdings, each file once.
LEMMA SnapshotIs ==
  ASSUME NEW p, NEW h, DOMAIN h \subseteq Nat
  PROVE  /\ Snapshot(p, h) \subseteq AllOf(h)
         /\ \A i \in Snapshot(p, h) : Permits(p, i)
         /\ \A i, j \in Snapshot(p, h) : i.file = j.file => i = j
         /\ FilesOf(Snapshot(p, h)) =
              {i.file : i \in {j \in AllOf(h) : Permits(p, j)}}
  <1> DEFINE permitted == {n \in DOMAIN h : Permits(p, h[n])}
             first == {m \in permitted :
                         \A k \in permitted : k < m => h[k].file # h[m].file}
             S == Snapshot(p, h)
  <1>1. S = {h[n] : n \in first}
    BY DEF Snapshot
  <1>2. permitted \subseteq Nat /\ first \subseteq permitted
    OBVIOUS
  <1>3. \A i \in S : i \in AllOf(h) /\ Permits(p, i)
    BY <1>1 DEF AllOf
  <1>4. \A m, n \in first : h[m].file = h[n].file => m = n
    <2>1. \A m, n \in first : m \in Nat /\ n \in Nat
      OBVIOUS
    <2>2. \A m, n \in first : ~ (m < n /\ h[m].file = h[n].file)
      OBVIOUS
    <2> HIDE DEF first
    <2> QED
      BY <2>1, <2>2
  <1>5. \A i, j \in S : i.file = j.file => i = j
    <2> HIDE DEF first, S
    <2> QED
      BY <1>1, <1>4
  <1>6. ASSUME NEW n \in permitted PROVE h[n].file \in FilesOf(S)
    <2> DEFINE same == {m \in permitted : h[m].file = h[n].file}
    <2>1. PICK m \in same : \A k \in same : m <= k
      <3>1. same \in SUBSET Nat /\ same # {}
        BY <1>2
      <3> HIDE DEF same
      <3> QED
        BY <3>1, Least
    <2>2. m \in first
      <3>1. \A k \in permitted : k < m => k \notin same
        BY <2>1
      <3> QED
        BY <2>1, <3>1
    <2>3. h[m] \in S /\ h[m].file = h[n].file
      BY <1>1, <2>1, <2>2
    <2> HIDE DEF S
    <2> QED
      BY <2>3 DEF FilesOf
  <1>7. FilesOf(S) = {i.file : i \in {j \in AllOf(h) : Permits(p, j)}}
    <2>1. ASSUME NEW f \in FilesOf(S)
          PROVE  f \in {i.file : i \in {j \in AllOf(h) : Permits(p, j)}}
      <3> HIDE DEF S
      <3> QED
        BY <1>3, <2>1 DEF FilesOf
    <2>2. ASSUME NEW i \in AllOf(h), Permits(p, i) PROVE i.file \in FilesOf(S)
      <3>1. PICK n \in DOMAIN h : i = h[n]
        BY DEF AllOf
      <3>2. n \in permitted
        BY <2>2, <3>1
      <3> HIDE DEF S, permitted
      <3> QED
        BY <1>6, <3>1, <3>2
    <2> HIDE DEF S
    <2> QED
      BY <2>1, <2>2
  <1> HIDE DEF S
  <1>8. S \subseteq AllOf(h)
    BY <1>3
  <1> QED
    BY <1>3, <1>5, <1>7, <1>8 DEF S

\* Two items of one file that do not differ for a Swarm are the same: one
\* SHA-256 has one size.
LEMMA UnchangedIsSame ==
  ASSUME NEW a, NEW b, Sized(a), Sized(b), a.file = b.file, ~ Changed(a, b)
  PROVE  a = b
  <1>1. a.size = b.size
    <2>1. PICK r \in Rows : \E x \in Analyze(r.file) :
             a.file = x.canonical.sha256 /\ a.size = x.canonical.size
      BY DEF Sized
    <2>2. PICK x \in Analyze(r.file) :
             a.file = x.canonical.sha256 /\ a.size = x.canonical.size
      BY <2>1
    <2>3. PICK s \in Rows : \E y \in Analyze(s.file) :
             b.file = y.canonical.sha256 /\ b.size = y.canonical.size
      BY DEF Sized
    <2>4. PICK y \in Analyze(s.file) :
             b.file = y.canonical.sha256 /\ b.size = y.canonical.size
      BY <2>3
    <2>5. x.canonical.size = y.canonical.size
      <3>1. x.canonical.sha256 = y.canonical.sha256
        BY <2>2, <2>4
      <3> QED
        BY <3>1, Sha256Assumption, Zenon
    <2> QED
      BY <2>2, <2>4, <2>5
  <1>2. a.platform = b.platform /\ a.adapter = b.adapter /\ a.set = b.set
        /\ a.entry = b.entry /\ a.key = b.key /\ a.strength = b.strength
    BY DEF Changed, Reported
  <1>3. a = Fields(a) /\ b = Fields(b)
    BY DEF Sized
  <1> QED
    BY <1>1, <1>2, <1>3 DEF Fields

\* Applying the difference of two sets of items to the first gives the
\* second (publish.go, Diff).
LEMMA DeltaGivesCurrent ==
  ASSUME NEW old, NEW current,
         \A i \in old \cup current : Sized(i),
         \A i, j \in old : i.file = j.file => i = j,
         \A i, j \in current : i.file = j.file => i = j
  PROVE  Apply(old, Upserts(old, current), Tombstones(old, current)) = current
  <1> DEFINE ups == Upserts(old, current)
             gone == Tombstones(old, current)
  <1>1. ups \subseteq current
    BY DEF Upserts
  <1>2. ASSUME NEW c \in current, c \notin ups PROVE c \in old
    <2>1. PICK o \in ByFile(old, c.file) : ~ Changed(o, c)
      BY <1>2 DEF Upserts
    <2>2. o \in old /\ o.file = c.file
      BY DEF ByFile
    <2> QED
      BY <2>1, <2>2, UnchangedIsSame
  <1>3. ASSUME NEW i \in old, i.file \notin gone, i.file \notin FilesOf(ups)
        PROVE  i \in current
    <2>1. PICK c \in current : c.file = i.file
      BY <1>3 DEF Tombstones, FilesOf
    <2>2. c \notin ups
      BY <1>3, <2>1 DEF FilesOf
    <2>3. c \in old
      BY <1>2, <2>2
    <2> QED
      BY <2>1, <2>3
  <1>4. ASSUME NEW c \in current, c \notin ups
        PROVE  c.file \notin gone \cup FilesOf(ups)
    <2>1. c.file \notin gone
      BY DEF Tombstones, FilesOf
    <2>2. c.file \notin FilesOf(ups)
      <3> HIDE DEF ups
      <3> QED
        BY <1>1, <1>4 DEF FilesOf
    <2> QED
      BY <2>1, <2>2
  <1>5. Apply(old, ups, gone) =
          {i \in old : i.file \notin gone \cup FilesOf(ups)} \cup ups
    BY DEF Apply
  <1> HIDE DEF ups, gone
  <1>6. Apply(old, ups, gone) = current
    BY <1>1, <1>2, <1>3, <1>4, <1>5
  <1> QED
    BY <1>6 DEF ups, gone

-----------------------------------------------------------------------------
\* Sequences: a tail, an appended element, a part, an insertion, a removal.
LEMMA TailIs ==
  ASSUME NEW S, NEW s \in Seq(S), s # <<>>
  PROVE  /\ Tail(s) \in Seq(S) /\ Len(Tail(s)) = Len(s) - 1 /\ Len(s) \in Nat \ {0}
         /\ Head(s) = s[1] /\ Head(s) \in S
         /\ \A i \in 1..(Len(s) - 1) : Tail(s)[i] = s[i + 1]
  OBVIOUS

LEMMA AddedIs ==
  ASSUME NEW S, NEW s \in Seq(S), NEW x
  PROVE  /\ s \o <<x>> \in Seq(S \cup {x}) /\ Len(s \o <<x>>) = Len(s) + 1
         /\ \A i \in 1..Len(s) : (s \o <<x>>)[i] = s[i]
         /\ (s \o <<x>>)[Len(s) + 1] = x
  OBVIOUS

LEMMA PartIs ==
  ASSUME NEW S, NEW s \in Seq(S), NEW m \in Nat \ {0}, NEW n \in 0..Len(s)
  PROVE  /\ SubSeq(s, m, n) \in Seq(S)
         /\ m <= n => Len(SubSeq(s, m, n)) = n - m + 1
         /\ m > n => Len(SubSeq(s, m, n)) = 0 /\ SubSeq(s, m, n) = <<>>
         /\ \A i \in 1..(n - m + 1) : SubSeq(s, m, n)[i] = s[m + i - 1]
  <1>1. CASE m <= n
    BY <1>1, SubSeqProperties
  <1>2. CASE m > n
    BY <1>2, SubSeqProperties
  <1> QED
    BY <1>1, <1>2

Inserted(s, n, x) == SubSeq(s, 1, n) \o <<x>> \o SubSeq(s, n + 1, Len(s))

LEMMA InsertedIs ==
  ASSUME NEW S, NEW s \in Seq(S), NEW x \in S, NEW n \in 0..Len(s)
  PROVE  /\ Inserted(s, n, x) \in Seq(S) /\ Len(Inserted(s, n, x)) = Len(s) + 1
         /\ \A i \in 1..n : Inserted(s, n, x)[i] = s[i]
         /\ Inserted(s, n, x)[n + 1] = x
         /\ \A i \in (n + 2)..(Len(s) + 1) : Inserted(s, n, x)[i] = s[i - 1]
  <1> DEFINE a == SubSeq(s, 1, n)
             b == SubSeq(s, n + 1, Len(s))
             l == Len(s)
  <1>1. l \in Nat /\ n \in Nat /\ n <= l
    OBVIOUS
  <1>2. a \in Seq(S) /\ Len(a) = n /\ \A i \in 1..n : a[i] = s[i]
    BY <1>1, PartIs
  <1>3. b \in Seq(S) /\ Len(b) = l - n /\ \A i \in 1..(l - n) : b[i] = s[n + i]
    <2>1. CASE n + 1 <= l
      BY <1>1, <2>1, PartIs
    <2>2. CASE n + 1 > l
      BY <1>1, <2>2, PartIs
    <2> QED
      BY <1>1, <2>1, <2>2
  <1> DEFINE t == a \o <<x>> \o b
  <1>0. Inserted(s, n, x) = t
    BY DEF Inserted
  <1> HIDE DEF a, b, l
  <1>4. t \in Seq(S) /\ Len(t) = l + 1
    <2> DEFINE c == a \o <<x>>
    <2>1. c \in Seq(S) /\ Len(c) = n + 1
      BY <1>2
    <2>2. t = c \o b
      OBVIOUS
    <2> HIDE DEF c, t
    <2>3. t \in Seq(S) /\ Len(t) = Len(c) + Len(b)
      BY <1>3, <2>1, <2>2, ConcatProperties
    <2> QED
      BY <1>1, <1>3, <2>1, <2>3
  <1>5. \A i \in 1..n : t[i] = s[i]
    BY <1>1, <1>2, <1>3
  <1>6. t[n + 1] = x
    BY <1>1, <1>2, <1>3
  <1>7. ASSUME NEW i \in (n + 2)..(l + 1) PROVE t[i] = s[i - 1]
    <2>1. i - n - 1 \in 1..(l - n) /\ n + (i - n - 1) = i - 1
      BY <1>1
    <2>2. t[i] = b[i - n - 1]
      BY <1>1, <1>2, <1>3
    <2> QED
      BY <1>3, <2>1, <2>2
  <1> QED
    <2> HIDE DEF t
    <2> QED
      BY <1>0, <1>4, <1>5, <1>6, <1>7 DEF l

LEMMA RemovedIs ==
  ASSUME NEW S, NEW s \in Seq(S), NEW n \in DOMAIN s
  PROVE  LET t == SubSeq(s, 1, n - 1) \o SubSeq(s, n + 1, Len(s))
         IN /\ t \in Seq(S) /\ Len(t) = Len(s) - 1
            /\ \A i \in 1..(n - 1) : t[i] = s[i]
            /\ \A i \in n..(Len(s) - 1) : t[i] = s[i + 1]
  <1> DEFINE a == SubSeq(s, 1, n - 1)
             b == SubSeq(s, n + 1, Len(s))
             l == Len(s)
  <1>1. l \in Nat /\ n \in 1..l /\ n - 1 \in 0..l
    OBVIOUS
  <1>2. a \in Seq(S) /\ Len(a) = n - 1 /\ \A i \in 1..(n - 1) : a[i] = s[i]
    <2>1. CASE n = 1
      BY <1>1, <2>1, PartIs
    <2>2. CASE n # 1
      BY <1>1, <2>2, PartIs
    <2> QED
      BY <2>1, <2>2
  <1>3. b \in Seq(S) /\ Len(b) = l - n /\ \A i \in 1..(l - n) : b[i] = s[n + i]
    <2>1. CASE n + 1 <= l
      BY <1>1, <2>1, PartIs
    <2>2. CASE n + 1 > l
      BY <1>1, <2>2, PartIs
    <2> QED
      BY <1>1, <2>1, <2>2
  <1> DEFINE t == a \o b
  <1> HIDE DEF a, b, l
  <1>4. t \in Seq(S) /\ Len(t) = l - 1
    <2>1. t \in Seq(S) /\ Len(t) = Len(a) + Len(b)
      BY <1>2, <1>3, ConcatProperties
    <2> HIDE DEF t
    <2> QED
      BY <1>1, <1>2, <1>3, <2>1
  <1>5. \A i \in 1..(n - 1) : t[i] = s[i]
    BY <1>1, <1>2, <1>3
  <1>6. ASSUME NEW i \in n..(l - 1) PROVE t[i] = s[i + 1]
    <2>1. i - (n - 1) \in 1..(l - n) /\ n + (i - (n - 1)) = i + 1
      BY <1>1
    <2>2. t[i] = b[i - (n - 1)]
      <3>1. i \in 1..(Len(a) + Len(b)) /\ ~ (i <= Len(a)) /\ Len(a) = n - 1
        BY <1>1, <1>2, <1>3
      <3>2. t[i] = IF i <= Len(a) THEN a[i] ELSE b[i - Len(a)]
        BY <1>2, <1>3, <3>1, ConcatProperties
      <3> QED
        BY <3>1, <3>2
    <2> QED
      BY <1>3, <2>1, <2>2
  <1> QED
    BY <1>4, <1>5, <1>6 DEF a, b, l

-----------------------------------------------------------------------------
Fit(s) == s \in Scans(AllOf(s.items))

\* The fields of the scan.
LEMMA ScanFields ==
  ASSUME NEW s, Fit(s)
  PROVE  /\ s.phase \in {"idle", "scanning"} /\ s.todo \in Seq(PlatformSet)
         /\ s.offset \in Nat /\ s.pending \in Seq(Rows) /\ s.more \in BOOLEAN
         /\ s.items \in Seq(AllOf(s.items)) /\ s.skipped \in Nat /\ s.scanned \in Nat
  BY DEF Fit, Scans

LEMMA PlatformsAreSeq == Platforms \in Seq(PlatformSet)
  BY PlatformsAssumption DEF PlatformSet

\* No scan is in progress, and nothing is left of one.
LEMMA IdleIs ==
  /\ Fit(Idle) /\ Idle.phase = "idle" /\ Idle.items = <<>>
  /\ Idle.todo = <<>> /\ Idle.pending = <<>> /\ Idle.offset = 0
  BY DEF Fit, Scans, Idle

\* What each action does to the scan, as far as the invariant cares.
LEMMA BeginScanDoes ==
  ASSUME BeginScan
  PROVE  /\ Fit(scan') /\ Scanning' /\ scan'.items = <<>> /\ scan'.todo = Platforms
         /\ scan'.pending = <<>> /\ scan'.offset = 0 /\ scan'.more = TRUE
         /\ seen' = <<>> /\ disturbed' = FALSE
         /\ UNCHANGED <<env, resolved, held>>
         /\ \/ selections' = [p \in PlatformSet |-> Applied(hostCatalogues[p])]
            \/ selections' = selections
  <1>1. scan' = [Idle EXCEPT !.phase = "scanning", !.more = TRUE, !.todo = Platforms]
    BY DEF BeginScan
  <1>2. scan' = [phase |-> "scanning", todo |-> Platforms, offset |-> 0,
                 pending |-> <<>>, more |-> TRUE, items |-> <<>>, skipped |-> 0,
                 scanned |-> 0]
    BY <1>1 DEF Idle
  <1>3. Fit(scan')
    BY <1>2, PlatformsAreSeq DEF Fit, Scans
  <1>4. scan'.phase = "scanning" /\ scan'.items = <<>> /\ scan'.todo = Platforms
        /\ scan'.pending = <<>> /\ scan'.offset = 0 /\ scan'.more = TRUE
    BY <1>2
  <1>5. /\ seen' = <<>> /\ disturbed' = FALSE
        /\ UNCHANGED <<env, resolved, held>>
        /\ \/ selections' = [p \in PlatformSet |-> Applied(hostCatalogues[p])]
           \/ selections' = selections
    BY DEF BeginScan
  <1> QED
    BY <1>3, <1>4, <1>5 DEF Scanning

LEMMA PassPlatformDoes ==
  ASSUME Fit(scan), PassPlatform
  PROVE  /\ Fit(scan') /\ Scanning /\ Scanning' /\ scan'.todo = Tail(scan.todo)
         /\ scan.todo # <<>> /\ Platform \notin resolved
         /\ scan'.items = scan.items /\ scan'.pending = scan.pending
         /\ scan'.offset = scan.offset /\ scan'.more = scan.more
         /\ UNCHANGED <<env, selections, resolved, held, faults, disturbed, seen>>
  <1>1. scan' = [scan EXCEPT !.todo = Tail(scan.todo)] /\ scan.todo # <<>>
    BY DEF PassPlatform
  <1>2. Tail(scan.todo) \in Seq(PlatformSet)
    BY <1>1, ScanFields, TailIs
  <1>3. /\ scan'.items = scan.items /\ scan'.pending = scan.pending
        /\ scan'.offset = scan.offset /\ scan'.more = scan.more
        /\ scan'.phase = scan.phase /\ scan'.todo = Tail(scan.todo)
    BY <1>1 DEF Fit, Scans
  <1>4. Fit(scan')
    BY <1>1, <1>2, <1>3 DEF Fit, Scans
  <1> QED
    BY <1>3, <1>4 DEF PassPlatform, Scanning

LEMMA NextPlatformDoes ==
  ASSUME Fit(scan), NextPlatform
  PROVE  /\ Fit(scan') /\ Scanning /\ Scanning' /\ scan'.todo = Tail(scan.todo)
         /\ scan.todo # <<>> /\ scan.pending = <<>> /\ ~ scan.more
         /\ scan'.items = scan.items /\ scan'.pending = <<>>
         /\ scan'.offset = 0 /\ scan'.more = TRUE
         /\ UNCHANGED <<env, selections, resolved, held, faults, disturbed, seen>>
  <1>1. scan' = [scan EXCEPT !.todo = Tail(scan.todo), !.offset = 0, !.more = TRUE]
        /\ scan.todo # <<>>
    BY DEF NextPlatform
  <1>2. Tail(scan.todo) \in Seq(PlatformSet)
    BY <1>1, ScanFields, TailIs
  <1>3. /\ scan'.items = scan.items /\ scan'.pending = scan.pending
        /\ scan'.offset = 0 /\ scan'.more = TRUE
        /\ scan'.phase = scan.phase /\ scan'.todo = Tail(scan.todo)
    BY <1>1 DEF Fit, Scans
  <1>4. Fit(scan')
    BY <1>1, <1>2, <1>3 DEF Fit, Scans
  <1> QED
    BY <1>3, <1>4 DEF NextPlatform, Scanning

LEMMA PassRecordDoes ==
  ASSUME Fit(scan), PassRecord
  PROVE  /\ Fit(scan') /\ Scanning /\ Scanning' /\ scan'.todo = scan.todo
         /\ scan.pending # <<>> /\ Head(scan.pending).slug # Platform
         /\ scan'.items = scan.items /\ scan'.pending = Tail(scan.pending)
         /\ scan'.offset = scan.offset /\ scan'.more = scan.more
         /\ UNCHANGED <<env, selections, resolved, held, faults, disturbed, seen>>
  <1>1. scan' = [scan EXCEPT !.pending = Tail(scan.pending)] /\ scan.pending # <<>>
    BY DEF PassRecord
  <1>2. Tail(scan.pending) \in Seq(Rows)
    BY <1>1, ScanFields, TailIs
  <1>3. /\ scan'.items = scan.items /\ scan'.pending = Tail(scan.pending)
        /\ scan'.offset = scan.offset /\ scan'.more = scan.more
        /\ scan'.phase = scan.phase /\ scan'.todo = scan.todo
    BY <1>1 DEF Fit, Scans
  <1>4. Fit(scan')
    BY <1>1, <1>2, <1>3 DEF Fit, Scans
  <1> QED
    BY <1>3, <1>4 DEF PassRecord, RecordDue, Scanning

LEMMA TakeDoes ==
  ASSUME Fit(scan), seen \in Seq(Rows), NEW items, NEW skipped \in Nat,
         items = <<>> \/ (\E x : items = <<x>>), Take(items, skipped), RecordDue
  PROVE  /\ Fit(scan') /\ Scanning /\ Scanning' /\ scan'.todo = scan.todo
         /\ scan.pending # <<>> /\ Head(scan.pending).slug = Platform
         /\ scan'.pending = Tail(scan.pending)
         /\ scan'.offset = scan.offset /\ scan'.more = scan.more
         /\ AllOf(scan'.items) = AllOf(scan.items) \cup AllOf(items)
         /\ seen' = Append(seen, Head(scan.pending)) /\ seen' \in Seq(Rows)
         /\ AllOf(seen') = AllOf(seen) \cup {Head(scan.pending)}
         /\ UNCHANGED <<env, selections, resolved, held>>
  <1>1. scan' = [scan EXCEPT !.pending = Tail(scan.pending), !.scanned = scan.scanned + 1,
                             !.items = scan.items \o items,
                             !.skipped = scan.skipped + skipped]
        /\ scan.pending # <<>> /\ seen' = Append(seen, Head(scan.pending))
    BY DEF Take, RecordDue
  <1>2. Tail(scan.pending) \in Seq(Rows) /\ Head(scan.pending) \in Rows
    BY <1>1, ScanFields, TailIs
  <1>3. /\ scan'.items = scan.items \o items /\ scan'.pending = Tail(scan.pending)
        /\ scan'.offset = scan.offset /\ scan'.more = scan.more
        /\ scan'.phase = scan.phase /\ scan'.todo = scan.todo
    BY <1>1 DEF Fit, Scans
  <1>4. AllOf(scan'.items) = AllOf(scan.items) \cup AllOf(items)
        /\ scan'.items \in Seq(AllOf(scan'.items))
    <2> DEFINE old == scan.items
               new == scan'.items
    <2>1. old \in Seq(AllOf(old))
      BY ScanFields
    <2>2. new = old \o items
      BY <1>3
    <2> HIDE DEF old, new
    <2>3. CASE items = <<>>
      <3>1. new = old /\ AllOf(items) = {}
        BY <2>1, <2>2, <2>3 DEF AllOf
      <3> QED
        BY <2>1, <3>1 DEF old, new
    <2>4. ASSUME NEW x, items = <<x>>
          PROVE  AllOf(new) = AllOf(old) \cup AllOf(items) /\ new \in Seq(AllOf(new))
      <3>1. /\ new \in Seq(AllOf(old) \cup {x}) /\ Len(new) = Len(old) + 1
            /\ \A i \in 1..Len(old) : new[i] = old[i]
            /\ new[Len(old) + 1] = x
        BY <2>1, <2>2, <2>4, AddedIs
      <3>2. Len(old) \in Nat /\ DOMAIN old = 1..Len(old)
            /\ DOMAIN new = 1..(Len(old) + 1)
        BY <2>1, <3>1
      <3>3. AllOf(items) = {x}
        BY <2>4 DEF AllOf
      <3>4. AllOf(new) = AllOf(old) \cup {x}
        <4>1. \A i \in DOMAIN new : i \in DOMAIN old \/ i = Len(old) + 1
          BY <3>2
        <4>2. DOMAIN old \subseteq DOMAIN new /\ Len(old) + 1 \in DOMAIN new
          BY <3>2
        <4> QED
          BY <3>1, <3>2, <4>1, <4>2 DEF AllOf
      <3> QED
        BY <3>1, <3>3, <3>4
    <2> QED
      BY <2>3, <2>4 DEF old, new
  <1>5. Fit(scan')
    <2>1. scan.scanned + 1 \in Nat /\ scan.skipped + skipped \in Nat
      BY ScanFields
    <2> QED
      BY <1>1, <1>2, <1>4, <2>1 DEF Fit, Scans
  <1>6. seen' \in Seq(Rows) /\ AllOf(seen') = AllOf(seen) \cup {Head(scan.pending)}
    <2> DEFINE h == Head(scan.pending)
               n == Len(seen)
    <2>1. n \in Nat /\ DOMAIN seen = 1..n
      OBVIOUS
    <2>2. h \in Rows /\ seen' = Append(seen, h)
      BY <1>1, <1>2
    <2> HIDE DEF h
    <2>3. seen' \in Seq(Rows) /\ Len(seen') = n + 1 /\ DOMAIN seen' = 1..(n + 1)
          /\ (\A i \in 1..n : seen'[i] = seen[i]) /\ seen'[n + 1] = h
      BY <2>2
    <2> HIDE DEF n
    <2>4. \A i \in DOMAIN seen' : i \in DOMAIN seen \/ i = n + 1
      BY <2>1, <2>3
    <2>5. DOMAIN seen \subseteq DOMAIN seen' /\ n + 1 \in DOMAIN seen'
      BY <2>1, <2>3
    <2>6. AllOf(seen') = AllOf(seen) \cup {h}
      BY <2>1, <2>3, <2>4, <2>5 DEF AllOf
    <2> QED
      BY <2>3, <2>6 DEF h
  <1> QED
    BY <1>1, <1>3, <1>4, <1>5, <1>6 DEF Take, RecordDue, Scanning

\* A page is the part of the listing after the offset, and when no more is
\* said to remain, none does (rommsource.go, ListROMs: with or without a
\* total).
LEMMA PageIs ==
  ASSUME Fit(scan), listing \in Seq(Rows)
  PROVE  /\ Page \in Seq(Rows) /\ Len(Page) \in Nat
         /\ scan.offset <= Len(listing) =>
              /\ scan.offset + Len(Page) <= Len(listing)
              /\ \A k \in DOMAIN Page : Page[k] = listing[scan.offset + k]
              /\ (Page = <<>> \/ ~ HasMore) => scan.offset + Len(Page) = Len(listing)
  <1> DEFINE o == scan.offset
             l == Len(listing)
             last == IF o + PageSize < l THEN o + PageSize ELSE l
  <1>1. o \in Nat /\ l \in Nat /\ PageSize \in Nat \ {0} /\ last \in Nat
        /\ DOMAIN listing = 1..l
    BY ScanFields, PageSizeAssumption
  <1>2. Page = SubSeq(listing, o + 1, last)
    BY DEF Page
  <1>3. \A k \in (o + 1)..last : listing[k] \in Rows
    <2>1. \A k \in (o + 1)..last : k \in 1..l
      BY <1>1
    <2> QED
      BY <1>1, <2>1
  <1> DEFINE n == IF o + 1 <= last THEN last - (o + 1) + 1 ELSE 0
  <1>4. /\ Page \in Seq(Rows) /\ Len(Page) = n
        /\ \A k \in 1..(last - (o + 1) + 1) : Page[k] = listing[(o + 1) + k - 1]
    <2>1. o + 1 \in Int /\ last \in Int
      BY <1>1
    <2> HIDE DEF last, o
    <2> QED
      BY <1>2, <1>3, <2>1, SubSeqProperties
  <1>5. HasMore = IF counted THEN o + Len(Page) < l ELSE Len(Page) >= PageSize
    BY DEF HasMore
  <1> HIDE DEF o, l
  <1>6. ASSUME o <= l
        PROVE  /\ o + n <= l
               /\ n = 0 => o = l
               /\ n < PageSize => o + n = l
    BY <1>1, <1>6
  <1>7. n \in Nat
    BY <1>1
  <1>8. ASSUME NEW k \in DOMAIN Page PROVE Page[k] = listing[o + k]
    <2>1. k \in 1..n
      BY <1>4
    <2>2. k \in 1..(last - (o + 1) + 1) /\ (o + 1) + k - 1 = o + k
      BY <1>1, <2>1
    <2> QED
      BY <1>4, <2>2
  <1>9. Page = <<>> => n = 0
    BY <1>4
  <1> HIDE DEF n
  <1>10. ASSUME o <= l, Page = <<>> \/ ~ HasMore PROVE o + n = l
    <2>1. CASE Page = <<>>
      BY <1>1, <1>6, <1>9, <1>10, <2>1
    <2>2. CASE ~ HasMore /\ counted
      <3>1. ~ (o + n < l)
        BY <1>4, <1>5, <2>2
      <3>2. o + n <= l
        BY <1>6, <1>10
      <3> QED
        BY <1>1, <1>7, <3>1, <3>2
    <2>3. CASE ~ HasMore /\ ~ counted
      <3>1. ~ (n >= PageSize)
        BY <1>4, <1>5, <2>3
      <3>2. n < PageSize
        BY <1>1, <1>7, <3>1
      <3> QED
        BY <1>6, <1>10, <3>2
    <2> QED
      BY <1>10, <2>1, <2>2, <2>3
  <1> QED
    BY <1>4, <1>6, <1>7, <1>8, <1>10 DEF o, l

LEMMA ListPageDoes ==
  ASSUME Fit(scan), listing \in Seq(Rows), ListPage
  PROVE  /\ Fit(scan') /\ Scanning /\ Scanning' /\ scan'.todo = scan.todo
         /\ scan.todo # <<>> /\ Platform \in resolved /\ scan.pending = <<>>
         /\ scan'.pending = Page /\ scan'.offset = scan.offset + Len(Page)
         /\ (scan'.more = TRUE <=> HasMore /\ Page # <<>>) /\ scan'.items = scan.items
         /\ UNCHANGED <<env, selections, resolved, held, faults, disturbed, seen>>
  <1>1. scan' = [scan EXCEPT !.pending = Page, !.offset = scan.offset + Len(Page),
                             !.more = HasMore /\ Page # <<>>]
    BY DEF ListPage
  <1>2. Page \in Seq(Rows) /\ scan.offset + Len(Page) \in Nat
    BY PageIs, ScanFields
  <1>3. /\ scan'.items = scan.items /\ scan'.pending = Page
        /\ scan'.offset = scan.offset + Len(Page)
        /\ scan'.more = (HasMore /\ Page # <<>>)
        /\ scan'.phase = scan.phase /\ scan'.todo = scan.todo
    BY <1>1 DEF Fit, Scans
  <1>4. Fit(scan')
    <2>1. (HasMore /\ Page # <<>>) \in BOOLEAN
      OBVIOUS
    <2> QED
      BY <1>1, <1>2, <1>3, <2>1 DEF Fit, Scans
  <1> QED
    BY <1>3, <1>4 DEF ListPage, PageDue, Scanning

LEMMA TakeRecordDoes ==
  ASSUME TakeRecord
  PROVE  \E items, skipped :
           /\ Take(items, skipped) /\ RecordDue /\ skipped \in Nat
           /\ UNCHANGED <<faults, disturbed>>
           /\ \/ items = <<>>
              \/ /\ Becomes(Platform, Head(scan.pending))
                 /\ items = <<ItemOf(Platform, Head(scan.pending))>>
  BY DEF TakeRecord

\* The actions that end a scan.
Ending == ListFails \/ PublishSnapshot \/ PublishDelta \/ PublishRefused

LEMMA EndingDoes ==
  ASSUME Ending
  PROVE  /\ Scanning /\ scan' = Idle /\ Fit(scan') /\ ~ Scanning'
         /\ UNCHANGED <<env, selections, resolved, disturbed, seen>>
  BY IdleIs DEF Ending, ListFails, PublishSnapshot, PublishDelta, PublishRefused,
     PageDue, Scanned, Scanning

\* The actions of the people around a scan.
Around ==
  \/ Library
  \/ \E p \in PlatformSet : \E c \in CataloguesFor(p) : SetCatalogue(p, c)
  \/ \E p \in Policies : SetPolicy(p)
  \/ Reconnect

LEMMA AroundDoes ==
  ASSUME Around
  PROVE  UNCHANGED <<selections, scan, held, seen>>
  BY DEF Around, Library, AddRecord, RemoveRecord, Edit, SetCatalogue, SetPolicy,
     Reconnect

\* The cases of a step.
LEMMA Cases ==
  ASSUME [Next]_vars
  PROVE  \/ Around \/ BeginScan \/ ListPage \/ TakeRecord \/ DownloadFails
         \/ PassRecord \/ NextPlatform \/ PassPlatform \/ Ending \/ UNCHANGED vars
  BY DEF Next, Owner, Publish, Around, Ending

-----------------------------------------------------------------------------
\* The types hold at the start, and every step keeps them.
LEMMA TypeInit == Init => TypeOK
  <1> SUFFICES ASSUME Init PROVE TypeOK
    OBVIOUS
  <1>1. listing \in Seq(Rows) /\ IdsApart
    BY ListingsAssumption DEF Init, IdsApart
  <1>2. \A p \in PlatformSet : Loaded(selections[p], p)
    BY DEF Init, Loaded
  <1>3. Fit(scan)
    BY IdleIs DEF Init
  <1> QED
    BY <1>1, <1>2, <1>3 DEF Init, TypeOK, Fit

\* A record that is added has a new id, and none is changed by a removal.
LEMMA EditDoes ==
  ASSUME listing \in Seq(Rows), IdsApart, Library
  PROVE  listing' \in Seq(Rows) /\ IdsApart'
  <1> DEFINE l == Len(listing)
  <1>0. l \in Nat /\ DOMAIN listing = 1..l
    OBVIOUS
  <1>1. ASSUME NEW r \in Records, NEW n \in 0..Len(listing), AddRecord(r, n)
        PROVE  listing' \in Seq(Rows) /\ IdsApart'
    <2>1. listing' = SubSeq(listing, 1, n) \o <<r>> \o SubSeq(listing, n + 1, Len(listing))
          /\ (\A m \in DOMAIN listing : listing[m].id # r.id)
      BY <1>1 DEF AddRecord, Edit
    <2>2. r \in Rows
      BY DEF Rows
    <2>3. /\ listing' \in Seq(Rows) /\ Len(listing') = Len(listing) + 1
          /\ \A i \in 1..n : listing'[i] = listing[i]
          /\ listing'[n + 1] = r
          /\ \A i \in (n + 2)..(Len(listing) + 1) : listing'[i] = listing[i - 1]
      <3>1. listing' = Inserted(listing, n, r)
        BY <2>1 DEF Inserted
      <3>2. PICK t : t = Inserted(listing, n, r)
        OBVIOUS
      <3>3. /\ t \in Seq(Rows) /\ Len(t) = Len(listing) + 1
            /\ \A i \in 1..n : t[i] = listing[i]
            /\ t[n + 1] = r
            /\ \A i \in (n + 2)..(Len(listing) + 1) : t[i] = listing[i - 1]
        <4>1. t \in Seq(Rows) /\ Len(t) = Len(listing) + 1
          BY <2>2, <3>2, InsertedIs
        <4>2. \A i \in 1..n : t[i] = listing[i]
          BY <2>2, <3>2, InsertedIs
        <4>3. t[n + 1] = r
          BY <2>2, <3>2, InsertedIs
        <4>4. \A i \in (n + 2)..(Len(listing) + 1) : t[i] = listing[i - 1]
          BY <2>2, <3>2, InsertedIs
        <4> QED
          BY <4>1, <4>2, <4>3, <4>4
      <3> QED
        BY <3>1, <3>2, <3>3
    <2> DEFINE at(i) == IF i <= n THEN i ELSE i - 1
    <2> HIDE DEF l
    <2>4. DOMAIN listing' = 1..(l + 1) /\ n \in Nat /\ n <= l
      BY <1>0, <2>3 DEF l
    <2>5. ASSUME NEW i \in DOMAIN listing', i # n + 1
          PROVE  at(i) \in DOMAIN listing /\ listing'[i] = listing[at(i)]
      <3>1. CASE i <= n
        BY <1>0, <2>3, <2>4, <3>1
      <3>2. CASE ~ (i <= n)
        <4>1. i \in (n + 2)..(l + 1) /\ i - 1 \in 1..l
          BY <1>0, <2>4, <2>5, <3>2
        <4> QED
          BY <1>0, <2>3, <3>2, <4>1
      <3> QED
        BY <3>1, <3>2
    <2>6. \A i, j \in DOMAIN listing' : i # n + 1 /\ j # n + 1 /\ at(i) = at(j) => i = j
      BY <1>0, <2>4
    <2> HIDE DEF at
    <2>7. ASSUME NEW i \in DOMAIN listing', NEW j \in DOMAIN listing',
                 listing'[i].id = listing'[j].id
          PROVE  i = j
      <3>1. CASE i = n + 1 /\ j # n + 1
        BY <2>1, <2>3, <2>5, <2>7, <3>1
      <3>2. CASE j = n + 1 /\ i # n + 1
        BY <2>1, <2>3, <2>5, <2>7, <3>2
      <3>3. CASE i # n + 1 /\ j # n + 1
        BY <2>5, <2>6, <2>7, <3>3 DEF IdsApart
      <3> QED
        BY <3>1, <3>2, <3>3
    <2> QED
      BY <2>3, <2>7 DEF IdsApart
  <1>2. ASSUME NEW n \in DOMAIN listing, RemoveRecord(n)
        PROVE  listing' \in Seq(Rows) /\ IdsApart'
    <2>1. listing' = SubSeq(listing, 1, n - 1) \o SubSeq(listing, n + 1, Len(listing))
      BY <1>2 DEF RemoveRecord, Edit
    <2>2. /\ listing' \in Seq(Rows) /\ Len(listing') = l - 1
          /\ \A i \in 1..(n - 1) : listing'[i] = listing[i]
          /\ \A i \in n..(l - 1) : listing'[i] = listing[i + 1]
      BY <2>1, RemovedIs
    <2> DEFINE at(i) == IF i < n THEN i ELSE i + 1
    <2> HIDE DEF l
    <2>3. DOMAIN listing' = 1..(l - 1) /\ n \in 1..l
      BY <1>0, <2>2
    <2>4. ASSUME NEW i \in DOMAIN listing'
          PROVE  at(i) \in DOMAIN listing /\ listing'[i] = listing[at(i)]
      <3>1. CASE i < n
        <4>1. i \in 1..(n - 1) /\ i \in 1..l
          BY <1>0, <2>3, <3>1
        <4> QED
          BY <1>0, <2>2, <3>1, <4>1
      <3>2. CASE ~ (i < n)
        <4>1. i \in n..(l - 1) /\ i + 1 \in 1..l
          BY <1>0, <2>3, <3>2
        <4> QED
          BY <1>0, <2>2, <3>2, <4>1
      <3> QED
        BY <3>1, <3>2
    <2>5. \A i, j \in DOMAIN listing' : at(i) = at(j) => i = j
      BY <1>0, <2>3
    <2> HIDE DEF at
    <2>6. \A i, j \in DOMAIN listing' : listing'[i].id = listing'[j].id => i = j
      BY <2>4, <2>5 DEF IdsApart
    <2> QED
      BY <2>2, <2>6 DEF IdsApart
  <1> QED
    BY <1>1, <1>2 DEF Library

LEMMA TypeStep ==
  ASSUME TypeOK, [Next]_vars
  PROVE  TypeOK'
  <1>1. listing' \in Seq(Rows) /\ IdsApart'
    <2>1. CASE Library
      BY <2>1, EditDoes DEF TypeOK
    <2>2. CASE ~ Library
      <3>1. listing' = listing
        BY <2>2 DEF Next, Owner, SetCatalogue, SetPolicy, Reconnect, BeginScan,
           ListPage, ListFails, TakeRecord, DownloadFails, Take, PassRecord,
           NextPlatform, PassPlatform, Publish, PublishSnapshot, PublishDelta,
           PublishRefused, vars, env
      <3> QED
        BY <3>1 DEF TypeOK, IdsApart
    <2> QED
      BY <2>1, <2>2
  <1>2. \A p \in PlatformSet : hostCatalogues'[p] \in CataloguesFor(p)
    <2>1. ASSUME NEW p \in PlatformSet, NEW c \in CataloguesFor(p), SetCatalogue(p, c)
          PROVE  \A q \in PlatformSet : hostCatalogues'[q] \in CataloguesFor(q)
      BY <2>1 DEF SetCatalogue, TypeOK
    <2>2. CASE ~ (\E p \in PlatformSet : \E c \in CataloguesFor(p) : SetCatalogue(p, c))
      <3>1. hostCatalogues' = hostCatalogues
        BY <2>2 DEF Next, Library, AddRecord, RemoveRecord, Edit, Owner, SetPolicy,
           Reconnect, BeginScan, ListPage, ListFails, TakeRecord, DownloadFails,
           Take, PassRecord, NextPlatform, PassPlatform, Publish, PublishSnapshot,
           PublishDelta, PublishRefused, vars, env
      <3> QED
        BY <3>1 DEF TypeOK
    <2> QED
      BY <2>1, <2>2
  <1>3. /\ \A p \in PlatformSet : Loaded(selections'[p], p)
        /\ Fit(scan') /\ seen' \in Seq(Rows)
    <2> USE DEF TypeOK
    <2>0. Fit(scan)
      BY DEF Fit
    <2>1. CASE Around
      BY <2>0, <2>1, AroundDoes
    <2>2. CASE BeginScan
      <3>1. \A p \in PlatformSet : Loaded(Applied(hostCatalogues[p]), p)
        <4> TAKE p \in PlatformSet
        <4>1. hostCatalogues[p] \in CataloguesFor(p)
          OBVIOUS
        <4>2. CASE hostCatalogues[p] = NoCatalogue
          BY <4>2 DEF Loaded, Applied
        <4>3. CASE hostCatalogues[p] # NoCatalogue
          BY <4>1, <4>3 DEF Loaded, CataloguesFor
        <4> QED
          BY <4>2, <4>3
      <3>2. seen' = <<>> /\ <<>> \in Seq(Rows) /\ Fit(scan')
        BY <2>2, BeginScanDoes
      <3>3. CASE selections' = selections
        BY <3>2, <3>3
      <3>4. CASE selections' = [p \in PlatformSet |-> Applied(hostCatalogues[p])]
        BY <3>1, <3>2, <3>4
      <3> QED
        BY <2>2, <3>3, <3>4, BeginScanDoes
    <2>3. CASE ListPage
      BY <2>0, <2>3, ListPageDoes
    <2>4. ASSUME NEW items, NEW skipped \in Nat,
                 items = <<>> \/ (\E x : items = <<x>>), Take(items, skipped), RecordDue
          PROVE  /\ \A p \in PlatformSet : Loaded(selections'[p], p)
                 /\ Fit(scan') /\ seen' \in Seq(Rows)
      BY <2>0, <2>4, TakeDoes
    <2>5. CASE TakeRecord
      BY <2>4, <2>5, TakeRecordDoes
    <2>6. CASE DownloadFails
      <3>1. Take(<<>>, 1) /\ RecordDue
        BY <2>6 DEF DownloadFails
      <3> QED
        BY <2>4, <3>1
    <2>7. CASE PassRecord
      BY <2>0, <2>7, PassRecordDoes
    <2>8. CASE NextPlatform
      BY <2>0, <2>8, NextPlatformDoes
    <2>9. CASE PassPlatform
      BY <2>0, <2>9, PassPlatformDoes
    <2>10. CASE Ending
      BY <2>10, EndingDoes
    <2>11. CASE UNCHANGED vars
      BY <2>0, <2>11 DEF vars
    <2> QED
      BY <2>1, <2>2, <2>3, <2>5, <2>6, <2>7, <2>8, <2>9, <2>10, <2>11, Cases
  <1> QED
    BY <1>1, <1>2, <1>3 DEF TypeOK, Fit

-----------------------------------------------------------------------------
\* An item stays grounded while the scan meets more.
LEMMA GroundedStays ==
  ASSUME NEW i, Grounded(i), selections' = selections, AllOf(seen) \subseteq AllOf(seen')
  PROVE  Grounded(i)'
  <1>1. PICK r \in AllOf(seen), c \in Catalogues :
          /\ r.slug \in PlatformSet
          /\ \E n \in Included(ImportDAT(c.games)) : Grounds(i, r, c, n)
    BY DEF Grounded
  <1>2. PICK n \in Included(ImportDAT(c.games)) : Grounds(i, r, c, n)
    BY <1>1
  <1>3. Grounds(i, r, c, n)'
    BY <1>2 DEF Grounds
  <1>4. Sized(i)' /\ r \in AllOf(seen')
    BY <1>1 DEF Grounded, Sized, Fields
  <1> QED
    BY <1>1, <1>2, <1>3, <1>4 DEF Grounded

\* Where the next record of a page is taken from.
LEMMA DueIs ==
  ASSUME Fit(scan), CursorFits, Scanning, scan.pending # <<>>
  PROVE  /\ scan.todo # <<>> /\ Platform \in PlatformSet /\ Platform \in resolved
         /\ Head(scan.pending) \in Rows
  <1>1. scan.todo # <<>> /\ scan.todo \in Seq(PlatformSet) /\ scan.pending \in Seq(Rows)
    BY ScanFields DEF CursorFits
  <1>2. Platform \in PlatformSet /\ Head(scan.pending) \in Rows
    BY <1>1, TailIs DEF Platform
  <1> QED
    BY <1>1, <1>2 DEF CursorFits

\* A scan adds only grounded items, and keeps its catalogues to the end.
LEMMA ItemsGroundedStep ==
  ASSUME TypeOK, ItemsGrounded, CursorFits, [Next]_vars
  PROVE  ItemsGrounded'
  <1>0. Fit(scan) /\ seen \in Seq(Rows)
    BY DEF Fit, TypeOK
  <1>1. ASSUME Scanning, scan'.items = scan.items, seen' = seen, selections' = selections
        PROVE  ItemsGrounded'
    BY <1>1, GroundedStays DEF ItemsGrounded
  <1>2. CASE Around \/ UNCHANGED vars
    <2>1. UNCHANGED <<selections, scan, held, seen>>
      BY <1>2, AroundDoes DEF vars
    <2>2. CASE Scanning
      BY <1>1, <2>1, <2>2
    <2>3. CASE ~ Scanning
      BY <2>1, <2>3 DEF ItemsGrounded, Scanning
    <2> QED
      BY <2>2, <2>3
  <1>3. CASE BeginScan
    <2>1. scan'.items = <<>>
      BY <1>3, BeginScanDoes
    <2>2. AllOf(scan'.items) = {}
      BY <2>1 DEF AllOf
    <2> QED
      BY <2>2 DEF ItemsGrounded
  <1>4. CASE ListPage
    BY <1>0, <1>1, <1>4, ListPageDoes DEF TypeOK
  <1>5. CASE PassRecord
    BY <1>0, <1>1, <1>5, PassRecordDoes
  <1>6. CASE NextPlatform
    BY <1>0, <1>1, <1>6, NextPlatformDoes
  <1>7. CASE PassPlatform
    BY <1>0, <1>1, <1>7, PassPlatformDoes
  <1>8. CASE Ending
    BY <1>8, EndingDoes DEF ItemsGrounded
  <1>9. ASSUME NEW items, NEW skipped \in Nat, Take(items, skipped), RecordDue,
               \/ items = <<>>
               \/ /\ Becomes(Platform, Head(scan.pending))
                  /\ items = <<ItemOf(Platform, Head(scan.pending))>>
        PROVE  ItemsGrounded'
    <2> DEFINE r == Head(scan.pending)
               item == ItemOf(Platform, r)
    <2>1. /\ AllOf(scan'.items) = AllOf(scan.items) \cup AllOf(items)
          /\ AllOf(seen') = AllOf(seen) \cup {r} /\ selections' = selections
          /\ Scanning /\ scan.pending # <<>> /\ r.slug = Platform
      BY <1>0, <1>9, TakeDoes
    <2>2. \A i \in AllOf(scan.items) : Grounded(i)'
      BY <2>1, GroundedStays DEF ItemsGrounded
    <2>3. CASE items = <<>>
      <3>1. AllOf(items) = {}
        BY <2>3 DEF AllOf
      <3> QED
        BY <2>1, <2>2, <3>1 DEF ItemsGrounded
    <2>4. CASE Becomes(Platform, r) /\ items = <<item>>
      <3>1. AllOf(items) = {item}
        BY <2>4 DEF AllOf
      <3>2. Platform \in PlatformSet /\ r \in Rows
        BY <1>0, <2>1, DueIs
      <3>3. Sized(item) /\ \E c \in Catalogues :
              \E n \in Included(ImportDAT(c.games)) : Grounds(item, r, c, n)
        BY <2>1, <2>4, <3>2, ItemIs DEF TypeOK
      <3>4. PICK c \in Catalogues :
              \E n \in Included(ImportDAT(c.games)) : Grounds(item, r, c, n)
        BY <3>3
      <3>5. PICK n \in Included(ImportDAT(c.games)) : Grounds(item, r, c, n)
        BY <3>4
      <3>6. PICK i : i = item
        OBVIOUS
      <3>7. PICK s : s = r
        OBVIOUS
      <3>8. s.slug \in PlatformSet /\ s \in AllOf(seen')
        BY <2>1, <3>2, <3>7
      <3>9. Grounds(i, s, c, n)'
        <4>1. Grounds(i, s, c, n)
          BY <3>5, <3>6, <3>7
        <4> QED
          BY <2>1, <4>1 DEF Grounds
      <3>10. Sized(i)'
        <4>1. Sized(i)
          BY <3>3, <3>6
        <4> QED
          BY <4>1 DEF Sized, Fields
      <3>11. Grounded(i)'
        BY <3>8, <3>9, <3>10 DEF Grounded
      <3>12. AllOf(scan'.items) = AllOf(scan.items) \cup {i}
        BY <2>1, <3>1, <3>6
      <3> QED
        BY <2>2, <3>11, <3>12 DEF ItemsGrounded
    <2> QED
      BY <1>9, <2>3, <2>4
  <1>10. CASE TakeRecord
    BY <1>9, <1>10, TakeRecordDoes
  <1>11. CASE DownloadFails
    <2>1. Take(<<>>, 1) /\ RecordDue
      BY <1>11 DEF DownloadFails
    <2> QED
      BY <1>9, <2>1
  <1> QED
    BY <1>2, <1>3, <1>4, <1>5, <1>6, <1>7, <1>8, <1>10, <1>11, Cases

-----------------------------------------------------------------------------
\* The platform being scanned is not among those still to come.
LEMMA TodoIs ==
  ASSUME Fit(scan), Scanning, CursorFits, scan.todo # <<>>
  PROVE  /\ \A m, n \in DOMAIN Tail(scan.todo) :
              Tail(scan.todo)[m] = Tail(scan.todo)[n] => m = n
         /\ Platform \in PlatformSet /\ Platform \notin AllOf(Tail(scan.todo))
         /\ AllOf(scan.todo) = AllOf(Tail(scan.todo)) \cup {Platform}
  <1> DEFINE s == scan.todo
             t == Tail(scan.todo)
             l == Len(scan.todo)
             p == Platform
  <1>1. /\ s \in Seq(PlatformSet) /\ t \in Seq(PlatformSet) /\ Len(t) = l - 1
        /\ l \in Nat \ {0} /\ p = s[1] /\ p \in PlatformSet
        /\ \A i \in 1..(l - 1) : t[i] = s[i + 1]
    BY ScanFields, TailIs DEF Platform
  <1>2. \A m, n \in DOMAIN s : s[m] = s[n] => m = n
    BY DEF CursorFits
  <1>3. DOMAIN s = 1..l
    BY <1>1
  <1> HIDE DEF s, t, l, p
  <1>4. DOMAIN t = 1..(l - 1)
    BY <1>1
  <1>5. ASSUME NEW i \in DOMAIN t PROVE i + 1 \in DOMAIN s /\ i + 1 # 1 /\ t[i] = s[i + 1]
    BY <1>1, <1>3, <1>4
  <1>6. ASSUME NEW i \in DOMAIN s, i # 1 PROVE i - 1 \in DOMAIN t /\ t[i - 1] = s[i]
    <2>1. i - 1 \in 1..(l - 1) /\ (i - 1) + 1 = i
      BY <1>1, <1>3, <1>6
    <2> QED
      BY <1>1, <1>4, <2>1
  <1>7. 1 \in DOMAIN s
    BY <1>1, <1>3
  <1>8. \A m, n \in DOMAIN t : t[m] = t[n] => m = n
    <2> TAKE m, n \in DOMAIN t
    <2> HAVE t[m] = t[n]
    <2>1. m + 1 = n + 1
      BY <1>2, <1>5
    <2> QED
      BY <1>1, <1>4, <2>1
  <1>9. p \notin AllOf(t)
    BY <1>1, <1>2, <1>5, <1>7 DEF AllOf
  <1>10. AllOf(s) = AllOf(t) \cup {p}
    <2>1. ASSUME NEW i \in DOMAIN s PROVE s[i] \in AllOf(t) \cup {p}
      BY <1>1, <1>6 DEF AllOf
    <2>2. ASSUME NEW i \in DOMAIN t PROVE t[i] \in AllOf(s)
      BY <1>5 DEF AllOf
    <2>3. p \in AllOf(s)
      BY <1>1, <1>7 DEF AllOf
    <2> QED
      BY <2>1, <2>2, <2>3 DEF AllOf
  <1> QED
    BY <1>1, <1>8, <1>9, <1>10 DEF s, t, p

\* The platforms are resolved anew only between scans.
LEMMA AroundResolves ==
  ASSUME Around, Scanning
  PROVE  resolved' = resolved
  BY DEF Around, Library, AddRecord, RemoveRecord, Edit, SetCatalogue, SetPolicy,
     Reconnect

\* The cursor moves platform by platform and page by page.
LEMMA CursorFitsStep ==
  ASSUME TypeOK, CursorFits, [Next]_vars
  PROVE  CursorFits'
  <1>0. Fit(scan) /\ listing \in Seq(Rows) /\ seen \in Seq(Rows)
    BY DEF Fit, TypeOK
  <1>1. CASE Around \/ UNCHANGED vars
    <2>1. scan' = scan /\ (Scanning => resolved' = resolved)
      BY <1>1, AroundDoes, AroundResolves DEF vars
    <2> QED
      BY <2>1 DEF CursorFits, Scanning, Platform
  <1>2. CASE BeginScan
    <2>1. scan'.todo = Platforms /\ scan'.pending = <<>> /\ scan'.offset = 0
      BY <1>2, BeginScanDoes
    <2> QED
      BY <2>1, PlatformsAssumption DEF CursorFits
  <1>3. CASE ListPage
    <2>1. /\ Scanning /\ scan'.todo = scan.todo /\ scan.todo # <<>>
          /\ Platform \in resolved /\ resolved' = resolved
          /\ scan'.pending = Page /\ scan'.offset = scan.offset + Len(Page)
      BY <1>0, <1>3, ListPageDoes
    <2>2. Len(Page) \in Nat /\ scan.offset \in Nat
      BY <1>0, PageIs, ScanFields
    <2>3. Platform' = Platform
      BY <2>1 DEF Platform
    <2>4. Len(scan'.pending) <= scan'.offset
      BY <2>1, <2>2
    <2> QED
      BY <2>1, <2>3, <2>4 DEF CursorFits
  <1>4. ASSUME Scanning, scan.pending # <<>>, scan'.pending = Tail(scan.pending),
               scan'.todo = scan.todo, scan'.offset = scan.offset, resolved' = resolved
        PROVE  CursorFits'
    <2>1. Len(Tail(scan.pending)) = Len(scan.pending) - 1 /\ Len(scan.pending) \in Nat
      BY <1>0, <1>4, ScanFields, TailIs
    <2>2. scan.offset \in Nat /\ Len(scan.pending) <= scan.offset
      BY <1>0, <1>4, ScanFields DEF CursorFits
    <2>3. Len(scan'.pending) <= scan'.offset
      BY <1>4, <2>1, <2>2
    <2>4. scan.todo # <<>> /\ Platform \in resolved
      BY <1>0, <1>4, DueIs
    <2>5. Platform' = Platform
      BY <1>4 DEF Platform
    <2> QED
      BY <1>4, <2>3, <2>4, <2>5 DEF CursorFits
  <1>5. CASE PassRecord
    BY <1>0, <1>4, <1>5, PassRecordDoes
  <1>6. ASSUME NEW items, NEW skipped \in Nat, Take(items, skipped), RecordDue,
               items = <<>> \/ (\E x : items = <<x>>)
        PROVE  CursorFits'
    BY <1>0, <1>4, <1>6, TakeDoes
  <1>7. CASE TakeRecord
    BY <1>6, <1>7, TakeRecordDoes
  <1>8. CASE DownloadFails
    <2>1. Take(<<>>, 1) /\ RecordDue
      BY <1>8 DEF DownloadFails
    <2> QED
      BY <1>6, <2>1
  <1>9. ASSUME Scanning, scan.todo # <<>>, scan'.todo = Tail(scan.todo),
               scan'.pending = <<>>, scan'.offset = 0
        PROVE  CursorFits'
    BY <1>0, <1>9, TodoIs DEF CursorFits
  <1>10. CASE NextPlatform
    BY <1>0, <1>9, <1>10, NextPlatformDoes
  <1>11. CASE PassPlatform
    <2>1. scan'.pending = scan.pending /\ scan'.offset = scan.offset /\ Scanning
          /\ scan'.todo = Tail(scan.todo) /\ scan.todo # <<>> /\ Platform \notin resolved
      BY <1>0, <1>11, PassPlatformDoes
    <2>2. scan.pending = <<>> /\ scan.offset = 0
      BY <2>1 DEF CursorFits
    <2> QED
      BY <1>9, <2>1, <2>2
  <1>12. CASE Ending
    BY <1>12, EndingDoes DEF CursorFits
  <1> QED
    BY <1>1, <1>2, <1>3, <1>5, <1>7, <1>8, <1>10, <1>11, <1>12, Cases

-----------------------------------------------------------------------------
\* Items grounded in the same selections are of one catalogue for each
\* platform and of one entry for each game.
LEMMA OneCopyOfGrounded ==
  ASSUME NEW items, \A i \in items : Grounded(i)
  PROVE  OneCopy(items)
  <1> SUFFICES ASSUME NEW a \in items, NEW b \in items, a.set.platform = b.set.platform
               PROVE  a.set = b.set /\ (a.key = b.key => a.entry = b.entry)
    BY DEF OneCopy
  <1>1. PICK r \in AllOf(seen), c \in Catalogues :
          \E n \in Included(ImportDAT(c.games)) : Grounds(a, r, c, n)
    BY DEF Grounded
  <1>2. PICK n \in Included(ImportDAT(c.games)) : Grounds(a, r, c, n)
    BY <1>1
  <1>3. PICK s \in AllOf(seen), d \in Catalogues :
          \E m \in Included(ImportDAT(d.games)) : Grounds(b, s, d, m)
    BY DEF Grounded
  <1>4. PICK m \in Included(ImportDAT(d.games)) : Grounds(b, s, d, m)
    BY <1>3
  <1>5. /\ c.set.platform = r.slug /\ selections[r.slug] = Applied(c)
        /\ selections[r.slug] # NoCatalogue
        /\ a.set = c.set /\ a.entry = c.games[n].rom /\ a.key = c.games[n].key
    BY <1>2 DEF Grounds
  <1>6. /\ d.set.platform = s.slug /\ selections[s.slug] = Applied(d)
        /\ selections[s.slug] # NoCatalogue
        /\ b.set = d.set /\ b.entry = d.games[m].rom /\ b.key = d.games[m].key
    BY <1>4 DEF Grounds
  <1>7. r.slug = s.slug
    BY <1>5, <1>6
  <1>8. /\ Applied(c) = [set |-> c.set, entries |-> ImportDAT(c.games)]
        /\ Applied(d) = [set |-> d.set, entries |-> ImportDAT(d.games)]
    BY <1>5, <1>6, AppliedIs
  <1>9. c.set = d.set /\ ImportDAT(c.games) = ImportDAT(d.games)
    BY <1>5, <1>6, <1>7, <1>8
  <1> DEFINE cat == ImportDAT(c.games)
  <1>10. /\ Indices(cat) /\ n \in Included(cat) /\ m \in Included(cat)
         /\ \A k \in DOMAIN cat : cat[k] = c.games[k]
         /\ \A k \in DOMAIN cat : cat[k] = d.games[k]
    BY <1>2, <1>4, <1>9, ImportIs
  <1> HIDE DEF cat
  <1>11. n \in DOMAIN cat /\ m \in DOMAIN cat
    BY <1>10 DEF Included
  <1>12. ASSUME a.key = b.key PROVE a.entry = b.entry
    <2>1. cat[n].key = cat[m].key
      BY <1>5, <1>6, <1>10, <1>11, <1>12
    <2>2. n = m
      BY <1>10, <2>1, OneIncluded
    <2> QED
      BY <1>5, <1>6, <1>10, <1>11, <2>2
  <1> QED
    BY <1>5, <1>6, <1>9, <1>12

\* What may go out: the permitted holdings, each once and each vouched for.
LEMMA CurrentIs ==
  ASSUME TypeOK, ItemsGrounded, Scanning
  PROVE  LET current == Snapshot(policy, scan.items)
         IN /\ current \subseteq AllOf(scan.items)
            /\ FilesOf(current) = {i.file : i \in {j \in AllOf(scan.items) : Permits(policy, j)}}
            /\ \A i \in current : Permits(policy, i) /\ Grounded(i) /\ Sized(i)
            /\ \A i, j \in current : i.file = j.file => i = j
  <1>1. scan.items \in Seq(AllOf(scan.items))
    BY ScanFields DEF TypeOK, Fit
  <1>2. DOMAIN scan.items \subseteq Nat
    BY <1>1
  <1> DEFINE current == Snapshot(policy, scan.items)
  <1>3. /\ current \subseteq AllOf(scan.items)
        /\ \A i \in current : Permits(policy, i)
        /\ \A i, j \in current : i.file = j.file => i = j
        /\ FilesOf(current) = {i.file : i \in {j \in AllOf(scan.items) : Permits(policy, j)}}
    BY <1>2, SnapshotIs
  <1> HIDE DEF current
  <1>4. \A i \in current : Grounded(i) /\ Sized(i)
    BY <1>3 DEF ItemsGrounded, Grounded
  <1> QED
    BY <1>3, <1>4 DEF current

\* In full or as a delta, what is sent leaves the Swarm with the snapshot.
LEMMA ToldIs ==
  ASSUME TypeOK, ItemsGrounded, HeldFits, PublishSnapshot \/ PublishDelta
  PROVE  Scanning /\ held' = Snapshot(policy, scan.items)
  <1>1. CASE PublishSnapshot
    BY <1>1 DEF PublishSnapshot, Scanned
  <1>2. CASE PublishDelta
    <2> DEFINE current == Snapshot(policy, scan.items)
    <2>1. /\ Scanning /\ held # NotPublished
          /\ held' = Apply(held, Upserts(held, current), Tombstones(held, current))
      BY <1>2 DEF PublishDelta, Scanned
    <2>2. /\ \A i \in current : Sized(i)
          /\ \A i, j \in current : i.file = j.file => i = j
      BY <2>1, CurrentIs
    <2>3. /\ \A i \in held : Sized(i)
          /\ \A i, j \in held : i.file = j.file => i = j
      BY <2>1 DEF HeldFits
    <2> HIDE DEF current
    <2>4. \A i \in held \cup current : Sized(i)
      BY <2>2, <2>3
    <2>5. Apply(held, Upserts(held, current), Tombstones(held, current)) = current
      BY <2>2, <2>3, <2>4, DeltaGivesCurrent
    <2> QED
      BY <2>1, <2>5 DEF current
  <1> QED
    BY <1>1, <1>2

\* What is held changes only by what is sent.
LEMMA HeldFitsStep ==
  ASSUME TypeOK, ItemsGrounded, HeldFits, [Next]_vars
  PROVE  HeldFits'
  <1>1. CASE PublishSnapshot \/ PublishDelta
    <2> DEFINE current == Snapshot(policy, scan.items)
    <2>1. Scanning /\ held' = current
      BY <1>1, ToldIs
    <2>2. /\ \A i \in current : Grounded(i) /\ Sized(i)
          /\ \A i, j \in current : i.file = j.file => i = j
      BY <2>1, CurrentIs
    <2>3. OneCopy(current)
      BY <2>2, OneCopyOfGrounded
    <2> HIDE DEF current
    <2>4. PICK h : h = current
      OBVIOUS
    <2>5. /\ \A i \in h : Sized(i)
          /\ \A i, j \in h : i.file = j.file => i = j
          /\ OneCopy(h) /\ held' = h
      BY <2>1, <2>2, <2>3, <2>4
    <2> QED
      BY <2>5 DEF HeldFits, Sized, Fields, OneCopy
  <1>2. CASE ~ (PublishSnapshot \/ PublishDelta)
    <2>1. held' = held
      BY <1>2 DEF Next, Library, AddRecord, RemoveRecord, Edit, Owner, SetCatalogue,
         SetPolicy, Reconnect, BeginScan, ListPage, ListFails, TakeRecord,
         DownloadFails, Take, PassRecord, NextPlatform, PassPlatform, Publish,
         PublishRefused, vars
    <2> QED
      BY <2>1 DEF HeldFits, Sized, Fields, OneCopy
  <1> QED
    BY <1>1, <1>2

-----------------------------------------------------------------------------
\* The scan goes on and has met what it had met.
LEMMA SeenMoves ==
  ASSUME SeenFits, Scanning, disturbed' = disturbed, listing' = listing, seen' = seen,
         \A n \in DOMAIN listing : Met(n)' <=> Met(n),
         ~ disturbed => scan'.offset <= Len(listing),
         ~ disturbed /\ scan'.todo # <<>> /\ ~ scan'.more => scan'.offset = Len(listing),
         ~ disturbed => \A k \in DOMAIN scan'.pending :
                          scan'.pending[k] = listing[Behind' + k]
  PROVE  SeenFits'
  <1> SUFFICES ASSUME ~ disturbed PROVE SeenFits'
    BY DEF SeenFits
  <1>1. /\ \A k \in DOMAIN seen : \E n \in DOMAIN listing : seen[k] = listing[n] /\ Met(n)
        /\ \A n \in DOMAIN listing : Met(n) => \E k \in DOMAIN seen : seen[k] = listing[n]
        /\ \A k, l \in DOMAIN seen : seen[k] = seen[l] => k = l
    BY DEF SeenFits
  <1>2. /\ \A k \in DOMAIN seen' : \E n \in DOMAIN listing' : seen'[k] = listing'[n] /\ Met(n)'
        /\ \A n \in DOMAIN listing' : Met(n)' => \E k \in DOMAIN seen' : seen'[k] = listing'[n]
        /\ \A k, l \in DOMAIN seen' : seen'[k] = seen'[l] => k = l
    BY <1>1
  <1> QED
    BY <1>2 DEF SeenFits

\* Where the record at the head of a page is in the listing.
LEMMA NextIs ==
  ASSUME TypeOK, CursorFits, SeenFits, Scanning, ~ disturbed, scan.pending # <<>>
  PROVE  LET h == Behind + 1
         IN /\ Behind \in Nat /\ h \in DOMAIN listing /\ listing[h] = Head(scan.pending)
            /\ scan.offset - Len(Tail(scan.pending)) = h
            /\ \A k \in DOMAIN Tail(scan.pending) :
                 Tail(scan.pending)[k] = listing[h + k]
  <1> DEFINE s == scan.pending
             t == Tail(scan.pending)
             o == scan.offset
             l == Len(scan.pending)
             z == Len(listing)
  <1>1. /\ s \in Seq(Rows) /\ t \in Seq(Rows) /\ Len(t) = l - 1 /\ l \in Nat \ {0}
        /\ Head(s) = s[1] /\ \A i \in 1..(l - 1) : t[i] = s[i + 1]
    BY ScanFields, TailIs DEF TypeOK, Fit
  <1>2. o \in Nat /\ z \in Nat /\ DOMAIN listing = 1..z
    BY ScanFields DEF TypeOK, Fit
  <1>3. l <= o /\ o <= z /\ Behind = o - l
    BY DEF CursorFits, SeenFits, Behind
  <1>4. \A k \in DOMAIN s : s[k] = listing[Behind + k]
    BY DEF SeenFits
  <1>5. DOMAIN s = 1..l
    BY <1>1
  <1> HIDE DEF s, t, o, l, z
  <1>6. DOMAIN t = 1..(l - 1)
    BY <1>1
  <1>7. Behind \in Nat /\ Behind + 1 \in DOMAIN listing /\ o - Len(t) = Behind + 1
    BY <1>1, <1>2, <1>3
  <1>8. listing[Behind + 1] = Head(s)
    BY <1>1, <1>4, <1>5
  <1>9. ASSUME NEW k \in DOMAIN t PROVE t[k] = listing[(Behind + 1) + k]
    <2>1. k + 1 \in DOMAIN s /\ t[k] = s[k + 1] /\ Behind + (k + 1) = (Behind + 1) + k
      <3>1. k \in 1..(l - 1)
        BY <1>6
      <3>2. k + 1 \in 1..l /\ k \in Nat
        BY <1>1, <3>1
      <3>3. t[k] = s[k + 1]
        BY <1>1, <3>1
      <3> QED
        BY <1>5, <1>7, <3>2, <3>3
    <2> QED
      BY <1>4, <2>1
  <1> QED
    BY <1>7, <1>8, <1>9 DEF s, t, o

\* An undisturbed scan meets the listing record by record.
LEMMA SeenFitsStep ==
  ASSUME TypeOK, CursorFits, SeenFits, [Next]_vars
  PROVE  SeenFits'
  <1>0. Fit(scan) /\ listing \in Seq(Rows) /\ seen \in Seq(Rows)
        /\ DOMAIN listing \subseteq Nat \ {0} /\ scan.offset \in Nat
        /\ Len(listing) \in Nat /\ DOMAIN listing = 1..Len(listing)
    <2>1. Fit(scan) /\ listing \in Seq(Rows) /\ seen \in Seq(Rows)
      BY DEF Fit, TypeOK
    <2> QED
      BY <2>1, ScanFields
  <1>1. CASE Library
    <2>1. scan' = scan /\ (Scanning => disturbed')
      BY <1>1 DEF Library, AddRecord, RemoveRecord, Edit
    <2> QED
      BY <2>1 DEF SeenFits, Scanning
  <1>2. CASE (Around /\ ~ Library) \/ UNCHANGED vars
    <2>1. UNCHANGED <<listing, scan, disturbed, seen>> /\ (Scanning => resolved' = resolved)
      BY <1>2, AroundResolves DEF Around, SetCatalogue, SetPolicy, Reconnect, vars, env
    <2> QED
      BY <2>1 DEF SeenFits, Scanning, Met, Behind, Platform
  <1>3. CASE BeginScan
    <2>1. /\ scan'.todo = Platforms /\ scan'.pending = <<>> /\ scan'.offset = 0
          /\ scan'.more = TRUE /\ seen' = <<>> /\ listing' = listing
          /\ resolved' = resolved
      BY <1>3, BeginScanDoes DEF env
    <2>2. AllOf(Platforms) = PlatformSet
      BY DEF AllOf, PlatformSet
    <2>3. Behind' = 0
      <3>1. Len(scan'.pending) = 0
        BY <2>1
      <3>2. scan'.offset = 0
        BY <2>1
      <3> QED
        BY <3>1, <3>2 DEF Behind
    <2>4. \A n \in DOMAIN listing : ~ (n <= 0)
      BY <1>0
    <2>5. \A n \in DOMAIN listing' : ~ Met(n)'
      BY <2>1, <2>2, <2>3, <2>4 DEF Met
    <2> QED
      BY <1>0, <2>1, <2>5 DEF SeenFits
  <1>4. CASE ListPage
    <2>1. /\ Scanning /\ scan'.todo = scan.todo /\ scan.todo # <<>> /\ scan.pending = <<>>
          /\ scan'.pending = Page /\ scan'.offset = scan.offset + Len(Page)
          /\ (scan'.more = TRUE <=> HasMore /\ Page # <<>>) /\ seen' = seen
          /\ listing' = listing /\ disturbed' = disturbed /\ resolved' = resolved
      BY <1>0, <1>4, ListPageDoes DEF env
    <2>2. Page \in Seq(Rows) /\ Len(Page) \in Nat
      BY <1>0, PageIs
    <2>3. Behind = scan.offset /\ Behind' = scan.offset
      BY <1>0, <2>1, <2>2 DEF Behind
    <2>4. \A n \in DOMAIN listing : Met(n)' <=> Met(n)
      BY <2>1, <2>3 DEF Met, Platform
    <2>5. ~ disturbed =>
            /\ scan.offset + Len(Page) <= Len(listing)
            /\ \A k \in DOMAIN Page : Page[k] = listing[scan.offset + k]
            /\ (Page = <<>> \/ ~ HasMore) => scan.offset + Len(Page) = Len(listing)
      BY <1>0, <2>1, PageIs DEF SeenFits
    <2> QED
      BY <2>1, <2>3, <2>4, <2>5, SeenMoves
  <1>5. CASE PassRecord
    <2>1. /\ Scanning /\ scan'.todo = scan.todo /\ scan.pending # <<>>
          /\ Head(scan.pending).slug # Platform
          /\ scan'.pending = Tail(scan.pending) /\ scan'.offset = scan.offset
          /\ scan'.more = scan.more /\ seen' = seen
          /\ listing' = listing /\ disturbed' = disturbed /\ resolved' = resolved
      BY <1>0, <1>5, PassRecordDoes DEF env
    <2> SUFFICES ASSUME ~ disturbed PROVE SeenFits'
      BY <2>1 DEF SeenFits
    <2>2. /\ Behind \in Nat /\ Behind + 1 \in DOMAIN listing
          /\ listing[Behind + 1] = Head(scan.pending)
          /\ scan.offset - Len(Tail(scan.pending)) = Behind + 1
          /\ \A k \in DOMAIN Tail(scan.pending) :
               Tail(scan.pending)[k] = listing[(Behind + 1) + k]
      BY <2>1, NextIs
    <2>3. Behind' = Behind + 1
      BY <2>1, <2>2 DEF Behind
    <2>4. \A n \in DOMAIN listing : Met(n)' <=> Met(n)
      <3> TAKE n \in DOMAIN listing
      <3>1. n <= Behind + 1 <=> n <= Behind \/ n = Behind + 1
        BY <1>0, <2>2
      <3>2. Platform' = Platform
        BY <2>1 DEF Platform
      <3>3. listing[n].slug = Platform /\ n <= Behind' <=> listing[n].slug = Platform /\ n <= Behind
        BY <2>1, <2>2, <2>3, <3>1
      <3> QED
        BY <2>1, <3>2, <3>3 DEF Met
    <2> QED
      BY <2>1, <2>2, <2>3, <2>4, SeenMoves DEF SeenFits
  <1>6. ASSUME NEW items, NEW skipped \in Nat, Take(items, skipped), RecordDue,
               items = <<>> \/ (\E x : items = <<x>>), disturbed' = disturbed
        PROVE  SeenFits'
    <2>1. /\ Scanning /\ scan'.todo = scan.todo /\ scan.pending # <<>>
          /\ Head(scan.pending).slug = Platform
          /\ scan'.pending = Tail(scan.pending) /\ scan'.offset = scan.offset
          /\ scan'.more = scan.more /\ seen' = Append(seen, Head(scan.pending))
          /\ listing' = listing /\ resolved' = resolved
      BY <1>0, <1>6, TakeDoes DEF env
    <2> SUFFICES ASSUME ~ disturbed PROVE SeenFits'
      BY <1>6 DEF SeenFits
    <2> DEFINE h == Behind + 1
               z == Len(seen)
    <2>2. /\ Behind \in Nat /\ h \in DOMAIN listing
          /\ listing[h] = Head(scan.pending)
          /\ scan.offset - Len(Tail(scan.pending)) = h
          /\ \A k \in DOMAIN Tail(scan.pending) :
               Tail(scan.pending)[k] = listing[h + k]
      BY <2>1, NextIs
    <2>3. Behind' = h /\ ~ (h <= Behind)
      BY <2>1, <2>2 DEF Behind
    <2>4. /\ z \in Nat /\ DOMAIN seen = 1..z /\ DOMAIN seen' = 1..(z + 1)
          /\ \A k \in 1..z : seen'[k] = seen[k]
          /\ seen'[z + 1] = listing[h]
      <3>1. Head(scan.pending) \in Rows
        BY <1>0, <2>1, DueIs
      <3> QED
        BY <1>0, <2>1, <2>2, <3>1
    <2>5. scan.todo # <<>> /\ Platform \in AllOf(scan.todo)
      <3>1. scan.todo # <<>>
        BY <1>0, <2>1, DueIs
      <3> QED
        BY <1>0, <2>1, <3>1, TodoIs
    <2>6. ~ Met(h)
      BY <2>1, <2>2, <2>3, <2>5 DEF Met
    <2>7. \A n \in DOMAIN listing : Met(n)' <=> Met(n) \/ n = h
      <3> TAKE n \in DOMAIN listing
      <3>1. n <= h <=> n <= Behind \/ n = h
        BY <1>0, <2>2
      <3>2. Platform' = Platform
        BY <2>1 DEF Platform
      <3>3. listing[n].slug = Platform /\ n <= Behind'
              <=> (listing[n].slug = Platform /\ n <= Behind) \/ n = h
        BY <2>1, <2>2, <2>3, <3>1
      <3> QED
        BY <2>1, <2>5, <3>2, <3>3 DEF Met
    <2>8. /\ \A k \in DOMAIN seen : \E n \in DOMAIN listing : seen[k] = listing[n] /\ Met(n)
          /\ \A n \in DOMAIN listing : Met(n) => \E k \in DOMAIN seen : seen[k] = listing[n]
          /\ \A k, l \in DOMAIN seen : seen[k] = seen[l] => k = l
      BY <2>1 DEF SeenFits
    <2> HIDE DEF z, h
    <2>9. /\ \A k \in DOMAIN seen' : k \in DOMAIN seen \/ k = z + 1
          /\ DOMAIN seen \subseteq DOMAIN seen' /\ z + 1 \in DOMAIN seen'
          /\ \A k \in DOMAIN seen : seen'[k] = seen[k]
      BY <2>4
    <2>10. \A k \in DOMAIN seen : seen[k] # listing[h]
      <3> SUFFICES ASSUME NEW k \in DOMAIN seen, seen[k] = listing[h] PROVE FALSE
        OBVIOUS
      <3>1. PICK n \in DOMAIN listing : seen[k] = listing[n] /\ Met(n)
        BY <2>8
      <3>2. n = h
        BY <2>2, <3>1 DEF TypeOK, IdsApart
      <3> QED
        BY <2>6, <3>1, <3>2
    <2>11. \A k \in DOMAIN seen' : \E n \in DOMAIN listing : seen'[k] = listing[n] /\ Met(n)'
      BY <2>2, <2>4, <2>7, <2>8, <2>9
    <2>12. \A n \in DOMAIN listing : Met(n)' => \E k \in DOMAIN seen' : seen'[k] = listing[n]
      BY <2>4, <2>7, <2>8, <2>9
    <2>13. \A k, l \in DOMAIN seen' : seen'[k] = seen'[l] => k = l
      <3> TAKE k, l \in DOMAIN seen'
      <3> HAVE seen'[k] = seen'[l]
      <3>1. CASE k \in DOMAIN seen /\ l \in DOMAIN seen
        BY <2>8, <2>9, <3>1
      <3>2. CASE k \notin DOMAIN seen /\ l \in DOMAIN seen
        BY <2>4, <2>9, <2>10, <3>2
      <3>3. CASE k \in DOMAIN seen /\ l \notin DOMAIN seen
        BY <2>4, <2>9, <2>10, <3>3
      <3>4. CASE k \notin DOMAIN seen /\ l \notin DOMAIN seen
        BY <2>9, <3>4
      <3> QED
        BY <3>1, <3>2, <3>3, <3>4
    <2>14. /\ scan'.offset <= Len(listing')
           /\ scan'.todo # <<>> /\ ~ scan'.more => scan'.offset = Len(listing')
           /\ \A k \in DOMAIN scan'.pending : scan'.pending[k] = listing'[Behind' + k]
      BY <2>1, <2>2, <2>3 DEF SeenFits
    <2> QED
      BY <2>1, <2>11, <2>12, <2>13, <2>14 DEF SeenFits
  <1>7. CASE TakeRecord
    BY <1>6, <1>7, TakeRecordDoes
  <1>8. CASE DownloadFails
    BY <1>8 DEF DownloadFails, SeenFits
  <1>9. ASSUME Scanning, scan.todo # <<>>, scan'.todo = Tail(scan.todo),
               scan.pending = <<>>, scan'.pending = <<>>, scan'.offset = 0,
               UNCHANGED <<listing, disturbed, seen, resolved>>,
               Platform \in resolved => ~ scan.more,
               scan'.more = TRUE \/ (scan'.more = scan.more /\ scan.offset = 0)
        PROVE  SeenFits'
    <2> SUFFICES ASSUME ~ disturbed PROVE SeenFits'
      BY <1>9 DEF SeenFits
    <2>1. /\ Platform \in PlatformSet /\ Platform \notin AllOf(Tail(scan.todo))
          /\ AllOf(scan.todo) = AllOf(Tail(scan.todo)) \cup {Platform}
      BY <1>0, <1>9, TodoIs
    <2>2. Behind = scan.offset /\ Behind' = 0
      <3>1. Len(scan.pending) = 0 /\ Len(scan'.pending) = 0
        BY <1>9
      <3>2. scan'.offset = 0 /\ scan.offset \in Nat
        BY <1>0, <1>9
      <3> QED
        BY <3>1, <3>2 DEF Behind
    <2>3. Platform \in resolved => scan.offset = Len(listing)
      BY <1>9 DEF SeenFits
    <2>4. Platform \notin resolved => scan.offset = 0
      BY <1>9 DEF CursorFits
    <2>5. \A n \in DOMAIN listing : ~ (n <= 0) /\ n <= Len(listing)
      BY <1>0
    <2>6. \A n \in DOMAIN listing : Met(n)' <=> Met(n)
      <3> TAKE n \in DOMAIN listing
      <3>1. Met(n)' <=> listing[n].slug \in (PlatformSet \cap resolved) \ AllOf(Tail(scan.todo))
        BY <1>9, <2>2, <2>5 DEF Met
      <3>2. CASE Platform \in resolved
        BY <1>9, <2>1, <2>2, <2>3, <2>5, <3>1, <3>2 DEF Met
      <3>3. CASE Platform \notin resolved
        BY <1>9, <2>1, <2>2, <2>4, <2>5, <3>1, <3>3 DEF Met
      <3> QED
        BY <3>2, <3>3
    <2>7. scan'.todo # <<>> /\ ~ scan'.more => scan'.offset = Len(listing)
      BY <1>9 DEF SeenFits
    <2> QED
      BY <1>0, <1>9, <2>6, <2>7, SeenMoves
  <1>10. CASE NextPlatform
    <2>1. /\ Scanning /\ scan'.todo = Tail(scan.todo) /\ scan.todo # <<>>
          /\ scan.pending = <<>> /\ ~ scan.more /\ scan'.pending = <<>>
          /\ scan'.offset = 0 /\ scan'.more = TRUE
          /\ UNCHANGED <<listing, disturbed, seen, resolved>>
      BY <1>0, <1>10, NextPlatformDoes DEF env
    <2> QED
      BY <1>9, <2>1
  <1>11. CASE PassPlatform
    <2>1. /\ Scanning /\ scan'.todo = Tail(scan.todo) /\ scan.todo # <<>>
          /\ Platform \notin resolved /\ scan'.pending = scan.pending
          /\ scan'.offset = scan.offset /\ scan'.more = scan.more
          /\ UNCHANGED <<listing, disturbed, seen, resolved>>
      BY <1>0, <1>11, PassPlatformDoes DEF env
    <2>2. scan.pending = <<>> /\ scan.offset = 0
      BY <2>1 DEF CursorFits
    <2> QED
      BY <1>9, <2>1, <2>2
  <1>12. CASE Ending
    BY <1>12, EndingDoes DEF SeenFits
  <1> QED
    BY <1>1, <1>2, <1>3, <1>4, <1>5, <1>7, <1>8, <1>10, <1>11, <1>12, Cases
-----------------------------------------------------------------------------
\* The invariant holds at the start, and every step keeps it.
LEMMA HoldingsInit == Init => IInv
  <1> SUFFICES ASSUME Init PROVE IInv
    OBVIOUS
  <1>1. TypeOK
    BY TypeInit
  <1>2. ~ Scanning /\ held = NotPublished
    BY IdleIs DEF Init, Scanning
  <1> QED
    BY <1>1, <1>2 DEF IInv, ItemsGrounded, HeldFits, CursorFits, SeenFits

LEMMA HoldingsStep == IInv /\ [Next]_vars => IInv'
  BY TypeStep, ItemsGroundedStep, HeldFitsStep, CursorFitsStep, SeenFitsStep DEF IInv

\* The invariant of FilteredPublication: the types, where the items come
\* from, what is held, and what the scan has met of the listing.
THEOREM HoldingsInvariant == Spec => []IInv
  BY HoldingsInit, HoldingsStep, PTL DEF Spec

\* The Swarm never holds two entries of one catalogue for one game, nor one
\* catalogue in two versions (profile.go, Apply; publish.go, Diff).
THEOREM OneGameIsOneRom == Spec => []OneGameOneRom
  <1>1. IInv => OneGameOneRom
    BY DEF IInv, HeldFits, OneCopy, OneGameOneRom
  <1> QED
    BY <1>1, HoldingsInvariant, PTL

\* A scan of a library nobody touches meets every record of every resolved
\* platform exactly once (scan.go, ScanPlatform).
THEOREM LibrarySeenWhole == Spec => []StillLibraryIsSeenWhole
  <1>1. ASSUME IInv PROVE StillLibraryIsSeenWhole
    <2> SUFFICES ASSUME Scanned, ~ disturbed, NEW n \in DOMAIN listing
                 PROVE  Cardinality({m \in DOMAIN seen : seen[m] = listing[n]}) =
                          IF listing[n].slug \in PlatformSet \cap resolved THEN 1 ELSE 0
      BY DEF StillLibraryIsSeenWhole
    <2> DEFINE at == {m \in DOMAIN seen : seen[m] = listing[n]}
    <2>1. /\ \A k \in DOMAIN seen : \E m \in DOMAIN listing : seen[k] = listing[m] /\ Met(m)
          /\ \A m \in DOMAIN listing : Met(m) => \E k \in DOMAIN seen : seen[k] = listing[m]
          /\ \A k, l \in DOMAIN seen : seen[k] = seen[l] => k = l
      BY <1>1 DEF IInv, SeenFits, Scanned
    <2>2. AllOf(scan.todo) = {}
      BY DEF Scanned, AllOf
    <2>3. \A m \in DOMAIN listing : Met(m) <=> listing[m].slug \in PlatformSet \cap resolved
      BY <2>2 DEF Met, Scanned
    <2>4. CASE Met(n)
      <3>1. PICK k \in DOMAIN seen : seen[k] = listing[n]
        BY <2>1, <2>4
      <3>2. at = {k}
        BY <2>1, <3>1
      <3>3. Cardinality(at) = 1
        BY <3>2, FS_Singleton
      <3> QED
        BY <2>3, <2>4, <3>3
    <2>5. CASE ~ Met(n)
      <3>1. ASSUME NEW k \in DOMAIN seen, seen[k] = listing[n] PROVE FALSE
        <4>1. PICK m \in DOMAIN listing : seen[k] = listing[m] /\ Met(m)
          BY <2>1
        <4>2. m = n
          BY <1>1, <3>1, <4>1 DEF IInv, TypeOK, IdsApart
        <4> QED
          BY <2>5, <4>1, <4>2
      <3>2. at = {}
        BY <3>1
      <3>3. Cardinality(at) = 0
        BY <3>2, FS_EmptySet
      <3> QED
        BY <2>3, <2>5, <3>3
    <2> QED
      BY <2>4, <2>5
  <1>2. IInv => StillLibraryIsSeenWhole
    BY <1>1
  <1> QED
    BY <1>2, HoldingsInvariant, PTL

\* What is sent is permitted and grounded.
LEMMA VerifiedStep ==
  ASSUME IInv, Told
  PROVE  \A item \in held' :
           /\ Permits(policy, item)
           /\ \E r \in AllOf(seen), c \in Catalogues :
                /\ selections[r.slug] = Applied(c) /\ item.set = c.set
                /\ \E x \in Analyze(r.file), n \in DOMAIN c.games :
                     /\ x.canonical.sha256 = item.file
                     /\ c.games[n].rom = item.entry
                     /\ Vouches(c.games[n], x.canonical)
  <1> TAKE item \in held'
  <1>1. Scanning /\ item \in Snapshot(policy, scan.items)
    BY ToldIs DEF IInv, Told
  <1>2. Permits(policy, item) /\ Grounded(item)
    BY <1>1, CurrentIs DEF IInv
  <1>3. PICK r \in AllOf(seen), c \in Catalogues :
          \E n \in Included(ImportDAT(c.games)) : Grounds(item, r, c, n)
    BY <1>2 DEF Grounded
  <1>4. PICK n \in Included(ImportDAT(c.games)) : Grounds(item, r, c, n)
    BY <1>3
  <1>5. n \in DOMAIN c.games
    BY <1>4, ImportIs DEF Included
  <1>6. PICK x \in Analyze(r.file) :
          x.canonical.sha256 = item.file /\ Vouches(c.games[n], x.canonical)
    BY <1>4 DEF Grounds
  <1>7. /\ selections[r.slug] = Applied(c) /\ item.set = c.set
        /\ c.games[n].rom = item.entry
    BY <1>4 DEF Grounds
  <1> QED
    BY <1>2, <1>3, <1>5, <1>6, <1>7

\* Whatever the Swarm is told it has, a record the scan met holds and a
\* catalogue of the Host vouches for (publish.go, Permits).
THEOREM OnlyVerifiedIsPublished == Spec => OnlyVerifiedIsHeld
  <1>1. ASSUME IInv, [Next]_vars
        PROVE  [Told => \A item \in held' :
                 /\ Permits(policy, item)
                 /\ \E r \in AllOf(seen), c \in Catalogues :
                      /\ selections[r.slug] = Applied(c) /\ item.set = c.set
                      /\ \E x \in Analyze(r.file), n \in DOMAIN c.games :
                           /\ x.canonical.sha256 = item.file
                           /\ c.games[n].rom = item.entry
                           /\ Vouches(c.games[n], x.canonical)]_vars
    BY <1>1, VerifiedStep
  <1> QED
    BY <1>1, HoldingsInvariant, PTL DEF Spec, OnlyVerifiedIsHeld

\* What is sent is the permitted holdings, each once.
LEMMA WholeStep ==
  ASSUME IInv, Told
  PROVE  /\ FilesOf(held') = {i.file : i \in {j \in AllOf(scan.items) : Permits(policy, j)}}
         /\ Cardinality(held') = Cardinality(FilesOf(held'))
         /\ held' \subseteq AllOf(scan.items)
  <1> DEFINE h == held'
  <1>1. Scanning /\ h = Snapshot(policy, scan.items)
    BY ToldIs DEF IInv, Told
  <1>2. /\ h \subseteq AllOf(scan.items)
        /\ FilesOf(h) = {i.file : i \in {j \in AllOf(scan.items) : Permits(policy, j)}}
        /\ \A i, j \in h : i.file = j.file => i = j
    BY <1>1, CurrentIs DEF IInv
  <1>3. IsFiniteSet(AllOf(scan.items))
    <2> DEFINE s == scan.items
    <2>1. s \in Seq(AllOf(s))
      BY ScanFields DEF IInv, TypeOK, Fit
    <2>2. Len(s) \in Nat /\ DOMAIN s = 1..Len(s)
      BY <2>1
    <2>3. IsFiniteSet(DOMAIN s)
      BY <2>2, FS_Interval
    <2>4. s \in Surjection(DOMAIN s, AllOf(s))
      <3>1. s \in [DOMAIN s -> AllOf(s)]
        BY <2>1
      <3> QED
        BY <3>1 DEF Surjection, AllOf
    <2> QED
      BY <2>3, <2>4, FS_Surjection
  <1>4. IsFiniteSet(h)
    BY <1>2, <1>3, FS_Subset
  <1> HIDE DEF h
  <1>5. Cardinality(h) = Cardinality(FilesOf(h))
    <2> DEFINE f == [i \in h |-> i.file]
    <2>1. f \in Bijection(h, FilesOf(h))
      BY <1>2 DEF Bijection, Injection, Surjection, IsInjective, FilesOf
    <2> QED
      BY <1>4, <2>1, FS_Bijection DEF ExistsBijection
  <1> QED
    BY <1>2, <1>5 DEF h

\* In full or as a delta, the Swarm ends up with exactly the permitted
\* holdings (publish.go, Snapshot and Diff).
THEOREM DeltaIsWhole == Spec => DeltaTellsTheWhole
  <1>1. ASSUME IInv, [Next]_vars
        PROVE  [Told => /\ FilesOf(held') = {i.file : i \in {j \in AllOf(scan.items) : Permits(policy, j)}}
                        /\ Cardinality(held') = Cardinality(FilesOf(held'))
                        /\ held' \subseteq AllOf(scan.items)]_vars
    BY <1>1, WholeStep
  <1> QED
    BY <1>1, HoldingsInvariant, PTL DEF Spec, DeltaTellsTheWhole

-----------------------------------------------------------------------------
(* Preservation. *)

RecordsAreRecords ==
  /\ records \in [Files -> SUBSET Replica]
  /\ now \in Nat

\* The input is made of records of known Bridges, whatever arrives in what
\* order, and the clock is a number.
THEOREM InputIsTyped == InputSpec => []RecordsAreRecords
<1>1. InputInit => RecordsAreRecords
  BY DEF InputInit, RecordsAreRecords
<1>2. RecordsAreRecords /\ [InputNext]_input => RecordsAreRecords'
  <2> SUFFICES ASSUME RecordsAreRecords, [InputNext]_input PROVE RecordsAreRecords'
    OBVIOUS
  <2>1. CASE Tick
    BY <2>1 DEF Tick, RecordsAreRecords
  <2>2. CASE Report
    BY <2>2 DEF Report, RecordsAreRecords
  <2>3. CASE UNCHANGED input
    BY <2>3 DEF input, RecordsAreRecords
  <2> QED
    BY <2>1, <2>2, <2>3 DEF InputNext
<1> QED
  BY <1>1, <1>2, PTL DEF InputSpec

-----------------------------------------------------------------------------
\* A Bridge stands for one failure domain at most, and for one as soon as it
\* has a recent claim, whatever its records say of the domain.
LEMMA StandsForOne ==
  ASSUME NEW rs \in SUBSET Replica, NEW b
  PROVE  /\ \A x, y \in StandsFor(rs, b) : x = y
         /\ StandsFor(rs, b) = {} <=> RecentDomains(rs, b) = {}
<1> DEFINE recent == RecentDomains(rs, b)
<1>1. recent \subseteq Domains \cup {"unknown"}
  BY DEF RecentDomains, OfBridge, Bucket, Replica
<1>2. IsFiniteSet(Domains \cup {"unknown"})
  BY SwarmAssumption, FS_AddElement
<1>3. IsFiniteSet(recent) /\ Cardinality(recent) \in Nat
  BY <1>1, <1>2, FS_Subset, FS_CardinalityType
<1>4. CASE Cardinality(recent) > 1
  <2>1. recent # {}
    BY <1>4, FS_EmptySet
  <2> QED
    BY <1>4, <2>1 DEF StandsFor
<1>5. CASE Cardinality(recent) = 1
  <2>1. PICK x : recent = {x}
    BY <1>3, <1>5, FS_Singleton
  <2> QED
    BY <1>5, <2>1 DEF StandsFor
<1>6. CASE Cardinality(recent) = 0
  <2>1. recent = {}
    BY <1>3, <1>6, FS_EmptySet
  <2> QED
    BY <1>6, <2>1 DEF StandsFor
<1> QED
  BY <1>3, <1>4, <1>5, <1>6

\* The Bridges whose copy is proven are the holders with a recent claim.
LEMMA ProvenAreRecentHolders ==
  ASSUME RecordsAreRecords, NEW f \in Files
  PROVE  Proven(f) = {b \in Holders(records[f]) : RecentDomains(records[f], b) # {}}
<1> DEFINE rs == records[f]
<1>1. rs \subseteq Replica /\ now \in Nat
  BY DEF RecordsAreRecords
<1>2. ASSUME NEW r \in rs
      PROVE  RecentlyRevalidated(r) <=>
               r.verifiedAt \in 1..now /\ now - r.verifiedAt <= Window
  <2>1. r.verifiedAt \in Nat
    BY <1>1, BoundsAssumption DEF Replica
  <2> QED
    BY <1>1, <2>1, RulesAssumption DEF RecentlyRevalidated
<1>3. ASSUME NEW b \in Aliases
      PROVE  RecentDomains(rs, b) # {} <=>
               \E r \in rs : /\ r.alias = b /\ r.availability = "available"
                             /\ RecentlyRevalidated(r)
  BY DEF RecentDomains, OfBridge, CountsTowardResilience
<1>4. ASSUME NEW b \in Aliases, RecentDomains(rs, b) # {}
      PROVE  Holds(rs, b) <=> ~ \E r \in rs : r.alias = b /\ r.availability = "removed"
  BY <1>3, <1>4 DEF Holds, OfBridge
<1> QED
  BY <1>2, <1>3, <1>4 DEF Proven, Holders

\* Who is proven is online, and who is online holds the file.
LEMMA ProvenAreOnline ==
  ASSUME RecordsAreRecords, NEW f \in Files
  PROVE  /\ Proven(f) \subseteq Online(records[f])
         /\ Online(records[f]) \subseteq Holders(records[f])
         /\ IsFiniteSet(Holders(records[f])) /\ IsFiniteSet(Online(records[f]))
         /\ IsFiniteSet(Proven(f))
<1>1. Proven(f) \subseteq Online(records[f])
  BY ProvenAreRecentHolders DEF Online, RecentDomains
<1>2. Online(records[f]) \subseteq Holders(records[f]) /\ Holders(records[f]) \subseteq Aliases
  BY DEF Online, Holders
<1> QED
  BY <1>1, <1>2, SwarmAssumption, FS_Subset

\* Taking each proven Bridge to its domain reaches every independent replica.
LEMMA OneReplicaPerBridge ==
  ASSUME RecordsAreRecords, NEW f \in Files
  PROVE  /\ IsFiniteSet(Independent(records[f]))
         /\ Cardinality(Independent(records[f])) <= Cardinality(Proven(f))
         /\ Independent(records[f]) = {} <=> Proven(f) = {}
<1> DEFINE rs == records[f]
           domain == [b \in Proven(f) |-> CHOOSE x \in StandsFor(rs, b) : TRUE]
<1>1. rs \in SUBSET Replica
  BY DEF RecordsAreRecords
<1>2. \A b : /\ \A x, y \in StandsFor(rs, b) : x = y
             /\ StandsFor(rs, b) = {} <=> RecentDomains(rs, b) = {}
  BY <1>1, StandsForOne
<1>3. \A b \in Holders(rs) : b \in Proven(f) <=> StandsFor(rs, b) # {}
  BY <1>2, ProvenAreRecentHolders
<1>4. Proven(f) \subseteq Holders(rs)
  BY ProvenAreRecentHolders
<1>5. \A b \in Proven(f) : domain[b] \in StandsFor(rs, b)
  BY <1>3, <1>4
<1>6. domain \in Surjection(Proven(f), Independent(rs))
  <2>1. domain \in [Proven(f) -> Independent(rs)]
    BY <1>4, <1>5 DEF Independent
  <2>2. ASSUME NEW x \in Independent(rs)
        PROVE  \E b \in Proven(f) : domain[b] = x
    <3>1. PICK b \in Holders(rs) : x \in StandsFor(rs, b)
      BY DEF Independent
    <3> QED
      BY <3>1, <1>2, <1>3, <1>5
  <2> QED
    BY <2>1, <2>2 DEF Surjection
<1>7. Independent(rs) = {} <=> Proven(f) = {}
  BY <1>3, <1>4 DEF Independent
<1> QED
  BY <1>6, <1>7, ProvenAreOnline, FS_Surjection

\* What a file is assessed by: three numbers, each at most the next.
LEMMA AssessedInOrder ==
  ASSUME RecordsAreRecords, NEW f \in Files
  PROVE  LET a == Assess(records[f])
         IN /\ a.independent \in Nat /\ a.online \in Nat /\ a.confirmed \in Nat
            /\ a.independent <= Cardinality(Proven(f))
            /\ (a.independent = 0) <=> (Proven(f) = {})
            /\ a.independent <= a.online /\ a.online <= a.confirmed
            /\ a.risk = Risk(a.confirmed, a.online, a.independent)
<1> DEFINE rs == records[f]
<1>1. /\ Cardinality(Independent(rs)) \in Nat /\ Cardinality(Online(rs)) \in Nat
      /\ Cardinality(Holders(rs)) \in Nat /\ Cardinality(Proven(f)) \in Nat
  BY OneReplicaPerBridge, ProvenAreOnline, FS_CardinalityType
<1>2. /\ Cardinality(Proven(f)) <= Cardinality(Online(rs))
      /\ Cardinality(Online(rs)) <= Cardinality(Holders(rs))
  BY ProvenAreOnline, FS_Subset
<1>3. Cardinality(Independent(rs)) = 0 <=> Proven(f) = {}
  BY OneReplicaPerBridge, FS_EmptySet
<1> QED
  BY <1>1, <1>2, <1>3, OneReplicaPerBridge DEF Assess

\* No resilience without replicas: the independent count never exceeds the
\* Bridges whose copy is proven (risk.go, Assess), for any number of records.
THEOREM NoFalseRedundancy == InputSpec => []ReplicasAreReal
<1>1. RecordsAreRecords => ReplicasAreReal
  BY AssessedInOrder DEF ReplicasAreReal
<1> QED
  BY <1>1, InputIsTyped, PTL
-----------------------------------------------------------------------------
\* The expected files in one state of risk.
Rated(risk) == {f \in Expected : Assess(records[f]).risk = risk}

LEMMA DisjointSum ==
  ASSUME NEW A, NEW B, IsFiniteSet(A), IsFiniteSet(B), A \cap B = {}
  PROVE  /\ IsFiniteSet(A \cup B)
         /\ Cardinality(A \cup B) = Cardinality(A) + Cardinality(B)
         /\ Cardinality(A) \in Nat /\ Cardinality(B) \in Nat
<1>1. Cardinality(A) \in Nat /\ Cardinality(B) \in Nat
  BY FS_CardinalityType
<1>2. Cardinality(A \cap B) = 0
  BY FS_EmptySet
<1>3. /\ IsFiniteSet(A \cup B)
      /\ Cardinality(A \cup B)
           = Cardinality(A) + Cardinality(B) - Cardinality(A \cap B)
  BY FS_Union, Zenon
<1> QED
  BY <1>1, <1>2, <1>3

\* The state of risk three counts give.
LEMMA RiskOfCounts ==
  ASSUME NEW c \in Nat, NEW o \in Nat, NEW i \in Nat, i <= o, o <= c
  PROVE  /\ Risk(c, o, i) \in {"resilient", "fragile", "at_risk", "stale",
                               "unavailable", "missing"}
         /\ (Risk(c, o, i) = "missing") <=> ~ (c > 0)
         /\ (Risk(c, o, i) \in {"resilient", "fragile", "at_risk", "stale"}) <=> (o > 0)
<1>1. CASE c = 0
  <2>1. Risk(c, o, i) = "missing"
    BY <1>1 DEF Risk
  <2> QED
    BY <1>1, <2>1
<1>2. CASE c # 0 /\ i >= ResilientAt
  <2>1. Risk(c, o, i) = "resilient"
    BY <1>2, RulesAssumption DEF Risk
  <2> QED
    BY <1>2, <2>1, RulesAssumption
<1>3. CASE c # 0 /\ i \in FragileAt..(ResilientAt - 1)
  <2>1. Risk(c, o, i) = "fragile"
    BY <1>3, RulesAssumption DEF Risk
  <2> QED
    BY <1>3, <2>1, RulesAssumption
<1>4. CASE c # 0 /\ i \in AtRiskAt..(FragileAt - 1)
  <2>1. Risk(c, o, i) = "at_risk"
    BY <1>4, RulesAssumption DEF Risk
  <2> QED
    BY <1>4, <2>1, RulesAssumption
<1>5. CASE c # 0 /\ i < AtRiskAt /\ o > 0
  <2>1. Risk(c, o, i) = "stale"
    BY <1>5, RulesAssumption DEF Risk
  <2> QED
    BY <1>5, <2>1
<1>6. CASE c # 0 /\ i < AtRiskAt /\ o = 0
  <2>1. Risk(c, o, i) = "unavailable"
    BY <1>6, RulesAssumption DEF Risk
  <2> QED
    BY <1>6, <2>1
<1> QED
  BY <1>1, <1>2, <1>3, <1>4, <1>5, <1>6, RulesAssumption

\* Every expected file has one of the six states; it is missing exactly when
\* nobody holds it, and in one of the upper four exactly when somebody who
\* holds it is online.
LEMMA EachIsRated ==
  ASSUME RecordsAreRecords, NEW f \in Expected
  PROVE  LET a == Assess(records[f])
         IN /\ a.risk \in {"resilient", "fragile", "at_risk", "stale",
                           "unavailable", "missing"}
            /\ (a.risk = "missing") <=> ~ (a.confirmed > 0)
            /\ (a.risk \in {"resilient", "fragile", "at_risk", "stale"})
                 <=> (a.online > 0)
<1>1. PICK c \in Nat, o \in Nat, i \in Nat :
        /\ i <= o /\ o <= c
        /\ Assess(records[f]).confirmed = c /\ Assess(records[f]).online = o
        /\ Assess(records[f]).risk = Risk(c, o, i)
  BY AssessedInOrder, ExpectedAssumption
<1> QED
  BY <1>1, RiskOfCounts

\* The figures of a coverage check against each other (risk.go,
\* ComputeCoverage), for any profile, any Bridges and any records.
THEOREM CoverageIsConsistent == InputSpec => []CoverageAddsUp
<1>1. RecordsAreRecords => CoverageAddsUp
  <2> SUFFICES ASSUME RecordsAreRecords PROVE CoverageAddsUp
    OBVIOUS
  <2> DEFINE kept == {f \in Expected : Assess(records[f]).confirmed > 0}
             served == {f \in Expected : Assess(records[f]).online > 0}
             upper3 == Rated("resilient") \cup Rated("fragile") \cup Rated("at_risk")
  <2>1. \A risk : IsFiniteSet(Rated(risk)) /\ Cardinality(Rated(risk)) \in Nat
    BY ExpectedAssumption, FS_Subset, FS_CardinalityType DEF Rated
  <2>2. \A p, q : p # q => Rated(p) \cap Rated(q) = {}
    BY DEF Rated
  <2>3. Cardinality(Rated("resilient") \cup Rated("fragile"))
          = Cardinality(Rated("resilient")) + Cardinality(Rated("fragile"))
    BY <2>1, <2>2, DisjointSum
  <2>4. /\ IsFiniteSet(upper3)
        /\ Cardinality(upper3) = Cardinality(Rated("resilient"))
             + Cardinality(Rated("fragile")) + Cardinality(Rated("at_risk"))
    <3>1. IsFiniteSet(Rated("resilient") \cup Rated("fragile"))
      BY <2>1, <2>2, DisjointSum
    <3>2. (Rated("resilient") \cup Rated("fragile")) \cap Rated("at_risk") = {}
      BY <2>2
    <3> QED
      BY <2>1, <2>3, <3>1, <3>2, DisjointSum
  <2> HIDE DEF kept, served, upper3
  <2>5. /\ IsFiniteSet(served)
        /\ Cardinality(served) = Cardinality(upper3) + Cardinality(Rated("stale"))
    <3>1. served = upper3 \cup Rated("stale")
      BY EachIsRated DEF Rated, served, upper3
    <3>2. upper3 \cap Rated("stale") = {}
      BY <2>2 DEF upper3
    <3> QED
      BY <2>1, <2>4, <3>1, <3>2, DisjointSum
  <2>6. /\ IsFiniteSet(kept)
        /\ Cardinality(kept) = Cardinality(served) + Cardinality(Rated("unavailable"))
    <3>1. kept = served \cup Rated("unavailable")
      BY EachIsRated DEF Rated, kept, served
    <3>2. served \cap Rated("unavailable") = {}
      BY EachIsRated DEF Rated, served
    <3> QED
      BY <2>1, <2>5, <3>1, <3>2, DisjointSum
  <2>7. Cardinality(Expected) = Cardinality(kept) + Cardinality(Rated("missing"))
    <3>1. Expected = kept \cup Rated("missing")
      BY EachIsRated DEF Rated, kept
    <3>2. kept \cap Rated("missing") = {}
      BY EachIsRated DEF Rated, kept
    <3> QED
      BY <2>1, <2>6, <3>1, <3>2, DisjointSum
  <2>8. /\ Coverage.expected = Cardinality(Expected)
        /\ Coverage.content = Cardinality(kept)
        /\ Coverage.available = Cardinality(served)
        /\ Coverage.resilient = Cardinality(Rated("resilient"))
        /\ Coverage.fragile = Cardinality(Rated("fragile"))
        /\ Coverage.atRisk = Cardinality(Rated("at_risk"))
        /\ Coverage.stale = Cardinality(Rated("stale"))
        /\ Coverage.unavailable = Cardinality(Rated("unavailable"))
        /\ Coverage.missing = Cardinality(Rated("missing"))
    BY DEF Coverage, Rated, kept, served
  <2>9. Cardinality(kept) \in Nat /\ Cardinality(served) \in Nat
    BY <2>5, <2>6, FS_CardinalityType
  <2> QED
    BY <2>1, <2>4, <2>5, <2>6, <2>7, <2>8, <2>9 DEF CoverageAddsUp
<1> QED
  BY <1>1, InputIsTyped, PTL
=============================================================================
