------------------------------ MODULE Catalogue ------------------------------
(***************************************************************************)
(* What a stored file is, and whether it is a verified copy of something:  *)
(* verify.Analyze (the payload inside the container and the adapter that   *)
(* claims it), reference.Set (the imported catalogue and its lookup), the  *)
(* collection profile with its one-game-one-ROM choice, and                *)
(* reference.Classify.  No state: operators for FilteredPublication.       *)
(*                                                                         *)
(* A hash is a number, 0 when it is absent.  A title is the sequence of    *)
(* its lower-case words.  A catalogue is a function from places, which are *)
(* numbers, to entries.                                                    *)
(***************************************************************************)
EXTENDS Naturals, Sequences, FiniteSets

CONSTANTS
  AdapterOrder,   \* the registered adapters, in the order of their Ref strings
  PlatformOf,     \* PlatformOf[a]: the platform adapter a canonicalizes for
  Claims,         \* Claims[rom][a]: adapter a's Detect, 0 none, 1 weak, 2 strong
  Canonicals,     \* Canonicals[rom][a]: digest of a's output, or NoDigest on error
  NoDigest,
  RegionOrder,    \* Profile.Regions, the preferred region first
  ExcludedFlags,  \* Profile.ExcludedFlags
  Articles        \* leadingArticles

ASSUME RegionOrderAssumption == RegionOrder \in Seq(STRING)

-----------------------------------------------------------------------------
(***************************************************************************)
(* protocol.Digest.Compare: any field filled in on both sides that differs *)
(* is fatal; otherwise the strongest hash that agrees counts.              *)
(***************************************************************************)
Hashes == {"crc32", "md5", "sha1", "sha256"}
Level == [crc32 |-> 1, md5 |-> 2, sha1 |-> 2, sha256 |-> 3]

Disagree(a, b, field) == a[field] # 0 /\ b[field] # 0 /\ a[field] # b[field]
Agreeing(a, b) == {h \in Hashes : a[h] # 0 /\ a[h] = b[h]}
Compatible(a, b) == \A field \in Hashes \cup {"size"} : ~ Disagree(a, b, field)

Strength(a, b) ==
  IF ~ Compatible(a, b) \/ Agreeing(a, b) = {} THEN 0
  ELSE CHOOSE n \in 1..3 : /\ \E h \in Agreeing(a, b) : Level[h] = n
                           /\ \A h \in Agreeing(a, b) : Level[h] <= n

(***************************************************************************)
(* Set.Lookup: the strongest hash the catalogue knows at all supplies the  *)
(* candidates, each of which is compared in full.                          *)
(***************************************************************************)
Indexed(cat, digest, hash) ==
  {i \in DOMAIN cat : digest[hash] # 0 /\ cat[i].digest[hash] = digest[hash]}

StrongestKnown(cat, digest) ==
  LET order == <<"sha256", "sha1", "md5", "crc32">>
      known == {n \in 1..4 : Indexed(cat, digest, order[n]) # {}}
  IN {order[n] : n \in {m \in known : \A k \in known : m <= k}}

Lookup(cat, digest) ==
  {i \in UNION {Indexed(cat, digest, h) : h \in StrongestKnown(cat, digest)} :
     Strength(digest, cat[i].digest) # 0}

\* Lookup's order: stronger first, then by file name, then as imported.
Precedes(cat, digest, i, j) ==
  LET s == Strength(digest, cat[i].digest)
      t == Strength(digest, cat[j].digest)
  IN \/ s > t
     \/ s = t /\ cat[i].rom < cat[j].rom
     \/ s = t /\ cat[i].rom = cat[j].rom /\ i <= j

First(cat, digest, matches) ==
  CHOOSE i \in matches : \A j \in matches : Precedes(cat, digest, i, j)

-----------------------------------------------------------------------------
(***************************************************************************)
(* Profile.Apply for the default profile: BIOS and flagged entries are     *)
(* out, a region must be in the list (or absent, which ranks last), and    *)
(* one entry is chosen per canonical key.                                  *)
(***************************************************************************)
RegionRanks(entry) == {n \in DOMAIN RegionOrder : RegionOrder[n] \in entry.regions}

RegionAllowed(entry) == entry.regions = {} \/ RegionRanks(entry) # {}

RegionPriority(entry) ==
  IF entry.regions = {} THEN Len(RegionOrder) + 1
  ELSE CHOOSE n \in RegionRanks(entry) : \A m \in RegionRanks(entry) : n <= m

InProfile(entry) ==
  ~ entry.bios /\ entry.flags \cap ExcludedFlags = {} /\ RegionAllowed(entry)

\* Whether 1G1R prefers e to f: better region, newer revision, smaller name.
Preferred(e, f) ==
  \/ RegionPriority(e) < RegionPriority(f)
  \/ RegionPriority(e) = RegionPriority(f) /\ e.rank > f.rank
  \/ RegionPriority(e) = RegionPriority(f) /\ e.rank = f.rank /\ e.rom < f.rom

IncludedOfAnyRelease(cat) == {i \in DOMAIN cat : InProfile(cat[i])}

Included(cat) ==
  {i \in DOMAIN cat :
     /\ InProfile(cat[i])
     /\ \A j \in DOMAIN cat \ {i} :
          InProfile(cat[j]) /\ cat[j].key = cat[i].key =>
            Preferred(cat[i], cat[j]) \/ (~ Preferred(cat[j], cat[i]) /\ i < j)}

-----------------------------------------------------------------------------
(***************************************************************************)
(* titlesAgree: equal, or one contains the other, once an article at       *)
(* either end is dropped.  Words stand for the letters the code joins.     *)
(***************************************************************************)
DropFirst(t) == IF Len(t) > 1 /\ t[1] \in Articles THEN Tail(t) ELSE t
DropLast(t) ==
  IF Len(t) > 1 /\ t[Len(t)] \in Articles THEN SubSeq(t, 1, Len(t) - 1) ELSE t
Normalize(t) == DropLast(DropFirst(t))

Contains(s, t) == \E i, j \in DOMAIN s : SubSeq(s, i, j) = t

TitlesAgree(s, t) ==
  LET m == Normalize(s)
      n == Normalize(t)
  IN m = <<>> \/ n = <<>> \/ Contains(m, n) \/ Contains(n, m)

-----------------------------------------------------------------------------
(***************************************************************************)
(* Analyzer.unwrap and materialize: a bare file is its own payload; an     *)
(* archive has one when it is readable and has exactly one usable member,  *)
(* and that member is as long as it declares.                              *)
(***************************************************************************)
Usable(file) ==
  {i \in DOMAIN file.members : file.members[i].safe /\ file.members[i].fits}

Payload(file) ==
  CASE file.kind = "bare" -> {file.rom}
    [] file.kind = "zip" /\ Cardinality(Usable(file)) = 1 ->
         {file.members[i].rom : i \in {k \in Usable(file) : file.members[k].honest}}
    [] OTHER -> {}

\* Registry.selectAdapter: the strongest claim, ties to the smaller Ref; the
\* library's own idea of the platform is not asked.
Selected(rom) ==
  LET before(m, n) == \/ Claims[rom][AdapterOrder[m]] > Claims[rom][AdapterOrder[n]]
                      \/ /\ Claims[rom][AdapterOrder[m]] = Claims[rom][AdapterOrder[n]]
                         /\ m <= n
      claiming == {n \in DOMAIN AdapterOrder : Claims[rom][AdapterOrder[n]] > 0}
  IN {AdapterOrder[n] : n \in {k \in claiming : \A m \in claiming : before(k, m)}}

\* Analyzer.Analyze: the results with a canonical payload, at most one.
Analyze(file) ==
  UNION {{[adapter |-> a, platform |-> PlatformOf[a],
           canonical |-> Canonicals[rom][a]] :
            a \in {b \in Selected(rom) : Canonicals[rom][b] # NoDigest}} :
          rom \in Payload(file)}

-----------------------------------------------------------------------------
(***************************************************************************)
(* reference.Classify.                                                     *)
(***************************************************************************)
\* The match that decides: the first the profile includes, else the first.
Best(cat, digest) ==
  LET matches == Lookup(cat, digest)
      included == matches \cap Included(cat)
  IN First(cat, digest, IF included # {} THEN included ELSE matches)

GamesMatched(cat, digest) == {cat[i].key : i \in Lookup(cat, digest)}

Classify(file, cat, title) ==
  IF Analyze(file) = {} THEN "unmatched"
  ELSE LET digest == (CHOOSE r \in Analyze(file) : TRUE).canonical
           best == Best(cat, digest)
       IN CASE Lookup(cat, digest) = {} /\ title # <<>> -> "matched_unverified"
            [] Lookup(cat, digest) = {} /\ title = <<>> -> "unmatched"
            [] Cardinality(GamesMatched(cat, digest)) > 1 -> "conflict"
            [] Cardinality(GamesMatched(cat, digest)) = 1 ->
                 IF title # <<>> /\ ~ TitlesAgree(title, cat[best].key) THEN "conflict"
                 ELSE IF best \notin Included(cat) THEN "verified_excluded"
                 ELSE "verified_eligible"

Publishable(class) == class = "verified_eligible"

-----------------------------------------------------------------------------
(***************************************************************************)
(* ImportDAT: entries without a hash and known bad dumps are left out, the *)
(* others keep the place they were read from; a catalogue with nothing     *)
(* left is refused.                                                        *)
(***************************************************************************)
Hashed(game) == \E h \in Hashes : game.digest[h] # 0

ImportDATWithBadDumps(games) ==
  [n \in {m \in DOMAIN games : Hashed(games[m])} |-> games[n]]

ImportDAT(games) ==
  [n \in {m \in DOMAIN games : ~ games[m].badDump /\ Hashed(games[m])} |-> games[n]]
=============================================================================
