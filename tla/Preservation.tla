---------------------------- MODULE Preservation ----------------------------
(***************************************************************************)
(* preservation/risk.go: what the claims of many Bridges say about how     *)
(* safe an item is.  The package is a function of the records it is given  *)
(* and the time; the records are what inventory deltas, retries and        *)
(* reconciliation leave behind, so one Bridge may have several about one   *)
(* file, old, repeated or contradictory.  The state is those records and   *)
(* the clock; Assess and ComputeCoverage are operators on it.              *)
(***************************************************************************)
EXTENDS Naturals, FiniteSets

CONSTANTS
  Aliases,      \* the Bridges, by the alias this Swarm knows them under
  Domains,      \* the failure domains an owner may have stated
  NoDomain,     \* FailureDomain is the empty string
  Files,        \* every file some Bridge may claim
  Expected,     \* the files the profile says a complete collection holds
  Window,       \* Rules.RevalidationWindow
  AtRiskAt, FragileAt, ResilientAt,   \* the thresholds of Rules
  MaxTime,      \* bound: the clock stops here
  MaxRecords    \* bound: records about all the files together

ASSUME ExpectedAssumption == Expected \subseteq Files /\ IsFiniteSet(Expected)
ASSUME RulesAssumption ==
  /\ Window \in Nat
  /\ AtRiskAt \in Nat /\ FragileAt \in Nat /\ ResilientAt \in Nat
  /\ 0 < AtRiskAt /\ AtRiskAt < FragileAt /\ FragileAt < ResilientAt
ASSUME NoDomainAssumption == NoDomain \notin Domains
ASSUME SwarmAssumption == IsFiniteSet(Aliases) /\ IsFiniteSet(Domains)
ASSUME BoundsAssumption == MaxTime \in Nat /\ MaxRecords \in Nat

VARIABLES
  records,      \* the []Replica of each file; its order never matters
  now

input == <<records, now>>

Availability == {"available", "offline", "stale", "removed"}

\* One claim of one Bridge.  A verification time of 0 is Go's zero time.
Replica == [alias : Aliases, domain : Domains \cup {NoDomain},
            availability : Availability, verifiedAt : 0..MaxTime]

(***************************************************************************)
(* Assess.                                                                 *)
(***************************************************************************)
CountsTowardResilience(r) == r.availability = "available"

RecentlyRevalidated(r) ==
  /\ r.verifiedAt # 0
  /\ r.verifiedAt <= now
  /\ now <= r.verifiedAt + Window

\* The bucket all unknown domains share.
Bucket(domain) == IF domain = NoDomain THEN "unknown" ELSE domain

OfBridge(rs, b) == {r \in rs : r.alias = b}

\* A Bridge that claims the file and has not withdrawn the claim: a
\* tombstone wins over every other record of the Bridge.
Holds(rs, b) ==
  /\ OfBridge(rs, b) # {}
  /\ \A r \in OfBridge(rs, b) : r.availability # "removed"

RecentDomains(rs, b) ==
  {Bucket(r.domain) : r \in {s \in OfBridge(rs, b) :
     CountsTowardResilience(s) /\ RecentlyRevalidated(s)}}

EveryClaimCounts(rs, b) == RecentDomains(rs, b)

\* The one domain a Bridge stands for: contradictory claims make it unknown.
StandsFor(rs, b) ==
  LET recent == RecentDomains(rs, b)
  IN IF Cardinality(recent) > 1 THEN {"unknown"} ELSE recent

Holders(rs) == {b \in Aliases : Holds(rs, b)}
OnlineIgnoresTombstones(rs) ==
  {b \in Aliases : \E r \in OfBridge(rs, b) : CountsTowardResilience(r)}
Online(rs) == {b \in Holders(rs) :
                 \E r \in OfBridge(rs, b) : CountsTowardResilience(r)}
Independent(rs) == UNION {StandsFor(rs, b) : b \in Holders(rs)}

Risk(confirmed, online, independent) ==
  CASE confirmed = 0 -> "missing"
    [] confirmed # 0 /\ independent >= ResilientAt -> "resilient"
    [] confirmed # 0 /\ independent \in FragileAt..(ResilientAt - 1) -> "fragile"
    [] confirmed # 0 /\ independent \in AtRiskAt..(FragileAt - 1) -> "at_risk"
    [] confirmed # 0 /\ independent < AtRiskAt /\ online > 0 -> "stale"
    [] OTHER -> "unavailable"

Assess(rs) ==
  LET confirmed == Cardinality(Holders(rs))
      online == Cardinality(Online(rs))
      independent == Cardinality(Independent(rs))
  IN [confirmed |-> confirmed, online |-> online, independent |-> independent,
      risk |-> Risk(confirmed, online, independent)]

(***************************************************************************)
(* ComputeCoverage: the denominator is the profile's, whatever is held.    *)
(***************************************************************************)
Coverage ==
  LET assessed == [f \in Expected |-> Assess(records[f])]
      rated(risk) == Cardinality({f \in Expected : assessed[f].risk = risk})
  IN [expected    |-> Cardinality(Expected),
      content     |-> Cardinality({f \in Expected : assessed[f].confirmed > 0}),
      available   |-> Cardinality({f \in Expected : assessed[f].online > 0}),
      resilient   |-> rated("resilient"),
      fragile     |-> rated("fragile"),
      atRisk      |-> rated("at_risk"),
      stale       |-> rated("stale"),
      unavailable |-> rated("unavailable"),
      missing     |-> rated("missing")]

-----------------------------------------------------------------------------
InputInit ==
  /\ records = [f \in Files |-> {}]
  /\ now = 1

\* One more record reaches the input: a delta, a retry, a tombstone, or a
\* claim with a verification time in the past or in the future.
Report ==
  /\ Cardinality(UNION {{f} \X records[f] : f \in Files}) < MaxRecords
  /\ \E f \in Files, r \in Replica : records' = [records EXCEPT ![f] = @ \cup {r}]
  /\ UNCHANGED now

Tick ==
  /\ now < MaxTime
  /\ now' = now + 1
  /\ UNCHANGED records

InputNext == Tick \/ Report

InputSpec == InputInit /\ [][InputNext]_input

-----------------------------------------------------------------------------
\* The Bridges whose copy of the file is proven: a record that says it is
\* there now, verified inside the window and not after the present, and no
\* tombstone.  Written from the records alone, without Assess.
Proven(f) ==
  {b \in Aliases :
     /\ \E r \in records[f] :
          /\ r.alias = b /\ r.availability = "available"
          /\ r.verifiedAt \in 1..now /\ now - r.verifiedAt <= Window
     /\ ~ \E r \in records[f] : r.alias = b /\ r.availability = "removed"}

\* No resilience without replicas: the independent count never exceeds the
\* number of Bridges whose copy is proven, and is zero only when there is
\* none, however many records one Bridge has (risk.go, Assess: "One Bridge
\* can never create more than one independent replica").
ReplicasAreReal ==
  \A f \in Files :
    LET a == Assess(records[f])
    IN /\ a.independent <= Cardinality(Proven(f))
       /\ (a.independent = 0) <=> (Proven(f) = {})
       /\ a.independent <= a.online /\ a.online <= a.confirmed

\* The figures of a coverage check against each other: the six states
\* partition the expected files, what is held is what is not missing, and
\* what can be served is exactly what is in a state better than unavailable.
CoverageAddsUp ==
  LET c == Coverage
  IN /\ c.expected = c.resilient + c.fragile + c.atRisk + c.stale
                     + c.unavailable + c.missing
     /\ c.content = c.expected - c.missing
     /\ c.available = c.resilient + c.fragile + c.atRisk + c.stale
=============================================================================
