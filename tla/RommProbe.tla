------------------------------ MODULE RommProbe ------------------------------
(***************************************************************************)
(* bridge/romm: what the Bridge makes of a RomM server before it uses it.  *)
(* Probe reads the server's OpenAPI document, resolves each requirement to *)
(* an operation the document lists, tries the ways to present the token    *)
(* and looks at one ROM object; Connect refuses what is not good enough;   *)
(* FetchPlatforms resolves the platforms.  No state: RommConnection says   *)
(* when these run.                                                         *)
(*                                                                         *)
(* A server, seen with one token, is a record:                             *)
(*   documents   what is at each location: "ok", "unreadable", "absent"    *)
(*   operations  the operations the document lists, as <<method, path>>    *)
(*   accepts     the schemes under which it takes the token                *)
(*   allows      the operations that are within the token's scopes         *)
(*   failing     the operations that answer 500 whoever asks               *)
(*   fields      the fields of its first ROM object, none when empty       *)
(*   platforms   its platform rows, in order: [id, slug], 0 and "" missing *)
(***************************************************************************)
EXTENDS Naturals, Sequences, FiniteSets

SpecPaths == <<"/openapi.json", "/api/openapi.json", "/docs/openapi.json">>

AuthSchemes == <<"bearer", "x-api-key", "authorization-raw">>

Unresolved == <<"", "">>

Get(path) == <<"GET", path>>

\* Requirements: the candidates of each, the first that is listed wins.
Candidates ==
  [server_version |-> <<Get("/api/heartbeat"), Get("/api/system/heartbeat"),
                        Get("/api/stats"), Get("/heartbeat")>>,
   platforms_list |-> <<Get("/api/platforms")>>,
   roms_list      |-> <<Get("/api/roms")>>,
   roms_detail    |-> <<Get("/api/roms/*")>>,
   roms_download  |-> <<Get("/api/roms/*/content/*"), Get("/api/roms/*/content"),
                        Get("/api/roms/*/download")>>,
   roms_upload    |-> <<<<"POST", "/api/roms/upload/start">>,
                        <<"POST", "/api/roms">>, <<"PUT", "/api/roms">>>>,
   identity_self  |-> <<Get("/api/users/me"), Get("/api/me"),
                        Get("/api/users/current")>>,
   roms_scan      |-> <<<<"POST", "/api/scan">>, <<"POST", "/api/platforms/*/scan">>,
                        Get("/api/scan")>>,
   roms_search    |-> <<Get("/api/roms")>>]
Required == DOMAIN Candidates \ {"roms_scan", "roms_search"}

-----------------------------------------------------------------------------
\* The smallest of a set of numbers, in a set of at most one.
First(numbers) == {n \in numbers : \A m \in numbers : n <= m}

\* fetchSpec: the locations are tried in order; an unreadable document or a
\* missing one passes to the next.
FetchSpec(server) ==
  First({n \in DOMAIN SpecPaths : server.documents[n] = "ok"})

EvaluateCapabilities(operations) ==
  [id \in DOMAIN Candidates |->
     LET listed == First({n \in DOMAIN Candidates[id] :
                            Candidates[id][n] \in operations})
     IN IF listed = {} THEN Unresolved
        ELSE Candidates[id][CHOOSE n \in listed : TRUE]]

MissingRequired(capabilities) ==
  {id \in Required : capabilities[id] = Unresolved}

\* The status of an authenticated request for a resolved operation.
Status(server, scheme, operation) ==
  CASE operation \in server.failing -> 500
    [] operation \notin server.failing /\ scheme \notin server.accepts -> 401
    [] operation \notin server.failing /\ scheme \in server.accepts ->
         IF operation \notin server.operations THEN 404
         ELSE IF operation \in server.allows THEN 200 ELSE 403

\* DetectAuthScheme: a refused credential passes to the next scheme, and any
\* other status than 200 is inconclusive, which ends the search.
NotRefused(server, operation) ==
  {n \in DOMAIN AuthSchemes :
     Status(server, AuthSchemes[n], operation) \notin {401, 403}}

DetectAnyAnswer(server, operation) ==
  {AuthSchemes[n] : n \in First(NotRefused(server, operation))}

DetectAuthScheme(server, operation) ==
  {AuthSchemes[n] : n \in {m \in First(NotRefused(server, operation)) :
                            Status(server, AuthSchemes[m], operation) = 200}}

\* Probed against identity.self, or platforms.list without it.
AuthProbe(capabilities) ==
  IF capabilities.identity_self # Unresolved THEN capabilities.identity_self
  ELSE capabilities.platforms_list

Scheme(server, capabilities) ==
  IF AuthProbe(capabilities) = Unresolved THEN {}
  ELSE DetectAuthScheme(server, AuthProbe(capabilities))

HashFields == {"crc_hash", "md5_hash", "sha1_hash", "sha256_hash", "ra_hash"}

\* probeFields on roms.list: an empty library, or a request that fails,
\* leaves nothing to inspect.
ROMFields(server, capabilities, scheme) ==
  IF Status(server, scheme, capabilities.roms_list) = 200 THEN server.fields ELSE {}

\* Probe finds no blocker: a readable document, every requirement in it, and
\* on a ROM object, if there is one, a hash to verify it by.
Unblocked(server, capabilities, scheme) ==
  /\ FetchSpec(server) # {}
  /\ MissingRequired(capabilities) = {}
  /\ LET fields == ROMFields(server, capabilities, scheme)
     IN fields # {} => fields \cap HashFields # {}

\* Connect: the report, in a set that is empty when a blocker or an unaccepted
\* credential refuses the server.
Connect(server) ==
  UNION {{[capabilities |-> c, scheme |-> s] :
            s \in {t \in Scheme(server, c) : Unblocked(server, c, t)}} :
         c \in {EvaluateCapabilities(server.operations)}}

-----------------------------------------------------------------------------
\* FetchPlatforms: rows without an id or a slug are passed over, and of
\* several with one slug the first counts.
Resolvable(row) == row.id # 0 /\ row.slug # ""

ResolvePlatforms(rows) ==
  {rows[n] : n \in {m \in DOMAIN rows :
     /\ Resolvable(rows[m])
     /\ \A k \in 1..(m - 1) : Resolvable(rows[k]) => rows[k].slug # rows[m].slug}}

\* The resolved platforms, in a set that is empty when the request fails.
FetchPlatforms(server, report) ==
  IF Status(server, report.scheme, report.capabilities.platforms_list) = 200
  THEN {ResolvePlatforms(server.platforms)} ELSE {}

Lookup(platforms, slug) == {p.id : p \in {q \in platforms : q.slug = slug}}
=============================================================================
