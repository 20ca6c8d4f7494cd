--------------------------- MODULE RommConnection ---------------------------
(***************************************************************************)
(* The Bridge daemon's connection to RomM: the stored configuration, the   *)
(* requests that rewrite it as a whole (first-run setup, settings, the     *)
(* password), the boot that seeds it, Reconnect, which loads it, connects  *)
(* for as long as RomM takes and swaps the connection in, and the listing  *)
(* Library caches under libraryMu.                                         *)
(***************************************************************************)
EXTENDS RommProbe

CONSTANTS
  Requests,       \* requests the admin UI may have at work at once
  Boot,           \* the start-up's goroutine
  Targets,        \* RomM addresses, each with a token
  Prefs,          \* destination settings and display name an admin may save
  NoPrefs,        \* none stated yet
  Passwords,      \* passwords an admin may choose
  None,
  EnvTarget,      \* ROMM_URL and ROMM_TOKEN, or None
  EnvPrefs,       \* BRIDGE_DESTINATION_MODE and BRIDGE_LIBRARY_ROOT, or NoPrefs
  Left,           \* the config.json earlier runs may have left, None for none
  Servers,        \* what a RomM server may be
  MaxCalls,       \* bound: requests the admin UI gets
  MaxFaults       \* bound: crashes, failed writes and requests, changed servers

\* What config.json may hold; an address is in it whenever there is one.
Configs ==
  [target : Targets,
   prefs : Prefs \cup {NoPrefs, EnvPrefs} \cup {c.prefs : c \in Left \ {None}},
   password : Passwords \cup {None} \cup {c.password : c \in Left \ {None}}]

\* What Reconnect makes, numbered as it stores it.
Reports == UNION {Connect(s) : s \in Servers}
Resolved == UNION {FetchPlatforms(s, r) : s \in Servers, r \in Reports}
Conns == [target : Targets, report : Reports, platforms : Resolved,
          of : Servers \cup {None}]
Lives == [number : Nat, conn : Conns]

ASSUME EnvAssumption == EnvTarget \in Targets \cup {None}
ASSUME LeftAssumption == Left \subseteq Configs \cup {None}
ASSUME BootIsApart == Boot \notin Requests
ASSUME NoneIsApart ==
  /\ None \notin Targets /\ None \notin Requests \cup {Boot} /\ None \notin Servers
  /\ None \notin Configs /\ None \notin Lives
ASSUME RowsAreASequence ==
  \A s \in Servers : /\ Len(s.platforms) \in Nat
                      /\ DOMAIN s.platforms = 1..Len(s.platforms)

VARIABLES
  server,         \* [Targets -> Servers]
  file,           \* config.json, or None when it was never saved
  live,           \* d.conn
  lock,           \* who holds libraryMu
  cache,          \* d.libraryCache, None when nil
  req,            \* the requests, and the boot
  calls, faults,
  stores,         \* history: connections stored so far
  settled,        \* history: the newest one whose Reconnect has returned
  acked,          \* history: each field as the last save to reach the file had it
  overlapped,     \* history: two requests rewrote the configuration at once
  failed          \* history: "connecting", the last Reconnect got no connection;
                  \* "saving", a new target was stored and none has followed

disk == <<file, acked>>
library == <<lock, cache>>
bounds == <<calls, faults>>
vars == <<server, disk, live, library, req, bounds, stores, settled, overlapped, failed>>

Procs == Requests \cup {Boot}

Idle == [at |-> "idle", call |-> "none", cfg |-> None, report |-> None,
         conn |-> None, of |-> None, floor |-> 0, got |-> 0]

Empty == [target |-> None, prefs |-> NoPrefs, password |-> None]
Stored == IF file = None THEN Empty ELSE file

\* Config.Configured: an address and a token are stored.
Configured == Stored.target # None

Rewriting(p) == req[p].call \in {"settings", "password", "setup", "boot"}
Goto(p, at) == req' = [req EXCEPT ![p].at = at]
Return(p) == req' = [req EXCEPT ![p] = Idle]

Healths == {"no", "connecting", "saving"}

Fault == faults < MaxFaults /\ faults' = faults + 1 /\ UNCHANGED calls

-----------------------------------------------------------------------------
Init ==
  /\ server \in [Targets -> Servers]
  /\ file \in Left /\ acked = Stored
  /\ live = None /\ lock = None /\ cache = None
  /\ req = [p \in Procs |-> IF p = Boot THEN [Idle EXCEPT !.at = "boot", !.call = "boot"]
                            ELSE Idle]
  /\ calls = 0 /\ faults = 0 /\ stores = 0 /\ settled = 0
  /\ overlapped = FALSE /\ failed = "no"

(***************************************************************************)
(* Requests of the admin UI.  Each that rewrites the configuration loads   *)
(* the whole of it here and saves the whole of it in Save.                 *)
(***************************************************************************)
Begin(r, call, at, cfg) ==
  /\ req[r].at = "idle" /\ req[Boot].call # "boot" /\ calls < MaxCalls
  /\ req' = [req EXCEPT ![r] =
               [Idle EXCEPT !.at = at, !.call = call, !.cfg = cfg,
                            !.floor = IF call = "library" THEN settled ELSE 0]]
  /\ calls' = calls + 1
  /\ overlapped' = (overlapped \/ (call # "library" /\ \E q \in Procs : Rewriting(q)))
  /\ UNCHANGED <<server, disk, live, library, faults, stores, settled, failed>>

\* handleSaveConnection; a blank token keeps the stored one, which is the
\* same as naming the stored target.
Settings(r, target, prefs) ==
  /\ Stored.password # None
  /\ Begin(r, "settings", "saving",
           [Stored EXCEPT !.target = target, !.prefs = prefs])

ChangePassword(r, password) ==
  /\ Stored.password # None
  /\ Begin(r, "password", "saving", [Stored EXCEPT !.password = password])

SetupAfresh(r, target, password) ==
  /\ Stored.password = None
  /\ Begin(r, "setup", "testing",
           [Empty EXCEPT !.target = target, !.password = password])

\* handleSetupSubmit: preserves what the boot seeded, and connects first.
Setup(r, target, password) ==
  /\ Stored.password = None
  /\ Begin(r, "setup", "testing",
           [Stored EXCEPT !.target = target, !.password = password])

Library(r, refresh) ==
  /\ Stored.password # None /\ live # None
  /\ Begin(r, "library", IF refresh THEN "refreshing" ELSE "reading", None)

-----------------------------------------------------------------------------
(***************************************************************************)
(* The boot: Bootstrap seeds the configuration once, from the environment  *)
(* and only with what RomM accepts; then main connects.                    *)
(***************************************************************************)
Bootstrap ==
  /\ req[Boot].at = "boot"
  /\ req' = [req EXCEPT ![Boot] =
       IF file = None /\ EnvTarget # None
       THEN [@ EXCEPT !.at = "testing", !.cfg = [Empty EXCEPT !.target = EnvTarget,
                                                              !.prefs = EnvPrefs]]
       ELSE [@ EXCEPT !.at = "booted"]]
  /\ UNCHANGED <<server, disk, live, library, bounds, stores, settled, overlapped, failed>>

\* main: connect if there is something to connect with, then serve.
Serve ==
  /\ req[Boot].at = "booted"
  /\ IF Configured THEN Goto(Boot, "reconnect") ELSE Return(Boot)
  /\ UNCHANGED <<server, disk, live, library, bounds, stores, settled, overlapped, failed>>

\* Bootstrap's errors are logged and the boot goes on; a request's end it.
Refuse(p) == IF p = Boot THEN Goto(Boot, "booted") ELSE Return(p)

\* What a target's server gives a caller of ConnectAndResolvePlatforms.
Connections(t) ==
  UNION {{[target |-> t, report |-> r, platforms |-> f, of |-> server[t]] :
            f \in FetchPlatforms(server[t], r)} : r \in Connect(server[t])}

\* Bootstrap and the setup connect before they save.
Test(p) ==
  /\ req[p].at = "testing"
  /\ LET target == req[p].cfg.target
     IN \/ /\ p = Boot /\ UNCHANGED bounds
           /\ \E c \in Connections(target) :
                req' = [req EXCEPT ![p] = [@ EXCEPT !.at = "saving", !.conn = c]]
        \/ p # Boot /\ Connect(server[target]) # {} /\ Goto(p, "saving") /\ UNCHANGED bounds
        \/ p = Boot /\ Connections(target) = {} /\ Refuse(p) /\ UNCHANGED bounds
        \/ p # Boot /\ Connect(server[target]) = {} /\ Refuse(p) /\ UNCHANGED bounds
        \/ Fault /\ Refuse(p)
  /\ UNCHANGED <<server, disk, live, library, stores, settled, overlapped, failed>>

\* The fields a request owns.
Owned(call) ==
  CASE call \in {"settings", "boot"} -> {"target", "prefs"}
    [] call = "setup" -> {"target", "password"}
    [] call = "password" -> {"password"}

\* FileStore.Save's rename.
Renamed(p) ==
  /\ file' = req[p].cfg
  /\ acked' = [f \in DOMAIN acked |->
                 IF f \in Owned(req[p].call) THEN req[p].cfg[f] ELSE acked[f]]

\* Whoever saves gives up on an error, and an error before the rename leaves
\* the old file; one behind it, in syncDir, leaves the new one, and nobody
\* connects to what it says.
Save(r) ==
  /\ r # Boot /\ req[r].at = "saving"
  /\ \/ /\ Renamed(r)
        /\ IF req[r].call = "password" THEN Return(r) ELSE Goto(r, "reconnect")
        /\ UNCHANGED <<bounds, failed>>
     \/ /\ Fault /\ Refuse(r)
        /\ UNCHANGED <<disk, failed>>
     \/ /\ Fault /\ Refuse(r)
        /\ Renamed(r)
        /\ failed' = IF req[r].cfg.target = Stored.target THEN failed ELSE "saving"
  /\ UNCHANGED <<server, live, library, stores, settled, overlapped>>

\* Bootstrap stores the connection it tested as well; nobody else runs yet.
\* After an error main goes on, and connects if the file is there.
Seed ==
  /\ req[Boot].at = "saving"
  /\ \/ /\ Renamed(Boot)
        /\ stores' = stores + 1
        /\ live' = [number |-> stores', conn |-> req[Boot].conn]
        /\ Goto(Boot, "booted") /\ UNCHANGED bounds
     \/ /\ Fault /\ Refuse(Boot)
        /\ Renamed(Boot) \/ UNCHANGED disk
        /\ UNCHANGED <<stores, live>>
  /\ UNCHANGED <<server, library, settled, overlapped, failed>>

-----------------------------------------------------------------------------
(***************************************************************************)
(* Daemon.Reconnect.                                                       *)
(***************************************************************************)
LoadConfig(p) ==
  /\ req[p].at = "reconnect"
  /\ req' = [req EXCEPT ![p] = [@ EXCEPT !.at = "probing", !.cfg = Stored]]
  /\ UNCHANGED <<server, disk, live, library, bounds, stores, settled, overlapped, failed>>

\* Reconnect returns an error: the connection before it stays.
NotConnected(p) == Return(p) /\ failed' = "connecting"

Probe(p) ==
  /\ req[p].at = "probing"
  /\ LET there == server[req[p].cfg.target]
     IN \/ /\ UNCHANGED <<bounds, failed>>
           /\ \E report \in Connect(there) :
                req' = [req EXCEPT ![p] = [@ EXCEPT !.at = "platforms",
                                                    !.report = report, !.of = there]]
        \/ Connect(there) = {} /\ NotConnected(p) /\ UNCHANGED bounds
        \/ Fault /\ NotConnected(p)
  /\ UNCHANGED <<server, disk, live, library, stores, settled, overlapped>>

ResolveThem(p) ==
  /\ req[p].at = "platforms"
  /\ LET target == req[p].cfg.target
         found == FetchPlatforms(server[target], req[p].report)
     IN \/ /\ UNCHANGED <<bounds, failed>>
           /\ \E platforms \in found :
                req' = [req EXCEPT ![p] = [@ EXCEPT
                  !.at = "connected", !.cfg = None, !.report = None, !.of = None,
                  !.conn = [target |-> target, report |-> req[p].report,
                            platforms |-> platforms,
                            of |-> IF req[p].of = server[target] THEN req[p].of ELSE None]]]
        \/ found = {} /\ NotConnected(p) /\ UNCHANGED bounds
        \/ Fault /\ NotConnected(p)
  /\ UNCHANGED <<server, disk, live, library, stores, settled, overlapped>>

StoreUnlessConnected(p) ==
  /\ req[p].at = "connected"
  /\ live' = IF live = None THEN [number |-> stores + 1, conn |-> req[p].conn] ELSE live
  /\ stores' = stores + 1 /\ failed' = "no"
  /\ req' = [req EXCEPT ![p] = [@ EXCEPT !.at = "invalidate", !.conn = None,
                                         !.got = stores + 1]]
  /\ UNCHANGED <<server, disk, library, bounds, settled, overlapped>>

\* d.conn.Store.
Store(p) ==
  /\ req[p].at = "connected"
  /\ live' = [number |-> stores + 1, conn |-> req[p].conn]
  /\ stores' = stores + 1 /\ failed' = "no"
  /\ req' = [req EXCEPT ![p] = [@ EXCEPT !.at = "invalidate", !.conn = None,
                                         !.got = stores + 1]]
  /\ UNCHANGED <<server, disk, library, bounds, settled, overlapped>>

\* invalidateLibraryCache waits for whoever lists; then Reconnect returns,
\* and after the boot's the cache is warmed.
Invalidate(p) ==
  /\ req[p].at = "invalidate" /\ lock = None
  /\ cache' = None
  /\ settled' = IF req[p].got > settled THEN req[p].got ELSE settled
  /\ IF p = Boot
     THEN req' = [req EXCEPT ![Boot] = [Idle EXCEPT !.call = "library", !.at = "warming",
                                                    !.floor = settled']]
     ELSE Return(p)
  /\ UNCHANGED <<server, disk, live, lock, bounds, stores, overlapped, failed>>

-----------------------------------------------------------------------------
(***************************************************************************)
(* Daemon.Library.  The boot's warming runs in the background.             *)
(***************************************************************************)
Fresh == cache # None /\ cache.fresh
Asking == {"reading", "refreshing", "warming"}
Answer(p, number) ==
  req' = [req EXCEPT ![p] = [@ EXCEPT !.at = "answered", !.conn = None,
                                       !.got = number]]

FromCache(p) ==
  /\ req[p].at \in {"reading", "warming"} /\ lock = None /\ Fresh
  /\ Answer(p, cache.number)
  /\ UNCHANGED <<server, disk, live, library, bounds, stores, settled, overlapped, failed>>

MustList(p) ==
  /\ req[p].at \in Asking /\ lock = None
  /\ Fresh => req[p].at = "refreshing"

StartListingUnlocked(p) ==
  /\ MustList(p)
  /\ req' = [req EXCEPT ![p] = [@ EXCEPT !.at = "listing", !.conn = live]]
  /\ UNCHANGED <<server, disk, live, library, bounds, stores, settled, overlapped, failed>>

\* libraryMu is held, and the connection read once, for the whole listing.
StartListing(p) ==
  /\ MustList(p)
  /\ lock' = p
  /\ req' = [req EXCEPT ![p] = [@ EXCEPT !.at = "listing", !.conn = live]]
  /\ UNCHANGED <<server, disk, live, cache, bounds, stores, settled, overlapped, failed>>

Unlock(p) == lock' = IF lock = p THEN None ELSE lock

\* RomM answers as the connection's report expects, or not.
Answers(conn) ==
  Status(server[conn.conn.target], conn.conn.report.scheme,
         conn.conn.report.capabilities.roms_list) = 200

\* A listing with nothing in it leaves the cache nil.
Listed(p) ==
  /\ req[p].at = "listing" /\ Answers(req[p].conn)
  /\ cache' = IF server[req[p].conn.conn.target].fields = {} THEN None
              ELSE [number |-> req[p].conn.number, fresh |-> TRUE]
  /\ Unlock(p) /\ Answer(p, req[p].conn.number)
  /\ UNCHANGED <<server, disk, live, bounds, stores, settled, overlapped, failed>>

ListingFailsLocked(p) ==
  /\ req[p].at = "listing"
  /\ IF Answers(req[p].conn) THEN Fault ELSE UNCHANGED bounds
  /\ Return(p)
  /\ UNCHANGED <<server, disk, live, library, stores, settled, overlapped, failed>>

ListingFails(p) ==
  /\ req[p].at = "listing"
  /\ IF Answers(req[p].conn) THEN Fault ELSE UNCHANGED bounds
  /\ Unlock(p) /\ Return(p)
  /\ UNCHANGED <<server, disk, live, cache, stores, settled, overlapped, failed>>

Finish(p) ==
  /\ req[p].at = "answered"
  /\ Return(p)
  /\ UNCHANGED <<server, disk, live, library, bounds, stores, settled, overlapped, failed>>

-----------------------------------------------------------------------------
\* libraryCacheTTL passes.
Expire ==
  /\ Fresh
  /\ cache' = [cache EXCEPT !.fresh = FALSE]
  /\ UNCHANGED <<server, disk, live, lock, req, bounds, stores, settled, overlapped, failed>>

\* RomM is upgraded, breaks, loses the token or changes its platforms.
Change(t, s) ==
  /\ s # server[t] /\ Fault
  /\ server' = [server EXCEPT ![t] = s]
  /\ UNCHANGED <<disk, live, library, req, stores, settled, overlapped, failed>>

\* The process ends, and starts again: all but the file is gone.
Crash ==
  /\ Fault
  /\ live' = None /\ lock' = None /\ cache' = None /\ settled' = 0 /\ stores' = 0
  /\ req' = [p \in Procs |-> IF p = Boot THEN [Idle EXCEPT !.at = "boot", !.call = "boot"]
                             ELSE Idle]
  /\ failed' = "no"
  /\ UNCHANGED <<server, disk, overlapped>>

Step(p) ==
  \/ Test(p) \/ Save(p) \/ LoadConfig(p) \/ Probe(p) \/ ResolveThem(p) \/ Store(p)
  \/ Invalidate(p) \/ FromCache(p) \/ StartListing(p) \/ Listed(p) \/ ListingFails(p)
  \/ Finish(p) \/ (p = Boot /\ (Bootstrap \/ Seed \/ Serve))

Request(r) ==
  \/ \E t \in Targets, f \in Prefs : Settings(r, t, f)
  \/ \E w \in Passwords : ChangePassword(r, w)
  \/ \E t \in Targets, w \in Passwords : Setup(r, t, w)
  \/ \E refresh \in BOOLEAN : Library(r, refresh)

Next ==
  \/ \E p \in Procs : Step(p)
  \/ \E r \in Requests : Request(r)
  \/ Expire \/ Crash
  \/ \E t \in Targets, s \in Servers : Change(t, s)

Spec == Init /\ [][Next]_vars

\* Every request to RomM has a timeout, and some goroutine that can go on
\* does: no more than that is asked of the scheduler and of the mutex.
FairSpec == Spec /\ WF_vars(\E p \in Procs : Step(p))

-----------------------------------------------------------------------------
(***************************************************************************)
(* Properties.                                                             *)
(***************************************************************************)
\* "A new RomM connection must never keep serving the previous connection's
\* cached inventory" (library.go, invalidateLibraryCache): whoever asks after
\* a Reconnect has returned is not answered from a connection before it.
ListingsFollowReconnect ==
  \A p \in Procs : req[p].at = "answered" => req[p].got >= req[p].floor

\* Where rewrites of the configuration do not overlap, no Reconnect failed last
\* and no new target was stored behind an error, a daemon at rest is connected
\* to what is stored, over restarts, failed saves and refused servers
\* (daemon.go, Reconnect).
AtRest == \A p \in Procs : ~ Rewriting(p)
ConnectedTo(target) == live # None /\ live.conn.target = target
ConnectedAsStored ==
  AtRest /\ ~ overlapped /\ failed = "no" /\ Configured => ConnectedTo(file.target)

\* "Callers must not assume an error here means the old config is still in
\* effect" (config.go, Save): where no Reconnect failed, a daemon at rest is
\* connected to what is stored, whatever its saves returned.
\* It does not hold: RommSaveError.cfg.
ErrorsAreNotTrusted ==
  AtRest /\ ~ overlapped /\ failed # "connecting" /\ Configured =>
    ConnectedTo(file.target)

\* Every request loads and saves the whole configuration, and none undoes a
\* field another wrote before it, whether it was told of an error behind the
\* rename or not (setup.go: "Preserve whatever bootstrap.go may already have
\* seeded"; settings.go: a blank token keeps the stored).
SavedFieldsStay == ~ overlapped => Stored = acked

\* What the probe made of a server is true of it for as long as the server
\* does not change: it has confirmed the credential ("a server returning 500 to
\* every request would otherwise confirm the first scheme tried", client.go),
\* every required operation is one the server has, the platforms are listed
\* for the token, and a platform's id is one the server has for that slug, alone.
Unchanged == live # None /\ live.conn.of = server[live.conn.target]
AnsweredWith(operation) == Status(live.conn.of, live.conn.report.scheme, operation)
LiveIsUsable ==
  Unchanged =>
    LET s == live.conn.of
        resolved == live.conn.platforms
        found == live.conn.report.capabilities
    IN /\ AnsweredWith(AuthProbe(found)) = 200
       /\ AnsweredWith(found.platforms_list) = 200
       /\ \A id \in Required : found[id] \in s.operations
       /\ \A n \in DOMAIN s.platforms :
            Resolvable(s.platforms[n]) =>
              Cardinality(Lookup(resolved, s.platforms[n].slug)) = 1
       /\ \A p \in resolved : \E n \in DOMAIN s.platforms : s.platforms[n] = p

\* "Connect probes baseURL and returns a ready-to-use client and report, or an
\* error explaining exactly what went wrong" (connect.go): where the server has
\* not changed, the token may use every operation the Bridge requires.
\* It does not hold: RommReady.cfg.
ReadyToUse ==
  Unchanged =>
    \A id \in Required : AnsweredWith(live.conn.report.capabilities[id]) # 403

\* No request hangs: a listing gives libraryMu back on every path, so that
\* neither Library nor Reconnect waits for ever (MaxCalls bounds what comes).
EveryRequestReturns == <>[](\A p \in Procs : req[p].at = "idle")
=============================================================================
