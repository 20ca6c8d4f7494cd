------------------------ MODULE RommConnection_proofs ------------------------
(***************************************************************************)
(* Theorems about RommConnection, for any RomM addresses and servers, and  *)
(* any number of requests at work.  The listing's number is compared with  *)
(* the number of the last settled Reconnect under libraryMu; what is       *)
(* stored is compared with the one request that rewrites it, if there is   *)
(* one; and a connection is what Connect and FetchPlatforms made of the    *)
(* server it remembers.                                                    *)
(***************************************************************************)
EXTENDS RommConnection, FiniteSetTheorems, WellFoundedInduction, TLAPS

Testing == {"testing", "saving"}
Connecting == {"reconnect", "probing", "platforms", "connected"}
Places ==
  {"idle", "boot", "booted", "testing", "saving", "reconnect", "probing", "platforms",
   "connected", "invalidate", "reading", "refreshing", "warming", "listing", "answered"}
Reqs ==
  [at : Places,
   call : {"none", "settings", "password", "setup", "boot", "library"},
   cfg : Configs \cup {None}, report : Reports \cup {None},
   conn : Conns \cup Lives \cup {None}, of : Servers \cup {None},
   floor : Nat, got : Nat]

\* As last saved, field by field.
Acks ==
  [target : Targets \cup {None},
   prefs : Prefs \cup {NoPrefs, EnvPrefs} \cup {c.prefs : c \in Left \ {None}},
   password : Passwords \cup {None} \cup {c.password : c \in Left \ {None}}]

TypeOK ==
  /\ server \in [Targets -> Servers]
  /\ file \in Configs \cup {None} /\ acked \in Acks
  /\ live \in Lives \cup {None} /\ lock \in Procs \cup {None}
  /\ cache \in [number : Nat, fresh : BOOLEAN] \cup {None}
  /\ req \in [Procs -> Reqs]
  /\ stores \in Nat /\ settled \in Nat
  /\ overlapped \in BOOLEAN /\ failed \in Healths

\* What a request has in hand at each place it can be at.
Fits(p) ==
  LET q == req[p] IN
  /\ q.at = "idle" => q.call = "none"
  /\ q.call = "boot" => p = Boot
  /\ q.at \in {"boot", "booted"} => q.call = "boot"
  /\ q.at \in Testing => q.cfg \in Configs /\ Rewriting(p)
  /\ q.at \in Testing /\ p = Boot => q.call = "boot"
  /\ q.at = "testing" => q.call # "password"
  /\ q.at \in Connecting \cup {"invalidate"} => Rewriting(p) /\ file # None
  /\ q.at \in {"probing", "platforms"} => q.cfg \in Configs
  /\ q.at \in Asking \cup {"listing", "answered"} => q.call = "library"
StageFits == \A p \in Procs : Fits(p)

\* Connections by their number: what a listing holds is no older than the last
\* Reconnect that has returned, and nor is the cache, which waits for its lock.
Follows(p) ==
  LET q == req[p] IN
  /\ q.at = "invalidate" => q.got <= stores /\ live # None
  /\ q.at \in Asking \cup {"listing"} => q.floor <= settled /\ live # None
  /\ q.at = "listing" <=> lock = p
  /\ q.at = "listing" => q.conn \in Lives /\ q.conn.number >= settled
  /\ q.at = "answered" => q.got >= q.floor
Numbered ==
  /\ settled <= stores
  /\ live # None => live.number = stores
  /\ cache # None => cache.number >= settled
  /\ \A p \in Procs : Follows(p)

\* A connection that remembers its server was made by Connect and
\* FetchPlatforms of it.
Made(c) ==
  c.of # None => /\ c.report \in Connect(c.of)
                 /\ c.platforms \in FetchPlatforms(c.of, c.report)
InHand(p) ==
  LET q == req[p] IN
  /\ q.at = "platforms" => q.of \in Servers /\ q.report \in Connect(q.of)
  /\ q.at = "connected" \/ (q.at = "saving" /\ p = Boot) =>
       q.conn \in Conns /\ Made(q.conn)
Probed ==
  /\ live # None => Made(live.conn)
  /\ \A p \in Procs : InHand(p)

\* Where rewrites do not overlap: one request at a time has the configuration
\* in hand, and what it leaves alone is as it is stored.
KeepsOthers(cfg, call) ==
  /\ "target" \notin Owned(call) => cfg.target = Stored.target
  /\ "prefs" \notin Owned(call) => cfg.prefs = Stored.prefs
  /\ "password" \notin Owned(call) => cfg.password = Stored.password
OneRewrites ==
  ~overlapped =>
    /\ \A p, q \in Procs : Rewriting(p) /\ Rewriting(q) => p = q
    /\ \A p \in Procs : req[p].at \in Testing => KeepsOthers(req[p].cfg, req[p].call)

\* ... and the live connection is to what is stored, or the one request is on
\* its way to one that is.
Pending(p) ==
  req[p].at \in Connecting \/ (req[p].call = "boot" /\ req[p].at # "invalidate")
Toward(p) ==
  /\ req[p].at \in {"probing", "platforms"} => req[p].cfg.target = Stored.target
  /\ req[p].at = "connected" => req[p].conn.target = Stored.target
OnItsWay ==
  ~overlapped =>
    /\ \A p \in Procs : Toward(p)
    /\ failed = "no" /\ Configured =>
         \/ live # None /\ live.conn.target = Stored.target
         \/ \E p \in Procs : Pending(p)

IInv ==
  /\ TypeOK /\ StageFits /\ Numbered /\ Probed /\ OneRewrites /\ OnItsWay
  /\ SavedFieldsStay

-----------------------------------------------------------------------------
LEMMA Booleans == TRUE \in BOOLEAN /\ FALSE \in BOOLEAN
  OBVIOUS

LEMMA IdleFits ==
  /\ Idle \in Reqs /\ Idle.at = "idle" /\ Idle.call = "none" /\ Idle.floor = 0
  BY DEF Idle, Reqs, Places

LEMMA SetWarming ==
  ASSUME NEW floor_ \in Nat
  PROVE  LET r == [Idle EXCEPT !.call = "library", !.at = "warming",
                               !.floor = floor_] IN
         /\ r \in Reqs
         /\ r.at = "warming" /\ r.call = "library" /\ r.floor = floor_
  BY DEF Idle, Reqs, Places, Asking

LEMMA SetBoot ==
  LET r == [Idle EXCEPT !.at = "boot", !.call = "boot"] IN
  r \in Reqs /\ r.at = "boot" /\ r.call = "boot"
  BY DEF Idle, Reqs, Places

\* What a step does to the requests: p goes on, or ends; the others stay.
Others(p) == /\ req' \in [Procs -> Reqs]
             /\ \A q \in Procs \ {p} : req'[q] = req[q]
Ends(p) == Others(p) /\ req'[p] = Idle
Moves(p, at, cfg, conn, got) ==
  /\ Others(p) /\ req'[p].at = at /\ req'[p].call = req[p].call
  /\ req'[p].floor = req[p].floor /\ req'[p].cfg = cfg /\ req'[p].conn = conn
  /\ req'[p].got = got
Stays(p, at) == Moves(p, at, req[p].cfg, req[p].conn, req[p].got)
Refuses(p) == \/ p = Boot /\ Stays(Boot, "booted")
              \/ p # Boot /\ Ends(p)

LEMMA OneReq ==
  ASSUME TypeOK, NEW p \in Procs, NEW r \in Reqs, req' = [req EXCEPT ![p] = r]
  PROVE  Others(p) /\ req'[p] = r
  BY DEF TypeOK, Others

LEMMA Returns == ASSUME TypeOK, NEW p \in Procs, Return(p) PROVE Ends(p)
  BY OneReq, IdleFits DEF Return, Ends

LEMMA GoesOn ==
  ASSUME TypeOK, NEW p \in Procs, NEW at \in Places, Goto(p, at)
  PROVE  Stays(p, at)
  <1>1. req[p] \in Reqs
    BY DEF TypeOK
  <1> DEFINE new == [req[p] EXCEPT !.at = at]
  <1>2. req' = [req EXCEPT ![p] = new]
    BY DEF Goto, TypeOK
  <1>3. /\ new \in Reqs /\ new.at = at /\ new.call = req[p].call
        /\ new.floor = req[p].floor /\ new.cfg = req[p].cfg
        /\ new.conn = req[p].conn /\ new.got = req[p].got
    BY <1>1 DEF Reqs
  <1> HIDE DEF new
  <1> QED
    BY <1>2, <1>3, OneReq DEF Stays, Moves

LEMMA RefusesIt == ASSUME TypeOK, NEW p \in Procs, Refuse(p) PROVE Refuses(p)
  BY GoesOn, Returns DEF Refuse, Refuses, Places, Procs

-----------------------------------------------------------------------------
\* What each step does, to the requests and to what they share.
BeginDoes(r, call, at, cfg, floor) ==
  /\ Others(r) /\ req[r].at = "idle" /\ req[Boot].call # "boot"
  /\ req'[r].at = at /\ req'[r].call = call /\ req'[r].cfg = cfg
  /\ req'[r].floor = floor
  /\ overlapped' = (overlapped \/ (call # "library" /\ \E q \in Procs : Rewriting(q)))
  /\ UNCHANGED <<server, disk, live, library, stores, settled, failed>>

LEMMA BeginBegins ==
  ASSUME TypeOK, NEW r \in Requests, NEW at \in Places,
         NEW call \in {"settings", "password", "setup", "library"},
         NEW cfg \in Configs \cup {None}, Begin(r, call, at, cfg)
  PROVE  BeginDoes(r, call, at, cfg, IF call = "library" THEN settled ELSE 0)
  <1> DEFINE floor == IF call = "library" THEN settled ELSE 0
             new == [Idle EXCEPT !.at = at, !.call = call, !.cfg = cfg, !.floor = floor]
  <1>1. floor \in Nat
    BY DEF TypeOK
  <1>2. /\ req[r].at = "idle" /\ req[Boot].call # "boot"
        /\ req' = [req EXCEPT ![r] = new]
        /\ overlapped' = (overlapped
                            \/ (call # "library" /\ \E q \in Procs : Rewriting(q)))
        /\ UNCHANGED <<server, disk, live, library, stores, settled, failed>>
    BY DEF Begin
  <1> HIDE DEF floor
  <1>3. /\ new \in Reqs /\ new.at = at /\ new.call = call /\ new.cfg = cfg
        /\ new.floor = floor
    BY <1>1 DEF Idle, Reqs
  <1> HIDE DEF new
  <1>4. Others(r) /\ req'[r] = new
    BY <1>2, <1>3, OneReq DEF Procs
  <1> QED
    BY <1>2, <1>3, <1>4 DEF BeginDoes, floor

LEMMA StoredFits ==
  ASSUME TypeOK
  PROVE  /\ Stored \in Configs \cup {Empty}
         /\ file # None => Stored = file /\ Stored \in Configs
         /\ file = None => Stored = Empty
         /\ Configured => file # None
         /\ Stored.password # None => file # None
  BY NoneIsApart DEF TypeOK, Stored, Configured, Empty

\* A request that rewrites the configuration has it in hand, but for its own
\* fields as it is stored.
Rewrites(r) ==
  \E call \in {"settings", "password", "setup"}, cfg \in Configs,
     at \in Testing :
    /\ BeginDoes(r, call, at, cfg, 0)
    /\ at = "testing" => call # "password"
    /\ KeepsOthers(cfg, call)

LEMMA SettingsDoes ==
  ASSUME TypeOK, NEW r \in Requests, NEW t \in Targets, NEW f \in Prefs,
         Settings(r, t, f)
  PROVE  Rewrites(r)
  <1> DEFINE cfg == [Stored EXCEPT !.target = t, !.prefs = f]
  <1>1. cfg \in Configs /\ cfg.password = Stored.password
    BY StoredFits DEF Configs, Empty
  <1>2. Begin(r, "settings", "saving", cfg)
    BY DEF Settings
  <1> HIDE DEF cfg
  <1>3. BeginDoes(r, "settings", "saving", cfg, 0)
    BY <1>1, <1>2, BeginBegins DEF Places
  <1> QED
    BY <1>1, <1>3 DEF Rewrites, KeepsOthers, Owned, Testing

LEMMA PasswordDoes ==
  ASSUME TypeOK, NEW r \in Requests, NEW w \in Passwords, ChangePassword(r, w)
  PROVE  Rewrites(r)
  <1> DEFINE cfg == [Stored EXCEPT !.password = w]
  <1>1. /\ cfg \in Configs /\ cfg.target = Stored.target
        /\ cfg.prefs = Stored.prefs
    BY StoredFits DEF ChangePassword, Configs
  <1>2. Begin(r, "password", "saving", cfg)
    BY DEF ChangePassword
  <1> HIDE DEF cfg
  <1>3. BeginDoes(r, "password", "saving", cfg, 0)
    BY <1>1, <1>2, BeginBegins DEF Places
  <1> QED
    BY <1>1, <1>3 DEF Rewrites, KeepsOthers, Owned, Testing

LEMMA SetupDoes ==
  ASSUME TypeOK, NEW r \in Requests, NEW t \in Targets, NEW w \in Passwords,
         Setup(r, t, w)
  PROVE  Rewrites(r)
  <1> DEFINE cfg == [Stored EXCEPT !.target = t, !.password = w]
  <1>1. cfg \in Configs /\ cfg.prefs = Stored.prefs
    <2>1. CASE Stored \in Configs
      BY <2>1 DEF Configs
    <2>2. CASE Stored = Empty
      <3> DEFINE afresh == [Empty EXCEPT !.target = t, !.password = w]
      <3>1. cfg = afresh
        BY <2>2
      <3>2. afresh \in Configs /\ afresh.prefs = Empty.prefs
        BY DEF Empty, Configs
      <3> HIDE DEF afresh, cfg
      <3> QED
        BY <2>2, <3>1, <3>2
    <2> QED
      BY <2>1, <2>2, StoredFits
  <1>2. Begin(r, "setup", "testing", cfg)
    BY DEF Setup
  <1> HIDE DEF cfg
  <1>3. BeginDoes(r, "setup", "testing", cfg, 0)
    BY <1>1, <1>2, BeginBegins DEF Places
  <1> QED
    BY <1>1, <1>3 DEF Rewrites, KeepsOthers, Owned, Testing

LEMMA LibraryDoes ==
  ASSUME TypeOK, NEW r \in Requests, NEW refresh \in BOOLEAN, Library(r, refresh)
  PROVE  /\ live # None
         /\ \E at \in {"reading", "refreshing"} :
              BeginDoes(r, "library", at, None, settled)
  <1>1. live # None /\ (Begin(r, "library", "refreshing", None)
                          \/ Begin(r, "library", "reading", None))
    BY DEF Library
  <1> QED
    BY <1>1, BeginBegins DEF Places

LEMMA BootstrapDoes ==
  ASSUME TypeOK, StageFits, Bootstrap
  PROVE  /\ req[Boot].at = "boot"
         /\ UNCHANGED <<server, disk, live, library, stores, settled, overlapped,
                        failed>>
         /\ \/ Stays(Boot, "booted")
            \/ \E cfg \in Configs :
                 /\ file = None /\ cfg.password = Empty.password
                 /\ Moves(Boot, "testing", cfg, req[Boot].conn, req[Boot].got)
  <1> DEFINE cfg == [Empty EXCEPT !.target = EnvTarget, !.prefs = EnvPrefs]
             new == [req[Boot] EXCEPT !.at = "testing", !.cfg = cfg]
             old == [req[Boot] EXCEPT !.at = "booted"]
  <1>1. Boot \in Procs /\ req[Boot] \in Reqs
    BY DEF TypeOK, Procs
  <1>2. EnvTarget # None => cfg \in Configs /\ cfg.password = Empty.password
    BY EnvAssumption DEF Configs, Empty
  <1>3. /\ req[Boot].at = "boot"
        /\ UNCHANGED <<server, disk, live, library, stores, settled, overlapped, failed>>
        /\ req' = [req EXCEPT ![Boot] = IF file = None /\ EnvTarget # None
                                        THEN new ELSE old]
    BY <1>1 DEF Bootstrap, TypeOK, bounds
  <1>4. CASE file = None /\ EnvTarget # None
    <2> HIDE DEF cfg
    <2>1. /\ new \in Reqs /\ new.at = "testing" /\ new.call = req[Boot].call
          /\ new.floor = req[Boot].floor /\ new.cfg = cfg
          /\ new.conn = req[Boot].conn /\ new.got = req[Boot].got
      BY <1>1, <1>2, <1>4 DEF Reqs, Places
    <2> HIDE DEF new
    <2>2. Others(Boot) /\ req'[Boot] = new
      BY <1>1, <1>3, <1>4, <2>1, OneReq
    <2> QED
      BY <1>2, <1>3, <1>4, <2>1, <2>2 DEF Moves
  <1>5. CASE ~(file = None /\ EnvTarget # None)
    <2>1. /\ old \in Reqs /\ old.at = "booted" /\ old.call = req[Boot].call
          /\ old.floor = req[Boot].floor /\ old.cfg = req[Boot].cfg
          /\ old.conn = req[Boot].conn /\ old.got = req[Boot].got
      BY <1>1 DEF Reqs, Places
    <2> HIDE DEF old
    <2>2. Others(Boot) /\ req'[Boot] = old
      BY <1>1, <1>3, <1>5, <2>1, OneReq
    <2> QED
      BY <1>3, <2>1, <2>2 DEF Moves, Stays
  <1> QED
    BY <1>4, <1>5

LEMMA ServeDoes ==
  ASSUME TypeOK, Serve
  PROVE  /\ req[Boot].at = "booted"
         /\ UNCHANGED <<server, disk, live, library, stores, settled, overlapped,
                        failed>>
         /\ \/ Configured /\ Stays(Boot, "reconnect")
            \/ ~Configured /\ Ends(Boot)
  BY GoesOn, Returns DEF Serve, Places, Procs, bounds

\* What ConnectAndResolvePlatforms makes was made by both.
LEMMA ConnectionsAreMade ==
  ASSUME TypeOK, NEW t \in Targets, NEW c \in Connections(t)
  PROVE  c \in Conns /\ Made(c) /\ c.target = t
  <1>1. server[t] \in Servers
    BY DEF TypeOK
  <1>2. \E r \in Connect(server[t]) : \E f \in FetchPlatforms(server[t], r) :
          c = [target |-> t, report |-> r, platforms |-> f, of |-> server[t]]
    BY DEF Connections
  <1>6. PICK r \in Connect(server[t]) : \E f \in FetchPlatforms(server[t], r) :
          c = [target |-> t, report |-> r, platforms |-> f, of |-> server[t]]
    BY <1>2
  <1>7. PICK f \in FetchPlatforms(server[t], r) :
          c = [target |-> t, report |-> r, platforms |-> f, of |-> server[t]]
    BY <1>6
  <1>3. r \in Reports
    BY <1>1, <1>6 DEF Reports
  <1>4. f \in Resolved
    BY <1>1, <1>3, <1>7 DEF Resolved
  <1> DEFINE s == server[t]
  <1>5. s \in Servers /\ r \in Connect(s) /\ f \in FetchPlatforms(s, r)
        /\ c = [target |-> t, report |-> r, platforms |-> f, of |-> s]
    BY <1>1, <1>6, <1>7
  <1> HIDE DEF s
  <1> QED
    BY <1>3, <1>4, <1>5 DEF Conns, Made

LEMMA TestDoes ==
  ASSUME TypeOK, StageFits, NEW p \in Procs, Test(p)
  PROVE  /\ req[p].at = "testing"
         /\ UNCHANGED <<server, disk, live, library, stores, settled, overlapped,
                        failed>>
         /\ \/ /\ p = Boot
               /\ \E c \in Conns :
                    Made(c) /\ c.target = req[p].cfg.target
                    /\ Moves(p, "saving", req[p].cfg, c, req[p].got)
            \/ p # Boot /\ Stays(p, "saving")
            \/ Refuses(p)
  <1> DEFINE target == req[p].cfg.target
  <1>1. /\ req[p].at = "testing"
        /\ UNCHANGED <<server, disk, live, library, stores, settled, overlapped, failed>>
        /\ \/ /\ p = Boot
              /\ \E c \in Connections(target) :
                   req' = [req EXCEPT ![p] = [@ EXCEPT !.at = "saving", !.conn = c]]
           \/ p # Boot /\ Goto(p, "saving")
           \/ Refuse(p)
    BY DEF Test
  <1>2. req[p] \in Reqs /\ target \in Targets
    BY <1>1 DEF TypeOK, StageFits, Fits, Testing, Configs
  <1>3. ASSUME NEW c \in Connections(target),
               req' = [req EXCEPT ![p] = [@ EXCEPT !.at = "saving", !.conn = c]]
        PROVE  /\ c \in Conns /\ Made(c) /\ c.target = target
               /\ Moves(p, "saving", req[p].cfg, c, req[p].got)
    <2> HIDE DEF target
    <2>1. c \in Conns /\ Made(c) /\ c.target = target
      BY <1>2, <1>3, ConnectionsAreMade
    <2> DEFINE new == [req[p] EXCEPT !.at = "saving", !.conn = c]
    <2>2. req' = [req EXCEPT ![p] = new]
      BY <1>3 DEF TypeOK
    <2>3. /\ new \in Reqs /\ new.at = "saving" /\ new.call = req[p].call
          /\ new.floor = req[p].floor /\ new.cfg = req[p].cfg
          /\ new.conn = c /\ new.got = req[p].got
      BY <1>2, <2>1 DEF Reqs, Places
    <2> HIDE DEF new
    <2> QED
      BY <2>1, <2>2, <2>3, OneReq DEF Moves
  <1>4. Goto(p, "saving") => Stays(p, "saving")
    BY GoesOn DEF Places
  <1>5. Refuse(p) => Refuses(p)
    BY RefusesIt
  <1> HIDE DEF target
  <1>6. CASE p = Boot /\ \E c \in Connections(target) :
               req' = [req EXCEPT ![p] = [@ EXCEPT !.at = "saving", !.conn = c]]
    BY <1>1, <1>3, <1>6 DEF target
  <1> QED
    BY <1>1, <1>4, <1>5, <1>6

LEMMA SaveDoes ==
  ASSUME TypeOK, StageFits, NEW p \in Procs, Save(p)
  PROVE  /\ req[p].at = "saving" /\ p # Boot
         /\ UNCHANGED <<server, live, library, stores, settled, overlapped>>
         /\ \/ /\ Renamed(p) /\ UNCHANGED failed
               /\ \/ req[p].call = "password" /\ Ends(p)
                  \/ req[p].call # "password" /\ Stays(p, "reconnect")
            \/ UNCHANGED <<disk, failed>> /\ Ends(p)
            \/ /\ Renamed(p) /\ Ends(p)
               /\ failed' = IF req[p].cfg.target = Stored.target THEN failed
                            ELSE "saving"
  <1>1. Goto(p, "reconnect") => Stays(p, "reconnect")
    BY GoesOn DEF Places
  <1>2. Return(p) => Ends(p)
    BY Returns
  <1> QED
    BY <1>1, <1>2 DEF Save, Refuse, Renamed

LEMMA SeedDoes ==
  ASSUME TypeOK, StageFits, Seed
  PROVE  /\ req[Boot].at = "saving" /\ req[Boot].call = "boot" /\ Stays(Boot, "booted")
         /\ UNCHANGED <<server, library, settled, overlapped, failed>>
         /\ \/ /\ Renamed(Boot) /\ stores' = stores + 1
               /\ live' = [number |-> stores + 1, conn |-> req[Boot].conn]
            \/ /\ Renamed(Boot) \/ UNCHANGED disk
               /\ UNCHANGED <<live, stores>>
  <1>1. Goto(Boot, "booted") => Stays(Boot, "booted")
    BY GoesOn DEF Places, Procs
  <1>2. req[Boot].at = "saving" => req[Boot].call = "boot"
    BY DEF StageFits, Fits, Testing, Procs
  <1> QED
    BY <1>1, <1>2 DEF Seed, Refuse, Renamed

LEMMA LoadConfigDoes ==
  ASSUME TypeOK, StageFits, NEW p \in Procs, LoadConfig(p)
  PROVE  /\ req[p].at = "reconnect" /\ Stored \in Configs
         /\ Moves(p, "probing", Stored, req[p].conn, req[p].got)
         /\ UNCHANGED <<server, disk, live, library, stores, settled, overlapped,
                        failed>>
  <1> DEFINE new == [req[p] EXCEPT !.at = "probing", !.cfg = Stored]
  <1>1. /\ req[p].at = "reconnect"
        /\ UNCHANGED <<server, disk, live, library, stores, settled, overlapped, failed>>
        /\ req' = [req EXCEPT ![p] = new] /\ req[p] \in Reqs
    BY DEF LoadConfig, TypeOK, bounds
  <1>2. Stored \in Configs
    BY <1>1, StoredFits DEF StageFits, Fits, Connecting
  <1>3. /\ new \in Reqs /\ new.at = "probing" /\ new.call = req[p].call
        /\ new.floor = req[p].floor /\ new.cfg = Stored
        /\ new.conn = req[p].conn /\ new.got = req[p].got
    BY <1>1, <1>2 DEF Reqs, Places
  <1> HIDE DEF new
  <1> QED
    BY <1>1, <1>2, <1>3, OneReq DEF Moves

LEMMA ProbeDoes ==
  ASSUME TypeOK, StageFits, NEW p \in Procs, Probe(p)
  PROVE  /\ req[p].at = "probing"
         /\ UNCHANGED <<server, disk, live, library, stores, settled, overlapped>>
         /\ \/ /\ Stays(p, "platforms") /\ UNCHANGED failed
               /\ req'[p].of \in Servers /\ req'[p].report \in Connect(req'[p].of)
            \/ Ends(p) /\ failed' = "connecting"
  <1> DEFINE there == server[req[p].cfg.target]
  <1>1. /\ req[p].at = "probing"
        /\ UNCHANGED <<server, disk, live, library, stores, settled, overlapped>>
        /\ \/ /\ UNCHANGED failed
              /\ \E report \in Connect(there) :
                   req' = [req EXCEPT ![p] = [@ EXCEPT !.at = "platforms",
                                                       !.report = report, !.of = there]]
           \/ NotConnected(p)
    BY DEF Probe
  <1>2. req[p] \in Reqs /\ there \in Servers
    BY <1>1 DEF TypeOK, StageFits, Fits, Configs
  <1>3. ASSUME NEW report \in Connect(there), UNCHANGED failed,
               req' = [req EXCEPT ![p] = [@ EXCEPT !.at = "platforms",
                                                   !.report = report, !.of = there]]
        PROVE  /\ Stays(p, "platforms") /\ UNCHANGED failed
               /\ req'[p].of \in Servers /\ req'[p].report \in Connect(req'[p].of)
    <2> HIDE DEF there
    <2> DEFINE new == [req[p] EXCEPT !.at = "platforms", !.report = report, !.of = there]
    <2>1. report \in Reports
      BY <1>2, <1>3 DEF Reports
    <2>2. req' = [req EXCEPT ![p] = new]
      BY <1>3 DEF TypeOK
    <2>3. /\ new \in Reqs /\ new.at = "platforms" /\ new.call = req[p].call
          /\ new.floor = req[p].floor /\ new.cfg = req[p].cfg
          /\ new.conn = req[p].conn /\ new.got = req[p].got
          /\ new.report = report /\ new.of = there
      BY <1>2, <2>1 DEF Reqs, Places
    <2> HIDE DEF new
    <2>4. Others(p) /\ req'[p] = new
      BY <2>2, <2>3, OneReq
    <2> QED
      BY <1>2, <1>3, <2>3, <2>4 DEF Moves, Stays
  <1>4. NotConnected(p) => Ends(p) /\ failed' = "connecting"
    BY Returns DEF NotConnected
  <1> HIDE DEF there
  <1> QED
    BY <1>1, <1>3, <1>4

LEMMA ResolveThemDoes ==
  ASSUME TypeOK, StageFits, Probed, NEW p \in Procs, ResolveThem(p)
  PROVE  /\ req[p].at = "platforms"
         /\ UNCHANGED <<server, disk, live, library, stores, settled, overlapped>>
         /\ \/ /\ UNCHANGED failed
               /\ \E c \in Conns :
                    Made(c) /\ c.target = req[p].cfg.target
                    /\ Moves(p, "connected", None, c, req[p].got)
            \/ Ends(p) /\ failed' = "connecting"
  <1> DEFINE target == req[p].cfg.target
             found == FetchPlatforms(server[target], req[p].report)
             of == IF req[p].of = server[target] THEN req[p].of ELSE None
             new(platforms) ==
               [req[p] EXCEPT !.at = "connected", !.cfg = None, !.report = None,
                  !.of = None,
                  !.conn = [target |-> target, report |-> req[p].report,
                            platforms |-> platforms, of |-> of]]
  <1>1. /\ req[p].at = "platforms"
        /\ UNCHANGED <<server, disk, live, library, stores, settled, overlapped>>
        /\ \/ /\ UNCHANGED failed
              /\ \E platforms \in found :
                   req' = [req EXCEPT ![p] = new(platforms)]
           \/ NotConnected(p)
    BY DEF ResolveThem, TypeOK
  <1>2. /\ req[p] \in Reqs /\ target \in Targets /\ server[target] \in Servers
        /\ req[p].of \in Servers /\ req[p].report \in Connect(req[p].of)
    BY <1>1 DEF TypeOK, StageFits, Fits, Configs, Probed, InHand
  <1>3. ASSUME NEW platforms \in found, req' = [req EXCEPT ![p] = new(platforms)]
        PROVE  \E c \in Conns :
                 Made(c) /\ c.target = target
                 /\ Moves(p, "connected", None, c, req[p].got)
    <2> DEFINE c == [target |-> target, report |-> req[p].report,
                     platforms |-> platforms, of |-> of]
    <2>1. req[p].report \in Reports
      BY <1>2 DEF Reports
    <2>2. platforms \in Resolved
      BY <1>2, <1>3, <2>1 DEF Resolved
    <2>3. of \in Servers \cup {None}
      BY <1>2
    <2>4. of # None => of = req[p].of /\ of = server[target]
      OBVIOUS
    <2>5. of # None => /\ req[p].report \in Connect(of)
                       /\ platforms \in FetchPlatforms(of, req[p].report)
      BY <1>2, <1>3, <2>4
    <2> HIDE DEF of, found
    <2>6. c \in Conns /\ Made(c) /\ c.target = target
      <3> HIDE DEF target
      <3> QED
        BY <1>2, <2>1, <2>2, <2>3, <2>5 DEF Conns, Made
    <2> DEFINE n == [req[p] EXCEPT !.at = "connected", !.cfg = None, !.report = None,
                                   !.of = None, !.conn = c]
    <2>7. req' = [req EXCEPT ![p] = n]
      BY <1>3
    <2> HIDE DEF c
    <2>8. /\ n \in Reqs /\ n.at = "connected" /\ n.call = req[p].call
          /\ n.floor = req[p].floor /\ n.cfg = None
          /\ n.conn = c /\ n.got = req[p].got
      BY <1>2, <2>6 DEF Reqs, Places
    <2> HIDE DEF n
    <2>9. Others(p) /\ req'[p] = n
      BY <2>7, <2>8, OneReq
    <2> QED
      BY <2>6, <2>8, <2>9 DEF Moves
  <1>4. NotConnected(p) => Ends(p) /\ failed' = "connecting"
    BY Returns DEF NotConnected
  <1> HIDE DEF target, found, new
  <1>5. CASE \E platforms \in found : req' = [req EXCEPT ![p] = new(platforms)]
    <2>1. \E c \in Conns : Made(c) /\ c.target = target
                           /\ Moves(p, "connected", None, c, req[p].got)
      BY <1>3, <1>5
    <2> QED
      BY <1>1, <1>4, <2>1 DEF target
  <1> QED
    BY <1>1, <1>4, <1>5

LEMMA StoreDoes ==
  ASSUME TypeOK, NEW p \in Procs, Store(p)
  PROVE  /\ req[p].at = "connected"
         /\ Moves(p, "invalidate", req[p].cfg, None, stores + 1)
         /\ live' = [number |-> stores + 1, conn |-> req[p].conn]
         /\ stores' = stores + 1 /\ failed' = "no"
         /\ UNCHANGED <<server, disk, library, settled, overlapped>>
  <1> DEFINE new == [req[p] EXCEPT !.at = "invalidate", !.conn = None,
                                   !.got = stores + 1]
  <1>1. /\ req[p].at = "connected" /\ req[p] \in Reqs /\ stores + 1 \in Nat
        /\ live' = [number |-> stores + 1, conn |-> req[p].conn]
        /\ stores' = stores + 1 /\ failed' = "no"
        /\ UNCHANGED <<server, disk, library, settled, overlapped>>
        /\ req' = [req EXCEPT ![p] = new]
    BY DEF Store, TypeOK, bounds
  <1>2. /\ new \in Reqs /\ new.at = "invalidate" /\ new.call = req[p].call
        /\ new.floor = req[p].floor /\ new.cfg = req[p].cfg
        /\ new.conn = None /\ new.got = stores + 1
    BY <1>1 DEF Reqs, Places
  <1> HIDE DEF new
  <1> QED
    BY <1>1, <1>2, OneReq DEF Moves

LEMMA InvalidateDoes ==
  ASSUME TypeOK, NEW p \in Procs, Invalidate(p)
  PROVE  /\ req[p].at = "invalidate" /\ lock = None /\ cache' = None
         /\ settled' = IF req[p].got > settled THEN req[p].got ELSE settled
         /\ settled' \in Nat
         /\ UNCHANGED <<server, disk, live, lock, stores, overlapped, failed>>
         /\ \/ /\ p = Boot /\ Others(p) /\ req'[p].at = "warming"
               /\ req'[p].call = "library" /\ req'[p].floor = settled'
            \/ p # Boot /\ Ends(p)
  <1> DEFINE new == [Idle EXCEPT !.call = "library", !.at = "warming",
                                 !.floor = settled']
  <1>1. /\ req[p].at = "invalidate" /\ lock = None /\ cache' = None
        /\ settled' = IF req[p].got > settled THEN req[p].got ELSE settled
        /\ UNCHANGED <<server, disk, live, lock, stores, overlapped, failed>>
        /\ \/ p = Boot /\ req' = [req EXCEPT ![p] = new]
           \/ p # Boot /\ Return(p)
    BY DEF Invalidate, bounds
  <1>2. settled' \in Nat
    <2>1. req[p].got \in Nat /\ settled \in Nat
      BY DEF TypeOK, Reqs
    <2> QED
      BY <1>1, <2>1
  <1>3. /\ new \in Reqs /\ new.at = "warming" /\ new.call = "library"
        /\ new.floor = settled'
    BY <1>2, SetWarming
  <1> HIDE DEF new
  <1>4. req' = [req EXCEPT ![p] = new] => Others(p) /\ req'[p] = new
    BY <1>3, OneReq
  <1>5. Return(p) => Ends(p)
    BY Returns
  <1> QED
    BY <1>1, <1>2, <1>3, <1>4, <1>5

LEMMA AnswerDoes ==
  ASSUME TypeOK, NEW p \in Procs, NEW n \in Nat, Answer(p, n)
  PROVE  Moves(p, "answered", req[p].cfg, None, n)
  <1> DEFINE new == [req[p] EXCEPT !.at = "answered", !.conn = None, !.got = n]
  <1>1. req[p] \in Reqs /\ req' = [req EXCEPT ![p] = new]
    BY DEF Answer, TypeOK
  <1>2. /\ new \in Reqs /\ new.at = "answered" /\ new.call = req[p].call
        /\ new.floor = req[p].floor /\ new.cfg = req[p].cfg
        /\ new.conn = None /\ new.got = n
    BY <1>1 DEF Reqs, Places
  <1> HIDE DEF new
  <1> QED
    BY <1>1, <1>2, OneReq DEF Moves

LEMMA FromCacheDoes ==
  ASSUME TypeOK, NEW p \in Procs, FromCache(p)
  PROVE  /\ req[p].at \in {"reading", "warming"} /\ cache # None
         /\ Moves(p, "answered", req[p].cfg, None, cache.number)
         /\ UNCHANGED <<server, disk, live, library, stores, settled, overlapped,
                        failed>>
  <1>1. cache # None /\ cache.number \in Nat
    BY DEF FromCache, Fresh, TypeOK
  <1> QED
    BY <1>1, AnswerDoes DEF FromCache, bounds

LEMMA StartListingDoes ==
  ASSUME TypeOK, NEW p \in Procs, StartListing(p)
  PROVE  /\ req[p].at \in Asking /\ lock = None /\ lock' = p
         /\ Moves(p, "listing", req[p].cfg, live, req[p].got)
         /\ UNCHANGED <<server, disk, live, cache, stores, settled, overlapped, failed>>
  <1> DEFINE new == [req[p] EXCEPT !.at = "listing", !.conn = live]
  <1>1. /\ req[p].at \in Asking /\ lock = None /\ lock' = p
        /\ req' = [req EXCEPT ![p] = new] /\ req[p] \in Reqs
        /\ live \in Conns \cup Lives \cup {None}
        /\ UNCHANGED <<server, disk, live, cache, stores, settled, overlapped, failed>>
    BY DEF StartListing, MustList, TypeOK, bounds
  <1>2. /\ new \in Reqs /\ new.at = "listing" /\ new.call = req[p].call
        /\ new.floor = req[p].floor /\ new.cfg = req[p].cfg
        /\ new.conn = live /\ new.got = req[p].got
    BY <1>1 DEF Reqs, Places
  <1> HIDE DEF new
  <1> QED
    BY <1>1, <1>2, OneReq DEF Moves

LEMMA ListedDoes ==
  ASSUME TypeOK, Numbered, NEW p \in Procs, Listed(p)
  PROVE  /\ req[p].at = "listing" /\ lock = p /\ lock' = None
         /\ req[p].conn.number \in Nat
         /\ Moves(p, "answered", req[p].cfg, None, req[p].conn.number)
         /\ cache' = None \/ cache' = [number |-> req[p].conn.number, fresh |-> TRUE]
         /\ UNCHANGED <<server, disk, live, stores, settled, overlapped, failed>>
  <1>1. req[p].at = "listing"
    BY DEF Listed
  <1>2. lock = p /\ req[p].conn.number \in Nat
    BY <1>1 DEF Numbered, Follows, Lives
  <1> QED
    BY <1>1, <1>2, AnswerDoes DEF Listed, Unlock, bounds

LEMMA ListingFailsDoes ==
  ASSUME TypeOK, Numbered, NEW p \in Procs, ListingFails(p)
  PROVE  /\ req[p].at = "listing" /\ lock = p /\ lock' = None /\ Ends(p)
         /\ UNCHANGED <<server, disk, live, cache, stores, settled, overlapped, failed>>
  BY Returns DEF ListingFails, Unlock, Numbered, Follows

LEMMA FinishDoes ==
  ASSUME TypeOK, NEW p \in Procs, Finish(p)
  PROVE  /\ req[p].at = "answered" /\ Ends(p)
         /\ UNCHANGED <<server, disk, live, library, stores, settled, overlapped,
                        failed>>
  BY Returns DEF Finish, bounds

LEMMA ExpireDoes ==
  ASSUME TypeOK, Expire
  PROVE  /\ cache # None /\ cache' \in [number : Nat, fresh : BOOLEAN]
         /\ cache'.number = cache.number
         /\ UNCHANGED <<server, disk, live, lock, req, stores, settled, overlapped,
                        failed>>
  <1>1. cache \in [number : Nat, fresh : BOOLEAN] /\ cache # None
    BY DEF Expire, Fresh, TypeOK
  <1> QED
    BY <1>1, Booleans DEF Expire, bounds

LEMMA CrashDoes ==
  ASSUME TypeOK, Crash
  PROVE  /\ live' = None /\ lock' = None /\ cache' = None /\ settled' = 0
         /\ stores' = 0 /\ failed' = "no" /\ req' \in [Procs -> Reqs]
         /\ req'[Boot].at = "boot" /\ req'[Boot].call = "boot"
         /\ \A p \in Procs \ {Boot} : req'[p] = Idle
         /\ UNCHANGED <<server, disk, overlapped>>
  BY IdleFits, SetBoot DEF Crash, Procs

-----------------------------------------------------------------------------
\* Saving: the file is what the request has in hand, and so is each field it owns.
LEMMA SavedAre ==
  ASSUME TypeOK, NEW p \in Procs, req[p].cfg \in Configs, Renamed(p)
  PROVE  /\ file' = req[p].cfg /\ file' \in Configs /\ Stored' = req[p].cfg
         /\ Configured' /\ acked' \in Acks
         /\ acked = Stored /\ KeepsOthers(req[p].cfg, req[p].call) =>
              acked' = req[p].cfg
  <1> DEFINE cfg == req[p].cfg
             prefs == Prefs \cup {NoPrefs, EnvPrefs} \cup {c.prefs : c \in Left \ {None}}
             passwords == Passwords \cup {None}
                            \cup {c.password : c \in Left \ {None}}
             fields == {"target", "prefs", "password"}
  <1>1. /\ cfg \in [target : Targets, prefs : prefs, password : passwords]
        /\ acked \in [target : Targets \cup {None}, prefs : prefs, password : passwords]
    BY DEF TypeOK, Configs, Acks
  <1>2. /\ file' = cfg /\ cfg \in Configs /\ cfg # None /\ cfg.target # None
    BY NoneIsApart DEF Renamed, Configs
  <1>3. Stored' = cfg /\ Configured'
    BY <1>2 DEF Stored, Configured
  <1>4. acked' = [f \in DOMAIN acked |-> IF f \in Owned(req[p].call) THEN cfg[f]
                                         ELSE acked[f]]
    BY DEF Renamed
  <1> HIDE DEF prefs, passwords, cfg
  <1>5. DOMAIN acked = fields
    BY <1>1
  <1>6. /\ cfg["target"] = cfg.target /\ cfg["prefs"] = cfg.prefs
        /\ cfg["password"] = cfg.password
        /\ acked["target"] = acked.target /\ acked["prefs"] = acked.prefs
        /\ acked["password"] = acked.password
    OBVIOUS
  <1> DEFINE owned == Owned(req[p].call)
             new == [target |-> IF "target" \in owned THEN cfg.target ELSE acked.target,
                     prefs |-> IF "prefs" \in owned THEN cfg.prefs ELSE acked.prefs,
                     password |-> IF "password" \in owned THEN cfg.password
                                  ELSE acked.password]
  <1>7. acked' = new
    <2> HIDE DEF owned
    <2>1. acked' = [f \in fields |-> IF f \in owned THEN cfg[f] ELSE acked[f]]
      BY <1>4, <1>5 DEF owned
    <2> QED
      BY <2>1
  <1> HIDE DEF owned
  <1>8. new \in Acks
    BY <1>1 DEF Acks, prefs, passwords
  <1>9. ASSUME acked = Stored, KeepsOthers(cfg, req[p].call)
        PROVE  acked' = cfg
    <2>1. new.target = cfg.target /\ new.prefs = cfg.prefs /\ new.password = cfg.password
      BY <1>9 DEF KeepsOthers, owned
    <2>2. new = [target |-> cfg.target, prefs |-> cfg.prefs, password |-> cfg.password]
      BY <2>1
    <2>3. cfg = [target |-> cfg.target, prefs |-> cfg.prefs, password |-> cfg.password]
      BY <1>1
    <2> QED
      BY <1>7, <2>2, <2>3
  <1> QED
    BY <1>2, <1>3, <1>7, <1>8, <1>9 DEF cfg

\* Every variable has its type, whatever the step.
LEMMA StepTypeOK ==
  ASSUME IInv, [Next]_vars
  PROVE  TypeOK'
  <1>a. TypeOK /\ StageFits /\ Numbered /\ Probed /\ OneRewrites /\ OnItsWay
        /\ SavedFieldsStay
    BY DEF IInv
  <1>b. Boot \in Procs
    BY DEF Procs
  <1>Rewrites. ASSUME NEW r \in Requests, Rewrites(r)
               PROVE  TypeOK'
    BY <1>a, <1>Rewrites DEF TypeOK, Rewrites, BeginDoes, Others, disk, library
  <1>Library. ASSUME NEW r \in Requests, NEW refresh \in BOOLEAN, Library(r, refresh)
              PROVE  TypeOK'
    BY <1>a, <1>Library, LibraryDoes DEF TypeOK, BeginDoes, Others, disk, library
  <1>Bootstrap. ASSUME Bootstrap
                PROVE  TypeOK'
    BY <1>a, <1>b, <1>Bootstrap, BootstrapDoes
       DEF TypeOK, Others, Moves, Stays, Ends, Refuses, disk, library
  <1>Serve. ASSUME Serve
            PROVE  TypeOK'
    BY <1>a, <1>b, <1>Serve, ServeDoes
       DEF TypeOK, Others, Moves, Stays, Ends, Refuses, disk, library
  <1>Seed. ASSUME Seed
           PROVE  TypeOK'
    <2>1. /\ req[Boot].conn \in Conns /\ stores \in Nat /\ req[Boot].cfg \in Configs
      BY <1>a, <1>b, <1>Seed, SeedDoes
         DEF TypeOK, Probed, InHand, StageFits, Fits, Testing
    <2>2. [number |-> stores + 1, conn |-> req[Boot].conn] \in Lives
      BY <2>1 DEF Lives
    <2>3. live' \in Lives \cup {None} /\ stores' \in Nat
      BY <1>a, <2>1, <2>2, <1>Seed, SeedDoes DEF TypeOK
    <2>4. file' \in Configs \cup {None} /\ acked' \in Acks
      BY <1>a, <1>b, <2>1, <1>Seed, SeedDoes, SavedAre DEF TypeOK, disk
    <2> QED
      BY <1>a, <2>3, <2>4, <1>Seed, SeedDoes DEF TypeOK, Stays, Moves, Others, library
  <1>Test. ASSUME NEW p \in Procs, Test(p)
           PROVE  TypeOK'
    BY <1>a, <1>b, <1>Test, TestDoes
       DEF TypeOK, Others, Moves, Stays, Ends, Refuses, disk, library
  <1>Save. ASSUME NEW p \in Procs, Save(p)
           PROVE  TypeOK'
    <2>1. req[p].cfg \in Configs
      BY <1>a, <1>Save, SaveDoes DEF StageFits, Fits, Testing
    <2>2. file' \in Configs \cup {None} /\ acked' \in Acks
      BY <1>a, <2>1, <1>Save, SaveDoes, SavedAre DEF TypeOK, disk
    <2>3. failed' \in Healths
      BY <1>a, <1>Save, SaveDoes DEF TypeOK, Healths
    <2> QED
      BY <1>a, <2>2, <2>3, <1>Save, SaveDoes
         DEF TypeOK, Ends, Stays, Moves, Others, library
  <1>LoadConfig. ASSUME NEW p \in Procs, LoadConfig(p)
                 PROVE  TypeOK'
    BY <1>a, <1>b, <1>LoadConfig, LoadConfigDoes
       DEF TypeOK, Others, Moves, Stays, Ends, Refuses, disk, library
  <1>Probe. ASSUME NEW p \in Procs, Probe(p)
            PROVE  TypeOK'
    BY <1>a, <1>b, <1>Probe, ProbeDoes
       DEF TypeOK, Healths, Others, Moves, Stays, Ends, Refuses, disk, library
  <1>ResolveThem. ASSUME NEW p \in Procs, ResolveThem(p)
                  PROVE  TypeOK'
    BY <1>a, <1>b, <1>ResolveThem, ResolveThemDoes
       DEF TypeOK, Healths, Others, Moves, Stays, Ends, Refuses, disk, library
  <1>Store. ASSUME NEW p \in Procs, Store(p)
            PROVE  TypeOK'
    <2>1. req[p].conn \in Conns /\ stores \in Nat
      BY <1>a, <1>Store, StoreDoes DEF TypeOK, Probed, InHand
    <2>2. [number |-> stores + 1, conn |-> req[p].conn] \in Lives
      BY <2>1 DEF Lives
    <2>5. /\ live' = [number |-> stores + 1, conn |-> req[p].conn]
          /\ stores' = stores + 1
      BY <1>a, <1>Store, StoreDoes
    <2>3. live' \in Lives /\ stores' \in Nat
      BY <2>1, <2>2, <2>5
    <2>4. failed' \in Healths
      BY <1>a, <1>Store, StoreDoes DEF Healths
    <2> QED
      BY <1>a, <2>3, <2>4, <1>Store, StoreDoes DEF TypeOK, Others, Moves, disk, library
  <1>Invalidate. ASSUME NEW p \in Procs, Invalidate(p)
                 PROVE  TypeOK'
    BY <1>a, <1>b, <1>Invalidate, InvalidateDoes
       DEF TypeOK, Others, Moves, Stays, Ends, Refuses, disk, library
  <1>FromCache. ASSUME NEW p \in Procs, FromCache(p)
                PROVE  TypeOK'
    BY <1>a, <1>b, <1>FromCache, FromCacheDoes
       DEF TypeOK, Others, Moves, Stays, Ends, Refuses, disk, library
  <1>StartListing. ASSUME NEW p \in Procs, StartListing(p)
                   PROVE  TypeOK'
    BY <1>a, <1>b, <1>StartListing, StartListingDoes
       DEF TypeOK, Others, Moves, Stays, Ends, Refuses, disk, library
  <1>Listed. ASSUME NEW p \in Procs, Listed(p)
             PROVE  TypeOK'
    <2>1. [number |-> req[p].conn.number, fresh |-> TRUE] \in [number : Nat, fresh : BOOLEAN]
      BY <1>a, <1>Listed, ListedDoes
    <2>2. cache' \in [number : Nat, fresh : BOOLEAN] \cup {None}
      BY <1>a, <2>1, <1>Listed, ListedDoes
    <2> QED
      BY <1>a, <2>2, <1>Listed, ListedDoes DEF TypeOK, Moves, Others, disk
  <1>ListingFails. ASSUME NEW p \in Procs, ListingFails(p)
                   PROVE  TypeOK'
    BY <1>a, <1>b, <1>ListingFails, ListingFailsDoes
       DEF TypeOK, Others, Moves, Stays, Ends, Refuses, disk, library
  <1>Finish. ASSUME NEW p \in Procs, Finish(p)
             PROVE  TypeOK'
    BY <1>a, <1>b, <1>Finish, FinishDoes
       DEF TypeOK, Others, Moves, Stays, Ends, Refuses, disk, library
  <1>Expire. ASSUME Expire
             PROVE  TypeOK'
    BY <1>a, <1>b, <1>Expire, ExpireDoes
       DEF TypeOK, Others, Moves, Stays, Ends, Refuses, disk, library
  <1>Crash. ASSUME Crash
            PROVE  TypeOK'
    <2>1. failed' \in Healths /\ stores' \in Nat /\ settled' \in Nat
      BY <1>a, <1>Crash, CrashDoes DEF Healths
    <2> QED
      BY <1>a, <2>1, <1>Crash, CrashDoes DEF TypeOK, disk
  <1>Change. ASSUME NEW t \in Targets, NEW s \in Servers, Change(t, s)
             PROVE  TypeOK'
    BY <1>a, <1>Change DEF Change, TypeOK, disk, library
  <1>stutter. ASSUME UNCHANGED vars
              PROVE  TypeOK'
    BY <1>a, <1>stutter DEF vars, TypeOK, disk, library
  <1> QED
    <2>1. CASE UNCHANGED vars
      BY <2>1, <1>stutter
    <2>2. CASE Next
      <3>1. ASSUME NEW p \in Procs, Step(p) PROVE TypeOK'
        BY <3>1, <1>Bootstrap, <1>Serve, <1>Seed, <1>Test, <1>Save, <1>LoadConfig,
           <1>Probe,
           <1>ResolveThem, <1>Store, <1>Invalidate, <1>FromCache, <1>StartListing, <1>Listed,
           <1>ListingFails, <1>Finish DEF Step
      <3>2. ASSUME NEW r \in Requests, Request(r) PROVE TypeOK'
        BY <1>a, <3>2, <1>Rewrites, <1>Library, SettingsDoes, PasswordDoes, SetupDoes
           DEF Request
      <3> QED
        BY <2>2, <3>1, <3>2, <1>Expire, <1>Crash, <1>Change DEF Next
    <2> QED
      BY <2>1, <2>2

\* What the others have in hand stays theirs, as long as the file does.
LEMMA OthersFit ==
  ASSUME StageFits, NEW p \in Procs, Others(p), file # None => file' # None, Fits(p)'
  PROVE  StageFits'
  <1>1. ASSUME NEW q \in Procs, q # p PROVE Fits(q)'
    <2>1. Fits(q) /\ req'[q] = req[q]
      BY <1>1 DEF StageFits, Others
    <2> QED
      BY <2>1 DEF Fits, Rewriting
  <1> QED
    BY <1>1 DEF StageFits

\* What each request has in hand fits the place it goes on to.
LEMMA StepStageFits ==
  ASSUME IInv, [Next]_vars
  PROVE  StageFits'
  <1>a. TypeOK /\ StageFits /\ Numbered /\ Probed /\ OneRewrites /\ OnItsWay
        /\ SavedFieldsStay
    BY DEF IInv
  <1>b. /\ Boot \in Procs /\ Boot \notin Requests /\ Requests \subseteq Procs
        /\ \A c \in Configs : c # None
    BY BootIsApart, NoneIsApart DEF Procs
  <1>Rewrites. ASSUME NEW r \in Requests, Rewrites(r)
               PROVE  StageFits'
    <2>1. PICK call \in {"settings", "password", "setup"}, cfg \in Configs, at \in Testing :
            /\ BeginDoes(r, call, at, cfg, 0)
            /\ at = "testing" => call # "password"
      BY <1>Rewrites DEF Rewrites
    <2>2. Others(r) /\ UNCHANGED file
      BY <2>1 DEF BeginDoes, disk
    <2>3. Fits(r)'
      BY <1>b, <2>1 DEF BeginDoes, Fits, Testing, Connecting, Asking, Rewriting
    <2> QED
      BY <1>a, <1>b, <2>2, <2>3, OthersFit
  <1>Library. ASSUME NEW r \in Requests, NEW refresh \in BOOLEAN, Library(r, refresh)
              PROVE  StageFits'
    <2>1. PICK at \in {"reading", "refreshing"} :
            BeginDoes(r, "library", at, None, settled)
      BY <1>a, <1>Library, LibraryDoes
    <2>2. Others(r) /\ UNCHANGED file
      BY <2>1 DEF BeginDoes, disk
    <2>3. Fits(r)'
      BY <1>b, <2>1 DEF BeginDoes, Fits, Testing, Connecting, Asking, Rewriting
    <2> QED
      BY <1>a, <1>b, <2>2, <2>3, OthersFit
  <1>Bootstrap. ASSUME Bootstrap
                PROVE  StageFits'
    <2>1. Fits(Boot) /\ req[Boot] \in Reqs
      BY <1>a, <1>b DEF StageFits, TypeOK
    <2>2. Others(Boot)
      BY <1>a, <1>Bootstrap, BootstrapDoes DEF Moves, Stays, Ends, Refuses
    <2>3. Fits(Boot)'
      BY <1>a, <1>b, <2>1, <1>Bootstrap, BootstrapDoes
         DEF Fits, Testing, Connecting, Asking, Rewriting, Idle, Moves, Stays, Ends,
             Refuses, disk
    <2> QED
      BY <1>a, <1>b, <2>2, <2>3, <1>Bootstrap, BootstrapDoes, OthersFit DEF disk
  <1>Serve. ASSUME Serve
            PROVE  StageFits'
    <2>1. Fits(Boot) /\ req[Boot] \in Reqs
      BY <1>a, <1>b DEF StageFits, TypeOK
    <2>2. Others(Boot)
      BY <1>a, <1>Serve, ServeDoes DEF Moves, Stays, Ends, Refuses
    <2>3. Fits(Boot)'
      BY <1>a, <1>b, <2>1, <1>Serve, ServeDoes, StoredFits
         DEF Fits, Testing, Connecting, Asking, Rewriting, Idle, Moves, Stays, Ends,
             Refuses, disk
    <2> QED
      BY <1>a, <1>b, <2>2, <2>3, <1>Serve, ServeDoes, OthersFit DEF disk
  <1>Seed. ASSUME Seed
           PROVE  StageFits'
    <2>1. Fits(Boot) /\ req[Boot] \in Reqs
      BY <1>a, <1>b DEF StageFits, TypeOK
    <2>2. Others(Boot)
      BY <1>a, <1>Seed, SeedDoes DEF Moves, Stays, Ends
    <2>3. /\ file # None => file' # None
          /\ req'[Boot].at = "reconnect" => file' # None
      BY <1>a, <1>b, <2>1, <1>Seed, SeedDoes, SavedAre, NoneIsApart
         DEF disk, Fits, Testing, Ends, Idle, Stays, Moves
    <2>4. Fits(Boot)'
      BY <1>a, <1>b, <2>1, <2>3, <1>Seed, SeedDoes
         DEF Fits, Testing, Connecting, Asking, Rewriting, Idle, Moves, Stays, Ends
    <2> QED
      BY <1>a, <1>b, <2>2, <2>3, <2>4, OthersFit
  <1>Test. ASSUME NEW p \in Procs, Test(p)
           PROVE  StageFits'
    <2>1. Fits(p) /\ req[p] \in Reqs
      BY <1>a, <1>b DEF StageFits, TypeOK
    <2>2. Others(p)
      BY <1>a, <1>Test, TestDoes DEF Moves, Stays, Ends, Refuses
    <2>3. Fits(p)'
      BY <1>a, <1>b, <2>1, <1>Test, TestDoes
         DEF Fits, Testing, Connecting, Asking, Rewriting, Idle, Moves, Stays, Ends,
             Refuses, disk
    <2> QED
      BY <1>a, <1>b, <2>2, <2>3, <1>Test, TestDoes, OthersFit DEF disk
  <1>Save. ASSUME NEW p \in Procs, Save(p)
           PROVE  StageFits'
    <2>1. Fits(p) /\ req[p] \in Reqs
      BY <1>a, <1>b DEF StageFits, TypeOK
    <2>2. Others(p)
      BY <1>a, <1>Save, SaveDoes DEF Moves, Stays, Ends
    <2>3. /\ file # None => file' # None
          /\ req'[p].at = "reconnect" => file' # None
      BY <1>a, <1>b, <2>1, <1>Save, SaveDoes, SavedAre, NoneIsApart
         DEF disk, Fits, Testing, Ends, Idle, Stays, Moves
    <2>4. Fits(p)'
      BY <1>a, <1>b, <2>1, <2>3, <1>Save, SaveDoes
         DEF Fits, Testing, Connecting, Asking, Rewriting, Idle, Moves, Stays, Ends
    <2> QED
      BY <1>a, <1>b, <2>2, <2>3, <2>4, OthersFit
  <1>LoadConfig. ASSUME NEW p \in Procs, LoadConfig(p)
                 PROVE  StageFits'
    <2>1. Fits(p) /\ req[p] \in Reqs
      BY <1>a, <1>b DEF StageFits, TypeOK
    <2>2. Others(p)
      BY <1>a, <1>LoadConfig, LoadConfigDoes DEF Moves, Stays, Ends, Refuses
    <2>3. Fits(p)'
      BY <1>a, <1>b, <2>1, <1>LoadConfig, LoadConfigDoes
         DEF Fits, Testing, Connecting, Asking, Rewriting, Idle, Moves, Stays, Ends,
             Refuses, disk
    <2> QED
      BY <1>a, <1>b, <2>2, <2>3, <1>LoadConfig, LoadConfigDoes, OthersFit DEF disk
  <1>Probe. ASSUME NEW p \in Procs, Probe(p)
            PROVE  StageFits'
    <2>1. Fits(p) /\ req[p] \in Reqs
      BY <1>a DEF StageFits, TypeOK
    <2>2. /\ req[p].at \in {"probing", "platforms"} /\ UNCHANGED file
          /\ Stays(p, "platforms") \/ Ends(p)
      BY <1>a, <1>Probe, ProbeDoes DEF disk
    <2>3. Others(p)
      BY <2>2 DEF Moves, Stays, Ends
    <2>4. Fits(p)'
      BY <1>b, <2>1, <2>2
         DEF Fits, Testing, Connecting, Asking, Rewriting, Idle, Moves, Stays, Ends
    <2> QED
      BY <1>a, <2>2, <2>3, <2>4, OthersFit
  <1>ResolveThem. ASSUME NEW p \in Procs, ResolveThem(p)
                  PROVE  StageFits'
    <2>1. Fits(p) /\ req[p] \in Reqs
      BY <1>a DEF StageFits, TypeOK
    <2>2. /\ req[p].at \in {"probing", "platforms"} /\ UNCHANGED file
          /\ (\E c \in Conns : Moves(p, "connected", None, c, req[p].got)) \/ Ends(p)
      BY <1>a, <1>ResolveThem, ResolveThemDoes DEF disk
    <2>3. Others(p)
      BY <2>2 DEF Moves, Stays, Ends
    <2>4. Fits(p)'
      BY <1>b, <2>1, <2>2
         DEF Fits, Testing, Connecting, Asking, Rewriting, Idle, Moves, Stays, Ends
    <2> QED
      BY <1>a, <2>2, <2>3, <2>4, OthersFit
  <1>Store. ASSUME NEW p \in Procs, Store(p)
            PROVE  StageFits'
    <2>1. Fits(p) /\ req[p] \in Reqs
      BY <1>a, <1>b DEF StageFits, TypeOK
    <2>2. Others(p)
      BY <1>a, <1>Store, StoreDoes DEF Moves, Stays, Ends, Refuses
    <2>3. Fits(p)'
      BY <1>a, <1>b, <2>1, <1>Store, StoreDoes
         DEF Fits, Testing, Connecting, Asking, Rewriting, Idle, Moves, Stays, Ends,
             Refuses, disk
    <2> QED
      BY <1>a, <1>b, <2>2, <2>3, <1>Store, StoreDoes, OthersFit DEF disk
  <1>Invalidate. ASSUME NEW p \in Procs, Invalidate(p)
                 PROVE  StageFits'
    <2>1. Fits(p) /\ req[p] \in Reqs
      BY <1>a, <1>b DEF StageFits, TypeOK
    <2>2. Others(p)
      BY <1>a, <1>Invalidate, InvalidateDoes DEF Moves, Stays, Ends, Refuses
    <2>3. Fits(p)'
      BY <1>a, <1>b, <2>1, <1>Invalidate, InvalidateDoes
         DEF Fits, Testing, Connecting, Asking, Rewriting, Idle, Moves, Stays, Ends,
             Refuses, disk
    <2> QED
      BY <1>a, <1>b, <2>2, <2>3, <1>Invalidate, InvalidateDoes, OthersFit DEF disk
  <1>FromCache. ASSUME NEW p \in Procs, FromCache(p)
                PROVE  StageFits'
    <2>1. Fits(p) /\ req[p] \in Reqs
      BY <1>a, <1>b DEF StageFits, TypeOK
    <2>2. Others(p)
      BY <1>a, <1>FromCache, FromCacheDoes DEF Moves, Stays, Ends, Refuses
    <2>3. Fits(p)'
      BY <1>a, <1>b, <2>1, <1>FromCache, FromCacheDoes
         DEF Fits, Testing, Connecting, Asking, Rewriting, Idle, Moves, Stays, Ends,
             Refuses, disk
    <2> QED
      BY <1>a, <1>b, <2>2, <2>3, <1>FromCache, FromCacheDoes, OthersFit DEF disk
  <1>StartListing. ASSUME NEW p \in Procs, StartListing(p)
                   PROVE  StageFits'
    <2>1. Fits(p) /\ req[p] \in Reqs
      BY <1>a, <1>b DEF StageFits, TypeOK
    <2>2. Others(p)
      BY <1>a, <1>StartListing, StartListingDoes DEF Moves, Stays, Ends, Refuses
    <2>3. Fits(p)'
      BY <1>a, <1>b, <2>1, <1>StartListing, StartListingDoes
         DEF Fits, Testing, Connecting, Asking, Rewriting, Idle, Moves, Stays, Ends,
             Refuses, disk
    <2> QED
      BY <1>a, <1>b, <2>2, <2>3, <1>StartListing, StartListingDoes, OthersFit DEF disk
  <1>Listed. ASSUME NEW p \in Procs, Listed(p)
             PROVE  StageFits'
    <2>1. Fits(p) /\ req[p] \in Reqs
      BY <1>a, <1>b DEF StageFits, TypeOK
    <2>2. Others(p)
      BY <1>a, <1>Listed, ListedDoes DEF Moves, Stays, Ends, Refuses
    <2>3. Fits(p)'
      BY <1>a, <1>b, <2>1, <1>Listed, ListedDoes
         DEF Fits, Testing, Connecting, Asking, Rewriting, Idle, Moves, Stays, Ends,
             Refuses, disk
    <2> QED
      BY <1>a, <1>b, <2>2, <2>3, <1>Listed, ListedDoes, OthersFit DEF disk
  <1>ListingFails. ASSUME NEW p \in Procs, ListingFails(p)
                   PROVE  StageFits'
    <2>1. Fits(p) /\ req[p] \in Reqs
      BY <1>a, <1>b DEF StageFits, TypeOK
    <2>2. Others(p)
      BY <1>a, <1>ListingFails, ListingFailsDoes DEF Moves, Stays, Ends, Refuses
    <2>3. Fits(p)'
      BY <1>a, <1>b, <2>1, <1>ListingFails, ListingFailsDoes
         DEF Fits, Testing, Connecting, Asking, Rewriting, Idle, Moves, Stays, Ends,
             Refuses, disk
    <2> QED
      BY <1>a, <1>b, <2>2, <2>3, <1>ListingFails, ListingFailsDoes, OthersFit DEF disk
  <1>Finish. ASSUME NEW p \in Procs, Finish(p)
             PROVE  StageFits'
    <2>1. Fits(p) /\ req[p] \in Reqs
      BY <1>a, <1>b DEF StageFits, TypeOK
    <2>2. Others(p)
      BY <1>a, <1>Finish, FinishDoes DEF Moves, Stays, Ends, Refuses
    <2>3. Fits(p)'
      BY <1>a, <1>b, <2>1, <1>Finish, FinishDoes
         DEF Fits, Testing, Connecting, Asking, Rewriting, Idle, Moves, Stays, Ends,
             Refuses, disk
    <2> QED
      BY <1>a, <1>b, <2>2, <2>3, <1>Finish, FinishDoes, OthersFit DEF disk
  <1>Expire. ASSUME Expire
             PROVE  StageFits'
    BY <1>a, <1>Expire, ExpireDoes DEF StageFits, Fits, Rewriting, disk
  <1>Crash. ASSUME Crash
            PROVE  StageFits'
    BY <1>a, <1>b, <1>Crash, CrashDoes
       DEF StageFits, Fits, Testing, Connecting, Asking, Rewriting, Idle
  <1>Change. ASSUME NEW t \in Targets, NEW s \in Servers, Change(t, s)
             PROVE  StageFits'
    BY <1>a, <1>Change DEF Change, StageFits, Fits, Rewriting, disk
  <1>stutter. ASSUME UNCHANGED vars
              PROVE  StageFits'
    BY <1>a, <1>stutter DEF vars, StageFits, Fits, Rewriting, disk
  <1> QED
    <2>1. CASE UNCHANGED vars
      BY <2>1, <1>stutter
    <2>2. CASE Next
      <3>1. ASSUME NEW p \in Procs, Step(p) PROVE StageFits'
        BY <3>1, <1>Bootstrap, <1>Serve, <1>Seed, <1>Test, <1>Save, <1>LoadConfig,
           <1>Probe,
           <1>ResolveThem, <1>Store, <1>Invalidate, <1>FromCache, <1>StartListing, <1>Listed,
           <1>ListingFails, <1>Finish DEF Step
      <3>2. ASSUME NEW r \in Requests, Request(r) PROVE StageFits'
        BY <1>a, <3>2, <1>Rewrites, <1>Library, SettingsDoes, PasswordDoes, SetupDoes
           DEF Request
      <3> QED
        BY <2>2, <3>1, <3>2, <1>Expire, <1>Crash, <1>Change DEF Next
    <2> QED
      BY <2>1, <2>2

LEMMA LivesAre ==
  ASSUME NEW n \in Nat, NEW c \in Conns
  PROVE  LET l == [number |-> n + 1, conn |-> c] IN
         l \in Lives /\ l # None /\ l.number = n + 1 /\ l.conn = c
  <1>1. [number |-> n + 1, conn |-> c] \in Lives
    BY DEF Lives
  <1> QED
    BY <1>1, NoneIsApart

\* The others follow still: numbers only grow, and the settled one not while
\* anyone lists.
LEMMA OthersFollow ==
  ASSUME TypeOK, Numbered, NEW p \in Procs, Others(p), Follows(p)',
         stores' \in Nat, stores' >= stores, settled' \in Nat, settled' >= settled,
         live # None => live' # None,
         settled' = settled \/ lock = None,
         \A q \in Procs \ {p} : lock' = q <=> lock = q
  PROVE  \A q \in Procs : Follows(q)'
  <1>1. ASSUME NEW q \in Procs, q # p PROVE Follows(q)'
    <2>1. Follows(q) /\ req'[q] = req[q] /\ req[q] \in Reqs
      BY <1>1 DEF Numbered, Others, TypeOK
    <2>2. /\ req[q].floor \in Nat /\ req[q].got \in Nat
          /\ stores \in Nat /\ settled \in Nat
      BY <2>1 DEF Reqs, TypeOK
    <2>3. lock # None => settled' = settled
      OBVIOUS
    <2>4. lock = q => lock # None
      BY NoneIsApart DEF Procs
    <2>5. lock' = q <=> lock = q
      BY <1>1
    <2> QED
      BY <2>1, <2>2, <2>3, <2>4, <2>5 DEF Follows
  <1> QED
    BY <1>1

\* Listings and the cache follow the Reconnects, whatever the step.
LEMMA StepNumbered ==
  ASSUME IInv, [Next]_vars
  PROVE  Numbered'
  <1>a. TypeOK /\ StageFits /\ Numbered /\ Probed /\ OneRewrites /\ OnItsWay
        /\ SavedFieldsStay
    BY DEF IInv
  <1>b. /\ Boot \in Procs /\ Requests \subseteq Procs /\ None \notin Procs
        /\ stores \in Nat /\ settled \in Nat
    BY <1>a, NoneIsApart DEF Procs, TypeOK
  <1>Rewrites. ASSUME NEW r \in Requests, Rewrites(r)
               PROVE  Numbered'
    <2>1. PICK call \in {"settings", "password", "setup"}, cfg \in Configs, at \in Testing :
            BeginDoes(r, call, at, cfg, 0)
      BY <1>Rewrites DEF Rewrites
    <2>2. Others(r) /\ UNCHANGED <<live, library, stores, settled>>
      BY <2>1 DEF BeginDoes
    <2>3. Follows(r) /\ lock # r
      BY <1>a, <1>b, <2>1 DEF Numbered, Follows, BeginDoes
    <2>4. Follows(r)'
      BY <1>b, <2>1, <2>2, <2>3 DEF BeginDoes, Follows, Testing, Asking, library
    <2>5. \A q \in Procs : Follows(q)'
      BY <1>a, <1>b, <2>2, <2>4, OthersFollow DEF library
    <2> QED
      BY <1>a, <2>2, <2>5 DEF Numbered, library
  <1>Library. ASSUME NEW r \in Requests, NEW refresh \in BOOLEAN, Library(r, refresh)
              PROVE  Numbered'
    <2>1. PICK at \in {"reading", "refreshing"} :
            BeginDoes(r, "library", at, None, settled) /\ live # None
      BY <1>a, <1>Library, LibraryDoes
    <2>2. Others(r) /\ UNCHANGED <<live, library, stores, settled>>
      BY <2>1 DEF BeginDoes
    <2>3. Follows(r) /\ lock # r
      BY <1>a, <1>b, <2>1 DEF Numbered, Follows, BeginDoes
    <2>4. Follows(r)'
      BY <1>b, <2>1, <2>2, <2>3 DEF BeginDoes, Follows, Testing, Asking, library
    <2>5. \A q \in Procs : Follows(q)'
      BY <1>a, <1>b, <2>2, <2>4, OthersFollow DEF library
    <2> QED
      BY <1>a, <2>2, <2>5 DEF Numbered, library
  <1>Bootstrap. ASSUME Bootstrap
                PROVE  Numbered'
    <2>1. /\ Follows(Boot) /\ Fits(Boot) /\ req[Boot].floor \in Nat
          /\ settled <= stores /\ (live # None => live.number = stores)
          /\ cache # None => cache.number >= settled
      BY <1>a, <1>b DEF Numbered, StageFits, TypeOK, Reqs
    <2>2. Others(Boot)
      BY <1>a, <1>Bootstrap, BootstrapDoes DEF Moves, Stays, Ends, Refuses
    <2>3. Follows(Boot)'
      BY <1>a, <1>b, <2>1, <1>Bootstrap, BootstrapDoes
         DEF Follows, Moves, Stays, Ends, Refuses, library, Idle, Asking
    <2>4. /\ settled' <= stores' /\ (live' # None => live'.number = stores')
          /\ cache' # None => cache'.number >= settled'
      BY <1>b, <2>1, <1>Bootstrap, <1>a, BootstrapDoes DEF library, Moves, Follows
    <2>5. /\ stores' \in Nat /\ stores' >= stores /\ settled' \in Nat
          /\ settled' >= settled /\ (live # None => live' # None)
          /\ settled' = settled \/ lock = None
          /\ \A q \in Procs \ {Boot} : lock' = q <=> lock = q
      BY <1>a, <1>b, <1>Bootstrap, BootstrapDoes DEF library
    <2>6. \A q \in Procs : Follows(q)'
      BY <1>a, <1>b, <2>2, <2>3, <2>5, OthersFollow
    <2> QED
      BY <2>4, <2>6 DEF Numbered
  <1>Serve. ASSUME Serve
            PROVE  Numbered'
    <2>1. /\ Follows(Boot) /\ Fits(Boot) /\ req[Boot].floor \in Nat
          /\ settled <= stores /\ (live # None => live.number = stores)
          /\ cache # None => cache.number >= settled
      BY <1>a, <1>b DEF Numbered, StageFits, TypeOK, Reqs
    <2>2. Others(Boot)
      BY <1>a, <1>Serve, ServeDoes DEF Moves, Stays, Ends, Refuses
    <2>3. Follows(Boot)'
      BY <1>a, <1>b, <2>1, <1>Serve, ServeDoes
         DEF Follows, Moves, Stays, Ends, Refuses, library, Idle, Asking
    <2>4. /\ settled' <= stores' /\ (live' # None => live'.number = stores')
          /\ cache' # None => cache'.number >= settled'
      BY <1>b, <2>1, <1>Serve, <1>a, ServeDoes DEF library, Moves, Follows
    <2>5. /\ stores' \in Nat /\ stores' >= stores /\ settled' \in Nat
          /\ settled' >= settled /\ (live # None => live' # None)
          /\ settled' = settled \/ lock = None
          /\ \A q \in Procs \ {Boot} : lock' = q <=> lock = q
      BY <1>a, <1>b, <1>Serve, ServeDoes DEF library
    <2>6. \A q \in Procs : Follows(q)'
      BY <1>a, <1>b, <2>2, <2>3, <2>5, OthersFollow
    <2> QED
      BY <2>4, <2>6 DEF Numbered
  <1>Seed. ASSUME Seed
           PROVE  Numbered'
    <2>1. /\ Follows(Boot) /\ Fits(Boot) /\ req[Boot].floor \in Nat
          /\ settled <= stores /\ (live # None => live.number = stores)
          /\ cache # None => cache.number >= settled
      BY <1>a, <1>b DEF Numbered, StageFits, TypeOK, Reqs
    <2>2. Others(Boot)
      BY <1>a, <1>Seed, SeedDoes DEF Moves, Stays, Ends, Refuses
    <2>3. Follows(Boot)'
      BY <1>a, <1>b, <2>1, <1>Seed, SeedDoes
         DEF Follows, Moves, Stays, Ends, Refuses, library, Idle, Asking
    <2>4. /\ settled' <= stores' /\ (live' # None => live'.number = stores')
          /\ cache' # None => cache'.number >= settled'
      BY <1>b, <2>1, <1>Seed, <1>a, SeedDoes DEF library, Moves, Follows
    <2>5. /\ stores' \in Nat /\ stores' >= stores /\ settled' \in Nat
          /\ settled' >= settled /\ (live # None => live' # None)
          /\ settled' = settled \/ lock = None
          /\ \A q \in Procs \ {Boot} : lock' = q <=> lock = q
      <3>1. req[Boot].conn \in Conns
        BY <1>a, <1>b, <1>Seed, SeedDoes DEF Probed, InHand
      <3>2. live # None => live' # None
        BY <1>a, <1>b, <1>Seed, SeedDoes, <3>1, LivesAre
      <3> QED
        BY <1>a, <1>b, <1>Seed, SeedDoes, <3>2 DEF library
    <2>6. \A q \in Procs : Follows(q)'
      BY <1>a, <1>b, <2>2, <2>3, <2>5, OthersFollow
    <2> QED
      BY <2>4, <2>6 DEF Numbered
  <1>Test. ASSUME NEW p \in Procs, Test(p)
           PROVE  Numbered'
    <2>1. /\ Follows(p) /\ Fits(p) /\ req[p].floor \in Nat
          /\ settled <= stores /\ (live # None => live.number = stores)
          /\ cache # None => cache.number >= settled
      BY <1>a, <1>b DEF Numbered, StageFits, TypeOK, Reqs
    <2>2. Others(p)
      BY <1>a, <1>Test, TestDoes DEF Moves, Stays, Ends, Refuses
    <2>3. Follows(p)'
      BY <1>a, <1>b, <2>1, <1>Test, TestDoes
         DEF Follows, Moves, Stays, Ends, Refuses, library, Idle, Asking
    <2>4. /\ settled' <= stores' /\ (live' # None => live'.number = stores')
          /\ cache' # None => cache'.number >= settled'
      BY <1>b, <2>1, <1>Test, <1>a, TestDoes DEF library, Moves, Follows
    <2>5. /\ stores' \in Nat /\ stores' >= stores /\ settled' \in Nat
          /\ settled' >= settled /\ (live # None => live' # None)
          /\ settled' = settled \/ lock = None
          /\ \A q \in Procs \ {p} : lock' = q <=> lock = q
      BY <1>a, <1>b, <1>Test, TestDoes DEF library
    <2>6. \A q \in Procs : Follows(q)'
      BY <1>a, <1>b, <2>2, <2>3, <2>5, OthersFollow
    <2> QED
      BY <2>4, <2>6 DEF Numbered
  <1>Save. ASSUME NEW p \in Procs, Save(p)
           PROVE  Numbered'
    <2>1. /\ Follows(p) /\ Fits(p) /\ req[p].floor \in Nat
          /\ settled <= stores /\ (live # None => live.number = stores)
          /\ cache # None => cache.number >= settled
      BY <1>a, <1>b DEF Numbered, StageFits, TypeOK, Reqs
    <2>2. Others(p)
      BY <1>a, <1>Save, SaveDoes DEF Moves, Stays, Ends, Refuses
    <2>3. Follows(p)'
      BY <1>a, <1>b, <2>1, <1>Save, SaveDoes
         DEF Follows, Moves, Stays, Ends, Refuses, library, Idle, Asking
    <2>4. /\ settled' <= stores' /\ (live' # None => live'.number = stores')
          /\ cache' # None => cache'.number >= settled'
      BY <1>b, <2>1, <1>Save, <1>a, SaveDoes DEF library, Moves, Follows
    <2>5. /\ stores' \in Nat /\ stores' >= stores /\ settled' \in Nat
          /\ settled' >= settled /\ (live # None => live' # None)
          /\ settled' = settled \/ lock = None
          /\ \A q \in Procs \ {p} : lock' = q <=> lock = q
      BY <1>a, <1>b, <1>Save, SaveDoes DEF library
    <2>6. \A q \in Procs : Follows(q)'
      BY <1>a, <1>b, <2>2, <2>3, <2>5, OthersFollow
    <2> QED
      BY <2>4, <2>6 DEF Numbered
  <1>LoadConfig. ASSUME NEW p \in Procs, LoadConfig(p)
                 PROVE  Numbered'
    <2>1. /\ Follows(p) /\ Fits(p) /\ req[p].floor \in Nat
          /\ settled <= stores /\ (live # None => live.number = stores)
          /\ cache # None => cache.number >= settled
      BY <1>a, <1>b DEF Numbered, StageFits, TypeOK, Reqs
    <2>2. Others(p)
      BY <1>a, <1>LoadConfig, LoadConfigDoes DEF Moves, Stays, Ends, Refuses
    <2>3. Follows(p)'
      BY <1>a, <1>b, <2>1, <1>LoadConfig, LoadConfigDoes
         DEF Follows, Moves, Stays, Ends, Refuses, library, Idle, Asking
    <2>4. /\ settled' <= stores' /\ (live' # None => live'.number = stores')
          /\ cache' # None => cache'.number >= settled'
      BY <1>b, <2>1, <1>LoadConfig, <1>a, LoadConfigDoes DEF library, Moves, Follows
    <2>5. /\ stores' \in Nat /\ stores' >= stores /\ settled' \in Nat
          /\ settled' >= settled /\ (live # None => live' # None)
          /\ settled' = settled \/ lock = None
          /\ \A q \in Procs \ {p} : lock' = q <=> lock = q
      BY <1>a, <1>b, <1>LoadConfig, LoadConfigDoes DEF library
    <2>6. \A q \in Procs : Follows(q)'
      BY <1>a, <1>b, <2>2, <2>3, <2>5, OthersFollow
    <2> QED
      BY <2>4, <2>6 DEF Numbered
  <1>Probe. ASSUME NEW p \in Procs, Probe(p)
            PROVE  Numbered'
    <2>1. /\ req[p].at \in {"probing", "platforms"}
          /\ UNCHANGED <<live, lock, cache, stores, settled>>
          /\ Stays(p, "platforms") \/ Ends(p)
      BY <1>a, <1>Probe, ProbeDoes DEF library
    <2>2. Follows(p)
      BY <1>a DEF Numbered
    <2>3. Others(p)
      BY <2>1 DEF Stays, Moves, Ends
    <2>4. Follows(p)'
      BY <2>1, <2>2 DEF Follows, Moves, Stays, Ends, Idle, Asking
    <2>5. \A q \in Procs : Follows(q)'
      BY <1>a, <1>b, <2>1, <2>3, <2>4, OthersFollow
    <2> QED
      BY <1>a, <2>1, <2>5 DEF Numbered
  <1>ResolveThem. ASSUME NEW p \in Procs, ResolveThem(p)
                  PROVE  Numbered'
    <2>1. /\ req[p].at \in {"probing", "platforms"}
          /\ UNCHANGED <<live, lock, cache, stores, settled>>
          /\ (\E c \in Conns : Moves(p, "connected", None, c, req[p].got)) \/ Ends(p)
      BY <1>a, <1>ResolveThem, ResolveThemDoes DEF library
    <2>2. Follows(p)
      BY <1>a DEF Numbered
    <2>3. Others(p)
      BY <2>1 DEF Stays, Moves, Ends
    <2>4. Follows(p)'
      BY <2>1, <2>2 DEF Follows, Moves, Stays, Ends, Idle, Asking
    <2>5. \A q \in Procs : Follows(q)'
      BY <1>a, <1>b, <2>1, <2>3, <2>4, OthersFollow
    <2> QED
      BY <1>a, <2>1, <2>5 DEF Numbered
  <1>Store. ASSUME NEW p \in Procs, Store(p)
            PROVE  Numbered'
    <2>1. /\ req[p].at = "connected" /\ UNCHANGED <<lock, cache, settled>>
          /\ Moves(p, "invalidate", req[p].cfg, None, stores + 1)
          /\ live' = [number |-> stores + 1, conn |-> req[p].conn]
          /\ stores' = stores + 1
      BY <1>a, <1>Store, StoreDoes DEF library
    <2>2. /\ Follows(p) /\ req[p].conn \in Conns
          /\ settled <= stores /\ (cache # None => cache.number >= settled)
      BY <1>a, <2>1 DEF Numbered, Probed, InHand
    <2>3. live' \in Lives /\ live' # None /\ live'.number = stores'
      BY <1>b, <2>1, <2>2, LivesAre
    <2>4. Follows(p)'
      BY <1>b, <2>1, <2>2, <2>3 DEF Follows, Moves, Asking
    <2>5. Others(p)
      BY <2>1 DEF Moves
    <2>6. \A q \in Procs : Follows(q)'
      BY <1>a, <1>b, <2>1, <2>3, <2>4, <2>5, OthersFollow
    <2>7. settled' <= stores' /\ (cache' # None => cache'.number >= settled')
      BY <1>b, <2>1, <2>2
    <2> QED
      BY <2>3, <2>6, <2>7 DEF Numbered
  <1>Invalidate. ASSUME NEW p \in Procs, Invalidate(p)
                 PROVE  Numbered'
    <2>1. /\ req[p].at = "invalidate" /\ lock = None /\ cache' = None
          /\ settled' = IF req[p].got > settled THEN req[p].got ELSE settled
          /\ settled' \in Nat /\ UNCHANGED <<live, lock, stores>>
      BY <1>a, <1>Invalidate, InvalidateDoes
    <2>2. /\ Follows(p) /\ Fits(p) /\ req[p].got \in Nat /\ settled <= stores
          /\ (live # None => live.number = stores)
      BY <1>a DEF Numbered, StageFits, TypeOK, Reqs
    <2>3. settled' <= stores /\ settled' >= settled /\ live # None
      BY <1>a, <1>b, <2>1, <2>2 DEF Follows
    <2>4. Others(p) /\ Follows(p)'
      <3>1. CASE Ends(p)
        BY <1>b, <2>1, <3>1 DEF Ends, Follows, Idle, Asking
      <3>2. CASE /\ Others(p) /\ req'[p].at = "warming" /\ req'[p].floor = settled'
        BY <1>b, <2>1, <2>3, <3>2 DEF Follows, Asking
      <3> QED
        BY <1>a, <1>Invalidate, InvalidateDoes, <3>1, <3>2
    <2>5. \A q \in Procs : Follows(q)'
      BY <1>a, <1>b, <2>1, <2>3, <2>4, OthersFollow
    <2> QED
      BY <2>1, <2>2, <2>3, <2>5 DEF Numbered
  <1>FromCache. ASSUME NEW p \in Procs, FromCache(p)
                PROVE  Numbered'
    <2>1. /\ req[p].at \in Asking /\ cache # None
          /\ Moves(p, "answered", req[p].cfg, None, cache.number)
          /\ UNCHANGED <<live, lock, cache, stores, settled>>
      BY <1>a, <1>FromCache, FromCacheDoes DEF library, Asking
    <2>2. /\ Follows(p) /\ req[p].floor \in Nat /\ cache.number \in Nat
          /\ cache.number >= settled
      BY <1>a, <2>1 DEF Numbered, TypeOK, Reqs
    <2>3. Follows(p)'
      BY <1>b, <2>1, <2>2 DEF Follows, Moves, Asking
    <2>4. Others(p)
      BY <2>1 DEF Moves
    <2>5. \A q \in Procs : Follows(q)'
      BY <1>a, <1>b, <2>1, <2>3, <2>4, OthersFollow
    <2> QED
      BY <1>a, <2>1, <2>5 DEF Numbered
  <1>StartListing. ASSUME NEW p \in Procs, StartListing(p)
                   PROVE  Numbered'
    <2>1. /\ req[p].at \in Asking /\ lock = None /\ lock' = p
          /\ Moves(p, "listing", req[p].cfg, live, req[p].got)
          /\ UNCHANGED <<live, cache, stores, settled>>
      BY <1>a, <1>StartListing, StartListingDoes
    <2>2. /\ Follows(p) /\ settled <= stores /\ (live # None => live.number = stores)
          /\ (live # None => live \in Lives)
      BY <1>a DEF Numbered, TypeOK
    <2>3. Follows(p)'
      <3>1. /\ req'[p].at = "listing" /\ req'[p].conn = live /\ req'[p].floor = req[p].floor
            /\ lock' = p /\ UNCHANGED <<live, settled>>
        BY <2>1 DEF Moves
      <3>2. /\ live \in Lives /\ live.number >= settled /\ live # None
            /\ req[p].floor <= settled
        BY <1>b, <2>1, <2>2 DEF Follows
      <3> QED
        BY <3>1, <3>2 DEF Follows, Asking
    <2>4. Others(p)
      BY <2>1 DEF Moves
    <2>5. \A q \in Procs \ {p} : lock' = q <=> lock = q
      BY <1>b, <2>1
    <2>6. \A q \in Procs : Follows(q)'
      BY <1>a, <1>b, <2>1, <2>3, <2>4, <2>5, OthersFollow
    <2> QED
      BY <1>a, <2>1, <2>6 DEF Numbered
  <1>Listed. ASSUME NEW p \in Procs, Listed(p)
             PROVE  Numbered'
    <2>1. /\ Follows(p) /\ Fits(p) /\ req[p].floor \in Nat
          /\ settled <= stores /\ (live # None => live.number = stores)
          /\ cache # None => cache.number >= settled
      BY <1>a, <1>b DEF Numbered, StageFits, TypeOK, Reqs
    <2>2. Others(p)
      BY <1>a, <1>Listed, ListedDoes DEF Moves, Stays, Ends, Refuses
    <2>3. Follows(p)'
      BY <1>a, <1>b, <2>1, <1>Listed, ListedDoes
         DEF Follows, Moves, Stays, Ends, Refuses, library, Idle, Asking
    <2>4. /\ settled' <= stores' /\ (live' # None => live'.number = stores')
          /\ cache' # None => cache'.number >= settled'
      BY <1>b, <2>1, <1>Listed, <1>a, ListedDoes DEF library, Moves, Follows
    <2>5. /\ stores' \in Nat /\ stores' >= stores /\ settled' \in Nat
          /\ settled' >= settled /\ (live # None => live' # None)
          /\ settled' = settled \/ lock = None
          /\ \A q \in Procs \ {p} : lock' = q <=> lock = q
      BY <1>a, <1>b, <1>Listed, ListedDoes DEF library
    <2>6. \A q \in Procs : Follows(q)'
      BY <1>a, <1>b, <2>2, <2>3, <2>5, OthersFollow
    <2> QED
      BY <2>4, <2>6 DEF Numbered
  <1>ListingFails. ASSUME NEW p \in Procs, ListingFails(p)
                   PROVE  Numbered'
    <2>1. /\ Follows(p) /\ Fits(p) /\ req[p].floor \in Nat
          /\ settled <= stores /\ (live # None => live.number = stores)
          /\ cache # None => cache.number >= settled
      BY <1>a, <1>b DEF Numbered, StageFits, TypeOK, Reqs
    <2>2. Others(p)
      BY <1>a, <1>ListingFails, ListingFailsDoes DEF Moves, Stays, Ends, Refuses
    <2>3. Follows(p)'
      BY <1>a, <1>b, <2>1, <1>ListingFails, ListingFailsDoes
         DEF Follows, Moves, Stays, Ends, Refuses, library, Idle, Asking
    <2>4. /\ settled' <= stores' /\ (live' # None => live'.number = stores')
          /\ cache' # None => cache'.number >= settled'
      BY <1>b, <2>1, <1>ListingFails, <1>a, ListingFailsDoes DEF library, Moves, Follows
    <2>5. /\ stores' \in Nat /\ stores' >= stores /\ settled' \in Nat
          /\ settled' >= settled /\ (live # None => live' # None)
          /\ settled' = settled \/ lock = None
          /\ \A q \in Procs \ {p} : lock' = q <=> lock = q
      BY <1>a, <1>b, <1>ListingFails, ListingFailsDoes DEF library
    <2>6. \A q \in Procs : Follows(q)'
      BY <1>a, <1>b, <2>2, <2>3, <2>5, OthersFollow
    <2> QED
      BY <2>4, <2>6 DEF Numbered
  <1>Finish. ASSUME NEW p \in Procs, Finish(p)
             PROVE  Numbered'
    <2>1. /\ Follows(p) /\ Fits(p) /\ req[p].floor \in Nat
          /\ settled <= stores /\ (live # None => live.number = stores)
          /\ cache # None => cache.number >= settled
      BY <1>a, <1>b DEF Numbered, StageFits, TypeOK, Reqs
    <2>2. Others(p)
      BY <1>a, <1>Finish, FinishDoes DEF Moves, Stays, Ends, Refuses
    <2>3. Follows(p)'
      BY <1>a, <1>b, <2>1, <1>Finish, FinishDoes
         DEF Follows, Moves, Stays, Ends, Refuses, library, Idle, Asking
    <2>4. /\ settled' <= stores' /\ (live' # None => live'.number = stores')
          /\ cache' # None => cache'.number >= settled'
      BY <1>b, <2>1, <1>Finish, <1>a, FinishDoes DEF library, Moves, Follows
    <2>5. /\ stores' \in Nat /\ stores' >= stores /\ settled' \in Nat
          /\ settled' >= settled /\ (live # None => live' # None)
          /\ settled' = settled \/ lock = None
          /\ \A q \in Procs \ {p} : lock' = q <=> lock = q
      BY <1>a, <1>b, <1>Finish, FinishDoes DEF library
    <2>6. \A q \in Procs : Follows(q)'
      BY <1>a, <1>b, <2>2, <2>3, <2>5, OthersFollow
    <2> QED
      BY <2>4, <2>6 DEF Numbered
  <1>Expire. ASSUME Expire
             PROVE  Numbered'
    BY <1>a, <1>Expire, ExpireDoes DEF Numbered, Follows
  <1>Crash. ASSUME Crash
            PROVE  Numbered'
    BY <1>a, <1>b, <1>Crash, CrashDoes DEF Numbered, Follows, Idle, Asking
  <1>Change. ASSUME NEW t \in Targets, NEW s \in Servers, Change(t, s)
             PROVE  Numbered'
    BY <1>a, <1>Change DEF Change, Numbered, Follows, library
  <1>stutter. ASSUME UNCHANGED vars
              PROVE  Numbered'
    BY <1>a, <1>stutter DEF vars, Numbered, Follows, library
  <1> QED
    <2>1. CASE UNCHANGED vars
      BY <2>1, <1>stutter
    <2>2. CASE Next
      <3>1. ASSUME NEW p \in Procs, Step(p) PROVE Numbered'
        BY <3>1, <1>Bootstrap, <1>Serve, <1>Seed, <1>Test, <1>Save, <1>LoadConfig,
           <1>Probe,
           <1>ResolveThem, <1>Store, <1>Invalidate, <1>FromCache, <1>StartListing, <1>Listed,
           <1>ListingFails, <1>Finish DEF Step
      <3>2. ASSUME NEW r \in Requests, Request(r) PROVE Numbered'
        BY <1>a, <3>2, <1>Rewrites, <1>Library, SettingsDoes, PasswordDoes, SetupDoes
           DEF Request
      <3> QED
        BY <2>2, <3>1, <3>2, <1>Expire, <1>Crash, <1>Change DEF Next
    <2> QED
      BY <2>1, <2>2

LEMMA OthersInHand ==
  ASSUME Probed, NEW p \in Procs, Others(p), InHand(p)'
  PROVE  \A q \in Procs : InHand(q)'
  <1>1. ASSUME NEW q \in Procs, q # p PROVE InHand(q)'
    <2>1. InHand(q) /\ req'[q] = req[q]
      BY <1>1 DEF Probed, Others
    <2> QED
      BY <2>1 DEF InHand, Made
  <1> QED
    BY <1>1

\* Every connection was made of the server it remembers, whatever the step.
LEMMA StepProbed ==
  ASSUME IInv, [Next]_vars
  PROVE  Probed'
  <1>a. TypeOK /\ StageFits /\ Numbered /\ Probed /\ OneRewrites /\ OnItsWay
        /\ SavedFieldsStay
    BY DEF IInv
  <1>b. Boot \in Procs /\ Requests \subseteq Procs /\ Boot \notin Requests
    BY BootIsApart DEF Procs
  <1>Rewrites. ASSUME NEW r \in Requests, Rewrites(r)
               PROVE  Probed'
    <2>1. PICK call \in {"settings", "password", "setup"}, cfg \in Configs, at \in Testing :
            BeginDoes(r, call, at, cfg, 0)
      BY <1>Rewrites DEF Rewrites
    <2>2. Others(r) /\ UNCHANGED live /\ (live # None => Made(live.conn))
      BY <1>a, <2>1 DEF BeginDoes, Probed
    <2>3. InHand(r)'
      BY <1>b, <2>1 DEF BeginDoes, InHand, Testing
    <2> QED
      BY <1>a, <1>b, <2>2, <2>3, OthersInHand DEF Probed, Made
  <1>Library. ASSUME NEW r \in Requests, NEW refresh \in BOOLEAN, Library(r, refresh)
              PROVE  Probed'
    <2>1. PICK at \in {"reading", "refreshing"} :
            BeginDoes(r, "library", at, None, settled)
      BY <1>a, <1>Library, LibraryDoes
    <2>2. Others(r) /\ UNCHANGED live /\ (live # None => Made(live.conn))
      BY <1>a, <2>1 DEF BeginDoes, Probed
    <2>3. InHand(r)'
      BY <1>b, <2>1 DEF BeginDoes, InHand, Testing
    <2> QED
      BY <1>a, <1>b, <2>2, <2>3, OthersInHand DEF Probed, Made
  <1>Bootstrap. ASSUME Bootstrap
                PROVE  Probed'
    <2>1. InHand(Boot) /\ Fits(Boot) /\ (live # None => Made(live.conn))
      BY <1>a, <1>b DEF Probed, StageFits
    <2>2. Others(Boot)
      BY <1>a, <1>Bootstrap, BootstrapDoes DEF Moves, Stays, Ends, Refuses
    <2>3. InHand(Boot)'
      BY <1>a, <1>b, <2>1, <1>Bootstrap, BootstrapDoes
         DEF InHand, Made, Moves, Stays, Ends, Refuses, Idle, Asking
    <2>4. live' # None => Made(live'.conn)
      BY <1>a, <1>b, <2>1, <1>Bootstrap, BootstrapDoes DEF InHand, Made
    <2> QED
      BY <1>a, <1>b, <2>2, <2>3, <2>4, OthersInHand DEF Probed, Made
  <1>Serve. ASSUME Serve
            PROVE  Probed'
    <2>1. InHand(Boot) /\ Fits(Boot) /\ (live # None => Made(live.conn))
      BY <1>a, <1>b DEF Probed, StageFits
    <2>2. Others(Boot)
      BY <1>a, <1>Serve, ServeDoes DEF Moves, Stays, Ends, Refuses
    <2>3. InHand(Boot)'
      BY <1>a, <1>b, <2>1, <1>Serve, ServeDoes
         DEF InHand, Made, Moves, Stays, Ends, Refuses, Idle, Asking
    <2>4. live' # None => Made(live'.conn)
      BY <1>a, <1>b, <2>1, <1>Serve, ServeDoes DEF InHand, Made
    <2> QED
      BY <1>a, <1>b, <2>2, <2>3, <2>4, OthersInHand DEF Probed, Made
  <1>Seed. ASSUME Seed
           PROVE  Probed'
    <2>1. InHand(Boot) /\ Fits(Boot) /\ (live # None => Made(live.conn))
      BY <1>a, <1>b DEF Probed, StageFits
    <2>2. Others(Boot)
      BY <1>a, <1>Seed, SeedDoes DEF Moves, Stays, Ends, Refuses
    <2>3. InHand(Boot)'
      BY <1>a, <1>b, <2>1, <1>Seed, SeedDoes
         DEF InHand, Made, Moves, Stays, Ends, Refuses, Idle, Asking
    <2>4. live' # None => Made(live'.conn)
      BY <1>a, <1>b, <2>1, <1>Seed, SeedDoes DEF InHand, Made
    <2> QED
      BY <1>a, <1>b, <2>2, <2>3, <2>4, OthersInHand DEF Probed, Made
  <1>Test. ASSUME NEW p \in Procs, Test(p)
           PROVE  Probed'
    <2>1. InHand(p) /\ Fits(p) /\ (live # None => Made(live.conn))
      BY <1>a, <1>b DEF Probed, StageFits
    <2>2. Others(p)
      BY <1>a, <1>Test, TestDoes DEF Moves, Stays, Ends, Refuses
    <2>3. InHand(p)'
      BY <1>a, <1>b, <2>1, <1>Test, TestDoes
         DEF InHand, Made, Moves, Stays, Ends, Refuses, Idle, Asking
    <2>4. live' # None => Made(live'.conn)
      BY <1>a, <1>b, <2>1, <1>Test, TestDoes DEF InHand, Made
    <2> QED
      BY <1>a, <1>b, <2>2, <2>3, <2>4, OthersInHand DEF Probed, Made
  <1>Save. ASSUME NEW p \in Procs, Save(p)
           PROVE  Probed'
    <2>1. InHand(p) /\ Fits(p) /\ (live # None => Made(live.conn))
      BY <1>a, <1>b DEF Probed, StageFits
    <2>2. Others(p)
      BY <1>a, <1>Save, SaveDoes DEF Moves, Stays, Ends, Refuses
    <2>3. InHand(p)'
      BY <1>a, <1>b, <2>1, <1>Save, SaveDoes
         DEF InHand, Made, Moves, Stays, Ends, Refuses, Idle, Asking
    <2>4. live' # None => Made(live'.conn)
      BY <1>a, <1>b, <2>1, <1>Save, SaveDoes DEF InHand, Made
    <2> QED
      BY <1>a, <1>b, <2>2, <2>3, <2>4, OthersInHand DEF Probed, Made
  <1>LoadConfig. ASSUME NEW p \in Procs, LoadConfig(p)
                 PROVE  Probed'
    <2>1. InHand(p) /\ Fits(p) /\ (live # None => Made(live.conn))
      BY <1>a, <1>b DEF Probed, StageFits
    <2>2. Others(p)
      BY <1>a, <1>LoadConfig, LoadConfigDoes DEF Moves, Stays, Ends, Refuses
    <2>3. InHand(p)'
      BY <1>a, <1>b, <2>1, <1>LoadConfig, LoadConfigDoes
         DEF InHand, Made, Moves, Stays, Ends, Refuses, Idle, Asking
    <2>4. live' # None => Made(live'.conn)
      BY <1>a, <1>b, <2>1, <1>LoadConfig, LoadConfigDoes DEF InHand, Made
    <2> QED
      BY <1>a, <1>b, <2>2, <2>3, <2>4, OthersInHand DEF Probed, Made
  <1>Probe. ASSUME NEW p \in Procs, Probe(p)
            PROVE  Probed'
    <2>1. /\ Stays(p, "platforms") \/ Ends(p)
          /\ Stays(p, "platforms") => /\ req'[p].of \in Servers
                                      /\ req'[p].report \in Connect(req'[p].of)
          /\ UNCHANGED live
      <3>1. Stays(p, "platforms") => ~Ends(p)
        BY DEF Stays, Moves, Ends, Idle
      <3> QED
        BY <1>a, <1>Probe, ProbeDoes, <3>1
    <2>2. Others(p)
      BY <2>1 DEF Moves, Stays, Ends
    <2>3. InHand(p)'
      <3>1. CASE Stays(p, "platforms")
        BY <2>1, <3>1 DEF InHand, Stays, Moves
      <3>2. CASE Ends(p)
        BY <3>2 DEF InHand, Ends, Idle
      <3> QED
        BY <2>1, <3>1, <3>2
    <2>4. live' # None => Made(live'.conn)
      BY <1>a, <2>1 DEF Probed, Made
    <2> QED
      BY <1>a, <2>2, <2>3, <2>4, OthersInHand DEF Probed, Made
  <1>ResolveThem. ASSUME NEW p \in Procs, ResolveThem(p)
                  PROVE  Probed'
    <2>1. /\ Ends(p) \/ \E c \in Conns : Made(c) /\ Moves(p, "connected", None, c, req[p].got)
          /\ UNCHANGED live
      BY <1>a, <1>ResolveThem, ResolveThemDoes
    <2>2. Others(p)
      BY <2>1 DEF Moves, Ends
    <2>3. InHand(p)'
      <3>1. ASSUME NEW c \in Conns, Made(c), Moves(p, "connected", None, c, req[p].got)
            PROVE  InHand(p)'
        BY <3>1 DEF InHand, Moves, Made
      <3>2. CASE Ends(p)
        BY <3>2 DEF InHand, Ends, Idle
      <3> QED
        BY <2>1, <3>1, <3>2
    <2>4. live' # None => Made(live'.conn)
      BY <1>a, <2>1 DEF Probed, Made
    <2> QED
      BY <1>a, <2>2, <2>3, <2>4, OthersInHand DEF Probed, Made
  <1>Store. ASSUME NEW p \in Procs, Store(p)
            PROVE  Probed'
    <2>1. /\ req[p].at = "connected" /\ Moves(p, "invalidate", req[p].cfg, None, stores + 1)
          /\ live' = [number |-> stores + 1, conn |-> req[p].conn]
      BY <1>a, <1>Store, StoreDoes
    <2>2. Made(req[p].conn)
      BY <1>a, <2>1 DEF Probed, InHand
    <2>3. live'.conn = req[p].conn
      BY <2>1
    <2>4. live' # None => Made(live'.conn)
      BY <2>2, <2>3 DEF Made
    <2>5. Others(p) /\ InHand(p)'
      BY <2>1 DEF Moves, InHand
    <2> QED
      BY <1>a, <2>4, <2>5, OthersInHand DEF Probed, Made
  <1>Invalidate. ASSUME NEW p \in Procs, Invalidate(p)
                 PROVE  Probed'
    <2>1. InHand(p) /\ Fits(p) /\ (live # None => Made(live.conn))
      BY <1>a, <1>b DEF Probed, StageFits
    <2>2. Others(p)
      BY <1>a, <1>Invalidate, InvalidateDoes DEF Moves, Stays, Ends, Refuses
    <2>3. InHand(p)'
      BY <1>a, <1>b, <2>1, <1>Invalidate, InvalidateDoes
         DEF InHand, Made, Moves, Stays, Ends, Refuses, Idle, Asking
    <2>4. live' # None => Made(live'.conn)
      BY <1>a, <1>b, <2>1, <1>Invalidate, InvalidateDoes DEF InHand, Made
    <2> QED
      BY <1>a, <1>b, <2>2, <2>3, <2>4, OthersInHand DEF Probed, Made
  <1>FromCache. ASSUME NEW p \in Procs, FromCache(p)
                PROVE  Probed'
    <2>1. InHand(p) /\ Fits(p) /\ (live # None => Made(live.conn))
      BY <1>a, <1>b DEF Probed, StageFits
    <2>2. Others(p)
      BY <1>a, <1>FromCache, FromCacheDoes DEF Moves, Stays, Ends, Refuses
    <2>3. InHand(p)'
      BY <1>a, <1>b, <2>1, <1>FromCache, FromCacheDoes
         DEF InHand, Made, Moves, Stays, Ends, Refuses, Idle, Asking
    <2>4. live' # None => Made(live'.conn)
      BY <1>a, <1>b, <2>1, <1>FromCache, FromCacheDoes DEF InHand, Made
    <2> QED
      BY <1>a, <1>b, <2>2, <2>3, <2>4, OthersInHand DEF Probed, Made
  <1>StartListing. ASSUME NEW p \in Procs, StartListing(p)
                   PROVE  Probed'
    <2>1. InHand(p) /\ Fits(p) /\ (live # None => Made(live.conn))
      BY <1>a, <1>b DEF Probed, StageFits
    <2>2. Others(p)
      BY <1>a, <1>StartListing, StartListingDoes DEF Moves, Stays, Ends, Refuses
    <2>3. InHand(p)'
      BY <1>a, <1>b, <2>1, <1>StartListing, StartListingDoes
         DEF InHand, Made, Moves, Stays, Ends, Refuses, Idle, Asking
    <2>4. live' # None => Made(live'.conn)
      BY <1>a, <1>b, <2>1, <1>StartListing, StartListingDoes DEF InHand, Made
    <2> QED
      BY <1>a, <1>b, <2>2, <2>3, <2>4, OthersInHand DEF Probed, Made
  <1>Listed. ASSUME NEW p \in Procs, Listed(p)
             PROVE  Probed'
    <2>1. InHand(p) /\ Fits(p) /\ (live # None => Made(live.conn))
      BY <1>a, <1>b DEF Probed, StageFits
    <2>2. Others(p)
      BY <1>a, <1>Listed, ListedDoes DEF Moves, Stays, Ends, Refuses
    <2>3. InHand(p)'
      BY <1>a, <1>b, <2>1, <1>Listed, ListedDoes
         DEF InHand, Made, Moves, Stays, Ends, Refuses, Idle, Asking
    <2>4. live' # None => Made(live'.conn)
      BY <1>a, <1>b, <2>1, <1>Listed, ListedDoes DEF InHand, Made
    <2> QED
      BY <1>a, <1>b, <2>2, <2>3, <2>4, OthersInHand DEF Probed, Made
  <1>ListingFails. ASSUME NEW p \in Procs, ListingFails(p)
                   PROVE  Probed'
    <2>1. InHand(p) /\ Fits(p) /\ (live # None => Made(live.conn))
      BY <1>a, <1>b DEF Probed, StageFits
    <2>2. Others(p)
      BY <1>a, <1>ListingFails, ListingFailsDoes DEF Moves, Stays, Ends, Refuses
    <2>3. InHand(p)'
      BY <1>a, <1>b, <2>1, <1>ListingFails, ListingFailsDoes
         DEF InHand, Made, Moves, Stays, Ends, Refuses, Idle, Asking
    <2>4. live' # None => Made(live'.conn)
      BY <1>a, <1>b, <2>1, <1>ListingFails, ListingFailsDoes DEF InHand, Made
    <2> QED
      BY <1>a, <1>b, <2>2, <2>3, <2>4, OthersInHand DEF Probed, Made
  <1>Finish. ASSUME NEW p \in Procs, Finish(p)
             PROVE  Probed'
    <2>1. InHand(p) /\ Fits(p) /\ (live # None => Made(live.conn))
      BY <1>a, <1>b DEF Probed, StageFits
    <2>2. Others(p)
      BY <1>a, <1>Finish, FinishDoes DEF Moves, Stays, Ends, Refuses
    <2>3. InHand(p)'
      BY <1>a, <1>b, <2>1, <1>Finish, FinishDoes
         DEF InHand, Made, Moves, Stays, Ends, Refuses, Idle, Asking
    <2>4. live' # None => Made(live'.conn)
      BY <1>a, <1>b, <2>1, <1>Finish, FinishDoes DEF InHand, Made
    <2> QED
      BY <1>a, <1>b, <2>2, <2>3, <2>4, OthersInHand DEF Probed, Made
  <1>Expire. ASSUME Expire
             PROVE  Probed'
    BY <1>a, <1>Expire, ExpireDoes DEF Probed, InHand, Made
  <1>Crash. ASSUME Crash
            PROVE  Probed'
    BY <1>a, <1>b, <1>Crash, CrashDoes DEF Probed, InHand, Idle
  <1>Change. ASSUME NEW t \in Targets, NEW s \in Servers, Change(t, s)
             PROVE  Probed'
    BY <1>a, <1>Change DEF Change, Probed, InHand, Made
  <1>stutter. ASSUME UNCHANGED vars
              PROVE  Probed'
    BY <1>a, <1>stutter DEF vars, Probed, InHand, Made
  <1> QED
    <2>1. CASE UNCHANGED vars
      BY <2>1, <1>stutter
    <2>2. CASE Next
      <3>1. ASSUME NEW p \in Procs, Step(p) PROVE Probed'
        BY <3>1, <1>Bootstrap, <1>Serve, <1>Seed, <1>Test, <1>Save, <1>LoadConfig,
           <1>Probe,
           <1>ResolveThem, <1>Store, <1>Invalidate, <1>FromCache, <1>StartListing, <1>Listed,
           <1>ListingFails, <1>Finish DEF Step
      <3>2. ASSUME NEW r \in Requests, Request(r) PROVE Probed'
        BY <1>a, <3>2, <1>Rewrites, <1>Library, SettingsDoes, PasswordDoes, SetupDoes
           DEF Request
      <3> QED
        BY <2>2, <3>1, <3>2, <1>Expire, <1>Crash, <1>Change DEF Next
    <2> QED
      BY <2>1, <2>2

\* What the step of one request leaves of the others' configurations.
LEMMA OthersAreOne ==
  ASSUME OneRewrites, NEW p \in Procs, Others(p), UNCHANGED <<overlapped, file>>,
         Rewriting(p)' => Rewriting(p),
         req'[p].at \in Testing =>
           /\ req[p].at \in Testing /\ req'[p].call = req[p].call
           /\ req'[p].cfg = req[p].cfg
  PROVE  OneRewrites'
  <1>1. \A q \in Procs : /\ Rewriting(q)' => Rewriting(q)
                         /\ req'[q].at \in Testing =>
                              /\ req[q].at \in Testing /\ req'[q].call = req[q].call
                              /\ req'[q].cfg = req[q].cfg
    BY DEF Others, Rewriting
  <1>2. ASSUME ~overlapped'
        PROVE  /\ \A q, o \in Procs : Rewriting(q)' /\ Rewriting(o)' => q = o
               /\ \A q \in Procs : req'[q].at \in Testing =>
                    KeepsOthers(req[q].cfg, req[q].call)'
    BY <1>1, <1>2 DEF OneRewrites, KeepsOthers, Stored
  <1> QED
    BY <1>2 DEF OneRewrites

LEMMA OnlyOne ==
  ASSUME OneRewrites, StageFits, NEW p \in Procs, Others(p), UNCHANGED overlapped,
         Rewriting(p), req'[p].at \notin Testing
  PROVE  OneRewrites'
  <1>1. ASSUME ~overlapped, NEW q \in Procs, q # p
        PROVE  ~Rewriting(q) /\ ~Rewriting(q)' /\ req'[q].at \notin Testing
    <2>1. ~Rewriting(q) /\ req'[q] = req[q]
      BY <1>1 DEF OneRewrites, Others
    <2> QED
      BY <2>1 DEF Rewriting, StageFits, Fits
  <1> QED
    BY <1>1 DEF OneRewrites

\* One request at a time rewrites the configuration, unless they overlapped.
LEMMA StepOneRewrites ==
  ASSUME IInv, [Next]_vars
  PROVE  OneRewrites'
  <1>a. TypeOK /\ StageFits /\ Numbered /\ Probed /\ OneRewrites /\ OnItsWay
        /\ SavedFieldsStay
    BY DEF IInv
  <1>b. /\ Boot \in Procs /\ Boot \notin Requests /\ Requests \subseteq Procs
    BY BootIsApart DEF Procs
  <1>Rewrites. ASSUME NEW r \in Requests, Rewrites(r)
               PROVE  OneRewrites'
    <2>1. PICK call \in {"settings", "password", "setup"}, cfg \in Configs, at \in Testing :
            BeginDoes(r, call, at, cfg, 0) /\ KeepsOthers(cfg, call)
      BY <1>Rewrites DEF Rewrites
    <2>2. /\ Others(r) /\ UNCHANGED file /\ req'[r].cfg = cfg /\ req'[r].call = call
          /\ ~overlapped' => ~overlapped /\ \A q \in Procs : ~Rewriting(q)
      BY <2>1 DEF BeginDoes, disk
    <2>3. ASSUME ~overlapped', NEW q \in Procs, q # r
          PROVE  ~Rewriting(q)' /\ req'[q].at \notin Testing
      <3>1. ~Rewriting(q) /\ req'[q] = req[q] /\ Fits(q)
        BY <1>a, <2>2, <2>3 DEF Others, StageFits
      <3> QED
        BY <3>1 DEF Rewriting, Fits
    <2>4. KeepsOthers(req[r].cfg, req[r].call)'
      BY <2>1, <2>2 DEF KeepsOthers, Stored
    <2> QED
      BY <2>3, <2>4 DEF OneRewrites
  <1>Library. ASSUME NEW r \in Requests, NEW refresh \in BOOLEAN, Library(r, refresh)
              PROVE  OneRewrites'
    <2>1. PICK at \in {"reading", "refreshing"} :
            BeginDoes(r, "library", at, None, settled)
      BY <1>a, <1>Library, LibraryDoes
    <2>2. /\ Others(r) /\ UNCHANGED <<overlapped, file>>
          /\ ~Rewriting(r)' /\ req'[r].at \notin Testing
      <3>1. overlapped' = overlapped
        BY <1>a, <2>1 DEF BeginDoes, TypeOK
      <3> QED
        BY <2>1, <3>1 DEF BeginDoes, disk, Rewriting, Testing
    <2> QED
      BY <1>a, <1>b, <2>2, OthersAreOne
  <1>Bootstrap. ASSUME Bootstrap
                PROVE  OneRewrites'
    <2>1. /\ Rewriting(Boot) /\ Others(Boot) /\ UNCHANGED <<overlapped, file>>
          /\ req'[Boot].call = req[Boot].call /\ req[Boot].call = "boot"
          /\ \/ req'[Boot].at \notin Testing
             \/ KeepsOthers(req'[Boot].cfg, req[Boot].call)
      BY <1>a, <1>b, <1>Bootstrap, BootstrapDoes, StoredFits
         DEF StageFits, Fits, Testing, Moves, Stays, Rewriting, disk, KeepsOthers, Owned
    <2>2. CASE req'[Boot].at \notin Testing
      BY <1>a, <1>b, <2>1, <2>2, OnlyOne
    <2>3. CASE KeepsOthers(req'[Boot].cfg, req[Boot].call)
      <3>1. KeepsOthers(req[Boot].cfg, req[Boot].call)'
        BY <2>1, <2>3 DEF KeepsOthers, Stored
      <3>2. ASSUME ~overlapped', NEW q \in Procs, q # Boot
            PROVE  ~Rewriting(q)' /\ req'[q].at \notin Testing
        <4>1. ~Rewriting(q) /\ req'[q] = req[q] /\ Fits(q)
          BY <1>a, <1>b, <2>1, <3>2 DEF Others, StageFits, OneRewrites
        <4> QED
          BY <4>1 DEF Rewriting, Fits
      <3> QED
        BY <3>1, <3>2 DEF OneRewrites
    <2> QED
      BY <2>1, <2>2, <2>3
  <1>Serve. ASSUME Serve
            PROVE  OneRewrites'
    <2>1. Others(Boot) /\ UNCHANGED <<overlapped, file>>
      BY <1>a, <1>Serve, ServeDoes DEF Moves, Stays, Ends, Refuses, disk
    <2>2. /\ Rewriting(Boot)' => Rewriting(Boot)
          /\ req'[Boot].at \in Testing =>
               /\ req[Boot].at \in Testing /\ req'[Boot].call = req[Boot].call
               /\ req'[Boot].cfg = req[Boot].cfg
      BY <1>a, <1>b, <1>Serve, ServeDoes
         DEF Rewriting, Testing, Moves, Stays, Ends, Refuses, Idle
    <2> QED
      BY <1>a, <1>b, <2>1, <2>2, OthersAreOne
  <1>Seed. ASSUME Seed
           PROVE  OneRewrites'
    <2>1. /\ Rewriting(Boot) /\ Others(Boot) /\ UNCHANGED overlapped
          /\ req'[Boot].at \notin Testing
          /\ Rewriting(Boot)' => Rewriting(Boot)
      BY <1>a, <1>b, <1>Seed, SeedDoes
         DEF StageFits, Fits, Testing, Moves, Stays, Ends, Rewriting, Idle
    <2> QED
      BY <1>a, <1>b, <2>1, OnlyOne
  <1>Test. ASSUME NEW p \in Procs, Test(p)
           PROVE  OneRewrites'
    <2>1. Others(p) /\ UNCHANGED <<overlapped, file>> /\ req[p].at = "testing"
      BY <1>a, <1>Test, TestDoes DEF Moves, Stays, Ends, Refuses, disk
    <2>2. /\ Rewriting(p)' => Rewriting(p)
          /\ req'[p].at \in Testing =>
               req'[p].call = req[p].call /\ req'[p].cfg = req[p].cfg
      BY <1>a, <1>b, <1>Test, TestDoes
         DEF Rewriting, Testing, Moves, Stays, Ends, Refuses, Idle
    <2> QED
      BY <1>a, <1>b, <2>1, <2>2, OthersAreOne DEF Testing
  <1>Save. ASSUME NEW p \in Procs, Save(p)
           PROVE  OneRewrites'
    <2>1. /\ Rewriting(p) /\ Others(p) /\ UNCHANGED overlapped
          /\ req'[p].at \notin Testing
          /\ Rewriting(p)' => Rewriting(p)
      BY <1>a, <1>b, <1>Save, SaveDoes
         DEF StageFits, Fits, Testing, Moves, Stays, Ends, Rewriting, Idle
    <2> QED
      BY <1>a, <1>b, <2>1, OnlyOne
  <1>LoadConfig. ASSUME NEW p \in Procs, LoadConfig(p)
                 PROVE  OneRewrites'
    <2>1. Others(p) /\ UNCHANGED <<overlapped, file>>
      BY <1>a, <1>LoadConfig, LoadConfigDoes DEF Moves, Stays, Ends, Refuses, disk
    <2>2. /\ Rewriting(p)' => Rewriting(p)
          /\ req'[p].at \in Testing =>
               /\ req[p].at \in Testing /\ req'[p].call = req[p].call
               /\ req'[p].cfg = req[p].cfg
      BY <1>a, <1>b, <1>LoadConfig, LoadConfigDoes
         DEF Rewriting, Testing, Moves, Stays, Ends, Refuses, Idle
    <2> QED
      BY <1>a, <1>b, <2>1, <2>2, OthersAreOne
  <1>Probe. ASSUME NEW p \in Procs, Probe(p)
            PROVE  OneRewrites'
    <2>1. /\ UNCHANGED <<overlapped, file>>
          /\ Stays(p, "platforms") \/ Ends(p)
      BY <1>a, <1>Probe, ProbeDoes DEF disk
    <2>2. /\ Others(p) /\ (Rewriting(p)' => Rewriting(p))
          /\ req'[p].at \notin Testing
      BY <2>1 DEF Rewriting, Testing, Moves, Stays, Ends, Idle
    <2> QED
      BY <1>a, <2>1, <2>2, OthersAreOne
  <1>ResolveThem. ASSUME NEW p \in Procs, ResolveThem(p)
                  PROVE  OneRewrites'
    <2>1. /\ UNCHANGED <<overlapped, file>>
          /\ (\E c \in Conns : Moves(p, "connected", None, c, req[p].got)) \/ Ends(p)
      BY <1>a, <1>ResolveThem, ResolveThemDoes DEF disk
    <2>2. /\ Others(p) /\ (Rewriting(p)' => Rewriting(p))
          /\ req'[p].at \notin Testing
      BY <2>1 DEF Rewriting, Testing, Moves, Stays, Ends, Idle
    <2> QED
      BY <1>a, <2>1, <2>2, OthersAreOne
  <1>Store. ASSUME NEW p \in Procs, Store(p)
            PROVE  OneRewrites'
    <2>1. Others(p) /\ UNCHANGED <<overlapped, file>>
      BY <1>a, <1>Store, StoreDoes DEF Moves, Stays, Ends, Refuses, disk
    <2>2. /\ Rewriting(p)' => Rewriting(p)
          /\ req'[p].at \in Testing =>
               /\ req[p].at \in Testing /\ req'[p].call = req[p].call
               /\ req'[p].cfg = req[p].cfg
      BY <1>a, <1>b, <1>Store, StoreDoes
         DEF Rewriting, Testing, Moves, Stays, Ends, Refuses, Idle
    <2> QED
      BY <1>a, <1>b, <2>1, <2>2, OthersAreOne
  <1>Invalidate. ASSUME NEW p \in Procs, Invalidate(p)
                 PROVE  OneRewrites'
    <2>1. Others(p) /\ UNCHANGED <<overlapped, file>>
      BY <1>a, <1>Invalidate, InvalidateDoes DEF Moves, Stays, Ends, Refuses, disk
    <2>2. /\ Rewriting(p)' => Rewriting(p)
          /\ req'[p].at \in Testing =>
               /\ req[p].at \in Testing /\ req'[p].call = req[p].call
               /\ req'[p].cfg = req[p].cfg
      BY <1>a, <1>b, <1>Invalidate, InvalidateDoes
         DEF Rewriting, Testing, Moves, Stays, Ends, Refuses, Idle
    <2> QED
      BY <1>a, <1>b, <2>1, <2>2, OthersAreOne
  <1>FromCache. ASSUME NEW p \in Procs, FromCache(p)
                PROVE  OneRewrites'
    <2>1. Others(p) /\ UNCHANGED <<overlapped, file>>
      BY <1>a, <1>FromCache, FromCacheDoes DEF Moves, Stays, Ends, Refuses, disk
    <2>2. /\ Rewriting(p)' => Rewriting(p)
          /\ req'[p].at \in Testing =>
               /\ req[p].at \in Testing /\ req'[p].call = req[p].call
               /\ req'[p].cfg = req[p].cfg
      BY <1>a, <1>b, <1>FromCache, FromCacheDoes
         DEF Rewriting, Testing, Moves, Stays, Ends, Refuses, Idle
    <2> QED
      BY <1>a, <1>b, <2>1, <2>2, OthersAreOne
  <1>StartListing. ASSUME NEW p \in Procs, StartListing(p)
                   PROVE  OneRewrites'
    <2>1. Others(p) /\ UNCHANGED <<overlapped, file>>
      BY <1>a, <1>StartListing, StartListingDoes DEF Moves, Stays, Ends, Refuses, disk
    <2>2. /\ Rewriting(p)' => Rewriting(p)
          /\ req'[p].at \in Testing =>
               /\ req[p].at \in Testing /\ req'[p].call = req[p].call
               /\ req'[p].cfg = req[p].cfg
      BY <1>a, <1>b, <1>StartListing, StartListingDoes
         DEF Rewriting, Testing, Moves, Stays, Ends, Refuses, Idle
    <2> QED
      BY <1>a, <1>b, <2>1, <2>2, OthersAreOne
  <1>Listed. ASSUME NEW p \in Procs, Listed(p)
             PROVE  OneRewrites'
    <2>1. Others(p) /\ UNCHANGED <<overlapped, file>>
      BY <1>a, <1>Listed, ListedDoes DEF Moves, Stays, Ends, Refuses, disk
    <2>2. /\ Rewriting(p)' => Rewriting(p)
          /\ req'[p].at \in Testing =>
               /\ req[p].at \in Testing /\ req'[p].call = req[p].call
               /\ req'[p].cfg = req[p].cfg
      BY <1>a, <1>b, <1>Listed, ListedDoes
         DEF Rewriting, Testing, Moves, Stays, Ends, Refuses, Idle
    <2> QED
      BY <1>a, <1>b, <2>1, <2>2, OthersAreOne
  <1>ListingFails. ASSUME NEW p \in Procs, ListingFails(p)
                   PROVE  OneRewrites'
    <2>1. Others(p) /\ UNCHANGED <<overlapped, file>>
      BY <1>a, <1>ListingFails, ListingFailsDoes DEF Moves, Stays, Ends, Refuses, disk
    <2>2. /\ Rewriting(p)' => Rewriting(p)
          /\ req'[p].at \in Testing =>
               /\ req[p].at \in Testing /\ req'[p].call = req[p].call
               /\ req'[p].cfg = req[p].cfg
      BY <1>a, <1>b, <1>ListingFails, ListingFailsDoes
         DEF Rewriting, Testing, Moves, Stays, Ends, Refuses, Idle
    <2> QED
      BY <1>a, <1>b, <2>1, <2>2, OthersAreOne
  <1>Finish. ASSUME NEW p \in Procs, Finish(p)
             PROVE  OneRewrites'
    <2>1. Others(p) /\ UNCHANGED <<overlapped, file>>
      BY <1>a, <1>Finish, FinishDoes DEF Moves, Stays, Ends, Refuses, disk
    <2>2. /\ Rewriting(p)' => Rewriting(p)
          /\ req'[p].at \in Testing =>
               /\ req[p].at \in Testing /\ req'[p].call = req[p].call
               /\ req'[p].cfg = req[p].cfg
      BY <1>a, <1>b, <1>Finish, FinishDoes
         DEF Rewriting, Testing, Moves, Stays, Ends, Refuses, Idle
    <2> QED
      BY <1>a, <1>b, <2>1, <2>2, OthersAreOne
  <1>Expire. ASSUME Expire
             PROVE  OneRewrites'
    BY <1>a, <1>Expire, ExpireDoes DEF OneRewrites, KeepsOthers, Stored, Rewriting, disk
  <1>Crash. ASSUME Crash
            PROVE  OneRewrites'
    BY <1>a, <1>b, <1>Crash, CrashDoes DEF OneRewrites, Rewriting, Idle, Testing
  <1>Change. ASSUME NEW t \in Targets, NEW s \in Servers, Change(t, s)
             PROVE  OneRewrites'
    BY <1>a, <1>Change DEF Change, OneRewrites, KeepsOthers, Stored, Rewriting, disk
  <1>stutter. ASSUME UNCHANGED vars
              PROVE  OneRewrites'
    BY <1>a, <1>stutter DEF vars, OneRewrites, KeepsOthers, Stored, Rewriting, disk
  <1> QED
    <2>1. CASE UNCHANGED vars
      BY <2>1, <1>stutter
    <2>2. CASE Next
      <3>1. ASSUME NEW p \in Procs, Step(p) PROVE OneRewrites'
        BY <3>1, <1>Bootstrap, <1>Serve, <1>Seed, <1>Test, <1>Save, <1>LoadConfig,
           <1>Probe,
           <1>ResolveThem, <1>Store, <1>Invalidate, <1>FromCache, <1>StartListing, <1>Listed,
           <1>ListingFails, <1>Finish DEF Step
      <3>2. ASSUME NEW r \in Requests, Request(r) PROVE OneRewrites'
        BY <1>a, <3>2, <1>Rewrites, <1>Library, SettingsDoes, PasswordDoes, SetupDoes
           DEF Request
      <3> QED
        BY <2>2, <3>1, <3>2, <1>Expire, <1>Crash, <1>Change DEF Next
    <2> QED
      BY <2>1, <2>2

LEMMA StillOnItsWay ==
  ASSUME OnItsWay, NEW p \in Procs, Others(p), UNCHANGED <<overlapped, file, live>>,
         ~overlapped => Toward(p)', failed' = "no" => failed = "no",
         Pending(p) => Pending(p)' \/ failed' # "no" \/ ~Configured
  PROVE  OnItsWay'
  <1>1. ASSUME NEW q \in Procs, q # p
        PROVE  /\ ~overlapped => Toward(q)'
               /\ Pending(q) => Pending(q)'
    <2>1. req'[q] = req[q] /\ (~overlapped => Toward(q))
      BY <1>1 DEF Others, OnItsWay
    <2> QED
      BY <2>1 DEF Toward, Pending, Stored
  <1>2. Stored' = Stored /\ Configured' = Configured
    BY DEF Stored, Configured
  <1>3. ASSUME ~overlapped', failed' = "no", Configured'
        PROVE  \/ live' # None /\ live'.conn.target = Stored'.target
               \/ \E q \in Procs : Pending(q)'
    BY <1>1, <1>2, <1>3 DEF OnItsWay
  <1>4. ASSUME ~overlapped', NEW q \in Procs PROVE Toward(q)'
    BY <1>1, <1>4
  <1> QED
    BY <1>3, <1>4 DEF OnItsWay

\* The only request that rewrites the configuration is on its way.
LEMMA AloneOnItsWay ==
  ASSUME OneRewrites, StageFits, NEW p \in Procs, Others(p), UNCHANGED overlapped,
         Rewriting(p), Toward(p)',
         ~overlapped => \/ Pending(p)'
                        \/ failed' = "no" /\ Configured' =>
                             live' # None /\ live'.conn.target = Stored'.target
  PROVE  OnItsWay'
  <1>1. ASSUME ~overlapped, NEW q \in Procs, q # p PROVE Toward(q)'
    <2>1. ~Rewriting(q) /\ req'[q] = req[q] /\ Fits(q)
      BY <1>1 DEF OneRewrites, Others, StageFits
    <2> QED
      BY <2>1 DEF Toward, Fits, Connecting
  <1> QED
    BY <1>1 DEF OnItsWay

\* The connection is to what is stored or on its way, whatever the step.
LEMMA StepOnItsWay ==
  ASSUME IInv, [Next]_vars
  PROVE  OnItsWay'
  <1>a. TypeOK /\ StageFits /\ Numbered /\ Probed /\ OneRewrites /\ OnItsWay
        /\ SavedFieldsStay
    BY DEF IInv
  <1>b. /\ Boot \in Procs /\ Boot \notin Requests /\ Requests \subseteq Procs
    BY BootIsApart DEF Procs
  <1>Rewrites. ASSUME NEW r \in Requests, Rewrites(r)
               PROVE  OnItsWay'
    <2>1. PICK call \in {"settings", "password", "setup"}, cfg \in Configs, at \in Testing :
            BeginDoes(r, call, at, cfg, 0)
      BY <1>Rewrites DEF Rewrites
    <2>2. /\ Others(r) /\ UNCHANGED <<file, live, failed>> /\ req[r].at = "idle"
          /\ req'[r].at \in Testing /\ (~overlapped' => ~overlapped)
      BY <2>1 DEF BeginDoes, disk
    <2>3. Toward(r)' /\ ~Pending(r)
      BY <1>a, <1>b, <2>2 DEF Toward, Pending, Testing, Connecting, StageFits, Fits
    <2>4. CASE overlapped'
      BY <2>4 DEF OnItsWay
    <2>5. CASE ~overlapped'
      <3>1. overlapped' = overlapped
        BY <1>a, <2>1, <2>5 DEF TypeOK, BeginDoes
      <3> QED
        BY <1>a, <1>b, <2>2, <2>3, <3>1, StillOnItsWay
    <2> QED
      BY <2>4, <2>5
  <1>Library. ASSUME NEW r \in Requests, NEW refresh \in BOOLEAN, Library(r, refresh)
              PROVE  OnItsWay'
    <2>1. PICK at \in {"reading", "refreshing"} :
            BeginDoes(r, "library", at, None, settled)
      BY <1>a, <1>Library, LibraryDoes
    <2>2. overlapped' = overlapped
      BY <1>a, <2>1 DEF BeginDoes, TypeOK
    <2>3. /\ Others(r) /\ UNCHANGED <<file, live, failed>> /\ req[r].at = "idle"
          /\ req'[r].at \in {"reading", "refreshing"}
      BY <2>1 DEF BeginDoes, disk
    <2>4. Toward(r)' /\ ~Pending(r)
      BY <1>a, <1>b, <2>3 DEF Toward, Pending, Connecting, StageFits, Fits
    <2> QED
      BY <1>a, <1>b, <2>2, <2>3, <2>4, StillOnItsWay
  <1>Bootstrap. ASSUME Bootstrap
                PROVE  OnItsWay'
    <2>1. /\ Others(Boot) /\ UNCHANGED <<overlapped, file, live>>
          /\ failed' = "no" => failed = "no"
      BY <1>a, <1>Bootstrap, BootstrapDoes DEF Moves, Stays, Ends, Refuses, disk
    <2>2. /\ Fits(Boot)
          /\ ~overlapped => Toward(Boot)
      BY <1>a, <1>b DEF StageFits, OnItsWay
    <2>3. /\ ~overlapped => Toward(Boot)'
          /\ Pending(Boot) => Pending(Boot)' \/ failed' # "no" \/ ~Configured
      BY <1>a, <1>b, <2>1, <2>2, <1>Bootstrap, BootstrapDoes
         DEF Fits, Toward, Pending, Connecting, Testing, Moves, Stays, Ends, Refuses,
             Idle, Stored, Asking
    <2> QED
      BY <1>a, <1>b, <2>1, <2>3, StillOnItsWay
  <1>Serve. ASSUME Serve
            PROVE  OnItsWay'
    <2>1. /\ Others(Boot) /\ UNCHANGED <<overlapped, file, live>>
          /\ failed' = "no" => failed = "no"
      BY <1>a, <1>Serve, ServeDoes DEF Moves, Stays, Ends, Refuses, disk
    <2>2. /\ Fits(Boot)
          /\ ~overlapped => Toward(Boot)
      BY <1>a, <1>b DEF StageFits, OnItsWay
    <2>3. /\ ~overlapped => Toward(Boot)'
          /\ Pending(Boot) => Pending(Boot)' \/ failed' # "no" \/ ~Configured
      BY <1>a, <1>b, <2>1, <2>2, <1>Serve, ServeDoes
         DEF Fits, Toward, Pending, Connecting, Testing, Moves, Stays, Ends, Refuses,
             Idle, Stored, Asking
    <2> QED
      BY <1>a, <1>b, <2>1, <2>3, StillOnItsWay
  <1>Seed. ASSUME Seed
           PROVE  OnItsWay'
    <2>1. Rewriting(Boot) /\ Others(Boot) /\ UNCHANGED overlapped
      BY <1>a, <1>Seed, SeedDoes DEF Rewriting, Stays, Moves
    <2>2. Toward(Boot)' /\ Pending(Boot)'
      BY <1>a, <1>Seed, SeedDoes DEF Stays, Moves, Toward, Pending
    <2> QED
      BY <1>a, <1>b, <2>1, <2>2, AloneOnItsWay
  <1>Test. ASSUME NEW p \in Procs, Test(p)
           PROVE  OnItsWay'
    <2>1. /\ Others(p) /\ UNCHANGED <<overlapped, file, live>>
          /\ failed' = "no" => failed = "no"
      BY <1>a, <1>Test, TestDoes DEF Moves, Stays, Ends, Refuses, disk
    <2>2. /\ Fits(p)
          /\ ~overlapped => Toward(p)
      BY <1>a, <1>b DEF StageFits, OnItsWay
    <2>3. /\ ~overlapped => Toward(p)'
          /\ Pending(p) => Pending(p)' \/ failed' # "no" \/ ~Configured
      BY <1>a, <1>b, <2>1, <2>2, <1>Test, TestDoes
         DEF Fits, Toward, Pending, Connecting, Testing, Moves, Stays, Ends, Refuses,
             Idle, Stored, Asking
    <2> QED
      BY <1>a, <1>b, <2>1, <2>3, StillOnItsWay
  <1>Save. ASSUME NEW p \in Procs, Save(p)
           PROVE  OnItsWay'
    <2>1. /\ Rewriting(p) /\ req[p].cfg \in Configs /\ Fits(p) /\ req[p].at = "saving"
          /\ p # Boot /\ UNCHANGED <<live, overlapped>>
      BY <1>a, <1>Save, SaveDoes DEF StageFits, Fits, Testing
    <2>2. ~Pending(p)
      BY <2>1 DEF Pending, Fits, Connecting
    <2>3. CASE Renamed(p) /\ req[p].call # "password" /\ Stays(p, "reconnect")
      <3>1. Others(p) /\ Toward(p)' /\ Pending(p)'
        BY <2>3 DEF Stays, Moves, Toward, Pending, Connecting
      <3> QED
        BY <1>a, <2>1, <3>1, AloneOnItsWay
    \* A request that ends with the file written: it named what is stored.
    <2>4. ASSUME Renamed(p), Ends(p), failed' = "no" =>
                   failed = "no" /\ (~overlapped => req[p].cfg.target = Stored.target)
          PROVE  OnItsWay'
      <3>1. Others(p) /\ Toward(p)'
        BY <2>4 DEF Ends, Idle, Toward
      <3>2. ASSUME ~overlapped, failed' = "no", Configured'
            PROVE  live' # None /\ live'.conn.target = Stored'.target
        <4>1. /\ Stored' = req[p].cfg /\ req[p].cfg.target = Stored.target
              /\ Configured /\ failed = "no"
          BY <1>a, <2>1, <2>4, <3>2, SavedAre DEF Configured
        <4>2. \A q \in Procs : ~Pending(q)
          <5>1. ASSUME NEW q \in Procs, q # p PROVE ~Pending(q)
            <6>1. ~Rewriting(q) /\ Fits(q)
              BY <1>a, <2>1, <3>2, <5>1 DEF OneRewrites, StageFits
            <6> QED
              BY <6>1 DEF Pending, Rewriting, Fits
          <5> QED
            BY <2>2, <5>1
        <4> QED
          BY <1>a, <2>1, <3>2, <4>1, <4>2 DEF OnItsWay
      <3> QED
        BY <1>a, <2>1, <3>1, <3>2, AloneOnItsWay
    <2>5. CASE UNCHANGED <<disk, failed>> /\ Ends(p)
      <3>1. Others(p) /\ Toward(p)' /\ UNCHANGED file
        BY <2>5 DEF Ends, Idle, Toward, disk
      <3> QED
        BY <1>a, <2>1, <2>2, <2>5, <3>1, StillOnItsWay
    <2>6. CASE /\ Renamed(p) /\ UNCHANGED failed
               /\ req[p].call = "password" /\ Ends(p)
      <3>1. ~overlapped => req[p].cfg.target = Stored.target
        BY <1>a, <2>1, <2>6 DEF OneRewrites, KeepsOthers, Owned, Testing
      <3> QED
        BY <2>4, <2>6, <3>1
    <2>7. CASE /\ Renamed(p) /\ Ends(p)
               /\ failed' = IF req[p].cfg.target = Stored.target THEN failed
                            ELSE "saving"
      BY <2>4, <2>7
    <2> QED
      BY <1>a, <1>Save, SaveDoes, <2>3, <2>5, <2>6, <2>7
  <1>LoadConfig. ASSUME NEW p \in Procs, LoadConfig(p)
                 PROVE  OnItsWay'
    <2>1. /\ Others(p) /\ UNCHANGED <<overlapped, file, live>>
          /\ failed' = "no" => failed = "no"
      BY <1>a, <1>LoadConfig, LoadConfigDoes DEF Moves, Stays, Ends, Refuses, disk
    <2>2. /\ Fits(p)
          /\ ~overlapped => Toward(p)
      BY <1>a, <1>b DEF StageFits, OnItsWay
    <2>3. /\ ~overlapped => Toward(p)'
          /\ Pending(p) => Pending(p)' \/ failed' # "no" \/ ~Configured
      BY <1>a, <1>b, <2>1, <2>2, <1>LoadConfig, LoadConfigDoes
         DEF Fits, Toward, Pending, Connecting, Testing, Moves, Stays, Ends, Refuses,
             Idle, Stored
    <2> QED
      BY <1>a, <1>b, <2>1, <2>3, StillOnItsWay
  <1>Probe. ASSUME NEW p \in Procs, Probe(p)
            PROVE  OnItsWay'
    <2>1. /\ UNCHANGED <<overlapped, file, live>> /\ req[p].at \in {"probing", "platforms"}
          /\ \/ Stays(p, "platforms") /\ UNCHANGED failed
             \/ Ends(p) /\ failed' = "connecting"
      BY <1>a, <1>Probe, ProbeDoes DEF disk
    <2>2. ~overlapped => Toward(p)
      BY <1>a DEF OnItsWay
    <2>3. /\ Others(p) /\ (failed' = "no" => failed = "no")
          /\ ~overlapped => Toward(p)'
          /\ Pending(p) => Pending(p)' \/ failed' # "no"
      BY <2>1, <2>2 DEF Toward, Pending, Connecting, Moves, Stays, Ends, Idle, Stored
    <2> QED
      BY <1>a, <2>1, <2>3, StillOnItsWay
  <1>ResolveThem. ASSUME NEW p \in Procs, ResolveThem(p)
                  PROVE  OnItsWay'
    <2>1. /\ UNCHANGED <<overlapped, file, live>> /\ req[p].at \in {"probing", "platforms"}
          /\ \/ /\ UNCHANGED failed
                /\ \E c \in Conns : /\ c.target = req[p].cfg.target
                                    /\ Moves(p, "connected", None, c, req[p].got)
             \/ Ends(p) /\ failed' = "connecting"
      BY <1>a, <1>ResolveThem, ResolveThemDoes DEF disk
    <2>2. ~overlapped => Toward(p)
      BY <1>a DEF OnItsWay
    <2>3. /\ Others(p) /\ (failed' = "no" => failed = "no")
          /\ ~overlapped => Toward(p)'
          /\ Pending(p) => Pending(p)' \/ failed' # "no"
      BY <2>1, <2>2 DEF Toward, Pending, Connecting, Moves, Stays, Ends, Idle, Stored
    <2> QED
      BY <1>a, <2>1, <2>3, StillOnItsWay
  <1>Store. ASSUME NEW p \in Procs, Store(p)
            PROVE  OnItsWay'
    <2>1. /\ req[p].at = "connected" /\ Moves(p, "invalidate", req[p].cfg, None, stores + 1)
          /\ live' = [number |-> stores + 1, conn |-> req[p].conn]
          /\ UNCHANGED <<file, overlapped>>
      BY <1>a, <1>Store, StoreDoes DEF disk
    <2>2. /\ Rewriting(p) /\ req[p].conn \in Conns /\ stores \in Nat
          /\ ~overlapped => req[p].conn.target = Stored.target
      BY <1>a, <2>1
         DEF StageFits, Fits, Connecting, Probed, InHand, OnItsWay, Toward, TypeOK
    <2>3. live' # None /\ live'.conn = req[p].conn
      BY <2>1, <2>2, LivesAre
    <2>4. Stored' = Stored
      BY <2>1 DEF Stored
    <2>5. Others(p) /\ Toward(p)'
      BY <2>1 DEF Moves, Toward
    <2> QED
      BY <1>a, <2>1, <2>2, <2>3, <2>4, <2>5, AloneOnItsWay
  <1>Invalidate. ASSUME NEW p \in Procs, Invalidate(p)
                 PROVE  OnItsWay'
    <2>1. /\ Others(p) /\ UNCHANGED <<overlapped, file, live>>
          /\ failed' = "no" => failed = "no"
      BY <1>a, <1>Invalidate, InvalidateDoes DEF Moves, Stays, Ends, Refuses, disk
    <2>2. /\ Fits(p)
          /\ ~overlapped => Toward(p)
      BY <1>a, <1>b DEF StageFits, OnItsWay
    <2>3. /\ ~overlapped => Toward(p)'
          /\ Pending(p) => Pending(p)' \/ failed' # "no" \/ ~Configured
      BY <1>a, <1>b, <2>1, <2>2, <1>Invalidate, InvalidateDoes
         DEF Fits, Toward, Pending, Connecting, Testing, Moves, Stays, Ends, Refuses,
             Idle, Stored, Asking
    <2> QED
      BY <1>a, <1>b, <2>1, <2>3, StillOnItsWay
  <1>FromCache. ASSUME NEW p \in Procs, FromCache(p)
                PROVE  OnItsWay'
    <2>1. /\ Others(p) /\ UNCHANGED <<overlapped, file, live>>
          /\ failed' = "no" => failed = "no"
      BY <1>a, <1>FromCache, FromCacheDoes DEF Moves, Stays, Ends, Refuses, disk
    <2>2. /\ Fits(p)
          /\ ~overlapped => Toward(p)
      BY <1>a, <1>b DEF StageFits, OnItsWay
    <2>3. /\ ~overlapped => Toward(p)'
          /\ Pending(p) => Pending(p)' \/ failed' # "no" \/ ~Configured
      BY <1>a, <1>b, <2>1, <2>2, <1>FromCache, FromCacheDoes
         DEF Fits, Toward, Pending, Connecting, Testing, Moves, Stays, Ends, Refuses,
             Idle, Stored, Asking
    <2> QED
      BY <1>a, <1>b, <2>1, <2>3, StillOnItsWay
  <1>StartListing. ASSUME NEW p \in Procs, StartListing(p)
                   PROVE  OnItsWay'
    <2>1. /\ Others(p) /\ UNCHANGED <<overlapped, file, live>>
          /\ failed' = "no" => failed = "no"
      BY <1>a, <1>StartListing, StartListingDoes DEF Moves, Stays, Ends, Refuses, disk
    <2>2. /\ Fits(p)
          /\ ~overlapped => Toward(p)
      BY <1>a, <1>b DEF StageFits, OnItsWay
    <2>3. /\ ~overlapped => Toward(p)'
          /\ Pending(p) => Pending(p)' \/ failed' # "no" \/ ~Configured
      BY <1>a, <1>b, <2>1, <2>2, <1>StartListing, StartListingDoes
         DEF Fits, Toward, Pending, Connecting, Testing, Moves, Stays, Ends, Refuses,
             Idle, Stored, Asking
    <2> QED
      BY <1>a, <1>b, <2>1, <2>3, StillOnItsWay
  <1>Listed. ASSUME NEW p \in Procs, Listed(p)
             PROVE  OnItsWay'
    <2>1. /\ Others(p) /\ UNCHANGED <<overlapped, file, live>>
          /\ failed' = "no" => failed = "no"
      BY <1>a, <1>Listed, ListedDoes DEF Moves, Stays, Ends, Refuses, disk
    <2>2. /\ Fits(p)
          /\ ~overlapped => Toward(p)
      BY <1>a, <1>b DEF StageFits, OnItsWay
    <2>3. /\ ~overlapped => Toward(p)'
          /\ Pending(p) => Pending(p)' \/ failed' # "no" \/ ~Configured
      BY <1>a, <1>b, <2>1, <2>2, <1>Listed, ListedDoes
         DEF Fits, Toward, Pending, Connecting, Testing, Moves, Stays, Ends, Refuses,
             Idle, Stored, Asking
    <2> QED
      BY <1>a, <1>b, <2>1, <2>3, StillOnItsWay
  <1>ListingFails. ASSUME NEW p \in Procs, ListingFails(p)
                   PROVE  OnItsWay'
    <2>1. /\ Others(p) /\ UNCHANGED <<overlapped, file, live>>
          /\ failed' = "no" => failed = "no"
      BY <1>a, <1>ListingFails, ListingFailsDoes DEF Moves, Stays, Ends, Refuses, disk
    <2>2. /\ Fits(p)
          /\ ~overlapped => Toward(p)
      BY <1>a, <1>b DEF StageFits, OnItsWay
    <2>3. /\ ~overlapped => Toward(p)'
          /\ Pending(p) => Pending(p)' \/ failed' # "no" \/ ~Configured
      BY <1>a, <1>b, <2>1, <2>2, <1>ListingFails, ListingFailsDoes
         DEF Fits, Toward, Pending, Connecting, Testing, Moves, Stays, Ends, Refuses,
             Idle, Stored, Asking
    <2> QED
      BY <1>a, <1>b, <2>1, <2>3, StillOnItsWay
  <1>Finish. ASSUME NEW p \in Procs, Finish(p)
             PROVE  OnItsWay'
    <2>1. /\ Others(p) /\ UNCHANGED <<overlapped, file, live>>
          /\ failed' = "no" => failed = "no"
      BY <1>a, <1>Finish, FinishDoes DEF Moves, Stays, Ends, Refuses, disk
    <2>2. /\ Fits(p)
          /\ ~overlapped => Toward(p)
      BY <1>a, <1>b DEF StageFits, OnItsWay
    <2>3. /\ ~overlapped => Toward(p)'
          /\ Pending(p) => Pending(p)' \/ failed' # "no" \/ ~Configured
      BY <1>a, <1>b, <2>1, <2>2, <1>Finish, FinishDoes
         DEF Fits, Toward, Pending, Connecting, Testing, Moves, Stays, Ends, Refuses,
             Idle, Stored, Asking
    <2> QED
      BY <1>a, <1>b, <2>1, <2>3, StillOnItsWay
  <1>Expire. ASSUME Expire
             PROVE  OnItsWay'
    BY <1>a, <1>Expire, ExpireDoes
       DEF OnItsWay, Toward, Pending, Stored, Configured, disk
  <1>Crash. ASSUME Crash
            PROVE  OnItsWay'
    <2>1. Pending(Boot)' /\ \A q \in Procs : Toward(q)'
      BY <1>a, <1>b, <1>Crash, CrashDoes DEF Pending, Toward, Idle
    <2> QED
      BY <1>b, <2>1 DEF OnItsWay
  <1>Change. ASSUME NEW t \in Targets, NEW s \in Servers, Change(t, s)
             PROVE  OnItsWay'
    BY <1>a, <1>Change DEF Change, OnItsWay, Toward, Pending, Stored, Configured, disk
  <1>stutter. ASSUME UNCHANGED vars
              PROVE  OnItsWay'
    BY <1>a, <1>stutter DEF vars, OnItsWay, Toward, Pending, Stored, Configured, disk
  <1> QED
    <2>1. CASE UNCHANGED vars
      BY <2>1, <1>stutter
    <2>2. CASE Next
      <3>1. ASSUME NEW p \in Procs, Step(p) PROVE OnItsWay'
        BY <3>1, <1>Bootstrap, <1>Serve, <1>Seed, <1>Test, <1>Save, <1>LoadConfig,
           <1>Probe,
           <1>ResolveThem, <1>Store, <1>Invalidate, <1>FromCache, <1>StartListing, <1>Listed,
           <1>ListingFails, <1>Finish DEF Step
      <3>2. ASSUME NEW r \in Requests, Request(r) PROVE OnItsWay'
        BY <1>a, <3>2, <1>Rewrites, <1>Library, SettingsDoes, PasswordDoes, SetupDoes
           DEF Request
      <3> QED
        BY <2>2, <3>1, <3>2, <1>Expire, <1>Crash, <1>Change DEF Next
    <2> QED
      BY <2>1, <2>2

\* What is stored is what was saved last, field by field, whatever the step.
LEMMA StepSavedFieldsStay ==
  ASSUME IInv, [Next]_vars
  PROVE  SavedFieldsStay'
  <1>a. TypeOK /\ StageFits /\ Numbered /\ Probed /\ OneRewrites /\ OnItsWay
        /\ SavedFieldsStay
    BY DEF IInv
  <1>b. /\ Boot \in Procs /\ Boot \notin Requests /\ Requests \subseteq Procs
    BY BootIsApart DEF Procs
  <1>Rewrites. ASSUME NEW r \in Requests, Rewrites(r)
               PROVE  SavedFieldsStay'
    BY <1>a, <1>Rewrites DEF Rewrites, BeginDoes, SavedFieldsStay, Stored, disk
  <1>Library. ASSUME NEW r \in Requests, NEW refresh \in BOOLEAN, Library(r, refresh)
              PROVE  SavedFieldsStay'
    <2>1. PICK at \in {"reading", "refreshing"} :
            BeginDoes(r, "library", at, None, settled)
      BY <1>a, <1>Library, LibraryDoes
    <2> QED
      BY <1>a, <2>1 DEF BeginDoes, SavedFieldsStay, Stored, disk
  <1>Bootstrap. ASSUME Bootstrap
                PROVE  SavedFieldsStay'
    BY <1>a, <1>Bootstrap, BootstrapDoes DEF SavedFieldsStay, Stored, disk
  <1>Serve. ASSUME Serve
            PROVE  SavedFieldsStay'
    BY <1>a, <1>Serve, ServeDoes DEF SavedFieldsStay, Stored, disk
  <1>Seed. ASSUME Seed
           PROVE  SavedFieldsStay'
    <2>1. /\ req[Boot].cfg \in Configs /\ UNCHANGED overlapped
          /\ ~overlapped => KeepsOthers(req[Boot].cfg, req[Boot].call) /\ acked = Stored
      BY <1>a, <1>b, <1>Seed, SeedDoes
         DEF StageFits, Fits, Testing, OneRewrites, SavedFieldsStay
    <2>2. CASE Renamed(Boot)
      BY <1>a, <1>b, <2>1, <2>2, SavedAre DEF SavedFieldsStay
    <2>3. CASE UNCHANGED disk
      BY <1>a, <2>1, <2>3 DEF SavedFieldsStay, Stored, disk
    <2> QED
      BY <1>a, <1>Seed, SeedDoes, <2>2, <2>3
  <1>Test. ASSUME NEW p \in Procs, Test(p)
           PROVE  SavedFieldsStay'
    BY <1>a, <1>Test, TestDoes DEF SavedFieldsStay, Stored, disk
  <1>Save. ASSUME NEW p \in Procs, Save(p)
           PROVE  SavedFieldsStay'
    <2>1. /\ req[p].cfg \in Configs /\ UNCHANGED overlapped
          /\ ~overlapped => KeepsOthers(req[p].cfg, req[p].call) /\ acked = Stored
      BY <1>a, <1>b, <1>Save, SaveDoes
         DEF StageFits, Fits, Testing, OneRewrites, SavedFieldsStay
    <2>2. CASE Renamed(p)
      BY <1>a, <1>b, <2>1, <2>2, SavedAre DEF SavedFieldsStay
    <2>3. CASE UNCHANGED disk
      BY <1>a, <2>1, <2>3 DEF SavedFieldsStay, Stored, disk
    <2> QED
      BY <1>a, <1>Save, SaveDoes, <2>2, <2>3
  <1>LoadConfig. ASSUME NEW p \in Procs, LoadConfig(p)
                 PROVE  SavedFieldsStay'
    BY <1>a, <1>LoadConfig, LoadConfigDoes DEF SavedFieldsStay, Stored, disk
  <1>Probe. ASSUME NEW p \in Procs, Probe(p)
            PROVE  SavedFieldsStay'
    BY <1>a, <1>Probe, ProbeDoes DEF SavedFieldsStay, Stored, disk
  <1>ResolveThem. ASSUME NEW p \in Procs, ResolveThem(p)
                  PROVE  SavedFieldsStay'
    BY <1>a, <1>ResolveThem, ResolveThemDoes DEF SavedFieldsStay, Stored, disk
  <1>Store. ASSUME NEW p \in Procs, Store(p)
            PROVE  SavedFieldsStay'
    BY <1>a, <1>Store, StoreDoes DEF SavedFieldsStay, Stored, disk
  <1>Invalidate. ASSUME NEW p \in Procs, Invalidate(p)
                 PROVE  SavedFieldsStay'
    BY <1>a, <1>Invalidate, InvalidateDoes DEF SavedFieldsStay, Stored, disk
  <1>FromCache. ASSUME NEW p \in Procs, FromCache(p)
                PROVE  SavedFieldsStay'
    BY <1>a, <1>FromCache, FromCacheDoes DEF SavedFieldsStay, Stored, disk
  <1>StartListing. ASSUME NEW p \in Procs, StartListing(p)
                   PROVE  SavedFieldsStay'
    BY <1>a, <1>StartListing, StartListingDoes DEF SavedFieldsStay, Stored, disk
  <1>Listed. ASSUME NEW p \in Procs, Listed(p)
             PROVE  SavedFieldsStay'
    BY <1>a, <1>Listed, ListedDoes DEF SavedFieldsStay, Stored, disk
  <1>ListingFails. ASSUME NEW p \in Procs, ListingFails(p)
                   PROVE  SavedFieldsStay'
    BY <1>a, <1>ListingFails, ListingFailsDoes DEF SavedFieldsStay, Stored, disk
  <1>Finish. ASSUME NEW p \in Procs, Finish(p)
             PROVE  SavedFieldsStay'
    BY <1>a, <1>Finish, FinishDoes DEF SavedFieldsStay, Stored, disk
  <1>Expire. ASSUME Expire
             PROVE  SavedFieldsStay'
    BY <1>a, <1>Expire, ExpireDoes DEF SavedFieldsStay, Stored, disk
  <1>Crash. ASSUME Crash
            PROVE  SavedFieldsStay'
    BY <1>a, <1>Crash, CrashDoes DEF SavedFieldsStay, Stored, disk
  <1>Change. ASSUME NEW t \in Targets, NEW s \in Servers, Change(t, s)
             PROVE  SavedFieldsStay'
    BY <1>a, <1>Change DEF Change, SavedFieldsStay, Stored, disk
  <1>stutter. ASSUME UNCHANGED vars
              PROVE  SavedFieldsStay'
    BY <1>a, <1>stutter DEF vars, SavedFieldsStay, Stored, disk
  <1> QED
    <2>1. CASE UNCHANGED vars
      BY <2>1, <1>stutter
    <2>2. CASE Next
      <3>1. ASSUME NEW p \in Procs, Step(p) PROVE SavedFieldsStay'
        BY <3>1, <1>Bootstrap, <1>Serve, <1>Seed, <1>Test, <1>Save, <1>LoadConfig,
           <1>Probe,
           <1>ResolveThem, <1>Store, <1>Invalidate, <1>FromCache, <1>StartListing, <1>Listed,
           <1>ListingFails, <1>Finish DEF Step
      <3>2. ASSUME NEW r \in Requests, Request(r) PROVE SavedFieldsStay'
        BY <1>a, <3>2, <1>Rewrites, <1>Library, SettingsDoes, PasswordDoes, SetupDoes
           DEF Request
      <3> QED
        BY <2>2, <3>1, <3>2, <1>Expire, <1>Crash, <1>Change DEF Next
    <2> QED
      BY <2>1, <2>2

-----------------------------------------------------------------------------
\* What Connect and FetchPlatforms make of a server (RommProbe): the operation
\* of each requirement is one the document lists, and a platform is one row.
LEMMA CapabilitiesAreListed ==
  ASSUME NEW operations, NEW id \in DOMAIN Candidates,
         EvaluateCapabilities(operations)[id] # Unresolved
  PROVE  EvaluateCapabilities(operations)[id] \in operations
  <1> DEFINE listed == First({n \in DOMAIN Candidates[id] :
                                Candidates[id][n] \in operations})
  <1>1. EvaluateCapabilities(operations)[id] =
          IF listed = {} THEN Unresolved
          ELSE Candidates[id][CHOOSE n \in listed : TRUE]
    BY DEF EvaluateCapabilities
  <1>2. listed # {}
    BY <1>1
  <1>3. (CHOOSE n \in listed : TRUE) \in listed
    BY <1>2
  <1>4. \A n \in listed : Candidates[id][n] \in operations
    BY DEF First
  <1> QED
    BY <1>1, <1>2, <1>3, <1>4

\* The scheme is one the server accepts, and the whoami operation answered.
LEMMA ConnectedIsConfirmed ==
  ASSUME NEW s, NEW r \in Connect(s)
  PROVE  /\ r.capabilities = EvaluateCapabilities(s.operations)
         /\ MissingRequired(r.capabilities) = {}
         /\ Status(s, r.scheme, AuthProbe(r.capabilities)) = 200
  <1> DEFINE c == EvaluateCapabilities(s.operations)
  <1>1. PICK t \in {u \in Scheme(s, c) : Unblocked(s, c, u)} :
          r = [capabilities |-> c, scheme |-> t]
    BY DEF Connect
  <1> HIDE DEF c
  <1>2. r.capabilities = c /\ r.scheme = t
    BY <1>1
  <1>3. MissingRequired(c) = {}
    BY <1>1 DEF Unblocked
  <1>4. t \in DetectAuthScheme(s, AuthProbe(c))
    BY <1>1 DEF Scheme
  <1>5. Status(s, t, AuthProbe(c)) = 200
    BY <1>4 DEF DetectAuthScheme
  <1> QED
    BY <1>2, <1>3, <1>5 DEF c

LEMMA RequiredAreListed ==
  ASSUME NEW s, NEW r \in Connect(s), NEW id \in Required
  PROVE  r.capabilities[id] \in s.operations
  <1>1. r.capabilities[id] # Unresolved
    BY ConnectedIsConfirmed DEF MissingRequired
  <1>2. id \in DOMAIN Candidates
    BY DEF Required
  <1> QED
    BY <1>1, <1>2, ConnectedIsConfirmed, CapabilitiesAreListed

\* Of the rows with one slug, FetchPlatforms keeps the first and no other.
LEMMA OneRowPerSlug ==
  ASSUME NEW rows, NEW size \in Nat, DOMAIN rows = 1..size, NEW n \in 1..size,
         Resolvable(rows[n])
  PROVE  Cardinality(Lookup(ResolvePlatforms(rows), rows[n].slug)) = 1
  <1> DEFINE slug == rows[n].slug
             Same == {m \in 1..size : Resolvable(rows[m]) /\ rows[m].slug = slug}
  <1>1. PICK first \in Same : \A m \in Same : ~(m < first)
    <2>1. Same \subseteq Nat /\ Same # {}
      BY DEF Same
    <2> DEFINE Less == OpToRel(<, Nat)
    <2>2. IsWellFoundedOn(Less, Nat)
      BY NatLessThanWellFounded
    <2>3. \A x, y \in Nat : x < y => <<x, y>> \in Less
      BY DEF OpToRel
    <2> HIDE DEF Less, Same
    <2>4. \E x \in Same : \A y \in Same : ~(<<y, x>> \in Less)
      BY <2>1, <2>2, WFMin
    <2> QED
      BY <2>1, <2>3, <2>4
  <1> DEFINE kept == {m \in DOMAIN rows :
                        /\ Resolvable(rows[m])
                        /\ \A k \in 1..(m - 1) :
                             Resolvable(rows[k]) => rows[k].slug # rows[m].slug}
  <1>2. first \in kept /\ rows[first].slug = slug
    BY <1>1 DEF Same
  <1>3. \A m \in kept : rows[m].slug = slug => m = first
    <2>1. TAKE m \in kept
    <2>2. HAVE rows[m].slug = slug
    <2>3. m \in Same /\ m \in Nat /\ first \in Nat /\ first \in Same
      BY <1>1, <2>2 DEF Same
    <2>4. ~(m < first)
      BY <1>1, <2>3
    <2>5. ~(first < m)
      BY <2>2, <2>3 DEF Same
    <2> QED
      BY <2>3, <2>4, <2>5
  <1> HIDE DEF kept, Same, slug
  <1>4. ResolvePlatforms(rows) = {rows[m] : m \in kept}
    BY DEF ResolvePlatforms, kept
  <1>5. Lookup(ResolvePlatforms(rows), slug) = {rows[first].id}
    BY <1>2, <1>3, <1>4 DEF Lookup
  <1> QED
    BY <1>5, FS_Singleton DEF slug

LEMMA MadeIsUsable ==
  ASSUME NEW c \in Conns, Made(c), c.of \in Servers
  PROVE  LET s == c.of
             answer(operation) == Status(s, c.report.scheme, operation)
         IN /\ answer(AuthProbe(c.report.capabilities)) = 200
            /\ answer(c.report.capabilities.platforms_list) = 200
            /\ \A id \in Required : c.report.capabilities[id] \in s.operations
            /\ \A n \in DOMAIN s.platforms :
                 Resolvable(s.platforms[n]) =>
                   Cardinality(Lookup(c.platforms, s.platforms[n].slug)) = 1
            /\ \A p \in c.platforms : \E n \in DOMAIN s.platforms : s.platforms[n] = p
  <1> DEFINE s == c.of
  <1>1. s \in Servers /\ c.report \in Connect(s) /\ c.platforms \in FetchPlatforms(s, c.report)
    BY NoneIsApart DEF Made
  <1>2. /\ c.platforms = ResolvePlatforms(s.platforms)
        /\ Status(s, c.report.scheme, c.report.capabilities.platforms_list) = 200
    BY <1>1 DEF FetchPlatforms
  <1> HIDE DEF s
  <1>3. Status(s, c.report.scheme, AuthProbe(c.report.capabilities)) = 200
    BY <1>1, ConnectedIsConfirmed
  <1>4. \A id \in Required : c.report.capabilities[id] \in s.operations
    BY <1>1, RequiredAreListed
  <1>5. \A n \in DOMAIN s.platforms :
          Resolvable(s.platforms[n]) =>
            Cardinality(Lookup(c.platforms, s.platforms[n].slug)) = 1
    BY <1>1, <1>2, OneRowPerSlug, RowsAreASequence
  <1>6. \A p \in c.platforms : \E n \in DOMAIN s.platforms : s.platforms[n] = p
    BY <1>2 DEF ResolvePlatforms
  <1> QED
    BY <1>2, <1>3, <1>4, <1>5, <1>6 DEF s

-----------------------------------------------------------------------------
LEMMA InitInv == Init => IInv
  <1> SUFFICES ASSUME Init PROVE IInv
    OBVIOUS
  <1>1. /\ Boot \in Procs /\ None \notin Procs /\ Boot \notin Requests
        /\ req \in [Procs -> Reqs]
        /\ req[Boot].at = "boot" /\ req[Boot].call = "boot"
        /\ \A p \in Procs \ {Boot} : req[p] = Idle
    BY BootIsApart, NoneIsApart, IdleFits, SetBoot DEF Init, Procs
  <1>2. acked \in Acks
    <2>1. file = None \/ (file \in Configs /\ file # None)
      BY LeftAssumption DEF Init
    <2>2. CASE file = None
      BY <2>2 DEF Init, Stored, Empty, Acks
    <2>3. CASE file \in Configs /\ file # None
      BY <2>3 DEF Init, Stored, Configs, Acks
    <2> QED
      BY <2>1, <2>2, <2>3
  <1>3. overlapped \in BOOLEAN /\ failed \in Healths
    BY Booleans DEF Init, Healths
  <1>4. TypeOK
    BY <1>1, <1>2, <1>3, LeftAssumption DEF Init, TypeOK
  <1>5. StageFits
    BY <1>1 DEF Idle, StageFits, Fits, Testing, Connecting, Asking, Rewriting
  <1>6. Numbered
    BY <1>1 DEF Init, Idle, Numbered, Follows, Asking
  <1>7. Probed
    BY <1>1 DEF Init, Idle, Probed, InHand
  <1>8. OneRewrites
    BY <1>1 DEF Idle, OneRewrites, Rewriting, Testing
  <1>9. OnItsWay
    BY <1>1 DEF Idle, OnItsWay, Toward, Pending
  <1>10. SavedFieldsStay
    BY DEF Init, SavedFieldsStay, Stored
  <1> QED
    BY <1>4, <1>5, <1>6, <1>7, <1>8, <1>9, <1>10 DEF IInv

LEMMA StepInv == IInv /\ [Next]_vars => IInv'
  BY StepTypeOK, StepStageFits, StepNumbered, StepProbed, StepOneRewrites, StepOnItsWay,
     StepSavedFieldsStay DEF IInv

\* The inductive invariant (RommConnection.tla: whatever the requests, the boot,
\* the servers, the faults and the crashes).
THEOREM ConnectionInv == Spec => []IInv
  BY InitInv, StepInv, PTL DEF Spec

\* "A new RomM connection must never keep serving the previous connection's
\* cached inventory" (library.go): any number of listings and Reconnects.
THEOREM CacheFollowsReconnect == Spec => []ListingsFollowReconnect
  <1>1. IInv => ListingsFollowReconnect
    BY DEF IInv, Numbered, Follows, ListingsFollowReconnect
  <1> QED
    BY <1>1, ConnectionInv, PTL

\* No field another request wrote is undone where rewrites do not overlap
\* (settings.go, setup.go), over crashes, failed writes and errors behind the
\* rename.
THEOREM NoFieldIsUndone == Spec => []SavedFieldsStay
  <1>1. IInv => SavedFieldsStay
    BY DEF IInv
  <1> QED
    BY <1>1, ConnectionInv, PTL

\* A daemon at rest is connected to what is stored (daemon.go, Reconnect), unless
\* the last Reconnect failed or a new target was stored behind an error.
THEOREM ConnectedToStored == Spec => []ConnectedAsStored
  <1>1. IInv => ConnectedAsStored
    <2> SUFFICES ASSUME IInv, AtRest, ~overlapped, failed = "no", Configured
                 PROVE  live # None /\ live.conn.target = file.target
      BY DEF ConnectedAsStored, ConnectedTo
    <2>1. file # None /\ Stored = file
      BY StoredFits DEF IInv
    <2>2. ASSUME NEW p \in Procs PROVE ~Pending(p)
      <3>1. Fits(p) /\ ~Rewriting(p)
        BY DEF IInv, StageFits, AtRest
      <3> QED
        BY <3>1 DEF Fits, Pending, Rewriting
    <2> QED
      BY <2>1, <2>2 DEF IInv, OnItsWay
  <1> QED
    BY <1>1, ConnectionInv, PTL

\* What the probe found of a server is true of it for as long as the server does
\* not change (probe.go, client.go, platforms.go), whatever the document, the
\* failing operations, the schemes, the token's scopes and the platform rows.
THEOREM ProbedIsUsable == Spec => []LiveIsUsable
  <1>1. IInv => LiveIsUsable
    <2> SUFFICES ASSUME IInv, Unchanged
                 PROVE  LiveIsUsable
      BY DEF LiveIsUsable
    <2>3. live # None /\ live.conn.of = server[live.conn.target]
      BY DEF Unchanged
    <2>1. live.conn \in Conns /\ Made(live.conn)
      BY <2>3 DEF IInv, TypeOK, Lives, Probed
    <2>2. live.conn.of \in Servers
      BY <2>1, <2>3 DEF IInv, TypeOK, Conns
    <2> QED
      BY <2>1, <2>2, MadeIsUsable DEF LiveIsUsable, AnsweredWith
  <1> QED
    BY <1>1, ConnectionInv, PTL

\* ... and so it is of every fair behaviour.
COROLLARY FairConnectionInv == FairSpec => []IInv
  BY ConnectionInv, PTL DEF FairSpec
=============================================================================
