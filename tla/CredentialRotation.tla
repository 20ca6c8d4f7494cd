------------------------- MODULE CredentialRotation -------------------------
(***************************************************************************)
(* The rotating refresh credential of one Bridge (auth/refresh.go), the    *)
(* Host's per-Bridge lock around every operation on its family             *)
(* (host/directory), and the Bridge's file store and refresh client        *)
(* (auth/bridgestore.go, bridge/hostclient).                               *)
(*                                                                         *)
(* Families of different Bridges share neither a row nor a lock, so one    *)
(* family is the whole protocol.  A token is the number of its minting:    *)
(* NewToken draws 32 random bytes, and a fresh number stands for a draw    *)
(* that never repeats.  0 is the empty hash.                               *)
(***************************************************************************)
EXTENDS Naturals

CONSTANTS
  Calls,      \* HTTP exchanges the Bridge may have open at once
  Owner,      \* the owner's exchange: revoke and re-enroll
  NoOne,      \* nobody holds the family's lock
  Grace,      \* the grace window, in clock ticks
  MaxTokens,  \* bound: tokens the Host mints
  MaxLosses   \* bound: lost replies, abandoned calls, failed saves, crashes

ASSUME OwnerIsApart == Owner \notin Calls /\ NoOne \notin Calls \cup {Owner}
ASSUME BoundsAreNat == Grace \in Nat /\ MaxTokens \in Nat /\ MaxLosses \in Nat

VARIABLES
  \* The Host.
  family,     \* the bridge_credential_families row
  age,        \* ticks since PreviousIssuedAt, saturating past the window
  minted,     \* tokens minted so far
  lock,       \* who holds bridgeLocks.lock(bridgeID)
  host,       \* where each exchange's handler stands
  request,    \* what each exchange asks
  snap,       \* the FamilyState the handler's Load returned
  reply,      \* the token in the answer; 0 is any refusal
  \* The Bridge.
  client,     \* where each of the Bridge's calls stands
  seen,       \* the Generation RotateFunc read before it sent
  cred,       \* the credential file as the Bridge reads it
  durable,    \* the credential file as a power loss would leave it
  \* Bounds and history, read by no guard of the program.
  losses,     \* calls cut short and saves that failed so far
  uses,       \* rotations each token has bought
  root,       \* the token the last enrolment or re-enrolment minted
  raced,      \* two exchanges of the Bridge have overlapped
  unflushed,  \* a rename was left without a flush, and none came after it
  undone      \* a power loss has found such a rename

hostVars == <<family, age, minted, lock, snap, uses, root>>
disk == <<unflushed, undone>>
bridgeVars == <<cred, durable, disk, seen>>
vars == <<family, age, minted, lock, host, request, snap, reply, client,
          seen, cred, durable, disk, losses, uses, root, raced>>

Handlers == Calls \cup {Owner}
Tokens == 1..MaxTokens
Reasons == {"none", "owner", "twice", "late"}

Families == [exists: BOOLEAN, current: 0..MaxTokens, previous: 0..MaxTokens,
             consumed: BOOLEAN, generation: Nat,
             revoked: BOOLEAN, reason: Reasons]
NoFamily == [exists |-> FALSE, current |-> 0, previous |-> 0,
             consumed |-> FALSE, generation |-> 0,
             revoked |-> FALSE, reason |-> "none"]
\* What Enroll writes, whatever was there.
FreshFamily(t) == [NoFamily EXCEPT !.exists = TRUE, !.current = t,
                                   !.generation = 1]

-----------------------------------------------------------------------------
(* Mistakes the properties must notice: each stands in for the definition  *)
(* it is named after, and no other definition uses it.                     *)

\* The recovery path may be taken again.
RecoveredUnmarked(s, t) == [s EXCEPT !.current = t, !.generation = @ + 1]

\* A normal rotation does not open a new recovery path.
RotatedStillConsumed(s, t) == [s EXCEPT !.current = t, !.previous = s.current,
                                        !.generation = @ + 1]

\* Load and Save without the per-Bridge lock.
LoadUnlocked(h) ==
  /\ host[h] = "queued"
  /\ lock' = h
  /\ host' = [host EXCEPT ![h] = "loaded"]
  /\ \E read \in {family, NoFamily} :
       /\ request[h].op = "enroll" => read = NoFamily
       /\ snap' = [snap EXCEPT ![h] = read]
  /\ UNCHANGED <<family, age, minted, uses, root, bridgeVars, request, reply,
                 client, losses, raced>>

-----------------------------------------------------------------------------
\* The rows the other operations write, from the row s they loaded.
Rotated(s, t) == [s EXCEPT !.current = t, !.previous = s.current,
                           !.consumed = FALSE, !.generation = @ + 1]
Recovered(s, t) == [s EXCEPT !.current = t, !.consumed = TRUE,
                             !.generation = @ + 1]
Revoked(s, why) == [s EXCEPT !.revoked = TRUE, !.reason = why,
                             !.current = 0, !.previous = 0]
ReEnrolled(s, t) == [s EXCEPT !.revoked = FALSE, !.reason = "none",
                              !.current = t, !.previous = 0,
                              !.consumed = FALSE, !.generation = @ + 1]

Requests == [op: {"none", "rotate", "enroll", "revoke", "reenroll"},
             token: 0..MaxTokens]
NoRequest == [op |-> "none", token |-> 0]

Credentials == [token: 0..MaxTokens, generation: Nat]
NoCredential == [token |-> 0, generation |-> 0]

Init ==
  /\ family = NoFamily /\ age = 0 /\ minted = 0 /\ lock = NoOne
  /\ host = [h \in Handlers |-> "idle"]
  /\ request = [h \in Handlers |-> NoRequest]
  /\ snap = [h \in Handlers |-> NoFamily]
  /\ reply = [c \in Calls |-> 0]
  /\ client = [c \in Calls |-> "idle"]
  /\ seen = [c \in Calls |-> 0]
  /\ cred = NoCredential /\ durable = NoCredential
  /\ losses = 0 /\ root = 0
  /\ raced = FALSE /\ unflushed = FALSE /\ undone = FALSE
  /\ uses = [t \in Tokens |-> 0]

Free(c) == client[c] = "idle" /\ host[c] = "idle"

-----------------------------------------------------------------------------
(* The Bridge: JoinSwarm's enrolment and Client.Refresh.                   *)

\* JoinSwarm presents an invitation; the answer carries a first token.
StartEnroll(c) ==
  /\ Free(c)
  /\ client' = [client EXCEPT ![c] = "waiting"]
  /\ host' = [host EXCEPT ![c] = "queued"]
  /\ request' = [request EXCEPT ![c] = [op |-> "enroll", token |-> 0]]
  /\ raced' = (raced \/ \E d \in Calls : ~Free(d))
  /\ UNCHANGED <<hostVars, bridgeVars, reply, losses>>

\* Refresh loads the stored credential...
StartRefresh(c) ==
  /\ Free(c) /\ cred # NoCredential
  /\ client' = [client EXCEPT ![c] = "loaded"]
  /\ request' = [request EXCEPT ![c] = [op |-> "rotate", token |-> cred.token]]
  /\ raced' = (raced \/ \E d \in Calls : ~Free(d))
  /\ UNCHANGED <<hostVars, bridgeVars, host, reply, losses>>

\* ... and RotateFunc loads it again, for its generation, before it sends.
SendRotate(c) ==
  /\ client[c] = "loaded"
  /\ client' = [client EXCEPT ![c] = "waiting"]
  /\ seen' = [seen EXCEPT ![c] = cred.generation]
  /\ host' = [host EXCEPT ![c] = "queued"]
  /\ UNCHANGED <<hostVars, request, reply, cred, durable, disk, losses,
                 raced>>

\* The call returns and its slot is forgotten.
Return(c) ==
  /\ client' = [client EXCEPT ![c] = "idle"]
  /\ seen' = [seen EXCEPT ![c] = 0]

Forget(c) ==
  /\ host' = [host EXCEPT ![c] = "idle"]
  /\ request' = [request EXCEPT ![c] = NoRequest]
  /\ reply' = [reply EXCEPT ![c] = 0]

Answered(c) == client[c] = "waiting" /\ host[c] = "replied"

\* A refusal of any kind: nothing was stored.
TakeRefusal(c) ==
  /\ Answered(c) /\ reply[c] = 0
  /\ Return(c) /\ Forget(c)
  /\ UNCHANGED <<hostVars, cred, durable, disk, losses, raced>>

\* FileStore.Save up to and including its rename.  RotateFunc puts the
\* generation it read plus one in the credential, JoinSwarm puts 1.
StoreCredential(c) ==
  /\ Answered(c) /\ reply[c] # 0
  /\ cred' = [token |-> reply[c],
              generation |-> IF request[c].op = "enroll" THEN 1
                             ELSE seen[c] + 1]
  /\ client' = [client EXCEPT ![c] = "renamed"]
  /\ seen' = [seen EXCEPT ![c] = 0]
  /\ Forget(c)
  /\ UNCHANGED <<hostVars, durable, disk, losses, raced>>

\* FileStore.Save failed before the rename: the old credential stays.
StoreFails(c) ==
  /\ Answered(c) /\ reply[c] # 0 /\ losses < MaxLosses
  /\ losses' = losses + 1
  /\ Return(c) /\ Forget(c)
  /\ UNCHANGED <<hostVars, cred, durable, disk, raced>>

\* syncDir: the rename reaches the disk, and any before it; unless the
\* filesystem refuses the fsync, which is forgiven, or the directory cannot be
\* opened, which Save reports with the new file in place.
FlushDirectory(c) ==
  /\ client[c] = "renamed"
  /\ \/ durable' = cred /\ unflushed' = FALSE /\ UNCHANGED losses
     \/ /\ losses < MaxLosses
        /\ losses' = losses + 1
        /\ unflushed' = TRUE /\ UNCHANGED durable
  /\ Return(c)
  /\ UNCHANGED <<hostVars, host, request, reply, cred, undone, raced>>

\* The call's timeout, or its connection lost.  A request on its way may
\* still arrive, and a handler that runs is not stopped.
GiveUp(c) ==
  /\ client[c] = "waiting" /\ losses < MaxLosses
  /\ losses' = losses + 1
  /\ Return(c)
  /\ \/ /\ host[c] \in {"queued", "replied"}
        /\ Forget(c)
     \/ /\ host[c] \in {"queued", "loaded"}
        /\ UNCHANGED <<host, request, reply>>
  /\ UNCHANGED <<hostVars, cred, durable, disk, raced>>

\* Every call of the Bridge dies with its process.  Answers already written
\* are lost; handlers that have not answered run on.
BridgeStops(file) ==
  /\ losses < MaxLosses
  /\ losses' = losses + 1
  /\ cred' = file
  /\ client' = [c \in Calls |-> "idle"]
  /\ seen' = [c \in Calls |-> 0]
  /\ host' = [h \in Handlers |->
                IF h \in Calls /\ host[h] = "replied" THEN "idle" ELSE host[h]]
  /\ request' = [h \in Handlers |->
                   IF h \in Calls /\ host[h] \in {"idle", "replied"}
                   THEN NoRequest ELSE request[h]]
  /\ reply' = [c \in Calls |-> 0]
  /\ UNCHANGED <<hostVars, raced>>

BridgeCrash ==
  /\ BridgeStops(cred)
  /\ unflushed' = (unflushed \/ \E c \in Calls : client[c] = "renamed")
  /\ UNCHANGED <<durable, undone>>

\* Without power, a rename that was not flushed may be undone.
PowerLoss ==
  /\ BridgeStops(durable)
  /\ undone' = (undone \/ unflushed) /\ unflushed' = FALSE
  /\ UNCHANGED durable

-----------------------------------------------------------------------------
(* The Host: one handler per exchange, each Verifier call under the lock.  *)

OwnerAsks(o) ==
  /\ host[Owner] = "idle"
  /\ host' = [host EXCEPT ![Owner] = "queued"]
  /\ request' = [request EXCEPT ![Owner] = [op |-> o, token |-> 0]]
  /\ UNCHANGED <<hostVars, bridgeVars, reply, client, losses, raced>>

\* bridgeLocks.lock, then Store.Load, which reports a row it cannot read as
\* no row at all.  Enroll loads nothing.
LockAndLoad(h) ==
  /\ host[h] = "queued" /\ lock = NoOne
  /\ lock' = h
  /\ host' = [host EXCEPT ![h] = "loaded"]
  /\ \E read \in {family, NoFamily} :
       /\ request[h].op = "enroll" => read = NoFamily
       /\ snap' = [snap EXCEPT ![h] = read]
  /\ UNCHANGED <<family, age, minted, uses, root, bridgeVars, request, reply,
                 client, losses, raced>>

\* The handler answers and unlocks; nobody reads the answer to an abandoned
\* call, and the owner's answers are shown, not stored.
Finish(h, answer) ==
  /\ lock' = NoOne
  /\ snap' = [snap EXCEPT ![h] = NoFamily]
  /\ IF h \in Calls /\ client[h] = "waiting"
     THEN /\ host' = [host EXCEPT ![h] = "replied"]
          /\ reply' = [reply EXCEPT ![h] = answer]
          /\ UNCHANGED request
     ELSE /\ host' = [host EXCEPT ![h] = "idle"]
          /\ request' = [request EXCEPT ![h] = NoRequest]
          /\ UNCHANGED reply
  /\ UNCHANGED <<bridgeVars, client, losses, raced>>

Running(h, o) == host[h] = "loaded" /\ request[h].op = o

\* No family, a revoked one, or a token that matches neither hash.
RotateRefused(h) ==
  LET s == snap[h] IN
  /\ Running(h, "rotate")
  /\ \/ ~s.exists
     \/ s.revoked
     \/ request[h].token \notin {s.current, s.previous} \ {0}
  /\ Finish(h, 0)
  /\ UNCHANGED <<family, age, minted, uses, root>>

\* What a rotation that bought a token leaves behind.
Bought(t) ==
  /\ minted < MaxTokens
  /\ minted' = minted + 1
  /\ uses' = [uses EXCEPT ![t] = @ + 1]
  /\ UNCHANGED root

\* The normal path: the current token becomes the previous one.
Rotate(h) ==
  LET s == snap[h] IN
  /\ Running(h, "rotate") /\ s.exists /\ ~s.revoked
  /\ request[h].token = s.current
  /\ Bought(s.current)
  /\ family' = Rotated(s, minted + 1)
  /\ age' = 0
  /\ Finish(h, minted + 1)

\* The token presented is the previous one, and no longer current.
PresentsPrevious(h) ==
  /\ Running(h, "rotate") /\ snap[h].exists /\ ~snap[h].revoked
  /\ request[h].token # snap[h].current
  /\ snap[h].previous # 0 /\ request[h].token = snap[h].previous

\* The recovery path: the token that was never delivered is dropped.
Recover(h) ==
  LET s == snap[h] IN
  /\ PresentsPrevious(h) /\ ~s.consumed /\ age <= Grace
  /\ Bought(s.previous)
  /\ family' = Recovered(s, minted + 1)
  /\ UNCHANGED age
  /\ Finish(h, minted + 1)

DetectReuse(h) ==
  LET s == snap[h] IN
  /\ PresentsPrevious(h)
  /\ \/ s.consumed /\ family' = Revoked(s, "twice")
     \/ ~s.consumed /\ age > Grace /\ family' = Revoked(s, "late")
  /\ Finish(h, 0)
  /\ UNCHANGED <<age, minted, uses, root>>

\* Store.Save failed, or the Host ran out of the model's tokens.
SaveFails(h) ==
  /\ host[h] = "loaded"
  /\ Finish(h, 0)
  /\ UNCHANGED <<family, age, minted, uses, root>>

\* Enroll writes a fresh family over whatever the row held.
Enroll(h) ==
  /\ Running(h, "enroll") /\ minted < MaxTokens
  /\ family' = FreshFamily(minted + 1)
  /\ minted' = minted + 1 /\ root' = minted + 1 /\ age' = 0
  /\ Finish(h, minted + 1)
  /\ UNCHANGED uses

\* Revoke, for a family that exists.
RevokeFamily(h) ==
  /\ Running(h, "revoke") /\ snap[h].exists
  /\ family' = Revoked(snap[h], "owner")
  /\ Finish(h, 0)
  /\ UNCHANGED <<age, minted, uses, root>>

\* ReEnroll keeps the row and its count, and forgets both hashes.
ReEnroll(h) ==
  LET s == snap[h] IN
  /\ Running(h, "reenroll") /\ s.exists /\ minted < MaxTokens
  /\ family' = ReEnrolled(s, minted + 1)
  /\ minted' = minted + 1 /\ root' = minted + 1 /\ age' = 0
  /\ Finish(h, minted + 1)
  /\ UNCHANGED uses

\* Revoke and ReEnroll of a family nobody enrolled.
NoSuchFamily(h) ==
  /\ host[h] = "loaded" /\ request[h].op \in {"revoke", "reenroll"}
  /\ ~snap[h].exists
  /\ Finish(h, 0)
  /\ UNCHANGED <<family, age, minted, uses, root>>

\* The Host process dies: handlers and lock go, the database stays.
HostCrash ==
  /\ losses < MaxLosses
  /\ losses' = losses + 1
  /\ lock' = NoOne
  /\ host' = [h \in Handlers |-> "idle"]
  /\ request' = [h \in Handlers |->
                   IF h \in Calls /\ client[h] = "loaded"
                   THEN request[h] ELSE NoRequest]
  /\ snap' = [h \in Handlers |-> NoFamily]
  /\ reply' = [c \in Calls |-> 0]
  /\ client' = [c \in Calls |->
                  IF client[c] = "waiting" THEN "idle" ELSE client[c]]
  /\ seen' = [c \in Calls |-> 0]
  /\ UNCHANGED <<family, age, minted, uses, root, cred, durable, disk,
                 raced>>

Tick ==
  /\ family.previous # 0 /\ age <= Grace
  /\ age' = age + 1
  /\ UNCHANGED <<family, minted, lock, host, request, snap, reply, client,
                 seen, cred, durable, disk, losses, uses, root, raced>>

-----------------------------------------------------------------------------
BridgeStep(c) ==
  \/ StartEnroll(c) \/ StartRefresh(c) \/ SendRotate(c)
  \/ TakeRefusal(c) \/ StoreCredential(c) \/ StoreFails(c)
  \/ FlushDirectory(c) \/ GiveUp(c)

Handle(h) ==
  \/ RotateRefused(h) \/ Rotate(h) \/ Recover(h) \/ DetectReuse(h)
  \/ Enroll(h) \/ RevokeFamily(h) \/ ReEnroll(h) \/ NoSuchFamily(h)
  \/ SaveFails(h)

Next ==
  \/ \E c \in Calls : BridgeStep(c)
  \/ BridgeCrash \/ PowerLoss
  \/ \E o \in {"revoke", "reenroll"} : OwnerAsks(o)
  \/ \E h \in Handlers : LockAndLoad(h) \/ Handle(h)
  \/ HostCrash \/ Tick

Spec == Init /\ [][Next]_vars

-----------------------------------------------------------------------------
(* Properties.                                                             *)

TypeOK ==
  /\ family \in Families /\ age \in 0..(Grace + 1)
  /\ minted \in 0..MaxTokens /\ lock \in Handlers \cup {NoOne}
  /\ host \in [Handlers -> {"idle", "queued", "loaded", "replied"}]
  /\ request \in [Handlers -> Requests]
  /\ snap \in [Handlers -> Families]
  /\ reply \in [Calls -> 0..MaxTokens]
  /\ client \in [Calls -> {"idle", "loaded", "waiting", "renamed"}]
  /\ seen \in [Calls -> Nat]
  /\ cred \in Credentials /\ durable \in Credentials
  /\ raced \in BOOLEAN /\ unflushed \in BOOLEAN /\ undone \in BOOLEAN
  /\ losses \in 0..MaxLosses
  /\ uses \in [Tokens -> Nat] /\ root \in 0..minted

\* The tokens Rotate would still recognise.
Live == {family.current, family.previous} \ {0}

\* A token buys a rotation twice at most: once as the current token, and once
\* more on the recovery path.  A third would be the reuse the protocol exists
\* to detect (refresh.go: "and only once").
SpentAtMostTwice == \A t \in Tokens : uses[t] <= 2

\* A token the Host no longer recognises is never recognised again: no
\* interleaving of rotations, revocation, enrolment, crashes or failed saves
\* brings back a hash that was dropped.
SpentStaysSpent == [][\A t \in 1..minted : t \notin Live => t \notin Live']_vars

\* No rotation that raced a revocation, failed save or crash undoes it: a
\* revoked family lives again only through a token minted in that very step,
\* the one chain of tokens it then has.  ReEnroll does that, and so does the
\* Enroll of a redeemed invitation (bridges.go).
RevocationSticks ==
  [][family.revoked => \/ family'.revoked
                       \/ Live' = {minted'} /\ minted' > minted]_vars

\* When a family is ended because a credential was "presented twice", the
\* token presented did buy two rotations: no crash, lost reply or failed save
\* is taken for reuse, and no earlier recovery is held against a later token.
ReuseHappened ==
  [][family.reason # "twice" /\ family'.reason = "twice"
       => family.previous # 0 /\ uses[family.previous] = 2]_vars

\* "Nothing on the automatic path can resurrect a revoked family"
\* (auth/refresh.go): the owner's re-enrolment is the only escape.
\* It does not hold: CredentialRevival.cfg.
OnlyOwnerRevives ==
  [][family.revoked /\ ~family'.revoked
       => \E h \in Handlers : Running(h, "reenroll")]_vars

\* One interrupted rotation is a non-event.  Where the Bridge's calls did not
\* overlap and no power loss undid a rename left unflushed, the stored
\* credential of a living family is current, or is the previous one with its
\* recovery path untaken, as long as it has bought one rotation at most: after
\* a lost reply, a save that failed before its rename or behind it, a crash
\* anywhere, and a power loss between a rename and its flush.
InterruptionIsRecoverable ==
  ( /\ ~raced /\ ~undone
    /\ cred # NoCredential /\ cred.token >= root
    /\ ~family.revoked /\ uses[cred.token] <= 1 )
  => \/ cred.token = family.current
     \/ cred.token = family.previous /\ ~family.consumed

=============================================================================
