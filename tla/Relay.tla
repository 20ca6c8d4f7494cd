-------------------------------- MODULE Relay --------------------------------
(***************************************************************************)
(* The transfer relay (relay/relay.go): one goroutine per connection, the  *)
(* per-grant state its mutex guards, the server-wide count of sessions,    *)
(* and Revoke.  Each action is one critical section, or one call that      *)
(* touches a connection outside of any.                                    *)
(*                                                                         *)
(* The connection that completes a pairing owns the session.  Bytes move   *)
(* in units of one; the rate limit only delays them.                       *)
(***************************************************************************)
EXTENDS FiniteSets, Naturals

CONSTANTS
  Conns,          \* connections the server accepts, each used once
  Grants,
  NoConn,
  MaxBytes,       \* Config.MaxBytesPerGrant, in units
  Limits,         \* values Config.MaxConcurrent may have
  MaxLeaves       \* bound: clients that leave before the server closes

ASSUME LimitsArePositive == MaxBytes \in Nat \ {0} /\ Limits \subseteq Nat \ {0}
ASSUME BoundIsNat == MaxLeaves \in Nat
ASSUME NoConnIsApart == NoConn \notin Conns

VARIABLES
  maxConcurrent, \* Config.MaxConcurrent, fixed when the server is made
  \* One per connection.
  grant, role,   \* what its ConnectFrame says
  link,          \* the socket: its client may leave, the server may close it
  stage,         \* where its handler stands
  \* One per session, kept at the connection that owns it.
  peer,          \* the other connection
  start,         \* resumeAt, the offset both sides are told
  budget,        \* remaining, the limit of the session's io.Copy
  moved,         \* bytes io.Copy has written so far
  \* One per grant: grantState.
  seen,          \* its state exists, and firstSeen runs
  expired,       \* firstSeen is more than MaxDuration ago
  relayed,       \* bytesRelayed
  revoked,
  waiter,        \* waitingConn
  piping,        \* the owner of the session activeSrc and activeSink belong to
  revoker,       \* where a call of Revoke stands: the connections it took
  \* Server.
  active,
  \* Bound and history, read by no guard of the program.
  leaves,        \* clients that have left so far
  carried,       \* bytes the grant's sessions have written to sinks
  overlapped,    \* a session was paired while another was not yet accounted
  shadowed       \* one session took another's place in piping, or cleared it

setting == <<maxConcurrent, grant, role>>
sessions == <<peer, start, budget, moved>>
grantStates == <<seen, expired, relayed, revoked, waiter, piping>>
history == <<leaves, carried, overlapped, shadowed>>
vars == <<setting, link, stage, sessions, grantStates, revoker, active,
          history>>

Roles == {"source", "sink"}
Slots == {"admitted", "piping", "copying", "copied", "clearing", "closing"}
Idle == [call |-> "idle", took |-> {}]

Init ==
  /\ maxConcurrent \in Limits
  /\ grant \in [Conns -> Grants] /\ role \in [Conns -> Roles]
  /\ link = [c \in Conns |-> "up"] /\ stage = [c \in Conns |-> "frame"]
  /\ peer = [c \in Conns |-> NoConn]
  /\ start = [c \in Conns |-> 0] /\ budget = [c \in Conns |-> 0]
  /\ moved = [c \in Conns |-> 0]
  /\ seen = [g \in Grants |-> FALSE] /\ expired = [g \in Grants |-> FALSE]
  /\ relayed = [g \in Grants |-> 0] /\ revoked = [g \in Grants |-> FALSE]
  /\ waiter = [g \in Grants |-> NoConn] /\ piping = [g \in Grants |-> NoConn]
  /\ revoker = [g \in Grants |-> Idle]
  /\ active = 0 /\ leaves = 0
  /\ carried = [g \in Grants |-> 0] /\ overlapped = [g \in Grants |-> FALSE]
  /\ shadowed = [g \in Grants |-> FALSE]

Goto(c, next) == stage' = [stage EXCEPT ![c] = next]
Close(cs) == link' = [c \in Conns |-> IF c \in cs THEN "closed" ELSE link[c]]
Both(c) == {c, peer[c]}

\* Both handlers are done with their connections, and the session is gone.
EndBoth(c) ==
  /\ Close(Both(c))
  /\ stage' = [d \in Conns |-> IF d \in Both(c) THEN "over" ELSE stage[d]]
  /\ peer' = [peer EXCEPT ![c] = NoConn]
  /\ start' = [start EXCEPT ![c] = 0] /\ budget' = [budget EXCEPT ![c] = 0]
  /\ moved' = [moved EXCEPT ![c] = 0]

\* A session of g that is paired, and whose bytes are not in relayed yet.
Unaccounted(g) ==
  {c \in Conns : grant[c] = g
     /\ stage[c] \in {"pairing", "admitted", "piping", "copying", "copied"}}

-----------------------------------------------------------------------------
\* The client closes its end, or its network is lost.
Leave(c) ==
  /\ stage[c] # "frame" /\ link[c] = "up" /\ leaves < MaxLeaves
  /\ leaves' = leaves + 1
  /\ link' = [link EXCEPT ![c] = "dropped"]
  /\ UNCHANGED <<setting, stage, sessions, grantStates, revoker, active,
                 carried, overlapped, shadowed>>

-----------------------------------------------------------------------------
(* handle, from the frame on: reading it looks at nothing shared, so a     *)
(* connection is accepted when its handler takes the grant's lock.         *)

\* No frame in time, a malformed one, or one validateFrame refuses.
RefuseFrame(c) ==
  /\ stage[c] = "frame"
  /\ Close({c}) /\ Goto(c, "over")
  /\ UNCHANGED <<setting, sessions, grantStates, revoker, active, history>>

\* Server.state makes a grant's state on first sight.
Seen(g) == seen' = [seen EXCEPT ![g] = TRUE]

RefuseRevoked(c) ==
  /\ stage[c] = "frame" /\ revoked[grant[c]]
  /\ Close({c}) /\ Goto(c, "over")
  /\ UNCHANGED <<setting, sessions, grantStates, revoker, active, history>>

\* Mistake: the connection taken stays on offer.
PairLeavesWaiter(c) ==
  LET g == grant[c]  w == waiter[g] IN
  /\ stage[c] = "frame" /\ ~revoked[g]
  /\ w # NoConn /\ role[w] # role[c]
  /\ peer' = [peer EXCEPT ![c] = w]
  /\ start' = [start EXCEPT ![c] = relayed[g]]
  /\ overlapped' = [overlapped EXCEPT ![g] = @ \/ Unaccounted(g) # {}]
  /\ stage' = [stage EXCEPT ![c] = "pairing", ![w] = "taken"]
  /\ UNCHANGED <<setting, link, budget, moved, grantStates, revoker,
                 active, leaves, carried, shadowed>>

\* A connection of the other role is waiting: take it.
Pair(c) ==
  LET g == grant[c]  w == waiter[g] IN
  /\ stage[c] = "frame" /\ ~revoked[g]
  /\ w # NoConn /\ role[w] # role[c]
  /\ waiter' = [waiter EXCEPT ![g] = NoConn]
  /\ peer' = [peer EXCEPT ![c] = w]
  /\ start' = [start EXCEPT ![c] = relayed[g]]
  /\ overlapped' = [overlapped EXCEPT ![g] = @ \/ Unaccounted(g) # {}]
  /\ stage' = [stage EXCEPT ![c] = "pairing", ![w] = "taken"]
  /\ UNCHANGED <<setting, link, budget, moved, seen, expired, relayed,
                 revoked, piping, revoker, active, leaves, carried,
                 shadowed>>

\* Nobody to pair with: become the waiting side, in place of whoever waited.
Wait(c) ==
  LET g == grant[c] IN
  /\ stage[c] = "frame" /\ ~revoked[g]
  /\ waiter[g] # NoConn => role[waiter[g]] = role[c]
  /\ waiter' = [waiter EXCEPT ![g] = c]
  /\ Seen(g) /\ Goto(c, "waiting")
  /\ UNCHANGED <<setting, link, sessions, expired, relayed, revoked,
                 piping, revoker, active, history>>

\* The pairing timeout: only a connection still waiting is answered.
PairingTimeout(c) ==
  LET g == grant[c] IN
  /\ stage[c] = "waiting" /\ Goto(c, "over")
  /\ IF waiter[g] = c
     THEN waiter' = [waiter EXCEPT ![g] = NoConn] /\ Close({c})
     ELSE UNCHANGED <<waiter, link>>
  /\ UNCHANGED <<setting, sessions, seen, expired, relayed, revoked,
                 piping, revoker, active, history>>

-----------------------------------------------------------------------------
(* pairAndRelay and pipe, run by the owner c.                              *)

TooMany(c) ==
  /\ stage[c] = "pairing" /\ active >= maxConcurrent
  /\ EndBoth(c)
  /\ UNCHANGED <<setting, grantStates, revoker, active, history>>

Admit(c) ==
  /\ stage[c] = "pairing" /\ active < maxConcurrent
  /\ active' = active + 1 /\ Goto(c, "admitted")
  /\ UNCHANGED <<setting, link, sessions, grantStates, revoker, history>>

Release == active' = IF active > 0 THEN active - 1 ELSE 0

\* Mistake: the slot is not given back.
AckFailsUnreleased(c) ==
  /\ stage[c] = "admitted" /\ \E d \in Both(c) : link[d] # "up"
  /\ EndBoth(c)
  /\ UNCHANGED <<setting, grantStates, revoker, active, history>>

\* An Ack may fail to reach a client that has left, or go unnoticed.
AckFails(c) ==
  /\ stage[c] = "admitted" /\ \E d \in Both(c) : link[d] # "up"
  /\ EndBoth(c) /\ Release
  /\ UNCHANGED <<setting, grantStates, revoker, history>>

AckBoth(c) ==
  /\ stage[c] = "admitted" /\ Goto(c, "piping")
  /\ UNCHANGED <<setting, link, sessions, grantStates, revoker, active,
                 history>>

PipeRevoked(c) ==
  /\ stage[c] = "piping" /\ revoked[grant[c]]
  /\ Goto(c, "closing")
  /\ UNCHANGED <<setting, link, sessions, grantStates, revoker, active,
                 history>>

\* activeSrc and activeSink of g are written though they are those of another
\* session, which still copies: a Revoke will not find it.
Shadow(g, others) ==
  shadowed' = [shadowed EXCEPT ![g] = @ \/ piping[g] \in others]
Copying(g) == {c \in Conns : grant[c] = g /\ stage[c] = "copying"}

\* Mistakes: the budget is the session's own; a revocation is not looked for.
OpenPipeFresh(c) ==
  LET g == grant[c] IN
  /\ stage[c] = "piping" /\ ~revoked[g] /\ ~expired[g]
  /\ piping' = [piping EXCEPT ![g] = c] /\ Shadow(g, Copying(g))
  /\ budget' = [budget EXCEPT ![c] = MaxBytes] /\ Goto(c, "copying")
  /\ UNCHANGED <<setting, link, peer, start, moved, seen, expired, relayed,
                 revoked, waiter, revoker, active, leaves, carried, overlapped>>
OpenPipeUnchecked(c) ==
  LET g == grant[c] IN
  /\ stage[c] = "piping" /\ relayed[g] < MaxBytes /\ ~expired[g]
  /\ piping' = [piping EXCEPT ![g] = c] /\ Shadow(g, Copying(g))
  /\ budget' = [budget EXCEPT ![c] = MaxBytes - relayed[g]]
  /\ Goto(c, "copying")
  /\ UNCHANGED <<setting, link, peer, start, moved, seen, expired, relayed,
                 revoked, waiter, revoker, active, leaves, carried, overlapped>>

\* What is left of the grant's budget is read here, once for the session.
OpenPipe(c) ==
  LET g == grant[c] IN
  /\ stage[c] = "piping" /\ ~revoked[g]
  /\ piping' = [piping EXCEPT ![g] = c] /\ Shadow(g, Copying(g))
  /\ \/ /\ relayed[g] < MaxBytes /\ ~expired[g]
        /\ budget' = [budget EXCEPT ![c] = MaxBytes - relayed[g]]
        /\ Goto(c, "copying")
     \/ /\ relayed[g] >= MaxBytes \/ expired[g]
        /\ Goto(c, "clearing") /\ UNCHANGED budget
  /\ UNCHANGED <<setting, link, peer, start, moved, seen, expired, relayed,
                 revoked, waiter, revoker, active, leaves, carried, overlapped>>

\* io.Copy writes to the sink what it read from the source.
Copy(c) ==
  LET g == grant[c] IN
  /\ stage[c] = "copying" /\ moved[c] < budget[c] /\ ~expired[g]
  /\ \A d \in Both(c) : link[d] # "closed"
  /\ moved' = [moved EXCEPT ![c] = @ + 1]
  /\ carried' = [carried EXCEPT ![g] = @ + 1]
  /\ UNCHANGED <<setting, link, stage, peer, start, budget, grantStates,
                 revoker, active, leaves, overlapped, shadowed>>

\* The budget is used up, the deadline has passed, or an end is gone.
CopyEnds(c) ==
  /\ stage[c] = "copying"
  /\ \/ moved[c] = budget[c]
     \/ expired[grant[c]]
     \/ \E d \in Both(c) : link[d] # "up"
  /\ Goto(c, "copied")
  /\ UNCHANGED <<setting, link, sessions, grantStates, revoker, active,
                 history>>

\* Mistake: a session that was cut short is not counted.
AccountComplete(c) ==
  LET g == grant[c] IN
  /\ stage[c] = "copied" /\ Goto(c, "clearing")
  /\ relayed' = [relayed EXCEPT ![g] =
                   IF moved[c] = budget[c] THEN @ + moved[c] ELSE @]
  /\ UNCHANGED <<setting, link, sessions, seen, expired, revoked, waiter,
                 piping, revoker, active, history>>

Account(c) ==
  LET g == grant[c] IN
  /\ stage[c] = "copied" /\ Goto(c, "clearing")
  /\ relayed' = [relayed EXCEPT ![g] = @ + moved[c]]
  /\ UNCHANGED <<setting, link, sessions, seen, expired, revoked, waiter,
                 piping, revoker, active, history>>

\* The deferred calls: the grant forgets the session, whichever it names...
ClearActive(c) ==
  /\ stage[c] = "clearing" /\ Goto(c, "closing")
  /\ piping' = [piping EXCEPT ![grant[c]] = NoConn]
  /\ Shadow(grant[c], Copying(grant[c]))
  /\ UNCHANGED <<setting, link, sessions, seen, expired, relayed, revoked,
                 waiter, revoker, active, leaves, carried, overlapped>>

\* ... and both connections and the slot are given back.
EndPipe(c) ==
  /\ stage[c] = "closing"
  /\ EndBoth(c) /\ Release
  /\ UNCHANGED <<setting, grantStates, revoker, history>>

-----------------------------------------------------------------------------
(* Revoke, and time.                                                       *)

Revoke(g) ==
  LET p == piping[g] IN
  /\ revoker[g].call = "idle"
  /\ Seen(g)
  /\ revoked' = [revoked EXCEPT ![g] = TRUE]
  /\ waiter' = [waiter EXCEPT ![g] = NoConn]
  /\ stage' = [c \in Conns |-> IF c = waiter[g] THEN "taken" ELSE stage[c]]
  /\ revoker' = [revoker EXCEPT ![g] =
       [call |-> "closing",
        took |-> ({waiter[g]} \cup IF p = NoConn THEN {} ELSE Both(p))
                   \ {NoConn}]]
  /\ UNCHANGED <<setting, link, sessions, expired, relayed, piping, active,
                 history>>

\* Outside of the lock: the waiting connection is answered, the session's
\* connections are closed.
RevokeCloses(g) ==
  /\ revoker[g].call = "closing"
  /\ Close(revoker[g].took)
  /\ stage' = [c \in Conns |-> IF c \in revoker[g].took /\ stage[c] = "taken"
                                  /\ \A d \in Conns : peer[d] # c
                               THEN "over" ELSE stage[c]]
  /\ revoker' = [revoker EXCEPT ![g] = [call |-> "done", took |-> {}]]
  /\ UNCHANGED <<setting, sessions, grantStates, active, history>>

Expire(g) ==
  /\ seen[g] /\ ~expired[g]
  /\ expired' = [expired EXCEPT ![g] = TRUE]
  /\ UNCHANGED <<setting, link, stage, sessions, seen, relayed, revoked,
                 waiter, piping, revoker, active, history>>

-----------------------------------------------------------------------------
Handle(c) ==
  \/ RefuseFrame(c) \/ RefuseRevoked(c) \/ Pair(c) \/ Wait(c)
  \/ PairingTimeout(c)
  \/ TooMany(c) \/ Admit(c) \/ AckFails(c) \/ AckBoth(c)
  \/ PipeRevoked(c) \/ OpenPipe(c) \/ Copy(c) \/ CopyEnds(c)
  \/ Account(c) \/ ClearActive(c) \/ EndPipe(c)

Next ==
  \/ \E c \in Conns : Leave(c) \/ Handle(c)
  \/ \E g \in Grants : Revoke(g) \/ RevokeCloses(g) \/ Expire(g)

Spec == Init /\ [][Next]_vars

-----------------------------------------------------------------------------
(* Properties.                                                             *)

\* A session joins a source and a sink of one grant, and no connection is in
\* two sessions or in a session and waiting: "it owns both connections from
\* here on".
Owners == {c \in Conns : stage[c] \in Slots \cup {"pairing"}}
SessionsAreApart ==
  \A c \in Owners :
    LET p == peer[c] IN
    /\ p # NoConn /\ stage[p] = "taken"
    /\ grant[p] = grant[c] /\ role[p] # role[c]
    /\ \A d \in Owners \ {c} : peer[d] # p
    /\ \A g \in Grants : waiter[g] \notin {c, p}

\* The count admit and release keep is the number of sessions that hold a
\* slot: no path out of pairAndRelay or pipe loses one or returns two.
SlotsAreCounted == active = Cardinality({c \in Conns : stage[c] \in Slots})

\* "MaxBytesPerGrant caps total bytes relayed for one grant across every
\* reconnect", as long as one session is accounted before the next is paired.
BudgetHolds ==
  \A g \in Grants : ~overlapped[g] => carried[g] <= MaxBytes

\* "Both sides realign to this value": the offset a session was told is what
\* the grant's earlier sessions have carried, however they ended.
OffsetIsExact ==
  \A c \in Conns :
    stage[c] \in {"piping", "copying", "copied"} /\ ~overlapped[grant[c]]
      => start[c] + moved[c] = carried[grant[c]]

\* Once a call of Revoke has returned, no byte of the grant moves, whatever
\* was waiting, pairing or copying when it came, as long as no session of the
\* grant has written over what another keeps in activeSrc and activeSink.
RevokedMovesNothing ==
  [][\A g \in Grants :
       revoker[g].call = "done" /\ ~shadowed[g]
         => carried'[g] = carried[g]]_vars

\* What a comment says, and the code does not do.

\* relay.go: "Revoke ends a grant immediately: an already-active relayed
\* session is torn down mid-flight".
RevokeEndsGrant ==
  [][\A g \in Grants :
       revoker[g].call = "done" => carried'[g] = carried[g]]_vars

=============================================================================
