---------------------------- MODULE Relay_proofs ----------------------------
(***************************************************************************)
(* Theorems about Relay, for any connections, grants, budget and limits of *)
(* sessions.  Sessions stay apart because a connection is on offer only    *)
(* while its handler waits; slots are counted because every path out of a  *)
(* session is taken once; budget, offset and revocation follow from what   *)
(* ties a grant's record to the sessions that are still to be accounted.   *)
(***************************************************************************)
EXTENDS Relay, FiniteSetTheorems, TLAPS

Stages == {"frame", "waiting", "taken", "pairing", "admitted", "piping",
           "copying", "copied", "clearing", "closing", "over"}
Links == {"up", "dropped", "closed"}
Calls == [call : {"idle", "closing", "done"}, took : SUBSET Conns]

TypeOK ==
  /\ maxConcurrent \in Limits
  /\ grant \in [Conns -> Grants] /\ role \in [Conns -> Roles]
  /\ link \in [Conns -> Links] /\ stage \in [Conns -> Stages]
  /\ peer \in [Conns -> Conns \cup {NoConn}]
  /\ start \in [Conns -> Nat] /\ budget \in [Conns -> Nat]
  /\ moved \in [Conns -> Nat]
  /\ seen \in [Grants -> BOOLEAN] /\ expired \in [Grants -> BOOLEAN]
  /\ relayed \in [Grants -> Nat] /\ revoked \in [Grants -> BOOLEAN]
  /\ waiter \in [Grants -> Conns \cup {NoConn}]
  /\ piping \in [Grants -> Conns \cup {NoConn}]
  /\ revoker \in [Grants -> Calls]
  /\ active \in Nat /\ leaves \in Nat
  /\ carried \in [Grants -> Nat] /\ overlapped \in [Grants -> BOOLEAN]
  /\ shadowed \in [Grants -> BOOLEAN]

\* A connection is on offer only while its own handler waits for a match.
WaiterWaits ==
  \A g \in Grants : waiter[g] # NoConn =>
    stage[waiter[g]] = "waiting" /\ grant[waiter[g]] = g

\* The sessions that hold a slot, and the count that is kept of them.
Holders == {c \in Conns : stage[c] \in Slots}
CountIsKept == IsFiniteSet(Holders) /\ SlotsAreCounted

\* The bytes a session has moved, before it has moved any.
NothingMovedYet ==
  \A c \in Conns :
    stage[c] \in {"frame", "waiting", "taken", "pairing", "admitted", "piping"}
      => moved[c] = 0

\* Without overlap one session of a grant at most is still to be accounted.
OneAtATime ==
  \A g \in Grants : ~overlapped[g] =>
    \A c, d \in Unaccounted(g) : c = d

\* What a grant has carried is what it records and what its session to be
\* accounted has moved, and that session was told what is recorded.
RecordFits ==
  \A g \in Grants : ~overlapped[g] =>
    /\ Unaccounted(g) = {} => carried[g] = relayed[g]
    /\ \A c \in Unaccounted(g) :
         start[c] = relayed[g] /\ carried[g] = relayed[g] + moved[c]
    /\ carried[g] <= MaxBytes

\* A session copies within what the grant had left.
BudgetFits ==
  \A c \in Conns :
    stage[c] \in {"copying", "copied"} =>
      /\ moved[c] <= budget[c]
      /\ ~overlapped[grant[c]] => relayed[grant[c]] + budget[c] <= MaxBytes

\* The grant's record names the session that copies.
RecordNames ==
  \A c \in Conns :
    stage[c] = "copying" /\ ~shadowed[grant[c]] => piping[grant[c]] = c

\* A call of Revoke takes the session that copies, and leaves it closed.
RevokedIsTaken ==
  \A g \in Grants :
    /\ revoker[g].call # "idle" => revoked[g]
    /\ \A c \in Conns :
         grant[c] = g /\ stage[c] = "copying" /\ ~shadowed[g] =>
           /\ revoker[g].call = "closing" => c \in revoker[g].took
           /\ revoker[g].call = "done" => link[c] = "closed"

IInv ==
  /\ TypeOK /\ WaiterWaits /\ SessionsAreApart /\ CountIsKept
  /\ NothingMovedYet /\ OneAtATime /\ RecordFits /\ BudgetFits
  /\ RecordNames /\ RevokedIsTaken

-----------------------------------------------------------------------------
\* The SMT encoding does not know the members of BOOLEAN by itself.
LEMMA Booleans == TRUE \in BOOLEAN /\ FALSE \in BOOLEAN
  OBVIOUS

LEMMA InitTyped == Init => TypeOK
  <1> USE LimitsArePositive, BoundIsNat, NoConnIsApart, Booleans
  <1>1. Idle \in Calls
    BY DEF Idle, Calls
  <1> QED
    BY <1>1 DEF Init, TypeOK, Roles, Links, Stages

\* The end of a session leaves every connection and count what it is.
LEMMA EndTyped ==
  ASSUME TypeOK, NEW c \in Conns, EndBoth(c)
  PROVE  /\ link' \in [Conns -> Links] /\ stage' \in [Conns -> Stages]
         /\ peer' \in [Conns -> Conns \cup {NoConn}]
         /\ start' \in [Conns -> Nat] /\ budget' \in [Conns -> Nat]
         /\ moved' \in [Conns -> Nat]
  BY DEF TypeOK, EndBoth, Close, Links, Stages

LEMMA StepTyped == TypeOK /\ [Next]_vars => TypeOK'
  <1> SUFFICES ASSUME TypeOK, [Next]_vars PROVE TypeOK'
    OBVIOUS
  <1> USE LimitsArePositive, BoundIsNat, NoConnIsApart, Booleans
          DEF TypeOK, setting, sessions, grantStates, history
  <1>1. ASSUME NEW c \in Conns, Leave(c) PROVE TypeOK'
    BY <1>1 DEF Leave, Links
  <1>2. ASSUME NEW c \in Conns, RefuseFrame(c) PROVE TypeOK'
    BY <1>2 DEF RefuseFrame, Links, Stages, Close, Goto
  <1>3. ASSUME NEW c \in Conns, RefuseRevoked(c) PROVE TypeOK'
    BY <1>3 DEF RefuseRevoked, Links, Stages, Close, Goto
  <1>4. ASSUME NEW c \in Conns, Pair(c) PROVE TypeOK'
    BY <1>4 DEF Pair, Stages
  <1>5. ASSUME NEW c \in Conns, Wait(c) PROVE TypeOK'
    BY <1>5 DEF Wait, Stages, Seen, Goto
  <1>6. ASSUME NEW c \in Conns, PairingTimeout(c) PROVE TypeOK'
    BY <1>6 DEF PairingTimeout, Stages, Links, Goto, Close
  <1>7. ASSUME NEW c \in Conns, TooMany(c) PROVE TypeOK'
    BY <1>7, EndTyped DEF TooMany
  <1>8. ASSUME NEW c \in Conns, Admit(c) PROVE TypeOK'
    BY <1>8 DEF Admit, Stages, Goto
  <1>9. ASSUME NEW c \in Conns, AckFails(c) PROVE TypeOK'
    BY <1>9, EndTyped DEF AckFails, Release
  <1>10. ASSUME NEW c \in Conns, AckBoth(c) PROVE TypeOK'
    BY <1>10 DEF AckBoth, Stages, Goto
  <1>11. ASSUME NEW c \in Conns, PipeRevoked(c) PROVE TypeOK'
    BY <1>11 DEF PipeRevoked, Stages, Goto
  <1>12. ASSUME NEW c \in Conns, OpenPipe(c) PROVE TypeOK'
    BY <1>12, SMTT(20) DEF OpenPipe, Stages, Goto, Shadow
  <1>13. ASSUME NEW c \in Conns, Copy(c) PROVE TypeOK'
    BY <1>13 DEF Copy
  <1>14. ASSUME NEW c \in Conns, CopyEnds(c) PROVE TypeOK'
    BY <1>14 DEF CopyEnds, Stages, Goto
  <1>15. ASSUME NEW c \in Conns, Account(c) PROVE TypeOK'
    BY <1>15 DEF Account, Stages, Goto
  <1>16. ASSUME NEW c \in Conns, ClearActive(c) PROVE TypeOK'
    BY <1>16 DEF ClearActive, Stages, Goto, Shadow
  <1>17. ASSUME NEW c \in Conns, EndPipe(c) PROVE TypeOK'
    BY <1>17, EndTyped DEF EndPipe, Release
  <1>18. ASSUME NEW g \in Grants, Revoke(g) PROVE TypeOK'
    BY <1>18 DEF Revoke, Seen, Stages, Calls, Both
  <1>19. ASSUME NEW g \in Grants, RevokeCloses(g) PROVE TypeOK'
    BY <1>19 DEF RevokeCloses, Close, Links, Stages, Calls
  <1>20. ASSUME NEW g \in Grants, Expire(g) PROVE TypeOK'
    BY <1>20 DEF Expire
  <1>21. CASE UNCHANGED vars
    BY <1>21 DEF vars
  <1> QED
    BY <1>1, <1>2, <1>3, <1>4, <1>5, <1>6, <1>7, <1>8, <1>9, <1>10, <1>11, <1>12, <1>13, <1>14, <1>15, <1>16, <1>17, <1>18, <1>19, <1>20, <1>21 DEF Next, Handle

-----------------------------------------------------------------------------
\* How the sessions to be accounted change: a pairing adds its own, a session
\* that ends before it copies goes, and Revoke ends nobody's session.
LEMMA PairAdds ==
  ASSUME TypeOK, WaiterWaits, NEW c \in Conns, Pair(c), NEW g \in Grants
  PROVE  Unaccounted(g)' = IF g = grant[c] THEN Unaccounted(g) \cup {c}
                           ELSE Unaccounted(g)
  <1>1. /\ waiter[grant[c]] \in Conns /\ stage[waiter[grant[c]]] = "waiting"
        /\ stage[c] = "frame" /\ UNCHANGED grant
        /\ stage' = [stage EXCEPT ![c] = "pairing", ![waiter[grant[c]]] = "taken"]
    BY DEF TypeOK, WaiterWaits, Pair, setting
  <1> QED
    BY <1>1 DEF TypeOK, Unaccounted

LEMMA PairOverlaps ==
  ASSUME TypeOK, NEW c \in Conns, Pair(c), NEW g \in Grants, ~overlapped'[g]
  PROVE  ~overlapped[g] /\ (g = grant[c] => Unaccounted(g) = {})
  <1>1. overlapped' = [overlapped EXCEPT ![grant[c]] =
                         overlapped[grant[c]] \/ Unaccounted(grant[c]) # {}]
    BY DEF Pair
  <1>2. overlapped \in [Grants -> BOOLEAN] /\ grant[c] \in Grants
    BY DEF TypeOK
  <1>3. CASE g = grant[c]
    <2>1. overlapped'[g] = (overlapped[g] \/ Unaccounted(g) # {})
      BY <1>1, <1>2, <1>3, Zenon
    <2> QED
      BY <2>1, <1>3
  <1>4. CASE g # grant[c]
    <2>1. overlapped'[g] = overlapped[g]
      BY <1>1, <1>2, <1>4, Zenon
    <2> QED
      BY <2>1, <1>4
  <1> QED
    BY <1>3, <1>4

\* Who writes over the record of a session that copies leaves a mark.
LEMMA ShadowMarks ==
  ASSUME TypeOK, NEW h \in Grants, Shadow(h, Copying(h)),
         NEW g \in Grants, ~shadowed'[g]
  PROVE  ~shadowed[g] /\ (g = h => piping[g] \notin Copying(g))
  <1>1. shadowed \in [Grants -> BOOLEAN]
    BY DEF TypeOK
  <1>2. CASE g = h
    <2>1. shadowed'[g] = (shadowed[g] \/ piping[g] \in Copying(g))
      BY <1>1, <1>2, Zenon DEF Shadow
    <2> QED
      BY <2>1, <1>2
  <1>3. CASE g # h
    <2>1. shadowed'[g] = shadowed[g]
      BY <1>1, <1>3, Zenon DEF Shadow
    <2> QED
      BY <2>1, <1>3
  <1> QED
    BY <1>2, <1>3

LEMMA EndDrops ==
  ASSUME TypeOK, SessionsAreApart, NEW c \in Owners, EndBoth(c), UNCHANGED grant,
         NEW g \in Grants
  PROVE  Unaccounted(g)' = Unaccounted(g) \ {c}
  <1>1. peer[c] \in Conns /\ stage[peer[c]] = "taken" /\ c \in Conns
    BY DEF SessionsAreApart, TypeOK, Owners
  <1> QED
    BY <1>1 DEF TypeOK, EndBoth, Both, Unaccounted

LEMMA RevokeDropsNone ==
  ASSUME TypeOK, WaiterWaits, NEW h \in Grants, Revoke(h) \/ RevokeCloses(h),
         NEW g \in Grants
  PROVE  Unaccounted(g)' = Unaccounted(g)
  <1>1. CASE Revoke(h)
    BY <1>1, NoConnIsApart DEF Revoke, WaiterWaits, TypeOK, Unaccounted, setting
  <1>2. CASE RevokeCloses(h)
    BY <1>2 DEF RevokeCloses, TypeOK, Unaccounted, setting
  <1> QED
    BY <1>1, <1>2

\* Whoever is taken from an offer, or gives it up, is no longer on offer.
LEMMA WaiterStep ==
  ASSUME TypeOK, WaiterWaits, SessionsAreApart, [Next]_vars
  PROVE  WaiterWaits'
  <1> USE NoConnIsApart
          DEF TypeOK, setting, sessions, grantStates, history, WaiterWaits, SessionsAreApart, Owners, Slots
  <1>1. ASSUME NEW c \in Conns, Leave(c) PROVE WaiterWaits'
    BY <1>1 DEF Leave
  <1>2. ASSUME NEW c \in Conns, RefuseFrame(c) PROVE WaiterWaits'
    BY <1>2 DEF RefuseFrame, Close, Goto
  <1>3. ASSUME NEW c \in Conns, RefuseRevoked(c) PROVE WaiterWaits'
    BY <1>3 DEF RefuseRevoked, Close, Goto
  <1>4. ASSUME NEW c \in Conns, Pair(c) PROVE WaiterWaits'
    BY <1>4 DEF Pair
  <1>5. ASSUME NEW c \in Conns, Wait(c) PROVE WaiterWaits'
    BY <1>5 DEF Wait, Seen, Goto
  <1>6. ASSUME NEW c \in Conns, PairingTimeout(c) PROVE WaiterWaits'
    BY <1>6 DEF PairingTimeout, Goto, Close
  <1>7. ASSUME NEW c \in Conns, TooMany(c) PROVE WaiterWaits'
    BY <1>7 DEF TooMany, EndBoth, Close, Both
  <1>8. ASSUME NEW c \in Conns, Admit(c) PROVE WaiterWaits'
    BY <1>8 DEF Admit, Goto
  <1>9. ASSUME NEW c \in Conns, AckFails(c) PROVE WaiterWaits'
    BY <1>9 DEF AckFails, EndBoth, Close, Both, Release
  <1>10. ASSUME NEW c \in Conns, AckBoth(c) PROVE WaiterWaits'
    BY <1>10 DEF AckBoth, Goto
  <1>11. ASSUME NEW c \in Conns, PipeRevoked(c) PROVE WaiterWaits'
    BY <1>11 DEF PipeRevoked, Goto
  <1>12. ASSUME NEW c \in Conns, OpenPipe(c) PROVE WaiterWaits'
    BY <1>12 DEF OpenPipe, Goto, Shadow, Copying
  <1>13. ASSUME NEW c \in Conns, Copy(c) PROVE WaiterWaits'
    BY <1>13 DEF Copy, Both
  <1>14. ASSUME NEW c \in Conns, CopyEnds(c) PROVE WaiterWaits'
    BY <1>14 DEF CopyEnds, Goto, Both
  <1>15. ASSUME NEW c \in Conns, Account(c) PROVE WaiterWaits'
    BY <1>15 DEF Account, Goto
  <1>16. ASSUME NEW c \in Conns, ClearActive(c) PROVE WaiterWaits'
    BY <1>16 DEF ClearActive, Goto, Shadow, Copying
  <1>17. ASSUME NEW c \in Conns, EndPipe(c) PROVE WaiterWaits'
    BY <1>17 DEF EndPipe, EndBoth, Close, Both, Release
  <1>18. ASSUME NEW g \in Grants, Revoke(g) PROVE WaiterWaits'
    BY <1>18 DEF Revoke, Seen, Both
  <1>19. ASSUME NEW g \in Grants, RevokeCloses(g) PROVE WaiterWaits'
    BY <1>19 DEF RevokeCloses, Close
  <1>20. ASSUME NEW g \in Grants, Expire(g) PROVE WaiterWaits'
    BY <1>20 DEF Expire
  <1>21. CASE UNCHANGED vars
    BY <1>21 DEF vars
  <1> QED
    BY <1>1, <1>2, <1>3, <1>4, <1>5, <1>6, <1>7, <1>8, <1>9, <1>10, <1>11,
       <1>12, <1>13, <1>14, <1>15, <1>16, <1>17, <1>18, <1>19, <1>20, <1>21
    DEF Next, Handle

\* A match takes a connection that is in no session, and nothing else
\* makes a session.
LEMMA ApartStep ==
  ASSUME TypeOK, WaiterWaits, SessionsAreApart, [Next]_vars
  PROVE  SessionsAreApart'
  <1> USE NoConnIsApart
          DEF TypeOK, setting, sessions, grantStates, history, WaiterWaits, SessionsAreApart, Owners, Slots
  <1>1. ASSUME NEW c \in Conns, Leave(c) PROVE SessionsAreApart'
    BY <1>1 DEF Leave
  <1>2. ASSUME NEW c \in Conns, RefuseFrame(c) PROVE SessionsAreApart'
    BY <1>2 DEF RefuseFrame, Close, Goto
  <1>3. ASSUME NEW c \in Conns, RefuseRevoked(c) PROVE SessionsAreApart'
    BY <1>3 DEF RefuseRevoked, Close, Goto
  <1>4. ASSUME NEW c \in Conns, Pair(c) PROVE SessionsAreApart'
    BY <1>4 DEF Pair
  <1>5. ASSUME NEW c \in Conns, Wait(c) PROVE SessionsAreApart'
    BY <1>5 DEF Wait, Seen, Goto
  <1>6. ASSUME NEW c \in Conns, PairingTimeout(c) PROVE SessionsAreApart'
    BY <1>6 DEF PairingTimeout, Goto, Close
  <1>7. ASSUME NEW c \in Conns, TooMany(c) PROVE SessionsAreApart'
    BY <1>7 DEF TooMany, EndBoth, Close, Both
  <1>8. ASSUME NEW c \in Conns, Admit(c) PROVE SessionsAreApart'
    BY <1>8 DEF Admit, Goto
  <1>9. ASSUME NEW c \in Conns, AckFails(c) PROVE SessionsAreApart'
    BY <1>9 DEF AckFails, EndBoth, Close, Both, Release
  <1>10. ASSUME NEW c \in Conns, AckBoth(c) PROVE SessionsAreApart'
    BY <1>10 DEF AckBoth, Goto
  <1>11. ASSUME NEW c \in Conns, PipeRevoked(c) PROVE SessionsAreApart'
    BY <1>11 DEF PipeRevoked, Goto
  <1>12. ASSUME NEW c \in Conns, OpenPipe(c) PROVE SessionsAreApart'
    BY <1>12 DEF OpenPipe, Goto, Shadow, Copying
  <1>13. ASSUME NEW c \in Conns, Copy(c) PROVE SessionsAreApart'
    BY <1>13 DEF Copy, Both
  <1>14. ASSUME NEW c \in Conns, CopyEnds(c) PROVE SessionsAreApart'
    BY <1>14 DEF CopyEnds, Goto, Both
  <1>15. ASSUME NEW c \in Conns, Account(c) PROVE SessionsAreApart'
    BY <1>15 DEF Account, Goto
  <1>16. ASSUME NEW c \in Conns, ClearActive(c) PROVE SessionsAreApart'
    BY <1>16 DEF ClearActive, Goto, Shadow, Copying
  <1>17. ASSUME NEW c \in Conns, EndPipe(c) PROVE SessionsAreApart'
    BY <1>17 DEF EndPipe, EndBoth, Close, Both, Release
  <1>18. ASSUME NEW g \in Grants, Revoke(g) PROVE SessionsAreApart'
    BY <1>18 DEF Revoke, Seen, Both
  <1>19. ASSUME NEW g \in Grants, RevokeCloses(g) PROVE SessionsAreApart'
    BY <1>19 DEF RevokeCloses, Close
  <1>20. ASSUME NEW g \in Grants, Expire(g) PROVE SessionsAreApart'
    BY <1>20 DEF Expire
  <1>21. CASE UNCHANGED vars
    BY <1>21 DEF vars
  <1> QED
    BY <1>1, <1>2, <1>3, <1>4, <1>5, <1>6, <1>7, <1>8, <1>9, <1>10, <1>11,
       <1>12, <1>13, <1>14, <1>15, <1>16, <1>17, <1>18, <1>19, <1>20, <1>21
    DEF Next, Handle

\* Only a session that copies has moved anything.
LEMMA MovedStep ==
  ASSUME TypeOK, WaiterWaits, SessionsAreApart, NothingMovedYet, [Next]_vars
  PROVE  NothingMovedYet'
  <1> USE NoConnIsApart
          DEF TypeOK, setting, sessions, grantStates, history, NothingMovedYet, WaiterWaits,
              SessionsAreApart, Owners, Slots
  <1>1. ASSUME NEW c \in Conns, Leave(c) PROVE NothingMovedYet'
    BY <1>1 DEF Leave
  <1>2. ASSUME NEW c \in Conns, RefuseFrame(c) PROVE NothingMovedYet'
    BY <1>2 DEF RefuseFrame, Close, Goto
  <1>3. ASSUME NEW c \in Conns, RefuseRevoked(c) PROVE NothingMovedYet'
    BY <1>3 DEF RefuseRevoked, Close, Goto
  <1>4. ASSUME NEW c \in Conns, Pair(c) PROVE NothingMovedYet'
    BY <1>4 DEF Pair
  <1>5. ASSUME NEW c \in Conns, Wait(c) PROVE NothingMovedYet'
    BY <1>5 DEF Wait, Seen, Goto
  <1>6. ASSUME NEW c \in Conns, PairingTimeout(c) PROVE NothingMovedYet'
    BY <1>6 DEF PairingTimeout, Goto, Close
  <1>7. ASSUME NEW c \in Conns, TooMany(c) PROVE NothingMovedYet'
    BY <1>7 DEF TooMany, EndBoth, Close, Both
  <1>8. ASSUME NEW c \in Conns, Admit(c) PROVE NothingMovedYet'
    BY <1>8 DEF Admit, Goto
  <1>9. ASSUME NEW c \in Conns, AckFails(c) PROVE NothingMovedYet'
    BY <1>9 DEF AckFails, EndBoth, Close, Both, Release
  <1>10. ASSUME NEW c \in Conns, AckBoth(c) PROVE NothingMovedYet'
    BY <1>10 DEF AckBoth, Goto
  <1>11. ASSUME NEW c \in Conns, PipeRevoked(c) PROVE NothingMovedYet'
    BY <1>11 DEF PipeRevoked, Goto
  <1>12. ASSUME NEW c \in Conns, OpenPipe(c) PROVE NothingMovedYet'
    BY <1>12 DEF OpenPipe, Goto, Shadow, Copying
  <1>13. ASSUME NEW c \in Conns, Copy(c) PROVE NothingMovedYet'
    BY <1>13 DEF Copy, Both
  <1>14. ASSUME NEW c \in Conns, CopyEnds(c) PROVE NothingMovedYet'
    BY <1>14 DEF CopyEnds, Goto, Both
  <1>15. ASSUME NEW c \in Conns, Account(c) PROVE NothingMovedYet'
    BY <1>15 DEF Account, Goto
  <1>16. ASSUME NEW c \in Conns, ClearActive(c) PROVE NothingMovedYet'
    BY <1>16 DEF ClearActive, Goto, Shadow, Copying
  <1>17. ASSUME NEW c \in Conns, EndPipe(c) PROVE NothingMovedYet'
    BY <1>17 DEF EndPipe, EndBoth, Close, Both, Release
  <1>18. ASSUME NEW g \in Grants, Revoke(g) PROVE NothingMovedYet'
    BY <1>18 DEF Revoke, Seen, Both
  <1>19. ASSUME NEW g \in Grants, RevokeCloses(g) PROVE NothingMovedYet'
    BY <1>19 DEF RevokeCloses, Close
  <1>20. ASSUME NEW g \in Grants, Expire(g) PROVE NothingMovedYet'
    BY <1>20 DEF Expire
  <1>21. CASE UNCHANGED vars
    BY <1>21 DEF vars
  <1> QED
    BY <1>1, <1>2, <1>3, <1>4, <1>5, <1>6, <1>7, <1>8, <1>9, <1>10, <1>11,
       <1>12, <1>13, <1>14, <1>15, <1>16, <1>17, <1>18, <1>19, <1>20, <1>21
    DEF Next, Handle

\* A pairing beside a session that is not accounted counts as an overlap.
LEMMA OneStep ==
  ASSUME TypeOK, WaiterWaits, OneAtATime, [Next]_vars
  PROVE  OneAtATime'
  <1> USE NoConnIsApart
          DEF TypeOK, setting, sessions, grantStates, history, OneAtATime, Unaccounted, WaiterWaits
  <1>1. ASSUME NEW c \in Conns, Leave(c) PROVE OneAtATime'
    BY <1>1 DEF Leave
  <1>2. ASSUME NEW c \in Conns, RefuseFrame(c) PROVE OneAtATime'
    BY <1>2 DEF RefuseFrame, Close, Goto
  <1>3. ASSUME NEW c \in Conns, RefuseRevoked(c) PROVE OneAtATime'
    BY <1>3 DEF RefuseRevoked, Close, Goto
  <1>4. ASSUME NEW c \in Conns, Pair(c) PROVE OneAtATime'
    <2> HIDE DEF Unaccounted
    <2>1. \A g \in Grants : ~overlapped'[g] =>
            /\ ~overlapped[g]
            /\ g = grant[c] => Unaccounted(g) = {}
      BY <1>4, PairOverlaps
    <2>2. \A g \in Grants :
            Unaccounted(g)' = IF g = grant[c] THEN Unaccounted(g) \cup {c}
                              ELSE Unaccounted(g)
      BY <1>4, PairAdds
    <2> QED
      BY <2>1, <2>2
  <1>5. ASSUME NEW c \in Conns, Wait(c) PROVE OneAtATime'
    BY <1>5 DEF Wait, Seen, Goto
  <1>6. ASSUME NEW c \in Conns, PairingTimeout(c) PROVE OneAtATime'
    BY <1>6 DEF PairingTimeout, Goto, Close
  <1>7. ASSUME NEW c \in Conns, TooMany(c) PROVE OneAtATime'
    BY <1>7 DEF TooMany, EndBoth, Close, Both
  <1>8. ASSUME NEW c \in Conns, Admit(c) PROVE OneAtATime'
    BY <1>8 DEF Admit, Goto
  <1>9. ASSUME NEW c \in Conns, AckFails(c) PROVE OneAtATime'
    BY <1>9 DEF AckFails, EndBoth, Close, Both, Release
  <1>10. ASSUME NEW c \in Conns, AckBoth(c) PROVE OneAtATime'
    BY <1>10 DEF AckBoth, Goto
  <1>11. ASSUME NEW c \in Conns, PipeRevoked(c) PROVE OneAtATime'
    BY <1>11 DEF PipeRevoked, Goto
  <1>12. ASSUME NEW c \in Conns, OpenPipe(c) PROVE OneAtATime'
    BY <1>12 DEF OpenPipe, Goto, Shadow, Copying
  <1>13. ASSUME NEW c \in Conns, Copy(c) PROVE OneAtATime'
    BY <1>13 DEF Copy, Both
  <1>14. ASSUME NEW c \in Conns, CopyEnds(c) PROVE OneAtATime'
    BY <1>14 DEF CopyEnds, Goto, Both
  <1>15. ASSUME NEW c \in Conns, Account(c) PROVE OneAtATime'
    BY <1>15 DEF Account, Goto
  <1>16. ASSUME NEW c \in Conns, ClearActive(c) PROVE OneAtATime'
    BY <1>16 DEF ClearActive, Goto, Shadow, Copying
  <1>17. ASSUME NEW c \in Conns, EndPipe(c) PROVE OneAtATime'
    BY <1>17 DEF EndPipe, EndBoth, Close, Both, Release
  <1>18. ASSUME NEW g \in Grants, Revoke(g) PROVE OneAtATime'
    BY <1>18 DEF Revoke, Seen, Both
  <1>19. ASSUME NEW g \in Grants, RevokeCloses(g) PROVE OneAtATime'
    BY <1>19 DEF RevokeCloses, Close
  <1>20. ASSUME NEW g \in Grants, Expire(g) PROVE OneAtATime'
    BY <1>20 DEF Expire
  <1>21. CASE UNCHANGED vars
    BY <1>21 DEF vars
  <1> QED
    BY <1>1, <1>2, <1>3, <1>4, <1>5, <1>6, <1>7, <1>8, <1>9, <1>10, <1>11,
       <1>12, <1>13, <1>14, <1>15, <1>16, <1>17, <1>18, <1>19, <1>20, <1>21
    DEF Next, Handle

LEMMA UnaccountedAreConns == \A g \in Grants : Unaccounted(g) \subseteq Conns
  BY DEF Unaccounted

\* A session that ends before it has moved anything leaves its grant even.
LEMMA LeavesEven ==
  ASSUME TypeOK, RecordFits, NEW c \in Conns, moved[c] = 0,
         UNCHANGED <<carried, relayed, overlapped>>,
         \A d \in Conns \ {c} : start'[d] = start[d] /\ moved'[d] = moved[d],
         \A g \in Grants : \/ Unaccounted(g)' = Unaccounted(g) \ {c}
                           \/ /\ Unaccounted(g)' = Unaccounted(g)
                              /\ start'[c] = start[c] /\ moved'[c] = moved[c]
  PROVE  RecordFits'
  <1> SUFFICES ASSUME NEW g \in Grants, ~overlapped[g]
               PROVE  /\ Unaccounted(g)' = {} => carried[g] = relayed[g]
                      /\ \A d \in Unaccounted(g)' :
                           start'[d] = relayed[g] /\ carried[g] = relayed[g] + moved'[d]
                      /\ carried[g] <= MaxBytes
    BY DEF RecordFits
  <1>1. c \in Unaccounted(g) => carried[g] = relayed[g]
    BY DEF RecordFits, TypeOK
  <1> QED
    BY <1>1, UnaccountedAreConns DEF RecordFits, TypeOK

\* What a session has moved is added to the record once, by itself.
LEMMA FitsStep ==
  ASSUME TypeOK, WaiterWaits, SessionsAreApart, NothingMovedYet, OneAtATime, BudgetFits, RecordFits, [Next]_vars
  PROVE  RecordFits'
  <1> USE NoConnIsApart, LimitsArePositive
          DEF TypeOK, setting, sessions, grantStates, history, RecordFits, Owners, Slots
  <1>1. ASSUME NEW c \in Conns, Leave(c) PROVE RecordFits'
    <2>1. \A g \in Grants : Unaccounted(g)' = Unaccounted(g)
      BY <1>1 DEF Leave, Unaccounted
    <2>2. UNCHANGED <<carried, relayed, overlapped, start, moved>>
      BY <1>1 DEF Leave
    <2> QED
      BY <2>1, <2>2
  <1>2. ASSUME NEW c \in Conns, RefuseFrame(c) PROVE RecordFits'
    <2>1. \A g \in Grants : Unaccounted(g)' = Unaccounted(g)
      BY <1>2 DEF RefuseFrame, Close, Goto, Unaccounted
    <2>2. UNCHANGED <<carried, relayed, overlapped, start, moved>>
      BY <1>2 DEF RefuseFrame
    <2> QED
      BY <2>1, <2>2
  <1>3. ASSUME NEW c \in Conns, RefuseRevoked(c) PROVE RecordFits'
    <2>1. \A g \in Grants : Unaccounted(g)' = Unaccounted(g)
      BY <1>3 DEF RefuseRevoked, Close, Goto, Unaccounted
    <2>2. UNCHANGED <<carried, relayed, overlapped, start, moved>>
      BY <1>3 DEF RefuseRevoked
    <2> QED
      BY <2>1, <2>2
  <1>4. ASSUME NEW c \in Conns, Pair(c) PROVE RecordFits'
    <2>1. \A g \in Grants : ~overlapped'[g] =>
            /\ ~overlapped[g]
            /\ g = grant[c] => Unaccounted(g) = {}
      BY <1>4, PairOverlaps
    <2>2. \A g \in Grants :
            Unaccounted(g)' = IF g = grant[c] THEN Unaccounted(g) \cup {c}
                              ELSE Unaccounted(g)
      BY <1>4, PairAdds
    <2>3. /\ start' = [start EXCEPT ![c] = relayed[grant[c]]]
          /\ UNCHANGED <<carried, relayed, moved>> /\ moved[c] = 0
      BY <1>4 DEF Pair, NothingMovedYet
    <2>4. \A g \in Grants : c \notin Unaccounted(g)
      BY <1>4 DEF Pair, Unaccounted
    <2> QED
      BY <2>1, <2>2, <2>3, <2>4
  <1>5. ASSUME NEW c \in Conns, Wait(c) PROVE RecordFits'
    <2>1. \A g \in Grants : Unaccounted(g)' = Unaccounted(g)
      BY <1>5 DEF Wait, Seen, Goto, Unaccounted
    <2>2. UNCHANGED <<carried, relayed, overlapped, start, moved>>
      BY <1>5 DEF Wait
    <2> QED
      BY <2>1, <2>2
  <1>6. ASSUME NEW c \in Conns, PairingTimeout(c) PROVE RecordFits'
    <2>1. \A g \in Grants : Unaccounted(g)' = Unaccounted(g)
      BY <1>6 DEF PairingTimeout, Goto, Close, Unaccounted
    <2>2. UNCHANGED <<carried, relayed, overlapped, start, moved>>
      BY <1>6 DEF PairingTimeout
    <2> QED
      BY <2>1, <2>2
  <1>7. ASSUME NEW c \in Conns, TooMany(c) PROVE RecordFits'
    <2>1. c \in Owners /\ moved[c] = 0
      BY <1>7 DEF TooMany, NothingMovedYet
    <2>2. \A g \in Grants : Unaccounted(g)' = Unaccounted(g) \ {c}
      BY <1>7, <2>1, EndDrops DEF TooMany
    <2>3. /\ UNCHANGED <<carried, relayed, overlapped>>
          /\ \A d \in Conns \ {c} : start'[d] = start[d] /\ moved'[d] = moved[d]
      BY <1>7 DEF TooMany, EndBoth
    <2> QED
      BY <2>1, <2>2, <2>3, LeavesEven
  <1>8. ASSUME NEW c \in Conns, Admit(c) PROVE RecordFits'
    <2>1. \A g \in Grants : Unaccounted(g)' = Unaccounted(g)
      BY <1>8 DEF Admit, Goto, Unaccounted
    <2>2. UNCHANGED <<carried, relayed, overlapped, start, moved>>
      BY <1>8 DEF Admit
    <2> QED
      BY <2>1, <2>2
  <1>9. ASSUME NEW c \in Conns, AckFails(c) PROVE RecordFits'
    <2>1. c \in Owners /\ moved[c] = 0
      BY <1>9 DEF AckFails, NothingMovedYet
    <2>2. \A g \in Grants : Unaccounted(g)' = Unaccounted(g) \ {c}
      BY <1>9, <2>1, EndDrops DEF AckFails
    <2>3. /\ UNCHANGED <<carried, relayed, overlapped>>
          /\ \A d \in Conns \ {c} : start'[d] = start[d] /\ moved'[d] = moved[d]
      BY <1>9 DEF AckFails, EndBoth
    <2> QED
      BY <2>1, <2>2, <2>3, LeavesEven
  <1>10. ASSUME NEW c \in Conns, AckBoth(c) PROVE RecordFits'
    <2>1. \A g \in Grants : Unaccounted(g)' = Unaccounted(g)
      BY <1>10 DEF AckBoth, Goto, Unaccounted
    <2>2. UNCHANGED <<carried, relayed, overlapped, start, moved>>
      BY <1>10 DEF AckBoth
    <2> QED
      BY <2>1, <2>2
  <1>11. ASSUME NEW c \in Conns, PipeRevoked(c) PROVE RecordFits'
    <2>1. c \in Conns /\ moved[c] = 0
      BY <1>11 DEF PipeRevoked, NothingMovedYet
    <2>2. \A g \in Grants : Unaccounted(g)' \in {Unaccounted(g), Unaccounted(g) \ {c}}
      BY <1>11 DEF PipeRevoked, Goto, Unaccounted
    <2>3. UNCHANGED <<carried, relayed, overlapped, start, moved>>
      BY <1>11 DEF PipeRevoked
    <2> QED
      BY <2>1, <2>2, <2>3, LeavesEven
  <1>12. ASSUME NEW c \in Conns, OpenPipe(c) PROVE RecordFits'
    <2>1. c \in Conns /\ moved[c] = 0
      BY <1>12 DEF OpenPipe, NothingMovedYet
    <2>2. \A g \in Grants : Unaccounted(g)' \in {Unaccounted(g), Unaccounted(g) \ {c}}
      BY <1>12 DEF OpenPipe, Goto, Unaccounted
    <2>3. UNCHANGED <<carried, relayed, overlapped, start, moved>>
      BY <1>12 DEF OpenPipe
    <2> QED
      BY <2>1, <2>2, <2>3, LeavesEven
  <1>13. ASSUME NEW c \in Conns, Copy(c) PROVE RecordFits'
    <2>1. /\ carried' = [carried EXCEPT ![grant[c]] = @ + 1]
          /\ moved' = [moved EXCEPT ![c] = @ + 1] /\ moved[c] < budget[c]
          /\ UNCHANGED <<start, relayed, overlapped>>
      BY <1>13 DEF Copy
    <2>2. \A g \in Grants : Unaccounted(g)' = Unaccounted(g)
      BY <1>13 DEF Copy, Unaccounted
    <2>3. \A g \in Grants : c \in Unaccounted(g) <=> g = grant[c]
      BY <1>13 DEF Copy, Unaccounted
    <2>4. ~overlapped[grant[c]] =>
            /\ \A d \in Unaccounted(grant[c]) : d = c
            /\ carried[grant[c]] + 1 <= MaxBytes
      BY <1>13, <2>1, <2>3 DEF OneAtATime, BudgetFits, Copy
    <2>5. ASSUME NEW g \in Grants, ~overlapped[g]
          PROVE  /\ Unaccounted(g) = {} => carried'[g] = relayed[g]
                 /\ \A d \in Unaccounted(g) :
                      start[d] = relayed[g] /\ carried'[g] = relayed[g] + moved'[d]
                 /\ carried'[g] <= MaxBytes
      <3>1. CASE g = grant[c]
        BY <3>1, <2>1, <2>3, <2>4, <2>5 DEF RecordFits
      <3>2. CASE g # grant[c]
        BY <3>2, <2>1, <2>3, <2>5, UnaccountedAreConns DEF RecordFits
      <3> QED
        BY <3>1, <3>2
    <2> QED
      BY <2>1, <2>2, <2>5
  <1>14. ASSUME NEW c \in Conns, CopyEnds(c) PROVE RecordFits'
    <2>1. \A g \in Grants : Unaccounted(g)' = Unaccounted(g)
      BY <1>14 DEF CopyEnds, Goto, Both, Unaccounted
    <2>2. UNCHANGED <<carried, relayed, overlapped, start, moved>>
      BY <1>14 DEF CopyEnds
    <2> QED
      BY <2>1, <2>2
  <1>15. ASSUME NEW c \in Conns, Account(c) PROVE RecordFits'
    <2>1. /\ relayed' = [relayed EXCEPT ![grant[c]] = @ + moved[c]]
          /\ UNCHANGED <<start, carried, moved, overlapped>>
      BY <1>15 DEF Account
    <2>2. \A g \in Grants : Unaccounted(g)' = Unaccounted(g) \ {c}
      BY <1>15 DEF Account, Goto, Unaccounted
    <2>3. \A g \in Grants : c \in Unaccounted(g) <=> g = grant[c]
      BY <1>15 DEF Account, Unaccounted
    <2>4. ~overlapped[grant[c]] => \A d \in Unaccounted(grant[c]) : d = c
      BY <1>15, <2>3 DEF OneAtATime
    <2> QED
      BY <2>1, <2>2, <2>3, <2>4, UnaccountedAreConns
  <1>16. ASSUME NEW c \in Conns, ClearActive(c) PROVE RecordFits'
    <2>1. \A g \in Grants : Unaccounted(g)' = Unaccounted(g)
      BY <1>16 DEF ClearActive, Goto, Shadow, Copying, Unaccounted
    <2>2. UNCHANGED <<carried, relayed, overlapped, start, moved>>
      BY <1>16 DEF ClearActive
    <2> QED
      BY <2>1, <2>2
  <1>17. ASSUME NEW c \in Conns, EndPipe(c) PROVE RecordFits'
    <2>1. c \in Owners /\ \A g \in Grants : c \notin Unaccounted(g)
      BY <1>17 DEF EndPipe, Unaccounted
    <2>2. \A g \in Grants : Unaccounted(g)' = Unaccounted(g) \ {c}
      BY <1>17, <2>1, EndDrops DEF EndPipe
    <2>3. /\ UNCHANGED <<carried, relayed, overlapped>>
          /\ \A d \in Conns \ {c} : start'[d] = start[d] /\ moved'[d] = moved[d]
      BY <1>17 DEF EndPipe, EndBoth
    <2> QED
      BY <2>1, <2>2, <2>3, UnaccountedAreConns
  <1>18. ASSUME NEW g \in Grants, Revoke(g) PROVE RecordFits'
    <2>1. \A h \in Grants : Unaccounted(h)' = Unaccounted(h)
      BY <1>18, RevokeDropsNone
    <2>2. UNCHANGED <<carried, relayed, overlapped, start, moved>>
      BY <1>18 DEF Revoke
    <2> QED
      BY <2>1, <2>2
  <1>19. ASSUME NEW g \in Grants, RevokeCloses(g) PROVE RecordFits'
    <2>1. \A h \in Grants : Unaccounted(h)' = Unaccounted(h)
      BY <1>19, RevokeDropsNone
    <2>2. UNCHANGED <<carried, relayed, overlapped, start, moved>>
      BY <1>19 DEF RevokeCloses
    <2> QED
      BY <2>1, <2>2
  <1>20. ASSUME NEW g \in Grants, Expire(g) PROVE RecordFits'
    <2>1. \A h \in Grants : Unaccounted(h)' = Unaccounted(h)
      BY <1>20 DEF Expire, Unaccounted
    <2>2. UNCHANGED <<carried, relayed, overlapped, start, moved>>
      BY <1>20 DEF Expire
    <2> QED
      BY <2>1, <2>2
  <1>21. CASE UNCHANGED vars
    BY <1>21 DEF vars, Unaccounted
  <1> QED
    BY <1>1, <1>2, <1>3, <1>4, <1>5, <1>6, <1>7, <1>8, <1>9, <1>10, <1>11,
       <1>12, <1>13, <1>14, <1>15, <1>16, <1>17, <1>18, <1>19, <1>20, <1>21
    DEF Next, Handle

\* The budget is what was left, and nobody else adds to the record meanwhile.
LEMMA BudgetStep ==
  ASSUME TypeOK, SessionsAreApart, WaiterWaits, OneAtATime, NothingMovedYet, BudgetFits, [Next]_vars
  PROVE  BudgetFits'
  <1> USE NoConnIsApart, LimitsArePositive
          DEF TypeOK, setting, sessions, grantStates, history, BudgetFits, OneAtATime, NothingMovedYet, Unaccounted,
              WaiterWaits, SessionsAreApart, Owners, Slots
  <1>1. ASSUME NEW c \in Conns, Leave(c) PROVE BudgetFits'
    BY <1>1 DEF Leave
  <1>2. ASSUME NEW c \in Conns, RefuseFrame(c) PROVE BudgetFits'
    BY <1>2 DEF RefuseFrame, Close, Goto
  <1>3. ASSUME NEW c \in Conns, RefuseRevoked(c) PROVE BudgetFits'
    BY <1>3 DEF RefuseRevoked, Close, Goto
  <1>4. ASSUME NEW c \in Conns, Pair(c) PROVE BudgetFits'
    BY <1>4 DEF Pair
  <1>5. ASSUME NEW c \in Conns, Wait(c) PROVE BudgetFits'
    BY <1>5 DEF Wait, Seen, Goto
  <1>6. ASSUME NEW c \in Conns, PairingTimeout(c) PROVE BudgetFits'
    BY <1>6 DEF PairingTimeout, Goto, Close
  <1>7. ASSUME NEW c \in Conns, TooMany(c) PROVE BudgetFits'
    BY <1>7 DEF TooMany, EndBoth, Close, Both
  <1>8. ASSUME NEW c \in Conns, Admit(c) PROVE BudgetFits'
    BY <1>8 DEF Admit, Goto
  <1>9. ASSUME NEW c \in Conns, AckFails(c) PROVE BudgetFits'
    BY <1>9 DEF AckFails, EndBoth, Close, Both, Release
  <1>10. ASSUME NEW c \in Conns, AckBoth(c) PROVE BudgetFits'
    BY <1>10 DEF AckBoth, Goto
  <1>11. ASSUME NEW c \in Conns, PipeRevoked(c) PROVE BudgetFits'
    BY <1>11 DEF PipeRevoked, Goto
  <1>12. ASSUME NEW c \in Conns, OpenPipe(c) PROVE BudgetFits'
    BY <1>12 DEF OpenPipe, Goto, Shadow, Copying
  <1>13. ASSUME NEW c \in Conns, Copy(c) PROVE BudgetFits'
    BY <1>13 DEF Copy, Both
  <1>14. ASSUME NEW c \in Conns, CopyEnds(c) PROVE BudgetFits'
    BY <1>14 DEF CopyEnds, Goto, Both
  <1>15. ASSUME NEW c \in Conns, Account(c) PROVE BudgetFits'
    BY <1>15 DEF Account, Goto
  <1>16. ASSUME NEW c \in Conns, ClearActive(c) PROVE BudgetFits'
    BY <1>16 DEF ClearActive, Goto, Shadow, Copying
  <1>17. ASSUME NEW c \in Conns, EndPipe(c) PROVE BudgetFits'
    BY <1>17 DEF EndPipe, EndBoth, Close, Both, Release
  <1>18. ASSUME NEW g \in Grants, Revoke(g) PROVE BudgetFits'
    BY <1>18 DEF Revoke, Seen, Both
  <1>19. ASSUME NEW g \in Grants, RevokeCloses(g) PROVE BudgetFits'
    BY <1>19 DEF RevokeCloses, Close
  <1>20. ASSUME NEW g \in Grants, Expire(g) PROVE BudgetFits'
    BY <1>20 DEF Expire
  <1>21. CASE UNCHANGED vars
    BY <1>21 DEF vars
  <1> QED
    BY <1>1, <1>2, <1>3, <1>4, <1>5, <1>6, <1>7, <1>8, <1>9, <1>10, <1>11,
       <1>12, <1>13, <1>14, <1>15, <1>16, <1>17, <1>18, <1>19, <1>20, <1>21
    DEF Next, Handle

\* Whoever writes over the record of a session that copies shadows it.
LEMMA NamesStep ==
  ASSUME TypeOK, WaiterWaits, SessionsAreApart, RecordNames, [Next]_vars
  PROVE  RecordNames'
  <1> USE NoConnIsApart, LimitsArePositive
          DEF TypeOK, setting, sessions, grantStates, history, RecordNames, WaiterWaits, SessionsAreApart, Owners, Slots
  <1>1. ASSUME NEW c \in Conns, Leave(c) PROVE RecordNames'
    BY <1>1 DEF Leave
  <1>2. ASSUME NEW c \in Conns, RefuseFrame(c) PROVE RecordNames'
    BY <1>2 DEF RefuseFrame, Close, Goto
  <1>3. ASSUME NEW c \in Conns, RefuseRevoked(c) PROVE RecordNames'
    BY <1>3 DEF RefuseRevoked, Close, Goto
  <1>4. ASSUME NEW c \in Conns, Pair(c) PROVE RecordNames'
    BY <1>4 DEF Pair
  <1>5. ASSUME NEW c \in Conns, Wait(c) PROVE RecordNames'
    BY <1>5 DEF Wait, Seen, Goto
  <1>6. ASSUME NEW c \in Conns, PairingTimeout(c) PROVE RecordNames'
    BY <1>6 DEF PairingTimeout, Goto, Close
  <1>7. ASSUME NEW c \in Conns, TooMany(c) PROVE RecordNames'
    BY <1>7 DEF TooMany, EndBoth, Close, Both
  <1>8. ASSUME NEW c \in Conns, Admit(c) PROVE RecordNames'
    BY <1>8 DEF Admit, Goto
  <1>9. ASSUME NEW c \in Conns, AckFails(c) PROVE RecordNames'
    BY <1>9 DEF AckFails, EndBoth, Close, Both, Release
  <1>10. ASSUME NEW c \in Conns, AckBoth(c) PROVE RecordNames'
    BY <1>10 DEF AckBoth, Goto
  <1>11. ASSUME NEW c \in Conns, PipeRevoked(c) PROVE RecordNames'
    BY <1>11 DEF PipeRevoked, Goto
  <1>12. ASSUME NEW c \in Conns, OpenPipe(c) PROVE RecordNames'
    <2>1. \A d \in Conns : stage'[d] = "copying" => stage[d] = "copying" \/ d = c
      BY <1>12 DEF OpenPipe, Goto
    <2>2. /\ Shadow(grant[c], Copying(grant[c])) /\ UNCHANGED grant
          /\ piping' = [piping EXCEPT ![grant[c]] = c] /\ stage[c] # "copying"
      BY <1>12 DEF OpenPipe
    <2>3. \A g \in Grants : ~shadowed'[g] =>
            ~shadowed[g] /\ (g = grant[c] => piping[g] \notin Copying(g))
      BY <2>2, ShadowMarks
    <2> QED
      BY <1>12, <2>1, <2>2, <2>3 DEF Copying
  <1>13. ASSUME NEW c \in Conns, Copy(c) PROVE RecordNames'
    BY <1>13 DEF Copy, Both
  <1>14. ASSUME NEW c \in Conns, CopyEnds(c) PROVE RecordNames'
    BY <1>14 DEF CopyEnds, Goto, Both
  <1>15. ASSUME NEW c \in Conns, Account(c) PROVE RecordNames'
    BY <1>15 DEF Account, Goto
  <1>16. ASSUME NEW c \in Conns, ClearActive(c) PROVE RecordNames'
    <2>1. \A d \in Conns : stage'[d] = "copying" => stage[d] = "copying"
      BY <1>16 DEF ClearActive, Goto
    <2>2. /\ Shadow(grant[c], Copying(grant[c])) /\ UNCHANGED grant
          /\ piping' = [piping EXCEPT ![grant[c]] = NoConn] /\ stage[c] # "copying"
      BY <1>16 DEF ClearActive
    <2>3. \A g \in Grants : ~shadowed'[g] =>
            ~shadowed[g] /\ (g = grant[c] => piping[g] \notin Copying(g))
      BY <2>2, ShadowMarks
    <2> QED
      BY <1>16, <2>1, <2>2, <2>3 DEF Copying
  <1>17. ASSUME NEW c \in Conns, EndPipe(c) PROVE RecordNames'
    BY <1>17 DEF EndPipe, EndBoth, Close, Both, Release
  <1>18. ASSUME NEW g \in Grants, Revoke(g) PROVE RecordNames'
    BY <1>18 DEF Revoke, Seen, Both
  <1>19. ASSUME NEW g \in Grants, RevokeCloses(g) PROVE RecordNames'
    BY <1>19 DEF RevokeCloses, Close
  <1>20. ASSUME NEW g \in Grants, Expire(g) PROVE RecordNames'
    BY <1>20 DEF Expire
  <1>21. CASE UNCHANGED vars
    BY <1>21 DEF vars
  <1> QED
    BY <1>1, <1>2, <1>3, <1>4, <1>5, <1>6, <1>7, <1>8, <1>9, <1>10, <1>11,
       <1>12, <1>13, <1>14, <1>15, <1>16, <1>17, <1>18, <1>19, <1>20, <1>21
    DEF Next, Handle

\* Revoke takes the session the record names, and none copies after it.
LEMMA TakenStep ==
  ASSUME TypeOK, WaiterWaits, SessionsAreApart, RecordNames, RevokedIsTaken, [Next]_vars
  PROVE  RevokedIsTaken'
  <1> USE NoConnIsApart, LimitsArePositive
          DEF TypeOK, setting, sessions, grantStates, history, RecordNames, RevokedIsTaken, Calls, WaiterWaits,
              SessionsAreApart, Owners, Slots
  <1>1. ASSUME NEW c \in Conns, Leave(c) PROVE RevokedIsTaken'
    BY <1>1 DEF Leave
  <1>2. ASSUME NEW c \in Conns, RefuseFrame(c) PROVE RevokedIsTaken'
    BY <1>2 DEF RefuseFrame, Close, Goto
  <1>3. ASSUME NEW c \in Conns, RefuseRevoked(c) PROVE RevokedIsTaken'
    BY <1>3 DEF RefuseRevoked, Close, Goto
  <1>4. ASSUME NEW c \in Conns, Pair(c) PROVE RevokedIsTaken'
    BY <1>4 DEF Pair
  <1>5. ASSUME NEW c \in Conns, Wait(c) PROVE RevokedIsTaken'
    BY <1>5 DEF Wait, Seen, Goto
  <1>6. ASSUME NEW c \in Conns, PairingTimeout(c) PROVE RevokedIsTaken'
    BY <1>6 DEF PairingTimeout, Goto, Close
  <1>7. ASSUME NEW c \in Conns, TooMany(c) PROVE RevokedIsTaken'
    BY <1>7 DEF TooMany, EndBoth, Close, Both
  <1>8. ASSUME NEW c \in Conns, Admit(c) PROVE RevokedIsTaken'
    BY <1>8 DEF Admit, Goto
  <1>9. ASSUME NEW c \in Conns, AckFails(c) PROVE RevokedIsTaken'
    BY <1>9 DEF AckFails, EndBoth, Close, Both, Release
  <1>10. ASSUME NEW c \in Conns, AckBoth(c) PROVE RevokedIsTaken'
    BY <1>10 DEF AckBoth, Goto
  <1>11. ASSUME NEW c \in Conns, PipeRevoked(c) PROVE RevokedIsTaken'
    BY <1>11 DEF PipeRevoked, Goto
  <1>12. ASSUME NEW c \in Conns, OpenPipe(c) PROVE RevokedIsTaken'
    BY <1>12 DEF OpenPipe, Goto, Shadow, Copying
  <1>13. ASSUME NEW c \in Conns, Copy(c) PROVE RevokedIsTaken'
    BY <1>13 DEF Copy, Both
  <1>14. ASSUME NEW c \in Conns, CopyEnds(c) PROVE RevokedIsTaken'
    BY <1>14 DEF CopyEnds, Goto, Both
  <1>15. ASSUME NEW c \in Conns, Account(c) PROVE RevokedIsTaken'
    BY <1>15 DEF Account, Goto
  <1>16. ASSUME NEW c \in Conns, ClearActive(c) PROVE RevokedIsTaken'
    BY <1>16 DEF ClearActive, Goto, Shadow, Copying
  <1>17. ASSUME NEW c \in Conns, EndPipe(c) PROVE RevokedIsTaken'
    BY <1>17 DEF EndPipe, EndBoth, Close, Both, Release
  <1>18. ASSUME NEW g \in Grants, Revoke(g) PROVE RevokedIsTaken'
    BY <1>18 DEF Revoke, Seen, Both
  <1>19. ASSUME NEW g \in Grants, RevokeCloses(g) PROVE RevokedIsTaken'
    BY <1>19 DEF RevokeCloses, Close
  <1>20. ASSUME NEW g \in Grants, Expire(g) PROVE RevokedIsTaken'
    BY <1>20 DEF Expire
  <1>21. CASE UNCHANGED vars
    BY <1>21 DEF vars
  <1> QED
    BY <1>1, <1>2, <1>3, <1>4, <1>5, <1>6, <1>7, <1>8, <1>9, <1>10, <1>11,
       <1>12, <1>13, <1>14, <1>15, <1>16, <1>17, <1>18, <1>19, <1>20, <1>21
    DEF Next, Handle

\* A slot is taken by the session that is admitted and given back by the one
\* that ends, whichever way.
LEMMA CountStep ==
  ASSUME TypeOK, WaiterWaits, SessionsAreApart, CountIsKept, [Next]_vars
  PROVE  CountIsKept'
  <1>1. active = Cardinality(Holders) /\ IsFiniteSet(Holders)
    BY DEF CountIsKept, SlotsAreCounted, Holders
  <1>2. ASSUME Holders' = Holders, UNCHANGED active PROVE CountIsKept'
    BY <1>1, <1>2 DEF CountIsKept, SlotsAreCounted, Holders
  <1>3. ASSUME NEW c \in Conns, Admit(c) PROVE CountIsKept'
    <2>1. Holders' = Holders \cup {c} /\ c \notin Holders /\ active' = active + 1
      BY <1>3 DEF Admit, Goto, Holders, Slots, TypeOK
    <2>2. /\ IsFiniteSet(Holders \cup {c})
          /\ Cardinality(Holders \cup {c}) = Cardinality(Holders) + 1
      BY <1>1, <2>1, FS_AddElement
    <2> QED
      BY <1>1, <2>1, <2>2 DEF CountIsKept, SlotsAreCounted, Holders
  <1>4. ASSUME NEW c \in Conns, stage[c] \in Slots, EndBoth(c), Release
        PROVE  CountIsKept'
    <2>1. peer[c] \in Conns /\ stage[peer[c]] = "taken"
      BY <1>4 DEF SessionsAreApart, Owners, TypeOK
    <2>2. Holders' = Holders \ {c} /\ c \in Holders
      BY <1>4, <2>1 DEF EndBoth, Both, Holders, Slots, TypeOK
    <2>3. /\ IsFiniteSet(Holders \ {c})
          /\ Cardinality(Holders \ {c}) = Cardinality(Holders) - 1
      BY <1>1, <2>2, FS_RemoveElement
    <2>4. Cardinality(Holders \ {c}) \in Nat
      BY <2>3, FS_CardinalityType
    <2>5. active' = active - 1
      BY <1>1, <1>4, <2>3, <2>4 DEF Release, TypeOK
    <2> QED
      BY <1>1, <2>2, <2>3, <2>5 DEF CountIsKept, SlotsAreCounted, Holders
  <1>5. ASSUME NEW c \in Conns, AckFails(c) \/ EndPipe(c) PROVE CountIsKept'
    BY <1>4, <1>5 DEF AckFails, EndPipe, Slots
  <1>6. ASSUME NEW c \in Conns, TooMany(c) PROVE CountIsKept'
    <2>1. peer[c] \in Conns /\ stage[peer[c]] = "taken"
      BY <1>6 DEF TooMany, SessionsAreApart, Owners, TypeOK
    <2>2. Holders' = Holders /\ UNCHANGED active
      BY <1>6, <2>1 DEF TooMany, EndBoth, Both, Holders, Slots, TypeOK
    <2> QED
      BY <1>2, <2>2
  <1>7. ASSUME NEW c \in Conns, Pair(c) PROVE CountIsKept'
    <2>1. waiter[grant[c]] \in Conns /\ stage[waiter[grant[c]]] = "waiting"
      BY <1>7 DEF Pair, WaiterWaits, TypeOK
    <2>2. Holders' = Holders /\ UNCHANGED active
      BY <1>7, <2>1 DEF Pair, Holders, Slots, TypeOK
    <2> QED
      BY <1>2, <2>2
  <1>8. ASSUME NEW c \in Conns,
               RefuseFrame(c) \/ RefuseRevoked(c) \/ Wait(c) \/ PairingTimeout(c)
        PROVE  CountIsKept'
    <2>1. Holders' = Holders /\ UNCHANGED active
      BY <1>8 DEF RefuseFrame, RefuseRevoked, Wait, PairingTimeout, Goto,
                  Holders, Slots, TypeOK
    <2> QED
      BY <1>2, <2>1
  <1>9. ASSUME NEW c \in Conns,
               \/ AckBoth(c) \/ PipeRevoked(c) \/ OpenPipe(c) \/ CopyEnds(c)
               \/ Account(c) \/ ClearActive(c)
        PROVE  CountIsKept'
    <2>1. Holders' = Holders /\ UNCHANGED active
      BY <1>9 DEF AckBoth, PipeRevoked, OpenPipe, CopyEnds, Account,
                  ClearActive, Goto, Holders, Slots, TypeOK
    <2> QED
      BY <1>2, <2>1
  <1>10. CASE \/ \E c \in Conns : Leave(c) \/ Copy(c)
              \/ \E g \in Grants : Expire(g)
              \/ UNCHANGED vars
    <2>1. Holders' = Holders /\ UNCHANGED active
      BY <1>10 DEF Leave, Copy, Expire, vars, Holders
    <2> QED
      BY <1>2, <2>1
  <1>11. ASSUME NEW g \in Grants, Revoke(g) PROVE CountIsKept'
    <2>1. waiter[g] \in Conns => stage[waiter[g]] = "waiting"
      BY NoConnIsApart DEF WaiterWaits
    <2>2. Holders' = Holders /\ UNCHANGED active
      BY <1>11, <2>1 DEF Revoke, Holders, Slots, TypeOK
    <2> QED
      BY <1>2, <2>2
  <1>12. ASSUME NEW g \in Grants, RevokeCloses(g) PROVE CountIsKept'
    <2>1. Holders' = Holders /\ UNCHANGED active
      BY <1>12 DEF RevokeCloses, Holders, Slots, TypeOK
    <2> QED
      BY <1>2, <2>1
  <1> QED
    BY <1>3, <1>5, <1>6, <1>7, <1>8, <1>9, <1>10, <1>11, <1>12 DEF Next, Handle

-----------------------------------------------------------------------------
LEMMA InitInv == Init => IInv
  <1> SUFFICES ASSUME Init PROVE IInv
    OBVIOUS
  <1> USE NoConnIsApart, LimitsArePositive
  <1>1. TypeOK
    BY InitTyped
  <1>2. WaiterWaits /\ SessionsAreApart /\ NothingMovedYet /\ OneAtATime
    BY DEF Init, WaiterWaits, SessionsAreApart, Owners, Slots, NothingMovedYet,
           OneAtATime, Unaccounted
  <1>3. CountIsKept
    <2>1. Holders = {}
      BY DEF Init, Holders, Slots
    <2> QED
      BY <2>1, FS_EmptySet DEF Init, CountIsKept, SlotsAreCounted, Holders
  <1>4. RecordFits
    BY DEF Init, RecordFits, Unaccounted
  <1>5. BudgetFits /\ RecordNames /\ RevokedIsTaken
    BY DEF Init, BudgetFits, RecordNames, RevokedIsTaken, Idle
  <1> QED
    BY <1>1, <1>2, <1>3, <1>4, <1>5 DEF IInv

\* The invariant all of the theorems rest on.
THEOREM RelayInv == Spec => []IInv
  <1>1. Init => IInv
    BY InitInv
  <1>2. IInv /\ [Next]_vars => IInv'
    BY StepTyped, WaiterStep, ApartStep, CountStep, MovedStep, OneStep,
       FitsStep, BudgetStep, NamesStep, TakenStep DEF IInv
  <1> QED
    BY <1>1, <1>2, PTL DEF Spec

\* "It owns both connections from here on" (relay.go, pairAndRelay): for any
\* connections, sessions of one grant join a source and a sink nobody else has.
THEOREM Apart == Spec => []SessionsAreApart
  <1>1. IInv => SessionsAreApart
    BY DEF IInv
  <1> QED
    BY <1>1, RelayInv, PTL

\* admit and release count the sessions that hold a slot, on every path
\* through pairAndRelay and pipe, for any number of connections.
THEOREM SlotsCounted == Spec => []SlotsAreCounted
  <1>1. IInv => SlotsAreCounted
    BY DEF IInv, CountIsKept
  <1> QED
    BY <1>1, RelayInv, PTL

\* The sessions that hold a slot never exceed Config.MaxConcurrent.
THEOREM SlotsAreLimited ==
  Spec => [](Cardinality({c \in Conns : stage[c] \in Slots}) <= maxConcurrent)
  <1> DEFINE Limited == active <= maxConcurrent
  <1>1. Init => Limited
    BY LimitsArePositive DEF Init
  <1>2. IInv /\ Limited /\ [Next]_vars => Limited'
    <2> SUFFICES ASSUME IInv, Limited, [Next]_vars PROVE Limited'
      OBVIOUS
    <2>1. active \in Nat /\ maxConcurrent \in Nat
      BY LimitsArePositive DEF IInv, TypeOK
    <2>2. UNCHANGED maxConcurrent
      BY DEF Next, Handle, vars, setting, Leave, RefuseFrame, RefuseRevoked,
             Pair, Wait, PairingTimeout, TooMany, Admit, AckFails, AckBoth,
             PipeRevoked, OpenPipe, Copy, CopyEnds, Account, ClearActive,
             EndPipe, Revoke, RevokeCloses, Expire
    <2>3. UNCHANGED active \/ Release \/ \E c \in Conns : Admit(c)
      BY DEF Next, Handle, vars, Leave, RefuseFrame, RefuseRevoked, Pair,
             Wait, PairingTimeout, TooMany, AckFails, AckBoth, PipeRevoked,
             OpenPipe, Copy, CopyEnds, Account, ClearActive, EndPipe, Revoke,
             RevokeCloses, Expire
    <2>4. UNCHANGED active \/ Release => Limited'
      BY <2>1, <2>2 DEF Release
    <2>5. (\E c \in Conns : Admit(c)) => Limited'
      BY <2>1, <2>2 DEF Admit
    <2> QED
      BY <2>3, <2>4, <2>5
  <1>3. IInv /\ Limited => Cardinality({c \in Conns : stage[c] \in Slots}) <= maxConcurrent
    BY DEF IInv, CountIsKept, SlotsAreCounted
  <1> QED
    BY <1>1, <1>2, <1>3, RelayInv, PTL DEF Spec

\* "MaxBytesPerGrant caps total bytes relayed for one grant across every
\* reconnect" (relay.go, Config), for any number of reconnects one at a time.
THEOREM BudgetIsKept == Spec => []BudgetHolds
  <1>1. IInv => BudgetHolds
    BY DEF IInv, RecordFits, BudgetHolds
  <1> QED
    BY <1>1, RelayInv, PTL

\* "Both sides realign to this value" (relay.go, AckFrame): it is exact.
THEOREM OffsetsAreExact == Spec => []OffsetIsExact
  <1>1. IInv => OffsetIsExact
    <2> SUFFICES ASSUME IInv, NEW c \in Conns, ~overlapped[grant[c]],
                        stage[c] \in {"piping", "copying", "copied"}
                 PROVE  start[c] + moved[c] = carried[grant[c]]
      BY DEF OffsetIsExact
    <2>1. grant[c] \in Grants /\ c \in Unaccounted(grant[c])
      BY DEF IInv, TypeOK, Unaccounted
    <2> QED
      BY <2>1 DEF IInv, RecordFits
  <1> QED
    BY <1>1, RelayInv, PTL

\* Once Revoke has returned no byte of the grant moves (relay.go, Revoke), in
\* any order of pairings, sessions and calls, unless a session has written
\* over what another keeps in activeSrc and activeSink.
THEOREM RevocationIsFinal == Spec => RevokedMovesNothing
  <1>1. IInv /\ [Next]_vars =>
          \A g \in Grants : revoker[g].call = "done" /\ ~shadowed[g]
                              => carried'[g] = carried[g]
    <2> SUFFICES ASSUME IInv, [Next]_vars, NEW g \in Grants,
                        revoker[g].call = "done", ~shadowed[g]
                 PROVE  carried'[g] = carried[g]
      OBVIOUS
    <2>1. ASSUME NEW c \in Conns, Copy(c) PROVE carried'[g] = carried[g]
      <3>1. grant[c] # g
        BY <2>1 DEF Copy, Both, IInv, RevokedIsTaken
      <3> QED
        BY <2>1, <3>1 DEF Copy, IInv, TypeOK
    <2>2. UNCHANGED carried \/ \E c \in Conns : Copy(c)
      BY DEF Next, Handle, vars, history, Leave, RefuseFrame, RefuseRevoked,
             Pair, Wait, PairingTimeout, TooMany, Admit, AckFails, AckBoth,
             PipeRevoked, OpenPipe, CopyEnds, Account, ClearActive, EndPipe,
             Revoke, RevokeCloses, Expire
    <2> QED
      BY <2>1, <2>2
  <1> QED
    BY <1>1, RelayInv, PTL DEF Spec, RevokedMovesNothing
=============================================================================
