---------------------- MODULE CredentialRotation_proofs ----------------------
(***************************************************************************)
(* Theorems about CredentialRotation, for every set of calls, grace        *)
(* window and bound.  IInv adds to the safety properties why they hold:    *)
(* what a handler loaded is still the row when it saves, and each hash of  *)
(* the row has bought exactly as many rotations as its place in the row    *)
(* says.  StoredInv adds the Bridge: it asks with the token on file, and a *)
(* token it keeps is still recognised or has bought all it may.            *)
(***************************************************************************)
EXTENDS CredentialRotation, TLAPS

\* Only the lock's holder runs, and the row it loaded cannot move under it.
LockProtectsRow ==
  \A h \in Handlers :
    host[h] = "loaded" => lock = h /\ snap[h] \in {family, NoFamily}

\* Every hash in the row is of a token already minted, and a family that
\* lives has a current one.
RowIsMinted ==
  /\ family.current <= minted
  /\ family.previous # 0 => family.previous < family.current
  /\ family.exists /\ ~family.revoked => family.current # 0
  /\ ~family.exists \/ family.revoked => family.current = 0
  /\ ~family.exists => family = NoFamily

\* What each token has bought, from its place in the row.
UsesMatchRow ==
  /\ \A t \in Tokens : t > minted => uses[t] = 0
  /\ family.current # 0 => uses[family.current] = 0
  /\ family.previous # 0 =>
       uses[family.previous] = IF family.consumed THEN 2 ELSE 1

IInv == TypeOK /\ LockProtectsRow /\ RowIsMinted /\ UsesMatchRow
        /\ SpentAtMostTwice

-----------------------------------------------------------------------------
(* The only steps that write the row.                                      *)
RowStep(h) ==
  \/ Rotate(h) \/ Recover(h) \/ DetectReuse(h)
  \/ Enroll(h) \/ RevokeFamily(h) \/ ReEnroll(h)

\* The SMT encoding does not know the members of BOOLEAN by itself.
LEMMA Booleans == TRUE \in BOOLEAN /\ FALSE \in BOOLEAN
  OBVIOUS

\* Initially every part of the invariant holds: there is no family.
LEMMA InitInv == Init => IInv
  <1> SUFFICES ASSUME Init PROVE IInv
    OBVIOUS
  <1> USE OwnerIsApart, BoundsAreNat, Booleans DEF Init, Handlers, Tokens
  <1>1. NoFamily \in Families
    BY DEF NoFamily, Families, Reasons
  <1>2. NoRequest \in Requests /\ NoCredential \in Credentials
    BY DEF NoRequest, NoCredential, Requests, Credentials
  <1>3. TypeOK
    <2>1. /\ family \in Families /\ snap \in [Handlers -> Families]
          /\ request \in [Handlers -> Requests]
          /\ cred \in Credentials /\ durable \in Credentials
      BY <1>1, <1>2
    <2>2. /\ age \in 0..(Grace + 1) /\ minted \in 0..MaxTokens
          /\ losses \in 0..MaxLosses /\ root \in 0..minted
          /\ lock \in Handlers \cup {NoOne}
      OBVIOUS
    <2>3. /\ host \in [Handlers -> {"idle", "queued", "loaded", "replied"}]
          /\ client \in [Calls -> {"idle", "loaded", "waiting", "renamed"}]
          /\ reply \in [Calls -> 0..MaxTokens] /\ seen \in [Calls -> Nat]
          /\ uses \in [Tokens -> Nat]
      OBVIOUS
    <2>4. raced \in BOOLEAN /\ unflushed \in BOOLEAN /\ undone \in BOOLEAN
      OBVIOUS
    <2>5. QED
      BY <2>1, <2>2, <2>3, <2>4 DEF TypeOK
  <1>4. LockProtectsRow /\ RowIsMinted /\ UsesMatchRow
    BY DEF LockProtectsRow, RowIsMinted, UsesMatchRow, NoFamily
  <1>5. SpentAtMostTwice
    BY DEF SpentAtMostTwice
  <1>6. QED
    BY <1>3, <1>4, <1>5 DEF IInv

\* Whatever row a handler loaded, what it writes in its place is a row.
LEMMA RowsAreTyped ==
  ASSUME NEW s \in Families, NEW t \in 0..MaxTokens, NEW why \in Reasons
  PROVE  /\ FreshFamily(t) \in Families /\ Revoked(s, why) \in Families
         /\ Rotated(s, t) \in Families /\ Recovered(s, t) \in Families
         /\ ReEnrolled(s, t) \in Families
  <1> USE Booleans
  <1>1. 0 \in 0..MaxTokens
    BY BoundsAreNat
  <1>2. s.current \in 0..MaxTokens /\ s.generation + 1 \in Nat
    BY DEF Families
  <1>3. FreshFamily(t) \in Families
    <2>1. NoFamily \in Families
      BY <1>1 DEF NoFamily, Families, Reasons
    <2>2. QED
      BY <2>1 DEF FreshFamily, Families
  <1>4. Revoked(s, why) \in Families
    BY <1>1 DEF Revoked, Families
  <1>5. Rotated(s, t) \in Families
    BY <1>2 DEF Rotated, Families
  <1>6. Recovered(s, t) \in Families
    BY <1>2 DEF Recovered, Families
  <1>7. ReEnrolled(s, t) \in Families
    BY <1>1, <1>2 DEF ReEnrolled, Families, Reasons
  <1>8. QED
    BY <1>3, <1>4, <1>5, <1>6, <1>7

\* Where a handler that runs has its answer taken, the rest of the state
\* keeps its type.
LEMMA FinishTyped ==
  ASSUME TypeOK, NEW h \in Handlers, NEW answer \in 0..MaxTokens,
         Finish(h, answer)
  PROVE  /\ lock' \in Handlers \cup {NoOne}
         /\ snap' \in [Handlers -> Families]
         /\ host' \in [Handlers -> {"idle", "queued", "loaded", "replied"}]
         /\ reply' \in [Calls -> 0..MaxTokens]
         /\ request' \in [Handlers -> Requests]
  <1> USE OwnerIsApart, BoundsAreNat, Booleans DEF Finish, TypeOK
  <1>1. NoFamily \in Families
    BY DEF NoFamily, Families, Reasons
  <1>2. NoRequest \in Requests
    BY DEF NoRequest, Requests
  <1>3. lock' \in Handlers \cup {NoOne} /\ snap' \in [Handlers -> Families]
    BY <1>1
  <1>4. host' \in [Handlers -> {"idle", "queued", "loaded", "replied"}]
    OBVIOUS
  <1>5. request' \in [Handlers -> Requests]
    BY <1>2
  <1>6. reply' \in [Calls -> 0..MaxTokens]
    OBVIOUS
  <1>7. QED
    BY <1>3, <1>4, <1>5, <1>6

\* Every handler writes a row, and what it mints stays within the bound.
LEMMA HandleTyped ==
  ASSUME TypeOK, NEW h \in Handlers, Handle(h)
  PROVE  TypeOK'
  <1> USE OwnerIsApart, BoundsAreNat, Booleans
  <1>1. snap[h] \in Families /\ minted \in 0..MaxTokens
    BY DEF TypeOK
  <1>2. ASSUME family' \in Families, age' \in 0..(Grace + 1),
               minted' \in 0..MaxTokens, root' \in 0..minted',
               uses' \in [Tokens -> Nat],
               NEW answer \in 0..MaxTokens, Finish(h, answer)
        PROVE  TypeOK'
    <2>1. UNCHANGED <<cred, durable, disk, client, seen, losses, raced>>
      BY <1>2 DEF Finish, bridgeVars
    <2>2. QED
      BY <1>2, <2>1, FinishTyped DEF TypeOK, disk
  <1>3. CASE RotateRefused(h) \/ SaveFails(h) \/ NoSuchFamily(h)
    BY <1>3, <1>2 DEF RotateRefused, SaveFails, NoSuchFamily, TypeOK
  <1>4. ASSUME NEW t, Bought(t)
        PROVE  /\ minted + 1 \in 0..MaxTokens /\ minted' = minted + 1
               /\ root' \in 0..minted' /\ uses' \in [Tokens -> Nat]
    <2>1. minted + 1 \in 0..MaxTokens /\ minted' = minted + 1
      BY <1>1, <1>4 DEF Bought
    <2>2. root' \in 0..minted'
      BY <2>1, <1>1, <1>4 DEF Bought, TypeOK
    <2>3. uses' \in [Tokens -> Nat]
      <3>1. uses \in [Tokens -> Nat]
        BY DEF TypeOK
      <3>2. CASE t \in Tokens
        BY <3>1, <3>2, <1>4 DEF Bought
      <3>3. CASE t \notin Tokens
        <4>1. uses' = uses
          BY <3>1, <3>3, <1>4 DEF Bought
        <4>2. QED
          BY <3>1, <4>1
      <3>4. QED
        BY <3>2, <3>3
    <2>4. QED
      BY <2>1, <2>2, <2>3
  <1>5. 0 \in 0..MaxTokens /\ 0 \in 0..(Grace + 1)
    OBVIOUS
  <1>6. age \in 0..(Grace + 1) /\ root \in 0..minted
    BY DEF TypeOK
  <1>7. uses \in [Tokens -> Nat]
    BY DEF TypeOK
  <1>8. {"owner", "twice", "late"} \subseteq Reasons
    BY DEF Reasons
  <1>9. CASE Rotate(h)
    <2>1. Bought(snap[h].current) /\ age' = 0 /\ Finish(h, minted + 1)
      BY <1>9 DEF Rotate
    <2>2. minted + 1 \in 0..MaxTokens /\ minted' = minted + 1
      BY <1>4, <2>1
    <2>3. family' \in Families
      BY <1>1, <1>9, <2>2, <1>8, RowsAreTyped DEF Rotate
    <2>4. /\ age' \in 0..(Grace + 1) /\ minted' \in 0..MaxTokens
          /\ root' \in 0..minted' /\ uses' \in [Tokens -> Nat]
      BY <1>4, <1>5, <2>1
    <2>5. QED
      BY <1>2, <2>1, <2>2, <2>3, <2>4
  <1>10. CASE Recover(h)
    <2>1. Bought(snap[h].previous) /\ age' = age /\ Finish(h, minted + 1)
      BY <1>10 DEF Recover
    <2>2. minted + 1 \in 0..MaxTokens /\ minted' = minted + 1
      BY <1>4, <2>1
    <2>3. family' \in Families
      BY <1>1, <1>10, <2>2, <1>8, RowsAreTyped DEF Recover
    <2>4. /\ age' \in 0..(Grace + 1) /\ minted' \in 0..MaxTokens
          /\ root' \in 0..minted' /\ uses' \in [Tokens -> Nat]
      BY <1>4, <1>6, <2>1
    <2>5. QED
      BY <1>2, <2>1, <2>2, <2>3, <2>4
  <1>11. CASE DetectReuse(h)
    <2>1. family' \in Families
      BY <1>1, <1>5, <1>11, <1>8, RowsAreTyped DEF DetectReuse
    <2>2. Finish(h, 0) /\ UNCHANGED <<age, minted, uses, root>>
      BY <1>11 DEF DetectReuse
    <2>3. /\ age' \in 0..(Grace + 1) /\ minted' \in 0..MaxTokens
          /\ root' \in 0..minted' /\ uses' \in [Tokens -> Nat]
      BY <1>1, <1>6, <1>7, <2>2
    <2>4. QED
      BY <1>2, <1>5, <2>1, <2>2, <2>3
  <1>12. CASE Enroll(h)
    <2>1. /\ minted + 1 \in 0..MaxTokens /\ minted' = minted + 1
          /\ root' = minted + 1 /\ age' = 0 /\ uses' = uses
          /\ Finish(h, minted + 1)
      BY <1>1, <1>12 DEF Enroll
    <2>2. family' \in Families
      BY <1>1, <1>12, <2>1, <1>8, RowsAreTyped DEF Enroll
    <2>3. /\ age' \in 0..(Grace + 1) /\ minted' \in 0..MaxTokens
          /\ root' \in 0..minted' /\ uses' \in [Tokens -> Nat]
      BY <1>1, <1>5, <1>7, <2>1
    <2>4. QED
      BY <1>2, <2>1, <2>2, <2>3
  <1>13. CASE RevokeFamily(h)
    <2>1. family' \in Families
      BY <1>1, <1>5, <1>13, <1>8, RowsAreTyped DEF RevokeFamily
    <2>2. Finish(h, 0) /\ UNCHANGED <<age, minted, uses, root>>
      BY <1>13 DEF RevokeFamily
    <2>3. /\ age' \in 0..(Grace + 1) /\ minted' \in 0..MaxTokens
          /\ root' \in 0..minted' /\ uses' \in [Tokens -> Nat]
      BY <1>1, <1>6, <1>7, <2>2
    <2>4. QED
      BY <1>2, <1>5, <2>1, <2>2, <2>3
  <1>14. CASE ReEnroll(h)
    <2>1. /\ minted + 1 \in 0..MaxTokens /\ minted' = minted + 1
          /\ root' = minted + 1 /\ age' = 0 /\ uses' = uses
          /\ Finish(h, minted + 1)
      BY <1>1, <1>14 DEF ReEnroll
    <2>2. family' \in Families
      BY <1>1, <1>14, <2>1, <1>8, RowsAreTyped DEF ReEnroll
    <2>3. /\ age' \in 0..(Grace + 1) /\ minted' \in 0..MaxTokens
          /\ root' \in 0..minted' /\ uses' \in [Tokens -> Nat]
      BY <1>1, <1>5, <1>7, <2>1
    <2>4. QED
      BY <1>2, <2>1, <2>2, <2>3
  <1>15. QED
    BY <1>3, <1>9, <1>10, <1>11, <1>12, <1>13, <1>14 DEF Handle

\* The steps of the Bridge, the owner, the network and the clock keep the
\* type of everything they touch.
LEMMA OthersTyped ==
  ASSUME TypeOK,
         \/ \E c \in Calls : BridgeStep(c)
         \/ BridgeCrash \/ PowerLoss
         \/ \E o \in {"revoke", "reenroll"} : OwnerAsks(o)
         \/ \E h \in Handlers : LockAndLoad(h)
         \/ HostCrash \/ Tick
  PROVE  TypeOK'
  <1> USE OwnerIsApart, BoundsAreNat, Booleans DEF TypeOK, hostVars, bridgeVars, disk
  <1>1. /\ NoFamily \in Families /\ NoRequest \in Requests
        /\ NoCredential \in Credentials
    BY DEF NoFamily, NoRequest, NoCredential, Families, Requests, Credentials,
           Reasons
  <1>2. Owner \in Handlers /\ Calls \subseteq Handlers
    BY DEF Handlers
  <1>3. ASSUME NEW o \in {"rotate", "enroll", "revoke", "reenroll"},
               NEW t \in 0..MaxTokens
        PROVE  [op |-> o, token |-> t] \in Requests
    BY DEF Requests
  <1>4. ASSUME NEW t \in 0..MaxTokens, NEW g \in Nat
        PROVE  [token |-> t, generation |-> g] \in Credentials
    BY DEF Credentials
  <1>5. cred.token \in 0..MaxTokens /\ cred.generation \in Nat
    BY DEF Credentials
  <1>6. ASSUME NEW c \in Calls, StartEnroll(c) PROVE TypeOK'
    BY <1>2, <1>3, <1>6 DEF StartEnroll
  <1>7. ASSUME NEW c \in Calls, StartRefresh(c) PROVE TypeOK'
    BY <1>2, <1>3, <1>5, <1>7 DEF StartRefresh
  <1>8. ASSUME NEW c \in Calls, SendRotate(c) PROVE TypeOK'
    BY <1>2, <1>5, <1>8 DEF SendRotate
  <1>9. ASSUME NEW c \in Calls, TakeRefusal(c) PROVE TypeOK'
    BY <1>1, <1>2, <1>9 DEF TakeRefusal, Return, Forget
  <1>10. ASSUME NEW c \in Calls, StoreCredential(c) PROVE TypeOK'
    <2>1. cred' \in Credentials
      BY <1>4, <1>10 DEF StoreCredential
    <2>2. QED
      BY <1>1, <1>2, <1>10, <2>1 DEF StoreCredential, Forget
  <1>11. ASSUME NEW c \in Calls, StoreFails(c) PROVE TypeOK'
    BY <1>1, <1>2, <1>11 DEF StoreFails, Return, Forget
  <1>12. ASSUME NEW c \in Calls, FlushDirectory(c) PROVE TypeOK'
    <2>1. /\ durable' \in Credentials /\ losses' \in 0..MaxLosses
          /\ client' \in [Calls -> {"idle", "loaded", "waiting", "renamed"}]
          /\ seen' \in [Calls -> Nat]
      BY <1>12 DEF FlushDirectory, Return
    <2>2. unflushed' = TRUE \/ unflushed' = FALSE
      BY <1>12 DEF FlushDirectory
    <2>3. UNCHANGED <<family, age, minted, lock, snap, uses, root, host, request,
                      reply, cred, undone, raced>>
      BY <1>12 DEF FlushDirectory
    <2> QED
      BY <2>1, <2>2, <2>3
  <1>13. ASSUME NEW c \in Calls, GiveUp(c) PROVE TypeOK'
    BY <1>1, <1>2, <1>13 DEF GiveUp, Return, Forget
  <1>14. ASSUME NEW file \in Credentials, BridgeStops(file), UNCHANGED durable,
                unflushed' \in BOOLEAN, undone' \in BOOLEAN
         PROVE  TypeOK'
    BY <1>1, <1>2, <1>14 DEF BridgeStops
  <1>15. CASE BridgeCrash \/ PowerLoss
    <2>1. unflushed' \in BOOLEAN /\ undone' \in BOOLEAN
      BY <1>15 DEF BridgeCrash, PowerLoss
    <2> QED
      BY <1>14, <1>15, <2>1 DEF BridgeCrash, PowerLoss
  <1>16. ASSUME NEW o \in {"revoke", "reenroll"}, OwnerAsks(o) PROVE TypeOK'
    BY <1>2, <1>3, <1>16 DEF OwnerAsks
  <1>17. ASSUME NEW h \in Handlers, LockAndLoad(h) PROVE TypeOK'
    BY <1>1, <1>17 DEF LockAndLoad
  <1>18. CASE HostCrash
    BY <1>1, <1>2, <1>18 DEF HostCrash
  <1>19. CASE Tick
    BY <1>19 DEF Tick
  <1>20. QED
    BY <1>6, <1>7, <1>8, <1>9, <1>10, <1>11, <1>12, <1>13, <1>15, <1>16,
       <1>17, <1>18, <1>19 DEF BridgeStep

\* TypeOK is inductive, and so holds throughout.
THEOREM TypeCorrect == Spec => []TypeOK
  <1>1. Init => TypeOK
    BY InitInv DEF IInv
  <1>2. TypeOK /\ [Next]_vars => TypeOK'
    <2>1. TypeOK /\ Next => TypeOK'
      BY HandleTyped, OthersTyped DEF Next
    <2>2. TypeOK /\ UNCHANGED vars => TypeOK'
      BY DEF TypeOK, vars, disk
    <2>3. QED
      BY <2>1, <2>2
  <1>3. QED
    BY <1>1, <1>2, PTL DEF Spec

-----------------------------------------------------------------------------
\* Nobody but a handler that saves writes the row, the mint or the uses.
LEMMA OnlyHandlersWrite ==
  ASSUME Next
  PROVE  \/ \E h \in Handlers : RowStep(h)
         \/ UNCHANGED <<family, minted, uses>>
  <1> USE DEF hostVars
  <1>1. CASE \E c \in Calls : BridgeStep(c)
    BY <1>1 DEF BridgeStep, StartEnroll, StartRefresh, SendRotate, TakeRefusal,
                StoreCredential, StoreFails, FlushDirectory, GiveUp
  <1>2. CASE BridgeCrash \/ PowerLoss
    BY <1>2 DEF BridgeCrash, PowerLoss, BridgeStops
  <1>3. CASE \E o \in {"revoke", "reenroll"} : OwnerAsks(o)
    BY <1>3 DEF OwnerAsks
  <1>4. CASE \E h \in Handlers : LockAndLoad(h) \/ Handle(h)
    BY <1>4 DEF LockAndLoad, Handle, RowStep, RotateRefused, NoSuchFamily,
                SaveFails
  <1>5. CASE HostCrash \/ Tick
    BY <1>5 DEF HostCrash, Tick
  <1>6. QED
    BY <1>1, <1>2, <1>3, <1>4, <1>5 DEF Next

\* A handler writes from the row as it stands: the lock kept it still.
LEMMA SavesWhatItLoaded ==
  ASSUME LockProtectsRow, NEW h \in Handlers, RowStep(h)
  PROVE  Enroll(h) \/ (snap[h] = family /\ family.exists)
  <1>1. host[h] = "loaded"
    BY DEF RowStep, Rotate, Recover, DetectReuse, PresentsPrevious, Enroll,
           RevokeFamily, ReEnroll, Running
  <1>2. snap[h] \in {family, NoFamily}
    BY <1>1 DEF LockProtectsRow
  <1>3. Enroll(h) \/ snap[h].exists
    BY DEF RowStep, Rotate, Recover, DetectReuse, PresentsPrevious,
           RevokeFamily, ReEnroll
  <1>4. ~NoFamily.exists
    BY DEF NoFamily
  <1>5. QED
    BY <1>2, <1>3, <1>4

\* The mutual exclusion the lock gives survives every step.
LEMMA LockStep ==
  ASSUME TypeOK, LockProtectsRow, Next
  PROVE  LockProtectsRow'
  <1> USE OwnerIsApart DEF LockProtectsRow, TypeOK, Handlers
  <1>1. ASSUME NEW h \in Handlers, LockAndLoad(h) PROVE LockProtectsRow'
    <2>1. \A g \in Handlers : host[g] # "loaded"
      BY <1>1 DEF LockAndLoad
    <2>2. /\ lock' = h /\ family' = family
          /\ host' = [host EXCEPT ![h] = "loaded"]
      BY <1>1 DEF LockAndLoad
    <2>3. \A g \in Handlers : host'[g] = "loaded" => g = h
      BY <2>1, <2>2
    <2>4. snap'[h] \in {family', NoFamily}
      BY <1>1, <2>2 DEF LockAndLoad
    <2>5. QED
      BY <2>2, <2>3, <2>4
  <1>2. ASSUME NEW h \in Handlers, Handle(h) PROVE LockProtectsRow'
    <2>1. host[h] = "loaded" /\ \E answer : Finish(h, answer)
      BY <1>2 DEF Handle, RotateRefused, Rotate, Recover, DetectReuse,
                  PresentsPrevious, Enroll, RevokeFamily, ReEnroll,
                  NoSuchFamily, SaveFails, Running
    <2>2. \A g \in Handlers : host'[g] # "loaded"
      BY <2>1 DEF Finish
    <2>3. QED
      BY <2>2
  <1>3. ASSUME UNCHANGED <<family, lock, snap>>,
               \A h \in Handlers : host'[h] = "loaded" => host[h] = "loaded"
        PROVE  LockProtectsRow'
    BY <1>3
  <1>4. CASE \E c \in Calls : BridgeStep(c)
    <2>1. UNCHANGED <<family, lock, snap>>
      BY <1>4 DEF hostVars, BridgeStep, StartEnroll, StartRefresh, SendRotate,
                  TakeRefusal, StoreCredential, StoreFails, FlushDirectory,
                  GiveUp
    <2>2. \A h \in Handlers : host'[h] = "loaded" => host[h] = "loaded"
      BY <1>4 DEF BridgeStep, StartEnroll, StartRefresh, SendRotate,
                  TakeRefusal, StoreCredential, StoreFails, FlushDirectory,
                  GiveUp, Forget
    <2>3. QED
      BY <1>3, <2>1, <2>2
  <1>5. CASE BridgeCrash \/ PowerLoss
    <2>1. UNCHANGED <<family, lock, snap>>
      BY <1>5 DEF BridgeCrash, PowerLoss, BridgeStops, hostVars
    <2>2. \A h \in Handlers : host'[h] = "loaded" => host[h] = "loaded"
      BY <1>5 DEF BridgeCrash, PowerLoss, BridgeStops
    <2>3. QED
      BY <1>3, <2>1, <2>2
  <1>6. CASE \E o \in {"revoke", "reenroll"} : OwnerAsks(o)
    <2>1. UNCHANGED <<family, lock, snap>>
      BY <1>6 DEF OwnerAsks, hostVars
    <2>2. \A h \in Handlers : host'[h] = "loaded" => host[h] = "loaded"
      BY <1>6 DEF OwnerAsks
    <2>3. QED
      BY <1>3, <2>1, <2>2
  <1>7. CASE HostCrash
    BY <1>7 DEF HostCrash
  <1>8. CASE Tick
    BY <1>3, <1>8 DEF Tick
  <1>9. QED
    BY <1>1, <1>2, <1>4, <1>5, <1>6, <1>7, <1>8 DEF Next

-----------------------------------------------------------------------------
\* The parts of the invariant that speak of the row and of what its tokens
\* have bought, and that only a saving handler can disturb.
RowInv == RowIsMinted /\ UsesMatchRow /\ SpentAtMostTwice

\* Each operation that saves keeps them, writing from the row as it stands.
LEMMA RowWritten ==
  ASSUME TypeOK, LockProtectsRow, RowInv, NEW h \in Handlers, RowStep(h)
  PROVE  RowInv'
  <1> USE BoundsAreNat DEF RowInv, RowIsMinted, UsesMatchRow,
          SpentAtMostTwice, Tokens
  <1>1. /\ family \in Families /\ minted \in 0..MaxTokens
        /\ uses \in [1..MaxTokens -> Nat]
    BY DEF TypeOK
  <1>2. /\ family.current \in 0..MaxTokens /\ family.previous \in 0..MaxTokens
        /\ DOMAIN family = DOMAIN NoFamily
    BY <1>1 DEF Families, NoFamily
  <1>3. CASE Enroll(h)
    <2>1. /\ family' = FreshFamily(minted + 1) /\ minted' = minted + 1
          /\ minted < MaxTokens /\ uses' = uses
      BY <1>3 DEF Enroll
    <2>2. /\ family'.exists /\ family'.current = minted + 1
          /\ family'.previous = 0 /\ ~family'.revoked
          /\ family'.reason = "none"
      BY <2>1 DEF FreshFamily, NoFamily
    <2>3. QED
      BY <1>1, <1>2, <2>1, <2>2, SMTT(20)
  <1>4. ASSUME snap[h] = family, family.exists
        PROVE  RowInv'
    <2>1. CASE Rotate(h)
      <3>1. /\ family' = Rotated(family, minted + 1) /\ minted' = minted + 1
            /\ minted < MaxTokens /\ ~family.revoked
            /\ uses' = [uses EXCEPT ![family.current] = @ + 1]
        BY <1>4, <2>1 DEF Rotate, Bought
      <3>2. /\ family'.exists /\ family'.current = minted + 1
            /\ family'.previous = family.current /\ ~family'.consumed
            /\ ~family'.revoked /\ family'.reason = family.reason
        BY <1>1, <1>4, <3>1 DEF Rotated, Families
      <3>3. QED
        BY <1>1, <1>2, <3>1, <3>2
    <2>2. CASE Recover(h)
      <3>1. /\ family' = Recovered(family, minted + 1) /\ minted' = minted + 1
            /\ minted < MaxTokens /\ ~family.revoked /\ ~family.consumed
            /\ family.previous # 0
            /\ uses' = [uses EXCEPT ![family.previous] = @ + 1]
        BY <1>4, <2>2 DEF Recover, PresentsPrevious, Bought
      <3>2. /\ family'.exists /\ family'.current = minted + 1
            /\ family'.previous = family.previous /\ family'.consumed
            /\ ~family'.revoked /\ family'.reason = family.reason
        BY <1>1, <1>4, <3>1 DEF Recovered, Families
      <3>3. QED
        BY <1>1, <1>2, <3>1, <3>2
    <2>3. ASSUME NEW why, family' = Revoked(family, why),
                 UNCHANGED <<minted, uses>>
          PROVE  RowInv'
      <3>1. /\ family'.exists /\ family'.revoked /\ family'.reason = why
            /\ family'.current = 0 /\ family'.previous = 0
        BY <1>1, <1>4, <2>3 DEF Revoked, Families
      <3>2. QED
        BY <1>1, <1>2, <2>3, <3>1
    <2>4. CASE DetectReuse(h)
      BY <1>4, <2>3, <2>4 DEF DetectReuse, PresentsPrevious
    <2>5. CASE RevokeFamily(h)
      BY <1>4, <2>3, <2>5 DEF RevokeFamily
    <2>6. CASE ReEnroll(h)
      <3>1. /\ family' = ReEnrolled(family, minted + 1) /\ minted' = minted + 1
            /\ minted < MaxTokens /\ uses' = uses
        BY <1>4, <2>6 DEF ReEnroll
      <3>2. /\ family'.exists /\ family'.current = minted + 1
            /\ family'.previous = 0 /\ ~family'.revoked
            /\ family'.reason = "none"
        BY <1>1, <1>4, <3>1 DEF ReEnrolled, Families
      <3>3. QED
        BY <1>1, <1>2, <3>1, <3>2, SMTT(20)
    <2>7. CASE Enroll(h)
      BY <1>3, <2>7
    <2>8. QED
      BY <2>1, <2>2, <2>4, <2>5, <2>6, <2>7 DEF RowStep
  <1>5. QED
    BY <1>3, <1>4, SavesWhatItLoaded

\* IInv is inductive.
LEMMA InvStep == IInv /\ [Next]_vars => IInv'
  <1> SUFFICES ASSUME IInv, [Next]_vars PROVE IInv'
    OBVIOUS
  <1>1. TypeOK /\ LockProtectsRow /\ RowInv
    BY DEF IInv, RowInv
  <1>2. CASE Next
    <2>1. TypeOK'
      BY <1>1, <1>2, HandleTyped, OthersTyped DEF Next
    <2>2. LockProtectsRow'
      BY <1>1, <1>2, LockStep
    <2>3. CASE UNCHANGED <<family, minted, uses>>
      BY <1>1, <2>1, <2>2, <2>3
      DEF IInv, RowInv, RowIsMinted, UsesMatchRow, SpentAtMostTwice
    <2>4. CASE \E h \in Handlers : RowStep(h)
      BY <1>1, <2>1, <2>2, <2>4, RowWritten DEF IInv, RowInv
    <2>5. QED
      BY <1>2, <2>3, <2>4, OnlyHandlersWrite
  <1>3. CASE UNCHANGED vars
    BY <1>1, <1>3 DEF IInv, TypeOK, LockProtectsRow, RowInv, RowIsMinted,
                      UsesMatchRow, SpentAtMostTwice, vars, disk
  <1>4. QED
    BY <1>2, <1>3

\* No token buys more than two rotations, whatever is lost, crashes or races.
THEOREM NeverThrice == Spec => []SpentAtMostTwice
  <1>1. Init => IInv
    BY InitInv
  <1>2. IInv => SpentAtMostTwice
    BY DEF IInv
  <1>3. QED
    BY <1>1, <1>2, InvStep, PTL DEF Spec

\* What a saving step may leave recognised: hashes the row already held, or
\* the token it mints; and, once revoked, only a newly minted one.
LEMMA WhatIsRecognised ==
  ASSUME IInv, Next
  PROVE  /\ minted' \in Nat /\ minted <= minted'
         /\ Live' \subseteq Live \cup {minted + 1}
         /\ family.revoked => \/ family'.revoked
                              \/ Live' = {minted'} /\ minted' > minted
  <1> USE BoundsAreNat DEF Live
  <1>1. /\ TypeOK /\ LockProtectsRow
        /\ family \in Families /\ minted \in 0..MaxTokens
    BY DEF IInv, TypeOK
  <1>2. CASE UNCHANGED <<family, minted, uses>>
    BY <1>1, <1>2
  <1>3. ASSUME NEW h \in Handlers, Enroll(h)
        PROVE  Live' = {minted + 1} /\ minted' = minted + 1
    BY <1>1, <1>3 DEF Enroll, FreshFamily, NoFamily
  <1>4. ASSUME NEW h \in Handlers, snap[h] = family, RowStep(h)
        PROVE  /\ minted' \in {minted, minted + 1}
               /\ Live' \subseteq Live \cup {minted + 1}
               /\ family.revoked =>
                    family'.revoked \/ (Live' = {minted'} /\ minted' > minted)
    <2>1. CASE Rotate(h)
      BY <1>1, <1>4, <2>1 DEF Rotate, Bought, Rotated, Families
    <2>2. CASE Recover(h)
      BY <1>1, <1>4, <2>2
      DEF Recover, PresentsPrevious, Bought, Recovered, Families
    <2>3. CASE DetectReuse(h)
      BY <1>1, <1>4, <2>3 DEF DetectReuse, Revoked, Families
    <2>4. CASE RevokeFamily(h)
      BY <1>1, <1>4, <2>4 DEF RevokeFamily, Revoked, Families
    <2>5. CASE ReEnroll(h)
      BY <1>1, <1>4, <2>5 DEF ReEnroll, ReEnrolled, Families
    <2>6. CASE Enroll(h)
      BY <1>1, <1>3, <2>6
    <2>7. QED
      BY <1>4, <2>1, <2>2, <2>3, <2>4, <2>5, <2>6 DEF RowStep
  <1>5. QED
    BY <1>1, <1>2, <1>3, <1>4, OnlyHandlersWrite, SavesWhatItLoaded

\* Both box-action properties of the row follow.
LEMMA RecognisedStep ==
  ASSUME IInv, [Next]_vars
  PROVE  /\ [\A t \in 1..minted : t \notin Live => t \notin Live']_vars
         /\ [family.revoked =>
               family'.revoked \/ (Live' = {minted'} /\ minted' > minted)]_vars
  <1>1. minted \in Nat
    BY BoundsAreNat DEF IInv, TypeOK
  <1>2. CASE Next
    BY <1>1, <1>2, WhatIsRecognised
  <1>3. QED
    BY <1>2

\* Only DetectReuse ends a family for reuse, and only with a consumed
\* previous token in hand.
LEMMA ReuseStep ==
  ASSUME IInv, Next, family.reason # "twice", family'.reason = "twice"
  PROVE  family.previous # 0 /\ uses[family.previous] = 2
  <1>1. TypeOK /\ LockProtectsRow /\ family \in Families /\ UsesMatchRow
    BY DEF IInv, TypeOK
  <1>2. PICK h \in Handlers : RowStep(h)
    BY OnlyHandlersWrite
  <1>3. ~Enroll(h)
    BY DEF Enroll, FreshFamily, NoFamily
  <1>4. snap[h] = family
    BY <1>1, <1>2, <1>3, SavesWhatItLoaded
  <1>5. CASE Rotate(h) \/ Recover(h)
    BY <1>1, <1>4, <1>5 DEF Rotate, Recover, Rotated, Recovered, Families
  <1>6. CASE RevokeFamily(h) \/ ReEnroll(h)
    BY <1>1, <1>4, <1>6
    DEF RevokeFamily, ReEnroll, Revoked, ReEnrolled, Families
  <1>7. CASE DetectReuse(h)
    <2>1. PresentsPrevious(h)
      BY <1>7 DEF DetectReuse
    <2>2. family.consumed
      BY <1>1, <1>4, <1>7 DEF DetectReuse, Revoked, Families
    <2>3. QED
      BY <1>1, <1>4, <2>1, <2>2 DEF PresentsPrevious, UsesMatchRow
  <1>8. QED
    BY <1>2, <1>3, <1>5, <1>6, <1>7 DEF RowStep

\* A family is ended for reuse only where the token presented was reused.
THEOREM OnlyReuseIsReuse == Spec => ReuseHappened
  <1>1. Init => IInv
    BY InitInv
  <1>2. IInv /\ [Next]_vars
          => [family.reason # "twice" /\ family'.reason = "twice"
                => family.previous # 0 /\ uses[family.previous] = 2]_vars
    BY ReuseStep
  <1>3. QED
    BY <1>1, <1>2, InvStep, PTL DEF Spec, ReuseHappened

\* A hash that was dropped is never recognised again.
THEOREM DroppedForGood == Spec => SpentStaysSpent
  <1>1. Init => IInv
    BY InitInv
  <1>2. IInv /\ [Next]_vars
          => [\A t \in 1..minted : t \notin Live => t \notin Live']_vars
    BY RecognisedStep
  <1>3. QED
    BY <1>1, <1>2, InvStep, PTL DEF Spec, SpentStaysSpent

\* No rotation, failed save or crash undoes a revocation.
THEOREM RevocationHolds == Spec => RevocationSticks
  <1>1. Init => IInv
    BY InitInv
  <1>2. IInv /\ [Next]_vars
          => [family.revoked =>
                family'.revoked \/ (Live' = {minted'} /\ minted' > minted)]_vars
    BY RecognisedStep
  <1>3. QED
    BY <1>1, <1>2, InvStep, PTL DEF Spec, RevocationSticks

-----------------------------------------------------------------------------
(* One interrupted rotation is a non-event.                                *)

\* The calls of the Bridge have not overlapped, and no power loss has undone
\* a rename that was left without a flush.
Calm == ~raced /\ ~undone

\* The tokens the Bridge has on file, or may have next while it stays calm.
Kept ==
  {cred.token} \cup (IF unflushed THEN {} ELSE {durable.token})
               \cup {reply[c] : c \in Calls}

\* With what a power loss may bring back.
Stored == Kept \cup {durable.token}

\* A token is no use to anybody, is still recognised, or has bought all that
\* a token may.
Held(t) ==
  t = 0 \/ t < root \/ family.revoked \/ t \in Live \/ uses[t] = 2

\* Of two calls one at most is under way, its handler included.
OneBusy == ~raced => \A c, d \in Calls : Free(c) \/ Free(d) \/ c = d

\* A handler works for a call that waits, or was given up, and answers once.
HandlersFit ==
  /\ \A c \in Calls :
       /\ client[c] \in {"loaded", "renamed"} => host[c] = "idle"
       /\ reply[c] # 0 => host[c] = "replied"
  /\ request[Owner].op # "rotate"

\* A rotation asks with the token on file.
AskedIsStored ==
  Calm => \A c \in Calls :
    (client[c] = "loaded" \/ host[c] # "idle") /\ request[c].op = "rotate"
      => request[c].token = cred.token

\* What a power loss would leave is what is on file, but between a rename and
\* its flush, and where that flush did not come.
FileIsFlushed ==
  durable = cred \/ unflushed \/ \E c \in Calls : client[c] = "renamed"

KeptIsMinted ==
  /\ \A t \in Stored : t <= minted
  /\ cred.token = 0 => cred = NoCredential
  /\ durable.token = 0 => durable = NoCredential

KeptIsHeld == Calm => \A t \in Kept : Held(t)

StoredInv ==
  /\ OneBusy /\ HandlersFit /\ AskedIsStored /\ FileIsFlushed
  /\ KeptIsMinted /\ KeptIsHeld

LEMMA StoredInit == Init => StoredInv
  <1> SUFFICES ASSUME Init PROVE StoredInv
    OBVIOUS
  <1> USE OwnerIsApart, BoundsAreNat DEF Init, Handlers
  <1>1. Stored \subseteq {0} /\ Kept \subseteq {0}
    BY DEF Kept, Stored, NoCredential
  <1>2. OneBusy /\ AskedIsStored /\ FileIsFlushed
    BY DEF OneBusy, Free, AskedIsStored, FileIsFlushed
  <1>3. HandlersFit
    BY DEF HandlersFit, NoRequest
  <1>4. KeptIsMinted /\ KeptIsHeld
    BY <1>1 DEF KeptIsMinted, KeptIsHeld, Held
  <1> QED
    BY <1>2, <1>3, <1>4 DEF StoredInv

\* A handler that runs answers with nothing or with the token it minted, which
\* is then the current one.
LEMMA HandleDoes ==
  ASSUME IInv, NEW h \in Handlers, Handle(h)
  PROVE  \E answer \in {0, minted + 1} :
           /\ host[h] = "loaded" /\ Finish(h, answer)
           /\ minted \in Nat /\ minted' \in {minted, minted + 1}
           /\ answer <= minted'
           /\ answer # 0 => family'.current = answer
           /\ RowStep(h) \/ UNCHANGED <<family, uses, root>>
  <1> USE DEF RowStep
  <1>1. minted \in Nat /\ snap[h] \in Families /\ LockProtectsRow
    BY BoundsAreNat DEF IInv, TypeOK
  <1>2. CASE RotateRefused(h) \/ NoSuchFamily(h) \/ SaveFails(h)
    BY <1>1, <1>2 DEF RotateRefused, NoSuchFamily, SaveFails, Running
  <1>3. CASE DetectReuse(h) \/ RevokeFamily(h)
    BY <1>1, <1>3 DEF DetectReuse, PresentsPrevious, RevokeFamily, Running
  <1>4. CASE Rotate(h)
    BY <1>1, <1>4 DEF Rotate, Rotated, Bought, Families, Running
  <1>5. CASE Recover(h)
    BY <1>1, <1>5
    DEF Recover, Recovered, Bought, PresentsPrevious, Families, Running
  <1>6. CASE Enroll(h)
    BY <1>1, <1>6 DEF Enroll, FreshFamily, NoFamily, Running
  <1>7. CASE ReEnroll(h)
    BY <1>1, <1>7 DEF ReEnroll, ReEnrolled, Families, Running
  <1> QED
    BY <1>2, <1>3, <1>4, <1>5, <1>6, <1>7 DEF Handle

\* What a saving handler writes over a token that is held: a rotation drops
\* none but those its own request does not name.
LEMMA RowKeepsHeld ==
  ASSUME IInv, NEW h \in Handlers, RowStep(h), NEW t \in 0..minted, Held(t),
         request[h].op = "rotate" => t = 0 \/ t = request[h].token
  PROVE  Held(t)'
  <1> USE BoundsAreNat DEF Held, Live
  <1>1. /\ minted \in 0..MaxTokens /\ root \in 0..minted /\ family \in Families
        /\ uses \in [Tokens -> Nat] /\ LockProtectsRow /\ UsesMatchRow
    BY DEF IInv, TypeOK
  <1>2. CASE Enroll(h)
    BY <1>1, <1>2 DEF Enroll
  <1>3. CASE ReEnroll(h)
    BY <1>1, <1>3 DEF ReEnroll
  <1>4. ASSUME ~Enroll(h) PROVE snap[h] = family /\ family.exists
    BY <1>1, <1>4, SavesWhatItLoaded
  <1>5. CASE DetectReuse(h) \/ RevokeFamily(h)
    <2>1. ~Enroll(h) /\ \E why : family' = Revoked(family, why)
      BY <1>4, <1>5 DEF DetectReuse, RevokeFamily, Enroll, PresentsPrevious,
                        Running
    <2> QED
      BY <1>1, <2>1 DEF Revoked, Families
  <1>6. CASE Rotate(h)
    <2>1. ~Enroll(h) /\ request[h].op = "rotate"
      BY <1>6 DEF Rotate, Enroll, Running
    <2>2. request[h].token = family.current /\ family' = Rotated(family, minted + 1)
      BY <1>4, <1>6, <2>1 DEF Rotate
    <2>3. family'.previous = family.current
      BY <1>1, <2>2 DEF Rotated, Families
    <2> QED
      BY <2>1, <2>2, <2>3
  <1>7. CASE Recover(h)
    <2>1. ~Enroll(h) /\ request[h].op = "rotate"
      BY <1>7 DEF Recover, PresentsPrevious, Enroll, Running
    <2>2. /\ request[h].token = family.previous /\ ~family.consumed
          /\ family.previous # 0
          /\ uses' = [uses EXCEPT ![family.previous] = @ + 1]
      BY <1>4, <1>7, <2>1 DEF Recover, PresentsPrevious, Bought
    <2>3. family.previous \in Tokens /\ uses[family.previous] = 1
      BY <1>1, <2>2 DEF UsesMatchRow, Families, Tokens
    <2> QED
      BY <1>1, <2>1, <2>2, <2>3
  <1> QED
    BY <1>2, <1>3, <1>5, <1>6, <1>7 DEF RowStep

\* Where the row stays, so does what is held.
LEMMA SameRowHolds ==
  ASSUME NEW t, Held(t), UNCHANGED <<family, uses, root>>
  PROVE  Held(t)'
  BY DEF Held, Live

\* The steps in which the Bridge takes nothing but what it keeps already.
LEMMA OthersKeep ==
  ASSUME KeptIsMinted, KeptIsHeld, UNCHANGED <<family, uses, root, minted>>,
         Calm' => Calm /\ Kept' \subseteq Kept \cup {0}, minted \in Nat,
         Stored' \subseteq Stored \cup {0},
         cred'.token = 0 => cred' = NoCredential,
         durable'.token = 0 => durable' = NoCredential
  PROVE  KeptIsMinted' /\ KeptIsHeld'
  <1>1. KeptIsMinted'
    BY DEF KeptIsMinted
  <1>2. ASSUME Calm', NEW t \in Kept' PROVE Held(t)'
    <2>1. CASE t = 0
      BY <2>1 DEF Held
    <2>2. CASE t \in Kept
      <3>1. Held(t)
        BY <1>2, <2>2 DEF KeptIsHeld
      <3> QED
        BY <3>1, SameRowHolds
    <2> QED
      BY <1>2, <2>1, <2>2
  <1>3. KeptIsHeld'
    BY <1>2 DEF KeptIsHeld
  <1> QED
    BY <1>1, <1>3

\* What is not busy stays so, unless a call starts, which records an overlap.
LEMMA BusyStep ==
  ASSUME IInv, OneBusy, HandlersFit, Next
  PROVE  OneBusy'
  <1> USE DEF Free
  <1>1. TypeOK /\ Calls \subseteq Handlers /\ Owner \in Handlers /\ Owner \notin Calls
    BY OwnerIsApart DEF IInv, Handlers
  <1>2. ASSUME UNCHANGED raced, \A c \in Calls : Free(c) => Free(c)'
        PROVE  OneBusy'
    BY <1>2 DEF OneBusy
  <1>3. ASSUME NEW c \in Calls, StartEnroll(c) \/ StartRefresh(c) PROVE OneBusy'
    <2>1. raced' = (raced \/ \E d \in Calls : ~Free(d))
      BY <1>3 DEF StartEnroll, StartRefresh
    <2>2. \A d \in Calls \ {c} : client'[d] = client[d] /\ host'[d] = host[d]
      BY <1>1, <1>3 DEF StartEnroll, StartRefresh, TypeOK
    <2>3. CASE \E d \in Calls : ~Free(d)
      BY <2>1, <2>3 DEF OneBusy
    <2>4. CASE \A d \in Calls : Free(d)
      <3>1. \A d \in Calls \ {c} : Free(d)'
        BY <2>2, <2>4
      <3> QED
        BY <3>1 DEF OneBusy
    <2> QED
      BY <2>3, <2>4
  <1>4. ASSUME NEW c \in Calls,
               \/ SendRotate(c) \/ TakeRefusal(c) \/ StoreCredential(c)
               \/ StoreFails(c) \/ FlushDirectory(c) \/ GiveUp(c)
        PROVE  OneBusy'
    <2>1. UNCHANGED raced /\ client[c] # "idle"
      BY <1>4 DEF SendRotate, TakeRefusal, StoreCredential, StoreFails,
                  FlushDirectory, GiveUp, Answered
    <2>2. \A d \in Calls \ {c} : client'[d] = client[d] /\ host'[d] = host[d]
      BY <1>1, <1>4
      DEF SendRotate, TakeRefusal, StoreCredential, StoreFails, Answered,
          FlushDirectory, GiveUp, Return, Forget, TypeOK
    <2> QED
      BY <1>2, <2>1, <2>2
  <1>5. CASE BridgeCrash \/ PowerLoss
    <2>1. UNCHANGED raced /\ \A c \in Calls : Free(c) => Free(c)'
      BY <1>1, <1>5 DEF BridgeCrash, PowerLoss, BridgeStops, TypeOK
    <2> QED
      BY <1>2, <2>1
  <1>6. CASE \E o \in {"revoke", "reenroll"} : OwnerAsks(o)
    <2>1. UNCHANGED <<raced, client>> /\ \A c \in Calls : host'[c] = host[c]
      BY <1>1, <1>6 DEF OwnerAsks, TypeOK
    <2> QED
      BY <1>2, <2>1
  <1>7. ASSUME NEW h \in Handlers, LockAndLoad(h) \/ Handle(h) PROVE OneBusy'
    <2>1. host[h] # "idle" /\ UNCHANGED <<raced, client>>
      <3>1. CASE LockAndLoad(h)
        BY <3>1 DEF LockAndLoad
      <3>2. CASE Handle(h)
        BY <3>2, HandleDoes DEF Finish
      <3> QED
        BY <1>7, <3>1, <3>2
    <2>2. \A c \in Calls \ {h} : host'[c] = host[c]
      <3>1. CASE LockAndLoad(h)
        BY <1>1, <3>1 DEF LockAndLoad, TypeOK
      <3>2. CASE Handle(h)
        BY <1>1, <3>2, HandleDoes DEF Finish, TypeOK
      <3> QED
        BY <1>7, <3>1, <3>2
    <2> QED
      BY <1>2, <2>1, <2>2
  <1>8. CASE HostCrash
    <2>1. UNCHANGED raced /\ \A c \in Calls : Free(c) => Free(c)'
      BY <1>1, <1>8 DEF HostCrash, TypeOK
    <2> QED
      BY <1>2, <2>1
  <1>9. CASE Tick
    BY <1>2, <1>9 DEF Tick
  <1> QED
    BY <1>3, <1>4, <1>5, <1>6, <1>7, <1>8, <1>9 DEF Next, BridgeStep

\* Handlers answer the calls that wait for them.
LEMMA HandlersStep ==
  ASSUME IInv, HandlersFit, Next
  PROVE  HandlersFit'
  <1> USE DEF HandlersFit
  <1>1. TypeOK /\ Calls \subseteq Handlers /\ Owner \in Handlers /\ Owner \notin Calls
    BY OwnerIsApart DEF IInv, Handlers
  <1>2. NoRequest.op = "none"
    BY DEF NoRequest
  <1>3. ASSUME NEW c \in Calls, BridgeStep(c) PROVE HandlersFit'
    <2>1. request'[Owner] = request[Owner]
      BY <1>1, <1>3
      DEF BridgeStep, StartEnroll, StartRefresh, SendRotate, TakeRefusal,
          StoreCredential, StoreFails, FlushDirectory, GiveUp, Forget, TypeOK
    <2>2. \A d \in Calls \ {c} : /\ client'[d] = client[d] /\ host'[d] = host[d]
                                /\ reply'[d] = reply[d]
      BY <1>1, <1>3
      DEF BridgeStep, StartEnroll, StartRefresh, SendRotate, TakeRefusal,
          StoreCredential, StoreFails, FlushDirectory, GiveUp, Return, Forget,
          TypeOK
    <2>3. /\ client'[c] \in {"loaded", "renamed"} => host'[c] = "idle"
          /\ reply'[c] # 0 => host'[c] = "replied"
      <3>1. CASE StartEnroll(c) \/ StartRefresh(c) \/ SendRotate(c)
        BY <1>1, <3>1 DEF StartEnroll, StartRefresh, SendRotate, Free, TypeOK
      <3>2. CASE TakeRefusal(c) \/ StoreCredential(c) \/ StoreFails(c)
        BY <1>1, <3>2 DEF TakeRefusal, StoreCredential, StoreFails, Answered,
                          Return, Forget, TypeOK
      <3>3. CASE FlushDirectory(c) \/ GiveUp(c)
        BY <1>1, <3>3 DEF FlushDirectory, GiveUp, Return, Forget, TypeOK
      <3> QED
        BY <1>3, <3>1, <3>2, <3>3 DEF BridgeStep
    <2> QED
      BY <2>1, <2>2, <2>3
  <1>4. CASE BridgeCrash \/ PowerLoss
    BY <1>1, <1>4 DEF BridgeCrash, PowerLoss, BridgeStops, TypeOK
  <1>5. ASSUME NEW o \in {"revoke", "reenroll"}, OwnerAsks(o) PROVE HandlersFit'
    <2>1. [op |-> o, token |-> 0].op # "rotate"
      OBVIOUS
    <2> QED
      BY <1>1, <1>5, <2>1 DEF OwnerAsks, TypeOK
  <1>6. ASSUME NEW h \in Handlers, LockAndLoad(h) PROVE HandlersFit'
    BY <1>1, <1>6 DEF LockAndLoad, TypeOK
  <1>7. ASSUME NEW h \in Handlers, Handle(h) PROVE HandlersFit'
    <2>1. PICK answer \in {0, minted + 1} : host[h] = "loaded" /\ Finish(h, answer)
      BY <1>7, HandleDoes
    <2> QED
      BY <1>1, <1>2, <2>1 DEF Finish, TypeOK
  <1>8. CASE HostCrash
    BY <1>1, <1>2, <1>8 DEF HostCrash, TypeOK
  <1>9. CASE Tick
    BY <1>9 DEF Tick
  <1> QED
    BY <1>3, <1>4, <1>5, <1>6, <1>7, <1>8, <1>9 DEF Next

\* Once the Bridge's calls overlap, or a power loss undoes a rename left
\* unflushed, that is not forgotten.
LEMMA CalmBefore ==
  ASSUME IInv, Next, Calm'
  PROVE  Calm
  <1> USE DEF bridgeVars, disk
  <1> DEFINE Overlap == \E d \in Calls : ~Free(d)
             Sticks == /\ raced' = raced \/ raced' = (raced \/ Overlap)
                       /\ undone' = undone \/ undone' = (undone \/ unflushed)
  <1>1. ASSUME NEW c \in Calls, BridgeStep(c) PROVE Sticks
    BY <1>1 DEF BridgeStep, StartEnroll, StartRefresh, SendRotate, TakeRefusal,
                StoreCredential, StoreFails, FlushDirectory, GiveUp
  <1>2. ASSUME BridgeCrash \/ PowerLoss PROVE Sticks
    BY <1>2 DEF BridgeCrash, PowerLoss, BridgeStops
  <1>3. ASSUME NEW o \in {"revoke", "reenroll"}, OwnerAsks(o) PROVE Sticks
    BY <1>3 DEF OwnerAsks
  <1>4. ASSUME NEW h \in Handlers, LockAndLoad(h) \/ Handle(h) PROVE Sticks
    BY <1>4 DEF LockAndLoad, Handle, RotateRefused, Rotate, Recover, DetectReuse,
                Enroll, RevokeFamily, ReEnroll, NoSuchFamily, SaveFails, Finish
  <1>5. ASSUME HostCrash \/ Tick PROVE Sticks
    BY <1>5 DEF HostCrash, Tick
  <1>6. Sticks
    BY <1>1, <1>2, <1>3, <1>4, <1>5 DEF Next
  <1> HIDE DEF Overlap
  <1>7. raced \in BOOLEAN /\ undone \in BOOLEAN
    BY DEF IInv, TypeOK
  <1>8. CASE raced = TRUE
    BY <1>6, <1>8 DEF Calm
  <1>9. CASE undone = TRUE
    BY <1>6, <1>9 DEF Calm
  <1> QED
    BY <1>7, <1>8, <1>9 DEF Calm

\* Beside a call that is under way there is no other.
LEMMA AloneWhenCalm ==
  ASSUME OneBusy, Calm, NEW c \in Calls, ~Free(c)
  PROVE  \A d \in Calls \ {c} : Free(d)
  BY DEF OneBusy, Calm

\* A call asks with what it loaded, and nobody stores another meanwhile.
LEMMA AskedStep ==
  ASSUME IInv, StoredInv, Next
  PROVE  AskedIsStored'
  <1> SUFFICES ASSUME Calm', NEW c \in Calls,
                      client'[c] = "loaded" \/ host'[c] # "idle",
                      request'[c].op = "rotate"
               PROVE  request'[c].token = cred'.token
    BY DEF AskedIsStored
  <1> USE DEF Free
  <1>1. /\ TypeOK /\ OneBusy /\ HandlersFit /\ FileIsFlushed
        /\ Calls \subseteq Handlers /\ Owner \in Handlers /\ Owner \notin Calls
    BY OwnerIsApart DEF IInv, Handlers, StoredInv
  <1>2. NoRequest.op = "none"
    BY DEF NoRequest
  <1>3. Calm
    BY CalmBefore
  <1>4. ASSUME (client[c] = "loaded" \/ host[c] # "idle"), request[c].op = "rotate"
        PROVE  request[c].token = cred.token /\ ~Free(c)
    BY <1>3, <1>4 DEF AskedIsStored, StoredInv
  <1>5. ASSUME NEW d \in Calls, StartEnroll(d) PROVE request'[c].token = cred'.token
    <2>1. c # d
      <3>1. [op |-> "enroll", token |-> 0].op # "rotate"
        OBVIOUS
      <3> QED
        BY <1>1, <1>5, <3>1 DEF StartEnroll, TypeOK
    <2> QED
      BY <1>1, <1>4, <1>5, <2>1 DEF StartEnroll, TypeOK, bridgeVars
  <1>6. ASSUME NEW d \in Calls, StartRefresh(d) PROVE request'[c].token = cred'.token
    <2>1. CASE c = d
      BY <1>1, <1>6, <2>1 DEF StartRefresh, TypeOK, bridgeVars
    <2>2. CASE c # d
      BY <1>1, <1>4, <1>6, <2>2 DEF StartRefresh, TypeOK, bridgeVars
    <2> QED
      BY <2>1, <2>2
  <1>7. ASSUME NEW d \in Calls, SendRotate(d) PROVE request'[c].token = cred'.token
    BY <1>1, <1>4, <1>7 DEF SendRotate, TypeOK
  <1>8. ASSUME NEW d \in Calls, TakeRefusal(d) \/ StoreFails(d)
        PROVE  request'[c].token = cred'.token
    <2>1. c # d
      BY <1>1, <1>2, <1>8 DEF TakeRefusal, StoreFails, Forget, TypeOK
    <2> QED
      BY <1>1, <1>4, <1>8, <2>1
      DEF TakeRefusal, StoreFails, Return, Forget, TypeOK
  <1>9. ASSUME NEW d \in Calls, StoreCredential(d) PROVE FALSE
    <2>1. c # d
      BY <1>1, <1>2, <1>9 DEF StoreCredential, Forget, TypeOK
    <2>2. ~Free(d)
      BY <1>9 DEF StoreCredential, Answered
    <2>3. Free(c)
      BY <1>1, <1>3, <2>1, <2>2, AloneWhenCalm
    <2> QED
      BY <1>1, <1>9, <2>1, <2>3 DEF StoreCredential, Forget, TypeOK
  <1>10. ASSUME NEW d \in Calls, FlushDirectory(d) PROVE request'[c].token = cred'.token
    BY <1>1, <1>4, <1>10 DEF FlushDirectory, Return, TypeOK
  <1>11. ASSUME NEW d \in Calls, GiveUp(d) PROVE request'[c].token = cred'.token
    BY <1>1, <1>2, <1>4, <1>11 DEF GiveUp, Return, Forget, TypeOK
  <1>12. CASE BridgeCrash \/ PowerLoss
    <2>1. /\ host[c] # "idle" /\ request'[c] = request[c]
          /\ client'[c] = "idle"
      BY <1>1, <1>2, <1>12 DEF BridgeCrash, PowerLoss, BridgeStops, TypeOK
    <2>2. request[c].token = cred.token /\ ~Free(c)
      BY <1>4, <2>1
    <2>3. \A d \in Calls : client[d] # "renamed"
      BY <1>1, <1>3, <2>1, <2>2, AloneWhenCalm DEF HandlersFit
    <2>4. durable = cred \/ unflushed
      BY <1>1, <2>3 DEF FileIsFlushed
    <2>5. CASE BridgeCrash
      BY <2>1, <2>2, <2>5 DEF BridgeCrash, BridgeStops
    <2>6. CASE PowerLoss
      <3>1. durable = cred
        BY <2>4, <2>6 DEF PowerLoss, Calm
      <3> QED
        BY <2>1, <2>2, <2>6, <3>1 DEF PowerLoss, BridgeStops
    <2> QED
      BY <1>12, <2>5, <2>6
  <1>13. ASSUME NEW o \in {"revoke", "reenroll"}, OwnerAsks(o)
         PROVE  request'[c].token = cred'.token
    BY <1>1, <1>4, <1>13 DEF OwnerAsks, TypeOK, bridgeVars
  <1>14. ASSUME NEW h \in Handlers, LockAndLoad(h) PROVE request'[c].token = cred'.token
    BY <1>1, <1>4, <1>14 DEF LockAndLoad, TypeOK, bridgeVars
  <1>15. ASSUME NEW h \in Handlers, Handle(h) PROVE request'[c].token = cred'.token
    <2>1. PICK answer \in {0, minted + 1} : host[h] = "loaded" /\ Finish(h, answer)
      BY <1>15, HandleDoes
    <2>2. UNCHANGED <<cred, client>> /\ request'[c] \in {request[c], NoRequest}
      BY <1>1, <2>1 DEF Finish, TypeOK, bridgeVars
    <2>3. client[c] = "loaded" \/ host[c] # "idle"
      BY <1>1, <2>1, <2>2 DEF Finish, TypeOK
    <2> QED
      BY <1>2, <1>4, <2>2, <2>3
  <1>16. CASE HostCrash
    BY <1>1, <1>2, <1>4, <1>16 DEF HostCrash, TypeOK
  <1>17. CASE Tick
    BY <1>4, <1>17 DEF Tick
  <1> QED
    BY <1>5, <1>6, <1>7, <1>8, <1>9, <1>10, <1>11, <1>12, <1>13, <1>14, <1>15,
       <1>16, <1>17 DEF Next, BridgeStep

\* A renamed file is flushed, or the rename stays without a flush and that
\* is recorded.
LEMMA FileStep ==
  ASSUME IInv, StoredInv, Next
  PROVE  FileIsFlushed'
  <1> USE DEF FileIsFlushed
  <1>1. TypeOK /\ FileIsFlushed
    BY DEF IInv, StoredInv
  <1>2. ASSUME UNCHANGED <<cred, durable, unflushed>>,
               \A c \in Calls : client[c] = "renamed" => client'[c] = "renamed"
        PROVE  FileIsFlushed'
    BY <1>1, <1>2
  <1>3. ASSUME NEW c \in Calls,
               \/ StartEnroll(c) \/ StartRefresh(c) \/ SendRotate(c)
               \/ TakeRefusal(c) \/ StoreFails(c) \/ GiveUp(c)
        PROVE  FileIsFlushed'
    <2>1. UNCHANGED <<cred, durable, unflushed>> /\ client[c] # "renamed"
      BY <1>3 DEF StartEnroll, StartRefresh, SendRotate, TakeRefusal, StoreFails,
                  GiveUp, Free, Answered, bridgeVars, disk
    <2>2. \A d \in Calls \ {c} : client'[d] = client[d]
      BY <1>1, <1>3 DEF StartEnroll, StartRefresh, SendRotate, TakeRefusal,
                        StoreFails, GiveUp, Return, TypeOK
    <2> QED
      BY <1>2, <2>1, <2>2
  <1>4. ASSUME NEW c \in Calls, StoreCredential(c) PROVE FileIsFlushed'
    BY <1>1, <1>4 DEF StoreCredential, TypeOK
  <1>5. ASSUME NEW c \in Calls, FlushDirectory(c) PROVE FileIsFlushed'
    BY <1>5 DEF FlushDirectory
  <1>6. CASE BridgeCrash
    <2>1. UNCHANGED <<cred, durable>>
      BY <1>6 DEF BridgeCrash, BridgeStops
    <2>2. unflushed' = (unflushed \/ \E c \in Calls : client[c] = "renamed")
      BY <1>6 DEF BridgeCrash
    <2> QED
      BY <1>1, <2>1, <2>2
  <1>7. CASE PowerLoss
    BY <1>7 DEF PowerLoss, BridgeStops
  <1>8. CASE \E o \in {"revoke", "reenroll"} : OwnerAsks(o)
    BY <1>2, <1>8 DEF OwnerAsks, bridgeVars, disk
  <1>9. ASSUME NEW h \in Handlers, LockAndLoad(h) PROVE FileIsFlushed'
    BY <1>2, <1>9 DEF LockAndLoad, bridgeVars, disk
  <1>10. ASSUME NEW h \in Handlers, Handle(h) PROVE FileIsFlushed'
    <2>1. UNCHANGED <<cred, durable, client, unflushed>>
      BY <1>10, HandleDoes DEF Finish, bridgeVars, disk
    <2> QED
      BY <1>2, <2>1
  <1>11. CASE HostCrash
    <2>1. UNCHANGED <<cred, durable, unflushed>>
      BY <1>11 DEF HostCrash, disk
    <2>2. \A c \in Calls : client[c] = "renamed" => client'[c] = "renamed"
      BY <1>1, <1>11 DEF HostCrash, TypeOK
    <2> QED
      BY <1>2, <2>1, <2>2
  <1>12. CASE Tick
    BY <1>2, <1>12 DEF Tick, disk
  <1> QED
    BY <1>3, <1>4, <1>5, <1>6, <1>7, <1>8, <1>9, <1>10, <1>11, <1>12
    DEF Next, BridgeStep

\* A rotation that saves is of the token on file, so that whatever it drops
\* is not one the Bridge keeps.
LEMMA KeptStep ==
  ASSUME IInv, StoredInv, Next
  PROVE  KeptIsMinted' /\ KeptIsHeld'
  <1>1. /\ TypeOK /\ KeptIsMinted /\ KeptIsHeld /\ (Calm' => Calm)
        /\ minted \in Nat
    BY CalmBefore, BoundsAreNat DEF IInv, StoredInv, TypeOK
  <1>2. ASSUME UNCHANGED <<hostVars, cred, durable, unflushed>>,
               \A d \in Calls : reply'[d] \in {reply[d], 0}
        PROVE  KeptIsMinted' /\ KeptIsHeld'
    <2>1. Kept' \subseteq Kept \cup {0} /\ Stored' \subseteq Stored \cup {0}
      BY <1>2 DEF Kept, Stored
    <2> QED
      BY <1>1, <1>2, <2>1, OthersKeep DEF hostVars, KeptIsMinted
  <1>3. ASSUME NEW c \in Calls,
               \/ StartEnroll(c) \/ StartRefresh(c) \/ SendRotate(c)
               \/ TakeRefusal(c) \/ StoreFails(c) \/ GiveUp(c)
        PROVE  KeptIsMinted' /\ KeptIsHeld'
    <2>1. UNCHANGED <<hostVars, cred, durable, unflushed>>
      BY <1>3 DEF StartEnroll, StartRefresh, SendRotate, TakeRefusal, StoreFails,
                  GiveUp, bridgeVars, disk
    <2>2. \A d \in Calls : reply'[d] \in {reply[d], 0}
      BY <1>1, <1>3 DEF StartEnroll, StartRefresh, SendRotate, TakeRefusal,
                        StoreFails, GiveUp, Forget, TypeOK
    <2> QED
      BY <1>2, <2>1, <2>2
  <1>4. ASSUME NEW c \in Calls, StoreCredential(c)
        PROVE  KeptIsMinted' /\ KeptIsHeld'
    <2>1. /\ cred'.token = reply[c] /\ reply[c] # 0
          /\ UNCHANGED <<hostVars, durable, unflushed>>
          /\ reply' = [reply EXCEPT ![c] = 0]
      BY <1>4 DEF StoreCredential, Forget, disk
    <2>2. \A d \in Calls : reply'[d] \in {reply[d], 0}
      BY <1>1, <2>1 DEF TypeOK
    <2>3. Kept' \subseteq Kept \cup {0} /\ Stored' \subseteq Stored \cup {0}
      BY <2>1, <2>2 DEF Kept, Stored
    <2> QED
      BY <1>1, <2>1, <2>3, OthersKeep DEF hostVars, KeptIsMinted
  <1>5. ASSUME NEW c \in Calls, FlushDirectory(c)
        PROVE  KeptIsMinted' /\ KeptIsHeld'
    <2>1. /\ UNCHANGED <<hostVars, cred, reply>>
          /\ \/ durable' = cred
             \/ durable' = durable /\ unflushed' = TRUE
      BY <1>5 DEF FlushDirectory
    <2>2. Kept' \subseteq Kept \cup {0} /\ Stored' \subseteq Stored \cup {0}
      BY <2>1 DEF Kept, Stored
    <2> QED
      BY <1>1, <2>1, <2>2, OthersKeep DEF hostVars, KeptIsMinted
  <1>6. CASE BridgeCrash
    <2>1. /\ UNCHANGED <<hostVars, cred, durable>>
          /\ \A d \in Calls : reply'[d] = 0
      BY <1>6 DEF BridgeCrash, BridgeStops
    <2>2. unflushed' = unflushed \/ unflushed' = TRUE
      <3>1. unflushed' = (unflushed \/ \E c \in Calls : client[c] = "renamed")
        BY <1>6 DEF BridgeCrash
      <3>2. unflushed \in BOOLEAN
        BY <1>1 DEF TypeOK
      <3> QED
        BY <3>1, <3>2
    <2>3. Kept' \subseteq Kept \cup {0} /\ Stored' \subseteq Stored \cup {0}
      BY <2>1, <2>2 DEF Kept, Stored
    <2> QED
      BY <1>1, <2>1, <2>3, OthersKeep DEF hostVars, KeptIsMinted
  <1>11. CASE PowerLoss
    <2>1. /\ cred' = durable /\ UNCHANGED <<hostVars, durable>>
          /\ \A d \in Calls : reply'[d] = 0
      BY <1>11 DEF PowerLoss, BridgeStops
    <2>2. Calm' => ~unflushed
      BY <1>11 DEF PowerLoss, Calm
    <2>3. Stored' \subseteq Stored \cup {0}
      BY <2>1 DEF Kept, Stored
    <2>4. Calm' => Kept' \subseteq Kept \cup {0}
      BY <2>1, <2>2 DEF Kept
    <2> QED
      BY <1>1, <2>1, <2>3, <2>4, OthersKeep DEF hostVars, KeptIsMinted
  <1>7. CASE \E o \in {"revoke", "reenroll"} : OwnerAsks(o)
    BY <1>2, <1>7 DEF OwnerAsks, bridgeVars, disk
  <1>8. ASSUME NEW h \in Handlers, LockAndLoad(h)
        PROVE  KeptIsMinted' /\ KeptIsHeld'
    <2>1. /\ UNCHANGED <<family, uses, root, minted, cred, durable, reply, unflushed>>
      BY <1>8 DEF LockAndLoad, bridgeVars, disk
    <2>2. Kept' \subseteq Kept \cup {0} /\ Stored' \subseteq Stored \cup {0}
      BY <2>1 DEF Kept, Stored
    <2> QED
      BY <1>1, <2>1, <2>2, OthersKeep DEF KeptIsMinted
  <1>9. CASE HostCrash \/ Tick
    <2>1. /\ UNCHANGED <<family, uses, root, minted, cred, durable, unflushed>>
          /\ \A d \in Calls : reply'[d] \in {reply[d], 0}
      BY <1>9 DEF HostCrash, Tick, disk
    <2>2. Kept' \subseteq Kept \cup {0} /\ Stored' \subseteq Stored \cup {0}
      BY <2>1 DEF Kept, Stored
    <2> QED
      BY <1>1, <2>1, <2>2, OthersKeep DEF KeptIsMinted
  <1>10. ASSUME NEW h \in Handlers, Handle(h)
         PROVE  KeptIsMinted' /\ KeptIsHeld'
    <2>1. PICK answer \in {0, minted + 1} :
            /\ host[h] = "loaded" /\ Finish(h, answer)
            /\ minted' \in {minted, minted + 1} /\ answer <= minted'
            /\ answer # 0 => family'.current = answer
            /\ RowStep(h) \/ UNCHANGED <<family, uses, root>>
      BY <1>10, HandleDoes
    <2>2. UNCHANGED <<cred, durable, unflushed>> /\ \A d \in Calls : reply'[d] \in {reply[d], answer}
      BY <1>1, <2>1 DEF Finish, bridgeVars, disk, TypeOK
    <2>3. Kept' \subseteq Kept \cup {answer} /\ Stored' \subseteq Stored \cup {answer}
      BY <2>2 DEF Kept, Stored
    <2>4. KeptIsMinted'
      <3>1. Stored \subseteq Nat
        BY <1>1, BoundsAreNat DEF Kept, Stored, TypeOK, Credentials
      <3>2. \A t \in Stored' : t <= minted'
        BY <1>1, <2>1, <2>3, <3>1 DEF KeptIsMinted
      <3> QED
        BY <1>1, <2>2, <3>2 DEF KeptIsMinted
    <2>5. ASSUME Calm, NEW t \in Kept, request[h].op = "rotate"
          PROVE  t = 0 \/ t = request[h].token
      <3>1. h \in Calls /\ ~Free(h) /\ client[h] # "renamed" /\ reply[h] = 0
        BY <2>1, <2>5 DEF Handlers, HandlersFit, StoredInv, Free
      <3>2. \A d \in Calls \ {h} : Free(d)
        BY <2>5, <3>1, AloneWhenCalm DEF StoredInv
      <3>3. request[h].token = cred.token
        BY <2>1, <2>5, <3>1 DEF AskedIsStored, StoredInv
      <3>4. \A d \in Calls : client[d] # "renamed" /\ reply[d] = 0
        BY <3>1, <3>2 DEF Free, HandlersFit, StoredInv
      <3>5. durable = cred \/ unflushed
        BY <3>4 DEF FileIsFlushed, StoredInv
      <3> QED
        BY <2>5, <3>3, <3>4, <3>5 DEF Kept
    <2>6. ASSUME Calm', NEW t \in Kept' PROVE Held(t)'
      <3>1. CASE t = answer
        BY <2>1, <3>1 DEF Held, Live
      <3>2. CASE t \in Kept
        <4>1. Calm /\ Held(t)
          BY <1>1, <2>6, <3>2 DEF KeptIsHeld
        <4>2. CASE UNCHANGED <<family, uses, root>>
          BY <4>1, <4>2, SameRowHolds
        <4>3. CASE RowStep(h)
          <5>1. t \in 0..minted
            <6>1. t \in Nat
              BY <1>1, <3>2, BoundsAreNat DEF Kept, TypeOK, Credentials
            <6> QED
              BY <1>1, <3>2, <6>1 DEF KeptIsMinted, Stored
          <5> QED
            BY <2>5, <3>2, <4>1, <4>3, <5>1, RowKeepsHeld
        <4> QED
          BY <2>1, <4>2, <4>3
      <3> QED
        BY <2>3, <2>6, <3>1, <3>2
    <2>7. KeptIsHeld'
      BY <2>6 DEF KeptIsHeld
    <2> QED
      BY <2>4, <2>7
  <1> QED
    BY <1>3, <1>4, <1>5, <1>6, <1>7, <1>8, <1>9, <1>10, <1>11 DEF Next, BridgeStep

\* StoredInv is inductive beside IInv.
LEMMA StoredStep == IInv /\ StoredInv /\ [Next]_vars => StoredInv'
  <1> SUFFICES ASSUME IInv, StoredInv, [Next]_vars PROVE StoredInv'
    OBVIOUS
  <1>1. CASE Next
    BY <1>1, BusyStep, HandlersStep, AskedStep, FileStep, KeptStep DEF StoredInv
  <1>2. CASE UNCHANGED vars
    BY <1>2 DEF vars, disk, StoredInv, OneBusy, Free, HandlersFit, AskedIsStored,
                FileIsFlushed, KeptIsMinted, KeptIsHeld, Kept, Stored, Held, Live, Calm
  <1> QED
    BY <1>1, <1>2

\* "This is the outcome that turns a crash into a non-event" (refresh.go): after
\* any number of losses the Bridge's file still buys a rotation.
THEOREM InterruptionRecovers == Spec => []InterruptionIsRecoverable
  <1>1. Init => IInv /\ StoredInv
    BY InitInv, StoredInit
  <1>2. IInv /\ StoredInv => InterruptionIsRecoverable
    <2> SUFFICES ASSUME IInv, StoredInv, Calm, cred # NoCredential,
                        cred.token >= root, ~family.revoked,
                        uses[cred.token] <= 1
                 PROVE  \/ cred.token = family.current
                        \/ cred.token = family.previous /\ ~family.consumed
      BY DEF InterruptionIsRecoverable, Calm
    <2>1. TypeOK /\ UsesMatchRow /\ cred.token # 0
      BY DEF IInv, StoredInv, KeptIsMinted
    <2>2. Held(cred.token)
      BY DEF StoredInv, KeptIsHeld, Kept
    <2>3. cred.token \in Live
      BY <2>1, <2>2, BoundsAreNat DEF Held, TypeOK, Credentials
    <2>4. family.previous # 0 /\ family.consumed => uses[family.previous] = 2
      BY <2>1 DEF UsesMatchRow
    <2> QED
      BY <2>1, <2>3, <2>4 DEF Live
  <1> QED
    BY <1>1, <1>2, InvStep, StoredStep, PTL DEF Spec

=============================================================================
